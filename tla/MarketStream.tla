---------------------------- MODULE MarketStream ----------------------------
(***************************************************************************)
(* The best-bid stream of polymarket-data (src/market_stream.rs): one task *)
(* keeps a websocket connected and owns the prices; watch_token spawns a   *)
(* task of its own, which adds the token to the subscriptions and then     *)
(* sends it to the socket's task.  A new connection subscribes what the    *)
(* set holds; what the channel holds is subscribed on top.                 *)
(*                                                                         *)
(* A price is only told apart by the connection it came from; the length   *)
(* of the reconnect delay is left out, its end is a step.                  *)
(***************************************************************************)
EXTENDS Naturals, Sequences, SequencesExt

CONSTANTS
  Tokens,
  First,      \* the tokens the stream is created with
  Watchers,   \* calls of watch_token
  MaxBreaks   \* bound: connections that fail or end

VARIABLES
  socket,        \* the await of run_market_socket, or "stopped"
  subscriptions, \* the shared set
  additions,     \* the channel
  initial,       \* the set as the new connection read it
  watch,         \* the task of each call of watch_token, and its token
  subscribed,    \* external: what the server sends on this connection
  prices,        \* the connection each price came from, "none" if there is none
  breaks

vars == <<socket, subscriptions, additions, initial, watch, subscribed, prices, breaks>>

NoPrices == [t \in Tokens |-> "none"]

Init ==
  /\ socket = "clear"
  /\ subscriptions = First
  /\ additions = << >>
  /\ initial = {}
  /\ watch = [w \in Watchers |-> [pc |-> "idle", token |-> {}]]
  /\ subscribed = {}
  /\ prices = NoPrices
  /\ breaks = 0

\* The connection is over: its prices stay until the next attempt.
Broken ==
  /\ breaks < MaxBreaks /\ breaks' = breaks + 1
  /\ socket' = "gap"
  /\ subscribed' = {}
  /\ prices' = [t \in Tokens |-> IF prices[t] = "none" THEN "none" ELSE "ended"]

----------------------------------------------------------------------------
\* watch_token spawns its task.
Watch(w, t) ==
  /\ watch[w].pc = "idle" /\ socket # "stopped"
  /\ watch' = [watch EXCEPT ![w] = [pc |-> "insert", token |-> {t}]]
  /\ UNCHANGED <<socket, subscriptions, additions, initial, subscribed, prices, breaks>>

\* Mutated form of Insert: the token is sent before it is in the set.
InsertLate(w) ==
  /\ watch[w].pc \in {"insert", "late"}
  /\ \E t \in watch[w].token :
       IF watch[w].pc = "insert"
       THEN /\ additions' = IF t \in subscriptions THEN additions ELSE Append(additions, t)
            /\ watch' = [watch EXCEPT ![w].pc = IF t \in subscriptions THEN "done" ELSE "late"]
            /\ UNCHANGED subscriptions
       ELSE /\ subscriptions' = subscriptions \cup {t}
            /\ watch' = [watch EXCEPT ![w].pc = "done"]
            /\ UNCHANGED additions
  /\ UNCHANGED <<socket, initial, subscribed, prices, breaks>>

\* The task adds the token; only the first to do so goes on.
Insert(w) ==
  /\ watch[w].pc = "insert"
  /\ \E t \in watch[w].token :
       /\ subscriptions' = subscriptions \cup {t}
       /\ watch' = [watch EXCEPT ![w].pc = IF t \in subscriptions THEN "done" ELSE "send"]
  /\ UNCHANGED <<socket, additions, initial, subscribed, prices, breaks>>

Send(w) ==
  /\ watch[w].pc = "send"
  /\ \E t \in watch[w].token : additions' = Append(additions, t)
  /\ watch' = [watch EXCEPT ![w].pc = "done"]
  /\ UNCHANGED <<socket, subscriptions, initial, subscribed, prices, breaks>>

----------------------------------------------------------------------------
\* Mutated form of Cleared: the prices outlive their connection.
ClearedNever == prices

Cleared == NoPrices

\* Every attempt starts with no prices.
Clear ==
  /\ socket = "clear"
  /\ prices' = Cleared
  /\ socket' = "connect"
  /\ UNCHANGED <<subscriptions, additions, initial, watch, subscribed, breaks>>

Connect ==
  /\ socket = "connect"
  /\ \/ socket' = "read" /\ UNCHANGED <<subscribed, prices, breaks>>
     \/ Broken
  /\ UNCHANGED <<subscriptions, additions, initial, watch>>

ReadSubscriptions ==
  /\ socket = "read"
  /\ initial' = subscriptions
  /\ socket' = "subscribe"
  /\ UNCHANGED <<subscriptions, additions, watch, subscribed, prices, breaks>>

\* send_subscription of the set.
Subscribe ==
  /\ socket = "subscribe"
  /\ initial' = {}
  /\ \/ socket' = "live" /\ subscribed' = initial /\ UNCHANGED <<prices, breaks>>
     \/ Broken
  /\ UNCHANGED <<subscriptions, additions, watch>>

\* send_subscription of one token from the channel.
Add ==
  /\ socket = "live" /\ additions # << >>
  /\ additions' = Tail(additions)
  /\ \/ subscribed' = subscribed \cup {Head(additions)} /\ UNCHANGED <<socket, prices, breaks>>
     \/ Broken
  /\ UNCHANGED <<subscriptions, initial, watch>>

\* update_price: a valid bid, or none.
UpdatePrice(t) ==
  /\ socket = "live" /\ t \in subscribed
  /\ prices' \in {[prices EXCEPT ![t] = "live"], [prices EXCEPT ![t] = "none"]}
  /\ UNCHANGED <<socket, subscriptions, additions, initial, watch, subscribed, breaks>>

\* The heartbeat or the read fails, or the server closes.
Disconnect ==
  /\ socket = "live"
  /\ Broken
  /\ UNCHANGED <<subscriptions, additions, initial, watch>>

\* Mutated form of Again: the task returns after a failed connection.
AgainNever == "returned"

Again == "clear"

\* sleep_reconnect is over.
Reconnect ==
  /\ socket = "gap"
  /\ socket' = Again
  /\ UNCHANGED <<subscriptions, additions, initial, watch, subscribed, prices, breaks>>

\* The stream is dropped, seen where the task selects on its cancellation.
Cancel ==
  /\ socket \in {"connect", "live", "gap"}
  /\ socket' = "stopped"
  /\ subscribed' = {}
  /\ prices' = [t \in Tokens |-> IF prices[t] = "none" THEN "none" ELSE "ended"]
  /\ UNCHANGED <<subscriptions, additions, initial, watch, breaks>>

Socket == Clear \/ Connect \/ ReadSubscriptions \/ Subscribe \/ Add \/ Reconnect

Task(w) == Insert(w) \/ Send(w)

Next ==
  \/ Socket \/ Disconnect \/ Cancel
  \/ \E t \in Tokens : UpdatePrice(t) \/ \E w \in Watchers : Watch(w, t)
  \/ \E w \in Watchers : Task(w)

----------------------------------------------------------------------------
TypeOK ==
  /\ socket \in {"clear", "connect", "read", "subscribe", "live", "gap", "stopped"}
  /\ subscriptions \subseteq Tokens /\ initial \subseteq Tokens /\ subscribed \subseteq Tokens
  /\ additions \in Seq(Tokens)
  /\ watch \in [Watchers -> [pc : {"idle", "insert", "send", "done"}, token : SUBSET Tokens]]
  /\ prices \in [Tokens -> {"none", "live", "ended"}]
  /\ breaks \in 0..MaxBreaks

(***************************************************************************)
(* best_bid answers with a price of the connection there is.  The one gap  *)
(* is the reconnect delay, in which the prices of the connection that just *)
(* ended are still there; once the next attempt begins, they are not.      *)
(***************************************************************************)
PricesOfConnection ==
  /\ (\E t \in Tokens : prices[t] = "live") => socket = "live"
  /\ (\E t \in Tokens : prices[t] = "ended") => socket \notin {"connect", "read", "subscribe", "live"}

Pending == {additions[i] : i \in 1..Len(additions)}
             \cup UNION {watch[w].token : w \in {v \in Watchers : watch[v].pc = "send"}}

(***************************************************************************)
(* No watched token is forgotten: whatever the order in which the task of  *)
(* a call and the socket read and write the set and the channel, a token   *)
(* of the set is subscribed on the connection, about to be, or on its way. *)
(***************************************************************************)
NotForgotten ==
  /\ socket = "subscribe" => subscriptions \subseteq initial \cup Pending
  /\ socket = "live" => subscriptions \subseteq subscribed \cup Pending

(***************************************************************************)
(* In the end every watched token is subscribed on a live connection,      *)
(* unless the stream is dropped.                                           *)
(***************************************************************************)
AllSubscribed ==
  <>[](socket = "stopped" \/ (socket = "live" /\ subscriptions \subseteq subscribed))
=============================================================================
