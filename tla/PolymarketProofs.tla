-------------------------- MODULE PolymarketProofs --------------------------
(***************************************************************************)
(* Proofs about the market stream, for any tokens, any number of calls of  *)
(* watch_token and of connections that break, and about the metadata cache *)
(* for any keys and callers.                                               *)
(***************************************************************************)
EXTENDS Polymarket, Sequences, FiniteSetTheorems, TLAPS

Elements(q) == {q[i] : i \in 1..Len(q)}

\* What joining or leaving the channel does to what it holds.
LEMMA ChannelElements ==
  ASSUME NEW q \in Seq(Tokens), NEW t \in Tokens
  PROVE /\ Elements(Append(q, t)) = Elements(q) \cup {t}
        /\ q # << >> => Elements(q) = {Head(q)} \cup Elements(Tail(q))
<1>1. Elements(Append(q, t)) = Elements(q) \cup {t}
  <2>1. Len(Append(q, t)) = Len(q) + 1 /\ Append(q, t)[Len(q) + 1] = t
    OBVIOUS
  <2>2. \A i \in 1..Len(q) : Append(q, t)[i] = q[i] OBVIOUS
  <2>3. Len(q) \in Nat OBVIOUS
  <2> QED BY <2>1, <2>2, <2>3 DEF Elements
<1>2. ASSUME q # << >> PROVE Elements(q) = {Head(q)} \cup Elements(Tail(q))
  <2>1. Len(q) \in Nat \ {0} /\ Len(Tail(q)) = Len(q) - 1 /\ Head(q) = q[1] BY <1>2
  <2>2. \A i \in 1..Len(Tail(q)) : Tail(q)[i] = q[i + 1] BY <1>2
  <2>3. \A x \in Elements(q) : x = Head(q) \/ x \in Elements(Tail(q))
    <3> SUFFICES ASSUME NEW i \in 1..Len(q), i # 1 PROVE q[i] \in Elements(Tail(q))
      BY <2>1 DEF Elements
    <3>1. i - 1 \in 1..Len(Tail(q)) /\ (i - 1) + 1 = i BY <2>1
    <3> QED BY <2>2, <3>1 DEF Elements
  <2>4. \A x \in Elements(Tail(q)) : x \in Elements(q)
    <3> SUFFICES ASSUME NEW i \in 1..Len(Tail(q)) PROVE Tail(q)[i] \in Elements(q)
      BY DEF Elements
    <3>1. i + 1 \in 1..Len(q) BY <2>1
    <3> QED BY <2>2, <3>1 DEF Elements
  <2>5. Head(q) \in Elements(q) BY <2>1 DEF Elements
  <2> QED BY <2>3, <2>4, <2>5
<1> QED BY <1>1, <1>2

----------------------------------------------------------------------------
\* A call that has not sent its token yet has one.
OneToken ==
  \A w \in Watchers : watch[w].pc # "idle" => \E t \in Tokens : watch[w].token = {t}

StreamInv == S!TypeOK /\ OneToken /\ S!PricesOfConnection /\ S!NotForgotten

\* A step of the stream, or one that leaves its variables alone.
StreamSteps == S!Next \/ UNCHANGED streamVars

\* Every variable of the stream keeps its type.
LEMMA StreamTypeStep == ASSUME S!TypeOK, StreamSteps PROVE S!TypeOK'
<1> USE DEF S!TypeOK
<1>b. ASSUME S!Broken PROVE
        socket' = "gap" /\ subscribed' = {} /\ prices' \in [Tokens -> {"none", "live", "ended"}]
        /\ breaks' \in 0..MaxBreaks
  BY <1>b, StreamAssumption DEF S!Broken
<1>1. ASSUME NEW w \in Watchers, NEW t \in Tokens, S!Watch(w, t) PROVE S!TypeOK'
  BY <1>1 DEF S!Watch
<1>2. ASSUME NEW w \in Watchers, S!Insert(w) PROVE S!TypeOK'
  <2>1. watch' \in [Watchers -> [pc : {"idle", "insert", "send", "done"}, token : SUBSET Tokens]]
    BY <1>2 DEF S!Insert
  <2>2. subscriptions' \subseteq Tokens BY <1>2 DEF S!Insert
  <2> QED BY <1>2, <2>1, <2>2 DEF S!Insert
<1>3. ASSUME NEW w \in Watchers, S!Send(w) PROVE S!TypeOK'
  <2>1. additions' \in Seq(Tokens) BY <1>3 DEF S!Send
  <2>2. watch' \in [Watchers -> [pc : {"idle", "insert", "send", "done"}, token : SUBSET Tokens]]
    BY <1>3 DEF S!Send
  <2> QED BY <1>3, <2>1, <2>2 DEF S!Send
<1>4. ASSUME S!Clear PROVE S!TypeOK'
  BY <1>4 DEF S!Clear, S!Cleared, S!NoPrices
<1>5. ASSUME S!Connect PROVE S!TypeOK' BY <1>5, <1>b DEF S!Connect
<1>6. ASSUME S!ReadSubscriptions PROVE S!TypeOK' BY <1>6 DEF S!ReadSubscriptions
<1>7. ASSUME S!Subscribe PROVE S!TypeOK' BY <1>7, <1>b DEF S!Subscribe
<1>8. ASSUME S!Add PROVE S!TypeOK'
  <2>1. additions' \in Seq(Tokens) /\ Head(additions) \in Tokens BY <1>8 DEF S!Add
  <2> QED BY <1>8, <1>b, <2>1 DEF S!Add
<1>9. ASSUME NEW t \in Tokens, S!UpdatePrice(t) PROVE S!TypeOK' BY <1>9 DEF S!UpdatePrice
<1>10. ASSUME S!Disconnect PROVE S!TypeOK' BY <1>10, <1>b DEF S!Disconnect
<1>11. ASSUME S!Reconnect PROVE S!TypeOK' BY <1>11 DEF S!Reconnect, S!Again
<1>12. ASSUME S!Cancel PROVE S!TypeOK' BY <1>12 DEF S!Cancel
<1>13. ASSUME UNCHANGED streamVars PROVE S!TypeOK' BY <1>13 DEF streamVars
<1> QED
  BY <1>1, <1>2, <1>3, <1>4, <1>5, <1>6, <1>7, <1>8, <1>9, <1>10, <1>11, <1>12, <1>13
  DEF StreamSteps, S!Next, S!Socket, S!Task

\* A call keeps its token.
LEMMA OneTokenStep == ASSUME S!TypeOK, OneToken, StreamSteps PROVE OneToken'
<1>1. ASSUME NEW w \in Watchers, NEW t \in Tokens, S!Watch(w, t) PROVE OneToken'
  BY <1>1 DEF S!Watch, OneToken, S!TypeOK
<1>2. ASSUME NEW w \in Watchers, S!Insert(w) \/ S!Send(w) PROVE OneToken'
  <2>1. \A v \in Watchers : watch'[v].token = watch[v].token
                            /\ (watch'[v].pc # "idle" => watch[v].pc # "idle")
    BY <1>2 DEF S!Insert, S!Send, S!TypeOK
  <2> QED BY <2>1 DEF OneToken
<1>3. CASE UNCHANGED watch BY <1>3 DEF OneToken
<1>4. S!Clear \/ S!Connect \/ S!ReadSubscriptions \/ S!Subscribe \/ S!Add \/ S!Reconnect
        \/ S!Disconnect \/ S!Cancel \/ (\E t \in Tokens : S!UpdatePrice(t)) \/ UNCHANGED streamVars
        => UNCHANGED watch
  BY DEF S!Clear, S!Connect, S!ReadSubscriptions, S!Subscribe, S!Add, S!Reconnect, S!Disconnect,
         S!Cancel, S!UpdatePrice, streamVars
<1> QED BY <1>1, <1>2, <1>3, <1>4 DEF StreamSteps, S!Next, S!Socket, S!Task

\* Prices of a connection do not outlive the delay that follows it.
LEMMA PricesStep ==
  ASSUME S!TypeOK, S!PricesOfConnection, StreamSteps PROVE S!PricesOfConnection'
<1> USE DEF S!TypeOK, S!PricesOfConnection
<1>b. ASSUME S!Broken PROVE S!PricesOfConnection' BY <1>b DEF S!Broken
<1>1. CASE UNCHANGED <<socket, prices>> BY <1>1
<1>2. CASE S!Clear BY <1>2 DEF S!Clear, S!Cleared, S!NoPrices
<1>3. CASE S!Connect BY <1>3, <1>b DEF S!Connect
<1>4. CASE S!ReadSubscriptions BY <1>4 DEF S!ReadSubscriptions
<1>5. CASE S!Subscribe BY <1>5, <1>b DEF S!Subscribe
<1>6. CASE S!Add BY <1>6, <1>b DEF S!Add
<1>7. ASSUME NEW t \in Tokens, S!UpdatePrice(t) PROVE S!PricesOfConnection'
  BY <1>7 DEF S!UpdatePrice
<1>8. CASE S!Disconnect BY <1>8, <1>b DEF S!Disconnect
<1>9. CASE S!Reconnect BY <1>9 DEF S!Reconnect, S!Again
<1>10. CASE S!Cancel BY <1>10 DEF S!Cancel
<1>11. ASSUME NEW w \in Watchers, (\E t \in Tokens : S!Watch(w, t)) \/ S!Insert(w) \/ S!Send(w)
       PROVE UNCHANGED <<socket, prices>>
  BY <1>11 DEF S!Watch, S!Insert, S!Send
<1> QED
  BY <1>1, <1>2, <1>3, <1>4, <1>5, <1>6, <1>7, <1>8, <1>9, <1>10, <1>11
  DEF StreamSteps, S!Next, S!Socket, S!Task, streamVars

----------------------------------------------------------------------------
\* A call hands its token over: from itself to the set, and to the channel.
LEMMA TaskKeepsTokens ==
  ASSUME S!TypeOK, OneToken, NEW w \in Watchers, S!Insert(w) \/ S!Send(w)
  PROVE /\ S!Pending \subseteq S!Pending'
        /\ subscriptions' \subseteq subscriptions \cup S!Pending'
<1>1. CASE S!Insert(w)
  <2>1. additions' = additions BY <1>1 DEF S!Insert
  <2>2. \A v \in Watchers : watch[v].pc = "send" =>
           watch'[v].pc = "send" /\ watch'[v].token = watch[v].token
    BY <1>1 DEF S!Insert, S!TypeOK
  <2>3. S!Pending \subseteq S!Pending' BY <2>1, <2>2 DEF S!Pending
  <2>4. PICK t \in watch[w].token :
          /\ subscriptions' = subscriptions \cup {t}
          /\ watch' = [watch EXCEPT ![w].pc = IF t \in subscriptions THEN "done" ELSE "send"]
    BY <1>1 DEF S!Insert
  <2>5. CASE t \in subscriptions BY <2>3, <2>4, <2>5
  <2>6. CASE t \notin subscriptions
    <3>1. watch'[w].pc = "send" /\ watch'[w].token = watch[w].token
      BY <2>4, <2>6 DEF S!TypeOK
    <3>2. t \in S!Pending' BY <3>1 DEF S!Pending
    <3> QED BY <2>3, <2>4, <3>2
  <2> QED BY <2>5, <2>6
<1>2. CASE S!Send(w)
  <2>1. PICK t \in Tokens : watch[w].token = {t}
    BY <1>2 DEF S!Send, OneToken
  <2>2. additions' = Append(additions, t) BY <1>2, <2>1 DEF S!Send
  <2>3. Elements(additions') = Elements(additions) \cup {t}
    BY <2>1, <2>2, ChannelElements DEF S!TypeOK
  <2>4. \A v \in Watchers \ {w} : watch'[v] = watch[v] BY <1>2 DEF S!Send, S!TypeOK
  <2>5. ASSUME NEW x \in S!Pending PROVE x \in S!Pending'
    <3>1. CASE x \in Elements(additions) BY <2>3, <3>1 DEF S!Pending, Elements
    <3>2. ASSUME NEW v \in Watchers, watch[v].pc = "send", x \in watch[v].token
          PROVE x \in S!Pending'
      <4>1. CASE v = w
        <5>1. x \in Elements(additions') BY <2>1, <2>3, <3>2, <4>1
        <5> QED BY <5>1 DEF S!Pending, Elements
      <4>2. CASE v # w
        <5>1. watch'[v].pc = "send" /\ x \in watch'[v].token BY <2>4, <3>2, <4>2
        <5> QED BY <5>1 DEF S!Pending
      <4> QED BY <4>1, <4>2
    <3> QED BY <2>5, <3>1, <3>2 DEF S!Pending, Elements
  <2> QED BY <1>2, <2>5 DEF S!Send
<1> QED BY <1>1, <1>2

\* What the socket takes from the channel it subscribes.
LEMMA AddKeepsTokens ==
  ASSUME S!TypeOK, S!Add, socket' = "live"
  PROVE subscribed \cup S!Pending \subseteq subscribed' \cup S!Pending'
<1>1. subscribed' = subscribed \cup {Head(additions)} /\ additions' = Tail(additions)
      /\ watch' = watch /\ additions # << >>
  BY DEF S!Add, S!Broken
<1>2. PICK t \in Tokens : t = Head(additions) BY <1>1 DEF S!TypeOK
<1>3. Elements(additions) = {Head(additions)} \cup Elements(additions')
  BY <1>1, <1>2, ChannelElements DEF S!TypeOK
<1> QED BY <1>1, <1>3 DEF S!Pending, Elements

\* Every step keeps the tokens of the set subscribed or on their way.
LEMMA NotForgottenStep ==
  ASSUME S!TypeOK, OneToken, S!NotForgotten, StreamSteps PROVE S!NotForgotten'
<1>1. CASE UNCHANGED <<socket, subscriptions, additions, initial, watch, subscribed>>
  BY <1>1 DEF S!NotForgotten, S!Pending
<1>2. ASSUME NEW w \in Watchers, NEW t \in Tokens, S!Watch(w, t) PROVE S!NotForgotten'
  <2>1. additions' = additions /\ socket' = socket /\ subscriptions' = subscriptions
        /\ initial' = initial /\ subscribed' = subscribed
    BY <1>2 DEF S!Watch
  <2>2. \A v \in Watchers : watch[v].pc = "send" =>
           watch'[v].pc = "send" /\ watch'[v].token = watch[v].token
    BY <1>2 DEF S!Watch, S!TypeOK
  <2>3. S!Pending \subseteq S!Pending' BY <2>1, <2>2 DEF S!Pending
  <2> QED BY <2>1, <2>3 DEF S!NotForgotten
<1>3. ASSUME NEW w \in Watchers, S!Insert(w) \/ S!Send(w) PROVE S!NotForgotten'
  <2>1. socket' = socket /\ initial' = initial /\ subscribed' = subscribed
    BY <1>3 DEF S!Insert, S!Send
  <2> QED BY <1>3, <2>1, TaskKeepsTokens DEF S!NotForgotten
<1>4. CASE socket' \notin {"subscribe", "live"} BY <1>4 DEF S!NotForgotten
<1>5. CASE S!Clear BY <1>4, <1>5 DEF S!Clear
<1>6. CASE S!Connect BY <1>4, <1>6 DEF S!Connect, S!Broken
<1>7. CASE S!ReadSubscriptions BY <1>7 DEF S!ReadSubscriptions, S!NotForgotten
<1>8. CASE S!Subscribe
  <2>1. CASE socket' = "live" /\ subscribed' = initial
    <3>1. socket = "subscribe" /\ subscriptions' = subscriptions /\ additions' = additions
          /\ watch' = watch
      BY <1>8 DEF S!Subscribe
    <3> QED BY <2>1, <3>1 DEF S!NotForgotten, S!Pending
  <2> QED BY <1>4, <1>8, <2>1 DEF S!Subscribe, S!Broken
<1>9. CASE S!Add
  <2>1. CASE socket' = "live"
    <3>1. socket = "live" /\ subscriptions' = subscriptions BY <1>9 DEF S!Add
    <3> QED BY <1>9, <2>1, <3>1, AddKeepsTokens DEF S!NotForgotten
  <2> QED BY <1>4, <1>9, <2>1 DEF S!Add, S!Broken
<1>10. ASSUME NEW t \in Tokens, S!UpdatePrice(t) PROVE S!NotForgotten'
  BY <1>1, <1>10 DEF S!UpdatePrice
<1>11. CASE S!Disconnect \/ S!Reconnect \/ S!Cancel
  BY <1>4, <1>11 DEF S!Disconnect, S!Broken, S!Reconnect, S!Again, S!Cancel
<1> QED
  BY <1>1, <1>2, <1>3, <1>5, <1>6, <1>7, <1>8, <1>9, <1>10, <1>11
  DEF StreamSteps, S!Next, S!Socket, S!Task, streamVars

----------------------------------------------------------------------------
\* The stream starts unconnected, with no prices and no calls.
LEMMA StreamInit == Init => StreamInv
BY StreamAssumption DEF Init, S!Init, S!NoPrices, StreamInv, S!TypeOK, OneToken,
   S!PricesOfConnection, S!NotForgotten

\* The invariant is kept by the stream, and the cache does not touch it.
LEMMA StreamStep == StreamInv /\ [Next]_vars => StreamInv'
<1> SUFFICES ASSUME StreamInv, [Next]_vars PROVE StreamInv' OBVIOUS
<1>1. StreamSteps BY DEF Next, Stream, Cache, vars, cacheVars, StreamSteps
<1> QED
  BY <1>1, StreamTypeStep, OneTokenStep, PricesStep, NotForgottenStep DEF StreamInv

(***************************************************************************)
(* best_bid never answers with the price of an earlier connection once the *)
(* next one is attempted, for any tokens, calls and breaks.                *)
(***************************************************************************)
THEOREM PricesAreOfConnection == FairSpec => []PricesOfConnection
<1>1. StreamInv => PricesOfConnection BY DEF StreamInv, PricesOfConnection
<1> QED BY <1>1, StreamInit, StreamStep, PTL DEF FairSpec, Spec

(***************************************************************************)
(* No watched token is forgotten between the set, the channel and the      *)
(* connection, for any number of concurrent calls of watch_token.          *)
(***************************************************************************)
THEOREM NothingIsForgotten == FairSpec => []NotForgotten
<1>1. StreamInv => NotForgotten BY DEF StreamInv, NotForgotten
<1> QED BY <1>1, StreamInit, StreamStep, PTL DEF FairSpec, Spec

----------------------------------------------------------------------------
(* The cache. *)

CacheSteps == K!Next \/ UNCHANGED cacheVars

Entry == [value : Nat, inserted : Nat]
CallerType == [pc : {"idle", "load", "insert", "return"}, key : SUBSET CacheKeys, age : Nat]

(***************************************************************************)
(* A value was loaded at most one load before it was inserted, which its   *)
(* two ages show until both are counted no further.                        *)
(***************************************************************************)
FreshInv ==
  /\ entries \in [CacheKeys -> SUBSET Entry]
  /\ \A k \in CacheKeys : \A e \in entries[k] : e.inserted <= K!MaxAge => e.value <= e.inserted + MaxLoad
  /\ caller \in [Callers -> CallerType]
  /\ \A c \in Callers : caller[c].pc \in {"load", "insert"} => caller[c].age <= MaxLoad
  /\ ServedFresh

LEMMA FreshInit == K!Init => FreshInv
<1> SUFFICES ASSUME K!Init PROVE FreshInv OBVIOUS
<1>1. K!Quiet \in CallerType /\ K!Quiet.pc = "idle" BY DEF K!Quiet, CallerType
<1>2. \A c \in Callers : caller[c] = K!Quiet BY DEF K!Init
<1>3. entries \in [CacheKeys -> SUBSET Entry] /\ \A k \in CacheKeys : entries[k] = {}
  BY DEF K!Init
<1>4. caller \in [Callers -> CallerType] BY <1>1 DEF K!Init
<1> QED BY <1>1, <1>2, <1>3, <1>4 DEF FreshInv, ServedFresh, K!ServedFresh

\* A caller that moves, while the entries stay as fresh as they are.
LEMMA CallerKeeps ==
  ASSUME FreshInv, NEW c \in Callers, NEW q \in CallerType, caller' = [caller EXCEPT ![c] = q],
         q.pc \in {"load", "insert"} => q.age <= MaxLoad,
         q.pc = "return" => q.age < Ttl + MaxLoad,
         \A k \in CacheKeys : entries'[k] \subseteq entries[k],
         entries' \in [CacheKeys -> SUBSET Entry]
  PROVE FreshInv'
<1>1. /\ caller' \in [Callers -> CallerType] /\ caller'[c] = q
      /\ \A d \in Callers \ {c} : caller'[d] = caller[d]
  BY DEF FreshInv
<1>2. ServedFresh' BY <1>1 DEF FreshInv, ServedFresh, K!ServedFresh
<1>3. \A d \in Callers : caller'[d].pc \in {"load", "insert"} => caller'[d].age <= MaxLoad
  BY <1>1 DEF FreshInv
<1> QED BY <1>1, <1>2, <1>3 DEF FreshInv, K!MaxAge

LEMMA FreshStep == ASSUME FreshInv, CacheSteps PROVE FreshInv'
<1>a. Ttl \in Nat \ {0} /\ MaxLoad \in Nat /\ K!MaxAge = Ttl + MaxLoad
  BY CacheAssumption DEF K!MaxAge
<1>e. entries \in [CacheKeys -> SUBSET Entry] BY DEF FreshInv
<1>q. K!Quiet \in CallerType /\ K!Quiet.pc = "idle" BY DEF K!Quiet, CallerType
<1>1. CASE K!Tick
  <2> DEFINE aged(e) == [value |-> K!Older(e.value), inserted |-> K!Older(e.inserted)]
  <2>1. entries' = [k \in CacheKeys |-> {aged(e) : e \in entries[k]}] BY <1>1 DEF K!Tick
  <2>2. ASSUME NEW k \in CacheKeys, NEW e \in entries[k]
        PROVE /\ aged(e) \in Entry
              /\ aged(e).inserted <= K!MaxAge => aged(e).value <= aged(e).inserted + MaxLoad
    <3>1. /\ e.value \in Nat /\ e.inserted \in Nat
          /\ e.inserted <= K!MaxAge => e.value <= e.inserted + MaxLoad
      BY <1>e DEF FreshInv, Entry
    <3> QED BY <1>a, <3>1 DEF K!Older, Entry
  <2> HIDE DEF aged
  <2>3. entries' \in [CacheKeys -> SUBSET Entry] BY <2>1, <2>2
  <2>4. \A k \in CacheKeys : \A e \in entries'[k] :
          e.inserted <= K!MaxAge => e.value <= e.inserted + MaxLoad
    BY <2>1, <2>2
  <2>5. ASSUME NEW c \in Callers
        PROVE /\ caller'[c] \in CallerType /\ caller'[c].pc \in {"idle", "load"}
              /\ caller'[c].pc = "load" => caller'[c].age <= MaxLoad
    <3>1. caller[c] \in CallerType BY DEF FreshInv
    <3>2. CASE caller[c].pc = "load"
      <4> DEFINE q == [caller[c] EXCEPT !.age = @ + 1]
      <4>1. caller'[c] = q BY <1>1, <3>2 DEF K!Tick
      <4>2. caller[c].age < MaxLoad BY <1>1, <3>2 DEF K!Tick
      <4>3. caller[c].age + 1 \in Nat /\ caller[c].age + 1 <= MaxLoad
        BY <1>a, <3>1, <4>2 DEF CallerType
      <4>4. q \in CallerType /\ q.pc = "load" /\ q.age = caller[c].age + 1
        BY <3>1, <3>2, <4>3 DEF CallerType
      <4> QED BY <4>1, <4>3, <4>4
    <3>3. CASE caller[c].pc # "load" BY <1>1, <3>1, <3>3 DEF K!Tick
    <3> QED BY <3>2, <3>3
  <2>6. caller' \in [Callers -> CallerType] BY <1>1, <2>5 DEF K!Tick
  <2> QED BY <2>3, <2>4, <2>5, <2>6 DEF FreshInv, ServedFresh, K!ServedFresh, K!MaxAge
<1>2. ASSUME NEW c \in Callers, NEW k \in CacheKeys, K!Get(c, k) PROVE FreshInv'
  <2>1. ASSUME NEW e \in entries[k], ~K!Expired(e), UNCHANGED entries,
               caller' = [caller EXCEPT ![c] = [pc |-> "return", key |-> {k}, age |-> e.value]]
        PROVE FreshInv'
    <3> DEFINE q == [pc |-> "return", key |-> {k}, age |-> e.value]
    <3>1. e.value \in Nat /\ e.inserted \in Nat BY <1>e DEF Entry
    <3>2. q \in CallerType /\ q.pc = "return" /\ q.age = e.value BY <3>1 DEF CallerType
    <3>3. e.inserted < Ttl BY <1>a, <2>1, <3>1 DEF K!Expired
    <3>4. e.value <= e.inserted + MaxLoad BY <1>a, <3>1, <3>3 DEF FreshInv
    <3>5. e.value < Ttl + MaxLoad BY <1>a, <3>1, <3>3, <3>4
    <3> HIDE DEF q
    <3>6. caller' = [caller EXCEPT ![c] = q] BY <2>1 DEF q
    <3> QED BY <1>e, <2>1, <3>2, <3>5, <3>6, CallerKeeps
  <2>2. ASSUME entries' = [entries EXCEPT ![k] = {}],
               caller' = [caller EXCEPT ![c] = [pc |-> "load", key |-> {k}, age |-> 0]]
        PROVE FreshInv'
    <3> DEFINE q == [pc |-> "load", key |-> {k}, age |-> 0]
    <3>1. q \in CallerType /\ q.pc = "load" /\ q.age = 0 BY DEF CallerType
    <3>2. entries' \in [CacheKeys -> SUBSET Entry] /\ \A x \in CacheKeys : entries'[x] \subseteq entries[x]
      BY <1>e, <2>2
    <3> HIDE DEF q
    <3>3. caller' = [caller EXCEPT ![c] = q] BY <2>2 DEF q
    <3>4. q.age <= MaxLoad /\ q.pc # "return" BY <1>a, <3>1
    <3> QED BY <3>1, <3>2, <3>3, <3>4, CallerKeeps
  <2> QED BY <1>2, <2>1, <2>2 DEF K!Get
<1>3. ASSUME NEW c \in Callers, caller' = [caller EXCEPT ![c] = K!Quiet], UNCHANGED entries
      PROVE FreshInv'
  BY <1>3, <1>e, <1>q, CallerKeeps
<1>4. ASSUME NEW c \in Callers, K!Loaded(c) PROVE FreshInv'
  <2>1. CASE caller' = [caller EXCEPT ![c] = K!Quiet] BY <1>3, <1>4, <2>1 DEF K!Loaded
  <2>2. ASSUME NEW age \in 0..caller[c].age,
               caller' = [caller EXCEPT ![c].pc = "insert", ![c].age = age]
        PROVE FreshInv'
    <3> DEFINE q == [caller[c] EXCEPT !.pc = "insert", !.age = age]
    <3>1. caller[c] \in CallerType BY DEF FreshInv
    <3>2. caller[c].age \in Nat /\ caller[c].age <= MaxLoad BY <1>4, <3>1 DEF K!Loaded, FreshInv, CallerType
    <3>3. age \in Nat /\ age <= MaxLoad BY <1>a, <3>2
    <3>4. q \in CallerType /\ q.pc = "insert" /\ q.age = age BY <3>1, <3>3 DEF CallerType
    <3>5. caller' = [caller EXCEPT ![c] = q] BY <2>2 DEF FreshInv
    <3> HIDE DEF q
    <3> QED BY <1>e, <1>4, <3>3, <3>4, <3>5, CallerKeeps DEF K!Loaded
  <2> QED BY <1>4, <2>1, <2>2 DEF K!Loaded
<1>5. ASSUME NEW c \in Callers, K!Insert(c) PROVE FreshInv'
  <2> DEFINE n == [value |-> caller[c].age, inserted |-> 0]
             q == [caller[c] EXCEPT !.pc = "return"]
  <2>1. caller[c] \in CallerType /\ caller[c].age \in Nat /\ caller[c].age <= MaxLoad
    BY <1>5 DEF K!Insert, FreshInv, CallerType
  <2>2. n \in Entry /\ n.value <= n.inserted + MaxLoad BY <1>a, <2>1 DEF Entry
  <2>3. q \in CallerType /\ q.pc = "return" /\ q.age = caller[c].age BY <2>1 DEF CallerType
  <2>4. caller' = [caller EXCEPT ![c] = q] BY <1>5 DEF K!Insert, FreshInv
  <2>5. entries' \in [CacheKeys -> SUBSET Entry]
        /\ \A x \in CacheKeys : \A e \in entries'[x] : e = n \/ e \in entries[x]
    <3> HIDE DEF n, q
    <3>1. PICK k \in CacheKeys, b \in BOOLEAN :
            entries' = [x \in CacheKeys |->
              IF x = k THEN {n} ELSE IF b /\ x = Head(order) THEN {} ELSE entries[x]]
      <4>1. caller[c].key \subseteq CacheKeys BY <2>1 DEF CallerType
      <4> DEFINE full(k) == k \notin K!Retained /\ K!Cardinality(K!Retained) = Capacity /\ order # << >>
      <4>2. PICK k \in caller[c].key :
              entries' = [x \in CacheKeys |->
                IF x = k THEN {[value |-> caller[c].age, inserted |-> 0]}
                ELSE IF full(k) /\ x = Head(order) THEN {} ELSE entries[x]]
        BY <1>5 DEF K!Insert
      <4>3. k \in CacheKeys /\ full(k) \in BOOLEAN BY <4>1, <4>2
      <4>4. entries' = [x \in CacheKeys |->
              IF x = k THEN {n} ELSE IF full(k) /\ x = Head(order) THEN {} ELSE entries[x]]
        BY <4>2 DEF n
      <4> HIDE DEF full
      <4> QED BY <4>3, <4>4
    <3> QED BY <1>e, <2>2, <3>1
  <2> HIDE DEF n, q
  <2>6. \A x \in CacheKeys : \A e \in entries'[x] :
          e.inserted <= K!MaxAge => e.value <= e.inserted + MaxLoad
    BY <2>2, <2>5 DEF FreshInv
  <2>7. /\ caller' \in [Callers -> CallerType] /\ caller'[c] = q
        /\ \A d \in Callers \ {c} : caller'[d] = caller[d]
    BY <2>3, <2>4 DEF FreshInv
  <2>8. caller[c].age < Ttl + MaxLoad BY <1>a, <2>1
  <2>9. ServedFresh' BY <2>3, <2>7, <2>8 DEF FreshInv, ServedFresh, K!ServedFresh
  <2>10. \A d \in Callers : caller'[d].pc \in {"load", "insert"} => caller'[d].age <= MaxLoad
    BY <2>3, <2>7 DEF FreshInv
  <2> QED BY <2>5, <2>6, <2>7, <2>9, <2>10 DEF FreshInv, K!MaxAge
<1>6. ASSUME NEW c \in Callers, K!Return(c) PROVE FreshInv'
  BY <1>3, <1>6 DEF K!Return
<1>7. CASE UNCHANGED cacheVars
  BY <1>7 DEF cacheVars, FreshInv, ServedFresh, K!ServedFresh, K!MaxAge
<1> QED BY <1>1, <1>2, <1>4, <1>5, <1>6, <1>7 DEF CacheSteps, K!Next, K!Call

(***************************************************************************)
(* No caller gets a value older than the time to live and one load, for    *)
(* any keys, callers and order of loads and inserts (ttl_cache.rs under    *)
(* market_for_token).                                                      *)
(***************************************************************************)
THEOREM NothingStaleIsServed == FairSpec => []ServedFresh
<1>1. Init => FreshInv BY FreshInit DEF Init
<1>2. [Next]_vars => CacheSteps BY DEF Next, Stream, Cache, vars, CacheSteps
<1>3. FreshInv /\ [Next]_vars => FreshInv' BY <1>2, FreshStep
<1>4. FreshInv => ServedFresh BY DEF FreshInv
<1> QED BY <1>1, <1>3, <1>4, PTL DEF FairSpec, Spec

----------------------------------------------------------------------------
(* The queue of the cache. *)

\* A queue without its key twice.
Queue(q) == q \in Seq(CacheKeys) /\ \A i, j \in 1..Len(q) : q[i] = q[j] => i = j

LEMMA SameCardinality == \A T : K!Cardinality(T) = Cardinality(T)
BY DEF K!Cardinality, Cardinality

\* A place before p keeps its number, a place after it moves up by one.
LEMMA PlacesWithout ==
  ASSUME NEW n \in Nat, NEW p \in 1..n
  PROVE  /\ Cardinality((1..n) \ {p}) = n - 1
         /\ \A i \in (1..n) \ {p} :
              Cardinality({j \in (1..n) \ {p} : j <= i}) = IF i < p THEN i ELSE i - 1
<1>1. Cardinality((1..n) \ {p}) = n - 1
  <2>1. IsFiniteSet(1..n) /\ Cardinality(1..n) = n BY FS_Interval
  <2> QED BY <2>1, FS_RemoveElement
<1>2. ASSUME NEW i \in (1..n) \ {p}
      PROVE  Cardinality({j \in (1..n) \ {p} : j <= i}) = IF i < p THEN i ELSE i - 1
  <2>1. {j \in (1..n) \ {p} : j <= i} = (1..i) \ {p} OBVIOUS
  <2>2. IsFiniteSet(1..i) /\ Cardinality(1..i) = i BY FS_Interval
  <2>3. Cardinality((1..i) \ {p}) = IF p \in 1..i THEN i - 1 ELSE i BY <2>2, FS_RemoveElement
  <2> QED BY <2>1, <2>3
<1> QED BY <1>1, <1>2

\* retain takes the key out of a queue that holds it.
LEMMA DropFrom ==
  ASSUME NEW q, Queue(q), NEW k \in Elements(q)
  PROVE  /\ Queue(K!Drop(q, k)) /\ Elements(K!Drop(q, k)) = Elements(q) \ {k}
         /\ Len(K!Drop(q, k)) = Len(q) - 1
<1> DEFINE n == Len(q)
           r == K!Drop(q, k)
<1>1. n \in Nat /\ q \in [1..n -> CacheKeys] BY DEF Queue
<1>2. PICK p \in 1..n : q[p] = k BY DEF Elements
<1>3. K!Others(q, k) = (1..n) \ {p} BY <1>1, <1>2 DEF Queue, K!Others
<1> DEFINE O == (1..n) \ {p}
           number(i) == IF i < p THEN i ELSE i - 1
           at(m) == IF m < p THEN m ELSE m + 1
           place(i) == K!PlaceAmong(O, i)
           kept(m) == CHOOSE i \in O : place(i) = m
           size == K!Cardinality(O)
<1>4. r = [m \in 1..size |-> q[kept(m)]] BY <1>3 DEF K!Drop
<1>5. size = n - 1 /\ \A i \in O : place(i) = number(i)
  BY <1>1, PlacesWithout, SameCardinality DEF K!PlaceAmong
<1>6. \A m \in 1..(n - 1) : at(m) \in O /\ number(at(m)) = m /\ \A i \in O : number(i) = m => i = at(m)
  BY <1>1
<1> HIDE DEF n, r, O, number, at, place, size
<1>7. \A m \in 1..(n - 1) : kept(m) = at(m) BY <1>5, <1>6
<1> HIDE DEF kept
<1>8. r = [m \in 1..(n - 1) |-> q[at(m)]] BY <1>4, <1>5, <1>7
<1>9. \A i \in O : number(i) \in 1..(n - 1) /\ at(number(i)) = i /\ i \in 1..n BY <1>1 DEF O, number, at
<1>10. n - 1 \in Nat BY <1>1, <1>2
<1>11. r \in Seq(CacheKeys) /\ Len(r) = n - 1
  <2>1. \A m \in 1..(n - 1) : q[at(m)] \in CacheKeys BY <1>1, <1>6 DEF O
  <2> QED BY <1>8, <1>10, <2>1
<1>12. \A i, j \in 1..(n - 1) : r[i] = r[j] => i = j
  BY <1>6, <1>8 DEF O, n, Queue
<1>13. Elements(r) = Elements(q) \ {k}
  <2>1. \A x \in Elements(r) : x \in Elements(q) /\ x # k
    BY <1>2, <1>6, <1>8, <1>11 DEF Elements, O, n, Queue
  <2>2. ASSUME NEW x \in Elements(q), x # k PROVE x \in Elements(r)
    <3>1. PICK i \in 1..n : q[i] = x BY DEF Elements, n
    <3>2. i \in O BY <1>2, <2>2, <3>1 DEF O
    <3>3. r[number(i)] = x /\ number(i) \in 1..(n - 1) BY <1>8, <1>9, <3>1, <3>2
    <3> QED BY <1>11, <3>3 DEF Elements
  <2> QED BY <2>1, <2>2
<1> QED BY <1>11, <1>12, <1>13 DEF Queue, n, r

LEMMA TailOf ==
  ASSUME NEW q, Queue(q), q # << >>
  PROVE  /\ Queue(Tail(q)) /\ Elements(Tail(q)) = Elements(q) \ {Head(q)}
         /\ Len(Tail(q)) = Len(q) - 1 /\ Head(q) \in Elements(q)
<1>1. /\ q \in Seq(CacheKeys) /\ Len(q) \in Nat \ {0} /\ Head(q) = q[1]
      /\ Tail(q) \in Seq(CacheKeys) /\ Len(Tail(q)) = Len(q) - 1
      /\ \A i \in 1..(Len(q) - 1) : Tail(q)[i] = q[i + 1]
  BY DEF Queue
<1>2. \A i, j \in 1..(Len(q) - 1) : Tail(q)[i] = Tail(q)[j] => i = j BY <1>1 DEF Queue
<1>3. \A x \in Elements(Tail(q)) : x \in Elements(q) /\ x # Head(q)
  <2> SUFFICES ASSUME NEW i \in 1..(Len(q) - 1) PROVE q[i + 1] \in Elements(q) /\ q[i + 1] # q[1]
    BY <1>1 DEF Elements
  <2>1. i + 1 \in 1..Len(q) /\ 1 \in 1..Len(q) /\ i + 1 # 1 BY <1>1
  <2> QED BY <2>1 DEF Elements, Queue
<1>4. ASSUME NEW x \in Elements(q), x # Head(q) PROVE x \in Elements(Tail(q))
  <2>1. PICK i \in 1..Len(q) : x = q[i] BY DEF Elements
  <2>2. i - 1 \in 1..(Len(q) - 1) /\ (i - 1) + 1 = i BY <1>1, <1>4, <2>1
  <2>3. Tail(q)[i - 1] = x BY <1>1, <2>1, <2>2
  <2> QED BY <1>1, <2>2, <2>3 DEF Elements
<1>5. Head(q) \in Elements(q) BY <1>1 DEF Elements
<1> QED BY <1>1, <1>2, <1>3, <1>4, <1>5 DEF Queue

LEMMA AppendTo ==
  ASSUME NEW q, Queue(q), NEW k \in CacheKeys, k \notin Elements(q)
  PROVE  /\ Queue(Append(q, k)) /\ Elements(Append(q, k)) = Elements(q) \cup {k}
         /\ Len(Append(q, k)) = Len(q) + 1
<1> DEFINE r == Append(q, k)
<1>1. /\ q \in Seq(CacheKeys) /\ Len(q) \in Nat /\ r \in Seq(CacheKeys) /\ Len(r) = Len(q) + 1
      /\ r[Len(q) + 1] = k /\ \A i \in 1..Len(q) : r[i] = q[i]
  BY DEF Queue
<1> HIDE DEF r
<1>2. \A i \in 1..(Len(q) + 1) : i \in 1..Len(q) \/ i = Len(q) + 1 BY <1>1
<1>3. \A i, j \in 1..(Len(q) + 1) : r[i] = r[j] => i = j BY <1>1, <1>2 DEF Queue, Elements
<1>4. Elements(r) = Elements(q) \cup {k}
  <2>1. Elements(r) = {r[i] : i \in 1..(Len(q) + 1)} BY <1>1 DEF Elements
  <2>2. 1..(Len(q) + 1) = (1..Len(q)) \cup {Len(q) + 1} BY <1>1
  <2>3. {r[i] : i \in 1..(Len(q) + 1)} = {r[i] : i \in 1..Len(q)} \cup {r[Len(q) + 1]} BY <2>2
  <2>4. {r[i] : i \in 1..Len(q)} = Elements(q) BY <1>1 DEF Elements
  <2> QED BY <1>1, <2>1, <2>3, <2>4
<1> QED BY <1>1, <1>3, <1>4 DEF Queue, r

\* A queue is as long as there are keys in it.
LEMMA QueueLength ==
  ASSUME NEW q, Queue(q)
  PROVE  Cardinality(Elements(q)) = Len(q)
<1>1. q \in Bijection(1..Len(q), Elements(q))
  BY DEF Queue, Elements, Bijection, Injection, IsInjective, Surjection
<1>2. ExistsBijection(1..Len(q), Elements(q)) BY <1>1 DEF ExistsBijection
<1>3. Len(q) \in Nat BY DEF Queue
<1>4. IsFiniteSet(1..Len(q)) /\ Cardinality(1..Len(q)) = Len(q) BY <1>3, FS_Interval
<1> QED BY <1>2, <1>4, FS_Bijection

\* The queue holds the keys of the map, each once, and no more than fit.
QueueInv == Queue(order) /\ Elements(order) = K!Retained /\ Len(order) <= Capacity

LEMMA QueueIsRight == ASSUME QueueInv PROVE OrderIsRetained
<1>1. Cardinality(K!Retained) = Len(order) BY QueueLength DEF QueueInv
<1>2. K!Cardinality(K!Retained) = Len(order) BY <1>1, SameCardinality
<1> QED BY <1>2 DEF QueueInv, Elements, OrderIsRetained, K!OrderIsRetained

LEMMA QueueInit == K!Init => QueueInv
<1> SUFFICES ASSUME K!Init PROVE QueueInv OBVIOUS
<1>1. order = << >> /\ Len(order) = 0 BY DEF K!Init
<1>2. Queue(order) /\ Elements(order) = {} BY <1>1 DEF Queue, Elements
<1>3. K!Retained = {} BY DEF K!Init, K!Retained
<1> QED BY <1>1, <1>2, <1>3, CacheAssumption DEF QueueInv

LEMMA QueueStep == ASSUME FreshInv, QueueInv, CacheSteps PROVE QueueInv'
<1>a. Capacity \in Nat \ {0} BY CacheAssumption
<1>e. entries \in [CacheKeys -> SUBSET Entry] BY DEF FreshInv
<1>l. Len(order) \in Nat BY DEF QueueInv, Queue
<1>r. K!Retained = {k \in CacheKeys : entries[k] # {}}
      /\ K!Retained' = {k \in CacheKeys : entries'[k] # {}}
  BY DEF K!Retained
<1>1. ASSUME UNCHANGED order, K!Retained' = K!Retained PROVE QueueInv'
  BY <1>1 DEF QueueInv, Queue, Elements
<1>2. ASSUME NEW q, order' = q, Queue(q), Elements(q) = K!Retained', Len(q) <= Capacity
      PROVE QueueInv'
  <2>1. Queue(order)' /\ Elements(order)' = K!Retained' BY <1>2 DEF Queue, Elements
  <2> QED BY <1>2, <2>1 DEF QueueInv
<1>3. CASE K!Tick
  <2>1. \A k \in CacheKeys : entries'[k] = {} <=> entries[k] = {} BY <1>3 DEF K!Tick
  <2> QED BY <1>1, <1>3, <1>r, <2>1 DEF K!Tick
<1>4. ASSUME NEW c \in Callers, NEW k \in CacheKeys, K!Get(c, k) PROVE QueueInv'
  <2>1. CASE UNCHANGED <<entries, order>> BY <1>1, <1>r, <2>1
  <2>2. ASSUME entries' = [entries EXCEPT ![k] = {}],
               order' = IF entries[k] = {} THEN order ELSE K!Forget(order, k)
        PROVE QueueInv'
    <3>1. K!Retained' = K!Retained \ {k} BY <1>e, <1>r, <2>2
    <3>2. CASE entries[k] = {} BY <1>1, <1>r, <2>2, <3>1, <3>2
    <3>3. CASE entries[k] # {}
      <4>1. order' = K!Drop(order, k) BY <2>2, <3>3 DEF K!Forget
      <4>2. Queue(order) /\ k \in Elements(order) BY <1>r, <3>3 DEF QueueInv
      <4>3. /\ Queue(K!Drop(order, k)) /\ Elements(K!Drop(order, k)) = Elements(order) \ {k}
            /\ Len(K!Drop(order, k)) = Len(order) - 1
        BY <4>2, DropFrom
      <4>4. Len(K!Drop(order, k)) <= Capacity BY <1>a, <1>l, <4>3 DEF QueueInv
      <4> QED BY <1>2, <3>1, <4>1, <4>3, <4>4 DEF QueueInv
    <3> QED BY <3>2, <3>3
  <2> QED BY <1>4, <2>1, <2>2 DEF K!Get
<1>5. ASSUME NEW c \in Callers, K!Insert(c) PROVE QueueInv'
  <2>1. caller[c] \in CallerType BY DEF FreshInv
  <2>2. caller[c].key \subseteq CacheKeys BY <2>1 DEF CallerType
  <2> DEFINE full(k) == k \notin K!Retained /\ K!Cardinality(K!Retained) = Capacity /\ order # << >>
             rest(k) == IF k \in K!Retained THEN K!Drop(order, k)
                        ELSE IF full(k) THEN Tail(order) ELSE order
             new == {[value |-> caller[c].age, inserted |-> 0]}
  <2>3. PICK k \in caller[c].key :
          /\ order' = Append(rest(k), k)
          /\ entries' = [x \in CacheKeys |->
               IF x = k THEN new ELSE IF full(k) /\ x = Head(order) THEN {} ELSE entries[x]]
    BY <1>5 DEF K!Insert
  <2>4. k \in CacheKeys BY <2>2
  <2>5. new # {} OBVIOUS
  <2> HIDE DEF new
  <2>6. Queue(order) /\ Elements(order) = K!Retained /\ Len(order) <= Capacity BY DEF QueueInv
  <2>7. K!Cardinality(K!Retained) = Len(order)
    BY <2>6, QueueLength, SameCardinality
  <2>8. Elements(order) \subseteq CacheKeys BY <2>6, <1>r
  <2>9. /\ Queue(rest(k)) /\ k \notin Elements(rest(k)) /\ Len(rest(k)) + 1 <= Capacity
        /\ Elements(rest(k)) \cup {k} = K!Retained'
    <3>1. CASE k \in K!Retained
      <4>1. rest(k) = K!Drop(order, k) /\ ~full(k) BY <3>1
      <4>2. /\ Queue(K!Drop(order, k)) /\ Elements(K!Drop(order, k)) = Elements(order) \ {k}
            /\ Len(K!Drop(order, k)) = Len(order) - 1
        BY <2>6, <3>1, DropFrom
      <4>3. entries' = [x \in CacheKeys |-> IF x = k THEN new ELSE entries[x]]
        <5> HIDE DEF full, rest
        <5> QED BY <2>3, <4>1
      <4>4. K!Retained' = K!Retained \cup {k} BY <1>r, <2>4, <2>5, <4>3
      <4> HIDE DEF rest, full
      <4>5. Len(rest(k)) + 1 <= Capacity BY <1>l, <2>6, <4>1, <4>2
      <4> QED BY <2>6, <3>1, <4>1, <4>2, <4>4, <4>5
    <3>2. CASE full(k)
      <4>1. rest(k) = Tail(order) /\ k \notin K!Retained BY <3>2
      <4>2. /\ Queue(Tail(order)) /\ Elements(Tail(order)) = Elements(order) \ {Head(order)}
            /\ Len(Tail(order)) = Len(order) - 1 /\ Head(order) \in Elements(order)
        BY <2>6, <3>2, TailOf
      <4>3. entries' = [x \in CacheKeys |->
              IF x = k THEN new ELSE IF x = Head(order) THEN {} ELSE entries[x]]
        <5> HIDE DEF full, rest
        <5> QED BY <2>3, <3>2
      <4>4. K!Retained' = (K!Retained \ {Head(order)}) \cup {k} BY <1>r, <2>4, <2>5, <4>3
      <4> HIDE DEF rest, full
      <4>5. Len(rest(k)) + 1 <= Capacity BY <1>l, <2>6, <4>1, <4>2
      <4> QED BY <2>6, <4>1, <4>2, <4>4, <4>5
    <3>3. CASE k \notin K!Retained /\ ~full(k)
      <4>1. rest(k) = order BY <3>3
      <4>2. Len(order) # Capacity
        <5>1. CASE order = << >>
          <6>1. Len(order) = 0 BY <5>1
          <6> QED BY <1>a, <6>1
        <5>2. CASE order # << >> BY <2>7, <3>3, <5>2
        <5> QED BY <5>1, <5>2
      <4>3. entries' = [x \in CacheKeys |-> IF x = k THEN new ELSE entries[x]]
        <5>1. ~full(k) BY <3>3
        <5> HIDE DEF full, rest
        <5> QED BY <2>3, <5>1
      <4>4. K!Retained' = K!Retained \cup {k} BY <1>r, <2>4, <2>5, <4>3
      <4>5. Len(order) + 1 <= Capacity BY <1>a, <1>l, <2>6, <4>2
      <4>6. k \notin Elements(order) BY <2>6, <3>3
      <4> HIDE DEF rest, full
      <4> QED BY <2>6, <4>1, <4>4, <4>5, <4>6
    <3> QED BY <3>1, <3>2, <3>3
  <2> HIDE DEF rest, full
  <2>10. /\ Queue(Append(rest(k), k)) /\ Elements(Append(rest(k), k)) = Elements(rest(k)) \cup {k}
         /\ Len(Append(rest(k), k)) = Len(rest(k)) + 1
    BY <2>4, <2>9, AppendTo
  <2>11. Len(Append(rest(k), k)) <= Capacity BY <2>9, <2>10
  <2> QED BY <1>2, <2>3, <2>9, <2>10, <2>11
<1>6. ASSUME NEW c \in Callers, K!Loaded(c) \/ K!Return(c) PROVE QueueInv'
  <2>1. UNCHANGED <<entries, order>> BY <1>6 DEF K!Loaded, K!Return
  <2> QED BY <1>1, <1>r, <2>1
<1>7. CASE UNCHANGED cacheVars BY <1>1, <1>7, <1>r DEF cacheVars
<1> QED BY <1>3, <1>4, <1>5, <1>6, <1>7 DEF CacheSteps, K!Next, K!Call

(***************************************************************************)
(* The queue of the metadata cache holds the keys its map retains, each    *)
(* once and no more than fit, through any sequence of hits, expiries,      *)
(* refreshes and evictions of any number of concurrent callers             *)
(* (ttl_cache.rs): an eviction always frees an entry.                      *)
(***************************************************************************)
THEOREM QueueAgreesWithMap == FairSpec => []OrderIsRetained
<1>1. Init => FreshInv /\ QueueInv BY FreshInit, QueueInit DEF Init
<1>2. [Next]_vars => CacheSteps BY DEF Next, Stream, Cache, vars, CacheSteps
<1>3. FreshInv /\ QueueInv /\ [Next]_vars => FreshInv' /\ QueueInv' BY <1>2, FreshStep, QueueStep
<1>4. QueueInv => OrderIsRetained BY QueueIsRight
<1> QED BY <1>1, <1>3, <1>4, PTL DEF FairSpec, Spec
=============================================================================
