----------------------------- MODULE Polymarket -----------------------------
(***************************************************************************)
(* The two parts of polymarket-data that keep state between calls: the     *)
(* market stream and the metadata cache.  They share nothing, so a         *)
(* behaviour follows one of them, and the other rests.                     *)
(***************************************************************************)
EXTENDS Naturals

CONSTANTS
  Tokens, First, Watchers, MaxBreaks,
  CacheKeys, Callers, Ttl, Capacity, MaxLoad

ASSUME StreamAssumption == First \subseteq Tokens /\ MaxBreaks \in Nat

ASSUME CacheAssumption ==
  /\ Ttl \in Nat \ {0} /\ Capacity \in Nat \ {0} /\ MaxLoad \in Nat

VARIABLES
  part,    \* the part that is followed: "stream" or "cache"
  socket, subscriptions, additions, initial, watch, subscribed, prices, breaks,
  entries, order, caller

streamVars ==
  <<socket, subscriptions, additions, initial, watch, subscribed, prices, breaks>>
cacheVars == <<entries, order, caller>>
vars == <<part, streamVars, cacheVars>>

S == INSTANCE MarketStream
K == INSTANCE TtlCache

Init == part \in {"stream", "cache"} /\ S!Init /\ K!Init

Stream == part = "stream" /\ S!Next /\ UNCHANGED <<part, cacheVars>>
Cache == part = "cache" /\ K!Next /\ UNCHANGED <<part, streamVars>>

Next == Stream \/ Cache

Spec == Init /\ [][Next]_vars

(***************************************************************************)
(* The runtime goes on with every task that is ready, and the select of    *)
(* the live connection is not biased; a connection attempt ends.  Nothing  *)
(* makes a server send prices or a connection end.                         *)
(***************************************************************************)
FairSpec ==
  /\ Spec
  /\ WF_streamVars(part = "stream" /\ S!Socket)
  /\ \A w \in Watchers : WF_streamVars(part = "stream" /\ S!Task(w))

----------------------------------------------------------------------------
\* best_bid answers with prices of the connection there is, or of the one just ended.
PricesOfConnection == S!PricesOfConnection

\* A watched token is subscribed, about to be, or on its way to the socket.
NotForgotten == S!NotForgotten

\* In the end every watched token is subscribed on a live connection.
AllSubscribed == part = "stream" => S!AllSubscribed

\* The queue of the cache holds every retained key once.
OrderIsRetained == K!OrderIsRetained

\* A caller gets no value older than the time to live and one load.
ServedFresh == K!ServedFresh
=============================================================================
