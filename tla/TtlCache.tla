------------------------------ MODULE TtlCache ------------------------------
(***************************************************************************)
(* The bounded cache of polymarket-data (src/ttl_cache.rs) under its       *)
(* callers, the Gamma lookups (src/gamma_market_metadata.rs): each method  *)
(* holds the lock for its body, and the request runs without it, so two    *)
(* callers that miss may both load a key and insert their values in either *)
(* order.                                                                  *)
(*                                                                         *)
(* A value is told apart by its age, the time since the source gave it.    *)
(* The waits for the lock take no time.                                    *)
(***************************************************************************)
EXTENDS Naturals, Sequences, FiniteSets

CONSTANTS
  CacheKeys,
  Callers,
  Ttl,
  Capacity,
  MaxLoad    \* the timeout of a request

VARIABLES
  entries,   \* the entry of each key: the set of it
  order,     \* insertion_order
  caller     \* the await of each caller, its key, the age of its load or its value

vars == <<entries, order, caller>>

MaxAge == Ttl + MaxLoad

Quiet == [pc |-> "idle", key |-> {}, age |-> 0]

Init ==
  /\ entries = [k \in CacheKeys |-> {}]
  /\ order = << >>
  /\ caller = [c \in Callers |-> Quiet]

Older(n) == IF n <= MaxAge THEN n + 1 ELSE n

\* Time passes while every caller is outside or waits for its request.
Tick ==
  /\ \A c \in Callers :
       caller[c].pc = "idle" \/ (caller[c].pc = "load" /\ caller[c].age < MaxLoad)
  /\ entries' = [k \in CacheKeys |->
       {[value |-> Older(e.value), inserted |-> Older(e.inserted)] : e \in entries[k]}]
  /\ caller' = [c \in Callers |->
       IF caller[c].pc = "load" THEN [caller[c] EXCEPT !.age = @ + 1] ELSE caller[c]]
  /\ UNCHANGED order

\* retain: what stays of the queue, by its place in it.
Others(q, k) == {i \in 1..Len(q) : q[i] # k}

PlaceAmong(S, i) == Cardinality({j \in S : j <= i})

Drop(q, k) ==
  [n \in 1..Cardinality(Others(q, k)) |->
     q[CHOOSE i \in Others(q, k) : PlaceAmong(Others(q, k), i) = n]]

\* Mutated form of Expired: an entry is good as long as it is retained.
ExpiredNever(e) == FALSE

Expired(e) == e.inserted >= Ttl

\* Mutated form of Forget: the key keeps its place in the order.
ForgetEntry(q, k) == q

Forget(q, k) == Drop(q, k)

\* get: a fresh value, or a miss, which removes an expired entry.
Get(c, k) ==
  /\ caller[c].pc = "idle"
  /\ \/ \E e \in entries[k] :
          /\ ~Expired(e)
          /\ caller' = [caller EXCEPT ![c] = [pc |-> "return", key |-> {k}, age |-> e.value]]
          /\ UNCHANGED <<entries, order>>
     \/ /\ \A e \in entries[k] : Expired(e)
        /\ entries' = [entries EXCEPT ![k] = {}]
        /\ order' = IF entries[k] = {} THEN order ELSE Forget(order, k)
        /\ caller' = [caller EXCEPT ![c] = [pc |-> "load", key |-> {k}, age |-> 0]]

\* The request fails, or its answer was given at some time of it.
Loaded(c) ==
  /\ caller[c].pc = "load"
  /\ \/ caller' = [caller EXCEPT ![c] = Quiet]
     \/ \E age \in 0..caller[c].age :
          caller' = [caller EXCEPT ![c].pc = "insert", ![c].age = age]
  /\ UNCHANGED <<entries, order>>

Retained == {k \in CacheKeys : entries[k] # {}}

\* insert: the key moves to the back, or the oldest key makes room for it.
Insert(c) ==
  /\ caller[c].pc = "insert"
  /\ \E k \in caller[c].key :
       LET full == k \notin Retained /\ Cardinality(Retained) = Capacity /\ order # << >>
           rest == IF k \in Retained THEN Drop(order, k) ELSE IF full THEN Tail(order) ELSE order
       IN  /\ order' = Append(rest, k)
           /\ entries' = [x \in CacheKeys |->
                IF x = k THEN {[value |-> caller[c].age, inserted |-> 0]}
                ELSE IF full /\ x = Head(order) THEN {} ELSE entries[x]]
  /\ caller' = [caller EXCEPT ![c].pc = "return"]

Return(c) ==
  /\ caller[c].pc = "return"
  /\ caller' = [caller EXCEPT ![c] = Quiet]
  /\ UNCHANGED <<entries, order>>

Call(c) == (\E k \in CacheKeys : Get(c, k)) \/ Loaded(c) \/ Insert(c) \/ Return(c)

Next == Tick \/ \E c \in Callers : Call(c)

----------------------------------------------------------------------------
TypeOK ==
  /\ \A k \in CacheKeys : Cardinality(entries[k]) <= 1
  /\ entries \in [CacheKeys -> SUBSET [value : 0..MaxAge + 1, inserted : 0..MaxAge + 1]]
  /\ order \in Seq(CacheKeys)
  /\ caller \in [Callers -> [pc : {"idle", "load", "insert", "return"}, key : SUBSET CacheKeys,
                             age : 0..MaxAge + 1]]

(***************************************************************************)
(* The map and the queue agree after any sequence of hits, expiries,       *)
(* evictions and concurrent inserts: the queue holds every retained key    *)
(* once, so an eviction always frees an entry and the bound is kept.       *)
(***************************************************************************)
OrderIsRetained ==
  /\ {order[i] : i \in 1..Len(order)} = Retained
  /\ Len(order) = Cardinality(Retained)
  /\ Len(order) <= Capacity

(***************************************************************************)
(* A caller never gets a value that the source gave longer ago than the    *)
(* time to live and one load, although a slow load may replace the value   *)
(* of a faster one that began later, and starts a new lifetime.            *)
(***************************************************************************)
ServedFresh == \A c \in Callers : caller[c].pc = "return" => caller[c].age < Ttl + MaxLoad
=============================================================================
