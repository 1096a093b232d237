---------------------------- MODULE AthBackfills ----------------------------
(***************************************************************************)
(* The two sources of all-time highs: the Codex index (AthIndex) and the   *)
(* Solana Tracker observations (TrackerAth).  They have their own tables,  *)
(* their own counters of requests and their own processes, so a behaviour  *)
(* follows one of them, and the other rests.                               *)
(***************************************************************************)
EXTENDS AthIndex

CONSTANTS Mints, Bodies, Plans, Invocations, MaxFaults

ASSUME TrackerAssumption ==
  /\ Mints \in Nat /\ IsFiniteSet(Invocations) /\ MaxFaults \in Nat
  /\ \A p \in Plans : p.limit \in Nat \ {0} /\ p.prior \in 0..p.limit

VARIABLES
  part,    \* the part that is followed: "index" or "tracker"
  row, sent, archive, kept, pass

trackerVars == <<row, sent, archive, kept, pass>>
indexVars == <<world, counter, store, proc>>

T == INSTANCE TrackerAth

BothInit ==
  /\ part \in {"index", "tracker"}
  /\ Init /\ T!Init
  /\ part = "tracker" => scenario = CHOOSE s \in Scenarios : TRUE

Index == part = "index" /\ Next /\ UNCHANGED <<part, trackerVars>>
Tracker == part = "tracker" /\ T!Next /\ UNCHANGED <<part, indexVars>>

BothNext == Index \/ Tracker

(***************************************************************************)
(* Requests, queries and file operations end; passes are run again until   *)
(* they are complete, a Tracker pass with the settings of its month; and   *)
(* months go by.                                                           *)
(***************************************************************************)
IndexFairness ==
  \A p \in Processes :
    /\ WF_vars(part = "index" /\ Step(p))
    /\ SF_vars(part = "index" /\ \E kind \in scenario.work[p] : Start(p, kind))

TrackerFairness ==
  LET v == <<trackerVars, faults>>
      On(action) == part = "tracker" /\ action
  IN  /\ WF_v(On(T!NewMonth))
      /\ \A i \in Invocations : WF_v(On(T!Step(i))) /\ SF_v(On(T!BeginAgain(i)))

FairSpec ==
  /\ BothInit /\ [][BothNext]_<<part, vars, trackerVars>>
  /\ IndexFairness /\ TrackerFairness

----------------------------------------------------------------------------
\* The days are enumerated in the end.
DaysAreComplete == part = "index" => DaysComplete

\* Requests charged to a month stay within the allocation it began with.
AllocationKept == T!AllocationKept

\* A saved observation has the bytes it was read from.
EvidenceKept == T!EvidenceKept

\* In the end every token has its observation, unless a write was cut off.
Resumes == part = "tracker" => T!Resumes
=============================================================================
