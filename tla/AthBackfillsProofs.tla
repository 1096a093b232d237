-------------------------- MODULE AthBackfillsProofs --------------------------
(***************************************************************************)
(* Proofs about the two sources of all-time highs.  First the Tracker      *)
(* passes, for any number of invocations, tokens, answers and failures;    *)
(* then the index passes, for any index, any days and pages, any number of *)
(* processes, failures and crashes.                                        *)
(***************************************************************************)
EXTENDS AthBackfills, FiniteSetTheorems, SequenceTheorems, TLAPS

\* A step of a Tracker pass, or one that leaves its variables alone.
TrackerSteps == T!Next \/ UNCHANGED T!vars

----------------------------------------------------------------------------
\* Every variable keeps its type.
LEMMA TypeStep == ASSUME T!TypeOK, TrackerSteps PROVE T!TypeOK'
<1>1. ASSUME T!NewMonth PROVE T!TypeOK'
  <2>1. \A i \in Invocations : [pass[i] EXCEPT !.old = TRUE] \in T!PassType
    BY DEF T!TypeOK, T!PassType
  <2>2. pass' \in [Invocations -> T!PassType] BY <1>1, <2>1 DEF T!NewMonth, T!TypeOK
  <2>3. row' \subseteq [limit : Nat, prior : Nat, reserved : Nat] /\ sent' \in Nat
    BY <1>1 DEF T!NewMonth
  <2> QED BY <1>1, <2>2, <2>3 DEF T!NewMonth, T!TypeOK
<1>2. ASSUME NEW i \in Invocations, NEW plan \in Plans, T!Begin(i, plan) PROVE T!TypeOK'
  <2>1. [T!Idle EXCEPT !.pc = "check", !.plan = {plan}] \in T!PassType
    <3>1. T!Idle \in T!PassType BY DEF T!Idle, T!PassType
    <3> QED BY <3>1 DEF T!PassType
  <2>2. pass' \in [Invocations -> T!PassType] BY <1>2, <2>1 DEF T!Begin, T!TypeOK
  <2> QED BY <1>2, <2>2 DEF T!Begin, T!TypeOK
<1>a. T!Idle \in T!PassType BY DEF T!Idle, T!PassType
<1>3. ASSUME NEW i \in Invocations, T!Check(i) PROVE T!TypeOK'
  <2>1. pass[i].at + 1 \in Nat \ {0} BY DEF T!TypeOK, T!PassType
  <2>2. [pass[i] EXCEPT !.at = pass[i].at + 1] \in T!PassType
    BY <2>1 DEF T!TypeOK, T!PassType
  <2>3. [pass[i] EXCEPT !.pc = "reserve"] \in T!PassType BY DEF T!TypeOK, T!PassType
  <2>4. \/ pass' = [pass EXCEPT ![i] = [pass[i] EXCEPT !.at = pass[i].at + 1]]
        \/ pass' = [pass EXCEPT ![i] = T!Idle]
        \/ pass' = [pass EXCEPT ![i] = [pass[i] EXCEPT !.pc = "reserve"]]
    BY <1>3 DEF T!Check, T!TypeOK
  <2>5. pass' \in [Invocations -> T!PassType]
    BY <1>a, <2>2, <2>3, <2>4 DEF T!TypeOK
  <2> QED BY <1>3, <2>5 DEF T!Check, T!TypeOK
<1>4. ASSUME NEW i \in Invocations, T!Reserve(i) PROVE T!TypeOK'
  <2>1. pass' \in [Invocations -> T!PassType]
    <3> DEFINE granted == [pass[i] EXCEPT !.pc = "send", !.asked = TRUE]
    <3>1. granted \in T!PassType BY DEF T!TypeOK, T!PassType
    <3>2. pass' = [pass EXCEPT ![i] = granted] \/ pass' = [pass EXCEPT ![i] = T!Idle]
      BY <1>4 DEF T!Reserve, T!TypeOK
    <3> QED BY <1>a, <3>1, <3>2 DEF T!TypeOK
  <2>2. row' \subseteq [limit : Nat, prior : Nat, reserved : Nat]
    <3>1. CASE pass[i].old BY <1>4, <3>1 DEF T!Reserve, T!TypeOK
    <3>2. CASE ~pass[i].old
      <4>1. pass[i].plan \subseteq Plans BY DEF T!TypeOK, T!PassType
      <4>2. PICK plan \in pass[i].plan :
              \E b \in (IF row = {} THEN {[limit |-> plan.limit, prior |-> plan.prior, reserved |-> 0]} ELSE row) :
                row' = row \/ row' = {b} \/ row' = {[b EXCEPT !.reserved = b.reserved + 1]}
        BY <1>4, <3>2 DEF T!Reserve
      <4>3. plan.limit \in Nat /\ plan.prior \in Nat BY <4>1, TrackerAssumption
      <4>4. PICK b \in (IF row = {} THEN {[limit |-> plan.limit, prior |-> plan.prior, reserved |-> 0]} ELSE row) :
              row' = row \/ row' = {b} \/ row' = {[b EXCEPT !.reserved = b.reserved + 1]}
        BY <4>2
      <4>5. b \in [limit : Nat, prior : Nat, reserved : Nat] BY <4>3, <4>4 DEF T!TypeOK
      <4>6. [b EXCEPT !.reserved = b.reserved + 1] \in [limit : Nat, prior : Nat, reserved : Nat]
        BY <4>5
      <4> QED BY <4>4, <4>5, <4>6 DEF T!TypeOK
    <3> QED BY <3>1, <3>2
  <2> QED BY <1>4, <2>1, <2>2 DEF T!Reserve, T!TypeOK
<1>5. ASSUME NEW i \in Invocations, T!Fetch(i) PROVE T!TypeOK'
  <2>1. PICK b \in Bodies :
          pass' = [pass EXCEPT ![i] = [pass[i] EXCEPT !.pc = "archive", !.body = {b}]]
    BY <1>5 DEF T!Fetch, T!TypeOK
  <2>2. [pass[i] EXCEPT !.pc = "archive", !.body = {b}] \in T!PassType
    BY DEF T!TypeOK, T!PassType
  <2>3. pass' \in [Invocations -> T!PassType] BY <2>1, <2>2 DEF T!TypeOK
  <2>4. sent' \in Nat BY <1>5 DEF T!Fetch, T!TypeOK
  <2> QED BY <1>5, <2>3, <2>4 DEF T!Fetch, T!TypeOK
<1>6. ASSUME NEW i \in Invocations, T!Archive(i) PROVE T!TypeOK'
  <2>1. pass' \in [Invocations -> T!PassType]
    <3>1. \A s \in {"write", "save"} : [pass[i] EXCEPT !.pc = s] \in T!PassType
      BY DEF T!TypeOK, T!PassType
    <3>2. \/ \E s \in {"write", "save"} : pass' = [pass EXCEPT ![i] = [pass[i] EXCEPT !.pc = s]]
          \/ pass' = [pass EXCEPT ![i] = T!Idle]
      BY <1>6 DEF T!Archive, T!TypeOK
    <3> QED BY <1>a, <3>1, <3>2 DEF T!TypeOK
  <2>2. archive' \in [(1..Mints) \X Bodies -> {"none", "torn", "whole"}]
    BY <1>6 DEF T!Archive, T!TypeOK
  <2> QED BY <1>6, <2>1, <2>2 DEF T!Archive, T!TypeOK
<1>7. ASSUME NEW i \in Invocations, T!Write(i) PROVE T!TypeOK'
  <2>1. pass' \in [Invocations -> T!PassType] BY <1>7 DEF T!Write, T!TypeOK, T!PassType
  <2>2. archive' \in [(1..Mints) \X Bodies -> {"none", "torn", "whole"}]
    BY <1>7 DEF T!Write, T!TypeOK
  <2> QED BY <1>7, <2>1, <2>2 DEF T!Write, T!TypeOK
<1>8. ASSUME NEW i \in Invocations, T!Save(i) PROVE T!TypeOK'
  <2>1. pass[i].at + 1 \in Nat \ {0} /\ pass[i].body \subseteq Bodies BY DEF T!TypeOK, T!PassType
  <2>2. pass' \in [Invocations -> T!PassType] BY <1>8, <2>1 DEF T!Save, T!TypeOK, T!PassType
  <2>3. kept' \in [1..Mints -> SUBSET Bodies] BY <1>8, <2>1 DEF T!Save, T!TypeOK
  <2> QED BY <1>8, <2>2, <2>3 DEF T!Save, T!TypeOK
<1>9. ASSUME NEW i \in Invocations, T!Skip(i) PROVE T!TypeOK'
  <2>1. pass[i].at + 1 \in Nat \ {0} BY DEF T!TypeOK, T!PassType
  <2>2. pass' \in [Invocations -> T!PassType] BY <1>9, <2>1 DEF T!Skip, T!TypeOK, T!PassType
  <2> QED BY <1>9, <2>2 DEF T!Skip, T!Fault, T!TypeOK
<1>10. ASSUME NEW i \in Invocations, T!End(i) PROVE T!TypeOK'
  <2>1. sent' \in Nat BY <1>10 DEF T!End, T!TypeOK
  <2> QED BY <1>10, <1>a, <2>1 DEF T!End, T!Fault, T!TypeOK
<1>11. ASSUME UNCHANGED T!vars PROVE T!TypeOK' BY <1>11 DEF T!vars, T!TypeOK
<1> QED
  BY <1>1, <1>2, <1>3, <1>4, <1>5, <1>6, <1>7, <1>8, <1>9, <1>10, <1>11 DEF TrackerSteps, T!Next, T!Step

LEMMA TypeInit == T!Init => T!TypeOK
BY DEF T!Init, T!Idle, T!TypeOK, T!PassType

----------------------------------------------------------------------------
Busy == {"reserve", "send", "archive", "write", "save"}

Answered == {"archive", "write", "save"}

(***************************************************************************)
(* What a pass knows at each of its steps: the token it is at, the answer  *)
(* it holds, and, before it saves, that the answer's file is whole.        *)
(***************************************************************************)
Informed ==
  \A i \in Invocations :
    /\ pass[i].pc \in Busy => pass[i].at \in 1..Mints
    /\ pass[i].pc \in Answered => \E b \in Bodies : pass[i].body = {b}
    /\ pass[i].pc = "save" => \A b \in pass[i].body : archive[<<pass[i].at, b>>] = "whole"

EvidenceInv == T!TypeOK /\ Informed /\ T!EvidenceKept

\* The file of a pass that holds an answer is that of its token and answer.
LEMMA FileOfPass ==
  ASSUME T!TypeOK, Informed, NEW i \in Invocations, pass[i].pc \in Answered,
         NEW b \in Bodies, pass[i].body = {b}
  PROVE T!File(i) = <<pass[i].at, b>> /\ <<pass[i].at, b>> \in DOMAIN archive
<1>1. pass[i].at \in 1..Mints BY DEF Informed, Busy, Answered
<1>2. DOMAIN archive = (1..Mints) \X Bodies BY DEF T!TypeOK
<1>3. <<pass[i].at, b>> \in DOMAIN archive BY <1>1, <1>2
<1>4. \A f \in DOMAIN archive :
        (f[1] = pass[i].at /\ {f[2]} = pass[i].body) <=> f = <<pass[i].at, b>>
  BY <1>2
<1> QED BY <1>3, <1>4 DEF T!File

\* A step of one pass keeps the invariant, if it does not spoil a whole file
\* and leaves the pass informed and its token's observation with its file.
LEMMA PassStep ==
  ASSUME EvidenceInv, T!TypeOK', NEW i \in Invocations,
         \A j \in Invocations \ {i} : pass'[j] = pass[j],
         \A f \in (1..Mints) \X Bodies : archive[f] = "whole" => archive'[f] = "whole",
         pass'[i].pc \in Busy => pass'[i].at \in 1..Mints,
         pass'[i].pc \in Answered => \E b \in Bodies : pass'[i].body = {b},
         pass'[i].pc = "save" => \A b \in pass'[i].body : archive'[<<pass'[i].at, b>>] = "whole",
         T!EvidenceKept'
  PROVE EvidenceInv'
<1>1. ASSUME NEW j \in Invocations \ {i}
      PROVE /\ pass'[j].pc \in Busy => pass'[j].at \in 1..Mints
            /\ pass'[j].pc \in Answered => \E b \in Bodies : pass'[j].body = {b}
            /\ pass'[j].pc = "save" => \A b \in pass'[j].body : archive'[<<pass'[j].at, b>>] = "whole"
  <2>1. pass'[j] = pass[j] BY <1>1
  <2>2. pass[j].body \subseteq Bodies BY <1>1 DEF EvidenceInv, T!TypeOK, T!PassType
  <2>3. ASSUME pass[j].pc = "save", NEW b \in pass[j].body
        PROVE archive'[<<pass[j].at, b>>] = "whole"
    <3>1. pass[j].at \in 1..Mints /\ archive[<<pass[j].at, b>>] = "whole"
      BY <1>1, <2>3 DEF EvidenceInv, Informed, Busy
    <3> QED BY <2>2, <2>3, <3>1
  <2> QED BY <1>1, <2>1, <2>3 DEF EvidenceInv, Informed
<1>2. Informed' BY <1>1 DEF Informed
<1> QED BY <1>2 DEF EvidenceInv

\* Observations that stay as they are keep their files.
LEMMA KeptStays ==
  ASSUME T!TypeOK, T!EvidenceKept, kept' = kept,
         \A f \in (1..Mints) \X Bodies : archive[f] = "whole" => archive'[f] = "whole"
  PROVE T!EvidenceKept'
<1> SUFFICES ASSUME NEW t \in 1..Mints, NEW b \in kept[t] PROVE archive'[<<t, b>>] = "whole"
  BY DEF T!EvidenceKept
<1>1. b \in Bodies BY DEF T!TypeOK
<1>2. archive[<<t, b>>] = "whole" BY DEF T!EvidenceKept
<1> QED BY <1>1, <1>2

\* Every step keeps the invariant.
LEMMA EvidenceStep ==
  ASSUME EvidenceInv, TrackerSteps PROVE EvidenceInv'
<1>t. T!TypeOK' BY TypeStep DEF EvidenceInv
<1>1. CASE T!NewMonth
  <2>1. \A i \in Invocations : /\ pass'[i].pc = pass[i].pc /\ pass'[i].at = pass[i].at
                              /\ pass'[i].body = pass[i].body
    BY <1>1 DEF T!NewMonth, EvidenceInv, T!TypeOK, T!PassType
  <2>2. archive' = archive /\ kept' = kept BY <1>1 DEF T!NewMonth
  <2>3. Informed' BY <2>1, <2>2 DEF Informed, EvidenceInv
  <2>4. T!EvidenceKept' BY <2>2 DEF T!EvidenceKept, EvidenceInv
  <2> QED BY <1>t, <2>3, <2>4 DEF EvidenceInv
<1>2. ASSUME NEW i \in Invocations, \E plan \in Plans : T!Begin(i, plan) PROVE EvidenceInv'
  <2>1. PICK plan \in Plans : T!Begin(i, plan) BY <1>2
  <2>2. archive' = archive /\ kept' = kept /\ pass'[i].pc = "check"
    BY <2>1 DEF T!Begin, T!Idle, EvidenceInv, T!TypeOK
  <2>3. \A j \in Invocations \ {i} : pass'[j] = pass[j] BY <2>1 DEF T!Begin, EvidenceInv, T!TypeOK
  <2>4. T!EvidenceKept' BY <2>2, KeptStays DEF EvidenceInv
  <2> QED BY <1>t, <2>2, <2>3, <2>4, PassStep DEF Busy, Answered
<1>3. ASSUME NEW i \in Invocations, T!Check(i) PROVE EvidenceInv'
  <2>1. archive' = archive /\ kept' = kept BY <1>3 DEF T!Check
  <2>2. \A j \in Invocations \ {i} : pass'[j] = pass[j] BY <1>3 DEF T!Check, EvidenceInv, T!TypeOK
  <2>3. /\ pass'[i].pc \in {"check", "idle", "reserve"}
        /\ pass'[i].pc = "reserve" => pass'[i].at \in 1..Mints
    <3>1. pass[i].at \in Nat BY DEF EvidenceInv, T!TypeOK, T!PassType
    <3>2. CASE pass' = [pass EXCEPT ![i].at = pass[i].at + 1]
      BY <1>3, <3>2 DEF T!Check, EvidenceInv, T!TypeOK, T!PassType
    <3>3. CASE pass' = [pass EXCEPT ![i] = T!Idle]
      BY <3>3 DEF T!Idle, EvidenceInv, T!TypeOK
    <3>4. CASE pass' = [pass EXCEPT ![i].pc = "reserve"] /\ pass[i].at <= Mints
      <4>1. pass'[i].pc = "reserve" /\ pass'[i].at = pass[i].at
        BY <3>4 DEF EvidenceInv, T!TypeOK, T!PassType
      <4>2. pass[i].at \in 1..Mints BY <3>4 DEF EvidenceInv, T!TypeOK, T!PassType
      <4> QED BY <4>1, <4>2
    <3> QED BY <1>3, <3>2, <3>3, <3>4 DEF T!Check
  <2>4. T!EvidenceKept' BY <2>1, KeptStays DEF EvidenceInv
  <2> QED BY <1>t, <2>1, <2>2, <2>3, <2>4, PassStep DEF Busy, Answered
<1>4. ASSUME NEW i \in Invocations, T!Reserve(i) PROVE EvidenceInv'
  <2>1. archive' = archive /\ kept' = kept BY <1>4 DEF T!Reserve
  <2>2. /\ \A j \in Invocations \ {i} : pass'[j] = pass[j]
        /\ pass'[i] = T!Idle \/ pass'[i] = [pass[i] EXCEPT !.pc = "send", !.asked = TRUE]
    BY <1>4 DEF T!Reserve, EvidenceInv, T!TypeOK
  <2>3. pass[i].at \in 1..Mints BY <1>4 DEF T!Reserve, EvidenceInv, Informed, Busy
  <2>4. pass'[i].pc \in {"idle", "send"} /\ (pass'[i].pc = "send" => pass'[i].at \in 1..Mints)
    <3>1. CASE pass'[i] = T!Idle BY <3>1 DEF T!Idle
    <3>2. CASE pass'[i] = [pass[i] EXCEPT !.pc = "send", !.asked = TRUE]
      <4>1. pass[i] \in T!PassType BY DEF EvidenceInv, T!TypeOK
      <4>2. pass'[i].pc = "send" /\ pass'[i].at = pass[i].at BY <3>2, <4>1 DEF T!PassType
      <4> QED BY <2>3, <4>2
    <3> QED BY <2>2, <3>1, <3>2
  <2>5. T!EvidenceKept' BY <2>1, KeptStays DEF EvidenceInv
  <2> QED BY <1>t, <2>1, <2>2, <2>4, <2>5, PassStep DEF Busy, Answered
<1>5. ASSUME NEW i \in Invocations, T!Fetch(i) PROVE EvidenceInv'
  <2>1. archive' = archive /\ kept' = kept BY <1>5 DEF T!Fetch
  <2>2. PICK b \in Bodies :
          pass' = [pass EXCEPT ![i] = [pass[i] EXCEPT !.pc = "archive", !.body = {b}]]
    BY <1>5 DEF T!Fetch, EvidenceInv, T!TypeOK
  <2>3. \A j \in Invocations \ {i} : pass'[j] = pass[j] BY <2>2 DEF EvidenceInv, T!TypeOK
  <2>4. pass'[i].pc = "archive" /\ pass'[i].body = {b} /\ pass'[i].at = pass[i].at
    BY <2>2 DEF EvidenceInv, T!TypeOK, T!PassType
  <2>5. pass[i].at \in 1..Mints BY <1>5 DEF T!Fetch, EvidenceInv, Informed, Busy
  <2>6. T!EvidenceKept' BY <2>1, KeptStays DEF EvidenceInv
  <2> QED BY <1>t, <2>1, <2>3, <2>4, <2>5, <2>6, PassStep
<1>6. ASSUME NEW i \in Invocations, T!Archive(i) \/ T!Write(i) PROVE EvidenceInv'
  <2>1. pass[i].pc \in {"archive", "write"} /\ kept' = kept BY <1>6 DEF T!Archive, T!Write
  <2>2. PICK b \in Bodies : pass[i].body = {b}
    BY <2>1 DEF EvidenceInv, Informed, Answered
  <2> DEFINE f == <<pass[i].at, b>>
  <2>3. pass[i].at \in 1..Mints BY <2>1 DEF EvidenceInv, Informed, Busy
  <2>4. T!File(i) = f BY <2>1, <2>2, FileOfPass DEF EvidenceInv, Answered
  <2>5. f \in (1..Mints) \X Bodies BY <2>3
  <2>6. \A j \in Invocations \ {i} : pass'[j] = pass[j]
    BY <1>6 DEF T!Archive, T!Write, EvidenceInv, T!TypeOK
  <2>7. \/ pass'[i] = T!Idle /\ archive' = archive
        \/ /\ pass'[i] = [pass[i] EXCEPT !.pc = "write"]
           /\ archive[f] = "none" /\ archive' = [archive EXCEPT ![f] = "torn"]
        \/ pass'[i] = [pass[i] EXCEPT !.pc = "save"] /\ archive[f] = "whole" /\ archive' = archive
        \/ pass'[i] = [pass[i] EXCEPT !.pc = "save"] /\ archive' = [archive EXCEPT ![f] = "whole"]
    BY <1>6, <2>4 DEF T!Archive, T!Archived, T!Write, EvidenceInv, T!TypeOK
  <2>8. \A g \in (1..Mints) \X Bodies : archive[g] = "whole" => archive'[g] = "whole"
    BY <2>5, <2>7 DEF EvidenceInv, T!TypeOK
  <2>9. \/ pass'[i].pc = "idle"
        \/ /\ pass'[i].pc \in {"write", "save"}
           /\ pass'[i].at = pass[i].at /\ pass'[i].body = {b}
           /\ pass'[i].pc = "save" => archive'[f] = "whole"
    <3>1. pass[i] \in T!PassType BY DEF EvidenceInv, T!TypeOK
    <3>2. CASE pass'[i] = T!Idle BY <3>2 DEF T!Idle
    <3>3. ASSUME NEW s \in {"write", "save"}, pass'[i] = [pass[i] EXCEPT !.pc = s]
          PROVE pass'[i].pc = s /\ pass'[i].at = pass[i].at /\ pass'[i].body = {b}
      BY <2>2, <3>1, <3>3 DEF T!PassType
    <3>4. ASSUME archive' = [archive EXCEPT ![f] = "whole"] PROVE archive'[f] = "whole"
      BY <2>5, <3>4 DEF EvidenceInv, T!TypeOK
    <3> HIDE DEF f
    <3> QED BY <2>7, <3>2, <3>3, <3>4
  <2>10. T!EvidenceKept' BY <2>1, <2>8, KeptStays DEF EvidenceInv
  <2>11. pass'[i].pc = "save" => \A c \in pass'[i].body : archive'[<<pass'[i].at, c>>] = "whole"
    BY <2>9
  <2> QED BY <1>t, <2>3, <2>6, <2>8, <2>9, <2>10, <2>11, PassStep DEF Busy, Answered
<1>7. ASSUME NEW i \in Invocations, T!Save(i) PROVE EvidenceInv'
  <2>1. archive' = archive /\ pass[i].pc = "save" BY <1>7 DEF T!Save
  <2>2. pass[i].at \in 1..Mints BY <2>1 DEF EvidenceInv, Informed, Busy
  <2>3. \A b \in pass[i].body : archive[<<pass[i].at, b>>] = "whole"
    BY <2>1 DEF EvidenceInv, Informed
  <2>4. \A j \in Invocations \ {i} : pass'[j] = pass[j] BY <1>7 DEF T!Save, EvidenceInv, T!TypeOK
  <2>5. pass'[i].pc = "check" BY <1>7 DEF T!Save, EvidenceInv, T!TypeOK, T!PassType
  <2>6. kept' = kept \/ kept' = [kept EXCEPT ![pass[i].at] = pass[i].body]
    BY <1>7 DEF T!Save
  <2>7. T!EvidenceKept' BY <2>1, <2>2, <2>3, <2>6 DEF T!EvidenceKept, EvidenceInv, T!TypeOK
  <2> QED BY <1>t, <2>1, <2>4, <2>5, <2>7, PassStep DEF Busy, Answered
<1>8. ASSUME NEW i \in Invocations, T!Skip(i) \/ T!End(i) PROVE EvidenceInv'
  <2>1. archive' = archive /\ kept' = kept BY <1>8 DEF T!Skip, T!End
  <2>2. \A j \in Invocations \ {i} : pass'[j] = pass[j]
    BY <1>8 DEF T!Skip, T!End, EvidenceInv, T!TypeOK
  <2>3. pass'[i].pc \in {"check", "idle"}
    BY <1>8 DEF T!Skip, T!End, T!Idle, EvidenceInv, T!TypeOK, T!PassType
  <2>4. T!EvidenceKept' BY <2>1, KeptStays DEF EvidenceInv
  <2> QED BY <1>t, <2>1, <2>2, <2>3, <2>4, PassStep DEF Busy, Answered
<1>9. CASE UNCHANGED T!vars
  BY <1>9, <1>t DEF T!vars, EvidenceInv, Informed, T!EvidenceKept
<1> QED
  BY <1>1, <1>2, <1>3, <1>4, <1>5, <1>6, <1>7, <1>8, <1>9 DEF TrackerSteps, T!Next, T!Step

\* The passes start with nothing saved.
LEMMA EvidenceInit == T!Init => EvidenceInv
BY TypeInit DEF T!Init, T!Idle, EvidenceInv, Informed, T!EvidenceKept, Busy, Answered

----------------------------------------------------------------------------
\* The requests reserved in this month and not sent yet.
Pending == {i \in Invocations : pass[i].pc = "send" /\ ~pass[i].old}

\* The reserved requests fit the row, and those sent or pending are reserved.
Charged(r, n) ==
  /\ r = {} => n = 0
  /\ \A b \in r : b.prior + b.reserved <= b.limit /\ n <= b.reserved

(***************************************************************************)
(* AllocationKept alone says nothing of a request that is reserved and not *)
(* yet sent: the invariant counts both against the month's row, and knows  *)
(* that a pass began with settings that leave it something to ask for.     *)
(***************************************************************************)
AllocationInv ==
  /\ T!TypeOK
  /\ Charged(row, sent + Cardinality(Pending))
  /\ \A i \in Invocations : \A plan \in pass[i].plan : plan.prior < plan.limit

\* The settings of the passes stay bounded when those of one pass do.
LEMMA PlansStay ==
  ASSUME T!TypeOK, NEW i \in Invocations,
         \A j \in Invocations : \A plan \in pass[j].plan : plan.prior < plan.limit,
         \A j \in Invocations \ {i} : pass'[j] = pass[j],
         \A plan \in pass'[i].plan : plan.prior < plan.limit
  PROVE \A j \in Invocations : \A plan \in pass'[j].plan : plan.prior < plan.limit
OBVIOUS

\* The pending requests are finitely many.
LEMMA PendingIsFinite ==
  ASSUME IsFiniteSet(Invocations) PROVE IsFiniteSet(Pending) /\ Cardinality(Pending) \in Nat
<1>1. Pending \subseteq Invocations BY DEF Pending
<1> QED BY <1>1, FS_Subset, FS_CardinalityType

\* What a step of one pass does to the number of pending requests.
LEMMA PendingStep ==
  ASSUME IsFiniteSet(Invocations), NEW i \in Invocations,
         \A j \in Invocations \ {i} : pass'[j] = pass[j]
  PROVE /\ (i \in Pending <=> i \in Pending') => Pending' = Pending
        /\ i \in Pending /\ i \notin Pending' =>
             Cardinality(Pending') = Cardinality(Pending) - 1
        /\ i \notin Pending /\ i \in Pending' =>
             Cardinality(Pending') = Cardinality(Pending) + 1
<1>1. \A j \in Invocations \ {i} : j \in Pending <=> j \in Pending' BY DEF Pending
<1>2. Pending \subseteq Invocations /\ Pending' \subseteq Invocations BY DEF Pending
<1>3. ASSUME i \in Pending, i \notin Pending' PROVE Pending' = Pending \ {i}
  BY <1>1, <1>2, <1>3
<1>4. ASSUME i \notin Pending, i \in Pending' PROVE Pending' = Pending \cup {i}
  BY <1>1, <1>2, <1>4
<1>5. (i \in Pending <=> i \in Pending') => Pending' = Pending BY <1>1, <1>2
<1> QED BY <1>3, <1>4, <1>5, PendingIsFinite, FS_AddElement, FS_RemoveElement

\* A step of one pass other than a reservation: what it sends was pending.
LEMMA ChargedStep ==
  ASSUME IsFiniteSet(Invocations), AllocationInv, T!TypeOK', NEW i \in Invocations,
         \A j \in Invocations \ {i} : pass'[j] = pass[j],
         row' = row, i \notin Pending',
         sent' \in (IF i \in Pending THEN {sent, sent + 1} ELSE {sent}),
         pass'[i].plan \subseteq pass[i].plan
  PROVE AllocationInv'
<1>1. sent' + Cardinality(Pending') <= sent + Cardinality(Pending) /\ sent' + Cardinality(Pending') \in Nat
  <2>1. sent \in Nat /\ Cardinality(Pending) \in Nat /\ Cardinality(Pending') \in Nat /\ sent' \in Nat
    BY PendingIsFinite, PendingStep, FS_CardinalityType, FS_Subset DEF AllocationInv, T!TypeOK, Pending
  <2>2. CASE i \in Pending
    <3>1. Cardinality(Pending') = Cardinality(Pending) - 1 BY <2>2, PendingStep
    <3>2. sent' \in {sent, sent + 1} BY <2>2
    <3> QED BY <2>1, <3>1, <3>2
  <2>3. CASE i \notin Pending
    <3>1. Pending' = Pending BY <2>3, PendingStep
    <3>2. sent' = sent BY <2>3
    <3> QED BY <2>1, <3>1, <3>2
  <2> QED BY <2>2, <2>3
<1>2. Charged(row, sent + Cardinality(Pending)) BY DEF AllocationInv
<1>3. sent + Cardinality(Pending) \in Nat
  BY PendingIsFinite DEF AllocationInv, T!TypeOK
<1>4. \A b \in row : b.reserved \in Nat BY DEF AllocationInv, T!TypeOK
<1>5. Charged(row', sent' + Cardinality(Pending'))
  BY <1>1, <1>2, <1>3, <1>4 DEF Charged
<1>6. \A j \in Invocations : \A plan \in pass'[j].plan : plan.prior < plan.limit
  BY PlansStay DEF AllocationInv
<1> QED BY <1>5, <1>6 DEF AllocationInv

\* The reservation: the request is counted in the transaction that grants it.
LEMMA ReserveCharges ==
  ASSUME IsFiniteSet(Invocations), AllocationInv, T!TypeOK',
         NEW i \in Invocations, T!Reserve(i)
  PROVE AllocationInv'
<1> DEFINE granted == [pass[i] EXCEPT !.pc = "send", !.asked = TRUE]
<1>1. pass[i] \in T!PassType BY DEF AllocationInv, T!TypeOK
<1>2. \A j \in Invocations \ {i} : pass'[j] = pass[j]
  BY DEF T!Reserve, AllocationInv, T!TypeOK
<1>3. i \notin Pending BY DEF T!Reserve, Pending
<1>4. CASE pass'[i] = T!Idle /\ row' = row
  <2>1. i \notin Pending' BY <1>4 DEF Pending, T!Idle
  <2>2. pass'[i].plan \subseteq pass[i].plan BY <1>4 DEF T!Idle
  <2> QED BY <1>2, <1>3, <1>4, <2>1, <2>2, ChargedStep DEF T!Reserve
<1>5. CASE pass'[i] = granted /\ row' = row /\ pass[i].old
  <2>1. i \notin Pending' /\ pass'[i].plan = pass[i].plan
    BY <1>1, <1>5 DEF Pending, T!PassType
  <2> QED BY <1>2, <1>3, <1>5, <2>1, ChargedStep DEF T!Reserve
<1>6. ASSUME ~pass[i].old, NEW plan \in pass[i].plan,
             NEW b \in (IF row = {} THEN {[limit |-> plan.limit, prior |-> plan.prior, reserved |-> 0]}
                        ELSE row),
             ~T!Mismatch(b, plan),
             \/ pass' = [pass EXCEPT ![i] = T!Idle] /\ row' = {b}
             \/ /\ plan.prior + b.reserved < plan.limit
                /\ pass' = [pass EXCEPT ![i] = granted]
                /\ row' = {[b EXCEPT !.reserved = b.reserved + 1]}
      PROVE AllocationInv'
  <2> DEFINE n == sent + Cardinality(Pending)
  <2>3. plan \in Plans /\ plan.prior < plan.limit /\ plan.limit \in Nat /\ plan.prior \in Nat
    BY <1>1, TrackerAssumption DEF AllocationInv, T!PassType
  <2>4. b \in [limit : Nat, prior : Nat, reserved : Nat]
    BY <1>6, <2>3 DEF AllocationInv, T!TypeOK
  <2>5. b.limit = plan.limit /\ b.prior = plan.prior BY <1>6 DEF T!Mismatch
  <2>6. n \in Nat /\ n <= b.reserved /\ b.prior + b.reserved <= b.limit
    <3>1. n \in Nat BY PendingIsFinite DEF AllocationInv, T!TypeOK
    <3>2. CASE row = {}
      <4>1. b = [limit |-> plan.limit, prior |-> plan.prior, reserved |-> 0] BY <1>6, <3>2
      <4>2. n = 0 BY <3>2 DEF AllocationInv, Charged
      <4>3. b.reserved = 0 /\ b.prior = plan.prior /\ b.limit = plan.limit BY <4>1
      <4> QED BY <2>3, <4>2, <4>3
    <3>3. CASE row # {}
      <4>1. b \in row BY <1>6, <3>3
      <4> QED BY <3>1, <4>1 DEF AllocationInv, Charged
    <3> QED BY <3>2, <3>3
  <2>7. \A j \in Invocations : \A q \in pass'[j].plan : q.prior < q.limit
    <3>1. pass'[i].plan \subseteq pass[i].plan
      <4>1. pass'[i] = T!Idle \/ pass'[i] = granted BY <1>6 DEF AllocationInv, T!TypeOK
      <4>2. T!Idle.plan = {} BY DEF T!Idle
      <4>3. granted.plan = pass[i].plan BY <1>1 DEF T!PassType
      <4> QED BY <4>1, <4>2, <4>3
    <3> QED BY <1>2, <3>1, PlansStay DEF AllocationInv
  <2>8. sent' = sent BY DEF T!Reserve
  <2>9. CASE pass' = [pass EXCEPT ![i] = T!Idle] /\ row' = {b}
    <3>1. i \notin Pending' BY <2>9 DEF Pending, T!Idle, AllocationInv, T!TypeOK
    <3>2. Pending' = Pending BY <1>2, <1>3, <3>1, PendingStep
    <3>3. Charged(row', sent' + Cardinality(Pending')) BY <2>6, <2>8, <2>9, <3>2 DEF Charged
    <3> QED BY <2>7, <3>3 DEF AllocationInv
  <2>10. CASE /\ plan.prior + b.reserved < plan.limit
              /\ pass' = [pass EXCEPT ![i] = granted]
              /\ row' = {[b EXCEPT !.reserved = b.reserved + 1]}
    <3>1. pass'[i] = granted BY <2>10 DEF AllocationInv, T!TypeOK
    <3>2. i \in Pending' BY <1>1, <1>6, <3>1 DEF Pending, T!PassType
    <3>3. Cardinality(Pending') = Cardinality(Pending) + 1
      BY <1>2, <1>3, <3>2, PendingStep
    <3> DEFINE c == [b EXCEPT !.reserved = b.reserved + 1]
    <3>4. c.limit = b.limit /\ c.prior = b.prior /\ c.reserved = b.reserved + 1 BY <2>4
    <3>5. b.reserved \in Nat /\ b.prior + b.reserved < b.limit /\ b.prior \in Nat /\ b.limit \in Nat
      BY <2>4, <2>5, <2>10
    <3>6. c.prior + c.reserved <= c.limit BY <3>4, <3>5
    <3>7. sent' + Cardinality(Pending') = n + 1
      BY <2>8, <3>3, PendingIsFinite DEF AllocationInv, T!TypeOK
    <3>8. sent' + Cardinality(Pending') <= c.reserved BY <2>6, <3>4, <3>5, <3>7
    <3>9. row' = {c} BY <2>10
    <3> HIDE DEF c
    <3>10. Charged(row', sent' + Cardinality(Pending')) BY <3>6, <3>8, <3>9 DEF Charged
    <3> QED BY <2>7, <3>10 DEF AllocationInv
  <2> QED BY <1>6, <2>9, <2>10
<1>7. CASE pass[i].old
  <2>1. row' = row /\ (pass'[i] = T!Idle \/ pass'[i] = granted)
    BY <1>7 DEF T!Reserve, AllocationInv, T!TypeOK
  <2> QED BY <1>4, <1>5, <1>7, <2>1
<1>8. CASE ~pass[i].old
  <2>1. PICK plan \in pass[i].plan :
          \E b \in (IF row = {} THEN {[limit |-> plan.limit, prior |-> plan.prior, reserved |-> 0]}
                    ELSE row) :
            IF T!Mismatch(b, plan) THEN pass' = [pass EXCEPT ![i] = T!Idle] /\ UNCHANGED row
            ELSE IF plan.prior + b.reserved >= plan.limit
              THEN pass' = [pass EXCEPT ![i] = T!Idle] /\ row' = {b}
            ELSE /\ pass' = [pass EXCEPT ![i] = granted]
                 /\ row' = {[b EXCEPT !.reserved = b.reserved + 1]}
    BY <1>8 DEF T!Reserve, AllocationInv, T!TypeOK
  <2>2. PICK b \in (IF row = {} THEN {[limit |-> plan.limit, prior |-> plan.prior, reserved |-> 0]}
                    ELSE row) :
            IF T!Mismatch(b, plan) THEN pass' = [pass EXCEPT ![i] = T!Idle] /\ UNCHANGED row
            ELSE IF plan.prior + b.reserved >= plan.limit
              THEN pass' = [pass EXCEPT ![i] = T!Idle] /\ row' = {b}
            ELSE /\ pass' = [pass EXCEPT ![i] = granted]
                 /\ row' = {[b EXCEPT !.reserved = b.reserved + 1]}
    BY <2>1
  <2>3. plan.limit \in Nat /\ plan.prior \in Nat
    BY <1>1, TrackerAssumption DEF T!PassType
  <2>4. b.reserved \in Nat BY <2>2 DEF AllocationInv, T!TypeOK
  <2>5. CASE T!Mismatch(b, plan)
    <3>1. pass'[i] = T!Idle /\ row' = row BY <2>2, <2>5 DEF AllocationInv, T!TypeOK
    <3> QED BY <1>4, <3>1
  <2>6. CASE ~T!Mismatch(b, plan)
    <3>1. CASE plan.prior + b.reserved >= plan.limit
      BY <1>6, <1>8, <2>2, <2>6, <3>1
    <3>2. CASE plan.prior + b.reserved < plan.limit
      <4>1. ~(plan.prior + b.reserved >= plan.limit) BY <2>3, <2>4, <3>2
      <4> QED BY <1>6, <1>8, <2>2, <2>6, <3>2, <4>1
    <3> QED BY <2>3, <2>4, <3>1, <3>2
  <2> QED BY <2>5, <2>6
<1> QED BY <1>7, <1>8

\* Every step keeps the invariant.
LEMMA AllocationStep ==
  ASSUME IsFiniteSet(Invocations), AllocationInv, TrackerSteps
  PROVE AllocationInv'
<1>t. T!TypeOK' BY TypeStep DEF AllocationInv
<1>1. CASE T!NewMonth
  <2>1. row' = {} /\ sent' = 0 BY <1>1 DEF T!NewMonth
  <2>2. \A i \in Invocations : pass'[i].pc = "idle" \/ pass'[i].old
    BY <1>1 DEF T!NewMonth, AllocationInv, T!TypeOK, T!PassType
  <2>3. Pending' = {} BY <2>2 DEF Pending
  <2>4. Cardinality(Pending') = 0 BY <2>3, FS_EmptySet
  <2>5. Charged(row', sent' + Cardinality(Pending')) BY <2>1, <2>4 DEF Charged
  <2>6. \A i \in Invocations : pass'[i].plan = pass[i].plan
    BY <1>1 DEF T!NewMonth, AllocationInv, T!TypeOK, T!PassType
  <2> QED BY <1>t, <2>5, <2>6 DEF AllocationInv
<1>2. ASSUME NEW i \in Invocations, NEW plan \in Plans, T!Begin(i, plan) PROVE AllocationInv'
  <2>1. \A j \in Invocations \ {i} : pass'[j] = pass[j] BY <1>2 DEF T!Begin, AllocationInv, T!TypeOK
  <2>2. pass'[i].pc = "check" /\ pass'[i].plan = {plan}
    BY <1>2 DEF T!Begin, T!Idle, AllocationInv, T!TypeOK
  <2>3. i \notin Pending /\ i \notin Pending' BY <1>2, <2>2 DEF T!Begin, Pending
  <2>4. Pending' = Pending BY <2>1, <2>3, PendingStep
  <2>5. row' = row /\ sent' = sent BY <1>2 DEF T!Begin
  <2>6. plan.prior < plan.limit BY <1>2 DEF T!Begin
  <2>7. \A j \in Invocations : \A q \in pass'[j].plan : q.prior < q.limit
    BY <2>1, <2>2, <2>6, PlansStay DEF AllocationInv
  <2>8. Charged(row', sent' + Cardinality(Pending')) BY <2>4, <2>5 DEF AllocationInv
  <2> QED BY <1>t, <2>7, <2>8 DEF AllocationInv
<1>3. ASSUME NEW i \in Invocations, T!Reserve(i) PROVE AllocationInv'
  BY <1>3, <1>t, ReserveCharges
<1>4. ASSUME NEW i \in Invocations,
             \/ T!Check(i) \/ T!Fetch(i) \/ T!Archive(i) \/ T!Write(i) \/ T!Save(i) \/ T!Skip(i) \/ T!End(i)
      PROVE AllocationInv'
  <2>1. pass[i] \in T!PassType BY DEF AllocationInv, T!TypeOK
  <2>2. \A j \in Invocations \ {i} : pass'[j] = pass[j]
    BY <1>4 DEF T!Check, T!Fetch, T!Archive, T!Write, T!Save, T!Skip, T!End, AllocationInv, T!TypeOK
  <2>3. row' = row BY <1>4 DEF T!Check, T!Fetch, T!Archive, T!Write, T!Save, T!Skip, T!End
  <2>4. pass'[i].pc # "send" /\ pass'[i].plan \subseteq pass[i].plan
    <3>1. CASE T!Check(i)
      <4>1. \/ pass'[i] = [pass[i] EXCEPT !.at = pass[i].at + 1]
            \/ pass'[i] = T!Idle
            \/ pass'[i] = [pass[i] EXCEPT !.pc = "reserve"]
        BY <3>1 DEF T!Check, AllocationInv, T!TypeOK
      <4>2. T!Idle.pc = "idle" /\ T!Idle.plan = {} BY DEF T!Idle
      <4>3. pass[i].pc = "check" BY <3>1 DEF T!Check
      <4> QED BY <2>1, <4>1, <4>2, <4>3 DEF T!PassType
    <3>2. CASE T!Fetch(i)
      <4>1. PICK b \in Bodies : pass'[i] = [pass[i] EXCEPT !.pc = "archive", !.body = {b}]
        BY <3>2 DEF T!Fetch, AllocationInv, T!TypeOK
      <4> QED BY <2>1, <4>1 DEF T!PassType
    <3>3. CASE T!Archive(i) \/ T!Write(i)
      <4>1. \/ \E s \in {"write", "save"} : pass'[i] = [pass[i] EXCEPT !.pc = s]
            \/ pass'[i] = T!Idle
        BY <3>3 DEF T!Archive, T!Write, AllocationInv, T!TypeOK
      <4>2. T!Idle.pc = "idle" /\ T!Idle.plan = {} BY DEF T!Idle
      <4> QED BY <2>1, <4>1, <4>2 DEF T!PassType
    <3>4. CASE T!Save(i) \/ T!Skip(i) \/ T!End(i)
      BY <2>1, <3>4 DEF T!Save, T!Skip, T!End, T!Idle, T!PassType, AllocationInv, T!TypeOK
    <3> QED BY <1>4, <3>1, <3>2, <3>3, <3>4
  <2>5. sent' \in (IF i \in Pending THEN {sent, sent + 1} ELSE {sent})
    BY <1>4 DEF T!Check, T!Fetch, T!Archive, T!Write, T!Save, T!Skip, T!End, Pending
  <2>6. i \notin Pending' BY <2>4 DEF Pending
  <2> QED BY <1>t, <2>2, <2>3, <2>4, <2>5, <2>6, ChargedStep
<1>5. CASE UNCHANGED T!vars
  <2>1. Pending' = Pending BY <1>5 DEF T!vars, Pending
  <2> QED BY <1>5, <1>t, <2>1 DEF T!vars, AllocationInv
<1> QED BY <1>1, <1>2, <1>3, <1>4, <1>5 DEF TrackerSteps, T!Next, T!Step

\* Nothing is reserved or pending when the passes start.
LEMMA AllocationInit == T!Init => AllocationInv
<1> SUFFICES ASSUME T!Init PROVE AllocationInv OBVIOUS
<1>1. Pending = {} BY DEF T!Init, T!Idle, Pending
<1>2. Cardinality(Pending) = 0 BY <1>1, FS_EmptySet
<1> QED BY <1>2, TypeInit DEF T!Init, T!Idle, AllocationInv, Charged

----------------------------------------------------------------------------
\* A step of the index passes leaves everything of the Tracker's alone.
LEMMA IndexStep ==
  ASSUME faults \in Nat, Index PROVE UNCHANGED trackerVars /\ faults' \in Nat
<1>1. faults' = faults \/ Fault
  <2>1. Tick => faults' = faults BY DEF Tick
  <2>2. \A t \in Tokens : Appear(t) => faults' = faults BY DEF Appear
  <2>3. \A t \in Tokens : Track(t) => faults' = faults BY DEF Track
  <2>4. \A t \in Tokens : Fallback(t) => faults' = faults BY DEF Fallback
  <2>5. \A p \in Processes : LoadCandidates(p) => faults' = faults BY DEF LoadCandidates
  <2>6. \A p \in Processes : LoadCursor(p) => faults' = faults BY DEF LoadCursor
  <2>7. \A p \in Processes : Reserve(p) => faults' = faults BY DEF Reserve
  <2>8. \A p \in Processes : AnswerPage(p) => faults' = faults BY DEF AnswerPage
  <2>9. \A p \in Processes : AnswerBatch(p) => faults' = faults BY DEF AnswerBatch
  <2>10. \A p \in Processes : Upsert(p) => faults' = faults BY DEF Upsert
  <2>11. \A p \in Processes : Save(p) => faults' = faults BY DEF Save
  <2>12. \A p \in Processes : RequestFails(p) => Fault BY DEF RequestFails
  <2>13. \A p \in Processes : Crash(p) => Fault BY DEF Crash
  <2>14. \A p \in Processes : \A kind \in scenario.work[p] : Start(p, kind) => faults' = faults BY DEF Start
  <2> QED BY <2>1, <2>2, <2>3, <2>4, <2>5, <2>6, <2>7, <2>8, <2>9, <2>10, <2>11, <2>12, <2>13, <2>14 DEF Index, Next, Step
<1>2. faults' \in Nat BY <1>1 DEF Fault
<1> QED BY <1>2 DEF Index

\* What the invariants say is about the Tracker's variables and the faults.
LEMMA IndexKeeps ==
  ASSUME faults \in Nat, Index PROVE
    /\ EvidenceInv => EvidenceInv'
    /\ AllocationInv => AllocationInv'
<1>1. /\ row' = row /\ sent' = sent /\ archive' = archive /\ kept' = kept /\ pass' = pass
      /\ faults' \in Nat
  BY IndexStep DEF trackerVars
<1>2. T!TypeOK => T!TypeOK' BY <1>1 DEF T!TypeOK
<1>3. Pending' = Pending BY <1>1 DEF Pending
<1>4. EvidenceInv => EvidenceInv'
  BY <1>1, <1>2 DEF EvidenceInv, Informed, T!EvidenceKept
<1>5. AllocationInv => AllocationInv' BY <1>1, <1>2, <1>3 DEF AllocationInv
<1> QED BY <1>4, <1>5

\* A step of either part, or none.
LEMMA BothKeep ==
  ASSUME [BothNext]_<<part, vars, trackerVars>>, T!TypeOK PROVE
    /\ EvidenceInv => EvidenceInv'
    /\ AllocationInv => AllocationInv'
<1>1. CASE Index BY <1>1, IndexKeeps DEF T!TypeOK
<1>2. CASE Tracker \/ UNCHANGED <<part, vars, trackerVars>>
  <2>1. TrackerSteps BY <1>2 DEF Tracker, TrackerSteps, vars, trackerVars, T!vars
  <2> QED BY <2>1, EvidenceStep, AllocationStep, TrackerAssumption
<1> QED BY <1>1, <1>2 DEF BothNext

(***************************************************************************)
(* Of every saved observation the archive holds the whole answer, whatever *)
(* passes run beside each other and wherever they fail or are killed       *)
(* (solana_tracker_backfill.rs).                                           *)
(***************************************************************************)
THEOREM EvidenceIsKept == FairSpec => []EvidenceKept
<1>1. BothInit => EvidenceInv BY EvidenceInit DEF BothInit
<1>2. EvidenceInv /\ [BothNext]_<<part, vars, trackerVars>> => EvidenceInv'
  BY BothKeep DEF EvidenceInv
<1>3. EvidenceInv => EvidenceKept BY DEF EvidenceInv, EvidenceKept
<1> QED BY <1>1, <1>2, <1>3, PTL DEF FairSpec

(***************************************************************************)
(* The requests sent in a month never exceed its allocation, for any       *)
(* number of passes that begin, fail and are killed beside each other with *)
(* whatever settings (reserve_provider_request_budget).                    *)
(***************************************************************************)
THEOREM AllocationIsKept == FairSpec => []AllocationKept
<1>1. BothInit => AllocationInv BY AllocationInit DEF BothInit
<1>2. AllocationInv /\ [BothNext]_<<part, vars, trackerVars>> => AllocationInv'
  BY BothKeep DEF AllocationInv
<1>3. AllocationInv => AllocationKept
  <2> SUFFICES ASSUME AllocationInv, NEW b \in row PROVE b.prior + sent <= b.limit
    BY DEF AllocationKept, T!AllocationKept
  <2>1. b.prior \in Nat /\ b.reserved \in Nat /\ b.limit \in Nat /\ sent \in Nat
    BY DEF AllocationInv, T!TypeOK
  <2>2. Cardinality(Pending) \in Nat BY PendingIsFinite, TrackerAssumption
  <2>3. b.prior + b.reserved <= b.limit /\ sent + Cardinality(Pending) <= b.reserved
    BY DEF AllocationInv, Charged
  <2> QED BY <2>1, <2>2, <2>3
<1> QED BY <1>1, <1>2, <1>3, PTL DEF FairSpec

----------------------------------------------------------------------------
(***************************************************************************)
(* The index passes.  A cursor is judged by what it still covers: a token  *)
(* is ahead of an interval's offset when its number among the rows of that *)
(* interval is larger.                                                     *)
(***************************************************************************)

Interval == [start : Int, end : Int, offset : Nat]
Observation == [source : {"codex", "missing", "fallback"}, at : Nat]

PassType ==
  [pc : {"done", "load", "request", "sent", "upsert", "save"},
   kind : {"none", "days", "runner", "observe"}, key : Nat, cursor : Seq(Interval),
   todo : SUBSET Launches, retry : Nat, sent : BOOLEAN,
   rows : SUBSET (Launches \X Observation), count : Nat, at : Nat]

Within(i, j) == i.start <= Created[Order[j]] /\ Created[Order[j]] < i.end

\* Rows and RowNumber, for any set L of listed tokens.
RowsIn(L, i) == {j \in 1..Len(Order) : Order[j] \in L /\ Within(i, j)}
NumberIn(L, i, j) == Cardinality({h \in RowsIn(L, i) : h <= j})

\* The token at place j is on a page from `offset` on, or on one of a cursor's.
Ahead(L, i, j, offset) == j \in RowsIn(L, i) /\ offset < NumberIn(L, i, j)
Covers(L, c, j) == \E x \in 1..Len(c) : Ahead(L, c[x], j, c[x].offset)

\* Where it is once the page that was read is done with.
Remains(L, c, n, j) ==
  \/ Covers(L, Pop(c), j)
  \/ n = PageSize /\ Ahead(L, Top(c), j, Top(c).offset + n)

\* The tokens with a known row, by the table of rows A.
KnownIn(A) == {t \in Tokens : \E o \in A[t] : o.source # "missing"}

\* The places of the tokens an enumeration owes, by the history B.
Owed(B, k) ==
  {j \in 1..Len(Order) : Within(Whole(k)[1], j) /\ \E b \in B[k] : Order[j] \in b.owed}

\* A "missing" observation of an owed token was made before the enumeration began.
NotLater(t, o, B) ==
  o.source = "missing" => \A k \in Keys : \A b \in B[k] : t \in b.owed => o.at <= b.at

CursorOK(c, k, L, K, B) == \A j \in Owed(B, k) : Order[j] \in K \/ Covers(L, c, j)

\* What the rows of a pass are.
RowsOK(r, B, now) ==
  /\ r.pc # "upsert" => r.rows = {}
  /\ \A x \in r.rows :
       /\ x[2].at <= now /\ NotLater(x[1], x[2], B)
       /\ r.kind # "observe" =>
            x[2].source = "codex" /\ \A b \in B[r.key] : b.at <= x[2].at

\* A pass over keys that have begun.
PassBegun(r, B) ==
  r.pc # "done" =>
    /\ r.kind # "none" /\ (r.kind # "observe" => r.key \in KeysOf(r.kind))
    /\ r.pc = "save" => r.kind # "observe"
    /\ \A k \in KeysOf(r.kind) : B[k] # {} /\ \A b \in B[k] : b.at <= r.at

\* Its cursor, before a page is read and after.
PassCovers(r, L, K, B) ==
  r.kind # "observe" =>
    /\ r.pc \in {"request", "sent", "upsert", "save"} => r.cursor # << >>
    /\ r.pc \in {"request", "sent"} => CursorOK(r.cursor, r.key, L, K, B)
    /\ r.pc \in {"upsert", "save"} =>
         \A j \in Owed(B, r.key) :
           \/ Order[j] \in K
           \/ r.pc = "upsert" /\ \E x \in r.rows : x[1] = Order[j]
           \/ Remains(L, r.cursor, r.count, j)

PassOK(r, L, K, B, now) ==
  r.at <= now /\ PassBegun(r, B) /\ RowsOK(r, B, now) /\ PassCovers(r, L, K, B)

BegunOK(B, S, now) == \A k \in Keys : \A b \in B[k] : b.at \in 0..now /\ b.owed \subseteq S

(***************************************************************************)
(* The inductive invariant.  Every saved cursor and every cursor a pass    *)
(* works with covers what the enumeration owes and the store does not know *)
(* yet; the row that a page brings is never older than a "missing" one.    *)
(***************************************************************************)
IndexInv ==
  /\ scenario \in Scenarios
  /\ clock \in Nat /\ listed \subseteq Tokens /\ tracked \subseteq Launches
  /\ begun \in [Keys -> SUBSET [at : Nat, owed : SUBSET Tokens]]
  /\ BegunOK(begun, listed \cap tracked, clock)
  /\ ath \in [Tokens -> SUBSET Observation]
  /\ \A t \in Tokens : \A o \in ath[t] : o.at <= clock /\ NotLater(t, o, begun)
  /\ saved \in [Keys -> SUBSET Seq(Interval)]
  /\ \A k \in Keys : saved[k] # {} => begun[k] # {}
  /\ \A k \in Keys : \A c \in saved[k] : CursorOK(c, k, listed, KnownIn(ath), begun)
  /\ proc \in [Processes -> PassType]
  /\ \A p \in Processes : PassOK(proc[p], listed, KnownIn(ath), begun, clock)

LEMMA Places ==
  /\ Len(Order) \in Nat /\ IsFiniteSet(1..Len(Order))
  /\ \A j \in 1..Len(Order) : Order[j] \in Tokens /\ Created[Order[j]] \in Nat
<1>1. Order \in Seq(DOMAIN Created) /\ Created \in [DOMAIN Created -> Nat]
  BY ConstantsAssumption
<1>2. Len(Order) \in Nat BY <1>1
<1>3. IsFiniteSet(1..Len(Order)) BY <1>2, FS_Interval
<1> QED BY <1>1, <1>2, <1>3 DEF Tokens

\* The rows of an interval are numbered from 1, in their order.
LEMMA Numbers ==
  ASSUME NEW L, NEW i
  PROVE  /\ RowsIn(L, i) \subseteq 1..Len(Order) /\ IsFiniteSet(RowsIn(L, i))
         /\ Cardinality(RowsIn(L, i)) \in Nat
         /\ \A j \in RowsIn(L, i) : NumberIn(L, i, j) \in 1..Cardinality(RowsIn(L, i))
         /\ \A j, k \in RowsIn(L, i) : j < k => NumberIn(L, i, j) < NumberIn(L, i, k)
<1> DEFINE R == RowsIn(L, i)
           upTo(j) == {h \in R : h <= j}
<1>1. R \subseteq 1..Len(Order) BY DEF RowsIn
<1>2. IsFiniteSet(R) BY <1>1, Places, FS_Subset
<1>3. Cardinality(R) \in Nat BY <1>2, FS_CardinalityType
<1>4. \A j : NumberIn(L, i, j) = Cardinality(upTo(j)) BY DEF NumberIn
<1>5. \A j : upTo(j) \subseteq R OBVIOUS
<1>6. \A j \in R : j \in upTo(j) /\ \A k \in R : j < k => upTo(j) \subseteq upTo(k) /\ k \notin upTo(j)
  BY <1>1, Places
<1> HIDE DEF R, upTo
<1>7. \A j : /\ IsFiniteSet(upTo(j)) /\ Cardinality(upTo(j)) \in Nat
             /\ Cardinality(upTo(j)) <= Cardinality(R)
  BY <1>2, <1>5, FS_Subset, FS_CardinalityType
<1>8. ASSUME NEW j \in R PROVE Cardinality(upTo(j)) \in 1..Cardinality(R)
  <2>1. Cardinality(upTo(j)) # 0 BY <1>6, <1>7, FS_EmptySet
  <2> QED BY <1>3, <1>7, <2>1
<1>9. ASSUME NEW j \in R, NEW k \in R, j < k PROVE Cardinality(upTo(j)) < Cardinality(upTo(k))
  <2>1. upTo(j) \subseteq upTo(k) /\ k \notin upTo(j) /\ k \in upTo(k) BY <1>6, <1>9
  <2>2. Cardinality(upTo(j)) <= Cardinality(upTo(k)) BY <1>7, <2>1, FS_Subset
  <2>3. Cardinality(upTo(j)) # Cardinality(upTo(k)) BY <1>7, <2>1, FS_Subset
  <2> QED BY <1>7, <2>2, <2>3
<1> QED BY <1>1, <1>2, <1>3, <1>4, <1>8, <1>9 DEF R

\* A page is full when there is a row after it.
LEMMA FullPage ==
  ASSUME NEW L, NEW i, i.offset \in Nat, NEW j \in RowsIn(L, i),
         NumberIn(L, i, j) > i.offset + PageSize
  PROVE  Cardinality({h \in RowsIn(L, i) :
                        NumberIn(L, i, h) \in i.offset + 1 .. i.offset + PageSize}) = PageSize
<1> DEFINE R == RowsIn(L, i)
           N == Cardinality(R)
           f == [h \in R |-> NumberIn(L, i, h)]
           a == i.offset + 1
           b == i.offset + PageSize
           P == {h \in R : NumberIn(L, i, h) \in a..b}
           g == [h \in P |-> f[h]]
<1>1. /\ IsFiniteSet(R) /\ N \in Nat /\ R \subseteq Int
      /\ \A h \in R : f[h] \in 1..N /\ f[h] = NumberIn(L, i, h)
      /\ \A h, k \in R : h < k => f[h] < f[k]
  BY Numbers, Places
<1>2. PageSize \in Nat \ {0} BY ConstantsAssumption
<1>3. a \in Int /\ b \in Int /\ b - a + 1 = PageSize /\ ~(a > b) /\ a >= 1 BY <1>2
<1>4. b <= N BY <1>1, <1>2
<1>5. P = {h \in R : f[h] \in a..b} /\ P \subseteq R BY <1>1
<1> HIDE DEF R, N, f, a, b, P
<1>6. \A h, k \in R : f[h] = f[k] => h = k
  <2> SUFFICES ASSUME NEW h \in R, NEW k \in R, f[h] = f[k] PROVE h = k OBVIOUS
  <2>1. ~(h < k) /\ ~(k < h) BY <1>1
  <2> QED BY <1>1, <2>1
<1>7. f \in Injection(R, 1..N)
  BY <1>1, <1>6 DEF Injection, IsInjective, f
<1>8. IsFiniteSet(1..N) /\ Cardinality(1..N) = N BY <1>1, FS_Interval
<1>9. f \in Surjection(R, 1..N)
  <2>1. Cardinality(R) = Cardinality(1..N) BY <1>8 DEF N
  <2> QED BY <1>7, <1>8, <2>1, FS_Injection
<1>10. \A n \in a..b : \E h \in P : f[h] = n
  <2> SUFFICES ASSUME NEW n \in a..b PROVE \E h \in P : f[h] = n OBVIOUS
  <2>1. n \in 1..N BY <1>1, <1>3, <1>4
  <2>2. PICK h \in R : f[h] = n BY <1>9, <2>1 DEF Surjection
  <2> QED BY <1>5, <2>2
<1>11. g \in Bijection(P, a..b)
  <2>1. g \in [P -> a..b] BY <1>5
  <2>2. \A h, k \in P : g[h] = g[k] => h = k BY <1>5, <1>6
  <2>3. \A n \in a..b : \E h \in P : g[h] = n BY <1>10
  <2> HIDE DEF g
  <2> QED BY <2>1, <2>2, <2>3 DEF Bijection, Injection, IsInjective, Surjection
<1>12. ExistsBijection(P, a..b) BY <1>11 DEF ExistsBijection
<1>13. IsFiniteSet(P) BY <1>1, <1>5, FS_Subset
<1>14. Cardinality(a..b) = Cardinality(P) BY <1>12, <1>13, FS_Bijection
<1>15. Cardinality(a..b) = PageSize BY <1>3, FS_Interval
<1> QED BY <1>14, <1>15 DEF P, R, a, b

\* Rows only move to later pages while the index grows.
LEMMA RowsMove ==
  ASSUME NEW L, NEW M, L \subseteq M, NEW i, NEW j, NEW o \in Nat, Ahead(L, i, j, o)
  PROVE  Ahead(M, i, j, o)
<1> DEFINE R(S) == {h \in RowsIn(S, i) : h <= j}
<1>1. j \in RowsIn(M, i) /\ R(L) \subseteq R(M) BY DEF Ahead, RowsIn
<1>2. R(M) \subseteq RowsIn(M, i) /\ R(L) \subseteq RowsIn(L, i) OBVIOUS
<1> HIDE DEF R
<1>3. IsFiniteSet(R(M)) /\ IsFiniteSet(R(L)) BY <1>2, Numbers, FS_Subset
<1>4. Cardinality(R(M)) \in Nat /\ Cardinality(R(L)) \in Nat /\ Cardinality(R(L)) <= Cardinality(R(M))
  BY <1>1, <1>3, FS_Subset, FS_CardinalityType
<1>5. NumberIn(M, i, j) = Cardinality(R(M)) /\ NumberIn(L, i, j) = Cardinality(R(L))
  BY DEF NumberIn, R
<1> QED BY <1>1, <1>4, <1>5 DEF Ahead

LEMMA CoversMoves ==
  ASSUME NEW L, NEW M, L \subseteq M, NEW c \in Seq(Interval), NEW j, Covers(L, c, j)
  PROVE  Covers(M, c, j)
<1>1. PICK x \in 1..Len(c) : Ahead(L, c[x], j, c[x].offset) BY DEF Covers
<1>2. c[x] \in Interval OBVIOUS
<1>3. c[x].offset \in Nat BY <1>2 DEF Interval
<1> QED BY <1>1, <1>3, RowsMove DEF Covers

\* A listed token is on some page of an interval it was created in.
LEMMA FirstPage ==
  ASSUME NEW L, NEW i, NEW j \in RowsIn(L, i)
  PROVE  Ahead(L, i, j, 0)
BY Numbers DEF Ahead

\* The interval on top of a cursor, and those below it.
LEMMA Stack ==
  ASSUME NEW c \in Seq(Interval), c # << >>
  PROVE  /\ Len(c) \in Nat \ {0} /\ Top(c) \in Interval /\ Pop(c) \in Seq(Interval)
         /\ Len(Pop(c)) = Len(c) - 1 /\ \A x \in 1..(Len(c) - 1) : Pop(c)[x] = c[x]
<1>1. Len(c) \in Nat \ {0} OBVIOUS
<1>2. Pop(c) \in Seq(Interval) /\ Len(Pop(c)) = Len(c) - 1 /\ \A x \in 1..(Len(c) - 1) : Pop(c)[x] = c[x]
  <2> DEFINE n == Len(c) - 1
             d == SubSeq(c, 1, n)
  <2>1. n \in Int /\ \A x \in 1..n : c[x] \in Interval BY <1>1
  <2> HIDE DEF n
  <2>2. /\ d \in Seq(Interval) /\ Len(d) = IF 1 <= n THEN n - 1 + 1 ELSE 0
        /\ \A x \in 1..(n - 1 + 1) : d[x] = c[1 + x - 1]
    BY <2>1, SubSeqProperties
  <2> HIDE DEF d
  <2>3. \A x \in 1..n : x \in 1..(n - 1 + 1) /\ 1 + x - 1 = x BY <2>1
  <2>4. n \in Nat BY <1>1 DEF n
  <2>5. Len(d) = n /\ \A x \in 1..n : d[x] = c[x] BY <2>2, <2>3, <2>4
  <2>6. Pop(c) = d BY DEF Pop, d, n
  <2> QED BY <2>2, <2>5, <2>6 DEF n
<1>3. Top(c) \in Interval BY <1>1 DEF Top
<1> QED BY <1>1, <1>2, <1>3

LEMMA CoversTop ==
  ASSUME NEW L, NEW c \in Seq(Interval), c # << >>, NEW j
  PROVE  Covers(L, c, j) <=> Covers(L, Pop(c), j) \/ Ahead(L, Top(c), j, Top(c).offset)
<1>1. /\ Len(c) \in Nat \ {0} /\ Len(Pop(c)) = Len(c) - 1
      /\ \A x \in 1..(Len(c) - 1) : Pop(c)[x] = c[x]
  BY Stack
<1>2. \A x \in 1..Len(c) : x = Len(c) \/ x \in 1..(Len(c) - 1) BY <1>1
<1>3. Len(c) \in 1..Len(c) /\ \A x \in 1..(Len(c) - 1) : x \in 1..Len(c) BY <1>1
<1> HIDE DEF Pop
<1> QED BY <1>1, <1>2, <1>3 DEF Covers, Top

LEMMA CoversMore ==
  ASSUME NEW L, NEW c \in Seq(Interval), NEW d \in Seq(Interval), NEW j
  PROVE  Covers(L, c \o d, j) <=> Covers(L, c, j) \/ Covers(L, d, j)
<1> DEFINE e == c \o d
<1>1. /\ Len(c) \in Nat /\ Len(d) \in Nat /\ Len(e) = Len(c) + Len(d)
      /\ \A x \in 1..Len(c) : e[x] = c[x]
      /\ \A x \in 1..Len(d) : e[Len(c) + x] = d[x]
  OBVIOUS
<1> HIDE DEF e
<1>2. ASSUME Covers(L, e, j) PROVE Covers(L, c, j) \/ Covers(L, d, j)
  <2>1. PICK x \in 1..Len(e) : Ahead(L, e[x], j, e[x].offset) BY <1>2 DEF Covers
  <2>2. CASE x <= Len(c)
    <3>1. x \in 1..Len(c) BY <1>1, <2>2
    <3> QED BY <1>1, <2>1, <3>1 DEF Covers
  <2>3. CASE ~(x <= Len(c))
    <3>1. x - Len(c) \in 1..Len(d) /\ Len(c) + (x - Len(c)) = x BY <1>1, <2>3
    <3>2. e[x] = d[x - Len(c)] BY <1>1, <3>1
    <3> QED BY <2>1, <3>1, <3>2 DEF Covers
  <2> QED BY <2>2, <2>3
<1>3. ASSUME Covers(L, c, j) PROVE Covers(L, e, j)
  <2>1. PICK x \in 1..Len(c) : Ahead(L, c[x], j, c[x].offset) BY <1>3 DEF Covers
  <2>2. x \in 1..Len(e) BY <1>1
  <2> QED BY <1>1, <2>1, <2>2 DEF Covers
<1>4. ASSUME Covers(L, d, j) PROVE Covers(L, e, j)
  <2>1. PICK x \in 1..Len(d) : Ahead(L, d[x], j, d[x].offset) BY <1>4 DEF Covers
  <2>2. Len(c) + x \in 1..Len(e) BY <1>1
  <2> QED BY <1>1, <2>1, <2>2 DEF Covers
<1> QED BY <1>2, <1>3, <1>4 DEF e

LEMMA CoversOne ==
  ASSUME NEW L, NEW c \in Seq(Interval), NEW i \in Interval, NEW j
  PROVE  Covers(L, Append(c, i), j) <=> Covers(L, c, j) \/ Ahead(L, i, j, i.offset)
<1>1. Append(c, i) = c \o << i >> /\ << i >> \in Seq(Interval) OBVIOUS
<1>2. Covers(L, << i >>, j) <=> Ahead(L, i, j, i.offset) BY DEF Covers
<1>3. Covers(L, c \o << i >>, j) <=> Covers(L, c, j) \/ Covers(L, << i >>, j)
  BY <1>1, CoversMore
<1> QED BY <1>1, <1>2, <1>3

LEMMA NextPage ==
  ASSUME NEW i \in Interval, NEW n \in Nat
  PROVE  /\ [i EXCEPT !.offset = @ + n] \in Interval
         /\ [i EXCEPT !.offset = @ + n].offset = i.offset + n
         /\ [i EXCEPT !.offset = @ + n].start = i.start
         /\ [i EXCEPT !.offset = @ + n].end = i.end
<1>1. i.offset + n \in Nat
  <2>1. i.offset \in Nat BY DEF Interval
  <2> QED BY <2>1
<1> DEFINE o == i.offset + n
<1> HIDE DEF o
<1>2. [i EXCEPT !.offset = o] \in Interval BY <1>1 DEF Interval, o
<1>3. [i EXCEPT !.offset = o].offset = o /\ [i EXCEPT !.offset = o].start = i.start
      /\ [i EXCEPT !.offset = o].end = i.end
  BY DEF Interval
<1> QED BY <1>2, <1>3 DEF o

\* Where a cursor goes after a page, it covers what remained.
LEMMA FurtherCovers ==
  ASSUME NEW L, NEW c \in Seq(Interval), c # << >>, NEW n \in Nat, NEW j, Remains(L, c, n, j)
  PROVE  Further(c, n) \in Seq(Interval) /\ Covers(L, Further(c, n), j)
<1> DEFINE i == Top(c)
           m == [i EXCEPT !.offset = @ + n]
<1>1. i \in Interval /\ Pop(c) \in Seq(Interval) BY Stack
<1>2. m \in Interval /\ m.offset = i.offset + n /\ m.start = i.start /\ m.end = i.end
  <2> HIDE DEF i
  <2> QED BY <1>1, NextPage
<1>3. Further(c, n) = Append(Pop(c), m) BY DEF Further
<1> HIDE DEF i, m
<1>4. Further(c, n) \in Seq(Interval) BY <1>1, <1>2, <1>3
<1>5. RowsIn(L, m) = RowsIn(L, i) BY <1>2 DEF RowsIn, Within
<1>6. \A h : NumberIn(L, m, h) = NumberIn(L, i, h) BY <1>5 DEF NumberIn
<1>7. Covers(L, Pop(c), j) \/ Ahead(L, i, j, i.offset + n) BY DEF Remains, i
<1>8. Ahead(L, i, j, i.offset + n) => Ahead(L, m, j, m.offset) BY <1>2, <1>5, <1>6 DEF Ahead
<1> QED BY <1>1, <1>2, <1>3, <1>4, <1>7, <1>8, CoversOne

LEMMA HalvesType ==
  ASSUME NEW i \in Interval
  PROVE  Halves(i) \in Seq(Interval) /\ i.start + (i.end - i.start) \div 2 \in Int
<1> DEFINE mid == i.start + (i.end - i.start) \div 2
<1>1. i.start \in Int /\ i.end \in Int BY DEF Interval
<1>2. mid \in Int BY <1>1
<1> HIDE DEF mid
<1>3. /\ [start |-> mid, end |-> i.end, offset |-> 0] \in Interval
      /\ [start |-> i.start, end |-> mid, offset |-> 0] \in Interval
  BY <1>1, <1>2 DEF Interval
<1>4. Halves(i) = << [start |-> mid, end |-> i.end, offset |-> 0],
                     [start |-> i.start, end |-> mid, offset |-> 0] >>
  BY DEF Halves, mid
<1>5. Halves(i) \in Seq(Interval) BY <1>3, <1>4
<1> QED BY <1>2, <1>5 DEF mid

\* The halves of an interval have all its rows.
LEMMA HalvesCover ==
  ASSUME NEW L, NEW i \in Interval, NEW j \in RowsIn(L, i)
  PROVE  Halves(i) \in Seq(Interval) /\ Covers(L, Halves(i), j)
<1> DEFINE mid == i.start + (i.end - i.start) \div 2
           a == [start |-> mid, end |-> i.end, offset |-> 0]
           b == [start |-> i.start, end |-> mid, offset |-> 0]
<1>1. i.start \in Int /\ i.end \in Int BY DEF Interval
<1>2. j \in 1..Len(Order) /\ Order[j] \in L /\ Within(i, j) BY DEF RowsIn
<1>3. Created[Order[j]] \in Nat BY <1>2, Places
<1>5. mid \in Int BY HalvesType
<1>6. Halves(i) = << a, b >> BY DEF Halves
<1> HIDE DEF mid
<1>7. Within(a, j) \/ Within(b, j) BY <1>1, <1>2, <1>3, <1>5 DEF Within
<1>8. a \in Interval /\ b \in Interval /\ a.offset = 0 /\ b.offset = 0 BY <1>1, <1>5 DEF Interval
<1> HIDE DEF a, b
<1>9. j \in RowsIn(L, a) \/ j \in RowsIn(L, b) BY <1>2, <1>7 DEF RowsIn
<1>10. Ahead(L, a, j, a.offset) \/ Ahead(L, b, j, b.offset) BY <1>8, <1>9, FirstPage
<1>11. Halves(i) \in Seq(Interval) BY HalvesType
<1>12. Covers(L, << a, b >>, j) BY <1>10 DEF Covers
<1> QED BY <1>6, <1>11, <1>12

LEMMA RemainsOfShort ==
  ASSUME NEW L, NEW c, NEW n \in Nat, n < PageSize, NEW j, Remains(L, c, n, j)
  PROVE  Covers(L, Pop(c), j)
BY ConstantsAssumption DEF Remains

LEMMA CursorMoves ==
  ASSUME NEW L, NEW c \in Seq(Interval), c # << >>, NEW n \in Nat, NEW j, Remains(L, c, n, j)
  PROVE  Covers(L, AdvanceRunner(c, n), j) /\ Covers(L, AdvanceDay(c, n), j)
<1>1. n < PageSize => Covers(L, Pop(c), j) BY RemainsOfShort
<1>2. Covers(L, Further(c, n), j) BY FurtherCovers
<1>3. Covers(L, Pop(c) \o Halves(Top(c)), j)
  <2>1. Top(c) \in Interval /\ Pop(c) \in Seq(Interval) BY Stack
  <2>2. CASE Covers(L, Pop(c), j)
    <3>1. Halves(Top(c)) \in Seq(Interval) BY <2>1, HalvesType
    <3> QED BY <2>1, <2>2, <3>1, CoversMore
  <2>3. CASE Ahead(L, Top(c), j, Top(c).offset + n)
    <3>1. j \in RowsIn(L, Top(c)) BY <2>3 DEF Ahead
    <3>2. Halves(Top(c)) \in Seq(Interval) /\ Covers(L, Halves(Top(c)), j)
      BY <2>1, <3>1, HalvesCover
    <3> QED BY <2>1, <3>2, CoversMore
  <2> QED BY <2>2, <2>3 DEF Remains
<1> QED BY <1>1, <1>2, <1>3 DEF AdvanceRunner, AdvanceDay

LEMMA CursorType ==
  ASSUME NEW c \in Seq(Interval), c # << >>, NEW n \in Nat
  PROVE  AdvanceRunner(c, n) \in Seq(Interval) /\ AdvanceDay(c, n) \in Seq(Interval)
<1>1. Top(c) \in Interval /\ Pop(c) \in Seq(Interval) BY Stack
<1>2. Further(c, n) \in Seq(Interval)
  <2> DEFINE m == [Top(c) EXCEPT !.offset = @ + n]
  <2>1. m \in Interval BY <1>1, NextPage
  <2>2. Further(c, n) = Append(Pop(c), m) BY DEF Further
  <2> HIDE DEF m
  <2> QED BY <1>1, <2>1, <2>2
<1>3. Pop(c) \o Halves(Top(c)) \in Seq(Interval)
  <2>1. Halves(Top(c)) \in Seq(Interval) BY <1>1, HalvesType
  <2> QED BY <1>1, <2>1
<1> QED BY <1>1, <1>2, <1>3 DEF AdvanceRunner, AdvanceDay

\* What the page of the interval on top has, or leaves for later.
LEMMA PageRead ==
  ASSUME NEW L, NEW c \in Seq(Interval), c # << >>, NEW j, Covers(L, c, j)
  PROVE  LET i == Top(c)
             page == {h \in RowsIn(L, i) : NumberIn(L, i, h) \in i.offset + 1 .. i.offset + PageSize}
         IN  j \in page \/ Remains(L, c, Cardinality(page), j)
<1> DEFINE i == Top(c)
           page == {h \in RowsIn(L, i) : NumberIn(L, i, h) \in i.offset + 1 .. i.offset + PageSize}
<1> SUFFICES j \in page \/ Remains(L, c, Cardinality(page), j) OBVIOUS
<1>1. i \in Interval /\ i.offset \in Nat
  <2>1. i \in Interval BY Stack
  <2> QED BY <2>1 DEF Interval
<1>2. PageSize \in Nat BY ConstantsAssumption
<1>3. Covers(L, Pop(c), j) \/ Ahead(L, i, j, i.offset) BY CoversTop
<1>4. CASE Covers(L, Pop(c), j) BY <1>4 DEF Remains
<1>5. CASE Ahead(L, i, j, i.offset)
  <2> HIDE DEF i
  <2>1. j \in RowsIn(L, i) /\ i.offset < NumberIn(L, i, j) /\ NumberIn(L, i, j) \in Nat
    BY <1>5, Numbers DEF Ahead
  <2>2. CASE NumberIn(L, i, j) <= i.offset + PageSize BY <1>1, <1>2, <2>1, <2>2
  <2>3. CASE NumberIn(L, i, j) > i.offset + PageSize
    <3>1. Cardinality(page) = PageSize BY <1>1, <2>1, <2>3, FullPage
    <3> HIDE DEF page
    <3>2. Ahead(L, i, j, i.offset + PageSize) BY <1>1, <1>2, <2>1, <2>3 DEF Ahead
    <3>3. Remains(L, c, Cardinality(page), j) BY <3>1, <3>2 DEF Remains, i
    <3> QED BY <3>3
  <2> QED BY <1>1, <1>2, <2>1, <2>2, <2>3
<1> HIDE DEF i, page
<1> QED BY <1>3, <1>4, <1>5

\* A cursor, a pass and its rows keep what they have while the index grows,
\* more rows are known and time goes by.
LEMMA CursorKeeps ==
  ASSUME NEW c \in Seq(Interval), NEW k, NEW L, NEW M, NEW K, NEW N, NEW B,
         L \subseteq M, K \subseteq N, CursorOK(c, k, L, K, B)
  PROVE  CursorOK(c, k, M, N, B)
BY CoversMoves DEF CursorOK

LEMMA RemainsMoves ==
  ASSUME NEW c \in Seq(Interval), c # << >>, NEW n \in Nat, NEW j, NEW L, NEW M,
         L \subseteq M, Remains(L, c, n, j)
  PROVE  Remains(M, c, n, j)
<1>1. Pop(c) \in Seq(Interval) /\ Top(c) \in Interval BY Stack
<1>2. Top(c).offset + n \in Nat BY <1>1 DEF Interval
<1> QED BY <1>1, <1>2, CoversMoves, RowsMove DEF Remains

LEMMA PassKeeps ==
  ASSUME NEW r \in PassType, NEW L, NEW M, NEW K, NEW N, NEW B, NEW now \in Int, NEW later \in Int,
         L \subseteq M, K \subseteq N, now <= later, PassOK(r, L, K, B, now)
  PROVE  PassOK(r, M, N, B, later)
<1>1. r.cursor \in Seq(Interval) /\ r.count \in Nat /\ r.at \in Nat BY DEF PassType
<1>2. r.at <= later BY <1>1 DEF PassOK
<1>3. RowsOK(r, B, later)
  <2>1. \A x \in r.rows : x[2].at \in Nat BY DEF PassType, Observation
  <2> QED BY <2>1 DEF PassOK, RowsOK
<1>4. PassCovers(r, M, N, B)
  <2>1. ASSUME r.kind # "observe", r.pc \in {"request", "sent"} PROVE CursorOK(r.cursor, r.key, M, N, B)
    <3>1. CursorOK(r.cursor, r.key, L, K, B) BY <2>1 DEF PassOK, PassCovers
    <3> QED BY <1>1, <3>1, CursorKeeps
  <2>2. ASSUME r.kind # "observe", r.pc \in {"upsert", "save"}, NEW j \in Owed(B, r.key),
               Remains(L, r.cursor, r.count, j)
        PROVE  Remains(M, r.cursor, r.count, j)
    <3>1. r.cursor # << >> BY <2>2 DEF PassOK, PassCovers
    <3> QED BY <1>1, <2>2, <3>1, RemainsMoves
  <2> QED BY <2>1, <2>2 DEF PassOK, PassCovers
<1> QED BY <1>2, <1>3, <1>4 DEF PassOK

LEMMA KeysAreKeys ==
  /\ Days \in Nat \ {0} /\ \A kind : KeysOf(kind) \subseteq Keys
  /\ KeysOf("days") = 1..Days /\ KeysOf("runner") = {0}
<1>1. Days \in Nat \ {0} BY ConstantsAssumption
<1>2. \A kind : KeysOf(kind) \subseteq Keys BY <1>1 DEF KeysOf, Keys
<1> QED BY <1>1, <1>2 DEF KeysOf

\* A cursor that nothing was read with covers all that is owed.
LEMMA WholeCovers ==
  ASSUME NEW k \in Keys, NEW L, NEW K, NEW B, NEW S, S \subseteq L, NEW now, BegunOK(B, S, now)
  PROVE  Whole(k) \in Seq(Interval) /\ Whole(k) # << >> /\ CursorOK(Whole(k), k, L, K, B)
<1>1. k \in Nat /\ Days \in Nat /\ DayLength \in Nat BY ConstantsAssumption DEF Keys
<1>2. \A m \in Nat : m * DayLength \in Nat BY <1>1
<1>3. PICK a \in Int, b \in Int : Whole(k) = << [start |-> a, end |-> b, offset |-> 0] >>
  <2>1. CASE k = 0
    <3>1. 0 \in Int /\ (Days + 1) * DayLength \in Int BY <1>1, <1>2
    <3> QED BY <2>1, <3>1 DEF Whole
  <2>2. CASE k # 0
    <3>1. k * DayLength \in Int /\ (k + 1) * DayLength \in Int BY <1>1, <1>2
    <3> QED BY <2>2, <3>1 DEF Whole
  <2> QED BY <2>1, <2>2
<1> DEFINE i == [start |-> a, end |-> b, offset |-> 0]
<1>4. i \in Interval /\ i.offset = 0 BY <1>3 DEF Interval
<1>5. Whole(k) = << i >> BY <1>3
<1> HIDE DEF i
<1>6. Whole(k) \in Seq(Interval) /\ Whole(k) # << >> /\ Whole(k)[1] = i /\ Len(Whole(k)) = 1
  BY <1>4, <1>5
<1>7. ASSUME NEW j \in Owed(B, k) PROVE Covers(L, Whole(k), j)
  <2>1. j \in 1..Len(Order) /\ Within(i, j) /\ Order[j] \in L
    BY <1>6 DEF Owed, BegunOK
  <2>2. j \in RowsIn(L, i) BY <2>1 DEF RowsIn
  <2>3. Ahead(L, i, j, i.offset) BY <2>2, <1>4, FirstPage
  <2> QED BY <1>6, <2>3 DEF Covers
<1> QED BY <1>6, <1>7 DEF CursorOK

\* A row after its conflict clause.
Joined(old, new) ==
  IF new = {} \/ old = {} THEN new \cup old
  ELSE {Merged(o, n) : o \in old, n \in new}

LEMMA MergedIs ==
  ASSUME NEW o \in Observation, NEW n \in Observation
  PROVE  /\ Merged(o, n) \in Observation
         /\ \/ Merged(o, n) = o /\ n.at < o.at
            \/ Merged(o, n) = n /\ n.at >= o.at /\ n.source # "missing"
            \/ n.source = "missing" /\ Merged(o, n).at = n.at /\ Merged(o, n).source = o.source
<1>1. o.at \in Nat /\ n.at \in Nat BY DEF Observation
<1>2. /\ [o EXCEPT !.at = n.at] \in Observation
      /\ [o EXCEPT !.at = n.at].at = n.at /\ [o EXCEPT !.at = n.at].source = o.source
  BY <1>1 DEF Observation
<1> QED BY <1>1, <1>2 DEF Merged

LEMMA JoinedIs ==
  ASSUME NEW old, old \subseteq Observation, NEW new, new \subseteq Observation
  PROVE  /\ Joined(old, new) \subseteq Observation
         /\ \A v \in Joined(old, new) :
              \/ v \in old \/ v \in new
              \/ \E n \in new : n.source = "missing" /\ v.at = n.at
         /\ (\E o \in old : o.source # "missing") =>
              \E v \in Joined(old, new) : v.source # "missing"
         /\ \A n \in new : n.source # "missing" /\ (\A o \in old : o.source = "missing" => o.at <= n.at)
              => \E v \in Joined(old, new) : v.source # "missing"
<1>1. CASE new = {} \/ old = {} BY <1>1 DEF Joined
<1>2. CASE new # {} /\ old # {}
  <2>1. Joined(old, new) = {Merged(o, n) : o \in old, n \in new} BY <1>2 DEF Joined
  <2>2. \A o \in old, n \in new :
          /\ Merged(o, n) \in Joined(old, new)
          /\ Merged(o, n) \in Observation
          /\ \/ Merged(o, n) = o /\ n.at < o.at
             \/ Merged(o, n) = n /\ n.at >= o.at /\ n.source # "missing"
             \/ n.source = "missing" /\ Merged(o, n).at = n.at /\ Merged(o, n).source = o.source
    BY <2>1, MergedIs
  <2>3. \A x \in old \cup new : x.at \in Nat BY DEF Observation
  <2>4. Joined(old, new) \subseteq Observation BY <2>1, <2>2
  <2>5. \A v \in Joined(old, new) :
          \/ v \in old \/ v \in new \/ \E n \in new : n.source = "missing" /\ v.at = n.at
    <3> SUFFICES ASSUME NEW v \in Joined(old, new)
                 PROVE  v \in old \/ v \in new \/ \E n \in new : n.source = "missing" /\ v.at = n.at
      OBVIOUS
    <3>1. PICK o \in old, n \in new : v = Merged(o, n) BY <2>1
    <3>2. v = o \/ v = n \/ (n.source = "missing" /\ v.at = n.at)
      BY <2>2, <3>1
    <3> QED BY <3>2
  <2>6. ASSUME NEW o \in old, o.source # "missing"
        PROVE  \E v \in Joined(old, new) : v.source # "missing"
    <3>1. PICK n \in new : TRUE BY <1>2
    <3> QED BY <2>2, <2>6, <3>1
  <2>7. ASSUME NEW n \in new, n.source # "missing", \A o \in old : o.source = "missing" => o.at <= n.at
        PROVE  \E v \in Joined(old, new) : v.source # "missing"
    <3>1. PICK o \in old : TRUE BY <1>2
    <3>2. CASE o.source = "missing" BY <2>2, <2>3, <2>7, <3>1, <3>2
    <3>3. CASE o.source # "missing" BY <2>6, <3>1, <3>3
    <3> QED BY <3>2, <3>3
  <2> QED BY <2>4, <2>5, <2>6, <2>7
<1> QED BY <1>1, <1>2

\* What is enough for a step that begins no key.
LEMMA StepKeeps ==
  ASSUME IndexInv, UNCHANGED <<begun, scenario>>,
         listed \subseteq listed', listed' \subseteq Tokens,
         tracked \subseteq tracked', tracked' \subseteq Launches,
         clock' \in Nat, clock <= clock',
         ath' \in [Tokens -> SUBSET Observation],
         \A t \in Tokens : \A o \in ath'[t] : o.at <= clock' /\ NotLater(t, o, begun),
         KnownIn(ath) \subseteq KnownIn(ath'),
         saved' \in [Keys -> SUBSET Seq(Interval)],
         \A k \in Keys : \A c \in saved'[k] :
           c \in saved[k] \/ (begun[k] # {} /\ CursorOK(c, k, listed', KnownIn(ath'), begun)),
         proc' \in [Processes -> PassType],
         \A p \in Processes :
           proc'[p] = proc[p] \/ PassOK(proc'[p], listed', KnownIn(ath'), begun, clock')
  PROVE  IndexInv'
<1>1. BegunOK(begun, listed' \cap tracked', clock')
  BY DEF IndexInv, BegunOK
<1>2. ASSUME NEW k \in Keys, NEW c \in saved'[k]
      PROVE  CursorOK(c, k, listed', KnownIn(ath'), begun)
  <2>1. CASE c \in saved[k]
    <3>1. c \in Seq(Interval) /\ CursorOK(c, k, listed, KnownIn(ath), begun) BY <2>1 DEF IndexInv
    <3> QED BY <3>1, CursorKeeps
  <2> QED BY <2>1
<1>3. \A k \in Keys : saved'[k] # {} => begun[k] # {} BY DEF IndexInv
<1>4. ASSUME NEW p \in Processes PROVE PassOK(proc'[p], listed', KnownIn(ath'), begun, clock')
  <2>1. CASE proc'[p] = proc[p]
    <3>1. proc[p] \in PassType /\ PassOK(proc[p], listed, KnownIn(ath), begun, clock) BY DEF IndexInv
    <3>2. clock \in Int /\ clock' \in Int BY DEF IndexInv
    <3>3. PassOK(proc[p], listed', KnownIn(ath'), begun, clock') BY <3>1, <3>2, PassKeeps
    <3> QED BY <2>1, <3>3
  <2> QED BY <2>1
<1> QED BY <1>1, <1>2, <1>3, <1>4 DEF IndexInv

\* A step of one pass that only changes what it has in hand.
LEMMA PassMoves ==
  ASSUME IndexInv, NEW p \in Processes, NEW r, r \in PassType, proc' = [proc EXCEPT ![p] = r],
         UNCHANGED <<listed, tracked, clock, scenario, ath, saved, begun>>,
         PassOK(r, listed, KnownIn(ath), begun, clock)
  PROVE  IndexInv'
<1>1. /\ proc' \in [Processes -> PassType] /\ proc'[p] = r
      /\ \A q \in Processes : q # p => proc'[q] = proc[q]
  BY DEF IndexInv
<1>2. \A q \in Processes :
        proc'[q] = proc[q] \/ PassOK(proc'[q], listed', KnownIn(ath'), begun, clock')
  BY <1>1
<1>3. /\ clock \in Nat /\ clock <= clock /\ listed \subseteq Tokens /\ tracked \subseteq Launches
      /\ ath \in [Tokens -> SUBSET Observation] /\ saved \in [Keys -> SUBSET Seq(Interval)]
      /\ \A t \in Tokens : \A o \in ath[t] : o.at <= clock /\ NotLater(t, o, begun)
  BY DEF IndexInv
<1> QED BY <1>1, <1>2, <1>3, StepKeeps

LEMMA DoneIs ==
  /\ Done \in PassType
  /\ \A L, K, B : \A now \in Nat : PassOK(Done, L, K, B, now)
<1>1. << >> \in Seq(Interval) OBVIOUS
<1>2. Done \in PassType BY <1>1 DEF Done, PassType
<1>3. Done.pc = "done" /\ Done.kind = "none" /\ Done.rows = {} /\ Done.at = 0 BY DEF Done
<1>4. ASSUME NEW L, NEW K, NEW B, NEW now \in Nat PROVE PassOK(Done, L, K, B, now)
  BY <1>3 DEF PassOK, PassBegun, RowsOK, PassCovers
<1> QED BY <1>2, <1>4

LEMMA IndexInvInit == Init => IndexInv
<1> SUFFICES ASSUME Init PROVE IndexInv OBVIOUS
<1>1. /\ scenario \in Scenarios /\ listed \subseteq Tokens /\ tracked \subseteq Launches /\ clock = 0
      /\ ath = [t \in Tokens |-> {}] /\ saved = [k \in Keys |-> {}] /\ begun = [k \in Keys |-> {}]
      /\ proc = [p \in Processes |-> Done]
  BY DEF Init
<1>2. BegunOK(begun, listed \cap tracked, clock) BY <1>1 DEF BegunOK
<1>3. proc \in [Processes -> PassType]
      /\ \A p \in Processes : PassOK(proc[p], listed, KnownIn(ath), begun, clock)
  BY <1>1, DoneIs
<1> QED BY <1>1, <1>2, <1>3 DEF IndexInv

\* Time, the index, the launches and the other provider.
LEMMA WorldSteps ==
  ASSUME IndexInv, Tick \/ \E t \in Tokens : Appear(t) \/ Track(t) \/ Fallback(t)
  PROVE  IndexInv'
<1>1. UNCHANGED <<begun, scenario, saved, proc>>
  BY DEF Tick, Appear, Track, Fallback, counter, store
<1>2. /\ listed \subseteq listed' /\ listed' \subseteq Tokens
      /\ tracked \subseteq tracked' /\ tracked' \subseteq Launches
      /\ clock' \in Nat /\ clock <= clock'
  BY DEF Tick, Appear, Track, Fallback, world, counter, store, IndexInv
<1>3. /\ ath' \in [Tokens -> SUBSET Observation]
      /\ \A t \in Tokens : \A o \in ath'[t] : o.at <= clock' /\ NotLater(t, o, begun)
      /\ KnownIn(ath) \subseteq KnownIn(ath')
  <2>1. CASE ath' = ath
    <3>1. \A t \in Tokens : \A o \in ath[t] : o.at \in Nat BY DEF IndexInv, Observation
    <3> QED BY <1>2, <2>1, <3>1 DEF IndexInv
  <2>2. ASSUME NEW t \in Tokens, Fallback(t)
        PROVE  /\ ath' \in [Tokens -> SUBSET Observation]
               /\ \A u \in Tokens : \A o \in ath'[u] : o.at <= clock' /\ NotLater(u, o, begun)
               /\ KnownIn(ath) \subseteq KnownIn(ath')
    <3>1. clock' = clock BY <2>2 DEF Fallback, world
    <3>2. PICK at \in 0..clock : ath' = [ath EXCEPT ![t] = {[source |-> "fallback", at |-> at]}]
      BY <2>2 DEF Fallback
    <3> DEFINE v == [source |-> "fallback", at |-> at]
    <3>3. v \in Observation /\ v.source = "fallback" /\ v.at <= clock
      BY <3>2 DEF Observation, IndexInv
    <3>4. ath' = [ath EXCEPT ![t] = {v}] BY <3>2
    <3> HIDE DEF v
    <3>5. ath \in [Tokens -> SUBSET Observation] BY DEF IndexInv
    <3>6. NotLater(t, v, begun) BY <3>3 DEF NotLater
    <3>7. \A u \in Tokens : \A o \in ath[u] : o.at <= clock /\ NotLater(u, o, begun) BY DEF IndexInv
    <3>8. ath' \in [Tokens -> SUBSET Observation] BY <3>3, <3>4, <3>5
    <3>9. \A u \in Tokens : ath'[u] = IF u = t THEN {v} ELSE ath[u] BY <3>4, <3>5
    <3>10. KnownIn(ath) \subseteq KnownIn(ath') BY <3>3, <3>9 DEF KnownIn
    <3> QED BY <3>1, <3>3, <3>6, <3>7, <3>8, <3>9, <3>10
  <2> QED BY <2>1, <2>2 DEF Tick, Appear, Track, store
<1>4. /\ saved' \in [Keys -> SUBSET Seq(Interval)] /\ proc' \in [Processes -> PassType]
      /\ \A k \in Keys : \A c \in saved'[k] : c \in saved[k]
      /\ \A p \in Processes : proc'[p] = proc[p]
  BY <1>1 DEF IndexInv
<1> QED BY <1>1, <1>2, <1>3, <1>4, StepKeeps

\* A first pass begins its keys: no row is from a later time than now.
LEMMA BegunMore ==
  ASSUME NEW r \in PassType, NEW L, NEW K, NEW B, NEW C, NEW now \in Nat, PassOK(r, L, K, B, now),
         \A k \in Keys : B[k] # {} => C[k] = B[k],
         \A k \in Keys : C[k] # B[k] => \A b \in C[k] : b.at = now
  PROVE  PassOK(r, L, K, C, now)
<1>1. \A x \in r.rows : x[2].at \in Nat BY DEF PassType, Observation
<1>2. \A x \in r.rows : NotLater(x[1], x[2], C)
  BY <1>1 DEF PassOK, RowsOK, NotLater
<1>3. \A k \in KeysOf(r.kind) : r.pc # "done" => k \in Keys /\ C[k] = B[k]
  BY KeysAreKeys DEF PassOK, PassBegun
<1>4. r.pc # "done" /\ r.kind # "observe" => r.key \in KeysOf(r.kind) /\ C[r.key] = B[r.key]
  BY <1>3 DEF PassOK, PassBegun
<1>5. r.pc = "done" => r.rows = {} BY DEF PassOK, RowsOK
<1>6. PassBegun(r, C) BY <1>3 DEF PassOK, PassBegun
<1>7. RowsOK(r, C, now) BY <1>2, <1>4, <1>5 DEF PassOK, RowsOK
<1>8. r.pc # "done" /\ r.kind # "observe" => Owed(C, r.key) = Owed(B, r.key)
  BY <1>4 DEF Owed
<1>9. PassCovers(r, L, K, C) BY <1>8 DEF PassOK, PassCovers, CursorOK
<1> QED BY <1>6, <1>7, <1>9 DEF PassOK

LEMMA StartKeeps ==
  ASSUME IndexInv, NEW p \in Processes, NEW kind \in scenario.work[p], Start(p, kind)
  PROVE  IndexInv'
<1> DEFINE r == [Done EXCEPT !.pc = "load", !.kind = kind, !.at = clock,
                             !.key = IF kind = "days" THEN Days ELSE 0]
           new == [at |-> clock, owed |-> listed \cap tracked]
<1>1. kind \in {"days", "runner", "observe"} BY ConstantsAssumption DEF IndexInv
<1>2. UNCHANGED <<listed, tracked, clock, scenario, ath, saved>>
  BY DEF Start, world, counter
<1>3. /\ proc' = [proc EXCEPT ![p] = r]
      /\ begun' = [k \in Keys |->
           IF k \in KeysOf(kind) /\ begun[k] = {} THEN {new} ELSE begun[k]]
  BY DEF Start
<1>4. clock \in Nat /\ listed \subseteq Tokens BY DEF IndexInv
<1>5. r \in PassType
  <2>1. Days \in Nat BY KeysAreKeys
  <2>2. << >> \in Seq(Interval) OBVIOUS
  <2> QED BY <1>1, <1>4, <2>1, <2>2 DEF Done, PassType
<1>6. /\ r.pc = "load" /\ r.kind = kind /\ r.at = clock /\ r.rows = {}
      /\ r.key = IF kind = "days" THEN Days ELSE 0
  BY DEF Done
<1>7. new \in [at : Nat, owed : SUBSET Tokens] /\ new.at = clock /\ new.owed = listed \cap tracked
  BY <1>4
<1> HIDE DEF r, new
<1>8. begun \in [Keys -> SUBSET [at : Nat, owed : SUBSET Tokens]] BY DEF IndexInv
<1>9. begun' \in [Keys -> SUBSET [at : Nat, owed : SUBSET Tokens]] BY <1>3, <1>7, <1>8
<1>10. /\ \A k \in Keys : begun[k] # {} => begun'[k] = begun[k]
       /\ \A k \in Keys : begun'[k] # begun[k] => begun'[k] = {new}
       /\ \A k \in Keys : k \in KeysOf(kind) => begun'[k] # {}
  BY <1>3
<1>11. BegunOK(begun', listed' \cap tracked', clock')
  <2> SUFFICES ASSUME NEW k \in Keys, NEW b \in begun'[k]
               PROVE  b.at \in 0..clock /\ b.owed \subseteq listed \cap tracked
    BY <1>2 DEF BegunOK
  <2>1. CASE b = new BY <1>4, <1>7, <2>1
  <2>2. CASE b # new
    <3>1. b \in begun[k] BY <1>10, <2>2
    <3> QED BY <3>1 DEF IndexInv, BegunOK
  <2> QED BY <2>1, <2>2
<1>12. ASSUME NEW t \in Tokens, NEW o \in ath[t] PROVE o.at <= clock /\ NotLater(t, o, begun')
  <2>1. o.at <= clock /\ NotLater(t, o, begun) BY DEF IndexInv
  <2> QED BY <1>7, <1>10, <2>1 DEF NotLater
<1>13. ASSUME NEW k \in Keys, NEW c \in saved[k]
       PROVE  begun'[k] # {} /\ CursorOK(c, k, listed, KnownIn(ath), begun')
  <2>1. begun'[k] = begun[k] /\ begun[k] # {} BY <1>10 DEF IndexInv
  <2>2. CursorOK(c, k, listed, KnownIn(ath), begun) BY DEF IndexInv
  <2>3. Owed(begun', k) = Owed(begun, k) BY <2>1 DEF Owed
  <2> QED BY <2>1, <2>2, <2>3 DEF CursorOK
<1>14. PassOK(r, listed, KnownIn(ath), begun', clock)
  <2>1. kind # "observe" => r.key \in KeysOf(kind) BY <1>1, <1>6, KeysAreKeys
  <2>2. \A k \in KeysOf(kind) : k \in Keys /\ begun'[k] # {} BY <1>10, KeysAreKeys
  <2>3. \A k \in Keys : \A b \in begun'[k] : b.at <= clock BY <1>2, <1>11 DEF BegunOK
  <2>4. PassBegun(r, begun') BY <1>1, <1>6, <2>1, <2>2, <2>3 DEF PassBegun
  <2>5. RowsOK(r, begun', clock) BY <1>6 DEF RowsOK
  <2>6. PassCovers(r, listed, KnownIn(ath), begun') BY <1>6 DEF PassCovers
  <2> QED BY <1>4, <1>6, <2>4, <2>5, <2>6 DEF PassOK
<1>15. ASSUME NEW q \in Processes PROVE PassOK(proc'[q], listed, KnownIn(ath), begun', clock)
  <2>1. CASE q = p
    <3>1. proc'[q] = r BY <1>3, <2>1 DEF IndexInv
    <3> QED BY <1>14, <3>1
  <2>2. CASE q # p
    <3>1. proc'[q] = proc[q] BY <1>3, <2>2 DEF IndexInv
    <3>2. proc[q] \in PassType /\ PassOK(proc[q], listed, KnownIn(ath), begun, clock) BY DEF IndexInv
    <3>3. \A k \in Keys : begun'[k] # begun[k] => \A b \in begun'[k] : b.at = clock BY <1>7, <1>10
    <3>4. PassOK(proc[q], listed, KnownIn(ath), begun', clock)
      BY <1>4, <1>10, <3>2, <3>3, BegunMore
    <3> QED BY <3>1, <3>4
  <2> QED BY <2>1, <2>2
<1>16. proc' \in [Processes -> PassType] BY <1>3, <1>5 DEF IndexInv
<1>17. /\ \A t \in Tokens : \A o \in ath'[t] : o.at <= clock' /\ NotLater(t, o, begun')
       /\ \A k \in Keys : saved'[k] # {} => begun'[k] # {}
       /\ \A k \in Keys : \A c \in saved'[k] : CursorOK(c, k, listed', KnownIn(ath'), begun')
  BY <1>2, <1>12, <1>13
<1>18. \A q \in Processes : PassOK(proc'[q], listed', KnownIn(ath'), begun', clock')
  BY <1>2, <1>15
<1> QED BY <1>2, <1>9, <1>11, <1>16, <1>17, <1>18 DEF IndexInv

\* A pass that is on with its key: what a step that keeps the key, the kind
\* and the time of its start has to show.
LEMMA SameKey ==
  ASSUME NEW r, NEW q, NEW L, NEW K, NEW B, NEW now, PassOK(r, L, K, B, now), r.pc # "done",
         q.kind = r.kind, q.key = r.key, q.at = r.at, q.pc # "save" \/ r.kind # "observe",
         RowsOK(q, B, now), PassCovers(q, L, K, B)
  PROVE  PassOK(q, L, K, B, now)
<1>1. PassBegun(q, B) BY DEF PassOK, PassBegun
<1> QED BY <1>1 DEF PassOK

\* The pass in hand.
LEMMA InHand ==
  ASSUME IndexInv, NEW p \in Processes
  PROVE  /\ proc[p] \in PassType /\ PassOK(proc[p], listed, KnownIn(ath), begun, clock)
         /\ clock \in Nat /\ proc[p].at \in Nat /\ proc[p].at <= clock
         /\ proc[p].cursor \in Seq(Interval) /\ proc[p].count \in Nat
         /\ proc[p].todo \subseteq Launches
         /\ proc[p].pc # "done" /\ proc[p].kind # "observe" => proc[p].key \in Keys
<1>1. proc[p] \in PassType /\ PassOK(proc[p], listed, KnownIn(ath), begun, clock) /\ clock \in Nat
  BY DEF IndexInv
<1>2. /\ proc[p].at \in Nat /\ proc[p].cursor \in Seq(Interval) /\ proc[p].count \in Nat
      /\ proc[p].todo \subseteq Launches
  BY <1>1 DEF PassType
<1>3. proc[p].at <= clock BY <1>1 DEF PassOK
<1>4. proc[p].pc # "done" /\ proc[p].kind # "observe" => proc[p].key \in Keys
  BY <1>1, KeysAreKeys DEF PassOK, PassBegun
<1> QED BY <1>1, <1>2, <1>3, <1>4

LEMMA DoneKeeps ==
  ASSUME IndexInv, NEW p \in Processes, proc' = [proc EXCEPT ![p] = Done],
         UNCHANGED <<listed, tracked, clock, scenario, ath, saved, begun>>
  PROVE  IndexInv'
<1>1. Done \in PassType /\ PassOK(Done, listed, KnownIn(ath), begun, clock)
  BY DoneIs DEF IndexInv
<1> QED BY <1>1, PassMoves

LEMMA LoadCandidatesKeeps ==
  ASSUME IndexInv, NEW p \in Processes, LoadCandidates(p)
  PROVE  IndexInv'
<1> DEFINE r == proc[p]
<1>1. PICK c \in Candidates :
        proc' = [proc EXCEPT ![p] = IF c = {} THEN Done ELSE [r EXCEPT !.pc = "request", !.todo = c]]
  BY DEF LoadCandidates, IndexInv
<1> DEFINE q == [r EXCEPT !.pc = "request", !.todo = c]
<1>2. UNCHANGED <<listed, tracked, clock, scenario, ath, saved, begun>> /\ r.pc = "load" /\ r.kind = "observe"
  BY DEF LoadCandidates, world, counter, store
<1>3. c \subseteq Launches BY <1>1 DEF Candidates, IndexInv
<1>4. r \in PassType /\ PassOK(r, listed, KnownIn(ath), begun, clock) BY InHand
<1>5. q \in PassType BY <1>3, <1>4 DEF PassType
<1>6. /\ q.pc = "request" /\ q.kind = r.kind /\ q.key = r.key /\ q.at = r.at /\ q.rows = r.rows
  BY <1>4 DEF PassType
<1>7. r.rows = {} BY <1>2, <1>4 DEF PassOK, RowsOK
<1>8. proc' = [proc EXCEPT ![p] = IF c = {} THEN Done ELSE q] BY <1>1
<1> HIDE DEF q, r
<1>9. RowsOK(q, begun, clock) BY <1>6, <1>7 DEF RowsOK
<1>10. PassCovers(q, listed, KnownIn(ath), begun) BY <1>2, <1>6 DEF PassCovers
<1>11. PassOK(q, listed, KnownIn(ath), begun, clock) BY <1>2, <1>4, <1>6, <1>9, <1>10, SameKey
<1>12. CASE c = {} BY <1>2, <1>8, <1>12, DoneKeeps
<1>13. CASE c # {} BY <1>2, <1>5, <1>8, <1>11, <1>13, PassMoves
<1> QED BY <1>12, <1>13

\* The pass goes on with the day before, or ends.
LEMMA OlderIs ==
  ASSUME NEW r \in PassType, NEW L, NEW K, NEW B, NEW now \in Nat, PassOK(r, L, K, B, now),
         r.pc \in {"load", "save"}, r.kind # "observe", r.key # 0
  PROVE  Older(r) \in PassType /\ PassOK(Older(r), L, K, B, now)
<1>1. CASE ~(r.key > 1) BY <1>1, DoneIs DEF Older
<1>2. CASE r.key > 1
  <2> DEFINE q == [r EXCEPT !.pc = "load", !.key = r.key - 1]
  <2>1. Older(r) = q BY <1>2 DEF Older
  <2>2. r.key \in Nat BY DEF PassType
  <2>3. q \in PassType
    <3>1. r.key - 1 \in Nat BY <1>2, <2>2
    <3> QED BY <3>1 DEF PassType
  <2>4. /\ q.pc = "load" /\ q.kind = r.kind /\ q.key = r.key - 1 /\ q.at = r.at /\ q.rows = r.rows
    BY DEF PassType
  <2>5. r.rows = {} BY DEF PassOK, RowsOK
  <2>6. r.key \in KeysOf(r.kind) /\ r.kind \in {"days", "runner"}
    BY DEF PassOK, PassBegun, PassType
  <2>7. r.kind = "days" /\ r.key \in 1..Days BY <1>2, <2>6, KeysAreKeys
  <2> HIDE DEF q
  <2>8. q.key \in KeysOf(q.kind) BY <1>2, <2>4, <2>7, KeysAreKeys
  <2>9. PassBegun(q, B) BY <2>4, <2>7, <2>8 DEF PassOK, PassBegun
  <2>10. RowsOK(q, B, now) BY <2>4, <2>5 DEF RowsOK
  <2>11. PassCovers(q, L, K, B) BY <2>4 DEF PassCovers
  <2>12. PassOK(q, L, K, B, now) BY <2>4, <2>9, <2>10, <2>11 DEF PassOK
  <2> QED BY <2>1, <2>3, <2>12
<1> QED BY <1>1, <1>2

\* The pass requests a page of the interval on top of c.
LEMMA RequestIs ==
  ASSUME NEW r \in PassType, NEW L, NEW K, NEW B, NEW now, PassOK(r, L, K, B, now),
         r.pc \in {"load", "save"}, r.kind # "observe",
         NEW q \in PassType, q.pc = "request", q.kind = r.kind, q.key = r.key, q.at = r.at,
         q.rows = r.rows, q.cursor # << >>, CursorOK(q.cursor, r.key, L, K, B)
  PROVE  PassOK(q, L, K, B, now)
<1>1. r.rows = {} BY DEF PassOK, RowsOK
<1>2. RowsOK(q, B, now) BY <1>1 DEF RowsOK
<1>3. PassCovers(q, L, K, B) BY DEF PassCovers
<1> QED BY <1>2, <1>3, SameKey

LEMMA LoadCursorKeeps ==
  ASSUME IndexInv, NEW p \in Processes, LoadCursor(p)
  PROVE  IndexInv'
<1> DEFINE r == proc[p]
           k == r.key
           q(c) == [r EXCEPT !.pc = "request", !.cursor = c]
<1>1. UNCHANGED <<listed, tracked, clock, scenario, ath, saved, begun>> /\ r.pc = "load" /\ r.kind # "observe"
  BY DEF LoadCursor, world, counter, store
<1>2. r \in PassType /\ PassOK(r, listed, KnownIn(ath), begun, clock) /\ k \in Keys /\ clock \in Nat
  BY <1>1, InHand
<1>3. ASSUME NEW c \in Seq(Interval), c # << >>, CursorOK(c, k, listed, KnownIn(ath), begun),
             proc' = [proc EXCEPT ![p] = q(c)]
      PROVE  IndexInv'
  <2>1. q(c) \in PassType BY <1>2, <1>3 DEF PassType
  <2>2. /\ q(c).pc = "request" /\ q(c).kind = r.kind /\ q(c).key = r.key /\ q(c).at = r.at
        /\ q(c).rows = r.rows /\ q(c).cursor = c
    BY <1>2 DEF PassType
  <2> HIDE DEF q, r
  <2>3. PassOK(q(c), listed, KnownIn(ath), begun, clock)
    BY <1>1, <1>2, <1>3, <2>1, <2>2, RequestIs DEF k
  <2> QED BY <1>1, <1>3, <2>1, <2>3, PassMoves
<1>4. CASE saved[k] = {}
  <2>1. proc' = [proc EXCEPT ![p] = q(Whole(k))] BY <1>4 DEF LoadCursor
  <2>2. BegunOK(begun, listed \cap tracked, clock) BY DEF IndexInv
  <2>3. listed \cap tracked \subseteq listed OBVIOUS
  <2> HIDE DEF r, k, q
  <2>4. /\ Whole(k) \in Seq(Interval) /\ Whole(k) # << >>
        /\ CursorOK(Whole(k), k, listed, KnownIn(ath), begun)
    BY <1>2, <2>2, <2>3, WholeCovers
  <2> QED BY <1>3, <2>1, <2>4
<1>5. CASE saved[k] # {}
  <2>1. PICK c \in saved[k] : proc' = [proc EXCEPT ![p] =
          IF ~Valid(k, c) THEN Done
          ELSE IF c = << >> THEN (IF k = 0 THEN Done ELSE Older(r))
          ELSE IF k = 0 /\ Top(c).offset >= MaxOffset THEN Done
          ELSE q(c)]
    BY <1>5 DEF LoadCursor
  <2>2. c \in Seq(Interval) /\ CursorOK(c, k, listed, KnownIn(ath), begun)
    BY <1>2 DEF IndexInv
  <2> HIDE DEF q, r, k
  <2>3. CASE proc' = [proc EXCEPT ![p] = Done] BY <1>1, <2>3, DoneKeeps
  <2>4. CASE k # 0 /\ proc' = [proc EXCEPT ![p] = Older(r)]
    <3>1. Older(r) \in PassType /\ PassOK(Older(r), listed, KnownIn(ath), begun, clock)
      BY <1>1, <1>2, <2>4, OlderIs DEF k
    <3> QED BY <1>1, <2>4, <3>1, PassMoves
  <2>5. CASE c # << >> /\ proc' = [proc EXCEPT ![p] = q(c)] BY <1>3, <2>2, <2>5
  <2> QED BY <2>1, <2>3, <2>4, <2>5
<1> QED BY <1>4, <1>5

LEMMA ReserveKeeps ==
  ASSUME IndexInv, NEW p \in Processes, Reserve(p)
  PROVE  IndexInv'
<1> DEFINE r == proc[p]
           q == [r EXCEPT !.pc = "sent", !.sent = TRUE]
<1>1. UNCHANGED <<listed, tracked, clock, scenario, ath, saved, begun>> /\ r.pc = "request"
  BY DEF Reserve, world, counter, store
<1>2. r \in PassType /\ PassOK(r, listed, KnownIn(ath), begun, clock) BY InHand
<1>3. CASE proc' = [proc EXCEPT ![p] = Done] BY <1>1, <1>3, DoneKeeps
<1>4. CASE proc' = [proc EXCEPT ![p].pc = "sent", ![p].sent = TRUE]
  <2>1. proc' = [proc EXCEPT ![p] = q] BY <1>4 DEF IndexInv
  <2>2. q \in PassType BY <1>2 DEF PassType
  <2>3. /\ q.pc = "sent" /\ q.kind = r.kind /\ q.key = r.key /\ q.at = r.at /\ q.rows = r.rows
        /\ q.cursor = r.cursor
    BY <1>2 DEF PassType
  <2>4. r.rows = {} BY <1>1, <1>2 DEF PassOK, RowsOK
  <2> HIDE DEF q, r
  <2>5. RowsOK(q, begun, clock) BY <2>3, <2>4 DEF RowsOK
  <2>6. PassCovers(q, listed, KnownIn(ath), begun) BY <1>1, <1>2, <2>3 DEF PassOK, PassCovers
  <2>7. PassOK(q, listed, KnownIn(ath), begun, clock) BY <1>1, <1>2, <2>3, <2>5, <2>6, SameKey
  <2> QED BY <1>1, <2>1, <2>2, <2>7, PassMoves
<1> QED BY <1>3, <1>4 DEF Reserve

LEMMA RequestFailsKeeps ==
  ASSUME IndexInv, NEW p \in Processes, RequestFails(p) \/ Crash(p)
  PROVE  IndexInv'
<1> DEFINE r == proc[p]
           q == [r EXCEPT !.pc = "request", !.retry = r.retry + 1]
<1>1. UNCHANGED <<listed, tracked, clock, scenario, ath, saved, begun>>
  BY DEF RequestFails, Crash, world, counter, store
<1>2. r \in PassType /\ PassOK(r, listed, KnownIn(ath), begun, clock) BY InHand
<1>3. CASE proc' = [proc EXCEPT ![p] = Done] BY <1>1, <1>3, DoneKeeps
<1>4. CASE r.pc = "sent" /\ proc' = [proc EXCEPT ![p] = q]
  <2>1. q \in PassType
    <3>1. r.retry + 1 \in Nat BY <1>2 DEF PassType
    <3> QED BY <1>2, <3>1 DEF PassType
  <2>2. /\ q.pc = "request" /\ q.kind = r.kind /\ q.key = r.key /\ q.at = r.at /\ q.rows = r.rows
        /\ q.cursor = r.cursor
    BY <1>2 DEF PassType
  <2>3. r.rows = {} BY <1>2, <1>4 DEF PassOK, RowsOK
  <2> HIDE DEF q, r
  <2>4. RowsOK(q, begun, clock) BY <2>2, <2>3 DEF RowsOK
  <2>5. PassCovers(q, listed, KnownIn(ath), begun) BY <1>2, <1>4, <2>2 DEF PassOK, PassCovers
  <2>6. PassOK(q, listed, KnownIn(ath), begun, clock) BY <1>2, <1>4, <2>2, <2>4, <2>5, SameKey
  <2> QED BY <1>1, <1>4, <2>1, <2>6, PassMoves
<1> QED BY <1>3, <1>4 DEF RequestFails, Crash

\* The model's pages, in the terms of this section.
LEMMA PageIs ==
  ASSUME NEW i
  PROVE  Page(i) = {h \in RowsIn(listed, i) :
                      NumberIn(listed, i, h) \in i.offset + 1 .. i.offset + PageSize}
<1>1. Rows(i) = RowsIn(listed, i) BY DEF Rows, RowsIn, Within
<1>2. \A h : RowNumber(i, h) = NumberIn(listed, i, h) BY <1>1 DEF RowNumber, NumberIn
<1> QED BY <1>1, <1>2 DEF Page

LEMMA AnswerPageKeeps ==
  ASSUME IndexInv, NEW p \in Processes, AnswerPage(p)
  PROVE  IndexInv'
<1> DEFINE r == proc[p]
           i == Top(r.cursor)
           page == Page(i)
           n == Cardinality(page)
           rows(s) == Observed(page, s)
           q(s) == [r EXCEPT !.pc = "upsert", !.retry = 0, !.count = n, !.rows = rows(s)]
<1>1. UNCHANGED <<listed, tracked, clock, scenario, ath, saved, begun>>
      /\ r.pc = "sent" /\ r.kind # "observe"
  BY DEF AnswerPage, world, counter, store
<1>2. PICK s \in Stamps(r) : proc' = [proc EXCEPT ![p] = q(s)] BY DEF AnswerPage
<1>3. /\ r \in PassType /\ PassOK(r, listed, KnownIn(ath), begun, clock) /\ r.key \in Keys
      /\ clock \in Nat /\ r.at \in Nat /\ r.at <= clock /\ r.cursor \in Seq(Interval)
      /\ r.cursor # << >> /\ CursorOK(r.cursor, r.key, listed, KnownIn(ath), begun)
  BY <1>1, InHand DEF PassOK, PassCovers
<1>4. s \in Nat /\ r.at <= s /\ s <= clock BY <1>3 DEF Stamps
<1>5. page \subseteq 1..Len(Order) /\ n \in Nat
  <2>1. page \subseteq RowsIn(listed, i) BY PageIs
  <2>2. IsFiniteSet(page) /\ page \subseteq 1..Len(Order) BY <2>1, Numbers, FS_Subset
  <2> QED BY <2>2, FS_CardinalityType
<1>6. ASSUME NEW x \in rows(s)
      PROVE  /\ x \in Launches \X Observation /\ x[2].source = "codex" /\ x[2].at = s
  <2>1. PICK t \in tracked : x = <<t, [source |-> "codex", at |-> s]>> BY DEF Observed
  <2>2. t \in Launches BY DEF IndexInv
  <2> QED BY <1>4, <2>1, <2>2 DEF Observation
<1>7. ASSUME NEW j \in page, Order[j] \in tracked PROVE \E x \in rows(s) : x[1] = Order[j]
  <2> DEFINE x == <<Order[j], [source |-> "codex", at |-> s]>>
  <2>1. Order[j] \in {Order[h] : h \in page} \cap tracked BY <1>7
  <2>2. x \in rows(s) /\ x[1] = Order[j] BY <2>1 DEF Observed
  <2> QED BY <2>2
<1>8. ASSUME NEW j \in Owed(begun, r.key)
      PROVE  \/ Order[j] \in KnownIn(ath) \/ \E x \in rows(s) : x[1] = Order[j]
             \/ Remains(listed, r.cursor, n, j)
  <2>1. Order[j] \in tracked BY <1>3 DEF Owed, IndexInv, BegunOK
  <2>2. CASE Covers(listed, r.cursor, j)
    <3> HIDE DEF r
    <3>1. page = {h \in RowsIn(listed, i) : NumberIn(listed, i, h) \in i.offset + 1 .. i.offset + PageSize}
      BY PageIs
    <3>2. j \in page \/ Remains(listed, r.cursor, n, j)
      BY <1>3, <2>2, <3>1, PageRead
    <3> QED BY <1>7, <2>1, <3>2
  <2> QED BY <1>3, <2>2 DEF CursorOK
<1>9. rows(s) \subseteq Launches \X Observation BY <1>6
<1> HIDE DEF rows, n, page, i, r
<1>10. q(s) \in PassType BY <1>3, <1>5, <1>9 DEF PassType
<1>11. /\ q(s).pc = "upsert" /\ q(s).kind = r.kind /\ q(s).key = r.key /\ q(s).at = r.at
       /\ q(s).rows = rows(s) /\ q(s).cursor = r.cursor /\ q(s).count = n
  BY <1>3 DEF PassType
<1> HIDE DEF q
<1>12. \A b \in begun[r.key] : b.at <= s
  <2>1. r.key \in KeysOf(r.kind) BY <1>1, <1>3 DEF PassOK, PassBegun
  <2>2. \A b \in begun[r.key] : b.at <= r.at BY <1>1, <1>3, <2>1 DEF PassOK, PassBegun
  <2>3. \A b \in begun[r.key] : b.at \in Nat BY <1>3 DEF IndexInv
  <2> QED BY <1>3, <1>4, <2>2, <2>3
<1>13. RowsOK(q(s), begun, clock)
  <2>1. \A x \in rows(s) : x[2].at <= clock /\ NotLater(x[1], x[2], begun) /\ x[2].source = "codex"
                           /\ \A b \in begun[r.key] : b.at <= x[2].at
    BY <1>4, <1>6, <1>12 DEF NotLater
  <2> QED BY <1>11, <2>1 DEF RowsOK
<1>14. PassCovers(q(s), listed, KnownIn(ath), begun)
  BY <1>3, <1>8, <1>11 DEF PassCovers
<1>15. PassOK(q(s), listed, KnownIn(ath), begun, clock)
  BY <1>1, <1>3, <1>11, <1>13, <1>14, SameKey
<1> QED BY <1>1, <1>2, <1>10, <1>15, PassMoves

LEMMA AnswerBatchKeeps ==
  ASSUME IndexInv, NEW p \in Processes, AnswerBatch(p)
  PROVE  IndexInv'
<1> DEFINE r == proc[p]
<1>1. UNCHANGED <<listed, tracked, clock, scenario, ath, saved, begun>>
      /\ r.pc = "sent" /\ r.kind = "observe"
  BY DEF AnswerBatch, world, counter, store
<1>2. PICK batch \in SUBSET r.todo :
        proc' = [proc EXCEPT ![p] =
          [r EXCEPT !.pc = "upsert", !.todo = r.todo \ batch, !.rows = ObservedBatch(batch, r.at)]]
  BY DEF AnswerBatch
<1> DEFINE rows == ObservedBatch(batch, r.at)
           left == r.todo \ batch
           q == [r EXCEPT !.pc = "upsert", !.todo = left, !.rows = rows]
<1>3. /\ r \in PassType /\ PassOK(r, listed, KnownIn(ath), begun, clock)
      /\ clock \in Nat /\ r.at \in Nat /\ r.at <= clock /\ r.todo \subseteq Launches
  BY InHand
<1>4. ASSUME NEW x \in rows
      PROVE  /\ x \in Launches \X Observation /\ x[2].at <= clock
             /\ NotLater(x[1], x[2], begun)
  <2>1. PICK t \in batch : x = <<t, [source |-> IF t \in listed THEN "codex" ELSE "missing", at |-> r.at]>>
    BY DEF ObservedBatch
  <2>2. x[1] = t /\ x[2].at = r.at /\ x[2].source = (IF t \in listed THEN "codex" ELSE "missing")
    BY <2>1
  <2>3. t \in Launches BY <1>3
  <2>4. \A k \in Keys : \A b \in begun[k] : t \in b.owed => t \in listed
    BY DEF IndexInv, BegunOK
  <2>5. x \in Launches \X Observation BY <1>3, <2>1, <2>3 DEF Observation
  <2> HIDE DEF r, rows
  <2>6. NotLater(t, x[2], begun) BY <2>2, <2>4 DEF NotLater
  <2> QED BY <1>3, <2>2, <2>5, <2>6
<1>5. rows \subseteq Launches \X Observation /\ left \subseteq Launches BY <1>3, <1>4
<1>6. proc' = [proc EXCEPT ![p] = q] BY <1>2
<1> HIDE DEF rows, left, r
<1>7. q \in PassType BY <1>3, <1>5 DEF PassType
<1>8. /\ q.pc = "upsert" /\ q.kind = r.kind /\ q.key = r.key /\ q.at = r.at /\ q.rows = rows
  BY <1>3 DEF PassType
<1> HIDE DEF q
<1>9. RowsOK(q, begun, clock) BY <1>1, <1>4, <1>8 DEF RowsOK
<1>10. PassCovers(q, listed, KnownIn(ath), begun) BY <1>1, <1>8 DEF PassCovers
<1>11. PassOK(q, listed, KnownIn(ath), begun, clock)
  BY <1>1, <1>3, <1>8, <1>9, <1>10, SameKey
<1> QED BY <1>1, <1>6, <1>7, <1>11, PassMoves

LEMMA UpsertKeeps ==
  ASSUME IndexInv, NEW p \in Processes, Upsert(p)
  PROVE  IndexInv'
<1> DEFINE r == proc[p]
           new(t) == {x[2] : x \in {y \in r.rows : y[1] = t}}
           K == KnownIn(ath)
           N == KnownIn(ath')
<1>1. UNCHANGED <<listed, tracked, clock, scenario, saved, begun>> /\ r.pc = "upsert"
  BY DEF Upsert, world, counter
<1>2. /\ r \in PassType /\ PassOK(r, listed, K, begun, clock) /\ clock \in Nat
      /\ r.kind # "observe" => r.key \in Keys
  BY <1>1, InHand
<1>3. ath' = [t \in Tokens |-> Joined(ath[t], new(t))]
      /\ proc' = [proc EXCEPT ![p] =
           IF r.kind # "observe" THEN [r EXCEPT !.pc = "save", !.rows = {}]
           ELSE IF r.todo = {} THEN Done ELSE [r EXCEPT !.pc = "request", !.rows = {}]]
  BY DEF Upsert, Joined
<1>4. /\ ath \in [Tokens -> SUBSET Observation]
      /\ \A t \in Tokens : \A o \in ath[t] : o.at <= clock /\ NotLater(t, o, begun)
      /\ \A k \in Keys : \A b \in begun[k] : b.at \in Nat
  BY DEF IndexInv
<1>5. \A x \in r.rows : /\ x[2] \in Observation /\ x[2].at <= clock /\ NotLater(x[1], x[2], begun)
                        /\ r.kind # "observe" =>
                             x[2].source = "codex" /\ \A b \in begun[r.key] : b.at <= x[2].at
  BY <1>2 DEF PassType, PassOK, RowsOK
<1>6. ASSUME NEW t \in Tokens
      PROVE  /\ new(t) \subseteq Observation
             /\ \A o \in new(t) : o.at <= clock /\ NotLater(t, o, begun)
  BY <1>5
<1>7. \A x \in r.rows : x[2] \in new(x[1]) OBVIOUS
<1> HIDE DEF new, r
<1>8. ASSUME NEW t \in Tokens
      PROVE  /\ ath'[t] \subseteq Observation
             /\ \A v \in ath'[t] : v.at <= clock /\ NotLater(t, v, begun)
             /\ (\E o \in ath[t] : o.source # "missing") => \E v \in ath'[t] : v.source # "missing"
             /\ \A n \in new(t) : n.source # "missing" /\ (\A o \in ath[t] : o.source = "missing" => o.at <= n.at)
                  => \E v \in ath'[t] : v.source # "missing"
  <2>1. ath'[t] = Joined(ath[t], new(t)) BY <1>3
  <2>2. ath[t] \subseteq Observation /\ new(t) \subseteq Observation BY <1>4, <1>6
  <2>3. ASSUME NEW v \in ath'[t] PROVE v.at <= clock /\ NotLater(t, v, begun)
    <3>1. \/ v \in ath[t] \/ v \in new(t)
          \/ \E n \in new(t) : n.source = "missing" /\ v.at = n.at
      BY <2>1, <2>2, JoinedIs
    <3>2. CASE v \in ath[t] BY <1>4, <3>2
    <3>3. CASE v \in new(t) BY <1>6, <3>3
    <3>4. CASE \E n \in new(t) : n.source = "missing" /\ v.at = n.at
      <4>1. PICK n \in new(t) : n.source = "missing" /\ v.at = n.at BY <3>4
      <4>2. n.at <= clock /\ NotLater(t, n, begun) BY <1>6
      <4> QED BY <4>1, <4>2 DEF NotLater
    <3> QED BY <3>1, <3>2, <3>3, <3>4
  <2> QED BY <2>1, <2>2, <2>3, JoinedIs
<1>9. K \subseteq N BY <1>8 DEF KnownIn
<1>10. ath' \in [Tokens -> SUBSET Observation]
  <2>1. ath' = [t \in Tokens |-> ath'[t]] BY <1>3
  <2> QED BY <1>8, <2>1
<1>11. ASSUME r.kind # "observe", NEW j \in Owed(begun, r.key), NEW x \in r.rows, x[1] = Order[j]
       PROVE  Order[j] \in N
  <2> DEFINE t == Order[j]
  <2>1. t \in Tokens /\ \E b \in begun[r.key] : t \in b.owed BY Places DEF Owed
  <2>2. PICK b \in begun[r.key] : t \in b.owed BY <2>1
  <2>3. r.key \in Keys /\ b.at \in Nat BY <1>2, <1>4, <1>11
  <2>4. x[2].source = "codex" /\ b.at <= x[2].at /\ x[2].at \in Nat
    BY <1>5, <1>11 DEF Observation
  <2>5. ASSUME NEW o \in ath[t], o.source = "missing" PROVE o.at <= x[2].at
    <3>1. NotLater(t, o, begun) /\ o.at \in Nat BY <1>4, <2>1 DEF Observation
    <3>2. o.at <= b.at BY <2>2, <2>3, <2>5, <3>1 DEF NotLater
    <3> QED BY <2>3, <2>4, <3>1, <3>2
  <2>6. x[2] \in new(t) BY <1>7, <1>11
  <2> HIDE DEF t
  <2>7. \E v \in ath'[t] : v.source # "missing" BY <1>8, <2>1, <2>4, <2>5, <2>6
  <2> QED BY <2>1, <2>7 DEF KnownIn, t
<1>12. ASSUME r.kind # "observe", proc' = [proc EXCEPT ![p] = [r EXCEPT !.pc = "save", !.rows = {}]]
       PROVE  proc'[p] \in PassType /\ PassOK(proc'[p], listed, N, begun, clock)
  <2> DEFINE q == [r EXCEPT !.pc = "save", !.rows = {}]
  <2>1. proc'[p] = q BY <1>12 DEF IndexInv
  <2>2. q \in PassType BY <1>2 DEF PassType
  <2>3. /\ q.pc = "save" /\ q.kind = r.kind /\ q.key = r.key /\ q.at = r.at /\ q.rows = {}
        /\ q.cursor = r.cursor /\ q.count = r.count
    BY <1>2 DEF PassType
  <2> HIDE DEF q
  <2>4. RowsOK(q, begun, clock) BY <2>3 DEF RowsOK
  <2>5. r.cursor # << >> BY <1>1, <1>2, <1>12 DEF PassOK, PassCovers
  <2>6. ASSUME NEW j \in Owed(begun, r.key)
        PROVE  Order[j] \in N \/ Remains(listed, r.cursor, r.count, j)
    <3>1. Order[j] \in K \/ (\E x \in r.rows : x[1] = Order[j]) \/ Remains(listed, r.cursor, r.count, j)
      BY <1>1, <1>2, <1>12 DEF PassOK, PassCovers
    <3> QED BY <1>9, <1>11, <1>12, <3>1
  <2>7. PassCovers(q, listed, N, begun) BY <2>3, <2>5, <2>6 DEF PassCovers
  <2>8. PassBegun(q, begun) BY <1>1, <1>2, <1>12, <2>3 DEF PassOK, PassBegun
  <2>9. q.at <= clock BY <1>2, <2>3 DEF PassOK
  <2>10. PassOK(q, listed, N, begun, clock) BY <2>4, <2>7, <2>8, <2>9 DEF PassOK
  <2> QED BY <2>1, <2>2, <2>10
<1>13. ASSUME r.kind = "observe", proc' = [proc EXCEPT ![p] = [r EXCEPT !.pc = "request", !.rows = {}]]
       PROVE  proc'[p] \in PassType /\ PassOK(proc'[p], listed, N, begun, clock)
  <2> DEFINE q == [r EXCEPT !.pc = "request", !.rows = {}]
  <2>1. proc'[p] = q BY <1>13 DEF IndexInv
  <2>2. q \in PassType BY <1>2 DEF PassType
  <2>3. /\ q.pc = "request" /\ q.kind = r.kind /\ q.key = r.key /\ q.at = r.at /\ q.rows = {}
    BY <1>2 DEF PassType
  <2> HIDE DEF q
  <2>4. RowsOK(q, begun, clock) BY <2>3 DEF RowsOK
  <2>5. PassCovers(q, listed, N, begun) BY <1>13, <2>3 DEF PassCovers
  <2>6. PassBegun(q, begun) BY <1>1, <1>2, <1>13, <2>3 DEF PassOK, PassBegun
  <2>7. q.at <= clock BY <1>2, <2>3 DEF PassOK
  <2>8. PassOK(q, listed, N, begun, clock) BY <2>4, <2>5, <2>6, <2>7 DEF PassOK
  <2> QED BY <2>1, <2>2, <2>8
<1>14. ASSUME proc' = [proc EXCEPT ![p] = Done]
       PROVE  proc'[p] \in PassType /\ PassOK(proc'[p], listed, N, begun, clock)
  <2>1. proc'[p] = Done BY <1>14 DEF IndexInv
  <2> QED BY <1>2, <2>1, DoneIs
<1>15. proc'[p] \in PassType /\ PassOK(proc'[p], listed, N, begun, clock)
  BY <1>3, <1>12, <1>13, <1>14
<1>16. proc' = [proc EXCEPT ![p] = proc'[p]] BY <1>3 DEF IndexInv
<1>17. /\ proc' \in [Processes -> PassType]
       /\ \A q \in Processes : proc'[q] = proc[q] \/ PassOK(proc'[q], listed', KnownIn(ath'), begun, clock')
  BY <1>1, <1>15, <1>16 DEF IndexInv
<1>18. /\ clock' = clock /\ listed' = listed /\ tracked' = tracked
       /\ listed \subseteq Tokens /\ tracked \subseteq Launches
       /\ saved' \in [Keys -> SUBSET Seq(Interval)] /\ \A k \in Keys : \A c \in saved'[k] : c \in saved[k]
  BY <1>1 DEF IndexInv
<1> QED BY <1>1, <1>2, <1>8, <1>9, <1>10, <1>17, <1>18, StepKeeps

LEMMA SaveKeeps ==
  ASSUME IndexInv, NEW p \in Processes, Save(p)
  PROVE  IndexInv'
<1> DEFINE r == proc[p]
           K == KnownIn(ath)
           c == IF r.key = 0 THEN AdvanceRunner(r.cursor, r.count) ELSE AdvanceDay(r.cursor, r.count)
           q == [r EXCEPT !.pc = "request", !.cursor = c, !.count = 0]
<1>1. UNCHANGED <<listed, tracked, clock, scenario, ath, begun>> /\ r.pc = "save"
  BY DEF Save, world, counter
<1>2. /\ r \in PassType /\ PassOK(r, listed, K, begun, clock) /\ clock \in Nat
      /\ r.cursor \in Seq(Interval) /\ r.count \in Nat
  BY <1>1, InHand
<1>3. r.kind # "observe" /\ r.key \in KeysOf(r.kind) /\ begun[r.key] # {}
  BY <1>1, <1>2 DEF PassOK, PassBegun
<1>4. r.key \in Keys BY <1>3, KeysAreKeys
<1>5. r.cursor # << >> BY <1>1, <1>2, <1>3 DEF PassOK, PassCovers
<1>6. CASE Saturated(r) /\ proc' = [proc EXCEPT ![p] = Done] /\ UNCHANGED saved
  BY <1>1, <1>6, DoneKeeps
<1>7. CASE /\ saved' = [saved EXCEPT ![r.key] = {c}]
           /\ proc' = [proc EXCEPT ![p] =
                IF c = << >> THEN (IF r.key = 0 THEN Done ELSE Older(r))
                ELSE IF r.key = 0 /\ Top(c).offset >= MaxOffset THEN Done ELSE q]
  <2>1. c \in Seq(Interval) BY <1>2, <1>5, CursorType
  <2>2. CursorOK(c, r.key, listed, K, begun)
    <3> SUFFICES ASSUME NEW j \in Owed(begun, r.key), Order[j] \notin K PROVE Covers(listed, c, j)
      BY DEF CursorOK
    <3>1. Remains(listed, r.cursor, r.count, j) BY <1>1, <1>2, <1>3 DEF PassOK, PassCovers
    <3> QED BY <1>2, <1>5, <3>1, CursorMoves
  <2>3. q \in PassType BY <1>2, <2>1 DEF PassType
  <2>4. /\ q.pc = "request" /\ q.kind = r.kind /\ q.key = r.key /\ q.at = r.at /\ q.rows = r.rows
        /\ q.cursor = c
    BY <1>2 DEF PassType
  <2> HIDE DEF q, c, r
  <2>5. c # << >> => PassOK(q, listed, K, begun, clock)
    BY <1>1, <1>2, <1>3, <2>2, <2>3, <2>4, RequestIs
  <2>6. r.key # 0 => Older(r) \in PassType /\ PassOK(Older(r), listed, K, begun, clock)
    BY <1>1, <1>2, <1>3, OlderIs
  <2>7. Done \in PassType /\ PassOK(Done, listed, K, begun, clock) BY <1>2, DoneIs
  <2>8. PICK s \in PassType : proc' = [proc EXCEPT ![p] = s] /\ PassOK(s, listed, K, begun, clock)
    BY <1>7, <2>3, <2>5, <2>6, <2>7
  <2>9. /\ proc' \in [Processes -> PassType]
        /\ \A u \in Processes : proc'[u] = proc[u] \/ PassOK(proc'[u], listed', KnownIn(ath'), begun, clock')
    BY <1>1, <2>8 DEF IndexInv
  <2>10. saved' \in [Keys -> SUBSET Seq(Interval)] BY <1>7, <2>1 DEF IndexInv
  <2>11. ASSUME NEW k \in Keys, NEW d \in saved'[k]
         PROVE  d \in saved[k] \/ (begun[k] # {} /\ CursorOK(d, k, listed', KnownIn(ath'), begun))
    <3>1. CASE k = r.key
      <4>1. d = c BY <1>4, <1>7, <3>1 DEF IndexInv
      <4> QED BY <1>1, <1>3, <2>2, <3>1, <4>1
    <3>2. CASE k # r.key BY <1>7, <3>2 DEF IndexInv
    <3> QED BY <3>1, <3>2
  <2>12. /\ clock' \in Nat /\ clock <= clock' /\ listed' = listed /\ tracked' = tracked
         /\ listed \subseteq Tokens /\ tracked \subseteq Launches
         /\ ath' \in [Tokens -> SUBSET Observation] /\ KnownIn(ath') = KnownIn(ath)
         /\ \A t \in Tokens : \A o \in ath'[t] : o.at <= clock' /\ NotLater(t, o, begun)
    BY <1>1, <1>2 DEF IndexInv
  <2> QED BY <1>1, <2>9, <2>10, <2>11, <2>12, StepKeeps
<1> QED BY <1>6, <1>7 DEF Save

LEMMA StutterKeeps == ASSUME IndexInv, UNCHANGED vars PROVE IndexInv'
BY DEF vars, IndexInv

LEMMA IndexInvStep == IndexInv /\ [Next]_vars => IndexInv'
<1> SUFFICES ASSUME IndexInv, [Next]_vars PROVE IndexInv' OBVIOUS
<1>1. CASE Tick \/ \E t \in Tokens : Appear(t) \/ Track(t) \/ Fallback(t) BY <1>1, WorldSteps
<1>2. ASSUME NEW p \in Processes, Step(p) PROVE IndexInv'
  BY <1>2, LoadCandidatesKeeps, LoadCursorKeeps, ReserveKeeps, AnswerPageKeeps,
     AnswerBatchKeeps, UpsertKeeps, SaveKeeps DEF Step
<1>3. ASSUME NEW p \in Processes, RequestFails(p) \/ Crash(p) PROVE IndexInv'
  BY <1>3, RequestFailsKeeps
<1>4. ASSUME NEW p \in Processes, NEW kind \in scenario.work[p], Start(p, kind) PROVE IndexInv'
  BY <1>4, StartKeeps
<1>5. CASE UNCHANGED vars BY <1>5, StutterKeeps
<1> QED BY <1>1, <1>2, <1>3, <1>4, <1>5 DEF Next

\* The bounds of a key's whole interval are integers.
LEMMA WholeType ==
  ASSUME NEW k \in Keys
  PROVE  Whole(k)[1].start \in Int /\ Whole(k)[1].end \in Int
<1>1. k \in Nat /\ Days \in Nat /\ DayLength \in Nat BY ConstantsAssumption DEF Keys
<1>2. \A m \in Nat : m * DayLength \in Nat BY <1>1
<1>3. CASE k = 0
  <2>1. (Days + 1) * DayLength \in Int BY <1>1, <1>2
  <2> DEFINE e == (Days + 1) * DayLength
  <2>2. Whole(k) = << [start |-> 0, end |-> e, offset |-> 0] >> BY <1>3 DEF Whole
  <2> HIDE DEF e
  <2> QED BY <2>1, <2>2 DEF e
<1>4. CASE k # 0
  <2>1. k * DayLength \in Int /\ (k + 1) * DayLength \in Int BY <1>1, <1>2
  <2> DEFINE a == k * DayLength
             e == (k + 1) * DayLength
  <2>2. Whole(k) = << [start |-> a, end |-> e, offset |-> 0] >> BY <1>4 DEF Whole
  <2> HIDE DEF a, e
  <2> QED BY <2>1, <2>2 DEF a, e
<1> QED BY <1>3, <1>4

LEMMA IndexInvCovers == IndexInv => CompleteIsCovered
<1> SUFFICES ASSUME IndexInv, NEW k \in Keys, << >> \in saved[k],
                    NEW b \in begun[k], NEW t \in b.owed,
                    Created[t] \in Whole(k)[1].start .. Whole(k)[1].end - 1
             PROVE  Known(t)
  BY DEF CompleteIsCovered
<1>1. t \in Tokens BY DEF IndexInv, BegunOK
<1>2. PICK j \in 1..Len(Order) : t = Order[j] BY <1>1 DEF Tokens
<1>3. Within(Whole(k)[1], j) BY <1>2, WholeType, Places DEF Within
<1>4. j \in Owed(begun, k) BY <1>2, <1>3 DEF Owed
<1>5. Order[j] \in KnownIn(ath) \/ Covers(listed, << >>, j) BY <1>4 DEF IndexInv, CursorOK
<1>6. ~Covers(listed, << >>, j) BY DEF Covers
<1> QED BY <1>2, <1>5, <1>6 DEF KnownIn, Known

(***************************************************************************)
(* An enumeration that says it is complete has stored a known row of every *)
(* token that was tracked and listed when the first pass over it started,  *)
(* for any index and any number of passes and crashes (ath.rs, the loops   *)
(* of backfill_base_ath_from_index_at and                                  *)
(* backfill_runner_ath_from_index_at).                                     *)
(***************************************************************************)
THEOREM CompleteIsRight == Spec => []CompleteIsCovered
<1>1. Init => IndexInv BY IndexInvInit
<1>2. IndexInv /\ [Next]_vars => IndexInv' BY IndexInvStep
<1>3. IndexInv => CompleteIsCovered BY IndexInvCovers
<1> QED BY <1>1, <1>2, <1>3, PTL DEF Spec
=============================================================================
