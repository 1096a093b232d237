----------------------------- MODULE TrackerAth -----------------------------
(***************************************************************************)
(* The Solana Tracker observations of dev-tracker: an explicit pass        *)
(* (bins/dev-tracker/src/solana_tracker_backfill.rs) asks the provider for *)
(* every token that has no observation yet.  Each request is first         *)
(* reserved from the month's allocation (reserve_provider_request_budget   *)
(* of crates/scout-devdb/src/lib.rs), the answer's bytes are archived in a *)
(* file named by their hash, and then the observation is saved.  Passes    *)
(* run beside each other and are invoked again after a failure.            *)
(*                                                                         *)
(* An answer is told apart by its bytes.  The clock is a step to the next  *)
(* month; a pass that runs over it still charges the month it began in.    *)
(***************************************************************************)
EXTENDS Integers, FiniteSets

CONSTANTS
  Mints,       \* the tokens are 1..Mints, in the order of a pass
  Bodies,
  Plans,       \* limit and prior usage of an invocation
  Invocations,
  MaxFaults    \* bound: failed steps and useless answers

VARIABLES
  row,      \* the month's row: the set of it
  sent,     \* history: requests sent on the month's account
  archive,  \* the file of each token and body: "none", "torn" or "whole"
  kept,     \* the observation of each token: the set of its body
  pass,
  faults

vars == <<row, sent, archive, kept, pass, faults>>

Idle == [pc |-> "idle", at |-> 1, body |-> {}, plan |-> {}, asked |-> FALSE, old |-> FALSE]

Init ==
  /\ row = {} /\ sent = 0
  /\ archive = [f \in (1..Mints) \X Bodies |-> "none"]
  /\ kept = [t \in 1..Mints |-> {}]
  /\ pass = [i \in Invocations |-> Idle]
  /\ faults = 0

Fault == faults < MaxFaults /\ faults' = faults + 1

File(i) == CHOOSE f \in DOMAIN archive : f[1] = pass[i].at /\ {f[2]} = pass[i].body

Begin(i, plan) ==
  /\ pass[i].pc = "idle"
  /\ plan.prior < plan.limit
  /\ pass' = [pass EXCEPT ![i] = [Idle EXCEPT !.pc = "check", !.plan = {plan}]]
  /\ UNCHANGED <<row, sent, archive, kept, faults>>

\* The next token: a saved one is skipped, and the pass ends with the last
\* one, or with its own bound, any positive number of requests.
Check(i) ==
  LET p == pass[i]
      skipped == p.at <= Mints /\ kept[p.at] # {}
  IN  /\ p.pc = "check"
      /\ \/ skipped /\ pass' = [pass EXCEPT ![i].at = p.at + 1]
         \/ ~skipped /\ (p.at > Mints \/ p.asked) /\ pass' = [pass EXCEPT ![i] = Idle]
         \/ ~skipped /\ p.at <= Mints /\ pass' = [pass EXCEPT ![i].pc = "reserve"]
      /\ UNCHANGED <<row, sent, archive, kept, faults>>

\* Mutated form of Mismatch: the settings of an invocation are its own.
MismatchNever(saved, plan) == FALSE

Mismatch(saved, plan) == saved.limit # plan.limit \/ saved.prior # plan.prior

\* reserve_provider_request_budget, one transaction: the row of the month is
\* made by the first, and no other settings are accepted for it.  The row of
\* an earlier month is not followed.
Reserve(i) ==
  LET p == pass[i]
      granted == [pass EXCEPT ![i].pc = "send", ![i].asked = TRUE]
      ended == [pass EXCEPT ![i] = Idle]
      current(plan) == IF row = {} THEN {[limit |-> plan.limit, prior |-> plan.prior, reserved |-> 0]}
                       ELSE row
  IN  /\ p.pc = "reserve"
      /\ \/ p.old /\ pass' \in {granted, ended} /\ UNCHANGED row
         \/ /\ ~p.old
            /\ \E plan \in p.plan : \E b \in current(plan) :
                 IF Mismatch(b, plan) THEN pass' = ended /\ UNCHANGED row
                 ELSE IF plan.prior + b.reserved >= plan.limit THEN pass' = ended /\ row' = {b}
                 ELSE pass' = granted /\ row' = {[b EXCEPT !.reserved = b.reserved + 1]}
      /\ UNCHANGED <<sent, archive, kept, faults>>

\* The request, and an answer.
Fetch(i) ==
  /\ pass[i].pc = "send"
  /\ sent' = IF pass[i].old THEN sent ELSE sent + 1
  /\ \E b \in Bodies : pass' = [pass EXCEPT ![i].pc = "archive", ![i].body = {b}]
  /\ UNCHANGED <<row, archive, kept, faults>>

\* Mutated form of Archived: a file of that name is enough.
ArchivedByName(content) == content # "none"

\* Mutated form of Archived: no file may have that name.
ArchivedNever(content) == FALSE

\* The file exists and holds the answer's bytes.
Archived(content) == content = "whole"

\* archive_response: a new file is created, or the existing one compared.
Archive(i) ==
  LET f == File(i)
  IN  /\ pass[i].pc = "archive"
      /\ \/ /\ archive[f] = "none"
            /\ archive' = [archive EXCEPT ![f] = "torn"]
            /\ pass' = [pass EXCEPT ![i].pc = "write"]
         \/ /\ archive[f] # "none"
            /\ pass' = IF Archived(archive[f]) THEN [pass EXCEPT ![i].pc = "save"]
                       ELSE [pass EXCEPT ![i] = Idle]
            /\ UNCHANGED archive
      /\ UNCHANGED <<row, sent, kept, faults>>

Write(i) ==
  /\ pass[i].pc = "write"
  /\ archive' = [archive EXCEPT ![File(i)] = "whole"]
  /\ pass' = [pass EXCEPT ![i].pc = "save"]
  /\ UNCHANGED <<row, sent, kept, faults>>

\* upsert_ath_price_observation: of two passes, the later answer stays.
Save(i) ==
  LET t == pass[i].at
  IN  /\ pass[i].pc = "save"
      /\ kept' \in {[kept EXCEPT ![t] = pass[i].body]}
                     \cup (IF kept[t] = {} THEN {} ELSE {kept})
      /\ pass' = [pass EXCEPT ![i].pc = "check", ![i].at = t + 1, ![i].body = {}]
      /\ UNCHANGED <<row, sent, archive, faults>>

\* A request that fails, or an answer that is not archived or not valid: the
\* next token follows.
Skip(i) ==
  /\ pass[i].pc \in {"send", "save"}
  /\ Fault
  /\ sent' = IF pass[i].pc = "send" /\ ~pass[i].old THEN sent + 1 ELSE sent
  /\ pass' = [pass EXCEPT ![i].pc = "check", ![i].at = pass[i].at + 1, ![i].body = {}]
  /\ UNCHANGED <<row, archive, kept>>

\* The pass ends anywhere: a query or a file operation fails, the provider
\* denies access, or the process is killed.  A request may have been sent.
End(i) ==
  /\ pass[i].pc # "idle"
  /\ Fault
  /\ sent' \in IF pass[i].pc = "send" /\ ~pass[i].old THEN {sent, sent + 1} ELSE {sent}
  /\ pass' = [pass EXCEPT ![i] = Idle]
  /\ UNCHANGED <<row, archive, kept>>

NewMonth ==
  /\ row # {}
  /\ row' = {} /\ sent' = 0
  /\ pass' = [i \in Invocations |->
       IF pass[i].pc = "idle" THEN pass[i] ELSE [pass[i] EXCEPT !.old = TRUE]]
  /\ UNCHANGED <<archive, kept, faults>>

Step(i) == Check(i) \/ Reserve(i) \/ Fetch(i) \/ Archive(i) \/ Write(i) \/ Save(i)

Next ==
  \/ NewMonth
  \/ \E i \in Invocations :
       Step(i) \/ Skip(i) \/ End(i) \/ \E plan \in Plans : Begin(i, plan)

Spec == Init /\ [][Next]_vars

\* An invocation with the settings the month's row holds, if there is one.
BeginAgain(i) == \E plan \in Plans : Begin(i, plan) /\ \A b \in row : ~Mismatch(b, plan)

----------------------------------------------------------------------------
PassType ==
  [pc : {"idle", "check", "reserve", "send", "archive", "write", "save"}, at : Nat \ {0},
   body : SUBSET Bodies, plan : SUBSET Plans, asked : BOOLEAN, old : BOOLEAN]

TypeOK ==
  /\ row \subseteq [limit : Nat, prior : Nat, reserved : Nat]
  /\ sent \in Nat
  /\ archive \in [(1..Mints) \X Bodies -> {"none", "torn", "whole"}]
  /\ kept \in [1..Mints -> SUBSET Bodies]
  /\ pass \in [Invocations -> PassType]
  /\ faults \in Nat

(***************************************************************************)
(* The month's allocation is kept, however many invocations with whatever  *)
(* settings reserve from it at the same time and end between reserving and *)
(* sending: the settings that count are those of the month's first one.    *)
(***************************************************************************)
AllocationKept == \A b \in row : b.prior + sent <= b.limit

\* A saved observation has its evidence: the file its hash names is whole.
EvidenceKept == \A t \in 1..Mints : \A b \in kept[t] : archive[<<t, b>>] = "whole"

\* A file whose write was cut off and that no pass is writing any more.
Torn ==
  \E f \in DOMAIN archive :
    /\ archive[f] = "torn"
    /\ \A i \in Invocations : ~(pass[i].pc = "write" /\ File(i) = f)

(***************************************************************************)
(* Passes resume: in the end every token has its observation, unless the   *)
(* write of an answer was cut off.  Such a file is never written again: as *)
(* long as the answer is the same, every pass pays for a request and ends  *)
(* at that token.                                                          *)
(***************************************************************************)
Resumes == <>[]((\A t \in 1..Mints : kept[t] # {}) \/ Torn)
=============================================================================
