------------------------------ MODULE Watchdog ------------------------------
(***************************************************************************)
(* The progress watchdog of the dev-tracker daemon                         *)
(* (bins/dev-tracker/src/main.rs).  The cycle marks its progress at its    *)
(* start and whenever a pass ends; the beat task wakes once a minute and   *)
(* compares the time since the last mark with the stall threshold: beyond  *)
(* it, it raises one alert and stops pinging the external monitor.  The    *)
(* two tasks share three atomics and nothing else.                         *)
(*                                                                         *)
(* One unit of time is the period of the beat.  Deadlines are kept as the  *)
(* time left to them and the last mark as its age.  A timer fires before   *)
(* time goes on; an await takes any time.                                  *)
(***************************************************************************)
EXTENDS Integers, FiniteSetsExt

CONSTANTS
  Configs,   \* the timing settings the configuration file takes
  Slack,     \* the 15 minutes stall_after adds to the longest cadence
  MaxMissed, \* bound: ticks of the beat's interval that wait for it
  Cap        \* bound: ages are counted up to this

VARIABLES
  pc,        \* the await of the cycle, or "down"
  s,         \* the settings of the cycle; stall_secs follows from them
  left,      \* the time left to next_ingest, next_derive and next_ath
  wake,      \* the time left of the sleep between two cycles
  idle,      \* the age of the last mark
  due,       \* ticks of the beat's interval not taken yet
  beat,      \* the beat task: its await, what it read, and when
  alerted,   \* stalled_alerted
  disturbed  \* history: this run gave a reason for a false alarm

vars == <<pc, s, left, wake, idle, due, beat, alerted, disturbed>>

Up(n) == IF n < Cap THEN n + 1 ELSE n
Down(n) == IF n > 0 THEN n - 1 ELSE 0

Resting == [pc |-> "wait", idle |-> 0, stalled |-> FALSE, age |-> 0]

Init ==
  /\ pc = "down"
  /\ s = (CHOOSE c \in Configs : TRUE)
  /\ left = [ingest |-> 0, derive |-> 0, ath |-> 0]
  /\ wake = 0 /\ idle = 0 /\ due = 0
  /\ beat = Resting
  /\ alerted = FALSE
  /\ disturbed = FALSE

\* Mutated form of StallAfter: the cadences do not count.
StallAfterSetting(c) == c.stall

\* stall_after: never shorter than the longest cadence and the slack.
StallAfter(c) == Max({c.stall, Max({c.ingest, c.derive}) + Slack})

\* next_wake_seconds: the next deadline, at least one second away.
NextWake(l) == Max({1, Min({l.ingest, l.derive} \cup (IF s.athOn THEN {l.ath} ELSE {}))})

----------------------------------------------------------------------------
\* The process starts: everything is due, and the beat ticks at once.
Start ==
  /\ pc = "down"
  /\ pc' = "top"
  /\ s' \in Configs
  /\ left' = [ingest |-> 0, derive |-> 0, ath |-> 0]
  /\ wake' = 0 /\ idle' = 0 /\ due' = 1
  /\ beat' = Resting
  /\ alerted' = FALSE
  /\ disturbed' = FALSE

\* A stop request or a crash ends both tasks, whatever they wait for.
Stop ==
  /\ pc # "down"
  /\ pc' = "down"
  /\ due' = 0 /\ beat' = Resting
  /\ UNCHANGED <<s, left, wake, idle, alerted, disturbed>>

\* A minute passes: no timer is due and no step without an await is open.
Tick ==
  /\ pc \notin {"down", "top", "mark", "plan"}
  /\ ~(pc = "sleep" /\ wake = 0)
  /\ ~(beat.pc = "wait" /\ due > 0) /\ beat.pc # "read"
  /\ left' = [ingest |-> Down(left.ingest), derive |-> Down(left.derive), ath |-> Down(left.ath)]
  /\ wake' = Down(wake)
  /\ idle' = Up(idle)
  /\ due' = Min({due + 1, MaxMissed})
  /\ beat' = [beat EXCEPT !.age = IF beat.pc = "wait" THEN 0 ELSE Up(beat.age)]
  /\ disturbed' = (disturbed \/ (pc # "sleep" /\ idle + 1 > Slack))
  /\ UNCHANGED <<pc, s, alerted>>

----------------------------------------------------------------------------
\* The cycle reloads the configuration and stores the threshold, then marks.
Reload ==
  /\ pc = "top"
  /\ s' \in Configs
  /\ pc' = "mark"
  /\ disturbed' = (disturbed \/ idle > StallAfter(s'))
  /\ UNCHANGED <<left, wake, idle, due, beat, alerted>>

AfterAth(l) == IF l.derive = 0 THEN "derive" ELSE "plan"
AfterIngest(l) == IF s.athOn /\ l.ath = 0 THEN "ath" ELSE AfterAth(l)

Mark(next) ==
  /\ idle' = 0
  /\ pc' = next
  /\ UNCHANGED <<s, wake, due, beat, alerted, disturbed>>

Begin == pc = "mark" /\ Mark(IF left.ingest = 0 THEN "ingest" ELSE AfterIngest(left)) /\ UNCHANGED left

\* A chain was ingested; what follows is its incident.
IngestChain == pc = "ingest" /\ Mark("ingested") /\ UNCHANGED left

Ingested ==
  /\ pc = "ingested"
  /\ \/ pc' = "ingest" /\ UNCHANGED left
     \/ left' = [left EXCEPT !.ingest = s.ingest] /\ pc' = AfterIngest(left')
  /\ UNCHANGED <<s, wake, idle, due, beat, alerted, disturbed>>

\* The ATH pass of a chain, its incident included.
AthChain ==
  /\ pc = "ath"
  /\ \/ Mark("ath") /\ UNCHANGED left
     \/ left' = [left EXCEPT !.ath = s.ath] /\ Mark(AfterAth(left))

\* The derivation ends; the export follows unless it failed.
Derive == pc = "derive" /\ (Mark("export") \/ Mark("exported")) /\ UNCHANGED left

Export == pc = "export" /\ Mark("exported") /\ UNCHANGED left

Exported ==
  /\ pc = "exported"
  /\ left' = [left EXCEPT !.derive = s.derive]
  /\ pc' = "plan"
  /\ UNCHANGED <<s, wake, idle, due, beat, alerted, disturbed>>

\* The sleep: a wait that no cadence of the settings covers is a disturbance.
Sleep ==
  /\ pc = "plan"
  /\ pc' = "sleep"
  /\ wake' = NextWake(left)
  /\ disturbed' = (disturbed \/ (left.ingest > s.ingest /\ left.derive > s.derive))
  /\ UNCHANGED <<s, left, idle, due, beat, alerted>>

WakeUp ==
  /\ pc = "sleep" /\ wake = 0
  /\ pc' = "top"
  /\ UNCHANGED <<s, left, wake, idle, due, beat, alerted, disturbed>>

\* The steps of the cycle that wait for nothing but the clock.
Prompt == Reload \/ Begin \/ Sleep \/ WakeUp

Cycle == Prompt \/ IngestChain \/ Ingested \/ AthChain \/ Derive \/ Export \/ Exported

----------------------------------------------------------------------------
\* The beat reads the last mark ...
BeatRead ==
  /\ pc # "down"
  /\ beat.pc = "wait" /\ due > 0
  /\ due' = due - 1
  /\ beat' = [beat EXCEPT !.pc = "read", !.idle = idle, !.age = 0]
  /\ UNCHANGED <<pc, s, left, wake, idle, alerted, disturbed>>

Stalled(age) == age > StallAfter(s)

\* Mutated form of BeatDecide: what was alerted is not remembered.
BeatDecideForgets ==
  /\ beat.pc = "read"
  /\ beat' = [beat EXCEPT !.pc = IF Stalled(beat.idle) # alerted THEN "send" ELSE "db",
                          !.stalled = Stalled(beat.idle)]
  /\ UNCHANGED <<pc, s, left, wake, idle, due, alerted, disturbed>>

\* ... then the threshold, and tells the chat when the answer is new.
BeatDecide ==
  /\ beat.pc = "read"
  /\ beat' = [beat EXCEPT !.pc = IF Stalled(beat.idle) # alerted THEN "send" ELSE "db",
                          !.stalled = Stalled(beat.idle)]
  /\ alerted' = Stalled(beat.idle)
  /\ UNCHANGED <<pc, s, left, wake, idle, due, disturbed>>

\* The message is sent, or is not: the beat goes on.
BeatSent ==
  /\ beat.pc = "send"
  /\ beat' = [beat EXCEPT !.pc = "db"]
  /\ UNCHANGED <<pc, s, left, wake, idle, due, alerted, disturbed>>

\* Mutated form of MayPing: the ping follows the database alone.
MayPingAlways == TRUE

MayPing == ~beat.stalled

\* daemon_beat; only its success, and progress, lead to a ping.
DaemonBeat ==
  /\ beat.pc = "db"
  /\ \/ MayPing /\ beat' = [beat EXCEPT !.pc = "ping"]
     \/ beat' = Resting
  /\ UNCHANGED <<pc, s, left, wake, idle, due, alerted, disturbed>>

\* The ping is answered, refused or times out.
Ping ==
  /\ beat.pc = "ping"
  /\ beat' = Resting
  /\ UNCHANGED <<pc, s, left, wake, idle, due, alerted, disturbed>>

Beat == BeatRead \/ BeatDecide \/ BeatSent \/ DaemonBeat \/ Ping

Next == Start \/ Stop \/ Tick \/ Cycle \/ Beat

Spec == Init /\ [][Next]_vars

----------------------------------------------------------------------------
TypeOK ==
  /\ pc \in {"down", "top", "mark", "ingest", "ingested", "ath", "derive",
             "export", "exported", "plan", "sleep"}
  /\ s \in Configs
  /\ left \in [ingest : Nat, derive : Nat, ath : Nat]
  /\ wake \in Nat
  /\ idle \in 0..Cap
  /\ due \in 0..MaxMissed
  /\ beat \in [pc : {"wait", "read", "send", "db", "ping"}, idle : 0..Cap,
               stalled : BOOLEAN, age : 0..Cap]
  /\ alerted \in BOOLEAN
  /\ disturbed \in BOOLEAN

(***************************************************************************)
(* "An idle wait is not a stall": no "stuck" alert while every step ends   *)
(* within the slack, however long the cadences are, however they are       *)
(* edited and wherever the beat falls between the cycle's stores.  Two     *)
(* cases are out of it, where the code does alert: an edit that lowers the *)
(* threshold below the age of the last mark as the beat reads both, and    *)
(* one that lowers it below deadlines set before.                          *)
(***************************************************************************)
NoFalseAlarm == ~disturbed => ~alerted

(***************************************************************************)
(* The external monitor is pinged only while the work goes on: whatever    *)
(* the cycle did since the beat read its mark, the last finished step is   *)
(* older than the threshold by no more than the beat itself took.          *)
(***************************************************************************)
PingFresh == beat.pc = "ping" /\ pc # "mark" => idle <= StallAfter(s) + beat.age

\* A cycle that stays stuck is alerted.
StuckIsAlerted == <>[](pc # "down" /\ idle > StallAfter(s)) => <>[]alerted
=============================================================================
