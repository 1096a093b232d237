---------------------------- MODULE DaemonAlerts ----------------------------
(***************************************************************************)
(* The alerts of the dev-tracker daemon (bins/dev-tracker/src/main.rs) and *)
(* the rows they rest on (incidents and daemon_state of                    *)
(* crates/scout-devdb/src/lib.rs).  A key is what a pass succeeds or fails *)
(* at: a chain, a provider, the derivation, the export.  The cycle runs    *)
(* one pass after the other; a stop request cancels it at any await, and a *)
(* crash ends the process.  Only the database outlives the process.        *)
(*                                                                         *)
(* Time is kept as the age of an incident, up to the alert's threshold.    *)
(***************************************************************************)
EXTENDS Integers

CONSTANTS
  Keys,       \* the incident keys
  Doomed,     \* the keys whose passes never succeed
  After,      \* alerts.after_minutes
  Settings,   \* the values alerts.enabled takes in the configuration
  MaxPasses,  \* bound: recoveries, which open a new incident
  MaxFaults   \* bound: crashes, stops, failed sends and failed queries

VARIABLES
  daemon,     \* "down", "starting", "running" or "stopping"
  step,       \* the await of failed() or ok() the cycle is in, and its key
  incident,   \* the row of each key: the set of its value
  state,      \* the daemon_state row: the set of its clean_stop
  enabled,    \* alerts.enabled, read from the configuration every cycle
  previous,   \* what daemon_started returned
  faults,     \* faults so far
  recoveries, \* recoveries so far
  reds,       \* history: alerts delivered for the open incident of each key
  cut,        \* history: alerts of it whose marking was cut off or failed
  owed,       \* history: incidents of each key resolved after an alert
  greens,     \* history: recoveries delivered
  lastEnd,    \* history: how the previous run ended
  began       \* history: whether the run's start was recorded

history == <<reds, cut, owed, greens, lastEnd, began>>
vars == <<daemon, step, incident, state, enabled, previous, faults, recoveries,
          reds, cut, owed, greens, lastEnd, began>>

Idle == [pc |-> "idle", key |-> {}]

Init ==
  /\ daemon = "down"
  /\ step = Idle
  /\ incident = [k \in Keys |-> {}]
  /\ state = {}
  /\ enabled = (CHOOSE e \in Settings : TRUE)
  /\ previous = {}
  /\ faults = 0
  /\ recoveries = 0
  /\ reds = [k \in Keys |-> 0]
  /\ cut = [k \in Keys |-> 0]
  /\ owed = [k \in Keys |-> 0]
  /\ greens = [k \in Keys |-> 0]
  /\ lastEnd = "none"
  /\ began = "recorded"

Fault == faults < MaxFaults /\ faults' = faults + 1

----------------------------------------------------------------------------
\* Mutated form of DaemonStarted: the row of a clean stop is kept.
DaemonStartedKeepsRow == IF state = {} THEN {"unclean"} ELSE state

\* daemon_started leaves the row of a run that has not stopped.
DaemonStarted == {"unclean"}

\* The daemon starts: it reads the configuration and what the last run left.
Start ==
  /\ daemon = "down"
  /\ enabled' \in Settings
  /\ \/ /\ daemon' = "starting"
        /\ previous' = state
        /\ state' = DaemonStarted
        /\ began' = "recorded"
        /\ UNCHANGED faults
     \/ /\ Fault
        /\ daemon' = "running"
        /\ began' = "unrecorded"
        /\ UNCHANGED <<previous, state>>
  /\ UNCHANGED <<step, incident, recoveries, reds, cut, owed, greens, lastEnd>>

\* The notice is sent: a restart after an unclean stop, or a plain start.
StartNotice ==
  /\ daemon = "starting"
  /\ daemon' = "running"
  /\ UNCHANGED <<step, incident, state, enabled, previous, faults, recoveries, history>>

\* The configuration is read again before every cycle.
Reload ==
  /\ daemon = "running" /\ step = Idle
  /\ enabled' \in Settings
  /\ UNCHANGED <<daemon, step, incident, state, previous, faults, recoveries, history>>

----------------------------------------------------------------------------
\* An open incident gets older.
Tick(k) ==
  /\ \E i \in incident[k] :
       /\ i.age < After
       /\ incident' = [incident EXCEPT ![k] = {[i EXCEPT !.age = i.age + 1]}]
  /\ UNCHANGED <<daemon, step, state, enabled, previous, faults, recoveries, history>>

\* Mutated form of RecordFailure: first_failed_at is updated too.
RecordFailureRestarts(k) ==
  IF incident[k] = {} THEN {[age |-> 0, alerted |-> "no"]}
  ELSE {[i EXCEPT !.age = 0] : i \in incident[k]}

\* record_failure opens the incident, or keeps it and its alerted_at.
RecordFailure(k) == IF incident[k] = {} THEN {[age |-> 0, alerted |-> "no"]} ELSE incident[k]

\* Mutated form of Due: an incident is alerted at every failing pass.
DueAlways(i) == i.age >= After

Due(i) == i.alerted = "no" /\ i.age >= After

\* A pass of key k failed: failed() up to its first message.
Failed(k) ==
  /\ daemon = "running" /\ step = Idle
  /\ \/ /\ incident' = [incident EXCEPT ![k] = RecordFailure(k)]
        /\ step' = IF \E i \in RecordFailure(k) : Due(i)
                   THEN [pc |-> "red", key |-> {k}] ELSE Idle
        /\ UNCHANGED faults
     \/ Fault /\ UNCHANGED <<incident, step>>
  /\ UNCHANGED <<daemon, state, enabled, previous, recoveries, history>>

\* send: Telegram's errors are printed and dropped.
SendRed(k) ==
  /\ daemon = "running" /\ step = [pc |-> "red", key |-> {k}]
  /\ step' = [step EXCEPT !.pc = "mark"]
  /\ \/ /\ reds' = [reds EXCEPT ![k] = @ + (IF enabled THEN 1 ELSE 0)]
        /\ UNCHANGED faults
     \/ /\ enabled
        /\ Fault /\ UNCHANGED reds
  /\ UNCHANGED <<daemon, incident, state, enabled, previous, recoveries,
                 cut, owed, greens, lastEnd, began>>

\* mark_alerted.
MarkAlerted(k) ==
  /\ daemon = "running" /\ step = [pc |-> "mark", key |-> {k}]
  /\ step' = Idle
  /\ \/ /\ incident' = [incident EXCEPT ![k] = {[i EXCEPT !.alerted = "yes"] : i \in incident[k]}]
        /\ UNCHANGED <<faults, cut>>
     \/ /\ Fault
        /\ cut' = [cut EXCEPT ![k] = @ + 1]
        /\ UNCHANGED incident
  /\ UNCHANGED <<daemon, state, enabled, previous, recoveries,
                 reds, owed, greens, lastEnd, began>>

\* The history of an incident ends with it.
Close(k) ==
  /\ owed' = [owed EXCEPT ![k] = @ + (IF \E i \in incident[k] : i.alerted = "yes" THEN 1 ELSE 0)]
  /\ reds' = [reds EXCEPT ![k] = 0]
  /\ cut' = [cut EXCEPT ![k] = 0]

\* A pass of key k succeeded: resolve_incident deletes the row, and its
\* recovery is reported when it was alerted.
Ok(k) ==
  /\ daemon = "running" /\ step = Idle
  /\ k \notin Doomed
  /\ incident[k] # {}
  /\ \/ /\ recoveries < MaxPasses /\ recoveries' = recoveries + 1
        /\ incident' = [incident EXCEPT ![k] = {}]
        /\ step' = IF \E i \in incident[k] : i.alerted = "yes"
                   THEN [pc |-> "green", key |-> {k}] ELSE Idle
        /\ Close(k)
        /\ UNCHANGED faults
     \/ Fault /\ UNCHANGED <<incident, step, recoveries, reds, cut, owed>>
  /\ UNCHANGED <<daemon, state, enabled, previous, greens, lastEnd, began>>

SendGreen(k) ==
  /\ daemon = "running" /\ step = [pc |-> "green", key |-> {k}]
  /\ step' = Idle
  /\ \/ /\ greens' = [greens EXCEPT ![k] = @ + (IF enabled THEN 1 ELSE 0)]
        /\ UNCHANGED faults
     \/ /\ enabled
        /\ Fault /\ UNCHANGED greens
  /\ UNCHANGED <<daemon, incident, state, enabled, previous, recoveries,
                 reds, cut, owed, lastEnd, began>>

----------------------------------------------------------------------------
\* The cycle is dropped at whatever await it is in.
Drop ==
  /\ step' = Idle
  /\ cut' = IF step.pc = "mark" THEN [k \in Keys |-> cut[k] + (IF k \in step.key THEN 1 ELSE 0)]
            ELSE cut

\* How a run ends whose stop is not recorded.
CutOff == IF began = "recorded" THEN "unclean" ELSE "unknown"

\* A stop request interrupts the cycle or the sleep after it.
Shutdown ==
  /\ daemon = "running"
  /\ Fault
  /\ daemon' = "stopping"
  /\ Drop
  /\ UNCHANGED <<incident, state, enabled, previous, recoveries,
                 reds, owed, greens, lastEnd, began>>

\* daemon_stopped, which may fail; the process ends.
Stopped ==
  /\ daemon = "stopping"
  /\ daemon' = "down"
  /\ \/ /\ state' = {"clean" : s \in state}
        /\ lastEnd' = "stopped"
        /\ UNCHANGED faults
     \/ /\ Fault
        /\ lastEnd' = CutOff
        /\ UNCHANGED state
  /\ UNCHANGED <<step, incident, enabled, previous, recoveries,
                 reds, cut, owed, greens, began>>

Crash ==
  /\ daemon # "down"
  /\ Fault
  /\ daemon' = "down"
  /\ lastEnd' = CutOff
  /\ Drop
  /\ UNCHANGED <<incident, state, enabled, previous, recoveries, reds, owed, greens, began>>

Alert(k) == Failed(k) \/ SendRed(k) \/ MarkAlerted(k) \/ SendGreen(k)

Next ==
  \/ Start \/ StartNotice \/ Reload \/ Shutdown \/ Stopped \/ Crash
  \/ \E k \in Keys : Tick(k) \/ Ok(k) \/ Alert(k)

Spec == Init /\ [][Next]_vars

----------------------------------------------------------------------------
TypeOK ==
  /\ daemon \in {"down", "starting", "running", "stopping"}
  /\ step \in [pc : {"idle", "red", "mark", "green"}, key : SUBSET Keys]
  /\ incident \in [Keys -> SUBSET [age : 0..After, alerted : {"yes", "no"}]]
  /\ \A k \in Keys : \A i, j \in incident[k] : i = j
  /\ state \in SUBSET {"clean", "unclean"}
  /\ enabled \in BOOLEAN
  /\ previous \in SUBSET {"clean", "unclean"}
  /\ faults \in 0..MaxFaults /\ recoveries \in 0..MaxPasses
  /\ reds \in [Keys -> Nat] /\ cut \in [Keys -> Nat]
  /\ owed \in [Keys -> Nat] /\ greens \in [Keys -> Nat]
  /\ lastEnd \in {"none", "stopped", "unclean", "unknown"}
  /\ began \in {"recorded", "unrecorded"}

(***************************************************************************)
(* An incident is alerted again only when marking the last alert was cut   *)
(* off by a stop or a crash or failed, never at every failing pass; and a  *)
(* recovery is reported at most once for an incident that was alerted.     *)
(***************************************************************************)
AlertsBounded == \A k \in Keys : reds[k] <= 1 + cut[k] /\ greens[k] <= owed[k]

(***************************************************************************)
(* The start notice tells how the previous run ended, however runs stop,   *)
(* crash and start again: it reports an unclean stop when that run's start *)
(* was recorded and its stop was not, and never after a recorded stop.     *)
(***************************************************************************)
NoticeHonest ==
  daemon = "starting" =>
    /\ lastEnd = "unclean" => "unclean" \in previous
    /\ lastEnd \in {"none", "stopped"} => "unclean" \notin previous

\* The alert of a key that never succeeds is attempted in the end, across
\* restarts: its incident keeps its age.
DoomedIsAlerted == \A k \in Doomed : <>(\E i \in incident[k] : i.alerted = "yes")
=============================================================================
