------------------------------- MODULE Daemon -------------------------------
(***************************************************************************)
(* The dev-tracker daemon: its alerts (DaemonAlerts), the delivery of its  *)
(* lists (ListDelivery) and its watchdog (Watchdog).  The three belong to  *)
(* one process and share no variable of it: the alerts rest on rows the    *)
(* delivery never touches, and the watchdog sees of the cycle only its     *)
(* marks.  Each has its own stops and restarts, so a behaviour follows one *)
(* part of the process, and the others rest.                               *)
(***************************************************************************)
EXTENDS Integers

CONSTANTS
  Keys, Doomed, After, Settings, MaxPasses,
  Lists, Formats, Contents, Empty, MaxChanges,
  Configs, Slack, MaxMissed, Cap,
  MaxFaults

ASSUME AlertsAssumption ==
  /\ Doomed \subseteq Keys
  /\ Settings \subseteq BOOLEAN
  /\ After \in Nat /\ MaxPasses \in Nat /\ MaxFaults \in Nat

ASSUME ListsAssumption ==
  /\ Empty \in Contents
  /\ "none" \notin Contents
  /\ MaxChanges \in Nat

ASSUME WatchdogAssumption ==
  /\ Configs # {}
  /\ \A c \in Configs :
       /\ {c.ingest, c.derive, c.ath} \subseteq Nat \ {0}
       /\ c.stall \in Nat /\ c.athOn \in BOOLEAN
  /\ Slack \in Nat /\ MaxMissed \in Nat \ {0} /\ Cap \in Nat

VARIABLES
  part,    \* the part that is followed: "alerts", "lists" or "watchdog"
  faults,  \* faults so far
  daemon, step, incident, state, enabled, previous, recoveries,
  reds, cut, owed, greens, lastEnd, began,
  members, recorded, listPc, seen, last, todo, album, changes, chat, orphan,
  pc, s, left, wake, idle, due, beat, alerted, disturbed

alertVars == <<daemon, step, incident, state, enabled, previous, recoveries,
               reds, cut, owed, greens, lastEnd, began>>
listVars == <<members, recorded, listPc, seen, last, todo, album, changes, chat, orphan>>
watchVars == <<pc, s, left, wake, idle, due, beat, alerted, disturbed>>
vars == <<part, faults, alertVars, listVars, watchVars>>

A == INSTANCE DaemonAlerts
L == INSTANCE ListDelivery WITH pc <- listPc
W == INSTANCE Watchdog

Init == part \in {"alerts", "lists", "watchdog"} /\ A!Init /\ L!Init /\ W!Init

Alerts == part = "alerts" /\ A!Next /\ UNCHANGED <<part, listVars, watchVars>>
Delivery == part = "lists" /\ L!Next /\ UNCHANGED <<part, alertVars, watchVars>>
Watch == part = "watchdog" /\ W!Next /\ UNCHANGED <<part, faults, alertVars, listVars>>

Next == Alerts \/ Delivery \/ Watch

Spec == Init /\ [][Next]_vars

(***************************************************************************)
(* The supervisor restarts the daemon; every await of an alert, a send and *)
(* a query end, since each has a timeout; passes of every key come round   *)
(* again, even when stops cut them off; the clock and the beat go on.      *)
(* The passes the watchdog watches need not end.                           *)
(***************************************************************************)
AlertFairness ==
  LET v == <<faults, alertVars>>
      On(action) == part = "alerts" /\ action
  IN  /\ WF_v(On(A!Start \/ A!StartNotice \/ A!Stopped))
      /\ \A k \in Keys :
           /\ WF_v(On(A!Tick(k)))
           /\ SF_v(On(A!Failed(k)))
           /\ WF_v(On(A!SendRed(k) \/ A!MarkAlerted(k) \/ A!SendGreen(k)))

ListFairness == WF_<<faults, listVars>>(part = "lists" /\ L!Pass)

WatchFairness ==
  /\ WF_watchVars(part = "watchdog" /\ W!Tick)
  /\ WF_watchVars(part = "watchdog" /\ W!Beat)
  /\ WF_watchVars(part = "watchdog" /\ W!Prompt)

FairSpec == Spec /\ AlertFairness /\ ListFairness /\ WatchFairness

----------------------------------------------------------------------------
TypeOK == part \in {"alerts", "lists", "watchdog"} /\ A!TypeOK /\ L!TypeOK /\ W!TypeOK

\* An incident is alerted once, and again only when its mark was lost; its
\* recovery is reported at most once.
AlertsBounded == A!AlertsBounded

\* The start notice is right about how the previous run ended.
NoticeHonest == A!NoticeHonest

\* The alert of a key that never succeeds is attempted in the end.
DoomedIsAlerted == part = "alerts" => A!DoomedIsAlerted

\* A row of deliveries tells what the chat shows.
RowsAreShown == L!RowsAreShown

\* Every format whose row is up to date comes to show the list as it is.
ChangesArrive == part = "lists" => L!ChangesArrive

\* A cycle whose steps end in time is not reported as stuck.
NoFalseAlarm == W!NoFalseAlarm

\* The monitor is pinged only while the work goes on.
PingFresh == W!PingFresh

\* A cycle that stays stuck is alerted.
StuckIsAlerted == part = "watchdog" => W!StuckIsAlerted
=============================================================================
