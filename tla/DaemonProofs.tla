----------------------------- MODULE DaemonProofs -----------------------------
(***************************************************************************)
(* Proofs about the daemon: its alerts, the delivery of its lists and its  *)
(* watchdog, for any keys, lists, formats, settings and faults.            *)
(***************************************************************************)
EXTENDS Daemon, TLAPS

----------------------------------------------------------------------------
(* Alerts.  A step of the alerts, or one that leaves their variables alone *)
(* (a fault of another part is not one of theirs).                         *)

AlertSteps == A!Next \/ UNCHANGED alertVars

AlertType ==
  /\ step \in [pc : {"idle", "red", "mark", "green"}, key : SUBSET Keys]
  /\ incident \in [Keys -> SUBSET [age : Int, alerted : {"yes", "no"}]]
  /\ \A k \in Keys : \A i, j \in incident[k] : i = j
  /\ reds \in [Keys -> Nat] /\ cut \in [Keys -> Nat]
  /\ owed \in [Keys -> Nat] /\ greens \in [Keys -> Nat]

\* The incident of k is open and its alert is not recorded.
Unmarked(k) == \A i \in incident[k] : i.alerted = "no"

At(await, k) == step = [pc |-> await, key |-> {k}]

(***************************************************************************)
(* While an incident is unmarked, each of its alerts had its mark cut off, *)
(* except the one whose mark is still under way; a recovery that is still  *)
(* to be reported is owed.                                                 *)
(***************************************************************************)
AlertInv ==
  /\ AlertType
  /\ step.pc = "idle" \/ \E k \in Keys : step.key = {k}
  /\ \A k \in Keys :
       /\ At("red", k) \/ At("mark", k) => Unmarked(k) /\ incident[k] # {}
       /\ reds[k] <= 1 + cut[k]
       /\ Unmarked(k) /\ ~At("mark", k) => reds[k] <= cut[k]
       /\ greens[k] <= owed[k]
       /\ At("green", k) => greens[k] < owed[k]

LEMMA AlertInit == A!Init => AlertInv
<1> SUFFICES ASSUME A!Init PROVE AlertInv OBVIOUS
<1>1. step = [pc |-> "idle", key |-> {}] BY DEF A!Init, A!Idle
<1>2. AlertType BY <1>1 DEF A!Init, AlertType
<1> QED BY <1>1, <1>2 DEF A!Init, AlertInv, At, Unmarked

\* A step that changes nothing about the incidents but what the cycle does.
LEMMA CycleDropped ==
  ASSUME AlertInv, UNCHANGED <<incident, reds, owed, greens>>, A!Drop
  PROVE AlertInv'
<1>1. step' = [pc |-> "idle", key |-> {}] BY DEF A!Drop, A!Idle
<1>2. cut' \in [Keys -> Nat] /\ \A k \in Keys :
        /\ cut[k] <= cut'[k]
        /\ At("mark", k) => cut'[k] = cut[k] + 1
  <2>1. CASE step.pc = "mark"
    <3>1. cut' = [k \in Keys |-> cut[k] + (IF k \in step.key THEN 1 ELSE 0)]
      BY <2>1 DEF A!Drop
    <3> QED BY <3>1 DEF AlertInv, AlertType, At
  <2>2. CASE step.pc # "mark"
    <3>1. cut' = cut BY <2>2 DEF A!Drop
    <3>2. \A k \in Keys : ~At("mark", k) BY <2>2 DEF At
    <3> QED BY <3>1, <3>2 DEF AlertInv, AlertType
  <2> QED BY <2>1, <2>2
<1>3. AlertType' BY <1>1, <1>2 DEF AlertInv, AlertType
<1>4. ASSUME NEW k \in Keys
      PROVE /\ reds'[k] <= 1 + cut'[k]
            /\ Unmarked(k)' => reds'[k] <= cut'[k]
            /\ greens'[k] <= owed'[k]
  <2>1. reds[k] \in Nat /\ cut[k] \in Nat /\ cut'[k] \in Nat
    BY <1>2 DEF AlertInv, AlertType
  <2>2. Unmarked(k)' => Unmarked(k) BY DEF Unmarked
  <2> QED BY <1>2, <2>1, <2>2 DEF AlertInv
<1> QED BY <1>1, <1>3, <1>4 DEF AlertInv, At

LEMMA AlertStep == ASSUME AlertInv, AlertSteps PROVE AlertInv'
<1>t. AlertType BY DEF AlertInv
<1>1. ASSUME UNCHANGED <<step, incident, reds, cut, owed, greens>> PROVE AlertInv'
  BY <1>1 DEF AlertInv, AlertType, At, Unmarked
<1>2. CASE A!Start \/ A!StartNotice \/ A!Reload \/ A!Stopped
  BY <1>1, <1>2 DEF A!Start, A!StartNotice, A!Reload, A!Stopped, A!history
<1>3. CASE A!Shutdown \/ A!Crash
  BY <1>3, CycleDropped DEF A!Shutdown, A!Crash
<1>4. ASSUME NEW k \in Keys, A!Tick(k) PROVE AlertInv'
  <2>1. PICK i \in incident[k] :
          incident' = [incident EXCEPT ![k] = {[i EXCEPT !.age = i.age + 1]}]
    BY <1>4 DEF A!Tick
  <2> DEFINE o == [i EXCEPT !.age = i.age + 1]
  <2>2. i \in [age : Int, alerted : {"yes", "no"}] BY <1>t DEF AlertType
  <2>3. o \in [age : Int, alerted : {"yes", "no"}] /\ o.alerted = i.alerted BY <2>2
  <2>4. incident' = [incident EXCEPT ![k] = {o}] BY <2>1
  <2>5. UNCHANGED <<step, reds, cut, owed, greens>> BY <1>4 DEF A!Tick, A!history
  <2> HIDE DEF o
  <2>6. AlertType' BY <1>t, <2>3, <2>4, <2>5 DEF AlertType
  <2>7. \A x \in Keys : Unmarked(x)' <=> Unmarked(x)
    BY <1>t, <2>3, <2>4 DEF Unmarked, AlertType
  <2>8. \A x \in Keys : incident'[x] = {} => incident[x] = {}
    BY <1>t, <2>4 DEF AlertType
  <2> QED BY <2>5, <2>6, <2>7, <2>8 DEF AlertInv, At
<1>5. ASSUME NEW k \in Keys, A!Failed(k) PROVE AlertInv'
  <2>1. step.pc = "idle" /\ UNCHANGED <<reds, cut, owed, greens>>
    BY <1>5 DEF A!Failed, A!Idle, A!history
  <2>2. CASE UNCHANGED <<incident, step>> BY <1>1, <2>1, <2>2
  <2>3. CASE ~UNCHANGED <<incident, step>>
    <3> DEFINE row == A!RecordFailure(k)
    <3>1. /\ incident' = [incident EXCEPT ![k] = row]
          /\ step' = IF \E i \in row : A!Due(i) THEN [pc |-> "red", key |-> {k}] ELSE A!Idle
      BY <1>5, <2>3 DEF A!Failed
    <3>2. /\ row \subseteq [age : Int, alerted : {"yes", "no"}] /\ row # {}
          /\ \A i, j \in row : i = j
          /\ (\A i \in row : i.alerted = "no") <=> Unmarked(k)
      <4>1. CASE incident[k] = {}
        <5>1. row = {[age |-> 0, alerted |-> "no"]} BY <4>1 DEF A!RecordFailure
        <5> HIDE DEF row
        <5> QED BY <4>1, <5>1 DEF Unmarked
      <4>2. CASE incident[k] # {}
        <5>1. row = incident[k] BY <4>2 DEF A!RecordFailure
        <5> HIDE DEF row
        <5>2. incident[k] \subseteq [age : Int, alerted : {"yes", "no"}]
              /\ \A i, j \in incident[k] : i = j
          BY <1>t DEF AlertType
        <5> QED BY <4>2, <5>1, <5>2 DEF Unmarked
      <4> QED BY <4>1, <4>2
    <3>3. (\E i \in row : A!Due(i)) => \A i \in row : i.alerted = "no"
      BY <3>2 DEF A!Due
    <3> HIDE DEF row
    <3>4. step' = [pc |-> "red", key |-> {k}] \/ step' = [pc |-> "idle", key |-> {}]
      BY <3>1 DEF A!Idle
    <3>5. step' \in [pc : {"idle", "red", "mark", "green"}, key : SUBSET Keys] BY <3>4
    <3>6. AlertType' BY <1>t, <2>1, <3>1, <3>2, <3>5 DEF AlertType
    <3>7. \A x \in Keys : Unmarked(x)' <=> Unmarked(x)
      BY <1>t, <3>1, <3>2 DEF AlertType, Unmarked
    <3>8. \A x \in Keys : ~At("mark", x) /\ ~At("mark", x)' /\ ~At("green", x)'
      BY <2>1, <3>4 DEF At
    <3>9. ASSUME NEW x \in Keys, At("red", x)' PROVE Unmarked(x)' /\ incident'[x] # {}
      <4>1. x = k /\ step'.pc = "red" BY <3>4, <3>9 DEF At
      <4>2. \E i \in row : A!Due(i) BY <3>1, <4>1 DEF A!Idle
      <4> QED BY <1>t, <3>1, <3>2, <3>3, <3>7, <4>1, <4>2 DEF AlertType
    <3>10. step'.pc = "idle" \/ \E x \in Keys : step'.key = {x} BY <3>4
    <3> QED BY <2>1, <3>6, <3>7, <3>8, <3>9, <3>10 DEF AlertInv
  <2> QED BY <2>2, <2>3
<1>6. ASSUME NEW k \in Keys, A!SendRed(k) PROVE AlertInv'
  <2>1. At("red", k) /\ UNCHANGED <<incident, cut, owed, greens>>
    BY <1>6 DEF A!SendRed, At
  <2>2. step' = [pc |-> "mark", key |-> {k}] BY <1>6, <2>1 DEF A!SendRed, At
  <2>3. reds' = reds \/ reds' = [reds EXCEPT ![k] = reds[k] + 1]
        \/ reds' = [reds EXCEPT ![k] = reds[k] + 0]
    BY <1>6 DEF A!SendRed
  <2>4. /\ reds' \in [Keys -> Nat] /\ reds'[k] <= reds[k] + 1
        /\ \A x \in Keys \ {k} : reds'[x] = reds[x]
    BY <1>t, <2>3 DEF AlertType
  <2>5. AlertType' BY <1>t, <2>1, <2>2, <2>4 DEF AlertType
  <2>6. Unmarked(k) /\ incident[k] # {} /\ reds[k] <= cut[k]
    BY <2>1 DEF AlertInv, At
  <2>7. \A x \in Keys : Unmarked(x)' <=> Unmarked(x) BY <2>1 DEF Unmarked
  <2>8. ASSUME NEW x \in Keys
        PROVE /\ At("mark", x)' <=> x = k
              /\ ~At("red", x)' /\ ~At("green", x)' /\ ~At("mark", x)
    BY <2>1, <2>2 DEF At
  <2>9. ASSUME NEW x \in Keys PROVE reds'[x] <= 1 + cut'[x]
    BY <1>t, <2>1, <2>4, <2>6 DEF AlertInv, AlertType
  <2> QED BY <2>1, <2>2, <2>4, <2>5, <2>6, <2>7, <2>8, <2>9 DEF AlertInv
<1>7. ASSUME NEW k \in Keys, A!MarkAlerted(k) PROVE AlertInv'
  <2>1. At("mark", k) /\ UNCHANGED <<reds, owed, greens>> /\ step' = [pc |-> "idle", key |-> {}]
    BY <1>7 DEF A!MarkAlerted, At, A!Idle
  <2>2. Unmarked(k) /\ incident[k] # {} /\ reds[k] <= 1 + cut[k] BY <2>1 DEF AlertInv
  <2>3. \A x \in Keys : /\ ~At("mark", x)' /\ ~At("red", x)' /\ ~At("green", x)'
                        /\ (At("mark", x) => x = k)
    BY <2>1 DEF At
  <2>4. CASE incident' = [incident EXCEPT ![k] = {[i EXCEPT !.alerted = "yes"] : i \in incident[k]}]
             /\ UNCHANGED cut
    <3> DEFINE row == {[i EXCEPT !.alerted = "yes"] : i \in incident[k]}
    <3>1. /\ row \subseteq [age : Int, alerted : {"yes", "no"}]
          /\ \A i, j \in row : i = j
          /\ \E i \in row : i.alerted = "yes"
      <4>1. PICK i \in incident[k] : incident[k] = {i} BY <1>t, <2>2 DEF AlertType
      <4>2. i \in [age : Int, alerted : {"yes", "no"}] BY <1>t DEF AlertType
      <4> DEFINE o == [i EXCEPT !.alerted = "yes"]
      <4>3. row = {o} BY <4>1
      <4>4. o \in [age : Int, alerted : {"yes", "no"}] /\ o.alerted = "yes" BY <4>2
      <4> HIDE DEF row, o
      <4> QED BY <4>3, <4>4
    <3>2. incident' = [incident EXCEPT ![k] = row] BY <2>4
    <3> HIDE DEF row
    <3>3. AlertType' BY <1>t, <2>1, <2>4, <3>1, <3>2 DEF AlertType
    <3>4. ~Unmarked(k)' /\ \A x \in Keys \ {k} : Unmarked(x)' <=> Unmarked(x)
      BY <1>t, <3>1, <3>2 DEF AlertType, Unmarked
    <3> QED BY <2>1, <2>3, <2>4, <3>3, <3>4 DEF AlertInv
  <2>5. CASE cut' = [cut EXCEPT ![k] = cut[k] + 1] /\ UNCHANGED incident
    <3>1. /\ cut' \in [Keys -> Nat] /\ cut'[k] = cut[k] + 1
          /\ \A x \in Keys \ {k} : cut'[x] = cut[x]
      BY <1>t, <2>5 DEF AlertType
    <3>2. AlertType' BY <1>t, <2>1, <2>5, <3>1 DEF AlertType
    <3>3. \A x \in Keys : Unmarked(x)' <=> Unmarked(x) BY <2>5 DEF Unmarked
    <3>4. reds[k] \in Nat /\ cut[k] \in Nat BY <1>t DEF AlertType
    <3> QED BY <2>1, <2>2, <2>3, <3>1, <3>2, <3>3, <3>4 DEF AlertInv
  <2> QED BY <1>7, <2>4, <2>5 DEF A!MarkAlerted
<1>8. ASSUME NEW k \in Keys, A!Ok(k) PROVE AlertInv'
  <2>1. step.pc = "idle" /\ UNCHANGED greens BY <1>8 DEF A!Ok, A!Idle
  <2>2. CASE UNCHANGED <<incident, step, reds, cut, owed>> BY <1>1, <2>1, <2>2
  <2>3. CASE ~UNCHANGED <<incident, step, reds, cut, owed>>
    <3> DEFINE b == IF \E i \in incident[k] : i.alerted = "yes" THEN 1 ELSE 0
    <3>1. /\ incident' = [incident EXCEPT ![k] = {}]
          /\ step' = IF \E i \in incident[k] : i.alerted = "yes"
                     THEN [pc |-> "green", key |-> {k}] ELSE A!Idle
          /\ owed' = [owed EXCEPT ![k] = owed[k] + b]
          /\ reds' = [reds EXCEPT ![k] = 0]
          /\ cut' = [cut EXCEPT ![k] = 0]
      BY <1>8, <2>3 DEF A!Ok, A!Close
    <3>2. \/ step' = [pc |-> "idle", key |-> {}]
          \/ step' = [pc |-> "green", key |-> {k}] /\ b = 1
      BY <3>1 DEF A!Idle
    <3>3. b \in {0, 1} OBVIOUS
    <3> HIDE DEF b
    <3>4. AlertType' BY <1>t, <2>1, <3>1, <3>2, <3>3 DEF AlertType
    <3>5. \A x \in Keys \ {k} : /\ Unmarked(x)' <=> Unmarked(x)
                                /\ reds'[x] = reds[x] /\ cut'[x] = cut[x] /\ owed'[x] = owed[x]
      BY <1>t, <3>1 DEF AlertType, Unmarked
    <3>6. reds'[k] = 0 /\ cut'[k] = 0 /\ owed'[k] = owed[k] + b /\ owed[k] \in Nat /\ greens[k] \in Nat
      BY <1>t, <3>1 DEF AlertType
    <3>7. \A x \in Keys : ~At("red", x)' /\ ~At("mark", x)' /\ (At("green", x)' => x = k /\ b = 1)
      BY <3>2 DEF At
    <3>8. \A x \in Keys : ~At("mark", x) BY <2>1 DEF At
    <3>9. step'.pc = "idle" \/ \E x \in Keys : step'.key = {x} BY <3>2
    <3> QED BY <2>1, <3>3, <3>4, <3>5, <3>6, <3>7, <3>8, <3>9 DEF AlertInv
  <2> QED BY <2>2, <2>3
<1>9. ASSUME NEW k \in Keys, A!SendGreen(k) PROVE AlertInv'
  <2>1. /\ At("green", k) /\ UNCHANGED <<incident, reds, cut, owed>>
        /\ step' = [pc |-> "idle", key |-> {}]
    BY <1>9 DEF A!SendGreen, At, A!Idle
  <2>2. greens' = greens \/ greens' = [greens EXCEPT ![k] = greens[k] + 1]
        \/ greens' = [greens EXCEPT ![k] = greens[k] + 0]
    BY <1>9 DEF A!SendGreen
  <2>3. /\ greens' \in [Keys -> Nat] /\ greens'[k] <= greens[k] + 1
        /\ \A x \in Keys \ {k} : greens'[x] = greens[x]
    BY <1>t, <2>2 DEF AlertType
  <2>4. AlertType' BY <1>t, <2>1, <2>3 DEF AlertType
  <2>5. \A x \in Keys : /\ Unmarked(x)' <=> Unmarked(x)
                        /\ ~At("mark", x) /\ ~At("mark", x)' /\ ~At("red", x)' /\ ~At("green", x)'
    BY <2>1 DEF Unmarked, At
  <2>6. greens[k] < owed[k] /\ greens[k] \in Nat /\ owed[k] \in Nat
    BY <1>t, <2>1 DEF AlertInv, AlertType
  <2>7. greens'[k] \in Nat BY <2>3
  <2>8. \A x \in Keys : greens'[x] <= owed'[x] BY <2>1, <2>3, <2>6, <2>7 DEF AlertInv
  <2> QED BY <2>1, <2>4, <2>5, <2>8 DEF AlertInv
<1>10. CASE UNCHANGED alertVars BY <1>1, <1>10 DEF alertVars
<1> QED
  BY <1>2, <1>3, <1>4, <1>5, <1>6, <1>7, <1>8, <1>9, <1>10 DEF AlertSteps, A!Next, A!Alert

(***************************************************************************)
(* What the row of the run's state tells, while a run goes on and after it *)
(* ended.                                                                  *)
(***************************************************************************)
NoticeInv ==
  /\ daemon # "down" /\ began = "recorded" => state = {"unclean"}
  /\ daemon = "down" =>
       /\ lastEnd = "unclean" => "unclean" \in state
       /\ lastEnd \in {"none", "stopped"} => "unclean" \notin state
  /\ A!NoticeHonest

LEMMA NoticeInit == A!Init => NoticeInv
BY DEF A!Init, NoticeInv, A!NoticeHonest

LEMMA NoticeStep == ASSUME NoticeInv, AlertSteps PROVE NoticeInv'
<1>1. ASSUME UNCHANGED <<daemon, state, previous, lastEnd, began>> PROVE NoticeInv'
  BY <1>1 DEF NoticeInv, A!NoticeHonest
<1>2. CASE A!Start
  <2>1. CASE daemon' = "starting"
    <3>1. previous' = state /\ state' = {"unclean"} /\ daemon = "down" /\ lastEnd' = lastEnd
      BY <1>2, <2>1 DEF A!Start, A!DaemonStarted
    <3> QED BY <2>1, <3>1 DEF NoticeInv, A!NoticeHonest
  <2>2. CASE daemon' = "running" /\ began' = "unrecorded"
    BY <2>2 DEF NoticeInv, A!NoticeHonest
  <2> QED BY <1>2, <2>1, <2>2 DEF A!Start
<1>3. CASE A!StartNotice
  BY <1>3 DEF A!StartNotice, A!history, NoticeInv, A!NoticeHonest
<1>4. CASE A!Reload BY <1>1, <1>4 DEF A!Reload, A!history
<1>5. CASE A!Shutdown BY <1>5 DEF A!Shutdown, NoticeInv, A!NoticeHonest
<1>6. CASE A!Stopped
  <2>1. daemon = "stopping" /\ daemon' = "down" /\ began' = began BY <1>6 DEF A!Stopped
  <2>2. CASE state' = {"clean" : t \in state} /\ lastEnd' = "stopped"
    BY <2>1, <2>2 DEF NoticeInv, A!NoticeHonest
  <2>3. CASE state' = state /\ lastEnd' = A!CutOff
    BY <2>1, <2>3 DEF NoticeInv, A!NoticeHonest, A!CutOff
  <2> QED BY <1>6, <2>2, <2>3 DEF A!Stopped
<1>7. CASE A!Crash BY <1>7 DEF A!Crash, NoticeInv, A!NoticeHonest, A!CutOff
<1>8. ASSUME NEW k \in Keys, A!Tick(k) \/ A!Ok(k) \/ A!Alert(k) PROVE NoticeInv'
  BY <1>1, <1>8 DEF A!Tick, A!Ok, A!Alert, A!Failed, A!SendRed, A!MarkAlerted, A!SendGreen, A!history
<1>9. CASE UNCHANGED alertVars BY <1>1, <1>9 DEF alertVars
<1> QED BY <1>2, <1>3, <1>4, <1>5, <1>6, <1>7, <1>8, <1>9 DEF AlertSteps, A!Next

----------------------------------------------------------------------------
(* Lists. *)

ListSteps == L!Next \/ UNCHANGED listVars

ListType ==
  /\ members \in [Lists -> Contents] /\ seen \in [Lists -> Contents]
  /\ recorded \in [L!Files -> SUBSET Contents]
  /\ chat \in [L!Files -> Contents \cup {"none"}]
  /\ album \in [lists : SUBSET Lists, formats : SUBSET Formats]

(***************************************************************************)
(* While an album is recorded, the chat shows what its rows will tell.     *)
(***************************************************************************)
RowsInv ==
  /\ ListType
  /\ listPc = "record" =>
       \A l \in album.lists, f \in album.formats : chat[<<l, f>>] = seen[l]
  /\ L!RowsAreShown

LEMMA RowsInit == L!Init => RowsInv
<1> SUFFICES ASSUME L!Init PROVE RowsInv OBVIOUS
<1>1. ListType BY ListsAssumption DEF L!Init, L!NoAlbum, ListType
<1>2. \A x \in L!Files : recorded[x] = {} /\ chat[x] = "none" BY DEF L!Init
<1>3. listPc = "idle" BY DEF L!Init
<1> QED BY <1>1, <1>2, <1>3 DEF RowsInv, L!RowsAreShown

\* What a list shows after its album reached the chat.
LEMMA Shows ==
  ASSUME RowsInv, NEW l \in Lists, NEW formats \in SUBSET Formats,
         chat' = L!Shown(l, formats), UNCHANGED <<seen, recorded>>
  PROVE /\ chat' \in [L!Files -> Contents \cup {"none"}]
        /\ \A f \in formats : chat'[<<l, f>>] = seen[l]
        /\ \A x \in L!Files \ ({l} \X formats) : chat'[x] = chat[x]
<1>1. \A f \in formats : <<l, f>> \in L!Files BY DEF L!Files
<1> QED BY <1>1 DEF L!Shown, RowsInv, ListType

LEMMA RowsStep == ASSUME RowsInv, ListSteps PROVE RowsInv'
<1>t. ListType BY DEF RowsInv
<1>0. L!NoAlbum \in [lists : SUBSET Lists, formats : SUBSET Formats] BY DEF L!NoAlbum
<1>1. ASSUME UNCHANGED <<recorded, chat, orphan>>, ListType', listPc' # "record" PROVE RowsInv'
  BY <1>1 DEF RowsInv, L!RowsAreShown
<1>2. ASSUME NEW l \in Lists, L!Change(l) PROVE RowsInv'
  <2>1. members' \in [Lists -> Contents] BY <1>t, <1>2 DEF L!Change, ListType
  <2>2. UNCHANGED <<recorded, listPc, seen, album, chat, orphan>> BY <1>2 DEF L!Change
  <2> QED BY <2>1, <2>2 DEF RowsInv, ListType, L!RowsAreShown
<1>3. CASE L!Derive
  <2>1. /\ seen' = members /\ listPc' = "export"
        /\ UNCHANGED <<members, recorded, album, chat, orphan>>
    BY <1>3 DEF L!Derive
  <2>2. ListType' BY <1>t, <2>1 DEF ListType
  <2> QED BY <1>1, <2>1, <2>2
<1>4. CASE L!Finish \/ L!Stop
  <2>1. /\ UNCHANGED <<members, seen, recorded, chat, orphan>> /\ listPc' = "idle"
        /\ album' \in {album, L!NoAlbum}
    BY <1>4 DEF L!Finish, L!Stop
  <2>2. ListType' BY <1>t, <1>0, <2>1 DEF ListType
  <2> QED BY <1>1, <2>1, <2>2
<1>5. ASSUME NEW l \in Lists, L!Send(l) PROVE RowsInv'
  <2> DEFINE formats == L!Changed(l, last, seen)
  <2>1. formats \in SUBSET Formats BY DEF L!Changed
  <2>2. UNCHANGED <<members, recorded, seen>> /\ listPc = "export" BY <1>5 DEF L!Send
  <2>3. \/ /\ chat' = L!Shown(l, formats)
           /\ orphan' = orphan \cup ({l} \X formats)
           /\ \/ album' = [lists |-> {l}, formats |-> formats]
              \/ album' = album /\ listPc' = listPc
        \/ UNCHANGED <<chat, orphan, album, listPc>>
    BY <1>5 DEF L!Send
  <2> HIDE DEF formats
  <2>4. CASE UNCHANGED <<chat, orphan, album, listPc>>
    BY <1>1, <1>t, <2>2, <2>4 DEF ListType
  <2>5. CASE /\ chat' = L!Shown(l, formats)
             /\ orphan' = orphan \cup ({l} \X formats)
             /\ \/ album' = [lists |-> {l}, formats |-> formats]
                \/ album' = album /\ listPc' = listPc
    <3>1. /\ chat' \in [L!Files -> Contents \cup {"none"}]
          /\ \A f \in formats : chat'[<<l, f>>] = seen[l]
          /\ \A x \in L!Files \ ({l} \X formats) : chat'[x] = chat[x]
      BY <2>1, <2>2, <2>5, Shows
    <3>2. album' \in [lists : SUBSET Lists, formats : SUBSET Formats]
      BY <1>t, <2>1, <2>5 DEF ListType
    <3>3. ListType' BY <1>t, <2>2, <3>1, <3>2 DEF ListType
    <3>4. L!RowsAreShown'
      BY <2>2, <2>5, <3>1 DEF RowsInv, L!RowsAreShown, L!Files
    <3>5. listPc' = "record" =>
            \A m \in album'.lists, f \in album'.formats : chat'[<<m, f>>] = seen'[m]
      BY <2>2, <2>5, <3>1
    <3> QED BY <3>3, <3>4, <3>5 DEF RowsInv
  <2> QED BY <2>3, <2>4, <2>5
<1>6. ASSUME NEW l \in Lists, NEW f \in Formats, L!Record(l, f) PROVE RowsInv'
  <2>1. /\ listPc = "record" /\ l \in album.lists /\ f \in album.formats
        /\ UNCHANGED <<members, seen, chat>>
    BY <1>6 DEF L!Record
  <2>2. CASE UNCHANGED <<recorded, orphan>> /\ listPc' = "idle" /\ album' = L!NoAlbum
    <3>1. ListType' BY <1>t, <1>0, <2>1, <2>2 DEF ListType
    <3> QED BY <1>1, <2>1, <2>2, <3>1
  <2>3. CASE /\ recorded' = [recorded EXCEPT ![<<l, f>>] = L!RecordRow(<<l, f>>)]
             /\ orphan' = orphan \ {<<l, f>>}
             /\ \/ listPc' = "export" /\ album' = L!NoAlbum
                \/ album' = [album EXCEPT !.formats = @ \ {f}] /\ listPc' = listPc
    <3>1. L!RecordRow(<<l, f>>) = {seen[l]} BY DEF L!RecordRow
    <3>2. <<l, f>> \in L!Files BY DEF L!Files
    <3>3. seen[l] \in Contents /\ seen[l] # "none" BY <1>t, ListsAssumption DEF ListType
    <3>4. /\ recorded' \in [L!Files -> SUBSET Contents]
          /\ recorded'[<<l, f>>] = {seen[l]}
          /\ \A x \in L!Files \ {<<l, f>>} : recorded'[x] = recorded[x]
      BY <1>t, <2>3, <3>1, <3>2, <3>3 DEF ListType
    <3>5. /\ album' \in [lists : SUBSET Lists, formats : SUBSET Formats]
          /\ album'.lists \subseteq album.lists /\ album'.formats \subseteq album.formats
      <4>1. CASE album' = L!NoAlbum BY <1>0, <4>1 DEF L!NoAlbum
      <4>2. CASE album' = [album EXCEPT !.formats = @ \ {f}] BY <1>t, <4>2 DEF ListType
      <4> QED BY <2>3, <4>1, <4>2
    <3>6. ListType' BY <1>t, <2>1, <3>4, <3>5 DEF ListType
    <3>7. chat[<<l, f>>] = seen[l] BY <2>1 DEF RowsInv
    <3>8. L!RowsAreShown'
      BY <2>1, <2>3, <3>3, <3>4, <3>7 DEF RowsInv, L!RowsAreShown
    <3> QED BY <2>1, <3>5, <3>6, <3>8 DEF RowsInv
  <2> QED BY <1>6, <2>2, <2>3 DEF L!Record
<1>7. CASE UNCHANGED listVars BY <1>7 DEF listVars, RowsInv, ListType, L!RowsAreShown
<1> QED BY <1>2, <1>3, <1>4, <1>5, <1>6, <1>7 DEF ListSteps, L!Next, L!Pass

----------------------------------------------------------------------------
(* The watchdog. *)

WatchSteps == W!Next \/ UNCHANGED watchVars

\* The greatest of two numbers is one of them, and no less than either.
LEMMA MaxOfTwo ==
  ASSUME NEW a \in Int, NEW b \in Int
  PROVE W!Max({a, b}) \in {a, b} /\ W!Max({a, b}) >= a /\ W!Max({a, b}) >= b
<1> DEFINE P(x) == x \in {a, b} /\ \A y \in {a, b} : x >= y
<1>1. P(a) \/ P(b) OBVIOUS
<1>2. W!Max({a, b}) = CHOOSE x : P(x) BY DEF W!Max
<1>3. P(CHOOSE x : P(x)) BY <1>1
<1> QED BY <1>2, <1>3

\* The least of two or three numbers is one of them, and no more than any.
LEMMA MinOfThree ==
  ASSUME NEW a \in Int, NEW b \in Int, NEW S \in SUBSET Int, NEW c \in Int, S = {} \/ S = {c}
  PROVE LET m == W!Min({a, b} \cup S) IN m \in Int /\ m <= a /\ m <= b
<1> DEFINE T == {a, b} \cup S
           P(x) == x \in T /\ \A y \in T : x <= y
<1>1. P(a) \/ P(b) \/ P(c) OBVIOUS
<1>2. W!Min(T) = CHOOSE x : P(x) BY DEF W!Min
<1>3. P(CHOOSE x : P(x)) BY <1>1
<1> QED BY <1>2, <1>3

\* stall_after is never shorter than a cadence and the slack.
LEMMA StallBound ==
  ASSUME NEW c \in Configs
  PROVE /\ W!StallAfter(c) \in Nat /\ Slack \in Nat
        /\ Slack <= W!StallAfter(c)
        /\ c.ingest + Slack <= W!StallAfter(c)
        /\ c.derive + Slack <= W!StallAfter(c)
<1>1. /\ c.ingest \in Nat \ {0} /\ c.derive \in Nat \ {0} /\ c.stall \in Nat /\ Slack \in Nat
  BY WatchdogAssumption
<1> DEFINE m == W!Max({c.ingest, c.derive})
<1>2. m \in Nat /\ m >= c.ingest /\ m >= c.derive
  <2>1. c.ingest \in Int /\ c.derive \in Int BY <1>1
  <2>2. /\ m \in {c.ingest, c.derive} /\ m >= c.ingest /\ m >= c.derive
    BY ONLY <2>1, MaxOfTwo
  <2> HIDE DEF m
  <2> QED BY <1>1, <2>2
<1>3. W!StallAfter(c) = W!Max({c.stall, m + Slack}) BY DEF W!StallAfter
<1> HIDE DEF m
<1>4. /\ W!StallAfter(c) \in {c.stall, m + Slack}
      /\ W!StallAfter(c) >= c.stall /\ W!StallAfter(c) >= m + Slack
  <2>1. c.stall \in Int /\ m + Slack \in Int BY <1>1, <1>2
  <2>2. /\ W!Max({c.stall, m + Slack}) \in {c.stall, m + Slack}
        /\ W!Max({c.stall, m + Slack}) >= c.stall /\ W!Max({c.stall, m + Slack}) >= m + Slack
    BY ONLY <2>1, MaxOfTwo
  <2> QED BY <1>3, <2>2
<1> QED BY <1>1, <1>2, <1>4

Deadlines == [ingest : Nat, derive : Nat, ath : Nat]

\* The sleep lasts until the next deadline, and one unit at least.
LEMMA WakeBound ==
  ASSUME s \in Configs, NEW l \in Deadlines
  PROVE /\ W!NextWake(l) \in Nat /\ W!NextWake(l) >= 1
        /\ W!NextWake(l) <= l.ingest \/ W!NextWake(l) = 1
        /\ W!NextWake(l) <= l.derive \/ W!NextWake(l) = 1
<1> DEFINE S == IF s.athOn THEN {l.ath} ELSE {}
           m == W!Min({l.ingest, l.derive} \cup S)
<1>1. l.ingest \in Int /\ l.derive \in Int /\ l.ath \in Int BY DEF Deadlines
<1>2. S \in SUBSET Int /\ (S = {} \/ S = {l.ath}) BY <1>1
<1> HIDE DEF S
<1>3. m \in Int /\ m <= l.ingest /\ m <= l.derive BY <1>1, <1>2, MinOfThree
<1>4. W!NextWake(l) = W!Max({1, m}) BY DEF W!NextWake, S
<1> HIDE DEF m
<1>5. W!NextWake(l) \in {1, m} /\ W!NextWake(l) >= 1 BY <1>3, <1>4, MaxOfTwo
<1> QED BY <1>1, <1>3, <1>5

BeatType ==
  [pc : {"wait", "read", "send", "db", "ping"}, idle : 0..Cap, stalled : BOOLEAN, age : 0..Cap]

WatchType ==
  /\ s \in Configs
  /\ left \in Deadlines
  /\ wake \in Nat
  /\ idle \in 0..Cap
  /\ beat \in BeatType

\* What the beat read is the age of the last mark, and the cycle stores its
\* threshold again only after it has marked or slept.
ReadFresh ==
  beat.pc = "read" =>
    /\ pc # "down"
    /\ idle <= beat.idle
    /\ idle = beat.idle \/ (pc # "top" /\ (pc = "sleep" => wake >= 1))

\* A beat that did not find the cycle stalled goes on with a fresh mark.
DecisionFresh ==
  /\ beat.pc = "ping" => ~beat.stalled
  /\ beat.pc \in {"send", "db", "ping"} /\ ~beat.stalled /\ pc # "mark" =>
       idle <= W!StallAfter(s) + beat.age

(***************************************************************************)
(* Undisturbed, the last mark is within the slack while a step is open,    *)
(* and within the threshold to the end of a sleep.                         *)
(***************************************************************************)
Undisturbed ==
  ~disturbed =>
    /\ ~alerted
    /\ pc # "down" =>
         /\ idle <= W!StallAfter(s)
         /\ pc \notin {"sleep", "top", "mark"} => idle <= Slack
         /\ pc = "sleep" => idle + wake <= W!StallAfter(s)
         /\ beat.pc = "read" => beat.idle <= W!StallAfter(s)

WatchInv == WatchType /\ ReadFresh /\ DecisionFresh /\ Undisturbed

LEMMA WatchInit == W!Init => WatchInv
<1> SUFFICES ASSUME W!Init PROVE WatchInv OBVIOUS
<1>1. s \in Configs BY WatchdogAssumption DEF W!Init
<1>2. W!Resting \in BeatType /\ W!Resting.pc = "wait"
  BY WatchdogAssumption DEF W!Resting, BeatType
<1>3. WatchType BY <1>1, <1>2, WatchdogAssumption DEF W!Init, WatchType, Deadlines
<1>4. beat.pc = "wait" /\ pc = "down" /\ ~alerted BY <1>2 DEF W!Init
<1> QED BY <1>3, <1>4 DEF WatchInv, ReadFresh, DecisionFresh, Undisturbed

\* A step of the cycle that marks its progress.
LEMMA MarkKeeps ==
  ASSUME WatchInv, NEW next \in {"ingest", "ingested", "ath", "derive", "export", "exported", "plan"},
         W!Mark(next), UNCHANGED left \/ left' \in Deadlines, pc # "down"
  PROVE WatchInv'
<1>1. /\ idle' = 0 /\ pc' = next /\ UNCHANGED <<s, wake, beat, alerted, disturbed>>
  BY DEF W!Mark
<1>2. WatchType' BY <1>1, WatchdogAssumption DEF WatchInv, WatchType
<1>3. s \in Configs /\ beat.age \in Nat /\ beat.idle \in Nat
  BY DEF WatchInv, WatchType, BeatType
<1>4. W!StallAfter(s) \in Nat /\ Slack \in Nat /\ W!StallAfter(s)' = W!StallAfter(s)
  BY <1>1, <1>3, StallBound DEF W!StallAfter
<1>5. ReadFresh' BY <1>1, <1>3 DEF ReadFresh
<1>6. DecisionFresh' BY <1>1, <1>3, <1>4 DEF WatchInv, DecisionFresh
<1>7. Undisturbed' BY <1>1, <1>4 DEF WatchInv, Undisturbed
<1> QED BY <1>2, <1>5, <1>6, <1>7 DEF WatchInv

\* A step of the cycle that waits for nothing and leaves the mark alone.
LEMMA MoveKeeps ==
  ASSUME WatchInv, NEW next \in {"ingest", "ath", "derive", "plan"}, pc' = next,
         pc \in {"ingested", "exported"},
         UNCHANGED <<s, wake, idle, beat, alerted, disturbed>>, left' \in Deadlines
  PROVE WatchInv'
<1>1. WatchType' BY DEF WatchInv, WatchType
<1>2. ReadFresh' BY DEF WatchInv, ReadFresh
<1>3. DecisionFresh' BY DEF WatchInv, DecisionFresh, W!StallAfter
<1>4. Undisturbed' BY DEF WatchInv, Undisturbed, W!StallAfter
<1> QED BY <1>1, <1>2, <1>3, <1>4 DEF WatchInv

\* The steps of the cycle after a pass lead to one that is due.
LEMMA NextPasses ==
  ASSUME NEW l PROVE /\ W!AfterAth(l) \in {"derive", "plan"}
                     /\ W!AfterIngest(l) \in {"ath", "derive", "plan"}
BY DEF W!AfterAth, W!AfterIngest

\* A deadline of the settings is a deadline.
LEMMA NewDeadline ==
  ASSUME WatchType
  PROVE /\ [left EXCEPT !.ingest = s.ingest] \in Deadlines
        /\ [left EXCEPT !.derive = s.derive] \in Deadlines
        /\ [left EXCEPT !.ath = s.ath] \in Deadlines
<1>1. s.ingest \in Nat /\ s.derive \in Nat /\ s.ath \in Nat BY WatchdogAssumption DEF WatchType
<1> QED BY <1>1 DEF WatchType, Deadlines

LEMMA CycleKeeps == ASSUME WatchInv, W!Cycle PROVE WatchInv'
<1>t. WatchType BY DEF WatchInv
<1>b. s \in Configs /\ left \in Deadlines /\ beat \in BeatType /\ idle \in Nat /\ wake \in Nat
  BY <1>t, WatchdogAssumption DEF WatchType
<1>1. CASE W!Reload
  <2>1. /\ pc = "top" /\ pc' = "mark" /\ s' \in Configs
        /\ disturbed' = (disturbed \/ idle > W!StallAfter(s'))
        /\ UNCHANGED <<left, wake, idle, beat, alerted>>
    BY <1>1 DEF W!Reload
  <2>2. WatchType' BY <1>t, <2>1 DEF WatchType
  <2>3. W!StallAfter(s') \in Nat /\ W!StallAfter(s)' = W!StallAfter(s')
    BY <2>1, StallBound DEF W!StallAfter
  <2>4. ReadFresh' BY <2>1 DEF WatchInv, ReadFresh
  <2>5. DecisionFresh' BY <2>1 DEF WatchInv, DecisionFresh
  <2>6. beat.pc = "read" => beat.idle = idle BY <2>1 DEF WatchInv, ReadFresh
  <2>7. ASSUME ~disturbed' PROVE ~disturbed /\ ~(idle > W!StallAfter(s'))
    BY <2>1, <2>7, Zenon
  <2>8. ASSUME ~disturbed'
        PROVE /\ ~alerted' /\ idle' <= W!StallAfter(s)'
              /\ beat'.pc = "read" => beat'.idle <= W!StallAfter(s)'
    <3>1. ~alerted BY <2>7, <2>8 DEF WatchInv, Undisturbed
    <3>2. idle <= W!StallAfter(s') BY <1>b, <2>3, <2>7, <2>8
    <3> QED BY <2>1, <2>3, <2>6, <3>1, <3>2
  <2>9. Undisturbed' BY <2>1, <2>8 DEF Undisturbed
  <2> QED BY <2>2, <2>4, <2>5, <2>9 DEF WatchInv
<1>2. CASE W!Begin
  <2> DEFINE next == IF left.ingest = 0 THEN "ingest" ELSE W!AfterIngest(left)
  <2>1. W!Mark(next) /\ UNCHANGED left /\ pc = "mark" BY <1>2 DEF W!Begin
  <2>2. next \in {"ingest", "ath", "derive", "plan"} BY NextPasses
  <2> HIDE DEF next
  <2> QED BY <2>1, <2>2, MarkKeeps
<1>3. CASE W!IngestChain BY <1>3, MarkKeeps DEF W!IngestChain
<1>4. CASE W!Ingested
  <2>1. pc = "ingested" /\ UNCHANGED <<s, wake, idle, beat, alerted, disturbed>>
    BY <1>4 DEF W!Ingested
  <2>2. CASE pc' = "ingest" /\ UNCHANGED left BY <1>b, <2>1, <2>2, MoveKeeps
  <2>3. CASE left' = [left EXCEPT !.ingest = s.ingest] /\ pc' = W!AfterIngest(left')
    BY <1>t, <2>1, <2>3, MoveKeeps, NextPasses, NewDeadline
  <2> QED BY <1>4, <2>2, <2>3 DEF W!Ingested
<1>5. CASE W!AthChain
  <2>1. CASE W!Mark("ath") /\ UNCHANGED left BY <1>5, <2>1, MarkKeeps DEF W!AthChain
  <2>2. CASE left' = [left EXCEPT !.ath = s.ath] /\ W!Mark(W!AfterAth(left))
    BY <1>5, <1>t, <2>2, MarkKeeps, NextPasses, NewDeadline DEF W!AthChain
  <2> QED BY <1>5, <2>1, <2>2 DEF W!AthChain
<1>6. CASE W!Derive BY <1>6, MarkKeeps DEF W!Derive
<1>7. CASE W!Export BY <1>7, MarkKeeps DEF W!Export
<1>8. CASE W!Exported
  <2>1. /\ pc = "exported" /\ pc' = "plan" /\ left' = [left EXCEPT !.derive = s.derive]
        /\ UNCHANGED <<s, wake, idle, beat, alerted, disturbed>>
    BY <1>8 DEF W!Exported
  <2> QED BY <1>t, <2>1, MoveKeeps, NewDeadline
<1>9. CASE W!Sleep
  <2>1. /\ pc = "plan" /\ pc' = "sleep" /\ wake' = W!NextWake(left)
        /\ disturbed' = (disturbed \/ (left.ingest > s.ingest /\ left.derive > s.derive))
        /\ UNCHANGED <<s, left, idle, beat, alerted>>
    BY <1>9 DEF W!Sleep
  <2> DEFINE w == W!NextWake(left)
  <2>2. w \in Nat /\ w >= 1 /\ (w <= left.ingest \/ w = 1) /\ (w <= left.derive \/ w = 1)
    BY <1>b, WakeBound
  <2> HIDE DEF w
  <2>3. wake' = w BY <2>1 DEF w
  <2>4. WatchType' BY <1>t, <2>1, <2>2, <2>3 DEF WatchType
  <2>5. ReadFresh' BY <2>1, <2>2, <2>3 DEF WatchInv, ReadFresh
  <2>6. DecisionFresh' BY <2>1 DEF WatchInv, DecisionFresh, W!StallAfter
  <2>7. /\ s.ingest \in Nat \ {0} /\ s.derive \in Nat \ {0}
        /\ left.ingest \in Nat /\ left.derive \in Nat
    BY <1>b, WatchdogAssumption DEF Deadlines
  <2>8. /\ W!StallAfter(s) \in Nat /\ Slack \in Nat
        /\ s.ingest + Slack <= W!StallAfter(s) /\ s.derive + Slack <= W!StallAfter(s)
    BY <1>b, StallBound
  <2>9. ASSUME ~disturbed' PROVE idle <= Slack /\ (w <= s.ingest \/ w <= s.derive)
    <3>1. idle <= Slack BY <2>1, <2>9 DEF WatchInv, Undisturbed
    <3>2. ~(left.ingest > s.ingest) \/ ~(left.derive > s.derive) BY <2>1, <2>9
    <3> QED BY <2>2, <2>7, <3>1, <3>2
  <2>10. ~disturbed' => idle + w <= W!StallAfter(s)
    BY <1>b, <2>2, <2>7, <2>8, <2>9
  <2>11. W!StallAfter(s)' = W!StallAfter(s) BY <2>1 DEF W!StallAfter
  <2>12. Undisturbed' BY <2>1, <2>3, <2>10, <2>11 DEF WatchInv, Undisturbed
  <2> QED BY <2>4, <2>5, <2>6, <2>12 DEF WatchInv
<1>10. CASE W!WakeUp
  <2>1. /\ pc = "sleep" /\ wake = 0 /\ pc' = "top"
        /\ UNCHANGED <<s, left, wake, idle, beat, alerted, disturbed>>
    BY <1>10 DEF W!WakeUp
  <2>2. WatchType' BY <1>t, <2>1 DEF WatchType
  <2>3. ReadFresh' BY <2>1 DEF WatchInv, ReadFresh
  <2>4. DecisionFresh' BY <2>1 DEF WatchInv, DecisionFresh, W!StallAfter
  <2>5. Undisturbed' BY <2>1 DEF WatchInv, Undisturbed, W!StallAfter
  <2> QED BY <2>2, <2>3, <2>4, <2>5 DEF WatchInv
<1> QED
  BY <1>1, <1>2, <1>3, <1>4, <1>5, <1>6, <1>7, <1>8, <1>9, <1>10 DEF W!Cycle, W!Prompt

\* A step of the beat.
LEMMA BeatKeeps == ASSUME WatchInv, W!Beat PROVE WatchInv'
<1>t. WatchType BY DEF WatchInv
<1>b. /\ s \in Configs /\ beat \in BeatType /\ idle \in 0..Cap /\ Cap \in Nat
      /\ W!StallAfter(s) \in Nat
  BY <1>t, StallBound, WatchdogAssumption DEF WatchType
<1>c. /\ beat.idle \in 0..Cap /\ beat.age \in 0..Cap /\ beat.stalled \in BOOLEAN
      /\ beat.pc \in {"wait", "read", "send", "db", "ping"}
  BY <1>b DEF BeatType
<1>r. W!Resting \in BeatType /\ W!Resting.pc = "wait" BY <1>b DEF W!Resting, BeatType
<1>1. ASSUME UNCHANGED <<pc, s, left, wake, idle, alerted, disturbed>>, beat' \in BeatType,
             beat'.pc \in {"wait", "send", "db", "ping"}, DecisionFresh'
      PROVE WatchInv'
  <2>1. WatchType' BY <1>t, <1>1 DEF WatchType
  <2>2. ReadFresh' BY <1>1 DEF ReadFresh
  <2>3. Undisturbed' BY <1>1 DEF WatchInv, Undisturbed, W!StallAfter
  <2> QED BY <1>1, <2>1, <2>2, <2>3 DEF WatchInv
<1>2. CASE W!BeatRead
  <2> DEFINE b == [beat EXCEPT !.pc = "read", !.idle = idle, !.age = 0]
  <2>1. /\ beat' = b /\ pc # "down"
        /\ UNCHANGED <<pc, s, left, wake, idle, alerted, disturbed>>
    BY <1>2 DEF W!BeatRead
  <2>2. b \in BeatType /\ b.pc = "read" /\ b.idle = idle
    <3>1. 0 \in 0..Cap BY <1>b
    <3> HIDE DEF b
    <3>2. b = [beat EXCEPT !.pc = "read", !.idle = idle, !.age = 0] BY DEF b
    <3>3. /\ b = [pc |-> "read", idle |-> idle, stalled |-> beat.stalled, age |-> 0]
      BY <1>b, <3>2 DEF BeatType
    <3> QED BY <1>b, <1>c, <3>1, <3>3 DEF BeatType
  <2> HIDE DEF b
  <2>3. WatchType' BY <1>t, <2>1, <2>2 DEF WatchType
  <2>4. ReadFresh' BY <1>b, <2>1, <2>2 DEF ReadFresh
  <2>5. DecisionFresh' BY <2>1, <2>2 DEF DecisionFresh
  <2>6. Undisturbed' BY <2>1, <2>2 DEF WatchInv, Undisturbed, W!StallAfter
  <2> QED BY <2>3, <2>4, <2>5, <2>6 DEF WatchInv
<1>3. CASE W!BeatDecide
  <2> DEFINE v == W!Stalled(beat.idle)
             p == IF v # alerted THEN "send" ELSE "db"
             b == [beat EXCEPT !.pc = p, !.stalled = v]
  <2>1. /\ beat.pc = "read" /\ beat' = b /\ alerted' = v
        /\ UNCHANGED <<pc, s, left, wake, idle, disturbed>>
    BY <1>3 DEF W!BeatDecide
  <2>2. v \in BOOLEAN /\ (v <=> beat.idle > W!StallAfter(s)) BY DEF W!Stalled
  <2>3. p \in {"send", "db"} OBVIOUS
  <2> HIDE DEF v, p
  <2>4. b \in BeatType /\ b.pc = p /\ b.stalled = v /\ b.age = beat.age
    BY <1>b, <2>2, <2>3 DEF BeatType
  <2> HIDE DEF b
  <2>5. WatchType' BY <1>t, <2>1, <2>4 DEF WatchType
  <2>6. ReadFresh' BY <2>1, <2>3, <2>4 DEF ReadFresh
  <2>7. DecisionFresh'
    <3>1. idle <= beat.idle BY <2>1 DEF WatchInv, ReadFresh
    <3>2. W!StallAfter(s)' = W!StallAfter(s) BY <2>1 DEF W!StallAfter
    <3>3. ~v => idle <= W!StallAfter(s) + beat.age BY <1>b, <1>c, <2>2, <3>1
    <3> QED BY <2>1, <2>3, <2>4, <3>2, <3>3 DEF DecisionFresh
  <2>8. Undisturbed'
    <3>1. W!StallAfter(s)' = W!StallAfter(s) BY <2>1 DEF W!StallAfter
    <3>2. ~disturbed /\ pc # "down" => ~v
      BY <1>b, <1>c, <2>1, <2>2 DEF WatchInv, Undisturbed
    <3>3. ~disturbed /\ pc = "down" => ~v
      <4>1. pc # "down" BY <2>1 DEF WatchInv, ReadFresh
      <4> QED BY <4>1
    <3>4. ~disturbed => ~alerted' BY <2>1, <3>2, <3>3
    <3> QED BY <2>1, <2>3, <2>4, <3>1, <3>4 DEF WatchInv, Undisturbed
  <2> QED BY <2>5, <2>6, <2>7, <2>8 DEF WatchInv
<1>4. ASSUME NEW p \in {"db", "ping"}, beat.pc \in {"send", "db"},
             beat' = [beat EXCEPT !.pc = p], p = "ping" => ~beat.stalled,
             UNCHANGED <<pc, s, left, wake, idle, alerted, disturbed>>
      PROVE WatchInv'
  <2>1. beat' \in BeatType /\ beat'.pc = p /\ beat'.stalled = beat.stalled /\ beat'.age = beat.age
    BY <1>b, <1>4 DEF BeatType
  <2>2. DecisionFresh' BY <1>4, <2>1 DEF WatchInv, DecisionFresh, W!StallAfter
  <2> QED BY <1>1, <1>4, <2>1, <2>2
<1>5. ASSUME beat' = W!Resting, UNCHANGED <<pc, s, left, wake, idle, alerted, disturbed>>
      PROVE WatchInv'
  <2>1. DecisionFresh' BY <1>5, <1>r DEF DecisionFresh
  <2> QED BY <1>1, <1>5, <1>r, <2>1
<1>6. CASE W!BeatSent BY <1>4, <1>6 DEF W!BeatSent
<1>7. CASE W!DaemonBeat BY <1>4, <1>5, <1>7 DEF W!DaemonBeat, W!MayPing
<1>8. CASE W!Ping BY <1>5, <1>8 DEF W!Ping
<1> QED BY <1>2, <1>3, <1>6, <1>7, <1>8 DEF W!Beat

LEMMA TickKeeps == ASSUME WatchInv, W!Tick PROVE WatchInv'
<1>t. WatchType BY DEF WatchInv
<1>b. /\ s \in Configs /\ beat \in BeatType /\ idle \in 0..Cap /\ Cap \in Nat /\ wake \in Nat
      /\ W!StallAfter(s) \in Nat /\ Slack \in Nat /\ Slack <= W!StallAfter(s)
  BY <1>t, StallBound, WatchdogAssumption DEF WatchType
<1>c. beat.age \in 0..Cap /\ beat.pc \in {"wait", "read", "send", "db", "ping"}
  BY <1>b DEF BeatType
<1> DEFINE a == IF beat.pc = "wait" THEN 0 ELSE W!Up(beat.age)
<1>1. /\ pc \notin {"down", "top", "mark", "plan"} /\ ~(pc = "sleep" /\ wake = 0)
      /\ beat.pc # "read"
      /\ wake' = W!Down(wake) /\ idle' = W!Up(idle)
      /\ beat' = [beat EXCEPT !.age = a]
      /\ disturbed' = (disturbed \/ (pc # "sleep" /\ idle + 1 > Slack))
      /\ UNCHANGED <<pc, s, alerted>>
  BY DEF W!Tick
<1>2. left' \in Deadlines
  <2>1. left' = [ingest |-> W!Down(left.ingest), derive |-> W!Down(left.derive), ath |-> W!Down(left.ath)]
    BY DEF W!Tick
  <2>2. \A n \in Nat : W!Down(n) \in Nat BY DEF W!Down
  <2>3. left.ingest \in Nat /\ left.derive \in Nat /\ left.ath \in Nat
    BY <1>t DEF WatchType, Deadlines
  <2> QED BY <2>1, <2>2, <2>3 DEF Deadlines
<1>3. a \in 0..Cap /\ (beat.pc # "wait" => a = beat.age + 1 \/ a = Cap)
  BY <1>b, <1>c DEF W!Up
<1>4. idle' \in 0..Cap /\ idle' <= idle + 1 BY <1>1, <1>b DEF W!Up
<1>5. wake' \in Nat /\ (pc = "sleep" => wake' = wake - 1) BY <1>1, <1>b DEF W!Down
<1> HIDE DEF a
<1>6. beat' \in BeatType /\ beat'.pc = beat.pc /\ beat'.stalled = beat.stalled /\ beat'.age = a
  BY <1>1, <1>3, <1>b DEF BeatType
<1>7. WatchType' BY <1>1, <1>2, <1>4, <1>5, <1>6, <1>t DEF WatchType
<1>8. ReadFresh' BY <1>1, <1>6 DEF ReadFresh
<1>9. W!StallAfter(s)' = W!StallAfter(s) BY <1>1 DEF W!StallAfter
<1>10. DecisionFresh'
  <2>1. ASSUME beat.pc \in {"send", "db", "ping"}, ~beat.stalled
        PROVE idle' <= W!StallAfter(s) + a
    <3>1. idle <= W!StallAfter(s) + beat.age BY <1>1, <2>1 DEF WatchInv, DecisionFresh
    <3> QED BY <1>3, <1>4, <1>b, <1>c, <2>1, <3>1
  <2> QED BY <1>1, <1>6, <1>9, <2>1 DEF WatchInv, DecisionFresh
<1>11. Undisturbed'
  <2>1. ASSUME ~disturbed'
        PROVE /\ ~alerted /\ idle' <= W!StallAfter(s)
              /\ pc # "sleep" => idle' <= Slack
              /\ pc = "sleep" => idle' + wake' <= W!StallAfter(s)
    <3>0. ~disturbed /\ ~(pc # "sleep" /\ idle + 1 > Slack) BY <1>1, <2>1, Zenon
    <3>1. ~disturbed /\ (pc # "sleep" => idle + 1 <= Slack) BY <1>b, <3>0
    <3>2. pc = "sleep" => idle + wake <= W!StallAfter(s)
      BY <1>1, <3>1 DEF WatchInv, Undisturbed
    <3>3. ~alerted BY <3>1 DEF WatchInv, Undisturbed
    <3> QED BY <1>4, <1>5, <1>b, <3>1, <3>2, <3>3
  <2> QED BY <1>1, <1>6, <1>9, <2>1 DEF Undisturbed
<1> QED BY <1>7, <1>8, <1>10, <1>11 DEF WatchInv

LEMMA WatchStep == ASSUME WatchInv, WatchSteps PROVE WatchInv'
<1>t. WatchType BY DEF WatchInv
<1>r. /\ W!Resting \in BeatType /\ W!Resting.pc = "wait"
      /\ Cap \in Nat
  BY WatchdogAssumption DEF W!Resting, BeatType
<1>1. CASE W!Start
  <2>1. /\ pc' = "top" /\ s' \in Configs /\ left' = [ingest |-> 0, derive |-> 0, ath |-> 0]
        /\ wake' = 0 /\ idle' = 0 /\ beat' = W!Resting /\ alerted' = FALSE
    BY <1>1 DEF W!Start
  <2>2. WatchType' BY <1>r, <2>1 DEF WatchType, Deadlines
  <2>3. W!StallAfter(s)' \in Nat BY <2>1, StallBound DEF W!StallAfter
  <2> QED BY <1>r, <2>1, <2>2, <2>3 DEF WatchInv, ReadFresh, DecisionFresh, Undisturbed
<1>2. CASE W!Stop
  <2>1. /\ pc' = "down" /\ beat' = W!Resting
        /\ UNCHANGED <<s, left, wake, idle, alerted, disturbed>>
    BY <1>2 DEF W!Stop
  <2>2. WatchType' BY <1>r, <1>t, <2>1 DEF WatchType
  <2> QED BY <1>r, <2>1, <2>2 DEF WatchInv, ReadFresh, DecisionFresh, Undisturbed
<1>3. CASE UNCHANGED watchVars
  BY <1>3 DEF watchVars, WatchInv, WatchType, ReadFresh, DecisionFresh, Undisturbed, W!StallAfter
<1> QED BY <1>1, <1>2, <1>3, CycleKeeps, BeatKeeps, TickKeeps DEF WatchSteps, W!Next

----------------------------------------------------------------------------
\* Every step is one of each part's, or leaves that part's variables alone.
LEMMA PartSteps == [Next]_vars => AlertSteps /\ ListSteps /\ WatchSteps
BY DEF Next, Alerts, Delivery, Watch, vars, AlertSteps, ListSteps, WatchSteps

(***************************************************************************)
(* An incident is alerted again only when a mark was lost, and its         *)
(* recovery is reported at most once, for any keys, settings and faults    *)
(* (failed, ok and the incidents table).                                   *)
(***************************************************************************)
THEOREM AlertsAreBounded == FairSpec => []AlertsBounded
<1>1. Init => AlertInv BY AlertInit DEF Init
<1>2. AlertInv /\ [Next]_vars => AlertInv' BY PartSteps, AlertStep
<1>3. AlertInv => AlertsBounded BY DEF AlertInv, AlertsBounded, A!AlertsBounded
<1> QED BY <1>1, <1>2, <1>3, PTL DEF FairSpec, Spec

(***************************************************************************)
(* The start notice tells how the previous run ended, wherever runs stop   *)
(* and crash (daemon_started and daemon_stopped).                          *)
(***************************************************************************)
THEOREM NoticeIsHonest == FairSpec => []NoticeHonest
<1>1. Init => NoticeInv BY NoticeInit DEF Init
<1>2. NoticeInv /\ [Next]_vars => NoticeInv' BY PartSteps, NoticeStep
<1>3. NoticeInv => NoticeHonest BY DEF NoticeInv, NoticeHonest
<1> QED BY <1>1, <1>2, <1>3, PTL DEF FairSpec, Spec

(***************************************************************************)
(* A row of deliveries tells what the chat shows, for any lists, formats   *)
(* and contents, whatever fails in the middle of an export.                *)
(***************************************************************************)
THEOREM RowsTellTheChat == FairSpec => []RowsAreShown
<1>1. Init => RowsInv BY RowsInit DEF Init
<1>2. RowsInv /\ [Next]_vars => RowsInv' BY PartSteps, RowsStep
<1>3. RowsInv => RowsAreShown BY DEF RowsInv, RowsAreShown
<1> QED BY <1>1, <1>2, <1>3, PTL DEF FairSpec, Spec

(***************************************************************************)
(* "An idle wait is not a stall", for any cadences, thresholds and edits   *)
(* of the configuration (stall_after and the beat task).                   *)
(***************************************************************************)
THEOREM IdleIsNotStalled == FairSpec => []NoFalseAlarm
<1>1. Init => WatchInv BY WatchInit DEF Init
<1>2. WatchInv /\ [Next]_vars => WatchInv' BY PartSteps, WatchStep
<1>3. WatchInv => NoFalseAlarm BY DEF WatchInv, Undisturbed, NoFalseAlarm, W!NoFalseAlarm
<1> QED BY <1>1, <1>2, <1>3, PTL DEF FairSpec, Spec

(***************************************************************************)
(* The external monitor is pinged only while the work goes on, wherever    *)
(* the beat falls between the steps of the cycle.                          *)
(***************************************************************************)
THEOREM PingsAreFresh == FairSpec => []PingFresh
<1>1. Init => WatchInv BY WatchInit DEF Init
<1>2. WatchInv /\ [Next]_vars => WatchInv' BY PartSteps, WatchStep
<1>3. WatchInv => PingFresh BY DEF WatchInv, DecisionFresh, PingFresh, W!PingFresh
<1> QED BY <1>1, <1>2, <1>3, PTL DEF FairSpec, Spec
=============================================================================
