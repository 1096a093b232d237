---------------------------- MODULE ListDelivery ----------------------------
(***************************************************************************)
(* Delivery of the derived lists to the chat: export() of                  *)
(* bins/dev-tracker/src/main.rs and the deliveries table of                *)
(* crates/scout-devdb/src/lib.rs.  A list is sent as one album of the      *)
(* formats whose recorded hash differs from the wallets' hash, and each    *)
(* format is recorded after the album was sent.  The pass is dropped when  *)
(* the daemon stops; only the table outlives it.                           *)
(***************************************************************************)
EXTENDS Integers

CONSTANTS
  Lists,      \* category and chain
  Formats,    \* delivery.formats
  Contents,   \* hashes of a list's wallets
  Empty,      \* the hash of no wallets
  MaxChanges, \* bound: changes of the lists
  MaxFaults   \* bound: failed sends, queries and stops

VARIABLES
  members,   \* what the derivation makes of the facts now
  recorded,  \* the deliveries row of a list and format: the set of its hash
  pc,        \* "idle", "export" or "record"
  seen,      \* the verdicts of the pass
  last,      \* the deliveries the pass read
  todo,      \* the lists the pass has still to send
  album,     \* the list being recorded and its formats not recorded yet
  changes, faults,
  chat,      \* external: the content the chat shows last
  orphan     \* history: the formats sent since their row was last written

vars == <<members, recorded, pc, seen, last, todo, album, changes, faults, chat, orphan>>

NoAlbum == [lists |-> {}, formats |-> {}]

Files == Lists \X Formats

Init ==
  /\ members = [l \in Lists |-> Empty]
  /\ recorded = [x \in Files |-> {}]
  /\ pc = "idle"
  /\ seen = members
  /\ last = recorded
  /\ todo = {}
  /\ album = NoAlbum
  /\ changes = 0
  /\ faults = 0
  /\ chat = [x \in Files |-> "none"]
  /\ orphan = {}

Fault == faults < MaxFaults /\ faults' = faults + 1

----------------------------------------------------------------------------
\* New facts change a list.
Change(l) ==
  /\ changes < MaxChanges
  /\ changes' = changes + 1
  /\ members' \in {[members EXCEPT ![l] = c] : c \in Contents \ {members[l]}}
  /\ UNCHANGED <<recorded, pc, seen, last, todo, album, faults, chat, orphan>>

\* Mutated form of Changed: an empty list is never sent.
ChangedNotEmpty(l, rows, content) ==
  {f \in Formats : content[l] # Empty /\ content[l] \notin rows[<<l, f>>]}

\* The formats of a list to send: the recorded hash differs, or there is
\* none and the list is not empty.
Changed(l, rows, content) ==
  {f \in Formats : IF rows[<<l, f>>] = {} THEN content[l] # Empty
                   ELSE content[l] \notin rows[<<l, f>>]}

\* The daemon reads the deliveries (nothing, if that fails) and derives.
Derive ==
  /\ pc = "idle"
  /\ seen' = members
  /\ \/ last' = recorded /\ UNCHANGED faults
     \/ Fault /\ last' = [x \in Files |-> {}]
  /\ todo' = {l \in Lists : Changed(l, last', members) # {}}
  /\ pc' = "export"
  /\ UNCHANGED <<members, recorded, album, changes, chat, orphan>>

Shown(l, formats) == [x \in Files |-> IF x \in {l} \X formats THEN seen[l] ELSE chat[x]]

\* send_album succeeds, is refused, or its answer is lost; a failed one is
\* "retried next cycle (nothing recorded)".
Send(l) ==
  /\ pc = "export" /\ l \in todo
  /\ LET formats == Changed(l, last, seen)
     IN  \/ /\ chat' = Shown(l, formats)
            /\ orphan' = orphan \cup ({l} \X formats)
            /\ album' = [lists |-> {l}, formats |-> formats]
            /\ pc' = "record"
            /\ UNCHANGED <<todo, faults>>
         \/ /\ Fault
            /\ \/ UNCHANGED <<chat, orphan>>
               \/ /\ chat' = Shown(l, formats)
                  /\ orphan' = orphan \cup ({l} \X formats)
            /\ todo' = todo \ {l}
            /\ UNCHANGED <<album, pc>>
  /\ UNCHANGED <<members, recorded, seen, last, changes>>

\* Mutated form of RecordRow: the list is read again.
RecordRowCurrent(x) == {members[x[1]]}

RecordRow(x) == {seen[x[1]]}

\* record_delivery of one format; a failed query ends the export.
Record(l, f) ==
  /\ pc = "record" /\ l \in album.lists /\ f \in album.formats
  /\ \/ /\ recorded' = [recorded EXCEPT ![<<l, f>>] = RecordRow(<<l, f>>)]
        /\ orphan' = orphan \ {<<l, f>>}
        /\ IF album.formats = {f}
           THEN pc' = "export" /\ todo' = todo \ {l} /\ album' = NoAlbum
           ELSE album' = [album EXCEPT !.formats = @ \ {f}] /\ UNCHANGED <<pc, todo>>
        /\ UNCHANGED faults
     \/ /\ Fault
        /\ pc' = "idle" /\ todo' = {} /\ album' = NoAlbum
        /\ UNCHANGED <<recorded, orphan>>
  /\ UNCHANGED <<members, seen, last, changes, chat>>

Finish ==
  /\ pc = "export" /\ todo = {}
  /\ pc' = "idle"
  /\ UNCHANGED <<members, recorded, seen, last, todo, album, changes, faults, chat, orphan>>

\* The daemon stops or crashes in the middle of the pass.
Stop ==
  /\ pc # "idle"
  /\ Fault
  /\ pc' = "idle" /\ todo' = {} /\ album' = NoAlbum
  /\ UNCHANGED <<members, recorded, seen, last, changes, chat, orphan>>

Pass ==
  \/ Derive \/ Finish
  \/ \E l \in Lists : Send(l) \/ \E f \in Formats : Record(l, f)

Next == Pass \/ Stop \/ \E l \in Lists : Change(l)

Spec == Init /\ [][Next]_vars

----------------------------------------------------------------------------
TypeOK ==
  /\ members \in [Lists -> Contents] /\ seen \in [Lists -> Contents]
  /\ recorded \in [Files -> SUBSET Contents] /\ last \in [Files -> SUBSET Contents]
  /\ \A x \in Files : \A g, h \in recorded[x] : g = h
  /\ pc \in {"idle", "export", "record"}
  /\ todo \subseteq Lists
  /\ album \in [lists : SUBSET Lists, formats : SUBSET Formats]
  /\ changes \in 0..MaxChanges /\ faults \in 0..MaxFaults
  /\ chat \in [Files -> Contents \cup {"none"}]
  /\ orphan \subseteq Files

(***************************************************************************)
(* A row tells what the chat shows: a format that was not sent after its   *)
(* row was written shows the recorded content, whatever changed since and  *)
(* whatever failed in the middle of a pass.                                *)
(***************************************************************************)
RowsAreShown ==
  \A x \in Files \ orphan : recorded[x] = (IF chat[x] = "none" THEN {} ELSE {chat[x]})

Shows(x) == chat[x] = members[x[1]] \/ (chat[x] = "none" /\ members[x[1]] = Empty)

\* Every format whose row is up to date comes to show the list as it is.
ChangesArrive == <>[](\A x \in Files \ orphan : Shows(x))
=============================================================================
