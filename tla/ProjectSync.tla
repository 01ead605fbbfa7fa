---------------------------- MODULE ProjectSync ----------------------------
(***************************************************************************)
(* The project document between an editor and the studio:                  *)
(* src/editor/useStudio.ts with its journal (src/infrastructure/           *)
(* projectJournal.ts), its store (library.ts) and its review of conflicts  *)
(* (projectMerge.ts), and server/store.ts with server/projectCommands.ts.  *)
(*                                                                         *)
(* One editor is followed, in one tab.  The other editors of the project   *)
(* are what the server takes from them: a saved document, which has a new  *)
(* revision, and an edited record of a collection, which has not.  Every   *)
(* transaction of IndexedDB and of the studio database is a step, and so   *)
(* is what the editor does between two awaits.                             *)
(*                                                                         *)
(* A document is its revision, one field of the document (page), one       *)
(* record of a collection (item) and who stamped its updatedAt (at).  What *)
(* an editor types, and what the others write, is a number of its own.     *)
(***************************************************************************)
EXTENDS Naturals, Sequences, FiniteSetsExt

CONSTANTS
  None,        \* no document, command, request or answer
  MaxEdits,    \* bound: edits made in the editor
  MaxOthers,   \* bound: documents saved by other editors
  MaxItems,    \* bound: edits of the record by others
  MaxFaults,   \* bound: closings, lost messages, disconnections, repeated saves
  MaxCommands  \* bound: commands of the journal

ASSUME ProjectSyncAssumption ==
  /\ {MaxEdits, MaxOthers, MaxItems, MaxFaults, MaxCommands} \subseteq Nat
  /\ None \notin Nat

VARIABLES
  server,      \* the project of the studio as it answers it
  raw,         \* the record as it was when the document was last saved
  receipts,    \* [command -> the document answered to it], None if not taken
  late,        \* requests under way whose sender does not wait any more
  localDoc,    \* the document in IndexedDB
  storedBase,  \* the base of the synchronisation in IndexedDB
  journal,     \* the commands in IndexedDB, in the order of their making
  tab,         \* closed, resuming or open
  todo,        \* the commands the opening editor has still to ask about
  ready,       \* the editor has compared itself with the server
  online,      \* the browser is connected
  present,     \* the document in the editor
  base,        \* remoteBases: the base of the synchronisation
  conflict,    \* pendingConflicts: base, local and remote under review
  dirty,       \* the timer of the automatic save is running
  waiting,     \* the snapshot at the head of remoteSyncQueue
  job,         \* the synchronisation under way
  answer,      \* the answer to its request
  edits, others, items, faults,  \* counters of the bounds
  shown,       \* history: what the user has had before his eyes
  drifted,     \* history: records that became the base without being shown
  dropped,     \* history: pages the user has overwritten, rejected or lost unsaved
  behind,      \* history: pages written under a revision that was not new
  served       \* history: <<revision, page>> of every document of the server

stored == <<localDoc, storedBase, journal>>
studio == <<server, raw, receipts, served>>
memory == <<tab, todo, ready, present, base, conflict, dirty>>
sending == <<waiting, job, answer>>
counters == <<edits, others, items, faults>>
history == <<shown, drifted, dropped, behind>>
vars == <<studio, late, stored, memory, online, sending, counters, history>>

Field == {"page", "item"}
Page == 0..(MaxEdits + MaxOthers)
Item == 0..MaxItems
Doc == [rev: Nat, page: Page, item: Item, at: {"editor", "server"}]
Id == 1..MaxCommands
Change == [before: Page \cup Item, after: Page \cup Item]
Changes == UNION {[s -> Change] : s \in SUBSET Field}
Command == [base: Nat, changes: Changes, snap: Doc \cup {None},
            status: {"pending", "acknowledged", "blocked", "superseded"}]
\* A request without an id is PUT /api/projects with the whole document.
Request == [id: Id \cup {None}, base: Nat, changes: Changes, doc: Doc]
\* Who asks for a synchronisation: the automatic save, the user, or the listener
\* of the connection.
Trigger == {"autosave", "retry", "online"}
Job == [pc: {"queued", "sent", "confirmed", "based", "stored"}, snap: Doc, base: Doc,
        id: Id \cup {None}, canonical: Doc \cup {None}, by: Trigger]
Waiting == [snap: Doc, by: Trigger]
Conflict == [base: Doc, local: Doc, remote: Doc]
Answer == [ok: BOOLEAN, doc: Doc]

ASSUME NoneAssumption ==
  None \notin Doc \cup Id \cup Job \cup Waiting \cup Conflict \cup Answer

\* Every variable stays in its type.
TypeOK ==
  /\ server \in Doc /\ raw \in Item /\ receipts \in [Id -> Doc \cup {None}]
  /\ late \subseteq Request
  /\ localDoc \in Doc /\ storedBase \in Doc
  /\ journal \in Seq(Command) /\ Len(journal) <= MaxCommands
  /\ tab \in {"closed", "resuming", "open"} /\ todo \subseteq Id
  /\ {ready, online, dirty} \subseteq BOOLEAN
  /\ present \in Doc \cup {None} /\ base \in Doc \cup {None}
  /\ conflict \in Conflict \cup {None}
  /\ waiting \in Waiting \cup {None} /\ job \in Job \cup {None}
  /\ answer \in Answer \cup {None}
  /\ edits \in 0..MaxEdits /\ others \in 0..MaxOthers
  /\ items \in 0..MaxItems /\ faults \in 0..MaxFaults
  /\ shown \in [page: SUBSET Page, item: SUBSET Item]
  /\ drifted \subseteq Item /\ {dropped, behind} \subseteq SUBSET Page
  /\ served \subseteq Nat \X Page

First == [rev |-> 0, page |-> 0, item |-> 0, at |-> "server"]

Init ==
  /\ server = First /\ raw = 0 /\ receipts = [id \in Id |-> None] /\ late = {}
  /\ localDoc = First /\ storedBase = First /\ journal = << >>
  /\ tab = "closed" /\ todo = {} /\ ready = FALSE /\ online = TRUE
  /\ present = None /\ base = None /\ conflict = None /\ dirty = FALSE
  /\ waiting = None /\ job = None /\ answer = None
  /\ edits = 0 /\ others = 0 /\ items = 0 /\ faults = 0
  /\ shown = [page |-> {}, item |-> {}] /\ drifted = {}
  /\ dropped = {} /\ behind = {}
  /\ served = {<<0, 0>>}

Show(docs) == shown' = [f \in Field |-> shown[f] \cup {d[f] : d \in docs}]
Fault == faults < MaxFaults /\ faults' = faults + 1

-----------------------------------------------------------------------------
(* The studio.                                                             *)

\* What is stored of a document: a record that is as it was when the document
\* was last saved has not been edited here, and the indexed one stays.
Reconciled(doc) == [doc EXCEPT !.item = IF @ = raw THEN server.item ELSE @]

Write(doc) ==
  /\ server' = doc /\ raw' = doc.item
  /\ served' = served \cup {<<doc.rev, doc.page>>}

\* Mutant of Applied: the new revision is the proposed one.
AppliedAsProposed(request) ==
  [rev |-> Max({server.rev, request.doc.rev}), at |-> "server",
   page |-> IF "page" \in DOMAIN request.changes
            THEN request.changes["page"].after ELSE server.page,
   item |-> IF "item" \in DOMAIN request.changes
            THEN request.changes["item"].after ELSE server.item]

\* The document a command makes of the current one.
Applied(request) ==
  LET After(f) == IF f \in DOMAIN request.changes
                  THEN request.changes[f].after ELSE server[f]
  IN  [rev |-> Max({server.rev + 1, request.doc.rev}), page |-> After("page"),
       item |-> After("item"), at |-> "server"]

\* Mutant of Applies: neither the revision nor the old values are compared.
AppliesAnyway(request) == request.base <= server.rev

Applies(request) ==
  /\ server.rev = request.base
  /\ \A f \in DOMAIN request.changes : server[f] = request.changes[f].before

\* PUT takes a document on the revision it was made from, never back, and two
\* documents of one revision only if they are the same.
Replaces(request) ==
  /\ server.rev = request.base
  /\ request.doc.rev >= server.rev
  /\ request.doc.rev = server.rev => Reconciled(request.doc) = server

Taken(id) == id # None /\ receipts[id] # None
Refused(request) ==
  ~(IF request.id = None THEN Replaces(request) ELSE Applies(request))

\* Mutant of Serve: the receipt is not stored with the document.
ServeWithoutReceipt(request) ==
  /\ UNCHANGED receipts
  /\ IF Refused(request) THEN UNCHANGED <<server, raw, served>>
     ELSE Write(Reconciled(IF request.id = None THEN request.doc ELSE Applied(request)))

\* What the server makes of a request: a command is taken once, together with
\* its receipt.
Serve(request) ==
  \/ /\ Taken(request.id) \/ Refused(request)
     /\ UNCHANGED studio
  \/ /\ request.id # None /\ ~Taken(request.id) /\ Applies(request)
     /\ LET doc == Reconciled(Applied(request))
        IN  Write(doc) /\ receipts' = [receipts EXCEPT ![request.id] = doc]
  \/ /\ request.id = None /\ Replaces(request)
     /\ Write(Reconciled(request.doc)) /\ UNCHANGED receipts

\* And what it answers: to a command that was taken, what it answered then; to
\* a document, the document as it was sent.
Reply(request) ==
  IF Taken(request.id) THEN [ok |-> TRUE, doc |-> receipts[request.id]]
  ELSE IF Refused(request) THEN [ok |-> FALSE, doc |-> server]
  ELSE [ok |-> TRUE, doc |-> IF request.id = None THEN request.doc
                             ELSE Reconciled(Applied(request))]

\* Another editor saves the document it has just loaded, or edits the record
\* through the content service, which keeps the revision of the document.
OtherSaves ==
  /\ others < MaxOthers /\ others' = others + 1
  /\ Write([server EXCEPT !.rev = @ + 1, !.page = edits + others + 1, !.at = "server"])
  /\ UNCHANGED <<receipts, late, stored, memory, online, sending, history>>
  /\ UNCHANGED <<edits, items, faults>>

OtherEditsItem ==
  /\ items < MaxItems /\ items' = items + 1
  /\ server' = [server EXCEPT !.item = items + 1]
  /\ UNCHANGED <<raw, receipts, served, late, stored, memory, online, sending, history>>
  /\ UNCHANGED <<edits, others, faults>>

\* The request of the synchronisation under way.
Current ==
  LET id == job.id
  IN  [id |-> id, base |-> job.base.rev,
       changes |-> IF id = None THEN << >> ELSE journal[id].changes,
       doc |-> IF id = None THEN job.snap ELSE journal[id].snap]

Unserved == job # None /\ job.pc = "sent" /\ answer = None

ServeRequest ==
  /\ Unserved
  /\ Serve(Current) /\ answer' = Reply(Current)
  /\ UNCHANGED <<late, stored, memory, online, waiting, job, counters, history>>

ServeLate ==
  /\ \E request \in late : Serve(request) /\ late' = late \ {request}
  /\ UNCHANGED <<stored, memory, online, sending, counters, history>>

-----------------------------------------------------------------------------
(* The document in the editor.                                             *)

\* What the user may write: a page that is new, or what he has had before his eyes
\* (undo, redo).
Typed == {edits + others + 1} \cup shown.page

\* A document older than a base, or not newer than a snapshot under way: the
\* revision is all by which the editor tells which document came later.
Behind(doc) ==
  \/ doc.rev < base.rev \/ doc.rev < storedBase.rev
  \/ waiting # None /\ doc.rev <= waiting.snap.rev
  \/ job # None /\ doc.rev <= job.snap.rev
  \/ \E i \in DOMAIN journal : journal[i].snap # None /\ doc.rev <= journal[i].snap.rev

\* The user replaces the page on the screen.
Writes(doc) ==
  /\ present' = doc
  /\ dropped' = (dropped \cup {present.page}) \ {doc.page}
  /\ behind' = IF Behind(doc) THEN behind \cup {doc.page} ELSE behind

Edit ==
  /\ tab = "open" /\ edits < MaxEdits
  /\ \E page \in Typed, item \in shown.item :
       /\ <<page, item>> # <<present.page, present.item>>
       /\ Writes([rev |-> present.rev + 1, page |-> page, item |-> item, at |-> "editor"])
  /\ edits' = edits + 1 /\ dirty' = TRUE
  /\ Show({present'})
  /\ UNCHANGED <<studio, late, stored, tab, todo, ready, online, base, conflict>>
  /\ UNCHANGED <<sending, others, items, faults, drifted>>

\* persistProject: the stored document never goes back, and it changes within a
\* revision only for the canonical document of the server.
MayPersist(doc, canonical) ==
  \/ localDoc.rev < doc.rev
  \/ localDoc.rev = doc.rev /\ (canonical \/ localDoc = doc)

\* The automatic save stores the document before it asks the server, and the
\* next one begins when the server has answered it.  A save that is refused is not
\* repeated before the next change.
Autosave ==
  /\ tab = "open" /\ dirty /\ dirty' = FALSE /\ waiting = None
  /\ ~(job # None /\ job.by = "autosave")
  /\ IF MayPersist(present, FALSE)
     THEN /\ localDoc' = present
          /\ waiting' = IF ready THEN [snap |-> present, by |-> "autosave"] ELSE None
     ELSE UNCHANGED <<localDoc, waiting>>
  /\ UNCHANGED <<studio, late, storedBase, journal, tab, todo, ready, present>>
  /\ UNCHANGED <<base, conflict, online, job, answer, counters, history>>

\* The button of the journal panel and of the save state.  It waits for no other
\* save.  The bound counts it once the editor is ready.
RetrySave ==
  /\ tab = "open" /\ online /\ waiting = None
  /\ ~ready \/ \E i \in DOMAIN journal : journal[i].status \in {"pending", "blocked"}
  /\ MayPersist(present, FALSE) /\ localDoc' = present
  /\ waiting' = [snap |-> present, by |-> "retry"]
  /\ IF ready THEN Fault ELSE UNCHANGED faults
  /\ UNCHANGED <<studio, late, storedBase, journal, memory, online, job, answer>>
  /\ UNCHANGED <<edits, others, items, history>>

GoOffline ==
  /\ online /\ online' = FALSE /\ Fault
  /\ UNCHANGED <<studio, late, stored, memory, sending, edits, others, items, history>>

\* Mutant of GoOnline: the listener outlives the editor.
GoOnlineAlways ==
  /\ ~online /\ online' = TRUE /\ waiting = None
  /\ waiting' = [snap |-> present, by |-> "online"]
  /\ UNCHANGED <<studio, late, stored, memory, job, answer, counters, history>>

\* The document goes to the server as it is, without being stored first.
GoOnline ==
  /\ ~online /\ online' = TRUE /\ waiting = None
  /\ waiting' = IF tab = "open" THEN [snap |-> present, by |-> "online"] ELSE None
  /\ UNCHANGED <<studio, late, stored, memory, job, answer, counters, history>>

-----------------------------------------------------------------------------
(* syncProject.                                                            *)

Differences(from, to) ==
  [f \in {g \in Field : from[g] # to[g]} |-> [before |-> from[f], after |-> to[f]]]

\* queueCommand: the same changes on the same base are the same command.
Queued(snap) ==
  {i \in DOMAIN journal : /\ journal[i].status = "pending"
                          /\ journal[i].base = base.rev
                          /\ journal[i].changes = Differences(base, snap)}

QueueCommand(snap, id) ==
  LET changes == Differences(base, snap) IN
  \/ changes = << >> /\ id = None /\ UNCHANGED journal
  \/ changes # << >> /\ id \in Queued(snap) /\ UNCHANGED journal
  \/ /\ changes # << >> /\ Queued(snap) = {} /\ id = Len(journal) + 1
     /\ journal' = Append(journal, [base |-> base.rev, changes |-> changes,
                                    snap |-> snap, status |-> "pending"])

SyncStart ==
  /\ waiting # None /\ job = None /\ waiting' = None
  /\ IF waiting.snap.rev < base.rev \/ waiting.snap = base
     THEN /\ ready' = (ready \/ (waiting.by = "retry" /\ waiting.snap = base))
          /\ UNCHANGED <<journal, job>>
     ELSE /\ \E id \in Id \cup {None} :
               /\ QueueCommand(waiting.snap, id)
               /\ job' = [pc |-> "queued", snap |-> waiting.snap, base |-> base,
                          id |-> id, canonical |-> None, by |-> waiting.by]
          /\ UNCHANGED ready
  /\ dirty' = (dirty \/ ready' # ready)
  /\ UNCHANGED <<studio, late, localDoc, storedBase, tab, todo, present, base>>
  /\ UNCHANGED <<conflict, online, answer, counters, history>>

\* Mutant of SyncSend: the queue waits for the connection and for the review.
SyncSendWaits ==
  /\ job # None /\ job.pc = "queued" /\ online /\ conflict = None
  /\ job' = [job EXCEPT !.pc = "sent"]
  /\ UNCHANGED <<studio, late, stored, memory, online, waiting, answer>>
  /\ UNCHANGED <<counters, history>>

SyncSend ==
  /\ job # None /\ job.pc = "queued"
  /\ job' = IF online /\ conflict = None THEN [job EXCEPT !.pc = "sent"] ELSE None
  /\ UNCHANGED <<studio, late, stored, memory, online, waiting, answer>>
  /\ UNCHANGED <<counters, history>>

\* The request or the answer is late or lost: the editor gives up, and the
\* server may take the request yet.
SyncFails ==
  /\ job # None /\ job.pc = "sent" /\ Fault
  /\ late' = IF answer = None THEN late \cup {Current} ELSE late
  /\ job' = None /\ answer' = None
  /\ UNCHANGED <<studio, stored, memory, online, waiting, edits, others, items, history>>

Answered == job # None /\ job.pc = "sent" /\ answer # None

\* 409: the command is blocked and what the server has now is compared.
SyncRefused ==
  /\ Answered /\ ~answer.ok
  /\ journal' = IF job.id = None THEN journal
                ELSE [journal EXCEPT ![job.id].status = "blocked"]
  /\ conflict' = IF online THEN [base |-> job.base, local |-> job.snap, remote |-> server]
                 ELSE conflict
  /\ job' = None /\ answer' = None
  /\ UNCHANGED <<studio, late, localDoc, storedBase, tab, todo, ready, present>>
  /\ UNCHANGED <<base, dirty, online, waiting, counters, history>>

\* commandState keeps neither the snapshot nor the changes of what is confirmed.
Confirmed(command, status) ==
  [command EXCEPT !.status = status, !.snap = None, !.changes = << >>]

\* What an older command wanted is in the newer one.
Superseded(i) ==
  /\ journal[i].status \in {"pending", "blocked"}
  /\ journal[i].snap.rev <= job.snap.rev

SyncConfirmed ==
  /\ Answered /\ answer.ok /\ answer' = None
  /\ journal' = IF job.id = None THEN journal
                ELSE [i \in DOMAIN journal |->
                        IF i = job.id THEN Confirmed(journal[i], "acknowledged")
                        ELSE IF Superseded(i) THEN Confirmed(journal[i], "superseded")
                        ELSE journal[i]]
  /\ job' = [job EXCEPT !.pc = "confirmed", !.canonical = answer.doc]
  /\ base' = answer.doc
  /\ UNCHANGED <<studio, late, localDoc, storedBase, tab, todo, ready, present>>
  /\ UNCHANGED <<conflict, dirty, online, waiting, counters, history>>

SyncRebases ==
  /\ job # None /\ job.pc = "confirmed" /\ job' = [job EXCEPT !.pc = "based"]
  /\ storedBase' = job.canonical
  /\ UNCHANGED <<studio, late, localDoc, journal, memory, online, waiting, answer>>
  /\ UNCHANGED <<counters, history>>

\* Mutant of Unedited: the document the user has edited meanwhile is replaced too.
UneditedAlways == TRUE

\* The editor still shows what was sent.
Unedited == present.rev = job.snap.rev

Adopts == job.canonical # job.snap /\ Unedited

\* The end of a synchronisation, with a document in the editor: one that has
\* become ready, or has another document, is saved again.
SyncEnds(shows, ok) ==
  /\ job' = None
  /\ ready' = (ready \/ (job.by = "retry" /\ ok))
  /\ dirty' = (dirty \/ ready' # ready \/ shows # present)
  /\ Show({shows})
  /\ drifted' = drifted \cup ({job.canonical.item} \ shown'.item)

\* The canonical document takes the place of the snapshot on the device, unless
\* the user has gone on editing: then his document stays, only the base moves.
SyncStores ==
  /\ job # None /\ job.pc = "based"
  /\ IF Adopts /\ MayPersist(job.canonical, TRUE)
     THEN /\ localDoc' = job.canonical /\ job' = [job EXCEPT !.pc = "stored"]
          /\ UNCHANGED <<ready, dirty, shown, drifted>>
     ELSE SyncEnds(present, ~Adopts) /\ UNCHANGED localDoc
  /\ UNCHANGED <<studio, late, storedBase, journal, tab, todo, present, base>>
  /\ UNCHANGED <<conflict, online, waiting, answer, counters, dropped, behind>>

\* And in the editor, unless he has edited while it was stored.
SyncAdopts ==
  /\ job # None /\ job.pc = "stored"
  /\ present' = IF Unedited THEN job.canonical ELSE present
  /\ SyncEnds(present', TRUE)
  /\ UNCHANGED <<studio, late, stored, tab, todo, base, conflict, online, waiting>>
  /\ UNCHANGED <<answer, counters, dropped, behind>>

Sync == \/ SyncStart \/ SyncSend \/ SyncRefused \/ SyncConfirmed
        \/ SyncRebases \/ SyncStores \/ SyncAdopts
-----------------------------------------------------------------------------
(* The review of a conflict.                                               *)

\* The values a field may have after the merge: a field changed on both sides
\* is the choice of the user.
Merged(f, review) ==
  LET b == review.base[f]  l == review.local[f]  r == review.remote[f]
  IN  IF l = r \/ r = b THEN {l} ELSE IF l = b THEN {r} ELSE {l, r}

\* The document was edited meanwhile: it is compared again.
ReviewAgain ==
  /\ tab = "open" /\ conflict # None /\ present.rev # conflict.local.rev
  /\ conflict' = [conflict EXCEPT !.local = present]
  /\ UNCHANGED <<studio, late, stored, tab, todo, ready, present, base, dirty>>
  /\ UNCHANGED <<online, sending, counters, history>>

ReviewApply ==
  /\ tab = "open" /\ conflict # None /\ present.rev = conflict.local.rev
  /\ \E page \in Merged("page", conflict), item \in Merged("item", conflict) :
       Writes([rev |-> Max({conflict.base.rev, conflict.local.rev,
                            conflict.remote.rev}) + 1,
               page |-> page, item |-> item, at |-> "editor"])
  /\ base' = conflict.remote /\ conflict' = None /\ dirty' = TRUE
  /\ Show({conflict.remote, present'})
  /\ UNCHANGED <<studio, late, stored, tab, todo, ready, online, sending, counters, drifted>>

-----------------------------------------------------------------------------
(* Closing and opening the tab.                                            *)

\* What is in memory is lost, also what was not stored yet: the browser warns.
Close ==
  /\ tab = "open" /\ Fault
  /\ late' = IF Unserved THEN late \cup {Current} ELSE late
  /\ tab' = "closed" /\ ready' = FALSE /\ present' = None /\ base' = None
  /\ conflict' = None /\ dirty' = FALSE
  /\ waiting' = None /\ job' = None /\ answer' = None
  /\ dropped' = IF localDoc = present THEN dropped ELSE dropped \cup {present.page}
  /\ UNCHANGED <<studio, stored, todo, online, edits, others, items, shown, drifted>>
  /\ UNCHANGED behind

Load ==
  /\ tab = "closed" /\ tab' = "resuming"
  /\ base' = storedBase
  /\ todo' = {i \in DOMAIN journal : journal[i].snap # None}
  /\ UNCHANGED <<studio, late, stored, ready, present, conflict, dirty, online>>
  /\ UNCHANGED <<sending, counters, history>>

\* A command the server has taken is sent again for the document it made; that
\* is the base, and the stored document if nothing came after it.
Resume ==
  /\ tab = "resuming" /\ todo # {}
  /\ LET id == Min(todo)  doc == receipts[id] IN
     /\ todo' = todo \ {id}
     /\ IF online /\ doc # None
        THEN /\ base' = doc /\ storedBase' = doc
             /\ localDoc' = IF localDoc = journal[id].snap THEN doc ELSE localDoc
             /\ journal' = [journal EXCEPT ![id] = Confirmed(@, "acknowledged")]
        ELSE UNCHANGED <<base, stored>>
  /\ UNCHANGED <<studio, late, tab, ready, present, conflict, dirty, online>>
  /\ UNCHANGED <<sending, counters, history>>

\* It cannot be asked, or its answer is lost: nor are the commands after it.
ResumeFails ==
  /\ tab = "resuming" /\ todo # {} /\ todo' = {}
  /\ UNCHANGED <<studio, late, stored, tab, ready, present, base, conflict, dirty>>
  /\ UNCHANGED <<online, sending, counters, history>>

\* The documents of the device and of the server have both changed.
Diverged ==
  localDoc # server /\ localDoc # base /\ server # base

OpenOnline ==
  /\ tab = "resuming" /\ todo = {} /\ online
  /\ tab' = "open" /\ ready' = TRUE /\ dirty' = TRUE
  /\ IF Diverged
     THEN /\ conflict' = [base |-> base, local |-> localDoc, remote |-> server]
          /\ UNCHANGED <<base, storedBase>>
     ELSE base' = server /\ storedBase' = server /\ UNCHANGED conflict
  /\ present' = IF Diverged \/ localDoc.rev >= server.rev THEN localDoc ELSE server
  /\ Show({present'})
  /\ drifted' = IF Diverged THEN drifted ELSE drifted \cup ({server.item} \ shown'.item)
  /\ UNCHANGED <<studio, late, localDoc, journal, todo, online, sending, counters, dropped, behind>>

\* Without the server the editor opens what is on the device.
OpenOffline ==
  /\ tab = "resuming" /\ todo = {}
  /\ IF online THEN Fault ELSE UNCHANGED faults
  /\ tab' = "open" /\ dirty' = TRUE
  /\ present' = localDoc /\ Show({localDoc})
  /\ drifted' = drifted \cup ({base.item} \ shown'.item)
  /\ UNCHANGED <<studio, late, stored, todo, ready, base, conflict, online>>
  /\ UNCHANGED <<sending, edits, others, items, dropped, behind>>

-----------------------------------------------------------------------------
Next ==
  \/ OtherSaves \/ OtherEditsItem \/ ServeRequest \/ ServeLate
  \/ Edit \/ Autosave \/ RetrySave \/ GoOffline \/ GoOnline
  \/ Sync \/ SyncFails \/ ReviewAgain \/ ReviewApply
  \/ Close \/ Load \/ Resume \/ ResumeFails \/ OpenOnline \/ OpenOffline

\* The timer of the automatic save fires and the queue of synchronisations moves
\* on; a request is answered or given up (api.ts:107), as long as faults last.
Fairness == WF_vars(Autosave) /\ WF_vars(Sync) /\ WF_vars(ServeRequest)

Spec == Init /\ [][Next]_vars /\ Fairness

-----------------------------------------------------------------------------
\* What another editor has saved, or what he has made of the record, is
\* replaced by this one only if its user has had it before his eyes, in his
\* document or in a review.  Exempt are records that became the base without
\* being shown (drifted), and a whole document sent by PUT, which carries its
\* record along.
NoBlindOverwrite ==
  [][/\ others' = others /\ server'.page # server.page => server.page \in shown.page
     /\ items' = items /\ others' = others /\ server'.item # server.item =>
          \/ server.item \in shown.item \cup drifted
          \/ receipts' = receipts]_vars

\* What is on the screen gets to the device, however long the server takes to
\* answer the saves before, unless the tab is closed or the device has another
\* document of this revision: library.ts:99 refuses what was typed while
\* useStudio.ts:248 stored the canonical document.
StoredInTheEnd ==
  []<>(\/ present = None \/ present.page = localDoc.page
       \/ ~MayPersist(present, FALSE)
       \/ Len(journal) = MaxCommands)

\* A command is confirmed in the journal only if the server has a receipt.
ConfirmedIsTaken ==
  \A i \in DOMAIN journal : journal[i].status = "acknowledged" => receipts[i] # None

\* What the user has typed is never lost: as long as he has not overwritten,
\* rejected or abandoned it, it is a document the server has had, or the editor
\* shows it, or it is on the device, as the document or in a command.
TypedKept ==
  \A page \in shown.page \ (dropped \cup behind) :
    \/ page \in {p[2] : p \in served}
    \/ present # None /\ page = present.page
    \/ page = localDoc.page
    \/ \E i \in DOMAIN journal : journal[i].snap # None /\ page = journal[i].snap.page

\* A revision names one document: no two documents of the server have the same
\* revision and different pages, and every base is one the server has had.
RevisionNamesPage ==
  /\ \A p, q \in served : p[1] = q[1] => p = q
  /\ \A doc \in {base, storedBase} : doc # None => <<doc.rev, doc.page>> \in served
=============================================================================
