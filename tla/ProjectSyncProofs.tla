------------------------- MODULE ProjectSyncProofs -------------------------
(***************************************************************************)
(* The invariants of ProjectSync, and its action property, for any number  *)
(* of edits, saves of others, commands and faults.                         *)
(***************************************************************************)
EXTENDS ProjectSync, FiniteSums, SequenceTheorems

\* Values of a field, and documents, commands and the rest as they may be when the
\* record has been edited n times.
Value(f, n) == IF f = "page" THEN Page ELSE 0..n
DocAt(n) == [rev: Nat, page: Page, item: 0..n, at: {"editor", "server"}]
Fits(changes, n) ==
  \A f \in DOMAIN changes : changes[f].before \in Value(f, n) /\ changes[f].after \in Value(f, n)
CommandAt(n) ==
  {c \in [base: Nat, changes: Changes, snap: DocAt(n) \cup {None},
          status: {"pending", "acknowledged", "blocked", "superseded"}] : Fits(c.changes, n)}
RequestAt(n) ==
  {r \in [id: Id \cup {None}, base: Nat, changes: Changes, doc: DocAt(n)] : Fits(r.changes, n)}
JobAt(n) ==
  [pc: {"queued", "sent", "confirmed", "based", "stored"}, snap: DocAt(n), base: DocAt(n),
   id: Id \cup {None}, canonical: DocAt(n) \cup {None}, by: Trigger]
WaitingAt(n) == [snap: DocAt(n), by: Trigger]
ConflictAt(n) == [base: DocAt(n), local: DocAt(n), remote: DocAt(n)]
AnswerAt(n) == [ok: BOOLEAN, doc: DocAt(n)]

\* No record is newer than the last edit of it.
TypeInv ==
  /\ server \in DocAt(items) /\ raw \in 0..items
  /\ receipts \in [Id -> DocAt(items) \cup {None}]
  /\ late \subseteq RequestAt(items)
  /\ localDoc \in DocAt(items) /\ storedBase \in DocAt(items)
  /\ journal \in Seq(CommandAt(items)) /\ Len(journal) <= MaxCommands
  /\ tab \in {"closed", "resuming", "open"} /\ todo \subseteq Id
  /\ ready \in BOOLEAN /\ online \in BOOLEAN /\ dirty \in BOOLEAN
  /\ present \in DocAt(items) \cup {None} /\ base \in DocAt(items) \cup {None}
  /\ conflict \in ConflictAt(items) \cup {None}
  /\ waiting \in WaitingAt(items) \cup {None} /\ job \in JobAt(items) \cup {None}
  /\ answer \in AnswerAt(items) \cup {None}
  /\ edits \in 0..MaxEdits /\ others \in 0..MaxOthers
  /\ items \in 0..MaxItems /\ faults \in 0..MaxFaults
  /\ shown \in [page: SUBSET Page, item: SUBSET (0..items)]
  /\ drifted \subseteq Item /\ dropped \subseteq Page /\ behind \subseteq Page
  /\ served \subseteq Nat \X Page

\* What is in memory belongs to an open tab; a command is asked about when it opens.
EditorInv ==
  /\ tab = "closed" <=> base = None
  /\ tab = "open" <=> present # None
  /\ tab # "open" => waiting = None /\ job = None /\ conflict = None
  /\ answer # None => job # None /\ job.pc = "sent"
  /\ tab = "resuming" => base = storedBase
  /\ \A i \in todo : i \in DOMAIN journal /\ journal[i].snap # None
  /\ tab # "resuming" => todo = {}

\* The job waits for the server, or the server has taken its document.
Asking == job # None /\ job.pc \in {"queued", "sent"}
Done == job # None /\ job.pc \in {"confirmed", "based", "stored"}

\* The job under way, its command and the base fit together.
JobInv ==
  /\ job # None /\ job.pc # "queued" => conflict = None
  /\ Asking /\ job.id # None =>
       /\ job.id \in DOMAIN journal /\ journal[job.id].status = "pending"
       /\ journal[job.id].base = job.base.rev
       /\ journal[job.id].changes = Differences(job.base, job.snap)
  /\ Done =>
       /\ job.canonical # None /\ base = job.canonical
       /\ job.canonical.page = job.snap.page
  /\ answer # None /\ answer.ok => answer.doc.page = job.snap.page

\* A command that is not confirmed makes the page of its snapshot of its base.
CommandInv ==
  \A i \in DOMAIN journal :
    LET c == journal[i] IN
    /\ c.status \in {"pending", "blocked"} => c.snap # None
    /\ c.snap # None =>
        /\ c.base <= c.snap.rev
        /\ c.snap.page \in shown.page
        /\ IF "page" \in DOMAIN c.changes THEN c.changes["page"].after = c.snap.page
           ELSE <<c.base, c.snap.page>> \in served

\* A late request is the command as it stands in the journal.
LateInv ==
  \A r \in late :
    r.id # None =>
      /\ r.id \in DOMAIN journal
      /\ journal[r.id].snap # None =>
           /\ r.base = journal[r.id].base /\ r.changes = journal[r.id].changes
           /\ r.doc = journal[r.id].snap

\* A receipt is of the page of the snapshot, and at most one revision after it.
ReceiptInv ==
  \A i \in Id :
    receipts[i] # None =>
      /\ i \in DOMAIN journal
      /\ journal[i].snap # None =>
           receipts[i].page = journal[i].snap.page /\ receipts[i].rev <= journal[i].snap.rev + 1

\* A good answer is the receipt of the command, or the document as it was sent.
ConfirmedInv ==
  /\ ConfirmedIsTaken
  /\ answer # None /\ answer.ok =>
       IF job.id = None THEN answer.doc = job.snap ELSE receipts[job.id] = answer.doc

\* A document of the studio, or one that differs from it only in the record.
Past(d) == <<d.rev, d.page>> \in served /\ (d.rev = server.rev => d.at = server.at)

\* A revision of the studio names one page, and all bases are documents of it.
ServedInv ==
  /\ \A p \in served : p[1] <= server.rev
  /\ \A p, q \in served : p[1] = q[1] => p = q
  /\ <<server.rev, server.page>> \in served
  /\ Past(storedBase)
  /\ \A i \in Id : receipts[i] # None => Past(receipts[i])
  /\ base # None => Past(base)
  /\ conflict # None => Past(conflict.remote)
  /\ job # None => Past(job.base)
  /\ Done => Past(job.canonical)
  /\ answer # None /\ answer.ok => Past(answer.doc)

\* What is on the screen, under way or a base has been before the eyes of the user;
\* a base that was not is on the device, and is shown when the editor opens.
SeenInv ==
  /\ storedBase.page \in shown.page \/ (tab # "open" /\ storedBase.page = localDoc.page)
  /\ base # None => base.page \in shown.page \/ (tab # "open" /\ base.page = localDoc.page)
  /\ present # None => present.page \in shown.page
  /\ waiting # None => waiting.snap.page \in shown.page
  /\ job # None => job.snap.page \in shown.page /\ job.base.page \in shown.page
  /\ \A r \in late : \E page \in shown.page : <<r.base, page>> \in served

\* The record of that revision is not what the server has, or it has been seen.
ItemSeen(item, rev) == server.rev = rev /\ server.item = item => item \in shown.item \cup drifted

\* The record of a base, and what a late command takes it from, has been seen.
ItemInv ==
  /\ tab = "open" /\ ~Done => ItemSeen(base.item, base.rev)
  /\ Asking => ItemSeen(job.base.item, job.base.rev)
  /\ \A r \in late :
       "item" \in DOMAIN r.changes => r.id # None /\ ItemSeen(r.changes["item"].before, r.base)

\* The document of the user: on the screen, or on the device.
Mine == IF tab = "open" THEN present ELSE localDoc
\* The pages that are the server's, given up, or written under an old revision.
Safe == {p[2] : p \in served} \cup dropped \cup behind
\* All that was shown is safe or on this document; a base, a snapshot or an answer that
\* is not older than it, and so may take its place, is of its page unless that is safe.
KeptFor(mine) ==
  /\ \A page \in shown.page : page \in Safe \/ page = mine.page
  /\ mine.rev < storedBase.rev => mine.page \in Safe
  /\ \A i \in DOMAIN journal :
       journal[i].snap # None /\ mine.rev <= journal[i].snap.rev =>
         mine.page \in Safe \/ mine.page = journal[i].snap.page
  /\ waiting # None /\ mine.rev <= waiting.snap.rev =>
         mine.page \in Safe \/ mine.page = waiting.snap.page
  /\ job # None /\ mine.rev <= job.snap.rev =>
         mine.page \in Safe \/ mine.page = job.snap.page
  /\ Done /\ mine.rev < job.canonical.rev => mine.page \in Safe

\* What he has typed is safe, or it is his document.
KeptInv == KeptFor(Mine) /\ localDoc.page \in shown.page \cup {p[2] : p \in served}
-----------------------------------------------------------------------------
(* Documents                                                               *)

\* Documents and what is made of them are not None.
LEMMA Something ==
  ASSUME NEW n \in 0..MaxItems
  PROVE  /\ DocAt(n) \subseteq Doc /\ None \notin DocAt(n)
         /\ CommandAt(n) \subseteq Command /\ RequestAt(n) \subseteq Request
         /\ JobAt(n) \subseteq Job /\ None \notin JobAt(n)
         /\ WaitingAt(n) \subseteq Waiting /\ None \notin WaitingAt(n)
         /\ ConflictAt(n) \subseteq Conflict /\ None \notin ConflictAt(n)
         /\ AnswerAt(n) \subseteq Answer /\ None \notin AnswerAt(n)
         /\ None \notin Id
  <1>1. 0..n \subseteq Item /\ n \in Nat
    BY ProjectSyncAssumption DEF Item
  <1>2. DocAt(n) \subseteq Doc
    BY <1>1 DEF DocAt, Doc
  <1>3. CommandAt(n) \subseteq Command /\ RequestAt(n) \subseteq Request
    BY <1>2 DEF CommandAt, RequestAt, Command, Request
  <1>4. JobAt(n) \subseteq Job /\ WaitingAt(n) \subseteq Waiting
    BY <1>2 DEF JobAt, Job, WaitingAt, Waiting
  <1>5. ConflictAt(n) \subseteq Conflict /\ AnswerAt(n) \subseteq Answer
    BY <1>2 DEF ConflictAt, Conflict, AnswerAt, Answer
  <1>6. QED BY <1>2, <1>3, <1>4, <1>5, NoneAssumption

\* A document field by field.
LEMMA DocFields ==
  ASSUME NEW n \in Nat, NEW d \in DocAt(n)
  PROVE  /\ d.rev \in Nat /\ d.page \in Page /\ d.item \in 0..n /\ d.at \in {"editor", "server"}
         /\ d["page"] = d.page /\ d["item"] = d.item
         /\ d = [rev |-> d.rev, page |-> d.page, item |-> d.item, at |-> d.at]
  BY DEF DocAt

\* What was written before the next edit of the record still fits.
LEMMA DocGrows ==
  ASSUME NEW n \in Nat, NEW m \in Nat, n <= m
  PROVE  /\ DocAt(n) \subseteq DocAt(m)
         /\ CommandAt(n) \subseteq CommandAt(m) /\ RequestAt(n) \subseteq RequestAt(m)
         /\ JobAt(n) \subseteq JobAt(m) /\ WaitingAt(n) \subseteq WaitingAt(m)
         /\ ConflictAt(n) \subseteq ConflictAt(m) /\ AnswerAt(n) \subseteq AnswerAt(m)
  <1>1. 0..n \subseteq 0..m
    OBVIOUS
  <1>2. DocAt(n) \subseteq DocAt(m)
    BY <1>1 DEF DocAt
  <1>3. \A c : Fits(c, n) => Fits(c, m)
    BY <1>1 DEF Fits, Value
  <1>4. CommandAt(n) \subseteq CommandAt(m) /\ RequestAt(n) \subseteq RequestAt(m)
    BY <1>2, <1>3 DEF CommandAt, RequestAt
  <1>5. JobAt(n) \subseteq JobAt(m) /\ WaitingAt(n) \subseteq WaitingAt(m)
    BY <1>2 DEF JobAt, WaitingAt
  <1>6. ConflictAt(n) \subseteq ConflictAt(m) /\ AnswerAt(n) \subseteq AnswerAt(m)
    BY <1>2 DEF ConflictAt, AnswerAt
  <1>7. QED BY <1>2, <1>4, <1>5, <1>6

\* The greatest of two and of three numbers.
LEMMA MaxOfTwo ==
  ASSUME NEW a \in Nat, NEW b \in Nat
  PROVE  /\ Max({a, b}) \in Nat /\ a <= Max({a, b}) /\ b <= Max({a, b})
         /\ Max({a, b}) \in {a, b}
  <1>1. PICK n \in Nat : n = a + b
    OBVIOUS
  <1>2. PICK S : S = {a, b}
    OBVIOUS
  <1>3. S \subseteq 0..n /\ S # {}
    BY <1>1, <1>2
  <1>4. Max(S) \in S /\ \A x \in S : x <= Max(S)
    BY <1>3, MaxIs
  <1>5. QED BY <1>2, <1>4

\* And of three.
LEMMA MaxOfThree ==
  ASSUME NEW a \in Nat, NEW b \in Nat, NEW c \in Nat
  PROVE  /\ Max({a, b, c}) \in Nat
         /\ a <= Max({a, b, c}) /\ b <= Max({a, b, c}) /\ c <= Max({a, b, c})
  <1>1. PICK n \in Nat : n = a + b + c
    OBVIOUS
  <1>2. PICK S : S = {a, b, c}
    OBVIOUS
  <1>3. S \subseteq 0..n /\ S # {}
    BY <1>1, <1>2
  <1>4. Max(S) \in S /\ \A x \in S : x <= Max(S)
    BY <1>3, MaxIs
  <1>5. QED BY <1>2, <1>4

\* The first of some numbers.
LEMMA MinIs ==
  ASSUME NEW S, S \subseteq Nat, S # {}
  PROVE  Min(S) \in S
  <1>1. PICK n \in S : \A k \in S : n <= k
    BY LeastNumber
  <1>2. QED BY <1>1 DEF Min

\* What has changed from one document to another.
LEMMA DifferencesAre ==
  ASSUME NEW n \in 0..MaxItems, NEW from \in DocAt(n), NEW to \in DocAt(n),
         NEW c, c = Differences(from, to)
  PROVE  /\ c \in Changes /\ Fits(c, n)
         /\ "page" \in DOMAIN c <=> from.page # to.page
         /\ "item" \in DOMAIN c <=> from.item # to.item
         /\ "page" \in DOMAIN c => c["page"].before = from.page /\ c["page"].after = to.page
         /\ "item" \in DOMAIN c => c["item"].before = from.item /\ c["item"].after = to.item
  <1> DEFINE s == {g \in Field : from[g] # to[g]}
  <1>1. c = [f \in s |-> [before |-> from[f], after |-> to[f]]]
    BY DEF Differences
  <1>2. s \in SUBSET Field /\ DOMAIN c = s /\ \A f \in s : c[f] = [before |-> from[f], after |-> to[f]]
    BY <1>1
  <1>3. /\ from.page \in Page /\ from.item \in 0..n /\ from["page"] = from.page /\ from["item"] = from.item
        /\ to.page \in Page /\ to.item \in 0..n /\ to["page"] = to.page /\ to["item"] = to.item
    BY DocFields, ProjectSyncAssumption
  <1>4. 0..n \subseteq Item
    BY ProjectSyncAssumption DEF Item
  <1>5. \A f \in s : from[f] \in Value(f, n) /\ to[f] \in Value(f, n) /\ Value(f, n) \subseteq Page \cup Item
    BY <1>3, <1>4 DEF Value, Field
  <1>6. Fits(c, n)
    BY <1>2, <1>5 DEF Fits
  <1>7. c \in [s -> Change]
    BY <1>1, <1>5 DEF Change
  <1>8. c \in Changes
    <2>1. PICK t : t \in SUBSET Field /\ c \in [t -> Change]
      BY <1>2, <1>7
    <2>2. PICK F : F = [t -> Change]
      OBVIOUS
    <2>3. F \in {[u -> Change] : u \in SUBSET Field}
      BY <2>1, <2>2
    <2>4. c \in UNION {[u -> Change] : u \in SUBSET Field}
      BY <2>1, <2>2, <2>3
    <2>5. QED BY <2>4 DEF Changes
  <1>9. \A f \in {"page", "item"} :
          /\ f \in DOMAIN c <=> from[f] # to[f]
          /\ f \in DOMAIN c => c[f].before = from[f] /\ c[f].after = to[f]
    <2>1. PICK S : S = s
      OBVIOUS
    <2>2. DOMAIN c = S /\ \A f \in S : c[f] = [before |-> from[f], after |-> to[f]]
      BY <1>2, <2>1
    <2>3. \A f \in {"page", "item"} : f \in S <=> from[f] # to[f]
      BY <2>1 DEF Field
    <2>4. \A f \in S : c[f].before = from[f] /\ c[f].after = to[f]
      BY <2>2
    <2> HIDE DEF s
    <2>5. QED BY <2>2, <2>3, <2>4
  <1>10. QED BY <1>3, <1>6, <1>8, <1>9

\* Nothing has changed.
LEMMA NoChanges ==
  /\ << >> \in Changes /\ DOMAIN << >> = {} /\ \A n : Fits(<< >>, n)
  <1>1. << >> \in [{} -> Change] /\ DOMAIN << >> = {}
    OBVIOUS
  <1>2. QED BY <1>1 DEF Changes, Fits

\* The type invariant is the one the run checks.
LEMMA TypeCorrect == TypeInv => TypeOK
  <1> SUFFICES ASSUME TypeInv
               PROVE  TypeOK
    OBVIOUS
  <1>1. items \in 0..MaxItems
    BY DEF TypeInv
  <1>2. /\ DocAt(items) \subseteq Doc
        /\ CommandAt(items) \subseteq Command /\ RequestAt(items) \subseteq Request
        /\ JobAt(items) \subseteq Job /\ WaitingAt(items) \subseteq Waiting
        /\ ConflictAt(items) \subseteq Conflict /\ AnswerAt(items) \subseteq Answer
    BY <1>1, Something
  <1>3. raw \in Item
    BY <1>1, ProjectSyncAssumption DEF TypeInv, Item
  <1>4. journal \in Seq(Command)
    BY <1>2, SeqMonotonic DEF TypeInv
  <1>5. receipts \in [Id -> Doc \cup {None}]
    BY <1>2 DEF TypeInv
  <1>6. shown \in [page: SUBSET Page, item: SUBSET Item]
    BY ProjectSyncAssumption DEF TypeInv, Item
  <1>7. QED BY <1>2, <1>3, <1>4, <1>5, <1>6 DEF TypeInv, TypeOK

-----------------------------------------------------------------------------
(* The studio                                                              *)

\* What is stored of a document has its revision and its page.
LEMMA ReconciledIs ==
  ASSUME TypeInv, NEW d \in DocAt(items), NEW e, e = Reconciled(d)
  PROVE  /\ e \in DocAt(items)
         /\ e.rev = d.rev /\ e.page = d.page /\ e.at = d.at
         /\ e.item = (IF d.item = raw THEN server.item ELSE d.item)
  BY DEF Reconciled, DocAt, TypeInv

\* What a command makes of the document of the studio.
LEMMA AppliedIs ==
  ASSUME TypeInv, NEW r \in RequestAt(items), NEW d, d = Applied(r)
  PROVE  /\ d \in DocAt(items) /\ d.at = "server"
         /\ server.rev < d.rev /\ r.doc.rev <= d.rev
         /\ d.rev = server.rev + 1 \/ d.rev = r.doc.rev
         /\ d.page = (IF "page" \in DOMAIN r.changes THEN r.changes["page"].after ELSE server.page)
         /\ d.item = (IF "item" \in DOMAIN r.changes THEN r.changes["item"].after ELSE server.item)
  <1>1. /\ r.doc \in DocAt(items) /\ Fits(r.changes, items) /\ server \in DocAt(items)
        /\ items \in Nat
    BY ProjectSyncAssumption DEF RequestAt, TypeInv
  <1>2. /\ r.doc.rev \in Nat /\ server.rev \in Nat /\ server.page \in Page
        /\ server.item \in 0..items /\ server["page"] = server.page /\ server["item"] = server.item
    BY <1>1, DocFields
  <1>3. PICK a : a = server.rev + 1
    OBVIOUS
  <1>4. PICK m : m = Max({a, r.doc.rev})
    OBVIOUS
  <1>5. /\ m \in Nat /\ a <= m /\ r.doc.rev <= m /\ m \in {a, r.doc.rev}
    BY <1>2, <1>3, <1>4, MaxOfTwo
  <1>6. PICK p : p = (IF "page" \in DOMAIN r.changes THEN r.changes["page"].after ELSE server.page)
    OBVIOUS
  <1>7. PICK i : i = (IF "item" \in DOMAIN r.changes THEN r.changes["item"].after ELSE server.item)
    OBVIOUS
  <1>8. p \in Page /\ i \in 0..items
    BY <1>1, <1>2, <1>6, <1>7 DEF Fits, Value
  <1>9. d = [rev |-> m, page |-> p, item |-> i, at |-> "server"]
    BY <1>2, <1>3, <1>4, <1>6, <1>7 DEF Applied
  <1>10. QED BY <1>2, <1>3, <1>5, <1>6, <1>7, <1>8, <1>9 DEF DocAt

\* The request of the synchronisation under way.
LEMMA CurrentIs ==
  ASSUME TypeInv, EditorInv, JobInv, CommandInv, Unserved, NEW r, r = Current
  PROVE  /\ r \in RequestAt(items) /\ r.id = job.id /\ r.base = job.base.rev
         /\ job.id = None => r.changes = << >> /\ r.doc = job.snap
         /\ job.id # None =>
              /\ job.id \in DOMAIN journal /\ journal[job.id] \in CommandAt(items)
              /\ journal[job.id].snap # None /\ r.doc = journal[job.id].snap
              /\ r.base = journal[job.id].base
              /\ r.changes = journal[job.id].changes
              /\ r.changes = Differences(job.base, job.snap)
  <1>1. job \in JobAt(items) /\ job # None /\ job.pc = "sent"
    BY DEF Unserved, TypeInv
  <1>2. /\ job.id \in Id \cup {None} /\ job.snap \in DocAt(items) /\ job.base \in DocAt(items)
        /\ job.base.rev \in Nat
    BY <1>1 DEF JobAt, DocAt
  <1>3. CASE job.id = None
    <2>1. r = [id |-> job.id, base |-> job.base.rev, changes |-> << >>, doc |-> job.snap]
      BY <1>3 DEF Current
    <2>2. QED BY <1>2, <1>3, <2>1, NoChanges DEF RequestAt
  <1>4. CASE job.id # None
    <2>1. /\ job.id \in DOMAIN journal /\ journal[job.id].status = "pending"
          /\ journal[job.id].base = job.base.rev
          /\ journal[job.id].changes = Differences(job.base, job.snap)
      BY <1>1, <1>4 DEF JobInv, Asking
    <2>2. PICK c : c = journal[job.id]
      OBVIOUS
    <2>3. c \in CommandAt(items)
      BY <2>1, <2>2, ElementOfSeq, LenProperties DEF TypeInv
    <2>4. c.snap # None
      BY <2>1, <2>2 DEF CommandInv
    <2>5. c.snap \in DocAt(items) /\ c.changes \in Changes /\ Fits(c.changes, items)
      BY <2>3, <2>4 DEF CommandAt
    <2>6. r = [id |-> job.id, base |-> job.base.rev, changes |-> c.changes, doc |-> c.snap]
      BY <1>4, <2>2 DEF Current
    <2>7. QED BY <1>2, <1>4, <2>1, <2>2, <2>3, <2>4, <2>5, <2>6 DEF RequestAt
  <1>5. QED BY <1>3, <1>4

\* The studio takes a command, with its receipt.
TakesCommand(r, d) ==
  /\ r.id \in Id /\ receipts[r.id] = None /\ receipts' = [receipts EXCEPT ![r.id] = d]
  /\ server.rev < d.rev /\ d.at = "server"
  /\ d.rev = server.rev + 1 \/ d.rev = r.doc.rev
  /\ d.page = (IF "page" \in DOMAIN r.changes THEN r.changes["page"].after ELSE server.page)
  /\ d.item # server.item =>
       "item" \in DOMAIN r.changes /\ server.item = r.changes["item"].before

\* It takes a whole document.
TakesDocument(r, d) ==
  /\ r.id = None /\ UNCHANGED receipts
  /\ d.rev = r.doc.rev /\ d.page = r.doc.page /\ d.at = r.doc.at
  /\ server.rev < d.rev \/ d = server

Takes(r) ==
  \E d \in DocAt(items) :
    /\ server.rev = r.base
    /\ server' = d /\ raw' = d.item /\ served' = served \cup {<<d.rev, d.page>>}
    /\ TakesCommand(r, d) \/ TakesDocument(r, d)

\* It takes nothing or one of the two.
LEMMA ServeIs ==
  ASSUME TypeInv, NEW r \in RequestAt(items), Serve(r)
  PROVE  UNCHANGED <<server, raw, receipts, served>> \/ Takes(r)
  <1>1. /\ r.doc \in DocAt(items) /\ r.id \in Id \cup {None} /\ Fits(r.changes, items)
        /\ server \in DocAt(items) /\ server.rev \in Nat /\ r.doc.rev \in Nat
    BY DEF RequestAt, DocAt, TypeInv
  <1>2. CASE Taken(r.id) \/ Refused(r)
    <2>1. CASE UNCHANGED studio
      BY <2>1 DEF studio
    <2>2. ASSUME r.id # None, ~Taken(r.id), Applies(r)
          PROVE  FALSE
      BY <1>2, <2>2 DEF Refused
    <2>3. ASSUME r.id = None, Replaces(r)
          PROVE  FALSE
      BY <1>2, <2>3 DEF Refused, Taken
    <2>4. QED BY <2>1, <2>2, <2>3 DEF Serve
  <1>3. CASE /\ r.id # None /\ ~Taken(r.id) /\ Applies(r)
             /\ LET doc == Reconciled(Applied(r))
                IN  Write(doc) /\ receipts' = [receipts EXCEPT ![r.id] = doc]
    <2>1. PICK a : a = Applied(r)
      OBVIOUS
    <2>2. /\ a \in DocAt(items) /\ a.at = "server"
          /\ server.rev < a.rev /\ r.doc.rev <= a.rev
          /\ a.rev = server.rev + 1 \/ a.rev = r.doc.rev
          /\ a.page = (IF "page" \in DOMAIN r.changes THEN r.changes["page"].after ELSE server.page)
          /\ a.item = (IF "item" \in DOMAIN r.changes THEN r.changes["item"].after ELSE server.item)
      BY <2>1, AppliedIs
    <2>3. PICK d : d = Reconciled(a)
      OBVIOUS
    <2>4. /\ d \in DocAt(items) /\ d.rev = a.rev /\ d.page = a.page /\ d.at = a.at
          /\ d.item = (IF a.item = raw THEN server.item ELSE a.item)
      BY <2>2, <2>3, ReconciledIs
    <2>5. /\ server' = d /\ raw' = d.item /\ served' = served \cup {<<d.rev, d.page>>}
          /\ receipts' = [receipts EXCEPT ![r.id] = d]
      BY <1>3, <2>1, <2>3 DEF Write
    <2>6. r.id \in Id /\ receipts[r.id] = None
      BY <1>1, <1>3 DEF Taken
    <2>7. /\ server.rev = r.base
          /\ "item" \in DOMAIN r.changes => server.item = r.changes["item"].before
      <3>1. server["item"] = server.item
        BY <1>1, DocFields, ProjectSyncAssumption DEF TypeInv
      <3>2. QED BY <1>3, <3>1 DEF Applies
    <2>8. d.item # server.item => "item" \in DOMAIN r.changes
      BY <2>2, <2>4
    <2>9. TakesCommand(r, d)
      BY <2>2, <2>4, <2>5, <2>6, <2>7, <2>8 DEF TakesCommand
    <2>10. QED BY <2>4, <2>5, <2>7, <2>9 DEF Takes
  <1>4. CASE r.id = None /\ Replaces(r) /\ Write(Reconciled(r.doc)) /\ UNCHANGED receipts
    <2>1. PICK d : d = Reconciled(r.doc)
      OBVIOUS
    <2>2. d \in DocAt(items) /\ d.rev = r.doc.rev /\ d.page = r.doc.page /\ d.at = r.doc.at
      BY <1>1, <2>1, ReconciledIs
    <2>3. server' = d /\ raw' = d.item /\ served' = served \cup {<<d.rev, d.page>>}
      BY <1>4, <2>1 DEF Write
    <2>4. server.rev = r.base /\ (server.rev < d.rev \/ d = server)
      BY <1>1, <1>4, <2>1, <2>2 DEF Replaces
    <2>5. TakesDocument(r, d)
      BY <1>4, <2>2, <2>4 DEF TakesDocument
    <2>6. QED BY <2>2, <2>3, <2>4, <2>5 DEF Takes
  <1>5. QED BY <1>2, <1>3, <1>4 DEF Serve, studio

\* And what it answers.
LEMMA ReplyIs ==
  ASSUME TypeInv, NEW r \in RequestAt(items), Serve(r), NEW a, a = Reply(r)
  PROVE  /\ a \in AnswerAt(items)
         /\ a.ok =>
              \/ r.id \in Id /\ receipts'[r.id] = a.doc
              \/ /\ r.id = None /\ a.doc = r.doc
                 /\ server'.rev = a.doc.rev /\ server'.page = a.doc.page /\ server'.at = a.doc.at
  <1>1. /\ r.doc \in DocAt(items) /\ r.id \in Id \cup {None} /\ server \in DocAt(items)
        /\ receipts \in [Id -> DocAt(items) \cup {None}]
    BY DEF RequestAt, TypeInv
  <1>2. CASE Taken(r.id)
    <2>1. r.id \in Id /\ receipts[r.id] \in DocAt(items)
      BY <1>1, <1>2 DEF Taken
    <2>2. a = [ok |-> TRUE, doc |-> receipts[r.id]]
      BY <1>2 DEF Reply
    <2>3. receipts' = receipts
      BY <1>2, <2>1 DEF Serve, studio, Taken
    <2>4. QED BY <2>1, <2>2, <2>3 DEF AnswerAt
  <1>3. CASE ~Taken(r.id) /\ Refused(r)
    <2>1. a = [ok |-> FALSE, doc |-> server]
      BY <1>3 DEF Reply
    <2>2. QED BY <1>1, <2>1 DEF AnswerAt
  <1>4. CASE ~Taken(r.id) /\ ~Refused(r) /\ r.id # None
    <2>1. PICK d : d = Reconciled(Applied(r))
      OBVIOUS
    <2>2. d \in DocAt(items)
      BY <2>1, AppliedIs, ReconciledIs
    <2>3. a = [ok |-> TRUE, doc |-> d]
      BY <1>4, <2>1 DEF Reply
    <2>4. receipts' = [receipts EXCEPT ![r.id] = d]
      BY <1>4, <2>1 DEF Serve
    <2>5. QED BY <1>1, <1>4, <2>2, <2>3, <2>4 DEF AnswerAt
  <1>5. CASE ~Taken(r.id) /\ ~Refused(r) /\ r.id = None
    <2>1. a = [ok |-> TRUE, doc |-> r.doc]
      BY <1>5 DEF Reply
    <2>2. server' = Reconciled(r.doc)
      BY <1>5 DEF Serve, Write
    <2>3. server'.rev = r.doc.rev /\ server'.page = r.doc.page /\ server'.at = r.doc.at
      BY <1>1, <2>2, ReconciledIs
    <2>4. QED BY <1>1, <1>5, <2>1, <2>3 DEF AnswerAt
  <1>6. QED BY <1>2, <1>3, <1>4, <1>5


-----------------------------------------------------------------------------
(* The journal                                                             *)

\* The commands of the journal, one by one.
LEMMA JournalIs ==
  ASSUME TypeInv
  PROVE  /\ Len(journal) \in Nat /\ DOMAIN journal = 1..Len(journal) /\ DOMAIN journal \subseteq Id
         /\ \A i \in DOMAIN journal :
              /\ journal[i] \in CommandAt(items)
              /\ journal[i].base \in Nat /\ journal[i].snap \in DocAt(items) \cup {None}
              /\ journal[i].changes \in Changes /\ Fits(journal[i].changes, items)
  <1>1. /\ Len(journal) \in Nat /\ DOMAIN journal = 1..Len(journal)
        /\ journal \in [1..Len(journal) -> CommandAt(items)] /\ Len(journal) <= MaxCommands
    BY LenProperties DEF TypeInv
  <1>2. DOMAIN journal \subseteq Id
    BY <1>1, ProjectSyncAssumption DEF Id
  <1>3. \A i \in DOMAIN journal : journal[i] \in CommandAt(items)
    BY <1>1
  <1>4. QED BY <1>1, <1>2, <1>3 DEF CommandAt

\* Commands rewritten in their places are a journal.
LEMMA JournalRewritten ==
  ASSUME TypeInv, NEW j, j = [i \in DOMAIN journal |-> j[i]],
         \A i \in DOMAIN journal : j[i] \in CommandAt(items)
  PROVE  /\ j \in Seq(CommandAt(items)) /\ Len(j) = Len(journal) /\ Len(j) <= MaxCommands
         /\ DOMAIN j = DOMAIN journal
  <1>1. PICK n \in Nat : n = Len(journal) /\ DOMAIN journal = 1..n /\ n <= MaxCommands
    BY JournalIs DEF TypeInv
  <1>2. j \in [1..n -> CommandAt(items)]
    BY <1>1
  <1>3. j \in Seq(CommandAt(items))
    BY <1>1, <1>2, SeqDef
  <1>4. Len(j) = n
    BY <1>1, <1>2, <1>3, LenProperties
  <1>5. QED BY <1>1, <1>3, <1>4

\* A command may lose its snapshot, and nothing else of it changes but its status.
Follows(e, c) ==
  /\ e.base = c.base
  /\ \/ e.snap = None
     \/ e.snap = c.snap /\ e.changes = c.changes

\* A command that is confirmed.
LEMMA ConfirmedIs ==
  ASSUME TypeInv, NEW c \in CommandAt(items), NEW e, NEW s \in {"acknowledged", "superseded"},
         e = Confirmed(c, s)
  PROVE  e \in CommandAt(items) /\ e.snap = None /\ e.status = s /\ Follows(e, c)
  <1>1. e.base = c.base /\ e.snap = None /\ e.status = s /\ e.changes = << >>
    BY DEF Confirmed, CommandAt
  <1>2. e \in [base: Nat, changes: Changes, snap: DocAt(items) \cup {None},
               status: {"pending", "acknowledged", "blocked", "superseded"}]
    BY NoChanges DEF Confirmed, CommandAt
  <1>3. Fits(e.changes, items)
    BY <1>1, NoChanges
  <1>4. QED BY <1>1, <1>2, <1>3 DEF CommandAt, Follows

\* Queueing a command: nothing has changed, the same command is there, or it is new.
LEMMA QueueIs ==
  ASSUME TypeInv, base # None, NEW s \in DocAt(items), NEW id \in Id \cup {None},
         QueueCommand(s, id)
  PROVE  /\ journal' \in Seq(CommandAt(items)) /\ (id # None => Len(journal') <= MaxCommands)
         /\ DOMAIN journal \subseteq DOMAIN journal'
         /\ DOMAIN journal' \subseteq DOMAIN journal \cup {id}
         /\ \A i \in DOMAIN journal : journal'[i] = journal[i]
         /\ id = None => Differences(base, s) = << >> /\ journal' = journal
         /\ id # None =>
              /\ id \in DOMAIN journal' /\ journal'[id].status = "pending"
              /\ journal'[id].base = base.rev
              /\ journal'[id].changes = Differences(base, s)
              /\ id \notin DOMAIN journal => journal'[id].snap = s
  <1>1. base \in DocAt(items) /\ base.rev \in Nat /\ items \in 0..MaxItems
    BY DEF TypeInv, DocAt
  <1>2. None \notin Id
    BY <1>1, Something
  <1>3. PICK c : c = Differences(base, s)
    OBVIOUS
  <1>4. c \in Changes /\ Fits(c, items)
    BY <1>1, <1>3, DifferencesAre
  <1>5. CASE c = << >> /\ id = None /\ UNCHANGED journal
    BY <1>3, <1>5 DEF TypeInv
  <1>6. CASE c # << >> /\ id \in Queued(s) /\ UNCHANGED journal
    <2>1. /\ id \in DOMAIN journal /\ journal[id].status = "pending"
          /\ journal[id].base = base.rev /\ journal[id].changes = c
      BY <1>3, <1>6 DEF Queued
    <2>2. id # None
      BY <1>2, <2>1, JournalIs
    <2>3. QED BY <1>3, <1>6, <2>1, <2>2 DEF TypeInv
  <1>7. CASE /\ id = Len(journal) + 1
             /\ journal' = Append(journal, [base |-> base.rev, changes |-> c,
                                            snap |-> s, status |-> "pending"])
    <2>1. PICK e : e = [base |-> base.rev, changes |-> c, snap |-> s, status |-> "pending"]
      OBVIOUS
    <2>2. e \in CommandAt(items)
      BY <1>1, <1>4, <2>1 DEF CommandAt
    <2>3. journal \in Seq(CommandAt(items)) /\ journal' = Append(journal, e)
      BY <1>7, <2>1 DEF TypeInv
    <2>4. /\ journal' \in Seq(CommandAt(items)) /\ Len(journal') = Len(journal) + 1
          /\ \A i \in 1..Len(journal) : journal'[i] = journal[i]
          /\ journal'[Len(journal) + 1] = e
      BY <2>2, <2>3, AppendProperties
    <2>5. /\ Len(journal) \in Nat /\ DOMAIN journal = 1..Len(journal)
          /\ DOMAIN journal' = 1..(Len(journal) + 1)
      BY <2>4, JournalIs, LenProperties
    <2>6. id # None => id \in Id
      OBVIOUS
    <2>7. Len(journal) + 1 \in Nat
      BY <2>5
    <2>8. id # None
      BY <1>7, <2>7, ProjectSyncAssumption
    <2>9. Len(journal') <= MaxCommands
      BY <1>7, <2>4, <2>5, <2>6, <2>8, ProjectSyncAssumption DEF Id
    <2>10. /\ DOMAIN journal \subseteq DOMAIN journal' /\ DOMAIN journal' = DOMAIN journal \cup {id}
           /\ \A i \in DOMAIN journal : journal'[i] = journal[i]
      BY <1>7, <2>4, <2>5
    <2>11. /\ journal'[id] = e /\ e.status = "pending" /\ e.base = base.rev
           /\ e.changes = c /\ e.snap = s
      BY <1>7, <2>1, <2>4
    <2>12. QED BY <1>3, <2>4, <2>8, <2>9, <2>10, <2>11
  <1>8. QED BY <1>3, <1>5, <1>6, <1>7 DEF QueueCommand

\* A refused command is blocked.
LEMMA RefusedIs ==
  ASSUME TypeInv, JobInv, SyncRefused
  PROVE  /\ journal' \in Seq(CommandAt(items)) /\ Len(journal') <= MaxCommands
         /\ DOMAIN journal' = DOMAIN journal
         /\ \A i \in DOMAIN journal :
              /\ Follows(journal'[i], journal[i])
              /\ journal'[i] = journal[i]
                 \/ (/\ journal[i].status = "pending" /\ journal'[i].status = "blocked"
                     /\ journal'[i].snap = journal[i].snap
                     /\ journal'[i].changes = journal[i].changes)
  <1>1. CASE job.id = None
    <2>1. journal' = journal
      BY <1>1 DEF SyncRefused
    <2>2. QED BY <2>1 DEF TypeInv, Follows
  <1>2. CASE job.id # None
    <2>1. job.id \in DOMAIN journal /\ journal[job.id].status = "pending"
      BY <1>2 DEF SyncRefused, Answered, JobInv, Asking
    <2>2. journal' = [journal EXCEPT ![job.id].status = "blocked"]
      BY <1>2 DEF SyncRefused
    <2>3. PICK c : c = journal[job.id] /\ c \in CommandAt(items)
      BY <2>1, JournalIs
    <2>4. PICK e : e = [c EXCEPT !.status = "blocked"]
      OBVIOUS
    <2>5. /\ e \in CommandAt(items) /\ e.status = "blocked" /\ e.base = c.base
          /\ e.snap = c.snap /\ e.changes = c.changes
      BY <2>3, <2>4 DEF CommandAt
    <2>6. \A i \in DOMAIN journal : journal'[i] = IF i = job.id THEN e ELSE journal[i]
      BY <2>1, <2>2, <2>3, <2>4
    <2>7. /\ \A i \in DOMAIN journal : journal'[i] \in CommandAt(items)
          /\ journal' = [i \in DOMAIN journal |-> journal'[i]]
      BY <2>2, <2>5, <2>6, JournalIs
    <2>8. /\ journal' \in Seq(CommandAt(items)) /\ Len(journal') <= MaxCommands
          /\ DOMAIN journal' = DOMAIN journal
      BY <2>7, JournalRewritten
    <2>9. QED BY <2>1, <2>3, <2>5, <2>6, <2>8 DEF Follows
  <1>3. QED BY <1>1, <1>2

\* A confirmed command is acknowledged, and the older ones are superseded.
LEMMA ConfirmedAre ==
  ASSUME TypeInv, SyncConfirmed
  PROVE  /\ journal' \in Seq(CommandAt(items)) /\ Len(journal') <= MaxCommands
         /\ DOMAIN journal' = DOMAIN journal
         /\ \A i \in DOMAIN journal :
              /\ Follows(journal'[i], journal[i])
              /\ \/ journal'[i] = journal[i]
                 \/ /\ journal'[i].snap = None /\ journal'[i].status = "acknowledged"
                    /\ job.id # None /\ i = job.id
                 \/ /\ journal'[i].snap = None /\ journal'[i].status = "superseded"
                    /\ journal[i].snap.rev <= job.snap.rev
  <1>1. CASE job.id = None
    <2>1. journal' = journal
      BY <1>1 DEF SyncConfirmed
    <2>2. QED BY <2>1 DEF TypeInv, Follows
  <1>2. CASE job.id # None
    <2>1. journal' = [i \in DOMAIN journal |->
                        IF i = job.id THEN Confirmed(journal[i], "acknowledged")
                        ELSE IF Superseded(i) THEN Confirmed(journal[i], "superseded")
                        ELSE journal[i]]
      BY <1>2 DEF SyncConfirmed
    <2>2. ASSUME NEW i \in DOMAIN journal
          PROVE  /\ journal'[i] \in CommandAt(items) /\ Follows(journal'[i], journal[i])
                 /\ \/ journal'[i] = journal[i]
                    \/ /\ journal'[i].snap = None /\ journal'[i].status = "acknowledged"
                       /\ job.id # None /\ i = job.id
                    \/ /\ journal'[i].snap = None /\ journal'[i].status = "superseded"
                       /\ journal[i].snap.rev <= job.snap.rev
      <3>1. PICK c \in CommandAt(items) : c = journal[i]
        BY <2>2, JournalIs
      <3>2. CASE i = job.id
        <4>1. PICK e : e = Confirmed(c, "acknowledged")
          OBVIOUS
        <4>2. journal'[i] = e
          BY <2>1, <2>2, <3>1, <3>2, <4>1
        <4>3. QED BY <1>2, <3>1, <3>2, <4>1, <4>2, ConfirmedIs
      <3>3. CASE i # job.id /\ Superseded(i)
        <4>1. PICK e : e = Confirmed(c, "superseded")
          OBVIOUS
        <4>2. journal'[i] = e
          BY <2>1, <2>2, <3>1, <3>3, <4>1
        <4>3. QED BY <3>1, <3>3, <4>1, <4>2, ConfirmedIs DEF Superseded
      <3>4. CASE i # job.id /\ ~Superseded(i)
        <4>1. journal'[i] = journal[i]
          BY <2>1, <2>2, <3>4
        <4>2. QED BY <3>1, <4>1 DEF Follows
      <3>5. QED BY <3>2, <3>3, <3>4
    <2>3. /\ journal' \in Seq(CommandAt(items)) /\ Len(journal') <= MaxCommands
          /\ DOMAIN journal' = DOMAIN journal
      <3>1. journal' = [i \in DOMAIN journal |-> journal'[i]]
        BY <2>1
      <3>2. \A i \in DOMAIN journal : journal'[i] \in CommandAt(items)
        BY <2>2
      <3>3. QED BY <3>1, <3>2, JournalRewritten
    <2>4. QED BY <2>2, <2>3
  <1>3. QED BY <1>1, <1>2

\* What the opening editor does with the first command it asks about.
Resumes(id, doc) ==
  /\ id \in todo /\ todo' = todo \ {id} /\ doc = receipts[id]
  /\ \/ UNCHANGED <<base, stored>>
     \/ /\ online /\ doc # None /\ base' = doc /\ storedBase' = doc
        /\ localDoc' = (IF localDoc = journal[id].snap THEN doc ELSE localDoc)
        /\ journal'[id].snap = None /\ journal'[id].status = "acknowledged"
        /\ \A i \in DOMAIN journal : i # id => journal'[i] = journal[i]

\* Resuming asks about one command, and the journal stays a journal.
LEMMA ResumeIs ==
  ASSUME TypeInv, EditorInv, Resume
  PROVE  /\ journal' \in Seq(CommandAt(items)) /\ Len(journal') <= MaxCommands
         /\ DOMAIN journal' = DOMAIN journal
         /\ \A i \in DOMAIN journal : Follows(journal'[i], journal[i])
         /\ \E id \in DOMAIN journal : Resumes(id, receipts[id])
  <1>1. PICK id : id = Min(todo)
    OBVIOUS
  <1>2. id \in todo /\ id \in DOMAIN journal
    <2>1. todo \subseteq Nat /\ todo # {} /\ todo \subseteq DOMAIN journal
      BY DEF Resume, TypeInv, EditorInv, Id
    <2>2. QED BY <1>1, <2>1, MinIs
  <1>3. todo' = todo \ {id}
    BY <1>1 DEF Resume
  <1>4. CASE UNCHANGED <<base, stored>>
    <2>1. journal' = journal
      BY <1>4 DEF stored
    <2>2. Resumes(id, receipts[id])
      BY <1>2, <1>3, <1>4 DEF Resumes
    <2>3. QED BY <1>2, <2>1, <2>2 DEF TypeInv, Follows
  <1>5. CASE /\ online /\ receipts[id] # None /\ base' = receipts[id] /\ storedBase' = receipts[id]
             /\ localDoc' = (IF localDoc = journal[id].snap THEN receipts[id] ELSE localDoc)
             /\ journal' = [journal EXCEPT ![id] = Confirmed(@, "acknowledged")]
    <2>1. PICK c \in CommandAt(items) : c = journal[id]
      BY <1>2, JournalIs
    <2>2. PICK e : e = Confirmed(c, "acknowledged")
      OBVIOUS
    <2>3. e \in CommandAt(items) /\ e.snap = None /\ e.status = "acknowledged" /\ Follows(e, c)
      BY <2>1, <2>2, ConfirmedIs
    <2>4. \A i \in DOMAIN journal : journal'[i] = IF i = id THEN e ELSE journal[i]
      BY <1>2, <1>5, <2>1, <2>2
    <2>5. /\ \A i \in DOMAIN journal : journal'[i] \in CommandAt(items)
          /\ journal' = [i \in DOMAIN journal |-> journal'[i]]
      BY <1>5, <2>3, <2>4, JournalIs
    <2>6. /\ journal' \in Seq(CommandAt(items)) /\ Len(journal') <= MaxCommands
          /\ DOMAIN journal' = DOMAIN journal
      BY <2>5, JournalRewritten
    <2>7. \A i \in DOMAIN journal : Follows(journal'[i], journal[i])
      BY <2>1, <2>3, <2>4 DEF Follows
    <2>8. Resumes(id, receipts[id])
      BY <1>2, <1>3, <1>5, <2>3, <2>4 DEF Resumes
    <2>9. QED BY <1>2, <2>6, <2>7, <2>8
  <1>6. QED BY <1>1, <1>4, <1>5 DEF Resume

-----------------------------------------------------------------------------
(* The types                                                               *)

\* What the editor writes is a document.
LEMMA WritesType ==
  ASSUME TypeInv, NEW d \in DocAt(items), Writes(d), present \in DocAt(items)
  PROVE  /\ present' = d /\ dropped' \subseteq Page /\ behind' \subseteq Page
         /\ behind' = behind \/ behind' = behind \cup {d.page}
         /\ dropped' = (dropped \cup {present.page}) \ {d.page}
  <1>1. d.page \in Page /\ present.page \in Page
    BY DEF DocAt
  <1>2. behind' = behind \/ behind' = behind \cup {d.page}
    BY DEF Writes
  <1>3. QED BY <1>1, <1>2 DEF Writes, TypeInv

\* So is what is shown.
LEMMA ShowType ==
  ASSUME TypeInv, NEW S, S \subseteq DocAt(items), Show(S)
  PROVE  /\ shown' \in [page: SUBSET Page, item: SUBSET (0..items)]
         /\ shown'.page = shown.page \cup {d.page : d \in S}
         /\ shown'.item = shown.item \cup {d.item : d \in S}
  <1>1. Field = {"page", "item"}
    BY DEF Field
  <1>2. shown' = [f \in {"page", "item"} |-> shown[f] \cup {d[f] : d \in S}]
    BY <1>1 DEF Show
  <1>3. \A d \in S : d.page \in Page /\ d.item \in 0..items /\ d["page"] = d.page /\ d["item"] = d.item
    <2>1. items \in Nat
      BY ProjectSyncAssumption DEF TypeInv
    <2>2. QED BY <2>1, DocFields
  <1>4. shown["page"] \subseteq Page /\ shown["item"] \subseteq 0..items
    BY DEF TypeInv
  <1>5. /\ {d["page"] : d \in S} = {d.page : d \in S} /\ {d["item"] : d \in S} = {d.item : d \in S}
        /\ {d.page : d \in S} \subseteq Page /\ {d.item : d \in S} \subseteq 0..items
    BY <1>3
  <1>6. PICK a : a = shown["page"] \cup {d["page"] : d \in S}
    OBVIOUS
  <1>7. PICK b : b = shown["item"] \cup {d["item"] : d \in S}
    OBVIOUS
  <1>8. shown' = [f \in {"page", "item"} |-> IF f = "page" THEN a ELSE b]
    BY <1>2, <1>6, <1>7
  <1>9. shown' = [page |-> a, item |-> b]
    BY <1>8
  <1>10. a \subseteq Page /\ b \subseteq 0..items
    BY <1>4, <1>5, <1>6, <1>7
  <1>11. shown' \in [page: SUBSET Page, item: SUBSET (0..items)] /\ shown'.page = a /\ shown'.item = b
    BY <1>9, <1>10
  <1>12. shown["page"] = shown.page /\ shown["item"] = shown.item
    OBVIOUS
  <1>13. QED BY <1>5, <1>6, <1>7, <1>11, <1>12

\* What the parts of a job, a review and a snapshot under way are.
LEMMA PartsAre ==
  ASSUME TypeInv
  PROVE  /\ items \in Nat /\ items \in 0..MaxItems
         /\ waiting # None => waiting.snap \in DocAt(items) /\ waiting.by \in Trigger
         /\ job # None =>
              /\ job.pc \in {"queued", "sent", "confirmed", "based", "stored"}
              /\ job.snap \in DocAt(items) /\ job.base \in DocAt(items)
              /\ job.id \in Id \cup {None} /\ job.canonical \in DocAt(items) \cup {None}
              /\ job.by \in Trigger
         /\ conflict # None =>
              /\ conflict.base \in DocAt(items) /\ conflict.local \in DocAt(items)
              /\ conflict.remote \in DocAt(items)
         /\ answer # None => answer.doc \in DocAt(items) /\ answer.ok \in BOOLEAN
  BY ProjectSyncAssumption DEF TypeInv, WaitingAt, JobAt, ConflictAt, AnswerAt

\* A document of the next revision with another page.
LEMMA NextDocument ==
  ASSUME NEW n \in Nat, NEW d \in DocAt(n), NEW p \in Page, NEW a \in {"editor", "server"},
         NEW e, e = [rev |-> d.rev + 1, page |-> p, item |-> d.item, at |-> a]
  PROVE  /\ e \in DocAt(n) /\ e.rev = d.rev + 1 /\ e.page = p /\ e.item = d.item /\ e.at = a
         /\ d.rev \in Nat
  BY DEF DocAt

\* The counters leave room for what is written next.
LEMMA RoomForPages ==
  ASSUME TypeInv
  PROVE  /\ edits < MaxEdits => edits + others + 1 \in Page /\ edits + 1 \in 0..MaxEdits
         /\ others < MaxOthers => edits + others + 1 \in Page /\ others + 1 \in 0..MaxOthers
  <1>1. edits \in 0..MaxEdits /\ others \in 0..MaxOthers
    BY DEF TypeInv
  <1>2. MaxEdits \in Nat /\ MaxOthers \in Nat
    BY ProjectSyncAssumption
  <1>3. PICK e, o, m, n : e = edits /\ o = others /\ m = MaxEdits /\ n = MaxOthers
    OBVIOUS
  <1>4. e \in 0..m /\ o \in 0..n /\ m \in Nat /\ n \in Nat
    BY <1>1, <1>2, <1>3
  <1>5. e < m => e + o + 1 \in 0..(m + n) /\ e + 1 \in 0..m
    BY <1>4
  <1>6. o < n => e + o + 1 \in 0..(m + n) /\ o + 1 \in 0..n
    BY <1>4
  <1>7. QED BY <1>3, <1>5, <1>6 DEF Page

\* What the studio has after it has been asked.
LEMMA ServeType ==
  ASSUME TypeInv, NEW r \in RequestAt(items), Serve(r)
  PROVE  /\ server' \in DocAt(items) /\ raw' \in 0..items /\ served' \subseteq Nat \X Page
         /\ receipts' \in [Id -> DocAt(items) \cup {None}]
  <1>1. CASE UNCHANGED <<server, raw, receipts, served>>
    BY <1>1 DEF TypeInv
  <1>2. CASE Takes(r)
    <2>1. PICK d \in DocAt(items) :
            /\ server' = d /\ raw' = d.item /\ served' = served \cup {<<d.rev, d.page>>}
            /\ TakesCommand(r, d) \/ TakesDocument(r, d)
      BY <1>2 DEF Takes
    <2>2. d.rev \in Nat /\ d.page \in Page /\ d.item \in 0..items
      BY PartsAre, DocFields
    <2>3. receipts' = receipts \/ receipts' = [receipts EXCEPT ![r.id] = d]
      BY <2>1 DEF TakesCommand, TakesDocument
    <2>4. receipts' \in [Id -> DocAt(items) \cup {None}]
      BY <2>3 DEF TypeInv
    <2>5. served' \subseteq Nat \X Page
      BY <2>1, <2>2 DEF TypeInv
    <2>6. QED BY <2>1, <2>2, <2>4, <2>5
  <1>3. QED BY <1>1, <1>2, ServeIs

\* The studio and the others keep the types.
LEMMA StudioType ==
  ASSUME TypeInv, EditorInv, JobInv, CommandInv,
         OtherSaves \/ OtherEditsItem \/ ServeRequest \/ ServeLate
  PROVE  TypeInv'
  <1> USE DEF studio, stored, memory, sending, counters, history
  <1>1. CASE OtherSaves
    <2>1. PICK p : p = edits + others + 1
      OBVIOUS
    <2>2. p \in Page /\ others' \in 0..MaxOthers
      BY <1>1, <2>1, RoomForPages DEF OtherSaves
    <2>3. PICK d : d = [server EXCEPT !.rev = @ + 1, !.page = p, !.at = "server"]
      OBVIOUS
    <2>4. d \in DocAt(items) /\ d.rev \in Nat /\ d.page \in Page /\ d.item \in 0..items
      <3>1. server \in DocAt(items) /\ items \in Nat
        BY PartsAre DEF TypeInv
      <3>2. PICK a \in {"editor", "server"} : a = "server"
        OBVIOUS
      <3>3. d = [rev |-> server.rev + 1, page |-> p, item |-> server.item, at |-> a]
        BY <2>3, <3>1, <3>2 DEF DocAt
      <3>4. d \in DocAt(items)
        BY <2>2, <3>1, <3>3, NextDocument
      <3>5. QED BY <3>1, <3>4, DocFields
    <2>5. server' = d /\ raw' = d.item /\ served' = served \cup {<<d.rev, d.page>>}
      BY <1>1, <2>1, <2>3 DEF OtherSaves, Write
    <2>6. served' \subseteq Nat \X Page
      BY <2>4, <2>5 DEF TypeInv
    <2>7. UNCHANGED <<receipts, late, stored, memory, online, sending, history, edits, items, faults>>
      BY <1>1 DEF OtherSaves
    <2>8. QED BY <2>2, <2>4, <2>5, <2>6, <2>7 DEF TypeInv
  <1>2. CASE OtherEditsItem
    <2>1. items' = items + 1 /\ items' \in 0..MaxItems /\ items \in Nat /\ items' \in Nat
      BY <1>2, ProjectSyncAssumption DEF OtherEditsItem, TypeInv
    <2>2. /\ DocAt(items) \subseteq DocAt(items')
          /\ CommandAt(items) \subseteq CommandAt(items') /\ RequestAt(items) \subseteq RequestAt(items')
          /\ JobAt(items) \subseteq JobAt(items') /\ WaitingAt(items) \subseteq WaitingAt(items')
          /\ ConflictAt(items) \subseteq ConflictAt(items') /\ AnswerAt(items) \subseteq AnswerAt(items')
      BY <2>1, DocGrows
    <2>3. server' = [server EXCEPT !.item = items'] /\ 0..items \subseteq 0..items'
      BY <1>2, <2>1 DEF OtherEditsItem
    <2>4. server' \in DocAt(items')
      BY <2>1, <2>2, <2>3, SMTT(40) DEF TypeInv, DocAt
    <2>5. journal \in Seq(CommandAt(items'))
      BY <2>2, SeqMonotonic DEF TypeInv
    <2>6. receipts \in [Id -> DocAt(items') \cup {None}]
      BY <2>2 DEF TypeInv
    <2>7. /\ UNCHANGED <<raw, receipts, served, late, stored, memory, online, sending, history>>
          /\ UNCHANGED <<edits, others, faults>>
      BY <1>2 DEF OtherEditsItem
    <2>8. shown \in [page: SUBSET Page, item: SUBSET (0..items')]
      BY <2>3 DEF TypeInv
    <2>9. QED BY <2>1, <2>2, <2>3, <2>4, <2>5, <2>6, <2>7, <2>8 DEF TypeInv
  <1>3. CASE ServeRequest
    <2>1. PICK r : r = Current
      OBVIOUS
    <2>2. r \in RequestAt(items) /\ Serve(r) /\ answer' = Reply(r)
      BY <1>3, <2>1, CurrentIs DEF ServeRequest
    <2>3. answer' \in AnswerAt(items)
      BY <2>2, ReplyIs
    <2>4. UNCHANGED <<late, stored, memory, online, waiting, job, counters, history>>
      BY <1>3 DEF ServeRequest
    <2>5. QED BY <2>2, <2>3, <2>4, ServeType DEF TypeInv
  <1>4. CASE ServeLate
    <2>1. PICK r \in late : Serve(r) /\ late' = late \ {r}
      BY <1>4 DEF ServeLate
    <2>2. r \in RequestAt(items)
      BY <2>1 DEF TypeInv
    <2>3. UNCHANGED <<stored, memory, online, sending, counters, history>>
      BY <1>4 DEF ServeLate
    <2>4. QED BY <2>1, <2>2, <2>3, ServeType DEF TypeInv
  <1>5. QED BY <1>1, <1>2, <1>3, <1>4

\* What an edit writes.
LEMMA EditIs ==
  ASSUME TypeInv, EditorInv, Edit
  PROVE  /\ present \in DocAt(items) /\ base \in DocAt(items)
         /\ \E d \in DocAt(items) :
              /\ Writes(d) /\ present' = d /\ d.rev = present.rev + 1 /\ present.rev \in Nat
              /\ shown'.page = shown.page \cup {d.page} /\ shown'.item = shown.item \cup {d.item}
         /\ present' \in DocAt(items) /\ dropped' \subseteq Page /\ behind' \subseteq Page
         /\ shown' \in [page: SUBSET Page, item: SUBSET (0..items)]
  <1>1. present \in DocAt(items) /\ base \in DocAt(items)
    BY DEF Edit, TypeInv, EditorInv
  <1>2. PICK p \in Typed, i \in shown.item :
          Writes([rev |-> present.rev + 1, page |-> p, item |-> i, at |-> "editor"])
    BY DEF Edit
  <1>3. p \in Page /\ i \in 0..items
    <2>1. p = edits + others + 1 \/ p \in shown.page
      BY <1>2 DEF Typed
    <2>2. edits + others + 1 \in Page
      BY RoomForPages DEF Edit
    <2>3. shown.page \subseteq Page /\ shown.item \subseteq 0..items
      BY DEF TypeInv
    <2>4. QED BY <1>2, <2>1, <2>2, <2>3
  <1>4. PICK d : d = [rev |-> present.rev + 1, page |-> p, item |-> i, at |-> "editor"]
    OBVIOUS
  <1>5. d \in DocAt(items) /\ d.rev = present.rev + 1 /\ present.rev \in Nat
    BY <1>1, <1>3, <1>4 DEF DocAt
  <1>6. Writes(d) /\ present' = d /\ dropped' \subseteq Page /\ behind' \subseteq Page
    BY <1>1, <1>2, <1>4, <1>5, WritesType
  <1>7. /\ shown' \in [page: SUBSET Page, item: SUBSET (0..items)]
        /\ shown'.page = shown.page \cup {d.page} /\ shown'.item = shown.item \cup {d.item}
    <2>1. PICK S : S = {d}
      OBVIOUS
    <2>2. Show(S) /\ S \subseteq DocAt(items)
      BY <1>5, <1>6, <2>1 DEF Edit
    <2>3. QED BY <2>1, <2>2, ShowType
  <1>8. QED BY <1>1, <1>5, <1>6, <1>7

\* What the review of a conflict writes.
LEMMA ReviewIs ==
  ASSUME TypeInv, EditorInv, ReviewApply
  PROVE  /\ present \in DocAt(items) /\ conflict.base \in DocAt(items)
         /\ conflict.local \in DocAt(items) /\ conflict.remote \in DocAt(items)
         /\ \E d \in DocAt(items) :
              /\ Writes(d) /\ present' = d /\ conflict.local.rev < d.rev
              /\ shown'.page = shown.page \cup {conflict.remote.page, d.page}
              /\ shown'.item = shown.item \cup {conflict.remote.item, d.item}
         /\ present' \in DocAt(items) /\ dropped' \subseteq Page /\ behind' \subseteq Page
         /\ shown' \in [page: SUBSET Page, item: SUBSET (0..items)]
  <1>1. /\ present \in DocAt(items) /\ conflict.base \in DocAt(items)
        /\ conflict.local \in DocAt(items) /\ conflict.remote \in DocAt(items)
    BY PartsAre DEF ReviewApply, TypeInv, EditorInv
  <1>2. PICK page \in Merged("page", conflict), item \in Merged("item", conflict) :
          Writes([rev |-> Max({conflict.base.rev, conflict.local.rev, conflict.remote.rev}) + 1,
                  page |-> page, item |-> item, at |-> "editor"])
    BY DEF ReviewApply
  <1>3. page \in Page /\ item \in 0..items
    <2>1. \A x \in {conflict.base, conflict.local, conflict.remote} :
            x["page"] \in Page /\ x["item"] \in 0..items
      BY <1>1, PartsAre, DocFields
    <2>2. page \in {conflict.local["page"], conflict.remote["page"]}
      BY <1>2 DEF Merged
    <2>3. item \in {conflict.local["item"], conflict.remote["item"]}
      BY <1>2 DEF Merged
    <2>4. QED BY <2>1, <2>2, <2>3
  <1>4. PICK m : m = Max({conflict.base.rev, conflict.local.rev, conflict.remote.rev})
    OBVIOUS
  <1>5. m \in Nat /\ conflict.local.rev <= m /\ conflict.local.rev \in Nat
    BY <1>1, <1>4, MaxOfThree DEF DocAt
  <1>6. PICK d : d = [rev |-> m + 1, page |-> page, item |-> item, at |-> "editor"]
    OBVIOUS
  <1>7. d \in DocAt(items) /\ conflict.local.rev < d.rev
    BY <1>3, <1>5, <1>6 DEF DocAt
  <1>8. Writes(d)
    BY <1>2, <1>4, <1>6
  <1>9. present' = d /\ dropped' \subseteq Page /\ behind' \subseteq Page
    BY <1>1, <1>7, <1>8, WritesType
  <1>10. /\ shown' \in [page: SUBSET Page, item: SUBSET (0..items)]
         /\ shown'.page = shown.page \cup {conflict.remote.page, d.page}
         /\ shown'.item = shown.item \cup {conflict.remote.item, d.item}
    <2>1. PICK S : S = {conflict.remote, d}
      OBVIOUS
    <2>2. Show(S) /\ S \subseteq DocAt(items)
      BY <1>1, <1>7, <1>9, <2>1 DEF ReviewApply
    <2>3. QED BY <2>1, <2>2, ShowType
  <1>11. QED BY <1>1, <1>7, <1>8, <1>9, <1>10

\* So do the editor and its store.
LEMMA EditorType ==
  ASSUME TypeInv, EditorInv,
         Edit \/ Autosave \/ RetrySave \/ GoOffline \/ GoOnline \/ ReviewAgain \/ ReviewApply
  PROVE  TypeInv'
  <1> USE DEF studio, stored, memory, sending, counters, history
  <1>1. CASE Edit
    <2>1. /\ present' \in DocAt(items) /\ dropped' \subseteq Page /\ behind' \subseteq Page
          /\ shown' \in [page: SUBSET Page, item: SUBSET (0..items)]
      BY <1>1, EditIs
    <2>2. edits' \in 0..MaxEdits
      BY <1>1, RoomForPages DEF Edit
    <2>3. /\ dirty' = TRUE
          /\ UNCHANGED <<studio, late, stored, tab, todo, ready, online, base, conflict>>
          /\ UNCHANGED <<sending, others, items, faults, drifted>>
      BY <1>1 DEF Edit
    <2>4. QED BY <2>1, <2>2, <2>3 DEF TypeInv
  <1>2. CASE Autosave
    <2>1. present \in DocAt(items)
      BY <1>2 DEF Autosave, TypeInv, EditorInv
    <2>2. /\ localDoc' \in {present, localDoc}
          /\ waiting' \in {[snap |-> present, by |-> "autosave"], None, waiting}
      BY <1>2 DEF Autosave
    <2>3. PICK w : w = [snap |-> present, by |-> "autosave"]
      OBVIOUS
    <2>4. w \in WaitingAt(items)
      BY <2>1, <2>3 DEF WaitingAt, Trigger
    <2>5. localDoc' \in DocAt(items) /\ waiting' \in WaitingAt(items) \cup {None}
      BY <2>1, <2>2, <2>3, <2>4 DEF TypeInv
    <2>6. /\ dirty' = FALSE
          /\ UNCHANGED <<studio, late, storedBase, journal, tab, todo, ready, present>>
          /\ UNCHANGED <<base, conflict, online, job, answer, counters, history>>
      BY <1>2 DEF Autosave
    <2>7. QED BY <2>5, <2>6, ZenonT(40) DEF TypeInv
  <1>3. CASE RetrySave
    <2>1. present \in DocAt(items)
      BY <1>3 DEF RetrySave, TypeInv, EditorInv
    <2>2. localDoc' \in DocAt(items) /\ waiting' \in WaitingAt(items)
      BY <1>3, <2>1 DEF RetrySave, WaitingAt, Trigger
    <2>3. faults' \in 0..MaxFaults
      BY <1>3, ProjectSyncAssumption DEF RetrySave, Fault, TypeInv
    <2>4. /\ UNCHANGED <<studio, late, storedBase, journal, memory, online, job, answer>>
          /\ UNCHANGED <<edits, others, items, history>>
      BY <1>3 DEF RetrySave
    <2>5. QED BY <2>2, <2>3, <2>4, ZenonT(40) DEF TypeInv
  <1>4. CASE GoOffline
    <2>1. faults' \in 0..MaxFaults
      BY <1>4, ProjectSyncAssumption DEF GoOffline, Fault, TypeInv
    <2>2. QED BY <1>4, <2>1, ZenonT(40) DEF TypeInv, GoOffline
  <1>5. CASE GoOnline
    <2>1. waiting' \in WaitingAt(items) \cup {None}
      <3>1. CASE tab = "open"
        BY <1>5, <3>1 DEF GoOnline, TypeInv, EditorInv, WaitingAt, Trigger
      <3>2. CASE tab # "open"
        BY <1>5, <3>2 DEF GoOnline
      <3>3. QED BY <3>1, <3>2
    <2>2. QED BY <1>5, <2>1 DEF TypeInv, GoOnline
  <1>6. CASE ReviewAgain
    <2>1. present \in DocAt(items) /\ conflict \in ConflictAt(items)
      BY <1>6 DEF ReviewAgain, TypeInv, EditorInv
    <2>2. conflict' = [conflict EXCEPT !.local = present]
      BY <1>6 DEF ReviewAgain
    <2>3. conflict' \in ConflictAt(items)
      BY <2>1, <2>2 DEF ConflictAt
    <2>4. QED BY <1>6, <2>3 DEF TypeInv, ReviewAgain
  <1>7. CASE ReviewApply
    <2>1. /\ present' \in DocAt(items) /\ dropped' \subseteq Page /\ behind' \subseteq Page
          /\ shown' \in [page: SUBSET Page, item: SUBSET (0..items)]
          /\ conflict.remote \in DocAt(items)
      BY <1>7, ReviewIs
    <2>2. /\ base' = conflict.remote /\ conflict' = None /\ dirty' = TRUE
          /\ UNCHANGED <<studio, late, stored, tab, todo, ready, online, sending, counters, drifted>>
      BY <1>7 DEF ReviewApply
    <2>3. QED BY <2>1, <2>2 DEF TypeInv
  <1>8. QED BY <1>1, <1>2, <1>3, <1>4, <1>5, <1>6, <1>7

\* The end of a synchronisation.
LEMMA EndsIs ==
  ASSUME TypeInv, NEW shows \in DocAt(items), NEW ok \in BOOLEAN, SyncEnds(shows, ok),
         job # None, job.canonical \in DocAt(items)
  PROVE  /\ job' = None /\ ready' \in BOOLEAN /\ dirty' \in BOOLEAN
         /\ shown' \in [page: SUBSET Page, item: SUBSET (0..items)] /\ drifted' \subseteq Item
         /\ shown'.page = shown.page \cup {shows.page} /\ shown'.item = shown.item \cup {shows.item}
         /\ drifted \subseteq drifted' /\ job.canonical.item \in shown'.item \cup drifted'
  <1>1. job' = None /\ ready' = (ready \/ (job.by = "retry" /\ ok))
        /\ dirty' = (dirty \/ ready' # ready \/ shows # present)
        /\ drifted' = drifted \cup ({job.canonical.item} \ shown'.item)
    BY DEF SyncEnds
  <1>2. ready' \in BOOLEAN /\ dirty' \in BOOLEAN
    BY <1>1
  <1>3. /\ shown' \in [page: SUBSET Page, item: SUBSET (0..items)]
        /\ shown'.page = shown.page \cup {shows.page} /\ shown'.item = shown.item \cup {shows.item}
    <2>1. PICK S : S = {shows}
      OBVIOUS
    <2>2. Show(S) /\ S \subseteq DocAt(items)
      BY <2>1 DEF SyncEnds
    <2>3. QED BY <2>1, <2>2, ShowType
  <1>4. job.canonical.item \in Item
    BY PartsAre, Something DEF Doc
  <1>5. drifted' \subseteq Item
    BY <1>1, <1>4 DEF TypeInv
  <1>6. QED BY <1>1, <1>2, <1>3, <1>5

\* And so does a synchronisation.
LEMMA SyncType ==
  ASSUME TypeInv, EditorInv, JobInv, CommandInv, Sync \/ SyncFails
  PROVE  TypeInv'
  <1> USE DEF studio, stored, memory, sending, counters, history
  <1>1. CASE SyncStart
    <2>1. waiting.snap \in DocAt(items) /\ waiting.by \in Trigger /\ base \in DocAt(items)
      BY <1>1, PartsAre DEF SyncStart, EditorInv, TypeInv
    <2>2. /\ journal' \in Seq(CommandAt(items)) /\ Len(journal') <= MaxCommands
          /\ job' \in JobAt(items) \cup {None} /\ ready' \in BOOLEAN
      <3>1. CASE waiting.snap.rev < base.rev \/ waiting.snap = base
        <4>1. ready' = (ready \/ (waiting.by = "retry" /\ waiting.snap = base)) /\ UNCHANGED <<journal, job>>
          BY <1>1, <3>1 DEF SyncStart
        <4>2. ready' \in BOOLEAN
          BY <4>1
        <4>3. QED BY <4>1, <4>2 DEF TypeInv
      <3>2. CASE ~(waiting.snap.rev < base.rev \/ waiting.snap = base)
        <4>1. PICK id \in Id \cup {None} :
                /\ QueueCommand(waiting.snap, id)
                /\ job' = [pc |-> "queued", snap |-> waiting.snap, base |-> base,
                           id |-> id, canonical |-> None, by |-> waiting.by]
          BY <1>1, <3>2 DEF SyncStart
        <4>2. job' \in JobAt(items)
          BY <2>1, <4>1 DEF JobAt
        <4>3. ready' = ready
          BY <1>1, <3>2 DEF SyncStart
        <4>4. /\ journal' \in Seq(CommandAt(items)) /\ (id # None => Len(journal') <= MaxCommands)
              /\ id = None => journal' = journal
          <5>1. PICK s \in DocAt(items) : s = waiting.snap
            BY <2>1
          <5>2. QueueCommand(s, id) /\ base # None
            BY <1>1, <4>1, <5>1 DEF SyncStart, EditorInv
          <5>3. QED BY <5>2, QueueIs
        <4>5. Len(journal') <= MaxCommands
          BY <4>4 DEF TypeInv
        <4>6. QED BY <4>2, <4>3, <4>4, <4>5 DEF TypeInv
      <3>3. QED BY <3>1, <3>2
    <2>3. dirty' \in BOOLEAN
      BY <1>1 DEF SyncStart
    <2>4. /\ waiting' = None
          /\ UNCHANGED <<studio, late, localDoc, storedBase, tab, todo, present, base>>
          /\ UNCHANGED <<conflict, online, answer, counters, history>>
      BY <1>1 DEF SyncStart
    <2>5. QED BY <2>2, <2>3, <2>4 DEF TypeInv
  <1>2. CASE SyncSend
    <2>1. PICK j : j = [job EXCEPT !.pc = "sent"]
      OBVIOUS
    <2>2. job \in JobAt(items)
      BY <1>2 DEF SyncSend, TypeInv
    <2>3. j \in JobAt(items)
      BY <2>1, <2>2 DEF JobAt
    <2>4. job' = j \/ job' = None
      BY <1>2, <2>1 DEF SyncSend
    <2>5. QED BY <1>2, <2>3, <2>4 DEF TypeInv, SyncSend
  <1>3. CASE SyncFails
    <2>1. faults' \in 0..MaxFaults
      BY <1>3, ProjectSyncAssumption DEF SyncFails, Fault, TypeInv
    <2>2. late' \subseteq RequestAt(items)
      <3>1. CASE answer = None
        <4>1. Unserved
          BY <1>3, <3>1 DEF SyncFails, Unserved
        <4>2. PICK r : r = Current
          OBVIOUS
        <4>3. r \in RequestAt(items)
          BY <4>1, <4>2, CurrentIs
        <4>4. late' = late \cup {r}
          BY <1>3, <3>1, <4>2 DEF SyncFails
        <4>5. QED BY <4>3, <4>4 DEF TypeInv
      <3>2. CASE answer # None
        BY <1>3, <3>2 DEF SyncFails, TypeInv
      <3>3. QED BY <3>1, <3>2
    <2>3. /\ job' = None /\ answer' = None
          /\ UNCHANGED <<studio, stored, memory, online, waiting, edits, others, items, history>>
      BY <1>3 DEF SyncFails
    <2>4. QED BY <2>1, <2>2, <2>3 DEF TypeInv
  <1>4. CASE SyncRefused
    <2>1. journal' \in Seq(CommandAt(items)) /\ Len(journal') <= MaxCommands
      BY <1>4, RefusedIs
    <2>2. conflict' \in ConflictAt(items) \cup {None}
      <3>1. conflict' = conflict \/ conflict' = [base |-> job.base, local |-> job.snap, remote |-> server]
        BY <1>4 DEF SyncRefused
      <3>2. job.base \in DocAt(items) /\ job.snap \in DocAt(items) /\ server \in DocAt(items)
        BY <1>4, PartsAre DEF SyncRefused, Answered, TypeInv
      <3>3. QED BY <3>1, <3>2 DEF ConflictAt, TypeInv
    <2>3. /\ job' = None /\ answer' = None
          /\ UNCHANGED <<studio, late, localDoc, storedBase, tab, todo, ready, present>>
          /\ UNCHANGED <<base, dirty, online, waiting, counters, history>>
      BY <1>4 DEF SyncRefused
    <2>4. QED BY <2>1, <2>2, <2>3 DEF TypeInv
  <1>5. CASE SyncConfirmed
    <2>1. journal' \in Seq(CommandAt(items)) /\ Len(journal') <= MaxCommands
      BY <1>5, ConfirmedAre
    <2>2. answer.doc \in DocAt(items) /\ job \in JobAt(items)
      BY <1>5, PartsAre DEF SyncConfirmed, Answered, TypeInv
    <2>3. job' = [job EXCEPT !.pc = "confirmed", !.canonical = answer.doc] /\ base' = answer.doc
      BY <1>5 DEF SyncConfirmed
    <2>4. job' \in JobAt(items)
      BY <2>2, <2>3 DEF JobAt
    <2>5. /\ answer' = None
          /\ UNCHANGED <<studio, late, localDoc, storedBase, tab, todo, ready, present>>
          /\ UNCHANGED <<conflict, dirty, online, waiting, counters, history>>
      BY <1>5 DEF SyncConfirmed
    <2>6. QED BY <2>1, <2>2, <2>3, <2>4, <2>5 DEF TypeInv
  <1>6. CASE SyncRebases
    <2>1. job \in JobAt(items) /\ job.canonical \in DocAt(items)
      BY <1>6, PartsAre DEF SyncRebases, JobInv, Done, TypeInv
    <2>2. job' = [job EXCEPT !.pc = "based"] /\ storedBase' = job.canonical
      BY <1>6 DEF SyncRebases
    <2>3. job' \in JobAt(items)
      BY <2>1, <2>2 DEF JobAt
    <2>4. QED BY <1>6, <2>1, <2>2, <2>3 DEF TypeInv, SyncRebases
  <1>7. CASE SyncStores
    <2>1. /\ job \in JobAt(items) /\ job.canonical \in DocAt(items) /\ present \in DocAt(items)
          /\ job # None
      BY <1>7, PartsAre DEF SyncStores, JobInv, Done, TypeInv, EditorInv
    <2>2. CASE Adopts /\ MayPersist(job.canonical, TRUE)
      <3>1. /\ localDoc' = job.canonical /\ job' = [job EXCEPT !.pc = "stored"]
            /\ UNCHANGED <<ready, dirty, shown, drifted>>
        BY <1>7, <2>2 DEF SyncStores
      <3>2. job' \in JobAt(items)
        BY <2>1, <3>1 DEF JobAt
      <3>3. QED BY <1>7, <2>1, <3>1, <3>2 DEF TypeInv, SyncStores
    <2>3. CASE ~(Adopts /\ MayPersist(job.canonical, TRUE))
      <3>1. SyncEnds(present, ~Adopts) /\ UNCHANGED localDoc
        BY <1>7, <2>3 DEF SyncStores
      <3>2. PICK ok \in BOOLEAN : ok = ~Adopts
        OBVIOUS
      <3>3. SyncEnds(present, ok)
        BY <3>1, <3>2
      <3>4. /\ job' = None /\ ready' \in BOOLEAN /\ dirty' \in BOOLEAN
            /\ shown' \in [page: SUBSET Page, item: SUBSET (0..items)] /\ drifted' \subseteq Item
        BY <2>1, <3>3, EndsIs
      <3>5. /\ UNCHANGED <<studio, late, storedBase, journal, tab, todo, present, base>>
            /\ UNCHANGED <<conflict, online, waiting, answer, counters, dropped, behind>>
        BY <1>7 DEF SyncStores
      <3>6. QED BY <3>1, <3>4, <3>5 DEF TypeInv
    <2>4. QED BY <2>2, <2>3
  <1>8. CASE SyncAdopts
    <2>1. /\ job.canonical \in DocAt(items) /\ present \in DocAt(items) /\ job # None
      BY <1>8, PartsAre DEF SyncAdopts, JobInv, Done, TypeInv, EditorInv
    <2>2. present' \in DocAt(items) /\ SyncEnds(present', TRUE)
      BY <1>8, <2>1 DEF SyncAdopts
    <2>3. PICK p \in DocAt(items) : p = present'
      BY <2>2
    <2>4. /\ job' = None /\ ready' \in BOOLEAN /\ dirty' \in BOOLEAN
          /\ shown' \in [page: SUBSET Page, item: SUBSET (0..items)] /\ drifted' \subseteq Item
      BY <2>1, <2>2, <2>3, EndsIs
    <2>5. /\ UNCHANGED <<studio, late, stored, tab, todo, base, conflict, online, waiting>>
          /\ UNCHANGED <<answer, counters, dropped, behind>>
      BY <1>8 DEF SyncAdopts
    <2>6. QED BY <2>2, <2>4, <2>5 DEF TypeInv
  <1>9. QED BY <1>1, <1>2, <1>3, <1>4, <1>5, <1>6, <1>7, <1>8 DEF Sync


\* What is on the screen when the editor opens.
LEMMA OpenIs ==
  ASSUME TypeInv, EditorInv, OpenOnline \/ OpenOffline
  PROVE  /\ server \in DocAt(items) /\ localDoc \in DocAt(items) /\ base \in DocAt(items)
         /\ present' \in DocAt(items)
         /\ shown' \in [page: SUBSET Page, item: SUBSET (0..items)]
         /\ shown'.page = shown.page \cup {present'.page}
         /\ shown'.item = shown.item \cup {present'.item}
         /\ drifted \subseteq drifted' /\ drifted' \subseteq Item
         /\ base' \in DocAt(items) /\ storedBase' \in DocAt(items)
         /\ conflict' \in ConflictAt(items) \cup {None}
  <1>1. server \in DocAt(items) /\ localDoc \in DocAt(items) /\ base \in DocAt(items)
    BY DEF OpenOnline, OpenOffline, EditorInv, TypeInv
  <1>2. present' \in DocAt(items) /\ Show({present'})
    BY <1>1 DEF OpenOnline, OpenOffline
  <1>3. base' \in {base, server} /\ storedBase' \in {storedBase, server}
    BY DEF OpenOnline, OpenOffline, stored
  <1>4. /\ conflict' = conflict \/ conflict' = [base |-> base, local |-> localDoc, remote |-> server]
        /\ drifted' = drifted \/ drifted' = drifted \cup ({server.item} \ shown'.item)
           \/ drifted' = drifted \cup ({base.item} \ shown'.item)
    BY DEF OpenOnline, OpenOffline
  <1>5. conflict' \in ConflictAt(items) \cup {None}
    BY <1>1, <1>4 DEF ConflictAt, TypeInv
  <1>6. server.item \in Item /\ base.item \in Item
    BY <1>1, PartsAre, Something DEF Doc
  <1>7. drifted \subseteq drifted' /\ drifted' \subseteq Item
    BY <1>4, <1>6 DEF TypeInv
  <1>8. /\ shown' \in [page: SUBSET Page, item: SUBSET (0..items)]
        /\ shown'.page = shown.page \cup {present'.page}
        /\ shown'.item = shown.item \cup {present'.item}
    <2>1. PICK d \in DocAt(items) : d = present'
      BY <1>2
    <2>2. PICK S : S = {d}
      OBVIOUS
    <2>3. Show(S) /\ S \subseteq DocAt(items)
      BY <1>2, <2>1, <2>2
    <2>4. QED BY <2>1, <2>2, <2>3, ShowType
  <1>9. storedBase' \in DocAt(items)
    BY <1>1, <1>3 DEF TypeInv
  <1>10. QED BY <1>1, <1>2, <1>3, <1>5, <1>7, <1>8, <1>9

\* And closing and opening.
LEMMA OpeningType ==
  ASSUME TypeInv, EditorInv, JobInv, CommandInv, Close \/ Load \/ Resume \/ ResumeFails \/ OpenOnline \/ OpenOffline
  PROVE  TypeInv'
  <1> USE DEF studio, stored, memory, sending, counters, history
  <1>1. CASE Close
    <2>1. late' \subseteq RequestAt(items)
      <3>1. CASE Unserved
        <4>1. PICK r : r = Current
          OBVIOUS
        <4>2. r \in RequestAt(items)
          BY <3>1, <4>1, CurrentIs
        <4>3. late' = late \cup {r}
          BY <1>1, <3>1, <4>1 DEF Close
        <4>4. QED BY <4>2, <4>3 DEF TypeInv
      <3>2. CASE ~Unserved
        BY <1>1, <3>2 DEF Close, TypeInv
      <3>3. QED BY <3>1, <3>2
    <2>2. dropped' \subseteq Page
      <3>1. present.page \in Page
        BY <1>1 DEF Close, EditorInv, TypeInv, DocAt
      <3>2. QED BY <1>1, <3>1 DEF Close, TypeInv
    <2>3. faults' \in 0..MaxFaults
      BY <1>1, ProjectSyncAssumption DEF Close, Fault, TypeInv
    <2>4. /\ tab' = "closed" /\ ready' = FALSE /\ present' = None /\ base' = None
          /\ conflict' = None /\ dirty' = FALSE
          /\ waiting' = None /\ job' = None /\ answer' = None
          /\ UNCHANGED <<studio, stored, todo, online, edits, others, items, shown, drifted>>
          /\ UNCHANGED behind
      BY <1>1 DEF Close
    <2>5. QED BY <2>1, <2>2, <2>3, <2>4 DEF TypeInv
  <1>2. CASE Load
    <2>1. todo' \subseteq Id
      BY <1>2, JournalIs DEF Load
    <2>2. QED BY <1>2, <2>1 DEF TypeInv, Load
  <1>3. CASE Resume
    <2>1. /\ journal' \in Seq(CommandAt(items)) /\ Len(journal') <= MaxCommands
          /\ \E id \in DOMAIN journal : Resumes(id, receipts[id])
      BY <1>3, ResumeIs
    <2>2. PICK id \in DOMAIN journal : Resumes(id, receipts[id])
      BY <2>1
    <2>3. receipts[id] \in DocAt(items) \cup {None}
      BY <2>2, JournalIs DEF TypeInv
    <2>4. /\ base' \in DocAt(items) \cup {None} /\ storedBase' \in DocAt(items)
          /\ localDoc' \in DocAt(items) /\ todo' \subseteq Id
      <3>1. CASE UNCHANGED <<base, stored>>
        BY <2>2, <3>1 DEF Resumes, TypeInv
      <3>2. CASE ~UNCHANGED <<base, stored>>
        BY <2>2, <2>3, <3>2 DEF Resumes, TypeInv
      <3>3. QED BY <3>1, <3>2
    <2>5. /\ UNCHANGED <<studio, late, tab, ready, present, conflict, dirty, online>>
          /\ UNCHANGED <<sending, counters, history>>
      BY <1>3 DEF Resume
    <2>6. QED BY <2>1, <2>4, <2>5 DEF TypeInv
  <1>4. CASE OpenOnline
    <2>1. /\ tab' = "open" /\ ready' = TRUE /\ dirty' = TRUE
          /\ UNCHANGED <<studio, late, localDoc, journal, todo, online, sending, counters, dropped, behind>>
      BY <1>4 DEF OpenOnline
    <2>2. QED BY <1>4, <2>1, OpenIs DEF TypeInv
  <1>5. CASE OpenOffline
    <2>1. /\ tab' = "open" /\ dirty' = TRUE
          /\ UNCHANGED <<studio, late, stored, todo, ready, base, conflict, online>>
          /\ UNCHANGED <<sending, edits, others, items, dropped, behind>>
      BY <1>5 DEF OpenOffline
    <2>2. faults' \in 0..MaxFaults
      BY <1>5, ProjectSyncAssumption DEF OpenOffline, Fault, TypeInv
    <2>3. QED BY <1>5, <2>1, <2>2, OpenIs DEF TypeInv
  <1>6. CASE ResumeFails
    <2>1. faults' \in 0..MaxFaults /\ todo' \subseteq Id
      BY <1>6 DEF ResumeFails, TypeInv
    <2>2. /\ UNCHANGED <<studio, late, stored, tab, ready, present, base, conflict, dirty>>
          /\ UNCHANGED <<online, sending, edits, others, items, history>>
      BY <1>6 DEF ResumeFails
    <2>3. QED BY <2>1, <2>2, ZenonT(40) DEF TypeInv
  <1>7. QED BY <1>1, <1>2, <1>3, <1>4, <1>5, <1>6

\* Every step keeps the types.
LEMMA TypeStep ==
  ASSUME TypeInv, EditorInv, JobInv, CommandInv, [Next]_vars
  PROVE  TypeInv'
  <1>1. CASE UNCHANGED vars
    BY <1>1 DEF TypeInv, vars, studio, stored, memory, sending, counters, history
  <1>2. CASE Next
    BY <1>2, StudioType, EditorType, SyncType, OpeningType DEF Next
  <1>3. QED BY <1>1, <1>2

-----------------------------------------------------------------------------
(* The editor and its job                                                  *)

\* No step confuses what an open, an opening and a closed tab have.
LEMMA EditorStep ==
  ASSUME TypeInv, TypeInv', EditorInv, JobInv, [Next]_vars
  PROVE  EditorInv'
  <1> USE DEF studio, stored, memory, sending, counters, history
  <1>1. CASE UNCHANGED <<tab, base, present, waiting, job, conflict, answer, storedBase, todo, journal>>
    BY <1>1 DEF EditorInv
  <1>2. /\ OtherSaves \/ OtherEditsItem \/ ServeLate \/ GoOffline \/ UNCHANGED vars =>
             UNCHANGED <<tab, base, present, waiting, job, conflict, answer, storedBase, todo, journal>>
    BY DEF OtherSaves, OtherEditsItem, ServeLate, GoOffline, vars
  <1>3. CASE ServeRequest
    BY <1>3 DEF ServeRequest, Unserved, EditorInv
  <1>4. CASE Edit
    <2>1. present' # None
      BY <1>4, EditIs, Something, PartsAre
    <2>2. QED BY <1>4, <2>1 DEF Edit, EditorInv
  <1>5. CASE Autosave \/ RetrySave \/ GoOnline \/ ReviewAgain
    <2>1. /\ tab # "open" => UNCHANGED waiting
          /\ UNCHANGED <<tab, base, present, job, answer, storedBase, todo, journal>>
          /\ tab # "open" => UNCHANGED conflict
      BY <1>5 DEF Autosave, RetrySave, GoOnline, ReviewAgain
    <2>2. QED BY <2>1 DEF EditorInv
  <1>6. CASE SyncStart
    <2>1. tab = "open" /\ todo = {} /\ answer = None
      BY <1>6 DEF SyncStart, EditorInv
    <2>2. QED BY <1>6, <2>1 DEF SyncStart, EditorInv
  <1>7. ASSUME SyncSend \/ SyncFails \/ SyncRefused \/ SyncConfirmed \/ SyncRebases \/ SyncStores \/ SyncAdopts
        PROVE  EditorInv'
    <2>1. tab = "open" /\ todo = {} /\ job # None /\ base # None /\ present # None
      BY <1>7 DEF SyncSend, SyncFails, SyncRefused, Answered, SyncConfirmed, SyncRebases,
                  SyncStores, SyncAdopts, EditorInv
    <2>2. UNCHANGED <<tab, todo>>
      BY <1>7 DEF SyncSend, SyncFails, SyncRefused, SyncConfirmed, SyncRebases, SyncStores, SyncAdopts
    <2>3. base' # None
      <3>1. CASE SyncConfirmed
        BY <3>1, PartsAre, Something DEF SyncConfirmed, Answered
      <3>2. CASE ~SyncConfirmed
        BY <1>7, <2>1, <3>2
        DEF SyncSend, SyncFails, SyncRefused, SyncRebases, SyncStores, SyncAdopts
      <3>3. QED BY <3>1, <3>2
    <2>4. present' # None
      <3>1. CASE SyncAdopts
        BY <2>1, <3>1 DEF SyncAdopts, JobInv, Done
      <3>2. CASE ~SyncAdopts
        BY <1>7, <2>1, <3>2
        DEF SyncSend, SyncFails, SyncRefused, SyncConfirmed, SyncRebases, SyncStores
      <3>3. QED BY <3>1, <3>2
    <2>5. answer' = None
      BY <1>7, <2>1 DEF SyncSend, SyncFails, SyncRefused, SyncConfirmed, SyncRebases,
                        SyncStores, SyncAdopts, EditorInv
    <2>6. QED BY <2>1, <2>2, <2>3, <2>4, <2>5 DEF EditorInv
  <1>8. CASE ReviewApply
    <2>1. present' # None /\ base' # None
      BY <1>8, ReviewIs, Something, PartsAre DEF ReviewApply
    <2>2. QED BY <1>8, <2>1 DEF ReviewApply, EditorInv
  <1>9. CASE Close
    BY <1>9 DEF Close, EditorInv
  <1>10. CASE Load
    <2>1. base' # None
      BY <1>10, Something, PartsAre DEF Load, TypeInv
    <2>2. QED BY <1>10, <2>1 DEF Load, EditorInv
  <1>11. CASE Resume
    <2>1. DOMAIN journal' = DOMAIN journal
      BY <1>11, ResumeIs
    <2>2. PICK id \in DOMAIN journal : Resumes(id, receipts[id])
      BY <1>11, ResumeIs
    <2>3. /\ tab = "resuming" /\ present = None /\ conflict = None
          /\ UNCHANGED <<tab, present, conflict, waiting, job, answer>>
      BY <1>11 DEF Resume, EditorInv
    <2>4. CASE UNCHANGED <<base, stored>>
      BY <2>2, <2>3, <2>4 DEF EditorInv, Resumes
    <2>5. CASE ~UNCHANGED <<base, stored>>
      <3>1. /\ receipts[id] # None /\ base' = receipts[id] /\ storedBase' = receipts[id]
            /\ todo' = todo \ {id} /\ \A i \in DOMAIN journal : i # id => journal'[i] = journal[i]
        BY <2>2, <2>5 DEF Resumes
      <3>2. QED BY <2>1, <2>3, <3>1 DEF EditorInv
    <2>6. QED BY <2>4, <2>5
  <1>12. CASE OpenOnline \/ OpenOffline
    <2>1. present' # None /\ base' # None
      BY <1>12, OpenIs, Something, PartsAre
    <2>2. /\ tab = "resuming" /\ tab' = "open" /\ todo' = {}
          /\ UNCHANGED <<waiting, job, answer>>
      BY <1>12 DEF OpenOnline, OpenOffline
    <2>3. QED BY <2>1, <2>2 DEF EditorInv
  <1>13. CASE ResumeFails
    BY <1>13 DEF ResumeFails, EditorInv
  <1>14. QED
    BY <1>1, <1>2, <1>3, <1>4, <1>5, <1>6, <1>7, <1>8, <1>9, <1>10, <1>11, <1>12, <1>13
    DEF Next, Sync

-----------------------------------------------------------------------------
(* What the studio has had                                                 *)

\* The studio never goes back, and within a revision only a record changes.
StudioMove ==
  /\ server.rev <= server'.rev
  /\ server'.rev = server.rev =>
       /\ server'.page = server.page /\ server'.at = server.at
       /\ server'.item = server.item \/ (items' = items + 1 /\ server'.item = items')
  /\ served' = served \cup {<<server'.rev, server'.page>>}
  /\ \A i \in Id : receipts'[i] = receipts[i] \/ (receipts[i] = None /\ receipts'[i] = server')
  /\ server.rev \in Nat /\ server'.rev \in Nat /\ server.item \in 0..items /\ items \in Nat

\* Every step moves the studio so.
LEMMA StudioMoves ==
  ASSUME TypeInv, EditorInv, JobInv, CommandInv, ServedInv, [Next]_vars
  PROVE  StudioMove
  <1> USE DEF studio, stored, memory, sending, counters, history
  <1>1. server \in DocAt(items) /\ server.rev \in Nat /\ server.item \in 0..items /\ items \in Nat
    <2>1. server \in DocAt(items) /\ items \in Nat
      BY PartsAre DEF TypeInv
    <2>2. QED BY <2>1, DocFields
  <1>2. CASE UNCHANGED <<server, receipts, served>>
    <2>1. served = served \cup {<<server.rev, server.page>>}
      BY DEF ServedInv
    <2>2. QED BY <1>1, <1>2, <2>1 DEF StudioMove
  <1>3. ASSUME NEW r \in RequestAt(items), Serve(r)
        PROVE  StudioMove
    <2>1. CASE UNCHANGED <<server, raw, receipts, served>>
      BY <1>2, <2>1
    <2>2. CASE Takes(r)
      <3>1. PICK d \in DocAt(items) :
              /\ server' = d /\ served' = served \cup {<<d.rev, d.page>>}
              /\ TakesCommand(r, d) \/ TakesDocument(r, d)
        BY <2>2 DEF Takes
      <3>2. d.rev \in Nat
        BY <1>1, DocFields
      <3>3. server.rev < d.rev \/ d = server
        BY <3>1 DEF TakesCommand, TakesDocument
      <3>4. \A i \in Id : receipts'[i] = receipts[i] \/ (receipts[i] = None /\ receipts'[i] = d)
        BY <3>1 DEF TakesCommand, TakesDocument, TypeInv
      <3>5. server.rev <= d.rev /\ (d.rev = server.rev => d = server)
        BY <1>1, <3>2, <3>3
      <3>6. QED BY <1>1, <3>1, <3>2, <3>4, <3>5 DEF StudioMove
    <2>3. QED BY <1>3, <2>1, <2>2, ServeIs
  <1>4. CASE OtherSaves
    <2>1. server' = [server EXCEPT !.rev = @ + 1, !.page = edits + others + 1, !.at = "server"]
          /\ served' = served \cup {<<server'.rev, server'.page>>} /\ receipts' = receipts
      BY <1>4 DEF OtherSaves, Write
    <2>2. server'.rev = server.rev + 1
      BY <1>1, <2>1 DEF DocAt
    <2>3. server.rev <= server'.rev /\ server'.rev # server.rev /\ server'.rev \in Nat
      BY <1>1, <2>2
    <2>4. QED BY <1>1, <2>1, <2>3 DEF StudioMove
  <1>5. CASE OtherEditsItem
    <2>1. /\ server' = [server EXCEPT !.item = items + 1] /\ items' = items + 1
          /\ UNCHANGED <<receipts, served>>
      BY <1>5 DEF OtherEditsItem
    <2>2. /\ server'.rev = server.rev /\ server'.page = server.page /\ server'.at = server.at
          /\ server'.item = items'
      BY <1>1, <2>1 DEF DocAt
    <2>3. served = served \cup {<<server.rev, server.page>>}
      BY DEF ServedInv
    <2>4. QED BY <1>1, <2>1, <2>2, <2>3 DEF StudioMove
  <1>6. CASE ServeRequest
    BY <1>3, <1>6, CurrentIs DEF ServeRequest
  <1>7. CASE ServeLate
    BY <1>3, <1>7 DEF ServeLate, TypeInv
  <1>8. CASE \/ Edit \/ Autosave \/ RetrySave \/ GoOffline \/ ResumeFails \/ GoOnline \/ Sync \/ SyncFails
             \/ ReviewAgain \/ ReviewApply \/ Close \/ Load \/ Resume \/ OpenOnline \/ OpenOffline
    BY <1>2, <1>8
    DEF Edit, Autosave, RetrySave, GoOffline, ResumeFails, GoOnline, Sync, SyncStart, SyncSend, SyncRefused,
        SyncConfirmed, SyncRebases, SyncStores, SyncAdopts, SyncFails, ReviewAgain, ReviewApply,
        Close, Load, Resume, OpenOnline, OpenOffline
  <1>9. CASE UNCHANGED vars
    BY <1>2, <1>9 DEF vars
  <1>10. QED BY <1>4, <1>5, <1>6, <1>7, <1>8, <1>9 DEF Next

\* What the studio has had it has had, and what it has now too.
LEMMA PastStays ==
  ASSUME TypeInv, ServedInv, StudioMove
  PROVE  /\ \A d \in DocAt(items) : Past(d) => Past(d)'
         /\ \A d : /\ d.rev = server'.rev /\ d.page = server'.page /\ d.at = server'.at
                 => Past(d)'
         /\ Past(server)
         /\ \A p \in served' : p[1] <= server'.rev
         /\ \A p, q \in served' : p[1] = q[1] => p = q
  <1>1. /\ server.rev \in Nat /\ server'.rev \in Nat /\ server.rev <= server'.rev
        /\ served' = served \cup {<<server'.rev, server'.page>>}
        /\ server'.rev = server.rev => server'.page = server.page /\ server'.at = server.at
    BY DEF StudioMove
  <1>2. /\ \A p \in served : p[1] <= server.rev /\ p[1] \in Nat
        /\ \A p, q \in served : p[1] = q[1] => p = q
        /\ <<server.rev, server.page>> \in served
    BY DEF ServedInv, TypeInv
  <1>3. ASSUME NEW d \in DocAt(items), Past(d)
        PROVE  Past(d)'
    <2>1. <<d.rev, d.page>> \in served /\ (d.rev = server.rev => d.at = server.at)
      BY <1>3 DEF Past
    <2>2. d.rev <= server.rev /\ d.rev \in Nat
      BY <1>2, <2>1
    <2>3. d.rev = server'.rev => server'.rev = server.rev
      BY <1>1, <2>2
    <2>4. QED BY <1>1, <2>1, <2>3 DEF Past
  <1>4. /\ \A d : /\ d.rev = server'.rev /\ d.page = server'.page /\ d.at = server'.at
                => Past(d)'
        /\ Past(server)
    BY <1>1, <1>2 DEF Past
  <1>5. \A p \in served' : p[1] <= server'.rev
    BY <1>1, <1>2
  <1>6. ASSUME NEW p \in served', NEW q \in served', p[1] = q[1]
        PROVE  p = q
    <2>1. PICK s : s = <<server'.rev, server'.page>>
      OBVIOUS
    <2>2. s[1] = server'.rev /\ served' = served \cup {s}
      BY <1>1, <2>1
    <2>3. \A x \in served : x[1] = server'.rev => x = s
      <3>1. ASSUME NEW x \in served, x[1] = server'.rev
            PROVE  x = s
        <4>1. server'.rev = server.rev
          BY <1>1, <1>2, <3>1
        <4>2. s = <<server.rev, server.page>>
          BY <1>1, <2>1, <4>1
        <4>3. s \in served /\ x[1] = s[1]
          BY <1>2, <2>2, <3>1, <4>2
        <4>4. QED BY <1>2, <3>1, <4>3
      <3>2. QED BY <3>1
    <2>4. QED BY <1>2, <1>6, <2>2, <2>3
  <1>7. QED BY <1>3, <1>4, <1>5, <1>6

\* What has been shown, or has become a base unseen, stays known.
HistoryMove ==
  /\ shown.page \subseteq shown'.page /\ shown.item \subseteq shown'.item
  /\ drifted \subseteq drifted'

\* Every step moves them so.
LEMMA HistoryMoves ==
  ASSUME TypeInv, EditorInv, JobInv, [Next]_vars
  PROVE  HistoryMove
  <1> USE DEF studio, stored, memory, sending, counters, history
  <1>1. CASE UNCHANGED <<shown, drifted>>
    BY <1>1 DEF HistoryMove
  <1>2. CASE Edit
    BY <1>2, EditIs DEF Edit, HistoryMove
  <1>3. CASE ReviewApply
    BY <1>3, ReviewIs DEF ReviewApply, HistoryMove
  <1>4. CASE OpenOnline \/ OpenOffline
    BY <1>4, OpenIs DEF HistoryMove
  <1>5. ASSUME NEW shows \in DocAt(items), NEW ok \in BOOLEAN, SyncEnds(shows, ok), Done
        PROVE  HistoryMove
    <2>1. job # None /\ job.canonical \in DocAt(items)
      BY <1>5, PartsAre DEF Done, JobInv
    <2>2. QED BY <1>5, <2>1, EndsIs DEF HistoryMove
  <1>6. CASE SyncStores
    <2>1. Done /\ present \in DocAt(items)
      BY <1>6 DEF SyncStores, Done, EditorInv, TypeInv
    <2>2. CASE SyncEnds(present, ~Adopts)
      <3>1. PICK ok \in BOOLEAN : ok = ~Adopts
        OBVIOUS
      <3>2. SyncEnds(present, ok)
        BY <2>2, <3>1
      <3>3. QED BY <1>5, <2>1, <3>2
    <2>3. CASE UNCHANGED <<shown, drifted>>
      BY <1>1, <2>3
    <2>4. QED BY <1>6, <2>2, <2>3 DEF SyncStores
  <1>7. CASE SyncAdopts
    <2>1. Done /\ job.canonical \in DocAt(items) /\ present \in DocAt(items)
      BY <1>7, PartsAre DEF SyncAdopts, Done, JobInv, EditorInv, TypeInv
    <2>2. PICK d \in DocAt(items) : d = present'
      BY <1>7, <2>1 DEF SyncAdopts
    <2>3. SyncEnds(d, TRUE)
      BY <1>7, <2>2 DEF SyncAdopts
    <2>4. QED BY <1>5, <2>1, <2>3
  <1>8. CASE \/ OtherSaves \/ OtherEditsItem \/ ServeRequest \/ ServeLate \/ Autosave \/ RetrySave
             \/ GoOffline \/ ResumeFails \/ GoOnline \/ SyncStart \/ SyncSend \/ SyncRefused \/ SyncConfirmed
             \/ SyncRebases \/ SyncFails \/ ReviewAgain \/ Close \/ Load \/ Resume
    BY <1>1, <1>8
    DEF OtherSaves, OtherEditsItem, ServeRequest, ServeLate, Autosave, RetrySave, GoOffline, ResumeFails,
        GoOnline, SyncStart, SyncSend, SyncRefused, SyncConfirmed, SyncRebases, SyncFails,
        ReviewAgain, Close, Load, Resume
  <1>9. CASE UNCHANGED vars
    BY <1>1, <1>9 DEF vars
  <1>10. QED BY <1>2, <1>3, <1>4, <1>6, <1>7, <1>8, <1>9 DEF Next, Sync

\* The journal grows, and no command of it is rewritten.
JournalMove ==
  /\ DOMAIN journal \subseteq DOMAIN journal'
  /\ \A i \in DOMAIN journal : Follows(journal'[i], journal[i])

\* Every step moves them so.
LEMMA JournalMoves ==
  ASSUME TypeInv, EditorInv, JobInv, [Next]_vars
  PROVE  JournalMove
  <1> USE DEF studio, stored, memory, sending, counters, history
  <1>1. CASE UNCHANGED journal
    BY <1>1 DEF JournalMove, Follows
  <1>2. CASE SyncStart
    <2>1. CASE UNCHANGED <<journal, job>>
      BY <1>1, <2>1
    <2>2. ASSUME NEW id \in Id \cup {None}, QueueCommand(waiting.snap, id)
          PROVE  JournalMove
      <3>1. PICK s \in DocAt(items) : s = waiting.snap
        BY <1>2, PartsAre DEF SyncStart
      <3>2. QueueCommand(s, id) /\ base # None
        BY <1>2, <2>2, <3>1 DEF SyncStart, EditorInv
      <3>3. /\ DOMAIN journal \subseteq DOMAIN journal'
            /\ \A i \in DOMAIN journal : journal'[i] = journal[i]
        BY <3>2, QueueIs
      <3>4. QED BY <3>3 DEF JournalMove, Follows
    <2>3. QED BY <1>2, <2>1, <2>2 DEF SyncStart
  <1>3. CASE SyncRefused
    BY <1>3, RefusedIs DEF JournalMove
  <1>4. CASE SyncConfirmed
    BY <1>4, ConfirmedAre DEF JournalMove
  <1>5. CASE Resume
    BY <1>5, ResumeIs DEF JournalMove
  <1>6. CASE \/ OtherSaves \/ OtherEditsItem \/ ServeRequest \/ ServeLate \/ Edit \/ Autosave
             \/ RetrySave \/ GoOffline \/ ResumeFails \/ GoOnline \/ SyncSend \/ SyncRebases \/ SyncStores
             \/ SyncAdopts \/ SyncFails \/ ReviewAgain \/ ReviewApply \/ Close \/ Load
             \/ OpenOnline \/ OpenOffline
    BY <1>1, <1>6
    DEF OtherSaves, OtherEditsItem, ServeRequest, ServeLate, Edit, Autosave, RetrySave, GoOffline, ResumeFails,
        GoOnline, SyncSend, SyncRebases, SyncStores, SyncAdopts, SyncFails, ReviewAgain,
        ReviewApply, Close, Load, OpenOnline, OpenOffline
  <1>7. CASE UNCHANGED vars
    BY <1>1, <1>7 DEF vars
  <1>8. QED BY <1>2, <1>3, <1>4, <1>5, <1>6, <1>7 DEF Next, Sync

\* A command stays what it was made as.
LEMMA CommandStep ==
  ASSUME TypeInv, TypeInv', EditorInv, JobInv, CommandInv, ServedInv, SeenInv, [Next]_vars
  PROVE  CommandInv'
  <1>1. shown.page \subseteq shown'.page /\ served \subseteq served'
    BY HistoryMoves, StudioMoves DEF HistoryMove, StudioMove
  <1>2. ASSUME NEW i \in DOMAIN journal, i \in DOMAIN journal',
               Follows(journal'[i], journal[i]),
               journal'[i].status \in {"pending", "blocked"} =>
                 journal[i].status \in {"pending", "blocked"} /\ journal'[i].snap = journal[i].snap
        PROVE  LET c == journal'[i] IN
               /\ c.status \in {"pending", "blocked"} => c.snap # None
               /\ c.snap # None =>
                   /\ c.base <= c.snap.rev
                   /\ c.snap.page \in shown'.page
                   /\ IF "page" \in DOMAIN c.changes THEN c.changes["page"].after = c.snap.page
                      ELSE <<c.base, c.snap.page>> \in served'
    <2>1. PICK c : c = journal[i]
      OBVIOUS
    <2>2. PICK e : e = journal'[i]
      OBVIOUS
    <2>3. /\ c.status \in {"pending", "blocked"} => c.snap # None
          /\ c.snap # None =>
               /\ c.base <= c.snap.rev
               /\ c.snap.page \in shown.page
               /\ IF "page" \in DOMAIN c.changes THEN c.changes["page"].after = c.snap.page
                  ELSE <<c.base, c.snap.page>> \in served
      BY <2>1 DEF CommandInv
    <2>4. /\ e.base = c.base /\ (e.snap = None \/ (e.snap = c.snap /\ e.changes = c.changes))
          /\ e.status \in {"pending", "blocked"} =>
               c.status \in {"pending", "blocked"} /\ e.snap = c.snap
      BY <1>2, <2>1, <2>2 DEF Follows
    <2>5. QED BY <1>1, <2>2, <2>3, <2>4
  <1>3. CASE UNCHANGED journal
    <2>1. \A i \in DOMAIN journal : Follows(journal'[i], journal[i])
      BY <1>3 DEF Follows
    <2>2. QED BY <1>2, <1>3, <2>1 DEF CommandInv
  <1>4. CASE SyncRefused
    <2>1. DOMAIN journal' = DOMAIN journal /\
          \A i \in DOMAIN journal :
              /\ Follows(journal'[i], journal[i])
              /\ journal'[i] = journal[i]
                 \/ (/\ journal[i].status = "pending" /\ journal'[i].status = "blocked"
                     /\ journal'[i].snap = journal[i].snap)
      BY <1>4, RefusedIs
    <2>2. QED BY <1>2, <2>1 DEF CommandInv
  <1>5. CASE SyncConfirmed
    <2>1. DOMAIN journal' = DOMAIN journal /\
          \A i \in DOMAIN journal :
              /\ Follows(journal'[i], journal[i])
              /\ journal'[i] = journal[i] \/ journal'[i].status \in {"acknowledged", "superseded"}
      BY <1>5, ConfirmedAre
    <2>2. QED BY <1>2, <2>1 DEF CommandInv
  <1>6. CASE Resume
    <2>1. PICK id \in DOMAIN journal : Resumes(id, receipts[id])
      BY <1>6, ResumeIs
    <2>2. \A i \in DOMAIN journal : journal'[i] = journal[i] \/ journal'[i].status = "acknowledged"
      BY <2>1 DEF Resumes, stored
    <2>3. DOMAIN journal' = DOMAIN journal /\ \A i \in DOMAIN journal : Follows(journal'[i], journal[i])
      BY <1>6, ResumeIs
    <2>4. QED BY <1>2, <2>2, <2>3 DEF CommandInv
  <1>7. ASSUME SyncStart, NEW id \in Id \cup {None}, QueueCommand(waiting.snap, id),
               ~(waiting.snap.rev < base.rev)
        PROVE  CommandInv'
    <2>1. PICK s \in DocAt(items) : s = waiting.snap
      BY <1>7, PartsAre DEF SyncStart
    <2>2. QueueCommand(s, id) /\ base # None /\ base \in DocAt(items) /\ s.page \in shown'.page
      BY <1>1, <1>7, <2>1 DEF SyncStart, EditorInv, TypeInv, SeenInv
    <2>3. /\ DOMAIN journal' \subseteq DOMAIN journal \cup {id}
          /\ \A i \in DOMAIN journal : journal'[i] = journal[i]
          /\ id = None => journal' = journal
          /\ id # None =>
              /\ id \in DOMAIN journal' /\ journal'[id].status = "pending"
              /\ journal'[id].base = base.rev
              /\ journal'[id].changes = Differences(base, s)
              /\ id \notin DOMAIN journal => journal'[id].snap = s
      BY <2>2, QueueIs
    <2>4. ASSUME id # None, id \notin DOMAIN journal
          PROVE  LET c == journal'[id] IN
                 /\ c.status \in {"pending", "blocked"} => c.snap # None
                 /\ c.snap # None =>
                     /\ c.base <= c.snap.rev
                     /\ c.snap.page \in shown'.page
                     /\ IF "page" \in DOMAIN c.changes THEN c.changes["page"].after = c.snap.page
                        ELSE <<c.base, c.snap.page>> \in served'
      <3>1. PICK c : c = journal'[id]
        OBVIOUS
      <3>2. c.base = base.rev /\ c.changes = Differences(base, s) /\ c.snap = s
        BY <2>3, <2>4, <3>1
      <3>3. s # None
        BY PartsAre, Something
      <3>4. c.base <= c.snap.rev
        BY <1>7, <2>1, <2>2, <3>2 DEF DocAt
      <3>5. /\ "page" \in DOMAIN c.changes <=> base.page # s.page
            /\ "page" \in DOMAIN c.changes => c.changes["page"].after = s.page
        BY <2>2, <3>2, PartsAre, DifferencesAre
      <3>6. <<base.rev, base.page>> \in served'
        BY <1>1, <2>2 DEF ServedInv, Past
      <3>7. QED BY <2>2, <3>1, <3>2, <3>3, <3>4, <3>5, <3>6
    <2>5. ASSUME NEW i \in DOMAIN journal, i \in DOMAIN journal'
          PROVE  LET c == journal'[i] IN
                 /\ c.status \in {"pending", "blocked"} => c.snap # None
                 /\ c.snap # None =>
                     /\ c.base <= c.snap.rev
                     /\ c.snap.page \in shown'.page
                     /\ IF "page" \in DOMAIN c.changes THEN c.changes["page"].after = c.snap.page
                        ELSE <<c.base, c.snap.page>> \in served'
      <3>1. journal'[i] = journal[i] /\ Follows(journal'[i], journal[i])
        BY <2>3, <2>5 DEF Follows
      <3>2. QED BY <1>2, <2>5, <3>1
    <2>6. \A i \in DOMAIN journal' : i \in DOMAIN journal \/ (i = id /\ id # None)
      BY <2>3
    <2>7. QED BY <2>4, <2>5, <2>6 DEF CommandInv
  <1>8. SyncStart => \/ UNCHANGED journal
                     \/ \E id \in Id \cup {None} : /\ QueueCommand(waiting.snap, id)
                                                   /\ ~(waiting.snap.rev < base.rev)
    BY DEF SyncStart
  <1>9. CASE SyncStart
    BY <1>3, <1>7, <1>8, <1>9
  <1>10. CASE \/ OtherSaves \/ OtherEditsItem \/ ServeRequest \/ ServeLate \/ Edit \/ Autosave
              \/ RetrySave \/ GoOffline \/ ResumeFails \/ GoOnline \/ SyncSend \/ SyncRebases \/ SyncStores
              \/ SyncAdopts \/ SyncFails \/ ReviewAgain \/ ReviewApply \/ Close \/ Load
              \/ OpenOnline \/ OpenOffline \/ UNCHANGED vars
    <2>1. UNCHANGED journal
      BY <1>10
      DEF OtherSaves, OtherEditsItem, ServeRequest, ServeLate, Edit, Autosave, RetrySave, GoOffline, ResumeFails,
          GoOnline, SyncSend, SyncRebases, SyncStores, SyncAdopts, SyncFails, ReviewAgain,
          ReviewApply, Close, Load, OpenOnline, OpenOffline, vars, stored
    <2>2. QED BY <1>3, <2>1
  <1>11. QED BY <1>4, <1>5, <1>6, <1>9, <1>10 DEF Next, Sync

\* A request is late only when its sender has given it up.
LateMove ==
  \/ late' \subseteq late
  \/ Unserved /\ late' = late \cup {Current} /\ UNCHANGED <<journal, server, served, receipts, items>>

\* Every step moves the late requests so.
LEMMA LateMoves ==
  ASSUME [Next]_vars
  PROVE  LateMove
  <1> USE DEF studio, stored, memory, sending, counters, history
  <1>1. CASE SyncFails
    <2>1. CASE answer = None
      BY <1>1, <2>1 DEF SyncFails, Unserved, LateMove
    <2>2. CASE answer # None
      BY <1>1, <2>2 DEF SyncFails, LateMove
    <2>3. QED BY <2>1, <2>2
  <1>2. CASE Close
    <2>1. CASE Unserved
      BY <1>2, <2>1 DEF Close, LateMove
    <2>2. CASE ~Unserved
      BY <1>2, <2>2 DEF Close, LateMove
    <2>3. QED BY <2>1, <2>2
  <1>3. CASE ServeLate
    BY <1>3 DEF ServeLate, LateMove
  <1>4. CASE UNCHANGED late
    BY <1>4 DEF LateMove
  <1>5. CASE \/ OtherSaves \/ OtherEditsItem \/ ServeRequest \/ Edit \/ Autosave
             \/ RetrySave \/ GoOffline \/ ResumeFails \/ GoOnline \/ Sync
             \/ ReviewAgain \/ ReviewApply \/ Load \/ Resume
             \/ OpenOnline \/ OpenOffline \/ UNCHANGED vars
    BY <1>4, <1>5
    DEF OtherSaves, OtherEditsItem, ServeRequest, Edit, Autosave, RetrySave, GoOffline, ResumeFails,
        GoOnline, Sync, SyncStart, SyncSend, SyncRefused, SyncConfirmed, SyncRebases, SyncStores,
        SyncAdopts, ReviewAgain, ReviewApply, Load, Resume, OpenOnline, OpenOffline, vars
  <1>6. QED BY <1>1, <1>2, <1>3, <1>5 DEF Next

\* A late request is about its command.
LEMMA LateStep ==
  ASSUME TypeInv, EditorInv, JobInv, CommandInv, LateInv, LateMove, JournalMove
  PROVE  LateInv'
  <1>1. ASSUME NEW r \in late', r.id # None
        PROVE  /\ r.id \in DOMAIN journal
               /\ journal[r.id].snap # None =>
                    /\ r.base = journal[r.id].base /\ r.changes = journal[r.id].changes
                    /\ r.doc = journal[r.id].snap
    <2>1. CASE r \in late
      BY <1>1, <2>1 DEF LateInv
    <2>2. CASE r \notin late
      <3>1. Unserved /\ r = Current
        BY <1>1, <2>2 DEF LateMove
      <3>2. QED BY <1>1, <3>1, CurrentIs
    <2>3. QED BY <2>1, <2>2
  <1>2. ASSUME NEW i \in DOMAIN journal, journal'[i].snap # None
        PROVE  /\ journal[i].snap # None /\ journal'[i].base = journal[i].base
               /\ journal'[i].changes = journal[i].changes /\ journal'[i].snap = journal[i].snap
    BY <1>2 DEF JournalMove, Follows
  <1>3. DOMAIN journal \subseteq DOMAIN journal'
    BY DEF JournalMove
  <1>4. QED BY <1>1, <1>2, <1>3 DEF LateInv

\* What is served is the request under way or a late one.
LEMMA ServeRequests ==
  ASSUME TypeInv, EditorInv, JobInv, CommandInv, LateInv, [Next]_vars
  PROVE  \/ UNCHANGED receipts
         \/ \E r \in RequestAt(items) :
              /\ Takes(r) /\ UNCHANGED <<journal, items>>
              /\ r.id # None =>
                   /\ r.id \in DOMAIN journal
                   /\ journal[r.id].snap # None =>
                        /\ r.base = journal[r.id].base /\ r.changes = journal[r.id].changes
                        /\ r.doc = journal[r.id].snap
  <1> USE DEF studio, stored, memory, sending, counters, history
  <1>1. CASE ServeRequest
    <2>1. PICK r : r = Current
      OBVIOUS
    <2>2. /\ r \in RequestAt(items) /\ Serve(r) /\ UNCHANGED <<journal, items>>
          /\ r.id # None =>
               /\ r.id \in DOMAIN journal
               /\ r.base = journal[r.id].base /\ r.changes = journal[r.id].changes
               /\ r.doc = journal[r.id].snap
      BY <1>1, <2>1, CurrentIs DEF ServeRequest
    <2>3. QED BY <2>2, ServeIs
  <1>2. CASE ServeLate
    <2>1. PICK r \in late : Serve(r)
      BY <1>2 DEF ServeLate
    <2>2. r \in RequestAt(items) /\ UNCHANGED <<journal, items>>
      BY <1>2, <2>1, SMTT(40) DEF TypeInv, ServeLate
    <2>3. r.id # None =>
            /\ r.id \in DOMAIN journal
            /\ journal[r.id].snap # None =>
                 /\ r.base = journal[r.id].base /\ r.changes = journal[r.id].changes
                 /\ r.doc = journal[r.id].snap
      BY <2>1, SMTT(40) DEF LateInv
    <2>4. QED BY <2>1, <2>2, <2>3, ServeIs
  <1>3. CASE \/ OtherSaves \/ OtherEditsItem \/ Edit \/ Autosave
             \/ RetrySave \/ GoOffline \/ ResumeFails \/ GoOnline \/ Sync \/ SyncFails
             \/ ReviewAgain \/ ReviewApply \/ Close \/ Load \/ Resume
             \/ OpenOnline \/ OpenOffline \/ UNCHANGED vars
    BY <1>3
    DEF OtherSaves, OtherEditsItem, Edit, Autosave, RetrySave, GoOffline, ResumeFails, SyncFails, Close,
        GoOnline, Sync, SyncStart, SyncSend, SyncRefused, SyncConfirmed, SyncRebases, SyncStores,
        SyncAdopts, ReviewAgain, ReviewApply, Load, Resume, OpenOnline, OpenOffline, vars
  <1>4. QED BY <1>1, <1>2, <1>3 DEF Next

\* A receipt is about its command: it has the page the command wanted.
LEMMA ReceiptStep ==
  ASSUME TypeInv, EditorInv, JobInv, CommandInv, LateInv, ReceiptInv, ServedInv,
         JournalMove, [Next]_vars
  PROVE  ReceiptInv'
  <1>1. ASSUME NEW i \in DOMAIN journal, journal'[i].snap # None
        PROVE  journal[i].snap # None /\ journal'[i].snap = journal[i].snap
    BY <1>1 DEF JournalMove, Follows
  <1>2. DOMAIN journal \subseteq DOMAIN journal'
    BY DEF JournalMove
  <1>3. CASE UNCHANGED receipts
    BY <1>1, <1>2, <1>3 DEF ReceiptInv
  <1>4. ASSUME NEW r \in RequestAt(items), Takes(r), UNCHANGED journal,
               r.id # None =>
                   /\ r.id \in DOMAIN journal
                   /\ journal[r.id].snap # None =>
                        /\ r.base = journal[r.id].base /\ r.changes = journal[r.id].changes
                        /\ r.doc = journal[r.id].snap
        PROVE  ReceiptInv'
    <2>1. PICK d \in DocAt(items) :
            server.rev = r.base /\ (TakesCommand(r, d) \/ TakesDocument(r, d))
      BY <1>4 DEF Takes
    <2>2. CASE TakesDocument(r, d)
      BY <1>3, <2>2 DEF TakesDocument
    <2>3. CASE TakesCommand(r, d)
      <3>1. /\ r.id \in Id /\ receipts' = [receipts EXCEPT ![r.id] = d]
            /\ d.rev = server.rev + 1 \/ d.rev = r.doc.rev
            /\ d.page = (IF "page" \in DOMAIN r.changes THEN r.changes["page"].after ELSE server.page)
        BY <2>3 DEF TakesCommand
      <3>2. r.id # None /\ r.id \in DOMAIN journal
        BY <1>4, <3>1, PartsAre, Something
      <3>3. journal[r.id].snap # None => d.page = journal[r.id].snap.page /\ d.rev <= journal[r.id].snap.rev + 1
        <4>1. PICK c : c = journal[r.id]
          OBVIOUS
        <4>2. CASE c.snap # None
          <5>1. /\ r.base = c.base /\ r.changes = c.changes /\ r.doc = c.snap
            BY <1>4, <3>2, <4>1, <4>2
          <5>2. /\ c.base <= c.snap.rev
                /\ IF "page" \in DOMAIN c.changes THEN c.changes["page"].after = c.snap.page
                   ELSE <<c.base, c.snap.page>> \in served
            BY <3>2, <4>1, <4>2 DEF CommandInv
          <5>3. c.snap \in DocAt(items) /\ c.base \in Nat /\ c.snap.rev \in Nat
            BY <3>2, <4>1, <4>2, JournalIs DEF DocAt
          <5>4. server.rev = c.base
            BY <2>1, <5>1
          <5>5. "page" \notin DOMAIN c.changes => server.page = c.snap.page
            <6>1. ASSUME <<c.base, c.snap.page>> \in served
                  PROVE  server.page = c.snap.page
              <7>1. PICK p, q : p = <<server.rev, server.page>> /\ q = <<c.base, c.snap.page>>
                OBVIOUS
              <7>2. p \in served /\ q \in served /\ p[1] = q[1] /\ p[2] = server.page /\ q[2] = c.snap.page
                BY <5>4, <6>1, <7>1 DEF ServedInv
              <7>3. p = q
                BY <7>2 DEF ServedInv
              <7>4. QED BY <7>2, <7>3
            <6>2. QED BY <5>2, <6>1
          <5>6. d.page = c.snap.page
            BY <3>1, <5>1, <5>2, <5>5
          <5>7. d.rev <= c.snap.rev + 1
            BY <3>1, <5>1, <5>2, <5>3, <5>4
          <5>8. QED BY <4>1, <5>6, <5>7
        <4>3. QED BY <4>1, <4>2
      <3>4. \A i \in Id : receipts'[i] = IF i = r.id THEN d ELSE receipts[i]
        BY <3>1 DEF TypeInv
      <3>5. QED BY <1>4, <3>2, <3>3, <3>4 DEF ReceiptInv
    <2>4. QED BY <2>1, <2>2, <2>3
  <1>5. QED BY <1>3, <1>4, ServeRequests

\* What was answered about the request under way is about the document it sent.
LEMMA AnswerIs ==
  ASSUME TypeInv, TypeInv', EditorInv, JobInv, CommandInv, ServedInv, ReceiptInv', StudioMove,
         ServeRequest, answer'.ok
  PROVE  /\ job # None /\ job.pc = "sent" /\ UNCHANGED job
         /\ answer'.doc.page = job.snap.page
         /\ job.id # None => job.id \in Id /\ receipts'[job.id] = answer'.doc /\ receipts'[job.id] # None
         /\ job.id = None => /\ answer'.doc = job.snap /\ server'.rev = answer'.doc.rev
                             /\ server'.page = answer'.doc.page /\ server'.at = answer'.doc.at
  <1>1. job # None /\ job.pc = "sent" /\ UNCHANGED <<job, journal>> /\ Unserved
    BY DEF ServeRequest, Unserved, stored
  <1>2. PICK r : r = Current
    OBVIOUS
  <1>3. /\ r \in RequestAt(items) /\ r.id = job.id /\ r.base = job.base.rev
        /\ job.id = None => r.doc = job.snap
        /\ job.id # None =>
             /\ job.id \in DOMAIN journal /\ journal[job.id].snap # None
             /\ r.base = journal[job.id].base /\ r.changes = journal[job.id].changes
             /\ r.changes = Differences(job.base, job.snap)
    BY <1>1, <1>2, CurrentIs
  <1>4. PICK a : a = answer'
    OBVIOUS
  <1>5. /\ a \in AnswerAt(items)
        /\ \/ r.id \in Id /\ receipts'[r.id] = a.doc
           \/ /\ r.id = None /\ a.doc = r.doc
              /\ server'.rev = a.doc.rev /\ server'.page = a.doc.page /\ server'.at = a.doc.at
    BY <1>2, <1>3, <1>4, ReplyIs DEF ServeRequest
  <1>6. None \notin Id /\ a.doc # None
    BY <1>5, PartsAre, Something DEF AnswerAt
  <1>7. job.id = None => /\ a.doc = job.snap /\ server'.rev = a.doc.rev
                         /\ server'.page = a.doc.page /\ server'.at = a.doc.at
    BY <1>3, <1>5, <1>6
  <1>8. job.id # None => job.id \in Id /\ receipts'[job.id] = a.doc
    BY <1>3, <1>5
  <1>9. ASSUME job.id # None
        PROVE  a.doc.page = job.snap.page
    <2>1. PICK c : c = journal[job.id]
      OBVIOUS
    <2>2. /\ c.snap # None /\ c.base = job.base.rev
          /\ c.changes = Differences(job.base, job.snap)
      BY <1>3, <1>9, <2>1
    <2>3. IF "page" \in DOMAIN c.changes THEN c.changes["page"].after = c.snap.page
          ELSE <<c.base, c.snap.page>> \in served
      BY <1>3, <1>9, <2>1, <2>2 DEF CommandInv
    <2>4. job.base \in DocAt(items) /\ job.snap \in DocAt(items)
      BY <1>1, PartsAre
    <2>5. /\ "page" \in DOMAIN c.changes <=> job.base.page # job.snap.page
          /\ "page" \in DOMAIN c.changes => c.changes["page"].after = job.snap.page
      BY <2>2, <2>4, PartsAre, DifferencesAre
    <2>6. <<c.base, job.base.page>> \in served
      BY <1>1, <2>2 DEF ServedInv, Past
    <2>7. c.snap.page = job.snap.page
      <3>1. CASE "page" \in DOMAIN c.changes
        BY <2>3, <2>5, <3>1
      <3>2. CASE "page" \notin DOMAIN c.changes
        <4>1. PICK p, q : p = <<c.base, c.snap.page>> /\ q = <<c.base, job.base.page>>
          OBVIOUS
        <4>2. p \in served /\ q \in served /\ p[1] = q[1] /\ p[2] = c.snap.page /\ q[2] = job.base.page
          BY <2>3, <2>6, <3>2, <4>1
        <4>3. p = q
          BY <4>2 DEF ServedInv
        <4>4. QED BY <2>5, <3>2, <4>2, <4>3
      <3>3. QED BY <3>1, <3>2
    <2>8. receipts'[job.id] = a.doc /\ job.id \in Id /\ receipts'[job.id] # None
      BY <1>6, <1>8, <1>9
    <2>9. journal'[job.id].snap # None => receipts'[job.id].page = journal'[job.id].snap.page
      BY <2>8 DEF ReceiptInv
    <2>10. a.doc.page = c.snap.page
      BY <1>1, <2>1, <2>2, <2>8, <2>9
    <2>11. QED BY <2>7, <2>10
  <1>10. a.doc.page = job.snap.page
    BY <1>7, <1>9
  <1>11. QED BY <1>1, <1>4, <1>6, <1>7, <1>8, <1>10

\* An answer is taken back or stays with its job.
LEMMA AnswerMoves ==
  ASSUME TypeInv, EditorInv, [Next]_vars
  PROVE  ServeRequest \/ answer' = None \/ UNCHANGED <<answer, job>>
  <1> USE DEF studio, stored, memory, sending, counters, history
  <1>1. CASE SyncFails \/ SyncRefused \/ SyncConfirmed \/ Close
    BY <1>1 DEF SyncFails, SyncRefused, SyncConfirmed, Close
  <1>2. CASE SyncStart \/ SyncSend \/ SyncRebases \/ SyncStores \/ SyncAdopts
    <2>1. answer = None
      BY <1>2 DEF SyncStart, SyncSend, SyncRebases, SyncStores, SyncAdopts, EditorInv
    <2>2. answer' = answer
      BY <1>2 DEF SyncStart, SyncSend, SyncRebases, SyncStores, SyncAdopts
    <2>3. QED BY <2>1, <2>2
  <1>3. CASE \/ OtherSaves \/ OtherEditsItem \/ ServeLate \/ Edit \/ Autosave
             \/ RetrySave \/ GoOffline \/ ResumeFails \/ GoOnline
             \/ ReviewAgain \/ ReviewApply \/ Load \/ Resume
             \/ OpenOnline \/ OpenOffline \/ UNCHANGED vars
    BY <1>3
    DEF OtherSaves, OtherEditsItem, ServeLate, Edit, Autosave, RetrySave, GoOffline, ResumeFails,
        GoOnline, ReviewAgain, ReviewApply, Load, Resume, OpenOnline, OpenOffline, vars
  <1>4. QED BY <1>1, <1>2, <1>3 DEF Next, Sync

\* A confirmed command has a receipt.
LEMMA ConfirmedStep ==
  ASSUME TypeInv, TypeInv', EditorInv, JobInv, CommandInv, ServedInv, ReceiptInv', ConfirmedInv,
         StudioMove, [Next]_vars
  PROVE  ConfirmedInv'
  <1>1. \A i \in Id : receipts[i] # None => receipts'[i] # None
    <2>1. server' # None
      <3>1. server' \in DocAt(items') /\ items' \in 0..MaxItems
        BY DEF TypeInv
      <3>2. PICK n \in 0..MaxItems : n = items'
        BY <3>1
      <3>3. QED BY <3>1, <3>2, Something
    <2>2. QED BY <2>1 DEF StudioMove
  <1>2. /\ \A i \in DOMAIN journal : journal[i].status = "acknowledged" => receipts'[i] # None
        /\ DOMAIN journal \subseteq Id
    BY <1>1, JournalIs DEF ConfirmedInv, ConfirmedIsTaken
  <1>3. ConfirmedIsTaken'
    <2>1. CASE UNCHANGED journal
      BY <1>2, <2>1 DEF ConfirmedIsTaken
    <2>2. CASE SyncStart
      <3>1. ASSUME NEW id \in Id \cup {None}, QueueCommand(waiting.snap, id)
            PROVE  ConfirmedIsTaken'
        <4>1. PICK s \in DocAt(items) : s = waiting.snap
          BY <2>2, PartsAre DEF SyncStart
        <4>2. QueueCommand(s, id) /\ base # None
          BY <2>2, <3>1, <4>1 DEF SyncStart, EditorInv
        <4>3. /\ DOMAIN journal' \subseteq DOMAIN journal \cup {id}
              /\ \A i \in DOMAIN journal : journal'[i] = journal[i]
              /\ id = None => journal' = journal
              /\ id # None => journal'[id].status = "pending"
          BY <4>2, QueueIs
        <4>4. QED BY <1>2, <4>3 DEF ConfirmedIsTaken
      <3>2. QED BY <2>1, <2>2, <3>1 DEF SyncStart
    <2>3. CASE SyncRefused
      <3>1. /\ DOMAIN journal' = DOMAIN journal
            /\ \A i \in DOMAIN journal :
                 journal'[i] = journal[i] \/ journal'[i].status = "blocked"
        BY <2>3, RefusedIs
      <3>2. QED BY <1>2, <3>1 DEF ConfirmedIsTaken
    <2>4. CASE SyncConfirmed
      <3>1. /\ DOMAIN journal' = DOMAIN journal
            /\ \A i \in DOMAIN journal :
                 \/ journal'[i] = journal[i]
                 \/ journal'[i].status = "acknowledged" /\ job.id # None /\ i = job.id
                 \/ journal'[i].status = "superseded"
        BY <2>4, ConfirmedAre
      <3>2. job.id # None => receipts[job.id] # None
        BY <2>4, PartsAre, Something DEF SyncConfirmed, Answered, ConfirmedInv
      <3>3. job.id # None => job.id \in Id
        BY <2>4, PartsAre DEF SyncConfirmed, Answered
      <3>4. QED BY <1>1, <1>2, <3>1, <3>2, <3>3 DEF ConfirmedIsTaken
    <2>5. CASE Resume
      <3>1. PICK id \in DOMAIN journal : Resumes(id, receipts[id])
        BY <2>5, ResumeIs
      <3>2. DOMAIN journal' = DOMAIN journal
        BY <2>5, ResumeIs
      <3>3. UNCHANGED journal \/ (/\ receipts[id] # None
                                  /\ \A i \in DOMAIN journal : i # id => journal'[i] = journal[i])
        BY <3>1 DEF Resumes, stored
      <3>4. CASE UNCHANGED journal
        BY <2>1, <3>4
      <3>5. CASE /\ receipts[id] # None
                 /\ \A i \in DOMAIN journal : i # id => journal'[i] = journal[i]
        BY <1>1, <1>2, <3>2, <3>5 DEF ConfirmedIsTaken
      <3>6. QED BY <3>3, <3>4, <3>5
    <2>6. CASE \/ OtherSaves \/ OtherEditsItem \/ ServeRequest \/ ServeLate \/ Edit \/ Autosave
               \/ RetrySave \/ GoOffline \/ ResumeFails \/ GoOnline \/ SyncSend \/ SyncRebases \/ SyncStores
               \/ SyncAdopts \/ SyncFails \/ ReviewAgain \/ ReviewApply \/ Close \/ Load
               \/ OpenOnline \/ OpenOffline \/ UNCHANGED vars
      <3>1. UNCHANGED journal
        BY <2>6
        DEF OtherSaves, OtherEditsItem, ServeRequest, ServeLate, Edit, Autosave, RetrySave, GoOffline, ResumeFails,
            GoOnline, SyncSend, SyncRebases, SyncStores, SyncAdopts, SyncFails, ReviewAgain,
            ReviewApply, Close, Load, OpenOnline, OpenOffline, vars, stored
      <3>2. QED BY <2>1, <3>1
    <2>7. QED BY <2>2, <2>3, <2>4, <2>5, <2>6 DEF Next, Sync
  <1>4. ASSUME answer' # None, answer'.ok
        PROVE  IF job'.id = None THEN answer'.doc = job'.snap ELSE receipts'[job'.id] = answer'.doc
    <2>1. CASE ServeRequest
      BY <1>4, <2>1, AnswerIs
    <2>2. CASE UNCHANGED <<answer, job>>
      <3>1. /\ IF job.id = None THEN answer.doc = job.snap ELSE receipts[job.id] = answer.doc
            /\ job.id \in Id \cup {None} /\ answer.doc \in DocAt(items) /\ items \in 0..MaxItems
        BY <1>4, <2>2, PartsAre DEF ConfirmedInv, EditorInv
      <3>2. answer.doc # None
        BY <3>1, Something
      <3>3. job.id # None => receipts'[job.id] = receipts[job.id]
        BY <3>1, <3>2 DEF StudioMove
      <3>4. QED BY <2>2, <3>1, <3>3
    <2>3. QED BY <1>4, <2>1, <2>2, AnswerMoves
  <1>5. QED BY <1>3, <1>4 DEF ConfirmedInv

\* The job, its command, the base and the answer fit together.
LEMMA JobStep ==
  ASSUME TypeInv, TypeInv', EditorInv, EditorInv', JobInv, CommandInv, ServedInv, ReceiptInv',
         StudioMove, [Next]_vars
  PROVE  JobInv'
  <1> USE DEF studio, stored, memory, sending, counters, history
  <1>1. CASE UNCHANGED <<job, conflict, journal, base, answer>>
    BY <1>1 DEF JobInv, Asking, Done
  <1>2. CASE job' = None
    BY <1>2 DEF JobInv, Asking, Done, EditorInv
  <1>3. CASE ServeRequest
    <2>1. UNCHANGED <<job, conflict, journal, base>>
      BY <1>3 DEF ServeRequest
    <2>2. answer'.ok => answer'.doc.page = job.snap.page
      BY <1>3, AnswerIs
    <2>3. QED BY <2>1, <2>2 DEF JobInv, Asking, Done
  <1>4. CASE SyncStart
    <2>1. CASE UNCHANGED <<journal, job>>
      BY <1>2, <1>4, <2>1 DEF SyncStart
    <2>2. ASSUME NEW id \in Id \cup {None}, QueueCommand(waiting.snap, id),
                 job' = [pc |-> "queued", snap |-> waiting.snap, base |-> base,
                         id |-> id, canonical |-> None, by |-> waiting.by]
          PROVE  JobInv'
      <3>1. PICK s \in DocAt(items) : s = waiting.snap
        BY <1>4, PartsAre DEF SyncStart
      <3>2. QueueCommand(s, id) /\ base # None /\ answer' = None
        BY <1>4, <2>2, <3>1 DEF SyncStart, EditorInv
      <3>3. id # None =>
              /\ id \in DOMAIN journal' /\ journal'[id].status = "pending"
              /\ journal'[id].base = base.rev
              /\ journal'[id].changes = Differences(base, s)
        BY <3>2, QueueIs
      <3>4. /\ job'.pc = "queued" /\ job'.snap = s /\ job'.base = base /\ job'.id = id
        BY <2>2, <3>1
      <3>5. Differences(job.base, job.snap)' = Differences(base, s)
        BY <3>4 DEF Differences
      <3>6. QED BY <3>2, <3>3, <3>4, <3>5 DEF JobInv, Asking, Done
    <2>3. QED BY <1>4, <2>1, <2>2 DEF SyncStart
  <1>5. CASE SyncSend
    <2>1. CASE job' = None
      BY <1>2, <2>1
    <2>2. CASE conflict = None /\ job' = [job EXCEPT !.pc = "sent"]
      <3>1. job \in JobAt(items) /\ job # None /\ job.pc = "queued" /\ answer = None
        BY <1>5 DEF SyncSend, TypeInv, EditorInv
      <3>2. /\ job'.pc = "sent" /\ job'.snap = job.snap /\ job'.base = job.base /\ job'.id = job.id
        BY <2>2, <3>1 DEF JobAt
      <3>3. Differences(job.base, job.snap)' = Differences(job.base, job.snap)
        BY <3>2 DEF Differences
      <3>4. UNCHANGED <<conflict, journal, base, answer>>
        BY <1>5 DEF SyncSend
      <3>5. QED BY <2>2, <3>1, <3>2, <3>3, <3>4 DEF JobInv, Asking, Done
    <2>3. QED BY <1>5, <2>1, <2>2 DEF SyncSend
  <1>6. CASE SyncConfirmed
    <2>1. job \in JobAt(items) /\ job # None /\ job.pc = "sent" /\ answer # None /\ answer.ok
      BY <1>6 DEF SyncConfirmed, Answered, TypeInv
    <2>2. /\ job'.pc = "confirmed" /\ job'.snap = job.snap /\ job'.canonical = answer.doc
      BY <1>6, <2>1 DEF SyncConfirmed, JobAt
    <2>3. answer.doc # None /\ conflict = None /\ answer.doc.page = job.snap.page
      BY <2>1, PartsAre, Something DEF JobInv
    <2>4. base' = answer.doc /\ conflict' = conflict /\ answer' = None
      BY <1>6 DEF SyncConfirmed
    <2>5. QED BY <2>2, <2>3, <2>4 DEF JobInv, Asking, Done
  <1>7. CASE SyncRebases \/ SyncStores
    <2>1. CASE job' = None
      BY <1>2, <2>1
    <2>2. CASE job' = [job EXCEPT !.pc = "based"] \/ job' = [job EXCEPT !.pc = "stored"]
      <3>1. job \in JobAt(items) /\ job # None /\ Done /\ answer = None /\ job.pc # "queued"
        BY <1>7 DEF SyncRebases, SyncStores, TypeInv, EditorInv, Done
      <3>2. /\ job'.pc \in {"based", "stored"} /\ job'.snap = job.snap /\ job'.canonical = job.canonical
        BY <2>2, <3>1 DEF JobAt
      <3>3. UNCHANGED <<conflict, base, answer>>
        BY <1>7 DEF SyncRebases, SyncStores
      <3>4. QED BY <3>1, <3>2, <3>3 DEF JobInv, Asking, Done
    <2>3. QED BY <1>7, <2>1, <2>2 DEF SyncRebases, SyncStores, SyncEnds
  <1>8. CASE ReviewAgain \/ ReviewApply
    <2>1. conflict # None /\ UNCHANGED <<job, journal, answer>>
      BY <1>8 DEF ReviewAgain, ReviewApply
    <2>2. job = None \/ job.pc = "queued"
      BY <2>1 DEF JobInv
    <2>3. answer = None
      BY <2>2 DEF EditorInv
    <2>4. QED BY <2>1, <2>2, <2>3 DEF JobInv, Asking, Done
  <1>9. CASE SyncFails \/ SyncRefused \/ SyncAdopts \/ Close
    BY <1>2, <1>9 DEF SyncFails, SyncRefused, SyncAdopts, SyncEnds, Close
  <1>10. CASE Load \/ Resume \/ OpenOnline \/ OpenOffline
    <2>1. job' = None
      BY <1>10 DEF Load, Resume, OpenOnline, OpenOffline, EditorInv
    <2>2. QED BY <1>2, <2>1
  <1>11. CASE \/ OtherSaves \/ OtherEditsItem \/ ServeLate \/ Edit \/ Autosave
              \/ RetrySave \/ GoOffline \/ ResumeFails \/ GoOnline \/ UNCHANGED vars
    BY <1>1, <1>11
    DEF OtherSaves, OtherEditsItem, ServeLate, Edit, Autosave, RetrySave, GoOffline, ResumeFails, GoOnline, vars
  <1>12. QED BY <1>3, <1>4, <1>5, <1>6, <1>7, <1>8, <1>9, <1>10, <1>11 DEF Next, Sync

\* Where a base, the document of another in a review and a canonical document come from.
BaseMove ==
  /\ \/ UNCHANGED storedBase
     \/ Done /\ storedBase' = job.canonical
     \/ \E i \in Id : receipts[i] # None /\ storedBase' = receipts[i]
     \/ storedBase' = server
  /\ \/ base' = None \/ UNCHANGED base
     \/ answer # None /\ answer.ok /\ base' = answer.doc
     \/ conflict # None /\ base' = conflict.remote
     \/ base' = storedBase
     \/ \E i \in Id : receipts[i] # None /\ base' = receipts[i]
     \/ base' = server
  /\ \/ conflict' = None
     \/ conflict # None /\ conflict'.remote = conflict.remote
     \/ conflict'.remote = server
  /\ \/ job' = None
     \/ job # None /\ job'.base = job.base
     \/ base # None /\ job'.base = base
  /\ Done' =>
       \/ Done /\ job'.canonical = job.canonical
       \/ answer # None /\ answer.ok /\ job'.canonical = answer.doc

\* Every step moves the bases so.
LEMMA BaseMoves ==
  ASSUME TypeInv, EditorInv, JobInv, [Next]_vars
  PROVE  BaseMove
  <1> USE DEF studio, stored, memory, sending, counters, history
  <1>1. UNCHANGED job => \/ job' = None
                         \/ job # None /\ job'.base = job.base
    OBVIOUS
  <1>2. UNCHANGED job \/ job' = None => (Done' => Done /\ job'.canonical = job.canonical)
    BY DEF Done
  <1>3. UNCHANGED conflict => \/ conflict' = None
                              \/ conflict # None /\ conflict'.remote = conflict.remote
    OBVIOUS
  <1>4. CASE SyncStart
    <2>1. \/ UNCHANGED job
          \/ job'.pc = "queued" /\ job'.base = base
      BY <1>4 DEF SyncStart
    <2>2. base # None
      BY <1>4 DEF SyncStart, EditorInv
    <2>3. Done' => Done /\ job'.canonical = job.canonical
      BY <1>2, <2>1 DEF Done
    <2>4. UNCHANGED <<storedBase, base, conflict>>
      BY <1>4 DEF SyncStart
    <2>5. QED BY <1>1, <1>3, <2>1, <2>2, <2>3, <2>4 DEF BaseMove
  <1>5. CASE SyncSend
    <2>1. job \in JobAt(items) /\ job # None
      BY <1>5 DEF SyncSend, TypeInv
    <2>2. job' = None \/ (job'.pc = "sent" /\ job'.base = job.base)
      BY <1>5, <2>1 DEF SyncSend, JobAt
    <2>3. Done' => Done /\ job'.canonical = job.canonical
      BY <2>2 DEF Done
    <2>4. UNCHANGED <<storedBase, base, conflict>>
      BY <1>5 DEF SyncSend
    <2>5. QED BY <1>3, <2>1, <2>2, <2>3, <2>4 DEF BaseMove
  <1>6. CASE SyncConfirmed
    <2>1. job \in JobAt(items) /\ job # None /\ answer # None /\ answer.ok
      BY <1>6 DEF SyncConfirmed, Answered, TypeInv
    <2>2. job'.canonical = answer.doc /\ job'.base = job.base
      BY <1>6, <2>1 DEF SyncConfirmed, JobAt
    <2>3. base' = answer.doc /\ UNCHANGED <<storedBase, conflict>>
      BY <1>6 DEF SyncConfirmed
    <2>4. QED BY <1>3, <2>1, <2>2, <2>3 DEF BaseMove
  <1>7. CASE SyncRebases \/ SyncStores
    <2>1. job \in JobAt(items) /\ job # None /\ Done
      BY <1>7 DEF SyncRebases, SyncStores, Done, TypeInv
    <2>2. job' = None \/ job' = [job EXCEPT !.pc = "based"] \/ job' = [job EXCEPT !.pc = "stored"]
      BY <1>7 DEF SyncRebases, SyncStores, SyncEnds
    <2>3. job' = None \/ (job'.base = job.base /\ job'.canonical = job.canonical)
      BY <2>1, <2>2 DEF JobAt
    <2>4. storedBase' = storedBase \/ storedBase' = job.canonical
      BY <1>7 DEF SyncRebases, SyncStores
    <2>5. UNCHANGED <<base, conflict>>
      BY <1>7 DEF SyncRebases, SyncStores
    <2>6. Done' => Done /\ job'.canonical = job.canonical
      BY <1>2, <2>1, <2>3
    <2>7. QED BY <1>3, <2>1, <2>3, <2>4, <2>5, <2>6 DEF BaseMove
  <1>8. CASE SyncFails \/ SyncRefused \/ SyncAdopts \/ Close
    <2>1. job' = None /\ UNCHANGED storedBase /\ (base' = None \/ UNCHANGED base)
      BY <1>8 DEF SyncFails, SyncRefused, SyncAdopts, SyncEnds, Close
    <2>2. conflict' = None \/ UNCHANGED conflict
          \/ conflict' = [base |-> job.base, local |-> job.snap, remote |-> server]
      BY <1>8 DEF SyncFails, SyncRefused, SyncAdopts, Close
    <2>3. conflict' = None \/ UNCHANGED conflict \/ conflict'.remote = server
      BY <2>2
    <2>4. QED BY <1>2, <1>3, <2>1, <2>3 DEF BaseMove
  <1>9. CASE ReviewAgain \/ ReviewApply
    <2>1. conflict # None /\ conflict \in ConflictAt(items)
      BY <1>9 DEF ReviewAgain, ReviewApply, TypeInv
    <2>2. conflict' = None \/ conflict'.remote = conflict.remote
      BY <1>9, <2>1 DEF ReviewAgain, ReviewApply, ConflictAt
    <2>3. base' = base \/ base' = conflict.remote
      BY <1>9 DEF ReviewAgain, ReviewApply
    <2>4. UNCHANGED <<storedBase, job>>
      BY <1>9 DEF ReviewAgain, ReviewApply
    <2>5. QED BY <1>1, <1>2, <2>1, <2>2, <2>3, <2>4 DEF BaseMove
  <1>10. CASE Load
    BY <1>1, <1>2, <1>3, <1>10 DEF Load, BaseMove
  <1>11. CASE Resume
    <2>1. PICK id \in DOMAIN journal : Resumes(id, receipts[id])
      BY <1>11, ResumeIs
    <2>2. \/ UNCHANGED <<base, storedBase>>
          \/ id \in Id /\ receipts[id] # None /\ base' = receipts[id] /\ storedBase' = receipts[id]
      BY <2>1, JournalIs DEF Resumes
    <2>3. UNCHANGED <<job, conflict>>
      BY <1>11 DEF Resume
    <2>4. QED BY <1>1, <1>2, <1>3, <2>2, <2>3 DEF BaseMove
  <1>12. CASE OpenOnline \/ OpenOffline
    <2>1. base' \in {base, server} /\ storedBase' \in {storedBase, server} /\ UNCHANGED job
      BY <1>12 DEF OpenOnline, OpenOffline
    <2>2. UNCHANGED conflict \/ conflict' = [base |-> base, local |-> localDoc, remote |-> server]
      BY <1>12 DEF OpenOnline, OpenOffline
    <2>3. UNCHANGED conflict \/ conflict'.remote = server
      BY <2>2
    <2>4. QED BY <1>1, <1>2, <1>3, <2>1, <2>3 DEF BaseMove
  <1>13. CASE \/ OtherSaves \/ OtherEditsItem \/ ServeRequest \/ ServeLate \/ Edit \/ Autosave
              \/ RetrySave \/ GoOffline \/ ResumeFails \/ GoOnline \/ UNCHANGED vars
    <2>1. UNCHANGED <<storedBase, base, job, conflict>>
      BY <1>13 DEF OtherSaves, OtherEditsItem, ServeRequest, ServeLate, Edit, Autosave, RetrySave,
                   GoOffline, ResumeFails, GoOnline, vars
    <2>2. QED BY <1>1, <1>2, <1>3, <2>1 DEF BaseMove
  <1>14. QED
    BY <1>4, <1>5, <1>6, <1>7, <1>8, <1>9, <1>10, <1>11, <1>12, <1>13 DEF Next, Sync

\* A revision of the studio names one page, and every base is a document it has had.
LEMMA ServedStep ==
  ASSUME TypeInv, TypeInv', EditorInv, JobInv, CommandInv, ServedInv, ReceiptInv', StudioMove,
         BaseMove, [Next]_vars
  PROVE  ServedInv'
  <1> DEFINE Had(d) == <<d.rev, d.page>> \in served' /\ (d.rev = server'.rev => d.at = server'.at)
  <1>1. ASSUME NEW d \in DocAt(items), Past(d)
        PROVE  Had(d)
    BY <1>1, PastStays DEF Past
  <1>2. /\ \A d : d.rev = server'.rev /\ d.page = server'.page /\ d.at = server'.at => Had(d)
        /\ \A p \in served' : p[1] <= server'.rev
        /\ \A p, q \in served' : p[1] = q[1] => p = q
        /\ <<server'.rev, server'.page>> \in served'
    <2>1. \A d : d.rev = server'.rev /\ d.page = server'.page /\ d.at = server'.at => Past(d)'
      BY PastStays
    <2>2. <<server'.rev, server'.page>> \in served'
      BY DEF StudioMove
    <2>3. QED BY <2>1, <2>2, PastStays DEF Past
  <1>3. /\ Had(server) /\ Had(storedBase)
        /\ \A i \in Id : receipts[i] # None => Had(receipts[i])
        /\ base # None => Had(base)
        /\ conflict # None => Had(conflict.remote)
        /\ job # None => Had(job.base)
        /\ Done => Had(job.canonical)
        /\ answer # None /\ answer.ok => Had(answer.doc)
    <2>1. Had(server)
      BY <1>1, PastStays DEF TypeInv
    <2>2. Had(storedBase)
      BY <1>1 DEF TypeInv, ServedInv
    <2>3. \A i \in Id : receipts[i] # None => Had(receipts[i])
      <3>1. \A i \in Id : receipts[i] # None => receipts[i] \in DocAt(items) /\ Past(receipts[i])
        BY DEF TypeInv, ServedInv
      <3>2. QED BY <1>1, <3>1
    <2>4. base # None => Had(base)
      BY <1>1 DEF TypeInv, ServedInv
    <2>5. conflict # None => Had(conflict.remote)
      BY <1>1, PartsAre DEF ServedInv
    <2>6. job # None => Had(job.base)
      BY <1>1, PartsAre DEF ServedInv
    <2>7. Done => Had(job.canonical)
      <3>1. Done => job.canonical \in DocAt(items) /\ Past(job.canonical)
        BY PartsAre DEF ServedInv, JobInv, Done
      <3>2. QED BY <1>1, <3>1
    <2>8. answer # None /\ answer.ok => Had(answer.doc)
      BY <1>1, PartsAre DEF ServedInv
    <2>9. QED BY <2>1, <2>2, <2>3, <2>4, <2>5, <2>6, <2>7, <2>8
  <1> HIDE DEF Had
  <1>4. \A i \in Id : receipts'[i] # None => Had(receipts'[i])
    <2>1. ASSUME NEW i \in Id, receipts'[i] # None
          PROVE  Had(receipts'[i])
      <3>1. CASE receipts'[i] = receipts[i]
        BY <1>3, <2>1, <3>1
      <3>2. CASE receipts'[i] = server'
        BY <1>2, <3>2
      <3>3. QED BY <3>1, <3>2 DEF StudioMove
    <2>2. QED BY <2>1
  <1>5. Had(storedBase')
    BY <1>3 DEF BaseMove
  <1>6. base' # None => Had(base')
    BY <1>3 DEF BaseMove
  <1>7. conflict' # None => Had(conflict'.remote)
    BY <1>3 DEF BaseMove
  <1>8. job' # None => Had(job'.base)
    BY <1>3 DEF BaseMove
  <1>9. Done' => Had(job'.canonical)
    BY <1>3 DEF BaseMove
  <1>10. answer' # None /\ answer'.ok => Had(answer'.doc)
    <2>1. CASE ServeRequest /\ answer'.ok
      <3>1. CASE job.id = None
        BY <1>2, <2>1, <3>1, AnswerIs
      <3>2. CASE job.id # None
        BY <1>4, <2>1, <3>2, AnswerIs
      <3>3. QED BY <3>1, <3>2
    <2>2. CASE UNCHANGED <<answer, job>>
      BY <1>3, <2>2
    <2>3. QED BY <2>1, <2>2, AnswerMoves
  <1>11. QED
    BY <1>2, <1>4, <1>5, <1>6, <1>7, <1>8, <1>9, <1>10 DEF ServedInv, Past, Had

-----------------------------------------------------------------------------
(* What the user has had before his eyes                                   *)

\* The bases: what is shown, and while the editor is not open what is on the device.
Known(b) == b.page \in shown.page \/ (tab # "open" /\ b.page = localDoc.page)

\* Every step leaves the bases known.
LEMMA BasesSeen ==
  ASSUME TypeInv, EditorInv, JobInv, CommandInv, ReceiptInv, ServedInv, SeenInv, HistoryMove,
         [Next]_vars
  PROVE  Known(storedBase)' /\ (base' # None => Known(base)')
  <1> USE DEF studio, stored, memory, sending, counters, history
  <1>1. shown.page \subseteq shown'.page
    BY DEF HistoryMove
  <1>2. Known(storedBase) /\ (base # None => Known(base))
    BY DEF SeenInv, Known
  <1>3. CASE UNCHANGED <<storedBase, base, tab>> /\ (tab = "open" \/ UNCHANGED localDoc)
    BY <1>1, <1>2, <1>3 DEF Known
  <1>4. CASE Autosave \/ RetrySave \/ SyncStores
    BY <1>3, <1>4 DEF Autosave, RetrySave, SyncStores, EditorInv
  <1>5. CASE \/ OtherSaves \/ OtherEditsItem \/ ServeRequest \/ ServeLate \/ Edit \/ GoOffline \/ ResumeFails
             \/ GoOnline \/ SyncStart \/ SyncSend \/ SyncFails \/ SyncRefused \/ SyncAdopts
             \/ ReviewAgain \/ UNCHANGED vars
    BY <1>3, <1>5
    DEF OtherSaves, OtherEditsItem, ServeRequest, ServeLate, Edit, GoOffline, ResumeFails, GoOnline, SyncStart,
        SyncSend, SyncFails, SyncRefused, SyncAdopts, ReviewAgain, vars
  <1>6. CASE SyncConfirmed
    <2>1. job # None /\ answer # None /\ answer.ok /\ tab = "open"
      BY <1>6 DEF SyncConfirmed, Answered, EditorInv
    <2>2. base' = answer.doc /\ answer.doc.page = job.snap.page /\ job.snap.page \in shown.page
      BY <1>6, <2>1 DEF SyncConfirmed, JobInv, SeenInv
    <2>3. UNCHANGED <<storedBase, tab>>
      BY <1>6 DEF SyncConfirmed
    <2>4. QED BY <1>1, <1>2, <2>1, <2>2, <2>3 DEF Known
  <1>7. CASE SyncRebases
    <2>1. job # None /\ Done /\ tab = "open"
      BY <1>7 DEF SyncRebases, Done, EditorInv
    <2>2. /\ storedBase' = job.canonical /\ job.canonical.page = job.snap.page
          /\ job.snap.page \in shown.page
      BY <1>7, <2>1 DEF SyncRebases, JobInv, SeenInv
    <2>3. UNCHANGED <<base, tab>>
      BY <1>7 DEF SyncRebases
    <2>4. QED BY <1>1, <1>2, <2>1, <2>2, <2>3 DEF Known
  <1>8. CASE ReviewApply
    <2>1. base' = conflict.remote /\ tab = "open" /\ UNCHANGED <<storedBase, tab>>
      BY <1>8 DEF ReviewApply
    <2>2. conflict.remote.page \in shown'.page
      BY <1>8, ReviewIs
    <2>3. QED BY <1>1, <1>2, <2>1, <2>2 DEF Known
  <1>9. CASE Close
    <2>1. base' = None /\ tab = "open" /\ UNCHANGED storedBase
      BY <1>9 DEF Close
    <2>2. QED BY <1>1, <1>2, <2>1 DEF Known
  <1>10. CASE Load
    <2>1. base' = storedBase /\ tab = "closed" /\ tab' = "resuming" /\ UNCHANGED <<storedBase, localDoc>>
      BY <1>10 DEF Load
    <2>2. QED BY <1>1, <1>2, <2>1 DEF Known
  <1>11. CASE Resume
    <2>1. PICK id \in DOMAIN journal : Resumes(id, receipts[id])
      BY <1>11, ResumeIs
    <2>2. tab = "resuming" /\ tab' = "resuming"
      BY <1>11 DEF Resume
    <2>3. CASE UNCHANGED <<base, stored>>
      BY <1>1, <1>2, <2>2, <2>3 DEF Known
    <2>4. CASE ~UNCHANGED <<base, stored>>
      <3>1. PICK doc, snap : doc = receipts[id] /\ snap = journal[id].snap
        OBVIOUS
      <3>2. /\ doc # None /\ base' = doc /\ storedBase' = doc
            /\ localDoc' = (IF localDoc = snap THEN doc ELSE localDoc)
            /\ id \in todo
        BY <2>1, <2>4, <3>1 DEF Resumes
      <3>3. snap # None /\ id \in Id
        BY <2>1, <3>1, <3>2, JournalIs DEF EditorInv
      <3>4. doc.page = snap.page
        BY <3>1, <3>2, <3>3 DEF ReceiptInv
      <3>5. base # None
        BY <2>2 DEF EditorInv
      <3>6. snap.page \in shown.page
        BY <2>1, <3>1, <3>3 DEF CommandInv
      <3>7. QED BY <1>1, <3>2, <3>4, <3>6 DEF Known
    <2>5. QED BY <2>3, <2>4
  <1>12. CASE OpenOnline
    <2>1. /\ tab = "resuming" /\ tab' = "open" /\ base # None /\ base = storedBase
          /\ shown'.page = shown.page \cup {present'.page}
          /\ server \in DocAt(items) /\ localDoc \in DocAt(items) /\ base \in DocAt(items)
      BY <1>12, OpenIs DEF OpenOnline, EditorInv
    <2>2. CASE Diverged
      <3>1. present' = localDoc /\ UNCHANGED <<base, storedBase>>
        BY <1>12, <2>2 DEF OpenOnline
      <3>2. QED BY <1>2, <2>1, <3>1 DEF Known
    <2>3. CASE ~Diverged
      <3>1. /\ base' = server /\ storedBase' = server
            /\ present' = IF localDoc.rev >= server.rev THEN localDoc ELSE server
        BY <1>12, <2>3 DEF OpenOnline
      <3>2. CASE ~(localDoc.rev >= server.rev)
        BY <2>1, <3>1, <3>2 DEF Known
      <3>3. CASE localDoc.rev >= server.rev /\ localDoc = server
        BY <2>1, <3>1, <3>3 DEF Known
      <3>4. CASE localDoc.rev >= server.rev /\ server = base
        BY <1>2, <2>1, <3>1, <3>4 DEF Known
      <3>5. CASE localDoc.rev >= server.rev /\ localDoc = base
        <4>1. Past(base) /\ <<server.rev, server.page>> \in served
          BY <2>1 DEF ServedInv
        <4>2. PICK p, q : p = <<server.rev, server.page>> /\ q = <<base.rev, base.page>>
          OBVIOUS
        <4>3. /\ p \in served /\ q \in served /\ p[1] = server.rev /\ q[1] = base.rev
              /\ p[2] = server.page /\ q[2] = base.page
          BY <4>1, <4>2 DEF Past
        <4>4. base.rev <= server.rev /\ base.rev \in Nat /\ server.rev \in Nat
          BY <2>1, <4>3 DEF ServedInv, DocAt
        <4>5. p[1] = q[1]
          BY <3>5, <4>3, <4>4
        <4>6. p = q
          BY <4>3, <4>5 DEF ServedInv
        <4>7. QED BY <2>1, <3>1, <3>5, <4>3, <4>6 DEF Known
      <3>6. QED BY <2>3, <3>2, <3>3, <3>4, <3>5 DEF Diverged
    <2>4. QED BY <2>2, <2>3
  <1>13. CASE OpenOffline
    <2>1. /\ tab = "resuming" /\ base # None /\ base = storedBase
          /\ shown'.page = shown.page \cup {present'.page}
          /\ present' = localDoc /\ UNCHANGED <<base, storedBase>>
      BY <1>13, OpenIs DEF OpenOffline, EditorInv
    <2>2. QED BY <1>2, <2>1 DEF Known
  <1>14. QED
    BY <1>4, <1>5, <1>6, <1>7, <1>8, <1>9, <1>10, <1>11, <1>12, <1>13 DEF Next, Sync

\* The documents: on the screen, under way and in a job.
LEMMA DocumentsSeen ==
  ASSUME TypeInv, EditorInv, JobInv, SeenInv, HistoryMove, [Next]_vars
  PROVE  /\ present' # None => present'.page \in shown'.page
         /\ waiting' # None => waiting'.snap.page \in shown'.page
         /\ job' # None => job'.snap.page \in shown'.page /\ job'.base.page \in shown'.page
  <1> USE DEF studio, stored, memory, sending, counters, history
  <1>1. /\ present # None => present.page \in shown'.page
        /\ waiting # None => waiting.snap.page \in shown'.page
        /\ job # None => job.snap.page \in shown'.page /\ job.base.page \in shown'.page
        /\ tab = "open" => base.page \in shown'.page
    BY DEF HistoryMove, SeenInv, EditorInv
  <1>2. present' # None => present'.page \in shown'.page
    <2>1. CASE Edit
      BY <2>1, EditIs
    <2>2. CASE ReviewApply
      BY <2>2, ReviewIs
    <2>3. CASE OpenOnline \/ OpenOffline
      BY <2>3, OpenIs
    <2>4. CASE SyncAdopts
      <3>1. job # None /\ job.canonical.page = job.snap.page
        BY <2>4 DEF SyncAdopts, JobInv, Done
      <3>2. present' = job.canonical \/ present' = present
        BY <2>4 DEF SyncAdopts
      <3>3. QED BY <1>1, <3>1, <3>2
    <2>5. CASE Close
      BY <2>5 DEF Close
    <2>6. CASE \/ OtherSaves \/ OtherEditsItem \/ ServeRequest \/ ServeLate \/ Autosave \/ RetrySave
               \/ GoOffline \/ ResumeFails \/ GoOnline \/ SyncStart \/ SyncSend \/ SyncFails \/ SyncRefused
               \/ SyncConfirmed \/ SyncRebases \/ SyncStores \/ ReviewAgain \/ Load \/ Resume
               \/ UNCHANGED vars
      <3>1. UNCHANGED present
        BY <2>6 DEF OtherSaves, OtherEditsItem, ServeRequest, ServeLate, Autosave, RetrySave,
               GoOffline, ResumeFails, GoOnline, SyncStart, SyncSend, SyncFails, SyncRefused, SyncConfirmed,
               SyncRebases, SyncStores, ReviewAgain, Load, Resume, vars
      <3>2. QED BY <1>1, <3>1
    <2>7. QED BY <2>1, <2>2, <2>3, <2>4, <2>5, <2>6 DEF Next, Sync
  <1>3. waiting' # None => waiting'.snap.page \in shown'.page
    <2>1. CASE Autosave \/ RetrySave \/ GoOnline
      <3>1. \/ waiting' = None \/ UNCHANGED waiting
            \/ tab = "open" /\ waiting' = [snap |-> present, by |-> "autosave"]
            \/ tab = "open" /\ waiting' = [snap |-> present, by |-> "online"]
            \/ tab = "open" /\ waiting' = [snap |-> present, by |-> "retry"]
        BY <2>1 DEF Autosave, RetrySave, GoOnline
      <3>2. waiting' = None \/ UNCHANGED waiting \/ (tab = "open" /\ waiting'.snap = present)
        BY <3>1
      <3>3. QED BY <1>1, <3>2 DEF EditorInv
    <2>2. CASE SyncStart \/ Close
      BY <2>2 DEF SyncStart, Close
    <2>3. CASE \/ OtherSaves \/ OtherEditsItem \/ ServeRequest \/ ServeLate \/ Edit
               \/ GoOffline \/ ResumeFails \/ SyncSend \/ SyncFails \/ SyncRefused
               \/ SyncConfirmed \/ SyncRebases \/ SyncStores \/ SyncAdopts \/ ReviewAgain
               \/ ReviewApply \/ Load \/ Resume \/ OpenOnline \/ OpenOffline \/ UNCHANGED vars
      <3>1. UNCHANGED waiting
        BY <2>3 DEF OtherSaves, OtherEditsItem, ServeRequest, ServeLate, Edit, GoOffline, ResumeFails,
               SyncSend, SyncFails, SyncRefused, SyncConfirmed, SyncRebases, SyncStores, SyncAdopts,
               ReviewAgain, ReviewApply, Load, Resume, OpenOnline, OpenOffline, vars
      <3>2. QED BY <1>1, <3>1
    <2>4. QED BY <2>1, <2>2, <2>3 DEF Next, Sync
  <1>4. job' # None => job'.snap.page \in shown'.page /\ job'.base.page \in shown'.page
    <2>1. CASE SyncStart
      <3>1. \/ UNCHANGED job
            \/ job'.snap = waiting.snap /\ job'.base = base
        BY <2>1 DEF SyncStart
      <3>2. waiting # None /\ tab = "open"
        BY <2>1 DEF SyncStart, EditorInv
      <3>3. QED BY <1>1, <3>1, <3>2
    <2>2. CASE SyncSend \/ SyncConfirmed \/ SyncRebases \/ SyncStores
      <3>1. job \in JobAt(items) /\ job # None
        BY <2>2 DEF SyncSend, SyncConfirmed, Answered, SyncRebases, SyncStores, TypeInv
      <3>2. job' = None \/ (job'.snap = job.snap /\ job'.base = job.base)
        BY <2>2, <3>1 DEF SyncSend, SyncConfirmed, SyncRebases, SyncStores, SyncEnds, JobAt
      <3>3. QED BY <1>1, <3>1, <3>2
    <2>3. CASE SyncFails \/ SyncRefused \/ SyncAdopts \/ Close
      BY <2>3 DEF SyncFails, SyncRefused, SyncAdopts, SyncEnds, Close
    <2>4. CASE \/ OtherSaves \/ OtherEditsItem \/ ServeRequest \/ ServeLate \/ Edit \/ Autosave
               \/ RetrySave \/ GoOffline \/ ResumeFails \/ GoOnline \/ ReviewAgain
               \/ ReviewApply \/ Load \/ Resume \/ OpenOnline \/ OpenOffline \/ UNCHANGED vars
      <3>1. UNCHANGED job
        BY <2>4 DEF OtherSaves, OtherEditsItem, ServeRequest, ServeLate, Edit, Autosave, RetrySave,
               GoOffline, ResumeFails, GoOnline, ReviewAgain, ReviewApply, Load, Resume, OpenOnline,
               OpenOffline, vars
      <3>2. QED BY <1>1, <3>1
    <2>5. QED BY <2>1, <2>2, <2>3, <2>4 DEF Next, Sync
  <1>5. QED BY <1>2, <1>3, <1>4

\* And the bases of the late requests.
LEMMA SeenStep ==
  ASSUME TypeInv, EditorInv, JobInv, CommandInv, ReceiptInv, ServedInv, SeenInv, HistoryMove,
         StudioMove, LateMove, [Next]_vars
  PROVE  SeenInv'
  <1>1. shown.page \subseteq shown'.page /\ served \subseteq served'
    BY DEF HistoryMove, StudioMove
  <1>2. \A r \in late' : \E page \in shown'.page : <<r.base, page>> \in served'
    <2>1. ASSUME NEW r \in late'
          PROVE  \E page \in shown.page : <<r.base, page>> \in served
      <3>1. CASE r \in late
        BY <3>1 DEF SeenInv
      <3>2. CASE Unserved /\ r = Current
        <4>1. r.base = job.base.rev /\ job # None
          BY <3>2, CurrentIs DEF Unserved
        <4>2. job.base.page \in shown.page /\ <<job.base.rev, job.base.page>> \in served
          BY <4>1 DEF SeenInv, ServedInv, Past
        <4>3. QED BY <4>1, <4>2
      <3>3. QED BY <2>1, <3>1, <3>2 DEF LateMove
    <2>2. QED BY <1>1, <2>1
  <1>3. Known(storedBase)' /\ (base' # None => Known(base)')
    BY BasesSeen
  <1>4. /\ present' # None => present'.page \in shown'.page
        /\ waiting' # None => waiting'.snap.page \in shown'.page
        /\ job' # None => job'.snap.page \in shown'.page /\ job'.base.page \in shown'.page
    BY DocumentsSeen
  <1>5. QED BY <1>2, <1>3, <1>4 DEF SeenInv, Known

\* A record that was seen as that of a revision stays seen, whatever the studio does.
LEMMA ItemStays ==
  ASSUME TypeInv, StudioMove, HistoryMove, NEW i \in 0..items, NEW n \in Nat, n <= server.rev,
         ItemSeen(i, n)
  PROVE  ItemSeen(i, n)'
  <1>1. ASSUME server'.rev = n, server'.item = i
        PROVE  i \in shown'.item \cup drifted'
    <2>1. server.rev = n
      BY <1>1 DEF StudioMove
    <2>2. server.item = i
      BY <1>1, <2>1 DEF StudioMove
    <2>3. QED BY <2>1, <2>2 DEF ItemSeen, HistoryMove
  <1>2. QED BY <1>1 DEF ItemSeen

\* The record of a base is seen, or its revision is past.
LEMMA ItemStep ==
  ASSUME TypeInv, EditorInv, EditorInv', JobInv, JobInv', CommandInv, LateInv, ServedInv, SeenInv, ItemInv,
         StudioMove, HistoryMove, LateMove, [Next]_vars
  PROVE  ItemInv'
  <1> USE DEF studio, stored, memory, sending, counters, history
  <1> DEFINE Still(d) == server'.rev = d.rev /\ server'.item = d.item => d.item \in shown'.item \cup drifted'
  <1>1. ASSUME NEW d \in DocAt(items), Past(d), ItemSeen(d.item, d.rev)
        PROVE  Still(d)
    <2>1. d.item \in 0..items /\ d.rev \in Nat /\ d.rev <= server.rev
      <3>1. PICK p : p = <<d.rev, d.page>>
        OBVIOUS
      <3>2. p \in served /\ p[1] = d.rev
        BY <1>1, <3>1 DEF Past
      <3>3. p[1] <= server.rev
        BY <3>2 DEF ServedInv
      <3>4. QED BY <3>2, <3>3 DEF DocAt
    <2>2. ItemSeen(d.item, d.rev)'
      BY <1>1, <2>1, ItemStays
    <2>3. QED BY <2>2 DEF ItemSeen
  <1>2. tab = "open" /\ ~Done => Still(base)
    <2>1. tab = "open" => base \in DocAt(items) /\ Past(base)
      BY DEF EditorInv, TypeInv, ServedInv
    <2>2. QED BY <1>1, <2>1 DEF ItemInv
  <1>3. Asking => Still(job.base)
    <2>1. Asking => job.base \in DocAt(items) /\ Past(job.base)
      BY PartsAre DEF Asking, ServedInv
    <2>2. QED BY <1>1, <2>1 DEF ItemInv
  <1> HIDE DEF Still
  <1>4. ASSUME NEW r \in late', "item" \in DOMAIN r.changes
        PROVE  r.id # None /\ ItemSeen(r.changes["item"].before, r.base)'
    <2>1. CASE r \in late
      <3>1. r.id # None /\ ItemSeen(r.changes["item"].before, r.base)
        BY <1>4, <2>1 DEF ItemInv
      <3>2. /\ r.base \in Nat /\ r.changes["item"].before \in 0..items
        BY <1>4, <2>1 DEF TypeInv, RequestAt, Fits, Value
      <3>3. PICK page : <<r.base, page>> \in served
        BY <2>1 DEF SeenInv
      <3>4. r.base <= server.rev
        <4>1. PICK p : p = <<r.base, page>>
          OBVIOUS
        <4>2. p \in served /\ p[1] = r.base
          BY <3>3, <4>1
        <4>3. QED BY <4>2 DEF ServedInv
      <3>5. QED BY <3>1, <3>2, <3>4, ItemStays
    <2>2. CASE Unserved /\ r = Current
      <3>1. job # None /\ Asking
        BY <2>2 DEF Unserved, Asking
      <3>2. /\ r.base = job.base.rev
            /\ job.id = None => r.changes = << >>
            /\ r.id = job.id
            /\ job.id # None => r.changes = Differences(job.base, job.snap)
        BY <2>2, CurrentIs
      <3>3. job.id # None
        BY <1>4, <3>2, NoChanges
      <3>4. job.base \in DocAt(items) /\ job.snap \in DocAt(items)
        BY <3>1, PartsAre
      <3>5. r.changes["item"].before = job.base.item
        BY <1>4, <3>2, <3>3, <3>4, PartsAre, DifferencesAre
      <3>6. Still(job.base)
        BY <1>3, <3>1
      <3>7. QED BY <3>2, <3>3, <3>5, <3>6 DEF ItemSeen, Still
    <2>3. QED BY <1>4, <2>1, <2>2 DEF LateMove
  <1>5. ASSUME Asking'
        PROVE  Still(job'.base)
    <2>1. CASE SyncStart
      <3>1. job = None /\ tab = "open" /\ ~Done
        BY <2>1 DEF SyncStart, EditorInv, Done
      <3>2. job'.base = base
        BY <1>5, <2>1, <3>1 DEF SyncStart, Asking
      <3>3. QED BY <1>2, <3>1, <3>2
    <2>2. CASE SyncSend \/ SyncConfirmed \/ SyncRebases \/ SyncStores
      <3>1. job \in JobAt(items) /\ job # None
        BY <2>2 DEF SyncSend, SyncConfirmed, Answered, SyncRebases, SyncStores, TypeInv
      <3>2. Asking /\ job'.base = job.base
        BY <1>5, <2>2, <3>1 DEF SyncSend, SyncConfirmed, SyncRebases, SyncStores, SyncEnds, JobAt, Asking
      <3>3. QED BY <1>3, <3>2
    <2>3. CASE SyncFails \/ SyncRefused \/ SyncAdopts \/ Close
      BY <1>5, <2>3 DEF SyncFails, SyncRefused, SyncAdopts, SyncEnds, Close, Asking
    <2>4. CASE UNCHANGED job
      BY <1>3, <1>5, <2>4 DEF Asking
    <2>5. CASE \/ OtherSaves \/ OtherEditsItem \/ ServeRequest \/ ServeLate \/ Edit \/ Autosave
               \/ RetrySave \/ GoOffline \/ ResumeFails \/ GoOnline \/ ReviewAgain
               \/ ReviewApply \/ Load \/ Resume \/ OpenOnline \/ OpenOffline \/ UNCHANGED vars
      <3>1. UNCHANGED job
        BY <2>5 DEF OtherSaves, OtherEditsItem, ServeRequest, ServeLate, Edit, Autosave, RetrySave,
               GoOffline, ResumeFails, GoOnline, ReviewAgain, ReviewApply, Load, Resume, OpenOnline,
               OpenOffline, vars
      <3>2. QED BY <2>4, <3>1
    <2>6. QED BY <2>1, <2>2, <2>3, <2>5 DEF Next, Sync
  <1>6. ASSUME tab' = "open", ~Done'
        PROVE  Still(base')
    <2>1. CASE UNCHANGED <<tab, base>> /\ ~Done
      BY <1>2, <1>6, <2>1
    <2>2. CASE SyncStores \/ SyncAdopts
      <3>1. Done /\ job # None /\ base = job.canonical /\ job.canonical \in DocAt(items)
            /\ present \in DocAt(items)
        BY <2>2, PartsAre DEF SyncStores, SyncAdopts, Done, JobInv, EditorInv, TypeInv
      <3>2. ~(job' = [job EXCEPT !.pc = "stored"])
        <4>1. job \in JobAt(items)
          BY <3>1 DEF TypeInv
        <4>2. ASSUME job' = [job EXCEPT !.pc = "stored"]
              PROVE  FALSE
          <5>1. job'.pc = "stored"
            BY <4>1, <4>2 DEF JobAt
          <5>2. job' \in JobAt(items)
            BY <4>1, <4>2 DEF JobAt
          <5>3. QED BY <1>6, <5>1, <5>2, PartsAre, Something DEF Done
        <4>3. QED BY <4>2
      <3>3. PICK d \in DocAt(items), ok \in BOOLEAN : SyncEnds(d, ok)
        <4>1. CASE SyncStores
          <5>1. PICK b \in BOOLEAN : b = ~Adopts
            OBVIOUS
          <5>2. SyncEnds(present, b)
            BY <3>2, <4>1, <5>1 DEF SyncStores
          <5>3. QED BY <3>1, <5>2
        <4>2. CASE SyncAdopts
          <5>1. SyncEnds(present', TRUE) /\ present' \in DocAt(items)
            BY <3>1, <4>2 DEF SyncAdopts
          <5>2. PICK d \in DocAt(items) : d = present'
            BY <5>1
          <5>3. QED BY <5>1, <5>2
        <4>3. QED BY <2>2, <4>1, <4>2
      <3>4. job.canonical.item \in shown'.item \cup drifted'
        BY <3>1, <3>3, EndsIs
      <3>5. base' = base
        BY <2>2 DEF SyncStores, SyncAdopts
      <3>6. QED BY <3>1, <3>4, <3>5 DEF Still
    <2>3. CASE SyncStart
      <3>1. ~Done /\ UNCHANGED <<tab, base>>
        BY <2>3 DEF SyncStart, Done
      <3>2. QED BY <2>1, <3>1
    <2>4. CASE SyncSend \/ SyncFails \/ SyncRefused
      <3>1. ~Done /\ UNCHANGED <<tab, base>>
        BY <2>4 DEF SyncSend, SyncFails, SyncRefused, Answered, Done
      <3>2. QED BY <2>1, <3>1
    <2>5. CASE SyncConfirmed \/ SyncRebases
      <3>1. job \in JobAt(items) /\ job # None
        BY <2>5 DEF SyncConfirmed, Answered, SyncRebases, TypeInv
      <3>2. job' \in JobAt(items) /\ job'.pc \in {"confirmed", "based"}
        <4>1. CASE SyncConfirmed
          <5>1. answer.doc \in DocAt(items)
            BY <4>1, PartsAre DEF SyncConfirmed, Answered
          <5>2. QED BY <3>1, <4>1, <5>1 DEF SyncConfirmed, JobAt
        <4>2. CASE SyncRebases
          BY <3>1, <4>2 DEF SyncRebases, JobAt
        <4>3. QED BY <2>5, <4>1, <4>2
      <3>3. QED BY <1>6, <3>2, PartsAre, Something DEF Done
    <2>6. CASE ReviewApply
      <3>1. base' = conflict.remote /\ conflict.remote.item \in shown'.item
        BY <2>6, ReviewIs DEF ReviewApply
      <3>2. QED BY <3>1 DEF Still
    <2>7. CASE OpenOnline
      <3>1. /\ server \in DocAt(items) /\ localDoc \in DocAt(items) /\ base \in DocAt(items)
            /\ UNCHANGED server /\ base # None
        BY <2>7, OpenIs DEF OpenOnline, EditorInv
      <3>2. CASE Diverged
        <4>1. base' = base
          BY <2>7, <3>2 DEF OpenOnline
        <4>2. ~(server.rev = base.rev /\ server.item = base.item)
          <5>1. ASSUME server.rev = base.rev, server.item = base.item
                PROVE  FALSE
            <6>1. Past(base) /\ <<server.rev, server.page>> \in served
              BY <3>1 DEF ServedInv
            <6>2. PICK p, q : p = <<server.rev, server.page>> /\ q = <<base.rev, base.page>>
              OBVIOUS
            <6>3. /\ p \in served /\ q \in served /\ p[1] = q[1]
                  /\ p[2] = server.page /\ q[2] = base.page
              BY <5>1, <6>1, <6>2 DEF Past
            <6>4. p = q
              BY <6>3 DEF ServedInv
            <6>5. server.page = base.page /\ server.at = base.at
              BY <5>1, <6>1, <6>3, <6>4 DEF Past
            <6>6. server = base
              BY <3>1, <5>1, <6>5, PartsAre, DocFields
            <6>7. QED BY <3>2, <6>6 DEF Diverged
          <5>2. QED BY <5>1
        <4>3. QED BY <3>1, <4>1, <4>2 DEF Still
      <3>3. CASE ~Diverged
        <4>1. base' = server /\ drifted' = drifted \cup ({server.item} \ shown'.item)
          BY <2>7, <3>3 DEF OpenOnline
        <4>2. QED BY <4>1 DEF Still
      <3>4. QED BY <3>2, <3>3
    <2>8. CASE OpenOffline
      BY <2>8 DEF OpenOffline, Still
    <2>9. CASE Close \/ Load \/ Resume
      BY <1>6, <2>9 DEF Close, Load, Resume
    <2>10. CASE \/ OtherSaves \/ OtherEditsItem \/ ServeRequest \/ ServeLate \/ Edit \/ Autosave
                \/ RetrySave \/ GoOffline \/ ResumeFails \/ GoOnline \/ ReviewAgain \/ UNCHANGED vars
      <3>1. UNCHANGED <<tab, base, job>>
        BY <2>10 DEF OtherSaves, OtherEditsItem, ServeRequest, ServeLate, Edit, Autosave, RetrySave,
               GoOffline, ResumeFails, GoOnline, ReviewAgain, vars
      <3>2. QED BY <1>6, <2>1, <3>1 DEF Done
    <2>11. QED
      BY <2>2, <2>3, <2>4, <2>5, <2>6, <2>7, <2>8, <2>9, <2>10 DEF Next, Sync
  <1>7. QED BY <1>4, <1>5, <1>6 DEF ItemInv, ItemSeen, Still

\* What the studio takes from a request whose base has been seen overwrites nothing unseen.
LEMMA TakesSeen ==
  ASSUME TypeInv, ServedInv, NEW r \in RequestAt(items), Takes(r),
         \E page \in shown.page : <<r.base, page>> \in served,
         "item" \in DOMAIN r.changes => ItemSeen(r.changes["item"].before, r.base)
  PROVE  /\ server.page \in shown.page
         /\ server'.item # server.item =>
              server.item \in shown.item \cup drifted \/ receipts' = receipts
  <1>1. PICK d \in DocAt(items) :
          /\ server.rev = r.base /\ server' = d
          /\ TakesCommand(r, d) \/ TakesDocument(r, d)
    BY DEF Takes
  <1>2. server.page \in shown.page
    <2>1. PICK page \in shown.page : <<r.base, page>> \in served
      OBVIOUS
    <2>2. PICK p, q : p = <<server.rev, server.page>> /\ q = <<r.base, page>>
      OBVIOUS
    <2>3. p \in served /\ q \in served /\ p[1] = q[1] /\ p[2] = server.page /\ q[2] = page
      BY <1>1, <2>1, <2>2 DEF ServedInv
    <2>4. p = q
      BY <2>3 DEF ServedInv
    <2>5. QED BY <2>1, <2>3, <2>4
  <1>3. CASE TakesDocument(r, d)
    BY <1>2, <1>3 DEF TakesDocument
  <1>4. CASE TakesCommand(r, d)
    <2>1. d.item # server.item =>
            "item" \in DOMAIN r.changes /\ server.item = r.changes["item"].before
      BY <1>4 DEF TakesCommand
    <2>2. d.item # server.item => server.item \in shown.item \cup drifted
      BY <1>1, <2>1 DEF ItemSeen
    <2>3. QED BY <1>1, <1>2, <2>2
  <1>5. QED BY <1>1, <1>3, <1>4

\* No step overwrites what its user has not seen.
LEMMA OverwriteStep ==
  ASSUME TypeInv, EditorInv, JobInv, CommandInv, ServedInv, SeenInv, ItemInv, [Next]_vars,
         others' = others
  PROVE  /\ server'.page # server.page => server.page \in shown.page
         /\ items' = items /\ server'.item # server.item =>
              server.item \in shown.item \cup drifted \/ receipts' = receipts
  <1> USE DEF studio, stored, memory, sending, counters, history
  <1>1. CASE OtherSaves
    <2>1. others' = others + 1 /\ others \in Nat
      BY <1>1, ProjectSyncAssumption DEF OtherSaves, TypeInv
    <2>2. QED BY <2>1
  <1>2. CASE OtherEditsItem
    <2>1. items' = items + 1 /\ items \in Nat /\ server' = [server EXCEPT !.item = items + 1]
      BY <1>2, PartsAre DEF OtherEditsItem
    <2>2. server'.page = server.page
      BY <2>1 DEF TypeInv, DocAt
    <2>3. QED BY <2>1, <2>2
  <1>3. CASE ServeRequest
    <2>1. PICK r : r = Current
      OBVIOUS
    <2>2. /\ r \in RequestAt(items) /\ Serve(r) /\ r.base = job.base.rev
          /\ job.id = None => r.changes = << >>
          /\ job.id # None => r.changes = Differences(job.base, job.snap)
      BY <1>3, <2>1, CurrentIs DEF ServeRequest
    <2>3. /\ job # None /\ Asking /\ job.base \in DocAt(items) /\ job.snap \in DocAt(items)
      BY <1>3, PartsAre DEF ServeRequest, Unserved, Asking
    <2>4. job.base.page \in shown.page /\ <<r.base, job.base.page>> \in served
      BY <2>2, <2>3 DEF SeenInv, ServedInv, Past
    <2>5. "item" \in DOMAIN r.changes => r.changes["item"].before = job.base.item
      BY <2>2, <2>3, NoChanges, PartsAre, DifferencesAre
    <2>6. "item" \in DOMAIN r.changes => ItemSeen(r.changes["item"].before, r.base)
      BY <2>2, <2>3, <2>5 DEF ItemInv
    <2>7. CASE UNCHANGED <<server, raw, receipts, served>>
      BY <2>7
    <2>8. CASE Takes(r)
      BY <2>2, <2>4, <2>6, <2>8, TakesSeen
    <2>9. QED BY <2>2, <2>7, <2>8, ServeIs
  <1>4. CASE ServeLate
    <2>1. PICK r \in late : Serve(r)
      BY <1>4 DEF ServeLate
    <2>2. r \in RequestAt(items)
      BY <2>1 DEF TypeInv
    <2>3. \E page \in shown.page : <<r.base, page>> \in served
      BY <2>1 DEF SeenInv
    <2>4. "item" \in DOMAIN r.changes => ItemSeen(r.changes["item"].before, r.base)
      BY <2>1 DEF ItemInv
    <2>5. CASE UNCHANGED <<server, raw, receipts, served>>
      BY <2>5
    <2>6. CASE Takes(r)
      BY <2>2, <2>3, <2>4, <2>6, TakesSeen
    <2>7. QED BY <2>1, <2>2, <2>5, <2>6, ServeIs
  <1>5. CASE \/ Edit \/ Autosave \/ RetrySave \/ GoOffline \/ ResumeFails \/ GoOnline \/ Sync \/ SyncFails
             \/ ReviewAgain \/ ReviewApply \/ Close \/ Load \/ Resume \/ OpenOnline \/ OpenOffline
             \/ UNCHANGED vars
    <2>1. UNCHANGED server
      BY <1>5
      DEF Edit, Autosave, RetrySave, GoOffline, ResumeFails, GoOnline, Sync, SyncStart, SyncSend, SyncRefused,
          SyncConfirmed, SyncRebases, SyncStores, SyncAdopts, SyncFails, ReviewAgain, ReviewApply,
          Close, Load, Resume, OpenOnline, OpenOffline, vars
    <2>2. QED BY <2>1
  <1>6. QED BY <1>1, <1>2, <1>3, <1>4, <1>5 DEF Next

-----------------------------------------------------------------------------
(* What the user has typed is kept                                         *)

\* A snapshot under way is the one before, or what the user has on the screen.
SnapMove ==
  /\ \A i \in DOMAIN journal' :
       journal'[i].snap # None =>
         \/ i \in DOMAIN journal /\ journal'[i].snap = journal[i].snap
         \/ waiting # None /\ journal'[i].snap = waiting.snap
  /\ \/ waiting' = None \/ UNCHANGED waiting
     \/ tab = "open" /\ tab' = "open" /\ UNCHANGED present /\ waiting'.snap = present
  /\ \/ job' = None
     \/ job # None /\ job'.snap = job.snap
     \/ waiting # None /\ job'.snap = waiting.snap

\* Every step moves them so.
LEMMA SnapMoves ==
  ASSUME TypeInv, EditorInv, JournalMove, [Next]_vars
  PROVE  SnapMove
  <1> USE DEF studio, stored, memory, sending, counters, history
  <1>1. \A i \in DOMAIN journal :
          journal'[i].snap # None => journal'[i].snap = journal[i].snap
    BY DEF JournalMove, Follows
  <1>2. (job' = None \/ UNCHANGED job) =>
          \/ job' = None
          \/ job # None /\ job'.snap = job.snap
          \/ waiting # None /\ job'.snap = waiting.snap
    OBVIOUS
  <1>3. CASE SyncStart
    <2>1. waiting' = None /\ waiting # None /\ base # None
      BY <1>3 DEF SyncStart, EditorInv
    <2>2. \/ UNCHANGED job /\ UNCHANGED journal
          \/ \E id \in Id \cup {None} :
               QueueCommand(waiting.snap, id) /\ job'.snap = waiting.snap
      BY <1>3 DEF SyncStart
    <2>3. ASSUME NEW id \in Id \cup {None}, QueueCommand(waiting.snap, id),
                 job'.snap = waiting.snap
          PROVE  SnapMove
      <3>1. PICK s \in DocAt(items) : s = waiting.snap
        BY <2>1, PartsAre
      <3>2. QueueCommand(s, id)
        BY <2>3, <3>1
      <3>3. /\ DOMAIN journal' \subseteq DOMAIN journal \cup {id}
            /\ id = None => journal' = journal
            /\ id # None => (id \notin DOMAIN journal => journal'[id].snap = s)
        BY <2>1, <3>2, QueueIs
      <3>4. \A i \in DOMAIN journal' : i \notin DOMAIN journal => journal'[i].snap = waiting.snap
        BY <3>1, <3>3
      <3>5. QED BY <1>1, <2>1, <2>3, <3>4 DEF SnapMove
    <2>4. CASE UNCHANGED job /\ UNCHANGED journal
      BY <1>2, <2>1, <2>4 DEF SnapMove
    <2>5. QED BY <2>2, <2>3, <2>4
  <1>4. ASSUME DOMAIN journal' = DOMAIN journal, waiting' = None \/ UNCHANGED waiting,
               job' = None \/ UNCHANGED job \/ (job # None /\ job'.snap = job.snap)
        PROVE  SnapMove
    BY <1>1, <1>2, <1>4 DEF SnapMove
  <1>5. CASE SyncRefused
    BY <1>4, <1>5, RefusedIs DEF SyncRefused
  <1>6. CASE SyncSend \/ SyncConfirmed \/ SyncRebases \/ SyncStores
    <2>1. job \in JobAt(items) /\ job # None
      BY <1>6 DEF SyncSend, SyncConfirmed, Answered, SyncRebases, SyncStores, TypeInv
    <2>2. job' = None \/ job'.snap = job.snap
      BY <1>6, <2>1 DEF SyncSend, SyncConfirmed, SyncRebases, SyncStores, SyncEnds, JobAt
    <2>3. DOMAIN journal' = DOMAIN journal
      <3>1. SyncConfirmed => DOMAIN journal' = DOMAIN journal
        BY ConfirmedAre
      <3>2. QED BY <1>6, <3>1 DEF SyncSend, SyncRebases, SyncStores
    <2>4. UNCHANGED waiting
      BY <1>6 DEF SyncSend, SyncConfirmed, SyncRebases, SyncStores
    <2>5. QED BY <1>4, <2>1, <2>2, <2>3, <2>4
  <1>7. CASE Resume
    <2>1. DOMAIN journal' = DOMAIN journal
      BY <1>7, ResumeIs
    <2>2. UNCHANGED <<waiting, job>>
      BY <1>7 DEF Resume
    <2>3. QED BY <1>4, <2>1, <2>2
  <1>8. CASE Autosave \/ RetrySave \/ GoOnline
    <2>1. UNCHANGED <<journal, job, present, tab>>
      BY <1>8 DEF Autosave, RetrySave, GoOnline
    <2>2. \/ waiting' = None \/ UNCHANGED waiting
          \/ tab = "open" /\ waiting' = [snap |-> present, by |-> "autosave"]
          \/ tab = "open" /\ waiting' = [snap |-> present, by |-> "online"]
          \/ tab = "open" /\ waiting' = [snap |-> present, by |-> "retry"]
      BY <1>8 DEF Autosave, RetrySave, GoOnline
    <2>3. waiting' = None \/ UNCHANGED waiting \/ (tab = "open" /\ waiting'.snap = present)
      BY <2>2
    <2>4. QED BY <1>1, <1>2, <2>1, <2>3 DEF SnapMove
  <1>9. CASE \/ OtherSaves \/ OtherEditsItem \/ ServeRequest \/ ServeLate \/ Edit
             \/ GoOffline \/ ResumeFails \/ SyncFails \/ SyncAdopts \/ ReviewAgain
             \/ ReviewApply \/ Close \/ Load \/ OpenOnline \/ OpenOffline \/ UNCHANGED vars
    <2>1. UNCHANGED journal /\ (waiting' = None \/ UNCHANGED waiting)
          /\ (job' = None \/ UNCHANGED job)
      BY <1>9
      DEF OtherSaves, OtherEditsItem, ServeRequest, ServeLate, Edit, GoOffline, ResumeFails, SyncFails,
          SyncAdopts, SyncEnds, ReviewAgain, ReviewApply, Close, Load, OpenOnline, OpenOffline, vars
    <2>2. QED BY <1>4, <2>1
  <1>10. QED BY <1>3, <1>5, <1>6, <1>7, <1>8, <1>9 DEF Next, Sync

\* A document stays kept if what is safe stays so.
LEMMA KeptMoves ==
  ASSUME TypeInv, NEW m \in DocAt(items), KeptFor(m), Safe \subseteq Safe', SnapMove,
         UNCHANGED waiting \/ waiting' = None \/ m = present,
         \A page \in shown'.page : page \in shown.page \/ page = m.page \/ page \in Safe',
         UNCHANGED storedBase \/ (m.rev < storedBase'.rev => m.page \in Safe'),
         Done' => \/ Done /\ job'.canonical = job.canonical
                  \/ m.rev < job'.canonical.rev => m.page \in Safe'
  PROVE  KeptFor(m)'
  <1>1. \A page \in shown'.page : page \in Safe' \/ page = m.page
    BY DEF KeptFor
  <1>2. m.rev < storedBase'.rev => m.page \in Safe'
    BY DEF KeptFor
  <1>3. waiting # None /\ m.rev <= waiting.snap.rev => m.page \in Safe' \/ m.page = waiting.snap.page
    BY DEF KeptFor
  <1>4. ASSUME NEW i \in DOMAIN journal', journal'[i].snap # None, m.rev <= journal'[i].snap.rev
        PROVE  m.page \in Safe' \/ m.page = journal'[i].snap.page
    <2>1. CASE i \in DOMAIN journal /\ journal'[i].snap = journal[i].snap
      <3>1. m.page \in Safe \/ m.page = journal[i].snap.page
        BY <1>4, <2>1 DEF KeptFor
      <3>2. QED BY <2>1, <3>1
    <2>2. CASE waiting # None /\ journal'[i].snap = waiting.snap
      BY <1>3, <1>4, <2>2
    <2>3. QED BY <1>4, <2>1, <2>2 DEF SnapMove
  <1>5. waiting' # None /\ m.rev <= waiting'.snap.rev => m.page \in Safe' \/ m.page = waiting'.snap.page
    BY <1>3 DEF SnapMove
  <1>6. job' # None /\ m.rev <= job'.snap.rev => m.page \in Safe' \/ m.page = job'.snap.page
    <2>1. job # None /\ m.rev <= job.snap.rev => m.page \in Safe' \/ m.page = job.snap.page
      BY DEF KeptFor
    <2>2. QED BY <1>3, <2>1 DEF SnapMove
  <1>7. Done' /\ m.rev < job'.canonical.rev => m.page \in Safe'
    BY DEF KeptFor
  <1>8. QED BY <1>1, <1>2, <1>4, <1>5, <1>6, <1>7 DEF KeptFor

\* A document that is safe is kept.
LEMMA SecureKept ==
  ASSUME NEW d, d.page \in Safe', \A page \in shown'.page : page \in Safe'
  PROVE  KeptFor(d)'
  BY DEF KeptFor

\* What the studio has had is safe.
LEMMA PastIsSafe ==
  ASSUME NEW d, Past(d)
  PROVE  d.page \in Safe /\ d.page \in {p[2] : p \in served}
  <1>1. PICK p : p = <<d.rev, d.page>>
    OBVIOUS
  <1>2. p \in served /\ p[2] = d.page
    BY <1>1 DEF Past
  <1>3. QED BY <1>2 DEF Safe

\* And it stays so, unless the user writes it again.
LEMMA SafeGrows ==
  ASSUME StudioMove, [Next]_vars, ~Edit, ~ReviewApply
  PROVE  Safe \subseteq Safe'
  <1> USE DEF studio, stored, memory, sending, counters, history
  <1>1. served \subseteq served'
    BY DEF StudioMove
  <1>2. dropped \subseteq dropped' /\ UNCHANGED behind
    BY DEF Next, Sync, OtherSaves, OtherEditsItem, ServeRequest, ServeLate, Autosave, RetrySave,
           GoOffline, ResumeFails, GoOnline, SyncStart, SyncSend, SyncFails, SyncRefused, SyncConfirmed,
           SyncRebases, SyncStores, SyncAdopts, ReviewAgain, Close, Load, Resume, OpenOnline,
           OpenOffline, vars
  <1>3. QED BY <1>1, <1>2 DEF Safe

\* The document the user makes takes the place of the one on the screen.
LEMMA WritesKept ==
  ASSUME TypeInv, NEW d \in DocAt(items), Writes(d), present \in DocAt(items), KeptFor(present),
         UNCHANGED <<storedBase, journal, waiting, job, served>>,
         Done => base = job.canonical,
         \A page \in shown'.page :
           page \in shown.page \/ page = d.page \/ page \in {p[2] : p \in served}
  PROVE  KeptFor(d)'
  <1>1. dropped' = (dropped \cup {present.page}) \ {d.page}
    BY WritesType
  <1>2. (Behind(d) => d.page \in Safe') /\ behind \subseteq behind'
    BY DEF Writes, Safe
  <1>3. Safe \ {d.page} \subseteq Safe' /\ present.page \in Safe' \cup {d.page}
    BY <1>1, <1>2 DEF Safe
  <1>4. {p[2] : p \in served} \subseteq Safe'
    BY DEF Safe
  <1>5. \A page \in shown.page : page \in Safe \/ page = present.page
    BY DEF KeptFor
  <1>6. \A page \in shown'.page : page \in Safe' \/ page = d.page
    BY <1>3, <1>4, <1>5
  <1>7. Done' => Done /\ job'.canonical = base
    BY DEF Done
  <1>8. QED BY <1>2, <1>6, <1>7 DEF KeptFor, Behind

\* What is on the device has been shown, or the studio has had it.
LEMMA DeviceStep ==
  ASSUME TypeInv, EditorInv, JobInv, ServedInv, SeenInv, KeptInv, HistoryMove, StudioMove, [Next]_vars
  PROVE  localDoc'.page \in shown'.page \cup {p[2] : p \in served'}
  <1> USE DEF studio, stored, memory, sending, counters, history
  <1>1. /\ shown.page \subseteq shown'.page
        /\ {p[2] : p \in served} \subseteq {p[2] : p \in served'}
    BY DEF HistoryMove, StudioMove
  <1>2. CASE UNCHANGED localDoc
    BY <1>1, <1>2 DEF KeptInv
  <1>3. CASE Autosave \/ RetrySave
    <2>1. UNCHANGED localDoc \/ localDoc' = present
      BY <1>3 DEF Autosave, RetrySave
    <2>2. present.page \in shown.page
      BY <1>3 DEF Autosave, RetrySave, EditorInv, SeenInv
    <2>3. QED BY <1>1, <1>2, <2>1, <2>2
  <1>4. CASE SyncStores
    <2>1. UNCHANGED localDoc \/ localDoc' = job.canonical
      BY <1>4 DEF SyncStores
    <2>2. Past(job.canonical)
      BY <1>4 DEF SyncStores, ServedInv, Done
    <2>3. QED BY <1>1, <1>2, <2>1, <2>2, PastIsSafe
  <1>5. CASE Resume
    <2>1. PICK id \in DOMAIN journal : Resumes(id, receipts[id])
      BY <1>5, ResumeIs
    <2>2. UNCHANGED localDoc \/ (receipts[id] # None /\ localDoc' = receipts[id])
      BY <2>1 DEF Resumes
    <2>3. receipts[id] # None => Past(receipts[id])
      BY JournalIs DEF ServedInv
    <2>4. QED BY <1>1, <1>2, <2>2, <2>3, PastIsSafe
  <1>6. CASE \/ OtherSaves \/ OtherEditsItem \/ ServeRequest \/ ServeLate \/ Edit \/ GoOffline \/ ResumeFails
             \/ GoOnline \/ SyncStart \/ SyncSend \/ SyncFails \/ SyncRefused \/ SyncConfirmed
             \/ SyncRebases \/ SyncAdopts \/ ReviewAgain \/ ReviewApply \/ Close \/ Load
             \/ OpenOnline \/ OpenOffline \/ UNCHANGED vars
    <2>1. UNCHANGED localDoc
      BY <1>6
      DEF OtherSaves, OtherEditsItem, ServeRequest, ServeLate, Edit, GoOffline, ResumeFails, GoOnline, SyncStart,
          SyncSend, SyncFails, SyncRefused, SyncConfirmed, SyncRebases, SyncAdopts, ReviewAgain,
          ReviewApply, Close, Load, OpenOnline, OpenOffline, vars
    <2>2. QED BY <1>2, <2>1
  <1>7. QED BY <1>3, <1>4, <1>5, <1>6 DEF Next, Sync

\* A command that was taken made a document at most one revision after its snapshot.
LEMMA TakenIsKept ==
  ASSUME TypeInv, ServedInv, ReceiptInv, NEW m \in DocAt(items), KeptFor(m),
         NEW i \in DOMAIN journal, journal[i].snap # None, receipts[i] # None,
         m.rev < receipts[i].rev
  PROVE  m.page \in Safe
  <1>1. PICK r, s : r = receipts[i] /\ s = journal[i].snap
    OBVIOUS
  <1>2. i \in Id /\ r \in DocAt(items) /\ s \in DocAt(items)
    BY <1>1, JournalIs DEF TypeInv
  <1>3. r.page = s.page /\ r.rev <= s.rev + 1
    BY <1>1, <1>2 DEF ReceiptInv
  <1>4. r.page \in Safe
    BY <1>1, <1>2, PastIsSafe DEF ServedInv
  <1>5. m.rev <= s.rev
    BY <1>1, <1>2, <1>3 DEF DocAt
  <1>6. m.page \in Safe \/ m.page = s.page
    BY <1>1, <1>5 DEF KeptFor
  <1>7. QED BY <1>3, <1>4, <1>6

\* Mine is a document, the same as before or another.
LEMMA MineIs ==
  ASSUME TypeInv, EditorInv
  PROVE  Mine \in DocAt(items) /\ (tab = "open" => Mine = present) /\ (tab # "open" => Mine = localDoc)
  BY DEF Mine, TypeInv, EditorInv

\* What the user has typed stays kept when the editor opens.
LEMMA KeptOpening ==
  ASSUME TypeInv, EditorInv, ServedInv, KeptInv, StudioMove, SnapMove, Safe \subseteq Safe', OpenOnline
  PROVE  KeptFor(Mine)'
  <1> USE DEF studio, stored, memory, sending, counters, history
  <1>1. /\ tab = "resuming" /\ tab' = "open" /\ base # None /\ base = storedBase
        /\ shown'.page = shown.page \cup {present'.page}
        /\ server \in DocAt(items) /\ localDoc \in DocAt(items) /\ base \in DocAt(items)
        /\ present' \in DocAt(items) /\ UNCHANGED <<waiting, job, localDoc>>
    BY OpenIs DEF OpenOnline, EditorInv
  <1>2. KeptFor(localDoc) /\ Mine' = present'
    BY <1>1 DEF KeptInv, Mine
  <1>3. PICK m \in DocAt(items) : m = localDoc
    BY <1>1
  <1>4. PICK d \in DocAt(items) : d = present'
    BY <1>1
  <1>5. server.page \in Safe'
    <2>1. <<server.rev, server.page>> \in served
      BY DEF ServedInv
    <2>2. Past(server)
      BY <2>1 DEF Past
    <2>3. QED BY <2>2, PastIsSafe
  <1>6. Done' => Done /\ job'.canonical = job.canonical
    BY <1>1 DEF Done
  <1>7. ASSUME d = m, UNCHANGED storedBase \/ (m.rev < storedBase'.rev => m.page \in Safe')
        PROVE  KeptFor(d)'
    BY <1>1, <1>2, <1>3, <1>4, <1>6, <1>7, KeptMoves
  <1>8. CASE Diverged
    <2>1. present' = localDoc /\ UNCHANGED storedBase
      BY <1>8 DEF OpenOnline
    <2>2. KeptFor(d)'
      BY <1>3, <1>4, <1>7, <2>1
    <2>3. QED BY <1>2, <1>4, <2>2 DEF KeptFor
  <1>9. CASE ~Diverged /\ localDoc.rev >= server.rev
    <2>1. present' = localDoc /\ storedBase' = server
      BY <1>9 DEF OpenOnline
    <2>2. m.rev \in Nat /\ server.rev \in Nat
      BY <1>1 DEF DocAt
    <2>3. ~(m.rev < storedBase'.rev)
      BY <1>3, <1>9, <2>1, <2>2
    <2>4. KeptFor(d)'
      BY <1>3, <1>4, <1>7, <2>1, <2>3
    <2>5. QED BY <1>2, <1>4, <2>4 DEF KeptFor
  <1>10. CASE ~Diverged /\ ~(localDoc.rev >= server.rev)
    <2>1. present' = server
      BY <1>10 DEF OpenOnline
    <2>2. m.rev \in Nat /\ server.rev \in Nat /\ m.rev < server.rev
      BY <1>1, <1>3, <1>10 DEF DocAt
    <2>3. m.page \in Safe
      <3>1. CASE localDoc = server
        BY <1>3, <2>2, <3>1
      <3>2. CASE localDoc = base
        BY <1>1, <1>3, <3>2, PastIsSafe DEF ServedInv
      <3>3. CASE server = base
        BY <1>1, <1>2, <1>3, <2>2, <3>3 DEF KeptFor
      <3>4. QED BY <1>10, <3>1, <3>2, <3>3 DEF Diverged
    <2>4. \A page \in shown'.page : page \in Safe'
      BY <1>1, <1>2, <1>3, <1>5, <2>1, <2>3 DEF KeptFor
    <2>5. KeptFor(d)'
      BY <1>4, <1>5, <2>1, <2>4, SecureKept
    <2>6. QED BY <1>2, <1>4, <2>5 DEF KeptFor
  <1>11. QED BY <1>8, <1>9, <1>10

\* And when it resumes a command.
LEMMA KeptResuming ==
  ASSUME TypeInv, EditorInv, CommandInv, ServedInv, ReceiptInv, KeptInv, StudioMove, SnapMove,
         Safe \subseteq Safe', Resume
  PROVE  KeptFor(Mine)'
  <1> USE DEF studio, stored, memory, sending, counters, history
  <1>1. PICK id \in DOMAIN journal : Resumes(id, receipts[id])
    BY ResumeIs
  <1>2. /\ tab = "resuming" /\ tab' = "resuming" /\ UNCHANGED <<waiting, job, shown>>
        /\ localDoc \in DocAt(items)
    BY DEF Resume, TypeInv
  <1>3. KeptFor(localDoc) /\ Mine' = localDoc'
    BY <1>2 DEF KeptInv, Mine
  <1>4. PICK m \in DocAt(items) : m = localDoc
    BY <1>2
  <1>5. Done' => Done /\ job'.canonical = job.canonical
    BY <1>2 DEF Done
  <1>6. ASSUME localDoc' = m, UNCHANGED storedBase \/ (m.rev < storedBase'.rev => m.page \in Safe')
        PROVE  KeptFor(Mine)'
    <2>1. KeptFor(m)'
      BY <1>2, <1>3, <1>4, <1>5, <1>6, KeptMoves
    <2>2. QED BY <1>3, <1>6, <2>1 DEF KeptFor
  <1>7. CASE UNCHANGED <<base, stored>>
    BY <1>4, <1>6, <1>7
  <1>8. CASE ~UNCHANGED <<base, stored>>
    <2>1. PICK doc, snap : doc = receipts[id] /\ snap = journal[id].snap
      OBVIOUS
    <2>2. /\ doc # None /\ storedBase' = doc
          /\ localDoc' = (IF localDoc = snap THEN doc ELSE localDoc)
          /\ id \in todo
      BY <1>1, <1>8, <2>1 DEF Resumes
    <2>3. snap # None /\ id \in Id
      BY <1>1, <2>1, <2>2, JournalIs DEF EditorInv
    <2>4. doc \in DocAt(items) /\ doc.page = snap.page /\ doc.page \in Safe
      <3>1. doc \in DocAt(items) /\ doc.page = snap.page /\ Past(doc)
        BY <2>1, <2>2, <2>3 DEF ReceiptInv, ServedInv, TypeInv
      <3>2. QED BY <3>1, PastIsSafe
    <2>5. CASE localDoc = snap
      <3>1. PICK d \in DocAt(items) : d = doc
        BY <2>4
      <3>2. \A page \in shown'.page : page \in Safe'
        BY <1>2, <1>3, <2>4, <2>5 DEF KeptFor
      <3>3. KeptFor(d)'
        BY <2>4, <3>1, <3>2, SecureKept
      <3>4. QED BY <1>3, <2>2, <2>5, <3>1, <3>3 DEF KeptFor
    <2>6. CASE localDoc # snap
      <3>1. m.rev < doc.rev => m.page \in Safe
        BY <1>3, <1>4, <2>1, <2>2, <2>3, TakenIsKept
      <3>2. QED BY <1>4, <1>6, <2>2, <2>6, <3>1
    <2>7. QED BY <2>5, <2>6
  <1>9. QED BY <1>7, <1>8

\* When he writes.
LEMMA KeptWriting ==
  ASSUME TypeInv, EditorInv, JobInv, ServedInv, KeptInv, Edit \/ ReviewApply
  PROVE  KeptFor(Mine)'
  <1> USE DEF studio, stored, memory, sending, counters, history
  <1>1. /\ tab = "open" /\ tab' = "open" /\ present \in DocAt(items)
        /\ UNCHANGED <<storedBase, journal, waiting, job, served>>
    BY DEF Edit, ReviewApply, EditorInv, TypeInv
  <1>2. KeptFor(present) /\ Mine' = present'
    BY <1>1 DEF KeptInv, Mine
  <1>3. Done => base = job.canonical
    BY DEF JobInv
  <1>4. PICK d \in DocAt(items) :
          /\ Writes(d) /\ present' = d
          /\ \A page \in shown'.page :
               page \in shown.page \/ page = d.page \/ page \in {p[2] : p \in served}
    <2>1. CASE Edit
      BY <2>1, EditIs
    <2>2. CASE ReviewApply
      <3>1. conflict.remote.page \in {p[2] : p \in served}
        BY <2>2, PastIsSafe DEF ReviewApply, ServedInv
      <3>2. QED BY <2>2, <3>1, ReviewIs
    <2>3. QED BY <2>1, <2>2
  <1>5. KeptFor(d)'
    BY <1>1, <1>2, <1>3, <1>4, WritesKept
  <1>6. QED BY <1>2, <1>4, <1>5 DEF KeptFor

\* When the tab is closed.
LEMMA KeptClosing ==
  ASSUME TypeInv, EditorInv, KeptInv, SnapMove, Safe \subseteq Safe', Close
  PROVE  KeptFor(Mine)'
  <1> USE DEF studio, stored, memory, sending, counters, history
  <1>1. /\ tab = "open" /\ tab' = "closed" /\ present \in DocAt(items) /\ localDoc \in DocAt(items)
        /\ UNCHANGED <<shown, storedBase, localDoc, served>> /\ waiting' = None /\ ~Done'
    BY DEF Close, EditorInv, TypeInv, Done
  <1>2. KeptFor(present) /\ Mine' = localDoc
    BY <1>1 DEF KeptInv, Mine
  <1>3. PICK m \in DocAt(items) : m = localDoc
    BY <1>1
  <1>4. CASE localDoc = present
    <2>1. KeptFor(m)'
      BY <1>1, <1>2, <1>3, <1>4, KeptMoves
    <2>2. QED BY <1>2, <1>3, <2>1 DEF KeptFor
  <1>5. CASE localDoc # present
    <2>1. present.page \in Safe'
      BY <1>5 DEF Close, Safe
    <2>2. \A page \in shown'.page : page \in Safe'
      BY <1>1, <1>2, <2>1 DEF KeptFor
    <2>3. m.page \in Safe'
      BY <1>1, <1>3, <2>2 DEF KeptInv, Safe
    <2>4. KeptFor(m)'
      BY <2>2, <2>3, SecureKept
    <2>5. QED BY <1>2, <1>3, <2>4 DEF KeptFor
  <1>6. QED BY <1>4, <1>5

\* When the synchronisation confirms, rebases, stores and adopts a document.
LEMMA KeptSyncing ==
  ASSUME TypeInv, EditorInv, JobInv, CommandInv, ServedInv, ReceiptInv, ConfirmedInv, KeptInv,
         StudioMove, SnapMove, Safe \subseteq Safe',
         SyncConfirmed \/ SyncRebases \/ SyncStores \/ SyncAdopts
  PROVE  KeptFor(Mine)'
  <1> USE DEF studio, stored, memory, sending, counters, history
  <1>1. /\ job # None /\ tab = "open" /\ tab' = "open" /\ UNCHANGED waiting
        /\ present \in DocAt(items) /\ job \in JobAt(items)
    BY DEF SyncConfirmed, Answered, SyncRebases, SyncStores, SyncAdopts, EditorInv, TypeInv
  <1>2. KeptFor(present) /\ Mine' = present'
    BY <1>1 DEF KeptInv, Mine
  <1>3. PICK m \in DocAt(items) : m = present
    BY <1>1
  <1>4. ASSUME present' = m,
               UNCHANGED storedBase \/ (m.rev < storedBase'.rev => m.page \in Safe'),
               \A page \in shown'.page : page \in shown.page \/ page = m.page,
               Done' => \/ Done /\ job'.canonical = job.canonical
                        \/ m.rev < job'.canonical.rev => m.page \in Safe'
        PROVE  KeptFor(Mine)'
    <2>1. KeptFor(m)'
      BY <1>1, <1>2, <1>3, <1>4, KeptMoves
    <2>2. QED BY <1>2, <1>4, <2>1 DEF KeptFor
  <1>5. Done => /\ job.canonical \in DocAt(items) /\ job.canonical.page = job.snap.page
                /\ Past(job.canonical) /\ job.canonical.page \in Safe
    <2>1. Done => /\ job.canonical \in DocAt(items) /\ job.canonical.page = job.snap.page
                  /\ Past(job.canonical)
      BY <1>1, PartsAre DEF JobInv, ServedInv
    <2>2. QED BY <2>1, PastIsSafe
  <1>6. CASE SyncConfirmed
    <2>1. /\ job.pc = "sent" /\ answer # None /\ answer.ok /\ job'.canonical = answer.doc
          /\ UNCHANGED <<present, storedBase, shown>>
      BY <1>1, <1>6 DEF SyncConfirmed, Answered, JobAt
    <2>2. PICK c : c = answer.doc
      OBVIOUS
    <2>3. c \in DocAt(items) /\ c # None /\ job.snap \in DocAt(items) /\ Past(c)
      BY <1>1, <2>1, <2>2, PartsAre, Something DEF ServedInv
    <2>4. ASSUME m.rev < c.rev
          PROVE  m.page \in Safe
      <3>1. CASE job.id = None
        <4>1. c = job.snap
          BY <2>1, <2>2, <3>1 DEF ConfirmedInv
        <4>2. m.rev <= c.rev
          BY <2>3, <2>4 DEF DocAt
        <4>3. m.page \in Safe \/ m.page = c.page
          BY <1>1, <1>2, <1>3, <4>1, <4>2 DEF KeptFor
        <4>4. c.page \in Safe
          BY <2>3, PastIsSafe
        <4>5. QED BY <4>3, <4>4
      <3>2. CASE job.id # None
        <4>1. PICK i : i = job.id
          OBVIOUS
        <4>2. i \in DOMAIN journal /\ journal[i].snap # None /\ receipts[i] = c
          BY <1>1, <2>1, <2>2, <3>2, <4>1 DEF JobInv, Asking, CommandInv, ConfirmedInv
        <4>3. QED BY <1>2, <1>3, <2>3, <2>4, <4>2, TakenIsKept
      <3>3. QED BY <3>1, <3>2
    <2>5. QED BY <1>3, <1>4, <2>1, <2>2, <2>4
  <1>7. CASE SyncRebases
    <2>1. Done /\ storedBase' = job.canonical /\ job'.canonical = job.canonical
          /\ UNCHANGED <<present, shown>>
      BY <1>1, <1>7 DEF SyncRebases, Done, JobAt
    <2>2. m.rev < job.canonical.rev => m.page \in Safe
      BY <1>2, <1>3, <2>1 DEF KeptFor
    <2>3. QED BY <1>3, <1>4, <2>1, <2>2
  <1>8. CASE SyncStores
    <2>1. Done /\ UNCHANGED <<present, storedBase>>
      BY <1>1, <1>8 DEF SyncStores, Done
    <2>2. CASE UNCHANGED shown /\ job' = [job EXCEPT !.pc = "stored"]
      <3>1. job'.canonical = job.canonical
        BY <1>1, <2>2 DEF JobAt
      <3>2. QED BY <1>3, <1>4, <2>1, <2>2, <3>1
    <2>3. CASE SyncEnds(present, ~Adopts)
      <3>1. PICK ok \in BOOLEAN : ok = ~Adopts
        OBVIOUS
      <3>2. job' = None /\ shown'.page = shown.page \cup {m.page}
        BY <1>1, <1>3, <1>5, <2>1, <2>3, <3>1, EndsIs
      <3>3. ~Done'
        BY <3>2 DEF Done
      <3>4. QED BY <1>3, <1>4, <2>1, <3>2, <3>3
    <2>4. QED BY <1>8, <2>2, <2>3 DEF SyncStores
  <1>9. CASE SyncAdopts
    <2>1. Done /\ UNCHANGED storedBase /\ SyncEnds(present', TRUE)
          /\ present' = IF Unedited THEN job.canonical ELSE present
      BY <1>1, <1>9 DEF SyncAdopts, Done
    <2>2. PICK d \in DocAt(items) : d = present'
      BY <1>1, <1>5, <2>1
    <2>3. job' = None /\ shown'.page = shown.page \cup {d.page}
      BY <1>1, <1>5, <2>1, <2>2, EndsIs
    <2>4. ~Done'
      BY <2>3 DEF Done
    <2>5. CASE ~Unedited
      BY <1>3, <1>4, <2>1, <2>2, <2>3, <2>4, <2>5
    <2>6. CASE Unedited
      <3>1. m.rev <= job.snap.rev /\ d = job.canonical
        BY <1>1, <1>3, <2>1, <2>2, <2>6 DEF Unedited, JobAt, DocAt
      <3>2. d.page \in Safe' /\ m.page \in Safe'
        BY <1>1, <1>2, <1>3, <1>5, <2>1, <3>1 DEF KeptFor
      <3>3. \A page \in shown'.page : page \in Safe'
        BY <1>2, <1>3, <2>3, <3>2 DEF KeptFor
      <3>4. KeptFor(d)'
        BY <3>2, <3>3, SecureKept
      <3>5. QED BY <1>2, <2>2, <3>4 DEF KeptFor
    <2>7. QED BY <2>5, <2>6
  <1>10. QED BY <1>6, <1>7, <1>8, <1>9

\* Whatever happens, it stays kept.
LEMMA KeptStep ==
  ASSUME TypeInv, EditorInv, JobInv, CommandInv, ServedInv, ReceiptInv, ConfirmedInv, SeenInv,
         KeptInv, StudioMove, HistoryMove, JournalMove, [Next]_vars
  PROVE  KeptInv'
  <1> USE DEF studio, stored, memory, sending, counters, history
  <1>1. SnapMove
    BY SnapMoves
  <1>2. KeptFor(Mine)'
    <2>1. CASE Edit \/ ReviewApply
      BY <2>1, KeptWriting
    <2>2. CASE ~Edit /\ ~ReviewApply
      <3>1. Safe \subseteq Safe'
        BY <2>2, SafeGrows
      <3>2. CASE Close
        BY <1>1, <3>1, <3>2, KeptClosing
      <3>3. CASE Resume
        BY <1>1, <3>1, <3>3, KeptResuming
      <3>4. CASE OpenOnline
        BY <1>1, <3>1, <3>4, KeptOpening
      <3>5. CASE SyncConfirmed \/ SyncRebases \/ SyncStores \/ SyncAdopts
        BY <1>1, <3>1, <3>5, KeptSyncing
      <3>6. ASSUME Mine' = Mine, UNCHANGED storedBase, job' = None \/ ~Done' \/ UNCHANGED job,
                   tab # "open" => UNCHANGED waiting,
                   \A page \in shown'.page : page \in shown.page \/ page = Mine.page
            PROVE  KeptFor(Mine)'
        <4>1. PICK m \in DocAt(items) : m = Mine
          BY MineIs
        <4>2. KeptFor(m)
          BY <4>1 DEF KeptInv, KeptFor
        <4>3. Done' => Done /\ job'.canonical = job.canonical
          BY <3>6 DEF Done
        <4>4. UNCHANGED waiting \/ waiting' = None \/ m = present
          BY <3>6, <4>1, MineIs
        <4>5. KeptFor(m)'
          BY <1>1, <3>1, <3>6, <4>1, <4>2, <4>3, <4>4, KeptMoves
        <4>6. QED BY <3>6, <4>1, <4>5 DEF KeptFor
      <3>7. CASE Autosave \/ RetrySave \/ SyncStart \/ SyncSend \/ SyncFails \/ SyncRefused
        <4>1. tab = "open" /\ tab' = "open" /\ UNCHANGED <<present, storedBase, shown>>
          BY <3>7 DEF Autosave, RetrySave, SyncStart, SyncSend, SyncFails, SyncRefused, Answered,
                      EditorInv
        <4>2. UNCHANGED job \/ ~Done'
          <5>1. CASE Autosave \/ RetrySave
            BY <5>1 DEF Autosave, RetrySave
          <5>2. CASE SyncStart
            <6>1. UNCHANGED job \/ job'.pc = "queued"
              BY <5>2 DEF SyncStart
            <6>2. QED BY <6>1 DEF Done
          <5>3. CASE SyncSend
            <6>1. job \in JobAt(items)
              BY <5>3 DEF SyncSend, TypeInv
            <6>2. job' = None \/ job'.pc = "sent"
              BY <5>3, <6>1 DEF SyncSend, JobAt
            <6>3. QED BY <6>2 DEF Done
          <5>4. CASE SyncFails \/ SyncRefused
            BY <5>4 DEF SyncFails, SyncRefused, Done
          <5>5. QED BY <3>7, <5>1, <5>2, <5>3, <5>4
        <4>3. Mine' = Mine
          BY <4>1 DEF Mine
        <4>4. QED BY <3>6, <4>1, <4>2, <4>3
      <3>8. CASE \/ OtherSaves \/ OtherEditsItem \/ ServeRequest \/ ServeLate \/ GoOffline \/ ResumeFails
                 \/ GoOnline \/ ReviewAgain \/ Load \/ UNCHANGED vars
        <4>1. UNCHANGED <<present, localDoc, storedBase, shown, job>>
              /\ (tab' = "open" <=> tab = "open")
          BY <3>8 DEF OtherSaves, OtherEditsItem, ServeRequest, ServeLate, GoOffline, ResumeFails,
                      GoOnline, ReviewAgain, Load, vars
        <4>2. tab # "open" => UNCHANGED waiting
          BY <3>8 DEF OtherSaves, OtherEditsItem, ServeRequest, ServeLate, GoOffline, ResumeFails,
                      GoOnline, ReviewAgain, Load, vars
        <4>3. Mine' = Mine
          BY <4>1 DEF Mine
        <4>4. QED BY <3>6, <4>1, <4>2, <4>3
      <3>9. CASE OpenOffline
        <4>1. /\ tab = "resuming" /\ tab' = "open" /\ present' = localDoc
              /\ UNCHANGED <<storedBase, job, waiting>>
              /\ shown'.page = shown.page \cup {localDoc.page}
          BY <3>9, OpenIs DEF OpenOffline
        <4>2. Mine' = Mine /\ Mine = localDoc
          BY <4>1 DEF Mine
        <4>3. QED BY <3>6, <4>1, <4>2
      <3>10. QED BY <2>2, <3>2, <3>3, <3>4, <3>5, <3>7, <3>8, <3>9 DEF Next, Sync
    <2>3. QED BY <2>1, <2>2
  <1>3. localDoc'.page \in shown'.page \cup {p[2] : p \in served'}
    BY DeviceStep
  <1>4. QED BY <1>2, <1>3 DEF KeptInv

-----------------------------------------------------------------------------
(* The theorems                                                            *)

\* The inductive invariant.
IInv ==
  /\ TypeInv /\ EditorInv /\ JobInv /\ CommandInv /\ LateInv /\ ReceiptInv
  /\ ConfirmedInv /\ ServedInv /\ SeenInv /\ ItemInv /\ KeptInv

\* It holds when the project is new.
LEMMA InitIInv == Init => IInv
  <1> SUFFICES ASSUME Init
               PROVE  IInv
    OBVIOUS
  <1>1. First \in DocAt(0) /\ 0 \in Page
    BY ProjectSyncAssumption DEF First, DocAt, Page
  <1>2. journal = << >> /\ DOMAIN journal = {} /\ late = {} /\ items = 0 /\ tab = "closed"
    BY DEF Init
  <1>3. None \notin DocAt(0)
    BY ProjectSyncAssumption, Something
  <1>4. TypeInv
    <2>1. journal \in Seq(CommandAt(0)) /\ Len(journal) = 0
      BY <1>2
    <2>2. receipts \in [Id -> DocAt(0) \cup {None}]
      BY DEF Init
    <2>3. shown \in [page: SUBSET Page, item: SUBSET (0..items)]
      BY DEF Init
    <2>4. served \subseteq Nat \X Page
      BY <1>1 DEF Init
    <2>5. 0 \in 0..0 /\ 0 \in 0..MaxItems /\ 0 \in 0..MaxEdits /\ 0 \in 0..MaxOthers
          /\ 0 \in 0..MaxFaults /\ 0 <= MaxCommands
      BY ProjectSyncAssumption
    <2>6. items = 0 /\ server \in DocAt(0) /\ localDoc \in DocAt(0) /\ storedBase \in DocAt(0)
      BY <1>1 DEF Init
    <2>7. QED BY <1>2, <2>1, <2>2, <2>3, <2>4, <2>5, <2>6 DEF Init, TypeInv
  <1>5. EditorInv /\ JobInv /\ CommandInv /\ LateInv /\ ReceiptInv /\ ConfirmedInv /\ ItemInv
    BY <1>2
    DEF Init, EditorInv, JobInv, CommandInv, LateInv, ReceiptInv, ConfirmedInv, ConfirmedIsTaken,
        ItemInv, Asking, Done
  <1>6. PICK p : p = <<0, 0>>
    OBVIOUS
  <1>7. served = {p} /\ p[1] = 0 /\ p[2] = 0 /\ First.rev = 0 /\ First.page = 0
    BY <1>6 DEF Init, First
  <1>8. ServedInv
    BY <1>6, <1>7 DEF Init, ServedInv, Past, Done
  <1>9. SeenInv
    BY <1>2 DEF Init, SeenInv
  <1>10. localDoc.page \in {q[2] : q \in served}
    BY <1>7 DEF Init
  <1>11. KeptInv
    BY <1>2, <1>7, <1>10 DEF Init, KeptInv, KeptFor, Mine, Safe, Done
  <1>12. QED BY <1>4, <1>5, <1>8, <1>9, <1>11 DEF IInv

\* Every step keeps it.
LEMMA NextIInv == IInv /\ [Next]_vars => IInv'
  <1> SUFFICES ASSUME IInv, [Next]_vars
               PROVE  IInv'
    OBVIOUS
  <1>1. /\ TypeInv /\ EditorInv /\ JobInv /\ CommandInv /\ LateInv /\ ReceiptInv
        /\ ConfirmedInv /\ ServedInv /\ SeenInv /\ ItemInv /\ KeptInv
    BY DEF IInv
  <1>2. TypeInv'
    BY <1>1, TypeStep
  <1>3. EditorInv'
    BY <1>1, <1>2, EditorStep
  <1>4. StudioMove /\ HistoryMove /\ JournalMove /\ BaseMove
    BY <1>1, StudioMoves, HistoryMoves, JournalMoves, BaseMoves
  <1>5. LateMove
    BY <1>1, LateMoves
  <1>6. CommandInv'
    BY <1>1, <1>2, CommandStep
  <1>7. LateInv'
    BY <1>1, <1>4, <1>5, LateStep
  <1>8. ReceiptInv'
    BY <1>1, <1>4, ReceiptStep
  <1>9. JobInv'
    BY <1>1, <1>2, <1>3, <1>4, <1>8, JobStep
  <1>10. ConfirmedInv'
    BY <1>1, <1>2, <1>4, <1>8, ConfirmedStep
  <1>11. ServedInv'
    BY <1>1, <1>2, <1>4, <1>8, ServedStep
  <1>12. SeenInv'
    BY <1>1, <1>4, <1>5, SeenStep
  <1>13. ItemInv'
    BY <1>1, <1>3, <1>4, <1>5, <1>9, ItemStep
  <1>14. KeptInv'
    BY <1>1, <1>4, KeptStep
  <1>15. QED
    BY <1>2, <1>3, <1>6, <1>7, <1>8, <1>9, <1>10, <1>11, <1>12, <1>13, <1>14 DEF IInv

\* The inductive invariant holds in every state of the synchronisation.
THEOREM Invariant == Spec => []IInv
  BY InitIInv, NextIInv, PTL DEF Spec

\* Every variable stays in its type (useStudio.ts, projectJournal.ts, store.ts).
THEOREM TypesHold == Spec => []TypeOK
  <1>1. IInv => TypeOK
    BY TypeCorrect DEF IInv
  <1>2. QED BY <1>1, Invariant, PTL

\* A command is acknowledged in the journal only if the server has a receipt of it
\* (projectJournal.ts, projectCommands.ts), whatever was lost, late or sent again.
THEOREM ConfirmedCommandsAreTaken == Spec => []ConfirmedIsTaken
  <1>1. IInv => ConfirmedIsTaken
    BY DEF IInv, ConfirmedInv
  <1>2. QED BY <1>1, Invariant, PTL

\* A revision names one document of the server, and every base is one of them: the
\* comparison of revisions (projectCommands.ts, store.ts) is a comparison of documents.
THEOREM RevisionsNamePages == Spec => []RevisionNamesPage
  <1>1. IInv => RevisionNamesPage
    <2>1. SUFFICES ASSUME IInv
                   PROVE  RevisionNamesPage
      OBVIOUS
    <2>2. ServedInv
      BY <2>1 DEF IInv
    <2>3. QED BY <2>2 DEF ServedInv, Past, RevisionNamesPage
  <1>2. QED BY <1>1, Invariant, PTL

\* What the user has typed is a document of the server, on the screen or on the
\* device, unless he has given it up or wrote it under an old revision
\* (useStudio.ts, library.ts): through closings, lost answers and conflicts.
THEOREM TypedPagesAreKept == Spec => []TypedKept
  <1>1. IInv => TypedKept
    <2>1. SUFFICES ASSUME IInv
                   PROVE  TypedKept
      OBVIOUS
    <2>2. KeptFor(Mine) /\ TypeInv /\ EditorInv
      BY <2>1 DEF IInv, KeptInv
    <2>3. \A page \in shown.page : page \in Safe \/ page = Mine.page
      BY <2>2 DEF KeptFor
    <2>4. Mine = localDoc \/ (present # None /\ Mine = present)
      BY <2>2 DEF Mine, EditorInv
    <2>5. QED BY <2>3, <2>4 DEF TypedKept, Safe
  <1>2. QED BY <1>1, Invariant, PTL

\* No document, and no record, of another editor is replaced unless the user of this
\* one has had it before his eyes (projectCommands.ts, store.ts): whenever its
\* requests arrive, and whatever they were made from.
THEOREM NothingUnseenIsOverwritten == Spec => NoBlindOverwrite
  <1>1. ASSUME IInv, [Next]_vars
        PROVE  [/\ others' = others /\ server'.page # server.page => server.page \in shown.page
                /\ items' = items /\ others' = others /\ server'.item # server.item =>
                     \/ server.item \in shown.item \cup drifted
                     \/ receipts' = receipts]_vars
    <2>1. TypeInv /\ EditorInv /\ JobInv /\ CommandInv /\ ServedInv /\ SeenInv /\ ItemInv
      BY <1>1 DEF IInv
    <2>2. QED BY <1>1, <2>1, OverwriteStep
  <1>2. QED BY <1>1, Invariant, PTL DEF Spec, NoBlindOverwrite
=============================================================================
