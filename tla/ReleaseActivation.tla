--------------------------- MODULE ReleaseActivation ---------------------------
(***************************************************************************)
(* Which release of a site serves, and whether the site takes visitors'    *)
(* writes: generation, promotion and reconciliation of releases in         *)
(* server/operationsService.ts, over the leases of server/workQueue.ts.    *)
(*                                                                         *)
(* The coordinators share the studio database (jobs, promotions, the       *)
(* active release, the lease) and the site database of one environment     *)
(* (its own active release and pause flag).  No transaction spans both, so *)
(* every write to either is a step, and a crash, a lapsed lease or another *)
(* coordinator may come between any two.  A lease row that ran out counts  *)
(* for nothing, as every query compares expires_at with the time: a lease  *)
(* is live or gone.  A coordinator has one operation in hand at a time.    *)
(*                                                                         *)
(* The default environment of a project has the id of the project for its  *)
(* data key, any other has a key of its own.  In the default one siteFile  *)
(* falls back to the latest ready export of the whole project, and a null  *)
(* written for the active release goes to a key that nobody reads.         *)
(***************************************************************************)
EXTENDS Naturals

CONSTANTS
  Coordinator,  \* processes of the studio
  Release,      \* ids a generation or a promotion may take
  OwnKey,       \* whether the data key is not the id of the project
  MaxFaults     \* bounds the crashes and the leases lost while in use

ASSUME ReleaseAssumption ==
  /\ {"none", "dead", "elsewhere"} \cap (Coordinator \cup Release) = {}
  /\ OwnKey \in BOOLEAN
  /\ MaxFaults \in Nat

VARIABLES
  \* the studio database
  job,        \* [Release -> status of its generation job and its export]
  older,      \* [Release -> releases whose export was made before its own]
  promotion,  \* [Release -> status in system_release_activations]
  previous,   \* [Release -> previousReleaseId of its manifest]
  serving,    \* the active release
  generation, \* who holds the exclusive lease of generation and promotion;
              \* "dead" if its process has died, "elsewhere" if the work is for
              \* another environment
  \* the site database
  active,     \* activeRelease
  paused,     \* writesPaused
  \* the coordinators
  op,         \* [Coordinator -> its operation]
  mail,       \* coordinators with a before-data-snapshot on its way to them
  foreign,    \* releases being made for other environments of the project
  faults,     \* crashes and leases lost so far
  \* what the properties remember
  served,     \* a request found a ready release serving, at rest
  overrun,    \* an operation outlived its lease, or ran into another's
  torn,       \* a serving release was taken for replaced, as the site ran another
  stacked,    \* a promotion was made on top of one that was not over
  late,       \* a pause came after its generation had ended
  stray,      \* releases that a fallback, or a null nobody reads, has left serving
  borrowed    \* a fallback took a release whose operation was not over

exports == <<job, older>>
studio == <<exports, promotion, previous, serving>>
site == <<active, paused>>
drift == <<stray, borrowed>>
history == <<served, overrun, torn, stacked, late, drift>>
vars == <<studio, generation, site, op, mail, foreign, faults, history>>

Id == Release \cup {"none"}
Idle == [kind |-> "none"]
Generating == {"build", "snapshot", "built", "finished", "activated",
               "failing", "restoring", "ending"}
Freezing == {"freeze", "open", "work", "thaw", "after"}
Promoting == Freezing \cup {"probe", "site", "studio", "export", "record",
                            "undo site", "undo studio", "job"}
Op ==
  {Idle}
  \cup [kind: {"generate"}, release: Release, pc: Generating, old: Id]
  \cup [kind: {"promote", "rollback", "reconcile"}, release: Release,
        pc: Promoting, old: Id, ok: BOOLEAN, attempted: BOOLEAN]

TypeOK ==
  /\ job \in [Release -> {"absent", "building", "ready", "failed"}]
  /\ promotion \in [Release -> {"none", "preparing", "ready", "failed", "unknown"}]
  /\ older \in [Release -> SUBSET Release]
  /\ previous \in [Release -> Id] /\ serving \in Id
  /\ generation \in Coordinator \cup {"none", "dead", "elsewhere"}
  /\ active \in Id /\ paused \in BOOLEAN
  /\ op \in [Coordinator -> Op] /\ mail \subseteq Coordinator
  /\ foreign \subseteq Release /\ stray \subseteq Release
  /\ faults \in 0..MaxFaults
  /\ {served, overrun, torn, stacked, late, borrowed} \subseteq BOOLEAN

Init ==
  /\ job = [r \in Release |-> "absent"]
  /\ promotion = [r \in Release |-> "none"]
  /\ older = [r \in Release |-> {}]
  /\ previous = [r \in Release |-> "none"] /\ serving = "none"
  /\ generation = "none"
  /\ active = "none" /\ paused = FALSE
  /\ op = [c \in Coordinator |-> Idle] /\ mail = {} /\ foreign = {}
  /\ faults = 0
  /\ served = FALSE /\ overrun = FALSE /\ torn = FALSE
  /\ stacked = FALSE /\ late = FALSE
  /\ stray = {} /\ borrowed = FALSE

-----------------------------------------------------------------------------
(* Helpers                                                                 *)

At(c, kind, pc) == op[c].kind = kind /\ op[c].pc = pc
Go(c, pc) == op' = [op EXCEPT ![c].pc = pc]
Leave(c) == op' = [op EXCEPT ![c] = Idle]

\* lease.release() touches the row of its own token only.
Released(c) == IF generation = c THEN "none" ELSE generation

InHand(r) == \E c \in Coordinator : op[c] # Idle /\ op[c].release = r
Calm == \A c \in Coordinator : op[c] = Idle
Unresolved == {r \in Release : promotion[r] \in {"preparing", "unknown"}}

\* A promotion made on top of o is not the only one under way: an earlier one has
\* not been reconciled, or has o still in hand.
Stacks(o) == InHand(o) \/ \E q \in Unresolved : job[q] # "absent"

\* The site runs another release; what the studio has serving is not looked at.
LeftServing(r) == torn \/ (active # r /\ serving = r)

Ready(r) == r # "none" /\ job[r] = "ready"

\* The job and the export of r are made.
Made(r) ==
  /\ job' = [job EXCEPT ![r] = "building"]
  /\ older' = [older EXCEPT ![r] = {q \in Release : job[q] # "absent"}]

\* ORDER BY created_at DESC LIMIT 1, over the ready exports of the project.
Newest ==
  {r \in Release : /\ job[r] = "ready"
                   /\ \A q \in Release : job[q] = "ready" => q = r \/ q \in older[r]}

-----------------------------------------------------------------------------
(* The active release                                                      *)

\* The default environment without a ready active release takes the newest export,
\* whichever environment it was made for and whatever became of its promotion.
FallsBack ==
  /\ ~OwnKey /\ ~Ready(serving)
  /\ \E r \in Newest :
       /\ serving' = r /\ active' = r
       /\ stray' = stray \cup {r}
       /\ borrowed' = (borrowed \/ InHand(r) \/ r \in foreign)

\* siteFile brings the site to the studio's active release, if that is ready.
SiteFile ==
  \/ Ready(serving) /\ active' = serving /\ UNCHANGED <<serving, drift>>
  \/ /\ ~Ready(serving)
     /\ OwnKey \/ \A r \in Release : ~Ready(r)
     /\ UNCHANGED <<serving, active, drift>>
  \/ FallsBack

\* Whose lease is live keeps the pause that siteFile lifts.
StillPaused == paused /\ generation # "none"

\* The release before is put back.  For a null the code has no statement that the
\* default environment would notice.
PutBack(o) ==
  IF OwnKey \/ o # "none"
  THEN serving' = o /\ UNCHANGED drift
  ELSE /\ stray' = stray \cup ({serving} \ {"none"})
       /\ UNCHANGED <<serving, borrowed>>

-----------------------------------------------------------------------------
(* Opening the site database                                               *)

\* Defect: the pause is lifted whether or not a generation holds the lease.
OpenAnyway ==
  /\ SiteFile /\ paused' = FALSE
  /\ UNCHANGED <<exports, promotion, previous, generation, op, mail, foreign, faults>>
  /\ UNCHANGED <<served, overrun, torn, stacked, late>>

\* siteFile, of any request.
Open ==
  /\ SiteFile /\ paused' = StillPaused
  /\ served' = (served \/ (Calm /\ serving' # "none" /\ job[serving'] = "ready"))
  /\ UNCHANGED <<exports, promotion, previous, generation, op, mail, foreign, faults>>
  /\ UNCHANGED <<overrun, torn, stacked, late>>

-----------------------------------------------------------------------------
(* Generation                                                              *)

GenerateStart(c, r) ==
  /\ op[c] = Idle /\ job[r] = "absent" /\ promotion[r] = "none"
  /\ generation = "none" /\ generation' = c
  /\ Made(r)
  /\ op' = [op EXCEPT ![c] = [kind |-> "generate", release |-> r, pc |-> "build",
                              old |-> serving]]
  /\ UNCHANGED <<promotion, previous, serving, site, mail, foreign, faults, history>>

\* The worker, at its snapshot: it pauses the site and says so.
WorkerPauses(c) ==
  /\ At(c, "generate", "build") /\ generation = c /\ c \notin mail
  /\ paused' = TRUE
  /\ mail' = mail \cup {c}
  /\ Go(c, "snapshot")
  /\ UNCHANGED <<studio, generation, active, foreign, faults, history>>

\* The coordinator hears of it and pauses too, whether its run goes on or not.
Lifecycle(c) ==
  /\ c \in mail
  /\ paused' = TRUE
  /\ mail' = mail \ {c}
  /\ IF At(c, "generate", "snapshot")
     THEN Go(c, "built") /\ UNCHANGED late
     ELSE late' = TRUE /\ UNCHANGED op
  /\ UNCHANGED <<studio, generation, active, foreign, faults>>
  /\ UNCHANGED <<served, overrun, torn, stacked, drift>>

\* Defect: a status that no reader of the job knows.
FinishAsDone(c) ==
  /\ At(c, "generate", "built") /\ generation = c
  /\ job' = [job EXCEPT ![op[c].release] = "done"]
  /\ Go(c, "finished")
  /\ UNCHANGED <<older, promotion, previous, serving, generation, site, mail, foreign>>
  /\ UNCHANGED <<faults, history>>

\* The new site is launched and healthy; the lease is checked a last time.
Finish(c) ==
  /\ At(c, "generate", "built") /\ generation = c
  /\ job' = [job EXCEPT ![op[c].release] = "ready"]
  /\ Go(c, "finished")
  /\ UNCHANGED <<older, promotion, previous, serving, generation, site, mail, foreign>>
  /\ UNCHANGED <<faults, history>>

Activate(c) ==
  /\ At(c, "generate", "finished")
  /\ serving' = op[c].release
  /\ Go(c, "activated")
  /\ UNCHANGED <<exports, promotion, previous, generation, site, mail, foreign>>
  /\ UNCHANGED <<faults, history>>

Switch(c) ==
  /\ At(c, "generate", "activated")
  /\ active' = op[c].release /\ paused' = FALSE
  /\ Leave(c) /\ generation' = Released(c)
  /\ UNCHANGED <<studio, mail, foreign, faults, history>>

\* It is cancelled, runs out of time, has lost its lease, or a statement throws.
GenerateFails(c) ==
  /\ op[c].kind = "generate"
  /\ op[c].pc \notin {"failing", "restoring", "ending"}
  /\ Go(c, "failing")
  /\ UNCHANGED <<studio, generation, site, mail, foreign, faults, history>>

\* Defect: the catch block leaves the pause in place.
RestorePaused(c) ==
  /\ At(c, "generate", "failing")
  /\ IF generation = c
     THEN /\ active' = IF op[c].old # "none" THEN op[c].old ELSE active
          /\ Go(c, "restoring")
     ELSE Go(c, "ending") /\ UNCHANGED active
  /\ UNCHANGED <<studio, generation, paused, mail, foreign, faults, history>>

\* The catch block on the site database, if the lease is still there.
RestoreSite(c) ==
  /\ At(c, "generate", "failing")
  /\ IF generation = c
     THEN /\ active' = IF op[c].old # "none" THEN op[c].old ELSE active
          /\ paused' = FALSE
          /\ Go(c, "restoring")
     ELSE Go(c, "ending") /\ UNCHANGED site
  /\ UNCHANGED <<studio, generation, mail, foreign, faults, history>>

\* Defect: the studio keeps the release that has failed.
RestoreNothing(c) ==
  /\ At(c, "generate", "restoring") \/ At(c, "generate", "ending")
  /\ job' = [job EXCEPT ![op[c].release] = "failed"]
  /\ Leave(c) /\ generation' = Released(c)
  /\ UNCHANGED <<older, promotion, previous, serving, site, mail, foreign>>
  /\ UNCHANGED <<faults, history>>

\* The catch block on the studio database.
RestoreStudio(c) ==
  LET o == op[c] IN
  /\ At(c, "generate", "restoring") \/ At(c, "generate", "ending")
  /\ serving' = IF o.pc = "restoring" /\ o.old # "none" THEN o.old ELSE serving
  /\ job' = [job EXCEPT ![o.release] = "failed"]
  /\ Leave(c) /\ generation' = Released(c)
  /\ UNCHANGED <<older, promotion, previous, site, mail, foreign, faults, history>>

-----------------------------------------------------------------------------
(* withScopeFreeze, for promotions, their rollback and reconciliation      *)

Freezes(c, pc) == op[c].kind \in {"promote", "rollback", "reconcile"} /\ op[c].pc = pc

FreezeStart(c) ==
  /\ Freezes(c, "freeze") /\ generation = "none"
  /\ generation' = c
  /\ op' = [op EXCEPT ![c].pc = "open", ![c].ok = FALSE]
  /\ UNCHANGED <<studio, site, mail, foreign, faults, history>>

\* The lease is taken, a site has the data open, or a statement throws.
FreezeFails(c) ==
  /\ Freezes(c, "freeze") \/ Freezes(c, "open")
  /\ generation' = Released(c)
  /\ op' = [op EXCEPT ![c].pc = "after", ![c].ok = FALSE]
  /\ UNCHANGED <<studio, site, mail, foreign, faults, history>>

\* The database is opened and paused, then the lease is checked.
FreezeOpen(c) ==
  /\ Freezes(c, "open")
  /\ SiteFile /\ paused' = TRUE
  /\ Go(c, IF generation = c THEN "work" ELSE "thaw")
  /\ UNCHANGED <<exports, promotion, previous, generation, mail, foreign, faults>>
  /\ UNCHANGED <<served, overrun, torn, stacked, late>>

\* The checks after the work, and the finally block: without its lease it leaves
\* the site paused.
Thaw(c) ==
  /\ Freezes(c, "thaw")
  /\ paused' = (paused /\ generation # c)
  /\ generation' = Released(c)
  /\ op' = [op EXCEPT ![c].pc = "after", ![c].ok = @ /\ generation = c]
  /\ UNCHANGED <<studio, active, mail, foreign, faults, history>>

-----------------------------------------------------------------------------
(* Promotion of a release of another environment                           *)

\* The record is written before the lease is asked for.
PromoteStart(c, r) ==
  /\ op[c] = Idle /\ job[r] = "absent" /\ promotion[r] = "none"
  /\ promotion' = [promotion EXCEPT ![r] = "preparing"]
  /\ previous' = [previous EXCEPT ![r] = serving]
  /\ op' = [op EXCEPT ![c] = [kind |-> "promote", release |-> r, pc |-> "freeze",
                              old |-> serving, ok |-> FALSE, attempted |-> FALSE]]
  /\ UNCHANGED <<exports, serving, generation, site, mail, foreign, faults, history>>

\* The job is made.
PromotePrepare(c) ==
  LET r == op[c].release
      o == IF active # "none" THEN active ELSE serving IN
  /\ At(c, "promote", "work")
  /\ previous' = [previous EXCEPT ![r] = o]
  /\ Made(r)
  /\ op' = [op EXCEPT ![c].pc = "probe", ![c].old = o]
  /\ stacked' = (stacked \/ Stacks(o))
  /\ UNCHANGED <<promotion, serving, generation, site, mail, foreign, faults>>
  /\ UNCHANGED <<served, overrun, torn, late, drift>>

\* The release is probed, for which the database is opened again.
PromoteProbe(c) ==
  /\ At(c, "promote", "probe")
  /\ SiteFile /\ paused' = StillPaused
  /\ Go(c, "site")
  /\ UNCHANGED <<exports, promotion, previous, generation, mail, foreign, faults>>
  /\ UNCHANGED <<served, overrun, torn, stacked, late>>

PromoteSite(c) ==
  /\ At(c, "promote", "site")
  /\ active' = op[c].release
  /\ op' = [op EXCEPT ![c].pc = "studio", ![c].attempted = TRUE]
  /\ UNCHANGED <<studio, generation, paused, mail, foreign, faults, history>>

PromoteStudio(c) ==
  /\ At(c, "promote", "studio")
  /\ serving' = op[c].release
  /\ Go(c, "export")
  /\ UNCHANGED <<exports, promotion, previous, generation, site, mail, foreign>>
  /\ UNCHANGED <<faults, history>>

PromoteExport(c) ==
  /\ At(c, "promote", "export")
  /\ job' = [job EXCEPT ![op[c].release] = "ready"]
  /\ Go(c, "record")
  /\ UNCHANGED <<older, promotion, previous, serving, generation, site, mail, foreign>>
  /\ UNCHANGED <<faults, history>>

PromoteRecord(c) ==
  /\ At(c, "promote", "record")
  /\ promotion' = [promotion EXCEPT ![op[c].release] = "ready"]
  /\ op' = [op EXCEPT ![c].pc = "thaw", ![c].ok = TRUE]
  /\ UNCHANGED <<exports, previous, serving, generation, site, mail, foreign>>
  /\ UNCHANGED <<faults, history>>

\* A check or a statement throws; what was activated is to be taken back.
PromoteFails(c) ==
  /\ op[c].kind = "promote"
  /\ \/ op[c].pc \in {"work", "probe", "site"} /\ Go(c, "thaw")
     \/ op[c].pc \in {"studio", "export", "record"} /\ Go(c, "undo site")
  /\ UNCHANGED <<studio, generation, site, mail, foreign, faults, history>>

UndoSite(c) ==
  /\ Freezes(c, "undo site")
  /\ active' = op[c].old
  /\ Go(c, "undo studio")
  /\ UNCHANGED <<studio, generation, paused, mail, foreign, faults, history>>

UndoStudio(c) ==
  /\ Freezes(c, "undo studio")
  /\ PutBack(op[c].old)
  /\ op' = [op EXCEPT ![c].pc = "thaw", ![c].ok = op[c].kind = "rollback"]
  /\ UNCHANGED <<exports, promotion, previous, generation, site, mail, foreign, faults>>
  /\ UNCHANGED <<served, overrun, torn, stacked, late>>

\* A statement of it throws.
UndoFails(c) ==
  /\ Freezes(c, "undo site") \/ Freezes(c, "undo studio")
  /\ Go(c, "thaw")
  /\ UNCHANGED <<studio, generation, site, mail, foreign, faults, history>>

\* The promoted site is launched.
PromoteDone(c) ==
  /\ At(c, "promote", "after") /\ op[c].ok
  /\ SiteFile /\ paused' = StillPaused
  /\ Leave(c)
  /\ UNCHANGED <<exports, promotion, previous, generation, mail, foreign, faults>>
  /\ UNCHANGED <<served, overrun, torn, stacked, late>>

\* The catch block: a release that got as far as the studio is rolled back first.
PromoteCaught(c) ==
  LET o == op[c] IN
  /\ At(c, "promote", "after")
  /\ IF serving = o.release \/ (o.attempted /\ serving = o.old)
     THEN /\ op' = [op EXCEPT ![c].kind = "rollback", ![c].pc = "freeze"]
          /\ UNCHANGED <<promotion, overrun>>
     ELSE /\ promotion' = [promotion EXCEPT ![o.release] = "failed"]
          /\ Go(c, "job")
          /\ overrun' = (overrun \/ generation \in Coordinator)
  /\ UNCHANGED <<exports, previous, serving, generation, site, mail, foreign, faults>>
  /\ UNCHANGED <<served, torn, stacked, late, drift>>

\* The end of the catch block: after the record the job fails.
PromoteFailed(c) ==
  LET r == op[c].release IN
  /\ At(c, "promote", "job") \/ At(c, "rollback", "job")
  /\ job' = [job EXCEPT ![r] = IF @ = "absent" THEN @ ELSE "failed"]
  /\ Leave(c)
  /\ UNCHANGED <<older, promotion, previous, serving, generation, site, mail, foreign>>
  /\ UNCHANGED <<faults, history>>

\* Nothing is taken back once the site or the studio runs another release.
RollbackWork(c) ==
  LET o == op[c] IN
  /\ At(c, "rollback", "work")
  /\ IF active = o.release /\ serving \in {o.release, o.old}
     THEN Go(c, "undo site") /\ UNCHANGED torn
     ELSE /\ op' = [op EXCEPT ![c].pc = "thaw", ![c].ok = TRUE]
          /\ torn' = LeftServing(o.release)
  /\ UNCHANGED <<studio, generation, site, mail, foreign, faults>>
  /\ UNCHANGED <<served, overrun, stacked, late, drift>>

RollbackDone(c) ==
  LET r == op[c].release IN
  /\ At(c, "rollback", "after")
  /\ promotion' = [promotion EXCEPT ![r] = IF op[c].ok THEN "failed" ELSE "unknown"]
  /\ IF op[c].ok THEN Go(c, "job") ELSE Leave(c)
  /\ UNCHANGED <<exports, previous, serving, generation, site, mail, foreign, faults>>
  /\ UNCHANGED history

-----------------------------------------------------------------------------
(* Recovery and reconciliation                                             *)

\* recoverInterrupted, every five seconds.
RecoverJob(r) ==
  /\ generation = "none" /\ job[r] = "building"
  /\ job' = [job EXCEPT ![r] = "failed"]
  /\ UNCHANGED <<older, promotion, previous, serving, generation, site, op, mail>>
  /\ UNCHANGED <<foreign, faults, history>>

\* recoverPromotions, with it.
RecoverPromotion(r) ==
  /\ generation = "none" /\ promotion[r] = "preparing"
  /\ promotion' = [promotion EXCEPT ![r] = "unknown"]
  /\ UNCHANGED <<exports, previous, serving, generation, site, op, mail, foreign>>
  /\ UNCHANGED <<faults, history>>

ReconcileStart(c, r) ==
  /\ op[c] = Idle /\ promotion[r] = "unknown"
  /\ op' = [op EXCEPT ![c] = [kind |-> "reconcile", release |-> r, pc |-> "freeze",
                              old |-> "none", ok |-> FALSE, attempted |-> FALSE]]
  /\ overrun' = (overrun \/ InHand(r))
  /\ UNCHANGED <<studio, generation, site, mail, foreign, faults, served>>
  /\ UNCHANGED <<torn, stacked, late, drift>>

\* Defect: an active release is taken for complete, whatever became of its export.
ReconcileUnread(c) ==
  LET r == op[c].release IN
  /\ At(c, "reconcile", "work")
  /\ torn' = LeftServing(r)
  /\ IF active # r THEN Go(c, "record")
     ELSE op' = [op EXCEPT ![c].pc = "studio", ![c].old = r]
  /\ UNCHANGED <<studio, generation, site, mail, foreign, faults>>
  /\ UNCHANGED <<served, overrun, stacked, late, drift>>

\* An active release stays if it is ready, and gives way to the one before if not.
ReconcileSite(c) ==
  LET r == op[c].release
      p == previous[r]
      back == IF p # "none" /\ job[p] = "ready" THEN p ELSE "none" IN
  /\ At(c, "reconcile", "work")
  /\ torn' = LeftServing(r)
  /\ IF active # r THEN Go(c, "record") /\ UNCHANGED active
     ELSE /\ active' = IF job[r] = "ready" THEN r ELSE back
          /\ op' = [op EXCEPT ![c].pc = "studio", ![c].old = active']
  /\ UNCHANGED <<studio, generation, paused, mail, foreign, faults>>
  /\ UNCHANGED <<served, overrun, stacked, late, drift>>

ReconcileStudio(c) ==
  /\ At(c, "reconcile", "studio")
  /\ PutBack(op[c].old)
  /\ Go(c, "record")
  /\ UNCHANGED <<exports, promotion, previous, generation, site, mail, foreign, faults>>
  /\ UNCHANGED <<served, overrun, torn, stacked, late>>

ReconcileRecord(c) ==
  LET r == op[c].release IN
  /\ At(c, "reconcile", "record")
  /\ promotion' = [promotion EXCEPT ![r] = IF op[c].old = r THEN "ready" ELSE "failed"]
  /\ op' = [op EXCEPT ![c].pc = "thaw", ![c].ok = TRUE]
  /\ UNCHANGED <<exports, previous, serving, generation, site, mail, foreign>>
  /\ UNCHANGED <<faults, history>>

\* The work of a rollback or of a reconciliation throws.
WorkFails(c) ==
  /\ \/ At(c, "rollback", "work")
     \/ op[c].kind = "reconcile" /\ op[c].pc \in {"work", "studio", "record"}
  /\ Go(c, "thaw")
  /\ UNCHANGED <<studio, generation, site, mail, foreign, faults, history>>

ReconcileDone(c) ==
  /\ At(c, "reconcile", "after")
  /\ Leave(c)
  /\ UNCHANGED <<studio, generation, site, mail, foreign, faults, history>>

-----------------------------------------------------------------------------
(* Generation and promotion for another environment of the project: they take *)
(* the same lease, and make, fail or leave an export of the project.          *)

ElsewhereStart(r) ==
  /\ job[r] = "absent" /\ promotion[r] = "none"
  /\ generation = "none" /\ generation' = "elsewhere"
  /\ Made(r)
  /\ foreign' = foreign \cup {r}
  /\ UNCHANGED <<promotion, previous, serving, site, op, mail, faults, history>>

ElsewhereExport(r) ==
  /\ r \in foreign /\ job[r] = "building"
  /\ job' = [job EXCEPT ![r] = "ready"]
  /\ UNCHANGED <<older, promotion, previous, serving, generation, site, op, mail>>
  /\ UNCHANGED <<foreign, faults, history>>

\* Its lease is released, or runs out.
ElsewhereReleases ==
  /\ generation = "elsewhere" /\ generation' = "none"
  /\ UNCHANGED <<studio, site, op, mail, foreign, faults, history>>

\* It is over, or its process has died.
ElsewhereEnds(r) ==
  /\ r \in foreign /\ foreign' = foreign \ {r}
  /\ UNCHANGED <<studio, generation, site, op, mail, faults, history>>

ElsewhereFails(r) ==
  /\ r \in foreign /\ foreign' = foreign \ {r}
  /\ job' = [job EXCEPT ![r] = "failed"]
  /\ UNCHANGED <<older, promotion, previous, serving, generation, site, op, mail>>
  /\ UNCHANGED <<faults, history>>

-----------------------------------------------------------------------------
(* Faults                                                                  *)

\* The lease of c runs out unrenewed.
Lapse(c) ==
  /\ generation = c /\ generation' = "none"
  /\ faults < MaxFaults /\ faults' = faults + 1 /\ overrun' = TRUE
  /\ UNCHANGED <<studio, site, op, mail, foreign, served, torn, stacked, late>>
  /\ UNCHANGED drift

\* The process dies; its lease stays until it runs out.
Crash(c) ==
  /\ op[c] # Idle /\ faults < MaxFaults
  /\ Leave(c) /\ mail' = mail \ {c}
  /\ generation' = IF generation = c THEN "dead" ELSE generation
  /\ faults' = faults + 1
  /\ UNCHANGED <<studio, site, foreign, history>>

Expire ==
  /\ generation = "dead" /\ generation' = "none"
  /\ UNCHANGED <<studio, site, op, mail, foreign, faults, history>>

-----------------------------------------------------------------------------

Generate(c) ==
  \/ \E r \in Release : GenerateStart(c, r)
  \/ WorkerPauses(c) \/ Lifecycle(c) \/ Finish(c) \/ Activate(c) \/ Switch(c)
  \/ GenerateFails(c) \/ RestoreSite(c) \/ RestoreStudio(c)

Freeze(c) ==
  FreezeStart(c) \/ FreezeFails(c) \/ FreezeOpen(c) \/ Thaw(c)

Promote(c) ==
  \/ \E r \in Release : PromoteStart(c, r)
  \/ PromotePrepare(c) \/ PromoteProbe(c) \/ PromoteSite(c) \/ PromoteStudio(c)
  \/ PromoteExport(c) \/ PromoteRecord(c) \/ PromoteFails(c) \/ PromoteDone(c)
  \/ PromoteCaught(c) \/ PromoteFailed(c)
  \/ UndoSite(c) \/ UndoStudio(c) \/ UndoFails(c)
  \/ RollbackWork(c) \/ RollbackDone(c)

Reconcile(c) ==
  \/ \E r \in Release : ReconcileStart(c, r)
  \/ ReconcileSite(c) \/ ReconcileStudio(c) \/ ReconcileRecord(c)
  \/ WorkFails(c) \/ ReconcileDone(c)

Elsewhere ==
  \/ ElsewhereReleases
  \/ \E r \in Release :
       ElsewhereStart(r) \/ ElsewhereExport(r) \/ ElsewhereEnds(r) \/ ElsewhereFails(r)

Next ==
  \/ Open \/ Expire \/ Elsewhere
  \/ \E r \in Release : RecoverJob(r) \/ RecoverPromotion(r)
  \/ \E c \in Coordinator :
       \/ Generate(c) \/ Freeze(c) \/ Promote(c) \/ Reconcile(c)
       \/ Lapse(c) \/ Crash(c)

Spec == Init /\ [][Next]_vars

-----------------------------------------------------------------------------
(* Properties                                                              *)

\* A promotion was made on top of r, which it keeps as the release to go back to.
TakenUp(r) == \E q \in Release : previous[q] = r

\* The record of a promotion that nobody has in hand is true: "ready" has a complete
\* export, and "failed" does not serve, unless a later promotion gave way to it.
\* Excepted are runs in which an operation outlived its lease or ran into another's,
\* and in which ReleaseRetained fails; and in the default environment a release that
\* siteFile fell back to, as it takes the newest ready export without a look at its
\* promotion, and one that a null was to replace.
PromotionsAreTrue ==
  ~overrun /\ ~torn =>
    \A r \in Release : ~InHand(r) =>
      /\ promotion[r] = "ready" => job[r] = "ready"
      /\ promotion[r] = "failed" =>
           serving # r \/ TakenUp(r) \/ (~OwnKey /\ r \in stray)

\* A failed promotion keeps the release before it: "Promotion failed; existing data
\* and release retained".  The code looks at the site's active release only and
\* leaves the studio's, with its failed job, in place when they differ.
ReleaseRetained ==
  ~overrun =>
    \A r \in Release :
      promotion[r] = "failed" /\ ~InHand(r) => serving # r \/ TakenUp(r)

\* Once a ready release has served, a ready release serves whenever no operation is
\* in hand and no promotion is left to reconcile: generations that fail or crash at
\* any statement, rollbacks and reconciliations keep or restore one, and so do the
\* fallbacks of the default environment, except where one took an export that was
\* still in an operation's hands, here or in another environment, and failed later.
LastGoodServes ==
  served /\ Calm /\ Unresolved = {} /\ ~overrun /\ ~torn /\ ~stacked =>
    Ready(serving) \/ (~OwnKey /\ borrowed)

\* From its snapshot to its end a generation with a live lease keeps the site
\* paused, whatever requests open the database meanwhile.
SnapshotFrozen ==
  ~overrun =>
    \A c \in Coordinator :
      op[c].kind = "generate" /\ generation = c
        /\ op[c].pc \in {"snapshot", "built", "finished", "activated"} => paused

\* The pause ends with the operation that made it, unless the coordinator crashed or
\* lost its lease, where the next opening lifts it, or heard of the snapshot after
\* its run had failed, where it pauses the site again and nothing lifts it before
\* the next opening.
WritesResume ==
  Calm /\ faults = 0 /\ mail = {} /\ ~late => ~paused
=============================================================================
