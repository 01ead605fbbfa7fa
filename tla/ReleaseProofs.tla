---------------------------- MODULE ReleaseProofs ----------------------------
(***************************************************************************)
(* The invariants of ReleaseActivation, for any number of coordinators,    *)
(* releases, crashes and lost leases.                                      *)
(*                                                                         *)
(* An action touches one operation and a few of the records, an invariant  *)
(* looks at a few of both.  For each part of the state a "move" says what  *)
(* a step of an operation may do to it: one lemma shows it of every        *)
(* action, and the invariants are kept by the moves, whatever the action.  *)
(***************************************************************************)
EXTENDS ReleaseActivation, TLAPS

-----------------------------------------------------------------------------
(* Operations, field by field                                              *)

\* An operation of each kind.
GenerateOp == [kind: {"generate"}, release: Release, pc: Generating, old: Id]
Freezer == {"promote", "rollback", "reconcile"}
FreezeOp == [kind: Freezer, release: Release, pc: Promoting, old: Id,
                ok: BOOLEAN, attempted: BOOLEAN]

\* What a step leaves of the operations: c has this one in hand, the others theirs.
Others(c) == op' \in [Coordinator -> Op] /\ \A d \in Coordinator \ {c} : op'[d] = op[d]
Leaves(c) == op'[c] = Idle /\ op'[c].kind = "none" /\ Others(c)
Has(c, kind, r, pc, old) ==
  /\ op'[c] # Idle /\ op'[c].kind = kind /\ op'[c].release = r /\ op'[c].pc = pc
  /\ op'[c].old = old /\ Others(c)
With(c, ok, attempted) == op'[c].ok = ok /\ op'[c].attempted = attempted

\* The kind of an operation tells its fields.
LEMMA Kinds ==
  ASSUME TypeOK, NEW c \in Coordinator
  PROVE  /\ op[c] \in Op
         /\ op[c].kind \in {"none", "generate"} \cup Freezer
         /\ op[c].kind = "none" <=> op[c] = Idle
         /\ op[c].kind = "generate" =>
              /\ op[c] \in GenerateOp
              /\ op[c].release \in Release /\ op[c].pc \in Generating /\ op[c].old \in Id
         /\ op[c].kind \in Freezer =>
              /\ op[c] \in FreezeOp
              /\ op[c].release \in Release /\ op[c].pc \in Promoting /\ op[c].old \in Id
              /\ op[c].ok \in BOOLEAN /\ op[c].attempted \in BOOLEAN
  <1>1. op[c] \in Op
    BY DEF TypeOK
  <1>2. CASE op[c] = Idle
    BY <1>1, <1>2 DEF Idle, Freezer
  <1>3. CASE op[c] \in GenerateOp
    BY <1>1, <1>3 DEF GenerateOp, Freezer, Idle
  <1>4. CASE op[c] \in FreezeOp
    BY <1>1, <1>4 DEF FreezeOp, Freezer, Idle
  <1>5. QED BY <1>1, <1>2, <1>3, <1>4 DEF Op, GenerateOp, FreezeOp, Freezer

\* A coordinator puts one operation in the place of another.
LEMMA Puts ==
  ASSUME TypeOK, NEW c \in Coordinator, NEW o \in Op, op' = [op EXCEPT ![c] = o]
  PROVE  op'[c] = o /\ Others(c)
  <1>1. op \in [Coordinator -> Op]
    BY DEF TypeOK
  <1>2. QED BY <1>1 DEF Others

\* A generation begins.
LEMMA StartsGeneration ==
  ASSUME TypeOK, NEW c \in Coordinator, NEW o \in GenerateOp, op' = [op EXCEPT ![c] = o]
  PROVE  Has(c, o.kind, o.release, o.pc, o.old)
  <1>1. o \in Op /\ o # Idle
    BY DEF Op, GenerateOp, Idle
  <1>2. QED BY <1>1, Puts DEF Has

\* An operation under a freeze begins.
LEMMA StartsFreezing ==
  ASSUME TypeOK, NEW c \in Coordinator, NEW o \in FreezeOp, op' = [op EXCEPT ![c] = o]
  PROVE  Has(c, o.kind, o.release, o.pc, o.old) /\ With(c, o.ok, o.attempted)
  <1>1. o \in Op /\ o # Idle
    BY DEF Op, FreezeOp, Freezer, Idle
  <1>2. QED BY <1>1, Puts DEF Has, With

\* An operation ends.
LEMMA LeavesIdle ==
  ASSUME TypeOK, NEW c \in Coordinator, Leave(c)
  PROVE  Leaves(c)
  <1>1. Idle \in Op /\ Idle.kind = "none"
    BY DEF Op, Idle
  <1>2. QED BY <1>1, Puts DEF Leave, Leaves

\* A generation goes to its next statement.
LEMMA GenerateGoes ==
  ASSUME TypeOK, NEW c \in Coordinator, op[c].kind = "generate",
         NEW pc \in Generating, Go(c, pc)
  PROVE  Has(c, "generate", op[c].release, pc, op[c].old)
  <1> DEFINE o == [op[c] EXCEPT !.pc = pc]
  <1>1. op[c] \in GenerateOp
    BY Kinds
  <1>2. /\ o \in GenerateOp
        /\ o.kind = "generate" /\ o.pc = pc /\ o.release = op[c].release /\ o.old = op[c].old
    BY <1>1 DEF GenerateOp
  <1>3. op' = [op EXCEPT ![c] = o]
    BY DEF Go
  <1> HIDE DEF o
  <1>4. QED BY <1>2, <1>3, StartsGeneration

\* An operation under a freeze goes to its next statement,
LEMMA FreezeGoes ==
  ASSUME TypeOK, NEW c \in Coordinator, op[c].kind \in Freezer, NEW pc \in Promoting,
         Go(c, pc)
  PROVE  /\ Has(c, op[c].kind, op[c].release, pc, op[c].old)
         /\ With(c, op[c].ok, op[c].attempted)
  <1> DEFINE o == [op[c] EXCEPT !.pc = pc]
  <1>1. op[c] \in FreezeOp
    BY Kinds
  <1>2. /\ o \in FreezeOp
        /\ o.kind = op[c].kind /\ o.pc = pc /\ o.release = op[c].release
        /\ o.old = op[c].old /\ o.ok = op[c].ok /\ o.attempted = op[c].attempted
    BY <1>1 DEF FreezeOp
  <1>3. op' = [op EXCEPT ![c] = o]
    BY DEF Go
  <1> HIDE DEF o
  <1>4. QED BY <1>2, <1>3, StartsFreezing

\* with a new outcome,
LEMMA FreezeTurns ==
  ASSUME TypeOK, NEW c \in Coordinator, op[c].kind \in Freezer,
         NEW pc \in Promoting, NEW ok \in BOOLEAN,
         op' = [op EXCEPT ![c].pc = pc, ![c].ok = ok]
  PROVE  Has(c, op[c].kind, op[c].release, pc, op[c].old) /\ With(c, ok, op[c].attempted)
  <1> DEFINE o == [op[c] EXCEPT !.pc = pc, !.ok = ok]
  <1>1. op[c] \in FreezeOp
    BY Kinds
  <1>2. o \in FreezeOp
    BY <1>1 DEF FreezeOp, Freezer
  <1>3. <<op[c].kind, op[c].release, pc, op[c].old>> = <<o.kind, o.release, o.pc, o.old>>
    BY <1>1 DEF FreezeOp
  <1>4. <<ok, op[c].attempted>> = <<o.ok, o.attempted>>
    BY <1>1 DEF FreezeOp
  <1>5. op' = [op EXCEPT ![c] = o]
    BY DEF TypeOK
  <1> HIDE DEF o
  <1>6. QED BY <1>2, <1>3, <1>4, <1>5, StartsFreezing

\* with another release to put back,
LEMMA FreezeKeepsOld ==
  ASSUME TypeOK, NEW c \in Coordinator, op[c].kind \in Freezer,
         NEW pc \in Promoting, NEW old \in Id,
         op' = [op EXCEPT ![c].pc = pc, ![c].old = old]
  PROVE  Has(c, op[c].kind, op[c].release, pc, old) /\ With(c, op[c].ok, op[c].attempted)
  <1> DEFINE o == [op[c] EXCEPT !.pc = pc, !.old = old]
  <1>1. op[c] \in FreezeOp
    BY Kinds
  <1>2. o \in FreezeOp
    BY <1>1 DEF FreezeOp, Freezer
  <1>3. <<op[c].kind, op[c].release, pc, old>> = <<o.kind, o.release, o.pc, o.old>>
    BY <1>1 DEF FreezeOp
  <1>4. <<op[c].ok, op[c].attempted>> = <<o.ok, o.attempted>>
    BY <1>1 DEF FreezeOp
  <1>5. op' = [op EXCEPT ![c] = o]
    BY DEF TypeOK
  <1> HIDE DEF o
  <1>6. QED BY <1>2, <1>3, <1>4, <1>5, StartsFreezing

\* with an attempt on its record,
LEMMA FreezeAttempts ==
  ASSUME TypeOK, NEW c \in Coordinator, op[c].kind \in Freezer,
         NEW pc \in Promoting,
         op' = [op EXCEPT ![c].pc = pc, ![c].attempted = TRUE]
  PROVE  Has(c, op[c].kind, op[c].release, pc, op[c].old) /\ With(c, op[c].ok, TRUE)
  <1> DEFINE o == [op[c] EXCEPT !.pc = pc, !.attempted = TRUE]
  <1>1. op[c] \in FreezeOp
    BY Kinds
  <1>2. o \in FreezeOp
    BY <1>1 DEF FreezeOp, Freezer
  <1>3. <<op[c].kind, op[c].release, pc, op[c].old>> = <<o.kind, o.release, o.pc, o.old>>
    BY <1>1 DEF FreezeOp
  <1>4. <<op[c].ok, TRUE>> = <<o.ok, o.attempted>>
    BY <1>1 DEF FreezeOp
  <1>5. op' = [op EXCEPT ![c] = o]
    BY DEF TypeOK
  <1> HIDE DEF o
  <1>6. QED BY <1>2, <1>3, <1>4, <1>5, StartsFreezing

\* or as an operation of another kind.
LEMMA FreezeRenames ==
  ASSUME TypeOK, NEW c \in Coordinator, op[c].kind \in Freezer,
         NEW kind \in Freezer, NEW pc \in Promoting,
         op' = [op EXCEPT ![c].kind = kind, ![c].pc = pc]
  PROVE  Has(c, kind, op[c].release, pc, op[c].old) /\ With(c, op[c].ok, op[c].attempted)
  <1> DEFINE o == [op[c] EXCEPT !.kind = kind, !.pc = pc]
  <1>1. op[c] \in FreezeOp
    BY Kinds
  <1>2. o \in FreezeOp
    BY <1>1 DEF FreezeOp, Freezer
  <1>3. <<kind, op[c].release, pc, op[c].old>> = <<o.kind, o.release, o.pc, o.old>>
    BY <1>1 DEF FreezeOp
  <1>4. <<op[c].ok, op[c].attempted>> = <<o.ok, o.attempted>>
    BY <1>1 DEF FreezeOp
  <1>5. op' = [op EXCEPT ![c] = o]
    BY DEF TypeOK
  <1> HIDE DEF o
  <1>6. QED BY <1>2, <1>3, <1>4, <1>5, StartsFreezing

\* What the flags and the count of faults are.
LEMMA Flags ==
  /\ TypeOK => /\ {paused, served, overrun, torn, stacked, late, borrowed} \subseteq BOOLEAN
               /\ faults \in Nat
  /\ TypeOK' => /\ {paused', served', overrun', torn', stacked', late', borrowed'}
                     \subseteq BOOLEAN
                /\ faults' \in Nat
  BY ReleaseAssumption DEF TypeOK

\* What the records are made of.
LEMMA Tables ==
  /\ TypeOK => /\ job \in [Release -> {"absent", "building", "ready", "failed"}]
               /\ promotion \in [Release -> {"none", "preparing", "ready", "failed", "unknown"}]
               /\ previous \in [Release -> Id] /\ serving \in Id /\ active \in Id
               /\ older \in [Release -> SUBSET Release]
  /\ TypeOK' => /\ job' \in [Release -> {"absent", "building", "ready", "failed"}]
                /\ promotion' \in [Release -> {"none", "preparing", "ready", "failed", "unknown"}]
                /\ previous' \in [Release -> Id] /\ serving' \in Id /\ active' \in Id
                /\ older' \in [Release -> SUBSET Release]
  BY DEF TypeOK

-----------------------------------------------------------------------------
(* The active release                                                      *)

\* What the site runs after an opening that leaves the studio alone.
Healed == IF Ready(serving) THEN serving ELSE active

\* An opening that falls back.
Falls ==
  /\ ~OwnKey /\ ~Ready(serving)
  /\ serving' \in Release /\ job[serving'] = "ready" /\ active' = serving'
  /\ stray' = stray \cup {serving'}
  /\ borrowed' = (borrowed \/ InHand(serving') \/ serving' \in foreign)

\* An opening does the one or the other.
Opens == (active' = Healed /\ UNCHANGED <<serving, stray, borrowed>>) \/ Falls

\* A null is put back that nobody reads.
Unread(o) ==
  /\ ~OwnKey /\ o = "none" /\ serving' = serving
  /\ stray' = stray \cup ({serving} \ {"none"}) /\ borrowed' = borrowed

\* What siteFile makes of the active release.
LEMMA Opening ==
  ASSUME TypeOK, SiteFile
  PROVE  /\ Opens
         /\ serving' \in Id /\ active' \in Id /\ stray' \subseteq Release /\ borrowed' \in BOOLEAN
  <1>1. CASE FallsBack
    <2>1. PICK r \in Release :
            /\ job[r] = "ready" /\ serving' = r /\ active' = r /\ stray' = stray \cup {r}
            /\ borrowed' = (borrowed \/ InHand(r) \/ r \in foreign)
      BY <1>1 DEF FallsBack, Newest
    <2>2. QED BY <1>1, <2>1 DEF FallsBack, Opens, Falls, TypeOK, Id
  <1>2. CASE ~FallsBack
    BY <1>2 DEF SiteFile, Opens, Healed, TypeOK, drift
  <1>3. QED BY <1>1, <1>2

\* What it makes of it to put a release back.
LEMMA PuttingBack ==
  ASSUME TypeOK, NEW o \in Id, PutBack(o)
  PROVE  /\ (serving' = o /\ UNCHANGED <<stray, borrowed>>) \/ Unread(o)
         /\ serving' \in Id /\ stray' \subseteq Release /\ borrowed' \in BOOLEAN
  BY DEF PutBack, Unread, TypeOK, Id, drift

-----------------------------------------------------------------------------
(* Types: each action, and the operation it leaves its coordinator with    *)

LEMMA GenerateStartStep ==
  ASSUME TypeOK, NEW c \in Coordinator, NEW r \in Release, GenerateStart(c, r)
  PROVE  TypeOK' /\ Has(c, "generate", r, "build", serving)
  <1>1. [kind |-> "generate", release |-> r, pc |-> "build", old |-> serving] \in GenerateOp
    BY DEF GenerateOp, Generating, TypeOK
  <1>2. Has(c, "generate", r, "build", serving)
    BY <1>1, StartsGeneration DEF GenerateStart
  <1>3. QED BY <1>1, <1>2, ReleaseAssumption
              DEF GenerateStart, Made, Has, TypeOK, Others, studio, exports, site,
               history, drift, Id

LEMMA WorkerPausesStep ==
  ASSUME TypeOK, NEW c \in Coordinator, WorkerPauses(c)
  PROVE  TypeOK' /\ Has(c, "generate", op[c].release, "snapshot", op[c].old)
  <1>1. op[c].kind = "generate" /\ Go(c, "snapshot") /\ "snapshot" \in Generating
    BY DEF WorkerPauses, At, Generating
  <1>2. Has(c, "generate", op[c].release, "snapshot", op[c].old)
    BY <1>1, GenerateGoes
  <1>3. op[c].release \in Release
    BY <1>1, Kinds
  <1>4. QED BY <1>1, <1>2, <1>3, ReleaseAssumption
              DEF WorkerPauses, Has, TypeOK, Others, studio, exports,
               site, history, drift, Id

LEMMA LifecycleStep ==
  ASSUME TypeOK, NEW c \in Coordinator, Lifecycle(c)
  PROVE  TypeOK' /\ IF At(c, "generate", "snapshot")
                     THEN Has(c, "generate", op[c].release, "built", op[c].old)
                     ELSE op' = op /\ Others(c)
  <1>1. At(c, "generate", "snapshot") => Has(c, "generate", op[c].release, "built", op[c].old)
    BY GenerateGoes DEF Lifecycle, At, Generating
  <1>2. QED BY <1>1, ReleaseAssumption
              DEF Lifecycle, Has, TypeOK, Others, studio, exports, site, history, drift, Id

LEMMA FinishStep ==
  ASSUME TypeOK, NEW c \in Coordinator, Finish(c)
  PROVE  TypeOK' /\ Has(c, "generate", op[c].release, "finished", op[c].old)
  <1>1. op[c].kind = "generate" /\ Go(c, "finished") /\ "finished" \in Generating
    BY DEF Finish, At, Generating
  <1>2. Has(c, "generate", op[c].release, "finished", op[c].old)
    BY <1>1, GenerateGoes
  <1>3. op[c].release \in Release
    BY <1>1, Kinds
  <1>4. QED BY <1>1, <1>2, <1>3, ReleaseAssumption
              DEF Finish, Has, TypeOK, Others, studio, exports, site,
               history, drift, Id

LEMMA ActivateStep ==
  ASSUME TypeOK, NEW c \in Coordinator, Activate(c)
  PROVE  TypeOK' /\ Has(c, "generate", op[c].release, "activated", op[c].old)
  <1>1. op[c].kind = "generate" /\ Go(c, "activated") /\ "activated" \in Generating
    BY DEF Activate, At, Generating
  <1>2. Has(c, "generate", op[c].release, "activated", op[c].old)
    BY <1>1, GenerateGoes
  <1>3. op[c].release \in Release
    BY <1>1, Kinds
  <1>4. QED BY <1>1, <1>2, <1>3, ReleaseAssumption
              DEF Activate, Has, TypeOK, Others, studio, exports,
               site, history, drift, Id

LEMMA GenerateFailsStep ==
  ASSUME TypeOK, NEW c \in Coordinator, GenerateFails(c)
  PROVE  TypeOK' /\ Has(c, "generate", op[c].release, "failing", op[c].old)
  <1>1. op[c].kind = "generate" /\ Go(c, "failing") /\ "failing" \in Generating
    BY DEF GenerateFails, At, Generating
  <1>2. Has(c, "generate", op[c].release, "failing", op[c].old)
    BY <1>1, GenerateGoes
  <1>3. op[c].release \in Release
    BY <1>1, Kinds
  <1>4. QED BY <1>1, <1>2, <1>3, ReleaseAssumption
              DEF GenerateFails, Has, TypeOK, Others, studio, exports,
               site, history, drift, Id

LEMMA SwitchStep ==
  ASSUME TypeOK, NEW c \in Coordinator, Switch(c)
  PROVE  TypeOK' /\ Leaves(c)
  <1>1. Leaves(c)
    BY LeavesIdle DEF Switch
  <1>2. op[c].release \in Release
    BY Kinds DEF Switch, At
  <1>3. QED BY <1>1, <1>2, ReleaseAssumption
              DEF Switch, Leaves, Released, TypeOK, Others, studio, exports,
               site, history, drift, Id

LEMMA RestoreSiteStep ==
  ASSUME TypeOK, NEW c \in Coordinator, RestoreSite(c)
  PROVE  TypeOK' /\ Has(c, "generate", op[c].release,
                         IF generation = c THEN "restoring" ELSE "ending",
                         op[c].old)
  <1>1. op[c].kind = "generate" /\ op[c].old \in Id
    BY Kinds DEF RestoreSite, At
  <1>2. generation = c => Has(c, "generate", op[c].release, "restoring", op[c].old)
    BY <1>1, GenerateGoes DEF RestoreSite, Generating
  <1>3. generation # c => Has(c, "generate", op[c].release, "ending", op[c].old)
    BY <1>1, GenerateGoes DEF RestoreSite, Generating
  <1>4. QED BY <1>1, <1>2, <1>3, ReleaseAssumption
              DEF RestoreSite, Has, TypeOK, Others, studio, exports,
               site, history, drift, Id

LEMMA RestoreStudioStep ==
  ASSUME TypeOK, NEW c \in Coordinator, RestoreStudio(c)
  PROVE  TypeOK' /\ Leaves(c)
  <1>1. Leaves(c)
    BY LeavesIdle DEF RestoreStudio
  <1>2. op[c].release \in Release /\ op[c].old \in Id
    BY Kinds DEF RestoreStudio, At
  <1>3. QED BY <1>1, <1>2, ReleaseAssumption DEF RestoreStudio, Leaves, Released, TypeOK, Others,
               studio, exports, site, history, drift, Id

LEMMA FreezeStartStep ==
  ASSUME TypeOK, NEW c \in Coordinator, FreezeStart(c)
  PROVE  TypeOK' /\ Has(c, op[c].kind, op[c].release, "open", op[c].old)
           /\ With(c, FALSE, op[c].attempted)
  <1>1. op[c].kind \in Freezer /\ "open" \in Promoting
    BY DEF FreezeStart, Freezes, At, Freezer, Promoting, Freezing
  <1>2. Has(c, op[c].kind, op[c].release, "open", op[c].old)
          /\ With(c, FALSE, op[c].attempted)
    BY <1>1, FreezeTurns, Kinds DEF FreezeStart, Freezes, At
  <1>3. QED BY <1>1, <1>2, ReleaseAssumption
              DEF FreezeStart, Has, TypeOK, Others, studio, exports, site,
               history, drift, Id

LEMMA FreezeFailsStep ==
  ASSUME TypeOK, NEW c \in Coordinator, FreezeFails(c)
  PROVE  TypeOK' /\ Has(c, op[c].kind, op[c].release, "after", op[c].old)
           /\ With(c, FALSE, op[c].attempted)
  <1>1. op[c].kind \in Freezer /\ "after" \in Promoting
    BY DEF FreezeFails, Freezes, At, Freezer, Promoting, Freezing
  <1>2. Has(c, op[c].kind, op[c].release, "after", op[c].old)
          /\ With(c, FALSE, op[c].attempted)
    BY <1>1, FreezeTurns, Kinds DEF FreezeFails, Freezes, At
  <1>3. QED BY <1>1, <1>2, ReleaseAssumption
              DEF FreezeFails, Has, TypeOK, Others, studio, exports, site,
               history, drift, Id, Released

LEMMA FreezeOpenStep ==
  ASSUME TypeOK, NEW c \in Coordinator, FreezeOpen(c)
  PROVE  TypeOK'
         /\ Has(c, op[c].kind, op[c].release, IF generation = c THEN "work" ELSE "thaw",
                op[c].old)
           /\ With(c, op[c].ok, op[c].attempted)
  <1>1. op[c].kind \in Freezer /\ {"work", "thaw"} \subseteq Promoting
    BY DEF FreezeOpen, Freezes, Freezer, Promoting, Freezing
  <1>2. Has(c, op[c].kind, op[c].release, IF generation = c THEN "work" ELSE "thaw", op[c].old)
          /\ With(c, op[c].ok, op[c].attempted)
    BY <1>1, FreezeGoes DEF FreezeOpen
  <1>3. QED BY <1>1, <1>2, ReleaseAssumption, Opening
              DEF FreezeOpen, Has, TypeOK, Others, exports,
               Id

LEMMA ThawStep ==
  ASSUME TypeOK, NEW c \in Coordinator, Thaw(c)
  PROVE  TypeOK' /\ Has(c, op[c].kind, op[c].release, "after", op[c].old)
           /\ With(c, op[c].ok /\ generation = c, op[c].attempted)
  <1>1. op[c].kind \in Freezer /\ "after" \in Promoting
    BY DEF Thaw, Freezes, Freezer, Promoting, Freezing
  <1>2. (op[c].ok /\ generation = c) \in BOOLEAN
    OBVIOUS
  <1>3. op' = [op EXCEPT ![c].pc = "after", ![c].ok = op[c].ok /\ generation = c]
    BY DEF Thaw, TypeOK
  <1>4. Has(c, op[c].kind, op[c].release, "after", op[c].old)
          /\ With(c, op[c].ok /\ generation = c, op[c].attempted)
    BY <1>1, <1>2, <1>3, FreezeTurns
  <1>5. QED BY <1>1, <1>2, <1>3, <1>4, ReleaseAssumption DEF Thaw, Has, Released, TypeOK, Others,
               studio, exports, site, history, drift, Id

LEMMA PromoteStartStep ==
  ASSUME TypeOK, NEW c \in Coordinator, NEW r \in Release, PromoteStart(c, r)
  PROVE  TypeOK' /\ Has(c, "promote", r, "freeze", serving)
           /\ With(c, FALSE, FALSE)
  <1>1. [kind |-> "promote", release |-> r, pc |-> "freeze", old |-> serving,
        ok |-> FALSE, attempted |-> FALSE] \in FreezeOp
    BY DEF FreezeOp, Freezer, Promoting, Freezing, TypeOK
  <1>2. Has(c, "promote", r, "freeze", serving)
          /\ With(c, FALSE, FALSE)
    BY <1>1, StartsFreezing DEF PromoteStart
  <1>3. QED BY <1>1, <1>2, ReleaseAssumption
              DEF PromoteStart, Has, TypeOK, Others, studio, exports, site,
               history, drift, Id

LEMMA PromotePrepareStep ==
  ASSUME TypeOK, NEW c \in Coordinator, PromotePrepare(c)
  PROVE  TypeOK'
         /\ Has(c, "promote", op[c].release, "probe", IF active # "none" THEN active ELSE serving)
           /\ With(c, op[c].ok, op[c].attempted)
  <1>1. op[c].kind = "promote" /\ op[c].release \in Release
    BY Kinds DEF PromotePrepare, At, Freezer
  <1>2. (IF active # "none" THEN active ELSE serving) \in Id
    BY DEF TypeOK
  <1>3. "promote" \in Freezer /\ "probe" \in Promoting
    BY DEF Freezer, Promoting
  <1>4. Has(c, "promote", op[c].release, "probe", IF active # "none" THEN active ELSE serving)
          /\ With(c, op[c].ok, op[c].attempted)
    BY <1>1, <1>2, <1>3, FreezeKeepsOld DEF PromotePrepare
  <1>5. QED BY <1>1, <1>2, <1>3, <1>4, ReleaseAssumption
              DEF PromotePrepare, Made, Has, Stacks, TypeOK,
               Others, studio, exports, site, history, drift, Id

LEMMA PromoteProbeStep ==
  ASSUME TypeOK, NEW c \in Coordinator, PromoteProbe(c)
  PROVE  TypeOK' /\ Has(c, "promote", op[c].release, "site", op[c].old)
           /\ With(c, op[c].ok, op[c].attempted)
  <1>1. op[c].kind = "promote"
    BY DEF PromoteProbe, At, Freezes, Freezer
  <1>2. Has(c, "promote", op[c].release, "site", op[c].old)
          /\ With(c, op[c].ok, op[c].attempted)
    BY <1>1, FreezeGoes DEF PromoteProbe, Freezer, Promoting
  <1>3. StillPaused \in BOOLEAN
    BY DEF StillPaused, TypeOK
  <1>4. QED BY <1>1, <1>2, <1>3, ReleaseAssumption, Opening DEF PromoteProbe, Has, TypeOK, Others,
               exports, Id

LEMMA PromoteSiteStep ==
  ASSUME TypeOK, NEW c \in Coordinator, PromoteSite(c)
  PROVE  TypeOK' /\ Has(c, "promote", op[c].release, "studio", op[c].old)
           /\ With(c, op[c].ok, TRUE)
  <1>1. op[c].kind = "promote"
    BY DEF PromoteSite, At, Freezes, Freezer
  <1>2. op[c].release \in Release /\ op[c].old \in Id
    BY <1>1, Kinds DEF Freezer
  <1>3. Has(c, "promote", op[c].release, "studio", op[c].old)
          /\ With(c, op[c].ok, TRUE)
    BY <1>1, FreezeAttempts DEF PromoteSite, Freezer, Promoting, Freezing
  <1>4. QED BY <1>1, <1>2, <1>3, ReleaseAssumption
              DEF PromoteSite, Has, TypeOK, Others, studio, exports,
               site, history, drift, Id

LEMMA PromoteStudioStep ==
  ASSUME TypeOK, NEW c \in Coordinator, PromoteStudio(c)
  PROVE  TypeOK' /\ Has(c, "promote", op[c].release, "export", op[c].old)
           /\ With(c, op[c].ok, op[c].attempted)
  <1>1. op[c].kind = "promote"
    BY DEF PromoteStudio, At, Freezes, Freezer
  <1>2. op[c].release \in Release /\ op[c].old \in Id
    BY <1>1, Kinds DEF Freezer
  <1>3. Has(c, "promote", op[c].release, "export", op[c].old)
          /\ With(c, op[c].ok, op[c].attempted)
    BY <1>1, FreezeGoes DEF PromoteStudio, Freezer, Promoting, Freezing
  <1>4. QED BY <1>1, <1>2, <1>3, ReleaseAssumption
              DEF PromoteStudio, Has, TypeOK, Others, studio, exports,
               site, history, drift, Id

LEMMA PromoteExportStep ==
  ASSUME TypeOK, NEW c \in Coordinator, PromoteExport(c)
  PROVE  TypeOK' /\ Has(c, "promote", op[c].release, "record", op[c].old)
           /\ With(c, op[c].ok, op[c].attempted)
  <1>1. op[c].kind = "promote"
    BY DEF PromoteExport, At, Freezes, Freezer
  <1>2. op[c].release \in Release /\ op[c].old \in Id
    BY <1>1, Kinds DEF Freezer
  <1>3. Has(c, "promote", op[c].release, "record", op[c].old)
          /\ With(c, op[c].ok, op[c].attempted)
    BY <1>1, FreezeGoes DEF PromoteExport, Freezer, Promoting, Freezing
  <1>4. QED BY <1>1, <1>2, <1>3, ReleaseAssumption
              DEF PromoteExport, Has, TypeOK, Others, studio, exports,
               site, history, drift, Id

LEMMA PromoteRecordStep ==
  ASSUME TypeOK, NEW c \in Coordinator, PromoteRecord(c)
  PROVE  TypeOK' /\ Has(c, "promote", op[c].release, "thaw", op[c].old)
           /\ With(c, TRUE, op[c].attempted)
  <1>1. op[c].kind = "promote"
    BY DEF PromoteRecord, At, Freezes, Freezer
  <1>2. op[c].release \in Release /\ op[c].old \in Id
    BY <1>1, Kinds DEF Freezer
  <1>3. Has(c, "promote", op[c].release, "thaw", op[c].old)
          /\ With(c, TRUE, op[c].attempted)
    BY <1>1, FreezeTurns DEF PromoteRecord, Freezer, Promoting, Freezing
  <1>4. QED BY <1>1, <1>2, <1>3, ReleaseAssumption
              DEF PromoteRecord, Has, TypeOK, Others, studio, exports,
               site, history, drift, Id

LEMMA PromoteFailsStep ==
  ASSUME TypeOK, NEW c \in Coordinator, PromoteFails(c)
  PROVE  TypeOK'
         /\ Has(c, "promote", op[c].release,
               IF op[c].pc \in {"work", "probe", "site"} THEN "thaw" ELSE "undo site", op[c].old)
           /\ With(c, op[c].ok, op[c].attempted)
  <1>1. op[c].kind = "promote"
    BY DEF PromoteFails, At, Freezes, Freezer
  <1>2. op[c].release \in Release /\ op[c].old \in Id
    BY <1>1, Kinds DEF Freezer
  <1>3. Has(c, "promote", op[c].release,
              IF op[c].pc \in {"work", "probe", "site"} THEN "thaw" ELSE "undo site", op[c].old)
          /\ With(c, op[c].ok, op[c].attempted)
    BY <1>1, FreezeGoes DEF PromoteFails, Freezer, Promoting, Freezing
  <1>4. QED BY <1>1, <1>2, <1>3, ReleaseAssumption
              DEF PromoteFails, Has, TypeOK, Others, studio, exports,
               site, history, drift, Id

LEMMA PromoteDoneStep ==
  ASSUME TypeOK, NEW c \in Coordinator, PromoteDone(c)
  PROVE  TypeOK' /\ Leaves(c)
  <1>1. Leaves(c)
    BY LeavesIdle DEF PromoteDone
  <1>2. StillPaused \in BOOLEAN
    BY DEF StillPaused, TypeOK
  <1>3. QED BY <1>1, <1>2, ReleaseAssumption, Opening DEF PromoteDone, Leaves, TypeOK, Others,
               exports, Id

LEMMA PromoteCaughtStep ==
  ASSUME TypeOK, NEW c \in Coordinator, PromoteCaught(c)
  PROVE  TypeOK' /\ IF serving = op[c].release \/ (op[c].attempted /\ serving = op[c].old)
                     THEN Has(c, "rollback", op[c].release, "freeze", op[c].old)
                            /\ With(c, op[c].ok, op[c].attempted)
                     ELSE Has(c, "promote", op[c].release, "job", op[c].old)
                            /\ With(c, op[c].ok, op[c].attempted)
  <1>1. op[c].kind = "promote" /\ op[c].release \in Release
    BY Kinds DEF PromoteCaught, At, Freezer
  <1>2. (serving = op[c].release \/ (op[c].attempted /\ serving = op[c].old)) =>
          Has(c, "rollback", op[c].release, "freeze", op[c].old)
          /\ With(c, op[c].ok, op[c].attempted)
    BY <1>1, FreezeRenames DEF PromoteCaught, Freezer, Promoting, Freezing
  <1>3. ~(serving = op[c].release \/ (op[c].attempted /\ serving = op[c].old)) =>
          Has(c, "promote", op[c].release, "job", op[c].old)
          /\ With(c, op[c].ok, op[c].attempted)
    BY <1>1, FreezeGoes DEF PromoteCaught, Freezer, Promoting
  <1>4. (generation \in Coordinator) \in BOOLEAN
    OBVIOUS
  <1>5. QED BY <1>1, <1>2, <1>3, <1>4, ReleaseAssumption, ZenonT(40)
            DEF PromoteCaught, Has, TypeOK, Others, exports, site, drift, Id

LEMMA PromoteFailedStep ==
  ASSUME TypeOK, NEW c \in Coordinator, PromoteFailed(c)
  PROVE  TypeOK' /\ Leaves(c)
  <1>1. Leaves(c)
    BY LeavesIdle DEF PromoteFailed
  <1>2. op[c].release \in Release
    BY Kinds DEF PromoteFailed, At, Freezer
  <1>3. QED BY <1>1, <1>2, ReleaseAssumption DEF PromoteFailed, Leaves, TypeOK, Others, site,
               history, drift

LEMMA UndoSiteStep ==
  ASSUME TypeOK, NEW c \in Coordinator, UndoSite(c)
  PROVE  TypeOK' /\ Has(c, op[c].kind, op[c].release, "undo studio", op[c].old)
           /\ With(c, op[c].ok, op[c].attempted)
  <1>1. op[c].kind \in Freezer
    BY DEF UndoSite, At, Freezes, Freezer
  <1>2. op[c].release \in Release /\ op[c].old \in Id
    BY <1>1, Kinds DEF Freezer
  <1>3. Has(c, op[c].kind, op[c].release, "undo studio", op[c].old)
          /\ With(c, op[c].ok, op[c].attempted)
    BY <1>1, FreezeGoes DEF UndoSite, Freezer, Promoting, Freezing
  <1>4. QED BY <1>1, <1>2, <1>3, ReleaseAssumption
              DEF UndoSite, Has, TypeOK, Others, studio, exports,
               site, history, drift, Id

LEMMA UndoStudioStep ==
  ASSUME TypeOK, NEW c \in Coordinator, UndoStudio(c)
  PROVE  TypeOK' /\ Has(c, op[c].kind, op[c].release, "thaw", op[c].old)
           /\ With(c, op[c].kind = "rollback", op[c].attempted)
  <1>1. op[c].kind \in Freezer
    BY DEF UndoStudio, At, Freezes, Freezer
  <1>2. op[c].release \in Release /\ op[c].old \in Id
    BY <1>1, Kinds DEF Freezer
  <1>3. Has(c, op[c].kind, op[c].release, "thaw", op[c].old)
          /\ With(c, op[c].kind = "rollback", op[c].attempted)
    BY <1>1, FreezeTurns DEF UndoStudio, Freezer, Promoting, Freezing
  <1>4. QED BY <1>1, <1>2, <1>3, ReleaseAssumption, PuttingBack
              DEF UndoStudio, Has, TypeOK, Others,
               exports, site

LEMMA UndoFailsStep ==
  ASSUME TypeOK, NEW c \in Coordinator, UndoFails(c)
  PROVE  TypeOK' /\ Has(c, op[c].kind, op[c].release, "thaw", op[c].old)
           /\ With(c, op[c].ok, op[c].attempted)
  <1>1. op[c].kind \in Freezer
    BY DEF UndoFails, At, Freezes, Freezer
  <1>2. op[c].release \in Release /\ op[c].old \in Id
    BY <1>1, Kinds DEF Freezer
  <1>3. Has(c, op[c].kind, op[c].release, "thaw", op[c].old)
          /\ With(c, op[c].ok, op[c].attempted)
    BY <1>1, FreezeGoes DEF UndoFails, Freezer, Promoting, Freezing
  <1>4. QED BY <1>1, <1>2, <1>3, ReleaseAssumption
              DEF UndoFails, Has, TypeOK, Others, studio, exports,
               site, history, drift, Id

LEMMA RollbackWorkStep ==
  ASSUME TypeOK, NEW c \in Coordinator, RollbackWork(c)
  PROVE  TypeOK' /\ IF active = op[c].release /\ serving \in {op[c].release, op[c].old}
                     THEN Has(c, "rollback", op[c].release, "undo site", op[c].old)
                            /\ With(c, op[c].ok, op[c].attempted)
                     ELSE Has(c, "rollback", op[c].release, "thaw", op[c].old)
                            /\ With(c, TRUE, op[c].attempted)
  <1>1. op[c].kind = "rollback"
    BY DEF RollbackWork, At
  <1>2. active = op[c].release /\ serving \in {op[c].release, op[c].old} =>
          Has(c, "rollback", op[c].release, "undo site", op[c].old)
          /\ With(c, op[c].ok, op[c].attempted)
    BY <1>1, FreezeGoes DEF RollbackWork, Freezer, Promoting
  <1>3. ~(active = op[c].release /\ serving \in {op[c].release, op[c].old}) =>
          Has(c, "rollback", op[c].release, "thaw", op[c].old)
          /\ With(c, TRUE, op[c].attempted)
    BY <1>1, FreezeTurns DEF RollbackWork, Freezer, Promoting, Freezing
  <1>4. QED BY <1>1, <1>2, <1>3, ReleaseAssumption DEF RollbackWork, LeftServing, Has, TypeOK,
               Others, studio, exports, site, history, drift, Id

LEMMA RollbackDoneStep ==
  ASSUME TypeOK, NEW c \in Coordinator, RollbackDone(c)
  PROVE  TypeOK' /\ IF op[c].ok
                     THEN Has(c, "rollback", op[c].release, "job", op[c].old)
                            /\ With(c, op[c].ok, op[c].attempted)
                     ELSE Leaves(c)
  <1>1. op[c].kind = "rollback" /\ op[c].release \in Release
    BY Kinds DEF RollbackDone, At, Freezer
  <1>2. op[c].ok => Has(c, "rollback", op[c].release, "job", op[c].old)
                    /\ With(c, op[c].ok, op[c].attempted)
    BY <1>1, FreezeGoes DEF RollbackDone, Freezer, Promoting
  <1>3. ~op[c].ok => Leaves(c)
    BY LeavesIdle DEF RollbackDone
  <1>4. promotion' \in [Release -> {"none", "preparing", "ready", "failed", "unknown"}]
    BY <1>1, Tables DEF RollbackDone
  <1>5. QED BY <1>1, <1>2, <1>3, <1>4, ReleaseAssumption DEF RollbackDone, Has, Leaves, TypeOK,
               Others, exports, site, history, drift

LEMMA ReconcileStartStep ==
  ASSUME TypeOK, NEW c \in Coordinator, NEW r \in Release, ReconcileStart(c, r)
  PROVE  TypeOK' /\ Has(c, "reconcile", r, "freeze", "none")
           /\ With(c, FALSE, FALSE)
  <1>1. [kind |-> "reconcile", release |-> r, pc |-> "freeze", old |-> "none",
        ok |-> FALSE, attempted |-> FALSE] \in FreezeOp
    BY DEF FreezeOp, Freezer, Promoting, Freezing, Id
  <1>2. Has(c, "reconcile", r, "freeze", "none")
          /\ With(c, FALSE, FALSE)
    BY <1>1, StartsFreezing DEF ReconcileStart
  <1>3. QED BY <1>1, <1>2, ReleaseAssumption DEF ReconcileStart, InHand, Has, TypeOK, Others,
               studio, exports, site, history, drift, Id

LEMMA ReconcileSiteStep ==
  ASSUME TypeOK, NEW c \in Coordinator, ReconcileSite(c)
  PROVE  TypeOK' /\ active' \in Id
         /\ IF active # op[c].release
            THEN Has(c, "reconcile", op[c].release, "record", op[c].old)
              /\ With(c, op[c].ok, op[c].attempted)
            ELSE Has(c, "reconcile", op[c].release, "studio", active')
                   /\ With(c, op[c].ok, op[c].attempted)
  <1>1. op[c].kind = "reconcile" /\ op[c].release \in Release
    BY Kinds DEF ReconcileSite, At, Freezer
  <1>2. previous[op[c].release] \in Id
    BY <1>1 DEF TypeOK
  <1>3. active' \in Id
    BY <1>1, <1>2 DEF ReconcileSite, TypeOK, Id
  <1>4. active # op[c].release => Has(c, "reconcile", op[c].release, "record", op[c].old)
          /\ With(c, op[c].ok, op[c].attempted)
    BY <1>1, FreezeGoes DEF ReconcileSite, Freezer, Promoting
  <1>5. active = op[c].release => op' = [op EXCEPT ![c].pc = "studio", ![c].old = active']
    BY DEF ReconcileSite
  <1>6. "reconcile" \in Freezer /\ "studio" \in Promoting
    BY DEF Freezer, Promoting
  <1>7. active = op[c].release => Has(c, "reconcile", op[c].release, "studio", active')
          /\ With(c, op[c].ok, op[c].attempted)
    BY <1>1, <1>3, <1>5, <1>6, FreezeKeepsOld
  <1>8. LeftServing(op[c].release) \in BOOLEAN
    BY DEF LeftServing, TypeOK
  <1>9. QED BY <1>1, <1>2, <1>3, <1>4, <1>5, <1>6, <1>7, <1>8, ReleaseAssumption
               DEF ReconcileSite, Has, TypeOK, Others, studio, exports, site, history, drift, Id

LEMMA ReconcileStudioStep ==
  ASSUME TypeOK, NEW c \in Coordinator, ReconcileStudio(c)
  PROVE  TypeOK' /\ Has(c, "reconcile", op[c].release, "record", op[c].old)
           /\ With(c, op[c].ok, op[c].attempted)
  <1>1. op[c].kind = "reconcile"
    BY DEF ReconcileStudio, At, Freezes, Freezer
  <1>2. op[c].release \in Release /\ op[c].old \in Id
    BY <1>1, Kinds DEF Freezer
  <1>3. Has(c, "reconcile", op[c].release, "record", op[c].old)
          /\ With(c, op[c].ok, op[c].attempted)
    BY <1>1, FreezeGoes DEF ReconcileStudio, Freezer, Promoting, Freezing
  <1>4. QED BY <1>1, <1>2, <1>3, ReleaseAssumption, PuttingBack DEF ReconcileStudio, Has, TypeOK,
               Others, exports, site

LEMMA ReconcileRecordStep ==
  ASSUME TypeOK, NEW c \in Coordinator, ReconcileRecord(c)
  PROVE  TypeOK' /\ Has(c, "reconcile", op[c].release, "thaw", op[c].old)
           /\ With(c, TRUE, op[c].attempted)
  <1>1. op[c].kind = "reconcile"
    BY DEF ReconcileRecord, At, Freezes, Freezer
  <1>2. op[c].release \in Release /\ op[c].old \in Id
    BY <1>1, Kinds DEF Freezer
  <1>3. Has(c, "reconcile", op[c].release, "thaw", op[c].old)
          /\ With(c, TRUE, op[c].attempted)
    BY <1>1, FreezeTurns DEF ReconcileRecord, Freezer, Promoting, Freezing
  <1>4. QED BY <1>1, <1>2, <1>3, ReleaseAssumption DEF ReconcileRecord, Has, TypeOK, Others,
               studio, exports, site, history, drift, Id

LEMMA WorkFailsStep ==
  ASSUME TypeOK, NEW c \in Coordinator, WorkFails(c)
  PROVE  TypeOK' /\ Has(c, op[c].kind, op[c].release, "thaw", op[c].old)
           /\ With(c, op[c].ok, op[c].attempted)
  <1>1. op[c].kind \in Freezer
    BY DEF WorkFails, At, Freezes, Freezer
  <1>2. op[c].release \in Release /\ op[c].old \in Id
    BY <1>1, Kinds DEF Freezer
  <1>3. Has(c, op[c].kind, op[c].release, "thaw", op[c].old)
          /\ With(c, op[c].ok, op[c].attempted)
    BY <1>1, FreezeGoes DEF WorkFails, Freezer, Promoting, Freezing
  <1>4. QED BY <1>1, <1>2, <1>3, ReleaseAssumption
              DEF WorkFails, Has, TypeOK, Others, studio, exports,
               site, history, drift, Id

LEMMA ReconcileDoneStep ==
  ASSUME TypeOK, NEW c \in Coordinator, ReconcileDone(c)
  PROVE  TypeOK' /\ Leaves(c)
  <1>1. Leaves(c)
    BY LeavesIdle DEF ReconcileDone
  <1>2. QED BY <1>1, ReleaseAssumption
              DEF ReconcileDone, Leaves, TypeOK, Others, studio, exports, site,
               history, drift, Id

LEMMA CrashStep ==
  ASSUME TypeOK, NEW c \in Coordinator, Crash(c)
  PROVE  TypeOK' /\ Leaves(c) /\ faults' # 0
  <1>1. Leaves(c)
    BY LeavesIdle DEF Crash
  <1>2. faults' # 0 /\ faults' \in 0..MaxFaults
    BY ReleaseAssumption DEF Crash, TypeOK
  <1>3. QED BY <1>1, <1>2, ReleaseAssumption
              DEF Crash, Leaves, TypeOK, Others, studio, exports, site,
               history, drift, Id

-----------------------------------------------------------------------------
(* Steps                                                                   *)

\* A step of c in the operation it has in hand, or the end of it.
Proceeds(c) ==
  \/ WorkerPauses(c) \/ Lifecycle(c) \/ Finish(c) \/ Activate(c) \/ Switch(c)
  \/ GenerateFails(c) \/ RestoreSite(c) \/ RestoreStudio(c)
  \/ FreezeStart(c) \/ FreezeFails(c) \/ FreezeOpen(c) \/ Thaw(c)
  \/ PromotePrepare(c) \/ PromoteProbe(c) \/ PromoteSite(c) \/ PromoteStudio(c)
  \/ PromoteExport(c)
  \/ PromoteRecord(c) \/ PromoteFails(c) \/ PromoteDone(c) \/ PromoteCaught(c)
  \/ PromoteFailed(c)
  \/ UndoSite(c) \/ UndoStudio(c) \/ UndoFails(c) \/ RollbackWork(c) \/ RollbackDone(c)
  \/ ReconcileSite(c) \/ ReconcileStudio(c) \/ ReconcileRecord(c)
  \/ WorkFails(c) \/ ReconcileDone(c) \/ Crash(c)

\* c begins an operation on r.
Starts(c, r) == GenerateStart(c, r) \/ PromoteStart(c, r) \/ ReconcileStart(c, r)

\* The steps that belong to no operation.
Aside == \/ Open \/ Expire \/ Elsewhere \/ UNCHANGED vars
         \/ \E r \in Release : RecoverJob(r) \/ RecoverPromotion(r)

\* Every step is one of these.
LEMMA Cases ==
  ASSUME [Next]_vars
  PROVE  \/ Open \/ Expire \/ Elsewhere \/ UNCHANGED vars
         \/ \E r \in Release : RecoverJob(r) \/ RecoverPromotion(r)
         \/ \E c \in Coordinator :
              Proceeds(c) \/ Lapse(c) \/ \E r \in Release : Starts(c, r)
  <1>1. ASSUME NEW c \in Coordinator,
               Generate(c) \/ Freeze(c) \/ Promote(c) \/ Reconcile(c) \/ Crash(c)
        PROVE  Proceeds(c) \/ \E r \in Release : Starts(c, r)
    BY <1>1 DEF Generate, Freeze, Promote, Reconcile, Proceeds, Starts
  <1>2. QED BY <1>1 DEF Next

\* Every step keeps the types.
LEMMA TypeKept ==
  ASSUME TypeOK, [Next]_vars
  PROVE  TypeOK'
  <1>1. CASE Open
    <2>1. StillPaused \in BOOLEAN /\ served' \in BOOLEAN
      BY <1>1 DEF Open, StillPaused, TypeOK
    <2>2. QED BY <1>1, <2>1, Opening DEF TypeOK, Open, exports
  <1>2. CASE Elsewhere
    <2>1. ASSUME NEW r \in Release, ElsewhereStart(r)
          PROVE  TypeOK'
      BY <2>1, ReleaseAssumption DEF TypeOK, ElsewhereStart, Made, site, history, drift
    <2>2. ASSUME NEW r \in Release, ElsewhereExport(r) \/ ElsewhereEnds(r) \/ ElsewhereFails(r)
          PROVE  TypeOK'
      BY <2>2 DEF TypeOK, ElsewhereExport, ElsewhereEnds, ElsewhereFails, studio, exports, site,
                  history, drift
    <2>3. QED BY <1>2, <2>1, <2>2
              DEF Elsewhere, TypeOK, ElsewhereReleases, studio, exports, site, history, drift
  <1>3. CASE Expire \/ UNCHANGED vars \/ \E r \in Release : RecoverJob(r) \/ RecoverPromotion(r)
    BY <1>3, ReleaseAssumption
    DEF TypeOK, Expire, RecoverJob, RecoverPromotion, vars, studio, exports, site, history, drift
  <1>4. ASSUME NEW c \in Coordinator, Proceeds(c)
        PROVE  TypeOK'
    BY <1>4, WorkerPausesStep, LifecycleStep, FinishStep, ActivateStep, SwitchStep,
       GenerateFailsStep, RestoreSiteStep, RestoreStudioStep, FreezeStartStep, FreezeFailsStep,
       FreezeOpenStep, ThawStep, PromotePrepareStep, PromoteProbeStep, PromoteSiteStep,
       PromoteStudioStep, PromoteExportStep, PromoteRecordStep, PromoteFailsStep, PromoteDoneStep,
       PromoteCaughtStep, PromoteFailedStep, UndoSiteStep, UndoStudioStep, UndoFailsStep,
       RollbackWorkStep, RollbackDoneStep, ReconcileSiteStep, ReconcileStudioStep,
       ReconcileRecordStep, WorkFailsStep, ReconcileDoneStep, CrashStep DEF Proceeds
  <1>5. ASSUME NEW c \in Coordinator, Lapse(c)
        PROVE  TypeOK'
    BY <1>5, ReleaseAssumption DEF TypeOK, Lapse, studio, exports, site, drift
  <1>6. ASSUME NEW c \in Coordinator, NEW r \in Release, Starts(c, r)
        PROVE  TypeOK'
    BY <1>6, GenerateStartStep, PromoteStartStep, ReconcileStartStep DEF Starts
  <1>7. QED BY <1>1, <1>2, <1>3, <1>4, <1>5, <1>6, Cases

\* Such a step leaves the operations alone, and takes no live lease.
LEMMA Asides ==
  ASSUME Aside
  PROVE  /\ UNCHANGED <<op, mail, previous, faults, overrun, torn, stacked, late>>
         /\ generation' = generation
              \/ (generation \notin Coordinator /\ generation' \notin Coordinator)
  <1>1. CASE Open \/ Expire \/ UNCHANGED vars
    BY <1>1, ReleaseAssumption DEF Open, Expire, vars, studio, exports, site, history, drift
  <1>2. CASE Elsewhere
    BY <1>2, ReleaseAssumption DEF Elsewhere, ElsewhereStart, ElsewhereExport, ElsewhereReleases,
             ElsewhereEnds, ElsewhereFails, studio, history
  <1>3. CASE \E r \in Release : RecoverJob(r) \/ RecoverPromotion(r)
    BY <1>3 DEF RecoverJob, RecoverPromotion, history
  <1>4. QED BY <1>1, <1>2, <1>3 DEF Aside

\* Only an opening touches what is served and what the site runs.
LEMMA AsideServes ==
  ASSUME TypeOK, Aside
  PROVE  \/ Opens
         \/ UNCHANGED <<serving, active, stray, borrowed>>
  <1>1. CASE Open
    BY <1>1, Opening DEF Open
  <1>2. CASE ~Open
    BY <1>2 DEF Aside, Expire, Elsewhere, ElsewhereStart, ElsewhereExport, ElsewhereReleases,
            ElsewhereEnds, ElsewhereFails, RecoverJob, RecoverPromotion, vars, studio, site,
            history, drift
  <1>3. QED BY <1>1, <1>2

\* What it does to the records.
LEMMA AsideRecords ==
  ASSUME TypeOK, Aside, NEW r \in Release
  PROVE  /\ \/ promotion'[r] = promotion[r]
            \/ promotion[r] = "preparing" /\ promotion'[r] = "unknown"
         /\ \/ job'[r] = job[r]
            \/ job[r] = "building" /\ job'[r] = "failed"
            \/ job[r] = "absent" /\ job'[r] = "building" /\ promotion[r] = "none"
            \/ /\ r \in foreign /\ job'[r] \in {"ready", "failed"}
               /\ job[r] = "ready" => r \notin foreign'
         /\ r \in foreign' =>
              \/ r \in foreign
              \/ job[r] = "absent" /\ promotion[r] = "none" /\ job'[r] = "building"
  <1>1. CASE Open \/ Expire \/ UNCHANGED vars
    BY <1>1 DEF Open, Expire, vars, studio, exports
  <1>2. CASE \E q \in Release : RecoverJob(q) \/ RecoverPromotion(q)
    BY <1>2, Tables DEF RecoverJob, RecoverPromotion, exports
  <1>3. CASE Elsewhere
    <2>1. CASE ElsewhereReleases
      BY <2>1 DEF ElsewhereReleases, studio, exports
    <2>2. ASSUME NEW q \in Release, ElsewhereStart(q)
          PROVE  /\ promotion' = promotion /\ job' = [job EXCEPT ![q] = "building"]
                 /\ job[q] = "absent" /\ promotion[q] = "none" /\ foreign' = foreign \cup {q}
      BY <2>2 DEF ElsewhereStart, Made
    <2>3. ASSUME NEW q \in Release, ElsewhereExport(q)
          PROVE  /\ promotion' = promotion /\ job' = [job EXCEPT ![q] = "ready"]
                 /\ job[q] = "building" /\ q \in foreign /\ foreign' = foreign
      BY <2>3 DEF ElsewhereExport
    <2>4. ASSUME NEW q \in Release, ElsewhereEnds(q)
          PROVE  /\ promotion' = promotion /\ job' = job /\ foreign' = foreign \ {q}
      BY <2>4 DEF ElsewhereEnds, studio, exports
    <2>5. ASSUME NEW q \in Release, ElsewhereFails(q)
          PROVE  /\ promotion' = promotion /\ job' = [job EXCEPT ![q] = "failed"]
                 /\ q \in foreign /\ foreign' = foreign \ {q}
      BY <2>5 DEF ElsewhereFails
    <2>6. QED BY <1>3, <2>1, <2>2, <2>3, <2>4, <2>5, Tables DEF Elsewhere
  <1>4. QED BY <1>1, <1>2, <1>3 DEF Aside

\* An operation that begins leaves the site, the active release and the others alone.
LEMMA StartMoves ==
  ASSUME TypeOK, NEW c \in Coordinator, NEW r \in Release, Starts(c, r)
  PROVE  /\ op[c] = Idle /\ Others(c) /\ op'[c] # Idle /\ op'[c].release = r
         /\ UNCHANGED <<serving, site, mail, foreign, faults, served, torn, stacked, late,
               stray, borrowed>>
         /\ \/ /\ generation' = c /\ generation = "none"
               /\ op'[c].kind = "generate" /\ op'[c].pc = "build"
            \/ generation' = generation /\ op'[c].kind \in Freezer /\ op'[c].pc = "freeze"
  <1>1. CASE GenerateStart(c, r)
    BY <1>1, GenerateStartStep DEF GenerateStart, Has, site, history, drift
  <1>2. CASE PromoteStart(c, r)
    BY <1>2, PromoteStartStep DEF PromoteStart, Has, site, history, drift, Freezer
  <1>3. CASE ReconcileStart(c, r)
    BY <1>3, ReconcileStartStep, ZenonT(40)
    DEF ReconcileStart, Has, studio, exports, site, Freezer, drift
  <1>4. QED BY <1>1, <1>2, <1>3 DEF Starts

\* The steps that open the site database on the way.
LEMMA OpeningSteps ==
  ASSUME TypeOK, NEW c \in Coordinator, FreezeOpen(c) \/ PromoteProbe(c) \/ PromoteDone(c)
  PROVE  /\ Opens
         /\ UNCHANGED <<job, promotion, previous, foreign>>
  BY Opening DEF FreezeOpen, PromoteProbe, PromoteDone, exports

\* The steps that put the release before back.
LEMMA BackSteps ==
  ASSUME TypeOK, NEW c \in Coordinator, UndoStudio(c) \/ ReconcileStudio(c)
  PROVE  /\ (serving' = op[c].old /\ UNCHANGED <<stray, borrowed>>) \/ Unread(op[c].old)
         /\ UNCHANGED <<job, promotion, previous, active, foreign>>
  <1>1. op[c].old \in Id
    BY Kinds DEF UndoStudio, ReconcileStudio, Freezes, At, Freezer
  <1>2. QED BY <1>1, PuttingBack DEF UndoStudio, ReconcileStudio, exports, site

-----------------------------------------------------------------------------
(* The inductive invariant                                                 *)

\* Where withScopeFreeze holds its lease.
Frozen == Promoting \ {"freeze", "after", "job"}
Held(c) == \/ op[c].kind = "generate"
           \/ op[c].kind \in Freezer /\ op[c].pc \in Frozen

\* While no lease was lost, an operation that needs the lease has it.
LeaseInv ==
  faults = 0 \/ ~overrun => \A c \in Coordinator : Held(c) => generation = c

\* A generation with its lease keeps the pause of its snapshot.
FrozenInv ==
  ~overrun =>
    \A c \in Coordinator :
      op[c].kind = "generate"
        /\ op[c].pc \in {"snapshot", "built", "finished", "activated"} => paused

\* A pause has an operation that will lift it, or a message that will make one.
Pausing(c) ==
  \/ /\ op[c].kind = "generate"
     /\ op[c].pc \in {"snapshot", "built", "finished", "activated", "failing"}
  \/ op[c].kind \in Freezer /\ op[c].pc \in Frozen \ {"open"}
  \/ c \in mail
PauseInv == faults = 0 /\ ~late /\ paused => \E c \in Coordinator : Pausing(c)

\* The ids that have been used; those of other environments once one was borrowed,
\* and if complete.
Known ==
  {"none"} \cup {r \in Release : /\ job[r] # "absent"
                                 /\ r \in foreign => borrowed /\ job[r] = "ready"}

\* Nothing refers to a release that has no job yet.
FreshInv ==
  /\ serving \in Known /\ active \in Known
  /\ \A r \in Release : previous[r] \in Known
  /\ \A c \in Coordinator : op[c] # Idle => op[c].old \in Known
  /\ \A r \in stray : job[r] # "absent"

\* A release of another environment has a job, and nobody promotes or generates it.
ForeignInv ==
  \A r \in foreign : job[r] # "absent" /\ promotion[r] = "none" /\ ~InHand(r)

\* The operation that made a release, or is taking it back.
Owner == {"generate", "promote", "rollback"}
Raiser == {"promote", "rollback"}

\* How far an operation has come tells what the records of its release say.
OpOK(c) ==
  LET r == op[c].release IN
  /\ op[c].kind = "generate" =>
       /\ job[r] # "absent" /\ promotion[r] = "none"
       /\ op[c].pc \in {"finished", "activated"} => job[r] = "ready"
  /\ op[c].kind \in Freezer =>
       /\ promotion[r] # "none"
       /\ op[c].pc \in Frozen \ {"thaw"} => ~op[c].ok
  /\ op[c].kind = "promote" =>
       /\ op[c].pc \in {"freeze", "open", "work"} => job[r] = "absent"
       /\ op[c].pc \in Frozen \ {"open", "work", "thaw"} => job[r] # "absent"
       /\ op[c].attempted => job[r] # "absent"
  /\ op[c].kind = "rollback" =>
       job[r] # "absent" /\ op[c].pc \in Freezing \cup {"undo site", "undo studio", "job"}
  /\ op[c].kind \in Owner => op[c].old # r
  /\ op[c].kind \in Raiser /\ job[r] # "absent" => op[c].old = previous[r]
  /\ op[c].kind = "reconcile" =>
       /\ op[c].pc \in Freezing \cup {"studio", "record"}
       /\ op[c].pc = "studio" => job[r] # "absent"

\* It tells so for every operation.
OpInv == \A c \in Coordinator : OpOK(c)

\* A release has one operation that made it at most.
OwnInv ==
  \A c, d \in Coordinator :
    op[c].kind \in Owner /\ op[d].kind \in Owner /\ op[c].release = op[d].release => c = d

\* Only a promotion has a release to go back to.
PrevInv == \A r \in Release : promotion[r] = "none" => previous[r] = "none"

\* While no operation outlived its lease or ran into another's, no two have the same
\* release in hand.
UniqueInv ==
  ~overrun =>
    \A c, d \in Coordinator :
      op[c] # Idle /\ op[d] # Idle /\ op[c].release = op[d].release => c = d

\* How far an operation has come tells what is recorded of its promotion.
RecOK(c) ==
  LET r == op[c].release IN
  /\ op[c].kind = "generate" => op[c].pc # "ending"
  /\ op[c].kind = "promote" =>
       /\ op[c].pc = "record" => job[r] = "ready"
       /\ op[c].pc \in Promoting \ {"thaw", "after", "job"} => r \in Unresolved
  /\ op[c].kind \in Raiser => (promotion[r] = "failed" <=> op[c].pc = "job")
  /\ op[c].kind = "reconcile" =>
       /\ op[c].pc \in {"freeze", "open", "work", "studio", "record"} => promotion[r] = "unknown"
       /\ op[c].pc \in {"freeze", "open", "work"} => op[c].old = "none"
       /\ op[c].pc \in {"studio", "record"} /\ op[c].old = r => job[r] = "ready"
       /\ op[c].pc = "studio" => op[c].old \in {"none", r, previous[r]}

\* A promotion recorded as complete has a complete export.
Exported == \A r \in Release : promotion[r] = "ready" => job[r] = "ready"

\* Both hold as long as no operation outlived its lease or ran into another's.
RecInv == ~overrun => Exported /\ \A c \in Coordinator : RecOK(c)

\* A promotion was made on top of r, or it served without one.
Followed(r) == \E q \in Release : previous[q] = r /\ job[q] # "absent"
Excused(r) == Followed(r) \/ r \in stray
Gone(r) == serving # r \/ Excused(r)

\* What a failed promotion leaves behind does not serve, and nobody is about to make
\* it serve again.
FailedOK(c) ==
  LET r == op[c].release IN
  /\ op[c].kind = "generate" /\ op[c].old # "none" =>
       promotion[op[c].old] # "failed" \/ Excused(op[c].old)
  /\ op[c].kind = "reconcile" /\ op[c].pc = "record" /\ op[c].old # r => Gone(r)
  /\ op[c].kind = "rollback" /\ op[c].pc \in {"thaw", "after"} /\ op[c].ok =>
       /\ Gone(r)
       /\ \/ Excused(r)
          \/ \A d \in Coordinator : op[d].kind = "generate" => op[d].old # r

\* Excepted are the runs PromotionsAreTrue excepts.
FailedInv ==
  ~overrun /\ ~torn =>
    /\ \A r \in Release : promotion[r] = "failed" => Gone(r)
    /\ \A c \in Coordinator : FailedOK(c)

\* A release whose promotion is not over and did not succeed; and
\* one that serves, or whose reconciliation brings back one that does.
Bad(r) == r \in Unresolved /\ job[r] \in {"building", "failed"}
Sure(r) == Ready(r) \/ (Bad(r) /\ Ready(previous[r]))

\* Promotions come one at a time, and the release before one is over and done with.
StackInv ==
  ~overrun /\ ~stacked =>
    /\ \A q, r \in Release : Bad(q) /\ Bad(r) => q = r
    /\ \A r \in Release :
         promotion[r] # "none" /\ job[r] # "absent" /\ previous[r] # "none" =>
           ~InHand(previous[r]) /\ previous[r] \notin Unresolved

\* Work under a freeze finds the site at what the studio serves.
HealInv ==
  ~overrun =>
    \A c \in Coordinator : Freezes(c, "work") /\ Ready(serving) => active = serving

\* Whatever an operation may put back can serve.
ServeOK(c) ==
  /\ op[c].kind = "generate" => Sure(op[c].old)
  /\ op[c].kind \in Raiser /\ job[op[c].release] # "absent" =>
       Ready(op[c].old) /\ op[c].release \notin stray
  /\ op[c].kind = "reconcile" /\ op[c].pc = "studio" => Ready(op[c].old)
  /\ op[c].kind = "reconcile" /\ op[c].pc = "record" /\ op[c].old # op[c].release =>
       serving # op[c].release

\* Once a ready release has served, what serves is sure, and so is what is put back.
ServeInv ==
  served /\ ~overrun /\ ~torn /\ ~stacked /\ ~borrowed =>
    Sure(serving) /\ \A c \in Coordinator : ServeOK(c)

\* With a key of its own nothing drifts.
KeyInv == OwnKey => stray = {} /\ ~borrowed

\* The inductive invariant of the releases.
IInv ==
  /\ TypeOK /\ LeaseInv /\ FrozenInv /\ PauseInv
  /\ FreshInv /\ ForeignInv /\ OpInv /\ OwnInv /\ PrevInv
  /\ UniqueInv /\ RecInv /\ FailedInv
  /\ StackInv /\ HealInv /\ ServeInv /\ KeyInv

-----------------------------------------------------------------------------
(* The lease and the pause                                                 *)

\* What a step does to the lease.
LeaseMove(c) ==
  /\ \/ generation' = generation
     \/ generation = "none" /\ generation' = c
     \/ generation = c /\ generation' \in {"none", "dead"} /\ ~Held(c)'
  /\ Held(c)' => generation' = c \/ (Held(c) /\ generation' = generation)
  /\ (faults' = 0 => faults = 0) /\ (overrun => overrun')
  /\ Others(c)

\* An operation takes the lease before the steps that need it and gives it back at its end.
LEMMA LeaseMoves ==
  ASSUME TypeOK, NEW c \in Coordinator, Proceeds(c)
  PROVE  LeaseMove(c)
  <1> USE DEF Has, Leaves, LeaseMove, Held, Frozen, Promoting, Freezing, Freezer, studio,
          exports, site, history, drift
  <1>1. CASE WorkerPauses(c)
    BY <1>1, WorkerPausesStep, Flags DEF WorkerPauses, At
  <1>2. CASE Lifecycle(c)
    BY <1>2, LifecycleStep, Flags DEF Lifecycle, At
  <1>3. CASE Finish(c)
    BY <1>3, FinishStep, Flags DEF Finish, At
  <1>4. CASE Activate(c)
    BY <1>4, ActivateStep, Flags DEF Activate, At
  <1>5. CASE Switch(c)
    BY <1>5, SwitchStep, Flags DEF Switch, At, Released
  <1>6. CASE GenerateFails(c)
    BY <1>6, GenerateFailsStep, Flags DEF GenerateFails
  <1>7. CASE RestoreSite(c)
    BY <1>7, RestoreSiteStep, Flags DEF RestoreSite, At
  <1>8. CASE RestoreStudio(c)
    BY <1>8, RestoreStudioStep, Flags DEF RestoreStudio, At, Released
  <1>9. CASE FreezeStart(c)
    BY <1>9, FreezeStartStep, Flags DEF FreezeStart, Freezes
  <1>10. CASE FreezeFails(c)
    BY <1>10, FreezeFailsStep, Flags DEF FreezeFails, Freezes, Released
  <1>11. CASE FreezeOpen(c)
    BY <1>11, FreezeOpenStep, Flags DEF FreezeOpen, Freezes
  <1>12. CASE Thaw(c)
    BY <1>12, ThawStep, Flags DEF Thaw, Freezes, Released
  <1>13. CASE PromotePrepare(c)
    BY <1>13, PromotePrepareStep, Flags DEF PromotePrepare, At
  <1>14. CASE PromoteSite(c)
    BY <1>14, PromoteSiteStep, Flags DEF PromoteSite, At
  <1>15. CASE PromoteStudio(c)
    BY <1>15, PromoteStudioStep, Flags DEF PromoteStudio, At
  <1>16. CASE PromoteExport(c)
    BY <1>16, PromoteExportStep, Flags DEF PromoteExport, At
  <1>17. CASE PromoteRecord(c)
    BY <1>17, PromoteRecordStep, Flags DEF PromoteRecord, At
  <1>18. CASE PromoteFails(c)
    BY <1>18, PromoteFailsStep, Flags DEF PromoteFails
  <1>19. CASE PromoteDone(c)
    BY <1>19, PromoteDoneStep, Flags DEF PromoteDone, At
  <1>20. CASE PromoteCaught(c)
    BY <1>20, PromoteCaughtStep, Flags DEF PromoteCaught, At
  <1>21. CASE UndoSite(c)
    BY <1>21, UndoSiteStep, Flags DEF UndoSite, Freezes
  <1>22. CASE UndoStudio(c)
    BY <1>22, UndoStudioStep, Flags DEF UndoStudio, Freezes
  <1>23. CASE UndoFails(c)
    BY <1>23, UndoFailsStep, Flags DEF UndoFails, Freezes
  <1>24. CASE RollbackWork(c)
    BY <1>24, RollbackWorkStep, Flags DEF RollbackWork, At
  <1>25. CASE RollbackDone(c)
    BY <1>25, RollbackDoneStep, Flags DEF RollbackDone, At
  <1>26. CASE ReconcileSite(c)
    BY <1>26, ReconcileSiteStep, Flags DEF ReconcileSite, At
  <1>27. CASE ReconcileStudio(c)
    BY <1>27, ReconcileStudioStep, Flags DEF ReconcileStudio, At
  <1>28. CASE ReconcileRecord(c)
    BY <1>28, ReconcileRecordStep, Flags, ZenonT(40) DEF ReconcileRecord, At
  <1>29. CASE WorkFails(c)
    BY <1>29, WorkFailsStep, Flags DEF WorkFails, At
  <1>30. CASE ReconcileDone(c)
    BY <1>30, ReconcileDoneStep, Flags DEF ReconcileDone, At
  <1>31. CASE Crash(c)
    BY <1>31, CrashStep, Flags DEF Crash
  <1>32. CASE PromoteProbe(c)
    BY <1>32, PromoteProbeStep, Flags DEF PromoteProbe, At
  <1>33. CASE PromoteFailed(c)
    BY <1>33, PromoteFailedStep, Flags DEF PromoteFailed, At
  <1>34. QED BY <1>1, <1>2, <1>3, <1>4, <1>5, <1>6, <1>7, <1>8, <1>9, <1>10, <1>11, <1>12, <1>13,
                <1>14, <1>15, <1>16, <1>17, <1>18, <1>19, <1>20, <1>21, <1>22, <1>23, <1>24,
                <1>25, <1>26, <1>27, <1>28, <1>29, <1>30, <1>31, <1>32, <1>33 DEF Proceeds

\* What a step does to the pause: the one that makes it has to lift it.
PauseMove(c) ==
  /\ \A d \in Coordinator \ {c} : d \in mail' <=> d \in mail
  /\ paused' => Pausing(c)' \/ late' \/ (paused /\ ~Pausing(c))
  /\ late => late'

\* Whoever pauses the site is at a statement after which it is resumed.
LEMMA PauseMoves ==
  ASSUME TypeOK, NEW c \in Coordinator, Proceeds(c), Held(c) => generation = c, faults' = 0
  PROVE  PauseMove(c)
  <1> USE DEF PauseMove, Pausing, Has, Leaves, Held, Frozen, Promoting, Freezing, Freezer,
          studio, exports, site, history, drift
  <1>1. CASE WorkerPauses(c)
    BY <1>1, WorkerPausesStep, Flags DEF WorkerPauses, At
  <1>2. CASE Lifecycle(c)
    BY <1>2, LifecycleStep, Flags DEF Lifecycle, At
  <1>3. CASE Finish(c)
    BY <1>3, FinishStep, Flags DEF Finish, At
  <1>4. CASE Activate(c)
    BY <1>4, ActivateStep, Flags DEF Activate, At
  <1>5. CASE Switch(c)
    BY <1>5, SwitchStep, Flags DEF Switch, At, Released
  <1>6. CASE GenerateFails(c)
    BY <1>6, GenerateFailsStep, Flags DEF GenerateFails
  <1>7. CASE RestoreSite(c)
    BY <1>7, RestoreSiteStep, Flags DEF RestoreSite, At
  <1>8. CASE RestoreStudio(c)
    BY <1>8, RestoreStudioStep, Flags DEF RestoreStudio, At, Released
  <1>9. CASE FreezeStart(c)
    BY <1>9, FreezeStartStep, Flags DEF FreezeStart, Freezes
  <1>10. CASE FreezeFails(c)
    BY <1>10, FreezeFailsStep, Flags DEF FreezeFails, Freezes, Released
  <1>11. CASE FreezeOpen(c)
    BY <1>11, FreezeOpenStep, Flags DEF FreezeOpen, Freezes
  <1>12. CASE Thaw(c)
    BY <1>12, ThawStep, Flags DEF Thaw, Freezes, Released
  <1>13. CASE PromotePrepare(c)
    BY <1>13, PromotePrepareStep, Flags DEF PromotePrepare, At
  <1>14. CASE PromoteSite(c)
    BY <1>14, PromoteSiteStep, Flags DEF PromoteSite, At
  <1>15. CASE PromoteStudio(c)
    BY <1>15, PromoteStudioStep, Flags DEF PromoteStudio, At
  <1>16. CASE PromoteExport(c)
    BY <1>16, PromoteExportStep, Flags DEF PromoteExport, At
  <1>17. CASE PromoteRecord(c)
    BY <1>17, PromoteRecordStep, Flags DEF PromoteRecord, At
  <1>18. CASE PromoteFails(c)
    BY <1>18, PromoteFailsStep, Flags DEF PromoteFails
  <1>19. CASE PromoteDone(c)
    BY <1>19, PromoteDoneStep, Flags DEF PromoteDone, At, StillPaused
  <1>20. CASE PromoteCaught(c)
    BY <1>20, PromoteCaughtStep, Flags DEF PromoteCaught, At
  <1>21. CASE UndoSite(c)
    BY <1>21, UndoSiteStep, Flags DEF UndoSite, Freezes
  <1>22. CASE UndoStudio(c)
    BY <1>22, UndoStudioStep, Flags DEF UndoStudio, Freezes
  <1>23. CASE UndoFails(c)
    BY <1>23, UndoFailsStep, Flags DEF UndoFails, Freezes
  <1>24. CASE RollbackWork(c)
    BY <1>24, RollbackWorkStep, Flags DEF RollbackWork, At
  <1>25. CASE RollbackDone(c)
    BY <1>25, RollbackDoneStep, Flags DEF RollbackDone, At
  <1>26. CASE ReconcileSite(c)
    BY <1>26, ReconcileSiteStep, Flags DEF ReconcileSite, At
  <1>27. CASE ReconcileStudio(c)
    BY <1>27, ReconcileStudioStep, Flags DEF ReconcileStudio, At
  <1>28. CASE ReconcileRecord(c)
    BY <1>28, ReconcileRecordStep, Flags DEF ReconcileRecord, At
  <1>29. CASE WorkFails(c)
    BY <1>29, WorkFailsStep, Flags DEF WorkFails, At
  <1>30. CASE ReconcileDone(c)
    BY <1>30, ReconcileDoneStep, Flags DEF ReconcileDone, At
  <1>31. CASE Crash(c)
    BY <1>31, CrashStep, Flags DEF Crash
  <1>32. CASE PromoteProbe(c)
    BY <1>32, PromoteProbeStep, Flags DEF PromoteProbe, At, StillPaused
  <1>33. CASE PromoteFailed(c)
    BY <1>33, PromoteFailedStep, Flags DEF PromoteFailed, At
  <1>34. QED BY <1>1, <1>2, <1>3, <1>4, <1>5, <1>6, <1>7, <1>8, <1>9, <1>10, <1>11, <1>12, <1>13,
                <1>14, <1>15, <1>16, <1>17, <1>18, <1>19, <1>20, <1>21, <1>22, <1>23, <1>24,
                <1>25, <1>26, <1>27, <1>28, <1>29, <1>30, <1>31, <1>32, <1>33 DEF Proceeds

\* What a step does to the pause of a snapshot.
FrozenMove(c) ==
  /\ (paused => paused') \/ generation \in {"none", c} \/ Held(c)
  /\ op'[c].kind = "generate" /\ op'[c].pc \in {"snapshot", "built", "finished", "activated"} =>
       paused' \/ (/\ op[c].kind = "generate" /\ op[c].pc \in {"snapshot", "built", "finished", "activated"}
                   /\ (paused => paused'))

\* Only who holds the lease resumes the site, and a snapshot pauses it.
LEMMA FrozenMoves ==
  ASSUME TypeOK, NEW c \in Coordinator, Proceeds(c)
  PROVE  FrozenMove(c)
  <1> USE DEF FrozenMove, Has, Leaves, Held, Frozen, Promoting, Freezing, Freezer, studio,
          exports, site, history, drift
  <1>1. CASE WorkerPauses(c)
    BY <1>1, WorkerPausesStep, Flags DEF WorkerPauses, At
  <1>2. CASE Lifecycle(c)
    BY <1>2, LifecycleStep, Flags DEF Lifecycle, At
  <1>3. CASE Finish(c)
    BY <1>3, FinishStep, Flags DEF Finish, At
  <1>4. CASE Activate(c)
    BY <1>4, ActivateStep, Flags DEF Activate, At
  <1>5. CASE Switch(c)
    BY <1>5, SwitchStep, Flags DEF Switch, At, Released
  <1>6. CASE GenerateFails(c)
    BY <1>6, GenerateFailsStep, Flags DEF GenerateFails
  <1>7. CASE RestoreSite(c)
    BY <1>7, RestoreSiteStep, Flags DEF RestoreSite, At
  <1>8. CASE RestoreStudio(c)
    BY <1>8, RestoreStudioStep, Flags DEF RestoreStudio, At, Released
  <1>9. CASE FreezeStart(c)
    BY <1>9, FreezeStartStep, Flags DEF FreezeStart, Freezes
  <1>10. CASE FreezeFails(c)
    BY <1>10, FreezeFailsStep, Flags DEF FreezeFails, Freezes, Released
  <1>11. CASE FreezeOpen(c)
    BY <1>11, FreezeOpenStep, Flags DEF FreezeOpen, Freezes
  <1>12. CASE Thaw(c)
    BY <1>12, ThawStep, Flags DEF Thaw, Freezes, Released
  <1>13. CASE PromotePrepare(c)
    BY <1>13, PromotePrepareStep, Flags DEF PromotePrepare, At
  <1>14. CASE PromoteSite(c)
    BY <1>14, PromoteSiteStep, Flags DEF PromoteSite, At
  <1>15. CASE PromoteStudio(c)
    BY <1>15, PromoteStudioStep, Flags DEF PromoteStudio, At
  <1>16. CASE PromoteExport(c)
    BY <1>16, PromoteExportStep, Flags DEF PromoteExport, At
  <1>17. CASE PromoteRecord(c)
    BY <1>17, PromoteRecordStep, Flags DEF PromoteRecord, At
  <1>18. CASE PromoteFails(c)
    BY <1>18, PromoteFailsStep, Flags DEF PromoteFails
  <1>19. CASE PromoteDone(c)
    BY <1>19, PromoteDoneStep, Flags DEF PromoteDone, At, StillPaused
  <1>20. CASE PromoteCaught(c)
    BY <1>20, PromoteCaughtStep, Flags DEF PromoteCaught, At
  <1>21. CASE UndoSite(c)
    BY <1>21, UndoSiteStep, Flags DEF UndoSite, Freezes
  <1>22. CASE UndoStudio(c)
    BY <1>22, UndoStudioStep, Flags DEF UndoStudio, Freezes
  <1>23. CASE UndoFails(c)
    BY <1>23, UndoFailsStep, Flags DEF UndoFails, Freezes
  <1>24. CASE RollbackWork(c)
    BY <1>24, RollbackWorkStep, Flags DEF RollbackWork, At
  <1>25. CASE RollbackDone(c)
    BY <1>25, RollbackDoneStep, Flags DEF RollbackDone, At
  <1>26. CASE ReconcileSite(c)
    BY <1>26, ReconcileSiteStep, Flags DEF ReconcileSite, At
  <1>27. CASE ReconcileStudio(c)
    BY <1>27, ReconcileStudioStep, Flags DEF ReconcileStudio, At
  <1>28. CASE ReconcileRecord(c)
    BY <1>28, ReconcileRecordStep, Flags DEF ReconcileRecord, At
  <1>29. CASE WorkFails(c)
    BY <1>29, WorkFailsStep, Flags DEF WorkFails, At
  <1>30. CASE ReconcileDone(c)
    BY <1>30, ReconcileDoneStep, Flags DEF ReconcileDone, At
  <1>31. CASE Crash(c)
    BY <1>31, CrashStep, Flags DEF Crash
  <1>32. CASE PromoteProbe(c)
    BY <1>32, PromoteProbeStep, Flags DEF PromoteProbe, At, StillPaused
  <1>33. CASE PromoteFailed(c)
    BY <1>33, PromoteFailedStep, Flags DEF PromoteFailed, At
  <1>34. QED BY <1>1, <1>2, <1>3, <1>4, <1>5, <1>6, <1>7, <1>8, <1>9, <1>10, <1>11, <1>12, <1>13,
                <1>14, <1>15, <1>16, <1>17, <1>18, <1>19, <1>20, <1>21, <1>22, <1>23, <1>24,
                <1>25, <1>26, <1>27, <1>28, <1>29, <1>30, <1>31, <1>32, <1>33 DEF Proceeds

\* The lease is with the operation that needs it after every step.
LEMMA LeaseKept ==
  ASSUME TypeOK, LeaseInv, [Next]_vars
  PROVE  LeaseInv'
  <1> SUFFICES ASSUME faults' = 0 \/ ~overrun', NEW d \in Coordinator, Held(d)'
               PROVE  generation' = d
    BY DEF LeaseInv
  <1>1. CASE Aside
    <2>1. Held(d) /\ (faults = 0 \/ ~overrun)
      BY <1>1, Asides DEF Held
    <2>2. QED BY <1>1, <2>1, Asides, ReleaseAssumption DEF LeaseInv
  <1>2. ASSUME NEW c \in Coordinator, Proceeds(c)
        PROVE  generation' = d
    <2>1. LeaseMove(c)
      BY <1>2, LeaseMoves
    <2>2. faults = 0 \/ ~overrun
      BY <2>1 DEF LeaseMove
    <2>3. CASE d = c
      BY <2>1, <2>2, <2>3 DEF LeaseMove, LeaseInv
    <2>4. CASE d # c
      <3>1. Held(d)
        BY <2>1, <2>4 DEF LeaseMove, Others, Held
      <3>2. QED BY <2>1, <2>2, <2>4, <3>1, ReleaseAssumption DEF LeaseMove, LeaseInv
    <2>5. QED BY <2>3, <2>4
  <1>3. ASSUME NEW c \in Coordinator, Lapse(c)
        PROVE  generation' = d
    BY <1>3, Flags DEF Lapse
  <1>4. ASSUME NEW c \in Coordinator, NEW r \in Release, Starts(c, r)
        PROVE  generation' = d
    <2>1. CASE d = c
      BY <1>4, <2>1, StartMoves DEF Held, Freezer, Frozen
    <2>2. CASE d # c
      <3>1. Held(d)
        BY <1>4, <2>2, StartMoves DEF Others, Held
      <3>2. faults = 0 \/ ~overrun
        BY <1>4, StartMoves, Flags
          DEF Starts, GenerateStart, PromoteStart, ReconcileStart, history, drift
      <3>3. QED BY <1>4, <2>2, <3>1, <3>2, StartMoves, ReleaseAssumption DEF LeaseInv
    <2>3. QED BY <2>1, <2>2
  <1>5. QED BY <1>1, <1>2, <1>3, <1>4, Cases DEF Aside

\* The pause of a snapshot survives every step, openings included.
LEMMA FrozenKept ==
  ASSUME TypeOK, LeaseInv, FrozenInv, [Next]_vars
  PROVE  FrozenInv'
  <1> DEFINE Pauses(d) == /\ op[d].kind = "generate"
                          /\ op[d].pc \in {"snapshot", "built", "finished", "activated"}
  <1> SUFFICES ASSUME ~overrun', NEW d \in Coordinator, Pauses(d)'
               PROVE  paused'
    BY DEF FrozenInv
  <1>1. CASE Aside
    <2>1. Pauses(d) /\ ~overrun
      BY <1>1, Asides
    <2>2. paused /\ generation = d
      BY <2>1 DEF FrozenInv, LeaseInv, Held
    <2>3. QED BY <1>1, <2>2, ReleaseAssumption
              DEF Aside, Open, StillPaused, Expire, RecoverJob, RecoverPromotion, vars, site,
                  Elsewhere, ElsewhereStart, ElsewhereExport, ElsewhereReleases, ElsewhereEnds,
                  ElsewhereFails
  <1>2. ASSUME NEW c \in Coordinator, Proceeds(c)
        PROVE  paused'
    <2>1. LeaseMove(c) /\ FrozenMove(c)
      BY <1>2, LeaseMoves, FrozenMoves
    <2>2. ~overrun
      BY <2>1 DEF LeaseMove
    <2>3. CASE d = c
      BY <2>1, <2>2, <2>3 DEF FrozenMove, FrozenInv
    <2>4. CASE d # c
      <3>1. Pauses(d)
        BY <2>1, <2>4 DEF LeaseMove, Others
      <3>2. paused /\ generation = d
        BY <2>2, <3>1 DEF FrozenInv, LeaseInv, Held
      <3>3. ~Held(c)
        BY <2>2, <2>4, <3>2 DEF LeaseInv
      <3>4. QED BY <2>1, <2>4, <3>2, <3>3, ReleaseAssumption DEF FrozenMove
    <2>5. QED BY <2>3, <2>4
  <1>3. ASSUME NEW c \in Coordinator, Lapse(c)
        PROVE  paused'
    BY <1>3 DEF Lapse
  <1>4. ASSUME NEW c \in Coordinator, NEW r \in Release, Starts(c, r)
        PROVE  paused'
    <2>1. ~overrun
      BY <1>4, Flags DEF Starts, GenerateStart, PromoteStart, ReconcileStart, history, drift
    <2>2. CASE d = c
      BY <1>4, <2>2, StartMoves DEF Freezer
    <2>3. CASE d # c
      BY <1>4, <2>1, <2>3, StartMoves DEF Others, FrozenInv, site
    <2>4. QED BY <2>2, <2>3
  <1>5. QED BY <1>1, <1>2, <1>3, <1>4, Cases DEF Aside

\* A pause has somebody to lift it after every step.
LEMMA PauseKept ==
  ASSUME TypeOK, LeaseInv, PauseInv, [Next]_vars
  PROVE  PauseInv'
  <1> SUFFICES ASSUME faults' = 0, ~late', paused'
               PROVE  \E d \in Coordinator : Pausing(d)'
    BY DEF PauseInv
  <1>1. CASE Aside
    <2>1. paused
      BY <1>1, Flags DEF Aside, Open, StillPaused, Expire, RecoverJob, RecoverPromotion, vars,
        site, Elsewhere, ElsewhereStart, ElsewhereExport, ElsewhereReleases,
                         ElsewhereEnds, ElsewhereFails
    <2>2. PICK d \in Coordinator : Pausing(d)
      BY <1>1, <2>1, Asides DEF PauseInv
    <2>3. Pausing(d)'
      BY <1>1, <2>2, Asides DEF Pausing
    <2>4. QED BY <2>3
  <1>2. ASSUME NEW c \in Coordinator, Proceeds(c)
        PROVE  \E d \in Coordinator : Pausing(d)'
    <2>1. LeaseMove(c)
      BY <1>2, LeaseMoves
    <2>2. faults = 0 /\ (Held(c) => generation = c)
      BY <2>1 DEF LeaseMove, LeaseInv
    <2>3. PauseMove(c)
      BY <1>2, <2>2, PauseMoves
    <2>4. CASE Pausing(c)'
      BY <2>4
    <2>5. CASE paused /\ ~Pausing(c)
      <3>1. PICK d \in Coordinator : Pausing(d)
        BY <2>2, <2>3, <2>5 DEF PauseInv, PauseMove
      <3>2. d # c
        BY <2>5, <3>1
      <3>3. Pausing(d)'
        BY <2>1, <2>3, <3>1, <3>2 DEF LeaseMove, PauseMove, Others, Pausing
      <3>4. QED BY <3>3
    <2>6. QED BY <2>3, <2>4, <2>5 DEF PauseMove
  <1>3. ASSUME NEW c \in Coordinator, Lapse(c)
        PROVE  \E d \in Coordinator : Pausing(d)'
    BY <1>3, Flags DEF Lapse
  <1>4. ASSUME NEW c \in Coordinator, NEW r \in Release, Starts(c, r)
        PROVE  \E d \in Coordinator : Pausing(d)'
    <2>1. PICK d \in Coordinator : Pausing(d)
      BY <1>4, StartMoves DEF PauseInv, site
    <2>2. CASE d # c
      BY <1>4, <2>1, <2>2, StartMoves DEF Others, Pausing
    <2>3. CASE d = c
      BY <1>4, <2>1, <2>3, StartMoves DEF Pausing, Idle, Freezer
    <2>4. QED BY <2>2, <2>3
  <1>5. QED BY <1>1, <1>2, <1>3, <1>4, Cases DEF Aside

-----------------------------------------------------------------------------
(* Operations and the records of their releases                            *)

\* What a step does to the records.
RecordMove(c) ==
  /\ op[c] = Idle => UNCHANGED <<job, promotion, previous>> /\ op'[c] = Idle
  /\ op'[c] # Idle => /\ op'[c].release = op[c].release
                      /\ op'[c].kind \in Owner <=> op[c].kind \in Owner
  /\ \A r \in Release : r # op[c].release =>
       job'[r] = job[r] /\ promotion'[r] = promotion[r] /\ previous'[r] = previous[r]
  /\ op[c].kind \notin Owner => UNCHANGED <<job, previous>>
  /\ op[c].kind = "generate" => UNCHANGED promotion
  /\ \A r \in Release : /\ job[r] # "absent" => job'[r] # "absent"
                        /\ promotion[r] # "none" => promotion'[r] # "none"

\* An operation writes the records of its own release.
LEMMA RecordMoves ==
  ASSUME TypeOK, NEW c \in Coordinator, Proceeds(c)
  PROVE  RecordMove(c)
  <1>0. /\ op[c].kind = "none" <=> op[c] = Idle
        /\ op[c] # Idle => op[c].release \in Release /\ op[c].old \in Id
        /\ job \in [Release -> {"absent", "building", "ready", "failed"}]
        /\ promotion \in [Release -> {"none", "preparing", "ready", "failed", "unknown"}]
        /\ previous \in [Release -> Id]
    BY Kinds, Tables DEF Freezer
  <1> USE <1>0 DEF RecordMove, Has, Leaves, Owner, Freezer, studio, exports
  <1>1. CASE WorkerPauses(c)
    BY <1>1, WorkerPausesStep, Flags DEF WorkerPauses, At
  <1>2. CASE Lifecycle(c)
    BY <1>2, LifecycleStep, Flags DEF Lifecycle, At
  <1>3. CASE Finish(c)
    BY <1>3, FinishStep, Flags DEF Finish, At
  <1>4. CASE Activate(c)
    BY <1>4, ActivateStep, Flags DEF Activate, At
  <1>5. CASE Switch(c)
    BY <1>5, SwitchStep, Flags DEF Switch, At, Released
  <1>6. CASE GenerateFails(c)
    BY <1>6, GenerateFailsStep, Flags DEF GenerateFails
  <1>7. CASE RestoreSite(c)
    BY <1>7, RestoreSiteStep, Flags DEF RestoreSite, At
  <1>8. CASE RestoreStudio(c)
    BY <1>8, RestoreStudioStep, Flags DEF RestoreStudio, At, Released
  <1>9. CASE FreezeStart(c)
    BY <1>9, FreezeStartStep, Flags DEF FreezeStart, Freezes
  <1>10. CASE FreezeFails(c)
    BY <1>10, FreezeFailsStep, Flags DEF FreezeFails, Freezes, Released
  <1>11. CASE FreezeOpen(c)
    BY <1>11, FreezeOpenStep, Flags DEF FreezeOpen, Freezes
  <1>12. CASE Thaw(c)
    BY <1>12, ThawStep, Flags DEF Thaw, Freezes, Released
  <1>13. CASE PromotePrepare(c)
    BY <1>13, PromotePrepareStep, Flags DEF PromotePrepare, Made, At
  <1>14. CASE PromoteSite(c)
    BY <1>14, PromoteSiteStep, Flags DEF PromoteSite, At
  <1>15. CASE PromoteStudio(c)
    BY <1>15, PromoteStudioStep, Flags DEF PromoteStudio, At
  <1>16. CASE PromoteExport(c)
    BY <1>16, PromoteExportStep, Flags DEF PromoteExport, At
  <1>17. CASE PromoteRecord(c)
    BY <1>17, PromoteRecordStep, Flags DEF PromoteRecord, At
  <1>18. CASE PromoteFails(c)
    BY <1>18, PromoteFailsStep, Flags DEF PromoteFails
  <1>19. CASE PromoteDone(c)
    BY <1>19, PromoteDoneStep, Flags DEF PromoteDone, At
  <1>20. CASE PromoteCaught(c)
    BY <1>20, PromoteCaughtStep, Flags DEF PromoteCaught, At
  <1>21. CASE UndoSite(c)
    BY <1>21, UndoSiteStep, Flags DEF UndoSite, Freezes
  <1>22. CASE UndoStudio(c)
    BY <1>22, UndoStudioStep, Flags DEF UndoStudio, Freezes
  <1>23. CASE UndoFails(c)
    BY <1>23, UndoFailsStep, Flags DEF UndoFails, Freezes
  <1>24. CASE RollbackWork(c)
    BY <1>24, RollbackWorkStep, Flags DEF RollbackWork, At
  <1>25. CASE RollbackDone(c)
    BY <1>25, RollbackDoneStep, Flags DEF RollbackDone, At
  <1>26. CASE ReconcileSite(c)
    BY <1>26, ReconcileSiteStep, Flags DEF ReconcileSite, At
  <1>27. CASE ReconcileStudio(c)
    BY <1>27, ReconcileStudioStep, Flags DEF ReconcileStudio, At
  <1>28. CASE ReconcileRecord(c)
    BY <1>28, ReconcileRecordStep, Flags DEF ReconcileRecord, At
  <1>29. CASE WorkFails(c)
    BY <1>29, WorkFailsStep, Flags DEF WorkFails, At
  <1>30. CASE ReconcileDone(c)
    BY <1>30, ReconcileDoneStep, Flags DEF ReconcileDone, At
  <1>31. CASE Crash(c)
    BY <1>31, CrashStep, Flags DEF Crash
  <1>32. CASE PromoteProbe(c)
    BY <1>32, PromoteProbeStep, Flags DEF PromoteProbe, At
  <1>33. CASE PromoteFailed(c)
    BY <1>33, PromoteFailedStep, Flags DEF PromoteFailed, At
  <1>34. QED BY <1>1, <1>2, <1>3, <1>4, <1>5, <1>6, <1>7, <1>8, <1>9, <1>10, <1>11, <1>12, <1>13,
                <1>14, <1>15, <1>16, <1>17, <1>18, <1>19, <1>20, <1>21, <1>22, <1>23, <1>24,
                <1>25, <1>26, <1>27, <1>28, <1>29, <1>30, <1>31, <1>32, <1>33 DEF Proceeds

\* What a step may write: ids that were used before, or the release in hand.
FreshMove(c) ==
  /\ \/ serving' \in Known /\ active' \in Known
     \/ Falls /\ UNCHANGED <<job, foreign>>
  /\ \A r \in stray' : job[r] # "absent"
  /\ \A r \in Release : previous'[r] \in Known
  /\ op'[c] # Idle => op'[c].old \in Known

\* The release a promotion keeps is one the databases name.
LEMMA FreshMovesPromotePrepare ==
  ASSUME TypeOK, NEW c \in Coordinator, PromotePrepare(c), FreshInv, OpOK(c)
  PROVE  FreshMove(c)
  <1> DEFINE o == IF active # "none" THEN active ELSE serving
  <1>1. o \in Known
    BY DEF FreshInv
  <1>2. /\ Has(c, "promote", op[c].release, "probe", o)
        /\ previous' = [previous EXCEPT ![op[c].release] = o]
        /\ UNCHANGED <<serving, active, stray>>
    BY PromotePrepareStep DEF PromotePrepare, site, drift
  <1> HIDE DEF o
  <1>3. QED BY <1>1, <1>2, Tables DEF FreshMove, FreshInv, Has

\* A reconciliation puts back one the databases name.
LEMMA FreshMovesReconcileSite ==
  ASSUME TypeOK, NEW c \in Coordinator, ReconcileSite(c), FreshInv, ForeignInv, OpOK(c)
  PROVE  FreshMove(c)
  <1>1. op[c].kind = "reconcile" /\ op[c].release \in Release /\ op[c].old \in Known
    BY Kinds DEF ReconcileSite, At, Freezer, FreshInv, Idle
  <1>2. previous[op[c].release] \in Known
    BY <1>1 DEF FreshInv
  <1>3. op[c].release \notin foreign
    BY <1>1, Kinds DEF ForeignInv, InHand
  <1>4. active' \in Known
    BY <1>1, <1>2, <1>3 DEF ReconcileSite, FreshInv, Known
  <1>5. op'[c].old \in {op[c].old, active'}
    BY ReconcileSiteStep DEF Has
  <1>6. UNCHANGED <<serving, stray, job, previous>>
    BY DEF ReconcileSite, studio, exports, drift
  <1>7. QED BY <1>1, <1>4, <1>5, <1>6 DEF FreshMove, FreshInv

\* An opening brings the site to the active release, or falls back.
LEMMA FreshMovesOpening ==
  ASSUME TypeOK, NEW c \in Coordinator, FreezeOpen(c) \/ PromoteProbe(c) \/ PromoteDone(c),
         FreshInv
  PROVE  FreshMove(c)
  <1>1. Opens /\ UNCHANGED <<job, previous, foreign>>
    BY OpeningSteps
  <1>2. op'[c] # Idle => op'[c].old = op[c].old /\ op[c] # Idle
    <2>1. CASE FreezeOpen(c)
      BY <2>1, FreezeOpenStep, Kinds DEF FreezeOpen, Freezes, Has, Freezer
    <2>2. CASE PromoteProbe(c)
      BY <2>2, PromoteProbeStep, Kinds DEF PromoteProbe, At, Has, Freezer
    <2>3. CASE PromoteDone(c)
      BY <2>3, PromoteDoneStep DEF Leaves
    <2>4. QED BY <2>1, <2>2, <2>3
  <1>3. CASE active' = Healed /\ UNCHANGED <<serving, stray, borrowed>>
    BY <1>1, <1>2, <1>3 DEF FreshMove, FreshInv, Healed
  <1>4. CASE Falls
    <2>1. \A r \in stray' : job[r] # "absent"
      BY <1>4 DEF Falls, FreshInv
    <2>2. QED BY <1>1, <1>2, <1>4, <2>1 DEF FreshMove, FreshInv
  <1>5. QED BY <1>1, <1>3, <1>4 DEF Opens

\* What is put back was used before.
LEMMA FreshMovesBack ==
  ASSUME TypeOK, NEW c \in Coordinator, UndoStudio(c) \/ ReconcileStudio(c), FreshInv
  PROVE  FreshMove(c)
  <1>1. op[c] # Idle /\ op'[c].old = op[c].old
    <2>1. CASE UndoStudio(c)
      BY <2>1, UndoStudioStep, Kinds DEF UndoStudio, Freezes, Has, Freezer
    <2>2. CASE ReconcileStudio(c)
      BY <2>2, ReconcileStudioStep, Kinds DEF ReconcileStudio, At, Has, Freezer
    <2>3. QED BY <2>1, <2>2
  <1>2. op[c].old \in Known /\ serving \in Known /\ active \in Known
    BY <1>1 DEF FreshInv
  <1>3. UNCHANGED <<active, previous>> /\ serving' \in Known
    BY <1>2, BackSteps DEF Unread
  <1>4. serving # "none" => job[serving] # "absent"
    BY <1>2 DEF Known
  <1>5. \A r \in stray' : job[r] # "absent"
    BY <1>4, BackSteps DEF Unread, FreshInv
  <1>6. QED BY <1>1, <1>2, <1>3, <1>5 DEF FreshMove, FreshInv

\* The other steps pass on what they have in hand.
LEMMA FreshMoves ==
  ASSUME TypeOK, NEW c \in Coordinator, Proceeds(c), FreshInv, ForeignInv, OpOK(c)
  PROVE  FreshMove(c)
  <1>a. op[c] # Idle => op[c].release \notin foreign
    BY Kinds DEF ForeignInv, InHand
  <1>0. /\ op[c].kind = "none" <=> op[c] = Idle
        /\ op[c] # Idle => op[c].release \in Release /\ op[c].old \in Id
        /\ job \in [Release -> {"absent", "building", "ready", "failed"}]
        /\ promotion \in [Release -> {"none", "preparing", "ready", "failed", "unknown"}]
        /\ previous \in [Release -> Id]
    BY Kinds, Tables DEF Freezer
  <1> USE <1>0, <1>a DEF FreshMove, FreshInv, Known, OpOK, Has, Leaves, Owner, Freezer, Frozen,
          Promoting, Freezing, studio, exports, site, history, drift
  <1>1. CASE WorkerPauses(c)
    BY <1>1, WorkerPausesStep, Flags DEF WorkerPauses, At
  <1>2. CASE Lifecycle(c)
    BY <1>2, LifecycleStep, Flags DEF Lifecycle, At
  <1>3. CASE Finish(c)
    BY <1>3, FinishStep, Flags DEF Finish, At
  <1>4. CASE Activate(c)
    BY <1>4, ActivateStep, Flags DEF Activate, At
  <1>5. CASE Switch(c)
    BY <1>5, SwitchStep, Flags DEF Switch, At, Released
  <1>6. CASE GenerateFails(c)
    BY <1>6, GenerateFailsStep, Flags DEF GenerateFails
  <1>7. CASE RestoreSite(c)
    BY <1>7, RestoreSiteStep, Flags DEF RestoreSite, At
  <1>8. CASE RestoreStudio(c)
    BY <1>8, RestoreStudioStep, Flags DEF RestoreStudio, At, Released
  <1>9. CASE FreezeStart(c)
    BY <1>9, FreezeStartStep, Flags DEF FreezeStart, Freezes
  <1>10. CASE FreezeFails(c)
    BY <1>10, FreezeFailsStep, Flags DEF FreezeFails, Freezes, Released
  <1>11. CASE FreezeOpen(c)
    BY <1>11, FreshMovesOpening
  <1>12. CASE Thaw(c)
    BY <1>12, ThawStep, Flags DEF Thaw, Freezes, Released
  <1>13. CASE PromotePrepare(c)
    BY <1>13, FreshMovesPromotePrepare
  <1>14. CASE PromoteSite(c)
    BY <1>14, PromoteSiteStep, Flags DEF PromoteSite, At
  <1>15. CASE PromoteStudio(c)
    BY <1>15, PromoteStudioStep, Flags DEF PromoteStudio, At
  <1>16. CASE PromoteExport(c)
    BY <1>16, PromoteExportStep, Flags DEF PromoteExport, At
  <1>17. CASE PromoteRecord(c)
    BY <1>17, PromoteRecordStep, Flags DEF PromoteRecord, At
  <1>18. CASE PromoteFails(c)
    BY <1>18, PromoteFailsStep, Flags DEF PromoteFails
  <1>19. CASE PromoteDone(c)
    BY <1>19, FreshMovesOpening
  <1>20. CASE PromoteCaught(c)
    BY <1>20, PromoteCaughtStep, Flags DEF PromoteCaught, At
  <1>21. CASE UndoSite(c)
    BY <1>21, UndoSiteStep, Flags DEF UndoSite, Freezes
  <1>22. CASE UndoStudio(c)
    BY <1>22, FreshMovesBack
  <1>23. CASE UndoFails(c)
    BY <1>23, UndoFailsStep, Flags DEF UndoFails, Freezes
  <1>24. CASE RollbackWork(c)
    BY <1>24, RollbackWorkStep, Flags DEF RollbackWork, At
  <1>25. CASE RollbackDone(c)
    BY <1>25, RollbackDoneStep, Flags DEF RollbackDone, At
  <1>26. CASE ReconcileSite(c)
    BY <1>26, FreshMovesReconcileSite
  <1>27. CASE ReconcileStudio(c)
    BY <1>27, FreshMovesBack
  <1>28. CASE ReconcileRecord(c)
    BY <1>28, ReconcileRecordStep, Flags DEF ReconcileRecord, At
  <1>29. CASE WorkFails(c)
    BY <1>29, WorkFailsStep, Flags DEF WorkFails, At
  <1>30. CASE ReconcileDone(c)
    BY <1>30, ReconcileDoneStep, Flags DEF ReconcileDone, At
  <1>31. CASE Crash(c)
    BY <1>31, CrashStep, Flags DEF Crash
  <1>32. CASE PromoteProbe(c)
    BY <1>32, FreshMovesOpening
  <1>33. CASE PromoteFailed(c)
    BY <1>33, PromoteFailedStep, Flags DEF PromoteFailed, At
  <1>34. QED BY <1>1, <1>2, <1>3, <1>4, <1>5, <1>6, <1>7, <1>8, <1>9, <1>10, <1>11, <1>12, <1>13,
                <1>14, <1>15, <1>16, <1>17, <1>18, <1>19, <1>20, <1>21, <1>22, <1>23, <1>24,
                <1>25, <1>26, <1>27, <1>28, <1>29, <1>30, <1>31, <1>32, <1>33 DEF Proceeds

\* The job of a promotion, and the release it keeps, are written together.
LEMMA OpMovesPromotePrepare ==
  ASSUME TypeOK, NEW c \in Coordinator, PromotePrepare(c), FreshInv, OpOK(c)
  PROVE  OpOK(c)'
  <1> DEFINE o == IF active # "none" THEN active ELSE serving
             r == op[c].release
  <1>1. r \in Release /\ job[r] = "absent" /\ promotion[r] # "none" /\ ~op[c].ok
    BY Kinds DEF PromotePrepare, At, OpOK, Freezer, Frozen, Promoting, Freezing
  <1>2. o # r
    BY <1>1, ReleaseAssumption DEF FreshInv, Known
  <1>3. /\ Has(c, "promote", r, "probe", o) /\ With(c, op[c].ok, op[c].attempted)
        /\ previous' = [previous EXCEPT ![r] = o] /\ job' = [job EXCEPT ![r] = "building"]
        /\ UNCHANGED promotion
    BY PromotePrepareStep DEF PromotePrepare, Made
  <1>4. previous'[r] = o /\ job'[r] = "building" /\ promotion'[r] = promotion[r]
    BY <1>1, <1>3, Tables
  <1> HIDE DEF o, r
  <1>5. QED BY <1>1, <1>2, <1>3, <1>4 DEF OpOK, Has, With, Freezer, Owner, Raiser

\* A promotion that was caught is over, or a rollback from now on.
LEMMA OpMovesPromoteCaught ==
  ASSUME TypeOK, NEW c \in Coordinator, PromoteCaught(c), FreshInv, OpOK(c)
  PROVE  OpOK(c)'
  <1>1. /\ op[c].kind = "promote" /\ op[c].release \in Release
        /\ promotion[op[c].release] # "none" /\ op[c].old # op[c].release
        /\ job[op[c].release] # "absent" => op[c].old = previous[op[c].release]
    BY Kinds DEF PromoteCaught, At, OpOK, Freezer, Owner, Raiser
  <1>2. CASE serving = op[c].release \/ (op[c].attempted /\ serving = op[c].old)
    <2>1. job[op[c].release] # "absent"
      BY <1>1, <1>2, ReleaseAssumption DEF FreshInv, Known, OpOK
    <2>2. /\ Has(c, "rollback", op[c].release, "freeze", op[c].old)
          /\ UNCHANGED <<promotion, job, previous>>
      BY <1>2, PromoteCaughtStep DEF PromoteCaught, exports
    <2>3. QED BY <1>1, <2>1, <2>2 DEF OpOK, Has, Freezer, Freezing, Frozen, Owner, Raiser
  <1>3. CASE ~(serving = op[c].release \/ (op[c].attempted /\ serving = op[c].old))
    <2>1. /\ Has(c, "promote", op[c].release, "job", op[c].old)
          /\ op'[c].attempted = op[c].attempted
          /\ promotion' = [promotion EXCEPT ![op[c].release] = "failed"]
          /\ UNCHANGED <<job, previous>>
      BY <1>3, PromoteCaughtStep DEF PromoteCaught, With, exports
    <2>2. promotion'[op[c].release] = "failed"
      BY <1>1, <2>1, Tables
    <2>3. op[c].attempted => job[op[c].release] # "absent"
      BY <1>1 DEF OpOK
    <2>4. QED BY <1>1, <2>1, <2>2, <2>3
              DEF OpOK, Has, Freezer, Freezing, Frozen, Promoting, Owner, Raiser
  <1>4. QED BY <1>2, <1>3

\* A reconciliation that goes on to the studio found its release on the site.
LEMMA OpMovesReconcileSite ==
  ASSUME TypeOK, NEW c \in Coordinator, ReconcileSite(c), FreshInv, OpOK(c)
  PROVE  OpOK(c)'
  <1>1. /\ op[c].kind = "reconcile" /\ op[c].release \in Release
        /\ promotion[op[c].release] # "none"
    BY Kinds DEF ReconcileSite, At, OpOK, Freezer
  <1>2. /\ \/ Has(c, "reconcile", op[c].release, "record", op[c].old)
           \/ /\ Has(c, "reconcile", op[c].release, "studio", active')
              /\ active = op[c].release
        /\ op'[c].ok = op[c].ok /\ op[c].pc = "work"
        /\ UNCHANGED studio
    BY ReconcileSiteStep DEF ReconcileSite, At, With
  <1>3. active = op[c].release => job[op[c].release] # "absent"
    BY <1>1, ReleaseAssumption, SMTT(40) DEF FreshInv, Known
  <1>4. ~op[c].ok
    BY <1>1, <1>2, SMTT(40) DEF OpOK, Freezer, Frozen, Promoting, Freezing
  <1>5. QED BY <1>1, <1>2, <1>3, <1>4
              DEF OpOK, Has, Freezer, Freezing, Owner, Raiser, studio, exports

\* How far an operation has come still tells what its release has on record.
LEMMA OpMoves ==
  ASSUME TypeOK, NEW c \in Coordinator, Proceeds(c), FreshInv, OpOK(c)
  PROVE  OpOK(c)'
  <1>0. /\ op[c].kind = "none" <=> op[c] = Idle
        /\ op[c] # Idle => op[c].release \in Release /\ op[c].old \in Id
        /\ job \in [Release -> {"absent", "building", "ready", "failed"}]
        /\ promotion \in [Release -> {"none", "preparing", "ready", "failed", "unknown"}]
        /\ previous \in [Release -> Id]
    BY Kinds, Tables DEF Freezer
  <1> USE <1>0 DEF OpOK, Has, With, Leaves, Owner, Raiser, Freezer, Frozen, Promoting,
          Freezing, studio, exports, site, history, drift
  <1>1. CASE WorkerPauses(c)
    BY <1>1, WorkerPausesStep, Flags DEF WorkerPauses, At
  <1>2. CASE Lifecycle(c)
    BY <1>2, LifecycleStep, Flags DEF Lifecycle, At
  <1>3. CASE Finish(c)
    BY <1>3, FinishStep, Flags DEF Finish, At
  <1>4. CASE Activate(c)
    BY <1>4, ActivateStep, Flags DEF Activate, At
  <1>5. CASE Switch(c)
    BY <1>5, SwitchStep, Flags DEF Switch, At, Released
  <1>6. CASE GenerateFails(c)
    BY <1>6, GenerateFailsStep, Flags DEF GenerateFails
  <1>7. CASE RestoreSite(c)
    BY <1>7, RestoreSiteStep, Flags DEF RestoreSite, At
  <1>8. CASE RestoreStudio(c)
    BY <1>8, RestoreStudioStep, Flags DEF RestoreStudio, At, Released
  <1>9. CASE FreezeStart(c)
    BY <1>9, FreezeStartStep, Flags DEF FreezeStart, Freezes
  <1>10. CASE FreezeFails(c)
    BY <1>10, FreezeFailsStep, Flags DEF FreezeFails, Freezes, Released
  <1>11. CASE FreezeOpen(c)
    BY <1>11, FreezeOpenStep, Flags DEF FreezeOpen, Freezes
  <1>12. CASE Thaw(c)
    BY <1>12, ThawStep, Flags DEF Thaw, Freezes, Released
  <1>13. CASE PromotePrepare(c)
    BY <1>13, OpMovesPromotePrepare
  <1>14. CASE PromoteSite(c)
    BY <1>14, PromoteSiteStep, Flags DEF PromoteSite, At
  <1>15. CASE PromoteStudio(c)
    BY <1>15, PromoteStudioStep, Flags DEF PromoteStudio, At
  <1>16. CASE PromoteExport(c)
    BY <1>16, PromoteExportStep, Flags DEF PromoteExport, At
  <1>17. CASE PromoteRecord(c)
    BY <1>17, PromoteRecordStep, Flags DEF PromoteRecord, At
  <1>18. CASE PromoteFails(c)
    BY <1>18, PromoteFailsStep, Flags DEF PromoteFails
  <1>19. CASE PromoteDone(c)
    BY <1>19, PromoteDoneStep, Flags DEF PromoteDone, At
  <1>20. CASE PromoteCaught(c)
    BY <1>20, OpMovesPromoteCaught
  <1>21. CASE UndoSite(c)
    BY <1>21, UndoSiteStep, Flags DEF UndoSite, Freezes
  <1>22. CASE UndoStudio(c)
    BY <1>22, UndoStudioStep, Flags DEF UndoStudio, Freezes
  <1>23. CASE UndoFails(c)
    BY <1>23, UndoFailsStep, Flags DEF UndoFails, Freezes
  <1>24. CASE RollbackWork(c)
    BY <1>24, RollbackWorkStep, Flags DEF RollbackWork, At
  <1>25. CASE RollbackDone(c)
    BY <1>25, RollbackDoneStep, Flags DEF RollbackDone, At
  <1>26. CASE ReconcileSite(c)
    BY <1>26, OpMovesReconcileSite
  <1>27. CASE ReconcileStudio(c)
    BY <1>27, ReconcileStudioStep, Flags DEF ReconcileStudio, At
  <1>28. CASE ReconcileRecord(c)
    BY <1>28, ReconcileRecordStep, Flags DEF ReconcileRecord, At
  <1>29. CASE WorkFails(c)
    BY <1>29, WorkFailsStep, Flags DEF WorkFails, At
  <1>30. CASE ReconcileDone(c)
    BY <1>30, ReconcileDoneStep, Flags DEF ReconcileDone, At
  <1>31. CASE Crash(c)
    BY <1>31, CrashStep, Flags DEF Crash
  <1>32. CASE PromoteProbe(c)
    BY <1>32, PromoteProbeStep, Flags DEF PromoteProbe, At
  <1>33. CASE PromoteFailed(c)
    BY <1>33, PromoteFailedStep, Flags DEF PromoteFailed, At
  <1>34. QED BY <1>1, <1>2, <1>3, <1>4, <1>5, <1>6, <1>7, <1>8, <1>9, <1>10, <1>11, <1>12, <1>13,
                <1>14, <1>15, <1>16, <1>17, <1>18, <1>19, <1>20, <1>21, <1>22, <1>23, <1>24,
                <1>25, <1>26, <1>27, <1>28, <1>29, <1>30, <1>31, <1>32, <1>33,
                ZenonT(40) DEF Proceeds

\* Only the preparation of a promotion writes the release to go back to.
LEMMA PreviousMoves ==
  ASSUME NEW c \in Coordinator, Proceeds(c), ~PromotePrepare(c)
  PROVE  UNCHANGED previous
  BY DEF Proceeds, WorkerPauses, Lifecycle, Finish, Activate, Switch, GenerateFails, RestoreSite,
         RestoreStudio, FreezeStart, FreezeFails, FreezeOpen, Thaw, PromoteSite, PromoteStudio,
         PromoteExport, PromoteRecord, PromoteFails, PromoteDone, PromoteCaught, UndoSite,
         UndoStudio, UndoFails, RollbackWork, RollbackDone, ReconcileSite, ReconcileStudio,
         ReconcileRecord, WorkFails, ReconcileDone, Crash, PromoteProbe, PromoteFailed, studio,
         exports

\* What an operation that begins writes.
LEMMA StartRecords ==
  ASSUME TypeOK, NEW c \in Coordinator, NEW r \in Release, Starts(c, r)
  PROVE  /\ \A q \in Release : q # r =>
              job'[q] = job[q] /\ promotion'[q] = promotion[q] /\ previous'[q] = previous[q]
         /\ \/ /\ op'[c].kind = "generate" /\ op'[c].pc = "build" /\ op'[c].old = serving
               /\ job[r] = "absent" /\ promotion[r] = "none" /\ overrun' = overrun
               /\ job'[r] = "building" /\ promotion'[r] = "none" /\ previous' = previous
            \/ /\ op'[c].kind = "promote" /\ op'[c].pc = "freeze" /\ op'[c].old = serving
               /\ op'[c].attempted = FALSE
               /\ job[r] = "absent" /\ promotion[r] = "none" /\ overrun' = overrun
               /\ job' = job /\ promotion'[r] = "preparing" /\ previous'[r] = serving
            \/ /\ op'[c].kind = "reconcile" /\ op'[c].pc = "freeze" /\ op'[c].old = "none"
               /\ promotion[r] = "unknown" /\ overrun' = (overrun \/ InHand(r))
               /\ UNCHANGED <<job, promotion, previous>>
  <1>1. CASE GenerateStart(c, r)
    <2>1. op'[c].kind = "generate" /\ op'[c].pc = "build" /\ op'[c].old = serving
      BY <1>1, GenerateStartStep DEF Has, With
    <2>2. /\ job[r] = "absent" /\ promotion[r] = "none" /\ overrun' = overrun
          /\ job' = [job EXCEPT ![r] = "building"]
          /\ promotion' = promotion /\ previous' = previous
      BY <1>1 DEF GenerateStart, Made, history, drift
    <2>3. QED BY <2>1, <2>2, Tables
  <1>2. CASE PromoteStart(c, r)
    <2>1. /\ op'[c].kind = "promote" /\ op'[c].pc = "freeze" /\ op'[c].old = serving
          /\ op'[c].attempted = FALSE
      BY <1>2, PromoteStartStep DEF Has, With
    <2>2. /\ job[r] = "absent" /\ promotion[r] = "none" /\ overrun' = overrun /\ job' = job
          /\ promotion' = [promotion EXCEPT ![r] = "preparing"]
          /\ previous' = [previous EXCEPT ![r] = serving]
      BY <1>2 DEF PromoteStart, exports, history, drift
    <2>3. QED BY <2>1, <2>2, Tables
  <1>3. CASE ReconcileStart(c, r)
    BY <1>3, ReconcileStartStep DEF ReconcileStart, Has, studio, exports
  <1>4. QED BY <1>1, <1>2, <1>3 DEF Starts

\* A job is never forgotten, nor the record of a promotion.
LEMMA RecordsStay ==
  ASSUME TypeOK, [Next]_vars
  PROVE  \A r \in Release : /\ job[r] # "absent" => job'[r] # "absent"
                            /\ promotion[r] # "none" => promotion'[r] # "none"
  <1>1. CASE Aside
    BY <1>1, AsideRecords
  <1>2. ASSUME NEW c \in Coordinator, Proceeds(c)
        PROVE  \A r \in Release : /\ job[r] # "absent" => job'[r] # "absent"
                                  /\ promotion[r] # "none" => promotion'[r] # "none"
    BY <1>2, RecordMoves DEF RecordMove
  <1>3. ASSUME NEW c \in Coordinator, Lapse(c)
        PROVE  UNCHANGED <<job, promotion>>
    BY <1>3 DEF Lapse, studio, exports
  <1>4. ASSUME NEW c \in Coordinator, NEW q \in Release, Starts(c, q)
        PROVE  \A r \in Release : /\ job[r] # "absent" => job'[r] # "absent"
                                  /\ promotion[r] # "none" => promotion'[r] # "none"
    BY <1>4, StartRecords
  <1>5. QED BY <1>1, <1>2, <1>3, <1>4, Cases DEF Aside

\* What a step makes of the active release of the studio.
ServingMove(c) ==
  /\ foreign' = foreign /\ stray \subseteq stray' /\ (borrowed => borrowed')
  /\ \/ UNCHANGED <<serving, stray, borrowed>>
     \/ Falls /\ UNCHANGED <<job, promotion, previous>>
     \/ /\ Held(c) /\ Unread(op[c].old) /\ UNCHANGED <<job, promotion, previous>>
        /\ \/ op[c].kind \in Raiser /\ op[c].pc = "undo studio"
           \/ op[c].kind = "reconcile" /\ op[c].pc = "studio"
     \/ /\ Held(c) /\ UNCHANGED <<stray, borrowed>>
        /\ \/ op[c].kind = "generate" /\ op[c].pc = "finished" /\ serving' = op[c].release
           \/ /\ op[c].kind = "generate" /\ op[c].pc \in {"restoring", "ending"}
              /\ serving' = op[c].old /\ op[c].old # "none"
           \/ op[c].kind = "promote" /\ op[c].pc = "studio" /\ serving' = op[c].release
           \/ op[c].kind \in Raiser /\ op[c].pc = "undo studio" /\ serving' = op[c].old
           \/ op[c].kind = "reconcile" /\ op[c].pc = "studio" /\ serving' = op[c].old

\* Only operations with the lease change the active release, to one of these, and the
\* openings that fall back.
LEMMA ServingMoves ==
  ASSUME TypeOK, NEW c \in Coordinator, Proceeds(c), OpOK(c)
  PROVE  ServingMove(c)
  <1> USE DEF ServingMove, OpOK, Held, Raiser, Freezer, Frozen, Promoting, Freezing, studio,
          exports, history, drift
  <1>1. CASE WorkerPauses(c)
    BY <1>1, WorkerPausesStep, Flags DEF WorkerPauses, At
  <1>2. CASE Lifecycle(c)
    BY <1>2, LifecycleStep, Flags DEF Lifecycle, At
  <1>3. CASE Finish(c)
    BY <1>3, FinishStep, Flags DEF Finish, At
  <1>4. CASE Activate(c)
    BY <1>4, ActivateStep, Flags DEF Activate, At
  <1>5. CASE Switch(c)
    BY <1>5, SwitchStep, Flags DEF Switch, At, Released
  <1>6. CASE GenerateFails(c)
    BY <1>6, GenerateFailsStep, Flags DEF GenerateFails
  <1>7. CASE RestoreSite(c)
    BY <1>7, RestoreSiteStep, Flags DEF RestoreSite, At
  <1>8. CASE RestoreStudio(c)
    BY <1>8, RestoreStudioStep, Flags DEF RestoreStudio, At, Released
  <1>9. CASE FreezeStart(c)
    BY <1>9, FreezeStartStep, Flags DEF FreezeStart, Freezes
  <1>10. CASE FreezeFails(c)
    BY <1>10, FreezeFailsStep, Flags DEF FreezeFails, Freezes, Released
  <1>11. CASE FreezeOpen(c)
    BY <1>11, OpeningSteps, Flags DEF Opens, Falls
  <1>12. CASE Thaw(c)
    BY <1>12, ThawStep, Flags DEF Thaw, Freezes, Released
  <1>13. CASE PromotePrepare(c)
    BY <1>13, PromotePrepareStep, Flags DEF PromotePrepare, At
  <1>14. CASE PromoteSite(c)
    BY <1>14, PromoteSiteStep, Flags DEF PromoteSite, At
  <1>15. CASE PromoteStudio(c)
    BY <1>15, PromoteStudioStep, Flags DEF PromoteStudio, At
  <1>16. CASE PromoteExport(c)
    BY <1>16, PromoteExportStep, Flags DEF PromoteExport, At
  <1>17. CASE PromoteRecord(c)
    BY <1>17, PromoteRecordStep, Flags DEF PromoteRecord, At
  <1>18. CASE PromoteFails(c)
    BY <1>18, PromoteFailsStep, Flags DEF PromoteFails
  <1>19. CASE PromoteDone(c)
    BY <1>19, OpeningSteps, Flags DEF Opens, Falls
  <1>20. CASE PromoteCaught(c)
    BY <1>20, PromoteCaughtStep, Flags DEF PromoteCaught, At
  <1>21. CASE UndoSite(c)
    BY <1>21, UndoSiteStep, Flags DEF UndoSite, Freezes
  <1>22. CASE UndoStudio(c)
    BY <1>22, BackSteps, Kinds, Flags DEF UndoStudio, Freezes, Unread
  <1>23. CASE UndoFails(c)
    BY <1>23, UndoFailsStep, Flags DEF UndoFails, Freezes
  <1>24. CASE RollbackWork(c)
    BY <1>24, RollbackWorkStep, Flags DEF RollbackWork, At
  <1>25. CASE RollbackDone(c)
    BY <1>25, RollbackDoneStep, Flags DEF RollbackDone, At
  <1>26. CASE ReconcileSite(c)
    BY <1>26, ReconcileSiteStep, Flags DEF ReconcileSite, At
  <1>27. CASE ReconcileStudio(c)
    BY <1>27, BackSteps, Flags DEF ReconcileStudio, At, Unread
  <1>28. CASE ReconcileRecord(c)
    BY <1>28, ReconcileRecordStep, Flags DEF ReconcileRecord, At
  <1>29. CASE WorkFails(c)
    BY <1>29, WorkFailsStep, Flags DEF WorkFails, At
  <1>30. CASE ReconcileDone(c)
    BY <1>30, ReconcileDoneStep, Flags DEF ReconcileDone, At
  <1>31. CASE Crash(c)
    BY <1>31, CrashStep, Flags DEF Crash
  <1>32. CASE PromoteProbe(c)
    BY <1>32, OpeningSteps, Flags DEF Opens, Falls
  <1>33. CASE PromoteFailed(c)
    BY <1>33, PromoteFailedStep, Flags DEF PromoteFailed, At
  <1>34. QED BY <1>1, <1>2, <1>3, <1>4, <1>5, <1>6, <1>7, <1>8, <1>9, <1>10, <1>11, <1>12, <1>13,
                <1>14, <1>15, <1>16, <1>17, <1>18, <1>19, <1>20, <1>21, <1>22, <1>23, <1>24,
                <1>25, <1>26, <1>27, <1>28, <1>29, <1>30, <1>31, <1>32, <1>33 DEF Proceeds

\* Releases that served without a promotion stay on record, and so does a borrowed one.
LEMMA DriftStays ==
  ASSUME TypeOK, OpInv, [Next]_vars
  PROVE  stray \subseteq stray' /\ (borrowed => borrowed')
  <1>1. CASE Aside
    BY <1>1, AsideServes, Flags DEF Opens, Falls
  <1>2. ASSUME NEW c \in Coordinator, Proceeds(c)
        PROVE  stray \subseteq stray' /\ (borrowed => borrowed')
    BY <1>2, ServingMoves DEF ServingMove, OpInv
  <1>3. ASSUME NEW c \in Coordinator, Lapse(c)
        PROVE  UNCHANGED <<stray, borrowed>>
    BY <1>3 DEF Lapse, drift
  <1>4. ASSUME NEW c \in Coordinator, NEW r \in Release, Starts(c, r)
        PROVE  UNCHANGED <<stray, borrowed>>
    BY <1>4, StartMoves
  <1>5. QED BY <1>1, <1>2, <1>3, <1>4, Cases, ZenonT(40) DEF Aside

\* With a key of its own nothing drifts in any step.
LEMMA KeyKept ==
  ASSUME TypeOK, OpInv, KeyInv, [Next]_vars
  PROVE  KeyInv'
  <1> SUFFICES ASSUME OwnKey
               PROVE  UNCHANGED <<stray, borrowed>>
    BY DEF KeyInv
  <1>1. CASE Aside
    BY <1>1, AsideServes DEF Opens, Falls
  <1>2. ASSUME NEW c \in Coordinator, Proceeds(c)
        PROVE  UNCHANGED <<stray, borrowed>>
    BY <1>2, ServingMoves DEF ServingMove, OpInv, Falls, Unread
  <1>3. ASSUME NEW c \in Coordinator, Lapse(c)
        PROVE  UNCHANGED <<stray, borrowed>>
    BY <1>3 DEF Lapse, drift
  <1>4. ASSUME NEW c \in Coordinator, NEW r \in Release, Starts(c, r)
        PROVE  UNCHANGED <<stray, borrowed>>
    BY <1>4, StartMoves
  <1>5. QED BY <1>1, <1>2, <1>3, <1>4, Cases, ZenonT(40) DEF Aside

\* An id that was used stays used.
LEMMA KnownStays ==
  ASSUME TypeOK, OpInv, ForeignInv, [Next]_vars, NEW x \in Known
  PROVE  x \in Known'
  <1> SUFFICES ASSUME x \in Release
               PROVE  /\ job'[x] # "absent"
                      /\ x \in foreign' => borrowed' /\ job'[x] = "ready"
    BY DEF Known
  <1>1. /\ job[x] # "absent"
        /\ x \in foreign => borrowed /\ job[x] = "ready"
    BY ReleaseAssumption DEF Known
  <1>2. job'[x] # "absent" /\ (borrowed => borrowed')
    BY <1>1, RecordsStay, DriftStays
  <1>3. CASE Aside
    BY <1>1, <1>2, <1>3, AsideRecords
  <1>4. ASSUME NEW c \in Coordinator, Proceeds(c)
        PROVE  x \in foreign' => borrowed' /\ job'[x] = "ready"
    <2>1. foreign' = foreign /\ RecordMove(c)
      BY <1>4, ServingMoves, RecordMoves DEF ServingMove, OpInv
    <2>2. x \in foreign => op[c] = Idle \/ op[c].release # x
      BY DEF ForeignInv, InHand
    <2>3. x \in foreign => job'[x] = job[x]
      BY <2>1, <2>2 DEF RecordMove
    <2>4. QED BY <1>1, <1>2, <2>1, <2>3
  <1>5. ASSUME NEW c \in Coordinator, Lapse(c)
        PROVE  UNCHANGED <<job, foreign>>
    BY <1>5 DEF Lapse, studio, exports
  <1>6. ASSUME NEW c \in Coordinator, NEW r \in Release, Starts(c, r)
        PROVE  x \in foreign' => borrowed' /\ job'[x] = "ready"
    <2>1. foreign' = foreign
      BY <1>6 DEF Starts, GenerateStart, PromoteStart, ReconcileStart
    <2>2. x # r => job'[x] = job[x]
      BY <1>6, StartRecords
    <2>3. x = r => job'[x] = job[x]
      BY <1>1, <1>6, StartRecords
    <2>4. QED BY <1>1, <1>2, <2>1, <2>2, <2>3
  <1>7. CASE UNCHANGED vars
    BY <1>3, <1>7 DEF Aside
  <1>8. QED BY <1>1, <1>2, <1>3, <1>4, <1>5, <1>6, Cases DEF Aside

\* Nothing refers to an unused id after any step.
LEMMA FreshKept ==
  ASSUME TypeOK, FreshInv, ForeignInv, OpInv, [Next]_vars
  PROVE  FreshInv'
  <1>1. \A x \in Known : x \in Known'
    BY KnownStays
  <1>2. SUFFICES /\ serving' \in Known' /\ active' \in Known'
                 /\ \A r \in stray' : job'[r] # "absent"
                 /\ \A r \in Release : previous'[r] \in Known
                 /\ \A c \in Coordinator : op'[c] # Idle => op'[c].old \in Known
    BY <1>1 DEF FreshInv
  <1>3. /\ serving \in Known' /\ active \in Known'
        /\ \A r \in stray : job[r] # "absent" /\ job'[r] # "absent"
        /\ \A r \in Release : job[r] # "absent" => job'[r] # "absent"
        /\ \A r \in Release : previous[r] \in Known
        /\ \A c \in Coordinator : op[c] # Idle => op[c].old \in Known
    BY <1>1, RecordsStay DEF FreshInv, TypeOK
  <1>4. ASSUME Falls, UNCHANGED <<job, foreign>>
        PROVE  /\ serving' \in Known' /\ active' \in Known'
               /\ \A r \in stray' : job'[r] # "absent"
    BY <1>3, <1>4 DEF Falls, Known
  <1>5. CASE Aside
    <2>1. CASE Open
      <3>1. Opens /\ UNCHANGED <<job, foreign>>
        BY <2>1, Opening DEF Open, exports
      <3>2. QED BY <1>3, <1>4, <1>5, <3>1, Asides DEF Opens, Healed
    <2>2. CASE ~Open
      <3>1. UNCHANGED <<serving, active, stray>>
        BY <1>5, <2>2 DEF Aside, Expire, Elsewhere, ElsewhereStart, ElsewhereExport,
           ElsewhereReleases, ElsewhereEnds, ElsewhereFails, RecoverJob, RecoverPromotion, vars,
           studio, site, history, drift
      <3>2. QED BY <1>3, <1>5, <3>1, Asides
    <2>3. QED BY <2>1, <2>2
  <1>6. ASSUME NEW c \in Coordinator, Proceeds(c)
        PROVE  /\ serving' \in Known' /\ active' \in Known'
               /\ \A r \in stray' : job'[r] # "absent"
               /\ \A r \in Release : previous'[r] \in Known
               /\ \A d \in Coordinator : op'[d] # Idle => op'[d].old \in Known
    <2>1. FreshMove(c) /\ Others(c) /\ ServingMove(c)
      BY <1>6, FreshMoves, LeaseMoves, ServingMoves DEF OpInv, LeaseMove
    <2>2. stray' \subseteq Release
      BY TypeKept DEF TypeOK
    <2>3. \A r \in stray' : job'[r] # "absent"
      BY <1>3, <2>1, <2>2 DEF FreshMove
    <2>4. CASE serving' \in Known /\ active' \in Known
      BY <1>1, <1>3, <2>1, <2>3, <2>4 DEF FreshMove, Others
    <2>5. CASE Falls /\ UNCHANGED <<job, foreign>>
      BY <1>3, <1>4, <2>1, <2>5 DEF FreshMove, Others
    <2>6. QED BY <2>1, <2>4, <2>5 DEF FreshMove
  <1>7. ASSUME NEW c \in Coordinator, Lapse(c)
        PROVE  UNCHANGED <<serving, active, stray, previous, op>>
    BY <1>7 DEF Lapse, studio, exports, site, drift
  <1>8. ASSUME NEW c \in Coordinator, NEW r \in Release, Starts(c, r)
        PROVE  /\ UNCHANGED <<serving, active, stray>>
               /\ \A q \in Release : previous'[q] \in Known
               /\ \A d \in Coordinator : op'[d] # Idle => op'[d].old \in Known
    <2>1. "none" \in Known /\ serving \in Known
      BY DEF Known, FreshInv
    <2>2. op'[c].old \in {serving, "none"}
      BY <1>8, StartRecords
    <2>3. \A q \in Release : previous'[q] = previous[q] \/ previous'[q] = serving
      BY <1>8, StartRecords
    <2>4. UNCHANGED <<serving, active, stray>> /\ Others(c)
      BY <1>8, StartMoves DEF site
    <2>5. QED BY <1>3, <2>1, <2>2, <2>3, <2>4 DEF Others
  <1>9. CASE UNCHANGED vars
    BY <1>5, <1>9 DEF Aside
  <1>10. QED BY <1>3, <1>5, <1>6, <1>7, <1>8, <1>9, Cases DEF Aside

\* What another operation has in hand is not disturbed by a step of c.
LEMMA OpOthers ==
  ASSUME TypeOK, OpInv, OwnInv, NEW c \in Coordinator, NEW d \in Coordinator, d # c,
         Others(c), RecordMove(c)
  PROVE  OpOK(d)'
  <1> DEFINE r == op[d].release
  <1>1. op'[d] = op[d] /\ OpOK(d) /\ OpOK(c)
    BY DEF Others, OpInv
  <1>2. CASE op[d] = Idle
    BY <1>1, <1>2, Kinds DEF OpOK, Freezer, Owner, Raiser
  <1>3. CASE op[d] # Idle
    <2>1. r \in Release
      BY <1>3, Kinds
    <2>2. CASE op[c] = Idle \/ op[c].release # r
      <3>1. job'[r] = job[r] /\ promotion'[r] = promotion[r] /\ previous'[r] = previous[r]
        BY <2>1, <2>2 DEF RecordMove
      <3>2. QED BY <1>1, <3>1, ZenonT(40) DEF OpOK
    <2>3. CASE op[c] # Idle /\ op[c].release = r
      <3>1. \/ op[c].kind \notin Owner
            \/ op[d].kind \notin Owner
        BY <2>3 DEF OwnInv
      <3>2. promotion[r] # "none" => promotion'[r] # "none"
        BY <2>1 DEF RecordMove
      <3>3. job[r] # "absent" => job'[r] # "absent"
        BY <2>1 DEF RecordMove
      <3>4. CASE op[c].kind \notin Owner
        <4>1. op[c].kind \in Freezer /\ promotion[r] # "none" /\ UNCHANGED <<job, previous>>
          BY <2>3, <3>4, Kinds, <1>1 DEF Owner, Freezer, OpOK, RecordMove
        <4>2. QED BY <1>1, <3>2, <4>1 DEF OpOK
      <3>5. CASE op[d].kind \notin Owner
        <4>1. op[d].kind = "reconcile" /\ promotion[r] # "none"
          BY <1>1, <1>3, <3>5, Kinds DEF Owner, Freezer, OpOK
        <4>2. QED BY <1>1, <3>2, <3>3, <4>1 DEF OpOK, Owner, Raiser
      <3>6. QED BY <3>1, <3>4, <3>5
    <2>4. QED BY <2>2, <2>3
  <1>4. QED BY <1>2, <1>3

\* An operation that begins takes a release that none has, but for a reconciliation.
LEMMA StartFresh ==
  ASSUME TypeOK, OpInv, NEW c \in Coordinator, NEW r \in Release, Starts(c, r),
         op'[c].kind \in Owner, NEW d \in Coordinator, op[d] # Idle
  PROVE  op[d].release # r
  <1>1. job[r] = "absent" /\ promotion[r] = "none"
    BY StartRecords DEF Owner
  <1>2. OpOK(d) /\ op[d].kind \in {"generate"} \cup Freezer
    BY Kinds DEF OpInv
  <1>3. QED BY <1>1, <1>2 DEF OpOK

\* What the operations say of their releases stays true in every step.
LEMMA OpKept ==
  ASSUME TypeOK, FreshInv, ForeignInv, OpInv, OwnInv, [Next]_vars
  PROVE  OpInv'
  <1> SUFFICES ASSUME NEW d \in Coordinator
               PROVE  OpOK(d)'
    BY DEF OpInv
  <1>1. OpOK(d)
    BY DEF OpInv
  <1>2. CASE Aside
    <2>1. op' = op /\ previous' = previous
      BY <1>2, Asides
    <2>2. op[d] # Idle => op[d].release \in Release
      BY Kinds
    <2>3. op[d] # Idle =>
            /\ \/ job'[op[d].release] = job[op[d].release]
               \/ job[op[d].release] = "building" /\ job'[op[d].release] = "failed"
            /\ promotion[op[d].release] = "none" <=> promotion'[op[d].release] = "none"
      <3> SUFFICES ASSUME op[d] # Idle, NEW r \in Release, r = op[d].release
                   PROVE  /\ job'[r] = job[r] \/ (job[r] = "building" /\ job'[r] = "failed")
                          /\ promotion[r] = "none" <=> promotion'[r] = "none"
        BY <2>2
      <3>1. r \notin foreign
        BY DEF ForeignInv, InHand
      <3>2. job[r] # "absent" \/ promotion[r] # "none"
        BY <1>1, Kinds DEF OpOK
      <3>3. QED BY <1>2, <3>1, <3>2, AsideRecords
    <2>4. CASE op[d] = Idle
      BY <2>1, <2>4, Kinds DEF OpOK, Freezer, Owner, Raiser
    <2>5. CASE op[d] # Idle
      BY <1>1, <2>1, <2>2, <2>3, <2>5 DEF OpOK
    <2>6. QED BY <2>4, <2>5
  <1>3. ASSUME NEW c \in Coordinator, Proceeds(c)
        PROVE  OpOK(d)'
    <2>1. Others(c) /\ RecordMove(c)
      BY <1>3, LeaseMoves, RecordMoves DEF LeaseMove
    <2>2. CASE d = c
      BY <1>1, <1>3, <2>2, OpMoves
    <2>3. CASE d # c
      BY <2>1, <2>3, OpOthers
    <2>4. QED BY <2>2, <2>3
  <1>4. ASSUME NEW c \in Coordinator, Lapse(c)
        PROVE  UNCHANGED <<op, job, promotion, previous>>
    BY <1>4 DEF Lapse, studio, exports
  <1>5. ASSUME NEW c \in Coordinator, NEW r \in Release, Starts(c, r)
        PROVE  OpOK(d)'
    <2>1. CASE d = c
      <3>1. op'[c].release = r /\ serving \in Known
        BY <1>5, StartMoves DEF FreshInv
      <3>2. job[r] = "absent" => serving # r
        BY <3>1, ReleaseAssumption DEF Known
      <3>3. op'[c].kind \in {"generate", "promote", "reconcile"}
        BY <1>5, StartRecords
      <3>4. CASE op'[c].kind = "generate"
        <4>1. /\ op'[c].pc = "build" /\ op'[c].old = serving /\ job[r] = "absent"
              /\ job'[r] = "building" /\ promotion'[r] = "none"
          BY <1>5, <3>4, StartRecords
        <4>2. QED BY <2>1, <3>1, <3>2, <3>4, <4>1 DEF OpOK, Freezer, Owner, Raiser
      <3>5. CASE op'[c].kind = "promote"
        <4>1. /\ op'[c].pc = "freeze" /\ op'[c].old = serving /\ op'[c].attempted = FALSE
              /\ job[r] = "absent" /\ job'[r] = "absent"
              /\ promotion'[r] = "preparing" /\ previous'[r] = serving
          BY <1>5, <3>5, StartRecords
        <4>2. QED BY <2>1, <3>1, <3>2, <3>5, <4>1
                    DEF OpOK, Freezer, Freezing, Frozen, Owner, Raiser
      <3>6. CASE op'[c].kind = "reconcile"
        <4>1. /\ op'[c].pc = "freeze" /\ op'[c].old = "none"
              /\ promotion[r] = "unknown" /\ promotion'[r] = promotion[r]
          BY <1>5, <3>6, StartRecords
        <4>2. QED BY <2>1, <3>1, <3>2, <3>6, <4>1
                    DEF OpOK, Freezer, Freezing, Frozen, Owner, Raiser
      <3>7. QED BY <3>3, <3>4, <3>5, <3>6
    <2>2. CASE d # c /\ op[d] # Idle
      <3>1. op'[d] = op[d] /\ op[d].release \in Release
        BY <1>5, <2>2, StartMoves, Kinds DEF Others
      <3>2. /\ job'[op[d].release] = job[op[d].release]
            /\ promotion'[op[d].release] = promotion[op[d].release]
            /\ previous'[op[d].release] = previous[op[d].release]
        <4>1. CASE op'[c].kind \in Owner
          <5>1. op[d].release # r
            BY <1>5, <2>2, <4>1, StartFresh
          <5>2. \A q \in Release : q # r =>
                  job'[q] = job[q] /\ promotion'[q] = promotion[q] /\ previous'[q] = previous[q]
            BY <1>5, StartRecords
          <5>3. QED BY <3>1, <5>1, <5>2
        <4>2. CASE op'[c].kind \notin Owner
          <5>1. UNCHANGED <<job, promotion, previous>>
            BY <1>5, <4>2, StartRecords DEF Owner
          <5>2. QED BY <5>1
        <4>3. QED BY <4>1, <4>2
      <3>3. QED BY <1>1, <3>1, <3>2 DEF OpOK
    <2>3. CASE d # c /\ op[d] = Idle
      <3>1. op'[d] = op[d] /\ op[d].kind = "none"
        BY <1>5, <2>3, StartMoves DEF Others, Idle
      <3>2. QED BY <3>1 DEF OpOK, Freezer, Owner, Raiser
    <2>4. QED BY <2>1, <2>2, <2>3
  <1>6. QED BY <1>1, <1>2, <1>3, <1>4, <1>5, Cases, ZenonT(40) DEF Aside, OpOK

\* A release that nobody has in hand is not taken up by an operation that goes on.
LEMMA InHandStays ==
  ASSUME TypeOK, NEW c \in Coordinator, Others(c), RecordMove(c), NEW r, ~InHand(r)
  PROVE  ~InHand(r)'
  <1>1. \A d \in Coordinator : op'[d] # Idle => op[d] # Idle /\ op'[d].release = op[d].release
    BY DEF Others, RecordMove
  <1>2. QED BY <1>1 DEF InHand

\* No step gives a release a second operation that made it.
LEMMA OwnKept ==
  ASSUME TypeOK, OpInv, OwnInv, [Next]_vars
  PROVE  OwnInv'
  <1>1. CASE Aside
    BY <1>1, Asides DEF OwnInv
  <1>2. ASSUME NEW c \in Coordinator, Proceeds(c)
        PROVE  OwnInv'
    <2>1. Others(c) /\ RecordMove(c)
      BY <1>2, LeaseMoves, RecordMoves DEF LeaseMove
    <2>2. \A d \in Coordinator : op'[d].kind \in Owner =>
            op[d].kind \in Owner /\ op'[d].release = op[d].release
      BY <2>1 DEF Others, RecordMove, Owner, Idle
    <2>3. QED BY <2>2 DEF OwnInv
  <1>3. ASSUME NEW c \in Coordinator, Lapse(c)
        PROVE  UNCHANGED op
    BY <1>3 DEF Lapse
  <1>4. ASSUME NEW c \in Coordinator, NEW r \in Release, Starts(c, r)
        PROVE  OwnInv'
    <2>1. \A d \in Coordinator : d # c /\ op'[d].kind \in Owner =>
            op'[d] = op[d] /\ op[d] # Idle
      BY <1>4, StartMoves DEF Others, Owner, Idle
    <2>2. op'[c].kind \in Owner =>
            \A d \in Coordinator : d # c /\ op'[d].kind \in Owner => op'[d].release # r
      BY <1>4, <2>1, StartFresh
    <2>3. op'[c].release = r
      BY <1>4, StartMoves
    <2>4. QED BY <2>1, <2>2, <2>3 DEF OwnInv
  <1>5. QED BY <1>1, <1>2, <1>3, <1>4, Cases DEF Aside, OwnInv

\* No step gives a release to go back to without a promotion.
LEMMA PrevKept ==
  ASSUME TypeOK, OpInv, PrevInv, [Next]_vars
  PROVE  PrevInv'
  <1> SUFFICES ASSUME NEW r \in Release, promotion'[r] = "none"
               PROVE  previous'[r] = "none"
    BY DEF PrevInv
  <1>1. promotion[r] = "none" /\ previous[r] = "none"
    BY RecordsStay DEF PrevInv
  <1>2. CASE Aside
    BY <1>1, <1>2, Asides
  <1>3. ASSUME NEW c \in Coordinator, Proceeds(c)
        PROVE  previous'[r] = "none"
    <2>1. CASE PromotePrepare(c)
      <3>1. op[c].kind \in Freezer /\ op[c].release # r
        BY <1>1, <2>1 DEF PromotePrepare, At, Freezer, OpInv, OpOK
      <3>2. QED BY <1>1, <1>3, <3>1, RecordMoves DEF RecordMove
    <2>2. CASE ~PromotePrepare(c)
      BY <1>1, <1>3, <2>2, PreviousMoves
    <2>3. QED BY <2>1, <2>2
  <1>4. ASSUME NEW c \in Coordinator, Lapse(c)
        PROVE  UNCHANGED previous
    BY <1>4 DEF Lapse, studio, exports
  <1>5. ASSUME NEW c \in Coordinator, NEW q \in Release, Starts(c, q)
        PROVE  previous'[r] = "none"
    BY <1>1, <1>5, StartRecords, ZenonT(40)
  <1>6. QED BY <1>1, <1>2, <1>3, <1>4, <1>5, Cases DEF Aside

\* A release of another environment stays out of everybody's hands.
LEMMA ForeignKept ==
  ASSUME TypeOK, ForeignInv, OpInv, [Next]_vars
  PROVE  ForeignInv'
  <1> SUFFICES ASSUME NEW r \in Release, r \in foreign'
               PROVE  job'[r] # "absent" /\ promotion'[r] = "none" /\ ~InHand(r)'
    <2>1. foreign' \subseteq Release
      BY TypeKept DEF TypeOK
    <2>2. QED BY <2>1 DEF ForeignInv
  <1>1. r \in foreign => job[r] # "absent" /\ promotion[r] = "none" /\ ~InHand(r)
    BY DEF ForeignInv
  <1>2. r \in foreign => job'[r] # "absent"
    BY <1>1, RecordsStay
  <1>3. CASE Aside
    <2>1. CASE r \in foreign
      BY <1>1, <1>2, <1>3, <2>1, Asides, AsideRecords DEF InHand
    <2>2. CASE r \notin foreign
      <3>1. job[r] = "absent" /\ promotion[r] = "none" /\ job'[r] = "building"
        BY <1>3, <2>2, AsideRecords
      <3>2. \A c \in Coordinator : op[c] # Idle => op[c].release # r
        BY <3>1, Kinds DEF OpInv, OpOK
      <3>3. QED BY <1>3, <3>1, <3>2, Asides, AsideRecords DEF InHand
    <2>3. QED BY <2>1, <2>2
  <1>4. ASSUME NEW c \in Coordinator, Proceeds(c)
        PROVE  job'[r] # "absent" /\ promotion'[r] = "none" /\ ~InHand(r)'
    <2>1. foreign' = foreign /\ RecordMove(c) /\ Others(c)
      BY <1>4, ServingMoves, RecordMoves, LeaseMoves DEF ServingMove, LeaseMove, OpInv
    <2>2. op[c] = Idle \/ op[c].release # r
      BY <1>1, <2>1 DEF InHand
    <2>3. promotion'[r] = promotion[r]
      BY <2>1, <2>2 DEF RecordMove
    <2>4. ~InHand(r)'
      BY <1>1, <2>1, InHandStays
    <2>5. QED BY <1>1, <1>2, <2>1, <2>3, <2>4
  <1>5. ASSUME NEW c \in Coordinator, Lapse(c)
        PROVE  UNCHANGED <<job, promotion, op, foreign>>
    BY <1>5 DEF Lapse, studio, exports
  <1>6. ASSUME NEW c \in Coordinator, NEW q \in Release, Starts(c, q)
        PROVE  job'[r] # "absent" /\ promotion'[r] = "none" /\ ~InHand(r)'
    <2>1. foreign' = foreign
      BY <1>6 DEF Starts, GenerateStart, PromoteStart, ReconcileStart
    <2>2. q # r /\ promotion'[r] = "none"
      BY <1>1, <1>6, <2>1, StartRecords
    <2>3. ~InHand(r)'
      BY <1>1, <1>6, <2>1, <2>2, StartMoves DEF InHand, Others
    <2>4. QED BY <1>2, <2>1, <2>2, <2>3
  <1>7. CASE UNCHANGED vars
    BY <1>3, <1>7 DEF Aside
  <1>8. QED
    <2>1. (\E c \in Coordinator : Lapse(c)) =>
            job'[r] # "absent" /\ promotion'[r] = "none" /\ ~InHand(r)'
      BY <1>1, <1>5 DEF InHand
    <2>2. QED BY <1>3, <1>4, <1>6, <1>7, <2>1, Cases DEF Aside

-----------------------------------------------------------------------------
(* Promotions: what is recorded of them                                    *)

\* A reconciliation keeps a release that is ready, or goes back to the one before.
LEMMA RecMovesReconcileSite ==
  ASSUME TypeOK, NEW c \in Coordinator, ReconcileSite(c), OpOK(c), RecOK(c),
         Held(c) => generation = c
  PROVE  RecOK(c)'
  <1> DEFINE r == op[c].release
  <1>1. /\ op[c].kind = "reconcile" /\ op[c].pc = "work" /\ r \in Release /\ r # "none"
        /\ promotion[r] = "unknown" /\ op[c].old = "none"
    BY Kinds, ReleaseAssumption DEF ReconcileSite, At, RecOK, Freezer
  <1>2. UNCHANGED <<job, promotion, previous>>
    BY DEF ReconcileSite, studio, exports
  <1>3. CASE active # r
    <2>1. Has(c, "reconcile", r, "record", "none")
      BY <1>1, <1>3, ReconcileSiteStep
    <2>2. QED BY <1>1, <1>2, <2>1 DEF RecOK, Has, Raiser
  <1>4. CASE active = r
    <2>1. active' = IF job[r] = "ready" THEN r
                    ELSE IF previous[r] # "none" /\ job[previous[r]] = "ready"
                         THEN previous[r] ELSE "none"
      BY <1>4, SMTT(40) DEF ReconcileSite
    <2>2. Has(c, "reconcile", r, "studio", active')
      BY <1>4, ReconcileSiteStep, SMTT(40)
    <2>3. QED BY <1>1, <1>2, <2>1, <2>2 DEF RecOK, Has, Raiser
  <1>5. QED BY <1>3, <1>4

\* A promotion that was caught has failed, or is rolled back.
LEMMA RecMovesPromoteCaught ==
  ASSUME TypeOK, NEW c \in Coordinator, PromoteCaught(c), OpOK(c), RecOK(c)
  PROVE  RecOK(c)'
  <1> DEFINE r == op[c].release
  <1>1. op[c].kind = "promote" /\ op[c].pc = "after" /\ r \in Release /\ promotion[r] # "failed"
    BY Kinds DEF PromoteCaught, At, RecOK, Raiser, Freezer
  <1>2. CASE serving = r \/ (op[c].attempted /\ serving = op[c].old)
    <2>1. Has(c, "rollback", r, "freeze", op[c].old)
      BY <1>2, PromoteCaughtStep
    <2>2. promotion' = promotion
      BY <1>2 DEF PromoteCaught
    <2>3. QED BY <1>1, <2>1, <2>2 DEF RecOK, Has, Raiser
  <1>3. CASE ~(serving = r \/ (op[c].attempted /\ serving = op[c].old))
    <2>1. Has(c, "promote", r, "job", op[c].old)
      BY <1>3, PromoteCaughtStep
    <2>2. promotion' = [promotion EXCEPT ![r] = "failed"]
      BY <1>3 DEF PromoteCaught
    <2>3. promotion'[r] = "failed"
      BY <1>1, <2>2, Tables
    <2>4. QED BY <1>1, <2>1, <2>3 DEF RecOK, Has, Raiser
  <1>4. QED BY <1>2, <1>3

\* What is recorded of the promotion follows the operation.
LEMMA RecMoves ==
  ASSUME TypeOK, NEW c \in Coordinator, Proceeds(c), OpOK(c), RecOK(c), Held(c) => generation = c
  PROVE  RecOK(c)'
  <1>0. /\ op[c].kind = "none" <=> op[c] = Idle
        /\ op[c] # Idle => op[c].release \in Release /\ op[c].old \in Id
        /\ job \in [Release -> {"absent", "building", "ready", "failed"}]
        /\ promotion \in [Release -> {"none", "preparing", "ready", "failed", "unknown"}]
        /\ previous \in [Release -> Id]
    BY Kinds, Tables DEF Freezer
  <1> USE <1>0 DEF RecOK, OpOK, Unresolved, Held, Has, With, Leaves, Owner, Raiser,
          Freezer, Frozen, Promoting, Freezing, studio, exports, site, history, drift
  <1>1. CASE WorkerPauses(c)
    BY <1>1, WorkerPausesStep, Flags DEF WorkerPauses, At
  <1>2. CASE Lifecycle(c)
    BY <1>2, LifecycleStep, Flags DEF Lifecycle, At
  <1>3. CASE Finish(c)
    BY <1>3, FinishStep, Flags DEF Finish, At
  <1>4. CASE Activate(c)
    BY <1>4, ActivateStep, Flags DEF Activate, At
  <1>5. CASE Switch(c)
    BY <1>5, SwitchStep, Flags DEF Switch, At, Released
  <1>6. CASE GenerateFails(c)
    BY <1>6, GenerateFailsStep, Flags DEF GenerateFails
  <1>7. CASE RestoreSite(c)
    BY <1>7, RestoreSiteStep, Flags DEF RestoreSite, At
  <1>8. CASE RestoreStudio(c)
    BY <1>8, RestoreStudioStep, Flags DEF RestoreStudio, At, Released
  <1>9. CASE FreezeStart(c)
    BY <1>9, FreezeStartStep, Flags DEF FreezeStart, Freezes
  <1>10. CASE FreezeFails(c)
    BY <1>10, FreezeFailsStep, Flags DEF FreezeFails, Freezes, Released
  <1>11. CASE FreezeOpen(c)
    BY <1>11, FreezeOpenStep, Flags DEF FreezeOpen, Freezes
  <1>12. CASE Thaw(c)
    BY <1>12, ThawStep, Flags DEF Thaw, Freezes, Released
  <1>13. CASE PromotePrepare(c)
    BY <1>13, PromotePrepareStep, Flags DEF PromotePrepare, At
  <1>14. CASE PromoteSite(c)
    BY <1>14, PromoteSiteStep, Flags DEF PromoteSite, At
  <1>15. CASE PromoteStudio(c)
    BY <1>15, PromoteStudioStep, Flags DEF PromoteStudio, At
  <1>16. CASE PromoteExport(c)
    BY <1>16, PromoteExportStep, Flags DEF PromoteExport, At
  <1>17. CASE PromoteRecord(c)
    BY <1>17, PromoteRecordStep, Flags DEF PromoteRecord, At
  <1>18. CASE PromoteFails(c)
    BY <1>18, PromoteFailsStep, Flags DEF PromoteFails
  <1>19. CASE PromoteDone(c)
    BY <1>19, PromoteDoneStep, Flags DEF PromoteDone, At
  <1>20. CASE PromoteCaught(c)
    BY <1>20, RecMovesPromoteCaught
  <1>21. CASE UndoSite(c)
    BY <1>21, UndoSiteStep, Flags DEF UndoSite, Freezes
  <1>22. CASE UndoStudio(c)
    BY <1>22, UndoStudioStep, Flags DEF UndoStudio, Freezes
  <1>23. CASE UndoFails(c)
    BY <1>23, UndoFailsStep, Flags DEF UndoFails, Freezes
  <1>24. CASE RollbackWork(c)
    BY <1>24, RollbackWorkStep, Flags DEF RollbackWork, At
  <1>25. CASE RollbackDone(c)
    BY <1>25, RollbackDoneStep, Flags DEF RollbackDone, At
  <1>26. CASE ReconcileSite(c)
    BY <1>26, RecMovesReconcileSite
  <1>27. CASE ReconcileStudio(c)
    BY <1>27, ReconcileStudioStep, Flags DEF ReconcileStudio, At
  <1>28. CASE ReconcileRecord(c)
    BY <1>28, ReconcileRecordStep, Flags DEF ReconcileRecord, At
  <1>29. CASE WorkFails(c)
    BY <1>29, WorkFailsStep, Flags DEF WorkFails, At
  <1>30. CASE ReconcileDone(c)
    BY <1>30, ReconcileDoneStep, Flags DEF ReconcileDone, At
  <1>31. CASE Crash(c)
    BY <1>31, CrashStep, Flags DEF Crash
  <1>32. CASE PromoteProbe(c)
    BY <1>32, PromoteProbeStep, Flags DEF PromoteProbe, At
  <1>33. CASE PromoteFailed(c)
    BY <1>33, PromoteFailedStep, Flags DEF PromoteFailed, At
  <1>34. QED BY <1>1, <1>2, <1>3, <1>4, <1>5, <1>6, <1>7, <1>8, <1>9, <1>10, <1>11, <1>12, <1>13,
                <1>14, <1>15, <1>16, <1>17, <1>18, <1>19, <1>20, <1>21, <1>22, <1>23, <1>24,
                <1>25, <1>26, <1>27, <1>28, <1>29, <1>30, <1>31, <1>32, <1>33,
                ZenonT(40) DEF Proceeds

\* The catch block of a promotion records that it failed, then its job fails.
LEMMA ExportedMovesPromoteCaught ==
  ASSUME TypeOK, NEW c \in Coordinator,
         PromoteCaught(c) \/ PromoteFailed(c) \/ RollbackDone(c), OpOK(c), RecOK(c), Exported
  PROVE  Exported'
  <1>1. op[c].release \in Release
    BY Kinds DEF PromoteCaught, PromoteFailed, RollbackDone, At, Freezer
  <1>2. CASE PromoteFailed(c)
    <2>1. promotion[op[c].release] = "failed"
      BY <1>2 DEF PromoteFailed, At, RecOK, Raiser
    <2>2. promotion' = promotion /\ \A r \in Release \ {op[c].release} : job'[r] = job[r]
      BY <1>1, <1>2, Tables DEF PromoteFailed
    <2>3. QED BY <1>1, <2>1, <2>2 DEF Exported
  <1>3. CASE PromoteCaught(c) \/ RollbackDone(c)
    <2>1. job' = job
      BY <1>3 DEF PromoteCaught, RollbackDone, exports
    <2>2. \A r \in Release : promotion'[r] = "ready" => promotion[r] = "ready"
      BY <1>1, <1>3, Tables DEF PromoteCaught, RollbackDone
    <2>3. QED BY <2>1, <2>2 DEF Exported
  <1>4. QED BY <1>2, <1>3

\* A promotion whose job is made has not been recorded as complete.
LEMMA ExportedMovesPromotePrepare ==
  ASSUME TypeOK, NEW c \in Coordinator, PromotePrepare(c), RecOK(c), Exported
  PROVE  Exported'
  <1>1. op[c].release \in Release /\ promotion[op[c].release] # "ready"
    BY Kinds DEF PromotePrepare, At, RecOK, Unresolved, Freezer, Promoting, Freezing
  <1>2. promotion' = promotion /\ \A r \in Release \ {op[c].release} : job'[r] = job[r]
    BY <1>1, Tables DEF PromotePrepare, Made
  <1>3. QED BY <1>1, <1>2 DEF Exported

\* A promotion is recorded as complete after its export, which nothing takes back.
LEMMA ExportedMoves ==
  ASSUME TypeOK, NEW c \in Coordinator, Proceeds(c), OpOK(c), RecOK(c), Exported
  PROVE  Exported'
  <1>0. /\ op[c].kind = "none" <=> op[c] = Idle
        /\ op[c] # Idle => op[c].release \in Release /\ op[c].old \in Id
        /\ job \in [Release -> {"absent", "building", "ready", "failed"}]
        /\ promotion \in [Release -> {"none", "preparing", "ready", "failed", "unknown"}]
        /\ previous \in [Release -> Id]
    BY Kinds, Tables DEF Freezer
  <1> USE <1>0 DEF Exported, RecOK, OpOK, Unresolved, Has, Leaves, Raiser, Freezer,
          Frozen, Promoting, Freezing, studio, exports, site, history, drift
  <1>1. CASE WorkerPauses(c)
    BY <1>1, WorkerPausesStep, Flags DEF WorkerPauses, At
  <1>2. CASE Lifecycle(c)
    BY <1>2, LifecycleStep, Flags DEF Lifecycle, At
  <1>3. CASE Finish(c)
    BY <1>3, FinishStep, Flags DEF Finish, At
  <1>4. CASE Activate(c)
    BY <1>4, ActivateStep, Flags DEF Activate, At
  <1>5. CASE Switch(c)
    BY <1>5, SwitchStep, Flags DEF Switch, At, Released
  <1>6. CASE GenerateFails(c)
    BY <1>6, GenerateFailsStep, Flags DEF GenerateFails
  <1>7. CASE RestoreSite(c)
    BY <1>7, RestoreSiteStep, Flags DEF RestoreSite, At
  <1>8. CASE RestoreStudio(c)
    BY <1>8, RestoreStudioStep, Flags DEF RestoreStudio, At, Released
  <1>9. CASE FreezeStart(c)
    BY <1>9, FreezeStartStep, Flags DEF FreezeStart, Freezes
  <1>10. CASE FreezeFails(c)
    BY <1>10, FreezeFailsStep, Flags DEF FreezeFails, Freezes, Released
  <1>11. CASE FreezeOpen(c)
    BY <1>11, FreezeOpenStep, Flags DEF FreezeOpen, Freezes
  <1>12. CASE Thaw(c)
    BY <1>12, ThawStep, Flags DEF Thaw, Freezes, Released
  <1>13. CASE PromotePrepare(c)
    BY <1>13, ExportedMovesPromotePrepare
  <1>14. CASE PromoteSite(c)
    BY <1>14, PromoteSiteStep, Flags DEF PromoteSite, At
  <1>15. CASE PromoteStudio(c)
    BY <1>15, PromoteStudioStep, Flags DEF PromoteStudio, At
  <1>16. CASE PromoteExport(c)
    BY <1>16, PromoteExportStep, Flags DEF PromoteExport, At
  <1>17. CASE PromoteRecord(c)
    BY <1>17, PromoteRecordStep, Flags DEF PromoteRecord, At
  <1>18. CASE PromoteFails(c)
    BY <1>18, PromoteFailsStep, Flags DEF PromoteFails
  <1>19. CASE PromoteDone(c)
    BY <1>19, PromoteDoneStep, Flags DEF PromoteDone, At
  <1>20. CASE PromoteCaught(c)
    BY <1>20, ExportedMovesPromoteCaught
  <1>21. CASE UndoSite(c)
    BY <1>21, UndoSiteStep, Flags DEF UndoSite, Freezes
  <1>22. CASE UndoStudio(c)
    BY <1>22, UndoStudioStep, Flags DEF UndoStudio, Freezes
  <1>23. CASE UndoFails(c)
    BY <1>23, UndoFailsStep, Flags DEF UndoFails, Freezes
  <1>24. CASE RollbackWork(c)
    BY <1>24, RollbackWorkStep, Flags DEF RollbackWork, At
  <1>25. CASE RollbackDone(c)
    BY <1>25, ExportedMovesPromoteCaught
  <1>26. CASE ReconcileSite(c)
    BY <1>26, ReconcileSiteStep, Flags DEF ReconcileSite, At
  <1>27. CASE ReconcileStudio(c)
    BY <1>27, ReconcileStudioStep, Flags DEF ReconcileStudio, At
  <1>28. CASE ReconcileRecord(c)
    BY <1>28, ReconcileRecordStep, Flags DEF ReconcileRecord, At
  <1>29. CASE WorkFails(c)
    BY <1>29, WorkFailsStep, Flags DEF WorkFails, At
  <1>30. CASE ReconcileDone(c)
    BY <1>30, ReconcileDoneStep, Flags DEF ReconcileDone, At
  <1>31. CASE Crash(c)
    BY <1>31, CrashStep, Flags, ZenonT(40) DEF Crash
  <1>32. CASE PromoteProbe(c)
    BY <1>32, PromoteProbeStep, Flags DEF PromoteProbe, At
  <1>33. CASE PromoteFailed(c)
    BY <1>33, ExportedMovesPromoteCaught
  <1>34. QED BY <1>1, <1>2, <1>3, <1>4, <1>5, <1>6, <1>7, <1>8, <1>9, <1>10, <1>11, <1>12, <1>13,
                <1>14, <1>15, <1>16, <1>17, <1>18, <1>19, <1>20, <1>21, <1>22, <1>23, <1>24,
                <1>25, <1>26, <1>27, <1>28, <1>29, <1>30, <1>31, <1>32, <1>33 DEF Proceeds

\* What a step makes of the records of promotions.
FailMove(c) ==
  \A r \in Release :
    promotion'[r] = "failed" /\ promotion[r] # "failed" =>
      /\ op[c] # Idle /\ r = op[c].release /\ serving' = serving
      /\ \/ /\ op[c].kind = "promote" /\ op[c].pc = "after" /\ serving # r
            /\ generation \in Coordinator => overrun'
         \/ op[c].kind = "rollback" /\ op[c].pc = "after" /\ op[c].ok
         \/ op[c].kind = "reconcile" /\ op[c].pc = "record" /\ op[c].old # r

\* A promotion fails at the end of an operation that does not leave it serving.
LEMMA FailMoves ==
  ASSUME TypeOK, NEW c \in Coordinator, Proceeds(c)
  PROVE  FailMove(c)
  <1>0. /\ op[c].kind = "none" <=> op[c] = Idle
        /\ op[c] # Idle => op[c].release \in Release /\ op[c].old \in Id
        /\ job \in [Release -> {"absent", "building", "ready", "failed"}]
        /\ promotion \in [Release -> {"none", "preparing", "ready", "failed", "unknown"}]
        /\ previous \in [Release -> Id]
    BY Kinds, Tables DEF Freezer
  <1> USE <1>0 DEF FailMove, Held, Raiser, Freezer, Frozen, studio, exports, Idle
  <1>1. CASE WorkerPauses(c)
    BY <1>1, WorkerPausesStep, Flags DEF WorkerPauses, At
  <1>2. CASE Lifecycle(c)
    BY <1>2, LifecycleStep, Flags DEF Lifecycle, At
  <1>3. CASE Finish(c)
    BY <1>3, FinishStep, Flags DEF Finish, At
  <1>4. CASE Activate(c)
    BY <1>4, ActivateStep, Flags DEF Activate, At
  <1>5. CASE Switch(c)
    BY <1>5, SwitchStep, Flags DEF Switch, At, Released
  <1>6. CASE GenerateFails(c)
    BY <1>6, GenerateFailsStep, Flags DEF GenerateFails
  <1>7. CASE RestoreSite(c)
    BY <1>7, RestoreSiteStep, Flags DEF RestoreSite, At
  <1>8. CASE RestoreStudio(c)
    BY <1>8, RestoreStudioStep, Flags DEF RestoreStudio, At, Released
  <1>9. CASE FreezeStart(c)
    BY <1>9, FreezeStartStep, Flags DEF FreezeStart, Freezes
  <1>10. CASE FreezeFails(c)
    BY <1>10, FreezeFailsStep, Flags DEF FreezeFails, Freezes, Released
  <1>11. CASE FreezeOpen(c)
    BY <1>11, FreezeOpenStep, Flags DEF FreezeOpen, Freezes
  <1>12. CASE Thaw(c)
    BY <1>12, ThawStep, Flags DEF Thaw, Freezes, Released
  <1>13. CASE PromotePrepare(c)
    BY <1>13, PromotePrepareStep, Flags DEF PromotePrepare, At
  <1>14. CASE PromoteSite(c)
    BY <1>14, PromoteSiteStep, Flags DEF PromoteSite, At
  <1>15. CASE PromoteStudio(c)
    BY <1>15, PromoteStudioStep, Flags DEF PromoteStudio, At
  <1>16. CASE PromoteExport(c)
    BY <1>16, PromoteExportStep, Flags DEF PromoteExport, At
  <1>17. CASE PromoteRecord(c)
    BY <1>17, PromoteRecordStep, Flags DEF PromoteRecord, At
  <1>18. CASE PromoteFails(c)
    BY <1>18, PromoteFailsStep, Flags DEF PromoteFails
  <1>19. CASE PromoteDone(c)
    BY <1>19, PromoteDoneStep, Flags DEF PromoteDone, At
  <1>20. CASE PromoteCaught(c)
    BY <1>20, PromoteCaughtStep, Flags DEF PromoteCaught, At
  <1>21. CASE UndoSite(c)
    BY <1>21, UndoSiteStep, Flags DEF UndoSite, Freezes
  <1>22. CASE UndoStudio(c)
    BY <1>22, UndoStudioStep, Flags DEF UndoStudio, Freezes
  <1>23. CASE UndoFails(c)
    BY <1>23, UndoFailsStep, Flags DEF UndoFails, Freezes
  <1>24. CASE RollbackWork(c)
    BY <1>24, RollbackWorkStep, Flags DEF RollbackWork, At
  <1>25. CASE RollbackDone(c)
    BY <1>25, RollbackDoneStep, Flags DEF RollbackDone, At
  <1>26. CASE ReconcileSite(c)
    BY <1>26, ReconcileSiteStep, Flags DEF ReconcileSite, At
  <1>27. CASE ReconcileStudio(c)
    BY <1>27, ReconcileStudioStep, Flags DEF ReconcileStudio, At
  <1>28. CASE ReconcileRecord(c)
    BY <1>28, ReconcileRecordStep, Flags DEF ReconcileRecord, At
  <1>29. CASE WorkFails(c)
    BY <1>29, WorkFailsStep, Flags DEF WorkFails, At
  <1>30. CASE ReconcileDone(c)
    BY <1>30, ReconcileDoneStep, Flags DEF ReconcileDone, At
  <1>31. CASE Crash(c)
    BY <1>31, CrashStep, Flags DEF Crash
  <1>32. CASE PromoteProbe(c)
    BY <1>32, PromoteProbeStep, Flags DEF PromoteProbe, At
  <1>33. CASE PromoteFailed(c)
    BY <1>33, PromoteFailedStep, Flags DEF PromoteFailed, At
  <1>34. QED BY <1>1, <1>2, <1>3, <1>4, <1>5, <1>6, <1>7, <1>8, <1>9, <1>10, <1>11, <1>12, <1>13,
                <1>14, <1>15, <1>16, <1>17, <1>18, <1>19, <1>20, <1>21, <1>22, <1>23, <1>24,
                <1>25, <1>26, <1>27, <1>28, <1>29, <1>30, <1>31, <1>32, <1>33 DEF Proceeds

\* No two operations come to have one release in hand.
LEMMA UniqueKept ==
  ASSUME TypeOK, OpInv, UniqueInv, [Next]_vars
  PROVE  UniqueInv'
  <1> SUFFICES ASSUME ~overrun', NEW c \in Coordinator, NEW d \in Coordinator,
                      op'[c] # Idle, op'[d] # Idle, op'[c].release = op'[d].release, c # d
               PROVE  FALSE
    BY DEF UniqueInv
  <1>1. CASE Aside
    BY <1>1, Asides DEF UniqueInv
  <1>2. ASSUME NEW e \in Coordinator, Proceeds(e)
        PROVE  FALSE
    <2>1. LeaseMove(e) /\ RecordMove(e)
      BY <1>2, LeaseMoves, RecordMoves
    <2>2. ~overrun
      BY <2>1 DEF LeaseMove
    <2>3. \A x \in Coordinator : op'[x] # Idle => op[x] # Idle /\ op'[x].release = op[x].release
      BY <2>1 DEF LeaseMove, RecordMove, Others
    <2>4. QED BY <2>2, <2>3 DEF UniqueInv
  <1>3. ASSUME NEW e \in Coordinator, Lapse(e)
        PROVE  FALSE
    BY <1>3 DEF Lapse
  <1>4. ASSUME NEW e \in Coordinator, NEW r \in Release, Starts(e, r)
        PROVE  FALSE
    <2>1. op'[e].release = r /\ Others(e)
      BY <1>4, StartMoves
    <2>2. ~overrun
      BY <1>4, StartRecords, Flags
    <2>3. \A x \in Coordinator : x # e /\ op[x] # Idle => op[x].release # r
      <3>1. CASE op'[e].kind \in Owner
        BY <1>4, <3>1, StartFresh
      <3>2. CASE op'[e].kind \notin Owner
        <4>1. overrun' = (overrun \/ InHand(r))
          BY <1>4, <3>2, StartRecords DEF Owner
        <4>2. ~InHand(r)
          BY <4>1
        <4>3. QED BY <4>2 DEF InHand
      <3>3. QED BY <3>1, <3>2
    <2>4. CASE c = e \/ d = e
      BY <2>1, <2>3, <2>4 DEF Others
    <2>5. CASE c # e /\ d # e
      BY <2>1, <2>2, <2>5 DEF Others, UniqueInv
    <2>6. QED BY <2>4, <2>5
  <1>5. QED BY <1>1, <1>2, <1>3, <1>4, Cases DEF Aside, UniqueInv

\* The records of the release that another operation has in hand.
LEMMA Untouched ==
  ASSUME TypeOK, UniqueInv, ~overrun, NEW c \in Coordinator, RecordMove(c),
         NEW d \in Coordinator, d # c, op[d] # Idle
  PROVE  /\ op[d].release \in Release
         /\ job'[op[d].release] = job[op[d].release]
         /\ promotion'[op[d].release] = promotion[op[d].release]
         /\ previous'[op[d].release] = previous[op[d].release]
  <1>1. op[d].release \in Release
    BY Kinds
  <1>2. op[c] = Idle \/ op[c].release # op[d].release
    BY DEF UniqueInv
  <1>3. QED BY <1>1, <1>2 DEF RecordMove

\* The records are right after every step.
LEMMA RecKept ==
  ASSUME TypeOK, LeaseInv, ForeignInv, OpInv, OwnInv, UniqueInv, RecInv, [Next]_vars
  PROVE  RecInv'
  <1> SUFFICES ASSUME ~overrun'
               PROVE  Exported' /\ \A d \in Coordinator : RecOK(d)'
    BY DEF RecInv
  <1>1. CASE Aside
    <2>1. op' = op /\ previous' = previous /\ Exported /\ \A d \in Coordinator : RecOK(d)
      BY <1>1, Asides DEF RecInv
    <2>2. \A r \in Release : /\ job[r] = "ready" /\ r \notin foreign => job'[r] = "ready"
                             /\ promotion'[r] = "ready" => promotion[r] = "ready"
                             /\ promotion'[r] = "failed" <=> promotion[r] = "failed"
                             /\ promotion[r] = "unknown" => promotion'[r] = "unknown"
                             /\ r \in Unresolved => r \in Unresolved'
      BY <1>1, AsideRecords DEF Unresolved
    <2>3. Exported'
      BY <2>1, <2>2 DEF Exported, ForeignInv
    <2>4. ASSUME NEW d \in Coordinator
          PROVE  RecOK(d)'
      <3>1. CASE op[d] = Idle
        BY <2>1, <3>1, Kinds DEF RecOK, Raiser
      <3>2. CASE op[d] # Idle
        <4>1. op[d].release \in Release
          BY <3>2, Kinds
        <4>2. op[d].release \notin foreign
          BY <3>2 DEF ForeignInv, InHand
        <4>3. QED BY <2>1, <2>2, <4>1, <4>2 DEF RecOK
      <3>3. QED BY <3>1, <3>2
    <2>5. QED BY <2>3, <2>4
  <1>2. ASSUME NEW c \in Coordinator, Proceeds(c)
        PROVE  Exported' /\ \A d \in Coordinator : RecOK(d)'
    <2>1. LeaseMove(c) /\ RecordMove(c)
      BY <1>2, LeaseMoves, RecordMoves
    <2>2. ~overrun /\ OpOK(c)
      BY <2>1 DEF LeaseMove, OpInv
    <2>3. Exported /\ \A d \in Coordinator : RecOK(d)
      BY <2>2 DEF RecInv
    <2>4. Exported'
      BY <1>2, <2>2, <2>3, ExportedMoves
    <2>5. RecOK(c)'
      BY <1>2, <2>2, <2>3, RecMoves DEF LeaseInv
    <2>6. ASSUME NEW d \in Coordinator, d # c
          PROVE  RecOK(d)'
      <3>1. op'[d] = op[d]
        BY <2>1, <2>6 DEF LeaseMove, Others
      <3>2. CASE op[d] = Idle
        BY <3>1, <3>2, Kinds DEF RecOK, Raiser
      <3>3. CASE op[d] # Idle
        BY <2>1, <2>2, <2>3, <2>6, <3>1, <3>3, Untouched DEF RecOK, Unresolved
      <3>4. QED BY <3>2, <3>3
    <2>7. QED BY <2>4, <2>5, <2>6
  <1>3. ASSUME NEW c \in Coordinator, Lapse(c)
        PROVE  FALSE
    BY <1>3 DEF Lapse
  <1>4. ASSUME NEW c \in Coordinator, NEW r \in Release, Starts(c, r)
        PROVE  Exported' /\ \A d \in Coordinator : RecOK(d)'
    <2>1. ~overrun
      BY <1>4, StartRecords, Flags
    <2>2. Exported /\ \A d \in Coordinator : RecOK(d)
      BY <2>1 DEF RecInv
    <2>3. Exported'
      BY <1>4, <2>2, StartRecords, ZenonT(40) DEF Exported
    <2>4. RecOK(c)'
      <3>1. op'[c].release = r
        BY <1>4, StartMoves
      <3>2. CASE op'[c].kind = "generate" /\ op'[c].pc = "build"
        BY <3>2 DEF RecOK, Raiser
      <3>3. CASE op'[c].kind = "promote" /\ op'[c].pc = "freeze" /\ promotion'[r] = "preparing"
        BY <3>1, <3>3 DEF RecOK, Raiser, Unresolved
      <3>4. CASE /\ op'[c].kind = "reconcile" /\ op'[c].pc = "freeze" /\ op'[c].old = "none"
                 /\ promotion'[r] = "unknown"
        BY <3>1, <3>4 DEF RecOK, Raiser
      <3>5. QED BY <1>4, <3>2, <3>3, <3>4, StartRecords
    <2>5. ASSUME NEW d \in Coordinator, d # c
          PROVE  RecOK(d)'
      <3>1. op'[d] = op[d]
        BY <1>4, <2>5, StartMoves DEF Others
      <3>2. CASE op[d] = Idle
        BY <3>1, <3>2, Kinds DEF RecOK, Raiser
      <3>3. CASE op[d] # Idle
        <4>1. op[d].release \in Release
          BY <3>3, Kinds
        <4>2. /\ job'[op[d].release] = job[op[d].release]
              /\ promotion'[op[d].release] = promotion[op[d].release]
              /\ previous'[op[d].release] = previous[op[d].release]
          <5>1. CASE op'[c].kind \in Owner
            <6>1. op[d].release # r
              BY <1>4, <3>3, <5>1, StartFresh
            <6>2. QED BY <1>4, <4>1, <6>1, StartRecords, ZenonT(40)
          <5>2. CASE op'[c].kind \notin Owner
            BY <1>4, <5>2, StartRecords DEF Owner
          <5>3. QED BY <5>1, <5>2
        <4>3. QED BY <2>2, <3>1, <4>1, <4>2 DEF RecOK, Unresolved
      <3>4. QED BY <3>2, <3>3
    <2>6. QED BY <2>3, <2>4, <2>5
  <1>5. QED BY <1>1, <1>2, <1>3, <1>4, Cases DEF Aside

\* The release to go back to is settled with the job of the promotion.
LEMMA PreviousFixed ==
  ASSUME TypeOK, OpInv, [Next]_vars, NEW q \in Release, job[q] # "absent"
  PROVE  job'[q] # "absent" /\ previous'[q] = previous[q]
  <1>1. job'[q] # "absent"
    BY RecordsStay
  <1>2. CASE Aside
    BY <1>1, <1>2, Asides
  <1>3. ASSUME NEW c \in Coordinator, Proceeds(c)
        PROVE  previous'[q] = previous[q]
    <2>1. CASE PromotePrepare(c)
      <3>1. op[c].release # q
        BY <2>1 DEF PromotePrepare, At, OpInv, OpOK
      <3>2. QED BY <1>3, <3>1, RecordMoves DEF RecordMove
    <2>2. CASE ~PromotePrepare(c)
      BY <1>3, <2>2, PreviousMoves
    <2>3. QED BY <2>1, <2>2
  <1>4. ASSUME NEW c \in Coordinator, Lapse(c)
        PROVE  UNCHANGED previous
    BY <1>4 DEF Lapse, studio, exports
  <1>5. ASSUME NEW c \in Coordinator, NEW r \in Release, Starts(c, r)
        PROVE  previous'[q] = previous[q]
    BY <1>5, StartRecords
  <1>6. QED BY <1>1, <1>2, <1>3, <1>4, <1>5, Cases DEF Aside

\* What a promotion was made on top of stays so.
LEMMA FollowedStays ==
  ASSUME TypeOK, OpInv, [Next]_vars, NEW r, Followed(r)
  PROVE  Followed(r)'
  <1>1. PICK q \in Release : previous[q] = r /\ job[q] # "absent"
    BY DEF Followed
  <1>2. previous'[q] = r /\ job'[q] # "absent"
    BY <1>1, PreviousFixed, SMTT(40)
  <1>3. QED BY <1>2 DEF Followed

\* and so does what excuses it.
LEMMA ExcusedStays ==
  ASSUME TypeOK, OpInv, [Next]_vars, NEW r, Excused(r)
  PROVE  Excused(r)'
  <1>1. CASE Followed(r)
    BY <1>1, FollowedStays DEF Excused
  <1>2. CASE r \in stray
    BY <1>2, DriftStays DEF Excused
  <1>3. QED BY <1>1, <1>2 DEF Excused

\* How an operation comes to say that its release does not serve.
FailedMove(c) ==
  /\ op'[c].kind = "generate" => op[c].kind = "generate" /\ op'[c].old = op[c].old
  /\ op'[c].kind = "reconcile" /\ op'[c].pc = "record" /\ op'[c].old # op'[c].release =>
       \/ serving' # op[c].release
       \/ op[c].kind = "reconcile" /\ op[c].pc = "studio" /\ Unread(op[c].old)
       \/ op'[c] = op[c] /\ serving' = serving
  /\ op'[c].kind = "rollback" /\ op'[c].pc \in {"thaw", "after"} /\ op'[c].ok =>
       \/ Held(c) /\ (serving' # op[c].release \/ op[c].release \in stray')
       \/ /\ op[c].kind = "rollback" /\ op[c].pc \in {"thaw", "after"} /\ op[c].ok
          /\ serving' = serving

\* What is put back is another release, or the one that serves drifts.
LEMMA FailedMovesBack ==
  ASSUME TypeOK, NEW c \in Coordinator, UndoStudio(c) \/ ReconcileStudio(c), OpOK(c), ~torn'
  PROVE  ~torn /\ FailedMove(c)
  <1> DEFINE r == op[c].release
  <1>1. /\ op[c].kind \in Freezer /\ r \in Release /\ r # "none" /\ Held(c)
        /\ op[c].kind = "rollback" => op[c].old # r
    BY Kinds, ReleaseAssumption
    DEF UndoStudio, ReconcileStudio, Freezes, At, Freezer, Held, Frozen, Promoting, OpOK, Owner
  <1>2. /\ op'[c].kind = op[c].kind /\ op'[c].release = r /\ op'[c].old = op[c].old
        /\ torn' = torn
    BY UndoStudioStep, ReconcileStudioStep DEF UndoStudio, ReconcileStudio, Has, At
  <1>3. op[c].old # r => serving' # r \/ (r \in stray' /\ Unread(op[c].old))
    BY <1>1, BackSteps DEF Unread
  <1>4. op'[c].pc = "record" => op[c].kind = "reconcile" /\ op[c].pc = "studio"
    BY UndoStudioStep DEF Has, ReconcileStudio, At
  <1>5. QED BY <1>1, <1>2, <1>3, <1>4, Flags DEF FailedMove, Freezer

\* It has looked, or has made it so.
LEMMA FailedMoves ==
  ASSUME TypeOK, NEW c \in Coordinator, Proceeds(c), OpOK(c), ~torn'
  PROVE  ~torn /\ FailedMove(c)
  <1> USE DEF FailedMove, LeftServing, OpOK, Held, Has, With, Leaves, Owner, Raiser, Freezer,
          Frozen, Promoting, Freezing, studio, exports, site, history, drift
  <1>1. CASE WorkerPauses(c)
    BY <1>1, WorkerPausesStep, Flags DEF WorkerPauses, At
  <1>2. CASE Lifecycle(c)
    BY <1>2, LifecycleStep, Flags DEF Lifecycle, At
  <1>3. CASE Finish(c)
    BY <1>3, FinishStep, Flags DEF Finish, At
  <1>4. CASE Activate(c)
    BY <1>4, ActivateStep, Flags DEF Activate, At
  <1>5. CASE Switch(c)
    BY <1>5, SwitchStep, Flags DEF Switch, At, Released
  <1>6. CASE GenerateFails(c)
    BY <1>6, GenerateFailsStep, Flags DEF GenerateFails
  <1>7. CASE RestoreSite(c)
    BY <1>7, RestoreSiteStep, Flags DEF RestoreSite, At
  <1>8. CASE RestoreStudio(c)
    BY <1>8, RestoreStudioStep, Flags DEF RestoreStudio, At, Released
  <1>9. CASE FreezeStart(c)
    BY <1>9, FreezeStartStep, Flags DEF FreezeStart, Freezes
  <1>10. CASE FreezeFails(c)
    BY <1>10, FreezeFailsStep, Flags DEF FreezeFails, Freezes, Released
  <1>11. CASE FreezeOpen(c)
    BY <1>11, FreezeOpenStep, Flags DEF FreezeOpen, Freezes
  <1>12. CASE Thaw(c)
    BY <1>12, ThawStep, Flags DEF Thaw, Freezes, Released
  <1>13. CASE PromotePrepare(c)
    BY <1>13, PromotePrepareStep, Flags DEF PromotePrepare, At
  <1>14. CASE PromoteSite(c)
    BY <1>14, PromoteSiteStep, Flags DEF PromoteSite, At
  <1>15. CASE PromoteStudio(c)
    BY <1>15, PromoteStudioStep, Flags DEF PromoteStudio, At
  <1>16. CASE PromoteExport(c)
    BY <1>16, PromoteExportStep, Flags DEF PromoteExport, At
  <1>17. CASE PromoteRecord(c)
    BY <1>17, PromoteRecordStep, Flags DEF PromoteRecord, At
  <1>18. CASE PromoteFails(c)
    BY <1>18, PromoteFailsStep, Flags DEF PromoteFails
  <1>19. CASE PromoteDone(c)
    BY <1>19, PromoteDoneStep, Flags DEF PromoteDone, At
  <1>20. CASE PromoteCaught(c)
    BY <1>20, PromoteCaughtStep, Flags DEF PromoteCaught, At
  <1>21. CASE UndoSite(c)
    BY <1>21, UndoSiteStep, Flags DEF UndoSite, Freezes
  <1>22. CASE UndoStudio(c)
    BY <1>22, FailedMovesBack
  <1>23. CASE UndoFails(c)
    BY <1>23, UndoFailsStep, Flags DEF UndoFails, Freezes
  <1>24. CASE RollbackWork(c)
    BY <1>24, RollbackWorkStep, Flags DEF RollbackWork, At
  <1>25. CASE RollbackDone(c)
    BY <1>25, RollbackDoneStep, Flags DEF RollbackDone, At
  <1>26. CASE ReconcileSite(c)
    BY <1>26, ReconcileSiteStep, Flags DEF ReconcileSite, At
  <1>27. CASE ReconcileStudio(c)
    BY <1>27, FailedMovesBack
  <1>28. CASE ReconcileRecord(c)
    BY <1>28, ReconcileRecordStep, Flags DEF ReconcileRecord, At
  <1>29. CASE WorkFails(c)
    BY <1>29, WorkFailsStep, Flags DEF WorkFails, At
  <1>30. CASE ReconcileDone(c)
    BY <1>30, ReconcileDoneStep, Flags DEF ReconcileDone, At
  <1>31. CASE Crash(c)
    BY <1>31, CrashStep, Flags DEF Crash
  <1>32. CASE PromoteProbe(c)
    BY <1>32, PromoteProbeStep, Flags DEF PromoteProbe, At
  <1>33. CASE PromoteFailed(c)
    BY <1>33, PromoteFailedStep, Flags DEF PromoteFailed, At
  <1>34. QED BY <1>1, <1>2, <1>3, <1>4, <1>5, <1>6, <1>7, <1>8, <1>9, <1>10, <1>11, <1>12, <1>13,
                <1>14, <1>15, <1>16, <1>17, <1>18, <1>19, <1>20, <1>21, <1>22, <1>23, <1>24,
                <1>25, <1>26, <1>27, <1>28, <1>29, <1>30, <1>31, <1>32, <1>33 DEF Proceeds

\* A failed promotion does not come back to serve.
LEMMA GoneStays ==
  ASSUME TypeOK, OpInv, UniqueInv, RecInv, ~overrun, NEW c \in Coordinator, Proceeds(c),
         NEW r \in Release, Gone(r), promotion[r] # "none",
         op[c].kind = "generate" /\ op[c].old = r => Excused(r),
         op[c].kind \in {"promote", "reconcile"} /\ op[c].release = r =>
           serving' = serving \/ Excused(r) \/ serving' \in stray'
  PROVE  Gone(r)'
  <1>1. CASE Excused(r)
    BY <1>1, ExcusedStays DEF Gone, Next, Generate, Freeze, Promote, Reconcile, Proceeds
  <1>2. CASE ~Excused(r) /\ serving' = serving
    <2>1. stray \subseteq stray'
      BY DriftStays DEF Next, Generate, Freeze, Promote, Reconcile, Proceeds
    <2>2. QED BY <1>2, <2>1 DEF Gone, Excused
  <1>5. CASE serving' \in stray'
    BY <1>5 DEF Gone, Excused
  <1>3. CASE ~Excused(r) /\ serving' # serving /\ serving' \notin stray'
    <2>1. OpOK(c) /\ RecOK(c) /\ ServingMove(c)
      BY ServingMoves DEF OpInv, RecInv
    <2>2. r # "none"
      BY ReleaseAssumption
    <2>9. ~Falls /\ ~Unread(op[c].old)
      BY <1>3 DEF Falls, Unread
    <2>3. op[c] # Idle /\ op[c].release \in Release
      BY <1>3, <2>1, <2>9, Kinds DEF ServingMove, Held, Freezer
    <2>4. CASE op[c].kind = "generate"
      BY <1>3, <2>1, <2>4, <2>9 DEF ServingMove, Gone, OpOK, Raiser
    <2>5. CASE op[c].kind \in Raiser /\ op[c].pc = "undo studio" /\ serving' = op[c].old
      <3>1. op[c].old = previous[op[c].release] /\ job[op[c].release] # "absent"
        BY <2>1, <2>5 DEF OpOK, Raiser, Frozen, Promoting
      <3>2. Followed(op[c].old)
        BY <2>3, <3>1 DEF Followed
      <3>3. QED BY <1>3, <2>5, <3>2 DEF Gone, Excused
    <2>6. CASE op[c].kind = "reconcile" /\ op[c].pc = "studio" /\ serving' = op[c].old
      <3>1. op[c].old \in {"none", op[c].release, previous[op[c].release]}
        BY <2>1, <2>6 DEF RecOK
      <3>2. op[c].old = previous[op[c].release] => Followed(op[c].old)
        BY <2>1, <2>3, <2>6 DEF OpOK, Followed
      <3>3. QED BY <1>3, <2>2, <2>6, <3>1, <3>2 DEF Gone, Excused
    <2>7. CASE op[c].kind = "promote" /\ op[c].pc = "studio" /\ serving' = op[c].release
      BY <1>3, <2>7 DEF Gone
    <2>8. QED BY <1>3, <2>1, <2>4, <2>5, <2>6, <2>7, <2>9 DEF ServingMove
  <1>4. QED BY <1>1, <1>2, <1>3, <1>5

\* A failed promotion does not serve after any step.
LEMMA FailedKept ==
  ASSUME TypeOK, LeaseInv, OpInv, UniqueInv, RecInv, FailedInv, [Next]_vars
  PROVE  FailedInv'
  <1> SUFFICES ASSUME ~overrun', ~torn'
               PROVE  /\ \A r \in Release : promotion'[r] = "failed" => Gone(r)'
                      /\ \A d \in Coordinator : FailedOK(d)'
    BY DEF FailedInv
  <1>1. CASE Aside
    <2>1. /\ op' = op /\ previous' = previous /\ (serving' = serving \/ serving' \in stray')
          /\ \A r \in Release : promotion[r] = "failed" => Gone(r)
          /\ \A d \in Coordinator : FailedOK(d)
      BY <1>1, Asides, AsideServes DEF Opens, Falls, FailedInv
    <2>2. \A r \in Release : promotion'[r] = "failed" => promotion[r] = "failed"
      BY <1>1, AsideRecords
    <2>3. \A r : Excused(r) => Excused(r)'
      BY ExcusedStays
    <2>4. \A r : Gone(r) => Gone(r)'
      <3>1. serving' \in stray' => \A r : Gone(r)'
        BY DEF Gone, Excused
      <3>2. QED BY <2>1, <2>3, <3>1 DEF Gone
    <2>5. ASSUME NEW d \in Coordinator
          PROVE  FailedOK(d)'
      <3>1. op[d].kind = "generate" /\ op[d].old # "none" => op[d].old \in Release
        BY Kinds DEF Id
      <3>2. QED BY <2>1, <2>2, <2>3, <2>4, <3>1 DEF FailedOK
    <2>6. QED BY <2>1, <2>2, <2>4, <2>5
  <1>2. ASSUME NEW c \in Coordinator, Proceeds(c)
        PROVE  /\ \A r \in Release : promotion'[r] = "failed" => Gone(r)'
               /\ \A d \in Coordinator : FailedOK(d)'
    <2>1. LeaseMove(c) /\ RecordMove(c) /\ FailMove(c)
      BY <1>2, LeaseMoves, RecordMoves, FailMoves
    <2>2. ~overrun /\ OpOK(c)
      BY <2>1 DEF LeaseMove, OpInv
    <2>3. ~torn /\ FailedMove(c) /\ ServingMove(c)
      BY <1>2, <2>2, FailedMoves, ServingMoves
    <2>4. /\ \A r \in Release : promotion[r] = "failed" => Gone(r)
          /\ \A d \in Coordinator : FailedOK(d) /\ RecOK(d) /\ OpOK(d)
      BY <2>2, <2>3 DEF FailedInv, RecInv, OpInv
    <2>5. \A r : Excused(r) => Excused(r)'
      BY ExcusedStays
    <2>6. \A d \in Coordinator : Held(d) => generation = d
      BY <2>2 DEF LeaseInv
    <2>7. ASSUME NEW r \in Release, promotion'[r] = "failed"
          PROVE  Gone(r)'
      <3>1. CASE promotion[r] = "failed"
        <4>1. op[c].kind = "generate" /\ op[c].old = r => Excused(r)
          BY <2>4, <3>1, ReleaseAssumption DEF FailedOK
        <4>2. op[c].kind \in {"promote", "reconcile"} /\ op[c].release = r =>
                serving' = serving \/ Excused(r) \/ serving' \in stray'
          BY <2>3, <2>4, <3>1 DEF ServingMove, Falls, Unread, RecOK, Raiser
        <4>3. QED BY <1>2, <2>2, <2>4, <3>1, <4>1, <4>2, GoneStays
      <3>2. CASE promotion[r] # "failed"
        <4>1. /\ op[c] # Idle /\ r = op[c].release /\ serving' = serving
              /\ \/ serving # r
                 \/ op[c].kind = "rollback" /\ op[c].pc = "after" /\ op[c].ok
                 \/ op[c].kind = "reconcile" /\ op[c].pc = "record" /\ op[c].old # r
          BY <2>1, <2>7, <3>2 DEF FailMove
        <4>2. Gone(r)
          BY <2>4, <4>1 DEF Gone, FailedOK
        <4>3. QED BY <2>5, <4>1, <4>2 DEF Gone
      <3>3. QED BY <3>1, <3>2
    <2>8. ASSUME NEW d \in Coordinator, op'[d].kind = "generate", op'[d].old # "none"
          PROVE  promotion'[op'[d].old] # "failed" \/ Excused(op[d].old)'
      <3>1. op[d].kind = "generate" /\ op'[d].old = op[d].old
        BY <2>1, <2>3, <2>8 DEF LeaseMove, Others, FailedMove
      <3>2. PICK x \in Release : x = op[d].old /\ op'[d].old = x
        BY <2>8, <3>1, Kinds DEF Id
      <3>3. promotion[x] # "failed" \/ Excused(x)
        BY <2>4, <2>8, <3>1, <3>2 DEF FailedOK
      <3>4. CASE Excused(x)
        BY <2>5, <3>2, <3>4 DEF Excused, Followed
      <3>5. CASE promotion[x] # "failed" /\ promotion'[x] = "failed"
        <4>1. /\ op[c] # Idle /\ x = op[c].release
              /\ \/ op[c].kind = "promote" /\ (generation \in Coordinator => overrun')
                 \/ op[c].kind = "rollback" /\ op[c].pc = "after" /\ op[c].ok
                 \/ op[c].kind = "reconcile" /\ op[c].pc = "record"
          BY <2>1, <3>2, <3>5 DEF FailMove
        <4>2. generation = d
          BY <2>6, <3>1 DEF Held
        <4>3. op[c].kind = "reconcile" /\ op[c].pc = "record" => generation = c
          BY <2>6 DEF Held, Freezer, Frozen, Promoting
        <4>4. op[c].kind = "rollback" /\ op[c].pc = "after" /\ op[c].ok
          BY <3>1, <4>1, <4>2, <4>3
        <4>5. Excused(x)
          BY <2>4, <3>1, <3>2, <4>1, <4>4 DEF FailedOK
        <4>6. QED BY <3>4, <4>5
      <3>6. QED BY <3>2, <3>3, <3>4, <3>5
    <2>9. ASSUME NEW d \in Coordinator, op'[d].kind = "reconcile", op'[d].pc = "record",
                 op'[d].old # op'[d].release
          PROVE  Gone(op[d].release)'
      <3>1. op[d] # Idle /\ op'[d].release = op[d].release
        BY <2>1, <2>9 DEF LeaseMove, RecordMove, Others, Idle
      <3>2. PICK r \in Release : r = op[d].release /\ op'[d].release = r
        BY <3>1, Kinds
      <3>3. CASE serving' # r \/ r \in stray'
        BY <3>2, <3>3 DEF Gone, Excused, Followed
      <3>4. CASE op'[d] = op[d] /\ serving' = serving
        <4>1. Gone(r)
          BY <2>4, <2>9, <3>2, <3>4 DEF FailedOK
        <4>2. serving' # r \/ Excused(r)'
          BY <2>5, <3>4, <4>1 DEF Gone
        <4>3. QED BY <3>2, <4>2 DEF Gone, Excused, Followed
      <3>5. CASE d # c
        <4>1. op'[d] = op[d]
          BY <2>1, <3>5 DEF LeaseMove, Others
        <4>2. generation = d
          BY <2>6, <2>9, <4>1 DEF Held, Freezer, Frozen, Promoting
        <4>3. serving' = serving \/ serving' \in stray'
          BY <2>3, <2>6, <3>5, <4>2 DEF ServingMove, Falls, Unread
        <4>4. serving' \in stray' => serving' # r \/ r \in stray'
          OBVIOUS
        <4>5. QED BY <3>3, <3>4, <4>1, <4>3, <4>4
      <3>7. Unread(op[c].old) => serving' # r \/ r \in stray'
        BY ReleaseAssumption DEF Unread
      <3>6. QED BY <2>3, <2>9, <3>2, <3>3, <3>4, <3>5, <3>7 DEF FailedMove
    <2>10. ASSUME NEW d \in Coordinator, op'[d].kind = "rollback", op'[d].pc \in {"thaw", "after"},
                  op'[d].ok
           PROVE  /\ Gone(op[d].release)'
                  /\ \/ Excused(op[d].release)'
                     \/ \A e \in Coordinator :
                          op'[e].kind = "generate" => op'[e].old # op'[d].release
      <3>1. op[d] # Idle /\ op'[d].release = op[d].release
        BY <2>1, <2>10 DEF LeaseMove, RecordMove, Others, Idle
      <3>2. PICK r \in Release : r = op[d].release /\ op'[d].release = r
        BY <3>1, Kinds
      <3>3. \A e \in Coordinator : op'[e].kind = "generate" =>
              op[e].kind = "generate" /\ op'[e].old = op[e].old
        BY <2>1, <2>3 DEF LeaseMove, Others, FailedMove
      <3>4. CASE d = c /\ Held(c) /\ (serving' # r \/ r \in stray')
        <4>1. \A e \in Coordinator : op'[e].kind = "generate" => e = c
          BY <2>6, <3>3, <3>4 DEF Held
        <4>2. \A e \in Coordinator : op'[e].kind # "generate"
          BY <2>10, <3>4, <4>1
        <4>3. QED BY <3>2, <3>4, <4>2 DEF Gone, Excused, Followed
      <3>5. CASE /\ op[d].kind = "rollback" /\ op[d].pc \in {"thaw", "after"} /\ op[d].ok
                 /\ d = c => serving' = serving
        <4>1. /\ Gone(r)
              /\ \/ Excused(r)
                 \/ \A e \in Coordinator : op[e].kind = "generate" => op[e].old # r
          BY <2>4, <3>2, <3>5 DEF FailedOK
        <4>2. \/ Excused(r)'
              \/ \A e \in Coordinator : op'[e].kind = "generate" => op'[e].old # r
          BY <2>5, <3>3, <4>1
        <4>3. serving' # r \/ Excused(r)'
          <5>1. CASE d = c
            BY <2>5, <3>5, <4>1, <5>1 DEF Gone
          <5>2. CASE d # c
            <6>1. promotion[r] # "none"
              BY <2>4, <3>2, <3>5 DEF OpOK, Freezer
            <6>2. op[c].kind = "generate" /\ op[c].old = r => Excused(r)
              BY <4>1
            <6>3. op[c] # Idle => op[c].release # r
              BY <2>2, <3>1, <3>2, <5>2 DEF UniqueInv
            <6>4. op[c].kind \in {"promote", "reconcile"} => op[c] # Idle
              BY DEF Idle
            <6>5. Gone(r)'
              BY <1>2, <2>2, <4>1, <6>1, <6>2, <6>3, <6>4, GoneStays
            <6>6. QED BY <6>5 DEF Gone
          <5>3. QED BY <5>1, <5>2
        <4>4. QED BY <3>2, <4>2, <4>3 DEF Gone, Excused, Followed
      <3>6. QED
        <4>1. CASE d = c
          BY <2>3, <2>10, <3>2, <3>4, <3>5, <4>1 DEF FailedMove
        <4>2. CASE d # c
          BY <2>1, <2>10, <3>5, <4>2 DEF LeaseMove, Others
        <4>3. QED BY <4>1, <4>2
    <2>11. \A d \in Coordinator : FailedOK(d)'
      BY <2>8, <2>9, <2>10 DEF FailedOK
    <2>12. QED BY <2>7, <2>11
  <1>3. ASSUME NEW c \in Coordinator, Lapse(c)
        PROVE  FALSE
    BY <1>3 DEF Lapse
  <1>4. ASSUME NEW c \in Coordinator, NEW r \in Release, Starts(c, r)
        PROVE  /\ \A q \in Release : promotion'[q] = "failed" => Gone(q)'
               /\ \A d \in Coordinator : FailedOK(d)'
    <2>1. /\ ~overrun /\ ~torn /\ serving' = serving
          /\ \A d \in Coordinator \ {c} : op'[d] = op[d]
          /\ op'[c].release = r
      BY <1>4, StartRecords, StartMoves, Flags DEF Others
    <2>2. /\ \A q \in Release : promotion[q] = "failed" => Gone(q)
          /\ \A d \in Coordinator : FailedOK(d)
      BY <2>1 DEF FailedInv
    <2>3. \A q : Excused(q) => Excused(q)'
      BY ExcusedStays
    <2>4. \A q : Gone(q) => Gone(q)'
      BY <2>1, <2>3 DEF Gone
    <2>5. \A q \in Release : promotion'[q] = "failed" => promotion[q] = "failed"
      BY <1>4, StartRecords
    <2>6. \A d \in Coordinator :
            op[d].kind = "generate" /\ op[d].old # "none" => op[d].old \in Release
      BY Kinds DEF Id
    <2>7. op'[c].kind = "generate" => op'[c].old = serving
      BY <1>4, StartRecords
    <2>8. op'[c].kind \in {"promote", "reconcile"} => op'[c].pc = "freeze"
      BY <1>4, StartRecords
    <2>9. op'[c].kind \in {"generate", "promote", "reconcile"}
      BY <1>4, StartRecords
    <2>10. FailedOK(c)'
      <3>1. CASE op'[c].kind = "generate" /\ serving \in Release
        <4>1. PICK x \in Release : x = serving /\ op'[c].old = x
          BY <2>7, <3>1
        <4>2. promotion'[x] # "failed" \/ Excused(x)'
          BY <2>2, <2>3, <2>5, <4>1 DEF Gone
        <4>3. QED BY <3>1, <4>1, <4>2 DEF FailedOK, Followed
      <3>2. CASE op'[c].kind = "generate" /\ serving = "none"
        BY <2>7, <3>2 DEF FailedOK
      <3>3. CASE op'[c].kind \in {"promote", "reconcile"}
        BY <2>8, <3>3 DEF FailedOK
      <3>4. QED BY <2>9, <3>1, <3>2, <3>3, Tables DEF Id
    <2>11. ASSUME NEW d \in Coordinator, d # c
           PROVE  FailedOK(d)'
      <3>1. op'[d] = op[d] /\ FailedOK(d)
        BY <2>1, <2>2, <2>11
      <3>2. op[d].kind = "generate" /\ op[d].old # "none" =>
              promotion'[op'[d].old] # "failed" \/ Excused(op[d].old)'
        <4>1. SUFFICES ASSUME op[d].kind = "generate", op[d].old # "none"
                       PROVE  promotion'[op'[d].old] # "failed" \/ Excused(op[d].old)'
          OBVIOUS
        <4>2. PICK x \in Release : x = op[d].old /\ op'[d].old = x
          BY <2>6, <3>1, <4>1
        <4>3. promotion'[x] # "failed" \/ Excused(x)'
          BY <2>3, <2>5, <3>1, <4>1, <4>2 DEF FailedOK
        <4>4. QED BY <4>2, <4>3 DEF Excused, Followed
      <3>3. CASE op[d] = Idle
        BY <3>1, <3>3, Kinds DEF FailedOK
      <3>4. CASE op[d] # Idle
        <4>1. PICK q \in Release : q = op[d].release /\ op'[d].release = q
          BY <3>1, <3>4, Kinds
        <4>2. Gone(q) => serving' # q \/ Excused(q)'
          BY <2>1, <2>3 DEF Gone
        <4>3. op[d].kind = "reconcile" /\ op[d].pc = "record" /\ op[d].old # op[d].release =>
                Gone(op[d].release)'
          BY <3>1, <4>1, <4>2 DEF FailedOK, Gone, Followed
        <4>4. ASSUME op[d].kind = "rollback", op[d].pc \in {"thaw", "after"}, op[d].ok
              PROVE  /\ Gone(op[d].release)'
                     /\ \/ Excused(op[d].release)'
                        \/ \A e \in Coordinator :
                             op'[e].kind = "generate" => op'[e].old # op'[d].release
          <5>1. /\ Gone(q)
                /\ \/ Excused(q)
                   \/ \A e \in Coordinator : op[e].kind = "generate" => op[e].old # q
            BY <3>1, <4>1, <4>4 DEF FailedOK
          <5>2. Gone(op[d].release)'
            BY <4>1, <4>2, <5>1 DEF Gone, Excused, Followed
          <5>3. CASE Excused(q)
            BY <2>3, <4>1, <5>2, <5>3 DEF Excused, Followed
          <5>4. CASE ~Excused(q)
            <6>1. serving # q
              BY <5>1, <5>4, SMTT(40) DEF Gone
            <6>2. \A e \in Coordinator : op'[e].kind = "generate" => op'[e].old # op'[d].release
              BY <2>1, <2>7, <4>1, <5>1, <5>4, <6>1, SMTT(40)
            <6>3. QED BY <5>2, <6>2
          <5>5. QED BY <5>3, <5>4
        <4>5. QED BY <3>1, <3>2, <4>3, <4>4 DEF FailedOK
      <3>5. QED BY <3>3, <3>4
    <2>12. QED BY <2>2, <2>4, <2>5, <2>10, <2>11
  <1>5. QED BY <1>1, <1>2, <1>3, <1>4, Cases DEF Aside

-----------------------------------------------------------------------------
(* What serves                                                             *)

\* What a step makes of the jobs.
JobMove(c) ==
  \A r \in Release :
    /\ job[r] = "ready" /\ job'[r] # "ready" =>
         /\ op[c] # Idle /\ r = op[c].release
         /\ \/ /\ op[c].kind = "generate" /\ op[c].pc \in {"restoring", "ending"}
               /\ op[c].pc = "restoring" /\ op[c].old # "none" => serving' = op[c].old
            \/ op[c].kind \in Raiser /\ op[c].pc = "job"
    /\ job[r] # "ready" /\ job'[r] = "ready" => Held(c)
    /\ job[r] = "absent" /\ job'[r] # "absent" => PromotePrepare(c) /\ r = op[c].release

\* A ready job fails at the end of its own generation or promotion only.
LEMMA JobMoves ==
  ASSUME TypeOK, NEW c \in Coordinator, Proceeds(c), OpOK(c)
  PROVE  JobMove(c)
  <1>0. /\ op[c].kind = "none" <=> op[c] = Idle
        /\ op[c] # Idle => op[c].release \in Release /\ op[c].old \in Id
        /\ job \in [Release -> {"absent", "building", "ready", "failed"}]
        /\ promotion \in [Release -> {"none", "preparing", "ready", "failed", "unknown"}]
        /\ previous \in [Release -> Id]
    BY Kinds, Tables DEF Freezer
  <1> USE <1>0 DEF JobMove, OpOK, Held, Raiser, Freezer, Frozen, Promoting, Freezing,
          studio, exports, Idle
  <1>1. CASE WorkerPauses(c)
    BY <1>1, WorkerPausesStep, Flags DEF WorkerPauses, At
  <1>2. CASE Lifecycle(c)
    BY <1>2, LifecycleStep, Flags DEF Lifecycle, At
  <1>3. CASE Finish(c)
    BY <1>3, FinishStep, Flags DEF Finish, At
  <1>4. CASE Activate(c)
    BY <1>4, ActivateStep, Flags DEF Activate, At
  <1>5. CASE Switch(c)
    BY <1>5, SwitchStep, Flags DEF Switch, At, Released
  <1>6. CASE GenerateFails(c)
    BY <1>6, GenerateFailsStep, Flags DEF GenerateFails
  <1>7. CASE RestoreSite(c)
    BY <1>7, RestoreSiteStep, Flags DEF RestoreSite, At
  <1>8. CASE RestoreStudio(c)
    BY <1>8, RestoreStudioStep, Flags DEF RestoreStudio, At, Released
  <1>9. CASE FreezeStart(c)
    BY <1>9, FreezeStartStep, Flags DEF FreezeStart, Freezes
  <1>10. CASE FreezeFails(c)
    BY <1>10, FreezeFailsStep, Flags DEF FreezeFails, Freezes, Released
  <1>11. CASE FreezeOpen(c)
    BY <1>11, FreezeOpenStep, Flags DEF FreezeOpen, Freezes
  <1>12. CASE Thaw(c)
    BY <1>12, ThawStep, Flags DEF Thaw, Freezes, Released
  <1>13. CASE PromotePrepare(c)
    BY <1>13, PromotePrepareStep, Flags DEF PromotePrepare, At, Made
  <1>14. CASE PromoteSite(c)
    BY <1>14, PromoteSiteStep, Flags DEF PromoteSite, At
  <1>15. CASE PromoteStudio(c)
    BY <1>15, PromoteStudioStep, Flags DEF PromoteStudio, At
  <1>16. CASE PromoteExport(c)
    BY <1>16, PromoteExportStep, Flags DEF PromoteExport, At
  <1>17. CASE PromoteRecord(c)
    BY <1>17, PromoteRecordStep, Flags DEF PromoteRecord, At
  <1>18. CASE PromoteFails(c)
    BY <1>18, PromoteFailsStep, Flags DEF PromoteFails
  <1>19. CASE PromoteDone(c)
    BY <1>19, PromoteDoneStep, Flags DEF PromoteDone, At
  <1>20. CASE PromoteCaught(c)
    BY <1>20, PromoteCaughtStep, Flags DEF PromoteCaught, At
  <1>21. CASE UndoSite(c)
    BY <1>21, UndoSiteStep, Flags DEF UndoSite, Freezes
  <1>22. CASE UndoStudio(c)
    BY <1>22, UndoStudioStep, Flags DEF UndoStudio, Freezes
  <1>23. CASE UndoFails(c)
    BY <1>23, UndoFailsStep, Flags DEF UndoFails, Freezes
  <1>24. CASE RollbackWork(c)
    BY <1>24, RollbackWorkStep, Flags DEF RollbackWork, At
  <1>25. CASE RollbackDone(c)
    BY <1>25, RollbackDoneStep, Flags DEF RollbackDone, At
  <1>26. CASE ReconcileSite(c)
    BY <1>26, ReconcileSiteStep, Flags DEF ReconcileSite, At
  <1>27. CASE ReconcileStudio(c)
    BY <1>27, ReconcileStudioStep, Flags DEF ReconcileStudio, At
  <1>28. CASE ReconcileRecord(c)
    BY <1>28, ReconcileRecordStep, Flags DEF ReconcileRecord, At
  <1>29. CASE WorkFails(c)
    BY <1>29, WorkFailsStep, Flags DEF WorkFails, At
  <1>30. CASE ReconcileDone(c)
    BY <1>30, ReconcileDoneStep, Flags DEF ReconcileDone, At
  <1>31. CASE Crash(c)
    BY <1>31, CrashStep, Flags DEF Crash
  <1>32. CASE PromoteProbe(c)
    BY <1>32, PromoteProbeStep, Flags DEF PromoteProbe, At
  <1>33. CASE PromoteFailed(c)
    BY <1>33, PromoteFailedStep, Flags DEF PromoteFailed, At
  <1>34. QED BY <1>1, <1>2, <1>3, <1>4, <1>5, <1>6, <1>7, <1>8, <1>9, <1>10, <1>11, <1>12, <1>13,
                <1>14, <1>15, <1>16, <1>17, <1>18, <1>19, <1>20, <1>21, <1>22, <1>23, <1>24,
                <1>25, <1>26, <1>27, <1>28, <1>29, <1>30, <1>31, <1>32, <1>33 DEF Proceeds

\* What becomes unresolved.
UnresolvedMove(c) ==
  \A r \in Release :
    /\ promotion[r] = "none" => promotion'[r] = "none"
    /\ r \in Unresolved' /\ r \notin Unresolved =>
         op[c].kind = "rollback" /\ r = op[c].release /\ promotion[r] = "ready" /\ job' = job

\* Of the promotions that were over only one that was complete becomes unresolved.
LEMMA UnresolvedMoves ==
  ASSUME TypeOK, NEW c \in Coordinator, Proceeds(c), OpOK(c), RecOK(c)
  PROVE  UnresolvedMove(c)
  <1>0. /\ op[c].kind = "none" <=> op[c] = Idle
        /\ op[c] # Idle => op[c].release \in Release /\ op[c].old \in Id
        /\ job \in [Release -> {"absent", "building", "ready", "failed"}]
        /\ promotion \in [Release -> {"none", "preparing", "ready", "failed", "unknown"}]
        /\ previous \in [Release -> Id]
    BY Kinds, Tables DEF Freezer
  <1> USE <1>0 DEF UnresolvedMove, Unresolved, OpOK, RecOK, Raiser, Freezer, studio, exports, Idle
  <1>1. CASE WorkerPauses(c)
    BY <1>1, WorkerPausesStep, Flags DEF WorkerPauses, At
  <1>2. CASE Lifecycle(c)
    BY <1>2, LifecycleStep, Flags DEF Lifecycle, At
  <1>3. CASE Finish(c)
    BY <1>3, FinishStep, Flags DEF Finish, At
  <1>4. CASE Activate(c)
    BY <1>4, ActivateStep, Flags DEF Activate, At
  <1>5. CASE Switch(c)
    BY <1>5, SwitchStep, Flags DEF Switch, At, Released
  <1>6. CASE GenerateFails(c)
    BY <1>6, GenerateFailsStep, Flags DEF GenerateFails
  <1>7. CASE RestoreSite(c)
    BY <1>7, RestoreSiteStep, Flags DEF RestoreSite, At
  <1>8. CASE RestoreStudio(c)
    BY <1>8, RestoreStudioStep, Flags DEF RestoreStudio, At, Released
  <1>9. CASE FreezeStart(c)
    BY <1>9, FreezeStartStep, Flags DEF FreezeStart, Freezes
  <1>10. CASE FreezeFails(c)
    BY <1>10, FreezeFailsStep, Flags DEF FreezeFails, Freezes, Released
  <1>11. CASE FreezeOpen(c)
    BY <1>11, FreezeOpenStep, Flags DEF FreezeOpen, Freezes
  <1>12. CASE Thaw(c)
    BY <1>12, ThawStep, Flags DEF Thaw, Freezes, Released
  <1>13. CASE PromotePrepare(c)
    BY <1>13, PromotePrepareStep, Flags DEF PromotePrepare, At
  <1>14. CASE PromoteSite(c)
    BY <1>14, PromoteSiteStep, Flags DEF PromoteSite, At
  <1>15. CASE PromoteStudio(c)
    BY <1>15, PromoteStudioStep, Flags DEF PromoteStudio, At
  <1>16. CASE PromoteExport(c)
    BY <1>16, PromoteExportStep, Flags DEF PromoteExport, At
  <1>17. CASE PromoteRecord(c)
    BY <1>17, PromoteRecordStep, Flags DEF PromoteRecord, At
  <1>18. CASE PromoteFails(c)
    BY <1>18, PromoteFailsStep, Flags DEF PromoteFails
  <1>19. CASE PromoteDone(c)
    BY <1>19, PromoteDoneStep, Flags DEF PromoteDone, At
  <1>20. CASE PromoteCaught(c)
    BY <1>20, PromoteCaughtStep, Flags DEF PromoteCaught, At
  <1>21. CASE UndoSite(c)
    BY <1>21, UndoSiteStep, Flags DEF UndoSite, Freezes
  <1>22. CASE UndoStudio(c)
    BY <1>22, UndoStudioStep, Flags DEF UndoStudio, Freezes
  <1>23. CASE UndoFails(c)
    BY <1>23, UndoFailsStep, Flags DEF UndoFails, Freezes
  <1>24. CASE RollbackWork(c)
    BY <1>24, RollbackWorkStep, Flags DEF RollbackWork, At
  <1>25. CASE RollbackDone(c)
    BY <1>25, RollbackDoneStep, Flags DEF RollbackDone, At
  <1>26. CASE ReconcileSite(c)
    BY <1>26, ReconcileSiteStep, Flags DEF ReconcileSite, At
  <1>27. CASE ReconcileStudio(c)
    BY <1>27, ReconcileStudioStep, Flags DEF ReconcileStudio, At
  <1>28. CASE ReconcileRecord(c)
    BY <1>28, ReconcileRecordStep, Flags DEF ReconcileRecord, At
  <1>29. CASE WorkFails(c)
    BY <1>29, WorkFailsStep, Flags DEF WorkFails, At
  <1>30. CASE ReconcileDone(c)
    BY <1>30, ReconcileDoneStep, Flags DEF ReconcileDone, At
  <1>31. CASE Crash(c)
    BY <1>31, CrashStep, Flags DEF Crash
  <1>32. CASE PromoteProbe(c)
    BY <1>32, PromoteProbeStep, Flags DEF PromoteProbe, At
  <1>33. CASE PromoteFailed(c)
    BY <1>33, PromoteFailedStep, Flags DEF PromoteFailed, At
  <1>34. QED BY <1>1, <1>2, <1>3, <1>4, <1>5, <1>6, <1>7, <1>8, <1>9, <1>10, <1>11, <1>12, <1>13,
                <1>14, <1>15, <1>16, <1>17, <1>18, <1>19, <1>20, <1>21, <1>22, <1>23, <1>24,
                <1>25, <1>26, <1>27, <1>28, <1>29, <1>30, <1>31, <1>32, <1>33 DEF Proceeds

\* What a step makes of the site's active release.
HealMove(c) ==
  /\ active' = active \/ active' = Healed \/ Falls \/ Held(c)
  /\ Freezes(c, "work")' =>
       \/ Freezes(c, "work") /\ active' = active /\ serving' = serving /\ job' = job
       \/ active' = Healed /\ serving' = serving /\ job' = job
       \/ Falls /\ job' = job

\* An opening brings it to what the studio serves; the work of a freeze starts with one.
LEMMA HealMoves ==
  ASSUME TypeOK, NEW c \in Coordinator, Proceeds(c)
  PROVE  HealMove(c)
  <1> USE DEF HealMove, Freezes, Held, Has, Leaves, Raiser, Freezer, Frozen, Promoting, Freezing,
          studio, exports, site, Idle
  <1>1. CASE WorkerPauses(c)
    BY <1>1, WorkerPausesStep, Flags DEF WorkerPauses, At
  <1>2. CASE Lifecycle(c)
    BY <1>2, LifecycleStep, Flags DEF Lifecycle, At
  <1>3. CASE Finish(c)
    BY <1>3, FinishStep, Flags DEF Finish, At
  <1>4. CASE Activate(c)
    BY <1>4, ActivateStep, Flags DEF Activate, At
  <1>5. CASE Switch(c)
    BY <1>5, SwitchStep, Flags DEF Switch, At, Released
  <1>6. CASE GenerateFails(c)
    BY <1>6, GenerateFailsStep, Flags DEF GenerateFails
  <1>7. CASE RestoreSite(c)
    BY <1>7, RestoreSiteStep, Flags DEF RestoreSite, At
  <1>8. CASE RestoreStudio(c)
    BY <1>8, RestoreStudioStep, Flags DEF RestoreStudio, At, Released
  <1>9. CASE FreezeStart(c)
    BY <1>9, FreezeStartStep, Flags DEF FreezeStart, Freezes
  <1>10. CASE FreezeFails(c)
    BY <1>10, FreezeFailsStep, Flags DEF FreezeFails, Freezes, Released
  <1>11. CASE FreezeOpen(c)
    BY <1>11, OpeningSteps DEF Opens
  <1>12. CASE Thaw(c)
    BY <1>12, ThawStep, Flags DEF Thaw, Freezes, Released
  <1>13. CASE PromotePrepare(c)
    BY <1>13, PromotePrepareStep, Flags DEF PromotePrepare, At
  <1>14. CASE PromoteSite(c)
    BY <1>14, PromoteSiteStep, Flags DEF PromoteSite, At
  <1>15. CASE PromoteStudio(c)
    BY <1>15, PromoteStudioStep, Flags DEF PromoteStudio, At
  <1>16. CASE PromoteExport(c)
    BY <1>16, PromoteExportStep, Flags DEF PromoteExport, At
  <1>17. CASE PromoteRecord(c)
    BY <1>17, PromoteRecordStep, Flags DEF PromoteRecord, At
  <1>18. CASE PromoteFails(c)
    BY <1>18, PromoteFailsStep, Flags DEF PromoteFails
  <1>19. CASE PromoteDone(c)
    BY <1>19, OpeningSteps DEF Opens
  <1>20. CASE PromoteCaught(c)
    BY <1>20, PromoteCaughtStep, Flags DEF PromoteCaught, At
  <1>21. CASE UndoSite(c)
    BY <1>21, UndoSiteStep, Flags DEF UndoSite, Freezes
  <1>22. CASE UndoStudio(c)
    BY <1>22, UndoStudioStep, Flags DEF UndoStudio, Freezes
  <1>23. CASE UndoFails(c)
    BY <1>23, UndoFailsStep, Flags DEF UndoFails, Freezes
  <1>24. CASE RollbackWork(c)
    BY <1>24, RollbackWorkStep, Flags DEF RollbackWork, At
  <1>25. CASE RollbackDone(c)
    BY <1>25, RollbackDoneStep, Flags DEF RollbackDone, At
  <1>26. CASE ReconcileSite(c)
    BY <1>26, ReconcileSiteStep, Flags DEF ReconcileSite, At
  <1>27. CASE ReconcileStudio(c)
    BY <1>27, ReconcileStudioStep, Flags DEF ReconcileStudio, At
  <1>28. CASE ReconcileRecord(c)
    BY <1>28, ReconcileRecordStep, Flags DEF ReconcileRecord, At
  <1>29. CASE WorkFails(c)
    BY <1>29, WorkFailsStep, Flags DEF WorkFails, At
  <1>30. CASE ReconcileDone(c)
    BY <1>30, ReconcileDoneStep, Flags DEF ReconcileDone, At
  <1>31. CASE Crash(c)
    BY <1>31, CrashStep, Flags DEF Crash
  <1>32. CASE PromoteProbe(c)
    BY <1>32, OpeningSteps DEF Opens
  <1>33. CASE PromoteFailed(c)
    BY <1>33, PromoteFailedStep, Flags DEF PromoteFailed, At
  <1>34. QED BY <1>1, <1>2, <1>3, <1>4, <1>5, <1>6, <1>7, <1>8, <1>9, <1>10, <1>11, <1>12, <1>13,
                <1>14, <1>15, <1>16, <1>17, <1>18, <1>19, <1>20, <1>21, <1>22, <1>23, <1>24,
                <1>25, <1>26, <1>27, <1>28, <1>29, <1>30, <1>31, <1>32, <1>33 DEF Proceeds

\* Where the release to put back comes from.
ServeMove(c) ==
  /\ served' = served /\ (stacked => stacked')
  /\ op'[c].kind = "generate" => op[c].kind = "generate" /\ op'[c].old = op[c].old
  /\ op'[c].kind \in Raiser =>
       op[c].kind \in Raiser /\ (PromotePrepare(c) \/ op'[c].old = op[c].old)
  /\ op'[c].kind = "reconcile" /\ op'[c].pc = "studio" => ReconcileSite(c) \/ op'[c] = op[c]

\* It is the one read at the start, the one a promotion found, or that of a reconciliation.
LEMMA ServeMoves ==
  ASSUME TypeOK, NEW c \in Coordinator, Proceeds(c), OpOK(c)
  PROVE  ServeMove(c)
  <1> USE DEF ServeMove, OpOK, Has, Leaves, Raiser, Freezer, Frozen, Promoting, Freezing,
          history, drift, Idle
  <1>1. CASE WorkerPauses(c)
    BY <1>1, WorkerPausesStep, Flags DEF WorkerPauses, At
  <1>2. CASE Lifecycle(c)
    BY <1>2, LifecycleStep, Flags DEF Lifecycle, At
  <1>3. CASE Finish(c)
    BY <1>3, FinishStep, Flags DEF Finish, At
  <1>4. CASE Activate(c)
    BY <1>4, ActivateStep, Flags DEF Activate, At
  <1>5. CASE Switch(c)
    BY <1>5, SwitchStep, Flags DEF Switch, At, Released
  <1>6. CASE GenerateFails(c)
    BY <1>6, GenerateFailsStep, Flags DEF GenerateFails
  <1>7. CASE RestoreSite(c)
    BY <1>7, RestoreSiteStep, Flags DEF RestoreSite, At
  <1>8. CASE RestoreStudio(c)
    BY <1>8, RestoreStudioStep, Flags DEF RestoreStudio, At, Released
  <1>9. CASE FreezeStart(c)
    BY <1>9, FreezeStartStep, Flags DEF FreezeStart, Freezes
  <1>10. CASE FreezeFails(c)
    BY <1>10, FreezeFailsStep, Flags DEF FreezeFails, Freezes, Released
  <1>11. CASE FreezeOpen(c)
    BY <1>11, FreezeOpenStep, Flags DEF FreezeOpen, Freezes
  <1>12. CASE Thaw(c)
    BY <1>12, ThawStep, Flags DEF Thaw, Freezes, Released
  <1>13. CASE PromotePrepare(c)
    BY <1>13, PromotePrepareStep, Flags DEF PromotePrepare, At
  <1>14. CASE PromoteSite(c)
    BY <1>14, PromoteSiteStep, Flags DEF PromoteSite, At
  <1>15. CASE PromoteStudio(c)
    BY <1>15, PromoteStudioStep, Flags DEF PromoteStudio, At
  <1>16. CASE PromoteExport(c)
    BY <1>16, PromoteExportStep, Flags DEF PromoteExport, At
  <1>17. CASE PromoteRecord(c)
    BY <1>17, PromoteRecordStep, Flags DEF PromoteRecord, At
  <1>18. CASE PromoteFails(c)
    BY <1>18, PromoteFailsStep, Flags DEF PromoteFails
  <1>19. CASE PromoteDone(c)
    BY <1>19, PromoteDoneStep, Flags DEF PromoteDone, At
  <1>20. CASE PromoteCaught(c)
    BY <1>20, PromoteCaughtStep, Flags DEF PromoteCaught, At
  <1>21. CASE UndoSite(c)
    BY <1>21, UndoSiteStep, Flags DEF UndoSite, Freezes
  <1>22. CASE UndoStudio(c)
    BY <1>22, UndoStudioStep, Flags DEF UndoStudio, Freezes
  <1>23. CASE UndoFails(c)
    BY <1>23, UndoFailsStep, Flags DEF UndoFails, Freezes
  <1>24. CASE RollbackWork(c)
    BY <1>24, RollbackWorkStep, Flags DEF RollbackWork, At
  <1>25. CASE RollbackDone(c)
    BY <1>25, RollbackDoneStep, Flags DEF RollbackDone, At
  <1>26. CASE ReconcileSite(c)
    BY <1>26, ReconcileSiteStep, Flags DEF ReconcileSite, At
  <1>27. CASE ReconcileStudio(c)
    BY <1>27, ReconcileStudioStep, Flags DEF ReconcileStudio, At
  <1>28. CASE ReconcileRecord(c)
    BY <1>28, ReconcileRecordStep, Flags DEF ReconcileRecord, At
  <1>29. CASE WorkFails(c)
    BY <1>29, WorkFailsStep, Flags DEF WorkFails, At
  <1>30. CASE ReconcileDone(c)
    BY <1>30, ReconcileDoneStep, Flags DEF ReconcileDone, At
  <1>31. CASE Crash(c)
    BY <1>31, CrashStep, Flags DEF Crash
  <1>32. CASE PromoteProbe(c)
    BY <1>32, PromoteProbeStep, Flags DEF PromoteProbe, At
  <1>33. CASE PromoteFailed(c)
    BY <1>33, PromoteFailedStep, Flags DEF PromoteFailed, At
  <1>34. QED BY <1>1, <1>2, <1>3, <1>4, <1>5, <1>6, <1>7, <1>8, <1>9, <1>10, <1>11, <1>12, <1>13,
                <1>14, <1>15, <1>16, <1>17, <1>18, <1>19, <1>20, <1>21, <1>22, <1>23, <1>24,
                <1>25, <1>26, <1>27, <1>28, <1>29, <1>30, <1>31, <1>32, <1>33 DEF Proceeds

\* Promotions still come one at a time after every step.
LEMMA StackKept ==
  ASSUME TypeOK, FreshInv, ForeignInv, OpInv, RecInv, StackInv, [Next]_vars
  PROVE  StackInv'
  <1> SUFFICES ASSUME ~overrun', ~stacked'
               PROVE  /\ \A q, r \in Release : Bad(q)' /\ Bad(r)' => q = r
                      /\ \A r \in Release :
                           promotion'[r] # "none" /\ job'[r] # "absent" =>
                             \A p \in Release : p = previous'[r] =>
                               ~InHand(p)' /\ p \notin Unresolved'
    <2>1. ASSUME NEW r \in Release, previous'[r] # "none"
          PROVE  \E p \in Release : p = previous'[r]
      <3>1. TypeOK'
        BY TypeKept
      <3>2. QED BY <2>1, <3>1, Tables DEF Id
    <2>2. QED BY <2>1 DEF StackInv, InHand
  <1>1. CASE Aside
    <2>1. op' = op /\ previous' = previous /\ ~overrun /\ ~stacked
      BY <1>1, Asides
    <2>2. \A r \in Release :
            /\ r \in Unresolved' <=> r \in Unresolved
            /\ promotion'[r] # "none" => promotion[r] # "none" /\ r \notin foreign
            /\ promotion'[r] # "none" /\ job'[r] # "absent" => job[r] # "absent"
      BY <1>1, AsideRecords DEF Unresolved, ForeignInv
    <2>3. ASSUME NEW r \in Release, Bad(r)'
          PROVE  Bad(r)
      <3>1. r \in Unresolved /\ r \notin foreign
        BY <2>2, <2>3 DEF Bad, Unresolved
      <3>2. promotion[r] # "none" /\ job'[r] \in {"building", "failed"}
        BY <2>3, <3>1 DEF Bad, Unresolved
      <3>3. QED BY <1>1, <3>1, <3>2, AsideRecords DEF Bad
    <2>4. \A p : InHand(p)' => InHand(p)
      BY <2>1 DEF InHand
    <2>5. QED BY <2>1, <2>2, <2>3, <2>4, ReleaseAssumption DEF StackInv
  <1>2. ASSUME NEW c \in Coordinator, Proceeds(c)
        PROVE  /\ \A q, r \in Release : Bad(q)' /\ Bad(r)' => q = r
               /\ \A r \in Release :
                    promotion'[r] # "none" /\ job'[r] # "absent" =>
                      \A p \in Release : p = previous'[r] => ~InHand(p)' /\ p \notin Unresolved'
    <2>1. LeaseMove(c) /\ RecordMove(c) /\ ServeMove(c) /\ JobMove(c)
      BY <1>2, LeaseMoves, RecordMoves, ServeMoves, JobMoves DEF OpInv
    <2>2. ~overrun /\ ~stacked /\ Exported /\ RecOK(c) /\ OpOK(c)
      BY <2>1 DEF LeaseMove, ServeMove, RecInv, OpInv
    <2>3. UnresolvedMove(c)
      BY <1>2, <2>2, UnresolvedMoves
    <2>4. /\ \A q, r \in Release : Bad(q) /\ Bad(r) => q = r
          /\ \A r \in Release : promotion[r] # "none" /\ job[r] # "absent" =>
               \A p \in Release : p = previous[r] => ~InHand(p) /\ p \notin Unresolved
      BY <2>2, ReleaseAssumption DEF StackInv
    <2>5. \A r \in Release : Bad(r)' => Bad(r) \/ (PromotePrepare(c) /\ r = op[c].release)
      <3> SUFFICES ASSUME NEW r \in Release, Bad(r)', ~Bad(r)
                   PROVE  PromotePrepare(c) /\ r = op[c].release
        OBVIOUS
      <3>1. r \in Unresolved' /\ job'[r] \in {"building", "failed"}
        BY DEF Bad
      <3>2. CASE r \notin Unresolved
        <4>1. promotion[r] = "ready" /\ job'[r] = job[r]
          BY <2>3, <3>1, <3>2 DEF UnresolvedMove
        <4>2. QED BY <2>2, <3>1, <4>1 DEF Exported
      <3>3. CASE r \in Unresolved /\ job[r] = "ready"
        <4>1. /\ r = op[c].release
              /\ op[c].kind = "generate" \/ (op[c].kind \in Raiser /\ op[c].pc = "job")
          BY <2>1, <3>1, <3>3 DEF JobMove
        <4>2. op[c].kind \in Raiser /\ op[c].pc = "job" => promotion[r] = "failed"
          BY <2>2, <4>1 DEF RecOK
        <4>3. op[c].kind = "generate" => promotion[r] = "none"
          BY <2>2, <4>1 DEF OpOK
        <4>4. QED BY <3>3, <4>1, <4>2, <4>3 DEF Unresolved
      <3>4. CASE r \in Unresolved /\ job[r] = "absent"
        BY <2>1, <3>1, <3>4 DEF JobMove
      <3>5. QED BY <3>2, <3>3, <3>4, Tables DEF Bad
    <2>6. ASSUME PromotePrepare(c)
          PROVE  /\ \A q \in Unresolved : job[q] = "absent"
                 /\ promotion' = promotion
                 /\ op[c].release \in Release
                 /\ LET o == IF active # "none" THEN active ELSE serving IN
                    ~InHand(o) /\ previous'[op[c].release] = o
      <3>1. op[c].release \in Release
        BY <2>6, Kinds DEF PromotePrepare, At, Freezer
      <3>2. QED BY <2>6, <3>1, Tables DEF PromotePrepare, Stacks, exports
    <2>7. \A q, r \in Release : Bad(q)' /\ Bad(r)' => q = r
      <3>1. CASE PromotePrepare(c)
        <4>1. \A q \in Release : ~Bad(q)
          BY <2>6, <3>1 DEF Bad
        <4>2. QED BY <2>5, <4>1
      <3>2. CASE ~PromotePrepare(c)
        BY <2>4, <2>5, <3>2
      <3>3. QED BY <3>1, <3>2
    <2>8. ASSUME NEW r \in Release, promotion'[r] # "none", job'[r] # "absent",
                 NEW p \in Release, p = previous'[r]
          PROVE  ~InHand(p)' /\ p \notin Unresolved'
      <3>1. CASE PromotePrepare(c) /\ r = op[c].release
        <4>1. ~InHand(p) /\ promotion' = promotion
          BY <2>6, <2>8, <3>1
        <4>2. p \in Known
          BY <2>6, <2>8, <3>1 DEF FreshInv
        <4>3. job[p] # "absent"
          BY <4>2, ReleaseAssumption DEF Known
        <4>4. p \notin Unresolved'
          BY <2>6, <3>1, <4>1, <4>3 DEF Unresolved
        <4>5. QED BY <2>1, <4>1, <4>4, InHandStays DEF LeaseMove
      <3>2. CASE ~(PromotePrepare(c) /\ r = op[c].release)
        <4>1. promotion[r] # "none" /\ job[r] # "absent"
          BY <2>1, <2>3, <2>8, <3>2 DEF UnresolvedMove, JobMove
        <4>2. p = previous[r]
          BY <2>8, <4>1, PreviousFixed
        <4>3. ~InHand(p) /\ p \notin Unresolved
          BY <2>4, <4>1, <4>2
        <4>4. p \notin Unresolved'
          BY <2>3, <4>3, Kinds DEF UnresolvedMove, InHand, Idle
        <4>5. QED BY <2>1, <4>3, <4>4, InHandStays DEF LeaseMove
      <3>3. QED BY <3>1, <3>2
    <2>9. QED BY <2>7, <2>8
  <1>3. ASSUME NEW c \in Coordinator, Lapse(c)
        PROVE  FALSE
    BY <1>3 DEF Lapse
  <1>4. ASSUME NEW c \in Coordinator, NEW q \in Release, Starts(c, q)
        PROVE  /\ \A x, r \in Release : Bad(x)' /\ Bad(r)' => x = r
               /\ \A r \in Release :
                    promotion'[r] # "none" /\ job'[r] # "absent" =>
                      \A p \in Release : p = previous'[r] => ~InHand(p)' /\ p \notin Unresolved'
    <2>1. ~overrun /\ ~stacked
      BY <1>4, StartRecords, StartMoves, Flags
    <2>2. \A r \in Release : Bad(r)' => Bad(r)
      BY <1>4, StartRecords, ZenonT(40) DEF Bad, Unresolved
    <2>3. ASSUME NEW r \in Release, promotion'[r] # "none", job'[r] # "absent",
                 NEW p \in Release, p = previous'[r]
          PROVE  ~InHand(p)' /\ p \notin Unresolved'
      <3>1. promotion[r] # "none" /\ job[r] # "absent" /\ previous[r] = p
        BY <1>4, <2>3, StartRecords, ZenonT(40)
      <3>2. ~InHand(p) /\ p \notin Unresolved /\ job[p] # "absent"
        BY <2>1, <3>1, ReleaseAssumption DEF StackInv, FreshInv, Known
      <3>3. p # q
        BY <1>4, <3>2, StartRecords, ZenonT(40) DEF Unresolved
      <3>4. ~InHand(p)'
        BY <1>4, <3>2, <3>3, StartMoves DEF InHand, Others
      <3>5. p \notin Unresolved'
        BY <1>4, <3>2, <3>3, StartRecords DEF Unresolved
      <3>6. QED BY <3>4, <3>5
    <2>4. QED BY <2>1, <2>2, <2>3 DEF StackInv
  <1>5. QED BY <1>1, <1>2, <1>3, <1>4, Cases DEF Aside

\* Work under a freeze finds the site healed after every step.
LEMMA HealKept ==
  ASSUME TypeOK, LeaseInv, FreshInv, OpInv, HealInv, [Next]_vars
  PROVE  HealInv'
  <1> SUFFICES ASSUME ~overrun', NEW d \in Coordinator, Freezes(d, "work")', Ready(serving)'
               PROVE  active' = serving'
    BY DEF HealInv
  <1>1. CASE Aside
    <2>1. op' = op /\ ~overrun
      BY <1>1, Asides
    <2>2. CASE Falls
      BY <2>2 DEF Falls
    <2>3. CASE ~Falls
      <3>1. serving' = serving /\ (active' = active \/ active' = Healed)
        BY <1>1, <2>3, AsideServes DEF Opens
      <3>2. serving \in Release /\ job'[serving] = "ready"
        BY <3>1, Tables DEF Ready, Id
      <3>3. serving \in foreign => job[serving] = "ready"
        BY <3>2, ReleaseAssumption DEF FreshInv, Known
      <3>4. Ready(serving)
        BY <1>1, <3>2, <3>3, AsideRecords, ReleaseAssumption DEF Ready
      <3>5. active = serving
        BY <2>1, <3>4 DEF HealInv, Freezes
      <3>6. QED BY <3>1, <3>4, <3>5 DEF Healed
    <2>4. QED BY <2>2, <2>3
  <1>2. ASSUME NEW c \in Coordinator, Proceeds(c)
        PROVE  active' = serving'
    <2>1. LeaseMove(c) /\ HealMove(c) /\ JobMove(c) /\ ServingMove(c)
      BY <1>2, LeaseMoves, HealMoves, JobMoves, ServingMoves DEF OpInv
    <2>2. ~overrun
      BY <2>1 DEF LeaseMove
    <2>3. CASE d = c
      <3>1. CASE serving' = serving /\ job' = job
        <4>1. Ready(serving)
          BY <3>1 DEF Ready
        <4>2. QED BY <2>1, <2>2, <2>3, <3>1, <4>1 DEF HealMove, HealInv, Healed, Falls
      <3>2. CASE Falls
        BY <3>2 DEF Falls
      <3>3. QED BY <2>1, <2>3, <3>1, <3>2 DEF HealMove
    <2>6. CASE Falls
      BY <2>6 DEF Falls
    <2>4. CASE d # c /\ ~Falls
      <3>1. Freezes(d, "work")
        BY <2>1, <2>4 DEF LeaseMove, Others, Freezes
      <3>2. generation = d
        BY <2>2, <3>1 DEF LeaseInv, Held, Freezes, Freezer, Frozen, Promoting, Freezing
      <3>3. ~Held(c)
        BY <2>2, <2>4, <3>2 DEF LeaseInv
      <3>4. serving' = serving
        BY <2>1, <2>4, <3>3 DEF ServingMove
      <3>5. Ready(serving)
        <4>1. serving \in Release
          BY <3>4, Tables DEF Ready, Id
        <4>2. QED BY <2>1, <3>3, <3>4, <4>1 DEF Ready, JobMove
      <3>6. active = serving
        BY <2>2, <3>1, <3>5 DEF HealInv
      <3>7. QED BY <2>1, <2>4, <3>3, <3>4, <3>5, <3>6 DEF HealMove, Healed
    <2>5. QED BY <2>3, <2>4, <2>6
  <1>3. ASSUME NEW c \in Coordinator, Lapse(c)
        PROVE  FALSE
    BY <1>3 DEF Lapse
  <1>4. ASSUME NEW c \in Coordinator, NEW r \in Release, Starts(c, r)
        PROVE  active' = serving'
    <2>1. ~overrun /\ serving' = serving /\ active' = active
      BY <1>4, StartRecords, StartMoves, Flags DEF site
    <2>2. d # c
      BY <1>4, StartRecords DEF Freezes
    <2>3. Freezes(d, "work")
      BY <1>4, <2>2, StartMoves DEF Others, Freezes
    <2>4. Ready(serving)
      <3>1. serving \in Release
        BY <2>1, Tables DEF Ready, Id
      <3>2. job'[serving] = "ready" => job[serving] = "ready"
        BY <1>4, <3>1, StartRecords
      <3>3. QED BY <2>1, <3>2 DEF Ready
    <2>5. QED BY <2>1, <2>3, <2>4 DEF HealInv
  <1>5. CASE UNCHANGED vars
    BY <1>1, <1>5 DEF Aside
  <1>6. QED BY <1>1, <1>2, <1>3, <1>4, Cases DEF Aside

\* The release a promotion would go back to is in nobody's hands.
LEMMA NotFollowed ==
  ASSUME TypeOK, PrevInv, StackInv, ~overrun, ~stacked, NEW r \in Release, InHand(r)
  PROVE  ~Followed(r)
  <1> SUFFICES ASSUME NEW q \in Release, previous[q] = r, job[q] # "absent"
               PROVE  FALSE
    BY DEF Followed
  <1>1. r # "none"
    BY ReleaseAssumption
  <1>2. promotion[q] # "none"
    BY <1>1 DEF PrevInv
  <1>3. QED BY <1>1, <1>2 DEF StackInv

\* The release that a promotion would go back to still can serve after a step.
LEMMA GoodStays ==
  ASSUME TypeOK, OpInv, StackInv, [Next]_vars, ~overrun, ~stacked,
         NEW c \in Coordinator, JobMove(c),
         NEW q \in Release, promotion[q] # "none", job[q] # "absent", Ready(previous[q])
  PROVE  previous'[q] = previous[q] /\ \A x : x = previous[q] => Ready(x)'
  <1>1. previous'[q] = previous[q]
    BY PreviousFixed
  <1>2. PICK p \in Release : p = previous[q]
    BY Tables DEF Ready, Id
  <1>3. ~InHand(p)
    BY <1>2 DEF StackInv, Ready
  <1>4. op[c] = Idle \/ op[c].release # p
    BY <1>3 DEF InHand
  <1>5. job'[p] = "ready"
    BY <1>2, <1>4 DEF JobMove, Ready
  <1>6. QED BY <1>1, <1>2, <1>5 DEF Ready

\* A release stays sure as long as its job does not fail and its promotion neither.
LEMMA SureStays ==
  ASSUME TypeOK, TypeOK', OpInv, StackInv, [Next]_vars, ~overrun, ~stacked, Exported',
         NEW c \in Coordinator, JobMove(c),
         NEW r \in Release, Sure(r),
         ~(job[r] = "ready" /\ job'[r] # "ready"),
         ~(promotion'[r] = "failed" /\ promotion[r] # "failed")
  PROVE  Sure(r)'
  <1>1. CASE Ready(r)
    BY <1>1 DEF Ready, Sure
  <1>2. CASE Bad(r) /\ Ready(previous[r])
    <2>1. promotion[r] \in {"preparing", "unknown"} /\ job[r] # "absent"
      BY <1>2 DEF Bad, Unresolved
    <2>2. promotion'[r] # "none" /\ job'[r] # "absent"
      BY <2>1, RecordsStay
    <2>3. previous'[r] = previous[r] /\ \A x : x = previous[r] => Ready(x)'
      BY <1>2, <2>1, GoodStays
    <2>4. Ready(previous[r])'
      BY <2>3 DEF Ready
    <2>5. CASE promotion'[r] = "ready"
      BY <2>5, ReleaseAssumption DEF Exported, Sure, Ready
    <2>6. CASE promotion'[r] # "ready"
      <3>1. r \in Unresolved'
        BY <2>1, <2>2, <2>6, Tables DEF Unresolved
      <3>2. job'[r] \in {"building", "ready", "failed"}
        BY <2>2, Tables
      <3>3. QED BY <2>4, <3>1, <3>2, ReleaseAssumption DEF Sure, Ready, Bad
    <2>7. QED BY <2>5, <2>6
  <1>3. QED BY <1>1, <1>2 DEF Sure

\* A promotion that fails does not serve.
LEMMA NewlyFailed ==
  ASSUME TypeOK, PrevInv, FailedInv, StackInv, ~overrun, ~torn, ~stacked,
         NEW c \in Coordinator, FailMove(c), OpOK(c), ServeOK(c),
         NEW r \in Release, promotion'[r] = "failed", promotion[r] # "failed"
  PROVE  /\ serving # r /\ serving' = serving /\ r = op[c].release
         /\ op[c].kind = "rollback" => ~Excused(r)
  <1>1. op[c] # Idle /\ r = op[c].release /\ serving' = serving
    BY DEF FailMove
  <1>2. ~Followed(r)
    BY <1>1, NotFollowed DEF InHand
  <1>3. op[c].kind = "rollback" => ~Excused(r)
    BY <1>1, <1>2 DEF OpOK, ServeOK, Raiser, Excused
  <1>4. FailedOK(c)
    BY DEF FailedInv
  <1>5. serving # r
    BY <1>1, <1>3, <1>4 DEF FailMove, FailedOK, ServeOK, Gone
  <1>6. QED BY <1>1, <1>3, <1>5

\* and neither does one whose job fails after it.
LEMMA JobFailed ==
  ASSUME TypeOK, PrevInv, FailedInv, StackInv, ~overrun, ~torn, ~stacked,
         NEW c \in Coordinator, RecOK(c), ServeOK(c), op[c].kind \in Raiser, op[c].pc = "job",
         job[op[c].release] # "absent"
  PROVE  promotion[op[c].release] = "failed" /\ ~Excused(op[c].release) /\ serving # op[c].release
  <1>1. PICK r \in Release : r = op[c].release /\ InHand(r)
    BY Kinds DEF Raiser, Freezer, Idle, InHand
  <1>2. ~Followed(r)
    BY <1>1, NotFollowed
  <1>3. promotion[r] = "failed" /\ r \notin stray
    BY <1>1 DEF RecOK, ServeOK
  <1>4. QED BY <1>1, <1>2, <1>3 DEF FailedInv, Gone, Excused

\* Nothing that is in hand drifts while what an operation puts back can serve.
LEMMA StrayStays ==
  ASSUME TypeOK, NEW c \in Coordinator, OpOK(c), ServeOK(c), ServingMove(c), ~borrowed'
  PROVE  /\ ~borrowed
         /\ \A r \in Release : InHand(r) /\ r \notin stray => r \notin stray'
  <1>1. CASE Falls
    BY <1>1 DEF ServingMove, Falls
  <1>2. CASE /\ Unread(op[c].old)
             /\ \/ op[c].kind \in Raiser /\ op[c].pc = "undo studio"
                \/ op[c].kind = "reconcile" /\ op[c].pc = "studio"
    <2>1. op[c].kind \in Raiser => job[op[c].release] # "absent"
      BY <1>2 DEF OpOK, Raiser, Frozen, Promoting
    <2>2. QED BY <1>2, <2>1 DEF Unread, ServeOK, Ready
  <1>3. CASE UNCHANGED stray
    BY <1>3 DEF ServingMove
  <1>4. QED BY <1>1, <1>2, <1>3 DEF ServingMove

\* A step that belongs to no operation.
LEMMA ServeAside ==
  ASSUME TypeOK, FreshInv, ForeignInv, OpInv, ServeInv, Aside
  PROVE  ServeInv'
  <1> SUFFICES ASSUME served', ~overrun', ~torn', ~stacked', ~borrowed'
               PROVE  Sure(serving)' /\ \A d \in Coordinator : ServeOK(d)'
    BY DEF ServeInv
  <1>1. op' = op /\ previous' = previous /\ ~overrun /\ ~torn /\ ~stacked
    BY Asides
  <1>2. /\ ~borrowed
        /\ \/ /\ serving' \in Release /\ job[serving'] = "ready" /\ serving' \notin foreign
              /\ ~InHand(serving') /\ stray' = stray \cup {serving'}
           \/ serving' = serving /\ stray' = stray
    <2>1. CASE Falls
      BY <2>1, Zenon DEF Falls
    <2>2. CASE UNCHANGED <<serving, stray, borrowed>>
      BY <2>2
    <2>3. QED BY <2>1, <2>2, AsideServes DEF Opens
  <1>3. \A r \in Release :
          /\ r \notin foreign /\ job[r] = "ready" => job'[r] = "ready"
          /\ r \notin foreign /\ job[r] \in {"building", "failed"} => job'[r] \in {"building", "failed"}
          /\ promotion[r] # "none" => r \notin foreign
          /\ promotion[r] # "none" /\ job'[r] # "absent" => job[r] # "absent"
          /\ r \in Unresolved => r \in Unresolved'
    BY AsideRecords DEF Unresolved, ForeignInv
  <1>4. \A x \in Known : Ready(x) => Ready(x)'
    BY <1>2, <1>3 DEF Ready, Known
  <1>5. \A r \in Release : r \in Known /\ Sure(r) => Sure(r)'
    <2> SUFFICES ASSUME NEW r \in Release, r \in Known, Sure(r)
                 PROVE  Sure(r)'
      OBVIOUS
    <2>1. CASE Ready(r)
      BY <1>4, <2>1 DEF Sure
    <2>2. CASE Bad(r) /\ Ready(previous[r])
      <3>1. promotion[r] # "none" /\ r \in Unresolved
        BY <2>2 DEF Bad, Unresolved
      <3>2. Bad(r)'
        BY <1>3, <2>2, <3>1 DEF Bad
      <3>3. PICK p \in Known : p = previous[r]
        BY DEF FreshInv
      <3>4. Ready(previous[r])'
        BY <1>1, <1>4, <2>2, <3>3 DEF Ready
      <3>5. QED BY <3>2, <3>4 DEF Sure
    <2>3. QED BY <2>1, <2>2 DEF Sure
  <1>6. \A x : Sure(x) /\ x \in Id => x \in Release
    BY DEF Sure, Ready, Bad, Unresolved, Id
  <1>7. CASE served
    <2>1. Sure(serving) /\ \A d \in Coordinator : ServeOK(d)
      BY <1>1, <1>2, <1>7 DEF ServeInv
    <2>2. Sure(serving)'
      <3>1. CASE serving' = serving
        <4>1. PICK s \in Release : s = serving /\ s \in Known
          BY <1>6, <2>1, Tables DEF FreshInv
        <4>2. QED BY <1>5, <2>1, <3>1, <4>1 DEF Sure, Ready, Bad
      <3>2. CASE serving' \in Release /\ job[serving'] = "ready" /\ serving' \notin foreign
        <4>1. PICK s \in Release : s = serving' /\ job[s] = "ready" /\ s \notin foreign
          BY <3>2
        <4>2. job'[s] = "ready" /\ s # "none"
          BY <1>3, <4>1, ReleaseAssumption
        <4>3. QED BY <4>1, <4>2 DEF Sure, Ready
      <3>3. QED BY <1>2, <3>1, <3>2
    <2>3. ASSUME NEW d \in Coordinator
          PROVE  ServeOK(d)'
      <3>1. CASE op[d].kind = "generate"
        <4>1. PICK x \in Release : x = op[d].old /\ x \in Known
          BY <1>6, <2>1, <3>1, Kinds DEF ServeOK, FreshInv, Idle
        <4>2. Sure(x)'
          BY <1>5, <2>1, <3>1, <4>1 DEF ServeOK
        <4>3. QED BY <1>1, <3>1, <4>1, <4>2 DEF ServeOK, Sure, Ready, Bad, Raiser
      <3>2. CASE op[d].kind \in Freezer
        <4>1. PICK r \in Release, x \in Known : r = op[d].release /\ x = op[d].old
          BY <3>2, Kinds DEF FreshInv, Idle, Freezer
        <4>2. InHand(r)
          BY <3>2, <4>1 DEF InHand, Idle, Freezer
        <4>3. r \notin stray => r \notin stray'
          BY <1>2, <4>2
        <4>4. serving # r => serving' # r
          BY <1>2, <4>2
        <4>5. op[d].kind \in Raiser /\ job'[r] # "absent" => Ready(x)' /\ r \notin stray'
          <5>1. SUFFICES ASSUME op[d].kind \in Raiser, job'[r] # "absent"
                         PROVE  Ready(x)' /\ r \notin stray'
            OBVIOUS
          <5>2. job[r] # "absent"
            BY <1>3, <3>2, <4>1, <5>1 DEF OpInv, OpOK
          <5>3. QED BY <1>4, <2>1, <4>1, <4>3, <5>1, <5>2 DEF ServeOK
        <4>6. op[d].kind = "reconcile" /\ op[d].pc = "studio" => Ready(x)'
          BY <1>4, <2>1, <4>1 DEF ServeOK
        <4>7. op[d].kind = "reconcile" /\ op[d].pc = "record" /\ x # r => serving' # r
          BY <2>1, <4>1, <4>4 DEF ServeOK
        <4>8. QED BY <1>1, <3>2, <4>1, <4>5, <4>6, <4>7 DEF ServeOK, Ready, Freezer, Raiser
      <3>3. CASE op[d].kind = "none"
        BY <1>1, <3>3 DEF ServeOK, Raiser
      <3>4. QED BY <3>1, <3>2, <3>3, Kinds
    <2>4. QED BY <2>2, <2>3
  <1>8. CASE ~served
    <2>1. Open
      BY <1>8 DEF Aside, Expire, RecoverJob, RecoverPromotion, vars, history, drift, Elsewhere,
         ElsewhereStart, ElsewhereExport, ElsewhereReleases, ElsewhereEnds, ElsewhereFails
    <2>2. Calm /\ serving' # "none" /\ job[serving'] = "ready" /\ job' = job
      BY <1>8, <2>1 DEF Open, exports
    <2>3. Sure(serving)'
      BY <2>2 DEF Sure, Ready
    <2>4. \A d \in Coordinator : op'[d] = Idle
      BY <1>1, <2>2 DEF Calm
    <2>5. \A d \in Coordinator : ServeOK(d)'
      BY <2>4 DEF ServeOK, Idle, Raiser
    <2>6. QED BY <2>3, <2>5
  <1>9. QED BY <1>7, <1>8

\* An operation begins.
LEMMA ServeStart ==
  ASSUME TypeOK, OpInv, ServeInv, NEW c \in Coordinator, NEW r \in Release, Starts(c, r)
  PROVE  ServeInv'
  <1> SUFFICES ASSUME served', ~overrun', ~torn', ~stacked', ~borrowed'
               PROVE  Sure(serving)' /\ \A d \in Coordinator : ServeOK(d)'
    BY DEF ServeInv
  <1>1. /\ served /\ ~overrun /\ ~torn /\ ~stacked /\ ~borrowed
        /\ UNCHANGED <<serving, stray>>
        /\ \A d \in Coordinator \ {c} : op'[d] = op[d]
        /\ op'[c].release = r
    BY StartRecords, StartMoves, Flags DEF Others
  <1>2. Sure(serving) /\ \A d \in Coordinator : ServeOK(d)
    BY <1>1 DEF ServeInv
  <1>3. \A q \in Release : job[q] # "absent" =>
          /\ job'[q] = job[q]
          /\ promotion[q] # "none" => promotion'[q] = promotion[q] /\ previous'[q] = previous[q]
    BY StartRecords
  <1>4. \A x \in Id : Ready(x) => Ready(x)'
    BY <1>3 DEF Ready, Id
  <1>5. \A q \in Release : Sure(q) => Sure(q)'
    <2> SUFFICES ASSUME NEW q \in Release, Sure(q)
                 PROVE  Sure(q)'
      OBVIOUS
    <2>1. CASE Ready(q)
      BY <1>4, <2>1 DEF Sure, Id
    <2>2. CASE Bad(q) /\ Ready(previous[q])
      <3>1. job[q] # "absent" /\ promotion[q] # "none"
        BY <2>2 DEF Bad, Unresolved
      <3>2. Bad(q)' /\ previous'[q] = previous[q]
        BY <1>3, <2>2, <3>1 DEF Bad, Unresolved
      <3>3. PICK p \in Id : p = previous[q]
        BY Tables
      <3>4. Ready(previous[q])'
        BY <1>4, <2>2, <3>2, <3>3 DEF Ready
      <3>5. QED BY <3>2, <3>4 DEF Sure
    <2>3. QED BY <2>1, <2>2 DEF Sure
  <1>6. \A x : Sure(x) /\ x \in Id => x \in Release
    BY DEF Sure, Ready, Bad, Unresolved, Id
  <1>7. PICK s \in Release : s = serving
    BY <1>2, <1>6, Tables
  <1>8. Sure(s)' /\ Sure(serving)'
    BY <1>1, <1>2, <1>5, <1>7 DEF Sure, Ready, Bad
  <1>9. ServeOK(c)'
    <2>1. CASE op'[c].kind = "generate"
      <3>1. op'[c].old = s
        BY <1>7, <2>1, StartRecords
      <3>2. QED BY <1>8, <2>1, <3>1 DEF ServeOK, Sure, Ready, Bad, Raiser
    <2>2. CASE op'[c].kind = "promote"
      <3>1. job'[r] = "absent"
        BY <2>2, StartRecords
      <3>2. QED BY <1>1, <2>2, <3>1 DEF ServeOK
    <2>3. CASE op'[c].kind = "reconcile"
      <3>1. op'[c].pc = "freeze"
        BY <2>3, StartRecords
      <3>2. QED BY <2>3, <3>1 DEF ServeOK, Raiser
    <2>4. QED BY <2>1, <2>2, <2>3, StartRecords
  <1>10. ASSUME NEW d \in Coordinator, d # c
         PROVE  ServeOK(d)'
    <2>1. op'[d] = op[d] /\ ServeOK(d) /\ OpOK(d)
      BY <1>1, <1>2, <1>10 DEF OpInv
    <2>2. CASE op[d].kind = "generate"
      <3>1. PICK x \in Release : x = op[d].old
        BY <1>6, <2>1, <2>2, Kinds DEF ServeOK
      <3>2. Sure(x)'
        BY <1>5, <2>1, <2>2, <3>1 DEF ServeOK
      <3>3. QED BY <2>1, <2>2, <3>1, <3>2 DEF ServeOK, Sure, Ready, Bad, Raiser
    <2>3. CASE op[d].kind \in Freezer
      <3>1. PICK q \in Release, x \in Id : q = op[d].release /\ x = op[d].old
        BY <2>3, Kinds
      <3>2. promotion[q] # "none"
        BY <2>1, <2>3, <3>1 DEF OpOK
      <3>3. job'[q] = "absent" <=> job[q] = "absent"
        BY <3>2, StartRecords, ZenonT(40)
      <3>4. op[d].kind \in Raiser /\ job'[q] # "absent" => Ready(x)'
        BY <1>4, <2>1, <3>1, <3>3 DEF ServeOK
      <3>5. op[d].kind = "reconcile" /\ op[d].pc = "studio" => Ready(x)'
        BY <1>4, <2>1, <3>1 DEF ServeOK
      <3>6. /\ op[d].kind \in Raiser /\ job'[q] # "absent" => q \notin stray'
            /\ op[d].kind = "reconcile" /\ op[d].pc = "record" /\ x # q => serving' # q
        BY <1>1, <2>1, <3>1, <3>3 DEF ServeOK
      <3>7. QED BY <2>1, <2>3, <3>1, <3>4, <3>5, <3>6 DEF ServeOK, Ready, Freezer, Raiser
    <2>4. CASE op[d].kind = "none"
      BY <2>1, <2>4 DEF ServeOK, Raiser
    <2>5. QED BY <2>2, <2>3, <2>4, Kinds
  <1>11. QED BY <1>8, <1>9, <1>10

\* An operation goes on: what it makes serve.
LEMMA ServingStays ==
  ASSUME TypeOK, TypeOK', OpInv, PrevInv, RecInv, FailedInv, StackInv, Exported',
         ~overrun, ~torn, ~stacked, ~borrowed', [Next]_vars,
         NEW c \in Coordinator, RecordMove(c), JobMove(c), FailMove(c), ServingMove(c),
         Sure(serving), ServeOK(c)
  PROVE  Sure(serving)'
  <1>1. OpOK(c) /\ RecOK(c)
    BY DEF OpInv, RecInv
  <1>2. PICK s \in Release : s = serving'
    <2>1. serving \in Release
      BY Tables DEF Sure, Ready, Bad, Unresolved, Id
    <2>2. CASE serving' = serving
      BY <2>1, <2>2
    <2>5. CASE Falls
      BY <2>5 DEF Falls
    <2>3. CASE serving' # serving /\ ~Falls
      <3>1. serving' \in {op[c].release, op[c].old} /\ op[c].kind \in {"generate"} \cup Freezer
        BY <2>3 DEF ServingMove, Unread, Raiser, Freezer
      <3>2. op[c].release \in Release /\ op[c].old \in Id
        BY <3>1, Kinds
      <3>3. op[c].old = serving' => op[c].old # "none"
        <4>1. CASE op[c].kind = "generate"
          BY <2>3, <4>1, <3>2, ReleaseAssumption DEF ServingMove, Unread, Raiser
        <4>2. CASE op[c].kind \in Raiser /\ op[c].pc = "undo studio"
          <5>1. job[op[c].release] # "absent"
            BY <1>1, <4>2 DEF OpOK, Raiser, Frozen, Promoting
          <5>2. QED BY <4>2, <5>1 DEF ServeOK, Ready
        <4>3. CASE op[c].kind = "reconcile" /\ op[c].pc = "studio"
          BY <4>3 DEF ServeOK, Ready
        <4>4. CASE op[c].kind = "promote" /\ serving' = op[c].release
          BY <3>2, <4>4, ReleaseAssumption
        <4>5. QED BY <2>3, <4>1, <4>2, <4>3, <4>4 DEF ServingMove, Unread
      <3>4. QED BY <3>1, <3>2, <3>3 DEF Id
    <2>4. QED BY <2>2, <2>3, <2>5
  <1>3. CASE serving' = serving
    <2>1. ~(promotion'[s] = "failed" /\ promotion[s] # "failed")
      BY <1>1, <1>2, <1>3, NewlyFailed
    <2>2. ~(job[s] = "ready" /\ job'[s] # "ready")
      <3> SUFFICES ASSUME job[s] = "ready", job'[s] # "ready"
                   PROVE  FALSE
        OBVIOUS
      <3>1. op[c] # Idle /\ s = op[c].release
        BY DEF JobMove
      <3>2. CASE op[c].kind \in Raiser /\ op[c].pc = "job"
        BY <1>1, <1>2, <1>3, <3>1, <3>2, JobFailed
      <3>3. CASE /\ op[c].kind = "generate" /\ op[c].pc \in {"restoring", "ending"}
                 /\ op[c].pc = "restoring" /\ op[c].old # "none" => serving' = op[c].old
        <4>1. op[c].pc = "restoring"
          BY <1>1, <3>3 DEF RecOK
        <4>2. op[c].old # "none"
          BY <3>3, ReleaseAssumption DEF ServeOK, Sure, Ready, Bad, Unresolved
        <4>3. op[c].old # op[c].release
          BY <1>1, <3>3 DEF OpOK, Owner
        <4>4. QED BY <1>2, <3>1, <3>3, <4>1, <4>2, <4>3
      <3>4. QED BY <3>2, <3>3 DEF JobMove
    <2>3. Sure(s)'
      BY <1>2, <1>3, <2>1, <2>2, SureStays
    <2>4. QED BY <1>2, <2>3 DEF Sure, Ready, Bad
  <1>6. CASE Falls /\ job' = job
    <2>1. s # "none" /\ job[s] = "ready"
      BY <1>2, <1>6, ReleaseAssumption DEF Falls
    <2>2. job'[s] = "ready"
      BY <1>6, <2>1
    <2>3. QED BY <1>2, <2>1, <2>2 DEF Sure, Ready
  <1>4. CASE serving' # serving /\ ~(Falls /\ job' = job)
    <2>1. \A r \in Release : ~(promotion'[r] = "failed" /\ promotion[r] # "failed")
      BY <1>4 DEF FailMove
    <2>2. CASE op[c].kind = "generate" /\ op[c].pc = "finished" /\ serving' = op[c].release
      <3>1. job[s] = "ready"
        BY <1>1, <1>2, <2>2 DEF OpOK
      <3>2. job'[s] = "ready"
        BY <2>2, <3>1 DEF JobMove, Raiser
      <3>3. QED BY <1>2, <3>2, ReleaseAssumption DEF Sure, Ready
    <2>3. CASE op[c].kind = "generate" /\ serving' = op[c].old
      <3>1. Sure(s) /\ s # op[c].release
        BY <1>1, <1>2, <2>3 DEF ServeOK, OpOK, Owner
      <3>2. job'[s] = job[s]
        BY <3>1 DEF RecordMove
      <3>3. Sure(s)'
        BY <2>1, <3>1, <3>2, SureStays
      <3>4. QED BY <1>2, <3>3 DEF Sure, Ready, Bad
    <2>4. CASE op[c].kind = "promote" /\ op[c].pc = "studio" /\ serving' = op[c].release
      <3>1. s \in Unresolved /\ job[s] # "absent"
        BY <1>1, <1>2, <2>4 DEF RecOK, OpOK, Promoting, Frozen, Freezing
      <3>2. Ready(previous[s])
        BY <1>1, <1>2, <2>4, <3>1 DEF OpOK, ServeOK, Raiser
      <3>3. Sure(s)
        BY <3>1, <3>2, Tables, ReleaseAssumption DEF Sure, Ready, Bad
      <3>4. ~(job[s] = "ready" /\ job'[s] # "ready")
        BY <2>4 DEF JobMove
      <3>5. Sure(s)'
        BY <2>1, <3>3, <3>4, SureStays
      <3>6. QED BY <1>2, <3>5 DEF Sure, Ready, Bad
    <2>5. CASE op[c].kind \in Raiser /\ op[c].pc = "undo studio" /\ serving' = op[c].old
      <3>1. job[op[c].release] # "absent"
        BY <1>1, <2>5 DEF OpOK, Raiser, Frozen, Promoting
      <3>2. job[s] = "ready" /\ s # op[c].release
        BY <1>1, <1>2, <2>5, <3>1 DEF ServeOK, Ready, OpOK, Owner, Raiser
      <3>3. job'[s] = "ready"
        BY <3>2 DEF RecordMove
      <3>4. QED BY <1>2, <3>3, ReleaseAssumption DEF Sure, Ready
    <2>6. CASE op[c].kind = "reconcile" /\ op[c].pc = "studio" /\ serving' = op[c].old
      <3>1. job' = job
        BY <2>6 DEF RecordMove, Owner
      <3>2. QED BY <2>6, <3>1 DEF ServeOK, Sure, Ready
    <2>7. QED BY <1>4, <2>2, <2>3, <2>4, <2>5, <2>6 DEF ServingMove, Unread
  <1>5. QED BY <1>3, <1>4, <1>6

\* What the operation that goes on may put back.
LEMMA ServeOwn ==
  ASSUME TypeOK, TypeOK', FreshInv, OpInv, PrevInv, RecInv, FailedInv, StackInv, HealInv,
         Exported', ~overrun, ~torn, ~torn', ~stacked, ~stacked', ~borrowed', [Next]_vars,
         NEW c \in Coordinator, Proceeds(c), RecordMove(c), JobMove(c), FailMove(c), ServeMove(c),
         ServingMove(c), FailedMove(c),
         Sure(serving), ServeOK(c)
  PROVE  ServeOK(c)'
  <1>1. OpOK(c) /\ RecOK(c)
    BY DEF OpInv, RecInv
  <1>2. ASSUME op'[c].kind = "generate"
        PROVE  Sure(op[c].old)'
    <2>1. op[c].kind = "generate" /\ op'[c].old = op[c].old
      BY <1>2 DEF ServeMove
    <2>2. PICK x \in Release : x = op[c].old
      BY <2>1, Kinds DEF ServeOK, Sure, Ready, Bad, Unresolved, Id
    <2>3. Sure(x) /\ x # op[c].release
      BY <1>1, <2>1, <2>2 DEF ServeOK, OpOK, Owner
    <2>4. Sure(x)'
      BY <2>3, SureStays DEF RecordMove
    <2>5. QED BY <2>1, <2>2, <2>4 DEF Sure, Ready, Bad
  <1>3. ASSUME op'[c].kind \in Raiser, job'[op'[c].release] # "absent"
        PROVE  /\ op'[c].old # "none" /\ job'[op'[c].old] = "ready"
               /\ op'[c].release \notin stray'
    <2>1. op[c].kind \in Raiser /\ (PromotePrepare(c) \/ op'[c].old = op[c].old)
      BY <1>3 DEF ServeMove
    <2>2. op[c] # Idle /\ op[c].release \in Release /\ op'[c].release = op[c].release
      <3>1. op'[c] # Idle
        BY <1>3 DEF Idle, Raiser
      <3>2. QED BY <2>1, <3>1, Kinds DEF RecordMove, Raiser, Freezer, Idle
    <2>3. CASE ~PromotePrepare(c)
      <3>1. job[op[c].release] # "absent"
        BY <1>3, <2>2, <2>3 DEF JobMove
      <3>2. PICK x \in Release : x = op[c].old
        BY <2>1, <3>1, Kinds DEF ServeOK, Ready, Raiser, Freezer, Id
      <3>3. job[x] = "ready" /\ x # op[c].release
        BY <1>1, <2>1, <3>1, <3>2 DEF ServeOK, Ready, OpOK, Owner, Raiser
      <3>4. job'[x] = "ready"
        BY <3>3 DEF RecordMove
      <3>5. op[c].release \notin stray'
        BY <1>1, <2>1, <2>2, <3>1, StrayStays DEF ServeOK, InHand
      <3>6. QED BY <2>1, <2>2, <2>3, <3>2, <3>4, <3>5, ReleaseAssumption
    <2>4. CASE PromotePrepare(c)
      <3>1. At(c, "promote", "work") /\ op'[c].old = IF active # "none" THEN active ELSE serving
        BY <2>4, PromotePrepareStep DEF PromotePrepare, Has
      <3>2. \A q \in Unresolved : job[q] = "absent"
        BY <2>4 DEF PromotePrepare, Stacks
      <3>3. Ready(serving)
        BY <3>2 DEF Sure, Bad
      <3>4. active = serving
        BY <3>1, <3>3 DEF HealInv, Freezes, At
      <3>5. PICK s \in Release : s = serving
        BY <3>3, Tables DEF Ready, Id
      <3>6. s # op[c].release
        BY <1>1, <3>1, <3>3, <3>5 DEF OpOK, At, Ready
      <3>7. job'[s] = "ready"
        BY <3>3, <3>5, <3>6 DEF RecordMove, Ready
      <3>8. stray' = stray /\ job[op[c].release] = "absent"
        BY <1>1, <2>4, <3>1 DEF PromotePrepare, drift, OpOK, At
      <3>9. op'[c].release \notin stray'
        BY <2>2, <3>8 DEF FreshInv
      <3>10. QED BY <3>1, <3>4, <3>5, <3>7, <3>9, ReleaseAssumption
    <2>5. QED BY <2>3, <2>4
  <1>4. ASSUME op'[c].kind = "reconcile", op'[c].pc = "studio"
        PROVE  op'[c].old # "none" /\ job'[op'[c].old] = "ready"
    <2>1. op'[c] = op[c] \/ ReconcileSite(c)
      BY <1>4 DEF ServeMove
    <2>2. op[c].kind = "reconcile" /\ job' = job
      <3>1. op[c].kind = "reconcile"
        BY <1>4, <2>1 DEF ReconcileSite, At
      <3>2. QED BY <3>1 DEF RecordMove, Owner
    <2>3. CASE op'[c] = op[c]
      BY <1>4, <2>2, <2>3 DEF ServeOK, Ready
    <2>4. CASE ReconcileSite(c)
      <3> DEFINE r == op[c].release
      <3>1. r \in Release /\ At(c, "reconcile", "work")
        BY <2>2, <2>4, Kinds DEF ReconcileSite, Freezer
      <3>2. /\ active = r
            /\ op'[c].old = active'
            /\ active' = IF job[r] = "ready" THEN r
                         ELSE IF previous[r] # "none" /\ job[previous[r]] = "ready"
                              THEN previous[r] ELSE "none"
        BY <1>4, <2>4, <3>1, ReconcileSiteStep DEF ReconcileSite, Has
      <3>3. r # "none"
        BY <3>1, ReleaseAssumption
      <3>4. CASE job[r] = "ready"
        BY <2>2, <3>2, <3>3, <3>4
      <3>5. CASE job[r] # "ready"
        <4>1. promotion[r] = "unknown"
          BY <1>1, <3>1 DEF RecOK, At
        <4>2. job[r] # "absent"
          BY <3>2, <3>3 DEF FreshInv, Known
        <4>3. Bad(r)
          BY <3>1, <3>5, <4>1, <4>2, Tables DEF Bad, Unresolved
        <4>4. ~Ready(serving)
          BY <3>1, <3>2, <3>5 DEF HealInv, Freezes, At, Ready
        <4>5. Bad(serving) /\ Ready(previous[serving])
          BY <4>4 DEF Sure
        <4>6. serving = r
          <5>1. serving \in Release
            BY <4>5 DEF Bad, Unresolved
          <5>2. QED BY <3>1, <4>3, <4>5, <5>1 DEF StackInv
        <4>7. QED BY <2>2, <3>2, <3>5, <4>5, <4>6 DEF Ready
      <3>6. QED BY <3>4, <3>5
    <2>5. QED BY <2>1, <2>3, <2>4
  <1>5. ASSUME op'[c].kind = "reconcile", op'[c].pc = "record", op'[c].old # op'[c].release
        PROVE  serving' # op'[c].release
    <2>1. op'[c] # Idle /\ op[c] # Idle => op'[c].release = op[c].release
      BY DEF RecordMove
    <2>2. CASE /\ op[c].kind = "reconcile" /\ op[c].pc = "studio" /\ Unread(op[c].old)
      BY <2>2 DEF ServeOK, Ready, Unread
    <2>3. CASE op'[c] = op[c] /\ serving' = serving
      BY <1>5, <2>3 DEF ServeOK
    <2>4. CASE serving' # op[c].release
      <3>1. op'[c] # Idle
        BY <1>5 DEF Idle
      <3>2. QED BY <2>1, <2>4, <3>1 DEF RecordMove
    <2>5. QED BY <1>5, <2>2, <2>3, <2>4 DEF FailedMove
  <1>6. QED BY <1>2, <1>3, <1>4, <1>5 DEF ServeOK, Ready

\* What the other operations may put back.
LEMMA ServeOthers ==
  ASSUME TypeOK, TypeOK', LeaseInv, OpInv, PrevInv, UniqueInv, RecInv, FailedInv, StackInv,
         Exported', ~overrun, ~overrun', ~torn, ~stacked, ~borrowed', [Next]_vars,
         NEW c \in Coordinator, LeaseMove(c), RecordMove(c), JobMove(c), FailMove(c),
         ServingMove(c), ServeOK(c),
         NEW d \in Coordinator, d # c, ServeOK(d)
  PROVE  ServeOK(d)'
  <1>1. /\ op'[d] = op[d] /\ OpOK(d) /\ RecOK(d) /\ OpOK(c) /\ RecOK(c) /\ FailedOK(c)
        /\ FailedOK(d)
        /\ \A e \in Coordinator : Held(e) => generation = e
    BY DEF LeaseMove, Others, OpInv, RecInv, FailedInv, LeaseInv
  <1>2. CASE op[d].kind = "generate"
    <2>1. PICK x \in Release : x = op[d].old
      BY <1>2, Kinds DEF ServeOK, Sure, Ready, Bad, Unresolved, Id
    <2>2. Sure(x) /\ generation = d /\ ~Held(c) /\ x # "none"
      BY <1>1, <1>2, <2>1, ReleaseAssumption DEF ServeOK, Held
    <2>3. ~(promotion'[x] = "failed" /\ promotion[x] # "failed")
      <3> SUFFICES ASSUME promotion'[x] = "failed", promotion[x] # "failed"
                   PROVE  FALSE
        OBVIOUS
      <3>1. x = op[c].release /\ (op[c].kind = "rollback" => ~Excused(x))
        BY <1>1, NewlyFailed
      <3>2. op[c].kind # "reconcile" \/ op[c].pc # "record"
        BY <2>2 DEF Held, Freezer, Frozen, Promoting
      <3>3. op[c].kind = "rollback" /\ op[c].pc = "after" /\ op[c].ok
        BY <2>2, <3>2 DEF FailMove
      <3>4. QED BY <1>1, <1>2, <2>1, <3>1, <3>3 DEF FailedOK
    <2>4. ~(job[x] = "ready" /\ job'[x] # "ready")
      <3> SUFFICES ASSUME job[x] = "ready", job'[x] # "ready"
                   PROVE  FALSE
        OBVIOUS
      <3>1. x = op[c].release /\ op[c].kind \in Raiser /\ op[c].pc = "job"
        BY <2>2 DEF JobMove, Held
      <3>2. promotion[x] = "failed" /\ ~Excused(x)
        BY <1>1, <3>1, JobFailed
      <3>3. QED BY <1>1, <1>2, <2>1, <2>2, <3>2 DEF FailedOK
    <2>5. Sure(x)'
      BY <2>2, <2>3, <2>4, SureStays
    <2>6. QED BY <1>1, <1>2, <2>1, <2>5 DEF ServeOK, Sure, Ready, Bad, Raiser
  <1>3. CASE op[d].kind \in Freezer
    <2>1. PICK r \in Release, x \in Id : r = op[d].release /\ x = op[d].old
      BY <1>3, Kinds
    <2>2. job'[r] = job[r]
      BY <1>3, <2>1, Untouched DEF Idle, Freezer
    <2>3. promotion[r] # "none"
      BY <1>1, <1>3, <2>1 DEF OpOK
    <2>4. op[d].kind \in Raiser /\ job'[r] # "absent" => Ready(x)'
      <3> SUFFICES ASSUME op[d].kind \in Raiser, job'[r] # "absent"
                   PROVE  Ready(x)'
        OBVIOUS
      <3>1. Ready(x) /\ x = previous[r]
        BY <1>1, <2>1, <2>2 DEF ServeOK, OpOK
      <3>2. QED BY <2>2, <2>3, <3>1, GoodStays
    <2>5. op[d].kind = "reconcile" /\ op[d].pc = "studio" => Ready(x)'
      <3> SUFFICES ASSUME op[d].kind = "reconcile", op[d].pc = "studio"
                   PROVE  Ready(x)'
        OBVIOUS
      <3>1. Ready(x) /\ x \in {"none", r, previous[r]} /\ job[r] # "absent"
        BY <1>1, <2>1 DEF ServeOK, RecOK, OpOK
      <3>2. CASE x = r
        BY <2>2, <3>1, <3>2 DEF Ready
      <3>3. CASE x = previous[r]
        BY <2>3, <3>1, <3>3, GoodStays
      <3>4. QED BY <3>1, <3>2, <3>3 DEF Ready
    <2>6. InHand(r)
      BY <1>3, <2>1 DEF InHand, Idle, Freezer
    <2>7. op[d].kind \in Raiser /\ job'[r] # "absent" => r \notin stray'
      BY <1>1, <2>1, <2>2, <2>6, StrayStays DEF ServeOK
    <2>8. op[d].kind = "reconcile" /\ op[d].pc = "record" /\ x # r => serving' # r
      <3> SUFFICES ASSUME op[d].kind = "reconcile", op[d].pc = "record", x # r
                   PROVE  serving' # r
        OBVIOUS
      <3>1. serving # r
        BY <2>1 DEF ServeOK
      <3>2. ~Held(c)
        BY <1>1 DEF Held, Freezer, Frozen, Promoting
      <3>3. CASE Falls
        BY <2>6, <3>3, Zenon DEF Falls
      <3>4. QED BY <3>1, <3>2, <3>3 DEF ServingMove
    <2>9. QED BY <1>1, <1>3, <2>1, <2>4, <2>5, <2>7, <2>8 DEF ServeOK, Ready, Freezer, Raiser
  <1>4. CASE op[d].kind = "none"
    BY <1>1, <1>4 DEF ServeOK, Raiser
  <1>5. QED BY <1>2, <1>3, <1>4, Kinds

\* Whatever is made to serve can serve.
LEMMA ServeKept ==
  ASSUME TypeOK, LeaseInv, FreshInv, ForeignInv, OpInv, OwnInv, PrevInv, UniqueInv, RecInv,
         FailedInv,
         StackInv, HealInv, ServeInv, [Next]_vars
  PROVE  ServeInv'
  <1>1. CASE Aside
    BY <1>1, ServeAside
  <1>2. ASSUME NEW c \in Coordinator, Proceeds(c)
        PROVE  ServeInv'
    <2> SUFFICES ASSUME served', ~overrun', ~torn', ~stacked', ~borrowed'
                 PROVE  Sure(serving)' /\ \A d \in Coordinator : ServeOK(d)'
      BY DEF ServeInv
    <2>1. /\ LeaseMove(c) /\ RecordMove(c) /\ JobMove(c) /\ FailMove(c) /\ ServingMove(c)
          /\ ServeMove(c)
      BY <1>2, LeaseMoves, RecordMoves, JobMoves, FailMoves, ServingMoves, ServeMoves DEF OpInv
    <2>2. served /\ ~overrun /\ ~stacked /\ ~borrowed
      BY <2>1 DEF LeaseMove, ServeMove, ServingMove
    <2>3. ~torn /\ FailedMove(c)
      BY <1>2, FailedMoves DEF OpInv
    <2>4. Sure(serving) /\ \A d \in Coordinator : ServeOK(d)
      BY <2>2, <2>3 DEF ServeInv
    <2>5. TypeOK' /\ Exported'
      BY TypeKept, RecKept DEF RecInv
    <2>6. Sure(serving)'
      BY <2>1, <2>2, <2>3, <2>4, <2>5, ServingStays
    <2>7. ServeOK(c)'
      BY <1>2, <2>1, <2>2, <2>3, <2>4, <2>5, ServeOwn
    <2>8. ASSUME NEW d \in Coordinator, d # c
          PROVE  ServeOK(d)'
      BY <2>1, <2>2, <2>3, <2>4, <2>5, <2>8, ServeOthers
    <2>9. QED BY <2>6, <2>7, <2>8
  <1>3. ASSUME NEW c \in Coordinator, Lapse(c)
        PROVE  ServeInv'
    BY <1>3, Flags DEF Lapse, ServeInv
  <1>4. ASSUME NEW c \in Coordinator, NEW r \in Release, Starts(c, r)
        PROVE  ServeInv'
    BY <1>4, ServeStart
  <1>5. QED BY <1>1, <1>2, <1>3, <1>4, Cases DEF Aside

-----------------------------------------------------------------------------
(* Theorems                                                                *)

\* A studio without releases satisfies it.
LEMMA InitInv ==
  ASSUME Init
  PROVE  IInv
  <1>1. \A c \in Coordinator : op[c] = Idle /\ op[c].kind = "none"
    BY DEF Init, Idle
  <1>2. TypeOK
    <2>1. Idle \in Op
      BY Zenon DEF Op
    <2>2. faults \in 0..MaxFaults
      BY ReleaseAssumption DEF Init
    <2>3. /\ job \in [Release -> {"absent", "building", "ready", "failed"}]
          /\ promotion \in [Release -> {"none", "preparing", "ready", "failed", "unknown"}]
          /\ previous \in [Release -> Id] /\ serving \in Id /\ active \in Id
          /\ older \in [Release -> SUBSET Release]
          /\ generation \in Coordinator \cup {"none", "dead", "elsewhere"}
          /\ foreign \subseteq Release /\ stray \subseteq Release
          /\ op \in [Coordinator -> Op] /\ mail \subseteq Coordinator
      BY <2>1 DEF Init, Id
    <2>4. paused \in BOOLEAN /\ {served, overrun, torn, stacked, late, borrowed} \subseteq BOOLEAN
      BY DEF Init
    <2>5. QED BY <2>2, <2>3, <2>4 DEF TypeOK
  <1>3. LeaseInv /\ FrozenInv /\ PauseInv /\ OwnInv /\ UniqueInv /\ HealInv
    BY <1>1 DEF Init, LeaseInv, FrozenInv, PauseInv, OwnInv, UniqueInv, HealInv, Held, Freezer,
                Owner, Freezes
  <1>4. FreshInv /\ PrevInv /\ ForeignInv /\ KeyInv
    BY <1>1 DEF Init, FreshInv, PrevInv, Known, ForeignInv, KeyInv
  <1>5. OpInv /\ RecInv
    BY <1>1 DEF Init, OpInv, OpOK, RecInv, RecOK, Exported, Freezer, Owner, Raiser
  <1>6. FailedInv /\ StackInv /\ ServeInv
    BY <1>1 DEF Init, FailedInv, FailedOK, StackInv, Bad, Unresolved, ServeInv
  <1>7. QED BY <1>2, <1>3, <1>4, <1>5, <1>6 DEF IInv

\* Every step keeps it.
LEMMA NextInv ==
  ASSUME IInv, [Next]_vars
  PROVE  IInv'
  BY TypeKept, LeaseKept, FrozenKept, PauseKept, FreshKept, ForeignKept, KeyKept, OpKept, OwnKept,
     PrevKept, UniqueKept, RecKept, FailedKept, StackKept, HealKept, ServeKept DEF IInv

\* The inductive invariant holds in every reachable state, for any number of coordinators,
\* releases, crashes and lost leases, and for both kinds of environment.
THEOREM ReleasesInvariant == Spec => []IInv
  <1>1. QED BY InitInv, NextInv, PTL DEF Spec

\* Every variable keeps its type.
THEOREM ReleasesTypeCorrect == Spec => []TypeOK
  <1>1. IInv => TypeOK
    BY DEF IInv
  <1>2. QED BY <1>1, ReleasesInvariant, PTL

\* Records of promotions are true: a complete one has its export, and a failed one does
\* not serve unless a later promotion gave way to it or, in the default environment
\* only, a fallback of siteFile or a null that nobody reads left it serving.
THEOREM ReleasesPromotionsTrue == Spec => []PromotionsAreTrue
  <1>1. ASSUME IInv
        PROVE  PromotionsAreTrue
    <2> SUFFICES ASSUME ~overrun, ~torn, NEW r \in Release
                 PROVE  /\ promotion[r] = "ready" => job[r] = "ready"
                        /\ promotion[r] = "failed" =>
                             serving # r \/ TakenUp(r) \/ (~OwnKey /\ r \in stray)
      BY DEF PromotionsAreTrue
    <2>1. promotion[r] = "ready" => job[r] = "ready"
      BY <1>1 DEF IInv, RecInv, Exported
    <2>2. promotion[r] = "failed" => Gone(r)
      BY <1>1 DEF IInv, FailedInv
    <2>3. Gone(r) => serving # r \/ TakenUp(r) \/ r \in stray
      BY DEF Gone, Excused, Followed, TakenUp
    <2>4. r \in stray => ~OwnKey
      BY <1>1 DEF IInv, KeyInv
    <2>5. QED BY <2>1, <2>2, <2>3, <2>4
  <1>2. QED BY <1>1, ReleasesInvariant, PTL

\* Generations, promotions, rollbacks and reconciliations that fail or crash at any
\* statement leave a ready release serving, once all promotions are reconciled; in the
\* default environment as long as no fallback took an export still in hand.
THEOREM ReleasesLastGood == Spec => []LastGoodServes
  <1>1. ASSUME IInv
        PROVE  LastGoodServes
    <2> SUFFICES ASSUME served, Unresolved = {}, ~overrun, ~torn, ~stacked
                 PROVE  Ready(serving) \/ (~OwnKey /\ borrowed)
      BY DEF LastGoodServes
    <2>1. OwnKey => ~borrowed
      BY <1>1 DEF IInv, KeyInv
    <2>2. ~borrowed => Sure(serving)
      BY <1>1 DEF IInv, ServeInv
    <2>3. Sure(serving) => Ready(serving)
      BY DEF Sure, Bad
    <2>4. QED BY <1>1, <2>1, <2>2, <2>3, Zenon
  <1>2. QED BY <1>1, ReleasesInvariant, PTL

\* No opening of the site database lifts the pause of a snapshot whose generation has
\* its lease.
THEOREM ReleasesSnapshotFrozen == Spec => []SnapshotFrozen
  <1>1. IInv => SnapshotFrozen
    BY DEF IInv, FrozenInv, SnapshotFrozen
  <1>2. QED BY <1>1, ReleasesInvariant, PTL

\* Without a crash or a lost lease, the site is not left paused, unless by a message
\* that came too late.
THEOREM ReleasesWritesResume == Spec => []WritesResume
  <1>1. ASSUME IInv
        PROVE  WritesResume
    <2> SUFFICES ASSUME Calm, faults = 0, mail = {}, ~late, paused
                 PROVE  FALSE
      BY DEF WritesResume
    <2>1. PICK c \in Coordinator : Pausing(c)
      BY <1>1 DEF IInv, PauseInv
    <2>2. op[c] = Idle
      BY DEF Calm
    <2>3. QED BY <2>1, <2>2 DEF Pausing, Idle, Freezer
  <1>2. QED BY <1>1, ReleasesInvariant, PTL
=============================================================================
