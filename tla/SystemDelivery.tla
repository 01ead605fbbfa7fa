--------------------------- MODULE SystemDelivery ---------------------------
(***************************************************************************)
(* The delivery of publications in server/systemDelivery.ts, for one site  *)
(* database: the content service appends an event to the outbox of the     *)
(* studio database, coordinators claim events and apply them to the site   *)
(* database, whose inbox swallows repetitions, and mark them delivered.    *)
(* Nothing spans the two databases, so another process or a crash may come *)
(* between any two steps of deliverOne.                                    *)
(*                                                                         *)
(* Event n is the publication with sequence n.  lease and nextAt are times *)
(* that are left, as in WorkQueue.  A coordinator runs one deliverOne at a *)
(* time and every claim overwrites the token of its row, so the name of    *)
(* the coordinator stands for the token.                                   *)
(***************************************************************************)
EXTENDS Naturals, FiniteSets

CONSTANTS
  Last,         \* bound: publications made
  Coordinator,  \* processes that share the studio database
  Nobody,       \* the NULL of lease_token
  MaxAttempts,  \* attempts after which an event fails (10)
  LeaseTtl,     \* length of a claim in ticks (30 s)
  RetryDelay,   \* delay after a failure in ticks (5 s)
  MaxFaults,    \* bound: crashes and statements that throw
  MaxRestores   \* bound: restores of the site database

ASSUME DeliveryAssumption ==
  /\ Last \in Nat /\ Nobody \notin Coordinator
  /\ MaxAttempts \in Nat \ {0} /\ LeaseTtl \in Nat \ {0} /\ RetryDelay \in Nat
  /\ MaxFaults \in Nat /\ MaxRestores \in Nat

VARIABLES
  \* the studio database
  published,  \* publication_sequence
  status, attempts, nextAt, lease, holder,
  created,    \* created_at, equal for events of the same millisecond
  \* the site database
  inbox,      \* events in system_event_inbox
  applied,    \* those with applied = 1
  shown,      \* the publication in project:cms, 0 for none
  paused,     \* writesPaused
  backup,     \* the backup of it that a restore will use
  \* the processes
  job,        \* [Coordinator -> the event in deliverOne and how far it is]
  faults, restores

studio == <<published, status, attempts, nextAt, lease, holder, created>>
site == <<inbox, applied, shown>>
vars == <<studio, site, paused, backup, job, faults, restores>>

Event == 1..Last
Status == {"absent", "waiting", "running", "delivered", "failed", "blocked"}
Content == [inbox: SUBSET Event, applied: SUBSET Event, shown: 0..Last]
Idle == [event |-> 0, stage |-> "idle"]
Job == {Idle} \cup
       [event: Event, stage: {"claimed", "checked", "committed"}]

TypeOK ==
  /\ published \in 0..Last
  /\ status \in [Event -> Status]
  /\ attempts \in [Event -> 0..MaxAttempts]
  /\ nextAt \in [Event -> Nat]
  /\ lease \in [Event -> Nat]
  /\ holder \in [Event -> Coordinator \cup {Nobody}]
  /\ created \in [Event -> Nat]
  /\ inbox \in SUBSET Event /\ applied \in SUBSET Event /\ shown \in 0..Last
  /\ paused \in BOOLEAN
  /\ backup \in Content
  /\ job \in [Coordinator -> Job]
  /\ faults \in 0..MaxFaults /\ restores \in 0..MaxRestores

Init ==
  /\ published = 0
  /\ status = [n \in Event |-> "absent"]
  /\ attempts = [n \in Event |-> 0]
  /\ nextAt = [n \in Event |-> 0]
  /\ lease = [n \in Event |-> 0]
  /\ holder = [n \in Event |-> Nobody]
  /\ created = [n \in Event |-> 0]
  /\ inbox = {} /\ applied = {} /\ shown = 0
  /\ paused = FALSE
  /\ backup = [inbox |-> {}, applied |-> {}, shown |-> 0]
  /\ job = [c \in Coordinator |-> Idle]
  /\ faults = 0 /\ restores = 0

-----------------------------------------------------------------------------

\* event() of the content service: the sequence grows and the event is appended
\* to the outbox in the transaction of the publication.
Publish ==
  /\ published < Last
  /\ published' = published + 1
  /\ status' = [status EXCEPT ![published + 1] = "waiting"]
  /\ \E d \in {0, 1} :
       created' = [created EXCEPT
         ![published + 1] = IF published = 0 THEN 0 ELSE created[published] + d]
  /\ UNCHANGED <<attempts, nextAt, lease, holder, site, paused, backup, job,
                 faults, restores>>

Lapsed(n) == status[n] = "running" /\ lease[n] = 0
Reclaimed ==
  [n \in Event |-> IF Lapsed(n) THEN "waiting" ELSE status[n]]
ReclaimedHolder == [n \in Event |-> IF Lapsed(n) THEN Nobody ELSE holder[n]]

Ready == {n \in Event : Reclaimed[n] = "waiting" /\ nextAt[n] = 0}
\* created_at orders the events; among equals the random id decides.
Oldest == {n \in Ready : \A m \in Ready : created[n] <= created[m]}

\* claim() only gives lapsed rows back.
ClaimNothing(c) ==
  /\ job[c] = Idle /\ Ready = {}
  /\ status' = Reclaimed /\ holder' = ReclaimedHolder
  /\ UNCHANGED <<published, attempts, nextAt, lease, created, site, paused,
                 backup, job, faults, restores>>

\* claim() takes the oldest event that is ready.  attempts is only compared
\* with MaxAttempts, so it is not counted beyond.
Claim(c, n) ==
  /\ job[c] = Idle /\ n \in Oldest
  /\ status' = [Reclaimed EXCEPT ![n] = "running"]
  /\ holder' = [ReclaimedHolder EXCEPT ![n] = c]
  /\ lease' = [lease EXCEPT ![n] = LeaseTtl]
  /\ attempts' = [attempts EXCEPT ![n] = IF @ < MaxAttempts THEN @ + 1 ELSE @]
  /\ job' = [job EXCEPT ![c] = [event |-> n, stage |-> "claimed"]]
  /\ UNCHANGED <<published, nextAt, created, site, paused, backup, faults,
                 restores>>

Owns(c) == status[job[c].event] = "running" /\ holder[job[c].event] = c

\* authorize passed, the site database is open and writable, the claim stands.
Check(c) ==
  /\ job[c].stage = "claimed" /\ ~paused
  /\ Owns(c) /\ lease[job[c].event] > 0
  /\ job' = [job EXCEPT ![c].stage = "checked"]
  /\ UNCHANGED <<studio, site, paused, backup, faults, restores>>

\* defect: sequences are not compared
ApplyUnordered(c) ==
  LET n == job[c].event IN
  /\ job[c].stage = "checked"
  /\ IF n \in inbox THEN UNCHANGED site
     ELSE /\ inbox' = inbox \cup {n}
          /\ applied' = applied \cup {n} /\ shown' = n
  /\ job' = [job EXCEPT ![c].stage = "committed"]
  /\ UNCHANGED <<studio, paused, backup, faults, restores>>

\* The transaction on the site database.  An older publication than the newest
\* one applied is noted in the inbox and not shown.
Apply(c) ==
  LET n == job[c].event IN
  /\ job[c].stage = "checked"
  /\ IF n \in inbox THEN UNCHANGED site
     ELSE /\ inbox' = inbox \cup {n}
          /\ IF \A m \in applied : m < n
             THEN applied' = applied \cup {n} /\ shown' = n
             ELSE UNCHANGED <<applied, shown>>
  /\ job' = [job EXCEPT ![c].stage = "committed"]
  /\ UNCHANGED <<studio, paused, backup, faults, restores>>

\* defect: the acknowledgement is written before the site database
MarkEarly(c) ==
  LET n == job[c].event IN
  /\ job[c].stage \in {"checked", "committed"}
  /\ IF Owns(c) /\ lease[n] > 0
     THEN /\ status' = [status EXCEPT ![n] = "delivered"]
          /\ holder' = [holder EXCEPT ![n] = Nobody]
          /\ lease' = [lease EXCEPT ![n] = 0]
     ELSE UNCHANGED <<status, holder, lease>>
  /\ job' = [job EXCEPT ![c] = Idle]
  /\ UNCHANGED <<published, attempts, nextAt, created, site, paused, backup,
                 faults, restores>>

\* The acknowledgement, which counts only while the claim stands.
Mark(c) ==
  LET n == job[c].event IN
  /\ job[c].stage = "committed"
  /\ IF Owns(c) /\ lease[n] > 0
     THEN /\ status' = [status EXCEPT ![n] = "delivered"]
          /\ holder' = [holder EXCEPT ![n] = Nobody]
          /\ lease' = [lease EXCEPT ![n] = 0]
     ELSE UNCHANGED <<status, holder, lease>>
  /\ job' = [job EXCEPT ![c] = Idle]
  /\ UNCHANGED <<published, attempts, nextAt, created, site, paused, backup,
                 faults, restores>>

\* defects: a temporary failure is retried for ever; a status the table refuses
AfterFailureAlways(n, permanent) == IF permanent THEN "blocked" ELSE "waiting"
AfterFailureRejected(n, permanent) ==
  IF permanent THEN "rejected"
  ELSE IF attempts[n] >= MaxAttempts THEN "failed" ELSE "waiting"

AfterFailure(n, permanent) ==
  IF permanent THEN "blocked"
  ELSE IF attempts[n] >= MaxAttempts THEN "failed" ELSE "waiting"

\* The catch block: the row is settled while the token is on it, lapsed or not.
Settle(c, permanent) ==
  LET n == job[c].event IN
  /\ IF Owns(c)
     THEN /\ status' = [status EXCEPT ![n] = AfterFailure(n, permanent)]
          /\ holder' = [holder EXCEPT ![n] = Nobody]
          /\ lease' = [lease EXCEPT ![n] = 0]
          /\ nextAt' = [nextAt EXCEPT ![n] = RetryDelay]
     ELSE UNCHANGED <<status, holder, lease, nextAt>>
  /\ job' = [job EXCEPT ![c] = Idle]
  /\ UNCHANGED <<published, attempts, created, site, paused, backup, restores>>

\* authorize refuses, or the scope of the event does not fit any more.
Refuse(c) == job[c].stage = "claimed" /\ Settle(c, TRUE) /\ UNCHANGED faults

\* The site is paused or the claim is lost.
CheckFails(c) ==
  /\ job[c].stage = "claimed"
  /\ paused \/ ~Owns(c) \/ lease[job[c].event] = 0
  /\ Settle(c, FALSE) /\ UNCHANGED faults

\* Any statement throws: the site cannot be opened, its transaction is rolled
\* back, or the acknowledgement is not written.
Throw(c) ==
  /\ job[c] # Idle /\ faults < MaxFaults
  /\ Settle(c, FALSE) /\ faults' = faults + 1

\* The process dies, or the catch block throws as well: the claim must lapse.
Vanish(c) ==
  /\ job[c] # Idle /\ faults < MaxFaults
  /\ job' = [job EXCEPT ![c] = Idle] /\ faults' = faults + 1
  /\ UNCHANGED <<studio, site, paused, backup, restores>>

-----------------------------------------------------------------------------
(* Operations on the site database.                                        *)

Pause == /\ paused' = ~paused
         /\ UNCHANGED <<studio, site, backup, job, faults, restores>>

\* Any backup may be the one a restore uses later; the others are not kept.  The
\* first one was taken before anything was published.
Backup ==
  /\ restores < MaxRestores
  /\ backup' = [inbox |-> inbox, applied |-> applied, shown |-> shown]
  /\ UNCHANGED <<studio, site, paused, job, faults, restores>>

\* The file is replaced by the backup while nobody has it open: the exclusive
\* lease of restore() waits for the handles of every coordinator.
Restore ==
  /\ restores < MaxRestores
  /\ \A c \in Coordinator : job[c].stage \in {"idle", "claimed"}
  /\ inbox' = backup.inbox /\ applied' = backup.applied /\ shown' = backup.shown
  /\ paused' = FALSE /\ restores' = restores + 1
  /\ UNCHANGED <<studio, backup, job, faults>>

Less(k) == IF k = 0 THEN 0 ELSE k - 1

Tick ==
  /\ \E n \in Event : lease[n] > 0 \/ nextAt[n] > 0
  /\ lease' = [n \in Event |-> Less(lease[n])]
  /\ nextAt' = [n \in Event |-> Less(nextAt[n])]
  /\ UNCHANGED <<published, status, attempts, holder, created, site, paused,
                 backup, job, faults, restores>>

\* One iteration of the event timer: claim, or the next step of deliverOne.
Poll(c) == ClaimNothing(c) \/ \E n \in Event : Claim(c, n)
Advance(c) == Check(c) \/ CheckFails(c) \/ Refuse(c) \/ Apply(c) \/ Mark(c)
Fault(c) == Throw(c) \/ Vanish(c)

Next == \/ Publish \/ Pause \/ Backup \/ Restore \/ Tick
        \/ \E c \in Coordinator : Poll(c) \/ Advance(c) \/ Fault(c)

Spec == Init /\ [][Next]_vars

(* The 5 s timer polls and deliverOne goes on; time passes.  Nobody owes a *)
(* publication, a pause, its end, a backup, a restore or a fault.          *)
Fairness == /\ WF_vars(Tick)
            /\ \A c \in Coordinator : WF_vars(Poll(c)) /\ WF_vars(Advance(c))

FairSpec == Spec /\ Fairness

-----------------------------------------------------------------------------
(* Properties                                                              *)

\* The site shows a register of publications: repeated and overtaken deliveries
\* never take it back to an older one (docs/system-advancement-plan.md:167).
Register == INSTANCE PublicationRegister WITH saved <- backup.shown
RegisterSpec == Register!Spec

\* An event marked delivered has reached the site, which shows it or a newer
\* publication, wherever a process died in between.
DeliveredIsShown ==
  restores = 0 => \A n \in Event : status[n] = "delivered" => n \in inbox /\ n <= shown

\* Restoring the site does not lose a publication that was marked delivered:
\* omissions are looked for again (docs/system-advancement-plan.md:165).
DeliveredStaysShown ==
  \A n \in Event : status[n] = "delivered" => n <= shown

\* A delivery goes on although its claim ran out.
Overrun == \E c \in Coordinator :
             job[c] # Idle /\ ~(Owns(c) /\ lease[job[c].event] > 0)

\* Every publication ends delivered, failed or blocked, however long the site is
\* paused and whichever processes die, unless claims run out under deliveries
\* for ever: coordinators that overrun in turn take an event from each other
\* without end, since claim() does not look at attempts (systemDelivery.ts:23).
EventuallySettled ==
  \/ []<>Overrun
  \/ \A n \in Event :
       status[n] = "waiting" ~> status[n] \in {"delivered", "failed", "blocked"}

\* What makes delivery inductive.  The newest publication applied is the one
\* shown, in the site and in its backup; the inbox holds nothing newer.
ContentInv(x) ==
  /\ x.applied \subseteq x.inbox
  /\ x.shown \in x.applied \cup {0}
  /\ \A n \in x.inbox : n <= x.shown /\ n <= published

JobInv ==
  \A c \in Coordinator :
    /\ job[c] # Idle => job[c].event <= published
    /\ job[c].stage = "committed" /\ restores = 0 => job[c].event \in inbox

DeliveryInv ==
  /\ ContentInv([inbox |-> inbox, applied |-> applied, shown |-> shown])
  /\ ContentInv(backup)
  /\ JobInv
  /\ \A n \in Event : status[n] # "absent" <=> n <= published
  /\ DeliveredIsShown
=============================================================================
