------------------------ MODULE SystemDeliveryProofs ------------------------
(***************************************************************************)
(* SystemDelivery implements PublicationRegister, and what it marks        *)
(* delivered has arrived, for every number of publications, coordinators,  *)
(* attempts, faults and restores.                                          *)
(***************************************************************************)
EXTENDS SystemDelivery, TLAPS

Inv == TypeOK /\ DeliveryInv

-----------------------------------------------------------------------------
(* What a job is.                                                          *)

LEMMA JobTypes ==
  ASSUME TypeOK, NEW c \in Coordinator
  PROVE  /\ job[c] \in Job
         /\ job[c].stage \in {"idle", "claimed", "checked", "committed"}
         /\ job[c] = Idle <=> job[c].stage = "idle"
         /\ job[c] # Idle => job[c].event \in Event
  <1>1. job[c] \in Job
    BY DEF TypeOK
  <1>2. CASE job[c] = Idle
    BY <1>1, <1>2 DEF Idle
  <1>3. CASE job[c] # Idle
    <2>1. job[c] \in [event: Event, stage: {"claimed", "checked", "committed"}]
      BY <1>1, <1>3 DEF Job
    <2>2. job[c].event \in Event /\ job[c].stage \in {"claimed", "checked", "committed"}
      BY <2>1
    <2>3. QED BY <1>1, <1>3, <2>2
  <1>4. QED BY <1>2, <1>3

\* The job of a coordinator becomes idle, or moves to another stage.
LEMMA JobSteps ==
  ASSUME TypeOK, NEW c \in Coordinator
  PROVE  /\ job' = [job EXCEPT ![c] = Idle] =>
              /\ job' \in [Coordinator -> Job] /\ job'[c] = Idle
              /\ \A d \in Coordinator \ {c} : job'[d] = job[d]
         /\ \A s \in {"checked", "committed"} :
              job[c] # Idle /\ job' = [job EXCEPT ![c].stage = s] =>
                /\ job' \in [Coordinator -> Job]
                /\ job'[c] = [event |-> job[c].event, stage |-> s]
                /\ \A d \in Coordinator \ {c} : job'[d] = job[d]
  <1>1. job \in [Coordinator -> Job] /\ Idle \in Job
    BY DEF TypeOK, Job
  <1>2. ASSUME NEW s \in {"checked", "committed"}, job[c] # Idle,
               job' = [job EXCEPT ![c].stage = s]
        PROVE  /\ job' \in [Coordinator -> Job]
               /\ job'[c] = [event |-> job[c].event, stage |-> s]
               /\ \A d \in Coordinator \ {c} : job'[d] = job[d]
    <2>1. job[c] \in [event: Event, stage: {"claimed", "checked", "committed"}]
      BY <1>1, <1>2 DEF Job
    <2>2. [job[c] EXCEPT !.stage = s] = [event |-> job[c].event, stage |-> s]
      BY <2>1
    <2>3. [event |-> job[c].event, stage |-> s] \in Job
      BY <2>1 DEF Job
    <2>4. QED BY <1>1, <1>2, <2>2, <2>3
  <1>3. QED BY <1>1, <1>2

-----------------------------------------------------------------------------
(* The invariant.                                                          *)

\* A step that leaves both databases' contents and the jobs alone, and turns no
\* row delivered, keeps DeliveryInv.
LEMMA QuietStep ==
  ASSUME Inv, TypeOK', UNCHANGED <<published, site, backup, restores>>,
         \A c \in Coordinator :
           job'[c] # Idle => /\ job'[c].event <= published
                             /\ job'[c].stage = "committed" /\ restores = 0
                                  => job'[c].event \in inbox,
         \A n \in Event : /\ status'[n] = "absent" <=> status[n] = "absent"
                          /\ status'[n] = "delivered" /\ restores = 0 =>
                               n \in inbox
  PROVE  DeliveryInv'
  <1>1. UNCHANGED <<inbox, applied, shown>>
    BY DEF site
  <1>2. /\ ContentInv([inbox |-> inbox, applied |-> applied, shown |-> shown])'
        /\ ContentInv(backup)'
    BY <1>1 DEF Inv, DeliveryInv, ContentInv
  <1>3. \A c \in Coordinator : job'[c] = Idle => job'[c].stage # "committed"
    BY DEF Idle
  <1>4. JobInv'
    BY <1>1, <1>3 DEF JobInv
  <1>5. \A n \in inbox : n <= shown
    BY DEF Inv, DeliveryInv, ContentInv
  <1>6. DeliveredIsShown'
    BY <1>1, <1>5 DEF DeliveredIsShown
  <1>7. QED BY <1>2, <1>4, <1>6 DEF Inv, DeliveryInv

\* What the invariant says of a job.
LEMMA JobFacts ==
  ASSUME Inv
  PROVE  \A c \in Coordinator :
           job[c] # Idle => /\ job[c].event \in Event /\ job[c].event <= published
                            /\ job[c].stage = "committed" /\ restores = 0
                                 => job[c].event \in inbox
  BY JobTypes DEF Inv, DeliveryInv, JobInv

LEMMA InvInit == Init => Inv
  <1> SUFFICES ASSUME Init PROVE Inv
    OBVIOUS
  <1>1. TypeOK
    <2>1. 0 \in 0..Last /\ 0 \in 0..MaxAttempts /\ 0 \in 0..MaxFaults /\ 0 \in 0..MaxRestores
      BY DeliveryAssumption
    <2>2. Idle \in Job /\ "absent" \in Status
      BY DEF Job, Status
    <2>3. backup \in Content
      BY <2>1 DEF Init, Content
    <2>4. /\ published \in 0..Last /\ status \in [Event -> Status]
          /\ attempts \in [Event -> 0..MaxAttempts]
          /\ job \in [Coordinator -> Job]
      BY <2>1, <2>2 DEF Init
    <2>5. /\ nextAt \in [Event -> Nat] /\ lease \in [Event -> Nat]
          /\ holder \in [Event -> Coordinator \cup {Nobody}]
          /\ created \in [Event -> Nat]
      BY DEF Init
    <2>6. /\ inbox \in SUBSET Event /\ applied \in SUBSET Event /\ shown \in 0..Last
          /\ paused \in BOOLEAN /\ faults \in 0..MaxFaults /\ restores \in 0..MaxRestores
      BY <2>1 DEF Init
    <2>7. QED BY <2>3, <2>4, <2>5, <2>6 DEF TypeOK
  <1>2. DeliveryInv
    BY DeliveryAssumption
    DEF Init, DeliveryInv, ContentInv, JobInv, DeliveredIsShown, Idle, Event
  <1>3. QED BY <1>1, <1>2 DEF Inv

LEMMA InvPublish == ASSUME Inv, Publish PROVE Inv'
  <1> DEFINE p == published + 1
  <1>1. /\ published < Last /\ published' = p
        /\ status' = [status EXCEPT ![p] = "waiting"]
        /\ UNCHANGED <<attempts, nextAt, lease, holder, inbox, applied, shown,
                       paused, backup, job, faults, restores>>
    BY DEF Publish, site
  <1>2. p \in Event /\ p \in 0..Last /\ published \in 0..Last
    BY <1>1, DeliveryAssumption DEF Inv, TypeOK, Event
  <1>3. created' \in [Event -> Nat]
    <2>1. PICK d \in {0, 1} :
            created' = [created EXCEPT ![p] = IF published = 0 THEN 0 ELSE created[published] + d]
      BY DEF Publish
    <2>2. (IF published = 0 THEN 0 ELSE created[published] + d) \in Nat
      BY <1>2 DEF Inv, TypeOK, Event
    <2>3. QED BY <1>2, <2>1, <2>2 DEF Inv, TypeOK
  <1>4. status' \in [Event -> Status]
    BY <1>1 DEF Inv, TypeOK, Status
  <1>5. TypeOK'
    BY <1>1, <1>2, <1>3, <1>4 DEF Inv, TypeOK
  <1>6. status'[p] = "waiting" /\ \A n \in Event \ {p} : status'[n] = status[n]
    BY <1>1, <1>2 DEF Inv, TypeOK
  <1>7. \A n \in Event : status'[n] # "absent" <=> n <= published'
    BY <1>1, <1>2, <1>6 DEF Inv, DeliveryInv, Event
  <1>8. /\ ContentInv([inbox |-> inbox, applied |-> applied, shown |-> shown])'
        /\ ContentInv(backup)'
    <2>1. \A n \in Event : n <= published => n <= published'
      BY <1>1, <1>2 DEF Event
    <2>2. inbox \subseteq Event /\ backup.inbox \subseteq Event
      BY DEF Inv, TypeOK, Content
    <2>3. QED BY <1>1, <2>1, <2>2 DEF Inv, DeliveryInv, ContentInv
  <1>9. JobInv'
    <2>1. \A n \in Event : n <= published => n <= published'
      BY <1>1, <1>2 DEF Event
    <2>2. \A c \in Coordinator : job[c] # Idle =>
            /\ job[c].event <= published'
            /\ job[c].stage = "committed" /\ restores = 0 => job[c].event \in inbox
      BY <2>1, JobFacts
    <2>3. \A c \in Coordinator : job[c].stage = "committed" => job[c] # Idle
      BY DEF Idle
    <2>4. QED BY <1>1, <2>2, <2>3 DEF JobInv
  <1>10. DeliveredIsShown'
    BY <1>1, <1>6 DEF Inv, DeliveryInv, DeliveredIsShown
  <1>11. QED BY <1>5, <1>7, <1>8, <1>9, <1>10 DEF Inv, DeliveryInv

\* What claim() makes of the rows whose claim ran out.
LEMMA ReclaimFacts ==
  ASSUME Inv
  PROVE  /\ Reclaimed \in [Event -> Status]
         /\ ReclaimedHolder \in [Event -> Coordinator \cup {Nobody}]
         /\ \A n \in Event : /\ Reclaimed[n] = "absent" <=> status[n] = "absent"
                             /\ Reclaimed[n] = "delivered" => status[n] = "delivered"
                             /\ Reclaimed[n] # "absent" => n <= published
  <1>1. Reclaimed \in [Event -> Status]
    BY DEF Inv, TypeOK, Status, Reclaimed
  <1>2. ReclaimedHolder \in [Event -> Coordinator \cup {Nobody}]
    BY DEF Inv, TypeOK, ReclaimedHolder
  <1>3. \A n \in Event : Reclaimed[n] = IF Lapsed(n) THEN "waiting" ELSE status[n]
    BY DEF Reclaimed
  <1>4. QED BY <1>1, <1>2, <1>3 DEF Lapsed, Inv, DeliveryInv

LEMMA InvPoll == ASSUME Inv, NEW c \in Coordinator, Poll(c) PROVE Inv'
  <1>1. \A n \in Event : status[n] = "delivered" /\ restores = 0 => n \in inbox
    BY DEF Inv, DeliveryInv, DeliveredIsShown
  <1>2. CASE ClaimNothing(c)
    <2>1. /\ status' = Reclaimed /\ holder' = ReclaimedHolder
          /\ UNCHANGED <<published, attempts, nextAt, lease, created, inbox, applied,
                         shown, paused, backup, job, faults, restores>>
      BY <1>2 DEF ClaimNothing, site
    <2>2. TypeOK'
      BY <2>1, ReclaimFacts DEF Inv, TypeOK
    <2>3. \A m \in Event : /\ status'[m] = "absent" <=> status[m] = "absent"
                           /\ status'[m] = "delivered" /\ restores = 0 => m \in inbox
      BY <1>1, <2>1, ReclaimFacts
    <2>4. \A d \in Coordinator :
            job'[d] # Idle => /\ job'[d].event <= published
                              /\ job'[d].stage = "committed" /\ restores = 0
                                   => job'[d].event \in inbox
      BY <2>1, JobFacts
    <2>5. UNCHANGED <<published, site, backup, restores>>
      BY <2>1 DEF site
    <2>6. DeliveryInv'
      BY <2>2, <2>3, <2>4, <2>5, QuietStep
    <2>7. QED BY <2>2, <2>6 DEF Inv
  <1>3. ASSUME NEW n \in Event, Claim(c, n) PROVE Inv'
    <2> DEFINE new == [event |-> n, stage |-> "claimed"]
    <2>1. /\ status' = [Reclaimed EXCEPT ![n] = "running"]
          /\ holder' = [ReclaimedHolder EXCEPT ![n] = c]
          /\ lease' = [lease EXCEPT ![n] = LeaseTtl]
          /\ attempts' = [attempts EXCEPT ![n] = IF @ < MaxAttempts THEN @ + 1 ELSE @]
          /\ job' = [job EXCEPT ![c] = new]
          /\ UNCHANGED <<published, nextAt, created, inbox, applied, shown, paused,
                         backup, faults, restores>>
      BY <1>3 DEF Claim, site
    <2>2. Reclaimed[n] = "waiting"
      BY <1>3 DEF Claim, Oldest, Ready
    <2>3. status' \in [Event -> Status]
      BY <2>1, ReclaimFacts DEF Status
    <2>4. holder' \in [Event -> Coordinator \cup {Nobody}] /\ lease' \in [Event -> Nat]
      BY <2>1, ReclaimFacts, DeliveryAssumption DEF Inv, TypeOK
    <2>5. attempts' \in [Event -> 0..MaxAttempts]
      <3>1. attempts[n] \in 0..MaxAttempts /\ MaxAttempts \in Nat
        BY DeliveryAssumption DEF Inv, TypeOK
      <3>2. (IF attempts[n] < MaxAttempts THEN attempts[n] + 1 ELSE attempts[n])
              \in 0..MaxAttempts
        BY <3>1
      <3>3. QED BY <2>1, <3>2 DEF Inv, TypeOK
    <2>6. new \in Job
      BY DEF Job
    <2>7. job' \in [Coordinator -> Job] /\ job'[c] = new
          /\ \A d \in Coordinator \ {c} : job'[d] = job[d]
      BY <2>1, <2>6 DEF Inv, TypeOK
    <2>8. TypeOK'
      BY <2>1, <2>3, <2>4, <2>5, <2>7 DEF Inv, TypeOK
    <2>9. /\ status'[n] = "running"
          /\ \A m \in Event \ {n} : status'[m] = Reclaimed[m]
      BY <2>1, ReclaimFacts
    <2>10. new.event = n /\ new.stage = "claimed" /\ n <= published
      <3>1. n <= published
        BY <2>2, ReclaimFacts
      <3>2. new.event = n /\ new.stage = "claimed"
        OBVIOUS
      <3>3. QED BY <3>1, <3>2
    <2>11. \A d \in Coordinator :
             job'[d] # Idle => /\ job'[d].event <= published
                               /\ job'[d].stage = "committed" /\ restores = 0
                                    => job'[d].event \in inbox
      BY <2>7, <2>10, JobFacts
    <2>12. \A m \in Event : /\ status'[m] = "absent" <=> status[m] = "absent"
                            /\ status'[m] = "delivered" /\ restores = 0 => m \in inbox
      <3>1. status[n] # "absent"
        BY <2>2, ReclaimFacts
      <3>2. ASSUME NEW m \in Event
            PROVE  /\ status'[m] = "absent" <=> status[m] = "absent"
                   /\ status'[m] = "delivered" /\ restores = 0 => m \in inbox
        <4>1. CASE m = n
          BY <2>9, <3>1, <4>1
        <4>2. CASE m # n
          BY <1>1, <2>9, <4>2, ReclaimFacts
        <4>3. QED BY <4>1, <4>2
      <3>3. QED BY <3>2
    <2>13. DeliveryInv'
      <3>1. UNCHANGED <<published, site, backup, restores>>
        BY <2>1 DEF site
      <3>2. QED BY <2>8, <2>11, <2>12, <3>1, QuietStep
    <2>14. QED BY <2>8, <2>13 DEF Inv
  <1>4. QED BY <1>2, <1>3 DEF Poll

\* Steps that only move a job: they keep the invariant when the job is a job,
\* its event has not changed, and it has committed what the inbox holds.
LEMMA InvJob ==
  ASSUME Inv, NEW c \in Coordinator,
         UNCHANGED <<studio, site, paused, backup, restores>>,
         faults' \in 0..MaxFaults,
         \/ job' = [job EXCEPT ![c] = Idle]
         \/ job[c] # Idle /\ job' = [job EXCEPT ![c].stage = "checked"]
  PROVE  Inv'
  <1>1. UNCHANGED <<published, status, attempts, nextAt, lease, holder, created,
                    inbox, applied, shown>>
    BY DEF studio, site
  <1>2. /\ job' \in [Coordinator -> Job]
        /\ \A d \in Coordinator \ {c} : job'[d] = job[d]
        /\ job'[c] = Idle \/ (job[c] # Idle /\ job'[c] = [event |-> job[c].event, stage |-> "checked"])
    BY JobSteps DEF Inv
  <1>3. TypeOK'
    BY <1>1, <1>2 DEF Inv, TypeOK
  <1>4. ASSUME NEW d \in Coordinator, job'[d] # Idle
        PROVE  /\ job'[d].event <= published
               /\ job'[d].stage = "committed" /\ restores = 0 => job'[d].event \in inbox
    <2>1. CASE d # c
      BY <1>2, <1>4, <2>1, JobFacts
    <2>2. CASE d = c
      <3>1. job[c] # Idle /\ job'[c] = [event |-> job[c].event, stage |-> "checked"]
        BY <1>2, <1>4, <2>2
      <3>2. job'[c].event = job[c].event /\ job'[c].stage = "checked"
        BY <3>1
      <3>3. QED BY <2>2, <3>1, <3>2, JobFacts
    <2>3. QED BY <2>1, <2>2
  <1>5. \A m \in Event : /\ status'[m] = "absent" <=> status[m] = "absent"
                         /\ status'[m] = "delivered" /\ restores = 0 => m \in inbox
    BY <1>1 DEF Inv, DeliveryInv, DeliveredIsShown
  <1>6. DeliveryInv'
    BY <1>1, <1>3, <1>4, <1>5, QuietStep
  <1>7. QED BY <1>3, <1>6 DEF Inv

LEMMA InvCheck == ASSUME Inv, NEW c \in Coordinator, Check(c) PROVE Inv'
  <1>1. job[c] # Idle
    BY DEF Check, Idle
  <1>2. faults' \in 0..MaxFaults
    BY DEF Check, Inv, TypeOK
  <1>3. QED BY <1>1, <1>2, InvJob DEF Check

LEMMA InvVanish == ASSUME Inv, NEW c \in Coordinator, Vanish(c) PROVE Inv'
  <1>1. faults' \in 0..MaxFaults
    BY DeliveryAssumption DEF Vanish, Inv, TypeOK
  <1>2. QED BY <1>1, InvJob DEF Vanish

\* Steps that settle the event of a job: the row of that event is rewritten and
\* the job is over.
LEMMA InvRow ==
  ASSUME Inv, NEW c \in Coordinator, job[c] # Idle,
         job' = [job EXCEPT ![c] = Idle],
         UNCHANGED <<published, attempts, created, site, paused, backup, restores>>,
         faults' \in 0..MaxFaults, nextAt' \in [Event -> Nat],
         \/ /\ status[job[c].event] = "running"
            /\ \E s \in Status \ {"absent"} :
                 /\ status' = [status EXCEPT ![job[c].event] = s]
                 /\ s = "delivered" /\ restores = 0 => job[c].event \in inbox
            /\ holder' = [holder EXCEPT ![job[c].event] = Nobody]
            /\ lease' = [lease EXCEPT ![job[c].event] = 0]
         \/ UNCHANGED <<status, holder, lease>>
  PROVE  Inv'
  <1> DEFINE n == job[c].event
  <1>1. n \in Event
    BY JobFacts
  <1>2. UNCHANGED <<inbox, applied, shown>>
    BY DEF site
  <1>3. /\ job' \in [Coordinator -> Job] /\ job'[c] = Idle
        /\ \A d \in Coordinator \ {c} : job'[d] = job[d]
    BY JobSteps DEF Inv
  <1>4. /\ status' \in [Event -> Status]
        /\ holder' \in [Event -> Coordinator \cup {Nobody}]
        /\ lease' \in [Event -> Nat]
    BY DEF Inv, TypeOK
  <1>5. TypeOK'
    BY <1>2, <1>3, <1>4 DEF Inv, TypeOK
  <1>6. \A d \in Coordinator :
          job'[d] # Idle => /\ job'[d].event <= published
                            /\ job'[d].stage = "committed" /\ restores = 0
                                 => job'[d].event \in inbox
    BY <1>3, JobFacts
  <1>7. \A m \in Event : status[m] = "delivered" /\ restores = 0 => m \in inbox
    BY DEF Inv, DeliveryInv, DeliveredIsShown
  <1>8. \A m \in Event : /\ status'[m] = "absent" <=> status[m] = "absent"
                         /\ status'[m] = "delivered" /\ restores = 0 => m \in inbox
    <2>1. CASE UNCHANGED <<status, holder, lease>>
      BY <1>7, <2>1
    <2>2. ASSUME status[n] = "running", NEW s \in Status \ {"absent"},
                 status' = [status EXCEPT ![n] = s],
                 s = "delivered" /\ restores = 0 => n \in inbox
          PROVE  \A m \in Event : /\ status'[m] = "absent" <=> status[m] = "absent"
                                  /\ status'[m] = "delivered" /\ restores = 0 => m \in inbox
      <3>1. status'[n] = s /\ \A m \in Event \ {n} : status'[m] = status[m]
        BY <1>1, <2>2 DEF Inv, TypeOK
      <3>2. QED BY <1>7, <2>2, <3>1
    <2>3. QED BY <2>1, <2>2
  <1>9. DeliveryInv'
    BY <1>5, <1>6, <1>8, QuietStep
  <1>10. QED BY <1>5, <1>9 DEF Inv

LEMMA InvMark == ASSUME Inv, NEW c \in Coordinator, Mark(c) PROVE Inv'
  <1>1. job[c] # Idle
    BY DEF Mark, Idle
  <1>2. restores = 0 => job[c].event \in inbox
    BY <1>1, JobFacts DEF Mark
  <1>3. "delivered" \in Status \ {"absent"}
    BY DEF Status
  <1>4. nextAt' \in [Event -> Nat] /\ faults' \in 0..MaxFaults
    BY DEF Mark, Inv, TypeOK
  <1>5. /\ job' = [job EXCEPT ![c] = Idle]
        /\ UNCHANGED <<published, attempts, created, site, paused, backup, restores>>
    BY DEF Mark
  <1>6. CASE Owns(c) /\ lease[job[c].event] > 0
    BY <1>1, <1>2, <1>3, <1>4, <1>5, <1>6, InvRow DEF Mark, Owns
  <1>7. CASE ~(Owns(c) /\ lease[job[c].event] > 0)
    <2>1. UNCHANGED <<status, holder, lease>>
      BY <1>7 DEF Mark
    <2>2. QED BY <1>1, <1>4, <1>5, <2>1, InvRow
  <1>8. QED BY <1>6, <1>7

LEMMA InvSettle ==
  ASSUME Inv, NEW c \in Coordinator, job[c] # Idle, NEW p \in BOOLEAN,
         Settle(c, p), faults' \in 0..MaxFaults
  PROVE  Inv'
  <1> DEFINE s == AfterFailure(job[c].event, p)
  <1>1. s \in Status \ {"absent"} /\ s # "delivered"
    BY DEF AfterFailure, Status
  <1>2. nextAt' \in [Event -> Nat]
    BY DeliveryAssumption DEF Settle, Inv, TypeOK
  <1>3. /\ job' = [job EXCEPT ![c] = Idle]
        /\ UNCHANGED <<published, attempts, created, site, paused, backup, restores>>
    BY DEF Settle
  <1>4. CASE Owns(c)
    <2>1. /\ status' = [status EXCEPT ![job[c].event] = s]
          /\ holder' = [holder EXCEPT ![job[c].event] = Nobody]
          /\ lease' = [lease EXCEPT ![job[c].event] = 0]
      BY <1>4 DEF Settle
    <2> HIDE DEF s
    <2>2. QED BY <1>1, <1>2, <1>3, <1>4, <2>1, InvRow DEF Owns
  <1>5. CASE ~Owns(c)
    <2>1. UNCHANGED <<status, holder, lease>>
      BY <1>5 DEF Settle
    <2>2. QED BY <1>2, <1>3, <2>1, InvRow
  <1>6. QED BY <1>4, <1>5

\* What the transaction on the site database does to the content.
LEMMA ApplyFacts ==
  ASSUME Inv, NEW c \in Coordinator, Apply(c)
  PROVE  /\ job[c] # Idle /\ job[c].event \in Event /\ job[c].event <= published
         /\ inbox' = inbox \cup {job[c].event}
         /\ \/ applied' = applied /\ shown' = shown /\ job[c].event <= shown
            \/ /\ applied' = applied \cup {job[c].event} /\ shown' = job[c].event
               /\ shown < job[c].event
  <1> DEFINE n == job[c].event
  <1>1. job[c] # Idle
    BY DEF Apply, Idle
  <1>2. n \in Event /\ n <= published
    BY <1>1, JobFacts
  <1>3. /\ applied \subseteq inbox /\ shown \in applied \cup {0}
        /\ \A m \in inbox : m <= shown
    BY DEF Inv, DeliveryInv, ContentInv
  <1>4. /\ n \in Nat /\ n >= 1 /\ shown \in Nat
        /\ \A m \in applied : m \in Nat
    <2>1. n \in Event
      BY <1>2
    <2> HIDE DEF n
    <2>2. n \in Nat /\ n >= 1
      BY <2>1, DeliveryAssumption DEF Event
    <2>3. shown \in Nat /\ \A m \in applied : m \in Nat
      BY DeliveryAssumption DEF Inv, TypeOK, Event
    <2>4. QED BY <2>2, <2>3
  <1>5. CASE n \in inbox
    <2>1. inbox' = inbox /\ applied' = applied /\ shown' = shown
      BY <1>5 DEF Apply, site
    <2>2. QED BY <1>1, <1>2, <1>3, <1>5, <2>1
  <1>6. CASE n \notin inbox /\ \A m \in applied : m < n
    <2>1. inbox' = inbox \cup {n} /\ applied' = applied \cup {n} /\ shown' = n
      BY <1>6 DEF Apply
    <2>2. shown < n
      BY <1>3, <1>4, <1>6
    <2>3. QED BY <1>1, <1>2, <2>1, <2>2
  <1>7. CASE n \notin inbox /\ ~\A m \in applied : m < n
    <2>1. inbox' = inbox \cup {n} /\ applied' = applied /\ shown' = shown
      BY <1>7 DEF Apply
    <2>2. PICK m \in applied : ~(m < n)
      BY <1>7
    <2>3. m <= shown /\ m \in Nat
      BY <1>3, <1>4
    <2>4. n <= shown
      BY <1>4, <2>2, <2>3
    <2>5. QED BY <1>1, <1>2, <2>1, <2>4
  <1>8. QED BY <1>5, <1>6, <1>7

LEMMA InvApply == ASSUME Inv, NEW c \in Coordinator, Apply(c) PROVE Inv'
  <1> DEFINE n == job[c].event
  <1>1. n \in Event /\ n <= published /\ job[c] # Idle
    BY ApplyFacts
  <1>2. inbox' = inbox \cup {n}
    BY ApplyFacts
  <1>3. \/ applied' = applied /\ shown' = shown /\ n <= shown
        \/ applied' = applied \cup {n} /\ shown' = n /\ shown < n
    BY ApplyFacts
  <1> HIDE DEF n
  <1>4. /\ job' = [job EXCEPT ![c].stage = "committed"]
        /\ UNCHANGED <<published, status, attempts, nextAt, lease, holder, created,
                       paused, backup, faults, restores>>
    BY DEF Apply, studio
  <1>5. /\ job' \in [Coordinator -> Job]
        /\ job'[c] = [event |-> n, stage |-> "committed"]
        /\ \A d \in Coordinator \ {c} : job'[d] = job[d]
    BY <1>1, <1>4, JobSteps DEF Inv, n
  <1>6. n \in 0..Last /\ shown \in 0..Last /\ n \in Nat /\ shown \in Nat
    BY <1>1, DeliveryAssumption DEF Inv, TypeOK, Event
  <1>7. inbox' \in SUBSET Event /\ applied' \in SUBSET Event /\ shown' \in 0..Last
    BY <1>1, <1>2, <1>3, <1>6 DEF Inv, TypeOK
  <1>8. TypeOK'
    BY <1>4, <1>5, <1>7 DEF Inv, TypeOK
  <1>9. shown <= shown' /\ n <= shown' /\ shown' \in Nat
    BY <1>3, <1>6
  <1>10. /\ applied \subseteq inbox /\ shown \in applied \cup {0}
         /\ \A m \in inbox : m <= shown /\ m <= published /\ m \in Nat
    BY DEF Inv, DeliveryInv, ContentInv, TypeOK, Event
  <1>11. ContentInv([inbox |-> inbox, applied |-> applied, shown |-> shown])'
    <2>1. applied' \subseteq inbox' /\ shown' \in applied' \cup {0}
      BY <1>2, <1>3, <1>10
    <2>2. \A m \in inbox' : m <= shown' /\ m <= published'
      BY <1>1, <1>2, <1>4, <1>6, <1>9, <1>10
    <2>3. QED BY <2>1, <2>2 DEF ContentInv
  <1>12. ContentInv(backup)'
    BY <1>4 DEF Inv, DeliveryInv, ContentInv
  <1>13. JobInv'
    <2>1. ASSUME NEW d \in Coordinator
          PROVE  /\ job'[d] # Idle => job'[d].event <= published'
                 /\ job'[d].stage = "committed" /\ restores' = 0 => job'[d].event \in inbox'
      <3>1. CASE d = c
        <4>1. job'[c].event = n
          BY <1>5
        <4>2. QED BY <1>1, <1>2, <1>4, <3>1, <4>1
      <3>2. CASE d # c
        BY <1>2, <1>4, <1>5, <3>2 DEF Inv, DeliveryInv, JobInv
      <3>3. QED BY <3>1, <3>2
    <2>2. QED BY <2>1 DEF JobInv
  <1>14. DeliveredIsShown'
    <2>1. ASSUME restores = 0, NEW m \in Event, status[m] = "delivered"
          PROVE  m \in inbox' /\ m <= shown'
      <3>1. m \in inbox /\ m <= shown /\ m \in Nat
        BY <2>1 DEF Inv, DeliveryInv, DeliveredIsShown, Event
      <3>2. QED BY <1>2, <1>6, <1>9, <3>1
    <2>2. QED BY <1>4, <2>1 DEF DeliveredIsShown
  <1>15. QED BY <1>4, <1>8, <1>11, <1>12, <1>13, <1>14 DEF Inv, DeliveryInv

-----------------------------------------------------------------------------
(* The steps on the site database, and time.                               *)

LEMMA InvPause == ASSUME Inv, Pause PROVE Inv'
  <1>1. TypeOK'
    BY DEF Pause, studio, site, Inv, TypeOK
  <1>2. DeliveryInv'
    BY DEF Pause, studio, site, Inv, DeliveryInv, ContentInv, JobInv, DeliveredIsShown
  <1>3. QED BY <1>1, <1>2 DEF Inv

LEMMA InvTick == ASSUME Inv, Tick PROVE Inv'
  <1>1. \A k \in Nat : Less(k) \in Nat
    BY DEF Less
  <1>2. lease' \in [Event -> Nat] /\ nextAt' \in [Event -> Nat]
    BY <1>1 DEF Tick, Inv, TypeOK
  <1>3. UNCHANGED <<published, status, attempts, holder, created, inbox, applied,
                    shown, paused, backup, job, faults, restores>>
    BY DEF Tick, site
  <1>4. TypeOK'
    BY <1>2, <1>3 DEF Inv, TypeOK
  <1>5. DeliveryInv'
    BY <1>3 DEF Inv, DeliveryInv, ContentInv, JobInv, DeliveredIsShown
  <1>6. QED BY <1>4, <1>5 DEF Inv

LEMMA InvBackup == ASSUME Inv, Backup PROVE Inv'
  <1>1. /\ backup' = [inbox |-> inbox, applied |-> applied, shown |-> shown]
        /\ UNCHANGED <<published, status, attempts, nextAt, lease, holder, created,
                       inbox, applied, shown, paused, job, faults, restores>>
    BY DEF Backup, studio, site
  <1>2. backup' \in Content
    BY <1>1 DEF Content, Inv, TypeOK
  <1>3. TypeOK'
    BY <1>1, <1>2 DEF Inv, TypeOK
  <1>4. DeliveryInv'
    BY <1>1 DEF Inv, DeliveryInv, ContentInv, JobInv, DeliveredIsShown
  <1>5. QED BY <1>3, <1>4 DEF Inv

LEMMA InvRestore == ASSUME Inv, Restore PROVE Inv'
  <1>1. /\ inbox' = backup.inbox /\ applied' = backup.applied /\ shown' = backup.shown
        /\ paused' = FALSE /\ restores' = restores + 1 /\ restores < MaxRestores
        /\ UNCHANGED <<published, status, attempts, nextAt, lease, holder, created,
                       backup, job, faults>>
    BY DEF Restore, studio
  <1>2. restores' \in 0..MaxRestores /\ restores' # 0
    BY <1>1, DeliveryAssumption DEF Inv, TypeOK
  <1>3. /\ backup.inbox \in SUBSET Event /\ backup.applied \in SUBSET Event
        /\ backup.shown \in 0..Last
    BY DEF Inv, TypeOK, Content
  <1>4. TypeOK'
    BY <1>1, <1>2, <1>3 DEF Inv, TypeOK
  <1>5. ContentInv([inbox |-> inbox, applied |-> applied, shown |-> shown])'
    BY <1>1 DEF Inv, DeliveryInv, ContentInv
  <1>6. ContentInv(backup)'
    BY <1>1 DEF Inv, DeliveryInv, ContentInv
  <1>7. JobInv' /\ DeliveredIsShown'
    BY <1>1, <1>2 DEF Inv, DeliveryInv, JobInv, DeliveredIsShown
  <1>8. \A n \in Event : status'[n] # "absent" <=> n <= published'
    BY <1>1 DEF Inv, DeliveryInv
  <1>9. QED BY <1>4, <1>5, <1>6, <1>7, <1>8 DEF Inv, DeliveryInv

LEMMA InvAdvance ==
  ASSUME Inv, NEW c \in Coordinator, Advance(c) \/ Fault(c) PROVE Inv'
  <1>1. faults \in 0..MaxFaults
    BY DEF Inv, TypeOK
  <1>2. CASE Check(c)
    BY <1>2, InvCheck
  <1>3. CASE CheckFails(c) \/ Refuse(c)
    <2>1. job[c] # Idle
      <3>1. job[c].stage = "claimed"
        BY <1>3 DEF CheckFails, Refuse
      <3>2. QED BY <3>1 DEF Idle
    <2>2. faults' \in 0..MaxFaults
      BY <1>1, <1>3 DEF CheckFails, Refuse
    <2>3. QED BY <1>3, <2>1, <2>2, InvSettle DEF CheckFails, Refuse
  <1>4. CASE Throw(c)
    <2>1. faults' \in 0..MaxFaults
      BY <1>1, <1>4, DeliveryAssumption DEF Throw
    <2>2. QED BY <1>4, <2>1, InvSettle DEF Throw
  <1>5. CASE Apply(c)
    BY <1>5, InvApply
  <1>6. CASE Mark(c)
    BY <1>6, InvMark
  <1>7. CASE Vanish(c)
    BY <1>7, InvVanish
  <1>8. QED BY <1>2, <1>3, <1>4, <1>5, <1>6, <1>7 DEF Advance, Fault

LEMMA InvNext == ASSUME Inv, [Next]_vars PROVE Inv'
  <1>1. CASE Publish \/ Pause \/ Backup \/ Restore \/ Tick
    BY <1>1, InvPublish, InvPause, InvBackup, InvRestore, InvTick
  <1>2. ASSUME NEW c \in Coordinator, Poll(c) \/ Advance(c) \/ Fault(c) PROVE Inv'
    BY <1>2, InvPoll, InvAdvance
  <1>3. CASE UNCHANGED vars
    <2>1. TypeOK'
      BY <1>3 DEF vars, studio, site, Inv, TypeOK
    <2>2. DeliveryInv'
      BY <1>3 DEF vars, studio, site, Inv, DeliveryInv, ContentInv, JobInv, DeliveredIsShown
    <2>3. QED BY <2>1, <2>2 DEF Inv
  <1>4. QED BY <1>1, <1>2, <1>3 DEF Next

\* The inductive invariant: what the site and its backup hold was published and
\* the newest publication applied is the one shown, every job works on a
\* published event, and a committed job's event is in the inbox.
THEOREM DeliveryInvariant == Spec => []Inv
  <1>1. QED BY InvInit, InvNext, PTL DEF Spec

\* Every row, job and content of the two databases stays in its type, for every
\* number of publications, coordinators, attempts, faults and restores.
THEOREM DeliveryTypeCorrect == Spec => []TypeOK
  <1>1. Inv => TypeOK
    BY DEF Inv
  <1>2. QED BY <1>1, DeliveryInvariant, PTL

\* Until a restore, an event marked delivered is in the inbox of the site, which
\* shows it or a newer publication, whichever coordinators die or overrun.
THEOREM DeliveredCorrect == Spec => []DeliveredIsShown
  <1>1. Inv => DeliveredIsShown
    BY DEF Inv, DeliveryInv
  <1>2. QED BY <1>1, DeliveryInvariant, PTL

-----------------------------------------------------------------------------
(* Implementation of the register.                                         *)

LEMMA RegisterInit == Init => Register!Init
  BY DEF Init, Register!Init

LEMMA RegisterNext ==
  ASSUME Inv, [Next]_vars
  PROVE  [Register!Next]_<<published, shown, backup.shown>>
  <1>1. CASE Publish
    BY <1>1 DEF Publish, site, Register!Next, Register!Publish
  <1>2. CASE Backup
    BY <1>2 DEF Backup, studio, site, Register!Next, Register!Save
  <1>3. CASE Restore
    BY <1>3 DEF Restore, studio, Register!Next, Register!Restore
  <1>4. CASE Pause \/ Tick \/ UNCHANGED vars
    BY <1>4 DEF Pause, Tick, vars, studio, site
  <1>5. ASSUME NEW c \in Coordinator, Apply(c)
        PROVE  [Register!Next]_<<published, shown, backup.shown>>
    <2>1. published' = published /\ backup' = backup
      BY <1>5 DEF Apply, studio
    <2>2. job[c].event \in Event /\ job[c].event <= published
      BY <1>5, ApplyFacts
    <2>3. shown' = shown \/ (shown' = job[c].event /\ shown < job[c].event)
      BY <1>5, ApplyFacts
    <2>4. CASE shown' = shown
      BY <2>1, <2>4
    <2>5. CASE shown' = job[c].event /\ shown < job[c].event
      <3>1. shown \in Nat /\ published \in Nat /\ job[c].event \in Nat
        BY <2>2, DeliveryAssumption DEF Inv, TypeOK, Event
      <3>2. shown' \in (shown + 1)..published
        BY <2>2, <2>5, <3>1
      <3>3. QED BY <2>1, <3>2 DEF Register!Next, Register!Show
    <2>6. QED BY <2>3, <2>4, <2>5
  <1>6. ASSUME NEW c \in Coordinator, Poll(c)
        PROVE  UNCHANGED <<published, shown, backup>>
    BY <1>6 DEF Poll, ClaimNothing, Claim, site
  <1>7. ASSUME NEW c \in Coordinator,
               Check(c) \/ CheckFails(c) \/ Refuse(c) \/ Mark(c) \/ Fault(c)
        PROVE  UNCHANGED <<published, shown, backup>>
    BY <1>7 DEF Check, CheckFails, Refuse, Mark, Fault, Throw, Vanish, Settle, studio, site
  <1>8. ASSUME NEW c \in Coordinator, Poll(c) \/ Advance(c) \/ Fault(c)
        PROVE  [Register!Next]_<<published, shown, backup.shown>>
    BY <1>5, <1>6, <1>7, <1>8 DEF Advance
  <1>9. QED BY <1>1, <1>2, <1>3, <1>4, <1>8 DEF Next

\* Delivery implements the register: through every interleaving, loss and
\* repetition the site only moves to newer publications that were made, and a
\* restore brings back what the backup showed and nothing else.
THEOREM DeliveryImplementsRegister == Spec => RegisterSpec
  <1>1. Spec => Register!Init /\ [][Register!Next]_<<published, shown, backup.shown>>
    BY RegisterInit, RegisterNext, DeliveryInvariant, PTL DEF Spec
  <1>2. QED BY <1>1 DEF RegisterSpec, Register!Spec
=============================================================================
