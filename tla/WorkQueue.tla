----------------------------- MODULE WorkQueue -----------------------------
(***************************************************************************)
(* The durable work queue of server/workQueue.ts: rows of work_items in a  *)
(* shared SQLite file, and the coordinators (instances of class WorkQueue) *)
(* that claim, execute and settle them.                                    *)
(*                                                                         *)
(* A database transaction or a synchronous stretch of JavaScript is one    *)
(* step.  Time is kept as the time that is LEFT: lease[i] stands for       *)
(* max(0, lease_until - now), nextAt[i] for max(0, next_at - now) and      *)
(* deadline[i] for max(0, deadline - now), so every comparison of the code *)
(* with now() is a comparison with 0 and the state stays finite without a  *)
(* last instant.  Tick lets one unit of time pass.                         *)
(***************************************************************************)
EXTENDS Naturals, FiniteSets

CONSTANTS
  Item,           \* work items, each one (organization, kind, request key)
  Org,            \* organizations
  OrgOf,          \* [Item -> Org]
  PoolOf,         \* [Item -> Pool]
  Manual,         \* the items enqueued with recovery = manual
  MaxAttempts,    \* [Item -> Nat], max_attempts of each item
  Worker,         \* coordinators that share the database file
  MaxRunning,     \* concurrency all of them are configured with
  TotalCap,       \* waiting and running rows enqueue admits (2000)
  OrgRunningCap,  \* largest max_running limits() accepts (16)
  OrgWaitingCap,  \* largest max_waiting limits() accepts (1000)
  InitialWaiting, \* max_waiting of an organization nobody configured (100)
  PoolChoice,     \* pool limits an operator may configure
  LeaseTtl,       \* lease length in ticks (30 s)
  Deadlines,      \* time to the deadline an item may be enqueued with
  Delays,         \* time to the first start it may be enqueued with
  Backoff,        \* [attempts -> ticks], min(3600 s, 2^attempts s)
  Token,          \* lease tokens; a finite supply bounds live executions
  NoToken,        \* the NULL of lease_token and of the running map
  MaxStops        \* bound: how often coordinators close or crash

Pool == {"standard", "cpu", "io", "recovery"}
Status == {"absent", "waiting", "running", "succeeded",
           "failed", "cancelled", "unknown"}
Settled == {"succeeded", "failed", "cancelled", "unknown"}

\* The pool limits of a fresh database.
InitialPools ==
  [p \in Pool |-> IF p = "recovery" \/ (p = "cpu" /\ MaxRunning = 1) THEN 1
                  ELSE IF p = "cpu" THEN 2 ELSE MaxRunning]

ASSUME StaticAssumption ==
  /\ IsFiniteSet(Item) /\ IsFiniteSet(Token)
  /\ OrgOf \in [Item -> Org] /\ PoolOf \in [Item -> Pool]
  /\ Manual \subseteq Item
  /\ MaxAttempts \in [Item -> 1..10]
  /\ NoToken \notin Token

ASSUME LimitAssumption ==
  /\ MaxRunning \in Nat \ {0} /\ TotalCap \in Nat \ {0}
  /\ OrgRunningCap \in Nat \ {0} /\ OrgWaitingCap \in Nat \ {0}
  /\ InitialWaiting \in 1..OrgWaitingCap
  /\ PoolChoice \subseteq [Pool -> 1..MaxRunning]

ASSUME TimeAssumption ==
  /\ LeaseTtl \in Nat \ {0}
  /\ Deadlines \subseteq Nat \ {0} /\ Delays \subseteq Nat
  /\ Backoff \in [1..10 -> Nat]
  /\ MaxStops \in Nat

VARIABLES
  \* the database
  status, attempts, nextAt, lease, token, deadline, result,
  cancelRequested,  \* the items whose cancel_requested is 1
  limits,     \* [Org -> max_running and max_waiting]
  pools,      \* [Pool -> limit], the body of system_worker_policy
  \* the coordinators' memory
  execs,      \* executions: calls of processOne between claim and settlement
  ctl,        \* [Worker -> [Item -> Token]], the map `running` of controllers
  wstate,     \* [Worker -> "up", "draining", "closed" or "down"]
  stops       \* how many closes and crashes have happened

row == <<status, attempts, nextAt, lease, token, cancelRequested, deadline,
         result>>
policy == <<limits, pools>>
memory == <<execs, ctl, wstate, stops>>
vars == <<row, policy, memory>>

Execution == [item: Item, worker: Worker, token: Token, attempt: Nat,
              stage: {"running", "aborted"}]

TypeOK ==
  /\ status \in [Item -> Status]
  /\ attempts \in [Item -> Nat]
  /\ nextAt \in [Item -> Nat]
  /\ lease \in [Item -> Nat]
  /\ token \in [Item -> Token \cup {NoToken}]
  /\ cancelRequested \subseteq Item
  /\ deadline \in [Item -> Nat]
  /\ result \in [Item -> Nat]
  /\ limits \in [Org -> [running: 1..OrgRunningCap, waiting: 1..OrgWaitingCap]]
  /\ pools \in [Pool -> 1..MaxRunning]
  /\ execs \subseteq Execution
  /\ ctl \in [Worker -> [Item -> Token \cup {NoToken}]]
  /\ wstate \in [Worker -> {"up", "draining", "closed", "down"}]
  /\ stops \in Nat

Init ==
  /\ status = [i \in Item |-> "absent"]
  /\ attempts = [i \in Item |-> 0]
  /\ nextAt = [i \in Item |-> 0]
  /\ lease = [i \in Item |-> 0]
  /\ token = [i \in Item |-> NoToken]
  /\ cancelRequested = {}
  /\ deadline = [i \in Item |-> 0]
  /\ result = [i \in Item |-> 0]
  /\ limits = [o \in Org |-> [running |-> 1, waiting |-> InitialWaiting]]
  /\ pools = InitialPools
  /\ execs = {}
  /\ ctl = [w \in Worker |-> [i \in Item |-> NoToken]]
  /\ wstate = [w \in Worker |-> "up"]
  /\ stops = 0

-----------------------------------------------------------------------------
(* Reading the table.  st is a status function: claim() reads it after its *)
(* own updates, inside the same transaction.                               *)

InStatus(st, o, S) == {i \in Item : OrgOf[i] = o /\ st[i] \in S}
RunningIn(st) == {i \in Item : st[i] = "running"}
\* The rows claim counts: running, and the lease has not run out.
LiveIn(st) == {i \in RunningIn(st) : lease[i] > 0}

\* enqueue: limited by the organization's waiting rows and by all open rows.
\* A repeated request key finds its row and changes nothing.
Enqueue(i) ==
  /\ status[i] = "absent"
  /\ Cardinality(InStatus(status, OrgOf[i], {"waiting"}))
       < limits[OrgOf[i]].waiting
  /\ Cardinality({j \in Item : status[j] \in {"waiting", "running"}}) < TotalCap
  /\ status' = [status EXCEPT ![i] = "waiting"]
  /\ \E d \in Deadlines : deadline' = [deadline EXCEPT ![i] = d]
  /\ \E n \in Delays : nextAt' = [nextAt EXCEPT ![i] = n]
  /\ UNCHANGED <<attempts, lease, token, cancelRequested, result, policy,
                 memory>>

-----------------------------------------------------------------------------
(* claim, first part: rows whose lease ran out are taken from their worker,*)
(* then waiting rows past their deadline fail.                             *)

\* defects: lapsed rows are left alone, all of them or the manual ones
LapsedNever(i) == FALSE
LapsedUnlessManual(i) == status[i] = "running" /\ lease[i] = 0 /\ i \notin Manual

Lapsed(i) == status[i] = "running" /\ lease[i] = 0

\* defects: cancellation is looked at first; attempts are not counted; a
\* status the table does not know
AfterLapseCancelFirst(i) ==
  IF i \in cancelRequested THEN "cancelled"
  ELSE IF i \in Manual THEN "unknown"
  ELSE IF attempts[i] >= MaxAttempts[i] THEN "failed" ELSE "waiting"
AfterLapseUncounted(i) ==
  IF i \in Manual THEN "unknown"
  ELSE IF i \in cancelRequested THEN "cancelled" ELSE "waiting"
AfterLapseInterrupted(i) == IF i \in Manual THEN "unknown" ELSE "interrupted"

AfterLapse(i) ==
  IF i \in Manual THEN "unknown"
  ELSE IF i \in cancelRequested THEN "cancelled"
  ELSE IF attempts[i] >= MaxAttempts[i] THEN "failed" ELSE "waiting"

Reclaimed(i) == IF Lapsed(i) THEN AfterLapse(i) ELSE status[i]

Swept == [i \in Item |-> IF Reclaimed(i) = "waiting" /\ deadline[i] = 0
                         THEN "failed" ELSE Reclaimed(i)]

SweptToken == [i \in Item |-> IF Lapsed(i) THEN NoToken ELSE token[i]]

(* claim, second part: which waiting rows may start.                       *)

\* defect: the organization's share is not looked at
CandidatesOfAnyOrg(st) == {i \in Item : st[i] = "waiting" /\ nextAt[i] = 0}

Candidates(st) ==
  {i \in Item : /\ st[i] = "waiting" /\ nextAt[i] = 0
                /\ Cardinality({j \in LiveIn(st) : OrgOf[j] = OrgOf[i]})
                     < limits[OrgOf[i]].running}

Eligible(st) ==
  {i \in Candidates(st) :
     Cardinality({j \in LiveIn(st) : PoolOf[j] = PoolOf[i]}) < pools[PoolOf[i]]}

\* The last slot goes to recovery work whenever some is eligible.
Prioritized(st) ==
  LET recovery == {i \in Eligible(st) : PoolOf[i] = "recovery"}
  IN  IF /\ recovery # {} /\ MaxRunning > 1
         /\ Cardinality(LiveIn(st)) >= MaxRunning - 1
      THEN recovery ELSE Eligible(st)

Startable(st) ==
  IF Cardinality(LiveIn(st)) >= MaxRunning THEN {} ELSE Prioritized(st)

\* defect: a token some execution still holds is handed out again
TokenOffTable == Token \ {token[i] : i \in Item}

FreshToken ==
  Token \ ({e.token : e \in execs} \cup {token[i] : i \in Item})

LocalSize(w) == Cardinality({i \in Item : ctl[w][i] # NoToken})

\* An abort rejects the race of processOne at once: the executions it hit are
\* settled before the event loop of that process turns to anything else.
Quiet(w) == \A e \in execs : e.worker = w => e.stage = "running"

\* The worker timer polls only below its own limit and before close().
Polls(w) == wstate[w] = "up" /\ Quiet(w) /\ LocalSize(w) < MaxRunning

\* claim finds nothing to start; what it swept is committed all the same.
ClaimNothing(w) ==
  /\ Polls(w) /\ Startable(Swept) = {}
  /\ status' = Swept /\ token' = SweptToken
  /\ UNCHANGED <<attempts, nextAt, lease, cancelRequested, deadline, result,
                 policy, memory>>

\* claim starts row i and processOne registers its controller.  Which of the
\* startable rows it is (age, weight, organization order) is left open.
Start(w, i, t) ==
  /\ Polls(w) /\ i \in Startable(Swept) /\ t \in FreshToken
  /\ status' = [Swept EXCEPT ![i] = "running"]
  /\ token' = [SweptToken EXCEPT ![i] = t]
  /\ attempts' = [attempts EXCEPT ![i] = @ + 1]
  /\ lease' = [lease EXCEPT ![i] = LeaseTtl]
  /\ execs' = execs \cup {[item |-> i, worker |-> w, token |-> t,
                           attempt |-> attempts[i] + 1, stage |-> "running"]}
  /\ ctl' = [ctl EXCEPT ![w][i] = t]
  /\ UNCHANGED <<nextAt, cancelRequested, deadline, result, policy, wstate,
                 stops>>

-----------------------------------------------------------------------------
(* An execution.  Current(e) is the guard every statement on the row       *)
(* carries: running, this token, lease not run out.                        *)

Current(e) == /\ status[e.item] = "running" /\ token[e.item] = e.token
              /\ lease[e.item] > 0

Abort(S) == {IF e \in S THEN [e EXCEPT !.stage = "aborted"] ELSE e : e \in execs}

\* Every 5 s: assertCurrent, then renew; any failure aborts the controller.
Heartbeat(e) ==
  /\ Quiet(e.worker)
  /\ IF Current(e) /\ e.item \notin cancelRequested
     THEN /\ lease' = [lease EXCEPT ![e.item] = LeaseTtl]
          /\ UNCHANGED execs
     ELSE /\ execs' = Abort({e})
          /\ UNCHANGED lease
  /\ UNCHANGED <<status, attempts, nextAt, token, cancelRequested, deadline,
                 result, policy, ctl, wstate, stops>>

\* The finally block of processOne: the map entry goes by item id.
Forget(e) ==
  /\ execs' = execs \ {e}
  /\ ctl' = [ctl EXCEPT ![e.worker][e.item] = NoToken]

\* defect: complete() settles any running row of the item
CompleteUnfenced(e) ==
  /\ Quiet(e.worker)
  /\ IF status[e.item] = "running"
     THEN /\ status' = [status EXCEPT ![e.item] = "succeeded"]
          /\ result' = [result EXCEPT ![e.item] = e.attempt]
          /\ token' = [token EXCEPT ![e.item] = NoToken]
          /\ lease' = [lease EXCEPT ![e.item] = 0]
     ELSE UNCHANGED <<status, result, token, lease>>
  /\ Forget(e)
  /\ UNCHANGED <<attempts, nextAt, cancelRequested, deadline, policy, wstate,
                 stops>>

\* The handler resolved first: complete(), whatever cancel_requested says.
Complete(e) ==
  /\ Quiet(e.worker)
  /\ IF Current(e)
     THEN /\ status' = [status EXCEPT ![e.item] = "succeeded"]
          /\ result' = [result EXCEPT ![e.item] = e.attempt]
          /\ token' = [token EXCEPT ![e.item] = NoToken]
          /\ lease' = [lease EXCEPT ![e.item] = 0]
     ELSE UNCHANGED <<status, result, token, lease>>
  /\ Forget(e)
  /\ UNCHANGED <<attempts, nextAt, cancelRequested, deadline, policy, wstate,
                 stops>>

\* What fail() makes of the row of item i.  unconfirmed stands for the codes
\* that leave an external result unknown, temporary for the retryable ones,
\* fatal for all others (WORK_DEADLINE is one), cancelled for WORK_CANCELLED.
\*
\* defect: a retryable failure is queued again before the cancel is looked at
AfterFailureRetryFirst(i, code) ==
  IF i \in Manual \/ code = "unconfirmed" THEN "unknown"
  ELSE IF code = "temporary" /\ attempts[i] < MaxAttempts[i] THEN "waiting"
  ELSE IF i \in cancelRequested \/ code = "cancelled" THEN "cancelled" ELSE "failed"

AfterFailure(i, code) ==
  IF i \in Manual \/ code = "unconfirmed" THEN "unknown"
  ELSE IF i \in cancelRequested \/ code = "cancelled" THEN "cancelled"
  ELSE IF code = "temporary" /\ attempts[i] < MaxAttempts[i] THEN "waiting"
  ELSE "failed"

Fail(e, code) ==
  /\ IF Current(e)
     THEN /\ status' = [status EXCEPT ![e.item] = AfterFailure(e.item, code)]
          /\ nextAt' = [nextAt EXCEPT ![e.item] = Backoff[attempts[e.item]]]
          /\ token' = [token EXCEPT ![e.item] = NoToken]
          /\ lease' = [lease EXCEPT ![e.item] = 0]
     ELSE UNCHANGED <<status, nextAt, token, lease>>
  /\ Forget(e)
  /\ UNCHANGED <<attempts, cancelRequested, deadline, result, policy, wstate,
                 stops>>

HandlerFails(e) ==
  /\ Quiet(e.worker)
  /\ \E code \in {"temporary", "unconfirmed", "fatal"} : Fail(e, code)
AbortSettles(e) == e.stage = "aborted" /\ Fail(e, "cancelled")
\* The deadline timer wins the race and the handler is left to itself.
BudgetEnds(e) ==
  Quiet(e.worker) /\ deadline[e.item] = 0 /\ Fail(e, "fatal")

\* The settling statement itself throws (database busy or closed): only the
\* finally block runs, the row keeps its lease until it runs out.
SettleLost(e) ==
  /\ Quiet(e.worker) \/ e.stage = "aborted"
  /\ Forget(e)
  /\ UNCHANGED <<row, policy, wstate, stops>>

-----------------------------------------------------------------------------
(* Operators and the process.                                              *)

\* cancel() on coordinator w aborts whatever its own map holds for the item.
Cancel(w, i) ==
  /\ wstate[w] = "up" /\ Quiet(w) /\ status[i] # "absent"
  /\ IF status[i] \in {"waiting", "running"}
     THEN /\ cancelRequested' = cancelRequested \cup {i}
          /\ status' = [status EXCEPT ![i] =
                          IF @ = "waiting" THEN "cancelled" ELSE @]
     ELSE UNCHANGED <<cancelRequested, status>>
  /\ execs' = Abort({e \in execs : /\ e.worker = w /\ e.item = i
                                   /\ e.token = ctl[w][i]})
  /\ UNCHANGED <<attempts, nextAt, lease, token, deadline, result, policy,
                 ctl, wstate, stops>>

\* defect: a retry is not counted against the waiting limit
RetryUncounted(i, confirmedUnknown) ==
  /\ status[i] \in {"failed", "cancelled", "unknown"}
  /\ status[i] = "unknown" => confirmedUnknown
  /\ status' = [status EXCEPT ![i] = "waiting"]
  /\ cancelRequested' = cancelRequested \ {i}
  /\ attempts' = [attempts EXCEPT ![i] = 0]
  /\ nextAt' = [nextAt EXCEPT ![i] = 0]
  /\ UNCHANGED <<lease, token, deadline, result, policy, memory>>

Retry(i, confirmedUnknown) ==
  /\ status[i] \in {"failed", "cancelled", "unknown"}
  /\ status[i] = "unknown" => confirmedUnknown
  /\ Cardinality(InStatus(status, OrgOf[i], {"waiting"}))
       < limits[OrgOf[i]].waiting
  /\ status' = [status EXCEPT ![i] = "waiting"]
  /\ cancelRequested' = cancelRequested \ {i}
  /\ attempts' = [attempts EXCEPT ![i] = 0]
  /\ nextAt' = [nextAt EXCEPT ![i] = 0]
  /\ UNCHANGED <<lease, token, deadline, result, policy, memory>>

SetLimits(o) ==
  /\ \E r \in 1..OrgRunningCap, m \in 1..OrgWaitingCap :
       limits' = [limits EXCEPT ![o] = [running |-> r, waiting |-> m]]
  /\ UNCHANGED <<row, pools, memory>>

ConfigurePolicy ==
  /\ pools' \in PoolChoice
  /\ UNCHANGED <<row, limits, memory>>

Close(w) ==
  /\ wstate[w] = "up" /\ Quiet(w) /\ stops < MaxStops
  /\ wstate' = [wstate EXCEPT ![w] = "draining"]
  /\ execs' = Abort({e \in execs : /\ e.worker = w
                                   /\ e.token = ctl[w][e.item]})
  /\ stops' = stops + 1
  /\ UNCHANGED <<row, policy, ctl>>

\* close() resolves once the map is empty.
Drained(w) ==
  /\ wstate[w] = "draining" /\ Quiet(w) /\ LocalSize(w) = 0
  /\ wstate' = [wstate EXCEPT ![w] = "closed"]
  /\ UNCHANGED <<row, policy, execs, ctl, stops>>

\* The process is gone, and its memory with it.
Vanish(w) ==
  /\ wstate' = [wstate EXCEPT ![w] = "down"]
  /\ execs' = {e \in execs : e.worker # w}
  /\ ctl' = [ctl EXCEPT ![w] = [i \in Item |-> NoToken]]
  /\ UNCHANGED <<row, policy>>

\* After close() the server exits; on WORK_DRAIN_TIMEOUT it dies undrained.
Exit(w) == wstate[w] \in {"draining", "closed"} /\ Vanish(w) /\ UNCHANGED stops
Crash(w) == /\ wstate[w] = "up" /\ stops < MaxStops
            /\ Vanish(w) /\ stops' = stops + 1
Restart(w) == /\ wstate[w] = "down"
              /\ wstate' = [wstate EXCEPT ![w] = "up"]
              /\ UNCHANGED <<row, policy, execs, ctl, stops>>

Less(n) == IF n = 0 THEN 0 ELSE n - 1

Tick ==
  /\ \E i \in Item : lease[i] > 0 \/ nextAt[i] > 0 \/ deadline[i] > 0
  /\ lease' = [i \in Item |-> Less(lease[i])]
  /\ nextAt' = [i \in Item |-> Less(nextAt[i])]
  /\ deadline' = [i \in Item |-> Less(deadline[i])]
  /\ UNCHANGED <<status, attempts, token, cancelRequested, result, policy,
                 memory>>

-----------------------------------------------------------------------------

Claim(w) == ClaimNothing(w) \/ \E i \in Item, t \in Token : Start(w, i, t)

\* What processOne itself brings about, whatever the handler does.
Settle(e) == AbortSettles(e) \/ BudgetEnds(e)

Execute(e) == \/ Heartbeat(e) \/ Complete(e) \/ HandlerFails(e) \/ Settle(e)
              \/ SettleLost(e)

Operate ==
  \/ \E i \in Item : Enqueue(i)
  \/ \E i \in Item, c \in BOOLEAN : Retry(i, c)
  \/ \E w \in Worker, i \in Item : Cancel(w, i)
  \/ \E o \in Org : SetLimits(o)
  \/ ConfigurePolicy

Process(w) == Claim(w) \/ Close(w) \/ Drained(w) \/ Exit(w) \/ Crash(w)
              \/ Restart(w)

Next == \/ Operate
        \/ \E w \in Worker : Process(w)
        \/ \E e \in execs : Execute(e)
        \/ Tick

Spec == Init /\ [][Next]_vars

(* Timers fire and a stopped coordinator is started again.  Heartbeats,    *)
(* handlers and operators owe nothing; lost settlements are made up for by *)
(* the lease.                                                              *)
Fairness ==
  /\ WF_vars(Tick)
  /\ \A w \in Worker :
       WF_vars(Claim(w)) /\ WF_vars(Drained(w) \/ Exit(w)) /\ WF_vars(Restart(w))
  /\ \A t \in Token : WF_vars(\E e \in execs : e.token = t /\ Settle(e))

FairSpec == Spec /\ Fairness

-----------------------------------------------------------------------------
(* Properties                                                              *)

\* Rows marked running, dead workers' rows included, never outnumber the
\* configured concurrency nor an organization's largest share of it: claim
\* takes lapsed rows back before it counts (workQueue.ts:82-85).
RunningBounded ==
  /\ Cardinality(RunningIn(status)) <= MaxRunning
  /\ \A o \in Org :
       Cardinality(InStatus(status, o, {"running"})) <= OrgRunningCap

\* Rows that fall back to waiting pass no admission check, yet the backlog of
\* an organization stays within what it may hold waiting and running together.
RunningShare == IF OrgRunningCap < MaxRunning THEN OrgRunningCap ELSE MaxRunning
BacklogBounded ==
  \A o \in Org : Cardinality(InStatus(status, o, {"waiting", "running"}))
                  <= OrgWaitingCap + RunningShare

\* A claim never takes its organization or its pool beyond the limits in
\* force, however many leases lapsed and whoever changed the limits meanwhile.
ClaimWithinLimits ==
  [][\A i \in Item : attempts'[i] > attempts[i] =>
       /\ Cardinality(InStatus(status', OrgOf[i], {"running"}))
            <= limits[OrgOf[i]].running
       /\ Cardinality({j \in Item : status'[j] = "running" /\ PoolOf[j] = PoolOf[i]})
            <= pools[PoolOf[i]]]_vars

\* A manual item that was started is running, done or of unknown outcome: no
\* cancel, crash, lapse or deadline sends it back to the queue before an
\* operator confirmed the outcome (docs/expansion-implementation.md:48).
ManualOutcomeHeld ==
  \A i \in Manual : attempts[i] > 0 => status[i] \in {"running", "succeeded", "unknown"}

\* An accepted cancellation outlives the worker it was meant for: the item is
\* not queued again until someone retries it.
CancelledNeverRequeued ==
  \A i \in Item : i \in cancelRequested => status[i] # "waiting"

\* No interleaving of lapses, failures and claims runs an item more often
\* than max_attempts per retry.
AttemptsBounded ==
  \A i \in Item : /\ attempts[i] <= MaxAttempts[i]
                  /\ status[i] = "waiting" => attempts[i] < MaxAttempts[i]

\* The stored result is the one of the attempt the row counts last, never that
\* of a superseded worker that finished late (docs/expansion-plan.md:65).
ResultOfLatestAttempt ==
  \A i \in Item : status[i] = "succeeded" => result[i] = attempts[i]

\* At most one execution of an item passes assertCurrent, across coordinators
\* and across restarts (docs/deployment.md:35).
SingleCurrentExecution ==
  \A e, f \in execs : /\ e.item = f.item
                       /\ Current(e) /\ Current(f) => e = f

\* What makes the row invariants inductive: a row holds a token only while it
\* runs, and the counters of a row fit its status.
RowInv ==
  \A i \in Item :
    /\ attempts[i] <= MaxAttempts[i]
    /\ status[i] = "absent" => attempts[i] = 0 /\ i \notin cancelRequested
    /\ status[i] = "waiting" => attempts[i] < MaxAttempts[i]
    /\ status[i] = "running" => attempts[i] > 0
    /\ i \in Manual /\ attempts[i] > 0 =>
         status[i] \in {"running", "succeeded", "unknown"}
    /\ i \in cancelRequested => status[i] # "waiting"
    /\ token[i] # NoToken => status[i] = "running"

\* A token belongs to one execution; the execution whose token a row carries
\* is one of that row's latest attempt.
TokenInv ==
  /\ \A e, f \in execs : e.token = f.token => e = f
  /\ \A e \in execs, i \in Item :
       token[i] = e.token => e.item = i /\ e.attempt = attempts[i]

\* When close() has resolved, its process runs no execution any more: that is
\* what WORK_DRAIN_TIMEOUT is thrown for otherwise (workQueue.ts:157).
DrainedMeansIdle ==
  \A w \in Worker : wstate[w] = "closed" => \A e \in execs : e.worker # w

\* An item scheduled for later is not failed before its time: schedules up to a
\* year ahead are accepted (server/expansion/reviews.ts:53) and approved ones
\* are to be carried out (docs/system-advancement-plan.md:271).
ScheduleHonoured ==
  \A i \in Item : status[i] = "failed" => attempts[i] > 0 \/ nextAt[i] = 0

\* Every queued item is settled sooner or later, even when its handler never
\* returns, its worker dies or other items are retried for ever.
EventuallySettled ==
  \A i \in Item : status[i] \in {"waiting", "running"} ~> status[i] \in Settled
=============================================================================
