-------------------------- MODULE WorkQueueProofs --------------------------
(***************************************************************************)
(* Proofs about WorkQueue, for every value of its constants.               *)
(***************************************************************************)
EXTENDS WorkQueue, FiniteSetTheorems, TLAPS

-----------------------------------------------------------------------------
(* Facts about single operators.                                           *)

\* The numbers a row carries are numbers.
LEMMA RowTypes ==
  ASSUME TypeOK, NEW i \in Item
  PROVE  /\ attempts[i] \in Nat /\ MaxAttempts[i] \in 1..10
         /\ lease[i] \in Nat /\ nextAt[i] \in Nat /\ deadline[i] \in Nat
         /\ status[i] \in Status /\ token[i] \in Token \cup {NoToken}
  BY StaticAssumption DEF TypeOK

\* A row claim takes back goes to an end, or to waiting with attempts left.
LEMMA LapseFacts ==
  ASSUME TypeOK, RowInv, NEW i \in Item, Lapsed(i)
  PROVE  /\ AfterLapse(i) \in {"unknown", "cancelled", "failed", "waiting"}
         /\ AfterLapse(i) = "waiting" =>
              /\ attempts[i] < MaxAttempts[i]
              /\ i \notin cancelRequested
              /\ i \notin Manual
         /\ i \in Manual => AfterLapse(i) = "unknown"
  BY RowTypes DEF AfterLapse

\* What claim sweeps stays a status; a row that waits afterwards still has
\* attempts left, is not cancelled and is no manual item that was started.
LEMMA SweepFacts ==
  ASSUME TypeOK, RowInv, NEW i \in Item
  PROVE  /\ Swept[i] \in Status
         /\ Swept[i] = "waiting" =>
              /\ attempts[i] < MaxAttempts[i]
              /\ i \notin cancelRequested
              /\ i \in Manual => attempts[i] = 0
         /\ Swept[i] = "running" => status[i] = "running" /\ lease[i] > 0
         /\ Swept[i] = "succeeded" <=> status[i] = "succeeded"
         /\ i \in Manual /\ attempts[i] > 0 =>
              Swept[i] \in {"running", "succeeded", "unknown"}
         /\ Swept[i] = "absent" => status[i] = "absent"
         /\ SweptToken[i] \in {token[i], NoToken}
         /\ SweptToken[i] # NoToken => Swept[i] = "running"
  <1>1. Swept[i] = IF Reclaimed(i) = "waiting" /\ deadline[i] = 0
                   THEN "failed" ELSE Reclaimed(i)
    BY DEF Swept
  <1>2. SweptToken[i] = IF Lapsed(i) THEN NoToken ELSE token[i]
    BY DEF SweptToken
  <1>3. CASE Lapsed(i)
    <2>1. Reclaimed(i) = AfterLapse(i)
      BY <1>3 DEF Reclaimed
    <2>2. status[i] = "running" /\ SweptToken[i] = NoToken
      BY <1>2, <1>3 DEF Lapsed
    <2>3. Swept[i] \in {"unknown", "cancelled", "failed", "waiting"}
      BY <1>1, <1>3, <2>1, LapseFacts
    <2>4. /\ Swept[i] = "waiting" => AfterLapse(i) = "waiting"
          /\ i \in Manual => Swept[i] = "unknown"
      BY <1>1, <1>3, <2>1, LapseFacts
    <2>5. QED
      BY <1>3, <2>2, <2>3, <2>4, LapseFacts DEF Status
  <1>4. CASE ~Lapsed(i)
    <2>1. Reclaimed(i) = status[i] /\ SweptToken[i] = token[i]
      BY <1>2, <1>4 DEF Reclaimed
    <2>2. status[i] = "running" => lease[i] > 0
      BY <1>4, RowTypes DEF Lapsed
    <2>3. /\ Swept[i] # status[i] => status[i] = "waiting" /\ Swept[i] = "failed"
          /\ status[i] # "waiting" => Swept[i] = status[i]
      BY <1>1, <2>1
    <2>4. i \in Manual /\ status[i] = "waiting" => attempts[i] = 0
      BY RowTypes DEF RowInv
    <2>5. QED
      BY <2>1, <2>2, <2>3, <2>4, RowTypes DEF RowInv, Status
  <1>5. QED BY <1>3, <1>4

\* Aborting changes the stage of executions and nothing else about them.
LEMMA AbortFacts ==
  ASSUME execs \subseteq Execution, NEW S
  PROVE  /\ Abort(S) \subseteq Execution
         /\ \A g \in Abort(S) : \E e \in execs :
              /\ g.item = e.item /\ g.worker = e.worker
              /\ g.token = e.token /\ g.attempt = e.attempt
  <1> DEFINE ab(e) == IF e \in S THEN [e EXCEPT !.stage = "aborted"] ELSE e
  <1>1. \A e \in execs : /\ ab(e) \in Execution
                         /\ ab(e).item = e.item /\ ab(e).worker = e.worker
                         /\ ab(e).token = e.token /\ ab(e).attempt = e.attempt
    BY DEF Execution
  <1>2. Abort(S) = {ab(e) : e \in execs}
    BY DEF Abort
  <1> HIDE DEF ab
  <1>3. QED BY <1>1, <1>2

\* The pool limits of a fresh database are within the concurrency.
LEMMA InitialPoolsType == InitialPools \in [Pool -> 1..MaxRunning]
  <1>1. MaxRunning \in Nat \ {0}
    BY LimitAssumption
  <1>2. SUFFICES ASSUME NEW p \in Pool PROVE InitialPools[p] \in 1..MaxRunning
    BY DEF InitialPools
  <1>3. InitialPools[p] = IF p = "recovery" \/ (p = "cpu" /\ MaxRunning = 1)
                          THEN 1 ELSE IF p = "cpu" THEN 2 ELSE MaxRunning
    BY DEF InitialPools
  <1>4. QED BY <1>1, <1>3

-----------------------------------------------------------------------------
(* Type correctness and the row invariants.  Each step says which part of  *)
(* the state it leaves alone and what it makes of the row it touches.      *)

Inv == TypeOK /\ RowInv

\* The part of TypeOK and RowInv a single row has to satisfy.
RowFits(i, st, at, tok, can) ==
  /\ at <= MaxAttempts[i]
  /\ st = "absent" => at = 0 /\ i \notin can
  /\ st = "waiting" => at < MaxAttempts[i]
  /\ st = "running" => at > 0
  /\ i \in Manual /\ at > 0 => st \in {"running", "succeeded", "unknown"}
  /\ i \in can => st # "waiting"
  /\ tok # NoToken => st = "running"

\* RowInv says that every row fits.
LEMMA RowInvIsFits ==
  RowInv <=> \A i \in Item : RowFits(i, status[i], attempts[i], token[i], cancelRequested)
  BY DEF RowInv, RowFits

LEMMA InvInit == Init => Inv
  <1> SUFFICES ASSUME Init PROVE Inv
    OBVIOUS
  <1>1. limits \in [Org -> [running: 1..OrgRunningCap, waiting: 1..OrgWaitingCap]]
    BY LimitAssumption DEF Init
  <1>2. pools \in [Pool -> 1..MaxRunning]
    BY InitialPoolsType DEF Init
  <1>3. TypeOK
    BY <1>1, <1>2 DEF Init, TypeOK, Status
  <1>4. RowInv
    BY RowTypes, <1>3 DEF Init, RowInv
  <1>5. QED BY <1>3, <1>4 DEF Inv

LEMMA InvClaimNothing ==
  ASSUME Inv, NEW w \in Worker, ClaimNothing(w)
  PROVE  Inv'
  <1> USE DEF Inv
  <1>1. \A i \in Item : status'[i] = Swept[i] /\ token'[i] = SweptToken[i]
    BY DEF ClaimNothing
  <1>2. UNCHANGED <<attempts, nextAt, lease, cancelRequested, deadline, result,
                    limits, pools, execs, ctl, wstate, stops>>
    BY DEF ClaimNothing, policy, memory
  <1>3. status' \in [Item -> Status]
    BY SweepFacts DEF ClaimNothing, Swept
  <1>4. token' \in [Item -> Token \cup {NoToken}]
    BY SweepFacts, RowTypes DEF ClaimNothing, SweptToken
  <1>5. TypeOK'
    BY <1>2, <1>3, <1>4 DEF TypeOK
  <1>6. ASSUME NEW i \in Item
        PROVE  RowFits(i, Swept[i], attempts[i], SweptToken[i], cancelRequested)
    BY SweepFacts, RowTypes, RowInvIsFits DEF RowFits, RowInv
  <1>7. RowInv'
    BY <1>1, <1>2, <1>6 DEF RowInv, RowFits
  <1>8. QED BY <1>5, <1>7

LEMMA InvStart ==
  ASSUME Inv, NEW w \in Worker, NEW i \in Item, NEW t \in Token, Start(w, i, t)
  PROVE  Inv'
  <1> USE DEF Inv
  <1>1. Swept[i] = "waiting"
    BY DEF Start, Startable, Prioritized, Eligible, Candidates
  <1>2. /\ status' = [Swept EXCEPT ![i] = "running"]
        /\ token' = [SweptToken EXCEPT ![i] = t]
        /\ attempts' = [attempts EXCEPT ![i] = @ + 1]
        /\ lease' = [lease EXCEPT ![i] = LeaseTtl]
        /\ ctl' = [ctl EXCEPT ![w][i] = t]
        /\ UNCHANGED <<nextAt, cancelRequested, deadline, result, limits, pools,
                       wstate, stops>>
    BY DEF Start, policy
  <1>3. Swept \in [Item -> Status] /\ SweptToken \in [Item -> Token \cup {NoToken}]
    <2>1. \A j \in Item : Swept[j] \in Status
      BY SweepFacts
    <2>2. \A j \in Item : SweptToken[j] \in Token \cup {NoToken}
      BY SweepFacts, RowTypes
    <2>3. QED BY <2>1, <2>2 DEF Swept, SweptToken
  <1>4. attempts[i] \in Nat /\ LeaseTtl \in Nat
    BY RowTypes, TimeAssumption
  <1>5. execs' \subseteq Execution
    BY <1>4 DEF Start, Execution, TypeOK
  <1>6. status' \in [Item -> Status] /\ token' \in [Item -> Token \cup {NoToken}]
    BY <1>2, <1>3 DEF Status
  <1>7. /\ attempts' \in [Item -> Nat] /\ lease' \in [Item -> Nat]
        /\ ctl' \in [Worker -> [Item -> Token \cup {NoToken}]]
    BY <1>2, <1>4 DEF TypeOK
  <1>8. TypeOK'
    BY <1>2, <1>5, <1>6, <1>7 DEF TypeOK
  <1>9. RowFits(i, "running", attempts[i] + 1, t, cancelRequested)
    BY <1>1, SweepFacts, RowTypes DEF RowFits
  <1>10. ASSUME NEW j \in Item
         PROVE  RowFits(j, Swept[j], attempts[j], SweptToken[j], cancelRequested)
    BY SweepFacts, RowTypes, RowInvIsFits DEF RowFits, RowInv
  <1>11. /\ status'[i] = "running" /\ attempts'[i] = attempts[i] + 1 /\ token'[i] = t
         /\ \A j \in Item \ {i} : /\ status'[j] = Swept[j] /\ attempts'[j] = attempts[j]
                                  /\ token'[j] = SweptToken[j]
    BY <1>2, <1>3 DEF TypeOK
  <1>12. ASSUME NEW j \in Item
         PROVE  RowFits(j, status'[j], attempts'[j], token'[j], cancelRequested)
    BY <1>9, <1>10, <1>11
  <1>13. RowInv'
    BY <1>2, <1>12 DEF RowInv, RowFits
  <1>14. QED BY <1>8, <1>13

\* A step that changes one row, and leaves that row fitting, keeps RowInv.
LEMMA OneRow ==
  ASSUME RowInv, NEW i \in Item,
         \A j \in Item \ {i} :
           /\ status'[j] = status[j] /\ attempts'[j] = attempts[j]
           /\ token'[j] = token[j]
           /\ j \in cancelRequested' <=> j \in cancelRequested,
         RowFits(i, status'[i], attempts'[i], token'[i], cancelRequested')
  PROVE  RowInv'
  BY DEF RowInv, RowFits

\* A step that leaves these four alone keeps RowInv.
LEMMA SameRows ==
  ASSUME RowInv, UNCHANGED <<status, attempts, token, cancelRequested>>
  PROVE  RowInv'
  BY DEF RowInv

\* The finally block of processOne keeps the types of what it touches.
LEMMA ForgetTypes ==
  ASSUME TypeOK, NEW e \in execs, Forget(e)
  PROVE  /\ execs' \subseteq Execution
         /\ ctl' \in [Worker -> [Item -> Token \cup {NoToken}]]
  BY DEF TypeOK, Forget, Execution

\* What an execution refers to.
LEMMA ExecTypes ==
  ASSUME TypeOK, NEW e \in execs
  PROVE  /\ e.item \in Item /\ e.worker \in Worker /\ e.token \in Token
         /\ e.attempt \in Nat
  BY DEF TypeOK, Execution

LEMMA InvFail ==
  ASSUME Inv, NEW e \in execs, NEW code, Fail(e, code)
  PROVE  Inv'
  <1> USE DEF Inv
  <1> DEFINE i == e.item
  <1>1. i \in Item /\ e.token \in Token
    BY ExecTypes
  <1> HIDE DEF i
  <1>2. UNCHANGED <<attempts, cancelRequested, deadline, result, limits, pools,
                    wstate, stops>>
    BY DEF Fail, policy
  <1>3. execs' \subseteq Execution /\ ctl' \in [Worker -> [Item -> Token \cup {NoToken}]]
    BY ForgetTypes DEF Fail
  <1>4. CASE Current(e)
    <2>1. /\ status' = [status EXCEPT ![i] = AfterFailure(i, code)]
          /\ nextAt' = [nextAt EXCEPT ![i] = Backoff[attempts[i]]]
          /\ token' = [token EXCEPT ![i] = NoToken]
          /\ lease' = [lease EXCEPT ![i] = 0]
      BY <1>4 DEF Fail, i
    <2>2. status[i] = "running"
      BY <1>4 DEF Current, i
    <2>3. attempts[i] \in Nat /\ MaxAttempts[i] \in 1..10 /\ attempts[i] > 0
          /\ attempts[i] <= MaxAttempts[i]
      BY <1>1, <2>2, RowTypes DEF RowInv
    <2>4. Backoff[attempts[i]] \in Nat
      <3>1. attempts[i] \in 1..10
        BY <2>3
      <3>2. QED BY <3>1, TimeAssumption
    <2>5. AfterFailure(i, code) \in {"unknown", "cancelled", "waiting", "failed"}
      BY DEF AfterFailure
    <2>6. status' \in [Item -> Status]
      BY <2>1, <2>5 DEF TypeOK, Status
    <2>7. nextAt' \in [Item -> Nat] /\ lease' \in [Item -> Nat]
          /\ token' \in [Item -> Token \cup {NoToken}]
      BY <1>1, <2>1, <2>4 DEF TypeOK
    <2>8. TypeOK'
      BY <1>2, <1>3, <2>6, <2>7 DEF TypeOK
    <2>9. /\ i \in Manual => AfterFailure(i, code) = "unknown"
          /\ AfterFailure(i, code) = "waiting" =>
               i \notin cancelRequested /\ attempts[i] < MaxAttempts[i]
      BY DEF AfterFailure
    <2>10. RowFits(i, AfterFailure(i, code), attempts[i], NoToken, cancelRequested)
      BY <2>3, <2>5, <2>9 DEF RowFits
    <2>11. /\ status'[i] = AfterFailure(i, code) /\ token'[i] = NoToken
           /\ \A j \in Item \ {i} : status'[j] = status[j] /\ token'[j] = token[j]
      BY <1>1, <2>1 DEF TypeOK
    <2>12. RowFits(i, status'[i], attempts'[i], token'[i], cancelRequested')
      BY <1>2, <2>10, <2>11
    <2>13. RowInv'
      BY <1>1, <1>2, <2>11, <2>12, OneRow
    <2>14. QED BY <2>8, <2>13
  <1>5. CASE ~Current(e)
    <2>1. UNCHANGED <<status, nextAt, token, lease>>
      BY <1>5 DEF Fail
    <2>2. TypeOK'
      BY <1>2, <1>3, <2>1 DEF TypeOK
    <2>3. QED BY <1>2, <2>1, <2>2, SameRows
  <1>6. QED BY <1>4, <1>5

LEMMA InvComplete ==
  ASSUME Inv, NEW e \in execs, Complete(e)
  PROVE  Inv'
  <1> USE DEF Inv
  <1> DEFINE i == e.item
  <1>1. i \in Item /\ e.attempt \in Nat
    BY ExecTypes
  <1> HIDE DEF i
  <1>2. UNCHANGED <<attempts, nextAt, cancelRequested, deadline, limits, pools,
                    wstate, stops>>
    BY DEF Complete, policy
  <1>3. execs' \subseteq Execution /\ ctl' \in [Worker -> [Item -> Token \cup {NoToken}]]
    BY ForgetTypes DEF Complete
  <1>4. CASE Current(e)
    <2>1. /\ status' = [status EXCEPT ![i] = "succeeded"]
          /\ result' = [result EXCEPT ![i] = e.attempt]
          /\ token' = [token EXCEPT ![i] = NoToken]
          /\ lease' = [lease EXCEPT ![i] = 0]
      BY <1>4 DEF Complete, i
    <2>2. /\ status' \in [Item -> Status] /\ lease' \in [Item -> Nat]
          /\ token' \in [Item -> Token \cup {NoToken}] /\ result' \in [Item -> Nat]
      BY <1>1, <2>1 DEF TypeOK, Status
    <2>3. TypeOK'
      BY <1>2, <1>3, <2>2 DEF TypeOK
    <2>4. RowFits(i, "succeeded", attempts[i], NoToken, cancelRequested)
      BY <1>1, RowTypes DEF RowFits, RowInv
    <2>5. /\ status'[i] = "succeeded" /\ token'[i] = NoToken
          /\ \A j \in Item \ {i} : status'[j] = status[j] /\ token'[j] = token[j]
      BY <1>1, <2>1 DEF TypeOK
    <2>6. RowInv'
      BY <1>1, <1>2, <2>4, <2>5, OneRow
    <2>7. QED BY <2>3, <2>6
  <1>5. CASE ~Current(e)
    <2>1. UNCHANGED <<status, result, token, lease>>
      BY <1>5 DEF Complete
    <2>2. TypeOK'
      BY <1>2, <1>3, <2>1 DEF TypeOK
    <2>3. QED BY <1>2, <2>1, <2>2, SameRows
  <1>6. QED BY <1>4, <1>5

LEMMA InvHeartbeat ==
  ASSUME Inv, NEW e \in execs, Heartbeat(e)
  PROVE  Inv'
  <1> USE DEF Inv
  <1>1. UNCHANGED <<status, attempts, nextAt, token, cancelRequested, deadline,
                    result, limits, pools, ctl, wstate, stops>>
    BY DEF Heartbeat, policy
  <1>2. execs' \subseteq Execution
    BY AbortFacts DEF Heartbeat, TypeOK
  <1>3. lease' \in [Item -> Nat]
    BY TimeAssumption DEF Heartbeat, TypeOK
  <1>4. TypeOK'
    BY <1>1, <1>2, <1>3 DEF TypeOK
  <1>5. QED BY <1>1, <1>4, SameRows

LEMMA InvExecute ==
  ASSUME Inv, NEW e \in execs, Execute(e)
  PROVE  Inv'
  <1>1. CASE Heartbeat(e)
    BY <1>1, InvHeartbeat
  <1>2. CASE Complete(e)
    BY <1>2, InvComplete
  <1>3. CASE HandlerFails(e)
    BY <1>3, InvFail DEF HandlerFails
  <1>4. CASE AbortSettles(e)
    BY <1>4, InvFail DEF AbortSettles
  <1>5. CASE BudgetEnds(e)
    BY <1>5, InvFail DEF BudgetEnds
  <1>6. CASE SettleLost(e)
    <2>1. UNCHANGED <<status, attempts, nextAt, lease, token, cancelRequested,
                      deadline, result, limits, pools, wstate, stops>>
      BY <1>6 DEF SettleLost, row, policy
    <2>2. execs' \subseteq Execution /\ ctl' \in [Worker -> [Item -> Token \cup {NoToken}]]
      BY <1>6, ForgetTypes DEF SettleLost, Inv
    <2>3. TypeOK'
      BY <2>1, <2>2 DEF TypeOK, Inv
    <2>4. QED BY <2>1, <2>3, SameRows DEF Inv
  <1>7. QED BY <1>1, <1>2, <1>3, <1>4, <1>5, <1>6 DEF Execute, Settle

LEMMA InvEnqueue ==
  ASSUME Inv, NEW i \in Item, Enqueue(i)
  PROVE  Inv'
  <1> USE DEF Inv
  <1>1. /\ status[i] = "absent" /\ status' = [status EXCEPT ![i] = "waiting"]
        /\ UNCHANGED <<attempts, lease, token, cancelRequested, result, limits,
                       pools, execs, ctl, wstate, stops>>
    BY DEF Enqueue, policy, memory
  <1>2. status' \in [Item -> Status]
    BY <1>1 DEF TypeOK, Status
  <1>3. deadline' \in [Item -> Nat] /\ nextAt' \in [Item -> Nat]
    BY TimeAssumption DEF Enqueue, TypeOK
  <1>4. TypeOK'
    BY <1>1, <1>2, <1>3 DEF TypeOK
  <1>5. attempts[i] = 0 /\ i \notin cancelRequested /\ token[i] = NoToken
    BY <1>1 DEF RowInv
  <1>6. RowFits(i, "waiting", attempts[i], token[i], cancelRequested)
    BY <1>5, RowTypes DEF RowFits
  <1>7. /\ status'[i] = "waiting"
        /\ \A j \in Item \ {i} : status'[j] = status[j]
    BY <1>1 DEF TypeOK
  <1>8. RowInv'
    BY <1>1, <1>6, <1>7, OneRow
  <1>9. QED BY <1>4, <1>8

LEMMA InvRetry ==
  ASSUME Inv, NEW i \in Item, NEW c, Retry(i, c)
  PROVE  Inv'
  <1> USE DEF Inv
  <1>1. /\ status[i] \in {"failed", "cancelled", "unknown"}
        /\ status' = [status EXCEPT ![i] = "waiting"]
        /\ cancelRequested' = cancelRequested \ {i}
        /\ attempts' = [attempts EXCEPT ![i] = 0]
        /\ nextAt' = [nextAt EXCEPT ![i] = 0]
        /\ UNCHANGED <<lease, token, deadline, result, limits, pools, execs, ctl,
                       wstate, stops>>
    BY DEF Retry, policy, memory
  <1>2. TypeOK'
    BY <1>1 DEF TypeOK, Status
  <1>3. token[i] = NoToken
    BY <1>1 DEF RowInv
  <1>4. RowFits(i, "waiting", 0, token[i], cancelRequested')
    BY <1>1, <1>3, RowTypes DEF RowFits
  <1>5. /\ status'[i] = "waiting" /\ attempts'[i] = 0
        /\ \A j \in Item \ {i} : /\ status'[j] = status[j]
                                 /\ attempts'[j] = attempts[j]
    BY <1>1 DEF TypeOK
  <1>6. RowInv'
    BY <1>1, <1>4, <1>5, OneRow
  <1>7. QED BY <1>2, <1>6

LEMMA InvCancel ==
  ASSUME Inv, NEW w \in Worker, NEW i \in Item, Cancel(w, i)
  PROVE  Inv'
  <1> USE DEF Inv
  <1>1. UNCHANGED <<attempts, nextAt, lease, token, deadline, result, limits,
                    pools, ctl, wstate, stops>>
    BY DEF Cancel, policy
  <1>2. execs' \subseteq Execution
    BY AbortFacts DEF Cancel, TypeOK
  <1>3. CASE status[i] \in {"waiting", "running"}
    <2>1. /\ cancelRequested' = cancelRequested \cup {i}
          /\ status' = [status EXCEPT ![i] = IF @ = "waiting" THEN "cancelled" ELSE @]
      BY <1>3 DEF Cancel
    <2>2. /\ status'[i] = IF status[i] = "waiting" THEN "cancelled" ELSE "running"
          /\ \A j \in Item \ {i} : status'[j] = status[j]
      BY <1>3, <2>1 DEF TypeOK
    <2>3. cancelRequested' \subseteq Item /\ status' \in [Item -> Status]
      BY <2>1 DEF TypeOK, Status
    <2>4. TypeOK'
      BY <1>1, <1>2, <2>3 DEF TypeOK
    <2>5. ASSUME status[i] = "waiting" PROVE RowInv'
      <3>1. (i \in Manual => attempts[i] = 0) /\ attempts[i] <= MaxAttempts[i]
            /\ token[i] = NoToken
        BY <2>5, RowTypes DEF RowInv
      <3>2. RowFits(i, "cancelled", attempts[i], token[i], cancelRequested')
        BY <3>1, RowTypes DEF RowFits
      <3>3. QED BY <1>1, <2>1, <2>2, <2>5, <3>2, OneRow
    <2>6. ASSUME status[i] = "running" PROVE RowInv'
      <3>1. RowFits(i, "running", attempts[i], token[i], cancelRequested')
        BY <2>6, RowTypes DEF RowFits, RowInv
      <3>2. QED BY <1>1, <2>1, <2>2, <2>6, <3>1, OneRow
    <2>7. QED BY <1>3, <2>4, <2>5, <2>6
  <1>4. CASE status[i] \notin {"waiting", "running"}
    <2>1. UNCHANGED <<cancelRequested, status>>
      BY <1>4 DEF Cancel
    <2>2. TypeOK'
      BY <1>1, <1>2, <2>1 DEF TypeOK
    <2>3. QED BY <1>1, <2>1, <2>2, SameRows
  <1>5. QED BY <1>3, <1>4

LEMMA InvOperate == ASSUME Inv, Operate PROVE Inv'
  <1> USE DEF Inv
  <1>1. ASSUME NEW o \in Org, SetLimits(o) PROVE Inv'
    <2>1. UNCHANGED <<status, attempts, nextAt, lease, token, cancelRequested,
                      deadline, result, pools, execs, ctl, wstate, stops>>
      BY <1>1 DEF SetLimits, row, memory
    <2>2. limits' \in [Org -> [running: 1..OrgRunningCap, waiting: 1..OrgWaitingCap]]
      BY <1>1 DEF SetLimits, TypeOK
    <2>3. QED BY <2>1, <2>2, SameRows DEF TypeOK
  <1>2. CASE ConfigurePolicy
    <2>1. UNCHANGED <<status, attempts, nextAt, lease, token, cancelRequested,
                      deadline, result, limits, execs, ctl, wstate, stops>>
      BY <1>2 DEF ConfigurePolicy, row, memory
    <2>2. pools' \in [Pool -> 1..MaxRunning]
      BY <1>2, LimitAssumption DEF ConfigurePolicy
    <2>3. QED BY <2>1, <2>2, SameRows DEF TypeOK
  <1>3. QED BY <1>1, <1>2, InvEnqueue, InvRetry, InvCancel DEF Operate

LEMMA InvProcess ==
  ASSUME Inv, NEW w \in Worker, Process(w)
  PROVE  Inv'
  <1> USE DEF Inv
  <1>1. CASE Claim(w)
    BY <1>1, InvClaimNothing, InvStart DEF Claim
  <1>2. CASE Close(w) \/ Drained(w) \/ Restart(w)
    <2>1. UNCHANGED <<status, attempts, nextAt, lease, token, cancelRequested,
                      deadline, result, limits, pools, ctl>>
      BY <1>2 DEF Close, Drained, Restart, row, policy
    <2>2. execs' \subseteq Execution
      BY <1>2, AbortFacts DEF Close, Drained, Restart, TypeOK
    <2>3. \/ stops' = stops + 1 /\ wstate' = [wstate EXCEPT ![w] = "draining"]
          \/ UNCHANGED stops /\ wstate' = [wstate EXCEPT ![w] = "closed"]
          \/ UNCHANGED stops /\ wstate' = [wstate EXCEPT ![w] = "up"]
      BY <1>2 DEF Close, Drained, Restart
    <2>4. stops' \in Nat /\ wstate' \in [Worker -> {"up", "draining", "closed", "down"}]
      BY <2>3 DEF TypeOK
    <2>5. QED BY <2>1, <2>2, <2>4, SameRows DEF TypeOK
  <1>3. CASE Exit(w) \/ Crash(w)
    <2>1. UNCHANGED <<status, attempts, nextAt, lease, token, cancelRequested,
                      deadline, result, limits, pools>>
      BY <1>3 DEF Exit, Crash, Vanish, row, policy
    <2>2. execs' \subseteq Execution
      BY <1>3 DEF Exit, Crash, Vanish, TypeOK
    <2>3. stops' = stops \/ stops' = stops + 1
      BY <1>3 DEF Exit, Crash
    <2>4. /\ wstate' = [wstate EXCEPT ![w] = "down"]
          /\ ctl' = [ctl EXCEPT ![w] = [i \in Item |-> NoToken]]
      BY <1>3 DEF Exit, Crash, Vanish
    <2>5. stops' \in Nat
      BY <2>3 DEF TypeOK
    <2>6. /\ wstate' \in [Worker -> {"up", "draining", "closed", "down"}]
          /\ ctl' \in [Worker -> [Item -> Token \cup {NoToken}]]
      BY <2>4 DEF TypeOK
    <2>7. QED BY <2>1, <2>2, <2>5, <2>6, SameRows DEF TypeOK
  <1>4. QED BY <1>1, <1>2, <1>3 DEF Process

LEMMA InvTick == ASSUME Inv, Tick PROVE Inv'
  <1> USE DEF Inv
  <1>1. UNCHANGED <<status, attempts, token, cancelRequested, result, limits,
                    pools, execs, ctl, wstate, stops>>
    BY DEF Tick, policy, memory
  <1>2. \A n \in Nat : Less(n) \in Nat
    BY DEF Less
  <1>3. \A i \in Item : /\ Less(lease[i]) \in Nat /\ Less(nextAt[i]) \in Nat
                        /\ Less(deadline[i]) \in Nat
    BY <1>2, RowTypes
  <1>4. lease' \in [Item -> Nat] /\ nextAt' \in [Item -> Nat] /\ deadline' \in [Item -> Nat]
    BY <1>3 DEF Tick
  <1>5. QED BY <1>1, <1>4, SameRows DEF TypeOK

\* The row invariants are inductive.
LEMMA InvStep == ASSUME Inv, [Next]_vars PROVE Inv'
  <1>1. CASE Next
    BY <1>1, InvOperate, InvProcess, InvExecute, InvTick DEF Next
  <1>2. CASE UNCHANGED vars
    BY <1>2, SameRows DEF vars, row, policy, memory, Inv, TypeOK
  <1>3. QED BY <1>1, <1>2

\* So they hold in every reachable state.
THEOREM InvHolds == Spec => []Inv
  BY InvInit, InvStep, PTL DEF Spec

\* Every reachable state is well typed: no statement of workQueue.ts writes a
\* status, counter or limit outside its column's range.
THEOREM TypeCorrect == Spec => []TypeOK
  BY InvHolds, PTL DEF Inv

\* No interleaving runs an item more often than max_attempts per retry.
THEOREM AttemptsCorrect == Spec => []AttemptsBounded
  <1>1. Inv => AttemptsBounded
    BY DEF Inv, RowInv, AttemptsBounded
  <1>2. QED BY <1>1, InvHolds, PTL

\* A manual item that was started is never sent back to the queue without a
\* confirmed outcome.
THEOREM ManualCorrect == Spec => []ManualOutcomeHeld
  <1>1. Inv => ManualOutcomeHeld
    BY StaticAssumption DEF Inv, RowInv, ManualOutcomeHeld
  <1>2. QED BY <1>1, InvHolds, PTL

\* An accepted cancellation keeps its item out of the queue until a retry.
THEOREM CancelCorrect == Spec => []CancelledNeverRequeued
  <1>1. Inv => CancelledNeverRequeued
    BY DEF Inv, RowInv, CancelledNeverRequeued
  <1>2. QED BY <1>1, InvHolds, PTL
=============================================================================
