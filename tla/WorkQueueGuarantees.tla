------------------------ MODULE WorkQueueGuarantees ------------------------
(***************************************************************************)
(* What WorkQueue guarantees across its coordinators, proved for every     *)
(* value of its constants: the lease token fences the executions of an     *)
(* item off each other, and running rows stay within the limits.           *)
(***************************************************************************)
EXTENDS WorkQueueProofs

-----------------------------------------------------------------------------
(* Fencing.                                                                *)

\* The tokens are in order, and results are those of the latest attempt.
Fence == TokenInv /\ ResultOfLatestAttempt

\* Aborting executions keeps their tokens distinct.
LEMMA AbortKeepsTokens ==
  ASSUME execs \subseteq Execution, NEW S,
         \A e, f \in execs : e.token = f.token => e = f
  PROVE  \A g, h \in Abort(S) : g.token = h.token => g = h
  <1> DEFINE ab(e) == IF e \in S THEN [e EXCEPT !.stage = "aborted"] ELSE e
  <1>1. \A e \in execs : ab(e).token = e.token
    BY DEF Execution
  <1>2. Abort(S) = {ab(e) : e \in execs}
    BY DEF Abort
  <1> HIDE DEF ab
  <1>3. QED BY <1>1, <1>2

\* A step that adds no execution, gives out no token, counts no attempt of a
\* row that keeps its token and completes nothing leaves the fence standing.
LEMMA NothingNew ==
  ASSUME Inv, Fence, execs' \subseteq execs,
         \A i \in Item :
           /\ token'[i] \in {token[i], NoToken}
           /\ token'[i] # NoToken => attempts'[i] = attempts[i]
           /\ status'[i] = "succeeded" =>
                /\ status[i] = "succeeded"
                /\ result'[i] = result[i] /\ attempts'[i] = attempts[i]
  PROVE  Fence'
  <1>1. \A e \in execs : e.token # NoToken
    BY ExecTypes, StaticAssumption DEF Inv
  <1>2. TokenInv'
    BY <1>1 DEF Fence, TokenInv
  <1>3. ResultOfLatestAttempt'
    BY DEF Fence, ResultOfLatestAttempt
  <1>4. QED BY <1>2, <1>3 DEF Fence

\* A step that only aborts executions leaves the fence standing.
LEMMA OnlyAborts ==
  ASSUME Inv, Fence, NEW S, execs' = Abort(S),
         UNCHANGED <<token, attempts, result>>,
         \A i \in Item : status'[i] = "succeeded" => status[i] = "succeeded"
  PROVE  Fence'
  <1>1. execs \subseteq Execution
    BY DEF Inv, TypeOK
  <1>2. \A g, h \in execs' : g.token = h.token => g = h
    BY <1>1, AbortKeepsTokens DEF Fence, TokenInv
  <1>3. \A g \in execs' : \E e \in execs :
          g.item = e.item /\ g.token = e.token /\ g.attempt = e.attempt
    BY <1>1, AbortFacts
  <1>4. TokenInv'
    BY <1>2, <1>3 DEF Fence, TokenInv
  <1>5. ResultOfLatestAttempt'
    BY DEF Fence, ResultOfLatestAttempt
  <1>6. QED BY <1>4, <1>5 DEF Fence

\* A claim gives its row a token nobody holds and counts the attempt.
LEMMA FenceStart ==
  ASSUME Inv, Fence, NEW w \in Worker, NEW i \in Item, NEW t \in Token,
         Start(w, i, t)
  PROVE  Fence'
  <1> DEFINE new == [item |-> i, worker |-> w, token |-> t,
                     attempt |-> attempts[i] + 1, stage |-> "running"]
  <1>1. /\ status' = [Swept EXCEPT ![i] = "running"]
        /\ token' = [SweptToken EXCEPT ![i] = t]
        /\ attempts' = [attempts EXCEPT ![i] = @ + 1]
        /\ execs' = execs \cup {new} /\ UNCHANGED result
    BY DEF Start
  <1>2. /\ new.item = i /\ new.token = t /\ new.attempt = attempts[i] + 1
    OBVIOUS
  <1> HIDE DEF new
  <1>3. \A e \in execs : e.token # t /\ e.token # NoToken
    BY ExecTypes, StaticAssumption DEF Start, FreshToken, Inv
  <1>4. \A j \in Item : token[j] # t
    BY DEF Start, FreshToken
  <1>5. /\ token'[i] = t /\ attempts'[i] = attempts[i] + 1
        /\ \A j \in Item \ {i} : /\ token'[j] = SweptToken[j]
                                 /\ attempts'[j] = attempts[j]
                                 /\ status'[j] = Swept[j]
        /\ status'[i] = "running"
    BY <1>1 DEF Swept, SweptToken, Inv, TypeOK
  <1>6. \A j \in Item : SweptToken[j] \in {token[j], NoToken}
    BY SweepFacts DEF Inv
  <1>7. \A e, f \in execs' : e.token = f.token => e = f
    BY <1>1, <1>2, <1>3 DEF Fence, TokenInv
  <1>8. ASSUME NEW e \in execs', NEW j \in Item, token'[j] = e.token
        PROVE  e.item = j /\ e.attempt = attempts'[j]
    <2>1. CASE e = new
      <3>1. j = i
        BY <1>2, <1>4, <1>5, <1>6, <1>8, <2>1, StaticAssumption
      <3>2. QED BY <1>2, <1>5, <2>1, <3>1
    <2>2. CASE e \in execs
      <3>1. j # i /\ token[j] = e.token
        BY <1>3, <1>5, <1>6, <1>8, <2>2
      <3>2. QED BY <1>5, <2>2, <3>1 DEF Fence, TokenInv
    <2>3. QED BY <1>1, <1>8, <2>1, <2>2
  <1>9. TokenInv'
    BY <1>7, <1>8 DEF TokenInv
  <1>10. \A j \in Item : Swept[j] = "succeeded" => status[j] = "succeeded"
    BY SweepFacts DEF Inv
  <1>11. ResultOfLatestAttempt'
    BY <1>1, <1>5, <1>10 DEF Fence, ResultOfLatestAttempt
  <1>12. QED BY <1>9, <1>11 DEF Fence

\* complete() writes the attempt of an execution whose token the row carries.
LEMMA FenceComplete ==
  ASSUME Inv, Fence, NEW e \in execs, Complete(e)
  PROVE  Fence'
  <1> DEFINE i == e.item
  <1>1. i \in Item /\ e.attempt \in Nat /\ e.token \in Token
    BY ExecTypes DEF Inv
  <1>2. execs' \subseteq execs /\ UNCHANGED attempts
    BY DEF Complete, Forget
  <1>3. CASE Current(e)
    <2>1. token[i] = e.token
      BY <1>3 DEF Current
    <2>2. /\ status'[i] = "succeeded" /\ result'[i] = e.attempt /\ token'[i] = NoToken
          /\ \A j \in Item \ {i} : /\ status'[j] = status[j]
                                   /\ result'[j] = result[j] /\ token'[j] = token[j]
      BY <1>1, <1>3 DEF Complete, Inv, TypeOK
    <2>3. e.attempt = attempts[i]
      BY <1>1, <2>1 DEF Fence, TokenInv
    <2>4. ResultOfLatestAttempt'
      BY <1>2, <2>2, <2>3 DEF Fence, ResultOfLatestAttempt
    <2>5. \A f \in execs : f.token # NoToken
      BY ExecTypes, StaticAssumption DEF Inv
    <2>6. TokenInv'
      BY <1>2, <2>2, <2>5 DEF Fence, TokenInv
    <2>7. QED BY <2>4, <2>6 DEF Fence
  <1>4. CASE ~Current(e)
    <2>1. UNCHANGED <<status, result, token>>
      BY <1>4 DEF Complete
    <2>2. QED BY <1>2, <2>1, NothingNew
  <1>5. QED BY <1>3, <1>4

LEMMA FenceFail ==
  ASSUME Inv, Fence, NEW e \in execs, NEW code, Fail(e, code)
  PROVE  Fence'
  <1> DEFINE i == e.item
  <1>1. i \in Item
    BY ExecTypes DEF Inv
  <1>2. execs' \subseteq execs /\ UNCHANGED <<attempts, result>>
    BY DEF Fail, Forget
  <1>3. CASE Current(e)
    <2>1. /\ status'[i] = AfterFailure(i, code) /\ token'[i] = NoToken
          /\ \A j \in Item \ {i} : status'[j] = status[j] /\ token'[j] = token[j]
      BY <1>1, <1>3 DEF Fail, Inv, TypeOK
    <2>2. AfterFailure(i, code) # "succeeded"
      BY DEF AfterFailure
    <2>3. QED BY <1>2, <2>1, <2>2, NothingNew
  <1>4. CASE ~Current(e)
    <2>1. UNCHANGED <<status, token>>
      BY <1>4 DEF Fail
    <2>2. QED BY <1>2, <2>1, NothingNew
  <1>5. QED BY <1>3, <1>4

LEMMA FenceExecute ==
  ASSUME Inv, Fence, NEW e \in execs, Execute(e)
  PROVE  Fence'
  <1>1. CASE Heartbeat(e)
    <2>1. UNCHANGED <<status, token, attempts, result>>
      BY <1>1 DEF Heartbeat
    <2>2. execs' = execs \/ execs' = Abort({e})
      BY <1>1 DEF Heartbeat
    <2>3. CASE execs' = execs
      BY <2>1, <2>3, NothingNew
    <2>4. CASE execs' = Abort({e})
      BY <2>1, <2>4, OnlyAborts
    <2>5. QED BY <2>2, <2>3, <2>4
  <1>2. CASE Complete(e)
    BY <1>2, FenceComplete
  <1>3. CASE HandlerFails(e) \/ AbortSettles(e) \/ BudgetEnds(e)
    BY <1>3, FenceFail DEF HandlerFails, AbortSettles, BudgetEnds
  <1>4. CASE SettleLost(e)
    <2>1. execs' \subseteq execs /\ UNCHANGED <<status, token, attempts, result>>
      BY <1>4 DEF SettleLost, Forget, row
    <2>2. QED BY <2>1, NothingNew
  <1>5. QED BY <1>1, <1>2, <1>3, <1>4 DEF Execute, Settle

LEMMA FenceOperate == ASSUME Inv, Fence, Operate PROVE Fence'
  <1>1. ASSUME NEW i \in Item, Enqueue(i) PROVE Fence'
    <2>1. UNCHANGED <<execs, token, attempts, result>>
      BY <1>1 DEF Enqueue, memory
    <2>2. \A j \in Item : status'[j] = "succeeded" => status[j] = "succeeded"
      BY <1>1 DEF Enqueue, Inv, TypeOK
    <2>3. QED BY <2>1, <2>2, NothingNew
  <1>2. ASSUME NEW i \in Item, NEW c, Retry(i, c) PROVE Fence'
    <2>1. UNCHANGED <<execs, token, result>>
      BY <1>2 DEF Retry, memory
    <2>2. token[i] = NoToken
      BY <1>2 DEF Retry, Inv, RowInv
    <2>3. /\ status'[i] = "waiting"
          /\ \A j \in Item \ {i} : status'[j] = status[j] /\ attempts'[j] = attempts[j]
      BY <1>2 DEF Retry, Inv, TypeOK
    <2>4. QED BY <2>1, <2>2, <2>3, NothingNew
  <1>3. ASSUME NEW w \in Worker, NEW i \in Item, Cancel(w, i) PROVE Fence'
    <2>1. UNCHANGED <<token, attempts, result>>
      BY <1>3 DEF Cancel
    <2>2. \A j \in Item : status'[j] = "succeeded" => status[j] = "succeeded"
      BY <1>3 DEF Cancel, Inv, TypeOK
    <2>3. \E S : execs' = Abort(S)
      BY <1>3 DEF Cancel
    <2>4. QED BY <2>1, <2>2, <2>3, OnlyAborts
  <1>4. CASE ConfigurePolicy \/ \E o \in Org : SetLimits(o)
    <2>1. UNCHANGED <<execs, status, token, attempts, result>>
      BY <1>4 DEF ConfigurePolicy, SetLimits, row, memory
    <2>2. QED BY <2>1, NothingNew
  <1>5. QED BY <1>1, <1>2, <1>3, <1>4 DEF Operate

LEMMA FenceProcess ==
  ASSUME Inv, Fence, NEW w \in Worker, Process(w)
  PROVE  Fence'
  <1>1. CASE ClaimNothing(w)
    <2>1. UNCHANGED <<execs, attempts, result>>
      BY <1>1 DEF ClaimNothing, memory
    <2>2. \A j \in Item : status'[j] = Swept[j] /\ token'[j] = SweptToken[j]
      BY <1>1 DEF ClaimNothing
    <2>3. \A j \in Item : /\ SweptToken[j] \in {token[j], NoToken}
                          /\ Swept[j] = "succeeded" => status[j] = "succeeded"
      BY SweepFacts DEF Inv
    <2>4. QED BY <2>1, <2>2, <2>3, NothingNew
  <1>2. CASE Close(w)
    <2>1. UNCHANGED <<status, token, attempts, result>>
      BY <1>2 DEF Close, row
    <2>2. \E S : execs' = Abort(S)
      BY <1>2 DEF Close
    <2>3. QED BY <2>1, <2>2, OnlyAborts
  <1>3. CASE Drained(w) \/ Restart(w) \/ Exit(w) \/ Crash(w)
    <2>1. execs' \subseteq execs /\ UNCHANGED <<status, token, attempts, result>>
      BY <1>3 DEF Drained, Restart, Exit, Crash, Vanish, row
    <2>2. QED BY <2>1, NothingNew
  <1>4. QED BY <1>1, <1>2, <1>3, FenceStart DEF Process, Claim

\* Initially nothing holds a token and nothing has succeeded.
LEMMA FenceInit == Init => Fence
  BY DEF Init, Fence, TokenInv, ResultOfLatestAttempt

\* The fence stands in every reachable state.
THEOREM FenceHolds == Spec => []Fence
  <1>1. ASSUME Inv, Fence, [Next]_vars PROVE Fence'
    <2>1. CASE Tick
      <3>1. UNCHANGED <<execs, status, token, attempts, result>>
        BY <2>1 DEF Tick, memory
      <3>2. QED BY <1>1, <3>1, NothingNew
    <2>2. CASE UNCHANGED vars
      <3>1. UNCHANGED <<execs, status, token, attempts, result>>
        BY <2>2 DEF vars, row, memory
      <3>2. QED BY <1>1, <3>1, NothingNew
    <2>3. QED
      BY <1>1, <2>1, <2>2, FenceOperate, FenceProcess, FenceExecute DEF Next
  <1>2. QED BY <1>1, FenceInit, InvHolds, PTL DEF Spec

\* The result a succeeded row shows was written by its latest attempt, however
\* late a superseded handler finishes.
THEOREM ResultsCorrect == Spec => []ResultOfLatestAttempt
  BY FenceHolds, PTL DEF Fence

\* At most one execution of an item passes assertCurrent, over all coordinators
\* and all restarts.
THEOREM SingleExecution == Spec => []SingleCurrentExecution
  <1>1. Fence => SingleCurrentExecution
    BY DEF Fence, TokenInv, SingleCurrentExecution, Current
  <1>2. QED BY <1>1, FenceHolds, PTL

-----------------------------------------------------------------------------
(* Limits.                                                                 *)

\* Sets of items are finite, and subsets of them are no larger.
LEMMA ItemSets ==
  ASSUME NEW T \in SUBSET Item, NEW S \in SUBSET T
  PROVE  /\ IsFiniteSet(S) /\ IsFiniteSet(T)
         /\ Cardinality(S) \in Nat /\ Cardinality(T) \in Nat
         /\ Cardinality(S) <= Cardinality(T)
  <1>1. IsFiniteSet(T)
    BY StaticAssumption, FS_Subset
  <1>2. IsFiniteSet(S) /\ Cardinality(S) <= Cardinality(T)
    BY <1>1, FS_Subset
  <1>3. QED BY <1>1, <1>2, FS_CardinalityType

\* One more item makes a set of items at most one larger.
LEMMA OneMoreItem ==
  ASSUME NEW S \in SUBSET Item, NEW i \in Item
  PROVE  Cardinality(S \cup {i}) <= Cardinality(S) + 1
  <1>1. IsFiniteSet(S) /\ Cardinality(S) \in Nat
    BY ItemSets
  <1>2. Cardinality(S \cup {i}) = IF i \in S THEN Cardinality(S) ELSE Cardinality(S) + 1
    BY <1>1, FS_AddElement
  <1>3. QED BY <1>1, <1>2

\* A row that is running once claim has swept holds a lease.
LEMMA SweptRunningLives ==
  ASSUME Inv
  PROVE  RunningIn(Swept) = LiveIn(Swept)
  BY SweepFacts DEF Inv, RunningIn, LiveIn

\* What a claim found before it started row i: a free slot, in the share of
\* the organization and in the pool as well.
LEMMA StartFinds ==
  ASSUME Inv, NEW w \in Worker, NEW i \in Item, NEW t, Start(w, i, t)
  PROVE  /\ Cardinality(RunningIn(Swept)) < MaxRunning
         /\ Cardinality({j \in RunningIn(Swept) : OrgOf[j] = OrgOf[i]})
              < limits[OrgOf[i]].running
         /\ Cardinality({j \in RunningIn(Swept) : PoolOf[j] = PoolOf[i]})
              < pools[PoolOf[i]]
  <1>1. i \in Startable(Swept)
    BY DEF Start
  <1>2. ~(Cardinality(LiveIn(Swept)) >= MaxRunning) /\ i \in Prioritized(Swept)
    BY <1>1 DEF Startable
  <1>3. i \in Eligible(Swept)
    BY <1>2 DEF Prioritized
  <1>4. /\ Cardinality({j \in LiveIn(Swept) : OrgOf[j] = OrgOf[i]})
             < limits[OrgOf[i]].running
        /\ Cardinality({j \in LiveIn(Swept) : PoolOf[j] = PoolOf[i]})
             < pools[PoolOf[i]]
    BY <1>3 DEF Eligible, Candidates
  <1>5. Cardinality(LiveIn(Swept)) \in Nat
    BY ItemSets DEF LiveIn, RunningIn
  <1>6. QED BY <1>2, <1>4, <1>5, SweptRunningLives, LimitAssumption

\* A step after which no other rows run than before keeps the bounds.
LEMMA FewerRunning ==
  ASSUME Inv, RunningBounded,
         \A i \in Item : status'[i] = "running" => status[i] = "running"
  PROVE  RunningBounded'
  <1>1. RunningIn(status') \subseteq RunningIn(status)
    BY DEF RunningIn
  <1>2. Cardinality(RunningIn(status')) <= MaxRunning
    <2>1. /\ Cardinality(RunningIn(status')) <= Cardinality(RunningIn(status))
          /\ Cardinality(RunningIn(status')) \in Nat
          /\ Cardinality(RunningIn(status)) \in Nat
      BY <1>1, ItemSets DEF RunningIn
    <2>2. QED BY <2>1, LimitAssumption DEF RunningBounded
  <1>3. ASSUME NEW o \in Org
        PROVE  Cardinality(InStatus(status', o, {"running"})) <= OrgRunningCap
    <2>1. InStatus(status', o, {"running"}) \subseteq InStatus(status, o, {"running"})
      BY DEF InStatus
    <2>2. /\ Cardinality(InStatus(status', o, {"running"}))
               <= Cardinality(InStatus(status, o, {"running"}))
          /\ Cardinality(InStatus(status', o, {"running"})) \in Nat
          /\ Cardinality(InStatus(status, o, {"running"})) \in Nat
      BY <2>1, ItemSets DEF InStatus
    <2>3. QED BY <2>2, LimitAssumption DEF RunningBounded
  <1>4. QED BY <1>2, <1>3 DEF RunningBounded

\* A claim that starts a row stays within the limits it found.
LEMMA StartStaysWithin ==
  ASSUME Inv, NEW w \in Worker, NEW i \in Item, NEW t, Start(w, i, t)
  PROVE  /\ Cardinality(RunningIn(status')) <= MaxRunning
         /\ Cardinality(InStatus(status', OrgOf[i], {"running"}))
              <= limits[OrgOf[i]].running
         /\ Cardinality({j \in Item : status'[j] = "running" /\ PoolOf[j] = PoolOf[i]})
              <= pools[PoolOf[i]]
  <1> DEFINE R == RunningIn(Swept)
             RO == {j \in R : OrgOf[j] = OrgOf[i]}
             RP == {j \in R : PoolOf[j] = PoolOf[i]}
  <1>1. /\ status'[i] = "running"
        /\ \A j \in Item \ {i} : status'[j] = Swept[j]
    BY DEF Start, Swept
  <1>2. /\ RunningIn(status') \subseteq R \cup {i}
        /\ InStatus(status', OrgOf[i], {"running"}) \subseteq RO \cup {i}
        /\ {j \in Item : status'[j] = "running" /\ PoolOf[j] = PoolOf[i]}
             \subseteq RP \cup {i}
    BY <1>1 DEF RunningIn, InStatus
  <1>3. R \in SUBSET Item /\ RO \in SUBSET Item /\ RP \in SUBSET Item
    BY DEF RunningIn
  <1>4. /\ Cardinality(R) < MaxRunning
        /\ Cardinality(RO) < limits[OrgOf[i]].running
        /\ Cardinality(RP) < pools[PoolOf[i]]
    BY StartFinds
  <1>5. /\ limits[OrgOf[i]].running \in Nat /\ pools[PoolOf[i]] \in Nat
        /\ MaxRunning \in Nat
    BY StaticAssumption, LimitAssumption DEF Inv, TypeOK
  <1> HIDE DEF R, RO, RP
  <1>6. ASSUME NEW S \in SUBSET Item, NEW T \in SUBSET (S \cup {i}), NEW n \in Nat,
               Cardinality(S) < n
        PROVE  Cardinality(T) <= n
    <2>1. Cardinality(S \cup {i}) <= Cardinality(S) + 1 /\ S \cup {i} \in SUBSET Item
      BY OneMoreItem
    <2>2. /\ Cardinality(T) <= Cardinality(S \cup {i})
          /\ Cardinality(T) \in Nat /\ Cardinality(S \cup {i}) \in Nat
      BY <2>1, ItemSets
    <2>3. Cardinality(S) \in Nat
      BY ItemSets
    <2>4. QED BY <1>6, <2>1, <2>2, <2>3
  <1>7. Cardinality(RunningIn(status')) <= MaxRunning
    BY <1>2, <1>3, <1>4, <1>5, <1>6
  <1>8. Cardinality(InStatus(status', OrgOf[i], {"running"})) <= limits[OrgOf[i]].running
    BY <1>2, <1>3, <1>4, <1>5, <1>6
  <1>9. Cardinality({j \in Item : status'[j] = "running" /\ PoolOf[j] = PoolOf[i]})
          <= pools[PoolOf[i]]
    BY <1>2, <1>3, <1>4, <1>5, <1>6
  <1>10. QED BY <1>7, <1>8, <1>9

\* A start keeps the bounds: the organizations it does not serve only lose rows.
LEMMA StartKeepsBounds ==
  ASSUME Inv, RunningBounded, NEW w \in Worker, NEW i \in Item, NEW t, Start(w, i, t)
  PROVE  RunningBounded'
  <1>1. ASSUME NEW o \in Org
        PROVE  Cardinality(InStatus(status', o, {"running"})) <= OrgRunningCap
    <2>1. CASE o = OrgOf[i]
      <3>1. /\ limits[o].running \in 1..OrgRunningCap
            /\ Cardinality(InStatus(status', o, {"running"})) <= limits[o].running
        BY <2>1, StartStaysWithin DEF Inv, TypeOK
      <3>2. Cardinality(InStatus(status', o, {"running"})) \in Nat
        BY ItemSets DEF InStatus
      <3>3. QED BY <3>1, <3>2, LimitAssumption
    <2>2. CASE o # OrgOf[i]
      <3>1. \A j \in Item \ {i} : status'[j] = "running" => status[j] = "running"
        BY SweepFacts DEF Start, Swept, Inv
      <3>2. InStatus(status', o, {"running"}) \subseteq InStatus(status, o, {"running"})
        BY <2>2, <3>1 DEF InStatus
      <3>3. /\ Cardinality(InStatus(status', o, {"running"}))
                 <= Cardinality(InStatus(status, o, {"running"}))
            /\ Cardinality(InStatus(status', o, {"running"})) \in Nat
            /\ Cardinality(InStatus(status, o, {"running"})) \in Nat
        BY <3>2, ItemSets DEF InStatus
      <3>4. QED BY <3>3, LimitAssumption DEF RunningBounded
    <2>3. QED BY <2>1, <2>2
  <1>2. QED BY <1>1, StartStaysWithin DEF RunningBounded

\* A calm step starts nothing, counts no attempt and admits nothing.
Calm ==
  \A j \in Item : /\ status'[j] = "running" => status[j] = "running"
                  /\ status'[j] = "waiting" => status[j] \in {"waiting", "running"}
                  /\ attempts'[j] <= attempts[j]

\* What an execution does is calm.
LEMMA ExecuteIsCalm == ASSUME Inv, NEW e \in execs, Execute(e) PROVE Calm
  <1>1. /\ e.item \in Item
        /\ \A j \in Item : attempts[j] <= attempts[j]
    BY ExecTypes, RowTypes DEF Inv
  <1>2. UNCHANGED attempts
    BY DEF Execute, Heartbeat, Complete, HandlerFails, Settle, AbortSettles,
           BudgetEnds, SettleLost, Fail, row
  <1>3. CASE Heartbeat(e) \/ SettleLost(e)
    <2>1. UNCHANGED status
      BY <1>3 DEF Heartbeat, SettleLost, row
    <2>2. QED BY <1>1, <1>2, <2>1 DEF Calm
  <1>4. CASE Complete(e)
    <2>1. \A j \in Item : status'[j] = status[j] \/ status'[j] = "succeeded"
      BY <1>1, <1>4 DEF Complete, Inv, TypeOK
    <2>2. QED BY <1>1, <1>2, <2>1 DEF Calm
  <1>5. ASSUME NEW code, Fail(e, code) PROVE Calm
    <2>1. AfterFailure(e.item, code) # "running"
      BY DEF AfterFailure
    <2>2. \A j \in Item : \/ status'[j] = status[j]
                          \/ status[j] = "running" /\ status'[j] # "running"
      BY <1>1, <1>5, <2>1 DEF Fail, Current, Inv, TypeOK
    <2>3. QED BY <1>1, <1>2, <2>2 DEF Calm
  <1>6. QED
    BY <1>3, <1>4, <1>5 DEF Execute, Settle, HandlerFails, AbortSettles, BudgetEnds

\* A step is calm, or starts one row, or admits one row to the queue.
LEMMA StepShape ==
  ASSUME Inv, [Next]_vars
  PROVE  \/ Calm
         \/ \E w \in Worker, i \in Item, t \in Token : Start(w, i, t)
         \/ \E i \in Item : Enqueue(i) \/ \E c \in BOOLEAN : Retry(i, c)
  <1>1. \A j \in Item : attempts[j] <= attempts[j]
    BY RowTypes DEF Inv
  <1>2. CASE UNCHANGED <<status, attempts>>
    BY <1>1, <1>2 DEF Calm
  <1>3. ASSUME NEW w \in Worker, NEW i \in Item, Cancel(w, i) PROVE Calm
    <2>1. \A j \in Item : status'[j] = status[j] \/ status'[j] = "cancelled"
      BY <1>3 DEF Cancel, Inv, TypeOK
    <2>2. UNCHANGED attempts
      BY <1>3 DEF Cancel
    <2>3. QED BY <1>1, <2>1, <2>2 DEF Calm
  <1>4. ASSUME NEW w \in Worker, ClaimNothing(w) PROVE Calm
    <2>1. UNCHANGED attempts /\ \A j \in Item : status'[j] = Swept[j]
      BY <1>4 DEF ClaimNothing
    <2>2. \A j \in Item : Swept[j] = "running" => status[j] = "running"
      BY SweepFacts DEF Inv
    <2>3. \A j \in Item : Swept[j] = "waiting" => status[j] \in {"waiting", "running"}
      BY DEF Swept, Reclaimed, Lapsed
    <2>4. QED BY <1>1, <2>1, <2>2, <2>3 DEF Calm
  <1>5. ASSUME NEW w \in Worker, Process(w), ~Claim(w) PROVE UNCHANGED <<status, attempts>>
    BY <1>5 DEF Process, Close, Drained, Exit, Crash, Restart, Vanish, row
  <1>6. CASE Operate
    <2>1. CASE ConfigurePolicy \/ \E o \in Org : SetLimits(o)
      BY <1>2, <2>1 DEF ConfigurePolicy, SetLimits, row
    <2>2. QED BY <1>3, <1>6, <2>1 DEF Operate
  <1>7. CASE \E w \in Worker : Process(w)
    BY <1>2, <1>4, <1>5, <1>7 DEF Claim
  <1>8. CASE \E e \in execs : Execute(e)
    BY <1>8, ExecuteIsCalm
  <1>9. CASE Tick \/ UNCHANGED vars
    BY <1>2, <1>9 DEF Tick, vars, row
  <1>10. QED BY <1>6, <1>7, <1>8, <1>9 DEF Next

\* An admission makes one row waiting and starts nothing.
LEMMA AdmitFacts ==
  ASSUME Inv, NEW i \in Item, Enqueue(i) \/ \E c \in BOOLEAN : Retry(i, c)
  PROVE  /\ Cardinality(InStatus(status, OrgOf[i], {"waiting"}))
              < limits[OrgOf[i]].waiting
         /\ status'[i] = "waiting" /\ status[i] \notin {"waiting", "running"}
         /\ \A j \in Item \ {i} : status'[j] = status[j]
         /\ \A j \in Item : attempts'[j] <= attempts[j]
  <1>1. \A j \in Item : attempts[j] <= attempts[j] /\ 0 <= attempts[j]
    BY RowTypes DEF Inv
  <1>2. CASE Enqueue(i)
    BY <1>1, <1>2 DEF Enqueue, Inv, TypeOK
  <1>3. ASSUME NEW c \in BOOLEAN, Retry(i, c)
        PROVE  /\ Cardinality(InStatus(status, OrgOf[i], {"waiting"}))
                    < limits[OrgOf[i]].waiting
               /\ status'[i] = "waiting" /\ status[i] \notin {"waiting", "running"}
               /\ \A j \in Item \ {i} : status'[j] = status[j]
               /\ \A j \in Item : attempts'[j] <= attempts[j]
    <2>1. /\ status' = [status EXCEPT ![i] = "waiting"]
          /\ attempts' = [attempts EXCEPT ![i] = 0]
          /\ status[i] \in {"failed", "cancelled", "unknown"}
          /\ Cardinality(InStatus(status, OrgOf[i], {"waiting"}))
               < limits[OrgOf[i]].waiting
      BY <1>3 DEF Retry
    <2>2. status'[i] = "waiting" /\ \A j \in Item \ {i} : status'[j] = status[j]
      BY <2>1 DEF Inv, TypeOK
    <2>3. \A j \in Item : attempts'[j] = IF j = i THEN 0 ELSE attempts[j]
      BY <2>1 DEF Inv, TypeOK
    <2>4. QED BY <1>1, <2>1, <2>2, <2>3
  <1>4. QED BY <1>2, <1>3

\* Initially nothing is open.
LEMMA InitEmpty == Init => RunningBounded /\ BacklogBounded
  <1> SUFFICES ASSUME Init PROVE RunningBounded /\ BacklogBounded
    OBVIOUS
  <1>1. /\ RunningIn(status) = {}
        /\ \A o \in Org : /\ InStatus(status, o, {"running"}) = {}
                          /\ InStatus(status, o, {"waiting", "running"}) = {}
    BY DEF Init, RunningIn, InStatus
  <1>2. Cardinality({}) = 0
    BY FS_EmptySet
  <1>3. RunningShare \in Nat /\ 0 <= OrgWaitingCap + RunningShare
    BY LimitAssumption DEF RunningShare
  <1>4. 0 <= MaxRunning /\ 0 <= OrgRunningCap
    BY LimitAssumption
  <1>5. RunningBounded
    BY <1>1, <1>2, <1>4 DEF RunningBounded
  <1>6. BacklogBounded
    BY <1>1, <1>2, <1>3 DEF BacklogBounded
  <1>7. QED BY <1>5, <1>6

\* Rows marked running never outnumber the configured concurrency nor an
\* organization's largest share of it.
THEOREM RunningCorrect == Spec => []RunningBounded
  <1>1. ASSUME Inv, RunningBounded, [Next]_vars PROVE RunningBounded'
    <2>1. CASE Calm
      BY <1>1, <2>1, FewerRunning DEF Calm
    <2>2. ASSUME NEW i \in Item, Enqueue(i) \/ \E c \in BOOLEAN : Retry(i, c)
          PROVE  RunningBounded'
      <3>1. \A j \in Item : status'[j] = "running" => status[j] = "running"
        BY <1>1, <2>2, AdmitFacts
      <3>2. QED BY <1>1, <3>1, FewerRunning
    <2>3. QED BY <1>1, <2>1, <2>2, StepShape, StartKeepsBounds
  <1>2. QED BY <1>1, InitEmpty, InvHolds, PTL DEF Spec

\* A claim never takes its organization or its pool beyond the limits in force.
THEOREM ClaimsCorrect == Spec => ClaimWithinLimits
  <1> DEFINE Within ==
        \A i \in Item : attempts'[i] > attempts[i] =>
          /\ Cardinality(InStatus(status', OrgOf[i], {"running"}))
               <= limits[OrgOf[i]].running
          /\ Cardinality({j \in Item : status'[j] = "running" /\ PoolOf[j] = PoolOf[i]})
               <= pools[PoolOf[i]]
  <1>1. ASSUME Inv, [Next]_vars PROVE Within
    <2>1. ASSUME \A j \in Item : attempts'[j] <= attempts[j] PROVE Within
      <3>1. \A j \in Item : attempts'[j] \in Nat /\ attempts[j] \in Nat
        BY <1>1, InvStep, RowTypes DEF Inv, TypeOK
      <3>2. QED BY <2>1, <3>1
    <2>2. ASSUME NEW w \in Worker, NEW i \in Item, NEW t \in Token, Start(w, i, t)
          PROVE  Within
      <3>1. \A j \in Item : attempts'[j] > attempts[j] => j = i
        BY <1>1, <2>2, RowTypes DEF Start, Inv, TypeOK
      <3>2. QED BY <1>1, <2>2, <3>1, StartStaysWithin
    <2>3. QED BY <1>1, <2>1, <2>2, StepShape, AdmitFacts DEF Calm
  <1>2. QED BY <1>1, InvHolds, PTL DEF Spec, ClaimWithinLimits

\* A step that opens no row keeps the backlog bounded.
LEMMA FewerOpen ==
  ASSUME BacklogBounded,
         \A j \in Item : status'[j] \in {"waiting", "running"}
                           => status[j] \in {"waiting", "running"}
  PROVE  BacklogBounded'
  <1> SUFFICES ASSUME NEW o \in Org
               PROVE  Cardinality(InStatus(status', o, {"waiting", "running"}))
                        <= OrgWaitingCap + RunningShare
    BY DEF BacklogBounded
  <1>1. InStatus(status', o, {"waiting", "running"})
          \subseteq InStatus(status, o, {"waiting", "running"})
    BY DEF InStatus
  <1>2. /\ Cardinality(InStatus(status', o, {"waiting", "running"}))
             <= Cardinality(InStatus(status, o, {"waiting", "running"}))
        /\ Cardinality(InStatus(status', o, {"waiting", "running"})) \in Nat
        /\ Cardinality(InStatus(status, o, {"waiting", "running"})) \in Nat
    BY <1>1, ItemSets DEF InStatus
  <1>3. OrgWaitingCap + RunningShare \in Nat
    BY LimitAssumption DEF RunningShare
  <1>4. QED BY <1>2, <1>3 DEF BacklogBounded

\* An admission fills its organization's backlog at most to the brim: the rows
\* waiting stay below max_waiting and those running within their share.
LEMMA AdmitFits ==
  ASSUME Inv, BacklogBounded, RunningBounded', NEW i \in Item,
         Enqueue(i) \/ \E c \in BOOLEAN : Retry(i, c)
  PROVE  BacklogBounded'
  <1> SUFFICES ASSUME NEW o \in Org
               PROVE  Cardinality(InStatus(status', o, {"waiting", "running"}))
                        <= OrgWaitingCap + RunningShare
    BY DEF BacklogBounded
  <1> DEFINE open == InStatus(status', o, {"waiting", "running"})
             W == InStatus(status', o, {"waiting"})
             R == InStatus(status', o, {"running"})
  <1>1. /\ OrgWaitingCap \in Nat /\ RunningShare \in Nat
        /\ OrgRunningCap \in Nat /\ MaxRunning \in Nat
    BY LimitAssumption DEF RunningShare
  <1>2. CASE o # OrgOf[i]
    <2>1. open \subseteq InStatus(status, o, {"waiting", "running"})
      BY <1>2, AdmitFacts DEF InStatus
    <2>2. /\ Cardinality(open) <= Cardinality(InStatus(status, o, {"waiting", "running"}))
          /\ Cardinality(open) \in Nat
          /\ Cardinality(InStatus(status, o, {"waiting", "running"})) \in Nat
      BY <2>1, ItemSets DEF InStatus
    <2>3. QED BY <1>1, <2>2 DEF BacklogBounded
  <1>3. CASE o = OrgOf[i]
    <2>1. open = W \cup R /\ W \in SUBSET Item /\ R \in SUBSET Item
      BY DEF InStatus
    <2>2. Cardinality(R) <= RunningShare
      <3>1. Cardinality(R) <= OrgRunningCap
        BY DEF RunningBounded
      <3>2. R \subseteq RunningIn(status')
        BY DEF RunningIn, InStatus
      <3>3. /\ Cardinality(R) <= Cardinality(RunningIn(status'))
            /\ Cardinality(R) \in Nat /\ Cardinality(RunningIn(status')) \in Nat
        BY <3>2, ItemSets DEF RunningIn
      <3>4. Cardinality(RunningIn(status')) <= MaxRunning
        BY DEF RunningBounded
      <3>5. QED BY <1>1, <3>1, <3>3, <3>4 DEF RunningShare
    <2>3. Cardinality(W) <= OrgWaitingCap
      <3>1. W \subseteq InStatus(status, o, {"waiting"}) \cup {i}
        BY AdmitFacts DEF InStatus
      <3>2. InStatus(status, o, {"waiting"}) \in SUBSET Item
        BY DEF InStatus
      <3>3. /\ Cardinality(W) <= Cardinality(InStatus(status, o, {"waiting"}) \cup {i})
            /\ Cardinality(W) \in Nat
            /\ Cardinality(InStatus(status, o, {"waiting"})) \in Nat
            /\ Cardinality(InStatus(status, o, {"waiting"}) \cup {i}) \in Nat
        BY <3>1, <3>2, ItemSets
      <3>4. Cardinality(InStatus(status, o, {"waiting"}) \cup {i})
              <= Cardinality(InStatus(status, o, {"waiting"})) + 1
        BY <3>2, OneMoreItem
      <3>5. Cardinality(InStatus(status, o, {"waiting"})) < limits[o].waiting
        BY <1>3, AdmitFacts
      <3>6. limits[o].waiting \in 1..OrgWaitingCap
        BY DEF Inv, TypeOK
      <3>7. QED BY <1>1, <3>3, <3>4, <3>5, <3>6
    <2> HIDE DEF open, W, R
    <2>4. /\ IsFiniteSet(W) /\ IsFiniteSet(R)
          /\ Cardinality(W) \in Nat /\ Cardinality(R) \in Nat
          /\ Cardinality(W \cap R) \in Nat
      BY <2>1, ItemSets
    <2>5. Cardinality(W \cup R) = Cardinality(W) + Cardinality(R) - Cardinality(W \cap R)
      BY <2>4, FS_Union
    <2>6. Cardinality(open) <= OrgWaitingCap + RunningShare
      BY <1>1, <2>1, <2>2, <2>3, <2>4, <2>5
    <2>7. QED BY <2>6 DEF open
  <1>4. QED BY <1>2, <1>3

\* The backlog of an organization stays within what it may hold waiting and
\* running together, whichever rows fall back to waiting.
THEOREM BacklogCorrect == Spec => []BacklogBounded
  <1>1. ASSUME Inv, BacklogBounded, RunningBounded', [Next]_vars PROVE BacklogBounded'
    <2>1. CASE Calm
      BY <1>1, <2>1, FewerOpen DEF Calm
    <2>2. ASSUME NEW w \in Worker, NEW i \in Item, NEW t \in Token, Start(w, i, t)
          PROVE  BacklogBounded'
      <3>1. i \in Startable(Swept) /\ \A j \in Item \ {i} : status'[j] = Swept[j]
        BY <2>2 DEF Start, Swept
      <3>2. Swept[i] = "waiting"
        BY <3>1 DEF Startable, Prioritized, Eligible, Candidates
      <3>3. \A j \in Item : Swept[j] \in {"waiting", "running"}
                              => status[j] \in {"waiting", "running"}
        BY DEF Swept, Reclaimed, Lapsed
      <3>4. QED BY <1>1, <3>1, <3>2, <3>3, FewerOpen
    <2>3. QED BY <1>1, <2>1, <2>2, StepShape, AdmitFits
  <1>2. QED BY <1>1, InitEmpty, InvHolds, RunningCorrect, PTL DEF Spec
=============================================================================
