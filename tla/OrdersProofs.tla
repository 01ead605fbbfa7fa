---------------------------- MODULE OrdersProofs ----------------------------
(***************************************************************************)
(* The invariants of Orders, for any number of orders, processes and       *)
(* commands, any stock, any amount, any number of reports and restores.    *)
(***************************************************************************)
EXTENDS Orders, FiniteSetTheorems, TLAPS

-----------------------------------------------------------------------------
(* Types                                                                   *)

\* What a request has in hand.
LEMMA CallTypes ==
  ASSUME TypeOK, NEW p \in Process
  PROVE  /\ call[p] \in Call
         /\ call[p].op = "checkout" => call[p].order \in Order
         /\ call[p].op = "refund" => /\ call[p].order \in Order
                                     /\ call[p].status \in Status
                                     /\ call[p].refunded \in 0..Amount
         /\ call[p].op = "refunding" => call[p].command \in Command
         /\ call[p].op = "reconcile" => /\ call[p].order \in Order
                                        /\ call[p].bound \in BOOLEAN
         /\ call[p].op = "answered" => /\ call[p].order \in Order
                                       /\ call[p].bound \in BOOLEAN
                                       /\ call[p].report \in Report
                                       /\ call[p].listed \subseteq Command
         /\ call[p].op = "confirm" => /\ call[p].order \in Order
                                      /\ call[p].ok \in BOOLEAN
                                      /\ call[p].listed \subseteq Command
  <1>1. call[p] \in Call
    BY DEF TypeOK
  <1>2. QED BY <1>1 DEF Call, Idle

\* What the state is made of.
LEMMA Fields ==
  ASSUME TypeOK
  PROVE  /\ row \in [Order -> Row] /\ inventory \in Nat
         /\ command \in [Command -> {"absent", "verified"} \cup Outstanding]
         /\ seen \in [Order -> SUBSET (1..MaxSeq)] /\ ledger \in [Order -> Entries]
         /\ backup.row \in [Order -> Row] /\ backup.inventory \in Nat
         /\ backup.command \in [Command -> {"absent", "verified"} \cup Outstanding]
         /\ backup.seen \in [Order -> SUBSET (1..MaxSeq)]
         /\ backup.ledger \in [Order -> Entries]
  BY DEF TypeOK, Current, Data

LEMMA CurrentType ==
  ASSUME row' \in [Order -> Row], inventory' \in Nat,
         command' \in [Command -> {"absent", "verified"} \cup Outstanding],
         seen' \in [Order -> SUBSET (1..MaxSeq)], ledger' \in [Order -> Entries]
  PROVE  Current' \in Data
  BY DEF Current, Data

LEMMA EmptyType == Empty \in Data /\ Idle \in Call /\ NoMark \in [bound: BOOLEAN, seq: 0..MaxSeq]
  <1>1. Absent \in Row
    BY OrdersAssumption DEF Absent, Row, Status
  <1>2. [paid |-> 0, refunded |-> 0] \in Entries
    BY DEF Entries
  <1>3. Empty \in Data
    BY <1>1, <1>2, OrdersAssumption DEF Empty, Data
  <1>4. Idle \in Call
    BY DEF Call
  <1>5. QED BY <1>3, <1>4, OrdersAssumption DEF NoMark

LEMMA TypeInit == Init => TypeOK
  <1> SUFFICES ASSUME Init PROVE TypeOK
    OBVIOUS
  <1>1. Current \in Data /\ backup \in Data
    <2>1. Current = Empty
      BY DEF Init, Current, Empty
    <2>2. QED BY <2>1, EmptyType DEF Init
  <1>2. /\ held \in SUBSET Order /\ retained \in SUBSET Command /\ lost \in SUBSET retained
        /\ reports \in SUBSET Report /\ executed \in SUBSET Command
        /\ made \in SUBSET Order /\ clobbered \in SUBSET Order /\ forgotten \in SUBSET Order
    BY DEF Init
  <1>3. mark \in [Order -> [bound: BOOLEAN, seq: 0..MaxSeq]] /\ call \in [Process -> Call]
    BY EmptyType DEF Init
  <1>4. /\ charge \in [Order -> [status: {"none", "asked", "open"} \cup Paid \cup Closed,
                                 refunded: 0..Amount, seq: 0..MaxSeq]]
        /\ sent \in [Command -> Request \cup {Unsent}]
        /\ known \in [Order -> 0..MaxSeq] /\ restores \in 0..MaxRestores
    BY OrdersAssumption DEF Init
  <1>5. QED BY <1>1, <1>2, <1>3, <1>4 DEF TypeOK

\* A report of the provider leaves well-formed reports and charges behind.
LEMMA ReportsType ==
  ASSUME TypeOK, NEW o \in Order, NEW s \in Paid \cup Closed, NEW r \in 0..Amount,
         Reports(o, s, r)
  PROVE  /\ charge' \in [Order -> [status: {"none", "asked", "open"} \cup Paid \cup Closed,
                                   refunded: 0..Amount, seq: 0..MaxSeq]]
         /\ reports' \in SUBSET Report
         /\ charge'[o] = [status |-> s, refunded |-> r, seq |-> charge[o].seq + 1]
         /\ reports' = reports \cup {[order |-> o, seq |-> charge[o].seq + 1, status |-> s,
                                      refunded |-> r]}
  <1>1. charge[o].seq + 1 \in 1..MaxSeq
    BY OrdersAssumption DEF TypeOK, Reports
  <1>2. [order |-> o, seq |-> charge[o].seq + 1, status |-> s, refunded |-> r] \in Report
    BY <1>1 DEF Report
  <1>3. [status |-> s, refunded |-> r, seq |-> charge[o].seq + 1] \in
          [status: {"none", "asked", "open"} \cup Paid \cup Closed,
           refunded: 0..Amount, seq: 0..MaxSeq]
    BY <1>1
  <1>4. QED BY <1>2, <1>3 DEF TypeOK, Reports

\* A new row, and nothing else of the database.
LEMMA TypeRow ==
  ASSUME TypeOK, NEW o \in Order, NEW r \in Row, row' = [row EXCEPT ![o] = r],
         inventory' \in Nat, UNCHANGED <<command, seen, ledger, hold, backup, reports, sent,
                                         executed, known, forgotten, restores>>,
         made' \in SUBSET Order, clobbered' \in SUBSET Order,
         call' \in [Process -> Call],
         charge' \in [Order -> [status: {"none", "asked", "open"} \cup Paid \cup Closed,
                                refunded: 0..Amount, seq: 0..MaxSeq]]
  PROVE  TypeOK'
  <1>1. Current' \in Data
    BY Fields, CurrentType
  <1>2. QED BY <1>1 DEF TypeOK, hold

LEMMA TypeMake ==
  ASSUME TypeOK, NEW o \in Order, CreateOrder(o) \/ CancelOrder(o)
  PROVE  TypeOK'
  <1>1. PICK s \in {"pending", "cancelled"} : row' = [row EXCEPT ![o].status = s]
    BY DEF CreateOrder, CancelOrder
  <1>2. [row[o] EXCEPT !.status = s] \in Row /\ row' = [row EXCEPT ![o] = [row[o] EXCEPT !.status = s]]
    BY <1>1, Fields DEF Row, Status, Closed
  <1>3. inventory' \in Nat
    BY Fields DEF CreateOrder, CancelOrder
  <1>4. made' \in SUBSET Order /\ UNCHANGED <<clobbered, call, charge>>
    BY DEF TypeOK, CreateOrder, CancelOrder, provider, history
  <1>5. QED
    BY <1>2, <1>3, <1>4, TypeRow
    DEF TypeOK, CreateOrder, CancelOrder, provider, history, hold

LEMMA TypeCheckoutWrite ==
  ASSUME TypeOK, NEW p \in Process, CheckoutWrite(p)
  PROVE  TypeOK'
  <1> DEFINE o == call[p].order
             r == [row[o] EXCEPT !.status = "checkout_pending", !.bound = TRUE]
  <1>1. o \in Order
    BY CallTypes DEF CheckoutWrite
  <1>2. r \in Row /\ row' = [row EXCEPT ![o] = r]
    <2>1. row' = [row EXCEPT ![o].status = "checkout_pending", ![o].bound = TRUE]
      BY DEF CheckoutWrite
    <2>2. row \in [Order -> Row] /\ row[o] \in Row
      BY <1>1, Fields
    <2>3. r \in Row
      BY <2>2 DEF Row, Status
    <2>4. row' = [row EXCEPT ![o] = r]
      BY <1>1, <2>1, <2>2 DEF Row
    <2>5. QED BY <2>3, <2>4
  <1>3. clobbered' \in SUBSET Order
    BY <1>1 DEF TypeOK, CheckoutWrite
  <1>4. call' \in [Process -> Call]
    BY EmptyType DEF TypeOK, CheckoutWrite
  <1>5. charge' \in [Order -> [status: {"none", "asked", "open"} \cup Paid \cup Closed,
                               refunded: 0..Amount, seq: 0..MaxSeq]]
    BY <1>1 DEF TypeOK, CheckoutWrite
  <1>6. /\ made' \in SUBSET Order /\ inventory' \in Nat
        /\ UNCHANGED <<command, seen, ledger, hold, backup, reports, sent, executed, known,
                       forgotten, restores>>
    BY Fields DEF TypeOK, CheckoutWrite
  <1> HIDE DEF o, r
  <1>7. QED BY <1>1, <1>2, <1>3, <1>4, <1>5, <1>6, TypeRow

LEMMA TypeApply ==
  ASSUME TypeOK, NEW e \in Report, Apply(e), UNCHANGED hold, backup' = backup,
         UNCHANGED provider, UNCHANGED <<made, clobbered, forgotten, restores>>,
         call' \in [Process -> Call]
  PROVE  TypeOK'
  <1> DEFINE o == e.order
  <1>1. /\ o \in Order /\ e.seq \in 1..MaxSeq /\ e.status \in Paid \cup Closed
        /\ e.refunded \in 0..Amount
    BY DEF Report
  <1>2. Current' \in Data /\ known' \in [Order -> 0..MaxSeq]
    <2>1. CASE Duplicate(e)
      BY <2>1, Fields, CurrentType DEF Apply, data, TypeOK
    <2>2. CASE ~Duplicate(e) /\ Stale(e)
      <3>1. seen' \in [Order -> SUBSET (1..MaxSeq)]
        BY <1>1, <2>2, Fields DEF Apply
      <3>2. QED BY <2>2, <3>1, Fields, CurrentType DEF Apply, TypeOK
    <2>3. CASE ~Duplicate(e) /\ ~Stale(e)
      <3>1. seen' \in [Order -> SUBSET (1..MaxSeq)]
        BY <1>1, <2>3, Fields DEF Apply
      <3>2. row' \in [Order -> Row]
        <4>1. row' = [row EXCEPT ![o].status = e.status, ![o].refunded = e.refunded,
                                 ![o].seq = e.seq]
          BY <2>3 DEF Apply
        <4>2. row \in [Order -> Row] /\ row[o] \in Row
          BY <1>1, Fields
        <4>3. [row[o] EXCEPT !.status = e.status, !.refunded = e.refunded, !.seq = e.seq] \in Row
          <5>1. e.status \in Status
            BY <1>1 DEF Status
          <5>2. e.refunded \in 0..Amount /\ e.seq \in 0..MaxSeq
            BY <1>1, OrdersAssumption
          <5>3. QED BY <4>2, <5>1, <5>2 DEF Row
        <4>4. row' = [row EXCEPT ![o] = [row[o] EXCEPT !.status = e.status,
                                           !.refunded = e.refunded, !.seq = e.seq]]
          BY <1>1, <4>1, <4>2 DEF Row
        <4>5. QED BY <4>2, <4>3, <4>4
      <3>3. inventory' \in Nat
        BY <2>3, Fields DEF Apply
      <3>4. command' \in [Command -> {"absent", "verified"} \cup Outstanding]
        BY <2>3, Fields DEF Apply
      <3>5. ledger' \in [Order -> Entries]
        <4>1. /\ ~Refused(e)
              /\ ledger' = [ledger EXCEPT ![o].paid = @ + (IF Pays(e) THEN 1 ELSE 0),
                                          ![o].refunded = @ + e.refunded - row[o].refunded]
          BY <2>3 DEF Apply
        <4>2. row[o].refunded \in 0..Amount /\ row[o].refunded <= e.refunded
          BY <1>1, <4>1, Fields DEF Refused, Row
        <4>3. /\ ledger[o].paid + (IF Pays(e) THEN 1 ELSE 0) \in Nat
              /\ ledger[o].refunded + e.refunded - row[o].refunded \in Nat
          BY <1>1, <4>2, Fields, OrdersAssumption DEF Entries
        <4>4. QED BY <1>1, <4>1, <4>3, Fields DEF Entries
      <3>6. known' \in [Order -> 0..MaxSeq]
        BY <1>1, <2>3 DEF Apply, TypeOK
      <3>7. QED BY <3>1, <3>2, <3>3, <3>4, <3>5, <3>6, CurrentType
    <2>4. QED BY <2>1, <2>2, <2>3
  <1>3. QED BY <1>2 DEF TypeOK, hold, provider

\* What leaves the rows alone.
LEMMA TypeServe ==
  ASSUME TypeOK, UNCHANGED <<row, inventory, seen, ledger, mark, retained, lost, backup, history>>,
         command' \in [Command -> {"absent", "verified"} \cup Outstanding],
         held' \in SUBSET Order, call' \in [Process -> Call],
         charge' \in [Order -> [status: {"none", "asked", "open"} \cup Paid \cup Closed,
                                refunded: 0..Amount, seq: 0..MaxSeq]],
         reports' \in SUBSET Report, executed' \in SUBSET Command,
         sent' \in [Command -> Request \cup {Unsent}]
  PROVE  TypeOK'
  <1>1. Current' \in Data
    BY Fields, CurrentType
  <1>2. QED BY <1>1 DEF TypeOK, history

\* A request goes on to c.
LEMMA TypeAsk ==
  ASSUME TypeOK, NEW p \in Process, NEW c \in Call, call' = [call EXCEPT ![p] = c],
         UNCHANGED <<data, hold, backup, provider, history>>
  PROVE  TypeOK'
  <1>1. /\ command' \in [Command -> {"absent", "verified"} \cup Outstanding]
        /\ UNCHANGED <<row, inventory, seen, ledger>>
    BY Fields DEF data
  <1>2. UNCHANGED <<held, mark, retained, lost, charge, reports, sent, executed>>
    BY DEF hold, provider
  <1>3. call' \in [Process -> Call]
    BY DEF TypeOK
  <1>4. QED BY <1>1, <1>2, <1>3, TypeServe DEF TypeOK

LEMMA TypeRead ==
  ASSUME TypeOK, NEW p \in Process, NEW o \in Order,
         CheckoutRead(p, o) \/ RefundRead(p, o) \/ ReconcileAsk(p, o)
  PROVE  TypeOK'
  <1>1. row[o].status \in Status /\ row[o].refunded \in 0..Amount /\ row[o].bound \in BOOLEAN
    BY Fields DEF Row
  <1>2. CASE CheckoutRead(p, o)
    <2>1. [op |-> "checkout", order |-> o] \in Call
      BY DEF Call
    <2>2. QED BY <1>2, <2>1, TypeAsk DEF CheckoutRead
  <1>3. CASE RefundRead(p, o)
    <2>1. [op |-> "refund", order |-> o, status |-> row[o].status, refunded |-> row[o].refunded]
            \in Call
      BY <1>1 DEF Call
    <2>2. QED BY <1>3, <2>1, TypeAsk DEF RefundRead
  <1>4. CASE ReconcileAsk(p, o)
    <2>1. [op |-> "reconcile", order |-> o, bound |-> row[o].bound] \in Call
      BY <1>1 DEF Call
    <2>2. QED BY <1>4, <2>1, TypeAsk DEF ReconcileAsk
  <1>5. QED BY <1>2, <1>3, <1>4

LEMMA TypeAgain ==
  ASSUME TypeOK, NEW p \in Process, (\E k \in Command : RefundAgain(p, k)) \/ CallDies(p)
  PROVE  TypeOK'
  <1>1. ASSUME NEW k \in Command, RefundAgain(p, k) PROVE TypeOK'
    <2>1. [op |-> "refunding", command |-> k] \in Call
      BY DEF Call
    <2>2. QED BY <1>1, <2>1, TypeAsk DEF RefundAgain
  <1>2. CASE CallDies(p)
    BY <1>2, EmptyType, TypeAsk DEF CallDies
  <1>3. QED BY <1>1, <1>2

LEMMA TypeRefund ==
  ASSUME TypeOK, NEW p \in Process,
         (\E k \in Command : \E a \in 1..Amount : RefundAdmit(p, k, a)) \/ RefundDone(p)
  PROVE  TypeOK'
  <1>1. ASSUME NEW k \in Command, NEW a \in 1..Amount, RefundAdmit(p, k, a) PROVE TypeOK'
    <2>1. call[p].order \in Order
      BY <1>1, CallTypes DEF RefundAdmit
    <2>2. command' \in [Command -> {"absent", "verified"} \cup Outstanding]
      BY <1>1, Fields DEF RefundAdmit, Outstanding
    <2>3. [order |-> call[p].order, amount |-> a] \in Request
      BY <2>1 DEF Request
    <2>4. sent' \in [Command -> Request \cup {Unsent}]
      BY <1>1, <2>3 DEF RefundAdmit, TypeOK
    <2>5. [op |-> "refunding", command |-> k] \in Call
      BY DEF Call
    <2>6. call' \in [Process -> Call]
      BY <1>1, <2>5 DEF RefundAdmit, TypeOK
    <2>7. UNCHANGED <<row, inventory, seen, ledger, held, mark, retained, lost, backup, history,
                      charge, reports, executed>>
      BY <1>1 DEF RefundAdmit, hold
    <2>8. QED BY <2>2, <2>4, <2>6, <2>7, TypeServe DEF TypeOK
  <1>2. CASE RefundDone(p)
    <2>1. call[p].command \in Command
      BY <1>2, CallTypes DEF RefundDone
    <2>2. command' \in [Command -> {"absent", "verified"} \cup Outstanding]
      BY <1>2, <2>1, Fields DEF RefundDone, Outstanding
    <2>3. call' \in [Process -> Call]
      BY <1>2, EmptyType DEF RefundDone, TypeOK
    <2>4. UNCHANGED <<row, inventory, seen, ledger, held, mark, retained, lost, backup, history,
                      charge, reports, sent, executed>>
      BY <1>2 DEF RefundDone, hold, provider
    <2>5. QED BY <2>2, <2>3, <2>4, TypeServe DEF TypeOK
  <1>3. QED BY <1>1, <1>2

LEMMA TypeBind ==
  ASSUME TypeOK, NEW p \in Process, Bind(p)
  PROVE  TypeOK'
  <1> DEFINE o == call[p].order
             r == [row[o] EXCEPT !.bound = TRUE]
             c == [call[p] EXCEPT !.bound = TRUE]
  <1>1. o \in Order /\ call[p].op = "answered"
    BY CallTypes DEF Bind
  <1>2. r \in Row
    <2>1. row[o] \in Row
      BY <1>1, Fields
    <2>2. QED BY <2>1 DEF Row
  <1>3. row' = [row EXCEPT ![o] = r]
    BY <1>1, Fields DEF Bind, Row
  <1>4. c \in Call
    <2>1. call[p] \in [op: {"answered"}, order: Order, bound: BOOLEAN, report: Report,
                       listed: SUBSET Command]
      BY <1>1, CallTypes DEF Call, Idle
    <2>2. c \in [op: {"answered"}, order: Order, bound: BOOLEAN, report: Report,
                 listed: SUBSET Command]
      BY <2>1
    <2>3. QED BY <2>2 DEF Call
  <1>5. call' = [call EXCEPT ![p] = c] /\ call' \in [Process -> Call]
    BY <1>4 DEF Bind, TypeOK
  <1>6. /\ inventory' \in Nat /\ made' \in SUBSET Order /\ clobbered' \in SUBSET Order
        /\ UNCHANGED <<command, seen, ledger, hold, backup, charge, reports, sent, executed, known,
                       forgotten, restores>>
    BY Fields DEF Bind, TypeOK, provider, history
  <1> HIDE DEF o, r, c
  <1>7. QED BY <1>1, <1>2, <1>3, <1>5, <1>6, TypeRow DEF TypeOK

LEMMA TypeConfirm ==
  ASSUME TypeOK, NEW p \in Process, Confirm(p)
  PROVE  TypeOK'
  <1>1. command' \in [Command -> {"absent", "verified"} \cup Outstanding]
    BY Fields DEF Confirm
  <1>2. held' \in SUBSET Order /\ call' \in [Process -> Call]
    BY EmptyType DEF Confirm, TypeOK
  <1>3. UNCHANGED <<row, inventory, seen, ledger, mark, retained, lost, backup, history,
                    charge, reports, sent, executed>>
    BY DEF Confirm, provider
  <1>4. QED BY <1>1, <1>2, <1>3, TypeServe DEF TypeOK

LEMMA TypeReconcileApply ==
  ASSUME TypeOK, NEW p \in Process, ReconcileApply(p)
  PROVE  TypeOK'
  <1> DEFINE c == [op |-> "confirm", order |-> call[p].order, listed |-> call[p].listed,
                   ok |-> Duplicate(call[p].report) \/ ~Stale(call[p].report)]
  <1>1. /\ call[p].report \in Report /\ call[p].order \in Order
        /\ call[p].listed \subseteq Command
    BY CallTypes DEF ReconcileApply
  <1>2. c \in Call
    BY <1>1 DEF Call
  <1>3. call' = [call EXCEPT ![p] = c]
    BY DEF ReconcileApply
  <1>4. call' \in [Process -> Call]
    BY <1>2, <1>3 DEF TypeOK
  <1> HIDE DEF c
  <1>5. QED BY <1>1, <1>4, TypeApply DEF ReconcileApply

\* The report a refund at the provider makes.
LEMMA RefundsFacts ==
  ASSUME TypeOK, NEW o \in Order, NEW a \in 1..Amount, Refunds(o, a)
  PROVE  \E s \in {"refunded", "partially_refunded"}, r \in 0..Amount : Reports(o, s, r)
  <1>1. charge[o].refunded + a \in 0..Amount
    BY OrdersAssumption DEF TypeOK, Refunds
  <1>2. QED BY <1>1 DEF Refunds

LEMMA TypeProvide ==
  ASSUME TypeOK, Provide
  PROVE  TypeOK'
  <1>1. ASSUME NEW o \in Order, Opens(o) PROVE TypeOK'
    <2>1. charge' \in [Order -> [status: {"none", "asked", "open"} \cup Paid \cup Closed,
                                 refunded: 0..Amount, seq: 0..MaxSeq]]
      BY <1>1 DEF Opens, TypeOK
    <2>2. UNCHANGED <<row, inventory, command, seen, ledger, held, mark, retained, lost, backup,
                      call, history, reports, sent, executed>>
      BY <1>1 DEF Opens, data, hold
    <2>3. QED BY <2>1, <2>2, Fields, TypeServe DEF TypeOK
  <1>2. ASSUME NEW o \in Order, NEW s \in Paid \cup Closed, NEW r \in 0..Amount, Reports(o, s, r),
               UNCHANGED <<data, hold, backup, sent, history>>,
               executed' \in SUBSET Command, call' \in [Process -> Call]
        PROVE  TypeOK'
    <2>1. UNCHANGED <<row, inventory, command, seen, ledger, held, mark, retained, lost, backup,
                      history, sent>>
      BY <1>2 DEF data, hold
    <2>2. QED BY <1>2, <2>1, ReportsType, Fields, TypeServe DEF TypeOK
  <1>3. ASSUME NEW o \in Order, Settles(o) PROVE TypeOK'
    <2>1. PICK s \in {"paid", "failed", "cancelled"} : Reports(o, s, 0)
      BY <1>3 DEF Settles
    <2>2. s \in Paid \cup Closed /\ 0 \in 0..Amount
      BY OrdersAssumption DEF Paid, Closed
    <2>3. QED BY <1>2, <1>3, <2>1, <2>2 DEF Settles, TypeOK
  <1>4. ASSUME NEW o \in Order, NEW a \in 1..Amount, Refunds(o, a),
               UNCHANGED <<data, hold, backup, sent, call, history>>,
               executed' \in SUBSET Command
        PROVE  TypeOK'
    <2>1. PICK s \in {"refunded", "partially_refunded"}, r \in 0..Amount : Reports(o, s, r)
      BY <1>4, RefundsFacts
    <2>2. s \in Paid \cup Closed
      BY DEF Paid
    <2>3. QED BY <1>2, <1>4, <2>1, <2>2 DEF TypeOK
  <1>5. ASSUME NEW o \in Order, RefundsByItself(o) PROVE TypeOK'
    <2>1. 1 \in 1..Amount
      BY OrdersAssumption
    <2>2. QED BY <1>4, <1>5, <2>1 DEF RefundsByItself, TypeOK
  <1>6. ASSUME NEW k \in Command, Executes(k) PROVE TypeOK'
    <2>1. sent[k] \in Request
      BY <1>6 DEF Executes, TypeOK
    <2>2. sent[k].order \in Order /\ sent[k].amount \in 1..Amount
      BY <2>1 DEF Request
    <2>3. executed' \in SUBSET Command
      BY <1>6 DEF Executes, TypeOK
    <2>4. QED BY <1>4, <1>6, <2>2, <2>3 DEF Executes
  <1>7. ASSUME NEW p \in Process, Answers(p) PROVE TypeOK'
    <2> DEFINE o == call[p].order
               Answer(e, l) == [op |-> "answered", order |-> o, bound |-> call[p].bound,
                                report |-> e, listed |-> l]
    <2>1. o \in Order /\ call[p].bound \in BOOLEAN
      BY <1>7, CallTypes DEF Answers
    <2>2. \A e \in Report, l \in SUBSET Command : Answer(e, l) \in Call
      BY <2>1 DEF Call
    <2>3. CASE UNCHANGED <<charge, reports>>
                 /\ \E e \in reports : call' = [call EXCEPT ![p] = Answer(e, {})]
      <3>1. PICK e \in reports : call' = [call EXCEPT ![p] = Answer(e, {})]
        BY <2>3
      <3>2. Answer(e, {}) \in Call
        BY <2>2 DEF TypeOK
      <3>3. call' \in [Process -> Call]
        BY <3>1, <3>2 DEF TypeOK
      <3>4. UNCHANGED <<row, inventory, command, seen, ledger, held, mark, retained, lost, backup,
                        charge, history, reports, sent, executed>>
        BY <1>7, <2>3 DEF Answers, data, hold
      <3>5. QED BY <3>3, <3>4, Fields, TypeServe DEF TypeOK
    <2>4. CASE /\ Reports(o, charge[o].status, charge[o].refunded)
               /\ \E e \in reports' : \E l \in SUBSET Command :
                    call' = [call EXCEPT ![p] = Answer(e, l)]
      <3>1. charge[o].status \in Paid \cup Closed /\ charge[o].refunded \in 0..Amount
        BY <1>7, <2>1 DEF Answers, TypeOK
      <3>2. reports' \in SUBSET Report
        BY <2>1, <2>4, <3>1, ReportsType
      <3>3. PICK e \in reports', l \in SUBSET Command : call' = [call EXCEPT ![p] = Answer(e, l)]
        BY <2>4
      <3>4. Answer(e, l) \in Call
        BY <2>2, <3>2, <3>3
      <3>5. call' \in [Process -> Call]
        BY <3>3, <3>4 DEF TypeOK
      <3>6. executed' \in SUBSET Command /\ UNCHANGED <<data, hold, backup, sent, history>>
        BY <1>7 DEF Answers, TypeOK
      <3>7. QED BY <1>2, <2>1, <2>4, <3>1, <3>5, <3>6
    <2>5. {k \in executed : sent[k].order = o} \in SUBSET Command
      BY DEF TypeOK
    <2>6. QED BY <1>7, <2>3, <2>4, <2>5 DEF Answers
  <1>8. QED BY <1>1, <1>3, <1>5, <1>6, <1>7 DEF Provide

LEMMA TypeBackup ==
  ASSUME TypeOK, Backup \/ Restore
  PROVE  TypeOK'
  <1>1. CASE Backup
    BY <1>1 DEF Backup, TypeOK, data, hold, provider, history, Current
  <1>2. CASE Restore
    <2>1. Current' \in Data
      BY <1>2, Fields, CurrentType DEF Restore
    <2>2. backup' \in Data
      BY <1>2, EmptyType DEF Restore, TypeOK
    <2>3. mark' \in [Order -> [bound: BOOLEAN, seq: 0..MaxSeq]]
      <3>1. \A o \in Order : row[o].seq \in 0..MaxSeq
        BY Fields DEF Row
      <3>2. \A o \in Order :
              (IF row[o].bound THEN [bound |-> TRUE, seq |-> row[o].seq] ELSE NoMark)
                \in [bound: BOOLEAN, seq: 0..MaxSeq]
        BY <3>1, EmptyType
      <3>3. QED BY <1>2, <3>2 DEF Restore
    <2>4. /\ held' \in SUBSET Order /\ retained' \in SUBSET Command
          /\ lost' \in SUBSET retained' /\ forgotten' \in SUBSET Order
      BY <1>2 DEF Restore, TypeOK
    <2>5. call' \in [Process -> Call] /\ restores' \in 0..MaxRestores
      BY <1>2, EmptyType, OrdersAssumption DEF Restore, TypeOK
    <2>6. QED BY <1>2, <2>1, <2>2, <2>3, <2>4, <2>5 DEF Restore, TypeOK, provider
  <1>3. QED BY <1>1, <1>2

LEMMA TypeStep == ASSUME TypeOK, [Next]_vars PROVE TypeOK'
  <1>1. ASSUME NEW o \in Order, CreateOrder(o) \/ CancelOrder(o) PROVE TypeOK'
    BY <1>1, TypeMake
  <1>2. ASSUME NEW e \in reports, Webhook(e) PROVE TypeOK'
    <2>1. e \in Report /\ call' \in [Process -> Call]
      BY <1>2 DEF TypeOK, Webhook
    <2>2. QED BY <1>2, <2>1, TypeApply DEF Webhook
  <1>3. ASSUME NEW p \in Process, Serve(p) PROVE TypeOK'
    BY <1>3, TypeRead, TypeCheckoutWrite, TypeAgain, TypeRefund, TypeBind, TypeReconcileApply,
       TypeConfirm DEF Serve
  <1>4. CASE UNCHANGED vars
    BY <1>4 DEF TypeOK, vars, data, hold, provider, history, Current
  <1>5. QED BY <1>1, <1>2, <1>3, <1>4, TypeProvide, TypeBackup DEF Next

\* Every variable of Orders stays in its type.
THEOREM OrdersTypeCorrect == Spec => []TypeOK
  BY TypeInit, TypeStep, PTL DEF Spec

-----------------------------------------------------------------------------
(* The invariant                                                           *)

\* What a database, the current one or the backup, says of an order.
OrderInv(d, o) ==
  /\ o \notin made => d.row[o] = Absent
  /\ d.row[o].seq > 0 => d.row[o].bound
  /\ d.row[o].bound => d.row[o].status # "absent"
  /\ d.row[o].seq <= known[o]
  /\ \A n \in d.seen[o] : n <= d.row[o].seq
  /\ o \notin clobbered =>
       /\ d.ledger[o].paid = IF d.row[o].status \in Paid THEN 1 ELSE 0
       /\ d.ledger[o].refunded = d.row[o].refunded
       /\ d.row[o].status \in Paid \/ d.row[o].seq > 0 =>
            \E e \in reports : /\ e.order = o /\ e.seq = d.row[o].seq
                               /\ e.status = d.row[o].status
                               /\ e.refunded = d.row[o].refunded

DbInv(d) == \A o \in Order : OrderInv(d, o)

\* What it says of the commands.
CommandInv(d) ==
  /\ \A k \in Command : d.command[k] # "absent" => sent[k] # Unsent
  /\ \A k, l \in Command :
       /\ d.command[k] \in Outstanding /\ d.command[l] \in Outstanding
       /\ sent[k].order = sent[l].order
       => k = l

ReservingIn(d) == {o \in Order : d.row[o].status \notin {"absent"} \cup Closed}

\* What it says of the stock.
StockInv(d) ==
  clobbered = {} => d.inventory + Cardinality(ReservingIn(d)) = Stock

\* What was known of an order is in its row or below the mark of the restore.
HoldInv ==
  /\ \A o \in Order :
       /\ o \notin forgotten =>
            known[o] <= row[o].seq \/ (mark[o].bound /\ known[o] <= mark[o].seq)
       /\ o \notin held \cup forgotten => row[o].seq = known[o]
  /\ \A k \in lost : sent[k].order \notin held => command[k] = "verified"
  /\ \A k \in retained : sent[k] # Unsent
  /\ restores = 0 => held = {} /\ forgotten = {}

\* What a request has read is still so.
RequestInv(p) ==
  /\ call[p].op \in {"checkout", "reconcile", "answered"} =>
       row[call[p].order].status # "absent"
  /\ call[p].op = "answered" => /\ call[p].report \in reports
                                /\ call[p].report.order = call[p].order
  /\ call[p].op = "confirm" /\ call[p].ok /\ call[p].order \notin forgotten =>
       known[call[p].order] <= row[call[p].order].seq

CallInv == \A p \in Process : RequestInv(p)

\* What the provider says of payments that were cancelled.
UnpaidInv ==
  /\ \A e \in reports : e.status = "cancelled" => charge[e.order].status = "cancelled"
  /\ restores = 0 =>
       \A o \in Order :
         /\ ~row[o].bound => charge[o].status = "none"
         /\ row[o].status = "cancelled" => charge[o].status \in {"none", "cancelled"}

Inv ==
  /\ TypeOK
  /\ DbInv(Current) /\ DbInv(backup)
  /\ CommandInv(Current) /\ CommandInv(backup)
  /\ StockInv(Current) /\ StockInv(backup)
  /\ HoldInv /\ CallInv /\ UnpaidInv

-----------------------------------------------------------------------------
(* Orders, their reports and their ledger                                  *)

\* The history only grows.
Grows ==
  /\ made \subseteq made' /\ clobbered \subseteq clobbered' /\ reports \subseteq reports'
  /\ \A o \in Order : known[o] <= known'[o]

LEMMA DbKept ==
  ASSUME TypeOK, TypeOK', Grows
  PROVE  /\ DbInv(backup) /\ backup' = backup => DbInv(backup)'
         /\ DbInv(Current) /\ UNCHANGED data => DbInv(Current)'
  <1>1. \A o \in Order : known[o] \in Nat /\ known'[o] \in Nat
    BY OrdersAssumption DEF TypeOK
  <1>2. \A o \in Order : row[o].seq \in Nat /\ backup.row[o].seq \in Nat
    BY Fields, OrdersAssumption DEF Row
  <1>3. ASSUME DbInv(backup), backup' = backup PROVE DbInv(backup)'
    BY <1>1, <1>2, <1>3 DEF DbInv, OrderInv, Grows
  <1>4. ASSUME DbInv(Current), UNCHANGED data PROVE DbInv(Current)'
    BY <1>1, <1>2, <1>4 DEF DbInv, OrderInv, Grows, data, Current
  <1>5. QED BY <1>3, <1>4

\* One row changes, and neither its sequence nor its amount.
LEMMA DbRow ==
  ASSUME TypeOK, TypeOK', DbInv(Current), NEW o \in Order, NEW r \in Row,
         row' = [row EXCEPT ![o] = r], UNCHANGED <<seen, ledger, known, reports>>, Grows,
         o \in made', r.seq = row[o].seq, r.refunded = row[o].refunded,
         row[o].bound => r.bound, r.status # "absent",
         \/ o \in clobbered'
         \/ row[o].seq = 0 /\ row[o].status \notin Paid /\ r.status \notin Paid
         \/ r.status = row[o].status
  PROVE  DbInv(Current)'
  <1>1. row \in [Order -> Row] /\ row'[o] = r /\ \A q \in Order \ {o} : row'[q] = row[q]
    BY Fields
  <1>2. row[o] \in Row /\ row[o].seq \in Nat
    BY Fields, OrdersAssumption DEF Row
  <1>3. ASSUME NEW q \in Order \ {o} PROVE OrderInv(Current, q)'
    BY <1>1 DEF DbInv, OrderInv, Current, Grows
  <1>4. /\ row'[o].seq > 0 => row'[o].bound
        /\ row'[o].status # "absent"
        /\ row'[o].seq <= known'[o]
        /\ \A n \in seen'[o] : n <= row'[o].seq
    BY <1>1, <1>2 DEF DbInv, OrderInv, Current
  <1>5. o \notin clobbered' =>
          /\ ledger'[o].paid = IF row'[o].status \in Paid THEN 1 ELSE 0
          /\ ledger'[o].refunded = row'[o].refunded
          /\ row'[o].status \in Paid \/ row'[o].seq > 0 =>
               \E e \in reports' : /\ e.order = o /\ e.seq = row'[o].seq
                                   /\ e.status = row'[o].status
                                   /\ e.refunded = row'[o].refunded
    BY <1>1, <1>2 DEF DbInv, OrderInv, Current, Grows
  <1>6. OrderInv(Current, o)'
    BY <1>1, <1>2, <1>4, <1>5 DEF OrderInv, Current
  <1>7. QED BY <1>3, <1>6 DEF DbInv

\* An order that was not overwritten and is still open has had no report.
LEMMA OpenUnreported ==
  ASSUME TypeOK, DbInv(Current), NEW o \in Order \ clobbered,
         row[o].status \in {"pending", "checkout_pending"}
  PROVE  row[o].seq = 0
  <1>1. row[o].seq \in Nat
    BY Fields, OrdersAssumption DEF Row
  <1>2. \A e \in reports : e.status \in Paid \cup Closed
    BY DEF TypeOK, Report
  <1>3. row[o].status \notin Paid \cup Closed
    BY DEF Paid, Closed
  <1>4. QED BY <1>1, <1>2, <1>3 DEF DbInv, OrderInv, Current

LEMMA DbMake ==
  ASSUME TypeOK, TypeOK', DbInv(Current), NEW o \in Order, CreateOrder(o) \/ CancelOrder(o)
  PROVE  Grows /\ DbInv(Current)'
  <1>1. PICK s \in {"pending", "cancelled"} :
          /\ row' = [row EXCEPT ![o].status = s]
          /\ s = "pending" => CreateOrder(o)
          /\ s = "cancelled" => CancelOrder(o)
    BY DEF CreateOrder, CancelOrder
  <1> DEFINE r == [row[o] EXCEPT !.status = s]
  <1>2. row[o] \in Row /\ row' = [row EXCEPT ![o] = r]
    BY <1>1, Fields
  <1>3. r \in Row /\ r.seq = row[o].seq /\ r.refunded = row[o].refunded /\ r.bound = row[o].bound
        /\ r.status = s
    BY <1>1, <1>2 DEF Row, Status, Closed
  <1>4. /\ UNCHANGED <<seen, ledger, known, reports, clobbered>> /\ made \subseteq made'
        /\ o \in made \/ o \in made'
    <2>1. CASE CreateOrder(o)
      BY <2>1 DEF CreateOrder, provider
    <2>2. CASE CancelOrder(o)
      <3>1. row[o] # Absent
        BY <2>2 DEF CancelOrder, Absent
      <3>2. o \in made
        BY <3>1 DEF DbInv, OrderInv, Current
      <3>3. QED BY <2>2, <3>2 DEF CancelOrder, provider, history
    <2>3. QED BY <2>1, <2>2
  <1>5. Grows
    BY <1>4, OrdersAssumption DEF Grows, TypeOK
  <1>6. \/ o \in clobbered'
        \/ row[o].seq = 0 /\ row[o].status \notin Paid /\ r.status \notin Paid
    <2>1. CASE s = "pending"
      <3>1. row[o] = Absent
        BY <1>1, <2>1 DEF CreateOrder, DbInv, OrderInv, Current
      <3>2. QED BY <1>3, <2>1, <3>1 DEF Absent, Paid
    <2>2. CASE s = "cancelled"
      <3>1. row[o].status = "pending"
        BY <1>1, <2>2 DEF CancelOrder
      <3>2. QED BY <1>3, <1>4, <2>2, <3>1, OpenUnreported DEF Paid
    <2>3. QED BY <1>1, <2>1, <2>2
  <1> HIDE DEF r
  <1>7. QED BY <1>2, <1>3, <1>4, <1>5, <1>6, DbRow DEF Grows

LEMMA DbCheckoutWrite ==
  ASSUME TypeOK, TypeOK', DbInv(Current), CallInv, NEW p \in Process, CheckoutWrite(p)
  PROVE  Grows /\ DbInv(Current)'
  <1> DEFINE o == call[p].order
             r == [row[o] EXCEPT !.status = "checkout_pending", !.bound = TRUE]
  <1>1. o \in Order /\ o \in made
    BY CallTypes DEF CheckoutWrite, CallInv, RequestInv, DbInv, OrderInv, Current, Absent
  <1>2. row[o] \in Row /\ row \in [Order -> Row]
    BY <1>1, Fields
  <1>3. row' = [row EXCEPT ![o] = r]
    <2>1. row' = [row EXCEPT ![o].status = "checkout_pending", ![o].bound = TRUE]
      BY DEF CheckoutWrite
    <2>2. QED BY <1>1, <1>2, <2>1 DEF Row
  <1>4. r \in Row /\ r.seq = row[o].seq /\ r.refunded = row[o].refunded /\ r.bound
        /\ r.status = "checkout_pending"
    BY <1>2 DEF Row, Status
  <1>5. UNCHANGED <<seen, ledger, known, reports, made>> /\ clobbered \subseteq clobbered'
    BY DEF CheckoutWrite
  <1>6. Grows
    BY <1>5, OrdersAssumption DEF Grows, TypeOK
  <1>7. \/ o \in clobbered'
        \/ row[o].seq = 0 /\ row[o].status \notin Paid /\ r.status \notin Paid
    <2>1. CASE row[o].status \in {"pending", "checkout_pending"}
      BY <1>1, <1>4, <1>5, <2>1, OpenUnreported DEF Paid
    <2>2. CASE row[o].status \notin {"pending", "checkout_pending"}
      BY <2>2 DEF CheckoutWrite
    <2>3. QED BY <2>1, <2>2
  <1> HIDE DEF o, r
  <1>8. QED BY <1>1, <1>3, <1>4, <1>5, <1>6, <1>7, DbRow

LEMMA DbBind ==
  ASSUME TypeOK, TypeOK', DbInv(Current), CallInv, NEW p \in Process, Bind(p)
  PROVE  Grows /\ DbInv(Current)'
  <1> DEFINE o == call[p].order
             r == [row[o] EXCEPT !.bound = TRUE]
  <1>1. o \in Order /\ o \in made /\ row[o].status # "absent"
    BY CallTypes DEF Bind, CallInv, RequestInv, DbInv, OrderInv, Current, Absent
  <1>2. row[o] \in Row /\ row' = [row EXCEPT ![o] = r]
    BY <1>1, Fields DEF Bind
  <1>3. r \in Row /\ r.seq = row[o].seq /\ r.refunded = row[o].refunded /\ r.bound
        /\ r.status = row[o].status
    BY <1>2 DEF Row
  <1>4. UNCHANGED <<seen, ledger, known, reports, made, clobbered>>
    BY DEF Bind, provider, history
  <1>5. Grows
    BY <1>4, OrdersAssumption DEF Grows, TypeOK
  <1> HIDE DEF o, r
  <1>6. QED BY <1>1, <1>2, <1>3, <1>4, <1>5, DbRow

\* What a report does that is neither repeated nor older than the order.
LEMMA ApplyFacts ==
  ASSUME TypeOK, NEW e \in Report, Apply(e), ~Duplicate(e), ~Stale(e)
  PROVE  LET o == e.order IN
         /\ o \in Order /\ row[o].bound /\ row[o].seq < e.seq /\ ~BelowMark(e) /\ ~Refused(e)
         /\ row[o].refunded <= e.refunded
         /\ row'[o] = [row[o] EXCEPT !.status = e.status, !.refunded = e.refunded, !.seq = e.seq]
         /\ row'[o].status = e.status /\ row'[o].refunded = e.refunded /\ row'[o].seq = e.seq
         /\ row'[o].bound
         /\ seen'[o] = seen[o] \cup {e.seq}
         /\ ledger'[o].paid = ledger[o].paid + IF Pays(e) THEN 1 ELSE 0
         /\ ledger'[o].refunded = ledger[o].refunded + e.refunded - row[o].refunded
         /\ known'[o] = IF known[o] < e.seq THEN e.seq ELSE known[o]
         /\ \A q \in Order \ {o} : /\ row'[q] = row[q] /\ seen'[q] = seen[q]
                                   /\ ledger'[q] = ledger[q] /\ known'[q] = known[q]
  <1> DEFINE o == e.order
  <1>1. /\ o \in Order /\ e.seq \in 1..MaxSeq /\ e.refunded \in 0..Amount
        /\ row \in [Order -> Row] /\ row[o] \in Row /\ ledger \in [Order -> Entries]
        /\ ledger[o] \in Entries /\ seen \in [Order -> SUBSET (1..MaxSeq)]
        /\ known \in [Order -> 0..MaxSeq]
    <2>1. o \in Order /\ e.seq \in 1..MaxSeq /\ e.refunded \in 0..Amount
      BY DEF Report
    <2>2. QED BY <2>1, Fields DEF TypeOK
  <1>2. /\ row[o].bound /\ ~BelowMark(e) /\ ~Refused(e)
        /\ seen' = [seen EXCEPT ![o] = @ \cup {e.seq}]
        /\ row' = [row EXCEPT ![o].status = e.status, ![o].refunded = e.refunded, ![o].seq = e.seq]
        /\ ledger' = [ledger EXCEPT ![o].paid = @ + (IF Pays(e) THEN 1 ELSE 0),
                                    ![o].refunded = @ + e.refunded - row[o].refunded]
        /\ known' = [known EXCEPT ![o] = IF @ < e.seq THEN e.seq ELSE @]
    BY DEF Apply
  <1>3. row[o].seq < e.seq /\ row[o].refunded <= e.refunded
    <2>1. row[o].seq \in Nat /\ row[o].refunded \in Nat /\ e.seq \in Nat /\ e.refunded \in Nat
      BY <1>1, OrdersAssumption DEF Row
    <2>2. QED BY <1>2, <2>1 DEF Stale, Refused
  <1>4. /\ row'[o] = [row[o] EXCEPT !.status = e.status, !.refunded = e.refunded, !.seq = e.seq]
        /\ \A q \in Order \ {o} : row'[q] = row[q]
    BY <1>1, <1>2 DEF Row
  <1>5. /\ row'[o].status = e.status /\ row'[o].refunded = e.refunded /\ row'[o].seq = e.seq
        /\ row'[o].bound
    BY <1>1, <1>2, <1>4 DEF Row
  <1>6. /\ seen'[o] = seen[o] \cup {e.seq}
        /\ known'[o] = IF known[o] < e.seq THEN e.seq ELSE known[o]
        /\ \A q \in Order \ {o} : seen'[q] = seen[q] /\ known'[q] = known[q]
    BY <1>1, <1>2
  <1>7. /\ ledger'[o].paid = ledger[o].paid + IF Pays(e) THEN 1 ELSE 0
        /\ ledger'[o].refunded = ledger[o].refunded + e.refunded - row[o].refunded
        /\ \A q \in Order \ {o} : ledger'[q] = ledger[q]
    BY <1>1, <1>2 DEF Entries
  <1>8. QED BY <1>1, <1>2, <1>3, <1>4, <1>5, <1>6, <1>7

LEMMA DbApply ==
  ASSUME TypeOK, TypeOK', DbInv(Current), NEW e \in reports, Apply(e),
         UNCHANGED <<made, clobbered, reports>>
  PROVE  Grows /\ DbInv(Current)'
  <1> DEFINE o == e.order
  <1>1. e \in Report /\ o \in Order /\ e.seq \in Nat /\ e.refunded \in Nat
        /\ e.status \in Paid \cup Closed
    <2>1. e \in Report
      BY DEF TypeOK
    <2>2. QED BY <2>1, OrdersAssumption DEF Report
  <1>2. \A q \in Order : /\ row[q].seq \in Nat /\ row[q].refunded \in Nat /\ known[q] \in Nat
                         /\ ledger[q].paid \in Nat /\ ledger[q].refunded \in Nat
    BY Fields, OrdersAssumption DEF Row, Entries, TypeOK
  <1>3. CASE Duplicate(e)
    <2>1. UNCHANGED data /\ Grows
      BY <1>2, <1>3 DEF Apply, Grows
    <2>2. QED BY <2>1, DbKept
  <1>4. CASE ~Duplicate(e) /\ Stale(e)
    <2>1. /\ UNCHANGED <<row, ledger, known>> /\ seen' = [seen EXCEPT ![o] = @ \cup {e.seq}]
          /\ e.seq <= row[o].seq
      BY <1>4 DEF Apply, Stale
    <2>2. \A q \in Order : \A n \in seen'[q] : n \in seen[q] \/ (q = o /\ n = e.seq)
      BY <1>1, <2>1, Fields
    <2>3. Grows
      BY <1>2, <2>1 DEF Grows
    <2>4. QED BY <2>1, <2>2, <2>3 DEF DbInv, OrderInv, Current
  <1>5. CASE ~Duplicate(e) /\ ~Stale(e)
    <2>1. /\ row[o].bound /\ row[o].seq < e.seq /\ ~Refused(e)
          /\ row'[o].status = e.status /\ row'[o].refunded = e.refunded /\ row'[o].seq = e.seq
          /\ row'[o].bound /\ row'[o].status # "absent"
          /\ seen'[o] = seen[o] \cup {e.seq}
          /\ ledger'[o].paid = ledger[o].paid + IF Pays(e) THEN 1 ELSE 0
          /\ ledger'[o].refunded = ledger[o].refunded + e.refunded - row[o].refunded
          /\ known'[o] = IF known[o] < e.seq THEN e.seq ELSE known[o]
          /\ \A q \in Order \ {o} : /\ row'[q] = row[q] /\ seen'[q] = seen[q]
                                    /\ ledger'[q] = ledger[q] /\ known'[q] = known[q]
      BY <1>1, <1>5, ApplyFacts DEF Paid, Closed
    <2>2. Grows
      BY <1>1, <1>2, <2>1 DEF Grows
    <2>3. o \in made
      BY <1>1, <2>1 DEF DbInv, OrderInv, Current, Absent
    <2>4. \A n \in seen'[o] : n <= row'[o].seq
      <3>1. \A n \in seen[o] : n \in Nat /\ n <= row[o].seq
        BY <1>1, Fields DEF DbInv, OrderInv, Current
      <3>2. QED BY <1>1, <1>2, <2>1, <3>1
    <2>5. o \notin clobbered =>
            /\ ledger'[o].paid = IF row'[o].status \in Paid THEN 1 ELSE 0
            /\ ledger'[o].refunded = row'[o].refunded
      <3>1. o \notin clobbered =>
              /\ ledger[o].paid = IF row[o].status \in Paid THEN 1 ELSE 0
              /\ ledger[o].refunded = row[o].refunded
        BY <1>1 DEF DbInv, OrderInv, Current
      <3>2. row[o].status \in Paid => e.status \in Paid
        BY <1>1, <2>1 DEF Refused
      <3>3. QED BY <1>1, <1>2, <2>1, <3>1, <3>2 DEF Pays
    <2>6. \E f \in reports' : /\ f.order = o /\ f.seq = row'[o].seq
                              /\ f.status = row'[o].status /\ f.refunded = row'[o].refunded
      BY <2>1
    <2>7. row'[o].seq <= known'[o]
      BY <1>1, <1>2, <2>1
    <2>8. ASSUME NEW q \in Order \ {o} PROVE OrderInv(Current, q)'
      BY <2>1 DEF DbInv, OrderInv, Current
    <2>9. OrderInv(Current, o)'
      BY <2>1, <2>3, <2>4, <2>5, <2>6, <2>7 DEF OrderInv, Current
    <2>10. QED BY <2>2, <2>8, <2>9 DEF DbInv
  <1>6. QED BY <1>3, <1>4, <1>5

\* A step that leaves the orders alone.
Still ==
  /\ UNCHANGED <<row, inventory, seen, ledger, backup, history>>
  /\ reports \subseteq reports'

LEMMA StillProvide ==
  ASSUME Provide PROVE Still /\ UNCHANGED <<data, hold, sent>>
  <1>1. ASSUME NEW o \in Order, Opens(o) \/ Settles(o) \/ RefundsByItself(o)
        PROVE  Still /\ UNCHANGED <<data, hold, sent>>
    BY <1>1 DEF Opens, Settles, RefundsByItself, Refunds, Reports, Still, data, hold
  <1>2. ASSUME NEW k \in Command, Executes(k) PROVE Still /\ UNCHANGED <<data, hold, sent>>
    BY <1>2 DEF Executes, Refunds, Reports, Still, data, hold
  <1>3. ASSUME NEW p \in Process, Answers(p) PROVE Still /\ UNCHANGED <<data, hold, sent>>
    BY <1>3 DEF Answers, Reports, Still, data, hold
  <1>4. QED BY <1>1, <1>2, <1>3 DEF Provide

\* A request that only reads, or that only writes commands and the hold.
LEMMA StillServe ==
  ASSUME NEW p \in Process
  PROVE  /\ \A o \in Order :
              CheckoutRead(p, o) \/ RefundRead(p, o) \/ ReconcileAsk(p, o) =>
                Still /\ UNCHANGED <<data, hold, provider>>
         /\ \A k \in Command :
              /\ RefundAgain(p, k) => Still /\ UNCHANGED <<data, hold, provider>>
              /\ \A a \in 1..Amount : RefundAdmit(p, k, a) => Still
         /\ CallDies(p) => Still /\ UNCHANGED <<data, hold, provider>>
         /\ RefundDone(p) \/ Confirm(p) => Still
  BY DEF CheckoutRead, RefundRead, ReconcileAsk, RefundAgain, RefundAdmit, CallDies, RefundDone,
         Confirm, Still, data, provider

LEMMA DbStill ==
  ASSUME TypeOK, TypeOK', DbInv(Current), DbInv(backup), Still
  PROVE  Grows /\ DbInv(Current)' /\ DbInv(backup)'
  <1>1. Grows
    BY OrdersAssumption DEF Still, Grows, history, TypeOK
  <1>2. \A o \in Order : OrderInv(Current, o)' /\ OrderInv(backup, o)'
    BY DEF Still, history, DbInv, OrderInv, Current
  <1>3. QED BY <1>1, <1>2 DEF DbInv

LEMMA DbBackup ==
  ASSUME TypeOK, DbInv(Current), DbInv(backup), Backup \/ Restore
  PROVE  Grows /\ DbInv(Current)' /\ DbInv(backup)'
  <1>1. UNCHANGED <<made, known, clobbered, reports>>
    BY DEF Backup, Restore, provider, history
  <1>2. Grows
    BY <1>1, OrdersAssumption DEF Grows, TypeOK
  <1>3. \A o \in Order : OrderInv(Current, o)'
    <2>1. CASE Backup
      BY <1>1, <2>1 DEF Backup, data, DbInv, OrderInv, Current
    <2>2. CASE Restore
      BY <1>1, <2>2 DEF Restore, DbInv, OrderInv, Current
    <2>3. QED BY <2>1, <2>2
  <1>4. \A o \in Order : OrderInv(backup, o)'
    <2>1. CASE backup' = Current \/ backup' = backup
      BY <1>1, <2>1 DEF DbInv, OrderInv, Current
    <2>2. CASE backup' = Empty
      <3>1. \A o \in Order : known[o] \in Nat
        BY OrdersAssumption DEF TypeOK
      <3>2. QED BY <1>1, <2>2, <3>1 DEF OrderInv, Empty, Absent, Paid
    <2>3. QED BY <2>1, <2>2 DEF Backup, Restore
  <1>5. QED BY <1>2, <1>3, <1>4 DEF DbInv

\* The report a request applies was sent for its order.
LEMMA Applied ==
  ASSUME CallInv, NEW p \in Process, ReconcileApply(p)
  PROVE  call[p].report \in reports /\ Apply(call[p].report)
  BY DEF ReconcileApply, CallInv, RequestInv

LEMMA DbStep ==
  ASSUME TypeOK, TypeOK', DbInv(Current), DbInv(backup), CallInv, [Next]_vars
  PROVE  Grows /\ DbInv(Current)' /\ DbInv(backup)'
  <1>1. ASSUME NEW o \in Order, CreateOrder(o) \/ CancelOrder(o)
        PROVE  Grows /\ DbInv(Current)' /\ DbInv(backup)'
    <2>1. backup' = backup
      BY <1>1 DEF CreateOrder, CancelOrder
    <2>2. QED BY <1>1, <2>1, DbMake, DbKept
  <1>2. ASSUME NEW e \in reports, Apply(e), UNCHANGED <<backup, made, clobbered, reports>>
        PROVE  Grows /\ DbInv(Current)' /\ DbInv(backup)'
    BY <1>2, DbApply, DbKept
  <1>3. ASSUME NEW e \in reports, Webhook(e)
        PROVE  Grows /\ DbInv(Current)' /\ DbInv(backup)'
    BY <1>2, <1>3 DEF Webhook, provider
  <1>4. ASSUME NEW p \in Process, Serve(p)
        PROVE  Grows /\ DbInv(Current)' /\ DbInv(backup)'
    <2>1. CASE CheckoutWrite(p) \/ Bind(p)
      <3>1. backup' = backup
        BY <2>1 DEF CheckoutWrite, Bind
      <3>2. QED BY <2>1, <3>1, DbCheckoutWrite, DbBind, DbKept
    <2>2. CASE ReconcileApply(p)
      <3>1. UNCHANGED <<backup, made, clobbered, reports>>
        BY <2>2 DEF ReconcileApply, provider
      <3>2. QED BY <1>2, <2>2, <3>1, Applied
    <2>3. CASE Still
      BY <2>3, DbStill
    <2>4. QED BY <1>4, <2>1, <2>2, <2>3, StillServe DEF Serve
  <1>5. CASE Provide
    BY <1>5, StillProvide, DbStill
  <1>6. CASE UNCHANGED vars
    <2>1. Still
      BY <1>6 DEF vars, data, provider, Still
    <2>2. QED BY <2>1, DbStill
  <1>7. QED BY <1>1, <1>3, <1>4, <1>5, <1>6, DbBackup DEF Next

-----------------------------------------------------------------------------
(* Commands                                                                *)

\* Commands are settled, never reopened.
LEMMA CommandSettled ==
  ASSUME CommandInv(Current), sent' = sent,
         \A k \in Command : /\ command'[k] # "absent" => sent[k] # Unsent
                            /\ command'[k] \in Outstanding => command[k] \in Outstanding
  PROVE  CommandInv(Current)'
  BY DEF CommandInv, Current

LEMMA ApplySettles ==
  ASSUME TypeOK, NEW e \in Report, Apply(e)
  PROVE  \A k \in Command : \/ command'[k] = command[k]
                            \/ command[k] \in Outstanding /\ command'[k] = "verified"
  <1>1. CASE Duplicate(e) \/ Stale(e)
    BY <1>1 DEF Apply, data
  <1>2. CASE ~Duplicate(e) /\ ~Stale(e)
    <2>1. command' = [k \in Command |-> IF Verifies(e, k) THEN "verified" ELSE command[k]]
      BY <1>2 DEF Apply
    <2>2. QED BY <2>1 DEF Verifies
  <1>3. QED BY <1>1, <1>2

LEMMA CommandApply ==
  ASSUME TypeOK, CommandInv(Current), NEW e \in Report, Apply(e), sent' = sent
  PROVE  CommandInv(Current)'
  <1>1. \A k \in Command : /\ command'[k] # "absent" => sent[k] # Unsent
                           /\ command'[k] \in Outstanding => command[k] \in Outstanding
    BY ApplySettles DEF CommandInv, Current, Outstanding
  <1>2. QED BY <1>1, CommandSettled

LEMMA CommandAdmit ==
  ASSUME TypeOK, CommandInv(Current), CommandInv(backup),
         NEW p \in Process, NEW k \in Command, NEW a \in 1..Amount, RefundAdmit(p, k, a)
  PROVE  CommandInv(Current)' /\ CommandInv(backup)'
  <1> DEFINE o == call[p].order
             r == [order |-> o, amount |-> a]
  <1>1. /\ command' = [command EXCEPT ![k] = "pending"] /\ sent' = [sent EXCEPT ![k] = r]
        /\ backup' = backup /\ sent[k] = Unsent /\ ~Awaits(o)
    BY DEF RefundAdmit
  <1>2. command[k] = "absent" /\ backup.command[k] = "absent"
    BY <1>1 DEF CommandInv, Current
  <1>3. o \in Order
    BY CallTypes DEF RefundAdmit
  <1>4. r # Unsent
    BY OrdersAssumption DEF Unsent
  <1>5. /\ command'[k] = "pending" /\ sent'[k] = r
        /\ \A l \in Command \ {k} : command'[l] = command[l] /\ sent'[l] = sent[l]
    BY <1>1, Fields DEF TypeOK
  <1>6. r.order = o
    OBVIOUS
  <1> HIDE DEF r
  <1>7. \A l \in Command \ {k} : sent'[l].order = sent'[k].order => command'[l] \notin Outstanding
    BY <1>1, <1>5, <1>6 DEF Awaits
  <1>8. CommandInv(Current)'
    BY <1>4, <1>5, <1>7 DEF CommandInv, Current
  <1>9. CommandInv(backup)'
    BY <1>1, <1>2, <1>4, <1>5 DEF CommandInv, Outstanding
  <1>10. QED BY <1>8, <1>9

LEMMA CommandConfirm ==
  ASSUME TypeOK, CommandInv(Current), HoldInv, NEW p \in Process, Confirm(p) \/ RefundDone(p)
  PROVE  CommandInv(Current)'
  <1>1. sent' = sent
    BY DEF Confirm, RefundDone, provider
  <1>2. CASE Confirm(p)
    <2>1. \A k \in Command : command'[k] = IF k \in call[p].listed \cap retained
                                           THEN "verified" ELSE command[k]
      BY <1>2 DEF Confirm
    <2>2. \A k \in Command : /\ command'[k] # "absent" => sent[k] # Unsent
                             /\ command'[k] \in Outstanding => command[k] \in Outstanding
      BY <2>1 DEF HoldInv, CommandInv, Current, Outstanding
    <2>3. QED BY <1>1, <2>2, CommandSettled
  <1>3. CASE RefundDone(p)
    <2>1. \A k \in Command : \/ command'[k] = command[k]
                             \/ command[k] = "pending" /\ command'[k] = "requested"
      BY <1>3, Fields DEF RefundDone
    <2>2. \A k \in Command : /\ command'[k] # "absent" => sent[k] # Unsent
                             /\ command'[k] \in Outstanding => command[k] \in Outstanding
      BY <2>1 DEF CommandInv, Current, Outstanding
    <2>3. QED BY <1>1, <2>2, CommandSettled
  <1>4. QED BY <1>2, <1>3

LEMMA CommandStep ==
  ASSUME TypeOK, CommandInv(Current), CommandInv(backup), HoldInv, CallInv, [Next]_vars
  PROVE  CommandInv(Current)' /\ CommandInv(backup)'
  <1>1. CASE sent' = sent /\ backup' = backup /\ CommandInv(Current)'
    BY <1>1 DEF CommandInv
  <1>2. ASSUME command' = command, sent' = sent PROVE CommandInv(Current)'
    BY <1>2 DEF CommandInv, Current
  <1>3. ASSUME NEW o \in Order, CreateOrder(o) \/ CancelOrder(o)
        PROVE  CommandInv(Current)' /\ CommandInv(backup)'
    BY <1>1, <1>2, <1>3 DEF CreateOrder, CancelOrder, provider
  <1>4. ASSUME NEW e \in reports, Apply(e), UNCHANGED <<backup, provider>>
        PROVE  CommandInv(Current)' /\ CommandInv(backup)'
    <2>1. e \in Report
      BY DEF TypeOK
    <2>2. QED BY <1>1, <1>4, <2>1, CommandApply DEF provider
  <1>5. ASSUME NEW e \in reports, Webhook(e) PROVE CommandInv(Current)' /\ CommandInv(backup)'
    BY <1>4, <1>5 DEF Webhook
  <1>6. ASSUME NEW p \in Process, Serve(p)
        PROVE  CommandInv(Current)' /\ CommandInv(backup)'
    <2>1. CASE ReconcileApply(p)
      <3>1. UNCHANGED <<backup, provider>>
        BY <2>1 DEF ReconcileApply
      <3>2. QED BY <1>4, <2>1, <3>1, Applied
    <2>2. CASE Confirm(p) \/ RefundDone(p)
      <3>1. sent' = sent /\ backup' = backup
        BY <2>2 DEF Confirm, RefundDone, provider
      <3>2. QED BY <1>1, <2>2, <3>1, CommandConfirm
    <2>3. ASSUME NEW k \in Command, NEW a \in 1..Amount, RefundAdmit(p, k, a)
          PROVE  CommandInv(Current)' /\ CommandInv(backup)'
      BY <2>3, CommandAdmit
    <2>4. CASE CheckoutWrite(p) \/ Bind(p)
      BY <1>1, <1>2, <2>4 DEF CheckoutWrite, Bind, provider
    <2>5. CASE Still /\ UNCHANGED <<data, hold, provider>>
      BY <1>1, <1>2, <2>5 DEF Still, data, provider
    <2>6. QED BY <1>6, <2>1, <2>2, <2>3, <2>4, <2>5, StillServe DEF Serve
  <1>7. CASE Provide
    BY <1>1, <1>2, <1>7, StillProvide DEF Still, data
  <1>8. CASE UNCHANGED vars
    BY <1>1, <1>2, <1>8 DEF vars, data, provider
  <1>9. CASE Backup
    BY <1>9 DEF Backup, data, provider, CommandInv, Current
  <1>10. CASE Restore
    <2>1. sent' = sent /\ command' = backup.command /\ backup' \in {backup, Empty}
      BY <1>10 DEF Restore, provider
    <2>2. CommandInv(Current)'
      BY <2>1 DEF CommandInv, Current
    <2>3. CommandInv(backup)'
      BY <2>1 DEF CommandInv, Empty, Outstanding
    <2>4. QED BY <2>2, <2>3
  <1>11. QED BY <1>3, <1>5, <1>6, <1>7, <1>8, <1>9, <1>10 DEF Next

-----------------------------------------------------------------------------
(* What is known of an order                                               *)

\* A report leaves the order no further behind, and one that is applied or was
\* applied before leaves it with all that is known.
LEMMA ApplyKnown ==
  ASSUME TypeOK, DbInv(Current), HoldInv, NEW e \in reports, Apply(e)
  PROVE  /\ \A q \in Order : /\ known[q] <= row[q].seq => known'[q] <= row'[q].seq
                             /\ known[q] = row[q].seq => known'[q] = row'[q].seq
                             /\ \/ known'[q] = known[q] /\ row'[q].seq = row[q].seq
                                \/ q \notin forgotten => known'[q] <= row'[q].seq
                             /\ row[q].status # "absent" => row'[q].status # "absent"
                             /\ row[q].bound => row'[q].bound
         /\ (Duplicate(e) \/ ~Stale(e)) /\ e.order \notin forgotten =>
              known'[e.order] <= row'[e.order].seq
  <1> DEFINE o == e.order
  <1>1. e \in Report /\ o \in Order /\ e.seq \in Nat /\ e.status # "absent"
    <2>1. e \in Report
      BY DEF TypeOK
    <2>2. QED BY <2>1, OrdersAssumption DEF Report, Paid, Closed
  <1>2. \A q \in Order : row[q].seq \in Nat /\ known[q] \in Nat /\ mark[q].seq \in Nat
    BY Fields, OrdersAssumption DEF Row, TypeOK
  <1>3. o \notin forgotten /\ ~BelowMark(e) => known[o] <= row[o].seq \/ known[o] <= e.seq
    BY <1>1, <1>2 DEF HoldInv, BelowMark
  <1>4. CASE Duplicate(e)
    <2>1. row' = row /\ known' = known /\ ~BelowMark(e)
      BY <1>4 DEF Apply, data
    <2>2. e.seq <= row[o].seq
      BY <1>1, <1>4 DEF Duplicate, DbInv, OrderInv, Current
    <2>3. o \notin forgotten => known'[o] <= row'[o].seq
      BY <1>1, <1>2, <1>3, <2>1, <2>2
    <2>4. QED BY <2>1, <2>3
  <1>5. CASE ~Duplicate(e) /\ Stale(e)
    BY <1>5 DEF Apply
  <1>6. CASE ~Duplicate(e) /\ ~Stale(e)
    <2>1. /\ row[o].seq < e.seq /\ ~BelowMark(e) /\ row'[o].seq = e.seq /\ row'[o].bound
          /\ row'[o].status = e.status
          /\ known'[o] = IF known[o] < e.seq THEN e.seq ELSE known[o]
          /\ \A q \in Order \ {o} : row'[q] = row[q] /\ known'[q] = known[q]
      BY <1>1, <1>6, ApplyFacts
    <2>2. known[o] <= row[o].seq \/ o \notin forgotten => known'[o] = e.seq
      BY <1>1, <1>2, <1>3, <2>1
    <2>3. QED BY <1>1, <1>2, <2>1, <2>2
  <1>7. QED BY <1>4, <1>5, <1>6

\* Nothing of an order but its status or its provider changes.
SameSeq == \A q \in Order : row'[q].seq = row[q].seq

\* The hold stands when nothing was applied and no command reopened.
LEMMA HoldKept ==
  ASSUME TypeOK, HoldInv, SameSeq, UNCHANGED <<hold, known, forgotten, restores>>,
         \A k \in Command : sent[k] # Unsent => sent'[k] = sent[k],
         \A k \in Command : /\ command[k] = "verified" => command'[k] = "verified"
  PROVE  HoldInv'
  <1>1. lost \subseteq retained /\ retained \subseteq Command
    BY DEF TypeOK
  <1>2. \A k \in retained : sent[k] # Unsent /\ sent'[k] = sent[k]
    BY <1>1 DEF HoldInv
  <1>3. QED BY <1>1, <1>2 DEF HoldInv, SameSeq, hold

LEMMA HoldApply ==
  ASSUME TypeOK, TypeOK', DbInv(Current), DbInv(Current)', HoldInv, NEW e \in reports, Apply(e),
         UNCHANGED <<hold, provider, forgotten, restores>>
  PROVE  HoldInv'
  <1>1. UNCHANGED <<held, mark, retained, lost, sent>>
    BY DEF hold, provider
  <1>2. \A q \in Order : /\ row[q].seq \in Nat /\ known[q] \in Nat /\ mark[q].seq \in Nat
                         /\ row'[q].seq \in Nat /\ known'[q] \in Nat
    BY Fields, <1>1, OrdersAssumption DEF Row, TypeOK, Current, Data
  <1>3. ASSUME NEW o \in Order PROVE
          /\ o \notin forgotten' =>
               known'[o] <= row'[o].seq \/ (mark'[o].bound /\ known'[o] <= mark'[o].seq)
          /\ o \notin held' \cup forgotten' => row'[o].seq = known'[o]
    BY <1>1, <1>2, ApplyKnown DEF HoldInv
  <1>4. \A k \in Command : command[k] = "verified" => command'[k] = "verified"
    <2>1. e \in Report
      BY DEF TypeOK
    <2>2. QED BY <2>1, ApplySettles
  <1>5. QED BY <1>1, <1>3, <1>4 DEF HoldInv, TypeOK

LEMMA HoldConfirm ==
  ASSUME TypeOK, DbInv(Current), HoldInv, CallInv, NEW p \in Process, Confirm(p)
  PROVE  HoldInv'
  <1> DEFINE o == call[p].order
             verified == [k \in Command |->
               IF k \in call[p].listed \cap retained THEN "verified" ELSE command[k]]
             settled == \A k \in lost : sent[k].order = o => verified[k] = "verified"
  <1>1. /\ command' = verified /\ held' = IF call[p].ok /\ settled THEN held \ {o} ELSE held
        /\ UNCHANGED <<row, mark, retained, lost, sent, known, forgotten, restores>>
        /\ call[p].op = "confirm"
    BY DEF Confirm, provider, history
  <1>2. o \in Order /\ lost \subseteq Command
    BY <1>1, CallTypes DEF TypeOK
  <1>3. \A k \in Command : command[k] = "verified" => command'[k] = "verified"
    BY <1>1
  <1> HIDE DEF verified
  <1>4. \A k \in lost : sent'[k].order \notin held' => command'[k] = "verified"
    BY <1>1, <1>2, <1>3 DEF HoldInv
  <1>5. \A q \in Order : q \notin held' \cup forgotten => row[q].seq = known[q]
    <2>1. call[p].ok /\ o \notin forgotten => known[o] <= row[o].seq
      BY <1>1 DEF CallInv, RequestInv
    <2>2. row[o].seq <= known[o] /\ row[o].seq \in Nat /\ known[o] \in Nat
      BY <1>2, Fields, OrdersAssumption DEF DbInv, OrderInv, Current, Row, TypeOK
    <2>3. QED BY <1>1, <1>2, <2>1, <2>2 DEF HoldInv
  <1>6. QED BY <1>1, <1>4, <1>5 DEF HoldInv

LEMMA HoldRestore ==
  ASSUME TypeOK, DbInv(Current), CommandInv(Current), HoldInv, Restore
  PROVE  HoldInv'
  <1>1. /\ row' = backup.row /\ command' = backup.command /\ held' = {o \in Order : Differs(o)}
        /\ mark' = [o \in Order |->
             IF row[o].bound THEN [bound |-> TRUE, seq |-> row[o].seq] ELSE NoMark]
        /\ retained' = {k \in Command : command[k] \in Outstanding}
        /\ lost' = {k \in retained' : backup.command[k] # command[k]}
        /\ forgotten' = forgotten \cup held /\ restores' = restores + 1
        /\ UNCHANGED <<sent, known>>
    BY DEF Restore, provider
  <1>2. \A q \in Order : /\ row[q].seq \in Nat /\ known[q] \in Nat
                         /\ row'[q].seq \in Nat
    BY Fields, <1>1, OrdersAssumption DEF Row, TypeOK
  <1>3. ASSUME NEW o \in Order, o \notin forgotten'
        PROVE  known'[o] <= row'[o].seq \/ (mark'[o].bound /\ known'[o] <= mark'[o].seq)
    <2>1. row[o].seq = known[o]
      BY <1>1, <1>3 DEF HoldInv
    <2>2. row[o].seq > 0 => row[o].bound
      BY DEF DbInv, OrderInv, Current
    <2>3. CASE row[o].bound
      BY <1>1, <1>2, <2>1, <2>3
    <2>4. CASE ~row[o].bound
      BY <1>1, <1>2, <2>1, <2>2, <2>4
    <2>5. QED BY <2>3, <2>4
  <1>4. ASSUME NEW o \in Order, o \notin held' \cup forgotten' PROVE row'[o].seq = known'[o]
    BY <1>1, <1>4 DEF HoldInv, Differs
  <1>5. ASSUME NEW k \in retained' PROVE sent'[k] # Unsent /\ sent'[k].order \in Order
    <2>1. sent[k] # Unsent
      BY <1>1 DEF CommandInv, Current, Outstanding
    <2>2. QED BY <1>1, <2>1 DEF TypeOK, Request
  <1>6. ASSUME NEW k \in lost' PROVE sent'[k].order \in held'
    BY <1>1, <1>5 DEF Differs
  <1>7. restores' # 0
    BY <1>1 DEF TypeOK
  <1>8. QED BY <1>3, <1>4, <1>5, <1>6, <1>7 DEF HoldInv

\* What a request of the site does to the row of its order.
LEMMA RowFacts ==
  ASSUME TypeOK
  PROVE  /\ \A o \in Order :
              /\ CreateOrder(o) \/ CancelOrder(o) =>
                   /\ SameSeq
                   /\ \A q \in Order : row'[q].bound = row[q].bound
                   /\ \A q \in Order \ {o} : row'[q] = row[q]
              /\ CreateOrder(o) => row'[o].status = "pending"
              /\ CancelOrder(o) => row'[o].status = "cancelled"
         /\ \A p \in Process :
              CheckoutWrite(p) \/ Bind(p) =>
                /\ SameSeq
                /\ call[p].order \in Order /\ row'[call[p].order].bound
                /\ \A q \in Order \ {call[p].order} : row'[q] = row[q]
                /\ CheckoutWrite(p) => row'[call[p].order].status = "checkout_pending"
                /\ Bind(p) => row'[call[p].order].status = row[call[p].order].status
  <1>1. row \in [Order -> Row]
    BY Fields
  <1>2. ASSUME NEW o \in Order, CreateOrder(o) \/ CancelOrder(o)
        PROVE  /\ SameSeq
               /\ \A q \in Order : row'[q].bound = row[q].bound
               /\ \A q \in Order \ {o} : row'[q] = row[q]
               /\ CreateOrder(o) => row'[o].status = "pending"
               /\ CancelOrder(o) => row'[o].status = "cancelled"
    <2>1. row[o] \in Row
      BY <1>1
    <2>2. CASE CreateOrder(o)
      BY <1>1, <2>1, <2>2 DEF CreateOrder, CancelOrder, SameSeq, Row
    <2>3. CASE CancelOrder(o)
      BY <1>1, <2>1, <2>3 DEF CreateOrder, CancelOrder, SameSeq, Row
    <2>4. QED BY <1>2, <2>2, <2>3
  <1>3. ASSUME NEW p \in Process, CheckoutWrite(p) \/ Bind(p)
        PROVE  /\ SameSeq
               /\ call[p].order \in Order /\ row'[call[p].order].bound
               /\ \A q \in Order \ {call[p].order} : row'[q] = row[q]
               /\ CheckoutWrite(p) => row'[call[p].order].status = "checkout_pending"
               /\ Bind(p) => row'[call[p].order].status = row[call[p].order].status
    <2> DEFINE o == call[p].order
    <2>1. o \in Order
      BY <1>3, CallTypes DEF CheckoutWrite, Bind
    <2>2. row[o] \in Row
      BY <1>1, <2>1
    <2>3. CASE CheckoutWrite(p)
      <3>1. row' = [row EXCEPT ![o].status = "checkout_pending", ![o].bound = TRUE]
            /\ call[p].op = "checkout"
        BY <2>3 DEF CheckoutWrite
      <3> HIDE DEF o
      <3>2. /\ SameSeq /\ row'[o].bound /\ row'[o].status = "checkout_pending"
            /\ \A q \in Order \ {o} : row'[q] = row[q]
        BY <1>1, <2>1, <2>2, <3>1 DEF SameSeq, Row
      <3>3. ~Bind(p)
        BY <3>1 DEF Bind
      <3>4. QED BY <2>1, <3>2, <3>3 DEF o
    <2>4. CASE Bind(p)
      <3>1. row' = [row EXCEPT ![o].bound = TRUE] /\ call[p].op = "answered"
        BY <2>4 DEF Bind
      <3> HIDE DEF o
      <3>2. /\ SameSeq /\ row'[o].bound /\ row'[o].status = row[o].status
            /\ \A q \in Order \ {o} : row'[q] = row[q]
        BY <1>1, <2>1, <2>2, <3>1 DEF SameSeq, Row
      <3>3. ~CheckoutWrite(p)
        BY <3>1 DEF CheckoutWrite
      <3>4. QED BY <2>1, <3>2, <3>3 DEF o
    <2>5. QED BY <1>3, <2>3, <2>4
  <1>4. QED BY <1>2, <1>3

LEMMA HoldStep ==
  ASSUME TypeOK, TypeOK', DbInv(Current), DbInv(Current)', CommandInv(Current), HoldInv, CallInv,
         [Next]_vars
  PROVE  HoldInv'
  <1>1. ASSUME UNCHANGED <<row, hold, command, sent, known, forgotten, restores>> PROVE HoldInv'
    BY <1>1, HoldKept DEF SameSeq
  <1>2. ASSUME NEW o \in Order, CreateOrder(o) \/ CancelOrder(o) PROVE HoldInv'
    BY <1>2, HoldKept, RowFacts DEF CreateOrder, CancelOrder, provider, history
  <1>3. ASSUME NEW e \in reports, Webhook(e) PROVE HoldInv'
    BY <1>3, HoldApply DEF Webhook
  <1>4. ASSUME NEW p \in Process, Serve(p) PROVE HoldInv'
    <2>1. CASE CheckoutWrite(p) \/ Bind(p)
      <3>1. UNCHANGED <<hold, command, sent, known, forgotten, restores>>
        BY <2>1 DEF CheckoutWrite, Bind, provider, history
      <3>2. QED BY <2>1, <3>1, HoldKept, RowFacts
    <2>2. CASE ReconcileApply(p)
      <3>1. UNCHANGED <<hold, provider, forgotten, restores>>
        BY <2>2 DEF ReconcileApply
      <3>2. QED BY <2>2, <3>1, Applied, HoldApply
    <2>3. CASE Confirm(p)
      BY <2>3, HoldConfirm
    <2>4. CASE RefundDone(p)
      <3>1. UNCHANGED <<row, hold, sent, known, forgotten, restores>>
        BY <2>4 DEF RefundDone, provider, history
      <3>2. \A k \in Command : command[k] = "verified" => command'[k] = "verified"
        BY <2>4, Fields DEF RefundDone
      <3>3. QED BY <3>1, <3>2, HoldKept DEF SameSeq
    <2>5. ASSUME NEW k \in Command, NEW a \in 1..Amount, RefundAdmit(p, k, a) PROVE HoldInv'
      <3>1. UNCHANGED <<row, hold, known, forgotten, restores>>
        BY <2>5 DEF RefundAdmit, history
      <3>2. \A l \in Command : sent[l] # Unsent => sent'[l] = sent[l]
        BY <2>5 DEF RefundAdmit, TypeOK
      <3>3. command[k] = "absent"
        BY <2>5 DEF RefundAdmit, CommandInv, Current
      <3>4. \A l \in Command : command[l] = "verified" => command'[l] = "verified"
        BY <2>5, <3>3, Fields DEF RefundAdmit
      <3>5. QED BY <3>1, <3>2, <3>4, HoldKept DEF SameSeq
    <2>6. CASE Still /\ UNCHANGED <<data, hold, provider>>
      BY <1>1, <2>6 DEF Still, data, provider, history
    <2>7. QED BY <1>4, <2>1, <2>2, <2>3, <2>4, <2>5, <2>6, StillServe DEF Serve
  <1>5. CASE Provide
    BY <1>1, <1>5, StillProvide DEF Still, data, history
  <1>6. CASE Backup \/ UNCHANGED vars
    BY <1>1, <1>6 DEF Backup, vars, data, provider, history
  <1>7. QED BY <1>2, <1>3, <1>4, <1>5, <1>6, HoldRestore DEF Next

-----------------------------------------------------------------------------
(* What requests have in hand                                              *)

\* An order that was made is not forgotten but by a restore, and what was known
\* of it stays in its row.
LEMMA RowKept ==
  ASSUME TypeOK, DbInv(Current), HoldInv, CallInv, [Next]_vars, ~Restore
  PROVE  /\ \A q \in Order : /\ row[q].status # "absent" => row'[q].status # "absent"
                             /\ known[q] <= row[q].seq => known'[q] <= row'[q].seq
                             /\ row[q].bound => row'[q].bound
         /\ forgotten' = forgotten /\ reports \subseteq reports'
  <1>1. ASSUME NEW o \in Order, CreateOrder(o) \/ CancelOrder(o)
        PROVE  /\ SameSeq /\ known' = known /\ forgotten' = forgotten /\ reports' = reports
               /\ \A q \in Order : /\ row[q].status # "absent" => row'[q].status # "absent"
                                   /\ row[q].bound => row'[q].bound
    <2>1. known' = known /\ forgotten' = forgotten /\ reports' = reports
      BY <1>1 DEF CreateOrder, CancelOrder, provider, history
    <2>2. QED BY <1>1, <2>1, RowFacts
  <1>2. ASSUME NEW p \in Process, CheckoutWrite(p) \/ Bind(p)
        PROVE  /\ SameSeq /\ known' = known /\ forgotten' = forgotten /\ reports' = reports
               /\ \A q \in Order : /\ row[q].status # "absent" => row'[q].status # "absent"
                                   /\ row[q].bound => row'[q].bound
    <2>1. known' = known /\ forgotten' = forgotten /\ reports' = reports
      BY <1>2 DEF CheckoutWrite, Bind, provider, history
    <2>2. QED BY <1>2, <2>1, RowFacts
  <1>3. ASSUME NEW e \in reports, Webhook(e)
        PROVE  Apply(e) /\ forgotten' = forgotten /\ reports' = reports
    BY <1>3 DEF Webhook, provider
  <1>4. ASSUME NEW p \in Process, ReconcileApply(p)
        PROVE  /\ call[p].report \in reports /\ Apply(call[p].report)
               /\ forgotten' = forgotten /\ reports' = reports
    BY <1>4, Applied DEF ReconcileApply, provider
  <1>5. ASSUME Still
        PROVE  row' = row /\ known' = known /\ forgotten' = forgotten /\ reports \subseteq reports'
    BY <1>5 DEF Still, history
  <1>6. CASE Backup \/ UNCHANGED vars
    BY <1>6 DEF Backup, vars, data, provider, history
  <1>7. ASSUME NEW p \in Process, Serve(p)
        PROVE  Still \/ CheckoutWrite(p) \/ Bind(p) \/ ReconcileApply(p)
    BY <1>7, StillServe DEF Serve
  <1>8. CASE \E e \in reports : Webhook(e)
    BY <1>3, <1>8, ApplyKnown
  <1>9. CASE \E p \in Process : Serve(p)
    BY <1>2, <1>4, <1>5, <1>7, <1>9, ApplyKnown DEF SameSeq
  <1>10. CASE Provide
    BY <1>5, <1>10, StillProvide
  <1>11. CASE \E o \in Order : CreateOrder(o) \/ CancelOrder(o)
    BY <1>1, <1>11 DEF SameSeq
  <1>12. QED BY <1>6, <1>8, <1>9, <1>10, <1>11 DEF Next

LEMMA RequestKept ==
  ASSUME TypeOK, DbInv(Current), HoldInv, CallInv, [Next]_vars, ~Restore,
         NEW p \in Process, call'[p] = call[p]
  PROVE  RequestInv(p)'
  <1>1. /\ call[p].op \in {"checkout", "reconcile", "answered", "confirm"} =>
             call[p].order \in Order
        /\ RequestInv(p)
    BY CallTypes DEF CallInv
  <1>2. QED BY <1>1, RowKept DEF RequestInv

\* The requests but one are where they were.
OnlyOf(p) == \A q \in Process \ {p} : call'[q] = call[q]

LEMMA RequestServe ==
  ASSUME TypeOK, DbInv(Current), HoldInv, CallInv, NEW p \in Process, Serve(p)
  PROVE  OnlyOf(p) /\ RequestInv(p)'
  <1>1. call \in [Process -> Call]
    BY DEF TypeOK
  <1>2. ASSUME NEW c, call' = [call EXCEPT ![p] = c], c.op \in {"idle", "refund", "refunding"}
        PROVE  OnlyOf(p) /\ RequestInv(p)'
    BY <1>1, <1>2 DEF OnlyOf, RequestInv
  <1>3. ASSUME NEW c, call' = [call EXCEPT ![p] = c], c.op \in {"checkout", "reconcile"},
               row' = row, row[c.order].status # "absent"
        PROVE  OnlyOf(p) /\ RequestInv(p)'
    BY <1>1, <1>3 DEF OnlyOf, RequestInv
  <1>4. ASSUME NEW o \in Order, CheckoutRead(p, o) \/ ReconcileAsk(p, o)
        PROVE  OnlyOf(p) /\ RequestInv(p)'
    <2> DEFINE c == [op |-> "checkout", order |-> o]
               d == [op |-> "reconcile", order |-> o, bound |-> row[o].bound]
    <2>1. row' = row /\ row[o].status # "absent"
      BY <1>4 DEF CheckoutRead, ReconcileAsk, data
    <2>2. call' = [call EXCEPT ![p] = c] \/ call' = [call EXCEPT ![p] = d]
      BY <1>4 DEF CheckoutRead, ReconcileAsk
    <2>3. c.op = "checkout" /\ c.order = o /\ d.op = "reconcile" /\ d.order = o
      OBVIOUS
    <2> HIDE DEF c, d
    <2>4. QED BY <1>3, <2>1, <2>2, <2>3
  <1>5. ASSUME NEW o \in Order, RefundRead(p, o) PROVE OnlyOf(p) /\ RequestInv(p)'
    <2> DEFINE c == [op |-> "refund", order |-> o, status |-> row[o].status,
                     refunded |-> row[o].refunded]
    <2>1. call' = [call EXCEPT ![p] = c]
      BY <1>5 DEF RefundRead
    <2>2. c.op = "refund"
      OBVIOUS
    <2> HIDE DEF c
    <2>3. QED BY <1>2, <2>1, <2>2
  <1>6. ASSUME NEW k \in Command, RefundAgain(p, k) \/ \E a \in 1..Amount : RefundAdmit(p, k, a)
        PROVE  OnlyOf(p) /\ RequestInv(p)'
    <2> DEFINE c == [op |-> "refunding", command |-> k]
    <2>1. call' = [call EXCEPT ![p] = c]
      BY <1>6 DEF RefundAgain, RefundAdmit
    <2>2. c.op = "refunding"
      OBVIOUS
    <2> HIDE DEF c
    <2>3. QED BY <1>2, <2>1, <2>2
  <1>7. ASSUME CheckoutWrite(p) \/ RefundDone(p) \/ Confirm(p) \/ CallDies(p)
        PROVE  OnlyOf(p) /\ RequestInv(p)'
    <2>1. call' = [call EXCEPT ![p] = Idle] /\ Idle.op = "idle"
      BY <1>7 DEF CheckoutWrite, RefundDone, Confirm, CallDies, Idle
    <2>2. QED BY <1>2, <2>1
  <1>8. ASSUME Bind(p) PROVE OnlyOf(p) /\ RequestInv(p)'
    <2>1. /\ call[p].op = "answered" /\ call' = [call EXCEPT ![p].bound = TRUE]
          /\ reports' = reports
      BY <1>8 DEF Bind, provider
    <2>2. /\ call'[p].op = "answered" /\ call'[p].order = call[p].order
          /\ call'[p].report = call[p].report /\ OnlyOf(p)
      BY <1>1, <2>1 DEF Call, Idle, OnlyOf
    <2>3. row'[call[p].order].status # "absent"
      BY <1>8, <2>1, RowFacts DEF CallInv, RequestInv
    <2>4. QED BY <2>1, <2>2, <2>3 DEF CallInv, RequestInv
  <1>9. ASSUME ReconcileApply(p) PROVE OnlyOf(p) /\ RequestInv(p)'
    <2> DEFINE e == call[p].report
               c == [op |-> "confirm", order |-> call[p].order, listed |-> call[p].listed,
                     ok |-> Duplicate(e) \/ ~Stale(e)]
    <2>1. call' = [call EXCEPT ![p] = c] /\ forgotten' = forgotten /\ call[p].op = "answered"
      BY <1>9 DEF ReconcileApply
    <2>2. e \in reports /\ Apply(e) /\ e.order = call[p].order
      BY <1>9, <2>1, Applied DEF CallInv, RequestInv
    <2>3. c.op = "confirm" /\ c.order = e.order /\ c.ok = (Duplicate(e) \/ ~Stale(e))
      BY <2>2
    <2>4. c.ok /\ c.order \notin forgotten => known'[c.order] <= row'[c.order].seq
      BY <2>2, <2>3, ApplyKnown
    <2> HIDE DEF c
    <2>5. QED BY <1>1, <2>1, <2>3, <2>4 DEF OnlyOf, RequestInv
  <1>10. QED BY <1>4, <1>5, <1>6, <1>7, <1>8, <1>9 DEF Serve

LEMMA RequestAnswers ==
  ASSUME TypeOK, CallInv, NEW p \in Process, Answers(p)
  PROVE  OnlyOf(p) /\ RequestInv(p)'
  <1> DEFINE o == call[p].order
             c(e, listed) == [op |-> "answered", order |-> o, bound |-> call[p].bound,
                              report |-> e, listed |-> listed]
  <1>1. call \in [Process -> Call] /\ call[p].op = "reconcile" /\ row' = row
    BY DEF TypeOK, Answers, data
  <1>2. \E e \in reports', listed \in SUBSET Command :
          e.order = o /\ call' = [call EXCEPT ![p] = c(e, listed)]
    BY DEF Answers, TypeOK
  <1>3. PICK e \in reports', listed \in SUBSET Command : e.order = o /\ call' = [call EXCEPT ![p] = c(e, listed)]
    BY <1>2
  <1>4. /\ c(e, listed).op = "answered" /\ c(e, listed).order = o /\ c(e, listed).report = e
    OBVIOUS
  <1> HIDE DEF c
  <1>5. call'[p] = c(e, listed) /\ OnlyOf(p)
    BY <1>1, <1>3 DEF OnlyOf
  <1>6. row'[o].status # "absent"
    BY <1>1 DEF CallInv, RequestInv
  <1>7. QED BY <1>3, <1>4, <1>5, <1>6 DEF RequestInv

LEMMA CallStep ==
  ASSUME TypeOK, DbInv(Current), HoldInv, CallInv, [Next]_vars
  PROVE  CallInv'
  <1>1. CASE Restore
    <2>1. \A p \in Process : call'[p].op = "idle"
      BY <1>1 DEF Restore, Idle
    <2>2. QED BY <2>1 DEF CallInv, RequestInv
  <1>2. ASSUME ~Restore, NEW p \in Process, OnlyOf(p), RequestInv(p)' PROVE CallInv'
    BY <1>2, RequestKept DEF OnlyOf, CallInv
  <1>3. ASSUME ~Restore, call' = call PROVE CallInv'
    BY <1>3, RequestKept DEF CallInv
  <1>4. CASE ~Restore /\ \E p \in Process : Serve(p) \/ Answers(p)
    BY <1>2, <1>4, RequestServe, RequestAnswers
  <1>5. ASSUME NEW o \in Order, CreateOrder(o) \/ CancelOrder(o) PROVE call' = call
    BY <1>5 DEF CreateOrder, CancelOrder
  <1>6. ASSUME NEW e \in reports, Webhook(e) PROVE call' = call
    BY <1>6 DEF Webhook
  <1>7. ASSUME Provide, ~\E p \in Process : Answers(p) PROVE call' = call
    BY <1>7 DEF Provide, Opens, Settles, RefundsByItself, Executes
  <1>8. ASSUME Backup \/ UNCHANGED vars PROVE call' = call
    BY <1>8 DEF Backup, vars
  <1>9. QED BY <1>1, <1>3, <1>4, <1>5, <1>6, <1>7, <1>8 DEF Next

-----------------------------------------------------------------------------
(* Cancelled orders and their payment                                      *)

\* A payment never asked for, or cancelled, stays so whatever the provider does.
ChargeMoves ==
  /\ \A q \in Order : charge[q].status \in {"none", "cancelled"} =>
       charge'[q].status = charge[q].status
  /\ \A e \in reports' :
       e \in reports \/ (e.status = "cancelled" => charge'[e.order].status = "cancelled")

LEMMA ReportsMove ==
  ASSUME TypeOK, NEW o \in Order, NEW s, NEW r, Reports(o, s, r),
         charge[o].status # "none", charge[o].status = "cancelled" => s = "cancelled"
  PROVE  ChargeMoves
  <1> DEFINE c == [status |-> s, refunded |-> r, seq |-> charge[o].seq + 1]
             e == [order |-> o, seq |-> charge[o].seq + 1, status |-> s, refunded |-> r]
  <1>1. charge' = [charge EXCEPT ![o] = c] /\ reports' = reports \cup {e}
    BY DEF Reports
  <1>2. c.status = s /\ e.status = s /\ e.order = o
    OBVIOUS
  <1> HIDE DEF c, e
  <1>3. charge'[o] = c /\ \A q \in Order \ {o} : charge'[q] = charge[q]
    BY <1>1 DEF TypeOK
  <1>4. QED BY <1>1, <1>2, <1>3 DEF ChargeMoves

LEMMA ProvideMoves == ASSUME TypeOK, Provide PROVE ChargeMoves
  <1>1. ASSUME NEW o \in Order, NEW a, Refunds(o, a) PROVE ChargeMoves
    BY <1>1, ReportsMove DEF Refunds
  <1>2. ASSUME NEW o \in Order, Opens(o) PROVE ChargeMoves
    <2>1. /\ charge' = [charge EXCEPT ![o].status = "open"] /\ reports' = reports
          /\ charge[o].status = "asked"
      BY <1>2 DEF Opens
    <2>2. \A q \in Order \ {o} : charge'[q] = charge[q]
      BY <2>1 DEF TypeOK
    <2>3. QED BY <2>1, <2>2 DEF ChargeMoves
  <1>3. ASSUME NEW o \in Order, Settles(o) PROVE ChargeMoves
    BY <1>3, ReportsMove DEF Settles
  <1>4. ASSUME NEW k \in Command, Executes(k) PROVE ChargeMoves
    <2>1. sent[k].order \in Order
      BY <1>4 DEF Executes, TypeOK, Request
    <2>2. QED BY <1>1, <1>4, <2>1 DEF Executes
  <1>5. ASSUME NEW p \in Process, Answers(p) PROVE ChargeMoves
    <2> DEFINE o == call[p].order
    <2>1. o \in Order /\ charge[o].status \in Paid \cup Closed
      BY <1>5, CallTypes DEF Answers
    <2>2. CASE UNCHANGED <<charge, reports>>
      BY <2>2 DEF ChargeMoves
    <2>3. CASE Reports(o, charge[o].status, charge[o].refunded)
      BY <2>1, <2>3, ReportsMove DEF Paid, Closed
    <2>4. QED BY <1>5, <2>2, <2>3 DEF Answers
  <1>6. QED BY <1>1, <1>2, <1>3, <1>4, <1>5 DEF Provide, RefundsByItself

LEMMA ApplyStatus ==
  ASSUME TypeOK, NEW e \in Report, Apply(e)
  PROVE  \A q \in Order : /\ row[q].bound => row'[q].bound
                          /\ row'[q].status \in {row[q].status, e.status}
                          /\ row'[q].status # row[q].status => q = e.order
  <1>1. CASE Duplicate(e) \/ Stale(e)
    BY <1>1 DEF Apply, data
  <1>2. CASE ~Duplicate(e) /\ ~Stale(e)
    BY <1>2, ApplyFacts
  <1>3. QED BY <1>1, <1>2

LEMMA UnpaidApply ==
  ASSUME TypeOK, UnpaidInv, NEW e \in reports, Apply(e), UNCHANGED <<provider, restores>>
  PROVE  UnpaidInv'
  <1>1. e \in Report
    BY DEF TypeOK
  <1>2. e.status = "cancelled" => charge[e.order].status = "cancelled"
    BY DEF UnpaidInv
  <1>3. QED BY <1>1, <1>2, ApplyStatus DEF UnpaidInv, provider

LEMMA UnpaidStep ==
  ASSUME TypeOK, UnpaidInv, CallInv, [Next]_vars PROVE UnpaidInv'
  <1>1. \A e \in reports : e.order \in Order
    BY DEF TypeOK, Report
  <1>2. ASSUME UNCHANGED <<row, charge, reports, restores>> PROVE UnpaidInv'
    BY <1>2 DEF UnpaidInv
  <1>3. ASSUME NEW o \in Order, CreateOrder(o) \/ CancelOrder(o) PROVE UnpaidInv'
    <2>1. UNCHANGED <<charge, reports, restores>> /\ (CancelOrder(o) => ~row[o].bound)
      BY <1>3 DEF CreateOrder, CancelOrder, provider, history
    <2>2. row'[o].status = "cancelled" => ~row[o].bound
      BY <1>3, <2>1, RowFacts
    <2>3. /\ \A q \in Order : row'[q].bound = row[q].bound
          /\ \A q \in Order \ {o} : row'[q].status = row[q].status
      BY <1>3, RowFacts
    <2>4. QED BY <2>1, <2>2, <2>3 DEF UnpaidInv
  <1>4. ASSUME NEW e \in reports, Webhook(e) PROVE UnpaidInv'
    BY <1>4, UnpaidApply DEF Webhook
  <1>5. ASSUME NEW p \in Process, Serve(p) PROVE UnpaidInv'
    <2>1. CASE CheckoutWrite(p)
      <3> DEFINE o == call[p].order
      <3>1. /\ o \in Order /\ row'[o].bound /\ row'[o].status = "checkout_pending"
            /\ \A q \in Order \ {o} : row'[q] = row[q]
        BY <2>1, RowFacts
      <3>2. /\ charge' = [charge EXCEPT ![o].status = IF @ = "none" THEN "asked" ELSE @]
            /\ UNCHANGED <<reports, restores>>
        BY <2>1 DEF CheckoutWrite
      <3> HIDE DEF o
      <3>3. /\ charge[o].status = "cancelled" => charge'[o].status = "cancelled"
            /\ \A q \in Order \ {o} : charge'[q] = charge[q]
        BY <3>1, <3>2 DEF TypeOK
      <3>4. QED BY <1>1, <3>1, <3>2, <3>3 DEF UnpaidInv
    <2>2. CASE Bind(p)
      <3>1. UNCHANGED <<charge, reports, restores>>
        BY <2>2 DEF Bind, provider, history
      <3>2. \A q \in Order : row'[q].status = row[q].status /\ (row[q].bound => row'[q].bound)
        BY <2>2, RowFacts
      <3>3. QED BY <3>1, <3>2 DEF UnpaidInv
    <2>3. CASE ReconcileApply(p)
      <3>1. UNCHANGED <<provider, restores>>
        BY <2>3 DEF ReconcileApply
      <3>2. QED BY <2>3, <3>1, Applied, UnpaidApply
    <2>4. CASE Still /\ UNCHANGED <<charge, reports>>
      BY <1>2, <2>4 DEF Still, history
    <2>5. RefundDone(p) \/ Confirm(p) => UNCHANGED <<charge, reports>>
      BY DEF RefundDone, Confirm, provider
    <2>6. \A k \in Command, a \in 1..Amount : RefundAdmit(p, k, a) => UNCHANGED <<charge, reports>>
      BY DEF RefundAdmit
    <2>7. UNCHANGED provider => UNCHANGED <<charge, reports>>
      BY DEF provider
    <2>8. QED BY <1>5, <2>1, <2>2, <2>3, <2>4, <2>5, <2>6, <2>7, StillServe DEF Serve
  <1>6. CASE Provide
    BY <1>1, <1>6, StillProvide, ProvideMoves DEF ChargeMoves, UnpaidInv, Still, history
  <1>7. CASE Backup \/ UNCHANGED vars
    BY <1>2, <1>7 DEF Backup, vars, data, provider, history
  <1>8. CASE Restore
    <2>1. UNCHANGED <<charge, reports>> /\ restores' # 0
      BY <1>8 DEF Restore, provider, TypeOK
    <2>2. QED BY <2>1 DEF UnpaidInv
  <1>9. QED BY <1>3, <1>4, <1>5, <1>6, <1>7, <1>8 DEF Next

-----------------------------------------------------------------------------
(* The stock                                                               *)

LEMMA ReservingFinite ==
  /\ IsFiniteSet(ReservingIn(Current)) /\ IsFiniteSet(ReservingIn(Current)')
  /\ Cardinality(ReservingIn(Current)) \in Nat
  <1>1. ReservingIn(Current) \subseteq Order /\ ReservingIn(Current)' \subseteq Order
    BY DEF ReservingIn
  <1>2. QED BY <1>1, OrdersAssumption, FS_Subset, FS_CardinalityType

\* One order takes its piece, gives it back, or does neither.
LEMMA StockMoves ==
  ASSUME TypeOK, TypeOK', StockInv(Current), clobbered \subseteq clobbered',
         clobbered' = {} =>
           \/ /\ \A q \in Order : row'[q].status \in {"absent"} \cup Closed
                                  <=> row[q].status \in {"absent"} \cup Closed
              /\ inventory' = inventory
           \/ \E o \in Order :
                /\ \A q \in Order \ {o} : row'[q].status = row[q].status
                /\ \/ /\ row[o].status \in {"absent"} \cup Closed
                      /\ row'[o].status \notin {"absent"} \cup Closed
                      /\ inventory > 0 /\ inventory' = inventory - 1
                   \/ /\ row[o].status \notin {"absent"} \cup Closed
                      /\ row'[o].status \in {"absent"} \cup Closed
                      /\ inventory' = inventory + 1
  PROVE  StockInv(Current)'
  <1> DEFINE R == ReservingIn(Current)
  <1> SUFFICES ASSUME clobbered' = {} PROVE inventory' + Cardinality(R') = Stock
    BY DEF StockInv, Current
  <1>1. inventory + Cardinality(R) = Stock /\ inventory \in Nat /\ Cardinality(R) \in Nat
        /\ Stock \in Nat
    BY Fields, ReservingFinite, OrdersAssumption DEF StockInv, Current
  <1>2. /\ R = {o \in Order : row[o].status \notin {"absent"} \cup Closed}
        /\ R' = {o \in Order : row'[o].status \notin {"absent"} \cup Closed}
    BY DEF ReservingIn, Current
  <1>3. IsFiniteSet(R) /\ IsFiniteSet(R')
    BY ReservingFinite
  <1> HIDE DEF R
  <1>4. CASE /\ \A q \in Order : row'[q].status \in {"absent"} \cup Closed
                                 <=> row[q].status \in {"absent"} \cup Closed
             /\ inventory' = inventory
    <2>1. R' = R
      BY <1>2, <1>4
    <2>2. QED BY <1>1, <1>4, <2>1
  <1>5. ASSUME NEW o \in Order, \A q \in Order \ {o} : row'[q].status = row[q].status,
               row[o].status \in {"absent"} \cup Closed,
               row'[o].status \notin {"absent"} \cup Closed,
               inventory > 0, inventory' = inventory - 1
        PROVE  inventory' + Cardinality(R') = Stock
    <2>1. R' = R \cup {o} /\ o \notin R
      BY <1>2, <1>5
    <2>2. Cardinality(R') = Cardinality(R) + 1
      BY <1>3, <2>1, FS_AddElement
    <2>3. QED BY <1>1, <1>5, <2>2
  <1>6. ASSUME NEW o \in Order, \A q \in Order \ {o} : row'[q].status = row[q].status,
               row[o].status \notin {"absent"} \cup Closed,
               row'[o].status \in {"absent"} \cup Closed,
               inventory' = inventory + 1
        PROVE  inventory' + Cardinality(R') = Stock
    <2>1. R' = R \ {o} /\ o \in R
      BY <1>2, <1>6
    <2>2. Cardinality(R') = Cardinality(R) - 1
      BY <1>3, <2>1, FS_RemoveElement
    <2>3. QED BY <1>1, <1>6, <2>2
  <1>7. QED BY <1>4, <1>5, <1>6

LEMMA StockApply ==
  ASSUME TypeOK, TypeOK', DbInv(Current), StockInv(Current), NEW e \in reports, Apply(e),
         clobbered' = clobbered
  PROVE  StockInv(Current)'
  <1> DEFINE o == e.order
  <1>1. e \in Report /\ o \in Order /\ e.status \in Paid \cup Closed
    <2>1. e \in Report
      BY DEF TypeOK
    <2>2. QED BY <2>1 DEF Report
  <1>2. CASE Duplicate(e) \/ Stale(e)
    <2>1. row' = row /\ inventory' = inventory
      BY <1>2 DEF Apply, data
    <2>2. QED BY <2>1, StockMoves
  <1>3. CASE ~Duplicate(e) /\ ~Stale(e)
    <2>1. /\ row[o].bound /\ ~Refused(e) /\ row'[o].status = e.status
          /\ \A q \in Order \ {o} : row'[q] = row[q]
      BY <1>1, <1>3, ApplyFacts
    <2>2. inventory' = inventory + IF Releases(e) THEN 1 ELSE 0
      BY <1>3 DEF Apply
    <2>3. row[o].status # "absent" /\ inventory \in Nat
      BY <1>1, <2>1, Fields DEF DbInv, OrderInv, Current
    <2>4. CASE Releases(e)
      <3>1. /\ row[o].status \notin {"absent"} \cup Closed
            /\ row'[o].status \in {"absent"} \cup Closed
            /\ inventory' = inventory + 1
        BY <2>1, <2>2, <2>3, <2>4 DEF Releases
      <3>2. QED BY <1>1, <2>1, <3>1, StockMoves
    <2>5. CASE ~Releases(e)
      <3>1. row'[o].status \in {"absent"} \cup Closed <=> row[o].status \in {"absent"} \cup Closed
        BY <1>1, <2>1, <2>3, <2>5 DEF Releases, Refused, Paid, Closed
      <3>2. inventory' = inventory
        BY <2>2, <2>3, <2>5
      <3>3. QED BY <1>1, <2>1, <3>1, <3>2, StockMoves
    <2>6. QED BY <2>4, <2>5
  <1>4. QED BY <1>2, <1>3

LEMMA StockMake ==
  ASSUME TypeOK, TypeOK', DbInv(Current), StockInv(Current), NEW o \in Order,
         CreateOrder(o) \/ CancelOrder(o)
  PROVE  StockInv(Current)'
  <1>1. clobbered' = clobbered /\ \A q \in Order \ {o} : row'[q].status = row[q].status
    BY RowFacts DEF CreateOrder, CancelOrder, history
  <1>2. CASE CreateOrder(o)
    <2>1. row[o].status = "absent" /\ inventory > 0 /\ inventory' = inventory - 1
      BY <1>2 DEF CreateOrder, DbInv, OrderInv, Current, Absent
    <2>2. row'[o].status = "pending"
      BY <1>2, RowFacts
    <2>3. row'[o].status \notin {"absent"} \cup Closed
      BY <2>2 DEF Closed
    <2>4. QED BY <1>1, <2>1, <2>3, StockMoves
  <1>3. CASE CancelOrder(o)
    <2>1. row[o].status = "pending" /\ inventory' = inventory + 1
      BY <1>3 DEF CancelOrder
    <2>2. row'[o].status = "cancelled"
      BY <1>3, RowFacts
    <2>3. row[o].status \notin {"absent"} \cup Closed /\ row'[o].status \in {"absent"} \cup Closed
      BY <2>1, <2>2 DEF Closed
    <2>4. QED BY <1>1, <2>1, <2>3, StockMoves
  <1>4. QED BY <1>2, <1>3

LEMMA StockServe ==
  ASSUME TypeOK, TypeOK', DbInv(Current), StockInv(Current), NEW p \in Process,
         CheckoutWrite(p) \/ Bind(p)
  PROVE  StockInv(Current)'
  <1> DEFINE o == call[p].order
  <1>1. /\ o \in Order /\ \A q \in Order \ {o} : row'[q] = row[q]
        /\ CheckoutWrite(p) => row'[o].status = "checkout_pending"
        /\ Bind(p) => row'[o].status = row[o].status
    BY RowFacts
  <1>2. inventory' = inventory /\ clobbered \subseteq clobbered'
    BY DEF CheckoutWrite, Bind, history
  <1>3. clobbered' = {} =>
          (row'[o].status \in {"absent"} \cup Closed <=> row[o].status \in {"absent"} \cup Closed)
    <2>1. CASE CheckoutWrite(p)
      <3>1. clobbered' = {} => row[o].status \in {"pending", "checkout_pending"}
        BY <2>1 DEF CheckoutWrite
      <3>2. QED BY <1>1, <2>1, <3>1 DEF Closed
    <2>2. CASE Bind(p)
      BY <1>1, <2>2
    <2>3. QED BY <2>1, <2>2
  <1> HIDE DEF o
  <1>4. QED BY <1>1, <1>2, <1>3, StockMoves

LEMMA StockStep ==
  ASSUME TypeOK, TypeOK', DbInv(Current), StockInv(Current), StockInv(backup), CallInv, [Next]_vars
  PROVE  StockInv(Current)' /\ StockInv(backup)'
  <1>1. ASSUME backup' = backup, clobbered \subseteq clobbered' PROVE StockInv(backup)'
    BY <1>1 DEF StockInv, ReservingIn
  <1>2. ASSUME UNCHANGED <<row, inventory, clobbered>> PROVE StockInv(Current)'
    BY <1>2 DEF StockInv, ReservingIn, Current
  <1>3. ASSUME Still PROVE StockInv(Current)' /\ StockInv(backup)'
    BY <1>1, <1>2, <1>3 DEF Still, history
  <1>4. ASSUME NEW o \in Order, CreateOrder(o) \/ CancelOrder(o)
        PROVE  StockInv(Current)' /\ StockInv(backup)'
    BY <1>1, <1>4, StockMake DEF CreateOrder, CancelOrder, history
  <1>5. ASSUME NEW e \in reports, Webhook(e) PROVE StockInv(Current)' /\ StockInv(backup)'
    BY <1>1, <1>5, StockApply DEF Webhook
  <1>6. ASSUME NEW p \in Process, Serve(p) PROVE StockInv(Current)' /\ StockInv(backup)'
    <2>1. CASE CheckoutWrite(p) \/ Bind(p)
      <3>1. backup' = backup /\ clobbered \subseteq clobbered'
        BY <2>1 DEF CheckoutWrite, Bind, history
      <3>2. QED BY <1>1, <2>1, <3>1, StockServe
    <2>2. CASE ReconcileApply(p)
      <3>1. backup' = backup /\ clobbered' = clobbered
        BY <2>2 DEF ReconcileApply
      <3>2. QED BY <1>1, <2>2, <3>1, Applied, StockApply
    <2>3. QED BY <1>3, <1>6, <2>1, <2>2, StillServe DEF Serve
  <1>7. CASE Provide
    BY <1>3, <1>7, StillProvide
  <1>8. CASE UNCHANGED vars
    BY <1>1, <1>2, <1>8 DEF vars, data, history
  <1>9. CASE Backup
    <2>1. UNCHANGED <<row, inventory, clobbered>> /\ backup' = Current
      BY <1>9 DEF Backup, data, history
    <2>2. QED BY <1>2, <2>1 DEF StockInv, ReservingIn, Current
  <1>10. CASE Restore
    <2>1. /\ row' = backup.row /\ inventory' = backup.inventory /\ clobbered' = clobbered
          /\ backup' \in {backup, Empty}
      BY <1>10 DEF Restore
    <2>2. StockInv(Current)'
      BY <2>1 DEF StockInv, ReservingIn, Current
    <2>3. StockInv(Empty)
      <3>1. ReservingIn(Empty) = {}
        BY DEF ReservingIn, Empty, Absent
      <3>2. Empty.inventory = Stock
        BY DEF Empty
      <3>3. Cardinality({}) = 0 /\ Stock \in Nat
        BY FS_EmptySet, OrdersAssumption
      <3>4. QED BY <3>1, <3>2, <3>3 DEF StockInv
    <2>4. StockInv(backup)'
      BY <2>1, <2>3 DEF StockInv, ReservingIn
    <2>5. QED BY <2>2, <2>4
  <1>11. QED BY <1>4, <1>5, <1>6, <1>7, <1>8, <1>9, <1>10 DEF Next

-----------------------------------------------------------------------------
(* The invariant holds, and what follows from it                           *)

LEMMA InvInit == Init => Inv
  <1> SUFFICES ASSUME Init PROVE Inv
    OBVIOUS
  <1>1. TypeOK /\ Current = Empty /\ backup = Empty
    BY TypeInit DEF Init, Current, Empty
  <1>2. DbInv(Empty)
    <2>1. \A o \in Order : known[o] = 0
      BY DEF Init
    <2>2. QED BY <2>1 DEF DbInv, OrderInv, Empty, Absent, Paid
  <1>3. CommandInv(Empty)
    BY DEF CommandInv, Empty, Outstanding
  <1>4. StockInv(Empty)
    <2>1. ReservingIn(Empty) = {}
      BY DEF ReservingIn, Empty, Absent
    <2>2. Empty.inventory = Stock
      BY DEF Empty
    <2>3. Cardinality({}) = 0 /\ Stock \in Nat
      BY FS_EmptySet, OrdersAssumption
    <2>4. QED BY <2>1, <2>2, <2>3 DEF StockInv
  <1>5. HoldInv
    BY DEF Init, HoldInv, Empty, Absent
  <1>6. CallInv
    BY DEF Init, CallInv, RequestInv, Idle
  <1>7. UnpaidInv
    BY DEF Init, UnpaidInv, Empty, Absent
  <1>8. QED BY <1>1, <1>2, <1>3, <1>4, <1>5, <1>6, <1>7 DEF Inv

LEMMA InvStep == Inv /\ [Next]_vars => Inv'
  <1> SUFFICES ASSUME Inv, [Next]_vars PROVE Inv'
    OBVIOUS
  <1>1. TypeOK'
    BY TypeStep DEF Inv
  <1>2. DbInv(Current)' /\ DbInv(backup)'
    BY <1>1, DbStep DEF Inv
  <1>3. CommandInv(Current)' /\ CommandInv(backup)'
    BY CommandStep DEF Inv
  <1>4. StockInv(Current)' /\ StockInv(backup)'
    BY <1>1, StockStep DEF Inv
  <1>5. HoldInv'
    BY <1>1, <1>2, HoldStep DEF Inv
  <1>6. CallInv' /\ UnpaidInv'
    BY CallStep, UnpaidStep DEF Inv
  <1>7. QED BY <1>1, <1>2, <1>3, <1>4, <1>5, <1>6 DEF Inv

\* The state of the site, the backup a restore will use, the requests in flight
\* and the provider fit together after every step.
THEOREM OrdersInvariant == Spec => []Inv
  BY InvInit, InvStep, PTL DEF Spec

\* Stock is neither lost nor sold twice in any shop whose checkouts overwrite
\* nothing they had not read.
THEOREM OrdersConserveInventory == Spec => []InventoryConserved
  <1>1. Inv => InventoryConserved
    BY DEF Inv, StockInv, ReservingIn, InventoryConserved, Reserving, Current
  <1>2. QED BY <1>1, OrdersInvariant, PTL

\* The financial entries of an order add up to one payment if it is paid and to
\* the amount it says is refunded, through any reports, refunds and restores.
THEOREM OrdersLedger == Spec => []LedgerAgrees
  <1>1. Inv => LedgerAgrees
    BY DEF Inv, DbInv, OrderInv, LedgerAgrees, Current
  <1>2. QED BY <1>1, OrdersInvariant, PTL

\* Every paid, refunded or failed order shows a report of the provider, and the
\* latest one applied as long as nothing was restored.
THEOREM OrdersReported == Spec => []OrderIsReported
  <1>1. Inv => OrderIsReported
    BY DEF Inv, DbInv, OrderInv, HoldInv, OrderIsReported, Current
  <1>2. QED BY <1>1, OrdersInvariant, PTL

\* No two refunds of an order are outstanding at once, for any number of
\* processes that ask for them.
THEOREM OrdersSingleOutstanding == Spec => []SingleOutstanding
  <1>1. Inv => SingleOutstanding
    BY DEF Inv, CommandInv, SingleOutstanding, Current
  <1>2. QED BY <1>1, OrdersInvariant, PTL

\* An order open to charges and refunds has caught up with all that its site
\* knew of its payment and with every refund a restore lost.
THEOREM OrdersHeldUntilCaughtUp == Spec => []HeldUntilCaughtUp
  <1>1. Inv => HeldUntilCaughtUp
    BY DEF Inv, HoldInv, HeldUntilCaughtUp
  <1>2. QED BY <1>1, OrdersInvariant, PTL

\* No money is taken for a cancelled order before the first restore.
THEOREM OrdersCancelledUnpaid == Spec => []CancelledIsUnpaid
  <1>1. Inv => CancelledIsUnpaid
    BY DEF Inv, UnpaidInv, CancelledIsUnpaid, Paid
  <1>2. QED BY <1>1, OrdersInvariant, PTL
=============================================================================
