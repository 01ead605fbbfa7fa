------------------------------- MODULE Orders -------------------------------
(***************************************************************************)
(* Orders of one product, their payment and their refunds:                 *)
(* server/platform/business.ts, the ledger of server/advancement/ledger.ts *)
(* and the hold that server/expansion/reconciliation.ts puts on orders     *)
(* after the site database was restored.                                   *)
(*                                                                         *)
(* The studio and the site worker serve the same site database.  Inside a  *)
(* process only an await lets something else in; between two processes     *)
(* every statement outside a transaction does, so a read that a later      *)
(* write relies on is a step of its own (stage "read").  The provider is   *)
(* external: it answers late or never, its reports arrive any number of    *)
(* times in any order, and it executes a command at most once because the  *)
(* command id is the idempotency key.                                      *)
(*                                                                         *)
(* Every order takes one piece of the product.  provider_sequence is       *)
(* shifted by one: 0 is its default -1, the report n carries n - 1.        *)
(***************************************************************************)
EXTENDS Naturals, FiniteSets

CONSTANTS
  Order,       \* orders that may be made
  Process,     \* the processes that serve the site
  Command,     \* refund commands that may be made
  Stock,       \* pieces of the product
  Amount,      \* amount_minor of an order
  MaxSeq,      \* bound: reports of the provider on an order
  MaxRestores  \* bound: restores of the site database

ASSUME OrdersAssumption ==
  /\ IsFiniteSet(Order) /\ Stock \in Nat /\ Amount \in Nat \ {0}
  /\ MaxSeq \in Nat /\ MaxRestores \in Nat

VARIABLES
  \* the site database
  row,        \* [Order -> platform_orders]
  inventory,  \* inventory of the product
  command,    \* [Command -> status in platform_payment_commands]
  seen,       \* [Order -> reports in platform_payment_events]
  ledger,     \* [Order -> what the financial entries of the order add up to]
  held,       \* unresolvedOrderIds of the restore report
  mark,       \* [Order -> payment watermark of the restore]
  retained,   \* pending-payment-commands of the restore
  lost,       \* those whose row the restore changed
  backup,     \* the backup a restore will use
  \* the processes
  call,       \* [Process -> the request it serves]
  \* the provider
  charge,     \* [Order -> its payment]
  reports,    \* the reports it has sent
  sent,       \* [Command -> the refund it was asked for]
  executed,   \* commands it has executed
  \* what the properties remember
  made,       \* orders made, also those a restore has lost
  known,      \* [Order -> the latest report ever applied]
  clobbered,  \* orders whose status a checkout overwrote unread
  forgotten,  \* orders still held when the database was restored once more
  restores

data == <<row, inventory, command, seen, ledger>>
hold == <<held, mark, retained, lost>>
provider == <<charge, reports, sent, executed>>
history == <<made, known, clobbered, forgotten, restores>>
vars == <<data, hold, backup, call, provider, history>>

Paid == {"paid", "partially_refunded", "refunded"}
Closed == {"failed", "cancelled"}
Status == {"absent", "pending", "checkout_pending"} \cup Paid \cup Closed
Outstanding == {"pending", "requested"}

Row == [status: Status, bound: BOOLEAN, refunded: 0..Amount, seq: 0..MaxSeq]
Report == [order: Order, seq: 1..MaxSeq, status: Paid \cup Closed,
           refunded: 0..Amount]
Request == [order: Order, amount: 1..Amount]
Entries == [paid: Nat, refunded: Nat]

Absent == [status |-> "absent", bound |-> FALSE, refunded |-> 0, seq |-> 0]
NoMark == [bound |-> FALSE, seq |-> 0]
Unsent == [order |-> "none", amount |-> 0]
Idle == [op |-> "idle"]

Data == [row: [Order -> Row], inventory: Nat,
         command: [Command -> {"absent", "verified"} \cup Outstanding],
         seen: [Order -> SUBSET (1..MaxSeq)], ledger: [Order -> Entries]]
Current == [row |-> row, inventory |-> inventory, command |-> command,
            seen |-> seen, ledger |-> ledger]

Empty == [row |-> [o \in Order |-> Absent], inventory |-> Stock,
          command |-> [k \in Command |-> "absent"],
          seen |-> [o \in Order |-> {}],
          ledger |-> [o \in Order |-> [paid |-> 0, refunded |-> 0]]]

Call ==
  {Idle}
  \cup [op: {"checkout"}, order: Order]
  \cup [op: {"refund"}, order: Order, status: Status, refunded: 0..Amount]
  \cup [op: {"refunding"}, command: Command]
  \cup [op: {"reconcile"}, order: Order, bound: BOOLEAN]
  \cup [op: {"answered"}, order: Order, bound: BOOLEAN, report: Report,
        listed: SUBSET Command]
  \cup [op: {"confirm"}, order: Order, listed: SUBSET Command, ok: BOOLEAN]

TypeOK ==
  /\ Current \in Data /\ backup \in Data
  /\ held \in SUBSET Order
  /\ mark \in [Order -> [bound: BOOLEAN, seq: 0..MaxSeq]]
  /\ retained \in SUBSET Command /\ lost \in SUBSET retained
  /\ call \in [Process -> Call]
  /\ charge \in [Order -> [status: {"none", "asked", "open"} \cup Paid \cup Closed,
                           refunded: 0..Amount, seq: 0..MaxSeq]]
  /\ reports \in SUBSET Report
  /\ sent \in [Command -> Request \cup {Unsent}]
  /\ executed \in SUBSET Command
  /\ made \in SUBSET Order /\ known \in [Order -> 0..MaxSeq]
  /\ clobbered \in SUBSET Order /\ forgotten \in SUBSET Order
  /\ restores \in 0..MaxRestores

Init ==
  /\ row = Empty.row /\ inventory = Empty.inventory
  /\ command = Empty.command /\ seen = Empty.seen /\ ledger = Empty.ledger
  /\ held = {} /\ mark = [o \in Order |-> NoMark]
  /\ retained = {} /\ lost = {}
  /\ backup = Empty
  /\ call = [p \in Process |-> Idle]
  /\ charge = [o \in Order |-> [status |-> "none", refunded |-> 0, seq |-> 0]]
  /\ reports = {}
  /\ sent = [k \in Command |-> Unsent] /\ executed = {}
  /\ made = {} /\ known = [o \in Order |-> 0]
  /\ clobbered = {} /\ forgotten = {} /\ restores = 0

-----------------------------------------------------------------------------
(* Orders and their checkout                                               *)

\* The transaction of createOrder; a repeated key finds the order it made.
CreateOrder(o) ==
  /\ o \notin made /\ inventory > 0
  /\ inventory' = inventory - 1
  /\ row' = [row EXCEPT ![o].status = "pending"]
  /\ made' = made \cup {o}
  /\ UNCHANGED <<command, seen, ledger, hold, backup, call, provider, known,
                 clobbered, forgotten, restores>>

\* defects: an order in checkout can be cancelled; a status the table refuses
CancelInCheckout(o) ==
  /\ row[o].status \in {"pending", "checkout_pending"}
  /\ inventory' = inventory + 1
  /\ row' = [row EXCEPT ![o].status = "cancelled"]
  /\ UNCHANGED <<command, seen, ledger, hold, backup, call, provider, history>>
CancelAsReleased(o) ==
  /\ row[o].status = "pending" /\ ~row[o].bound
  /\ inventory' = inventory + 1
  /\ row' = [row EXCEPT ![o].status = "released"]
  /\ UNCHANGED <<command, seen, ledger, hold, backup, call, provider, history>>

\* The transaction of cancelOrder, which does not ask for the hold.
CancelOrder(o) ==
  /\ row[o].status = "pending" /\ ~row[o].bound
  /\ inventory' = inventory + 1
  /\ row' = [row EXCEPT ![o].status = "cancelled"]
  /\ UNCHANGED <<command, seen, ledger, hold, backup, call, provider, history>>

CheckoutRead(p, o) ==
  /\ call[p] = Idle /\ o \notin held
  /\ row[o].status \in {"pending", "checkout_pending"}
  /\ call' = [call EXCEPT ![p] = [op |-> "checkout", order |-> o]]
  /\ UNCHANGED <<data, hold, backup, provider, history>>

\* The update of line 75 reads nothing again; the request follows it.
CheckoutWrite(p) ==
  LET o == call[p].order IN
  /\ call[p].op = "checkout"
  /\ row' = [row EXCEPT ![o].status = "checkout_pending", ![o].bound = TRUE]
  /\ clobbered' = IF row[o].status \in {"pending", "checkout_pending"}
                  THEN clobbered ELSE clobbered \cup {o}
  /\ charge' = [charge EXCEPT ![o].status = IF @ = "none" THEN "asked" ELSE @]
  /\ call' = [call EXCEPT ![p] = Idle]
  /\ UNCHANGED <<inventory, command, seen, ledger, hold, backup, reports, sent,
                 executed, made, known, forgotten, restores>>

-----------------------------------------------------------------------------
(* Reports of the provider                                                 *)

\* defect: any report is accepted after a restore
BelowMarkNever(e) == FALSE

BelowMark(e) == mark[e.order].bound /\ e.seq < mark[e.order].seq

Duplicate(e) == e.seq \in seen[e.order]

\* defect: an older report is applied like a newer one
StaleNever(e) == FALSE

Stale(e) == e.seq <= row[e.order].seq

\* PAYMENT_TRANSITION: what is paid stays paid, what is closed stays closed and
\* the refunded amount does not fall.
Refused(e) ==
  \/ row[e.order].status \in Paid /\ e.status \in Closed
  \/ row[e.order].status \in Closed /\ e.status \in Paid
  \/ e.refunded < row[e.order].refunded

\* defect: a second closing report releases the inventory again
ReleasesAgain(e) == e.status \in Closed

Releases(e) == e.status \in Closed /\ row[e.order].status \notin Closed

\* defect: every report of a paid order is a payment
PaysAgain(e) == e.status \in Paid

Pays(e) == e.status \in Paid /\ row[e.order].status \notin Paid

\* Any newer refund report settles every outstanding command of its order.
Verifies(e, k) ==
  /\ e.status \in {"partially_refunded", "refunded"}
  /\ sent[k].order = e.order /\ command[k] \in Outstanding

\* The transaction of applyPaymentEvent, when it does not throw.
Apply(e) ==
  LET o == e.order IN
  /\ ~BelowMark(e) /\ row[o].bound
  /\ IF Duplicate(e) THEN UNCHANGED <<data, known>>
     ELSE /\ seen' = [seen EXCEPT ![o] = @ \cup {e.seq}]
          /\ IF Stale(e)
             THEN UNCHANGED <<row, inventory, command, ledger, known>>
             ELSE
               /\ ~Refused(e)
               /\ row' = [row EXCEPT ![o].status = e.status,
                            ![o].refunded = e.refunded, ![o].seq = e.seq]
               /\ inventory' = inventory + IF Releases(e) THEN 1 ELSE 0
               /\ command' = [k \in Command |->
                    IF Verifies(e, k) THEN "verified" ELSE command[k]]
               /\ ledger' = [ledger EXCEPT
                    ![o].paid = @ + IF Pays(e) THEN 1 ELSE 0,
                    ![o].refunded = @ + e.refunded - row[o].refunded]
               /\ known' = [known EXCEPT ![o] = IF @ < e.seq THEN e.seq ELSE @]

Webhook(e) ==
  /\ Apply(e)
  /\ UNCHANGED <<hold, backup, call, provider, made, clobbered, forgotten,
                 restores>>

-----------------------------------------------------------------------------
(* Refunds                                                                 *)

\* refundOrder reads the order before its transaction.
RefundRead(p, o) ==
  /\ call[p] = Idle /\ o \notin held /\ row[o].bound
  /\ call' = [call EXCEPT ![p] = [op |-> "refund", order |-> o,
                status |-> row[o].status, refunded |-> row[o].refunded]]
  /\ UNCHANGED <<data, hold, backup, provider, history>>

\* defect: a command does not wait for the result of the one before
AwaitsNever(o) == FALSE

Awaits(o) == \E k \in Command : sent[k].order = o /\ command[k] \in Outstanding

\* The transaction with a new key; the request follows it.
RefundAdmit(p, k, a) ==
  LET o == call[p].order IN
  /\ call[p].op = "refund" /\ sent[k] = Unsent
  /\ call[p].status \in {"paid", "partially_refunded"}
  /\ a + call[p].refunded <= Amount /\ ~Awaits(o)
  /\ command' = [command EXCEPT ![k] = "pending"]
  /\ sent' = [sent EXCEPT ![k] = [order |-> o, amount |-> a]]
  /\ call' = [call EXCEPT ![p] = [op |-> "refunding", command |-> k]]
  /\ UNCHANGED <<row, inventory, seen, ledger, hold, backup, charge, reports,
                 executed, history>>

\* A repeated key sends its command once more.
RefundAgain(p, k) ==
  /\ call[p].op = "refund"
  /\ sent[k].order = call[p].order /\ command[k] # "absent"
  /\ call' = [call EXCEPT ![p] = [op |-> "refunding", command |-> k]]
  /\ UNCHANGED <<data, hold, backup, provider, history>>

RefundDone(p) ==
  LET k == call[p].command IN
  /\ call[p].op = "refunding"
  /\ command' = [command EXCEPT ![k] = IF @ = "pending" THEN "requested" ELSE @]
  /\ call' = [call EXCEPT ![p] = Idle]
  /\ UNCHANGED <<row, inventory, seen, ledger, hold, backup, provider, history>>

-----------------------------------------------------------------------------
(* Reconciliation                                                          *)

ReconcileAsk(p, o) ==
  /\ call[p] = Idle /\ row[o].status # "absent"
  /\ row[o].bound \/ mark[o].bound
  /\ call' = [call EXCEPT ![p] =
       [op |-> "reconcile", order |-> o, bound |-> row[o].bound]]
  /\ UNCHANGED <<data, hold, backup, provider, history>>

\* The order of a restored database has lost its provider.
Bind(p) ==
  LET o == call[p].order IN
  /\ call[p].op = "answered" /\ ~call[p].bound
  /\ mark[o].bound /\ ~BelowMark(call[p].report)
  /\ row' = [row EXCEPT ![o].bound = TRUE]
  /\ call' = [call EXCEPT ![p].bound = TRUE]
  /\ UNCHANGED <<inventory, command, seen, ledger, hold, backup, provider,
                 history>>

ReconcileApply(p) ==
  LET c == call[p] IN
  /\ c.op = "answered" /\ c.bound
  /\ Apply(c.report)
  /\ call' = [call EXCEPT ![p] = [op |-> "confirm", order |-> c.order,
       listed |-> c.listed, ok |-> Duplicate(c.report) \/ ~Stale(c.report)]]
  /\ UNCHANGED <<hold, backup, provider, made, clobbered, forgotten, restores>>

\* applyVerifiedRetainedCommands and confirmReconciledOrder.
Confirm(p) ==
  LET o == call[p].order
      verified == [k \in Command |->
        IF k \in call[p].listed \cap retained THEN "verified" ELSE command[k]]
      settled == \A k \in lost : sent[k].order = o => verified[k] = "verified"
  IN
  /\ call[p].op = "confirm"
  /\ command' = verified
  /\ held' = IF call[p].ok /\ settled THEN held \ {o} ELSE held
  /\ call' = [call EXCEPT ![p] = Idle]
  /\ UNCHANGED <<row, inventory, seen, ledger, mark, retained, lost, backup,
                 provider, history>>

\* The process dies, the transport fails, the site is not writable any more, or
\* a check throws.
CallDies(p) ==
  /\ call[p] # Idle
  /\ call' = [call EXCEPT ![p] = Idle]
  /\ UNCHANGED <<data, hold, backup, provider, history>>

-----------------------------------------------------------------------------
(* The provider                                                            *)

Reports(o, s, r) ==
  LET n == charge[o].seq + 1 IN
  /\ n <= MaxSeq
  /\ charge' = [charge EXCEPT ![o] = [status |-> s, refunded |-> r, seq |-> n]]
  /\ reports' = reports \cup
       {[order |-> o, seq |-> n, status |-> s, refunded |-> r]}

Opens(o) ==
  /\ charge[o].status = "asked"
  /\ charge' = [charge EXCEPT ![o].status = "open"]
  /\ UNCHANGED <<data, hold, backup, call, reports, sent, executed, history>>

Settles(o) ==
  /\ \E s \in {"paid", "failed", "cancelled"} \ {charge[o].status} :
       /\ charge[o].status \in {"open", "failed"}
       /\ Reports(o, s, 0)
  /\ UNCHANGED <<data, hold, backup, call, sent, executed, history>>

Refunds(o, a) ==
  LET r == charge[o].refunded + a IN
  /\ charge[o].status \in {"paid", "partially_refunded"} /\ r <= Amount
  /\ Reports(o, IF r = Amount THEN "refunded" ELSE "partially_refunded", r)

Executes(k) ==
  /\ sent[k] # Unsent /\ k \notin executed
  /\ Refunds(sent[k].order, sent[k].amount)
  /\ executed' = executed \cup {k}
  /\ UNCHANGED <<data, hold, backup, call, sent, history>>

\* The merchant refunds at the provider, or a customer charges back.
RefundsByItself(o) ==
  /\ Refunds(o, 1)
  /\ UNCHANGED <<data, hold, backup, call, sent, executed, history>>

\* The answer to a status query: a report it has sent, maybe not its latest, or a
\* new one with the latest content and the commands it has executed.
Answers(p) ==
  LET o == call[p].order
      Answer(e, listed) == call' = [call EXCEPT ![p] =
        [op |-> "answered", order |-> o, bound |-> call[p].bound,
         report |-> e, listed |-> listed]]
  IN
  /\ call[p].op = "reconcile" /\ charge[o].status \in Paid \cup Closed
  /\ \/ /\ \E e \in reports : e.order = o /\ Answer(e, {})
        /\ UNCHANGED <<charge, reports>>
     \/ /\ Reports(o, charge[o].status, charge[o].refunded)
        /\ \E e \in reports' : /\ e.order = o /\ e.seq = charge'[o].seq
                               /\ Answer(e, {k \in executed : sent[k].order = o})
  /\ UNCHANGED <<data, hold, backup, sent, executed, history>>

-----------------------------------------------------------------------------
(* Backup and restore of the site database                                 *)

\* The backup a restore will use; the others are not kept (bound: one is taken
\* besides that of the empty site).
Backup ==
  /\ restores < MaxRestores /\ backup = Empty
  /\ backup' = Current
  /\ UNCHANGED <<data, hold, call, provider, history>>

Differs(o) ==
  \/ row[o] # backup.row[o] \/ seen[o] # backup.seen[o]
  \/ \E k \in Command : sent[k].order = o /\ command[k] # backup.command[k]

\* compareOperationalData and persistReconciliation, between the replacement of
\* the file and its opening; every handle is closed, so no call survives.  No
\* backup is of use after the last restore.
Restore ==
  /\ restores < MaxRestores
  /\ row' = backup.row /\ inventory' = backup.inventory
  /\ command' = backup.command /\ seen' = backup.seen /\ ledger' = backup.ledger
  /\ held' = {o \in Order : Differs(o)}
  /\ mark' = [o \in Order |->
       IF row[o].bound THEN [bound |-> TRUE, seq |-> row[o].seq] ELSE NoMark]
  /\ retained' = {k \in Command : command[k] \in Outstanding}
  /\ lost' = {k \in retained' : backup.command[k] # command[k]}
  /\ forgotten' = forgotten \cup held
  /\ call' = [p \in Process |-> Idle]
  /\ restores' = restores + 1
  /\ backup' = IF restores' < MaxRestores THEN backup ELSE Empty
  /\ UNCHANGED <<provider, made, known, clobbered>>

-----------------------------------------------------------------------------

Serve(p) ==
  \/ \E o \in Order : CheckoutRead(p, o) \/ RefundRead(p, o) \/ ReconcileAsk(p, o)
  \/ CheckoutWrite(p)
  \/ \E k \in Command : RefundAgain(p, k) \/ \E a \in 1..Amount : RefundAdmit(p, k, a)
  \/ RefundDone(p) \/ Bind(p) \/ ReconcileApply(p) \/ Confirm(p) \/ CallDies(p)

Provide ==
  \/ \E o \in Order : Opens(o) \/ Settles(o) \/ RefundsByItself(o)
  \/ \E k \in Command : Executes(k)
  \/ \E p \in Process : Answers(p)

Next ==
  \/ \E o \in Order : CreateOrder(o) \/ CancelOrder(o)
  \/ \E e \in reports : Webhook(e)
  \/ \E p \in Process : Serve(p)
  \/ Provide \/ Backup \/ Restore

Spec == Init /\ [][Next]_vars

-----------------------------------------------------------------------------
(* Properties                                                              *)

Reserving == {o \in Order : row[o].status \notin {"absent"} \cup Closed}

\* Stock is neither lost nor sold twice, whatever orders are cancelled here or
\* closed by the provider (docs/platform.md:48), unless a checkout overwrote a
\* status it had not read: business.ts:75 takes a cancelled order back without
\* its inventory.
InventoryConserved ==
  clobbered = {} => inventory + Cardinality(Reserving) = Stock

\* The ledger accounts for each order: one payment if it is paid, and refunds
\* that add up to what the order says is refunded.
LedgerAgrees ==
  \A o \in Order \ clobbered :
    /\ ledger[o].paid = IF row[o].status \in Paid THEN 1 ELSE 0
    /\ ledger[o].refunded = row[o].refunded

\* An order is paid, refunded or failed only by the word of the provider, and
\* shows the latest report applied, although reports come twice and out of
\* order; a restore takes it back to an earlier one.
OrderIsReported ==
  \A o \in Order \ clobbered :
    /\ row[o].status \in Paid \/ row[o].seq > 0 =>
         \E e \in reports : /\ e.order = o /\ e.seq = row[o].seq
                            /\ e.status = row[o].status
                            /\ e.refunded = row[o].refunded
    /\ restores = 0 => row[o].seq = known[o]

\* Two refunds of an order are never under way at once, whichever processes ask
\* for them and however their answers are lost.
SingleOutstanding ==
  \A k, l \in Command :
    /\ command[k] \in Outstanding /\ command[l] \in Outstanding
    /\ sent[k].order = sent[l].order
    => k = l

\* An order that is open to charges and refunds has everything its site ever
\* knew of its payment, also after a restore, and no refund lost by the restore
\* is open (docs/expansion-backend.md:91); not so an order that was still held
\* when the database was restored again, since the second report replaces the
\* first (reconciliation.ts:28).
HeldUntilCaughtUp ==
  \A o \in Order \ (held \cup forgotten) :
    row[o].status # "absent" =>
      /\ row[o].seq = known[o]
      /\ \A k \in lost : sent[k].order = o => command[k] = "verified"

\* No money is taken for an order that was cancelled, unless a restore forgot
\* its payment: cancelOrder does not ask for the hold.
CancelledIsUnpaid ==
  restores = 0 =>
    \A o \in Order : row[o].status = "cancelled" => charge[o].status \notin Paid
=============================================================================
