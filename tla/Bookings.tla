------------------------------ MODULE Bookings ------------------------------
(***************************************************************************)
(* The bookings of one resource, its waiting list and the reviewed changes *)
(* of its capacity, its rule and its holidays: server/expansion/bookings.ts*)
(* and the bookings of server/platform/business.ts.                        *)
(*                                                                         *)
(* Visitors are served by the site process, operators by the studio, and   *)
(* offers and the slots of a rule are made by worker processes, all on one *)
(* database.  A transaction is one step.  The operations that check        *)
(* outside a transaction what they write afterwards (saveSlot, saveRule,   *)
(* saveResource, saveHoliday, materialize) are two steps, and a step of    *)
(* another process may come in between.                                    *)
(*                                                                         *)
(* Every slot has a day of its own and lies ahead: no operation changes    *)
(* what has begun.  A guest has one entry per slot; an accepted one stands *)
(* for the booking that came of it as well.  An offer lapses after ten     *)
(* minutes, although its row says offered until the next offer job.        *)
(***************************************************************************)
EXTENDS Naturals, FiniteSetsExt, Functions

CONSTANTS
  Slot,        \* the times of the recurring rule
  Guest,       \* accounts that may wait
  Key,         \* direct bookings that may be made
  Process,     \* processes that check before they write
  MaxCapacity  \* bound: seats

ASSUME BookingsAssumption ==
  /\ IsFiniteSet(Slot) /\ IsFiniteSet(Guest) /\ IsFiniteSet(Key)
  /\ MaxCapacity \in Nat \ {0}

VARIABLES
  resource,   \* capacity and active of the resource
  rule,       \* the capacity of its recurring rule, 0 while there is none
  capacity,   \* [Slot -> capacity of the slot, 0 while it does not exist]
  byHand,     \* slots made by saveSlot instead of the rule
  holiday,    \* slots whose day is a holiday
  booking,    \* [Key -> a direct booking]
  entry,      \* [Slot -> [Guest -> an entry of the waiting list]]
  review,     \* the change under review
  draft,      \* [Process -> what it has checked and is about to write]
  raced       \* a change was written although its check did not hold any more

vars == <<resource, rule, capacity, byHand, holiday, booking, entry, review,
          draft, raced>>
guests == <<booking, entry>>
slots == <<capacity, byHand, holiday>>

Seats == 1..MaxCapacity
Resource == [capacity: Seats, active: BOOLEAN]
NoBooking == [slot |-> "none", quantity |-> 0]
Booking == [slot: Slot, quantity: Seats]
\* An entry that was left, has expired, or whose booking was cancelled is over.
NoEntry == [status |-> "none", quantity |-> 0]
Over == [status |-> "over", quantity |-> 0]
Entry == [status: {"waiting", "offered", "lapsed", "accepted"}, quantity: Seats]
Change == [kind: {"resource"}, input: Resource]
          \cup [kind: {"rule"}, input: Seats]
          \cup [kind: {"holiday"}, input: [slot: Slot, remove: BOOLEAN]]
Idle == [op |-> "idle"]
Draft == {Idle}
         \cup [op: {"slot"}, slot: Slot, capacity: Seats]
         \cup [op: {"materialize", "rule"}, capacity: Seats]
         \cup [op: {"resource"}, input: Resource]
         \cup [op: {"holiday"}, slot: Slot]

-----------------------------------------------------------------------------
(* What the queries of the code see                                        *)

Existing == {s \in Slot : capacity[s] > 0}

Direct(s) == {k \in Key : booking[k].slot = s}
Accepted(s) == {g \in Guest : entry[s][g].status = "accepted"}

\* Seats the entries of some guests ask for.
Asked(s, W) == SumFunctionOnSet([g \in Guest |-> entry[s][g].quantity], W)

\* Seats of confirmed bookings.
Reserved(s) == SumFunctionOnSet([k \in Key |-> booking[k].quantity], Direct(s))
               + Asked(s, Accepted(s))

Waiting(s) == {g \in Guest : entry[s][g].status = "waiting"}
Offers(s) == {g \in Guest : entry[s][g].status = "offered"}

\* defect: offers hold no seats
OfferedNever(s) == 0

\* Seats held by live offers.
Offered(s) == Asked(s, Offers(s))

Used(s) == Reserved(s) + Offered(s)

\* A slot that createBooking, join and accept take.
Bookable(s) == resource.active /\ s \in Existing \ holiday

-----------------------------------------------------------------------------
Snapshot(kind, input) ==
  LET seen == IF kind = "holiday" THEN Existing \cap {input.slot} ELSE Existing IN
  [resource |-> resource, rule |-> IF kind = "rule" THEN rule ELSE 0,
   holiday |-> holiday,
   slots |-> [s \in seen |->
     [capacity |-> capacity[s], reserved |-> Reserved(s), offered |-> Offered(s),
      waiting |-> Cardinality(Waiting(s)),
      largest |-> Max({0} \cup {entry[s][g].quantity : g \in Waiting(s)})]]]

\* defect: waiting guests are not looked at
ConflictsOfHolders(kind, input) ==
  \/ /\ kind = "resource"
     /\ \E s \in Existing : \/ Used(s) > input.capacity
                            \/ ~input.active /\ Used(s) > 0
  \/ kind = "holiday" /\ ~input.remove /\ input.slot \in Existing /\ Used(input.slot) > 0

\* What previewChange lists as conflicts.
Conflicts(kind, input) ==
  \/ /\ kind = "resource"
     /\ \E s \in Existing :
          \/ Used(s) > input.capacity
          \/ \E g \in Waiting(s) : entry[s][g].quantity > input.capacity
          \/ ~input.active /\ (Used(s) > 0 \/ Waiting(s) # {})
  \/ /\ kind = "holiday" /\ ~input.remove /\ input.slot \in Existing
     /\ Used(input.slot) > 0 \/ Waiting(input.slot) # {}

NoReview == [kind |-> "none"]

TypeOK ==
  /\ resource \in Resource /\ rule \in 0..MaxCapacity
  /\ capacity \in [Slot -> 0..MaxCapacity]
  /\ byHand \in SUBSET Slot /\ holiday \in SUBSET Slot
  /\ booking \in [Key -> Booking \cup {NoBooking}]
  /\ entry \in [Slot -> [Guest -> Entry \cup {NoEntry, Over}]]
  /\ \/ review = NoReview
     \/ /\ [kind |-> review.kind, input |-> review.input] \in Change
        /\ DOMAIN review.base.slots \subseteq Slot
  /\ draft \in [Process -> Draft]
  /\ raced \in BOOLEAN

Init ==
  /\ resource \in [capacity: Seats, active: {TRUE}]
  /\ rule = 0
  /\ capacity = [s \in Slot |-> 0] /\ byHand = {} /\ holiday = {}
  /\ booking = [k \in Key |-> NoBooking]
  /\ entry = [s \in Slot |-> [g \in Guest |-> NoEntry]]
  /\ review = NoReview
  /\ draft = [p \in Process |-> Idle]
  /\ raced = FALSE

-----------------------------------------------------------------------------
(* Visitors                                                                *)

Fits(s, q) == Used(s) + q <= capacity[s]

\* The transaction of createBooking with a new key.
CreateBooking(k, s, q) ==
  /\ booking[k] = NoBooking /\ Bookable(s) /\ Fits(s, q)
  /\ booking' = [booking EXCEPT ![k] = [slot |-> s, quantity |-> q]]
  /\ UNCHANGED <<resource, rule, slots, entry, review, draft, raced>>

\* Any booking of the project, direct or from the waiting list.  The key of a
\* cancelled one stands for a booking not made yet.
CancelBooking ==
  /\ \/ \E k \in Key :
          /\ booking[k] # NoBooking
          /\ booking' = [booking EXCEPT ![k] = NoBooking]
          /\ UNCHANGED entry
     \/ \E s \in Slot, g \in Guest :
          /\ entry[s][g].status = "accepted"
          /\ entry' = [entry EXCEPT ![s][g] = Over]
          /\ UNCHANGED booking
  /\ UNCHANGED <<resource, rule, slots, review, draft, raced>>

\* The transaction of join: only who cannot book waits.  A guest who has an
\* entry gets that one back, whatever became of it.
Join(g, s, q) ==
  /\ entry[s][g] = NoEntry
  /\ Bookable(s) /\ q <= capacity[s] /\ ~Fits(s, q)
  /\ entry' = [entry EXCEPT ![s][g] = [status |-> "waiting", quantity |-> q]]
  /\ UNCHANGED <<resource, rule, slots, booking, review, draft, raced>>

\* The transaction of accept; its own offer is among the used seats.
Accept(g, s) ==
  /\ entry[s][g].status = "offered"
  /\ Bookable(s) /\ Used(s) <= capacity[s]
  /\ entry' = [entry EXCEPT ![s][g].status = "accepted"]
  /\ UNCHANGED <<resource, rule, slots, booking, review, draft, raced>>

\* defect: a status the table refuses
LeaveAsLeft(g, s) ==
  /\ entry[s][g].status \in {"waiting", "offered", "lapsed"}
  /\ entry' = [entry EXCEPT ![s][g].status = "left"]
  /\ UNCHANGED <<resource, rule, slots, booking, review, draft, raced>>

\* BookingExpansion.cancel
Leave(g, s) ==
  /\ entry[s][g].status \in {"waiting", "offered", "lapsed"}
  /\ entry' = [entry EXCEPT ![s][g] = Over]
  /\ UNCHANGED <<resource, rule, slots, booking, review, draft, raced>>

\* offer_expires_at passes.
Lapse(g, s) ==
  /\ entry[s][g].status = "offered"
  /\ entry' = [entry EXCEPT ![s][g].status = "lapsed"]
  /\ UNCHANGED <<resource, rule, slots, booking, review, draft, raced>>

-----------------------------------------------------------------------------
(* The offer job                                                           *)

\* One offer after the other while it fits; the order among the guests of a
\* slot is left open.
Fill(s) ==
  IF ~Bookable(s) THEN {{}}
  ELSE {W \in SUBSET Waiting(s) :
          /\ Fits(s, Asked(s, W))
          /\ \A g \in Waiting(s) \ W : ~Fits(s, Asked(s, W) + entry[s][g].quantity)}

\* The transaction of offer: lapsed offers expire, then guests get offers.
Offer ==
  \E F \in [Slot -> SUBSET Guest] :
    /\ \A s \in Slot : F[s] \in Fill(s)
    /\ entry' = [s \in Slot |-> [g \in Guest |->
         IF entry[s][g].status = "lapsed" THEN Over
         ELSE IF g \in F[s] THEN [entry[s][g] EXCEPT !.status = "offered"]
         ELSE entry[s][g]]]
    /\ entry' # entry
    /\ UNCHANGED <<resource, rule, slots, booking, review, draft, raced>>

-----------------------------------------------------------------------------
(* Operators: reviewed changes                                             *)

\* previewChange.  A review with conflicts is refused by applyChange for ever and
\* is not kept; one without them is (bound: one at a time).
Preview(kind, input) ==
  /\ review = NoReview /\ [kind |-> kind, input |-> input] \in Change
  /\ kind = "rule" => rule > 0 /\ input <= resource.capacity
  /\ ~Conflicts(kind, input)
  /\ review' = [kind |-> kind, input |-> input, base |-> Snapshot(kind, input)]
  /\ UNCHANGED <<resource, rule, slots, guests, draft, raced>>

\* It runs out, or nobody approves it.
Discard ==
  /\ review # NoReview /\ review' = NoReview
  /\ UNCHANGED <<resource, rule, slots, guests, draft, raced>>

\* defect: the snapshot is not compared
UnchangedNever == TRUE

\* Nothing the review looked at has changed since.
UnchangedSinceReview == Snapshot(review.kind, review.input) = review.base

Least(c, d) == IF c < d THEN c ELSE d

\* The transaction of applyChange.
ApplyChange ==
  /\ review # NoReview /\ UnchangedSinceReview
  /\ \/ /\ review.kind = "resource"
        /\ resource' = review.input
        /\ capacity' = [s \in Slot |->
             IF s \in Existing THEN Least(capacity[s], review.input.capacity)
             ELSE capacity[s]]
        /\ rule' = Least(rule, review.input.capacity)
        /\ UNCHANGED holiday
     \/ /\ review.kind = "rule" /\ resource.active
        /\ rule' = review.input
        /\ UNCHANGED <<resource, capacity, holiday>>
     \/ /\ review.kind = "holiday" /\ review.input.remove
        /\ holiday' = holiday \ {review.input.slot}
        /\ UNCHANGED <<resource, capacity, rule>>
     \/ /\ review.kind = "holiday" /\ ~review.input.remove
        /\ Reserved(review.input.slot) = 0
        /\ holiday' = holiday \cup {review.input.slot}
        /\ UNCHANGED <<resource, capacity, rule>>
  /\ review' = NoReview
  /\ UNCHANGED <<byHand, guests, draft, raced>>

-----------------------------------------------------------------------------
(* Operators: changes that need no review, checked and then written        *)

Checks(p, d) ==
  /\ draft[p] = Idle
  /\ draft' = [draft EXCEPT ![p] = d]
  /\ UNCHANGED <<resource, rule, slots, guests, review, raced>>

Writes(p, op) == draft[p].op = op /\ draft' = [draft EXCEPT ![p] = Idle]

SlotCheck(p, s, c) ==
  /\ resource.active /\ c <= resource.capacity
  /\ Checks(p, [op |-> "slot", slot |-> s, capacity |-> c])

SlotWrite(p) ==
  /\ Writes(p, "slot") /\ capacity[draft[p].slot] = 0
  /\ capacity' = [capacity EXCEPT ![draft[p].slot] = draft[p].capacity]
  /\ byHand' = byHand \cup {draft[p].slot}
  /\ UNCHANGED <<resource, rule, holiday, guests, review, raced>>

MaterializeCheck(p) ==
  /\ rule > 0 /\ resource.active
  /\ Checks(p, [op |-> "materialize", capacity |-> rule])

\* The transaction makes the slots of the rule that do not exist yet, none if one
\* overlaps a slot made by hand.
MaterializeWrite(p) ==
  /\ Writes(p, "materialize") /\ byHand \subseteq holiday
  /\ capacity' = [s \in Slot |->
       IF s \notin holiday /\ capacity[s] = 0 THEN draft[p].capacity ELSE capacity[s]]
  /\ UNCHANGED <<resource, rule, byHand, holiday, guests, review, raced>>

\* saveRule: a new rule, or any change of it while no slot is ahead.
RuleCheck(p, c) ==
  /\ rule = 0 \/ Existing = {}
  /\ resource.active /\ c <= resource.capacity
  /\ Checks(p, [op |-> "rule", capacity |-> c])

RuleWrite(p) ==
  /\ Writes(p, "rule")
  /\ rule' = draft[p].capacity
  /\ UNCHANGED <<resource, slots, guests, review, raced>>

\* saveResource: its name, or anything while no slot is ahead.
ResourceCheck(p, r) ==
  /\ r = resource \/ Existing = {}
  /\ Checks(p, [op |-> "resource", input |-> r])

ResourceWrite(p) ==
  /\ Writes(p, "resource")
  /\ resource' = draft[p].input
  /\ raced' = (raced \/ (draft[p].input # resource /\ Existing # {}))
  /\ UNCHANGED <<rule, slots, guests, review>>

\* saveHoliday for a day without bookings or slots ahead.
HolidayCheck(p, s) ==
  /\ s \notin holiday \cup Existing /\ Reserved(s) = 0
  /\ Checks(p, [op |-> "holiday", slot |-> s])

HolidayWrite(p) ==
  LET s == draft[p].slot IN
  /\ Writes(p, "holiday")
  /\ holiday' = holiday \cup {s}
  /\ raced' = (raced \/ s \in Existing \/ Reserved(s) > 0)
  /\ UNCHANGED <<resource, rule, capacity, byHand, guests, review>>

HolidayRemove(s) ==
  /\ s \in holiday /\ holiday' = holiday \ {s}
  /\ UNCHANGED <<resource, rule, capacity, byHand, guests, review, draft, raced>>

\* The process dies, or the write throws.
DraftDies(p) ==
  /\ draft[p] # Idle /\ draft' = [draft EXCEPT ![p] = Idle]
  /\ UNCHANGED <<resource, rule, slots, guests, review, raced>>

-----------------------------------------------------------------------------

Visit ==
  \/ \E s \in Slot, q \in Seats :
       \/ \E k \in Key : CreateBooking(k, s, q)
       \/ \E g \in Guest : Join(g, s, q)
  \/ \E g \in Guest, s \in Slot : Accept(g, s) \/ Leave(g, s) \/ Lapse(g, s)
  \/ CancelBooking

Review ==
  \/ \E c \in Change : Preview(c.kind, c.input)
  \/ Discard \/ ApplyChange

Check(p) ==
  \/ \E s \in Slot, c \in Seats : SlotCheck(p, s, c)
  \/ MaterializeCheck(p)
  \/ \E c \in Seats : RuleCheck(p, c)
  \/ \E r \in Resource : ResourceCheck(p, r)
  \/ \E s \in Slot : HolidayCheck(p, s)

Write(p) ==
  \/ SlotWrite(p) \/ MaterializeWrite(p) \/ RuleWrite(p) \/ ResourceWrite(p)
  \/ HolidayWrite(p) \/ DraftDies(p)

Next ==
  \/ Visit \/ Offer \/ Review
  \/ \E s \in Slot : HolidayRemove(s)
  \/ \E p \in Process : Check(p) \/ Write(p)

Spec == Init /\ [][Next]_vars

-----------------------------------------------------------------------------
(* Properties                                                              *)

\* No slot is overbooked: confirmed bookings and live offers never exceed its
\* capacity, whatever is booked, offered, accepted or cancelled at the same time
\* and however operators change the capacity (docs/platform.md:66, the hold of
\* docs/expansion-backend.md:65).
NoOverbooking ==
  \A s \in Slot : capacity[s] > 0 => Used(s) <= capacity[s]

\* Who waits can be offered a place one day: a change of the capacity never makes
\* a slot too small for a guest on its list (WAITLIST_QUANTITY, bookings.ts:54).
WaitersFit ==
  \A s \in Slot : \A g \in Waiting(s) : entry[s][g].quantity <= capacity[s]

\* A slot ahead that anybody has booked, was offered or waits for takes place:
\* its day is no holiday and the resource is in use (docs/expansion-backend.md:77),
\* unless an unreviewed change was written over a check of another process.
PromisesKept ==
  ~raced => \A s \in Existing :
    Used(s) > 0 \/ Waiting(s) # {} => resource.active /\ s \notin holiday
=============================================================================
