--------------------------- MODULE BookingsProofs ---------------------------
(***************************************************************************)
(* The invariants of Bookings, for any slots, guests, keys, processes and  *)
(* numbers of seats.                                                       *)
(*                                                                         *)
(* The seats of a slot are a sum over all bookings and all entries.  An    *)
(* action of a guest changes one of them, the offer job adds a set: what   *)
(* becomes of the sum is shown first, and the invariants from that.        *)
(***************************************************************************)
EXTENDS Bookings, FiniteSums

-----------------------------------------------------------------------------
(* The inductive invariant                                                 *)

\* No slot has more seats taken or offered than it has, one that does not exist none.
SeatsInv == \A s \in Slot : Used(s) <= capacity[s]

\* A review that is kept has no conflict with what it saw.
Sound(kind, input, base) ==
  /\ kind = "resource" =>
       \A s \in DOMAIN base.slots :
         /\ base.slots[s].reserved + base.slots[s].offered <= input.capacity
         /\ base.slots[s].largest <= input.capacity
         /\ ~input.active => /\ base.slots[s].reserved + base.slots[s].offered = 0
                             /\ base.slots[s].waiting = 0
  /\ kind = "holiday" /\ ~input.remove =>
       \A s \in DOMAIN base.slots : /\ base.slots[s].reserved + base.slots[s].offered = 0
                                    /\ base.slots[s].waiting = 0

ReviewInv == review # NoReview => Sound(review.kind, review.input, review.base)

IInv == TypeOK /\ SeatsInv /\ WaitersFit /\ PromisesKept /\ ReviewInv

-----------------------------------------------------------------------------
(* The seats of a slot                                                     *)

Booked == [Key -> Booking \cup {NoBooking}]
Entries == [Slot -> [Guest -> Entry \cup {NoEntry, Over}]]

\* What a booking and an entry take of a slot.
SeatsOf(b, k, s) == IF b[k].slot = s THEN b[k].quantity ELSE 0
Holds(e, g, s) == IF e[s][g].status \in {"accepted", "offered"} THEN e[s][g].quantity ELSE 0

Taken(b, s) == SumFunctionOnSet([k \in Key |-> SeatsOf(b, k, s)], Key)
Held(e, s) == SumFunctionOnSet([g \in Guest |-> Holds(e, g, s)], Guest)

\* Both are numbers.
LEMMA SeatsType ==
  ASSUME NEW b \in Booked, NEW e \in Entries, NEW s \in Slot
  PROVE  /\ \A k \in Key : b[k].quantity \in Nat /\ SeatsOf(b, k, s) \in Nat
         /\ \A g \in Guest : e[s][g].quantity \in Nat /\ Holds(e, g, s) \in Nat
         /\ Taken(b, s) \in Nat /\ Held(e, s) \in Nat
  <1>1. ASSUME NEW k \in Key
        PROVE  b[k].quantity \in Nat /\ SeatsOf(b, k, s) \in Nat
    <2>1. b[k] \in Booking \cup {NoBooking}
      BY DEF Booked
    <2>2. QED BY <2>1, BookingsAssumption DEF Booking, NoBooking, Seats, SeatsOf
  <1>2. ASSUME NEW g \in Guest
        PROVE  e[s][g].quantity \in Nat /\ Holds(e, g, s) \in Nat
    <2>1. e[s][g] \in Entry \cup {NoEntry, Over}
      BY DEF Entries
    <2>2. QED BY <2>1, BookingsAssumption DEF Entry, NoEntry, Over, Seats, Holds
  <1>3. Taken(b, s) \in Nat
    <2> DEFINE f == [k \in Key |-> SeatsOf(b, k, s)]
    <2>1. \A k \in Key : f[k] \in Nat
      BY <1>1
    <2> HIDE DEF f
    <2>2. SumFunctionOnSet(f, Key) \in Nat
      BY <2>1, SumNat, BookingsAssumption
    <2>3. QED BY <2>2 DEF f, Taken
  <1>4. Held(e, s) \in Nat
    <2> DEFINE f == [g \in Guest |-> Holds(e, g, s)]
    <2>1. \A g \in Guest : f[g] \in Nat
      BY <1>2
    <2> HIDE DEF f
    <2>2. SumFunctionOnSet(f, Guest) \in Nat
      BY <2>1, SumNat, BookingsAssumption
    <2>3. QED BY <2>2 DEF f, Held
  <1>5. QED BY <1>1, <1>2, <1>3, <1>4

\* The queries add up what each booking and each entry takes.
LEMMA QueriesSum ==
  ASSUME NEW b \in Booked, NEW e \in Entries, NEW s \in Slot
  PROVE  /\ SumFunctionOnSet([k \in Key |-> b[k].quantity], {k \in Key : b[k].slot = s})
              = Taken(b, s)
         /\ SumFunctionOnSet([g \in Guest |-> e[s][g].quantity],
                             {g \in Guest : e[s][g].status = "accepted"})
              + SumFunctionOnSet([g \in Guest |-> e[s][g].quantity],
                                 {g \in Guest : e[s][g].status = "offered"})
              = Held(e, s)
  <1>1. SumFunctionOnSet([k \in Key |-> b[k].quantity], {k \in Key : b[k].slot = s})
          = Taken(b, s)
    <2> DEFINE f == [k \in Key |-> b[k].quantity]
               h == [k \in Key |-> SeatsOf(b, k, s)]
               T == {k \in Key : b[k].slot = s}
    <2>1. /\ T \subseteq Key /\ \A k \in T : f[k] = h[k] /\ h[k] \in Nat
          /\ \A k \in Key \ T : h[k] = 0
      BY SeatsType DEF SeatsOf
    <2> HIDE DEF f, h, T
    <2>2. SumFunctionOnSet(f, T) = SumFunctionOnSet(h, Key)
      BY <2>1, SumWithin, BookingsAssumption
    <2>3. QED BY <2>2 DEF f, h, T, Taken
  <1>2. SumFunctionOnSet([g \in Guest |-> e[s][g].quantity],
                         {g \in Guest : e[s][g].status = "accepted"})
          + SumFunctionOnSet([g \in Guest |-> e[s][g].quantity],
                             {g \in Guest : e[s][g].status = "offered"})
          = Held(e, s)
    <2> DEFINE f == [g \in Guest |-> e[s][g].quantity]
               h == [g \in Guest |-> Holds(e, g, s)]
               T == {g \in Guest : e[s][g].status = "accepted"}
               U == {g \in Guest : e[s][g].status = "offered"}
    <2>1. /\ T \cup U \subseteq Guest /\ T \cap U = {}
          /\ \A g \in T \cup U : f[g] = h[g] /\ h[g] \in Nat
          /\ \A g \in Guest \ (T \cup U) : h[g] = 0
          /\ \A g \in T \cup U : f[g] \in Nat
      BY SeatsType DEF Holds
    <2>2. IsFiniteSet(T) /\ IsFiniteSet(U)
      BY BookingsAssumption, FS_Subset
    <2> HIDE DEF f, h, T, U
    <2>3. SumFunctionOnSet(f, T \cup U) = SumFunctionOnSet(f, T) + SumFunctionOnSet(f, U)
      BY <2>1, <2>2, SumUnion
    <2>4. PICK V : V = T \cup U
      OBVIOUS
    <2>5. SumFunctionOnSet(f, V) = SumFunctionOnSet(h, Guest)
      BY <2>1, <2>4, SumWithin, BookingsAssumption
    <2>6. QED BY <2>3, <2>4, <2>5 DEF f, h, T, U, Held
  <1>3. QED BY <1>1, <1>2

\* The used seats of a slot, now and after a step.
LEMMA UsedIs ==
  ASSUME NEW s \in Slot
  PROVE  /\ booking \in Booked /\ entry \in Entries =>
              Used(s) = Taken(booking, s) + Held(entry, s)
         /\ booking' \in Booked /\ entry' \in Entries =>
              Used(s)' = Taken(booking', s) + Held(entry', s)
  <1>1. ASSUME NEW b \in Booked, NEW e \in Entries
        PROVE  SumFunctionOnSet([k \in Key |-> b[k].quantity], {k \in Key : b[k].slot = s})
               + SumFunctionOnSet([g \in Guest |-> e[s][g].quantity],
                                  {g \in Guest : e[s][g].status = "accepted"})
               + SumFunctionOnSet([g \in Guest |-> e[s][g].quantity],
                                  {g \in Guest : e[s][g].status = "offered"})
               = Taken(b, s) + Held(e, s)
    <2> DEFINE x == SumFunctionOnSet([g \in Guest |-> e[s][g].quantity],
                                  {g \in Guest : e[s][g].status = "accepted"})
               y == SumFunctionOnSet([g \in Guest |-> e[s][g].quantity],
                                  {g \in Guest : e[s][g].status = "offered"})
    <2>1. x \in Nat /\ y \in Nat
      <3> DEFINE f == [g \in Guest |-> e[s][g].quantity]
      <3>1. \A g \in Guest : f[g] \in Nat
        BY SeatsType
      <3> HIDE DEF f
      <3>2. \A T \in SUBSET Guest : SumFunctionOnSet(f, T) \in Nat
        BY <3>1, SumNat, FS_Subset, BookingsAssumption
      <3>3. QED BY <3>2 DEF f
    <2>2. x + y = Held(e, s)
      BY QueriesSum
    <2>3. Taken(b, s) \in Nat
      BY SeatsType
    <2> HIDE DEF x, y
    <2>4. Taken(b, s) + x + y = Taken(b, s) + Held(e, s)
      BY <2>1, <2>2, <2>3
    <2>5. QED BY <2>4, QueriesSum DEF x, y
  <1>2. QED BY <1>1, Zenon DEF Used, Reserved, Offered, Asked, Direct, Accepted, Offers

-----------------------------------------------------------------------------
(* Types                                                                   *)

\* The data of an entry and of a booking.
LEMMA TypeFacts ==
  ASSUME TypeOK
  PROVE  /\ booking \in Booked /\ entry \in Entries
         /\ capacity \in [Slot -> Nat] /\ MaxCapacity \in Nat \ {0}
         /\ resource.capacity \in Seats
  BY BookingsAssumption DEF TypeOK, Booked, Entries, Resource, Seats

\* The actions of visitors keep the types.
LEMMA VisitTypes ==
  ASSUME TypeOK, Visit
  PROVE  TypeOK'
  <1>1. SUFFICES booking' \in Booked /\ entry' \in Entries
    BY DEF Visit, CreateBooking, Join, Accept, Leave, Lapse, CancelBooking, slots, TypeOK,
           Booked, Entries
  <1>2. booking \in Booked /\ entry \in Entries
    BY TypeFacts
  <1>3. ASSUME NEW s \in Slot, NEW q \in Seats, NEW k \in Key, CreateBooking(k, s, q)
        PROVE  booking' \in Booked /\ entry' \in Entries
    BY <1>2, <1>3 DEF CreateBooking, Booked, Booking
  <1>4. ASSUME NEW s \in Slot, NEW q \in Seats, NEW g \in Guest, Join(g, s, q)
        PROVE  booking' \in Booked /\ entry' \in Entries
    BY <1>2, <1>4 DEF Join, Entries, Entry
  <1>5. ASSUME NEW s \in Slot, NEW g \in Guest, Accept(g, s)
        PROVE  booking' \in Booked /\ entry' \in Entries
    <2>1. entry[s][g] \in Entry
      BY <1>2, <1>5 DEF Accept, Entries, NoEntry, Over
    <2>2. [entry[s][g] EXCEPT !.status = "accepted"] \in Entry
      BY <2>1 DEF Entry
    <2>3. QED BY <1>2, <1>5, <2>2 DEF Accept, Entries
  <1>6. ASSUME NEW s \in Slot, NEW g \in Guest, Leave(g, s)
        PROVE  booking' \in Booked /\ entry' \in Entries
    BY <1>2, <1>6 DEF Leave, Entries
  <1>7. ASSUME NEW s \in Slot, NEW g \in Guest, Lapse(g, s)
        PROVE  booking' \in Booked /\ entry' \in Entries
    <2>1. entry[s][g] \in Entry
      BY <1>2, <1>7 DEF Lapse, Entries, NoEntry, Over
    <2>2. [entry[s][g] EXCEPT !.status = "lapsed"] \in Entry
      BY <2>1 DEF Entry
    <2>3. QED BY <1>2, <1>7, <2>2 DEF Lapse, Entries
  <1>8. CASE CancelBooking
    BY <1>2, <1>8 DEF CancelBooking, Booked, Entries
  <1>9. QED BY <1>3, <1>4, <1>5, <1>6, <1>7, <1>8 DEF Visit

\* The offer job does.
LEMMA OfferTypes ==
  ASSUME TypeOK, Offer
  PROVE  TypeOK'
  <1>1. SUFFICES entry' \in Entries
    BY DEF Offer, slots, TypeOK, Entries
  <1>2. PICK F \in [Slot -> SUBSET Guest] :
          /\ \A s \in Slot : F[s] \in Fill(s)
          /\ entry' = [s \in Slot |-> [g \in Guest |->
               IF entry[s][g].status = "lapsed" THEN Over
               ELSE IF g \in F[s] THEN [entry[s][g] EXCEPT !.status = "offered"]
               ELSE entry[s][g]]]
    BY DEF Offer
  <1>3. ASSUME NEW s \in Slot, NEW g \in Guest
        PROVE  entry'[s][g] \in Entry \cup {NoEntry, Over}
    <2>1. entry[s][g] \in Entry \cup {NoEntry, Over}
      BY TypeFacts DEF Entries
    <2>2. CASE g \in F[s]
      <3>1. entry[s][g].status = "waiting"
        BY <1>2, <2>2 DEF Fill, Waiting
      <3>2. entry[s][g] \in Entry
        BY <2>1, <3>1 DEF NoEntry, Over
      <3>3. [entry[s][g] EXCEPT !.status = "offered"] \in Entry
        BY <3>2 DEF Entry
      <3>4. QED BY <1>2, <2>2, <3>1, <3>3
    <2>3. CASE g \notin F[s]
      BY <1>2, <2>1, <2>3
    <2>4. QED BY <2>2, <2>3
  <1>4. /\ entry' = [s \in Slot |-> entry'[s]]
        /\ \A s \in Slot : entry'[s] = [g \in Guest |-> entry'[s][g]]
    BY <1>2
  <1>5. QED BY <1>3, <1>4 DEF Entries

\* So do the reviewed changes.
LEMMA ReviewTypes ==
  ASSUME TypeOK, Review
  PROVE  TypeOK'
  <1>1. ASSUME NEW c \in Change, Preview(c.kind, c.input)
        PROVE  TypeOK'
    <2>1. /\ [kind |-> review'.kind, input |-> review'.input] \in Change
          /\ DOMAIN review'.base.slots \subseteq Slot
      BY <1>1 DEF Preview, Snapshot, Existing
    <2>2. QED BY <1>1, <2>1 DEF Preview, TypeOK, slots, guests
  <1>2. CASE Discard
    BY <1>2 DEF Discard, TypeOK, slots, guests
  <1>3. CASE ApplyChange
    <2>1. [kind |-> review.kind, input |-> review.input] \in Change
      BY <1>3 DEF ApplyChange, TypeOK
    <2>2. CASE review.kind = "resource"
      <3>1. review.input \in Resource
        BY <2>1, <2>2 DEF Change
      <3>2. review.input.capacity \in Seats
        BY <3>1 DEF Resource
      <3>3. \A n \in 0..MaxCapacity : Least(n, review.input.capacity) \in 0..MaxCapacity
        BY <3>2, BookingsAssumption DEF Least, Seats
      <3>4. capacity' \in [Slot -> 0..MaxCapacity]
        BY <1>3, <2>2, <3>3 DEF ApplyChange, TypeOK, Existing
      <3>5. rule' \in 0..MaxCapacity
        BY <1>3, <2>2, <3>3 DEF ApplyChange, TypeOK
      <3>6. QED BY <1>3, <2>2, <3>1, <3>4, <3>5 DEF ApplyChange, TypeOK, guests
    <2>3. CASE review.kind = "rule"
      <3>1. review.input \in 0..MaxCapacity
        BY <2>1, <2>3, BookingsAssumption DEF Change, Seats
      <3>2. QED BY <1>3, <2>3, <3>1 DEF ApplyChange, TypeOK, guests
    <2>4. CASE review.kind = "holiday"
      <3>1. review.input.slot \in Slot
        BY <2>1, <2>4 DEF Change
      <3>2. QED BY <1>3, <2>4, <3>1 DEF ApplyChange, TypeOK, guests
    <2>5. QED BY <1>3, <2>2, <2>3, <2>4 DEF ApplyChange
  <1>4. QED BY <1>1, <1>2, <1>3 DEF Review

\* What a process has checked is what it writes.
LEMMA DraftType ==
  ASSUME TypeOK, NEW p \in Process
  PROVE  /\ draft[p].op = "slot" => draft[p].slot \in Slot /\ draft[p].capacity \in Seats
         /\ draft[p].op \in {"materialize", "rule"} => draft[p].capacity \in Seats
         /\ draft[p].op = "resource" => draft[p].input \in Resource
         /\ draft[p].op = "holiday" => draft[p].slot \in Slot
  <1>1. draft[p] \in Draft
    BY DEF TypeOK
  <1>2. QED BY <1>1 DEF Draft, Idle

\* Checking keeps the types,
LEMMA CheckTypes ==
  ASSUME TypeOK, NEW p \in Process, Check(p)
  PROVE  TypeOK'
  <1>1. SUFFICES ASSUME NEW d \in Draft, Checks(p, d)
                 PROVE  TypeOK'
    <2>1. ASSUME NEW s \in Slot, NEW c \in Seats, SlotCheck(p, s, c)
          PROVE  \E d \in Draft : Checks(p, d)
      BY <2>1 DEF SlotCheck, Draft
    <2>2. CASE MaterializeCheck(p)
      <3>1. rule \in Seats
        BY <2>2, BookingsAssumption DEF MaterializeCheck, TypeOK, Seats
      <3>2. QED BY <2>2, <3>1 DEF MaterializeCheck, Draft
    <2>3. ASSUME NEW c \in Seats, RuleCheck(p, c)
          PROVE  \E d \in Draft : Checks(p, d)
      BY <2>3 DEF RuleCheck, Draft
    <2>4. ASSUME NEW r \in Resource, ResourceCheck(p, r)
          PROVE  \E d \in Draft : Checks(p, d)
      BY <2>4 DEF ResourceCheck, Draft
    <2>5. ASSUME NEW s \in Slot, HolidayCheck(p, s)
          PROVE  \E d \in Draft : Checks(p, d)
      BY <2>5 DEF HolidayCheck, Draft
    <2>6. QED BY <1>1, <2>1, <2>2, <2>3, <2>4, <2>5 DEF Check
  <1>2. QED BY <1>1 DEF Checks, TypeOK, slots, guests

\* and so does writing.
LEMMA WriteTypes ==
  ASSUME TypeOK, NEW p \in Process, Write(p)
  PROVE  TypeOK'
  <1>1. draft' \in [Process -> Draft]
    BY DEF Write, SlotWrite, MaterializeWrite, RuleWrite, ResourceWrite, HolidayWrite, DraftDies,
           Writes, TypeOK, Draft
  <1>2. CASE SlotWrite(p)
    BY <1>1, <1>2, DraftType, BookingsAssumption
    DEF SlotWrite, Writes, TypeOK, Seats, guests
  <1>3. CASE MaterializeWrite(p)
    <2>1. draft[p].capacity \in 0..MaxCapacity
      BY <1>3, DraftType, BookingsAssumption DEF MaterializeWrite, Writes, Seats
    <2>2. QED BY <1>1, <1>3, <2>1 DEF MaterializeWrite, TypeOK, guests
  <1>4. CASE RuleWrite(p)
    BY <1>1, <1>4, DraftType, BookingsAssumption
    DEF RuleWrite, Writes, TypeOK, Seats, guests, slots
  <1>5. CASE ResourceWrite(p)
    <2>1. draft[p].input \in Resource
      BY <1>5, DraftType DEF ResourceWrite, Writes
    <2>2. raced' \in BOOLEAN
      BY <1>5 DEF ResourceWrite, TypeOK
    <2>3. QED BY <1>1, <1>5, <2>1, <2>2 DEF ResourceWrite, TypeOK, guests, slots
  <1>6. CASE HolidayWrite(p)
    <2>1. draft[p].slot \in Slot
      BY <1>6, DraftType DEF HolidayWrite, Writes
    <2>2. raced' \in BOOLEAN
      BY <1>6 DEF HolidayWrite, TypeOK
    <2>3. QED BY <1>1, <1>6, <2>1, <2>2 DEF HolidayWrite, TypeOK, guests
  <1>7. CASE DraftDies(p)
    BY <1>1, <1>7 DEF DraftDies, TypeOK, guests, slots
  <1>8. QED BY <1>2, <1>3, <1>4, <1>5, <1>6, <1>7 DEF Write

\* Every step keeps the types.
LEMMA TypeKept ==
  ASSUME TypeOK, [Next]_vars
  PROVE  TypeOK'
  <1>1. CASE \E s \in Slot : HolidayRemove(s)
    BY <1>1 DEF HolidayRemove, TypeOK, guests
  <1>2. CASE UNCHANGED vars
    BY <1>2 DEF vars, TypeOK
  <1>3. QED BY <1>1, <1>2, VisitTypes, OfferTypes, ReviewTypes, CheckTypes, WriteTypes DEF Next

-----------------------------------------------------------------------------
(* What visitors and the offer job do to the seats                         *)

\* A step that changes one booking changes the used seats by what it takes.
LEMMA BookingMoves ==
  ASSUME TypeOK, TypeOK', entry' = entry, NEW k \in Key,
         \A j \in Key : j # k => booking'[j] = booking[j], NEW s \in Slot
  PROVE  /\ Used(s)' + SeatsOf(booking, k, s) = Used(s) + SeatsOf(booking', k, s)
         /\ Waiting(s)' = Waiting(s)
         /\ Used(s) \in Nat /\ Used(s)' \in Nat
  <1> DEFINE f == [j \in Key |-> SeatsOf(booking, j, s)]
             h == [j \in Key |-> SeatsOf(booking', j, s)]
  <1>1. /\ booking \in Booked /\ booking' \in Booked
        /\ entry \in Entries /\ entry' \in Entries
    BY DEF TypeOK, Booked, Entries
  <1>2. /\ \A j \in Key : f[j] \in Nat /\ h[j] \in Nat
        /\ \A j \in Key : j # k => h[j] = f[j]
        /\ f[k] = SeatsOf(booking, k, s) /\ h[k] = SeatsOf(booking', k, s)
    BY <1>1, SeatsType DEF SeatsOf
  <1>3. Taken(booking, s) = SumFunctionOnSet(f, Key) /\ Taken(booking', s) = SumFunctionOnSet(h, Key)
    BY DEF Taken
  <1> HIDE DEF f, h
  <1>4. SumFunctionOnSet(h, Key) + f[k] = SumFunctionOnSet(f, Key) + h[k]
    BY <1>2, SumDiffers, BookingsAssumption
  <1>5. /\ Taken(booking, s) \in Nat /\ Taken(booking', s) \in Nat /\ Held(entry, s) \in Nat
        /\ Held(entry', s) = Held(entry, s)
    BY <1>1, SeatsType
  <1>6. f[k] \in Nat /\ h[k] \in Nat
    BY <1>2
  <1>7. Used(s) = Taken(booking, s) + Held(entry, s) /\ Used(s)' = Taken(booking', s) + Held(entry', s)
    BY <1>1, UsedIs
  <1>8. Waiting(s)' = Waiting(s)
    BY DEF Waiting
  <1>9. QED BY <1>2, <1>3, <1>4, <1>5, <1>6, <1>7, <1>8

\* One that changes one entry changes those of its slot only.
LEMMA EntryMoves ==
  ASSUME TypeOK, TypeOK', booking' = booking, NEW t \in Slot, NEW g \in Guest,
         \A r \in Slot, h \in Guest : r # t \/ h # g => entry'[r][h] = entry[r][h],
         NEW s \in Slot
  PROVE  /\ Used(s)' + Holds(entry, g, s) = Used(s) + Holds(entry', g, s)
         /\ \A h \in Guest : s # t \/ h # g => (h \in Waiting(s)' <=> h \in Waiting(s))
         /\ Used(s) \in Nat /\ Used(s)' \in Nat
         /\ Holds(entry, g, s) \in Nat /\ Holds(entry', g, s) \in Nat
  <1> DEFINE a == [h \in Guest |-> Holds(entry, h, s)]
             b == [h \in Guest |-> Holds(entry', h, s)]
  <1>1. /\ booking \in Booked /\ booking' \in Booked
        /\ entry \in Entries /\ entry' \in Entries
    BY DEF TypeOK, Booked, Entries
  <1>2. /\ \A h \in Guest : a[h] \in Nat /\ b[h] \in Nat
        /\ \A h \in Guest : h # g => b[h] = a[h]
        /\ a[g] = Holds(entry, g, s) /\ b[g] = Holds(entry', g, s)
    BY <1>1, SeatsType DEF Holds
  <1>3. Held(entry, s) = SumFunctionOnSet(a, Guest) /\ Held(entry', s) = SumFunctionOnSet(b, Guest)
    BY DEF Held
  <1> HIDE DEF a, b
  <1>4. SumFunctionOnSet(b, Guest) + a[g] = SumFunctionOnSet(a, Guest) + b[g]
    BY <1>2, SumDiffers, BookingsAssumption
  <1>5. /\ Taken(booking, s) \in Nat /\ Held(entry, s) \in Nat /\ Held(entry', s) \in Nat
        /\ Taken(booking', s) = Taken(booking, s)
    BY <1>1, SeatsType
  <1>6. a[g] \in Nat /\ b[g] \in Nat
    BY <1>2
  <1>7. Used(s) = Taken(booking, s) + Held(entry, s) /\ Used(s)' = Taken(booking', s) + Held(entry', s)
    BY <1>1, UsedIs
  <1>8. \A h \in Guest : s # t \/ h # g => (h \in Waiting(s)' <=> h \in Waiting(s))
    BY DEF Waiting
  <1>9. QED BY <1>2, <1>3, <1>4, <1>5, <1>6, <1>7, <1>8

\* What a step of a guest may do to a slot: give seats back, or take and wait for
\* some of one that is bookable and large enough.
GuestMove(s) ==
  /\ Used(s)' <= Used(s) \/ (Bookable(s) /\ Used(s)' <= capacity[s])
  /\ \A g \in Waiting(s)' :
       \/ g \in Waiting(s) /\ entry'[s][g].quantity = entry[s][g].quantity
       \/ Bookable(s) /\ entry'[s][g].quantity <= capacity[s]

\* All that visitors do is of this kind,
LEMMA VisitMoves ==
  ASSUME TypeOK, TypeOK', Visit, NEW s \in Slot
  PROVE  GuestMove(s)
  <1>1. capacity[s] \in Nat
    BY TypeFacts
  <1>2. ASSUME NEW t \in Slot, NEW q \in Seats, NEW k \in Key, CreateBooking(k, t, q)
        PROVE  GuestMove(s)
    <2>1. /\ booking[k] = NoBooking /\ booking'[k] = [slot |-> t, quantity |-> q]
          /\ \A j \in Key : j # k => booking'[j] = booking[j]
          /\ entry' = entry
      BY <1>2 DEF CreateBooking, TypeOK
    <2>2. SeatsOf(booking, k, s) = 0 /\ SeatsOf(booking', k, s) = IF s = t THEN q ELSE 0
      BY <2>1 DEF SeatsOf, NoBooking
    <2>3. /\ Used(s)' = Used(s) + SeatsOf(booking', k, s)
          /\ Waiting(s)' = Waiting(s) /\ Used(s) \in Nat
      <3>1. q \in Nat
        BY BookingsAssumption DEF Seats
      <3>2. QED BY <2>1, <2>2, <3>1, BookingMoves
    <2>4. s = t => Bookable(s) /\ Used(s) + q <= capacity[s]
      BY <1>2 DEF CreateBooking, Fits
    <2>5. QED BY <2>1, <2>2, <2>3, <2>4 DEF GuestMove
  <1>3. ASSUME NEW t \in Slot, NEW q \in Seats, NEW g \in Guest, Join(g, t, q)
        PROVE  GuestMove(s)
    <2>1. /\ booking' = booking
          /\ entry[t][g] = NoEntry /\ entry'[t][g] = [status |-> "waiting", quantity |-> q]
          /\ \A r \in Slot, h \in Guest : r # t \/ h # g => entry'[r][h] = entry[r][h]
      BY <1>3 DEF Join, TypeOK
    <2>2. Holds(entry, g, s) = Holds(entry', g, s)
      BY <2>1 DEF Holds, NoEntry
    <2>3. /\ Used(s)' = Used(s) /\ Used(s) \in Nat
          /\ \A h \in Guest : s # t \/ h # g => (h \in Waiting(s)' <=> h \in Waiting(s))
      BY <2>1, <2>2, EntryMoves
    <2>4. Bookable(t) /\ q <= capacity[t]
      BY <1>3 DEF Join
    <2>5. \A h \in Waiting(s)' : h \in Guest
      BY DEF Waiting
    <2>6. QED BY <2>1, <2>3, <2>4, <2>5 DEF GuestMove
  <1>4. ASSUME NEW t \in Slot, NEW g \in Guest, booking' = booking,
               entry[t][g].status \in {"waiting", "offered", "lapsed", "accepted"},
               \A r \in Slot, h \in Guest : r # t \/ h # g => entry'[r][h] = entry[r][h],
               entry'[t][g].status # "waiting",
               Holds(entry', g, t) <= Holds(entry, g, t)
        PROVE  GuestMove(s)
    <2>1. Holds(entry', g, s) <= Holds(entry, g, s)
      <3>1. CASE s = t
        BY <1>4, <3>1
      <3>2. CASE s # t
        <4>1. Holds(entry', g, s) = Holds(entry, g, s)
          BY <1>4, <3>2 DEF Holds
        <4>2. Holds(entry, g, s) \in Nat
          BY SeatsType, TypeFacts
        <4>3. QED BY <4>1, <4>2
      <3>3. QED BY <3>1, <3>2
    <2>2. /\ Used(s)' + Holds(entry, g, s) = Used(s) + Holds(entry', g, s)
          /\ \A h \in Guest : s # t \/ h # g => (h \in Waiting(s)' <=> h \in Waiting(s))
          /\ Used(s) \in Nat /\ Used(s)' \in Nat
          /\ Holds(entry, g, s) \in Nat /\ Holds(entry', g, s) \in Nat
      BY <1>4, EntryMoves
    <2>3. Used(s)' <= Used(s)
      BY <2>1, <2>2
    <2>4. ASSUME NEW h \in Waiting(s)'
          PROVE  h \in Waiting(s) /\ entry'[s][h].quantity = entry[s][h].quantity
      <3>1. h \in Guest /\ ~(s = t /\ h = g)
        BY <1>4, <2>4 DEF Waiting
      <3>2. QED BY <1>4, <2>2, <2>4, <3>1
    <2>5. QED BY <2>3, <2>4 DEF GuestMove
  <1>5. ASSUME NEW t \in Slot, NEW g \in Guest, Accept(g, t)
        PROVE  GuestMove(s)
    <2>1. /\ entry'[t][g] = [entry[t][g] EXCEPT !.status = "accepted"]
          /\ \A r \in Slot, h \in Guest : r # t \/ h # g => entry'[r][h] = entry[r][h]
      BY <1>5 DEF Accept, TypeOK
    <2>2. entry[t][g] \in Entry
      BY <1>5, TypeFacts DEF Accept, Entries, NoEntry, Over
    <2>3. /\ entry'[t][g].status = "accepted" /\ entry[t][g].status = "offered"
          /\ entry'[t][g].quantity = entry[t][g].quantity
      BY <1>5, <2>1, <2>2 DEF Accept, Entry
    <2>4. Holds(entry', g, t) <= Holds(entry, g, t)
      <3>1. Holds(entry', g, t) = Holds(entry, g, t)
        BY <2>3 DEF Holds
      <3>2. Holds(entry, g, t) \in Nat
        BY SeatsType, TypeFacts
      <3>3. QED BY <3>1, <3>2
    <2>5. booking' = booking
      BY <1>5 DEF Accept
    <2>6. QED BY <1>4, <2>1, <2>3, <2>4, <2>5
  <1>6. ASSUME NEW t \in Slot, NEW g \in Guest, booking' = booking,
               entry[t][g].status \in {"waiting", "offered", "lapsed", "accepted"},
               entry' = [entry EXCEPT ![t][g] = Over]
        PROVE  GuestMove(s)
    <2>1. /\ entry'[t][g] = Over
          /\ \A r \in Slot, h \in Guest : r # t \/ h # g => entry'[r][h] = entry[r][h]
      BY <1>6 DEF TypeOK
    <2>2. Holds(entry', g, t) = 0
      BY <2>1 DEF Holds, Over
    <2>3. Holds(entry, g, t) \in Nat
      BY SeatsType, TypeFacts
    <2>4. Holds(entry', g, t) <= Holds(entry, g, t) /\ entry'[t][g].status # "waiting"
      BY <2>1, <2>2, <2>3 DEF Over
    <2>5. QED BY <1>4, <1>6, <2>1, <2>4
  <1>7. ASSUME NEW t \in Slot, NEW g \in Guest, Lapse(g, t)
        PROVE  GuestMove(s)
    <2>1. /\ entry'[t][g] = [entry[t][g] EXCEPT !.status = "lapsed"]
          /\ \A r \in Slot, h \in Guest : r # t \/ h # g => entry'[r][h] = entry[r][h]
      BY <1>7 DEF Lapse, TypeOK
    <2>2. entry[t][g] \in Entry
      BY <1>7, TypeFacts DEF Lapse, Entries, NoEntry, Over
    <2>3. entry'[t][g].status = "lapsed" /\ entry[t][g].status = "offered"
      BY <1>7, <2>1, <2>2 DEF Lapse, Entry
    <2>4. Holds(entry', g, t) <= Holds(entry, g, t)
      <3>1. Holds(entry', g, t) = 0
        BY <2>3 DEF Holds
      <3>2. Holds(entry, g, t) \in Nat
        BY SeatsType, TypeFacts
      <3>3. QED BY <3>1, <3>2
    <2>5. booking' = booking
      BY <1>7 DEF Lapse
    <2>6. QED BY <1>4, <2>1, <2>3, <2>4, <2>5
  <1>8. ASSUME NEW k \in Key, booking' = [booking EXCEPT ![k] = NoBooking], entry' = entry
        PROVE  GuestMove(s)
    <2>1. booking'[k] = NoBooking /\ \A j \in Key : j # k => booking'[j] = booking[j]
      BY <1>8 DEF TypeOK
    <2>2. SeatsOf(booking', k, s) = 0 /\ SeatsOf(booking, k, s) \in Nat
      <3>1. SeatsOf(booking', k, s) = 0
        BY <2>1 DEF SeatsOf, NoBooking
      <3>2. QED BY <3>1, SeatsType, TypeFacts
    <2>3. /\ Used(s)' + SeatsOf(booking, k, s) = Used(s) + SeatsOf(booking', k, s)
          /\ Waiting(s)' = Waiting(s) /\ Used(s) \in Nat /\ Used(s)' \in Nat
      BY <1>8, <2>1, BookingMoves
    <2>4. QED BY <1>8, <2>2, <2>3 DEF GuestMove
  <1>9. QED BY <1>2, <1>3, <1>5, <1>6, <1>7, <1>8 DEF Visit, Leave, CancelBooking

\* and so are offers.
LEMMA OfferMoves ==
  ASSUME TypeOK, TypeOK', Offer, NEW s \in Slot
  PROVE  GuestMove(s)
  <1>1. PICK F \in [Slot -> SUBSET Guest] :
          /\ \A r \in Slot : F[r] \in Fill(r)
          /\ entry' = [r \in Slot |-> [g \in Guest |->
               IF entry[r][g].status = "lapsed" THEN Over
               ELSE IF g \in F[r] THEN [entry[r][g] EXCEPT !.status = "offered"]
               ELSE entry[r][g]]]
    BY DEF Offer
  <1>2. PICK W : W = F[s]
    OBVIOUS
  <1>3. booking' = booking /\ W \in Fill(s)
    BY <1>1, <1>2 DEF Offer
  <1>4. /\ booking \in Booked /\ entry \in Entries
        /\ booking' \in Booked /\ entry' \in Entries
    BY DEF TypeOK, Booked, Entries
  <1>5. \A g \in W : g \in Waiting(s)
    BY <1>3 DEF Fill
  <1>6. ASSUME NEW g \in Guest
        PROVE  /\ g \in W => /\ entry[s][g].status = "waiting" /\ entry'[s][g].status = "offered"
                             /\ entry'[s][g].quantity = entry[s][g].quantity
               /\ entry[s][g].status = "lapsed" => entry'[s][g] = Over
               /\ g \notin W /\ entry[s][g].status # "lapsed" => entry'[s][g] = entry[s][g]
    <2>1. CASE g \in W
      <3>1. entry[s][g].status = "waiting"
        BY <1>5, <2>1 DEF Waiting
      <3>2. entry[s][g] \in Entry
        BY <1>4, <3>1 DEF Entries, NoEntry, Over
      <3>3. entry'[s][g] = [entry[s][g] EXCEPT !.status = "offered"]
        BY <1>1, <1>2, <2>1, <3>1
      <3>4. QED BY <2>1, <3>1, <3>2, <3>3 DEF Entry
    <2>2. CASE g \notin W
      BY <1>1, <1>2, <2>2
    <2>3. QED BY <2>1, <2>2
  <1>7. \A g \in Waiting(s)' : g \in Waiting(s) /\ entry'[s][g].quantity = entry[s][g].quantity
    BY <1>6 DEF Waiting, Over
  <1>8. Used(s)' <= Used(s) \/ (Bookable(s) /\ Used(s)' <= capacity[s])
    <2> DEFINE f == [g \in Guest |-> entry[s][g].quantity]
               a == [g \in Guest |-> Holds(entry, g, s)]
               b == [g \in Guest |-> Holds(entry', g, s)]
               V == {g \in Guest : a[g] # 0}
    <2>1. /\ \A g \in Guest : f[g] \in Nat /\ a[g] \in Nat /\ b[g] \in Nat
          /\ \A g \in Guest : g \notin W => b[g] = a[g]
          /\ \A g \in W : a[g] = 0 /\ b[g] = f[g]
          /\ W \subseteq Guest
      <3>1. \A g \in Guest : f[g] \in Nat /\ a[g] \in Nat /\ b[g] \in Nat
        BY <1>4, SeatsType
      <3>2. \A g \in Guest : g \notin W => b[g] = a[g]
        BY <1>6 DEF Holds, Over
      <3>3. \A g \in W : g \in Guest
        BY <1>5 DEF Waiting
      <3>4. \A g \in W : a[g] = 0 /\ b[g] = f[g]
        BY <1>6, <3>3 DEF Holds
      <3>5. QED BY <3>1, <3>2, <3>3, <3>4
    <2>2. /\ Held(entry, s) = SumFunctionOnSet(a, Guest)
          /\ Held(entry', s) = SumFunctionOnSet(b, Guest)
          /\ Asked(s, W) = SumFunctionOnSet(f, W)
      BY DEF Held, Asked
    <2> HIDE DEF f, a, b, V
    <2>3. SumFunctionOnSet(b, Guest) = SumFunctionOnSet(a, Guest) + SumFunctionOnSet(f, W)
      <3> DEFINE R == Guest \ W
      <3>1. /\ IsFiniteSet(R) /\ IsFiniteSet(W) /\ W \cup R = Guest /\ W \cap R = {}
            /\ \A g \in W \cup R : b[g] \in Nat /\ a[g] \in Nat
        BY <2>1, BookingsAssumption, FS_Subset
      <3>2. R \subseteq Guest
        OBVIOUS
      <3>3. \A g \in R : b[g] = a[g] /\ a[g] \in Nat
        BY <2>1
      <3>4. \A g \in Guest \ R : a[g] = 0
        BY <2>1
      <3> HIDE DEF R
      <3>5. SumFunctionOnSet(b, W \cup R) = SumFunctionOnSet(b, W) + SumFunctionOnSet(b, R)
        BY <3>1, SumUnion
      <3>6. SumFunctionOnSet(b, W) = SumFunctionOnSet(f, W)
        BY <2>1, <3>1, SumSame
      <3>7. SumFunctionOnSet(b, R) = SumFunctionOnSet(a, Guest)
        BY <3>2, <3>3, <3>4, SumWithin, BookingsAssumption
      <3>8. SumFunctionOnSet(f, W) \in Nat /\ SumFunctionOnSet(a, Guest) \in Nat
        <4>1. \A g \in W : f[g] \in Nat
          BY <2>1
        <4>2. QED BY <2>1, <3>1, <4>1, SumNat, BookingsAssumption
      <3>9. QED BY <3>1, <3>5, <3>6, <3>7, <3>8
    <2>4. /\ Taken(booking, s) \in Nat /\ Held(entry, s) \in Nat
          /\ Used(s) = Taken(booking, s) + Held(entry, s)
          /\ Used(s)' = Taken(booking, s) + Held(entry', s)
      BY <1>3, <1>4, SeatsType, UsedIs
    <2>5. CASE Bookable(s)
      <3>1. Used(s) + Asked(s, W) <= capacity[s]
        BY <1>3, <2>5 DEF Fill, Fits
      <3>2. Asked(s, W) \in Nat
        <4>1. \A g \in W : f[g] \in Nat
          BY <2>1
        <4>2. IsFiniteSet(W)
          BY <2>1, BookingsAssumption, FS_Subset
        <4>3. QED BY <2>2, <4>1, <4>2, SumNat
      <3>3. Used(s)' = Used(s) + Asked(s, W)
        BY <2>2, <2>3, <2>4, <3>2
      <3>4. QED BY <2>5, <3>1, <3>3
    <2>6. CASE ~Bookable(s)
      <3>1. W = {}
        BY <1>3, <2>6 DEF Fill
      <3>2. SumFunctionOnSet(f, W) = 0
        BY <3>1, SumEmpty
      <3>3. QED BY <2>2, <2>3, <2>4, <3>2
    <2>7. QED BY <2>5, <2>6
  <1>9. QED BY <1>7, <1>8 DEF GuestMove

-----------------------------------------------------------------------------
(* Reviews                                                                 *)

\* What a review keeps of a slot it saw.
LEMMA SnapshotSlot ==
  ASSUME TypeOK, NEW kind, NEW input, NEW s \in Slot,
         s \in DOMAIN Snapshot(kind, input).slots
  PROVE  LET n == Snapshot(kind, input).slots[s] IN
         /\ capacity[s] > 0
         /\ n.reserved + n.offered = Used(s)
         /\ n.waiting = 0 <=> Waiting(s) = {}
         /\ \A g \in Waiting(s) : entry[s][g].quantity <= n.largest
         /\ n.largest = 0 \/ \E g \in Waiting(s) : n.largest = entry[s][g].quantity
  <1> DEFINE Q == {entry[s][g].quantity : g \in Waiting(s)}
             n == Snapshot(kind, input).slots[s]
  <1>1. /\ n.reserved = Reserved(s) /\ n.offered = Offered(s)
        /\ n.waiting = Cardinality(Waiting(s)) /\ n.largest = Max({0} \cup Q)
        /\ capacity[s] > 0
    BY DEF Snapshot, Existing
  <1>2. Max({0} \cup Q) \in {0} \cup Q /\ \A x \in {0} \cup Q : x <= Max({0} \cup Q)
    <2>1. \A g \in Waiting(s) : entry[s][g].quantity \in 0..MaxCapacity
      <3>1. \A g \in Guest : entry[s][g] \in Entry \cup {NoEntry, Over}
        BY TypeFacts DEF Entries
      <3>2. QED BY <3>1, BookingsAssumption DEF Waiting, Entry, NoEntry, Over, Seats
    <2>2. PICK S : S = {0} \cup Q
      OBVIOUS
    <2>3. S \subseteq 0..MaxCapacity /\ S # {}
      BY <2>1, <2>2, BookingsAssumption
    <2>4. MaxCapacity \in Nat
      BY BookingsAssumption
    <2>5. Max(S) \in S /\ \A x \in S : x <= Max(S)
      BY <2>3, <2>4, MaxIs
    <2>6. QED BY <2>2, <2>5
  <1>3. Cardinality(Waiting(s)) = 0 <=> Waiting(s) = {}
    <2>1. IsFiniteSet(Waiting(s))
      BY BookingsAssumption, FS_Subset DEF Waiting
    <2>2. QED BY <2>1, FS_EmptySet
  <1>4. n.reserved + n.offered = Used(s)
    BY <1>1 DEF Used
  <1> HIDE DEF n
  <1>5. QED BY <1>1, <1>2, <1>3, <1>4 DEF n

\* A review is kept only while it has no conflict with what it saw.
LEMMA PreviewSound ==
  ASSUME TypeOK, NEW kind, NEW input, [kind |-> kind, input |-> input] \in Change,
         ~Conflicts(kind, input)
  PROVE  Sound(kind, input, Snapshot(kind, input))
  <1> DEFINE b == Snapshot(kind, input)
  <1>1. \A s \in Slot : Used(s) \in Nat
    <2>1. ASSUME NEW s \in Slot
          PROVE  Used(s) \in Nat
      <3>1. Used(s) = Taken(booking, s) + Held(entry, s)
        BY TypeFacts, UsedIs
      <3>2. QED BY <3>1, TypeFacts, SeatsType
    <2>2. QED BY <2>1
  <1>2. DOMAIN b.slots \subseteq Slot
    BY DEF Snapshot, Existing
  <1>3. ASSUME NEW s \in DOMAIN b.slots
        PROVE  /\ s \in Slot /\ s \in Existing
               /\ b.slots[s].reserved + b.slots[s].offered = Used(s)
               /\ b.slots[s].waiting = 0 <=> Waiting(s) = {}
               /\ b.slots[s].largest = 0
                    \/ \E g \in Waiting(s) : b.slots[s].largest = entry[s][g].quantity
    BY <1>2, SnapshotSlot DEF Existing
  <1>4. kind = "holiday" => DOMAIN b.slots \subseteq {input.slot}
    BY DEF Snapshot
  <1> HIDE DEF b
  <1>5. ASSUME kind = "resource", NEW s \in DOMAIN b.slots
        PROVE  /\ b.slots[s].reserved + b.slots[s].offered <= input.capacity
               /\ b.slots[s].largest <= input.capacity
               /\ ~input.active => /\ b.slots[s].reserved + b.slots[s].offered = 0
                                   /\ b.slots[s].waiting = 0
    <2>1. input.capacity \in Nat
      BY <1>5, BookingsAssumption DEF Change, Resource, Seats
    <2>2. /\ ~(Used(s) > input.capacity)
          /\ \A g \in Waiting(s) : ~(entry[s][g].quantity > input.capacity)
          /\ ~input.active => ~(Used(s) > 0) /\ Waiting(s) = {}
      BY <1>3, <1>5 DEF Conflicts
    <2>3. \A g \in Waiting(s) : entry[s][g].quantity \in Nat
      BY <1>3, SeatsType, TypeFacts DEF Waiting
    <2>4. Used(s) \in Nat
      BY <1>1, <1>3
    <2>5. b.slots[s].largest <= input.capacity
      BY <1>3, <2>1, <2>2, <2>3
    <2>6. QED BY <1>3, <2>1, <2>2, <2>4, <2>5
  <1>6. ASSUME kind = "holiday", ~input.remove, NEW s \in DOMAIN b.slots
        PROVE  /\ b.slots[s].reserved + b.slots[s].offered = 0
               /\ b.slots[s].waiting = 0
    <2>1. s = input.slot /\ s \in Existing
      BY <1>3, <1>4, <1>6
    <2>2. ~(Used(s) > 0) /\ Waiting(s) = {}
      BY <1>6, <2>1 DEF Conflicts
    <2>3. Used(s) \in Nat
      BY <1>1, <1>3
    <2>4. QED BY <1>3, <2>2, <2>3
  <1>7. QED BY <1>5, <1>6 DEF Sound, b

\* A review that is applied has no conflict either: nothing changed since.
LEMMA AppliedSound ==
  ASSUME TypeOK, ReviewInv, ApplyChange, NEW s \in Slot, capacity[s] > 0
  PROVE  /\ review.kind = "resource" =>
              /\ Used(s) <= review.input.capacity
              /\ \A g \in Waiting(s) : entry[s][g].quantity <= review.input.capacity
              /\ ~review.input.active => Used(s) = 0 /\ Waiting(s) = {}
         /\ review.kind = "holiday" /\ ~review.input.remove /\ s = review.input.slot =>
              Used(s) = 0 /\ Waiting(s) = {}
  <1>1. /\ review.base = Snapshot(review.kind, review.input)
        /\ Sound(review.kind, review.input, review.base)
    BY DEF ApplyChange, UnchangedSinceReview, ReviewInv
  <1>2. [kind |-> review.kind, input |-> review.input] \in Change
    BY DEF ApplyChange, TypeOK
  <1>3. \A g \in Waiting(s) : entry[s][g].quantity \in Nat
    BY SeatsType, TypeFacts DEF Waiting
  <1>4. CASE review.kind = "resource"
    <2>1. s \in DOMAIN review.base.slots
      BY <1>1, <1>4 DEF Snapshot, Existing
    <2>2. /\ review.base.slots[s].reserved + review.base.slots[s].offered = Used(s)
          /\ review.base.slots[s].waiting = 0 <=> Waiting(s) = {}
          /\ \A g \in Waiting(s) : entry[s][g].quantity <= review.base.slots[s].largest
          /\ review.base.slots[s].largest = 0
               \/ \E g \in Waiting(s) : review.base.slots[s].largest = entry[s][g].quantity
      BY <1>1, <2>1, SnapshotSlot
    <2>3. /\ review.base.slots[s].reserved + review.base.slots[s].offered <= review.input.capacity
          /\ review.base.slots[s].largest <= review.input.capacity
          /\ ~review.input.active =>
               /\ review.base.slots[s].reserved + review.base.slots[s].offered = 0
               /\ review.base.slots[s].waiting = 0
      BY <1>1, <1>4, <2>1 DEF Sound
    <2>4. review.base.slots[s].largest \in Nat /\ review.input.capacity \in Nat
      BY <1>2, <1>3, <1>4, <2>2, BookingsAssumption DEF Change, Resource, Seats
    <2>5. \A g \in Waiting(s) : entry[s][g].quantity <= review.input.capacity
      BY <1>3, <2>2, <2>3, <2>4
    <2>6. QED BY <1>4, <2>2, <2>3, <2>5
  <1>5. CASE review.kind = "holiday" /\ ~review.input.remove /\ s = review.input.slot
    <2>1. s \in DOMAIN review.base.slots
      BY <1>1, <1>5 DEF Snapshot, Existing
    <2>2. /\ review.base.slots[s].reserved + review.base.slots[s].offered = Used(s)
          /\ review.base.slots[s].waiting = 0 <=> Waiting(s) = {}
      BY <1>1, <2>1, SnapshotSlot
    <2>3. /\ review.base.slots[s].reserved + review.base.slots[s].offered = 0
          /\ review.base.slots[s].waiting = 0
      BY <1>1, <1>5, <2>1 DEF Sound
    <2>4. QED BY <1>5, <2>2, <2>3
  <1>6. QED BY <1>4, <1>5

\* Only a preview makes a review.
LEMMA ReviewKept ==
  ASSUME TypeOK, ReviewInv, [Next]_vars
  PROVE  ReviewInv'
  <1>1. ASSUME NEW c \in Change, Preview(c.kind, c.input)
        PROVE  ReviewInv'
    <2>1. PICK k, i : k = c.kind /\ i = c.input
      OBVIOUS
    <2>2. /\ [kind |-> k, input |-> i] \in Change /\ ~Conflicts(k, i)
          /\ review' = [kind |-> k, input |-> i, base |-> Snapshot(k, i)]
      BY <1>1, <2>1 DEF Preview
    <2>3. Sound(k, i, Snapshot(k, i))
      BY <2>2, PreviewSound
    <2>4. review'.kind = k /\ review'.input = i /\ review'.base = Snapshot(k, i)
      BY <2>2
    <2>5. Sound(review'.kind, review'.input, review'.base)
      BY <2>3, <2>4
    <2>6. QED BY <2>5 DEF ReviewInv, Sound
  <1>2. CASE Discard \/ ApplyChange
    BY <1>2 DEF Discard, ApplyChange, ReviewInv
  <1>3. CASE UNCHANGED review
    BY <1>3 DEF ReviewInv, Sound
  <1>4. Visit \/ Offer \/ (\E s \in Slot : HolidayRemove(s)) \/ UNCHANGED vars => UNCHANGED review
    BY DEF Visit, CreateBooking, CancelBooking, Join, Accept, Leave, Lapse, Offer, HolidayRemove,
           vars
  <1>5. ASSUME NEW p \in Process, Check(p) \/ Write(p)
        PROVE  UNCHANGED review
    BY <1>5 DEF Check, SlotCheck, MaterializeCheck, RuleCheck, ResourceCheck, HolidayCheck, Checks,
                Write, SlotWrite, MaterializeWrite, RuleWrite, ResourceWrite, HolidayWrite, DraftDies
  <1>6. QED BY <1>1, <1>2, <1>3, <1>4, <1>5 DEF Next, Review

-----------------------------------------------------------------------------
(* Guests and their seats                                                  *)

Steady == SeatsInv /\ WaitersFit /\ PromisesKept

\* Moves of guests leave the seats right,
LEMMA GuestsKeep ==
  ASSUME TypeOK, TypeOK', Steady, \A s \in Slot : GuestMove(s),
         UNCHANGED <<resource, capacity, holiday, raced>>
  PROVE  Steady'
  <1>1. ASSUME NEW s \in Slot
        PROVE  /\ capacity[s] \in Nat /\ Used(s) \in Nat /\ Used(s)' \in Nat
               /\ \A g \in Waiting(s) : entry[s][g].quantity \in Nat \ {0}
    <2>1. /\ Used(s) = Taken(booking, s) + Held(entry, s)
          /\ Used(s)' = Taken(booking', s) + Held(entry', s)
          /\ booking \in Booked /\ booking' \in Booked /\ entry \in Entries /\ entry' \in Entries
      BY UsedIs DEF TypeOK, Booked, Entries
    <2>2. \A g \in Guest : entry[s][g] \in Entry \cup {NoEntry, Over}
      BY <2>1 DEF Entries
    <2>3. \A g \in Waiting(s) : entry[s][g].quantity \in Nat \ {0}
      BY <2>2, BookingsAssumption DEF Waiting, Entry, NoEntry, Over, Seats
    <2>4. QED BY <2>1, <2>3, SeatsType, TypeFacts
  <1>2. SeatsInv'
    BY <1>1 DEF Steady, SeatsInv, GuestMove
  <1>3. WaitersFit'
    BY <1>1 DEF Steady, WaitersFit, GuestMove
  <1>4. PromisesKept'
    <2>1. SUFFICES ASSUME ~raced, NEW s \in Slot, capacity[s] > 0,
                          Used(s)' > 0 \/ Waiting(s)' # {}
                   PROVE  resource.active /\ s \notin holiday
      BY DEF PromisesKept, Existing
    <2>2. Bookable(s) => resource.active /\ s \notin holiday
      BY DEF Bookable
    <2>3. CASE Used(s) > 0 \/ Waiting(s) # {}
      BY <2>1, <2>3 DEF Steady, PromisesKept, Existing
    <2>4. CASE ~(Used(s) > 0) /\ Waiting(s) = {}
      <3>1. Bookable(s)
        BY <1>1, <2>1, <2>4 DEF GuestMove
      <3>2. QED BY <2>2, <3>1
    <2>5. QED BY <2>3, <2>4
  <1>5. QED BY <1>2, <1>3, <1>4 DEF Steady

\* A change of a slot, of the resource or of the holidays leaves the guests alone; it has
\* to leave room for them and, unless a check was overtaken, the time and the place.
LEMMA SlotsKeep ==
  ASSUME TypeOK, TypeOK', Steady, UNCHANGED <<booking, entry>>,
         raced => raced',
         \A s \in Slot :
           /\ \/ capacity'[s] = capacity[s]
              \/ /\ Used(s) <= capacity'[s]
                 /\ \A g \in Waiting(s) : entry[s][g].quantity <= capacity'[s]
           /\ \/ raced'
              \/ Used(s) = 0 /\ Waiting(s) = {}
              \/ /\ capacity[s] > 0 /\ (resource.active => resource'.active)
                 /\ s \in holiday' => s \in holiday
  PROVE  Steady'
  <1>1. ASSUME NEW s \in Slot
        PROVE  Used(s)' = Used(s) /\ Waiting(s)' = Waiting(s)
    BY DEF Used, Reserved, Offered, Asked, Direct, Accepted, Offers, Waiting
  <1>2. SeatsInv'
    BY <1>1 DEF Steady, SeatsInv
  <1>3. WaitersFit'
    BY <1>1 DEF Steady, WaitersFit
  <1>4. PromisesKept'
    <2>1. SUFFICES ASSUME ~raced', NEW s \in Slot, Used(s) > 0 \/ Waiting(s) # {}
                   PROVE  resource'.active /\ s \notin holiday'
      BY <1>1 DEF PromisesKept, Existing
    <2>2. /\ capacity[s] > 0
          /\ resource.active => resource'.active
          /\ s \in holiday' => s \in holiday
      BY <2>1
    <2>3. resource.active /\ s \notin holiday
      BY <2>1, <2>2 DEF Steady, PromisesKept, Existing
    <2>4. QED BY <2>2, <2>3
  <1>5. QED BY <1>2, <1>3, <1>4 DEF Steady

\* Nobody has a seat in a slot that does not exist, or waits for it.
LEMMA Vacant ==
  ASSUME TypeOK, Steady, NEW s \in Slot, capacity[s] = 0
  PROVE  Used(s) = 0 /\ Waiting(s) = {}
  <1>1. Used(s) \in Nat
    <2>1. Used(s) = Taken(booking, s) + Held(entry, s)
      BY TypeFacts, UsedIs
    <2>2. QED BY <2>1, TypeFacts, SeatsType
  <1>2. \A g \in Waiting(s) : entry[s][g].quantity \in Nat \ {0}
    <2>1. \A g \in Guest : entry[s][g] \in Entry \cup {NoEntry, Over}
      BY TypeFacts DEF Entries
    <2>2. QED BY <2>1, BookingsAssumption DEF Waiting, Entry, NoEntry, Over, Seats
  <1>3. QED BY <1>1, <1>2 DEF Steady, SeatsInv, WaitersFit

\* The change under review is applied to what it was reviewed for.
LEMMA ApplyKeeps ==
  ASSUME TypeOK, TypeOK', Steady, ReviewInv, ApplyChange
  PROVE  Steady'
  <1>1. UNCHANGED <<booking, entry, raced>>
    BY DEF ApplyChange, guests
  <1>2. [kind |-> review.kind, input |-> review.input] \in Change
    BY DEF ApplyChange, TypeOK
  <1>3. ASSUME NEW s \in Slot
        PROVE  /\ \/ capacity'[s] = capacity[s]
                  \/ /\ Used(s) <= capacity'[s]
                     /\ \A g \in Waiting(s) : entry[s][g].quantity <= capacity'[s]
               /\ \/ Used(s) = 0 /\ Waiting(s) = {}
                  \/ /\ capacity[s] > 0 /\ (resource.active => resource'.active)
                     /\ s \in holiday' => s \in holiday
    <2>1. capacity[s] \in Nat
      BY TypeFacts
    <2>2. CASE capacity[s] = 0
      <3>1. capacity'[s] = capacity[s]
        BY <2>2 DEF ApplyChange, TypeOK, Existing
      <3>2. QED BY <2>2, <3>1, Vacant
    <2>3. CASE capacity[s] > 0
      <3>1. CASE review.kind = "resource"
        <4>1. review.input.capacity \in Nat
          BY <1>2, <3>1, BookingsAssumption DEF Change, Resource, Seats
        <4>2. /\ capacity'[s] = Least(capacity[s], review.input.capacity)
              /\ resource' = review.input /\ holiday' = holiday
          BY <2>3, <3>1 DEF ApplyChange, Existing
        <4>3. capacity'[s] = capacity[s] \/ capacity'[s] = review.input.capacity
          BY <4>2 DEF Least
        <4>4. /\ Used(s) <= review.input.capacity
              /\ \A g \in Waiting(s) : entry[s][g].quantity <= review.input.capacity
              /\ ~review.input.active => Used(s) = 0 /\ Waiting(s) = {}
          BY <2>3, <3>1, AppliedSound
        <4>5. QED BY <2>3, <4>2, <4>3, <4>4
      <3>2. CASE review.kind = "rule"
        BY <2>3, <3>2 DEF ApplyChange
      <3>3. CASE review.kind = "holiday"
        <4>1. capacity' = capacity /\ resource' = resource
          BY <3>3 DEF ApplyChange
        <4>2. s \in holiday' /\ s \notin holiday => ~review.input.remove /\ s = review.input.slot
          BY <3>3 DEF ApplyChange
        <4>3. QED BY <2>3, <3>3, <4>1, <4>2, AppliedSound
      <3>4. QED BY <3>1, <3>2, <3>3 DEF ApplyChange
    <2>4. QED BY <2>1, <2>2, <2>3
  <1>4. QED BY <1>1, <1>3, SlotsKeep

\* What is written after a check may come too late; then it counts as raced.
LEMMA WritesKeep ==
  ASSUME TypeOK, TypeOK', Steady, NEW p \in Process, Write(p)
  PROVE  Steady'
  <1>1. UNCHANGED <<booking, entry>> /\ (raced => raced')
    <2>1. UNCHANGED <<booking, entry>>
      BY DEF Write, SlotWrite, MaterializeWrite, RuleWrite, ResourceWrite, HolidayWrite, DraftDies,
             guests
    <2>2. CASE ResourceWrite(p) \/ HolidayWrite(p)
      BY <2>1, <2>2, Zenon DEF ResourceWrite, HolidayWrite
    <2>3. CASE SlotWrite(p) \/ MaterializeWrite(p) \/ RuleWrite(p) \/ DraftDies(p)
      BY <2>1, <2>3 DEF SlotWrite, MaterializeWrite, RuleWrite, DraftDies
    <2>4. QED BY <2>2, <2>3 DEF Write
  <1>2. ASSUME NEW s \in Slot
        PROVE  /\ \/ capacity'[s] = capacity[s]
                  \/ /\ Used(s) <= capacity'[s]
                     /\ \A g \in Waiting(s) : entry[s][g].quantity <= capacity'[s]
               /\ \/ raced'
                  \/ Used(s) = 0 /\ Waiting(s) = {}
                  \/ /\ capacity[s] > 0 /\ (resource.active => resource'.active)
                     /\ s \in holiday' => s \in holiday
    <2>1. capacity[s] \in Nat /\ capacity'[s] \in Nat
      BY BookingsAssumption DEF TypeOK
    <2>2. capacity[s] = 0 => Used(s) = 0 /\ Waiting(s) = {}
      BY Vacant
    <2>3. capacity[s] > 0 => capacity'[s] = capacity[s]
      BY DEF Write, SlotWrite, MaterializeWrite, RuleWrite, ResourceWrite, HolidayWrite, DraftDies,
             slots, TypeOK
    <2>4. CASE capacity[s] = 0
      BY <2>1, <2>2, <2>4
    <2>5. CASE capacity[s] > 0
      <3>1. \/ raced'
            \/ (resource.active => resource'.active) /\ (s \in holiday' => s \in holiday)
        BY <2>5 DEF Write, SlotWrite, MaterializeWrite, RuleWrite, ResourceWrite, HolidayWrite,
                    DraftDies, slots, Existing
      <3>2. QED BY <2>3, <2>5, <3>1
    <2>6. QED BY <2>1, <2>4, <2>5
  <1>3. QED BY <1>1, <1>2, SlotsKeep

\* Every step keeps the seats right.
LEMMA SteadyKept ==
  ASSUME TypeOK, TypeOK', Steady, ReviewInv, [Next]_vars
  PROVE  Steady'
  <1>1. CASE Visit \/ Offer
    <2>1. UNCHANGED <<resource, capacity, holiday, raced>>
      BY <1>1 DEF Visit, CreateBooking, CancelBooking, Join, Accept, Leave, Lapse, Offer, slots
    <2>2. QED BY <1>1, <2>1, VisitMoves, OfferMoves, GuestsKeep
  <1>2. CASE ApplyChange
    BY <1>2, ApplyKeeps
  <1>3. ASSUME NEW p \in Process, Write(p)
        PROVE  Steady'
    BY <1>3, WritesKeep
  <1>4. ASSUME UNCHANGED <<booking, entry, capacity, resource, raced>>, holiday' \subseteq holiday
        PROVE  Steady'
    <2>1. ASSUME NEW s \in Slot
          PROVE  \/ Used(s) = 0 /\ Waiting(s) = {}
                 \/ capacity[s] > 0
      BY TypeFacts, Vacant
    <2>2. QED BY <1>4, <2>1, SlotsKeep
  <1>5. CASE (\E c \in Change : Preview(c.kind, c.input)) \/ Discard \/ UNCHANGED vars
    BY <1>4, <1>5 DEF Preview, Discard, slots, guests, vars
  <1>6. ASSUME NEW s \in Slot, HolidayRemove(s)
        PROVE  Steady'
    BY <1>4, <1>6 DEF HolidayRemove, guests
  <1>7. ASSUME NEW p \in Process, Check(p)
        PROVE  Steady'
    BY <1>4, <1>7 DEF Check, SlotCheck, MaterializeCheck, RuleCheck, ResourceCheck, HolidayCheck,
                      Checks, slots, guests
  <1>8. QED BY <1>1, <1>2, <1>3, <1>5, <1>6, <1>7 DEF Next, Review

-----------------------------------------------------------------------------
(* Theorems                                                                *)

\* There are no slots at first.
LEMMA InitInv == Init => IInv
  <1> SUFFICES ASSUME Init
               PROVE  IInv
    OBVIOUS
  <1>1. TypeOK
    <2>1. resource \in Resource /\ rule \in 0..MaxCapacity /\ raced \in BOOLEAN
      <3>1. PICK n \in Seats : resource = [capacity |-> n, active |-> TRUE]
        BY DEF Init
      <3>2. resource \in Resource
        BY <3>1 DEF Resource
      <3>3. rule \in 0..MaxCapacity
        BY BookingsAssumption DEF Init
      <3>4. raced \in BOOLEAN
        BY DEF Init
      <3>5. QED BY <3>2, <3>3, <3>4
    <2>2. capacity \in [Slot -> 0..MaxCapacity] /\ byHand \in SUBSET Slot /\ holiday \in SUBSET Slot
      BY BookingsAssumption DEF Init
    <2>3. /\ booking \in [Key -> Booking \cup {NoBooking}]
          /\ entry \in [Slot -> [Guest -> Entry \cup {NoEntry, Over}]]
      BY DEF Init
    <2>4. draft \in [Process -> Draft] /\ review = NoReview
      BY DEF Init, Draft
    <2>5. QED BY <2>1, <2>2, <2>3, <2>4 DEF TypeOK
  <1>2. ASSUME NEW s \in Slot
        PROVE  Used(s) = 0 /\ Waiting(s) = {} /\ capacity[s] = 0
    <2>1. Direct(s) = {} \/ \A k \in Key : booking[k].quantity = 0
      BY DEF Init, NoBooking
    <2>2. Taken(booking, s) = 0 /\ Held(entry, s) = 0
      <3> DEFINE f == [k \in Key |-> SeatsOf(booking, k, s)]
                 h == [g \in Guest |-> Holds(entry, g, s)]
                 z == [x \in {} |-> 0]
      <3>1. /\ \A k \in Key : f[k] = 0
            /\ \A g \in Guest : h[g] = 0
        BY DEF Init, NoBooking, NoEntry, SeatsOf, Holds
      <3> HIDE DEF f, h, z
      <3>2. SumFunctionOnSet(z, {}) = SumFunctionOnSet(f, Key)
        BY <3>1, SumWithin, BookingsAssumption
      <3>3. SumFunctionOnSet(z, {}) = SumFunctionOnSet(h, Guest)
        BY <3>1, SumWithin, BookingsAssumption
      <3>4. QED BY <3>2, <3>3, SumEmpty DEF f, h, Taken, Held
    <2>3. Used(s) = 0
      BY <1>1, <2>2, TypeFacts, UsedIs
    <2>4. QED BY <2>3 DEF Init, Waiting, NoEntry
  <1>3. SeatsInv /\ WaitersFit /\ PromisesKept
    BY <1>2 DEF SeatsInv, WaitersFit, PromisesKept, Existing
  <1>4. ReviewInv
    BY DEF Init, ReviewInv
  <1>5. QED BY <1>1, <1>3, <1>4 DEF IInv

\* Every step keeps the invariant.
LEMMA NextInv == IInv /\ [Next]_vars => IInv'
  BY TypeKept, ReviewKept, SteadyKept DEF IInv, Steady

\* The inductive invariant holds in every reachable state, for any number of slots, guests,
\* bookings, processes and seats.
THEOREM BookingsInvariant == Spec => []IInv
  BY InitInv, NextInv, PTL DEF Spec

\* Every variable keeps its type.
THEOREM BookingsTypeCorrect == Spec => []TypeOK
  <1>1. IInv => TypeOK
    BY DEF IInv
  <1>2. QED BY <1>1, BookingsInvariant, PTL

\* No slot is overbooked.
THEOREM BookingsNoOverbooking == Spec => []NoOverbooking
  <1>1. IInv => NoOverbooking
    BY DEF IInv, SeatsInv, NoOverbooking
  <1>2. QED BY <1>1, BookingsInvariant, PTL

\* No change of the capacity makes a slot too small for a guest who waits for it.
THEOREM BookingsWaitersFit == Spec => []WaitersFit
  <1>1. IInv => WaitersFit
    BY DEF IInv
  <1>2. QED BY <1>1, BookingsInvariant, PTL

\* What was booked, offered or waited for takes place, unless an unreviewed change was
\* written over a check of another process.
THEOREM BookingsPromisesKept == Spec => []PromisesKept
  <1>1. IInv => PromisesKept
    BY DEF IInv
  <1>2. QED BY <1>1, BookingsInvariant, PTL
=============================================================================
