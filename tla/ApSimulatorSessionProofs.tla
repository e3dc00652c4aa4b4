---------------------- MODULE ApSimulatorSessionProofs ----------------------
(***************************************************************************)
(* Theorems of ApSimulatorSession for every set of heroes, every number of *)
(* rounds and capacity, every party and any number of auto-drive requests. *)
(* The invariant relates each thing the session keeps beside the draft     *)
(* (bindings, ledger, timer, yields) to the draft, as a predicate on the   *)
(* two; a step seals a selection, and may then resolve the batch, so each  *)
(* predicate is shown to survive a Seal and a ResolveRound.                *)
(***************************************************************************)
EXTENDS ApSimulatorSession, SoundDraftProofs

(* The own seats a draft holds, as OwnSeatsTaken does of the draft in      *)
(* play.                                                                   *)
OwnSeats(d) ==
  {Seat(d.round, e.slotIndex) : e \in {x \in d.sealed : x.side = LocalSide}}
    \cup {Seat(p.round, p.slotIndex) : p \in {x \in d.confirmedPicks : x.side = LocalSide}}

(* The bindings are those of the own seats taken, one position each.       *)
Follows(bindings, d) ==
  /\ bindings \subseteq Bindings
  /\ {Seat(b.round, b.slotIndex) : b \in bindings} = OwnSeats(d)
  /\ \A b, c \in bindings :
       (\/ b.assignedPosition = c.assignedPosition
        \/ Seat(b.round, b.slotIndex) = Seat(c.round, c.slotIndex)) => b = c

(* A selection registered in the attempt in play.                          *)
Current(r, d) == r.round = d.round /\ r.collisionsResolved = d.collisionsResolved

(* The ledger of the attempt in play lists each sealed entry once, and no  *)
(* attempt still to come is in it.                                         *)
Ledger(ledger, next, d) ==
  /\ ledger \subseteq Registrations /\ next \in Nat
  /\ \A r \in ledger : r.ordinal < next
  /\ \A r, s \in ledger : r.ordinal = s.ordinal => r = s
  /\ \A r \in ledger :
       /\ r.round <= d.phase
       /\ r.round = d.round => r.collisionsResolved <= d.collisionsResolved
  /\ \A r \in ledger : Current(r, d) =>
       \E e \in d.sealed : SlotOf(e) = SlotOf(r) /\ e.heroId = r.heroId
  /\ \A r, s \in ledger : Current(r, d) /\ Current(s, d) /\ SlotOf(r) = SlotOf(s) => r = s
  /\ \A e \in d.sealed :
       \E r \in ledger : Current(r, d) /\ SlotOf(r) = SlotOf(e) /\ r.heroId = e.heroId

(* A seat timed and not confirmed is an own slot open in the round.        *)
Timed(t, d) ==
  \A seat \in t.seats \ t.confirmed :
    /\ seat.round = d.round
    /\ [side |-> LocalSide, slotIndex |-> seat.slotIndex] \in d.openSlots

OwnOpen(d) == {s \in d.openSlots : s.side = LocalSide}
Unfilled(bindings) == AllyPositions \ {b.assignedPosition : b \in bindings}

(* Rounds are yielded when they are in play; until a collision, the Ally   *)
(* Bot has a position for every own slot of a yielded round.               *)
Absorbed(yielded, bindings, d) ==
  /\ yielded \subseteq Rounds
  /\ \A r \in yielded : r <= d.phase
  /\ (d.round \in yielded /\ d.collisionsResolved = 0)
       => Cardinality(Unfilled(bindings)) >= Cardinality(OwnOpen(d))

Timers ==
  [round : 0..NumRounds, attempt : Nat, seats : SUBSET SeatRecords, confirmed : SUBSET SeatRecords]

Decisions ==
  [side : Sides, slotIndex : Nat, heroId : Heroes \cup {NoHero}, position : Positions \cup {0}]

(* A request in flight that has decided something names a hero.            *)
Decided ==
  /\ decisions \in [Drivers -> Decisions]
  /\ \A driver \in Drivers :
       decisions[driver] # Undecided => decisions[driver].heroId \in Heroes

(* All that the requests in flight have no part in.                        *)
Beside ==
  /\ Sound(draft)
  /\ Follows(ownPickPositions, draft)
  /\ Ledger(registrations, nextRegistrationOrdinal, draft)
  /\ Timed(timer, draft)
  /\ Absorbed(roundYielded, ownPickPositions, draft)
  /\ timer \in Timers

Inv == Beside /\ Decided

----------------------------------------------------------------------------
(* Bindings                                                                *)

(* No own seat taken is open.                                              *)
LEMMA TakenNotOpen ==
  ASSUME NEW d, d \in Drafts, Conserved(d), NEW i,
         d.round \in Rounds, Seat(d.round, i) \in OwnSeats(d)
  PROVE  [side |-> LocalSide, slotIndex |-> i] \notin d.openSlots
<1>1. d.round # 0
  BY RoundsAssumption DEF Rounds
<1>2. CASE \E e \in d.sealed : e.side = LocalSide /\ e.slotIndex = i
  BY <1>1, <1>2 DEF Conserved, SlotsOf, SlotOf
<1>3. CASE \E p \in d.confirmedPicks : p.side = LocalSide /\ p.round = d.round /\ p.slotIndex = i
  BY <1>1, <1>3 DEF Conserved, ConfirmedSlots, SlotsOf, SlotOf
<1>4. QED BY <1>2, <1>3 DEF OwnSeats, Seat

(* Of bindings that follow the draft, none is pruned.                      *)
LEMMA PruneNothing ==
  ASSUME NEW d, d \in Drafts, Conserved(d), NEW bindings, Follows(bindings, d)
  PROVE  Prune(bindings, d) = bindings
<1>1. ASSUME NEW b \in bindings, b.round = d.round
      PROVE  [side |-> LocalSide, slotIndex |-> b.slotIndex] \notin d.openSlots
  <2>1. b.round \in Rounds /\ Seat(d.round, b.slotIndex) \in OwnSeats(d)
    BY <1>1 DEF Follows, Bindings
  <2>2. QED BY <1>1, <2>1, TakenNotOpen
<1>2. QED BY <1>1 DEF Prune

(* A resolved batch leaves the bindings following the draft, once those of *)
(* the slots it reopens are pruned.                                        *)
LEMMA ResolveFollows ==
  ASSUME NEW d, Closed(d), NEW bindings, Follows(bindings, d), NEW a, a = ResolveRound(d)
  PROVE  Follows(Prune(bindings, a), a)
<1>1. d \in Drafts /\ d.round \in Rounds /\ d.openSlots = {} /\ Conserved(d)
  BY DEF Closed
<1>2. Sound(a) /\ a \in Drafts /\ Conserved(a)
  BY ResolveIsSound DEF Sound
<1>3. CASE Awaits(d, a)
  <2>1. OwnSeats(a) = OwnSeats(d)
    BY <1>3 DEF Awaits, OwnSeats
  <2>2. Follows(bindings, a)
    BY <2>1 DEF Follows
  <2>3. QED BY <1>2, <2>2, PruneNothing
<1>4. CASE Advances(d, a)
  <2>1. OwnSeats(a) = OwnSeats(d)
    <3>1. OwnSeats(a) = {Seat(p.round, p.slotIndex) : p \in {x \in a.confirmedPicks : x.side = LocalSide}}
      BY <1>4 DEF Advances, OwnSeats
    <3>2. ASSUME NEW e \in d.sealed, e.side = LocalSide
          PROVE  Confirm(d, e).side = LocalSide /\ Seat(d.round, e.slotIndex) = Seat(Confirm(d, e).round, Confirm(d, e).slotIndex)
      BY <3>2 DEF Confirm, Seat
    <3>3. ASSUME NEW e \in d.sealed, Confirm(d, e).side = LocalSide
          PROVE  e.side = LocalSide /\ Seat(d.round, e.slotIndex) = Seat(Confirm(d, e).round, Confirm(d, e).slotIndex)
      BY <3>3 DEF Confirm, Seat
    <3>4. OwnSeats(d) \subseteq OwnSeats(a)
      BY <3>1, <3>2, <1>4 DEF Advances, OwnSeats
    <3>5. OwnSeats(a) \subseteq OwnSeats(d)
      BY <3>1, <3>3, <1>4 DEF Advances, OwnSeats
    <3>6. QED BY <3>4, <3>5
  <2>2. Follows(bindings, a)
    BY <2>1 DEF Follows
  <2>3. QED BY <1>2, <2>2, PruneNothing
<1>5. CASE Reopens(d, a)
  <2> DEFINE kept == Prune(bindings, a)
  <2>1. kept \subseteq bindings
    BY DEF Prune
  <2>2. ASSUME NEW b \in kept PROVE Seat(b.round, b.slotIndex) \in OwnSeats(a)
    <3>1. Seat(b.round, b.slotIndex) \in OwnSeats(d)
      BY <2>1 DEF Follows
    <3>2. CASE \E e \in d.sealed : e.side = LocalSide /\ d.round = b.round /\ e.slotIndex = b.slotIndex
      <4>1. PICK e \in d.sealed : e.side = LocalSide /\ d.round = b.round /\ e.slotIndex = b.slotIndex
        BY <3>2
      <4>2. [side |-> LocalSide, slotIndex |-> b.slotIndex] \notin a.openSlots
        BY <1>5, <4>1 DEF Prune, Reopens
      <4>3. e \in Revealed(d)
        BY <1>5, <4>1, <4>2 DEF Reopens, SlotsOf, SlotOf
      <4>4. Confirm(d, e) \in a.confirmedPicks
        BY <1>5, <4>3 DEF Reopens
      <4>5. QED BY <4>1, <4>4 DEF OwnSeats, Confirm, Seat
    <3>3. CASE \E p \in d.confirmedPicks : p.side = LocalSide /\ p.round = b.round /\ p.slotIndex = b.slotIndex
      BY <1>5, <3>3 DEF Reopens, OwnSeats
    <3>4. QED BY <3>1, <3>2, <3>3 DEF OwnSeats, Seat
  <2>3. ASSUME NEW seat \in OwnSeats(a) PROVE \E b \in kept : seat = Seat(b.round, b.slotIndex)
    <3>1. PICK p \in a.confirmedPicks : p.side = LocalSide /\ seat = Seat(p.round, p.slotIndex)
      BY <1>5 DEF Reopens, OwnSeats
    <3>2. seat \in OwnSeats(d)
      <4>1. CASE p \in d.confirmedPicks
        BY <3>1, <4>1 DEF OwnSeats
      <4>2. CASE \E e \in Revealed(d) : p = Confirm(d, e)
        BY <3>1, <4>2 DEF OwnSeats, Confirm, Revealed
      <4>3. QED BY <1>5, <4>1, <4>2 DEF Reopens
    <3>3. PICK b \in bindings : seat = Seat(b.round, b.slotIndex)
      BY <3>2 DEF Follows
    <3>4. b.round = a.round => [side |-> LocalSide, slotIndex |-> b.slotIndex] \notin a.openSlots
      <4>1. a.round \in Rounds
        BY <1>1, <1>5 DEF Reopens
      <4>2. QED BY <1>2, <3>3, <4>1, TakenNotOpen
    <3>5. QED BY <3>3, <3>4 DEF Prune
  <2>4. QED BY <2>1, <2>2, <2>3 DEF Follows
<1>6. QED BY <1>3, <1>4, <1>5, ResolveOutcomes

(* The binding a selection for a position makes.                           *)
Bound(d, slot, position) ==
  [round |-> d.round, slotIndex |-> slot.slotIndex, assignedPosition |-> position]

(* An own selection for a position still open is bound to it.              *)
LEMMA OwnSealFollows ==
  ASSUME NEW d, Sound(d), NEW slot, NEW h \in Heroes, IsSealedSelectionLegal(d, slot, h),
         slot.side = LocalSide, NEW bindings, Follows(bindings, d),
         NEW position \in Positions, \A b \in bindings : b.assignedPosition # position
  PROVE  Follows(bindings \cup {Bound(d, slot, position)}, Seal(d, slot, h))
<1> DEFINE a == Seal(d, slot, h)
<1> DEFINE new == Bound(d, slot, position)
<1>1. /\ slot \in d.openSlots /\ slot \in [side : Sides, slotIndex : Nat]
      /\ d.round \in Rounds /\ d \in Drafts /\ Conserved(d)
  BY SealKeepsParts DEF Sound
<1>2. /\ a.sealed = d.sealed \cup {Entry(slot, h)} /\ Entry(slot, h).side = LocalSide
      /\ a.confirmedPicks = d.confirmedPicks /\ a.round = d.round
  BY <1>1, SealFields
<1>3. /\ new \in Bindings /\ new.assignedPosition = position
      /\ Seat(new.round, new.slotIndex) = Seat(d.round, slot.slotIndex)
      /\ Entry(slot, h).slotIndex = slot.slotIndex
  BY <1>1 DEF Bound, Bindings, Entry
<1> HIDE DEF a, new
<1>4. OwnSeats(a) = OwnSeats(d) \cup {Seat(d.round, slot.slotIndex)}
  BY <1>2, <1>3 DEF OwnSeats
<1>5. slot = [side |-> LocalSide, slotIndex |-> slot.slotIndex]
  BY <1>1
<1>6. Seat(d.round, slot.slotIndex) \notin OwnSeats(d)
  BY <1>1, <1>5, TakenNotOpen
<1>7. \A b \in bindings : Seat(b.round, b.slotIndex) # Seat(new.round, new.slotIndex)
  BY <1>3, <1>6 DEF Follows
<1>8. {Seat(b.round, b.slotIndex) : b \in bindings \cup {new}}
        = {Seat(b.round, b.slotIndex) : b \in bindings} \cup {Seat(new.round, new.slotIndex)}
  OBVIOUS
<1>9. \A b, c \in bindings \cup {new} :
        (\/ b.assignedPosition = c.assignedPosition
         \/ Seat(b.round, b.slotIndex) = Seat(c.round, c.slotIndex)) => b = c
  BY <1>3, <1>7 DEF Follows
<1>10. Follows(bindings \cup {new}, a)
  BY <1>3, <1>4, <1>8, <1>9 DEF Follows
<1>11. QED BY <1>10 DEF a, new

(* A selection of the enemy binds nothing.                                 *)
LEMMA EnemySealFollows ==
  ASSUME NEW d, Sound(d), NEW slot, NEW h \in Heroes, IsSealedSelectionLegal(d, slot, h),
         slot.side # LocalSide, NEW bindings, Follows(bindings, d)
  PROVE  Follows(bindings, Seal(d, slot, h))
<1> DEFINE a == Seal(d, slot, h)
<1>1. slot \in [side : Sides, slotIndex : Nat]
  BY SealKeepsParts
<1>2. /\ a.sealed = d.sealed \cup {Entry(slot, h)} /\ Entry(slot, h).side # LocalSide
      /\ a.confirmedPicks = d.confirmedPicks /\ a.round = d.round
  BY <1>1, SealFields
<1> HIDE DEF a
<1>3. {x \in a.sealed : x.side = LocalSide} = {x \in d.sealed : x.side = LocalSide}
  BY <1>2
<1>4. OwnSeats(a) = OwnSeats(d)
  BY <1>2, <1>3 DEF OwnSeats
<1>5. QED BY <1>4 DEF Follows, a

(* What follows the draft with a selection sealed follows, once pruned,    *)
(* the draft the command returns.                                          *)
LEMMA SubmitFollows ==
  ASSUME NEW d, Sound(d), NEW slot, NEW h \in Heroes, AcceptsSealedSelection(d, slot, h),
         NEW bindings, Follows(bindings, Seal(d, slot, h)),
         NEW a, a = SubmitSealedSelection(d, slot, h)
  PROVE  Follows(Prune(bindings, a), a)
<1>1. IsSealedSelectionLegal(d, slot, h)
  BY DEF AcceptsSealedSelection
<1>2. CASE ClosesBatch(d, slot)
  <2>1. Closed(Seal(d, slot, h)) /\ a = ResolveRound(Seal(d, slot, h))
    BY <1>1, <1>2, SealCloses DEF SubmitSealedSelection
  <2>2. QED BY <2>1, ResolveFollows
<1>3. CASE ~ClosesBatch(d, slot)
  <2>1. a = Seal(d, slot, h)
    BY <1>3 DEF SubmitSealedSelection
  <2>2. Sound(a) /\ a \in Drafts /\ Conserved(a)
    BY SubmitIsSound DEF Sound
  <2>3. Prune(bindings, a) = bindings
    BY <2>1, <2>2, PruneNothing
  <2>4. QED BY <2>1, <2>3
<1>4. QED BY <1>2, <1>3

----------------------------------------------------------------------------
(* Ledger                                                                  *)

(* The entry recordRegistration adds.                                      *)
Registered(d, n, slot, h) ==
  [ordinal |-> n, round |-> d.round, collisionsResolved |-> d.collisionsResolved,
   side |-> slot.side, slotIndex |-> slot.slotIndex, heroId |-> h]

(* A sealed selection is the one its entry of the ledger names.            *)
LEMMA SealLedger ==
  ASSUME NEW d, Sound(d), NEW slot, NEW h \in Heroes, IsSealedSelectionLegal(d, slot, h),
         NEW ledger, NEW n, Ledger(ledger, n, d)
  PROVE  Ledger(ledger \cup {Registered(d, n, slot, h)}, n + 1, Seal(d, slot, h))
<1> DEFINE a == Seal(d, slot, h)
<1> DEFINE new == Registered(d, n, slot, h)
<1> DEFINE more == ledger \cup {new}
<1>1. /\ slot \in d.openSlots /\ slot \in [side : Sides, slotIndex : Nat]
      /\ d.round \in Rounds /\ d \in Drafts /\ d.collisionsResolved \in Nat
      /\ d.phase = d.round /\ d.round # 0
  BY SealKeepsParts, RoundsAssumption DEF Sound, Drafts, Conserved, Rounds
<1>2. /\ a.sealed = d.sealed \cup {Entry(slot, h)}
      /\ SlotOf(Entry(slot, h)) = slot /\ Entry(slot, h).heroId = h
      /\ a.round = d.round /\ a.phase = d.phase
      /\ a.collisionsResolved = d.collisionsResolved
  BY <1>1, SealFields
<1>3. /\ new \in Registrations /\ new.ordinal = n /\ new.round = d.round
      /\ new.collisionsResolved = d.collisionsResolved
      /\ SlotOf(new) = slot /\ new.heroId = h
  BY <1>1 DEF Registered, Registrations, SlotOf, Ledger
<1>4. \A r : Current(r, a) <=> Current(r, d)
  BY <1>2 DEF Current
<1>5. Current(new, d)
  BY <1>3 DEF Current
<1> HIDE DEF a, new
<1>6. \A e \in d.sealed : SlotOf(e) # slot
  BY <1>1 DEF Sound, Conserved, SlotsOf
<1>7. \A r \in ledger : Current(r, d) => SlotOf(r) # slot
  BY <1>6 DEF Ledger
<1>8. more \subseteq Registrations /\ n + 1 \in Nat /\ \A r \in more : r.ordinal < n + 1
  <2>1. n \in Nat /\ ledger \subseteq Registrations /\ \A r \in ledger : r.ordinal < n
    BY DEF Ledger
  <2>2. \A r \in ledger : r.ordinal \in Nat
    BY <2>1 DEF Registrations
  <2>3. QED BY <1>3, <2>1, <2>2
<1>9. \A r, s \in more : r.ordinal = s.ordinal => r = s
  <2>1. \A r \in ledger : r.ordinal # n
    BY DEF Ledger, Registrations
  <2>2. QED BY <1>3, <2>1 DEF Ledger
<1>10. \A r \in more :
         /\ r.round <= a.phase
         /\ r.round = a.round => r.collisionsResolved <= a.collisionsResolved
  <2>1. \A r \in ledger :
          /\ r.round <= d.phase
          /\ r.round = d.round => r.collisionsResolved <= d.collisionsResolved
    BY DEF Ledger
  <2>2. d.round <= d.phase /\ d.collisionsResolved <= d.collisionsResolved
    BY <1>1 DEF Rounds
  <2>3. QED BY <1>2, <1>3, <2>1, <2>2
<1>11. \A r \in more : Current(r, a) =>
         \E e \in a.sealed : SlotOf(e) = SlotOf(r) /\ e.heroId = r.heroId
  BY <1>2, <1>3, <1>4 DEF Ledger
<1>12. \A r, s \in more : Current(r, a) /\ Current(s, a) /\ SlotOf(r) = SlotOf(s) => r = s
  BY <1>3, <1>4, <1>7 DEF Ledger
<1>13. \A e \in a.sealed :
         \E r \in more : Current(r, a) /\ SlotOf(r) = SlotOf(e) /\ r.heroId = e.heroId
  BY <1>2, <1>3, <1>4, <1>5 DEF Ledger
<1>14. Ledger(more, n + 1, a)
  BY <1>8, <1>9, <1>10, <1>11, <1>12, <1>13 DEF Ledger
<1>15. QED BY <1>14 DEF a, new

(* A resolved batch is kept as it is, or its attempt is over and the next  *)
(* one is in the ledger of nobody.                                         *)
LEMMA ResolveLedger ==
  ASSUME NEW d, Closed(d), NEW a, a = ResolveRound(d), NEW ledger, NEW n, Ledger(ledger, n, d)
  PROVE  Ledger(ledger, n, a)
<1>1. /\ d \in Drafts /\ d.round \in Rounds /\ d.phase = d.round /\ d.phase \in Nat
      /\ ledger \subseteq Registrations
  BY RoundsAssumption DEF Closed, Conserved, Rounds, Ledger
<1>2. \A r \in ledger :
        /\ r.round \in Nat \ {0} /\ r.collisionsResolved \in Nat
        /\ r.round <= d.phase
        /\ r.round = d.round => r.collisionsResolved <= d.collisionsResolved
  BY <1>1, RoundsAssumption DEF Ledger, Registrations, Rounds
<1>3. CASE Awaits(d, a)
  <2>1. \A r : Current(r, a) <=> Current(r, d)
    BY <1>3 DEF Awaits, Current
  <2>2. a.sealed = d.sealed /\ a.phase = d.phase /\ a.round = d.round
        /\ a.collisionsResolved = d.collisionsResolved
    BY <1>3 DEF Awaits
  <2>3. QED BY <2>1, <2>2 DEF Ledger
<1>4. CASE Reopens(d, a)
  <2>1. /\ a.round = d.round /\ a.phase = d.phase /\ a.sealed = {}
        /\ a.collisionsResolved \in Nat /\ a.collisionsResolved > d.collisionsResolved
    BY <1>1, <1>4, ReopensCounts DEF Reopens
  <2>2. d.collisionsResolved \in Nat
    BY <1>1 DEF Drafts
  <2>3. \A r \in ledger : r.round = d.round => r.collisionsResolved < a.collisionsResolved
    BY <1>2, <2>1, <2>2
  <2>4. \A r \in ledger : ~Current(r, a)
    BY <1>2, <2>1, <2>3 DEF Current
  <2>5. QED BY <1>2, <2>1, <2>3, <2>4 DEF Ledger
<1>5. CASE Advances(d, a)
  <2>1. a.phase = d.phase + 1 /\ a.round \in {0, a.phase} /\ a.sealed = {}
    BY <1>5 DEF Advances
  <2>2. \A r \in ledger : r.round <= a.phase /\ r.round # a.round
    BY <1>1, <1>2, <2>1
  <2>3. QED BY <2>1, <2>2 DEF Ledger, Current
<1>6. QED BY <1>3, <1>4, <1>5, ResolveOutcomes

LEMMA SubmitLedger ==
  ASSUME NEW d, Sound(d), NEW slot, NEW h \in Heroes, AcceptsSealedSelection(d, slot, h),
         NEW ledger, NEW n, Ledger(ledger, n, Seal(d, slot, h))
  PROVE  Ledger(ledger, n, SubmitSealedSelection(d, slot, h))
<1>1. IsSealedSelectionLegal(d, slot, h)
  BY DEF AcceptsSealedSelection
<1>2. CASE ClosesBatch(d, slot)
  BY <1>1, <1>2, SealCloses, ResolveLedger DEF SubmitSealedSelection
<1>3. CASE ~ClosesBatch(d, slot)
  BY <1>3 DEF SubmitSealedSelection
<1>4. QED BY <1>2, <1>3

----------------------------------------------------------------------------
(* Timer                                                                   *)

(* The timer once recordSeatConfirmation has seen a selection.             *)
Confirmed(t, d, slot) ==
  IF slot.side = LocalSide /\ Seat(d.round, slot.slotIndex) \in t.seats
  THEN [t EXCEPT !.confirmed = @ \cup {Seat(d.round, slot.slotIndex)}]
  ELSE t

LEMMA SealTimed ==
  ASSUME NEW d, Sound(d), NEW slot, NEW h \in Heroes, IsSealedSelectionLegal(d, slot, h),
         NEW t \in Timers, Timed(t, d)
  PROVE  Confirmed(t, d, slot) \in Timers /\ Timed(Confirmed(t, d, slot), Seal(d, slot, h))
<1> DEFINE a == Seal(d, slot, h)
<1> DEFINE new == Seat(d.round, slot.slotIndex)
<1> DEFINE u == Confirmed(t, d, slot)
<1>1. slot \in d.openSlots /\ slot \in [side : Sides, slotIndex : Nat] /\ d.round \in Rounds
  BY SealKeepsParts
<1>2. a.openSlots = d.openSlots \ {slot} /\ a.round = d.round
  BY <1>1, SealFields
<1>3. u \in Timers /\ u.seats = t.seats
  BY DEF Timers, Confirmed
<1>4. CASE slot.side = LocalSide /\ new \in t.seats
  <2>1. u.confirmed = t.confirmed \cup {new}
    BY <1>4 DEF Timers, Confirmed
  <2>2. ASSUME NEW seat \in u.seats \ u.confirmed
        PROVE  seat.round = a.round /\ [side |-> LocalSide, slotIndex |-> seat.slotIndex] \in a.openSlots
    <3>1. seat \in t.seats \ t.confirmed /\ seat # new
      BY <1>3, <2>1, <2>2
    <3>2. seat.round = d.round /\ [side |-> LocalSide, slotIndex |-> seat.slotIndex] \in d.openSlots
      BY <3>1 DEF Timed
    <3>3. seat = [round |-> seat.round, slotIndex |-> seat.slotIndex]
      BY <3>1 DEF Timers, SeatRecords
    <3>4. seat.slotIndex # slot.slotIndex
      BY <3>1, <3>2, <3>3 DEF Seat
    <3>5. [side |-> LocalSide, slotIndex |-> seat.slotIndex] # slot
      BY <3>4
    <3>6. QED BY <1>2, <3>2, <3>5
  <2>3. QED BY <1>3, <2>2 DEF Timed
<1>5. CASE ~(slot.side = LocalSide /\ new \in t.seats)
  <2>1. u = t
    BY <1>5 DEF Confirmed
  <2>2. ASSUME NEW seat \in t.seats \ t.confirmed
        PROVE  seat.round = a.round /\ [side |-> LocalSide, slotIndex |-> seat.slotIndex] \in a.openSlots
    <3>1. seat.round = d.round /\ [side |-> LocalSide, slotIndex |-> seat.slotIndex] \in d.openSlots
      BY <2>2 DEF Timed
    <3>2. seat = Seat(seat.round, seat.slotIndex)
      BY DEF Timers, SeatRecords, Seat
    <3>3. CASE slot.side # LocalSide
      BY <1>2, <3>1, <3>3
    <3>4. CASE slot.slotIndex # seat.slotIndex
      BY <1>2, <3>1, <3>4
    <3>5. CASE slot.side = LocalSide /\ slot.slotIndex = seat.slotIndex
      BY <1>5, <3>1, <3>2, <3>5
    <3>6. QED BY <3>3, <3>4, <3>5
  <2>3. QED BY <1>3, <2>1, <2>2 DEF Timed
<1>6. QED BY <1>4, <1>5

(* A batch is resolved once no slot is open, so no seat timed is pending.  *)
LEMMA ResolveTimed ==
  ASSUME NEW d, Closed(d), NEW a, NEW t, Timed(t, d)
  PROVE  Timed(t, a)
BY DEF Closed, Timed

LEMMA SubmitTimed ==
  ASSUME NEW d, Sound(d), NEW slot, NEW h \in Heroes, AcceptsSealedSelection(d, slot, h),
         NEW t, Timed(t, Seal(d, slot, h))
  PROVE  Timed(t, SubmitSealedSelection(d, slot, h))
<1>1. IsSealedSelectionLegal(d, slot, h)
  BY DEF AcceptsSealedSelection
<1>2. CASE ClosesBatch(d, slot)
  BY <1>1, <1>2, SealCloses, ResolveTimed
<1>3. CASE ~ClosesBatch(d, slot)
  BY <1>3 DEF SubmitSealedSelection
<1>4. QED BY <1>2, <1>3

----------------------------------------------------------------------------
(* Yields                                                                  *)

(* Open slots and positions are counted, so they had better be finite.     *)
LEMMA FiniteParts ==
  ASSUME NEW d \in Drafts, Conserved(d), d.round \in Rounds, NEW bindings
  PROVE  /\ IsFiniteSet(OwnOpen(d)) /\ Cardinality(OwnOpen(d)) \in Nat
         /\ IsFiniteSet(Unfilled(bindings)) /\ Cardinality(Unfilled(bindings)) \in Nat
<1>1. IsFiniteSet(Unfilled(bindings))
  <2>1. Unfilled(bindings) \subseteq Positions
    BY DEF Unfilled, Positions
  <2>2. QED BY <2>1, PartyAssumption, FS_Subset
<1>2. IsFiniteSet(OwnOpen(d))
  <2> DEFINE k == ROUND_CAPACITY[d.round] - 1
  <2> DEFINE f == [s \in OwnOpen(d) |-> s.slotIndex]
  <2>1. k \in Int
    BY CapacityAssumption DEF Rounds
  <2>2. \A s \in OwnOpen(d) : s \in [side : Sides, slotIndex : 0..k] /\ s.side = LocalSide
    <3>1. d.round # 0
      BY RoundsAssumption DEF Rounds
    <3>2. d.openSlots \subseteq Slots(d.round)
      BY <3>1 DEF Conserved
    <3>3. QED BY <3>2 DEF OwnOpen, Slots
  <2> HIDE DEF k
  <2>3. f \in Injection(OwnOpen(d), 0..k)
    BY <2>2 DEF Injection, IsInjective
  <2>4. IsFiniteSet(0..k)
    BY <2>1, FS_Interval
  <2>5. QED BY <2>3, <2>4, FS_Injection
<1>3. QED BY <1>1, <1>2, FS_CardinalityType

(* An own selection fills a slot and, of a yielded round, a position of    *)
(* the Ally Bot.                                                           *)
LEMMA OwnSealAbsorbed ==
  ASSUME NEW d, Sound(d), NEW slot, NEW h \in Heroes, IsSealedSelectionLegal(d, slot, h),
         slot.side = LocalSide, NEW bindings, NEW yielded, Absorbed(yielded, bindings, d),
         NEW position, d.round \in yielded => position \in Unfilled(bindings)
  PROVE  Absorbed(yielded, bindings \cup {Bound(d, slot, position)}, Seal(d, slot, h))
<1> DEFINE a == Seal(d, slot, h)
<1> DEFINE more == bindings \cup {Bound(d, slot, position)}
<1>1. /\ slot \in d.openSlots /\ slot \in [side : Sides, slotIndex : Nat]
      /\ d.round \in Rounds /\ d \in Drafts /\ Conserved(d)
  BY SealKeepsParts DEF Sound
<1>2. /\ a.openSlots = d.openSlots \ {slot} /\ a.round = d.round /\ a.phase = d.phase
      /\ a.collisionsResolved = d.collisionsResolved
  BY <1>1, SealFields
<1> HIDE DEF a
<1>3. OwnOpen(a) = OwnOpen(d) \ {slot} /\ slot \in OwnOpen(d)
  BY <1>1, <1>2 DEF OwnOpen
<1>4. Unfilled(more) = Unfilled(bindings) \ {position}
  <2>1. Bound(d, slot, position).assignedPosition = position
    BY DEF Bound
  <2>2. QED BY <2>1 DEF Unfilled
<1>5. /\ IsFiniteSet(OwnOpen(d)) /\ Cardinality(OwnOpen(d)) \in Nat
      /\ IsFiniteSet(Unfilled(bindings)) /\ Cardinality(Unfilled(bindings)) \in Nat
  BY <1>1, FiniteParts
<1>6. Cardinality(OwnOpen(a)) = Cardinality(OwnOpen(d)) - 1
  BY <1>3, <1>5, FS_RemoveElement
<1>7. d.round \in yielded => Cardinality(Unfilled(more)) = Cardinality(Unfilled(bindings)) - 1
  BY <1>4, <1>5, FS_RemoveElement
<1> HIDE DEF more
<1>8. Absorbed(yielded, more, a)
  BY <1>2, <1>5, <1>6, <1>7 DEF Absorbed
<1>9. QED BY <1>8 DEF a, more

LEMMA EnemySealAbsorbed ==
  ASSUME NEW d, Sound(d), NEW slot, NEW h \in Heroes, IsSealedSelectionLegal(d, slot, h),
         slot.side # LocalSide, NEW bindings, NEW yielded, Absorbed(yielded, bindings, d)
  PROVE  Absorbed(yielded, bindings, Seal(d, slot, h))
<1> DEFINE a == Seal(d, slot, h)
<1>1. slot \in [side : Sides, slotIndex : Nat]
  BY SealKeepsParts
<1>2. /\ a.openSlots = d.openSlots \ {slot} /\ a.round = d.round /\ a.phase = d.phase
      /\ a.collisionsResolved = d.collisionsResolved
  BY <1>1, SealFields
<1> HIDE DEF a
<1>3. OwnOpen(a) = OwnOpen(d)
  BY <1>2 DEF OwnOpen
<1>4. Absorbed(yielded, bindings, a)
  BY <1>2, <1>3 DEF Absorbed
<1>5. QED BY <1>4 DEF a

(* A resolved batch waits with no slot open, or has met a collision, or    *)
(* has begun a round nobody has yielded.                                   *)
LEMMA ResolveAbsorbed ==
  ASSUME NEW d, Closed(d), NEW a, a = ResolveRound(d),
         NEW bindings, NEW others, NEW yielded, Absorbed(yielded, bindings, d)
  PROVE  Absorbed(yielded, others, a)
<1>1. d \in Drafts /\ d.round \in Rounds /\ d.phase = d.round /\ d.phase \in Nat /\ Conserved(d)
  BY RoundsAssumption DEF Closed, Conserved, Rounds
<1>2. \A r \in yielded : r \in Nat \ {0} /\ r <= d.phase
  BY RoundsAssumption DEF Absorbed, Rounds
<1>3. CASE Awaits(d, a)
  <2>1. OwnOpen(a) = {} /\ a.phase = d.phase
    BY <1>3 DEF Awaits, OwnOpen
  <2>2. Cardinality(OwnOpen(a)) = 0 /\ Cardinality(Unfilled(others)) \in Nat
    BY <1>1, <2>1, FiniteParts, FS_EmptySet
  <2>3. QED BY <1>2, <2>1, <2>2 DEF Absorbed
<1>4. CASE Reopens(d, a)
  <2>1. a.collisionsResolved # 0 /\ a.phase = d.phase
    BY <1>1, <1>4, ReopensCounts DEF Reopens, Drafts
  <2>2. QED BY <1>2, <2>1 DEF Absorbed
<1>5. CASE Advances(d, a)
  <2>1. a.phase = d.phase + 1 /\ a.round \in {0, a.phase}
    BY <1>5 DEF Advances
  <2>2. a.round \notin yielded /\ \A r \in yielded : r <= a.phase
    BY <1>1, <1>2, <2>1
  <2>3. QED BY <2>2 DEF Absorbed
<1>6. QED BY <1>3, <1>4, <1>5, ResolveOutcomes

LEMMA SubmitAbsorbed ==
  ASSUME NEW d, Sound(d), NEW slot, NEW h \in Heroes, AcceptsSealedSelection(d, slot, h),
         NEW bindings, NEW yielded, Absorbed(yielded, bindings, Seal(d, slot, h)),
         Follows(bindings, Seal(d, slot, h)),
         NEW a, a = SubmitSealedSelection(d, slot, h)
  PROVE  Absorbed(yielded, Prune(bindings, a), a)
<1>1. IsSealedSelectionLegal(d, slot, h)
  BY DEF AcceptsSealedSelection
<1>2. CASE ClosesBatch(d, slot)
  <2>1. Closed(Seal(d, slot, h)) /\ a = ResolveRound(Seal(d, slot, h))
    BY <1>1, <1>2, SealCloses DEF SubmitSealedSelection
  <2>2. QED BY <2>1, ResolveAbsorbed
<1>3. CASE ~ClosesBatch(d, slot)
  <2>1. a = Seal(d, slot, h)
    BY <1>3 DEF SubmitSealedSelection
  <2>2. Sound(a) /\ a \in Drafts /\ Conserved(a)
    BY SubmitIsSound DEF Sound
  <2>3. Prune(bindings, a) = bindings
    BY <2>1, <2>2, PruneNothing
  <2>4. QED BY <2>1, <2>3
<1>4. QED BY <1>2, <1>3

----------------------------------------------------------------------------
(* The steps of the session                                                *)

(* An own selection, of the Player or of the Ally Bot. Of a yielded round, *)
(* it is the Ally Bot's.                                                   *)
LEMMA OwnStep ==
  ASSUME Beside, NEW slot, NEW h \in Heroes, NEW position, NEW allowed \in SUBSET Positions,
         AcceptsForPosition(slot, h, position, allowed),
         HasYieldedCurrentRound => allowed \subseteq AllyPositions,
         SealForPosition(slot, h, position), UNCHANGED roundYielded
  PROVE  Beside'
<1> DEFINE d == draft
<1> DEFINE a == Seal(d, slot, h)
<1> DEFINE more == ownPickPositions \cup {Bound(d, slot, position)}
<1>1. /\ AcceptsSealedSelection(d, slot, h) /\ IsSealedSelectionLegal(d, slot, h)
      /\ slot.side = LocalSide
      /\ position \in allowed /\ position \in Positions
      /\ \A b \in ownPickPositions : b.assignedPosition # position
  BY DEF AcceptsForPosition, AcceptsSealedSelection, OpenSlotsOf, FilledPositions
<1>2. d.round \in roundYielded => position \in Unfilled(ownPickPositions)
  BY <1>1 DEF HasYieldedCurrentRound, Unfilled
<1>3. Sound(d)
  BY DEF Beside
<1>4. /\ draft' = SubmitSealedSelection(d, slot, h)
      /\ ownPickPositions' = Prune(more, draft')
      /\ registrations' = registrations \cup {Registered(d, nextRegistrationOrdinal, slot, h)}
      /\ nextRegistrationOrdinal' = nextRegistrationOrdinal + 1
      /\ timer' = Confirmed(timer, d, slot)
  BY DEF SealForPosition, Bound, Register, Registered, ConfirmSeat, Confirmed
<1> HIDE DEF d, more
<1>5. Sound(draft')
  BY <1>1, <1>3, <1>4, SubmitIsSound
<1>6. Follows(more, a) /\ Follows(ownPickPositions', draft')
  <2>1. Follows(more, a)
    BY <1>1, <1>3, OwnSealFollows DEF Beside, d, more
  <2>2. QED BY <1>1, <1>3, <1>4, <2>1, SubmitFollows
<1>7. Ledger(registrations', nextRegistrationOrdinal', draft')
  <2>1. Ledger(registrations', nextRegistrationOrdinal', a)
    BY <1>1, <1>3, <1>4, SealLedger DEF Beside, d
  <2>2. QED BY <1>1, <1>3, <1>4, <2>1, SubmitLedger
<1>8. timer' \in Timers /\ Timed(timer', draft')
  <2>1. timer' \in Timers /\ Timed(timer', a)
    BY <1>1, <1>3, <1>4, SealTimed DEF Beside, d
  <2>2. QED BY <1>1, <1>3, <1>4, <2>1, SubmitTimed
<1>9. Absorbed(roundYielded', ownPickPositions', draft')
  <2>1. Absorbed(roundYielded, more, a)
    BY <1>1, <1>2, <1>3, OwnSealAbsorbed DEF Beside, d, more
  <2>2. QED BY <1>1, <1>3, <1>4, <1>6, <2>1, SubmitAbsorbed
<1>10. QED BY <1>5, <1>6, <1>7, <1>8, <1>9 DEF Beside

(* A selection of the enemy.                                               *)
LEMMA EnemyStep ==
  ASSUME Beside, NEW slot, NEW h \in Heroes, slot.side # LocalSide,
         AcceptsSealedSelection(draft, slot, h),
         SealForEnemy(slot, h), UNCHANGED roundYielded
  PROVE  Beside'
<1> DEFINE d == draft
<1> DEFINE a == Seal(d, slot, h)
<1>1. IsSealedSelectionLegal(d, slot, h) /\ AcceptsSealedSelection(d, slot, h) /\ Sound(d)
  BY DEF AcceptsSealedSelection, Beside
<1>2. /\ draft' = SubmitSealedSelection(d, slot, h)
      /\ ownPickPositions' = Prune(ownPickPositions, draft')
      /\ registrations' = registrations \cup {Registered(d, nextRegistrationOrdinal, slot, h)}
      /\ nextRegistrationOrdinal' = nextRegistrationOrdinal + 1
      /\ timer' = Confirmed(timer, d, slot)
  BY DEF SealForEnemy, Register, Registered, ConfirmSeat, Confirmed
<1> HIDE DEF d
<1>3. Sound(draft')
  BY <1>1, <1>2, SubmitIsSound
<1>4. Follows(ownPickPositions, a) /\ Follows(ownPickPositions', draft')
  <2>1. Follows(ownPickPositions, a)
    BY <1>1, EnemySealFollows DEF Beside, d
  <2>2. QED BY <1>1, <1>2, <2>1, SubmitFollows
<1>5. Ledger(registrations', nextRegistrationOrdinal', draft')
  <2>1. Ledger(registrations', nextRegistrationOrdinal', a)
    BY <1>1, <1>2, SealLedger DEF Beside, d
  <2>2. QED BY <1>1, <1>2, <2>1, SubmitLedger
<1>6. timer' \in Timers /\ Timed(timer', draft')
  <2>1. timer' \in Timers /\ Timed(timer', a)
    BY <1>1, <1>2, SealTimed DEF Beside, d
  <2>2. QED BY <1>1, <1>2, <2>1, SubmitTimed
<1>7. Absorbed(roundYielded', ownPickPositions', draft')
  <2>1. Absorbed(roundYielded, ownPickPositions, a)
    BY <1>1, EnemySealAbsorbed DEF Beside, d
  <2>2. QED BY <1>1, <1>2, <1>4, <2>1, SubmitAbsorbed
<1>8. QED BY <1>3, <1>4, <1>5, <1>6, <1>7 DEF Beside

(* An answer of the authority.                                             *)
LEMMA AuthorityStep ==
  ASSUME Beside, NEW winner, ResolveCollision(winner)
  PROVE  Beside'
<1> DEFINE h == draft.pendingCollision
<1> DEFINE d == NameWinner(draft, h, winner)
<1>1. /\ Sound(draft) /\ draft \in Drafts /\ h \in Heroes
      /\ AcceptsResolution(draft, h, winner) /\ winner \in SlotsOf(Entries(draft, h))
  BY DEF Beside, ResolveCollision, Sound, Drafts, AcceptsResolution
<1>2. Closed(d) /\ draft' = ResolveRound(d) /\ ownPickPositions' = Prune(ownPickPositions, draft')
  BY <1>1, NameWinnerCloses DEF ResolveCollision, ApplyAuthoritativeResolution
<1>3. /\ d.sealed = draft.sealed /\ d.confirmedPicks = draft.confirmedPicks
      /\ d.round = draft.round /\ d.phase = draft.phase /\ d.openSlots = draft.openSlots
      /\ d.collisionsResolved = draft.collisionsResolved
  BY <1>1 DEF NameWinner, Drafts
<1>4. UNCHANGED <<roundYielded, registrations, nextRegistrationOrdinal, timer>>
  BY DEF ResolveCollision
<1> HIDE DEF d
<1>5. OwnSeats(d) = OwnSeats(draft) /\ OwnOpen(d) = OwnOpen(draft)
  BY <1>3 DEF OwnSeats, OwnOpen
<1>6. Follows(ownPickPositions, d) /\ Absorbed(roundYielded, ownPickPositions, d)
  BY <1>3, <1>5 DEF Beside, Follows, Absorbed
<1>7. Ledger(registrations, nextRegistrationOrdinal, d)
  BY <1>3 DEF Beside, Ledger, Current
<1>8. Timed(timer, d)
  BY <1>3 DEF Beside, Timed
<1>9. Sound(draft') /\ Follows(ownPickPositions', draft')
  BY <1>2, <1>6, ResolveIsSound, ResolveFollows
<1>10. Ledger(registrations, nextRegistrationOrdinal, draft') /\ Timed(timer, draft')
  BY <1>2, <1>7, <1>8, ResolveLedger, ResolveTimed
<1>11. Absorbed(roundYielded, ownPickPositions', draft')
  BY <1>2, <1>6, ResolveAbsorbed
<1>12. QED BY <1>4, <1>9, <1>10, <1>11 DEF Beside

(* The bans open the first round of a session that holds nothing yet.      *)
LEMMA BansStep ==
  ASSUME Beside, NEW heroes \in SUBSET Heroes, ResolveBans(heroes)
  PROVE  Beside'
<1> DEFINE b == RecordResolvedBans(draft, heroes)
<1>1. /\ AcceptsResolvedBans(draft, heroes) /\ draft' = BanResolutionComplete(b)
      /\ UNCHANGED <<ownPickPositions, roundYielded, registrations, nextRegistrationOrdinal, timer>>
  BY DEF ResolveBans
<1>2. /\ Sound(draft) /\ draft \in Drafts /\ draft.phase = 0 /\ draft.round = 0
      /\ draft.sealed = {} /\ draft.confirmedPicks = {}
  BY <1>1, NoPicksYet, RoundsAssumption
     DEF Beside, Sound, Conserved, AcceptsResolvedBans, BAN_RESOLUTION, Rounds
<1>3. /\ Sound(b) /\ b \in Drafts /\ AcceptsBanResolutionComplete(b)
      /\ b.confirmedPicks = {}
  <2>1. Sound(b) /\ b \in Drafts
    BY <1>1, <1>2, RecordIsSound DEF Sound
  <2>2. /\ b.pendingCollision = draft.pendingCollision /\ b.phase = draft.phase
        /\ b.banResolutionComplete = draft.banResolutionComplete
        /\ b.confirmedPicks = draft.confirmedPicks
    BY <1>2 DEF RecordResolvedBans, Drafts
  <2>3. QED BY <1>1, <1>2, <2>1, <2>2 DEF AcceptsResolvedBans, AcceptsBanResolutionComplete
<1>4. Sound(draft')
  BY <1>1, <1>3, BansCompleteIsSound
<1>5. /\ draft'.phase = 1 /\ draft'.round = 1 /\ draft'.sealed = {} /\ draft'.confirmedPicks = {}
      /\ draft'.collisionsResolved = 0
  BY <1>1, <1>3, RoundsAssumption DEF BanResolutionComplete, EnterRound, Drafts, Rounds
<1>6. OwnSeats(draft) = {} /\ OwnSeats(draft') = {}
  BY <1>2, <1>5 DEF OwnSeats
<1>7. Follows(ownPickPositions, draft')
  BY <1>6 DEF Beside, Follows
<1>8. registrations = {}
  BY <1>2, RoundsAssumption DEF Beside, Ledger, Registrations, Rounds
<1>9. Ledger(registrations, nextRegistrationOrdinal, draft')
  BY <1>5, <1>8 DEF Beside, Ledger
<1>10. timer.seats \ timer.confirmed = {}
  <2>1. \A seat \in timer.seats : seat \in SeatRecords
    BY DEF Beside, Timers
  <2>2. \A seat \in timer.seats : seat.round # 0
    BY <2>1, RoundsAssumption DEF SeatRecords, Rounds
  <2>3. QED BY <1>2, <2>2 DEF Beside, Timed
<1>11. Timed(timer, draft')
  BY <1>10 DEF Timed
<1>12. roundYielded = {}
  BY <1>2, RoundsAssumption DEF Beside, Absorbed, Rounds
<1>13. Absorbed(roundYielded, ownPickPositions, draft')
  BY <1>12 DEF Absorbed
<1>14. QED BY <1>1, <1>4, <1>7, <1>9, <1>11, <1>13 DEF Beside

(* A yield is accepted when the Ally Bot can absorb it.                    *)
LEMMA YieldStep ==
  ASSUME Beside, YieldRound
  PROVE  Beside'
<1>1. CanYield /\ roundYielded' = roundYielded \cup {draft.round}
  BY DEF YieldRound
<1>2. /\ UNCHANGED <<draft, ownPickPositions, registrations, nextRegistrationOrdinal, timer>>
  BY DEF YieldRound
<1>3. draft.round \in Rounds /\ draft.round <= draft.phase
  BY <1>1, RoundsAssumption DEF CanYield, Beside, Sound, Conserved, Drafts, Rounds
<1>4. Cardinality(Unfilled(ownPickPositions)) >= Cardinality(OwnOpen(draft))
  BY <1>1 DEF CanYield, UnfilledAllyPositions, FilledPositions, Unfilled, OpenSlotsOf, OwnOpen
<1>5. Absorbed(roundYielded', ownPickPositions, draft)
  BY <1>1, <1>3, <1>4 DEF Beside, Absorbed
<1>6. QED BY <1>2, <1>5 DEF Beside

(* The timer is started on own slots open in the round.                    *)
LEMMA TimerStep ==
  ASSUME Beside, HandToHuman
  PROVE  Beside'
<1>1. PICK S \in SUBSET {Seat(draft.round, s.slotIndex) : s \in OpenSlotsOf(LocalSide)} :
        timer' = [round |-> draft.round, attempt |-> draft.collisionsResolved,
                  seats |-> S, confirmed |-> {}]
  <2> DEFINE first == {s \in OpenSlotsOf(LocalSide) :
        Cardinality({t \in OpenSlotsOf(LocalSide) : t.slotIndex < s.slotIndex}) < RoundCapacity}
  <2>1. timer' = [round |-> draft.round, attempt |-> draft.collisionsResolved,
                  seats |-> {Seat(draft.round, s.slotIndex) : s \in first}, confirmed |-> {}]
    BY DEF HandToHuman
  <2>2. first \subseteq OpenSlotsOf(LocalSide)
    OBVIOUS
  <2> HIDE DEF first
  <2>3. {Seat(draft.round, s.slotIndex) : s \in first}
          \in SUBSET {Seat(draft.round, s.slotIndex) : s \in OpenSlotsOf(LocalSide)}
    BY <2>2
  <2>4. QED BY <2>1, <2>3
<1>2. UNCHANGED <<draft, ownPickPositions, roundYielded, registrations, nextRegistrationOrdinal>>
  BY DEF HandToHuman
<1>3. /\ draft.round \in Rounds /\ draft.round \in 0..NumRounds /\ draft.collisionsResolved \in Nat
      /\ draft.openSlots \subseteq [side : Sides, slotIndex : Nat]
  <2>1. draft.openSlots # {}
    BY DEF HandToHuman, WaitsForHuman, OpenSlotsOf
  <2>2. QED BY <2>1, RoundsAssumption DEF Beside, Sound, Conserved, Drafts, Rounds
<1>4. \A seat \in S :
        /\ seat \in SeatRecords /\ seat.round = draft.round
        /\ [side |-> LocalSide, slotIndex |-> seat.slotIndex] \in draft.openSlots
  <2>1. ASSUME NEW s \in OpenSlotsOf(LocalSide), NEW seat, seat = Seat(draft.round, s.slotIndex)
        PROVE  /\ seat \in SeatRecords /\ seat.round = draft.round
               /\ [side |-> LocalSide, slotIndex |-> seat.slotIndex] \in draft.openSlots
    <3>1. s \in draft.openSlots /\ s = [side |-> LocalSide, slotIndex |-> s.slotIndex] /\ s.slotIndex \in Nat
      BY <1>3 DEF OpenSlotsOf
    <3>2. seat = [round |-> draft.round, slotIndex |-> s.slotIndex]
      BY <2>1 DEF Seat
    <3>3. QED BY <1>3, <3>1, <3>2 DEF SeatRecords
  <2>2. QED BY <1>1, <2>1
<1>5. timer' \in Timers
  BY <1>1, <1>3, <1>4 DEF Timers
<1>6. Timed(timer', draft)
  BY <1>1, <1>4 DEF Timed
<1>7. QED BY <1>2, <1>5, <1>6 DEF Beside

----------------------------------------------------------------------------
(* The requests in flight                                                  *)

LEMMA EnemyIsOther == EnemySide \in Sides /\ EnemySide # LocalSide
BY PartyAssumption DEF EnemySide, Sides

(* A side with an open slot has a first one.                               *)
LEMMA FirstOpenIsOpen ==
  ASSUME draft \in Drafts, NEW side, OpenSlotsOf(side) # {}
  PROVE  FirstOpenSlot(side) \in OpenSlotsOf(side)
<1> DEFINE I == {s.slotIndex : s \in OpenSlotsOf(side)}
<1>1. OpenSlotsOf(side) \subseteq [side : Sides, slotIndex : Nat]
  BY DEF OpenSlotsOf, Drafts
<1>2. I \in SUBSET Nat /\ I # {}
  BY <1>1
<1>3. PICK i \in I : \A j \in I : i <= j
  BY <1>2, LeastNatural
<1>4. \E s \in OpenSlotsOf(side) : \A t \in OpenSlotsOf(side) : s.slotIndex <= t.slotIndex
  BY <1>3
<1>5. QED BY <1>4 DEF FirstOpenSlot

(* The Ally Bot's next position is one of its own, and unfilled.           *)
LEMMA NextAllyIsUnfilled ==
  ASSUME UnfilledAllyPositions # {}
  PROVE  NextAllyPosition \in UnfilledAllyPositions
<1> DEFINE I == {i \in DOMAIN AllyOrder : AllyOrder[i] \in UnfilledAllyPositions}
<1>1. IsFiniteSet(AllyPositions)
  BY PartyAssumption, FS_Subset DEF Positions
<1>2. DOMAIN AllyOrder \subseteq Nat
  BY <1>1, PartyAssumption, FS_CardinalityType
<1>3. I \in SUBSET Nat /\ I # {}
  BY <1>2 DEF UnfilledAllyPositions, AllyPositions
<1>4. PICK i \in I : \A j \in I : i <= j
  BY <1>3, LeastNatural
<1>5. \E x \in DOMAIN AllyOrder :
        /\ AllyOrder[x] \in UnfilledAllyPositions
        /\ \A j \in DOMAIN AllyOrder : AllyOrder[j] \in UnfilledAllyPositions => x <= j
  BY <1>4
<1>6. QED BY <1>5 DEF NextAllyPosition

(* What a driver decides: a hero for an open slot and, of the own side, a  *)
(* position of the Ally Bot that is unfilled.                              *)
LEMMA DecideStep ==
  ASSUME Inv, NEW driver \in Drivers, NEW h \in Heroes,
         EnemyDecides(driver, h) \/ AllyDecides(driver, h)
  PROVE  /\ Inv'
         /\ UNCHANGED <<draft, ownPickPositions, roundYielded, registrations,
                        nextRegistrationOrdinal, timer>>
         /\ decisions[driver] = Undecided
         /\ \A other \in Drivers \ {driver} : decisions'[other] = decisions[other]
         /\ IsSealedSelectionLegal(draft, SlotOf(decisions'[driver]), h)
         /\ decisions'[driver].heroId = h
         /\ decisions'[driver].side = LocalSide =>
              DrivesAlly /\ decisions'[driver].position \in UnfilledAllyPositions
<1>1. draft \in Drafts /\ draft.openSlots \subseteq [side : Sides, slotIndex : Nat]
  BY DEF Inv, Beside, Sound, Drafts
<1>2. PICK slot \in draft.openSlots, position \in Positions \cup {0} :
        /\ Decides(driver, slot, h, position)
        /\ slot.side = LocalSide => DrivesAlly /\ position \in UnfilledAllyPositions
  <2>1. CASE EnemyDecides(driver, h)
    BY <1>1, <2>1, EnemyIsOther, FirstOpenIsOpen DEF EnemyDecides, DrivesEnemy, OpenSlotsOf
  <2>2. CASE AllyDecides(driver, h)
    <3>1. /\ FirstOpenSlot(LocalSide) \in draft.openSlots
          /\ NextAllyPosition \in UnfilledAllyPositions
      BY <1>1, <2>2, FirstOpenIsOpen, NextAllyIsUnfilled DEF AllyDecides, DrivesAlly, OpenSlotsOf
    <3>2. NextAllyPosition \in Positions \cup {0}
      BY <3>1 DEF UnfilledAllyPositions, Positions
    <3>3. QED BY <2>2, <3>1, <3>2 DEF AllyDecides
  <2>3. QED BY <2>1, <2>2
<1> DEFINE new == [side |-> slot.side, slotIndex |-> slot.slotIndex, heroId |-> h, position |-> position]
<1>3. /\ decisions[driver] = Undecided /\ IsSealedSelectionLegal(draft, slot, h)
      /\ decisions' = [decisions EXCEPT ![driver] = new]
      /\ UNCHANGED <<draft, ownPickPositions, roundYielded, registrations,
                     nextRegistrationOrdinal, timer>>
  BY <1>2 DEF Decides
<1>4. new \in Decisions /\ new.heroId \in Heroes /\ SlotOf(new) = slot
  BY <1>1 DEF Decisions, SlotOf
<1>5. Decided'
  BY <1>3, <1>4 DEF Inv, Decided
<1>6. decisions'[driver] = new /\ \A other \in Drivers \ {driver} : decisions'[other] = decisions[other]
  BY <1>3 DEF Inv, Decided
<1>7. Beside'
  BY <1>3 DEF Inv, Beside
<1>8. QED BY <1>2, <1>3, <1>4, <1>5, <1>6, <1>7 DEF Inv

(* Back from the await, the decision is sealed or dropped.                 *)
LEMMA ApplyStep ==
  ASSUME Inv, NEW driver \in Drivers, Applies(driver)
  PROVE  /\ Inv'
         /\ decisions'[driver] = Undecided
         /\ \A other \in Drivers \ {driver} : decisions'[other] = decisions[other]
<1> DEFINE c == decisions[driver]
<1>1. /\ c # Undecided /\ UNCHANGED roundYielded
      /\ decisions' = [decisions EXCEPT ![driver] = Undecided]
      /\ \/ /\ DecisionAccepted(c)
            /\ IF c.side = LocalSide THEN SealForPosition(SlotOf(c), c.heroId, c.position)
               ELSE SealForEnemy(SlotOf(c), c.heroId)
         \/ UNCHANGED <<draft, ownPickPositions, registrations, nextRegistrationOrdinal, timer>>
  BY DEF Applies
<1>2. c \in Decisions /\ c.heroId \in Heroes
  BY <1>1 DEF Inv, Decided
<1>3. Undecided \in Decisions
  BY PartyAssumption DEF Undecided, Decisions
<1>4. /\ Decided' /\ decisions'[driver] = Undecided
      /\ \A other \in Drivers \ {driver} : decisions'[other] = decisions[other]
  BY <1>1, <1>3 DEF Inv, Decided
<1> HIDE DEF c
<1>5. CASE DecisionAccepted(c) /\ c.side = LocalSide
  <2>1. AcceptsForPosition(SlotOf(c), c.heroId, c.position, AllyPositions)
    BY <1>5 DEF DecisionAccepted
  <2>2. SealForPosition(SlotOf(c), c.heroId, c.position)
        \/ UNCHANGED <<draft, ownPickPositions, registrations, nextRegistrationOrdinal, timer>>
    BY <1>1, <1>5
  <2>3. AllyPositions \in SUBSET Positions
    BY DEF Positions
  <2>4. CASE SealForPosition(SlotOf(c), c.heroId, c.position)
    <3>1. Beside'
      BY <1>1, <1>2, <2>1, <2>3, <2>4, OwnStep DEF Inv
    <3>2. QED BY <1>4, <3>1 DEF Inv
  <2>5. CASE UNCHANGED <<draft, ownPickPositions, registrations, nextRegistrationOrdinal, timer>>
    <3>1. Beside'
      BY <1>1, <2>5 DEF Inv, Beside
    <3>2. QED BY <1>4, <3>1 DEF Inv
  <2>6. QED BY <2>2, <2>4, <2>5
<1>6. CASE DecisionAccepted(c) /\ c.side # LocalSide
  <2>1. AcceptsSealedSelection(draft, SlotOf(c), c.heroId) /\ SlotOf(c).side # LocalSide
    BY <1>6 DEF DecisionAccepted, SlotOf
  <2>2. SealForEnemy(SlotOf(c), c.heroId)
        \/ UNCHANGED <<draft, ownPickPositions, registrations, nextRegistrationOrdinal, timer>>
    BY <1>1, <1>6
  <2>3. CASE SealForEnemy(SlotOf(c), c.heroId)
    <3>1. Beside'
      BY <1>1, <1>2, <2>1, <2>3, EnemyStep DEF Inv
    <3>2. QED BY <1>4, <3>1 DEF Inv
  <2>4. CASE UNCHANGED <<draft, ownPickPositions, registrations, nextRegistrationOrdinal, timer>>
    <3>1. Beside'
      BY <1>1, <2>4 DEF Inv, Beside
    <3>2. QED BY <1>4, <3>1 DEF Inv
  <2>5. QED BY <2>2, <2>3, <2>4
<1>7. CASE ~DecisionAccepted(c)
  <2>1. Beside'
    BY <1>1, <1>7 DEF Inv, Beside
  <2>2. QED BY <1>4, <2>1 DEF Inv
<1>8. QED BY <1>5, <1>6, <1>7

----------------------------------------------------------------------------
(* Invariance                                                              *)

LEMMA InitHolds == Init => Inv
<1> SUFFICES ASSUME Init PROVE Inv
  OBVIOUS
<1>1. Sound(draft)
  BY NewIsSound DEF Init
<1>2. OwnSeats(draft) = {}
  BY DEF Init, NewDraft, OwnSeats
<1>3. Follows(ownPickPositions, draft)
  BY <1>2 DEF Init, Follows
<1>4. Ledger(registrations, nextRegistrationOrdinal, draft)
  BY DEF Init, NewDraft, Ledger
<1>5. timer \in Timers /\ Timed(timer, draft)
  BY RoundsAssumption DEF Init, NoTimer, Timers, Timed
<1>6. Absorbed(roundYielded, ownPickPositions, draft)
  BY DEF Init, Absorbed
<1>7. Decided
  BY PartyAssumption DEF Init, Undecided, Decided, Decisions
<1>8. QED BY <1>1, <1>3, <1>4, <1>5, <1>6, <1>7 DEF Inv, Beside

LEMMA NextKeepsInv == Inv /\ [Next]_vars => Inv'
<1> SUFFICES ASSUME Inv, [Next]_vars PROVE Inv'
  OBVIOUS
<1>1. Beside /\ Decided
  BY DEF Inv
<1>2. ASSUME NEW heroes \in SUBSET Heroes, ResolveBans(heroes) PROVE Inv'
  BY <1>1, <1>2, BansStep DEF ResolveBans, Inv, Decided
<1>3. ASSUME NEW slot \in AllSlots, NEW h \in Heroes, NEW position \in ControlledPositions,
             HumanSubmits(slot, h, position)
      PROVE  Inv'
  <2>1. /\ ~HasYieldedCurrentRound /\ AcceptsForPosition(slot, h, position, ControlledPositions)
        /\ SealForPosition(slot, h, position) /\ UNCHANGED <<roundYielded, decisions>>
    BY <1>3 DEF HumanSubmits
  <2>2. ControlledPositions \in SUBSET Positions
    BY DEF Positions
  <2>3. Beside'
    BY <1>1, <2>1, <2>2, OwnStep
  <2>4. QED BY <1>1, <2>1, <2>3 DEF Inv, Decided
<1>4. CASE YieldRound
  BY <1>1, <1>4, YieldStep DEF YieldRound, Inv, Decided
<1>5. ASSUME NEW winner \in AllSlots, ResolveCollision(winner) PROVE Inv'
  BY <1>1, <1>5, AuthorityStep DEF ResolveCollision, Inv, Decided
<1>6. ASSUME NEW driver \in Drivers, NEW h \in Heroes,
             EnemyDecides(driver, h) \/ AllyDecides(driver, h)
      PROVE  Inv'
  BY <1>6, DecideStep
<1>7. ASSUME NEW driver \in Drivers, Applies(driver) PROVE Inv'
  BY <1>7, ApplyStep
<1>8. CASE HandToHuman
  BY <1>1, <1>8, TimerStep DEF HandToHuman, Inv, Decided
<1>9. CASE UNCHANGED vars
  BY <1>9 DEF vars, Inv, Beside, Decided
<1>10. QED BY <1>2, <1>3, <1>4, <1>5, <1>6, <1>7, <1>8, <1>9 DEF Next

(* Every session reachable is one the invariant describes.                 *)
THEOREM InvAlways == Spec => []Inv
<1>1. QED BY InitHolds, NextKeepsInv, PTL DEF Spec

(* The session stays within its declared shape.                            *)
THEOREM SessionTypeCorrect == Spec => []TypeOK
<1>1. Inv => TypeOK
  BY DEF Inv, Beside, Decided, Sound, Follows, Ledger, Absorbed, Timers, Decisions, TypeOK
<1>2. QED BY <1>1, InvAlways, PTL

(* The bindings are the own selections the kernel holds, one position      *)
(* each, whichever party sealed them and whatever was reopened.            *)
THEOREM PositionsFollow == Spec => []PositionsFollowPicks
<1>1. Inv => PositionsFollowPicks
  BY DEF Inv, Beside, Follows, OwnSeats, OwnSeatsTaken, PositionsFollowPicks
<1>2. QED BY <1>1, InvAlways, PTL

(* No seat loses gold that can no longer be filled.                        *)
THEOREM PendingSeatsOpen == Spec => []PendingSeatsAreOpen
<1>1. Inv => PendingSeatsAreOpen
  BY DEF Inv, Beside, Timed, OpenSlotsOf, PendingSeatsAreOpen
<1>2. QED BY <1>1, InvAlways, PTL

(* Only a collision can leave a yielded round with own slots nobody may    *)
(* fill.                                                                   *)
THEOREM StrandedByCollision == Spec => []StrandedOnlyByCollision
<1>1. Inv => StrandedOnlyByCollision
  <2> SUFFICES ASSUME Inv, Stranded PROVE draft.collisionsResolved > 0
    BY DEF StrandedOnlyByCollision
  <2>1. Sound(draft) /\ Absorbed(roundYielded, ownPickPositions, draft)
    BY DEF Inv, Beside
  <2>2. /\ OwnOpen(draft) # {} /\ draft.round \in roundYielded
        /\ Unfilled(ownPickPositions) = {}
    BY DEF Stranded, OpenSlotsOf, OwnOpen, HasYieldedCurrentRound, UnfilledAllyPositions,
           FilledPositions, Unfilled
  <2>3. draft \in Drafts /\ Conserved(draft) /\ draft.round \in Rounds
    BY <2>1, <2>2 DEF Sound, Absorbed
  <2>4. Cardinality(Unfilled(ownPickPositions)) = 0 /\ Cardinality(OwnOpen(draft)) \in Nat \ {0}
    BY <2>2, <2>3, FiniteParts, FS_EmptySet
  <2>5. draft.collisionsResolved # 0
    BY <2>1, <2>2, <2>4 DEF Absorbed
  <2>6. QED BY <2>3, <2>5 DEF Drafts
<1>2. QED BY <1>1, InvAlways, PTL

(* The authority never fails closed: the ledger tells which contender of a *)
(* pending collision was registered first.                                 *)
THEOREM AuthorityDecides == Spec => []AuthorityCanDecide
<1>1. Inv => AuthorityCanDecide
  <2> SUFFICES ASSUME Inv, draft.pendingCollision # NoHero
               PROVE  \E winner \in Contenders : FirstRegistered(winner)
    BY DEF AuthorityCanDecide
  <2> DEFINE h == draft.pendingCollision
  <2> DEFINE mine == {r \in registrations : Current(r, draft) /\ r.heroId = h}
  <2>1. /\ Sound(draft) /\ Ledger(registrations, nextRegistrationOrdinal, draft)
        /\ draft.sealed \subseteq SealedSelections
    BY DEF Inv, Beside, Sound, Drafts
  <2>2. \A slot : RegistrationsFor(slot) = {r \in mine : SlotOf(r) = slot}
    BY DEF RegistrationsFor, Current
  <2>3. \A slot \in Contenders : \E r \in mine : RegistrationsFor(slot) = {r}
    <3> SUFFICES ASSUME NEW slot \in Contenders
                 PROVE  \E r \in mine : RegistrationsFor(slot) = {r}
      OBVIOUS
    <3>1. PICK e \in draft.sealed : e.heroId = h /\ SlotOf(e) = slot
      BY DEF Contenders, SlotsOf, Entries
    <3>2. PICK r \in registrations : Current(r, draft) /\ SlotOf(r) = slot /\ r.heroId = h
      BY <2>1, <3>1 DEF Ledger
    <3>3. \A s \in RegistrationsFor(slot) : s = r
      BY <2>1, <2>2, <3>2 DEF Ledger
    <3>4. QED BY <2>2, <3>2, <3>3
  <2>4. mine # {} /\ mine \subseteq registrations
    <3>1. Contenders # {}
      BY <2>1 DEF Sound, WaitsRightly, Contenders, SlotsOf, Sides
    <3>2. QED BY <2>3, <3>1
  <2>5. PICK r \in mine : \A s \in mine : r.ordinal <= s.ordinal
    <3>1. {s.ordinal : s \in mine} \in SUBSET Nat /\ {s.ordinal : s \in mine} # {}
      BY <2>1, <2>4 DEF Ledger, Registrations
    <3>2. PICK n \in {s.ordinal : s \in mine} : \A m \in {s.ordinal : s \in mine} : n <= m
      BY <3>1, LeastNatural
    <3>3. QED BY <3>2
  <2>6. SlotOf(r) \in Contenders
    <3>1. PICK e \in draft.sealed : SlotOf(e) = SlotOf(r) /\ e.heroId = r.heroId
      BY <2>1, <2>4 DEF Ledger
    <3>2. QED BY <3>1 DEF Contenders, SlotsOf, Entries
  <2>7. \A slot \in Contenders : Cardinality(RegistrationsFor(slot)) = 1
    BY <2>3, FS_Singleton
  <2>8. ASSUME NEW slot \in Contenders \ {SlotOf(r)},
               NEW x \in RegistrationsFor(SlotOf(r)), NEW s \in RegistrationsFor(slot)
        PROVE  x.ordinal < s.ordinal
    <3>1. x = r
      BY <2>2, <2>3, <2>6
    <3>2. s \in mine /\ s # r
      BY <2>2, <2>8
    <3>3. r.ordinal <= s.ordinal /\ r.ordinal # s.ordinal
      BY <2>1, <2>4, <2>5, <3>2 DEF Ledger
    <3>4. r.ordinal \in Nat /\ s.ordinal \in Nat
      BY <2>1, <2>4, <3>2 DEF Ledger, Registrations
    <3>5. QED BY <3>1, <3>3, <3>4
  <2>9. FirstRegistered(SlotOf(r))
    BY <2>7, <2>8 DEF FirstRegistered
  <2>10. QED BY <2>6, <2>9
<1>2. QED BY <1>1, InvAlways, PTL

----------------------------------------------------------------------------
(* The session keeps the promise of DraftPromise                           *)

LEMMA SessionSettles ==
  ASSUME Inv, [Next]_vars
  PROVE  SettlesOrKeeps(draft, draft')
<1>1. Sound(draft) /\ draft \in Drafts
  BY DEF Inv, Beside, Sound
<1>2. ASSUME NEW heroes \in SUBSET Heroes, ResolveBans(heroes)
      PROVE  SettlesOrKeeps(draft, draft')
  <2> DEFINE b == RecordResolvedBans(draft, heroes)
  <2>1. AcceptsResolvedBans(draft, heroes) /\ draft' = BanResolutionComplete(b)
    BY <1>2 DEF ResolveBans
  <2>2. Settles(draft, b) /\ b \in Drafts
    BY <1>1, <2>1, RecordSettles, RecordIsSound DEF Sound
  <2>3. draft'.bannedHeroes = b.bannedHeroes /\ draft'.confirmedPicks = b.confirmedPicks
    BY <2>1, <2>2, BansCompleteKeeps
  <2> HIDE DEF b
  <2>4. QED BY <2>2, <2>3 DEF Settles, SettlesOrKeeps
<1>3. ASSUME NEW slot, NEW h \in Heroes, AcceptsSealedSelection(draft, slot, h),
             draft' = SubmitSealedSelection(draft, slot, h)
      PROVE  SettlesOrKeeps(draft, draft')
  BY <1>1, <1>3, SubmitSettles
<1>4. ASSUME NEW slot \in AllSlots, NEW h \in Heroes, NEW position \in ControlledPositions,
             HumanSubmits(slot, h, position)
      PROVE  SettlesOrKeeps(draft, draft')
  BY <1>3, <1>4 DEF HumanSubmits, AcceptsForPosition, SealForPosition
<1>5. ASSUME NEW driver \in Drivers, Applies(driver)
      PROVE  SettlesOrKeeps(draft, draft')
  <2> DEFINE c == decisions[driver]
  <2>1. c.heroId \in Heroes
    BY <1>5 DEF Applies, Inv, Decided
  <2>2. \/ draft' = draft
        \/ /\ AcceptsSealedSelection(draft, SlotOf(c), c.heroId)
           /\ draft' = SubmitSealedSelection(draft, SlotOf(c), c.heroId)
    BY <1>5 DEF Applies, DecisionAccepted, AcceptsForPosition, SealForPosition, SealForEnemy
  <2> HIDE DEF c
  <2>3. QED BY <1>3, <2>1, <2>2 DEF SettlesOrKeeps
<1>6. ASSUME NEW winner \in AllSlots, ResolveCollision(winner)
      PROVE  SettlesOrKeeps(draft, draft')
  <2>1. draft.pendingCollision \in Heroes
    BY <1>1, <1>6 DEF ResolveCollision, Drafts
  <2>2. QED BY <1>1, <1>6, <2>1, ArbitrateSettles DEF ResolveCollision
<1>7. CASE UNCHANGED draft
  BY <1>7 DEF SettlesOrKeeps
<1>8. ASSUME NEW driver \in Drivers, NEW h \in Heroes,
             EnemyDecides(driver, h) \/ AllyDecides(driver, h)
      PROVE  UNCHANGED draft
  BY <1>8 DEF EnemyDecides, AllyDecides, Decides
<1>9. QED BY <1>2, <1>4, <1>5, <1>6, <1>7, <1>8 DEF Next, vars, YieldRound, HandToHuman

(* Whatever the routes and the bots do, a ban or a pick is final, a hero   *)
(* leaves the pool once, and seats are given out round by round.           *)
THEOREM SessionKeepsPromise == Spec => KeepsPromise
<1>1. Init => Promise!Init
  BY DEF Init, Promise!Init, NewDraft
<1>2. Inv /\ [Next]_vars => [Promise!Settle]_Promise!vars
  <2> SUFFICES ASSUME Inv, [Next]_vars PROVE [Promise!Settle]_Promise!vars
    OBVIOUS
  <2>1. CASE Settles(draft, draft')
    BY <2>1 DEF Settles, SeatOf, Promise!Settle, Promise!Taken, Promise!Filled, Promise!SeatOf
  <2>2. CASE /\ draft'.bannedHeroes = draft.bannedHeroes
             /\ draft'.confirmedPicks = draft.confirmedPicks
    BY <2>2 DEF Promise!vars
  <2>3. QED BY <2>1, <2>2, SessionSettles DEF SettlesOrKeeps
<1>3. QED BY <1>1, <1>2, InvAlways, PTL DEF Spec, KeepsPromise, Promise!Spec

----------------------------------------------------------------------------
(* One request at a time never comes back too late                         *)

(* A decision in flight is legal for the draft in play; of the own side,   *)
(* its position is unfilled and the Player may not submit.                 *)
StillGood(driver) ==
  decisions[driver] # Undecided =>
    /\ IsSealedSelectionLegal(draft, SlotOf(decisions[driver]), decisions[driver].heroId)
    /\ decisions[driver].side = LocalSide =>
         /\ decisions[driver].position \in UnfilledAllyPositions
         /\ HumanOpenPositions = {} \/ HasYieldedCurrentRound

(* What a side may still seal, it may after the other side has sealed.     *)
LEMMA SealKeepsLegal ==
  ASSUME NEW d, Sound(d), NEW slot, NEW h \in Heroes, IsSealedSelectionLegal(d, slot, h),
         NEW other, NEW g, IsSealedSelectionLegal(d, other, g), other.side # slot.side
  PROVE  /\ ~ClosesBatch(d, slot)
         /\ IsSealedSelectionLegal(Seal(d, slot, h), other, g)
<1> DEFINE a == Seal(d, slot, h)
<1>1. slot \in [side : Sides, slotIndex : Nat]
  BY SealKeepsParts
<1>2. /\ a.openSlots = d.openSlots \ {slot} /\ a.round = d.round
      /\ a.sealed = d.sealed \cup {Entry(slot, h)} /\ Entry(slot, h).side = slot.side
      /\ a.bannedHeroes = d.bannedHeroes /\ a.confirmedPicks = d.confirmedPicks
  BY <1>1, SealFields
<1> HIDE DEF a
<1>3. other \in d.openSlots /\ other # slot
  BY DEF IsSealedSelectionLegal
<1>4. ~ClosesBatch(d, slot)
  BY <1>3 DEF ClosesBatch
<1>5. IsSealedSelectionLegal(a, other, g)
  BY <1>2, <1>3 DEF IsSealedSelectionLegal, HeroAlreadyTaken
<1>6. QED BY <1>4, <1>5 DEF a

(* A decision that is still good is accepted.                              *)
LEMMA GoodIsAccepted ==
  ASSUME Inv, NEW driver \in Drivers, StillGood(driver), decisions[driver] # Undecided
  PROVE  DecisionAccepted(decisions[driver])
<1> DEFINE c == decisions[driver]
<1>1. /\ IsSealedSelectionLegal(draft, SlotOf(c), c.heroId) /\ c.heroId \in Heroes
      /\ c.side = LocalSide => c.position \in UnfilledAllyPositions
  BY DEF StillGood, Inv, Decided
<1>2. Sound(draft)
  BY DEF Inv, Beside
<1> HIDE DEF c
<1>3. SlotOf(c) \in draft.openSlots /\ SlotOf(c).side = c.side
  BY <1>1 DEF IsSealedSelectionLegal, SlotOf
<1>4. AcceptsSealedSelection(draft, SlotOf(c), c.heroId)
  BY <1>1, <1>2, SealKeepsParts, SealCloses, ClosedResolves DEF AcceptsSealedSelection
<1>5. DecisionAccepted(c)
  BY <1>1, <1>3, <1>4
     DEF DecisionAccepted, AcceptsForPosition, OpenSlotsOf, UnfilledAllyPositions
<1>6. QED BY <1>5 DEF c

LEMMA NextKeepsGood ==
  ASSUME NEW driver, Drivers = {driver}, Inv, StillGood(driver), [Next]_vars
  PROVE  StillGood(driver)'
<1> DEFINE c == decisions[driver]
<1>1. /\ Sound(draft) /\ draft \in Drafts /\ driver \in Drivers
      /\ c # Undecided =>
           c.heroId \in Heroes /\ draft.round # 0 /\ SlotOf(c) \in draft.openSlots
  BY DEF Inv, Beside, Sound, Decided, StillGood, IsSealedSelectionLegal
<1>2. ASSUME NEW heroes \in SUBSET Heroes, ResolveBans(heroes) PROVE StillGood(driver)'
  <2>1. draft.phase = 0 /\ draft.round = 0 /\ decisions' = decisions
    BY <1>1, <1>2, RoundsAssumption
       DEF ResolveBans, AcceptsResolvedBans, BAN_RESOLUTION, Sound, Conserved, Rounds
  <2>2. QED BY <1>1, <2>1 DEF StillGood
<1>3. ASSUME NEW slot \in AllSlots, NEW h \in Heroes, NEW position \in ControlledPositions,
             HumanSubmits(slot, h, position)
      PROVE  StillGood(driver)'
  <2>1. /\ ~HasYieldedCurrentRound /\ slot.side = LocalSide
        /\ position \in ControlledPositions \ FilledPositions
        /\ AcceptsSealedSelection(draft, slot, h)
        /\ draft' = SubmitSealedSelection(draft, slot, h) /\ decisions' = decisions
    BY <1>3 DEF HumanSubmits, AcceptsForPosition, SealForPosition, OpenSlotsOf
  <2>2. HumanOpenPositions # {}
    BY <2>1 DEF HumanOpenPositions
  <2>3. CASE c = Undecided
    BY <2>1, <2>3 DEF StillGood
  <2>4. CASE c # Undecided
    <3>1. IsSealedSelectionLegal(draft, SlotOf(c), c.heroId) /\ c.side # LocalSide
      BY <2>1, <2>2, <2>4 DEF StillGood
    <3>2. IsSealedSelectionLegal(draft, slot, h) /\ SlotOf(c).side # slot.side
      BY <2>1, <3>1 DEF AcceptsSealedSelection, SlotOf
    <3>3. ~ClosesBatch(draft, slot) /\ IsSealedSelectionLegal(Seal(draft, slot, h), SlotOf(c), c.heroId)
      BY <1>1, <3>1, <3>2, SealKeepsLegal
    <3>4. IsSealedSelectionLegal(draft', SlotOf(c), c.heroId)
      BY <2>1, <3>3 DEF SubmitSealedSelection
    <3>5. QED BY <2>1, <3>1, <3>4 DEF StillGood
  <2>5. QED BY <2>3, <2>4
<1>4. CASE YieldRound
  BY <1>4 DEF YieldRound, StillGood, UnfilledAllyPositions, HumanOpenPositions, FilledPositions,
              HasYieldedCurrentRound
<1>5. ASSUME NEW winner \in AllSlots, ResolveCollision(winner) PROVE StillGood(driver)'
  <2>1. draft.openSlots = {} /\ decisions' = decisions
    BY <1>1, <1>5 DEF ResolveCollision, Sound, WaitsRightly
  <2>2. QED BY <1>1, <2>1 DEF StillGood
<1>6. ASSUME NEW other \in Drivers, NEW h \in Heroes,
             EnemyDecides(other, h) \/ AllyDecides(other, h)
      PROVE  StillGood(driver)'
  <2>1. other = driver
    OBVIOUS
  <2>2. /\ UNCHANGED <<draft, ownPickPositions, roundYielded>>
        /\ IsSealedSelectionLegal(draft, SlotOf(decisions'[driver]), h)
        /\ decisions'[driver].heroId = h
        /\ decisions'[driver].side = LocalSide =>
             DrivesAlly /\ decisions'[driver].position \in UnfilledAllyPositions
    BY <1>6, <2>1, DecideStep
  <2>3. UnfilledAllyPositions' = UnfilledAllyPositions /\ HumanOpenPositions' = HumanOpenPositions
        /\ HasYieldedCurrentRound' = HasYieldedCurrentRound
    BY <2>2 DEF UnfilledAllyPositions, HumanOpenPositions, FilledPositions, HasYieldedCurrentRound
  <2>4. QED BY <2>2, <2>3 DEF StillGood, DrivesAlly
<1>7. ASSUME NEW other \in Drivers, Applies(other) PROVE StillGood(driver)'
  <2>1. decisions'[driver] = Undecided
    BY <1>7, ApplyStep
  <2>2. QED BY <2>1 DEF StillGood
<1>8. CASE HandToHuman
  BY <1>8 DEF HandToHuman, StillGood, UnfilledAllyPositions, HumanOpenPositions, FilledPositions,
              HasYieldedCurrentRound
<1>9. CASE UNCHANGED vars
  BY <1>9 DEF vars, StillGood, UnfilledAllyPositions, HumanOpenPositions, FilledPositions,
              HasYieldedCurrentRound
<1>10. QED BY <1>2, <1>3, <1>4, <1>5, <1>6, <1>7, <1>8, <1>9 DEF Next

(* With one auto-drive request at a time, what a bot decided before its    *)
(* await is accepted after it, whatever the Player did meanwhile.          *)
THEOREM OneDriverStaysGood ==
  ASSUME NEW driver, Drivers = {driver}
  PROVE  Spec => []DecisionsStayGood
<1>1. Init => StillGood(driver)
  BY DEF Init, StillGood
<1>2. Inv /\ StillGood(driver) /\ [Next]_vars => StillGood(driver)'
  BY NextKeepsGood
<1>3. Inv /\ StillGood(driver) => DecisionsStayGood
  BY GoodIsAccepted DEF DecisionsStayGood
<1>4. QED BY <1>1, <1>2, <1>3, InvAlways, PTL DEF Spec
=============================================================================
