---------------------------- MODULE KernelProofs ----------------------------
(***************************************************************************)
(* Theorems of the Ranked All Pick kernel, for every set of heroes, every  *)
(* number of rounds and every capacity.                                    *)
(*                                                                         *)
(* The draft (ApDraft): one inductive invariant, IInv. The draft is sound, *)
(* and every command keeps it so (SoundDraftProofs).                       *)
(*                                                                         *)
(* Its log (KernelLog): LogInv adds that the log leads to the draft when   *)
(* it is replayed, and that the open batch is the end of the log, after a  *)
(* log that leads to the draft without that batch (EndsIn). So a batch can *)
(* be replayed in any order from there (BatchReplays, BatchCloses), and    *)
(* the order it is put in at its end forgets the order it came in          *)
(* (CanonicalForgets).                                                     *)
(***************************************************************************)
EXTENDS KernelLog, SoundDraftProofs

----------------------------------------------------------------------------
(* Invariance                                                              *)

LEMMA InitSound == Init => IInv
BY NewIsSound DEF Init, IInv

LEMMA NextSound == IInv /\ [Next]_draft => IInv'
<1> SUFFICES ASSUME IInv, [Next]_draft PROVE IInv'
  OBVIOUS
<1> USE DEF IInv
<1>1. ASSUME NEW heroes \in SUBSET Heroes, ResolvedBans(heroes) PROVE IInv'
  BY <1>1, RecordIsSound DEF ResolvedBans
<1>2. CASE BansComplete
  BY <1>2, BansCompleteIsSound DEF BansComplete
<1>3. ASSUME NEW slot \in AllSlots, NEW h \in Heroes, Submit(slot, h) PROVE IInv'
  BY <1>3, SubmitIsSound DEF Submit
<1>4. ASSUME NEW slot \in AllSlots, NEW h \in Heroes, Arbitrate(h, slot) PROVE IInv'
  BY <1>4, ArbitrateIsSound DEF Arbitrate
<1>5. CASE UNCHANGED draft
  BY <1>5
<1>6. QED BY <1>1, <1>2, <1>3, <1>4, <1>5 DEF Next

(* Every reachable draft is sound.                                         *)
THEOREM SoundAlways == Spec => []IInv
<1>1. QED BY InitSound, NextSound, PTL DEF Spec

(* A draft never leaves its declared shape.                                *)
THEOREM TypeCorrect == Spec => []TypeOK
<1>1. IInv => TypeOK
  BY DEF IInv, Sound, TypeOK
<1>2. QED BY <1>1, SoundAlways, PTL

(* No hero is held twice: banned and picked, picked for two seats, or      *)
(* sealed again once taken.                                                *)
THEOREM HeldOnceAlways == Spec => []HeroHeldOnce
<1>1. IInv => HeroHeldOnce
  BY DEF IInv, Sound, HeroHeldOnce
<1>2. QED BY <1>1, SoundAlways, PTL

(* No slot is lost, reopened twice or given twice, and rounds fill in      *)
(* order.                                                                  *)
THEOREM ConservedAlways == Spec => []SlotsConserved
<1>1. IInv => SlotsConserved
  BY DEF IInv, Sound, SlotsConserved
<1>2. QED BY <1>1, SoundAlways, PTL

(* The kernel waits for an authority exactly while a collision between the *)
(* two sides is unsettled; any other round in play has an open slot.       *)
THEOREM WaitsAlways == Spec => []WaitsExactlyWhenContested
<1>1. IInv => WaitsExactlyWhenContested
  BY DEF IInv, Sound, WaitsExactlyWhenContested
<1>2. QED BY <1>1, SoundAlways, PTL

----------------------------------------------------------------------------
(* No legal command is refused by the resolution of its batch              *)

(* Whatever the oracle calls legal is accepted, and so is either contender *)
(* of a pending collision as its winner.                                   *)
THEOREM LegalAcceptedAlways == Spec => []LegalIsAccepted
<1>1. IInv => LegalIsAccepted
  <2> SUFFICES ASSUME IInv PROVE LegalIsAccepted
    OBVIOUS
  <2>1. Sound(draft)
    BY DEF IInv
  <2>2. ASSUME NEW slot \in LegalGameplayActions(draft), NEW h \in Heroes,
               IsSealedSelectionLegal(draft, slot, h)
        PROVE  AcceptsSealedSelection(draft, slot, h)
    BY <2>1, <2>2, SealKeepsParts, SealCloses, ClosedResolves DEF AcceptsSealedSelection
  <2>3. ASSUME draft.pendingCollision # NoHero,
               NEW e \in Entries(draft, draft.pendingCollision)
        PROVE  AcceptsResolution(draft, draft.pendingCollision, SlotOf(e))
    <3>1. draft.pendingCollision \in Heroes
      BY <2>1, <2>3 DEF Sound, Drafts
    <3>2. SlotOf(e) \in SlotsOf(Entries(draft, draft.pendingCollision))
      BY DEF SlotsOf
    <3>3. QED BY <2>1, <2>3, <3>1, <3>2, NameWinnerCloses, ClosedResolves DEF AcceptsResolution
  <2>4. QED BY <2>2, <2>3 DEF LegalIsAccepted
<1>2. QED BY <1>1, SoundAlways, PTL

----------------------------------------------------------------------------
(* The kernel keeps the promise of DraftPromise                            *)

(* Every step settles some heroes or leaves bans and picks as they are.    *)
LEMMA NextSettles ==
  ASSUME IInv, [Next]_draft
  PROVE  SettlesOrKeeps(draft, draft')
<1>1. Sound(draft) /\ draft \in Drafts
  BY DEF IInv, Sound
<1>2. ASSUME NEW heroes \in SUBSET Heroes, ResolvedBans(heroes)
      PROVE  SettlesOrKeeps(draft, draft')
  BY <1>1, <1>2, RecordSettles DEF ResolvedBans, SettlesOrKeeps
<1>3. CASE BansComplete
  BY <1>1, <1>3, BansCompleteKeeps DEF BansComplete, SettlesOrKeeps
<1>4. ASSUME NEW slot \in AllSlots, NEW h \in Heroes, Submit(slot, h)
      PROVE  SettlesOrKeeps(draft, draft')
  BY <1>1, <1>4, SubmitSettles DEF Submit
<1>5. ASSUME NEW slot \in AllSlots, NEW h \in Heroes, Arbitrate(h, slot)
      PROVE  SettlesOrKeeps(draft, draft')
  BY <1>1, <1>5, ArbitrateSettles DEF Arbitrate
<1>6. CASE UNCHANGED draft
  BY <1>6 DEF SettlesOrKeeps
<1>7. QED BY <1>2, <1>3, <1>4, <1>5, <1>6 DEF Next

(* The kernel implements DraftPromise: a ban or a pick is final, a hero    *)
(* leaves the pool once, and seats are given out round by round.           *)
THEOREM PromiseKept == Spec => KeepsPromise
<1>1. Init => Promise!Init
  BY DEF Init, Promise!Init, NewDraft
<1>2. IInv /\ [Next]_draft => [Promise!Settle]_Promise!vars
  <2> SUFFICES ASSUME IInv, [Next]_draft PROVE [Promise!Settle]_Promise!vars
    OBVIOUS
  <2>1. CASE Settles(draft, draft')
    BY <2>1 DEF Settles, SeatOf, Promise!Settle, Promise!Taken, Promise!Filled, Promise!SeatOf
  <2>2. CASE /\ draft'.bannedHeroes = draft.bannedHeroes
             /\ draft'.confirmedPicks = draft.confirmedPicks
    BY <2>2 DEF Promise!vars
  <2>3. QED BY <2>1, <2>2, NextSettles DEF SettlesOrKeeps
<1>3. QED BY <1>1, <1>2, SoundAlways, PTL DEF Spec, KeepsPromise, Promise!Spec

(* A draft that says it is complete has given every seat of every round,   *)
(* each exactly once, to heroes that differ and are not banned.            *)
EverySeatGiven ==
  draft.status = "COMPLETE" => {SeatOf(p) : p \in draft.confirmedPicks} = Seats

THEOREM CompleteFillsSeats == Spec => []EverySeatGiven
<1>1. IInv => EverySeatGiven
  <2> SUFFICES ASSUME IInv, draft.status = "COMPLETE"
               PROVE  {SeatOf(p) : p \in draft.confirmedPicks} = Seats
    BY DEF EverySeatGiven
  <2>1. draft \in Drafts /\ draft.phase = COMPLETE
    BY DEF IInv, Sound, WaitsRightly
  <2>2. \A r \in Rounds : ConfirmedSlots(draft, r) = Slots(r)
    BY <2>1, RoundsAssumption DEF IInv, Sound, Conserved, COMPLETE, Rounds
  <2>3. ASSUME NEW p \in draft.confirmedPicks PROVE SeatOf(p) \in Seats
    <3>1. p.round \in Rounds
      BY <2>1 DEF Drafts, ConfirmedPicks
    <3>2. SlotOf(p) \in Slots(p.round)
      BY <2>2, <3>1 DEF ConfirmedSlots, SlotsOf
    <3>3. QED BY <3>1, <3>2, SeatOfSlot DEF SeatOf
  <2>4. ASSUME NEW s \in Seats PROVE \E p \in draft.confirmedPicks : SeatOf(p) = s
    <3>1. PICK r \in Rounds : s \in [side : Sides, round : {r}, slotIndex : 0..(ROUND_CAPACITY[r] - 1)]
      BY DEF Seats
    <3>2. s.round = r /\ SlotOf(s) \in Slots(r) /\ s = [side |-> s.side, round |-> r, slotIndex |-> s.slotIndex]
      BY <3>1 DEF SlotOf, Slots
    <3>3. PICK p \in draft.confirmedPicks : p.round = r /\ SlotOf(p) = SlotOf(s)
      BY <2>2, <3>2 DEF ConfirmedSlots, SlotsOf
    <3>4. SeatOf(p) = s
      BY <3>2, <3>3 DEF SeatOf, SlotOf
    <3>5. QED BY <3>4
  <2>5. QED BY <2>3, <2>4
<1>2. QED BY <1>1, SoundAlways, PTL

----------------------------------------------------------------------------
(* Counting the collisions of a batch                                      *)

(* The slots of the batch in play, of one side: open or sealed.            *)
BatchSlots(d, side) == {s \in d.openSlots \cup SlotsOf(d.sealed) : s.side = side}

(* A collision's place among those of its batch, by hero id.               *)
Rank(d, h) == Cardinality({g \in Collisions(d) : g <= h})

LEMMA RankTypes ==
  ASSUME NEW d \in Drafts, NEW h \in Collisions(d)
  PROVE  /\ Collisions(d) \in SUBSET Nat /\ IsFiniteSet(Collisions(d))
         /\ IsFiniteSet({g \in Collisions(d) : g <= h})
         /\ Rank(d, h) \in Nat /\ Rank(d, h) >= 1 /\ Rank(d, h) <= Cardinality(Collisions(d))
         /\ CollisionNumber(d, h) = d.collisionsResolved + Rank(d, h)
<1> DEFINE upto == {g \in Collisions(d) : g <= h}
<1>1. Collisions(d) \in SUBSET Nat /\ IsFiniteSet(Collisions(d))
  BY HeroesAssumption, FS_Subset DEF Collisions
<1>2. upto \in SUBSET Collisions(d) /\ h \in upto
  BY <1>1
<1>3. IsFiniteSet(upto) /\ Cardinality(upto) <= Cardinality(Collisions(d))
  BY <1>1, <1>2, FS_Subset
<1>4. Cardinality(upto) \in Nat /\ Cardinality(upto) # 0
  BY <1>2, <1>3, FS_CardinalityType, FS_EmptySet
<1>5. QED BY <1>1, <1>3, <1>4 DEF Rank, CollisionNumber

(* A collision is one entry of each side.                                  *)
LEMMA CollisionPair ==
  ASSUME NEW d \in Drafts, HeldOnce(d), NEW h \in Collisions(d)
  PROVE  \E e, f \in d.sealed : /\ Entries(d, h) = {e, f}
                                /\ e.side = "radiant" /\ f.side = "dire"
<1>1. PICK e \in Entries(d, h), f \in Entries(d, h) : e # f
  BY DEF Collisions
<1>2. \A x \in Entries(d, h) : x \in d.sealed /\ x.heroId = h /\ x.side \in Sides
  BY DEF Entries, Drafts, SealedSelections
<1>3. \A x, y \in Entries(d, h) : x.side = y.side => x = y
  BY <1>2 DEF HeldOnce
<1>4. QED BY <1>1, <1>2, <1>3 DEF Sides

(* So a batch has no more collisions than slots of one side.               *)
LEMMA CollisionsFit ==
  ASSUME NEW d \in Drafts, HeldOnce(d), Conserved(d), d.round \in Rounds
  PROVE  /\ IsFiniteSet(BatchSlots(d, "radiant"))
         /\ Cardinality(BatchSlots(d, "radiant")) <= ROUND_CAPACITY[d.round]
         /\ Cardinality(BatchSlots(d, "radiant")) \in Nat
         /\ Cardinality(Collisions(d)) <= Cardinality(BatchSlots(d, "radiant"))
<1> DEFINE batch == BatchSlots(d, "radiant")
<1> DEFINE k == ROUND_CAPACITY[d.round] - 1
<1>1. k \in Nat
  BY CapacityAssumption DEF Rounds
<1>2. \A s \in batch : s \in [side : Sides, slotIndex : 0..k] /\ s.side = "radiant"
  <2>1. d.round # 0
    BY RoundsAssumption DEF Rounds
  <2>2. d.openSlots \cup SlotsOf(d.sealed) \subseteq Slots(d.round)
    BY <2>1 DEF Conserved
  <2>3. QED BY <2>2 DEF BatchSlots, Slots
<1> DEFINE index == [s \in batch |-> s.slotIndex]
<1>3. index \in Injection(batch, 0..k)
  BY <1>2 DEF Injection, IsInjective
<1>4. IsFiniteSet(0..k) /\ Cardinality(0..k) = k + 1
  <2> HIDE DEF k
  <2>1. QED BY <1>1, FS_Interval
<1>5. IsFiniteSet(batch) /\ Cardinality(batch) <= k + 1 /\ Cardinality(batch) \in Nat
  BY <1>3, <1>4, FS_Injection, FS_CardinalityType
<1> DEFINE slotOf == [h \in Collisions(d) |-> SlotOf(CHOOSE e \in Entries(d, h) : e.side = "radiant")]
<1>6. ASSUME NEW h \in Collisions(d)
      PROVE  \E e \in d.sealed : e.heroId = h /\ slotOf[h] = SlotOf(e) /\ slotOf[h] \in batch
  <2>1. \E e \in Entries(d, h) : e.side = "radiant"
    BY CollisionPair
  <2>2. PICK e \in Entries(d, h) : e.side = "radiant" /\ slotOf[h] = SlotOf(e)
    BY <2>1
  <2>3. e \in d.sealed /\ e.heroId = h /\ SlotOf(e) \in SlotsOf(d.sealed) /\ SlotOf(e).side = "radiant"
    BY <2>2 DEF Entries, SlotsOf, SlotOf
  <2>4. QED BY <2>2, <2>3 DEF BatchSlots
<1>7. slotOf \in Injection(Collisions(d), batch)
  <2>1. \A g, h \in Collisions(d) : slotOf[g] = slotOf[h] => g = h
    BY <1>6 DEF Conserved
  <2>2. slotOf \in [Collisions(d) -> batch]
    BY <1>6
  <2>3. QED BY <2>1, <2>2 DEF Injection, IsInjective
<1>8. Cardinality(Collisions(d)) <= Cardinality(batch)
  BY <1>5, <1>7, FS_Injection
<1>9. QED BY <1>1, <1>5, <1>8, CapacityAssumption DEF Rounds

----------------------------------------------------------------------------
(* A batch is never split                                                  *)

(* A batch that follows the first collision of its round has one slot of   *)
(* each side: those of the collision.                                      *)
OneEach(d) ==
  d.collisionsResolved = 1 => \A side \in Sides : \E s : BatchSlots(d, side) = {s}

LEMMA ResolveOneEach ==
  ASSUME NEW d, Closed(d), OneEach(d), NEW a, a = ResolveRound(d)
  PROVE  OneEach(a)
<1>1. d \in Drafts /\ HeldOnce(d) /\ d.openSlots = {} /\ d.collisionsResolved \in Nat
  BY DEF Closed, Drafts
<1>2. CASE Awaits(d, a)
  BY <1>1, <1>2 DEF Awaits, OneEach, BatchSlots
<1>3. CASE Advances(d, a)
  BY <1>3 DEF Advances, OneEach
<1>4. CASE Reopens(d, a) /\ a.collisionsResolved # 1
  BY <1>4 DEF OneEach
<1>5. CASE Reopens(d, a) /\ a.collisionsResolved = 1
  <2>1. IsFiniteSet(Collisions(d)) /\ Cardinality(Collisions(d)) = 1 /\ d.collisionsResolved = 0
    <3>1. IsFiniteSet(Collisions(d))
      BY <1>1, HeroesAssumption, FS_Subset, CollisionTypes
    <3>2. Cardinality(Collisions(d)) \in Nat /\ Cardinality(Collisions(d)) # 0
      BY <1>5, <3>1, FS_CardinalityType, FS_EmptySet DEF Reopens
    <3>3. QED BY <1>1, <1>5, <3>1, <3>2 DEF Reopens
  <2>2. PICK h : Collisions(d) = {h}
    BY <2>1, FS_Singleton
  <2>3. h \in CollisionBans(d)
    <3>1. CollisionNumber(d, h) = 0 + Rank(d, h) /\ Rank(d, h) <= 1 /\ Rank(d, h) \in Nat
      BY <1>1, <2>1, <2>2, RankTypes
    <3>2. QED BY <2>2, <3>1 DEF CollisionBans
  <2>4. a.openSlots = SlotsOf(Entries(d, h)) /\ a.sealed = {}
    <3>1. d.sealed \ Revealed(d) = Entries(d, h)
      BY <2>2, <2>3 DEF Revealed, Contested, Entries
    <3>2. QED BY <1>5, <3>1 DEF Reopens
  <2>5. PICK e, f \in d.sealed : Entries(d, h) = {e, f} /\ e.side = "radiant" /\ f.side = "dire"
    BY <1>1, <2>2, CollisionPair
  <2>6. /\ a.openSlots \cup SlotsOf(a.sealed) = {SlotOf(e), SlotOf(f)}
        /\ SlotOf(e).side = "radiant" /\ SlotOf(f).side = "dire"
    BY <2>4, <2>5 DEF SlotsOf, SlotOf
  <2>7. BatchSlots(a, "radiant") = {SlotOf(e)} /\ BatchSlots(a, "dire") = {SlotOf(f)}
    BY <2>6 DEF BatchSlots
  <2>8. QED BY <2>7 DEF OneEach, Sides
<1>6. QED BY <1>1, <1>2, <1>3, <1>4, <1>5, ResolveOutcomes

(* While an authority is awaited, no collision of the batch bans.          *)
LEMMA NoBanHeldBack ==
  ASSUME NEW d, Sound(d), OneEach(d), d.pendingCollision # NoHero,
         \A r \in Rounds : ROUND_CAPACITY[r] <= 2
  PROVE  CollisionBans(d) = {}
<1> SUFFICES ASSUME NEW h \in CollisionBans(d) PROVE FALSE
  OBVIOUS
<1> DEFINE p == d.pendingCollision
<1> DEFINE n == Cardinality(BatchSlots(d, "radiant"))
<1>1. /\ d \in Drafts /\ HeldOnce(d) /\ Conserved(d) /\ d.collisionsResolved \in Nat
      /\ d.round \in Rounds
      /\ p \in Collisions(d) /\ CollisionNumber(d, p) > 2
  <2>1. d \in Drafts /\ HeldOnce(d) /\ Conserved(d) /\ d.collisionsResolved \in Nat
        /\ d.round \in Rounds
    BY DEF Sound, Drafts, Conserved
  <2>2. p \in Contested(d) /\ p \in Collisions(d) /\ p \notin CollisionBans(d)
    BY DEF Sound, WaitsRightly, Unresolved, Contested
  <2>3. CollisionNumber(d, p) \in Nat
    <3>1. CollisionNumber(d, p) = d.collisionsResolved + Rank(d, p) /\ Rank(d, p) \in Nat
      BY <2>1, <2>2, RankTypes
    <3>2. QED BY <2>1, <3>1
  <2>4. QED BY <2>1, <2>2, <2>3 DEF CollisionBans
<1>2. h \in Collisions(d) /\ CollisionNumber(d, h) <= 2
  BY DEF CollisionBans
<1>3. /\ d.collisionsResolved + Rank(d, h) <= 2 /\ Rank(d, h) >= 1 /\ Rank(d, h) \in Nat
      /\ d.collisionsResolved + Rank(d, p) > 2 /\ Rank(d, p) \in Nat
      /\ Rank(d, p) <= Cardinality(Collisions(d))
  BY <1>1, <1>2, RankTypes
<1>4. /\ n \in Nat /\ n <= 2 /\ Cardinality(Collisions(d)) <= n /\ Cardinality(Collisions(d)) \in Nat
  <2>1. ROUND_CAPACITY[d.round] \in Nat /\ ROUND_CAPACITY[d.round] <= 2
    BY <1>1, CapacityAssumption DEF Rounds
  <2>2. QED BY <1>1, <2>1, CollisionsFit, CollisionTypes
<1> HIDE DEF n
<1>5. d.collisionsResolved = 1
  BY <1>1, <1>3, <1>4
<1>6. n = 1
  <2>1. PICK s : BatchSlots(d, "radiant") = {s}
    BY <1>5 DEF OneEach, Sides
  <2>2. QED BY <2>1, FS_Singleton DEF n
<1>7. QED BY <1>3, <1>4, <1>5, <1>6

----------------------------------------------------------------------------
(* Contests give seats                                                     *)

LEMMA RoundSlotsFinite ==
  ASSUME NEW d \in Drafts, Conserved(d), d.round \in Rounds
  PROVE  IsFiniteSet(Slots(d.round))
<1> DEFINE k == ROUND_CAPACITY[d.round] - 1
<1>1. k \in Nat
  BY CapacityAssumption DEF Rounds
<1>2. IsFiniteSet(0..k) /\ IsFiniteSet(Sides)
  <2>1. Sides = {"radiant"} \cup {"dire"}
    BY DEF Sides
  <2>2. IsFiniteSet(Sides)
    BY <2>1, FS_Singleton, FS_AddElement
  <2> HIDE DEF k
  <2>3. QED BY <1>1, <2>2, FS_Interval
<1>3. IsFiniteSet(Sides \X (0..k))
  BY <1>2, FS_Product
<1> DEFINE pair == [s \in Slots(d.round) |-> <<s.side, s.slotIndex>>]
<1>4. \A s \in Slots(d.round) : s \in [side : Sides, slotIndex : 0..k]
  BY DEF Slots
<1>5. pair \in Injection(Slots(d.round), Sides \X (0..k))
  <2> HIDE DEF k
  <2>1. \A s, t \in Slots(d.round) : pair[s] = pair[t] => s = t
    BY <1>4
  <2>2. pair \in [Slots(d.round) -> Sides \X (0..k)]
    BY <1>4
  <2>3. QED BY <2>1, <2>2 DEF Injection, IsInjective
<1>6. QED BY <1>3, <1>5, FS_Injection

(* No more heroes are banned in a round than its first two collisions.     *)
LEMMA BansAreTwo ==
  ASSUME NEW d \in Drafts
  PROVE  /\ IsFiniteSet(CollisionBans(d)) /\ Cardinality(CollisionBans(d)) \in Nat
         /\ d.collisionsResolved >= 2 => CollisionBans(d) = {}
         /\ d.collisionsResolved <= 2 =>
              Cardinality(CollisionBans(d)) <= 2 - d.collisionsResolved
<1>1. /\ d.collisionsResolved \in Nat /\ IsFiniteSet(Collisions(d)) /\ Collisions(d) \in SUBSET Nat
      /\ CollisionBans(d) \in SUBSET Collisions(d)
  BY HeroesAssumption, FS_Subset, CollisionTypes DEF Drafts
<1>2. IsFiniteSet(CollisionBans(d)) /\ Cardinality(CollisionBans(d)) \in Nat
  BY <1>1, FS_Subset, FS_CardinalityType
<1>3. \A h \in CollisionBans(d) :
        /\ h \in Collisions(d) /\ Rank(d, h) \in Nat /\ Rank(d, h) >= 1
        /\ d.collisionsResolved + Rank(d, h) <= 2
  <2> SUFFICES ASSUME NEW h \in CollisionBans(d)
               PROVE  /\ h \in Collisions(d) /\ Rank(d, h) \in Nat /\ Rank(d, h) >= 1
                      /\ d.collisionsResolved + Rank(d, h) <= 2
    OBVIOUS
  <2>1. h \in Collisions(d) /\ CollisionNumber(d, h) <= 2
    BY DEF CollisionBans
  <2>2. QED BY <2>1, RankTypes
<1>4. d.collisionsResolved >= 2 => CollisionBans(d) = {}
  BY <1>1, <1>3
<1>5. ASSUME d.collisionsResolved <= 2
      PROVE  Cardinality(CollisionBans(d)) <= 2 - d.collisionsResolved
  <2>1. CASE CollisionBans(d) = {}
    BY <1>1, <1>5, <2>1, FS_EmptySet
  <2>2. CASE CollisionBans(d) # {}
    <3> DEFINE left == {2 - d.collisionsResolved - Rank(d, h) : h \in CollisionBans(d)}
    <3>1. left \in SUBSET Nat /\ left # {}
      BY <1>1, <1>3, <2>2
    <3>2. PICK m \in left : \A n \in left : m <= n
      BY <3>1, LeastNatural
    <3>3. PICK h \in CollisionBans(d) : m = 2 - d.collisionsResolved - Rank(d, h)
      BY <3>2
    <3>4. \A g \in CollisionBans(d) : Rank(d, g) <= Rank(d, h)
      <4> SUFFICES ASSUME NEW g \in CollisionBans(d) PROVE Rank(d, g) <= Rank(d, h)
        OBVIOUS
      <4>1. m <= 2 - d.collisionsResolved - Rank(d, g)
        BY <3>2
      <4>2. Rank(d, g) \in Nat /\ Rank(d, h) \in Nat
        BY <1>3
      <4>3. QED BY <1>1, <3>3, <4>1, <4>2
    <3>5. ASSUME NEW g \in CollisionBans(d) PROVE g <= h
      <4> SUFFICES ASSUME ~(g <= h) PROVE FALSE
        OBVIOUS
      <4> DEFINE low == {x \in Collisions(d) : x <= h}
      <4> DEFINE high == {x \in Collisions(d) : x <= g}
      <4>1. g \in Nat /\ h \in Nat /\ g \in Collisions(d) /\ h < g
        BY <1>1, <1>3
      <4>2. low \in SUBSET high /\ g \in high /\ g \notin low
        BY <1>1, <4>1
      <4>3. IsFiniteSet(high)
        BY <1>1, FS_Subset
      <4>4. Cardinality(low) <= Cardinality(high) /\ Cardinality(low) # Cardinality(high)
        BY <4>2, <4>3, FS_Subset
      <4>5. Cardinality(high) <= Cardinality(low) /\ Cardinality(high) \in Nat /\ Cardinality(low) \in Nat
        BY <1>3, <3>4 DEF Rank
      <4>6. QED BY <4>4, <4>5
    <3>6. CollisionBans(d) \in SUBSET {g \in Collisions(d) : g <= h}
      BY <1>1, <3>5
    <3>7. IsFiniteSet({g \in Collisions(d) : g <= h})
      BY <1>1, FS_Subset
    <3>8. Cardinality(CollisionBans(d)) <= Rank(d, h)
      BY <3>6, <3>7, FS_Subset DEF Rank
    <3>9. QED BY <1>1, <1>2, <1>3, <3>8
  <2>3. QED BY <2>1, <2>2
<1>6. QED BY <1>2, <1>4, <1>5

(* A settled batch reveals an entry of every contested hero.               *)
LEMMA ContestedReveal ==
  ASSUME NEW d, Closed(d), Unresolved(d) = {}
  PROVE  /\ IsFiniteSet(SlotsOf(Revealed(d)))
         /\ Cardinality(Contested(d)) <= Cardinality(SlotsOf(Revealed(d)))
<1>1. d \in Drafts /\ Conserved(d) /\ d.round \in Rounds /\ d.round # 0
  BY RoundsAssumption DEF Closed, Rounds
<1>2. IsFiniteSet(SlotsOf(Revealed(d)))
  <2>1. SlotsOf(Revealed(d)) \in SUBSET Slots(d.round)
    BY <1>1 DEF Conserved, SlotsOf, Revealed
  <2>2. QED BY <1>1, <2>1, RoundSlotsFinite, FS_Subset
<1> DEFINE seat == [h \in Contested(d) |-> SlotOf(CHOOSE e \in Entries(d, h) : Wins(d, e))]
<1>3. ASSUME NEW h \in Contested(d)
      PROVE  \E e \in d.sealed : e.heroId = h /\ seat[h] = SlotOf(e) /\ seat[h] \in SlotsOf(Revealed(d))
  <2>1. PICK x \in d.authorityResolutions : x.heroId = h
    BY DEF Unresolved, Resolved
  <2>2. x \in Resolutions /\ x = [heroId |-> h, winner |-> x.winner]
    BY <1>1, <2>1 DEF Drafts, Resolutions
  <2>3. PICK w \in Entries(d, h) : SlotOf(w) = x.winner
    BY <2>1 DEF Closed, AuthorityFunctional, SlotsOf
  <2>4. \E e \in Entries(d, h) : Wins(d, e)
    BY <2>1, <2>2, <2>3 DEF Wins, Entries
  <2>5. PICK e \in Entries(d, h) : Wins(d, e) /\ seat[h] = SlotOf(e)
    BY <2>4
  <2>6. e \in d.sealed /\ e.heroId = h /\ e \in Revealed(d)
    BY <2>5 DEF Entries, Revealed
  <2>7. QED BY <2>5, <2>6 DEF SlotsOf
<1>4. seat \in Injection(Contested(d), SlotsOf(Revealed(d)))
  <2>1. \A g, h \in Contested(d) : seat[g] = seat[h] => g = h
    BY <1>1, <1>3 DEF Conserved
  <2>2. seat \in [Contested(d) -> SlotsOf(Revealed(d))]
    BY <1>3
  <2>3. QED BY <2>1, <2>2 DEF Injection, IsInjective
<1>5. QED BY <1>2, <1>4, FS_Injection

(* Every collision of a round but two has given a seat away.               *)
GivesSeats(d) ==
  d.round # 0 => Cardinality(ConfirmedSlots(d, d.round)) >= d.collisionsResolved - 2

LEMMA ResolveGivesSeats ==
  ASSUME NEW d, Closed(d), GivesSeats(d), NEW a, a = ResolveRound(d)
  PROVE  GivesSeats(a)
<1>1. /\ d \in Drafts /\ Conserved(d) /\ d.round \in Rounds /\ d.round # 0
      /\ d.collisionsResolved \in Nat
  BY RoundsAssumption DEF Closed, Rounds, Drafts
<1> DEFINE before == ConfirmedSlots(d, d.round)
<1> DEFINE new == SlotsOf(Revealed(d))
<1>2. CASE Awaits(d, a)
  BY <1>2 DEF Awaits, GivesSeats, ConfirmedSlots
<1>3. CASE Advances(d, a)
  <2>1. a.collisionsResolved = 0 /\ (a.round # 0 => a.round \in Rounds)
    BY <1>3 DEF Advances
  <2>2. Conserved(a) /\ a \in Drafts
    BY ResolveIsSound DEF Sound
  <2>3. a.round # 0 => Cardinality(ConfirmedSlots(a, a.round)) \in Nat
    <3> SUFFICES ASSUME a.round # 0 PROVE Cardinality(ConfirmedSlots(a, a.round)) \in Nat
      OBVIOUS
    <3>1. ConfirmedSlots(a, a.round) \in SUBSET Slots(a.round)
      BY <2>2 DEF Conserved
    <3>2. IsFiniteSet(ConfirmedSlots(a, a.round))
      BY <2>1, <2>2, <3>1, RoundSlotsFinite, FS_Subset
    <3>3. QED BY <3>2, FS_CardinalityType
  <2>4. QED BY <2>1, <2>3 DEF GivesSeats
<1>4. CASE Reopens(d, a)
  <2>1. Unresolved(d) = {}
    <3> SUFFICES ASSUME Unresolved(d) # {} PROVE FALSE
      OBVIOUS
    <3>1. a = AwaitAuthority(d)
      BY DEF ResolveRound
    <3>2. a.sealed = d.sealed
      BY <1>1, <3>1 DEF AwaitAuthority, Drafts
    <3>3. d.sealed = {} /\ Collisions(d) # {}
      BY <1>4, <3>2 DEF Reopens
    <3>4. QED BY <3>3 DEF Collisions, Entries
  <2>2. /\ a.round = d.round
        /\ a.collisionsResolved = d.collisionsResolved + Cardinality(Collisions(d))
    BY <1>4 DEF Reopens
  <2>3. ConfirmedSlots(a, a.round) = before \cup new
    <3>1. a.confirmedPicks = Reveal(d).confirmedPicks
      BY <1>4, RevealFields DEF Reopens
    <3>2. ConfirmedSlots(a, a.round) = ConfirmedSlots(Reveal(d), d.round)
      BY <2>2, <3>1 DEF ConfirmedSlots
    <3>3. QED BY <1>1, <3>2, RevealSlots
  <2>4. before \cap new = {} /\ before \in SUBSET Slots(d.round) /\ new \in SUBSET Slots(d.round)
    BY <1>1 DEF Conserved, SlotsOf, Revealed
  <2>5. /\ IsFiniteSet(before) /\ Cardinality(before) \in Nat
        /\ IsFiniteSet(new) /\ Cardinality(new) \in Nat
    BY <1>1, <2>4, RoundSlotsFinite, FS_Subset, FS_CardinalityType
  <2>6. Cardinality(Contested(d)) <= Cardinality(new)
    BY <2>1, ContestedReveal
  <2>7. /\ IsFiniteSet(Collisions(d)) /\ Cardinality(Collisions(d)) \in Nat
        /\ Cardinality(Contested(d)) = Cardinality(Collisions(d)) - Cardinality(CollisionBans(d))
    <3>1. IsFiniteSet(Collisions(d)) /\ CollisionBans(d) \subseteq Collisions(d)
      BY <1>1, HeroesAssumption, FS_Subset, CollisionTypes
    <3>2. Collisions(d) \cap CollisionBans(d) = CollisionBans(d)
      BY <3>1
    <3>3. QED BY <3>1, <3>2, FS_Difference, FS_CardinalityType DEF Contested
  <2>8. /\ Cardinality(CollisionBans(d)) \in Nat
        /\ d.collisionsResolved >= 2 => Cardinality(CollisionBans(d)) = 0
        /\ d.collisionsResolved <= 2 =>
             Cardinality(CollisionBans(d)) <= 2 - d.collisionsResolved
    BY <1>1, BansAreTwo, FS_EmptySet
  <2>9. Cardinality(before \cup new) = Cardinality(before) + Cardinality(new)
    <3>1. Cardinality(before \cap new) = 0
      BY <2>4, FS_EmptySet
    <3>2. Cardinality(before \cup new)
            = Cardinality(before) + Cardinality(new) - Cardinality(before \cap new)
      BY <2>5, FS_Union
    <3> HIDE DEF before, new
    <3>3. QED BY <2>5, <3>1, <3>2
  <2>10. Cardinality(before) >= d.collisionsResolved - 2
    BY <1>1 DEF GivesSeats
  <2>11. Cardinality(Contested(d)) \in Int
    BY <2>7, <2>8
  <2> HIDE DEF before, new
  <2>12. Cardinality(before \cup new) >= a.collisionsResolved - 2
    BY <1>1, <2>2, <2>5, <2>6, <2>7, <2>8, <2>9, <2>10, <2>11
  <2>13. QED BY <2>3, <2>12 DEF GivesSeats
<1>5. QED BY <1>2, <1>3, <1>4, ResolveOutcomes

(* Both counts survive every command.                                      *)
LEMMA CountsFrom ==
  ASSUME NEW d, NEW a, OneEach(d), GivesSeats(d),
         a.openSlots \cup SlotsOf(a.sealed) = d.openSlots \cup SlotsOf(d.sealed),
         a.collisionsResolved = d.collisionsResolved, a.round = d.round,
         a.confirmedPicks = d.confirmedPicks
  PROVE  OneEach(a) /\ GivesSeats(a)
<1>1. \A side : BatchSlots(a, side) = BatchSlots(d, side)
  BY DEF BatchSlots
<1>2. ConfirmedSlots(a, a.round) = ConfirmedSlots(d, d.round)
  BY DEF ConfirmedSlots
<1>3. QED BY <1>1, <1>2 DEF OneEach, GivesSeats

LEMMA SubmitCounts ==
  ASSUME NEW d, Sound(d), OneEach(d), GivesSeats(d),
         NEW slot, NEW h \in Heroes, AcceptsSealedSelection(d, slot, h)
  PROVE  /\ OneEach(SubmitSealedSelection(d, slot, h))
         /\ GivesSeats(SubmitSealedSelection(d, slot, h))
<1> DEFINE a == Seal(d, slot, h)
<1>1. IsSealedSelectionLegal(d, slot, h) /\ slot \in d.openSlots /\ slot \in [side : Sides, slotIndex : Nat]
  BY SealKeepsParts DEF AcceptsSealedSelection
<1>2. /\ a.openSlots = d.openSlots \ {slot} /\ a.sealed = d.sealed \cup {Entry(slot, h)}
      /\ SlotOf(Entry(slot, h)) = slot /\ a.collisionsResolved = d.collisionsResolved
      /\ a.round = d.round /\ a.confirmedPicks = d.confirmedPicks
  BY <1>1, SealFields
<1> HIDE DEF a
<1>3. a.openSlots \cup SlotsOf(a.sealed) = d.openSlots \cup SlotsOf(d.sealed)
  BY <1>1, <1>2 DEF SlotsOf
<1>4. OneEach(a) /\ GivesSeats(a)
  BY <1>2, <1>3, CountsFrom
<1>5. CASE ClosesBatch(d, slot)
  <2>1. Closed(a)
    BY <1>1, <1>5, SealCloses DEF a
  <2>2. QED BY <1>4, <1>5, <2>1, ResolveOneEach, ResolveGivesSeats DEF SubmitSealedSelection, a
<1>6. CASE ~ClosesBatch(d, slot)
  BY <1>4, <1>6 DEF SubmitSealedSelection, a
<1>7. QED BY <1>5, <1>6

LEMMA NextCounts ==
  ASSUME IInv, OneEach(draft), GivesSeats(draft), [Next]_draft
  PROVE  OneEach(draft') /\ GivesSeats(draft')
<1>1. Sound(draft) /\ draft \in Drafts
  BY DEF IInv, Sound
<1>2. ASSUME NEW heroes \in SUBSET Heroes, ResolvedBans(heroes)
      PROVE  OneEach(draft') /\ GivesSeats(draft')
  <2>1. /\ draft'.openSlots = draft.openSlots /\ draft'.sealed = draft.sealed
        /\ draft'.collisionsResolved = draft.collisionsResolved /\ draft'.round = draft.round
        /\ draft'.confirmedPicks = draft.confirmedPicks
    BY <1>1, <1>2 DEF ResolvedBans, RecordResolvedBans, Drafts
  <2>2. QED BY <2>1, CountsFrom
<1>3. CASE BansComplete
  <2>1. /\ draft'.collisionsResolved = 0 /\ draft'.round = 1
        /\ draft'.confirmedPicks = draft.confirmedPicks /\ draft.confirmedPicks = {}
    <3>1. draft.phase = 0 /\ draft' = BanResolutionComplete(draft)
      BY <1>3 DEF BansComplete, AcceptsBanResolutionComplete, BAN_RESOLUTION
    <3>2. draft'.collisionsResolved = 0 /\ draft'.round = 1 /\ draft'.confirmedPicks = draft.confirmedPicks
      BY <1>1, <3>1, RoundsAssumption DEF BanResolutionComplete, EnterRound, Drafts, Rounds
    <3>3. QED BY <1>1, <3>1, <3>2, NoPicksYet
  <2>2. ConfirmedSlots(draft', 1) = {}
    BY <2>1 DEF ConfirmedSlots, SlotsOf
  <2>3. QED BY <2>1, <2>2, FS_EmptySet DEF OneEach, GivesSeats
<1>4. ASSUME NEW slot \in AllSlots, NEW h \in Heroes, Submit(slot, h)
      PROVE  OneEach(draft') /\ GivesSeats(draft')
  BY <1>1, <1>4, SubmitCounts DEF Submit
<1>5. ASSUME NEW slot \in AllSlots, NEW h \in Heroes, Arbitrate(h, slot)
      PROVE  OneEach(draft') /\ GivesSeats(draft')
  <2> DEFINE d == NameWinner(draft, h, slot)
  <2>1. Closed(d) /\ draft' = ResolveRound(d)
    BY <1>1, <1>5, NameWinnerCloses DEF Arbitrate, AcceptsResolution, ApplyAuthoritativeResolution
  <2>2. /\ d.openSlots = draft.openSlots /\ d.sealed = draft.sealed
        /\ d.collisionsResolved = draft.collisionsResolved /\ d.round = draft.round
        /\ d.confirmedPicks = draft.confirmedPicks
    BY <1>1 DEF NameWinner, Drafts
  <2> HIDE DEF d
  <2>3. OneEach(d) /\ GivesSeats(d)
    BY <2>2, CountsFrom
  <2>4. QED BY <2>1, <2>3, ResolveOneEach, ResolveGivesSeats
<1>6. CASE UNCHANGED draft
  BY <1>6
<1>7. QED BY <1>2, <1>3, <1>4, <1>5, <1>6 DEF Next

LEMMA CountsAlways == Spec => [](OneEach(draft) /\ GivesSeats(draft))
<1>1. Init => OneEach(draft) /\ GivesSeats(draft)
  BY DEF Init, NewDraft, OneEach, GivesSeats
<1>2. IInv /\ (OneEach(draft) /\ GivesSeats(draft)) /\ [Next]_draft
        => (OneEach(draft) /\ GivesSeats(draft))'
  BY NextCounts
<1>3. QED BY <1>1, <1>2, SoundAlways, PTL DEF Spec

(* From the third collision of a round on, a collision gives a seat away.  *)
THEOREM ContestsGiveSeatsAlways == Spec => []ContestsGiveSeats
<1>1. GivesSeats(draft) => ContestsGiveSeats
  BY DEF GivesSeats, ContestsGiveSeats
<1>2. QED BY <1>1, CountsAlways, PTL

(* With the two slots per side and round the code has at most, no batch is *)
(* split by the ban threshold.                                             *)
THEOREM BatchNeverSplitAlways ==
  ASSUME \A r \in Rounds : ROUND_CAPACITY[r] <= 2
  PROVE  Spec => []BatchNeverSplit
<1>1. IInv /\ OneEach(draft) => BatchNeverSplit
  <2> SUFFICES ASSUME IInv, OneEach(draft) PROVE BatchNeverSplit
    OBVIOUS
  <2>1. draft.pendingCollision # NoHero => CollisionBans(draft) = {}
    BY NoBanHeldBack DEF IInv
  <2>2. ASSUME draft.collisionsResolved = 1, NEW side \in Sides
        PROVE  Cardinality(BatchSlots(draft, side)) = 1
    BY <2>2, FS_Singleton DEF OneEach
  <2>3. QED BY <2>1, <2>2 DEF BatchNeverSplit, BatchSlots
<1>2. QED BY <1>1, SoundAlways, CountsAlways, PTL

----------------------------------------------------------------------------
(* Hidden twins                                                            *)

LEMMA SealedFinite ==
  ASSUME NEW d \in Drafts, HeldOnce(d)
  PROVE  IsFiniteSet(d.sealed)
<1>1. IsFiniteSet(Sides)
  <2>1. Sides = {"radiant"} \cup {"dire"}
    BY DEF Sides
  <2>2. QED BY <2>1, FS_Singleton, FS_AddElement
<1>2. IsFiniteSet(Sides \X Heroes)
  BY <1>1, HeroesAssumption, FS_Product
<1> DEFINE pair == [e \in d.sealed |-> <<e.side, e.heroId>>]
<1>3. \A e \in d.sealed : e.side \in Sides /\ e.heroId \in Heroes
  BY DEF Drafts, SealedSelections
<1>4. \A e, f \in d.sealed : pair[e] = pair[f] => e = f
  BY DEF HeldOnce
<1>5. pair \in [d.sealed -> Sides \X Heroes]
  BY <1>3
<1>6. pair \in Injection(d.sealed, Sides \X Heroes)
  BY <1>4, <1>5 DEF Injection, IsInjective
<1>7. QED BY <1>2, <1>6, FS_Injection

(* While the batch is open, what a side sees and may do does not depend on *)
(* which hero the other side sealed.                                       *)
THEOREM SealedPicksHiddenAlways == Spec => []SealedPicksStayHidden
<1>1. IInv => SealedPicksStayHidden
  <2> SUFFICES ASSUME IInv,
                      NEW e \in draft.sealed, NEW h \in Heroes, NEW viewer \in Sides,
                      viewer # e.side,
                      ~\E f \in draft.sealed : f.side = e.side /\ f.heroId = h,
                      NEW twin, twin = [draft EXCEPT !.sealed = (@ \ {e}) \cup {[e EXCEPT !.heroId = h]}]
               PROVE  /\ Project(twin, viewer) = Project(draft, viewer)
                      /\ \A slot \in {s \in draft.openSlots : s.side = viewer}, g \in Heroes :
                           IsSealedSelectionLegal(twin, slot, g) = IsSealedSelectionLegal(draft, slot, g)
    BY DEF SealedPicksStayHidden
  <2> DEFINE x == [e EXCEPT !.heroId = h]
  <2>1. draft \in Drafts /\ HeldOnce(draft) /\ e \in SealedSelections
    BY DEF IInv, Sound, Drafts
  <2>2. x.side = e.side /\ x.heroId = h
    BY <2>1 DEF SealedSelections
  <2>3. /\ twin.sealed = (draft.sealed \ {e}) \cup {x}
        /\ twin.status = draft.status /\ twin.phase = draft.phase /\ twin.round = draft.round
        /\ twin.banResolutionComplete = draft.banResolutionComplete
        /\ twin.bannedHeroes = draft.bannedHeroes /\ twin.confirmedPicks = draft.confirmedPicks
        /\ twin.pendingCollision = draft.pendingCollision /\ twin.openSlots = draft.openSlots
    BY <2>1 DEF Drafts
  <2> HIDE DEF x
  <2> DEFINE hidden == {f \in draft.sealed : f.side # viewer}
  <2> DEFINE twins == {f \in twin.sealed : f.side # viewer}
  <2>4. {f \in twin.sealed : f.side = viewer} = {f \in draft.sealed : f.side = viewer}
    BY <2>2, <2>3
  <2>5. Cardinality(twins) = Cardinality(hidden)
    <3>1. twins = (hidden \ {e}) \cup {x}
      BY <2>2, <2>3
    <3>2. e \in hidden /\ x \notin hidden
      BY <2>2
    <3>3. IsFiniteSet(hidden) /\ Cardinality(hidden) \in Nat
      BY <2>1, SealedFinite, FS_Subset, FS_CardinalityType
    <3> HIDE DEF hidden, twins
    <3>4. IsFiniteSet(hidden \ {e}) /\ Cardinality(hidden \ {e}) = Cardinality(hidden) - 1
      BY <3>2, <3>3, FS_RemoveElement
    <3>5. Cardinality((hidden \ {e}) \cup {x}) = Cardinality(hidden \ {e}) + 1
      BY <3>2, <3>4, FS_AddElement
    <3>6. QED BY <3>1, <3>3, <3>4, <3>5
  <2>6. Project(twin, viewer) = Project(draft, viewer)
    BY <2>3, <2>4, <2>5 DEF Project
  <2>7. ASSUME NEW slot \in {s \in draft.openSlots : s.side = viewer}, NEW g \in Heroes
        PROVE  IsSealedSelectionLegal(twin, slot, g) <=> IsSealedSelectionLegal(draft, slot, g)
    BY <2>3, <2>4 DEF IsSealedSelectionLegal, HeroAlreadyTaken
  <2>8. ASSUME NEW slot \in {s \in draft.openSlots : s.side = viewer}, NEW g \in Heroes
        PROVE  IsSealedSelectionLegal(twin, slot, g) = IsSealedSelectionLegal(draft, slot, g)
    <3>1. /\ IsSealedSelectionLegal(twin, slot, g) \in BOOLEAN
          /\ IsSealedSelectionLegal(draft, slot, g) \in BOOLEAN
      BY DEF IsSealedSelectionLegal
    <3>2. QED BY <2>7, <3>1
  <2>9. QED BY <2>6, <2>8
<1>2. QED BY <1>1, SoundAlways, PTL

----------------------------------------------------------------------------
(* Replaying a log                                                         *)

Fresh == [draft |-> NewDraft, log |-> <<>>]

(* What replaying the first N commands of s passes through.                *)
Runs(f, s, N) ==
  f = [n \in 0..N |-> IF n = 0 THEN Fresh ELSE ApplyProtocolCommand(f[n - 1], s[n])]

(* There is such a passage.                                                *)
LEMMA RunExists ==
  ASSUME NEW s, NEW N \in Nat
  PROVE  \E f : Runs(f, s, N)
<1> DEFINE Stuck == {m \in 0..N : ~\E f : Runs(f, s, m)}
<1>1. ASSUME Stuck # {} PROVE FALSE
  <2>1. PICK m \in Stuck : \A k \in Stuck : m <= k
    <3>1. Stuck \in SUBSET Nat
      OBVIOUS
    <3> HIDE DEF Stuck
    <3>2. QED BY <1>1, <3>1, LeastNatural
  <2>2. m \in 0..N /\ ~\E f : Runs(f, s, m)
    OBVIOUS
  <2>3. m # 0
    <3>1. Runs([n \in 0..0 |-> Fresh], s, 0)
      BY DEF Runs
    <3>2. QED BY <2>2, <3>1
  <2>4. m - 1 \in 0..N /\ m - 1 \notin Stuck
    <3>1. m - 1 \in 0..N /\ ~(m <= m - 1)
      BY <2>2, <2>3
    <3> HIDE DEF Stuck
    <3>2. QED BY <2>1, <3>1
  <2>5. PICK f : Runs(f, s, m - 1)
    BY <2>4
  <2> DEFINE g == [n \in 0..m |-> IF n = m THEN ApplyProtocolCommand(f[m - 1], s[m]) ELSE f[n]]
  <2>6. \A n \in 0..(m - 1) : f[n] = IF n = 0 THEN Fresh ELSE ApplyProtocolCommand(f[n - 1], s[n])
    BY <2>5 DEF Runs
  <2>7. ASSUME NEW n \in 0..m
        PROVE  g[n] = IF n = 0 THEN Fresh ELSE ApplyProtocolCommand(g[n - 1], s[n])
    <3>1. CASE n = 0
      BY <2>2, <2>3, <2>6, <3>1
    <3>2. CASE n # 0
      <4>1. g[n - 1] = f[n - 1]
        BY <2>2, <3>2
      <4>2. CASE n = m
        BY <2>2, <2>3, <4>1, <4>2
      <4>3. CASE n # m
        <5>1. n \in 0..(m - 1) /\ g[n] = f[n]
          BY <2>2, <4>3
        <5>2. QED BY <2>6, <3>2, <4>1, <5>1
      <4>4. QED BY <4>2, <4>3
    <3>3. QED BY <3>1, <3>2
  <2>8. g = [n \in 0..m |-> g[n]]
    OBVIOUS
  <2> HIDE DEF g
  <2>9. Runs(g, s, m)
    BY <2>7, <2>8 DEF Runs
  <2>10. QED BY <2>2, <2>9
<1>2. N \notin Stuck
  BY <1>1
<1>3. QED BY <1>2

(* Two logs with one beginning pass through the same.                      *)
LEMMA RunsAgree ==
  ASSUME NEW s, NEW N \in Nat, NEW f, Runs(f, s, N),
         NEW t, NEW M \in Nat, NEW g, Runs(g, t, M),
         NEW k \in Nat, k <= N, k <= M, \A i \in 1..k : s[i] = t[i]
  PROVE  f[k] = g[k]
<1> DEFINE Apart == {m \in 0..k : f[m] # g[m]}
<1>1. /\ \A n \in 0..N : f[n] = IF n = 0 THEN Fresh ELSE ApplyProtocolCommand(f[n - 1], s[n])
      /\ \A n \in 0..M : g[n] = IF n = 0 THEN Fresh ELSE ApplyProtocolCommand(g[n - 1], t[n])
  BY DEF Runs
<1>2. ASSUME Apart # {} PROVE FALSE
  <2>1. PICK m \in Apart : \A j \in Apart : m <= j
    <3>1. Apart \in SUBSET Nat
      OBVIOUS
    <3> HIDE DEF Apart
    <3>2. QED BY <1>2, <3>1, LeastNatural
  <2>2. m \in 0..k /\ f[m] # g[m] /\ m \in 0..N /\ m \in 0..M
    OBVIOUS
  <2>3. m # 0
    BY <1>1, <2>2
  <2>4. m - 1 \in 0..k /\ m - 1 \notin Apart
    <3>1. m - 1 \in 0..k /\ ~(m <= m - 1)
      BY <2>2, <2>3
    <3> HIDE DEF Apart
    <3>2. QED BY <2>1, <3>1
  <2>5. f[m - 1] = g[m - 1] /\ s[m] = t[m]
    BY <2>2, <2>3, <2>4
  <2>6. QED BY <1>1, <2>2, <2>3, <2>5
<1>3. k \notin Apart
  BY <1>2
<1>4. QED BY <1>3

(* Replay returns where the passage ends.                                  *)
LEMMA ReplayRuns ==
  ASSUME NEW S, NEW s \in Seq(S)
  PROVE  \E f : Runs(f, s, Len(s)) /\ Replay(s) = f[Len(s)]
<1> DEFINE after == CHOOSE f : f = [n \in 0..Len(s) |-> IF n = 0 THEN [draft |-> NewDraft, log |-> <<>>]
                                                       ELSE ApplyProtocolCommand(f[n - 1], s[n])]
<1>1. Replay(s) = after[Len(s)]
  BY DEF Replay
<1>2. \E f : f = [n \in 0..Len(s) |-> IF n = 0 THEN [draft |-> NewDraft, log |-> <<>>]
                                     ELSE ApplyProtocolCommand(f[n - 1], s[n])]
  BY RunExists DEF Runs, Fresh
<1>3. Runs(after, s, Len(s))
  BY <1>2 DEF Runs, Fresh
<1>4. QED BY <1>1, <1>3

(* Replaying a log is replaying all but its last command and then that.    *)
LEMMA ReplayStep ==
  ASSUME NEW S, NEW s \in Seq(S)
  PROVE  /\ Replay(SubSeq(s, 1, 0)) = Fresh
         /\ SubSeq(s, 1, Len(s)) = s
         /\ \A k \in 1..Len(s) :
              Replay(SubSeq(s, 1, k)) = ApplyProtocolCommand(Replay(SubSeq(s, 1, k - 1)), s[k])
<1>1. PICK f : Runs(f, s, Len(s))
  BY ReplayRuns
<1>2. ASSUME NEW k \in 0..Len(s) PROVE Replay(SubSeq(s, 1, k)) = f[k]
  <2> DEFINE t == SubSeq(s, 1, k)
  <2>1. t \in Seq(S) /\ Len(t) = k /\ \A i \in 1..k : t[i] = s[i]
    OBVIOUS
  <2> HIDE DEF t
  <2>2. PICK g : Runs(g, t, k) /\ Replay(t) = g[k]
    BY <2>1, ReplayRuns
  <2>3. g[k] = f[k]
    BY <1>1, <2>1, <2>2, RunsAgree
  <2>4. QED BY <2>2, <2>3 DEF t
<1>3. \A n \in 0..Len(s) : f[n] = IF n = 0 THEN Fresh ELSE ApplyProtocolCommand(f[n - 1], s[n])
  BY <1>1 DEF Runs
<1>4. f[0] = Fresh /\ \A k \in 1..Len(s) : f[k] = ApplyProtocolCommand(f[k - 1], s[k])
  BY <1>3
<1>5. SubSeq(s, 1, Len(s)) = s
  OBVIOUS
<1>6. \A k \in 1..Len(s) : k \in 0..Len(s) /\ k - 1 \in 0..Len(s)
  OBVIOUS
<1>7. 0 \in 0..Len(s)
  OBVIOUS
<1>8. QED BY <1>2, <1>4, <1>5, <1>6, <1>7

(* So a command at the end of a log is applied to what the log leads to.   *)
LEMMA ReplayAppend ==
  ASSUME NEW S, NEW s \in Seq(S), NEW c \in S
  PROVE  Replay(Append(s, c)) = ApplyProtocolCommand(Replay(s), c)
<1> DEFINE t == Append(s, c)
           n == Len(s) + 1
<1>1. t \in Seq(S) /\ Len(t) = n /\ n \in 1..n /\ t[n] = c
  OBVIOUS
<1>2. SubSeq(t, 1, n - 1) = s
  OBVIOUS
<1> HIDE DEF t, n
<1>3. SubSeq(t, 1, n) = t
  BY <1>1, ReplayStep
<1>4. Replay(SubSeq(t, 1, n)) = ApplyProtocolCommand(Replay(SubSeq(t, 1, n - 1)), t[n])
  BY <1>1, ReplayStep
<1>5. QED BY <1>1, <1>2, <1>3, <1>4 DEF t

----------------------------------------------------------------------------
(* Sealing a batch, in any order                                           *)

(* The commands that seal a selection, and every command.                  *)
SealedCommands ==
  [type : {"SUBMIT_SEALED_SELECTION"}, slot : [side : Sides, slotIndex : Nat], heroId : Heroes]

EntryOf(c) == Entry(c.slot, c.heroId)
EntriesOf(b, m) == {EntryOf(b[i]) : i \in 1..m}
Fills(b, m, slots) == slots = {b[i].slot : i \in 1..m}

(* The draft d0 with E sealed and no more.                                 *)
Holding(d0, E) == [d0 EXCEPT !.openSlots = @ \ SlotsOf(E), !.sealed = E]

(* The commands b may be sealed in d0, where nothing is sealed yet.        *)
Batch(d0, b) ==
  /\ d0 \in Drafts /\ d0.round # 0 /\ d0.pendingCollision = NoHero /\ d0.sealed = {}
  /\ IsFiniteSet(d0.openSlots)
  /\ b \in Seq(SealedCommands)
  /\ \A i \in 1..Len(b) : b[i].slot \in d0.openSlots /\ ~HeroAlreadyTaken(d0, b[i].heroId)
  /\ \A i, j \in 1..Len(b) :
       i # j => /\ b[i].slot # b[j].slot
                /\ ~(b[i].slot.side = b[j].slot.side /\ b[i].heroId = b[j].heroId)

(* A command's entry has the command's fields.                             *)
LEMMA EntryFields ==
  ASSUME NEW c \in SealedCommands
  PROVE  /\ EntryOf(c) \in SealedSelections
         /\ SlotOf(EntryOf(c)) = c.slot /\ EntryOf(c).heroId = c.heroId /\ EntryOf(c).side = c.slot.side
         /\ c.slot \in [side : Sides, slotIndex : Nat] /\ c.heroId \in Heroes
         /\ c.type = "SUBMIT_SEALED_SELECTION"
         /\ c = SealedCommand(c.slot, c.heroId)
BY DEF EntryOf, Entry, SealedCommands, SealedSelections, SlotOf, SealedCommand

(* How the first m commands of a batch leave the draft.                    *)
LEMMA HoldingFields ==
  ASSUME NEW d0, NEW b, Batch(d0, b), NEW m \in 0..Len(b)
  PROVE  LET P == Holding(d0, EntriesOf(b, m)) IN
         /\ P \in Drafts
         /\ P.openSlots = d0.openSlots \ {b[i].slot : i \in 1..m}
         /\ P.sealed = EntriesOf(b, m)
         /\ P.round = d0.round /\ P.pendingCollision = NoHero
         /\ P.bannedHeroes = d0.bannedHeroes /\ P.confirmedPicks = d0.confirmedPicks
         /\ IsFiniteSet(P.openSlots)
         /\ IsFiniteSet(P.sealed) /\ Cardinality(P.sealed) = m
<1> DEFINE E == EntriesOf(b, m)
           P == Holding(d0, E)
<1>1. /\ b \in Seq(SealedCommands) /\ d0 \in Drafts /\ Len(b) \in Nat
      /\ \A i \in 1..m : i \in 1..Len(b) /\ b[i] \in SealedCommands
  BY DEF Batch
<1>2. E \subseteq SealedSelections /\ SlotsOf(E) = {b[i].slot : i \in 1..m}
  <2>1. \A i \in 1..m : EntryOf(b[i]) \in SealedSelections /\ SlotOf(EntryOf(b[i])) = b[i].slot
    BY <1>1, EntryFields
  <2>2. QED BY <2>1 DEF EntriesOf, SlotsOf
<1>3. \A i, j \in 1..m : EntryOf(b[i]) = EntryOf(b[j]) => i = j
  <2>1. ASSUME NEW i \in 1..m, NEW j \in 1..m, EntryOf(b[i]) = EntryOf(b[j]) PROVE i = j
    <3>1. b[i].slot = b[j].slot
      BY <1>1, <2>1, EntryFields
    <3>2. QED BY <1>1, <3>1 DEF Batch
  <2>2. QED BY <2>1
<1>4. IsFiniteSet(E) /\ Cardinality(E) = m
  <2> DEFINE f == [i \in 1..m |-> EntryOf(b[i])]
  <2>1. f \in Bijection(1..m, E)
    <3>1. f \in [1..m -> E] /\ \A e \in E : \E i \in 1..m : f[i] = e
      BY DEF EntriesOf
    <3>2. \A i, j \in 1..m : f[i] = f[j] => i = j
      BY <1>3
    <3> HIDE DEF f, E
    <3>3. QED BY <3>1, <3>2 DEF Bijection, Injection, Surjection, IsInjective
  <2> HIDE DEF f, E
  <2>2. IsFiniteSet(1..m) /\ Cardinality(1..m) = m
    BY FS_Interval
  <2>3. QED BY <2>1, <2>2, FS_Bijection DEF ExistsBijection
<1> HIDE DEF E
<1>5. P = [d0 EXCEPT !.openSlots = d0.openSlots \ SlotsOf(E), !.sealed = E]
  BY DEF Holding
<1> HIDE DEF P
<1>6. /\ P \in Drafts /\ P.openSlots = d0.openSlots \ SlotsOf(E) /\ P.sealed = E
      /\ P.round = d0.round /\ P.pendingCollision = d0.pendingCollision
      /\ P.bannedHeroes = d0.bannedHeroes /\ P.confirmedPicks = d0.confirmedPicks
  BY <1>1, <1>2, <1>5 DEF Drafts
<1>7. d0.pendingCollision = NoHero /\ IsFiniteSet(d0.openSlots)
  BY DEF Batch
<1>8. IsFiniteSet(P.openSlots)
  BY <1>6, <1>7, FS_Subset
<1>9. QED BY <1>2, <1>4, <1>6, <1>7, <1>8 DEF E, P

(* The next command of a batch is legal, and seals one entry more.         *)
LEMMA HoldingSeals ==
  ASSUME NEW d0, NEW b, Batch(d0, b), NEW m \in 1..Len(b)
  PROVE  LET P == Holding(d0, EntriesOf(b, m - 1)) IN
         /\ IsSealedSelectionLegal(P, b[m].slot, b[m].heroId)
         /\ Seal(P, b[m].slot, b[m].heroId) = Holding(d0, EntriesOf(b, m))
<1> DEFINE P == Holding(d0, EntriesOf(b, m - 1))
           Q == Holding(d0, EntriesOf(b, m))
           c == b[m]
<1>1. /\ m - 1 \in 0..Len(b) /\ m \in 0..Len(b) /\ d0 \in Drafts /\ d0.round # 0
      /\ \A i \in 1..(m - 1) : i \in 1..m /\ i # m
      /\ \A i \in 1..m : i \in 1..Len(b) /\ b[i] \in SealedCommands /\ (i = m \/ i \in 1..(m - 1))
  BY DEF Batch
<1>2. /\ P.openSlots = d0.openSlots \ {b[i].slot : i \in 1..(m - 1)}
      /\ P.sealed = EntriesOf(b, m - 1) /\ P.round = d0.round
      /\ P.bannedHeroes = d0.bannedHeroes /\ P.confirmedPicks = d0.confirmedPicks
  BY <1>1, HoldingFields
<1>3. c.slot \in P.openSlots
  BY <1>1, <1>2 DEF Batch
<1>4. ~HeroAlreadyTaken(P, c.heroId)
  BY <1>1, <1>2 DEF Batch, HeroAlreadyTaken
<1>5. ~\E e \in P.sealed : e.side = c.slot.side /\ e.heroId = c.heroId
  <2>1. ASSUME NEW i \in 1..(m - 1) PROVE ~(EntryOf(b[i]).side = c.slot.side /\ EntryOf(b[i]).heroId = c.heroId)
    <3>1. EntryOf(b[i]).side = b[i].slot.side /\ EntryOf(b[i]).heroId = b[i].heroId
      BY <1>1, EntryFields
    <3>2. QED BY <1>1, <3>1 DEF Batch
  <2>2. QED BY <1>2, <2>1 DEF EntriesOf
<1>6. IsSealedSelectionLegal(P, c.slot, c.heroId)
  BY <1>1, <1>2, <1>3, <1>4, <1>5 DEF IsSealedSelectionLegal
<1>7. Seal(P, c.slot, c.heroId) = Q
  <2> DEFINE E == EntriesOf(b, m - 1)
             F == EntriesOf(b, m)
  <2>1. F = E \cup {EntryOf(c)}
    BY <1>1 DEF EntriesOf
  <2>2. SlotsOf(F) = SlotsOf(E) \cup {c.slot}
    BY <1>1, <2>1, EntryFields DEF SlotsOf
  <2>3. Seal(P, c.slot, c.heroId) = [P EXCEPT !.openSlots = P.openSlots \ {c.slot},
                                             !.sealed = P.sealed \cup {EntryOf(c)}]
    BY DEF Seal, EntryOf, Entry
  <2>4. P = [d0 EXCEPT !.openSlots = d0.openSlots \ SlotsOf(E), !.sealed = E]
    BY DEF Holding
  <2>5. Q = [d0 EXCEPT !.openSlots = d0.openSlots \ SlotsOf(F), !.sealed = F]
    BY DEF Holding
  <2> HIDE DEF P, Q, E, F, c
  <2>6. P.openSlots = d0.openSlots \ SlotsOf(E) /\ P.sealed = E
    BY <1>1, <2>4 DEF Drafts
  <2>7. (d0.openSlots \ SlotsOf(E)) \ {c.slot} = d0.openSlots \ SlotsOf(F)
    BY <2>2
  <2>8. QED BY <1>1, <2>1, <2>3, <2>4, <2>5, <2>6, <2>7 DEF Drafts
<1>8. QED BY <1>6, <1>7

(* A command that leaves a slot of the batch open is appended to the log.  *)
LEMMA SealsOpen ==
  ASSUME NEW d0, NEW b, Batch(d0, b), NEW m \in 1..Len(b),
         d0.openSlots # {b[i].slot : i \in 1..m}, NEW l
  PROVE  LET P == Holding(d0, EntriesOf(b, m - 1)) IN
         /\ Accepts(P, b[m])
         /\ ApplyProtocolCommand([draft |-> P, log |-> l], b[m]) =
              [draft |-> Holding(d0, EntriesOf(b, m)), log |-> Append(l, b[m])]
<1> DEFINE P == Holding(d0, EntriesOf(b, m - 1))
           Q == Holding(d0, EntriesOf(b, m))
           c == b[m]
<1>1. /\ m \in 0..Len(b) /\ m - 1 \in 0..Len(b) /\ c \in SealedCommands
      /\ \A i \in 1..m : b[i].slot \in d0.openSlots
  BY DEF Batch
<1>2. /\ P \in Drafts /\ Q.openSlots = d0.openSlots \ {b[i].slot : i \in 1..m}
      /\ P.round = d0.round /\ P.pendingCollision = NoHero /\ IsFiniteSet(P.openSlots)
  BY <1>1, HoldingFields
<1>3. IsSealedSelectionLegal(P, c.slot, c.heroId) /\ Seal(P, c.slot, c.heroId) = Q
  BY HoldingSeals
<1>4. c.type = "SUBMIT_SEALED_SELECTION"
  BY <1>1, EntryFields
<1> HIDE DEF P, Q, c
<1>5. Q.openSlots # {}
  BY <1>1, <1>2
<1>6. Q.openSlots = P.openSlots \ {c.slot}
  BY <1>2, <1>3 DEF Seal, Drafts
<1>7. ~ClosesBatch(P, c.slot)
  BY <1>5, <1>6 DEF ClosesBatch
<1>8. Cardinality(P.openSlots) # 1
  <2>1. c.slot \in P.openSlots
    BY <1>3 DEF IsSealedSelectionLegal
  <2>2. \A x : P.openSlots # {x}
    BY <1>5, <1>6, <2>1
  <2>3. QED BY <1>2, <2>2, FS_Singleton
<1>9. Accepts(P, c) /\ Apply(P, c) = Q
  BY <1>2, <1>3, <1>4, <1>7 DEF Accepts, Apply, AcceptsSealedSelection, SubmitSealedSelection
<1>10. LogWith(P, l, c) = Append(l, c)
  BY <1>8 DEF LogWith
<1>11. QED BY <1>9, <1>10 DEF ApplyProtocolCommand, P, Q, c

(* A log and what follows it.                                              *)
LEMMA Joins ==
  ASSUME NEW S, NEW s \in Seq(S), NEW t \in Seq(S)
  PROVE  /\ s \o t \in Seq(S) /\ Len(s \o t) = Len(s) + Len(t)
         /\ Len(s) \in Nat /\ Len(t) \in Nat
         /\ SubSeq(s \o t, 1, Len(s)) = s
         /\ SubSeq(s \o t, Len(s) + 1, Len(s) + Len(t)) = t
         /\ \A i \in 1..Len(s) : (s \o t)[i] = s[i] /\ SubSeq(s \o t, 1, i - 1) = SubSeq(s, 1, i - 1)
         /\ \A i \in 1..Len(t) : (s \o t)[Len(s) + i] = t[i]
         /\ \A i \in 0..Len(t) : SubSeq(s \o t, 1, Len(s) + i) = s \o SubSeq(t, 1, i)
<1>1. s \o t \in Seq(S) /\ Len(s \o t) = Len(s) + Len(t) /\ Len(s) \in Nat /\ Len(t) \in Nat
  OBVIOUS
<1>2. SubSeq(s \o t, 1, Len(s)) = s
  OBVIOUS
<1>3. SubSeq(s \o t, Len(s) + 1, Len(s) + Len(t)) = t
  OBVIOUS
<1>4. ASSUME NEW i \in 1..Len(s)
      PROVE  (s \o t)[i] = s[i] /\ SubSeq(s \o t, 1, i - 1) = SubSeq(s, 1, i - 1)
  OBVIOUS
<1>5. ASSUME NEW i \in 1..Len(t) PROVE (s \o t)[Len(s) + i] = t[i]
  OBVIOUS
<1>6. ASSUME NEW i \in 0..Len(t) PROVE SubSeq(s \o t, 1, Len(s) + i) = s \o SubSeq(t, 1, i)
  OBVIOUS
<1>7. QED BY <1>1, <1>2, <1>3, <1>4, <1>5, <1>6

(* The command that seals the last slot resolves the batch and sorts it.   *)
LEMMA SealsLast ==
  ASSUME NEW d0, NEW b, Batch(d0, b), NEW m \in 1..Len(b), m = Len(b),
         Fills(b, m, d0.openSlots), ~ResolutionFails(Holding(d0, EntriesOf(b, m))),
         NEW S, NEW l0 \in Seq(S), SealedCommands \subseteq S
  PROVE  LET P == Holding(d0, EntriesOf(b, m - 1))
             l == l0 \o SubSeq(b, 1, m - 1) IN
         /\ Accepts(P, b[m])
         /\ ApplyProtocolCommand([draft |-> P, log |-> l], b[m]) =
              [draft |-> ResolveRound(Holding(d0, EntriesOf(b, m))), log |-> l0 \o Canonical(b)]
<1> DEFINE P == Holding(d0, EntriesOf(b, m - 1))
           Q == Holding(d0, EntriesOf(b, m))
           c == b[m]
           l == l0 \o SubSeq(b, 1, m - 1)
<1>1. /\ m \in Nat /\ m \in 0..Len(b) /\ m - 1 \in 0..Len(b) /\ c \in SealedCommands /\ d0.round # 0
      /\ \A i \in 1..m : b[i].slot \in d0.openSlots
      /\ \A i \in 1..(m - 1) : i \in 1..m /\ b[i].slot # c.slot
      /\ \A i \in 1..m : i = m \/ i \in 1..(m - 1)
  BY DEF Batch
<1>2. /\ P \in Drafts /\ P.openSlots = d0.openSlots \ {b[i].slot : i \in 1..(m - 1)}
      /\ P.round = d0.round /\ P.pendingCollision = NoHero
      /\ Cardinality(P.sealed) = m - 1
  <2> DEFINE k == m - 1
  <2>1. k \in 0..Len(b)
    BY <1>1
  <2> HIDE DEF k
  <2>2. /\ Holding(d0, EntriesOf(b, k)) \in Drafts
        /\ Holding(d0, EntriesOf(b, k)).openSlots = d0.openSlots \ {b[i].slot : i \in 1..k}
        /\ Holding(d0, EntriesOf(b, k)).round = d0.round
        /\ Holding(d0, EntriesOf(b, k)).pendingCollision = NoHero
        /\ Cardinality(Holding(d0, EntriesOf(b, k)).sealed) = k
    BY <2>1, HoldingFields
  <2>3. QED BY <2>2 DEF k
<1>3. IsSealedSelectionLegal(P, c.slot, c.heroId) /\ Seal(P, c.slot, c.heroId) = Q
  BY <1>1, HoldingSeals
<1>4. c.type = "SUBMIT_SEALED_SELECTION"
  BY <1>1, EntryFields
<1>5. P.openSlots = {c.slot}
  <2>1. \A s \in d0.openSlots : s = c.slot \/ \E i \in 1..(m - 1) : s = b[i].slot
    <3>1. ASSUME NEW s \in d0.openSlots PROVE s = c.slot \/ \E i \in 1..(m - 1) : s = b[i].slot
      <4>1. PICK i \in 1..m : s = b[i].slot
        BY <3>1 DEF Fills
      <4>2. QED BY <1>1, <4>1
    <3>2. QED BY <3>1
  <2>2. c.slot \in d0.openSlots
    BY <1>1
  <2>3. \A i \in 1..(m - 1) : b[i].slot # c.slot
    BY <1>1
  <2>4. P.openSlots = d0.openSlots \ {b[i].slot : i \in 1..(m - 1)}
    BY <1>2
  <2> HIDE DEF P, c
  <2>5. QED BY <2>1, <2>2, <2>3, <2>4
<1>6. l = l0 \o SubSeq(b, 1, m - 1)
  OBVIOUS
<1>7. ~ResolutionFails(Q)
  OBVIOUS
<1> HIDE DEF P, Q, c, l
<1>8. ClosesBatch(P, c.slot) /\ Cardinality(P.openSlots) = 1
  BY <1>5, FS_Singleton DEF ClosesBatch
<1>9. Accepts(P, c) /\ Apply(P, c) = ResolveRound(Q)
  BY <1>2, <1>3, <1>4, <1>7, <1>8 DEF Accepts, Apply, AcceptsSealedSelection, SubmitSealedSelection
<1>10. /\ Append(l, c) = l0 \o b /\ Len(Append(l, c)) = Len(l0) + m
       /\ SubSeq(l0 \o b, 1, Len(l0)) = l0 /\ SubSeq(l0 \o b, Len(l0) + 1, Len(l0) + m) = b
       /\ Len(l0) \in Nat
  <2>1. b \in Seq(S) /\ m = Len(b) /\ c = b[m]
    BY DEF Batch, c
  <2>2. b = Append(SubSeq(b, 1, m - 1), c)
    BY <1>1, <2>1
  <2>3. Append(l, c) = l0 \o b
    <3> DEFINE t == SubSeq(b, 1, m - 1)
    <3>1. t \in Seq(S) /\ c \in S
      BY <1>1, <2>1
    <3>2. l = l0 \o t /\ b = Append(t, c)
      BY <1>6, <2>2
    <3> HIDE DEF t
    <3>3. Append(l0 \o t, c) = l0 \o Append(t, c)
      BY <3>1
    <3>4. QED BY <3>2, <3>3
  <2>4. QED BY <2>1, <2>3, Joins
<1>11. LogWith(P, l, c) = l0 \o Canonical(b)
  <2>1. BatchSize(P) = m
    BY <1>1, <1>2 DEF BatchSize
  <2>2. P.round # 0
    BY <1>1, <1>2
  <2>3. Len(l0) + m - m = Len(l0)
    <3>1. m \in Nat /\ Len(l0) \in Nat
      BY <1>1, <1>10
    <3>2. QED BY <3>1
  <2> DEFINE a == Append(l, c)
  <2>4. /\ Len(a) - BatchSize(P) = Len(l0) /\ SubSeq(a, 1, Len(l0)) = l0
        /\ SubSeq(a, Len(l0) + 1, Len(a)) = b
    BY <1>10, <2>1, <2>3
  <2>5. LogWith(P, l, c) = SubSeq(a, 1, Len(a) - BatchSize(P))
                            \o Canonical(SubSeq(a, Len(a) - BatchSize(P) + 1, Len(a)))
    BY <1>4, <1>8, <2>2 DEF LogWith
  <2> HIDE DEF a
  <2>6. QED BY <2>4, <2>5
<1>12. QED BY <1>9, <1>11 DEF ApplyProtocolCommand, P, Q, c, l

Commands ==
  [type : {"RESOLVED_BANS"}, heroes : SUBSET Heroes] \cup {CompleteCommand} \cup SealedCommands
    \cup [type : {"APPLY_AUTHORITATIVE_COLLISION_RESOLUTION"}, heroId : Heroes,
          winner : [side : Sides, slotIndex : Nat]]

(* No command of a log is refused when the log is replayed.                *)
Accepted(l, k) == Accepts(Replay(SubSeq(l, 1, k - 1)).draft, l[k])

(* A log whose draft has nothing sealed yet, and part of a batch after it. *)
LEMMA BatchReplays ==
  ASSUME NEW l0 \in Seq(Commands), NEW d0, Replay(l0) = [draft |-> d0, log |-> l0],
         NEW b, Batch(d0, b), NEW k \in 0..Len(b), d0.openSlots # {b[i].slot : i \in 1..k}
  PROVE  /\ Replay(l0 \o SubSeq(b, 1, k)) =
              [draft |-> Holding(d0, EntriesOf(b, k)), log |-> l0 \o SubSeq(b, 1, k)]
         /\ \A m \in 1..k : Accepted(l0 \o b, Len(l0) + m)
<1> DEFINE n == Len(l0)
           s == l0 \o b
           At(m) == [draft |-> Holding(d0, EntriesOf(b, m)), log |-> SubSeq(s, 1, n + m)]
           Astray == {m \in 0..k : Replay(SubSeq(s, 1, n + m)) # At(m)}
<1>1. b \in Seq(Commands) /\ b \in Seq(SealedCommands) /\ SealedCommands \subseteq Commands
  BY DEF Batch, Commands
<1>2. /\ s \in Seq(Commands) /\ Len(s) = n + Len(b) /\ n \in Nat /\ Len(b) \in Nat
      /\ SubSeq(s, 1, n) = l0
      /\ \A i \in 1..Len(b) : s[n + i] = b[i]
      /\ \A i \in 0..Len(b) : SubSeq(s, 1, n + i) = l0 \o SubSeq(b, 1, i)
  <2>1. b \in Seq(Commands)
    BY <1>1
  <2>2. QED BY <2>1, Joins
<1> HIDE DEF n, s
<1>3. At(0) = [draft |-> d0, log |-> l0]
  <2>1. EntriesOf(b, 0) = {}
    BY DEF EntriesOf
  <2>2. SlotsOf({}) = {}
    BY DEF SlotsOf
  <2>3. Holding(d0, {}) = d0
    <3>1. d0 \in Drafts /\ d0.sealed = {}
      BY DEF Batch
    <3>2. Holding(d0, {}) = [d0 EXCEPT !.openSlots = d0.openSlots \ {}, !.sealed = {}]
      BY <2>2 DEF Holding
    <3>3. d0.openSlots \ {} = d0.openSlots
      OBVIOUS
    <3>4. QED BY <3>1, <3>2, <3>3 DEF Drafts
  <2>4. SubSeq(s, 1, n + 0) = l0
    BY <1>2
  <2>5. QED BY <2>1, <2>3, <2>4
<1>4. ASSUME NEW m \in 1..k, Replay(SubSeq(s, 1, n + (m - 1))) = At(m - 1)
      PROVE  Replay(SubSeq(s, 1, n + m)) = At(m) /\ Accepted(s, n + m)
  <2>1. m \in 1..Len(b) /\ \A i \in 1..m : i \in 1..k
    BY <1>2
  <2>2. d0.openSlots # {b[i].slot : i \in 1..m}
    <3>1. \A i \in 1..k : b[i].slot \in d0.openSlots
      BY <1>2 DEF Batch
    <3>2. QED BY <2>1, <3>1
  <2>3. /\ Accepts(Holding(d0, EntriesOf(b, m - 1)), b[m])
        /\ ApplyProtocolCommand(At(m - 1), b[m]) =
             [draft |-> Holding(d0, EntriesOf(b, m)), log |-> Append(SubSeq(s, 1, n + (m - 1)), b[m])]
    BY <2>1, <2>2, SealsOpen
  <2> DEFINE j == n + m
  <2>4. s[j] = b[m] /\ j \in 1..Len(s) /\ n + (m - 1) = j - 1
    <3>1. m \in Nat /\ n \in Nat /\ m <= Len(b) /\ Len(s) = n + Len(b)
      BY <1>2, <2>1
    <3>2. s[n + m] = b[m]
      BY <1>2, <2>1
    <3>3. n + m \in 1..Len(s) /\ n + (m - 1) = (n + m) - 1
      BY <2>1, <3>1
    <3>4. QED BY <3>2, <3>3
  <2> HIDE DEF j, At
  <2>5. Append(SubSeq(s, 1, j - 1), s[j]) = SubSeq(s, 1, j)
    BY <1>2, <2>4
  <2>6. Replay(SubSeq(s, 1, j)) = ApplyProtocolCommand(Replay(SubSeq(s, 1, j - 1)), s[j])
    BY <1>2, <2>4, ReplayStep
  <2>7. Replay(SubSeq(s, 1, j)) = At(m)
    <3>1. ApplyProtocolCommand(At(m - 1), b[m]) =
            [draft |-> Holding(d0, EntriesOf(b, m)), log |-> SubSeq(s, 1, j)]
      BY <2>3, <2>4, <2>5
    <3>2. QED BY <1>4, <2>4, <2>6, <3>1 DEF At, j
  <2>8. Accepted(s, j)
    <3>1. Replay(SubSeq(s, 1, j - 1)).draft = Holding(d0, EntriesOf(b, m - 1))
      BY <1>4, <2>4 DEF At
    <3>2. QED BY <2>3, <2>4, <3>1 DEF Accepted
  <2>9. QED BY <2>7, <2>8 DEF j
<1>5. ASSUME Astray # {} PROVE FALSE
  <2>1. PICK m \in Astray : \A j \in Astray : m <= j
    <3>1. Astray \in SUBSET Nat
      BY <1>2
    <3> HIDE DEF Astray
    <3>2. QED BY <1>5, <3>1, LeastNatural
  <2>2. m \in 0..k /\ Replay(SubSeq(s, 1, n + m)) # At(m)
    OBVIOUS
  <2>3. m # 0
    <3>1. Replay(SubSeq(s, 1, n + 0)) = At(0)
      BY <1>2, <1>3
    <3> HIDE DEF At
    <3>2. QED BY <2>2, <3>1
  <2>4. m \in 1..k /\ m - 1 \in 0..k /\ m - 1 \notin Astray
    <3>1. m \in 1..k /\ m - 1 \in 0..k /\ ~(m <= m - 1)
      BY <1>2, <2>2, <2>3
    <3> HIDE DEF Astray
    <3>2. QED BY <2>1, <3>1
  <2>5. Replay(SubSeq(s, 1, n + (m - 1))) = At(m - 1)
    BY <2>4
  <2> HIDE DEF At, Astray
  <2>6. QED BY <1>4, <2>2, <2>4, <2>5
<1>6. \A m \in 0..k : Replay(SubSeq(s, 1, n + m)) = At(m)
  BY <1>5
<1> HIDE DEF At, Astray
<1>7. \A m \in 1..k : Accepted(s, n + m)
  <2>1. \A m \in 1..k : m - 1 \in 0..k
    BY <1>2
  <2>2. QED BY <1>4, <1>6, <2>1
<1>8. Replay(SubSeq(s, 1, n + k)) = At(k)
  <2>1. k \in 0..k
    BY <1>2
  <2>2. QED BY <1>6, <2>1
<1>9. QED BY <1>2, <1>7, <1>8 DEF At, s, n

(* A whole batch after such a log: whatever its order, it is resolved as   *)
(* one, and logged in the canonical order.                                 *)
LEMMA BatchCloses ==
  ASSUME NEW l0 \in Seq(Commands), NEW d0, Replay(l0) = [draft |-> d0, log |-> l0],
         NEW b, Batch(d0, b), NEW m \in 1..Len(b), m = Len(b),
         Fills(b, m, d0.openSlots), ~ResolutionFails(Holding(d0, EntriesOf(b, m)))
  PROVE  /\ Replay(l0 \o b) =
              [draft |-> ResolveRound(Holding(d0, EntriesOf(b, m))), log |-> l0 \o Canonical(b)]
         /\ \A i \in 1..m : Accepted(l0 \o b, Len(l0) + i)
<1> DEFINE n == Len(l0)
           s == l0 \o b
           k == m - 1
<1>1. b \in Seq(Commands) /\ b \in Seq(SealedCommands) /\ SealedCommands \subseteq Commands
  BY DEF Batch, Commands
<1>2. /\ s \in Seq(Commands) /\ Len(s) = n + m /\ n \in Nat /\ m \in Nat
      /\ \A i \in 1..m : s[n + i] = b[i]
      /\ \A i \in 0..m : SubSeq(s, 1, n + i) = l0 \o SubSeq(b, 1, i)
  <2>1. b \in Seq(Commands)
    BY <1>1
  <2>2. s \in Seq(Commands) /\ Len(s) = n + Len(b) /\ n \in Nat /\ Len(b) \in Nat
    BY <2>1
  <2>3. ASSUME NEW i \in 1..Len(b) PROVE s[n + i] = b[i]
    BY <2>1, Joins
  <2>4. ASSUME NEW i \in 0..Len(b) PROVE SubSeq(s, 1, n + i) = l0 \o SubSeq(b, 1, i)
    BY <2>1
  <2> HIDE DEF s, n
  <2>5. QED BY <2>2, <2>3, <2>4
<1>3. k \in 0..Len(b) /\ k \in 0..m /\ k + 1 = m
  BY <1>2
<1>4. d0.openSlots # {b[i].slot : i \in 1..k}
  <2>1. b[m].slot \in d0.openSlots
    BY DEF Batch
  <2>2. \A i \in 1..k : i \in 1..m /\ i # m
    BY <1>2
  <2>3. \A i \in 1..k : b[i].slot # b[m].slot
    BY <2>2 DEF Batch
  <2> HIDE DEF k
  <2>4. QED BY <2>1, <2>3
<1>5. /\ Replay(l0 \o SubSeq(b, 1, k)) =
           [draft |-> Holding(d0, EntriesOf(b, k)), log |-> l0 \o SubSeq(b, 1, k)]
      /\ \A i \in 1..k : Accepted(s, n + i)
  <2> HIDE DEF k
  <2>1. QED BY <1>3, <1>4, BatchReplays
<1>6. /\ Accepts(Holding(d0, EntriesOf(b, k)), b[m])
      /\ ApplyProtocolCommand([draft |-> Holding(d0, EntriesOf(b, k)), log |-> l0 \o SubSeq(b, 1, k)], b[m]) =
           [draft |-> ResolveRound(Holding(d0, EntriesOf(b, m))), log |-> l0 \o Canonical(b)]
  <2>1. SealedCommands \subseteq Commands
    BY <1>1
  <2>2. QED BY <2>1, SealsLast
<1> HIDE DEF n, s
<1> DEFINE j == n + m
<1>7. /\ SubSeq(s, 1, j) = s /\ SubSeq(s, 1, j - 1) = l0 \o SubSeq(b, 1, k)
      /\ s[j] = b[m] /\ j \in 1..Len(s)
  <2>1. j - 1 = n + k
    BY <1>2
  <2>2. SubSeq(s, 1, Len(s)) = s
    BY <1>2, ReplayStep
  <2>3. j \in 1..Len(s) /\ m \in 1..m
    BY <1>2
  <2> HIDE DEF k
  <2>4. QED BY <1>2, <1>3, <2>1, <2>2, <2>3
<1> HIDE DEF k, j
<1>8. Replay(s) = ApplyProtocolCommand(Replay(l0 \o SubSeq(b, 1, k)), b[m])
  <2>1. Replay(SubSeq(s, 1, j)) = ApplyProtocolCommand(Replay(SubSeq(s, 1, j - 1)), s[j])
    BY <1>2, <1>7, ReplayStep
  <2>2. QED BY <1>7, <2>1
<1>9. Accepted(s, j)
  <2> DEFINE t == [draft |-> Holding(d0, EntriesOf(b, k)), log |-> l0 \o SubSeq(b, 1, k)]
  <2>1. t.draft = Holding(d0, EntriesOf(b, k))
    OBVIOUS
  <2>2. Replay(SubSeq(s, 1, j - 1)) = t
    BY <1>5, <1>7
  <2> HIDE DEF t
  <2>3. QED BY <1>6, <1>7, <2>1, <2>2 DEF Accepted
<1>10. \A i \in 1..m : i \in 1..k \/ i = m
  BY <1>2, <1>3
<1>11. QED BY <1>5, <1>6, <1>8, <1>9, <1>10 DEF s, n, j

----------------------------------------------------------------------------
(* The canonical order                                                     *)

(* Commands that seal a slot each.                                         *)
Listed(b) ==
  b \in Seq(SealedCommands) /\ \A i, j \in 1..Len(b) : b[i].slot = b[j].slot => i = j

(* Before, of the fields of two commands.                                  *)
Ahead(s, i, h, t, j, g) ==
  \/ s = "dire" /\ t = "radiant"
  \/ s = t /\ (i < j \/ (i = j /\ h < g))

(* The fields the order compares, and slots are equal when theirs are.     *)
LEMMA BeforeFields ==
  ASSUME NEW c \in SealedCommands, NEW d \in SealedCommands
  PROVE  /\ c.slot.side \in {"radiant", "dire"} /\ c.slot.slotIndex \in Nat /\ c.heroId \in Nat
         /\ c.slot = d.slot <=> c.slot.side = d.slot.side /\ c.slot.slotIndex = d.slot.slotIndex
<1>1. /\ c.slot \in [side : Sides, slotIndex : Nat] /\ d.slot \in [side : Sides, slotIndex : Nat]
      /\ c.heroId \in Heroes
  BY DEF SealedCommands
<1>2. \A x \in [side : Sides, slotIndex : Nat] :
        /\ x.side \in Sides /\ x.slotIndex \in Nat
        /\ x = [side |-> x.side, slotIndex |-> x.slotIndex]
  OBVIOUS
<1>3. c.heroId \in Nat
  BY <1>1, HeroesAssumption
<1>4. c.slot.side \in {"radiant", "dire"} /\ c.slot.slotIndex \in Nat
  BY <1>1, <1>2 DEF Sides
<1>5. c.slot = d.slot <=> c.slot.side = d.slot.side /\ c.slot.slotIndex = d.slot.slotIndex
  <2> DEFINE x == c.slot
             y == d.slot
  <2>1. x = [side |-> x.side, slotIndex |-> x.slotIndex] /\ y = [side |-> y.side, slotIndex |-> y.slotIndex]
    BY <1>1, <1>2
  <2> HIDE DEF x, y
  <2>2. x = y <=> x.side = y.side /\ x.slotIndex = y.slotIndex
    <3>1. ASSUME x.side = y.side, x.slotIndex = y.slotIndex PROVE x = y
      BY <2>1, <3>1, Zenon
    <3>2. QED BY <3>1
  <2>3. QED BY <2>2 DEF x, y
<1>6. QED BY <1>3, <1>4, <1>5

(* Of two commands that seal different slots one comes before the other.   *)
LEMMA BeforeIsOrder ==
  ASSUME NEW c \in SealedCommands, NEW d \in SealedCommands
  PROVE  /\ ~Before(c, c)
         /\ c.slot # d.slot => Before(c, d) \/ Before(d, c)
         /\ \A e \in SealedCommands : Before(c, d) /\ Before(d, e) => Before(c, e)
<1> DEFINE cs == c.slot.side
           ci == c.slot.slotIndex
           ch == c.heroId
           ds == d.slot.side
           di == d.slot.slotIndex
           dh == d.heroId
<1>1. /\ cs \in {"radiant", "dire"} /\ ci \in Nat /\ ch \in Nat
      /\ ds \in {"radiant", "dire"} /\ di \in Nat /\ dh \in Nat
      /\ c.slot = d.slot <=> cs = ds /\ ci = di
  BY BeforeFields
<1>2. /\ Before(c, c) = Ahead(cs, ci, ch, cs, ci, ch)
      /\ Before(c, d) = Ahead(cs, ci, ch, ds, di, dh)
      /\ Before(d, c) = Ahead(ds, di, dh, cs, ci, ch)
  BY Zenon DEF Before, Ahead
<1>3. ASSUME NEW e \in SealedCommands, Before(c, d), Before(d, e) PROVE Before(c, e)
  <2> DEFINE es == e.slot.side
             ei == e.slot.slotIndex
             eh == e.heroId
  <2>1. es \in {"radiant", "dire"} /\ ei \in Nat /\ eh \in Nat
    BY BeforeFields
  <2>2. /\ Before(d, e) = Ahead(ds, di, dh, es, ei, eh)
        /\ Before(c, e) = Ahead(cs, ci, ch, es, ei, eh)
    BY Zenon DEF Before, Ahead
  <2> HIDE DEF cs, ci, ch, ds, di, dh, es, ei, eh
  <2>3. Ahead(cs, ci, ch, ds, di, dh) /\ Ahead(ds, di, dh, es, ei, eh) => Ahead(cs, ci, ch, es, ei, eh)
    BY <1>1, <2>1 DEF Ahead
  <2>4. QED BY <1>2, <1>3, <2>2, <2>3
<1> HIDE DEF cs, ci, ch, ds, di, dh
<1>4. ~Before(c, c)
  <2>1. ~Ahead(cs, ci, ch, cs, ci, ch)
    BY <1>1 DEF Ahead
  <2>2. QED BY <1>2, <2>1
<1>5. cs # ds \/ ci # di => Before(c, d) \/ Before(d, c)
  <2>1. cs # ds \/ ci # di => Ahead(cs, ci, ch, ds, di, dh) \/ Ahead(ds, di, dh, cs, ci, ch)
    BY <1>1 DEF Ahead
  <2>2. QED BY <1>2, <2>1
<1>6. QED BY <1>1, <1>3, <1>4, <1>5

(* Sorting loses and doubles nothing.                                      *)
LEMMA CanonicalSorts ==
  ASSUME NEW b, Listed(b)
  PROVE  /\ Listed(Canonical(b)) /\ Len(Canonical(b)) = Len(b)
         /\ ToSet(Canonical(b)) = ToSet(b)
         /\ \A i \in 1..Len(b) : \E j \in 1..Len(b) : b[i] = Canonical(b)[j]
         /\ \A i \in 1..Len(b) : \E j \in 1..Len(b) : Canonical(b)[i] = b[j]
<1> DEFINE n == Len(b)
           S == ToSet(b)
           Below(c) == {x \in S : Before(x, c)}
           rank == [c \in S |-> Cardinality(Below(c))]
           s == Canonical(b)
<1>1. /\ n \in Nat /\ DOMAIN b = 1..n /\ S = {b[i] : i \in 1..n} /\ S \subseteq SealedCommands
      /\ \A c, d \in S : c.slot = d.slot => c = d
  BY DEF Listed, ToSet
<1>2. s = [i \in 1..n |-> CHOOSE c \in S : Cardinality(Below(c)) = i - 1]
  BY <1>1 DEF Canonical
<1>3. IsFiniteSet(S) /\ Cardinality(S) = n
  <2> DEFINE f == [i \in 1..n |-> b[i]]
  <2>1. f \in [1..n -> S] /\ \A c \in S : \E i \in 1..n : f[i] = c
    BY <1>1
  <2>2. \A i, j \in 1..n : f[i] = f[j] => i = j
    BY DEF Listed
  <2> HIDE DEF f, S, n
  <2>3. f \in Bijection(1..n, S)
    BY <2>1, <2>2 DEF Bijection, Injection, Surjection, IsInjective
  <2>4. IsFiniteSet(1..n) /\ Cardinality(1..n) = n
    BY <1>1, FS_Interval
  <2>5. QED BY <2>3, <2>4, FS_Bijection DEF ExistsBijection
<1> HIDE DEF n, S, s
<1>4. ASSUME NEW c \in S PROVE IsFiniteSet(Below(c)) /\ Cardinality(Below(c)) \in 0..(n - 1)
  <2>1. Below(c) \in SUBSET (S \ {c})
    BY <1>1, BeforeIsOrder
  <2>2. IsFiniteSet(S \ {c}) /\ Cardinality(S \ {c}) = n - 1
    BY <1>3, FS_RemoveElement
  <2> HIDE DEF Below
  <2>3. IsFiniteSet(Below(c)) /\ Cardinality(Below(c)) <= n - 1
    BY <2>1, <2>2, FS_Subset
  <2>4. Cardinality(Below(c)) \in Nat
    BY <2>3, FS_CardinalityType
  <2>5. QED BY <1>1, <2>3, <2>4
<1>5. ASSUME NEW c \in S, NEW d \in S, Before(c, d)
      PROVE  Cardinality(Below(c)) # Cardinality(Below(d))
  <2>1. Below(c) \in SUBSET Below(d) /\ c \in Below(d) /\ c \notin Below(c)
    BY <1>1, <1>5, BeforeIsOrder
  <2> HIDE DEF Below
  <2>2. QED BY <1>4, <2>1, FS_Subset
<1>6. \A c, d \in S : rank[c] = rank[d] => c = d
  <2>1. ASSUME NEW c \in S, NEW d \in S, rank[c] = rank[d] PROVE c = d
    <3>1. Cardinality(Below(c)) = Cardinality(Below(d))
      BY <2>1
    <3> HIDE DEF Below, rank
    <3>2. ~Before(c, d) /\ ~Before(d, c)
      BY <1>5, <3>1
    <3>3. c.slot = d.slot
      BY <1>1, <3>2, BeforeIsOrder
    <3>4. QED BY <1>1, <3>3
  <2>2. QED BY <2>1
<1>7. rank \in Surjection(S, 0..(n - 1))
  <2>1. rank \in [S -> 0..(n - 1)]
    BY <1>4
  <2> HIDE DEF rank
  <2> DEFINE T == 0..(n - 1)
  <2>2. rank \in Injection(S, 0..(n - 1))
    <3>1. rank \in [S -> T]
      BY <2>1
    <3> HIDE DEF T
    <3>2. rank \in {f \in [S -> T] : IsInjective(f)}
      BY <1>6, <3>1 DEF IsInjective
    <3>3. QED BY <3>2 DEF Injection, T
  <2>3. IsFiniteSet(0..(n - 1)) /\ Cardinality(0..(n - 1)) = n
    <3>1. IsFiniteSet(0..(n - 1)) /\ Cardinality(0..(n - 1)) = IF 0 > n - 1 THEN 0 ELSE (n - 1) - 0 + 1
      BY <1>1, FS_Interval
    <3>2. QED BY <1>1, <3>1
  <2>4. QED BY <1>3, <2>2, <2>3, FS_Injection
<1>8. \A k \in 0..(n - 1) : \E c \in S : Cardinality(Below(c)) = k
  BY <1>7 DEF Surjection
<1>9. \A c \in S : Cardinality(Below(c)) = rank[c]
  OBVIOUS
<1> HIDE DEF Below, rank
<1>10. ASSUME NEW i \in 1..n PROVE s[i] \in S /\ Cardinality(Below(s[i])) = i - 1
  <2>1. i - 1 \in 0..(n - 1)
    BY <1>1
  <2>2. \E c \in S : Cardinality(Below(c)) = i - 1
    BY <1>8, <2>1
  <2>3. s[i] = CHOOSE c \in S : Cardinality(Below(c)) = i - 1
    BY <1>2
  <2>4. QED BY <2>2, <2>3
<1>11. s \in Seq(SealedCommands) /\ Len(s) = n /\ DOMAIN s = 1..n
  <2>1. s = [i \in 1..n |-> s[i]]
    BY <1>2
  <2>2. \A i \in 1..n : s[i] \in SealedCommands
    BY <1>1, <1>10
  <2>3. s \in [1..n -> SealedCommands]
    BY <2>1, <2>2
  <2>4. QED BY <1>1, <2>3
<1>12. ASSUME NEW c \in S PROVE \E i \in 1..n : s[i] = c
  <2> DEFINE i == Cardinality(Below(c)) + 1
  <2>1. i \in 1..n /\ i - 1 = Cardinality(Below(c))
    BY <1>1, <1>4
  <2> HIDE DEF i
  <2>2. s[i] \in S /\ rank[s[i]] = rank[c]
    BY <1>9, <1>10, <2>1
  <2>3. QED BY <1>6, <2>1, <2>2
<1>13. ToSet(s) = S
  <2>1. ToSet(s) = {s[i] : i \in 1..n}
    BY <1>11 DEF ToSet
  <2>2. QED BY <1>10, <1>12, <2>1
<1>14. ASSUME NEW i \in 1..n, NEW j \in 1..n, s[i].slot = s[j].slot PROVE i = j
  <2>1. s[i] = s[j]
    BY <1>1, <1>10, <1>14
  <2>2. i - 1 = j - 1
    BY <1>10, <2>1
  <2>3. QED BY <2>2
<1>15. \A i \in 1..n : (\E j \in 1..n : b[i] = s[j]) /\ (\E j \in 1..n : s[i] = b[j])
  BY <1>1, <1>10, <1>12
<1>16. QED BY <1>11, <1>13, <1>14, <1>15 DEF Listed, n, S, s

(* What is sorted is as before whatever order it came in.                  *)
LEMMA CanonicalForgets ==
  ASSUME NEW a, NEW b, Listed(a), Listed(b), Len(a) = Len(b), ToSet(a) = ToSet(b)
  PROVE  Canonical(a) = Canonical(b)
<1>1. DOMAIN a = DOMAIN b
  BY DEF Listed
<1>2. QED BY <1>1 DEF Canonical

----------------------------------------------------------------------------
(* The log of a draft                                                      *)

(* The draft without the seals of its open batch.                          *)
Base(d) == [d EXCEPT !.openSlots = @ \cup SlotsOf(d.sealed), !.sealed = {}]

(* The log l is legal, and leads to the draft d and to itself.             *)
Rebuilds(d, l) ==
  /\ l \in Seq(Commands)
  /\ Replay(l) = [draft |-> d, log |-> l]
  /\ \A i \in 1..Len(l) : Accepted(l, i)

(* The log ends in the commands b of the batch that is open.               *)
EndsIn(d, l, l0, b) ==
  /\ l0 \in Seq(Commands) /\ Listed(b)
  /\ l = l0 \o b
  /\ EntriesOf(b, Len(b)) = d.sealed
  /\ Replay(l0) = [draft |-> Base(d), log |-> l0]

Batched(d, l) ==
  (d.round # 0 /\ d.pendingCollision = NoHero) => \E l0, b : EndsIn(d, l, l0, b)

(* The seals of the open batch are a batch from the draft without them.    *)
LEMMA BaseBatch ==
  ASSUME NEW d, Sound(d), d.round # 0, d.pendingCollision = NoHero,
         NEW b, Listed(b), EntriesOf(b, Len(b)) = d.sealed
  PROVE  /\ Batch(Base(d), b)
         /\ Holding(Base(d), EntriesOf(b, Len(b))) = d
         /\ Cardinality(d.sealed) = Len(b)
         /\ Base(d).openSlots = d.openSlots \cup {b[i].slot : i \in 1..Len(b)}
         /\ Base(d).openSlots \in SUBSET Slots(d.round) /\ IsFiniteSet(d.openSlots)
<1> DEFINE E == d.sealed
           d0 == Base(d)
           n == Len(b)
<1>1. /\ d \in Drafts /\ HeldOnce(d) /\ Conserved(d) /\ d.round \in Rounds
      /\ E \subseteq SealedSelections
      /\ b \in Seq(SealedCommands) /\ \A i \in 1..n : b[i] \in SealedCommands
  BY DEF Sound, Conserved, Drafts, Listed
<1>2. \A i \in 1..n : /\ EntryOf(b[i]) \in E /\ SlotOf(EntryOf(b[i])) = b[i].slot
                      /\ EntryOf(b[i]).heroId = b[i].heroId /\ EntryOf(b[i]).side = b[i].slot.side
  BY <1>1, EntryFields DEF EntriesOf
<1>3. SlotsOf(E) = {b[i].slot : i \in 1..n}
  <2>1. E = {EntryOf(b[i]) : i \in 1..n}
    BY DEF EntriesOf
  <2>2. QED BY <1>2, <2>1 DEF SlotsOf
<1>4. SlotsOf(E) \in SUBSET Slots(d.round) /\ d.openSlots \in SUBSET Slots(d.round)
      /\ d.openSlots \cap SlotsOf(E) = {} /\ Slots(d.round) \in SUBSET [side : Sides, slotIndex : Nat]
  BY <1>1, SlotTypes DEF Conserved
<1>5. d0 = [d EXCEPT !.openSlots = d.openSlots \cup SlotsOf(E), !.sealed = {}]
  BY DEF Base
<1> HIDE DEF d0
<1>6. /\ d0 \in Drafts /\ d0.openSlots = d.openSlots \cup SlotsOf(E) /\ d0.sealed = {}
      /\ d0.round = d.round /\ d0.pendingCollision = NoHero
      /\ d0.bannedHeroes = d.bannedHeroes /\ d0.confirmedPicks = d.confirmedPicks
  BY <1>1, <1>4, <1>5 DEF Drafts
<1>7. IsFiniteSet(d0.openSlots) /\ IsFiniteSet(d.openSlots)
  <2>1. IsFiniteSet(Slots(d.round))
    BY <1>1, RoundSlotsFinite
  <2>2. d0.openSlots \in SUBSET Slots(d.round)
    BY <1>4, <1>6
  <2>3. QED BY <1>4, <2>1, <2>2, FS_Subset
<1>8. \A i \in 1..n : b[i].slot \in d0.openSlots /\ ~HeroAlreadyTaken(d0, b[i].heroId)
  BY <1>1, <1>2, <1>3, <1>6 DEF HeldOnce, HeroAlreadyTaken
<1>9. ASSUME NEW i \in 1..n, NEW j \in 1..n, i # j
      PROVE  /\ b[i].slot # b[j].slot
             /\ ~(b[i].slot.side = b[j].slot.side /\ b[i].heroId = b[j].heroId)
  <2>1. b[i].slot # b[j].slot
    BY <1>9 DEF Listed
  <2>2. ASSUME b[i].slot.side = b[j].slot.side, b[i].heroId = b[j].heroId PROVE FALSE
    <3>1. EntryOf(b[i]) = EntryOf(b[j])
      BY <1>1, <1>2, <2>2 DEF HeldOnce
    <3>2. QED BY <1>2, <2>1, <3>1
  <2>3. QED BY <2>1, <2>2
<1>10. Batch(d0, b)
  BY <1>1, <1>6, <1>7, <1>8, <1>9 DEF Batch
<1>11. Holding(d0, E) = d
  <2>1. Holding(d0, E) = [d0 EXCEPT !.openSlots = d0.openSlots \ SlotsOf(E), !.sealed = E]
    BY DEF Holding
  <2>2. (d.openSlots \cup SlotsOf(E)) \ SlotsOf(E) = d.openSlots
    BY <1>4
  <2>3. \A A : [[d EXCEPT !.openSlots = A, !.sealed = {}]
                 EXCEPT !.openSlots = d.openSlots, !.sealed = d.sealed] = d
    BY <1>1 DEF Drafts
  <2>4. d0.openSlots \ SlotsOf(E) = d.openSlots
    BY <1>6, <2>2
  <2>5. QED BY <1>5, <2>1, <2>3, <2>4
<1>12. Cardinality(E) = n
  <2>1. n \in 0..Len(b)
    BY <1>1
  <2>2. Cardinality(Holding(d0, EntriesOf(b, n)).sealed) = n
    BY <1>10, <2>1, HoldingFields
  <2>3. QED BY <1>11, <2>2
<1>13. QED BY <1>3, <1>4, <1>6, <1>7, <1>10, <1>11, <1>12 DEF d0

(* A draft with nothing sealed ends in an empty batch.                     *)
LEMMA EndsInNothing ==
  ASSUME NEW d \in Drafts, d.sealed = {}, NEW l \in Seq(Commands),
         Replay(l) = [draft |-> d, log |-> l]
  PROVE  EndsIn(d, l, l, <<>>)
<1>1. Base(d) = d
  <2>1. SlotsOf({}) = {} /\ d.openSlots \cup {} = d.openSlots
    BY DEF SlotsOf
  <2>2. QED BY <2>1 DEF Base, Drafts
<1>2. l \o <<>> = l /\ Listed(<<>>) /\ EntriesOf(<<>>, Len(<<>>)) = {}
  BY DEF Listed, EntriesOf
<1>3. QED BY <1>1, <1>2 DEF EndsIn

(* After the resolution of a batch nothing is sealed, unless an authority  *)
(* is awaited.                                                             *)
LEMMA ResolvedBatched ==
  ASSUME NEW d, Closed(d), NEW l, Rebuilds(ResolveRound(d), l)
  PROVE  Batched(ResolveRound(d), l)
<1> DEFINE a == ResolveRound(d)
<1>1. Sound(a) /\ (Awaits(d, a) \/ Reopens(d, a) \/ Advances(d, a))
  BY ResolveIsSound, ResolveOutcomes
<1> HIDE DEF a
<1>2. ASSUME a.round # 0, a.pendingCollision = NoHero PROVE a.sealed = {}
  BY <1>1, <1>2 DEF Sound, WaitsRightly, Awaits, Reopens, Advances
<1>3. ASSUME a.round # 0, a.pendingCollision = NoHero PROVE EndsIn(a, l, l, <<>>)
  BY <1>1, <1>2, <1>3, EndsInNothing DEF Sound, Rebuilds, a
<1>4. QED BY <1>3 DEF Batched, a

(* A legal command at the end of a log.                                    *)
LEMMA RebuildsOn ==
  ASSUME NEW d, NEW l, Rebuilds(d, l), NEW c \in Commands, Accepts(d, c),
         LogWith(d, l, c) = Append(l, c)
  PROVE  Rebuilds(Apply(d, c), Append(l, c))
<1> DEFINE t == Append(l, c)
<1>1. /\ l \in Seq(Commands) /\ t \in Seq(Commands) /\ Len(t) = Len(l) + 1 /\ t[Len(t)] = c
      /\ \A i \in 1..Len(l) : t[i] = l[i] /\ SubSeq(t, 1, i - 1) = SubSeq(l, 1, i - 1)
      /\ SubSeq(t, 1, Len(t) - 1) = l
      /\ \A i \in 1..Len(t) : i \in 1..Len(l) \/ i = Len(t)
  <2>1. l \in Seq(Commands)
    BY DEF Rebuilds
  <2>2. QED BY <2>1
<1>2. Replay(t) = ApplyProtocolCommand(Replay(l), c)
  BY <1>1, ReplayAppend
<1>3. Replay(l) = [draft |-> d, log |-> l]
  BY DEF Rebuilds
<1> HIDE DEF t
<1>4. Replay(t) = [draft |-> Apply(d, c), log |-> t]
  <2> DEFINE r == [draft |-> d, log |-> l]
  <2>1. r.draft = d /\ r.log = l
    OBVIOUS
  <2>2. Replay(t) = ApplyProtocolCommand(r, c)
    BY <1>2, <1>3
  <2> HIDE DEF r
  <2>3. QED BY <2>1, <2>2 DEF ApplyProtocolCommand, t
<1>5. Accepted(t, Len(t))
  <2>1. Replay(SubSeq(t, 1, Len(t) - 1)).draft = d
    <3>1. Replay(SubSeq(t, 1, Len(t) - 1)) = [draft |-> d, log |-> l]
      BY <1>1, <1>3
    <3>2. QED BY <3>1
  <2>2. QED BY <1>1, <2>1 DEF Accepted
<1>6. \A i \in 1..Len(l) : Accepted(t, i)
  BY <1>1 DEF Rebuilds, Accepted
<1>7. QED BY <1>1, <1>4, <1>5, <1>6 DEF Rebuilds, t

(* A batch is a batch in whatever order.                                   *)
LEMMA BatchReorders ==
  ASSUME NEW d0, NEW b, Batch(d0, b), NEW s, Listed(s), Len(s) = Len(b),
         \A i \in 1..Len(b) : \E j \in 1..Len(b) : b[i] = s[j],
         \A i \in 1..Len(b) : \E j \in 1..Len(b) : s[i] = b[j]
  PROVE  /\ Batch(d0, s)
         /\ EntriesOf(s, Len(s)) = EntriesOf(b, Len(b))
         /\ \A slots : Fills(b, Len(b), slots) => Fills(s, Len(s), slots)
         /\ ToSet(s) = ToSet(b)
<1> DEFINE n == Len(b)
<1>1. s \in Seq(SealedCommands) /\ b \in Seq(SealedCommands) /\ DOMAIN s = 1..n /\ DOMAIN b = 1..n
  BY DEF Listed, Batch
<1>2. Len(s) = n
  OBVIOUS
<1>3. /\ \A i \in 1..n : \E j \in 1..n : b[i] = s[j]
      /\ \A i \in 1..n : \E j \in 1..n : s[i] = b[j]
  OBVIOUS
<1> HIDE DEF n
<1>4. EntriesOf(s, n) = EntriesOf(b, n)
  <2>1. \A e : e \in EntriesOf(s, n) <=> \E i \in 1..n : e = EntryOf(s[i])
    BY DEF EntriesOf
  <2>2. \A e : e \in EntriesOf(b, n) <=> \E i \in 1..n : e = EntryOf(b[i])
    BY DEF EntriesOf
  <2>3. \A e : e \in EntriesOf(s, n) <=> e \in EntriesOf(b, n)
    BY <1>3, <2>1, <2>2, Zenon
  <2>4. QED BY <2>3
<1>5. {s[i].slot : i \in 1..n} = {b[i].slot : i \in 1..n}
  <2> DEFINE X == {s[i].slot : i \in 1..n}
             Y == {b[i].slot : i \in 1..n}
  <2>1. \A e : e \in X <=> \E i \in 1..n : e = s[i].slot
    OBVIOUS
  <2>2. \A e : e \in Y <=> \E i \in 1..n : e = b[i].slot
    OBVIOUS
  <2> HIDE DEF X, Y
  <2>3. \A e : e \in X <=> e \in Y
    <3>1. ASSUME NEW e, e \in X PROVE e \in Y
      <4>1. PICK i \in 1..n : e = s[i].slot
        BY <2>1, <3>1
      <4>2. PICK j \in 1..n : s[i] = b[j]
        BY <1>3
      <4>3. QED BY <2>2, <4>1, <4>2
    <3>2. ASSUME NEW e, e \in Y PROVE e \in X
      <4>1. PICK i \in 1..n : e = b[i].slot
        BY <2>2, <3>2
      <4>2. PICK j \in 1..n : b[i] = s[j]
        BY <1>3
      <4>3. QED BY <2>1, <4>1, <4>2
    <3>3. QED BY <3>1, <3>2
  <2>4. X = Y
    BY <2>3
  <2>5. QED BY <2>4 DEF X, Y
<1>6. ToSet(s) = ToSet(b)
  <2>1. ToSet(s) = {s[i] : i \in 1..n} /\ ToSet(b) = {b[i] : i \in 1..n}
    BY <1>1 DEF ToSet
  <2>2. QED BY <1>3, <2>1, Zenon
<1>7. \A i \in 1..n : s[i].slot \in d0.openSlots /\ ~HeroAlreadyTaken(d0, s[i].heroId)
  BY <1>3 DEF Batch, n
<1>8. ASSUME NEW i \in 1..n, NEW j \in 1..n, i # j
      PROVE  /\ s[i].slot # s[j].slot
             /\ ~(s[i].slot.side = s[j].slot.side /\ s[i].heroId = s[j].heroId)
  <2>1. s[i].slot # s[j].slot
    BY <1>2, <1>8 DEF Listed
  <2>2. PICK x \in 1..n, y \in 1..n : s[i] = b[x] /\ s[j] = b[y]
    BY <1>3
  <2>3. x # y
    BY <2>1, <2>2
  <2>4. QED BY <2>1, <2>2, <2>3 DEF Batch, n
<1>9. Batch(d0, s)
  BY <1>1, <1>2, <1>7, <1>8 DEF Batch
<1>10. \A slots : Fills(b, n, slots) => Fills(s, n, slots)
  BY <1>5 DEF Fills
<1>11. QED BY <1>2, <1>4, <1>6, <1>9, <1>10 DEF n

(* The batch that is open, with one more command.                          *)
LEMMA BatchGrows ==
  ASSUME NEW d, Sound(d), NEW b, Listed(b), EntriesOf(b, Len(b)) = d.sealed,
         NEW slot \in [side : Sides, slotIndex : Nat], NEW h \in Heroes,
         AcceptsSealedSelection(d, slot, h)
  PROVE  LET c == SealedCommand(slot, h)
             t == Append(b, c)
             n == Len(t) IN
         /\ Listed(t) /\ Batch(Base(d), t)
         /\ n = Len(b) + 1 /\ t[n] = c /\ SubSeq(t, 1, Len(b)) = b
         /\ EntriesOf(t, n) = Seal(d, slot, h).sealed
         /\ EntriesOf(t, Len(b)) = d.sealed
         /\ c \in SealedCommands /\ c.slot = slot /\ c.heroId = h
<1> DEFINE c == SealedCommand(slot, h)
           t == Append(b, c)
           m == Len(b)
           n == Len(t)
           d0 == Base(d)
<1>1. /\ c \in SealedCommands /\ c.slot = slot /\ c.heroId = h
      /\ b \in Seq(SealedCommands) /\ m \in Nat
  BY DEF SealedCommand, SealedCommands, Listed
<1>2. /\ t \in Seq(SealedCommands) /\ n = m + 1 /\ t[n] = c /\ SubSeq(t, 1, m) = b
      /\ \A i \in 1..m : t[i] = b[i] /\ i \in 1..n /\ i # n
      /\ \A i \in 1..n : i = n \/ i \in 1..m
  BY <1>1
<1>3. /\ d.round # 0 /\ d.pendingCollision = NoHero /\ slot \in d.openSlots
      /\ IsSealedSelectionLegal(d, slot, h) /\ ~HeroAlreadyTaken(d, h)
      /\ ~\E e \in d.sealed : e.side = slot.side /\ e.heroId = h
  BY DEF AcceptsSealedSelection, IsSealedSelectionLegal
<1>4. /\ Batch(d0, b) /\ d0.openSlots = d.openSlots \cup {b[i].slot : i \in 1..m}
      /\ d0 = [d EXCEPT !.openSlots = @ \cup SlotsOf(d.sealed), !.sealed = {}]
  <2>1. Batch(d0, b) /\ d0.openSlots = d.openSlots \cup {b[i].slot : i \in 1..m}
    BY <1>3, BaseBatch
  <2>2. QED BY <2>1 DEF Base
<1>5. /\ d \in Drafts /\ Conserved(d) /\ HeldOnce(d)
      /\ Seal(d, slot, h).sealed = d.sealed \cup {EntryOf(c)}
  <2>1. d \in Drafts /\ Conserved(d) /\ HeldOnce(d)
    BY DEF Sound
  <2>2. Seal(d, slot, h).sealed = d.sealed \cup {Entry(slot, h)}
    BY SealFields
  <2>3. QED BY <1>1, <2>1, <2>2 DEF EntryOf
<1> HIDE DEF t, n, c, m
<1>6. \A i \in 1..m : /\ EntryOf(b[i]) \in d.sealed /\ SlotOf(EntryOf(b[i])) = b[i].slot
                      /\ EntryOf(b[i]).heroId = b[i].heroId /\ EntryOf(b[i]).side = b[i].slot.side
  <2>1. \A i \in 1..m : b[i] \in SealedCommands
    BY <1>1 DEF m
  <2>2. \A i \in 1..m : EntryOf(b[i]) \in d.sealed
    BY DEF EntriesOf, m
  <2>3. QED BY <2>1, <2>2, EntryFields
<1>7. \A i \in 1..m : b[i].slot # c.slot
  BY <1>1, <1>3, <1>5, <1>6 DEF Conserved, SlotsOf
<1>8. \A i \in 1..m : ~(b[i].slot.side = c.slot.side /\ b[i].heroId = c.heroId)
  BY <1>1, <1>3, <1>6
<1>9. Listed(t)
  <2>1. \A i, j \in 1..n : t[i].slot = t[j].slot => i = j
    BY <1>2, <1>7 DEF Listed, m
  <2>2. QED BY <1>2, <2>1 DEF Listed, n
<1>10. EntriesOf(t, m) = d.sealed /\ EntriesOf(t, n) = d.sealed \cup {EntryOf(c)}
  <2>1. d.sealed = {EntryOf(b[i]) : i \in 1..m}
    BY DEF EntriesOf, m
  <2>2. EntriesOf(t, m) = {EntryOf(b[i]) : i \in 1..m}
    BY <1>2, Zenon DEF EntriesOf
  <2>3. ASSUME NEW e PROVE e \in EntriesOf(t, n) <=> e \in EntriesOf(t, m) \/ e = EntryOf(c)
    <3>1. e \in EntriesOf(t, n) <=> \E i \in 1..n : e = EntryOf(t[i])
      BY DEF EntriesOf
    <3>2. e \in EntriesOf(t, m) <=> \E i \in 1..m : e = EntryOf(t[i])
      BY DEF EntriesOf
    <3>3. n \in 1..n
      BY <1>1, <1>2 DEF m
    <3>4. QED BY <1>2, <3>1, <3>2, <3>3
  <2>4. QED BY <2>1, <2>2, <2>3
<1> HIDE DEF d0
<1>11. Batch(d0, t)
  <2>1. ~HeroAlreadyTaken(d0, c.heroId)
    <3>1. d0.bannedHeroes = d.bannedHeroes /\ d0.confirmedPicks = d.confirmedPicks
      BY <1>4, <1>5 DEF Drafts
    <3>2. QED BY <1>1, <1>3, <3>1 DEF HeroAlreadyTaken
  <2>2. c.slot \in d0.openSlots
    BY <1>1, <1>3, <1>4
  <2>3. \A i \in 1..n : t[i].slot \in d0.openSlots /\ ~HeroAlreadyTaken(d0, t[i].heroId)
    BY <1>2, <1>4, <2>1, <2>2 DEF Batch, m
  <2>4. \A i, j \in 1..n :
          i # j => /\ t[i].slot # t[j].slot
                   /\ ~(t[i].slot.side = t[j].slot.side /\ t[i].heroId = t[j].heroId)
    BY <1>2, <1>4, <1>7, <1>8 DEF Batch, m
  <2>5. QED BY <1>2, <1>4, <2>3, <2>4 DEF Batch, n
<1>12. QED BY <1>1, <1>2, <1>5, <1>9, <1>10, <1>11 DEF t, n, c, m, d0

(* A selection that leaves the batch open.                                 *)
LEMMA SubmitRebuilds ==
  ASSUME NEW d, Sound(d), NEW l, Rebuilds(d, l), Batched(d, l),
         NEW slot \in [side : Sides, slotIndex : Nat], NEW h \in Heroes,
         AcceptsSealedSelection(d, slot, h), ~ClosesBatch(d, slot)
  PROVE  LET a == SubmitSealedSelection(d, slot, h)
             k == LogWith(d, l, SealedCommand(slot, h)) IN
         Rebuilds(a, k) /\ Batched(a, k)
<1> DEFINE c == SealedCommand(slot, h)
           a == SubmitSealedSelection(d, slot, h)
           k == LogWith(d, l, c)
<1>1. /\ d.round # 0 /\ d.pendingCollision = NoHero /\ slot \in d.openSlots
      /\ d \in Drafts
  BY DEF AcceptsSealedSelection, IsSealedSelectionLegal, Sound
<1>2. PICK l0, b : EndsIn(d, l, l0, b)
  BY <1>1 DEF Batched
<1>3. /\ l0 \in Seq(Commands) /\ Listed(b) /\ l = l0 \o b
      /\ EntriesOf(b, Len(b)) = d.sealed /\ Replay(l0) = [draft |-> Base(d), log |-> l0]
  BY <1>2 DEF EndsIn
<1> DEFINE t == Append(b, c)
<1>4. /\ Listed(t) /\ EntriesOf(t, Len(t)) = Seal(d, slot, h).sealed
      /\ c \in SealedCommands /\ c.slot = slot /\ c.heroId = h
  BY <1>3, BatchGrows
<1>5. IsFiniteSet(d.openSlots)
  BY <1>1, <1>3, BaseBatch
<1>6. Cardinality(d.openSlots) # 1
  BY <1>1, <1>5, FS_Singleton DEF ClosesBatch
<1>7. /\ a = Seal(d, slot, h) /\ k = Append(l, c)
      /\ Accepts(d, c) /\ Apply(d, c) = a /\ c \in Commands
  BY <1>4, <1>6, EntryFields DEF SubmitSealedSelection, LogWith, Accepts, Apply, Commands
<1>8. Rebuilds(a, k)
  <2> HIDE DEF a, k, c
  <2>1. LogWith(d, l, c) = Append(l, c)
    BY <1>7 DEF k
  <2>2. Rebuilds(Apply(d, c), Append(l, c))
    BY <1>7, <2>1, RebuildsOn
  <2>3. QED BY <1>7, <2>2
<1>9. Base(a) = Base(d)
  <2> DEFINE e == Entry(slot, h)
  <2>1. /\ a = [d EXCEPT !.openSlots = d.openSlots \ {slot}, !.sealed = d.sealed \cup {e}]
        /\ SlotOf(e) = slot
    BY <1>7, SealFields DEF Seal, Entry
  <2>2. SlotsOf(d.sealed \cup {e}) = SlotsOf(d.sealed) \cup {slot}
    BY <2>1 DEF SlotsOf
  <2> HIDE DEF a, e
  <2>3. a.openSlots = d.openSlots \ {slot} /\ a.sealed = d.sealed \cup {e}
    BY <1>1, <2>1 DEF Drafts
  <2>4. a.openSlots \cup SlotsOf(a.sealed) = d.openSlots \cup SlotsOf(d.sealed)
    BY <1>1, <2>2, <2>3
  <2>5. Base(a) = [a EXCEPT !.openSlots = a.openSlots \cup SlotsOf(a.sealed), !.sealed = {}]
    BY DEF Base
  <2>6. Base(d) = [d EXCEPT !.openSlots = d.openSlots \cup SlotsOf(d.sealed), !.sealed = {}]
    BY DEF Base
  <2>7. \A A, E, B : [[d EXCEPT !.openSlots = A, !.sealed = E] EXCEPT !.openSlots = B, !.sealed = {}]
                      = [d EXCEPT !.openSlots = B, !.sealed = {}]
    BY <1>1 DEF Drafts
  <2>8. QED BY <2>1, <2>4, <2>5, <2>6, <2>7
<1>10. k = l0 \o t
  <2>1. l0 \in Seq(Commands) /\ b \in Seq(Commands) /\ c \in Commands
    BY <1>3, <1>7 DEF Listed, Commands
  <2> HIDE DEF c, k
  <2>2. Append(l0 \o b, c) = l0 \o Append(b, c)
    BY <2>1
  <2>3. QED BY <1>3, <1>7, <2>2
<1>11. EndsIn(a, k, l0, t)
  <2> HIDE DEF a, k, c, t
  <2>1. QED BY <1>3, <1>4, <1>7, <1>9, <1>10 DEF EndsIn
<1>12. QED BY <1>8, <1>11 DEF Batched

(* A selection that closes the batch: the log is put in order, and leads   *)
(* to the same draft in that order.                                        *)
LEMMA ClosingRebuilds ==
  ASSUME NEW d, Sound(d), NEW l, NEW l0, NEW b, EndsIn(d, l, l0, b),
         NEW slot \in [side : Sides, slotIndex : Nat], NEW h \in Heroes,
         AcceptsSealedSelection(d, slot, h), ClosesBatch(d, slot)
  PROVE  LET c == SealedCommand(slot, h)
             a == SubmitSealedSelection(d, slot, h)
             k == LogWith(d, l, c) IN
         /\ k = l0 \o Canonical(Append(b, c))
         /\ Accepts(d, c) /\ Apply(d, c) = a
         /\ Rebuilds(d, l) => Rebuilds(a, k)
<1> DEFINE c == SealedCommand(slot, h)
           t == Append(b, c)
           m == Len(t)
           d0 == Base(d)
           e == Seal(d, slot, h)
           s == Canonical(t)
<1>1. /\ d.round # 0 /\ d.pendingCollision = NoHero /\ d.openSlots = {slot} /\ d \in Drafts
      /\ IsSealedSelectionLegal(d, slot, h) /\ ~ResolutionFails(e)
  BY DEF AcceptsSealedSelection, IsSealedSelectionLegal, ClosesBatch, Sound
<1>2. /\ l0 \in Seq(Commands) /\ Listed(b) /\ l = l0 \o b
      /\ EntriesOf(b, Len(b)) = d.sealed /\ Replay(l0) = [draft |-> d0, log |-> l0]
  BY DEF EndsIn
<1>3. /\ Batch(d0, b) /\ Holding(d0, EntriesOf(b, Len(b))) = d
      /\ d0.openSlots = d.openSlots \cup {b[i].slot : i \in 1..Len(b)}
  BY <1>1, <1>2, BaseBatch
<1>4. /\ Listed(t) /\ Batch(d0, t) /\ m = Len(b) + 1 /\ t[m] = c /\ SubSeq(t, 1, Len(b)) = b
      /\ EntriesOf(t, m) = e.sealed /\ EntriesOf(t, Len(b)) = d.sealed
      /\ c \in SealedCommands /\ c.slot = slot /\ c.heroId = h
  BY <1>2, BatchGrows
<1>5. Len(b) \in Nat /\ m \in 1..Len(t) /\ m - 1 = Len(b) /\ \A i \in 1..Len(b) : t[i] = b[i]
  <2>1. b \in Seq(SealedCommands) /\ c \in SealedCommands
    BY <1>2, <1>4 DEF Listed
  <2> HIDE DEF c
  <2>2. QED BY <2>1
<1> HIDE DEF c, t, m, d0, e, s
<1>6. Fills(t, m, d0.openSlots)
  <2> DEFINE X == {t[i].slot : i \in 1..m}
  <2>1. \A x : x \in X <=> \E i \in 1..m : x = t[i].slot
    OBVIOUS
  <2>2. \A x : x \in d0.openSlots <=> x = slot \/ \E i \in 1..Len(b) : x = b[i].slot
    BY <1>1, <1>3
  <2>3. \A i \in 1..m : i = m \/ i \in 1..Len(b)
    BY <1>4, <1>5
  <2>4. m \in 1..m /\ \A i \in 1..Len(b) : i \in 1..m
    BY <1>4, <1>5
  <2> HIDE DEF X
  <2>5. \A x : x \in X <=> x \in d0.openSlots
    BY <1>4, <1>5, <2>1, <2>2, <2>3, <2>4
  <2>6. X = d0.openSlots
    BY <2>5
  <2>7. QED BY <2>6 DEF Fills, X
<1>7. Holding(d0, EntriesOf(t, m - 1)) = d
  BY <1>2, <1>3, <1>4, <1>5
<1>8. Holding(d0, EntriesOf(t, m)) = e
  <2>1. Seal(Holding(d0, EntriesOf(t, m - 1)), t[m].slot, t[m].heroId) = Holding(d0, EntriesOf(t, m))
    BY <1>4, <1>5, HoldingSeals
  <2>2. QED BY <1>4, <1>7, <2>1 DEF e
<1>9. SealedCommands \subseteq Commands
  BY DEF Commands
<1>10. l = l0 \o SubSeq(t, 1, m - 1)
  BY <1>2, <1>4, <1>5
<1>11. m = Len(t) /\ ~ResolutionFails(Holding(d0, EntriesOf(t, m)))
  BY <1>1, <1>8 DEF m
<1>12. /\ Accepts(d, c)
       /\ ApplyProtocolCommand([draft |-> d, log |-> l], c) =
            [draft |-> ResolveRound(e), log |-> l0 \o s]
  <2>1. LET P == Holding(d0, EntriesOf(t, m - 1))
            k == l0 \o SubSeq(t, 1, m - 1) IN
        /\ Accepts(P, t[m])
        /\ ApplyProtocolCommand([draft |-> P, log |-> k], t[m]) =
             [draft |-> ResolveRound(Holding(d0, EntriesOf(t, m))), log |-> l0 \o Canonical(t)]
    <3>1. Batch(d0, t) /\ m \in 1..Len(t) /\ l0 \in Seq(Commands)
      BY <1>2, <1>4, <1>5
    <3>2. m = Len(t) /\ ~ResolutionFails(Holding(d0, EntriesOf(t, m)))
      BY <1>11
    <3>3. QED BY <1>6, <1>9, <3>1, <3>2, SealsLast
  <2>2. QED BY <1>4, <1>7, <1>8, <1>10, <2>1 DEF s
<1>13. Apply(d, c) = ResolveRound(e) /\ LogWith(d, l, c) = l0 \o s
  <2> DEFINE r == [draft |-> d, log |-> l]
             q == [draft |-> ResolveRound(e), log |-> l0 \o s]
  <2>1. r.draft = d /\ r.log = l /\ q.draft = ResolveRound(e) /\ q.log = l0 \o s
    OBVIOUS
  <2>2. Accepts(d, c) /\ ApplyProtocolCommand(r, c) = q
    BY <1>12
  <2> HIDE DEF r, q
  <2>3. q = [draft |-> Apply(d, c), log |-> LogWith(d, l, c)]
    BY <2>1, <2>2 DEF ApplyProtocolCommand
  <2>4. q.draft = Apply(d, c) /\ q.log = LogWith(d, l, c)
    BY <2>3
  <2>5. QED BY <2>1, <2>4
<1>14. SubmitSealedSelection(d, slot, h) = ResolveRound(e)
  BY DEF SubmitSealedSelection, e
<1>15. /\ Listed(s) /\ Len(s) = m /\ ToSet(s) = ToSet(t)
       /\ \A i \in 1..m : \E j \in 1..m : t[i] = s[j]
       /\ \A i \in 1..m : \E j \in 1..m : s[i] = t[j]
  <2>1. /\ Listed(Canonical(t)) /\ Len(Canonical(t)) = Len(t) /\ ToSet(Canonical(t)) = ToSet(t)
        /\ \A i \in 1..Len(t) : \E j \in 1..Len(t) : t[i] = Canonical(t)[j]
        /\ \A i \in 1..Len(t) : \E j \in 1..Len(t) : Canonical(t)[i] = t[j]
    <3>1. Listed(t)
      BY <1>4
    <3>2. QED BY <3>1, CanonicalSorts
  <2>2. QED BY <2>1 DEF s, m
<1>16. /\ Batch(d0, s) /\ EntriesOf(s, Len(s)) = EntriesOf(t, m)
       /\ \A slots : Fills(t, m, slots) => Fills(s, Len(s), slots)
  <2>1. /\ Batch(d0, t) /\ Listed(s) /\ Len(s) = Len(t)
        /\ \A i \in 1..Len(t) : \E j \in 1..Len(t) : t[i] = s[j]
        /\ \A i \in 1..Len(t) : \E j \in 1..Len(t) : s[i] = t[j]
    BY <1>4, <1>15 DEF m
  <2>2. /\ Batch(d0, s) /\ EntriesOf(s, Len(s)) = EntriesOf(t, Len(t))
        /\ \A slots : Fills(t, Len(t), slots) => Fills(s, Len(s), slots)
    BY <2>1, BatchReorders
  <2>3. QED BY <2>2 DEF m
<1>17. Canonical(s) = s
  BY <1>4, <1>11, <1>15, CanonicalForgets DEF s
<1>18. m \in 1..Len(s) /\ m = Len(s)
  BY <1>4, <1>5, <1>15
<1>19. Fills(s, m, d0.openSlots)
  BY <1>6, <1>16, <1>18
<1>20. Holding(d0, EntriesOf(s, m)) = e
  BY <1>8, <1>16, <1>18
<1>21. ~ResolutionFails(Holding(d0, EntriesOf(s, m)))
  BY <1>8, <1>11, <1>20
<1>22. /\ Replay(l0 \o s) = [draft |-> ResolveRound(e), log |-> l0 \o s]
       /\ \A i \in 1..m : Accepted(l0 \o s, Len(l0) + i)
  <2>1. /\ Replay(l0 \o s) = [draft |-> ResolveRound(Holding(d0, EntriesOf(s, m))), log |-> l0 \o Canonical(s)]
        /\ \A i \in 1..m : Accepted(l0 \o s, Len(l0) + i)
    <3>1. Batch(d0, s) /\ l0 \in Seq(Commands) /\ Replay(l0) = [draft |-> d0, log |-> l0]
      BY <1>2, <1>16
    <3>2. QED BY <1>18, <1>19, <1>21, <3>1, BatchCloses
  <2>2. QED BY <1>17, <1>20, <2>1
<1>23. b \in Seq(Commands) /\ s \in Seq(Commands)
  BY <1>2, <1>9, <1>15 DEF Listed
<1>24. ASSUME Rebuilds(d, l) PROVE \A i \in 1..Len(l0) : Accepted(l0 \o s, i)
  <2>1. ASSUME NEW i \in 1..Len(l0) PROVE Accepted(l0 \o s, i)
    <3>1. /\ l[i] = l0[i] /\ SubSeq(l, 1, i - 1) = SubSeq(l0, 1, i - 1)
          /\ (l0 \o s)[i] = l0[i] /\ SubSeq(l0 \o s, 1, i - 1) = SubSeq(l0, 1, i - 1)
          /\ Len(l) = Len(l0) + Len(b)
      BY <1>2, <1>23, Joins
    <3>2. i \in 1..Len(l)
      BY <1>2, <1>5, <3>1
    <3>3. Accepted(l, i)
      BY <1>24, <3>2 DEF Rebuilds
    <3>4. QED BY <3>1, <3>3 DEF Accepted
  <2>2. QED BY <2>1
<1>25. ASSUME Rebuilds(d, l) PROVE Rebuilds(ResolveRound(e), l0 \o s)
  <2>1. /\ l0 \o s \in Seq(Commands) /\ Len(l0 \o s) = Len(l0) + Len(s)
        /\ Len(l0) \in Nat /\ Len(s) \in Nat
    BY <1>2, <1>23
  <2>2. ASSUME NEW i \in 1..Len(l0 \o s) PROVE Accepted(l0 \o s, i)
    <3>1. CASE i \in 1..Len(l0)
      BY <1>24, <1>25, <3>1
    <3>2. CASE i \notin 1..Len(l0)
      <4>1. i - Len(l0) \in 1..m /\ Len(l0) + (i - Len(l0)) = i
        BY <1>18, <2>1, <3>2
      <4>2. QED BY <1>22, <4>1
    <3>3. QED BY <3>1, <3>2
  <2>3. QED BY <1>22, <2>1, <2>2 DEF Rebuilds
<1>26. QED BY <1>12, <1>13, <1>14, <1>25 DEF c, s, t

----------------------------------------------------------------------------
(* Every reachable draft is rebuilt from its log                           *)

(* The inductive invariant: the draft is sound, its log leads to it, and   *)
(* the open batch is the end of the log, in the order of arrival.          *)
LogInv == IInv /\ Rebuilds(draft, log) /\ Batched(draft, log)

LEMMA LogInitHolds == LogInit => LogInv
<1> SUFFICES ASSUME LogInit PROVE LogInv
  OBVIOUS
<1>1. draft = NewDraft /\ log = <<>>
  BY DEF LogInit, Init
<1>2. <<>> \in Seq(Commands) /\ Len(<<>>) = 0 /\ SubSeq(<<>>, 1, 0) = <<>>
  OBVIOUS
<1>3. Replay(<<>>) = Fresh
  BY <1>2, ReplayStep
<1>4. Rebuilds(NewDraft, <<>>)
  BY <1>2, <1>3 DEF Rebuilds, Fresh
<1>5. Batched(NewDraft, <<>>)
  BY DEF Batched, NewDraft
<1>6. QED BY <1>1, <1>4, <1>5, InitSound DEF LogInv, LogInit

LEMMA LogNextKeeps == LogInv /\ [LogNext]_<<draft, log>> => LogInv'
<1> SUFFICES ASSUME LogInv, [LogNext]_<<draft, log>> PROVE LogInv'
  OBVIOUS
<1>1. Sound(draft) /\ Rebuilds(draft, log) /\ Batched(draft, log) /\ draft \in Drafts
  BY DEF LogInv, IInv, Sound
<1>2. IInv'
  BY NextSound DEF LogInv, LogNext, Next
<1>3. \A s \in AllSlots : s \in [side : Sides, slotIndex : Nat]
  BY SlotTypes DEF AllSlots
<1>4. ASSUME NEW heroes \in SUBSET Heroes, ResolvedBans(heroes), Logging(BansCommand(heroes))
      PROVE  Rebuilds(draft', log') /\ Batched(draft', log')
  <2> DEFINE c == BansCommand(heroes)
  <2>1. /\ c \in Commands /\ c.type = "RESOLVED_BANS" /\ c.heroes = heroes
    BY DEF BansCommand, Commands
  <2> HIDE DEF c
  <2>2. /\ Accepts(draft, c) /\ Apply(draft, c) = draft' /\ LogWith(draft, log, c) = Append(log, c)
        /\ log' = LogWith(draft, log, c)
    BY <1>4, <2>1 DEF ResolvedBans, Accepts, Apply, LogWith, Logging, c
  <2>3. Rebuilds(draft', log')
    BY <1>1, <2>1, <2>2, RebuildsOn
  <2>4. draft'.round = 0
    <3>1. draft.round = 0
      BY <1>1, <1>4, RoundsAssumption
         DEF ResolvedBans, AcceptsResolvedBans, Sound, Conserved, BAN_RESOLUTION, Rounds
    <3>2. QED BY <1>1, <1>4, <3>1 DEF ResolvedBans, RecordResolvedBans, Drafts
  <2>5. QED BY <2>3, <2>4 DEF Batched
<1>5. ASSUME BansComplete, Logging(CompleteCommand)
      PROVE  Rebuilds(draft', log') /\ Batched(draft', log')
  <2> DEFINE c == CompleteCommand
  <2>1. /\ c \in Commands /\ c.type = "BAN_RESOLUTION_COMPLETE"
    BY DEF CompleteCommand, Commands
  <2> HIDE DEF c
  <2>2. /\ Accepts(draft, c) /\ Apply(draft, c) = draft' /\ LogWith(draft, log, c) = Append(log, c)
        /\ log' = LogWith(draft, log, c)
    BY <1>5, <2>1 DEF BansComplete, Accepts, Apply, LogWith, Logging, c
  <2>3. Rebuilds(draft', log')
    BY <1>1, <2>1, <2>2, RebuildsOn
  <2>4. draft'.sealed = {} /\ draft' \in Drafts
    <3>1. draft' \in Drafts
      BY <1>2 DEF IInv, Sound
    <3>2. draft' = EnterRound([draft EXCEPT !.banResolutionComplete = TRUE], 1)
      BY <1>5 DEF BansComplete, BanResolutionComplete
    <3>3. QED BY <1>1, <3>1, <3>2 DEF EnterRound, Drafts
  <2>5. EndsIn(draft', log', log', <<>>)
    BY <2>3, <2>4, EndsInNothing DEF Rebuilds
  <2>6. QED BY <2>3, <2>5 DEF Batched
<1>6. ASSUME NEW slot \in AllSlots, NEW h \in Heroes,
             Submit(slot, h), Logging(SealedCommand(slot, h))
      PROVE  Rebuilds(draft', log') /\ Batched(draft', log')
  <2>1. /\ AcceptsSealedSelection(draft, slot, h) /\ slot \in [side : Sides, slotIndex : Nat]
        /\ draft' = SubmitSealedSelection(draft, slot, h)
        /\ log' = LogWith(draft, log, SealedCommand(slot, h))
    BY <1>3, <1>6 DEF Submit, Logging
  <2>2. CASE ~ClosesBatch(draft, slot)
    BY <1>1, <2>1, <2>2, SubmitRebuilds
  <2>3. CASE ClosesBatch(draft, slot)
    <3>1. IsSealedSelectionLegal(draft, slot, h) /\ draft.round # 0 /\ draft.pendingCollision = NoHero
      BY <2>1 DEF AcceptsSealedSelection, IsSealedSelectionLegal
    <3>2. PICK l0, b : EndsIn(draft, log, l0, b)
      BY <1>1, <3>1 DEF Batched
    <3>3. Rebuilds(draft', log')
      BY <1>1, <2>1, <2>3, <3>2, ClosingRebuilds
    <3>4. Closed(Seal(draft, slot, h)) /\ draft' = ResolveRound(Seal(draft, slot, h))
      BY <1>1, <2>1, <2>3, <3>1, SealCloses DEF SubmitSealedSelection
    <3>5. QED BY <3>3, <3>4, ResolvedBatched
  <2>4. QED BY <2>2, <2>3
<1>7. ASSUME NEW slot \in AllSlots, NEW h \in Heroes,
             Arbitrate(h, slot), Logging(ResolutionCommand(h, slot))
      PROVE  Rebuilds(draft', log') /\ Batched(draft', log')
  <2> DEFINE c == ResolutionCommand(h, slot)
  <2>1. /\ c \in Commands /\ c.type = "APPLY_AUTHORITATIVE_COLLISION_RESOLUTION"
        /\ c.heroId = h /\ c.winner = slot
    BY <1>3 DEF ResolutionCommand, Commands
  <2> HIDE DEF c
  <2>2. /\ Accepts(draft, c) /\ Apply(draft, c) = draft' /\ LogWith(draft, log, c) = Append(log, c)
        /\ log' = LogWith(draft, log, c)
    BY <1>7, <2>1 DEF Arbitrate, Accepts, Apply, LogWith, Logging, c
  <2>3. Rebuilds(draft', log')
    BY <1>1, <2>1, <2>2, RebuildsOn
  <2>4. Closed(NameWinner(draft, h, slot)) /\ draft' = ResolveRound(NameWinner(draft, h, slot))
    BY <1>1, <1>7, NameWinnerCloses DEF Arbitrate, AcceptsResolution, ApplyAuthoritativeResolution
  <2>5. QED BY <2>3, <2>4, ResolvedBatched
<1>8. ASSUME UNCHANGED <<draft, log>>
      PROVE  Rebuilds(draft', log') /\ Batched(draft', log')
  BY <1>1, <1>8
<1>9. QED BY <1>2, <1>4, <1>5, <1>6, <1>7, <1>8 DEF LogNext, LogInv

LEMMA LogInvAlways == LogSpec => []LogInv
BY LogInitHolds, LogNextKeeps, PTL DEF LogSpec

(* A draft is rebuilt from its log, none of whose commands is refused on   *)
(* the way, though the log is not in the order the commands came in.       *)
THEOREM ReplayRebuildsAlways == LogSpec => []ReplayRebuilds
<1>1. LogInv => ReplayRebuilds
  BY DEF LogInv, Rebuilds, Accepted, ReplayRebuilds
<1>2. QED BY <1>1, LogInvAlways, PTL

----------------------------------------------------------------------------
(* Who sealed first leaves no trace                                        *)

(* The open batch's commands in another order.                             *)
LEMMA BatchShuffles ==
  ASSUME NEW d0, NEW b, Batch(d0, b), Listed(b),
         NEW p \in Bijection(1..Len(b), 1..Len(b)),
         NEW s, s = [i \in 1..Len(b) |-> b[p[i]]]
  PROVE  /\ Listed(s) /\ Batch(d0, s) /\ Len(s) = Len(b) /\ ToSet(s) = ToSet(b)
         /\ EntriesOf(s, Len(s)) = EntriesOf(b, Len(b))
<1> DEFINE n == Len(b)
<1>1. /\ p \in [1..n -> 1..n] /\ \A i, j \in 1..n : p[i] = p[j] => i = j
      /\ \A i \in 1..n : \E j \in 1..n : p[j] = i
  BY DEF Bijection, Injection, Surjection, IsInjective
<1>2. b \in Seq(SealedCommands) /\ n \in Nat /\ \A i \in 1..n : b[i] \in SealedCommands
  BY DEF Listed
<1>3. s = [i \in 1..n |-> b[p[i]]]
  OBVIOUS
<1>4. \A i, j \in 1..n : b[i].slot = b[j].slot => i = j
  BY DEF Listed
<1> HIDE DEF n
<1>5. s \in Seq(SealedCommands) /\ Len(s) = n /\ \A i \in 1..n : s[i] = b[p[i]]
  <2>1. \A i \in 1..n : s[i] = b[p[i]] /\ s[i] \in SealedCommands
    BY <1>1, <1>2, <1>3
  <2>2. s = [i \in 1..n |-> s[i]]
    BY <1>3
  <2>3. s \in [1..n -> SealedCommands]
    BY <2>1, <2>2
  <2>4. QED BY <1>2, <2>1, <2>3
<1>6. Listed(s)
  <2>1. ASSUME NEW i \in 1..n, NEW j \in 1..n, s[i].slot = s[j].slot PROVE i = j
    <3>1. p[i] \in 1..n /\ p[j] \in 1..n /\ b[p[i]].slot = b[p[j]].slot
      BY <1>1, <1>5, <2>1
    <3>2. QED BY <1>1, <1>4, <3>1
  <2>2. QED BY <1>5, <2>1 DEF Listed
<1>7. /\ \A i \in 1..n : \E j \in 1..n : b[i] = s[j]
      /\ \A i \in 1..n : \E j \in 1..n : s[i] = b[j]
  <2>1. ASSUME NEW i \in 1..n PROVE \E j \in 1..n : b[i] = s[j]
    <3>1. PICK j \in 1..n : p[j] = i
      BY <1>1
    <3>2. QED BY <1>5, <3>1
  <2>2. \A i \in 1..n : p[i] \in 1..n /\ s[i] = b[p[i]]
    BY <1>1, <1>5
  <2>3. QED BY <2>1, <2>2
<1>8. /\ Len(s) = Len(b)
      /\ \A i \in 1..Len(b) : \E j \in 1..Len(b) : b[i] = s[j]
      /\ \A i \in 1..Len(b) : \E j \in 1..Len(b) : s[i] = b[j]
  BY <1>5, <1>7 DEF n
<1>9. Batch(d0, s) /\ EntriesOf(s, Len(s)) = EntriesOf(b, Len(b)) /\ ToSet(s) = ToSet(b)
  BY <1>6, <1>8, BatchReorders
<1>10. QED BY <1>6, <1>8, <1>9

(* Part of a batch after a log whose draft has nothing sealed.             *)
LEMMA OpenReplays ==
  ASSUME NEW l0 \in Seq(Commands), NEW d0, Replay(l0) = [draft |-> d0, log |-> l0],
         NEW s, Batch(d0, s), ~Fills(s, Len(s), d0.openSlots)
  PROVE  Replay(l0 \o s) = [draft |-> Holding(d0, EntriesOf(s, Len(s))), log |-> l0 \o s]
<1> DEFINE k == Len(s)
<1>1. SubSeq(s, 1, k) = s
  BY DEF Batch
<1>2. k \in 0..Len(s) /\ d0.openSlots # {s[i].slot : i \in 1..k}
  BY DEF Fills, Batch
<1> HIDE DEF k
<1>3. /\ Replay(l0 \o SubSeq(s, 1, k)) =
           [draft |-> Holding(d0, EntriesOf(s, k)), log |-> l0 \o SubSeq(s, 1, k)]
      /\ \A m \in 1..k : Accepted(l0 \o s, Len(l0) + m)
  BY <1>2, BatchReplays
<1>4. QED BY <1>1, <1>3 DEF k

(* Replaying the log with its open batch in another order.                 *)
LEMMA ShuffledReplays ==
  ASSUME NEW d, Sound(d), d.round # 0, d.pendingCollision = NoHero,
         NEW l, NEW l0, NEW b, EndsIn(d, l, l0, b),
         NEW s, Listed(s), Batch(Base(d), s), Len(s) = Len(b),
         EntriesOf(s, Len(s)) = EntriesOf(b, Len(b))
  PROVE  /\ Replay(l0 \o s) = [draft |-> d, log |-> l0 \o s]
         /\ EndsIn(d, l0 \o s, l0, s)
<1> DEFINE d0 == Base(d)
           k == Len(s)
<1>1. /\ l0 \in Seq(Commands) /\ Replay(l0) = [draft |-> d0, log |-> l0]
      /\ EntriesOf(s, k) = d.sealed
  BY DEF EndsIn
<1>2. /\ d0.openSlots = d.openSlots \cup {s[i].slot : i \in 1..k}
      /\ Holding(d0, EntriesOf(s, k)) = d
  BY <1>1, BaseBatch
<1>3. /\ s \in Seq(SealedCommands) /\ k \in 0..k /\ SubSeq(s, 1, k) = s
      /\ \A i \in 1..k : s[i] \in SealedCommands
  BY DEF Listed
<1>4. ~Fills(s, Len(s), d0.openSlots)
  <2>1. PICK x : x \in d.openSlots /\ x \notin SlotsOf(d.sealed)
    BY DEF Sound, WaitsRightly, Conserved
  <2>2. ASSUME NEW i \in 1..k PROVE x # s[i].slot
    <3>1. EntryOf(s[i]) \in d.sealed
      BY <1>1 DEF EntriesOf
    <3>2. SlotOf(EntryOf(s[i])) = s[i].slot
      BY <1>3, EntryFields
    <3>3. QED BY <2>1, <3>1, <3>2 DEF SlotsOf
  <2> HIDE DEF d0
  <2>3. x \in d0.openSlots
    BY <1>2, <2>1
  <2>4. QED BY <2>2, <2>3 DEF Fills
<1> HIDE DEF d0
<1>5. Replay(l0 \o s) = [draft |-> Holding(d0, EntriesOf(s, Len(s))), log |-> l0 \o s]
  <2>1. Batch(d0, s)
    BY DEF d0
  <2>2. QED BY <1>1, <1>4, <2>1, OpenReplays
<1>6. Replay(l0 \o s) = [draft |-> d, log |-> l0 \o s]
  BY <1>2, <1>3, <1>5
<1>7. QED BY <1>1, <1>6 DEF EndsIn, d0

(* Whichever command closes it, the batch leaves the same draft and log.   *)
LEMMA ShuffledCloses ==
  ASSUME NEW d, Sound(d), NEW l0,
         NEW b, Listed(b), EndsIn(d, l0 \o b, l0, b),
         NEW s, Listed(s), EndsIn(d, l0 \o s, l0, s), Len(s) = Len(b), ToSet(s) = ToSet(b),
         NEW slot \in [side : Sides, slotIndex : Nat], NEW h \in Heroes,
         AcceptsSealedSelection(d, slot, h), ClosesBatch(d, slot)
  PROVE  LET c == SealedCommand(slot, h) IN
         LogWith(d, l0 \o s, c) = LogWith(d, l0 \o b, c)
<1> DEFINE c == SealedCommand(slot, h)
<1>1. LogWith(d, l0 \o b, c) = l0 \o Canonical(Append(b, c))
  BY ClosingRebuilds
<1>2. LogWith(d, l0 \o s, c) = l0 \o Canonical(Append(s, c))
  BY ClosingRebuilds
<1>3. /\ EntriesOf(b, Len(b)) = d.sealed /\ EntriesOf(s, Len(s)) = d.sealed
      /\ b \in Seq(SealedCommands) /\ s \in Seq(SealedCommands)
  BY DEF EndsIn, Listed
<1>4. Listed(Append(b, c)) /\ Listed(Append(s, c)) /\ c \in SealedCommands
  BY <1>3, BatchGrows
<1> HIDE DEF c
<1>5. Len(Append(b, c)) = Len(Append(s, c))
  BY <1>3, <1>4
<1>6. \A t \in Seq(SealedCommands) : ToSet(Append(t, c)) = ToSet(t) \cup {c}
  <2>1. ASSUME NEW t \in Seq(SealedCommands) PROVE ToSet(Append(t, c)) = ToSet(t) \cup {c}
    <3> DEFINE u == Append(t, c)
               m == Len(t)
    <3>1. /\ m \in Nat /\ DOMAIN u = 1..(m + 1) /\ DOMAIN t = 1..m /\ u[m + 1] = c
          /\ \A i \in 1..m : u[i] = t[i]
      BY <1>4
    <3> HIDE DEF u, m
    <3>2. \A x : x \in ToSet(u) <=> \E i \in 1..(m + 1) : x = u[i]
      BY <3>1 DEF ToSet
    <3>3. \A x : x \in ToSet(t) <=> \E i \in 1..m : x = t[i]
      BY <3>1 DEF ToSet
    <3>4. \A i \in 1..(m + 1) : i \in 1..m \/ i = m + 1
      BY <3>1
    <3>5. m + 1 \in 1..(m + 1) /\ \A i \in 1..m : i \in 1..(m + 1)
      BY <3>1
    <3>6. \A x : x \in ToSet(u) <=> x \in ToSet(t) \cup {c}
      BY <3>1, <3>2, <3>3, <3>4, <3>5
    <3>7. QED BY <3>6 DEF u
  <2>2. QED BY <2>1
<1>7. ToSet(Append(b, c)) = ToSet(Append(s, c))
  BY <1>3, <1>6
<1>8. Canonical(Append(b, c)) = Canonical(Append(s, c))
  BY <1>4, <1>5, <1>7, CanonicalForgets
<1>9. QED BY <1>1, <1>2, <1>8 DEF c

(* Had the commands of the open batch come in another order, the draft     *)
(* would be the one it is, and closing the batch would leave the same      *)
(* draft and the same log.                                                 *)
THEOREM ArrivalAlways == LogSpec => []ArrivalLeavesNoTrace
<1>1. ASSUME LogInv, draft.round # 0, draft.pendingCollision = NoHero,
             NEW p \in Bijection(1..Cardinality(draft.sealed), 1..Cardinality(draft.sealed)),
             NEW other, other = Replay(Rearranged(p))
      PROVE  /\ other.draft = draft
             /\ Cardinality(draft.openSlots) = 1 =>
                  \A slot \in draft.openSlots, h \in Heroes :
                    Accepts(draft, SealedCommand(slot, h)) =>
                      ApplyProtocolCommand(other, SealedCommand(slot, h)) =
                        ApplyProtocolCommand([draft |-> draft, log |-> log], SealedCommand(slot, h))
  <2>1. Sound(draft) /\ draft \in Drafts
    BY <1>1 DEF LogInv, IInv, Sound
  <2>2. PICK l0, b : EndsIn(draft, log, l0, b)
    BY <1>1 DEF LogInv, Batched
  <2>3. /\ l0 \in Seq(Commands) /\ Listed(b) /\ EntriesOf(b, Len(b)) = draft.sealed
        /\ log = l0 \o b
    BY <2>2 DEF EndsIn
  <2>4. /\ Batch(Base(draft), b) /\ Cardinality(draft.sealed) = Len(b)
        /\ IsFiniteSet(draft.openSlots)
    BY <1>1, <2>1, <2>3, BaseBatch
  <2> DEFINE s == [i \in 1..Len(b) |-> b[p[i]]]
  <2>5. /\ p \in Bijection(1..Len(b), 1..Len(b))
        /\ \A i \in 1..Len(b) : p[i] \in 1..Len(b)
    <3>1. p \in Bijection(1..Len(b), 1..Len(b))
      BY <1>1, <2>4
    <3>2. QED BY <3>1 DEF Bijection, Injection
  <2>6. b \in Seq(Commands)
    BY <2>3 DEF Listed, Commands
  <2>7. Rearranged(p) = l0 \o s
    <3>1. /\ Len(l0 \o b) = Len(l0) + Len(b) /\ Len(l0) \in Nat /\ Len(b) \in Nat
          /\ SubSeq(l0 \o b, 1, Len(l0)) = l0
          /\ \A i \in 1..Len(b) : (l0 \o b)[Len(l0) + i] = b[i]
      BY <2>3, <2>6, Joins
    <3>2. Len(log) - Cardinality(draft.sealed) = Len(l0)
      BY <2>3, <2>4, <3>1
    <3>3. \A i \in 1..Len(b) : log[Len(l0) + p[i]] = b[p[i]]
      BY <2>3, <2>5, <3>1
    <3>4. Rearranged(p) = l0 \o [i \in 1..Len(b) |-> log[Len(l0) + p[i]]]
      BY <2>3, <2>4, <3>1, <3>2 DEF Rearranged
    <3>5. [i \in 1..Len(b) |-> log[Len(l0) + p[i]]] = s
      BY <3>3
    <3>6. QED BY <3>4, <3>5
  <2>8. s = [i \in 1..Len(b) |-> b[p[i]]]
    OBVIOUS
  <2> HIDE DEF s
  <2>9. /\ Listed(s) /\ Batch(Base(draft), s) /\ Len(s) = Len(b) /\ ToSet(s) = ToSet(b)
        /\ EntriesOf(s, Len(s)) = EntriesOf(b, Len(b))
    BY <2>3, <2>4, <2>5, <2>8, BatchShuffles
  <2>10. Replay(l0 \o s) = [draft |-> draft, log |-> l0 \o s] /\ EndsIn(draft, l0 \o s, l0, s)
    BY <1>1, <2>1, <2>2, <2>9, ShuffledReplays
  <2>11. other = [draft |-> draft, log |-> l0 \o s]
    BY <1>1, <2>7, <2>10
  <2>12. ASSUME Cardinality(draft.openSlots) = 1, NEW slot \in draft.openSlots, NEW h \in Heroes,
                Accepts(draft, SealedCommand(slot, h))
         PROVE  ApplyProtocolCommand(other, SealedCommand(slot, h)) =
                  ApplyProtocolCommand([draft |-> draft, log |-> log], SealedCommand(slot, h))
    <3> DEFINE c == SealedCommand(slot, h)
    <3>1. ClosesBatch(draft, slot)
      BY <2>4, <2>12, FS_Singleton DEF ClosesBatch
    <3>2. AcceptsSealedSelection(draft, slot, h)
      BY <2>12 DEF Accepts, SealedCommand
    <3>3. slot \in [side : Sides, slotIndex : Nat]
      BY <2>1 DEF Drafts
    <3>4. LogWith(draft, l0 \o s, c) = LogWith(draft, l0 \o b, c)
      <4>1. EndsIn(draft, l0 \o b, l0, b)
        BY <2>2, <2>3
      <4>2. QED BY <2>1, <2>3, <2>9, <2>10, <3>1, <3>2, <3>3, <4>1, ShuffledCloses
    <3> DEFINE q == [draft |-> draft, log |-> log]
    <3>5. other.draft = draft /\ other.log = l0 \o s /\ q.draft = draft /\ q.log = l0 \o b
      BY <2>3, <2>11
    <3> HIDE DEF q, c
    <3>6. ApplyProtocolCommand(other, c) = ApplyProtocolCommand(q, c)
      BY <2>12, <3>4, <3>5 DEF ApplyProtocolCommand, c
    <3>7. QED BY <3>6 DEF q, c
  <2>13. other.draft = draft
    BY <2>11
  <2>14. QED BY <2>12, <2>13
<1>2. LogInv => ArrivalLeavesNoTrace
  BY <1>1 DEF ArrivalLeavesNoTrace
<1>3. QED BY <1>2, LogInvAlways, PTL
=============================================================================
