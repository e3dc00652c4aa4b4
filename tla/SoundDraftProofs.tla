-------------------------- MODULE SoundDraftProofs --------------------------
(***************************************************************************)
(* Every command of the Ranked All Pick kernel keeps a sound draft sound,  *)
(* and does to its bans and picks what DraftPromise allows, for every set  *)
(* of heroes, every number of rounds and every capacity. Closed is what    *)
(* holds of a draft whose batch has just been completed, whatever          *)
(* completed it; resolving a closed draft gives a sound one.               *)
(***************************************************************************)
EXTENDS SoundDraft, TLAPS, FiniteSetTheorems, WellFoundedInduction

(* A draft about to be resolved: no slot open and no hero pending.         *)
Closed(d) ==
  /\ d \in Drafts
  /\ d.round \in Rounds
  /\ d.openSlots = {}
  /\ d.pendingCollision = NoHero
  /\ HeldOnce(d)
  /\ Conserved(d)
  /\ AuthorityFunctional(d)

----------------------------------------------------------------------------
(* Facts about the operators of RankedAllPick                              *)

(* A non-empty set of naturals has a least element.                        *)
LEMMA LeastNatural ==
  ASSUME NEW S \in SUBSET Nat, S # {}
  PROVE  \E x \in S : \A y \in S : x <= y
<1> DEFINE R == {ss \in Nat \X Nat : ss[1] < ss[2]}
<1>1. IsWellFoundedOn(R, Nat)
  BY NatLessThanWellFounded DEF OpToRel
<1>2. \E x \in S : \A y \in S : ~(<<y, x>> \in R)
  <2> HIDE DEF R
  <2> QED BY <1>1, WFMin
<1>3. PICK x \in S : \A y \in S : ~(<<y, x>> \in R)
  BY <1>2
<1>4. ASSUME NEW y \in S PROVE x <= y
  <2>1. ~(<<y, x>> \in R)
    BY <1>3
  <2>2. <<y, x>> \in Nat \X Nat
    OBVIOUS
  <2>3. ~(y < x)
    BY <2>1, <2>2
  <2>4. x \in Nat /\ y \in Nat
    OBVIOUS
  <2> HIDE DEF R
  <2> QED BY <2>3, <2>4
<1>5. QED BY <1>4

(* The bookkeeping of a batch stays within its types.                      *)
LEMMA CollisionTypes ==
  ASSUME NEW d \in Drafts
  PROVE  /\ Collisions(d) \subseteq Heroes
         /\ CollisionBans(d) \subseteq Collisions(d)
         /\ Unresolved(d) \subseteq Contested(d)
         /\ Contested(d) \subseteq Collisions(d)
         /\ Cardinality(Collisions(d)) \in Nat
<1>1. Collisions(d) \in SUBSET Heroes
  BY DEF Collisions
<1>2. IsFiniteSet(Collisions(d))
  BY <1>1, HeroesAssumption, FS_Subset
<1>3. Cardinality(Collisions(d)) \in Nat
  BY <1>2, FS_CardinalityType
<1>4. QED BY <1>1, <1>3 DEF CollisionBans, Unresolved, Contested

(* The hero the kernel waits on is one nobody has settled.                 *)
LEMMA PendingIsUnresolved ==
  ASSUME NEW d \in Drafts, Unresolved(d) # {}
  PROVE  (CHOOSE h \in Unresolved(d) : \A g \in Unresolved(d) : h <= g) \in Unresolved(d)
<1>1. Unresolved(d) \in SUBSET Nat
  BY CollisionTypes, HeroesAssumption
<1>2. \E h \in Unresolved(d) : \A g \in Unresolved(d) : h <= g
  BY <1>1, LeastNatural
<1>3. QED BY <1>2

(* Every slot of a round is a slot of the declared type, and a round has   *)
(* at least one slot.                                                      *)
LEMMA SlotTypes ==
  ASSUME NEW r \in Rounds
  PROVE  /\ Slots(r) \in SUBSET [side : Sides, slotIndex : Nat]
         /\ Slots(r) # {}
<1>1. ROUND_CAPACITY[r] \in Nat \ {0}
  BY CapacityAssumption DEF Rounds
<1>2. 0..(ROUND_CAPACITY[r] - 1) \subseteq Nat /\ 0 \in 0..(ROUND_CAPACITY[r] - 1)
  BY <1>1
<1>3. [side |-> "dire", slotIndex |-> 0] \in Slots(r)
  BY <1>2 DEF Slots, Sides
<1>4. QED BY <1>2, <1>3 DEF Slots

(* At most one entry of a batch reveals each hero.                         *)
LEMMA RevealedOnce ==
  ASSUME NEW d, Closed(d),
         NEW e \in Revealed(d), NEW f \in Revealed(d), e.heroId = f.heroId
  PROVE  e = f
<1>1. e \in d.sealed /\ f \in d.sealed /\ e.heroId \in Heroes
  BY DEF Revealed, Closed, Drafts, SealedSelections
<1>2. CASE e.heroId \notin Collisions(d)
  BY <1>1, <1>2 DEF Collisions, Entries
<1>3. CASE e.heroId \in Collisions(d)
  <2>1. Wins(d, e) /\ Wins(d, f)
    BY <1>3 DEF Revealed
  <2>2. SlotOf(e) = SlotOf(f)
    BY <2>1 DEF Wins, Closed, AuthorityFunctional
  <2>3. QED BY <1>1, <2>2 DEF Closed, Conserved
<1>4. QED BY <1>2, <1>3

(* A revealed hero is not banned by its own batch.                         *)
LEMMA RevealedNotBanned ==
  ASSUME NEW d, Closed(d), NEW e \in Revealed(d)
  PROVE  e.heroId \notin CollisionBans(d)
BY DEF Revealed, Contested, CollisionBans

----------------------------------------------------------------------------
(* What a reveal does to bans and picks                                    *)

(* The picks a batch adds are well-typed, and each comes from one entry.   *)
LEMMA ConfirmTypes ==
  ASSUME NEW d, Closed(d), NEW e \in Revealed(d)
  PROVE  /\ Confirm(d, e) \in ConfirmedPicks
         /\ SlotOf(Confirm(d, e)) = SlotOf(e)
         /\ Confirm(d, e).round = d.round
         /\ Confirm(d, e).heroId = e.heroId
         /\ e \in d.sealed
<1>1. e \in d.sealed /\ d.sealed \in SUBSET SealedSelections /\ d.round \in Rounds
  BY DEF Revealed, Closed, Drafts
<1>2. QED BY <1>1 DEF SealedSelections, ConfirmedPicks, Confirm, SlotOf

(* Bans and picks of a revealed draft, field by field.                     *)
LEMMA RevealFields ==
  ASSUME NEW d, Closed(d)
  PROVE  /\ Reveal(d) \in Drafts
         /\ Reveal(d).bannedHeroes = d.bannedHeroes \cup CollisionBans(d)
         /\ Reveal(d).confirmedPicks = d.confirmedPicks \cup {Confirm(d, e) : e \in Revealed(d)}
         /\ Reveal(d).phase = d.phase
         /\ Reveal(d).round = d.round
         /\ Reveal(d).collisionsResolved = d.collisionsResolved
         /\ Reveal(d).banResolutionComplete = d.banResolutionComplete
<1>1. d \in Drafts
  BY DEF Closed
<1>2. CollisionBans(d) \subseteq Heroes
  BY <1>1, CollisionTypes
<1>3. {Confirm(d, e) : e \in Revealed(d)} \subseteq ConfirmedPicks
  BY ConfirmTypes
<1>4. QED BY <1>1, <1>2, <1>3 DEF Reveal, Drafts

(* After a reveal no hero is both banned and picked, none is picked twice, *)
(* and no seat is given twice.                                             *)
LEMMA RevealHeldOnce ==
  ASSUME NEW d, Closed(d)
  PROVE  LET B == Reveal(d).bannedHeroes
             C == Reveal(d).confirmedPicks
         IN /\ B \cap HeroesOf(C) = {}
            /\ \A p, q \in C : p.heroId = q.heroId => p = q
            /\ \A p, q \in C : (p.round = q.round /\ SlotOf(p) = SlotOf(q)) => p = q
<1> DEFINE New == {Confirm(d, e) : e \in Revealed(d)}
<1> DEFINE B == Reveal(d).bannedHeroes
<1> DEFINE C == Reveal(d).confirmedPicks
<1>1. B = d.bannedHeroes \cup CollisionBans(d) /\ C = d.confirmedPicks \cup New
  BY RevealFields
<1>2. \A p \in New : \E e \in Revealed(d) :
        /\ p = Confirm(d, e) /\ e \in d.sealed /\ p.heroId = e.heroId
        /\ SlotOf(p) = SlotOf(e) /\ p.round = d.round
  BY ConfirmTypes
<1>3. \A e \in d.sealed : ~HeroAlreadyTaken(d, e.heroId)
  BY DEF Closed, HeldOnce
<1>4. \A h \in CollisionBans(d) : \E e \in d.sealed : e.heroId = h
  BY DEF CollisionBans, Collisions, Entries
<1>5. B \cap HeroesOf(C) = {}
  <2>1. \A p \in New : p.heroId \notin d.bannedHeroes /\ p.heroId \notin CollisionBans(d)
    BY <1>2, <1>3, RevealedNotBanned DEF HeroAlreadyTaken
  <2>2. \A p \in d.confirmedPicks : p.heroId \notin d.bannedHeroes /\ p.heroId \notin CollisionBans(d)
    BY <1>3, <1>4 DEF HeroAlreadyTaken, HeroesOf, Closed, HeldOnce
  <2>3. QED BY <1>1, <2>1, <2>2 DEF HeroesOf
<1>6. \A p, q \in C : p.heroId = q.heroId => p = q
  <2>1. \A p, q \in New : p.heroId = q.heroId => p = q
    BY <1>2, RevealedOnce
  <2>2. \A p \in New, q \in d.confirmedPicks : p.heroId # q.heroId
    BY <1>2, <1>3 DEF HeroAlreadyTaken, HeroesOf
  <2>3. \A p, q \in d.confirmedPicks : p.heroId = q.heroId => p = q
    BY DEF Closed, HeldOnce
  <2> HIDE DEF New, C
  <2>4. QED BY <1>1, <2>1, <2>2, <2>3
<1>7. \A p, q \in C : (p.round = q.round /\ SlotOf(p) = SlotOf(q)) => p = q
  <2>1. \A p, q \in New : SlotOf(p) = SlotOf(q) => p = q
    BY <1>2 DEF Closed, Conserved
  <2>2. \A p \in New, q \in d.confirmedPicks : p.round = q.round => SlotOf(p) # SlotOf(q)
    <3>1. SlotsOf(d.sealed) \cap ConfirmedSlots(d, d.round) = {}
      BY RoundsAssumption DEF Closed, Conserved, Rounds
    <3>2. QED BY <1>2, <3>1 DEF SlotsOf, ConfirmedSlots
  <2>3. \A p, q \in d.confirmedPicks : (p.round = q.round /\ SlotOf(p) = SlotOf(q)) => p = q
    BY DEF Closed, Conserved
  <2> HIDE DEF New, C
  <2>4. QED BY <1>1, <2>1, <2>2, <2>3
<1>8. QED BY <1>5, <1>6, <1>7

(* A reveal confirms slots of the round in play only.                      *)
LEMMA RevealSlots ==
  ASSUME NEW d, Closed(d), NEW r \in Rounds
  PROVE  ConfirmedSlots(Reveal(d), r) =
           IF r = d.round THEN ConfirmedSlots(d, r) \cup SlotsOf(Revealed(d))
                          ELSE ConfirmedSlots(d, r)
<1> DEFINE New == {Confirm(d, e) : e \in Revealed(d)}
<1>1. Reveal(d).confirmedPicks = d.confirmedPicks \cup New
  BY RevealFields
<1>2. \A e \in Revealed(d) : SlotOf(Confirm(d, e)) = SlotOf(e) /\ Confirm(d, e).round = d.round
  BY ConfirmTypes
<1>3. QED BY <1>1, <1>2 DEF ConfirmedSlots, SlotsOf

----------------------------------------------------------------------------
(* The three outcomes of resolving a closed draft                          *)

(* Waiting for an authority keeps the batch as it was.                     *)
LEMMA AwaitIsSound ==
  ASSUME NEW d, Closed(d), Unresolved(d) # {}
  PROVE  Sound(AwaitAuthority(d))
<1> DEFINE a == AwaitAuthority(d)
<1> DEFINE h == CHOOSE x \in Unresolved(d) : \A g \in Unresolved(d) : x <= g
<1>1. d \in Drafts /\ d.round \in Rounds
  BY DEF Closed
<1>2. h \in Unresolved(d) /\ h \in Heroes /\ h # NoHero /\ h \in Collisions(d)
  BY <1>1, PendingIsUnresolved, CollisionTypes, HeroesAssumption DEF NoHero
<1>3. /\ a \in Drafts
      /\ a.openSlots = {} /\ a.pendingCollision = h /\ a.status = "WAITING_FOR_COLLISION_AUTHORITY"
      /\ a.sealed = d.sealed /\ a.bannedHeroes = d.bannedHeroes
      /\ a.confirmedPicks = d.confirmedPicks /\ a.round = d.round /\ a.phase = d.phase
      /\ a.collisionsResolved = d.collisionsResolved
      /\ a.authorityResolutions = d.authorityResolutions
  <2> HIDE DEF h
  <2>1. a = [d EXCEPT !.openSlots = {}, !.pendingCollision = h,
                      !.status = "WAITING_FOR_COLLISION_AUTHORITY"]
    BY DEF AwaitAuthority, h
  <2> HIDE DEF a
  <2>2. QED BY <1>1, <1>2, <2>1 DEF Drafts
<1> HIDE DEF a, h
<1>4. HeldOnce(a)
  BY <1>3 DEF Closed, HeldOnce, HeroAlreadyTaken
<1>5. Conserved(a)
  BY <1>3 DEF Closed, Conserved, ConfirmedSlots
<1>6. AuthorityFunctional(a)
  BY <1>3 DEF Closed, AuthorityFunctional, Entries
<1>7. Unresolved(a) = Unresolved(d) /\ Entries(a, h) = Entries(d, h)
  BY <1>3 DEF Unresolved, Contested, CollisionBans, CollisionNumber, Collisions, Resolved, Entries
<1>8. {e.side : e \in Entries(d, h)} = Sides
  <2>1. PICK e \in Entries(d, h), f \in Entries(d, h) : e # f
    BY <1>2 DEF Collisions
  <2>2. e \in d.sealed /\ f \in d.sealed /\ e.heroId = f.heroId /\ e.side \in Sides /\ f.side \in Sides
    BY <1>1 DEF Entries, Drafts, SealedSelections
  <2>3. e.side # f.side
    BY <2>1, <2>2 DEF Closed, HeldOnce
  <2>4. \A x \in Entries(d, h) : x.side \in Sides
    BY <1>1 DEF Entries, Drafts, SealedSelections
  <2>5. QED BY <2>1, <2>2, <2>3, <2>4 DEF Sides
<1>9. WaitsRightly(a)
  <2>1. a.phase # COMPLETE
    BY <1>1, <1>3, RoundsAssumption DEF Closed, Conserved, Rounds, COMPLETE
  <2>2. QED BY <1>2, <1>3, <1>7, <1>8, <2>1 DEF WaitsRightly
<1>10. QED
  BY <1>1, <1>2, <1>3, <1>4, <1>5, <1>6, <1>9, RoundsAssumption DEF Sound, Rounds, a

(* A batch that reopens slots leaves exactly those slots to be sealed.     *)
LEMMA ReopenIsSound ==
  ASSUME NEW d, Closed(d), SlotsOf(d.sealed \ Revealed(d)) # {}
  PROVE  Sound(Reopen(d, SlotsOf(d.sealed \ Revealed(d))))
<1> DEFINE slots == SlotsOf(d.sealed \ Revealed(d))
<1> DEFINE n == d.collisionsResolved + Cardinality(Collisions(d))
<1> DEFINE a == Reopen(d, slots)
<1>1. d \in Drafts /\ d.round \in Rounds /\ d.openSlots = {} /\ Revealed(d) \subseteq d.sealed
  BY DEF Closed, Revealed
<1>2. slots \in SUBSET [side : Sides, slotIndex : Nat]
  BY <1>1 DEF SlotsOf, SlotOf, Drafts, SealedSelections
<1>3. n \in Nat
  BY <1>1, CollisionTypes DEF Drafts
<1>4. /\ a \in Drafts
      /\ a.openSlots = slots /\ a.sealed = {} /\ a.pendingCollision = NoHero
      /\ a.authorityResolutions = {} /\ a.status = "ACTIVE"
      /\ a.bannedHeroes = Reveal(d).bannedHeroes
      /\ a.confirmedPicks = Reveal(d).confirmedPicks
      /\ a.round = d.round /\ a.phase = d.phase
  <2> HIDE DEF slots, n
  <2>1. a = [Reveal(d) EXCEPT !.openSlots = slots, !.sealed = {}, !.collisionsResolved = n,
                !.pendingCollision = NoHero, !.authorityResolutions = {}, !.status = "ACTIVE"]
    BY RevealFields DEF Reopen, n, a
  <2>2. Reveal(d) \in Drafts /\ Reveal(d).round = d.round /\ Reveal(d).phase = d.phase
    BY RevealFields
  <2> HIDE DEF a
  <2>3. QED BY <1>2, <1>3, <2>1, <2>2 DEF Drafts
<1> HIDE DEF a, n
<1>5. HeldOnce(a)
  BY <1>4, RevealHeldOnce DEF HeldOnce
<1>6. Conserved(a)
  <2>1. \A r \in Rounds : ConfirmedSlots(a, r) = ConfirmedSlots(Reveal(d), r)
    BY <1>4 DEF ConfirmedSlots
  <2>2. a.round = IF a.phase \in Rounds THEN a.phase ELSE 0
    BY <1>4 DEF Closed, Conserved
  <2>3. d.round = d.phase /\ d.round # 0 /\ d.phase \in Int
    BY <1>1, RoundsAssumption DEF Closed, Conserved, Rounds
  <2>4. \A r \in Rounds : /\ r < a.phase => ConfirmedSlots(a, r) = Slots(r)
                          /\ r > a.phase => ConfirmedSlots(a, r) = {}
    BY <1>4, <2>1, <2>3, RevealSlots DEF Closed, Conserved, Rounds
  <2>5. ConfirmedSlots(a, d.round) = ConfirmedSlots(d, d.round) \cup SlotsOf(Revealed(d))
    BY <1>1, <2>1, RevealSlots
  <2>6. slots \cup SlotsOf(Revealed(d)) = SlotsOf(d.sealed)
    BY <1>1 DEF SlotsOf
  <2>7. slots \cap SlotsOf(Revealed(d)) = {}
    BY <1>1 DEF SlotsOf, Closed, Conserved
  <2>8. slots \subseteq SlotsOf(d.sealed)
    BY <2>6
  <2>9. /\ SlotsOf(d.sealed) \cup ConfirmedSlots(d, d.round) = Slots(d.round)
        /\ SlotsOf(d.sealed) \cap ConfirmedSlots(d, d.round) = {}
    BY <1>1, <2>3 DEF Closed, Conserved
  <2>10. SlotsOf(a.sealed) = {}
    BY <1>4 DEF SlotsOf
  <2> HIDE DEF slots
  <2>11. /\ a.openSlots \cup SlotsOf(a.sealed) \cup ConfirmedSlots(a, a.round) = Slots(a.round)
         /\ a.openSlots \cap SlotsOf(a.sealed) = {}
         /\ a.openSlots \cap ConfirmedSlots(a, a.round) = {}
         /\ SlotsOf(a.sealed) \cap ConfirmedSlots(a, a.round) = {}
    BY <1>4, <2>5, <2>6, <2>7, <2>8, <2>9, <2>10
  <2>12. \A p, q \in a.confirmedPicks : (p.round = q.round /\ SlotOf(p) = SlotOf(q)) => p = q
    BY <1>4, RevealHeldOnce
  <2>13. QED BY <1>4, <2>2, <2>4, <2>11, <2>12 DEF Conserved
<1>7. WaitsRightly(a)
  <2>1. a.phase # COMPLETE
    BY <1>1, <1>4, RoundsAssumption DEF Closed, Conserved, Rounds, COMPLETE
  <2>2. QED BY <1>4, <2>1 DEF WaitsRightly
<1>8. a.round # 0
  BY <1>1, <1>4, RoundsAssumption DEF Rounds
<1>9. QED
  BY <1>4, <1>5, <1>6, <1>7, <1>8 DEF Sound, AuthorityFunctional, a

(* Entering a round, or completing the draft, once every round before it   *)
(* is full and nothing of it or of a later one is confirmed.               *)
LEMMA EnterIsSound ==
  ASSUME NEW d \in Drafts, NEW r \in 1..COMPLETE,
         d.bannedHeroes \cap HeroesOf(d.confirmedPicks) = {},
         \A p, q \in d.confirmedPicks : p.heroId = q.heroId => p = q,
         \A p, q \in d.confirmedPicks : (p.round = q.round /\ SlotOf(p) = SlotOf(q)) => p = q,
         \A k \in Rounds : /\ k < r => ConfirmedSlots(d, k) = Slots(k)
                           /\ k >= r => ConfirmedSlots(d, k) = {}
  PROVE  Sound(EnterRound(d, r))
<1> DEFINE a == EnterRound(d, r)
<1> DEFINE open == IF r \in Rounds THEN Slots(r) ELSE {}
<1>1. open \in SUBSET [side : Sides, slotIndex : Nat]
  BY SlotTypes
<1>2. /\ r \in Int /\ r # 0 /\ r \in 0..COMPLETE
      /\ (r \in Rounds) <=> (r # COMPLETE)
      /\ \A k \in Rounds : k \in 0..NumRounds /\ k \in Int
  BY RoundsAssumption DEF Rounds, COMPLETE
<1>3. /\ a \in Drafts
      /\ a.phase = r /\ a.round = (IF r \in Rounds THEN r ELSE 0)
      /\ a.openSlots = open /\ a.sealed = {} /\ a.pendingCollision = NoHero
      /\ a.authorityResolutions = {}
      /\ a.status = (IF r \in Rounds THEN "ACTIVE" ELSE "COMPLETE")
      /\ a.bannedHeroes = d.bannedHeroes /\ a.confirmedPicks = d.confirmedPicks
  <2>1. a = [d EXCEPT !.phase = r, !.round = IF r \in Rounds THEN r ELSE 0, !.openSlots = open,
                      !.sealed = {}, !.collisionsResolved = 0, !.pendingCollision = NoHero,
                      !.authorityResolutions = {},
                      !.status = IF r \in Rounds THEN "ACTIVE" ELSE "COMPLETE"]
    BY DEF EnterRound
  <2>2. (IF r \in Rounds THEN r ELSE 0) \in 0..NumRounds
    BY <1>2, RoundsAssumption
  <2> HIDE DEF a, open
  <2>3. QED BY <1>1, <1>2, <2>1, <2>2 DEF Drafts
<1> HIDE DEF a
<1>4. \A k \in Rounds : ConfirmedSlots(a, k) = ConfirmedSlots(d, k)
  BY <1>3 DEF ConfirmedSlots
<1>5. SlotsOf(a.sealed) = {}
  BY <1>3 DEF SlotsOf
<1>6. Conserved(a)
  <2>1. a.round # 0 => a.round = r /\ r \in Rounds /\ ConfirmedSlots(a, r) = {}
    BY <1>2, <1>3, <1>4
  <2>2. QED BY <1>2, <1>3, <1>4, <1>5, <2>1 DEF Conserved
<1>7. HeldOnce(a)
  BY <1>3 DEF HeldOnce
<1>8. WaitsRightly(a)
  BY <1>2, <1>3, SlotTypes DEF WaitsRightly
<1>9. QED
  BY <1>2, <1>3, <1>6, <1>7, <1>8 DEF Sound, AuthorityFunctional, a

(* A batch that reopens nothing fills its round.                           *)
LEMMA AdvanceIsSound ==
  ASSUME NEW d, Closed(d), SlotsOf(d.sealed \ Revealed(d)) = {}
  PROVE  Sound(EnterRound(Reveal(d), d.round + 1))
<1>1. Reveal(d) \in Drafts /\ d.round \in Rounds
  BY RevealFields DEF Closed
<1>2. d.round + 1 \in 1..COMPLETE /\ d.round \in Int
  BY <1>1, RoundsAssumption DEF Rounds, COMPLETE
<1>3. d.phase = d.round /\ d.round # 0
  BY <1>1, RoundsAssumption DEF Closed, Conserved, Rounds
<1>4. Revealed(d) = d.sealed
  BY DEF SlotsOf, Revealed
<1>5. ConfirmedSlots(Reveal(d), d.round) = Slots(d.round)
  BY <1>1, <1>3, <1>4, RevealSlots DEF Closed, Conserved
<1>6. \A k \in Rounds : /\ k < d.round + 1 => ConfirmedSlots(Reveal(d), k) = Slots(k)
                        /\ k >= d.round + 1 => ConfirmedSlots(Reveal(d), k) = {}
  <2> TAKE k \in Rounds
  <2>1. k \in Int
    BY DEF Rounds
  <2>2. CASE k = d.round
    BY <1>2, <1>5, <2>2
  <2>3. CASE k # d.round
    BY <1>2, <1>3, <2>1, <2>3, RevealSlots DEF Closed, Conserved
  <2>4. QED BY <2>2, <2>3
<1>7. QED BY <1>1, <1>2, <1>6, RevealHeldOnce, EnterIsSound

LEMMA ResolveIsSound ==
  ASSUME NEW d, Closed(d)
  PROVE  Sound(ResolveRound(d))
BY AwaitIsSound, ReopenIsSound, AdvanceIsSound DEF ResolveRound

----------------------------------------------------------------------------
(* Every command keeps a sound draft sound                                 *)

LEMMA NewIsSound == Sound(NewDraft)
<1>1. NewDraft \in Drafts /\ 0 \notin Rounds /\ 0 # COMPLETE
  BY RoundsAssumption DEF NewDraft, Drafts, Rounds, COMPLETE, BAN_RESOLUTION, NoHero
<1>2. \A r \in Rounds : ConfirmedSlots(NewDraft, r) = {} /\ ~(r < 0)
  BY RoundsAssumption DEF ConfirmedSlots, NewDraft, SlotsOf, Rounds
<1>3. Conserved(NewDraft)
  BY <1>1, <1>2 DEF Conserved, NewDraft, BAN_RESOLUTION
<1>4. HeldOnce(NewDraft) /\ WaitsRightly(NewDraft) /\ AuthorityFunctional(NewDraft)
  BY <1>1 DEF HeldOnce, WaitsRightly, AuthorityFunctional, NewDraft, HeroesOf, BAN_RESOLUTION
<1>5. QED BY <1>1, <1>3, <1>4 DEF Sound, NewDraft

(* Nothing is picked before the first round.                               *)
LEMMA NoPicksYet ==
  ASSUME NEW d, Sound(d), d.phase = 0
  PROVE  d.confirmedPicks = {}
<1>1. \A r \in Rounds : ConfirmedSlots(d, r) = {}
  BY RoundsAssumption DEF Sound, Conserved, Rounds
<1>2. \A p \in d.confirmedPicks : p.round \in Rounds
  BY DEF Sound, Drafts, ConfirmedPicks
<1>3. QED BY <1>1, <1>2 DEF ConfirmedSlots, SlotsOf

LEMMA RecordIsSound ==
  ASSUME NEW d, Sound(d), NEW heroes \in SUBSET Heroes, AcceptsResolvedBans(d, heroes)
  PROVE  Sound(RecordResolvedBans(d, heroes))
<1> DEFINE a == RecordResolvedBans(d, heroes)
<1>1. d \in Drafts /\ d.phase = 0 /\ d.round = 0
  BY RoundsAssumption DEF Sound, AcceptsResolvedBans, BAN_RESOLUTION, Conserved, Rounds
<1>2. /\ a \in Drafts /\ a.bannedHeroes = d.bannedHeroes \cup heroes
      /\ a.confirmedPicks = d.confirmedPicks /\ a.sealed = d.sealed /\ a.openSlots = d.openSlots
      /\ a.phase = d.phase /\ a.round = d.round /\ a.status = d.status
      /\ a.pendingCollision = d.pendingCollision /\ a.authorityResolutions = d.authorityResolutions
      /\ a.collisionsResolved = d.collisionsResolved
  BY <1>1 DEF RecordResolvedBans, Drafts
<1> HIDE DEF a
<1>3. d.sealed = {} /\ d.pendingCollision = NoHero
  BY <1>1 DEF Sound
<1>4. d.confirmedPicks = {}
  BY <1>1, NoPicksYet
<1>5. HeldOnce(a)
  BY <1>2, <1>3, <1>4 DEF HeldOnce, HeroesOf
<1>6. Conserved(a)
  BY <1>2 DEF Sound, Conserved, ConfirmedSlots
<1>7. WaitsRightly(a) /\ AuthorityFunctional(a)
  BY <1>1, <1>2, <1>3 DEF Sound, WaitsRightly, AuthorityFunctional, Entries
<1>8. QED BY <1>1, <1>2, <1>3, <1>5, <1>6, <1>7 DEF Sound, a

LEMMA BansCompleteIsSound ==
  ASSUME NEW d, Sound(d), AcceptsBanResolutionComplete(d)
  PROVE  Sound(BanResolutionComplete(d))
<1> DEFINE b == [d EXCEPT !.banResolutionComplete = TRUE]
<1>1. d \in Drafts /\ d.phase = 0 /\ 1 \in 1..COMPLETE
  BY RoundsAssumption DEF Sound, AcceptsBanResolutionComplete, BAN_RESOLUTION, COMPLETE
<1>2. b \in Drafts /\ b.confirmedPicks = d.confirmedPicks /\ b.bannedHeroes = d.bannedHeroes
  BY <1>1 DEF Drafts
<1> HIDE DEF b
<1>3. \A k \in Rounds : k >= 1 /\ k \in Int /\ ConfirmedSlots(b, k) = {}
  <2>1. \A k \in Rounds : k >= 1 /\ k \in Int /\ k > 0
    BY RoundsAssumption DEF Rounds
  <2>2. \A k \in Rounds : ConfirmedSlots(d, k) = {}
    BY <1>1, <2>1 DEF Sound, Conserved
  <2>3. \A k \in Rounds : ConfirmedSlots(b, k) = ConfirmedSlots(d, k)
    BY <1>2 DEF ConfirmedSlots
  <2>4. QED BY <2>1, <2>2, <2>3
<1>4. Sound(EnterRound(b, 1))
  BY <1>1, <1>2, <1>3, EnterIsSound DEF Sound, HeldOnce, Conserved
<1>5. QED BY <1>4 DEF BanResolutionComplete, b

(* The entry a submission seals.                                           *)
Entry(slot, h) == [side |-> slot.side, slotIndex |-> slot.slotIndex, heroId |-> h]

(* What sealing a selection changes, field by field.                       *)
LEMMA SealFields ==
  ASSUME NEW d, Sound(d), NEW slot \in [side : Sides, slotIndex : Nat], NEW h \in Heroes
  PROVE  /\ Seal(d, slot, h) \in Drafts
         /\ Seal(d, slot, h).openSlots = d.openSlots \ {slot}
         /\ Seal(d, slot, h).sealed = d.sealed \cup {Entry(slot, h)}
         /\ SlotOf(Entry(slot, h)) = slot
         /\ Entry(slot, h).heroId = h
         /\ Entry(slot, h).side = slot.side
         /\ Seal(d, slot, h).bannedHeroes = d.bannedHeroes
         /\ Seal(d, slot, h).confirmedPicks = d.confirmedPicks
         /\ Seal(d, slot, h).phase = d.phase
         /\ Seal(d, slot, h).round = d.round
         /\ Seal(d, slot, h).status = d.status
         /\ Seal(d, slot, h).collisionsResolved = d.collisionsResolved
         /\ Seal(d, slot, h).pendingCollision = d.pendingCollision
         /\ Seal(d, slot, h).authorityResolutions = d.authorityResolutions
<1> DEFINE a == Seal(d, slot, h)
<1> DEFINE new == Entry(slot, h)
<1>1. d \in Drafts
  BY DEF Sound
<1>2. new \in SealedSelections /\ SlotOf(new) = slot /\ new.heroId = h /\ new.side = slot.side
  BY DEF SealedSelections, SlotOf, Entry
<1>3. a = [d EXCEPT !.openSlots = d.openSlots \ {slot}, !.sealed = d.sealed \cup {new}]
  BY DEF Seal, Entry
<1> HIDE DEF new, a
<1>4. /\ a \in Drafts
      /\ a.openSlots = d.openSlots \ {slot} /\ a.sealed = d.sealed \cup {new}
      /\ a.bannedHeroes = d.bannedHeroes /\ a.confirmedPicks = d.confirmedPicks
      /\ a.phase = d.phase /\ a.round = d.round /\ a.status = d.status
      /\ a.pendingCollision = d.pendingCollision
      /\ a.collisionsResolved = d.collisionsResolved
      /\ a.authorityResolutions = d.authorityResolutions
  BY <1>1, <1>2, <1>3 DEF Drafts
<1>5. QED BY <1>2, <1>4 DEF a, new

(* Sealing keeps the heroes and the slots of the batch apart.              *)
LEMMA SealKeepsParts ==
  ASSUME NEW d, Sound(d), NEW slot, NEW h \in Heroes, IsSealedSelectionLegal(d, slot, h)
  PROVE  /\ slot \in d.openSlots /\ slot \in [side : Sides, slotIndex : Nat]
         /\ d.round \in Rounds /\ d.pendingCollision = NoHero /\ d.authorityResolutions = {}
         /\ HeldOnce(Seal(d, slot, h))
         /\ Conserved(Seal(d, slot, h))
<1> DEFINE a == Seal(d, slot, h)
<1> DEFINE new == Entry(slot, h)
<1>1. slot \in d.openSlots /\ d.round # 0 /\ d.pendingCollision = NoHero /\ ~HeroAlreadyTaken(d, h)
  BY DEF IsSealedSelectionLegal, Sound, WaitsRightly
<1>2. slot \in [side : Sides, slotIndex : Nat] /\ d.round \in Rounds /\ d.authorityResolutions = {}
  BY <1>1 DEF Sound, Drafts, Conserved
<1>3. /\ a \in Drafts
      /\ a.openSlots = d.openSlots \ {slot} /\ a.sealed = d.sealed \cup {new} /\ SlotOf(new) = slot
      /\ a.bannedHeroes = d.bannedHeroes /\ a.confirmedPicks = d.confirmedPicks
      /\ a.phase = d.phase /\ a.round = d.round
  BY <1>2, SealFields
<1>4. new.heroId = h /\ new.side = slot.side
  BY <1>2, SealFields
<1> HIDE DEF a, new
<1>5. HeldOnce(a)
  <2>1. \A e \in d.sealed : ~(e.side = slot.side /\ e.heroId = h)
    BY DEF IsSealedSelectionLegal
  <2>2. \A e \in a.sealed : ~HeroAlreadyTaken(a, e.heroId)
    BY <1>1, <1>3, <1>4 DEF HeroAlreadyTaken, Sound, HeldOnce
  <2>3. \A e, f \in a.sealed : (e.side = f.side /\ e.heroId = f.heroId) => e = f
    BY <1>3, <1>4, <2>1 DEF Sound, HeldOnce
  <2>4. QED BY <1>3, <2>2, <2>3 DEF Sound, HeldOnce
<1>6. Conserved(a)
  <2>1. SlotsOf(a.sealed) = SlotsOf(d.sealed) \cup {slot}
    BY <1>3 DEF SlotsOf
  <2>2. \A r \in Rounds : ConfirmedSlots(a, r) = ConfirmedSlots(d, r)
    BY <1>3 DEF ConfirmedSlots
  <2>3. slot \notin SlotsOf(d.sealed) /\ slot \notin ConfirmedSlots(d, d.round)
    BY <1>1 DEF Sound, Conserved
  <2>4. \A e, f \in a.sealed : SlotOf(e) = SlotOf(f) => e = f
    BY <1>3, <2>3 DEF SlotsOf, Sound, Conserved
  <2>5. /\ a.openSlots \cup SlotsOf(a.sealed) \cup ConfirmedSlots(a, a.round) = Slots(a.round)
        /\ a.openSlots \cap SlotsOf(a.sealed) = {}
        /\ a.openSlots \cap ConfirmedSlots(a, a.round) = {}
        /\ SlotsOf(a.sealed) \cap ConfirmedSlots(a, a.round) = {}
    <3>1. /\ d.openSlots \cup SlotsOf(d.sealed) \cup ConfirmedSlots(d, d.round) = Slots(d.round)
          /\ d.openSlots \cap SlotsOf(d.sealed) = {}
          /\ d.openSlots \cap ConfirmedSlots(d, d.round) = {}
          /\ SlotsOf(d.sealed) \cap ConfirmedSlots(d, d.round) = {}
      BY <1>1 DEF Sound, Conserved
    <3>2. QED BY <1>1, <1>2, <1>3, <2>1, <2>2, <2>3, <3>1
  <2>6. QED BY <1>3, <2>2, <2>4, <2>5 DEF Sound, Conserved
<1>7. QED BY <1>1, <1>2, <1>5, <1>6 DEF a

(* Sealing the last open slot closes the batch.                            *)
LEMMA SealCloses ==
  ASSUME NEW d, Sound(d), NEW slot, NEW h \in Heroes,
         IsSealedSelectionLegal(d, slot, h), ClosesBatch(d, slot)
  PROVE  Closed(Seal(d, slot, h))
<1> DEFINE a == Seal(d, slot, h)
<1>1. /\ slot \in [side : Sides, slotIndex : Nat] /\ d.round \in Rounds
      /\ d.pendingCollision = NoHero /\ d.authorityResolutions = {}
      /\ HeldOnce(a) /\ Conserved(a)
  BY SealKeepsParts
<1>2. /\ a \in Drafts /\ a.openSlots = {} /\ a.round \in Rounds
      /\ a.pendingCollision = NoHero /\ a.authorityResolutions = {}
  BY <1>1, SealFields DEF ClosesBatch
<1>3. QED BY <1>1, <1>2 DEF Closed, AuthorityFunctional

LEMMA SubmitIsSound ==
  ASSUME NEW d, Sound(d), NEW slot, NEW h \in Heroes, AcceptsSealedSelection(d, slot, h)
  PROVE  Sound(SubmitSealedSelection(d, slot, h))
<1> DEFINE a == Seal(d, slot, h)
<1>1. IsSealedSelectionLegal(d, slot, h)
  BY DEF AcceptsSealedSelection
<1>2. CASE ClosesBatch(d, slot)
  BY <1>1, <1>2, SealCloses, ResolveIsSound DEF SubmitSealedSelection
<1>3. CASE ~ClosesBatch(d, slot)
  <2>1. /\ slot \in d.openSlots /\ slot \in [side : Sides, slotIndex : Nat]
        /\ d.round \in Rounds /\ d.pendingCollision = NoHero /\ d.authorityResolutions = {}
        /\ HeldOnce(a) /\ Conserved(a)
    BY <1>1, SealKeepsParts
  <2>2. /\ a \in Drafts /\ a.openSlots = d.openSlots \ {slot}
        /\ a.round = d.round /\ a.phase = d.phase /\ a.status = d.status
        /\ a.pendingCollision = NoHero /\ a.authorityResolutions = {}
    BY <2>1, SealFields
  <2> HIDE DEF a
  <2>3. a.openSlots # {}
    BY <1>3, <2>1, <2>2 DEF ClosesBatch
  <2>4. WaitsRightly(a) /\ AuthorityFunctional(a)
    BY <2>1, <2>2, <2>3 DEF Sound, WaitsRightly, AuthorityFunctional
  <2>5. a.round # 0
    BY <2>1, <2>2, RoundsAssumption DEF Rounds
  <2>6. Sound(a)
    BY <2>1, <2>2, <2>4, <2>5 DEF Sound
  <2>7. QED BY <1>3, <2>6 DEF SubmitSealedSelection, a
<1>4. QED BY <1>2, <1>3

(* Naming a contender of the pending collision closes the batch again.     *)
LEMMA NameWinnerCloses ==
  ASSUME NEW d, Sound(d), NEW h \in Heroes, d.pendingCollision = h,
         NEW winner \in SlotsOf(Entries(d, h))
  PROVE  Closed(NameWinner(d, h, winner))
<1> DEFINE a == NameWinner(d, h, winner)
<1> DEFINE new == [heroId |-> h, winner |-> winner]
<1>1. /\ d \in Drafts /\ d.pendingCollision = h /\ h # NoHero /\ d.openSlots = {}
      /\ h \in Unresolved(d) /\ d.round \in Rounds /\ winner \in SlotsOf(Entries(d, h))
  <2>1. d \in Drafts /\ d.pendingCollision = h /\ h # NoHero /\ winner \in SlotsOf(Entries(d, h))
    BY HeroesAssumption DEF Sound, NoHero
  <2>2. h \in Unresolved(d) /\ d.openSlots = {}
    BY <2>1 DEF Sound, WaitsRightly
  <2>3. d.round # 0
    BY <2>1 DEF Sound
  <2>4. QED BY <2>1, <2>2, <2>3 DEF Sound, Conserved
<1>2. winner \in [side : Sides, slotIndex : Nat]
  BY <1>1 DEF SlotsOf, SlotOf, Entries, Drafts, SealedSelections
<1>3. new \in Resolutions /\ new.heroId = h /\ new.winner = winner
  BY <1>2 DEF Resolutions
<1>4. a = [d EXCEPT !.pendingCollision = NoHero,
                    !.authorityResolutions = d.authorityResolutions \cup {new}]
  BY DEF NameWinner
<1> HIDE DEF new, a
<1>5. /\ a \in Drafts /\ a.pendingCollision = NoHero
      /\ a.authorityResolutions = d.authorityResolutions \cup {new}
      /\ a.openSlots = {} /\ a.sealed = d.sealed /\ a.round = d.round /\ a.phase = d.phase
      /\ a.bannedHeroes = d.bannedHeroes /\ a.confirmedPicks = d.confirmedPicks
  BY <1>1, <1>3, <1>4 DEF Drafts
<1>6. AuthorityFunctional(a)
  <2>1. \A x \in d.authorityResolutions : x.heroId # h
    BY <1>1 DEF Unresolved, Resolved
  <2>2. \A x \in Heroes : Entries(a, x) = Entries(d, x)
    BY <1>5 DEF Entries
  <2>3. \A x \in a.authorityResolutions : x.heroId \in Heroes
    BY <1>5 DEF Drafts, Resolutions
  <2>4. QED BY <1>1, <1>3, <1>5, <2>1, <2>2, <2>3 DEF Sound, AuthorityFunctional
<1>7. HeldOnce(a) /\ Conserved(a)
  <2>1. HeldOnce(a)
    BY <1>5 DEF Sound, HeldOnce, HeroAlreadyTaken
  <2>2. \A r : ConfirmedSlots(a, r) = ConfirmedSlots(d, r)
    BY <1>5 DEF ConfirmedSlots
  <2>3. Conserved(a)
    BY <1>1, <1>5, <2>2 DEF Sound, Conserved
  <2>4. QED BY <2>1, <2>3
<1>8. QED BY <1>1, <1>5, <1>6, <1>7 DEF Closed, a

LEMMA ArbitrateIsSound ==
  ASSUME NEW d, Sound(d), NEW h \in Heroes, NEW winner, AcceptsResolution(d, h, winner)
  PROVE  Sound(ApplyAuthoritativeResolution(d, h, winner))
BY NameWinnerCloses, ResolveIsSound DEF AcceptsResolution, ApplyAuthoritativeResolution

----------------------------------------------------------------------------
(* No legal command is refused by the resolution of its batch              *)

(* Every collision of a closed batch is between exactly two entries.       *)
LEMMA CollisionOfTwo ==
  ASSUME NEW d, Closed(d), NEW h \in Collisions(d)
  PROVE  Cardinality(Entries(d, h)) = 2
<1>1. PICK e \in Entries(d, h), f \in Entries(d, h) : e # f
  BY DEF Collisions
<1>2. \A x \in Entries(d, h) : x \in d.sealed /\ x.heroId = h /\ x.side \in Sides
  BY DEF Entries, Closed, Drafts, SealedSelections
<1>3. \A x, y \in Entries(d, h) : x.side = y.side => x = y
  BY <1>2 DEF Closed, HeldOnce
<1>4. Entries(d, h) = {e, f}
  BY <1>1, <1>2, <1>3 DEF Sides
<1>5. IsFiniteSet({e}) /\ Cardinality({e}) = 1
  BY FS_Singleton
<1>6. Cardinality({e} \cup {f}) = 2
  <2>1. f \notin {e}
    BY <1>1
  <2>2. Cardinality({e} \cup {f}) = Cardinality({e}) + 1
    BY ONLY <2>1, <1>5, FS_AddElement, Zenon
  <2>3. QED BY <1>5, <2>2
<1>7. {e} \cup {f} = {e, f}
  OBVIOUS
<1>8. QED BY <1>4, <1>6, <1>7

LEMMA ClosedResolves ==
  ASSUME NEW d, Closed(d)
  PROVE  ~ResolutionFails(d)
<1>1. ASSUME NEW h \in Contested(d), h \notin Unresolved(d)
      PROVE  \E e \in Entries(d, h) : Wins(d, e)
  <2>1. PICK x \in d.authorityResolutions : x.heroId = h
    BY <1>1 DEF Unresolved, Resolved
  <2>2. x \in Resolutions /\ x = [heroId |-> h, winner |-> x.winner]
    BY <2>1 DEF Closed, Drafts, Resolutions
  <2>3. PICK e \in Entries(d, h) : SlotOf(e) = x.winner
    BY <2>1 DEF Closed, AuthorityFunctional, SlotsOf
  <2>4. e.heroId = h
    BY DEF Entries
  <2>5. QED BY <2>1, <2>2, <2>3, <2>4 DEF Wins
<1>2. QED BY <1>1, CollisionOfTwo DEF ResolutionFails

----------------------------------------------------------------------------
(* What the commands do to bans and picks                                  *)

(* A seat of the draft, as DraftPromise names it, and its Settle between   *)
(* any two drafts.                                                         *)
SeatOf(p) == [side |-> p.side, round |-> p.round, slotIndex |-> p.slotIndex]

Settles(d, a) ==
  LET newBans  == a.bannedHeroes \ d.bannedHeroes
      newPicks == a.confirmedPicks \ d.confirmedPicks
      taken    == d.bannedHeroes \cup {p.heroId : p \in d.confirmedPicks}
      filled   == {SeatOf(p) : p \in d.confirmedPicks}
  IN /\ d.bannedHeroes \subseteq a.bannedHeroes
     /\ d.confirmedPicks \subseteq a.confirmedPicks
     /\ newBans \subseteq Heroes \ taken
     /\ \A p \in newPicks :
          /\ SeatOf(p) \in Seats \ filled
          /\ p.heroId \in (Heroes \ taken) \ newBans
          /\ \A s \in Seats : s.round < p.round => s \in filled
     /\ \A p, q \in newPicks :
          (p.heroId = q.heroId \/ SeatOf(p) = SeatOf(q)) => p = q

(* A seat is a slot of its round, and picks of one seat share both.        *)
LEMMA SeatOfSlot ==
  ASSUME NEW r \in Rounds, NEW s
  PROVE  ([side |-> s.side, round |-> r, slotIndex |-> s.slotIndex] \in Seats)
           <=> SlotOf(s) \in Slots(r)
<1>1. Seats = UNION {[side : Sides, round : {k}, slotIndex : 0..(ROUND_CAPACITY[k] - 1)] : k \in Rounds}
  BY DEF Seats
<1>2. QED BY <1>1 DEF Slots, SlotOf

LEMMA RevealSettles ==
  ASSUME NEW d, Closed(d)
  PROVE  Settles(d, Reveal(d))
<1> DEFINE a == Reveal(d)
<1> DEFINE New == {Confirm(d, e) : e \in Revealed(d)}
<1> DEFINE taken == d.bannedHeroes \cup {p.heroId : p \in d.confirmedPicks}
<1> DEFINE filled == {SeatOf(p) : p \in d.confirmedPicks}
<1>1. /\ a.bannedHeroes = d.bannedHeroes \cup CollisionBans(d)
      /\ a.confirmedPicks = d.confirmedPicks \cup New
  BY RevealFields
<1>2. \A e \in d.sealed : e.heroId \in Heroes \ taken
  BY DEF Closed, HeldOnce, HeroAlreadyTaken, HeroesOf, Drafts, SealedSelections
<1>3. CollisionBans(d) \subseteq Heroes \ taken
  BY <1>2 DEF CollisionBans, Collisions, Entries
<1>4. \A p \in New : \E e \in Revealed(d) :
        p = Confirm(d, e) /\ e \in d.sealed /\ p.heroId = e.heroId /\ SlotOf(p) = SlotOf(e) /\ p.round = d.round
  BY ConfirmTypes
<1>5. d.round \in Rounds /\ d.round \in Int /\ d.phase = d.round /\ d.round # 0
  BY RoundsAssumption DEF Closed, Conserved, Rounds
<1>6. \A p \in New : p.heroId \in (Heroes \ taken) \ (a.bannedHeroes \ d.bannedHeroes)
  BY <1>1, <1>2, <1>4, RevealedNotBanned
<1>7. ASSUME NEW p \in New PROVE SeatOf(p) \in Seats \ filled
  <2>1. SlotOf(p) \in SlotsOf(d.sealed)
    BY <1>4 DEF SlotsOf
  <2>2. SlotOf(p) \in Slots(d.round) /\ SlotOf(p) \notin ConfirmedSlots(d, d.round)
    BY <1>5, <2>1 DEF Closed, Conserved
  <2>3. p.round = d.round
    BY <1>4
  <2>4. SeatOf(p) \in Seats
    BY <1>5, <2>2, <2>3, SeatOfSlot DEF SeatOf
  <2>5. ASSUME NEW q \in d.confirmedPicks, SeatOf(q) = SeatOf(p) PROVE FALSE
    <3>1. q.round = d.round /\ SlotOf(q) = SlotOf(p)
      BY <2>3, <2>5 DEF SeatOf, SlotOf
    <3>2. QED BY <2>2, <3>1 DEF ConfirmedSlots, SlotsOf
  <2>6. QED BY <2>4, <2>5
<1>8. ASSUME NEW s \in Seats, s.round < d.round PROVE s \in filled
  <2>1. PICK r \in Rounds : s \in [side : Sides, round : {r}, slotIndex : 0..(ROUND_CAPACITY[r] - 1)]
    BY DEF Seats
  <2>2. s.round = r /\ SlotOf(s) \in Slots(r) /\ s = [side |-> s.side, round |-> r, slotIndex |-> s.slotIndex]
    BY <2>1 DEF SlotOf, Slots
  <2>3. SlotOf(s) \in ConfirmedSlots(d, r)
    BY <1>5, <1>8, <2>2 DEF Closed, Conserved
  <2>4. PICK q \in d.confirmedPicks : q.round = r /\ SlotOf(q) = SlotOf(s)
    BY <2>3 DEF ConfirmedSlots, SlotsOf
  <2>5. SeatOf(q) = s
    BY <2>2, <2>4 DEF SeatOf, SlotOf
  <2>6. QED BY <2>5
<1>9. \A p, q \in New : (p.heroId = q.heroId \/ SeatOf(p) = SeatOf(q)) => p = q
  <2>1. \A p, q \in New : p.heroId = q.heroId => p = q
    BY <1>1, RevealHeldOnce
  <2>2. \A p, q \in New : SeatOf(p) = SeatOf(q) => p.round = q.round /\ SlotOf(p) = SlotOf(q)
    BY DEF SeatOf, SlotOf
  <2>3. \A p, q \in New : (p.round = q.round /\ SlotOf(p) = SlotOf(q)) => p = q
    BY <1>1, RevealHeldOnce
  <2>4. QED BY <2>1, <2>2, <2>3
<1>10. \A p \in New : p.round = d.round
  BY <1>4
<1> HIDE DEF New, taken, filled
<1>11. a.confirmedPicks \ d.confirmedPicks \subseteq New /\ a.bannedHeroes \ d.bannedHeroes \subseteq CollisionBans(d)
  BY <1>1
<1>12. QED BY <1>1, <1>3, <1>6, <1>7, <1>8, <1>9, <1>10, <1>11 DEF Settles, taken, filled

(* Whatever a resolution decides, bans and picks stay, or are revealed.    *)
LEMMA ResolveSettles ==
  ASSUME NEW d, Closed(d)
  PROVE  \/ Settles(d, ResolveRound(d))
         \/ /\ ResolveRound(d).bannedHeroes = d.bannedHeroes
            /\ ResolveRound(d).confirmedPicks = d.confirmedPicks
<1> DEFINE slots == SlotsOf(d.sealed \ Revealed(d))
<1>1. d \in Drafts /\ Reveal(d) \in Drafts
  BY RevealFields DEF Closed
<1>2. /\ AwaitAuthority(d).bannedHeroes = d.bannedHeroes
      /\ AwaitAuthority(d).confirmedPicks = d.confirmedPicks
  BY <1>1 DEF AwaitAuthority, Drafts
<1>3. /\ Reopen(d, slots).bannedHeroes = Reveal(d).bannedHeroes
      /\ Reopen(d, slots).confirmedPicks = Reveal(d).confirmedPicks
  BY <1>1 DEF Reopen, Drafts
<1>4. /\ EnterRound(Reveal(d), d.round + 1).bannedHeroes = Reveal(d).bannedHeroes
      /\ EnterRound(Reveal(d), d.round + 1).confirmedPicks = Reveal(d).confirmedPicks
  BY <1>1 DEF EnterRound, Drafts
<1>5. Settles(d, Reopen(d, slots)) /\ Settles(d, EnterRound(Reveal(d), d.round + 1))
  BY <1>3, <1>4, RevealSettles DEF Settles
<1>6. QED BY <1>2, <1>5 DEF ResolveRound

(* Settles speaks of bans and picks only.                                  *)
LEMMA SettlesFrom ==
  ASSUME NEW d, NEW b, NEW a, Settles(b, a),
         b.bannedHeroes = d.bannedHeroes, b.confirmedPicks = d.confirmedPicks
  PROVE  Settles(d, a)
BY DEF Settles

LEMMA RecordSettles ==
  ASSUME NEW d, Sound(d), NEW heroes \in SUBSET Heroes, AcceptsResolvedBans(d, heroes)
  PROVE  Settles(d, RecordResolvedBans(d, heroes))
<1>1. d \in Drafts /\ d.confirmedPicks = {}
  BY NoPicksYet DEF Sound, AcceptsResolvedBans, BAN_RESOLUTION
<1>2. /\ RecordResolvedBans(d, heroes).bannedHeroes = d.bannedHeroes \cup heroes
      /\ RecordResolvedBans(d, heroes).confirmedPicks = d.confirmedPicks
  BY <1>1 DEF RecordResolvedBans, Drafts
<1>3. heroes \cap d.bannedHeroes = {}
  BY DEF AcceptsResolvedBans
<1>4. QED BY <1>1, <1>2, <1>3 DEF Settles

(* A ban command, a selection and an authority's answer settle some heroes *)
(* or leave bans and picks as they are.                                    *)
SettlesOrKeeps(d, a) ==
  \/ Settles(d, a)
  \/ a.bannedHeroes = d.bannedHeroes /\ a.confirmedPicks = d.confirmedPicks

LEMMA BansCompleteKeeps ==
  ASSUME NEW d \in Drafts
  PROVE  /\ BanResolutionComplete(d).bannedHeroes = d.bannedHeroes
         /\ BanResolutionComplete(d).confirmedPicks = d.confirmedPicks
BY DEF BanResolutionComplete, EnterRound, Drafts

LEMMA SubmitSettles ==
  ASSUME NEW d, Sound(d), NEW slot, NEW h \in Heroes, AcceptsSealedSelection(d, slot, h)
  PROVE  SettlesOrKeeps(d, SubmitSealedSelection(d, slot, h))
<1>1. IsSealedSelectionLegal(d, slot, h)
  BY DEF AcceptsSealedSelection
<1>2. slot \in [side : Sides, slotIndex : Nat]
  BY <1>1, SealKeepsParts
<1>3. /\ Seal(d, slot, h).bannedHeroes = d.bannedHeroes
      /\ Seal(d, slot, h).confirmedPicks = d.confirmedPicks
  BY <1>2, SealFields
<1>4. CASE ClosesBatch(d, slot)
  <2>1. Closed(Seal(d, slot, h))
    BY <1>1, <1>4, SealCloses
  <2>2. QED BY <1>3, <1>4, <2>1, ResolveSettles, SettlesFrom
              DEF SubmitSealedSelection, SettlesOrKeeps
<1>5. CASE ~ClosesBatch(d, slot)
  BY <1>3, <1>5 DEF SubmitSealedSelection, SettlesOrKeeps
<1>6. QED BY <1>4, <1>5

LEMMA ArbitrateSettles ==
  ASSUME NEW d, Sound(d), NEW h \in Heroes, NEW winner, AcceptsResolution(d, h, winner)
  PROVE  SettlesOrKeeps(d, ApplyAuthoritativeResolution(d, h, winner))
<1>1. Closed(NameWinner(d, h, winner))
  BY NameWinnerCloses DEF AcceptsResolution
<1>2. /\ NameWinner(d, h, winner).bannedHeroes = d.bannedHeroes
      /\ NameWinner(d, h, winner).confirmedPicks = d.confirmedPicks
  BY DEF NameWinner, Sound, Drafts
<1>3. QED BY <1>1, <1>2, ResolveSettles, SettlesFrom
            DEF ApplyAuthoritativeResolution, SettlesOrKeeps

----------------------------------------------------------------------------
(* The three ways a closed batch ends                                      *)

(* The kernel waits for an authority and keeps the batch.                  *)
Awaits(d, a) ==
  /\ a.round = d.round /\ a.phase = d.phase
  /\ a.collisionsResolved = d.collisionsResolved
  /\ a.openSlots = {} /\ a.sealed = d.sealed /\ a.confirmedPicks = d.confirmedPicks

(* Some entries become picks, the slots of the others are open again.      *)
Reopens(d, a) ==
  /\ a.round = d.round /\ a.phase = d.phase
  /\ a.collisionsResolved = d.collisionsResolved + Cardinality(Collisions(d))
  /\ Collisions(d) # {}
  /\ a.openSlots = SlotsOf(d.sealed \ Revealed(d)) /\ a.sealed = {}
  /\ a.confirmedPicks = d.confirmedPicks \cup {Confirm(d, e) : e \in Revealed(d)}

(* Every entry becomes a pick and the round is over.                       *)
Advances(d, a) ==
  /\ a.phase = d.phase + 1
  /\ a.round = IF a.phase \in Rounds THEN a.phase ELSE 0
  /\ a.collisionsResolved = 0
  /\ a.openSlots = (IF a.phase \in Rounds THEN Slots(a.phase) ELSE {}) /\ a.sealed = {}
  /\ a.confirmedPicks = d.confirmedPicks \cup {Confirm(d, e) : e \in d.sealed}

LEMMA ResolveOutcomes ==
  ASSUME NEW d, Closed(d), NEW a, a = ResolveRound(d)
  PROVE  Awaits(d, a) \/ Reopens(d, a) \/ Advances(d, a)
<1> DEFINE slots == SlotsOf(d.sealed \ Revealed(d))
<1>1. d \in Drafts /\ Reveal(d) \in Drafts /\ d.phase = d.round
  BY RevealFields, RoundsAssumption DEF Closed, Conserved, Rounds
<1>2. /\ Reveal(d).round = d.round /\ Reveal(d).phase = d.phase
      /\ Reveal(d).collisionsResolved = d.collisionsResolved
      /\ Reveal(d).confirmedPicks = d.confirmedPicks \cup {Confirm(d, e) : e \in Revealed(d)}
  BY RevealFields
<1>3. CASE Unresolved(d) # {}
  <2>1. a = AwaitAuthority(d)
    BY <1>3 DEF ResolveRound
  <2>2. Awaits(d, a)
    BY <1>1, <2>1 DEF AwaitAuthority, Awaits, Drafts
  <2>3. QED BY <2>2
<1>4. CASE Unresolved(d) = {} /\ slots # {}
  <2>1. a = Reopen(d, slots)
    BY <1>4 DEF ResolveRound
  <2>2. PICK e \in d.sealed : e \notin Revealed(d)
    BY <1>4 DEF SlotsOf
  <2>3. Collisions(d) # {}
    BY <2>2 DEF Revealed
  <2> HIDE DEF slots
  <2>4. /\ a.openSlots = slots /\ a.sealed = {}
        /\ a.collisionsResolved = Reveal(d).collisionsResolved + Cardinality(Collisions(d))
        /\ a.round = Reveal(d).round /\ a.phase = Reveal(d).phase
        /\ a.confirmedPicks = Reveal(d).confirmedPicks
    BY <1>1, <2>1 DEF Reopen, Drafts
  <2>5. QED BY <1>2, <2>3, <2>4 DEF Reopens, slots
<1>5. CASE Unresolved(d) = {} /\ slots = {}
  <2>1. a = EnterRound(Reveal(d), d.round + 1)
    BY <1>5 DEF ResolveRound
  <2>2. Revealed(d) = d.sealed
    BY <1>5 DEF SlotsOf, Revealed
  <2>3. QED BY <1>1, <1>2, <2>1, <2>2 DEF EnterRound, Advances, Drafts
<1>6. QED BY <1>3, <1>4, <1>5

(* A batch without a collision fills its round, whatever was sealed.       *)
LEMMA NoCollisionAdvances ==
  ASSUME NEW d, Closed(d), Collisions(d) = {}, NEW a, a = ResolveRound(d)
  PROVE  Advances(d, a) /\ a.bannedHeroes = d.bannedHeroes
<1>1. Contested(d) = {} /\ CollisionBans(d) = {} /\ Unresolved(d) = {} /\ Revealed(d) = d.sealed
  BY DEF Contested, CollisionBans, Unresolved, Revealed
<1>2. SlotsOf(d.sealed \ Revealed(d)) = {}
  BY <1>1 DEF SlotsOf
<1>3. a = EnterRound(Reveal(d), d.round + 1)
  BY <1>1, <1>2 DEF ResolveRound
<1>4. d \in Drafts /\ Reveal(d) \in Drafts /\ d.phase = d.round
  BY RevealFields, RoundsAssumption DEF Closed, Conserved, Rounds
<1>5. /\ Reveal(d).bannedHeroes = d.bannedHeroes
      /\ Reveal(d).confirmedPicks = d.confirmedPicks \cup {Confirm(d, e) : e \in d.sealed}
  BY <1>1, RevealFields
<1>6. QED BY <1>3, <1>4, <1>5 DEF EnterRound, Advances, Drafts

(* Collisions that end a batch are counted.                                *)
LEMMA ReopensCounts ==
  ASSUME NEW d \in Drafts, NEW a, Reopens(d, a)
  PROVE  a.collisionsResolved \in Nat /\ a.collisionsResolved > d.collisionsResolved
<1>1. IsFiniteSet(Collisions(d))
  BY CollisionTypes, HeroesAssumption, FS_Subset
<1>2. Cardinality(Collisions(d)) \in Nat /\ Cardinality(Collisions(d)) # 0
  BY <1>1, FS_CardinalityType, FS_EmptySet DEF Reopens
<1>3. d.collisionsResolved \in Nat
  BY DEF Drafts
<1>4. QED BY <1>2, <1>3 DEF Reopens
=============================================================================
