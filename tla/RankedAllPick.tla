--------------------------- MODULE RankedAllPick ---------------------------
(***************************************************************************)
(* The Ranked All Pick ruleset of the draft protocol kernel                *)
(* (draft-protocol/kernel.ts and rulesets/ranked-all-pick.ts) as pure      *)
(* operators on a draft, the value the kernel passes around: every command *)
(* is a function from a draft to a draft, guarded by the conditions under  *)
(* which the kernel accepts it. A rejected command returns the draft it    *)
(* was given.                                                              *)
(*                                                                         *)
(* A draft is a record. The round object of the code is flattened into it: *)
(*   phase                 0 for BAN_RESOLUTION, r for PICK_ROUND_r,       *)
(*                         NumRounds + 1 for COMPLETE                      *)
(*   banResolutionComplete                                                 *)
(*   bannedHeroes          the set of banned heroes                        *)
(*   confirmedPicks        the set of [side, round, slotIndex, heroId]     *)
(*   round                 the number of the round object, 0 when null     *)
(*   openSlots             the set of [side, slotIndex] still to be sealed *)
(*   sealed                the set of [side, slotIndex, heroId] sealed     *)
(*   collisionsResolved    collisions settled so far in this round         *)
(*   pendingCollision      the hero waiting for an authority, 0 when null; *)
(*                         its contenders are the two entries sealed on it *)
(*   authorityResolutions  the set of [heroId, winner] received            *)
(*   status                ACTIVE, WAITING_FOR_COLLISION_AUTHORITY,        *)
(*                         COMPLETE                                        *)
(***************************************************************************)
EXTENDS Integers, FiniteSets

CONSTANTS
  Heroes,          \* the hero ids commands may name
  NumRounds,       \* the number of pick rounds: 3 in the code
  ROUND_CAPACITY   \* slots per side of each round: <<2, 2, 1>> in the code

(* isValidHeroId accepts positive integers only.                           *)
ASSUME HeroesAssumption == Heroes \subseteq Nat \ {0} /\ IsFiniteSet(Heroes)
ASSUME RoundsAssumption == NumRounds \in Nat \ {0}
ASSUME CapacityAssumption == ROUND_CAPACITY \in [1..NumRounds -> Nat \ {0}]

Sides == {"radiant", "dire"}
Rounds == 1..NumRounds
BAN_RESOLUTION == 0
COMPLETE == NumRounds + 1
NoHero == 0

Slots(r) == [side : Sides, slotIndex : 0..(ROUND_CAPACITY[r] - 1)]
AllSlots == UNION {Slots(r) : r \in Rounds}
Seats == UNION {[side : Sides, round : {r}, slotIndex : 0..(ROUND_CAPACITY[r] - 1)] : r \in Rounds}

SealedSelections == [side : Sides, slotIndex : Nat, heroId : Heroes]
ConfirmedPicks == [side : Sides, round : Rounds, slotIndex : Nat, heroId : Heroes]
Resolutions == [heroId : Heroes, winner : [side : Sides, slotIndex : Nat]]

Drafts ==
  [ phase : 0..COMPLETE,
    banResolutionComplete : BOOLEAN,
    bannedHeroes : SUBSET Heroes,
    confirmedPicks : SUBSET ConfirmedPicks,
    round : 0..NumRounds,
    openSlots : SUBSET [side : Sides, slotIndex : Nat],
    sealed : SUBSET SealedSelections,
    collisionsResolved : Nat,
    pendingCollision : Heroes \cup {NoHero},
    authorityResolutions : SUBSET Resolutions,
    status : {"ACTIVE", "WAITING_FOR_COLLISION_AUTHORITY", "COMPLETE"} ]

SlotOf(e) == [side |-> e.side, slotIndex |-> e.slotIndex]
SlotsOf(entries) == {SlotOf(e) : e \in entries}
HeroesOf(entries) == {e.heroId : e \in entries}

----------------------------------------------------------------------------
(* Creation                                                                *)

(* createRankedAllPickState *)
NewDraft ==
  [ phase |-> BAN_RESOLUTION, banResolutionComplete |-> FALSE,
    bannedHeroes |-> {}, confirmedPicks |-> {},
    round |-> 0, openSlots |-> {}, sealed |-> {}, collisionsResolved |-> 0,
    pendingCollision |-> NoHero, authorityResolutions |-> {},
    status |-> "ACTIVE" ]

(* Mutant: completing the draft leaves a round object behind.              *)
EnterRoundKeepsRound(d, r) ==
  [ d EXCEPT !.phase = r, !.round = r,
             !.openSlots = IF r \in Rounds THEN Slots(r) ELSE {},
             !.sealed = {}, !.collisionsResolved = 0, !.pendingCollision = NoHero,
             !.authorityResolutions = {},
             !.status = IF r \in Rounds THEN "ACTIVE" ELSE "COMPLETE" ]

(* The draft with the fresh round object of createRoundState, or with no   *)
(* round object once every round is over.                                  *)
EnterRound(d, r) ==
  [ d EXCEPT !.phase = r,
             !.round = IF r \in Rounds THEN r ELSE 0,
             !.openSlots = IF r \in Rounds THEN Slots(r) ELSE {},
             !.sealed = {},
             !.collisionsResolved = 0,
             !.pendingCollision = NoHero,
             !.authorityResolutions = {},
             !.status = IF r \in Rounds THEN "ACTIVE" ELSE "COMPLETE" ]

----------------------------------------------------------------------------
(* Legality of a sealed selection                                          *)

(* Mutant: bans are not consulted.                                         *)
HeroAlreadyPicked(d, h) == h \in HeroesOf(d.confirmedPicks)

(* heroAlreadyTaken *)
HeroAlreadyTaken(d, h) == h \in d.bannedHeroes \cup HeroesOf(d.confirmedPicks)

(* Mutants: a side may seal one hero twice; a hero the other side sealed   *)
(* is refused at once.                                                     *)
LegalThoughSealedTwice(d, slot, h) ==
  d.round # 0 /\ slot \in d.openSlots /\ ~HeroAlreadyTaken(d, h)

LegalUnlessAnySideSealed(d, slot, h) ==
  LegalThoughSealedTwice(d, slot, h) /\ h \notin HeroesOf(d.sealed)

(* isSealedSelectionLegal: the oracle shown to clients and tests. It does  *)
(* not look at the pending collision.                                      *)
IsSealedSelectionLegal(d, slot, h) ==
  /\ d.round # 0
  /\ slot \in d.openSlots
  /\ ~HeroAlreadyTaken(d, h)
  /\ ~\E e \in d.sealed : e.side = slot.side /\ e.heroId = h

----------------------------------------------------------------------------
(* Resolving a batch whose last slot has been sealed (resolveRound)        *)

Entries(d, h) == {e \in d.sealed : e.heroId = h}

(* The heroes sealed more than once, in this batch.                        *)
Collisions(d) == {h \in Heroes : \E e, f \in Entries(d, h) : e # f}

(* Collisions are numbered through the round, by hero id within a batch.   *)
CollisionNumber(d, h) ==
  d.collisionsResolved + Cardinality({g \in Collisions(d) : g <= h})

(* Mutant: the threshold is one collision, and splits a batch of two.      *)
FirstCollisionBans(d) == {h \in Collisions(d) : CollisionNumber(d, h) <= 1}

(* The first and the second collision of a round ban the hero ...          *)
CollisionBans(d) == {h \in Collisions(d) : CollisionNumber(d, h) <= 2}

(* ... and from the third on an authority names the winner.                *)
Contested(d) == Collisions(d) \ CollisionBans(d)
Resolved(d) == {a.heroId : a \in d.authorityResolutions}
Unresolved(d) == Contested(d) \ Resolved(d)

Wins(d, e) == [heroId |-> e.heroId, winner |-> SlotOf(e)] \in d.authorityResolutions

(* resolveRound fails when it meets, no later than the first unresolved    *)
(* collision, one that is not between two entries or whose named winner is *)
(* not one of them.                                                        *)
ResolutionFails(d) ==
  \E h \in Collisions(d) :
    /\ \A g \in Unresolved(d) : h <= g
    /\ \/ Cardinality(Entries(d, h)) # 2
       \/ h \in Contested(d) \ Unresolved(d) /\ ~\E e \in Entries(d, h) : Wins(d, e)

(* Mutant: the named winner repicks like the loser.                        *)
RevealedUncontested(d) == {e \in d.sealed : e.heroId \notin Collisions(d)}

(* The entries that become picks: alone on their hero, or named winner.    *)
Revealed(d) ==
  {e \in d.sealed : \/ e.heroId \notin Collisions(d)
                    \/ e.heroId \in Contested(d) /\ Wins(d, e)}

Confirm(d, e) ==
  [side |-> e.side, round |-> d.round, slotIndex |-> e.slotIndex, heroId |-> e.heroId]

(* Mutant: the kernel asks about the least contested hero, settled or not. *)
AwaitAuthorityAgain(d) ==
  [ d EXCEPT !.openSlots = {},
             !.pendingCollision = CHOOSE h \in Contested(d) : \A g \in Contested(d) : h <= g,
             !.status = "WAITING_FOR_COLLISION_AUTHORITY" ]

(* The kernel stops at the least unresolved hero and keeps the batch.      *)
AwaitAuthority(d) ==
  [ d EXCEPT !.openSlots = {},
             !.pendingCollision = CHOOSE h \in Unresolved(d) : \A g \in Unresolved(d) : h <= g,
             !.status = "WAITING_FOR_COLLISION_AUTHORITY" ]

(* Mutant: the picks of earlier batches are overwritten.                   *)
RevealOverwrites(d) ==
  [ d EXCEPT !.bannedHeroes = @ \cup CollisionBans(d),
             !.confirmedPicks = {Confirm(d, e) : e \in Revealed(d)} ]

(* Bans and picks of the batch, before the slots it reopens are known.     *)
Reveal(d) ==
  [ d EXCEPT !.bannedHeroes = @ \cup CollisionBans(d),
             !.confirmedPicks = @ \cup {Confirm(d, e) : e \in Revealed(d)} ]

(* A batch that reopens slots leaves the round in place, with a new        *)
(* attempt over those slots only.                                          *)
Reopen(d, slots) ==
  [ Reveal(d) EXCEPT !.openSlots = slots,
                     !.sealed = {},
                     !.collisionsResolved = @ + Cardinality(Collisions(d)),
                     !.pendingCollision = NoHero,
                     !.authorityResolutions = {},
                     !.status = "ACTIVE" ]

(* Mutant: the loser of an arbitrated collision gets no slot back.         *)
ResolveRoundForgetsLoser(d) ==
  LET reopened == SlotsOf({e \in d.sealed : e.heroId \in CollisionBans(d)}) IN
  IF Unresolved(d) # {} THEN AwaitAuthority(d)
  ELSE IF reopened = {} THEN EnterRound(Reveal(d), d.round + 1)
  ELSE Reopen(d, reopened)

ResolveRound(d) ==
  LET reopened == SlotsOf(d.sealed \ Revealed(d)) IN
  IF Unresolved(d) # {} THEN AwaitAuthority(d)
  ELSE IF reopened = {} THEN EnterRound(Reveal(d), d.round + 1)
  ELSE Reopen(d, reopened)

----------------------------------------------------------------------------
(* Commands (applyRankedAllPickCommand): when the kernel accepts them and  *)
(* the draft it returns.                                                   *)

AcceptsResolvedBans(d, heroes) ==
  /\ d.pendingCollision = NoHero
  /\ d.phase = BAN_RESOLUTION
  /\ ~d.banResolutionComplete
  /\ heroes \cap d.bannedHeroes = {}

RecordResolvedBans(d, heroes) == [d EXCEPT !.bannedHeroes = @ \cup heroes]

AcceptsBanResolutionComplete(d) ==
  /\ d.pendingCollision = NoHero
  /\ d.phase = BAN_RESOLUTION
  /\ ~d.banResolutionComplete

BanResolutionComplete(d) ==
  EnterRound([d EXCEPT !.banResolutionComplete = TRUE], 1)

(* The draft with one more selection sealed, before the batch is resolved. *)
Seal(d, slot, h) ==
  [ d EXCEPT !.openSlots = @ \ {slot},
             !.sealed = @ \cup {[side |-> slot.side, slotIndex |-> slot.slotIndex, heroId |-> h]} ]

ClosesBatch(d, slot) == d.openSlots = {slot}

AcceptsSealedSelection(d, slot, h) ==
  /\ d.pendingCollision = NoHero
  /\ IsSealedSelectionLegal(d, slot, h)
  /\ ClosesBatch(d, slot) => ~ResolutionFails(Seal(d, slot, h))

SubmitSealedSelection(d, slot, h) ==
  IF ClosesBatch(d, slot) THEN ResolveRound(Seal(d, slot, h)) ELSE Seal(d, slot, h)

(* The draft with the named winner recorded, before the batch is resolved  *)
(* again from its beginning.                                               *)
NameWinner(d, h, winner) ==
  [ d EXCEPT !.pendingCollision = NoHero,
             !.authorityResolutions = @ \cup {[heroId |-> h, winner |-> winner]} ]

AcceptsResolution(d, h, winner) ==
  /\ d.pendingCollision # NoHero
  /\ h = d.pendingCollision
  /\ winner \in SlotsOf(Entries(d, h))
  /\ ~ResolutionFails(NameWinner(d, h, winner))

ApplyAuthoritativeResolution(d, h, winner) == ResolveRound(NameWinner(d, h, winner))

----------------------------------------------------------------------------
(* What clients are shown                                                  *)

(* rankedAllPickLegalGameplayActions: one action per open slot.            *)
LegalGameplayActions(d) == IF d.round = 0 THEN {} ELSE d.openSlots

(* project: what a viewer, of one side or neutral, is shown of the draft.  *)
(* Entries sealed by another side are counted, never listed. The heroes    *)
(* named outside the pick lists are the bans and, in degradation.detail,   *)
(* the hero a pending collision is about.                                  *)
Neutral == "neutral"

Project(d, viewer) ==
  [ status |-> d.status,
    phase |-> d.phase,
    banResolutionComplete |-> d.banResolutionComplete,
    named |-> d.bannedHeroes \cup ({d.pendingCollision} \ {NoHero}),
    ownPicks |-> {p \in d.confirmedPicks : p.side = viewer},
    ownSealed |-> {e \in d.sealed : e.side = viewer},
    enemyPicks |-> {p \in d.confirmedPicks : p.side # viewer},
    enemyHidden |-> Cardinality({e \in d.sealed : e.side # viewer}) ]
=============================================================================
