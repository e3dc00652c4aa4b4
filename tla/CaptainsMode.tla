--------------------------- MODULE CaptainsMode ---------------------------
(***************************************************************************)
(* The Captain's Mode ruleset of the draft protocol kernel                 *)
(* (draft-protocol/kernel.ts, rulesets/captains-mode.ts): a fixed sequence *)
(* of bans and picks, each the turn of the side that picks first or of the *)
(* other. A ban may be skipped, a pick may not. Heroes come from an        *)
(* eligibility snapshot the server loads and may replace at any time;      *)
(* without one no hero may be named.                                       *)
(*                                                                         *)
(* An accepted snapshot is the set of its hero ids: the checks of          *)
(* eligibility.ts (provenance, hashes, patch range) decide which snapshots *)
(* are ever in Snapshots.                                                  *)
(***************************************************************************)
EXTENDS Integers, Sequences, FiniteSets

CONSTANTS
  Heroes,     \* the hero ids commands may name
  Steps,      \* the sequence of turns: CANONICAL_SEQUENCE in the code
  Snapshots   \* the snapshots the server may load

Kinds == {"BAN", "PICK"}
Actors == {"first", "second"}
Sides == {"radiant", "dire"}

(* isValidHeroId accepts positive integers only.                           *)
ASSUME HeroesAssumption == Heroes \subseteq Nat \ {0}
ASSUME StepsAssumption == Steps \in Seq([kind : Kinds, actor : Actors])
ASSUME SnapshotsAssumption == \A s \in Snapshots : s \subseteq Heroes /\ s # {}

Ban(actor) == [kind |-> "BAN", actor |-> actor]
Pick(actor) == [kind |-> "PICK", actor |-> actor]

CANONICAL_SEQUENCE ==
  << Ban("first"), Ban("first"), Ban("second"), Ban("second"),
     Ban("first"), Ban("second"), Ban("second"),
     Pick("first"), Pick("second"),
     Ban("first"), Ban("first"), Ban("second"),
     Pick("second"), Pick("first"), Pick("first"),
     Pick("second"), Pick("second"), Pick("first"),
     Ban("first"), Ban("second"), Ban("first"), Ban("second"),
     Pick("first"), Pick("second") >>

Unconfirmed == "unconfirmed"  \* firstPickSide before it is confirmed
NoHero == 0                   \* the hero of a skipped ban

VARIABLES
  firstPickSide,        \* a side, or Unconfirmed
  currentStep,
  history,              \* the outcome of every step so far: [kind, heroId]
  bannedHeroes,
  picks,                \* heroes picked by each side
  eligibilitySnapshot,  \* {} before one is loaded
  status

vars == <<firstPickSide, currentStep, history, bannedHeroes, picks,
          eligibilitySnapshot, status>>

----------------------------------------------------------------------------
(* Whose turn it is, and with which heroes                                 *)

Other(side) == IF side = "radiant" THEN "dire" ELSE "radiant"

(* Mutant: the second actor is always dire.                                *)
AbsoluteSideFixed(actor) == IF actor = "first" THEN firstPickSide ELSE "dire"

(* resolveAbsoluteSide *)
AbsoluteSide(actor) == IF actor = "first" THEN firstPickSide ELSE Other(firstPickSide)

(* captainsModeStepDefinition(currentStep) # null                          *)
StepRemains == currentStep \in 1..Len(Steps)
Turn == Steps[currentStep]

(* Mutant: heroes already picked are forgotten.                            *)
TakenByBanOnly == bannedHeroes

(* cmHeroAlreadyTaken *)
HeroesTaken == bannedHeroes \cup picks["radiant"] \cup picks["dire"]

(* cmRemainingEligibleHeroIds *)
RemainingEligible == eligibilitySnapshot \ HeroesTaken

----------------------------------------------------------------------------
(* When the kernel accepts a command (applyCaptainsModeCommand)            *)

MayAct(actor) ==
  /\ firstPickSide # Unconfirmed
  /\ StepRemains
  /\ Turn.actor = actor

(* Mutant: any turn may be skipped.                                        *)
AcceptsSkipOfAnyTurn(actor) == MayAct(actor)

AcceptsBanSkipped(actor) == MayAct(actor) /\ Turn.kind = "BAN"

AcceptsHero(actor, kind, h) ==
  /\ MayAct(actor)
  /\ Turn.kind = kind
  /\ eligibilitySnapshot # {}
  /\ h \in eligibilitySnapshot
  /\ h \notin HeroesTaken

----------------------------------------------------------------------------
(* Commands                                                                *)

(* createCaptainsModeState *)
Init ==
  /\ firstPickSide = Unconfirmed
  /\ currentStep = 1
  /\ history = <<>>
  /\ bannedHeroes = {}
  /\ picks = [side \in Sides |-> {}]
  /\ eligibilitySnapshot = {}
  /\ status = "UNCONFIRMED_STATE"

ConfirmFirstPickSide(side) ==
  /\ firstPickSide = Unconfirmed
  /\ firstPickSide' = side
  /\ status' = "ACTIVE"
  /\ UNCHANGED <<currentStep, history, bannedHeroes, picks, eligibilitySnapshot>>

LoadEligibility(snapshot) ==
  /\ eligibilitySnapshot' = snapshot
  /\ UNCHANGED <<firstPickSide, currentStep, history, bannedHeroes, picks, status>>

Advance(outcome) ==
  /\ currentStep' = currentStep + 1
  /\ history' = Append(history, outcome)
  /\ status' = IF currentStep + 1 > Len(Steps) THEN "COMPLETE" ELSE "ACTIVE"

(* Mutant: a skipped ban is recorded as a ban of no hero.                  *)
BanSkippedAsHero(actor) ==
  /\ AcceptsBanSkipped(actor)
  /\ Advance([kind |-> "HERO", heroId |-> NoHero])
  /\ UNCHANGED <<firstPickSide, bannedHeroes, picks, eligibilitySnapshot>>

BanSkipped(actor) ==
  /\ AcceptsBanSkipped(actor)
  /\ Advance([kind |-> "BAN_SKIPPED", heroId |-> NoHero])
  /\ UNCHANGED <<firstPickSide, bannedHeroes, picks, eligibilitySnapshot>>

NameHero(actor, h, outcome) ==
  /\ Advance([kind |-> outcome, heroId |-> h])
  /\ IF Turn.kind = "BAN"
     THEN bannedHeroes' = bannedHeroes \cup {h} /\ UNCHANGED picks
     ELSE picks' = [picks EXCEPT ![AbsoluteSide(actor)] = @ \cup {h}] /\ UNCHANGED bannedHeroes
  /\ UNCHANGED <<firstPickSide, eligibilitySnapshot>>

CmAction(actor, kind, h) == AcceptsHero(actor, kind, h) /\ NameHero(actor, h, "HERO")
CmAutoPick(actor, h) == AcceptsHero(actor, "PICK", h) /\ NameHero(actor, h, "AUTO_PICK")

Next ==
  \/ \E side \in Sides : ConfirmFirstPickSide(side)
  \/ \E snapshot \in Snapshots : LoadEligibility(snapshot)
  \/ \E actor \in Actors : BanSkipped(actor)
  \/ \E actor \in Actors, kind \in Kinds, h \in Heroes : CmAction(actor, kind, h)
  \/ \E actor \in Actors, h \in Heroes : CmAutoPick(actor, h)

Spec == Init /\ [][Next]_vars

----------------------------------------------------------------------------
(* The oracle clients are shown                                            *)

(* Mutant: the first actor of an offer is taken for radiant.               *)
HeroOfferFixedSide(type) ==
  [type |-> type, actor |-> Turn.actor,
   absoluteSide |-> IF Turn.actor = "first" THEN "radiant" ELSE "dire",
   kind |-> Turn.kind, heroes |-> RemainingEligible]

HeroOffer(type) ==
  [type |-> type, actor |-> Turn.actor, absoluteSide |-> AbsoluteSide(Turn.actor),
   kind |-> Turn.kind, heroes |-> RemainingEligible]

SkipOffer ==
  [type |-> "CM_BAN_SKIPPED", actor |-> Turn.actor, absoluteSide |-> AbsoluteSide(Turn.actor),
   kind |-> "BAN", heroes |-> {}]

(* captainsModeLegalGameplayActions *)
LegalGameplayActions ==
  IF firstPickSide = Unconfirmed \/ ~StepRemains THEN {}
  ELSE (IF Turn.kind = "BAN" THEN {SkipOffer} ELSE {})
       \cup (IF RemainingEligible = {} THEN {}
             ELSE IF Turn.kind = "BAN" THEN {HeroOffer("CM_ACTION")}
             ELSE {HeroOffer("CM_ACTION"), HeroOffer("CM_AUTO_PICK")})

----------------------------------------------------------------------------
(* Safety                                                                  *)

Outcomes ==
  [kind : {"BAN_SKIPPED"}, heroId : {NoHero}] \cup [kind : {"HERO", "AUTO_PICK"}, heroId : Heroes]

(* The draft stays within its declared shape (types.ts, CmState).          *)
TypeOK ==
  /\ firstPickSide \in Sides \cup {Unconfirmed}
  /\ currentStep \in 1..(Len(Steps) + 1)
  /\ history \in Seq(Outcomes)
  /\ bannedHeroes \subseteq Heroes
  /\ picks \in [Sides -> SUBSET Heroes]
  /\ eligibilitySnapshot \subseteq Heroes
  /\ status \in {"UNCONFIRMED_STATE", "ACTIVE", "COMPLETE"}

Named(i) == history[i].kind # "BAN_SKIPPED"
Past == 1..(currentStep - 1)
HeroesNamedAt(turns) == {history[i].heroId : i \in {j \in turns : Named(j)}}
BanTurns == {i \in Past : Steps[i].kind = "BAN"}
PickTurns(side) ==
  {i \in Past : Steps[i].kind = "PICK" /\ ((Steps[i].actor = "first") <=> (side = firstPickSide))}

(* The history, the bans and the picks tell one story: there is one        *)
(* outcome per step played; the banned heroes are those named at ban       *)
(* steps, each side's picks those named at its own pick steps, whichever   *)
(* side picks first; no hero is named twice, and only a ban was ever       *)
(* skipped. A step derived by counting heroes, or a pick booked on the     *)
(* wrong side, would part them (captains-mode.ts:18-20).                   *)
HistoryTellsAll ==
  /\ Len(history) = currentStep - 1
  /\ bannedHeroes = HeroesNamedAt(BanTurns)
  /\ \A side \in Sides : picks[side] = HeroesNamedAt(PickTurns(side))
  /\ \A i, j \in Past : (Named(i) /\ history[i].heroId = history[j].heroId) => i = j
  /\ \A i \in Past : Steps[i].kind = "PICK" => Named(i)

(* A draft is reported complete exactly when both sides have made every    *)
(* pick of the sequence, however many bans were skipped.                   *)
CompleteIsFull ==
  LET PickSteps(actor) == {i \in 1..Len(Steps) : Steps[i] = Pick(actor)}
      Team(actor) == IF actor = "first" THEN picks[firstPickSide]
                     ELSE UNION {picks[side] : side \in Sides \ {firstPickSide}}
  IN /\ status = "COMPLETE" =>
          \A actor \in Actors : Cardinality(Team(actor)) = Cardinality(PickSteps(actor))
     /\ (status = "COMPLETE") <=> (currentStep > Len(Steps))

(* What is offered is accepted if sent literally, and nothing else is.     *)
OffersAccepted ==
  \A actor \in Actors :
    /\ \A kind \in Kinds, h \in Heroes :
         AcceptsHero(actor, kind, h) <=>
           \E a \in LegalGameplayActions :
             a.type = "CM_ACTION" /\ a.actor = actor /\ a.kind = kind /\ h \in a.heroes
    /\ \A h \in Heroes :
         AcceptsHero(actor, "PICK", h) <=>
           \E a \in LegalGameplayActions :
             a.type = "CM_AUTO_PICK" /\ a.actor = actor /\ h \in a.heroes
    /\ AcceptsBanSkipped(actor) <=>
         \E a \in LegalGameplayActions : a.type = "CM_BAN_SKIPPED" /\ a.actor = actor

(* An offer to the side that picks first names that side, any other the    *)
(* other one.                                                              *)
OffersNameTheirSide ==
  \A a \in LegalGameplayActions :
    a.absoluteSide \in Sides /\ (a.absoluteSide = firstPickSide <=> a.actor = "first")

(* What a step adds to the bans or to the picks of a side was on offer, as *)
(* a ban or as a pick of that very side.                                   *)
AddedAsOffered ==
  /\ \A h \in bannedHeroes' \ bannedHeroes :
       \E a \in LegalGameplayActions : a.type = "CM_ACTION" /\ a.kind = "BAN" /\ h \in a.heroes
  /\ \A side \in Sides : \A h \in picks'[side] \ picks[side] :
       \E a \in LegalGameplayActions : a.kind = "PICK" /\ a.absoluteSide = side /\ h \in a.heroes

(* A client may go by the oracle alone, at every moment and across reloads *)
(* of the snapshot: what it is offered is accepted if sent literally, what *)
(* it is not offered is refused; each offer names the side its actor plays *)
(* on; and a hero that enters the bans or the picks of a side was offered  *)
(* as a ban, or as a pick of that side. The oracle resolves the side and   *)
(* filters the heroes on its own (captains-mode.ts:140), the kernel again  *)
(* when it books (kernel.ts:430): if they disagreed, a hero offered for    *)
(* radiant would be booked for dire.                                       *)
OracleExact ==
  /\ [](OffersAccepted /\ OffersNameTheirSide)
  /\ [][AddedAsOffered]_vars

----------------------------------------------------------------------------
(* What the draft promises: the same as a Ranked All Pick draft, each pick *)
(* step being a round of one seat.                                         *)

Seat(i) == [side |-> Steps[i].actor, round |-> i, slotIndex |-> 0]
PickSeats == {Seat(i) : i \in {j \in 1..Len(Steps) : Steps[j].kind = "PICK"}}

PicksMade ==
  {[side |-> Steps[i].actor, round |-> i, slotIndex |-> 0, heroId |-> history[i].heroId] :
     i \in {j \in Past : Steps[j].kind = "PICK"}}

Promise == INSTANCE DraftPromise
             WITH Seats <- PickSeats, banned <- bannedHeroes, picks <- PicksMade

(* Every command is a step of DraftPromise or changes nothing a player was *)
(* promised: bans and picks are final, a hero leaves the pool once, and    *)
(* picks are made in the order of the sequence.                            *)
KeepsPromise == Promise!Spec
=============================================================================
