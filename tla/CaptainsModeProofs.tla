------------------------ MODULE CaptainsModeProofs ------------------------
(***************************************************************************)
(* Proofs about CaptainsMode, for every set of heroes, sequence of turns   *)
(* and set of snapshots: its types, that the history, the bans and the     *)
(* picks tell one story, that the oracle is exact, and that the draft      *)
(* implements DraftPromise.                                                *)
(***************************************************************************)
EXTENDS CaptainsMode, TLAPS, FiniteSetTheorems

(* The inductive invariant. The last part is needed when the first side is *)
(* confirmed: no pick has been booked yet.                                 *)
Inv ==
  /\ TypeOK
  /\ HistoryTellsAll
  /\ firstPickSide = Unconfirmed => currentStep = 1

LEMMA StepsWellFormed ==
  ASSUME NEW i \in 1..Len(Steps)
  PROVE  Steps[i].kind \in Kinds /\ Steps[i].actor \in Actors
<1> DEFINE Turns == [kind : Kinds, actor : Actors]
<1>1. Steps \in Seq(Turns)
  BY StepsAssumption
<1> HIDE DEF Turns
<1>2. Steps[i] \in Turns
  BY <1>1
<1> QED
  BY <1>2 DEF Turns

LEMMA InitInv == Init => Inv
BY StepsAssumption DEF Init, Inv, TypeOK, HistoryTellsAll, HeroesNamedAt, Past, Named,
   BanTurns, PickTurns, Sides, Unconfirmed

(* A turn is played: the past grows by the current step and keeps what it  *)
(* was.                                                                    *)
LEMMA TurnPlayed ==
  ASSUME Inv, StepRemains, NEW outcome \in Outcomes, Advance(outcome)
  PROVE  /\ Past' = Past \cup {currentStep}
         /\ currentStep \notin Past
         /\ currentStep \in 1..Len(Steps)
         /\ currentStep' = currentStep + 1
         /\ history' \in Seq(Outcomes)
         /\ Len(history') = currentStep' - 1
         /\ \A i \in Past : history'[i] = history[i]
         /\ history'[currentStep] = outcome
         /\ Past \subseteq 1..Len(Steps)
<1>1. currentStep \in Nat /\ currentStep >= 1 /\ Len(Steps) \in Nat /\ currentStep <= Len(Steps)
  BY StepsAssumption DEF StepRemains, Inv, TypeOK
<1>2. Len(history) = currentStep - 1 /\ history \in Seq(Outcomes)
  BY DEF Inv, TypeOK, HistoryTellsAll
<1>3. history' = Append(history, outcome) /\ currentStep' = currentStep + 1
  BY DEF Advance
<1>4. Past' = Past \cup {currentStep} /\ currentStep \notin Past /\ Past \subseteq 1..Len(Steps)
  BY <1>1, <1>3 DEF Past
<1> QED
  BY <1>1, <1>2, <1>3, <1>4 DEF Past

LEMMA PastOutcomes ==
  ASSUME Inv, NEW i \in Past
  PROVE  /\ Named(i) => history[i].heroId \in Heroes
         /\ ~Named(i) => history[i].heroId = NoHero
         /\ NoHero \notin Heroes
<1>1. i \in 1..Len(history) /\ history \in Seq(Outcomes)
  BY StepsAssumption DEF Inv, TypeOK, HistoryTellsAll, Past
<1>2. history[i] \in Outcomes
  BY <1>1
<1> QED
  BY <1>2, HeroesAssumption DEF Outcomes, Named, NoHero

(* Every hero the history names is banned or picked.                       *)
LEMMA NamedAreTaken ==
  ASSUME Inv, firstPickSide \in Sides, NEW i \in Past, Named(i)
  PROVE  history[i].heroId \in HeroesTaken
<1>1. Past \subseteq 1..Len(Steps)
  BY StepsAssumption DEF Inv, TypeOK, Past
<1>2. Steps[i].kind \in Kinds /\ Steps[i].actor \in Actors
  BY <1>1, StepsWellFormed
<1>3. CASE Steps[i].kind = "BAN"
  BY <1>3 DEF Inv, HistoryTellsAll, HeroesNamedAt, BanTurns, HeroesTaken
<1>4. CASE Steps[i].kind = "PICK"
  <2>1. PICK side \in Sides : (Steps[i].actor = "first") <=> (side = firstPickSide)
    BY <1>2 DEF Sides, Actors
  <2>2. history[i].heroId \in picks[side]
    BY <1>4, <2>1 DEF Inv, HistoryTellsAll, HeroesNamedAt, PickTurns
  <2> QED
    BY <2>1, <2>2 DEF HeroesTaken, Sides
<1> QED
  BY <1>2, <1>3, <1>4 DEF Kinds

LEMMA SkipInv ==
  ASSUME Inv, NEW actor \in Actors, BanSkipped(actor)
  PROVE  Inv'
<1> DEFINE skipped == [kind |-> "BAN_SKIPPED", heroId |-> NoHero]
<1>0. /\ Advance(skipped) /\ StepRemains /\ skipped \in Outcomes
      /\ Steps[currentStep].kind = "BAN" /\ firstPickSide # Unconfirmed
      /\ UNCHANGED <<firstPickSide, bannedHeroes, picks, eligibilitySnapshot>>
  BY DEF BanSkipped, AcceptsBanSkipped, MayAct, Outcomes, Turn
<1>1. /\ Past' = Past \cup {currentStep} /\ currentStep \notin Past
      /\ history' \in Seq(Outcomes) /\ Len(history') = currentStep' - 1
      /\ \A i \in Past : history'[i] = history[i]
      /\ history'[currentStep].kind = "BAN_SKIPPED"
      /\ history'[currentStep].heroId = NoHero
      /\ currentStep \in 1..Len(Steps) /\ currentStep' = currentStep + 1
      /\ Past \subseteq 1..Len(Steps)
  BY <1>0, TurnPlayed
<1> HIDE DEF skipped
<1>2. TypeOK'
  BY <1>0, <1>1, StepsAssumption DEF Inv, TypeOK, Advance
<1>3. bannedHeroes' = HeroesNamedAt(BanTurns)'
  <2>1. BanTurns' = BanTurns \cup {currentStep}
    BY <1>0, <1>1 DEF BanTurns
  <2>2. BanTurns \subseteq Past
    BY DEF BanTurns
  <2>3. HeroesNamedAt(BanTurns)' = HeroesNamedAt(BanTurns)
    BY <1>1, <2>1, <2>2 DEF HeroesNamedAt, Named
  <2> QED
    BY <1>0, <2>3 DEF Inv, HistoryTellsAll
<1>4. ASSUME NEW side \in Sides
      PROVE  picks[side]' = HeroesNamedAt(PickTurns(side))'
  <2>1. PickTurns(side)' = PickTurns(side)
    BY <1>0, <1>1 DEF PickTurns
  <2>2. PickTurns(side) \subseteq Past
    BY DEF PickTurns
  <2>3. HeroesNamedAt(PickTurns(side))' = HeroesNamedAt(PickTurns(side))
    BY <1>1, <2>1, <2>2 DEF HeroesNamedAt, Named
  <2> QED
    BY <1>0, <2>3 DEF Inv, HistoryTellsAll
<1>5. (\A i, j \in Past : (Named(i) /\ history[i].heroId = history[j].heroId) => i = j)'
  <2>1. ASSUME NEW i \in Past
        PROVE  Named(i) => history[i].heroId \in Heroes /\ NoHero \notin Heroes
    BY PastOutcomes
  <2> QED
    BY <1>1, <2>1 DEF Inv, HistoryTellsAll, Named
<1>6. (\A i \in Past : Steps[i].kind = "PICK" => Named(i))'
  BY <1>0, <1>1 DEF Inv, HistoryTellsAll, Named
<1> QED
  BY <1>0, <1>1, <1>2, <1>3, <1>4, <1>5, <1>6 DEF Inv, HistoryTellsAll

LEMMA NameHeroInv ==
  ASSUME Inv, NEW actor \in Actors, NEW h \in Heroes, NEW kind \in Kinds,
         AcceptsHero(actor, kind, h), NEW result \in {"HERO", "AUTO_PICK"},
         NameHero(actor, h, result)
  PROVE  Inv'
<1> DEFINE outcome == [kind |-> result, heroId |-> h]
<1>0. /\ Advance(outcome) /\ StepRemains /\ outcome \in Outcomes
      /\ firstPickSide \in Sides /\ firstPickSide # Unconfirmed
      /\ Steps[currentStep].actor = actor /\ actor \in Actors
      /\ UNCHANGED <<firstPickSide, eligibilitySnapshot>>
      /\ h \notin HeroesTaken
  BY DEF NameHero, AcceptsHero, MayAct, Outcomes, Turn, Inv, TypeOK
<1>1. /\ Past' = Past \cup {currentStep} /\ currentStep \notin Past
      /\ history' \in Seq(Outcomes) /\ Len(history') = currentStep' - 1
      /\ \A i \in Past : history'[i] = history[i]
      /\ history'[currentStep] = outcome
      /\ currentStep \in 1..Len(Steps) /\ currentStep' = currentStep + 1
      /\ Past \subseteq 1..Len(Steps)
  BY <1>0, TurnPlayed
<1>2. /\ history'[currentStep].kind = result /\ history'[currentStep].heroId = h
      /\ result # "BAN_SKIPPED"
      /\ \A i \in Past : history'[i] = history[i]
  <2>1. history'[currentStep].kind = result /\ history'[currentStep].heroId = h
    BY <1>1
  <2>2. \A i \in Past : history'[i] = history[i]
    BY <1>1
  <2> QED
    BY <2>1, <2>2
<1> HIDE DEF outcome
<1>3. \/ /\ Steps[currentStep].kind = "BAN"
         /\ bannedHeroes' = bannedHeroes \cup {h} /\ picks' = picks
      \/ /\ Steps[currentStep].kind = "PICK"
         /\ picks' = [picks EXCEPT ![AbsoluteSide(actor)] = @ \cup {h}]
         /\ bannedHeroes' = bannedHeroes
  BY <1>1, StepsWellFormed DEF NameHero, Turn, Kinds
<1>4. AbsoluteSide(actor) \in Sides
      /\ \A side \in Sides : (side = AbsoluteSide(actor)) <=>
                               ((actor = "first") <=> (side = firstPickSide))
  BY <1>0 DEF AbsoluteSide, Other, Sides
<1>5. TypeOK'
  <2>1. picks' \in [Sides -> SUBSET Heroes]
    BY <1>3, <1>4 DEF Inv, TypeOK
  <2>2. bannedHeroes' \subseteq Heroes
    BY <1>3 DEF Inv, TypeOK
  <2> QED
    BY <1>0, <1>1, <2>1, <2>2, StepsAssumption DEF Inv, TypeOK, Advance
<1>6. bannedHeroes' = HeroesNamedAt(BanTurns)'
  <2>1. CASE Steps[currentStep].kind = "BAN"
    <3>1. BanTurns' = BanTurns \cup {currentStep}
      BY <1>1, <2>1 DEF BanTurns
    <3>2. BanTurns \subseteq Past
      BY DEF BanTurns
    <3>3. HeroesNamedAt(BanTurns)' = HeroesNamedAt(BanTurns) \cup {h}
      BY <1>2, <3>1, <3>2 DEF HeroesNamedAt, Named
    <3> QED
      BY <1>3, <2>1, <3>3 DEF Inv, HistoryTellsAll
  <2>2. CASE Steps[currentStep].kind # "BAN"
    <3>1. BanTurns' = BanTurns
      BY <1>1, <2>2 DEF BanTurns
    <3>2. BanTurns \subseteq Past
      BY DEF BanTurns
    <3>3. HeroesNamedAt(BanTurns)' = HeroesNamedAt(BanTurns)
      BY <1>2, <3>1, <3>2 DEF HeroesNamedAt, Named
    <3> QED
      BY <1>3, <2>2, <3>3 DEF Inv, HistoryTellsAll
  <2> QED
    BY <2>1, <2>2
<1>7. ASSUME NEW side \in Sides
      PROVE  picks[side]' = HeroesNamedAt(PickTurns(side))'
  <2>1. CASE Steps[currentStep].kind = "PICK" /\ side = AbsoluteSide(actor)
    <3>1. picks'[side] = picks[side] \cup {h}
      BY <1>3, <1>4, <2>1 DEF Inv, TypeOK
    <3>2. PickTurns(side)' = PickTurns(side) \cup {currentStep}
      BY <1>0, <1>1, <1>4, <2>1 DEF PickTurns
    <3>3. PickTurns(side) \subseteq Past
      BY DEF PickTurns
    <3>4. HeroesNamedAt(PickTurns(side))' = HeroesNamedAt(PickTurns(side)) \cup {h}
      BY <1>2, <3>2, <3>3 DEF HeroesNamedAt, Named
    <3> QED
      BY <3>1, <3>4 DEF Inv, HistoryTellsAll
  <2>2. CASE ~(Steps[currentStep].kind = "PICK" /\ side = AbsoluteSide(actor))
    <3>1. picks'[side] = picks[side]
      BY <1>3, <1>4, <2>2 DEF Inv, TypeOK
    <3>2. PickTurns(side)' = PickTurns(side)
      BY <1>0, <1>1, <1>4, <2>2 DEF PickTurns
    <3>3. PickTurns(side) \subseteq Past
      BY DEF PickTurns
    <3>4. HeroesNamedAt(PickTurns(side))' = HeroesNamedAt(PickTurns(side))
      BY <1>2, <3>2, <3>3 DEF HeroesNamedAt, Named
    <3> QED
      BY <3>1, <3>4 DEF Inv, HistoryTellsAll
  <2> QED
    BY <2>1, <2>2
<1>8. \A i \in Past : Named(i) => history[i].heroId \in HeroesTaken
  BY <1>0, NamedAreTaken
<1>9. (\A i, j \in Past : (Named(i) /\ history[i].heroId = history[j].heroId) => i = j)'
  <2>1. \A j \in Past : ~Named(j) => history[j].heroId = NoHero
    BY PastOutcomes
  <2>2. \A j \in Past : history[j].heroId # h
    BY <1>0, <1>8, <2>1, PastOutcomes
  <2> QED
    BY <1>1, <1>2, <2>2 DEF Inv, HistoryTellsAll, Named
<1>10. (\A i \in Past : Steps[i].kind = "PICK" => Named(i))'
  BY <1>1, <1>2 DEF Inv, HistoryTellsAll, Named
<1> QED
  BY <1>0, <1>1, <1>5, <1>6, <1>7, <1>9, <1>10 DEF Inv, HistoryTellsAll

LEMMA InvPreserved == Inv /\ [Next]_vars => Inv'
<1> SUFFICES ASSUME Inv, [Next]_vars PROVE Inv'
  OBVIOUS
<1>1. ASSUME NEW side \in Sides, ConfirmFirstPickSide(side) PROVE Inv'
  BY <1>1, StepsAssumption DEF ConfirmFirstPickSide, Inv, TypeOK, HistoryTellsAll,
     HeroesNamedAt, Named, Past, BanTurns, PickTurns
<1>2. ASSUME NEW snapshot \in Snapshots, LoadEligibility(snapshot) PROVE Inv'
  BY <1>2, SnapshotsAssumption DEF LoadEligibility, Inv, TypeOK, HistoryTellsAll,
     HeroesNamedAt, Named, Past, BanTurns, PickTurns
<1>3. CASE UNCHANGED vars
  BY <1>3 DEF vars, Inv, TypeOK, HistoryTellsAll, HeroesNamedAt, Named, Past, BanTurns, PickTurns
<1>4. ASSUME NEW actor \in Actors, NEW kind \in Kinds, NEW h \in Heroes,
             CmAction(actor, kind, h) PROVE Inv'
  BY <1>4, NameHeroInv DEF CmAction
<1>5. ASSUME NEW actor \in Actors, NEW h \in Heroes, CmAutoPick(actor, h) PROVE Inv'
  BY <1>5, NameHeroInv DEF CmAutoPick, Kinds
<1> QED
  BY <1>1, <1>2, <1>3, <1>4, <1>5, SkipInv DEF Next

LEMMA InvAlways == Spec => []Inv
BY InitInv, InvPreserved, PTL DEF Spec

(* The kernel never leaves the declared shape of CmState.                  *)
THEOREM CmTypeCorrect == Spec => []TypeOK
BY InvAlways, PTL DEF Inv

(* The history, the bans and the picks of a Captain's Mode draft tell one  *)
(* story, for every sequence of turns, hero pool and run of reloads.       *)
THEOREM HistoryAlways == Spec => []HistoryTellsAll
BY InvAlways, PTL DEF Inv

----------------------------------------------------------------------------
(* The oracle and the kernel read the same conditions.                     *)
LEMMA OffersAgree == OffersAccepted
<1>1. SUFFICES ASSUME NEW actor \in Actors
      PROVE /\ \A kind \in Kinds, h \in Heroes :
                  AcceptsHero(actor, kind, h) <=>
                    \E a \in LegalGameplayActions :
                      a.type = "CM_ACTION" /\ a.actor = actor /\ a.kind = kind /\ h \in a.heroes
            /\ \A h \in Heroes :
                  AcceptsHero(actor, "PICK", h) <=>
                    \E a \in LegalGameplayActions :
                      a.type = "CM_AUTO_PICK" /\ a.actor = actor /\ h \in a.heroes
            /\ AcceptsBanSkipped(actor) <=>
                 \E a \in LegalGameplayActions : a.type = "CM_BAN_SKIPPED" /\ a.actor = actor
  BY DEF OffersAccepted
<1>2. CASE firstPickSide = Unconfirmed \/ ~StepRemains
  BY <1>2 DEF LegalGameplayActions, AcceptsHero, AcceptsBanSkipped, MayAct
<1>3. CASE firstPickSide # Unconfirmed /\ StepRemains
  <2>1. Turn.kind \in Kinds
    BY <1>3, StepsWellFormed DEF StepRemains, Turn
  <2>2. LegalGameplayActions =
          (IF Turn.kind = "BAN" THEN {SkipOffer} ELSE {})
          \cup (IF RemainingEligible = {} THEN {}
                ELSE IF Turn.kind = "BAN" THEN {HeroOffer("CM_ACTION")}
                ELSE {HeroOffer("CM_ACTION"), HeroOffer("CM_AUTO_PICK")})
    BY <1>3 DEF LegalGameplayActions
  <2>3. /\ SkipOffer.type = "CM_BAN_SKIPPED" /\ SkipOffer.actor = Turn.actor
        /\ \A type : /\ HeroOffer(type).type = type /\ HeroOffer(type).actor = Turn.actor
                     /\ HeroOffer(type).kind = Turn.kind
                     /\ HeroOffer(type).heroes = RemainingEligible
    BY DEF SkipOffer, HeroOffer
  <2>4. \A h \in Heroes : h \in RemainingEligible <=>
          (eligibilitySnapshot # {} /\ h \in eligibilitySnapshot /\ h \notin HeroesTaken)
    BY DEF RemainingEligible
  <2>5. CASE Turn.kind = "BAN"
    <3>1. \A a : a \in LegalGameplayActions <=>
            (a = SkipOffer \/ (RemainingEligible # {} /\ a = HeroOffer("CM_ACTION")))
      BY <2>2, <2>5
    <3> QED
      BY <1>3, <2>3, <2>4, <2>5, <3>1 DEF AcceptsHero, AcceptsBanSkipped, MayAct
  <2>6. CASE Turn.kind = "PICK"
    <3>1. \A a : a \in LegalGameplayActions <=>
            /\ RemainingEligible # {}
            /\ a = HeroOffer("CM_ACTION") \/ a = HeroOffer("CM_AUTO_PICK")
      BY <2>2, <2>6
    <3> QED
      BY <1>3, <2>3, <2>4, <2>6, <3>1 DEF AcceptsHero, AcceptsBanSkipped, MayAct
  <2> QED
    BY <2>1, <2>5, <2>6 DEF Kinds
<1> QED
  BY <1>2, <1>3

LEMMA OffersSide == Inv => OffersNameTheirSide
<1> SUFFICES ASSUME Inv, NEW a \in LegalGameplayActions
             PROVE  a.absoluteSide \in Sides /\ (a.absoluteSide = firstPickSide <=> a.actor = "first")
  BY DEF OffersNameTheirSide
<1>1. firstPickSide \in Sides
  BY DEF LegalGameplayActions, Inv, TypeOK
<1>2. a.actor = Turn.actor /\ a.absoluteSide = AbsoluteSide(Turn.actor)
  BY DEF LegalGameplayActions, SkipOffer, HeroOffer
<1> QED
  BY <1>1, <1>2 DEF AbsoluteSide, Other, Sides

(* The hero the kernel books is on offer to the side it is booked on.      *)
LEMMA BookedAsOffered ==
  ASSUME Inv, NEW actor \in Actors, NEW kind \in Kinds, NEW h \in Heroes,
         AcceptsHero(actor, kind, h), NEW outcome, NameHero(actor, h, outcome)
  PROVE  AddedAsOffered
<1>1. /\ firstPickSide # Unconfirmed /\ StepRemains /\ Turn.actor = actor /\ Turn.kind = kind
      /\ h \in RemainingEligible
  BY DEF AcceptsHero, MayAct, RemainingEligible
<1> DEFINE offer == HeroOffer("CM_ACTION")
<1>2. offer \in LegalGameplayActions
  BY <1>1 DEF LegalGameplayActions
<1>3. /\ offer.type = "CM_ACTION" /\ offer.kind = kind /\ h \in offer.heroes
      /\ offer.absoluteSide = AbsoluteSide(actor)
  BY <1>1 DEF HeroOffer
<1> HIDE DEF offer
<1>4. CASE kind = "BAN"
  BY <1>1, <1>2, <1>3, <1>4 DEF NameHero, AddedAsOffered
<1>5. CASE kind = "PICK"
  <2>1. /\ bannedHeroes' = bannedHeroes
        /\ picks' = [picks EXCEPT ![AbsoluteSide(actor)] = @ \cup {h}]
    BY <1>1, <1>5 DEF NameHero
  <2>2. \A side \in Sides : \A g \in picks'[side] \ picks[side] :
          g = h /\ side = AbsoluteSide(actor)
    BY <2>1 DEF Inv, TypeOK
  <2> QED
    BY <1>2, <1>3, <1>5, <2>1, <2>2 DEF AddedAsOffered
<1> QED
  BY <1>4, <1>5 DEF Kinds

LEMMA StepsAsOffered == Inv /\ [Next]_vars => [AddedAsOffered]_vars
<1> SUFFICES ASSUME Inv, Next PROVE AddedAsOffered
  OBVIOUS
<1>1. CASE UNCHANGED <<bannedHeroes, picks>>
  BY <1>1 DEF AddedAsOffered
<1>2. ASSUME NEW actor \in Actors, NEW kind \in Kinds, NEW h \in Heroes,
             CmAction(actor, kind, h) PROVE AddedAsOffered
  BY <1>2, BookedAsOffered DEF CmAction
<1>3. ASSUME NEW actor \in Actors, NEW h \in Heroes, CmAutoPick(actor, h) PROVE AddedAsOffered
  BY <1>3, BookedAsOffered DEF CmAutoPick, Kinds
<1> QED
  BY <1>1, <1>2, <1>3 DEF Next, ConfirmFirstPickSide, LoadEligibility, BanSkipped

(* A client may go by the oracle alone, for every sequence of turns, hero  *)
(* pool and run of reloads: offers are accepted, nothing else is, and what *)
(* is booked was offered to the side it is booked on.                      *)
THEOREM OracleAlways == Spec => OracleExact
<1>1. Inv => OffersAccepted /\ OffersNameTheirSide
  BY OffersAgree, OffersSide
<1> QED
  BY <1>1, StepsAsOffered, InvAlways, PTL DEF Spec, OracleExact

----------------------------------------------------------------------------
(* The draft implements DraftPromise                                       *)

LEMMA PromiseInit == Init => Promise!Init
BY DEF Init, Promise!Init, PicksMade, Past

LEMMA SameTurnsSamePicks ==
  ASSUME Past' = Past, history' = history
  PROVE  PicksMade' = PicksMade
BY DEF PicksMade

LEMMA FilledSeats ==
  Promise!Filled = {Seat(i) : i \in {j \in Past : Steps[j].kind = "PICK"}}
<1> DEFINE Made(i) == [side |-> Steps[i].actor, round |-> i, slotIndex |-> 0,
                       heroId |-> history[i].heroId]
<1>1. \A i : Promise!SeatOf(Made(i)) = Seat(i)
  BY DEF Promise!SeatOf, Seat
<1>2. PicksMade = {Made(i) : i \in {j \in Past : Steps[j].kind = "PICK"}}
  BY DEF PicksMade
<1> HIDE DEF Made
<1> QED
  BY <1>1, <1>2 DEF Promise!Filled

LEMMA PromiseSkip ==
  ASSUME Inv, NEW actor \in Actors, BanSkipped(actor)
  PROVE  UNCHANGED Promise!vars
<1> DEFINE skipped == [kind |-> "BAN_SKIPPED", heroId |-> NoHero]
<1>1. Advance(skipped) /\ StepRemains /\ skipped \in Outcomes /\ bannedHeroes' = bannedHeroes
      /\ Steps[currentStep].kind = "BAN"
  BY DEF BanSkipped, AcceptsBanSkipped, MayAct, Outcomes, Turn
<1>2. Past' = Past \cup {currentStep} /\ \A i \in Past : history'[i] = history[i]
  BY <1>1, TurnPlayed
<1>3. PicksMade' = PicksMade
  BY <1>1, <1>2 DEF PicksMade
<1> QED
  BY <1>1, <1>3 DEF Promise!vars

LEMMA PromiseNameHero ==
  ASSUME Inv, NEW actor \in Actors, NEW h \in Heroes, NEW kind \in Kinds,
         AcceptsHero(actor, kind, h), NEW result \in {"HERO", "AUTO_PICK"},
         NameHero(actor, h, result)
  PROVE  Promise!Settle
<1> DEFINE outcome == [kind |-> result, heroId |-> h]
<1> DEFINE pick == [side |-> Steps[currentStep].actor, round |-> currentStep,
                    slotIndex |-> 0, heroId |-> h]
<1>0. /\ Advance(outcome) /\ StepRemains /\ outcome \in Outcomes
      /\ firstPickSide \in Sides /\ h \notin HeroesTaken
  BY DEF NameHero, AcceptsHero, MayAct, Outcomes, Turn, Inv, TypeOK
<1>1. /\ Past' = Past \cup {currentStep} /\ currentStep \notin Past
      /\ \A i \in Past : history'[i] = history[i]
      /\ history'[currentStep] = outcome
      /\ currentStep \in 1..Len(Steps)
      /\ Past \subseteq 1..Len(Steps)
  BY <1>0, TurnPlayed
<1>2. history'[currentStep].heroId = h
  BY <1>1
<1>3. h \notin Promise!Taken
  <2>1. \A i \in Past : Steps[i].kind = "PICK" => history[i].heroId \in HeroesTaken
    BY <1>0, NamedAreTaken DEF Inv, HistoryTellsAll
  <2>2. \A p \in PicksMade : p.heroId \in HeroesTaken
    BY <2>1 DEF PicksMade
  <2> QED
    BY <1>0, <2>2 DEF Promise!Taken, HeroesTaken
<1>4. Steps[currentStep].kind \in Kinds
  BY <1>1, StepsWellFormed
<1>5. CASE Steps[currentStep].kind = "BAN"
  <2>1. bannedHeroes' = bannedHeroes \cup {h}
    BY <1>5 DEF NameHero, Turn
  <2>2. PicksMade' = PicksMade
    BY <1>1, <1>5 DEF PicksMade
  <2> QED
    BY <1>3, <2>1, <2>2 DEF Promise!Settle
<1>6. CASE Steps[currentStep].kind = "PICK"
  <2>1. bannedHeroes' = bannedHeroes
    BY <1>6 DEF NameHero, Turn
  <2>2. PicksMade' = PicksMade \cup {pick}
    BY <1>1, <1>2, <1>6 DEF PicksMade
  <2>3. Promise!SeatOf(pick) = Seat(currentStep) /\ pick.heroId = h /\ pick.round = currentStep
    BY DEF Promise!SeatOf, Seat
  <2>4. Seat(currentStep) \in PickSeats \ Promise!Filled
    <3>1. \A i \in Past : Seat(i) # Seat(currentStep)
      BY <1>1 DEF Seat
    <3> QED
      BY <1>1, <1>6, <3>1, FilledSeats DEF PickSeats
  <2>5. ASSUME NEW s \in PickSeats, s.round < currentStep
        PROVE  s \in Promise!Filled
    <3>1. PICK i \in 1..Len(Steps) : Steps[i].kind = "PICK" /\ s = Seat(i)
      BY DEF PickSeats
    <3>2. i \in Past
      BY <1>1, <2>5, <3>1 DEF Seat, Past
    <3> QED
      BY <3>1, <3>2, FilledSeats
  <2> HIDE DEF pick
  <2> QED
    BY <1>3, <2>1, <2>2, <2>3, <2>4, <2>5 DEF Promise!Settle
<1> QED
  BY <1>4, <1>5, <1>6 DEF Kinds

LEMMA PromiseStep == Inv /\ [Next]_vars => [Promise!Settle]_Promise!vars
<1> SUFFICES ASSUME Inv, [Next]_vars PROVE [Promise!Settle]_Promise!vars
  OBVIOUS
<1>1. ASSUME NEW side \in Sides, ConfirmFirstPickSide(side) PROVE UNCHANGED Promise!vars
  BY <1>1, SameTurnsSamePicks DEF ConfirmFirstPickSide, Past, Promise!vars
<1>2. ASSUME NEW snapshot \in Snapshots, LoadEligibility(snapshot) PROVE UNCHANGED Promise!vars
  BY <1>2, SameTurnsSamePicks DEF LoadEligibility, Past, Promise!vars
<1>3. CASE UNCHANGED vars
  BY <1>3, SameTurnsSamePicks DEF vars, Past, Promise!vars
<1>4. ASSUME NEW actor \in Actors, NEW kind \in Kinds, NEW h \in Heroes,
             CmAction(actor, kind, h) PROVE Promise!Settle
  BY <1>4, PromiseNameHero DEF CmAction
<1>5. ASSUME NEW actor \in Actors, NEW h \in Heroes, CmAutoPick(actor, h) PROVE Promise!Settle
  BY <1>5, PromiseNameHero DEF CmAutoPick, Kinds
<1> QED
  BY <1>1, <1>2, <1>3, <1>4, <1>5, PromiseSkip DEF Next

(* A Captain's Mode draft keeps what a draft promises: bans and picks are  *)
(* final, a hero leaves the pool once, seats are filled in order.          *)
THEOREM CmPromiseKept == Spec => KeepsPromise
BY PromiseInit, PromiseStep, InvAlways, PTL DEF Spec, KeepsPromise, Promise!Spec

----------------------------------------------------------------------------
(* A complete draft is full                                                *)

(* The status is kept beside the step, not derived from it.                *)
StatusFollows == (status = "COMPLETE") <=> (currentStep > Len(Steps))

LEMMA StatusPreserved ==
  ASSUME Steps # <<>>, Inv, StatusFollows, [Next]_vars
  PROVE  StatusFollows'
<1>1. Len(Steps) \in Nat /\ Len(Steps) >= 1 /\ currentStep \in Nat
  <2>1. Steps \in Seq([kind : Kinds, actor : Actors])
    BY StepsAssumption
  <2> DEFINE Turns == [kind : Kinds, actor : Actors]
  <2> HIDE DEF Turns
  <2>2. Steps \in Seq(Turns) /\ Steps # <<>>
    BY <2>1 DEF Turns
  <2>3. Len(Steps) \in Nat /\ Len(Steps) # 0
    BY <2>2
  <2>4. QED BY <2>3 DEF Inv, TypeOK
<1>2. ASSUME NEW side \in Sides, ConfirmFirstPickSide(side) PROVE StatusFollows'
  BY <1>1, <1>2 DEF ConfirmFirstPickSide, Inv, StatusFollows
<1>3. ASSUME NEW snapshot \in Snapshots, LoadEligibility(snapshot) PROVE StatusFollows'
  BY <1>3 DEF LoadEligibility, StatusFollows
<1>4. ASSUME NEW outcome, Advance(outcome) PROVE StatusFollows'
  BY <1>1, <1>4 DEF Advance, StatusFollows
<1>5. ASSUME NEW actor \in Actors, BanSkipped(actor) PROVE StatusFollows'
  BY <1>4, <1>5 DEF BanSkipped
<1>6. ASSUME NEW actor \in Actors, NEW kind \in Kinds, NEW h \in Heroes, CmAction(actor, kind, h)
      PROVE  StatusFollows'
  BY <1>4, <1>6 DEF CmAction, NameHero
<1>7. ASSUME NEW actor \in Actors, NEW h \in Heroes, CmAutoPick(actor, h) PROVE StatusFollows'
  BY <1>4, <1>7 DEF CmAutoPick, NameHero
<1>8. CASE UNCHANGED vars
  BY <1>8 DEF vars, StatusFollows
<1>9. QED BY <1>2, <1>3, <1>5, <1>6, <1>7, <1>8 DEF Next

(* The heroes named at some picks of the past are as many as the picks.    *)
LEMMA NamedOnce ==
  ASSUME Inv, NEW turns \in SUBSET Past, \A i \in turns : Named(i)
  PROVE  Cardinality(HeroesNamedAt(turns)) = Cardinality(turns)
<1> DEFINE hero == [i \in turns |-> history[i].heroId]
<1>1. {j \in turns : Named(j)} = turns
  OBVIOUS
<1>2. HeroesNamedAt(turns) = {history[i].heroId : i \in turns}
  BY <1>1 DEF HeroesNamedAt
<1>3. \A i, j \in turns : hero[i] = hero[j] => i = j
  BY DEF Inv, HistoryTellsAll
<1>4. hero \in [turns -> HeroesNamedAt(turns)] /\ \A h \in HeroesNamedAt(turns) : \E i \in turns : hero[i] = h
  BY <1>2
<1>5. hero \in Bijection(turns, HeroesNamedAt(turns))
  BY <1>3, <1>4 DEF Bijection, Injection, Surjection, IsInjective
<1>6. IsFiniteSet(turns)
  <2>1. IsFiniteSet(Past)
    <3>1. currentStep - 1 \in Int
      BY StepsAssumption DEF Inv, TypeOK
    <3>2. QED BY <3>1, FS_Interval DEF Past
  <2>2. QED BY <2>1, FS_Subset
<1>7. ExistsBijection(turns, HeroesNamedAt(turns))
  BY <1>5 DEF ExistsBijection
<1>8. QED BY <1>6, <1>7, FS_Bijection

(* A draft says it is complete once its sequence is over, and then each    *)
(* side has as many heroes as the sequence gives it picks, however many    *)
(* bans were skipped.                                                      *)
THEOREM CompleteIsFullAlways ==
  ASSUME Steps # <<>>
  PROVE  Spec => []CompleteIsFull
<1>0. Len(Steps) \in Nat /\ Len(Steps) >= 1
  <2> DEFINE Turns == [kind : Kinds, actor : Actors]
  <2>1. Steps \in Seq(Turns)
    BY StepsAssumption
  <2> HIDE DEF Turns
  <2>2. QED BY <2>1
<1>1. Init => StatusFollows
  BY <1>0 DEF Init, StatusFollows
<1>2. Inv /\ StatusFollows /\ [Next]_vars => StatusFollows'
  BY StatusPreserved
<1>3. Inv /\ StatusFollows => CompleteIsFull
  <2> SUFFICES ASSUME Inv, StatusFollows PROVE CompleteIsFull
    OBVIOUS
  <2> DEFINE PickSteps(actor) == {i \in 1..Len(Steps) : Steps[i] = Pick(actor)}
  <2> DEFINE Team(actor) == IF actor = "first" THEN picks[firstPickSide]
                            ELSE UNION {picks[side] : side \in Sides \ {firstPickSide}}
  <2>1. ASSUME status = "COMPLETE", NEW actor \in Actors
        PROVE  Cardinality(Team(actor)) = Cardinality(PickSteps(actor))
    <3>1. currentStep = Len(Steps) + 1 /\ firstPickSide \in Sides
      BY <1>0, <2>1 DEF StatusFollows, Inv, TypeOK
    <3>2. Past = 1..Len(Steps)
      BY <1>0, <3>1 DEF Past
    <3> DEFINE side == AbsoluteSide(actor)
    <3>3. side \in Sides /\ Team(actor) = picks[side] /\ (actor = "first" <=> side = firstPickSide)
      <4>1. Sides \ {firstPickSide} = {Other(firstPickSide)} /\ Other(firstPickSide) # firstPickSide
        BY <3>1 DEF Sides, Other
      <4>2. UNION {picks[s] : s \in Sides \ {firstPickSide}} = picks[Other(firstPickSide)]
        BY <4>1
      <4>3. QED BY <3>1, <4>1, <4>2 DEF AbsoluteSide
    <3>4. PickTurns(side) = PickSteps(actor)
      <4>1. ASSUME NEW i \in 1..Len(Steps)
            PROVE  Steps[i] = Pick(actor) <=> (Steps[i].kind = "PICK" /\ Steps[i].actor = actor)
        <5> DEFINE Turns == [kind : Kinds, actor : Actors]
        <5>1. Steps \in Seq(Turns)
          BY StepsAssumption
        <5> HIDE DEF Turns
        <5>2. Steps[i] \in Turns
          BY <5>1
        <5>3. QED BY <5>2 DEF Pick, Turns
      <4>2. \A i \in 1..Len(Steps) : Steps[i].actor = actor <=> (Steps[i].actor = "first" <=> actor = "first")
        BY StepsWellFormed DEF Actors
      <4>3. QED BY <3>2, <3>3, <4>1, <4>2 DEF PickTurns
    <3>5. picks[side] = HeroesNamedAt(PickTurns(side))
      BY <3>3 DEF Inv, HistoryTellsAll
    <3>6. PickTurns(side) \in SUBSET Past /\ \A i \in PickTurns(side) : Named(i)
      BY DEF PickTurns, Inv, HistoryTellsAll
    <3>7. QED BY <3>3, <3>4, <3>5, <3>6, NamedOnce
  <2>2. QED BY <2>1 DEF CompleteIsFull, StatusFollows
<1>4. QED BY <1>1, <1>2, <1>3, InvAlways, PTL DEF Spec
===========================================================================
