------------------------ MODULE MCApSimulatorSession ------------------------
(* Small instances of ApSimulatorSession. Heroes nobody has named yet are  *)
(* alike, so a party names the least of them or one the session already    *)
(* holds: every choice that makes a difference to who collides with whom.  *)
EXTENDS ApSimulatorSession

OneRound == <<2>>
TwoRounds == <<2, 1>>

AllyThird == <<3>>
AllySecond == <<2>>

Held == (HeroesOf(draft.sealed) \cup HeroesOf({decisions[d] : d \in Drivers})) \ {NoHero}
Fresh == {h \in Heroes : ~HeroAlreadyTaken(draft, h) /\ h \notin Held}
Choices == Held \cup {h \in Fresh : \A g \in Fresh : h <= g}

MCNext ==
  \/ \E heroes \in SUBSET {1} : ResolveBans(heroes)
  \/ \E slot \in AllSlots, h \in Choices, position \in ControlledPositions :
       HumanSubmits(slot, h, position)
  \/ YieldRound
  \/ \E winner \in AllSlots : ResolveCollision(winner)
  \/ \E driver \in Drivers, h \in Choices : EnemyDecides(driver, h)
  \/ \E driver \in Drivers, h \in Choices : AllyDecides(driver, h)
  \/ \E driver \in Drivers : Applies(driver)
  \/ HandToHuman

MCSpec == Init /\ [][MCNext]_vars
MCFairSpec == MCSpec /\ Fairness
=============================================================================
