------------------------- MODULE ApSimulatorSession -------------------------
(***************************************************************************)
(* A Ranked All Pick simulator session: the kernel's draft together with   *)
(* what ProtocolSessionStore (server/protocol-session.ts) keeps beside it  *)
(* and the routes (server/routes/protocol-sessions.ts) that drive it.      *)
(*                                                                         *)
(* Three parties share the session: the Player, who seals heroes for the   *)
(* positions of the party; the Ally Bot, who seals for the others; and the *)
(* Enemy Bot. Both bots live in postAutoDrive, which reads the draft,      *)
(* awaits a decision, and applies it to whatever the draft is by then; a   *)
(* driver below is one such request. Every other route runs without an     *)
(* await between its checks and its effect, and is one action.             *)
(*                                                                         *)
(*   draft               state of the kernel                               *)
(*   ownPickPositions    the set of [round, slotIndex, assignedPosition]   *)
(*   roundYielded        rounds the Player handed over to the Ally Bot     *)
(*   registrations       accepted selections, in order of their ordinal    *)
(*   nextRegistrationOrdinal                                               *)
(*   timer               attempt timed, seats that had to pick in it and   *)
(*                       those confirmed; the clock itself is left out, no *)
(*                       rule of the session reads it                      *)
(*   decisions           what each driver has decided and not yet applied  *)
(***************************************************************************)
EXTENDS RankedAllPick

CONSTANTS
  LocalSide,            \* the side of the Player
  ControlledPositions,  \* the positions of the party
  AllyOrder,            \* the other positions, in the order of the Ally Bot
  Drivers,              \* auto-drive requests that may be in flight
  MaxBans               \* bound: heroes banned before the first round

AllyPositions == {AllyOrder[i] : i \in DOMAIN AllyOrder}
Positions == ControlledPositions \cup AllyPositions

(* Every position of a team is one seat of its side.                       *)
ASSUME PartyAssumption ==
  /\ LocalSide \in Sides
  /\ IsFiniteSet(Positions) /\ Positions \subseteq Nat \ {0}
  /\ ControlledPositions \cap AllyPositions = {}
  /\ DOMAIN AllyOrder = 1..Cardinality(AllyPositions)
  /\ Cardinality(Positions) = Cardinality({s \in Seats : s.side = LocalSide})

VARIABLES
  draft, ownPickPositions, roundYielded, registrations,
  nextRegistrationOrdinal, timer, decisions

vars == <<draft, ownPickPositions, roundYielded, registrations,
          nextRegistrationOrdinal, timer, decisions>>

EnemySide == CHOOSE side \in Sides : side # LocalSide
NoTimer == [round |-> 0, attempt |-> 0, seats |-> {}, confirmed |-> {}]
Undecided == [side |-> LocalSide, slotIndex |-> 0, heroId |-> NoHero, position |-> 0]

----------------------------------------------------------------------------
(* What the store derives from the session                                 *)

OpenSlotsOf(side) == {s \in draft.openSlots : s.side = side}
FirstOpenSlot(side) ==
  CHOOSE s \in OpenSlotsOf(side) : \A t \in OpenSlotsOf(side) : s.slotIndex <= t.slotIndex

FilledPositions == {b.assignedPosition : b \in ownPickPositions}
HumanOpenPositions == ControlledPositions \ FilledPositions
UnfilledAllyPositions == AllyPositions \ FilledPositions
HasYieldedCurrentRound == draft.round \in roundYielded

(* Mutants: a yield before the first round, and one the Ally Bot could not *)
(* absorb.                                                                 *)
CanYieldAnytime ==
  /\ ~HasYieldedCurrentRound
  /\ AllyPositions # {}
  /\ Cardinality(UnfilledAllyPositions) >= Cardinality(OpenSlotsOf(LocalSide))

CanYieldUnabsorbed ==
  draft.round # 0 /\ ~HasYieldedCurrentRound /\ AllyPositions # {}

(* yieldPrecondition *)
CanYield ==
  /\ draft.round # 0
  /\ ~HasYieldedCurrentRound
  /\ AllyPositions # {}
  /\ Cardinality(UnfilledAllyPositions) >= Cardinality(OpenSlotsOf(LocalSide))

(* How many human picks fit in the round, of the open own slots.           *)
RoundCapacity ==
  IF HasYieldedCurrentRound THEN 0
  ELSE IF Cardinality(OpenSlotsOf(LocalSide)) <= Cardinality(HumanOpenPositions)
       THEN Cardinality(OpenSlotsOf(LocalSide)) ELSE Cardinality(HumanOpenPositions)

----------------------------------------------------------------------------
(* What follows an accepted selection                                      *)

(* Mutant: two selections share an ordinal.                                *)
RegisterSameOrdinal(slot, h) ==
  /\ registrations' = registrations \cup
       {[ordinal |-> nextRegistrationOrdinal, round |-> draft.round,
         collisionsResolved |-> draft.collisionsResolved,
         side |-> slot.side, slotIndex |-> slot.slotIndex, heroId |-> h]}
  /\ UNCHANGED nextRegistrationOrdinal

(* recordRegistration: the attempt is read before the command.             *)
Register(slot, h) ==
  /\ registrations' = registrations \cup
       {[ordinal |-> nextRegistrationOrdinal, round |-> draft.round,
         collisionsResolved |-> draft.collisionsResolved,
         side |-> slot.side, slotIndex |-> slot.slotIndex, heroId |-> h]}
  /\ nextRegistrationOrdinal' = nextRegistrationOrdinal + 1

Seat(round, slotIndex) == [round |-> round, slotIndex |-> slotIndex]

(* Mutant: the round is read after the command.                            *)
ConfirmSeatAfterwards(slot) ==
  timer' = IF slot.side = LocalSide /\ Seat(draft'.round, slot.slotIndex) \in timer.seats
           THEN [timer EXCEPT !.confirmed = @ \cup {Seat(draft'.round, slot.slotIndex)}]
           ELSE timer

(* recordSeatConfirmation *)
ConfirmSeat(slot) ==
  timer' = IF slot.side = LocalSide /\ Seat(draft.round, slot.slotIndex) \in timer.seats
           THEN [timer EXCEPT !.confirmed = @ \cup {Seat(draft.round, slot.slotIndex)}]
           ELSE timer

(* Mutant: a reopened slot of either side prunes.                          *)
PruneEitherSide(bindings, d) ==
  {b \in bindings : ~(b.round = d.round /\ \E s \in d.openSlots : s.slotIndex = b.slotIndex)}

(* pruneReopenedOwnPickPositions: the bindings whose slot is open in d.    *)
Prune(bindings, d) ==
  {b \in bindings :
     ~(b.round = d.round /\ [side |-> LocalSide, slotIndex |-> b.slotIndex] \in d.openSlots)}

(* Mutant: a position may be bound twice.                                  *)
AcceptsForAnyPosition(slot, h, position, allowed) ==
  /\ slot \in OpenSlotsOf(LocalSide)
  /\ position \in allowed
  /\ AcceptsSealedSelection(draft, slot, h)

(* applyOwnTeamPositionSelection: seal a hero for one of the positions     *)
(* allowed, and bind the two.                                              *)
AcceptsForPosition(slot, h, position, allowed) ==
  /\ slot \in OpenSlotsOf(LocalSide)
  /\ position \in allowed \ FilledPositions
  /\ AcceptsSealedSelection(draft, slot, h)

SealForPosition(slot, h, position) ==
  LET next  == SubmitSealedSelection(draft, slot, h)
      bound == [round |-> draft.round, slotIndex |-> slot.slotIndex, assignedPosition |-> position]
  IN /\ draft' = next
     /\ ownPickPositions' = Prune(ownPickPositions \cup {bound}, next)
     /\ Register(slot, h)
     /\ ConfirmSeat(slot)

(* Mutant: the Enemy Bot's selections bypass the ledger.                   *)
SealForEnemyUnregistered(slot, h) ==
  LET next == SubmitSealedSelection(draft, slot, h)
  IN /\ draft' = next
     /\ ownPickPositions' = Prune(ownPickPositions, next)
     /\ UNCHANGED <<registrations, nextRegistrationOrdinal>>
     /\ ConfirmSeat(slot)

(* apply, of a selection of the Enemy Bot                                  *)
SealForEnemy(slot, h) ==
  LET next == SubmitSealedSelection(draft, slot, h)
  IN /\ draft' = next
     /\ ownPickPositions' = Prune(ownPickPositions, next)
     /\ Register(slot, h)
     /\ ConfirmSeat(slot)

----------------------------------------------------------------------------
(* Routes of the Player                                                    *)

Init ==
  /\ draft = NewDraft
  /\ ownPickPositions = {}
  /\ roundYielded = {}
  /\ registrations = {}
  /\ nextRegistrationOrdinal = 1
  /\ timer = NoTimer
  /\ decisions = [driver \in Drivers |-> Undecided]

(* postResolveBans: records the bans and enters round 1, or does neither.  *)
ResolveBans(heroes) ==
  /\ AcceptsResolvedBans(draft, heroes)
  /\ Cardinality(heroes) <= MaxBans
  /\ draft' = BanResolutionComplete(RecordResolvedBans(draft, heroes))
  /\ UNCHANGED <<ownPickPositions, roundYielded, registrations,
                 nextRegistrationOrdinal, timer, decisions>>

(* postCommand and applyApSimulatorOwnSelection                            *)
HumanSubmits(slot, h, position) ==
  /\ ~HasYieldedCurrentRound
  /\ AcceptsForPosition(slot, h, position, ControlledPositions)
  /\ SealForPosition(slot, h, position)
  /\ UNCHANGED <<roundYielded, decisions>>

(* postYield *)
YieldRound ==
  /\ CanYield
  /\ roundYielded' = roundYielded \cup {draft.round}
  /\ UNCHANGED <<draft, ownPickPositions, registrations,
                 nextRegistrationOrdinal, timer, decisions>>

----------------------------------------------------------------------------
(* The collision authority (adapters/simulator-authority.ts), asked by     *)
(* postAutoDrive and postSimulatorAuthority                                *)

Contenders == SlotsOf(Entries(draft, draft.pendingCollision))

RegistrationsFor(slot) ==
  {r \in registrations : /\ r.round = draft.round
                         /\ r.collisionsResolved = draft.collisionsResolved
                         /\ SlotOf(r) = slot
                         /\ r.heroId = draft.pendingCollision}

(* The contender registered first, if the ledger says which one that is.   *)
FirstRegistered(winner) ==
  /\ \A c \in Contenders : Cardinality(RegistrationsFor(c)) = 1
  /\ \A c \in Contenders \ {winner} :
       \A r \in RegistrationsFor(winner), s \in RegistrationsFor(c) : r.ordinal < s.ordinal

ResolveCollision(winner) ==
  /\ draft.pendingCollision # NoHero
  /\ FirstRegistered(winner)
  /\ AcceptsResolution(draft, draft.pendingCollision, winner)
  /\ draft' = ApplyAuthoritativeResolution(draft, draft.pendingCollision, winner)
  /\ ownPickPositions' = Prune(ownPickPositions, draft')
  /\ UNCHANGED <<roundYielded, registrations, nextRegistrationOrdinal, timer, decisions>>

----------------------------------------------------------------------------
(* One iteration of postAutoDrive: what it finds to do, in its order       *)

DrivesEnemy == OpenSlotsOf(EnemySide) # {}

WaitsForHuman ==
  /\ OpenSlotsOf(EnemySide) = {}
  /\ OpenSlotsOf(LocalSide) # {}
  /\ HumanOpenPositions # {}
  /\ ~HasYieldedCurrentRound

(* Mutants: the Ally Bot does not wait for the Player; it does not notice  *)
(* a yield.                                                                *)
DrivesAllyEagerly ==
  OpenSlotsOf(EnemySide) = {} /\ OpenSlotsOf(LocalSide) # {} /\ UnfilledAllyPositions # {}

DrivesAllyUnyielded == DrivesAllyEagerly /\ HumanOpenPositions = {}

DrivesAlly ==
  /\ OpenSlotsOf(EnemySide) = {}
  /\ OpenSlotsOf(LocalSide) # {}
  /\ HumanOpenPositions = {} \/ HasYieldedCurrentRound
  /\ UnfilledAllyPositions # {}

NextAllyPosition ==
  LET i == CHOOSE i \in DOMAIN AllyOrder :
             /\ AllyOrder[i] \in UnfilledAllyPositions
             /\ \A j \in DOMAIN AllyOrder : AllyOrder[j] \in UnfilledAllyPositions => i <= j
  IN AllyOrder[i]

Decides(driver, slot, h, position) ==
  /\ decisions[driver] = Undecided
  /\ IsSealedSelectionLegal(draft, slot, h)
  /\ decisions' = [decisions EXCEPT ![driver] =
       [side |-> slot.side, slotIndex |-> slot.slotIndex, heroId |-> h, position |-> position]]
  /\ UNCHANGED <<draft, ownPickPositions, roundYielded, registrations,
                 nextRegistrationOrdinal, timer>>

EnemyDecides(driver, h) ==
  /\ DrivesEnemy
  /\ Decides(driver, FirstOpenSlot(EnemySide), h, 0)

AllyDecides(driver, h) ==
  /\ DrivesAlly
  /\ Decides(driver, FirstOpenSlot(LocalSide), h, NextAllyPosition)

(* Back from the await. The decision is applied to the draft as it is now; *)
(* a refusal ends the request and changes nothing.                         *)
DecisionAccepted(decision) ==
  IF decision.side = LocalSide
  THEN AcceptsForPosition(SlotOf(decision), decision.heroId, decision.position, AllyPositions)
  ELSE AcceptsSealedSelection(draft, SlotOf(decision), decision.heroId)

Applies(driver) ==
  LET decision == decisions[driver] IN
  /\ decision # Undecided
  /\ decisions' = [decisions EXCEPT ![driver] = Undecided]
  /\ UNCHANGED roundYielded
  /\ \/ /\ DecisionAccepted(decision)
        /\ IF decision.side = LocalSide
           THEN SealForPosition(SlotOf(decision), decision.heroId, decision.position)
           ELSE SealForEnemy(SlotOf(decision), decision.heroId)
     \/ /\ ~DecisionAccepted(decision)
        /\ UNCHANGED <<draft, ownPickPositions, registrations, nextRegistrationOrdinal, timer>>

(* The request stops for the Player and starts the timer of the attempt    *)
(* (ensureSimulatorTimer), on the first own slots the Player can fill.     *)
HandToHuman ==
  /\ WaitsForHuman
  /\ <<timer.round, timer.attempt>> # <<draft.round, draft.collisionsResolved>>
  /\ timer' =
       [ round |-> draft.round,
         attempt |-> draft.collisionsResolved,
         seats |-> {Seat(draft.round, s.slotIndex) : s \in
                      {s \in OpenSlotsOf(LocalSide) :
                         Cardinality({t \in OpenSlotsOf(LocalSide) : t.slotIndex < s.slotIndex}) < RoundCapacity}},
         confirmed |-> {} ]
  /\ UNCHANGED <<draft, ownPickPositions, roundYielded, registrations,
                 nextRegistrationOrdinal, decisions>>

----------------------------------------------------------------------------
Next ==
  \/ \E heroes \in SUBSET Heroes : ResolveBans(heroes)
  \/ \E slot \in AllSlots, h \in Heroes, position \in ControlledPositions :
       HumanSubmits(slot, h, position)
  \/ YieldRound
  \/ \E winner \in AllSlots : ResolveCollision(winner)
  \/ \E driver \in Drivers, h \in Heroes : EnemyDecides(driver, h)
  \/ \E driver \in Drivers, h \in Heroes : AllyDecides(driver, h)
  \/ \E driver \in Drivers : Applies(driver)
  \/ HandToHuman

Spec == Init /\ [][Next]_vars

----------------------------------------------------------------------------
(* Safety                                                                  *)

Bindings == [round : Rounds, slotIndex : Nat, assignedPosition : Positions]
Registrations ==
  [ordinal : Nat, round : Rounds, collisionsResolved : Nat,
   side : Sides, slotIndex : Nat, heroId : Heroes]
SeatRecords == [round : Rounds, slotIndex : Nat]

(* The session stays within its declared shape (ProtocolSessionEntry).     *)
TypeOK ==
  /\ draft \in Drafts
  /\ ownPickPositions \subseteq Bindings
  /\ roundYielded \subseteq Rounds
  /\ registrations \subseteq Registrations
  /\ nextRegistrationOrdinal \in Nat
  /\ timer \in [round : 0..NumRounds, attempt : Nat,
                seats : SUBSET SeatRecords, confirmed : SUBSET SeatRecords]
  /\ decisions \in [Drivers -> [side : Sides, slotIndex : Nat, heroId : Heroes \cup {NoHero},
                                position : Positions \cup {0}]]

OwnSeatsTaken ==
  {Seat(draft.round, e.slotIndex) : e \in {e \in draft.sealed : e.side = LocalSide}}
    \cup {Seat(p.round, p.slotIndex) : p \in {p \in draft.confirmedPicks : p.side = LocalSide}}

(* The bindings are exactly the own selections the kernel holds, whichever *)
(* party sealed them and whatever reopened since, and no position is bound *)
(* twice (INV-BIND-001). So the positions still open are as many as the    *)
(* own seats still to fill, and a complete draft has filled each of them.  *)
PositionsFollowPicks ==
  /\ {Seat(b.round, b.slotIndex) : b \in ownPickPositions} = OwnSeatsTaken
  /\ \A b, c \in ownPickPositions :
       (\/ b.assignedPosition = c.assignedPosition
        \/ Seat(b.round, b.slotIndex) = Seat(c.round, c.slotIndex)) => b = c

(* The authority never fails closed: whenever a collision is pending, the  *)
(* ledger names the one contender registered first, whichever routes the   *)
(* two selections came through and however often the slots were reopened.  *)
AuthorityCanDecide ==
  draft.pendingCollision # NoHero => \E winner \in Contenders : FirstRegistered(winner)

(* Gold is lost only for a seat that can still be filled: a seat timed and *)
(* not confirmed is an own slot open in the round in play, even while the  *)
(* timer still counts an attempt or a round already over.                  *)
PendingSeatsAreOpen ==
  \A seat \in timer.seats \ timer.confirmed :
    /\ seat.round = draft.round
    /\ [side |-> LocalSide, slotIndex |-> seat.slotIndex] \in OpenSlotsOf(LocalSide)

(* With one driver, no answer to an await is ever stale: a decision still  *)
(* in flight would be accepted, whatever the Player did meanwhile.         *)
DecisionsStayGood ==
  \A driver \in Drivers :
    decisions[driver] # Undecided => DecisionAccepted(decisions[driver])

(* The round is in the Ally Bot's hands and the Ally Bot has no position   *)
(* left for the slots still open: neither it nor the Player may fill them. *)
Stranded ==
  /\ OpenSlotsOf(LocalSide) # {}
  /\ OpenSlotsOf(EnemySide) = {}
  /\ HasYieldedCurrentRound
  /\ UnfilledAllyPositions = {}

(* A yield that was accepted strands nobody as long as no collision        *)
(* reopens a slot of the round.                                            *)
StrandedOnlyByCollision == Stranded => draft.collisionsResolved > 0

(* yieldRound's comment: a yield the bot could not honor is rejected, so   *)
(* no round is left with open own slots and nobody able to fill them.      *)
NeverStranded == ~Stranded

----------------------------------------------------------------------------
(* Refinement and progress                                                 *)

Promise == INSTANCE DraftPromise
             WITH banned <- draft.bannedHeroes, picks <- draft.confirmedPicks

(* The session's routes keep what the draft promises.                      *)
KeepsPromise == Promise!Spec

(* A request in flight comes back, whatever the bots decided.              *)
DriverMoves(driver) ==
  \/ \E h \in Heroes : EnemyDecides(driver, h) \/ AllyDecides(driver, h)
  \/ Applies(driver)

(* The client posts auto-drive until it is told to wait; of the Player     *)
(* nothing is assumed.                                                     *)
Fairness ==
  /\ \A driver \in Drivers : WF_vars(DriverMoves(driver))
  /\ WF_vars(\E winner \in AllSlots : ResolveCollision(winner))

(* The bots always hand back: whatever the Player does or leaves undone,   *)
(* again and again the draft is over, waits for its bans or for a pick of  *)
(* the Player, or has been stranded by a yield.                            *)
BotsHandBack ==
  []<>(\/ draft.phase \in {BAN_RESOLUTION, COMPLETE}
       \/ WaitsForHuman
       \/ Stranded)
=============================================================================
