----------------------------- MODULE LiveFacts -----------------------------
(***************************************************************************)
(* The observed facts of a live draft (live/live-capture.ts) and the       *)
(* replay that turns them into a draft of the kernel, as pure operators.   *)
(*                                                                         *)
(* Facts are a record:                                                     *)
(*   started        hero selection began                                   *)
(*   localSide      the side of the Player, NoSide until a source says it  *)
(*   bans           the heroes proven banned                               *)
(*   bansClosed     the ban phase is known to be over                      *)
(*   picks          the picks in the order they were observed, each        *)
(*                  [side, heroId, position], position 0 when not stated   *)
(*   localHeroId    the hero the game says is the Player's, 0 when none    *)
(*   localOnlyPick  the pick that only such a report has named, 0 if none  *)
(*                                                                         *)
(* Observations are records with a type. The patch of a draft is one       *)
(* constant for all sources and is left out; hero ids are valid.           *)
(***************************************************************************)
EXTENDS RankedAllPick, SequencesExt

CONSTANTS
  Positions,                \* the positions of a team: 1..5 in the code
  MAX_LIVE_BANS,            \* facts of one draft: 40 bans in the code
  MAX_LIVE_PICKS_PER_SIDE   \* and 5 picks on each side

ASSUME LiveBoundsAssumption ==
  /\ Positions \subseteq Nat \ {0}
  /\ MAX_LIVE_BANS \in Nat /\ MAX_LIVE_PICKS_PER_SIDE \in Nat

NoSide == "none"
NoPosition == 0

LivePicks == [side : Sides, heroId : Heroes, position : Positions \cup {NoPosition}]

LiveFactsSet ==
  [ started : BOOLEAN,
    localSide : Sides \cup {NoSide},
    bans : SUBSET Heroes,
    bansClosed : BOOLEAN,
    picks : Seq(LivePicks),
    localHeroId : Heroes \cup {NoHero},
    localOnlyPick : Heroes \cup {NoHero} ]

EmptyLiveFacts ==
  [ started |-> FALSE, localSide |-> NoSide, bans |-> {}, bansClosed |-> FALSE,
    picks |-> <<>>, localHeroId |-> NoHero, localOnlyPick |-> NoHero ]

PickedHeroes(facts) == {facts.picks[i].heroId : i \in DOMAIN facts.picks}
PicksOfSide(facts, side) == {i \in DOMAIN facts.picks : facts.picks[i].side = side}
HasPick(facts, side, h) ==
  \E i \in DOMAIN facts.picks : facts.picks[i].side = side /\ facts.picks[i].heroId = h

(* A hero is in one pick at most.                                          *)
WithoutPick(facts, h) ==
  LET at == {i \in DOMAIN facts.picks : facts.picks[i].heroId = h} IN
  IF at = {} THEN facts.picks ELSE RemoveAt(facts.picks, Min(at))

----------------------------------------------------------------------------
(* Observations                                                            *)

DraftStarted == [type |-> "draft_started"]
BansClosed == [type |-> "bans_closed"]
SideIs(side) == [type |-> "side", side |-> side]
Ban(h) == [type |-> "ban", heroId |-> h]
Unban(h) == [type |-> "unban", heroId |-> h]
LocalHero(h) == [type |-> "local_hero", heroId |-> h]
Revert(side, h) == [type |-> "revert", side |-> side, heroId |-> h]
Pick(side, h, position) ==
  [type |-> "pick", side |-> side, heroId |-> h, position |-> position, viaLocalHero |-> FALSE]
LocalPick(side, h) ==
  [type |-> "pick", side |-> side, heroId |-> h, position |-> NoPosition, viaLocalHero |-> TRUE]

(* What a source can state once its message is parsed.                     *)
Observations ==
  {DraftStarted, BansClosed} \cup {SideIs(side) : side \in Sides}
    \cup {Ban(h) : h \in Heroes} \cup {Unban(h) : h \in Heroes}
    \cup {LocalHero(h) : h \in Heroes \cup {NoHero}}
    \cup {Revert(side, h) : side \in Sides, h \in Heroes}
    \cup {LocalPick(side, h) : side \in Sides, h \in Heroes}
    \cup {Pick(side, h, position) :
            side \in Sides, h \in Heroes, position \in Positions \cup {NoPosition}}

----------------------------------------------------------------------------
(* applyLiveObservation: the facts after an observation. An ignored        *)
(* observation leaves them as they are.                                    *)

(* A pick that only the local-hero report named gives way to another.      *)
WithoutStaleLocalPick(facts, h) ==
  IF facts.localOnlyPick \in {NoHero, h} THEN facts
  ELSE [facts EXCEPT !.picks = WithoutPick(facts, facts.localOnlyPick), !.localOnlyPick = NoHero]

AddPick(facts, o) ==
  [ facts EXCEPT !.picks = Append(@, [side |-> o.side, heroId |-> o.heroId, position |-> o.position]),
                 !.localOnlyPick = IF o.viaLocalHero THEN o.heroId ELSE @ ]

(* The same pick again: it may gain a position, and any source other than  *)
(* the local-hero report corroborates it.                                  *)
RestatePick(facts, o) ==
  [ facts EXCEPT !.picks = [i \in DOMAIN facts.picks |->
                              LET p == facts.picks[i] IN
                              IF p.heroId = o.heroId /\ p.position = NoPosition
                              THEN [p EXCEPT !.position = o.position] ELSE p],
                 !.localOnlyPick = IF @ = o.heroId /\ ~o.viaLocalHero THEN NoHero ELSE @ ]

ApplyPick(facts, o) ==
  IF o.heroId \in facts.bans THEN facts
  ELSE IF HasPick(facts, o.side, o.heroId) THEN RestatePick(facts, o)
  ELSE IF \/ o.heroId \in PickedHeroes(facts)
          \/ Cardinality(PicksOfSide(facts, o.side)) >= MAX_LIVE_PICKS_PER_SIDE
  THEN facts
  ELSE AddPick(facts, o)

ApplyBan(facts, h) ==
  IF h \in PickedHeroes(facts) \/ Cardinality(facts.bans) >= MAX_LIVE_BANS THEN facts
  ELSE [facts EXCEPT !.bans = @ \cup {h}]

ApplyRevert(facts, o) ==
  IF ~HasPick(facts, o.side, o.heroId) THEN facts
  ELSE [facts EXCEPT !.picks = WithoutPick(facts, o.heroId),
                     !.localOnlyPick = IF @ = o.heroId THEN NoHero ELSE @]

ApplyLiveObservation(facts, o) ==
  CASE o.type = "draft_started" -> [facts EXCEPT !.started = TRUE]
    [] o.type = "side" -> [facts EXCEPT !.localSide = o.side]
    [] o.type = "bans_closed" -> [facts EXCEPT !.bansClosed = TRUE]
    [] o.type = "local_hero" -> [facts EXCEPT !.localHeroId = o.heroId]
    [] o.type = "ban" -> ApplyBan(facts, o.heroId)
    [] o.type = "unban" -> [facts EXCEPT !.bans = @ \ {o.heroId}]
    [] o.type = "revert" -> ApplyRevert(facts, o)
    [] o.type = "pick" ->
         ApplyPick(IF o.viaLocalHero THEN WithoutStaleLocalPick(facts, o.heroId) ELSE facts, o)

----------------------------------------------------------------------------
(* replayLiveFacts: the kernel's draft these facts produce                 *)

(* Picking is replayed once hero selection is known to be past the bans.   *)
Picking(facts) ==
  facts.started /\ (facts.bansClosed \/ facts.bans # {} \/ facts.picks # <<>>)

WithBans(facts) ==
  IF facts.bans = {} THEN NewDraft ELSE RecordResolvedBans(NewDraft, facts.bans)

OpenFor(d, side) == {s.slotIndex : s \in {t \in LegalGameplayActions(d) : t.side = side}}

(* Mutant: picks are replayed in order, up to the first without a slot.    *)
SealInOrder(r) ==
  IF r.pending = <<>> \/ (r.pending # <<>> /\ OpenFor(r.draft, r.pending[1].side) = {}) THEN r
  ELSE
    LET pick == r.pending[1]
        slot == [side |-> pick.side, slotIndex |-> Min(OpenFor(r.draft, pick.side))]
    IN [ r EXCEPT !.pending = Tail(@),
                  !.draft = SubmitSealedSelection(@, slot, pick.heroId) ]

(* One turn of the loop: the first pending pick that has an open slot is   *)
(* sealed in the least of them, and is pending no more even when refused.  *)
SealNext(r) ==
  LET ready == {i \in DOMAIN r.pending : OpenFor(r.draft, r.pending[i].side) # {}} IN
  IF ready = {} THEN r
  ELSE
    LET pick == r.pending[Min(ready)]
        slot == [side |-> pick.side, slotIndex |-> Min(OpenFor(r.draft, pick.side))]
        rest == RemoveAt(r.pending, Min(ready))
        seal == [side |-> pick.side, round |-> r.draft.round, slotIndex |-> slot.slotIndex,
                 heroId |-> pick.heroId, position |-> pick.position]
    IN IF ~AcceptsSealedSelection(r.draft, slot, pick.heroId)
       THEN [r EXCEPT !.pending = rest, !.rejected = @ + 1]
       ELSE [r EXCEPT !.pending = rest,
                      !.draft = SubmitSealedSelection(@, slot, pick.heroId),
                      !.seals = Append(@, seal)]

(* The loop turns at most once per pick.                                   *)
SealAll(r) ==
  LET after[n \in 0..Len(r.pending)] == IF n = 0 THEN r ELSE SealNext(after[n - 1])
  IN after[Len(r.pending)]

ReplayPicks(facts) ==
  IF ~Picking(facts)
  THEN [draft |-> WithBans(facts), pending |-> facts.picks, seals |-> <<>>, rejected |-> 0]
  ELSE SealAll([draft |-> BanResolutionComplete(WithBans(facts)),
                pending |-> facts.picks, seals |-> <<>>, rejected |-> 0])

----------------------------------------------------------------------------
(* resolveLiveOwnPositions: which positions the picks of one side fill     *)

Own(seals, side) == {i \in DOMAIN seals : seals[i].side = side}

(* A stated position binds the first pick it was stated of.                *)
Explicit(seals, side) ==
  {i \in Own(seals, side) :
     /\ seals[i].position # NoPosition
     /\ \A j \in Own(seals, side) : j < i => seals[j].position # seals[i].position}

(* Mutant: the seat is given to the hero although a pick states it.        *)
LocalBoundTwice(seals, side, humanPosition, localHeroId) ==
  {i \in Own(seals, side) \ Explicit(seals, side) :
     humanPosition # NoPosition /\ seals[i].heroId = localHeroId}

(* The seat the Player declared binds the hero the game says is theirs.    *)
LocalBound(seals, side, humanPosition, localHeroId) ==
  {i \in Own(seals, side) \ Explicit(seals, side) :
     /\ humanPosition # NoPosition /\ seals[i].heroId = localHeroId
     /\ \A j \in Explicit(seals, side) : seals[j].position # humanPosition}

Binding(seal, position, provenance) ==
  [round |-> seal.round, slotIndex |-> seal.slotIndex,
   assignedPosition |-> position, provenance |-> provenance]

OwnBindings(seals, side, humanPosition, localHeroId) ==
  {Binding(seals[i], seals[i].position, "EXPLICIT") : i \in Explicit(seals, side)}
    \cup {Binding(seals[i], humanPosition, "LOCAL_PLAYER") :
            i \in LocalBound(seals, side, humanPosition, localHeroId)}

(* What replayLiveFacts returns, given the side to assume while no source  *)
(* has said ours and the seat the Player declared.                         *)
ReplayLiveFacts(facts, defaultSide, humanPosition) ==
  LET r == ReplayPicks(facts)
      localSide == IF facts.localSide = NoSide THEN defaultSide ELSE facts.localSide
  IN [ draft |-> r.draft,
       localSide |-> localSide,
       ownBindings |-> OwnBindings(r.seals, localSide, humanPosition, facts.localHeroId),
       deferred |-> r.pending,
       rejected |-> r.rejected ]
=============================================================================
