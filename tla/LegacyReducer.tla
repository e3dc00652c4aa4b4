--------------------------- MODULE LegacyReducer ---------------------------
(***************************************************************************)
(* applyDraftEvent (draft/reducer.ts): the legacy draft, a pure function   *)
(* of the draft and an event. All Pick only: a Captain's Mode session is   *)
(* refused by the server before the reducer sees it, so the turn table and *)
(* the reserve times never enter. The store keeps one draft per session    *)
(* id, so an event is always of the draft's own session.                   *)
(*                                                                         *)
(* A draft is a record: phase, the side of the Player, the heroes banned   *)
(* and picked, lastSeq, the ids of the events applied, the heroes whose    *)
(* capture nobody has confirmed, and the health of the capture.            *)
(*                                                                         *)
(* An event is [eventId, seq, sure, payload]; sure: its confidence reaches *)
(* LOW_CONFIDENCE_THRESHOLD.                                               *)
(***************************************************************************)
EXTENDS Naturals, FiniteSets

CONSTANTS
  Heroes,
  MAX_PICKS_PER_SIDE   \* 5 in the code

ASSUME ReducerAssumption == IsFiniteSet(Heroes) /\ MAX_PICKS_PER_SIDE \in Nat

Sides == {"radiant", "dire"}

IdleDraft ==
  [ phase |-> "idle", localSide |-> "unknown", banned |-> {}, picks |-> [s \in Sides |-> {}],
    lastSeq |-> 0, applied |-> {}, unconfirmed |-> {}, captureStatus |-> "ok" ]

Drafts ==
  [ phase : {"idle", "active", "complete", "aborted"}, localSide : Sides \cup {"unknown"},
    banned : SUBSET Heroes, picks : [Sides -> SUBSET Heroes], lastSeq : Nat,
    applied : SUBSET Nat, unconfirmed : SUBSET Heroes, captureStatus : {"ok", "degraded", "lost"} ]

Payloads ==
  [type : {"session_started"}] \cup [type : {"local_side_identified"}, side : Sides]
    \cup [type : {"hero_banned"}, hero : Heroes]
    \cup [type : {"hero_picked", "pick_reverted"}, side : Sides, hero : Heroes]
    \cup [type : {"session_ended"}, reason : {"complete", "aborted"}]
    \cup [type : {"capture_health"}, status : {"ok", "degraded", "lost"}]

Events == [eventId : Nat, seq : Nat, sure : BOOLEAN, payload : Payloads]

Picked(d) == d.picks["radiant"] \cup d.picks["dire"]
Held(d) == d.banned \cup Picked(d)

----------------------------------------------------------------------------
(* The rejections. The reason is only reported; any of them leaves the     *)
(* draft as it is.                                                         *)

Duplicate(d, e) == e.eventId \in d.applied

(* Mutant: two events may carry one number.                                *)
StaleBefore(d, e) == e.payload.type # "pick_reverted" /\ e.seq < d.lastSeq

(* A correction is never stale.                                            *)
Stale(d, e) == e.payload.type # "pick_reverted" /\ e.seq <= d.lastSeq

WrongPhase(d, e) == d.phase # (IF e.payload.type = "session_started" THEN "idle" ELSE "active")

TakesHero(e) == e.payload.type \in {"hero_banned", "hero_picked"}

HeroTaken(d, e) == TakesHero(e) /\ e.payload.hero \in Held(d)
RosterFull(d, e) ==
  e.payload.type = "hero_picked" /\ Cardinality(d.picks[e.payload.side]) >= MAX_PICKS_PER_SIDE

Accepts(d, e) ==
  ~Duplicate(d, e) /\ ~Stale(d, e) /\ ~WrongPhase(d, e) /\ ~HeroTaken(d, e) /\ ~RosterFull(d, e)

----------------------------------------------------------------------------
(* The effects                                                             *)

MarkUnconfirmed(d, e) ==
  IF e.sure THEN d ELSE [d EXCEPT !.unconfirmed = @ \cup {e.payload.hero}]

(* Mutant: the doubt stays when its hero goes.                             *)
RevertKeepsDoubt(d, side, hero) ==
  [ d EXCEPT !.banned = @ \ {hero},
             !.picks = IF hero \in d.banned THEN @
                         ELSE [d.picks EXCEPT ![side] = d.picks[side] \ {hero}] ]

(* A ban of the hero goes first. The doubt goes even when the hero is on   *)
(* the other side and stays.                                               *)
RevertHero(d, side, hero) ==
  [ d EXCEPT !.banned = @ \ {hero},
             !.picks = IF hero \in d.banned THEN @
                         ELSE [d.picks EXCEPT ![side] = d.picks[side] \ {hero}],
             !.unconfirmed = @ \ {hero} ]

Effect(d, e) ==
  LET p == e.payload IN
  CASE p.type = "session_started" -> [d EXCEPT !.phase = "active"]
    [] p.type = "local_side_identified" -> [d EXCEPT !.localSide = p.side]
    [] p.type = "hero_banned" -> MarkUnconfirmed([d EXCEPT !.banned = @ \cup {p.hero}], e)
    [] p.type = "hero_picked" -> MarkUnconfirmed([d EXCEPT !.picks[p.side] = @ \cup {p.hero}], e)
    [] p.type = "pick_reverted" -> RevertHero(d, p.side, p.hero)
    [] p.type = "session_ended" -> [d EXCEPT !.phase = p.reason]
    [] p.type = "capture_health" -> [d EXCEPT !.captureStatus = p.status]

Accept(d, e) ==
  [ Effect(d, e) EXCEPT !.lastSeq = IF e.seq > @ THEN e.seq ELSE @,
                        !.applied = @ \cup {e.eventId} ]

ApplyDraftEvent(d, e) == IF Accepts(d, e) THEN Accept(d, e) ELSE d

----------------------------------------------------------------------------
(* What every draft the reducer returns satisfies: a hero is banned or     *)
(* picked, by one side; no side has more picks than a roster; a doubt is   *)
(* about a hero on the board.                                              *)
DraftSound(d) ==
  /\ d.banned \cap Picked(d) = {}
  /\ d.picks["radiant"] \cap d.picks["dire"] = {}
  /\ \A s \in Sides : Cardinality(d.picks[s]) <= MAX_PICKS_PER_SIDE
  /\ d.unconfirmed \subseteq Held(d)
=============================================================================
