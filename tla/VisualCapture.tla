--------------------------- MODULE VisualCapture ---------------------------
(***************************************************************************)
(* The visual capture helper (scripts/live/visual-capture/d2vc: cli.py,    *)
(* session.py, transport.py) composed with the live session it feeds, the  *)
(* game it watches and the network between.                                *)
(*                                                                         *)
(* The helper is one loop: it looks at a frame, queues what the frame      *)
(* confirms, posts the queue in order until a post fails, and only then    *)
(* looks at the draft lifecycle the answers carried. A post may not reach  *)
(* the engine, or its answer may be lost after the engine has acted; both  *)
(* are posted again with the same event id. The engine may restart and     *)
(* forget everything; the game reports its phase at times of its own.      *)
(*                                                                         *)
(*   game      the draft on screen: its number, the phase the game is in,  *)
(*             the cards locked so far, each [side, slot, heroId]          *)
(*   helper    open, epoch: the draft it believes in; armed, baseline: the *)
(*             cards already shown when it took its baseline, never read;  *)
(*             confirmed: the cards it has read; word: its last health;    *)
(*             lifecycle: the last answer; pc: where its loop is           *)
(*   queue     the Outbox; each envelope also carries, for the properties, *)
(*             the draft it was read in and the cards then on screen       *)
(*   answer    the engine's answer under way while pc is "answer"          *)
(*   vouched   the draft and cards of the last "ok" the engine took        *)
(*   restarts  restarts of the engine so far. Answers, the helper and      *)
(*             envelopes carry, for the properties, the life: the number   *)
(*             of restarts when the engine's answer was given              *)
(*   reported  for the properties, the draft of the game whose report      *)
(*             began the draft the engine is in                            *)
(***************************************************************************)
EXTENDS LiveCapture

CONSTANTS
  CardsOf,      \* the cards each draft of the game will lock, [side, slot, heroId]
  MaxQueue,     \* bound: envelopes queued, well below MAX_QUEUE (200)
  MaxRestarts   \* bound: restarts of the engine

(* A draft locks one card in a slot, and a hero in one slot. Event ids are *)
(* uuids: there is always one that is neither queued nor remembered.       *)
ASSUME CardsAssumption ==
  /\ CardsOf \in Seq(SUBSET [side : Sides, slot : 0..(MAX_LIVE_PICKS_PER_SIDE - 1), heroId : Heroes])
  /\ \A n \in DOMAIN CardsOf : \A c, d \in CardsOf[n] :
       c.heroId = d.heroId \/ (c.side = d.side /\ c.slot = d.slot) => c = d
ASSUME VisualBoundsAssumption ==
  /\ MaxQueue \in Nat /\ MaxRestarts \in Nat /\ Len(CardsOf) <= MaxEpochs
  /\ IsFiniteSet(EventIds) /\ Cardinality(EventIds) >= MaxQueue + MAX_REMEMBERED_EVENT_IDS

VARIABLES game, helper, queue, answer, vouched, restarts, reported

helperVars == <<helper, queue, answer>>
toldVars == <<vouched, restarts, reported>>
vars == <<session, entry, linked, game, helperVars, toldVars>>

NoAnswer == [phase |-> "none", epoch |-> 0, life |-> 0]
NoVouch == [epoch |-> 0, life |-> 0, cards |-> {}]
Cards == UNION {CardsOf[n] : n \in DOMAIN CardsOf}

----------------------------------------------------------------------------
(* The game, and what its integration reports of it                        *)

GameUpdate ==
  [ phase |-> game.phase, matchKey |-> game.draft, side |-> NoSide,
    ownHero |-> NoHero, bans |-> <<>>, picks |-> <<>>, draftBlock |-> FALSE ]

NextDraft ==
  /\ game.phase # "draft" /\ game.draft < Len(CardsOf)
  /\ game' = [draft |-> game.draft + 1, phase |-> "draft", locked |-> {}]
  /\ UNCHANGED <<session, entry, linked, helperVars, toldVars>>

Lock(card) ==
  /\ game.phase = "draft" /\ card \in CardsOf[game.draft] \ game.locked
  /\ game' = [game EXCEPT !.locked = @ \cup {card}]
  /\ UNCHANGED <<session, entry, linked, helperVars, toldVars>>

DraftEnds ==
  /\ game.phase = "draft"
  /\ game' = [game EXCEPT !.phase = "match"]
  /\ UNCHANGED <<session, entry, linked, helperVars, toldVars>>

Epoch(e) == IF e = NoEntry THEN 0 ELSE e.draftEpoch

GameReports ==
  /\ PostGsi(GameUpdate)
  /\ reported' = IF Epoch(entry') = Epoch(entry) THEN reported ELSE game.draft
  /\ UNCHANGED <<game, helperVars, vouched, restarts>>

EngineCrashes ==
  /\ restarts < MaxRestarts
  /\ EngineRestarts
  /\ restarts' = restarts + 1
  /\ vouched' = NoVouch /\ reported' = 0
  /\ UNCHANGED <<game, helperVars>>

----------------------------------------------------------------------------
(* A frame (session.process, tick_no_frame)                                *)

(* Event ids are uuids; one that is neither queued nor remembered will do. *)
FreshIds ==
  EventIds \ ({queue[i].eventId : i \in DOMAIN queue}
                \cup (IF entry = NoEntry THEN {} ELSE ToSet(entry.eventOrder)))

Shown == IF helper.open /\ game.phase = "draft" THEN game.locked ELSE {}

(* The envelopes of some payloads, as the factory stamps them.             *)
Stamped(payloads) ==
  LET ids == SetToSeq(FreshIds) IN
  [i \in DOMAIN payloads |->
     [eventId |-> ids[i], source |-> "ocr", payload |-> payloads[i],
      epoch |-> helper.epoch, life |-> helper.life, cards |-> Shown]]

Health(word) == [type |-> "capture_health", status |-> word]
Silent == "silent"
Said(word) == IF word = Silent THEN <<>> ELSE <<Health(word)>>

(* Mutant: a new baseline is awaited, but the readings are kept.           *)
RearmedGateOnly(h) == [h EXCEPT !.armed = FALSE, !.baseline = {}, !.word = Silent]

(* rearm: the baseline and every reading are forgotten.                    *)
Rearmed(h) == [h EXCEPT !.armed = FALSE, !.baseline = {}, !.confirmed = {}, !.word = Silent]

(* Mutant: cards already shown when the baseline was taken do not count.   *)
SettledButBaseline(h) ==
  h.armed /\ game.phase = "draft" /\ game.locked \subseteq h.confirmed \cup h.baseline

(* Every card on screen is one the helper has read.                        *)
Settled(h) == h.armed /\ game.phase = "draft" /\ game.locked \subseteq h.confirmed

(* _health, with the grace and the heartbeat as choices: never a fresh     *)
(* "ok" for a frame it cannot verify, nor while a locked card is unread.   *)
Words(h) ==
  CASE ~(h.armed /\ game.phase = "draft") -> {Silent, "other"}
    [] Settled(h) -> IF h.word = "ok" THEN {Silent, "ok"} ELSE {"ok"}
    [] OTHER -> IF h.word = Silent THEN {"other"} ELSE {Silent, "unread"}

(* submit: what a frame confirms is queued, its health after it.           *)
Submit(h, payloads, word) ==
  /\ Len(queue) + Len(payloads) + 1 <= MaxQueue
  /\ queue' = queue \o Stamped(payloads \o Said(word))
  /\ helper' = [h EXCEPT !.pc = "flush", !.word = IF word = Silent THEN @ ELSE word]
  /\ UNCHANGED <<session, entry, linked, game, answer, toldVars>>

(* Outside a draft nothing is read: a heartbeat asks for the lifecycle.    *)
Probe == helper.pc = "frame" /\ ~helper.open /\ Submit(helper, <<>>, "ok")

(* The baseline: what is on screen now will never be read.                 *)
Arm ==
  /\ helper.pc = "frame" /\ helper.open /\ ~helper.armed /\ game.phase = "draft"
  /\ LET h == [helper EXCEPT !.armed = TRUE, !.baseline = game.locked] IN
     \E word \in Words(h) : Submit(h, <<>>, word)

Replaced(card) == {c \in helper.confirmed : c.side = card.side /\ c.slot = card.slot}

(* A locked card becomes certain. A card confirmed before in its slot is   *)
(* reverted; a hero confirmed in another slot is not believed.             *)
Read(card) ==
  /\ helper.pc = "frame" /\ helper.open /\ helper.armed /\ game.phase = "draft"
  /\ card \in game.locked \ (helper.baseline \cup helper.confirmed)
  /\ \A c \in helper.confirmed \ Replaced(card) : c.heroId # card.heroId
  /\ LET h == [helper EXCEPT !.confirmed = (@ \ Replaced(card)) \cup {card}]
         reverts == SetToSeq({Revert(c.side, c.heroId) : c \in Replaced(card)})
     IN \E word \in Words(h) :
          Submit(h, Append(reverts, Pick(card.side, card.heroId, NoPosition)), word)

(* A frame that confirms nothing new.                                      *)
Look ==
  /\ helper.pc = "frame" /\ helper.open
  /\ \E word \in Words(helper) : Submit(helper, <<>>, word)

(* A closed helper between two probes only retries its queue.              *)
Retry ==
  /\ helper.pc = "frame" /\ ~helper.open /\ queue # <<>>
  /\ helper' = [helper EXCEPT !.pc = "flush"]
  /\ UNCHANGED <<session, entry, linked, game, queue, answer, toldVars>>

(* The window is lost: reported, and nothing that comes back is trusted.   *)
CaptureLost ==
  /\ helper.pc = "frame"
  /\ Submit(Rearmed(helper), <<>>, "other")

(* The window's geometry changed: the baseline is worthless.               *)
GeometryChanged ==
  /\ helper.pc = "frame" /\ helper.open /\ helper.armed
  /\ Submit(Rearmed(helper), <<>>, Silent)

----------------------------------------------------------------------------
(* The Outbox (transport.py), and the lifecycle its answers carry           *)

Drafting == helper.lifecycle.phase = "hero_selection"
Opens == Drafting /\ (~helper.open \/ helper.lifecycle.epoch # helper.epoch)
Closes == helper.lifecycle # NoAnswer /\ ~Drafting /\ helper.open

(* Mutant: what is still queued is posted whatever draft it is from.       *)
KeepAll(envelopes) == envelopes

(* discard_facts: only health stays queued.                                *)
DiscardFacts(envelopes) ==
  LET kept[n \in 0..Len(envelopes)] ==
        IF n = 0 THEN <<>>
        ELSE IF envelopes[n].payload.type = "capture_health"
             THEN Append(kept[n - 1], envelopes[n]) ELSE kept[n - 1]
  IN kept[Len(envelopes)]

(* on_lifecycle, once the posting is over: a draft boundary re-arms.       *)
OnLifecycle ==
  /\ helper' = [ (IF Opens \/ Closes THEN Rearmed(helper) ELSE helper) EXCEPT
                   !.pc = "frame",
                   !.open = (@ \/ Opens) /\ ~Closes,
                   !.epoch = IF Opens THEN helper.lifecycle.epoch ELSE @,
                   !.life = IF Opens THEN helper.lifecycle.life ELSE @ ]
  /\ queue' = IF Opens \/ Closes THEN DiscardFacts(queue) ELSE queue
  /\ answer' = NoAnswer
  /\ UNCHANGED <<session, entry, linked, game, toldVars>>

(* The queue is empty, or its first envelope does not reach the engine.    *)
NothingToPost == helper.pc = "flush" /\ queue = <<>> /\ OnLifecycle
PostLost == helper.pc = "flush" /\ queue # <<>> /\ OnLifecycle

IsOk(e) == e.payload = Health("ok")
Vouch(e) == [epoch |-> e.epoch, life |-> e.life, cards |-> e.cards]

(* postVisual: the engine takes the first envelope and answers the phase   *)
(* and number of its draft.                                                *)
PostReaches ==
  /\ helper.pc = "flush" /\ queue # <<>>
  /\ PostVisual(Head(queue))
  /\ answer' = [phase |-> DraftPhase(entry'), epoch |-> entry'.draftEpoch, life |-> restarts]
  /\ helper' = [helper EXCEPT !.pc = "answer"]
  /\ vouched' = IF IsOk(Head(queue)) THEN Vouch(Head(queue)) ELSE vouched
  /\ UNCHANGED <<game, queue, restarts, reported>>

AnswerArrives ==
  /\ helper.pc = "answer"
  /\ queue' = Tail(queue)
  /\ helper' = [helper EXCEPT !.pc = "flush", !.lifecycle = answer]
  /\ answer' = NoAnswer
  /\ UNCHANGED <<session, entry, linked, game, toldVars>>

(* A timeout: the engine has acted, the helper will post it again.         *)
AnswerLost == helper.pc = "answer" /\ OnLifecycle

----------------------------------------------------------------------------
VisualInit ==
  /\ Init
  /\ game = [draft |-> 0, phase |-> "idle", locked |-> {}]
  /\ helper = [ open |-> FALSE, epoch |-> 0, life |-> 0, armed |-> FALSE, baseline |-> {},
                confirmed |-> {}, word |-> Silent, lifecycle |-> NoAnswer, pc |-> "frame" ]
  /\ queue = <<>> /\ answer = NoAnswer
  /\ vouched = NoVouch /\ restarts = 0 /\ reported = 0

VisualNext ==
  \/ NextDraft
  \/ \E card \in Cards : Lock(card)
  \/ DraftEnds
  \/ GameReports
  \/ EngineCrashes
  \/ Probe
  \/ Arm
  \/ \E card \in Cards : Read(card)
  \/ Look
  \/ Retry
  \/ CaptureLost
  \/ GeometryChanged
  \/ NothingToPost
  \/ PostLost
  \/ PostReaches
  \/ AnswerArrives
  \/ AnswerLost

VisualSpec == VisualInit /\ [][VisualNext]_vars

----------------------------------------------------------------------------
(* Properties                                                              *)

VisualTypeOK ==
  /\ TypeOK
  /\ game.draft \in 0..Len(CardsOf) /\ game.phase \in {"idle", "draft", "match"}
  /\ game.locked \subseteq Cards
  /\ helper.baseline \cap helper.confirmed = {}
  /\ helper.armed => helper.open
  /\ helper.baseline \cup helper.confirmed # {} => helper.armed
  /\ helper.pc \in {"frame", "flush", "answer"}
  /\ helper.pc = "answer" <=> answer # NoAnswer
  /\ Len(queue) <= MaxQueue /\ restarts \in 0..MaxRestarts
  /\ IsInjective([i \in DOMAIN queue |-> queue[i].eventId])
  /\ helper.pc = "answer" => queue # <<>>

(* The helper's word "the draft on screen is fully read", taken by the     *)
(* engine in the draft it was said of, is what lets it recommend on a game *)
(* that tells nothing of the other picks.                                  *)
Known(card) == HasPick(entry.facts, card.side, card.heroId)
Vouched ==
  /\ Available /\ entry.visual = "ok" /\ DraftPhase(entry) = "hero_selection"
  /\ vouched.epoch = entry.draftEpoch
VouchedAndShown == vouched.cards \cap game.locked

(* A fact of an earlier draft is among those of this one.                  *)
StaleFactTaken ==
  \E k \in FactPicks(entry.facts) :
    \A card \in CardsOf[game.draft] : k # [side |-> card.side, heroId |-> card.heroId]

(* The word never comes before the facts, however posts, answers, re-arms  *)
(* and restarts fell out: while the engine is in the draft on screen,      *)
(* every card that was shown when the word was said is a fact, unless the  *)
(* word is of an earlier life of the engine or a fact of an earlier draft  *)
(* has taken the place of one of this draft.                               *)
OkNeverOvertakes ==
  Vouched /\ vouched.life = restarts /\ reported = game.draft /\ ~StaleFactTaken =>
    \A card \in VouchedAndShown : Known(card)

(* What the comment on liveRecommendationReadiness says of an available    *)
(* recommendation, "only that what the game shows is what we know", once   *)
(* the helper has nothing left to say. An engine that restarts within a    *)
(* draft counts its drafts from 0 again: the helper sees no boundary, says *)
(* no pick again, and vouches for cards the engine has never heard of.     *)
OkMeansKnown ==
  Vouched /\ helper.open /\ queue = <<>> => \A card \in VouchedAndShown : Known(card)

(* A fact of a draft the helper knows to be over is never posted: a pick   *)
(* enters the facts of a later draft only while no answer the helper has   *)
(* acted on told it of the boundary.                                       *)
StaleFactOnlyUnaware ==
  [][ \A card \in Cards :
        PostReaches /\ ~(entry # NoEntry /\ Known(card)) /\ Known(card)' =>
          LET e == Head(queue) IN
          \/ e.epoch = entry'.draftEpoch /\ e.life = restarts
          \/ e.epoch = helper.epoch /\ e.life = helper.life ]_vars
=============================================================================
