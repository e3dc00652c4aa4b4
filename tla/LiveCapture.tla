---------------------------- MODULE LiveCapture ----------------------------
(***************************************************************************)
(* One live session: the registry of observed drafts                       *)
(* (live/live-capture-registry.ts) and what ProtocolSessionStore keeps of  *)
(* the session, reached by the routes of server/routes/live-gsi.ts and     *)
(* live-capture.ts and by the token-authenticated capturer (server/app.ts).*)
(*                                                                         *)
(* Dota's Game State Integration repeats its whole state in every update.  *)
(* Capturers (Overwolf, the visual helper) post envelopes, each with an id *)
(* of its own; any of the finitely many the constants name may arrive at   *)
(* any time, more than once, or never. The Player corrects facts by hand.  *)
(* No handler awaits between reading and writing, so each is one action.   *)
(*                                                                         *)
(*   session   the stored session or NoSession: its owner, the seat the    *)
(*             Player declared, the side assumed or reported, and the      *)
(*             draft and bindings last installed                           *)
(*   entry     the registry's record or NoEntry: facts, remembered event   *)
(*             ids, health of the capture, life of the draft, the facts    *)
(*             the Player removed                                          *)
(*   linked    the Dota link of this session has not been revoked          *)
(***************************************************************************)
EXTENDS LiveFacts

CONSTANTS
  Accounts,                  \* accounts that may open the session
  LinkAccount,               \* the account the Dota link was issued to
  Envelopes,                 \* [eventId, source, payload] capturers may post
  GsiUpdates,                \* normalized updates the game may post
  ManualObservations,        \* what the Player may report by hand
  MAX_REMEMBERED_EVENT_IDS,  \* 4096 in the code
  MaxEpochs                  \* bound: drafts started on one session

ASSUME LiveAssumption ==
  /\ LinkAccount \in Accounts
  /\ MAX_REMEMBERED_EVENT_IDS \in Nat /\ MaxEpochs \in Nat

(* What gets through the parsing of each source.                           *)
CaptureHealth(words) == [type : {"capture_health"}, status : words]
Parsed(e) ==
  \/ e.payload \in Observations
  \/ e.source = "ocr" /\ e.payload \in CaptureHealth({"ok", "unread", "other"})
  \/ e.source # "ocr" /\ e.payload \in CaptureHealth({"ok", "other"})
  \/ e.source # "ocr" /\ e.payload = [type |-> "session_ended"]
Normalized ==
  [ phase : {"idle", "loading", "draft", "match"}, matchKey : Nat, side : Sides \cup {NoSide},
    ownHero : Heroes \cup {NoHero}, bans : Seq(Heroes),
    picks : Seq([side : Sides, heroId : Heroes]), draftBlock : BOOLEAN ]

ASSUME EnvelopesAssumption == \A e \in Envelopes : Parsed(e)
ASSUME GsiAssumption == GsiUpdates \subseteq Normalized
ASSUME ManualAssumption == ManualObservations \subseteq Observations

VARIABLES session, entry, linked

liveVars == <<session, entry, linked>>

NoAccount == "nobody"
NoMatch == 0
NoSession == [stored |-> FALSE]
NoEntry == [known |-> FALSE]
EventIds == {e.eventId : e \in Envelopes}

(* createRankedAllPickState through store.create: no seat, radiant.        *)
NewSession(account) ==
  [ stored |-> TRUE, owner |-> account, humanPosition |-> NoPosition,
    localSide |-> "radiant", draft |-> NewDraft, bindings |-> {} ]

FreshEntry ==
  [ known |-> TRUE, facts |-> EmptyLiveFacts, eventOrder |-> <<>>,
    capture |-> "unknown", visual |-> "none", draftBlock |-> FALSE,
    ended |-> FALSE, deferred |-> 0, rejected |-> 0,
    matchKey |-> NoMatch, draftEpoch |-> 0, suppressed |-> {} ]

(* The value every handler is a function of.                               *)
State == [session |-> session, entry |-> entry]
Becomes(s) == session' = s.session /\ entry' = s.entry

----------------------------------------------------------------------------
(* Rebuilding the session from the facts                                   *)

(* installLiveState keeps the bindings of slots the draft has sealed.      *)
OwnSealed(d, side, b) ==
  \/ d.round = b.round /\ \E e \in d.sealed : e.side = side /\ e.slotIndex = b.slotIndex
  \/ \E p \in d.confirmedPicks : p.round = b.round /\ p.side = side /\ p.slotIndex = b.slotIndex

(* installLiveState and what the entry notes of the replay.                *)
Install(s, replay) ==
  [ session |-> [s.session EXCEPT
      !.localSide = replay.localSide,
      !.draft = replay.draft,
      !.bindings = {b \in replay.ownBindings : OwnSealed(replay.draft, replay.localSide, b)}],
    entry |-> [s.entry EXCEPT !.deferred = Len(replay.deferred),
                              !.rejected = replay.rejected] ]

(* rebuild                                                                 *)
Rebuild(s) ==
  IF s.session = NoSession THEN s
  ELSE Install(s, ReplayLiveFacts(s.entry.facts, s.session.localSide, s.session.humanPosition))

(* Mutant: a session whose history was forgotten keeps its old draft.      *)
EnsureWithoutRebuild(s, account) ==
  IF s.session = NoSession
  THEN [session |-> NewSession(account), entry |-> FreshEntry]
  ELSE IF s.entry = NoEntry THEN [s EXCEPT !.entry = FreshEntry]
  ELSE s

(* ensureSession up to the claim: the session and its entry exist.         *)
Ensure(s, account) ==
  IF s.session = NoSession
  THEN [session |-> NewSession(account), entry |-> FreshEntry]
  ELSE IF s.entry = NoEntry THEN Rebuild([s EXCEPT !.entry = FreshEntry])
  ELSE s

(* claimOwner: the first account to come owns an unowned session.          *)
Claim(s, account) ==
  IF s.session.owner = NoAccount THEN [s EXCEPT !.session.owner = account] ELSE s

Claimed(account) == Claim(Ensure(State, account), account)

(* Mutant: the declared seat survives into the next draft.                 *)
RestartKeepsSeat(s) ==
  [s EXCEPT !.entry = [FreshEntry EXCEPT !.eventOrder = s.entry.eventOrder,
                                         !.capture = s.entry.capture,
                                         !.visual = s.entry.visual,
                                         !.draftEpoch = s.entry.draftEpoch]]

(* A fresh draft on the same session, and no seat declared for it yet.     *)
Restart(s) ==
  [ session |-> [s.session EXCEPT !.humanPosition = NoPosition],
    entry |-> [FreshEntry EXCEPT !.eventOrder = s.entry.eventOrder,
                                 !.capture = s.entry.capture,
                                 !.visual = s.entry.visual,
                                 !.draftEpoch = s.entry.draftEpoch] ]

(* applyFact: the facts after one observation. A draft reported to start   *)
(* after the last one ended, or was completed, starts from nothing.        *)
ApplyFact(s, o) ==
  LET starts == o.type = "draft_started"
      over == s.entry.ended \/ s.session.draft.status = "COMPLETE"
      t == IF starts /\ over THEN Restart(s) ELSE s
      facts == ApplyLiveObservation(t.entry.facts, o)
      begins == starts /\ ~t.entry.facts.started
  IN IF facts = t.entry.facts THEN t
     ELSE [t EXCEPT !.entry.facts = facts,
                    !.entry.ended = @ /\ ~starts,
                    !.entry.draftEpoch = IF begins THEN @ + 1 ELSE @]

(* applyObservation: one rebuild when the facts changed.                   *)
ApplyObservation(s, o) ==
  LET t == ApplyFact(s, o) IN IF t = s THEN s ELSE Rebuild(t)

----------------------------------------------------------------------------
(* Envelopes of the capturers (ingestEnvelope, ingestVisual)               *)

FactKeys(facts) ==
  {[side |-> NoSide, heroId |-> h] : h \in facts.bans}
    \cup {[side |-> facts.picks[i].side, heroId |-> facts.picks[i].heroId] : i \in DOMAIN facts.picks}

(* factKey: what an observation is about, for those about a ban or a pick. *)
KeysOf(o) ==
  CASE o.type \in {"ban", "unban"} -> {[side |-> NoSide, heroId |-> o.heroId]}
    [] o.type \in {"pick", "revert"} -> {[side |-> o.side, heroId |-> o.heroId]}
    [] OTHER -> {}

Suppressed(s, o) == KeysOf(o) \cap s.entry.suppressed # {}

(* Mutant: nothing is ever forgotten.                                      *)
RememberAll(ids, id) == Append(ids, id)

(* rememberEventId                                                         *)
Remember(ids, id) ==
  IF Len(ids) < MAX_REMEMBERED_EVENT_IDS THEN Append(ids, id) ELSE Tail(Append(ids, id))

VisualPayloads == {"pick", "revert", "ban", "capture_health"}

(* Any word from the helper that is not its health counts as life.         *)
VisualAlive(visual) == IF visual \in {"none", "ok_stale"} THEN "ok" ELSE visual

VisualFact(s, o) ==
  LET t == [s EXCEPT !.entry.visual = VisualAlive(@)] IN
  IF ~t.entry.facts.started \/ t.entry.ended \/ Suppressed(t, o) THEN t
  ELSE ApplyObservation(t, o)

IngestVisual(s, payload) ==
  CASE payload.type \notin VisualPayloads -> s
    [] payload.type = "capture_health" -> [s EXCEPT !.entry.visual = payload.status]
    [] OTHER -> VisualFact(s, payload)

(* Overwolf also reports the life of the draft. It does not look at what   *)
(* the Player removed.                                                     *)
IngestOverwolf(s, payload) ==
  CASE payload.type = "capture_health" -> [s EXCEPT !.entry.capture = payload.status]
    [] payload.type = "session_ended" -> [s EXCEPT !.entry.ended = TRUE]
    [] OTHER -> ApplyObservation(s, payload)

IngestEnvelope(s, e) ==
  LET t == [s EXCEPT !.entry.eventOrder = Remember(@, e.eventId)] IN
  IF e.eventId \in ToSet(s.entry.eventOrder) THEN s
  ELSE IF e.source = "ocr" THEN IngestVisual(t, e.payload)
  ELSE IngestOverwolf(t, e.payload)

----------------------------------------------------------------------------
(* Updates of the game (ingestGsi)                                         *)

(* observationsFromGsi: what one update of hero selection states.          *)
ObservationsFromGsi(u) ==
  LET sided == u.side # NoSide
      own == sided /\ u.ownHero # NoHero
  IN <<DraftStarted, BansClosed>>
       \o (IF sided THEN <<SideIs(u.side)>> ELSE <<>>)
       \o [i \in DOMAIN u.bans |-> Ban(u.bans[i])]
       \o [i \in DOMAIN u.picks |-> Pick(u.picks[i].side, u.picks[i].heroId, NoPosition)]
       \o (IF own THEN <<LocalPick(u.side, u.ownHero)>> ELSE <<>>)
       \o <<LocalHero(IF sided THEN u.ownHero ELSE NoHero)>>

(* Mutant: an update states again what the Player removed.                 *)
GsiFactAlways(s, o) ==
  IF o.type = "draft_started" /\ s.entry.facts.started THEN s ELSE ApplyFact(s, o)

(* A repeated "hero selection" never restarts, a removed fact stays out.   *)
GsiFact(s, o) ==
  IF (o.type = "draft_started" /\ s.entry.facts.started) \/ Suppressed(s, o) THEN s
  ELSE ApplyFact(s, o)

StateAll(s, observations) ==
  LET after[n \in 0..Len(observations)] ==
        IF n = 0 THEN s ELSE GsiFact(after[n - 1], observations[n])
  IN after[Len(observations)]

(* Another match, or hero selection after the draft was over.              *)
StartsOver(e, u) ==
  /\ u.phase = "draft"
  /\ \/ NoMatch \notin {u.matchKey, e.matchKey} /\ u.matchKey # e.matchKey
     \/ e.ended

(* Without a draft block so far the capture is partial; outside the draft  *)
(* a partial or unknown capture is fine again.                             *)
CaptureAfter(e, u) ==
  IF u.phase = "draft"
  THEN IF e.draftBlock \/ u.draftBlock THEN "ok" ELSE "partial"
  ELSE IF e.capture \in {"partial", "unknown"} THEN "ok" ELSE e.capture

NoteUpdate(e, u) ==
  [ e EXCEPT !.matchKey = IF u.phase = "draft" /\ u.matchKey # NoMatch THEN u.matchKey ELSE @,
             !.ended = @ \/ (u.phase \in {"match", "idle"} /\ e.facts.started),
             !.draftBlock = @ \/ (u.phase = "draft" /\ u.draftBlock),
             !.capture = CaptureAfter(e, u) ]

IngestGsi(s, u) ==
  LET t == IF StartsOver(s.entry, u) THEN Restart(s) ELSE s
      noted == [t EXCEPT !.entry = NoteUpdate(t.entry, u)]
      stated == IF u.phase = "draft" THEN StateAll(noted, ObservationsFromGsi(u)) ELSE noted
  IN IF stated = noted THEN noted ELSE Rebuild(stated)

----------------------------------------------------------------------------
(* The Player's corrections (observe)                                      *)

Removes(o) == o.type \in {"unban", "revert"}

(* A removal that took effect sticks; stating the fact again lifts it.     *)
SuppressedAfter(before, after, o) ==
  IF ~Removes(o) THEN after.entry.suppressed \ KeysOf(o)
  ELSE IF after.entry.facts = before.entry.facts THEN after.entry.suppressed
  ELSE after.entry.suppressed \cup KeysOf(o)

Observe(s, o) ==
  LET t == ApplyObservation(s, o) IN [t EXCEPT !.entry.suppressed = SuppressedAfter(s, t, o)]

----------------------------------------------------------------------------
(* The recommendation gate (liveRecommendationReadiness, captureOf)        *)

(* A live and healthy helper supplies what the game leaves out.            *)
Capture(e) == IF e.visual = "ok" /\ e.capture \in {"partial", "unknown"} THEN "ok" ELSE e.capture

Available ==
  /\ session # NoSession /\ entry # NoEntry
  /\ entry.visual # "unread"
  /\ Capture(entry) # "partial"
  /\ entry.deferred = 0 /\ entry.rejected = 0

(* visualAck: the helper's view of the life of the draft.                  *)
DraftPhase(e) ==
  IF e.ended THEN "ended" ELSE IF e.facts.started THEN "hero_selection" ELSE "waiting"

----------------------------------------------------------------------------
(* Actions                                                                 *)

Init == session = NoSession /\ entry = NoEntry /\ linked = TRUE

(* postLiveSession: another account is answered 403, but the session and   *)
(* its entry exist afterwards.                                             *)
OpenLive(account) == Becomes(Claimed(account)) /\ UNCHANGED linked

(* The link's account claims; the handler runs when it owns the session.   *)
ThroughLink(Handler(_)) ==
  LET s == Claimed(LinkAccount) IN
  /\ linked
  /\ Becomes(IF s.session.owner = LinkAccount THEN Handler(s) ELSE s)
  /\ UNCHANGED linked

PostGsi(u) == ThroughLink(LAMBDA s : IngestGsi(s, u))

PostVisual(e) == e.source = "ocr" /\ ThroughLink(LAMBDA s : IngestEnvelope(s, e))

(* handleDraftEvent: the capture token names no account.                   *)
PostDraftEvent(e) ==
  Becomes(IngestEnvelope(Ensure(State, NoAccount), e)) /\ UNCHANGED linked

(* postLiveObservation: only on a session that exists.                     *)
PostObservation(o) ==
  /\ session # NoSession
  /\ Becomes(Observe(Ensure(State, NoAccount), o))
  /\ UNCHANGED linked

(* putHumanPosition: the seat, and a rebuild that binds it.                *)
PutHumanPosition(position) ==
  ThroughLink(LAMBDA s : Rebuild([s EXCEPT !.session.humanPosition = position]))

(* postIssue, deleteLink: the link is replaced or revoked, the history of  *)
(* this session forgotten; the session itself ages out.                    *)
Forget == linked /\ linked' = FALSE /\ entry' = NoEntry /\ UNCHANGED session

(* evictStale: nobody touched the session for its TTL.                     *)
Evict == session # NoSession /\ session' = NoSession /\ UNCHANGED <<entry, linked>>

(* Everything is in memory but the link, which is stored.                  *)
EngineRestarts ==
  /\ session # NoSession \/ entry # NoEntry
  /\ session' = NoSession /\ entry' = NoEntry
  /\ UNCHANGED linked

(* The helper's last word is older than LIVE_STALE_AFTER_MS.               *)
VisualGoesStale ==
  /\ entry # NoEntry /\ entry.visual = "ok"
  /\ entry' = [entry EXCEPT !.visual = "ok_stale"]
  /\ UNCHANGED <<session, linked>>

WithinBounds == entry' # NoEntry => entry'.draftEpoch <= MaxEpochs

Next ==
  \/ \E account \in Accounts : OpenLive(account)
  \/ \E u \in GsiUpdates : PostGsi(u) /\ WithinBounds
  \/ \E e \in Envelopes : PostVisual(e)
  \/ \E e \in Envelopes : PostDraftEvent(e) /\ WithinBounds
  \/ \E o \in ManualObservations : PostObservation(o) /\ WithinBounds
  \/ \E position \in Positions \cup {NoPosition} : PutHumanPosition(position)
  \/ Forget
  \/ Evict
  \/ EngineRestarts
  \/ VisualGoesStale

Spec == Init /\ [][Next]_liveVars

----------------------------------------------------------------------------
(* Properties                                                              *)

TypeOK ==
  /\ session = NoSession \/ session \in
       [ stored : {TRUE}, owner : Accounts \cup {NoAccount},
         humanPosition : Positions \cup {NoPosition}, localSide : Sides, draft : Drafts,
         bindings : SUBSET [round : Rounds, slotIndex : Nat, assignedPosition : Positions,
                            provenance : {"EXPLICIT", "LOCAL_PLAYER"}] ]
  /\ entry = NoEntry \/
       /\ entry.facts \in LiveFactsSet
       /\ IsInjective(entry.eventOrder)
       /\ ToSet(entry.eventOrder) \subseteq EventIds
       /\ Len(entry.eventOrder) <= MAX_REMEMBERED_EVENT_IDS
       /\ entry.capture \in {"unknown", "ok", "partial", "other"}
       /\ entry.visual \in {"none", "ok", "ok_stale", "unread", "other"}
       /\ {entry.draftBlock, entry.ended} \subseteq BOOLEAN
       /\ {entry.deferred, entry.rejected} \subseteq Nat
       /\ entry.draftEpoch \in 0..MaxEpochs
       /\ entry.suppressed \subseteq [side : Sides \cup {NoSide}, heroId : Heroes]
  /\ linked \in BOOLEAN

Tracked == session # NoSession /\ entry # NoEntry
ShownSeals(d) ==
  {[side |-> e.side, heroId |-> e.heroId] : e \in d.sealed \cup d.confirmedPicks}
FactPicks(facts) == {k \in FactKeys(facts) : k.side # NoSide}

(* What the Player is advised on is what was observed: whatever the        *)
(* sources said, in whatever order, across restarts of the draft, of the   *)
(* engine, evictions and a forgotten history, the draft installed holds    *)
(* exactly the banned heroes and, but for the deferred picks, exactly the  *)
(* picks of the facts, and the kernel refused none of them.                *)
DraftShowsTheFacts ==
  Tracked =>
    LET shown == ShownSeals(session.draft) IN
    /\ session.draft.bannedHeroes = entry.facts.bans
    /\ shown \subseteq FactPicks(entry.facts)
    /\ Cardinality(FactPicks(entry.facts) \ shown) = entry.deferred
    /\ entry.rejected = 0

(* A side's seats in the first rounds; the rounds both sides can be in, as *)
(* far as the picks observed tell; and how many of a side's picks the last *)
(* of those has a seat for.                                                *)
SeatsThrough(r) == UNION {{k} \X (0..(ROUND_CAPACITY[k] - 1)) : k \in 1..r}
SlotsThrough(r) == Cardinality(SeatsThrough(r))
Reached(facts) ==
  {r \in Rounds : \A side \in Sides : Cardinality(PicksOfSide(facts, side)) >= SlotsThrough(r - 1)}
Placed(facts, side) ==
  IF ~Picking(facts) THEN 0
  ELSE Min({Cardinality(PicksOfSide(facts, side)), SlotsThrough(Max(Reached(facts)))})

(* A deferred pick proves that one was missed: picks wait exactly when one *)
(* side is past a round the other has not filled, never because of the     *)
(* order in which the sources happened to report them.                     *)
DeferredMeansMissing ==
  Tracked =>
    LET facts == entry.facts IN
    entry.deferred = Len(facts.picks) - Placed(facts, "radiant") - Placed(facts, "dire")

(* A position is bound to a hero only by what was said of that hero: the   *)
(* position a source stated of it, or the seat the Player declared for the *)
(* hero the game calls theirs; own picks only, no position twice, and no   *)
(* binding outlives a correction, a change of side or of seat.             *)
HeroAt(b) ==
  CHOOSE h \in Heroes :
    \/ /\ session.draft.round = b.round
       /\ [side |-> session.localSide, slotIndex |-> b.slotIndex, heroId |-> h] \in session.draft.sealed
    \/ [side |-> session.localSide, round |-> b.round, slotIndex |-> b.slotIndex, heroId |-> h]
         \in session.draft.confirmedPicks

SaidOf(h, b) ==
  IF b.provenance = "LOCAL_PLAYER"
  THEN h = entry.facts.localHeroId /\ b.assignedPosition = session.humanPosition
  ELSE [side |-> session.localSide, heroId |-> h, position |-> b.assignedPosition]
         \in ToSet(entry.facts.picks)

BindingsWereSaid ==
  Tracked =>
    /\ entry.facts.localSide \in {NoSide, session.localSide}
    /\ \A b \in session.bindings : SaidOf(HeroAt(b), b)
    /\ \A b, c \in session.bindings : b.assignedPosition = c.assignedPosition => b = c

(* A removal by the Player sticks for the rest of the draft: no update of  *)
(* the game and no word of the visual helper brings the fact back, only    *)
(* the Player's own or, unlike the others, an envelope of Overwolf or of   *)
(* another source than the helper.                                         *)
RemovalSticks ==
  [][ \A key \in (IF entry # NoEntry THEN entry.suppressed ELSE {}) :
        entry' # NoEntry /\ key \in FactKeys(entry'.facts) \ FactKeys(entry.facts) =>
          \/ key \notin entry'.suppressed
          \/ \E e \in Envelopes : e.source # "ocr" /\ PostDraftEvent(e) ]_liveVars

(* The next draft of a session starts without the Player's seat: it was    *)
(* declared for the draft before.                                          *)
NewDraftForgetsSeat ==
  [][ entry # NoEntry /\ entry' # NoEntry /\ entry.facts.started
        /\ entry'.draftEpoch > entry.draftEpoch
        => session'.humanPosition = NoPosition ]_liveVars
=============================================================================
