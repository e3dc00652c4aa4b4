------------------------- MODULE LiveCaptureProofs -------------------------
(***************************************************************************)
(* Theorems about LiveCapture: its types, what the Player is shown, which  *)
(* picks wait, what the bindings mean, which facts stay out and when the   *)
(* seat is forgotten, for every set of heroes, accounts and inputs.        *)
(*                                                                         *)
(* The inductive invariant: whenever a session and its entry both exist,   *)
(* what is installed is the replay of the entry's facts (Mirrors). Inside  *)
(* a handler it does not hold between a change of the facts and the        *)
(* rebuild, so handlers are followed through two predicates on the value   *)
(* they pass along: Fit, its types, and Steady, Fit and Mirrors.           *)
(***************************************************************************)
EXTENDS LiveCapture, LiveFactsProofs

Bindings ==
  [ round : Rounds, slotIndex : Nat, assignedPosition : Positions,
    provenance : {"EXPLICIT", "LOCAL_PLAYER"} ]
FactKeySet == [side : Sides \cup {NoSide}, heroId : Heroes]

SessionRecs ==
  [ stored : {TRUE}, owner : Accounts \cup {NoAccount},
    humanPosition : Positions \cup {NoPosition}, localSide : Sides, draft : Drafts,
    bindings : SUBSET Bindings ]

EntryRecs ==
  [ known : {TRUE}, facts : LiveFactsSet, eventOrder : Seq(EventIds),
    capture : {"unknown", "ok", "partial", "other"},
    visual : {"none", "ok", "ok_stale", "unread", "other"},
    draftBlock : BOOLEAN, ended : BOOLEAN, deferred : Nat, rejected : Nat,
    matchKey : Nat, draftEpoch : Nat, suppressed : SUBSET FactKeySet ]

GoodEntry(e) ==
  /\ e \in EntryRecs /\ SoundFacts(e.facts)
  /\ IsInjective(e.eventOrder) /\ Len(e.eventOrder) <= MAX_REMEMBERED_EVENT_IDS

Fits == {s \in [session : SessionRecs, entry : EntryRecs] : GoodEntry(s.entry)}

(* The session shows the replay of the facts.                              *)
Mirrors(s) ==
  LET r == ReplayPicks(s.entry.facts)
      own == OwnBindings(r.seals, s.session.localSide, s.session.humanPosition,
                         s.entry.facts.localHeroId)
  IN /\ s.entry.facts.localSide \in {NoSide, s.session.localSide}
     /\ s.session.draft = r.draft
     /\ s.session.bindings = {b \in own : OwnSealed(r.draft, s.session.localSide, b)}
     /\ s.entry.deferred = Len(r.pending) /\ s.entry.rejected = r.rejected

Steady(s) == s \in Fits /\ Mirrors(s)

(* Between two actions. A session may outlive its entry and an entry its   *)
(* session; only the two together must agree.                              *)
Good(s) ==
  /\ s = [session |-> s.session, entry |-> s.entry]
  /\ s.session # NoSession => s.session \in SessionRecs
  /\ s.entry # NoEntry => GoodEntry(s.entry)
  /\ (s.session # NoSession /\ s.entry # NoEntry) => Mirrors(s)

IInv ==
  /\ Good(State)
  /\ entry # NoEntry => entry.draftEpoch \in 0..MaxEpochs
  /\ linked \in BOOLEAN

----------------------------------------------------------------------------
(* Records                                                                 *)

LEMMA FitParts ==
  ASSUME NEW s \in Fits
  PROVE  /\ s.session \in SessionRecs /\ s.entry \in EntryRecs /\ GoodEntry(s.entry)
         /\ SoundFacts(s.entry.facts)
         /\ s = [session |-> s.session, entry |-> s.entry]
         /\ s.session # NoSession /\ s.entry # NoEntry
<1>1. s \in [session : SessionRecs, entry : EntryRecs] /\ GoodEntry(s.entry)
  BY DEF Fits
<1>2. s.session.stored = TRUE /\ s.entry.known = TRUE
  BY <1>1 DEF SessionRecs, EntryRecs
<1>3. s.session # NoSession /\ s.entry # NoEntry
  BY <1>2 DEF NoSession, NoEntry
<1>4. QED BY <1>1, <1>3 DEF GoodEntry

Counted(e, deferred, rejected) == [e EXCEPT !.deferred = deferred, !.rejected = rejected]

LEMMA CountsFit ==
  ASSUME NEW e \in EntryRecs, NEW d \in Nat, NEW r \in Nat
  PROVE  /\ Counted(e, d, r) \in EntryRecs
         /\ Counted(e, d, r).facts = e.facts
         /\ Counted(e, d, r).deferred = d
         /\ Counted(e, d, r).rejected = r
         /\ Counted(e, d, r).eventOrder = e.eventOrder
         /\ Counted(e, d, r).suppressed = e.suppressed
         /\ Counted(e, d, r).draftEpoch = e.draftEpoch
BY DEF EntryRecs, Counted

LEMMA FitOf ==
  ASSUME NEW n \in SessionRecs, NEW e, GoodEntry(e)
  PROVE  [session |-> n, entry |-> e] \in Fits
BY DEF Fits, GoodEntry

LEMMA FreshEntryIsGood == GoodEntry(FreshEntry)
<1>1. EmptyLiveFacts \in LiveFactsSet /\ EmptyLiveFacts.picks = <<>>
  BY DEF EmptyLiveFacts, LiveFactsSet
<1>2. SoundFacts(EmptyLiveFacts)
  BY <1>1 DEF SoundFacts, OnceEach, ToSet
<1>3. FreshEntry \in EntryRecs /\ FreshEntry.facts = EmptyLiveFacts /\ FreshEntry.eventOrder = <<>>
  BY <1>1 DEF FreshEntry, EntryRecs, NoMatch
<1>4. IsInjective(<<>>) /\ Len(<<>>) <= MAX_REMEMBERED_EVENT_IDS
  BY LiveAssumption DEF IsInjective
<1>5. QED BY <1>2, <1>3, <1>4 DEF GoodEntry

LEMMA NewSessionFits ==
  ASSUME NEW account \in Accounts \cup {NoAccount}
  PROVE  NewSession(account) \in SessionRecs
BY NewIsSound DEF NewSession, SessionRecs, Sound, Sides

(* Of a session and an entry that have just been created, the session is   *)
(* the replay of no facts.                                                 *)
LEMMA FreshIsSteady ==
  ASSUME NEW account \in Accounts \cup {NoAccount}
  PROVE  Steady([session |-> NewSession(account), entry |-> FreshEntry])
<1> DEFINE s == [session |-> NewSession(account), entry |-> FreshEntry]
           r == ReplayPicks(EmptyLiveFacts)
<1>1. s \in Fits
  BY FreshEntryIsGood, NewSessionFits, FitOf
<1>2. /\ s.entry.facts = EmptyLiveFacts /\ s.entry.deferred = 0 /\ s.entry.rejected = 0
      /\ s.session.draft = NewDraft /\ s.session.bindings = {}
  BY DEF FreshEntry, NewSession
<1>3. /\ EmptyLiveFacts.bans = {} /\ EmptyLiveFacts.picks = <<>> /\ ~EmptyLiveFacts.started
      /\ EmptyLiveFacts.localSide = NoSide
  BY DEF EmptyLiveFacts
<1>4. r = [draft |-> NewDraft, pending |-> <<>>, seals |-> <<>>, rejected |-> 0]
  BY <1>3 DEF ReplayPicks, Picking, WithBans
<1>5. \A side, p, h : OwnBindings(<<>>, side, p, h) = {}
  BY DEF OwnBindings, Explicit, LocalBound, Own
<1> HIDE DEF r, s
<1>6. Mirrors(s)
  BY <1>2, <1>3, <1>4, <1>5 DEF Mirrors, r
<1>7. QED BY <1>1, <1>6 DEF Steady, s

----------------------------------------------------------------------------
(* The rebuild                                                             *)

LEMMA RebuildMirrors ==
  ASSUME NEW s \in Fits
  PROVE  /\ Steady(Rebuild(s))
         /\ Rebuild(s).entry.facts = s.entry.facts
         /\ Rebuild(s).entry.suppressed = s.entry.suppressed
         /\ Rebuild(s).entry.draftEpoch = s.entry.draftEpoch
         /\ Rebuild(s).session.humanPosition = s.session.humanPosition
<1> DEFINE f == s.entry.facts
           r == ReplayPicks(f)
           side == IF f.localSide = NoSide THEN s.session.localSide ELSE f.localSide
           own == OwnBindings(r.seals, side, s.session.humanPosition, f.localHeroId)
           shown == {b \in own : OwnSealed(r.draft, side, b)}
           n == [s.session EXCEPT !.localSide = side, !.draft = r.draft, !.bindings = shown]
           e == [s.entry EXCEPT !.deferred = Len(r.pending), !.rejected = r.rejected]
<1>1. /\ s.session \in SessionRecs /\ s.entry \in EntryRecs /\ GoodEntry(s.entry) /\ SoundFacts(f)
      /\ s.session # NoSession
  BY FitParts
<1>2. Rebuild(s) = [session |-> n, entry |-> e]
  BY <1>1 DEF Rebuild, Install, ReplayLiveFacts
<1>3. Replaying(f, r)
  BY <1>1, ReplayedPicks
<1>4. r.draft \in Drafts /\ r.seals \in Seq(LiveSeals) /\ r.rejected = 0 /\ Len(r.pending) \in Nat
  BY <1>3 DEF Replaying
<1>5. f \in LiveFactsSet /\ s.session.localSide \in Sides
      /\ s.session.humanPosition \in Positions \cup {NoPosition}
  BY <1>1 DEF EntryRecs, SessionRecs
<1>6. side \in Sides /\ f.localSide \in {NoSide, side}
  BY <1>5 DEF LiveFactsSet
<1> HIDE DEF r, side
<1>7. own \in SUBSET Bindings
  BY <1>4, <1>5, OwnBindingsSay DEF Bindings
<1> HIDE DEF own
<1>8. shown \in SUBSET Bindings
  BY <1>7
<1> HIDE DEF shown
<1>9. /\ n \in SessionRecs /\ n.localSide = side /\ n.draft = r.draft /\ n.bindings = shown
      /\ n.humanPosition = s.session.humanPosition
  BY <1>1, <1>4, <1>6, <1>8 DEF SessionRecs
<1>10. /\ e \in EntryRecs /\ e.facts = f /\ e.deferred = Len(r.pending) /\ e.rejected = r.rejected
       /\ e.eventOrder = s.entry.eventOrder /\ e.suppressed = s.entry.suppressed
       /\ e.draftEpoch = s.entry.draftEpoch
  <2> DEFINE x == s.entry
             k == Len(r.pending)
             m == r.rejected
             c == Counted(x, k, m)
  <2>1. x \in EntryRecs /\ k \in Nat /\ m \in Nat
    BY <1>1, <1>4
  <2>2. e = c
    BY DEF Counted
  <2> HIDE DEF e, x, k, m
  <2>3. /\ c \in EntryRecs /\ c.facts = x.facts /\ c.deferred = k /\ c.rejected = m
        /\ c.eventOrder = x.eventOrder /\ c.suppressed = x.suppressed
        /\ c.draftEpoch = x.draftEpoch
    BY <2>1, CountsFit
  <2>4. QED BY <2>2, <2>3 DEF x, k, m
<1> HIDE DEF n, e
<1>11. [session |-> n, entry |-> e] \in Fits
  <2>1. GoodEntry(e)
    BY <1>1, <1>10 DEF GoodEntry
  <2>2. QED BY <1>9, <2>1, FitOf
<1>12. Mirrors([session |-> n, entry |-> e])
  BY <1>6, <1>9, <1>10 DEF Mirrors, r, own, shown
<1>13. QED BY <1>2, <1>9, <1>10, <1>11, <1>12 DEF Steady

----------------------------------------------------------------------------
(* One observation                                                         *)

(* Only the start of a draft starts one; nothing undoes it.                *)
LEMMA AppliedStarts ==
  ASSUME NEW f, SoundFacts(f), NEW o \in Observations
  PROVE  ApplyLiveObservation(f, o).started = (f.started \/ o.type = "draft_started")
<1> DEFINE g == ApplyLiveObservation(f, o)
<1>1. f \in LiveFactsSet /\ f.started \in BOOLEAN
  BY DEF SoundFacts, LiveFactsSet
<1>2. o.type \in {"draft_started", "side", "bans_closed", "local_hero", "ban", "unban", "revert", "pick"}
  BY ObservationTypes
<1>3. CASE o.type = "draft_started"
  BY <1>1, <1>3 DEF ApplyLiveObservation, LiveFactsSet
<1>4. CASE o.type \in {"side", "bans_closed", "local_hero"}
  BY <1>1, <1>4 DEF ApplyLiveObservation, LiveFactsSet
<1>5. CASE o.type = "ban"
  BY <1>1, <1>5 DEF ApplyLiveObservation, ApplyBan, LiveFactsSet
<1>6. CASE o.type = "unban"
  BY <1>1, <1>6 DEF ApplyLiveObservation, LiveFactsSet
<1>7. CASE o.type = "revert"
  BY <1>1, <1>7 DEF ApplyLiveObservation, ApplyRevert, LiveFactsSet
<1>8. CASE o.type = "pick"
  <2> DEFINE h == IF o.viaLocalHero THEN WithoutStaleLocalPick(f, o.heroId) ELSE f
  <2>1. g = ApplyPick(h, o)
    BY <1>8 DEF ApplyLiveObservation
  <2>2. SoundFacts(h) /\ h.started = f.started
    <3>1. o.heroId \in Heroes
      BY <1>8, ObservationTypes
    <3>2. SoundFacts(WithoutStaleLocalPick(f, o.heroId))
      BY <3>1, StaleLocalPickKeeps
    <3>3. WithoutStaleLocalPick(f, o.heroId).started = f.started
      BY <1>1 DEF WithoutStaleLocalPick, LiveFactsSet
    <3>4. QED BY <3>2, <3>3
  <2> HIDE DEF h
  <2>3. ApplyPick(h, o).started = h.started
    BY <2>2 DEF ApplyPick, RestatePick, AddPick, SoundFacts, LiveFactsSet
  <2>4. QED BY <1>1, <1>8, <2>1, <2>2, <2>3
<1>9. QED BY <1>2, <1>3, <1>4, <1>5, <1>6, <1>7, <1>8

LEMMA RestartFits ==
  ASSUME NEW s \in Fits
  PROVE  /\ Restart(s) \in Fits
         /\ Restart(s).session.humanPosition = NoPosition
         /\ Restart(s).entry.suppressed = {} /\ ~Restart(s).entry.facts.started
         /\ Restart(s).entry.draftEpoch = s.entry.draftEpoch
         /\ FactKeys(Restart(s).entry.facts) = {}
<1> DEFINE n == [s.session EXCEPT !.humanPosition = NoPosition]
           e == [FreshEntry EXCEPT !.eventOrder = s.entry.eventOrder, !.capture = s.entry.capture,
                                   !.visual = s.entry.visual, !.draftEpoch = s.entry.draftEpoch]
<1>1. Restart(s) = [session |-> n, entry |-> e]
  BY DEF Restart
<1>2. s.session \in SessionRecs /\ s.entry \in EntryRecs /\ GoodEntry(s.entry)
  BY FitParts
<1>3. n \in SessionRecs /\ n.humanPosition = NoPosition
  BY <1>2 DEF SessionRecs
<1>4. /\ e \in EntryRecs /\ e.facts = EmptyLiveFacts /\ e.eventOrder = s.entry.eventOrder
      /\ e.suppressed = {} /\ e.draftEpoch = s.entry.draftEpoch
  <2>1. FreshEntry \in EntryRecs /\ FreshEntry.facts = EmptyLiveFacts /\ FreshEntry.suppressed = {}
    BY FreshEntryIsGood DEF GoodEntry, FreshEntry
  <2>2. QED BY <1>2, <2>1 DEF EntryRecs
<1>5. SoundFacts(EmptyLiveFacts) /\ ~EmptyLiveFacts.started
  BY FreshEntryIsGood DEF GoodEntry, FreshEntry, EmptyLiveFacts
<1>6. FactKeys(EmptyLiveFacts) = {}
  BY DEF FactKeys, EmptyLiveFacts
<1> HIDE DEF n, e
<1>7. GoodEntry(e)
  BY <1>2, <1>4, <1>5 DEF GoodEntry
<1>8. [session |-> n, entry |-> e] \in Fits
  BY <1>3, <1>7, FitOf
<1>9. QED BY <1>1, <1>3, <1>4, <1>5, <1>6, <1>8

(* One fact more: the seat and what was removed are kept unless the draft  *)
(* starts anew, and then both are forgotten.                               *)
Restarted(t) == t.entry.suppressed = {} /\ t.session.humanPosition = NoPosition

Stated(s, t, o) ==
  /\ t.session = s.session /\ t.entry.suppressed = s.entry.suppressed
  /\ Gains(s.entry.facts, t.entry.facts, o)
  /\ s.entry.facts.started => t.entry.draftEpoch = s.entry.draftEpoch

LEMMA ApplyFactFits ==
  ASSUME NEW s \in Fits, NEW o \in Observations
  PROVE  LET t == ApplyFact(s, o) IN
         /\ t \in Fits
         /\ t.entry.facts.started = (s.entry.facts.started \/ o.type = "draft_started")
         /\ o.type # "draft_started" => t.entry.draftEpoch = s.entry.draftEpoch
         /\ (Restarted(t) /\ o.type = "draft_started") \/ Stated(s, t, o)
<1> DEFINE starts == o.type = "draft_started"
           over == s.entry.ended \/ s.session.draft.status = "COMPLETE"
           t == IF starts /\ over THEN Restart(s) ELSE s
           facts == ApplyLiveObservation(t.entry.facts, o)
           begins == starts /\ ~t.entry.facts.started
           ended == t.entry.ended /\ ~starts
           epoch == IF begins THEN t.entry.draftEpoch + 1 ELSE t.entry.draftEpoch
           e == [t.entry EXCEPT !.facts = facts, !.ended = ended, !.draftEpoch = epoch]
           u == ApplyFact(s, o)
<1>1. t \in Fits
  BY RestartFits
<1>2. (starts /\ Restarted(t) /\ ~t.entry.facts.started) \/ t = s
  BY RestartFits DEF Restarted
<1>3. u = IF facts = t.entry.facts THEN t ELSE [t EXCEPT !.entry.facts = facts,
            !.entry.ended = @ /\ ~starts, !.entry.draftEpoch = IF begins THEN @ + 1 ELSE @]
  BY DEF ApplyFact
<1> HIDE DEF t
<1>4. /\ t.session \in SessionRecs /\ t.entry \in EntryRecs /\ GoodEntry(t.entry)
      /\ SoundFacts(t.entry.facts) /\ t = [session |-> t.session, entry |-> t.entry]
  BY <1>1, FitParts
<1>5. SoundFacts(facts) /\ Gains(t.entry.facts, facts, o)
  BY <1>4, AppliedFacts
<1>6. facts.started = (t.entry.facts.started \/ starts)
  BY <1>4, AppliedStarts
<1>7. u = IF facts = t.entry.facts THEN t ELSE [session |-> t.session, entry |-> e]
  BY <1>3, <1>4 DEF EntryRecs
<1>8. /\ t.entry.draftEpoch \in Nat /\ epoch \in Nat /\ ended \in BOOLEAN
      /\ (begins \/ epoch = t.entry.draftEpoch)
  BY <1>4 DEF EntryRecs
<1> HIDE DEF facts, ended, epoch
<1>9. /\ e \in EntryRecs /\ e.facts = facts /\ e.draftEpoch = epoch
      /\ e.eventOrder = t.entry.eventOrder /\ e.suppressed = t.entry.suppressed
  BY <1>4, <1>5, <1>8 DEF EntryRecs, SoundFacts
<1> HIDE DEF e
<1>10. [session |-> t.session, entry |-> e] \in Fits
  <2>1. GoodEntry(e)
    BY <1>4, <1>5, <1>9 DEF GoodEntry
  <2>2. QED BY <1>4, <2>1, FitOf
<1>11. /\ u \in Fits /\ u.session = t.session /\ u.entry.facts = facts
       /\ u.entry.suppressed = t.entry.suppressed
       /\ (begins \/ u.entry.draftEpoch = t.entry.draftEpoch)
  BY <1>1, <1>7, <1>8, <1>9, <1>10
<1> HIDE DEF u
<1>12. t.entry.facts.started \in BOOLEAN
  BY <1>4 DEF SoundFacts, LiveFactsSet
<1>13. CASE t = s
  BY <1>5, <1>6, <1>11, <1>13 DEF Stated, u
<1>14. CASE starts /\ Restarted(t) /\ ~t.entry.facts.started
  BY <1>6, <1>11, <1>14 DEF Restarted, u
<1>15. QED BY <1>2, <1>13, <1>14

LEMMA GainedKeys ==
  ASSUME NEW f, SoundFacts(f), NEW g, SoundFacts(g), NEW o \in Observations, Gains(f, g, o)
  PROVE  /\ FactKeys(g) \ FactKeys(f) \subseteq KeysOf(o)
         /\ o.type \notin {"ban", "pick"} => FactKeys(g) \subseteq FactKeys(f)
<1> DEFINE gained == o.type \in {"ban", "pick"}
<1>1. /\ f.picks \in Seq(LivePicks) /\ g.picks \in Seq(LivePicks)
      /\ \A i \in DOMAIN g.picks : g.picks[i] \in ToSet(g.picks)
      /\ \A p \in ToSet(f.picks) : \E i \in DOMAIN f.picks : p = f.picks[i]
  BY PicksInSeq DEF SoundFacts, LiveFactsSet
<1>2. ASSUME NEW h \in g.bans
      PROVE  \/ [side |-> NoSide, heroId |-> h] \in FactKeys(f)
             \/ gained /\ [side |-> NoSide, heroId |-> h] \in KeysOf(o)
  <2>1. h \in f.bans \/ (o.type = "ban" /\ h = o.heroId)
    BY <1>2 DEF Gains
  <2>2. h \in f.bans => [side |-> NoSide, heroId |-> h] \in FactKeys(f)
    BY DEF FactKeys
  <2>3. o.type = "ban" => KeysOf(o) = {[side |-> NoSide, heroId |-> o.heroId]}
    BY DEF KeysOf
  <2>4. QED BY <2>1, <2>2, <2>3
<1>3. ASSUME NEW i \in DOMAIN g.picks
      PROVE  \/ [side |-> g.picks[i].side, heroId |-> g.picks[i].heroId] \in FactKeys(f)
             \/ gained /\ [side |-> g.picks[i].side, heroId |-> g.picks[i].heroId] \in KeysOf(o)
  <2> DEFINE p == g.picks[i]
  <2>1. \/ \E q \in ToSet(f.picks) : q.side = p.side /\ q.heroId = p.heroId
        \/ o.type = "pick" /\ p.side = o.side /\ p.heroId = o.heroId
    BY <1>1, <1>3 DEF Gains
  <2> HIDE DEF p
  <2>2. (\E q \in ToSet(f.picks) : q.side = p.side /\ q.heroId = p.heroId)
          => [side |-> p.side, heroId |-> p.heroId] \in FactKeys(f)
    BY <1>1 DEF FactKeys
  <2>3. o.type = "pick" => KeysOf(o) = {[side |-> o.side, heroId |-> o.heroId]}
    BY DEF KeysOf
  <2>4. QED BY <2>1, <2>2, <2>3 DEF p
<1>4. \A key \in FactKeys(g) : key \in FactKeys(f) \/ (gained /\ key \in KeysOf(o))
  BY <1>2, <1>3 DEF FactKeys
<1>5. QED BY <1>4

----------------------------------------------------------------------------
(* What a handler does, from the steady state s it claims to the state t   *)
(* it leaves                                                               *)

(* A draft cannot be begun again under a seat of the one before, nor under *)
(* a seat nobody declared.                                                 *)
SeatForgotten(s, t) ==
  s.entry.facts.started \/ s.session.humanPosition = NoPosition =>
    t.session.humanPosition = NoPosition \/ t.entry.draftEpoch = s.entry.draftEpoch

(* Nothing comes back that was removed.                                    *)
StaysOut(s, t) ==
  \A key \in t.entry.suppressed :
    key \in FactKeys(t.entry.facts) => key \in FactKeys(s.entry.facts)

LEMMA ApplyObservationSteady ==
  ASSUME NEW s, Steady(s), NEW o \in Observations
  PROVE  LET t == ApplyObservation(s, o) IN
         /\ Steady(t) /\ SeatForgotten(s, t)
         /\ o.type # "draft_started" => t.entry.draftEpoch = s.entry.draftEpoch
         /\ \A key \in t.entry.suppressed :
              key \in FactKeys(t.entry.facts) =>
                key \in FactKeys(s.entry.facts) \/ (~Removes(o) /\ key \in KeysOf(o))
         /\ t.entry.suppressed = {} \/ t.entry.suppressed = s.entry.suppressed
         /\ Removes(o) => FactKeys(t.entry.facts) \subseteq FactKeys(s.entry.facts)
<1> DEFINE u == ApplyFact(s, o)
           t == ApplyObservation(s, o)
<1>1. s \in Fits /\ SoundFacts(s.entry.facts)
  BY FitParts DEF Steady
<1>2. /\ u \in Fits
      /\ u.entry.facts.started = (s.entry.facts.started \/ o.type = "draft_started")
      /\ o.type # "draft_started" => u.entry.draftEpoch = s.entry.draftEpoch
      /\ (Restarted(u) /\ ~Removes(o)) \/ Stated(s, u, o)
  BY <1>1, ApplyFactFits DEF Removes
<1>3. t = IF u = s THEN s ELSE Rebuild(u)
  BY DEF ApplyObservation
<1> HIDE DEF u, t
<1>4. /\ Steady(t) /\ t.entry.facts = u.entry.facts /\ t.entry.suppressed = u.entry.suppressed
      /\ t.entry.draftEpoch = u.entry.draftEpoch
      /\ t.session.humanPosition = u.session.humanPosition
  BY <1>2, <1>3, RebuildMirrors
<1>5. SeatForgotten(s, t)
  BY <1>2, <1>4 DEF SeatForgotten, Restarted, Stated
<1>6. Stated(s, u, o) =>
        /\ FactKeys(u.entry.facts) \ FactKeys(s.entry.facts) \subseteq KeysOf(o)
        /\ Removes(o) => FactKeys(u.entry.facts) \subseteq FactKeys(s.entry.facts)
  <2>1. SoundFacts(u.entry.facts)
    BY <1>2, FitParts
  <2>2. Removes(o) => o.type \notin {"ban", "pick"}
    BY DEF Removes
  <2>3. QED BY <1>1, <2>1, <2>2, GainedKeys DEF Stated
<1>7. t.entry.suppressed = {} \/ t.entry.suppressed = s.entry.suppressed
  BY <1>2, <1>4 DEF Restarted, Stated
<1>8. (t.entry.suppressed = {} /\ ~Removes(o)) \/ Stated(s, u, o)
  BY <1>2, <1>4 DEF Restarted
<1>9. QED BY <1>2, <1>4, <1>5, <1>6, <1>7, <1>8 DEF t

(* Mirrors speaks of the facts and the two counts of an entry only.        *)
LEMMA EntryChange ==
  ASSUME NEW s, Steady(s), NEW e \in EntryRecs,
         e.facts = s.entry.facts, e.deferred = s.entry.deferred, e.rejected = s.entry.rejected,
         IsInjective(e.eventOrder), Len(e.eventOrder) <= MAX_REMEMBERED_EVENT_IDS
  PROVE  Steady([session |-> s.session, entry |-> e])
<1>1. s \in Fits /\ s.session \in SessionRecs /\ SoundFacts(e.facts) /\ Mirrors(s)
  BY FitParts DEF Steady
<1>2. GoodEntry(e)
  BY <1>1 DEF GoodEntry
<1>3. [session |-> s.session, entry |-> e] \in Fits
  BY <1>1, <1>2, FitOf
<1>4. Mirrors([session |-> s.session, entry |-> e])
  BY <1>1 DEF Mirrors
<1>5. QED BY <1>3, <1>4 DEF Steady

(* What the visual helper says of a card.                                  *)
LEMMA VisualFactSteady ==
  ASSUME NEW s, Steady(s), NEW o \in Observations, o.type # "draft_started"
  PROVE  LET t == VisualFact(s, o) IN
         Steady(t) /\ t.entry.draftEpoch = s.entry.draftEpoch /\ StaysOut(s, t)
<1> DEFINE v == VisualAlive(s.entry.visual)
           e == [s.entry EXCEPT !.visual = v]
           u == [s EXCEPT !.entry.visual = VisualAlive(@)]
           t == VisualFact(s, o)
<1>1. s.entry \in EntryRecs /\ GoodEntry(s.entry) /\ s = [session |-> s.session, entry |-> s.entry]
  BY FitParts DEF Steady
<1>2. u = [session |-> s.session, entry |-> e]
  BY <1>1
<1>3. v \in {"none", "ok", "ok_stale", "unread", "other"}
  BY <1>1 DEF VisualAlive, EntryRecs
<1> HIDE DEF v
<1>4. /\ e \in EntryRecs /\ e.facts = s.entry.facts /\ e.deferred = s.entry.deferred
      /\ e.rejected = s.entry.rejected /\ e.eventOrder = s.entry.eventOrder
      /\ e.suppressed = s.entry.suppressed /\ e.draftEpoch = s.entry.draftEpoch
  BY <1>1, <1>3 DEF EntryRecs
<1>5. t = IF ~u.entry.facts.started \/ u.entry.ended \/ Suppressed(u, o) THEN u
          ELSE ApplyObservation(u, o)
  BY DEF VisualFact
<1> HIDE DEF u, e, t
<1>6. Steady(u)
  BY <1>1, <1>2, <1>4, EntryChange DEF GoodEntry
<1>7. u.entry.facts = s.entry.facts /\ u.entry.draftEpoch = s.entry.draftEpoch
  BY <1>2, <1>4
<1>8. CASE t = u
  BY <1>6, <1>7, <1>8 DEF StaysOut, t
<1>9. CASE ~Suppressed(u, o) /\ t = ApplyObservation(u, o)
  <2>1. /\ Steady(t) /\ t.entry.draftEpoch = u.entry.draftEpoch
        /\ \A key \in t.entry.suppressed :
             key \in FactKeys(t.entry.facts) => key \in FactKeys(u.entry.facts) \/ key \in KeysOf(o)
        /\ t.entry.suppressed = {} \/ t.entry.suppressed = u.entry.suppressed
    BY <1>6, <1>9, ApplyObservationSteady
  <2>2. KeysOf(o) \cap u.entry.suppressed = {}
    BY <1>9 DEF Suppressed
  <2>3. QED BY <1>7, <2>1, <2>2 DEF StaysOut, t
<1>10. QED BY <1>5, <1>8, <1>9

VisualWords == CaptureHealth({"ok", "unread", "other"})

LEMMA IngestVisualSteady ==
  ASSUME NEW s, Steady(s), NEW payload \in Observations \cup VisualWords
  PROVE  LET t == IngestVisual(s, payload) IN
         Steady(t) /\ t.entry.draftEpoch = s.entry.draftEpoch /\ StaysOut(s, t)
<1> DEFINE t == IngestVisual(s, payload)
<1>1. s.entry \in EntryRecs /\ GoodEntry(s.entry) /\ s = [session |-> s.session, entry |-> s.entry]
  BY FitParts DEF Steady
<1>2. CASE payload.type \notin VisualPayloads
  <2>1. t = s
    BY <1>2 DEF IngestVisual, VisualPayloads
  <2>2. QED BY <2>1 DEF StaysOut
<1>3. CASE payload.type = "capture_health"
  <2> DEFINE e == [s.entry EXCEPT !.visual = payload.status]
  <2>1. t = [session |-> s.session, entry |-> e]
    BY <1>1, <1>3 DEF IngestVisual, VisualPayloads
  <2>2. payload.status \in {"ok", "unread", "other"}
    BY <1>3, ObservationTypes DEF VisualWords, CaptureHealth
  <2>3. /\ e \in EntryRecs /\ e.facts = s.entry.facts /\ e.deferred = s.entry.deferred
        /\ e.rejected = s.entry.rejected /\ e.eventOrder = s.entry.eventOrder
        /\ e.draftEpoch = s.entry.draftEpoch
    BY <1>1, <2>2 DEF EntryRecs
  <2> HIDE DEF e
  <2>4. Steady([session |-> s.session, entry |-> e])
    BY <1>1, <2>3, EntryChange DEF GoodEntry
  <2>5. QED BY <2>1, <2>3, <2>4 DEF StaysOut
<1>4. CASE payload.type \in VisualPayloads \ {"capture_health"}
  <2>1. t = VisualFact(s, payload)
    BY <1>4 DEF IngestVisual
  <2>2. payload \in Observations /\ payload.type # "draft_started"
    BY <1>4 DEF VisualWords, CaptureHealth, VisualPayloads
  <2>3. QED BY <2>1, <2>2, VisualFactSteady
<1>5. QED BY <1>2, <1>3, <1>4

(* The event ids remembered stay distinct and bounded.                     *)
LEMMA RememberKeeps ==
  ASSUME NEW ids \in Seq(EventIds), IsInjective(ids), Len(ids) <= MAX_REMEMBERED_EVENT_IDS,
         NEW id \in EventIds, id \notin ToSet(ids)
  PROVE  /\ Remember(ids, id) \in Seq(EventIds) /\ IsInjective(Remember(ids, id))
         /\ Len(Remember(ids, id)) <= MAX_REMEMBERED_EVENT_IDS
<1> DEFINE a == Append(ids, id)
           n == Len(ids)
<1>1. n \in Nat /\ MAX_REMEMBERED_EVENT_IDS \in Nat /\ DOMAIN ids = 1..n
  BY LiveAssumption
<1>2. /\ a \in Seq(EventIds) /\ Len(a) = n + 1 /\ DOMAIN a = 1..(n + 1)
      /\ \A i \in 1..n : a[i] = ids[i]
      /\ a[n + 1] = id
  OBVIOUS
<1>3. \A i \in 1..n : ids[i] # id
  BY <1>1 DEF ToSet
<1> HIDE DEF a, n
<1>4. \A i, j \in 1..(n + 1) : a[i] = a[j] => i = j
  <2>1. \A i, j \in 1..n : ids[i] = ids[j] => i = j
    BY <1>1 DEF IsInjective
  <2>2. \A i \in 1..(n + 1) : i \in 1..n \/ i = n + 1
    BY <1>1
  <2>3. QED BY <1>2, <1>3, <2>1, <2>2
<1>5. CASE n < MAX_REMEMBERED_EVENT_IDS
  <2>1. Remember(ids, id) = a
    BY <1>5 DEF Remember, a, n
  <2>2. QED BY <1>1, <1>2, <1>4, <1>5, <2>1 DEF IsInjective
<1>6. CASE ~(n < MAX_REMEMBERED_EVENT_IDS)
  <2>1. Remember(ids, id) = Tail(a)
    BY <1>6 DEF Remember, a, n
  <2>2. a # <<>>
    BY <1>1, <1>2
  <2>3. /\ Tail(a) \in Seq(EventIds) /\ Len(Tail(a)) = n /\ DOMAIN Tail(a) = 1..n
        /\ \A i \in 1..n : Tail(a)[i] = a[i + 1]
    BY <1>1, <1>2, <2>2
  <2>4. n <= MAX_REMEMBERED_EVENT_IDS
    BY DEF n
  <2>5. \A i, j \in 1..n : Tail(a)[i] = Tail(a)[j] => i = j
    <3>1. \A i \in 1..n : i + 1 \in 1..(n + 1)
      BY <1>1
    <3>2. ASSUME NEW i \in 1..n, NEW j \in 1..n, Tail(a)[i] = Tail(a)[j] PROVE i = j
      <4>1. i + 1 = j + 1
        BY <1>4, <2>3, <3>1, <3>2
      <4>2. QED BY <1>1, <4>1
    <3>3. QED BY <3>2
  <2>6. QED BY <2>1, <2>3, <2>4, <2>5 DEF IsInjective
<1>7. QED BY <1>5, <1>6

OverwolfWords == CaptureHealth({"ok", "other"}) \cup {[type |-> "session_ended"]}

LEMMA IngestOverwolfSteady ==
  ASSUME NEW s, Steady(s), NEW payload \in Observations \cup OverwolfWords
  PROVE  Steady(IngestOverwolf(s, payload)) /\ SeatForgotten(s, IngestOverwolf(s, payload))
<1> DEFINE t == IngestOverwolf(s, payload)
<1>1. s.entry \in EntryRecs /\ GoodEntry(s.entry) /\ s = [session |-> s.session, entry |-> s.entry]
  BY FitParts DEF Steady
<1>2. CASE payload.type = "capture_health"
  <2> DEFINE e == [s.entry EXCEPT !.capture = payload.status]
  <2>1. t = [session |-> s.session, entry |-> e]
    BY <1>1, <1>2 DEF IngestOverwolf
  <2>2. payload.status \in {"ok", "other"}
    <3>1. payload \in CaptureHealth({"ok", "other"})
      BY <1>2, ObservationTypes DEF OverwolfWords
    <3>2. QED BY <3>1 DEF CaptureHealth
  <2>3. /\ e \in EntryRecs /\ e.facts = s.entry.facts /\ e.deferred = s.entry.deferred
        /\ e.rejected = s.entry.rejected /\ e.eventOrder = s.entry.eventOrder
        /\ e.draftEpoch = s.entry.draftEpoch
    BY <1>1, <2>2 DEF EntryRecs
  <2> HIDE DEF e
  <2>4. Steady([session |-> s.session, entry |-> e])
    BY <1>1, <2>3, EntryChange DEF GoodEntry
  <2>5. QED BY <2>1, <2>3, <2>4 DEF SeatForgotten
<1>3. CASE payload.type = "session_ended"
  <2> DEFINE e == [s.entry EXCEPT !.ended = TRUE]
  <2>1. t = [session |-> s.session, entry |-> e]
    BY <1>1, <1>3 DEF IngestOverwolf
  <2>2. /\ e \in EntryRecs /\ e.facts = s.entry.facts /\ e.deferred = s.entry.deferred
        /\ e.rejected = s.entry.rejected /\ e.eventOrder = s.entry.eventOrder
        /\ e.draftEpoch = s.entry.draftEpoch
    BY <1>1 DEF EntryRecs
  <2> HIDE DEF e
  <2>3. Steady([session |-> s.session, entry |-> e])
    BY <1>1, <2>2, EntryChange DEF GoodEntry
  <2>4. QED BY <2>1, <2>2, <2>3 DEF SeatForgotten
<1>4. CASE payload.type \notin {"capture_health", "session_ended"}
  <2>1. t = ApplyObservation(s, payload)
    BY <1>4 DEF IngestOverwolf
  <2>2. payload \in Observations
    BY <1>4 DEF OverwolfWords, CaptureHealth
  <2>3. QED BY <2>1, <2>2, ApplyObservationSteady
<1>5. QED BY <1>2, <1>3, <1>4

(* An envelope whose id and payload can be those of one of the constants.  *)
Postable(e) == e.eventId \in EventIds /\ Parsed(e)

LEMMA EnvelopeParts ==
  ASSUME NEW e, Postable(e)
  PROVE  /\ e.eventId \in EventIds
         /\ e.source = "ocr" => e.payload \in Observations \cup VisualWords
         /\ e.source # "ocr" => e.payload \in Observations \cup OverwolfWords
BY DEF Postable, Parsed, VisualWords, OverwolfWords

LEMMA EnvelopesPostable ==
  ASSUME NEW e \in Envelopes
  PROVE  Postable(e)
BY EnvelopesAssumption DEF Postable, EventIds

LEMMA IngestEnvelopeSteady ==
  ASSUME NEW s, Steady(s), NEW e, Postable(e)
  PROVE  LET t == IngestEnvelope(s, e) IN
         /\ Steady(t) /\ SeatForgotten(s, t)
         /\ e.source = "ocr" => t.entry.draftEpoch = s.entry.draftEpoch /\ StaysOut(s, t)
<1> DEFINE ids == Remember(s.entry.eventOrder, e.eventId)
           n == [s.entry EXCEPT !.eventOrder = ids]
           u == [s EXCEPT !.entry.eventOrder = Remember(@, e.eventId)]
           t == IngestEnvelope(s, e)
<1>1. /\ s.entry \in EntryRecs /\ GoodEntry(s.entry) /\ s = [session |-> s.session, entry |-> s.entry]
      /\ s.entry.eventOrder \in Seq(EventIds)
  BY FitParts DEF Steady, EntryRecs
<1>2. CASE e.eventId \in ToSet(s.entry.eventOrder)
  <2>1. t = s
    BY <1>2 DEF IngestEnvelope
  <2>2. QED BY <2>1 DEF SeatForgotten, StaysOut
<1>3. CASE e.eventId \notin ToSet(s.entry.eventOrder)
  <2>1. t = IF e.source = "ocr" THEN IngestVisual(u, e.payload) ELSE IngestOverwolf(u, e.payload)
    BY <1>3 DEF IngestEnvelope
  <2>2. u = [session |-> s.session, entry |-> n]
    BY <1>1
  <2>3. ids \in Seq(EventIds) /\ IsInjective(ids) /\ Len(ids) <= MAX_REMEMBERED_EVENT_IDS
    BY <1>1, <1>3, RememberKeeps, EnvelopeParts DEF GoodEntry
  <2> HIDE DEF ids
  <2>4. /\ n \in EntryRecs /\ n.facts = s.entry.facts /\ n.deferred = s.entry.deferred
        /\ n.rejected = s.entry.rejected /\ n.eventOrder = ids
        /\ n.suppressed = s.entry.suppressed /\ n.draftEpoch = s.entry.draftEpoch
    BY <1>1, <2>3 DEF EntryRecs
  <2> HIDE DEF n, u, t
  <2>5. Steady(u)
    BY <1>1, <2>2, <2>3, <2>4, EntryChange
  <2>6. /\ u.session = s.session /\ u.entry.facts = s.entry.facts
        /\ u.entry.draftEpoch = s.entry.draftEpoch
    BY <2>2, <2>4
  <2>7. CASE e.source = "ocr"
    <3>1. Steady(t) /\ t.entry.draftEpoch = u.entry.draftEpoch /\ StaysOut(u, t)
      BY <2>1, <2>5, <2>7, EnvelopeParts, IngestVisualSteady
    <3>2. QED BY <2>6, <2>7, <3>1 DEF SeatForgotten, StaysOut, t
  <2>8. CASE e.source # "ocr"
    <3>1. Steady(t) /\ SeatForgotten(u, t)
      BY <2>1, <2>5, <2>8, EnvelopeParts, IngestOverwolfSteady
    <3>2. QED BY <2>6, <2>8, <3>1 DEF SeatForgotten, t
  <2>9. QED BY <2>7, <2>8
<1>4. QED BY <1>2, <1>3

----------------------------------------------------------------------------
(* Updates of the game                                                     *)

(* StateAll, and what every fact of an update keeps: X[n] holds the states *)
(* after the first n.                                                      *)
LEMMA StateAllStays ==
  ASSUME NEW S, NEW observations \in Seq(S), NEW X, NEW s \in X[0],
         \A n \in 1..Len(observations) :
           \A t \in X[n - 1] : GsiFact(t, observations[n]) \in X[n]
  PROVE  StateAll(s, observations) \in X[Len(observations)]
<1> DEFINE N == Len(observations)
           all == UNION {X[n] : n \in 0..N}
           step(n, t) == IF t \in X[n - 1] THEN GsiFact(t, observations[n]) ELSE t
           turn == [n \in 1..N |-> [t \in all |-> step(n, t)]]
           Loop(f) == f = [n \in 0..N |-> IF n = 0 THEN s ELSE GsiFact(f[n - 1], observations[n])]
           after == CHOOSE f : Loop(f)
<1>1. N \in Nat
  OBVIOUS
<1>2. \A n \in 1..N : \A t \in X[n - 1] : GsiFact(t, observations[n]) \in X[n]
  OBVIOUS
<1>3. s \in X[0]
  OBVIOUS
<1>4. StateAll(s, observations) = after[N]
  BY DEF StateAll
<1> HIDE DEF N
<1>5. turn \in [1..N -> [all -> all]]
  <2>1. ASSUME NEW n \in 1..N, NEW t \in all PROVE step(n, t) \in all
    <3>1. CASE t \in X[n - 1]
      <4>1. GsiFact(t, observations[n]) \in X[n] /\ n \in 0..N
        BY <1>1, <1>2, <2>1, <3>1
      <4>2. QED BY <3>1, <4>1
    <3>2. CASE t \notin X[n - 1]
      BY <2>1, <3>2
    <3>3. QED BY <3>1, <3>2
  <2> HIDE DEF step, all
  <2>2. QED BY <2>1
<1>6. s \in all
  BY <1>1, <1>3
<1> HIDE DEF turn, all
<1>7. PICK f \in [0..N -> all] : f[0] = s /\ \A n \in 1..N : f[n] = turn[n][f[n - 1]]
  <2> HIDE DEF step, Loop, after
  <2>1. \E f : Loops(f, N, all, s, turn)
    BY <1>1, <1>5, <1>6, LoopExists
  <2>2. QED BY <2>1 DEF Loops
<1>8. \A n \in 1..N : f[n] = step(n, f[n - 1])
  <2>1. ASSUME NEW n \in 1..N PROVE f[n] = step(n, f[n - 1])
    <3>1. n - 1 \in 0..N
      BY <1>1, <2>1
    <3>2. f[n - 1] \in all
      BY <1>7, <3>1
    <3>3. turn[n][f[n - 1]] = step(n, f[n - 1])
      BY <2>1, <3>2 DEF turn
    <3>4. QED BY <1>7, <3>3
  <2>2. QED BY <2>1
<1> DEFINE Left == {n \in 0..N : f[n] \notin X[n]}
<1>9. ASSUME Left # {} PROVE FALSE
  <2>1. PICK n \in Left : \A k \in Left : n <= k
    <3>1. Left \in SUBSET Nat
      OBVIOUS
    <3> HIDE DEF Left
    <3>2. QED BY <1>9, <3>1, LeastNatural
  <2>2. n # 0
    BY <1>3, <1>7
  <2>3. n \in 1..N /\ n - 1 \in 0..N /\ n - 1 \notin Left
    BY <1>1, <2>1, <2>2
  <2>4. f[n - 1] \in X[n - 1]
    BY <2>3
  <2>5. f[n] \in X[n]
    BY <1>2, <1>8, <2>3, <2>4
  <2>6. QED BY <2>5
<1>10. \A n \in 0..N : f[n] \in X[n]
  BY <1>9
<1>11. Loop(f)
  <2>1. ASSUME NEW n \in 0..N
        PROVE  f[n] = IF n = 0 THEN s ELSE GsiFact(f[n - 1], observations[n])
    <3>1. CASE n = 0
      BY <1>7, <3>1
    <3>2. CASE n # 0
      <4>1. n \in 1..N /\ n - 1 \in 0..N
        BY <1>1, <2>1, <3>2
      <4>2. f[n - 1] \in X[n - 1]
        BY <1>10, <4>1
      <4>3. QED BY <1>8, <3>2, <4>1, <4>2
    <3>3. QED BY <3>1, <3>2
  <2>2. f = [n \in 0..N |-> f[n]]
    BY <1>7
  <2> HIDE DEF step
  <2>3. QED BY <2>1, <2>2
<1>12. Loop(after)
  BY <1>11
<1> HIDE DEF step
<1>13. ASSUME NEW n \in 0..N
       PROVE  after[n] = IF n = 0 THEN s ELSE GsiFact(after[n - 1], observations[n])
  BY <1>12
<1> DEFINE Lost == {n \in 0..N : after[n] \notin X[n]}
<1> HIDE DEF after, Loop
<1>14. ASSUME Lost # {} PROVE FALSE
  <2>1. PICK n \in Lost : \A k \in Lost : n <= k
    <3>1. Lost \in SUBSET Nat
      OBVIOUS
    <3> HIDE DEF Lost
    <3>2. QED BY <1>14, <3>1, LeastNatural
  <2>2. n # 0
    BY <1>3, <1>13
  <2>3. n \in 1..N /\ n - 1 \in 0..N /\ n - 1 \notin Lost
    BY <1>1, <2>1, <2>2
  <2>4. after[n - 1] \in X[n - 1] /\ after[n] = GsiFact(after[n - 1], observations[n])
    BY <1>13, <2>2, <2>3
  <2>5. after[n] \in X[n]
    BY <1>2, <2>3, <2>4
  <2>6. QED BY <2>5
<1>15. QED BY <1>1, <1>4, <1>14 DEF N

LEMMA UpdateParts ==
  ASSUME NEW u \in Normalized
  PROVE  /\ u.phase \in {"idle", "loading", "draft", "match"} /\ u.matchKey \in Nat
         /\ u.side \in Sides \cup {NoSide} /\ u.ownHero \in Heroes \cup {NoHero}
         /\ u.bans \in Seq(Heroes) /\ u.picks \in Seq([side : Sides, heroId : Heroes])
         /\ u.draftBlock \in BOOLEAN
BY DEF Normalized

LEMMA Joined ==
  ASSUME NEW S, NEW a \in Seq(S), NEW b \in Seq(S)
  PROVE  /\ a \o b \in Seq(S) /\ Len(a \o b) = Len(a) + Len(b)
         /\ Len(a) >= 1 => (a \o b)[1] = a[1]
<1>1. Len(a) \in Nat /\ Len(b) \in Nat
  OBVIOUS
<1>2. /\ a \o b \in Seq(S) /\ Len(a \o b) = Len(a) + Len(b)
      /\ \A i \in 1..(Len(a) + Len(b)) : (a \o b)[i] = IF i <= Len(a) THEN a[i] ELSE b[i - Len(a)]
  BY ConcatProperties, Zenon
<1>3. QED BY <1>1, <1>2

(* An update of hero selection states, first, that the draft started.      *)
LEMMA UpdateStates ==
  ASSUME NEW u \in Normalized
  PROVE  /\ ObservationsFromGsi(u) \in Seq(Observations) /\ Len(ObservationsFromGsi(u)) >= 1
         /\ ObservationsFromGsi(u)[1] = DraftStarted
<1> DEFINE sided == u.side # NoSide
           own == sided /\ u.ownHero # NoHero
           a == <<DraftStarted, BansClosed>>
           b == IF sided THEN <<SideIs(u.side)>> ELSE <<>>
           c == [i \in DOMAIN u.bans |-> Ban(u.bans[i])]
           d == [i \in DOMAIN u.picks |-> Pick(u.picks[i].side, u.picks[i].heroId, NoPosition)]
           e == IF own THEN <<LocalPick(u.side, u.ownHero)>> ELSE <<>>
           f == <<LocalHero(IF sided THEN u.ownHero ELSE NoHero)>>
<1>1. u.side \in Sides \cup {NoSide} /\ u.ownHero \in Heroes \cup {NoHero}
      /\ u.bans \in Seq(Heroes) /\ u.picks \in Seq([side : Sides, heroId : Heroes])
  BY UpdateParts
<1>2. a \in Seq(Observations) /\ Len(a) = 2 /\ a[1] = DraftStarted
  <2>1. DraftStarted \in Observations /\ BansClosed \in Observations
    BY DEF Observations
  <2>2. QED BY <2>1
<1>3. b \in Seq(Observations)
  <2>1. sided => SideIs(u.side) \in Observations
    BY <1>1 DEF Observations
  <2>2. QED BY <2>1
<1>4. c \in Seq(Observations)
  <2>1. DOMAIN u.bans = 1..Len(u.bans) /\ Len(u.bans) \in Nat /\ \A i \in DOMAIN u.bans : u.bans[i] \in Heroes
    BY <1>1
  <2>2. \A i \in DOMAIN u.bans : Ban(u.bans[i]) \in Observations
    BY <2>1 DEF Observations
  <2>3. QED BY <2>1, <2>2
<1>5. d \in Seq(Observations)
  <2>1. /\ DOMAIN u.picks = 1..Len(u.picks) /\ Len(u.picks) \in Nat
        /\ \A i \in DOMAIN u.picks : u.picks[i].side \in Sides /\ u.picks[i].heroId \in Heroes
    <3> DEFINE P == [side : Sides, heroId : Heroes]
               s == u.picks
    <3>1. \A p \in P : p.side \in Sides /\ p.heroId \in Heroes
      OBVIOUS
    <3>2. s \in Seq(P)
      BY <1>1
    <3> HIDE DEF P, s
    <3>3. DOMAIN s = 1..Len(s) /\ Len(s) \in Nat /\ \A i \in DOMAIN s : s[i] \in P
      BY <3>2
    <3>4. QED BY <3>1, <3>3 DEF s
  <2>2. \A i \in DOMAIN u.picks : Pick(u.picks[i].side, u.picks[i].heroId, NoPosition) \in Observations
    BY <2>1 DEF Observations
  <2>3. QED BY <2>1, <2>2
<1>6. e \in Seq(Observations)
  <2>1. own => LocalPick(u.side, u.ownHero) \in Observations
    BY <1>1 DEF Observations
  <2>2. QED BY <2>1
<1>7. f \in Seq(Observations)
  <2>1. LocalHero(IF sided THEN u.ownHero ELSE NoHero) \in Observations
    BY <1>1 DEF Observations
  <2>2. QED BY <2>1
<1>8. ObservationsFromGsi(u) = a \o b \o c \o d \o e \o f
  BY DEF ObservationsFromGsi
<1> HIDE DEF a, b, c, d, e, f
<1> DEFINE Begins(s) == s \in Seq(Observations) /\ Len(s) >= 1 /\ s[1] = DraftStarted
<1>9. ASSUME NEW s, Begins(s), NEW t \in Seq(Observations) PROVE Begins(s \o t)
  <2>1. s \in Seq(Observations) /\ Len(s) \in Nat /\ Len(t) \in Nat
    BY <1>9
  <2>2. s \o t \in Seq(Observations) /\ Len(s \o t) = Len(s) + Len(t) /\ (s \o t)[1] = s[1]
    BY <1>9, <2>1, Joined
  <2>3. QED BY <1>9, <2>1, <2>2
<1>10. Begins(a)
  BY <1>2
<1>11. Begins(a \o b \o c \o d \o e \o f)
  <2> HIDE DEF Begins
  <2>1. Begins(a \o b)
    BY <1>3, <1>9, <1>10
  <2>2. Begins(a \o b \o c)
    BY <1>4, <1>9, <2>1
  <2>3. Begins(a \o b \o c \o d)
    BY <1>5, <1>9, <2>2
  <2>4. Begins(a \o b \o c \o d \o e)
    BY <1>6, <1>9, <2>3
  <2>5. QED BY <1>7, <1>9, <2>4
<1>12. QED BY <1>8, <1>11

(* While the facts of an update are applied to q: after the first, the     *)
(* draft has started; the seat and what was removed are as they should be. *)
Applying(q, n, t) ==
  /\ (q.entry.facts.started \/ n >= 1) => t.entry.facts.started
  /\ SeatForgotten(q, t) /\ StaysOut(q, t)
  /\ q.session.humanPosition = NoPosition => t.session.humanPosition = NoPosition

LEMMA GsiFactApplies ==
  ASSUME NEW q, NEW n \in Nat, NEW t \in Fits, Applying(q, n, t), NEW o \in Observations,
         n = 0 => o = DraftStarted
  PROVE  GsiFact(t, o) \in Fits /\ Applying(q, n + 1, GsiFact(t, o))
<1> DEFINE u == GsiFact(t, o)
<1>1. SoundFacts(t.entry.facts) /\ t.entry.facts.started \in BOOLEAN
  BY FitParts DEF SoundFacts, LiveFactsSet
<1>2. n = 0 => o.type = "draft_started" /\ ~Suppressed(t, o)
  BY DEF DraftStarted, Suppressed, KeysOf
<1>3. CASE u = t /\ ((o.type = "draft_started" /\ t.entry.facts.started) \/ Suppressed(t, o))
  <2>1. n = 0 => t.entry.facts.started
    BY <1>2, <1>3
  <2>2. QED BY <1>3, <2>1 DEF Applying
<1>4. CASE u = ApplyFact(t, o) /\ ~Suppressed(t, o)
           /\ (o.type = "draft_started" => ~t.entry.facts.started)
  <2> HIDE DEF u
  <2>1. /\ u \in Fits
        /\ u.entry.facts.started = (t.entry.facts.started \/ o.type = "draft_started")
        /\ Restarted(u) \/ Stated(t, u, o)
    BY <1>4, ApplyFactFits
  <2>2. u.entry.facts.started
    <3>1. n = 0 \/ n >= 1
      OBVIOUS
    <3>2. t.entry.facts.started \/ o.type = "draft_started"
      BY <1>2, <3>1 DEF Applying
    <3>3. QED BY <2>1, <3>2
  <2>3. CASE Restarted(u)
    <3>1. SeatForgotten(q, u) /\ StaysOut(q, u) /\ u.session.humanPosition = NoPosition
      BY <2>3 DEF SeatForgotten, StaysOut, Restarted
    <3>2. Applying(q, n + 1, u)
      BY <2>2, <3>1 DEF Applying
    <3>3. QED BY <2>1, <3>2 DEF u
  <2>4. CASE Stated(t, u, o)
    <3>1. FactKeys(u.entry.facts) \ FactKeys(t.entry.facts) \subseteq KeysOf(o)
      <4>1. SoundFacts(u.entry.facts)
        BY <2>1, FitParts
      <4>2. QED BY <1>1, <2>4, <4>1, GainedKeys DEF Stated
    <3>2. KeysOf(o) \cap t.entry.suppressed = {}
      BY <1>4 DEF Suppressed
    <3>3. StaysOut(q, u)
      BY <2>4, <3>1, <3>2 DEF Applying, StaysOut, Stated
    <3>4. SeatForgotten(q, u)
      BY <2>4 DEF Applying, SeatForgotten, Stated
    <3>5. q.session.humanPosition = NoPosition => u.session.humanPosition = NoPosition
      BY <2>4 DEF Applying, Stated
    <3>6. QED BY <2>1, <2>2, <3>3, <3>4, <3>5 DEF Applying, u
  <2>5. QED BY <2>1, <2>3, <2>4
<1>5. QED BY <1>3, <1>4 DEF GsiFact

LEMMA UpdateApplies ==
  ASSUME NEW q \in Fits, NEW u \in Normalized
  PROVE  LET t == StateAll(q, ObservationsFromGsi(u)) IN
         t \in Fits /\ t.entry.facts.started /\ Applying(q, 1, t)
<1> DEFINE obs == ObservationsFromGsi(u)
           N == Len(obs)
           X == [n \in 0..N |-> {t \in Fits : Applying(q, n, t)}]
<1>1. obs \in Seq(Observations) /\ N >= 1 /\ obs[1] = DraftStarted /\ N \in Nat
  BY UpdateStates
<1>2. \A n \in 1..N : obs[n] \in Observations
  BY <1>1
<1>3. Applying(q, 0, q)
  BY DEF Applying, SeatForgotten, StaysOut
<1> HIDE DEF obs, N
<1>4. q \in X[0]
  BY <1>1, <1>3
<1>5. ASSUME NEW n \in 1..N, NEW t \in X[n - 1] PROVE GsiFact(t, obs[n]) \in X[n]
  <2>1. n - 1 \in 0..N /\ n \in 0..N /\ n - 1 \in Nat /\ (n - 1) + 1 = n /\ (n - 1 = 0 => n = 1)
    BY <1>1
  <2>2. t \in Fits /\ Applying(q, n - 1, t)
    BY <2>1
  <2>3. obs[n] \in Observations /\ (n - 1 = 0 => obs[n] = DraftStarted)
    BY <1>1, <1>2, <2>1
  <2>4. GsiFact(t, obs[n]) \in Fits /\ Applying(q, (n - 1) + 1, GsiFact(t, obs[n]))
    BY <2>1, <2>2, <2>3, GsiFactApplies
  <2>5. QED BY <2>1, <2>4
<1> HIDE DEF X
<1>6. StateAll(q, obs) \in X[N]
  BY <1>1, <1>4, <1>5, StateAllStays DEF N
<1>7. StateAll(q, obs) \in Fits /\ Applying(q, N, StateAll(q, obs))
  BY <1>1, <1>6 DEF X
<1>8. QED BY <1>1, <1>7 DEF Applying, obs

LEMMA NotedFits ==
  ASSUME NEW t \in Fits, NEW u \in Normalized
  PROVE  LET e == NoteUpdate(t.entry, u) IN
         /\ e \in EntryRecs /\ e.facts = t.entry.facts /\ e.deferred = t.entry.deferred
         /\ e.rejected = t.entry.rejected /\ e.eventOrder = t.entry.eventOrder
         /\ e.suppressed = t.entry.suppressed /\ e.draftEpoch = t.entry.draftEpoch
<1> DEFINE matchKey == IF u.phase = "draft" /\ u.matchKey # NoMatch THEN u.matchKey ELSE t.entry.matchKey
           ended == t.entry.ended \/ (u.phase \in {"match", "idle"} /\ t.entry.facts.started)
           block == t.entry.draftBlock \/ (u.phase = "draft" /\ u.draftBlock)
           capture == CaptureAfter(t.entry, u)
<1>1. t.entry \in EntryRecs
  BY FitParts
<1>2. matchKey \in Nat /\ ended \in BOOLEAN /\ block \in BOOLEAN
  BY <1>1, UpdateParts DEF EntryRecs
<1>3. capture \in {"unknown", "ok", "partial", "other"}
  BY <1>1 DEF CaptureAfter, EntryRecs
<1>4. NoteUpdate(t.entry, u) =
        [t.entry EXCEPT !.matchKey = matchKey, !.ended = ended, !.draftBlock = block, !.capture = capture]
  BY <1>1 DEF NoteUpdate, EntryRecs
<1> HIDE DEF matchKey, ended, block, capture
<1>5. QED BY <1>1, <1>2, <1>3, <1>4 DEF EntryRecs

LEMMA IngestGsiSteady ==
  ASSUME NEW s, Steady(s), NEW u \in Normalized
  PROVE  LET t == IngestGsi(s, u) IN Steady(t) /\ SeatForgotten(s, t) /\ StaysOut(s, t)
<1> DEFINE over == StartsOver(s.entry, u)
           b == IF over THEN Restart(s) ELSE s
           e == NoteUpdate(b.entry, u)
           q == [session |-> b.session, entry |-> e]
           a == IF u.phase = "draft" THEN StateAll(q, ObservationsFromGsi(u)) ELSE q
           t == IngestGsi(s, u)
<1>1. s \in Fits
  BY DEF Steady
<1>2. b \in Fits /\ (over => u.phase = "draft")
  BY <1>1, RestartFits DEF StartsOver
<1>3. b.session \in SessionRecs /\ b = [session |-> b.session, entry |-> b.entry] /\ GoodEntry(b.entry)
  BY <1>2, FitParts
<1>4. t = IF a = q THEN q ELSE Rebuild(a)
  <2>1. [b EXCEPT !.entry = NoteUpdate(b.entry, u)] = q
    BY <1>3
  <2>2. QED BY <2>1 DEF IngestGsi
<1> HIDE DEF b, t
<1>5. /\ e \in EntryRecs /\ e.facts = b.entry.facts /\ e.deferred = b.entry.deferred
      /\ e.rejected = b.entry.rejected /\ e.eventOrder = b.entry.eventOrder
      /\ e.suppressed = b.entry.suppressed /\ e.draftEpoch = b.entry.draftEpoch
  BY <1>2, NotedFits
<1> HIDE DEF e
<1>6. q \in Fits
  <2>1. GoodEntry(e)
    BY <1>3, <1>5 DEF GoodEntry
  <2>2. QED BY <1>3, <2>1, FitOf
<1>7. /\ q.entry.facts = b.entry.facts /\ q.entry.draftEpoch = b.entry.draftEpoch
      /\ q.session = b.session
  BY <1>5
<1> HIDE DEF q
<1>8. a \in Fits /\ SeatForgotten(q, a) /\ StaysOut(q, a)
      /\ (q.session.humanPosition = NoPosition => a.session.humanPosition = NoPosition)
  BY <1>6, UpdateApplies DEF Applying, SeatForgotten, StaysOut
<1>9. over => a.entry.facts.started
  BY <1>2, <1>6, UpdateApplies
<1> HIDE DEF a
<1>10. /\ over => ~q.entry.facts.started /\ q.session.humanPosition = NoPosition
                    /\ FactKeys(q.entry.facts) = {}
       /\ ~over => b = s
  BY <1>1, <1>7, RestartFits DEF b
<1>11. Steady(t)
  <2>1. CASE a # q
    BY <1>4, <1>8, <2>1, RebuildMirrors
  <2>2. CASE a = q
    <3>1. ~over
      BY <1>9, <1>10, <2>2
    <3>2. Steady([session |-> s.session, entry |-> e])
      BY <1>3, <1>5, <1>10, <3>1, EntryChange DEF GoodEntry
    <3>3. QED BY <1>4, <1>10, <2>2, <3>1, <3>2 DEF q
  <2>3. QED BY <2>1, <2>2
<1>12. /\ t.entry.facts = a.entry.facts /\ t.entry.suppressed = a.entry.suppressed
       /\ t.entry.draftEpoch = a.entry.draftEpoch
       /\ t.session.humanPosition = a.session.humanPosition
  BY <1>4, <1>8, RebuildMirrors
<1>13. SeatForgotten(s, t)
  BY <1>7, <1>8, <1>10, <1>12 DEF SeatForgotten
<1>14. StaysOut(s, t)
  BY <1>7, <1>8, <1>10, <1>12 DEF StaysOut
<1>15. QED BY <1>11, <1>13, <1>14 DEF t

----------------------------------------------------------------------------
(* The Player, and what every request does first                           *)

LEMMA FactKeyTypes ==
  ASSUME NEW o \in Observations
  PROVE  KeysOf(o) \in SUBSET FactKeySet
<1>1. /\ o.type \in {"ban", "unban", "revert", "pick"} => o.heroId \in Heroes
      /\ o.type \in {"revert", "pick"} => o.side \in Sides
  BY ObservationTypes
<1>2. CASE o.type \in {"ban", "unban"}
  <2>1. KeysOf(o) = {[side |-> NoSide, heroId |-> o.heroId]}
    BY <1>2 DEF KeysOf
  <2>2. QED BY <1>1, <1>2, <2>1 DEF FactKeySet
<1>3. CASE o.type \in {"pick", "revert"}
  <2>1. KeysOf(o) = {[side |-> o.side, heroId |-> o.heroId]}
    BY <1>3 DEF KeysOf
  <2>2. QED BY <1>1, <1>3, <2>1 DEF FactKeySet
<1>4. CASE o.type \notin {"ban", "unban", "pick", "revert"}
  <2>1. KeysOf(o) = {}
    BY <1>4 DEF KeysOf
  <2>2. QED BY <2>1
<1>5. QED BY <1>2, <1>3, <1>4

LEMMA ObserveSteady ==
  ASSUME NEW s, Steady(s), NEW o \in Observations
  PROVE  LET t == Observe(s, o) IN Steady(t) /\ SeatForgotten(s, t) /\ StaysOut(s, t)
<1> DEFINE u == ApplyObservation(s, o)
           out == SuppressedAfter(s, u, o)
           e == [u.entry EXCEPT !.suppressed = out]
           t == Observe(s, o)
<1>1. /\ Steady(u) /\ SeatForgotten(s, u)
      /\ \A key \in u.entry.suppressed :
           key \in FactKeys(u.entry.facts) =>
             key \in FactKeys(s.entry.facts) \/ (~Removes(o) /\ key \in KeysOf(o))
      /\ u.entry.suppressed = {} \/ u.entry.suppressed = s.entry.suppressed
      /\ Removes(o) => FactKeys(u.entry.facts) \subseteq FactKeys(s.entry.facts)
  BY ApplyObservationSteady
<1>2. t = [u EXCEPT !.entry.suppressed = out]
  BY DEF Observe
<1> HIDE DEF u, t
<1>3. u.entry \in EntryRecs /\ GoodEntry(u.entry) /\ u = [session |-> u.session, entry |-> u.entry]
  BY <1>1, FitParts DEF Steady
<1>4. t = [session |-> u.session, entry |-> e]
  BY <1>2, <1>3
<1>5. u.entry.suppressed \in SUBSET FactKeySet /\ KeysOf(o) \in SUBSET FactKeySet
  BY <1>3, FactKeyTypes DEF EntryRecs
<1>6. out \in SUBSET FactKeySet
  BY <1>5 DEF SuppressedAfter
<1>7. \A key \in out : key \in FactKeys(u.entry.facts) => key \in FactKeys(s.entry.facts)
  BY <1>1 DEF SuppressedAfter
<1> HIDE DEF out
<1>8. /\ e \in EntryRecs /\ e.facts = u.entry.facts /\ e.deferred = u.entry.deferred
      /\ e.rejected = u.entry.rejected /\ e.eventOrder = u.entry.eventOrder
      /\ e.suppressed = out /\ e.draftEpoch = u.entry.draftEpoch
  BY <1>3, <1>6 DEF EntryRecs
<1> HIDE DEF e
<1>9. Steady([session |-> u.session, entry |-> e])
  BY <1>1, <1>3, <1>8, EntryChange DEF GoodEntry
<1>10. /\ Steady(t) /\ t.session = u.session /\ t.entry.facts = u.entry.facts
       /\ t.entry.suppressed = out /\ t.entry.draftEpoch = u.entry.draftEpoch
  BY <1>4, <1>8, <1>9
<1>11. SeatForgotten(s, t) /\ StaysOut(s, t)
  BY <1>1, <1>7, <1>10 DEF SeatForgotten, StaysOut
<1>12. QED BY <1>10, <1>11 DEF t

(* The Player declares a seat.                                             *)
LEMMA SeatSteady ==
  ASSUME NEW s, Steady(s), NEW position \in Positions \cup {NoPosition}
  PROVE  LET t == Rebuild([s EXCEPT !.session.humanPosition = position]) IN
         /\ Steady(t) /\ t.entry.facts = s.entry.facts /\ t.entry.suppressed = s.entry.suppressed
         /\ t.entry.draftEpoch = s.entry.draftEpoch
<1> DEFINE n == [s.session EXCEPT !.humanPosition = position]
           u == [session |-> n, entry |-> s.entry]
<1>1. /\ s.session \in SessionRecs /\ GoodEntry(s.entry)
      /\ s = [session |-> s.session, entry |-> s.entry]
  BY FitParts DEF Steady
<1>2. [s EXCEPT !.session.humanPosition = position] = u
  BY <1>1
<1>3. n \in SessionRecs
  BY <1>1 DEF SessionRecs
<1> HIDE DEF n
<1>4. u \in Fits /\ u.entry = s.entry
  BY <1>1, <1>3, FitOf
<1> HIDE DEF u
<1>5. /\ Steady(Rebuild(u)) /\ Rebuild(u).entry.facts = u.entry.facts
      /\ Rebuild(u).entry.suppressed = u.entry.suppressed
      /\ Rebuild(u).entry.draftEpoch = u.entry.draftEpoch
  BY <1>4, RebuildMirrors
<1>6. QED BY <1>2, <1>4, <1>5

(* A request finds the draft as it was or, when there was no session any   *)
(* more, a new one that nothing is known of.                               *)
Untouched(s, c) ==
  /\ s.entry # NoEntry /\ c.entry.facts = s.entry.facts
  /\ c.entry.draftEpoch = s.entry.draftEpoch /\ c.entry.suppressed = s.entry.suppressed
Unknown(c) == c.entry.draftEpoch = 0 /\ FactKeys(c.entry.facts) = {}

Finds(s, c) ==
  \/ Untouched(s, c)
  \/ Unknown(c) /\ (s.entry # NoEntry => c.session.humanPosition = NoPosition)

LEMMA EnsureSteady ==
  ASSUME NEW s, Good(s), NEW account \in Accounts \cup {NoAccount}
  PROVE  Steady(Ensure(s, account)) /\ Finds(s, Ensure(s, account))
<1>1. FreshEntry.facts = EmptyLiveFacts /\ FreshEntry.draftEpoch = 0 /\ FactKeys(EmptyLiveFacts) = {}
  BY DEF FreshEntry, FactKeys, EmptyLiveFacts
<1>2. CASE s.session = NoSession
  <2> DEFINE c == [session |-> NewSession(account), entry |-> FreshEntry]
  <2>1. Ensure(s, account) = c
    BY <1>2 DEF Ensure
  <2>2. c.entry = FreshEntry /\ c.session.humanPosition = NoPosition
    BY DEF NewSession
  <2>3. QED BY <1>1, <2>1, <2>2, FreshIsSteady DEF Finds, Unknown
<1>3. CASE s.session # NoSession /\ s.entry = NoEntry
  <2> DEFINE u == [session |-> s.session, entry |-> FreshEntry]
  <2>1. [s EXCEPT !.entry = FreshEntry] = u
    BY DEF Good
  <2>2. Ensure(s, account) = Rebuild(u)
    BY <1>3, <2>1 DEF Ensure
  <2>3. u \in Fits /\ u.entry = FreshEntry
    BY <1>3, FreshEntryIsGood, FitOf DEF Good
  <2> HIDE DEF u
  <2>4. /\ Steady(Rebuild(u)) /\ Rebuild(u).entry.facts = u.entry.facts
        /\ Rebuild(u).entry.draftEpoch = u.entry.draftEpoch
    BY <2>3, RebuildMirrors
  <2>5. QED BY <1>1, <1>3, <2>2, <2>3, <2>4 DEF Finds, Unknown
<1>4. CASE s.session # NoSession /\ s.entry # NoEntry
  <2>1. Ensure(s, account) = s
    BY <1>4 DEF Ensure
  <2>2. s \in Fits
    BY <1>4, FitOf DEF Good
  <2>3. QED BY <1>4, <2>1, <2>2 DEF Good, Steady, Finds, Untouched
<1>5. QED BY <1>2, <1>3, <1>4

LEMMA ClaimSteady ==
  ASSUME NEW s, Steady(s), NEW account \in Accounts
  PROVE  LET c == Claim(s, account) IN
         Steady(c) /\ c.entry = s.entry /\ c.session.humanPosition = s.session.humanPosition
<1> DEFINE n == [s.session EXCEPT !.owner = account]
           u == [session |-> n, entry |-> s.entry]
<1>1. /\ s.session \in SessionRecs /\ GoodEntry(s.entry) /\ Mirrors(s)
      /\ s = [session |-> s.session, entry |-> s.entry]
  BY FitParts DEF Steady
<1>2. [s EXCEPT !.session.owner = account] = u
  BY <1>1
<1>3. /\ n \in SessionRecs /\ n.humanPosition = s.session.humanPosition
      /\ n.localSide = s.session.localSide /\ n.draft = s.session.draft
      /\ n.bindings = s.session.bindings
  BY <1>1 DEF SessionRecs
<1> HIDE DEF n
<1>4. u \in Fits /\ u.entry = s.entry /\ u.session = n
  BY <1>1, <1>3, FitOf
<1> HIDE DEF u
<1>5. Mirrors(u)
  BY <1>1, <1>3, <1>4 DEF Mirrors
<1>6. Steady(u) /\ u.session.humanPosition = s.session.humanPosition
  BY <1>3, <1>4, <1>5 DEF Steady
<1>7. Claim(s, account) \in {s, u}
  BY <1>2 DEF Claim
<1>8. QED BY <1>4, <1>6, <1>7

LEMMA ClaimedSteady ==
  ASSUME IInv, NEW account \in Accounts
  PROVE  Steady(Claimed(account)) /\ Finds(State, Claimed(account))
<1> DEFINE c == Ensure(State, account)
<1>1. Steady(c) /\ Finds(State, c)
  BY EnsureSteady DEF IInv
<1>2. Claimed(account) = Claim(c, account)
  BY DEF Claimed
<1> HIDE DEF c
<1>3. /\ Steady(Claim(c, account)) /\ Claim(c, account).entry = c.entry
      /\ Claim(c, account).session.humanPosition = c.session.humanPosition
  BY <1>1, ClaimSteady
<1>4. QED BY <1>1, <1>2, <1>3 DEF Finds, Untouched, Unknown

----------------------------------------------------------------------------
(* What a step does                                                        *)

(* A request claims the session and hands what it found, c, to its handler,*)
(* which leaves t.                                                         *)
Handled(c, t) ==
  /\ Steady(c) /\ Finds(State, c)
  /\ Steady(t) /\ Becomes(t) /\ SeatForgotten(c, t)
  /\ t.entry.draftEpoch = c.entry.draftEpoch \/ t.entry.draftEpoch <= MaxEpochs
  /\ StaysOut(c, t) \/ \E e \in Envelopes : e.source # "ocr" /\ PostDraftEvent(e)
  /\ UNCHANGED linked

(* Or the session or its entry go, or the helper falls silent.             *)
Dropped ==
  /\ entry' \in {entry, NoEntry} /\ session' \in {session, NoSession}
  /\ linked' \in BOOLEAN

LEMMA RequestIsHandled ==
  ASSUME IInv, Next, ~Dropped, ~VisualGoesStale
  PROVE  \E c, t : Handled(c, t)
<1>1. ASSUME NEW account \in Accounts, OpenLive(account) PROVE \E c, t : Handled(c, t)
  <2> DEFINE c == Claimed(account)
  <2>1. Steady(c) /\ Finds(State, c)
    BY ClaimedSteady
  <2>2. Becomes(c) /\ UNCHANGED linked
    BY <1>1 DEF OpenLive
  <2> HIDE DEF c
  <2>3. Handled(c, c)
    BY <2>1, <2>2 DEF Handled, SeatForgotten, StaysOut
  <2>4. QED BY <2>3
<1> DEFINE c == Claimed(LinkAccount)
<1>2. Steady(c) /\ Finds(State, c)
  BY ClaimedSteady, LiveAssumption
<1> HIDE DEF c
<1>3. Handled(c, c) \/ ~(Becomes(c) /\ UNCHANGED linked)
  BY <1>2 DEF Handled, SeatForgotten, StaysOut
<1>4. ASSUME NEW u \in GsiUpdates, PostGsi(u), WithinBounds PROVE \E x, t : Handled(x, t)
  <2> DEFINE t == IngestGsi(c, u)
  <2>1. Becomes(IF c.session.owner = LinkAccount THEN t ELSE c) /\ UNCHANGED linked
    BY <1>4 DEF PostGsi, ThroughLink, c
  <2>2. Steady(t) /\ SeatForgotten(c, t) /\ StaysOut(c, t)
    BY <1>2, IngestGsiSteady, GsiAssumption
  <2> HIDE DEF t
  <2>3. Becomes(t) => t.entry.draftEpoch <= MaxEpochs
    BY <1>4, <2>2, FitParts DEF WithinBounds, Becomes, Steady
  <2>4. Becomes(t) => Handled(c, t)
    BY <1>2, <2>1, <2>2, <2>3 DEF Handled
  <2>5. QED BY <1>3, <2>1, <2>4
<1>5. ASSUME NEW e \in Envelopes, PostVisual(e) PROVE \E x, t : Handled(x, t)
  <2> DEFINE t == IngestEnvelope(c, e)
  <2>1. /\ Becomes(IF c.session.owner = LinkAccount THEN t ELSE c) /\ UNCHANGED linked
        /\ e.source = "ocr"
    BY <1>5 DEF PostVisual, ThroughLink, c
  <2>2. /\ Steady(t) /\ SeatForgotten(c, t)
        /\ t.entry.draftEpoch = c.entry.draftEpoch /\ StaysOut(c, t)
    BY <1>2, <2>1, IngestEnvelopeSteady, EnvelopesPostable
  <2> HIDE DEF t
  <2>3. Becomes(t) => Handled(c, t)
    BY <1>2, <2>1, <2>2 DEF Handled
  <2>4. QED BY <1>3, <2>1, <2>3
<1>6. ASSUME NEW e \in Envelopes, PostDraftEvent(e), WithinBounds PROVE \E x, t : Handled(x, t)
  <2> DEFINE b == Ensure(State, NoAccount)
             t == IngestEnvelope(b, e)
  <2>1. Steady(b) /\ Finds(State, b)
    BY EnsureSteady DEF IInv
  <2>2. Becomes(t) /\ UNCHANGED linked
    BY <1>6 DEF PostDraftEvent
  <2> HIDE DEF b
  <2>3. Steady(t) /\ SeatForgotten(b, t) /\ (e.source = "ocr" => StaysOut(b, t))
    BY <2>1, IngestEnvelopeSteady, EnvelopesPostable
  <2> HIDE DEF t
  <2>4. t.entry.draftEpoch <= MaxEpochs
    BY <1>6, <2>2, <2>3, FitParts DEF WithinBounds, Becomes, Steady
  <2>5. Handled(b, t)
    BY <1>6, <2>1, <2>2, <2>3, <2>4 DEF Handled
  <2>6. QED BY <2>5
<1>7. ASSUME NEW o \in ManualObservations, PostObservation(o), WithinBounds PROVE \E x, t : Handled(x, t)
  <2> DEFINE b == Ensure(State, NoAccount)
             t == Observe(b, o)
  <2>1. Steady(b) /\ Finds(State, b)
    BY EnsureSteady DEF IInv
  <2>2. Becomes(t) /\ UNCHANGED linked
    BY <1>7 DEF PostObservation
  <2> HIDE DEF b
  <2>3. Steady(t) /\ SeatForgotten(b, t) /\ StaysOut(b, t)
    BY <2>1, ObserveSteady, ManualAssumption
  <2> HIDE DEF t
  <2>4. t.entry.draftEpoch <= MaxEpochs
    BY <1>7, <2>2, <2>3, FitParts DEF WithinBounds, Becomes, Steady
  <2>5. Handled(b, t)
    BY <2>1, <2>2, <2>3, <2>4 DEF Handled
  <2>6. QED BY <2>5
<1>8. ASSUME NEW position \in Positions \cup {NoPosition}, PutHumanPosition(position)
      PROVE  \E x, t : Handled(x, t)
  <2> DEFINE t == Rebuild([c EXCEPT !.session.humanPosition = position])
  <2>1. Becomes(IF c.session.owner = LinkAccount THEN t ELSE c) /\ UNCHANGED linked
    BY <1>8 DEF PutHumanPosition, ThroughLink, c
  <2>2. /\ Steady(t) /\ t.entry.facts = c.entry.facts /\ t.entry.suppressed = c.entry.suppressed
        /\ t.entry.draftEpoch = c.entry.draftEpoch
    BY <1>2, SeatSteady
  <2> HIDE DEF t
  <2>3. Becomes(t) => Handled(c, t)
    BY <1>2, <2>1, <2>2 DEF Handled, SeatForgotten, StaysOut
  <2>4. QED BY <1>3, <2>1, <2>3
<1>9. ~Forget /\ ~Evict /\ ~EngineRestarts
  <2>1. linked \in BOOLEAN
    BY DEF IInv
  <2>2. QED BY <2>1 DEF Dropped, Forget, Evict, EngineRestarts
<1>10. QED BY <1>1, <1>4, <1>5, <1>6, <1>7, <1>8, <1>9 DEF Next

LEMMA EpochsBounded ==
  ASSUME IInv, NEW c, NEW t, Handled(c, t)
  PROVE  t.entry.draftEpoch \in 0..MaxEpochs
<1>1. t.entry.draftEpoch \in Nat
  BY FitParts DEF Handled, Steady, EntryRecs
<1>2. c.entry.draftEpoch = 0 \/ (entry # NoEntry /\ c.entry.draftEpoch = entry.draftEpoch)
  BY DEF Handled, Finds, Untouched, Unknown, State
<1>3. c.entry.draftEpoch <= MaxEpochs
  BY <1>2, LiveAssumption DEF IInv
<1>4. QED BY <1>1, <1>3, LiveAssumption DEF Handled

LEMMA StaleIsGood ==
  ASSUME IInv, VisualGoesStale
  PROVE  /\ IInv' /\ entry'.facts = entry.facts /\ entry'.suppressed = entry.suppressed
         /\ entry'.draftEpoch = entry.draftEpoch
<1> DEFINE e == [entry EXCEPT !.visual = "ok_stale"]
<1>1. entry # NoEntry /\ entry' = e /\ session' = session /\ linked' = linked
  BY DEF VisualGoesStale
<1>2. GoodEntry(entry) /\ entry \in EntryRecs
  BY <1>1 DEF IInv, Good, State, GoodEntry
<1>3. /\ e \in EntryRecs /\ e.facts = entry.facts /\ e.deferred = entry.deferred
      /\ e.rejected = entry.rejected /\ e.eventOrder = entry.eventOrder
      /\ e.suppressed = entry.suppressed /\ e.draftEpoch = entry.draftEpoch
  BY <1>2 DEF EntryRecs
<1> HIDE DEF e
<1>4. GoodEntry(e)
  BY <1>2, <1>3 DEF GoodEntry
<1>5. session # NoSession => session \in SessionRecs /\ Mirrors(State)
  BY <1>1 DEF IInv, Good, State
<1>6. session # NoSession => Mirrors([session |-> session, entry |-> e])
  BY <1>3, <1>5 DEF Mirrors, State
<1>7. Good([session |-> session, entry |-> e])
  BY <1>4, <1>5, <1>6 DEF Good
<1>8. Good(State)'
  <2>1. State' = [session |-> session, entry |-> e]
    BY <1>1 DEF State
  <2>2. QED BY <1>7, <2>1
<1>9. QED BY <1>1, <1>3, <1>8 DEF IInv

LEMMA NextKeepsIInv ==
  ASSUME IInv, [Next]_liveVars
  PROVE  IInv'
<1>1. ASSUME UNCHANGED liveVars PROVE IInv'
  BY <1>1 DEF IInv, liveVars, State, Good, Mirrors, GoodEntry
<1>2. ASSUME Dropped PROVE IInv'
  <2>1. Good(State)'
    <3>1. \/ session' = session /\ entry' = entry
          \/ session' = NoSession \/ entry' = NoEntry
      BY <1>2 DEF Dropped
    <3>2. session' # NoSession => session' \in SessionRecs
      BY <1>2 DEF Dropped, IInv, Good, State
    <3>3. entry' # NoEntry => GoodEntry(entry')
      BY <1>2 DEF Dropped, IInv, Good, State
    <3>4. (session' # NoSession /\ entry' # NoEntry) => Mirrors([session |-> session', entry |-> entry'])
      BY <3>1 DEF IInv, Good, State
    <3>5. Good([session |-> session', entry |-> entry'])
      BY <3>2, <3>3, <3>4 DEF Good
    <3>6. QED BY <3>5 DEF State
  <2>2. QED BY <1>2, <2>1 DEF Dropped, IInv
<1>3. ASSUME NEW c, NEW t, Handled(c, t) PROVE IInv'
  <2>1. Steady(t) /\ session' = t.session /\ entry' = t.entry /\ linked' = linked
    BY <1>3 DEF Handled, Becomes
  <2>2. t \in Fits
    BY <2>1 DEF Steady
  <2>3. t = [session |-> t.session, entry |-> t.entry] /\ t.session \in SessionRecs /\ GoodEntry(t.entry)
    BY <2>2, FitParts
  <2>4. State' = t
    BY <2>1, <2>3 DEF State
  <2>5. Good(t)
    BY <2>1, <2>3 DEF Good, Steady
  <2>6. Good(State)'
    BY <2>4, <2>5
  <2>7. entry'.draftEpoch \in 0..MaxEpochs
    BY <1>3, <2>1, EpochsBounded
  <2>8. QED BY <2>1, <2>6, <2>7 DEF IInv
<1>4. QED BY <1>1, <1>2, <1>3, RequestIsHandled, StaleIsGood

(* At any time what is installed of a session is the replay of its entry's *)
(* facts, whichever handlers ran and whatever was lost in between.         *)
THEOREM Invariance == Spec => []IInv
<1>1. Init => IInv
  BY DEF Init, IInv, Good, State
<1>2. QED BY <1>1, NextKeepsIInv, PTL DEF Spec

----------------------------------------------------------------------------
(* Types                                                                   *)

LEMMA IInvTypes ==
  ASSUME IInv
  PROVE  TypeOK
<1>1. session # NoSession => session \in SessionRecs
  BY DEF IInv, Good, State
<1>2. entry # NoEntry =>
        /\ entry \in EntryRecs /\ IsInjective(entry.eventOrder)
        /\ Len(entry.eventOrder) <= MAX_REMEMBERED_EVENT_IDS
        /\ entry.draftEpoch \in 0..MaxEpochs
  BY DEF IInv, Good, GoodEntry, State
<1>3. ASSUME entry # NoEntry
      PROVE  /\ entry.facts \in LiveFactsSet
             /\ ToSet(entry.eventOrder) \subseteq EventIds
             /\ entry.capture \in {"unknown", "ok", "partial", "other"}
             /\ entry.visual \in {"none", "ok", "ok_stale", "unread", "other"}
             /\ {entry.draftBlock, entry.ended} \subseteq BOOLEAN
             /\ {entry.deferred, entry.rejected} \subseteq Nat
             /\ entry.suppressed \subseteq [side : Sides \cup {NoSide}, heroId : Heroes]
  <2>1. entry \in EntryRecs
    BY <1>2, <1>3
  <2>2. entry.eventOrder \in Seq(EventIds)
    BY <2>1 DEF EntryRecs
  <2>3. ToSet(entry.eventOrder) \subseteq EventIds
    BY <2>2, PicksInSeq
  <2>4. QED BY <2>1, <2>3 DEF EntryRecs, FactKeySet
<1>4. session # NoSession => session \in
        [ stored : {TRUE}, owner : Accounts \cup {NoAccount},
          humanPosition : Positions \cup {NoPosition}, localSide : Sides, draft : Drafts,
          bindings : SUBSET [round : Rounds, slotIndex : Nat, assignedPosition : Positions,
                             provenance : {"EXPLICIT", "LOCAL_PLAYER"}] ]
  BY <1>1 DEF SessionRecs, Bindings
<1>5. QED BY <1>2, <1>3, <1>4 DEF TypeOK, IInv

(* Every handler leaves a session and an entry of the right shape: in      *)
(* particular the ids remembered are distinct and at most the limit.       *)
THEOREM LiveCaptureTypes == Spec => []TypeOK
BY Invariance, IInvTypes, PTL

----------------------------------------------------------------------------
(* What the Player is shown                                                *)

KeyOf(p) == [side |-> p.side, heroId |-> p.heroId]
KeysIn(s) == {KeyOf(p) : p \in ToSet(s)}

(* Picks that name each hero once are as many as their keys.               *)
LEMMA KeysCounted ==
  ASSUME NEW s \in Seq(LivePicks), OnceEach(s)
  PROVE  Cardinality(KeysIn(s)) = Len(s)
<1> DEFINE N == Len(s)
           f == [i \in 1..N |-> KeyOf(s[i])]
<1>1. /\ N \in Nat /\ DOMAIN s = 1..N
      /\ \A i \in 1..N : s[i] \in ToSet(s)
      /\ \A p \in ToSet(s) : \E i \in 1..N : p = s[i]
  BY PicksInSeq
<1>2. \A i \in 1..N : KeyOf(s[i]) \in KeysIn(s)
  BY <1>1 DEF KeysIn
<1>3. \A i, j \in 1..N : KeyOf(s[i]) = KeyOf(s[j]) => i = j
  BY <1>1 DEF KeyOf, OnceEach
<1>4. \A k \in KeysIn(s) : \E i \in 1..N : k = KeyOf(s[i])
  BY <1>1 DEF KeysIn
<1> HIDE DEF N
<1>5. f \in Bijection(1..N, KeysIn(s))
  <2>1. f \in [1..N -> KeysIn(s)] /\ \A i \in 1..N : f[i] = KeyOf(s[i])
    BY <1>2
  <2> HIDE DEF f
  <2>2. \A i, j \in 1..N : f[i] = f[j] => i = j
    BY <2>1, <1>3
  <2>3. \A k \in KeysIn(s) : \E i \in 1..N : f[i] = k
    BY <2>1, <1>4
  <2>4. f \in Injection(1..N, KeysIn(s))
    BY <2>1, <2>2 DEF Injection, IsInjective
  <2>5. f \in Surjection(1..N, KeysIn(s))
    BY <2>1, <2>3 DEF Surjection
  <2>6. QED BY <2>4, <2>5 DEF Bijection
<1>6. ExistsBijection(1..N, KeysIn(s))
  BY <1>5 DEF ExistsBijection
<1>7. QED BY <1>1, <1>6, FS_CountingElements DEF N

LEMMA PicksAreKeys ==
  ASSUME NEW f, SoundFacts(f)
  PROVE  FactPicks(f) = KeysIn(f.picks)
<1>1. f.picks \in Seq(LivePicks) /\ NoSide \notin Sides
  BY DEF SoundFacts, LiveFactsSet, NoSide, Sides
<1>2. /\ \A i \in DOMAIN f.picks : f.picks[i] \in LivePicks /\ f.picks[i] \in ToSet(f.picks)
      /\ \A p \in ToSet(f.picks) : \E i \in DOMAIN f.picks : p = f.picks[i]
  BY <1>1, PicksInSeq
<1>3. \A i \in DOMAIN f.picks : f.picks[i].side # NoSide
  BY <1>1, <1>2 DEF LivePicks
<1>4. QED BY <1>2, <1>3 DEF FactPicks, FactKeys, KeysIn, KeyOf

LEMMA ReplayShows ==
  ASSUME NEW f, SoundFacts(f), NEW r, Replaying(f, r)
  PROVE  /\ r.draft.bannedHeroes = f.bans /\ r.rejected = 0
         /\ ShownSeals(r.draft) \subseteq FactPicks(f)
         /\ Cardinality(FactPicks(f) \ ShownSeals(r.draft)) = Len(r.pending)
<1> DEFINE shown == ShownSeals(r.draft)
<1>1. FactPicks(f) = KeysIn(r.pending) \cup KeysIn(r.seals)
  <2>1. \A s : KeyOf(StatedPick(s)) = KeyOf(s)
    BY DEF KeyOf, StatedPick
  <2>2. ToSet(f.picks) = ToSet(r.pending) \cup {StatedPick(s) : s \in ToSet(r.seals)}
    BY DEF Replaying
  <2>3. KeysIn(f.picks) = KeysIn(r.pending) \cup KeysIn(r.seals)
    BY <2>1, <2>2 DEF KeysIn
  <2>4. QED BY <2>3, PicksAreKeys
<1>2. shown = KeysIn(r.seals)
  <2>1. ASSUME NEW k \in shown PROVE k \in KeysIn(r.seals)
    <3>1. PICK e \in r.draft.sealed \cup r.draft.confirmedPicks : k = KeyOf(e)
      BY DEF ShownSeals, KeyOf
    <3>2. PICK s \in ToSet(r.seals) : s.side = e.side /\ s.heroId = e.heroId
      BY DEF Replaying
    <3>3. QED BY <3>1, <3>2 DEF KeyOf, KeysIn
  <2>2. ASSUME NEW s \in ToSet(r.seals) PROVE KeyOf(s) \in shown
    <3>1. HeldAt(r.draft, s)
      BY DEF Replaying
    <3>2. \E e \in r.draft.sealed \cup r.draft.confirmedPicks : e.side = s.side /\ e.heroId = s.heroId
      BY <3>1 DEF HeldAt
    <3>3. QED BY <3>2 DEF ShownSeals, KeyOf
  <2>3. QED BY <2>1, <2>2 DEF KeysIn
<1>3. KeysIn(r.pending) \cap KeysIn(r.seals) = {}
  <2>1. \A p \in ToSet(r.pending), s \in ToSet(r.seals) : KeyOf(p) # KeyOf(s)
    BY DEF Replaying, KeyOf
  <2>2. QED BY <2>1 DEF KeysIn
<1>4. FactPicks(f) \ shown = KeysIn(r.pending)
  BY <1>1, <1>2, <1>3
<1>5. r.pending \in Seq(LivePicks) /\ OnceEach(r.pending) /\ r.rejected = 0
      /\ r.draft.bannedHeroes = f.bans
  BY DEF Replaying
<1>6. QED BY <1>1, <1>2, <1>4, <1>5, KeysCounted

LEMMA TrackedMirrors ==
  ASSUME IInv, Tracked
  PROVE  /\ State \in Fits /\ Mirrors(State)
         /\ SoundFacts(entry.facts) /\ Replaying(entry.facts, ReplayPicks(entry.facts))
<1>1. session \in SessionRecs /\ GoodEntry(entry) /\ Mirrors(State)
  BY DEF IInv, Tracked, Good, State
<1>2. State \in Fits
  BY <1>1, FitOf DEF State
<1>3. QED BY <1>1, <1>2, ReplayedPicks DEF GoodEntry

(* Whatever was said, in whatever order, the draft installed holds the     *)
(* banned heroes of the facts and all their picks but the deferred ones.   *)
THEOREM FactsAreShown == Spec => []DraftShowsTheFacts
<1>1. IInv => DraftShowsTheFacts
  <2> SUFFICES ASSUME IInv, Tracked PROVE DraftShowsTheFacts
    BY DEF DraftShowsTheFacts
  <2> DEFINE r == ReplayPicks(entry.facts)
  <2>1. Mirrors(State) /\ SoundFacts(entry.facts) /\ Replaying(entry.facts, r)
    BY TrackedMirrors
  <2>2. session.draft = r.draft /\ entry.deferred = Len(r.pending) /\ entry.rejected = r.rejected
    BY <2>1 DEF Mirrors, State
  <2> HIDE DEF r
  <2>3. QED BY <2>1, <2>2, ReplayShows DEF DraftShowsTheFacts
<1>2. QED BY <1>1, Invariance, PTL

----------------------------------------------------------------------------
(* The seats of a replayed draft, counted                                  *)

LEMMA CountTo ==
  ASSUME NEW n \in Nat
  PROVE  IsFiniteSet(1..n) /\ Cardinality(1..n) = n
<1>1. IsFiniteSet(1..n) /\ Cardinality(1..n) = IF 1 > n THEN 0 ELSE n - 1 + 1
  BY FS_Interval
<1>2. QED BY <1>1

LEMMA SeatsAreFinite ==
  ASSUME NEW n \in Nat, n <= NumRounds
  PROVE  IsFiniteSet(SeatsThrough(n))
<1> DEFINE seats(k) == {k} \X (0..(ROUND_CAPACITY[k] - 1))
           S == {seats(k) : k \in 1..n}
           g == [k \in 1..n |-> seats(k)]
<1>1. ASSUME NEW k \in 1..n PROVE IsFiniteSet(seats(k))
  <2> DEFINE last == ROUND_CAPACITY[k] - 1
  <2>1. last \in Int
    BY RoundsAssumption, CapacityAssumption
  <2> HIDE DEF last
  <2>2. IsFiniteSet(0..last)
    BY <2>1, FS_Interval
  <2>3. IsFiniteSet({k} \X (0..last))
    BY <2>2, FS_Singleton, FS_Product
  <2>4. QED BY <2>3 DEF last
<1>2. IsFiniteSet(S)
  <2>1. g \in Surjection(1..n, S)
    BY DEF Surjection
  <2>2. IsFiniteSet(1..n)
    BY CountTo
  <2> HIDE DEF g, S
  <2>3. QED BY <2>1, <2>2, FS_Surjection
<1>3. SeatsThrough(n) = UNION S
  BY DEF SeatsThrough
<1>4. \A T \in S : IsFiniteSet(T)
  BY <1>1
<1> HIDE DEF S
<1>5. QED BY <1>2, <1>3, <1>4, FS_UNION

LEMMA SeatThrough ==
  ASSUME NEW n \in Int, NEW k, NEW j
  PROVE  <<k, j>> \in SeatsThrough(n) <=> k \in 1..n /\ j \in 0..(ROUND_CAPACITY[k] - 1)
BY DEF SeatsThrough

LEMMA SeatsGrow ==
  ASSUME NEW n \in Nat, NEW m \in Nat, n <= m, m <= NumRounds
  PROVE  /\ SeatsThrough(n) \subseteq SeatsThrough(m)
         /\ SlotsThrough(n) \in Nat /\ SlotsThrough(n) <= SlotsThrough(m)
<1>1. SeatsThrough(n) \subseteq SeatsThrough(m)
  BY DEF SeatsThrough
<1>2. IsFiniteSet(SeatsThrough(m)) /\ IsFiniteSet(SeatsThrough(n))
  BY RoundsAssumption, SeatsAreFinite
<1>3. QED BY <1>1, <1>2, FS_Subset, FS_CardinalityType DEF SlotsThrough

(* The seals of a side, the seats they take, and the slots a draft holds.  *)
SealsOf(r, side) == {s \in ToSet(r.seals) : s.side = side}
TakenSeats(r, side) == {<<s.round, s.slotIndex>> : s \in SealsOf(r, side)}
SlotAt(side, j) == [side |-> side, slotIndex |-> j]
HoldsSlot(d, side, k, j) ==
  \/ d.round # 0 /\ k = d.round /\ SlotAt(side, j) \in SlotsOf(d.sealed)
  \/ k \in Rounds /\ SlotAt(side, j) \in ConfirmedSlots(d, k)

LEMMA TakenIsHeld ==
  ASSUME NEW f, NEW r, Replaying(f, r), NEW side, NEW k, NEW j
  PROVE  <<k, j>> \in TakenSeats(r, side) <=> HoldsSlot(r.draft, side, k, j)
<1> DEFINE d == r.draft
<1>1. Sound(d) /\ d \in Drafts /\ r.seals \in Seq(LiveSeals)
  BY DEF Replaying
<1>2. \A s \in ToSet(r.seals) : s \in LiveSeals /\ HeldAt(d, s)
  BY <1>1, PicksInSeq DEF Replaying
<1>3. ASSUME NEW s \in SealsOf(r, side) PROVE HoldsSlot(d, side, s.round, s.slotIndex)
  <2>1. s \in LiveSeals /\ HeldAt(d, s) /\ s.side = side
    BY <1>2 DEF SealsOf
  <2>2. s.round \in Rounds /\ s.round # 0
    BY <2>1, RoundsAssumption DEF LiveSeals, Rounds
  <2>3. CASE s.round = d.round
               /\ [side |-> s.side, slotIndex |-> s.slotIndex, heroId |-> s.heroId] \in d.sealed
    BY <2>1, <2>2, <2>3 DEF HoldsSlot, SlotAt, SlotsOf, SlotOf
  <2>4. CASE [side |-> s.side, round |-> s.round, slotIndex |-> s.slotIndex, heroId |-> s.heroId]
               \in d.confirmedPicks
    BY <2>1, <2>2, <2>4 DEF HoldsSlot, SlotAt, ConfirmedSlots, SlotsOf, SlotOf
  <2>5. QED BY <2>1, <2>3, <2>4 DEF HeldAt
<1>4. ASSUME NEW e \in d.sealed \cup d.confirmedPicks
      PROVE  \E s \in SealsOf(r, e.side) : s.heroId = e.heroId
  BY DEF Replaying, SealsOf
<1>5. \A e \in d.sealed, p \in d.confirmedPicks : e.heroId # p.heroId
  BY <1>1 DEF Sound, HeldOnce, HeroAlreadyTaken, HeroesOf
<1>6. ASSUME NEW e \in d.sealed, d.round # 0, SlotOf(e) = SlotAt(side, j)
      PROVE  <<d.round, j>> \in TakenSeats(r, side)
  <2>1. e.side = side /\ e.slotIndex = j
    BY <1>6 DEF SlotOf, SlotAt
  <2>2. PICK s \in SealsOf(r, side) : s.heroId = e.heroId
    BY <1>4, <2>1
  <2>3. HeldAt(d, s) /\ s.side = side
    BY <1>2 DEF SealsOf
  <2>4. s.round = d.round
        /\ [side |-> s.side, slotIndex |-> s.slotIndex, heroId |-> s.heroId] \in d.sealed
    BY <1>5, <2>2, <2>3 DEF HeldAt
  <2>5. [side |-> s.side, slotIndex |-> s.slotIndex, heroId |-> s.heroId] = e
    BY <1>1, <2>1, <2>2, <2>3, <2>4 DEF Sound, HeldOnce
  <2>6. s.slotIndex = j
    BY <2>1, <2>5
  <2>7. QED BY <2>4, <2>6 DEF TakenSeats
<1>7. ASSUME NEW p \in d.confirmedPicks, SlotOf(p) = SlotAt(side, j)
      PROVE  <<p.round, j>> \in TakenSeats(r, side)
  <2>1. p.side = side /\ p.slotIndex = j
    BY <1>7 DEF SlotOf, SlotAt
  <2>2. PICK s \in SealsOf(r, side) : s.heroId = p.heroId
    BY <1>4, <2>1
  <2>3. HeldAt(d, s) /\ s.side = side
    BY <1>2 DEF SealsOf
  <2>4. [side |-> s.side, round |-> s.round, slotIndex |-> s.slotIndex, heroId |-> s.heroId]
          \in d.confirmedPicks
    BY <1>5, <2>2, <2>3 DEF HeldAt
  <2>5. [side |-> s.side, round |-> s.round, slotIndex |-> s.slotIndex, heroId |-> s.heroId] = p
    BY <1>1, <2>2, <2>4 DEF Sound, HeldOnce
  <2>6. s.slotIndex = j /\ s.round = p.round
    BY <2>1, <2>5
  <2>7. QED BY <2>6 DEF TakenSeats
<1>8. ASSUME <<k, j>> \in TakenSeats(r, side) PROVE HoldsSlot(d, side, k, j)
  BY <1>3, <1>8 DEF TakenSeats
<1>9. ASSUME HoldsSlot(d, side, k, j) PROVE <<k, j>> \in TakenSeats(r, side)
  BY <1>6, <1>7, <1>9 DEF HoldsSlot, ConfirmedSlots, SlotsOf
<1>10. QED BY <1>8, <1>9

(* The round in play, or the last one when the draft is complete.          *)
InPlay(d) == IF d.phase \in Rounds THEN d.phase ELSE NumRounds

LEMMA InSlots ==
  ASSUME NEW side \in Sides, NEW k, NEW j
  PROVE  SlotAt(side, j) \in Slots(k) <=> j \in 0..(ROUND_CAPACITY[k] - 1)
<1>1. SlotAt(side, j).slotIndex = j
  BY DEF SlotAt
<1>2. QED BY <1>1 DEF SlotAt, Slots

LEMMA OpenSlot ==
  ASSUME NEW d \in Drafts, NEW side, NEW j
  PROVE  j \in OpenFor(d, side) <=> d.round # 0 /\ SlotAt(side, j) \in d.openSlots
<1>1. d.openSlots \in SUBSET [side : Sides, slotIndex : Nat]
  BY DEF Drafts
<1>2. ASSUME j \in OpenFor(d, side) PROVE d.round # 0 /\ SlotAt(side, j) \in d.openSlots
  <2>1. PICK t \in LegalGameplayActions(d) : t.side = side /\ t.slotIndex = j
    BY <1>2 DEF OpenFor
  <2>2. d.round # 0 /\ t \in d.openSlots
    BY DEF LegalGameplayActions
  <2>3. t = SlotAt(side, j)
    BY <1>1, <2>1, <2>2 DEF SlotAt
  <2>4. QED BY <2>2, <2>3
<1>3. ASSUME d.round # 0, SlotAt(side, j) \in d.openSlots PROVE j \in OpenFor(d, side)
  <2>1. SlotAt(side, j).side = side /\ SlotAt(side, j).slotIndex = j
    BY DEF SlotAt
  <2>2. SlotAt(side, j) \in LegalGameplayActions(d)
    BY <1>3 DEF LegalGameplayActions
  <2>3. QED BY <2>1, <2>2 DEF OpenFor
<1>4. QED BY <1>2, <1>3

(* A sound draft past its bans holds a side's slots of the earlier rounds  *)
(* and those of the round in play that are not open.                       *)
LEMMA HeldSlots ==
  ASSUME NEW d, Sound(d), d.phase # BAN_RESOLUTION, NEW side \in Sides, NEW k, NEW j
  PROVE  HoldsSlot(d, side, k, j)
           <=> <<k, j>> \in SeatsThrough(InPlay(d)) /\ ~(k = InPlay(d) /\ j \in OpenFor(d, side))
<1> DEFINE R == InPlay(d)
           slot == SlotAt(side, j)
<1>1. d \in Drafts /\ Conserved(d) /\ d.phase \in 1..(NumRounds + 1) /\ NumRounds \in Nat \ {0}
  BY RoundsAssumption DEF Sound, Drafts, BAN_RESOLUTION, COMPLETE
<1>2. R \in Rounds /\ R \in Int
  BY <1>1, RoundsAssumption DEF InPlay, Rounds
<1>3. /\ <<k, j>> \in SeatsThrough(R) <=> k \in 1..R /\ j \in 0..(ROUND_CAPACITY[k] - 1)
      /\ slot \in Slots(k) <=> j \in 0..(ROUND_CAPACITY[k] - 1)
      /\ j \in OpenFor(d, side) <=> d.round # 0 /\ slot \in d.openSlots
  BY <1>1, <1>2, SeatThrough, InSlots, OpenSlot
<1>4. HoldsSlot(d, side, k, j)
        <=> \/ d.round # 0 /\ k = d.round /\ slot \in SlotsOf(d.sealed)
            \/ k \in Rounds /\ slot \in ConfirmedSlots(d, k)
  BY DEF HoldsSlot
<1>5. \A n \in Rounds : /\ n < d.phase => ConfirmedSlots(d, n) = Slots(n)
                        /\ n > d.phase => ConfirmedSlots(d, n) = {}
  BY <1>1 DEF Conserved
<1> HIDE DEF slot
<1>6. CASE d.phase \in Rounds
  <2>1. d.round = d.phase /\ R = d.phase /\ d.round # 0
    BY <1>1, <1>6 DEF Conserved, InPlay
  <2>2. /\ d.openSlots \cup SlotsOf(d.sealed) \cup ConfirmedSlots(d, R) = Slots(R)
        /\ d.openSlots \cap SlotsOf(d.sealed) = {}
        /\ d.openSlots \cap ConfirmedSlots(d, R) = {}
    BY <1>1, <2>1 DEF Conserved
  <2> HIDE DEF R
  <2>3. CASE k = R
    <3>1. HoldsSlot(d, side, k, j) <=> slot \in Slots(k) /\ slot \notin d.openSlots
      BY <1>2, <1>4, <2>1, <2>2, <2>3
    <3>2. k \in 1..R
      BY <1>2, <2>3 DEF Rounds
    <3>3. QED BY <1>3, <2>1, <2>3, <3>1, <3>2 DEF R
  <2>4. CASE k # R /\ k \in Rounds
    <3>1. HoldsSlot(d, side, k, j) <=> slot \in ConfirmedSlots(d, k)
      BY <1>4, <2>1, <2>4
    <3>2. (k < d.phase /\ k \in 1..R) \/ (k > d.phase /\ k \notin 1..R)
      BY <1>1, <1>2, <2>1, <2>4 DEF Rounds
    <3>3. HoldsSlot(d, side, k, j) <=> k \in 1..R /\ slot \in Slots(k)
      BY <1>5, <2>4, <3>1, <3>2
    <3>4. QED BY <1>3, <2>4, <3>3 DEF R
  <2>5. CASE k \notin Rounds
    <3>1. k # R /\ k \notin 1..R
      BY <1>1, <1>2, <2>5 DEF Rounds
    <3>2. QED BY <1>3, <1>4, <2>1, <2>5, <3>1 DEF R
  <2>6. QED BY <2>3, <2>4, <2>5
<1>7. CASE d.phase \notin Rounds
  <2>1. d.round = 0 /\ R = NumRounds /\ d.phase = NumRounds + 1
    BY <1>1, <1>7 DEF Conserved, InPlay, Rounds
  <2>2. \A n \in Rounds : ConfirmedSlots(d, n) = Slots(n)
    BY <1>1, <1>5, <2>1 DEF Rounds
  <2> HIDE DEF R
  <2>3. HoldsSlot(d, side, k, j) <=> k \in 1..R /\ slot \in Slots(k)
    BY <1>4, <2>1, <2>2 DEF Rounds
  <2>4. QED BY <1>3, <2>1, <2>3 DEF R
<1>8. QED BY <1>6, <1>7

(* So a side has taken the seats of the earlier rounds, and all up to the  *)
(* round in play exactly when it has no open slot.                         *)
LEMMA TakenInPlay ==
  ASSUME NEW f, NEW r, Replaying(f, r), r.draft.phase # BAN_RESOLUTION, NEW side \in Sides,
         NEW R, R = InPlay(r.draft)
  PROVE  /\ R \in Rounds
         /\ SeatsThrough(R - 1) \subseteq TakenSeats(r, side)
         /\ TakenSeats(r, side) \subseteq SeatsThrough(R)
         /\ OpenFor(r.draft, side) = {} <=> TakenSeats(r, side) = SeatsThrough(R)
<1> DEFINE d == r.draft
<1>1. Sound(d) /\ d \in Drafts
  BY DEF Replaying
<1>2. R \in Rounds /\ R \in Int
  BY <1>1, RoundsAssumption DEF InPlay, Rounds
<1>3. ASSUME NEW k, NEW j
      PROVE  <<k, j>> \in TakenSeats(r, side)
               <=> <<k, j>> \in SeatsThrough(R) /\ ~(k = R /\ j \in OpenFor(d, side))
  BY <1>1, TakenIsHeld, HeldSlots
<1>4. /\ \A x \in TakenSeats(r, side) : \E k, j : x = <<k, j>>
      /\ \A n : \A x \in SeatsThrough(n) : \E k, j : x = <<k, j>>
  BY DEF TakenSeats, SeatsThrough
<1>5. TakenSeats(r, side) \subseteq SeatsThrough(R)
  BY <1>3, <1>4
<1>6. \A k, j : <<k, j>> \in SeatsThrough(R - 1) => <<k, j>> \in SeatsThrough(R) /\ k # R
  BY <1>2, SeatThrough
<1>7. SeatsThrough(R - 1) \subseteq TakenSeats(r, side)
  BY <1>3, <1>4, <1>6
<1>8. ASSUME NEW j \in OpenFor(d, side) PROVE <<R, j>> \in SeatsThrough(R)
  <2>1. d.round # 0 /\ SlotAt(side, j) \in d.openSlots
    BY <1>1, OpenSlot
  <2>2. R = d.round /\ SlotAt(side, j) \in Slots(R)
    BY <1>1, <2>1 DEF Sound, Conserved, InPlay
  <2>3. j \in 0..(ROUND_CAPACITY[R] - 1) /\ R \in 1..R
    BY <1>2, <2>2, InSlots DEF Rounds
  <2>4. QED BY <1>2, <2>3, SeatThrough
<1>9. (\E j : j \in OpenFor(d, side)) => TakenSeats(r, side) # SeatsThrough(R)
  BY <1>3, <1>8
<1>10. OpenFor(d, side) = {} => SeatsThrough(R) \subseteq TakenSeats(r, side)
  BY <1>3, <1>4
<1>11. QED BY <1>2, <1>5, <1>7, <1>9, <1>10

LEMMA SameCount ==
  ASSUME NEW S, IsFiniteSet(S), NEW T, NEW g \in [S -> T],
         \A x, y \in S : g[x] = g[y] => x = y,
         \A t \in T : \E x \in S : g[x] = t
  PROVE  IsFiniteSet(T) /\ Cardinality(T) = Cardinality(S)
<1>1. g \in Bijection(S, T)
  BY DEF Bijection, Injection, Surjection, IsInjective
<1>2. ExistsBijection(S, T)
  BY <1>1 DEF ExistsBijection
<1>3. QED BY <1>2, FS_Bijection

LEMMA TakenCount ==
  ASSUME NEW f, NEW r, Replaying(f, r), NEW side
  PROVE  /\ IsFiniteSet(SealsOf(r, side))
         /\ Cardinality(TakenSeats(r, side)) = Cardinality(SealsOf(r, side))
<1> DEFINE S == SealsOf(r, side)
           g == [s \in S |-> <<s.round, s.slotIndex>>]
<1>1. r.seals \in Seq(LiveSeals) /\ OnceEach(r.seals) /\ Sound(r.draft)
  BY DEF Replaying
<1>2. IsFiniteSet(S)
  <2> DEFINE at == [i \in DOMAIN r.seals |-> r.seals[i]]
  <2>1. DOMAIN r.seals = 1..Len(r.seals) /\ Len(r.seals) \in Nat
    BY <1>1, PicksInSeq
  <2>2. IsFiniteSet(DOMAIN r.seals)
    BY <2>1, CountTo
  <2>3. at \in Surjection(DOMAIN r.seals, ToSet(r.seals))
    BY DEF Surjection, ToSet
  <2> HIDE DEF at
  <2>4. IsFiniteSet(ToSet(r.seals))
    BY <2>2, <2>3, FS_Surjection
  <2>5. S \in SUBSET ToSet(r.seals)
    BY DEF SealsOf
  <2> HIDE DEF S
  <2>6. QED BY <2>4, <2>5, FS_Subset
<1>3. ASSUME NEW s \in S, NEW t \in S, g[s] = g[t] PROVE s = t
  <2>1. s \in ToSet(r.seals) /\ t \in ToSet(r.seals) /\ s.side = t.side
    BY DEF SealsOf
  <2>2. s.round = t.round /\ s.slotIndex = t.slotIndex
    BY <1>3
  <2>3. HeldAt(r.draft, s) /\ HeldAt(r.draft, t)
    BY <2>1 DEF Replaying
  <2>4. s.heroId = t.heroId
    BY <1>1, <2>1, <2>2, <2>3, HeldOnePerSlot
  <2>5. QED BY <1>1, <2>1, <2>4, PicksInSeq DEF OnceEach
<1>4. g \in [S -> TakenSeats(r, side)] /\ \A x \in TakenSeats(r, side) : \E s \in S : g[s] = x
  BY DEF TakenSeats
<1> HIDE DEF S, g
<1>5. Cardinality(TakenSeats(r, side)) = Cardinality(S)
  BY <1>2, <1>3, <1>4, SameCount
<1>6. QED BY <1>2, <1>5 DEF S

(* The picks of one side in a sequence, by index and by value.             *)
AtSide(q, side) == {i \in DOMAIN q : q[i].side = side}
OfSide(q, side) == {p \in ToSet(q) : p.side = side}

LEMMA SideCount ==
  ASSUME NEW q \in Seq(LivePicks), OnceEach(q), NEW side
  PROVE  /\ IsFiniteSet(OfSide(q, side)) /\ IsFiniteSet(AtSide(q, side))
         /\ Cardinality(AtSide(q, side)) \in Nat
         /\ Cardinality(OfSide(q, side)) = Cardinality(AtSide(q, side))
<1> DEFINE g == [i \in AtSide(q, side) |-> q[i]]
<1>1. DOMAIN q = 1..Len(q) /\ Len(q) \in Nat
  BY PicksInSeq
<1>2. IsFiniteSet(AtSide(q, side))
  <2>1. IsFiniteSet(1..Len(q))
    BY <1>1, CountTo
  <2>2. AtSide(q, side) \in SUBSET (1..Len(q))
    BY <1>1 DEF AtSide
  <2>3. QED BY <2>1, <2>2, FS_Subset
<1>3. g \in [AtSide(q, side) -> OfSide(q, side)]
  BY PicksInSeq DEF AtSide, OfSide
<1>4. \A i, j \in AtSide(q, side) : g[i] = g[j] => i = j
  BY DEF AtSide, OnceEach
<1>5. \A p \in OfSide(q, side) : \E i \in AtSide(q, side) : g[i] = p
  BY PicksInSeq DEF AtSide, OfSide
<1> HIDE DEF g
<1>6. QED BY <1>2, <1>3, <1>4, <1>5, SameCount, FS_CardinalityType

LEMMA BothSides ==
  ASSUME NEW q \in Seq(LivePicks), OnceEach(q)
  PROVE  Len(q) = Cardinality(AtSide(q, "radiant")) + Cardinality(AtSide(q, "dire"))
<1> DEFINE R == AtSide(q, "radiant")
           D == AtSide(q, "dire")
<1>1. DOMAIN q = 1..Len(q) /\ Len(q) \in Nat /\ \A i \in DOMAIN q : q[i].side \in Sides
  <2>1. \A p \in LivePicks : p.side \in Sides
    BY DEF LivePicks
  <2>2. QED BY <2>1, PicksInSeq
<1>2. R \cup D = 1..Len(q) /\ R \cap D = {}
  BY <1>1 DEF AtSide, Sides
<1>3. Cardinality(1..Len(q)) = Len(q)
  <2>1. \A n \in Nat : Cardinality(1..n) = n
    BY CountTo
  <2>2. QED BY <1>1, <2>1
<1>4. IsFiniteSet(R) /\ IsFiniteSet(D) /\ Cardinality(R) \in Nat /\ Cardinality(D) \in Nat
  BY SideCount
<1> HIDE DEF R, D
<1>5. Cardinality(R \cap D) = 0
  BY <1>2, FS_EmptySet
<1>6. Cardinality(R \cup D) = Cardinality(R) + Cardinality(D) - Cardinality(R \cap D)
  BY <1>4, FS_Union
<1>7. Len(q) = Cardinality(R) + Cardinality(D)
  <2>1. Cardinality(R \cup D) = Len(q)
    BY <1>2, <1>3, Zenon
  <2>2. Cardinality(R) + Cardinality(D) - 0 = Len(q)
    BY <1>5, <1>6, <2>1
  <2>3. QED BY <1>4, <2>2
<1>8. QED BY <1>7 DEF R, D

(* A side's picks are its pending ones and as many as it has taken seats.  *)
LEMMA PicksOfSideCount ==
  ASSUME NEW f, SoundFacts(f), NEW r, Replaying(f, r), NEW side
  PROVE  /\ IsFiniteSet(TakenSeats(r, side)) /\ Cardinality(TakenSeats(r, side)) \in Nat
         /\ Cardinality(AtSide(r.pending, side)) \in Nat
         /\ Cardinality(PicksOfSide(f, side))
              = Cardinality(AtSide(r.pending, side)) + Cardinality(TakenSeats(r, side))
<1> DEFINE S == SealsOf(r, side)
           W == {StatedPick(s) : s \in S}
           P == OfSide(r.pending, side)
           g == [s \in S |-> StatedPick(s)]
<1>1. /\ f.picks \in Seq(LivePicks) /\ OnceEach(f.picks)
      /\ r.pending \in Seq(LivePicks) /\ OnceEach(r.pending)
      /\ r.seals \in Seq(LiveSeals) /\ OnceEach(r.seals)
      /\ ToSet(f.picks) = ToSet(r.pending) \cup {StatedPick(s) : s \in ToSet(r.seals)}
      /\ \A p \in ToSet(r.pending), s \in ToSet(r.seals) : p.heroId # s.heroId
  BY DEF SoundFacts, LiveFactsSet, Replaying
<1>2. \A s : StatedPick(s).side = s.side /\ StatedPick(s).heroId = s.heroId
  BY DEF StatedPick
<1>3. OfSide(f.picks, side) = P \cup W
  <2>1. ASSUME NEW p \in OfSide(f.picks, side) PROVE p \in P \cup W
    BY <1>1, <1>2 DEF OfSide, SealsOf
  <2>2. ASSUME NEW p \in P \cup W PROVE p \in OfSide(f.picks, side)
    BY <1>1, <1>2 DEF OfSide, SealsOf
  <2>3. QED BY <2>1, <2>2
<1>4. P \cap W = {}
  BY <1>1, <1>2 DEF OfSide, SealsOf
<1>5. IsFiniteSet(S) /\ Cardinality(TakenSeats(r, side)) = Cardinality(S)
  BY TakenCount
<1>6. IsFiniteSet(W) /\ Cardinality(W) = Cardinality(S)
  <2>1. \A s, t \in S : g[s] = g[t] => s = t
    <3>1. ASSUME NEW s \in S, NEW t \in S, g[s] = g[t] PROVE s = t
      <4>1. s \in ToSet(r.seals) /\ t \in ToSet(r.seals)
        BY DEF SealsOf
      <4>2. s.heroId = t.heroId
        BY <1>2, <3>1
      <4>3. QED BY <1>1, <4>1, <4>2, PicksInSeq DEF OnceEach
    <3>2. QED BY <3>1
  <2>2. g \in [S -> W] /\ \A p \in W : \E s \in S : g[s] = p
    OBVIOUS
  <2> HIDE DEF S, W, g
  <2>3. QED BY <1>5, <2>1, <2>2, SameCount
<1>7. /\ IsFiniteSet(P) /\ Cardinality(P) = Cardinality(AtSide(r.pending, side))
      /\ Cardinality(AtSide(r.pending, side)) \in Nat
      /\ Cardinality(OfSide(f.picks, side)) = Cardinality(AtSide(f.picks, side))
  BY <1>1, SideCount
<1>8. PicksOfSide(f, side) = AtSide(f.picks, side)
  BY DEF PicksOfSide, AtSide
<1>9. IsFiniteSet(TakenSeats(r, side))
  <2> DEFINE h == [s \in S |-> <<s.round, s.slotIndex>>]
  <2>1. h \in Surjection(S, TakenSeats(r, side))
    BY DEF Surjection, TakenSeats
  <2> HIDE DEF h, S
  <2>2. QED BY <1>5, <2>1, FS_Surjection
<1> HIDE DEF S, W, P, g
<1>10. Cardinality(P \cup W) = Cardinality(P) + Cardinality(W) - Cardinality(P \cap W)
  BY <1>6, <1>7, FS_Union
<1>11. Cardinality(P \cap W) = 0 /\ Cardinality(W) \in Nat
  BY <1>4, <1>6, FS_EmptySet, FS_CardinalityType
<1>12. QED BY <1>3, <1>5, <1>6, <1>7, <1>8, <1>9, <1>10, <1>11

LEMMA MaxOf ==
  ASSUME NEW S \in SUBSET Nat, NEW m \in S, \A x \in S : x <= m
  PROVE  Max(S) = m
<1>1. \A y \in S : (\A x \in S : x <= y) => y = m
  OBVIOUS
<1>2. QED BY <1>1 DEF Max

LEMMA MinOfTwo ==
  ASSUME NEW a \in Nat, NEW b \in Nat
  PROVE  Min({a, b}) = IF a <= b THEN a ELSE b
<1>1. CASE a <= b
  <2>1. \A y \in {a, b} : (\A x \in {a, b} : y <= x) => y = a
    BY <1>1
  <2>2. a \in {a, b} /\ \A x \in {a, b} : a <= x
    BY <1>1
  <2>3. QED BY <1>1, <2>1, <2>2 DEF Min
<1>2. CASE ~(a <= b)
  <2>1. \A y \in {a, b} : (\A x \in {a, b} : y <= x) => y = b
    BY <1>2
  <2>2. b \in {a, b} /\ \A x \in {a, b} : b <= x
    BY <1>2
  <2>3. QED BY <1>2, <2>1, <2>2 DEF Min
<1>3. QED BY <1>1, <1>2

(* While a round is in play one side has an open slot in it.               *)
LEMMA SomeSideOpen ==
  ASSUME NEW d, Sound(d), d.pendingCollision = NoHero, d.phase \in Rounds
  PROVE  \E side \in Sides : OpenFor(d, side) # {}
<1>1. d \in Drafts /\ d.openSlots \in SUBSET [side : Sides, slotIndex : Nat]
  BY DEF Sound, Drafts
<1>2. d.round # 0
  BY RoundsAssumption DEF Sound, Conserved, Rounds
<1>3. PICK t \in d.openSlots : TRUE
  BY <1>2 DEF Sound, WaitsRightly
<1>4. t.side \in Sides
  BY <1>1
<1>5. t.slotIndex \in OpenFor(d, t.side)
  BY <1>2 DEF OpenFor, LegalGameplayActions
<1>6. QED BY <1>4, <1>5

(* The count of a side's taken seats is what DeferredMeansMissing says, of *)
(* a replay that has nothing left to do.                                   *)
LEMMA PlacedIsTaken ==
  ASSUME NEW f, SoundFacts(f), Picking(f), NEW r, Replaying(f, r), NoneReady(r),
         r.draft.phase # BAN_RESOLUTION, NEW side \in Sides
  PROVE  Placed(f, side) = Cardinality(TakenSeats(r, side))
<1> DEFINE d == r.draft
           R == InPlay(d)
           picks(w) == Cardinality(PicksOfSide(f, w))
           taken(w) == Cardinality(TakenSeats(r, w))
           waiting(w) == Cardinality(AtSide(r.pending, w))
<1>1. /\ d \in Drafts /\ Sound(d) /\ d.pendingCollision = NoHero
      /\ r.pending \in Seq(LivePicks) /\ OnceEach(r.pending)
  BY DEF Replaying
<1>2. R \in Rounds /\ R \in Nat /\ R - 1 \in Nat /\ R <= NumRounds /\ NumRounds \in Nat
  BY <1>1, RoundsAssumption DEF InPlay, Rounds
<1>3. ASSUME NEW w \in Sides
      PROVE  /\ picks(w) = waiting(w) + taken(w) /\ waiting(w) \in Nat /\ taken(w) \in Nat
             /\ SlotsThrough(R - 1) <= taken(w) /\ taken(w) <= SlotsThrough(R)
             /\ SlotsThrough(R - 1) \in Nat /\ SlotsThrough(R) \in Nat
             /\ OpenFor(d, w) = {} => taken(w) = SlotsThrough(R)
             /\ OpenFor(d, w) # {} => waiting(w) = 0 /\ taken(w) # SlotsThrough(R)
  <2>1. /\ SeatsThrough(R - 1) \subseteq TakenSeats(r, w)
        /\ TakenSeats(r, w) \subseteq SeatsThrough(R)
        /\ OpenFor(d, w) = {} <=> TakenSeats(r, w) = SeatsThrough(R)
    BY TakenInPlay
  <2>2. /\ IsFiniteSet(TakenSeats(r, w)) /\ taken(w) \in Nat /\ waiting(w) \in Nat
        /\ picks(w) = waiting(w) + taken(w)
    BY PicksOfSideCount
  <2>3. OpenFor(d, w) # {} => waiting(w) = 0
    <3>1. OpenFor(d, w) # {} => AtSide(r.pending, w) = {}
      BY DEF NoneReady, AtSide
    <3>2. QED BY <3>1, FS_EmptySet
  <2>4. IsFiniteSet(SeatsThrough(R)) /\ SlotsThrough(R) \in Nat /\ SlotsThrough(R - 1) \in Nat
    BY <1>2, SeatsAreFinite, SeatsGrow
  <2> HIDE DEF R, d
  <2>5. SlotsThrough(R - 1) <= taken(w)
    BY <2>1, <2>2, FS_Subset DEF SlotsThrough
  <2>6. taken(w) <= SlotsThrough(R) /\ (taken(w) = SlotsThrough(R) => TakenSeats(r, w) = SeatsThrough(R))
    BY <2>1, <2>4, FS_Subset DEF SlotsThrough
  <2>7. TakenSeats(r, w) = SeatsThrough(R) => taken(w) = SlotsThrough(R)
    BY DEF SlotsThrough
  <2> HIDE DEF picks, taken, waiting
  <2>8. QED BY <2>1, <2>2, <2>3, <2>4, <2>5, <2>6, <2>7
<1>4. d.phase \in Rounds => \E w \in Sides : OpenFor(d, w) # {}
  BY <1>1, SomeSideOpen
<1>5. R \in Reached(f)
  BY <1>2, <1>3 DEF Reached
<1>6. ASSUME NEW n \in Reached(f) PROVE n <= R
  <2>1. n \in Nat /\ n - 1 \in Nat /\ n <= NumRounds
    BY <1>2 DEF Reached, Rounds
  <2>2. SUFFICES ASSUME n > R PROVE FALSE
    BY <1>2, <2>1
  <2>3. d.phase \in Rounds
    BY <1>2, <2>1, <2>2 DEF InPlay
  <2>4. PICK w \in Sides : OpenFor(d, w) # {}
    BY <1>4, <2>3
  <2>5. picks(w) >= SlotsThrough(n - 1)
    BY DEF Reached
  <2>6. SlotsThrough(n - 1) \in Nat /\ SlotsThrough(R) <= SlotsThrough(n - 1)
    <3>1. R <= n - 1 /\ n - 1 <= NumRounds
      BY <1>2, <2>1, <2>2
    <3>2. QED BY <1>2, <2>1, <3>1, SeatsGrow
  <2>7. /\ picks(w) = waiting(w) + taken(w) /\ waiting(w) = 0 /\ taken(w) \in Nat
        /\ taken(w) <= SlotsThrough(R) /\ taken(w) # SlotsThrough(R) /\ SlotsThrough(R) \in Nat
    BY <1>3, <2>4
  <2> HIDE DEF picks, taken, waiting, R
  <2>8. QED BY <2>5, <2>6, <2>7
<1>7. Max(Reached(f)) = R
  <2>1. Reached(f) \in SUBSET Nat
    BY DEF Reached, Rounds
  <2> HIDE DEF R
  <2>2. QED BY <1>5, <1>6, <2>1, MaxOf
<1>8. Placed(f, side) = Min({picks(side), SlotsThrough(R)})
  BY <1>7 DEF Placed
<1>9. /\ picks(side) = waiting(side) + taken(side) /\ waiting(side) \in Nat /\ taken(side) \in Nat
      /\ taken(side) <= SlotsThrough(R) /\ SlotsThrough(R) \in Nat
      /\ OpenFor(d, side) = {} => taken(side) = SlotsThrough(R)
      /\ OpenFor(d, side) # {} => waiting(side) = 0
  BY <1>3
<1> HIDE DEF picks, waiting, R, d
<1>10. Placed(f, side) = taken(side)
  <2> HIDE DEF taken
  <2>1. picks(side) \in Nat /\ Min({picks(side), SlotsThrough(R)})
          = IF picks(side) <= SlotsThrough(R) THEN picks(side) ELSE SlotsThrough(R)
    BY <1>9, MinOfTwo
  <2>2. QED BY <1>8, <1>9, <2>1
<1>11. QED BY <1>10

(* What waits is what the facts say is missing.                            *)
LEMMA DeferredOfReplay ==
  ASSUME NEW f, SoundFacts(f)
  PROVE  Len(ReplayPicks(f).pending) = Len(f.picks) - Placed(f, "radiant") - Placed(f, "dire")
<1> DEFINE r == ReplayPicks(f)
<1>1. f.picks \in Seq(LivePicks) /\ OnceEach(f.picks) /\ Len(f.picks) \in Nat
  <2>1. f.picks \in Seq(LivePicks) /\ OnceEach(f.picks)
    BY DEF SoundFacts, LiveFactsSet
  <2>2. QED BY <2>1, PicksInSeq
<1>2. CASE ~Picking(f)
  <2>1. r.pending = f.picks
    BY <1>2 DEF ReplayPicks
  <2>2. Placed(f, "radiant") = 0 /\ Placed(f, "dire") = 0
    BY <1>2 DEF Placed
  <2> HIDE DEF r
  <2>3. QED BY <1>1, <2>1, <2>2 DEF r
<1>3. CASE Picking(f)
  <2>1. Replaying(f, r) /\ r.draft.phase # BAN_RESOLUTION /\ NoneReady(r)
    BY <1>3, ReplayedPicks
  <2> HIDE DEF r
  <2>2. r.pending \in Seq(LivePicks) /\ OnceEach(r.pending)
    BY <2>1 DEF Replaying
  <2> DEFINE p(w) == Cardinality(PicksOfSide(f, w))
             q(w) == Cardinality(AtSide(r.pending, w))
             t(w) == Cardinality(TakenSeats(r, w))
  <2>3. Len(r.pending) = q("radiant") + q("dire")
    BY <2>2, BothSides
  <2>4. Len(f.picks) = p("radiant") + p("dire")
    <3>1. \A w : PicksOfSide(f, w) = AtSide(f.picks, w)
      BY DEF PicksOfSide, AtSide
    <3>2. QED BY <1>1, <3>1, BothSides
  <2>5. ASSUME NEW w \in Sides
        PROVE  p(w) = q(w) + t(w) /\ q(w) \in Nat /\ t(w) \in Nat /\ Placed(f, w) = t(w)
    BY <1>3, <2>1, PicksOfSideCount, PlacedIsTaken
  <2>6. "radiant" \in Sides /\ "dire" \in Sides
    BY DEF Sides
  <2> HIDE DEF p, q, t
  <2>7. Len(r.pending) = Len(f.picks) - Placed(f, "radiant") - Placed(f, "dire")
    BY <2>3, <2>4, <2>5, <2>6
  <2>8. QED BY <2>7 DEF r
<1>4. QED BY <1>2, <1>3

(* For every set of inputs, the picks deferred are exactly those that the  *)
(* rounds the facts prove reached have no slot for: the replay of rebuild  *)
(* is never kept from sealing one by the order of the reports.             *)
THEOREM DeferredAreMissing == Spec => []DeferredMeansMissing
<1>1. IInv => DeferredMeansMissing
  <2> SUFFICES ASSUME IInv, Tracked PROVE DeferredMeansMissing
    BY DEF DeferredMeansMissing
  <2> DEFINE r == ReplayPicks(entry.facts)
  <2>1. Mirrors(State) /\ SoundFacts(entry.facts)
    BY TrackedMirrors
  <2>2. entry.deferred = Len(r.pending)
    BY <2>1 DEF Mirrors, State
  <2>3. Len(r.pending)
          = Len(entry.facts.picks) - Placed(entry.facts, "radiant") - Placed(entry.facts, "dire")
    BY <2>1, DeferredOfReplay
  <2> HIDE DEF r
  <2>4. QED BY <2>2, <2>3 DEF DeferredMeansMissing
<1>2. QED BY <1>1, Invariance, PTL

----------------------------------------------------------------------------
(* What the bindings mean                                                  *)

(* The hero a binding is found to be about is the one it was made for.     *)
LEMMA HeroOfSeal ==
  ASSUME IInv, Tracked, NEW r, Replaying(entry.facts, r), session.draft = r.draft,
         NEW s \in ToSet(r.seals), s.side = session.localSide,
         NEW b, b.round = s.round, b.slotIndex = s.slotIndex
  PROVE  HeroAt(b) = s.heroId
<1> DEFINE d == session.draft
           at(h) == [side |-> session.localSide, round |-> b.round,
                     slotIndex |-> b.slotIndex, heroId |-> h]
           Holds(h) ==
             \/ d.round = b.round
                /\ [side |-> session.localSide, slotIndex |-> b.slotIndex, heroId |-> h] \in d.sealed
             \/ at(h) \in d.confirmedPicks
<1>1. Sound(d) /\ HeldAt(d, s) /\ s.heroId \in Heroes
  <2>1. Sound(r.draft) /\ r.seals \in Seq(LiveSeals) /\ \A x \in ToSet(r.seals) : HeldAt(r.draft, x)
    BY DEF Replaying
  <2>2. s \in LiveSeals
    BY <2>1, PicksInSeq
  <2>3. QED BY <2>1, <2>2 DEF LiveSeals
<1>2. \A h : HeldAt(d, at(h)) <=> Holds(h)
  BY DEF HeldAt
<1>3. Holds(s.heroId)
  BY <1>1 DEF HeldAt
<1>4. ASSUME NEW h \in Heroes, Holds(h) PROVE h = s.heroId
  <2> DEFINE t == at(h)
  <2>1. HeldAt(d, t) /\ t.side = s.side /\ t.round = s.round /\ t.slotIndex = s.slotIndex /\ t.heroId = h
    BY <1>2, <1>4
  <2> HIDE DEF t
  <2>2. QED BY <1>1, <2>1, HeldOnePerSlot
<1>5. HeroAt(b) = CHOOSE h \in Heroes : Holds(h)
  BY DEF HeroAt
<1> HIDE DEF Holds
<1>6. QED BY <1>1, <1>3, <1>4, <1>5

(* Every binding of the Player's side says of a hero what a source stated  *)
(* of it or the Player declared, and no position is bound twice.           *)
THEOREM BindingsAreSaid == Spec => []BindingsWereSaid
<1>1. IInv => BindingsWereSaid
  <2> SUFFICES ASSUME IInv, Tracked PROVE BindingsWereSaid
    BY DEF BindingsWereSaid
  <2> DEFINE f == entry.facts
             r == ReplayPicks(f)
             own == OwnBindings(r.seals, session.localSide, session.humanPosition, f.localHeroId)
  <2>1. /\ session \in SessionRecs /\ Mirrors(State) /\ SoundFacts(f) /\ Replaying(f, r)
    BY TrackedMirrors, FitParts DEF State
  <2>2. /\ session.draft = r.draft /\ session.bindings \subseteq own
        /\ f.localSide \in {NoSide, session.localSide}
    BY <2>1 DEF Mirrors, State
  <2>3. session.humanPosition \in Positions \cup {NoPosition}
    BY <2>1 DEF SessionRecs
  <2> HIDE DEF r, f
  <2>4. /\ r.seals \in Seq(LiveSeals) /\ OnceEach(r.seals)
        /\ \A s \in ToSet(r.seals) : StatedPick(s) \in ToSet(f.picks)
    BY <2>1 DEF Replaying
  <2>5. ASSUME NEW b \in session.bindings PROVE SaidOf(HeroAt(b), b)
    <3>1. b \in own
      BY <2>2
    <3>2. PICK s \in ToSet(r.seals) :
            Binds(b, s, session.localSide, session.humanPosition, f.localHeroId)
      BY <2>3, <2>4, <3>1, OwnBindingsSay
    <3>3. s.side = session.localSide /\ b.round = s.round /\ b.slotIndex = s.slotIndex
      BY <3>2 DEF Binds
    <3>4. HeroAt(b) = s.heroId
      BY <2>1, <2>2, <3>3, HeroOfSeal DEF f
    <3>5. CASE b.provenance = "EXPLICIT" /\ b.assignedPosition = s.position
      <4>1. StatedPick(s) = [side |-> session.localSide, heroId |-> s.heroId,
                             position |-> b.assignedPosition]
        BY <3>3, <3>5 DEF StatedPick
      <4>2. QED BY <2>4, <3>4, <3>5, <4>1 DEF SaidOf, f
    <3>6. CASE b.provenance = "LOCAL_PLAYER" /\ b.assignedPosition = session.humanPosition
               /\ s.heroId = f.localHeroId
      BY <3>4, <3>6 DEF SaidOf, f
    <3>7. QED BY <3>2, <3>5, <3>6 DEF Binds
  <2>6. ASSUME NEW b \in session.bindings, NEW c \in session.bindings,
               b.assignedPosition = c.assignedPosition
        PROVE  b = c
    <3>1. b \in own /\ c \in own
      BY <2>2
    <3>2. QED BY <2>4, <2>6, <3>1, OwnBindingsOnce
  <2>7. QED BY <2>2, <2>5, <2>6 DEF BindingsWereSaid, f
<1>2. QED BY <1>1, Invariance, PTL

----------------------------------------------------------------------------
(* What a step may never do                                                *)

LEMMA StepsAre ==
  ASSUME IInv, [Next]_liveVars
  PROVE  \/ entry' \in {entry, NoEntry}
         \/ entry'.facts = entry.facts /\ entry'.draftEpoch = entry.draftEpoch
         \/ \E c, t : Handled(c, t)
BY RequestIsHandled, StaleIsGood DEF Dropped, liveVars

(* No request of a source but those the code exempts brings back a fact    *)
(* that the Player removed.                                                *)
THEOREM RemovalsStick == Spec => RemovalSticks
<1> DEFINE Removed == IF entry # NoEntry THEN entry.suppressed ELSE {}
           Sticks == \A key \in Removed :
             entry' # NoEntry /\ key \in FactKeys(entry'.facts) \ FactKeys(entry.facts) =>
               \/ key \notin entry'.suppressed
               \/ \E e \in Envelopes : e.source # "ocr" /\ PostDraftEvent(e)
<1>1. ASSUME IInv, [Next]_liveVars PROVE Sticks
  <2>1. CASE entry' \in {entry, NoEntry}
    BY <2>1
  <2>2. CASE entry'.facts = entry.facts
    BY <2>2
  <2>3. ASSUME NEW c, NEW t, Handled(c, t), entry # NoEntry PROVE Sticks
    <3>1. entry' = t.entry /\ (StaysOut(c, t) \/ \E e \in Envelopes : e.source # "ocr" /\ PostDraftEvent(e))
      BY <2>3 DEF Handled, Becomes
    <3>2. c.entry.facts = entry.facts \/ FactKeys(c.entry.facts) = {}
      BY <2>3 DEF Handled, Finds, Untouched, Unknown, State
    <3>3. QED BY <3>1, <3>2 DEF StaysOut
  <2>4. QED BY <1>1, <2>1, <2>2, <2>3, StepsAre
<1>2. QED BY <1>1, Invariance, PTL DEF Spec, RemovalSticks

(* A new draft of a session begins without the seat declared for the one   *)
(* before, whichever source starts it.                                     *)
THEOREM SeatsAreForgotten == Spec => NewDraftForgetsSeat
<1> DEFINE Forgets ==
      entry # NoEntry /\ entry' # NoEntry /\ entry.facts.started
        /\ entry'.draftEpoch > entry.draftEpoch => session'.humanPosition = NoPosition
<1>1. ASSUME IInv, [Next]_liveVars PROVE Forgets
  <2> SUFFICES ASSUME entry # NoEntry, entry' # NoEntry, entry.facts.started,
                      entry'.draftEpoch > entry.draftEpoch
               PROVE  session'.humanPosition = NoPosition
    OBVIOUS
  <2>1. entry.draftEpoch \in Nat
    BY <1>1 DEF IInv
  <2>2. entry' # entry /\ entry'.draftEpoch # entry.draftEpoch
    BY <2>1
  <2>3. PICK c, t : Handled(c, t)
    BY <1>1, <2>2, StepsAre
  <2>4. entry' = t.entry /\ session' = t.session /\ SeatForgotten(c, t)
    BY <2>3 DEF Handled, Becomes
  <2>5. CASE Untouched(State, c)
    BY <2>2, <2>4, <2>5 DEF Untouched, SeatForgotten, State
  <2>6. CASE c.entry.draftEpoch = 0 /\ c.session.humanPosition = NoPosition
    BY <2>1, <2>4, <2>6 DEF SeatForgotten
  <2>7. QED BY <2>3, <2>5, <2>6 DEF Handled, Finds, Unknown, State
<1>2. QED BY <1>1, Invariance, PTL DEF Spec, NewDraftForgetsSeat
=============================================================================
