------------------------ MODULE VisualCaptureProofs ------------------------
(***************************************************************************)
(* Theorems about VisualCapture: its types, that a fact of a draft the     *)
(* helper knows to be over is never posted, and that the helper's "ok"     *)
(* never comes before the facts it vouches for, for every set of heroes,   *)
(* every sequence of drafts, and queues and restarts of any number.        *)
(*                                                                         *)
(* The first part follows the engine: what a report of the game and what   *)
(* an envelope of the helper leave of the entry. The second is about the   *)
(* loop of the helper. The inductive invariant orders what the parties     *)
(* know by life and draft of the engine: none beyond its own (Upto),       *)
(* and says of a helper that is aware of the current draft where each card *)
(* it has read is: among the facts, or in the queue, ahead of every "ok"   *)
(* that counts on it.                                                      *)
(***************************************************************************)
EXTENDS VisualCapture, LiveCaptureProofs

----------------------------------------------------------------------------
(* The engine: what its handlers keep                                      *)

(* All that matters here of a session and its entry is the same.           *)
Alike(s, t) ==
  /\ t.session.owner = s.session.owner
  /\ t.entry.facts = s.entry.facts /\ t.entry.suppressed = s.entry.suppressed
  /\ t.entry.eventOrder = s.entry.eventOrder /\ t.entry.draftEpoch = s.entry.draftEpoch
  /\ t.entry.matchKey = s.entry.matchKey /\ t.entry.ended = s.entry.ended

LEMMA RebuildAlike ==
  ASSUME NEW s \in Fits
  PROVE  Rebuild(s) \in Fits /\ Alike(s, Rebuild(s))
<1> DEFINE f == s.entry.facts
           replay == ReplayLiveFacts(f, s.session.localSide, s.session.humanPosition)
           shown == {b \in replay.ownBindings : OwnSealed(replay.draft, replay.localSide, b)}
           n == [s.session EXCEPT !.localSide = replay.localSide, !.draft = replay.draft,
                                  !.bindings = shown]
           e == [s.entry EXCEPT !.deferred = Len(replay.deferred), !.rejected = replay.rejected]
<1>1. s.session \in SessionRecs /\ s.entry \in EntryRecs /\ s.session # NoSession
  BY FitParts
<1>2. Rebuild(s) = [session |-> n, entry |-> e]
  BY <1>1 DEF Rebuild, Install
<1> HIDE DEF replay, shown
<1>3. n.owner = s.session.owner
  BY <1>1 DEF SessionRecs
<1>4. /\ e.facts = s.entry.facts /\ e.suppressed = s.entry.suppressed
      /\ e.eventOrder = s.entry.eventOrder /\ e.draftEpoch = s.entry.draftEpoch
      /\ e.matchKey = s.entry.matchKey /\ e.ended = s.entry.ended
  BY <1>1 DEF EntryRecs
<1> HIDE DEF n, e
<1>5. Rebuild(s) \in Fits
  BY RebuildMirrors DEF Steady
<1>6. QED BY <1>2, <1>3, <1>4, <1>5 DEF Alike

(* One observation other than the start of a draft changes the facts only. *)
LEMMA ApplyFactPlain ==
  ASSUME NEW s \in Fits, NEW o \in Observations, o.type # "draft_started"
  PROVE  LET t == ApplyFact(s, o) IN
         /\ t.entry.facts = ApplyLiveObservation(s.entry.facts, o)
         /\ t.session.owner = s.session.owner /\ t.entry.suppressed = s.entry.suppressed
         /\ t.entry.eventOrder = s.entry.eventOrder /\ t.entry.draftEpoch = s.entry.draftEpoch
         /\ t.entry.matchKey = s.entry.matchKey /\ t.entry.ended = s.entry.ended
<1> DEFINE facts == ApplyLiveObservation(s.entry.facts, o)
           ended == s.entry.ended /\ TRUE
           epoch == s.entry.draftEpoch
           e == [s.entry EXCEPT !.facts = facts, !.ended = ended, !.draftEpoch = epoch]
<1>1. s.entry \in EntryRecs /\ s = [session |-> s.session, entry |-> s.entry]
  BY FitParts
<1>2. ApplyFact(s, o) = IF facts = s.entry.facts THEN s ELSE [session |-> s.session, entry |-> e]
  <2>1. ApplyFact(s, o) =
          IF facts = s.entry.facts THEN s
          ELSE [s EXCEPT !.entry.facts = facts, !.entry.ended = @ /\ TRUE, !.entry.draftEpoch = @]
    BY DEF ApplyFact
  <2> HIDE DEF facts
  <2>2. QED BY <1>1, <2>1 DEF EntryRecs
<1> HIDE DEF facts
<1>3. ended = s.entry.ended
  BY <1>1 DEF EntryRecs
<1> HIDE DEF ended
<1>4. /\ e.facts = facts /\ e.suppressed = s.entry.suppressed
      /\ e.eventOrder = s.entry.eventOrder /\ e.draftEpoch = s.entry.draftEpoch
      /\ e.matchKey = s.entry.matchKey /\ e.ended = s.entry.ended
  BY <1>1, <1>3 DEF EntryRecs
<1> HIDE DEF e
<1>5. QED BY <1>2, <1>4 DEF facts

(* The start of a draft that had not started: one more draft, not ended.   *)
LEMMA ApplyFactStarts ==
  ASSUME NEW s \in Fits, ~s.entry.facts.started, s.entry.suppressed = {}
  PROVE  LET t == ApplyFact(s, DraftStarted) IN
         /\ t.entry.facts.started /\ ~t.entry.ended
         /\ t.entry.facts.bans \in {{}, s.entry.facts.bans}
         /\ t.session.owner = s.session.owner /\ t.entry.suppressed = {}
         /\ t.entry.eventOrder = s.entry.eventOrder
         /\ t.entry.draftEpoch = s.entry.draftEpoch + 1
         /\ t.entry.matchKey \in {NoMatch, s.entry.matchKey}
<1> DEFINE over == s.entry.ended \/ s.session.draft.status = "COMPLETE"
           b == IF over THEN Restart(s) ELSE s
           facts == [b.entry.facts EXCEPT !.started = TRUE]
           ended == b.entry.ended /\ FALSE
           e == [b.entry EXCEPT !.facts = facts, !.ended = ended, !.draftEpoch = @ + 1]
<1>1. DraftStarted.type = "draft_started"
  BY DEF DraftStarted
<1>2. /\ b \in Fits /\ ~b.entry.facts.started /\ b.entry.suppressed = {}
      /\ b.entry.draftEpoch = s.entry.draftEpoch
  BY RestartFits
<1>3. /\ b.session.owner = s.session.owner /\ b.entry.eventOrder = s.entry.eventOrder
      /\ b.entry.matchKey \in {NoMatch, s.entry.matchKey}
      /\ b.entry.facts.bans \in {{}, s.entry.facts.bans}
  <2>1. CASE ~over
    BY <2>1
  <2>2. CASE over
    <3> DEFINE n == [s.session EXCEPT !.humanPosition = NoPosition]
               x == [FreshEntry EXCEPT !.eventOrder = s.entry.eventOrder, !.capture = s.entry.capture,
                                       !.visual = s.entry.visual, !.draftEpoch = s.entry.draftEpoch]
    <3>1. b = [session |-> n, entry |-> x]
      BY <2>2 DEF Restart
    <3>2. n.owner = s.session.owner
      BY FitParts DEF SessionRecs
    <3>3. x.eventOrder = s.entry.eventOrder /\ x.matchKey = NoMatch /\ x.facts.bans = {}
      BY DEF FreshEntry, EmptyLiveFacts
    <3> HIDE DEF n, x, b
    <3>4. QED BY <3>1, <3>2, <3>3
  <2>3. QED BY <2>1, <2>2
<1>4. ApplyFact(s, DraftStarted) =
        IF facts = b.entry.facts THEN b
        ELSE [b EXCEPT !.entry.facts = facts, !.entry.ended = @ /\ FALSE,
                       !.entry.draftEpoch = @ + 1]
  BY <1>1, <1>2 DEF ApplyFact, ApplyLiveObservation
<1> HIDE DEF b
<1>5. /\ b.entry \in EntryRecs /\ b = [session |-> b.session, entry |-> b.entry]
      /\ b.entry.facts \in LiveFactsSet
  BY <1>2, FitParts DEF SoundFacts
<1>6. facts.started /\ facts.bans = b.entry.facts.bans
  BY <1>5 DEF LiveFactsSet
<1> HIDE DEF facts
<1>7. ApplyFact(s, DraftStarted) = [session |-> b.session, entry |-> e]
  BY <1>2, <1>4, <1>5, <1>6 DEF EntryRecs
<1>8. /\ e.facts = facts /\ e.suppressed = b.entry.suppressed
      /\ e.eventOrder = b.entry.eventOrder /\ e.draftEpoch = b.entry.draftEpoch + 1
      /\ e.matchKey = b.entry.matchKey /\ ~e.ended
  BY <1>5 DEF EntryRecs
<1> HIDE DEF e
<1>9. QED BY <1>2, <1>3, <1>6, <1>7, <1>8

LEMMA RestartForgets ==
  ASSUME NEW s \in Fits
  PROVE  LET t == Restart(s) IN
         /\ t \in Fits /\ ~t.entry.facts.started /\ t.entry.facts.bans = {}
         /\ ~t.entry.ended /\ t.entry.matchKey = NoMatch
         /\ t.session.owner = s.session.owner /\ t.entry.suppressed = {}
         /\ t.entry.eventOrder = s.entry.eventOrder /\ t.entry.draftEpoch = s.entry.draftEpoch
<1> DEFINE n == [s.session EXCEPT !.humanPosition = NoPosition]
           x == [FreshEntry EXCEPT !.eventOrder = s.entry.eventOrder, !.capture = s.entry.capture,
                                   !.visual = s.entry.visual, !.draftEpoch = s.entry.draftEpoch]
<1>1. Restart(s) = [session |-> n, entry |-> x]
  BY DEF Restart
<1>2. n.owner = s.session.owner
  BY FitParts DEF SessionRecs
<1>3. /\ x.eventOrder = s.entry.eventOrder /\ x.matchKey = NoMatch /\ ~x.ended
      /\ x.suppressed = {} /\ x.draftEpoch = s.entry.draftEpoch
      /\ ~x.facts.started /\ x.facts.bans = {}
  BY DEF FreshEntry, EmptyLiveFacts
<1> HIDE DEF n, x
<1>4. QED BY <1>1, <1>2, <1>3, RestartFits

LEMMA TwoAndOne ==
  ASSUME NEW a, NEW b, NEW c
  PROVE  <<a, b>> \o <<c>> = <<a, b, c>>
<1> DEFINE S == {a, b, c}
           x == <<a, b>>
           y == <<c>>
<1>1. x \in Seq(S) /\ Len(x) = 2 /\ x[1] = a /\ x[2] = b /\ y \in Seq(S) /\ Len(y) = 1 /\ y[1] = c
  OBVIOUS
<1> HIDE DEF S, x, y
<1>2. /\ x \o y \in Seq(S) /\ Len(x \o y) = 3
      /\ \A i \in 1..3 : (x \o y)[i] = IF i <= 2 THEN x[i] ELSE y[i - 2]
  <2>1. /\ x \o y \in Seq(S) /\ Len(x \o y) = Len(x) + Len(y)
        /\ \A i \in 1..(Len(x) + Len(y)) : (x \o y)[i] = IF i <= Len(x) THEN x[i] ELSE y[i - Len(x)]
    BY <1>1, ConcatProperties, Zenon
  <2>2. QED BY <1>1, <2>1
<1>3. (x \o y)[1] = a /\ (x \o y)[2] = b /\ (x \o y)[3] = c
  BY <1>1, <1>2
<1>4. x \o y = <<a, b, c>>
  <2> DEFINE z == <<a, b, c>>
             w == x \o y
  <2>1. z \in Seq({a, b, c}) /\ Len(z) = 3 /\ z[1] = a /\ z[2] = b /\ z[3] = c
    OBVIOUS
  <2>2. w \in Seq({a, b, c}) /\ Len(w) = 3 /\ w[1] = a /\ w[2] = b /\ w[3] = c
    BY <1>2, <1>3 DEF S
  <2> HIDE DEF z, w
  <2>3. \A i \in 1..Len(w) : i \in {1, 2, 3} /\ w[i] = z[i]
    BY <2>1, <2>2
  <2>4. w = z
    BY <2>1, <2>2, <2>3, SeqEqual
  <2>5. QED BY <2>4 DEF z, w
<1>5. QED BY <1>4 DEF x, y

(* An update of hero selection that names neither sides nor heroes.        *)
Plain(u) ==
  /\ u \in Normalized /\ u.side = NoSide /\ u.ownHero = NoHero
  /\ u.bans = <<>> /\ u.picks = <<>> /\ u.matchKey # NoMatch

(* What such an update makes of the entry e: the draft goes on, or one     *)
(* more has begun.                                                         *)
GoesOn(e, u, x) ==
  /\ e.facts.started /\ ~e.ended
  /\ x.facts.started /\ x.facts.picks = e.facts.picks /\ x.facts.bans = e.facts.bans
  /\ x.draftEpoch = e.draftEpoch /\ ~x.ended /\ x.matchKey = u.matchKey
Begins(e, u, x) ==
  /\ x.facts.started /\ x.facts.bans \in {{}, e.facts.bans}
  /\ x.draftEpoch = e.draftEpoch + 1 /\ ~x.ended /\ x.matchKey \in {NoMatch, u.matchKey}

Reporting(s, u, t) ==
  /\ t \in Fits
  /\ t.session.owner = s.session.owner /\ t.entry.suppressed = {}
  /\ t.entry.eventOrder = s.entry.eventOrder
  /\ GoesOn(s.entry, u, t.entry) \/ Begins(s.entry, u, t.entry)

(* The two observations after the first leave that as it is.               *)
LEMMA ReportingStays ==
  ASSUME NEW s, NEW u, NEW t, Reporting(s, u, t), NEW o \in {BansClosed, LocalHero(NoHero)}
  PROVE  Reporting(s, u, GsiFact(t, o))
<1> DEFINE v == ApplyFact(t, o)
           f == t.entry.facts
           g == ApplyLiveObservation(f, o)
<1>1. t \in Fits /\ t.entry.suppressed = {}
  BY DEF Reporting
<1>2. o \in Observations /\ o.type \in {"bans_closed", "local_hero"}
  BY DEF Observations, BansClosed, LocalHero
<1>3. GsiFact(t, o) = v
  BY <1>1, <1>2 DEF GsiFact, Suppressed
<1>4. f \in LiveFactsSet
  BY <1>1, FitParts DEF SoundFacts
<1>5. g.started = f.started /\ g.picks = f.picks /\ g.bans = f.bans
  BY <1>2, <1>4 DEF ApplyLiveObservation, LiveFactsSet
<1>6. /\ v \in Fits /\ v.entry.facts = g
      /\ v.session.owner = t.session.owner /\ v.entry.suppressed = t.entry.suppressed
      /\ v.entry.eventOrder = t.entry.eventOrder /\ v.entry.draftEpoch = t.entry.draftEpoch
      /\ v.entry.matchKey = t.entry.matchKey /\ v.entry.ended = t.entry.ended
  BY <1>1, <1>2, ApplyFactPlain, ApplyFactFits
<1> HIDE DEF v, g
<1>7. QED BY <1>3, <1>5, <1>6 DEF Reporting, GoesOn, Begins

LEMMA DraftReported ==
  ASSUME NEW s, Steady(s), s.entry.suppressed = {}, NEW u, Plain(u), u.phase = "draft"
  PROVE  /\ Steady(IngestGsi(s, u)) /\ Reporting(s, u, IngestGsi(s, u))
         /\ IngestGsi(s, u).entry.draftEpoch # s.entry.draftEpoch =>
              ~s.entry.facts.started \/ StartsOver(s.entry, u)
<1> DEFINE over == StartsOver(s.entry, u)
           b == IF over THEN Restart(s) ELSE s
           q == [b EXCEPT !.entry = NoteUpdate(b.entry, u)]
           obs == ObservationsFromGsi(u)
           a == StateAll(q, obs)
           going == s.entry.facts.started /\ ~over
           X == [n \in 0..3 |-> IF n = 0 THEN {q}
                                ELSE {t \in Fits : /\ Reporting(s, u, t)
                                                   /\ going => GoesOn(s.entry, u, t.entry)}]
<1>1. s \in Fits /\ u \in Normalized
  BY DEF Steady, Plain
<1>2. /\ b \in Fits /\ b.session.owner = s.session.owner /\ b.entry.suppressed = {}
      /\ b.entry.eventOrder = s.entry.eventOrder /\ b.entry.draftEpoch = s.entry.draftEpoch
      /\ b.entry.facts.bans \in {{}, s.entry.facts.bans}
      /\ ~b.entry.facts.started \/ (going /\ b = s)
      /\ b.entry.facts.started \in BOOLEAN
      /\ b.entry.ended \in BOOLEAN
  <2>1. b \in Fits
    BY <1>1, RestartForgets
  <2>2. b.entry.facts.started \in BOOLEAN /\ b.entry.ended \in BOOLEAN
    <3> HIDE DEF b
    <3>1. QED BY <2>1, FitParts DEF EntryRecs, LiveFactsSet
  <2>3. QED BY <1>1, <2>1, <2>2, RestartForgets
<1>3. going => ~s.entry.ended
  BY DEF StartsOver
<1>4. /\ q \in Fits /\ q.entry.facts = b.entry.facts /\ q.entry.suppressed = {}
      /\ q.entry.eventOrder = s.entry.eventOrder /\ q.entry.draftEpoch = s.entry.draftEpoch
      /\ q.entry.matchKey = u.matchKey /\ q.entry.ended = b.entry.ended
      /\ q.session.owner = s.session.owner
  <2> DEFINE e == NoteUpdate(b.entry, u)
  <2> HIDE DEF b
  <2>1. /\ e \in EntryRecs /\ e.facts = b.entry.facts /\ e.eventOrder = b.entry.eventOrder
        /\ e.suppressed = b.entry.suppressed /\ e.draftEpoch = b.entry.draftEpoch
    BY <1>1, <1>2, NotedFits
  <2>2. b.session \in SessionRecs /\ b = [session |-> b.session, entry |-> b.entry] /\ GoodEntry(b.entry)
        /\ b.entry \in EntryRecs
    BY <1>2, FitParts
  <2>3. e.matchKey = u.matchKey /\ e.ended = b.entry.ended
    BY <1>2, <2>2 DEF NoteUpdate, EntryRecs, Plain
  <2> HIDE DEF e
  <2>4. q = [session |-> b.session, entry |-> e]
    BY <2>2 DEF e
  <2>5. GoodEntry(e)
    BY <2>1, <2>2 DEF GoodEntry
  <2>6. q \in Fits
    BY <2>2, <2>4, <2>5, FitOf
  <2> HIDE DEF q
  <2>7. QED BY <1>2, <2>1, <2>3, <2>4, <2>6
<1>5. obs = <<DraftStarted, BansClosed, LocalHero(NoHero)>>
  <2>1. obs = <<DraftStarted, BansClosed>> \o <<>> \o <<>> \o <<>> \o <<>> \o <<LocalHero(NoHero)>>
    <3>1. [i \in DOMAIN u.bans |-> Ban(u.bans[i])] = <<>>
      BY DEF Plain
    <3>2. [i \in DOMAIN u.picks |-> Pick(u.picks[i].side, u.picks[i].heroId, NoPosition)] = <<>>
      BY DEF Plain
    <3>3. QED BY <3>1, <3>2 DEF ObservationsFromGsi, Plain
  <2> DEFINE x == <<DraftStarted, BansClosed>>
             y == <<LocalHero(NoHero)>>
  <2>2. x \in Seq({x[1], x[2], y[1]}) /\ y \in Seq({x[1], x[2], y[1]})
    OBVIOUS
  <2>3. x \o <<>> = x
    BY <2>2, ConcatEmptySeq, Zenon
  <2>4. x \o y = <<DraftStarted, BansClosed, LocalHero(NoHero)>>
    BY TwoAndOne
  <2> HIDE DEF obs
  <2>5. QED BY <2>1, <2>3, <2>4
<1>6. obs \in Seq(Observations)
  BY <1>1, UpdateStates
<1>7. GsiFact(q, DraftStarted) \in X[1]
  <2> DEFINE t == GsiFact(q, DraftStarted)
  <2>1. DraftStarted.type = "draft_started" /\ DraftStarted \in Observations
    BY DEF DraftStarted, Observations
  <2>2. CASE b.entry.facts.started
    <3>1. t = q
      BY <1>4, <2>1, <2>2 DEF GsiFact
    <3>2. GoesOn(s.entry, u, q.entry)
      <4> HIDE DEF q, going, over, b
      <4>1. QED BY <1>2, <1>3, <1>4, <2>2 DEF GoesOn, going
    <3> HIDE DEF q, t
    <3>3. QED BY <1>4, <3>1, <3>2 DEF Reporting, t
  <2>3. CASE ~b.entry.facts.started
    <3> HIDE DEF b, q
    <3>1. t = ApplyFact(q, DraftStarted)
      BY <1>4, <2>1, <2>3 DEF GsiFact, Suppressed
    <3>2. t \in Fits
      BY <1>4, <2>1, <3>1, ApplyFactFits
    <3>3. /\ t.entry.facts.started /\ ~t.entry.ended
          /\ t.entry.facts.bans \in {{}, q.entry.facts.bans}
          /\ t.session.owner = q.session.owner /\ t.entry.suppressed = {}
          /\ t.entry.eventOrder = q.entry.eventOrder
          /\ t.entry.draftEpoch = q.entry.draftEpoch + 1
          /\ t.entry.matchKey \in {NoMatch, q.entry.matchKey}
      BY <1>4, <2>3, <3>1, ApplyFactStarts
    <3> HIDE DEF t
    <3>4. Begins(s.entry, u, t.entry)
      BY <1>2, <1>4, <3>3 DEF Begins
    <3>5. ~going
      BY <2>3 DEF b
    <3> HIDE DEF going
    <3>6. QED BY <1>4, <3>2, <3>3, <3>4, <3>5 DEF Reporting, t
  <2>4. QED BY <2>2, <2>3
<1> HIDE DEF q, b, going
<1>8. ASSUME NEW t \in X[1], NEW o \in {BansClosed, LocalHero(NoHero)} PROVE GsiFact(t, o) \in X[1]
  <2>1. t \in Fits /\ Reporting(s, u, t) /\ (going => GoesOn(s.entry, u, t.entry))
    OBVIOUS
  <2>2. Reporting(s, u, GsiFact(t, o))
    BY <2>1, ReportingStays
  <2>3. Reporting(t, u, GsiFact(t, o)) \/ ~going
    <3>1. going => Reporting(t, u, t)
      BY <2>1 DEF Reporting, GoesOn
    <3>2. QED BY <3>1, ReportingStays
  <2>4. ASSUME going PROVE GoesOn(s.entry, u, GsiFact(t, o).entry)
    <3>1. GsiFact(t, o).entry.draftEpoch = t.entry.draftEpoch
      <4>1. o \in Observations /\ o.type \in {"bans_closed", "local_hero"}
        BY DEF Observations, BansClosed, LocalHero
      <4>2. GsiFact(t, o) = ApplyFact(t, o)
        BY <2>1, <4>1 DEF GsiFact, Suppressed, Reporting
      <4>3. QED BY <2>1, <4>1, <4>2, ApplyFactPlain
    <3>2. t.entry.draftEpoch \in Nat
      BY <2>1, FitParts DEF EntryRecs
    <3>3. GoesOn(t.entry, u, GsiFact(t, o).entry)
      BY <2>3, <2>4, <3>1, <3>2 DEF Reporting, Begins
    <3>4. QED BY <2>1, <2>4, <3>3 DEF GoesOn
  <2>5. GsiFact(t, o) \in Fits
    BY <2>2 DEF Reporting
  <2>6. QED BY <2>2, <2>4, <2>5
<1>9. X[2] = X[1] /\ X[3] = X[1] /\ X[0] = {q}
  OBVIOUS
<1>10. Len(obs) = 3 /\ obs[1] = DraftStarted /\ obs[2] = BansClosed /\ obs[3] = LocalHero(NoHero)
  BY <1>5
<1> HIDE DEF X, obs
<1>11. \A n \in 1..Len(obs) : \A t \in X[n - 1] : GsiFact(t, obs[n]) \in X[n]
  <2>1. ASSUME NEW n \in 1..3, NEW t \in X[n - 1] PROVE GsiFact(t, obs[n]) \in X[n]
    <3>1. n = 1 \/ n = 2 \/ n = 3
      OBVIOUS
    <3>2. CASE n = 1
      <4>1. t = q
        BY <1>9, <2>1, <3>2
      <4>2. QED BY <1>7, <1>10, <3>2, <4>1
    <3>3. CASE n = 2
      BY <1>8, <1>9, <1>10, <2>1, <3>3
    <3>4. CASE n = 3
      BY <1>8, <1>9, <1>10, <2>1, <3>4
    <3>5. QED BY <3>1, <3>2, <3>3, <3>4
  <2>2. QED BY <1>10, <2>1
<1>12. a \in X[3]
  <2>1. q \in X[0]
    BY <1>9
  <2>2. StateAll(q, obs) \in X[Len(obs)]
    BY <1>6, <1>11, <2>1, StateAllStays
  <2>3. QED BY <1>10, <2>2
<1> HIDE DEF a
<1>13. a \in Fits /\ Reporting(s, u, a) /\ (going => GoesOn(s.entry, u, a.entry))
  BY <1>9, <1>12 DEF X
<1>14. IngestGsi(s, u) = IF a = q THEN q ELSE Rebuild(a)
  BY DEF IngestGsi, a, q, b, obs
<1>15. IngestGsi(s, u) = a \/ Alike(a, IngestGsi(s, u))
  BY <1>13, <1>14, RebuildAlike
<1>16. Steady(IngestGsi(s, u))
  BY <1>1, IngestGsiSteady
<1> DEFINE t == IngestGsi(s, u)
<1> HIDE DEF t
<1>17. t \in Fits
  BY <1>16 DEF Steady, t
<1>18. Reporting(s, u, t) /\ (going => GoesOn(s.entry, u, t.entry))
  BY <1>13, <1>15, <1>17 DEF Reporting, GoesOn, Begins, Alike, t
<1>19. QED BY <1>16, <1>18 DEF GoesOn, going, t

(* An update of another phase only notes that the draft is over.           *)
LEMMA PhaseReported ==
  ASSUME NEW s, Steady(s), NEW u \in Normalized, u.phase # "draft"
  PROVE  LET t == IngestGsi(s, u) IN
         /\ Steady(t)
         /\ t.session.owner = s.session.owner
         /\ t.entry.facts = s.entry.facts /\ t.entry.suppressed = s.entry.suppressed
         /\ t.entry.eventOrder = s.entry.eventOrder /\ t.entry.draftEpoch = s.entry.draftEpoch
         /\ t.entry.matchKey = s.entry.matchKey /\ (s.entry.ended => t.entry.ended)
<1> DEFINE e == NoteUpdate(s.entry, u)
<1>1. s \in Fits
  BY DEF Steady
<1>2. s.entry \in EntryRecs /\ s = [session |-> s.session, entry |-> s.entry]
  BY <1>1, FitParts
<1>3. IngestGsi(s, u) = [s EXCEPT !.entry = e]
  BY DEF IngestGsi, StartsOver
<1>4. /\ e.facts = s.entry.facts /\ e.eventOrder = s.entry.eventOrder
      /\ e.suppressed = s.entry.suppressed /\ e.draftEpoch = s.entry.draftEpoch
  BY <1>1, NotedFits
<1>5. e.matchKey = s.entry.matchKey /\ (s.entry.ended => e.ended)
  BY <1>2 DEF NoteUpdate, EntryRecs
<1> HIDE DEF e
<1>6. IngestGsi(s, u) = [session |-> s.session, entry |-> e]
  BY <1>2, <1>3
<1>7. QED BY <1>4, <1>5, <1>6, IngestGsiSteady

----------------------------------------------------------------------------
(* The engine between two steps                                            *)

(* Nothing is banned or removed; the first draft is number 1.              *)
Plainly(e) ==
  /\ e.suppressed = {} /\ e.facts.bans = {}
  /\ ~e.facts.started => e.draftEpoch = 0
  /\ e.facts.started => e.draftEpoch # 0

EngineOK ==
  /\ IInv /\ linked = TRUE
  /\ (session = NoSession) = (entry = NoEntry)
  /\ session # NoSession => session.owner = LinkAccount
  /\ entry # NoEntry => Plainly(entry)

(* The entry a request finds.                                              *)
Found == IF entry = NoEntry THEN FreshEntry ELSE entry

LEMMA ClaimedFinds ==
  ASSUME EngineOK
  PROVE  LET c == Claimed(LinkAccount) IN
         /\ Steady(c) /\ c.session.owner = LinkAccount /\ c.entry = Found
         /\ Plainly(Found) /\ Found.draftEpoch = Epoch(entry)
<1> DEFINE b == Ensure(State, LinkAccount)
           c == Claimed(LinkAccount)
<1>1. Steady(c)
  BY ClaimedSteady, LiveAssumption DEF EngineOK
<1>2. /\ b.session.owner = LinkAccount /\ b.entry = Found
      /\ b = [session |-> b.session, entry |-> b.entry]
  <2>1. CASE session = NoSession
    <3>1. b = [session |-> NewSession(LinkAccount), entry |-> FreshEntry] /\ entry = NoEntry
      BY <2>1 DEF Ensure, State, EngineOK
    <3>2. QED BY <3>1 DEF NewSession, Found
  <2>2. CASE session # NoSession
    <3>1. b = State /\ entry # NoEntry
      BY <2>2 DEF Ensure, State, EngineOK
    <3>2. QED BY <2>2, <3>1 DEF State, EngineOK, Found
  <2>3. QED BY <2>1, <2>2
<1>3. c = Claim(b, LinkAccount)
  BY DEF Claimed
<1> HIDE DEF b, c
<1>4. /\ Steady(b) /\ c.entry = b.entry
      /\ b.session \in SessionRecs
  <2>1. Steady(b)
    BY EnsureSteady, LiveAssumption DEF EngineOK, IInv, b
  <2>2. c.entry = b.entry
    BY <1>3, <2>1, ClaimSteady, LiveAssumption
  <2>3. QED BY <2>1, <2>2, FitParts DEF Steady
<1>5. c.session.owner = LinkAccount
  <2>1. CASE b.session.owner # NoAccount
    BY <1>2, <1>3, <2>1 DEF Claim
  <2>2. CASE b.session.owner = NoAccount
    <3> DEFINE n == [b.session EXCEPT !.owner = LinkAccount]
    <3>1. c = [b EXCEPT !.session.owner = LinkAccount]
      BY <1>3, <2>2 DEF Claim
    <3>2. n.owner = LinkAccount
      BY <1>4 DEF SessionRecs
    <3>3. c = [session |-> n, entry |-> b.entry]
      BY <1>2, <3>1
    <3> HIDE DEF n
    <3>4. QED BY <3>2, <3>3
  <2>3. QED BY <2>1, <2>2
<1>6. Plainly(Found) /\ Found.draftEpoch = Epoch(entry)
  BY DEF Found, Plainly, Epoch, EngineOK, FreshEntry, EmptyLiveFacts
<1>7. QED BY <1>1, <1>2, <1>4, <1>5, <1>6 DEF c

(* A handler that leaves t leaves the engine as it should be.              *)
LEMMA LeavesEngineOK ==
  ASSUME NEW t, Steady(t), Becomes(t), UNCHANGED linked, linked = TRUE,
         t.session.owner = LinkAccount, Plainly(t.entry), t.entry.draftEpoch <= MaxEpochs
  PROVE  EngineOK' /\ entry' = t.entry /\ entry' # NoEntry
<1>1. session' = t.session /\ entry' = t.entry /\ linked' = linked
  BY DEF Becomes
<1>2. t \in Fits
  BY DEF Steady
<1>3. /\ t = [session |-> t.session, entry |-> t.entry] /\ t.session \in SessionRecs
      /\ GoodEntry(t.entry) /\ t.session # NoSession /\ t.entry # NoEntry
      /\ t.entry.draftEpoch \in Nat
  BY <1>2, FitParts DEF EntryRecs
<1>4. Good(t)
  BY <1>3 DEF Good, Steady
<1>5. State' = t
  BY <1>1, <1>3 DEF State
<1>6. Good(State)'
  BY <1>4, <1>5
<1>7. t.entry.draftEpoch \in 0..MaxEpochs
  BY <1>3, LiveAssumption
<1>8. IInv'
  BY <1>1, <1>6, <1>7 DEF IInv
<1>9. Plainly(entry')
  BY <1>1
<1>10. QED BY <1>1, <1>3, <1>8, <1>9 DEF EngineOK

(* The games that lock cards, and the drafts reported to the engine.       *)
Due(n) == IF n = 0 THEN {} ELSE CardsOf[n]
Games ==
  {g \in [draft : 0..Len(CardsOf), phase : {"idle", "draft", "match"}, locked : SUBSET Cards] :
     g.locked \subseteq Due(g.draft) /\ (g.phase = "draft" => g.draft # 0)}

(* One draft of the engine for each draft of the game reported to it; the  *)
(* last one is not over while the game is still in it.                     *)
DraftsOK ==
  /\ reported \in 0..game.draft
  /\ entry # NoEntry =>
       /\ entry.draftEpoch <= reported
       /\ reported = game.draft /\ entry.facts.started =>
            /\ entry.matchKey \in {NoMatch, game.draft}
            /\ entry.ended => game.phase # "draft"

(* A report either changes nothing that matters, or begins a draft.        *)
SameDraft ==
  /\ entry' # NoEntry /\ entry'.draftEpoch = Epoch(entry) /\ reported' = reported
  /\ entry # NoEntry =>
       /\ entry'.facts.picks = entry.facts.picks /\ entry'.eventOrder = entry.eventOrder
       /\ entry.ended => entry'.ended
NextEpoch == entry' # NoEntry /\ entry'.draftEpoch = Epoch(entry) + 1 /\ reported' = game.draft

LEMMA GameReportsStep ==
  ASSUME EngineOK, game \in Games, DraftsOK, GameReports
  PROVE  EngineOK' /\ DraftsOK' /\ (SameDraft \/ NextEpoch)
<1> DEFINE c == Claimed(LinkAccount)
           u == GameUpdate
           t == IngestGsi(c, u)
           e == Found
           d == game.draft
<1>1. Steady(c) /\ c.session.owner = LinkAccount /\ c.entry = e /\ Plainly(e) /\ e.draftEpoch = Epoch(entry)
  BY ClaimedFinds
<1>2. /\ Becomes(t) /\ UNCHANGED linked /\ linked = TRUE /\ game' = game
      /\ reported' = IF Epoch(entry') = Epoch(entry) THEN reported ELSE d
  BY <1>1 DEF GameReports, PostGsi, ThroughLink, EngineOK
<1>3. d \in Nat /\ d <= Len(CardsOf) /\ game.phase \in {"idle", "draft", "match"} /\ (game.phase = "draft" => d # 0)
      /\ Len(CardsOf) \in Nat
  BY CardsAssumption DEF Games
<1>4. u \in Normalized /\ u.phase = game.phase /\ u.matchKey = d
  BY <1>3 DEF GameUpdate, Normalized
<1>5. e.draftEpoch <= reported /\ reported \in 0..d /\ reported <= MaxEpochs
      /\ e.draftEpoch \in Nat /\ Epoch(entry) \in Nat
  <2>1. e.draftEpoch \in Nat
    BY <1>1, FitParts DEF Steady, EntryRecs
  <2>2. e.draftEpoch <= reported /\ reported \in 0..d
    BY DEF DraftsOK, Found, FreshEntry
  <2>3. QED BY <1>1, <1>3, <2>1, <2>2, VisualBoundsAssumption, LiveAssumption
<1>6. reported = d /\ e.facts.started => e.matchKey \in {NoMatch, d} /\ (e.ended => game.phase # "draft")
  BY DEF DraftsOK, Found, FreshEntry, EmptyLiveFacts
<1>7. entry # NoEntry => entry = e
  BY DEF Found
<1> HIDE DEF c, u, e, t
<1>8. CASE game.phase # "draft"
  <2>1. /\ Steady(t)
        /\ t.session.owner = c.session.owner
        /\ t.entry.facts = e.facts /\ t.entry.suppressed = e.suppressed
        /\ t.entry.eventOrder = e.eventOrder /\ t.entry.draftEpoch = e.draftEpoch
        /\ t.entry.matchKey = e.matchKey /\ (e.ended => t.entry.ended)
    BY <1>1, <1>4, <1>8, PhaseReported DEF t
  <2>2. Plainly(t.entry) /\ t.entry.draftEpoch <= MaxEpochs
    BY <1>1, <1>5, <2>1, LiveAssumption DEF Plainly
  <2>3. EngineOK' /\ entry' = t.entry /\ entry' # NoEntry
    BY <1>1, <1>2, <2>1, <2>2, LeavesEngineOK
  <2>4. SameDraft
    BY <1>1, <1>2, <1>7, <2>1, <2>3 DEF SameDraft, Epoch
  <2>5. DraftsOK'
    BY <1>2, <1>5, <1>6, <1>8, <2>1, <2>3, <2>4 DEF DraftsOK, SameDraft
  <2>6. QED BY <2>3, <2>4, <2>5
<1>9. CASE game.phase = "draft"
  <2>1. Plain(u)
    BY <1>3, <1>4, <1>9 DEF Plain, GameUpdate, NoMatch, u
  <2>2. /\ Steady(t) /\ Reporting(c, u, t)
        /\ t.entry.draftEpoch # e.draftEpoch => ~e.facts.started \/ StartsOver(e, u)
    BY <1>1, <1>4, <1>9, <2>1, DraftReported DEF Plainly, t
  <2>3. t.session.owner = LinkAccount /\ t.entry.suppressed = {} /\ t.entry.eventOrder = e.eventOrder
    BY <1>1, <2>2 DEF Reporting
  <2>4. CASE GoesOn(e, u, t.entry)
    <3>1. Plainly(t.entry) /\ t.entry.draftEpoch <= MaxEpochs
      BY <1>1, <1>5, <2>3, <2>4, LiveAssumption DEF Plainly, GoesOn
    <3>2. EngineOK' /\ entry' = t.entry /\ entry' # NoEntry
      BY <1>2, <2>2, <2>3, <3>1, LeavesEngineOK
    <3>3. SameDraft
      BY <1>1, <1>2, <1>7, <2>3, <2>4, <3>2 DEF SameDraft, Epoch, GoesOn
    <3>4. DraftsOK'
      BY <1>2, <1>4, <1>5, <2>4, <3>2, <3>3 DEF DraftsOK, SameDraft, GoesOn
    <3>5. QED BY <3>2, <3>3, <3>4
  <2>5. CASE Begins(e, u, t.entry)
    <3>1. t.entry.draftEpoch = e.draftEpoch + 1 /\ t.entry.draftEpoch # e.draftEpoch
      BY <1>5, <2>5 DEF Begins
    <3>2. e.draftEpoch = 0 \/ reported # d
      <4>1. CASE ~e.facts.started
        BY <1>1, <4>1 DEF Plainly
      <4>2. CASE e.facts.started /\ StartsOver(e, u)
        BY <1>4, <1>6, <1>9, <4>2 DEF StartsOver
      <4>3. QED BY <2>2, <3>1, <4>1, <4>2
    <3>3. t.entry.draftEpoch <= d /\ d <= MaxEpochs
      BY <1>3, <1>5, <1>9, <3>1, <3>2, VisualBoundsAssumption, LiveAssumption
    <3>4. Plainly(t.entry) /\ t.entry.draftEpoch <= MaxEpochs
      BY <1>1, <1>3, <1>5, <2>3, <2>5, <3>3, LiveAssumption DEF Plainly, Begins
    <3>5. EngineOK' /\ entry' = t.entry /\ entry' # NoEntry
      BY <1>2, <2>2, <2>3, <3>4, LeavesEngineOK
    <3>6. Epoch(entry') = Epoch(entry) + 1 /\ reported' = d
      BY <1>1, <1>2, <1>5, <3>1, <3>5 DEF Epoch
    <3>7. NextEpoch
      BY <3>5, <3>6 DEF NextEpoch, Epoch
    <3>8. DraftsOK'
      BY <1>2, <1>3, <1>4, <2>5, <3>3, <3>5, <3>6 DEF DraftsOK, Begins
    <3>9. QED BY <3>5, <3>7, <3>8
  <2>6. QED BY <1>1, <2>2, <2>4, <2>5 DEF Reporting
<1>10. QED BY <1>8, <1>9

----------------------------------------------------------------------------
(* What the engine makes of an envelope of the helper                      *)

PickOf(c) == Pick(c.side, c.heroId, NoPosition)
RevertOf(c) == Revert(c.side, c.heroId)
HelperWords == {"ok", "unread", "other"}
Payloads ==
  {PickOf(c) : c \in Cards} \cup {RevertOf(c) : c \in Cards} \cup {Health(w) : w \in HelperWords}
Sent ==
  [ eventId : EventIds, source : {"ocr"}, payload : Payloads, epoch : Nat, life : Nat,
    cards : SUBSET Cards ]
IsWord(e) == e.payload.type = "capture_health"

LEMMA CardParts ==
  ASSUME NEW c \in Cards
  PROVE  /\ c.side \in Sides /\ c.heroId \in Heroes
         /\ c.slot \in 0..(MAX_LIVE_PICKS_PER_SIDE - 1)
<1> DEFINE R == [side : Sides, slot : 0..(MAX_LIVE_PICKS_PER_SIDE - 1), heroId : Heroes]
<1>1. CardsOf \in Seq(SUBSET R)
  BY CardsAssumption
<1>2. PICK n \in DOMAIN CardsOf : c \in CardsOf[n]
  BY DEF Cards
<1> HIDE DEF R
<1>3. CardsOf[n] \in SUBSET R
  BY <1>1, <1>2
<1>4. c \in R
  BY <1>2, <1>3
<1>5. QED BY <1>4 DEF R

LEMMA SentParts ==
  ASSUME NEW e \in Sent
  PROVE  /\ Postable(e) /\ e.source = "ocr" /\ e.eventId \in EventIds
         /\ e.payload.type \in {"pick", "revert", "capture_health"}
         /\ IsWord(e) => e.payload.status \in HelperWords /\ e.payload \in VisualWords
         /\ ~IsWord(e) => e.payload \in Observations
         /\ e.epoch \in Nat /\ e.life \in Nat /\ e.cards \in SUBSET Cards
<1>1. e.source = "ocr" /\ e.eventId \in EventIds /\ e.payload \in Payloads
      /\ e.epoch \in Nat /\ e.life \in Nat /\ e.cards \in SUBSET Cards
  BY DEF Sent
<1>2. ASSUME NEW c \in Cards, e.payload = PickOf(c)
      PROVE  e.payload \in Observations /\ e.payload.type = "pick"
  <2>1. c.side \in Sides /\ c.heroId \in Heroes /\ NoPosition \in Positions \cup {NoPosition}
    BY CardParts
  <2>2. PickOf(c) \in Observations
    BY <2>1 DEF PickOf, Observations
  <2>3. PickOf(c).type = "pick"
    BY DEF PickOf, Pick
  <2>4. QED BY <1>2, <2>2, <2>3
<1>3. ASSUME NEW c \in Cards, e.payload = RevertOf(c)
      PROVE  e.payload \in Observations /\ e.payload.type = "revert"
  BY <1>3, CardParts DEF RevertOf, Revert, Observations
<1>4. ASSUME NEW w \in HelperWords, e.payload = Health(w)
      PROVE  e.payload \in VisualWords /\ IsWord(e) /\ e.payload.status = w
  BY <1>4 DEF Health, VisualWords, CaptureHealth, HelperWords, IsWord
<1>5. /\ e.payload.type \in {"pick", "revert", "capture_health"}
      /\ IsWord(e) => e.payload.status \in HelperWords /\ e.payload \in VisualWords
      /\ ~IsWord(e) => e.payload \in Observations
  BY <1>1, <1>2, <1>3, <1>4 DEF Payloads, IsWord
<1>6. Postable(e)
  BY <1>1, <1>5 DEF Postable, Parsed, VisualWords
<1>7. QED BY <1>1, <1>5, <1>6

(* A word, an envelope remembered, and any outside a draft tell nothing.   *)
Idle(e, x) == IsWord(e) \/ e.eventId \in ToSet(x.eventOrder) \/ ~x.facts.started \/ x.ended

Takes(x, e, y) ==
  /\ y.draftEpoch = x.draftEpoch /\ y.matchKey = x.matchKey /\ y.ended = x.ended
  /\ y.facts.started = x.facts.started
  /\ ToSet(y.eventOrder) \subseteq ToSet(x.eventOrder) \cup {e.eventId}
  /\ y.facts = IF Idle(e, x) THEN x.facts ELSE ApplyLiveObservation(x.facts, e.payload)

LEMMA Remembers ==
  ASSUME NEW ids \in Seq(EventIds), NEW id \in EventIds
  PROVE  ToSet(Remember(ids, id)) \subseteq ToSet(ids) \cup {id}
<1> DEFINE a == Append(ids, id)
<1>1. a \in Seq(EventIds) /\ DOMAIN ids = 1..Len(ids) /\ Len(ids) \in Nat /\ Len(a) = Len(ids) + 1
  OBVIOUS
<1>2. \A i \in 1..(Len(ids) + 1) : a[i] \in ToSet(ids) \cup {id}
  <2>1. ASSUME NEW i \in 1..(Len(ids) + 1) PROVE a[i] \in ToSet(ids) \cup {id}
    <3>1. CASE i \in 1..Len(ids)
      BY <1>1, <3>1 DEF ToSet
    <3>2. CASE i = Len(ids) + 1
      BY <3>2
    <3>3. QED BY <1>1, <3>1, <3>2
  <2>2. QED BY <2>1
<1>3. ToSet(a) \subseteq ToSet(ids) \cup {id}
  BY <1>1, <1>2 DEF ToSet
<1>4. a # <<>> /\ DOMAIN Tail(a) = 1..Len(ids) /\ \A i \in 1..Len(ids) : Tail(a)[i] = a[i + 1]
  BY <1>1
<1>5. ToSet(Tail(a)) \subseteq ToSet(ids) \cup {id}
  <2> HIDE DEF a
  <2>1. \A i \in 1..Len(ids) : i + 1 \in 1..(Len(ids) + 1)
    BY <1>1
  <2>2. QED BY <1>2, <1>4, <2>1 DEF ToSet
<1>6. QED BY <1>3, <1>5 DEF Remember

LEMMA PostTakes ==
  ASSUME NEW s, Steady(s), Plainly(s.entry), NEW e \in Sent
  PROVE  LET t == IngestEnvelope(s, e) IN
         /\ Steady(t) /\ Plainly(t.entry) /\ t.session.owner = s.session.owner
         /\ Takes(s.entry, e, t.entry)
<1> DEFINE ids == Remember(s.entry.eventOrder, e.eventId)
           n == [s.entry EXCEPT !.eventOrder = ids]
           v == [n EXCEPT !.visual = VisualAlive(@)]
           u == [session |-> s.session, entry |-> n]
           w == [session |-> s.session, entry |-> v]
           t == IngestEnvelope(s, e)
           o == e.payload
<1>1. /\ Postable(e) /\ e.source = "ocr" /\ e.eventId \in EventIds
      /\ o.type \in {"pick", "revert", "capture_health"}
      /\ IsWord(e) => o.status \in HelperWords
      /\ ~IsWord(e) => o \in Observations
  BY SentParts
<1>2. Steady(t) /\ t.entry.draftEpoch = s.entry.draftEpoch
  BY <1>1, IngestEnvelopeSteady
<1>3. /\ s.entry \in EntryRecs /\ s = [session |-> s.session, entry |-> s.entry]
      /\ s.entry.eventOrder \in Seq(EventIds) /\ SoundFacts(s.entry.facts)
      /\ GoodEntry(s.entry)
  BY FitParts DEF Steady, EntryRecs
<1>4. CASE e.eventId \in ToSet(s.entry.eventOrder)
  <2>1. t = s
    BY <1>4 DEF IngestEnvelope
  <2>2. QED BY <1>2, <1>4, <2>1 DEF Takes, Idle
<1>5. CASE e.eventId \notin ToSet(s.entry.eventOrder)
  <2>1. t = IngestVisual([s EXCEPT !.entry.eventOrder = Remember(@, e.eventId)], o)
    BY <1>1, <1>5 DEF IngestEnvelope
  <2>2. [s EXCEPT !.entry.eventOrder = Remember(@, e.eventId)] = u
    BY <1>3
  <2>3. ids \in Seq(EventIds) /\ ToSet(ids) \subseteq ToSet(s.entry.eventOrder) \cup {e.eventId}
        /\ IsInjective(ids) /\ Len(ids) <= MAX_REMEMBERED_EVENT_IDS
    BY <1>1, <1>3, <1>5, RememberKeeps, Remembers DEF GoodEntry
  <2> HIDE DEF ids, t
  <2>4. /\ n \in EntryRecs /\ n.facts = s.entry.facts /\ n.eventOrder = ids
        /\ n.suppressed = s.entry.suppressed /\ n.draftEpoch = s.entry.draftEpoch
        /\ n.matchKey = s.entry.matchKey /\ n.ended = s.entry.ended
    BY <1>3, <2>3 DEF EntryRecs
  <2>5. CASE IsWord(e)
    <3> DEFINE x == [n EXCEPT !.visual = o.status]
    <3>1. t = [session |-> s.session, entry |-> x]
      BY <2>1, <2>2, <2>5 DEF IngestVisual, VisualPayloads, IsWord
    <3>2. /\ x.facts = n.facts /\ x.eventOrder = n.eventOrder /\ x.suppressed = n.suppressed
          /\ x.draftEpoch = n.draftEpoch /\ x.matchKey = n.matchKey /\ x.ended = n.ended
      BY <2>4 DEF EntryRecs
    <3> HIDE DEF x, n
    <3>3. QED BY <1>2, <2>3, <2>4, <2>5, <3>1, <3>2 DEF Takes, Idle, Plainly, t
  <2>6. CASE ~IsWord(e)
    <3>1. o \in Observations /\ o.type \in {"pick", "revert"}
      BY <1>1, <2>6 DEF IsWord
    <3>2. t = VisualFact(u, o)
      BY <2>1, <2>2, <3>1 DEF IngestVisual, VisualPayloads
    <3>3. VisualAlive(n.visual) \in {"none", "ok", "ok_stale", "unread", "other"}
      BY <2>4 DEF VisualAlive, EntryRecs
    <3>4. /\ v \in EntryRecs /\ v.facts = s.entry.facts /\ v.eventOrder = ids
          /\ v.suppressed = s.entry.suppressed /\ v.draftEpoch = s.entry.draftEpoch
          /\ v.matchKey = s.entry.matchKey /\ v.ended = s.entry.ended
      BY <2>4, <3>3 DEF EntryRecs
    <3>5. [u EXCEPT !.entry.visual = VisualAlive(@)] = w
      <4> HIDE DEF n
      <4>1. u.entry = n /\ u.session = s.session
        OBVIOUS
      <4>2. [u EXCEPT !.entry = [n EXCEPT !.visual = VisualAlive(n.visual)]] = w
        OBVIOUS
      <4> HIDE DEF u, w, v
      <4>3. QED BY <4>1, <4>2
    <3> HIDE DEF n, v
    <3>6. w \in Fits /\ w.entry = v /\ w.session = s.session
      <4>1. GoodEntry(v)
        BY <1>3, <2>3, <3>4 DEF GoodEntry
      <4>2. s.session \in SessionRecs
        BY FitParts DEF Steady
      <4>3. QED BY <4>1, <4>2, FitOf
    <3>7. t = IF ~w.entry.facts.started \/ w.entry.ended THEN w ELSE ApplyObservation(w, o)
      <4> DEFINE z == [u EXCEPT !.entry.visual = VisualAlive(@)]
      <4> HIDE DEF u, o
      <4>1. VisualFact(u, o) =
              IF ~z.entry.facts.started \/ z.entry.ended \/ Suppressed(z, o) THEN z
              ELSE ApplyObservation(z, o)
        BY DEF VisualFact
      <4>2. z = w
        BY <3>5
      <4> HIDE DEF w, z
      <4>3. ~Suppressed(w, o)
        BY <3>4, <3>6 DEF Suppressed, Plainly
      <4>4. QED BY <3>2, <4>1, <4>2, <4>3
    <3> HIDE DEF w
    <3>8. CASE ~w.entry.facts.started \/ w.entry.ended
      BY <1>2, <2>3, <3>4, <3>6, <3>7, <3>8 DEF Takes, Idle, Plainly, t
    <3>9. CASE ~(~w.entry.facts.started \/ w.entry.ended)
      <4> DEFINE y == ApplyFact(w, o)
      <4>1. /\ y \in Fits
            /\ y.entry.facts = ApplyLiveObservation(w.entry.facts, o)
            /\ y.session.owner = w.session.owner /\ y.entry.suppressed = w.entry.suppressed
            /\ y.entry.eventOrder = w.entry.eventOrder /\ y.entry.draftEpoch = w.entry.draftEpoch
            /\ y.entry.matchKey = w.entry.matchKey /\ y.entry.ended = w.entry.ended
        BY <3>1, <3>6, ApplyFactPlain, ApplyFactFits
      <4>2. t = IF y = w THEN w ELSE Rebuild(y)
        BY <3>7, <3>9 DEF ApplyObservation
      <4> HIDE DEF y
      <4>3. /\ t.entry.facts = ApplyLiveObservation(w.entry.facts, o)
            /\ t.session.owner = w.session.owner /\ t.entry.suppressed = w.entry.suppressed
            /\ t.entry.eventOrder = w.entry.eventOrder /\ t.entry.draftEpoch = w.entry.draftEpoch
            /\ t.entry.matchKey = w.entry.matchKey /\ t.entry.ended = w.entry.ended
        BY <4>1, <4>2, RebuildAlike DEF Alike
      <4>4. t.entry.facts.started = s.entry.facts.started
        BY <1>3, <3>1, <3>4, <3>6, <4>3, AppliedStarts DEF SoundFacts, LiveFactsSet
      <4>5. t.entry.facts.bans = {}
        <5>1. Gains(s.entry.facts, t.entry.facts, o)
          BY <1>3, <3>1, <3>4, <3>6, <4>3, AppliedFacts
        <5>2. QED BY <3>1, <5>1 DEF Gains, Plainly
      <4>6. ~Idle(e, s.entry)
        BY <1>5, <2>6, <3>4, <3>6, <3>9 DEF Idle
      <4>7. QED BY <1>2, <2>3, <3>4, <3>6, <4>3, <4>4, <4>5, <4>6 DEF Takes, Plainly, t
    <3>10. QED BY <3>8, <3>9
  <2>7. QED BY <2>5, <2>6
<1>6. QED BY <1>4, <1>5

----------------------------------------------------------------------------
(* What a pick makes of the facts                                          *)

Keeps(f, g) == \A side \in Sides, h \in Heroes : HasPick(f, side, h) => HasPick(g, side, h)

(* StaleFactTaken, and a card the engine has been told of, of the facts f  *)
(* while the game is in its draft d.                                       *)
StaleIn(f, d) ==
  \E k \in FactPicks(f) : \A card \in CardsOf[d] : k # [side |-> card.side, heroId |-> card.heroId]
Told(f, d, c) == HasPick(f, c.side, c.heroId) \/ StaleIn(f, d)

LEMMA PicksHeld ==
  ASSUME NEW f, SoundFacts(f)
  PROVE  /\ DOMAIN f.picks = 1..Len(f.picks) /\ Len(f.picks) \in Nat
         /\ \A i \in DOMAIN f.picks :
              /\ f.picks[i] \in LivePicks /\ f.picks[i].side \in Sides /\ f.picks[i].heroId \in Heroes
              /\ [side |-> f.picks[i].side, heroId |-> f.picks[i].heroId] \in FactPicks(f)
         /\ \A k \in FactPicks(f) : \E i \in DOMAIN f.picks :
              k = [side |-> f.picks[i].side, heroId |-> f.picks[i].heroId]
         /\ \A i, j \in DOMAIN f.picks : f.picks[i].heroId = f.picks[j].heroId => i = j
<1>1. f.picks \in Seq(LivePicks) /\ OnceEach(f.picks) /\ FactPicks(f) = KeysIn(f.picks)
  BY PicksAreKeys DEF SoundFacts, LiveFactsSet
<1>2. /\ DOMAIN f.picks = 1..Len(f.picks) /\ Len(f.picks) \in Nat
      /\ \A i \in DOMAIN f.picks : f.picks[i] \in LivePicks /\ f.picks[i] \in ToSet(f.picks)
      /\ \A p \in ToSet(f.picks) : \E i \in DOMAIN f.picks : p = f.picks[i]
  BY <1>1, PicksInSeq
<1>3. \A p \in LivePicks : p.side \in Sides /\ p.heroId \in Heroes
  BY DEF LivePicks
<1>4. QED BY <1>1, <1>2, <1>3 DEF KeysIn, KeyOf, OnceEach

LEMMA ToldStays ==
  ASSUME NEW f, SoundFacts(f), NEW g, SoundFacts(g), Keeps(f, g),
         NEW d, NEW c \in Cards, Told(f, d, c)
  PROVE  Told(g, d, c)
<1>1. ASSUME NEW k \in FactPicks(f) PROVE k \in FactPicks(g)
  <2>1. PICK i \in DOMAIN f.picks : k = [side |-> f.picks[i].side, heroId |-> f.picks[i].heroId]
    BY PicksHeld
  <2>2. HasPick(f, f.picks[i].side, f.picks[i].heroId)
    BY DEF HasPick
  <2>3. HasPick(g, f.picks[i].side, f.picks[i].heroId)
    BY <2>2, PicksHeld DEF Keeps
  <2>4. QED BY <2>1, <2>3, PicksHeld DEF HasPick
<1>2. QED BY <1>1, CardParts DEF Told, StaleIn, Keeps

(* A pick is a fact afterwards, unless its hero is in another pick or its  *)
(* side is full; no pick is lost.                                          *)
LEMMA PickHolds ==
  ASSUME NEW f, SoundFacts(f), f.bans = {}, NEW c \in Cards
  PROVE  LET g == ApplyLiveObservation(f, PickOf(c)) IN
         /\ Keeps(f, g)
         /\ \/ HasPick(g, c.side, c.heroId)
            \/ g = f /\ \/ c.heroId \in PickedHeroes(f)
                        \/ Cardinality(PicksOfSide(f, c.side)) >= MAX_LIVE_PICKS_PER_SIDE
<1> DEFINE o == PickOf(c)
           g == ApplyLiveObservation(f, o)
<1>1. o.type = "pick" /\ o.side = c.side /\ o.heroId = c.heroId /\ o.viaLocalHero = FALSE
      /\ o.position = NoPosition
  BY DEF PickOf, Pick
<1>2. g = ApplyPick(f, o)
  BY <1>1 DEF ApplyLiveObservation
<1> HIDE DEF o, g
<1>3. f.picks \in Seq(LivePicks) /\ f \in LiveFactsSet
  BY DEF SoundFacts, LiveFactsSet
<1>4. DOMAIN f.picks = 1..Len(f.picks) /\ Len(f.picks) \in Nat /\ \A i \in DOMAIN f.picks : f.picks[i] \in LivePicks
  BY PicksHeld
<1>5. CASE HasPick(f, o.side, o.heroId)
  <2> DEFINE gained(p) == IF p.heroId = o.heroId /\ p.position = NoPosition
                          THEN [p EXCEPT !.position = o.position] ELSE p
             s == [i \in DOMAIN f.picks |-> gained(f.picks[i])]
  <2>1. g = RestatePick(f, o)
    BY <1>2, <1>5 DEF ApplyPick
  <2>2. \A p \in LivePicks : gained(p).side = p.side /\ gained(p).heroId = p.heroId
    BY DEF LivePicks
  <2>3. g.picks = s
    <3>1. g = [f EXCEPT !.picks = s,
                        !.localOnlyPick = IF @ = o.heroId /\ ~o.viaLocalHero THEN NoHero ELSE @]
      BY <2>1 DEF RestatePick, gained
    <3> HIDE DEF s
    <3>2. QED BY <1>3, <3>1 DEF LiveFactsSet
  <2> HIDE DEF gained
  <2>4. DOMAIN g.picks = DOMAIN f.picks
        /\ \A i \in DOMAIN f.picks : g.picks[i].side = f.picks[i].side /\ g.picks[i].heroId = f.picks[i].heroId
    BY <1>4, <2>2, <2>3
  <2>5. Keeps(f, g)
    BY <2>4 DEF Keeps, HasPick
  <2>6. HasPick(g, o.side, o.heroId)
    BY <1>5, <2>4 DEF HasPick
  <2>7. QED BY <1>1, <2>5, <2>6 DEF g, o
<1>6. CASE /\ ~HasPick(f, o.side, o.heroId)
           /\ \/ o.heroId \in PickedHeroes(f)
              \/ Cardinality(PicksOfSide(f, o.side)) >= MAX_LIVE_PICKS_PER_SIDE
  <2>1. g = f
    BY <1>2, <1>6 DEF ApplyPick
  <2>2. QED BY <1>1, <1>6, <2>1 DEF Keeps, g, o
<1>7. CASE /\ ~HasPick(f, o.side, o.heroId) /\ o.heroId \notin PickedHeroes(f)
           /\ ~(Cardinality(PicksOfSide(f, o.side)) >= MAX_LIVE_PICKS_PER_SIDE)
  <2> DEFINE p == [side |-> o.side, heroId |-> o.heroId, position |-> o.position]
             s == Append(f.picks, p)
  <2>1. g = AddPick(f, o)
    BY <1>2, <1>7 DEF ApplyPick
  <2>2. g.picks = s
    <3>1. g = [f EXCEPT !.picks = s, !.localOnlyPick = IF o.viaLocalHero THEN o.heroId ELSE @]
      BY <2>1 DEF AddPick
    <3> HIDE DEF s
    <3>2. QED BY <1>3, <3>1 DEF LiveFactsSet
  <2>3. p.side = o.side /\ p.heroId = o.heroId /\ p \in LivePicks
    <3>1. o.side \in Sides /\ o.heroId \in Heroes /\ o.position \in Positions \cup {NoPosition}
      BY <1>1, CardParts
    <3>2. QED BY <3>1 DEF LivePicks
  <2> HIDE DEF p
  <2>4. /\ DOMAIN s = 1..(Len(f.picks) + 1) /\ s[Len(f.picks) + 1] = p
        /\ \A i \in 1..Len(f.picks) : s[i] = f.picks[i]
    BY <1>3, <2>3
  <2> HIDE DEF s
  <2>5. Keeps(f, g)
    BY <1>4, <2>2, <2>4 DEF Keeps, HasPick
  <2>6. HasPick(g, o.side, o.heroId)
    <3>1. Len(f.picks) + 1 \in DOMAIN g.picks
      BY <1>4, <2>2, <2>4
    <3>2. QED BY <2>2, <2>3, <2>4, <3>1 DEF HasPick
  <2>7. QED BY <1>1, <2>5, <2>6 DEF g, o
<1>8. QED BY <1>5, <1>6, <1>7

(* A card of a draft refused is refused for a fact of another draft: the   *)
(* cards of one side of a draft are at most its slots.                     *)
LEMMA PickTells ==
  ASSUME NEW f, SoundFacts(f), f.bans = {}, NEW d \in DOMAIN CardsOf, NEW c \in CardsOf[d]
  PROVE  Told(ApplyLiveObservation(f, PickOf(c)), d, c)
<1> DEFINE g == ApplyLiveObservation(f, PickOf(c))
           N == MAX_LIVE_PICKS_PER_SIDE
<1>1. c \in Cards /\ CardsOf[d] \subseteq Cards
  BY DEF Cards
<1>2. \A x, y \in CardsOf[d] : x.heroId = y.heroId \/ (x.side = y.side /\ x.slot = y.slot) => x = y
  BY CardsAssumption
<1>3. ASSUME c.heroId \in PickedHeroes(f), ~HasPick(f, c.side, c.heroId) PROVE StaleIn(f, d)
  <2>1. PICK i \in DOMAIN f.picks : f.picks[i].heroId = c.heroId
    BY <1>3 DEF PickedHeroes
  <2>2. f.picks[i].side # c.side
    BY <1>3, <2>1 DEF HasPick
  <2>3. [side |-> f.picks[i].side, heroId |-> f.picks[i].heroId] \in FactPicks(f)
    BY PicksHeld
  <2>4. \A card \in CardsOf[d] :
          [side |-> f.picks[i].side, heroId |-> f.picks[i].heroId] # [side |-> card.side, heroId |-> card.heroId]
    BY <1>2, <2>1, <2>2
  <2>5. QED BY <2>3, <2>4 DEF StaleIn
<1>4. ASSUME Cardinality(PicksOfSide(f, c.side)) >= N, ~HasPick(f, c.side, c.heroId), ~StaleIn(f, d)
      PROVE  FALSE
  <2> DEFINE P == PicksOfSide(f, c.side)
             T == (0..(N - 1)) \ {c.slot}
             Of(i) == CHOOSE card \in CardsOf[d] :
                        card.side = f.picks[i].side /\ card.heroId = f.picks[i].heroId
             slot == [i \in P |-> Of(i).slot]
  <2>1. N \in Nat /\ c.slot \in 0..(N - 1)
    BY <1>1, CardParts, LiveBoundsAssumption
  <2>2. ASSUME NEW i \in P
        PROVE  /\ Of(i) \in CardsOf[d] /\ Of(i).side = c.side /\ Of(i).heroId = f.picks[i].heroId
               /\ f.picks[i].heroId # c.heroId
    <3>1. i \in DOMAIN f.picks /\ f.picks[i].side = c.side
      BY DEF PicksOfSide
    <3>2. [side |-> f.picks[i].side, heroId |-> f.picks[i].heroId] \in FactPicks(f)
      BY <3>1, PicksHeld
    <3>3. \E card \in CardsOf[d] : card.side = f.picks[i].side /\ card.heroId = f.picks[i].heroId
      BY <1>4, <3>2 DEF StaleIn
    <3>4. f.picks[i].heroId # c.heroId
      BY <1>4, <3>1 DEF HasPick
    <3>5. QED BY <3>1, <3>3, <3>4
  <2> HIDE DEF Of
  <2>3. \A i \in P : slot[i] = Of(i).slot
    OBVIOUS
  <2>4. ASSUME NEW i \in P PROVE slot[i] \in T
    <3>1. Of(i).slot \in 0..(N - 1)
      BY <1>1, <2>2, CardParts
    <3>2. Of(i).slot # c.slot
      BY <1>2, <2>2
    <3>3. QED BY <2>3, <3>1, <3>2
  <2>5. ASSUME NEW i \in P, NEW j \in P, slot[i] = slot[j] PROVE i = j
    <3>1. Of(i).slot = Of(j).slot
      BY <2>3, <2>5
    <3>2. Of(i) = Of(j)
      BY <1>2, <2>2, <3>1
    <3>3. f.picks[i].heroId = f.picks[j].heroId
      BY <2>2, <3>2
    <3>4. i \in DOMAIN f.picks /\ j \in DOMAIN f.picks
      BY DEF PicksOfSide
    <3>5. QED BY <3>3, <3>4, PicksHeld
  <2>6. slot \in Injection(P, T)
    <3>1. slot \in [P -> T]
      BY <2>4
    <3> HIDE DEF slot, P, T
    <3>2. QED BY <2>5, <3>1 DEF Injection, IsInjective
  <2>7. IsFiniteSet(T) /\ Cardinality(T) = N - 1
    <3>1. IsFiniteSet(0..(N - 1)) /\ Cardinality(0..(N - 1)) = N
      BY <2>1, FS_Interval
    <3>2. QED BY <2>1, <3>1, FS_RemoveElement
  <2> HIDE DEF slot, P, T
  <2>8. Cardinality(P) <= Cardinality(T)
    BY <2>6, <2>7, FS_Injection
  <2>9. IsFiniteSet(P)
    BY <2>6, <2>7, FS_Injection
  <2>10. Cardinality(P) \in Nat
    BY <2>9, FS_CardinalityType
  <2>11. QED BY <1>4, <2>1, <2>7, <2>8, <2>10 DEF P
<1>5. \/ HasPick(g, c.side, c.heroId)
      \/ g = f /\ (c.heroId \in PickedHeroes(f) \/ Cardinality(PicksOfSide(f, c.side)) >= N)
  BY <1>1, PickHolds
<1> HIDE DEF g
<1>6. QED BY <1>3, <1>4, <1>5 DEF Told, g

LEMMA PostStep ==
  ASSUME EngineOK, game \in Games, DraftsOK, NEW e \in Sent, PostVisual(e),
         UNCHANGED <<game, reported>>
  PROVE  /\ EngineOK' /\ DraftsOK' /\ entry' # NoEntry
         /\ Takes(Found, e, entry') /\ entry'.draftEpoch = Epoch(entry)
         /\ Plainly(Found) /\ SoundFacts(Found.facts) /\ SoundFacts(entry'.facts)
<1> DEFINE c == Claimed(LinkAccount)
           t == IngestEnvelope(c, e)
<1>1. /\ Steady(c) /\ c.session.owner = LinkAccount /\ c.entry = Found /\ Plainly(Found)
      /\ Found.draftEpoch = Epoch(entry)
  BY ClaimedFinds
<1>2. Becomes(t) /\ UNCHANGED linked /\ linked = TRUE
  BY <1>1 DEF PostVisual, ThroughLink, EngineOK
<1> HIDE DEF c
<1>3. /\ Steady(t) /\ Plainly(t.entry) /\ t.session.owner = LinkAccount
      /\ Takes(Found, e, t.entry)
  BY <1>1, PostTakes
<1> HIDE DEF t
<1>4. SoundFacts(Found.facts) /\ SoundFacts(t.entry.facts)
  BY <1>1, <1>3, FitParts DEF Steady
<1>5. t.entry.draftEpoch = Epoch(entry) /\ t.entry.draftEpoch <= MaxEpochs
  BY <1>1, <1>3, LiveAssumption DEF Takes, Epoch, EngineOK, IInv
<1>6. EngineOK' /\ entry' = t.entry /\ entry' # NoEntry
  BY <1>2, <1>3, <1>5, LeavesEngineOK
<1>7. DraftsOK'
  <2>1. \/ entry = NoEntry /\ Found.draftEpoch = 0 /\ ~Found.facts.started
        \/ Found = entry /\ entry # NoEntry
    BY DEF Found, FreshEntry, EmptyLiveFacts
  <2>2. reported >= 0
    BY DEF DraftsOK, Games
  <2>3. CASE entry = NoEntry /\ Found.draftEpoch = 0 /\ ~Found.facts.started
    BY <1>3, <1>6, <2>2, <2>3 DEF DraftsOK, Takes
  <2>4. CASE Found = entry /\ entry # NoEntry
    BY <1>3, <1>6, <2>4 DEF DraftsOK, Takes
  <2>5. QED BY <2>1, <2>3, <2>4
<1>8. QED BY <1>1, <1>3, <1>4, <1>5, <1>6, <1>7

LEMMA CrashStep ==
  ASSUME EngineOK, game \in Games, DraftsOK, EngineCrashes
  PROVE  EngineOK' /\ DraftsOK' /\ entry' = NoEntry
<1>1. session' = NoSession /\ entry' = NoEntry /\ linked' = linked /\ reported' = 0 /\ game' = game
  BY DEF EngineCrashes, EngineRestarts
<1>2. State' = [session |-> NoSession, entry |-> NoEntry]
  BY <1>1 DEF State
<1>3. Good(State)'
  BY <1>2 DEF Good
<1>4. EngineOK'
  BY <1>1, <1>3 DEF EngineOK, IInv
<1>5. DraftsOK'
  BY <1>1 DEF DraftsOK, Games
<1>6. QED BY <1>1, <1>4, <1>5

----------------------------------------------------------------------------
(* The helper and its queue                                                *)

Answers == [phase : {"none", "waiting", "hero_selection", "ended"}, epoch : Nat, life : Nat]
Helpers ==
  [ open : BOOLEAN, epoch : Nat, life : Nat, armed : BOOLEAN, baseline : SUBSET Cards,
    confirmed : SUBSET Cards, word : HelperWords \cup {Silent}, lifecycle : Answers,
    pc : {"frame", "flush", "answer"} ]

(* Cards are only read under a baseline, one in a slot.                    *)
HelperOK(h) ==
  /\ h \in Helpers
  /\ h.baseline \cap h.confirmed = {}
  /\ h.armed => h.open
  /\ h.baseline \cup h.confirmed # {} => h.armed
  /\ \A c, d \in h.confirmed : c.side = d.side /\ c.slot = d.slot => c = d

QueueOK(q) ==
  /\ q \in Seq(Sent) /\ Len(q) <= MaxQueue
  /\ \A i, j \in DOMAIN q : q[i].eventId = q[j].eventId => i = j

Shape ==
  /\ game \in Games /\ HelperOK(helper) /\ QueueOK(queue) /\ answer \in Answers
  /\ helper.pc = "answer" <=> answer # NoAnswer
  /\ helper.pc = "answer" => queue # <<>>
  /\ vouched \in [epoch : Nat, life : Nat, cards : SUBSET Cards]
  /\ restarts \in 0..MaxRestarts

LEMMA SetInSeq ==
  ASSUME NEW S, IsFiniteSet(S)
  PROVE  LET s == SetToSeq(S) IN
         /\ s \in Seq(S) /\ Len(s) = Cardinality(S) /\ DOMAIN s = 1..Cardinality(S)
         /\ Cardinality(S) \in Nat
         /\ \A i \in DOMAIN s : s[i] \in S
         /\ \A i, j \in DOMAIN s : s[i] = s[j] => i = j
<1> DEFINE n == Cardinality(S)
           s == SetToSeq(S)
<1>1. n \in Nat /\ ExistsBijection(1..n, S)
  BY FS_CardinalityType
<1>2. PICK f : f \in Bijection(1..n, S)
  BY <1>1 DEF ExistsBijection
<1>3. f \in [1..n -> S] /\ IsInjective(f)
  BY <1>2 DEF Bijection, Injection
<1> HIDE DEF n
<1>4. s \in [1..n -> S] /\ IsInjective(s)
  BY <1>3 DEF SetToSeq, n
<1> HIDE DEF s
<1>5. s \in Seq(S) /\ Len(s) = n /\ DOMAIN s = 1..n
  BY <1>1, <1>4
<1>6. QED BY <1>1, <1>4, <1>5 DEF IsInjective, n, s

(* There is an id for each envelope the queue has room for.                *)
LEMMA IdsAreFresh ==
  ASSUME EngineOK, QueueOK(queue)
  PROVE  /\ IsFiniteSet(FreshIds) /\ Cardinality(FreshIds) \in Nat
         /\ Cardinality(FreshIds) >= MaxQueue - Len(queue)
         /\ FreshIds \subseteq EventIds
         /\ \A id \in FreshIds : /\ \A i \in DOMAIN queue : queue[i].eventId # id
                                 /\ entry # NoEntry => id \notin ToSet(entry.eventOrder)
<1> DEFINE Q == {queue[i].eventId : i \in DOMAIN queue}
           R == IF entry = NoEntry THEN {} ELSE ToSet(entry.eventOrder)
           n == Len(queue)
           m == MAX_REMEMBERED_EVENT_IDS
<1>1. FreshIds = EventIds \ (Q \cup R)
  BY DEF FreshIds
<1>2. n \in Nat /\ m \in Nat /\ DOMAIN queue = 1..n
  BY LiveAssumption DEF QueueOK
<1>3. IsFiniteSet(Q) /\ Cardinality(Q) <= n /\ Cardinality(Q) \in Nat
  <2> DEFINE f == [i \in 1..n |-> queue[i].eventId]
  <2>1. f \in Surjection(1..n, Q)
    BY <1>2 DEF Surjection
  <2> HIDE DEF n
  <2>2. IsFiniteSet(1..n) /\ Cardinality(1..n) = n
    BY <1>2, FS_Interval
  <2> HIDE DEF f, Q
  <2>3. QED BY <2>1, <2>2, FS_Surjection, FS_CardinalityType
<1>4. IsFiniteSet(R) /\ Cardinality(R) <= m /\ Cardinality(R) \in Nat
  <2>1. CASE entry = NoEntry
    BY <1>2, <2>1, FS_EmptySet
  <2>2. CASE entry # NoEntry
    <3> DEFINE s == entry.eventOrder
               k == Len(s)
    <3>1. s \in Seq(EventIds) /\ k <= m
      BY <2>2 DEF EngineOK, IInv, Good, GoodEntry, EntryRecs, State
    <3> HIDE DEF s
    <3>2. k \in Nat /\ DOMAIN s = 1..k
      BY <3>1
    <3> HIDE DEF k
    <3>3. s \in Surjection(1..k, ToSet(s))
      BY <3>1, <3>2 DEF Surjection, ToSet
    <3>4. IsFiniteSet(1..k) /\ Cardinality(1..k) = k
      BY <3>2, FS_Interval
    <3>5. IsFiniteSet(ToSet(s)) /\ Cardinality(ToSet(s)) <= k /\ Cardinality(ToSet(s)) \in Nat
      BY <3>3, <3>4, FS_Surjection, FS_CardinalityType
    <3>6. R = ToSet(s)
      BY <2>2 DEF s
    <3> HIDE DEF R, m
    <3>7. QED BY <1>2, <3>1, <3>2, <3>5, <3>6
  <2>3. QED BY <2>1, <2>2
<1> HIDE DEF Q, R
<1>5. IsFiniteSet(Q \cup R) /\ Cardinality(Q \cup R) <= n + m /\ Cardinality(Q \cup R) \in Nat
  <2>1. IsFiniteSet(Q \cup R) /\ Cardinality(Q \cup R) = Cardinality(Q) + Cardinality(R) - Cardinality(Q \cap R)
    BY <1>3, <1>4, FS_Union
  <2>2. Cardinality(Q \cap R) \in Nat /\ Cardinality(Q \cup R) \in Nat
    BY <1>3, <2>1, FS_Intersection, FS_CardinalityType
  <2>3. QED BY <1>2, <1>3, <1>4, <2>1, <2>2
<1>6. /\ IsFiniteSet(FreshIds) /\ Cardinality(FreshIds) \in Nat
      /\ Cardinality(FreshIds) >= Cardinality(EventIds) - (n + m)
  <2>1. /\ IsFiniteSet(EventIds) /\ Cardinality(EventIds) \in Nat
    BY VisualBoundsAssumption, FS_CardinalityType
  <2>2. /\ IsFiniteSet(FreshIds)
        /\ Cardinality(FreshIds) = Cardinality(EventIds) - Cardinality(EventIds \cap (Q \cup R))
    BY <1>1, <2>1, FS_Difference
  <2>3. Cardinality(EventIds \cap (Q \cup R)) <= Cardinality(Q \cup R)
    BY <1>5, FS_Intersection
  <2>4. Cardinality(EventIds \cap (Q \cup R)) \in Nat
    BY <1>5, FS_Intersection, FS_CardinalityType
  <2>5. QED BY <1>2, <1>5, <2>1, <2>2, <2>3, <2>4, FS_CardinalityType
<1>7. Cardinality(FreshIds) >= MaxQueue - n
  BY <1>2, <1>6, VisualBoundsAssumption, FS_CardinalityType
<1>8. QED BY <1>1, <1>6, <1>7 DEF Q, R, n

(* t is q and then r.                                                      *)
Appends(q, r, t) ==
  /\ Len(t) = Len(q) + Len(r)
  /\ DOMAIN t = 1..(Len(q) + Len(r)) /\ Len(q) \in Nat /\ Len(r) \in Nat
  /\ DOMAIN q = 1..Len(q) /\ DOMAIN r = 1..Len(r)
  /\ \A i \in 1..Len(q) : t[i] = q[i]
  /\ \A i \in 1..Len(r) : t[Len(q) + i] = r[i]
  /\ \A i \in 1..(Len(q) + Len(r)) : i \in 1..Len(q) \/ \E k \in 1..Len(r) : i = Len(q) + k

LEMMA JoinedAt ==
  ASSUME NEW S, NEW q \in Seq(S), NEW r \in Seq(S)
  PROVE  q \o r \in Seq(S) /\ Appends(q, r, q \o r)
<1>1. Len(q) \in Nat /\ Len(r) \in Nat /\ DOMAIN q = 1..Len(q) /\ DOMAIN r = 1..Len(r)
  OBVIOUS
<1>2. /\ q \o r \in Seq(S) /\ Len(q \o r) = Len(q) + Len(r)
      /\ \A i \in 1..(Len(q) + Len(r)) : (q \o r)[i] = IF i <= Len(q) THEN q[i] ELSE r[i - Len(q)]
  BY ConcatProperties, Zenon
<1> DEFINE t == q \o r
           n == Len(q)
           m == Len(r)
<1> HIDE DEF t, n, m
<1>3. t \in Seq(S) /\ Len(t) = n + m /\ n \in Nat /\ m \in Nat
      /\ \A i \in 1..(n + m) : t[i] = IF i <= n THEN q[i] ELSE r[i - n]
  BY <1>1, <1>2 DEF t, n, m
<1>4. DOMAIN t = 1..(n + m)
  BY <1>3
<1>5. \A i \in 1..n : t[i] = q[i]
  BY <1>3
<1>6. \A i \in 1..m : t[n + i] = r[i]
  BY <1>3
<1>7. ASSUME NEW i \in 1..(n + m) PROVE i \in 1..n \/ \E k \in 1..m : i = n + k
  <2>1. CASE i > n
    <3>1. i - n \in 1..m /\ i = n + (i - n)
      BY <1>3, <2>1
    <3>2. QED BY <3>1
  <2>2. QED BY <1>3, <2>1
<1>8. QED BY <1>1, <1>3, <1>4, <1>5, <1>6, <1>7 DEF t, n, m, Appends

(* A frame: the helper it leaves, the payloads of the cards it confirms    *)
(* and the word after them. While all that was confirmed is on screen, it  *)
(* only confirms cards on screen and takes nothing back; its "ok" is said  *)
(* when every card on screen is confirmed.                                 *)
Submits(h, payloads, word) ==
  /\ HelperOK(h)
  /\ h.epoch = helper.epoch /\ h.life = helper.life /\ h.open = helper.open
  /\ h.lifecycle = helper.lifecycle
  /\ payloads \in Seq(Payloads) /\ \A i \in DOMAIN payloads : payloads[i].type # "capture_health"
  /\ word \in HelperWords \cup {Silent}
  /\ word = "ok" /\ h.open => Shown \subseteq h.confirmed
  /\ helper.confirmed \subseteq game.locked =>
       \A i \in DOMAIN payloads : \E c \in game.locked : payloads[i] = PickOf(c)
  /\ \A c \in h.confirmed :
       \/ c \in helper.confirmed
       \/ c \in game.locked /\ \E i \in DOMAIN payloads : payloads[i] = PickOf(c)

(* What is added to the queue.                                             *)
Adds(new, payloads, word) ==
  /\ new \in Seq(Sent)
  /\ Len(new) = Len(payloads) + Len(Said(word)) /\ Len(payloads) \in Nat
  /\ \A i \in DOMAIN new :
       /\ new[i].eventId \in FreshIds
       /\ new[i].epoch = helper.epoch /\ new[i].life = helper.life /\ new[i].cards = Shown
       /\ \/ i \in DOMAIN payloads /\ new[i].payload = payloads[i]
          \/ i = Len(payloads) + 1 /\ word # Silent /\ new[i].payload = Health(word)
  /\ \A i \in DOMAIN payloads : i \in DOMAIN new /\ new[i].payload = payloads[i]
  /\ \A i, j \in DOMAIN new : new[i].eventId = new[j].eventId => i = j

LEMMA SubmitAdds ==
  ASSUME EngineOK, Shape, NEW h, NEW payloads, NEW word,
         Submits(h, payloads, word), Submit(h, payloads, word)
  PROVE  Adds(Stamped(payloads \o Said(word)), payloads, word)
<1> DEFINE said == Said(word)
           all == payloads \o said
           ids == SetToSeq(FreshIds)
           new == Stamped(all)
           n == Len(payloads)
           w == Len(said)
           m == n + w
           K == Cardinality(FreshIds)
           at(i) == [ eventId |-> ids[i], source |-> "ocr", payload |-> all[i],
                      epoch |-> helper.epoch, life |-> helper.life, cards |-> Shown ]
<1>1. payloads \in Seq(Payloads) /\ word \in HelperWords \cup {Silent}
  BY DEF Submits
<1>2. said \in Seq(Payloads) /\ w \in {0, 1} /\ (w = 1 => word # Silent /\ said[1] = Health(word))
  <2>1. CASE word = Silent
    BY <2>1 DEF Said
  <2>2. CASE word # Silent
    <3>1. Health(word) \in Payloads
      BY <1>1, <2>2 DEF Payloads
    <3>2. said = <<Health(word)>>
      BY <2>2 DEF Said
    <3>3. QED BY <2>2, <3>1, <3>2
  <2>3. QED BY <2>1, <2>2
<1>3. new = [i \in DOMAIN all |-> at(i)]
  BY DEF Stamped
<1> HIDE DEF said
<1>4. /\ all \in Seq(Payloads) /\ DOMAIN all = 1..m
      /\ n \in Nat /\ DOMAIN payloads = 1..n
      /\ \A i \in 1..n : all[i] = payloads[i]
      /\ \A i \in 1..w : all[n + i] = said[i]
  BY <1>1, <1>2, JoinedAt DEF m, n, w, Appends
<1>5. /\ IsFiniteSet(FreshIds) /\ FreshIds \subseteq EventIds /\ K \in Nat
      /\ K >= n + 1
  <2>1. Len(queue) + n + 1 <= MaxQueue /\ Len(queue) \in Nat
    BY DEF Submit, Shape, QueueOK
  <2>2. IsFiniteSet(FreshIds) /\ FreshIds \subseteq EventIds /\ K \in Nat /\ K >= MaxQueue - Len(queue)
    BY IdsAreFresh DEF Shape
  <2>3. QED BY <1>4, <2>1, <2>2, VisualBoundsAssumption
<1> HIDE DEF n, w, K
<1>6. /\ \A i \in 1..K : ids[i] \in FreshIds
      /\ \A i, j \in 1..K : ids[i] = ids[j] => i = j
  BY <1>5, SetInSeq DEF K
<1> HIDE DEF ids, all, new
<1>7. Shown \in SUBSET Cards /\ helper.epoch \in Nat /\ helper.life \in Nat
  BY DEF Shown, Shape, Games, HelperOK, Helpers
<1>8. m \in Nat /\ m <= K
  BY <1>2, <1>4, <1>5
<1>9. \A i \in 1..m : all[i] \in Payloads /\ i \in 1..K
  BY <1>4, <1>5, <1>8
<1>10. ASSUME NEW i \in 1..m PROVE i \in 1..n \/ (i = n + 1 /\ w = 1)
  BY <1>2, <1>4
<1> HIDE DEF m
<1>11. ASSUME NEW i \in 1..m
       PROVE  /\ at(i) \in Sent /\ at(i).eventId = ids[i] /\ ids[i] \in FreshIds
              /\ at(i).epoch = helper.epoch /\ at(i).life = helper.life /\ at(i).cards = Shown
              /\ at(i).payload = all[i]
  <2>1. ids[i] \in FreshIds /\ ids[i] \in EventIds
    BY <1>5, <1>6, <1>9
  <2>2. QED BY <1>7, <1>9, <2>1 DEF Sent
<1> HIDE DEF at
<1>12. new \in Seq(Sent) /\ Len(new) = m /\ DOMAIN new = 1..m /\ \A i \in 1..m : new[i] = at(i)
  BY <1>3, <1>4, <1>8, <1>11
<1>13. ASSUME NEW i \in 1..m
       PROVE  \/ i \in 1..n /\ new[i].payload = payloads[i]
              \/ i = n + 1 /\ word # Silent /\ new[i].payload = Health(word)
  <2>1. new[i].payload = all[i]
    BY <1>11, <1>12
  <2>2. CASE i \in 1..n
    BY <1>4, <2>1, <2>2
  <2>3. CASE i = n + 1 /\ w = 1
    BY <1>2, <1>4, <2>1, <2>3
  <2>4. QED BY <1>10, <2>2, <2>3
<1>14. ASSUME NEW i \in 1..n PROVE i \in 1..m /\ new[i].payload = payloads[i]
  <2>1. i \in 1..m
    BY <1>2, <1>4 DEF m
  <2>2. QED BY <1>4, <1>11, <1>12, <2>1
<1>15. \A i, j \in 1..m : new[i].eventId = new[j].eventId => i = j
  BY <1>6, <1>9, <1>11, <1>12
<1>16. Len(new) = Len(payloads) + Len(Said(word)) /\ Len(payloads) \in Nat /\ n = Len(payloads)
  BY <1>4, <1>12 DEF m, n, w, said
<1>17. Adds(new, payloads, word)
  BY <1>4, <1>11, <1>12, <1>13, <1>14, <1>15, <1>16 DEF Adds
<1>18. QED BY <1>17 DEF new, all, said

----------------------------------------------------------------------------
(* What the parties know of each other                                     *)

(* Nobody is ahead of the engine; x is aware of its draft when it carries  *)
(* its number and its life.                                                *)
Upto(x) == x.life < restarts \/ (x.life = restarts /\ x.epoch <= Epoch(entry))
Aware(x) == entry # NoEntry /\ entry.draftEpoch # 0 /\ x.life = restarts /\ x.epoch = entry.draftEpoch

(* The helper knows of a draft from the answer it keeps, and the answer    *)
(* under way is not older. What is queued, and the last "ok" taken, was    *)
(* said by a helper that knew no more than it knows now; facts, of the     *)
(* draft it is in.                                                         *)
Ordered ==
  /\ Upto(helper) /\ Upto(helper.lifecycle) /\ Upto(answer) /\ Upto(vouched)
  /\ Aware(helper) => Aware(helper.lifecycle)
  /\ helper.pc = "answer" /\ Aware(helper.lifecycle) => Aware(answer)
  /\ Aware(vouched) => Aware(helper)
  /\ \A i \in DOMAIN queue :
       /\ Upto(queue[i]) /\ (Aware(queue[i]) => Aware(helper))
       /\ ~IsWord(queue[i]) => queue[i].epoch = helper.epoch /\ queue[i].life = helper.life

(* The engine is in the draft on screen, which goes on.                    *)
Current == entry # NoEntry /\ entry.draftEpoch # 0 /\ ~entry.ended /\ reported = game.draft
ToldIt(c) == Told(entry.facts, game.draft, c)

(* The helper has read nothing that is not on screen; each card it has     *)
(* read, the engine has been told of or will be before any "ok" that       *)
(* counts on it; an envelope the engine has had told it.                   *)
Spoken ==
  /\ helper.confirmed \subseteq game.locked
  /\ \A c \in helper.confirmed : ToldIt(c) \/ \E i \in DOMAIN queue : queue[i].payload = PickOf(c)
  /\ \A i \in DOMAIN queue :
       /\ ~IsWord(queue[i]) => \E c \in game.locked : queue[i].payload = PickOf(c)
       /\ IsOk(queue[i]) /\ Aware(queue[i]) =>
            \A c \in queue[i].cards : ToldIt(c) \/ \E j \in 1..(i - 1) : queue[j].payload = PickOf(c)
       /\ queue[i].eventId \in ToSet(entry.eventOrder) \/ (i = 1 /\ helper.pc = "answer") =>
            \A c \in game.locked : queue[i].payload = PickOf(c) => ToldIt(c)

Truthful ==
  Current =>
    /\ Aware(helper.lifecycle) => helper.lifecycle.phase = "hero_selection"
    /\ Aware(answer) => answer.phase = "hero_selection"
    /\ Aware(helper) => helper.open /\ Spoken
    /\ Aware(vouched) => \A c \in vouched.cards : ToldIt(c)

VisualInv == EngineOK /\ DraftsOK /\ Shape /\ Ordered /\ Truthful

----------------------------------------------------------------------------
(* Frames                                                                  *)

LEMMA EngineIdle ==
  ASSUME EngineOK, UNCHANGED <<session, entry, linked>>
  PROVE  EngineOK'
<1>1. session' = session /\ entry' = entry /\ linked' = linked
  OBVIOUS
<1>2. State' = State
  BY <1>1 DEF State
<1>3. Good(State)'
  BY <1>2 DEF EngineOK, IInv
<1>4. QED BY <1>1, <1>3 DEF EngineOK, IInv

(* The queue after a frame.                                                *)
LEMMA QueueAdds ==
  ASSUME EngineOK, QueueOK(queue), NEW new, NEW payloads, NEW word,
         Adds(new, payloads, word), Len(queue) + Len(payloads) + 1 <= MaxQueue,
         queue' = queue \o new
  PROVE  /\ QueueOK(queue)' /\ Len(queue) \in Nat /\ Len(payloads) \in Nat
         /\ DOMAIN queue = 1..Len(queue) /\ DOMAIN queue \subseteq DOMAIN queue'
         /\ \A i \in DOMAIN queue : queue'[i] = queue[i]
         /\ \A i \in DOMAIN payloads :
              Len(queue) + i \in DOMAIN queue' /\ queue'[Len(queue) + i].payload = payloads[i]
         /\ \A i \in DOMAIN queue' : i \in DOMAIN queue \/ \E k \in DOMAIN new : i = Len(queue) + k
         /\ \A k \in DOMAIN new : /\ queue'[Len(queue) + k] = new[k] /\ k \in Nat
                                  /\ Len(queue) + k \in DOMAIN queue'
<1> DEFINE n == Len(queue)
           w == Len(Said(word))
           p == Len(payloads)
           m == Len(new)
<1>1. /\ queue \in Seq(Sent) /\ new \in Seq(Sent)
      /\ \A i, j \in DOMAIN queue : queue[i].eventId = queue[j].eventId => i = j
      /\ \A i, j \in DOMAIN new : new[i].eventId = new[j].eventId => i = j
      /\ \A i \in DOMAIN new : new[i].eventId \in FreshIds
      /\ Len(new) = p + w /\ p \in Nat
      /\ \A i \in DOMAIN payloads : i \in DOMAIN new /\ new[i].payload = payloads[i]
  BY DEF QueueOK, Adds
<1>2. /\ queue' \in Seq(Sent) /\ Len(queue') = n + m
      /\ DOMAIN queue' = 1..(n + m) /\ n \in Nat /\ m \in Nat
      /\ DOMAIN queue = 1..n /\ DOMAIN new = 1..m
      /\ \A i \in 1..n : queue'[i] = queue[i]
      /\ \A i \in 1..m : queue'[n + i] = new[i]
      /\ \A i \in 1..(n + m) : i \in 1..n \/ \E k \in 1..m : i = n + k
  <2>1. queue' \in Seq(Sent) /\ Appends(queue, new, queue')
    BY <1>1, JoinedAt
  <2>2. QED BY <2>1 DEF Appends
<1>3. w \in {0, 1}
  BY DEF Said
<1>4. n + p + 1 <= MaxQueue /\ m = p + w
  BY <1>1
<1> HIDE DEF n, w, p, m
<1>5. Len(queue') <= MaxQueue
  BY <1>1, <1>2, <1>3, <1>4, VisualBoundsAssumption DEF p
<1>6. /\ DOMAIN queue \subseteq DOMAIN queue'
      /\ \A k \in DOMAIN new : queue'[n + k] = new[k] /\ n + k \in DOMAIN queue' /\ k \in Nat
      /\ \A i \in DOMAIN queue' : i \in DOMAIN queue \/ \E k \in DOMAIN new : i = n + k
  <2>1. 1..n \subseteq 1..(n + m) /\ \A k \in 1..m : n + k \in 1..(n + m) /\ k \in Nat
    BY <1>2
  <2>2. QED BY <1>2, <2>1
<1>7. \A k \in DOMAIN new : \A i \in DOMAIN queue : queue[i].eventId # new[k].eventId
  BY <1>1, IdsAreFresh
<1>8. ASSUME NEW i \in DOMAIN queue', NEW j \in DOMAIN queue', queue'[i].eventId = queue'[j].eventId
      PROVE  i = j
  <2>1. CASE i \in DOMAIN queue /\ j \in DOMAIN queue
    <3>1. queue'[i] = queue[i] /\ queue'[j] = queue[j]
      BY <1>2, <2>1
    <3>2. QED BY <1>1, <1>8, <2>1, <3>1
  <2>2. CASE i \in DOMAIN queue /\ \E k \in DOMAIN new : j = n + k
    <3>1. PICK k \in DOMAIN new : j = n + k
      BY <2>2
    <3>2. queue'[i] = queue[i] /\ queue'[j] = new[k]
      BY <1>2, <1>6, <2>2, <3>1
    <3>3. QED BY <1>7, <1>8, <2>2, <3>2
  <2>3. CASE j \in DOMAIN queue /\ \E k \in DOMAIN new : i = n + k
    <3>1. PICK k \in DOMAIN new : i = n + k
      BY <2>3
    <3>2. queue'[j] = queue[j] /\ queue'[i] = new[k]
      BY <1>2, <1>6, <2>3, <3>1
    <3>3. QED BY <1>7, <1>8, <2>3, <3>2
  <2>4. CASE (\E k \in DOMAIN new : i = n + k) /\ (\E k \in DOMAIN new : j = n + k)
    <3>1. PICK k \in DOMAIN new : i = n + k
      BY <2>4
    <3>2. PICK o \in DOMAIN new : j = n + o
      BY <2>4
    <3>3. queue'[i] = new[k] /\ queue'[j] = new[o]
      BY <1>6, <3>1, <3>2
    <3>4. QED BY <1>1, <1>8, <3>1, <3>2, <3>3
  <2>5. QED BY <1>6, <2>1, <2>2, <2>3, <2>4
<1>9. QueueOK(queue')
  BY <1>2, <1>5, <1>8 DEF QueueOK
<1>10. \A i \in DOMAIN payloads : n + i \in DOMAIN queue' /\ queue'[n + i].payload = payloads[i]
  BY <1>1, <1>6
<1>11. QED BY <1>1, <1>2, <1>6, <1>9, <1>10 DEF n, p

LEMMA SubmitStep ==
  ASSUME VisualInv, helper.pc = "frame", NEW h, NEW payloads, NEW word,
         Submits(h, payloads, word), Submit(h, payloads, word)
  PROVE  VisualInv'
<1> DEFINE new == Stamped(payloads \o Said(word))
           n == Len(queue)
<1>1. /\ session' = session /\ entry' = entry /\ linked' = linked /\ game' = game
      /\ answer' = answer /\ vouched' = vouched /\ restarts' = restarts /\ reported' = reported
      /\ queue' = queue \o new /\ n + Len(payloads) + 1 <= MaxQueue
      /\ helper' = [h EXCEPT !.pc = "flush", !.word = IF word = Silent THEN @ ELSE word]
  BY DEF Submit, toldVars
<1>2. EngineOK /\ DraftsOK /\ Shape /\ Ordered /\ Truthful /\ QueueOK(queue)
  BY DEF VisualInv, Shape
<1>3. /\ HelperOK(h) /\ word \in HelperWords \cup {Silent}
      /\ h.epoch = helper.epoch /\ h.life = helper.life /\ h.open = helper.open
      /\ h.lifecycle = helper.lifecycle
  BY DEF Submits
<1>4. Adds(new, payloads, word)
  BY <1>2, SubmitAdds
<1> HIDE DEF new
<1>5. /\ QueueOK(queue)' /\ n \in Nat /\ Len(payloads) \in Nat
      /\ DOMAIN queue = 1..n /\ DOMAIN queue \subseteq DOMAIN queue'
      /\ \A i \in DOMAIN queue : queue'[i] = queue[i]
      /\ \A i \in DOMAIN payloads : n + i \in DOMAIN queue' /\ queue'[n + i].payload = payloads[i]
      /\ \A i \in DOMAIN queue' : i \in DOMAIN queue \/ \E k \in DOMAIN new : i = n + k
      /\ \A k \in DOMAIN new : /\ queue'[n + k] = new[k] /\ k \in Nat
                               /\ n + k \in DOMAIN queue'
  BY <1>1, <1>2, <1>4, QueueAdds
<1>6. /\ HelperOK(helper)' /\ helper'.pc = "flush"
      /\ helper'.epoch = helper.epoch /\ helper'.life = helper.life /\ helper'.open = helper.open
      /\ helper'.lifecycle = helper.lifecycle /\ helper'.confirmed = h.confirmed
  BY <1>1, <1>3 DEF HelperOK, Helpers
<1>7. EngineOK'
  BY <1>1, <1>2, EngineIdle
<1>8. DraftsOK'
  BY <1>1, <1>2 DEF DraftsOK
<1>9. Shape'
  BY <1>1, <1>2, <1>5, <1>6 DEF Shape
<1>10. \A k \in DOMAIN new :
         /\ new[k].epoch = helper.epoch /\ new[k].life = helper.life /\ new[k].cards = Shown
         /\ new[k].eventId \in FreshIds
         /\ \/ k \in DOMAIN payloads /\ new[k].payload = payloads[k]
            \/ k = Len(payloads) + 1 /\ word # Silent /\ new[k].payload = Health(word)
  BY <1>4 DEF Adds
<1> HIDE DEF n
<1>11. Ordered'
  <2>0. entry' = entry /\ restarts' = restarts /\ answer' = answer /\ vouched' = vouched
    BY <1>1
  <2>1. ASSUME NEW i \in DOMAIN queue'
        PROVE  /\ Upto(queue[i])' /\ (Aware(queue[i])' => Aware(helper)')
               /\ ~IsWord(queue'[i]) => queue'[i].epoch = helper'.epoch /\ queue'[i].life = helper'.life
    <3>1. CASE i \in DOMAIN queue
      <4>1. queue'[i] = queue[i]
        BY <1>5, <3>1
      <4>2. QED BY <1>2, <1>6, <2>0, <3>1, <4>1 DEF Ordered, Upto, Aware, Epoch
    <3>2. CASE \E k \in DOMAIN new : i = n + k
      <4>1. queue'[i].epoch = helper.epoch /\ queue'[i].life = helper.life
        BY <1>5, <1>10, <3>2
      <4>2. QED BY <1>2, <1>6, <2>0, <4>1 DEF Ordered, Upto, Aware, Epoch
    <3>3. QED BY <1>5, <3>1, <3>2
  <2>2. /\ Upto(helper)' /\ Upto(helper.lifecycle)' /\ Upto(answer)' /\ Upto(vouched)'
        /\ Aware(helper)' => Aware(helper.lifecycle)'
        /\ Aware(vouched)' => Aware(helper)'
    BY <1>2, <1>6, <2>0 DEF Ordered, Upto, Aware, Epoch
  <2>3. QED BY <1>6, <2>1, <2>2 DEF Ordered
<1>12. Truthful'
  <2>1. SUFFICES ASSUME Current' PROVE
          /\ Aware(helper.lifecycle)' => helper'.lifecycle.phase = "hero_selection"
          /\ Aware(answer)' => answer'.phase = "hero_selection"
          /\ Aware(helper)' => helper'.open /\ Spoken'
          /\ Aware(vouched)' => \A c \in vouched'.cards : ToldIt(c)'
    BY DEF Truthful
  <2>2. Current
    BY <1>1, <2>1 DEF Current
  <2>3. \A c : ToldIt(c)' = ToldIt(c)
    BY <1>1 DEF ToldIt
  <2>4. /\ Aware(helper.lifecycle)' => helper'.lifecycle.phase = "hero_selection"
        /\ Aware(answer)' => answer'.phase = "hero_selection"
        /\ Aware(helper)' => helper'.open /\ Spoken
        /\ Aware(vouched)' => \A c \in vouched'.cards : ToldIt(c)'
    BY <1>1, <1>2, <1>6, <2>2, <2>3 DEF Truthful, Aware
  <2>5. ASSUME Spoken, helper.open PROVE Spoken'
    <3>1. /\ helper.confirmed \subseteq game.locked
          /\ \A c \in helper.confirmed : ToldIt(c) \/ \E i \in DOMAIN queue : queue[i].payload = PickOf(c)
      BY <2>5 DEF Spoken
    <3>2. /\ \A i \in DOMAIN payloads : \E c \in game.locked : payloads[i] = PickOf(c)
          /\ word = "ok" => Shown \subseteq h.confirmed
          /\ \A c \in h.confirmed :
               \/ c \in helper.confirmed
               \/ c \in game.locked /\ \E i \in DOMAIN payloads : payloads[i] = PickOf(c)
      BY <1>3, <2>5, <3>1 DEF Submits
    <3>3. helper'.confirmed \subseteq game'.locked
      BY <1>1, <1>6, <3>1, <3>2
    <3>4. ASSUME NEW c \in h.confirmed
          PROVE  ToldIt(c) \/ \E i \in DOMAIN queue' : i <= n + Len(payloads) /\ queue'[i].payload = PickOf(c)
      <4>1. CASE c \in helper.confirmed
        <5>1. CASE ToldIt(c)
          BY <5>1
        <5>2. CASE \E i \in DOMAIN queue : queue[i].payload = PickOf(c)
          <6>1. PICK i \in DOMAIN queue : queue[i].payload = PickOf(c)
            BY <5>2
          <6>2. i \in DOMAIN queue' /\ queue'[i].payload = PickOf(c) /\ i <= n + Len(payloads)
            BY <1>5, <6>1
          <6>3. QED BY <6>2
        <5>3. QED BY <3>1, <4>1, <5>1, <5>2
      <4>2. CASE \E i \in DOMAIN payloads : payloads[i] = PickOf(c)
        <5>1. PICK i \in DOMAIN payloads : payloads[i] = PickOf(c)
          BY <4>2
        <5>2. i \in 1..Len(payloads)
          BY <1>4, <5>1 DEF Submits, Adds
        <5>3. n + i \in DOMAIN queue' /\ queue'[n + i].payload = PickOf(c) /\ n + i <= n + Len(payloads)
          BY <1>5, <5>1, <5>2
        <5>4. QED BY <5>3
      <4>3. QED BY <3>2, <4>1, <4>2
    <3>5. \A c \in helper'.confirmed :
            ToldIt(c)' \/ \E i \in DOMAIN queue' : queue'[i].payload = PickOf(c)
      BY <1>6, <2>3, <3>4
    <3>6. ASSUME NEW i \in DOMAIN queue'
          PROVE  /\ ~IsWord(queue'[i]) => \E c \in game'.locked : queue'[i].payload = PickOf(c)
                 /\ IsOk(queue'[i]) /\ Aware(queue[i])' =>
                      \A c \in queue'[i].cards :
                        ToldIt(c)' \/ \E j \in 1..(i - 1) : queue'[j].payload = PickOf(c)
                 /\ queue'[i].eventId \in ToSet(entry'.eventOrder) \/ (i = 1 /\ helper'.pc = "answer") =>
                      \A c \in game'.locked : queue'[i].payload = PickOf(c) => ToldIt(c)'
      <4>1. CASE i \in DOMAIN queue
        <5>1. queue'[i] = queue[i] /\ (Aware(queue[i])' = Aware(queue[i]))
          BY <1>1, <1>5, <4>1 DEF Aware
        <5>2. /\ ~IsWord(queue[i]) => \E c \in game.locked : queue[i].payload = PickOf(c)
              /\ IsOk(queue[i]) /\ Aware(queue[i]) =>
                   \A c \in queue[i].cards : ToldIt(c) \/ \E j \in 1..(i - 1) : queue[j].payload = PickOf(c)
              /\ queue[i].eventId \in ToSet(entry.eventOrder) =>
                   \A c \in game.locked : queue[i].payload = PickOf(c) => ToldIt(c)
          BY <2>5, <4>1 DEF Spoken
        <5>3. \A j \in 1..(i - 1) : queue'[j] = queue[j]
          <6>1. \A j \in 1..(i - 1) : j \in 1..n
            BY <1>5, <4>1
          <6>2. QED BY <1>5, <6>1
        <5>4. entry' = entry /\ game' = game /\ helper'.pc # "answer"
          BY <1>1, <1>6
        <5>5. QED BY <2>3, <5>1, <5>2, <5>3, <5>4, Zenon
      <4>2. CASE \E k \in DOMAIN new : i = n + k
        <5>1. PICK k \in DOMAIN new : i = n + k
          BY <4>2
        <5>2. queue'[i] = new[k]
          BY <1>5, <5>1
        <5>3. queue'[i].eventId \notin ToSet(entry.eventOrder)
          <6>1. new[k].eventId \in FreshIds /\ entry # NoEntry
            BY <1>10, <2>2 DEF Current
          <6>2. QED BY <1>2, <5>2, <6>1, IdsAreFresh
        <5>4. CASE k \in DOMAIN payloads /\ new[k].payload = payloads[k]
          <6>1. PICK c \in game.locked : new[k].payload = PickOf(c)
            BY <3>2, <5>4
          <6>2. ~IsOk(queue'[i])
            BY <5>2, <6>1 DEF IsOk, PickOf, Pick, Health
          <6>3. QED BY <1>1, <1>6, <5>2, <5>3, <6>1, <6>2
        <5>5. CASE k = Len(payloads) + 1 /\ word # Silent /\ new[k].payload = Health(word)
          <6>1. IsWord(queue'[i])
            BY <5>2, <5>5 DEF IsWord, Health
          <6>2. ASSUME IsOk(queue'[i]), NEW c \in queue'[i].cards
                PROVE  ToldIt(c)' \/ \E j \in 1..(i - 1) : queue'[j].payload = PickOf(c)
            <7>1. word = "ok"
              BY <5>2, <5>5, <6>2 DEF IsOk, Health
            <7>2. c \in h.confirmed
              BY <1>10, <3>2, <5>2, <6>2, <7>1
            <7>3. \A j \in DOMAIN queue' : j <= n + Len(payloads) => j \in 1..(i - 1)
              <8>1. i - 1 = n + Len(payloads) /\ n + Len(payloads) \in Nat
                BY <1>5, <5>1, <5>5
              <8>2. \A j \in DOMAIN queue' : j \in Nat /\ j >= 1
                BY <1>5 DEF QueueOK
              <8>3. QED BY <8>1, <8>2
            <7>4. QED BY <2>3, <3>4, <7>2, <7>3
          <6>3. QED BY <1>1, <1>6, <5>3, <6>1, <6>2
        <5>6. QED BY <1>10, <5>4, <5>5
      <4>3. QED BY <1>5, <4>1, <4>2
    <3>7. QED BY <3>3, <3>5, <3>6 DEF Spoken
  <2>6. QED BY <1>6, <2>4, <2>5
<1>13. QED BY <1>7, <1>8, <1>9, <1>11, <1>12 DEF VisualInv

LEMMA WordSaid ==
  ASSUME NEW h, NEW word \in Words(h)
  PROVE  /\ word \in HelperWords \cup {Silent}
         /\ word = "ok" => game.phase = "draft" /\ game.locked \subseteq h.confirmed
<1>1. CASE ~(h.armed /\ game.phase = "draft")
  BY <1>1 DEF Words, HelperWords, Settled, Silent
<1>2. CASE h.armed /\ game.phase = "draft" /\ Settled(h)
  BY <1>2 DEF Words, HelperWords, Settled, Silent
<1>3. CASE h.armed /\ game.phase = "draft" /\ ~Settled(h)
  <2>1. Words(h) = IF h.word = Silent THEN {"other"} ELSE {Silent, "unread"}
    BY <1>3 DEF Words
  <2>2. QED BY <2>1 DEF HelperWords, Silent
<1>4. QED BY <1>1, <1>2, <1>3

LEMMA NothingRead ==
  ASSUME NEW h, HelperOK(h), NEW word \in HelperWords \cup {Silent},
         h.epoch = helper.epoch, h.life = helper.life, h.open = helper.open,
         h.lifecycle = helper.lifecycle, h.confirmed \subseteq helper.confirmed,
         word = "ok" /\ h.open => Shown \subseteq h.confirmed
  PROVE  Submits(h, <<>>, word)
<1>1. <<>> \in Seq(Payloads) /\ DOMAIN <<>> = {}
  OBVIOUS
<1>2. QED BY <1>1 DEF Submits

LEMMA RearmedOK ==
  ASSUME NEW h, HelperOK(h)
  PROVE  /\ HelperOK(Rearmed(h)) /\ Rearmed(h).confirmed = {}
         /\ Rearmed(h).epoch = h.epoch /\ Rearmed(h).life = h.life /\ Rearmed(h).open = h.open
         /\ Rearmed(h).lifecycle = h.lifecycle /\ Rearmed(h).pc = h.pc
         /\ ~Rearmed(h).armed /\ Rearmed(h).baseline = {} /\ Rearmed(h).word = Silent
BY DEF HelperOK, Helpers, Rearmed

LEMMA ReadSubmits ==
  ASSUME Shape, NEW card \in Cards, Read(card)
  PROVE  \E h, payloads, word : Submits(h, payloads, word) /\ Submit(h, payloads, word)
<1> DEFINE R == Replaced(card)
           G == {Revert(c.side, c.heroId) : c \in R}
           reverts == SetToSeq(G)
           h == [helper EXCEPT !.confirmed = (@ \ R) \cup {card}]
           p == Pick(card.side, card.heroId, NoPosition)
           payloads == Append(reverts, p)
           n == Cardinality(G)
<1>1. /\ helper.open /\ helper.armed /\ game.phase = "draft"
      /\ card \in game.locked \ (helper.baseline \cup helper.confirmed)
      /\ \E word \in Words(h) : Submit(h, payloads, word)
  BY DEF Read
<1>2. PICK word \in Words(h) : Submit(h, payloads, word)
  BY <1>1
<1>3. /\ HelperOK(helper) /\ game.locked \subseteq Cards /\ helper \in Helpers
      /\ \A c \in game.locked : c \in CardsOf[game.draft] /\ game.draft \in DOMAIN CardsOf
  <2>1. game \in Games /\ HelperOK(helper)
    BY DEF Shape
  <2>2. game.draft \in 0..Len(CardsOf) /\ (game.draft # 0 => game.draft \in DOMAIN CardsOf)
    BY <2>1, CardsAssumption DEF Games
  <2>3. QED BY <2>1, <2>2 DEF Games, Due, HelperOK
<1>4. R = {} \/ \E c \in Cards : R = {c}
  <2>1. R \subseteq Cards /\ \A c, d \in R : c = d
    BY <1>3 DEF HelperOK, Helpers, Replaced
  <2> HIDE DEF R
  <2>2. QED BY <2>1
<1>5. G = {} \/ \E c \in Cards : G = {RevertOf(c)}
  BY <1>4 DEF RevertOf
<1>6. helper.confirmed \subseteq game.locked => G = {}
  <2>1. ASSUME helper.confirmed \subseteq game.locked, NEW c \in R PROVE FALSE
    <3>1. c \in CardsOf[game.draft] /\ card \in CardsOf[game.draft] /\ c.side = card.side /\ c.slot = card.slot
          /\ game.draft \in DOMAIN CardsOf /\ c \in helper.confirmed
      BY <1>1, <1>3, <2>1 DEF Replaced
    <3>2. c = card
      BY <3>1, CardsAssumption
    <3>3. QED BY <1>1, <3>1, <3>2
  <2> HIDE DEF R
  <2>2. QED BY <2>1
<1>7. HelperOK(h) /\ h.epoch = helper.epoch /\ h.life = helper.life /\ h.open = helper.open
      /\ h.lifecycle = helper.lifecycle /\ h.confirmed = (helper.confirmed \ R) \cup {card}
  <2>1. /\ h.epoch = helper.epoch /\ h.life = helper.life /\ h.open = helper.open
        /\ h.lifecycle = helper.lifecycle /\ h.confirmed = (helper.confirmed \ R) \cup {card}
        /\ h.armed = helper.armed /\ h.baseline = helper.baseline
    BY <1>3 DEF Helpers
  <2>2. (helper.confirmed \ R) \cup {card} \in SUBSET Cards
    BY <1>3 DEF Helpers
  <2>3. h \in Helpers
    BY <1>3, <2>2 DEF Helpers
  <2>4. \A c, d \in h.confirmed : c.side = d.side /\ c.slot = d.slot => c = d
    BY <1>3, <2>1 DEF HelperOK, Replaced
  <2> HIDE DEF h, R
  <2>5. QED BY <1>1, <1>3, <2>1, <2>3, <2>4 DEF HelperOK
<1>8. Shown \subseteq game.locked
  BY DEF Shown
<1>9. word \in HelperWords \cup {Silent} /\ (word = "ok" => Shown \subseteq h.confirmed)
  <2>1. word \in HelperWords \cup {Silent} /\ (word = "ok" => game.locked \subseteq h.confirmed)
    BY <1>2, WordSaid
  <2>2. QED BY <1>8, <2>1
<1> HIDE DEF R, h
<1>10. /\ reverts \in Seq(G) /\ n \in Nat /\ Len(reverts) = n /\ DOMAIN reverts = 1..n
       /\ G = {} => n = 0
  <2> HIDE DEF G
  <2>1. IsFiniteSet(G)
    BY <1>5, FS_EmptySet, FS_Singleton
  <2>2. QED BY <2>1, SetInSeq, FS_EmptySet
<1>11. p = PickOf(card) /\ p \in Payloads
  BY <1>1 DEF PickOf, Payloads
<1>12. G \subseteq Payloads /\ \A x \in G : x.type # "capture_health"
  <2>1. \A c : RevertOf(c).type # "capture_health"
    BY DEF RevertOf, Revert
  <2>2. \A c \in Cards : RevertOf(c) \in Payloads
    BY DEF Payloads
  <2> HIDE DEF G
  <2>3. QED BY <1>5, <2>1, <2>2
<1>13. p.type # "capture_health"
  BY DEF Pick
<1> HIDE DEF reverts, p, G, n
<1>14. /\ payloads \in Seq(Payloads) /\ DOMAIN payloads = 1..(n + 1)
       /\ payloads[n + 1] = p /\ \A i \in 1..n : payloads[i] = reverts[i] /\ reverts[i] \in G
  <2>1. reverts \in Seq(Payloads)
    BY <1>10, <1>12
  <2>2. QED BY <1>10, <1>11, <2>1
<1>15. \A i \in 1..(n + 1) : i \in 1..n \/ i = n + 1
  BY <1>10
<1> HIDE DEF payloads
<1>16. \A i \in DOMAIN payloads : payloads[i].type # "capture_health"
  BY <1>12, <1>13, <1>14, <1>15
<1>17. helper.confirmed \subseteq game.locked =>
         \A i \in DOMAIN payloads : \E c \in game.locked : payloads[i] = PickOf(c)
  <2>1. ASSUME helper.confirmed \subseteq game.locked, NEW i \in DOMAIN payloads
        PROVE  payloads[i] = PickOf(card)
    <3>1. n = 0
      BY <1>6, <1>10, <2>1
    <3>2. i = n + 1
      BY <1>14, <1>15, <3>1
    <3>3. QED BY <1>11, <1>14, <3>2
  <2>2. QED BY <1>1, <2>1
<1>18. \A c \in h.confirmed :
         \/ c \in helper.confirmed
         \/ c \in game.locked /\ \E i \in DOMAIN payloads : payloads[i] = PickOf(c)
  <2>1. n + 1 \in DOMAIN payloads /\ payloads[n + 1] = PickOf(card)
    BY <1>10, <1>11, <1>14
  <2>2. QED BY <1>1, <1>7, <2>1
<1>19. Submits(h, payloads, word)
  BY <1>7, <1>9, <1>14, <1>16, <1>17, <1>18 DEF Submits
<1>20. QED BY <1>2, <1>19

LEMMA FrameStep ==
  ASSUME VisualInv,
         Probe \/ Arm \/ (\E card \in Cards : Read(card)) \/ Look \/ CaptureLost \/ GeometryChanged
  PROVE  VisualInv'
<1>1. Shape /\ HelperOK(helper) /\ helper.confirmed \subseteq helper.confirmed
  BY DEF VisualInv, Shape
<1>2. HelperOK(Rearmed(helper)) /\ Rearmed(helper).confirmed = {}
      /\ Rearmed(helper).epoch = helper.epoch /\ Rearmed(helper).life = helper.life
      /\ Rearmed(helper).open = helper.open /\ Rearmed(helper).lifecycle = helper.lifecycle
  BY <1>1, RearmedOK
<1>3. CASE Probe
  <2>1. helper.pc = "frame" /\ ~helper.open /\ Submit(helper, <<>>, "ok")
    BY <1>3 DEF Probe
  <2>2. Submits(helper, <<>>, "ok")
    BY <1>1, <2>1, NothingRead DEF HelperWords
  <2>3. QED BY <2>1, <2>2, SubmitStep
<1>4. CASE Arm
  <2> DEFINE h == [helper EXCEPT !.armed = TRUE, !.baseline = game.locked]
  <2>1. helper.pc = "frame" /\ helper.open /\ ~helper.armed /\ \E word \in Words(h) : Submit(h, <<>>, word)
    BY <1>4 DEF Arm
  <2>2. PICK word \in Words(h) : Submit(h, <<>>, word)
    BY <2>1
  <2>3. /\ HelperOK(h) /\ h.epoch = helper.epoch /\ h.life = helper.life /\ h.open = helper.open
        /\ h.lifecycle = helper.lifecycle /\ h.confirmed = helper.confirmed
    <3>1. helper.confirmed = {}
      BY <1>1, <2>1 DEF HelperOK
    <3>2. game.locked \in SUBSET Cards
      BY <1>1 DEF Shape, Games
    <3>3. /\ h \in Helpers /\ h.epoch = helper.epoch /\ h.life = helper.life /\ h.open = helper.open
          /\ h.lifecycle = helper.lifecycle /\ h.confirmed = helper.confirmed /\ h.armed
      BY <1>1, <3>2 DEF HelperOK, Helpers
    <3> HIDE DEF h
    <3>4. QED BY <2>1, <3>1, <3>3 DEF HelperOK
  <2>4. word \in HelperWords \cup {Silent} /\ (word = "ok" => game.locked \subseteq h.confirmed)
    BY <2>2, WordSaid
  <2>5. word = "ok" => Shown \subseteq h.confirmed
    BY <2>4 DEF Shown
  <2> HIDE DEF h
  <2>6. Submits(h, <<>>, word)
    BY <2>3, <2>4, <2>5, NothingRead
  <2>7. QED BY <2>1, <2>2, <2>6, SubmitStep
<1>5. CASE \E card \in Cards : Read(card)
  <2>1. helper.pc = "frame"
    BY <1>5 DEF Read
  <2>2. \E h, payloads, word : Submits(h, payloads, word) /\ Submit(h, payloads, word)
    BY <1>1, <1>5, ReadSubmits
  <2>3. QED BY <2>1, <2>2, SubmitStep
<1>6. CASE Look
  <2>1. helper.pc = "frame" /\ \E word \in Words(helper) : Submit(helper, <<>>, word)
    BY <1>6 DEF Look
  <2>2. PICK word \in Words(helper) : Submit(helper, <<>>, word)
    BY <2>1
  <2>3. word \in HelperWords \cup {Silent} /\ (word = "ok" => game.locked \subseteq helper.confirmed)
    BY <2>2, WordSaid
  <2>4. word = "ok" => Shown \subseteq helper.confirmed
    BY <2>3 DEF Shown
  <2>5. Submits(helper, <<>>, word)
    BY <1>1, <2>3, <2>4, NothingRead
  <2>6. QED BY <2>1, <2>2, <2>5, SubmitStep
<1>7. CASE CaptureLost
  <2>1. helper.pc = "frame" /\ Submit(Rearmed(helper), <<>>, "other")
    BY <1>7 DEF CaptureLost
  <2>2. Submits(Rearmed(helper), <<>>, "other")
    BY <1>2, NothingRead DEF HelperWords
  <2>3. QED BY <2>1, <2>2, SubmitStep
<1>8. CASE GeometryChanged
  <2>1. helper.pc = "frame" /\ Submit(Rearmed(helper), <<>>, Silent)
    BY <1>8 DEF GeometryChanged
  <2>2. Submits(Rearmed(helper), <<>>, Silent)
    BY <1>2, NothingRead DEF Silent
  <2>3. QED BY <2>1, <2>2, SubmitStep
<1>9. QED BY <1>3, <1>4, <1>5, <1>6, <1>7, <1>8

----------------------------------------------------------------------------
(* Answers, and the boundaries they tell of                                *)

(* What is kept of a queue: words of it, in the order they were in.        *)
Kept(q, k) ==
  /\ k \in Seq(Sent) /\ Len(k) <= Len(q)
  /\ \A i \in DOMAIN k : IsWord(k[i]) /\ \E j \in DOMAIN q : k[i] = q[j]
  /\ \A i, j \in DOMAIN k : k[i].eventId = k[j].eventId => i = j

LEMMA Discarded ==
  ASSUME NEW q \in Seq(Sent),
         \A i, j \in DOMAIN q : q[i].eventId = q[j].eventId => i = j
  PROVE  Kept(q, DiscardFacts(q))
<1> DEFINE N == Len(q)
           turn == [n \in 1..N |-> [t \in Seq(Sent) |-> IF IsWord(q[n]) THEN Append(t, q[n]) ELSE t]]
           Loop(f) == f = [n \in 0..N |-> IF n = 0 THEN <<>>
                                          ELSE IF q[n].payload.type = "capture_health"
                                               THEN Append(f[n - 1], q[n]) ELSE f[n - 1]]
           kept == CHOOSE f : Loop(f)
           Fine(n, t) ==
             /\ t \in Seq(Sent) /\ Len(t) <= n
             /\ \A i \in 1..Len(t) : IsWord(t[i]) /\ \E j \in 1..n : t[i] = q[j]
             /\ \A i, j \in 1..Len(t) : t[i].eventId = t[j].eventId => i = j
<1>1. N \in Nat /\ DOMAIN q = 1..N /\ \A n \in 1..N : q[n] \in Sent
  OBVIOUS
<1>2. DiscardFacts(q) = kept[N]
  BY DEF DiscardFacts
<1>3. <<>> \in Seq(Sent)
  OBVIOUS
<1> HIDE DEF N
<1>4. turn \in [1..N -> [Seq(Sent) -> Seq(Sent)]]
  BY <1>1
<1> HIDE DEF turn
<1>5. PICK f \in [0..N -> Seq(Sent)] : f[0] = <<>> /\ \A n \in 1..N : f[n] = turn[n][f[n - 1]]
  <2> HIDE DEF Loop, kept
  <2>1. \E f : Loops(f, N, Seq(Sent), <<>>, turn)
    BY <1>1, <1>3, <1>4, LoopExists
  <2>2. QED BY <2>1 DEF Loops
<1>6. Loop(f)
  <2>1. ASSUME NEW n \in 0..N
        PROVE  f[n] = IF n = 0 THEN <<>>
                      ELSE IF q[n].payload.type = "capture_health"
                           THEN Append(f[n - 1], q[n]) ELSE f[n - 1]
    <3>1. CASE n = 0
      BY <1>5, <3>1
    <3>2. CASE n # 0
      <4>1. n \in 1..N /\ n - 1 \in 0..N
        BY <1>1, <2>1, <3>2
      <4>2. f[n - 1] \in Seq(Sent) /\ f[n] = turn[n][f[n - 1]]
        BY <1>5, <4>1
      <4>3. turn[n][f[n - 1]] = IF IsWord(q[n]) THEN Append(f[n - 1], q[n]) ELSE f[n - 1]
        BY <4>1, <4>2 DEF turn
      <4>4. QED BY <3>2, <4>2, <4>3 DEF IsWord
    <3>3. QED BY <3>1, <3>2
  <2>2. f = [n \in 0..N |-> f[n]]
    BY <1>5
  <2>3. QED BY <2>1, <2>2
<1>7. Loop(kept)
  BY <1>6
<1>8. ASSUME NEW n \in 0..N
      PROVE  kept[n] = IF n = 0 THEN <<>>
                       ELSE IF IsWord(q[n]) THEN Append(kept[n - 1], q[n]) ELSE kept[n - 1]
  BY <1>7 DEF IsWord
<1> HIDE DEF kept, Loop
<1> DEFINE Lost == {n \in 0..N : ~Fine(n, kept[n])}
<1>9. ASSUME Lost # {} PROVE FALSE
  <2>1. PICK n \in Lost : \A k \in Lost : n <= k
    <3>1. Lost \in SUBSET Nat
      OBVIOUS
    <3> HIDE DEF Lost
    <3>2. QED BY <1>9, <3>1, LeastNatural
  <2>2. n # 0
    <3>1. Fine(0, <<>>)
      OBVIOUS
    <3>2. kept[0] = <<>>
      BY <1>1, <1>8
    <3> HIDE DEF Fine
    <3>3. QED BY <2>1, <3>1, <3>2
  <2>3. n \in 1..N /\ n - 1 \in 0..N /\ n - 1 \notin Lost /\ ~Fine(n, kept[n])
    <3> HIDE DEF Fine
    <3>1. QED BY <1>1, <2>1, <2>2
  <2> DEFINE t == kept[n - 1]
             m == Len(t)
             u == Append(t, q[n])
  <2>4. Fine(n - 1, t) /\ q[n] \in Sent
    <3> HIDE DEF Fine
    <3>1. QED BY <1>1, <2>3
  <2>5. kept[n] = IF IsWord(q[n]) THEN u ELSE t
    BY <1>8, <2>2, <2>3
  <2>6. m \in Nat /\ \A j \in 1..(n - 1) : j \in 1..n
    BY <2>3, <2>4
  <2>7. CASE ~IsWord(q[n])
    <3>1. Fine(n, t)
      BY <2>3, <2>4, <2>6
    <3> HIDE DEF Fine, t
    <3>2. QED BY <2>3, <2>5, <2>7, <3>1
  <2>8. CASE IsWord(q[n])
    <3>1. /\ u \in Seq(Sent) /\ Len(u) = m + 1 /\ u[m + 1] = q[n]
          /\ \A i \in 1..m : u[i] = t[i]
      BY <2>4
    <3>2. /\ m <= n - 1
          /\ \A i \in 1..m : IsWord(t[i]) /\ \E j \in 1..(n - 1) : t[i] = q[j]
          /\ \A i, j \in 1..m : t[i].eventId = t[j].eventId => i = j
      BY <2>4
    <3> HIDE DEF t, u, m
    <3>3. \A i \in 1..(m + 1) : i \in 1..m \/ i = m + 1
      BY <2>6
    <3>4. n \in 1..n /\ m + 1 <= n
      BY <2>3, <2>6, <3>2
    <3>5. \A i \in 1..m : t[i].eventId # q[n].eventId
      <4>1. ASSUME NEW i \in 1..m, t[i].eventId = q[n].eventId PROVE FALSE
        <5>1. PICK j \in 1..(n - 1) : t[i] = q[j]
          BY <3>2
        <5>2. j \in 1..N /\ j # n
          BY <1>1, <2>3
        <5>3. QED BY <1>1, <2>3, <4>1, <5>1, <5>2
      <4>2. QED BY <4>1
    <3>6. \A i \in 1..(m + 1) : IsWord(u[i]) /\ \E j \in 1..n : u[i] = q[j]
      <4>1. \A i \in 1..m : IsWord(u[i]) /\ \E j \in 1..n : u[i] = q[j]
        BY <2>6, <3>1, <3>2
      <4>2. IsWord(u[m + 1]) /\ \E j \in 1..n : u[m + 1] = q[j]
        BY <2>8, <3>1, <3>4
      <4>3. QED BY <3>3, <4>1, <4>2
    <3>7. \A i, j \in 1..(m + 1) : u[i].eventId = u[j].eventId => i = j
      BY <3>1, <3>2, <3>3, <3>5
    <3>8. Fine(n, u)
      BY <3>1, <3>4, <3>6, <3>7
    <3> HIDE DEF Fine
    <3>9. QED BY <2>3, <2>5, <2>8, <3>8
  <2>9. QED BY <2>7, <2>8
<1>10. Fine(N, kept[N])
  <2> HIDE DEF Fine
  <2>1. QED BY <1>1, <1>9
<1> DEFINE k == kept[N]
<1>11. /\ k \in Seq(Sent) /\ Len(k) <= N /\ DOMAIN k = 1..Len(k)
       /\ \A i \in 1..Len(k) : IsWord(k[i]) /\ \E j \in 1..N : k[i] = q[j]
       /\ \A i, j \in 1..Len(k) : k[i].eventId = k[j].eventId => i = j
  BY <1>10
<1> HIDE DEF k, Fine
<1>12. Kept(q, k)
  BY <1>1, <1>11 DEF Kept, N
<1>13. QED BY <1>2, <1>12 DEF k

LEMMA WordNoPick ==
  ASSUME NEW e, IsWord(e), NEW c
  PROVE  e.payload # PickOf(c)
BY DEF IsWord, PickOf, Pick

LEMMA Numbers ==
  ASSUME VisualInv
  PROVE  /\ restarts \in Nat /\ Epoch(entry) \in Nat
         /\ helper.epoch \in Nat /\ helper.life \in Nat
         /\ helper.lifecycle.epoch \in Nat /\ helper.lifecycle.life \in Nat
         /\ helper.lifecycle \in Answers
<1>1. EngineOK /\ Shape
  BY DEF VisualInv
<1>2. restarts \in Nat /\ helper \in Helpers
  BY <1>1, VisualBoundsAssumption DEF Shape, HelperOK
<1>3. Epoch(entry) \in Nat
  BY <1>1, LiveAssumption DEF EngineOK, IInv, Epoch
<1>4. QED BY <1>2, <1>3 DEF Helpers, Answers

LEMMA LifecycleStep ==
  ASSUME VisualInv, OnLifecycle
  PROVE  VisualInv'
<1> DEFINE r == Rearmed(helper)
<1>1. /\ session' = session /\ entry' = entry /\ linked' = linked /\ game' = game
      /\ vouched' = vouched /\ restarts' = restarts /\ reported' = reported /\ answer' = NoAnswer
      /\ queue' = IF Opens \/ Closes THEN DiscardFacts(queue) ELSE queue
      /\ helper' = [ (IF Opens \/ Closes THEN r ELSE helper) EXCEPT
                       !.pc = "frame",
                       !.open = (@ \/ Opens) /\ ~Closes,
                       !.epoch = IF Opens THEN helper.lifecycle.epoch ELSE @,
                       !.life = IF Opens THEN helper.lifecycle.life ELSE @ ]
  BY DEF OnLifecycle, toldVars
<1>2. EngineOK /\ DraftsOK /\ Shape /\ Ordered /\ Truthful /\ QueueOK(queue) /\ HelperOK(helper)
      /\ helper \in Helpers
  BY DEF VisualInv, Shape, HelperOK
<1>3. EngineOK'
  BY <1>1, <1>2, EngineIdle
<1>4. DraftsOK'
  BY <1>1, <1>2 DEF DraftsOK
<1>5. /\ HelperOK(r) /\ r.confirmed = {} /\ r.epoch = helper.epoch /\ r.life = helper.life
      /\ r.open = helper.open /\ r.lifecycle = helper.lifecycle /\ ~r.armed /\ r.baseline = {}
  BY <1>2, RearmedOK
<1>6. /\ restarts \in Nat /\ Epoch(entry) \in Nat
      /\ helper.lifecycle.epoch \in Nat /\ helper.lifecycle.life \in Nat
      /\ helper.epoch \in Nat /\ helper.life \in Nat
  BY Numbers
<1> HIDE DEF r
<1>7. helper.open \in BOOLEAN /\ r \in Helpers
  BY <1>2, <1>5 DEF Helpers, HelperOK
<1>8. /\ HelperOK(helper)' /\ helper'.pc = "frame" /\ helper'.lifecycle = helper.lifecycle
      /\ helper'.open = ((helper.open \/ Opens) /\ ~Closes)
      /\ helper'.epoch = IF Opens THEN helper.lifecycle.epoch ELSE helper.epoch
      /\ helper'.life = IF Opens THEN helper.lifecycle.life ELSE helper.life
      /\ helper'.confirmed = IF Opens \/ Closes THEN {} ELSE helper.confirmed
  <2>1. CASE Opens \/ Closes
    <3> DEFINE open == (r.open \/ Opens) /\ ~Closes
               epoch == IF Opens THEN helper.lifecycle.epoch ELSE r.epoch
               life == IF Opens THEN helper.lifecycle.life ELSE r.life
    <3>1. helper' = [r EXCEPT !.pc = "frame", !.open = open, !.epoch = epoch, !.life = life]
      BY <1>1, <2>1
    <3>2. open \in BOOLEAN /\ epoch \in Nat /\ life \in Nat
      BY <1>5, <1>6
    <3>3. open = ((helper.open \/ Opens) /\ ~Closes)
          /\ epoch = (IF Opens THEN helper.lifecycle.epoch ELSE helper.epoch)
          /\ life = (IF Opens THEN helper.lifecycle.life ELSE helper.life)
      BY <1>5
    <3> HIDE DEF open, epoch, life
    <3>4. /\ helper' \in Helpers /\ helper'.pc = "frame" /\ helper'.lifecycle = r.lifecycle
          /\ helper'.open = open /\ helper'.epoch = epoch /\ helper'.life = life
          /\ helper'.confirmed = r.confirmed /\ helper'.armed = r.armed /\ helper'.baseline = r.baseline
      BY <1>7, <3>1, <3>2 DEF Helpers
    <3>5. HelperOK(helper')
      BY <1>5, <3>4 DEF HelperOK
    <3>6. QED BY <1>5, <2>1, <3>3, <3>4, <3>5
  <2>2. CASE ~(Opens \/ Closes)
    <3>1. helper' = [helper EXCEPT !.pc = "frame", !.open = (@ \/ Opens) /\ ~Closes, !.epoch = @, !.life = @]
      BY <1>1, <2>2
    <3>2. helper' = [helper EXCEPT !.pc = "frame"]
      BY <1>2, <1>7, <2>2, <3>1 DEF Helpers
    <3>3. QED BY <1>2, <1>7, <2>2, <3>2 DEF HelperOK, Helpers
  <2>3. QED BY <2>1, <2>2
<1>9. Opens => Drafting /\ ~Closes
  BY DEF Opens, Closes
<1>10. CASE ~(Opens \/ Closes)
  <2>1. /\ queue' = queue /\ helper'.open = helper.open /\ helper'.epoch = helper.epoch
        /\ helper'.life = helper.life /\ helper'.confirmed = helper.confirmed
    BY <1>1, <1>7, <1>8, <1>10
  <2>2. Shape'
    BY <1>1, <1>2, <1>8, <2>1 DEF Shape, Answers, NoAnswer
  <2>3. Ordered'
    BY <1>1, <1>2, <1>6, <1>8, <2>1 DEF Ordered, Upto, Aware, Epoch, NoAnswer
  <2>4. Truthful'
    <3>1. SUFFICES ASSUME Current' PROVE Truthful'
      BY DEF Truthful
    <3>2. Current
      BY <1>1, <3>1 DEF Current
    <3>3. \A c : ToldIt(c)' = ToldIt(c)
      BY <1>1 DEF ToldIt
    <3>4. ~Aware(answer)'
      BY <1>1 DEF Aware, NoAnswer
    <3>5. ASSUME Spoken PROVE Spoken'
      <4>1. \A i \in DOMAIN queue : Aware(queue[i])' = Aware(queue[i])
        BY <1>1, <2>1 DEF Aware
      <4>2. helper'.pc # "answer" /\ helper'.confirmed = helper.confirmed /\ game' = game /\ entry' = entry
        BY <1>1, <1>8, <2>1
      <4>3. QED BY <2>1, <3>3, <3>5, <4>1, <4>2, Zenon DEF Spoken
    <3>6. /\ Aware(helper)' = Aware(helper) /\ Aware(helper.lifecycle)' = Aware(helper.lifecycle)
          /\ Aware(vouched)' = Aware(vouched) /\ vouched' = vouched
      BY <1>1, <1>8, <2>1 DEF Aware
    <3>7. QED BY <1>2, <1>8, <2>1, <3>2, <3>3, <3>4, <3>5, <3>6 DEF Truthful
  <2>5. QED BY <1>3, <1>4, <2>2, <2>3, <2>4 DEF VisualInv
<1>11. CASE Opens \/ Closes
  <2>1. queue' = DiscardFacts(queue)
    BY <1>1, <1>11
  <2>2. Kept(queue, queue')
    BY <1>2, <2>1, Discarded DEF QueueOK
  <2>3. QueueOK(queue')
    <3>1. Len(queue) <= MaxQueue /\ Len(queue') <= Len(queue) /\ Len(queue) \in Nat /\ Len(queue') \in Nat
      BY <1>2, <2>2 DEF QueueOK, Kept
    <3>2. QED BY <2>2, <3>1, VisualBoundsAssumption DEF QueueOK, Kept
  <2>4. Shape'
    BY <1>1, <1>2, <1>8, <2>3 DEF Shape, Answers, NoAnswer
  <2>5. Aware(helper) /\ Current => ~Opens /\ ~Closes
    <3>1. ASSUME Aware(helper), Current PROVE ~Opens /\ ~Closes
      <4>1. Aware(helper.lifecycle) /\ helper.lifecycle.phase = "hero_selection" /\ helper.open
        BY <1>2, <3>1 DEF Ordered, Truthful
      <4>2. helper.lifecycle.epoch = helper.epoch
        BY <3>1, <4>1 DEF Aware
      <4>3. QED BY <4>1, <4>2 DEF Opens, Closes, Drafting
    <3>2. QED BY <3>1
  <2>6. Aware(helper) => Aware(helper)'
    <3>1. Aware(helper) => Aware(helper.lifecycle)
      BY <1>2 DEF Ordered
    <3>2. QED BY <1>1, <1>8, <3>1 DEF Aware
  <2>7. \A i \in DOMAIN queue' :
          /\ IsWord(queue'[i])
          /\ Upto(queue[i])' /\ (Aware(queue[i])' => Aware(helper))
    <3>1. ASSUME NEW i \in DOMAIN queue'
          PROVE  IsWord(queue'[i]) /\ Upto(queue[i])' /\ (Aware(queue[i])' => Aware(helper))
      <4>1. PICK j \in DOMAIN queue : queue'[i] = queue[j]
        BY <2>2 DEF Kept
      <4>2. Upto(queue[j]) /\ (Aware(queue[j]) => Aware(helper))
        BY <1>2 DEF Ordered
      <4>3. Upto(queue[i])' /\ (Aware(queue[i])' = Aware(queue[j]))
        BY <1>1, <4>1, <4>2 DEF Upto, Aware, Epoch
      <4>4. QED BY <2>2, <4>2, <4>3 DEF Kept
    <3>2. QED BY <3>1
  <2>8. Ordered'
    <3>1. Upto(helper)' /\ Upto(helper.lifecycle)' /\ Upto(answer)' /\ Upto(vouched)'
      BY <1>1, <1>2, <1>6, <1>8 DEF Ordered, Upto, Epoch, NoAnswer
    <3>2. Aware(helper)' => Aware(helper.lifecycle)'
      BY <1>1, <1>2, <1>8 DEF Ordered, Aware
    <3>3. Aware(vouched)' => Aware(helper)'
      <4>1. Aware(vouched)' => Aware(vouched)
        BY <1>1 DEF Aware
      <4>2. QED BY <1>2, <2>6, <4>1 DEF Ordered
    <3>4. QED BY <1>8, <2>6, <2>7, <3>1, <3>2, <3>3 DEF Ordered
  <2>9. Truthful'
    <3>1. SUFFICES ASSUME Current' PROVE Truthful'
      BY DEF Truthful
    <3>2. Current
      BY <1>1, <3>1 DEF Current
    <3>3. ~Aware(helper)
      BY <1>11, <2>5, <3>2
    <3>4. ~Aware(answer)'
      BY <1>1 DEF Aware, NoAnswer
    <3>5. ~Aware(vouched)'
      BY <1>1, <1>2, <3>3 DEF Ordered, Aware
    <3>6. Aware(helper.lifecycle)' => helper'.lifecycle.phase = "hero_selection"
      BY <1>1, <1>2, <1>8, <3>2 DEF Truthful, Aware
    <3>7. Aware(helper)' => helper'.open
      <4>1. ~Opens => (Aware(helper)' => Aware(helper))
        BY <1>1, <1>8 DEF Aware
      <4>2. QED BY <1>8, <1>9, <3>3, <4>1
    <3>8. Spoken'
      <4>1. helper'.confirmed = {}
        BY <1>8, <1>11
      <4>2. \A i \in DOMAIN queue' : \A c : queue'[i].payload # PickOf(c)
        BY <2>7, WordNoPick
      <4>3. \A i \in DOMAIN queue' : IsWord(queue'[i]) /\ ~Aware(queue[i])'
        BY <2>7, <3>3
      <4>4. QED BY <4>1, <4>2, <4>3, Zenon DEF Spoken
    <3>9. QED BY <3>4, <3>5, <3>6, <3>7, <3>8 DEF Truthful
  <2>10. QED BY <1>3, <1>4, <2>4, <2>8, <2>9 DEF VisualInv
<1>12. QED BY <1>10, <1>11

----------------------------------------------------------------------------
(* The game moves, the answer comes back, the engine restarts or is told   *)

LEMMA SamePick ==
  ASSUME NEW c, NEW d, PickOf(c) = PickOf(d)
  PROVE  ToldIt(c) = ToldIt(d)
<1>1. c.side = d.side /\ c.heroId = d.heroId
  <2>1. PickOf(c).side = c.side /\ PickOf(c).heroId = c.heroId
        /\ PickOf(d).side = d.side /\ PickOf(d).heroId = d.heroId
    BY DEF PickOf, Pick
  <2>2. QED BY <2>1
<1>2. QED BY <1>1 DEF ToldIt, Told

LEMMA GameMoves ==
  ASSUME VisualInv, NextDraft \/ (\E card \in Cards : Lock(card)) \/ DraftEnds
  PROVE  VisualInv'
<1>1. /\ session' = session /\ entry' = entry /\ linked' = linked
      /\ helper' = helper /\ queue' = queue /\ answer' = answer
      /\ vouched' = vouched /\ restarts' = restarts /\ reported' = reported
  BY DEF NextDraft, Lock, DraftEnds, helperVars, toldVars
<1>2. EngineOK /\ DraftsOK /\ Shape /\ Ordered /\ Truthful /\ game \in Games
  BY DEF VisualInv, Shape
<1>3. EngineOK'
  BY <1>1, <1>2, EngineIdle
<1>4. /\ game.draft \in 0..Len(CardsOf) /\ game.locked \subseteq Cards /\ Len(CardsOf) \in Nat
      /\ game.locked \subseteq Due(game.draft) /\ (game.phase = "draft" => game.draft # 0)
  BY <1>2, CardsAssumption DEF Games
<1>5. game' \in Games /\ DraftsOK' /\ (Current' => game'.draft = game.draft /\ game.locked \subseteq game'.locked)
  <2>1. CASE NextDraft
    <3>1. game' = [draft |-> game.draft + 1, phase |-> "draft", locked |-> {}] /\ game.draft < Len(CardsOf)
      BY <2>1 DEF NextDraft
    <3>2. game' \in Games
      BY <1>4, <3>1 DEF Games
    <3>3. reported \in 0..game'.draft /\ reported # game'.draft
      BY <1>2, <1>4, <3>1 DEF DraftsOK
    <3>4. QED BY <1>1, <1>2, <3>2, <3>3 DEF DraftsOK, Current
  <2>2. CASE \E card \in Cards : Lock(card)
    <3>1. PICK card \in Cards : Lock(card)
      BY <2>2
    <3>2. /\ game' = [game EXCEPT !.locked = @ \cup {card}]
          /\ game.phase = "draft" /\ card \in CardsOf[game.draft]
      BY <3>1 DEF Lock
    <3>3. /\ game'.draft = game.draft /\ game'.phase = game.phase
          /\ game'.locked = game.locked \cup {card}
          /\ game' \in [draft : 0..Len(CardsOf), phase : {"idle", "draft", "match"}, locked : SUBSET Cards]
      BY <1>2, <3>2 DEF Games
    <3>4. card \in Due(game.draft)
      BY <1>4, <3>2 DEF Due
    <3>5. game' \in Games
      BY <1>4, <3>3, <3>4 DEF Games
    <3>6. QED BY <1>1, <1>2, <3>3, <3>5 DEF DraftsOK
  <2>3. CASE DraftEnds
    <3>1. game' = [game EXCEPT !.phase = "match"]
      BY <2>3 DEF DraftEnds
    <3>2. /\ game'.draft = game.draft /\ game'.phase = "match" /\ game'.locked = game.locked
          /\ game' \in [draft : 0..Len(CardsOf), phase : {"idle", "draft", "match"}, locked : SUBSET Cards]
      BY <1>2, <3>1 DEF Games
    <3>3. game' \in Games
      BY <1>4, <3>2 DEF Games
    <3>4. QED BY <1>1, <1>2, <3>2, <3>3 DEF DraftsOK
  <2>4. QED BY <2>1, <2>2, <2>3
<1>6. Shape'
  BY <1>1, <1>2, <1>5 DEF Shape
<1>7. /\ \A x : Aware(x)' = Aware(x) /\ Upto(x)' = Upto(x)
      /\ Aware(helper)' = Aware(helper) /\ Aware(helper.lifecycle)' = Aware(helper.lifecycle)
      /\ Aware(answer)' = Aware(answer) /\ Aware(vouched)' = Aware(vouched)
      /\ Upto(helper)' = Upto(helper) /\ Upto(helper.lifecycle)' = Upto(helper.lifecycle)
      /\ Upto(answer)' = Upto(answer) /\ Upto(vouched)' = Upto(vouched)
      /\ \A i \in DOMAIN queue : Aware(queue[i])' = Aware(queue[i]) /\ Upto(queue[i])' = Upto(queue[i])
  BY <1>1 DEF Aware, Upto, Epoch
<1>8. Ordered'
  BY <1>1, <1>2, <1>7, Zenon DEF Ordered
<1>9. Truthful'
  <2>1. SUFFICES ASSUME Current' PROVE Truthful'
    BY DEF Truthful
  <2>2. Current /\ game'.draft = game.draft /\ game.locked \subseteq game'.locked
    BY <1>1, <1>5, <2>1 DEF Current
  <2>3. \A c : ToldIt(c)' = ToldIt(c)
    BY <1>1, <2>2 DEF ToldIt
  <2>4. ASSUME Spoken PROVE Spoken'
    <3>1. helper'.confirmed \subseteq game'.locked
      BY <1>1, <2>2, <2>4 DEF Spoken
    <3>2. \A c \in helper'.confirmed : ToldIt(c)' \/ \E i \in DOMAIN queue' : queue'[i].payload = PickOf(c)
      BY <1>1, <2>3, <2>4 DEF Spoken
    <3>3. ASSUME NEW i \in DOMAIN queue
          PROVE  /\ ~IsWord(queue[i]) => \E c \in game'.locked : queue[i].payload = PickOf(c)
                 /\ IsOk(queue[i]) /\ Aware(queue[i])' =>
                      \A c \in queue[i].cards : ToldIt(c)' \/ \E j \in 1..(i - 1) : queue[j].payload = PickOf(c)
                 /\ queue[i].eventId \in ToSet(entry.eventOrder) \/ (i = 1 /\ helper.pc = "answer") =>
                      \A c \in game'.locked : queue[i].payload = PickOf(c) => ToldIt(c)'
      <4>1. ~IsWord(queue[i]) => \E c \in game.locked : queue[i].payload = PickOf(c)
        BY <2>4 DEF Spoken
      <4>2. IsOk(queue[i]) /\ Aware(queue[i]) =>
              \A c \in queue[i].cards : ToldIt(c) \/ \E j \in 1..(i - 1) : queue[j].payload = PickOf(c)
        BY <2>4 DEF Spoken
      <4>3. ASSUME queue[i].eventId \in ToSet(entry.eventOrder) \/ (i = 1 /\ helper.pc = "answer"),
                   NEW c \in game'.locked, queue[i].payload = PickOf(c)
            PROVE  ToldIt(c)
        <5>1. ~IsWord(queue[i])
          BY <4>3, WordNoPick
        <5>2. PICK d \in game.locked : queue[i].payload = PickOf(d)
          BY <4>1, <5>1
        <5>3. ToldIt(d)
          BY <2>4, <4>3, <5>2 DEF Spoken
        <5>4. QED BY <4>3, <5>2, <5>3, SamePick
      <4>4. ~IsWord(queue[i]) => \E c \in game'.locked : queue[i].payload = PickOf(c)
        BY <2>2, <4>1
      <4>5. entry' = entry /\ Aware(queue[i])' = Aware(queue[i])
        BY <1>1, <1>7
      <4>6. IsOk(queue[i]) /\ Aware(queue[i])' =>
              \A c \in queue[i].cards : ToldIt(c)' \/ \E j \in 1..(i - 1) : queue[j].payload = PickOf(c)
        BY <2>3, <4>2, <4>5
      <4>7. ASSUME queue[i].eventId \in ToSet(entry.eventOrder) \/ (i = 1 /\ helper.pc = "answer"),
                   NEW c \in game'.locked, queue[i].payload = PickOf(c)
            PROVE  ToldIt(c)'
        BY <2>3, <4>3, <4>7
      <4>8. QED BY <4>4, <4>6, <4>7, Zenon
    <3>4. helper' = helper /\ queue' = queue /\ entry' = entry
      BY <1>1
    <3>5. QED BY <3>1, <3>2, <3>3, <3>4 DEF Spoken
  <2>5. QED BY <1>1, <1>2, <1>7, <2>2, <2>3, <2>4 DEF Truthful
<1>10. QED BY <1>3, <1>5, <1>6, <1>8, <1>9 DEF VisualInv

LEMMA RetryStep ==
  ASSUME VisualInv, Retry
  PROVE  VisualInv'
<1>1. /\ session' = session /\ entry' = entry /\ linked' = linked /\ game' = game
      /\ helper' = [helper EXCEPT !.pc = "flush"] /\ queue' = queue /\ answer' = answer
      /\ vouched' = vouched /\ restarts' = restarts /\ reported' = reported /\ helper.pc = "frame"
  BY DEF Retry, toldVars
<1>2. EngineOK /\ DraftsOK /\ Shape /\ Ordered /\ Truthful /\ HelperOK(helper)
  BY DEF VisualInv, Shape
<1>3. /\ HelperOK(helper)' /\ helper'.pc = "flush" /\ helper'.lifecycle = helper.lifecycle
      /\ helper'.epoch = helper.epoch /\ helper'.life = helper.life /\ helper'.open = helper.open
      /\ helper'.confirmed = helper.confirmed
  BY <1>1, <1>2 DEF HelperOK, Helpers
<1>4. EngineOK'
  BY <1>1, <1>2, EngineIdle
<1>5. DraftsOK' /\ Shape'
  BY <1>1, <1>2, <1>3 DEF DraftsOK, Shape
<1>6. /\ Aware(helper)' = Aware(helper) /\ Aware(helper.lifecycle)' = Aware(helper.lifecycle)
      /\ Aware(answer)' = Aware(answer) /\ Aware(vouched)' = Aware(vouched)
      /\ Upto(helper)' = Upto(helper) /\ Upto(helper.lifecycle)' = Upto(helper.lifecycle)
      /\ Upto(answer)' = Upto(answer) /\ Upto(vouched)' = Upto(vouched)
      /\ \A i \in DOMAIN queue : Aware(queue[i])' = Aware(queue[i]) /\ Upto(queue[i])' = Upto(queue[i])
      /\ Current' = Current
  BY <1>1, <1>3 DEF Aware, Upto, Epoch, Current
<1>7. \A c : ToldIt(c)' = ToldIt(c)
  BY <1>1 DEF ToldIt
<1>8. helper'.pc # "answer" /\ helper.pc # "answer"
  BY <1>1, <1>3
<1>9. queue' = queue /\ game' = game /\ entry' = entry /\ answer' = answer /\ vouched' = vouched
  BY <1>1
<1>10. Ordered'
  BY <1>2, <1>3, <1>6, <1>8, <1>9, Zenon DEF Ordered
<1>11. Spoken => Spoken'
  BY <1>3, <1>6, <1>7, <1>8, <1>9, Zenon DEF Spoken
<1>12. Truthful'
  BY <1>2, <1>3, <1>6, <1>7, <1>9, <1>11 DEF Truthful
<1>13. QED BY <1>4, <1>5, <1>10, <1>12 DEF VisualInv

LEMMA AnswerStep ==
  ASSUME VisualInv, AnswerArrives
  PROVE  VisualInv'
<1> DEFINE n == Len(queue)
<1>1. /\ session' = session /\ entry' = entry /\ linked' = linked /\ game' = game
      /\ helper' = [helper EXCEPT !.pc = "flush", !.lifecycle = answer] /\ queue' = Tail(queue)
      /\ answer' = NoAnswer /\ helper.pc = "answer"
      /\ vouched' = vouched /\ restarts' = restarts /\ reported' = reported
  BY DEF AnswerArrives, toldVars
<1>2. /\ EngineOK /\ DraftsOK /\ Shape /\ Ordered /\ Truthful /\ HelperOK(helper) /\ QueueOK(queue)
      /\ answer \in Answers /\ queue # <<>>
  BY <1>1 DEF VisualInv, Shape
<1>3. /\ HelperOK(helper)' /\ helper'.pc = "flush" /\ helper'.lifecycle = answer
      /\ helper'.epoch = helper.epoch /\ helper'.life = helper.life /\ helper'.open = helper.open
      /\ helper'.confirmed = helper.confirmed
  BY <1>1, <1>2 DEF HelperOK, Helpers
<1>4. /\ n \in Nat /\ n >= 1 /\ DOMAIN queue = 1..n /\ DOMAIN queue' = 1..(n - 1) /\ Len(queue') = n - 1
      /\ queue' \in Seq(Sent) /\ \A i \in 1..(n - 1) : queue'[i] = queue[i + 1]
  <2>1. queue \in Seq(Sent) /\ queue # <<>>
    BY <1>2 DEF QueueOK
  <2> DEFINE t == Tail(queue)
  <2>2. /\ n \in Nat /\ n >= 1 /\ DOMAIN queue = 1..n
        /\ t \in Seq(Sent) /\ Len(t) = n - 1 /\ \A i \in 1..(n - 1) : t[i] = queue[i + 1]
    BY <2>1
  <2> HIDE DEF t, n
  <2>3. DOMAIN t = 1..(n - 1)
    BY <2>2
  <2>4. queue' = t
    BY <1>1 DEF t
  <2>5. QED BY <2>2, <2>3, <2>4
<1> HIDE DEF n
<1>5. \A i \in 1..(n - 1) : i + 1 \in 1..n /\ i + 1 # 1
  BY <1>4
<1>6. QueueOK(queue')
  <2>1. Len(queue') <= MaxQueue
    <3>1. Len(queue) <= MaxQueue /\ n = Len(queue)
      BY <1>2 DEF QueueOK, n
    <3>2. QED BY <1>4, <3>1, VisualBoundsAssumption
  <2>2. ASSUME NEW i \in 1..(n - 1), NEW j \in 1..(n - 1), queue[i + 1].eventId = queue[j + 1].eventId
        PROVE  i = j
    <3>1. i + 1 = j + 1
      BY <1>2, <1>4, <1>5, <2>2 DEF QueueOK
    <3>2. QED BY <3>1
  <2>3. QED BY <1>4, <2>1, <2>2 DEF QueueOK
<1>7. EngineOK'
  BY <1>1, <1>2, EngineIdle
<1>8. DraftsOK' /\ Shape'
  BY <1>1, <1>2, <1>3, <1>6 DEF DraftsOK, Shape, Answers, NoAnswer
<1>9. /\ Aware(helper)' = Aware(helper) /\ Aware(helper.lifecycle)' = Aware(answer)
      /\ ~Aware(answer)' /\ Aware(vouched)' = Aware(vouched)
      /\ Upto(helper)' = Upto(helper) /\ Upto(helper.lifecycle)' = Upto(answer)
      /\ Upto(vouched)' = Upto(vouched)
      /\ \A i \in 1..(n - 1) :
           Aware(queue[i])' = Aware(queue[i + 1]) /\ Upto(queue[i])' = Upto(queue[i + 1])
      /\ Current' = Current
  BY <1>1, <1>3, <1>4 DEF Aware, Upto, Epoch, Current, NoAnswer
<1>10. \A c : ToldIt(c)' = ToldIt(c)
  BY <1>1 DEF ToldIt
<1>11. Ordered'
  <2>1. Upto(answer)'
    <3>1. restarts \in Nat /\ Epoch(entry) \in Nat
      BY Numbers
    <3>2. QED BY <1>1, <3>1 DEF Upto, Epoch, NoAnswer
  <2>2. Aware(helper)' => Aware(helper.lifecycle)'
    BY <1>1, <1>2, <1>9 DEF Ordered
  <2>3. ASSUME NEW i \in DOMAIN queue'
        PROVE  /\ Upto(queue[i])' /\ (Aware(queue[i])' => Aware(helper)')
               /\ ~IsWord(queue'[i]) => queue'[i].epoch = helper'.epoch /\ queue'[i].life = helper'.life
    <3>1. i \in 1..(n - 1) /\ i + 1 \in DOMAIN queue /\ queue'[i] = queue[i + 1]
      BY <1>4, <1>5
    <3>2. QED BY <1>2, <1>3, <1>9, <3>1 DEF Ordered
  <2>4. Upto(helper)' /\ Upto(helper.lifecycle)' /\ Upto(vouched)' /\ (Aware(vouched)' => Aware(helper)')
    BY <1>2, <1>9 DEF Ordered
  <2>5. QED BY <1>3, <2>1, <2>2, <2>3, <2>4 DEF Ordered
<1>12. ASSUME Spoken PROVE Spoken'
  <2>1. \A c \in helper.confirmed : ToldIt(c) \/ \E i \in DOMAIN queue : queue[i].payload = PickOf(c)
    BY <1>12 DEF Spoken
  <2>2. ASSUME NEW c, queue[1].payload = PickOf(c) PROVE ToldIt(c)
    <3>1. ~IsWord(queue[1]) /\ 1 \in DOMAIN queue
      BY <1>4, <2>2, WordNoPick
    <3>2. PICK d \in game.locked : queue[1].payload = PickOf(d)
      BY <1>12, <3>1 DEF Spoken
    <3>3. ToldIt(d)
      BY <1>1, <1>12, <3>1, <3>2 DEF Spoken
    <3>4. QED BY <2>2, <3>2, <3>3, SamePick
  <2>3. ASSUME NEW c \in helper.confirmed
        PROVE  ToldIt(c) \/ \E i \in 1..(n - 1) : queue[i + 1].payload = PickOf(c)
    <3>1. CASE ToldIt(c)
      BY <3>1
    <3>2. CASE \E i \in 1..n : queue[i].payload = PickOf(c)
      <4>1. PICK i \in 1..n : queue[i].payload = PickOf(c)
        BY <3>2
      <4>2. CASE i = 1
        BY <2>2, <4>1, <4>2
      <4>3. CASE i # 1
        <5>1. i - 1 \in 1..(n - 1) /\ (i - 1) + 1 = i
          BY <1>4, <4>1, <4>3
        <5>2. QED BY <4>1, <5>1
      <4>4. QED BY <4>2, <4>3
    <3>3. QED BY <1>4, <2>1, <3>1, <3>2
  <2>4. ASSUME NEW i \in 1..(n - 1)
        PROVE  /\ ~IsWord(queue[i + 1]) => \E c \in game.locked : queue[i + 1].payload = PickOf(c)
               /\ IsOk(queue[i + 1]) /\ Aware(queue[i + 1]) =>
                    \A c \in queue[i + 1].cards :
                      ToldIt(c) \/ \E j \in 1..(i - 1) : queue[j + 1].payload = PickOf(c)
               /\ queue[i + 1].eventId \in ToSet(entry.eventOrder) =>
                    \A c \in game.locked : queue[i + 1].payload = PickOf(c) => ToldIt(c)
    <3>1. i + 1 \in DOMAIN queue
      BY <1>4, <1>5
    <3>2. ASSUME IsOk(queue[i + 1]), Aware(queue[i + 1]), NEW c \in queue[i + 1].cards
          PROVE  ToldIt(c) \/ \E j \in 1..(i - 1) : queue[j + 1].payload = PickOf(c)
      <4>1. ToldIt(c) \/ \E j \in 1..((i + 1) - 1) : queue[j].payload = PickOf(c)
        BY <1>12, <3>1, <3>2 DEF Spoken
      <4>2. ASSUME NEW j \in 1..((i + 1) - 1), queue[j].payload = PickOf(c)
            PROVE  ToldIt(c) \/ \E k \in 1..(i - 1) : queue[k + 1].payload = PickOf(c)
        <5>1. CASE j = 1
          BY <2>2, <4>2, <5>1
        <5>2. CASE j # 1
          <6>1. j - 1 \in 1..(i - 1) /\ (j - 1) + 1 = j
            BY <1>4, <4>2, <5>2
          <6>2. QED BY <4>2, <6>1
        <5>3. QED BY <5>1, <5>2
      <4>3. QED BY <4>1, <4>2
    <3>3. QED BY <1>12, <3>1, <3>2 DEF Spoken
  <2>5. helper'.confirmed \subseteq game'.locked
    BY <1>1, <1>3, <1>12 DEF Spoken
  <2>6. \A c \in helper'.confirmed : ToldIt(c)' \/ \E i \in DOMAIN queue' : queue'[i].payload = PickOf(c)
    BY <1>3, <1>4, <1>10, <2>3
  <2>7. ASSUME NEW i \in DOMAIN queue'
        PROVE  /\ ~IsWord(queue'[i]) => \E c \in game'.locked : queue'[i].payload = PickOf(c)
               /\ IsOk(queue'[i]) /\ Aware(queue[i])' =>
                    \A c \in queue'[i].cards :
                      ToldIt(c)' \/ \E j \in 1..(i - 1) : queue'[j].payload = PickOf(c)
               /\ queue'[i].eventId \in ToSet(entry'.eventOrder) \/ (i = 1 /\ helper'.pc = "answer") =>
                    \A c \in game'.locked : queue'[i].payload = PickOf(c) => ToldIt(c)'
    <3>1. i \in 1..(n - 1) /\ queue'[i] = queue[i + 1] /\ Aware(queue[i])' = Aware(queue[i + 1])
      BY <1>4, <1>9
    <3>2. \A j \in 1..(i - 1) : j \in 1..(n - 1)
      BY <1>4, <3>1
    <3>3. \A j \in 1..(i - 1) : queue'[j] = queue[j + 1]
      BY <1>4, <3>2
    <3>4. helper'.pc # "answer" /\ game' = game /\ entry' = entry
      BY <1>1, <1>3
    <3>5. IsOk(queue'[i]) /\ Aware(queue[i])' =>
            \A c \in queue'[i].cards :
              ToldIt(c)' \/ \E j \in 1..(i - 1) : queue'[j].payload = PickOf(c)
      BY <1>10, <2>4, <3>1, <3>3
    <3>6. ~IsWord(queue'[i]) => \E c \in game'.locked : queue'[i].payload = PickOf(c)
      BY <2>4, <3>1, <3>4
    <3>7. queue'[i].eventId \in ToSet(entry'.eventOrder) =>
            \A c \in game'.locked : queue'[i].payload = PickOf(c) => ToldIt(c)'
      BY <1>10, <2>4, <3>1, <3>4
    <3>8. QED BY <3>4, <3>5, <3>6, <3>7, Zenon
  <2>8. QED BY <2>5, <2>6, <2>7 DEF Spoken
<1>13. Truthful'
  BY <1>1, <1>2, <1>3, <1>9, <1>10, <1>12 DEF Truthful
<1>14. QED BY <1>7, <1>8, <1>11, <1>13 DEF VisualInv

LEMMA CrashKeeps ==
  ASSUME VisualInv, EngineCrashes
  PROVE  VisualInv'
<1>1. /\ entry' = NoEntry /\ game' = game /\ helper' = helper /\ queue' = queue /\ answer' = answer
      /\ vouched' = NoVouch /\ restarts' = restarts + 1 /\ restarts < MaxRestarts
  BY DEF EngineCrashes, EngineRestarts, helperVars
<1>2. EngineOK /\ DraftsOK /\ Shape /\ Ordered /\ game \in Games
  BY DEF VisualInv, Shape
<1>3. EngineOK' /\ DraftsOK'
  BY <1>2, CrashStep
<1>4. restarts \in Nat /\ Epoch(entry) \in Nat /\ MaxRestarts \in Nat
  BY Numbers, VisualBoundsAssumption
<1>5. Shape'
  BY <1>1, <1>2, <1>4 DEF Shape, NoVouch
<1>6. /\ helper.life \in Nat /\ helper.lifecycle.life \in Nat /\ answer.life \in Nat
      /\ \A i \in DOMAIN queue : queue[i].life \in Nat
  <2>1. answer \in Answers /\ \A i \in DOMAIN queue : queue[i] \in Sent
    BY <1>2 DEF Shape, QueueOK
  <2>2. QED BY <2>1, Numbers, SentParts DEF Answers
<1>7. Ordered'
  <2>1. \A k \in Nat : k < restarts \/ k = restarts => k < restarts'
    BY <1>1, <1>4
  <2>2. Upto(helper)' /\ Upto(helper.lifecycle)' /\ Upto(answer)' /\ Upto(vouched)'
    BY <1>1, <1>2, <1>4, <1>6, <2>1 DEF Ordered, Upto, NoVouch
  <2>3. \A i \in DOMAIN queue : Upto(queue[i])'
    BY <1>1, <1>2, <1>6, <2>1 DEF Ordered, Upto
  <2>4. /\ ~Aware(helper)' /\ ~Aware(helper.lifecycle)' /\ ~Aware(vouched)'
        /\ \A i \in DOMAIN queue' : ~Aware(queue[i])'
    BY <1>1 DEF Aware
  <2>5. QED BY <1>1, <1>2, <2>2, <2>3, <2>4 DEF Ordered
<1>8. Truthful'
  BY <1>1 DEF Truthful, Current
<1>9. QED BY <1>3, <1>5, <1>7, <1>8 DEF VisualInv

(* Two histories with the same picks tell the same.                        *)
LEMMA SamePicks ==
  ASSUME NEW f, SoundFacts(f), NEW g, SoundFacts(g), g.picks = f.picks, NEW d, NEW c, Told(f, d, c)
  PROVE  Told(g, d, c)
<1>1. \A k \in FactPicks(f) : k \in FactPicks(g)
  <2>1. ASSUME NEW k \in FactPicks(f) PROVE k \in FactPicks(g)
    <3>1. PICK i \in DOMAIN f.picks : k = [side |-> f.picks[i].side, heroId |-> f.picks[i].heroId]
      BY PicksHeld
    <3>2. [side |-> g.picks[i].side, heroId |-> g.picks[i].heroId] \in FactPicks(g)
      BY <3>1, PicksHeld
    <3>3. QED BY <3>1, <3>2
  <2>2. QED BY <2>1
<1>2. HasPick(f, c.side, c.heroId) => HasPick(g, c.side, c.heroId)
  BY DEF HasPick
<1>3. QED BY <1>1, <1>2 DEF Told, StaleIn

LEMMA TypesHeld ==
  ASSUME VisualInv
  PROVE  /\ answer.epoch \in Nat /\ answer.life \in Nat
         /\ vouched.epoch \in Nat /\ vouched.life \in Nat /\ vouched.cards \subseteq Cards
         /\ \A i \in DOMAIN queue :
              /\ queue[i] \in Sent /\ queue[i].epoch \in Nat /\ queue[i].life \in Nat
              /\ queue[i].cards \subseteq Cards
         /\ helper.confirmed \subseteq Cards /\ game.locked \subseteq Cards
         /\ entry # NoEntry => SoundFacts(entry.facts)
<1>1. /\ answer \in Answers /\ vouched \in [epoch : Nat, life : Nat, cards : SUBSET Cards]
      /\ \A i \in DOMAIN queue : queue[i] \in Sent
      /\ helper \in Helpers /\ game \in Games
  BY DEF VisualInv, Shape, QueueOK, HelperOK
<1>2. entry # NoEntry => SoundFacts(entry.facts)
  BY DEF VisualInv, EngineOK, IInv, Good, GoodEntry, State
<1>3. QED BY <1>1, <1>2, SentParts DEF Answers, Helpers, Games

(* What holds of the words and the cards goes on to hold while the engine  *)
(* stays in its draft, keeps what it was told, and hears only of the head. *)
LEMMA SpokenStays ==
  ASSUME VisualInv, Spoken, queue' = queue, game' = game, helper'.confirmed = helper.confirmed,
         Epoch(entry') = Epoch(entry), restarts' = restarts,
         \A c \in Cards : ToldIt(c) => ToldIt(c)',
         \A i \in DOMAIN queue :
           queue[i].eventId \in ToSet(entry'.eventOrder) \/ (i = 1 /\ helper'.pc = "answer") =>
             \/ queue[i].eventId \in ToSet(entry.eventOrder) \/ (i = 1 /\ helper.pc = "answer")
             \/ \A c \in game.locked : queue[i].payload = PickOf(c) => ToldIt(c)'
  PROVE  Spoken'
<1>1. /\ helper.confirmed \subseteq Cards /\ game.locked \subseteq Cards
      /\ \A i \in DOMAIN queue : queue[i].cards \subseteq Cards
  BY TypesHeld
<1>2. \A i \in DOMAIN queue : Aware(queue[i])' => Aware(queue[i])
  BY DEF Aware, Epoch
<1>3. helper'.confirmed \subseteq game'.locked
  BY DEF Spoken
<1>4. ASSUME NEW c \in helper.confirmed
      PROVE  ToldIt(c)' \/ \E i \in DOMAIN queue : queue[i].payload = PickOf(c)
  <2>1. ToldIt(c) \/ \E i \in DOMAIN queue : queue[i].payload = PickOf(c)
    BY DEF Spoken
  <2>2. ToldIt(c) => ToldIt(c)'
    BY <1>1
  <2>3. QED BY <2>1, <2>2
<1>5. ASSUME NEW i \in DOMAIN queue
      PROVE  /\ ~IsWord(queue[i]) => \E c \in game.locked : queue[i].payload = PickOf(c)
             /\ IsOk(queue[i]) /\ Aware(queue[i])' =>
                  \A c \in queue[i].cards : ToldIt(c)' \/ \E j \in 1..(i - 1) : queue[j].payload = PickOf(c)
             /\ queue[i].eventId \in ToSet(entry'.eventOrder) \/ (i = 1 /\ helper'.pc = "answer") =>
                  \A c \in game.locked : queue[i].payload = PickOf(c) => ToldIt(c)'
  <2>1. ~IsWord(queue[i]) => \E c \in game.locked : queue[i].payload = PickOf(c)
    BY DEF Spoken
  <2>2. ASSUME IsOk(queue[i]), Aware(queue[i])', NEW c \in queue[i].cards
        PROVE  ToldIt(c)' \/ \E j \in 1..(i - 1) : queue[j].payload = PickOf(c)
    <3>1. ToldIt(c) \/ \E j \in 1..(i - 1) : queue[j].payload = PickOf(c)
      BY <1>2, <2>2 DEF Spoken
    <3>2. c \in Cards
      BY <1>1, <2>2
    <3>3. QED BY <3>1, <3>2
  <2>3. ASSUME queue[i].eventId \in ToSet(entry'.eventOrder) \/ (i = 1 /\ helper'.pc = "answer"),
               NEW c \in game.locked, queue[i].payload = PickOf(c)
        PROVE  ToldIt(c)'
    <3>1. CASE queue[i].eventId \in ToSet(entry.eventOrder) \/ (i = 1 /\ helper.pc = "answer")
      <4>1. ToldIt(c)
        BY <2>3, <3>1 DEF Spoken
      <4>2. QED BY <1>1, <4>1
    <3>2. CASE \A d \in game.locked : queue[i].payload = PickOf(d) => ToldIt(d)'
      BY <2>3, <3>2
    <3>3. QED BY <2>3, <3>1, <3>2
  <2>4. QED BY <2>1, <2>2, <2>3, Zenon
<1>6. QED BY <1>3, <1>4, <1>5 DEF Spoken

LEMMA ReportKeeps ==
  ASSUME VisualInv, GameReports
  PROVE  VisualInv'
<1>1. /\ game' = game /\ helper' = helper /\ queue' = queue /\ answer' = answer
      /\ vouched' = vouched /\ restarts' = restarts
  BY DEF GameReports, helperVars
<1>2. EngineOK /\ DraftsOK /\ Shape /\ Ordered /\ Truthful /\ game \in Games
  BY DEF VisualInv, Shape
<1>3. EngineOK' /\ DraftsOK' /\ (SameDraft \/ NextEpoch)
  BY <1>2, GameReportsStep
<1>4. Shape'
  BY <1>1, <1>2 DEF Shape
<1>5. restarts \in Nat /\ Epoch(entry) \in Nat /\ helper.epoch \in Nat /\ helper.life \in Nat
      /\ helper.lifecycle.epoch \in Nat /\ helper.lifecycle.life \in Nat
      /\ answer.epoch \in Nat /\ answer.life \in Nat /\ vouched.epoch \in Nat /\ vouched.life \in Nat
      /\ \A i \in DOMAIN queue : queue[i].epoch \in Nat /\ queue[i].life \in Nat
  BY Numbers, TypesHeld
<1>6. CASE NextEpoch
  <2>1. entry' # NoEntry /\ entry'.draftEpoch = Epoch(entry) + 1 /\ Epoch(entry') = Epoch(entry) + 1
    BY <1>6 DEF NextEpoch, Epoch
  <2>2. \A l, k \in Nat :
          l < restarts \/ (l = restarts /\ k <= Epoch(entry)) =>
            /\ ~(l = restarts /\ k = entry'.draftEpoch)
            /\ l < restarts \/ (l = restarts /\ k <= Epoch(entry'))
    BY <1>5, <2>1
  <2>3. /\ Upto(helper)' /\ Upto(helper.lifecycle)' /\ Upto(answer)' /\ Upto(vouched)'
        /\ ~Aware(helper)' /\ ~Aware(helper.lifecycle)' /\ ~Aware(answer)' /\ ~Aware(vouched)'
    <3>1. Upto(helper) /\ Upto(helper.lifecycle) /\ Upto(answer) /\ Upto(vouched)
      BY <1>2 DEF Ordered
    <3>2. QED BY <1>1, <1>5, <2>2, <3>1 DEF Upto, Aware
  <2>4. \A i \in DOMAIN queue : Upto(queue[i])' /\ ~Aware(queue[i])'
    <3>1. \A i \in DOMAIN queue : Upto(queue[i])
      BY <1>2 DEF Ordered
    <3>2. QED BY <1>1, <1>5, <2>2, <3>1 DEF Upto, Aware
  <2>5. Ordered'
    BY <1>1, <1>2, <2>3, <2>4 DEF Ordered
  <2>6. Truthful'
    BY <2>3 DEF Truthful
  <2>7. QED BY <1>3, <1>4, <2>5, <2>6 DEF VisualInv
<1>7. CASE SameDraft
  <2>1. /\ entry' # NoEntry /\ entry'.draftEpoch = Epoch(entry) /\ Epoch(entry') = Epoch(entry)
        /\ reported' = reported
        /\ entry # NoEntry =>
             /\ entry'.facts.picks = entry.facts.picks /\ entry'.eventOrder = entry.eventOrder
             /\ entry.ended => entry'.ended
    BY <1>7 DEF SameDraft, Epoch
  <2>2. /\ Aware(helper)' = Aware(helper) /\ Aware(helper.lifecycle)' = Aware(helper.lifecycle)
        /\ Aware(answer)' = Aware(answer) /\ Aware(vouched)' = Aware(vouched)
        /\ \A i \in DOMAIN queue : Aware(queue[i])' = Aware(queue[i])
    BY <1>1, <2>1 DEF Aware, Epoch
  <2>3. /\ Upto(helper)' = Upto(helper) /\ Upto(helper.lifecycle)' = Upto(helper.lifecycle)
        /\ Upto(answer)' = Upto(answer) /\ Upto(vouched)' = Upto(vouched)
        /\ \A i \in DOMAIN queue : Upto(queue[i])' = Upto(queue[i])
    BY <1>1, <2>1 DEF Upto
  <2>4. Ordered'
    BY <1>1, <1>2, <2>2, <2>3 DEF Ordered
  <2>5. Truthful'
    <3>1. SUFFICES ASSUME Current' PROVE Truthful'
      BY DEF Truthful
    <3>2. Current
      BY <1>1, <2>1, <3>1 DEF Current, Epoch
    <3>3. \A c : ToldIt(c) => ToldIt(c)'
      <4>1. SoundFacts(entry.facts)
        BY <3>2, TypesHeld DEF Current
      <4>2. SoundFacts(entry'.facts) /\ entry'.facts.picks = entry.facts.picks
        BY <1>3, <2>1, <3>2 DEF EngineOK, IInv, Good, GoodEntry, State, Current
      <4>3. \A c : Told(entry.facts, game.draft, c) => Told(entry'.facts, game.draft, c)
        BY <4>1, <4>2, SamePicks
      <4>4. QED BY <1>1, <4>3 DEF ToldIt
    <3>4. Spoken => Spoken'
      <4>1. entry'.eventOrder = entry.eventOrder
        BY <2>1, <3>2 DEF Current
      <4>2. QED BY <1>1, <2>1, <3>3, <4>1, SpokenStays
    <3>5. QED BY <1>1, <1>2, <2>2, <3>2, <3>3, <3>4 DEF Truthful
  <2>6. QED BY <1>3, <1>4, <2>4, <2>5 DEF VisualInv
<1>8. QED BY <1>3, <1>6, <1>7

----------------------------------------------------------------------------
(* A post reaches the engine                                               *)

(* What the helper confirmed of the draft on screen is told once the       *)
(* engine has had the envelope; what was told before stays told.           *)
LEMMA HeadTells ==
  ASSUME VisualInv, Current, queue # <<>>, PostVisual(Head(queue)),
         UNCHANGED <<game, reported>>, Aware(helper) \/ IsWord(Head(queue))
  PROVE  /\ \A c \in Cards : ToldIt(c) => ToldIt(c)'
         /\ Aware(helper) => \A c \in game.locked : Head(queue).payload = PickOf(c) => ToldIt(c)'
<1> DEFINE e == Head(queue)
           f == entry.facts
           g == entry'.facts
           d == game.draft
<1>1. /\ EngineOK /\ DraftsOK /\ Shape /\ Truthful /\ game \in Games /\ queue \in Seq(Sent)
  BY DEF VisualInv, Shape, QueueOK
<1>2. e = queue[1] /\ 1 \in DOMAIN queue /\ e \in Sent
  BY <1>1
<1>3. entry # NoEntry /\ entry.draftEpoch # 0 /\ ~entry.ended /\ reported = d
  BY DEF Current
<1> HIDE DEF e
<1>4. /\ Takes(Found, e, entry') /\ Plainly(Found) /\ SoundFacts(Found.facts) /\ SoundFacts(g)
      /\ Found = entry
  BY <1>1, <1>2, <1>3, PostStep DEF Found, e
<1>5. f.started /\ f.bans = {} /\ SoundFacts(f)
  BY <1>3, <1>4 DEF Plainly
<1>6. g = IF IsWord(e) \/ e.eventId \in ToSet(entry.eventOrder) THEN f ELSE ApplyLiveObservation(f, e.payload)
  BY <1>3, <1>4, <1>5 DEF Takes, Idle
<1>7. \A c \in game.locked : c \in Cards /\ d \in DOMAIN CardsOf /\ c \in CardsOf[d]
  <2>1. d \in 0..Len(CardsOf) /\ game.locked \subseteq Cards /\ game.locked \subseteq Due(d) /\ Len(CardsOf) \in Nat
    BY <1>1, CardsAssumption DEF Games
  <2>2. DOMAIN CardsOf = 1..Len(CardsOf)
    BY CardsAssumption
  <2>3. QED BY <2>1, <2>2 DEF Due
<1>8. \A c : (ToldIt(c) <=> Told(f, d, c)) /\ (ToldIt(c)' <=> Told(g, d, c))
  BY DEF ToldIt
<1> HIDE DEF f, g, d
<1>9. CASE IsWord(e) \/ e.eventId \in ToSet(entry.eventOrder)
  <2>1. g = f
    BY <1>6, <1>9
  <2>2. \A c \in Cards : ToldIt(c) => ToldIt(c)'
    BY <1>8, <2>1
  <2>3. ASSUME Aware(helper), NEW c \in game.locked, e.payload = PickOf(c) PROVE ToldIt(c)
    <3>1. ~IsWord(e)
      BY <2>3, WordNoPick
    <3>2. e.eventId \in ToSet(entry.eventOrder)
      BY <1>9, <3>1
    <3>3. Spoken
      BY <1>1, <2>3 DEF Truthful
    <3>4. QED BY <1>2, <2>3, <3>2, <3>3 DEF Spoken
  <2>4. QED BY <1>7, <2>2, <2>3 DEF e
<1>10. CASE ~(IsWord(e) \/ e.eventId \in ToSet(entry.eventOrder))
  <2>1. Aware(helper) /\ Spoken
    BY <1>1, <1>10 DEF Truthful, e
  <2>2. PICK c \in game.locked : e.payload = PickOf(c)
    BY <1>2, <1>10, <2>1 DEF Spoken
  <2>3. g = ApplyLiveObservation(f, PickOf(c))
    BY <1>6, <1>10, <2>2
  <2>4. Keeps(f, g) /\ Told(g, d, c)
    BY <1>5, <1>7, <2>3, PickHolds, PickTells
  <2>5. \A x \in Cards : Told(f, d, x) => Told(g, d, x)
    BY <1>4, <1>5, <2>4, ToldStays DEF g
  <2>6. ASSUME NEW x \in game.locked, e.payload = PickOf(x) PROVE Told(g, d, x)
    <3>1. x.side = c.side /\ x.heroId = c.heroId
      <4>1. PickOf(c).side = c.side /\ PickOf(c).heroId = c.heroId
            /\ PickOf(x).side = x.side /\ PickOf(x).heroId = x.heroId
        BY DEF PickOf, Pick
      <4>2. QED BY <2>2, <2>6, <4>1
    <3>2. QED BY <2>4, <3>1 DEF Told
  <2>7. QED BY <1>8, <2>5, <2>6 DEF e
<1>11. QED BY <1>9, <1>10

LEMMA PostKeeps ==
  ASSUME VisualInv, PostReaches
  PROVE  VisualInv'
<1> DEFINE e == Head(queue)
<1>1. /\ helper.pc = "flush" /\ queue # <<>> /\ PostVisual(e)
      /\ answer' = [phase |-> DraftPhase(entry'), epoch |-> entry'.draftEpoch, life |-> restarts]
      /\ helper' = [helper EXCEPT !.pc = "answer"]
      /\ vouched' = IF IsOk(e) THEN Vouch(e) ELSE vouched
      /\ game' = game /\ queue' = queue /\ restarts' = restarts /\ reported' = reported
  BY DEF PostReaches
<1>2. /\ EngineOK /\ DraftsOK /\ Shape /\ Ordered /\ Truthful /\ game \in Games
      /\ HelperOK(helper) /\ QueueOK(queue) /\ queue \in Seq(Sent)
  BY DEF VisualInv, Shape, QueueOK
<1>3. e = queue[1] /\ 1 \in DOMAIN queue /\ e \in Sent
  BY <1>1, <1>2
<1> HIDE DEF e
<1>4. /\ EngineOK' /\ DraftsOK' /\ entry' # NoEntry
      /\ Takes(Found, e, entry') /\ entry'.draftEpoch = Epoch(entry)
      /\ Plainly(Found) /\ SoundFacts(entry'.facts)
  BY <1>1, <1>2, <1>3, PostStep
<1>5. Epoch(entry') = Epoch(entry) /\ Epoch(entry) \in Nat /\ restarts \in Nat
      /\ e.epoch \in Nat /\ e.life \in Nat /\ e.cards \subseteq Cards
  BY <1>3, <1>4, Numbers, TypesHeld DEF Epoch
<1>6. /\ HelperOK(helper)' /\ helper'.pc = "answer" /\ helper'.lifecycle = helper.lifecycle
      /\ helper'.epoch = helper.epoch /\ helper'.life = helper.life /\ helper'.open = helper.open
      /\ helper'.confirmed = helper.confirmed
  BY <1>1, <1>2 DEF HelperOK, Helpers
<1>7. /\ answer' \in Answers /\ answer'.phase = DraftPhase(entry') /\ answer'.epoch = entry'.draftEpoch
      /\ answer'.life = restarts /\ answer' # NoAnswer
  <2>1. DraftPhase(entry') \in {"waiting", "hero_selection", "ended"}
    BY DEF DraftPhase
  <2>2. QED BY <1>1, <1>4, <1>5, <2>1 DEF Answers, NoAnswer
<1>8. /\ vouched' \in [epoch : Nat, life : Nat, cards : SUBSET Cards]
      /\ IsOk(e) => vouched'.epoch = e.epoch /\ vouched'.life = e.life /\ vouched'.cards = e.cards
      /\ ~IsOk(e) => vouched' = vouched
  BY <1>1, <1>2, <1>5 DEF Vouch, Shape
<1>9. Shape'
  BY <1>1, <1>2, <1>6, <1>7, <1>8 DEF Shape
<1>10. /\ Aware(helper)' = Aware(helper) /\ Aware(helper.lifecycle)' = Aware(helper.lifecycle)
       /\ \A i \in DOMAIN queue : Aware(queue[i])' = Aware(queue[i])
       /\ IsOk(e) => Aware(vouched)' = Aware(e)
       /\ ~IsOk(e) => Aware(vouched)' = Aware(vouched)
       /\ Aware(helper.lifecycle) => Aware(answer)'
  BY <1>1, <1>4, <1>6, <1>7, <1>8 DEF Aware, Epoch
<1>11. /\ Upto(helper)' = Upto(helper) /\ Upto(helper.lifecycle)' = Upto(helper.lifecycle)
       /\ \A i \in DOMAIN queue : Upto(queue[i])' = Upto(queue[i])
       /\ IsOk(e) => Upto(vouched)' = Upto(e)
       /\ ~IsOk(e) => Upto(vouched)' = Upto(vouched)
       /\ Upto(answer)'
  BY <1>1, <1>4, <1>5, <1>6, <1>7, <1>8 DEF Upto
<1>12. Upto(e) /\ (Aware(e) => Aware(helper))
  BY <1>2, <1>3 DEF Ordered
<1>13. Ordered'
  <2>1. \A i \in DOMAIN queue' :
          /\ Upto(queue[i])' /\ (Aware(queue[i])' => Aware(helper)')
          /\ ~IsWord(queue'[i]) => queue'[i].epoch = helper'.epoch /\ queue'[i].life = helper'.life
    BY <1>1, <1>2, <1>6, <1>10, <1>11 DEF Ordered
  <2>2. Upto(helper)' /\ Upto(helper.lifecycle)' /\ Upto(answer)' /\ Upto(vouched)'
    BY <1>2, <1>11, <1>12 DEF Ordered
  <2>3. (Aware(helper)' => Aware(helper.lifecycle)') /\ (Aware(helper.lifecycle)' => Aware(answer)')
        /\ (Aware(vouched)' => Aware(helper)')
    BY <1>2, <1>10, <1>12 DEF Ordered
  <2>4. QED BY <2>1, <2>2, <2>3 DEF Ordered
<1>14. Truthful'
  <2>1. SUFFICES ASSUME Current' PROVE Truthful'
    BY DEF Truthful
  <2>2. Current /\ Found = entry
    <3>1. entry # NoEntry /\ entry.draftEpoch # 0 /\ Found = entry
      BY <1>4, <2>1 DEF Current, Epoch, Found
    <3>2. entry'.ended = entry.ended
      BY <1>4, <3>1 DEF Takes
    <3>3. QED BY <1>1, <2>1, <3>1, <3>2 DEF Current
  <2>3. Aware(helper.lifecycle)' => helper'.lifecycle.phase = "hero_selection"
    BY <1>2, <1>6, <1>10, <2>2 DEF Truthful
  <2>4. answer'.phase = "hero_selection"
    <3>1. entry'.facts.started
      BY <1>4, <2>1, <2>2 DEF Takes, Plainly, Current
    <3>2. QED BY <1>7, <2>1, <3>1 DEF Current, DraftPhase
  <2>5. ASSUME Aware(helper) PROVE helper'.open /\ Spoken'
    <3>1. helper.open /\ Spoken
      BY <1>2, <2>2, <2>5 DEF Truthful
    <3>2. /\ \A c \in Cards : ToldIt(c) => ToldIt(c)'
          /\ \A c \in game.locked : e.payload = PickOf(c) => ToldIt(c)'
      BY <1>1, <2>2, <2>5, HeadTells DEF e
    <3>3. ASSUME NEW i \in DOMAIN queue,
                 queue[i].eventId \in ToSet(entry'.eventOrder) \/ (i = 1 /\ helper'.pc = "answer")
          PROVE  \/ queue[i].eventId \in ToSet(entry.eventOrder)
                 \/ \A c \in game.locked : queue[i].payload = PickOf(c) => ToldIt(c)'
      <4>1. i = 1 \/ queue[i].eventId \in ToSet(entry.eventOrder)
        <5>1. ToSet(entry'.eventOrder) \subseteq ToSet(entry.eventOrder) \cup {e.eventId}
          BY <1>4, <2>2 DEF Takes
        <5>2. queue[i].eventId = e.eventId => i = 1
          BY <1>2, <1>3 DEF QueueOK
        <5>3. QED BY <3>3, <5>1, <5>2
      <4>2. QED BY <1>3, <3>2, <4>1
    <3>4. Spoken'
      BY <1>1, <1>5, <1>6, <3>1, <3>2, <3>3, SpokenStays
    <3>5. QED BY <1>6, <3>1, <3>4
  <2>6. ASSUME Aware(vouched)' PROVE \A c \in vouched'.cards : ToldIt(c)'
    <3>1. Aware(helper)
      BY <1>2, <1>10, <1>12, <2>6 DEF Ordered
    <3>2. \A c \in Cards : ToldIt(c) => ToldIt(c)'
      BY <1>1, <2>2, <3>1, HeadTells DEF e
    <3>3. CASE IsOk(e)
      <4>1. Spoken /\ Aware(e)
        BY <1>2, <1>10, <2>2, <2>6, <3>1, <3>3 DEF Truthful
      <4>2. \A c \in e.cards : ToldIt(c) \/ \E j \in 1..(1 - 1) : queue[j].payload = PickOf(c)
        BY <1>3, <3>3, <4>1 DEF Spoken
      <4>3. 1..(1 - 1) = {}
        OBVIOUS
      <4>4. QED BY <1>5, <1>8, <3>2, <3>3, <4>2, <4>3
    <3>4. CASE ~IsOk(e)
      <4>1. \A c \in vouched.cards : ToldIt(c) /\ c \in Cards
        BY <1>2, <1>10, <2>2, <2>6, <3>4, TypesHeld DEF Truthful
      <4>2. QED BY <1>8, <3>2, <3>4, <4>1
    <3>5. QED BY <3>3, <3>4
  <2>7. QED BY <1>10, <2>3, <2>4, <2>5, <2>6 DEF Truthful
<1>15. QED BY <1>4, <1>9, <1>13, <1>14 DEF VisualInv

----------------------------------------------------------------------------
(* The theorems                                                            *)

LEMMA VisualInvInit ==
  ASSUME VisualInit
  PROVE  VisualInv
<1>1. /\ session = NoSession /\ entry = NoEntry /\ linked = TRUE
      /\ game = [draft |-> 0, phase |-> "idle", locked |-> {}]
      /\ helper = [ open |-> FALSE, epoch |-> 0, life |-> 0, armed |-> FALSE, baseline |-> {},
                    confirmed |-> {}, word |-> Silent, lifecycle |-> NoAnswer, pc |-> "frame" ]
      /\ queue = <<>> /\ answer = NoAnswer
      /\ vouched = NoVouch /\ restarts = 0 /\ reported = 0
  BY DEF VisualInit, Init
<1>2. EngineOK
  <2>1. State = [session |-> NoSession, entry |-> NoEntry]
    BY <1>1 DEF State
  <2>2. Good(State)
    BY <2>1 DEF Good
  <2>3. QED BY <1>1, <2>2 DEF EngineOK, IInv
<1>3. game \in Games /\ DraftsOK
  BY <1>1, CardsAssumption DEF Games, Due, DraftsOK
<1>4. HelperOK(helper) /\ answer \in Answers /\ helper.pc = "frame"
  <2>1. NoAnswer \in Answers
    BY DEF NoAnswer, Answers
  <2>2. helper \in Helpers /\ ~helper.armed /\ helper.baseline = {} /\ helper.confirmed = {}
        /\ helper.pc = "frame"
    BY <1>1, <2>1 DEF Helpers
  <2>3. QED BY <1>1, <2>1, <2>2 DEF HelperOK
<1>5. QueueOK(queue) /\ DOMAIN queue = {}
  BY <1>1, VisualBoundsAssumption DEF QueueOK
<1>6. Shape
  BY <1>1, <1>3, <1>4, <1>5, VisualBoundsAssumption DEF Shape, NoVouch
<1>7. Ordered
  BY <1>1, <1>5 DEF Ordered, Upto, Aware, Epoch, NoAnswer, NoVouch
<1>8. Truthful
  BY <1>1 DEF Truthful, Current
<1>9. QED BY <1>2, <1>3, <1>6, <1>7, <1>8 DEF VisualInv

LEMMA VisualInvStep ==
  ASSUME VisualInv, [VisualNext]_vars
  PROVE  VisualInv'
<1>1. CASE NextDraft \/ (\E card \in Cards : Lock(card)) \/ DraftEnds
  BY <1>1, GameMoves
<1>2. CASE GameReports
  BY <1>2, ReportKeeps
<1>3. CASE EngineCrashes
  BY <1>3, CrashKeeps
<1>4. CASE Probe \/ Arm \/ (\E card \in Cards : Read(card)) \/ Look \/ CaptureLost \/ GeometryChanged
  BY <1>4, FrameStep
<1>5. CASE Retry
  BY <1>5, RetryStep
<1>6. CASE NothingToPost \/ PostLost \/ AnswerLost
  BY <1>6, LifecycleStep DEF NothingToPost, PostLost, AnswerLost
<1>7. CASE PostReaches
  BY <1>7, PostKeeps
<1>8. CASE AnswerArrives
  BY <1>8, AnswerStep
<1>9. CASE UNCHANGED vars
  <2>1. /\ session' = session /\ entry' = entry /\ linked' = linked /\ game' = game
        /\ helper' = helper /\ queue' = queue /\ answer' = answer
        /\ vouched' = vouched /\ restarts' = restarts /\ reported' = reported
    BY <1>9 DEF vars, helperVars, toldVars
  <2>2. EngineOK /\ DraftsOK /\ Shape /\ Ordered /\ Truthful
    BY DEF VisualInv
  <2>3. EngineOK' /\ DraftsOK' /\ Shape'
    BY <2>1, <2>2, EngineIdle DEF DraftsOK, Shape
  <2>4. Ordered'
    BY <2>1, <2>2 DEF Ordered, Upto, Aware, Epoch
  <2>5. Truthful'
    BY <2>1, <2>2 DEF Truthful, Current, Aware, Spoken, ToldIt
  <2>6. QED BY <2>2, <2>3, <2>4, <2>5 DEF VisualInv
<1>10. QED BY <1>1, <1>2, <1>3, <1>4, <1>5, <1>6, <1>7, <1>8, <1>9 DEF VisualNext

(* Who knows of which draft of the engine, and where each card the helper  *)
(* has read is between the screen and the facts.                           *)
THEOREM VisualInvariant == VisualSpec => []VisualInv
<1>1. VisualInit => VisualInv
  BY VisualInvInit
<1>2. VisualInv /\ [VisualNext]_vars => VisualInv'
  BY VisualInvStep
<1>3. QED BY <1>1, <1>2, PTL DEF VisualSpec

(* The engine, the game, the helper and the network have their types: the  *)
(* helper is armed only while it is open, reads only under a baseline and  *)
(* never a card of it, and no event id is queued twice.                    *)
THEOREM VisualTypes == VisualSpec => []VisualTypeOK
<1>1. ASSUME VisualInv PROVE VisualTypeOK
  <2>1. EngineOK /\ Shape
    BY <1>1 DEF VisualInv
  <2>2. TypeOK
    BY <2>1, IInvTypes DEF EngineOK
  <2>3. /\ game.draft \in 0..Len(CardsOf) /\ game.phase \in {"idle", "draft", "match"}
        /\ game.locked \subseteq Cards
    BY <2>1 DEF Shape, Games
  <2>4. /\ helper.baseline \cap helper.confirmed = {}
        /\ helper.armed => helper.open
        /\ helper.baseline \cup helper.confirmed # {} => helper.armed
        /\ helper.pc \in {"frame", "flush", "answer"}
        /\ helper.pc = "answer" <=> answer # NoAnswer
        /\ helper.pc = "answer" => queue # <<>>
    BY <2>1 DEF Shape, HelperOK, Helpers
  <2>5. Len(queue) <= MaxQueue /\ restarts \in 0..MaxRestarts
    BY <2>1 DEF Shape, QueueOK
  <2>6. IsInjective([i \in DOMAIN queue |-> queue[i].eventId])
    BY <2>1 DEF Shape, QueueOK, IsInjective
  <2>7. QED BY <2>2, <2>3, <2>4, <2>5, <2>6 DEF VisualTypeOK
<1>2. QED BY <1>1, VisualInvariant, PTL

(* The helper's word never comes before the facts it counts on: while the  *)
(* engine is in the draft on screen, every card that was shown when the    *)
(* last "ok" of this draft was said, and that no fact of another draft     *)
(* keeps out, is a fact.                                                   *)
THEOREM WordFollowsFacts == VisualSpec => []OkNeverOvertakes
<1>1. ASSUME VisualInv PROVE OkNeverOvertakes
  <2>1. SUFFICES ASSUME Vouched, vouched.life = restarts, reported = game.draft, ~StaleFactTaken,
                        NEW card \in VouchedAndShown
                 PROVE  Known(card)
    BY DEF OkNeverOvertakes
  <2>2. EngineOK /\ Truthful
    BY <1>1 DEF VisualInv
  <2>3. /\ entry # NoEntry /\ DraftPhase(entry) = "hero_selection" /\ vouched.epoch = entry.draftEpoch
    BY <2>1 DEF Vouched, Available
  <2>4. entry.facts.started /\ ~entry.ended
    BY <2>3 DEF DraftPhase
  <2>5. entry.draftEpoch # 0
    BY <2>2, <2>3, <2>4 DEF EngineOK, Plainly
  <2>6. Current /\ Aware(vouched)
    BY <2>1, <2>3, <2>4, <2>5 DEF Current, Aware
  <2>7. ToldIt(card)
    BY <2>1, <2>2, <2>6 DEF Truthful, VouchedAndShown
  <2>8. ~StaleIn(entry.facts, game.draft)
    BY <2>1 DEF StaleFactTaken, StaleIn
  <2>9. QED BY <2>7, <2>8 DEF ToldIt, Told, Known
<1>2. QED BY <1>1, VisualInvariant, PTL

(* A card becomes a fact by a post only of a helper that does not know a   *)
(* later draft than the one it was read in, whatever was lost, retried or  *)
(* forgotten by a restart in between.                                      *)
THEOREM StaleFactsAreUnaware == VisualSpec => StaleFactOnlyUnaware
<1> DEFINE A == \A card \in Cards :
             PostReaches /\ ~(entry # NoEntry /\ Known(card)) /\ Known(card)' =>
               LET e == Head(queue) IN
               \/ e.epoch = entry'.draftEpoch /\ e.life = restarts
               \/ e.epoch = helper.epoch /\ e.life = helper.life
<1>1. ASSUME VisualInv, [VisualNext]_vars PROVE [A]_vars
  <2>1. SUFFICES ASSUME NEW card \in Cards, PostReaches, ~(entry # NoEntry /\ Known(card)), Known(card)'
                 PROVE  Head(queue).epoch = helper.epoch /\ Head(queue).life = helper.life
    OBVIOUS
  <2> DEFINE e == Head(queue)
  <2>2. EngineOK /\ DraftsOK /\ Ordered /\ game \in Games /\ queue \in Seq(Sent)
    BY <1>1 DEF VisualInv, Shape, QueueOK
  <2>3. queue # <<>> /\ PostVisual(e) /\ game' = game /\ reported' = reported
    BY <2>1 DEF PostReaches
  <2>4. e = queue[1] /\ 1 \in DOMAIN queue /\ e \in Sent
    BY <2>2, <2>3
  <2> HIDE DEF e
  <2>5. Takes(Found, e, entry')
    BY <2>2, <2>3, <2>4, PostStep
  <2>6. ~IsWord(e)
    <3>1. ASSUME IsWord(e) PROVE FALSE
      <4>1. HasPick(Found.facts, card.side, card.heroId)
        BY <2>1, <2>5, <3>1 DEF Takes, Idle, Known
      <4>2. entry # NoEntry
        BY <4>1 DEF Found, FreshEntry, EmptyLiveFacts, HasPick
      <4>3. QED BY <2>1, <4>1, <4>2 DEF Found, Known
    <3>2. QED BY <3>1
  <2>7. QED BY <2>2, <2>4, <2>6 DEF Ordered, e
<1>2. QED BY <1>1, VisualInvariant, PTL DEF VisualSpec, StaleFactOnlyUnaware
=============================================================================
