------------------------- MODULE LegacyDraftProofs -------------------------
(***************************************************************************)
(* Proofs about LegacyDraft, for every set of tabs, heroes, intents,       *)
(* corrections and scripted events and every bound: the draft stays sound, *)
(* a connected tab ends up with the board of the store, suggestions are    *)
(* never ahead of the board, and no event of a tab is a blind write.       *)
(***************************************************************************)
EXTENDS LegacyDraft, FiniteSetTheorems, TLAPS

----------------------------------------------------------------------------
(* applyDraftEvent, for every set of heroes and every roster: it returns a *)
(* draft, keeps a draft sound, and numbers what it accepts.                *)

LEMMA PayloadFields ==
  ASSUME NEW p \in Payloads
  PROVE  /\ p.type \in {"session_started", "local_side_identified", "hero_banned", "hero_picked",
                        "pick_reverted", "session_ended", "capture_health"}
         /\ p.type = "local_side_identified" => p.side \in Sides
         /\ p.type = "hero_banned" => p.hero \in Heroes
         /\ p.type \in {"hero_picked", "pick_reverted"} => p.side \in Sides /\ p.hero \in Heroes
         /\ p.type = "session_ended" => p.reason \in {"complete", "aborted"}
         /\ p.type = "capture_health" => p.status \in {"ok", "degraded", "lost"}
BY DEF Payloads

LEMMA DraftFields ==
  ASSUME NEW d \in Drafts
  PROVE  /\ d.banned \subseteq Heroes /\ d.unconfirmed \subseteq Heroes
         /\ d.picks \in [Sides -> SUBSET Heroes]
         /\ d.picks["radiant"] \subseteq Heroes /\ d.picks["dire"] \subseteq Heroes
         /\ d.lastSeq \in Nat /\ d.applied \subseteq Nat
BY DEF Drafts, Sides

LEMMA MarkedDraft ==
  ASSUME NEW c \in Drafts, NEW e, e.payload.hero \in Heroes, NEW f, f = MarkUnconfirmed(c, e)
  PROVE  /\ f \in Drafts /\ f.phase = c.phase /\ f.banned = c.banned /\ f.picks = c.picks
         /\ f.lastSeq = c.lastSeq /\ f.applied = c.applied
         /\ f.unconfirmed \subseteq c.unconfirmed \cup {e.payload.hero}
<1>1. CASE e.sure
  BY <1>1 DEF MarkUnconfirmed
<1>2. CASE ~e.sure
  BY <1>2 DEF MarkUnconfirmed, Drafts
<1> QED
  BY <1>1, <1>2

(* What each event makes of the draft, before it is numbered.              *)
LEMMA Effects ==
  ASSUME NEW d \in Drafts, NEW e \in Events
  PROVE
    /\ Effect(d, e) \in Drafts /\ Effect(d, e).lastSeq = d.lastSeq /\ Effect(d, e).applied = d.applied
    /\ e.payload.type = "session_started" => Effect(d, e) = [d EXCEPT !.phase = "active"]
    /\ e.payload.type \in {"local_side_identified", "session_ended", "capture_health"} =>
         Effect(d, e).banned = d.banned /\ Effect(d, e).picks = d.picks /\ Effect(d, e).unconfirmed = d.unconfirmed
    /\ e.payload.type \notin {"session_started", "session_ended"} => Effect(d, e).phase = d.phase
    /\ e.payload.type = "session_ended" => Effect(d, e).phase \in {"complete", "aborted"}
    /\ e.payload.type = "hero_banned" =>
         /\ Effect(d, e).banned = d.banned \cup {e.payload.hero} /\ Effect(d, e).picks = d.picks
         /\ Effect(d, e).unconfirmed \subseteq d.unconfirmed \cup {e.payload.hero}
    /\ e.payload.type = "hero_picked" =>
         /\ Effect(d, e).banned = d.banned /\ Effect(d, e).picks = [d.picks EXCEPT ![e.payload.side] = @ \cup {e.payload.hero}]
         /\ Effect(d, e).unconfirmed \subseteq d.unconfirmed \cup {e.payload.hero}
    /\ e.payload.type = "pick_reverted" => Effect(d, e) = RevertHero(d, e.payload.side, e.payload.hero)
<1>a. PICK p : p = e.payload
  OBVIOUS
<1>b. PICK f : f = Effect(d, e)
  OBVIOUS
<1> SUFFICES
      /\ f \in Drafts /\ f.lastSeq = d.lastSeq /\ f.applied = d.applied
      /\ p.type = "session_started" => f = [d EXCEPT !.phase = "active"]
      /\ p.type \in {"local_side_identified", "session_ended", "capture_health"} =>
           f.banned = d.banned /\ f.picks = d.picks /\ f.unconfirmed = d.unconfirmed
      /\ p.type \notin {"session_started", "session_ended"} => f.phase = d.phase
      /\ p.type = "session_ended" => f.phase \in {"complete", "aborted"}
      /\ p.type = "hero_banned" =>
           /\ f.banned = d.banned \cup {p.hero} /\ f.picks = d.picks
           /\ f.unconfirmed \subseteq d.unconfirmed \cup {p.hero}
      /\ p.type = "hero_picked" =>
           /\ f.banned = d.banned /\ f.picks = [d.picks EXCEPT ![p.side] = @ \cup {p.hero}]
           /\ f.unconfirmed \subseteq d.unconfirmed \cup {p.hero}
      /\ p.type = "pick_reverted" => f = RevertHero(d, p.side, p.hero)
  BY <1>a, <1>b
<1>0. p \in Payloads /\ e.sure \in BOOLEAN
  BY <1>a DEF Events
<1>p. /\ p.type \in {"session_started", "local_side_identified", "hero_banned", "hero_picked",
                     "pick_reverted", "session_ended", "capture_health"}
      /\ p.type = "local_side_identified" => p.side \in Sides
      /\ p.type = "hero_banned" => p.hero \in Heroes
      /\ p.type \in {"hero_picked", "pick_reverted"} => p.side \in Sides /\ p.hero \in Heroes
      /\ p.type = "session_ended" => p.reason \in {"complete", "aborted"}
      /\ p.type = "capture_health" => p.status \in {"ok", "degraded", "lost"}
  BY <1>0, PayloadFields
<1>1. CASE p.type = "session_started"
  <2>1. f = [d EXCEPT !.phase = "active"]
    BY <1>a, <1>b, <1>1 DEF Effect
  <2> QED
    BY <1>1, <2>1 DEF Drafts
<1>2. CASE p.type = "local_side_identified"
  <2>1. f = [d EXCEPT !.localSide = p.side]
    BY <1>a, <1>b, <1>2 DEF Effect
  <2> QED
    BY <1>2, <1>p, <2>1 DEF Drafts
<1>3. CASE p.type = "hero_banned"
  <2>1. f = MarkUnconfirmed([d EXCEPT !.banned = @ \cup {p.hero}], e)
    BY <1>a, <1>b, <1>3 DEF Effect
  <2>2. [d EXCEPT !.banned = @ \cup {p.hero}] \in Drafts
    BY <1>3, <1>p DEF Drafts
  <2>3. /\ f \in Drafts /\ f.lastSeq = d.lastSeq /\ f.applied = d.applied /\ f.phase = d.phase
        /\ f.banned = d.banned \cup {p.hero} /\ f.picks = d.picks
        /\ f.unconfirmed \subseteq d.unconfirmed \cup {p.hero}
    BY <1>3, <1>p, <2>1, <2>2, <1>a, MarkedDraft DEF Drafts
  <2> QED
    BY <1>3, <2>3
<1>4. CASE p.type = "hero_picked"
  <2>1. f = MarkUnconfirmed([d EXCEPT !.picks[p.side] = @ \cup {p.hero}], e)
    BY <1>a, <1>b, <1>4 DEF Effect
  <2>2. PICK q \in [Sides -> SUBSET Heroes] : q = [d.picks EXCEPT ![p.side] = @ \cup {p.hero}]
    BY <1>4, <1>p, DraftFields
  <2>3. PICK c : c = [d EXCEPT !.picks = q]
    OBVIOUS
  <2>5. c \in Drafts /\ c.phase = d.phase /\ c.banned = d.banned /\ c.picks = q
          /\ c.lastSeq = d.lastSeq /\ c.applied = d.applied /\ c.unconfirmed = d.unconfirmed
    BY <2>3 DEF Drafts
  <2>6. f = MarkUnconfirmed(c, e)
    BY <2>1, <2>2, <2>3
  <2>4. /\ f \in Drafts /\ f.lastSeq = d.lastSeq /\ f.applied = d.applied /\ f.phase = d.phase
        /\ f.banned = d.banned /\ f.picks = [d.picks EXCEPT ![p.side] = @ \cup {p.hero}]
        /\ f.unconfirmed \subseteq d.unconfirmed \cup {p.hero}
    BY <1>4, <1>p, <2>2, <2>5, <2>6, <1>a, MarkedDraft
  <2> QED
    BY <1>4, <2>4
<1>5. CASE p.type = "pick_reverted"
  <2>1. f = RevertHero(d, p.side, p.hero)
    BY <1>a, <1>b, <1>5 DEF Effect
  <2>2. PICK q \in [Sides -> SUBSET Heroes] :
          q = IF p.hero \in d.banned THEN d.picks ELSE [d.picks EXCEPT ![p.side] = @ \ {p.hero}]
    BY <1>5, <1>p, DraftFields
  <2>3. PICK b \in SUBSET Heroes, u \in SUBSET Heroes :
          b = d.banned \ {p.hero} /\ u = d.unconfirmed \ {p.hero}
    BY DraftFields
  <2>5. f = [d EXCEPT !.banned = b, !.picks = q, !.unconfirmed = u]
    BY <2>1, <2>2, <2>3 DEF RevertHero
  <2>4. /\ f \in Drafts /\ f.lastSeq = d.lastSeq /\ f.applied = d.applied /\ f.phase = d.phase
    BY <2>5 DEF Drafts
  <2> QED
    BY <1>5, <2>1, <2>4
<1>6. CASE p.type = "session_ended"
  <2>1. f = [d EXCEPT !.phase = p.reason]
    BY <1>a, <1>b, <1>6 DEF Effect
  <2> QED
    BY <1>6, <1>p, <2>1 DEF Drafts
<1>7. CASE p.type = "capture_health"
  <2>1. f = [d EXCEPT !.captureStatus = p.status]
    BY <1>a, <1>b, <1>7 DEF Effect
  <2> QED
    BY <1>7, <1>p, <2>1 DEF Drafts
<1> QED
  BY <1>a, <1>b, <1>p, <1>1, <1>2, <1>3, <1>4, <1>5, <1>6, <1>7

(* The reducer returns a draft.                                            *)
LEMMA ReducerType ==
  ASSUME NEW d \in Drafts, NEW e \in Events
  PROVE  ApplyDraftEvent(d, e) \in Drafts
<1> DEFINE f == Effect(d, e)
<1>1. f \in Drafts /\ e.seq \in Nat /\ e.eventId \in Nat
  BY Effects DEF Events
<1> HIDE DEF f
<1>2. f.lastSeq \in Nat /\ f.applied \subseteq Nat
  BY <1>1, DraftFields
<1>3. PICK n \in Nat : n = IF e.seq > f.lastSeq THEN e.seq ELSE f.lastSeq
  BY <1>1, <1>2
<1>4. PICK a \in SUBSET Nat : a = f.applied \cup {e.eventId}
  BY <1>1, <1>2
<1>5. Accept(d, e) = [f EXCEPT !.lastSeq = n, !.applied = a]
  BY <1>3, <1>4 DEF Accept, f
<1>6. Accept(d, e) \in Drafts
  BY <1>1, <1>5 DEF Drafts
<1> QED
  BY <1>6 DEF ApplyDraftEvent

(* An accepted event takes its effect and gives its number.                *)
LEMMA AcceptedParts ==
  ASSUME NEW d \in Drafts, NEW e \in Events, Accepts(d, e)
  PROVE  /\ ApplyDraftEvent(d, e).phase = Effect(d, e).phase
         /\ ApplyDraftEvent(d, e).banned = Effect(d, e).banned
         /\ ApplyDraftEvent(d, e).picks = Effect(d, e).picks
         /\ ApplyDraftEvent(d, e).unconfirmed = Effect(d, e).unconfirmed
         /\ ApplyDraftEvent(d, e).lastSeq = IF e.seq > d.lastSeq THEN e.seq ELSE d.lastSeq
         /\ e.payload.type # "pick_reverted" => e.seq > d.lastSeq
         /\ e.seq \in Nat /\ d.lastSeq \in Nat
<1>1. PICK f : f = Effect(d, e)
  OBVIOUS
<1>2. e.seq \in Nat /\ d.lastSeq \in Nat
  BY DraftFields DEF Events
<1>3. f \in Drafts /\ f.lastSeq = d.lastSeq
  BY <1>1, Effects
<1>4. ApplyDraftEvent(d, e) =
        [f EXCEPT !.lastSeq = IF e.seq > @ THEN e.seq ELSE @, !.applied = @ \cup {e.eventId}]
  BY <1>1 DEF ApplyDraftEvent, Accept
<1>5. e.payload.type # "pick_reverted" => e.seq > d.lastSeq
  BY <1>2 DEF Accepts, Stale
<1> QED
  BY <1>1, <1>2, <1>3, <1>4, <1>5 DEF Drafts

LEMMA AcceptedNumbers ==
  ASSUME NEW d \in Drafts, NEW e \in Events, Accepts(d, e)
  PROVE
    /\ e.payload.type = "session_started" =>
         d.phase = "idle" /\ ApplyDraftEvent(d, e).phase = "active"
    /\ e.payload.type # "session_started" =>
         d.phase = "active" /\ ApplyDraftEvent(d, e).phase # "idle"
    /\ e.payload.type # "pick_reverted" =>
         e.seq > d.lastSeq /\ ApplyDraftEvent(d, e).lastSeq = e.seq
    /\ e.payload.type = "pick_reverted" =>
         ApplyDraftEvent(d, e).lastSeq = IF e.seq > d.lastSeq THEN e.seq ELSE d.lastSeq
    /\ ApplyDraftEvent(d, e).lastSeq >= d.lastSeq
<1>1. /\ e.payload.type = "session_started" => d.phase = "idle"
      /\ e.payload.type # "session_started" => d.phase = "active"
  BY DEF Accepts, WrongPhase
<1>2. PICK p : p = e.payload
  OBVIOUS
<1>3. p \in Payloads
  BY <1>2 DEF Events
<1>4. /\ p.type = "session_started" => Effect(d, e) = [d EXCEPT !.phase = "active"]
      /\ p.type \notin {"session_started", "session_ended"} => Effect(d, e).phase = d.phase
      /\ p.type = "session_ended" => Effect(d, e).phase \in {"complete", "aborted"}
  BY <1>2, Effects
<1>5. p.type = "session_started" => Effect(d, e).phase = "active"
  BY <1>4 DEF Drafts
<1> QED
  BY <1>1, <1>2, <1>4, <1>5, AcceptedParts

LEMMA AcceptedHeroes ==
  ASSUME NEW d \in Drafts, NEW e \in Events, Accepts(d, e)
  PROVE
    /\ e.payload.type \notin {"hero_banned", "hero_picked", "pick_reverted"} =>
         /\ ApplyDraftEvent(d, e).banned = d.banned
         /\ ApplyDraftEvent(d, e).picks = d.picks
         /\ ApplyDraftEvent(d, e).unconfirmed = d.unconfirmed
    /\ e.payload.type = "hero_banned" =>
         /\ e.payload.hero \notin Held(d)
         /\ ApplyDraftEvent(d, e).banned = d.banned \cup {e.payload.hero}
         /\ ApplyDraftEvent(d, e).picks = d.picks
         /\ ApplyDraftEvent(d, e).unconfirmed \subseteq d.unconfirmed \cup {e.payload.hero}
    /\ e.payload.type = "hero_picked" =>
         /\ e.payload.hero \notin Held(d)
         /\ Cardinality(d.picks[e.payload.side]) < MAX_PICKS_PER_SIDE
         /\ ApplyDraftEvent(d, e).banned = d.banned
         /\ ApplyDraftEvent(d, e).picks =
              [d.picks EXCEPT ![e.payload.side] = @ \cup {e.payload.hero}]
         /\ ApplyDraftEvent(d, e).unconfirmed \subseteq d.unconfirmed \cup {e.payload.hero}
    /\ e.payload.type = "pick_reverted" =>
         /\ ApplyDraftEvent(d, e).banned = d.banned \ {e.payload.hero}
         /\ ApplyDraftEvent(d, e).picks =
              IF e.payload.hero \in d.banned THEN d.picks
              ELSE [d.picks EXCEPT ![e.payload.side] = @ \ {e.payload.hero}]
         /\ ApplyDraftEvent(d, e).unconfirmed = d.unconfirmed \ {e.payload.hero}
<1>1. PICK p : p = e.payload
  OBVIOUS
<1>2. PICK f : f = Effect(d, e)
  OBVIOUS
<1>3. /\ p.type \in {"session_started", "local_side_identified", "hero_banned", "hero_picked",
                     "pick_reverted", "session_ended", "capture_health"}
      /\ p.type \in {"hero_picked", "pick_reverted"} => p.side \in Sides /\ p.hero \in Heroes
  BY <1>1, PayloadFields DEF Events
<1>4. p.type \in {"hero_banned", "hero_picked"} => p.hero \notin Held(d)
  BY <1>1 DEF Accepts, HeroTaken, TakesHero
<1>5. p.type = "hero_picked" => Cardinality(d.picks[p.side]) < MAX_PICKS_PER_SIDE
  <2>1. SUFFICES ASSUME p.type = "hero_picked"
                 PROVE  Cardinality(d.picks[p.side]) < MAX_PICKS_PER_SIDE
    OBVIOUS
  <2>2. d.picks[p.side] \subseteq Heroes
    BY <1>3, <2>1, DraftFields DEF Sides
  <2>3. Cardinality(d.picks[p.side]) \in Nat
    BY <2>2, ReducerAssumption, FS_Subset, FS_CardinalityType
  <2> QED
    BY <1>1, <2>1, <2>3, ReducerAssumption DEF Accepts, RosterFull
<1>6. p.type = "session_started" =>
        f.banned = d.banned /\ f.picks = d.picks /\ f.unconfirmed = d.unconfirmed
  <2>1. p.type = "session_started" => f = [d EXCEPT !.phase = "active"]
    BY <1>1, <1>2, Effects
  <2> QED
    BY <2>1 DEF Drafts
<1>7. p.type \in {"local_side_identified", "session_ended", "capture_health"} =>
        f.banned = d.banned /\ f.picks = d.picks /\ f.unconfirmed = d.unconfirmed
  BY <1>1, <1>2, Effects
<1>8. /\ p.type = "hero_banned" =>
           /\ f.banned = d.banned \cup {p.hero} /\ f.picks = d.picks
           /\ f.unconfirmed \subseteq d.unconfirmed \cup {p.hero}
      /\ p.type = "hero_picked" =>
           /\ f.banned = d.banned /\ f.picks = [d.picks EXCEPT ![p.side] = @ \cup {p.hero}]
           /\ f.unconfirmed \subseteq d.unconfirmed \cup {p.hero}
  BY <1>1, <1>2, Effects
<1>9. p.type = "pick_reverted" =>
        /\ f.banned = d.banned \ {p.hero}
        /\ f.picks = IF p.hero \in d.banned THEN d.picks
                     ELSE [d.picks EXCEPT ![p.side] = @ \ {p.hero}]
        /\ f.unconfirmed = d.unconfirmed \ {p.hero}
  <2>1. p.type = "pick_reverted" => f = RevertHero(d, p.side, p.hero)
    BY <1>1, <1>2, Effects
  <2> QED
    BY <2>1 DEF RevertHero, Drafts
<1>10. PICK g : g = ApplyDraftEvent(d, e)
  OBVIOUS
<1>11. g.banned = f.banned /\ g.picks = f.picks /\ g.unconfirmed = f.unconfirmed
  BY <1>2, <1>10, AcceptedParts
<1> QED
  BY <1>1, <1>3, <1>4, <1>5, <1>6, <1>7, <1>8, <1>9, <1>10, <1>11

(* A sound draft stays sound.                                              *)
LEMMA ReducerSound ==
  ASSUME NEW d \in Drafts, NEW e \in Events, DraftSound(d)
  PROVE  DraftSound(ApplyDraftEvent(d, e))
<1>0. CASE ~Accepts(d, e)
  BY <1>0 DEF ApplyDraftEvent
<1> SUFFICES ASSUME Accepts(d, e) PROVE DraftSound(ApplyDraftEvent(d, e))
  BY <1>0
<1>a. PICK p : p = e.payload
  OBVIOUS
<1>b. PICK g : g = ApplyDraftEvent(d, e)
  OBVIOUS
<1>1. /\ d.picks \in [Sides -> SUBSET Heroes] /\ d.banned \subseteq Heroes
      /\ p \in Payloads
  BY <1>a, DraftFields DEF Events
<1>2. /\ p.type \in {"session_started", "local_side_identified", "hero_banned", "hero_picked",
                     "pick_reverted", "session_ended", "capture_health"}
      /\ p.type \in {"hero_picked", "pick_reverted"} => p.side \in Sides /\ p.hero \in Heroes
  BY <1>1, PayloadFields
<1>3. /\ p.type = "session_started" =>
           g.banned = d.banned /\ g.picks = d.picks /\ g.unconfirmed = d.unconfirmed
      /\ p.type \in {"local_side_identified", "session_ended", "capture_health"} =>
           g.banned = d.banned /\ g.picks = d.picks /\ g.unconfirmed = d.unconfirmed
      /\ p.type = "hero_banned" =>
           /\ p.hero \notin Held(d)
           /\ g.banned = d.banned \cup {p.hero} /\ g.picks = d.picks
           /\ g.unconfirmed \subseteq d.unconfirmed \cup {p.hero}
      /\ p.type = "hero_picked" =>
           /\ p.hero \notin Held(d) /\ Cardinality(d.picks[p.side]) < MAX_PICKS_PER_SIDE
           /\ g.banned = d.banned /\ g.picks = [d.picks EXCEPT ![p.side] = @ \cup {p.hero}]
           /\ g.unconfirmed \subseteq d.unconfirmed \cup {p.hero}
      /\ p.type = "pick_reverted" =>
           /\ g.banned = d.banned \ {p.hero}
           /\ g.picks = IF p.hero \in d.banned THEN d.picks
                      ELSE [d.picks EXCEPT ![p.side] = @ \ {p.hero}]
           /\ g.unconfirmed = d.unconfirmed \ {p.hero}
  BY <1>a, <1>b, AcceptedHeroes
<1>4. \A s \in Sides : IsFiniteSet(d.picks[s]) /\ Cardinality(d.picks[s]) \in Nat
  BY <1>1, ReducerAssumption, FS_Subset, FS_CardinalityType
<1>5. CASE p.type \in {"session_started", "local_side_identified", "session_ended",
                       "capture_health"}
  BY <1>b, <1>3, <1>5 DEF DraftSound, Held, Picked
<1>6. CASE p.type = "hero_banned"
  BY <1>b, <1>3, <1>6 DEF DraftSound, Held, Picked
<1>7. CASE p.type = "hero_picked"
  <2>1. /\ \A s \in Sides : g.picks[s] = IF s = p.side THEN d.picks[s] \cup {p.hero} ELSE d.picks[s]
        /\ g.banned = d.banned /\ p.hero \notin Held(d)
        /\ g.unconfirmed \subseteq d.unconfirmed \cup {p.hero}
    BY <1>1, <1>2, <1>3, <1>7
  <2>2. Picked(g) = Picked(d) \cup {p.hero}
    BY <1>2, <1>7, <2>1 DEF Picked, Sides
  <2>3. p.hero \notin d.picks[p.side]
    BY <1>2, <1>7, <2>1 DEF Held, Picked, Sides
  <2>4. Cardinality(d.picks[p.side] \cup {p.hero}) = Cardinality(d.picks[p.side]) + 1
    BY <1>2, <1>4, <1>7, <2>3, FS_AddElement
  <2>5. Cardinality(g.picks[p.side]) <= MAX_PICKS_PER_SIDE
    BY <1>2, <1>3, <1>4, <1>7, <2>1, <2>4, ReducerAssumption
  <2>6. \A s \in Sides : Cardinality(g.picks[s]) <= MAX_PICKS_PER_SIDE
    BY <2>1, <2>5 DEF DraftSound
  <2>7. g.picks["radiant"] \cap g.picks["dire"] = {}
    BY <1>2, <1>7, <2>1 DEF DraftSound, Held, Picked, Sides
  <2>8. g.banned \cap Picked(g) = {} /\ g.unconfirmed \subseteq Held(g)
    BY <2>1, <2>2 DEF DraftSound, Held
  <2> QED
    BY <1>b, <2>6, <2>7, <2>8 DEF DraftSound
<1>8. CASE p.type = "pick_reverted"
  <2>1. /\ \A s \in Sides : g.picks[s] =
             IF s = p.side /\ p.hero \notin d.banned THEN d.picks[s] \ {p.hero} ELSE d.picks[s]
        /\ g.banned = d.banned \ {p.hero} /\ g.unconfirmed = d.unconfirmed \ {p.hero}
    BY <1>1, <1>2, <1>3, <1>8
  <2>2. \A s \in Sides : g.picks[s] \subseteq d.picks[s]
    BY <2>1
  <2>3. \A s \in Sides : Cardinality(g.picks[s]) <= Cardinality(d.picks[s])
                           /\ Cardinality(g.picks[s]) \in Nat
    BY <1>4, <2>2, FS_Subset, FS_CardinalityType
  <2>4. \A s \in Sides : Cardinality(g.picks[s]) <= MAX_PICKS_PER_SIDE
    BY <1>4, <2>3, ReducerAssumption DEF DraftSound
  <2>5. g.picks["radiant"] \cap g.picks["dire"] = {} /\ Picked(g) \subseteq Picked(d)
    BY <2>2 DEF DraftSound, Picked, Sides
  <2>6. g.unconfirmed \subseteq Held(g)
    BY <2>1 DEF DraftSound, Held, Picked, Sides
  <2> QED
    BY <1>b, <2>1, <2>4, <2>5, <2>6 DEF DraftSound
<1> QED
  BY <1>2, <1>5, <1>6, <1>7, <1>8, <1>b

----------------------------------------------------------------------------
(* What the store, the sockets and the tabs are in                         *)

(* A board of this life is no later than the draft, and at the same number *)
(* it shows every hero of it: only corrections share a number, and they    *)
(* only remove heroes.                                                     *)
Known(b, d) == b.lastSeq <= d.lastSeq /\ (b.lastSeq = d.lastSeq => Covers(b, d))

(* The boards of a tab are known and arrive in the order of their numbers. *)
BoardsKnown(tab, messages, d, l) ==
  \A i \in Places(messages) :
    BoardAt(tab, messages, i).life = l => Known(BoardAt(tab, messages, i).board, d)
BoardsOrdered(tab, messages, l) ==
  \A i, j \in Places(messages) :
    i < j /\ BoardAt(tab, messages, i).life = l
      => Reaches(BoardAt(tab, messages, j), l, BoardAt(tab, messages, i).board.lastSeq)

(* Suggestions under way come behind a board that reaches them.            *)
TipsBehind(tab, messages, l) ==
  \A i \in DOMAIN messages :
    messages[i].type \notin Boards /\ messages[i].life = l /\ messages[i].seq > 0
      => \E j \in Places(messages) :
           j < i /\ Reaches(BoardAt(tab, messages, j), l, messages[i].seq)

(* A connected tab has, or will be given, a board as late as the draft.    *)
Reached(tab, messages, d, l) ==
  d.lastSeq > 0 => \E j \in Places(messages) : Reaches(BoardAt(tab, messages, j), l, d.lastSeq)

InOrder(tab, messages, d, l) ==
  /\ BoardsKnown(tab, messages, d, l) /\ BoardsOrdered(tab, messages, l)
  /\ TipsBehind(tab, messages, l) /\ TipsReached(tab, l)
TabInv(tab, messages, d, l) ==
  /\ InOrder(tab, messages, d, l)
  /\ tab.connected => Reached(tab, messages, d, l) /\ LastFollows(tab, messages, d, l)

(* What the number of a draft says: 0 until it starts, 1 at least once it  *)
(* has, 2 at least when it holds a hero.                                   *)
Numbered(d) ==
  /\ d.phase = "idle" => Held(d) = {}
  /\ d.phase # "idle" => d.lastSeq >= 1
  /\ Held(d) # {} => d.lastSeq >= 2

(* What a request carries: the number after the board its sender saw, but  *)
(* for the two of a bootstrap.                                             *)
RequestInv(r, d, l) ==
  r.life = l =>
    /\ Known(r.seen, d)
    /\ \/ r.event.seq = r.seen.lastSeq + 1
       \/ r.event.payload.type = "session_started"
       \/ r.event.payload.type = "local_side_identified" /\ r.event.seq = 2

(* Suggestions are computed for tabs that are connected.                   *)
WorkForConnected == \A w \in work : w.to # Everyone => tabs[w.to].connected

Inv ==
  /\ LegacyTypeOK /\ Numbered(draft)
  /\ \A t \in Tabs : TabInv(tabs[t], channel[t], draft, life)
  /\ \A r \in requests : RequestInv(r, draft, life)
  /\ \A w \in work : w.seq <= draft.lastSeq
  /\ WorkForConnected

----------------------------------------------------------------------------
(* Boards and messages, whatever the life they are of                      *)

Views == [board : BoardSet, life : Nat]
AnyMessage ==
  [type : Boards, board : BoardSet, life : Nat]
    \cup [type : {"suggestions"}, seq : Nat, life : Nat]
TabLike(tab) ==
  tab \in [ connected : BOOLEAN, view : Views, tips : [seq : Nat, life : Nat],
            intent : Intents \cup {NoIntent}, owed : BOOLEAN,
            boot : {"none", "posted", "answered"} ]

LEMMA BoardType == ASSUME NEW d \in Drafts PROVE Board(d) \in BoardSet
BY DEF Board, BoardSet, Drafts

LEMMA BoardFields ==
  ASSUME NEW d
  PROVE  /\ Board(d).lastSeq = d.lastSeq /\ Board(d).banned = d.banned
         /\ Board(d).picks = d.picks /\ Board(d).phase = d.phase
BY DEF Board

LEMMA OwnBoardKnown == ASSUME NEW d \in Drafts PROVE Known(Board(d), d)
BY BoardFields, DraftFields DEF Known, Covers

LEMMA MessageFields ==
  ASSUME NEW m \in AnyMessage
  PROVE  /\ m.type \in Boards => m.board \in BoardSet /\ m.life \in Nat
         /\ m.type \notin Boards => m.seq \in Nat /\ m.life \in Nat
         /\ m.type \in Boards \cup {"suggestions"}
BY DEF AnyMessage, Boards

LEMMA PlaceTypes ==
  ASSUME NEW tab, TabLike(tab), NEW messages \in Seq(AnyMessage), NEW i \in Places(messages)
  PROVE  /\ i \in 0..Len(messages) /\ BoardAt(tab, messages, i) \in Views
         /\ BoardAt(tab, messages, i).board \in BoardSet
         /\ BoardAt(tab, messages, i).board.lastSeq \in Nat
         /\ BoardAt(tab, messages, i).life \in Nat
<1>1. i = 0 \/ (i \in 1..Len(messages) /\ messages[i].type \in Boards)
  BY DEF Places
<1>2. i \in 0..Len(messages)
  BY <1>1
<1>3. BoardAt(tab, messages, i) \in Views
  <2>1. CASE i = 0
    BY <2>1 DEF BoardAt, TabLike
  <2>2. CASE i \in 1..Len(messages) /\ messages[i].type \in Boards
    <3>1. messages[i].board \in BoardSet /\ messages[i].life \in Nat
      BY <2>2, MessageFields
    <3> QED
      BY <2>2, <3>1 DEF BoardAt, Views
  <2> QED
    BY <1>1, <2>1, <2>2
<1> QED
  BY <1>2, <1>3 DEF Views, BoardSet

(* A message at the end of a channel.                                      *)
End(messages) == Len(messages) + 1
Longer(messages, m) == Append(messages, m)

LEMMA AppendedValues ==
  ASSUME NEW messages \in Seq(AnyMessage), NEW m \in AnyMessage
  PROVE  /\ DOMAIN Longer(messages, m) = DOMAIN messages \cup {End(messages)}
         /\ Longer(messages, m)[End(messages)] = m /\ 0 < End(messages)
         /\ \A i \in DOMAIN messages : Longer(messages, m)[i] = messages[i] /\ i < End(messages)
BY DEF End, Longer

LEMMA AppendedPlaces ==
  ASSUME NEW messages \in Seq(AnyMessage), NEW m \in AnyMessage
  PROVE  /\ \A i \in Places(messages) : i < End(messages)
         /\ m.type \in Boards => Places(Longer(messages, m)) = Places(messages) \cup {End(messages)}
         /\ m.type \notin Boards => Places(Longer(messages, m)) = Places(messages)
<1>1. /\ DOMAIN Longer(messages, m) = DOMAIN messages \cup {End(messages)}
      /\ Longer(messages, m)[End(messages)] = m /\ 0 < End(messages)
      /\ \A i \in DOMAIN messages : Longer(messages, m)[i] = messages[i] /\ i < End(messages)
  BY AppendedValues
<1> QED
  BY <1>1 DEF Places

LEMMA AppendedBoards ==
  ASSUME NEW tab, NEW messages \in Seq(AnyMessage), NEW m \in AnyMessage
  PROVE  /\ \A i \in Places(messages) :
              BoardAt(tab, Longer(messages, m), i) = BoardAt(tab, messages, i)
         /\ BoardAt(tab, Longer(messages, m), End(messages)) = [board |-> m.board, life |-> m.life]
<1>1. /\ DOMAIN Longer(messages, m) = DOMAIN messages \cup {End(messages)}
      /\ Longer(messages, m)[End(messages)] = m /\ 0 < End(messages)
      /\ \A i \in DOMAIN messages : Longer(messages, m)[i] = messages[i] /\ i < End(messages)
  BY AppendedValues
<1> QED
  BY <1>1 DEF Places, BoardAt

(* The board of an accepted event is pushed.                               *)
LEMMA BoardPushed ==
  ASSUME NEW tab, TabLike(tab), NEW messages \in Seq(AnyMessage), NEW d \in Drafts,
         NEW dd \in Drafts, NEW l \in Nat, InOrder(tab, messages, d, l),
         \A b \in BoardSet : Known(b, d) => Known(b, dd),
         NEW type \in Boards
  PROVE  TabInv(tab, Append(messages, BoardMessage(type, dd, l)), dd, l)
<1>1. PICK m : m = BoardMessage(type, dd, l)
  OBVIOUS
<1>2. PICK longer : longer = Longer(messages, m)
  OBVIOUS
<1>3. PICK last \in Nat : last = End(messages)
  BY DEF End
<1>4. m \in AnyMessage /\ m.type \in Boards /\ m.board = Board(dd) /\ m.life = l
  BY <1>1, BoardType DEF AnyMessage, BoardMessage
<1>5. /\ DOMAIN longer = DOMAIN messages \cup {last}
      /\ longer[last] = m
      /\ \A i \in DOMAIN messages : longer[i] = messages[i] /\ i < last
      /\ \A i \in Places(messages) :
           BoardAt(tab, longer, i) = BoardAt(tab, messages, i) /\ i < last
      /\ Places(longer) = Places(messages) \cup {last}
      /\ BoardAt(tab, longer, last) = [board |-> m.board, life |-> m.life]
  BY <1>2, <1>3, <1>4, AppendedValues, AppendedPlaces, AppendedBoards
<1>6. /\ BoardAt(tab, longer, last).board = Board(dd) /\ BoardAt(tab, longer, last).life = l
      /\ Board(dd).lastSeq = dd.lastSeq /\ dd.lastSeq \in Nat
  BY <1>4, <1>5, BoardFields, DraftFields
<1>7. \A i \in Places(messages) : i \in Nat /\ BoardAt(tab, messages, i).board \in BoardSet
                                    /\ BoardAt(tab, messages, i).board.lastSeq \in Nat
  BY PlaceTypes
<1>8. BoardsKnown(tab, longer, dd, l)
  BY <1>5, <1>6, <1>7, OwnBoardKnown DEF TabInv, InOrder, BoardsKnown
<1>9. BoardsOrdered(tab, longer, l)
  <2>1. SUFFICES ASSUME NEW i \in Places(longer), NEW j \in Places(longer), i < j,
                        BoardAt(tab, longer, i).life = l
                 PROVE  Reaches(BoardAt(tab, longer, j), l, BoardAt(tab, longer, i).board.lastSeq)
    BY DEF BoardsOrdered
  <2>2. i \in Places(messages)
    BY <1>3, <1>5, <1>7, <2>1
  <2>3. CASE j = last
    <3>1. BoardAt(tab, longer, i).board.lastSeq <= dd.lastSeq
      BY <1>8, <2>1 DEF BoardsKnown, Known
    <3> QED
      BY <1>5, <1>6, <1>7, <2>2, <2>3, <3>1 DEF Reaches
  <2>4. CASE j \in Places(messages)
    BY <1>5, <2>1, <2>2, <2>4 DEF TabInv, InOrder, BoardsOrdered
  <2> QED
    BY <1>5, <2>3, <2>4
<1>10. TipsBehind(tab, longer, l)
  <2>1. SUFFICES ASSUME NEW i \in DOMAIN longer, longer[i].type \notin Boards,
                        longer[i].life = l, longer[i].seq > 0
                 PROVE  \E j \in Places(longer) :
                          j < i /\ Reaches(BoardAt(tab, longer, j), l, longer[i].seq)
    BY DEF TipsBehind
  <2>2. i \in DOMAIN messages /\ longer[i] = messages[i]
    BY <1>4, <1>5, <2>1
  <2>3. PICK j \in Places(messages) :
          j < i /\ Reaches(BoardAt(tab, messages, j), l, messages[i].seq)
    BY <2>1, <2>2 DEF TabInv, InOrder, TipsBehind
  <2> QED
    BY <1>5, <2>2, <2>3
<1>11. Reached(tab, longer, dd, l)
  <2>1. Reaches(BoardAt(tab, longer, last), l, dd.lastSeq)
    BY <1>6 DEF Reaches
  <2> QED
    BY <1>5, <2>1 DEF Reached
<1>12. LastFollows(tab, longer, dd, l)
  <2>1. ASSUME NEW i \in Places(longer), \A j \in Places(longer) : j <= i
        PROVE  i = last
    BY <1>3, <1>5, <1>7, <2>1
  <2> QED
    BY <1>6, <2>1 DEF LastFollows
<1> QED
  BY <1>1, <1>2, <1>8, <1>9, <1>10, <1>11, <1>12 DEF TabInv, InOrder, Longer

(* Suggestions computed for a board of this life are sent to a connected   *)
(* tab.                                                                    *)
LEMMA SuggestionsSent ==
  ASSUME NEW tab, TabLike(tab), tab.connected, NEW messages \in Seq(AnyMessage), NEW d \in Drafts,
         NEW l \in Nat, TabInv(tab, messages, d, l),
         NEW w, w.life = l, w.seq \in Nat, w.seq <= d.lastSeq
  PROVE  TabInv(tab, Append(messages, SuggestionsMessage(w)), d, l)
<1>1. PICK m : m = SuggestionsMessage(w)
  OBVIOUS
<1>2. PICK longer : longer = Longer(messages, m)
  OBVIOUS
<1>3. PICK last \in Nat : last = End(messages)
  BY DEF End
<1>4. m \in AnyMessage /\ m.type \notin Boards /\ m.seq = w.seq /\ m.life = l
  BY <1>1 DEF AnyMessage, SuggestionsMessage, Boards
<1>a. /\ DOMAIN longer = DOMAIN messages \cup {last}
      /\ longer[last] = m
      /\ \A i \in DOMAIN messages : longer[i] = messages[i] /\ i < last
  BY <1>2, <1>3, <1>4, AppendedValues
<1>b. Places(longer) = Places(messages) /\ \A i \in Places(messages) : i < last
  BY <1>2, <1>3, <1>4, AppendedPlaces
<1>c. \A i \in Places(messages) : BoardAt(tab, longer, i) = BoardAt(tab, messages, i)
  BY <1>2, <1>4, AppendedBoards
<1>5. /\ DOMAIN longer = DOMAIN messages \cup {last}
      /\ longer[last] = m
      /\ \A i \in DOMAIN messages : longer[i] = messages[i] /\ i < last
      /\ \A i \in Places(messages) :
           BoardAt(tab, longer, i) = BoardAt(tab, messages, i) /\ i < last
      /\ Places(longer) = Places(messages)
  BY <1>a, <1>b, <1>c
<1>6. BoardsKnown(tab, longer, d, l) /\ BoardsOrdered(tab, longer, l)
  BY <1>5 DEF TabInv, InOrder, BoardsKnown, BoardsOrdered
<1>7. Reached(tab, longer, d, l) /\ LastFollows(tab, longer, d, l)
  BY <1>5 DEF TabInv, InOrder, Reached, LastFollows
<1>8. TipsBehind(tab, longer, l)
  <2>1. SUFFICES ASSUME NEW i \in DOMAIN longer, longer[i].type \notin Boards,
                        longer[i].life = l, longer[i].seq > 0
                 PROVE  \E j \in Places(longer) :
                          j < i /\ Reaches(BoardAt(tab, longer, j), l, longer[i].seq)
    BY DEF TipsBehind
  <2>2. CASE i \in DOMAIN messages
    BY <1>5, <2>1, <2>2 DEF TabInv, InOrder, TipsBehind
  <2>3. CASE i = last
    <3>1. d.lastSeq > 0 /\ d.lastSeq \in Nat
      BY <1>4, <1>5, <2>1, <2>3, DraftFields
    <3>2. PICK j \in Places(messages) : Reaches(BoardAt(tab, messages, j), l, d.lastSeq)
      BY <3>1 DEF TabInv, InOrder, Reached
    <3>3. BoardAt(tab, messages, j).board.lastSeq \in Nat
      BY PlaceTypes
    <3>4. Reaches(BoardAt(tab, longer, j), l, longer[i].seq)
      BY <1>4, <1>5, <2>3, <3>1, <3>2, <3>3 DEF Reaches
    <3> QED
      BY <1>5, <2>3, <3>4
  <2> QED
    BY <1>5, <2>2, <2>3
<1> QED
  BY <1>1, <1>2, <1>6, <1>7, <1>8 DEF TabInv, InOrder, Longer

(* The message at the head is taken off and shown: every place of what is  *)
(* left was a place before, and every board seen before is still reached.  *)
Origin(messages, i) == IF i = 0 /\ messages[1].type \notin Boards THEN 0 ELSE i + 1
Shown(tab, m) ==
  IF m.type \in Boards THEN [tab EXCEPT !.view = Show(@, m)]
  ELSE [tab EXCEPT !.tips = [seq |-> m.seq, life |-> m.life]]
Shorter(messages) == Tail(messages)

LEMMA TailValues ==
  ASSUME NEW messages \in Seq(AnyMessage), messages # <<>>
  PROVE  /\ \A i \in DOMAIN Shorter(messages) :
              /\ i \in Nat /\ i > 0 /\ i + 1 \in DOMAIN messages
              /\ Shorter(messages)[i] = messages[i + 1]
         /\ \A j \in DOMAIN messages : j \in Nat /\ (j > 1 => j - 1 \in DOMAIN Shorter(messages))
         /\ 1 \in DOMAIN messages /\ messages[1] \in AnyMessage
BY DEF Shorter

LEMMA TailPlaces ==
  ASSUME NEW messages \in Seq(AnyMessage), messages # <<>>
  PROVE  /\ \A i \in Places(Shorter(messages)) :
              i \in Nat /\ Origin(messages, i) \in Places(messages)
         /\ \A j \in Places(messages) :
              /\ j \in Nat /\ (j > 1 => j - 1 \in Places(Shorter(messages)))
              /\ j = 1 => messages[1].type \in Boards
         /\ 0 \in Places(messages) /\ 0 \in Places(Shorter(messages))
<1>1. /\ \A i \in DOMAIN Shorter(messages) :
           /\ i \in Nat /\ i > 0 /\ i + 1 \in DOMAIN messages
           /\ Shorter(messages)[i] = messages[i + 1]
      /\ \A j \in DOMAIN messages : j \in Nat /\ (j > 1 => j - 1 \in DOMAIN Shorter(messages))
      /\ 1 \in DOMAIN messages /\ messages[1] \in AnyMessage
  BY TailValues
<1>2. ASSUME NEW i \in Places(Shorter(messages))
      PROVE  i \in Nat /\ Origin(messages, i) \in Places(messages)
  <2>1. CASE i = 0
    BY <1>1, <2>1 DEF Places, Origin
  <2>2. CASE i \in DOMAIN Shorter(messages) /\ Shorter(messages)[i].type \in Boards
    BY <1>1, <2>2 DEF Places, Origin
  <2> QED
    BY <2>1, <2>2 DEF Places
<1>3. ASSUME NEW j \in Places(messages)
      PROVE  /\ j \in Nat /\ (j > 1 => j - 1 \in Places(Shorter(messages)))
             /\ j = 1 => messages[1].type \in Boards
  <2>1. CASE j = 0
    BY <2>1
  <2>2. CASE j \in DOMAIN messages /\ messages[j].type \in Boards
    <3>1. ASSUME j > 1 PROVE Shorter(messages)[j - 1] = messages[j]
      BY <1>1, <2>2, <3>1
    <3> QED
      BY <1>1, <2>2, <3>1 DEF Places
  <2> QED
    BY <2>1, <2>2 DEF Places
<1> QED
  BY <1>2, <1>3 DEF Places

LEMMA TailBoards ==
  ASSUME NEW tab, TabLike(tab), NEW messages \in Seq(AnyMessage), messages # <<>>,
         NEW tab2, tab2 = Shown(tab, messages[1]),
         NEW i \in Places(Shorter(messages))
  PROVE  BoardAt(tab2, Shorter(messages), i) = BoardAt(tab, messages, Origin(messages, i))
<1>1. /\ \A k \in DOMAIN Shorter(messages) :
           /\ k \in Nat /\ k > 0 /\ k + 1 \in DOMAIN messages
           /\ Shorter(messages)[k] = messages[k + 1]
      /\ 1 \in DOMAIN messages
  BY TailValues
<1>2. CASE i # 0
  BY <1>1, <1>2 DEF Places, BoardAt, Origin
<1>3. CASE i = 0 /\ messages[1].type \notin Boards
  BY <1>3 DEF BoardAt, Origin, Shown
<1>4. CASE i = 0 /\ messages[1].type \in Boards
  BY <1>4 DEF BoardAt, Origin, Shown, Show, TabLike
<1> QED
  BY <1>2, <1>3, <1>4

LEMMA HeadShown ==
  ASSUME NEW tab, TabLike(tab), NEW messages \in Seq(AnyMessage), messages # <<>>,
         NEW d \in Drafts, NEW l \in Nat, TabInv(tab, messages, d, l),
         NEW tab2, tab2 = Shown(tab, messages[1]),
         tab2.connected = tab.connected
  PROVE  TabInv(tab2, Shorter(messages), d, l)
<1>1. PICK left : left = Shorter(messages)
  OBVIOUS
<1>2. /\ \A i \in Places(left) : i \in Nat /\ Origin(messages, i) \in Places(messages)
      /\ \A j \in Places(messages) :
           /\ j \in Nat /\ (j > 1 => j - 1 \in Places(left))
           /\ j = 1 => messages[1].type \in Boards
      /\ 0 \in Places(messages) /\ 0 \in Places(left)
  BY <1>1, TailPlaces
<1>3. \A i \in Places(left) : BoardAt(tab2, left, i) = BoardAt(tab, messages, Origin(messages, i))
  BY <1>1, TailBoards
<1>4. \A j \in Places(messages) : BoardAt(tab, messages, j).board.lastSeq \in Nat
  BY PlaceTypes
<1>5. /\ \A i \in DOMAIN left :
           i \in Nat /\ i > 0 /\ i + 1 \in DOMAIN messages /\ left[i] = messages[i + 1]
      /\ 1 \in DOMAIN messages /\ messages[1] \in AnyMessage
  BY <1>1, TailValues
<1>6. \A i, j \in Places(left) : i < j => Origin(messages, i) < Origin(messages, j)
  BY <1>2 DEF Origin
(* Whatever a board of before reached, one of now reaches.                 *)
<1>7. ASSUME NEW j \in Places(messages), NEW n \in Nat, Reaches(BoardAt(tab, messages, j), l, n)
      PROVE  \E i \in Places(left) : (i = 0 \/ i + 1 = j) /\ Reaches(BoardAt(tab2, left, i), l, n)
  <2>1. CASE j > 1
    <3>1. j - 1 \in Places(left) /\ Origin(messages, j - 1) = j /\ j \in Nat
      BY <1>2, <2>1 DEF Origin
    <3>2. Reaches(BoardAt(tab2, left, j - 1), l, n)
      BY <1>3, <1>7, <3>1
    <3> QED
      BY <2>1, <3>1, <3>2
  <2>2. CASE j = 1
    <3>1. Origin(messages, 0) = 1
      BY <1>2, <2>2 DEF Origin
    <3> QED
      BY <1>2, <1>3, <1>7, <2>2, <3>1
  <2>3. CASE j = 0 /\ messages[1].type \notin Boards
    <3>1. Origin(messages, 0) = 0
      BY <2>3 DEF Origin
    <3> QED
      BY <1>2, <1>3, <1>7, <2>3, <3>1
  <2>4. CASE j = 0 /\ messages[1].type \in Boards
    <3>1. Origin(messages, 0) = 1
      BY <2>4 DEF Origin
    <3>2. 1 \in Places(messages)
      BY <1>2, <3>1
    <3>3. Reaches(BoardAt(tab, messages, 1), l, BoardAt(tab, messages, 0).board.lastSeq)
      BY <1>2, <1>7, <2>4, <3>2 DEF TabInv, InOrder, BoardsOrdered, Reaches
    <3>4. Reaches(BoardAt(tab, messages, 1), l, n)
      BY <1>2, <1>4, <1>7, <2>4, <3>2, <3>3 DEF Reaches
    <3> QED
      BY <1>2, <1>3, <2>4, <3>1, <3>4
  <2> QED
    BY <1>2, <2>1, <2>2, <2>3, <2>4
<1>8. BoardsKnown(tab2, left, d, l)
  BY <1>2, <1>3 DEF TabInv, InOrder, BoardsKnown
<1>9. BoardsOrdered(tab2, left, l)
  BY <1>2, <1>3, <1>6 DEF TabInv, InOrder, BoardsOrdered
<1>10. TipsBehind(tab2, left, l)
  <2>1. SUFFICES ASSUME NEW i \in DOMAIN left, left[i].type \notin Boards,
                        left[i].life = l, left[i].seq > 0
                 PROVE  \E j \in Places(left) : j < i /\ Reaches(BoardAt(tab2, left, j), l, left[i].seq)
    BY DEF TipsBehind
  <2>2. i \in Nat /\ i > 0 /\ i + 1 \in DOMAIN messages /\ left[i] = messages[i + 1]
    BY <1>5
  <2>3. left[i].seq \in Nat
    BY <2>1, <2>2, MessageFields
  <2>4. PICK j \in Places(messages) :
          j < i + 1 /\ Reaches(BoardAt(tab, messages, j), l, left[i].seq)
    BY <2>1, <2>2 DEF TabInv, InOrder, TipsBehind
  <2>5. PICK k \in Places(left) :
          (k = 0 \/ k + 1 = j) /\ Reaches(BoardAt(tab2, left, k), l, left[i].seq)
    BY <1>7, <2>3, <2>4
  <2>6. k < i
    BY <1>2, <2>2, <2>4, <2>5
  <2> QED
    BY <2>5, <2>6
<1>11. tab2.connected => Reached(tab2, left, d, l)
  <2>1. SUFFICES ASSUME tab2.connected, d.lastSeq > 0
                 PROVE  \E i \in Places(left) : Reaches(BoardAt(tab2, left, i), l, d.lastSeq)
    BY DEF Reached
  <2>2. PICK j \in Places(messages) : Reaches(BoardAt(tab, messages, j), l, d.lastSeq)
    BY <2>1 DEF TabInv, InOrder, Reached
  <2>3. d.lastSeq \in Nat
    BY DraftFields
  <2> QED
    BY <1>7, <2>2, <2>3
<1>12. tab2.connected => LastFollows(tab2, left, d, l)
  <2>1. SUFFICES ASSUME tab2.connected, NEW i \in Places(left), \A j \in Places(left) : j <= i
                 PROVE  \A j \in Places(messages) : j <= Origin(messages, i)
    BY <1>2, <1>3 DEF TabInv, InOrder, LastFollows
  <2>2. ASSUME NEW j \in Places(messages)
        PROVE  j <= Origin(messages, i)
    BY <1>2, <2>1 DEF Origin
  <2> QED
    BY <2>2
<1>13. TipsReached(tab2, l)
  <2>1. CASE messages[1].type \in Boards
    <3>1. tab2.tips = tab.tips
      BY <2>1 DEF Shown, TabLike
    <3>2. tab2.view = BoardAt(tab2, left, 0) /\ tab.view = BoardAt(tab, messages, 0)
      BY DEF BoardAt
    <3>3. tab.tips.seq \in Nat
      BY DEF TabLike
    <3>4. ASSUME tab.tips.life = l, tab.tips.seq > 0
          PROVE  Reaches(tab2.view, l, tab.tips.seq)
      <4>1. Reaches(BoardAt(tab, messages, 0), l, tab.tips.seq)
        BY <3>2, <3>4 DEF TabInv, InOrder, TipsReached
      <4>2. PICK i \in Places(left) :
              (i = 0 \/ i + 1 = 0) /\ Reaches(BoardAt(tab2, left, i), l, tab.tips.seq)
        BY <1>2, <1>7, <3>3, <4>1
      <4> QED
        BY <1>2, <3>2, <4>2
    <3> QED
      BY <3>1, <3>4 DEF TipsReached
  <2>2. CASE messages[1].type \notin Boards
    <3>1. tab2.tips.seq = messages[1].seq /\ tab2.tips.life = messages[1].life
            /\ tab2.view = tab.view
      BY <2>2 DEF Shown, TabLike
    <3>2. ASSUME messages[1].life = l, messages[1].seq > 0
          PROVE  Reaches(tab.view, l, messages[1].seq)
      <4>1. PICK j \in Places(messages) :
              j < 1 /\ Reaches(BoardAt(tab, messages, j), l, messages[1].seq)
        BY <1>5, <2>2, <3>2 DEF TabInv, InOrder, TipsBehind
      <4>2. j = 0
        BY <1>2, <4>1
      <4> QED
        BY <4>1, <4>2 DEF BoardAt
    <3> QED
      BY <3>1, <3>2 DEF TipsReached
  <2> QED
    BY <2>1, <2>2
<1> QED
  BY <1>1, <1>8, <1>9, <1>10, <1>11, <1>12, <1>13 DEF TabInv, InOrder

----------------------------------------------------------------------------
(* The other ways a tab and its channel change                             *)

LEMMA NoMessages ==
  ASSUME NEW tab
  PROVE  Places(<<>>) = {0} /\ BoardAt(tab, <<>>, 0) = tab.view /\ DOMAIN <<>> = {}
BY DEF Places, BoardAt

(* What a tab shows stays in order when its channel is emptied.            *)
LEMMA Emptied ==
  ASSUME NEW tab, TabLike(tab), NEW messages, NEW d \in Drafts, NEW dd \in Drafts, NEW l \in Nat,
         InOrder(tab, messages, d, l),
         \A b \in BoardSet : Known(b, d) => Known(b, dd),
         NEW tab2, tab2.view = tab.view, tab2.tips = tab.tips
  PROVE  InOrder(tab2, <<>>, dd, l)
<1>1. 0 \in Places(messages) /\ BoardAt(tab, messages, 0) = tab.view /\ tab.view.board \in BoardSet
  BY DEF Places, BoardAt, TabLike, Views
<1>2. tab.view.life = l => Known(tab.view.board, dd)
  BY <1>1 DEF InOrder, BoardsKnown
<1>3. BoardsKnown(tab2, <<>>, dd, l)
  BY <1>2, NoMessages DEF BoardsKnown
<1>4. BoardsOrdered(tab2, <<>>, l)
  BY NoMessages DEF BoardsOrdered
<1>5. TipsBehind(tab2, <<>>, l)
  BY NoMessages DEF TipsBehind
<1>6. TipsReached(tab2, l)
  BY DEF InOrder, TipsReached
<1> QED
  BY <1>3, <1>4, <1>5, <1>6 DEF InOrder

LEMMA Greeted ==
  ASSUME NEW tab, TabLike(tab), NEW messages, NEW d \in Drafts, NEW l \in Nat,
         InOrder(tab, messages, d, l),
         NEW tab2, TabLike(tab2), tab2.view = tab.view, tab2.tips = tab.tips
  PROVE  TabInv(tab2, Greeting(d, l), d, l)
<1>1. InOrder(tab2, <<>>, d, l)
  BY Emptied
<1>2. <<>> \in Seq(AnyMessage) /\ "snapshot" \in Boards
  BY DEF Boards
<1>3. TabInv(tab2, Append(<<>>, BoardMessage("snapshot", d, l)), d, l)
  BY <1>1, <1>2, BoardPushed
<1> QED
  BY <1>3 DEF Greeting

LEMMA SameShown ==
  ASSUME NEW tab, NEW tab2, tab2.view = tab.view, tab2.tips = tab.tips,
         tab2.connected = tab.connected,
         NEW messages, NEW d, NEW l, TabInv(tab, messages, d, l)
  PROVE  TabInv(tab2, messages, d, l)
<1>1. \A i : BoardAt(tab2, messages, i) = BoardAt(tab, messages, i)
  BY DEF BoardAt
<1> QED
  BY <1>1 DEF TabInv, InOrder, BoardsKnown, BoardsOrdered, TipsBehind, TipsReached, Reached,
              LastFollows

(* Nothing of an earlier life binds the new one.                           *)
LEMMA NewLife ==
  ASSUME NEW tab, NEW messages, NEW l \in Nat,
         \A i \in Places(messages) : BoardAt(tab, messages, i).life # l,
         \A i \in DOMAIN messages : messages[i].life # l,
         tab.tips.life # l
  PROVE  TabInv(tab, messages, IdleDraft, l)
<1>1. IdleDraft.lastSeq = 0
  BY DEF IdleDraft
<1>2. Reached(tab, messages, IdleDraft, l)
  BY <1>1 DEF Reached
<1> QED
  BY <1>2 DEF TabInv, InOrder, BoardsKnown, BoardsOrdered, TipsBehind, TipsReached, LastFollows

(* An accepted event keeps every board known: a new number leaves them all *)
(* behind, a correction that keeps the number only removes.                *)
LEMMA DraftAdvances ==
  ASSUME NEW d \in Drafts, NEW e \in Events, NEW dd, dd = ApplyDraftEvent(d, e)
  PROVE  /\ dd.lastSeq >= d.lastSeq
         /\ \A b \in BoardSet : Known(b, d) => Known(b, dd)
<1>1. d.lastSeq \in Nat /\ e.seq \in Nat
  BY DraftFields DEF Events
<1>2. CASE ~Accepts(d, e)
  BY <1>1, <1>2 DEF ApplyDraftEvent
<1>3. CASE Accepts(d, e) /\ e.payload.type # "pick_reverted"
  <2>1. e.seq > d.lastSeq /\ dd.lastSeq = e.seq
    BY <1>3, AcceptedNumbers
  <2>2. \A b \in BoardSet : b.lastSeq \in Nat
    BY DEF BoardSet
  <2> QED
    BY <1>1, <2>1, <2>2 DEF Known
<1>4. CASE Accepts(d, e) /\ e.payload.type = "pick_reverted"
  <2>0. PICK p : p = e.payload
    OBVIOUS
  <2>1. /\ dd.lastSeq = IF e.seq > d.lastSeq THEN e.seq ELSE d.lastSeq
        /\ dd.banned = d.banned \ {p.hero}
        /\ dd.picks = IF p.hero \in d.banned THEN d.picks
                      ELSE [d.picks EXCEPT ![p.side] = @ \ {p.hero}]
    BY <1>4, <2>0, AcceptedNumbers, AcceptedHeroes
  <2>2. d.picks \in [Sides -> SUBSET Heroes] /\ p.side \in Sides
    BY <1>4, <2>0, DraftFields, PayloadFields DEF Events
  <2>3. dd.banned \subseteq d.banned /\ \A s \in Sides : dd.picks[s] \subseteq d.picks[s]
    BY <2>1, <2>2
  <2>4. \A b \in BoardSet : b.lastSeq \in Nat
    BY DEF BoardSet
  <2> QED
    BY <1>1, <2>1, <2>3, <2>4 DEF Known, Covers
<1> QED
  BY <1>2, <1>3, <1>4

LEMMA NumberedKept ==
  ASSUME NEW d \in Drafts, NEW e \in Events, Numbered(d), NEW dd, dd = ApplyDraftEvent(d, e)
  PROVE  Numbered(dd)
<1>0. PICK p : p = e.payload
  OBVIOUS
<1>1. d.lastSeq \in Nat /\ e.seq \in Nat /\ p \in Payloads /\ dd \in Drafts
  BY <1>0, DraftFields, ReducerType DEF Events
<1>2. CASE ~Accepts(d, e)
  BY <1>2 DEF ApplyDraftEvent
<1>3. CASE Accepts(d, e) /\ p.type = "session_started"
  <2>1. /\ d.phase = "idle" /\ dd.phase = "active" /\ dd.banned = d.banned /\ dd.picks = d.picks
        /\ e.seq > d.lastSeq /\ dd.lastSeq = e.seq
    BY <1>0, <1>3, AcceptedNumbers, AcceptedHeroes
  <2> QED
    BY <1>1, <2>1 DEF Numbered, Held, Picked
<1>4. CASE Accepts(d, e) /\ p.type = "pick_reverted"
  <2>1. /\ d.phase = "active" /\ dd.phase # "idle" /\ dd.lastSeq >= d.lastSeq
        /\ dd.banned = d.banned \ {p.hero}
        /\ dd.picks = IF p.hero \in d.banned THEN d.picks
                      ELSE [d.picks EXCEPT ![p.side] = @ \ {p.hero}]
    BY <1>0, <1>4, AcceptedNumbers, AcceptedHeroes
  <2>2. d.picks \in [Sides -> SUBSET Heroes] /\ p.side \in Sides
    BY <1>1, <1>4, DraftFields, PayloadFields
  <2>3. Held(dd) \subseteq Held(d)
    BY <2>1, <2>2 DEF Held, Picked, Sides
  <2>4. dd.lastSeq \in Nat
    BY <1>1, DraftFields
  <2> QED
    BY <1>1, <2>1, <2>3, <2>4 DEF Numbered
<1>5. CASE Accepts(d, e) /\ p.type \notin {"session_started", "pick_reverted"}
  <2>1. d.phase = "active" /\ dd.phase # "idle" /\ e.seq > d.lastSeq /\ dd.lastSeq = e.seq
    BY <1>0, <1>5, AcceptedNumbers
  <2> QED
    BY <1>1, <2>1 DEF Numbered
<1> QED
  BY <1>2, <1>3, <1>4, <1>5

----------------------------------------------------------------------------
(* The steps                                                               *)

LEMMA TypeFacts ==
  ASSUME LegacyTypeOK, NEW t \in Tabs
  PROVE  /\ TabLike(tabs[t]) /\ channel[t] \in Seq(AnyMessage) /\ channel[t] \in Seq(Messages)
         /\ tabs[t] \in TabSet /\ draft \in Drafts /\ life \in Nat
<1>1. tabs[t] \in TabSet /\ channel[t] \in Seq(Messages) /\ draft \in Drafts /\ life \in 0..MaxLives
  BY DEF LegacyTypeOK
<1>2. life \in Nat
  BY <1>1, LegacyAssumption
<1>3. 0..life \subseteq Nat
  BY <1>2
<1>4. Messages \subseteq AnyMessage
  BY <1>3 DEF Messages, AnyMessage
<1>5. channel[t] \in Seq(AnyMessage)
  BY <1>1, <1>4
<1>6. TabLike(tabs[t])
  BY <1>1, <1>3 DEF TabSet, TabLike, Views
<1> QED
  BY <1>1, <1>2, <1>5, <1>6

LEMMA InitInv == Init => Inv
<1> SUFFICES ASSUME Init PROVE Inv
  OBVIOUS
<1>1. IdleDraft \in Drafts /\ Held(IdleDraft) = {} /\ IdleDraft.phase = "idle"
  BY DEF IdleDraft, Drafts, Held, Picked, Sides
<1>2. DraftSound(IdleDraft)
  <2>1. Cardinality({}) = 0
    BY FS_EmptySet
  <2> QED
    BY <2>1, ReducerAssumption DEF DraftSound, IdleDraft, Picked, Held, Sides
<1>3. Board(IdleDraft) \in BoardSet
  BY <1>1, BoardType
<1>4. LegacyTypeOK
  BY <1>1, <1>2, <1>3, LegacyAssumption DEF Init, LegacyTypeOK, TabSet, NoView, NoTips, NoIntent
<1>5. ASSUME NEW t \in Tabs PROVE TabInv(tabs[t], channel[t], draft, life)
  <2>1. /\ tabs[t].view = NoView /\ tabs[t].tips = NoTips /\ tabs[t].connected = FALSE
        /\ channel[t] = <<>> /\ draft = IdleDraft
    BY DEF Init
  <2>2. Known(NoView.board, IdleDraft)
    BY <1>1, OwnBoardKnown DEF NoView
  <2>3. BoardsKnown(tabs[t], <<>>, draft, life)
    BY <2>1, <2>2, NoMessages DEF BoardsKnown
  <2>4. BoardsOrdered(tabs[t], <<>>, life) /\ TipsBehind(tabs[t], <<>>, life)
    BY NoMessages DEF BoardsOrdered, TipsBehind
  <2>5. TipsReached(tabs[t], life)
    BY <2>1 DEF TipsReached, NoTips
  <2> QED
    BY <2>1, <2>3, <2>4, <2>5 DEF TabInv, InOrder
<1> QED
  BY <1>1, <1>4, <1>5 DEF Inv, Init, Numbered, WorkForConnected

(* Draft, life and channels stay, and so does what the tabs show.          *)
LEMMA TabsStay ==
  ASSUME Inv, UNCHANGED <<draft, life, channel>>,
         \A t \in Tabs : /\ tabs'[t].view = tabs[t].view /\ tabs'[t].tips = tabs[t].tips
                         /\ tabs'[t].connected = tabs[t].connected
  PROVE  \A t \in Tabs : TabInv(tabs'[t], channel'[t], draft', life')
BY SameShown DEF Inv

LEMMA RequestsStay ==
  ASSUME Inv, UNCHANGED <<draft, life>>, requests' \subseteq requests
  PROVE  /\ \A r \in requests' : RequestInv(r, draft', life')
         /\ requests' \subseteq [tab : Tabs, life : 0..life', seen : BoardSet, event : Events]
BY DEF Inv, LegacyTypeOK

LEMMA Published ==
  ASSUME LegacyTypeOK, NEW m \in Messages, Publish(m)
  PROVE  /\ channel' \in [Tabs -> Seq(Messages)]
         /\ \A t \in Tabs :
              /\ tabs[t].connected => channel'[t] = Append(channel[t], m)
              /\ ~tabs[t].connected => channel'[t] = channel[t]
<1>1. \A t \in Tabs : channel[t] \in Seq(Messages)
  BY TypeFacts
<1> QED
  BY <1>1 DEF Publish, Connected

LEMMA EventHandled ==
  ASSUME Inv, NEW e \in Events, HandleDraftEvent(e),
         tabs' \in [Tabs -> TabSet],
         \A t \in Tabs : /\ tabs'[t].view = tabs[t].view /\ tabs'[t].tips = tabs[t].tips
                         /\ tabs'[t].connected = tabs[t].connected
                         /\ tabs'[t].owed = tabs[t].owed,
         requests' \subseteq requests, posted' = posted
  PROVE  Inv'
<1>1. draft \in Drafts /\ life \in Nat /\ DraftSound(draft) /\ Numbered(draft)
  BY LegacyAssumption DEF Inv, LegacyTypeOK
<1>2. draft' = ApplyDraftEvent(draft, e) /\ intent' = intent /\ life' = life
  BY DEF HandleDraftEvent
<1>3. draft' \in Drafts /\ DraftSound(draft') /\ Numbered(draft')
  BY <1>1, <1>2, ReducerType, ReducerSound, NumberedKept
<1>4. /\ draft'.lastSeq >= draft.lastSeq /\ draft.lastSeq \in Nat /\ draft'.lastSeq \in Nat
      /\ \A b \in BoardSet : Known(b, draft) => Known(b, draft')
  BY <1>1, <1>2, <1>3, DraftAdvances, DraftFields
<1>5. TabSet' = TabSet /\ Messages' = Messages
  BY <1>2 DEF TabSet, Messages
<1>6. \A r \in requests' : RequestInv(r, draft', life')
  <2>1. \A r \in requests : r.seen \in BoardSet
    BY DEF Inv, LegacyTypeOK
  <2> QED
    BY <1>2, <1>4, <2>1 DEF Inv, RequestInv
<1>9. WorkForConnected'
  <2>1. work' \subseteq work \cup {[to |-> Everyone, seq |-> draft'.lastSeq, life |-> life]}
    BY DEF HandleDraftEvent
  <2>2. \A w \in work : w.to # Everyone => w.to \in Tabs /\ tabs[w.to].connected
    BY DEF Inv, LegacyTypeOK, WorkForConnected
  <2> QED
    BY <2>1, <2>2 DEF WorkForConnected
<1>7. CASE ~Accepts(draft, e)
  <2>1. draft' = draft /\ channel' = channel /\ work' = work
    BY <1>2, <1>7 DEF HandleDraftEvent, Pushed, ApplyDraftEvent
  <2>2. \A t \in Tabs : TabInv(tabs'[t], channel'[t], draft', life')
    BY <1>2, <2>1, TabsStay
  <2>3. LegacyTypeOK'
    BY <1>2, <1>3, <1>5, <2>1 DEF Inv, LegacyTypeOK
  <2> QED
    BY <1>2, <1>3, <1>6, <1>9, <2>1, <2>2, <2>3 DEF Inv
<1>8. CASE Accepts(draft, e)
  <2>1. PICK m : m = BoardMessage("draft_state", draft', life)
    OBVIOUS
  <2>2. m \in Messages
    BY <1>1, <1>3, <2>1, BoardType DEF Messages, BoardMessage, Boards
  <2>3. /\ Publish(m)
        /\ work' = work \cup {[to |-> Everyone, seq |-> draft'.lastSeq, life |-> life]}
    BY <1>8, <2>1 DEF HandleDraftEvent, Pushed
  <2>4. /\ channel' \in [Tabs -> Seq(Messages)]
        /\ \A t \in Tabs : /\ tabs[t].connected => channel'[t] = Append(channel[t], m)
                           /\ ~tabs[t].connected => channel'[t] = channel[t]
    BY <2>2, <2>3, Published DEF Inv
  <2>5. \A w \in work' : w.seq <= draft'.lastSeq
    <3>1. \A w \in work : w.seq \in Nat
      BY DEF Inv, LegacyTypeOK
    <3> QED
      BY <1>4, <2>3, <3>1 DEF Inv
  <2>6. ASSUME NEW t \in Tabs PROVE TabInv(tabs'[t], channel'[t], draft', life')
    <3>1. TabLike(tabs[t]) /\ channel[t] \in Seq(AnyMessage)
      BY TypeFacts DEF Inv
    <3>2. InOrder(tabs[t], channel[t], draft, life)
      BY DEF Inv, TabInv
    <3>3. CASE tabs[t].connected
      <4>1. TabInv(tabs[t], Append(channel[t], m), draft', life)
        <5>1. "draft_state" \in Boards
          BY DEF Boards
        <5> QED
          BY <1>1, <1>3, <1>4, <2>1, <3>1, <3>2, <5>1, BoardPushed
      <4>2. TabInv(tabs'[t], Append(channel[t], m), draft', life)
        BY <4>1, SameShown
      <4> QED
        BY <1>2, <2>4, <3>3, <4>2
    <3>4. CASE ~tabs[t].connected
      <4>1. channel'[t] = <<>> /\ ~tabs'[t].connected
        BY <2>4, <3>4 DEF Inv, LegacyTypeOK
      <4>2. InOrder(tabs'[t], <<>>, draft', life)
        BY <1>1, <1>3, <1>4, <3>1, <3>2, Emptied
      <4> QED
        BY <1>2, <4>1, <4>2 DEF TabInv
    <3> QED
      BY <3>3, <3>4
  <2>7. work' \subseteq [to : Tabs \cup {Everyone}, seq : Nat, life : {life}]
    BY <1>4, <2>3 DEF Inv, LegacyTypeOK
  <2>8. \A t \in Tabs : ~tabs'[t].connected => channel'[t] = <<>> /\ ~tabs'[t].owed
    BY <2>4 DEF Inv, LegacyTypeOK
  <2>9. LegacyTypeOK'
    BY <1>2, <1>3, <1>5, <2>4, <2>7, <2>8 DEF Inv, LegacyTypeOK
  <2> QED
    BY <1>3, <1>6, <1>9, <2>5, <2>6, <2>9 DEF Inv
<1> QED
  BY <1>7, <1>8

(* A bootstrap goes on or ends: nothing the tab shows changes.             *)
LEMMA BootSet ==
  ASSUME tabs \in [Tabs -> TabSet], NEW t \in Tabs, NEW v \in {"none", "posted", "answered"},
         tabs' = [tabs EXCEPT ![t].boot = v]
  PROVE  /\ tabs' \in [Tabs -> TabSet]
         /\ \A u \in Tabs : /\ tabs'[u].view = tabs[u].view /\ tabs'[u].tips = tabs[u].tips
                            /\ tabs'[u].connected = tabs[u].connected
                            /\ tabs'[u].owed = tabs[u].owed
<1>1. PICK n : n = [tabs[t] EXCEPT !.boot = v]
  OBVIOUS
<1>2. /\ n \in TabSet /\ n.view = tabs[t].view /\ n.tips = tabs[t].tips
      /\ n.connected = tabs[t].connected /\ n.owed = tabs[t].owed
  BY <1>1 DEF TabSet
<1>3. tabs' = [tabs EXCEPT ![t] = n]
  BY <1>1
<1> QED
  BY <1>2, <1>3

LEMMA HandleInv ==
  ASSUME Inv, NEW r \in requests, Handle(r)
  PROVE  Inv'
<1>1. r.event \in Events /\ r.tab \in Tabs
  BY DEF Inv, LegacyTypeOK
<1>2. /\ HandleDraftEvent(r.event) /\ requests' \subseteq requests /\ posted' = posted
      /\ tabs' = IF r.event.payload.type = "session_started"
                 THEN [tabs EXCEPT ![r.tab].boot = "answered"] ELSE tabs
  BY DEF Handle
<1>3. /\ tabs' \in [Tabs -> TabSet]
      /\ \A t \in Tabs : /\ tabs'[t].view = tabs[t].view /\ tabs'[t].tips = tabs[t].tips
                         /\ tabs'[t].connected = tabs[t].connected /\ tabs'[t].owed = tabs[t].owed
  <2>1. tabs \in [Tabs -> TabSet]
    BY DEF Inv, LegacyTypeOK
  <2> QED
    BY <1>1, <1>2, <2>1, BootSet
<1> QED
  BY <1>1, <1>2, <1>3, EventHandled

LEMMA IngestInv ==
  ASSUME Inv, NEW e \in ScriptEvents, Ingest(e)
  PROVE  Inv'
<1>1. tabs \in [Tabs -> TabSet]
  BY DEF Inv, LegacyTypeOK
<1> QED
  BY <1>1, EventHandled, LegacyAssumption DEF Ingest

LEMMA SuggestInv ==
  ASSUME Inv, NEW w \in work, Suggest(w)
  PROVE  Inv'
<1>1. PICK m : m = SuggestionsMessage(w)
  OBVIOUS
<1>2. /\ w.seq \in Nat /\ w.life = life /\ w.to \in Tabs \cup {Everyone} /\ life \in Nat
      /\ draft \in Drafts /\ w.seq <= draft.lastSeq
  BY LegacyAssumption DEF Inv, LegacyTypeOK
<1>3. m \in Messages
  BY <1>1, <1>2 DEF SuggestionsMessage, Messages
<1>4. UNCHANGED <<draft, intent, life, tabs, requests, posted>> /\ work' = work \ {w}
  BY DEF Suggest, server
<1>5. /\ channel' \in [Tabs -> Seq(Messages)]
      /\ \A t \in Tabs :
           \/ channel'[t] = channel[t]
           \/ tabs[t].connected /\ channel'[t] = Append(channel[t], m)
  <2>1. CASE w.to = Everyone
    <3>1. Publish(m)
      BY <1>1, <2>1 DEF Suggest
    <3> QED
      BY <1>3, <3>1, Published DEF Inv
  <2>2. CASE w.to # Everyone
    <3>1. w.to \in Tabs /\ channel' = [channel EXCEPT ![w.to] = Append(@, m)]
      BY <1>1, <1>2, <2>2 DEF Suggest
    <3>2. tabs[w.to].connected
      BY <2>2, <3>1 DEF Inv, WorkForConnected
    <3>3. \A t \in Tabs : channel[t] \in Seq(Messages)
      BY TypeFacts DEF Inv
    <3> QED
      BY <1>3, <3>1, <3>2, <3>3 DEF Inv, LegacyTypeOK
  <2> QED
    BY <2>1, <2>2
<1>6. ASSUME NEW t \in Tabs PROVE TabInv(tabs'[t], channel'[t], draft', life')
  <2>1. TabLike(tabs[t]) /\ channel[t] \in Seq(AnyMessage) /\ TabInv(tabs[t], channel[t], draft, life)
    BY TypeFacts DEF Inv
  <2>2. CASE channel'[t] = channel[t]
    BY <1>4, <2>1, <2>2
  <2>3. CASE tabs[t].connected /\ channel'[t] = Append(channel[t], m)
    <3>1. TabInv(tabs[t], Append(channel[t], m), draft, life)
      BY <1>1, <1>2, <2>1, <2>3, SuggestionsSent
    <3> QED
      BY <1>4, <2>3, <3>1
  <2> QED
    BY <1>5, <2>2, <2>3
<1>7. LegacyTypeOK'
  <2>1. Messages' = Messages /\ TabSet' = TabSet
    BY <1>4 DEF Messages, TabSet
  <2>2. \A t \in Tabs : ~tabs'[t].connected => channel'[t] = <<>> /\ ~tabs'[t].owed
    BY <1>4, <1>5 DEF Inv, LegacyTypeOK
  <2> QED
    BY <1>4, <1>5, <2>1, <2>2 DEF Inv, LegacyTypeOK
<1>8. \A r \in requests' : RequestInv(r, draft', life')
  BY <1>4 DEF Inv
<1> QED
  BY <1>4, <1>6, <1>7, <1>8 DEF Inv, WorkForConnected

(* No board moves: requests may be lost, and work grows only by what is    *)
(* computed for the draft.                                                 *)
LEMMA OnlyWork ==
  ASSUME Inv, UNCHANGED <<draft, life, channel, posted>>, requests' \subseteq requests,
         intent' \in Intents \cup {NoIntent},
         tabs' \in [Tabs -> TabSet],
         \A t \in Tabs : /\ tabs'[t].view = tabs[t].view /\ tabs'[t].tips = tabs[t].tips
                         /\ tabs'[t].connected = tabs[t].connected
                         /\ ~tabs'[t].connected => ~tabs'[t].owed,
         \/ work' \subseteq work
         \/ work' = work \cup {[to |-> Everyone, seq |-> draft.lastSeq, life |-> life]}
  PROVE  Inv'
<1>1. \A t \in Tabs : TabInv(tabs'[t], channel'[t], draft', life')
  BY TabsStay
<1>2. Messages' = Messages /\ TabSet' = TabSet
  BY DEF Messages, TabSet
<1>3. draft.lastSeq \in Nat
  BY DraftFields DEF Inv, LegacyTypeOK
<1>4. /\ work' \subseteq [to : Tabs \cup {Everyone}, seq : Nat, life : {life}]
      /\ \A w \in work' : w.seq <= draft.lastSeq
  BY <1>3 DEF Inv, LegacyTypeOK
<1>8. WorkForConnected'
  <2>1. \A w \in work : w.to # Everyone => w.to \in Tabs /\ tabs[w.to].connected
    BY DEF Inv, LegacyTypeOK, WorkForConnected
  <2> QED
    BY <2>1 DEF WorkForConnected
<1>5. \A t \in Tabs : ~tabs'[t].connected => channel'[t] = <<>> /\ ~tabs'[t].owed
  BY DEF Inv, LegacyTypeOK
<1>6. LegacyTypeOK'
  BY <1>2, <1>4, <1>5 DEF Inv, LegacyTypeOK
<1>7. \A r \in requests' : RequestInv(r, draft', life')
  BY DEF Inv
<1> QED
  BY <1>1, <1>4, <1>6, <1>7, <1>8 DEF Inv

LEMMA SuggestFailsInv ==
  ASSUME Inv, NEW w \in work, SuggestFails(w)
  PROVE  Inv'
<1>1. /\ tabs \in [Tabs -> TabSet] /\ intent \in Intents \cup {NoIntent}
      /\ \A t \in Tabs : ~tabs[t].connected => ~tabs[t].owed
  BY DEF Inv, LegacyTypeOK
<1> QED
  BY <1>1, OnlyWork DEF SuggestFails, server

LEMMA ChooseIntentInv ==
  ASSUME Inv, NEW t \in Tabs, NEW i \in Intents, ChooseIntent(t, i)
  PROVE  Inv'
<1>1. PICK n : n = [tabs[t] EXCEPT !.intent = i, !.owed = tabs[t].connected]
  OBVIOUS
<1>2. tabs \in [Tabs -> TabSet] /\ intent \in Intents \cup {NoIntent}
        /\ \A u \in Tabs : ~tabs[u].connected => ~tabs[u].owed
  BY DEF Inv, LegacyTypeOK
<1>3. /\ n \in TabSet /\ n.view = tabs[t].view /\ n.tips = tabs[t].tips
      /\ n.connected = tabs[t].connected /\ n.owed = tabs[t].connected
  BY <1>1, <1>2 DEF TabSet
<1>4. tabs' = [tabs EXCEPT ![t] = n]
  BY <1>1 DEF ChooseIntent
<1>5. /\ tabs' \in [Tabs -> TabSet]
      /\ \A u \in Tabs : /\ tabs'[u].view = tabs[u].view /\ tabs'[u].tips = tabs[u].tips
                         /\ tabs'[u].connected = tabs[u].connected
                         /\ ~tabs'[u].connected => ~tabs'[u].owed
  BY <1>2, <1>3, <1>4
<1>6. UNCHANGED <<draft, intent, life, channel, requests, work, posted>>
  BY DEF ChooseIntent, server
<1> QED
  BY <1>2, <1>5, <1>6, OnlyWork

LEMMA IntentArrivesInv ==
  ASSUME Inv, NEW t \in Tabs, IntentArrives(t)
  PROVE  Inv'
<1>1. PICK n : n = [tabs[t] EXCEPT !.owed = FALSE]
  OBVIOUS
<1>2. tabs \in [Tabs -> TabSet] /\ \A u \in Tabs : ~tabs[u].connected => ~tabs[u].owed
  BY DEF Inv, LegacyTypeOK
<1>3. /\ n \in TabSet /\ n.view = tabs[t].view /\ n.tips = tabs[t].tips
      /\ n.connected = tabs[t].connected /\ n.owed = FALSE
  BY <1>1, <1>2 DEF TabSet
<1>4. tabs' = [tabs EXCEPT ![t] = n]
  BY <1>1 DEF IntentArrives
<1>5. /\ tabs' \in [Tabs -> TabSet]
      /\ \A u \in Tabs : /\ tabs'[u].view = tabs[u].view /\ tabs'[u].tips = tabs[u].tips
                         /\ tabs'[u].connected = tabs[u].connected
                         /\ ~tabs'[u].connected => ~tabs'[u].owed
  BY <1>2, <1>3, <1>4
<1>6. /\ UNCHANGED <<draft, life, channel, requests, posted>>
      /\ work' = work \/ work' = work \cup {[to |-> Everyone, seq |-> draft.lastSeq, life |-> life]}
      /\ intent' \in Intents \cup {NoIntent}
  BY <1>2 DEF IntentArrives, TabSet
<1> QED
  BY <1>5, <1>6, OnlyWork

LEMMA AnswerLostInv ==
  ASSUME Inv, NEW t \in Tabs, AnswerLost(t)
  PROVE  Inv'
<1>1. tabs \in [Tabs -> TabSet] /\ intent \in Intents \cup {NoIntent}
        /\ \A u \in Tabs : ~tabs[u].connected => ~tabs[u].owed
  BY DEF Inv, LegacyTypeOK
<1>2. /\ tabs' \in [Tabs -> TabSet]
      /\ \A u \in Tabs : /\ tabs'[u].view = tabs[u].view /\ tabs'[u].tips = tabs[u].tips
                         /\ tabs'[u].connected = tabs[u].connected
                         /\ tabs'[u].owed = tabs[u].owed
  BY <1>1, BootSet DEF AnswerLost
<1>3. UNCHANGED <<draft, intent, life, channel, requests, work, posted>>
  BY DEF AnswerLost, server
<1> QED
  BY <1>1, <1>2, <1>3, OnlyWork

(* One tab takes a step of its own: its channel and what it shows change.  *)
LEMMA OneTab ==
  ASSUME Inv, NEW t \in Tabs, UNCHANGED <<draft, intent, life, requests, posted>>,
         NEW n \in TabSet, tabs' = [tabs EXCEPT ![t] = n],
         NEW c \in Seq(Messages), channel' = [channel EXCEPT ![t] = c],
         TabInv(n, c, draft, life),
         ~n.connected => c = <<>> /\ ~n.owed,
         n.connected \/ \A w \in work' : w.to # t,
         \/ work' \subseteq work
         \/ n.connected /\ work' = work \cup {[to |-> t, seq |-> draft.lastSeq, life |-> life]}
  PROVE  Inv'
<1>1. /\ tabs \in [Tabs -> TabSet] /\ channel \in [Tabs -> Seq(Messages)]
      /\ \A u \in Tabs : ~tabs[u].connected => channel[u] = <<>> /\ ~tabs[u].owed
      /\ \A u \in Tabs : TabInv(tabs[u], channel[u], draft, life)
  BY DEF Inv, LegacyTypeOK
<1>2. Messages' = Messages /\ TabSet' = TabSet
  BY DEF Messages, TabSet
<1>3. draft.lastSeq \in Nat
  BY DraftFields DEF Inv, LegacyTypeOK
<1>4. \A u \in Tabs : /\ u = t => tabs'[u] = n /\ channel'[u] = c
                      /\ u # t => tabs'[u] = tabs[u] /\ channel'[u] = channel[u]
  BY <1>1
<1>5. \A u \in Tabs : /\ TabInv(tabs'[u], channel'[u], draft', life')
                      /\ ~tabs'[u].connected => channel'[u] = <<>> /\ ~tabs'[u].owed
  BY <1>1, <1>4
<1>6. /\ work' \subseteq [to : Tabs \cup {Everyone}, seq : Nat, life : {life}]
      /\ \A w \in work' : w.seq <= draft.lastSeq
  BY <1>3 DEF Inv, LegacyTypeOK
<1>7. WorkForConnected'
  <2>1. \A w \in work : w.to # Everyone => w.to \in Tabs /\ tabs[w.to].connected
    BY DEF Inv, LegacyTypeOK, WorkForConnected
  <2> QED
    BY <1>4, <2>1 DEF WorkForConnected
<1>8. tabs' \in [Tabs -> TabSet] /\ channel' \in [Tabs -> Seq(Messages)]
  BY <1>1
<1>9. LegacyTypeOK'
  BY <1>2, <1>5, <1>6, <1>8 DEF Inv, LegacyTypeOK
<1>10. \A r \in requests' : RequestInv(r, draft', life')
  BY DEF Inv
<1> QED
  BY <1>5, <1>6, <1>7, <1>9, <1>10 DEF Inv

LEMMA ConnectInv ==
  ASSUME Inv, NEW t \in Tabs, Connect(t)
  PROVE  Inv'
<1>1. PICK n : n = [tabs[t] EXCEPT !.connected = TRUE, !.owed = tabs[t].intent # NoIntent]
  OBVIOUS
<1>2. /\ TabLike(tabs[t]) /\ tabs[t] \in TabSet /\ draft \in Drafts /\ life \in Nat
      /\ InOrder(tabs[t], channel[t], draft, life)
  BY TypeFacts DEF Inv, TabInv
<1>3. /\ n \in TabSet /\ TabLike(n) /\ n.connected
      /\ n.view = tabs[t].view /\ n.tips = tabs[t].tips
  BY <1>1, <1>2 DEF TabSet, TabLike
<1>4. TabInv(n, Greeting(draft, life), draft, life)
  BY <1>2, <1>3, Greeted
<1>5. Greeting(draft, life) \in Seq(Messages)
  <2>1. BoardMessage("snapshot", draft, life) \in Messages
    BY <1>2, BoardType DEF Messages, BoardMessage, Boards
  <2> QED
    BY <2>1 DEF Greeting
<1>6. /\ tabs' = [tabs EXCEPT ![t] = n]
      /\ channel' = [channel EXCEPT ![t] = Greeting(draft, life)]
      /\ work' = work \cup {[to |-> t, seq |-> draft.lastSeq, life |-> life]}
      /\ UNCHANGED <<draft, intent, life, requests, posted>>
  BY <1>1 DEF Connect, server
<1> QED
  BY <1>3, <1>4, <1>5, <1>6, OneTab

LEMMA CutShown ==
  ASSUME LegacyTypeOK, NEW t \in Tabs
  PROVE  /\ Cut(t) \in TabSet /\ Cut(t).connected = FALSE /\ Cut(t).owed = FALSE
         /\ Cut(t).view = tabs[t].view /\ Cut(t).tips = tabs[t].tips
<1>1. tabs[t] \in TabSet
  BY TypeFacts
<1> QED
  BY <1>1 DEF Cut, TabSet

LEMMA DisconnectInv ==
  ASSUME Inv, NEW t \in Tabs, Disconnect(t)
  PROVE  Inv'
<1>1. PICK n : n = Cut(t)
  OBVIOUS
<1>2. /\ TabLike(tabs[t]) /\ draft \in Drafts /\ life \in Nat
      /\ InOrder(tabs[t], channel[t], draft, life)
  BY TypeFacts DEF Inv, TabInv
<1>3. /\ n \in TabSet /\ n.connected = FALSE /\ n.owed = FALSE
      /\ n.view = tabs[t].view /\ n.tips = tabs[t].tips
  BY <1>1, CutShown DEF Inv
<1>4. TabInv(n, <<>>, draft, life)
  <2>1. InOrder(n, <<>>, draft, life)
    BY <1>2, <1>3, Emptied
  <2> QED
    BY <1>3, <2>1 DEF TabInv
<1>5. <<>> \in Seq(Messages)
  OBVIOUS
<1>6. /\ tabs' = [tabs EXCEPT ![t] = n]
      /\ channel' = [channel EXCEPT ![t] = <<>>]
      /\ work' \subseteq work /\ \A w \in work' : w.to # t
      /\ UNCHANGED <<draft, intent, life, requests, posted>>
  BY <1>1 DEF Disconnect, server
<1> QED
  BY <1>3, <1>4, <1>5, <1>6, OneTab

LEMMA ReceiveInv ==
  ASSUME Inv, NEW t \in Tabs, Receive(t)
  PROVE  Inv'
<1>1. PICK n : n = Shown(tabs[t], channel[t][1])
  OBVIOUS
<1>2. /\ TabLike(tabs[t]) /\ tabs[t] \in TabSet /\ draft \in Drafts /\ life \in Nat
      /\ channel[t] \in Seq(AnyMessage) /\ channel[t] \in Seq(Messages)
      /\ TabInv(tabs[t], channel[t], draft, life)
  BY TypeFacts DEF Inv
<1>3. channel[t] # <<>> /\ Head(channel[t]) = channel[t][1] /\ channel[t][1] \in Messages
        /\ Tail(channel[t]) \in Seq(Messages)
  BY <1>2 DEF Receive
<1>4. tabs[t].connected
  BY <1>3 DEF Inv, LegacyTypeOK
<1>5. n \in TabSet /\ n.connected = tabs[t].connected
  <2>1. CASE channel[t][1].type \in Boards
    <3>1. channel[t][1].board \in BoardSet /\ channel[t][1].life \in 0..life
      BY <1>3, <2>1 DEF Messages, Boards
    <3>2. PICK v : v = Show(tabs[t].view, channel[t][1])
      OBVIOUS
    <3>3. v \in [board : BoardSet, life : 0..life] /\ n = [tabs[t] EXCEPT !.view = v]
      BY <1>1, <2>1, <3>1, <3>2 DEF Show, Shown
    <3> QED
      BY <1>2, <3>3 DEF TabSet
  <2>2. CASE channel[t][1].type \notin Boards
    <3>1. channel[t][1].seq \in Nat /\ channel[t][1].life \in 0..life
      BY <1>3, <2>2 DEF Messages, Boards
    <3>2. PICK v : v = [seq |-> channel[t][1].seq, life |-> channel[t][1].life]
      OBVIOUS
    <3>3. v \in [seq : Nat, life : 0..life] /\ n = [tabs[t] EXCEPT !.tips = v]
      BY <1>1, <2>2, <3>1, <3>2 DEF Shown
    <3> QED
      BY <1>2, <3>3 DEF TabSet
  <2> QED
    BY <2>1, <2>2
<1>6. TabInv(n, Tail(channel[t]), draft, life)
  <2>1. TabInv(n, Shorter(channel[t]), draft, life)
    BY <1>1, <1>2, <1>3, <1>5, HeadShown
  <2> QED
    BY <2>1 DEF Shorter
<1>7. /\ tabs' = [tabs EXCEPT ![t] = n]
      /\ channel' = [channel EXCEPT ![t] = Tail(channel[t])]
      /\ work' = work /\ UNCHANGED <<draft, intent, life, requests, posted>>
  <2>1. tabs' = IF channel[t][1].type \in Boards
                THEN [tabs EXCEPT ![t].view = Show(@, channel[t][1])]
                ELSE [tabs EXCEPT ![t].tips =
                       [seq |-> channel[t][1].seq, life |-> channel[t][1].life]]
    BY <1>3 DEF Receive
  <2>2. tabs' = [tabs EXCEPT ![t] = n]
    BY <1>1, <2>1 DEF Shown
  <2> QED
    BY <2>2 DEF Receive, server
<1> QED
  BY <1>3, <1>4, <1>5, <1>6, <1>7, OneTab

LEMMA PostInv ==
  ASSUME Inv, NEW t \in Tabs, NEW n \in Nat, NEW payload \in Payloads, Post(t, n, payload),
         UNCHANGED <<draft, intent, life, channel, work>>,
         \/ n = tabs[t].view.board.lastSeq
         \/ payload.type = "session_started"
         \/ payload.type = "local_side_identified" /\ n = 1,
         tabs' \in [Tabs -> TabSet],
         \A u \in Tabs : /\ tabs'[u].view = tabs[u].view /\ tabs'[u].tips = tabs[u].tips
                         /\ tabs'[u].connected = tabs[u].connected
                         /\ tabs'[u].owed = tabs[u].owed
  PROVE  Inv'
<1>1. PICK r : r = [ tab |-> t, life |-> tabs[t].view.life, seen |-> tabs[t].view.board,
                     event |-> [eventId |-> posted + 1, seq |-> n + 1, sure |-> TRUE,
                                payload |-> payload] ]
  OBVIOUS
<1>2. posted' = posted + 1 /\ requests' = requests \cup {r} /\ posted < MaxPosts
  BY <1>1 DEF Post
<1>3. posted \in 0..MaxPosts /\ MaxPosts \in Nat
  BY LegacyAssumption DEF Inv, LegacyTypeOK
<1>4. posted' \in 0..MaxPosts /\ posted + 1 \in Nat
  BY <1>2, <1>3
<1>5. tabs[t].view.board \in BoardSet /\ tabs[t].view.life \in 0..life
  <2>1. tabs[t] \in TabSet
    BY TypeFacts DEF Inv
  <2> QED
    BY <2>1 DEF TabSet
<1>6. r \in [tab : Tabs, life : 0..life, seen : BoardSet, event : Events]
  BY <1>1, <1>4, <1>5 DEF Events
<1>7. RequestInv(r, draft, life)
  <2>1. ASSUME tabs[t].view.life = life PROVE Known(tabs[t].view.board, draft)
    <3>1. 0 \in Places(channel[t]) /\ BoardAt(tabs[t], channel[t], 0) = tabs[t].view
      BY DEF Places, BoardAt
    <3> QED
      BY <2>1, <3>1 DEF Inv, TabInv, InOrder, BoardsKnown
  <2> QED
    BY <1>1, <2>1 DEF RequestInv
<1>8. \A r2 \in requests' : RequestInv(r2, draft', life')
  BY <1>2, <1>7 DEF Inv
<1>9. \A u \in Tabs : TabInv(tabs'[u], channel'[u], draft', life')
  BY TabsStay
<1>10. LegacyTypeOK'
  <2>1. Messages' = Messages /\ TabSet' = TabSet
    BY DEF Messages, TabSet
  <2> QED
    BY <1>2, <1>4, <1>6, <2>1 DEF Inv, LegacyTypeOK
<1>11. WorkForConnected'
  <2>1. \A w \in work : w.to # Everyone => w.to \in Tabs /\ tabs[w.to].connected
    BY DEF Inv, LegacyTypeOK, WorkForConnected
  <2> QED
    BY <2>1 DEF WorkForConnected
<1> QED
  BY <1>8, <1>9, <1>10, <1>11 DEF Inv

LEMMA SubmitInv ==
  ASSUME Inv, NEW t \in Tabs, NEW payload \in Corrections, Submit(t, payload)
  PROVE  Inv'
<1>1. payload \in Payloads
  BY LegacyAssumption
<1>2. tabs \in [Tabs -> TabSet] /\ tabs[t] \in TabSet
  BY DEF Inv, LegacyTypeOK
<1>3. tabs[t].view.board.lastSeq \in Nat
  BY <1>2 DEF TabSet, BoardSet
<1> QED
  BY <1>1, <1>2, <1>3, PostInv DEF Submit, server

LEMMA BootstrapInv ==
  ASSUME Inv, NEW t \in Tabs, Bootstrap(t)
  PROVE  Inv'
<1>1. PICK payload : payload = [type |-> "session_started"]
  OBVIOUS
<1>2. payload \in Payloads /\ payload.type = "session_started"
  BY <1>1 DEF Payloads
<1>3. tabs \in [Tabs -> TabSet]
  BY DEF Inv, LegacyTypeOK
<1>4. /\ tabs' \in [Tabs -> TabSet]
      /\ \A u \in Tabs : /\ tabs'[u].view = tabs[u].view /\ tabs'[u].tips = tabs[u].tips
                         /\ tabs'[u].connected = tabs[u].connected
                         /\ tabs'[u].owed = tabs[u].owed
  BY <1>3, BootSet DEF Bootstrap
<1>5. Post(t, 0, payload) /\ UNCHANGED <<draft, intent, life, channel, work>>
  BY <1>1 DEF Bootstrap, server
<1> QED
  BY <1>2, <1>4, <1>5, PostInv

LEMMA BootstrapSideInv ==
  ASSUME Inv, NEW t \in Tabs, BootstrapSide(t)
  PROVE  Inv'
<1>1. PICK payload : payload = [type |-> "local_side_identified", side |-> "radiant"]
  OBVIOUS
<1>2. payload \in Payloads /\ payload.type = "local_side_identified"
  BY <1>1 DEF Payloads, Sides
<1>3. tabs \in [Tabs -> TabSet]
  BY DEF Inv, LegacyTypeOK
<1>4. /\ tabs' \in [Tabs -> TabSet]
      /\ \A u \in Tabs : /\ tabs'[u].view = tabs[u].view /\ tabs'[u].tips = tabs[u].tips
                         /\ tabs'[u].connected = tabs[u].connected
                         /\ tabs'[u].owed = tabs[u].owed
  BY <1>3, BootSet DEF BootstrapSide
<1>5. Post(t, 1, payload) /\ UNCHANGED <<draft, intent, life, channel, work>>
  BY <1>1 DEF BootstrapSide, server
<1> QED
  BY <1>2, <1>4, <1>5, PostInv

LEMMA RequestLostInv ==
  ASSUME Inv, NEW r \in requests, RequestLost(r)
  PROVE  Inv'
<1>1. /\ tabs \in [Tabs -> TabSet] /\ intent \in Intents \cup {NoIntent} /\ r.tab \in Tabs
      /\ \A u \in Tabs : ~tabs[u].connected => ~tabs[u].owed
  BY DEF Inv, LegacyTypeOK
<1>2. /\ tabs' \in [Tabs -> TabSet]
      /\ \A u \in Tabs : /\ tabs'[u].view = tabs[u].view /\ tabs'[u].tips = tabs[u].tips
                         /\ tabs'[u].connected = tabs[u].connected
                         /\ tabs'[u].owed = tabs[u].owed
  BY <1>1, BootSet DEF RequestLost
<1>3. UNCHANGED <<draft, intent, life, channel, work, posted>> /\ requests' \subseteq requests
  BY DEF RequestLost, server
<1> QED
  BY <1>1, <1>2, <1>3, OnlyWork

(* The entry is lost: every board there is belongs to an earlier life.     *)
LEMMA EntryLost ==
  ASSUME Inv, life < MaxLives, life' = life + 1, draft' = IdleDraft, intent' = NoIntent,
         posted' = posted, work' = {}, requests' = {},
         tabs' \in [Tabs -> TabSet], channel' \in [Tabs -> Seq(Messages)],
         \A t \in Tabs : ~tabs'[t].connected => channel'[t] = <<>> /\ ~tabs'[t].owed
  PROVE  Inv'
<1>1. life \in 0..MaxLives /\ MaxLives \in Nat /\ life \in Nat
  BY LegacyAssumption DEF Inv, LegacyTypeOK
<1>2. /\ life' \in 0..MaxLives /\ life' \in Nat /\ 0..life \subseteq 0..life'
      /\ \A l \in 0..life : l # life'
  BY <1>1
<1>3. Messages \subseteq Messages' /\ TabSet \subseteq TabSet'
  BY <1>2 DEF Messages, TabSet
<1>4. IdleDraft \in Drafts /\ DraftSound(IdleDraft) /\ Numbered(IdleDraft)
  <2>1. IdleDraft \in Drafts /\ Held(IdleDraft) = {} /\ IdleDraft.phase = "idle"
    BY DEF IdleDraft, Drafts, Held, Picked, Sides
  <2>2. Cardinality({}) = 0
    BY FS_EmptySet
  <2> QED
    BY <2>1, <2>2, ReducerAssumption DEF DraftSound, Numbered, IdleDraft, Picked, Held, Sides
<1>5. ASSUME NEW t \in Tabs PROVE TabInv(tabs'[t], channel'[t], draft', life')
  <2>1. tabs'[t] \in TabSet /\ channel'[t] \in Seq(Messages)
    OBVIOUS
  <2>2. PICK tab, messages : tab = tabs'[t] /\ messages = channel'[t]
    OBVIOUS
  <2>3. tab.tips.life \in 0..life /\ tab.view.life \in 0..life
    BY <2>1, <2>2 DEF TabSet
  <2>4. \A i \in DOMAIN messages : messages[i] \in Messages
    BY <2>1, <2>2
  <2>5. \A i \in DOMAIN messages : messages[i].life \in 0..life
    BY <2>4 DEF Messages
  <2>6. \A i \in Places(messages) : BoardAt(tab, messages, i).life \in 0..life
    BY <2>3, <2>5 DEF Places, BoardAt
  <2> QED
    BY <1>2, <2>2, <2>3, <2>5, <2>6, NewLife
<1>6. LegacyTypeOK'
  <2>1. tabs' \in [Tabs -> TabSet']
    BY <1>3
  <2>2. channel' \in [Tabs -> Seq(Messages')]
    BY <1>3
  <2>3. posted \in 0..MaxPosts
    BY DEF Inv, LegacyTypeOK
  <2> QED
    BY <1>2, <1>4, <2>1, <2>2, <2>3 DEF LegacyTypeOK
<1> QED
  BY <1>4, <1>5, <1>6 DEF Inv, WorkForConnected

LEMMA EvictInv ==
  ASSUME Inv, Evict
  PROVE  Inv'
BY EntryLost DEF Inv, LegacyTypeOK, Evict

LEMMA EngineRestartsInv ==
  ASSUME Inv, EngineRestarts
  PROVE  Inv'
<1>1. ASSUME NEW t \in Tabs PROVE tabs'[t] \in TabSet /\ ~tabs'[t].owed
  <2>1. PICK n : n = Cut(t)
    OBVIOUS
  <2>2. n \in TabSet /\ n.owed = FALSE
    BY <2>1, CutShown DEF Inv
  <2>3. tabs'[t] = [n EXCEPT !.boot = "none"]
    BY <2>1 DEF EngineRestarts
  <2> QED
    BY <2>2, <2>3 DEF TabSet
<1>2. tabs' \in [Tabs -> TabSet]
  <2>1. tabs' = [t \in Tabs |-> tabs'[t]]
    BY DEF EngineRestarts
  <2> QED
    BY <1>1, <2>1
<1>3. channel' \in [Tabs -> Seq(Messages)] /\ \A t \in Tabs : channel'[t] = <<>>
  BY DEF EngineRestarts
<1> QED
  BY <1>1, <1>2, <1>3, EntryLost DEF EngineRestarts

LEMMA InvPreserved == Inv /\ [Next]_vars => Inv'
<1> SUFFICES ASSUME Inv, [Next]_vars PROVE Inv'
  OBVIOUS
<1>1. CASE UNCHANGED vars
  <2>1. /\ UNCHANGED <<draft, life, channel, intent, posted, tabs, work, requests>>
    BY <1>1 DEF vars
  <2>2. /\ tabs \in [Tabs -> TabSet] /\ intent \in Intents \cup {NoIntent}
        /\ \A u \in Tabs : ~tabs[u].connected => ~tabs[u].owed
    BY DEF Inv, LegacyTypeOK
  <2> QED
    BY <2>1, <2>2, OnlyWork
<1>2. CASE Next
  BY <1>2, HandleInv, IngestInv, SuggestInv, SuggestFailsInv, ConnectInv, DisconnectInv,
     ChooseIntentInv, IntentArrivesInv, ReceiveInv, SubmitInv, BootstrapInv, BootstrapSideInv,
     RequestLostInv, AnswerLostInv, EvictInv, EngineRestartsInv DEF Next
<1> QED
  BY <1>1, <1>2

LEMMA InvAlways == Spec => []Inv
BY InitInv, InvPreserved, PTL DEF Spec

(* The draft the store keeps is always sound: no hero twice on the board,  *)
(* no side over its roster, no doubt about a hero that is gone; whoever    *)
(* posts, in whatever order, and however often the entry is lost.          *)
THEOREM LegacyTypeCorrect == Spec => []LegacyTypeOK
<1>1. Inv => LegacyTypeOK
  BY DEF Inv
<1> QED
  BY <1>1, InvAlways, PTL

(* When everything under way to a connected tab has arrived it shows the   *)
(* board of the store.                                                     *)
THEOREM BoardsFollow == Spec => []BoardFollowsStore
<1>1. Inv => BoardFollowsStore
  BY DEF Inv, TabInv, BoardFollowsStore, Connected
<1> QED
  BY <1>1, InvAlways, PTL

(* No tab is shown suggestions for a later board than the one it shows.    *)
THEOREM TipsNeverAhead == Spec => []SuggestionsNeverAhead
<1>1. Inv => SuggestionsNeverAhead
  BY DEF Inv, TabInv, InOrder, SuggestionsNeverAhead
<1> QED
  BY <1>1, InvAlways, PTL

(* An accepted event of a tab was aimed at a board that showed every hero: *)
(* its number is past the draft's only if its sender saw the latest, or    *)
(* saw what only corrections changed since.                                *)
LEMMA AimedWrite ==
  ASSUME Inv, NEW r \in requests, Accepts(draft, r.event),
         r.event.payload.type # "pick_reverted", r.life = life
  PROVE  Covers(r.seen, draft)
<1>1. /\ r.event \in Events /\ r.seen \in BoardSet /\ draft \in Drafts
      /\ Numbered(draft) /\ RequestInv(r, draft, life)
  BY DEF Inv, LegacyTypeOK
<1>2. /\ r.event.seq > draft.lastSeq /\ draft.lastSeq \in Nat /\ r.event.seq \in Nat
      /\ r.seen.lastSeq \in Nat
      /\ r.event.payload.type = "session_started" => draft.phase = "idle"
  BY <1>1, AcceptedNumbers, DraftFields DEF Events, BoardSet
<1>3. CASE r.event.seq = r.seen.lastSeq + 1
  BY <1>1, <1>2, <1>3 DEF RequestInv, Known
<1>4. CASE Held(draft) = {}
  <2>1. draft.banned = {} /\ \A s \in Sides : draft.picks[s] = {}
    BY <1>4 DEF Held, Picked, Sides
  <2> QED
    BY <2>1 DEF Covers
<1>5. CASE r.event.payload.type = "session_started"
  BY <1>1, <1>2, <1>4, <1>5 DEF Numbered
<1>6. CASE r.event.payload.type = "local_side_identified" /\ r.event.seq = 2
  BY <1>1, <1>2, <1>4, <1>6 DEF Numbered
<1> QED
  BY <1>1, <1>3, <1>5, <1>6 DEF RequestInv

(* An event of a tab takes effect on a draft with a hero its sender had    *)
(* not seen only if it is a correction, or its sender's board was of an    *)
(* entry lost since.                                                       *)
THEOREM BlindWritesAfterLoss == Spec => BlindOnlyAfterLoss
<1>1. Inv /\ [Next]_vars =>
        [\A r \in requests :
           Handle(r) /\ Accepts(draft, r.event) /\ ~Covers(r.seen, draft)
           => r.event.payload.type = "pick_reverted" \/ r.life < life]_vars
  <2>1. SUFFICES ASSUME Inv, NEW r \in requests, Accepts(draft, r.event),
                        ~Covers(r.seen, draft), r.event.payload.type # "pick_reverted"
                 PROVE  r.life < life
    OBVIOUS
  <2>2. r.life \in 0..life /\ life \in Nat
    BY <2>1 DEF Inv, LegacyTypeOK
  <2>3. r.life # life
    BY <2>1, AimedWrite
  <2> QED
    BY <2>2, <2>3
<1> QED
  BY <1>1, InvAlways, PTL DEF Spec, BlindOnlyAfterLoss
=============================================================================
