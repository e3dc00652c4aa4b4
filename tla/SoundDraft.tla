----------------------------- MODULE SoundDraft -----------------------------
(***************************************************************************)
(* What is true of every Ranked All Pick draft between two commands of the *)
(* kernel, as predicates on a draft, so that they can be said of the draft *)
(* of any state machine built on RankedAllPick and of the drafts inside a  *)
(* step. ApDraft states its invariants with them; SoundDraftProofs proves  *)
(* that every command keeps them.                                          *)
(***************************************************************************)
EXTENDS RankedAllPick

(* No hero is banned and picked, or picked for two seats, or sealed while  *)
(* it is either, or sealed twice by one side.                              *)
HeldOnce(d) ==
  /\ d.bannedHeroes \cap HeroesOf(d.confirmedPicks) = {}
  /\ \A p, q \in d.confirmedPicks : p.heroId = q.heroId => p = q
  /\ \A e \in d.sealed : ~HeroAlreadyTaken(d, e.heroId)
  /\ \A e, f \in d.sealed : (e.side = f.side /\ e.heroId = f.heroId) => e = f

(* The slots of a round that are already confirmed.                        *)
ConfirmedSlots(d, r) == SlotsOf({p \in d.confirmedPicks : p.round = r})

(* The slots of the round in play are each open, sealed or confirmed, those*)
(* of earlier rounds confirmed, those of later rounds not.                 *)
Conserved(d) ==
  /\ d.round = IF d.phase \in Rounds THEN d.phase ELSE 0
  /\ d.round # 0 =>
       /\ d.openSlots \cup SlotsOf(d.sealed) \cup ConfirmedSlots(d, d.round) = Slots(d.round)
       /\ d.openSlots \cap SlotsOf(d.sealed) = {}
       /\ d.openSlots \cap ConfirmedSlots(d, d.round) = {}
       /\ SlotsOf(d.sealed) \cap ConfirmedSlots(d, d.round) = {}
  /\ \A r \in Rounds :
       /\ r < d.phase => ConfirmedSlots(d, r) = Slots(r)
       /\ r > d.phase => ConfirmedSlots(d, r) = {}
  /\ \A p, q \in d.confirmedPicks : (p.round = q.round /\ SlotOf(p) = SlotOf(q)) => p = q
  /\ \A e, f \in d.sealed : SlotOf(e) = SlotOf(f) => e = f

(* The status agrees with the batch: an authority is awaited about a hero  *)
(* both sides have sealed, and else a round in play has an open slot.      *)
WaitsRightly(d) ==
  /\ (d.status = "WAITING_FOR_COLLISION_AUTHORITY") <=> (d.pendingCollision # NoHero)
  /\ (d.status = "COMPLETE") <=> (d.phase = COMPLETE)
  /\ d.pendingCollision # NoHero =>
       /\ d.openSlots = {}
       /\ d.pendingCollision \in Unresolved(d)
       /\ {e.side : e \in Entries(d, d.pendingCollision)} = Sides
  /\ (d.round # 0 /\ d.pendingCollision = NoHero) => d.openSlots # {}

(* An authority names one winner per hero, one of the two who sealed it.   *)
AuthorityFunctional(d) ==
  /\ \A a, b \in d.authorityResolutions : a.heroId = b.heroId => a = b
  /\ \A a \in d.authorityResolutions : a.winner \in SlotsOf(Entries(d, a.heroId))

(* The conjunction of the above with the shape of a draft; nothing is left *)
(* of a round that is over.                                                *)
Sound(d) ==
  /\ d \in Drafts
  /\ HeldOnce(d)
  /\ Conserved(d)
  /\ WaitsRightly(d)
  /\ AuthorityFunctional(d)
  /\ d.pendingCollision = NoHero => d.authorityResolutions = {}
  /\ d.round = 0 => d.openSlots = {} /\ d.sealed = {} /\ d.pendingCollision = NoHero
=============================================================================
