------------------------------ MODULE ApDraft ------------------------------
(***************************************************************************)
(* The kernel driving one Ranked All Pick draft: applyProtocolCommand as   *)
(* the only way the draft changes, one action per command, any accepted    *)
(* command at any time. Who sends the commands is left open: players,      *)
(* bots and the session store are all members of the environment here.     *)
(***************************************************************************)
EXTENDS SoundDraft

CONSTANT MaxBans  \* bound: heroes recorded as banned before the first round

VARIABLE draft

Init == draft = NewDraft

ResolvedBans(heroes) ==
  /\ AcceptsResolvedBans(draft, heroes)
  /\ Cardinality(draft.bannedHeroes \cup heroes) <= MaxBans
  /\ draft' = RecordResolvedBans(draft, heroes)

BansComplete ==
  /\ AcceptsBanResolutionComplete(draft)
  /\ draft' = BanResolutionComplete(draft)

Submit(slot, h) ==
  /\ AcceptsSealedSelection(draft, slot, h)
  /\ draft' = SubmitSealedSelection(draft, slot, h)

Arbitrate(h, winner) ==
  /\ AcceptsResolution(draft, h, winner)
  /\ draft' = ApplyAuthoritativeResolution(draft, h, winner)

Next ==
  \/ \E heroes \in SUBSET Heroes : ResolvedBans(heroes)
  \/ BansComplete
  \/ \E slot \in AllSlots, h \in Heroes : Submit(slot, h)
  \/ \E slot \in AllSlots, h \in Heroes : Arbitrate(h, slot)

Spec == Init /\ [][Next]_draft

----------------------------------------------------------------------------
(* Safety. What the invariants say of a draft is defined in SoundDraft.    *)

(* The draft stays within its declared shape (types.ts, RankedApState).    *)
TypeOK == draft \in Drafts

(* No hero is held twice: a banned hero is nobody's pick, a hero is picked *)
(* for one seat only, and a hero sealed in the current batch is neither    *)
(* banned nor picked, nor sealed twice by one side. Legality is checked    *)
(* when a hero is sealed and batches are resolved later: nothing in        *)
(* resolveRound checks it again.                                           *)
HeroHeldOnce == HeldOnce(draft)

(* Every slot of the round in play is exactly one of open, sealed and      *)
(* confirmed; every slot of an earlier round is confirmed and none of a    *)
(* later one is; no seat is given twice. A slot resolveRound lost or       *)
(* reopened by mistake would leave a team short, or give a seat twice.     *)
SlotsConserved == Conserved(draft)

(* The statuses clients act on agree with the batch: the kernel waits for  *)
(* an authority exactly while a collision is pending, it is pending only   *)
(* on a hero both sides have sealed and no authority has settled, and no   *)
(* slot is open meanwhile; otherwise a round in play has an open slot, so  *)
(* that some command can always move the draft on.                         *)
WaitsExactlyWhenContested == WaitsRightly(draft)

(* The oracle clients are shown agrees with the kernel, and resolveRound's *)
(* failure branches are dead: every selection isSealedSelectionLegal calls *)
(* legal, which looks at neither the pending collision nor the batch it    *)
(* closes, is accepted; and so is either contender as the winner of the    *)
(* pending collision. COLLISION_ORDER_UNAVAILABLE never answers them.      *)
LegalIsAccepted ==
  /\ \A slot \in LegalGameplayActions(draft), h \in Heroes :
       IsSealedSelectionLegal(draft, slot, h) => AcceptsSealedSelection(draft, slot, h)
  /\ draft.pendingCollision # NoHero =>
       \A e \in Entries(draft, draft.pendingCollision) :
         AcceptsResolution(draft, draft.pendingCollision, SlotOf(e))

(* A batch is never split by the ban threshold: with at most two slots per *)
(* side its collisions are all banned or all contested. So while the       *)
(* kernel waits for an authority it holds back no ban, and the collisions  *)
(* counted when a batch is resolved again are the ones counted first.      *)
BatchNeverSplit ==
  /\ draft.pendingCollision # NoHero => CollisionBans(draft) = {}
  /\ draft.collisionsResolved = 1 =>
       \A side \in Sides :
         Cardinality({s \in draft.openSlots \cup SlotsOf(draft.sealed) : s.side = side}) = 1

(* From the third collision of a round on, a collision gives a seat away,  *)
(* so simultaneous picks cannot reopen a round for ever.                   *)
ContestsGiveSeats ==
  draft.round # 0 =>
    Cardinality(ConfirmedSlots(draft, draft.round)) >= draft.collisionsResolved - 2

(* Hidden twins: while the batch is open, neither what a side is shown nor *)
(* what it is told is legal depends on which hero the other side sealed.   *)
(* Swapping one sealed hero of the other side for any other it could have  *)
(* sealed leaves both unchanged (INV-LEAK-001 of docs/product).            *)
SealedPicksStayHidden ==
  \A e \in draft.sealed, h \in Heroes, viewer \in Sides :
    LET twin == [draft EXCEPT !.sealed = (@ \ {e}) \cup {[e EXCEPT !.heroId = h]}]
    IN (/\ draft.pendingCollision = NoHero
        /\ viewer # e.side
        /\ ~\E f \in draft.sealed : f.side = e.side /\ f.heroId = h)
       => /\ Project(twin, viewer) = Project(draft, viewer)
          /\ \A slot \in {s \in draft.openSlots : s.side = viewer}, g \in Heroes :
               IsSealedSelectionLegal(twin, slot, g) = IsSealedSelectionLegal(draft, slot, g)

(* project's comments promise that nothing sealed and not yet revealed is  *)
(* exposed to a viewer who has not sealed it (perspective.ts:4-10, 41).    *)
HiddenHeroNeverShown ==
  \A viewer \in Sides \cup {Neutral} :
    LET view == Project(draft, viewer)
        hidden == {e \in draft.sealed : e.side # viewer}
    IN HeroesOf(hidden) \cap (view.named \cup HeroesOf(view.enemyPicks)) = {}

----------------------------------------------------------------------------
(* What the draft promises                                                 *)

Promise == INSTANCE DraftPromise
             WITH banned <- draft.bannedHeroes, picks <- draft.confirmedPicks

(* Every command of the kernel is a step of DraftPromise or changes        *)
(* nothing a player was promised: a ban or a pick is final, a hero leaves  *)
(* the pool once, and seats are given out round by round.                  *)
KeepsPromise == Promise!Spec

----------------------------------------------------------------------------
(* The inductive invariant of the proofs (KernelProofs).                   *)

(* Holds of every reachable draft; the invariants above are its parts.     *)
IInv == Sound(draft)
=============================================================================
