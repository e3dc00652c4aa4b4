----------------------------- MODULE KernelLog -----------------------------
(***************************************************************************)
(* The event log of the draft protocol kernel (applyProtocolCommand and    *)
(* canonicalEventLogAfterAcceptance in draft-protocol/kernel.ts): every    *)
(* accepted command is appended, and when a sealed batch closes the        *)
(* commands of that batch alone are put in a canonical order. The log is   *)
(* what a draft is rebuilt from (replayProtocolState) and what the         *)
(* authoritative hashes are taken over. The draft itself is ApDraft.       *)
(***************************************************************************)
EXTENDS ApDraft, SequencesExt

VARIABLE log  \* the accepted commands; an event's ordinal is its index less one

----------------------------------------------------------------------------
(* Commands as values                                                      *)

BansCommand(heroes) == [type |-> "RESOLVED_BANS", heroes |-> heroes]
CompleteCommand == [type |-> "BAN_RESOLUTION_COMPLETE"]
SealedCommand(slot, h) == [type |-> "SUBMIT_SEALED_SELECTION", slot |-> slot, heroId |-> h]
ResolutionCommand(h, winner) ==
  [type |-> "APPLY_AUTHORITATIVE_COLLISION_RESOLUTION", heroId |-> h, winner |-> winner]

Accepts(d, c) ==
  CASE c.type = "RESOLVED_BANS" -> AcceptsResolvedBans(d, c.heroes)
    [] c.type = "BAN_RESOLUTION_COMPLETE" -> AcceptsBanResolutionComplete(d)
    [] c.type = "SUBMIT_SEALED_SELECTION" -> AcceptsSealedSelection(d, c.slot, c.heroId)
    [] OTHER -> AcceptsResolution(d, c.heroId, c.winner)

(* applyRankedAllPickCommand, of a command the draft accepts.              *)
Apply(d, c) ==
  CASE c.type = "RESOLVED_BANS" -> RecordResolvedBans(d, c.heroes)
    [] c.type = "BAN_RESOLUTION_COMPLETE" -> BanResolutionComplete(d)
    [] c.type = "SUBMIT_SEALED_SELECTION" -> SubmitSealedSelection(d, c.slot, c.heroId)
    [] OTHER -> ApplyAuthoritativeResolution(d, c.heroId, c.winner)

----------------------------------------------------------------------------
(* The canonical log                                                       *)

(* The order of a batch: "dire" < "radiant", then slot index and hero id.  *)
Before(b, c) ==
  \/ b.slot.side = "dire" /\ c.slot.side = "radiant"
  \/ /\ b.slot.side = c.slot.side
     /\ \/ b.slot.slotIndex < c.slot.slotIndex
        \/ b.slot.slotIndex = c.slot.slotIndex /\ b.heroId < c.heroId

(* Mutant: a batch is left in order of arrival.                            *)
AsArrived(batch) == batch

(* The commands of a batch sorted: each has its place by how many come     *)
(* before it. No two are alike, since each seals a slot of its own.        *)
Canonical(batch) ==
  LET rank(c) == Cardinality({b \in ToSet(batch) : Before(b, c)})
  IN [n \in DOMAIN batch |-> CHOOSE c \in ToSet(batch) : rank(c) = n - 1]

(* Mutant: the slots of the round are counted, not those of the batch.     *)
RoundSize(d) == Cardinality(Slots(d.round))

(* The commands of the batch a command closes, itself included.            *)
BatchSize(d) == Cardinality(d.sealed) + 1

(* canonicalEventLogAfterAcceptance                                        *)
LogWith(d, l, c) ==
  LET appended == Append(l, c)
      prefixLength == Len(appended) - BatchSize(d)
  IN IF c.type = "SUBMIT_SEALED_SELECTION" /\ d.round # 0 /\ Cardinality(d.openSlots) = 1
     THEN SubSeq(appended, 1, prefixLength)
          \o Canonical(SubSeq(appended, prefixLength + 1, Len(appended)))
     ELSE appended

(* applyProtocolCommand: a rejected command leaves draft and log alone.    *)
ApplyProtocolCommand(state, c) ==
  IF Accepts(state.draft, c)
  THEN [draft |-> Apply(state.draft, c), log |-> LogWith(state.draft, state.log, c)]
  ELSE state

(* replayProtocolState: the commands one by one, from a new draft.         *)
Replay(commands) ==
  LET after[n \in 0..Len(commands)] ==
        IF n = 0 THEN [draft |-> NewDraft, log |-> <<>>]
        ELSE ApplyProtocolCommand(after[n - 1], commands[n])
  IN after[Len(commands)]

----------------------------------------------------------------------------

LogInit == Init /\ log = <<>>

Logging(c) == log' = LogWith(draft, log, c)

(* Bound: an empty list of bans, which the kernel accepts and logs but     *)
(* which changes nothing, is not sent here, or the log would never end.    *)
LogNext ==
  \/ \E heroes \in SUBSET Heroes \ {{}} : ResolvedBans(heroes) /\ Logging(BansCommand(heroes))
  \/ BansComplete /\ Logging(CompleteCommand)
  \/ \E slot \in AllSlots, h \in Heroes : Submit(slot, h) /\ Logging(SealedCommand(slot, h))
  \/ \E slot \in AllSlots, h \in Heroes : Arbitrate(h, slot) /\ Logging(ResolutionCommand(h, slot))

LogSpec == LogInit /\ [][LogNext]_<<draft, log>>

----------------------------------------------------------------------------
(* Safety                                                                  *)

(* A draft is rebuilt from its log: replaying it, in an order the commands *)
(* were not sent in, gives the same draft and the same log again, and no   *)
(* command of it is refused on the way (kernel.ts:569-574).                *)
ReplayRebuilds ==
  /\ Replay(log) = [draft |-> draft, log |-> log]
  /\ \A i \in 1..Len(log) : Accepts(Replay(SubSeq(log, 1, i - 1)).draft, log[i])

(* The log with the open batch's commands in the order p.                  *)
Rearranged(p) ==
  LET prefix == SubSeq(log, 1, Len(log) - Cardinality(draft.sealed)) IN
  prefix \o [i \in 1..Cardinality(draft.sealed) |-> log[Len(prefix) + p[i]]]

(* Simultaneous selections leave no trace of who sealed first: had the     *)
(* commands of the open batch arrived in any other order, the draft would  *)
(* be the one it is, and whichever command closes the batch would leave    *)
(* the same draft and the same log (kernel.ts:502-503).                    *)
ArrivalLeavesNoTrace ==
  (draft.round # 0 /\ draft.pendingCollision = NoHero) =>
    \A p \in Bijection(1..Cardinality(draft.sealed), 1..Cardinality(draft.sealed)) :
      LET other == Replay(Rearranged(p)) IN
      /\ other.draft = draft
      /\ Cardinality(draft.openSlots) = 1 =>
           \A slot \in draft.openSlots, h \in Heroes :
             Accepts(draft, SealedCommand(slot, h)) =>
               ApplyProtocolCommand(other, SealedCommand(slot, h)) =
                 ApplyProtocolCommand([draft |-> draft, log |-> log], SealedCommand(slot, h))
=============================================================================
