--------------------------- MODULE DraftPromise ---------------------------
(***************************************************************************)
(* What a draft promises the ten people in it, with none of the machinery  *)
(* of sealed batches, collisions, authorities and turns:                   *)
(*                                                                         *)
(*   - a hero leaves the pool at most once, for good, as a ban or as the   *)
(*     pick of one seat;                                                   *)
(*   - a seat is given at most one hero, for good;                         *)
(*   - seats are given out round by round, and nobody is given a seat of   *)
(*     a round while a seat of an earlier round is empty.                  *)
(*                                                                         *)
(* ApDraft, ApSimulatorSession and CaptainsMode implement it.              *)
(***************************************************************************)
EXTENDS Integers

CONSTANTS
  Heroes,     \* every hero of the game
  Seats       \* the seats to fill: records [side, round, slotIndex]

VARIABLES
  banned,     \* the heroes out of the pool
  picks       \* the seats given: records [side, round, slotIndex, heroId]

SeatOf(p) == [side |-> p.side, round |-> p.round, slotIndex |-> p.slotIndex]

Taken == banned \cup {p.heroId : p \in picks}
Filled == {SeatOf(p) : p \in picks}

Init ==
  /\ banned = {}
  /\ picks = {}

(* One step of a draft: some free heroes leave the pool, some of them to   *)
(* an empty seat of the earliest round that still has one.                 *)
Settle ==
  LET newBans  == banned' \ banned
      newPicks == picks' \ picks
  IN /\ banned \subseteq banned'
     /\ picks \subseteq picks'
     /\ newBans \subseteq Heroes \ Taken
     /\ \A p \in newPicks :
          /\ SeatOf(p) \in Seats \ Filled
          /\ p.heroId \in (Heroes \ Taken) \ newBans
          /\ \A s \in Seats : s.round < p.round => s \in Filled
     /\ \A p, q \in newPicks :
          (p.heroId = q.heroId \/ SeatOf(p) = SeatOf(q)) => p = q

vars == <<banned, picks>>

Spec == Init /\ [][Settle]_vars
=============================================================================
