--------------------------- MODULE MCCaptainsMode ---------------------------
(* A small instance of CaptainsMode: a sequence with both actors banning   *)
(* and picking, two turns of one actor in a row, as the real one has, and  *)
(* bans between picks; two snapshots, so that a hero already held may be   *)
(* gone from the one in force.                                             *)
EXTENDS CaptainsMode

ShortSequence ==
  << Ban("first"), Ban("second"), Pick("first"), Pick("second"),
     Ban("first"), Pick("second"), Pick("first") >>

PatchSnapshots == {1..5, 3..6}

(* The real sequence gives both sides five picks and seven bans.           *)
ASSUME CanonicalIsFair ==
  \A actor \in Actors :
    /\ Cardinality({i \in 1..24 : CANONICAL_SEQUENCE[i] = Pick(actor)}) = 5
    /\ Cardinality({i \in 1..24 : CANONICAL_SEQUENCE[i] = Ban(actor)}) = 7
=============================================================================
