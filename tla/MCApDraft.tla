----------------------------- MODULE MCApDraft -----------------------------
(* A small instance of ApDraft: two rounds, of two slots per side and of   *)
(* one, as rounds 2 and 3 of the code.                                     *)
EXTENDS ApDraft

TwoRounds == <<2, 1>>

(* One round of two slots per side, as round 1 of the code.                *)
OneRound == <<2>>
=============================================================================
