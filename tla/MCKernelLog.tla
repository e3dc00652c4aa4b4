---------------------------- MODULE MCKernelLog ----------------------------
(* A small instance of KernelLog: one round of two slots per side.         *)
EXTENDS KernelLog

OneRound == <<2>>
=============================================================================
