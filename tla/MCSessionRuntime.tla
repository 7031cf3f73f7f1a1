--------------------------- MODULE MCSessionRuntime ---------------------------
(* SessionRuntime for TLC.  Messages are interchangeable: no definition of  *)
(* the model tells two of them apart, so the runs that check no liveness    *)
(* take them up to permutation.                                             *)
EXTENDS SessionRuntimeInv, TLC

AnyMessage == Permutations(Msgs)
=============================================================================
