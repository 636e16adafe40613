--------------------------- MODULE MCAuthSessions ---------------------------
(***************************************************************************)
(* Instances of AuthSessions for TLC.                                      *)
(***************************************************************************)
EXTENDS AuthSessions, TLC

CONSTANTS k1, k2, k3, k4, e1

CallSymmetry == Permutations(Calls)
=============================================================================
