----------------------------- MODULE MCWebChat -----------------------------
(***************************************************************************)
(* Instances of WebChat for TLC.                                           *)
(***************************************************************************)
EXTENDS WebChat, TLC

CONSTANTS s1, s2, s3, c1, c2

StreamSymmetry == Permutations(Streams)
=============================================================================
