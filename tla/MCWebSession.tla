---------------------------- MODULE MCWebSession ----------------------------
(***************************************************************************)
(* WebSession with a few requests in flight, which are interchangeable.    *)
(***************************************************************************)
EXTENDS WebSession, TLC

RequestSymmetry == Permutations(Requests)
=============================================================================
