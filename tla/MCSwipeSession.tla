--------------------------- MODULE MCSwipeSession ---------------------------
(***************************************************************************)
(* SwipeSession on small decks.                                            *)
(***************************************************************************)
EXTENDS SwipeSession

MCFingerprint == [i \in 1 .. Total |-> i]
=============================================================================
