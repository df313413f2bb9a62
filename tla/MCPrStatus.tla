---------------------------- MODULE MCPrStatus ----------------------------
(***************************************************************************)
(* PrStatus on small instances.  A PR is a number (the id of its row); the *)
(* first PR has an installation of its own, the others share one.          *)
(***************************************************************************)
EXTENDS PrStatus

CONSTANTS N, FirstReadable

MCPRs == 1 .. N
MCInstallationOf == [p \in 1 .. N |-> IF p = 1 THEN 1 ELSE 2]
MCReadable == FirstReadable .. N
=============================================================================
