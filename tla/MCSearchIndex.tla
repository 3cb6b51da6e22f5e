--------------------------- MODULE MCSearchIndex ---------------------------
(* An instance of SearchIndex for TLC. *)
EXTENDS SearchIndex

CONSTANTS j1, j2

MCJob       == {j1, j2}
MCUnchecked == {j2}
===========================================================================
