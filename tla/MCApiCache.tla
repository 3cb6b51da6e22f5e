---------------------------- MODULE MCApiCache ----------------------------
(* Two GET requests against one writer of each kind, or fewer.             *)
EXTENDS ApiCache, TLC

CONSTANTS r1, r2, request, command, refresh

MCReader        == {r1, r2}
MCTransactional == {request}
MCAutocommit    == {command}
MCLoader        == {refresh}
NoWriter        == {}
Symmetry        == Permutations(MCReader)
===========================================================================
