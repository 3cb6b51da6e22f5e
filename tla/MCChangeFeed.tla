---------------------------- MODULE MCChangeFeed ----------------------------
(* Each kind of edit alone, and the pairs that treat the rows differently.  *)
EXTENDS ChangeFeed, FiniteSets

MCEdits == {{k} : k \in Edit} \cup
  {{}, {"fields", "price"}, {"fields", "certificate"}, {"fields", "oldslug"},
   {"price", "related"}, {"link", "related"}, {"members", "oldslug"}}

\* The states TLC goes on from: the draft version differs in two parts at most.
MCBound == Cardinality(ahead) <= 2
===========================================================================
