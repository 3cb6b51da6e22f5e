---------------------------- MODULE MCDraftWorld ----------------------------
(* Three runs, two requests that build and two loader threads: one run to be *)
(* copied while another is created and a third is loaded.                    *)
EXTENDS DraftWorld, TLC

MCSymmetry == Permutations(Run) \cup Permutations(Request) \cup Permutations(Loader)
=============================================================================
