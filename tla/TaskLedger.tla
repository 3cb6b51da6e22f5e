----------------------------- MODULE TaskLedger -----------------------------
(***************************************************************************)
(* What a bulk operation promises to the user who uploads a file: it is    *)
(* taken up at most once, by one worker, and its outcome is final.  If the *)
(* worker dies nobody else takes over, and there is no outcome.            *)
(* Ingestion implements this.                                              *)
(***************************************************************************)
CONSTANT Task

VARIABLES
  state,    \* what the user is shown of each operation
  busy      \* the operations some worker is busy with

ledger == <<state, busy>>

Init ==
  /\ state = [t \in Task |-> "absent"]
  /\ busy = {}

Moves(t, from, to) ==
  /\ state[t] = from
  /\ state' = [state EXCEPT ![t] = to]

Accept(t) == Moves(t, "absent", "pending") /\ UNCHANGED busy

Take(t) == Moves(t, "pending", "processing") /\ busy' = busy \cup {t}

\* The file is not usable.
Reject(t) == Moves(t, "pending", "failed") /\ UNCHANGED busy

Finish(t, outcome) ==
  /\ t \in busy
  /\ Moves(t, "processing", outcome)
  /\ busy' = busy \ {t}

\* The worker dies.
Abandon(t) ==
  /\ t \in busy
  /\ busy' = busy \ {t}
  /\ UNCHANGED state

Next ==
  \E t \in Task :
    \/ Accept(t) \/ Take(t) \/ Reject(t) \/ Abandon(t)
    \/ \E outcome \in {"completed", "failed"} : Finish(t, outcome)

Spec == Init /\ [][Next]_ledger
=============================================================================
