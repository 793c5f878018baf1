----------------------------- MODULE RunStatus -----------------------------
(***************************************************************************)
(* The status graph of a run (crates/agent-core/src/run_state.rs) and the   *)
(* abstract promise the daemon makes with it: the status a client can read  *)
(* moves only along the edges of the graph until the daemon restarts, and   *)
(* after a restart every run a client can read is settled.                  *)
(***************************************************************************)

Statuses == {"created", "queued", "preparing", "running", "waiting_permission",
             "waiting_subagent", "cancelling",
             "completed", "failed", "cancelled", "interrupted"}

Terminal == {"completed", "failed", "cancelled", "interrupted"}

\* RunStatusV2::is_active: Created and Queued are neither active nor terminal.
Active == {"preparing", "running", "waiting_permission", "waiting_subagent",
           "cancelling"}

\* can_transition.  Only a run that is executing can complete, only a run
\* that is being cancelled can become cancelled.
Successors ==
  [s \in Statuses |->
     CASE s = "created"    -> {"queued", "cancelling", "failed"}
       [] s = "queued"     -> {"preparing", "cancelling", "failed"}
       [] s = "preparing"  -> {"running", "waiting_permission", "cancelling",
                               "failed", "interrupted"}
       [] s = "running"    -> {"waiting_permission", "waiting_subagent",
                               "cancelling", "completed", "failed", "interrupted"}
       [] s \in {"waiting_permission", "waiting_subagent"} ->
                              {"running", "cancelling", "completed", "failed",
                               "interrupted"}
       [] s = "cancelling" -> {"cancelled", "interrupted", "failed"}
       [] OTHER            -> {}]

LegalEdge(from, to) == to \in Successors[from]

----------------------------------------------------------------------------
VARIABLES shown,     \* the status a client reads
          restarted  \* the daemon process was replaced at least once

vars == <<shown, restarted>>

Init == shown = "queued" /\ restarted = FALSE

Move == /\ \E to \in Successors[shown] : shown' = to
        /\ UNCHANGED restarted

\* A new process never resumes a run by itself: what it shows is settled.
Restart == restarted' = TRUE /\ shown' \in Terminal

Next == Move \/ Restart

Spec == Init /\ [][Next]_vars
=============================================================================
