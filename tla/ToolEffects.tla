------------------------------ MODULE ToolEffects ------------------------------
(***************************************************************************)
(* Side effects of the tools of one run, the ledger that records them, and *)
(* the gates that decide whether the run may be repeated.                  *)
(*                                                                         *)
(*   production_tools.rs    execute_tool..., execute_mcp_call              *)
(*   engine_core.rs         execute_prepared_tools                         *)
(*   side_effect_ledger.rs  the side_effect_record table                   *)
(*   event_log.rs           append_event_v2_with_conn                      *)
(*   production.rs          the end of a native run                        *)
(*   run_manager.rs         retry, continue_run, resume_run                *)
(*                                                                         *)
(* Calls run one after the other: no production tool that has a side       *)
(* effect is ParallelSafe. Read-only tools touch none of this state.       *)
(* `effect` is the outside world: what the handler of a call may have done.*)
(* A fault is a write of the database that fails; MaxFaults bounds them.   *)
(***************************************************************************)
EXTENDS Naturals, Sequences, FiniteSets, FiniteSetsExt, Functions

CONSTANTS
  NCalls,     \* the side-effecting calls of the run, in order
  KindOf,     \* "file", "external" or "mcp" for each call
  MaxFaults,
  MaxPlans    \* requests to retry, continue or resume the run

Calls == 1..NCalls
Kinds == {"file", "external", "mcp"}

ASSUME CallsAssumption == NCalls \in Nat /\ KindOf \in [Calls -> Kinds]
ASSUME BoundsAssumption == MaxFaults \in Nat /\ MaxPlans \in Nat

VARIABLES
  at,        \* where each call is
  result,    \* what the call returned to the engine
  effect,    \* what its handler may have done outside
  ledger,    \* durable: the side_effect_record rows, by ledger_sequence
  facts,     \* durable: the ToolCallCompleted facts, as [call, error]
  turn,      \* durable: a TurnCompleted fact exists
  point,     \* durable: the checkpoint metadata of the run
  engine,    \* the engine future: running, stopped or dropped
  cancel,    \* the cancellation token of the run
  run,       \* active, ended or interrupted
  plans,     \* durable: the resume plans
  held,      \* a retry waits for the store's mutex, which it holds
  faults

call == <<at, result, effect>>
durable == <<ledger, facts, turn, point>>
life == <<engine, cancel, run>>
gates == <<plans, held>>
vars == <<call, durable, life, gates, faults>>

Places == {"idle", "intended", "running", "returned", "completed", "abandoned"}
Results == {"none", "ok", "error", "unpersisted"}
Statuses == {"started", "completed", "failed", "cancelled", "uncertain"}
Row(c, status, safe) == [call |-> c, status |-> status, safe |-> safe]
NoPoint == [cursor |-> 0, snapshot |-> FALSE, set |-> FALSE]
Actions == {"retry", "continue", "resume"}
Decisions == {"SafeToContinue", "ConfirmationRequired", "Blocked"}

RowsOf(c) == {r \in Range(ledger) : r.call = c}
Has(c, status) == \E r \in RowsOf(c) : r.status = status
InFlight(c) == at[c] \in {"intended", "running", "returned"}
Quiet == \A c \in Calls : ~InFlight(c)

-------------------------------------------------------------------------------

Init ==
  /\ at = [c \in Calls |-> "idle"]
  /\ result = [c \in Calls |-> "none"]
  /\ effect = [c \in Calls |-> "none"]
  /\ ledger = <<>>
  /\ facts = {}
  /\ turn = FALSE
  /\ point = NoPoint
  /\ engine = "running"
  /\ cancel = FALSE
  /\ run = "active"
  /\ plans = {}
  /\ held = FALSE
  /\ faults = 0

(* n more writes fail. *)
Fault(n) ==
  /\ faults + n <= MaxFaults
  /\ faults' = faults + n

(* record_tool_effect_state: UPDATE the rows of the call, which are not    *)
(* taken out of cancelled or uncertain, or INSERT one at the next sequence.*)
Recorded(l, c, status) ==
  LET open == {i \in DOMAIN l : l[i].call = c /\
                 (l[i].status \notin {"cancelled", "uncertain"}
                  \/ status = "uncertain")}
  IN IF open = {} THEN Append(l, Row(c, status, FALSE))
     ELSE [i \in DOMAIN l |-> IF i \in open THEN Row(c, status, FALSE) ELSE l[i]]

\* Mutant: the UPDATE has no status in its WHERE clause.
SettledAny(l, c, error) ==
  [i \in DOMAIN l |->
     IF l[i].call = c
     THEN Row(c, IF error THEN "failed" ELSE "completed", KindOf[c] = "file")
     ELSE l[i]]

(* settle_tool_effect: only a started row moves. *)
Settled(l, c, error) ==
  [i \in DOMAIN l |->
     IF l[i].call = c /\ l[i].status = "started"
     THEN Row(c, IF error THEN "failed" ELSE "completed", KindOf[c] = "file")
     ELSE l[i]]

(* ledger_watermark: the highest sequence recorded, 0 when there is none. *)
Watermark(l) == Len(l)

Return(c, res) ==
  /\ at' = [at EXCEPT ![c] = "returned"]
  /\ result' = [result EXCEPT ![c] = res]

-------------------------------------------------------------------------------
(* One call, from the engine's batch to the handler and back. *)

(* The engine takes the calls in order, while nothing cancelled them. *)
Turn(c) ==
  /\ engine = "running" /\ run = "active"
  /\ at[c] = "idle"
  /\ \A b \in 1..(c - 1) : at[b] = "completed"

(* The call is turned away before its intent is recorded: by a hook, the   *)
(* allow list, the plan latch, the permission gate, the path preflight or a*)
(* cancelled token; or a write fails on the way.                           *)
Refuse(c) ==
  /\ Turn(c)
  /\ \/ Return(c, "error") /\ UNCHANGED faults
     \/ Fault(1) /\ Return(c, "unpersisted")
  /\ UNCHANGED <<effect, durable, life, gates>>

\* Mutant: a failed write of the intent is logged and ignored.
IntendLoosely(c) ==
  /\ Turn(c)
  /\ \/ ledger' = Recorded(ledger, c, "started") /\ UNCHANGED faults
     \/ Fault(1) /\ UNCHANGED ledger
  /\ at' = [at EXCEPT ![c] = "intended"]
  /\ UNCHANGED <<result, effect, facts, turn, point, life, gates>>

(* The intent is durable before the handler runs. *)
Intend(c) ==
  /\ Turn(c)
  /\ ledger' = Recorded(ledger, c, "started")
  /\ at' = [at EXCEPT ![c] = "intended"]
  /\ UNCHANGED <<result, effect, facts, turn, point, life, gates, faults>>

Begin(c) ==
  /\ at[c] = "intended"
  /\ at' = [at EXCEPT ![c] = "running"]
  /\ effect' = [effect EXCEPT ![c] = "begun"]
  /\ UNCHANGED <<result, durable, life, gates, faults>>

(* The handler is back with an output, which may itself be an error. The   *)
(* row stays started, unless the after-image of a file could not be kept:  *)
(* then it is marked uncertain, if that write does not fail too.           *)
HandlerOk(c) ==
  /\ at[c] = "running" /\ KindOf[c] # "mcp"
  /\ effect' = [effect EXCEPT ![c] = "done"]
  /\ \/ \E res \in {"ok", "error"} : Return(c, res)
        /\ UNCHANGED <<ledger, faults>>
     \/ /\ KindOf[c] = "file"
        /\ \/ Fault(1) /\ ledger' = Recorded(ledger, c, "uncertain")
           \/ Fault(2) /\ UNCHANGED ledger
        /\ Return(c, "unpersisted")
  /\ UNCHANGED <<facts, turn, point, life, gates>>

(* The handler fails: its row says how, and the engine is told. *)
HandlerErr(c) ==
  /\ at[c] = "running" /\ KindOf[c] # "mcp"
  /\ \/ \E status \in {"cancelled", "uncertain", "failed"} :
          /\ status = "cancelled" => cancel
          /\ ledger' = Recorded(ledger, c, status)
        /\ Return(c, "error")
        /\ UNCHANGED faults
     \/ Fault(1) /\ Return(c, "unpersisted") /\ UNCHANGED ledger
  /\ UNCHANGED <<effect, facts, turn, point, life, gates>>

(* execute_mcp_call settles the row itself, before the engine appends the  *)
(* fact; what comes back from a cancelled run is uncertain.                *)
McpBack(c) ==
  /\ at[c] = "running" /\ KindOf[c] = "mcp"
  /\ \E ok \in BOOLEAN :
       LET status == IF cancel THEN "uncertain"
                     ELSE IF ok THEN "completed" ELSE "failed" IN
       /\ effect' = [effect EXCEPT ![c] = IF ok THEN "done" ELSE @]
       /\ \/ /\ ledger' = Recorded(ledger, c, status)
             /\ Return(c, IF ok THEN "ok" ELSE "error")
             /\ UNCHANGED faults
          \/ /\ \/ Fault(1) /\ ledger' = Recorded(ledger, c, "uncertain")
                \/ Fault(2) /\ UNCHANGED ledger
             /\ Return(c, "unpersisted")
  /\ UNCHANGED <<facts, turn, point, life, gates>>

(* The fact and the settlement of the row are one transaction. *)
Complete(c) ==
  /\ at[c] = "returned" /\ engine = "running"
  /\ LET error == result[c] # "ok" IN
       /\ facts' = facts \cup {[call |-> c, error |-> error]}
       /\ ledger' = Settled(ledger, c, error)
  /\ at' = [at EXCEPT ![c] = "completed"]
  /\ UNCHANGED <<result, effect, turn, point, life, gates, faults>>

(* The fact cannot be appended: the call is marked uncertain, if that write*)
(* does not fail too, and the engine stops. A post hook that refuses stops *)
(* it as well, and leaves the row as it is.                                *)
FailToComplete(c) ==
  /\ at[c] = "returned" /\ engine = "running"
  /\ \/ /\ Fault(1)
        /\ ledger' = Recorded(ledger, c, "uncertain")
        /\ cancel' = TRUE
     \/ /\ Fault(2)
        /\ cancel' = TRUE
        /\ UNCHANGED ledger
     \/ UNCHANGED <<ledger, cancel, faults>>
  /\ at' = [at EXCEPT ![c] = "abandoned"]
  /\ engine' = "stopped"
  /\ UNCHANGED <<result, effect, facts, turn, point, run, gates>>

-------------------------------------------------------------------------------
(* The run around its calls. *)

(* TurnCompleted; a call that reported a failed write stops the engine. *)
CompleteTurn ==
  /\ engine = "running" /\ run = "active" /\ Quiet
  /\ turn' = TRUE
  /\ IF \E c \in Calls : result[c] = "unpersisted"
     THEN engine' = "stopped" /\ cancel' = TRUE
     ELSE UNCHANGED <<engine, cancel>>
  /\ UNCHANGED <<call, ledger, facts, point, run, gates, faults>>

(* The provider is done, fails, or sees the cancelled token. *)
StopEngine ==
  /\ engine = "running" /\ run = "active" /\ Quiet
  /\ engine' = "stopped"
  /\ UNCHANGED <<call, durable, cancel, run, gates, faults>>

Cancel ==
  /\ run = "active" /\ ~cancel
  /\ cancel' = TRUE
  /\ UNCHANGED <<call, durable, engine, run, gates, faults>>

Abandon == at' = [c \in Calls |-> IF InFlight(c) THEN "abandoned" ELSE at[c]]

(* After the grace a cancelled engine is dropped, its handler with it. *)
ForceAbort ==
  /\ cancel /\ run = "active" /\ engine = "running"
  /\ engine' = "dropped"
  /\ run' = "ended"
  /\ Abandon
  /\ UNCHANGED <<result, effect, durable, cancel, gates, faults>>

(* Once a turn was committed, its checkpoint gets the watermark; a snapshot*)
(* is named if one was committed (only a compaction commits one).          *)
CommitPoint ==
  /\ engine = "stopped" /\ run = "active" /\ turn /\ ~point.set
  /\ \E s \in BOOLEAN :
       point' = [cursor |-> Watermark(ledger), snapshot |-> s, set |-> TRUE]
  /\ UNCHANGED <<call, ledger, facts, turn, life, gates, faults>>

(* The terminal commit; it is also reached when the metadata failed. *)
EndRun ==
  /\ engine = "stopped" /\ run = "active"
  /\ \/ (turn => point.set) /\ UNCHANGED faults
     \/ turn /\ ~point.set /\ Fault(1)
  /\ run' = "ended"
  /\ UNCHANGED <<call, durable, engine, cancel, gates>>

(* The daemon dies; at its next start the run is interrupted. *)
CrashRestart ==
  /\ run = "active"
  /\ run' = "interrupted"
  /\ engine' = "dropped"
  /\ Abandon
  /\ UNCHANGED <<result, effect, durable, cancel, gates, faults>>

-------------------------------------------------------------------------------
(* The gates. *)

Decide(action, decision, confirmed) ==
  /\ ~held /\ Cardinality(plans) < MaxPlans
  /\ plans' = plans \cup {[action |-> action, decision |-> decision,
                          confirmed |-> confirmed]}
  /\ UNCHANGED <<call, durable, life, held, faults>>

(* retry asks for uncertain rows only. On one it would write a Blocked plan,*)
(* but it takes the store's mutex for that while the guard of its question  *)
(* is alive: it waits for itself, no plan is written, and the store is lost *)
(* to every later request.                                                 *)
Retry ==
  /\ run # "active"
  /\ \/ /\ \E c \in Calls : Has(c, "uncertain")
        /\ ~held /\ held' = TRUE
        /\ UNCHANGED <<call, durable, life, plans, faults>>
     \/ /\ \A c \in Calls : ~Has(c, "uncertain")
        /\ Decide("retry", "SafeToContinue", FALSE)

(* Only a new process opens the store again. *)
Restart ==
  /\ held /\ held' = FALSE
  /\ UNCHANGED <<call, durable, life, plans, faults>>

\* Mutant: the same rows that retry asks for.
UnresolvedUncertain ==
  {i \in DOMAIN ledger :
     \/ ledger[i].status = "uncertain"
     \/ ledger[i].status = "completed" /\ i > point.cursor}

(* unresolved_effects_for_checkpoint *)
Unresolved ==
  {i \in DOMAIN ledger :
     \/ ledger[i].status \in {"started", "uncertain"}
     \/ ledger[i].status = "completed" /\ i > point.cursor}

HardBlocked == \E i \in Unresolved : ~ledger[i].safe

(* load_resumable_checkpoint refuses without a snapshot, turn and cursor. *)
Resumable == run # "active" /\ point.set /\ point.snapshot

Continue ==
  /\ Resumable
  /\ Decide("continue",
            IF Unresolved = {} THEN "SafeToContinue"
            ELSE IF HardBlocked THEN "Blocked"
            ELSE "ConfirmationRequired", FALSE)

Resume ==
  /\ Resumable
  /\ \E confirmed \in BOOLEAN :
       Decide("resume",
              IF HardBlocked THEN "Blocked"
              ELSE IF Unresolved # {} /\ ~confirmed THEN "ConfirmationRequired"
              ELSE "SafeToContinue", confirmed)

-------------------------------------------------------------------------------

CallStep(c) ==
  \/ Refuse(c) \/ Intend(c) \/ Begin(c)
  \/ HandlerOk(c) \/ HandlerErr(c) \/ McpBack(c)
  \/ Complete(c) \/ FailToComplete(c)

RunStep == CompleteTurn \/ StopEngine \/ Cancel \/ ForceAbort \/ CommitPoint
           \/ EndRun \/ CrashRestart

GateStep == Retry \/ Continue \/ Resume \/ Restart

Next == (\E c \in Calls : CallStep(c)) \/ RunStep \/ GateStep

Spec == Init /\ [][Next]_vars

-------------------------------------------------------------------------------
(* Correctness. *)

\* The types; the watermark of a checkpoint is one the ledger has reached.
TypeOK ==
  /\ at \in [Calls -> Places]
  /\ result \in [Calls -> Results]
  /\ effect \in [Calls -> {"none", "begun", "done"}]
  /\ ledger \in Seq([call : Calls, status : Statuses, safe : BOOLEAN])
  /\ facts \subseteq [call : Calls, error : BOOLEAN]
  /\ turn \in BOOLEAN
  /\ point \in [cursor : 0..Len(ledger), snapshot : BOOLEAN, set : BOOLEAN]
  /\ engine \in {"running", "stopped", "dropped"}
  /\ cancel \in BOOLEAN
  /\ run \in {"active", "ended", "interrupted"}
  /\ plans \subseteq [action : Actions, decision : Decisions, confirmed : BOOLEAN]
  /\ held \in BOOLEAN
  /\ faults \in 0..MaxFaults

(* production_tools.rs:1234-1251 and event_log.rs:149-155: whatever a       *)
(* handler may have done outside, the ledger holds one row for it, whichever*)
(* write failed and wherever the daemon died. The row and the fact that     *)
(* settles it commit together (D04): a native tool's row is completed only  *)
(* when the journal says so, and once there is a fact no row is started.    *)
RowsFollowEffects ==
  \A c \in Calls :
    /\ effect[c] # "none" => RowsOf(c) # {}
    /\ Cardinality({i \in DOMAIN ledger : ledger[i].call = c}) <= 1
    /\ KindOf[c] # "mcp" /\ Has(c, "completed") =>
         [call |-> c, error |-> FALSE] \in facts
    /\ (\E f \in facts : f.call = c) => ~Has(c, "started")

(* event_log.rs:153-155: "an already-uncertain effect is never silently     *)
(* promoted to settled", by no later write of any path.                    *)
DoubtIsKept ==
  [][\A c \in Calls : Has(c, "uncertain") =>
       \A r \in RowsOf(c)' : r.status = "uncertain"]_vars

(* A call whose handler may have acted and of which no row says an end that *)
(* the checkpoint covers.                                                  *)
Unaccounted(c) ==
  /\ effect[c] # "none"
  /\ ~\E i \in DOMAIN ledger :
        /\ ledger[i].call = c
        /\ \/ ledger[i].status \in {"failed", "cancelled"}
           \/ ledger[i].status = "completed" /\ i <= point.cursor

(* run_manager.rs:172-177: a run is not continued or resumed while an       *)
(* effect of it cannot be proved safe, except one the caller confirmed; not *)
(* even a retry, which asks for less, repeats a run over a doubt.          *)
ContinueIsSafe ==
  \A p \in plans :
    p.decision = "SafeToContinue" /\ ~p.confirmed =>
      \A c \in Calls : IF p.action = "retry" THEN ~Has(c, "uncertain") ELSE ~Unaccounted(c)

================================================================================
