------------------------------- MODULE Subagents -------------------------------
(***************************************************************************)
(* The children a run spawns with the `task` tool: the saga that creates a *)
(* child, the watcher that follows it to its end, the failure policy, the  *)
(* retry, and the three ledgers they keep in step.                         *)
(*                                                                         *)
(*   production_tools.rs   execute_task, watch_subagent_run, the terminals *)
(*   subagents.rs          SubAgentManager: agents and the slot counter    *)
(*   subagent_store.rs     subagent_session: the durable reservation       *)
(*   production.rs         cancel_run_tree, kill_task                      *)
(*                                                                         *)
(* A child is one `task` call, named for its session. `run` is the status  *)
(* of its current run; what happens inside it is module RunLifecycle's.    *)
(* A fault is a write or a replay that fails; MaxFaults bounds them. The   *)
(* UPDATEs that release a reservation and close a session always succeed.  *)
(***************************************************************************)
EXTENDS Naturals, FiniteSets

CONSTANTS
  Parents,
  Children,
  Policies,       \* the failure policies a call may ask for
  MaxConcurrent,  \* SubAgentConfig::max_concurrent_global
  MaxRetries,     \* max_retries of every call
  MaxFaults,
  MaxCrashes

AllPolicies == {"isolate", "fail_fast", "require_all", "retry"}

ASSUME SetsAssumption ==
  /\ IsFiniteSet(Children)
  /\ Policies \subseteq AllPolicies
ASSUME BoundsAssumption ==
  /\ MaxConcurrent \in Nat
  /\ MaxRetries \in Nat
  /\ MaxFaults \in Nat
  /\ MaxCrashes \in Nat

VARIABLES
  owner, policy,          \* the arguments of each call
  pc,                     \* where its saga or its watcher is
  seen, verdict,          \* locals of the watcher
  session, slot, retries, \* durable: the subagent_session row
  run,                    \* durable: the status of the child's current run
  over,                   \* the events of that run exceed the token budget of the child
  told,                   \* durable: the terminal fact on the parent's stream
  parent, reason,         \* durable: the status of each parent run, and why it failed
  agent, inUse,           \* memory: SubAgentManager
  task,                   \* memory: task_outputs, one map for the daemon
  crashes, faults

args == <<owner, policy>>
local == <<pc, seen, verdict>>
row == <<session, slot, retries>>
memory == <<agent, inUse, task>>
bounds == <<crashes, faults>>
fate == <<parent, reason>>
vars == <<args, local, row, run, over, told, fate, memory, bounds>>

Spawning == {"opened", "reserved", "created", "registered", "marked", "announced"}
Watching == {"watching", "looked", "settled", "passing", "failing", "requeue", "requeued",
             "release", "close", "tell", "judge", "note"}
Ended == {"done", "blind", "dropped", "gone"}
OpenSession == {"open", "running"}
LiveRun == {"queued", "active"}
OverRun == {"completed", "failed", "cancelled"}
Holding == {"Queued", "Running"}

Kids(p) == {c \in Children : owner[c] = p}
Registered(p) == {c \in Kids(p) : agent[c] # "none"}

-------------------------------------------------------------------------------

Init ==
  /\ owner \in [Children -> Parents]
  /\ policy \in [Children -> Policies]
  /\ pc = [c \in Children |-> "idle"]
  /\ seen = [c \in Children |-> "none"]
  /\ verdict = [c \in Children |-> "none"]
  /\ session = [c \in Children |-> "none"]
  /\ slot = [c \in Children |-> "none"]
  /\ retries = [c \in Children |-> 0]
  /\ run = [c \in Children |-> "none"]
  /\ over = [c \in Children |-> FALSE]
  /\ told = [c \in Children |-> "none"]
  /\ parent = [p \in Parents |-> "active"]
  /\ reason = [p \in Parents |-> "none"]
  /\ agent = [c \in Children |-> "none"]
  /\ inUse = 0
  /\ task = [c \in Children |-> "none"]
  /\ crashes = 0
  /\ faults = 0

Fault == faults < MaxFaults /\ faults' = faults + 1 /\ UNCHANGED crashes
Go(c, place) == pc' = [pc EXCEPT ![c] = place]
EndRun(c, status) ==
  run' = [run EXCEPT ![c] = IF run[c] \in LiveRun THEN status ELSE run[c]]

(* update_status for some agents: a slot is given back by each one that was *)
(* Queued or Running and no longer is. The counter saturates at zero.       *)
Conclude(kids, status) ==
  LET freed == Cardinality({c \in kids : agent[c] \in Holding})
  IN /\ agent' = [c \in Children |-> IF c \in kids THEN status ELSE agent[c]]
     /\ inUse' = IF freed > inUse THEN 0 ELSE inUse - freed

(* The compensation of the saga: what was reserved is released, the session *)
(* is closed and the call returns an error.                                 *)
Compensate(c) ==
  /\ slot' = [slot EXCEPT ![c] = "released"]
  /\ session' = [session EXCEPT ![c] = "failed"]
  /\ Go(c, "done")
  /\ UNCHANGED <<seen, verdict, retries>>

-------------------------------------------------------------------------------
(* The saga: execute_task. *)

(* The hidden session is created and its scope persisted; a scope that      *)
(* cannot be persisted and a SubagentStart hook that says no close it.      *)
Open(c) ==
  /\ pc[c] = "idle" /\ parent[owner[c]] = "active"
  /\ \/ Go(c, "opened") /\ session' = [session EXCEPT ![c] = "open"]
     \/ Go(c, "done") /\ session' = [session EXCEPT ![c] = "failed"]
  /\ UNCHANGED <<args, seen, verdict, slot, retries, run, over, told, fate, memory, bounds>>

Reserve(c) ==
  /\ pc[c] = "opened"
  /\ \/ /\ slot' = [slot EXCEPT ![c] = "held"]
        /\ Go(c, "reserved")
        /\ UNCHANGED <<session, bounds>>
     \/ /\ Fault
        /\ session' = [session EXCEPT ![c] = "failed"]
        /\ Go(c, "done")
        /\ UNCHANGED slot
  /\ UNCHANGED <<args, seen, verdict, retries, run, over, told, fate, memory>>

CreateRun(c) ==
  /\ pc[c] = "reserved"
  /\ \/ /\ run' = [run EXCEPT ![c] = "queued"]
        /\ Go(c, "created")
        /\ UNCHANGED <<seen, verdict, row, bounds>>
     \/ Fault /\ Compensate(c) /\ UNCHANGED run
  /\ UNCHANGED <<args, over, told, fate, memory>>

\* Mutant: a failed registration forgets the queued run.
RegisterOrphans(c) ==
  /\ pc[c] = "created"
  /\ \/ /\ inUse < MaxConcurrent
        /\ inUse' = inUse + 1
        /\ agent' = [agent EXCEPT ![c] = "Queued"]
        /\ Go(c, "registered")
        /\ UNCHANGED <<seen, verdict, row, run>>
     \/ /\ inUse >= MaxConcurrent
        /\ Compensate(c)
        /\ UNCHANGED <<agent, inUse, run>>
  /\ UNCHANGED <<args, over, told, fate, task, bounds>>

(* SubAgentManager::register takes a slot, or the run is failed.            *)
Register(c) ==
  /\ pc[c] = "created"
  /\ \/ /\ inUse < MaxConcurrent
        /\ inUse' = inUse + 1
        /\ agent' = [agent EXCEPT ![c] = "Queued"]
        /\ Go(c, "registered")
        /\ UNCHANGED <<seen, verdict, row, run>>
     \/ /\ inUse >= MaxConcurrent
        /\ Compensate(c)
        /\ EndRun(c, "failed")
        /\ UNCHANGED <<agent, inUse>>
  /\ UNCHANGED <<args, over, told, fate, task, bounds>>

(* The agent is Running, whatever became of it since it was registered.     *)
MarkRunning(c) ==
  /\ pc[c] = "registered"
  /\ agent' = [agent EXCEPT ![c] = "Running"]
  /\ session' = [session EXCEPT ![c] = "running"]
  /\ Go(c, "marked")
  /\ UNCHANGED <<args, seen, verdict, slot, retries, run, over, told, fate, inUse, task, bounds>>

(* SubagentCreated is appended and the task recorded; without the fact the  *)
(* child is cancelled.                                                      *)
Announce(c) ==
  /\ pc[c] = "marked"
  /\ \/ /\ task' = [task EXCEPT ![c] = "running"]
        /\ Go(c, "announced")
        /\ UNCHANGED <<seen, verdict, row, run, agent, inUse, bounds>>
     \/ /\ Fault
        /\ EndRun(c, "cancelled")
        /\ Conclude({c}, "Failed")
        /\ Compensate(c)
        /\ UNCHANGED task
  /\ UNCHANGED <<args, over, told, fate>>

(* start_detached, then the watcher; a start that fails is compensated.     *)
Start(c) ==
  /\ pc[c] = "announced"
  /\ \/ /\ run[c] = "queued"
        /\ run' = [run EXCEPT ![c] = "active"]
        /\ Go(c, "watching")
        /\ UNCHANGED <<seen, verdict, row, memory, bounds>>
     \/ /\ Fault
        /\ EndRun(c, "failed")
        /\ Conclude({c}, "Failed")
        /\ task' = [task EXCEPT ![c] = "failed"]
        /\ Compensate(c)
  /\ UNCHANGED <<args, over, told, fate>>

(* The tool call of a cancelled parent is dropped at its next await.        *)
Drop(c) ==
  /\ pc[c] \in Spawning /\ parent[owner[c]] = "cancelled"
  /\ Go(c, "dropped")
  /\ UNCHANGED <<args, seen, verdict, row, run, over, told, fate, memory, bounds>>

-------------------------------------------------------------------------------
(* The run of the child, the parent and the user. *)

RunEnds(c) ==
  /\ run[c] = "active"
  /\ \E status \in OverRun : run' = [run EXCEPT ![c] = status]
  /\ UNCHANGED <<args, local, row, over, told, fate, memory, bounds>>

(* A UsageUpdated fact takes the run past its budget. An engine may report   *)
(* usage after its run was cancelled or failed over its head; what comes     *)
(* when the watcher does not look any more is nobody's concern.             *)
Overspend(c) ==
  /\ pc[c] \in {"watching", "looked", "settled"}
  /\ run[c] # "completed" /\ ~over[c]
  /\ over' = [over EXCEPT ![c] = TRUE]
  /\ UNCHANGED <<args, local, row, run, told, fate, memory, bounds>>

(* kill_task: the engine is signalled, the agent and the task are cancelled,*)
(* whatever they were. The run ends by itself.                              *)
Kill(c) ==
  /\ task[c] # "none"
  /\ Conclude({c}, "Cancelled")
  /\ task' = [task EXCEPT ![c] = "cancelled"]
  /\ UNCHANGED <<args, local, row, run, over, told, fate, bounds>>

(* cancel_run_tree of a parent, on the ledgers of its descendants.          *)
CancelTree(p) ==
  /\ Conclude(Registered(p), "Cancelled")
  /\ task' = [c \in Children |->
                IF c \in Registered(p) /\ task[c] # "none" THEN "cancelled" ELSE task[c]]

ParentEnds(p) ==
  /\ parent[p] = "active"
  /\ \/ /\ \A c \in Kids(p) : pc[c] \notin Spawning
        /\ parent' = [parent EXCEPT ![p] = "completed"]
        /\ UNCHANGED memory
     \/ /\ parent' = [parent EXCEPT ![p] = "cancelled"]
        /\ CancelTree(p)
  /\ UNCHANGED <<args, local, row, run, over, told, reason, bounds>>

-------------------------------------------------------------------------------
(* The watcher: watch_subagent_run. *)

(* The deadline: the run is cancelled and the child has failed.             *)
Timeout(c) ==
  /\ pc[c] = "watching"
  /\ EndRun(c, "cancelled")
  /\ Go(c, "failing")
  /\ UNCHANGED <<args, seen, verdict, row, over, told, fate, memory, bounds>>

(* A poll reads the status of the run first ...                             *)
Look(c) ==
  /\ pc[c] = "watching"
  /\ seen' = [seen EXCEPT ![c] = run[c]]
  /\ Go(c, "looked")
  /\ UNCHANGED <<args, verdict, row, run, over, told, fate, memory, bounds>>

Overdrawn(c) == EndRun(c, "cancelled") /\ Go(c, "failing")

\* Mutant: a child is failed for what its run spent while it was live.
SettleLiveOnly(c) ==
  /\ pc[c] = "looked"
  /\ seen' = [seen EXCEPT ![c] = "none"]
  /\ CASE seen[c] = "completed" -> Go(c, "passing") /\ UNCHANGED run
       [] over[c] \/ seen[c] \in OverRun -> Overdrawn(c)
       [] OTHER -> Go(c, "watching") /\ UNCHANGED run
  /\ UNCHANGED <<args, verdict, row, over, told, fate, memory, bounds>>

(* ... then replays the events and settles their usage. Past the budget the *)
(* run is cancelled and the child fails, whatever the status was; it also    *)
(* does when its usage and that of the rest of its tree exceed theirs, or    *)
(* cannot be settled. A run that is over is asked for its last events.       *)
Settle(c) ==
  /\ pc[c] = "looked"
  /\ \/ Overdrawn(c) /\ seen' = [seen EXCEPT ![c] = "none"]
     \/ /\ ~over[c] /\ seen[c] \in OverRun
        /\ Go(c, "settled")
        /\ UNCHANGED <<seen, run>>
     \/ /\ ~over[c] /\ seen[c] \notin OverRun
        /\ Go(c, "watching")
        /\ seen' = [seen EXCEPT ![c] = "none"]
        /\ UNCHANGED run
  /\ UNCHANGED <<args, verdict, row, over, told, fate, memory, bounds>>

(* The last events are within the budget of the child; that of the tree is  *)
(* not asked again. The status decides.                                     *)
Decide(c) ==
  /\ pc[c] = "settled" /\ ~over[c]
  /\ Go(c, IF seen[c] = "completed" THEN "passing" ELSE "failing")
  /\ seen' = [seen EXCEPT ![c] = "none"]
  /\ UNCHANGED <<args, verdict, row, run, over, told, fate, memory, bounds>>

(* The last events take the child past its budget, or cannot be settled:    *)
(* it has failed, without a retry.                                          *)
Overrun(c) ==
  /\ pc[c] = "settled"
  /\ \/ over[c] /\ UNCHANGED bounds
     \/ Fault
  /\ Conclude({c}, "Failed")
  /\ seen' = [seen EXCEPT ![c] = "none"]
  /\ verdict' = [verdict EXCEPT ![c] = "overrun"]
  /\ Go(c, "release")
  /\ UNCHANGED <<args, row, run, over, told, fate, task>>

(* The events cannot be replayed, the first time or the last: the child is  *)
(* given up as failed, its run is left as it is and the parent is not held  *)
(* to its policy.                                                           *)
GiveUp(c) ==
  /\ pc[c] \in {"looked", "settled"}
  /\ Fault
  /\ Conclude({c}, "Failed")
  /\ slot' = [slot EXCEPT ![c] = "released"]
  /\ session' = [session EXCEPT ![c] = "failed"]
  /\ told' = [told EXCEPT ![c] = "failed"]
  /\ task' = [task EXCEPT ![c] = "failed"]
  /\ seen' = [seen EXCEPT ![c] = "none"]
  /\ Go(c, "blind")
  /\ UNCHANGED <<args, verdict, retries, run, over, fate>>

(* child_completed_terminal begins with the agent.                          *)
Pass(c) ==
  /\ pc[c] = "passing"
  /\ Conclude({c}, "Completed")
  /\ verdict' = [verdict EXCEPT ![c] = "completed"]
  /\ Go(c, "release")
  /\ UNCHANGED <<args, seen, row, run, over, told, fate, task, bounds>>

(* child_failed_terminal too; then on_child_failed. The message is searched *)
(* for words and numbers of transient errors, and it carries the child's own*)
(* text or the figures of its budget: any failure may look transient.       *)
Fail(c) ==
  /\ pc[c] = "failing"
  /\ Conclude({c}, "Failed")
  /\ verdict' = [verdict EXCEPT ![c] = "failed"]
  /\ \/ Go(c, "release")
     \/ policy[c] = "retry" /\ retries[c] < MaxRetries /\ Go(c, "requeue")
  /\ UNCHANGED <<args, seen, row, run, over, told, fate, task, bounds>>

\* Mutant: the failed attempt is reported before it is run again.
RequeueReports(c) ==
  /\ pc[c] = "requeue"
  /\ run' = [run EXCEPT ![c] = "active"]
  /\ told' = [told EXCEPT ![c] = "failed"]
  /\ over' = [over EXCEPT ![c] = FALSE]
  /\ retries' = [retries EXCEPT ![c] = @ + 1]
  /\ verdict' = [verdict EXCEPT ![c] = "none"]
  /\ Go(c, "requeued")
  /\ UNCHANGED <<args, seen, session, slot, fate, memory, bounds>>

(* requeue_child_run: a new run on the hidden conversation, whose usage is  *)
(* counted from the last figure within the budget; or the failure stands.   *)
Requeue(c) ==
  /\ pc[c] = "requeue"
  /\ \/ /\ run' = [run EXCEPT ![c] = "active"]
        /\ over' = [over EXCEPT ![c] = FALSE]
        /\ retries' = [retries EXCEPT ![c] = @ + 1]
        /\ verdict' = [verdict EXCEPT ![c] = "none"]
        /\ Go(c, "requeued")
        /\ UNCHANGED bounds
     \/ /\ Fault
        /\ Go(c, "release")
        /\ UNCHANGED <<run, over, retries, verdict>>
  /\ UNCHANGED <<args, seen, session, slot, told, fate, memory>>

(* The ledgers follow, but for the agent: update_run_id keeps its status.   *)
Rewatch(c) ==
  /\ pc[c] = "requeued"
  /\ session' = [session EXCEPT ![c] = "running"]
  /\ task' = [task EXCEPT ![c] = IF @ = "none" THEN "none" ELSE "running"]
  /\ Go(c, "watching")
  /\ UNCHANGED <<args, seen, verdict, slot, retries, run, over, told, fate, agent, inUse, bounds>>

-------------------------------------------------------------------------------
(* The end of a child: release, close, tell, judge, note. *)

Release(c) ==
  /\ pc[c] = "release"
  /\ slot' = [slot EXCEPT ![c] = "released"]
  /\ Go(c, "close")
  /\ UNCHANGED <<args, seen, verdict, session, retries, run, over, told, fate, memory, bounds>>

Reported(c) == IF verdict[c] = "completed" THEN "completed" ELSE "failed"

Close(c) ==
  /\ pc[c] = "close"
  /\ session' = [session EXCEPT ![c] = Reported(c)]
  /\ Go(c, "tell")
  /\ UNCHANGED <<args, seen, verdict, slot, retries, run, over, told, fate, memory, bounds>>

(* The fact on the parent's stream. A completion that cannot be appended    *)
(* becomes a failure; a failure that cannot be is not told. The task record *)
(* of an overrun is written before the parent is judged.                    *)
Tell(c) ==
  /\ pc[c] = "tell"
  /\ Go(c, IF verdict[c] = "overrun" THEN "note" ELSE "judge")
  /\ \/ /\ told' = [told EXCEPT ![c] = Reported(c)]
        /\ UNCHANGED <<verdict, session, agent, inUse, bounds>>
     \/ /\ Fault
        /\ IF verdict[c] = "completed"
           THEN /\ Conclude({c}, "Failed")
                /\ verdict' = [verdict EXCEPT ![c] = "untold"]
                /\ session' = [session EXCEPT ![c] = "failed"]
           ELSE UNCHANGED <<verdict, session, agent, inUse>>
        /\ UNCHANGED told
  /\ UNCHANGED <<args, seen, slot, retries, run, over, fate, task>>

(* sibling_settled_state reads the one task map of the daemon: the others   *)
(* are all the other tasks, of any parent.                                  *)
Others(c) == {d \in Children \ {c} : task[d] # "none"}
OthersSettled(c) == \A d \in Others(c) : task[d] # "running"
OtherFailed(c) == \E d \in Others(c) : task[d] = "failed"

\* Mutant: a failure waits for the siblings under both policies.
CondemnsSettled(c) ==
  \/ verdict[c] = "overrun"
  \/ /\ policy[c] \in {"fail_fast", "require_all"} /\ OthersSettled(c)
     /\ verdict[c] = "failed" \/ OtherFailed(c)

(* What the policy makes of this end: on_child_failed for a child that has  *)
(* failed, the aggregate of require_all for one that completed, told or not;*)
(* an overrun is not excused by any policy.                                 *)
Condemns(c) ==
  \/ verdict[c] = "overrun"
  \/ verdict[c] = "failed" /\ policy[c] = "fail_fast"
  \/ /\ policy[c] = "require_all" /\ OthersSettled(c)
     /\ verdict[c] = "failed" \/ OtherFailed(c)

(* fail_parent_and_cancel_siblings, or nothing. fail_run_if_active notes the *)
(* reason it is given.                                                      *)
Judge(c) ==
  LET p == owner[c]
  IN /\ pc[c] = "judge"
     /\ IF verdict[c] = "overrun"
        THEN Go(c, "done") /\ verdict' = [verdict EXCEPT ![c] = "none"]
        ELSE Go(c, "note") /\ UNCHANGED verdict
     /\ IF Condemns(c)
        THEN /\ CancelTree(p)
             /\ IF parent[p] = "active"
                THEN /\ parent' = [parent EXCEPT ![p] = "failed"]
                     /\ reason' = [reason EXCEPT ![p] =
                                     IF verdict[c] = "overrun" THEN "budget" ELSE "policy"]
                ELSE UNCHANGED fate
        ELSE UNCHANGED <<memory, fate>>
     /\ UNCHANGED <<args, seen, row, run, over, told, bounds>>

(* The task record.                                                         *)
Note(c) ==
  /\ pc[c] = "note"
  /\ task' = [task EXCEPT ![c] = Reported(c)]
  /\ IF verdict[c] = "overrun"
     THEN Go(c, "judge") /\ UNCHANGED verdict
     ELSE Go(c, "done") /\ verdict' = [verdict EXCEPT ![c] = "none"]
  /\ UNCHANGED <<args, seen, row, run, over, told, fate, agent, inUse, bounds>>

-------------------------------------------------------------------------------
(* A crash, and the recovery of the next start: the live runs are           *)
(* interrupted, then every reservation without a live run is released and   *)
(* its session interrupted. No child is followed again.                     *)
Restart ==
  /\ crashes < MaxCrashes
  /\ crashes' = crashes + 1
  /\ parent' = [p \in Parents |-> IF parent[p] = "active" THEN "interrupted" ELSE parent[p]]
  /\ run' = [c \in Children |-> IF run[c] \in LiveRun THEN "interrupted" ELSE run[c]]
  /\ LET lost(c) == session[c] # "none" /\ slot[c] # "released"
     IN /\ slot' = [c \in Children |-> IF lost(c) THEN "released" ELSE slot[c]]
        /\ session' = [c \in Children |->
                         IF lost(c) /\ session[c] \in OpenSession
                         THEN "interrupted" ELSE session[c]]
  /\ pc' = [c \in Children |-> IF pc[c] \in {"idle"} \union Ended THEN pc[c] ELSE "gone"]
  /\ seen' = [c \in Children |-> "none"]
  /\ verdict' = [c \in Children |-> "none"]
  /\ agent' = [c \in Children |-> "none"]
  /\ inUse' = 0
  /\ task' = [c \in Children |-> "none"]
  /\ UNCHANGED <<args, retries, over, told, reason, faults>>

Saga(c) ==
  Open(c) \/ Reserve(c) \/ CreateRun(c) \/ Register(c) \/ MarkRunning(c)
    \/ Announce(c) \/ Start(c)
Watch(c) ==
  Look(c) \/ Settle(c) \/ Decide(c) \/ Overrun(c) \/ GiveUp(c) \/ Pass(c) \/ Fail(c)
    \/ Requeue(c) \/ Rewatch(c)
    \/ Release(c) \/ Close(c) \/ Tell(c) \/ Judge(c) \/ Note(c)

Next ==
  \/ \E c \in Children :
       Saga(c) \/ Drop(c) \/ RunEnds(c) \/ Overspend(c) \/ Kill(c) \/ Timeout(c) \/ Watch(c)
  \/ \E p \in Parents : ParentEnds(p)
  \/ Restart

Spec == Init /\ [][Next]_vars

-------------------------------------------------------------------------------
(* Properties. *)

(* Type invariant of the ledgers and of the places of execute_task and      *)
(* watch_subagent_run; the slot counter stays within the configured cap.    *)
TypeOK ==
  /\ owner \in [Children -> Parents] /\ policy \in [Children -> Policies]
  /\ pc \in [Children -> {"idle"} \union Spawning \union Watching \union Ended]
  /\ seen \in [Children -> {"none"} \union LiveRun \union OverRun]
  /\ verdict \in [Children -> {"none", "completed", "untold", "failed", "overrun"}]
  /\ session \in [Children -> {"none", "completed", "failed", "interrupted"} \union OpenSession]
  /\ slot \in [Children -> {"none", "held", "released"}]
  /\ retries \in [Children -> 0..MaxRetries]
  /\ run \in [Children -> {"none", "interrupted"} \union LiveRun \union OverRun]
  /\ over \in [Children -> BOOLEAN]
  /\ told \in [Children -> {"none", "completed", "failed"}]
  /\ parent \in [Parents -> {"active", "completed", "failed", "cancelled", "interrupted"}]
  /\ reason \in [Parents -> {"none", "policy", "budget"}]
  /\ agent \in [Children -> {"none", "Completed", "Failed", "Cancelled"} \union Holding]
  /\ inUse \in 0..MaxConcurrent
  /\ task \in [Children -> {"none", "running", "completed", "failed", "cancelled"}]
  /\ crashes \in 0..MaxCrashes
  /\ faults \in 0..MaxFaults

(* A call that is over, by any path of the saga or of the watcher, leaves   *)
(* nothing behind: its run has ended, the reservation is released, the      *)
(* session closed, the agent and the task no longer running (the            *)
(* compensations of execute_task, the terminals of watch_subagent_run). One *)
(* that a crash found midway has neither run nor reservation after the      *)
(* restart, at whatever step it came (recover_subagent_reservations_on). When*)
(* all calls are over, the counter of SubAgentManager is back at zero.       *)
EndedHoldsNothing ==
  /\ \A c \in Children :
       /\ pc[c] \in {"done", "gone"} => run[c] \notin LiveRun /\ slot[c] # "held"
       /\ pc[c] = "done" => /\ session[c] \notin OpenSession
                           /\ agent[c] \notin Holding
                           /\ task[c] # "running"
  /\ (\A c \in Children : pc[c] \in {"idle", "done", "gone"}) => inUse = 0

(* A child past its token budget is never reported completed, although its  *)
(* run may complete before the watcher has seen the usage, and usage may     *)
(* come after its run has ended (watch_subagent_run settles it twice).       *)
OverBudgetFails ==
  \A c \in Children :
    over[c] => session[c] # "completed" /\ told[c] # "completed" /\ task[c] # "completed"

Strict == {"fail_fast", "require_all"}

(* Whose end is the parent's: a fail_fast child that is over and failed has  *)
(* ended it; and what a failed parent says of itself is so. It names the     *)
(* policy for a child with a strict one only, and a budget, under any policy,*)
(* only for a child whose run had ended by itself before its last usage was  *)
(* settled, and which is not reported completed (on_child_failed,            *)
(* fail_parent_and_cancel_siblings, watch_subagent_run).                    *)
ParentFate ==
  /\ \A c \in Children :
       pc[c] = "done" /\ told[c] = "failed" /\ policy[c] = "fail_fast"
         => parent[owner[c]] # "active"
  /\ \A p \in Parents : parent[p] = "failed" =>
       \E c \in Kids(p) :
         \/ reason[p] = "policy" /\ policy[c] \in Strict /\ pc[c] # "idle"
         \/ /\ reason[p] = "budget"
            /\ over[c] \/ faults > 0
            /\ run[c] \in OverRun /\ session[c] = "failed" /\ told[c] # "completed"

(* What the parent's stream says of a child is final: no other fact follows,*)
(* the session agrees with it for good, and the child is not run again      *)
(* (child_failed_terminal retries before anything is told).                 *)
FactIsFinal ==
  [][\A c \in Children : told'[c] # "none" =>
       /\ told[c] \in {"none", told'[c]}
       /\ session'[c] = told'[c]
       /\ run[c] \in OverRun => run'[c] = run[c]]_vars

================================================================================
