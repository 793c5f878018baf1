---------------------------- MODULE RunLifecycle ----------------------------
(***************************************************************************)
(* One run of the native engine in src-agent-daemon: the commit protocol    *)
(* of RunManager::commit_transition and everything that runs it             *)
(* concurrently - start requests with their background engine tasks,        *)
(* cancel requests and external finishes - together with the row upserts    *)
(* of the start path, the journal, the cancellation registry and a daemon   *)
(* restart.  One action is one critical section or one await-free stretch   *)
(* of the code; every lock release and every await is an interleaving       *)
(* point.                                                                   *)
(*                                                                          *)
(* The run exists (create_run) and its user turn is already recorded, so    *)
(* ensure_run_for_start only reads it.  The runtime is "native".            *)
(***************************************************************************)
EXTENDS Integers, Sequences, FiniteSets

CONSTANTS Starts,     \* run.start requests
          Cancels,    \* run.cancel requests
          Finishes,   \* run.finish requests
          Endings,    \* the statuses they name
          MaxEmits    \* bound: engines emit while the journal has fewer events of theirs

ASSUME ActorsDisjoint ==
  /\ Starts \cap Cancels = {}
  /\ Starts \cap Finishes = {}
  /\ Cancels \cap Finishes = {}

ASSUME MaxEmitsNat == MaxEmits \in Nat

VARIABLES
  db,         \* the row of table run: status and revision
  mem,        \* the entry of RunManager.runs
  snap,       \* the entry of runs/snapshot.json
  log,        \* the rows of table run_event, by sequence
  seq,        \* EventSequencer.sequences
  seen,       \* the sequences EventSequencer holds in memory and has broadcast
  entry,      \* ExecutionRegistry entry of the run: none, live or cancelled token
  token,      \* the token each start task holds
  handle,     \* the start task whose engine the engines map holds, if any
  pc,         \* where each actor is
  frame,      \* the commit_status call each actor is in
  row,        \* the row a start task cloned to persist after unlocking
  out,        \* the EngineOutcome of each start task
  quiet,      \* what tree_quiet told each cancel
  restarted,  \* the daemon was restarted
  stale       \* history: an upsert replaced the row by a different status or revision

vars == <<db, mem, snap, log, seq, seen, entry, token, handle, pc, frame, row, out,
          quiet, restarted, stale>>

RS == INSTANCE RunStatus WITH shown <- mem.status

Actors   == Starts \cup Cancels \cup Finishes
Terminal == RS!Terminal

ASSUME EndingsAreTerminal == Endings \subseteq Terminal

\* create_run stores a run as queued; nothing ever stores or targets created.
Stored   == RS!Statuses \ {"created"}
Row      == [status : Stored, rev : Nat]

EngineEvent == "engine_event"
Outcomes    == {"completed", "failed", "cancelled"}

\* A start task's token is the one in the registry, or one that left the
\* registry uncancelled or cancelled.
Tokens      == {"none", "registered", "orphan", "cancelled"}

Stages  == {"idle", "begin", "tx", "apply", "inject", "ok", "err"}
Frame   == [stage : Stages, tgt : Stored, exp : Nat, slot : Nat]
NoFrame == [stage |-> "idle", tgt |-> "failed", exp |-> 0, slot |-> 0]
NoRow   == [status |-> "queued", rev |-> 0]

StartLabels  == {"idle", "mark_preparing", "preparing", "row1", "row2", "register",
                 "clone", "bind", "created_event", "launch", "engine",
                 "committed_event", "outcome", "ensure_running", "bridged", "settle",
                 "prep_failed", "fail_run", "done", "dead"}
CancelLabels == {"idle", "journal", "signal", "signal_err", "force", "force_err",
                 "quiet", "settle", "end", "done", "dead"}
FinishLabels == {"idle", "end", "done", "dead"}
Labels       == StartLabels \cup CancelLabels \cup FinishLabels

Init ==
  /\ db = NoRow
  /\ mem = db
  /\ snap = db
  /\ log = <<"queued">>
  /\ seq = 1
  /\ seen = {1}
  /\ entry = "none"
  /\ token = [s \in Starts |-> "none"]
  /\ handle = {}
  /\ pc = [a \in Actors |-> "idle"]
  /\ frame = [a \in Actors |-> NoFrame]
  /\ row = [s \in Starts |-> NoRow]
  /\ out = [s \in Starts |-> "failed"]
  /\ quiet = [c \in Cancels |-> FALSE]
  /\ restarted = FALSE
  /\ stale = FALSE

----------------------------------------------------------------------------
(* commit_status and commit_transition.  A caller opens a frame, the        *)
(* actions below run it, and the caller goes on from its label when the     *)
(* stage is "ok" or "err".                                                  *)

storeVars  == <<db, snap, log, stale>>
eventVars  == <<seq, seen>>
tokenVars  == <<entry, token, handle>>
localVars  == <<row, out, quiet>>

Goto(a, label) == pc' = [pc EXCEPT ![a] = label]

\* The caller's next label is where it reads the result.
Call(a, tgt, label) ==
  /\ Goto(a, label)
  /\ frame' = [frame EXCEPT ![a] = [NoFrame EXCEPT !.stage = "begin", !.tgt = tgt]]

Return(a, label) ==
  /\ Goto(a, label)
  /\ frame' = [frame EXCEPT ![a] = NoFrame]

Stage(a, stage) == frame' = [frame EXCEPT ![a].stage = stage]

In(a, label)     == pc[a] = label /\ frame[a].stage = "idle"
Ok(a, label)     == pc[a] = label /\ frame[a].stage = "ok"
Failed(a, label) == pc[a] = label /\ frame[a].stage = "err"

BeginUnchecked(a) == \* variant: the edge is not validated
  /\ frame[a].stage = "begin"
  /\ IF mem.status = frame[a].tgt \/ mem.status \in Terminal
       THEN Stage(a, "ok")
       ELSE frame' = [frame EXCEPT ![a] = [@ EXCEPT !.stage = "tx", !.exp = mem.rev]]
  /\ UNCHANGED <<storeVars, mem, eventVars, tokenVars, pc, localVars, restarted>>

\* commit_status reads the revision and commit_transition reads it again and
\* validates the edge.  The two reads are one step: a change between them is
\* an error there and an error of the compare-and-set below here.
Begin(a) ==
  /\ frame[a].stage = "begin"
  /\ \/ /\ mem.status = frame[a].tgt \/ mem.status \in Terminal
        /\ Stage(a, "ok")
     \/ /\ mem.status # frame[a].tgt
        /\ RS!LegalEdge(mem.status, frame[a].tgt)
        /\ frame' = [frame EXCEPT ![a] = [@ EXCEPT !.stage = "tx", !.exp = mem.rev]]
     \/ /\ mem.status # frame[a].tgt
        /\ mem.status \notin Terminal
        /\ ~RS!LegalEdge(mem.status, frame[a].tgt)
        /\ Stage(a, "err")
  /\ UNCHANGED <<storeVars, mem, eventVars, tokenVars, pc, localVars, restarted>>

TxBlind(a) == \* variant: UPDATE without "AND revision = ?"
  /\ frame[a].stage = "tx"
  /\ db' = [status |-> frame[a].tgt, rev |-> frame[a].exp + 1]
  /\ log' = Append(log, frame[a].tgt)
  /\ frame' = [frame EXCEPT ![a] = [@ EXCEPT !.stage = "apply", !.slot = Len(log) + 1]]
  /\ UNCHANGED <<mem, snap, stale, eventVars, tokenVars, pc, localVars, restarted>>

TxConflictApplied(a) == \* variant: zero changed rows are taken for a success
  /\ frame[a].stage = "tx"
  /\ \/ /\ db.rev = frame[a].exp
        /\ db' = [status |-> frame[a].tgt, rev |-> frame[a].exp + 1]
        /\ log' = Append(log, frame[a].tgt)
        /\ frame' = [frame EXCEPT ![a] = [@ EXCEPT !.stage = "apply", !.slot = Len(log) + 1]]
     \/ /\ db.rev # frame[a].exp
        /\ frame' = [frame EXCEPT ![a] = [@ EXCEPT !.stage = "apply", !.slot = Len(log)]]
        /\ UNCHANGED <<db, log>>
  /\ UNCHANGED <<mem, snap, stale, eventVars, tokenVars, pc, localVars, restarted>>

\* The SQLite transaction: compare-and-set of the row and the lifecycle event
\* at MAX(sequence) + 1.
Tx(a) ==
  /\ frame[a].stage = "tx"
  /\ \/ /\ db.rev = frame[a].exp
        /\ db' = [status |-> frame[a].tgt, rev |-> frame[a].exp + 1]
        /\ log' = Append(log, frame[a].tgt)
        /\ frame' = [frame EXCEPT ![a] = [@ EXCEPT !.stage = "apply", !.slot = Len(log) + 1]]
     \/ /\ db.rev # frame[a].exp
        /\ Stage(a, IF db.status \in Terminal THEN "ok" ELSE "err")
        /\ UNCHANGED <<db, log>>
  /\ UNCHANGED <<mem, snap, stale, eventVars, tokenVars, pc, localVars, restarted>>

ApplyKeepsRevision(a) == \* variant: the memory copy keeps its revision
  /\ frame[a].stage = "apply"
  /\ mem' = [mem EXCEPT !.status = frame[a].tgt]
  /\ Stage(a, "inject")
  /\ UNCHANGED <<storeVars, eventVars, tokenVars, pc, localVars, restarted>>

\* The memory copy follows after the connection was released.
Apply(a) ==
  /\ frame[a].stage = "apply"
  /\ \/ /\ mem.rev = frame[a].exp
        /\ mem' = [status |-> frame[a].tgt, rev |-> frame[a].exp + 1]
        /\ Stage(a, "inject")
     \/ /\ mem.rev # frame[a].exp
        /\ Stage(a, IF mem.status \in Terminal THEN "ok" ELSE "err")
        /\ UNCHANGED mem
  /\ UNCHANGED <<storeVars, eventVars, tokenVars, pc, localVars, restarted>>

\* inject_committed, then the best-effort runs snapshot.
Inject(a) ==
  /\ frame[a].stage = "inject"
  /\ seq' = IF frame[a].slot > seq THEN frame[a].slot ELSE seq
  /\ seen' = seen \cup {frame[a].slot}
  /\ snap' = mem
  /\ Stage(a, "ok")
  /\ UNCHANGED <<db, mem, log, tokenVars, pc, localVars, restarted, stale>>

CommitStep(a) == Begin(a) \/ Tx(a) \/ Apply(a) \/ Inject(a)

----------------------------------------------------------------------------
(* Journal appends of the engine (EventSequencer::append): the next number  *)
(* is the one after the last the sequencer knows, and the row is refused by *)
(* UNIQUE(run_id, sequence) when a commit took it and has not injected yet. *)

AppendEvent ==
  /\ seq = Len(log)
  /\ log' = Append(log, EngineEvent)
  /\ seq' = seq + 1
  /\ seen' = seen \cup {seq + 1}

AppendRefused == seq < Len(log) /\ UNCHANGED <<log, seq, seen>>

Emitted == Cardinality({i \in DOMAIN log : log[i] = EngineEvent})

----------------------------------------------------------------------------
(* start_detached, start and ProductionRuntime::start_run.                  *)

rest == <<db, mem, snap, eventVars, log, tokenVars, restarted, stale>>

\* The caller looks at the row: an active run is returned as it is, a terminal
\* one is refused, and a queued one goes to mark_preparing.
StartRequest(s) ==
  /\ In(s, "idle")
  /\ IF mem.status \in RS!Active \cup Terminal
       THEN Goto(s, "done") /\ UNCHANGED frame
       ELSE Call(s, "preparing", "mark_preparing")
  /\ UNCHANGED <<rest, localVars>>

\* mark_preparing returned Ok: the snapshot is saved and the task spawned, whose
\* start() commits Preparing once more before anything else.
SpawnStart(s) ==
  /\ \/ Ok(s, "mark_preparing") /\ Call(s, "preparing", "preparing") /\ snap' = mem
     \/ Failed(s, "mark_preparing") /\ Return(s, "done") /\ UNCHANGED snap
  /\ UNCHANGED <<db, mem, log, eventVars, tokenVars, localVars, restarted, stale>>

StartPrepared(s) ==
  /\ \/ Ok(s, "preparing") /\ Return(s, "row1")
     \/ Failed(s, "preparing") /\ Call(s, "failed", "fail_run")
  /\ UNCHANGED <<rest, localVars>>

\* persist_run_row: every column of the row is overwritten.
PersistRow(r) ==
  /\ db' = r
  /\ stale' = (stale \/ r # db)

\* The upserts of the runtime id and of the capability snapshot happen under
\* the runs lock, with the entry as it is now.
PersistLocked(s) ==
  /\ \/ In(s, "row1") /\ Goto(s, "row2")
     \/ In(s, "row2") /\ Goto(s, "register")
  /\ PersistRow(mem)
  /\ UNCHANGED <<mem, snap, log, eventVars, tokenVars, frame, localVars, restarted>>

\* Capability resolution, the tool schemas or the harness plan are refused: the run
\* is failed here, and start's Err makes the spawned task fail it again.
PrepareFails(s) ==
  /\ In(s, "row2") \/ In(s, "register")
  /\ Call(s, "failed", "prep_failed")
  /\ UNCHANGED <<rest, localVars>>

PrepareFailed(s) ==
  /\ Ok(s, "prep_failed") \/ Failed(s, "prep_failed")
  /\ Call(s, "failed", "fail_run")
  /\ UNCHANGED <<rest, localVars>>

\* ensure_execution_token: an existing registration is reused.
Register(s) ==
  /\ In(s, "register")
  /\ entry' = IF entry = "none" THEN "live" ELSE entry
  /\ token' = [token EXCEPT ![s] = "registered"]
  /\ Goto(s, "clone")
  /\ UNCHANGED <<db, mem, snap, log, eventVars, handle, frame, localVars, restarted, stale>>

\* set_run_checkpoint_id clones the entry under the lock ...
CloneRow(s) ==
  /\ In(s, "clone")
  /\ row' = [row EXCEPT ![s] = mem]
  /\ Goto(s, "bind")
  /\ UNCHANGED <<rest, frame, out, quiet>>

\* ... and persists the clone after releasing it.
BindCheckpoint(s) ==
  /\ In(s, "bind")
  /\ PersistRow(row[s])
  /\ snap' = mem
  /\ row' = [row EXCEPT ![s] = NoRow]
  /\ Goto(s, "created_event")
  /\ UNCHANGED <<mem, log, eventVars, tokenVars, frame, out, quiet, restarted>>

\* CheckpointCreated before the engine and CheckpointCommitted after it; a
\* refused append fails the start.
CheckpointEvent(s, at, next) ==
  /\ In(s, at)
  /\ \/ AppendEvent /\ Goto(s, next) /\ UNCHANGED frame
     \/ AppendRefused /\ Call(s, "failed", "fail_run")
  /\ UNCHANGED <<db, mem, snap, tokenVars, localVars, restarted, stale>>

CheckpointCreated(s)   == CheckpointEvent(s, "created_event", "launch")
CheckpointCommitted(s) == CheckpointEvent(s, "committed_event", "outcome")

\* The engines map has one handle per run: the last one registered.
LaunchEngine(s) ==
  /\ In(s, "launch")
  /\ handle' = {s}
  /\ Goto(s, "engine")
  /\ UNCHANGED <<db, mem, snap, log, eventVars, entry, token, frame, localVars,
                 restarted, stale>>

EngineEmit(s) ==
  /\ In(s, "engine")
  /\ Emitted < MaxEmits
  /\ AppendEvent
  /\ UNCHANGED <<db, mem, snap, tokenVars, pc, frame, localVars, restarted, stale>>

\* The engine returns and the handle of the run is removed.  It may complete
\* although its token was cancelled, a provider may stop with "cancelled"
\* although it was not, and a refused critical event fails it.
EngineReturns(s) ==
  /\ In(s, "engine")
  /\ \E o \in Outcomes : out' = [out EXCEPT ![s] = o]
  /\ handle' = {}
  /\ Goto(s, "committed_event")
  /\ UNCHANGED <<db, mem, snap, log, eventVars, entry, token, frame, row, quiet,
                 restarted, stale>>

StartFailsSilently(s) == \* variant: the spawned task drops the Err of start
  /\ \E at \in {"register", "clone", "bind", "launch", "committed_event", "outcome"} :
       In(s, at)
  /\ Return(s, "done")
  /\ UNCHANGED <<rest, localVars>>

\* Every other error before, between and after these steps (schema limits, the
\* checkpoint, history, projection, prompt drain) is an Err of start.
StartFails(s) ==
  /\ \E at \in {"register", "clone", "bind", "launch", "committed_event", "outcome"} :
       In(s, at)
  /\ Call(s, "failed", "fail_run")
  /\ UNCHANGED <<rest, localVars>>

Engine(s) ==
  \/ Register(s) \/ CloneRow(s) \/ BindCheckpoint(s) \/ CheckpointCreated(s)
  \/ LaunchEngine(s) \/ EngineEmit(s) \/ EngineReturns(s) \/ CheckpointCommitted(s)
  \/ StartFails(s)

----------------------------------------------------------------------------
(* commit_outcome, ensure_running_before_terminal, fail_run_if_active.      *)

\* commit_outcome decides by the status it reads first.
OutcomeTarget(o) ==
  IF o = "cancelled" /\ mem.status # "cancelling" THEN "interrupted" ELSE o

CommitOutcome(s) ==
  /\ In(s, "outcome")
  /\ \/ mem.status \in Terminal /\ Goto(s, "done") /\ UNCHANGED out
     \/ /\ mem.status \notin Terminal
        /\ out' = [out EXCEPT ![s] = OutcomeTarget(out[s])]
        /\ Goto(s, "ensure_running")
  /\ UNCHANGED <<rest, frame, row, quiet>>

\* A run that never committed Running is bridged to it.  (It cannot still be
\* queued: start has committed Preparing.)
EnsureRunning(s) ==
  /\ In(s, "ensure_running")
  /\ IF mem.status = "preparing" /\ out[s] # "cancelled"
       THEN Call(s, "running", "bridged")
       ELSE Call(s, out[s], "settle")
  /\ UNCHANGED <<rest, localVars>>

Bridged(s) ==
  /\ \/ Ok(s, "bridged") /\ Call(s, out[s], "settle")
     \/ Failed(s, "bridged") /\ Call(s, "failed", "fail_run")
  /\ UNCHANGED <<rest, localVars>>

\* An Err of start reaches the spawned task, which calls fail_run_if_active
\* and ignores the result.
Settle(s) ==
  /\ \/ Ok(s, "settle") /\ Return(s, "done")
     \/ Failed(s, "settle") /\ Call(s, "failed", "fail_run")
  /\ out' = [out EXCEPT ![s] = "failed"]
  /\ UNCHANGED <<rest, row, quiet>>

FailRun(s) ==
  /\ Ok(s, "fail_run") \/ Failed(s, "fail_run")
  /\ Return(s, "done")
  /\ UNCHANGED <<rest, localVars>>

Start(s) ==
  \/ StartRequest(s) \/ SpawnStart(s) \/ StartPrepared(s) \/ PersistLocked(s)
  \/ PrepareFails(s) \/ PrepareFailed(s) \/ Engine(s)
  \/ CommitOutcome(s) \/ EnsureRunning(s) \/ Bridged(s) \/ Settle(s) \/ FailRun(s)

----------------------------------------------------------------------------
(* RunManager::cancel, cancel_run_tree, ExecutionRegistry::cancel_tree.     *)

CancelRequest(c) ==
  /\ In(c, "idle")
  /\ \/ mem.status \in Terminal /\ Goto(c, "done") /\ UNCHANGED frame
     \/ mem.status = "cancelling" /\ Goto(c, "signal") /\ UNCHANGED frame
     \/ /\ mem.status \notin Terminal \cup {"cancelling"}
        /\ Call(c, "cancelling", "journal")
  /\ UNCHANGED <<rest, localVars>>

\* When Cancelling cannot be committed the tree is still signalled and
\* cleaned, and the error is returned.
Journalled(c) ==
  /\ \/ Ok(c, "journal") /\ Return(c, "signal")
     \/ Failed(c, "journal") /\ Return(c, "signal_err")
  /\ UNCHANGED <<rest, localVars>>

\* signal_tree cancels the registered token, request_cancel the token of the
\* engine handle.  (cancel_tree signals a second time before it cleans.)
Signal(c) ==
  /\ \/ In(c, "signal") /\ Goto(c, "force")
     \/ In(c, "signal_err") /\ Goto(c, "force_err")
  /\ entry' = IF entry = "none" THEN "none" ELSE "cancelled"
  /\ token' = [s \in Starts |-> IF s \in handle /\ token[s] = "orphan"
                                 THEN "cancelled" ELSE token[s]]
  /\ UNCHANGED <<db, mem, snap, log, eventVars, handle, frame, localVars,
                 restarted, stale>>

\* Native runs attach no join handle and track no resource, so cancel_tree has
\* nothing to wait for: killing the run's processes succeeds and the entry is
\* dropped as it is now, or fails and the entry stays.
Cleaned ==
  /\ entry' = "none"
  /\ token' = [s \in Starts |->
                 IF token[s] # "registered" THEN token[s]
                 ELSE IF entry = "live" THEN "orphan" ELSE "cancelled"]

ForceCleanup(c) ==
  /\ \/ In(c, "force") /\ Goto(c, "quiet")
     \/ In(c, "force_err") /\ Goto(c, "done")
  /\ \/ Cleaned
     \/ entry # "none" /\ UNCHANGED <<entry, token>>
  /\ handle' = {}
  /\ UNCHANGED <<db, mem, snap, log, eventVars, frame, localVars, restarted, stale>>

TreeQuiet(c) ==
  /\ In(c, "quiet")
  /\ quiet' = [quiet EXCEPT ![c] = (entry = "none")]
  /\ Goto(c, "settle")
  /\ UNCHANGED <<rest, frame, row, out>>

CancelSettles(c) ==
  /\ In(c, "settle")
  /\ IF mem.status \in Terminal
       THEN Goto(c, "done") /\ UNCHANGED frame
       ELSE Call(c, IF quiet[c] THEN "cancelled" ELSE "failed", "end")
  /\ quiet' = [quiet EXCEPT ![c] = FALSE]
  /\ UNCHANGED <<rest, row, out>>

CommitReturns(a) ==
  /\ Ok(a, "end") \/ Failed(a, "end")
  /\ Return(a, "done")
  /\ UNCHANGED <<rest, localVars>>

Cancel(c) ==
  \/ CancelRequest(c) \/ Journalled(c) \/ Signal(c) \/ ForceCleanup(c)
  \/ TreeQuiet(c) \/ CancelSettles(c) \/ CommitReturns(c)

----------------------------------------------------------------------------
(* run.finish (rpc.rs): one commit_status with a terminal target.           *)

FinishRequest(f) ==
  /\ In(f, "idle")
  /\ \E t \in Endings : Call(f, t, "end")
  /\ UNCHANGED <<rest, localVars>>

Finish(f) == FinishRequest(f) \/ CommitReturns(f)

----------------------------------------------------------------------------
(* The process dies and a new one recovers: interrupt_active_sqlite_runs,   *)
(* restore_runs_snapshot, and the journal read back on first use.  Recovery *)
(* is idempotent, so one restart stands for any number of them.             *)

Unsettled == {"created", "queued"} \cup RS!Active

InterruptRowAll(r) == \* variant: settled rows are interrupted too
  [status |-> "interrupted", rev |-> r.rev + 1]

InterruptRow(r) ==
  IF r.status \in Unsettled THEN [status |-> "interrupted", rev |-> r.rev + 1] ELSE r

\* The snapshot entry keeps its revision; a created run is not looked for.
RestoreEntry(r) ==
  IF r.status \in RS!Active \cup {"queued"} THEN [r EXCEPT !.status = "interrupted"] ELSE r

Restart ==
  /\ ~restarted
  /\ restarted' = TRUE
  /\ db' = InterruptRow(db)
  /\ mem' = RestoreEntry(snap)
  /\ seq' = Len(log)
  /\ seen' = DOMAIN log
  /\ entry' = "none"
  /\ token' = [s \in Starts |-> "none"]
  /\ handle' = {}
  /\ pc' = [a \in Actors |-> IF pc[a] \in {"idle", "done"} THEN pc[a] ELSE "dead"]
  /\ frame' = [a \in Actors |-> NoFrame]
  /\ UNCHANGED <<snap, log, localVars, stale>>

----------------------------------------------------------------------------
Next ==
  \/ \E a \in Actors : CommitStep(a)
  \/ \E s \in Starts : Start(s)
  \/ \E c \in Cancels : Cancel(c)
  \/ \E f \in Finishes : Finish(f)
  \/ Restart

Spec == Init /\ [][Next]_vars

\* Requests may never come and the daemon may never die, but a request that was accepted runs on:
\* the runtime polls every spawned task.
Serve(a) ==
  \/ CommitStep(a)
  \/ a \in Starts /\ Start(a)
  \/ a \in Cancels /\ Cancel(a)
  \/ a \in Finishes /\ Finish(a)

FairSpec == Spec /\ \A a \in Actors : WF_vars(pc[a] # "idle" /\ Serve(a))

----------------------------------------------------------------------------
(* Correctness.                                                             *)

\* The types: commit_transition, the upserts and recovery store statuses that a
\* stored run can have.
TypeOK ==
  /\ db \in Row /\ mem \in Row /\ snap \in Row
  /\ log \in Seq(Stored \cup {EngineEvent})
  /\ seq \in Nat
  /\ seen \subseteq Nat
  /\ entry \in {"none", "live", "cancelled"}
  /\ token \in [Starts -> Tokens]
  /\ handle \subseteq Starts
  /\ pc \in [Actors -> Labels]
  /\ frame \in [Actors -> Frame]
  /\ row \in [Starts -> Row]
  /\ out \in [Starts -> Outcomes \cup {"interrupted"}]
  /\ quiet \in [Cancels -> BOOLEAN]
  /\ restarted \in BOOLEAN
  /\ stale \in BOOLEAN

TerminalEvents == {i \in DOMAIN log : log[i] \in Terminal}

\* Persist-first: no event reaches memory or a subscriber that the journal
\* does not hold, and the next number never skips a journal row.
PublishedIsDurable ==
  /\ seen \subseteq DOMAIN log
  /\ seq \in 1..Len(log)

\* A terminal status a client can read before a restart is the terminal event
\* of a journal row, whatever happened to the run row.
ShownIsJournalled ==
  ~restarted /\ mem.status \in Terminal =>
    \E i \in DOMAIN log : log[i] = mem.status

\* As long as no upsert has put an older row back, memory is the row or one
\* commit behind it, and the commit it misses is one an actor will apply.
MemoryFollowsRow ==
  ~stale /\ ~restarted =>
    \/ mem = db
    \/ /\ db.rev = mem.rev + 1
       /\ \E a \in Actors : /\ frame[a].stage = "apply"
                            /\ frame[a].exp = mem.rev
                            /\ frame[a].tgt = db.status

\* As long as no upsert has put an older row back, a run has at most one
\* terminal event, and until a restart a terminal row is that event.
OneTerminalFact ==
  ~stale =>
    /\ Cardinality(TerminalEvents) <= 1
    /\ ~restarted =>
         (db.status \in Terminal <=> \E i \in TerminalEvents : log[i] = db.status)

\* After recovery nothing is left for which a client would wait.
RecoveredIsSettled ==
  restarted => db.status \in Terminal /\ mem.status \in Terminal

\* Commits, upserts and recovery leave a settled row as it is, unless an
\* upsert puts an older row back in this very step.
SettledRowIsFinal ==
  [][db.status \in Terminal => db' = db \/ stale']_vars

\* What a client reads walks the status graph: RunStatus is implemented.
ImplementsRunStatus == RS!Spec

\* A start whose engine task was spawned and a cancel that journalled Cancelling settle their run,
\* unless an older row was put back: whatever fails on the way, neither start_detached nor cancel
\* leaves a run that nobody will settle, and a client that waits for its end does not wait for ever.
RunSettles ==
  (\/ \E s \in Starts : pc[s] = "preparing"
   \/ \E c \in Cancels : pc[c] = "signal") ~> (mem.status \in Terminal \/ stale)

================================================================================
