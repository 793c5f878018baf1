------------------------------- MODULE Transcript --------------------------------
(* The transcript of one conversation: the journal of its runs, the message rows that   *)
(* are made from it, and what the next run reads back.                                  *)
(*                                                                                      *)
(*   crates/agent-core/.../engine_core.rs    appends the facts of a run, compacts       *)
(*   conversation_projector.rs               makes rows of the committed turns          *)
(*   conversation_store.rs                   rows, context snapshots, the history       *)
(*   production.rs, run_manager.rs           start of a run, end of a run, daemon start *)
(*                                                                                      *)
(* The runs of the conversation follow one another. Texts and outputs are left out; a   *)
(* turn makes at most one call. Each append to the journal and each transaction is one  *)
(* action, and the daemon may go down between any two.                                  *)
EXTENDS Integers, FiniteSets, SequencesExt

CONSTANTS
  MaxRuns,         \* runs of the conversation
  MaxTurns,        \* turns of the conversation
  MaxSnapshots,    \* compactions
  KeepTail,        \* SUMMARY_KEEP_TAIL_MESSAGES
  Steering,        \* inputs queued for a running run
  MaxCrashes,      \* times the daemon goes down
  MaxFaults,       \* writes of the projector that fail
  MaxDamage        \* stored rows another version of the daemon left unreadable or changed

ASSUME TranscriptAssumption ==
  /\ {MaxRuns, MaxTurns, KeepTail} \subseteq Nat \ {0}
  /\ {MaxSnapshots, MaxCrashes, MaxFaults, MaxDamage} \subseteq Nat
  /\ Steering \subseteq Nat

Runs == 1 .. MaxRuns

VARIABLES
  phase,        \* what the daemon is doing
  run,          \* the last run that was started
  ctx,          \* typed_messages of its engine
  journal,      \* run_event rows of each run
  rows,         \* message rows, ordered by created_at
  filed,        \* the run and the turn each row of a compaction is kept under
  turnRows,     \* turn rows
  watermark,    \* projection_watermark.event_sequence
  quarantined,  \* projection_quarantine rows
  snapshots,    \* context_snapshot rows
  job,          \* the run that is being projected, and the turns still to do
  pending,      \* runs the start of the daemon has still to go through
  todo,         \* compactions of the run its backfill is at
  bad,          \* damaged payloads, contents and message rows
  crashes,      \* times the daemon may still go down
  faults,       \* writes that may still fail
  replaced      \* history variable: messages a summary in ctx stands for

storeVars == <<journal, rows, filed, turnRows, watermark, quarantined, snapshots>>
boundVars == <<bad, crashes, faults>>
vars == <<phase, run, ctx, storeVars, job, pending, todo, boundVars, replaced>>

Phases == {"idle", "running", "projecting", "backfill", "recovering"}

--------------------------------------------------------------------------------
(* Messages are known by their ids. *)

\* The elements of a sequence that are in a set, in their order.
Only(s, S) == FlattenSeq([i \in DOMAIN s |-> IF s[i] \in S THEN <<s[i]>> ELSE <<>>])

Without(s, S) == Only(s, ToSet(s) \ S)

MessageOf(kind, r, n) == [kind |-> kind, run |-> r, n |-> n]

Prompt(r)     == MessageOf("prompt", r, 0)
Reply(r, t)   == MessageOf("reply", r, t)
Result(r, t)  == MessageOf("result", r, t)
Queued(i)     == MessageOf("queued", 0, i)
Summary(r, k) == MessageOf("summary", r, k)
Notice(r, k)  == MessageOf("notice", r, k)

--------------------------------------------------------------------------------
(* The journal. "started" is TurnStarted with MessageStarted, "result" ToolCallCompleted,
   "completed" MessageCompleted with TurnCompleted, "compressed" ContextCompressed, "snapshot"
   ContextSnapshotCommitted. *)

Event(kind, turn) == [kind |-> kind, turn |-> turn, says |-> "none", inputs |-> {},
                      messages |-> <<>>, gone |-> {}]

Events(r, kind) == {k \in DOMAIN journal[r] : journal[r][k].kind = kind}

TurnOf(r) == Cardinality(Events(r, "started"))

Has(r, t, kind) == \E k \in Events(r, kind) : journal[r][k].turn = t

Committed(r, t) == Has(r, t, "completed")

LastSequence(r, t) ==
  CHOOSE k \in Events(r, "completed") : journal[r][k].turn = t

AllTurns == UNION {{<<r, k>> : k \in Events(r, "started")} : r \in Runs}

Compacted == UNION {{<<r, k>> : k \in Events(r, "snapshot")} : r \in Runs}

LastEvent == Last(journal[run]).kind

InTurn == TurnOf(run) > 0 /\ ~Committed(run, TurnOf(run))

\* project_committed_turn passes over a turn that is open and one without content.
Projectable(r, t) ==
  /\ Committed(r, t)
  /\ journal[r][LastSequence(r, t)].says = "something"

ResultsOf(r, t) == IF Has(r, t, "result") THEN <<Result(r, t)>> ELSE <<>>

TurnMessages(r, t) == <<Reply(r, t)>> \o ResultsOf(r, t)

\* What may be damaged: an event, the content of a MessageCompleted, a message row.
Payload(r, k) == <<"payload", r, k>>
Content(r, t) == <<"content", r, t>>
StoredRow(m)  == <<"row", m.kind, m.run, m.n>>

NoJob == [run |-> 0, turns |-> <<>>]

Init ==
  /\ phase = "idle" /\ run = 0 /\ ctx = <<>>
  /\ journal = [r \in Runs |-> <<>>]
  /\ rows = <<>> /\ filed = {} /\ turnRows = {} /\ watermark = [r \in Runs |-> 0]
  /\ quarantined = {} /\ snapshots = {}
  /\ job = NoJob /\ pending = {} /\ todo = {}
  /\ bad = {} /\ crashes = MaxCrashes /\ faults = MaxFaults
  /\ replaced = {}

--------------------------------------------------------------------------------
(* The start of a run. *)

\* ORDER BY sequence DESC LIMIT 1: the sequence is that of the event in its own run.
NewestSnapshots == {s \in snapshots : \A o \in snapshots : o.at <= s.at}

\* A mutant: the ids of the snapshot's own messages are not asked.
MergeByInputs(s, history) ==
  s.messages \o Without(history, s.inputs)

\* The messages of the snapshot, then the rows it has not taken in.
Merge(s, history) ==
  s.messages \o Without(history, s.inputs \cup ToSet(s.messages))

\* get_messages reads the events of every run it shows a reply of, for its reasoning.
Readable ==
  \A m \in ToSet(rows) : m.kind = "reply" => \A k \in DOMAIN journal[m.run] :
                                               Payload(m.run, k) \notin bad

\* The prompt is written first; the engine is given what is read back.
StartRun ==
  /\ phase = "idle"
  /\ run < MaxRuns
  /\ Readable
  /\ run' = run + 1
  /\ rows' = Append(rows, Prompt(run'))
  /\ \/ snapshots = {} /\ ctx' = rows' /\ replaced' = {}
     \/ \E s \in NewestSnapshots : ctx' = Merge(s, rows') /\ replaced' = s.gone
  /\ phase' = "running"
  /\ UNCHANGED <<journal, filed, turnRows, watermark, quarantined, snapshots, job, pending, todo,
                 boundVars>>

StartFails ==
  /\ phase = "idle"
  /\ run < MaxRuns
  /\ ~Readable
  /\ run' = run + 1
  /\ rows' = Append(rows, Prompt(run'))
  /\ ctx' = <<>> /\ replaced' = {}
  /\ UNCHANGED <<phase, journal, filed, turnRows, watermark, quarantined, snapshots, job, pending,
                 todo, boundVars>>

--------------------------------------------------------------------------------
(* The engine. *)

Record(events) == journal' = [journal EXCEPT ![run] = @ \o events]

EngineKeeps == UNCHANGED <<phase, run, filed, turnRows, watermark, quarantined, snapshots, job,
                           pending, todo, boundVars>>

BeginTurn ==
  /\ phase = "running"
  /\ ~InTurn /\ Cardinality(AllTurns) < MaxTurns
  /\ Record(<<Event("started", TurnOf(run) + 1)>>)
  /\ UNCHANGED <<rows, ctx, replaced>> /\ EngineKeeps

CallRuns ==
  /\ phase = "running"
  /\ InTurn
  /\ ~Has(run, TurnOf(run), "result")
  /\ Record(<<Event("result", TurnOf(run))>>)
  /\ UNCHANGED <<rows, ctx, replaced>> /\ EngineKeeps

\* MessageCompleted, then TurnCompleted: a turn with the first alone is as open as one with
\* neither.
CompleteTurn ==
  /\ phase = "running"
  /\ InTurn
  /\ Record(<<[Event("completed", TurnOf(run)) EXCEPT !.says = "something"]>>)
  /\ ctx' = ctx \o TurnMessages(run, TurnOf(run))
  /\ UNCHANGED <<rows, replaced>> /\ EngineKeeps

\* Between two turns the engine takes an input that waits; its row is written as it does.
TakeInput ==
  /\ phase = "running"
  /\ TurnOf(run) > 0 /\ LastEvent = "completed"
  /\ \E i \in Steering :
       /\ Queued(i) \notin ToSet(rows)
       /\ rows' = Append(rows, Queued(i))
       /\ ctx' = Append(ctx, Queued(i))
  /\ UNCHANGED <<journal, replaced>> /\ EngineKeeps

\* What a summary leaves: at least KeepTail messages, the first of them no result.
SummarySplit ==
  Max({0} \cup {i \in 1 .. Len(ctx) - KeepTail : ctx[i + 1].kind # "result"})

\* Once after a batch of calls, and once in a turn when the provider found the context too
\* long.
MayCompact ==
  /\ phase = "running"
  /\ TurnOf(run) > 0
  /\ \/ LastEvent = "started"
     \/ LastEvent = "completed" /\ Has(run, TurnOf(run), "result")
  /\ Cardinality(Compacted) < MaxSnapshots

Compressed(k) == [Event("compressed", TurnOf(run)) EXCEPT !.messages = <<Notice(run, k)>>]

\* The model's summary replaces the messages in front of the split; a mechanical compaction
\* trims outputs and keeps every message.
Compact ==
  LET k == Len(journal[run]) + 2
      summarised == <<Summary(run, k)>> \o SubSeq(ctx, SummarySplit + 1, Len(ctx))
  IN /\ MayCompact
     /\ \/ ctx' = ctx
        \/ SummarySplit > 0 /\ ctx' = summarised
     /\ replaced' = replaced \cup (ToSet(ctx) \ ToSet(ctx'))
     /\ Record(<<Compressed(k - 1),
                 [Event("snapshot", TurnOf(run)) EXCEPT !.inputs = ToSet(ctx),
                                                        !.messages = ctx',
                                                        !.gone = replaced']>>)
     /\ UNCHANGED rows /\ EngineKeeps

--------------------------------------------------------------------------------
(* The projection of a run. *)

TurnsOf(r) == [t \in 1 .. TurnOf(r) |-> t]

Project(r) == phase' = "projecting" /\ job' = [run |-> r, turns |-> TurnsOf(r)]

\* The engine returns wherever it is; both runtimes then project the run, from the memory of
\* the sequencer or from what is stored behind the watermark, which is all of it.
RunReturns ==
  /\ phase = "running"
  /\ Project(run)
  /\ UNCHANGED <<run, ctx, storeVars, pending, todo, boundVars, replaced>>

\* close_failed_turn of a turn that failed before it said anything.
CloseFailedTurn ==
  /\ phase = "running"
  /\ InTurn /\ ~Has(run, TurnOf(run), "result")
  /\ Record(<<[Event("completed", TurnOf(run)) EXCEPT !.says = "nothing"]>>)
  /\ Project(run)
  /\ UNCHANGED <<run, ctx, rows, filed, turnRows, watermark, quarantined, snapshots, pending, todo,
                 boundVars, replaced>>

\* A PostCompact hook refuses, or ContextSnapshotCommitted is not written: the run ends.
CompactionBreaks ==
  /\ MayCompact
  /\ Record(<<Compressed(Len(journal[run]) + 1)>>)
  /\ Project(run)
  /\ UNCHANGED <<run, ctx, rows, filed, turnRows, watermark, quarantined, snapshots, pending, todo,
                 boundVars, replaced>>

Quarantine(r, t) == quarantined' = quarantined \cup {<<r, t>>}

NextTurn == job' = [job EXCEPT !.turns = Tail(@)]

Projecting(r, t) ==
  /\ phase \in {"projecting", "recovering"}
  /\ job.turns # <<>>
  /\ r = job.run /\ t = Head(job.turns)

ProjectorKeeps == UNCHANGED <<phase, run, ctx, journal, filed, snapshots, pending, todo, boundVars,
                              replaced>>

PassTurn ==
  \E r \in Runs, t \in 1 .. MaxTurns :
    /\ Projecting(r, t)
    /\ ~Projectable(r, t)
    /\ NextTurn
    /\ UNCHANGED <<rows, turnRows, watermark, quarantined>> /\ ProjectorKeeps

\* The content does not parse, or a row is there with another content.
Unusable(r, t) ==
  Content(r, t) \in bad \/ \E m \in ToSet(TurnMessages(r, t)) : StoredRow(m) \in bad

QuarantineTurn ==
  \E r \in Runs, t \in 1 .. MaxTurns :
    /\ Projecting(r, t)
    /\ Projectable(r, t)
    /\ Unusable(r, t)
    /\ Quarantine(r, t)
    /\ NextTurn
    /\ UNCHANGED <<rows, turnRows, watermark>> /\ ProjectorKeeps

\* A mutant: the rows of the messages are inserted without a look at those that are there.
ProjectTurnAgain ==
  \E r \in Runs, t \in 1 .. MaxTurns :
    /\ Projecting(r, t)
    /\ Projectable(r, t)
    /\ ~Unusable(r, t)
    /\ turnRows' = turnRows \cup {<<r, t>>}
    /\ rows' = rows \o TurnMessages(r, t)
    /\ watermark' = [watermark EXCEPT ![r] = LastSequence(r, t)]
    /\ NextTurn
    /\ UNCHANGED quarantined /\ ProjectorKeeps

\* One transaction: the turn row, the messages that are missing, the watermark. A turn that
\* was there already never takes the watermark back.
ProjectTurn ==
  \E r \in Runs, t \in 1 .. MaxTurns :
    /\ Projecting(r, t)
    /\ Projectable(r, t)
    /\ ~Unusable(r, t)
    /\ turnRows' = turnRows \cup {<<r, t>>}
    /\ rows' = rows \o Without(TurnMessages(r, t), ToSet(rows))
    /\ watermark' = [watermark EXCEPT ![r] = IF <<r, t>> \in turnRows /\ @ > LastSequence(r, t)
                                             THEN @ ELSE LastSequence(r, t)]
    /\ NextTurn
    /\ UNCHANGED quarantined /\ ProjectorKeeps

\* A mutant: the turn is passed over like an open one.
FailurePassedOver ==
  /\ phase \in {"projecting", "recovering"}
  /\ job.turns # <<>>
  /\ faults > 0
  /\ faults' = faults - 1
  /\ NextTurn
  /\ UNCHANGED <<phase, run, ctx, storeVars, pending, todo, bad, crashes, replaced>>

\* A write fails, or one of those that come before the projection: the transaction is rolled
\* back and the rest of the run, in a recovery the rest of the runs, is left as it is.
ProjectionFails ==
  /\ \/ phase = "projecting" /\ job.turns # <<>>
     \/ phase = "recovering"
  /\ faults > 0
  /\ faults' = faults - 1
  /\ phase' = "idle" /\ job' = NoJob /\ pending' = {}
  /\ UNCHANGED <<run, ctx, storeVars, todo, bad, crashes, replaced>>

RunEnds ==
  /\ phase = "projecting"
  /\ job.turns = <<>>
  /\ phase' = "idle" /\ job' = NoJob
  /\ UNCHANGED <<run, ctx, storeVars, pending, todo, boundVars, replaced>>

--------------------------------------------------------------------------------
(* The daemon goes down and starts again. *)

Damageable ==
  UNION {{Payload(r, k) : k \in Events(r, "snapshot") \cup (DOMAIN journal[r] \cap {1})}
           \cup {Content(r, t) : t \in {u \in 1 .. TurnOf(r) : Committed(r, u)}} : r \in Runs}
    \cup {StoredRow(m) : m \in {o \in ToSet(rows) : o.kind \in {"reply", "result"}}}

\* The compactions backfill_context_snapshots makes rows of; an event it cannot read is passed
\* over.
Compactions(r) ==
  {k \in Events(r, "compressed") \cup Events(r, "snapshot") : Payload(r, k) \notin bad}

\* They are gone through in order.
NextCompaction(r, k) == <<r, k>> \in todo /\ \A c \in todo : k <= c[2]

SnapshotRow(r, k) ==
  [run |-> r, at |-> k, inputs |-> journal[r][k].inputs, messages |-> journal[r][k].messages,
   gone |-> journal[r][k].gone]

WriteSnapshot(r, k) == snapshots' = snapshots \cup {SnapshotRow(r, k)}

\* interrupt_active_sqlite_runs settles the run; a damaged row is met on the way up. A backfill
\* that was at work may have written the snapshot of a compaction, and not its message. Bound:
\* the first event of a run stands for all of them but the snapshots.
Crash ==
  /\ crashes > 0
  /\ crashes' = crashes - 1
  /\ phase' = "backfill"
  /\ ctx' = <<>> /\ replaced' = {} /\ job' = NoJob
  /\ pending' = {r \in Runs : Events(r, "snapshot") # {}} /\ todo' = {}
  /\ \/ UNCHANGED snapshots
     \/ \E r \in Runs : \E k \in Compactions(r) : NextCompaction(r, k) /\ WriteSnapshot(r, k)
  /\ \/ UNCHANGED bad
     \/ /\ Cardinality(bad) < MaxDamage
        /\ \E d \in Damageable : bad' = bad \cup {d}
  /\ UNCHANGED <<run, journal, rows, filed, turnRows, watermark, quarantined, faults>>

\* The message a compaction makes a row of: its notice, or the first summary in what it left,
\* which after a mechanical compaction is one an earlier compaction made; or none.
MessageMade(r, k) ==
  LET left == journal[r][k].messages
      kind == IF journal[r][k].kind = "compressed" THEN "notice" ELSE "summary"
  IN {left[i] : i \in {j \in DOMAIN left : /\ left[j].kind = kind
                                           /\ \A l \in 1 .. j - 1 : left[l].kind # kind}}

\* The run and the turn its row is kept under. That of a notice is asked of the events in front,
\* and is none, 0, when none of them can be read, and whenever the snapshot was there already.
Place(r, k) ==
  LET turnUnknown == \A j \in 1 .. k - 1 :
                       journal[r][j].kind \in {"started", "completed"} => Payload(r, j) \in bad
  IN <<r, IF /\ journal[r][k].kind = "compressed"
             /\ SnapshotRow(r, k) \in snapshots \/ turnUnknown
          THEN 0 ELSE journal[r][k].turn>>

\* A row is there under another run or turn ("summary message identity collision"), or the turn
\* has no row that the new one could refer to.
Refused(r, k, m) ==
  IF m \in ToSet(rows)
  THEN <<m, Place(r, k)>> \notin filed
  ELSE Place(r, k)[2] # 0 /\ Place(r, k) \notin turnRows

\* A message and its block are written as one.
File(r, k, m) ==
  /\ filed' = filed \cup {<<m, Place(r, k)>>}
  /\ rows' = IF m \in ToSet(rows) THEN rows ELSE Append(rows, m)

StartupKeeps == UNCHANGED <<run, ctx, journal, turnRows, watermark, bad, crashes, replaced>>

BackfillRun ==
  /\ phase = "backfill"
  /\ todo = {}
  /\ \E r \in pending :
       /\ todo' = {<<r, k>> : k \in Compactions(r)}
       /\ pending' = pending \ {r}
  /\ UNCHANGED <<phase, rows, filed, quarantined, snapshots, job, faults>> /\ StartupKeeps

\* A snapshot and its message, each unless it is there.
BackfillCompaction ==
  /\ phase = "backfill"
  /\ \E r \in Runs : \E k \in Compactions(r) :
       /\ NextCompaction(r, k)
       /\ WriteSnapshot(r, k)
       /\ \/ MessageMade(r, k) = {} /\ UNCHANGED <<rows, filed>>
          \/ \E m \in MessageMade(r, k) : ~Refused(r, k, m) /\ File(r, k, m)
       /\ todo' = todo \ {<<r, k>>}
  /\ UNCHANGED <<phase, quarantined, job, pending, faults>> /\ StartupKeeps

\* A mutant: a run with a watermark has been projected.
NeverProjected ==
  {r \in Runs : Events(r, "completed") # {} /\ watermark[r] = 0}

NeedRecovery ==
  {r \in Runs : \E k \in Events(r, "completed") : k > watermark[r]}

\* The error of one compaction is the end of the backfill, whatever runs are left.
BackfillStops ==
  /\ phase = "backfill"
  /\ phase' = "recovering" /\ pending' = NeedRecovery /\ todo' = {}
  /\ UNCHANGED <<rows, filed, quarantined, job>> /\ StartupKeeps

BackfillRefused ==
  /\ BackfillStops
  /\ \E r \in Runs : \E k \in Compactions(r) :
       /\ NextCompaction(r, k)
       /\ \E m \in MessageMade(r, k) : Refused(r, k, m)
       /\ WriteSnapshot(r, k)
  /\ UNCHANGED faults

\* A snapshot and its message are not one transaction.
BackfillFails ==
  /\ BackfillStops
  /\ faults > 0
  /\ faults' = faults - 1
  /\ \E r \in Runs : \E k \in Compactions(r) :
       NextCompaction(r, k) /\ (UNCHANGED snapshots \/ WriteSnapshot(r, k))

BackfillEnds ==
  /\ BackfillStops
  /\ pending = {} /\ todo = {}
  /\ UNCHANGED <<snapshots, faults>>

\* A run with an event that does not parse is quarantined as a whole.
RecoverRun ==
  /\ phase = "recovering"
  /\ job.turns = <<>>
  /\ \E r \in pending :
       /\ pending' = pending \ {r}
       /\ \/ /\ \A k \in DOMAIN journal[r] : Payload(r, k) \notin bad
             /\ job' = [run |-> r, turns |-> TurnsOf(r)]
             /\ UNCHANGED quarantined
          \/ /\ \E k \in DOMAIN journal[r] : Payload(r, k) \in bad
             /\ Quarantine(r, 0)
             /\ job' = NoJob
  /\ UNCHANGED <<phase, rows, filed, snapshots, todo, faults>> /\ StartupKeeps

RecoveryEnds ==
  /\ phase = "recovering"
  /\ job.turns = <<>> /\ pending = {}
  /\ phase' = "idle" /\ job' = NoJob
  /\ UNCHANGED <<pending, todo, rows, filed, quarantined, snapshots, faults>> /\ StartupKeeps

--------------------------------------------------------------------------------
Engine == BeginTurn \/ CallRuns \/ CompleteTurn \/ TakeInput \/ Compact

Projector == PassTurn \/ QuarantineTurn \/ ProjectTurn \/ ProjectionFails

Backfill == BackfillRun \/ BackfillCompaction \/ BackfillRefused \/ BackfillFails \/ BackfillEnds

Startup == Backfill \/ RecoverRun \/ RecoveryEnds

Next ==
  \/ StartRun \/ StartFails
  \/ Engine \/ RunReturns \/ CloseFailedTurn \/ CompactionBreaks
  \/ Projector \/ RunEnds
  \/ Crash \/ Startup

Spec == Init /\ [][Next]_vars

--------------------------------------------------------------------------------
(* Properties. *)

\* Every variable keeps its type.
TypeOK ==
  /\ phase \in Phases
  /\ run \in 0 .. MaxRuns
  /\ \A r \in Runs : watermark[r] \in 0 .. Len(journal[r])
  /\ turnRows \subseteq Runs \X (1 .. MaxTurns)
  /\ quarantined \subseteq Runs \X (0 .. MaxTurns)
  /\ job.run \in 0 .. MaxRuns
  /\ pending \subseteq Runs
  /\ todo \subseteq Runs \X Nat
  /\ crashes \in 0 .. MaxCrashes /\ faults \in 0 .. MaxFaults

\* The watermark never passes a turn that is neither projected nor quarantined, whatever fails
\* and whenever the daemon goes down: recovery asks nothing but the watermark
\* (runs_needing_recovery), and would never come back to it.
WatermarkCovers ==
  \A r \in Runs, t \in 1 .. MaxTurns :
    Projectable(r, t) /\ LastSequence(r, t) <= watermark[r]
      => <<r, t>> \in turnRows \cup quarantined

\* The rows of a turn are there together or not at all, and none is there twice, however
\* often the run is projected again (project_committed_turn: "either nothing or everything").
TurnsAreWhole ==
  /\ \A r \in Runs, t \in 1 .. MaxTurns :
       LET there == ToSet(TurnMessages(r, t)) \cap ToSet(rows)
       IN there = IF <<r, t>> \in turnRows THEN ToSet(TurnMessages(r, t)) ELSE {}
  /\ IsInjective(rows)

\* A recovery in which no write failed leaves no committed turn behind: it is projected, or
\* its quarantine, or that of its run, says so.
RecoveryHandlesAll ==
  [][phase = "recovering" /\ phase' = "idle" /\ faults' = faults
       => \A r \in Runs, t \in 1 .. MaxTurns :
            Projectable(r, t) => {<<r, t>>, <<r, 0>>} \cap (turnRows' \cup quarantined') # {}]_vars

\* What a run starts from can be sent to a provider: behind a reply that made a call stands
\* its result, and no result stands alone, through projection, restart, compaction and the
\* merge of a snapshot with the rows (the assumption the module Engine makes of Histories).
ContextIsPaired ==
  \A i \in DOMAIN ctx :
    /\ ctx[i].kind = "reply" /\ Has(ctx[i].run, ctx[i].n, "result")
         => i < Len(ctx) /\ ctx[i + 1] = Result(ctx[i].run, ctx[i].n)
    /\ ctx[i].kind = "result" => i > 1 /\ ctx[i - 1] = Reply(ctx[i].run, ctx[i].n)

\* As long as nothing failed and nothing is damaged, a run knows all that was said before it:
\* every prompt, every input taken and every committed turn is in its context, or a summary
\* there stands for it; and it knows nothing twice.
ContextIsComplete ==
  phase = "running" /\ faults = MaxFaults /\ bad = {} =>
    /\ \A r \in 1 .. run - 1, t \in 1 .. MaxTurns :
         Projectable(r, t) => ToSet(TurnMessages(r, t)) \subseteq ToSet(ctx) \cup replaced
    /\ \A m \in ToSet(rows) :
         m.kind \in {"prompt", "queued"} => m \in ToSet(ctx) \cup replaced
    /\ IsInjective(ctx)

\* What the next run starts from is whole: nothing said is missing and nothing in it is torn.
ContextIsWhole == ContextIsPaired /\ ContextIsComplete

\* The start "idempotently projects any missing rows", and "it is safe to run on every daemon
\* start" (conversation_store.rs, backfill_context_snapshots): when the turn of every compaction
\* is projected, and no write fails, each one that was committed has its snapshot afterwards.
BackfillRepairs ==
  [][(phase = "backfill" /\ phase' = "recovering" /\ faults' = faults)
       => \/ \E c \in Compacted : <<c[1], journal[c[1]][c[2]].turn>> \notin turnRows
          \/ \A c \in Compacted :
               Payload(c[1], c[2]) \notin bad => SnapshotRow(c[1], c[2]) \in snapshots']_vars

\* "The daemon uses the id set to append messages written after compaction"
\* (conversation_store.rs, ActiveContextSnapshot): what a summary stands for is not in the
\* context beside it.
ReplacedStaysOut == phase = "running" => ToSet(ctx) \cap replaced = {}

================================================================================
