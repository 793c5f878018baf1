-------------------------------- MODULE Engine ---------------------------------
(* The loop of the agent engine (crates/agent-core/src/engine/engine_core.rs,           *)
(* AgentEngine::run_inner): a turn asks the provider, collects its stream, prepares and *)
(* runs the tools it called, commits the turn to the journal, takes the inputs that     *)
(* wait, compacts the transcript and goes round.                                        *)
(*                                                                                      *)
(* Each action runs from one await of the code to the next. A cancel may come between   *)
(* any two. A write of a critical fact may fail (MaxFaults of them), a hook may deny or *)
(* refuse, the provider may answer anything.                                            *)
EXTENDS Compaction

CONSTANTS
  MaxSteps,        \* config.max_steps
  MaxAttempts,     \* MAX_PROVIDER_ATTEMPTS
  HistoryLimit,    \* messages from which on a transcript is compacted
  KeepTail,        \* SUMMARY_KEEP_TAIL_MESSAGES
  MinPrefix,       \* SUMMARY_MIN_PREFIX_MESSAGES
  MaxSummaries,    \* SUMMARY_MAX_ATTEMPTS
  MaxRefusals,     \* SUMMARY_MAX_FAILURES
  DoomRounds,      \* rounds of a repetition that end a run (3 for a period of one)
  Reasons,         \* stop reasons the provider gives: members of StopReasons
  CallIds,         \* ids a provider gives its calls; it may use one again in a later turn
  MaxBatch,        \* calls in one answer
  Steering,        \* inputs the user queues for the next tool batch
  FollowUps,       \* inputs the user queues for the end of the answer
  Histories,       \* transcripts a run may start with
  MaxFaults        \* writes that fail

StopReasons == {"stop", "tool_use", "length", "cancelled", "error", "unknown"}

Roles == {"user", "assistant", "tool", "system"}

HistoryMessages == [role : Roles, ids : Seq(CallIds), turn : {0}]

ASSUME EngineAssumption ==
  /\ {MaxSteps, MaxAttempts, DoomRounds, KeepTail} \subseteq Nat \ {0}
  /\ {HistoryLimit, MinPrefix, MaxSummaries, MaxRefusals, MaxBatch, MaxFaults}
       \subseteq Nat
  /\ Steering \cup FollowUps \subseteq Nat \ {0}
  /\ Steering \cap FollowUps = {}
  /\ IsFiniteSet(Steering \cup FollowUps)
  /\ Reasons \subseteq StopReasons
  /\ Histories \subseteq Seq(HistoryMessages)
  /\ \A h \in Histories : Paired(h)

Outcomes == {"completed", "cancelled", "failed", "error", "hook_refused", "recovery_blocked"}

VARIABLES
  pc,           \* the await the engine is at
  outcome,      \* what run_inner returned
  transcript,   \* typed_messages
  step,         \* the turn
  attempt,      \* generation attempts of the turn
  overflowed,   \* overflow_compacted
  reply,        \* text_acc, tool_acc, completed_reason
  batch,        \* the prepared calls
  together,     \* batch_parallel
  at,           \* the call of the batch execute_prepared_tools is at
  ran,          \* <<turn, i>>: calls whose handler was run
  poisoned,     \* a handler answered PERSISTENCE_FAILED
  summary,      \* summary_attempts, summary_failures; the inputs summaries took the place of
  facts,        \* the journal of the run: <<fact, turn, i>>
  cancelled,    \* the cancel token
  acked,        \* inputs acknowledged: their rows are user messages of the conversation
  sent,         \* inputs the last request showed
  faults        \* writes that may still fail

turnVars == <<step, attempt, overflowed>>
toolVars == <<batch, together, at, ran, poisoned>>
vars == <<pc, outcome, transcript, turnVars, reply, toolVars, summary, facts, cancelled,
          acked, sent, faults>>

NoReply == [text |-> FALSE, calls |-> <<>>, reason |-> "none"]

\* The history of the conversation, the current prompt behind it. Messages the hooks inject
\* in front have no pairs and are left out.
Init ==
  /\ pc = "hooks"
  /\ outcome = "none"
  /\ transcript \in {Append(h, Message("user", <<>>, 0)) : h \in Histories}
  /\ step = 0 /\ attempt = 1 /\ overflowed = FALSE
  /\ reply = NoReply
  /\ batch = <<>> /\ together = FALSE /\ at = 1 /\ ran = {} /\ poisoned = FALSE
  /\ summary = [tried |-> 0, failed |-> 0, replaced |-> {}]
  /\ facts = {}
  /\ cancelled = FALSE
  /\ acked = {} /\ sent = {}
  /\ faults = MaxFaults

End(o) == pc' = "ended" /\ outcome' = o

--------------------------------------------------------------------------------
(* The journal. *)

Fact(kind, t) == <<kind, t, 0>>
CallFact(kind, t, i) == <<kind, t, i>>

\* append_critical of each of the facts.
Commit(fs) == facts' = facts \cup ToSet(fs) /\ UNCHANGED faults

\* One of the appends fails: what is before it is durable, the run ends.
CommitFails(fs) ==
  /\ faults > 0
  /\ faults' = faults - 1
  /\ \E n \in 0 .. Len(fs) - 1 : facts' = facts \cup ToSet(SubSeq(fs, 1, n))
  /\ End("error")

TurnClosing == <<Fact("MessageCompleted", step), Fact("TurnCompleted", step)>>

\* close_failed_turn, then the return.
CloseTurn(o) ==
  /\ \/ Commit(TurnClosing) /\ End(o)
     \/ CommitFails(TurnClosing)
  /\ UNCHANGED <<transcript, turnVars, reply, toolVars, summary, cancelled, acked, sent>>

--------------------------------------------------------------------------------
(* Asking the provider. *)

Inputs == Steering \cup FollowUps

InputsIn(msgs) == {i \in Inputs : Message("user", <<>>, i) \in ToSet(msgs)}

\* The inputs a request shows: the ones in it, and the ones the summary in it stands for.
Shown(msgs, replaced) ==
  InputsIn(msgs)
    \cup {i \in replaced : \E m \in ToSet(msgs) : m.role = "system" /\ m.turn > 0}

\* stream_turn is called with a copy of the transcript.
Ask(msgs, replaced) == pc' = "connect" /\ sent' = Shown(msgs, replaced)

\* SessionStart and UserPromptSubmit may deny the run.
StartHooks ==
  /\ pc = "hooks"
  /\ \/ pc' = "top" /\ UNCHANGED outcome
     \/ End("error")
  /\ UNCHANGED <<transcript, turnVars, reply, toolVars, summary, facts, cancelled, acked,
                 sent, faults>>

BeginTurn ==
  /\ pc = "top"
  /\ ~cancelled
  /\ step < MaxSteps
  /\ step' = step + 1
  /\ attempt' = 1
  /\ overflowed' = FALSE
  /\ LET opening == <<Fact("TurnStarted", step'), Fact("MessageStarted", step')>>
     IN \/ Commit(opening) /\ Ask(transcript, summary.replaced) /\ UNCHANGED outcome
        \/ CommitFails(opening) /\ UNCHANGED sent
  /\ UNCHANGED <<transcript, reply, toolVars, summary, cancelled, acked>>

EndBetweenTurns ==
  /\ pc = "top"
  /\ \/ cancelled /\ End("cancelled")
     \/ ~cancelled /\ step = MaxSteps /\ End("error")
  /\ UNCHANGED <<transcript, turnVars, reply, toolVars, summary, facts, cancelled, acked,
                 sent, faults>>

Connected ==
  /\ pc = "connect"
  /\ pc' = "stream"
  /\ reply' = NoReply
  /\ UNCHANGED <<outcome, transcript, turnVars, toolVars, summary, facts, cancelled, acked,
                 sent, faults>>

\* A mutant: every overflow is answered by a compaction.
MayCompactAgain == TRUE

\* One compaction of a turn is tried for an overflow; MAX_PROVIDER_ATTEMPTS is not asked.
MayCompact == ~overflowed

\* Bound: the count stops one above the limit, where an overflow of the last attempt takes it.
NextAttempt == Min({attempt + 1, MaxAttempts + 1})

WillRetry == pc' = "backoff" /\ UNCHANGED <<outcome, transcript, turnVars, reply, toolVars,
                                            summary, facts, cancelled, acked, sent, faults>>

\* stream_turn answers an error: the run was cancelled, or the error can be retried, or the
\* context is too long, or it is another.
ConnectFails ==
  /\ pc = "connect"
  /\ \/ CloseTurn("cancelled")
     \/ ~cancelled /\ attempt < MaxAttempts /\ WillRetry
     \/ /\ ~cancelled
        /\ MayCompact
        /\ overflowed' = TRUE
        /\ attempt' = NextAttempt
        /\ pc' = "overflow"
        /\ UNCHANGED <<outcome, transcript, step, reply, toolVars, summary, facts, cancelled,
                       acked, sent, faults>>
     \/ ~cancelled /\ CloseTurn("error")

\* sleep_provider_backoff races the cancel token.
Backoff ==
  /\ pc = "backoff"
  /\ \/ cancelled /\ CloseTurn("cancelled")
     \/ /\ ~cancelled
        /\ attempt' = NextAttempt
        /\ Ask(transcript, summary.replaced)
        /\ UNCHANGED <<outcome, transcript, step, overflowed, reply, toolVars, summary, facts,
                       cancelled, acked, faults>>

--------------------------------------------------------------------------------
(* The stream. *)

Silent(r) == ~r.text /\ r.calls = <<>>

\* The loop of attempts is left; its variables are gone with it.
Received(reason) ==
  /\ pc' = "received"
  /\ reply' = [reply EXCEPT !.reason = reason]
  /\ attempt' = 1
  /\ overflowed' = FALSE
  /\ UNCHANGED outcome

\* What follows the last event, with the stop reason the loop left.
Settle(reason) ==
  \/ cancelled /\ reply.calls = <<>> /\ CloseTurn("cancelled")
  \/ /\ reason = "none" /\ reply.calls # <<>>
     /\ Received("unknown")
     /\ UNCHANGED <<transcript, step, toolVars, summary, facts, cancelled, acked, sent, faults>>
  \/ ~cancelled /\ Silent(reply) /\ attempt < 2 /\ WillRetry
  \/ ~cancelled /\ Silent(reply) /\ attempt >= 2 /\ CloseTurn("error")
  \/ /\ reply.calls # <<>> => reason # "none"
     /\ ~Silent(reply)
     /\ cancelled => reply.calls # <<>>
     /\ \/ /\ Commit(<<Fact("GenerationAttemptCommitted", step)>>)
           /\ Received(reason)
        \/ /\ CommitFails(<<Fact("GenerationAttemptCommitted", step)>>)
           /\ UNCHANGED <<reply, attempt, overflowed>>
     /\ UNCHANGED <<transcript, step, toolVars, summary, cancelled, acked, sent>>

Receive(r) ==
  /\ pc = "stream"
  /\ ~cancelled
  /\ reply.reason = "none"
  /\ reply' = r
  /\ UNCHANGED <<pc, outcome, transcript, turnVars, toolVars, summary, facts, cancelled, acked,
                 sent, faults>>

TextDelta == ~reply.text /\ Receive([reply EXCEPT !.text = TRUE])

ToolCallDelta ==
  /\ Len(reply.calls) < MaxBatch
  /\ \E id \in CallIds : Receive([reply EXCEPT !.calls = Append(@, id)])

CompletedWithReason == \E r \in Reasons : Receive([reply EXCEPT !.reason = r])

\* An error event: retried when nothing was generated yet, fatal otherwise, except that calls
\* that were begun are still answered.
StreamError ==
  /\ pc = "stream"
  /\ ~cancelled
  /\ \/ Silent(reply) /\ attempt < MaxAttempts /\ WillRetry
     \/ reply.calls # <<>> /\ Settle("error")
     \/ reply.calls = <<>> /\ CloseTurn("error")

\* Any event that is read after the cancel.
StreamCancelled ==
  /\ pc = "stream"
  /\ cancelled
  /\ \/ reply.calls # <<>> /\ Settle("cancelled")
     \/ reply.calls = <<>> /\ CloseTurn("cancelled")

StreamEnds == pc = "stream" /\ Settle(reply.reason)

--------------------------------------------------------------------------------
(* An answer without calls. *)

\* A mutant: the turn is left to be closed after the follow-ups.
AnswerLeftOpen ==
  /\ pc = "received"
  /\ reply.calls = <<>>
  /\ transcript' = Append(transcript, Message("assistant", <<>>, step))
  /\ pc' = "follow_up"
  /\ UNCHANGED <<outcome, turnVars, reply, toolVars, summary, facts, cancelled, acked, sent,
                 faults>>

\* The answer is pushed and the turn closed before a follow-up is taken.
Answer ==
  /\ pc = "received"
  /\ reply.calls = <<>>
  /\ transcript' = Append(transcript, Message("assistant", <<>>, step))
  /\ \/ Commit(TurnClosing) /\ pc' = "follow_up" /\ UNCHANGED outcome
     \/ CommitFails(TurnClosing)
  /\ UNCHANGED <<turnVars, reply, toolVars, summary, cancelled, acked, sent>>

\* The detector finds the text, or the calls, of the run to repeat.
CallsObserved == Cardinality({f \in facts : f[1] = "ToolCallPrepared"})

DoomedByText ==
  /\ pc = "received"
  /\ reply.text /\ step >= DoomRounds
  /\ CloseTurn("error")

AsUser(i) == Message("user", <<>>, i)

\* The inputs that wait are leased together, and acknowledged one by one. Ends the run when
\* an acknowledgement fails.
Taken(inputs) ==
  /\ acked' = acked \cup inputs
  /\ \E order \in [1 .. Cardinality(inputs) -> inputs] :
       /\ Range(order) = inputs
       /\ \A i, j \in DOMAIN order : i < j => order[i] < order[j]
       /\ transcript' = transcript \o [i \in DOMAIN order |-> AsUser(order[i])]

AckFails(inputs) ==
  /\ faults > 0
  /\ faults' = faults - 1
  /\ \E n \in {0} \cup inputs : acked' = acked \cup {i \in inputs : i < n}
  /\ End("error")

\* A mutant: the loop is not continued when a follow-up was taken.
FollowUpForgotten ==
  /\ pc = "follow_up"
  /\ \E inputs \in SUBSET (FollowUps \ acked) \ {{}} : Taken(inputs)
  /\ End("completed")
  /\ reply' = NoReply
  /\ UNCHANGED <<turnVars, toolVars, summary, facts, cancelled, sent, faults>>

\* Which of the inputs have arrived by now is up to the user.
FollowUp ==
  /\ pc = "follow_up"
  /\ \E inputs \in SUBSET (FollowUps \ acked) \ {{}} :
       \/ Taken(inputs) /\ pc' = "top" /\ UNCHANGED <<outcome, faults>>
       \/ AckFails(inputs) /\ UNCHANGED transcript
  /\ reply' = NoReply
  /\ UNCHANGED <<turnVars, toolVars, summary, facts, cancelled, sent>>

AnswerOutcome(reason) ==
  CASE reason = "cancelled" -> "cancelled"
    [] reason \in {"error", "unknown"} -> "failed"
    [] OTHER -> "completed"

\* No follow-up waits; the Stop hook may deny.
Finish ==
  /\ pc = "follow_up"
  /\ \/ End(AnswerOutcome(reply.reason))
     \/ End("error")
  /\ UNCHANGED <<transcript, turnVars, reply, toolVars, summary, facts, cancelled, acked,
                 sent, faults>>

--------------------------------------------------------------------------------
(* An answer with calls. *)

\* A mutant: a stop is taken for the end of the calls.
AuthorisedByStop(reason) == reason \in {"tool_use", "stop"}

\* Only a stop for tool use authorises a call.
Authorised(reason) == reason = "tool_use"

PreparedFacts(n) ==
  FlattenSeq([i \in 1 .. n |-> <<CallFact("ToolCallRequested", step, i),
                                 CallFact("ToolCallPrepared", step, i)>>])

\* Arguments that do not parse and calls a PreToolUse hook denies are rejected. The batch is
\* parallel when the calls that are left are all safe and claim different keys.
Prepare ==
  /\ pc = "received"
  /\ reply.calls # <<>>
  /\ \E denied \in SUBSET DOMAIN reply.calls, parallel \in BOOLEAN :
       /\ batch' = [i \in DOMAIN reply.calls |->
                      [id |-> reply.calls[i],
                       rejected |-> ~Authorised(reply.reason) \/ i \in denied]]
       /\ together' = parallel
  /\ at' = 1
  /\ \/ Commit(PreparedFacts(Len(reply.calls))) /\ pc' = "execute" /\ UNCHANGED outcome
     \/ CommitFails(PreparedFacts(Len(reply.calls)))
  /\ UNCHANGED <<transcript, turnVars, reply, ran, poisoned, summary, cancelled, acked, sent>>

\* The calls in front of the one that repeats were prepared; the turn stays open.
DoomedByCalls ==
  /\ pc = "received"
  /\ \E n \in 0 .. Len(reply.calls) - 1 :
       /\ CallsObserved + n + 1 >= DoomRounds
       /\ facts' = facts \cup ToSet(PreparedFacts(n))
  /\ End("error")
  /\ UNCHANGED <<transcript, turnVars, reply, toolVars, summary, cancelled, acked, sent, faults>>

Executing == pc = "execute" /\ at <= Len(batch)

\* The calls whose handlers run with the one at "at".
Group ==
  IF together
  THEN {i \in at .. Len(batch) : \A k \in at .. i : ~batch[k].rejected}
  ELSE {at}

RunCalls ==
  /\ Executing
  /\ ~batch[at].rejected
  /\ <<step, at>> \notin ran
  /\ ran' = ran \cup {<<step, i>> : i \in Group}
  /\ \/ UNCHANGED <<poisoned, faults>>
     \/ faults > 0 /\ poisoned' = TRUE /\ faults' = faults - 1
  /\ UNCHANGED <<pc, outcome, transcript, turnVars, reply, batch, together, at, summary, facts,
                 cancelled, acked, sent>>

\* A mutant: the run is cancelled and the call not marked.
CompletionFailsSilently ==
  /\ cancelled' = TRUE
  /\ faults > 0 /\ faults' = faults - 1
  /\ End("error")
  /\ UNCHANGED <<facts, at>>

\* ToolCallCompleted cannot be appended: the call is marked uncertain, the run is cancelled.
CompletionFails ==
  /\ cancelled' = TRUE
  /\ \/ /\ faults > 0 /\ faults' = faults - 1
        /\ facts' = facts \cup {CallFact("Uncertain", step, at)}
        /\ End("error")
     \/ /\ faults > 1 /\ faults' = faults - 2
        /\ UNCHANGED facts
        /\ End("recovery_blocked")
  /\ UNCHANGED at

\* A rejected call is answered without its handler.
ConcludeCall ==
  /\ Executing
  /\ batch[at].rejected \/ <<step, at>> \in ran
  /\ \/ /\ Commit(<<CallFact("ToolCallCompleted", step, at)>>)
        /\ at' = at + 1
        /\ UNCHANGED <<pc, outcome, cancelled>>
     \/ CompletionFails
  /\ UNCHANGED <<transcript, turnVars, reply, batch, together, ran, poisoned, summary, acked,
                 sent>>

\* A post hook answers a decision that cannot be honoured.
PostHookRefuses ==
  /\ Executing
  /\ <<step, at>> \in ran
  /\ End("hook_refused")
  /\ UNCHANGED <<transcript, turnVars, reply, toolVars, summary, facts, cancelled, acked, sent,
                 faults>>

\* A mutant: rejected calls have no result.
ResultsOfHandlers(calls) ==
  LET Ran(call) == ~call.rejected
      some == SelectSeq(calls, Ran)
  IN [i \in DOMAIN some |-> Message("tool", <<some[i].id>>, step)]

ResultsOf(calls) == [i \in DOMAIN calls |-> Message("tool", <<calls[i].id>>, step)]

\* The answer and its results are pushed, and the turn is closed.
CommitBatch ==
  /\ pc = "execute"
  /\ at > Len(batch)
  /\ transcript' = Append(transcript,
                          Message("assistant", [i \in DOMAIN batch |-> batch[i].id], step))
                     \o ResultsOf(batch)
  /\ \/ /\ Commit(TurnClosing)
        /\ IF poisoned THEN cancelled' = TRUE /\ End("error")
                       ELSE pc' = "steer" /\ UNCHANGED <<cancelled, outcome>>
     \/ CommitFails(TurnClosing) /\ UNCHANGED cancelled
  /\ reply' = NoReply /\ batch' = <<>> /\ together' = FALSE /\ at' = 1
  /\ UNCHANGED <<turnVars, ran, poisoned, summary, acked, sent>>

\* apply_safe_point persists the state of the queue; what it injects has no writer left, the
\* inputs of a user come as steering.
SafePointFails ==
  /\ faults > 0
  /\ faults' = faults - 1
  /\ End("error")

Steer ==
  /\ pc = "steer"
  /\ \/ \E inputs \in SUBSET (Steering \ acked) :
          \/ Taken(inputs) /\ pc' = "compact" /\ UNCHANGED <<outcome, faults>>
          \/ AckFails(inputs) /\ UNCHANGED transcript
     \/ SafePointFails /\ UNCHANGED <<acked, transcript>>
  /\ UNCHANGED <<turnVars, reply, toolVars, summary, facts, cancelled, sent>>

--------------------------------------------------------------------------------
(* maybe_compact_typed_history, between two turns and after an overflow. *)

Compacting == pc \in {"compact", "overflow"}

\* A mutant: the snapshot is appended without a look at the answer.
AdoptUnchecked(new, replaced, trimmed) ==
  /\ transcript' = new
  /\ \/ Commit(IF new # transcript \/ trimmed
               THEN <<Fact("ContextSnapshotCommitted", step)>> ELSE <<>>)
     \/ faults > 0 /\ faults' = faults - 1 /\ UNCHANGED facts
  /\ IF pc = "overflow" THEN Ask(new, replaced) ELSE pc' = "boundary" /\ UNCHANGED sent
  /\ UNCHANGED <<outcome, turnVars, reply, toolVars, cancelled, acked>>

\* The compacted transcript is used once its snapshot is durable.
Adopt(new, replaced, trimmed) ==
  /\ \/ /\ transcript' = new
        /\ Commit(IF new # transcript \/ trimmed
                  THEN <<Fact("ContextSnapshotCommitted", step)>> ELSE <<>>)
        /\ IF pc = "overflow" THEN Ask(new, replaced) ELSE pc' = "boundary" /\ UNCHANGED sent
        /\ UNCHANGED outcome
     \/ /\ new # transcript \/ trimmed
        /\ CommitFails(<<Fact("ContextSnapshotCommitted", step)>>)
        /\ UNCHANGED <<transcript, sent>>
  /\ UNCHANGED <<turnVars, reply, toolVars, cancelled, acked>>

BelowLimit == Len(transcript) < HistoryLimit

CompactNothing ==
  /\ Compacting
  /\ BelowLimit
  /\ Adopt(RepairDanglingToolCalls(transcript), summary.replaced, FALSE)
  /\ UNCHANGED summary

PreCompactDenies ==
  /\ Compacting
  /\ ~BelowLimit
  /\ Adopt(transcript, summary.replaced, FALSE)
  /\ UNCHANGED summary

Split == ChooseSummarySplit(transcript, KeepTail)

\* The inputs in front of the split, which the summariser is given, and those the summary
\* among them stands for.
Replacing == summary.replaced \cup InputsIn(SubSeq(transcript, 1, Split))

MaySummarise ==
  /\ ~cancelled
  /\ summary.tried < MaxSummaries
  /\ summary.failed < MaxRefusals
  /\ Split >= MinPrefix

CompactWithModel ==
  /\ Compacting
  /\ ~BelowLimit
  /\ MaySummarise
  /\ summary' = [tried |-> summary.tried + 1, failed |-> summary.failed,
                  replaced |-> Replacing]
  /\ Adopt(ApplyModelSummary(transcript, Split, step), Replacing, FALSE)

\* No summary is asked for, or none comes; outputs may be trimmed.
CompactMechanically ==
  /\ Compacting
  /\ ~BelowLimit
  /\ summary' = IF MaySummarise
                THEN [tried |-> summary.tried + 1, failed |-> summary.failed + 1,
                      replaced |-> summary.replaced]
                ELSE summary
  /\ \E trimmed \in BOOLEAN :
       Adopt(RepairDanglingToolCalls(transcript), summary.replaced, trimmed)

PostCompactRefuses ==
  /\ Compacting
  /\ ~BelowLimit
  /\ End("hook_refused")
  /\ UNCHANGED <<transcript, turnVars, reply, toolVars, summary, facts, cancelled, acked, sent,
                 faults>>

\* ProviderBatchBoundary.
Boundary ==
  /\ pc = "boundary"
  /\ \/ pc' = "top" /\ UNCHANGED <<outcome, faults>>
     \/ SafePointFails
  /\ UNCHANGED <<transcript, turnVars, reply, toolVars, summary, facts, cancelled, acked, sent>>

--------------------------------------------------------------------------------
\* The user, the parent run or the shutdown of the daemon.
Cancel ==
  /\ pc # "ended"
  /\ ~cancelled
  /\ cancelled' = TRUE
  /\ UNCHANGED <<pc, outcome, transcript, turnVars, reply, toolVars, summary, facts, acked,
                 sent, faults>>

Asking == StartHooks \/ BeginTurn \/ EndBetweenTurns \/ Connected \/ ConnectFails \/ Backoff

Streaming ==
  TextDelta \/ ToolCallDelta \/ CompletedWithReason \/ StreamError \/ StreamCancelled \/ StreamEnds

Answering == Answer \/ DoomedByText \/ FollowUp \/ Finish

CallingTools ==
  Prepare \/ DoomedByCalls \/ RunCalls \/ ConcludeCall \/ PostHookRefuses \/ CommitBatch \/ Steer

CompactingHistory ==
  CompactNothing \/ PreCompactDenies \/ CompactWithModel \/ CompactMechanically
    \/ PostCompactRefuses \/ Boundary

EngineStep == Asking \/ Streaming \/ Answering \/ CallingTools \/ CompactingHistory

Next == EngineStep \/ Cancel

\* The provider, the tools and the hooks answer, or their timeouts do.
Spec == Init /\ [][Next]_vars /\ WF_vars(EngineStep)

--------------------------------------------------------------------------------
(* Properties. *)

Turns == 1 .. MaxSteps
Calls == Turns \X (1 .. MaxBatch)

FactKinds == {"TurnStarted", "MessageStarted", "GenerationAttemptCommitted", "MessageCompleted",
              "TurnCompleted", "ContextSnapshotCommitted", "ToolCallRequested",
              "ToolCallPrepared", "ToolCallCompleted", "Uncertain"}

\* The variables have the values the code gives them; transcripts hold known messages.
TypeOK ==
  /\ pc \in {"hooks", "top", "connect", "backoff", "stream", "received", "follow_up", "execute",
             "steer", "compact", "overflow", "boundary", "ended"}
  /\ outcome \in Outcomes \cup {"none"}
  /\ \A i \in DOMAIN transcript :
       /\ transcript[i].role \in Roles
       /\ ToSet(transcript[i].ids) \subseteq CallIds
       /\ transcript[i].turn \in {Dangling, 0} \cup Turns \cup Inputs
  /\ step \in 0 .. MaxSteps
  /\ attempt \in 1 .. MaxAttempts + 1
  /\ overflowed \in BOOLEAN
  /\ reply.text \in BOOLEAN /\ reply.reason \in StopReasons \cup {"none"}
  /\ reply.calls \in BoundedSeq(CallIds, MaxBatch)
  /\ \A i \in DOMAIN batch : batch[i].id \in CallIds /\ batch[i].rejected \in BOOLEAN
  /\ together \in BOOLEAN /\ poisoned \in BOOLEAN /\ cancelled \in BOOLEAN
  /\ at \in 1 .. MaxBatch + 1
  /\ ran \subseteq Calls
  /\ summary.tried \in 0 .. MaxSummaries /\ summary.failed \in 0 .. MaxRefusals
  /\ summary.replaced \subseteq Inputs
  /\ facts \subseteq FactKinds \X Turns \X (0 .. MaxBatch)
  /\ acked \subseteq Inputs /\ sent \subseteq Inputs
  /\ faults \in 0 .. MaxFaults

InRequest == pc = "connect"

\* A provider refuses a request in which a call has no result or a result no call. Whatever was
\* rejected, denied, summarised away, repaired or queued in between, no request has one, as
\* long as the history the run started with had none (compaction.rs, guarantees); and the
\* result behind a call is the one of its own turn, never that of another turn that used the
\* same id.
RequestsArePaired ==
  InRequest =>
    /\ Paired(transcript)
    /\ \A k \in DOMAIN transcript : transcript[k].role = "assistant" /\ transcript[k].turn > 0 =>
         \A j \in DOMAIN transcript[k].ids : transcript[k + j].turn = transcript[k].turn

Journalled(m) ==
  CASE m.role = "assistant" -> Fact("MessageCompleted", m.turn) \in facts
    [] m.role = "tool"      -> \E i \in 1 .. MaxBatch :
                                 CallFact("ToolCallCompleted", m.turn, i) \in facts
    [] m.role = "system"    -> Fact("ContextSnapshotCommitted", m.turn) \in facts
    [] m.role = "user"      -> m.turn \in acked

\* What a provider was shown can be read back after a crash: every message of this run that is
\* in a request was made durable before it was sent.
SentIsJournalled ==
  InRequest => \A i \in DOMAIN transcript : transcript[i].turn > 0 => Journalled(transcript[i])

Open(t) == Fact("TurnStarted", t) \in facts /\ Fact("TurnCompleted", t) \notin facts

\* A turn never starts while an earlier one is open, and a run that ends by its own account
\* (completed, failed by the provider, cancelled) leaves none open: the projection of the
\* conversation drops an open turn.
TurnsAreClosed ==
  /\ \A t \in 1 .. step - 1 : ~Open(t)
  /\ outcome \in {"completed", "failed", "cancelled"} => \A t \in Turns : ~Open(t)

\* A handler runs only for a call the provider stopped to have made, that no hook denied, and
\* that is in the journal: not for one of a truncated, cancelled or broken stream.
RanWasAuthorised ==
  /\ \A c \in ran : CallFact("ToolCallPrepared", c[1], c[2]) \in facts
  /\ pc = "execute" =>
       \A i \in DOMAIN batch :
         <<step, i>> \in ran => reply.reason = "tool_use" /\ ~batch[i].rejected

\* When the engine has returned, the call it was at when a write failed is accounted for: an
\* exclusive call that ran is completed in the journal or marked uncertain, unless the run is
\* blocked for recovery or a hook was refused, when its intent alone is left.
EffectsAreAccountedFor ==
  outcome \in Outcomes \ {"recovery_blocked", "hook_refused"} /\ ~together =>
    \A c \in ran : \/ CallFact("ToolCallCompleted", c[1], c[2]) \in facts
                   \/ CallFact("Uncertain", c[1], c[2]) \in facts /\ cancelled

\* An input that was acknowledged is gone from the queue. A run that completes has shown each
\* of them to the model: its last request, the one that was answered, holds the input as it
\* was written or a summary whose prefix held it. The second is all there is of an input that
\* was cut before any request had it: every input that waits is taken at one safe point
\* (drain_inputs), also more of them than a compaction leaves in its tail. What a summary
\* says of its inputs is the summariser's; of a long prefix it is given the two ends.
AckedWasSent == outcome = "completed" => acked \subseteq sent

\* The engine returns: overflows, retries, empty answers and follow-ups do not keep it going.
EngineReturns == <>(pc = "ended")

================================================================================
