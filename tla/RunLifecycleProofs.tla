------------------------- MODULE RunLifecycleProofs -------------------------
(***************************************************************************)
(* Theorems about RunLifecycle for every set of requests.                   *)
(*                                                                          *)
(* The argument has three layers.  TypeCorrect gives the types.  StepKinds  *)
(* reduces the thirty actions to the eight ways in which a step can touch   *)
(* the row, the memory copy, the journal and the commit frames.  The        *)
(* invariants about the commit protocol are then proved once per way.       *)
(***************************************************************************)
EXTENDS RunLifecycle, FiniteSetTheorems, SequenceTheorems, TLAPS

----------------------------------------------------------------------------
(* The sets of statuses.                                                    *)

\* The statuses the actions name are stored ones; none of them leaves a
\* terminal status.
LEMMA StatusFacts ==
  /\ {"queued", "preparing", "running", "cancelling", "interrupted"} \subseteq Stored
  /\ Terminal \subseteq Stored
  /\ Outcomes \cup {"interrupted"} = Terminal
  /\ EngineEvent \notin Terminal
  /\ \A from \in Terminal, to \in Stored : ~RS!LegalEdge(from, to)
BY DEF Stored, Terminal, Outcomes, EngineEvent, RS!Statuses, RS!Terminal,
       RS!LegalEdge, RS!Successors

\* What recovery makes of a stored status is settled.
LEMMA RecoveryFacts ==
  ASSUME NEW r \in Row
  PROVE  /\ InterruptRow(r) \in Row /\ InterruptRow(r).status \in Terminal
         /\ RestoreEntry(r) \in Row /\ RestoreEntry(r).status \in Terminal
         /\ r.status \in Terminal => InterruptRow(r) = r
BY DEF Row, Stored, Terminal, InterruptRow, RestoreEntry, Unsettled, RS!Statuses,
       RS!Terminal, RS!Active

----------------------------------------------------------------------------
(* Type correctness.                                                        *)

\* The initial values have their types.
LEMMA InitTypeOK == Init => TypeOK
<1> SUFFICES ASSUME Init PROVE TypeOK
  OBVIOUS
<1>1. NoRow \in Row
  BY StatusFacts DEF NoRow, Row
<1>2. <<"queued">> \in Seq(Stored \cup {EngineEvent})
  BY StatusFacts
<1>3. NoFrame \in Frame
  BY StatusFacts DEF NoFrame, Frame, Stages, Terminal, RS!Terminal
<1>4. "idle" \in Labels
  BY DEF Labels, StartLabels
<1>5. pc \in [Actors -> Labels] /\ frame \in [Actors -> Frame] /\ row \in [Starts -> Row]
  BY <1>1, <1>3, <1>4 DEF Init
<1>6. log \in Seq(Stored \cup {EngineEvent}) /\ seq \in Nat /\ seen \subseteq Nat
  BY <1>2 DEF Init
<1>7. db \in Row /\ mem \in Row /\ snap \in Row
  BY <1>1 DEF Init
<1> QED
  BY <1>5, <1>6, <1>7 DEF Init, TypeOK, Tokens, Outcomes

\* A call opens a frame at its target, a return closes it, a label is a label.
LEMMA CallReturnType ==
  ASSUME TypeOK, NEW a \in Actors, NEW label \in Labels
  PROVE  /\ Goto(a, label) => pc' \in [Actors -> Labels]
         /\ \A tgt \in Stored :
              Call(a, tgt, label) => pc' \in [Actors -> Labels] /\ frame' \in [Actors -> Frame]
         /\ Return(a, label) => pc' \in [Actors -> Labels] /\ frame' \in [Actors -> Frame]
<1>1. NoFrame \in Frame
  BY StatusFacts DEF NoFrame, Frame, Stages, Terminal, RS!Terminal
<1>2. \A tgt \in Stored : [NoFrame EXCEPT !.stage = "begin", !.tgt = tgt] \in Frame
  BY <1>1 DEF Frame, Stages
<1>3. Goto(a, label) => pc' \in [Actors -> Labels]
  BY DEF TypeOK, Goto
<1>4. \A tgt \in Stored : Call(a, tgt, label) => frame' \in [Actors -> Frame]
  BY <1>2 DEF TypeOK, Call
<1>5. Return(a, label) => frame' \in [Actors -> Frame]
  BY <1>1 DEF TypeOK, Return
<1> QED BY <1>3, <1>4, <1>5 DEF Call, Return

\* A frame goes to another stage.
LEMMA StageType ==
  ASSUME TypeOK, NEW a \in Actors, NEW stage \in Stages
  PROVE  Stage(a, stage) => frame' \in [Actors -> Frame]
<1>1. frame \in [Actors -> Frame]
  BY DEF TypeOK
<1>2. [frame[a] EXCEPT !.stage = stage] \in Frame
  BY <1>1 DEF Frame
<1> QED BY <1>1, <1>2 DEF Stage

\* What is appended to the journal is a status or an engine event.
LEMMA JournalType ==
  ASSUME TypeOK
  PROVE  /\ Append(log, EngineEvent) \in Seq(Stored \cup {EngineEvent})
         /\ \A status \in Stored : Append(log, status) \in Seq(Stored \cup {EngineEvent})
<1>1. \A e \in Stored \cup {EngineEvent} : Append(log, e) \in Seq(Stored \cup {EngineEvent})
  BY AppendProperties DEF TypeOK
<1> QED BY <1>1

\* The four steps of a commit keep the types.
LEMMA CommitTypeOK ==
  ASSUME TypeOK, NEW a \in Actors, CommitStep(a)
  PROVE  TypeOK'
<1>0. /\ {"begin", "tx", "apply", "inject", "ok", "err"} \subseteq Stages
      /\ mem.rev \in Nat /\ frame[a].exp \in Nat /\ frame[a].slot \in Nat
      /\ frame[a].tgt \in Stored /\ Len(log) + 1 \in Nat
  BY DEF Stages, TypeOK, Row, Frame
<1>1. CASE Begin(a)
  <2>1. frame' \in [Actors -> Frame]
    <3>1. [frame EXCEPT ![a] = [@ EXCEPT !.stage = "tx", !.exp = mem.rev]] \in [Actors -> Frame]
      <4>1. frame \in [Actors -> Frame]
        BY DEF TypeOK
      <4>2. [frame[a] EXCEPT !.stage = "tx", !.exp = mem.rev] \in Frame
        BY <1>0, <4>1 DEF Frame
      <4> QED BY <4>1, <4>2
    <3>2. \A stage \in {"ok", "err"} : Stage(a, stage) => frame' \in [Actors -> Frame]
      BY <1>0, StageType
    <3> QED BY <1>1, <3>1, <3>2 DEF Begin
  <2> QED
    BY <1>1, <2>1 DEF TypeOK, Begin, storeVars, eventVars, tokenVars, localVars
<1>2. CASE Tx(a)
  <2>1. frame' \in [Actors -> Frame]
    <3>1. \A n \in Nat : [frame EXCEPT ![a] = [@ EXCEPT !.stage = "apply", !.slot = n]]
                           \in [Actors -> Frame]
      <4>1. frame \in [Actors -> Frame]
        BY DEF TypeOK
      <4>2. \A n \in Nat : [frame[a] EXCEPT !.stage = "apply", !.slot = n] \in Frame
        BY <1>0, <4>1 DEF Frame
      <4> QED BY <4>1, <4>2
    <3>2. \A stage \in {"ok", "err"} : Stage(a, stage) => frame' \in [Actors -> Frame]
      BY <1>0, StageType
    <3> QED BY <1>0, <1>2, <3>1, <3>2 DEF Tx
  <2>2. db' \in Row
    BY <1>0, <1>2 DEF Tx, TypeOK, Row
  <2>3. log' \in Seq(Stored \cup {EngineEvent})
    BY <1>0, <1>2, JournalType DEF Tx, TypeOK
  <2> QED
    BY <1>2, <2>1, <2>2, <2>3 DEF TypeOK, Tx, eventVars, tokenVars, localVars
<1>3. CASE Apply(a)
  <2>1. frame' \in [Actors -> Frame]
    BY <1>0, <1>3, StageType DEF Apply
  <2>2. mem' \in Row
    BY <1>0, <1>3 DEF Apply, TypeOK, Row
  <2> QED
    BY <1>3, <2>1, <2>2 DEF TypeOK, Apply, storeVars, eventVars, tokenVars, localVars
<1>4. CASE Inject(a)
  <2>1. frame' \in [Actors -> Frame]
    BY <1>0, <1>4, StageType DEF Inject
  <2>2. seq' \in Nat /\ seen' \subseteq Nat
    BY <1>0, <1>4 DEF Inject, TypeOK
  <2> QED
    BY <1>4, <2>1, <2>2 DEF TypeOK, Inject, tokenVars, localVars
<1> QED BY <1>1, <1>2, <1>3, <1>4 DEF CommitStep

\* The labels and targets the actions name.
LEMMA NamesType ==
  /\ {"idle", "mark_preparing", "preparing", "row1", "row2", "register", "clone", "bind",
      "created_event", "launch", "engine", "committed_event", "outcome",
      "ensure_running", "bridged", "settle", "prep_failed", "fail_run", "done", "dead",
      "journal", "signal", "signal_err", "force", "force_err", "quiet", "end"} \subseteq Labels
  /\ {"preparing", "running", "failed", "cancelling", "cancelled"} \subseteq Stored
  /\ Outcomes \cup {"interrupted"} \subseteq Stored
BY DEF Labels, StartLabels, CancelLabels, FinishLabels, Stored, Outcomes, RS!Statuses

\* Every step of a start keeps the types.
LEMMA StartTypeOK ==
  ASSUME TypeOK, NEW s \in Starts, Start(s)
  PROVE  TypeOK'
<1> s \in Actors
  BY DEF Actors
<1>a. \A label \in Labels, tgt \in Stored :
        /\ Goto(s, label) => pc' \in [Actors -> Labels]
        /\ Call(s, tgt, label) => pc' \in [Actors -> Labels] /\ frame' \in [Actors -> Frame]
        /\ Return(s, label) => pc' \in [Actors -> Labels] /\ frame' \in [Actors -> Frame]
  BY CallReturnType
<1>b. out[s] \in Stored /\ row[s] \in Row
  BY NamesType DEF TypeOK
<1>c. AppendEvent => /\ log' \in Seq(Stored \cup {EngineEvent})
                     /\ seq' \in Nat /\ seen' \subseteq Nat
  <2>1. AppendEvent => log' \in Seq(Stored \cup {EngineEvent})
    BY JournalType DEF AppendEvent
  <2>2. AppendEvent => seq' \in Nat /\ seen' \subseteq Nat
    <3>1. seq \in Nat /\ seen \subseteq Nat /\ seq + 1 \in Nat
      BY DEF TypeOK
    <3> QED BY <3>1 DEF AppendEvent
  <2> QED BY <2>1, <2>2
<1>1. CASE StartRequest(s)
  BY <1>1, <1>a, NamesType DEF StartRequest, TypeOK, rest, eventVars, tokenVars, localVars
<1>2. CASE SpawnStart(s)
  BY <1>2, <1>a, NamesType DEF SpawnStart, TypeOK, eventVars, tokenVars, localVars
<1>3. CASE StartPrepared(s)
  BY <1>3, <1>a, NamesType DEF StartPrepared, TypeOK, rest, eventVars, tokenVars, localVars
<1>4. CASE PersistLocked(s)
  <2>1. pc' \in [Actors -> Labels]
    BY <1>4, <1>a, NamesType DEF PersistLocked
  <2> QED
    BY <1>4, <2>1 DEF PersistLocked, PersistRow, TypeOK, eventVars, tokenVars, localVars
<1>5. CASE PrepareFails(s)
  BY <1>5, <1>a, NamesType DEF PrepareFails, TypeOK, rest, eventVars, tokenVars, localVars
<1>6. CASE PrepareFailed(s)
  BY <1>6, <1>a, NamesType DEF PrepareFailed, TypeOK, rest, eventVars, tokenVars, localVars
<1>7. CASE Register(s)
  <2>1. pc' \in [Actors -> Labels]
    BY <1>7, <1>a, NamesType DEF Register
  <2> QED
    BY <1>7, <2>1 DEF Register, TypeOK, Tokens, eventVars, localVars
<1>8. CASE CloneRow(s)
  <2>1. pc' \in [Actors -> Labels]
    BY <1>8, <1>a, NamesType DEF CloneRow
  <2> QED
    BY <1>8, <2>1 DEF CloneRow, TypeOK, rest, eventVars, tokenVars
<1>9. CASE BindCheckpoint(s)
  <2>1. pc' \in [Actors -> Labels]
    BY <1>9, <1>a, NamesType DEF BindCheckpoint
  <2>2. NoRow \in Row
    BY StatusFacts DEF NoRow, Row
  <2>3. row' \in [Starts -> Row]
    BY <1>9, <2>2 DEF BindCheckpoint, TypeOK
  <2> QED
    BY <1>9, <1>b, <2>1, <2>3 DEF BindCheckpoint, PersistRow, TypeOK, eventVars, tokenVars
<1>10. ASSUME NEW at, NEW next \in Labels, CheckpointEvent(s, at, next)
       PROVE  TypeOK'
  <2>1. pc' \in [Actors -> Labels] /\ frame' \in [Actors -> Frame]
    BY <1>10, <1>a, NamesType DEF CheckpointEvent, TypeOK
  <2>2. /\ log' \in Seq(Stored \cup {EngineEvent})
        /\ seq' \in Nat /\ seen' \subseteq Nat
    BY <1>10, <1>c DEF CheckpointEvent, AppendRefused, TypeOK
  <2> QED
    BY <1>10, <2>1, <2>2 DEF CheckpointEvent, TypeOK, tokenVars, localVars
<1>11. CASE CheckpointCreated(s) \/ CheckpointCommitted(s)
  BY <1>10, <1>11, NamesType DEF CheckpointCreated, CheckpointCommitted
<1>12. CASE LaunchEngine(s)
  <2>1. pc' \in [Actors -> Labels]
    BY <1>12, <1>a, NamesType DEF LaunchEngine
  <2> QED
    BY <1>12, <2>1 DEF LaunchEngine, TypeOK, eventVars, localVars
<1>13. CASE EngineEmit(s)
  BY <1>13, <1>c DEF EngineEmit, TypeOK, tokenVars, localVars
<1>14. CASE EngineReturns(s)
  <2>1. pc' \in [Actors -> Labels]
    BY <1>14, <1>a, NamesType DEF EngineReturns
  <2> QED
    BY <1>14, <2>1 DEF EngineReturns, TypeOK, eventVars
<1>15. CASE StartFails(s)
  BY <1>15, <1>a, NamesType DEF StartFails, TypeOK, rest, eventVars, tokenVars, localVars
<1>16. CASE CommitOutcome(s)
  <2>1. pc' \in [Actors -> Labels]
    BY <1>16, <1>a, NamesType DEF CommitOutcome
  <2>2. out' \in [Starts -> Outcomes \cup {"interrupted"}]
    BY <1>16 DEF CommitOutcome, OutcomeTarget, TypeOK
  <2> QED
    BY <1>16, <2>1, <2>2 DEF CommitOutcome, TypeOK, rest, eventVars, tokenVars
<1>17. CASE EnsureRunning(s)
  BY <1>17, <1>a, <1>b, NamesType
     DEF EnsureRunning, TypeOK, rest, eventVars, tokenVars, localVars
<1>18. CASE Bridged(s)
  BY <1>18, <1>a, <1>b, NamesType
     DEF Bridged, TypeOK, rest, eventVars, tokenVars, localVars
<1>19. CASE Settle(s)
  <2>1. pc' \in [Actors -> Labels] /\ frame' \in [Actors -> Frame]
    BY <1>19, <1>a, NamesType DEF Settle
  <2> QED
    BY <1>19, <2>1 DEF Settle, TypeOK, Outcomes, rest, eventVars, tokenVars
<1>20. CASE FailRun(s)
  BY <1>20, <1>a, NamesType DEF FailRun, TypeOK, rest, eventVars, tokenVars, localVars
<1> QED
  BY <1>1, <1>2, <1>3, <1>4, <1>5, <1>6, <1>7, <1>8, <1>9, <1>11, <1>12, <1>13, <1>14,
     <1>15, <1>16, <1>17, <1>18, <1>19, <1>20 DEF Start, Engine

\* Every step of a cancel keeps the types.
LEMMA CancelTypeOK ==
  ASSUME TypeOK, NEW c \in Cancels, Cancel(c)
  PROVE  TypeOK'
<1> c \in Actors
  BY DEF Actors
<1>a. \A label \in Labels, tgt \in Stored :
        /\ Goto(c, label) => pc' \in [Actors -> Labels]
        /\ Call(c, tgt, label) => pc' \in [Actors -> Labels] /\ frame' \in [Actors -> Frame]
        /\ Return(c, label) => pc' \in [Actors -> Labels] /\ frame' \in [Actors -> Frame]
  BY CallReturnType
<1>1. CASE CancelRequest(c)
  BY <1>1, <1>a, NamesType DEF CancelRequest, TypeOK, rest, eventVars, tokenVars, localVars
<1>2. CASE Journalled(c)
  BY <1>2, <1>a, NamesType DEF Journalled, TypeOK, rest, eventVars, tokenVars, localVars
<1>3. CASE Signal(c)
  <2>1. pc' \in [Actors -> Labels]
    BY <1>3, <1>a, NamesType DEF Signal
  <2>2. token' \in [Starts -> Tokens]
    BY <1>3 DEF Signal, TypeOK, Tokens
  <2> QED
    BY <1>3, <2>1, <2>2 DEF Signal, TypeOK, eventVars, localVars
<1>4. CASE ForceCleanup(c)
  <2>1. pc' \in [Actors -> Labels]
    BY <1>4, <1>a, NamesType DEF ForceCleanup
  <2>2. token' \in [Starts -> Tokens] /\ entry' \in {"none", "live", "cancelled"}
    BY <1>4 DEF ForceCleanup, Cleaned, TypeOK, Tokens
  <2> QED
    BY <1>4, <2>1, <2>2 DEF ForceCleanup, TypeOK, eventVars, localVars
<1>5. CASE TreeQuiet(c)
  <2>1. pc' \in [Actors -> Labels]
    BY <1>5, <1>a, NamesType DEF TreeQuiet
  <2>2. quiet' \in [Cancels -> BOOLEAN]
    BY <1>5 DEF TreeQuiet, TypeOK
  <2> QED
    BY <1>5, <2>1, <2>2 DEF TreeQuiet, TypeOK, rest, eventVars, tokenVars
<1>6. CASE CancelSettles(c)
  <2>1. pc' \in [Actors -> Labels] /\ frame' \in [Actors -> Frame]
    BY <1>6, <1>a, NamesType DEF CancelSettles, TypeOK
  <2>2. quiet' \in [Cancels -> BOOLEAN]
    BY <1>6 DEF CancelSettles, TypeOK
  <2> QED
    BY <1>6, <2>1, <2>2 DEF CancelSettles, TypeOK, rest, eventVars, tokenVars
<1>7. CASE CommitReturns(c)
  BY <1>7, <1>a, NamesType DEF CommitReturns, TypeOK, rest, eventVars, tokenVars, localVars
<1> QED
  BY <1>1, <1>2, <1>3, <1>4, <1>5, <1>6, <1>7 DEF Cancel

\* Every step of a finish keeps the types.
LEMMA FinishTypeOK ==
  ASSUME TypeOK, NEW f \in Finishes, Finish(f)
  PROVE  TypeOK'
<1> f \in Actors
  BY DEF Actors
<1>a. \A label \in Labels, tgt \in Stored :
        /\ Call(f, tgt, label) => pc' \in [Actors -> Labels] /\ frame' \in [Actors -> Frame]
        /\ Return(f, label) => pc' \in [Actors -> Labels] /\ frame' \in [Actors -> Frame]
  BY CallReturnType
<1>1. CASE FinishRequest(f)
  BY <1>1, <1>a, NamesType, StatusFacts, EndingsAreTerminal
     DEF FinishRequest, TypeOK, rest, eventVars, tokenVars, localVars
<1>2. CASE CommitReturns(f)
  BY <1>2, <1>a, NamesType DEF CommitReturns, TypeOK, rest, eventVars, tokenVars, localVars
<1> QED
  BY <1>1, <1>2 DEF Finish

\* Recovery keeps the types.
LEMMA RestartTypeOK ==
  ASSUME TypeOK, Restart
  PROVE  TypeOK'
<1>1. db' \in Row /\ mem' \in Row
  BY RecoveryFacts DEF Restart, TypeOK
<1>2. seq' \in Nat /\ seen' \subseteq Nat
  BY DEF Restart, TypeOK
<1>3. pc' \in [Actors -> Labels]
  BY NamesType DEF Restart, TypeOK
<1>4. frame' \in [Actors -> Frame]
  BY StatusFacts DEF Restart, NoFrame, Frame, Stages, Terminal, RS!Terminal
<1>5. token' \in [Starts -> Tokens]
  BY DEF Restart, Tokens
<1> QED
  BY <1>1, <1>2, <1>3, <1>4, <1>5 DEF Restart, TypeOK, localVars

\* Every reachable state is well typed, for every set of requests.
THEOREM TypeCorrect == Spec => []TypeOK
<1>1. TypeOK /\ [Next]_vars => TypeOK'
  <2> SUFFICES ASSUME TypeOK, [Next]_vars PROVE TypeOK'
    OBVIOUS
  <2>1. CASE UNCHANGED vars
    BY <2>1 DEF vars, TypeOK
  <2> QED
    BY <2>1, CommitTypeOK, StartTypeOK, CancelTypeOK, FinishTypeOK, RestartTypeOK DEF Next
<1> QED
  BY <1>1, InitTypeOK, PTL DEF Spec

----------------------------------------------------------------------------
(* The ways in which a step touches the row, the memory copy, the journal   *)
(* and the commit frames.                                                   *)

\* The frame of an actor that is not committing is opened or closed.
CallerMoves ==
  \A a \in Actors : \/ frame'[a] = frame[a]
                    \/ /\ frame[a].stage \in {"idle", "ok", "err"}
                       /\ frame'[a].stage \in {"idle", "begin"}

\* A caller opens or closes a frame, or does something else altogether.
LocalStep == UNCHANGED <<db, mem, log, seq, seen, restarted, stale>> /\ CallerMoves

\* An engine publishes an event.
AppendStep == AppendEvent /\ UNCHANGED <<db, mem, frame, restarted, stale>>

\* A start upserts the row.
UpsertStep ==
  /\ \E r \in Row : PersistRow(r)
  /\ \E s \in Starts : pc[s] \notin {"idle", "done", "dead"}
  /\ UNCHANGED <<mem, log, seq, seen, frame, restarted>>

\* Goto leaves the frames alone, Call opens the caller's, Return closes it.
LEMMA FrameMoves ==
  ASSUME TypeOK, NEW a \in Actors, NEW label, NEW tgt
  PROVE  /\ frame[a].stage \in {"idle", "ok", "err"} =>
              (Call(a, tgt, label) \/ Return(a, label) => CallerMoves)
         /\ UNCHANGED frame => CallerMoves
<1>1. frame \in [Actors -> Frame]
  BY DEF TypeOK
<1>2. NoFrame.stage = "idle" /\ [NoFrame EXCEPT !.stage = "begin", !.tgt = tgt].stage = "begin"
  BY DEF NoFrame
<1>3. ASSUME NEW f, frame' = [frame EXCEPT ![a] = f], NEW b \in Actors
      PROVE  frame'[b] = IF b = a THEN f ELSE frame[b]
  BY <1>1, <1>3
<1> QED BY <1>2, <1>3 DEF Call, Return, CallerMoves

\* The steps of a commit change the caller's frame only, and there the stage, the
\* revision noted by Begin and the slot noted by Tx.
LEMMA StageFrames ==
  ASSUME TypeOK, NEW a \in Actors, NEW stage, Stage(a, stage)
  PROVE  /\ frame'[a].stage = stage /\ frame'[a].tgt = frame[a].tgt
         /\ frame'[a].exp = frame[a].exp /\ frame'[a].slot = frame[a].slot
         /\ \A b \in Actors \ {a} : frame'[b] = frame[b]
<1>1. frame \in [Actors -> Frame] /\ frame[a] \in Frame
  BY DEF TypeOK
<1>2. frame'[a] = [frame[a] EXCEPT !.stage = stage]
  BY <1>1 DEF Stage
<1>3. \A b \in Actors \ {a} : frame'[b] = frame[b]
  BY <1>1 DEF Stage
<1> QED BY <1>1, <1>2, <1>3 DEF Frame

\* Begin reads memory: it lets a commit pass along a legal edge only, and finishes it
\* when memory is already terminal.
LEMMA BeginFrames ==
  ASSUME TypeOK, NEW a \in Actors, Begin(a)
  PROVE  /\ frame'[a].tgt = frame[a].tgt
         /\ \/ frame'[a].stage \in {"ok", "err"}
            \/ /\ frame'[a].stage = "tx" /\ frame'[a].exp = mem.rev
               /\ mem.status \notin Terminal /\ RS!LegalEdge(mem.status, frame[a].tgt)
         /\ mem.status \in Terminal => frame'[a].stage = "ok"
         /\ \A b \in Actors \ {a} : frame'[b] = frame[b]
<1>1. \A stage \in {"ok", "err"} : Stage(a, stage) =>
        /\ frame'[a].stage = stage /\ frame'[a].tgt = frame[a].tgt
        /\ \A b \in Actors \ {a} : frame'[b] = frame[b]
  BY StageFrames
<1>0. frame \in [Actors -> Frame] /\ frame[a] \in Frame
  BY DEF TypeOK
<1>2. ASSUME frame' = [frame EXCEPT ![a] = [@ EXCEPT !.stage = "tx", !.exp = mem.rev]]
      PROVE  /\ frame'[a].stage = "tx" /\ frame'[a].tgt = frame[a].tgt
             /\ frame'[a].exp = mem.rev
             /\ \A b \in Actors \ {a} : frame'[b] = frame[b]
  <2>1. frame'[a] = [frame[a] EXCEPT !.stage = "tx", !.exp = mem.rev]
    BY <1>0, <1>2
  <2>2. \A b \in Actors \ {a} : frame'[b] = frame[b]
    BY <1>0, <1>2
  <2> QED BY <1>0, <2>1, <2>2 DEF Frame
<1>3. mem.status \in Terminal /\ frame[a].tgt \in Stored => ~RS!LegalEdge(mem.status, frame[a].tgt)
  BY StatusFacts
<1>4. frame[a].tgt \in Stored
  BY DEF TypeOK, Frame
<1> QED BY <1>1, <1>2, <1>3, <1>4 DEF Begin

\* Tx sends a commit on to Apply exactly when the compare-and-set changed the row.
LEMMA TxFrames ==
  ASSUME TypeOK, NEW a \in Actors, Tx(a)
  PROVE  /\ frame'[a].tgt = frame[a].tgt /\ frame'[a].exp = frame[a].exp
         /\ frame'[a].stage \in {"apply", "ok", "err"}
         /\ db.rev = frame[a].exp =>
              frame'[a].stage = "apply" /\ frame'[a].slot = Len(log) + 1
         /\ db.rev # frame[a].exp => frame'[a].stage \in {"ok", "err"}
         /\ \A b \in Actors \ {a} : frame'[b] = frame[b]
<1>1. \A stage \in {"ok", "err"} : Stage(a, stage) =>
        /\ frame'[a].stage = stage
        /\ frame'[a].tgt = frame[a].tgt /\ frame'[a].exp = frame[a].exp
        /\ \A b \in Actors \ {a} : frame'[b] = frame[b]
  BY StageFrames
<1>0. frame \in [Actors -> Frame] /\ frame[a] \in Frame
  BY DEF TypeOK
<1>2. ASSUME NEW n, frame' = [frame EXCEPT ![a] = [@ EXCEPT !.stage = "apply", !.slot = n]]
      PROVE  /\ frame'[a].stage = "apply" /\ frame'[a].slot = n
             /\ frame'[a].tgt = frame[a].tgt /\ frame'[a].exp = frame[a].exp
             /\ \A b \in Actors \ {a} : frame'[b] = frame[b]
  <2>1. frame'[a] = [frame[a] EXCEPT !.stage = "apply", !.slot = n]
    BY <1>0, <1>2
  <2>2. \A b \in Actors \ {a} : frame'[b] = frame[b]
    BY <1>0, <1>2
  <2> QED BY <1>0, <2>1, <2>2 DEF Frame
<1> QED BY <1>1, <1>2 DEF Tx

\* Apply and Inject end the commit, one stage each.
LEMMA ApplyFrames ==
  ASSUME TypeOK, NEW a \in Actors, Apply(a) \/ Inject(a)
  PROVE  /\ frame'[a].tgt = frame[a].tgt /\ frame'[a].slot = frame[a].slot
         /\ frame'[a].stage \in {"inject", "ok", "err"}
         /\ Apply(a) /\ mem' # mem => frame'[a].stage = "inject"
         /\ Inject(a) => frame'[a].stage = "ok"
         /\ \A b \in Actors \ {a} : frame'[b] = frame[b]
<1>1. \A stage \in {"inject", "ok", "err"} : Stage(a, stage) =>
        /\ frame'[a].stage = stage
        /\ frame'[a].tgt = frame[a].tgt /\ frame'[a].slot = frame[a].slot
        /\ \A b \in Actors \ {a} : frame'[b] = frame[b]
  BY StageFrames
<1> QED BY <1>1 DEF Apply, Inject

\* What each action of a start is.
LEMMA StartKinds ==
  ASSUME TypeOK, NEW s \in Starts, Start(s)
  PROVE  LocalStep \/ AppendStep \/ UpsertStep
<1> s \in Actors
  BY DEF Actors
<1>a. \A label, tgt :
        /\ frame[s].stage \in {"idle", "ok", "err"} =>
             (Call(s, tgt, label) \/ Return(s, label) => CallerMoves)
        /\ UNCHANGED frame => CallerMoves
  BY FrameMoves
<1>1. CASE StartRequest(s)
  BY <1>1, <1>a DEF StartRequest, In, Ok, Failed, LocalStep, rest, eventVars
<1>2. CASE SpawnStart(s)
  BY <1>2, <1>a DEF SpawnStart, In, Ok, Failed, LocalStep, eventVars
<1>3. CASE StartPrepared(s)
  BY <1>3, <1>a DEF StartPrepared, In, Ok, Failed, LocalStep, rest, eventVars
<1>4. CASE PersistLocked(s)
  BY <1>4 DEF PersistLocked, In, UpsertStep, eventVars, TypeOK
<1>5. CASE PrepareFails(s)
  BY <1>5, <1>a DEF PrepareFails, In, Ok, Failed, LocalStep, rest, eventVars
<1>6. CASE PrepareFailed(s)
  BY <1>6, <1>a DEF PrepareFailed, In, Ok, Failed, LocalStep, rest, eventVars
<1>7. CASE Register(s)
  BY <1>7, <1>a DEF Register, In, Ok, Failed, LocalStep, eventVars
<1>8. CASE CloneRow(s)
  BY <1>8, <1>a DEF CloneRow, In, Ok, Failed, LocalStep, rest, eventVars
<1>9. CASE BindCheckpoint(s)
  BY <1>9 DEF BindCheckpoint, In, UpsertStep, eventVars, TypeOK
<1>10. ASSUME NEW at, NEW next, CheckpointEvent(s, at, next)
       PROVE  LocalStep \/ AppendStep
  BY <1>10, <1>a DEF CheckpointEvent, In, AppendRefused, LocalStep, AppendStep
<1>11. CASE CheckpointCreated(s) \/ CheckpointCommitted(s)
  BY <1>10, <1>11 DEF CheckpointCreated, CheckpointCommitted
<1>12. CASE LaunchEngine(s)
  BY <1>12, <1>a DEF LaunchEngine, In, Ok, Failed, LocalStep, eventVars
<1>13. CASE EngineEmit(s)
  BY <1>13 DEF EngineEmit, AppendStep
<1>14. CASE EngineReturns(s)
  BY <1>14, <1>a DEF EngineReturns, In, Ok, Failed, LocalStep, eventVars
<1>15. CASE StartFails(s)
  BY <1>15, <1>a DEF StartFails, In, Ok, Failed, LocalStep, rest, eventVars
<1>16. CASE CommitOutcome(s)
  BY <1>16, <1>a DEF CommitOutcome, In, Ok, Failed, LocalStep, rest, eventVars
<1>17. CASE EnsureRunning(s)
  BY <1>17, <1>a DEF EnsureRunning, In, Ok, Failed, LocalStep, rest, eventVars
<1>18. CASE Bridged(s)
  BY <1>18, <1>a DEF Bridged, In, Ok, Failed, LocalStep, rest, eventVars
<1>19. CASE Settle(s)
  BY <1>19, <1>a DEF Settle, In, Ok, Failed, LocalStep, rest, eventVars
<1>20. CASE FailRun(s)
  BY <1>20, <1>a DEF FailRun, In, Ok, Failed, LocalStep, rest, eventVars
<1> QED
  BY <1>1, <1>2, <1>3, <1>4, <1>5, <1>6, <1>7, <1>8, <1>9, <1>11, <1>12, <1>13, <1>14,
     <1>15, <1>16, <1>17, <1>18, <1>19, <1>20 DEF Start, Engine

\* Cancels and finishes touch nothing of the commit protocol but their own frame.
LEMMA RequestKinds ==
  ASSUME TypeOK,
         (\E c \in Cancels : Cancel(c)) \/ (\E f \in Finishes : Finish(f))
  PROVE  LocalStep
<1> SUFFICES ASSUME NEW a \in Cancels \cup Finishes,
                    \/ a \in Cancels /\ Cancel(a)
                    \/ a \in Finishes /\ Finish(a)
             PROVE  LocalStep
  OBVIOUS
<1> a \in Actors
  BY DEF Actors
<1>a. \A label, tgt :
        /\ frame[a].stage \in {"idle", "ok", "err"} =>
             (Call(a, tgt, label) \/ Return(a, label) => CallerMoves)
        /\ UNCHANGED frame => CallerMoves
  BY FrameMoves
<1>1. CASE CancelRequest(a)
  BY <1>1, <1>a DEF CancelRequest, In, Ok, Failed, LocalStep, rest, eventVars
<1>2. CASE Journalled(a)
  BY <1>2, <1>a DEF Journalled, In, Ok, Failed, LocalStep, rest, eventVars
<1>3. CASE Signal(a)
  BY <1>3, <1>a DEF Signal, In, Ok, Failed, LocalStep, eventVars
<1>4. CASE ForceCleanup(a)
  BY <1>4, <1>a DEF ForceCleanup, In, Ok, Failed, LocalStep, eventVars
<1>5. CASE TreeQuiet(a)
  BY <1>5, <1>a DEF TreeQuiet, In, Ok, Failed, LocalStep, rest, eventVars
<1>6. CASE CancelSettles(a)
  BY <1>6, <1>a DEF CancelSettles, In, Ok, Failed, LocalStep, rest, eventVars
<1>7. CASE CommitReturns(a)
  BY <1>7, <1>a DEF CommitReturns, In, Ok, Failed, LocalStep, rest, eventVars
<1>8. CASE FinishRequest(a)
  BY <1>8, <1>a DEF FinishRequest, In, Ok, Failed, LocalStep, rest, eventVars
<1> QED
  BY <1>1, <1>2, <1>3, <1>4, <1>5, <1>6, <1>7, <1>8 DEF Cancel, Finish

\* Every step is one of eight kinds.
LEMMA StepKinds ==
  ASSUME TypeOK, [Next]_vars
  PROVE  \/ \E a \in Actors : Begin(a) \/ Tx(a) \/ Apply(a) \/ Inject(a)
         \/ LocalStep \/ AppendStep \/ UpsertStep
         \/ Restart
<1>1. CASE UNCHANGED vars
  BY <1>1 DEF vars, LocalStep, CallerMoves
<1>2. CASE \E a \in Actors : CommitStep(a)
  BY <1>2 DEF CommitStep
<1> QED
  BY <1>1, <1>2, StartKinds, RequestKinds DEF Next

----------------------------------------------------------------------------
(* The journal holds what is published.                                     *)

\* A commit between its transaction and its injection owns a row of the journal.
SlotIsJournalled ==
  \A a \in Actors : frame[a].stage \in {"apply", "inject"} =>
    frame[a].slot \in DOMAIN log /\ log[frame[a].slot] = frame[a].tgt

JournalInv == SlotIsJournalled /\ PublishedIsDurable /\ ShownIsJournalled

\* The journal only grows.
LEMMA AppendFacts ==
  ASSUME TypeOK, NEW e \in Stored \cup {EngineEvent}, log' = Append(log, e)
  PROVE  /\ Len(log') = Len(log) + 1
         /\ DOMAIN log' = DOMAIN log \cup {Len(log) + 1}
         /\ \A i \in DOMAIN log : log'[i] = log[i]
         /\ log'[Len(log) + 1] = e
         /\ DOMAIN log = 1..Len(log) /\ Len(log) \in Nat
<1>1. log \in Seq(Stored \cup {EngineEvent})
  BY DEF TypeOK
<1> QED BY <1>1, AppendProperties

\* A created run has its queued event in the journal.
LEMMA JournalInitial == Init => JournalInv
BY StatusFacts DEF Init, JournalInv, SlotIsJournalled, PublishedIsDurable, ShownIsJournalled,
       NoRow, NoFrame, Terminal, RS!Terminal

\* Persist-first is kept by every kind of step.
LEMMA JournalStep ==
  ASSUME TypeOK, JournalInv, [Next]_vars
  PROVE  JournalInv'
<1> USE DEF JournalInv
<1>0. /\ frame \in [Actors -> Frame] /\ mem \in Row /\ seq \in Nat /\ Len(log) \in Nat
      /\ DOMAIN log = 1..Len(log)
  BY DEF TypeOK
<1>1. ASSUME NEW a \in Actors, Begin(a) PROVE JournalInv'
  <2>1. SlotIsJournalled'
    BY <1>1, BeginFrames DEF Begin, SlotIsJournalled, storeVars
  <2> QED
    BY <1>1, <2>1 DEF Begin, PublishedIsDurable, ShownIsJournalled, storeVars, eventVars
<1>2. ASSUME NEW a \in Actors, Tx(a) PROVE JournalInv'
  <2>1. CASE db.rev = frame[a].exp
    <3>1. frame[a].tgt \in Stored
      BY <1>0 DEF Frame
    <3>2. log' = Append(log, frame[a].tgt)
      BY <1>2, <2>1 DEF Tx
    <3>3. /\ DOMAIN log' = DOMAIN log \cup {Len(log) + 1} /\ Len(log') = Len(log) + 1
          /\ \A i \in DOMAIN log : log'[i] = log[i]
          /\ log'[Len(log) + 1] = frame[a].tgt
      BY <3>1, <3>2, AppendFacts
    <3>4. SlotIsJournalled'
      BY <1>0, <1>2, <2>1, <3>3, TxFrames DEF SlotIsJournalled
    <3>5. PublishedIsDurable'
      BY <1>0, <1>2, <3>3 DEF Tx, PublishedIsDurable, eventVars
    <3>6. ShownIsJournalled'
      BY <1>2, <3>3 DEF Tx, ShownIsJournalled
    <3> QED BY <3>4, <3>5, <3>6
  <2>2. CASE db.rev # frame[a].exp
    <3>1. SlotIsJournalled'
      BY <1>2, <2>2, TxFrames DEF Tx, SlotIsJournalled
    <3> QED
      BY <1>2, <2>2, <3>1 DEF Tx, PublishedIsDurable, ShownIsJournalled, eventVars
  <2> QED BY <2>1, <2>2
<1>3. ASSUME NEW a \in Actors, Apply(a) PROVE JournalInv'
  <2>1. SlotIsJournalled'
    BY <1>3, ApplyFrames DEF Apply, SlotIsJournalled, storeVars
  <2>2. ShownIsJournalled'
    BY <1>0, <1>3 DEF Apply, SlotIsJournalled, ShownIsJournalled, storeVars
  <2> QED BY <1>3, <2>1, <2>2 DEF Apply, PublishedIsDurable, storeVars, eventVars
<1>4. ASSUME NEW a \in Actors, Inject(a) PROVE JournalInv'
  <2>1. SlotIsJournalled'
    BY <1>4, ApplyFrames DEF Inject, SlotIsJournalled
  <2>2. PublishedIsDurable'
    BY <1>0, <1>4 DEF Inject, SlotIsJournalled, PublishedIsDurable
  <2> QED BY <1>4, <2>1, <2>2 DEF Inject, ShownIsJournalled
<1>5. CASE LocalStep
  BY <1>5 DEF LocalStep, CallerMoves, SlotIsJournalled, PublishedIsDurable, ShownIsJournalled
<1>6. CASE AppendStep
  <2>1. /\ DOMAIN log' = DOMAIN log \cup {Len(log) + 1} /\ Len(log') = Len(log) + 1
        /\ \A i \in DOMAIN log : log'[i] = log[i]
    BY <1>6, AppendFacts DEF AppendStep, AppendEvent
  <2>2. SlotIsJournalled' /\ ShownIsJournalled'
    BY <1>6, <2>1 DEF AppendStep, SlotIsJournalled, ShownIsJournalled
  <2>3. PublishedIsDurable'
    BY <1>0, <1>6, <2>1 DEF AppendStep, AppendEvent, PublishedIsDurable
  <2> QED BY <2>2, <2>3
<1>7. CASE UpsertStep
  BY <1>7 DEF UpsertStep, SlotIsJournalled, PublishedIsDurable, ShownIsJournalled
<1>8. CASE Restart
  BY <1>0, <1>8 DEF Restart, NoFrame, SlotIsJournalled, PublishedIsDurable, ShownIsJournalled
<1> QED BY <1>1, <1>2, <1>3, <1>4, <1>5, <1>6, <1>7, <1>8, StepKinds

\* No event is published before the journal has it.
THEOREM PublishedIsAlwaysDurable == Spec => []PublishedIsDurable
<1>1. TypeOK /\ JournalInv /\ [Next]_vars => JournalInv'
  BY JournalStep
<1>2. JournalInv => PublishedIsDurable
  BY DEF JournalInv
<1> QED BY <1>1, <1>2, JournalInitial, TypeCorrect, PTL DEF Spec

\* Until a restart, every terminal status a client reads is a journal row.
THEOREM ShownIsAlwaysJournalled == Spec => []ShownIsJournalled
<1>1. TypeOK /\ JournalInv /\ [Next]_vars => JournalInv'
  BY JournalStep
<1>2. JournalInv => ShownIsJournalled
  BY DEF JournalInv
<1> QED BY <1>1, <1>2, JournalInitial, TypeCorrect, PTL DEF Spec

----------------------------------------------------------------------------
(* What a client reads walks the status graph.                              *)

\* A commit that passed Begin and still has memory's revision has a legal edge.
EdgeInv ==
  \A a \in Actors : frame[a].stage \in {"tx", "apply"} =>
    /\ frame[a].exp <= mem.rev
    /\ frame[a].exp = mem.rev => RS!LegalEdge(mem.status, frame[a].tgt)

\* No commit is under way at the start.
LEMMA EdgeInitial == Init => EdgeInv
BY DEF Init, EdgeInv, NoFrame

\* Memory's revision moves past every commit it did not admit.
LEMMA EdgeStep ==
  ASSUME TypeOK, EdgeInv, [Next]_vars
  PROVE  EdgeInv'
<1> USE DEF EdgeInv
<1>0. /\ mem.rev \in Nat
      /\ \A a \in Actors : frame[a].exp \in Nat
  BY DEF TypeOK, Row, Frame
<1>1. ASSUME NEW a \in Actors, Begin(a) PROVE EdgeInv'
  <2>1. UNCHANGED mem
    BY <1>1 DEF Begin
  <2> QED BY <1>0, <1>1, <2>1, BeginFrames
<1>2. ASSUME NEW a \in Actors, Tx(a) PROVE EdgeInv'
  <2>1. UNCHANGED mem /\ frame[a].stage = "tx"
    BY <1>2 DEF Tx
  <2> QED BY <1>0, <1>2, <2>1, TxFrames
<1>3. ASSUME NEW a \in Actors, Apply(a) PROVE EdgeInv'
  <2>1. mem' = mem \/ mem'.rev = mem.rev + 1
    BY <1>0, <1>3 DEF Apply
  <2>2. frame'[a].stage \notin {"tx", "apply"} /\ \A b \in Actors \ {a} : frame'[b] = frame[b]
    BY <1>3, ApplyFrames
  <2> QED BY <1>0, <2>1, <2>2
<1>4. ASSUME NEW a \in Actors, Inject(a) PROVE EdgeInv'
  <2>1. UNCHANGED mem
    BY <1>4 DEF Inject
  <2>2. frame'[a].stage \notin {"tx", "apply"} /\ \A b \in Actors \ {a} : frame'[b] = frame[b]
    BY <1>4, ApplyFrames
  <2> QED BY <2>1, <2>2
<1>5. CASE LocalStep
  BY <1>5 DEF LocalStep, CallerMoves
<1>6. CASE AppendStep
  BY <1>6 DEF AppendStep
<1>7. CASE UpsertStep
  BY <1>7 DEF UpsertStep
<1>8. CASE Restart
  BY <1>8 DEF Restart, NoFrame
<1> QED BY <1>1, <1>2, <1>3, <1>4, <1>5, <1>6, <1>7, <1>8, StepKinds

\* Every step of the daemon is a move along the status graph, a restart that leaves
\* the run settled, or invisible to a client.
LEMMA StepRefines ==
  ASSUME TypeOK, EdgeInv, [Next]_vars
  PROVE  [RS!Next]_RS!vars
<1> USE DEF RS!Next, RS!vars
<1>1. ASSUME NEW a \in Actors, Apply(a) PROVE [RS!Next]_RS!vars
  <2>1. CASE mem.rev = frame[a].exp
    <3>1. RS!LegalEdge(mem.status, frame[a].tgt)
      BY <1>1, <2>1 DEF Apply, EdgeInv
    <3>2. mem'.status = frame[a].tgt /\ UNCHANGED restarted
      BY <1>1, <2>1 DEF Apply
    <3>3. RS!Move
      BY <3>1, <3>2 DEF RS!Move, RS!LegalEdge
    <3> QED BY <3>3
  <2>2. CASE mem.rev # frame[a].exp
    BY <1>1, <2>2 DEF Apply
  <2> QED BY <2>1, <2>2
<1>2. CASE Restart
  <2>1. snap \in Row
    BY DEF TypeOK
  <2>2. mem'.status \in Terminal /\ restarted' = TRUE
    BY <1>2, <2>1, RecoveryFacts DEF Restart
  <2> QED BY <2>2 DEF RS!Restart, Terminal
<1>3. ASSUME NEW a \in Actors, Begin(a) \/ Tx(a) \/ Inject(a) PROVE UNCHANGED <<mem, restarted>>
  BY <1>3 DEF Begin, Tx, Inject
<1>4. CASE LocalStep \/ AppendStep \/ UpsertStep
  BY <1>4 DEF LocalStep, AppendStep, UpsertStep
<1> QED BY <1>1, <1>2, <1>3, <1>4, StepKinds

\* The daemon implements the status graph, whatever runs concurrently and even where
\* an upsert put an older row back.
THEOREM StatusRefinement == Spec => ImplementsRunStatus
<1>1. Init => RS!Init
  BY DEF Init, RS!Init, NoRow
<1>2. TypeOK /\ EdgeInv /\ [Next]_vars => EdgeInv' /\ [RS!Next]_RS!vars
  BY EdgeStep, StepRefines
<1> QED
  BY <1>1, <1>2, EdgeInitial, TypeCorrect, PTL DEF Spec, ImplementsRunStatus, RS!Spec

----------------------------------------------------------------------------
(* Recovery settles the run for good.                                       *)

\* No start survives a restart, and later requests find the run settled.
RecoveryInv ==
  restarted =>
    /\ db.status \in Terminal /\ mem.status \in Terminal
    /\ \A a \in Actors : frame[a].stage \in {"idle", "begin", "ok"}
    /\ \A s \in Starts : pc[s] \in {"idle", "done", "dead"}

\* Nothing is promised before the first restart.
LEMMA RecoveryInitial == Init => RecoveryInv
BY DEF Init, RecoveryInv

\* After a restart a start does nothing but find the run settled.
LEMMA StartAfterRestart ==
  ASSUME TypeOK, RecoveryInv, restarted, NEW s \in Starts, Start(s)
  PROVE  StartRequest(s)
<1>1. pc[s] \in {"idle", "done", "dead"}
  BY DEF RecoveryInv
<1> QED
  BY <1>1 DEF Start, Engine, SpawnStart, StartPrepared, PersistLocked, PrepareFails,
     PrepareFailed, Register, CloneRow, BindCheckpoint, CheckpointCreated, CheckpointEvent,
     LaunchEngine, EngineEmit, EngineReturns, StartFails, CheckpointCommitted,
     CommitOutcome, EnsureRunning, Bridged, Settle, FailRun, In, Ok, Failed

\* Labels of starts are changed by starts and restarts only.
LEMMA StartLabelsKept ==
  ASSUME TypeOK, [Next]_vars
  PROVE  \/ \A s \in Starts : pc'[s] = pc[s]
         \/ \E s \in Starts : Start(s)
         \/ Restart
<1>1. ASSUME NEW a \in Actors, CommitStep(a) PROVE pc' = pc
  BY <1>1 DEF CommitStep, Begin, Tx, Apply, Inject
<1>2. ASSUME NEW a \in Cancels \cup Finishes, NEW label, Goto(a, label)
      PROVE  \A s \in Starts : pc'[s] = pc[s]
  BY <1>2, ActorsDisjoint DEF Goto, TypeOK, Actors
<1>3. ASSUME NEW c \in Cancels, Cancel(c) PROVE \E label : Goto(c, label)
  BY <1>3 DEF Cancel, CancelRequest, Journalled, Signal, ForceCleanup, TreeQuiet,
     CancelSettles, CommitReturns, Call, Return
<1>4. ASSUME NEW f \in Finishes, Finish(f) PROVE \E label : Goto(f, label)
  BY <1>4 DEF Finish, FinishRequest, CommitReturns, Call, Return
<1>5. CASE UNCHANGED vars
  BY <1>5 DEF vars
<1> QED BY <1>1, <1>2, <1>3, <1>4, <1>5 DEF Next

\* After recovery no step unsettles the run.
LEMMA RecoveryStep ==
  ASSUME TypeOK, RecoveryInv, [Next]_vars
  PROVE  RecoveryInv'
<1>1. CASE Restart
  <2>1. db \in Row /\ snap \in Row
    BY DEF TypeOK
  <2>2. db'.status \in Terminal /\ mem'.status \in Terminal
    BY <1>1, <2>1, RecoveryFacts DEF Restart
  <2>3. \A a \in Actors : frame'[a].stage = "idle"
    BY <1>1 DEF Restart, NoFrame
  <2>4. \A s \in Starts : pc'[s] \in {"idle", "done", "dead"}
    BY <1>1 DEF Restart, Actors
  <2> QED BY <2>2, <2>3, <2>4 DEF RecoveryInv
<1>2. CASE ~Restart
  <2> SUFFICES ASSUME restarted' PROVE RecoveryInv'
    BY DEF RecoveryInv
  <2>1. restarted
    <3>1. UNCHANGED restarted
      BY <1>2, StepKinds DEF Begin, Tx, Apply, Inject, LocalStep, AppendStep, UpsertStep
    <3> QED BY <3>1
  <2>2. /\ db.status \in Terminal /\ mem.status \in Terminal
        /\ \A a \in Actors : frame[a].stage \in {"idle", "begin", "ok"}
        /\ \A s \in Starts : pc[s] \in {"idle", "done", "dead"}
    BY <2>1 DEF RecoveryInv
  <2>3. /\ UNCHANGED <<db, mem>>
        /\ \A a \in Actors : frame'[a].stage \in {"idle", "begin", "ok"}
    <3>1. ASSUME NEW a \in Actors, Begin(a) PROVE <2>3!1
      BY <3>1 DEF Begin, storeVars
    <3>2. ASSUME NEW a \in Actors, Begin(a)
          PROVE  \A b \in Actors : frame'[b].stage \in {"idle", "begin", "ok"}
      BY <2>2, <3>2, BeginFrames DEF Begin
    <3>3. ~\E a \in Actors : Tx(a) \/ Apply(a) \/ Inject(a)
      BY <2>2 DEF Tx, Apply, Inject
    <3>4. CASE LocalStep
      BY <2>2, <3>4 DEF LocalStep, CallerMoves
    <3>5. CASE AppendStep
      BY <2>2, <3>5 DEF AppendStep
    <3>6. ~UpsertStep
      BY <2>2 DEF UpsertStep
    <3> QED BY <1>2, <3>1, <3>2, <3>3, <3>4, <3>5, <3>6, StepKinds
  <2>4. \A s \in Starts : pc'[s] \in {"idle", "done", "dead"}
    <3>1. ASSUME NEW s \in Starts, Start(s)
          PROVE  \A t \in Starts : pc'[t] \in {"idle", "done", "dead"}
      <4>1. Goto(s, "done")
        BY <2>1, <2>2, <3>1, StartAfterRestart DEF StartRequest
      <4> QED BY <2>2, <4>1 DEF Goto, TypeOK, Actors
    <3> QED BY <1>2, <2>2, <3>1, StartLabelsKept
  <2> QED BY <2>2, <2>3, <2>4 DEF RecoveryInv
<1> QED BY <1>1, <1>2

\* After a restart both the row and memory are settled, and stay so.
THEOREM RecoveredIsAlwaysSettled == Spec => []RecoveredIsSettled
<1>1. TypeOK /\ RecoveryInv /\ [Next]_vars => RecoveryInv'
  BY RecoveryStep
<1>2. RecoveryInv => RecoveredIsSettled
  BY DEF RecoveryInv, RecoveredIsSettled
<1> QED BY <1>1, <1>2, RecoveryInitial, TypeCorrect, PTL DEF Spec

----------------------------------------------------------------------------
(* The compare-and-set protocol, as long as no upsert put an older row back. *)

Applying(a) == frame[a].stage = "apply"

\* Memory misses at most one commit, the one an actor is about to apply.
ProtocolInv ==
  ~stale /\ ~restarted =>
    /\ \A a \in Actors : Applying(a) =>
         frame[a].exp = mem.rev /\ db.rev = mem.rev + 1 /\ db.status = frame[a].tgt
    /\ \A a, b \in Actors : Applying(a) /\ Applying(b) => a = b
    /\ mem = db \/ \E a \in Actors : Applying(a)

\* The journal has one terminal event once the row is terminal, none before.
FactInv ==
  ~stale =>
    /\ \A i, j \in TerminalEvents : i = j
    /\ ~restarted => IF db.status \in Terminal
                       THEN \E i \in TerminalEvents : log[i] = db.status
                       ELSE TerminalEvents = {}

CommitInv == TypeOK /\ EdgeInv /\ RecoveryInv /\ ProtocolInv

\* Memory and row agree at the start.
LEMMA ProtocolInitial == Init => ProtocolInv
BY DEF Init, ProtocolInv, Applying, NoFrame

\* A transaction that is not in conflict finds memory at the row, and the row unsettled.
LEMMA TxFindsActiveRow ==
  ASSUME CommitInv, ~stale, NEW a \in Actors, Tx(a), db.rev = frame[a].exp
  PROVE  /\ ~restarted /\ mem = db /\ db.status \notin Terminal
         /\ \A b \in Actors : ~Applying(b)
<1>1. frame[a].stage = "tx"
  BY DEF Tx
<1>2. ~restarted
  BY <1>1 DEF CommitInv, RecoveryInv
<1>3. frame[a].exp <= mem.rev /\ mem.rev \in Nat /\ frame[a].exp \in Nat
      /\ frame[a].tgt \in Stored
  BY <1>1 DEF CommitInv, EdgeInv, TypeOK, Row, Frame
<1>4. \A b \in Actors : ~Applying(b)
  BY <1>2, <1>3 DEF CommitInv, ProtocolInv
<1>5. mem = db
  BY <1>2, <1>4 DEF CommitInv, ProtocolInv
<1>6. RS!LegalEdge(db.status, frame[a].tgt)
  BY <1>1, <1>5 DEF CommitInv, EdgeInv
<1> QED BY <1>2, <1>3, <1>4, <1>5, <1>6, StatusFacts

\* The compare-and-set protocol keeps at most one commit ahead of memory.
LEMMA ProtocolStep ==
  ASSUME CommitInv, [Next]_vars
  PROVE  ProtocolInv'
<1> SUFFICES ASSUME ~stale', ~restarted' PROVE ProtocolInv'
  BY DEF ProtocolInv
<1> USE DEF CommitInv
<1>0. ~stale /\ ~restarted
  BY StepKinds DEF Begin, Tx, Apply, Inject, LocalStep, AppendStep, UpsertStep, PersistRow,
     Restart, TypeOK, storeVars
<1>p. /\ \A a \in Actors : Applying(a) =>
           frame[a].exp = mem.rev /\ db.rev = mem.rev + 1 /\ db.status = frame[a].tgt
      /\ \A a, b \in Actors : Applying(a) /\ Applying(b) => a = b
      /\ mem = db \/ \E a \in Actors : Applying(a)
  BY <1>0 DEF ProtocolInv
<1> DEFINE Aside(a) == frame[a].stage # "apply" /\ frame'[a].stage # "apply"
<1>q. ASSUME db' = db, mem' = mem,
             \A a \in Actors : frame'[a] = frame[a] \/ Aside(a)
      PROVE  ProtocolInv'
  <2>1. \A a \in Actors : /\ Applying(a)' <=> Applying(a)
                          /\ Applying(a) => frame'[a] = frame[a]
    BY <1>q DEF Applying
  <2> QED BY <1>p, <1>q, <2>1 DEF ProtocolInv
<1>1. ASSUME NEW a \in Actors, Begin(a) PROVE ProtocolInv'
  <2>1. db' = db /\ mem' = mem /\ frame[a].stage = "begin"
    BY <1>1 DEF Begin, storeVars
  <2>2. frame'[a].stage # "apply" /\ \A b \in Actors \ {a} : frame'[b] = frame[b]
    BY <1>1, BeginFrames
  <2> QED BY <1>q, <2>1, <2>2
<1>2. ASSUME NEW a \in Actors, Tx(a) PROVE ProtocolInv'
  <2>1. CASE db.rev = frame[a].exp
    <3>1. mem = db /\ \A b \in Actors : ~Applying(b)
      BY <1>0, <1>2, <2>1, TxFindsActiveRow
    <3>2. /\ frame'[a].stage = "apply"
          /\ frame'[a].tgt = frame[a].tgt /\ frame'[a].exp = frame[a].exp
          /\ \A b \in Actors \ {a} : frame'[b] = frame[b]
      BY <1>2, <2>1, TxFrames
    <3>3. /\ mem' = mem
          /\ db'.rev = frame[a].exp + 1 /\ db'.status = frame[a].tgt
      BY <1>2, <2>1 DEF Tx
    <3>4. \A b \in Actors : Applying(b)' <=> b = a
      BY <3>1, <3>2 DEF Applying
    <3> QED BY <2>1, <3>1, <3>2, <3>3, <3>4 DEF ProtocolInv
  <2>2. CASE db.rev # frame[a].exp
    <3>1. db' = db /\ mem' = mem /\ frame[a].stage = "tx"
      BY <1>2, <2>2 DEF Tx
    <3>2. frame'[a].stage # "apply" /\ \A b \in Actors \ {a} : frame'[b] = frame[b]
      BY <1>2, <2>2, TxFrames
    <3> QED BY <1>q, <3>1, <3>2
  <2> QED BY <2>1, <2>2
<1>3. ASSUME NEW a \in Actors, Apply(a) PROVE ProtocolInv'
  <2>1. Applying(a) /\ mem.rev = frame[a].exp /\ db.rev = mem.rev + 1
        /\ db.status = frame[a].tgt
    BY <1>3, <1>p DEF Apply, Applying
  <2>2. mem' = [status |-> frame[a].tgt, rev |-> frame[a].exp + 1] /\ db' = db
    BY <1>3, <2>1 DEF Apply, storeVars
  <2>3. mem' = db'
    BY <2>1, <2>2 DEF TypeOK, Row
  <2>4. \A b \in Actors : ~Applying(b)'
    BY <1>3, <1>p, <2>1, ApplyFrames DEF Applying
  <2> QED BY <2>3, <2>4 DEF ProtocolInv
<1>4. ASSUME NEW a \in Actors, Inject(a) PROVE ProtocolInv'
  <2>1. db' = db /\ mem' = mem /\ frame[a].stage = "inject"
    BY <1>4 DEF Inject
  <2>2. frame'[a].stage # "apply" /\ \A b \in Actors \ {a} : frame'[b] = frame[b]
    BY <1>4, ApplyFrames
  <2> QED BY <1>q, <2>1, <2>2
<1>5. CASE LocalStep
  <2>1. db' = db /\ mem' = mem /\ \A a \in Actors : frame'[a] = frame[a] \/ Aside(a)
    BY <1>5 DEF LocalStep, CallerMoves
  <2> QED BY <1>q, <2>1
<1>6. CASE AppendStep
  <2>1. db' = db /\ mem' = mem /\ frame' = frame
    BY <1>6 DEF AppendStep
  <2> QED BY <1>q, <2>1
<1>7. CASE UpsertStep
  <2>1. db' = db /\ mem' = mem /\ frame' = frame
    BY <1>7 DEF UpsertStep, PersistRow
  <2> QED BY <1>q, <2>1
<1>8. ~Restart
  BY DEF Restart
<1> QED BY <1>1, <1>2, <1>3, <1>4, <1>5, <1>6, <1>7, <1>8, StepKinds

\* Until an older row is put back, memory is the row or one pending commit behind it.
THEOREM MemoryAlwaysFollowsRow == Spec => []MemoryFollowsRow
<1>1. TypeOK /\ EdgeInv /\ RecoveryInv /\ ProtocolInv /\ [Next]_vars =>
        EdgeInv' /\ RecoveryInv' /\ ProtocolInv'
  BY EdgeStep, RecoveryStep, ProtocolStep DEF CommitInv
<1>2. ProtocolInv => MemoryFollowsRow
  BY DEF ProtocolInv, MemoryFollowsRow, Applying
<1> QED
  BY <1>1, <1>2, EdgeInitial, RecoveryInitial, ProtocolInitial, TypeCorrect, PTL DEF Spec

\* A queued run has no terminal event.
LEMMA FactInitial == Init => FactInv
BY StatusFacts DEF Init, FactInv, TerminalEvents, NoRow, Terminal, RS!Terminal

\* An appended event adds to the terminal events when it is one.
LEMMA TerminalEventsGrow ==
  ASSUME TypeOK, NEW e \in Stored \cup {EngineEvent}, log' = Append(log, e)
  PROVE  /\ e \notin Terminal => TerminalEvents' = TerminalEvents
         /\ e \in Terminal => TerminalEvents' = TerminalEvents \cup {Len(log) + 1}
         /\ \A i \in TerminalEvents : log'[i] = log[i]
         /\ log'[Len(log) + 1] = e
<1>1. /\ DOMAIN log' = DOMAIN log \cup {Len(log) + 1}
      /\ \A i \in DOMAIN log : log'[i] = log[i]
      /\ log'[Len(log) + 1] = e
      /\ Len(log) + 1 \notin DOMAIN log
  BY AppendFacts
<1> QED BY <1>1 DEF TerminalEvents

\* A terminal event is appended only together with the row becoming terminal.
LEMMA FactStep ==
  ASSUME CommitInv, FactInv, [Next]_vars
  PROVE  FactInv'
<1> SUFFICES ASSUME ~stale' PROVE FactInv'
  BY DEF FactInv
<1> TypeOK
  BY DEF CommitInv
<1>0. ~stale
  BY StepKinds DEF Begin, Tx, Apply, Inject, LocalStep, AppendStep, UpsertStep, PersistRow,
     Restart, TypeOK, storeVars
<1>q. ASSUME db' = db, log' = log, restarted' = restarted PROVE FactInv'
  BY <1>0, <1>q DEF FactInv, TerminalEvents
<1>1. ASSUME NEW a \in Actors, Begin(a) \/ Apply(a) \/ Inject(a) PROVE FactInv'
  BY <1>q, <1>1 DEF Begin, Apply, Inject, storeVars
<1>2. ASSUME NEW a \in Actors, Tx(a) PROVE FactInv'
  <2>1. CASE db.rev = frame[a].exp
    <3>1. ~restarted /\ db.status \notin Terminal
      BY <1>0, <1>2, <2>1, TxFindsActiveRow
    <3>2. TerminalEvents = {}
      BY <1>0, <3>1 DEF FactInv
    <3>3. frame[a].tgt \in Stored /\ log' = Append(log, frame[a].tgt)
      BY <1>2, <2>1 DEF Tx, TypeOK, Frame
    <3>4. db'.status = frame[a].tgt
      BY <1>2, <2>1 DEF Tx
    <3>5. /\ frame[a].tgt \notin Terminal => TerminalEvents' = {}
          /\ frame[a].tgt \in Terminal => TerminalEvents' = {Len(log) + 1}
          /\ log'[Len(log) + 1] = frame[a].tgt
      BY <3>2, <3>3, TerminalEventsGrow
    <3> QED BY <3>4, <3>5 DEF FactInv
  <2>2. CASE db.rev # frame[a].exp
    BY <1>q, <1>2, <2>2 DEF Tx
  <2> QED BY <2>1, <2>2
<1>3. CASE LocalStep
  BY <1>q, <1>3 DEF LocalStep
<1>4. CASE AppendStep
  <2>1. TerminalEvents' = TerminalEvents /\ \A i \in TerminalEvents : log'[i] = log[i]
    BY <1>4, StatusFacts, TerminalEventsGrow DEF AppendStep, AppendEvent
  <2> QED BY <1>0, <1>4, <2>1 DEF AppendStep, FactInv
<1>5. CASE UpsertStep
  <2>1. db' = db /\ log' = log /\ restarted' = restarted
    BY <1>5 DEF UpsertStep, PersistRow
  <2> QED BY <1>q, <2>1
<1>6. CASE Restart
  BY <1>0, <1>6 DEF Restart, FactInv, TerminalEvents
<1> QED BY <1>1, <1>2, <1>3, <1>4, <1>5, <1>6, StepKinds

\* Until an older row is put back, a run has at most one terminal event, and it is
\* the terminal status of the row.
THEOREM TerminalFactIsUnique == Spec => []OneTerminalFact
<1>1. TypeOK /\ EdgeInv /\ RecoveryInv /\ ProtocolInv /\ FactInv /\ [Next]_vars =>
        EdgeInv' /\ RecoveryInv' /\ ProtocolInv' /\ FactInv'
  BY EdgeStep, RecoveryStep, ProtocolStep, FactStep DEF CommitInv
<1>2. TypeOK /\ FactInv => OneTerminalFact
  <2> SUFFICES ASSUME TypeOK, FactInv, ~stale PROVE OneTerminalFact
    BY DEF OneTerminalFact
  <2>1. TerminalEvents = {} \/ \E i \in TerminalEvents : TerminalEvents = {i}
    BY DEF FactInv
  <2>2. Cardinality(TerminalEvents) <= 1
    BY <2>1, FS_EmptySet, FS_Singleton
  <2>3. \A i \in TerminalEvents : log[i] \in Terminal
    BY DEF TerminalEvents
  <2> QED BY <2>2, <2>3 DEF FactInv, OneTerminalFact
<1> QED
  BY <1>1, <1>2, EdgeInitial, RecoveryInitial, ProtocolInitial, FactInitial, TypeCorrect,
     PTL DEF Spec

\* No step takes a settled row back, but for the upsert of an older row.
THEOREM SettledRowStaysFinal == Spec => SettledRowIsFinal
<1>1. CommitInv /\ [Next]_vars => (db.status \in Terminal => db' = db \/ stale')
  <2> SUFFICES ASSUME CommitInv, [Next]_vars, db.status \in Terminal, ~stale'
               PROVE  db' = db
    BY DEF CommitInv, TypeOK
  <2> TypeOK
    BY DEF CommitInv
  <2>0. ~stale
    BY StepKinds DEF Begin, Tx, Apply, Inject, LocalStep, AppendStep, UpsertStep,
       PersistRow, Restart, TypeOK, storeVars
  <2>1. ASSUME NEW a \in Actors, Tx(a) PROVE db' = db
    BY <2>0, <2>1, TxFindsActiveRow DEF Tx
  <2>2. ASSUME NEW a \in Actors, Begin(a) \/ Apply(a) \/ Inject(a) PROVE db' = db
    BY <2>2 DEF Begin, Apply, Inject, storeVars
  <2>3. CASE LocalStep \/ AppendStep \/ UpsertStep
    BY <2>3 DEF LocalStep, AppendStep, UpsertStep, PersistRow
  <2>4. CASE Restart
    <3>1. db \in Row
      BY DEF TypeOK
    <3> QED BY <2>4, <3>1, RecoveryFacts DEF Restart
  <2> QED BY <2>1, <2>2, <2>3, <2>4, StepKinds
<1>2. TypeOK /\ EdgeInv /\ RecoveryInv /\ ProtocolInv /\ [Next]_vars =>
        /\ EdgeInv' /\ RecoveryInv' /\ ProtocolInv'
        /\ [db.status \in Terminal => db' = db \/ stale']_vars
  BY <1>1, EdgeStep, RecoveryStep, ProtocolStep DEF CommitInv
<1> QED
  BY <1>2, EdgeInitial, RecoveryInitial, ProtocolInitial, TypeCorrect, PTL
     DEF Spec, SettledRowIsFinal
=============================================================================
