---------------------------- MODULE PromptQueue ----------------------------
(***************************************************************************)
(* The prompt queue of one conversation: the durable prompt_queue rows and  *)
(* session_actor snapshot (src-agent-daemon/src/prompt_queue_store.rs), the *)
(* in-memory SessionCoordinator actor (crates/harness-core/src/             *)
(* session_actor.rs), the engines that lease and acknowledge queued inputs  *)
(* at their safe points, the sendNow, list and remove requests, and a crash *)
(* and restart of the daemon.                                               *)
(*                                                                          *)
(* A queued prompt is started with the idempotency key prompt-queue:{id},   *)
(* so the run of item i is called i. Items are numbered in the order of     *)
(* their rows. RunManager's own races are RunLifecycle's: here accepting a  *)
(* start, or cancelling a run, is one step. A snapshot is written in the    *)
(* step of the change it follows. Bounds: each of the Senders makes one     *)
(* request and the list is read once, in each life of the daemon.           *)
(***************************************************************************)
EXTENDS Integers, Sequences, FiniteSets, SequencesExt

CONSTANTS Roots,       \* runs the user starts directly
          Senders,     \* concurrent promptQueue.sendNow requests
          N,           \* the number of prompts that are enqueued
          Steering,    \* those enqueued with source interjection
          Single,      \* those enqueued with drain_mode one
          Removable,   \* those the user may remove
          Lists,       \* whether promptQueue.list is called
          MaxRestarts, \* bound on crashes
          None

Items == 1..N
Runs  == Roots \cup Items
Procs == Runs \cup Senders

ASSUME NNat == N \in Nat
ASSUME ItemKinds ==
  Steering \subseteq Items /\ Single \subseteq Items /\ Removable \subseteq Items
ASSUME ListsBoolean == Lists \in BOOLEAN
ASSUME RestartsNat == MaxRestarts \in Nat
ASSUME ProcsDisjoint ==
  /\ Roots \cap Items = {} /\ Runs \cap Senders = {}
  /\ None \notin Procs

VARIABLES
  row,       \* by item: status of its prompt_queue row
  lease,     \* by item: lease_run_id
  next,      \* items inserted so far
  actor,     \* the ConversationActor
  saved,     \* the session_actor row, None before the first write
  status,    \* by run: none, live, cancelling or terminal in RunManager
  pc,        \* where each run's engine, and each sendNow request, is
  item,      \* by process: the queue item it sends or starts
  batch,     \* by run: the inputs leased and not acknowledged yet
  pushing,   \* inserted rows whose enqueue has not reached the actor yet
  dropping,  \* deleted rows whose remove has not reached the actor yet
  listing,   \* the list request: where it is and the rows it has read
  lives,     \* restarts so far
  delivered, \* history: items whose message was committed with their ack
  removed    \* history: items promptQueue.remove deleted

vars == <<row, lease, next, actor, saved, status, pc, item, batch, pushing,
          dropping, listing, lives, delivered, removed>>

NoListing == [at |-> "idle", rows |-> <<>>]
Idle == [queue |-> <<>>, active |-> None, prompt |-> None, after |-> None, drain |-> FALSE]

Init ==
  /\ row = [i \in Items |-> "absent"]
  /\ lease = [i \in Items |-> None]
  /\ next = 0
  /\ actor = Idle
  /\ saved = None
  /\ status = [r \in Runs |-> "none"]
  /\ pc = [p \in Procs |-> IF p \in Senders THEN "idle" ELSE "off"]
  /\ item = [p \in Procs |-> None]
  /\ batch = [r \in Runs |-> {}]
  /\ pushing = {} /\ dropping = {}
  /\ listing = NoListing
  /\ lives = 0
  /\ delivered = {} /\ removed = {}

-----------------------------------------------------------------------------
(* SessionCoordinator: what each method makes of an actor a.               *)

Entry(i)   == [item |-> i, marked |-> FALSE]
Waiting(a) == SelectSeq(a.queue, LAMBDA e : ~e.marked)
Holds(a, i) == \E k \in DOMAIN a.queue : a.queue[k].item = i

\* The first entry of item i is marked Running.
MarkEntry(queue, i) ==
  LET k == SelectInSeq(queue, LAMBDA e : e.item = i)
  IN  IF k = 0 THEN queue ELSE [queue EXCEPT ![k].marked = TRUE]

Enqueued(a, i) == [a EXCEPT !.queue = Append(@, Entry(i)), !.drain = TRUE]

Reloaded(a, rows) ==
  [a EXCEPT !.queue = [k \in DOMAIN rows |-> Entry(rows[k])], !.drain = rows # <<>>]

Restored(a, snap) ==
  [a EXCEPT !.drain = snap.drain, !.active = None, !.prompt = None,
            !.after = IF snap.after # None /\ Holds(a, snap.after) THEN snap.after ELSE @]

Dropped(a, i) ==
  IF Holds(a, i)
  THEN [a EXCEPT !.queue = SelectSeq(@, LAMBDA e : e.item # i),
                 !.after = IF @ = i THEN None ELSE @]
  ELSE a

Requeued(a, i) ==
  LET k == SelectInSeq(a.queue, LAMBDA e : e.item = i)
  IN  [queue  |-> IF k = 0 THEN <<Entry(i)>> \o a.queue
                  ELSE [a.queue EXCEPT ![k].marked = FALSE],
       active |-> None, prompt |-> None, after |-> None, drain |-> TRUE]

\* mark_running looks for a queued entry with the prompt's content: its own.
MarkedRunning(a, r) ==
  LET k == SelectInSeq(a.queue, LAMBDA e : e.item = r /\ ~e.marked)
  IN  IF k = 0 THEN [a EXCEPT !.active = r]
      ELSE [a EXCEPT !.active = r, !.queue[k].marked = TRUE, !.prompt = r]

MarkedItem(a, r, i) ==
  [a EXCEPT !.active = r, !.prompt = i, !.queue = MarkEntry(@, i)]

\* The first waiting entry is taken from the queue.
Popped(a) == [a EXCEPT !.queue = RemoveFirst(@, Waiting(a)[1])]

\* finish_actor without its action: the running prompt's entry leaves with
\* every other entry that is not Queued, and nothing is active.
Closed(a) ==
  [a EXCEPT !.queue = IF a.prompt = None THEN @ ELSE Waiting(a),
            !.active = None, !.prompt = None]

\* The item finish_actor starts next, and the actor it leaves.
NextPrompt(a) ==
  IF a.after # None THEN a.after
  ELSE IF a.drain /\ Waiting(a) # <<>> THEN Waiting(a)[1].item
  ELSE None

Finished(a) ==
  LET c == Closed(a)
  IN  IF c.after # None THEN [c EXCEPT !.after = None]
      ELSE IF NextPrompt(c) # None THEN Popped(c)
      ELSE c

Snapshot(a) == [after |-> a.after, drain |-> a.drain]

\* The actor becomes a, and persist_actor_snapshot writes its snapshot.
Save(a) == actor' = a /\ saved' = Snapshot(a)
-----------------------------------------------------------------------------
(* promptQueue.enqueue, remove and list.                                   *)

EnqueueRow ==
  /\ next < N
  /\ next' = next + 1
  /\ row' = [row EXCEPT ![next + 1] = "queued"]
  /\ pushing' = pushing \cup {next + 1}
  /\ UNCHANGED <<lease, actor, saved, status, pc, item, batch, dropping, listing,
                 lives, delivered, removed>>

EnqueueActor(i) ==
  /\ i \in pushing
  /\ Save(Enqueued(actor, i))
  /\ pushing' = pushing \ {i}
  /\ UNCHANGED <<row, lease, next, status, pc, item, batch, dropping, listing,
                 lives, delivered, removed>>

RemoveRow(i) ==
  /\ i \in Removable
  /\ row[i] # "absent"
  /\ row' = [row EXCEPT ![i] = "absent"]
  /\ lease' = [lease EXCEPT ![i] = None]
  /\ dropping' = dropping \cup {i}
  /\ removed' = removed \cup {i}
  /\ UNCHANGED <<next, actor, saved, status, pc, item, batch, pushing, listing,
                 lives, delivered>>

RemoveActor(i) ==
  /\ i \in dropping
  /\ Save(Dropped(actor, i))
  /\ dropping' = dropping \ {i}
  /\ UNCHANGED <<row, lease, next, status, pc, item, batch, pushing, listing,
                 lives, delivered, removed>>

\* ORDER BY position: the k-th of the items S.
InOrder(S) ==
  [k \in 1 .. Cardinality(S) |-> CHOOSE i \in S : Cardinality({j \in S : j <= i}) = k]

\* Mutant: rows are reloaded whatever their status.
ReloadableAll(rows) == InOrder({i \in Items : rows[i] # "absent"})

\* The rows reload_queue keeps, in their order: a leased row parses as Queued.
Reloadable(rows) == InOrder({i \in Items : rows[i] \in {"queued", "leased"}})

ListRows ==
  /\ Lists
  /\ listing.at = "idle"
  /\ listing' = [at |-> "reload", rows |-> Reloadable(row)]
  /\ UNCHANGED <<row, lease, next, actor, saved, status, pc, item, batch, pushing,
                 dropping, lives, delivered, removed>>

ListReload ==
  /\ listing.at = "reload"
  /\ actor' = Reloaded(actor, listing.rows)
  /\ listing' = [at |-> "restore", rows |-> <<>>]
  /\ UNCHANGED <<row, lease, next, saved, status, pc, item, batch, pushing,
                 dropping, lives, delivered, removed>>

ListRestore ==
  /\ listing.at = "restore"
  /\ actor' = IF saved = None THEN actor ELSE Restored(actor, saved)
  /\ listing' = [at |-> "done", rows |-> <<>>]
  /\ UNCHANGED <<row, lease, next, saved, status, pc, item, batch, pushing,
                 dropping, lives, delivered, removed>>
-----------------------------------------------------------------------------
(* promptQueue.sendNow, up to the start of the item it obtains.            *)

SendLookup(s, i) ==
  /\ pc[s] = "idle"
  /\ row[i] # "absent"
  /\ pc' = [pc EXCEPT ![s] = "ensure"]
  /\ item' = [item EXCEPT ![s] = i]
  /\ UNCHANGED <<row, lease, next, actor, saved, status, batch, pushing, dropping,
                 listing, lives, delivered, removed>>

SendEnsure(s) ==
  /\ pc[s] = "ensure"
  /\ actor' = IF Holds(actor, item[s]) THEN actor ELSE Enqueued(actor, item[s])
  /\ pc' = [pc EXCEPT ![s] = "claim"]
  /\ UNCHANGED <<row, lease, next, saved, status, item, batch, pushing, dropping,
                 listing, lives, delivered, removed>>

\* SessionCoordinator::send_now: the entry is taken, to be started at once
\* when nothing is active, otherwise once the active run has finished.
SendClaim(s) ==
  LET i == item[s]
      taken == [actor EXCEPT !.queue = RemoveFirstMatch(@, LAMBDA e : e.item = i)]
  IN  /\ pc[s] = "claim"
      /\ \/ /\ ~Holds(actor, i)
            /\ pc' = [pc EXCEPT ![s] = "done"]
            /\ item' = [item EXCEPT ![s] = None]
            /\ UNCHANGED <<actor, saved>>
         \/ /\ Holds(actor, i) /\ actor.active # None
            /\ Save([taken EXCEPT !.after = i, !.drain = FALSE])
            /\ pc' = [pc EXCEPT ![s] = "cancel"]
            /\ UNCHANGED item
         \/ /\ Holds(actor, i) /\ actor.active = None
            /\ Save(taken)
            /\ pc' = [pc EXCEPT ![s] = "start"]
            /\ UNCHANGED item
      /\ UNCHANGED <<row, lease, next, status, batch, pushing, dropping, listing,
                     lives, delivered, removed>>

\* The runs of the conversation that are not terminal are cancelled in turn;
\* the wait for each gives up after 20 polls, so those that were hit may or may
\* not be terminal. A refused cancel ends the request, its item left behind.
SendCancel(s) ==
  LET live == {r \in Runs : status[r] \in {"live", "cancelling"}}
  IN  /\ pc[s] = "cancel"
      /\ \E hit \in SUBSET live :
           /\ \E ended \in SUBSET hit :
                status' = [r \in Runs |-> IF r \in ended THEN "terminal"
                                         ELSE IF r \in hit THEN "cancelling" ELSE status[r]]
           /\ \/ /\ hit = live
                 /\ pc' = [pc EXCEPT ![s] = "finish"]
                 /\ UNCHANGED item
              \/ /\ hit # {}
                 /\ pc' = [pc EXCEPT ![s] = "done"]
                 /\ item' = [item EXCEPT ![s] = None]
      /\ UNCHANGED <<row, lease, next, actor, saved, batch, pushing, dropping, listing,
                     lives, delivered, removed>>

\* finish_run for the run the coordinator calls active; when it calls none, the
\* request falls back on a cancelled run, which finish_run refuses. The claim of
\* an item is saved only when its start is settled.
SendFinish(s) ==
  LET i == NextPrompt(Closed(actor))
  IN  /\ pc[s] = "finish"
      /\ item' = [item EXCEPT ![s] = IF actor.active # None THEN i ELSE None]
      /\ actor' = IF actor.active # None THEN Finished(actor) ELSE actor
      /\ saved' = IF item'[s] = None THEN Snapshot(actor') ELSE saved
      /\ pc' = [pc EXCEPT ![s] = IF item'[s] = None THEN "done" ELSE "start"]
      /\ UNCHANGED <<row, lease, next, status, batch, pushing, dropping, listing, lives,
                     delivered, removed>>
-----------------------------------------------------------------------------
(* Starting the item a process p obtained: sendNow or on_run_terminal.     *)

\* A request returns; an engine's run is then closed by RunManager.
Return(p) ==
  /\ pc' = [pc EXCEPT ![p] = IF p \in Senders THEN "done" ELSE "closing"]
  /\ item' = [item EXCEPT ![p] = None]

\* Mutant: the row goes before the start is accepted.
LaunchDropping(p) ==
  LET i == item[p]
  IN  /\ pc[p] = "start"
      /\ row' = [row EXCEPT ![i] = "absent"]
      /\ \/ /\ status[i] = "none"
            /\ status' = [status EXCEPT ![i] = "live"]
            /\ pc' = [pc EXCEPT ![p] = "mark", ![i] = "launched"]
            /\ UNCHANGED <<item, actor, saved>>
         \/ /\ status[i] \in {"none", "terminal"}
            /\ Save(Requeued(actor, i))
            /\ Return(p)
            /\ UNCHANGED status
      /\ UNCHANGED <<lease, next, batch, pushing, dropping, listing, lives, delivered,
                     removed>>

\* start_detached_global: a new run is spawned, a live one is returned as it
\* is, a terminal one is an error, and so may be the creation of a new one.
Launch(p) ==
  LET i == item[p]
  IN  /\ pc[p] = "start"
      /\ \/ /\ status[i] = "none"
            /\ status' = [status EXCEPT ![i] = "live"]
            /\ pc' = [pc EXCEPT ![p] = "mark", ![i] = "launched"]
            /\ UNCHANGED <<item, actor, saved>>
         \/ /\ status[i] \in {"live", "cancelling"}
            /\ pc' = [pc EXCEPT ![p] = "mark"]
            /\ UNCHANGED <<item, actor, saved, status>>
         \/ /\ status[i] \in {"none", "terminal"}
            /\ Save(Requeued(actor, i))
            /\ Return(p)
            /\ UNCHANGED status
      /\ UNCHANGED <<row, lease, next, batch, pushing, dropping, listing, lives,
                     delivered, removed>>

MarkItem(p) ==
  /\ pc[p] = "mark"
  /\ actor' = MarkedItem(actor, item[p], item[p])
  /\ pc' = [pc EXCEPT ![p] = "sent"]
  /\ UNCHANGED <<row, lease, next, saved, status, item, batch, pushing, dropping,
                 listing, lives, delivered, removed>>

\* The UPDATE has no condition on the status; without a row it is an error.
MarkSent(p) ==
  LET i == item[p]
  IN  /\ pc[p] = "sent"
      /\ \/ /\ row[i] = "absent"
            /\ Return(p)
            /\ UNCHANGED row
         \/ /\ row[i] # "absent"
            /\ row' = [row EXCEPT ![i] = "sent"]
            /\ pc' = [pc EXCEPT ![p] = "delete"]
            /\ UNCHANGED item
      /\ UNCHANGED <<lease, next, actor, saved, status, batch, pushing, dropping,
                     listing, lives, delivered, removed>>

DeleteSent(p) ==
  /\ pc[p] = "delete"
  /\ row' = [row EXCEPT ![item[p]] = "absent"]
  /\ lease' = [lease EXCEPT ![item[p]] = None]
  /\ Save(actor)
  /\ Return(p)
  /\ UNCHANGED <<next, status, batch, pushing, dropping, listing, lives,
                 delivered, removed>>
-----------------------------------------------------------------------------
(* The engine of a run.                                                    *)

StartRoot(r) ==
  /\ status[r] = "none"
  /\ status' = [status EXCEPT ![r] = "live"]
  /\ pc' = [pc EXCEPT ![r] = "launched"]
  /\ UNCHANGED <<row, lease, next, actor, saved, item, batch, pushing, dropping,
                 listing, lives, delivered, removed>>

MarkRunning(r) ==
  /\ pc[r] = "launched"
  /\ Save(MarkedRunning(actor, r))
  /\ pc' = [pc EXCEPT ![r] = "running"]
  /\ UNCHANGED <<row, lease, next, status, item, batch, pushing, dropping, listing,
                 lives, delivered, removed>>

\* Mutant: a drain that also takes rows that are leased already.
DrainedAgain(kind) == {i \in kind : row[i] \in {"queued", "leased"}}

\* An All-mode drain of one kind: queued rows in order, up to a row with
\* drain_mode one that is not the first.
Drained(kind) ==
  LET queued == {i \in kind : row[i] = "queued"}
      ends   == {j \in queued \cap Single : \E i \in queued : i < j}
  IN  {i \in queued : \A j \in ends : i < j}

Drain(r, kind) ==
  /\ pc[r] = "running"
  /\ Drained(kind) # {}
  /\ row' = [i \in Items |-> IF i \in Drained(kind) THEN "leased" ELSE row[i]]
  /\ lease' = [i \in Items |-> IF i \in Drained(kind) THEN r ELSE lease[i]]
  /\ batch' = [batch EXCEPT ![r] = Drained(kind)]
  /\ pc' = [pc EXCEPT ![r] = "acking"]
  /\ UNCHANGED <<next, actor, saved, status, item, pushing, dropping, listing, lives,
                 delivered, removed>>

\* The inputs of a batch are acknowledged in their order.
NextInput(r, i) == i \in batch[r] /\ \A j \in batch[r] : i <= j

\* persist_queued_input_and_ack: the message and the sent row, in one transaction.
Ack(r, i) ==
  /\ pc[r] = "acking" /\ NextInput(r, i)
  /\ row[i] = "leased" /\ lease[i] = r
  /\ row' = [row EXCEPT ![i] = "sent"]
  /\ lease' = [lease EXCEPT ![i] = None]
  /\ delivered' = delivered \cup {i}
  /\ pc' = [pc EXCEPT ![r] = "forget"]
  /\ UNCHANGED <<next, actor, saved, status, item, batch, pushing, dropping, listing,
                 lives, removed>>

\* The row is gone or not this run's lease: the engine fails with an outcome.
AckLost(r, i) ==
  /\ pc[r] = "acking" /\ NextInput(r, i)
  /\ row[i] # "leased" \/ lease[i] # r
  /\ batch' = [batch EXCEPT ![r] = {}]
  /\ pc' = [pc EXCEPT ![r] = "failed"]
  /\ UNCHANGED <<row, lease, next, actor, saved, status, item, pushing, dropping, listing,
                 lives, delivered, removed>>

\* The acknowledged item leaves the actor's queue.
Forget(r, i) ==
  /\ pc[r] = "forget" /\ NextInput(r, i)
  /\ Save(Dropped(actor, i))
  /\ batch' = [batch EXCEPT ![r] = @ \ {i}]
  /\ pc' = [pc EXCEPT ![r] = IF batch[r] = {i} THEN "running" ELSE "acking"]
  /\ UNCHANGED <<row, lease, next, status, item, pushing, dropping, listing, lives,
                 delivered, removed>>

\* on_safe_point with nothing active takes the next prompt, and
\* DurableSafePointReceiver ignores the StartPrompt it returns.
SafePoint(r) ==
  /\ pc[r] = "running"
  /\ actor.active = None /\ actor.drain /\ Waiting(actor) # <<>>
  /\ Save(Popped(actor))
  /\ UNCHANGED <<row, lease, next, status, pc, item, batch, pushing, dropping,
                 listing, lives, delivered, removed>>

\* start_run fails before the engine, or between the engine and on_run_terminal.
StartRunFails(r) ==
  /\ pc[r] \in {"launched", "running", "failed"}
  /\ pc' = [pc EXCEPT ![r] = "closing"]
  /\ UNCHANGED <<row, lease, next, actor, saved, status, item, batch, pushing,
                 dropping, listing, lives, delivered, removed>>

\* The engine returns an outcome (completed, cancelled or failed) and
\* on_run_terminal asks for finish_run, which only the active run obtains.
OnRunTerminal(r) ==
  /\ pc[r] \in {"running", "failed"}
  /\ IF actor.active = r
     THEN Save(Finished(actor)) /\ item' = [item EXCEPT ![r] = NextPrompt(Closed(actor))]
     ELSE UNCHANGED <<actor, saved, item>>
  /\ pc' = [pc EXCEPT ![r] = IF item'[r] = None THEN "closing" ELSE "start"]
  /\ UNCHANGED <<row, lease, next, status, batch, pushing, dropping, listing, lives,
                 delivered, removed>>

\* RunManager commits the terminal status after start_run has returned.
Close(r) ==
  /\ pc[r] = "closing"
  /\ status' = [status EXCEPT ![r] = "terminal"]
  /\ pc' = [pc EXCEPT ![r] = "off"]
  /\ UNCHANGED <<row, lease, next, actor, saved, item, batch, pushing, dropping,
                 listing, lives, delivered, removed>>
-----------------------------------------------------------------------------
(* A crash, and recover_session_actors_on_startup before any request.      *)

\* Mutant: recovery also returns the rows that were acknowledged.
RestartReclaiming ==
  /\ lives < MaxRestarts
  /\ lives' = lives + 1
  /\ row' = [i \in Items |-> IF row[i] \in {"leased", "sent"} THEN "queued" ELSE row[i]]
  /\ lease' = [i \in Items |-> None]
  /\ LET a == Reloaded(Idle, Reloadable(row'))
     IN  actor' = IF saved = None THEN a ELSE Restored(a, saved)
  /\ status' = [r \in Runs |-> IF status[r] = "none" THEN "none" ELSE "terminal"]
  /\ pc' = [p \in Procs |-> IF p \in Senders THEN "idle" ELSE "off"]
  /\ item' = [p \in Procs |-> None]
  /\ batch' = [r \in Runs |-> {}]
  /\ pushing' = {} /\ dropping' = {}
  /\ listing' = NoListing
  /\ UNCHANGED <<next, saved, delivered, removed>>

Restart ==
  /\ lives < MaxRestarts
  /\ lives' = lives + 1
  /\ row' = [i \in Items |-> IF row[i] = "leased" THEN "queued" ELSE row[i]]
  /\ lease' = [i \in Items |-> None]
  /\ LET a == Reloaded(Idle, Reloadable(row'))
     IN  actor' = IF saved = None THEN a ELSE Restored(a, saved)
  /\ status' = [r \in Runs |-> IF status[r] = "none" THEN "none" ELSE "terminal"]
  /\ pc' = [p \in Procs |-> IF p \in Senders THEN "idle" ELSE "off"]
  /\ item' = [p \in Procs |-> None]
  /\ batch' = [r \in Runs |-> {}]
  /\ pushing' = {} /\ dropping' = {}
  /\ listing' = NoListing
  /\ UNCHANGED <<next, saved, delivered, removed>>

Requests ==
  \/ EnqueueRow \/ ListRows \/ ListReload \/ ListRestore
  \/ \E i \in Items : EnqueueActor(i) \/ RemoveRow(i) \/ RemoveActor(i)

Send(s) ==
  \/ \E i \in Items : SendLookup(s, i)
  \/ SendEnsure(s) \/ SendClaim(s) \/ SendCancel(s) \/ SendFinish(s)

Start(p) == Launch(p) \/ MarkItem(p) \/ MarkSent(p) \/ DeleteSent(p)

Engine(r) ==
  \/ MarkRunning(r) \/ SafePoint(r)
  \/ \E i \in Items : Ack(r, i) \/ AckLost(r, i) \/ Forget(r, i)
  \/ \E kind \in {Steering, Items \ Steering} : Drain(r, kind)
  \/ StartRunFails(r) \/ OnRunTerminal(r) \/ Close(r)

Next ==
  \/ Requests \/ Restart
  \/ \E s \in Senders : Send(s)
  \/ \E p \in Procs : Start(p)
  \/ \E r \in Runs : Engine(r)
  \/ \E r \in Roots : StartRoot(r)

Spec == Init /\ [][Next]_vars

-----------------------------------------------------------------------------
(* Correctness.                                                            *)

Statuses   == {"absent", "queued", "leased", "sent"}
EngineAt   == {"off", "launched", "running", "acking", "forget", "failed", "closing"}
RequestAt  == {"idle", "ensure", "claim", "cancel", "finish", "done"}
StartingAt == {"start", "mark", "sent", "delete"}

\* The types: a row has one of the statuses the queries of prompt_queue_store.rs
\* look for, and the actor holds entries of items.
TypeOK ==
  /\ row \in [Items -> Statuses]
  /\ lease \in [Items -> Runs \cup {None}]
  /\ next \in 0..N
  /\ actor.queue \in Seq([item : Items, marked : BOOLEAN])
  /\ actor.active \in Runs \cup {None}
  /\ actor.prompt \in Items \cup {None} /\ actor.after \in Items \cup {None}
  /\ actor.drain \in BOOLEAN
  /\ saved \in [after : Items \cup {None}, drain : BOOLEAN] \cup {None}
  /\ status \in [Runs -> {"none", "live", "cancelling", "terminal"}]
  /\ pc \in [Procs -> EngineAt \cup RequestAt \cup StartingAt]
  /\ item \in [Procs -> Items \cup {None}]
  /\ batch \in [Runs -> SUBSET Items]
  /\ pushing \subseteq Items /\ dropping \subseteq Items
  /\ listing.at \in {"idle", "reload", "restore", "done"} /\ listing.rows \in Seq(Items)
  /\ lives \in 0..MaxRestarts
  /\ delivered \subseteq Items /\ removed \subseteq Items

\* An accepted prompt that nobody removed is waiting in its row, or its message
\* has been committed to a run, or a run of its own was accepted: no crash,
\* refused start or lost lease drops it ("a synchronous start failure can be
\* retried instead of silently dropping the prompt").
NothingLost ==
  \A i \in 1..next :
    \/ row[i] \in {"queued", "leased"}
    \/ i \in delivered \cup removed
    \/ status[i] # "none"

\* A prompt whose message is committed never waits for an engine again: "a
\* crash after commit cannot duplicate the user message".
AckedForGood == \A i \in delivered : row[i] \in {"sent", "absent"}

\* Two runs never hold one input (the test steering_lease_excludes_a_second_run):
\* what an engine is about to acknowledge is leased to it, or its row was
\* removed or settled meanwhile; nobody can lease it again.
LeaseExclusive ==
  /\ \A r, q \in Runs : r # q => batch[r] \cap batch[q] = {}
  /\ \A r \in Runs : \A i \in batch[r] :
       row[i] # "queued" /\ (row[i] = "leased" => lease[i] = r)

\* The actor of a new life of the daemon.
RecoveredActor ==
  /\ \A i \in Items : row'[i] # "leased"
  /\ \A k \in DOMAIN actor'.queue : ~actor'.queue[k].marked
  /\ \A k, m \in DOMAIN actor'.queue :
       k < m => actor'.queue[k].item < actor'.queue[m].item
  /\ \A i \in 1..next :
       \/ i \in delivered \cup removed \/ status[i] # "none"
       \/ \E k \in DOMAIN actor'.queue : actor'.queue[k].item = i
  /\ \A k \in DOMAIN actor'.queue : actor'.queue[k].item \notin delivered \cup removed
  /\ actor'.active = None

\* After a crash every accepted prompt that is neither started, delivered nor
\* removed is back in the actor's queue, in the order of the rows, once, no lease
\* is left and no run is active: the next sendNow or the next run finds it.
RecoveredQueue == [][lives' # lives => RecoveredActor]_vars

================================================================================
