----------------------------- MODULE Interactions -----------------------------
(***************************************************************************)
(* Questions put to the user while a run waits: a tool of the run asks, a  *)
(* client answers over one of two RPC methods, and a cancel, a timeout or  *)
(* a crash of the daemon may come first.                                   *)
(*                                                                         *)
(*   production_tools.rs    await_tool_permission, await_plan_approval     *)
(*   runtime/interaction_hub.rs   the waiters, in memory                   *)
(*   interaction_store.rs   the interaction and interaction_outbox tables  *)
(*   production.rs          respond_permission, cancel_run_tree            *)
(*                                                                         *)
(* One run is modelled; all its questions share its cancellation token.    *)
(* The scope of an approval, the payloads and the text of errors are left  *)
(* out. Faults (a write of the store or of the journal that fails) and     *)
(* crashes are bounded by MaxFaults and MaxCrashes.                        *)
(***************************************************************************)
EXTENDS Naturals, Sequences, FiniteSets, SequencesExt

CONSTANTS
  Asks,        \* the questions (permission ids), each asked at most once
  Clients,     \* the RPC calls that answer, each made at most once
  Boot,        \* the outbox replay of a starting daemon
  NoAsk,       \* the question of a worker that has none
  MaxCrashes,
  MaxFaults

ASSUME AsksAssumption == IsFiniteSet(Asks)
ASSUME NamesAssumption == Boot \notin Clients /\ NoAsk \notin Asks
ASSUME BoundsAssumption == MaxCrashes \in Nat /\ MaxFaults \in Nat

Answers == {"approve", "deny"}
Workers == Clients \cup {Boot}

VARIABLES
  row,       \* durable: status of the interaction row
  decision,  \* durable: the response column
  outbox,    \* durable: the delivery intent of the row
  journal,   \* durable: the facts of each question in the run's event log
  waiter,    \* the hub holds a sender for the question
  answer,    \* what was sent to the asking future, and by which path
  asker,     \* where the asking future is
  heard,     \* the verdict the asking future acts on
  cancel,    \* cancel_run_tree of the run
  sweep,     \* questions whose waiter the cancel took and has yet to resolve
  worker,    \* the responding calls and the boot replay
  backlog,   \* outbox rows the boot replay has yet to deliver
  serving,   \* the daemon accepts requests
  crashes, faults

durable == <<row, decision, outbox, journal>>
hub == <<waiter, answer>>
future == <<asker, heard>>
cancelling == <<cancel, sweep>>
vars == <<durable, hub, future, cancelling, worker, backlog, serving, crashes,
          faults>>

Rows == {"none", "pending", "resolved", "expired"}
Live == {"registered", "inserted", "waiting", "heard", "withdrawn", "marked"}
Final == {"allowed", "denied", "refused", "aborted", "lost"}
Steps == {"idle", "append", "wake", "settle", "take", "replay", "ok",
          "orphaned", "conflict", "failed", "lost"}
Paths == {"delivery", "direct", "cancel"}
Fact(kind, says) == [kind |-> kind, says |-> says]
Facts == [kind : {"requested", "answered", "concluded"},
          says : Answers \cup {"none"}]
NoAnswer == [says |-> "none", by |-> "none"]
Idle == [at |-> "idle", ask |-> NoAsk, says |-> "none"]

(* The receiver of the question's channel is still held by its future. *)
Listening(p) == asker[p] \in {"registered", "inserted", "waiting"}

(* The facts of a kind the journal holds for p, as the answers they give. *)
Said(p, kind) ==
  {f.says : f \in {g \in ToSet(journal[p]) : g.kind = kind}}

-------------------------------------------------------------------------------

Init ==
  /\ row = [p \in Asks |-> "none"]
  /\ decision = [p \in Asks |-> "none"]
  /\ outbox = [p \in Asks |-> "none"]
  /\ journal = [p \in Asks |-> <<>>]
  /\ waiter = [p \in Asks |-> FALSE]
  /\ answer = [p \in Asks |-> NoAnswer]
  /\ asker = [p \in Asks |-> "idle"]
  /\ heard = [p \in Asks |-> "none"]
  /\ cancel = "none"
  /\ sweep = {}
  /\ worker = [w \in Workers |-> Idle]
  /\ backlog = {}
  /\ serving = TRUE
  /\ crashes = 0
  /\ faults = 0

(* One write that fails; MaxFaults bounds how many do. *)
Fault ==
  /\ faults < MaxFaults
  /\ faults' = faults + 1

Record(p, fact) == journal' = [journal EXCEPT ![p] = Append(@, fact)]

\* Mutant: the UPDATE has no status in its WHERE clause.
MarkResolvedAnyRow(p, says) ==
  /\ row' = [row EXCEPT ![p] = "resolved"]
  /\ decision' = [decision EXCEPT ![p] = says]

(* interaction_store::mark_resolved: only a pending row takes the answer. *)
MarkResolved(p, says) ==
  IF row[p] = "pending"
  THEN /\ row' = [row EXCEPT ![p] = "resolved"]
       /\ decision' = [decision EXCEPT ![p] = says]
  ELSE UNCHANGED <<row, decision>>

(* Take the waiter of p out of the hub, and send if its future listens. *)
Send(p, says, path) ==
  /\ waiter' = [waiter EXCEPT ![p] = FALSE]
  /\ answer' = IF Listening(p)
               THEN [answer EXCEPT ![p] = [says |-> says, by |-> path]]
               ELSE answer

GoTo(p, at) == asker' = [asker EXCEPT ![p] = at]

-------------------------------------------------------------------------------
(* The asking future. *)

(* The waiter is installed before anything about the question is visible. *)
RegisterWaiter(p) ==
  /\ serving
  /\ asker[p] = "idle"
  /\ GoTo(p, "registered")
  /\ waiter' = [waiter EXCEPT ![p] = TRUE]
  /\ UNCHANGED <<durable, answer, heard, cancelling, worker, backlog, serving,
                 crashes, faults>>

(* insert_pending commits the row; when it fails the waiter is withdrawn   *)
(* and the tool gets an error.                                             *)
InsertPending(p) ==
  /\ asker[p] = "registered"
  /\ \/ /\ row' = [row EXCEPT ![p] = "pending"]
        /\ GoTo(p, "inserted")
        /\ UNCHANGED <<waiter, faults>>
     \/ /\ Fault
        /\ waiter' = [waiter EXCEPT ![p] = FALSE]
        /\ GoTo(p, "refused")
        /\ UNCHANGED row
  /\ UNCHANGED <<decision, outbox, journal, answer, heard, cancelling, worker,
                 backlog, serving, crashes>>

(* The session snapshot and PermissionRequested are persisted; when either *)
(* fails the waiter is withdrawn and the row is then resolved as denied.   *)
PublishRequest(p) ==
  /\ asker[p] = "inserted"
  /\ \/ /\ Record(p, Fact("requested", "none"))
        /\ GoTo(p, "waiting")
        /\ UNCHANGED <<waiter, faults>>
     \/ /\ Fault
        /\ waiter' = [waiter EXCEPT ![p] = FALSE]
        /\ GoTo(p, "withdrawn")
        /\ UNCHANGED journal
  /\ UNCHANGED <<row, decision, outbox, answer, heard, cancelling, worker,
                 backlog, serving, crashes>>

(* The tool that asked gets an error. *)
ResolveWithdrawn(p) ==
  /\ asker[p] = "withdrawn"
  /\ MarkResolved(p, "deny")
  /\ GoTo(p, "refused")
  /\ UNCHANGED <<outbox, journal, hub, heard, cancelling, worker, backlog,
                 serving, crashes, faults>>

Hear(p, says) ==
  /\ asker[p] = "waiting"
  /\ heard' = [heard EXCEPT ![p] = says]
  /\ GoTo(p, "heard")
  /\ UNCHANGED <<durable, answer, cancelling, worker, backlog, serving,
                 crashes, faults>>

(* The select is biased: a cancelled token wins over an answer. *)
HearCancel(p) ==
  /\ cancel # "none"
  /\ waiter' = [waiter EXCEPT ![p] = FALSE]
  /\ Hear(p, "deny")

HearAnswer(p) ==
  /\ cancel = "none"
  /\ answer[p] # NoAnswer
  /\ Hear(p, answer[p].says)
  /\ UNCHANGED waiter

\* Mutant: silence is consent.
HearTimeoutConsents(p) ==
  /\ cancel = "none"
  /\ answer[p] = NoAnswer
  /\ Hear(p, "approve")
  /\ UNCHANGED waiter

\* Mutant: the receiver is awaited without a timeout.
HearTimeoutNever(p) == FALSE

(* The timeout drops the receiver; the sender stays in the hub. *)
HearTimeout(p) ==
  /\ cancel = "none"
  /\ answer[p] = NoAnswer
  /\ Hear(p, "deny")
  /\ UNCHANGED waiter

(* The asker makes sure the row is resolved. A row somebody else resolved  *)
(* counts, whatever it says; a failed write refuses the tool.              *)
MarkHeard(p) ==
  /\ asker[p] = "heard"
  /\ \/ /\ MarkResolved(p, heard[p])
        /\ GoTo(p, "marked")
        /\ UNCHANGED faults
     \/ /\ Fault
        /\ GoTo(p, "refused")
        /\ UNCHANGED <<row, decision>>
  /\ UNCHANGED <<outbox, journal, hub, heard, cancelling, worker, backlog,
                 serving, crashes>>

(* PermissionResponded is appended, then the tool goes on or is denied. *)
Conclude(p) ==
  /\ asker[p] = "marked"
  /\ \/ /\ Record(p, Fact("concluded", heard[p]))
        /\ GoTo(p, IF heard[p] = "approve" THEN "allowed" ELSE "denied")
        /\ UNCHANGED faults
     \/ /\ Fault
        /\ GoTo(p, "refused")
        /\ UNCHANGED journal
  /\ UNCHANGED <<row, decision, outbox, hub, heard, cancelling, worker,
                 backlog, serving, crashes>>

-------------------------------------------------------------------------------
(* interaction.respond: decide in one transaction, then deliver. *)

SetWorker(w, at) == worker' = [worker EXCEPT ![w].at = at]

\* Mutant: the waiter is woken first.
RespondWakesFirst(c, p, d) ==
  /\ serving
  /\ worker[c] = Idle
  /\ row[p] = "pending"
  /\ row' = [row EXCEPT ![p] = "resolved"]
  /\ decision' = [decision EXCEPT ![p] = d]
  /\ outbox' = [outbox EXCEPT ![p] = "queued"]
  /\ worker' = [worker EXCEPT ![c] = [at |-> "wake", ask |-> p, says |-> d]]
  /\ UNCHANGED <<journal, hub, future, cancelling, backlog, serving, crashes,
                 faults>>

(* The UPDATE of a pending row and the INSERT of its outbox row commit      *)
(* together. A resolved row takes the same answer again and refuses another *)
(* one; any other row is orphaned.                                          *)
Respond(c, p, d) ==
  /\ serving
  /\ worker[c] = Idle
  /\ \/ /\ row[p] = "pending"
        /\ row' = [row EXCEPT ![p] = "resolved"]
        /\ decision' = [decision EXCEPT ![p] = d]
        /\ outbox' = [outbox EXCEPT ![p] = "queued"]
        /\ worker' = [worker EXCEPT ![c] =
                        [at |-> "append", ask |-> p, says |-> d]]
     \/ /\ row[p] # "pending"
        /\ worker' = [worker EXCEPT ![c] =
                        [at |-> IF row[p] # "resolved" THEN "orphaned"
                                ELSE IF decision[p] = d THEN "ok"
                                ELSE "conflict",
                         ask |-> p, says |-> d]]
        /\ UNCHANGED <<row, decision, outbox>>
  /\ UNCHANGED <<journal, hub, future, cancelling, backlog, serving, crashes,
                 faults>>

(* deliver_outbox, first step: the event. When it cannot be persisted the  *)
(* row stays queued and nobody is woken.                                   *)
AppendResponded(w) ==
  LET p == worker[w].ask IN
  /\ worker[w].at = "append"
  /\ \/ /\ Record(p, Fact("answered", worker[w].says))
        /\ SetWorker(w, "wake")
        /\ UNCHANGED faults
     \/ /\ Fault
        /\ SetWorker(w, "failed")
        /\ UNCHANGED journal
  /\ UNCHANGED <<row, decision, outbox, hub, future, cancelling, backlog,
                 serving, crashes>>

(* Second step: the waiter, if one is left. *)
WakeWaiter(w) ==
  LET p == worker[w].ask IN
  /\ worker[w].at = "wake"
  /\ IF waiter[p] THEN Send(p, worker[w].says, "delivery") ELSE UNCHANGED hub
  /\ SetWorker(w, "settle")
  /\ UNCHANGED <<durable, future, cancelling, backlog, serving, crashes,
                 faults>>

(* Third step: the outbox row. A failed UPDATE is ignored. *)
SettleOutbox(w) ==
  LET p == worker[w].ask IN
  /\ worker[w].at = "settle"
  /\ \/ /\ outbox' = [outbox EXCEPT ![p] = "delivered"]
        /\ UNCHANGED faults
     \/ /\ Fault
        /\ UNCHANGED outbox
  /\ SetWorker(w, "ok")
  /\ UNCHANGED <<row, decision, journal, hub, future, cancelling, backlog,
                 serving, crashes>>

-------------------------------------------------------------------------------
(* permission.respond: resolve the row, then take the waiter. *)

Permit(c, p, d) ==
  /\ serving
  /\ worker[c] = Idle
  /\ MarkResolved(p, d)
  /\ worker' = [worker EXCEPT ![c] =
                  [at |-> IF row[p] \in {"pending", "resolved"} THEN "take"
                          ELSE "orphaned",
                   ask |-> p, says |-> d]]
  /\ UNCHANGED <<outbox, journal, hub, future, cancelling, backlog, serving,
                 crashes, faults>>

TakeWaiter(c) ==
  LET p == worker[c].ask IN
  /\ worker[c].at = "take"
  /\ IF waiter[p] THEN Send(p, worker[c].says, "direct") ELSE UNCHANGED hub
  /\ SetWorker(c, IF waiter[p] /\ Listening(p) THEN "ok" ELSE "orphaned")
  /\ UNCHANGED <<durable, future, cancelling, backlog, serving, crashes,
                 faults>>

-------------------------------------------------------------------------------
(* cancel_run_tree, as far as questions are concerned. *)

SignalCancel ==
  /\ serving
  /\ cancel = "none"
  /\ cancel' = "signalled"
  /\ UNCHANGED <<durable, hub, future, sweep, worker, backlog, serving,
                 crashes, faults>>

(* Every waiter there is gets a denial, under one lock of the hub. *)
CancelWaiters ==
  LET stale == {p \in Asks : waiter[p]} IN
  /\ cancel = "signalled"
  /\ cancel' = "woken"
  /\ sweep' = stale
  /\ waiter' = [p \in Asks |-> FALSE]
  /\ answer' = [p \in Asks |->
                  IF p \in stale /\ Listening(p)
                  THEN [says |-> "deny", by |-> "cancel"] ELSE answer[p]]
  /\ UNCHANGED <<durable, future, worker, backlog, serving, crashes, faults>>

(* The rows of the waiters taken are resolved one by one. *)
ResolveSwept(p) ==
  /\ p \in sweep
  /\ MarkResolved(p, "deny")
  /\ sweep' = sweep \ {p}
  /\ UNCHANGED <<outbox, journal, hub, future, cancel, worker, backlog,
                 serving, crashes, faults>>

(* The forced phase drops a future that did not return within the grace. *)
AbortAsker(p) ==
  /\ cancel = "woken"
  /\ sweep = {}
  /\ asker[p] = "waiting"
  /\ GoTo(p, "aborted")
  /\ UNCHANGED <<durable, hub, heard, cancelling, worker, backlog, serving,
                 crashes, faults>>

-------------------------------------------------------------------------------
(* Crash and restart. *)

Crash ==
  /\ crashes < MaxCrashes
  /\ crashes' = crashes + 1
  /\ serving' = FALSE
  /\ waiter' = [p \in Asks |-> FALSE]
  /\ answer' = [p \in Asks |-> NoAnswer]
  /\ asker' = [p \in Asks |-> IF asker[p] \in Live THEN "lost" ELSE asker[p]]
  /\ cancel' = "none"
  /\ sweep' = {}
  /\ worker' = [w \in Workers |->
                  IF worker[w].at \in {"append", "wake", "settle", "take"}
                  THEN [worker[w] EXCEPT !.at = "lost"] ELSE worker[w]]
  /\ backlog' = {}
  /\ UNCHANGED <<durable, heard, faults>>

\* Mutant: the daemon starts to serve without reading the outbox.
RestartForgets ==
  /\ ~serving
  /\ worker[Boot].at \in {"idle", "lost"}
  /\ row' = [p \in Asks |-> IF row[p] = "pending" THEN "expired" ELSE row[p]]
  /\ worker' = [worker EXCEPT ![Boot] = [Idle EXCEPT !.at = "replay"]]
  /\ UNCHANGED <<decision, outbox, journal, hub, future, cancelling, backlog,
                 serving, crashes, faults>>

(* The restart transaction expires the pending rows; the outbox rows that  *)
(* are not delivered are then read once.                                   *)
Restart ==
  /\ ~serving
  /\ backlog = {}
  /\ worker[Boot].at \in {"idle", "lost"}
  /\ row' = [p \in Asks |-> IF row[p] = "pending" THEN "expired" ELSE row[p]]
  /\ backlog' = {p \in Asks : outbox[p] = "queued"}
  /\ worker' = [worker EXCEPT ![Boot] = [Idle EXCEPT !.at = "replay"]]
  /\ UNCHANGED <<decision, outbox, journal, hub, future, cancelling, serving,
                 crashes, faults>>

(* recover_interaction_outbox: the next row, once the last one is done. *)
ReplayNext(p) ==
  /\ worker[Boot].at \in {"replay", "ok", "failed"}
  /\ ~serving
  /\ p \in backlog
  /\ backlog' = backlog \ {p}
  /\ worker' = [worker EXCEPT ![Boot] =
                  [at |-> "append", ask |-> p, says |-> decision[p]]]
  /\ UNCHANGED <<durable, hub, future, cancelling, serving, crashes, faults>>

(* The accept loop starts when the replay is over. *)
Serve ==
  /\ ~serving
  /\ worker[Boot].at \in {"replay", "ok", "failed"}
  /\ backlog = {}
  /\ serving' = TRUE
  /\ worker' = [worker EXCEPT ![Boot] = Idle]
  /\ UNCHANGED <<durable, hub, future, cancelling, backlog, crashes, faults>>

-------------------------------------------------------------------------------

AskerStep(p) ==
  \/ RegisterWaiter(p) \/ InsertPending(p) \/ PublishRequest(p)
  \/ ResolveWithdrawn(p) \/ HearCancel(p) \/ HearAnswer(p) \/ HearTimeout(p)
  \/ MarkHeard(p) \/ Conclude(p)

DeliveryStep(w) == AppendResponded(w) \/ WakeWaiter(w) \/ SettleOutbox(w)

ClientStep(c) ==
  \/ \E p \in Asks, d \in Answers : Respond(c, p, d) \/ Permit(c, p, d)
  \/ TakeWaiter(c)

CancelStep ==
  \/ SignalCancel \/ CancelWaiters
  \/ \E p \in Asks : ResolveSwept(p) \/ AbortAsker(p)

BootStep == Restart \/ Serve \/ \E p \in Asks : ReplayNext(p)

Next ==
  \/ \E p \in Asks : AskerStep(p)
  \/ \E w \in Workers : DeliveryStep(w)
  \/ \E c \in Clients : ClientStep(c)
  \/ CancelStep
  \/ BootStep
  \/ Crash

(* Futures, calls and the boot sequence keep running; whether a client     *)
(* answers, a cancel comes or the daemon crashes is left open.             *)
Fairness ==
  /\ \A p \in Asks : WF_vars(asker[p] # "idle" /\ AskerStep(p))
  /\ \A w \in Workers : WF_vars(DeliveryStep(w))
  /\ \A c \in Clients : WF_vars(TakeWaiter(c))
  /\ WF_vars(CancelWaiters)
  /\ \A p \in Asks : WF_vars(ResolveSwept(p))
  /\ WF_vars(BootStep)

Spec == Init /\ [][Next]_vars /\ Fairness

-------------------------------------------------------------------------------
(* Correctness. *)

\* The types; an announced or concluded fact always carries an answer.
TypeOK ==
  /\ row \in [Asks -> Rows]
  /\ decision \in [Asks -> Answers \cup {"none"}]
  /\ outbox \in [Asks -> {"none", "queued", "delivered"}]
  /\ journal \in [Asks -> Seq(Facts)]
  /\ \A p \in Asks : Said(p, "answered") \cup Said(p, "concluded") \subseteq Answers
  /\ waiter \in [Asks -> BOOLEAN]
  /\ answer \in [Asks -> {NoAnswer} \cup [says : Answers, by : Paths]]
  /\ asker \in [Asks -> {"idle"} \cup Live \cup Final]
  /\ heard \in [Asks -> Answers \cup {"none"}]
  /\ cancel \in {"none", "signalled", "woken"}
  /\ sweep \subseteq Asks /\ backlog \subseteq Asks
  /\ worker \in [Workers -> [at : Steps, ask : Asks \cup {NoAsk},
                             says : Answers \cup {"none"}]]
  /\ serving \in BOOLEAN
  /\ crashes \in 0..MaxCrashes /\ faults \in 0..MaxFaults

(* interaction_store.rs:200-201, "the handler never runs ahead of its      *)
(* durable event": what a delivery sent to the asking future has been      *)
(* announced in the journal and is what the row says.                      *)
WokenAfterEvent ==
  \A p \in Asks :
    answer[p].by = "delivery" =>
      answer[p].says \in Said(p, "answered") /\ answer[p].says = decision[p]

(* The answers the clients have sent for p. *)
Given(p) == {worker[c].says : c \in {x \in Clients : worker[x].ask = p}}

(* A tool runs only on an answer a client gave, and when the clients agree  *)
(* the durable decision is that answer, whatever timeouts, cancels, faults  *)
(* and restarts came between.                                              *)
AllowedAsAgreed ==
  \A p \in Asks :
    asker[p] = "allowed" =>
      /\ "approve" \in Given(p)
      /\ Given(p) = {"approve"} => decision[p] = "approve"
      /\ {"requested", "concluded"} \subseteq {f.kind : f \in ToSet(journal[p])}

(* What clients and restarts see of a question is one final decision, and   *)
(* the journal never announces another one (DecisionLog).                  *)
Promise ==
  INSTANCE DecisionLog WITH
    verdict <- [p \in Asks |->
                  IF row[p] = "expired" THEN "expired"
                  ELSE IF row[p] = "resolved" THEN decision[p] ELSE "open"],
    announced <- [p \in Asks |-> Said(p, "answered")]

ImplementsDecisionLog == Promise!Spec

(* interaction_store.rs:199-200, "a crash between the decision and the      *)
(* event loses nothing": a decision taken over interaction.respond is       *)
(* announced sooner or later, unless the journal refused it.               *)
DecisionIsAnnounced ==
  \A p \in Asks :
    outbox[p] = "queued" ~> (Said(p, "answered") # {} \/ faults > 0)

(* Every future that asks comes back, answered or not. *)
AskReturns == \A p \in Asks : (asker[p] \in Live) ~> (asker[p] \in Final)

================================================================================
