-------------------------- MODULE InteractionsProofs --------------------------
(***************************************************************************)
(* What the interaction store guarantees for any number of questions,      *)
(* answering calls, failed writes and crashes: it implements DecisionLog,  *)
(* nobody is woken ahead of the journal, and a tool runs only on an answer *)
(* a client gave.                                                          *)
(***************************************************************************)
EXTENDS Interactions, TLAPS

(* The facts the journal holds for p.                                      *)
Told(p) == ToSet(journal[p])

(* A delivery, or a direct answer, that has a step left.                   *)
Delivering(w) == worker[w].at \in {"append", "wake", "settle", "take"}

Calls == [at : Steps, ask : Asks \cup {NoAsk}, says : Answers \cup {"none"}]

Types ==
  /\ row \in [Asks -> Rows]
  /\ decision \in [Asks -> Answers \cup {"none"}]
  /\ outbox \in [Asks -> {"none", "queued", "delivered"}]
  /\ journal \in [Asks -> Seq(Facts)]
  /\ waiter \in [Asks -> BOOLEAN]
  /\ answer \in [Asks -> {NoAnswer} \cup [says : Answers, by : Paths]]
  /\ asker \in [Asks -> {"idle"} \cup Live \cup Final]
  /\ heard \in [Asks -> Answers \cup {"none"}]
  /\ cancel \in {"none", "signalled", "woken"}
  /\ sweep \subseteq Asks /\ backlog \subseteq Asks
  /\ worker \in [Workers -> Calls]

(* A row appears with its question, and what is queued for delivery or     *)
(* being delivered is decided.                                             *)
RowsInv ==
  \A p \in Asks :
    /\ asker[p] \in {"idle", "registered"} => row[p] = "none"
    /\ row[p] = "resolved" => decision[p] \in Answers
    /\ outbox[p] = "queued" \/ p \in backlog => row[p] = "resolved"

(* A call delivers the decision, and wakes only what it has announced.     *)
WorkersInv ==
  \A w \in Workers : Delivering(w) =>
    /\ worker[w].ask \in Asks /\ worker[w].says \in Answers
    /\ row[worker[w].ask] = "resolved"
    /\ worker[w].at # "take" => worker[w].says = decision[worker[w].ask]
    /\ worker[w].at = "wake" => Fact("answered", worker[w].says) \in Told(worker[w].ask)

(* What a waiter was sent.                                                 *)
SentInv ==
  \A p \in Asks :
    /\ answer[p].by \in {"delivery", "direct"} => row[p] = "resolved"
    /\ answer[p].by = "cancel" => answer[p].says = "deny"
    /\ answer[p].by = "delivery" =>
         /\ Fact("answered", answer[p].says) \in Told(p)
         /\ answer[p].says = decision[p]

(* An approval, wherever it is found, was given by a client.               *)
ApprovalInv ==
  \A p \in Asks :
    "approve" \in {decision[p], answer[p].says, heard[p]} => "approve" \in Given(p)

(* Until a cancel, a question somebody waits for is decided by a client.   *)
DeciderInv ==
  /\ sweep # {} => cancel = "woken"
  /\ \A p \in Asks :
       /\ Listening(p) /\ cancel = "none" /\ row[p] = "resolved" => decision[p] \in Given(p)
       /\ heard[p] = "approve" => row[p] = "resolved" /\ decision[p] \in Given(p)

(* What the journal has of a question, by where its future is.             *)
FutureInv ==
  \A p \in Asks :
    /\ asker[p] \in {"waiting", "heard", "marked", "allowed"} =>
         Fact("requested", "none") \in Told(p)
    /\ asker[p] \in {"heard", "marked"} => heard[p] \in Answers
    /\ asker[p] = "allowed" =>
         heard[p] = "approve" /\ Fact("concluded", "approve") \in Told(p)

AskInv ==
  /\ Types /\ RowsInv /\ WorkersInv /\ SentInv /\ ApprovalInv /\ DeciderInv /\ FutureInv

-------------------------------------------------------------------------------
(* The journal. *)

(* A fact is appended to the log of one question.                          *)
LEMMA RecordAdds ==
  ASSUME NEW p \in Asks, NEW f \in Facts, journal \in [Asks -> Seq(Facts)], Record(p, f)
  PROVE  /\ journal' \in [Asks -> Seq(Facts)]
         /\ Told(p)' = Told(p) \cup {f}
         /\ \A q \in Asks \ {p} : Told(q)' = Told(q)
<1>1. journal' = [journal EXCEPT ![p] = Append(@, f)]
  BY DEF Record
<1>2. journal[p] \in Seq(Facts) /\ journal'[p] = Append(journal[p], f)
  BY <1>1
<1>3. Append(journal[p], f) \in Seq(Facts)
  BY <1>2
<1>4. ToSet(Append(journal[p], f)) = ToSet(journal[p]) \cup {f}
  BY <1>2 DEF ToSet
<1> QED  BY <1>1, <1>2, <1>3, <1>4 DEF Told

(* The three facts a step records.                                         *)
LEMMA FactsAreFacts ==
  /\ Fact("requested", "none") \in Facts
  /\ \A a \in Answers : Fact("answered", a) \in Facts /\ Fact("concluded", a) \in Facts
BY DEF Fact, Facts

(* The answers the facts give.                                             *)
LEMMA SaidIsTold ==
  ASSUME Types, NEW p \in Asks, NEW kind, NEW says
  PROVE  says \in Said(p, kind) <=> Fact(kind, says) \in Told(p)
<1>1. Told(p) \subseteq Facts
  BY DEF Types, Told, ToSet
<1>2. \A f \in Facts : f = [kind |-> f.kind, says |-> f.says]
  BY DEF Facts
<1> QED  BY <1>1, <1>2 DEF Said, Told, Fact

-------------------------------------------------------------------------------
(* What no step undoes. *)

(* What a step does to the rows and the journal of the questions.          *)
Answered   == journal' = journal /\ \E p \in Asks, d \in Answers : MarkResolved(p, d)
Inserted   == /\ UNCHANGED <<decision, journal>>
              /\ \E p \in Asks : row[p] = "none" /\ row' = [row EXCEPT ![p] = "pending"]
Expired    == /\ UNCHANGED <<decision, journal>>
              /\ row' = [p \in Asks |-> IF row[p] = "pending" THEN "expired" ELSE row[p]]
Journalled == /\ UNCHANGED <<row, decision>>
              /\ \E p \in Asks, f \in Facts :
                   /\ Record(p, f)
                   /\ f.kind = "answered" => row[p] = "resolved" /\ f.says = decision[p]
StoreIdle  == UNCHANGED <<row, decision, journal>>

(* Each step is one of these.                                              *)
LEMMA StoreSteps ==
  ASSUME AskInv, [Next]_vars
  PROVE  Answered \/ Inserted \/ Expired \/ Journalled \/ StoreIdle
<1> USE FactsAreFacts DEF AskInv
<1>1. ASSUME NEW p \in Asks, AskerStep(p)
      PROVE  Answered \/ Inserted \/ Journalled \/ StoreIdle
  <2>1. CASE RegisterWaiter(p)
    BY <2>1 DEF RegisterWaiter, durable, StoreIdle
  <2>2. CASE HearCancel(p) \/ HearAnswer(p) \/ HearTimeout(p)
    BY <2>2 DEF HearCancel, HearAnswer, HearTimeout, Hear, durable, StoreIdle
  <2>3. CASE InsertPending(p)
    BY <2>3 DEF InsertPending, RowsInv, Inserted, StoreIdle
  <2>4. CASE PublishRequest(p)
    <3>1. Fact("requested", "none").kind # "answered"
      BY DEF Fact
    <3> QED  BY <2>4, <3>1 DEF PublishRequest, Journalled, StoreIdle
  <2>5. CASE ResolveWithdrawn(p)
    BY <2>5 DEF ResolveWithdrawn, Answered, Answers
  <2>6. CASE MarkHeard(p)
    BY <2>6 DEF MarkHeard, FutureInv, Answered, StoreIdle
  <2>7. CASE Conclude(p)
    <3>1. heard[p] \in Answers /\ Fact("concluded", heard[p]).kind # "answered"
      BY <2>7 DEF Conclude, FutureInv, Fact
    <3> QED  BY <2>7, <3>1 DEF Conclude, Journalled, StoreIdle
  <2> QED  BY <1>1, <2>1, <2>2, <2>3, <2>4, <2>5, <2>6, <2>7 DEF AskerStep
<1>2. ASSUME NEW w \in Workers, DeliveryStep(w) PROVE Journalled \/ StoreIdle
  <2>1. CASE AppendResponded(w)
    <3>1. /\ worker[w].ask \in Asks /\ worker[w].says \in Answers
          /\ row[worker[w].ask] = "resolved" /\ worker[w].says = decision[worker[w].ask]
      BY <2>1 DEF AppendResponded, WorkersInv, Delivering
    <3>2. Fact("answered", worker[w].says).says = worker[w].says
      BY DEF Fact
    <3> QED  BY <2>1, <3>1, <3>2 DEF AppendResponded, Journalled, StoreIdle
  <2> QED  BY <1>2, <2>1 DEF DeliveryStep, WakeWaiter, SettleOutbox, durable, StoreIdle
<1>3. ASSUME NEW c \in Clients, ClientStep(c) PROVE Answered \/ StoreIdle
  BY <1>3 DEF ClientStep, Respond, Permit, TakeWaiter, durable, MarkResolved, Answered, StoreIdle
<1>4. CASE CancelStep
  <2>1. ASSUME NEW p \in Asks, ResolveSwept(p) PROVE Answered
    BY <2>1 DEF ResolveSwept, Answered, Answers
  <2> QED  BY <1>4, <2>1 DEF CancelStep, SignalCancel, CancelWaiters, AbortAsker, durable, StoreIdle
<1>5. CASE BootStep
  BY <1>5 DEF BootStep, Restart, Serve, ReplayNext, durable, Expired, StoreIdle
<1>6. CASE Crash \/ UNCHANGED vars
  BY <1>6 DEF Crash, vars, durable, StoreIdle
<1> QED  BY <1>1, <1>2, <1>3, <1>4, <1>5, <1>6 DEF Next

(* Nothing is ever taken out of the journal.                               *)
LEMMA JournalGrows ==
  ASSUME AskInv, [Next]_vars
  PROVE  /\ journal' \in [Asks -> Seq(Facts)]
         /\ \A p \in Asks : Told(p) \subseteq Told(p)'
<1>1. CASE journal' = journal
  BY <1>1 DEF AskInv, Types, Told
<1>2. CASE \E p \in Asks, f \in Facts : Record(p, f)
  BY <1>2, RecordAdds DEF AskInv, Types
<1> QED  BY <1>1, <1>2, StoreSteps DEF Answered, Inserted, Expired, Journalled, StoreIdle

(* A client's answer stays on record.                                      *)
LEMMA GivenGrows ==
  ASSUME Types, [Next]_vars, NEW p \in Asks
  PROVE  Given(p) \subseteq Given(p)'
<1> SUFFICES ASSUME NEW c \in Clients, worker[c].ask = p
             PROVE  worker'[c].ask = p /\ worker'[c].says = worker[c].says
  BY DEF Given
<1> USE DEF Types, Workers, SetWorker
<1>1. worker[c] # Idle /\ c # Boot
  BY NamesAssumption DEF Idle
<1>2. ASSUME NEW q \in Asks, AskerStep(q) PROVE worker' = worker
  BY <1>2 DEF AskerStep, RegisterWaiter, InsertPending, PublishRequest, ResolveWithdrawn,
              HearCancel, HearAnswer, HearTimeout, Hear, MarkHeard, Conclude
<1>3. ASSUME NEW w \in Workers, NEW at, SetWorker(w, at)
      PROVE  worker'[c].ask = p /\ worker'[c].says = worker[c].says
  BY <1>3
<1>4. ASSUME NEW w \in Workers, DeliveryStep(w) PROVE \E at : SetWorker(w, at)
  BY <1>4 DEF DeliveryStep, AppendResponded, WakeWaiter, SettleOutbox
<1>5. ASSUME NEW d \in Clients, ClientStep(d)
      PROVE  \/ d # c /\ worker'[c] = worker[c]
             \/ \E at : SetWorker(d, at)
  BY <1>1, <1>5 DEF ClientStep, Respond, Permit, TakeWaiter
<1>6. CASE CancelStep
  BY <1>6 DEF CancelStep, SignalCancel, CancelWaiters, ResolveSwept, AbortAsker
<1>7. CASE BootStep
  BY <1>1, <1>7 DEF BootStep, Restart, Serve, ReplayNext
<1>8. CASE Crash
  <2>1. worker'[c] = worker[c] \/ worker'[c] = [worker[c] EXCEPT !.at = "lost"]
    BY <1>8 DEF Crash
  <2>2. worker[c] \in Calls
    OBVIOUS
  <2> QED  BY <2>1, <2>2 DEF Calls
<1>9. CASE UNCHANGED vars
  BY <1>9 DEF vars
<1> QED  BY <1>2, <1>3, <1>4, <1>5, <1>6, <1>7, <1>8, <1>9 DEF Next

(* The write of an answer: a pending row takes it, no other row changes.   *)
LEMMA MarkTakes ==
  ASSUME Types, NEW p \in Asks, NEW d \in Answers, MarkResolved(p, d)
  PROVE  /\ row' \in [Asks -> Rows] /\ decision' \in [Asks -> Answers \cup {"none"}]
         /\ row[p] = "pending" => row'[p] = "resolved" /\ decision'[p] = d
         /\ \A q \in Asks : q # p \/ row[p] # "pending" =>
              row'[q] = row[q] /\ decision'[q] = decision[q]
BY DEF Types, MarkResolved, Rows

(* How a row may change: it appears, is answered, or expires.              *)
RowStep(p) ==
  \/ row'[p] = row[p] /\ decision'[p] = decision[p]
  \/ row[p] = "none" /\ row'[p] = "pending" /\ decision'[p] = decision[p]
  \/ row[p] = "pending" /\ row'[p] = "resolved" /\ decision'[p] \in Answers
  \/ row[p] = "pending" /\ row'[p] = "expired" /\ decision'[p] = decision[p]

(* No step changes a row that is closed.                                   *)
LEMMA RowSteps ==
  ASSUME AskInv, [Next]_vars
  PROVE  /\ row' \in [Asks -> Rows] /\ decision' \in [Asks -> Answers \cup {"none"}]
         /\ \A p \in Asks : RowStep(p)
<1> USE DEF AskInv, Types, RowStep, Rows
<1>1. CASE Answered
  BY <1>1, MarkTakes DEF Answered
<1>2. CASE Inserted
  BY <1>2 DEF Inserted
<1>3. CASE Expired
  BY <1>3 DEF Expired
<1>4. CASE Journalled \/ StoreIdle
  BY <1>4 DEF Journalled, StoreIdle
<1> QED  BY <1>1, <1>2, <1>3, <1>4, StoreSteps

-------------------------------------------------------------------------------
(* The invariant. *)

(* Nothing is asked first.                                                 *)
LEMMA AskInvInit == Init => AskInv
<1> SUFFICES ASSUME Init PROVE AskInv
  OBVIOUS
<1>1. Types
  BY DEF Init, Types, Rows, Steps, Idle, Calls
<1>2. \A w \in Workers : ~Delivering(w)
  BY DEF Init, Delivering, Idle
<1>3. \A p \in Asks : answer[p].by = "none" /\ answer[p].says = "none"
  BY DEF Init, NoAnswer
<1>4. \A p \in Asks : /\ row[p] = "none" /\ decision[p] = "none" /\ outbox[p] = "none"
                      /\ asker[p] = "idle" /\ heard[p] = "none" /\ backlog = {} /\ sweep = {}
  BY DEF Init
<1>5. RowsInv /\ FutureInv
  BY <1>4 DEF RowsInv, FutureInv
<1>6. SentInv /\ ApprovalInv
  BY <1>3, <1>4 DEF SentInv, ApprovalInv
<1>7. DeciderInv
  BY <1>4 DEF Init, DeciderInv, Listening
<1> QED  BY <1>1, <1>2, <1>5, <1>6, <1>7 DEF AskInv, WorkersInv

(* The hub's answer to a waiter that is taken.                             *)
LEMMA SendTypes ==
  ASSUME Types, NEW p \in Asks, NEW d \in Answers, NEW path \in Paths, Send(p, d, path)
  PROVE  /\ waiter' \in [Asks -> BOOLEAN]
         /\ answer' \in [Asks -> {NoAnswer} \cup [says : Answers, by : Paths]]
         /\ answer'[p] = answer[p] \/ answer'[p] = [says |-> d, by |-> path]
         /\ \A q \in Asks \ {p} : answer'[q] = answer[q]
BY DEF Types, Send

(* A call that moves on is about the same answer.                          *)
LEMMA CallMoves ==
  ASSUME NEW x \in Calls, NEW at \in Steps
  PROVE  /\ [x EXCEPT !.at = at] \in Calls
         /\ [x EXCEPT !.at = at].at = at
         /\ [x EXCEPT !.at = at].ask = x.ask /\ [x EXCEPT !.at = at].says = x.says
BY DEF Calls

(* The same, where the call is.                                            *)
LEMMA SetWorkerMoves ==
  ASSUME Types, NEW w \in Workers, NEW at \in Steps, SetWorker(w, at)
  PROVE  /\ worker' \in [Workers -> Calls]
         /\ worker'[w].at = at /\ worker'[w].ask = worker[w].ask /\ worker'[w].says = worker[w].says
         /\ \A v \in Workers \ {w} : worker'[v] = worker[v]
<1>1. worker' = [worker EXCEPT ![w] = [worker[w] EXCEPT !.at = at]]
  BY DEF SetWorker
<1>2. worker \in [Workers -> Calls] /\ worker[w] \in Calls
  BY DEF Types
<1>3. worker'[w] = [worker[w] EXCEPT !.at = at]
  BY <1>1, <1>2
<1> QED  BY <1>1, <1>2, <1>3, CallMoves

(* Every step keeps the types.                                             *)
LEMMA TypesStep ==
  ASSUME AskInv, [Next]_vars
  PROVE  Types'
<1>1. /\ row' \in [Asks -> Rows] /\ decision' \in [Asks -> Answers \cup {"none"}]
      /\ journal' \in [Asks -> Seq(Facts)]
  BY RowSteps, JournalGrows DEF AskInv
<1> USE <1>1 DEF AskInv, Types, GoTo, Live, Final, Answers, Workers, Steps
<1>2. ASSUME NEW p \in Asks, AskerStep(p) PROVE Types'
  <2>1. CASE RegisterWaiter(p)
    BY <2>1 DEF RegisterWaiter, durable, cancelling
  <2>2. CASE InsertPending(p)
    BY <2>2 DEF InsertPending, cancelling
  <2>3. CASE PublishRequest(p)
    BY <2>3 DEF PublishRequest, cancelling
  <2>4. CASE ResolveWithdrawn(p)
    BY <2>4 DEF ResolveWithdrawn, cancelling, hub
  <2>5. CASE HearCancel(p) \/ HearTimeout(p)
    BY <2>5 DEF HearCancel, HearTimeout, Hear, durable, cancelling
  <2>6. CASE HearAnswer(p)
    <3>1. answer[p].says \in Answers
      BY <2>6 DEF HearAnswer
    <3> QED  BY <2>6, <3>1 DEF HearAnswer, Hear, durable, cancelling
  <2>7. CASE MarkHeard(p)
    BY <2>7 DEF MarkHeard, hub, cancelling
  <2>8. CASE Conclude(p)
    BY <2>8 DEF Conclude, hub, cancelling
  <2> QED  BY <1>2, <2>1, <2>2, <2>3, <2>4, <2>5, <2>6, <2>7, <2>8 DEF AskerStep
<1>3. ASSUME NEW w \in Workers, DeliveryStep(w) PROVE Types'
  <2>1. worker[w].ask \in Asks /\ worker[w].says \in Answers
    BY <1>3 DEF DeliveryStep, AppendResponded, WakeWaiter, SettleOutbox, WorkersInv, Delivering
  <2>2. \A at \in Steps : SetWorker(w, at) =>
          worker' \in [Workers -> Calls]
    BY SetWorkerMoves
  <2>3. CASE AppendResponded(w)
    BY <2>2, <2>3 DEF AppendResponded, hub, future, cancelling
  <2>4. CASE WakeWaiter(w)
    BY <2>1, <2>2, <2>4, SendTypes DEF WakeWaiter, hub, future, cancelling, durable, Paths
  <2>5. CASE SettleOutbox(w)
    BY <2>1, <2>2, <2>5 DEF SettleOutbox, hub, future, cancelling
  <2> QED  BY <1>3, <2>3, <2>4, <2>5 DEF DeliveryStep
<1>4. ASSUME NEW c \in Clients, ClientStep(c) PROVE Types'
  <2>1. ASSUME NEW p \in Asks, NEW d \in Answers, Respond(c, p, d) PROVE Types'
    <3>1. \E at \in Steps : worker' = [worker EXCEPT ![c] = [at |-> at, ask |-> p, says |-> d]]
      BY <2>1 DEF Respond
    <3>2. worker' \in [Workers -> Calls]
      BY <3>1 DEF Calls
    <3>3. outbox' \in [Asks -> {"none", "queued", "delivered"}]
      BY <2>1 DEF Respond
    <3> QED  BY <2>1, <3>2, <3>3 DEF Respond, hub, future, cancelling
  <2>2. ASSUME NEW p \in Asks, NEW d \in Answers, Permit(c, p, d) PROVE Types'
    BY <2>2 DEF Calls, Permit, hub, future, cancelling
  <2>3. CASE TakeWaiter(c)
    <3>1. worker[c].ask \in Asks /\ worker[c].says \in Answers
      BY <2>3 DEF TakeWaiter, WorkersInv, Delivering
    <3>2. worker' \in [Workers -> Calls]
      BY <2>3, SetWorkerMoves DEF TakeWaiter
    <3> QED  BY <2>3, <3>1, <3>2, SendTypes
             DEF TakeWaiter, hub, future, cancelling, durable, Paths
  <2> QED  BY <1>4, <2>1, <2>2, <2>3 DEF ClientStep
<1>5. CASE CancelStep
  <2>1. CASE SignalCancel
    BY <2>1 DEF SignalCancel, durable, hub, future
  <2>2. CASE CancelWaiters
    BY <2>2 DEF CancelWaiters, durable, future, Paths
  <2>3. CASE \E p \in Asks : ResolveSwept(p)
    BY <2>3 DEF ResolveSwept, hub, future
  <2>4. CASE \E p \in Asks : AbortAsker(p)
    BY <2>4 DEF AbortAsker, durable, hub, cancelling
  <2> QED  BY <1>5, <2>1, <2>2, <2>3, <2>4 DEF CancelStep
<1>6. CASE BootStep
  <2>1. CASE Restart
    BY <2>1 DEF Calls, Restart, hub, future, cancelling, Idle
  <2>2. CASE Serve
    BY <2>2 DEF Calls, Serve, durable, hub, future, cancelling, Idle
  <2>3. CASE \E p \in Asks : ReplayNext(p)
    BY <2>3 DEF Calls, ReplayNext, durable, hub, future, cancelling
  <2> QED  BY <1>6, <2>1, <2>2, <2>3 DEF BootStep
<1>7. CASE Crash
  <2>1. "lost" \in Steps /\ \A w \in Workers : [worker[w] EXCEPT !.at = "lost"] \in Calls
    BY CallMoves
  <2>2. worker' \in [Workers -> Calls]
    BY <1>7, <2>1 DEF Crash
  <2> QED  BY <1>7, <2>2 DEF Crash, durable
<1>8. CASE UNCHANGED vars
  BY <1>8 DEF vars, durable, hub, future, cancelling
<1> QED  BY <1>2, <1>3, <1>4, <1>5, <1>6, <1>7, <1>8 DEF Next

(* What is decided stays as it is.                                         *)
LEMMA DecisionsStay ==
  ASSUME AskInv, [Next]_vars, NEW p \in Asks, row[p] = "resolved"
  PROVE  row'[p] = "resolved" /\ decision'[p] = decision[p]
BY RowSteps DEF AskInv, RowStep

(* A future that has not inserted its row was before in the same place, or *)
(* in the one before.                                                      *)
LEMMA AskersMove ==
  ASSUME AskInv, [Next]_vars, NEW p \in Asks, asker'[p] \in {"idle", "registered"}
  PROVE  asker[p] \in {"idle", "registered"} /\ row'[p] = row[p]
<1> USE DEF AskInv, Types, GoTo
<1>1. ASSUME NEW q \in Asks, NEW d, MarkResolved(q, d), row[p] = "none"
      PROVE  row'[p] = row[p]
  BY <1>1 DEF MarkResolved
<1>2. ASSUME asker[p] \in {"idle", "registered"} PROVE row[p] = "none"
  BY <1>2 DEF RowsInv
<1>3. ASSUME NEW q \in Asks, AskerStep(q) PROVE asker[p] \in {"idle", "registered"} /\ row'[p] = row[p]
  <2>1. CASE RegisterWaiter(q)
    BY <2>1 DEF RegisterWaiter, durable
  <2>2. CASE InsertPending(q) \/ PublishRequest(q)
    BY <2>2 DEF InsertPending, PublishRequest
  <2>3. CASE HearCancel(q) \/ HearAnswer(q) \/ HearTimeout(q)
    BY <2>3 DEF HearCancel, HearAnswer, HearTimeout, Hear, durable
  <2>4. CASE ResolveWithdrawn(q)
    BY <1>1, <1>2, <2>4 DEF ResolveWithdrawn
  <2>5. CASE MarkHeard(q)
    <3>1. asker[p] \in {"idle", "registered"} /\ (row'[p] = row[p] \/ MarkResolved(q, heard[q]))
      BY <2>5 DEF MarkHeard
    <3> QED  BY <1>1, <1>2, <3>1
  <2>6. CASE Conclude(q)
    BY <2>6 DEF Conclude
  <2> QED  BY <1>3, <2>1, <2>2, <2>3, <2>4, <2>5, <2>6 DEF AskerStep
<1>4. ASSUME NEW w \in Workers, DeliveryStep(w) PROVE asker' = asker /\ row' = row
  BY <1>4 DEF DeliveryStep, AppendResponded, WakeWaiter, SettleOutbox, future, durable
<1>5. ASSUME NEW c \in Clients, ClientStep(c), asker[p] \in {"idle", "registered"} => row[p] = "none"
      PROVE  asker[p] \in {"idle", "registered"} /\ row'[p] = row[p]
  <2>1. asker' = asker
    BY <1>5 DEF ClientStep, Respond, Permit, TakeWaiter, future
  <2> QED  BY <1>1, <1>2, <1>5, <2>1 DEF ClientStep, Respond, Permit, TakeWaiter, durable
<1>6. CASE CancelStep
  BY <1>1, <1>2, <1>6
     DEF CancelStep, SignalCancel, CancelWaiters, ResolveSwept, AbortAsker, durable, future
<1>7. CASE BootStep
  BY <1>2, <1>7 DEF BootStep, Restart, Serve, ReplayNext, future, durable
<1>8. CASE Crash \/ UNCHANGED vars
  BY <1>8 DEF Crash, vars, durable, future, Live
<1> QED  BY <1>2, <1>3, <1>4, <1>5, <1>6, <1>7, <1>8 DEF Next

(* Only a decision is queued.                                              *)
LEMMA QueuedAreDecided ==
  ASSUME AskInv, [Next]_vars, NEW p \in Asks, outbox'[p] = "queued" \/ p \in backlog'
  PROVE  row'[p] = "resolved"
<1> USE DEF AskInv, Types
<1>1. CASE outbox[p] = "queued" \/ p \in backlog
  BY <1>1, DecisionsStay DEF RowsInv
<1>2. CASE outbox[p] # "queued" /\ p \notin backlog
  <2>1. PICK c \in Clients, q \in Asks, d \in Answers : Respond(c, q, d) /\ row[q] = "pending"
    <3>1. ASSUME NEW q \in Asks, AskerStep(q) PROVE outbox' = outbox /\ backlog' = backlog
      BY <3>1 DEF AskerStep, RegisterWaiter, InsertPending, PublishRequest, ResolveWithdrawn,
                  HearCancel, HearAnswer, HearTimeout, Hear, MarkHeard, Conclude, durable
    <3>2. ASSUME NEW w \in Workers, DeliveryStep(w)
          PROVE  outbox'[p] # "queued" /\ backlog' = backlog
      BY <1>2, <3>2 DEF DeliveryStep, AppendResponded, WakeWaiter, SettleOutbox, durable
    <3>3. CASE CancelStep \/ Crash \/ UNCHANGED vars
      BY <1>2, <3>3 DEF CancelStep, SignalCancel, CancelWaiters, ResolveSwept, AbortAsker,
                        Crash, vars, durable
    <3>4. CASE BootStep
      BY <1>2, <3>4 DEF BootStep, Restart, Serve, ReplayNext, durable
    <3>5. CASE \E c \in Clients : ClientStep(c)
      <4>1. ASSUME NEW c \in Clients, NEW q \in Asks, NEW d \in Answers,
                   (Respond(c, q, d) /\ row[q] # "pending") \/ Permit(c, q, d)
            PROVE  FALSE
        BY <1>2, <4>1 DEF Respond, Permit, TakeWaiter, durable
      <4>2. ASSUME NEW c \in Clients, TakeWaiter(c) PROVE FALSE
        BY <1>2, <4>2 DEF TakeWaiter, durable
      <4> QED  BY <3>5, <4>1, <4>2 DEF ClientStep
    <3> QED  BY <1>2, <3>1, <3>2, <3>3, <3>4, <3>5 DEF Next
  <2>2. p = q
    BY <1>2, <2>1 DEF Respond
  <2> QED  BY <2>1, <2>2 DEF Respond
<1> QED  BY <1>1, <1>2

(* Every step keeps the rows in order.                                     *)
LEMMA RowsStep ==
  ASSUME AskInv, [Next]_vars
  PROVE  RowsInv'
<1> SUFFICES ASSUME NEW p \in Asks
             PROVE  /\ asker'[p] \in {"idle", "registered"} => row'[p] = "none"
                    /\ row'[p] = "resolved" => decision'[p] \in Answers
                    /\ outbox'[p] = "queued" \/ p \in backlog' => row'[p] = "resolved"
  BY DEF RowsInv
<1>1. asker'[p] \in {"idle", "registered"} => row'[p] = "none"
  BY AskersMove DEF AskInv, RowsInv
<1>2. row'[p] = "resolved" => decision'[p] \in Answers
  BY RowSteps DEF AskInv, RowsInv, RowStep
<1> QED  BY <1>1, <1>2, QueuedAreDecided

(* What WorkersInv says of one call.                                       *)
InOrder(w) ==
  Delivering(w) =>
    /\ worker[w].ask \in Asks /\ worker[w].says \in Answers
    /\ row[worker[w].ask] = "resolved"
    /\ worker[w].at # "take" => worker[w].says = decision[worker[w].ask]
    /\ worker[w].at = "wake" => Fact("answered", worker[w].says) \in Told(worker[w].ask)

(* A call that did not move is in order after a step of somebody else, and *)
(* so is one that has woken its waiter.                                    *)
LEMMA OthersStayInOrder ==
  ASSUME AskInv, [Next]_vars, NEW w \in Workers,
         \/ worker'[w] = worker[w]
         \/ /\ worker[w].at = "wake" /\ worker'[w].at = "settle"
            /\ worker'[w].ask = worker[w].ask /\ worker'[w].says = worker[w].says
  PROVE  InOrder(w)'
<1> SUFFICES ASSUME Delivering(w)' PROVE InOrder(w)'
  BY DEF InOrder
<1>1. Delivering(w) /\ worker'[w].ask = worker[w].ask /\ worker'[w].says = worker[w].says
  BY DEF Delivering
<1>2. InOrder(w)
  BY DEF AskInv, WorkersInv, InOrder
<1>3. PICK p \in Asks : p = worker[w].ask /\ p = worker'[w].ask
  BY <1>1, <1>2 DEF InOrder
<1>4. row'[p] = "resolved" /\ decision'[p] = decision[p] /\ Told(p) \subseteq Told(p)'
  BY <1>1, <1>2, <1>3, DecisionsStay, JournalGrows DEF InOrder, AskInv
<1>5. worker'[w].at = "wake" => Fact("answered", worker[w].says) \in Told(p)'
  BY <1>1, <1>2, <1>3, <1>4 DEF InOrder
<1>6. worker'[w].at # "take" => worker[w].says = decision'[p]
  BY <1>1, <1>2, <1>3, <1>4 DEF InOrder
<1> QED  BY <1>1, <1>2, <1>3, <1>4, <1>5, <1>6 DEF InOrder, Told, Fact

(* Every step keeps the calls in order.                                    *)
LEMMA WorkersStep ==
  ASSUME AskInv, [Next]_vars
  PROVE  WorkersInv'
<1> SUFFICES ASSUME NEW w \in Workers PROVE InOrder(w)'
  BY DEF WorkersInv, InOrder
<1> USE DEF AskInv, Workers
<1>a. worker \in [Workers -> Calls] /\ Boot \notin Clients
  BY NamesAssumption DEF Types
<1>b. InOrder(w)
  BY DEF WorkersInv, InOrder
<1>1. ASSUME NEW q \in Asks, AskerStep(q) PROVE worker' = worker
  BY <1>1 DEF AskerStep, RegisterWaiter, InsertPending, PublishRequest, ResolveWithdrawn,
              HearCancel, HearAnswer, HearTimeout, Hear, MarkHeard, Conclude
<1>2. CASE CancelStep \/ UNCHANGED vars
  <2>1. worker' = worker
    BY <1>2 DEF CancelStep, SignalCancel, CancelWaiters, ResolveSwept, AbortAsker, vars
  <2> QED  BY <2>1, OthersStayInOrder
<1>3. CASE Crash
  <2>1. ~Delivering(w)'
    <3>1. worker'[w] = IF worker[w].at \in {"append", "wake", "settle", "take"}
                       THEN [worker[w] EXCEPT !.at = "lost"] ELSE worker[w]
      BY <1>3 DEF Crash
    <3>2. [worker[w] EXCEPT !.at = "lost"].at = "lost"
      BY <1>a, CallMoves DEF Steps
    <3> QED  BY <3>1, <3>2 DEF Delivering
  <2> QED  BY <2>1 DEF InOrder
<1>4. ASSUME NEW v \in Workers, DeliveryStep(v) PROVE InOrder(w)'
  <2>1. CASE AppendResponded(v)
    <3>1. PICK p \in Asks : p = worker[v].ask
      BY <2>1 DEF AppendResponded, WorkersInv, Delivering
    <3>2. \/ SetWorker(v, "wake") /\ Record(p, Fact("answered", worker[v].says))
          \/ SetWorker(v, "failed")
      BY <2>1, <3>1 DEF AppendResponded
    <3>3. CASE v # w
      BY <1>a, <3>2, <3>3, SetWorkerMoves, OthersStayInOrder DEF Steps
    <3>4. CASE v = w /\ SetWorker(v, "failed")
      BY <3>4, SetWorkerMoves DEF Steps, InOrder, Delivering
    <3>5. CASE v = w /\ SetWorker(v, "wake") /\ Record(p, Fact("answered", worker[w].says))
      <4>1. /\ worker'[w].at = "wake" /\ worker'[w].ask = p
            /\ worker'[w].says = worker[w].says
        BY <3>1, <3>5, SetWorkerMoves DEF Steps
      <4>2. worker[w].says \in Answers /\ row[p] = "resolved" /\ worker[w].says = decision[p]
        BY <2>1, <3>1, <3>5, <1>b DEF AppendResponded, InOrder, Delivering
      <4>3. Fact("answered", worker[w].says) \in Told(p)'
        BY <3>5, <4>2, RecordAdds, FactsAreFacts DEF Types
      <4>4. row'[p] = "resolved" /\ decision'[p] = decision[p]
        BY <4>2, DecisionsStay
      <4> QED  BY <4>1, <4>2, <4>3, <4>4 DEF InOrder, Told, Fact
    <3> QED  BY <3>2, <3>3, <3>4, <3>5
  <2>2. CASE WakeWaiter(v)
    <3>1. SetWorker(v, "settle") /\ worker[v].at = "wake"
      BY <2>2 DEF WakeWaiter
    <3> QED  BY <3>1, SetWorkerMoves, OthersStayInOrder DEF Steps
  <2>3. CASE SettleOutbox(v)
    <3>1. SetWorker(v, "ok")
      BY <2>3 DEF SettleOutbox
    <3>2. CASE v # w
      BY <3>1, <3>2, SetWorkerMoves, OthersStayInOrder DEF Steps
    <3>3. CASE v = w
      BY <3>1, <3>3, SetWorkerMoves DEF Steps, InOrder, Delivering
    <3> QED  BY <3>2, <3>3
  <2> QED  BY <1>4, <2>1, <2>2, <2>3 DEF DeliveryStep
<1>5. ASSUME NEW c \in Clients, NEW p \in Asks, NEW d \in Answers,
             Respond(c, p, d) \/ Permit(c, p, d)
      PROVE  InOrder(w)'
  <2>1. PICK at : worker' = [worker EXCEPT ![c] = [at |-> at, ask |-> p, says |-> d]]
    BY <1>5 DEF Respond, Permit
  <2>2. CASE c # w
    BY <1>a, <2>1, <2>2, OthersStayInOrder
  <2>3. CASE c = w
    <3>1. worker'[w] = [at |-> at, ask |-> p, says |-> d]
      BY <1>a, <2>1, <2>3
    <3>2. at = "append" => row'[p] = "resolved" /\ decision'[p] = d
      BY <1>5, <3>1, <2>3 DEF Respond, Permit, Types
    <3>3. at = "take" => row'[p] = "resolved"
      BY <1>5, <3>1, <2>3 DEF Respond, Permit, Types, MarkResolved
    <3>4. worker'[w].at \in {"append", "orphaned", "ok", "conflict", "take"}
      BY <1>5, <1>a, <2>3 DEF Respond, Permit
    <3> QED  BY <3>1, <3>2, <3>3, <3>4 DEF InOrder, Delivering
  <2> QED  BY <2>2, <2>3
<1>6. ASSUME NEW c \in Clients, TakeWaiter(c) PROVE InOrder(w)'
  <2>1. \E at \in {"ok", "orphaned"} : SetWorker(c, at)
    BY <1>6 DEF TakeWaiter
  <2>2. CASE c # w
    BY <2>1, <2>2, SetWorkerMoves, OthersStayInOrder DEF Steps
  <2>3. CASE c = w
    BY <2>1, <2>3, SetWorkerMoves DEF Steps, InOrder, Delivering
  <2> QED  BY <2>2, <2>3
<1>7. CASE Restart \/ Serve
  <2>1. \E x \in {Idle, [Idle EXCEPT !.at = "replay"]} : worker' = [worker EXCEPT ![Boot] = x]
    BY <1>7 DEF Restart, Serve
  <2>2. CASE Boot # w
    BY <1>a, <2>1, <2>2, OthersStayInOrder
  <2>3. CASE Boot = w
    BY <1>a, <2>1, <2>3 DEF InOrder, Delivering, Idle
  <2> QED  BY <2>2, <2>3
<1>8. ASSUME NEW p \in Asks, ReplayNext(p) PROVE InOrder(w)'
  <2>1. /\ worker' = [worker EXCEPT ![Boot] = [at |-> "append", ask |-> p, says |-> decision[p]]]
        /\ row[p] = "resolved" /\ decision[p] \in Answers /\ row' = row /\ decision' = decision
    BY <1>8 DEF ReplayNext, RowsInv, durable
  <2>2. CASE Boot # w
    BY <1>a, <2>1, <2>2, OthersStayInOrder
  <2>3. CASE Boot = w
    BY <1>a, <2>1, <2>3 DEF InOrder, Delivering
  <2> QED  BY <2>2, <2>3
<1> QED  BY <1>1, <1>2, <1>3, <1>4, <1>5, <1>6, <1>7, <1>8, OthersStayInOrder
         DEF Next, ClientStep, BootStep

(* The call w sends its answer to the waiter of p.                         *)
Sends(w, p) ==
  /\ Delivering(w) /\ worker[w].ask = p
  /\ \/ worker[w].at = "wake" /\ answer'[p] = [says |-> worker[w].says, by |-> "delivery"]
     \/ /\ worker[w].at = "take" /\ w \in Clients
        /\ answer'[p] = [says |-> worker[w].says, by |-> "direct"]

(* Who sends what to a waiter.                                             *)
LEMMA AnswersCome ==
  ASSUME AskInv, [Next]_vars, NEW p \in Asks
  PROVE  \/ answer'[p] \in {answer[p], NoAnswer, [says |-> "deny", by |-> "cancel"]}
         \/ \E w \in Workers : Sends(w, p)
<1> USE DEF AskInv, Workers
<1>1. ASSUME NEW q \in Asks, AskerStep(q) PROVE answer' = answer
  BY <1>1 DEF AskerStep, RegisterWaiter, InsertPending, PublishRequest, ResolveWithdrawn,
              HearCancel, HearAnswer, HearTimeout, Hear, MarkHeard, Conclude, hub
<1>2. ASSUME NEW w \in Workers, AppendResponded(w) \/ SettleOutbox(w) PROVE answer' = answer
  BY <1>2 DEF AppendResponded, SettleOutbox, hub
<1>3. ASSUME NEW w \in Workers, WakeWaiter(w) PROVE answer'[p] = answer[p] \/ Sends(w, p)
  <2>1. worker[w].ask \in Asks /\ worker[w].says \in Answers /\ Delivering(w)
    BY <1>3 DEF WakeWaiter, WorkersInv, Delivering
  <2>2. CASE waiter[worker[w].ask]
    <3>1. Send(worker[w].ask, worker[w].says, "delivery")
      BY <1>3, <2>2 DEF WakeWaiter
    <3>2. answer'[p] = answer[p] \/
            (worker[w].ask = p /\ answer'[p] = [says |-> worker[w].says, by |-> "delivery"])
      BY <2>1, <3>1, SendTypes DEF Paths
    <3> QED  BY <1>3, <2>1, <3>2 DEF WakeWaiter, Sends
  <2>3. CASE ~waiter[worker[w].ask]
    BY <1>3, <2>3 DEF WakeWaiter, hub
  <2> QED  BY <2>2, <2>3
<1>4. ASSUME NEW c \in Clients, TakeWaiter(c) PROVE answer'[p] = answer[p] \/ Sends(c, p)
  <2>1. worker[c].ask \in Asks /\ worker[c].says \in Answers /\ Delivering(c)
    BY <1>4 DEF TakeWaiter, WorkersInv, Delivering
  <2>2. CASE waiter[worker[c].ask]
    <3>1. Send(worker[c].ask, worker[c].says, "direct")
      BY <1>4, <2>2 DEF TakeWaiter
    <3> QED  BY <1>4, <2>1, <3>1, SendTypes DEF TakeWaiter, Sends, Paths
  <2>3. CASE ~waiter[worker[c].ask]
    BY <1>4, <2>3 DEF TakeWaiter, hub
  <2> QED  BY <2>2, <2>3
<1>5. ASSUME NEW c \in Clients, NEW q \in Asks, NEW d \in Answers,
             Respond(c, q, d) \/ Permit(c, q, d)
      PROVE  answer' = answer
  BY <1>5 DEF Respond, Permit, hub
<1>6. CASE CancelStep
  <2>1. CASE CancelWaiters
    BY <2>1 DEF CancelWaiters
  <2> QED  BY <1>6, <2>1 DEF CancelStep, SignalCancel, ResolveSwept, AbortAsker, hub
<1>7. CASE Crash
  BY <1>7 DEF Crash
<1>8. CASE BootStep \/ UNCHANGED vars
  BY <1>8 DEF BootStep, Restart, Serve, ReplayNext, vars, hub
<1> QED  BY <1>1, <1>2, <1>3, <1>4, <1>5, <1>6, <1>7, <1>8 DEF Next, ClientStep, DeliveryStep

(* Every step keeps what was sent in line with rows and journal.           *)
LEMMA SentStep ==
  ASSUME AskInv, [Next]_vars
  PROVE  SentInv'
<1> USE DEF AskInv
<1> SUFFICES ASSUME NEW p \in Asks
             PROVE  /\ answer'[p].by \in {"delivery", "direct"} => row'[p] = "resolved"
                    /\ answer'[p].by = "cancel" => answer'[p].says = "deny"
                    /\ answer'[p].by = "delivery" =>
                         /\ Fact("answered", answer'[p].says) \in Told(p)'
                         /\ answer'[p].says = decision'[p]
  BY DEF SentInv, Fact, Told
<1>1. Told(p) \subseteq Told(p)'
  BY JournalGrows
<1>2. CASE answer'[p] \in {answer[p], NoAnswer, [says |-> "deny", by |-> "cancel"]}
  BY <1>1, <1>2, DecisionsStay DEF SentInv, NoAnswer
<1>3. ASSUME NEW w \in Workers, Sends(w, p)
      PROVE  /\ answer'[p].by \in {"delivery", "direct"} /\ row'[p] = "resolved"
             /\ answer'[p].by = "delivery" =>
                  /\ Fact("answered", answer'[p].says) \in Told(p)'
                  /\ answer'[p].says = decision'[p]
  BY <1>1, <1>3, DecisionsStay DEF Sends, WorkersInv
<1> QED  BY <1>2, <1>3, AnswersCome

(* How a future may hear: from its answer, or a denial.                    *)
LEMMA Hearings ==
  ASSUME AskInv, [Next]_vars, NEW p \in Asks
  PROVE  \/ heard'[p] = heard[p]
         \/ heard'[p] = "deny"
         \/ cancel = "none" /\ asker[p] = "waiting" /\ answer[p] # NoAnswer /\ heard'[p] = answer[p].says
<1> USE DEF AskInv, Types
<1>1. ASSUME NEW q \in Asks, HearCancel(q) \/ HearAnswer(q) \/ HearTimeout(q)
      PROVE  \/ heard'[p] = heard[p] \/ heard'[p] = "deny"
             \/ cancel = "none" /\ asker[p] = "waiting" /\ answer[p] # NoAnswer /\ heard'[p] = answer[p].says
  BY <1>1 DEF HearCancel, HearAnswer, HearTimeout, Hear
<1>2. ASSUME NEW q \in Asks, AskerStep(q), ~(HearCancel(q) \/ HearAnswer(q) \/ HearTimeout(q))
      PROVE  heard' = heard
  BY <1>2 DEF AskerStep, RegisterWaiter, InsertPending, PublishRequest, ResolveWithdrawn,
              MarkHeard, Conclude
<1>3. CASE \/ \E w \in Workers : DeliveryStep(w)
           \/ \E c \in Clients : ClientStep(c)
           \/ CancelStep \/ BootStep \/ Crash \/ UNCHANGED vars
  BY <1>3 DEF DeliveryStep, AppendResponded, WakeWaiter, SettleOutbox, ClientStep, Respond, Permit,
              TakeWaiter, CancelStep, SignalCancel, CancelWaiters, ResolveSwept, AbortAsker,
              BootStep, Restart, Serve, ReplayNext, Crash, vars, future
<1> QED  BY <1>1, <1>2, <1>3 DEF Next

(* Who resolves a row: a client, the sweep of a cancel, or the question's  *)
(* own future when it no longer listens.                                   *)
LEMMA Deciders ==
  ASSUME AskInv, [Next]_vars, NEW p \in Asks, row[p] # "resolved", row'[p] = "resolved"
  PROVE  \/ sweep # {} /\ cancel' = cancel /\ decision'[p] = "deny"
         \/ ~Listening(p)' /\ decision'[p] \in {"deny", heard[p]}
         \/ \E c \in Clients : worker'[c].ask = p /\ worker'[c].says = decision'[p]
<1> USE DEF AskInv, Types, Workers
<1>1. ASSUME NEW q \in Asks, NEW d \in Answers \cup {"none"}, MarkResolved(q, d)
      PROVE  p = q /\ decision'[p] = d
  <2>1. row' = row \/ (row' = [row EXCEPT ![q] = "resolved"] /\ decision' = [decision EXCEPT ![q] = d])
    BY <1>1 DEF MarkResolved
  <2> QED  BY <2>1
<1>2. ASSUME NEW q \in Asks, AskerStep(q)
      PROVE  ~Listening(p)' /\ decision'[p] \in {"deny", heard[p]}
  <2>1. CASE RegisterWaiter(q) \/ PublishRequest(q) \/ Conclude(q)
    BY <2>1 DEF RegisterWaiter, PublishRequest, Conclude, durable
  <2>2. CASE HearCancel(q) \/ HearAnswer(q) \/ HearTimeout(q)
    BY <2>2 DEF HearCancel, HearAnswer, HearTimeout, Hear, durable
  <2>3. CASE ResolveWithdrawn(q)
    <3>1. MarkResolved(q, "deny") /\ "deny" \in Answers /\ asker' = [asker EXCEPT ![q] = "refused"]
      BY <2>3 DEF ResolveWithdrawn, Answers, GoTo
    <3> QED  BY <1>1, <3>1 DEF Listening
  <2>4. CASE MarkHeard(q)
    <3>1. row'= row \/ (MarkResolved(q, heard[q]) /\ asker' = [asker EXCEPT ![q] = "marked"])
      BY <2>4 DEF MarkHeard, GoTo
    <3> QED  BY <1>1, <3>1 DEF Listening
  <2>5. CASE InsertPending(q)
    BY <2>5 DEF InsertPending
  <2> QED  BY <1>2, <2>1, <2>2, <2>3, <2>4, <2>5 DEF AskerStep
<1>3. ASSUME NEW c \in Clients, NEW q \in Asks, NEW d \in Answers,
             Respond(c, q, d) \/ Permit(c, q, d)
      PROVE  worker'[c].ask = p /\ worker'[c].says = decision'[p]
  <2>1. worker'[c].ask = q /\ worker'[c].says = d
    BY <1>3 DEF Respond, Permit
  <2>2. MarkResolved(q, d) \/ row' = row
    BY <1>3 DEF Respond, Permit, MarkResolved
  <2> QED  BY <1>1, <2>1, <2>2
<1>4. ASSUME NEW q \in Asks, ResolveSwept(q)
      PROVE  sweep # {} /\ cancel' = cancel /\ decision'[p] = "deny"
  BY <1>1, <1>4 DEF ResolveSwept, Answers
<1>5. CASE SignalCancel \/ CancelWaiters \/ \E q \in Asks : AbortAsker(q)
  BY <1>5 DEF SignalCancel, CancelWaiters, AbortAsker, durable
<1>6. CASE \/ \E w \in Workers : DeliveryStep(w)
           \/ \E c \in Clients : TakeWaiter(c)
           \/ BootStep \/ Crash \/ UNCHANGED vars
  BY <1>6 DEF DeliveryStep, AppendResponded, WakeWaiter, SettleOutbox, TakeWaiter,
              BootStep, Restart, Serve, ReplayNext, Crash, vars, durable
<1> QED  BY <1>2, <1>3, <1>4, <1>5, <1>6 DEF Next, ClientStep, CancelStep

(* An answer a call has is given.                                          *)
LEMMA GivenNow ==
  ASSUME NEW c \in Clients, NEW p \in Asks, worker'[c].ask = p
  PROVE  worker'[c].says \in Given(p)'
BY DEF Given

(* Every step keeps approvals with those who gave them.                    *)
LEMMA ApprovalStep ==
  ASSUME AskInv, [Next]_vars
  PROVE  ApprovalInv'
<1> USE DEF AskInv
<1> SUFFICES ASSUME NEW p \in Asks,
                    "approve" \in {decision'[p], answer'[p].says, heard'[p]}
             PROVE  "approve" \in Given(p)'
  BY DEF ApprovalInv
<1>1. Given(p) \subseteq Given(p)'
  BY GivenGrows
<1>2. "approve" \in {decision[p], answer[p].says, heard[p]} => "approve" \in Given(p)'
  BY <1>1 DEF ApprovalInv
<1>3. CASE heard'[p] = "approve"
  BY <1>2, <1>3, Hearings
<1>4. CASE decision'[p] = "approve"
  <2>1. CASE decision'[p] = decision[p]
    BY <1>2, <1>4, <2>1
  <2>2. CASE decision'[p] # decision[p]
    <3>1. row[p] # "resolved" /\ row'[p] = "resolved"
      BY <2>2, RowSteps DEF RowStep
    <3> QED  BY <1>2, <1>4, <3>1, Deciders, GivenNow
  <2> QED  BY <2>1, <2>2
<1>5. CASE answer'[p].says = "approve"
  <2>1. CASE answer'[p] \in {answer[p], NoAnswer, [says |-> "deny", by |-> "cancel"]}
    BY <1>2, <1>5, <2>1 DEF NoAnswer
  <2>2. ASSUME NEW w \in Workers, Sends(w, p) PROVE "approve" \in Given(p)'
    <3>1. worker[w].ask = p /\ worker[w].says = "approve"
      BY <1>5, <2>2 DEF Sends
    <3>2. CASE w \in Clients
      <4>1. "approve" \in Given(p)
        BY <3>1, <3>2 DEF Given
      <4> QED  BY <1>1, <4>1
    <3>3. CASE w \notin Clients
      BY <1>2, <2>2, <3>1, <3>3 DEF Sends, WorkersInv
    <3> QED  BY <3>2, <3>3
  <2> QED  BY <2>1, <2>2, AnswersCome
<1> QED  BY <1>3, <1>4, <1>5

(* How the cancel of the run moves.                                        *)
LEMMA CancelMoves ==
  ASSUME AskInv, [Next]_vars
  PROVE  /\ sweep' # {} => cancel' = "woken"
         /\ \A p \in Asks : Listening(p)' /\ cancel' = "none" =>
              cancel = "none" /\ (Listening(p) \/ asker'[p] = "registered")
<1> USE DEF AskInv, Types
<1>1. ASSUME NEW q \in Asks, AskerStep(q)
      PROVE  /\ UNCHANGED cancelling
             /\ \A p \in Asks : Listening(p)' => Listening(p) \/ asker'[p] = "registered"
  <2>1. UNCHANGED cancelling
    BY <1>1 DEF AskerStep, RegisterWaiter, InsertPending, PublishRequest, ResolveWithdrawn,
                HearCancel, HearAnswer, HearTimeout, Hear, MarkHeard, Conclude
  <2>2. \/ \E at : asker' = [asker EXCEPT ![q] = at] /\ (at \in {"inserted", "waiting"} => Listening(q))
        \/ asker' = asker
    BY <1>1 DEF AskerStep, RegisterWaiter, InsertPending, PublishRequest, ResolveWithdrawn,
                HearCancel, HearAnswer, HearTimeout, Hear, MarkHeard, Conclude, GoTo, Listening
  <2> QED  BY <2>1, <2>2 DEF Listening
<1>2. CASE Crash
  BY <1>2 DEF Crash, Listening, Live
<1>3. CASE CancelStep
  BY <1>3 DEF CancelStep, SignalCancel, CancelWaiters, ResolveSwept, AbortAsker, GoTo, DeciderInv,
              Listening, future, cancelling
<1>4. CASE \/ \E w \in Workers : DeliveryStep(w)
           \/ \E c \in Clients : ClientStep(c)
           \/ BootStep \/ UNCHANGED vars
  <2>1. UNCHANGED <<cancelling, future>>
    BY <1>4 DEF DeliveryStep, AppendResponded, WakeWaiter, SettleOutbox, ClientStep, Respond,
                Permit, TakeWaiter, BootStep, Restart, Serve, ReplayNext, vars
  <2> QED  BY <2>1 DEF future, cancelling, Listening, DeciderInv
<1> QED  BY <1>1, <1>2, <1>3, <1>4 DEF Next, DeciderInv, cancelling

(* Every step keeps decisions with those who took them.                    *)
LEMMA DeciderStep ==
  ASSUME AskInv, [Next]_vars
  PROVE  DeciderInv'
<1> USE DEF AskInv
<1> SUFFICES ASSUME NEW p \in Asks
             PROVE  /\ Listening(p)' /\ cancel' = "none" /\ row'[p] = "resolved" =>
                         decision'[p] \in Given(p)'
                    /\ heard'[p] = "approve" => row'[p] = "resolved" /\ decision'[p] \in Given(p)'
  BY CancelMoves DEF DeciderInv
<1>1. Given(p) \subseteq Given(p)'
  BY GivenGrows
<1>2. ASSUME Listening(p)', cancel' = "none", row'[p] = "resolved"
      PROVE  decision'[p] \in Given(p)'
  <2>1. cancel = "none" /\ sweep = {} /\ (Listening(p) \/ asker'[p] = "registered")
    BY <1>2, CancelMoves DEF DeciderInv
  <2>2. Listening(p)
    BY <1>2, <2>1, AskersMove DEF RowsInv
  <2>3. CASE row[p] = "resolved"
    BY <1>1, <2>1, <2>2, <2>3, DecisionsStay DEF DeciderInv
  <2>4. CASE row[p] # "resolved"
    BY <1>2, <2>1, <2>4, Deciders, GivenNow
  <2> QED  BY <2>3, <2>4
<1>3. ASSUME heard'[p] = "approve"
      PROVE  row'[p] = "resolved" /\ decision'[p] \in Given(p)'
  <2>1. row[p] = "resolved" /\ decision[p] \in Given(p)
    <3>1. CASE heard[p] = "approve"
      BY <3>1 DEF DeciderInv
    <3>2. CASE cancel = "none" /\ asker[p] = "waiting" /\ answer[p] # NoAnswer /\ answer[p].says = "approve"
      <4>1. answer[p].by \in {"delivery", "direct"}
        BY <3>2 DEF Types, Paths, SentInv
      <4> QED  BY <3>2, <4>1 DEF SentInv, DeciderInv, Listening
    <3> QED  BY <1>3, <3>1, <3>2, Hearings
  <2> QED  BY <1>1, <2>1, DecisionsStay
<1> QED  BY <1>2, <1>3

(* Where the future of a question goes.                                    *)
LEMMA FuturesMove ==
  ASSUME AskInv, [Next]_vars, NEW p \in Asks
  PROVE  \/ asker'[p] \in {asker[p], "idle", "registered", "inserted", "withdrawn", "refused",
                           "aborted", "lost", "denied"} /\ heard'[p] = heard[p]
         \/ asker'[p] = "waiting" /\ Record(p, Fact("requested", "none"))
         \/ asker[p] = "waiting" /\ asker'[p] = "heard" /\ heard'[p] \in Answers
         \/ asker[p] = "heard" /\ asker'[p] = "marked" /\ heard'[p] = heard[p]
         \/ /\ asker[p] = "marked" /\ heard[p] = "approve" /\ heard' = heard
            /\ Record(p, Fact("concluded", "approve"))
<1> USE DEF AskInv, Types, GoTo
<1>1. ASSUME NEW q \in Asks, q # p, AskerStep(q) PROVE asker'[p] = asker[p] /\ heard'[p] = heard[p]
  BY <1>1 DEF AskerStep, RegisterWaiter, InsertPending, PublishRequest, ResolveWithdrawn,
              HearCancel, HearAnswer, HearTimeout, Hear, MarkHeard, Conclude
<1>2. CASE RegisterWaiter(p) \/ InsertPending(p) \/ ResolveWithdrawn(p)
  BY <1>2 DEF RegisterWaiter, InsertPending, ResolveWithdrawn, hub
<1>3. CASE PublishRequest(p)
  BY <1>3 DEF PublishRequest
<1>4. CASE HearCancel(p) \/ HearTimeout(p)
  BY <1>4 DEF HearCancel, HearTimeout, Hear, Answers
<1>5. CASE HearAnswer(p)
  <2>1. answer[p].says \in Answers
    BY <1>5 DEF HearAnswer
  <2> QED  BY <1>5, <2>1 DEF HearAnswer, Hear
<1>6. CASE MarkHeard(p)
  BY <1>6 DEF MarkHeard
<1>7. CASE Conclude(p)
  <2>1. heard[p] \in Answers /\ heard' = heard /\ asker[p] = "marked"
    BY <1>7 DEF Conclude, FutureInv
  <2>2. CASE heard[p] = "approve"
    BY <1>7, <2>1, <2>2 DEF Conclude
  <2>3. CASE heard[p] # "approve"
    BY <1>7, <2>1, <2>3 DEF Conclude
  <2> QED  BY <2>2, <2>3
<1>8. CASE Crash
  BY <1>8 DEF Crash
<1>9. CASE CancelStep
  BY <1>9 DEF CancelStep, SignalCancel, CancelWaiters, ResolveSwept, AbortAsker, future
<1>10. CASE \/ \E w \in Workers : DeliveryStep(w)
            \/ \E c \in Clients : ClientStep(c)
            \/ BootStep \/ UNCHANGED vars
  BY <1>10 DEF DeliveryStep, AppendResponded, WakeWaiter, SettleOutbox, ClientStep, Respond,
               Permit, TakeWaiter, BootStep, Restart, Serve, ReplayNext, vars, future
<1> QED  BY <1>1, <1>2, <1>3, <1>4, <1>5, <1>6, <1>7, <1>8, <1>9, <1>10 DEF Next, AskerStep

(* Every step keeps the journal behind the futures.                        *)
LEMMA FutureStep ==
  ASSUME AskInv, [Next]_vars
  PROVE  FutureInv'
<1> USE DEF AskInv
<1> SUFFICES ASSUME NEW p \in Asks
             PROVE  /\ asker'[p] \in {"waiting", "heard", "marked", "allowed"} =>
                         Fact("requested", "none") \in Told(p)'
                    /\ asker'[p] \in {"heard", "marked"} => heard'[p] \in Answers
                    /\ asker'[p] = "allowed" =>
                         /\ heard'[p] = "approve"
                         /\ Fact("concluded", "approve") \in Told(p)'
  BY DEF FutureInv, Fact, Told
<1>1. Told(p) \subseteq Told(p)'
  BY JournalGrows
<1>2. \A f \in Facts : Record(p, f) => f \in Told(p)'
  BY RecordAdds DEF Types
<1>3. /\ Record(p, Fact("requested", "none")) => Fact("requested", "none") \in Told(p)'
      /\ Record(p, Fact("concluded", "approve")) => Fact("concluded", "approve") \in Told(p)'
  BY <1>2, FactsAreFacts DEF Answers
<1> QED  BY <1>1, <1>3, FuturesMove DEF FutureInv, Answers

-------------------------------------------------------------------------------
(* Theorems. *)

(* The invariant, for any constants.                                       *)
THEOREM AskInvariant == Spec => []AskInv
<1>1. AskInv /\ [Next]_vars => AskInv'
  BY TypesStep, RowsStep, WorkersStep, SentStep, ApprovalStep, DeciderStep, FutureStep DEF AskInv
<1> QED  BY <1>1, AskInvInit, PTL DEF Spec

(* interaction_store.rs:200-201, deliver_outbox: whatever calls, replays,  *)
(* cancels and crashes interleave, a delivery wakes a future only with the *)
(* decision of its row, and after the journal has it.                      *)
THEOREM WokenAlwaysAfterEvent == Spec => []WokenAfterEvent
<1>1. AskInv => WokenAfterEvent
  BY SaidIsTold DEF AskInv, SentInv, WokenAfterEvent
<1> QED  BY <1>1, AskInvariant, PTL

(* production_tools.rs, await_tool_permission: a tool goes on only when a  *)
(* client approved it, and on record.                                      *)
THEOREM AllowedAlwaysAsAgreed == Spec => []AllowedAsAgreed
<1>1. AskInv => AllowedAsAgreed
  <2> SUFFICES ASSUME AskInv, NEW p \in Asks, asker[p] = "allowed"
               PROVE  /\ "approve" \in Given(p)
                      /\ Given(p) = {"approve"} => decision[p] = "approve"
                      /\ {"requested", "concluded"} \subseteq {f.kind : f \in ToSet(journal[p])}
    BY DEF AllowedAsAgreed
  <2>1. /\ heard[p] = "approve" /\ Fact("requested", "none") \in Told(p)
        /\ Fact("concluded", "approve") \in Told(p)
    BY DEF AskInv, FutureInv
  <2>2. "approve" \in Given(p) /\ decision[p] \in Given(p)
    BY <2>1 DEF AskInv, ApprovalInv, DeciderInv
  <2> QED  BY <2>1, <2>2 DEF Told, Fact
<1> QED  BY <1>1, AskInvariant, PTL

(* What DecisionLog sees of a question.                                    *)
Verdict(p) ==
  IF row[p] = "expired" THEN "expired"
  ELSE IF row[p] = "resolved" THEN decision[p] ELSE "open"

Verdicts   == [p \in Asks |-> Verdict(p)]
Announced  == [p \in Asks |-> Said(p, "answered")]

(* The answers announced follow the journal.                               *)
LEMMA AnnouncedFollows ==
  ASSUME AskInv, NEW p \in Asks, NEW f \in Facts, Record(p, f)
  PROVE  Announced' =
           IF f.kind = "answered" THEN [Announced EXCEPT ![p] = @ \cup {f.says}] ELSE Announced
<1> USE DEF AskInv
<1>1. Told(p)' = Told(p) \cup {f} /\ \A q \in Asks \ {p} : Told(q)' = Told(q)
  BY RecordAdds DEF Types
<1>2. \A q \in Asks \ {p} : Said(q, "answered")' = Said(q, "answered")
  BY <1>1 DEF Said, Told
<1>3. Said(p, "answered")' =
        IF f.kind = "answered" THEN Said(p, "answered") \cup {f.says} ELSE Said(p, "answered")
  BY <1>1 DEF Said, Told
<1> QED  BY <1>2, <1>3 DEF Announced

(* An answer decides the question, or finds it decided.                    *)
LEMMA AnswerDecides ==
  ASSUME AskInv, NEW p \in Asks, NEW d \in Answers, MarkResolved(p, d)
  PROVE  Verdicts' = Verdicts \/ (Verdict(p) = "open" /\ Verdicts' = [Verdicts EXCEPT ![p] = d])
<1> USE DEF AskInv, Types
<1>1. CASE row[p] = "pending"
  <2>1. /\ row' = [row EXCEPT ![p] = "resolved"] /\ decision' = [decision EXCEPT ![p] = d]
    BY <1>1 DEF MarkResolved
  <2>2. Verdict(p)' = d /\ \A q \in Asks \ {p} : Verdict(q)' = Verdict(q)
    BY <2>1 DEF Verdict
  <2>3. Verdict(p) = "open"
    BY <1>1 DEF Verdict
  <2> QED  BY <2>2, <2>3 DEF Verdicts
<1>2. CASE row[p] # "pending"
  BY <1>2 DEF MarkResolved, Verdicts, Verdict
<1> QED  BY <1>1, <1>2

(* Every step of the store is one of DecisionLog, or changes nothing in it.*)
LEMMA StepRefines ==
  ASSUME AskInv, [Next]_vars
  PROVE  [Promise!Next]_<<Verdicts, Announced>>
<1> USE DEF AskInv, Types
<1>1. Verdicts = [p \in Asks |-> IF row[p] = "expired" THEN "expired"
                                 ELSE IF row[p] = "resolved" THEN decision[p] ELSE "open"]
  BY DEF Verdicts, Verdict
<1>2. Announced = [p \in Asks |-> Said(p, "answered")]
  BY DEF Announced
<1>3. CASE Answered
  <2>1. Announced' = Announced
    BY <1>3 DEF Answered, Announced, Said
  <2>2. PICK p \in Asks, d \in Answers : MarkResolved(p, d)
    BY <1>3 DEF Answered
  <2>3. CASE Verdicts' = Verdicts
    BY <2>1, <2>3
  <2>4. CASE Verdict(p) = "open" /\ Verdicts' = [Verdicts EXCEPT ![p] = d]
    <3>1. Verdicts[p] = "open"
      BY <2>4 DEF Verdicts
    <3>2. Promise!Decide(p, d)
      BY <2>1, <2>4, <3>1 DEF Promise!Decide, Verdicts, Announced, Verdict
    <3> QED  BY <3>2 DEF Promise!Next
  <2> QED  BY <2>2, <2>3, <2>4, AnswerDecides
<1>4. CASE Inserted
  <2>1. Verdicts' = Verdicts /\ Announced' = Announced
    BY <1>4 DEF Inserted, Verdicts, Verdict, Announced, Said
  <2> QED  BY <2>1
<1>5. CASE Expired
  <2>a. PICK qs \in SUBSET Asks : qs = {p \in Asks : row[p] = "pending"}
    OBVIOUS
  <2>1. Announced' = Announced
    BY <1>5 DEF Expired, Announced, Said
  <2>2. \A p \in qs : Verdicts[p] = "open"
    BY <2>a DEF Verdicts, Verdict
  <2>3. \A p \in Asks : Verdict(p)' = IF p \in qs THEN "expired" ELSE Verdicts[p]
    BY <1>5, <2>a DEF Expired, Verdicts, Verdict
  <2>4. Verdicts' = [p \in Asks |-> IF p \in qs THEN "expired" ELSE Verdicts[p]]
    BY <2>3 DEF Verdicts
  <2>5. Promise!Expire(qs)
    BY <2>1, <2>2, <2>4 DEF Promise!Expire, Verdicts, Announced, Verdict
  <2> QED  BY <2>5 DEF Promise!Next
<1>6. CASE Journalled
  <2>1. Verdicts' = Verdicts
    BY <1>6 DEF Journalled, Verdicts, Verdict
  <2>2. PICK p \in Asks, f \in Facts :
          /\ Record(p, f)
          /\ f.kind = "answered" => row[p] = "resolved" /\ f.says = decision[p]
    BY <1>6 DEF Journalled
  <2>3. CASE f.kind # "answered"
    BY <2>1, <2>2, <2>3, AnnouncedFollows
  <2>4. CASE f.kind = "answered"
    <3>1. Verdicts[p] = f.says /\ f.says \in Answers
      BY <2>2, <2>4 DEF Verdicts, Verdict, RowsInv
    <3>2. Announced' = [Announced EXCEPT ![p] = @ \cup {Verdicts[p]}]
      BY <2>2, <2>4, <3>1, AnnouncedFollows
    <3>3. Promise!Announce(p)
      BY <2>1, <3>1, <3>2 DEF Promise!Announce, Verdicts, Announced, Verdict
    <3> QED  BY <3>3 DEF Promise!Next
  <2> QED  BY <2>3, <2>4
<1>7. CASE StoreIdle
  BY <1>7 DEF StoreIdle, Verdicts, Verdict, Announced, Said
<1> QED  BY <1>3, <1>4, <1>5, <1>6, <1>7, StoreSteps

(* interaction_store.rs: the store keeps the promise of DecisionLog: what  *)
(* closes a question first is final, over every path that may answer it,   *)
(* and the journal announces nothing else.                                 *)
THEOREM DecisionsAreFinal == Spec => ImplementsDecisionLog
<1>1. Init => Promise!Init
  <2> SUFFICES ASSUME Init PROVE Promise!Init
    OBVIOUS
  <2>1. \A p \in Asks : row[p] = "none" /\ Said(p, "answered") = {}
    BY DEF Init, Said, ToSet
  <2> QED  BY <2>1 DEF Promise!Init
<1>2. AskInv /\ [Next]_vars =>
        [Promise!Next]_<<[p \in Asks |-> IF row[p] = "expired" THEN "expired"
                                         ELSE IF row[p] = "resolved" THEN decision[p] ELSE "open"],
                         [p \in Asks |-> Said(p, "answered")]>>
  BY StepRefines DEF Verdicts, Verdict, Announced
<1> QED  BY <1>1, <1>2, AskInvariant, PTL DEF Spec, ImplementsDecisionLog, Promise!Spec

===============================================================================
