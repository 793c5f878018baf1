------------------------- MODULE PromptQueueProofs -------------------------
(*****************************************************************************)
(* The durable side of the prompt queue, for every number of prompts, runs,   *)
(* sendNow requests and crashes: no accepted prompt is lost, none is          *)
(* delivered twice, no two runs hold one input, and a restart puts every      *)
(* waiting prompt, and no other, back into the queue.                         *)
(*                                                                            *)
(* The proof looks at the rows, the statuses of the runs and the batches      *)
(* only; the in-memory coordinator may do as it likes, until a restart makes  *)
(* it again from the rows. That is what the rows are for, and why the         *)
(* coordinator's races (see the README) can start a prompt twice or at the    *)
(* wrong time but never lose one.                                             *)
(*****************************************************************************)
EXTENDS PromptQueue, FiniteSetTheorems, TLAPS

\* The labels of a process whose start was accepted.
Settling == {"mark", "sent", "delete"}

DurableTypes ==
  /\ row \in [Items -> Statuses]
  /\ lease = [i \in Items |-> lease[i]]
  /\ next \in 0..N
  /\ status \in [Runs -> {"none", "live", "cancelling", "terminal"}]
  /\ batch \in [Runs -> SUBSET Items]
  /\ delivered \subseteq Items
  /\ pc = [p \in Procs |-> pc[p]]
  /\ item = [p \in Procs |-> item[p]]

\* An item that was not enqueued yet has no row and is in nobody's hands.
Unissued ==
  \A i \in Items : i > next =>
    row[i] = "absent" /\ i \notin delivered /\ \A r \in Runs : i \notin batch[r]

\* A process settles the row of an item only after RunManager accepted its run.
Accepted ==
  \A p \in Procs : pc[p] \in Settling /\ item[p] \in Items => status[item[p]] # "none"

\* The inductive invariant.
DurableInv ==
  DurableTypes /\ Unissued /\ Accepted /\ NothingLost /\ AckedForGood /\ LeaseExclusive

\* It holds before anything is enqueued.
LEMMA DurableInit == Init => DurableInv
<1> SUFFICES ASSUME Init PROVE DurableInv
  OBVIOUS
<1>1. N \in Nat
  BY NNat
<1>2. DurableTypes
  BY <1>1 DEF Init, DurableTypes, Statuses
<1>3. Unissued /\ NothingLost /\ AckedForGood /\ LeaseExclusive
  BY <1>1 DEF Init, Unissued, NothingLost, AckedForGood, LeaseExclusive, Items
<1>4. Accepted
  BY DEF Init, Accepted, Settling
<1> QED BY <1>2, <1>3, <1>4 DEF DurableInv

\* A step that leaves the rows and the runs alone, lets nobody settle who did
\* not before, and at most shrinks a batch.
Quiet ==
  /\ UNCHANGED <<row, lease, next, status, delivered, removed>>
  /\ batch' \in [Runs -> SUBSET Items]
  /\ \A r \in Runs : batch'[r] \subseteq batch[r]
  /\ pc' = [p \in Procs |-> pc'[p]] /\ item' = [p \in Procs |-> item'[p]]
  /\ \A p \in Procs : pc'[p] \in Settling => pc[p] \in Settling /\ item'[p] = item[p]

\* A quiet step keeps the invariant.
LEMMA QuietKeeps == DurableInv /\ Quiet => DurableInv'
<1> SUFFICES ASSUME DurableInv, Quiet PROVE DurableInv'
  OBVIOUS
<1>1. DurableTypes'
  BY DEF DurableInv, DurableTypes, Quiet
<1>2. Unissued'
  BY DEF DurableInv, Unissued, Quiet
<1>3. Accepted'
  BY DEF DurableInv, Accepted, Quiet
<1>4. NothingLost' /\ AckedForGood'
  BY DEF DurableInv, NothingLost, AckedForGood, Quiet
<1>5. LeaseExclusive'
  BY DEF DurableInv, LeaseExclusive, Quiet
<1> QED BY <1>1, <1>2, <1>3, <1>4, <1>5 DEF DurableInv

\* The requests that only touch the coordinator, and the parts of sendNow and
\* of an engine that hold no row, are quiet.
LEMMA QuietRequests ==
  ASSUME DurableInv,
         ListRows \/ ListReload \/ ListRestore
           \/ \E i \in Items : EnqueueActor(i) \/ RemoveActor(i)
  PROVE  Quiet
BY DEF DurableInv, DurableTypes, ListRows, ListReload, ListRestore, EnqueueActor,
       RemoveActor, Quiet

LEMMA QuietSend ==
  ASSUME DurableInv, NEW s \in Senders,
         (\E i \in Items : SendLookup(s, i)) \/ SendEnsure(s) \/ SendClaim(s) \/ SendFinish(s)
  PROVE  Quiet
<1>1. CASE \E i \in Items : SendLookup(s, i)
  BY <1>1 DEF DurableInv, DurableTypes, SendLookup, Quiet, Settling, Procs
<1>2. CASE SendEnsure(s)
  BY <1>2 DEF DurableInv, DurableTypes, SendEnsure, Quiet, Settling, Procs
<1>3. CASE SendClaim(s)
  BY <1>3 DEF DurableInv, DurableTypes, SendClaim, Quiet, Settling, Procs
<1>4. CASE SendFinish(s)
  BY <1>4 DEF DurableInv, DurableTypes, SendFinish, Quiet, Settling, Procs
<1> QED BY <1>1, <1>2, <1>3, <1>4

LEMMA QuietEngine ==
  ASSUME DurableInv, NEW r \in Runs,
         MarkRunning(r) \/ SafePoint(r) \/ StartRunFails(r) \/ OnRunTerminal(r)
           \/ \E i \in Items : AckLost(r, i) \/ Forget(r, i)
  PROVE  Quiet
<1>1. CASE MarkRunning(r)
  BY <1>1 DEF DurableInv, DurableTypes, MarkRunning, Quiet, Settling, Procs
<1>2. CASE SafePoint(r)
  BY <1>2 DEF DurableInv, DurableTypes, SafePoint, Quiet
<1>3. CASE StartRunFails(r)
  BY <1>3 DEF DurableInv, DurableTypes, StartRunFails, Quiet, Settling, Procs
<1>4. CASE OnRunTerminal(r)
  BY <1>4 DEF DurableInv, DurableTypes, OnRunTerminal, Quiet, Settling, Procs
<1>5. ASSUME NEW i \in Items, AckLost(r, i) PROVE Quiet
  BY <1>5 DEF DurableInv, DurableTypes, AckLost, Quiet, Settling, Procs
<1>6. ASSUME NEW i \in Items, Forget(r, i) PROVE Quiet
  BY <1>6 DEF DurableInv, DurableTypes, Forget, Quiet, Settling, Procs
<1> QED BY <1>1, <1>2, <1>3, <1>4, <1>5, <1>6

LEMMA QuietMark ==
  ASSUME DurableInv, NEW p \in Procs, MarkItem(p)
  PROVE  Quiet
BY DEF DurableInv, DurableTypes, MarkItem, Quiet, Settling

----------------------------------------------------------------------------
(* The steps that move a row, an input or a run.                            *)

\* Enqueue gives the next item its row.
LEMMA EnqueueKeeps == DurableInv /\ EnqueueRow => DurableInv'
<1> SUFFICES ASSUME DurableInv, EnqueueRow PROVE DurableInv'
  OBVIOUS
<1>1. next + 1 \in Items /\ next \in Nat /\ N \in Nat
  BY NNat DEF DurableInv, DurableTypes, EnqueueRow, Items
<1>2. DurableTypes'
  BY <1>1 DEF DurableInv, DurableTypes, EnqueueRow, Statuses
<1>3. Unissued' /\ Accepted'
  BY <1>1 DEF DurableInv, DurableTypes, Unissued, Accepted, EnqueueRow, Items
<1>4. NothingLost'
  BY <1>1 DEF DurableInv, DurableTypes, NothingLost, EnqueueRow, Items
<1>5. row[next + 1] = "absent" /\ next + 1 \notin delivered
      /\ \A r \in Runs : next + 1 \notin batch[r]
  BY <1>1 DEF DurableInv, Unissued
<1>6. /\ batch \in [Runs -> SUBSET Items] /\ delivered \subseteq Items
      /\ \A i \in Items : i # next + 1 => row'[i] = row[i]
      /\ row'[next + 1] = "queued"
  BY <1>1 DEF DurableInv, DurableTypes, EnqueueRow
<1>7. UNCHANGED <<lease, batch, delivered>>
  BY DEF EnqueueRow
<1>8. AckedForGood'
  BY <1>5, <1>6, <1>7 DEF DurableInv, AckedForGood
<1>9. LeaseExclusive'
  BY <1>5, <1>6, <1>7 DEF DurableInv, LeaseExclusive
<1> QED BY <1>2, <1>3, <1>4, <1>8, <1>9 DEF DurableInv

\* Remove deletes a row, whatever its status.
LEMMA RemoveKeeps ==
  ASSUME DurableInv, NEW i \in Items, RemoveRow(i)
  PROVE  DurableInv'
<1>1. DurableTypes'
  BY DEF DurableInv, DurableTypes, RemoveRow, Statuses
<1>2. Unissued' /\ Accepted'
  BY DEF DurableInv, DurableTypes, Unissued, Accepted, RemoveRow
<1>3. NothingLost'
  BY NNat DEF DurableInv, DurableTypes, NothingLost, RemoveRow, Items
<1>4. AckedForGood' /\ LeaseExclusive'
  BY DEF DurableInv, DurableTypes, AckedForGood, LeaseExclusive, RemoveRow
<1> QED BY <1>1, <1>2, <1>3, <1>4 DEF DurableInv

\* A step after which every run that was accepted still is, and nothing else
\* about rows and batches has changed.
LEMMA RunsKeep ==
  ASSUME DurableInv, UNCHANGED <<row, lease, next, batch, delivered, removed>>,
         status' \in [Runs -> {"none", "live", "cancelling", "terminal"}],
         \A r \in Runs : status[r] # "none" => status'[r] # "none",
         pc' = [p \in Procs |-> pc'[p]], item' = [p \in Procs |-> item'[p]],
         \A p \in Procs : pc'[p] \in Settling /\ item'[p] \in Items =>
           \/ pc[p] \in Settling /\ item'[p] = item[p]
           \/ status'[item'[p]] # "none"
  PROVE  DurableInv'
<1>1. DurableTypes' /\ Unissued'
  BY DEF DurableInv, DurableTypes, Unissued
<1>2. Accepted'
  BY DEF DurableInv, Accepted, Runs
<1>3. NothingLost'
  BY NNat DEF DurableInv, DurableTypes, NothingLost, Items, Runs
<1>4. AckedForGood' /\ LeaseExclusive'
  BY DEF DurableInv, AckedForGood, LeaseExclusive
<1> QED BY <1>1, <1>2, <1>3, <1>4 DEF DurableInv

\* A cancel never makes a run one that was not accepted.
LEMMA CancelKeeps ==
  ASSUME DurableInv, NEW s \in Senders, SendCancel(s)
  PROVE  DurableInv'
<1>1. UNCHANGED <<row, lease, next, batch, delivered, removed>>
  BY DEF SendCancel
<1>2. PICK hit \in SUBSET {r \in Runs : status[r] \in {"live", "cancelling"}} :
      \E ended \in SUBSET hit :
        status' = [r \in Runs |-> IF r \in ended THEN "terminal"
                                ELSE IF r \in hit THEN "cancelling" ELSE status[r]]
  BY DEF SendCancel
<1>3. /\ status' \in [Runs -> {"none", "live", "cancelling", "terminal"}]
      /\ \A r \in Runs : status[r] # "none" => status'[r] # "none"
  BY <1>2 DEF DurableInv, DurableTypes
<1>4. /\ pc' = [p \in Procs |-> pc'[p]] /\ item' = [p \in Procs |-> item'[p]]
      /\ \A p \in Procs : pc'[p] \in Settling => pc[p] \in Settling /\ item'[p] = item[p]
  BY DEF DurableInv, DurableTypes, SendCancel, Settling, Procs
<1> QED BY <1>1, <1>3, <1>4, RunsKeep

\* The start of an item: it settles only if RunManager has its run.
LEMMA LaunchKeeps ==
  ASSUME DurableInv, NEW p \in Procs, Launch(p)
  PROVE  DurableInv'
<1> DEFINE i == item[p]
<1>1. UNCHANGED <<row, lease, next, batch, delivered, removed>>
  BY DEF Launch
<1>2. CASE status[i] = "none" /\ status' = [status EXCEPT ![i] = "live"]
           /\ pc' = [pc EXCEPT ![p] = "mark", ![i] = "launched"] /\ item' = item
  <2>1. /\ status' \in [Runs -> {"none", "live", "cancelling", "terminal"}]
        /\ \A r \in Runs : status[r] # "none" => status'[r] # "none"
        /\ i \in Items => status'[i] # "none"
    BY <1>2 DEF DurableInv, DurableTypes, Runs
  <2>2. pc' = [q \in Procs |-> pc'[q]] /\ item' = [q \in Procs |-> item'[q]]
    BY <1>2 DEF DurableInv, DurableTypes
  <2>3. ASSUME NEW q \in Procs, pc'[q] \in Settling, item'[q] \in Items
        PROVE  (pc[q] \in Settling /\ item'[q] = item[q]) \/ status'[item'[q]] # "none"
    <3>1. CASE q = p
      BY <3>1, <2>1, <2>3, <1>2
    <3>2. CASE q # p
      BY <3>2, <2>3, <1>2 DEF DurableInv, DurableTypes, Settling
    <3> QED BY <3>1, <3>2
  <2> QED BY <1>1, <2>1, <2>2, <2>3, RunsKeep
<1>3. CASE status[i] \in {"live", "cancelling"} /\ pc' = [pc EXCEPT ![p] = "mark"]
           /\ UNCHANGED <<item, status>>
  <2>1. status' \in [Runs -> {"none", "live", "cancelling", "terminal"}]
    BY <1>3 DEF DurableInv, DurableTypes
  <2>2. pc' = [q \in Procs |-> pc'[q]] /\ item' = [q \in Procs |-> item'[q]]
    BY <1>3 DEF DurableInv, DurableTypes
  <2>3. \A q \in Procs : pc'[q] \in Settling =>
          (pc[q] \in Settling /\ item'[q] = item[q]) \/ status'[item'[q]] # "none"
    BY <1>3 DEF DurableInv, DurableTypes
  <2> QED BY <1>1, <1>3, <2>1, <2>2, <2>3, RunsKeep
<1>4. CASE Return(p) /\ status' = status
  <2>1. status' \in [Runs -> {"none", "live", "cancelling", "terminal"}]
    BY <1>4 DEF DurableInv, DurableTypes
  <2>2. pc' = [q \in Procs |-> pc'[q]] /\ item' = [q \in Procs |-> item'[q]]
    BY <1>4 DEF DurableInv, DurableTypes, Return
  <2>3. \A q \in Procs : pc'[q] \in Settling => pc[q] \in Settling /\ item'[q] = item[q]
    BY <1>4 DEF DurableInv, DurableTypes, Return, Settling
  <2> QED BY <1>1, <1>4, <2>1, <2>2, <2>3, RunsKeep
<1> QED BY <1>2, <1>3, <1>4 DEF Launch

\* The row of an item whose run was accepted may go.
LEMMA SettleKeeps ==
  ASSUME DurableInv, NEW p \in Procs, MarkSent(p) \/ DeleteSent(p)
  PROVE  DurableInv'
<1> DEFINE i == item[p]
<1>1. /\ UNCHANGED <<next, status, batch, delivered, removed>>
      /\ row' = row \/ row' = [row EXCEPT ![i] = "sent"] \/ row' = [row EXCEPT ![i] = "absent"]
      /\ lease' = lease \/ (lease' = [lease EXCEPT ![i] = None]
                            /\ row' = [row EXCEPT ![i] = "absent"])
  BY DEF MarkSent, DeleteSent
<1>2. i \in Items => status[i] # "none"
  BY DEF DurableInv, Accepted, MarkSent, DeleteSent, Settling
<1>3. /\ pc' = [q \in Procs |-> pc'[q]] /\ item' = [q \in Procs |-> item'[q]]
      /\ \A q \in Procs : pc'[q] \in Settling => pc[q] \in Settling /\ item'[q] = item[q]
  BY DEF DurableInv, DurableTypes, MarkSent, DeleteSent, Return, Settling
<1>4. DurableTypes'
  BY <1>1, <1>3 DEF DurableInv, DurableTypes, Statuses
<1>5. i \in Items => i <= next \/ row[i] = "absent"
  BY DEF DurableInv, DurableTypes, Unissued, Items
<1>6. Unissued'
  <2>1. row[i] = "absent" => row' = row \/ row' = [row EXCEPT ![i] = "absent"]
    BY <1>1 DEF MarkSent, DeleteSent
  <2> QED BY <1>1, <1>5, <2>1, NNat DEF DurableInv, DurableTypes, Unissued, Items
<1>7. Accepted'
  BY <1>1, <1>3 DEF DurableInv, Accepted
<1>8. NothingLost'
  BY <1>1, <1>2, NNat DEF DurableInv, DurableTypes, NothingLost, Items
<1>9. AckedForGood'
  BY <1>1 DEF DurableInv, DurableTypes, AckedForGood
<1>10. LeaseExclusive'
  BY <1>1 DEF DurableInv, DurableTypes, LeaseExclusive
<1> QED BY <1>4, <1>6, <1>7, <1>8, <1>9, <1>10 DEF DurableInv

\* A run the user starts, and the end of a run.
LEMMA RootCloseKeeps ==
  ASSUME DurableInv, NEW r \in Runs, StartRoot(r) \/ Close(r)
  PROVE  DurableInv'
<1>1. UNCHANGED <<row, lease, next, batch, delivered, removed>>
  BY DEF StartRoot, Close
<1>2. /\ status' \in [Runs -> {"none", "live", "cancelling", "terminal"}]
      /\ \A q \in Runs : status[q] # "none" => status'[q] # "none"
  BY DEF DurableInv, DurableTypes, StartRoot, Close
<1>3. /\ pc' = [q \in Procs |-> pc'[q]] /\ item' = [q \in Procs |-> item'[q]]
      /\ \A q \in Procs : pc'[q] \in Settling => pc[q] \in Settling /\ item'[q] = item[q]
  BY DEF DurableInv, DurableTypes, StartRoot, Close, Settling, Procs
<1> QED BY <1>1, <1>2, <1>3, RunsKeep

\* A drain takes rows that are queued, hence in nobody's batch.
LEMMA DrainKeeps ==
  ASSUME DurableInv, NEW r \in Runs, NEW kind \in SUBSET Items, Drain(r, kind)
  PROVE  DurableInv'
<1> DEFINE D == Drained(kind)
<1>1. /\ D \subseteq Items /\ \A i \in D : row[i] = "queued"
      /\ row' = [i \in Items |-> IF i \in D THEN "leased" ELSE row[i]]
      /\ lease' = [i \in Items |-> IF i \in D THEN r ELSE lease[i]]
      /\ batch' = [batch EXCEPT ![r] = D]
      /\ UNCHANGED <<next, status, delivered, removed, item>>
  BY DEF Drain, Drained
<1>2. pc' = [q \in Procs |-> pc'[q]] /\ \A q \in Procs : pc'[q] \in Settling => pc'[q] = pc[q]
  BY DEF DurableInv, DurableTypes, Drain, Settling, Procs
<1>3. DurableTypes'
  <2> HIDE DEF D
  <2>1. row' \in [Items -> Statuses]
    BY <1>1 DEF DurableInv, DurableTypes, Statuses
  <2>2. lease' = [i \in Items |-> lease'[i]] /\ batch' \in [Runs -> SUBSET Items]
    BY <1>1 DEF DurableInv, DurableTypes
  <2> QED BY <1>1, <1>2, <2>1, <2>2 DEF DurableInv, DurableTypes
<1>4. \A i \in D : i <= next /\ i \notin delivered /\ \A q \in Runs : i \notin batch[q]
  <2> SUFFICES ASSUME NEW i \in D
               PROVE  i <= next /\ i \notin delivered /\ \A q \in Runs : i \notin batch[q]
    OBVIOUS
  <2>1. i \in Items /\ row[i] = "queued"
    BY <1>1
  <2>2. i <= next
    BY <2>1, NNat DEF DurableInv, DurableTypes, Unissued, Items
  <2>3. i \notin delivered
    BY <2>1 DEF DurableInv, AckedForGood
  <2>4. \A q \in Runs : i \notin batch[q]
    BY <2>1 DEF DurableInv, LeaseExclusive
  <2> QED BY <2>2, <2>3, <2>4
<1> HIDE DEF D
<1>5. Unissued'
  BY <1>1, <1>4, NNat DEF DurableInv, DurableTypes, Unissued, Items
<1>6. Accepted'
  BY <1>1, <1>2 DEF DurableInv, Accepted
<1>7. NothingLost'
  BY <1>1, NNat DEF DurableInv, DurableTypes, NothingLost, Items
<1>8. AckedForGood'
  BY <1>1, <1>4 DEF DurableInv, DurableTypes, AckedForGood
<1>9. LeaseExclusive'
  <2>1. \A q \in Runs : batch'[q] = IF q = r THEN D ELSE batch[q]
    BY <1>1 DEF DurableInv, DurableTypes
  <2>2. \A q \in Runs : batch[q] \subseteq Items
    BY DEF DurableInv, DurableTypes
  <2>3. \A p, q \in Runs : p # q => batch'[p] \cap batch'[q] = {}
    BY <1>4, <2>1 DEF DurableInv, LeaseExclusive
  <2>4. ASSUME NEW q \in Runs, NEW i \in batch'[q]
        PROVE  row'[i] # "queued" /\ (row'[i] = "leased" => lease'[i] = q)
    BY <1>1, <1>4, <2>1, <2>2, <2>4 DEF DurableInv, LeaseExclusive
  <2> QED BY <2>3, <2>4 DEF LeaseExclusive
<1> QED BY <1>3, <1>5, <1>6, <1>7, <1>8, <1>9 DEF DurableInv

\* An acknowledgement settles a leased row with its message.
LEMMA AckKeeps ==
  ASSUME DurableInv, NEW r \in Runs, NEW i \in Items, Ack(r, i)
  PROVE  DurableInv'
<1>1. /\ row' = [row EXCEPT ![i] = "sent"] /\ lease' = [lease EXCEPT ![i] = None]
      /\ delivered' = delivered \cup {i} /\ row[i] = "leased"
      /\ UNCHANGED <<next, status, batch, removed, item>>
  BY DEF Ack
<1>2. pc' = [q \in Procs |-> pc'[q]] /\ \A q \in Procs : pc'[q] \in Settling => pc'[q] = pc[q]
  BY DEF DurableInv, DurableTypes, Ack, Settling, Procs
<1>3. DurableTypes'
  BY <1>1, <1>2 DEF DurableInv, DurableTypes, Statuses
<1>4. Unissued'
  BY <1>1 DEF DurableInv, DurableTypes, Unissued
<1>5. Accepted'
  BY <1>1, <1>2 DEF DurableInv, Accepted
<1>6. NothingLost'
  BY <1>1, NNat DEF DurableInv, DurableTypes, NothingLost, Items
<1>7. AckedForGood' /\ LeaseExclusive'
  BY <1>1 DEF DurableInv, DurableTypes, AckedForGood, LeaseExclusive
<1> QED BY <1>3, <1>4, <1>5, <1>6, <1>7 DEF DurableInv

\* A restart releases the leases and forgets every batch and process.
LEMMA RestartKeeps == DurableInv /\ Restart => DurableInv'
<1> SUFFICES ASSUME DurableInv, Restart PROVE DurableInv'
  OBVIOUS
<1>1. /\ row' = [i \in Items |-> IF row[i] = "leased" THEN "queued" ELSE row[i]]
      /\ lease' = [i \in Items |-> None]
      /\ status' = [q \in Runs |-> IF status[q] = "none" THEN "none" ELSE "terminal"]
      /\ batch' = [q \in Runs |-> {}]
      /\ pc' = [p \in Procs |-> IF p \in Senders THEN "idle" ELSE "off"]
      /\ item' = [p \in Procs |-> None]
      /\ UNCHANGED <<next, delivered, removed>>
  BY DEF Restart
<1>2. DurableTypes'
  BY <1>1 DEF DurableInv, DurableTypes, Statuses
<1>3. Unissued' /\ Accepted'
  BY <1>1 DEF DurableInv, DurableTypes, Unissued, Accepted, Settling
<1>4. NothingLost'
  BY <1>1, NNat DEF DurableInv, DurableTypes, NothingLost, Items, Runs
<1>5. AckedForGood' /\ LeaseExclusive'
  BY <1>1 DEF DurableInv, DurableTypes, AckedForGood, LeaseExclusive
<1> QED BY <1>2, <1>3, <1>4, <1>5 DEF DurableInv
----------------------------------------------------------------------------

\* Every step keeps the invariant.
LEMMA DurableStep == DurableInv /\ [Next]_vars => DurableInv'
<1> SUFFICES ASSUME DurableInv, [Next]_vars PROVE DurableInv'
  OBVIOUS
<1>1. CASE Requests
  BY <1>1, EnqueueKeeps, RemoveKeeps, QuietRequests, QuietKeeps DEF Requests
<1>2. CASE Restart
  BY <1>2, RestartKeeps
<1>3. ASSUME NEW s \in Senders, Send(s) PROVE DurableInv'
  BY <1>3, CancelKeeps, QuietSend, QuietKeeps DEF Send
<1>4. ASSUME NEW p \in Procs, Start(p) PROVE DurableInv'
  BY <1>4, LaunchKeeps, SettleKeeps, QuietMark, QuietKeeps DEF Start
<1>5. ASSUME NEW r \in Runs, Engine(r) PROVE DurableInv'
  <2>1. Steering \in SUBSET Items /\ Items \ Steering \in SUBSET Items
    BY ItemKinds
  <2> QED BY <1>5, <2>1, QuietEngine, QuietKeeps, AckKeeps, DrainKeeps, RootCloseKeeps DEF Engine
<1>6. ASSUME NEW r \in Roots, StartRoot(r) PROVE DurableInv'
  BY <1>6, RootCloseKeeps DEF Runs
<1>7. CASE UNCHANGED vars
  <2>1. Quiet
    BY <1>7 DEF vars, Quiet, DurableInv, DurableTypes
  <2> QED BY <2>1, QuietKeeps
<1> QED BY <1>1, <1>2, <1>3, <1>4, <1>5, <1>6, <1>7 DEF Next

\* The invariant holds in every reachable state.
THEOREM DurableInvariant == Spec => []DurableInv
<1>1. Init => DurableInv
  BY DurableInit
<1>2. DurableInv /\ [Next]_vars => DurableInv'
  BY DurableStep
<1> QED BY <1>1, <1>2, PTL DEF Spec

\* No accepted prompt is lost: not by a refused start, a lost lease, a crash
\* between two statements, or any race of the coordinator.
THEOREM PromptsSurvive == Spec => []NothingLost
<1>1. DurableInv => NothingLost
  BY DEF DurableInv
<1> QED BY <1>1, DurableInvariant, PTL

\* A prompt whose message is committed is never leased or queued again.
THEOREM DeliveredAtMostOnce == Spec => []AckedForGood
<1>1. DurableInv => AckedForGood
  BY DEF DurableInv
<1> QED BY <1>1, DurableInvariant, PTL

\* No two runs hold the same input.
THEOREM LeasesAreExclusive == Spec => []LeaseExclusive
<1>1. DurableInv => LeaseExclusive
  BY DEF DurableInv
<1> QED BY <1>1, DurableInvariant, PTL
----------------------------------------------------------------------------
(* What a restart finds.                                                    *)

\* Of two items the later one has more items up to it.
LEMMA RankGrows ==
  ASSUME NEW S \in SUBSET Int, IsFiniteSet(S), NEW i \in S, NEW j \in S, i < j
  PROVE  Cardinality({k \in S : k <= i}) < Cardinality({k \in S : k <= j})
<1> DEFINE I == {k \in S : k <= i}
           J == {k \in S : k <= j}
<1>1. I \subseteq J /\ J \subseteq S /\ j \in J /\ j \notin I
  <2>1. \A k \in S : k \in Int
    OBVIOUS
  <2>2. \A k \in S : k <= i => k <= j
    BY <2>1
  <2>3. j <= j /\ ~(j <= i)
    BY <2>1
  <2> QED BY <2>2, <2>3
<1> HIDE DEF I, J
<1>2. IsFiniteSet(I) /\ Cardinality(I) \in Nat /\ IsFiniteSet(J) /\ Cardinality(J) \in Nat
  BY <1>1, FS_Subset, FS_CardinalityType
<1>3. Cardinality(I) <= Cardinality(J) /\ Cardinality(I) # Cardinality(J)
  BY <1>1, <1>2, FS_Subset
<1> QED BY <1>2, <1>3 DEF I, J

\* InOrder lists a set of items: all of them, nothing else, and in order.
LEMMA InOrderLists ==
  ASSUME NEW S \in SUBSET Items
  PROVE  /\ DOMAIN InOrder(S) \subseteq Nat
         /\ \A k \in DOMAIN InOrder(S) : InOrder(S)[k] \in S
         /\ \A k, m \in DOMAIN InOrder(S) : k < m => InOrder(S)[k] < InOrder(S)[m]
         /\ \A i \in S : \E k \in DOMAIN InOrder(S) : InOrder(S)[k] = i
<1> DEFINE n == Cardinality(S)
           rank == [i \in S |-> Cardinality({j \in S : j <= i})]
<1>1. S \in SUBSET Int /\ IsFiniteSet(S) /\ n \in Nat
  <2>1. IsFiniteSet(1 .. N) /\ S \subseteq 1 .. N
    BY NNat, FS_Interval DEF Items
  <2>2. S \in SUBSET Int
    BY NNat DEF Items
  <2>3. IsFiniteSet(S)
    BY <2>1, FS_Subset
  <2> QED BY <2>2, <2>3, FS_CardinalityType
<1>2. \A i \in S : rank[i] = Cardinality({j \in S : j <= i})
  OBVIOUS
<1> HIDE DEF rank
<1>3. \A i, j \in S : i < j => rank[i] < rank[j]
  BY <1>1, <1>2, RankGrows
<1>4. ASSUME NEW i \in S  PROVE rank[i] \in 1 .. n
  <2> DEFINE I == {j \in S : j <= i}
  <2>1. I \subseteq S /\ i \in I
    BY <1>1
  <2>2. rank[i] = Cardinality(I)
    BY <1>2
  <2> HIDE DEF I
  <2>3. IsFiniteSet(I) /\ Cardinality(I) <= n /\ Cardinality(I) \in Nat
    BY <1>1, <2>1, FS_Subset, FS_CardinalityType
  <2>4. Cardinality(I) # 0
    BY <2>1, <2>3, FS_EmptySet
  <2> QED BY <1>1, <2>2, <2>3, <2>4
<1>5. \A i, j \in S : rank[i] = rank[j] => i = j
  <2> SUFFICES ASSUME NEW i \in S, NEW j \in S, i # j  PROVE rank[i] # rank[j]
    OBVIOUS
  <2>1. i < j \/ j < i
    BY <1>1
  <2>2. rank[i] \in Int /\ rank[j] \in Int
    BY <1>4
  <2> QED BY <1>3, <2>1, <2>2
<1>6. rank \in Injection(S, 1 .. n)
  <2>1. rank \in [S -> 1 .. n]
    <3>1. rank = [i \in S |-> rank[i]]
      BY DEF rank
    <3> QED BY <1>4, <3>1
  <2> QED BY <1>5, <2>1 DEF Injection, IsInjective
<1>7. \A k \in 1 .. n : \E i \in S : rank[i] = k
  <2>1. IsFiniteSet(1 .. n) /\ Cardinality(1 .. n) = n
    BY <1>1, FS_Interval
  <2>2. rank \in Surjection(S, 1 .. n)
    BY <1>6, <2>1, FS_Injection
  <2> QED BY <2>2 DEF Surjection
<1>8. InOrder(S) = [k \in 1 .. n |-> CHOOSE i \in S : rank[i] = k]
  BY <1>2 DEF InOrder
<1>9. /\ DOMAIN InOrder(S) = 1 .. n
      /\ \A k \in 1 .. n : InOrder(S)[k] \in S /\ rank[InOrder(S)[k]] = k
  BY <1>7, <1>8
<1>10. \A i \in S : InOrder(S)[rank[i]] = i
  BY <1>4, <1>5, <1>9
<1>11. ASSUME NEW k \in 1 .. n, NEW m \in 1 .. n, k < m
       PROVE  InOrder(S)[k] < InOrder(S)[m]
  <2> DEFINE i == InOrder(S)[k]
             j == InOrder(S)[m]
  <2>1. i \in S /\ j \in S /\ rank[i] = k /\ rank[j] = m
    BY <1>9
  <2> HIDE DEF i, j
  <2>2. ~(j < i) /\ i # j
    BY <1>3, <1>11, <2>1
  <2>3. i < j
    BY <1>1, <2>1, <2>2
  <2> QED BY <2>3 DEF i, j
<1> QED BY <1>4, <1>9, <1>10, <1>11

\* A removed item was issued, and its row waits for no engine again.
RemovedForGood ==
  \A i \in removed : i \in 1 .. next /\ row[i] \notin {"queued", "leased"}

\* Only remove adds an item, only enqueue makes a row queued, of a new item.
LEMMA RemovedStep == DurableInv /\ RemovedForGood /\ [Next]_vars => RemovedForGood'
<1> SUFFICES ASSUME DurableInv, RemovedForGood, [Next]_vars  PROVE RemovedForGood'
  OBVIOUS
<1>1. next \in Nat /\ row \in [Items -> Statuses] /\ N \in Nat
  BY NNat DEF DurableInv, DurableTypes
<1>2. CASE UNCHANGED <<row, next, removed>>
  BY <1>2 DEF RemovedForGood
<1>3. CASE EnqueueRow
  BY <1>1, <1>3 DEF EnqueueRow, RemovedForGood, Items
<1>4. ASSUME NEW i \in Items, RemoveRow(i)  PROVE RemovedForGood'
  <2>1. i \in 1 .. next
    BY <1>1, <1>4 DEF RemoveRow, DurableInv, Unissued, Items
  <2> QED BY <1>1, <1>4, <2>1 DEF RemoveRow, RemovedForGood
<1>5. ASSUME NEW p \in Procs, MarkSent(p) \/ DeleteSent(p)  PROVE RemovedForGood'
  <2>1. /\ UNCHANGED <<next, removed>>
        /\ \/ row' = row
           \/ row' = [row EXCEPT ![item[p]] = "sent"]
           \/ row' = [row EXCEPT ![item[p]] = "absent"]
    BY <1>5 DEF MarkSent, DeleteSent
  <2>2. ASSUME NEW i \in removed  PROVE row'[i] \notin {"queued", "leased"}
    <3>1. i \in 1 .. next /\ next <= N /\ row[i] \notin {"queued", "leased"}
      BY DEF RemovedForGood, DurableInv, DurableTypes
    <3>2. i \in Items
      BY <1>1, <3>1 DEF Items
    <3> QED BY <1>1, <2>1, <3>1, <3>2
  <2> QED BY <2>1, <2>2 DEF RemovedForGood
<1>6. ASSUME NEW r \in Runs, NEW kind \in SUBSET Items, Drain(r, kind)  PROVE RemovedForGood'
  <2>1. \A i \in Drained(kind) : i \in Items /\ row[i] = "queued"
    BY DEF Drained
  <2>2. /\ UNCHANGED <<next, removed>>
        /\ row' = [i \in Items |-> IF i \in Drained(kind) THEN "leased" ELSE row[i]]
    BY <1>6 DEF Drain
  <2>3. ASSUME NEW i \in removed  PROVE row'[i] \notin {"queued", "leased"}
    <3>1. i \notin Drained(kind) /\ row[i] \notin {"queued", "leased"}
      BY <2>1 DEF RemovedForGood
    <3>2. i \in Items
      <4>1. i \in 1 .. next /\ next <= N
        BY DEF RemovedForGood, DurableInv, DurableTypes
      <4> QED BY <1>1, <4>1 DEF Items
    <3> QED BY <2>2, <3>1, <3>2
  <2> QED BY <2>2, <2>3 DEF RemovedForGood
<1>7. ASSUME NEW r \in Runs, NEW i \in Items, Ack(r, i)  PROVE RemovedForGood'
  BY <1>1, <1>7 DEF Ack, RemovedForGood, Items
<1>8. CASE Restart
  <2>1. /\ UNCHANGED <<next, removed>>
        /\ row' = [i \in Items |-> IF row[i] = "leased" THEN "queued" ELSE row[i]]
    BY <1>8 DEF Restart
  <2>2. ASSUME NEW i \in removed  PROVE row'[i] \notin {"queued", "leased"}
    <3>1. i \in 1 .. next /\ next <= N /\ row[i] \notin {"queued", "leased"}
      BY DEF RemovedForGood, DurableInv, DurableTypes
    <3>2. i \in Items
      BY <1>1, <3>1 DEF Items
    <3> QED BY <2>1, <3>1, <3>2
  <2> QED BY <2>1, <2>2 DEF RemovedForGood
<1>9. CASE Requests
  BY <1>2, <1>3, <1>4, <1>9
     DEF Requests, ListRows, ListReload, ListRestore, EnqueueActor, RemoveActor
<1>10. ASSUME NEW s \in Senders, Send(s)  PROVE RemovedForGood'
  BY <1>2, <1>10 DEF Send, SendLookup, SendEnsure, SendClaim, SendCancel, SendFinish
<1>11. ASSUME NEW p \in Procs, Start(p)  PROVE RemovedForGood'
  BY <1>2, <1>5, <1>11 DEF Start, Launch, MarkItem
<1>12. ASSUME NEW r \in Runs, Engine(r)  PROVE RemovedForGood'
  <2>1. Steering \in SUBSET Items /\ Items \ Steering \in SUBSET Items
    BY ItemKinds
  <2> QED BY <1>2, <1>6, <1>7, <1>12, <2>1
          DEF Engine, MarkRunning, SafePoint, AckLost, Forget, StartRunFails,
              OnRunTerminal, Close
<1>13. ASSUME NEW r \in Roots, StartRoot(r)  PROVE RemovedForGood'
  BY <1>2, <1>13 DEF StartRoot
<1>14. CASE UNCHANGED vars
  BY <1>2, <1>14 DEF vars
<1> QED BY <1>8, <1>9, <1>10, <1>11, <1>12, <1>13, <1>14 DEF Next

\* Only a restart begins another life of the daemon.
LEMMA NewLife == [Next]_vars /\ lives' # lives => Restart
<1> SUFFICES ASSUME Next, lives' # lives  PROVE Restart
  BY DEF vars
<1>1. ~Requests
  BY DEF Requests, EnqueueRow, ListRows, ListReload, ListRestore, EnqueueActor, RemoveRow,
         RemoveActor
<1>2. \A s \in Senders : ~Send(s)
  BY DEF Send, SendLookup, SendEnsure, SendClaim, SendCancel, SendFinish
<1>3. \A p \in Procs : ~Start(p)
  BY DEF Start, Launch, MarkItem, MarkSent, DeleteSent
<1>4. \A r \in Runs : ~Engine(r)
  BY DEF Engine, MarkRunning, SafePoint, Ack, AckLost, Forget, Drain, StartRunFails,
         OnRunTerminal, Close
<1>5. \A r \in Roots : ~StartRoot(r)
  BY DEF StartRoot
<1> QED BY <1>1, <1>2, <1>3, <1>4, <1>5 DEF Next

\* The actor a restart leaves: the waiting rows, whatever the snapshot says.
LEMMA RestartedActor ==
  ASSUME Restart
  PROVE  /\ actor'.active = None
         /\ DOMAIN actor'.queue = DOMAIN Reloadable(row')
         /\ \A k \in DOMAIN actor'.queue : actor'.queue[k] = Entry(Reloadable(row')[k])
<1> DEFINE a == Reloaded(Idle, Reloadable(row'))
<1>1. actor' = IF saved = None THEN a ELSE Restored(a, saved)
  BY DEF Restart
<1>2. /\ DOMAIN a = {"queue", "active", "prompt", "after", "drain"}
      /\ a.active = None
      /\ a.queue = [k \in DOMAIN Reloadable(row') |-> Entry(Reloadable(row')[k])]
  BY DEF Reloaded, Idle
<1> HIDE DEF a
<1>3. Restored(a, saved).active = None /\ Restored(a, saved).queue = a.queue
  BY <1>2 DEF Restored
<1>4. actor'.active = None /\ actor'.queue = a.queue
  BY <1>1, <1>2, <1>3
<1> QED BY <1>2, <1>4

\* Every waiting row is in it, and no other.
LEMMA RestartRecovers ==
  ASSUME DurableInv, RemovedForGood, Restart
  PROVE  RecoveredActor
<1> DEFINE S == {i \in Items : row'[i] \in {"queued", "leased"}}
           q == actor'.queue
<1>1. row' = [i \in Items |-> IF row[i] = "leased" THEN "queued" ELSE row[i]]
  BY DEF Restart
<1>2. \A i \in Items : row'[i] # "leased" /\ (i \in S <=> row[i] \in {"queued", "leased"})
  BY <1>1
<1>3. S \in SUBSET Items /\ Reloadable(row') = InOrder(S)
  BY DEF Reloadable
<1> HIDE DEF S
<1>4. /\ \A k \in DOMAIN InOrder(S) : InOrder(S)[k] \in S
      /\ \A k, m \in DOMAIN InOrder(S) : k < m => InOrder(S)[k] < InOrder(S)[m]
      /\ \A i \in S : \E k \in DOMAIN InOrder(S) : InOrder(S)[k] = i
  BY <1>3, InOrderLists
<1>5. /\ actor'.active = None
      /\ DOMAIN q = DOMAIN InOrder(S)
      /\ \A k \in DOMAIN q : q[k] = Entry(InOrder(S)[k])
  BY <1>3, RestartedActor
<1> HIDE DEF q
<1>6. \A k \in DOMAIN q : q[k].item = InOrder(S)[k] /\ ~q[k].marked
  BY <1>5 DEF Entry
<1>7. ASSUME NEW i \in 1 .. next, i \notin delivered \cup removed, status[i] = "none"
      PROVE  \E k \in DOMAIN q : q[k].item = i
  <2>1. row[i] \in {"queued", "leased"}
    BY <1>7 DEF DurableInv, NothingLost
  <2>2. i \in Items
    <3>1. next \in 0 .. N
      BY DEF DurableInv, DurableTypes
    <3> QED BY <3>1, NNat DEF Items
  <2> QED BY <1>2, <1>4, <1>5, <1>6, <2>1, <2>2
<1>8. ASSUME NEW k \in DOMAIN q  PROVE q[k].item \notin delivered \cup removed
  <2>1. q[k].item \in S /\ q[k].item \in Items
    BY <1>3, <1>4, <1>5, <1>6
  <2>2. row[q[k].item] \in {"queued", "leased"}
    BY <1>2, <2>1
  <2> QED BY <2>2 DEF DurableInv, AckedForGood, RemovedForGood
<1>9. \A k, m \in DOMAIN q : k < m => q[k].item < q[m].item
  BY <1>4, <1>5, <1>6
<1> QED BY <1>2, <1>5, <1>6, <1>7, <1>8, <1>9 DEF q, RecoveredActor

\* After a crash every accepted prompt that is neither started, delivered nor
\* removed is back in the actor's queue, once, in the order of the rows; no lease
\* is left and no run is active.
THEOREM RestartRecoversTheQueue == Spec => RecoveredQueue
<1>1. Init => RemovedForGood
  BY DEF Init, RemovedForGood
<1>2. DurableInv /\ RemovedForGood /\ [Next]_vars => RemovedForGood'
  BY RemovedStep
<1>3. DurableInv /\ RemovedForGood /\ [Next]_vars => [lives' # lives => RecoveredActor]_vars
  BY NewLife, RestartRecovers
<1> QED BY <1>1, <1>2, <1>3, DurableInvariant, PTL DEF Spec, RecoveredQueue
=============================================================================
