---------------------------- MODULE SubagentsProofs ----------------------------
(***************************************************************************)
(* What the ledgers of the children keep for any number of parents,        *)
(* children, slots, retries, faults and crashes: each property the run     *)
(* `subagents` checks. The invariant is one of each child alone (ChildInv),*)
(* but for the slot counter and the fate of the parents: what another actor*)
(* does to a child is to cancel its agent and its task (Bystander).        *)
(***************************************************************************)
EXTENDS Subagents, FiniteSetTheorems, TLAPS

Places == {"idle"} \union Spawning \union Watching \union Ended
Closing == {"release", "close", "tell", "judge", "note"}

(* The run of a child exists from CreateRun on, and has ended once the      *)
(* watcher has come to a verdict.                                           *)
RunPart(c) ==
  /\ pc[c] \in {"idle", "opened", "reserved"} => run[c] = "none"
  /\ pc[c] \in {"created", "registered", "marked", "announced"} => run[c] = "queued"
  /\ pc[c] \in {"watching", "looked", "requeued"} => run[c] \in LiveRun \union OverRun
  /\ pc[c] = "looked" /\ seen[c] \in OverRun => run[c] = seen[c]
  /\ pc[c] = "settled" => run[c] = seen[c] /\ seen[c] \in OverRun
  /\ pc[c] = "passing" => run[c] = "completed"
  /\ pc[c] \in {"failing", "requeue", "done", "gone"} \union Closing => run[c] \notin LiveRun

(* The verdict of the watcher, and what the token budget allows it to be. An*)
(* overrun is a run that had ended, and a budget exceeded or a fault.       *)
VerdictPart(c) ==
  /\ pc[c] = "requeue" => verdict[c] = "failed" /\ retries[c] < MaxRetries
  /\ pc[c] \in {"release", "close", "tell"} => verdict[c] \in {"completed", "failed", "overrun"}
  /\ pc[c] \in {"judge", "note"} => verdict[c] \in {"completed", "untold", "failed", "overrun"}
  /\ verdict[c] = "overrun" =>
       pc[c] \in Closing /\ run[c] \in OverRun /\ (over[c] \/ faults > 0)
  /\ pc[c] = "passing" => ~over[c]
  /\ verdict[c] = "completed" => ~over[c] /\ pc[c] \in Closing
  /\ session[c] = "completed" => ~over[c] /\ pc[c] \in {"tell", "judge", "note", "done", "gone"}
  /\ told[c] = "completed" => ~over[c] /\ pc[c] \in {"judge", "note", "done", "gone"}
  /\ task[c] = "completed" => ~over[c] /\ pc[c] = "done"

(* The durable row, and the fact on the parent's stream that agrees with it.*)
RowPart(c) ==
  /\ pc[c] = "idle" <=> session[c] = "none"
  /\ pc[c] \in {"idle", "opened"} => slot[c] = "none"
  /\ pc[c] \in {"close", "tell", "judge", "note"} => slot[c] = "released"
  /\ pc[c] \in {"done", "gone"} => slot[c] # "held"
  /\ pc[c] \in {"tell", "judge", "note", "done"} => session[c] \notin OpenSession
  /\ pc[c] = "tell" => session[c] = Reported(c)
  /\ pc[c] \in {"judge", "note"} /\ verdict[c] = "overrun" => session[c] = "failed"
  /\ told[c] # "none" =>
       /\ session[c] = told[c] /\ slot[c] = "released"
       /\ pc[c] \in {"judge", "note", "done", "blind", "gone"}
       /\ pc[c] \in {"judge", "note"} =>
            verdict[c] = told[c] \/ (verdict[c] = "overrun" /\ told[c] = "failed")

(* The memory of the daemon: the agent and the task of a child.             *)
MemoryPart(c) ==
  /\ pc[c] \in {"idle", "opened", "reserved", "created", "gone"} => agent[c] = "none"
  /\ pc[c] \in {"idle", "opened", "reserved", "created", "registered", "marked", "gone"}
       => task[c] = "none"
  /\ pc[c] \in {"requeue", "done"} \union Closing => agent[c] \notin Holding
  /\ pc[c] = "done" \/ (pc[c] = "judge" /\ verdict[c] = "overrun") => task[c] # "running"

(* A fail_fast child that failed and was judged has ended its parent.       *)
FatePart(c) ==
  (pc[c] = "done" \/ (pc[c] = "note" /\ verdict[c] # "overrun"))
    /\ told[c] = "failed" /\ policy[c] = "fail_fast" => parent[owner[c]] # "active"

ChildInv(c) ==
  RunPart(c) /\ VerdictPart(c) /\ RowPart(c) /\ MemoryPart(c) /\ FatePart(c)

(* A slot that is counted is held by an agent: the counter may be below the *)
(* number of holders (MarkRunning, a retry), never above it.                *)
Holders == {c \in Children : agent[c] \in Holding}
SlotsInv == inUse <= Cardinality(Holders)

(* A parent is failed for a child whose policy is strict, or for one that is*)
(* over, was past its budget and is reported as failed.                     *)
Overran(c) ==
  /\ pc[c] = "done" /\ run[c] \in OverRun
  /\ over[c] \/ faults > 0
  /\ session[c] = "failed" /\ told[c] # "completed"
FailedInv ==
  \A p \in Parents : parent[p] = "failed" =>
    \E c \in Kids(p) :
      \/ reason[p] = "policy" /\ policy[c] \in Strict /\ pc[c] # "idle"
      \/ reason[p] = "budget" /\ Overran(c)

LedgerInv ==
  /\ TypeOK
  /\ \A c \in Children : ChildInv(c)
  /\ SlotsInv
  /\ FailedInv

-------------------------------------------------------------------------------
(* Conclude. *)

Status == {"Completed", "Failed", "Cancelled"}

\* A set of children is finite.
LEMMA KidsFinite ==
  ASSUME NEW S \in SUBSET Children
  PROVE  IsFiniteSet(S) /\ Cardinality(S) \in Nat
<1>1. IsFiniteSet(S)
  BY SetsAssumption, FS_Subset
<1> QED  BY <1>1, FS_CardinalityType

\* Some agents get a status that holds no slot; the slots they held are given back.
LEMMA ConcludeFacts ==
  ASSUME TypeOK, NEW kids \in SUBSET Children, NEW status \in Status, Conclude(kids, status)
  PROVE  /\ agent' = [c \in Children |-> IF c \in kids THEN status ELSE agent[c]]
         /\ agent' \in [Children -> {"none", "Completed", "Failed", "Cancelled"} \union Holding]
         /\ inUse' \in 0..MaxConcurrent
         /\ SlotsInv => SlotsInv'
<1> DEFINE Freed == {c \in kids : agent[c] \in Holding}
<1>1. agent' = [c \in Children |-> IF c \in kids THEN status ELSE agent[c]]
  BY DEF Conclude
<1>2. agent' \in [Children -> {"none", "Completed", "Failed", "Cancelled"} \union Holding]
  BY <1>1 DEF TypeOK, Status
<1>3. Cardinality(Freed) \in Nat /\ inUse \in Nat /\ MaxConcurrent \in Nat /\ inUse <= MaxConcurrent
  BY KidsFinite, BoundsAssumption DEF TypeOK
<1>4. inUse' = IF Cardinality(Freed) > inUse THEN 0 ELSE inUse - Cardinality(Freed)
  BY DEF Conclude
<1>5. inUse' \in 0..MaxConcurrent
  BY <1>3, <1>4
<1>6. ASSUME SlotsInv  PROVE  SlotsInv'
  <2>1. Holders' = Holders \ Freed
    BY <1>1 DEF Holders, Holding, Status
  <2>2. IsFiniteSet(Holders') /\ IsFiniteSet(Freed) /\ IsFiniteSet(Holders)
    BY KidsFinite, <2>1 DEF Holders
  <2>3. Holders = Holders' \union Freed /\ Holders' \intersect Freed = {}
    BY <2>1 DEF Holders
  <2>4. Cardinality(Holders) = Cardinality(Holders') + Cardinality(Freed)
    <3>1. Cardinality(Holders' \union Freed)
            = Cardinality(Holders') + Cardinality(Freed) - Cardinality(Holders' \intersect Freed)
      BY <2>2, FS_Union
    <3>2. Cardinality(Holders' \intersect Freed) = 0
      BY <2>3, FS_EmptySet
    <3>3. Cardinality(Holders') \in Nat
      BY <2>2, FS_CardinalityType
    <3> HIDE DEF Freed
    <3> QED  BY <3>1, <3>2, <3>3, <1>3, <2>3
  <2>5. Cardinality(Holders') \in Nat
    BY <2>2, FS_CardinalityType
  <2> HIDE DEF Freed
  <2> QED  BY <1>3, <1>4, <1>6, <2>4, <2>5 DEF SlotsInv
<1> QED  BY <1>1, <1>2, <1>5, <1>6

\* A child that starts to hold a slot adds one holder at most.
LEMMA HolderAdded ==
  ASSUME TypeOK, NEW c \in Children, NEW status \in Holding,
         agent' = [agent EXCEPT ![c] = status]
  PROVE  /\ Cardinality(Holders') \in Nat /\ Cardinality(Holders) \in Nat
         /\ Cardinality(Holders') = IF c \in Holders THEN Cardinality(Holders)
                                                   ELSE Cardinality(Holders) + 1
<1>1. Holders' = Holders \union {c}
  BY DEF Holders, TypeOK
<1>2. IsFiniteSet(Holders) /\ IsFiniteSet(Holders') /\ Cardinality(Holders) \in Nat
  BY <1>1, KidsFinite DEF Holders
<1> QED  BY <1>1, <1>2, FS_AddElement, FS_CardinalityType

\* While the agents and the counter are left alone, so are the slots.
LEMMA SlotsKept ==
  ASSUME UNCHANGED <<agent, inUse>>, SlotsInv
  PROVE  SlotsInv'
BY DEF SlotsInv, Holders

-------------------------------------------------------------------------------
(* What a step does to the other children, and to the parents. *)

(* A child that is not the actor may lose its agent and its task to a       *)
(* cancel; nothing else of it changes.                                      *)
Bystander(c) ==
  /\ pc'[c] = pc[c] /\ seen'[c] = seen[c] /\ verdict'[c] = verdict[c]
  /\ session'[c] = session[c] /\ slot'[c] = slot[c]
  /\ run'[c] = run[c] /\ retries'[c] = retries[c] /\ over'[c] = over[c] /\ told'[c] = told[c]
  /\ \/ agent'[c] = agent[c]
     \/ agent'[c] = "Cancelled" /\ (agent[c] # "none" \/ task[c] # "none")
  /\ \/ task'[c] = task[c]
     \/ task'[c] = "cancelled" /\ task[c] # "none"
  /\ faults' >= faults

(* What the parent was told of a child is not told anew, nor is a child told*)
(* of run again.                                                            *)
Told(c) ==
  told'[c] # "none" =>
    told[c] \in {"none", told'[c]} /\ (run[c] \in OverRun => run'[c] = run[c])

(* A parent that has ended stays so.                                        *)
ParentsEnd == \A p \in Parents : parent[p] # "active" => parent'[p] # "active"

\* A bystander keeps its invariant.
LEMMA BystanderKept ==
  ASSUME TypeOK, TypeOK', UNCHANGED args, ParentsEnd, NEW c \in Children, ChildInv(c), Bystander(c)
  PROVE  ChildInv(c)'
<1> USE DEF Bystander, args
<1>1. RunPart(c)'
  BY DEF ChildInv, RunPart, Closing
<1>2. VerdictPart(c)'
  BY BoundsAssumption DEF ChildInv, VerdictPart, Closing, TypeOK
<1>3. RowPart(c)'
  BY DEF ChildInv, RowPart, Reported
<1>4. MemoryPart(c)'
  BY DEF ChildInv, MemoryPart, Closing, Holding
<1>5. FatePart(c)'
  BY DEF ChildInv, FatePart, ParentsEnd, TypeOK
<1> QED  BY <1>1, <1>2, <1>3, <1>4, <1>5 DEF ChildInv

(* What a step does to the child that takes it.                             *)
Steps(c) ==
  /\ UNCHANGED <<args, fate>> /\ faults' >= faults
  /\ ChildInv(c)' /\ pc[c] # "done" /\ pc'[c] # "idle"

(* A step of the saga or of the watcher of one child.                       *)
Moves(c) ==
  /\ TypeOK' /\ SlotsInv' /\ Steps(c) /\ Told(c)
  /\ \A d \in Children \ {c} : Bystander(d)

-------------------------------------------------------------------------------
(* The saga and the watcher, but for the judgement. *)

\* The saga of a child.
LEMMA SagaMoves ==
  ASSUME LedgerInv, NEW c \in Children,
         Open(c) \/ Reserve(c) \/ CreateRun(c) \/ Register(c) \/ MarkRunning(c) \/
         Announce(c) \/ Start(c) \/ Drop(c)
  PROVE  Moves(c)
<1> USE DEF TypeOK, args, local, row, memory, bounds, fate, Go, Spawning,
            Watching, Ended, OpenSession, LiveRun, OverRun, Holding
<1>1. CASE Open(c)
  <2>1. TypeOK'
    BY <1>1 DEF LedgerInv, Open
  <2>2. SlotsInv'
    BY <1>1, SlotsKept DEF LedgerInv, Open
  <2>3. \A d \in Children \ {c} : Bystander(d)
    BY <1>1 DEF LedgerInv, Bystander, Open
  <2>4. Steps(c)
    BY <1>1
       DEF LedgerInv, Steps, ChildInv, RunPart, VerdictPart, RowPart, MemoryPart, FatePart, Closing,
           Reported, Open
  <2>5. Told(c)
    BY <1>1 DEF LedgerInv, ChildInv, RowPart, RunPart, Told, Open
  <2> QED  BY <2>1, <2>2, <2>3, <2>4, <2>5 DEF Moves
<1>2. CASE Reserve(c)
  <2>1. TypeOK'
    BY <1>2, BoundsAssumption DEF LedgerInv, Reserve, Fault
  <2>2. SlotsInv'
    BY <1>2, SlotsKept DEF LedgerInv, Reserve, Fault
  <2>3. \A d \in Children \ {c} : Bystander(d)
    BY <1>2 DEF LedgerInv, Bystander, Reserve, Fault
  <2>4. Steps(c)
    BY <1>2
       DEF LedgerInv, Steps, ChildInv, RunPart, VerdictPart, RowPart, MemoryPart, FatePart, Closing,
           Reported, Reserve, Fault
  <2>5. Told(c)
    BY <1>2 DEF LedgerInv, ChildInv, RowPart, RunPart, Told, Reserve, Fault
  <2> QED  BY <2>1, <2>2, <2>3, <2>4, <2>5 DEF Moves
<1>3. CASE CreateRun(c)
  <2>1. TypeOK'
    BY <1>3, BoundsAssumption DEF LedgerInv, CreateRun, Fault, Compensate
  <2>2. SlotsInv'
    BY <1>3, SlotsKept DEF LedgerInv, CreateRun, Fault, Compensate
  <2>3. \A d \in Children \ {c} : Bystander(d)
    BY <1>3 DEF LedgerInv, Bystander, CreateRun, Fault, Compensate
  <2>4. Steps(c)
    BY <1>3
       DEF LedgerInv, Steps, ChildInv, RunPart, VerdictPart, RowPart, MemoryPart, FatePart, Closing,
           Reported, CreateRun, Fault, Compensate
  <2>5. Told(c)
    BY <1>3 DEF LedgerInv, ChildInv, RowPart, RunPart, Told, CreateRun, Fault, Compensate
  <2> QED  BY <2>1, <2>2, <2>3, <2>4, <2>5 DEF Moves
<1>4. CASE Register(c)
  <2>1. TypeOK'
    BY <1>4, BoundsAssumption DEF LedgerInv, Register, Compensate, EndRun
  <2>2. SlotsInv'
    <3>1. CASE inUse' = inUse + 1 /\ agent' = [agent EXCEPT ![c] = "Queued"]
      <4>1. c \notin Holders
        BY <1>4 DEF LedgerInv, ChildInv, MemoryPart, Register, Holders
      <4>2. Cardinality(Holders') = Cardinality(Holders) + 1 /\ Cardinality(Holders) \in Nat
        BY <3>1, <4>1, HolderAdded DEF LedgerInv
      <4> QED  BY <3>1, <4>2 DEF LedgerInv, SlotsInv
    <3> QED  BY <1>4, <3>1, SlotsKept DEF LedgerInv, Register
  <2>3. \A d \in Children \ {c} : Bystander(d)
    BY <1>4 DEF LedgerInv, Bystander, Register, Compensate, EndRun
  <2>4. Steps(c)
    BY <1>4
       DEF LedgerInv, Steps, ChildInv, RunPart, VerdictPart, RowPart, MemoryPart, FatePart, Closing,
           Reported, Register, Compensate, EndRun
  <2>5. Told(c)
    BY <1>4 DEF LedgerInv, ChildInv, RowPart, RunPart, Told, Register, Compensate, EndRun
  <2> QED  BY <2>1, <2>2, <2>3, <2>4, <2>5 DEF Moves
<1>5. CASE MarkRunning(c)
  <2>1. TypeOK'
    BY <1>5 DEF LedgerInv, MarkRunning
  <2>2. SlotsInv'
    <3>1. agent' = [agent EXCEPT ![c] = "Running"] /\ inUse' = inUse
      BY <1>5 DEF MarkRunning
    <3>2. /\ Cardinality(Holders') \in {Cardinality(Holders), Cardinality(Holders) + 1}
          /\ Cardinality(Holders) \in Nat
      BY <3>1, HolderAdded DEF LedgerInv
    <3> QED  BY <3>1, <3>2 DEF LedgerInv, SlotsInv
  <2>3. \A d \in Children \ {c} : Bystander(d)
    BY <1>5 DEF LedgerInv, Bystander, MarkRunning
  <2>4. Steps(c)
    BY <1>5
       DEF LedgerInv, Steps, ChildInv, RunPart, VerdictPart, RowPart, MemoryPart, FatePart, Closing,
           Reported, MarkRunning
  <2>5. Told(c)
    BY <1>5 DEF LedgerInv, ChildInv, RowPart, RunPart, Told, MarkRunning
  <2> QED  BY <2>1, <2>2, <2>3, <2>4, <2>5 DEF Moves
<1>6. CASE Announce(c)
  <2>1. TypeOK'
    <3>1. CASE /\ task' = [task EXCEPT ![c] = "running"] /\ Go(c, "announced")
               /\ UNCHANGED <<seen, verdict, row, run, agent, inUse, bounds>>
      BY <1>6, <3>1 DEF LedgerInv, Announce
    <3>2. CASE Fault /\ Conclude({c}, "Failed")
      BY <1>6, <3>2, ConcludeFacts, BoundsAssumption
         DEF LedgerInv, Announce, Fault, Compensate, EndRun, Status
    <3> QED  BY <1>6, <3>1, <3>2 DEF Announce
  <2>2. SlotsInv'
    BY <1>6, ConcludeFacts, SlotsKept DEF LedgerInv, Announce, Fault, Compensate, EndRun, Status
  <2>3. \A d \in Children \ {c} : Bystander(d)
    BY <1>6, ConcludeFacts DEF LedgerInv, Bystander, Announce, Fault, Compensate, EndRun, Status
  <2>4. Steps(c)
    BY <1>6, ConcludeFacts
       DEF LedgerInv, Steps, ChildInv, RunPart, VerdictPart, RowPart, MemoryPart, FatePart, Closing,
           Reported, Announce, Fault, Compensate, EndRun, Status
  <2>5. Told(c)
    BY <1>6 DEF LedgerInv, ChildInv, RowPart, RunPart, Told, Announce, Fault, Compensate, EndRun
  <2> QED  BY <2>1, <2>2, <2>3, <2>4, <2>5 DEF Moves
<1>7. CASE Start(c)
  <2>1. TypeOK'
    <3>1. CASE run' = [run EXCEPT ![c] = "active"] /\ Go(c, "watching")
               /\ UNCHANGED <<seen, verdict, row, memory, bounds>>
      BY <1>7, <3>1 DEF LedgerInv, Start
    <3>2. CASE Fault /\ Conclude({c}, "Failed")
      BY <1>7, <3>2, ConcludeFacts, BoundsAssumption
         DEF LedgerInv, Start, Fault, Compensate, EndRun, Status
    <3> QED  BY <1>7, <3>1, <3>2 DEF Start
  <2>2. SlotsInv'
    BY <1>7, ConcludeFacts, SlotsKept DEF LedgerInv, Start, Fault, Compensate, EndRun, Status
  <2>3. \A d \in Children \ {c} : Bystander(d)
    BY <1>7, ConcludeFacts DEF LedgerInv, Bystander, Start, Fault, Compensate, EndRun, Status
  <2>4. Steps(c)
    BY <1>7, ConcludeFacts
       DEF LedgerInv, Steps, ChildInv, RunPart, VerdictPart, RowPart, MemoryPart, FatePart, Closing,
           Reported, Start, Fault, Compensate, EndRun, Status
  <2>5. Told(c)
    BY <1>7 DEF LedgerInv, ChildInv, RowPart, RunPart, Told, Start, Fault, Compensate, EndRun
  <2> QED  BY <2>1, <2>2, <2>3, <2>4, <2>5 DEF Moves
<1>8. CASE Drop(c)
  <2>1. TypeOK'
    BY <1>8 DEF LedgerInv, Drop
  <2>2. SlotsInv'
    BY <1>8, SlotsKept DEF LedgerInv, Drop
  <2>3. \A d \in Children \ {c} : Bystander(d)
    BY <1>8 DEF LedgerInv, Bystander, Drop
  <2>4. Steps(c)
    BY <1>8
       DEF LedgerInv, Steps, ChildInv, RunPart, VerdictPart, RowPart, MemoryPart, FatePart, Closing,
           Reported, Drop
  <2>5. Told(c)
    BY <1>8 DEF LedgerInv, ChildInv, RowPart, RunPart, Told, Drop
  <2> QED  BY <2>1, <2>2, <2>3, <2>4, <2>5 DEF Moves
<1> QED  BY <1>1, <1>2, <1>3, <1>4, <1>5, <1>6, <1>7, <1>8

\* Its run and its deadline.
LEMMA RunMoves ==
  ASSUME LedgerInv, NEW c \in Children, RunEnds(c) \/ Overspend(c) \/ Timeout(c)
  PROVE  Moves(c)
<1> USE DEF TypeOK, args, local, row, memory, bounds, fate, Go, Spawning,
            Watching, Ended, OpenSession, LiveRun, OverRun, Holding
<1>1. CASE RunEnds(c)
  <2>1. TypeOK'
    BY <1>1 DEF LedgerInv, RunEnds
  <2>2. SlotsInv'
    BY <1>1, SlotsKept DEF LedgerInv, RunEnds
  <2>3. \A d \in Children \ {c} : Bystander(d)
    BY <1>1 DEF LedgerInv, Bystander, RunEnds
  <2>4. Steps(c)
    BY <1>1
       DEF LedgerInv, Steps, ChildInv, RunPart, VerdictPart, RowPart, MemoryPart, FatePart, Closing,
           Reported, RunEnds
  <2>5. Told(c)
    BY <1>1 DEF LedgerInv, ChildInv, RowPart, RunPart, Told, RunEnds
  <2> QED  BY <2>1, <2>2, <2>3, <2>4, <2>5 DEF Moves
<1>2. CASE Overspend(c)
  <2>1. TypeOK'
    BY <1>2 DEF LedgerInv, Overspend
  <2>2. SlotsInv'
    BY <1>2, SlotsKept DEF LedgerInv, Overspend
  <2>3. \A d \in Children \ {c} : Bystander(d)
    BY <1>2 DEF LedgerInv, Bystander, Overspend
  <2>4. Steps(c)
    BY <1>2
       DEF LedgerInv, Steps, ChildInv, RunPart, VerdictPart, RowPart, MemoryPart, FatePart, Closing,
           Reported, Overspend
  <2>5. Told(c)
    BY <1>2 DEF LedgerInv, ChildInv, RowPart, RunPart, Told, Overspend
  <2> QED  BY <2>1, <2>2, <2>3, <2>4, <2>5 DEF Moves
<1>3. CASE Timeout(c)
  <2>1. TypeOK'
    BY <1>3 DEF LedgerInv, Timeout, EndRun
  <2>2. SlotsInv'
    BY <1>3, SlotsKept DEF LedgerInv, Timeout, EndRun
  <2>3. \A d \in Children \ {c} : Bystander(d)
    BY <1>3 DEF LedgerInv, Bystander, Timeout, EndRun
  <2>4. Steps(c)
    BY <1>3
       DEF LedgerInv, Steps, ChildInv, RunPart, VerdictPart, RowPart, MemoryPart, FatePart, Closing,
           Reported, Timeout, EndRun
  <2>5. Told(c)
    BY <1>3 DEF LedgerInv, ChildInv, RowPart, RunPart, Told, Timeout, EndRun
  <2> QED  BY <2>1, <2>2, <2>3, <2>4, <2>5 DEF Moves
<1> QED  BY <1>1, <1>2, <1>3

\* Its watcher, up to the verdict.
LEMMA WatchMoves ==
  ASSUME LedgerInv, NEW c \in Children,
         Look(c) \/ Settle(c) \/ Decide(c) \/ Overrun(c) \/ GiveUp(c) \/ Pass(c) \/
         Fail(c) \/ Requeue(c) \/ Rewatch(c)
  PROVE  Moves(c)
<1> USE DEF TypeOK, args, local, row, memory, bounds, fate, Go, Spawning,
            Watching, Ended, OpenSession, LiveRun, OverRun, Holding
<1>1. CASE Look(c)
  <2>1. TypeOK'
    BY <1>1 DEF LedgerInv, ChildInv, RunPart, Look
  <2>2. SlotsInv'
    BY <1>1, SlotsKept DEF LedgerInv, Look
  <2>3. \A d \in Children \ {c} : Bystander(d)
    BY <1>1 DEF LedgerInv, Bystander, Look
  <2>4. Steps(c)
    BY <1>1
       DEF LedgerInv, Steps, ChildInv, RunPart, VerdictPart, RowPart, MemoryPart, FatePart, Closing,
           Reported, Look
  <2>5. Told(c)
    BY <1>1 DEF LedgerInv, ChildInv, RowPart, RunPart, Told, Look
  <2> QED  BY <2>1, <2>2, <2>3, <2>4, <2>5 DEF Moves
<1>2. CASE Settle(c)
  <2>1. TypeOK'
    BY <1>2 DEF LedgerInv, Settle, Overdrawn, EndRun
  <2>2. SlotsInv'
    BY <1>2, SlotsKept DEF LedgerInv, Settle, Overdrawn, EndRun
  <2>3. \A d \in Children \ {c} : Bystander(d)
    BY <1>2 DEF LedgerInv, Bystander, Settle, Overdrawn, EndRun
  <2>4. Steps(c)
    BY <1>2
       DEF LedgerInv, Steps, ChildInv, RunPart, VerdictPart, RowPart, MemoryPart, FatePart, Closing,
           Reported, Settle, Overdrawn, EndRun
  <2>5. Told(c)
    BY <1>2 DEF LedgerInv, ChildInv, RowPart, RunPart, Told, Settle, Overdrawn, EndRun
  <2> QED  BY <2>1, <2>2, <2>3, <2>4, <2>5 DEF Moves
<1>3. CASE GiveUp(c)
  <2>1. TypeOK'
    BY <1>3, ConcludeFacts, BoundsAssumption DEF LedgerInv, GiveUp, Fault, Status
  <2>2. SlotsInv'
    BY <1>3, ConcludeFacts, SlotsKept DEF LedgerInv, GiveUp, Fault, Status
  <2>3. \A d \in Children \ {c} : Bystander(d)
    BY <1>3, ConcludeFacts DEF LedgerInv, Bystander, GiveUp, Fault, Status
  <2>4. Steps(c)
    BY <1>3, ConcludeFacts
       DEF LedgerInv, Steps, ChildInv, RunPart, VerdictPart, RowPart, MemoryPart, FatePart, Closing,
           Reported, GiveUp, Fault, Status
  <2>5. Told(c)
    BY <1>3 DEF LedgerInv, ChildInv, RowPart, RunPart, Told, GiveUp, Fault
  <2> QED  BY <2>1, <2>2, <2>3, <2>4, <2>5 DEF Moves
<1>4. CASE Pass(c)
  <2>1. TypeOK'
    BY <1>4, ConcludeFacts DEF LedgerInv, Pass, Status
  <2>2. SlotsInv'
    BY <1>4, ConcludeFacts, SlotsKept DEF LedgerInv, Pass, Status
  <2>3. \A d \in Children \ {c} : Bystander(d)
    BY <1>4, ConcludeFacts DEF LedgerInv, Bystander, Pass, Status
  <2>4. Steps(c)
    BY <1>4, ConcludeFacts
       DEF LedgerInv, Steps, ChildInv, RunPart, VerdictPart, RowPart, MemoryPart, FatePart, Closing,
           Reported, Pass, Status
  <2>5. Told(c)
    BY <1>4 DEF LedgerInv, ChildInv, RowPart, RunPart, Told, Pass
  <2> QED  BY <2>1, <2>2, <2>3, <2>4, <2>5 DEF Moves
<1>5. CASE Fail(c)
  <2>1. TypeOK'
    BY <1>5, ConcludeFacts DEF LedgerInv, Fail, Status
  <2>2. SlotsInv'
    BY <1>5, ConcludeFacts, SlotsKept DEF LedgerInv, Fail, Status
  <2>3. \A d \in Children \ {c} : Bystander(d)
    BY <1>5, ConcludeFacts DEF LedgerInv, Bystander, Fail, Status
  <2>4. Steps(c)
    BY <1>5, ConcludeFacts
       DEF LedgerInv, Steps, ChildInv, RunPart, VerdictPart, RowPart, MemoryPart, FatePart, Closing,
           Reported, Fail, Status
  <2>5. Told(c)
    BY <1>5 DEF LedgerInv, ChildInv, RowPart, RunPart, Told, Fail
  <2> QED  BY <2>1, <2>2, <2>3, <2>4, <2>5 DEF Moves
<1>6. CASE Requeue(c)
  <2>1. TypeOK'
    <3>1. CASE /\ run' = [run EXCEPT ![c] = "active"] /\ over' = [over EXCEPT ![c] = FALSE]
               /\ retries' = [retries EXCEPT ![c] = @ + 1]
               /\ verdict' = [verdict EXCEPT ![c] = "none"]
               /\ Go(c, "requeued") /\ UNCHANGED bounds
      <4>1. retries' \in [Children -> 0..MaxRetries]
        BY <1>6, <3>1, BoundsAssumption DEF LedgerInv, ChildInv, VerdictPart, Requeue
      <4> QED  BY <1>6, <3>1, <4>1 DEF LedgerInv, Requeue, Fault
    <3>2. CASE Fault
      BY <1>6, <3>2, BoundsAssumption DEF LedgerInv, Requeue, Fault
    <3> QED  BY <1>6, <3>1, <3>2 DEF Requeue
  <2>2. SlotsInv'
    BY <1>6, SlotsKept DEF LedgerInv, Requeue, Fault
  <2>3. \A d \in Children \ {c} : Bystander(d)
    BY <1>6 DEF LedgerInv, Bystander, Requeue, Fault
  <2>4. RunPart(c)'
    BY <1>6 DEF LedgerInv, ChildInv, RunPart, Closing, Requeue, Fault
  <2>5. VerdictPart(c)'
    BY <1>6 DEF LedgerInv, ChildInv, VerdictPart, RowPart, Closing, Requeue, Fault
  <2>6. RowPart(c)'
    BY <1>6 DEF LedgerInv, ChildInv, RowPart, Requeue, Fault
  <2>7. MemoryPart(c)' /\ FatePart(c)'
    BY <1>6 DEF LedgerInv, ChildInv, MemoryPart, FatePart, Closing, Requeue, Fault
  <2>8. /\ UNCHANGED <<args, fate>> /\ faults' >= faults
        /\ pc[c] # "done" /\ pc'[c] # "idle"
    BY <1>6 DEF LedgerInv, Requeue, Fault
  <2>9. Told(c)
    BY <1>6 DEF LedgerInv, ChildInv, RowPart, Told, Requeue, Fault
  <2> QED  BY <2>1, <2>2, <2>3, <2>4, <2>5, <2>6, <2>7, <2>8, <2>9 DEF Moves, Steps, ChildInv
<1>7. CASE Rewatch(c)
  <2>1. TypeOK'
    BY <1>7 DEF LedgerInv, Rewatch
  <2>2. SlotsInv'
    BY <1>7, SlotsKept DEF LedgerInv, Rewatch
  <2>3. \A d \in Children \ {c} : Bystander(d)
    BY <1>7 DEF LedgerInv, Bystander, Rewatch
  <2>4. Steps(c)
    BY <1>7
       DEF LedgerInv, Steps, ChildInv, RunPart, VerdictPart, RowPart, MemoryPart, FatePart, Closing,
           Reported, Rewatch
  <2>5. Told(c)
    BY <1>7 DEF LedgerInv, ChildInv, RowPart, RunPart, Told, Rewatch
  <2> QED  BY <2>1, <2>2, <2>3, <2>4, <2>5 DEF Moves
<1>8. CASE Decide(c)
  <2>1. TypeOK'
    BY <1>8 DEF LedgerInv, Decide
  <2>2. SlotsInv'
    BY <1>8, SlotsKept DEF LedgerInv, Decide
  <2>3. \A d \in Children \ {c} : Bystander(d)
    BY <1>8 DEF LedgerInv, Bystander, Decide
  <2>4. Steps(c)
    BY <1>8
       DEF LedgerInv, Steps, ChildInv, RunPart, VerdictPart, RowPart, MemoryPart, FatePart, Closing,
           Reported, Decide
  <2>5. Told(c)
    BY <1>8 DEF LedgerInv, ChildInv, RowPart, RunPart, Told, Decide
  <2> QED  BY <2>1, <2>2, <2>3, <2>4, <2>5 DEF Moves
<1>9. CASE Overrun(c)
  <2>1. TypeOK'
    BY <1>9, ConcludeFacts, BoundsAssumption DEF LedgerInv, Overrun, Fault, Status
  <2>2. SlotsInv'
    BY <1>9, ConcludeFacts, SlotsKept DEF LedgerInv, Overrun, Fault, Status
  <2>3. \A d \in Children \ {c} : Bystander(d)
    BY <1>9, ConcludeFacts DEF LedgerInv, Bystander, Overrun, Fault, Status
  <2>4. Steps(c)
    BY <1>9, ConcludeFacts
       DEF LedgerInv, Steps, ChildInv, RunPart, VerdictPart, RowPart, MemoryPart, FatePart, Closing,
           Reported, Overrun, Fault, Status
  <2>5. Told(c)
    BY <1>9 DEF LedgerInv, ChildInv, RowPart, RunPart, Told, Overrun, Fault
  <2> QED  BY <2>1, <2>2, <2>3, <2>4, <2>5 DEF Moves
<1> QED  BY <1>1, <1>2, <1>3, <1>4, <1>5, <1>6, <1>7, <1>8, <1>9

\* The end of a child, but for the judgement.
LEMMA CloseMoves ==
  ASSUME LedgerInv, NEW c \in Children, Release(c) \/ Close(c) \/ Tell(c) \/ Note(c)
  PROVE  Moves(c)
<1> USE DEF TypeOK, args, local, row, memory, bounds, fate, Go, Spawning,
            Watching, Ended, OpenSession, LiveRun, OverRun, Holding
<1>1. CASE Release(c)
  <2>1. TypeOK'
    BY <1>1 DEF LedgerInv, Release
  <2>2. SlotsInv'
    BY <1>1, SlotsKept DEF LedgerInv, Release
  <2>3. \A d \in Children \ {c} : Bystander(d)
    BY <1>1 DEF LedgerInv, Bystander, Release
  <2>4. Steps(c)
    BY <1>1
       DEF LedgerInv, Steps, ChildInv, RunPart, VerdictPart, RowPart, MemoryPart, FatePart, Closing,
           Reported, Release
  <2>5. Told(c)
    BY <1>1 DEF LedgerInv, ChildInv, RowPart, RunPart, Told, Release
  <2> QED  BY <2>1, <2>2, <2>3, <2>4, <2>5 DEF Moves
<1>2. CASE Close(c)
  <2>1. TypeOK'
    BY <1>2 DEF LedgerInv, ChildInv, VerdictPart, Reported, Close
  <2>2. SlotsInv'
    BY <1>2, SlotsKept DEF LedgerInv, Close
  <2>3. \A d \in Children \ {c} : Bystander(d)
    BY <1>2 DEF LedgerInv, Bystander, Close
  <2>4. Steps(c)
    BY <1>2
       DEF LedgerInv, Steps, ChildInv, RunPart, VerdictPart, RowPart, MemoryPart, FatePart, Closing,
           Reported, Close
  <2>5. Told(c)
    BY <1>2 DEF LedgerInv, ChildInv, RowPart, RunPart, Told, Close
  <2> QED  BY <2>1, <2>2, <2>3, <2>4, <2>5 DEF Moves
<1>3. CASE Tell(c)
  <2>1. TypeOK'
    BY <1>3, ConcludeFacts, BoundsAssumption
       DEF LedgerInv, ChildInv, VerdictPart, Reported, Tell, Fault, Status
  <2>2. SlotsInv'
    BY <1>3, ConcludeFacts, SlotsKept DEF LedgerInv, Tell, Fault, Status
  <2>3. \A d \in Children \ {c} : Bystander(d)
    BY <1>3, ConcludeFacts DEF LedgerInv, Bystander, Tell, Fault, Status
  <2>4. Steps(c)
    BY <1>3, ConcludeFacts
       DEF LedgerInv, Steps, ChildInv, RunPart, VerdictPart, RowPart, MemoryPart, FatePart, Closing,
           Reported, Tell, Fault, Status
  <2>5. Told(c)
    BY <1>3 DEF LedgerInv, ChildInv, RowPart, RunPart, Told, Tell, Fault
  <2> QED  BY <2>1, <2>2, <2>3, <2>4, <2>5 DEF Moves
<1>4. CASE Note(c)
  <2>1. TypeOK'
    BY <1>4 DEF LedgerInv, Reported, Note
  <2>2. SlotsInv'
    BY <1>4, SlotsKept DEF LedgerInv, Note
  <2>3. \A d \in Children \ {c} : Bystander(d)
    BY <1>4 DEF LedgerInv, Bystander, Note
  <2>4. Steps(c)
    BY <1>4
       DEF LedgerInv, Steps, ChildInv, RunPart, VerdictPart, RowPart, MemoryPart, FatePart, Closing,
           Reported, Note
  <2>5. Told(c)
    BY <1>4 DEF LedgerInv, ChildInv, RowPart, RunPart, Told, Note
  <2> QED  BY <2>1, <2>2, <2>3, <2>4, <2>5 DEF Moves
<1> QED  BY <1>1, <1>2, <1>3, <1>4

-------------------------------------------------------------------------------
(* The cancels, the judgement and the restart. *)

\* The ledgers of a cancelled tree: all its children are bystanders.
LEMMA TreeCancelled ==
  ASSUME TypeOK, SlotsInv, NEW p \in Parents, CancelTree(p)
  PROVE  /\ agent' \in [Children -> {"none", "Completed", "Failed", "Cancelled"} \union Holding]
         /\ inUse' \in 0..MaxConcurrent
         /\ task' \in [Children -> {"none", "running", "completed", "failed", "cancelled"}]
         /\ SlotsInv'
         /\ \A c \in Children :
              /\ agent'[c] = agent[c] \/ (agent'[c] = "Cancelled" /\ agent[c] # "none")
              /\ task'[c] = task[c] \/ (task'[c] = "cancelled" /\ task[c] # "none")
<1> DEFINE Tree == Registered(p)
<1>1. Tree \in SUBSET Children /\ \A c \in Tree : agent[c] # "none"
  BY DEF Registered, Kids
<1>2. Conclude(Tree, "Cancelled") /\ "Cancelled" \in Status
  BY DEF CancelTree, Status
<1>3. task' = [c \in Children |-> IF c \in Tree /\ task[c] # "none" THEN "cancelled" ELSE task[c]]
  BY DEF CancelTree
<1> HIDE DEF Tree
<1>4. /\ agent' = [c \in Children |-> IF c \in Tree THEN "Cancelled" ELSE agent[c]]
      /\ agent' \in [Children -> {"none", "Completed", "Failed", "Cancelled"} \union Holding]
      /\ inUse' \in 0..MaxConcurrent
      /\ SlotsInv'
  BY <1>1, <1>2, ConcludeFacts
<1>5. task' \in [Children -> {"none", "running", "completed", "failed", "cancelled"}]
  BY <1>3 DEF TypeOK
<1>6. \A c \in Children :
        /\ agent'[c] = agent[c] \/ (agent'[c] = "Cancelled" /\ agent[c] # "none")
        /\ task'[c] = task[c] \/ (task'[c] = "cancelled" /\ task[c] # "none")
  BY <1>1, <1>3, <1>4
<1> QED  BY <1>4, <1>5, <1>6

(* A call that is made stays made, and one that is over as it is.            *)
Stays(c) ==
  /\ pc[c] # "idle" => pc'[c] # "idle"
  /\ pc[c] = "done" =>
       /\ pc'[c] = "done" /\ run'[c] = run[c] /\ over'[c] = over[c]
       /\ session'[c] = session[c] /\ told'[c] = told[c]

\* The other steps leave what the parents were failed for.
LEMMA FailedKept ==
  ASSUME TypeOK, TypeOK', FailedInv, UNCHANGED args, faults' >= faults,
         \A c \in Children : Stays(c),
         \A p \in Parents : parent'[p] = "failed" => parent[p] = "failed" /\ reason'[p] = reason[p]
  PROVE  FailedInv'
<1>1. faults > 0 => faults' > 0
  BY BoundsAssumption DEF TypeOK
<1>2. \A c \in Children : Overran(c) => Overran(c)'
  BY <1>1 DEF Overran, Stays
<1> QED  BY <1>2 DEF FailedInv, Stays, Kids, args

\* A step of one child keeps the whole.
LEMMA MovesKeep ==
  ASSUME LedgerInv, NEW c \in Children, Moves(c)
  PROVE  LedgerInv' /\ \A d \in Children : Told(d)
<1>1. TypeOK' /\ ParentsEnd /\ UNCHANGED <<args, parent, reason>> /\ faults' >= faults
  BY DEF Moves, Steps, ParentsEnd, fate
<1>2. \A d \in Children : ChildInv(d)'
  BY <1>1, BystanderKept DEF LedgerInv, Moves, Steps
<1>3. \A d \in Children : Stays(d)
  BY DEF Moves, Steps, Bystander, Stays
<1>4. FailedInv'
  BY <1>1, <1>3, FailedKept DEF LedgerInv
<1>5. \A d \in Children : Told(d)
  BY DEF Moves, Told, Bystander
<1> QED  BY <1>2, <1>4, <1>5 DEF LedgerInv, Moves

\* A step whose children are all bystanders keeps the whole.
LEMMA BystandersKeep ==
  ASSUME LedgerInv, TypeOK', SlotsInv', UNCHANGED <<args, reason>>, ParentsEnd, faults' >= faults,
         \A p \in Parents : parent'[p] = "failed" => parent[p] = "failed",
         \A c \in Children : Bystander(c)
  PROVE  LedgerInv' /\ \A d \in Children : Told(d)
<1>1. \A c \in Children : ChildInv(c)'
  BY BystanderKept DEF LedgerInv
<1>2. FailedInv'
  <2>1. \A c \in Children : Stays(c)
    BY DEF Bystander, Stays
  <2> QED  BY <2>1, FailedKept DEF LedgerInv
<1>3. \A d \in Children : Told(d)
  BY DEF Told, Bystander
<1> QED  BY <1>1, <1>2, <1>3 DEF LedgerInv

\* kill_task.
LEMMA KillKeeps ==
  ASSUME LedgerInv, NEW c \in Children, Kill(c)
  PROVE  LedgerInv' /\ \A d \in Children : Told(d)
<1> USE DEF local, row, bounds, fate
<1>1. /\ agent' = [d \in Children |-> IF d \in {c} THEN "Cancelled" ELSE agent[d]]
      /\ agent' \in [Children -> {"none", "Completed", "Failed", "Cancelled"} \union Holding]
      /\ inUse' \in 0..MaxConcurrent
      /\ SlotsInv'
  BY ConcludeFacts DEF LedgerInv, Kill, Status
<1>2. TypeOK'
  BY <1>1 DEF LedgerInv, TypeOK, Kill, args
<1>3. \A d \in Children : Bystander(d)
  BY <1>1 DEF LedgerInv, TypeOK, Kill, Bystander
<1>4. ParentsEnd /\ UNCHANGED <<args, parent, reason>> /\ faults' >= faults
  BY DEF Kill, ParentsEnd, fate, LedgerInv, TypeOK
<1> QED  BY <1>1, <1>2, <1>3, <1>4, BystandersKeep

\* The end of a parent, with the cancel of its tree or without.
LEMMA ParentEndsKeeps ==
  ASSUME LedgerInv, NEW p \in Parents, ParentEnds(p)
  PROVE  LedgerInv' /\ \A d \in Children : Told(d)
<1> USE DEF local, row, bounds, memory
<1>1. CASE /\ parent' = [parent EXCEPT ![p] = "completed"] /\ UNCHANGED memory
  <2>1. TypeOK' /\ SlotsInv'
    BY <1>1, SlotsKept DEF LedgerInv, TypeOK, ParentEnds, args
  <2>2. \A d \in Children : Bystander(d)
    BY <1>1 DEF LedgerInv, TypeOK, ParentEnds, Bystander
  <2>3. /\ ParentsEnd /\ UNCHANGED <<args, reason>> /\ faults' >= faults
        /\ \A q \in Parents : parent'[q] = "failed" => parent[q] = "failed"
    BY <1>1 DEF LedgerInv, TypeOK, ParentEnds, ParentsEnd
  <2> QED  BY <2>1, <2>2, <2>3, BystandersKeep
<1>2. CASE parent' = [parent EXCEPT ![p] = "cancelled"] /\ CancelTree(p)
  <2>1. TypeOK' /\ SlotsInv'
    BY <1>2, TreeCancelled DEF LedgerInv, TypeOK, ParentEnds, args
  <2>2. \A d \in Children : Bystander(d)
    BY <1>2, TreeCancelled DEF LedgerInv, TypeOK, ParentEnds, Bystander
  <2>3. /\ ParentsEnd /\ UNCHANGED <<args, reason>> /\ faults' >= faults
        /\ \A q \in Parents : parent'[q] = "failed" => parent[q] = "failed"
    BY <1>2 DEF LedgerInv, TypeOK, ParentEnds, ParentsEnd
  <2> QED  BY <2>1, <2>2, <2>3, BystandersKeep
<1> QED  BY <1>1, <1>2 DEF ParentEnds

\* The judgement: the child goes on, or is over if it was an overrun, and is a
\* bystander of its own cancel; the parent is failed for a policy that is strict,
\* or for the overrun.
LEMMA JudgeKeeps ==
  ASSUME LedgerInv, NEW c \in Children, Judge(c)
  PROVE  LedgerInv' /\ \A d \in Children : Told(d)
<1> USE DEF local, row, bounds, memory, Go
<1> DEFINE p == owner[c]
<1>1. /\ p \in Parents /\ pc[c] = "judge" /\ UNCHANGED args
      /\ \/ /\ verdict[c] = "overrun" /\ pc' = [pc EXCEPT ![c] = "done"]
            /\ verdict' = [verdict EXCEPT ![c] = "none"]
         \/ /\ verdict[c] # "overrun" /\ pc' = [pc EXCEPT ![c] = "note"]
            /\ verdict' = verdict
  BY DEF LedgerInv, TypeOK, Judge
<1>2. /\ seen' = seen /\ session' = session /\ slot' = slot /\ run' = run /\ over' = over
      /\ told' = told /\ retries' = retries /\ faults' = faults /\ crashes' = crashes
      /\ faults' >= faults
  BY DEF LedgerInv, TypeOK, Judge
<1>3. \/ UNCHANGED fate
      \/ /\ Condemns(c) /\ parent[p] = "active"
         /\ parent' = [parent EXCEPT ![p] = "failed"]
         /\ reason' = [reason EXCEPT ![p] =
                         IF verdict[c] = "overrun" THEN "budget" ELSE "policy"]
  BY DEF Judge
<1>4. /\ TypeOK' /\ SlotsInv'
      /\ \A d \in Children :
           /\ agent'[d] = agent[d] \/ (agent'[d] = "Cancelled" /\ agent[d] # "none")
           /\ task'[d] = task[d] \/ (task'[d] = "cancelled" /\ task[d] # "none")
  <2>1. /\ parent' \in [Parents -> {"active", "completed", "failed", "cancelled", "interrupted"}]
        /\ reason' \in [Parents -> {"none", "policy", "budget"}]
    BY <1>3 DEF LedgerInv, TypeOK, fate
  <2>2. /\ pc' \in [Children -> Places]
        /\ verdict' \in [Children -> {"none", "completed", "untold", "failed", "overrun"}]
    BY <1>1 DEF LedgerInv, TypeOK, Places, Watching, Ended
  <2>3. CASE Condemns(c)
    <3>1. CancelTree(p)
      BY <2>3 DEF Judge
    <3> HIDE DEF p
    <3> QED  BY <1>1, <1>2, <2>1, <2>2, <3>1, TreeCancelled DEF LedgerInv, TypeOK, args, Places
  <2>4. CASE ~Condemns(c)
    <3>1. UNCHANGED memory
      BY <2>4 DEF Judge
    <3> HIDE DEF p
    <3>2. TypeOK'
      BY <1>1, <1>2, <2>1, <2>2, <3>1 DEF LedgerInv, TypeOK, args, Places
    <3> QED  BY <3>1, <3>2, SlotsKept DEF LedgerInv
  <2> QED  BY <2>3, <2>4
<1>5. ParentsEnd
  BY <1>3 DEF LedgerInv, TypeOK, ParentsEnd, fate
<1>6. \A d \in Children \ {c} : Bystander(d)
  BY <1>1, <1>2, <1>4 DEF LedgerInv, TypeOK, Bystander
<1>7. FatePart(c)'
  <2>1. CASE told[c] = "failed" /\ policy[c] = "fail_fast"
    <3>1. verdict[c] \in {"failed", "overrun"}
      BY <1>1, <2>1 DEF LedgerInv, ChildInv, RowPart
    <3>2. Condemns(c)
      BY <2>1, <3>1 DEF Condemns
    <3>3. parent'[p] # "active"
      BY <1>1, <3>2 DEF LedgerInv, TypeOK, Judge, fate
    <3> QED  BY <1>1, <3>3 DEF FatePart, args
  <2> QED  BY <1>1, <1>2, <2>1 DEF FatePart, args
<1>8. ChildInv(c)'
  <2>1. RunPart(c)' /\ VerdictPart(c)' /\ RowPart(c)' /\ MemoryPart(c)'
    BY <1>1, <1>2, <1>4
       DEF LedgerInv, TypeOK, ChildInv, RunPart, VerdictPart, RowPart, MemoryPart, Closing, Holding,
           Reported, Watching, Ended
  <2> QED  BY <1>7, <2>1 DEF ChildInv
<1>9. \A d \in Children : ChildInv(d)'
  BY <1>1, <1>4, <1>5, <1>6, <1>8, BystanderKept DEF LedgerInv
<1>10. FailedInv'
  <2>1. \A d \in Children : Stays(d)
    BY <1>1, <1>2 DEF LedgerInv, TypeOK, Stays
  <2>2. CASE UNCHANGED fate
    BY <1>1, <1>2, <1>4, <2>1, <2>2, FailedKept DEF LedgerInv, fate
  <2>3. CASE Condemns(c) /\ parent[p] = "active" /\ ~UNCHANGED fate
    <3>1. \A q \in Parents \ {p} : parent'[q] = parent[q] /\ reason'[q] = reason[q]
      BY <1>1, <1>3, <2>3 DEF LedgerInv, TypeOK
    <3>2. \A d \in Children : Overran(d) => Overran(d)'
      BY <1>2, <2>1 DEF Overran, Stays
    <3>3. c \in Kids(p)' /\ pc'[c] # "idle"
      BY <1>1 DEF Kids, args, LedgerInv, TypeOK
    <3>4. ASSUME NEW q \in Parents \ {p}, parent'[q] = "failed"
          PROVE  \E d \in Kids(q)' :
                   \/ reason'[q] = "policy" /\ policy'[d] \in Strict /\ pc'[d] # "idle"
                   \/ reason'[q] = "budget" /\ Overran(d)'
      BY <1>1, <2>1, <3>1, <3>2, <3>4 DEF LedgerInv, FailedInv, Stays, Kids, args
    <3>5. \E d \in Kids(p)' :
            \/ reason'[p] = "policy" /\ policy'[d] \in Strict /\ pc'[d] # "idle"
            \/ reason'[p] = "budget" /\ Overran(d)'
      <4>1. CASE verdict[c] = "overrun"
        <5>1. reason'[p] = "budget"
          BY <1>1, <1>3, <2>3, <4>1 DEF LedgerInv, TypeOK
        <5>2. Overran(c)'
          BY <1>1, <1>2, <4>1
             DEF LedgerInv, TypeOK, ChildInv, VerdictPart, RowPart, Overran, Reported, Closing
        <5> QED  BY <3>3, <5>1, <5>2
      <4>2. CASE verdict[c] # "overrun"
        <5>1. reason'[p] = "policy"
          BY <1>1, <1>3, <2>3, <4>2 DEF LedgerInv, TypeOK
        <5>2. policy'[c] \in Strict
          BY <1>1, <2>3, <4>2 DEF Condemns, Strict, args
        <5> QED  BY <3>3, <5>1, <5>2
      <4> QED  BY <4>1, <4>2
    <3>6. p' = p
      BY <1>1 DEF args
    <3> HIDE DEF p
    <3> QED  BY <3>4, <3>5, <3>6 DEF FailedInv
  <2> QED  BY <1>3, <2>2, <2>3
<1>11. \A d \in Children : Told(d)
  BY <1>2 DEF Told
<1> QED  BY <1>4, <1>9, <1>10, <1>11 DEF LedgerInv

\* A crash and the recovery of the next start.
LEMMA RestartKeeps ==
  ASSUME LedgerInv, Restart
  PROVE  LedgerInv' /\ \A d \in Children : Told(d)
<1>1. TypeOK'
  BY BoundsAssumption
     DEF LedgerInv, TypeOK, Restart, args, Spawning, Watching, Ended, OpenSession, LiveRun, OverRun
<1>2. \A c \in Children : ChildInv(c)'
  <2> SUFFICES ASSUME NEW c \in Children  PROVE ChildInv(c)'
    OBVIOUS
  <2> USE DEF LedgerInv, ChildInv, Restart, args, TypeOK,
              Spawning, Watching, Ended, OpenSession, LiveRun, OverRun, Closing
  <2>1. RunPart(c)'
    BY DEF RunPart
  <2>2. VerdictPart(c)'
    BY DEF VerdictPart, RowPart
  <2>3. RowPart(c)'
    BY DEF RowPart, Reported
  <2>4. MemoryPart(c)'
    BY DEF MemoryPart, Holding
  <2>5. FatePart(c)'
    BY DEF FatePart
  <2> QED  BY <2>1, <2>2, <2>3, <2>4, <2>5
<1>3. SlotsInv'
  <2>1. Cardinality(Holders') \in Nat
    BY <1>1, KidsFinite DEF Holders
  <2> QED  BY <2>1 DEF Restart, SlotsInv
<1>4. FailedInv'
  <2>1. \A c \in Children : Stays(c)
    BY DEF Restart, LedgerInv, TypeOK, Stays, ChildInv, RunPart, RowPart, Ended, OpenSession
  <2>2. /\ UNCHANGED <<args, reason>> /\ faults' >= faults
        /\ \A p \in Parents : parent'[p] = "failed" => parent[p] = "failed"
    BY DEF Restart, LedgerInv, TypeOK
  <2> QED  BY <1>1, <2>1, <2>2, FailedKept DEF LedgerInv
<1>5. \A d \in Children : Told(d)
  BY DEF Restart, Told, LedgerInv, TypeOK, LiveRun, OverRun
<1> QED  BY <1>1, <1>2, <1>3, <1>4, <1>5 DEF LedgerInv

-------------------------------------------------------------------------------
(* The invariant, and the properties. *)

\* No call has been made first.
LEMMA LedgerInit == Init => LedgerInv
<1> SUFFICES ASSUME Init  PROVE LedgerInv
  OBVIOUS
<1>1. TypeOK
  BY BoundsAssumption DEF Init, TypeOK, Holding
<1>2. \A c \in Children : ChildInv(c)
  BY DEF Init, ChildInv, RunPart, VerdictPart, RowPart, MemoryPart, FatePart, Closing, Holding,
         OverRun, LiveRun, OpenSession, Reported
<1>3. SlotsInv
  <2>1. Cardinality(Holders) \in Nat
    BY KidsFinite DEF Holders
  <2> QED  BY <2>1 DEF Init, SlotsInv
<1>4. FailedInv
  BY DEF Init, FailedInv
<1> QED  BY <1>1, <1>2, <1>3, <1>4 DEF LedgerInv

\* Every step keeps the ledgers, and what the parents were told.
LEMMA LedgerStep == LedgerInv /\ [Next]_vars => LedgerInv' /\ \A c \in Children : Told(c)
<1> SUFFICES ASSUME LedgerInv, [Next]_vars
             PROVE  LedgerInv' /\ \A c \in Children : Told(c)
  OBVIOUS
<1>1. ASSUME NEW c \in Children,
             Saga(c) \/ Drop(c) \/ RunEnds(c) \/ Overspend(c) \/ Timeout(c)
      PROVE  LedgerInv' /\ \A d \in Children : Told(d)
  BY <1>1, SagaMoves, RunMoves, MovesKeep DEF Saga
<1>2. ASSUME NEW c \in Children, Watch(c)
      PROVE  LedgerInv' /\ \A d \in Children : Told(d)
  BY <1>2, WatchMoves, CloseMoves, MovesKeep, JudgeKeeps DEF Watch
<1>3. ASSUME NEW c \in Children, Kill(c)
      PROVE  LedgerInv' /\ \A d \in Children : Told(d)
  BY <1>3, KillKeeps
<1>4. ASSUME NEW p \in Parents, ParentEnds(p)
      PROVE  LedgerInv' /\ \A d \in Children : Told(d)
  BY <1>4, ParentEndsKeeps
<1>5. CASE Restart
  BY <1>5, RestartKeeps
<1>6. CASE UNCHANGED vars
  <2>1. /\ TypeOK' /\ SlotsInv' /\ UNCHANGED <<args, parent, reason>>
        /\ ParentsEnd /\ faults' >= faults
    BY <1>6, SlotsKept
       DEF LedgerInv, TypeOK, vars, args, local, row, memory, bounds, fate, ParentsEnd
  <2>2. \A c \in Children : Bystander(c)
    BY <1>6, <2>1 DEF vars, local, row, memory, Bystander
  <2> QED  BY <2>1, <2>2, BystandersKeep
<1> QED  BY <1>1, <1>2, <1>3, <1>4, <1>5, <1>6 DEF Next

(* The ledgers of every reachable state are of their types and agree with   *)
(* each other, child by child.                                              *)
THEOREM LedgersAgree == Spec => []LedgerInv
BY LedgerInit, LedgerStep, PTL DEF Spec

(* Whatever path a call took to its end, the saga's compensations, the      *)
(* watcher or a restart, it leaves no run, reservation, session, agent or   *)
(* task behind; when all are over the slot counter is zero.                 *)
THEOREM CallsLeaveNothing == Spec => []EndedHoldsNothing
<1>1. LedgerInv => EndedHoldsNothing
  <2> SUFFICES ASSUME LedgerInv  PROVE EndedHoldsNothing
    OBVIOUS
  <2>1. \A c \in Children :
         /\ pc[c] \in {"done", "gone"} => run[c] \notin LiveRun /\ slot[c] # "held"
         /\ pc[c] = "done" => /\ session[c] \notin OpenSession
                             /\ agent[c] \notin Holding
                             /\ task[c] # "running"
    BY DEF LedgerInv, ChildInv, RunPart, RowPart, MemoryPart
  <2>2. ASSUME \A c \in Children : pc[c] \in {"idle", "done", "gone"}
        PROVE  inUse = 0
    <3>1. Holders = {}
      BY <2>2 DEF LedgerInv, ChildInv, MemoryPart, Holders, Holding
    <3>2. Cardinality(Holders) = 0
      BY <3>1, FS_EmptySet
    <3> QED  BY <3>2, BoundsAssumption DEF LedgerInv, TypeOK, SlotsInv
  <2> QED  BY <2>1, <2>2 DEF EndedHoldsNothing
<1> QED  BY <1>1, LedgersAgree, PTL

(* A child past its token budget is reported completed nowhere: to the      *)
(* session, to the parent or in the task record.                            *)
THEOREM OverBudgetNeverPasses == Spec => []OverBudgetFails
<1>1. LedgerInv => OverBudgetFails
  BY DEF LedgerInv, ChildInv, VerdictPart, OverBudgetFails
<1> QED  BY <1>1, LedgersAgree, PTL

(* A parent outlives no fail_fast child that failed. It is failed for a     *)
(* child of a strict policy, or for one of any policy that is over, whose   *)
(* run had ended and was then found past its budget, or could not be        *)
(* settled, and which is reported failed.                                   *)
THEOREM PoliciesDecideFate == Spec => []ParentFate
<1>1. LedgerInv => ParentFate
  BY DEF LedgerInv, ChildInv, FatePart, FailedInv, Overran, ParentFate
<1> QED  BY <1>1, LedgersAgree, PTL

(* What the parent's stream says of a child is never contradicted: by       *)
(* another fact, by the session or by another run.                          *)
THEOREM FactsAreFinal == Spec => FactIsFinal
<1>1. LedgerInv' /\ (\A c \in Children : Told(c)) =>
        \A c \in Children : told'[c] # "none" =>
          /\ told[c] \in {"none", told'[c]}
          /\ session'[c] = told'[c]
          /\ run[c] \in OverRun => run'[c] = run[c]
  BY DEF LedgerInv, ChildInv, RowPart, Told
<1> QED  BY <1>1, LedgersAgree, LedgerStep, PTL DEF Spec, FactIsFinal

================================================================================
