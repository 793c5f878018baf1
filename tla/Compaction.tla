------------------------------ MODULE Compaction -------------------------------
(* Pure operations on the transcript a run sends to its provider                        *)
(* (crates/agent-core/src/compaction.rs).                                               *)
(*                                                                                      *)
(* A message is a record: "role"; "ids", the calls an assistant message makes or the    *)
(* one call a result answers; "turn", the turn that made it (0: loaded with the         *)
(* history), or for a user message the number of the input. Texts, tool names and       *)
(* outputs are left out, and with them the trimming of long outputs, which changes      *)
(* neither roles nor ids.                                                               *)
EXTENDS Integers, FiniteSets, SequencesExt

Message(role, ids, turn) == [role |-> role, ids |-> ids, turn |-> turn]

\* The turn of the error result that stands in for a missing one.
Dangling == -1

RoleAt(msgs, i) == msgs[i].role

\* Where the search for the results of the assistant message at k ends.
SearchEnd(msgs, k) ==
  LET later == {i \in k + 1 .. Len(msgs) : RoleAt(msgs, i) = "assistant"}
  IN IF later = {} THEN Len(msgs) + 1 ELSE Min(later)

\* The result that is paired with the j-th call of the assistant message at k: the first
\* one of its id that no earlier call of the message has taken, or 0.
MatchingResult(msgs, k, j) ==
  LET calls   == msgs[k].ids
      earlier == Cardinality({i \in 1 .. j - 1 : calls[i] = calls[j]})
      results == {i \in k + 1 .. SearchEnd(msgs, k) - 1 :
                    msgs[i].role = "tool" /\ msgs[i].ids = <<calls[j]>>}
      found   == {i \in results : Cardinality({x \in results : x < i}) = earlier}
  IN IF found = {} THEN 0 ELSE CHOOSE i \in found : TRUE

ConsumedResults(msgs) ==
  UNION {{MatchingResult(msgs, k, j) : j \in DOMAIN msgs[k].ids} :
           k \in {i \in DOMAIN msgs : RoleAt(msgs, i) = "assistant"}}

\* Every call is followed by its result, moved next to it, or by an error result.
RepairDanglingToolCalls(msgs) ==
  LET ResultOf(k, j) ==
        LET found == MatchingResult(msgs, k, j)
        IN IF found # 0 THEN msgs[found]
           ELSE Message("tool", <<msgs[k].ids[j]>>, Dangling)
      Piece(i) ==
        IF RoleAt(msgs, i) = "assistant"
        THEN <<msgs[i]>> \o [j \in DOMAIN msgs[i].ids |-> ResultOf(i, j)]
        ELSE IF i \in ConsumedResults(msgs) THEN <<>> ELSE <<msgs[i]>>
  IN FlattenSeq([i \in DOMAIN msgs |-> Piece(i)])

\* How many messages a summary replaces: the tail it leaves has at least "keep" messages
\* and does not start with a result.
ChooseSummarySplit(msgs, keep) ==
  IF Len(msgs) <= keep THEN 0
  ELSE Max({i \in 0 .. Len(msgs) - keep : i = 0 \/ RoleAt(msgs, i + 1) # "tool"})

\* A result whose call is not in front of it is dropped.
DropOrphanToolResults(msgs) ==
  LET Known(i) == \E k \in 1 .. i - 1 : /\ RoleAt(msgs, k) = "assistant"
                                        /\ msgs[i].ids[1] \in ToSet(msgs[k].ids)
  IN FlattenSeq([i \in DOMAIN msgs |->
                   IF RoleAt(msgs, i) = "tool" /\ ~Known(i) THEN <<>> ELSE <<msgs[i]>>])

\* The summary, then the tail with its pairs whole.
ApplyModelSummary(msgs, split, turn) ==
  <<Message("system", <<>>, turn)>>
    \o RepairDanglingToolCalls(DropOrphanToolResults(SubSeq(msgs, split + 1, Len(msgs))))

--------------------------------------------------------------------------------
(* What a provider accepts. *)

\* The results of the assistant message at k stand behind it, in the order of its calls.
CallsAnswered(msgs, k) ==
  LET n == Len(msgs[k].ids)
  IN /\ k + n <= Len(msgs)
     /\ \A j \in 1 .. n : /\ msgs[k + j].role = "tool"
                          /\ msgs[k + j].ids = <<msgs[k].ids[j]>>

\* The result at i answers a call.
HasItsCall(msgs, i) ==
  \E k \in 1 .. i - 1 : RoleAt(msgs, k) = "assistant" /\ i - k <= Len(msgs[k].ids)

\* Every call has its result and every result its call.
Paired(msgs) ==
  /\ \A k \in DOMAIN msgs : RoleAt(msgs, k) = "assistant" => CallsAnswered(msgs, k)
  /\ \A i \in DOMAIN msgs : RoleAt(msgs, i) = "tool" => HasItsCall(msgs, i)
================================================================================
