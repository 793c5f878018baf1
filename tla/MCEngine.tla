------------------------------- MODULE MCEngine --------------------------------
(* Small instances of Engine for TLC, and the reference the repairs of a transcript are *)
(* compared with.                                                                       *)
EXTENDS Engine

\* A conversation that starts, and one that was compacted, with a call of one id made twice.
TwoHistories ==
  LET call == <<Message("assistant", <<"a">>, 0), Message("tool", <<"a">>, 0)>>
  IN {<<>>, <<Message("system", <<>>, 0)>> \o call \o call}

\* Transcripts as a damaged store could return them: calls without results, results without
\* calls, ids used twice.
DamagedTranscripts ==
  BoundedSeq({Message("user", <<>>, 0)}
               \cup {Message("assistant", ids, 0) : ids \in {<<"a">>, <<"a", "b">>, <<"a", "a">>}}
               \cup {Message("tool", <<id>>, 0) : id \in {"a", "b"}}, 4)

\* After the repair every call is answered, and nothing but results was moved or added.
ASSUME RepairAnswersEveryCall ==
  \A msgs \in DamagedTranscripts :
    LET repaired == RepairDanglingToolCalls(msgs)
        Others(s) == SelectSeq(s, LAMBDA m : m.role # "tool")
    IN /\ \A k \in DOMAIN repaired :
            repaired[k].role = "assistant" => CallsAnswered(repaired, k)
       /\ Others(repaired) = Others(msgs)
       /\ Paired(msgs) => repaired = msgs

\* Of a whole transcript a summary leaves a whole one, wherever it is cut.
ASSUME SummaryKeepsPairsWhole ==
  \A msgs \in DamagedTranscripts, keep \in 1 .. 3 :
    LET summarised == ApplyModelSummary(msgs, ChooseSummarySplit(msgs, keep), 1)
    IN Paired(msgs) => /\ Paired(summarised)
                       /\ Len(summarised) >= Min({keep, Len(msgs)})
================================================================================
