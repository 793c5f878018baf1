------------------------------ MODULE MCSubagents ------------------------------
(* Small instances of Subagents for TLC. *)
EXTENDS Subagents, TLC

CONSTANTS par, c1, c2

Symmetric == Permutations({c1, c2})

\* The policies that meet: the policy of a call does not change, so this only says which of
\* the initial states are looked at.
Mixes ==
  {policy[c] : c \in Children}
    \in {{"fail_fast", "retry"}, {"fail_fast", "require_all"}, {"require_all"}}
================================================================================
