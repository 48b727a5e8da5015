-------------------------- MODULE MCHeartbeatRunner --------------------------
(* HeartbeatRunner on small sets, for TLC. *)
EXTENDS HeartbeatRunner, TLC

CONSTANTS a1, a2, r1, r2, b1, b2

\* Both agents, the first one alone and more often, nobody.
MCConfigs ==
    {[a \in Agents |-> 2], [a \in Agents |-> IF a = a1 THEN 1 ELSE None], NoAgents}
BatchSymmetry == Permutations(Batches)

=============================================================================
