---------------------------- MODULE MCAgentRuns -----------------------------
(* AgentRuns for TLC: the first agent may search twice, the second gets    *)
(* one round, and a finished run of earlier fills the registry.            *)
EXTENDS AgentRuns

CONSTANTS a1, a2, old, c1, c2, f1, f2

MCOld == <<old>>
MCRankings == [a \in Agents |-> IF a = a1 THEN {<<c1>>, <<c2, c1>>} ELSE {}]
MCFinds == {{}, {f1}}
MCRounds == [a \in Agents |-> IF a = a1 THEN 3 ELSE 1]
=============================================================================
