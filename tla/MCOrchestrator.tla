--------------------------- MODULE MCOrchestrator ---------------------------
(* Small instances of Orchestrator for TLC.                                *)
EXTENDS Orchestrator

CONSTANTS aapl, ko

DefaultChain == <<"gemini", "ollama">>
One == [p \in {"gemini"} |-> 1]
Two == [p \in {"gemini"} |-> 2]

Draft(t, c, s) == [ticker |-> t, confidence |-> c, permille |-> s]

(* Below, at and above the sizes that make the tiers.                      *)
SomeDrafts == {Draft(aapl, 8, 6), Draft(ko, 8, 4)}
=============================================================================
