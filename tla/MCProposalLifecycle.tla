------------------------ MODULE MCProposalLifecycle ------------------------
(* Small instances of ProposalLifecycle for TLC.                           *)
EXTENDS ProposalLifecycle, TLC

(* What Alpaca sends for a bracket's parent order in the paper account;    *)
(* "expired" is mapped as "canceled" is, and "stopped" is left out.        *)
UsualEvents == {"partial_fill", "fill", "canceled", "rejected"}

(* Proposals and orders are interchangeable.                               *)
Symmetric == Permutations(Proposals) \cup Permutations(Orders)
=============================================================================
