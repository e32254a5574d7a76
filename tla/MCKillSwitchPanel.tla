------------------------- MODULE MCKillSwitchPanel -------------------------
(* A small instance of KillSwitchPanel for TLC.                            *)
EXTENDS KillSwitchPanel

OneSession == [d \in 0..0 |-> "trading"]
=============================================================================
