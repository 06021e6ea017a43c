----------------------------- MODULE MCTaskLog ------------------------------
(* Values for the constants of TaskLog.                                    *)
EXTENDS TaskLog, TLC

CONSTANTS x, y, v1

TwoBuilds == {1, 2}
SameVersion == [b \in Builds |-> x]
SecondUploads == {2}
=============================================================================
