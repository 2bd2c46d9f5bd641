---------------------------- MODULE MCBatchMonitor ----------------------------
(* Small instances of BatchMonitor for TLC. *)
EXTENDS BatchMonitor, TLC

CONSTANTS r1, r2

OneRun  == {r1}
TwoRuns == {r1, r2}
Alike   == Permutations(TwoRuns)

\* The first notice is a title-only message, every later one has two parts.
OneTwoParts == [p \in Ids |-> IF p = 1 THEN 1 ELSE 2]
SingleParts == [p \in Ids |-> 1]

\* A fresh installation, and one whose history starts with post 1.
Fresh0  == [b \in Boards |-> 0]
Seeded1 == [b \in Boards |-> 1]

DbFaults       == AllFaults \ {"dbDown", "fileOpen", "fileWrite"}
FallbackFaults == AllFaults \ {"fileWrite", "crash"}
OverlapFaults  == {"dbDown", "send", "save", "crash", "fileWrite"}
NoPoison       == {}
Photo3         == {3}
===============================================================================
