---------------------------- MODULE MCFileLock ----------------------------
(***************************************************************************)
(* FileLock for TLC: two processes of two threads each.                    *)
(***************************************************************************)
EXTENDS FileLock

CONSTANTS procA, procB, a1, a2, b1, b2

MCProcesses == {procA, procB}

MCThreads == {a1, a2, b1, b2}

MCProcessOf == [t \in MCThreads |-> IF t \in {a1, a2} THEN procA ELSE procB]
===========================================================================
