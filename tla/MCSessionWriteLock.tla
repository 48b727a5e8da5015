-------------------------- MODULE MCSessionWriteLock --------------------------
(* SessionWriteLock on small sets, for TLC. *)
EXTENDS SessionWriteLock

CONSTANTS p1, p2, p3, c1, c2, c3, c4, s3

\* p3 is given the pid of p1; c1 and c2 call from p1, c3 from p2, the rest from p3.
MCPid == [p \in Procs |-> IF p = p2 THEN 2 ELSE 1]
MCProc == [c \in Callers |-> IF c \in {c1, c2} THEN p1 ELSE IF c = c3 THEN p2 ELSE p3]

=============================================================================
