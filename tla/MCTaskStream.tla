---------------------------- MODULE MCTaskStream ----------------------------
(* Small instances of TaskStream for TLC.                                   *)
EXTENDS TaskStream, TLC

CONSTANTS q1, s1, s2, s3, t1, t2, t3, h1, h2

\* One queue: streams s1 and s2 serve its tasks, s3 its compensations.
Line == [x \in Streams \union Tasks |->
           IF x \in {s3, t3} THEN <<q1, "compensation">> ELSE <<q1, "task">>]

Symmetry == Permutations({s1, s2}) \union Permutations({t1, t2})
              \union Permutations({h1, h2})
=============================================================================
