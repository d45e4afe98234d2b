------------------------- MODULE MCUserConcurrency -------------------------
(* Small instances of UserConcurrency: jobs j1 and j2 on workers w1 and w2, *)
(* sessions s1 with two runs and s2 with one or two.                        *)
EXTENDS UserConcurrency, TLC

CONSTANTS r1, r2, r3, r4, s1, s2, w1, w2, j1, j2

TwoSessions == [r \in Runs |-> IF r \in {r1, r2} THEN s1 ELSE s2]
OneEach == [j \in Jobs |-> IF j = j1 THEN w1 ELSE w2]

\* Renaming the two runs of s1 changes nothing as long as no constant tells
\* them apart.
RunSymmetry == Permutations({r1, r2})
=============================================================================
