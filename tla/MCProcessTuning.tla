--------------------------- MODULE MCProcessTuning ---------------------------
(* Small instances of ProcessTuning for TLC. *)
EXTENDS ProcessTuning, TLC
CONSTANTS p1, p2, g

\* p1 is first a background process, then a game under the same pid; p2 the other way round.
ReusedPids  == {p1, p2} \X {1, 2}
ReusedGames == {<<p1, 2>>, <<p2, 1>>}
Second      == {<<p1, 2>>, <<p2, 2>>}

\* Background processes and a game, one of each pid.
Three    == {<<p1, 1>>, <<p2, 1>>, <<g, 1>>}
OneGame  == {<<g, 1>>}
BackgroundSymmetry == Permutations({p1, p2})

\* A background process and a game that only its install path gives away.
PathOnly == {<<p1, 1>>}
Two      == {<<p1, 1>>, <<p2, 1>>}
=============================================================================
