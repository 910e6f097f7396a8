---------------------------- MODULE MCDataQueue -----------------------------
(* Small instances of DataQueue for TLC.                                   *)
EXTENDS DataQueue, TLC

CONSTANTS w1, w2

Pair == {w1, w2}
NoWorkers == {}

Endless == -1

\* Workers of one epoch are interchangeable; used where only safety is checked.
WorkerSymmetry == Permutations(Workers)
=============================================================================
