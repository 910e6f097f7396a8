------------------------------ MODULE MCTrainer ------------------------------
(* Small instances of Trainer for TLC.                                     *)
EXTENDS Trainer

\* Validation and early stopping with a saved best; links; a save after the
\* first iteration and at the end.
Basic == [maxIters |-> 2, valEvery |-> 2, monitor |-> "val/reward", patience |-> 1,
          baseline |-> None, restoreBest |-> TRUE, every |-> 2, timed |-> FALSE,
          onFitEnd |-> TRUE, latest |-> "link", absolute |-> TRUE, suppresses |-> FALSE]

MCConfigs ==
  {Basic,
   [Basic EXCEPT !.maxIters = 3, !.valEvery = 1, !.every = 1, !.latest = "copy"],
   [Basic EXCEPT !.maxIters = 1, !.every = None, !.absolute = FALSE, !.timed = TRUE, !.suppresses = TRUE],
   [Basic EXCEPT !.maxIters = 3, !.monitor = "reward", !.valEvery = 2, !.latest = "",
                 !.baseline = 1, !.restoreBest = FALSE, !.every = 0]}
=============================================================================
