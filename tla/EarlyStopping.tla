---------------------------- MODULE EarlyStopping ----------------------------
(***************************************************************************)
(* The early-stopping callback (rl_early_stopping.rs) as operators on its  *)
(* record.  Values are integers, or NaN; mode "min" is mode "max" on       *)
(* negated values.  An infinite value is left out.                         *)
(***************************************************************************)
EXTENDS Integers, Sequences

CONSTANTS None,    \* no value, no weights, no bound
          NaN,     \* a monitored value that compares with nothing
          Lowest,  \* minus infinity, the best of nobody
          Values,  \* the other monitored values
          MinDelta \* what a value must exceed the best by

ASSUME EarlyAssumption == /\ Values \subseteq Int /\ MinDelta \in Nat
                          /\ None \notin Int /\ NaN \notin Int /\ Lowest \notin Int
                          /\ None # NaN /\ None # Lowest

\* The state before the first fit: only the weights are initialised.
EarlyUnset == [wait |-> None, best |-> None, bestIter |-> None, bestWeights |-> None]

\* Seeded fault: the weights of an earlier fit, or of a checkpoint, are kept.
EarlyFitStartKeeps(e) ==
  [wait |-> 0, best |-> Lowest, bestIter |-> 0, bestWeights |-> e.bestWeights]
\* on_fit_start, after a restored checkpoint as well.
EarlyFitStart(e) == [wait |-> 0, best |-> Lowest, bestIter |-> 0, bestWeights |-> None]

\* is_improvement
Improves(value, reference) ==
  /\ value # NaN
  /\ reference = Lowest \/ value - MinDelta > reference

Better(e, value) == Improves(value, e.best)
\* An improvement restarts the wait only past the baseline, if there is one.
Restarts(e, value, cfg) == /\ Better(e, value)
                           /\ cfg.baseline = None \/ Improves(value, cfg.baseline)
Captures(e, value, cfg) == cfg.restoreBest /\ (e.bestWeights = None \/ Better(e, value))

\* Seeded fault: weights are captured the first time only.
EarlyValidatedOnce(e, value, iter, weights, cfg) ==
  [wait |-> IF Restarts(e, value, cfg) THEN 0 ELSE e.wait + 1,
   best |-> IF Better(e, value) THEN value ELSE e.best,
   bestIter |-> IF Better(e, value) THEN iter ELSE e.bestIter,
   bestWeights |-> IF cfg.restoreBest /\ e.bestWeights = None
                   THEN weights ELSE e.bestWeights]
\* on_validate_end, up to the decision to stop
EarlyValidated(e, value, iter, weights, cfg) ==
  [wait |-> IF Restarts(e, value, cfg) THEN 0 ELSE e.wait + 1,
   best |-> IF Better(e, value) THEN value ELSE e.best,
   bestIter |-> IF Better(e, value) THEN iter ELSE e.bestIter,
   bestWeights |-> IF Captures(e, value, cfg) THEN weights ELSE e.bestWeights]

\* A capture fails before anything is assigned, or, on an improvement, after
\* the best and its iteration are.
EarlyCaptureFails(e, value, iter, weights, cfg) ==
  (IF e.bestWeights = None /\ cfg.restoreBest THEN {e} ELSE {})
  \cup (IF Better(e, value) /\ cfg.restoreBest
        THEN {[wait |-> e.wait + 1, best |-> value, bestIter |-> iter,
               bestWeights |-> IF e.bestWeights = None THEN weights ELSE e.bestWeights]}
        ELSE {})

\* The patience is over, and this is not iteration 0.
EarlyStops(e, iter, cfg) == e.wait >= cfg.patience /\ iter > 0
=============================================================================
