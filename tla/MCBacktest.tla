----------------------------- MODULE MCBacktest ------------------------------
(* Small instances of Backtest for TLC: two nested executors.              *)
EXTENDS Backtest

Plain == [settle |-> <<"None", "None", "cash">>, tracks |-> {2}, tracksInner |-> TRUE,
          empty |-> {}, align |-> {2}, reports |-> TRUE]

\* Settlement nowhere, in the atomic executor, in an executor around several of its
\* steps, in both, and of a kind that cannot be committed.
MCConfigs ==
  {Plain,
   [Plain EXCEPT !.settle = <<"None", "cash", "None">>, !.tracks = {1}, !.empty = {2}, !.align = {}],
   [Plain EXCEPT !.settle = <<"cash", "None", "cash">>, !.tracks = {}, !.tracksInner = FALSE],
   [Plain EXCEPT !.settle = <<"cash", "None", "None">>, !.reports = FALSE, !.tracks = {1, 2}, !.align = {1}],
   [Plain EXCEPT !.settle = <<"None", "None", "stock">>, !.empty = {1}],
   [Plain EXCEPT !.settle = <<"None", "None", "None">>]}
=============================================================================
