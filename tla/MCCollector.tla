----------------------------- MODULE MCCollector -----------------------------
(* Small instances of Collector for TLC.                                   *)
EXTENDS Collector

\* The collector makes its own calls; free ones are not used here.
NoSelection == {}
=============================================================================
