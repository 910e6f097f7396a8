--------------------------- MODULE MCFiniteVector ---------------------------
(* Small instances of FiniteVector for TLC.                                *)
EXTENDS FiniteVector

\* Nobody, one, all, all in the other order, one twice.
AnySelection == {<<>>, <<1>>, <<0, 1>>, <<1, 0>>, <<0, 1, 0>>}
=============================================================================
