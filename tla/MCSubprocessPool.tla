-------------------------- MODULE MCSubprocessPool --------------------------
(* Small instances of SubprocessPool for TLC.                              *)
EXTENDS SubprocessPool

\* Nothing, one environment, both in either order, and the same one twice,
\* over pipes that hold no whole frame.
Piped == [batches |-> {<<>>, <<0>>, <<1, 0>>, <<0, 0>>}, span |-> 3, room |-> 0,
          shared |-> FALSE, requests |-> 6]

\* No environment twice, over mapped regions and pipes that hold a frame.
Mapped == [batches |-> {<<0>>, <<1, 0>>}, span |-> 2, room |-> 1,
           shared |-> TRUE, requests |-> 5]

AnyPool == {Piped, Mapped}

\* The same environment twice over a mapped region.
Overlapping == {[Mapped EXCEPT !.batches = {<<0, 0>>}, !.requests = 2]}
=============================================================================
