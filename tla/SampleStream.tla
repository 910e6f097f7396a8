---------------------------- MODULE SampleStream ----------------------------
(***************************************************************************)
(* What a seed queue promises its one consumer, without threads, channels, *)
(* prefetching or timeouts.                                                *)
(*                                                                         *)
(* A sampler promises items, one epoch after another.  The items are       *)
(* numbered 1, 2, 3, ... in the order the sampler gave them, they become   *)
(* available in that order, and the consumer receives them in that order,  *)
(* each exactly once.  Production ends once, either because everything     *)
(* promised was made available or because of a fault.  Only then, and only *)
(* after the consumer has received every available item, does the consumer *)
(* learn how it ended; what it is told never changes.  Closing the stream  *)
(* releases the producer from its promise and loses the available items.   *)
(***************************************************************************)
EXTENDS Naturals

CONSTANTS SamplerFaults,  \* faults found before any item of an epoch is made
          LoadFaults      \* faults of loading one item

VARIABLES promised,   \* how many items the sampler has announced
          available,  \* how many of them were made available
          delivered,  \* how many of them the consumer has received
          closed,     \* the consumer gave the stream up
          outcome,    \* how production ended, or "running"
          verdict     \* what the consumer was told, or "none"

vars == <<promised, available, delivered, closed, outcome, verdict>>

Init == /\ promised = 0
        /\ available = 0
        /\ delivered = 0
        /\ closed = FALSE
        /\ outcome = "running"
        /\ verdict = "none"

\* The sampler announces the items of one more epoch.
Promise == /\ outcome = "running"
           /\ promised' \in Nat
           /\ promised' >= promised
           /\ UNCHANGED <<available, delivered, closed, outcome, verdict>>

\* The next item in the sampler's order becomes available.
Produce == /\ outcome = "running"
           /\ available < promised
           /\ available' = available + 1
           /\ UNCHANGED <<promised, delivered, closed, outcome, verdict>>

\* An open stream ends well only when every promised item was made
\* available, and with a fault exactly where the fault was met.
Finish == /\ outcome = "running"
          /\ \/ /\ outcome' = "Exhausted"
                /\ closed \/ available = promised
             \/ /\ outcome' \in SamplerFaults
                /\ closed \/ available = promised
             \/ /\ outcome' \in LoadFaults
                /\ closed \/ available < promised
          /\ UNCHANGED <<promised, available, delivered, closed, verdict>>

\* The consumer receives the next item.
Deliver == /\ ~closed
           /\ delivered < available
           /\ delivered' = delivered + 1
           /\ UNCHANGED <<promised, available, closed, outcome, verdict>>

\* The consumer learns how production ended.
Report == /\ outcome # "running"
          /\ closed \/ delivered = available
          /\ verdict = "none"
          /\ verdict' = outcome
          /\ UNCHANGED <<promised, available, delivered, closed, outcome>>

Close == /\ ~closed
         /\ closed' = TRUE
         /\ UNCHANGED <<promised, available, delivered, outcome, verdict>>

Next == Promise \/ Produce \/ Finish \/ Deliver \/ Report \/ Close

Spec == Init /\ [][Next]_vars
=============================================================================
