------------------------------ MODULE Generator ------------------------------
(***************************************************************************)
(* What the caller of a resumable run may rely on, whatever is nested in   *)
(* it: the run goes on only when it is resumed, and holds one scope, which *)
(* it enters at most once and leaves exactly once on every path, never     *)
(* while something below is still suspended; results appear only when it   *)
(* ended well, after the scope; and an end is final, but that a failed run *)
(* can still be closed.                                                    *)
(***************************************************************************)
VARIABLES phase,     \* "fresh", "running", "suspended", "closing", or how it ended
          scope,     \* "unentered", "open" or "left"
          busy,      \* something below is suspended
          published  \* there are results

vars == <<phase, scope, busy, published>>

Init == phase = "fresh" /\ scope = "unentered" /\ busy = FALSE /\ published = FALSE

Resume == /\ phase \in {"fresh", "suspended"}
          /\ phase' = "running"
          /\ UNCHANGED <<scope, busy, published>>

Work == /\ phase = "running"
        /\ busy' \in BOOLEAN
        /\ UNCHANGED <<phase, scope, published>>

Enter == /\ phase = "running" /\ scope = "unentered"
         /\ scope' = "open"
         /\ UNCHANGED <<phase, busy, published>>

Suspend == /\ phase = "running" /\ scope = "open"
           /\ phase' = "suspended" /\ busy' = TRUE
           /\ UNCHANGED <<scope, published>>

Leave == /\ phase = "running" /\ scope = "open" /\ ~busy
         /\ scope' = "left"
         /\ UNCHANGED <<phase, busy, published>>

Finish == /\ phase = "running" /\ scope = "left" /\ ~busy
          /\ phase' = "done" /\ published' \in BOOLEAN
          /\ UNCHANGED <<scope, busy>>

\* A scope that is open is left by whatever ends the run.
Left == IF scope = "open" THEN "left" ELSE scope

Fail == /\ phase = "running" /\ ~busy'
        /\ phase' = "failed" /\ scope' = Left
        /\ UNCHANGED published

BeginClose == /\ phase = "suspended"
              /\ phase' = "closing"
              /\ UNCHANGED <<scope, busy, published>>

Release == /\ phase = "closing"
           /\ busy' \in BOOLEAN
           /\ UNCHANGED <<phase, scope, published>>

Close == /\ \/ phase \in {"fresh", "failed"}
            \/ phase = "closing" /\ ~busy
         /\ phase' = "closed" /\ scope' = Left
         /\ UNCHANGED <<busy, published>>

Next == Resume \/ Work \/ Enter \/ Suspend \/ Leave \/ Finish \/ Fail
          \/ BeginClose \/ Release \/ Close

Spec == Init /\ [][Next]_vars
=============================================================================
