------------------------------ MODULE Invocation ------------------------------
(* What cc1 promises whoever runs it (docs/sema.md): a complete result and   *)
(* status 0, or diagnostics, no result and status 1.                         *)
CONSTANTS Results, \* the complete results
          Nothing

VARIABLES printed,    \* on the output stream
          complained, \* a diagnostic was shown
          status      \* of the process, "running" before its end

vars == <<printed, complained, status>>

Init == /\ printed = Nothing
        /\ complained = FALSE
        /\ status = "running"

\* There are no diagnostics behind a result.
Complain == /\ status = "running" /\ printed = Nothing
            /\ complained' = TRUE
            /\ UNCHANGED <<printed, status>>

PrintTokens == /\ status = "running" /\ ~complained /\ printed = Nothing
               /\ printed' \in Results
               /\ UNCHANGED <<complained, status>>

Exit == /\ status = "running"
        /\ status' = IF complained THEN "failure" ELSE "success"
        /\ UNCHANGED <<printed, complained>>

Next == Complain \/ PrintTokens \/ Exit

Spec == Init /\ [][Next]_vars
=============================================================================
