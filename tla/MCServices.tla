------------------------------ MODULE MCServices ------------------------------
(* Small instance of Services for TLC. *)
EXTENDS Services, TLC

CONSTANTS c1, c2, c3, scan, other, maintain

MCOf == c1 :> scan @@ c2 :> scan @@ c3 :> other

\* Two tasks of one scan or of two, in an unsteady world, without a runtime of the
\* app's own; one task of a scan, with and without the AI task of a saved report,
\* and a runtime.
MCSetups ==
    {[callers |-> {c1, c2}, retries |-> {}, autostart |-> FALSE, unrest |-> TRUE],
     [callers |-> {c1, c3}, retries |-> {}, autostart |-> FALSE, unrest |-> TRUE],
     [callers |-> {c1}, retries |-> {}, autostart |-> TRUE, unrest |-> FALSE],
     [callers |-> {c1}, retries |-> {other}, autostart |-> TRUE, unrest |-> FALSE]}

==============================================================================
