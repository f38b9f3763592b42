----------------------------- MODULE MCAuditLog -----------------------------
(* A small instance of the audit log for TLC. *)
EXTENDS AuditLog, TLC

CONSTANTS
    e1, e2, e3, e4,   \* events
    a, b              \* apps

MCEvents  == {e1, e2, e3, e4}
\* Two events in one millisecond, two with the clock set back in between.
MCStampOf == (e1 :> 2) @@ (e2 :> 2) @@ (e3 :> 1) @@ (e4 :> 2)

MCAppOf   == (e1 :> a) @@ (e2 :> a) @@ (e3 :> b) @@ (e4 :> NoApp)
=============================================================================
