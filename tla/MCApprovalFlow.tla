--------------------------- MODULE MCApprovalFlow ---------------------------
(* A small instance of the approval flow for TLC. *)
EXTENDS ApprovalFlow

CONSTANTS
    r1,           \* the session request
    s1, s2        \* sessions

MCRequestIds == {r1}
MCSessionIds == {s1, s2}
MCCallers    == Handles \cup {App, Screen, Console}
=============================================================================
