-------------------------- MODULE SessionLifecycle --------------------------
(***************************************************************************)
(* What the gateway's session store promises its callers: every operation  *)
(* of SessionStore (packages/gateway/src/core/sessions/store.ts) seen as   *)
(* one atomic step on the session requests and the sessions.               *)
(*                                                                         *)
(* In particular an approval resolves the request and opens its one        *)
(* session in a single step, whatever the order in which the real store    *)
(* writes its two documents.  Module SessionStore, where those writes are  *)
(* steps of their own and may fail, is shown to implement this one.        *)
(***************************************************************************)
CONSTANTS
    RequestIds,   \* identifiers a session request can be given (ids.ts)
    SessionIds,   \* identifiers a session can be given (ids.ts)
    NoRequest,    \* session_request_id of a session opened without one
    NoSession     \* session_id of a request that has none

VARIABLES
    requests,     \* the session requests, by id
    sessions      \* the sessions, by id

vars == <<requests, sessions>>

-----------------------------------------------------------------------------
(* Records.  "absent" stands for an id that is no key of the document. *)

Request == [status  : {"absent", "pending", "approved", "denied"},
            session : SessionIds \cup {NoSession}]

Session == [status  : {"absent", "active", "revoked"},
            used    : BOOLEAN,
            request : RequestIds \cup {NoRequest}]

RequestWith(status, session) == [status |-> status, session |-> session]

AbsentRequest  == RequestWith("absent", NoSession)
PendingRequest == RequestWith("pending", NoSession)
DeniedRequest  == RequestWith("denied", NoSession)

AbsentSession == [status |-> "absent", used |-> FALSE, request |-> NoRequest]
NewSession(r) == [status |-> "active", used |-> FALSE, request |-> r]

TypeOK ==
    /\ requests \in [RequestIds -> Request]
    /\ sessions \in [SessionIds -> Session]

-----------------------------------------------------------------------------
Init ==
    /\ requests = [r \in RequestIds |-> AbsentRequest]
    /\ sessions = [s \in SessionIds |-> AbsentSession]

CreateRequest(r) ==
    /\ requests[r].status = "absent"
    /\ requests' = [requests EXCEPT ![r] = PendingRequest]
    /\ UNCHANGED sessions

ApproveRequest(r, s) ==
    /\ requests[r].status = "pending"
    /\ sessions[s].status = "absent"
    /\ requests' = [requests EXCEPT ![r] = RequestWith("approved", s)]
    /\ sessions' = [sessions EXCEPT ![s] = NewSession(r)]

DenyRequest(r) ==
    /\ requests[r].status = "pending"
    /\ requests' = [requests EXCEPT ![r] = DeniedRequest]
    /\ UNCHANGED sessions

\* A session the policy grants without asking the owner.
CreateSession(s) ==
    /\ sessions[s].status = "absent"
    /\ sessions' = [sessions EXCEPT ![s] = NewSession(NoRequest)]
    /\ UNCHANGED requests

RevokeSession(s) ==
    /\ sessions[s].status = "active"
    /\ sessions' = [sessions EXCEPT ![s].status = "revoked"]
    /\ UNCHANGED requests

MarkSessionUsed(s) ==
    /\ sessions[s].status # "absent"
    /\ sessions' = [sessions EXCEPT ![s].used = TRUE]
    /\ UNCHANGED requests

Next ==
    \/ \E r \in RequestIds :
         CreateRequest(r) \/ DenyRequest(r) \/ \E s \in SessionIds : ApproveRequest(r, s)
    \/ \E s \in SessionIds :
         CreateSession(s) \/ RevokeSession(s) \/ MarkSessionUsed(s)

Spec == Init /\ [][Next]_vars

=============================================================================
