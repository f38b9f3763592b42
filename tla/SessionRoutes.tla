---------------------------- MODULE SessionRoutes ----------------------------
(***************************************************************************)
(* The gateway's session endpoints                                         *)
(* (packages/gateway/src/server/routes/session.ts) over HTTP: a request    *)
(* travels to the gateway, its handler does one operation of the session   *)
(* store, appends the audit event, and the answer travels back.            *)
(*                                                                         *)
(* The store is its atomic view, SessionLifecycle: SessionStoreProofs      *)
(* shows that the real one implements it.  Handlers interleave between     *)
(* the store operation and the audit event.                                *)
(***************************************************************************)
EXTENDS Naturals, FiniteSets

CONSTANTS
    RequestIds, SessionIds,
    NoRequest, NoSession,
    Callers,      \* the clients that wait for an answer
    Nobody,       \* the caller of a request whose connection broke
    NoId,         \* a call or an event that names no request or session
    MaxFaults     \* bound: broken connections, failing files, crashes

ASSUME RoutesAssumption ==
    /\ NoId \notin RequestIds \cup SessionIds /\ Nobody \notin Callers
    /\ MaxFaults \in Nat

VARIABLES
    requests,     \* session-requests.json
    sessions,     \* sessions.json
    calls,        \* HTTP requests and answers under way
    audit,        \* how often audit.jsonl holds an event: 0, 1 or "many" (2)
    faults        \* faults so far

routeVars == <<requests, sessions, calls, audit, faults>>

Store == INSTANCE SessionLifecycle

-----------------------------------------------------------------------------
(* Calls, answers and audit events *)

Ids == RequestIds \cup SessionIds \cup {NoId}

Operations == {"request", "approve", "deny", "revoke", "detail", "pay"}

\* The `status` or `reason` of the answer's body.  "fault" is a 5xx without a
\* blocked envelope, "network" is fetch rejecting at the caller.
Blocks  == {"SESSION_NOT_FOUND", "INVALID_REQUEST", "POLICY_REFUSAL", "SESSION_REVOKED"}
Answers == Blocks \cup {"none", "pending_approval", "pending", "approved", "denied",
                        "revoked", "forwarded", "fault", "network"}

Answer == [status : Answers, id : Ids]

SaysWithId(status, id) == [status |-> status, id |-> id]
Says(status)           == SaysWithId(status, NoId)

AuditEvent == [event : {"session_requested", "session_approved", "session_denied",
                        "session_revoked"},
               id    : Ids]

Event(name, id) == [event |-> name, id |-> id]

\* A call to be handled ("sent"), with its audit event due ("auditing"), or
\* with its answer under way ("answered").
Call == [by     : Callers \cup {Nobody},
         op     : Operations,
         id     : Ids,
         stage  : {"sent", "auditing", "answered"},
         answer : Answer,
         event  : AuditEvent]

NoEvent == Event("session_requested", NoId)

NewCall(caller, op, id) ==
    [by |-> caller, op |-> op, id |-> id, stage |-> "sent",
     answer |-> Says("none"), event |-> NoEvent]

RoutesTypeOK ==
    /\ Store!TypeOK
    /\ calls \subseteq Call
    /\ audit \in [AuditEvent -> 0..2]
    /\ faults \in 0..MaxFaults

RoutesInit ==
    /\ Store!Init
    /\ calls = {}
    /\ audit = [e \in AuditEvent |-> 0]
    /\ faults = 0

\* The calls after m is answered; an answer for nobody goes nowhere.
Answered(m, answer) ==
    (calls \ {m}) \cup
      (IF m.by = Nobody THEN {}
       ELSE {[m EXCEPT !.stage = "answered", !.answer = answer, !.event = NoEvent]})

Reply(m, answer) == calls' = Answered(m, answer)

AuditThenReply(m, event, answer) ==
    calls' = (calls \ {m}) \cup
               {[m EXCEPT !.stage = "auditing", !.event = event, !.answer = answer]}

-----------------------------------------------------------------------------
(* The handlers *)

Arrived(m, op) == m.stage = "sent" /\ m.op = op

\* newSessionRequestId, newSessionId: some id that is not in use.  Ids are
\* random and mean nothing, so that it does not matter which one it is.
FreshRequestIds == {r \in RequestIds : requests[r].status = "absent"}
FreshSessionIds == {s \in SessionIds : sessions[s].status = "absent"}

\* Bound: a session id is left for every request the owner may still approve.
IdsSuffice ==
    Cardinality(FreshSessionIds) > Cardinality({r \in RequestIds : requests[r].status = "pending"})

Fresh(ids) == IF ids = {} THEN {} ELSE {CHOOSE id \in ids : TRUE}

\* POST /session/request.  What the policy makes of it is SessionGrant's
\* subject: the body is malformed or refused, the owner is asked, or the
\* session is opened at once.
RequestSession(m) ==
    /\ Arrived(m, "request")
    /\ \/ /\ \E refusal \in {"INVALID_REQUEST", "POLICY_REFUSAL"} :
               AuditThenReply(m, NoEvent, Says(refusal))
          /\ UNCHANGED <<requests, sessions>>
       \/ \E r \in Fresh(FreshRequestIds) :
            /\ IdsSuffice
            /\ Store!CreateRequest(r)
            /\ AuditThenReply(m, Event("session_requested", r), SaysWithId("pending_approval", r))
       \/ \E s \in Fresh(FreshSessionIds) :
            /\ IdsSuffice
            /\ Store!CreateSession(s)
            /\ AuditThenReply(m, Event("session_approved", s), SaysWithId("approved", s))
    /\ UNCHANGED <<audit, faults>>

Approve(m) ==
    /\ Arrived(m, "approve")
    /\ \E s \in Fresh(FreshSessionIds) :
         /\ Store!ApproveRequest(m.id, s)
         /\ AuditThenReply(m, Event("session_approved", s), SaysWithId("approved", s))
    /\ UNCHANGED <<audit, faults>>

\* Mutant: denying a request that was resolved before is answered like a denial.
Deny_Idempotent(m) ==
    /\ Arrived(m, "deny")
    /\ IF requests[m.id].status = "pending"
         THEN /\ Store!DenyRequest(m.id)
              /\ AuditThenReply(m, Event("session_denied", m.id), Says("denied"))
         ELSE /\ Reply(m, Says("denied"))
              /\ UNCHANGED <<requests, sessions>>
    /\ UNCHANGED <<audit, faults>>

\* Mutant: the denial is answered without an audit event.
Deny_Unaudited(m) ==
    /\ Arrived(m, "deny")
    /\ Store!DenyRequest(m.id)
    /\ Reply(m, Says("denied"))
    /\ UNCHANGED <<audit, faults>>

Deny(m) ==
    /\ Arrived(m, "deny")
    /\ Store!DenyRequest(m.id)
    /\ AuditThenReply(m, Event("session_denied", m.id), Says("denied"))
    /\ UNCHANGED <<audit, faults>>

\* approveRequest or denyRequest throws: 404 or 409, no audit event.
RefuseResolution(m) ==
    /\ Arrived(m, "approve") \/ Arrived(m, "deny")
    /\ requests[m.id].status # "pending"
    /\ Reply(m, Says(IF requests[m.id].status = "absent"
                       THEN "SESSION_NOT_FOUND" ELSE "INVALID_REQUEST"))
    /\ UNCHANGED <<requests, sessions, audit, faults>>

\* Mutant: a revocation is audited whether or not the session was revoked.
RevokeAgain_Audited(m) ==
    /\ Arrived(m, "revoke")
    /\ sessions[m.id].status = "revoked"
    /\ AuditThenReply(m, Event("session_revoked", m.id), Says("revoked"))
    /\ UNCHANGED <<requests, sessions, audit, faults>>

Revoke(m) ==
    /\ Arrived(m, "revoke")
    /\ Store!RevokeSession(m.id)
    /\ AuditThenReply(m, Event("session_revoked", m.id), Says("revoked"))
    /\ UNCHANGED <<audit, faults>>

\* alreadyRevoked: the answer is the same, nothing is audited.
RevokeAgain(m) ==
    /\ Arrived(m, "revoke")
    /\ sessions[m.id].status = "revoked"
    /\ Reply(m, Says("revoked"))
    /\ UNCHANGED <<requests, sessions, audit, faults>>

\* GET /session/request/:id: the stored status, and the session once approved.
ShowRequest(m) ==
    /\ Arrived(m, "detail")
    /\ LET record == requests[m.id] IN
         Reply(m, CASE record.status = "absent"   -> Says("SESSION_NOT_FOUND")
                    [] record.status = "approved" -> SaysWithId("approved", record.session)
                    [] OTHER                      -> Says(record.status))
    /\ UNCHANGED <<requests, sessions, audit, faults>>

\* POST /intent/pay-invoice as far as a client can tell: module IntentPipeline
\* has the whole of it.
Pay(m) ==
    /\ Arrived(m, "pay")
    /\ Reply(m, Says(IF sessions[m.id].status = "active" THEN "forwarded" ELSE "SESSION_REVOKED"))
    /\ UNCHANGED <<requests, sessions, audit, faults>>

\* Events that name no request or session are not kept.
RecordAudit(m) ==
    /\ m.stage = "auditing"
    /\ audit' = IF m.event.id = NoId THEN audit
                ELSE [audit EXCEPT ![m.event] = IF @ = 2 THEN 2 ELSE @ + 1]
    /\ Reply(m, m.answer)
    /\ UNCHANGED <<requests, sessions, faults>>

Handle(m) ==
    \/ RequestSession(m)
    \/ Approve(m) \/ Deny(m) \/ RefuseResolution(m)
    \/ Revoke(m) \/ RevokeAgain(m)
    \/ ShowRequest(m)
    \/ Pay(m)
    \/ RecordAudit(m)

-----------------------------------------------------------------------------
(* Faults *)

Fault == faults < MaxFaults /\ faults' = faults + 1

\* A store operation throws something other than a SessionStoreError.
StorageFails(m) ==
    /\ Fault
    /\ m.stage = "sent"
    /\ Reply(m, Says("fault"))
    /\ UNCHANGED <<requests, sessions, audit>>

\* audit.record swallows a failing append.
AuditFails(m) ==
    /\ Fault
    /\ m.stage = "auditing"
    /\ Reply(m, m.answer)
    /\ UNCHANGED <<requests, sessions, audit>>

\* The connection breaks.  The gateway may not have got the request yet, or
\* it goes on with it and nobody hears the answer.
ConnectionBreaks(m) ==
    /\ Fault
    /\ m.by # Nobody
    /\ \/ Reply(m, Says("network"))
       \/ /\ m.stage # "answered"
          /\ calls' = Answered(m, Says("network")) \cup {[m EXCEPT !.by = Nobody]}
    /\ UNCHANGED <<requests, sessions, audit>>

\* The process dies and is started again on the same documents.
CrashAndRestart ==
    /\ Fault
    /\ calls' = {IF m.stage = "answered" THEN m
                 ELSE [m EXCEPT !.stage = "answered", !.answer = Says("network"),
                                !.event = NoEvent] :
                 m \in {n \in calls : n.by # Nobody}}
    /\ UNCHANGED <<requests, sessions, audit>>

FaultStep ==
    \/ \E m \in calls : StorageFails(m) \/ AuditFails(m) \/ ConnectionBreaks(m)
    \/ CrashAndRestart

-----------------------------------------------------------------------------
\* What there can be an event about.
Decisions ==
    [event : {"session_requested", "session_denied"}, id : RequestIds]
      \cup [event : {"session_approved", "session_revoked"}, id : SessionIds]

\* What the event says has been done.
Decided(e) ==
    CASE e.event = "session_requested" -> requests[e.id].status # "absent"
      [] e.event = "session_approved"  -> sessions[e.id].status # "absent"
      [] e.event = "session_denied"    -> requests[e.id].status = "denied"
      [] e.event = "session_revoked"   -> sessions[e.id].status = "revoked"

\* The log never claims what the store has not done, and claims no decision
\* twice: one event per request created, approved, denied and per session
\* revoked, whoever asks how often and whatever fails.
AuditMatchesStore ==
    \A e \in AuditEvent : audit[e] > 0 => audit[e] = 1 /\ e \in Decisions /\ Decided(e)

\* While nothing is under way and nothing has failed, every request and every
\* session has the events of all that happened to it.
QuietStoreIsFullyAudited ==
    calls = {} /\ faults = 0 => \A e \in Decisions : Decided(e) => audit[e] = 1

-----------------------------------------------------------------------------
(* The inductive invariant *)

\* A call names what its operation works on, and an event only while it is due.
CallIsTyped(m) ==
    /\ m.op \in {"approve", "deny", "detail"} => m.id \in RequestIds
    /\ m.op \in {"revoke", "pay"} => m.id \in SessionIds
    /\ m.event = NoEvent \/ (m.stage = "auditing" /\ m.event \in Decisions)

CallsAreTyped == \A m \in calls : CallIsTyped(m)

\* Calls that have yet to record an event.
DueTo(e) == {m \in calls : m.stage = "auditing" /\ m.event = e}

\* An event is due, or recorded, only after the fact, to one call, once.
EventsFollowDecisions ==
    /\ \A e \in AuditEvent \ Decisions : audit[e] = 0
    /\ \A e \in Decisions :
         /\ audit[e] # 0 \/ DueTo(e) # {} => Decided(e)
         /\ audit[e] = 0 \/ (audit[e] = 1 /\ DueTo(e) = {})
         /\ \A m, n \in DueTo(e) : m = n

\* Without faults nothing was decided that has no event and will get none.
DecisionsAreAudited ==
    faults = 0 => \A e \in Decisions : Decided(e) => audit[e] = 1 \/ DueTo(e) # {}

ApprovalsHaveSessions ==
    \A r \in RequestIds : requests[r].status = "approved" => requests[r].session \in SessionIds

\* What an answer to m says was done, in the store.
AnswerIsTrue(m, answer) ==
    /\ answer.status = "approved" =>
         /\ answer.id \in SessionIds
         /\ m.op = "request" => /\ sessions[answer.id].status # "absent"
                                /\ sessions[answer.id].request = NoRequest
         /\ m.op # "request" => /\ m.id \in RequestIds
                                /\ requests[m.id] = Store!RequestWith("approved", answer.id)
    /\ answer.status = "denied" => m.id \in RequestIds /\ requests[m.id].status = "denied"
    /\ answer.status = "pending_approval" => answer.id \in RequestIds

AnswersAreTrue == \A m \in calls : m.stage # "sent" => AnswerIsTrue(m, m.answer)

RoutesInv ==
    /\ RoutesTypeOK
    /\ CallsAreTyped
    /\ EventsFollowDecisions
    /\ DecisionsAreAudited
    /\ ApprovalsHaveSessions
    /\ AnswersAreTrue
=============================================================================
