---------------------------- MODULE SessionStore ----------------------------
(***************************************************************************)
(* The session store of the gateway, step by step                          *)
(* (packages/gateway/src/core/sessions/store.ts).                          *)
(*                                                                         *)
(* Two JSON documents on disk, session-requests.json and sessions.json,    *)
(* are each read whole and written back whole.  The HTTP handlers call the *)
(* store concurrently; the store chains their operations on one promise    *)
(* queue (serialize), so an operation starts when all earlier ones have    *)
(* settled, successfully or not.  Inside an operation every read and every *)
(* write of a document is awaited: it is a step of its own here, a write   *)
(* can fail (the temporary file is then never renamed into place, so the   *)
(* document on disk keeps its old content) and the process can crash       *)
(* between any two steps, which loses the queue and keeps the documents.   *)
(*                                                                         *)
(* Left out: what a session grants (module SessionGrant), the time it      *)
(* expires and its approval type (module IntentDecision), the timestamps.  *)
(***************************************************************************)
EXTENDS Naturals, Sequences, FiniteSets

CONSTANTS
    Handlers,     \* HTTP handlers that can be inside a store call at a time
    RequestIds, SessionIds, NoRequest, NoSession,
    MaxFaults     \* bound: storage failures and crashes in one behaviour

ASSUME StoreAssumption ==
    /\ IsFiniteSet(Handlers)
    /\ IsFiniteSet(RequestIds)
    /\ IsFiniteSet(SessionIds)
    /\ NoRequest \notin RequestIds
    /\ NoSession \notin SessionIds
    /\ MaxFaults \in Nat

VARIABLES
    requests,     \* session-requests.json on disk
    sessions,     \* sessions.json on disk
    queue,        \* the promise chain: handlers in the order they called
    pc,           \* where each handler's operation stands
    job,          \* the operation each handler asked for last
    requestsCopy, \* the `document` of session-requests.json an operation holds
    sessionsCopy, \* the `document` of sessions.json an operation holds
    reply,        \* how each handler's last operation settled
    faults        \* storage failures and crashes so far

documents == <<requests, sessions>>
copies    == <<requestsCopy, sessionsCopy>>
vars      == <<requests, sessions, queue, pc, job, copies, reply, faults>>

\* The atomic view of the store: shared record shapes and, below, the
\* specification this module implements.
Shape == INSTANCE SessionLifecycle

-----------------------------------------------------------------------------
Ops == {"createRequest", "approve", "deny", "createSession", "revoke", "markUsed"}

\* The ids an operation is about.  Until the operation draws a fresh id, the
\* id it will create is NoRequest or NoSession.
Job == [op      : Ops,
        request : RequestIds \cup {NoRequest},
        session : SessionIds \cup {NoSession}]

JobOf(op, r, s) == [op |-> op, request |-> r, session |-> s]

Steps   == {"idle", "queued", "insert", "writeSessions", "writeRequests"}
Replies == {"none", "ok", "not_found", "already_resolved", "already_revoked",
            "storage_error", "lost"}

Busy == {h \in Handlers : pc[h] # "idle"}

\* Operations that have begun (serialize has called them).
Running == {h \in Handlers : pc[h] \notin {"idle", "queued"}}

FreeRequestIds == {r \in RequestIds : requests[r].status = "absent"}
FreeSessionIds == {s \in SessionIds : sessions[s].status = "absent"}

TypeOK ==
    /\ requests \in [RequestIds -> Shape!Request]
    /\ sessions \in [SessionIds -> Shape!Session]
    /\ queue \in Seq(Handlers)
    /\ pc \in [Handlers -> Steps]
    /\ job \in [Handlers -> Job]
    /\ requestsCopy \in [Handlers -> [RequestIds -> Shape!Request]]
    /\ sessionsCopy \in [Handlers -> [SessionIds -> Shape!Session]]
    /\ reply \in [Handlers -> Replies]
    /\ faults \in 0..MaxFaults

-----------------------------------------------------------------------------
\* JsonStore's fallback for a document that does not exist yet.
NoRequests == [r \in RequestIds |-> Shape!AbsentRequest]
NoSessions == [s \in SessionIds |-> Shape!AbsentSession]

Init ==
    /\ requests = NoRequests
    /\ sessions = NoSessions
    /\ queue = <<>>
    /\ pc = [h \in Handlers |-> "idle"]
    /\ job = [h \in Handlers |-> JobOf("createRequest", NoRequest, NoSession)]
    /\ requestsCopy = [h \in Handlers |-> NoRequests]
    /\ sessionsCopy = [h \in Handlers |-> NoSessions]
    /\ reply = [h \in Handlers |-> "none"]
    /\ faults = 0

(***************************************************************************)
(* The calls a route can make.  The owner or the SDK may name any id, also *)
(* one that is unknown or whose request is resolved.  Bound: a call that   *)
(* will draw a fresh id is made only while the bounded id sets still hold  *)
(* one for it (the code's UUIDs never run out).                            *)
(***************************************************************************)
Draws(ops) == Cardinality({h \in Busy : job[h].op \in ops})

Calls ==
    {JobOf(op, r, NoSession) : op \in {"approve", "deny"}, r \in RequestIds}
    \cup {JobOf(op, NoRequest, s) : op \in {"revoke", "markUsed"}, s \in SessionIds}
    \cup {JobOf(op, NoRequest, NoSession) : op \in {"createRequest", "createSession"}}

IdsSuffice(j) ==
    /\ j.op = "createRequest" =>
         Draws({"createRequest"}) < Cardinality(FreeRequestIds)
    /\ j.op \in {"approve", "createSession"} =>
         Draws({"approve", "createSession"}) < Cardinality(FreeSessionIds)

\* serialize: queue.then(operation, operation)
Submit(h, j) ==
    /\ pc[h] = "idle"
    /\ IdsSuffice(j)
    /\ queue' = Append(queue, h)
    /\ pc' = [pc EXCEPT ![h] = "queued"]
    /\ job' = [job EXCEPT ![h] = j]
    /\ reply' = [reply EXCEPT ![h] = "none"]
    /\ UNCHANGED <<documents, copies, faults>>

\* Mutant: the store calls its operations at once instead of chaining them.
AtHead_Unserialized(h) == pc[h] # "idle"

\* Only the operation at the head of the chain runs.
AtHead(h) == queue # <<>> /\ Head(queue) = h

Starts(h, op) == AtHead(h) /\ pc[h] = "queued" /\ job[h].op = op

\* Mutant: a rejected operation leaves the chain rejected.
Settle_StuckOnFailure(h, outcome) ==
    /\ queue' = IF outcome = "storage_error" THEN queue ELSE Tail(queue)
    /\ pc' = [pc EXCEPT ![h] = "idle"]
    /\ reply' = [reply EXCEPT ![h] = outcome]
    /\ requestsCopy' = [requestsCopy EXCEPT ![h] = NoRequests]
    /\ sessionsCopy' = [sessionsCopy EXCEPT ![h] = NoSessions]

\* The operation settles, its documents go out of scope and the next one in
\* the chain may begin.
Settle(h, outcome) ==
    /\ queue' = Tail(queue)
    /\ pc' = [pc EXCEPT ![h] = "idle"]
    /\ reply' = [reply EXCEPT ![h] = outcome]
    /\ requestsCopy' = [requestsCopy EXCEPT ![h] = NoRequests]
    /\ sessionsCopy' = [sessionsCopy EXCEPT ![h] = NoSessions]

Proceed(h, step) ==
    /\ pc' = [pc EXCEPT ![h] = step]
    /\ UNCHANGED <<queue, reply>>

-----------------------------------------------------------------------------
(* Operations on session-requests.json *)

\* Mutant: a new request may take the id of an existing one.
CreateRequest_ReusesId(h) ==
    /\ Starts(h, "createRequest")
    /\ \E r \in RequestIds :
         /\ job' = [job EXCEPT ![h].request = r]
         /\ requestsCopy' =
              [requestsCopy EXCEPT ![h] = [requests EXCEPT ![r] = Shape!PendingRequest]]
    /\ Proceed(h, "writeRequests")
    /\ UNCHANGED <<documents, sessionsCopy, faults>>

CreateRequest(h) ==
    /\ Starts(h, "createRequest")
    /\ \E r \in FreeRequestIds :
         /\ job' = [job EXCEPT ![h].request = r]
         /\ requestsCopy' =
              [requestsCopy EXCEPT ![h] = [requests EXCEPT ![r] = Shape!PendingRequest]]
    /\ Proceed(h, "writeRequests")
    /\ UNCHANGED <<documents, sessionsCopy, faults>>

\* approveRequest and denyRequest: unknown or resolved requests are refused.
RefuseResolution(h) ==
    /\ Starts(h, "approve") \/ Starts(h, "deny")
    /\ LET status == requests[job[h].request].status IN
         /\ status # "pending"
         /\ Settle(h, IF status = "absent" THEN "not_found" ELSE "already_resolved")
    /\ UNCHANGED <<documents, job, faults>>

BeginApproval(h) ==
    /\ Starts(h, "approve")
    /\ requests[job[h].request].status = "pending"
    /\ requestsCopy' = [requestsCopy EXCEPT ![h] = requests]
    /\ Proceed(h, "insert")
    /\ UNCHANGED <<documents, job, sessionsCopy, faults>>

\* Mutant: an approved request can still be denied.
DenyRequest_AfterApproval(h) ==
    /\ Starts(h, "deny")
    /\ requests[job[h].request].status \in {"pending", "approved"}
    /\ requestsCopy' =
         [requestsCopy EXCEPT ![h] = [requests EXCEPT ![job[h].request] = Shape!DeniedRequest]]
    /\ Proceed(h, "writeRequests")
    /\ UNCHANGED <<documents, job, sessionsCopy, faults>>

DenyRequest(h) ==
    /\ Starts(h, "deny")
    /\ requests[job[h].request].status = "pending"
    /\ requestsCopy' =
         [requestsCopy EXCEPT ![h] = [requests EXCEPT ![job[h].request] = Shape!DeniedRequest]]
    /\ Proceed(h, "writeRequests")
    /\ UNCHANGED <<documents, job, sessionsCopy, faults>>

WriteRequests(h) ==
    /\ AtHead(h)
    /\ pc[h] = "writeRequests"
    /\ requests' = requestsCopy[h]
    /\ Settle(h, "ok")
    /\ UNCHANGED <<sessions, job, faults>>

-----------------------------------------------------------------------------
(* Operations on sessions.json *)

\* Mutant: the session does not record which request it answers.
InsertSession_Unlinked(h) ==
    /\ Starts(h, "createSession") \/ (AtHead(h) /\ pc[h] = "insert")
    /\ \E s \in FreeSessionIds :
         /\ job' = [job EXCEPT ![h].session = s]
         /\ sessionsCopy' =
              [sessionsCopy EXCEPT ![h] = [sessions EXCEPT ![s] = Shape!NewSession(NoRequest)]]
    /\ Proceed(h, "writeSessions")
    /\ UNCHANGED <<documents, requestsCopy, faults>>

\* insertSession, on its own (createSession) or inside approveRequest.
InsertSession(h) ==
    /\ Starts(h, "createSession") \/ (AtHead(h) /\ pc[h] = "insert")
    /\ \E s \in FreeSessionIds :
         /\ job' = [job EXCEPT ![h].session = s]
         /\ sessionsCopy' =
              [sessionsCopy EXCEPT
                 ![h] = [sessions EXCEPT ![s] = Shape!NewSession(job[h].request)]]
    /\ Proceed(h, "writeSessions")
    /\ UNCHANGED <<documents, requestsCopy, faults>>

\* Mutant: the revocation is acknowledged and never written.
RevokeSession_Unwritten(h) ==
    /\ Starts(h, "revoke")
    /\ sessions[job[h].session].status = "active"
    /\ Settle(h, "ok")
    /\ UNCHANGED <<documents, job, faults>>

RevokeSession(h) ==
    /\ Starts(h, "revoke")
    /\ sessions[job[h].session].status = "active"
    /\ sessionsCopy' =
         [sessionsCopy EXCEPT ![h] = [sessions EXCEPT ![job[h].session].status = "revoked"]]
    /\ Proceed(h, "writeSessions")
    /\ UNCHANGED <<documents, job, requestsCopy, faults>>

MarkSessionUsed(h) ==
    /\ Starts(h, "markUsed")
    /\ sessions[job[h].session].status # "absent"
    /\ sessionsCopy' =
         [sessionsCopy EXCEPT ![h] = [sessions EXCEPT ![job[h].session].used = TRUE]]
    /\ Proceed(h, "writeSessions")
    /\ UNCHANGED <<documents, job, requestsCopy, faults>>

\* Unknown sessions are refused; revoking twice succeeds without a write.
RefuseSessionChange(h) ==
    /\ Starts(h, "revoke") \/ Starts(h, "markUsed")
    /\ LET status == sessions[job[h].session].status IN
         \/ status = "absent" /\ Settle(h, "not_found")
         \/ status = "revoked" /\ job[h].op = "revoke" /\ Settle(h, "already_revoked")
    /\ UNCHANGED <<documents, job, faults>>

\* An approval goes on to mark its request, in the document it read first.
WriteSessions(h) ==
    /\ AtHead(h)
    /\ pc[h] = "writeSessions"
    /\ sessions' = sessionsCopy[h]
    /\ IF job[h].op = "approve"
         THEN /\ requestsCopy' =
                   [requestsCopy EXCEPT ![h][job[h].request] =
                      Shape!RequestWith("approved", job[h].session)]
              /\ Proceed(h, "writeRequests")
              /\ UNCHANGED sessionsCopy
         ELSE Settle(h, "ok")
    /\ UNCHANGED <<requests, job, faults>>

-----------------------------------------------------------------------------
(* Faults *)

\* A read or a write of a document throws; the operation is rejected and the
\* chain goes on with the next one (serialize passes both outcomes on).
StorageFails(h) ==
    /\ AtHead(h)
    /\ faults < MaxFaults
    /\ faults' = faults + 1
    /\ Settle(h, "storage_error")
    /\ UNCHANGED <<documents, job>>

\* The process dies and is started again on the same data directory.
CrashAndRestart ==
    /\ faults < MaxFaults
    /\ faults' = faults + 1
    /\ queue' = <<>>
    /\ pc' = [h \in Handlers |-> "idle"]
    /\ reply' = [h \in Handlers |-> IF h \in Busy THEN "lost" ELSE reply[h]]
    /\ requestsCopy' = [h \in Handlers |-> NoRequests]
    /\ sessionsCopy' = [h \in Handlers |-> NoSessions]
    /\ UNCHANGED <<documents, job>>

-----------------------------------------------------------------------------
Step(h) ==
    \/ CreateRequest(h)
    \/ RefuseResolution(h)
    \/ BeginApproval(h)
    \/ DenyRequest(h)
    \/ WriteRequests(h)
    \/ InsertSession(h)
    \/ RevokeSession(h)
    \/ MarkSessionUsed(h)
    \/ RefuseSessionChange(h)
    \/ WriteSessions(h)

Next ==
    \/ \E h \in Handlers : \E j \in Calls : Submit(h, j)
    \/ \E h \in Handlers : Step(h)
    \/ \E h \in Handlers : StorageFails(h)
    \/ CrashAndRestart

Spec == Init /\ [][Next]_vars

\* Node runs the promise chain and file I/O completes, one way or the other.
FairSpec == Spec /\ WF_vars(\E h \in Handlers : Step(h))

-----------------------------------------------------------------------------
(* Safety *)

\* The document an operation is about to write back is the one on disk with
\* that operation's own change and no other: no update of another handler is
\* ever overwritten with a stale copy (what serialize is there for).
RequestsAfter(j) ==
    [requests EXCEPT ![j.request] =
       CASE j.op = "createRequest" -> Shape!PendingRequest
         [] j.op = "approve"       -> Shape!RequestWith("approved", j.session)
         [] OTHER                  -> Shape!DeniedRequest]

SessionsAfter(j) ==
    [sessions EXCEPT ![j.session] =
       CASE j.op = "revoke"   -> [@ EXCEPT !.status = "revoked"]
         [] j.op = "markUsed" -> [@ EXCEPT !.used = TRUE]
         [] OTHER             -> Shape!NewSession(j.request)]

NoLostUpdate ==
    \A h \in Handlers :
      /\ pc[h] = "writeRequests" => requestsCopy[h] = RequestsAfter(job[h])
      /\ pc[h] = "writeSessions" => sessionsCopy[h] = SessionsAfter(job[h])

\* The SDK polls the request and adopts the session it names; that session is
\* there, and is this request's own, at every moment an unqueued reader can
\* look, also after a crash between the two writes of an approval.
ApprovedRequestHasItsSession ==
    \A r \in RequestIds :
      requests[r].status = "approved" =>
        /\ requests[r].session \in SessionIds
        /\ sessions[requests[r].session].status # "absent"
        /\ sessions[requests[r].session].request = r

\* What a handler has acknowledged stays true, whatever is submitted, fails
\* or crashes afterwards.
AcknowledgedIsDurable ==
    \A h \in Handlers :
      reply[h] = "ok" =>
        LET j == job[h] IN
          CASE j.op = "createRequest" -> requests[j.request].status # "absent"
            [] j.op = "approve"       -> /\ requests[j.request] = Shape!RequestWith("approved", j.session)
                                         /\ sessions[j.session].request = j.request
            [] j.op = "deny"          -> requests[j.request] = Shape!DeniedRequest
            [] j.op = "createSession" -> sessions[j.session].status # "absent"
            [] j.op = "revoke"        -> sessions[j.session].status = "revoked"
            [] j.op = "markUsed"      -> sessions[j.session].used

\* Only the head of the queue has begun.
OneOperationRuns == \A h \in Running : AtHead(h)

\* What an operation has established by the step it has reached: the ids it
\* works on and the state, still true on disk, of the records it found there.
OperationsAreSound ==
    \A h \in Handlers :
      LET j == job[h] IN
        /\ pc[h] = "queued" => j \in Calls
        /\ pc[h] = "insert" => j.op = "approve"
        /\ pc[h] = "writeSessions" =>
             /\ j.op \in {"approve", "createSession", "revoke", "markUsed"}
             /\ j.session \in SessionIds
             /\ j.op \in {"approve", "createSession"} => sessions[j.session].status = "absent"
             /\ j.op = "createSession" => j.request = NoRequest
             /\ j.op = "revoke" => sessions[j.session].status = "active"
             /\ j.op = "markUsed" => sessions[j.session].status # "absent"
        /\ pc[h] \in {"insert", "writeSessions"} /\ j.op = "approve" =>
             /\ j.request \in RequestIds
             /\ requests[j.request] = Shape!PendingRequest
             /\ requestsCopy[h] = requests
        /\ pc[h] = "writeRequests" =>
             /\ j.op \in {"createRequest", "approve", "deny"}
             /\ j.request \in RequestIds
             /\ j.op = "createRequest" => requests[j.request].status = "absent"
             /\ j.op # "createRequest" => requests[j.request] = Shape!PendingRequest
             /\ j.op = "approve" => /\ j.session \in SessionIds
                                    /\ sessions[j.session] = Shape!NewSession(j.request)

\* A request names a session only once it is approved, and a record that is
\* absent carries nothing.
RecordsAreWellFormed ==
    /\ \A r \in RequestIds :
         requests[r].status # "approved" => requests[r].session = NoSession
    /\ \A s \in SessionIds :
         sessions[s].status = "absent" => sessions[s] = Shape!AbsentSession

\* The inductive invariant of the store.
StoreInv ==
    /\ TypeOK
    /\ OneOperationRuns
    /\ OperationsAreSound
    /\ NoLostUpdate
    /\ RecordsAreWellFormed
    /\ ApprovedRequestHasItsSession

\* docs/policy-model.md: a denied request creates no session.
DeniedRequestHasNoSession ==
    \A r \in RequestIds :
      requests[r].status = "denied" =>
        \A s \in SessionIds : sessions[s].status = "active" => sessions[s].request # r

-----------------------------------------------------------------------------
(* Steps *)

\* No step un-revokes or un-consumes a session, gives it to another request
\* or removes it; no step resolves a request again.
OnlyForward ==
    /\ \A s \in SessionIds :
         /\ sessions[s].status = "revoked" => sessions'[s].status = "revoked"
         /\ sessions[s].used => sessions'[s].used
         /\ sessions[s].status # "absent" =>
              sessions'[s].status # "absent" /\ sessions'[s].request = sessions[s].request
    /\ \A r \in RequestIds :
         /\ requests[r].status \in {"approved", "denied"} => requests'[r] = requests[r]
         /\ requests[r].status # "absent" => requests'[r].status # "absent"

SessionsAndRequestsOnlyMoveForward == [][OnlyForward]_vars

-----------------------------------------------------------------------------
(* Liveness *)

\* Every call of the store settles, also when the operations queued before
\* it fail.
EveryCallSettles == \A h \in Handlers : pc[h] = "queued" ~> pc[h] = "idle"

-----------------------------------------------------------------------------
(* Refinement.  A session that names a request becomes visible when the    *)
(* request names it back, so an approval takes effect with the second of   *)
(* its two writes; one that was cut short leaves the request pending and a *)
(* session the atomic view does not have.                                  *)

IsLinked(s) ==
    \/ sessions[s].request = NoRequest
    \/ requests[sessions[s].request].session = s

LinkedSessions ==
    [s \in SessionIds |-> IF IsLinked(s) THEN sessions[s] ELSE Shape!AbsentSession]

Lifecycle == INSTANCE SessionLifecycle WITH sessions <- LinkedSessions

\* To its callers the store behaves as if every operation were atomic.
ImplementsLifecycle == Lifecycle!Spec
=============================================================================
