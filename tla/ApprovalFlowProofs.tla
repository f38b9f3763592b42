------------------------- MODULE ApprovalFlowProofs -------------------------
(***************************************************************************)
(* Theorems about the session routes and their clients, for any number of  *)
(* handles, requests, sessions, calls under way and faults.                *)
(***************************************************************************)
EXTENDS ApprovalFlow, TLAPS

-----------------------------------------------------------------------------
(* The store under the routes *)

\* What was decided stays decided, and a resolved request or an open session
\* keeps what it was given.
StoreMovesOn ==
    /\ Store!TypeOK'
    /\ ApprovalsHaveSessions'
    /\ \A r \in RequestIds :
         /\ requests[r].status # "absent" => requests'[r].status # "absent"
         /\ requests[r].status \in {"approved", "denied"} => requests'[r] = requests[r]
    /\ \A s \in SessionIds :
         /\ sessions[s].status # "absent" =>
              sessions'[s].status # "absent" /\ sessions'[s].request = sessions[s].request
         /\ sessions[s].status = "revoked" => sessions'[s].status = "revoked"

\* The operation decided e and nothing else.
Decides(e) ==
    /\ e \in Decisions /\ ~Decided(e) /\ Decided(e)'
    /\ \A d \in Decisions \ {e} : Decided(d)' => Decided(d)

LEMMA FreshOnes ==
    ASSUME NEW ids
    PROVE  Fresh(ids) \subseteq ids
BY DEF Fresh

LEMMA DecisionsStay ==
    ASSUME StoreMovesOn
    PROVE  /\ \A e \in Decisions : Decided(e) => Decided(e)'
           /\ \A m, answer : AnswerIsTrue(m, answer) => AnswerIsTrue(m, answer)'
<1>1. ASSUME NEW e \in Decisions, Decided(e)
      PROVE  Decided(e)'
  BY <1>1 DEF StoreMovesOn, Decisions, Decided
<1>2. ASSUME NEW m, NEW answer, AnswerIsTrue(m, answer)
      PROVE  AnswerIsTrue(m, answer)'
  BY <1>2 DEF StoreMovesOn, AnswerIsTrue, Store!RequestWith
<1> QED BY <1>1, <1>2

LEMMA EventsAreRecords ==
    ASSUME NEW d \in Decisions
    PROVE  /\ d \in AuditEvent /\ d = Event(d.event, d.id) /\ d.id # NoId /\ d # NoEvent
           /\ d.event \in {"session_requested", "session_denied"} => d.id \in RequestIds
           /\ d.event \in {"session_approved", "session_revoked"} => d.id \in SessionIds
           /\ d.event \in {"session_requested", "session_denied",
                           "session_approved", "session_revoked"}
BY RoutesAssumption DEF Decisions, AuditEvent, Event, NoEvent, Ids

LEMMA OnlyDecides ==
    ASSUME NEW e \in Decisions, ~Decided(e), Decided(e)',
           \A r \in RequestIds :
             /\ e # Event("session_requested", r) /\ requests'[r].status # "absent" =>
                  requests[r].status # "absent"
             /\ e # Event("session_denied", r) /\ requests'[r].status = "denied" =>
                  requests[r].status = "denied",
           \A s \in SessionIds :
             /\ e # Event("session_approved", s) /\ sessions'[s].status # "absent" =>
                  sessions[s].status # "absent"
             /\ e # Event("session_revoked", s) /\ sessions'[s].status = "revoked" =>
                  sessions[s].status = "revoked"
    PROVE  Decides(e)
<1> SUFFICES ASSUME NEW d \in Decisions \ {e}, Decided(d)'
             PROVE  Decided(d)
  BY DEF Decides
<1> USE EventsAreRecords
<1>1. CASE d.event = "session_requested"
  BY <1>1 DEF Decided
<1>2. CASE d.event = "session_denied"
  BY <1>2 DEF Decided
<1>3. CASE d.event = "session_approved"
  BY <1>3 DEF Decided
<1>4. CASE d.event = "session_revoked"
  BY <1>4 DEF Decided
<1> QED BY <1>1, <1>2, <1>3, <1>4

LEMMA EventsDiffer ==
    ASSUME NEW a, NEW b, NEW i, NEW j, a # b \/ i # j
    PROVE  Event(a, i) # Event(b, j)
BY DEF Event

LEMMA CreateRequestDecides ==
    ASSUME RoutesInv, NEW r \in RequestIds, Store!CreateRequest(r)
    PROVE  /\ StoreMovesOn
           /\ Decides(Event("session_requested", r))
<1> USE DEF RoutesInv, RoutesTypeOK, Store!TypeOK, Store!CreateRequest, Store!PendingRequest,
            Store!RequestWith
<1>1. StoreMovesOn
  BY DEF StoreMovesOn, ApprovalsHaveSessions, Store!Request, Store!Session
<1>2. Event("session_requested", r) \in Decisions
  BY DEF Decisions, Event
<1>3. ~Decided(Event("session_requested", r)) /\ Decided(Event("session_requested", r))'
  BY DEF Decided, Event
<1>4. Decides(Event("session_requested", r))
  BY <1>2, <1>3, OnlyDecides, EventsDiffer
<1> QED BY <1>1, <1>4

LEMMA DenyRequestDecides ==
    ASSUME RoutesInv, NEW r \in RequestIds, Store!DenyRequest(r)
    PROVE  /\ StoreMovesOn
           /\ Decides(Event("session_denied", r))
           /\ requests'[r].status = "denied"
<1> USE DEF RoutesInv, RoutesTypeOK, Store!TypeOK, Store!DenyRequest, Store!DeniedRequest,
            Store!RequestWith
<1>1. StoreMovesOn
  BY DEF StoreMovesOn, ApprovalsHaveSessions, Store!Request, Store!Session
<1>2. Event("session_denied", r) \in Decisions
  BY DEF Decisions, Event
<1>3. ~Decided(Event("session_denied", r)) /\ Decided(Event("session_denied", r))'
  BY DEF Decided, Event
<1>4. Decides(Event("session_denied", r))
  BY <1>2, <1>3, OnlyDecides, EventsDiffer
<1>5. requests'[r].status = "denied"
  OBVIOUS
<1> QED BY <1>1, <1>4, <1>5

LEMMA CreateSessionDecides ==
    ASSUME RoutesInv, NEW s \in SessionIds, Store!CreateSession(s)
    PROVE  /\ StoreMovesOn
           /\ Decides(Event("session_approved", s))
           /\ sessions'[s].status # "absent" /\ sessions'[s].request = NoRequest
<1> USE DEF RoutesInv, RoutesTypeOK, Store!TypeOK, Store!CreateSession, Store!NewSession
<1>1. StoreMovesOn
  BY DEF StoreMovesOn, ApprovalsHaveSessions, Store!Request, Store!Session
<1>2. Event("session_approved", s) \in Decisions
  BY DEF Decisions, Event
<1>3. ~Decided(Event("session_approved", s)) /\ Decided(Event("session_approved", s))'
  BY DEF Decided, Event
<1>4. Decides(Event("session_approved", s))
  BY <1>2, <1>3, OnlyDecides, EventsDiffer
<1>5. sessions'[s].status # "absent" /\ sessions'[s].request = NoRequest
  OBVIOUS
<1> QED BY <1>1, <1>4, <1>5

LEMMA ApproveRequestDecides ==
    ASSUME RoutesInv, NEW r \in RequestIds, NEW s \in SessionIds, Store!ApproveRequest(r, s)
    PROVE  /\ StoreMovesOn
           /\ Decides(Event("session_approved", s))
           /\ requests'[r] = Store!RequestWith("approved", s)
<1> USE DEF RoutesInv, RoutesTypeOK, Store!TypeOK, Store!ApproveRequest, Store!NewSession,
            Store!RequestWith
<1>1. StoreMovesOn
  BY DEF StoreMovesOn, ApprovalsHaveSessions, Store!Request, Store!Session
<1>2. Event("session_approved", s) \in Decisions
  BY DEF Decisions, Event
<1>3. ~Decided(Event("session_approved", s)) /\ Decided(Event("session_approved", s))'
  BY DEF Decided, Event
<1>4. Decides(Event("session_approved", s))
  BY <1>2, <1>3, OnlyDecides, EventsDiffer
<1>5. requests'[r] = Store!RequestWith("approved", s)
  OBVIOUS
<1> QED BY <1>1, <1>4, <1>5

LEMMA RevokeSessionDecides ==
    ASSUME RoutesInv, NEW s \in SessionIds, Store!RevokeSession(s)
    PROVE  /\ StoreMovesOn
           /\ Decides(Event("session_revoked", s))
<1> USE DEF RoutesInv, RoutesTypeOK, Store!TypeOK, Store!RevokeSession
<1>1. StoreMovesOn
  BY DEF StoreMovesOn, ApprovalsHaveSessions, Store!Request, Store!Session
<1>2. Event("session_revoked", s) \in Decisions
  BY DEF Decisions, Event
<1>3. ~Decided(Event("session_revoked", s)) /\ Decided(Event("session_revoked", s))'
  BY DEF Decided, Event, Store!Session
<1>4. Decides(Event("session_revoked", s))
  BY <1>2, <1>3, OnlyDecides, EventsDiffer DEF Store!Session
<1> QED BY <1>1, <1>4

-----------------------------------------------------------------------------
(* Calls *)

\* n is what became of the call m.
Continues(n, m) ==
    /\ n.by \in {m.by, Nobody}
    /\ n.op = m.op /\ n.id = m.id

LEMMA CallsStaySound ==
    ASSUME RoutesInv, StoreMovesOn,
           \A n \in calls' \ calls : /\ n \in Call /\ CallIsTyped(n)
                                     /\ n.stage # "sent" => AnswerIsTrue(n, n.answer)'
    PROVE  calls' \subseteq Call /\ CallsAreTyped' /\ AnswersAreTrue' /\ ApprovalsHaveSessions'
<1>1. calls' \subseteq Call
  BY DEF RoutesInv, RoutesTypeOK
<1>2. CallsAreTyped'
  BY DEF RoutesInv, CallsAreTyped, CallIsTyped
<1>3. AnswersAreTrue'
  <2> SUFFICES ASSUME NEW m \in calls', m.stage # "sent"
               PROVE  AnswerIsTrue(m, m.answer)'
    BY DEF AnswersAreTrue
  <2>1. CASE m \in calls
    BY <2>1, DecisionsStay DEF RoutesInv, AnswersAreTrue
  <2>2. CASE m \notin calls
    BY <2>2
  <2> QED BY <2>1, <2>2
<1> QED BY <1>1, <1>2, <1>3 DEF StoreMovesOn

\* The answers a handler gives are typed and true.
LEMMA AnsweredCall ==
    ASSUME NEW m \in Call, CallIsTyped(m), NEW answer \in Answer,
           NEW n, n = [m EXCEPT !.stage = "answered", !.answer = answer, !.event = NoEvent]
    PROVE  /\ n \in Call /\ CallIsTyped(n) /\ Continues(n, m)
           /\ n.by = m.by /\ n.stage = "answered" /\ n.answer = answer
BY DEF Call, CallIsTyped, Continues, AuditEvent, NoEvent, Event, Ids

LEMMA AbandonedCall ==
    ASSUME NEW m \in Call, CallIsTyped(m), NEW n, n = [m EXCEPT !.by = Nobody]
    PROVE  /\ n \in Call /\ CallIsTyped(n) /\ Continues(n, m)
           /\ n.by = Nobody /\ n.stage = m.stage /\ n.answer = m.answer /\ n.event = m.event
BY DEF Call, CallIsTyped, Continues

LEMMA DueAfter ==
    ASSUME NEW m, NEW N, calls' = (calls \ {m}) \cup N, NEW e
    PROVE  DueTo(e)' = (DueTo(e) \ {m}) \cup {n \in N : n.stage = "auditing" /\ n.event = e}
BY DEF DueTo

\* An answer is true or not whatever became of the call, and of an answer that
\* claims nothing.
LEMMA AnswersOfContinuations ==
    ASSUME NEW m, NEW n, n.op = m.op, n.id = m.id, NEW answer
    PROVE  /\ AnswerIsTrue(m, answer) => AnswerIsTrue(n, answer)
           /\ AnswerIsTrue(m, answer)' => AnswerIsTrue(n, answer)'
BY DEF AnswerIsTrue

LEMMA EmptyAnswers ==
    ASSUME NEW m, NEW status \in Answers \ {"approved", "denied", "pending_approval"}
    PROVE  /\ Says(status) \in Answer
           /\ AnswerIsTrue(m, Says(status)) /\ AnswerIsTrue(m, Says(status))'
BY DEF Says, SaysWithId, Answer, Ids, AnswerIsTrue

-----------------------------------------------------------------------------
(* What a handler's step can be *)

\* Store operation, answer and the event it owes.
DecidingStep(m, e, answer) ==
    /\ m.stage = "sent"
    /\ StoreMovesOn /\ Decides(e)
    /\ answer \in Answer /\ AnswerIsTrue(m, answer)'
    /\ AuditThenReply(m, e, answer)
    /\ UNCHANGED <<audit, faults>>

\* An answer that rests on what the store holds; a refused request is audited
\* with an event that names nothing.
AnsweringStep(m, answer) ==
    /\ m.stage = "sent"
    /\ answer \in Answer /\ AnswerIsTrue(m, answer)
    /\ Reply(m, answer) \/ AuditThenReply(m, NoEvent, answer)
    /\ UNCHANGED <<requests, sessions, audit, faults>>

LEMMA HandlerKinds ==
    ASSUME RoutesInv, NEW m \in calls, Handle(m)
    PROVE  \/ \E e \in Decisions, answer \in Answer : DecidingStep(m, e, answer)
           \/ \E answer \in Answer : AnsweringStep(m, answer)
           \/ RecordAudit(m)
<1>1. m \in Call /\ CallIsTyped(m)
  BY DEF RoutesInv, RoutesTypeOK, CallsAreTyped
<1>2. CASE RequestSession(m)
  <2>1. ASSUME NEW refusal \in {"INVALID_REQUEST", "POLICY_REFUSAL"},
               AuditThenReply(m, NoEvent, Says(refusal)),
               UNCHANGED <<requests, sessions>>
        PROVE  AnsweringStep(m, Says(refusal))
    <3>1. refusal \in Answers \ {"approved", "denied", "pending_approval"}
      BY DEF Answers, Blocks
    <3> QED BY <2>1, <3>1, <1>2, EmptyAnswers DEF AnsweringStep, RequestSession, Arrived
  <2>2. ASSUME NEW r \in Fresh(FreshRequestIds), Store!CreateRequest(r),
               AuditThenReply(m, Event("session_requested", r), SaysWithId("pending_approval", r))
        PROVE  DecidingStep(m, Event("session_requested", r), SaysWithId("pending_approval", r))
    <3>1. r \in RequestIds
      BY FreshOnes DEF FreshRequestIds
    <3>2. SaysWithId("pending_approval", r) \in Answer
      BY <3>1 DEF SaysWithId, Answer, Answers, Ids
    <3>3. AnswerIsTrue(m, SaysWithId("pending_approval", r))'
      BY <3>1 DEF SaysWithId, AnswerIsTrue
    <3> QED BY <2>2, <3>1, <3>2, <3>3, <1>2, CreateRequestDecides
            DEF DecidingStep, RequestSession, Arrived
  <2>3. ASSUME NEW s \in Fresh(FreshSessionIds), Store!CreateSession(s),
               AuditThenReply(m, Event("session_approved", s), SaysWithId("approved", s))
        PROVE  DecidingStep(m, Event("session_approved", s), SaysWithId("approved", s))
    <3>1. s \in SessionIds
      BY FreshOnes DEF FreshSessionIds
    <3>2. SaysWithId("approved", s) \in Answer
      BY <3>1 DEF SaysWithId, Answer, Answers, Ids
    <3>3. sessions'[s].status # "absent" /\ sessions'[s].request = NoRequest
      BY <2>3, <3>1, CreateSessionDecides
    <3>4. AnswerIsTrue(m, SaysWithId("approved", s))'
      BY <3>1, <3>3, <1>2 DEF SaysWithId, AnswerIsTrue, RequestSession, Arrived
    <3> QED BY <2>3, <3>1, <3>2, <3>4, <1>2, CreateSessionDecides
            DEF DecidingStep, RequestSession, Arrived
  <2>4. \A answer, e : DecidingStep(m, e, answer) => e \in Decisions /\ answer \in Answer
    BY DEF DecidingStep, Decides
  <2>5. \A answer : AnsweringStep(m, answer) => answer \in Answer
    BY DEF AnsweringStep
  <2> QED BY <1>2, <2>1, <2>2, <2>3, <2>4, <2>5 DEF RequestSession
<1>3. CASE Approve(m)
  <2>1. PICK s \in Fresh(FreshSessionIds) :
           /\ Store!ApproveRequest(m.id, s)
           /\ AuditThenReply(m, Event("session_approved", s), SaysWithId("approved", s))
    BY <1>3 DEF Approve
  <2>2. s \in SessionIds /\ m.id \in RequestIds
    BY <1>1, <1>3, FreshOnes DEF FreshSessionIds, Approve, Arrived, CallIsTyped
  <2>3. SaysWithId("approved", s) \in Answer
    BY <2>2 DEF SaysWithId, Answer, Answers, Ids
  <2>4. requests'[m.id] = Store!RequestWith("approved", s)
    BY <2>1, <2>2, ApproveRequestDecides
  <2>5. AnswerIsTrue(m, SaysWithId("approved", s))'
    BY <2>2, <2>4, <1>3 DEF SaysWithId, AnswerIsTrue, Approve, Arrived
  <2>6. DecidingStep(m, Event("session_approved", s), SaysWithId("approved", s))
    BY <2>1, <2>2, <2>3, <2>5, <1>3, ApproveRequestDecides DEF DecidingStep, Approve, Arrived
  <2> QED BY <2>6 DEF DecidingStep, Decides
<1>4. CASE Deny(m)
  <2>1. m.id \in RequestIds
    BY <1>1, <1>4 DEF Deny, Arrived, CallIsTyped
  <2>2. Says("denied") \in Answer
    BY DEF Says, SaysWithId, Answer, Answers, Ids
  <2>3. StoreMovesOn /\ Decides(Event("session_denied", m.id)) /\ requests'[m.id].status = "denied"
    BY <2>1, <1>4, DenyRequestDecides DEF Deny
  <2>4. AnswerIsTrue(m, Says("denied"))'
    BY <2>1, <2>3 DEF Says, SaysWithId, AnswerIsTrue
  <2>5. DecidingStep(m, Event("session_denied", m.id), Says("denied"))
    BY <2>2, <2>3, <2>4, <1>4 DEF DecidingStep, Deny, Arrived
  <2> QED BY <2>5 DEF DecidingStep, Decides
<1>5. CASE RefuseResolution(m)
  <2>1. PICK status \in {"SESSION_NOT_FOUND", "INVALID_REQUEST"} : Reply(m, Says(status))
    BY <1>5 DEF RefuseResolution
  <2>2. status \in Answers \ {"approved", "denied", "pending_approval"}
    BY DEF Answers, Blocks
  <2>3. AnsweringStep(m, Says(status))
    BY <2>1, <2>2, <1>5, EmptyAnswers DEF AnsweringStep, RefuseResolution, Arrived
  <2> QED BY <2>3 DEF AnsweringStep
<1>6. CASE Revoke(m)
  <2>1. m.id \in SessionIds
    BY <1>1, <1>6 DEF Revoke, Arrived, CallIsTyped
  <2>2. "revoked" \in Answers \ {"approved", "denied", "pending_approval"}
    BY DEF Answers
  <2>3. DecidingStep(m, Event("session_revoked", m.id), Says("revoked"))
    BY <2>1, <2>2, <1>6, EmptyAnswers, RevokeSessionDecides DEF DecidingStep, Revoke, Arrived
  <2> QED BY <2>3 DEF DecidingStep, Decides
<1>7. CASE RevokeAgain(m)
  <2>1. "revoked" \in Answers \ {"approved", "denied", "pending_approval"}
    BY DEF Answers
  <2>2. AnsweringStep(m, Says("revoked"))
    BY <2>1, <1>7, EmptyAnswers DEF AnsweringStep, RevokeAgain, Arrived
  <2> QED BY <2>2 DEF AnsweringStep
<1>8. CASE ShowRequest(m)
  <2>1. m.id \in RequestIds /\ requests[m.id] \in Store!Request /\ m.op = "detail"
    BY <1>1, <1>8 DEF ShowRequest, Arrived, CallIsTyped, RoutesInv, RoutesTypeOK, Store!TypeOK
  <2>2. CASE requests[m.id].status = "approved"
    <3> DEFINE answer == SaysWithId("approved", requests[m.id].session)
    <3>1. requests[m.id].session \in SessionIds
      BY <2>1, <2>2 DEF RoutesInv, ApprovalsHaveSessions
    <3>2. answer \in Answer
      BY <3>1 DEF SaysWithId, Answer, Answers, Ids
    <3>3. AnswerIsTrue(m, answer)
      BY <2>1, <2>2, <3>1 DEF SaysWithId, AnswerIsTrue, Store!Request, Store!RequestWith
    <3>4. Reply(m, answer)
      BY <1>8, <2>2 DEF ShowRequest
    <3>5. AnsweringStep(m, answer)
      BY <3>2, <3>3, <3>4, <1>8 DEF AnsweringStep, ShowRequest, Arrived
    <3> QED BY <3>2, <3>5
  <2>3. CASE requests[m.id].status = "denied"
    <3>1. Says("denied") \in Answer
      BY DEF Says, SaysWithId, Answer, Answers, Ids
    <3>2. AnswerIsTrue(m, Says("denied"))
      BY <2>1, <2>3 DEF Says, SaysWithId, AnswerIsTrue
    <3>3. Reply(m, Says("denied"))
      BY <1>8, <2>3 DEF ShowRequest
    <3>4. AnsweringStep(m, Says("denied"))
      BY <3>1, <3>2, <3>3, <1>8 DEF AnsweringStep, ShowRequest, Arrived
    <3> QED BY <3>1, <3>4
  <2>4. CASE requests[m.id].status \in {"absent", "pending"}
    <3>1. PICK status \in {"SESSION_NOT_FOUND", "pending"} : Reply(m, Says(status))
      BY <1>8, <2>4 DEF ShowRequest
    <3>2. status \in Answers \ {"approved", "denied", "pending_approval"}
      BY DEF Answers, Blocks
    <3>3. AnsweringStep(m, Says(status))
      BY <3>1, <3>2, <1>8, EmptyAnswers DEF AnsweringStep, ShowRequest, Arrived
    <3> QED BY <3>3 DEF AnsweringStep
  <2> QED BY <2>1, <2>2, <2>3, <2>4 DEF Store!Request
<1>9. CASE Pay(m)
  <2>1. PICK status \in {"forwarded", "SESSION_REVOKED"} : Reply(m, Says(status))
    BY <1>9 DEF Pay
  <2>2. status \in Answers \ {"approved", "denied", "pending_approval"}
    BY DEF Answers, Blocks
  <2>3. AnsweringStep(m, Says(status))
    BY <2>1, <2>2, <1>9, EmptyAnswers DEF AnsweringStep, Pay, Arrived
  <2> QED BY <2>3 DEF AnsweringStep
<1> QED BY <1>2, <1>3, <1>4, <1>5, <1>6, <1>7, <1>8, <1>9 DEF Handle

-----------------------------------------------------------------------------
(* The routes' invariant is kept *)

\* A step that decides nothing and records nothing.
LEMMA NothingDecided ==
    ASSUME RoutesInv, UNCHANGED <<requests, sessions, audit>>,
           \A e \in Decisions : /\ faults' = 0 => faults = 0 /\ DueTo(e)' = DueTo(e)
                                /\ DueTo(e)' # {} => DueTo(e) # {}
                                /\ \A m, n \in DueTo(e)' : m = n
    PROVE  StoreMovesOn /\ EventsFollowDecisions' /\ DecisionsAreAudited'
<1>1. StoreMovesOn
  BY DEF StoreMovesOn, RoutesInv, RoutesTypeOK, Store!TypeOK, ApprovalsHaveSessions
<1>2. \A e \in Decisions : Decided(e)' <=> Decided(e)
  BY DEF Decided
<1>3. EventsFollowDecisions'
  <2>1. ASSUME NEW e \in Decisions
        PROVE  /\ audit'[e] # 0 \/ DueTo(e)' # {} => Decided(e)'
               /\ audit'[e] = 0 \/ (audit'[e] = 1 /\ DueTo(e)' = {})
               /\ \A m, n \in DueTo(e)' : m = n
    BY <1>2 DEF RoutesInv, EventsFollowDecisions
  <2>2. \A e \in AuditEvent \ Decisions : audit'[e] = 0
    BY DEF RoutesInv, EventsFollowDecisions
  <2> QED BY <2>1, <2>2 DEF EventsFollowDecisions
<1>4. DecisionsAreAudited'
  BY <1>2 DEF RoutesInv, DecisionsAreAudited
<1> QED BY <1>1, <1>3, <1>4

LEMMA DecidingKeepsRoutes ==
    ASSUME RoutesInv, NEW m \in calls, NEW e \in Decisions, NEW answer \in Answer,
           DecidingStep(m, e, answer)
    PROVE  RoutesInv'
<1>0. PICK n : n = [m EXCEPT !.stage = "auditing", !.event = e, !.answer = answer]
  OBVIOUS
<1>1. m \in Call /\ CallIsTyped(m)
  BY DEF RoutesInv, RoutesTypeOK, CallsAreTyped
<1>2. /\ n \in Call /\ CallIsTyped(n) /\ Continues(n, m)
      /\ n.stage = "auditing" /\ n.answer = answer /\ n.event = e
  <2>1. n \in Call /\ CallIsTyped(n) /\ Continues(n, m)
    <3>1. e \in AuditEvent
      BY EventsAreRecords
    <3> QED BY <1>0, <1>1, <3>1 DEF Call, CallIsTyped, Continues
  <2>2. n.stage = "auditing" /\ n.answer = answer /\ n.event = e
    BY <1>0, <1>1 DEF Call
  <2> QED BY <2>1, <2>2
<1>3. calls' = (calls \ {m}) \cup {n}
  BY <1>0 DEF DecidingStep, AuditThenReply
<1>4. AnswerIsTrue(n, n.answer)'
  BY <1>2, AnswersOfContinuations DEF DecidingStep, Continues
<1>5. calls' \subseteq Call /\ CallsAreTyped' /\ AnswersAreTrue' /\ ApprovalsHaveSessions'
  <2>1. \A k \in calls' \ calls : /\ k \in Call /\ CallIsTyped(k)
                                  /\ k.stage # "sent" => AnswerIsTrue(k, k.answer)'
    BY <1>2, <1>3, <1>4
  <2> QED BY <2>1, CallsStaySound DEF DecidingStep
<1>6. RoutesTypeOK'
  BY <1>5 DEF RoutesInv, RoutesTypeOK, DecidingStep, StoreMovesOn
<1>7. ASSUME NEW d \in Decisions
      PROVE  DueTo(d)' = IF d = e THEN {n} ELSE DueTo(d)
  <2>1. m \notin DueTo(d)
    BY DEF DecidingStep, DueTo
  <2>2. DueTo(d)' = (DueTo(d) \ {m}) \cup {k \in {n} : k.stage = "auditing" /\ k.event = d}
    BY <1>3 DEF DueTo
  <2>3. DueTo(e) = {}
    BY DEF DecidingStep, Decides, RoutesInv, EventsFollowDecisions
  <2> QED BY <1>2, <2>1, <2>2, <2>3
<1>8. UNCHANGED audit /\ audit[e] = 0 /\ Decided(e)'
  BY DEF DecidingStep, Decides, RoutesInv, EventsFollowDecisions
<1>9. \A d \in Decisions \ {e} : Decided(d)' <=> Decided(d)
  BY DecisionsStay DEF DecidingStep, Decides
<1>10. EventsFollowDecisions'
  <2>1. ASSUME NEW d \in Decisions
        PROVE  /\ audit'[d] # 0 \/ DueTo(d)' # {} => Decided(d)'
               /\ audit'[d] = 0 \/ (audit'[d] = 1 /\ DueTo(d)' = {})
               /\ \A j, k \in DueTo(d)' : j = k
    <3>1. CASE d = e
      BY <3>1, <1>7, <1>8
    <3>2. CASE d # e
      BY <3>2, <1>7, <1>8, <1>9 DEF RoutesInv, EventsFollowDecisions
    <3> QED BY <3>1, <3>2
  <2>2. \A d \in AuditEvent \ Decisions : audit'[d] = 0
    BY <1>8 DEF RoutesInv, EventsFollowDecisions
  <2> QED BY <2>1, <2>2 DEF EventsFollowDecisions
<1>11. DecisionsAreAudited'
  <2> SUFFICES ASSUME faults' = 0, NEW d \in Decisions, Decided(d)'
               PROVE  audit'[d] = 1 \/ DueTo(d)' # {}
    BY DEF DecisionsAreAudited
  <2>1. CASE d = e
    BY <2>1, <1>7
  <2>2. CASE d # e
    BY <2>2, <1>7, <1>8, <1>9 DEF RoutesInv, DecisionsAreAudited, DecidingStep
  <2> QED BY <2>1, <2>2
<1> QED BY <1>5, <1>6, <1>10, <1>11 DEF RoutesInv

\* A reply, or an audit event that names nothing, owes nothing.
LEMMA RepliesOweNothing ==
    ASSUME NEW m \in calls, m \in Call, NEW answer,
           \/ Reply(m, answer)
           \/ AuditThenReply(m, NoEvent, answer),
           NEW e \in Decisions
    PROVE  DueTo(e)' = DueTo(e) \ {m}
<1>1. e # NoEvent
  BY EventsAreRecords
<1>2. CASE Reply(m, answer)
  BY <1>1, <1>2 DEF Reply, Answered, DueTo, Call
<1>3. CASE AuditThenReply(m, NoEvent, answer)
  BY <1>1, <1>3 DEF AuditThenReply, DueTo, Call
<1> QED BY <1>2, <1>3

LEMMA AnsweringKeepsRoutes ==
    ASSUME RoutesInv, NEW m \in calls, NEW answer \in Answer, AnsweringStep(m, answer)
    PROVE  RoutesInv'
<1>1. m \in Call /\ CallIsTyped(m)
  BY DEF RoutesInv, RoutesTypeOK, CallsAreTyped
<1>2. \A e \in Decisions : DueTo(e)' = DueTo(e)
  <2>1. \A e \in Decisions : m \notin DueTo(e)
    BY DEF AnsweringStep, DueTo
  <2> QED BY <1>1, <2>1, RepliesOweNothing DEF AnsweringStep
<1>3. StoreMovesOn /\ EventsFollowDecisions' /\ DecisionsAreAudited'
  <2>1. \A e \in Decisions : \A j, k \in DueTo(e) : j = k
    BY DEF RoutesInv, EventsFollowDecisions
  <2> QED BY <1>2, <2>1, NothingDecided DEF AnsweringStep
<1>4. PICK n : /\ calls' \subseteq calls \cup {n}
               /\ n \in Call /\ CallIsTyped(n) /\ Continues(n, m) /\ n.answer = answer
  <2>1. CASE Reply(m, answer)
    <3>1. PICK n : n = [m EXCEPT !.stage = "answered", !.answer = answer, !.event = NoEvent]
      OBVIOUS
    <3>2. calls' \subseteq calls \cup {n}
      BY <2>1, <3>1 DEF Reply, Answered
    <3>3. n \in Call /\ CallIsTyped(n) /\ Continues(n, m)
      BY <1>1, <3>1, AnsweredCall
    <3>4. n.answer = answer
      BY <1>1, <3>1 DEF Call
    <3> QED BY <3>2, <3>3, <3>4
  <2>2. CASE AuditThenReply(m, NoEvent, answer)
    <3>1. PICK n : n = [m EXCEPT !.stage = "auditing", !.event = NoEvent, !.answer = answer]
      OBVIOUS
    <3>2. calls' \subseteq calls \cup {n}
      BY <2>2, <3>1 DEF AuditThenReply
    <3>3. n \in Call /\ CallIsTyped(n) /\ Continues(n, m)
      <4>1. NoEvent \in AuditEvent
        BY DEF AuditEvent, NoEvent, Event, Ids
      <4> QED BY <1>1, <3>1, <4>1 DEF Call, CallIsTyped, Continues
    <3>4. n.answer = answer
      BY <1>1, <3>1 DEF Call
    <3> QED BY <3>2, <3>3, <3>4
  <2> QED BY <2>1, <2>2 DEF AnsweringStep
<1>5. calls' \subseteq Call /\ CallsAreTyped' /\ AnswersAreTrue' /\ ApprovalsHaveSessions'
  <2>1. AnswerIsTrue(n, n.answer)'
    BY <1>4, <1>3, DecisionsStay, AnswersOfContinuations DEF AnsweringStep, Continues
  <2>2. \A k \in calls' \ calls : /\ k \in Call /\ CallIsTyped(k)
                                  /\ k.stage # "sent" => AnswerIsTrue(k, k.answer)'
    BY <2>1, <1>4
  <2> QED BY <2>2, <1>3, CallsStaySound
<1>6. RoutesTypeOK'
  BY <1>3, <1>5 DEF RoutesInv, RoutesTypeOK, AnsweringStep, StoreMovesOn
<1> QED BY <1>3, <1>5, <1>6 DEF RoutesInv

\* The call m is answered, with true words, and nothing else happens to calls.
LEMMA RepliesStaySound ==
    ASSUME RoutesInv, StoreMovesOn, NEW m \in calls, NEW answer \in Answer, Reply(m, answer),
           AnswerIsTrue(m, answer)
    PROVE  calls' \subseteq Call /\ CallsAreTyped' /\ AnswersAreTrue' /\ ApprovalsHaveSessions'
<1>1. m \in Call /\ CallIsTyped(m)
  BY DEF RoutesInv, RoutesTypeOK, CallsAreTyped
<1>2. PICK n : n = [m EXCEPT !.stage = "answered", !.answer = answer, !.event = NoEvent]
  OBVIOUS
<1>3. calls' \subseteq calls \cup {n}
  BY <1>2 DEF Reply, Answered
<1>4. n \in Call /\ CallIsTyped(n) /\ Continues(n, m)
  BY <1>1, <1>2, AnsweredCall
<1>5. n.answer = answer
  BY <1>1, <1>2 DEF Call
<1>6. AnswerIsTrue(n, n.answer)'
  BY <1>4, <1>5, DecisionsStay, AnswersOfContinuations DEF Continues
<1>7. \A k \in calls' \ calls : /\ k \in Call /\ CallIsTyped(k)
                                /\ k.stage # "sent" => AnswerIsTrue(k, k.answer)'
  BY <1>3, <1>4, <1>6
<1> QED BY <1>7, CallsStaySound

LEMMA StillStore ==
    ASSUME RoutesInv, UNCHANGED <<requests, sessions>>
    PROVE  StoreMovesOn
BY DEF StoreMovesOn, RoutesInv, RoutesTypeOK, Store!TypeOK, ApprovalsHaveSessions

LEMMA RecordingKeepsRoutes ==
    ASSUME RoutesInv, NEW m \in calls, RecordAudit(m)
    PROVE  RoutesInv'
<1>1. /\ m \in Call /\ CallIsTyped(m) /\ m.stage = "auditing"
      /\ UNCHANGED <<requests, sessions, faults>> /\ Reply(m, m.answer)
  BY DEF RoutesInv, RoutesTypeOK, CallsAreTyped, RecordAudit
<1>2. m.answer \in Answer /\ AnswerIsTrue(m, m.answer) /\ m.event \in AuditEvent
  BY <1>1 DEF Call, RoutesInv, AnswersAreTrue
<1>3. StoreMovesOn
  BY <1>1, StillStore
<1>4. calls' \subseteq Call /\ CallsAreTyped' /\ AnswersAreTrue' /\ ApprovalsHaveSessions'
  BY <1>1, <1>2, <1>3, RepliesStaySound
<1>5. \A e \in Decisions : DueTo(e)' = DueTo(e) \ {m}
  BY <1>1, RepliesOweNothing
<1>6. \A e \in Decisions : Decided(e)' <=> Decided(e)
  BY <1>1 DEF Decided
<1>7. CASE m.event = NoEvent
  <2>1. UNCHANGED audit
    BY <1>7 DEF RecordAudit, NoEvent, Event
  <2>2. \A e \in Decisions : DueTo(e)' = DueTo(e)
    <3>1. \A e \in Decisions : m \notin DueTo(e)
      BY <1>7, EventsAreRecords DEF DueTo
    <3> QED BY <1>5, <3>1
  <2>3. \A e \in Decisions : \A j, k \in DueTo(e) : j = k
    BY DEF RoutesInv, EventsFollowDecisions
  <2>4. EventsFollowDecisions' /\ DecisionsAreAudited'
    BY <1>1, <2>1, <2>2, <2>3, NothingDecided
  <2>5. RoutesTypeOK'
    BY <1>1, <1>3, <1>4, <2>1 DEF RoutesInv, RoutesTypeOK, StoreMovesOn
  <2> QED BY <1>4, <2>4, <2>5 DEF RoutesInv
<1>8. CASE m.event \in Decisions
  <2>1. m \in DueTo(m.event) /\ m.event.id # NoId
    BY <1>1, <1>8, EventsAreRecords DEF DueTo
  <2>2. audit[m.event] = 0 /\ Decided(m.event) /\ DueTo(m.event)' = {}
    BY <1>5, <1>8, <2>1 DEF RoutesInv, EventsFollowDecisions
  <2>3. audit \in [AuditEvent -> 0..2]
    BY DEF RoutesInv, RoutesTypeOK
  <2>4. audit' = [audit EXCEPT ![m.event] = 1]
    BY <1>2, <2>1, <2>2, <2>3 DEF RecordAudit
  <2>5. \A e \in Decisions \ {m.event} : audit'[e] = audit[e] /\ DueTo(e)' = DueTo(e)
    <3>1. \A e \in Decisions \ {m.event} : m \notin DueTo(e)
      BY DEF DueTo
    <3>2. \A e \in Decisions : e \in AuditEvent
      BY EventsAreRecords
    <3> QED BY <1>5, <2>3, <2>4, <3>1, <3>2
  <2>6. audit'[m.event] = 1
    BY <1>2, <2>3, <2>4
  <2>7. EventsFollowDecisions'
    <3>1. ASSUME NEW e \in Decisions
          PROVE  /\ audit'[e] # 0 \/ DueTo(e)' # {} => Decided(e)'
                 /\ audit'[e] = 0 \/ (audit'[e] = 1 /\ DueTo(e)' = {})
                 /\ \A j, k \in DueTo(e)' : j = k
      <4>1. CASE e = m.event
        BY <4>1, <1>6, <2>2, <2>6
      <4>2. CASE e # m.event
        BY <4>2, <1>6, <2>5 DEF RoutesInv, EventsFollowDecisions
      <4> QED BY <4>1, <4>2
    <3>2. \A e \in AuditEvent \ Decisions : audit'[e] = 0
      BY <1>8, <2>3, <2>4 DEF RoutesInv, EventsFollowDecisions
    <3> QED BY <3>1, <3>2 DEF EventsFollowDecisions
  <2>8. DecisionsAreAudited'
    BY <1>1, <1>6, <2>5, <2>6 DEF RoutesInv, DecisionsAreAudited
  <2>9. RoutesTypeOK'
    <3>1. audit' \in [AuditEvent -> 0..2]
      <4>1. 1 \in 0..2
        OBVIOUS
      <4> QED BY <2>3, <2>4, <4>1, Zenon
    <3> QED BY <1>1, <1>3, <1>4, <3>1 DEF RoutesInv, RoutesTypeOK, StoreMovesOn
  <2> QED BY <1>4, <2>7, <2>8, <2>9 DEF RoutesInv
<1> QED BY <1>1, <1>7, <1>8 DEF CallIsTyped

LEMMA HandlersKeepRoutes ==
    ASSUME RoutesInv, NEW m \in calls, Handle(m)
    PROVE  RoutesInv'
BY HandlerKinds, DecidingKeepsRoutes, AnsweringKeepsRoutes, RecordingKeepsRoutes

\* After a fault there are no more claims about what is audited; what is due
\* is at most what was due before.
LEMMA FaultKeepsRoutes ==
    ASSUME RoutesInv, Fault, UNCHANGED <<requests, sessions, audit>>,
           \A e \in Decisions : /\ DueTo(e)' # {} => DueTo(e) # {}
                                /\ \A m, n \in DueTo(e)' : m = n,
           calls' \subseteq Call /\ CallsAreTyped' /\ AnswersAreTrue' /\ ApprovalsHaveSessions'
    PROVE  RoutesInv'
<1>1. faults' # 0 /\ faults' \in 0..MaxFaults
  BY RoutesAssumption DEF Fault, RoutesInv, RoutesTypeOK
<1>2. StoreMovesOn /\ EventsFollowDecisions' /\ DecisionsAreAudited'
  BY <1>1, NothingDecided
<1>3. RoutesTypeOK'
  BY <1>1, <1>2 DEF RoutesInv, RoutesTypeOK, StoreMovesOn
<1> QED BY <1>2, <1>3 DEF RoutesInv

LEMMA FaultyReplyKeepsRoutes ==
    ASSUME RoutesInv, Fault, UNCHANGED <<requests, sessions, audit>>,
           NEW m \in calls, NEW answer \in Answer, Reply(m, answer), AnswerIsTrue(m, answer)
    PROVE  RoutesInv'
<1>1. m \in Call
  BY DEF RoutesInv, RoutesTypeOK
<1>2. \A e \in Decisions : DueTo(e)' = DueTo(e) \ {m}
  BY <1>1, RepliesOweNothing
<1>3. \A e \in Decisions : \A j, k \in DueTo(e) : j = k
  BY DEF RoutesInv, EventsFollowDecisions
<1>4. calls' \subseteq Call /\ CallsAreTyped' /\ AnswersAreTrue' /\ ApprovalsHaveSessions'
  BY StillStore, RepliesStaySound
<1> QED BY <1>2, <1>3, <1>4, FaultKeepsRoutes

LEMMA BrokenConnectionKeepsRoutes ==
    ASSUME RoutesInv, NEW m \in calls, ConnectionBreaks(m)
    PROVE  RoutesInv'
<1>1. m \in Call /\ CallIsTyped(m)
  BY DEF RoutesInv, RoutesTypeOK, CallsAreTyped
<1>2. "network" \in Answers \ {"approved", "denied", "pending_approval"}
  BY DEF Answers
<1>3. CASE Reply(m, Says("network"))
  BY <1>2, <1>3, EmptyAnswers, FaultyReplyKeepsRoutes DEF ConnectionBreaks
<1>4. CASE calls' = Answered(m, Says("network")) \cup {[m EXCEPT !.by = Nobody]}
  <2>1. PICK n : n = [m EXCEPT !.stage = "answered", !.answer = Says("network"), !.event = NoEvent]
    OBVIOUS
  <2>2. PICK k : k = [m EXCEPT !.by = Nobody]
    OBVIOUS
  <2>3. calls' = (calls \ {m}) \cup {n, k}
    BY <1>4, <2>1, <2>2 DEF Answered, ConnectionBreaks
  <2>4. n \in Call /\ CallIsTyped(n)
    BY <1>1, <1>2, <2>1, EmptyAnswers, AnsweredCall
  <2>5. n.stage = "answered" /\ n.answer = Says("network")
    BY <1>1, <2>1 DEF Call
  <2>6. k \in Call /\ CallIsTyped(k) /\ Continues(k, m)
    BY <1>1, <2>2 DEF Call, CallIsTyped, Continues
  <2>7. k.stage = m.stage /\ k.answer = m.answer /\ k.event = m.event
    BY <1>1, <2>2 DEF Call
  <2>8. UNCHANGED <<requests, sessions, audit>> /\ Fault
    BY DEF ConnectionBreaks
  <2>9. StoreMovesOn
    BY <2>8, StillStore
  <2>10. k.stage # "sent" => AnswerIsTrue(k, k.answer)'
    BY <2>6, <2>7, <2>9, DecisionsStay, AnswersOfContinuations
       DEF RoutesInv, AnswersAreTrue, Continues
  <2>11. \A j \in calls' \ calls : /\ j \in Call /\ CallIsTyped(j)
                                   /\ j.stage # "sent" => AnswerIsTrue(j, j.answer)'
    BY <1>2, <2>3, <2>4, <2>5, <2>6, <2>10, EmptyAnswers
  <2>12. calls' \subseteq Call /\ CallsAreTyped' /\ AnswersAreTrue' /\ ApprovalsHaveSessions'
    BY <2>9, <2>11, CallsStaySound
  <2>13. ASSUME NEW e \in Decisions
         PROVE  /\ DueTo(e)' # {} => DueTo(e) # {}
                /\ \A i, j \in DueTo(e)' : i = j
    <3>1. \A i, j \in DueTo(e) : i = j
      BY DEF RoutesInv, EventsFollowDecisions
    <3>2. DueTo(e)' \subseteq (DueTo(e) \ {m}) \cup {k}
      BY <2>3, <2>5 DEF DueTo
    <3>3. k \in DueTo(e)' => m \in DueTo(e)
      BY <2>7 DEF DueTo
    <3> QED BY <3>1, <3>2, <3>3
  <2> QED BY <2>8, <2>12, <2>13, FaultKeepsRoutes
<1> QED BY <1>3, <1>4 DEF ConnectionBreaks

\* The calls after a crash are those of living callers, answered.
LEMMA CallsAfterCrash ==
    ASSUME RoutesInv, CrashAndRestart, NEW n \in calls'
    PROVE  /\ n.stage = "answered"
           /\ \E m \in calls : /\ m.by # Nobody /\ n.by = m.by /\ Continues(n, m)
                               /\ n = m \/ (n \in Call /\ CallIsTyped(n) /\ n.answer = Says("network"))
<1>1. PICK m \in calls : /\ m.by # Nobody
                         /\ n = IF m.stage = "answered" THEN m
                                ELSE [m EXCEPT !.stage = "answered", !.answer = Says("network"),
                                               !.event = NoEvent]
  BY DEF CrashAndRestart
<1>2. m \in Call /\ CallIsTyped(m)
  BY DEF RoutesInv, RoutesTypeOK, CallsAreTyped
<1>3. CASE m.stage = "answered"
  BY <1>1, <1>3 DEF Continues
<1>4. CASE m.stage # "answered"
  <2>1. n = [m EXCEPT !.stage = "answered", !.answer = Says("network"), !.event = NoEvent]
    BY <1>1, <1>4
  <2>2. Says("network") \in Answer
    BY EmptyAnswers DEF Answers
  <2>3. n \in Call /\ CallIsTyped(n) /\ Continues(n, m)
    BY <1>2, <2>1, <2>2, AnsweredCall
  <2>4. n.by = m.by /\ n.stage = "answered" /\ n.answer = Says("network")
    BY <1>2, <2>1 DEF Call
  <2> QED BY <1>1, <2>3, <2>4
<1> QED BY <1>3, <1>4

LEMMA CrashKeepsRoutes ==
    ASSUME RoutesInv, CrashAndRestart
    PROVE  RoutesInv'
<1>1. Fault /\ UNCHANGED <<requests, sessions, audit>>
  BY DEF CrashAndRestart
<1>2. StoreMovesOn
  BY <1>1, StillStore
<1>3. \A n \in calls' \ calls : /\ n \in Call /\ CallIsTyped(n)
                                /\ n.stage # "sent" => AnswerIsTrue(n, n.answer)'
  <2>1. \A n : AnswerIsTrue(n, Says("network"))'
    BY EmptyAnswers DEF Answers
  <2> QED BY <2>1, CallsAfterCrash
<1>4. calls' \subseteq Call /\ CallsAreTyped' /\ AnswersAreTrue' /\ ApprovalsHaveSessions'
  BY <1>2, <1>3, CallsStaySound
<1>5. \A e \in Decisions : DueTo(e)' = {}
  BY CallsAfterCrash DEF DueTo
<1> QED BY <1>1, <1>4, <1>5, FaultKeepsRoutes

LEMMA FaultsKeepRoutes ==
    ASSUME RoutesInv, FaultStep
    PROVE  RoutesInv'
<1>1. ASSUME NEW m \in calls, StorageFails(m)
      PROVE  RoutesInv'
  <2>1. "fault" \in Answers \ {"approved", "denied", "pending_approval"}
    BY DEF Answers
  <2> QED BY <1>1, <2>1, EmptyAnswers, FaultyReplyKeepsRoutes DEF StorageFails
<1>2. ASSUME NEW m \in calls, AuditFails(m)
      PROVE  RoutesInv'
  <2>1. m.answer \in Answer /\ AnswerIsTrue(m, m.answer)
    BY <1>2 DEF AuditFails, RoutesInv, RoutesTypeOK, AnswersAreTrue, Call
  <2> QED BY <1>2, <2>1, FaultyReplyKeepsRoutes DEF AuditFails
<1> QED BY <1>1, <1>2, BrokenConnectionKeepsRoutes, CrashKeepsRoutes DEF FaultStep

\* A client sends a call, takes an answer, or does both at once.
LEMMA ClientsKeepRoutes ==
    ASSUME RoutesInv, UNCHANGED stored,
           \A m \in calls' \ calls : m \in Call /\ CallIsTyped(m) /\ m.stage = "sent",
           \A m \in calls \ calls' : m.stage = "answered"
    PROVE  RoutesInv'
<1>1. UNCHANGED <<requests, sessions, audit, faults>>
  BY DEF stored
<1>2. \A e \in Decisions : DueTo(e)' = DueTo(e)
  BY DEF DueTo
<1>3. \A e \in Decisions : \A j, k \in DueTo(e) : j = k
  BY DEF RoutesInv, EventsFollowDecisions
<1>4. StoreMovesOn /\ EventsFollowDecisions' /\ DecisionsAreAudited'
  BY <1>1, <1>2, <1>3, NothingDecided
<1>5. calls' \subseteq Call /\ CallsAreTyped' /\ AnswersAreTrue' /\ ApprovalsHaveSessions'
  BY <1>4, CallsStaySound
<1>6. RoutesTypeOK'
  BY <1>1, <1>4, <1>5 DEF RoutesInv, RoutesTypeOK, StoreMovesOn
<1> QED BY <1>4, <1>5, <1>6 DEF RoutesInv

-----------------------------------------------------------------------------
(* The gateway's and the network's steps under the clients *)

LEMMA HandlersMoveOn ==
    ASSUME RoutesInv, NEW m \in calls, Handle(m)
    PROVE  /\ StoreMovesOn
           /\ \E answer, e : Reply(m, answer) \/ AuditThenReply(m, e, answer)
<1>1. ASSUME NEW e \in Decisions, NEW answer \in Answer, DecidingStep(m, e, answer)
      PROVE  StoreMovesOn /\ AuditThenReply(m, e, answer)
  BY <1>1 DEF DecidingStep
<1>2. ASSUME NEW answer \in Answer, AnsweringStep(m, answer)
      PROVE  StoreMovesOn /\ (Reply(m, answer) \/ AuditThenReply(m, NoEvent, answer))
  BY <1>2, StillStore DEF AnsweringStep
<1>3. ASSUME RecordAudit(m)
      PROVE  StoreMovesOn /\ Reply(m, m.answer)
  BY <1>3, StillStore DEF RecordAudit
<1> QED BY <1>1, <1>2, <1>3, HandlerKinds

\* Every call that somebody waits for goes on, or was there before, and
\* nobody waits for two.
CallsContinue ==
    /\ \A n \in calls' : n.by # Nobody => \E m \in calls : n.by = m.by /\ Continues(n, m)
    /\ OneCallEach'

LEMMA OneCallGoesOn ==
    ASSUME OneCallEach, NEW m \in calls, NEW n, n.by = m.by, Continues(n, m),
           NEW k, k.by = Nobody,
           calls' \subseteq (calls \ {m}) \cup {n, k}
    PROVE  CallsContinue
<1>1. \A j \in calls : Continues(j, j)
  BY DEF Continues
<1>2. \A j \in calls' : j.by # Nobody => \E i \in calls : j.by = i.by /\ Continues(j, i)
  BY <1>1
<1>3. OneCallEach'
  <2> SUFFICES ASSUME NEW i \in calls', NEW j \in calls', i.by = j.by, i.by # Nobody
               PROVE  i = j
    BY DEF OneCallEach
  <2> QED BY DEF OneCallEach
<1> QED BY <1>2, <1>3 DEF CallsContinue

LEMMA AnsweredCallsContinue ==
    ASSUME RoutesInv, OneCallEach, NEW m \in calls, NEW answer, NEW e,
           Reply(m, answer) \/ AuditThenReply(m, e, answer)
    PROVE  CallsContinue
<1>1. m \in Call
  BY DEF RoutesInv, RoutesTypeOK
<1>2. PICK k : k = [m EXCEPT !.by = Nobody]
  OBVIOUS
<1>3. k.by = Nobody
  BY <1>1, <1>2 DEF Call
<1>4. CASE Reply(m, answer)
  <2>1. PICK n : n = [m EXCEPT !.stage = "answered", !.answer = answer, !.event = NoEvent]
    OBVIOUS
  <2>2. n.by = m.by /\ n.op = m.op /\ n.id = m.id
    BY <1>1, <2>1 DEF Call
  <2>3. calls' \subseteq (calls \ {m}) \cup {n, k}
    BY <1>4, <2>1 DEF Reply, Answered
  <2> QED BY <1>3, <2>2, <2>3, OneCallGoesOn DEF Continues
<1>5. CASE AuditThenReply(m, e, answer)
  <2>1. PICK n : n = [m EXCEPT !.stage = "auditing", !.event = e, !.answer = answer]
    OBVIOUS
  <2>2. n.by = m.by /\ n.op = m.op /\ n.id = m.id
    BY <1>1, <2>1 DEF Call
  <2>3. calls' \subseteq (calls \ {m}) \cup {n, k}
    BY <1>5, <2>1 DEF AuditThenReply
  <2> QED BY <1>3, <2>2, <2>3, OneCallGoesOn DEF Continues
<1> QED BY <1>4, <1>5

LEMMA FaultyCallsContinue ==
    ASSUME RoutesInv, OneCallEach, FaultStep
    PROVE  StoreMovesOn /\ CallsContinue
<1>1. StoreMovesOn
  BY StillStore DEF FaultStep, StorageFails, AuditFails, ConnectionBreaks, CrashAndRestart
<1>2. ASSUME NEW m \in calls, StorageFails(m) \/ AuditFails(m)
      PROVE  CallsContinue
  BY <1>2, AnsweredCallsContinue DEF StorageFails, AuditFails
<1>3. ASSUME NEW m \in calls, ConnectionBreaks(m)
      PROVE  CallsContinue
  <2>1. CASE Reply(m, Says("network"))
    BY <2>1, AnsweredCallsContinue
  <2>2. CASE calls' = Answered(m, Says("network")) \cup {[m EXCEPT !.by = Nobody]}
    <3>1. m \in Call
      BY DEF RoutesInv, RoutesTypeOK
    <3>2. PICK n : n = [m EXCEPT !.stage = "answered", !.answer = Says("network"),
                                 !.event = NoEvent]
      OBVIOUS
    <3>3. PICK k : k = [m EXCEPT !.by = Nobody]
      OBVIOUS
    <3>4. n.by = m.by /\ n.op = m.op /\ n.id = m.id /\ k.by = Nobody
      BY <3>1, <3>2, <3>3 DEF Call
    <3>5. calls' \subseteq (calls \ {m}) \cup {n, k}
      BY <2>2, <3>2, <3>3 DEF Answered
    <3> QED BY <3>4, <3>5, OneCallGoesOn DEF Continues
  <2> QED BY <1>3, <2>1, <2>2 DEF ConnectionBreaks
<1>4. ASSUME CrashAndRestart
      PROVE  CallsContinue
  <2>1. \A n \in calls' : n.by # Nobody => \E m \in calls : n.by = m.by /\ Continues(n, m)
    BY <1>4, CallsAfterCrash
  <2>2. OneCallEach'
    <3> DEFINE After(m) == IF m.stage = "answered" THEN m
                           ELSE [m EXCEPT !.stage = "answered", !.answer = Says("network"),
                                          !.event = NoEvent]
    <3>1. calls' = {After(m) : m \in {n \in calls : n.by # Nobody}}
      BY <1>4 DEF CrashAndRestart
    <3>2. \A m \in calls : After(m).by = m.by
      BY DEF RoutesInv, RoutesTypeOK, Call
    <3> HIDE DEF After
    <3> QED BY <3>1, <3>2 DEF OneCallEach
  <2> QED BY <2>1, <2>2 DEF CallsContinue
<1> QED BY <1>1, <1>2, <1>3, <1>4 DEF FaultStep

\* What the clients hold stays true while the gateway moves on.
LEMMA ScreensStayTrue ==
    ASSUME FlowInv, StoreMovesOn, UNCHANGED clients
    PROVE  ScreensTellTheTruth'
<1> USE DEF FlowInv, ScreensTellTheTruth
<1>1. UNCHANGED <<handle, screen>>
  BY DEF clients
<1>2. ASSUME NEW h \in Handles
      PROVE  /\ handle[h].session # NoId /\ handle[h].request # NoId =>
                  requests'[handle[h].request] = Store!RequestWith("approved", handle[h].session)
             /\ handle[h].session # NoId /\ handle[h].request = NoId =>
                  /\ sessions'[handle[h].session].status # "absent"
                  /\ sessions'[handle[h].session].request = NoRequest
             /\ handle[h].status = "denied" => requests'[handle[h].request].status = "denied"
  <2>1. /\ handle[h].request \in RequestIds \cup {NoId}
        /\ handle[h].session \in SessionIds \cup {NoId}
    BY DEF TypeOK, HandleState
  <2>2. handle[h].status = "denied" => handle[h].request \in RequestIds
    BY DEF HandlesAreSound
  <2> QED BY <2>1, <2>2 DEF StoreMovesOn, Store!RequestWith
<1>3. /\ screen.pc = "approved" =>
           requests'[screen.request] = Store!RequestWith("approved", screen.session)
      /\ screen.pc = "denied" => requests'[screen.request].status = "denied"
  <2>1. screen.pc # "closed" => screen.request \in RequestIds
    BY DEF HandlesAreSound
  <2> QED BY <2>1 DEF StoreMovesOn, Store!RequestWith
<1> QED BY <1>1, <1>2, <1>3

LEMMA GatewayKeepsFlow ==
    ASSUME FlowInv, RoutesInv', StoreMovesOn, CallsContinue, UNCHANGED <<now, clients>>
    PROVE  FlowInv'
<1>1. UNCHANGED <<now, handle, app, held, screen, console>>
  BY DEF clients
<1>2. TypeOK'
  BY <1>1 DEF FlowInv, TypeOK
<1>3. HandlesAreSound'
  BY <1>1 DEF FlowInv, HandlesAreSound, FreeHandles
<1>4. CallsAreExpected'
  <2> SUFFICES ASSUME NEW n \in calls'
               PROVE  /\ n.by \in Handles => /\ handle[n.by].wait = "polling"
                                             /\ n.op = "detail" /\ n.id = handle[n.by].request
                      /\ n.by = App => \/ app = "requesting" /\ n.op = "request"
                                       \/ app = "paying" /\ n.op = "pay"
                      /\ n.by = Screen => /\ n.id = screen.request
                                          /\ \/ screen.pc = "loading" /\ n.op = "detail"
                                             \/ /\ screen.pc = "deciding"
                                                /\ n.op \in {"approve", "deny"}
                      /\ n.by = Console => console = "acting"
    BY <1>1 DEF CallsAreExpected
  <2>1. CASE n.by = Nobody
    BY <2>1, RoutesAssumption, CallersAssumption
  <2>2. CASE n.by # Nobody
    <3>1. PICK m \in calls : n.by = m.by /\ n.op = m.op /\ n.id = m.id
      BY <2>2 DEF CallsContinue, Continues
    <3> QED BY <3>1 DEF FlowInv, CallsAreExpected
  <2> QED BY <2>1, <2>2
<1>5. ScreensTellTheTruth'
  BY ScreensStayTrue
<1> QED BY <1>2, <1>3, <1>4, <1>5 DEF FlowInv, CallsContinue

-----------------------------------------------------------------------------
(* The clients' steps *)

LEMMA NewCallIsSound ==
    ASSUME NEW caller \in Callers, NEW op \in Operations, NEW id \in Ids,
           op \in {"approve", "deny", "detail"} => id \in RequestIds,
           op \in {"revoke", "pay"} => id \in SessionIds
    PROVE  /\ NewCall(caller, op, id) \in Call /\ CallIsTyped(NewCall(caller, op, id))
           /\ NewCall(caller, op, id).by = caller /\ NewCall(caller, op, id).op = op
           /\ NewCall(caller, op, id).id = id /\ NewCall(caller, op, id).stage = "sent"
<1>1. Says("none") \in Answer
  BY EmptyAnswers DEF Answers
<1>2. NoEvent \in AuditEvent
  BY DEF NoEvent, AuditEvent, Event, Ids
<1> QED BY <1>1, <1>2 DEF NewCall, Call, CallIsTyped

\* A client that waits for nothing sends a call.
LEMMA SendingKeepsRoutes ==
    ASSUME FlowInv, UNCHANGED stored,
           NEW caller \in Callers, \A m \in calls : m.by # caller,
           NEW op \in Operations, NEW id \in Ids,
           op \in {"approve", "deny", "detail"} => id \in RequestIds,
           op \in {"revoke", "pay"} => id \in SessionIds,
           Send(caller, op, id)
    PROVE  /\ RoutesInv' /\ OneCallEach'
           /\ \A n \in calls' : n \in calls \/ (n.by = caller /\ n.op = op /\ n.id = id)
<1>1. PICK n : n = NewCall(caller, op, id)
  OBVIOUS
<1>2. n \in Call /\ CallIsTyped(n) /\ n.by = caller /\ n.op = op /\ n.id = id /\ n.stage = "sent"
  BY <1>1, NewCallIsSound
<1>3. calls' = calls \cup {n}
  BY <1>1 DEF Send
<1>4. RoutesInv'
  <2>1. \A m \in calls' \ calls : m \in Call /\ CallIsTyped(m) /\ m.stage = "sent"
    BY <1>2, <1>3
  <2>2. \A m \in calls \ calls' : m.stage = "answered"
    BY <1>3
  <2> QED BY <2>1, <2>2, ClientsKeepRoutes DEF FlowInv
<1>5. OneCallEach'
  BY <1>2, <1>3 DEF FlowInv, OneCallEach
<1> QED BY <1>2, <1>3, <1>4, <1>5

\* A client takes the answer it waited for.
LEMMA TakingKeepsRoutes ==
    ASSUME FlowInv, UNCHANGED stored, NEW caller \in Callers, NEW m \in AnswersTo(caller), Take(m)
    PROVE  /\ RoutesInv' /\ OneCallEach' /\ calls' \subseteq calls
           /\ \A n \in calls' : n.by # caller
<1>1. m \in calls /\ m.by = caller /\ m.stage = "answered" /\ caller # Nobody
  BY RoutesAssumption DEF AnswersTo
<1>2. calls' = calls \ {m}
  BY DEF Take
<1>3. RoutesInv'
  <2>1. \A n \in calls \ calls' : n.stage = "answered"
    BY <1>1, <1>2
  <2> QED BY <1>2, <2>1, ClientsKeepRoutes DEF FlowInv
<1>4. OneCallEach' /\ \A n \in calls' : n.by # caller
  BY <1>1, <1>2 DEF FlowInv, OneCallEach
<1> QED BY <1>2, <1>3, <1>4

\* What a client may believe of an answer it takes.
LEMMA AnswersTakenAreTrue ==
    ASSUME FlowInv, NEW caller, NEW m \in AnswersTo(caller)
    PROVE  /\ m \in calls /\ m.by = caller /\ m.stage = "answered"
           /\ m \in Call /\ AnswerIsTrue(m, m.answer)
BY DEF AnswersTo, FlowInv, RoutesInv, RoutesTypeOK, AnswersAreTrue

LEMMA CallersDiffer ==
    /\ App \in Callers /\ Screen \in Callers /\ Console \in Callers
    /\ Handles \subseteq Callers
    /\ App # Screen /\ App # Console /\ Screen # Console
    /\ App \notin Handles /\ Screen \notin Handles /\ Console \notin Handles
BY CallersAssumption

LEMMA AskForSessionKeepsFlow ==
    ASSUME FlowInv, AskForSession
    PROVE  FlowInv'
<1> USE DEF AskForSession
<1>1. UNCHANGED <<requests, sessions, audit, faults, now, handle, held, screen, console>>
  BY DEF stored
<1>2. \A m \in calls : m.by # App
  BY DEF FlowInv, CallsAreExpected
<1>3. /\ RoutesInv' /\ OneCallEach'
      /\ \A n \in calls' : n \in calls \/ (n.by = App /\ n.op = "request" /\ n.id = NoId)
  <2>1. "request" \in Operations /\ NoId \in Ids
    BY DEF Operations, Ids
  <2> QED BY <1>2, <2>1, SendingKeepsRoutes, CallersDiffer
<1>4. TypeOK'
  BY <1>1 DEF FlowInv, TypeOK
<1>5. CallsAreExpected'
  BY <1>1, <1>2, <1>3, CallersDiffer DEF FlowInv, CallsAreExpected
<1>6. HandlesAreSound'
  BY <1>1 DEF FlowInv, HandlesAreSound, FreeHandles
<1>7. ScreensTellTheTruth'
  BY <1>1 DEF FlowInv, ScreensTellTheTruth
<1> QED BY <1>3, <1>4, <1>5, <1>6, <1>7 DEF FlowInv

LEMMA PayInvoiceKeepsFlow ==
    ASSUME FlowInv, PayInvoice
    PROVE  FlowInv'
<1> USE DEF PayInvoice
<1>1. UNCHANGED <<requests, sessions, audit, faults, now, handle, held, screen, console>>
  BY DEF stored
<1>2. \A m \in calls : m.by # App
  BY DEF FlowInv, CallsAreExpected
<1>3. handle[held].session \in SessionIds
  BY DEF FlowInv, TypeOK, HandleState
<1>4. /\ RoutesInv' /\ OneCallEach'
      /\ \A n \in calls' : n \in calls \/ (n.by = App /\ n.op = "pay")
  <2>1. "pay" \in Operations /\ handle[held].session \in Ids
    BY <1>3 DEF Operations, Ids
  <2> QED BY <1>2, <1>3, <2>1, SendingKeepsRoutes, CallersDiffer
<1>5. TypeOK'
  BY <1>1 DEF FlowInv, TypeOK
<1>6. CallsAreExpected'
  BY <1>1, <1>2, <1>4, CallersDiffer DEF FlowInv, CallsAreExpected
<1>7. HandlesAreSound'
  BY <1>1 DEF FlowInv, HandlesAreSound, FreeHandles
<1>8. ScreensTellTheTruth'
  BY <1>1 DEF FlowInv, ScreensTellTheTruth
<1> QED BY <1>4, <1>5, <1>6, <1>7, <1>8 DEF FlowInv

LEMMA PayAnswerKeepsFlow ==
    ASSUME FlowInv, PayAnswer
    PROVE  FlowInv'
<1> USE DEF PayAnswer
<1>1. UNCHANGED <<requests, sessions, audit, faults, now, handle, held, screen, console>>
  BY DEF stored
<1>2. PICK m \in AnswersTo(App) : Take(m) /\ app' \in {"stuck", "idle"}
  OBVIOUS
<1>3. RoutesInv' /\ OneCallEach' /\ calls' \subseteq calls /\ \A n \in calls' : n.by # App
  BY <1>2, TakingKeepsRoutes, CallersDiffer
<1>4. TypeOK'
  BY <1>1, <1>2 DEF FlowInv, TypeOK
<1>5. CallsAreExpected'
  BY <1>1, <1>3 DEF FlowInv, CallsAreExpected
<1>6. HandlesAreSound'
  BY <1>1, <1>2 DEF FlowInv, HandlesAreSound, FreeHandles
<1>7. ScreensTellTheTruth'
  BY <1>1 DEF FlowInv, ScreensTellTheTruth
<1> QED BY <1>3, <1>4, <1>5, <1>6, <1>7 DEF FlowInv

LEMMA OpenScreenKeepsFlow ==
    ASSUME FlowInv, NEW r \in RequestIds, OpenScreen(r)
    PROVE  FlowInv'
<1> USE DEF OpenScreen
<1>1. UNCHANGED <<requests, sessions, audit, faults, now, handle, app, held, console>>
  BY DEF stored
<1>2. \A m \in calls : m.by # Screen
  BY DEF FlowInv, CallsAreExpected
<1>3. /\ RoutesInv' /\ OneCallEach'
      /\ \A n \in calls' : n \in calls \/ (n.by = Screen /\ n.op = "detail" /\ n.id = r)
  <2>1. "detail" \in Operations /\ r \in Ids
    BY DEF Operations, Ids
  <2> QED BY <1>2, <2>1, SendingKeepsRoutes, CallersDiffer
<1>4. TypeOK'
  BY <1>1 DEF FlowInv, TypeOK, ScreenState
<1>5. CallsAreExpected'
  BY <1>1, <1>2, <1>3, CallersDiffer DEF FlowInv, CallsAreExpected
<1>6. HandlesAreSound'
  BY <1>1 DEF FlowInv, HandlesAreSound, FreeHandles
<1>7. ScreensTellTheTruth'
  BY <1>1 DEF FlowInv, ScreensTellTheTruth
<1> QED BY <1>3, <1>4, <1>5, <1>6, <1>7 DEF FlowInv

LEMMA ShowScreenKeepsFlow ==
    ASSUME FlowInv, ShowScreen
    PROVE  FlowInv'
<1> USE DEF ShowScreen
<1>1. UNCHANGED <<requests, sessions, audit, faults, now, handle, app, held, console>>
  BY DEF stored
<1>2. PICK m \in AnswersTo(Screen) :
        Take(m) /\ \E pc \in {"shown", "resolved", "notFound"} : screen' = [screen EXCEPT !.pc = pc]
  BY Zenon
<1>3. RoutesInv' /\ OneCallEach' /\ calls' \subseteq calls /\ \A n \in calls' : n.by # Screen
  BY <1>2, TakingKeepsRoutes, CallersDiffer
<1>4. screen \in ScreenState /\ screen.request \in RequestIds
  BY DEF FlowInv, TypeOK, HandlesAreSound
<1>5. screen'.pc \in {"shown", "resolved", "notFound"} /\ screen'.request = screen.request
  BY <1>2, <1>4 DEF ScreenState
<1>6. TypeOK'
  BY <1>1, <1>2, <1>4 DEF FlowInv, TypeOK, ScreenState
<1>7. CallsAreExpected'
  BY <1>1, <1>3 DEF FlowInv, CallsAreExpected
<1>8. HandlesAreSound'
  BY <1>1, <1>4, <1>5 DEF FlowInv, HandlesAreSound, FreeHandles
<1>9. ScreensTellTheTruth'
  BY <1>1, <1>5 DEF FlowInv, ScreensTellTheTruth
<1> QED BY <1>3, <1>6, <1>7, <1>8, <1>9 DEF FlowInv

LEMMA DecideKeepsFlow ==
    ASSUME FlowInv, NEW op \in {"approve", "deny"}, Decide(op)
    PROVE  FlowInv'
<1> USE DEF Decide
<1>1. UNCHANGED <<requests, sessions, audit, faults, now, handle, app, held, console>>
  BY DEF stored
<1>2. \A m \in calls : m.by # Screen
  BY DEF FlowInv, CallsAreExpected
<1>3. screen \in ScreenState /\ screen.request \in RequestIds
  BY DEF FlowInv, TypeOK, HandlesAreSound
<1>4. /\ RoutesInv' /\ OneCallEach'
      /\ \A n \in calls' :
           n \in calls \/ (n.by = Screen /\ n.op = op /\ n.id = screen.request)
  <2>1. op \in Operations /\ screen.request \in Ids
    BY <1>3 DEF Operations, Ids
  <2> QED BY <1>2, <1>3, <2>1, SendingKeepsRoutes, CallersDiffer
<1>5. screen'.pc = "deciding" /\ screen'.request = screen.request
  BY <1>3 DEF ScreenState
<1>6. TypeOK'
  BY <1>1, <1>3 DEF FlowInv, TypeOK, ScreenState
<1>7. CallsAreExpected'
  BY <1>1, <1>2, <1>4, <1>5, CallersDiffer DEF FlowInv, CallsAreExpected
<1>8. HandlesAreSound'
  BY <1>1, <1>3, <1>5 DEF FlowInv, HandlesAreSound, FreeHandles
<1>9. ScreensTellTheTruth'
  BY <1>1, <1>5 DEF FlowInv, ScreensTellTheTruth
<1> QED BY <1>4, <1>6, <1>7, <1>8, <1>9 DEF FlowInv

LEMMA ShowOutcomeKeepsFlow ==
    ASSUME FlowInv, ShowOutcome
    PROVE  FlowInv'
<1> USE DEF ShowOutcome
<1>1. UNCHANGED <<requests, sessions, audit, faults, now, handle, app, held, console>>
  BY DEF stored
<1>2. PICK m \in AnswersTo(Screen) :
        /\ Take(m)
        /\ screen' = CASE m.answer.status = "approved" ->
                            [screen EXCEPT !.pc = "approved", !.session = m.answer.id]
                       [] m.answer.status = "denied"  -> [screen EXCEPT !.pc = "denied"]
                       [] m.answer.status = "network" -> [screen EXCEPT !.pc = "stuck"]
                       [] OTHER                       -> [screen EXCEPT !.pc = "error"]
  BY Zenon
<1>3. RoutesInv' /\ OneCallEach' /\ calls' \subseteq calls /\ \A n \in calls' : n.by # Screen
  BY <1>2, TakingKeepsRoutes, CallersDiffer
<1>4. screen \in ScreenState /\ screen.request \in RequestIds
  BY DEF FlowInv, TypeOK, HandlesAreSound
<1>5. m.id = screen.request /\ m.op # "request" /\ AnswerIsTrue(m, m.answer)
  BY AnswersTakenAreTrue DEF FlowInv, CallsAreExpected
<1>6. /\ screen' \in ScreenState /\ screen'.request = screen.request
      /\ screen'.pc = "approved" =>
           requests[screen.request] = Store!RequestWith("approved", screen'.session)
      /\ screen'.pc = "denied" => requests[screen.request].status = "denied"
      /\ screen'.pc \in {"approved", "denied", "stuck", "error"}
  <2>1. CASE m.answer.status = "approved"
    <3>1. screen' = [screen EXCEPT !.pc = "approved", !.session = m.answer.id]
      BY <1>2, <2>1
    <3>2. /\ m.answer.id \in SessionIds
          /\ requests[screen.request] = Store!RequestWith("approved", m.answer.id)
      BY <1>5, <2>1 DEF AnswerIsTrue
    <3> QED BY <1>4, <3>1, <3>2 DEF ScreenState
  <2>2. CASE m.answer.status = "denied"
    <3>1. screen' = [screen EXCEPT !.pc = "denied"]
      BY <1>2, <2>2
    <3>2. requests[screen.request].status = "denied"
      BY <1>5, <2>2 DEF AnswerIsTrue
    <3> QED BY <1>4, <3>1, <3>2 DEF ScreenState
  <2>3. CASE m.answer.status \notin {"approved", "denied"}
    <3>1. \E pc \in {"stuck", "error"} : screen' = [screen EXCEPT !.pc = pc]
      BY <1>2, <2>3
    <3> QED BY <1>4, <3>1 DEF ScreenState
  <2> QED BY <2>1, <2>2, <2>3
<1>7. TypeOK'
  BY <1>1, <1>6 DEF FlowInv, TypeOK
<1>8. CallsAreExpected'
  BY <1>1, <1>3 DEF FlowInv, CallsAreExpected
<1>9. HandlesAreSound'
  BY <1>1, <1>4, <1>6 DEF FlowInv, HandlesAreSound, FreeHandles
<1>10. ScreensTellTheTruth'
  BY <1>1, <1>6 DEF FlowInv, ScreensTellTheTruth
<1> QED BY <1>3, <1>7, <1>8, <1>9, <1>10 DEF FlowInv

LEMMA ActKeepsFlow ==
    ASSUME FlowInv, NEW op \in {"approve", "deny", "revoke"}, NEW id,
           IF op = "revoke" THEN id \in SessionIds ELSE id \in RequestIds,
           Act(op, id)
    PROVE  FlowInv'
<1> USE DEF Act
<1>1. UNCHANGED <<requests, sessions, audit, faults, now, handle, app, held, screen>>
  BY DEF stored
<1>2. \A m \in calls : m.by # Console
  BY DEF FlowInv, CallsAreExpected
<1>3. /\ RoutesInv' /\ OneCallEach'
      /\ \A n \in calls' : n \in calls \/ n.by = Console
  <2>1. op \in Operations /\ id \in Ids
    BY DEF Operations, Ids
  <2> QED BY <1>2, <2>1, SendingKeepsRoutes, CallersDiffer
<1>4. TypeOK'
  BY <1>1 DEF FlowInv, TypeOK
<1>5. CallsAreExpected'
  BY <1>1, <1>2, <1>3, CallersDiffer DEF FlowInv, CallsAreExpected
<1>6. HandlesAreSound'
  BY <1>1 DEF FlowInv, HandlesAreSound, FreeHandles
<1>7. ScreensTellTheTruth'
  BY <1>1 DEF FlowInv, ScreensTellTheTruth
<1> QED BY <1>3, <1>4, <1>5, <1>6, <1>7 DEF FlowInv

LEMMA ActEndsKeepsFlow ==
    ASSUME FlowInv, ActEnds
    PROVE  FlowInv'
<1> USE DEF ActEnds
<1>1. UNCHANGED <<requests, sessions, audit, faults, now, handle, app, held, screen>>
  BY DEF stored
<1>2. PICK m \in AnswersTo(Console) : Take(m)
  OBVIOUS
<1>3. RoutesInv' /\ OneCallEach' /\ calls' \subseteq calls /\ \A n \in calls' : n.by # Console
  BY <1>2, TakingKeepsRoutes, CallersDiffer
<1>4. TypeOK'
  BY <1>1 DEF FlowInv, TypeOK
<1>5. CallsAreExpected'
  BY <1>1, <1>3 DEF FlowInv, CallsAreExpected
<1>6. HandlesAreSound'
  BY <1>1 DEF FlowInv, HandlesAreSound, FreeHandles
<1>7. ScreensTellTheTruth'
  BY <1>1 DEF FlowInv, ScreensTellTheTruth
<1> QED BY <1>3, <1>4, <1>5, <1>6, <1>7 DEF FlowInv

\* What one handle may say, alone.
HandleIsTrue(g) ==
    /\ g.session # NoId /\ g.request # NoId =>
         requests[g.request] = Store!RequestWith("approved", g.session)
    /\ g.session # NoId /\ g.request = NoId =>
         /\ sessions[g.session].status # "absent"
         /\ sessions[g.session].request = NoRequest
    /\ g.status = "denied" => requests[g.request].status = "denied"

\* One handle changes, to something typed, sound and true, and the calls of
\* others stay as they were.
LEMMA HandleKeepsFlow ==
    ASSUME FlowInv, UNCHANGED <<stored, now, screen, console>>,
           RoutesInv', OneCallEach',
           NEW h \in Handles, NEW g \in HandleState,
           handle' = [handle EXCEPT ![h] = g],
           g.status # "none", g.wait # "none" \/ g.status = "denied" => g.request \in RequestIds,
           HandleIsTrue(g),
           \A n \in calls' : \/ n \in calls /\ n.by # h
                             \/ n.by = h /\ g.wait = "polling" /\ n.op = "detail" /\ n.id = g.request,
           app' \in {"idle", "paying", "requesting", "stuck"},
           app' # app => \A n \in calls' : n.by # App,
           app' = "requesting" => \E f \in Handles \ {h} : handle[f].status = "none",
           held' \in Handles \cup {NoId}
    PROVE  FlowInv'
<1>1. UNCHANGED <<requests, sessions, audit, faults>>
  BY DEF stored
<1>2. handle \in [Handles -> HandleState]
  BY DEF FlowInv, TypeOK
<1>3. handle'[h] = g /\ \A f \in Handles \ {h} : handle'[f] = handle[f]
  BY <1>2
<1>4. TypeOK'
  BY <1>2 DEF FlowInv, TypeOK
<1>5. CallsAreExpected'
  <2> SUFFICES ASSUME NEW n \in calls'
               PROVE  /\ n.by \in Handles => /\ handle'[n.by].wait = "polling"
                                             /\ n.op = "detail" /\ n.id = handle'[n.by].request
                      /\ n.by = App => \/ app' = "requesting" /\ n.op = "request"
                                       \/ app' = "paying" /\ n.op = "pay"
                      /\ n.by = Screen => /\ n.id = screen.request
                                          /\ \/ screen.pc = "loading" /\ n.op = "detail"
                                             \/ /\ screen.pc = "deciding"
                                                /\ n.op \in {"approve", "deny"}
                      /\ n.by = Console => console = "acting"
    BY DEF CallsAreExpected
  <2>1. CASE n \in calls /\ n.by # h
    BY <2>1, <1>3 DEF FlowInv, CallsAreExpected
  <2>2. CASE n.by = h /\ g.wait = "polling" /\ n.op = "detail" /\ n.id = g.request
    BY <2>2, <1>3, CallersDiffer
  <2> QED BY <2>1, <2>2
<1>6. HandlesAreSound'
  <2>1. \A f \in Handles : /\ handle'[f].status = "none" => handle'[f] = NoHandle
                           /\ handle'[f].wait # "none" \/ handle'[f].status = "denied" =>
                                handle'[f].request \in RequestIds
    BY <1>3 DEF FlowInv, HandlesAreSound
  <2>2. app' = "requesting" => \E f \in Handles : handle'[f].status = "none"
    BY <1>3
  <2>3. screen.pc # "closed" => screen.request \in RequestIds
    BY DEF FlowInv, HandlesAreSound
  <2> QED BY <2>1, <2>2, <2>3 DEF HandlesAreSound, FreeHandles
<1>7. ScreensTellTheTruth'
  <2>1. \A f \in Handles : HandleIsTrue(handle'[f])
    BY <1>3 DEF FlowInv, ScreensTellTheTruth, HandleIsTrue
  <2> QED BY <1>1, <2>1 DEF FlowInv, ScreensTellTheTruth, HandleIsTrue
<1> QED BY <1>4, <1>5, <1>6, <1>7 DEF FlowInv

\* A handle that waits has been asked for, and is not the one being asked for.
LEMMA WaitingHandles ==
    ASSUME FlowInv, NEW h \in Handles, handle[h].wait # "none"
    PROVE  /\ handle[h] \in HandleState /\ handle[h].status # "none"
           /\ handle[h].request \in RequestIds
           /\ HandleIsTrue(handle[h])
           /\ app = "requesting" => \E f \in Handles \ {h} : handle[f].status = "none"
           /\ app \in {"idle", "paying", "requesting", "stuck"}
           /\ held \in Handles \cup {NoId}
<1> USE DEF FlowInv
<1>1. handle[h] \in HandleState /\ app \in {"idle", "paying", "requesting", "stuck"}
      /\ held \in Handles \cup {NoId}
  BY DEF TypeOK
<1>2. handle[h].status # "none" /\ handle[h].request \in RequestIds
  BY DEF HandlesAreSound, NoHandle
<1>3. HandleIsTrue(handle[h])
  BY DEF ScreensTellTheTruth, HandleIsTrue
<1>4. app = "requesting" => \E f \in Handles \ {h} : handle[f].status = "none"
  BY <1>2 DEF HandlesAreSound, FreeHandles
<1> QED BY <1>1, <1>2, <1>3, <1>4

LEMMA PollAgainKeepsFlow ==
    ASSUME FlowInv, NEW h \in Handles, PollAgain(h)
    PROVE  FlowInv'
<1>1. /\ handle[h].wait = "sleeping" /\ Send(h, "detail", handle[h].request)
      /\ UNCHANGED <<stored, now, screen, console>> /\ app' = app /\ held' = held
  BY DEF PollAgain
<1>2. PICK g : g = [handle[h] EXCEPT !.wait = "polling", !.wake = 0]
  OBVIOUS
<1>3. /\ handle[h] \in HandleState /\ handle[h].status # "none"
      /\ handle[h].request \in RequestIds /\ HandleIsTrue(handle[h])
  BY <1>1, WaitingHandles
<1>4. /\ g \in HandleState /\ g.status = handle[h].status /\ g.request = handle[h].request
      /\ g.session = handle[h].session /\ g.wait = "polling"
  <2>1. 0 \in 0..MaxTime
    BY CallersAssumption
  <2> QED BY <1>2, <1>3, <2>1 DEF HandleState
<1>5. handle' = [handle EXCEPT ![h] = g]
  <2>1. handle \in [Handles -> HandleState]
    BY DEF FlowInv, TypeOK
  <2> QED BY <1>2, <2>1 DEF PollAgain
<1>6. HandleIsTrue(g)
  BY <1>3, <1>4 DEF HandleIsTrue
<1>7. \A n \in calls : n.by # h
  BY <1>1 DEF FlowInv, CallsAreExpected
<1>8. /\ RoutesInv' /\ OneCallEach'
      /\ \A n \in calls' :
           n \in calls \/ (n.by = h /\ n.op = "detail" /\ n.id = handle[h].request)
  <2>1. "detail" \in Operations /\ handle[h].request \in Ids
    BY <1>3 DEF Operations, Ids
  <2> QED BY <1>1, <1>3, <1>7, <2>1, SendingKeepsRoutes, CallersDiffer
<1>9. /\ app' = "requesting" => \E f \in Handles \ {h} : handle[f].status = "none"
      /\ app' \in {"idle", "paying", "requesting", "stuck"} /\ held' \in Handles \cup {NoId}
  BY <1>1, WaitingHandles
<1>10. \A n \in calls' : \/ n \in calls /\ n.by # h
                         \/ n.by = h /\ g.wait = "polling" /\ n.op = "detail" /\ n.id = g.request
  BY <1>4, <1>7, <1>8
<1> QED BY <1>1, <1>3, <1>4, <1>5, <1>6, <1>8, <1>9, <1>10, HandleKeepsFlow

LEMMA GetPollKeepsFlow ==
    ASSUME FlowInv, NEW h \in Handles, GetPoll(h)
    PROVE  FlowInv'
<1>1. /\ handle[h].wait = "polling"
      /\ UNCHANGED <<stored, now, screen, console>> /\ app' = app /\ held' = held
  BY DEF GetPoll
<1>2. /\ handle[h] \in HandleState /\ handle[h].status # "none"
      /\ handle[h].request \in RequestIds /\ HandleIsTrue(handle[h])
  BY <1>1, WaitingHandles
<1>3. /\ handle \in [Handles -> HandleState] /\ now \in 0..MaxTime /\ MaxTime \in Nat
      /\ handle[h].deadline \in 0..MaxTime
  BY CallersAssumption DEF FlowInv, TypeOK, HandleState
<1>4. PICK m \in AnswersTo(h) :
        /\ Take(m)
        /\ handle' = [handle EXCEPT ![h] =
             CASE m.answer.status = "network"  -> [handle[h] EXCEPT !.wait = "broken"]
               [] m.answer.status = "approved" ->
                    [handle[h] EXCEPT !.status = "approved", !.session = m.answer.id,
                                      !.wait = "over"]
               [] m.answer.status = "denied"   ->
                    [handle[h] EXCEPT !.status = "denied", !.wait = "over"]
               [] OTHER                        ->
                    IF now < handle[h].deadline
                      THEN [handle[h] EXCEPT !.wait = "sleeping", !.wake = now + 1]
                      ELSE [handle[h] EXCEPT !.wait = "timedOut"]]
  BY <1>3 DEF GetPoll
<1>5. PICK g : g = CASE m.answer.status = "network"  -> [handle[h] EXCEPT !.wait = "broken"]
                     [] m.answer.status = "approved" ->
                          [handle[h] EXCEPT !.status = "approved", !.session = m.answer.id,
                                            !.wait = "over"]
                     [] m.answer.status = "denied"   ->
                          [handle[h] EXCEPT !.status = "denied", !.wait = "over"]
                     [] OTHER                        ->
                          IF now < handle[h].deadline
                            THEN [handle[h] EXCEPT !.wait = "sleeping", !.wake = now + 1]
                            ELSE [handle[h] EXCEPT !.wait = "timedOut"]
  OBVIOUS
<1>6. handle' = [handle EXCEPT ![h] = g]
  BY <1>4, <1>5
<1>7. m.id = handle[h].request /\ m.op = "detail" /\ AnswerIsTrue(m, m.answer)
  BY AnswersTakenAreTrue DEF FlowInv, CallsAreExpected
<1>8. g \in HandleState /\ g.status # "none" /\ g.request = handle[h].request /\ HandleIsTrue(g)
  <2>1. CASE m.answer.status = "approved"
    <3>1. g = [handle[h] EXCEPT !.status = "approved", !.session = m.answer.id, !.wait = "over"]
      BY <1>5, <2>1
    <3>2. /\ m.answer.id \in SessionIds
          /\ requests[handle[h].request] = Store!RequestWith("approved", m.answer.id)
      BY <1>7, <2>1 DEF AnswerIsTrue
    <3>3. /\ g \in HandleState /\ g.status = "approved" /\ g.session = m.answer.id
          /\ g.request = handle[h].request
      BY <1>2, <3>1, <3>2 DEF HandleState
    <3>4. handle[h].request # NoId
      BY <1>2, RoutesAssumption
    <3> QED BY <3>2, <3>3, <3>4 DEF HandleIsTrue
  <2>2. CASE m.answer.status = "denied"
    <3>1. g = [handle[h] EXCEPT !.status = "denied", !.wait = "over"]
      BY <1>5, <2>2
    <3>2. requests[handle[h].request].status = "denied"
      BY <1>7, <2>2 DEF AnswerIsTrue
    <3>3. /\ g \in HandleState /\ g.status = "denied" /\ g.session = handle[h].session
          /\ g.request = handle[h].request
      BY <1>2, <3>1 DEF HandleState
    <3> QED BY <1>2, <3>2, <3>3 DEF HandleIsTrue
  <2>3. CASE m.answer.status \notin {"approved", "denied"}
    <3>1. \/ \E wait \in {"broken", "timedOut"} : g = [handle[h] EXCEPT !.wait = wait]
          \/ /\ now < handle[h].deadline
             /\ g = [handle[h] EXCEPT !.wait = "sleeping", !.wake = now + 1]
      BY <1>3, <1>5, <2>3
    <3>2. now < handle[h].deadline => now + 1 \in 0..MaxTime
      BY <1>3
    <3>3. /\ g \in HandleState /\ g.status = handle[h].status /\ g.session = handle[h].session
          /\ g.request = handle[h].request
      BY <1>2, <3>1, <3>2 DEF HandleState
    <3> QED BY <1>2, <3>3 DEF HandleIsTrue
  <2> QED BY <2>1, <2>2, <2>3
<1>9. RoutesInv' /\ OneCallEach' /\ calls' \subseteq calls /\ \A n \in calls' : n.by # h
  BY <1>1, <1>4, TakingKeepsRoutes, CallersDiffer
<1>10. /\ app' = "requesting" => \E f \in Handles \ {h} : handle[f].status = "none"
       /\ app' \in {"idle", "paying", "requesting", "stuck"} /\ held' \in Handles \cup {NoId}
  BY <1>1, WaitingHandles
<1>11. g.request \in RequestIds
  BY <1>2, <1>8
<1> QED BY <1>1, <1>6, <1>8, <1>9, <1>10, <1>11, HandleKeepsFlow

LEMMA GetSessionKeepsFlow ==
    ASSUME FlowInv, GetSession
    PROVE  FlowInv'
<1> DEFINE h == CHOOSE g \in FreeHandles : TRUE
<1>1. /\ app = "requesting" /\ app' = "idle"
      /\ UNCHANGED <<stored, now, screen, console>>
  BY DEF GetSession
<1>2. h \in FreeHandles
  BY <1>1 DEF FlowInv, HandlesAreSound
<1>3. h \in Handles /\ handle[h] = NoHandle
  BY <1>2 DEF FreeHandles, FlowInv, HandlesAreSound
<1>4. PICK m \in AnswersTo(App) :
         CASE m.answer.status = "pending_approval" ->
                /\ \E deadline \in now..MaxTime :
                     handle' = [handle EXCEPT ![h] =
                       [NoHandle EXCEPT !.status = "pending_approval", !.request = m.answer.id,
                                        !.wait = "polling", !.deadline = deadline]]
                /\ held' = h
                /\ calls' = (calls \ {m}) \cup {NewCall(h, "detail", m.answer.id)}
           [] m.answer.status = "approved" ->
                /\ handle' = [handle EXCEPT ![h] =
                     [NoHandle EXCEPT !.status = "approved", !.session = m.answer.id]]
                /\ held' = h
                /\ Take(m)
           [] OTHER -> Take(m) /\ UNCHANGED <<handle, held>>
  BY DEF GetSession
<1>5. now \in 0..MaxTime /\ held \in Handles \cup {NoId}
  BY DEF FlowInv, TypeOK
<1>6. /\ m \in calls /\ m.by = App /\ m.stage = "answered" /\ AnswerIsTrue(m, m.answer)
      /\ m.op = "request"
  BY <1>1, AnswersTakenAreTrue DEF FlowInv, CallsAreExpected
<1> HIDE DEF h
<1>7. \A n \in calls : n.by # h
  BY <1>3 DEF FlowInv, CallsAreExpected, NoHandle
<1>8. \A n \in calls \ {m} : n.by # App
  BY <1>6, CallersDiffer, RoutesAssumption DEF FlowInv, OneCallEach
<1>9. NoHandle \in HandleState
  BY CallersAssumption DEF NoHandle, HandleState
<1>10. CASE m.answer.status = "pending_approval"
  <2>1. PICK deadline \in now..MaxTime :
          handle' = [handle EXCEPT ![h] =
            [NoHandle EXCEPT !.status = "pending_approval", !.request = m.answer.id,
                             !.wait = "polling", !.deadline = deadline]]
    BY <1>4, <1>10
  <2>2. held' = h /\ calls' = (calls \ {m}) \cup {NewCall(h, "detail", m.answer.id)}
    BY <1>4, <1>10
  <2>3. PICK g : g = [NoHandle EXCEPT !.status = "pending_approval", !.request = m.answer.id,
                                      !.wait = "polling", !.deadline = deadline]
    OBVIOUS
  <2>4. m.answer.id \in RequestIds
    BY <1>6, <1>10 DEF AnswerIsTrue
  <2>5. /\ g \in HandleState /\ g.status = "pending_approval" /\ g.request = m.answer.id
        /\ g.wait = "polling" /\ g.session = NoId
    <3>1. deadline \in 0..MaxTime /\ 0 \in 0..MaxTime
      BY <1>5, CallersAssumption
    <3> QED BY <2>3, <2>4, <3>1 DEF NoHandle, HandleState
  <2>6. HandleIsTrue(g)
    BY <2>5 DEF HandleIsTrue
  <2>7. PICK k : k = NewCall(h, "detail", m.answer.id)
    OBVIOUS
  <2>8. /\ k \in Call /\ CallIsTyped(k) /\ k.by = h /\ k.op = "detail" /\ k.id = m.answer.id
        /\ k.stage = "sent"
    <3>1. "detail" \in Operations /\ m.answer.id \in Ids /\ h \in Callers
      BY <1>3, <2>4, CallersDiffer DEF Operations, Ids
    <3> QED BY <2>4, <2>7, <3>1, NewCallIsSound
  <2>9. calls' = (calls \ {m}) \cup {k}
    BY <2>2, <2>7
  <2>10. RoutesInv'
    <3>1. \A n \in calls' \ calls : n \in Call /\ CallIsTyped(n) /\ n.stage = "sent"
      BY <2>8, <2>9
    <3>2. \A n \in calls \ calls' : n.stage = "answered"
      BY <1>6, <2>9
    <3> QED BY <1>1, <3>1, <3>2, ClientsKeepRoutes DEF FlowInv
  <2>11. OneCallEach'
    BY <1>7, <2>8, <2>9 DEF FlowInv, OneCallEach
  <2>12. \A n \in calls' :
           \/ n \in calls /\ n.by # h
           \/ n.by = h /\ g.wait = "polling" /\ n.op = "detail" /\ n.id = g.request
    BY <1>7, <2>5, <2>8, <2>9
  <2>13. \A n \in calls' : n.by # App
    BY <1>3, <1>8, <2>8, <2>9, CallersDiffer
  <2>14. handle' = [handle EXCEPT ![h] = g]
    BY <2>1, <2>3
  <2>15. held' \in Handles \cup {NoId} /\ g.request \in RequestIds
    BY <1>3, <2>2, <2>4, <2>5
  <2> QED BY <1>1, <1>3, <2>5, <2>6, <2>10, <2>11, <2>12, <2>13, <2>14, <2>15, HandleKeepsFlow
<1>11. CASE m.answer.status = "approved"
  <2>1. PICK g : g = [NoHandle EXCEPT !.status = "approved", !.session = m.answer.id]
    OBVIOUS
  <2>2. handle' = [handle EXCEPT ![h] = g] /\ held' = h /\ Take(m)
    BY <1>4, <1>11, <2>1
  <2>3. /\ m.answer.id \in SessionIds /\ sessions[m.answer.id].status # "absent"
        /\ sessions[m.answer.id].request = NoRequest
    BY <1>6, <1>11 DEF AnswerIsTrue
  <2>4. /\ g \in HandleState /\ g.status = "approved" /\ g.session = m.answer.id
        /\ g.request = NoId /\ g.wait = "none"
    BY <1>9, <2>1, <2>3 DEF NoHandle, HandleState
  <2>5. HandleIsTrue(g)
    BY <2>3, <2>4 DEF HandleIsTrue
  <2>6. RoutesInv' /\ OneCallEach' /\ calls' \subseteq calls /\ \A n \in calls' : n.by # App
    BY <1>1, <2>2, TakingKeepsRoutes, CallersDiffer
  <2>7. \A n \in calls' :
          \/ n \in calls /\ n.by # h
          \/ n.by = h /\ g.wait = "polling" /\ n.op = "detail" /\ n.id = g.request
    BY <1>7, <2>6
  <2>8. held' \in Handles \cup {NoId}
    BY <1>3, <2>2
  <2> QED BY <1>1, <1>3, <2>2, <2>4, <2>5, <2>6, <2>7, <2>8, HandleKeepsFlow
<1>12. CASE m.answer.status \notin {"pending_approval", "approved"}
  <2>1. Take(m) /\ UNCHANGED <<handle, held>>
    BY <1>4, <1>12
  <2>2. RoutesInv' /\ OneCallEach' /\ calls' \subseteq calls /\ \A n \in calls' : n.by # App
    BY <1>1, <2>1, TakingKeepsRoutes, CallersDiffer
  <2>3. UNCHANGED <<requests, sessions, now, screen, console>>
    BY <1>1 DEF stored
  <2>4. TypeOK'
    BY <1>1, <2>1, <2>3 DEF FlowInv, TypeOK
  <2>5. CallsAreExpected'
    BY <1>1, <2>1, <2>2, <2>3 DEF FlowInv, CallsAreExpected
  <2>6. HandlesAreSound'
    BY <1>1, <2>1, <2>3 DEF FlowInv, HandlesAreSound, FreeHandles
  <2>7. ScreensTellTheTruth'
    BY <2>1, <2>3 DEF FlowInv, ScreensTellTheTruth
  <2> QED BY <2>2, <2>4, <2>5, <2>6, <2>7 DEF FlowInv
<1> QED BY <1>10, <1>11, <1>12

LEMMA TickKeepsFlow ==
    ASSUME FlowInv, Tick \/ UNCHANGED vars
    PROVE  FlowInv'
<1>1. /\ UNCHANGED <<requests, sessions, calls, audit, faults>>
      /\ UNCHANGED <<handle, app, held, screen, console>>
  BY DEF Tick, vars, routeVars, clients
<1>2. now' \in 0..MaxTime
  BY CallersAssumption DEF Tick, vars, FlowInv, TypeOK
<1>3. RoutesInv'
  BY <1>1, ClientsKeepRoutes DEF FlowInv, stored
<1>4. TypeOK' /\ OneCallEach' /\ CallsAreExpected'
  BY <1>1, <1>2 DEF FlowInv, TypeOK, OneCallEach, CallsAreExpected
<1>5. HandlesAreSound' /\ ScreensTellTheTruth'
  BY <1>1 DEF FlowInv, HandlesAreSound, FreeHandles, ScreensTellTheTruth
<1> QED BY <1>3, <1>4, <1>5 DEF FlowInv

-----------------------------------------------------------------------------
(* The theorems *)

LEMMA FlowInit ==
    ASSUME Init
    PROVE  FlowInv
<1> USE DEF Init, RoutesInit, Store!Init
<1>1. requests \in [RequestIds -> Store!Request] /\ sessions \in [SessionIds -> Store!Session]
  BY DEF Store!AbsentRequest, Store!RequestWith, Store!Request, Store!AbsentSession, Store!Session
<1>2. /\ \A r \in RequestIds : requests[r].status = "absent"
      /\ \A s \in SessionIds : sessions[s].status = "absent"
  BY DEF Store!AbsentRequest, Store!RequestWith, Store!AbsentSession
<1>3. RoutesTypeOK
  BY <1>1, RoutesAssumption DEF RoutesTypeOK, Store!TypeOK
<1>4. \A e \in Decisions : ~Decided(e)
  BY <1>2, EventsAreRecords DEF Decided
<1>5. \A e \in Decisions : DueTo(e) = {}
  BY DEF DueTo
<1>6. EventsFollowDecisions
  <2>1. \A e \in Decisions : e \in AuditEvent
    BY EventsAreRecords
  <2> QED BY <1>5, <2>1 DEF EventsFollowDecisions
<1>7. RoutesInv
  BY <1>2, <1>3, <1>4, <1>6
     DEF RoutesInv, CallsAreTyped, DecisionsAreAudited, ApprovalsHaveSessions, AnswersAreTrue
<1>8. TypeOK
  BY CallersAssumption DEF TypeOK, NoHandle, HandleState, ScreenState
<1>9. OneCallEach /\ CallsAreExpected
  BY DEF OneCallEach, CallsAreExpected
<1>10. HandlesAreSound /\ ScreensTellTheTruth
  BY DEF HandlesAreSound, ScreensTellTheTruth, NoHandle
<1> QED BY <1>7, <1>8, <1>9, <1>10 DEF FlowInv

LEMMA FlowStep ==
    ASSUME FlowInv, [Next]_vars
    PROVE  FlowInv'
<1>1. CASE User
  BY <1>1, AskForSessionKeepsFlow, PayInvoiceKeepsFlow, OpenScreenKeepsFlow, DecideKeepsFlow,
     ActKeepsFlow DEF User
<1>2. CASE Client
  BY <1>2, GetSessionKeepsFlow, PayAnswerKeepsFlow, ShowScreenKeepsFlow, ShowOutcomeKeepsFlow,
     ActEndsKeepsFlow DEF Client
<1>3. ASSUME NEW h \in Handles, Wait(h)
      PROVE  FlowInv'
  BY <1>3, GetPollKeepsFlow, PollAgainKeepsFlow DEF Wait
<1>4. ASSUME NEW m \in calls, Handle(m), UNCHANGED <<now, clients>>
      PROVE  FlowInv'
  <2>1. RoutesInv /\ OneCallEach
    BY DEF FlowInv
  <2>2. RoutesInv' /\ StoreMovesOn
    BY <1>4, <2>1, HandlersKeepRoutes, HandlersMoveOn
  <2>3. CallsContinue
    BY <1>4, <2>1, HandlersMoveOn, AnsweredCallsContinue
  <2> QED BY <1>4, <2>2, <2>3, GatewayKeepsFlow
<1>5. CASE FaultStep /\ UNCHANGED <<now, clients>>
  <2>1. RoutesInv /\ OneCallEach
    BY DEF FlowInv
  <2> QED BY <1>5, <2>1, FaultsKeepRoutes, FaultyCallsContinue, GatewayKeepsFlow
<1>6. CASE Tick \/ UNCHANGED vars
  BY <1>6, TickKeepsFlow
<1> QED BY <1>1, <1>2, <1>3, <1>4, <1>5, <1>6 DEF Next, Gateway

\* The inductive invariant of the routes and their clients.
THEOREM FlowInvariant == Spec => []FlowInv
<1>1. Init => FlowInv
  BY FlowInit
<1>2. FlowInv /\ [Next]_vars => FlowInv'
  BY FlowStep
<1> QED BY <1>1, <1>2, PTL DEF Spec

\* Whatever fails and whoever asks how often, the audit log claims only what
\* the store has done, and no decision twice (the handlers of session.ts).
THEOREM AuditFollowsStore == Spec => []AuditMatchesStore
<1>1. FlowInv => AuditMatchesStore
  <2> SUFFICES ASSUME FlowInv, NEW e \in AuditEvent, audit[e] > 0
               PROVE  audit[e] = 1 /\ e \in Decisions /\ Decided(e)
    BY DEF AuditMatchesStore
  <2>1. audit[e] # 0
    OBVIOUS
  <2> QED BY <2>1 DEF FlowInv, RoutesInv, EventsFollowDecisions
<1> QED BY <1>1, FlowInvariant, PTL

\* Without a fault, no decision goes unrecorded.
THEOREM QuietStoreIsAudited == Spec => []QuietStoreIsFullyAudited
<1>1. FlowInv => QuietStoreIsFullyAudited
  BY DEF FlowInv, RoutesInv, DecisionsAreAudited, DueTo, QuietStoreIsFullyAudited
<1> QED BY <1>1, FlowInvariant, PTL

\* What the page's handles and the approve screen say was done in the store.
THEOREM ScreensAreTrue == Spec => []ScreensTellTheTruth
<1>1. FlowInv => ScreensTellTheTruth
  BY DEF FlowInv
<1> QED BY <1>1, FlowInvariant, PTL
=============================================================================
