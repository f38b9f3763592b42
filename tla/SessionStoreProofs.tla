------------------------- MODULE SessionStoreProofs -------------------------
(***************************************************************************)
(* Theorems about the session store, for any number of handlers, requests, *)
(* sessions and faults.                                                    *)
(***************************************************************************)
EXTENDS SessionStore, TLAPS

USE DEF Shape!Request, Shape!Session

\* The records the store creates are records of the documents.
LEMMA RecordTypes ==
    /\ Shape!AbsentRequest \in Shape!Request
    /\ Shape!PendingRequest \in Shape!Request
    /\ Shape!DeniedRequest \in Shape!Request
    /\ Shape!AbsentSession \in Shape!Session
    /\ \A s \in SessionIds : Shape!RequestWith("approved", s) \in Shape!Request
    /\ \A r \in RequestIds \cup {NoRequest} : Shape!NewSession(r) \in Shape!Session
    /\ NoRequests \in [RequestIds -> Shape!Request]
    /\ NoSessions \in [SessionIds -> Shape!Session]
BY DEF Shape!AbsentRequest, Shape!PendingRequest, Shape!DeniedRequest, Shape!RequestWith,
       Shape!AbsentSession, Shape!NewSession, NoRequests, NoSessions

\* While one operation runs, every other handler is outside the store or
\* waits in the queue.
LEMMA OthersWait ==
    ASSUME TypeOK, OneOperationRuns,
           NEW h \in Handlers, AtHead(h), NEW g \in Handlers, g # h
    PROVE  pc[g] \in {"idle", "queued"}
BY DEF TypeOK, OneOperationRuns, Running, AtHead

\* A call names known kinds of ids.
LEMMA CallsAreJobs ==
    /\ Calls \subseteq Job
    /\ \A j \in Calls :
         /\ j.op \in {"approve", "deny"} => j.request \in RequestIds
         /\ j.op \in {"revoke", "markUsed"} => j.session \in SessionIds
         /\ j.op \in {"createRequest", "createSession"} => j.request = NoRequest
BY DEF Calls, Job, JobOf, Ops

-----------------------------------------------------------------------------
\* The empty store satisfies the invariant.
LEMMA InitStoreInv == Init => StoreInv
<1> SUFFICES ASSUME Init PROVE StoreInv
  OBVIOUS
<1>1. TypeOK
  BY StoreAssumption, RecordTypes
  DEF Init, TypeOK, Job, JobOf, Ops, Steps, Replies
<1>2. OneOperationRuns /\ OperationsAreSound /\ NoLostUpdate
  BY DEF Init, OneOperationRuns, Running, OperationsAreSound, NoLostUpdate
<1>3. RecordsAreWellFormed /\ ApprovedRequestHasItsSession
  BY DEF Init, RecordsAreWellFormed, ApprovedRequestHasItsSession, NoRequests, NoSessions,
         Shape!AbsentRequest, Shape!RequestWith
<1> QED BY <1>1, <1>2, <1>3 DEF StoreInv

\* The queue shrinks from its head when an operation settles.
LEMMA SettleTypes ==
    ASSUME TypeOK, NEW h \in Handlers, AtHead(h), NEW outcome \in Replies, Settle(h, outcome)
    PROVE  /\ queue' \in Seq(Handlers)
           /\ pc' \in [Handlers -> Steps]
           /\ reply' \in [Handlers -> Replies]
           /\ requestsCopy' \in [Handlers -> [RequestIds -> Shape!Request]]
           /\ sessionsCopy' \in [Handlers -> [SessionIds -> Shape!Session]]
BY RecordTypes DEF TypeOK, AtHead, Settle, Steps

\* Every step keeps every variable in its type.
LEMMA TypeOKPreserved ==
    ASSUME StoreInv, [Next]_vars
    PROVE  TypeOK'
<1> USE DEF StoreInv
<1>1. ASSUME NEW h \in Handlers, NEW j \in Calls, Submit(h, j)
      PROVE  TypeOK'
  BY <1>1, CallsAreJobs DEF TypeOK, Submit, Steps, Replies, documents, copies
<1>2. ASSUME NEW h \in Handlers, CreateRequest(h)
      PROVE  TypeOK'
  <2>1. PICK r \in FreeRequestIds :
          /\ job' = [job EXCEPT ![h].request = r]
          /\ requestsCopy' =
               [requestsCopy EXCEPT ![h] = [requests EXCEPT ![r] = Shape!PendingRequest]]
    BY <1>2 DEF CreateRequest
  <2>2. job' \in [Handlers -> Job]
    BY <2>1 DEF TypeOK, Job, FreeRequestIds
  <2>3. requestsCopy' \in [Handlers -> [RequestIds -> Shape!Request]]
    BY <2>1, RecordTypes DEF TypeOK, FreeRequestIds
  <2> QED
    BY <1>2, <2>2, <2>3 DEF TypeOK, CreateRequest, Proceed, Steps, documents
<1>3. ASSUME NEW h \in Handlers, RefuseResolution(h)
      PROVE  TypeOK'
  <2>1. PICK outcome \in Replies : Settle(h, outcome)
    BY <1>3 DEF RefuseResolution, Replies
  <2>2. AtHead(h)
    BY <1>3 DEF RefuseResolution, Starts
  <2> QED BY <1>3, <2>1, <2>2, SettleTypes DEF TypeOK, RefuseResolution, documents
<1>4. ASSUME NEW h \in Handlers, BeginApproval(h)
      PROVE  TypeOK'
  BY <1>4 DEF TypeOK, BeginApproval, Proceed, Steps, documents
<1>5. ASSUME NEW h \in Handlers, DenyRequest(h)
      PROVE  TypeOK'
  <2>1. requestsCopy' \in [Handlers -> [RequestIds -> Shape!Request]]
    BY <1>5, RecordTypes DEF TypeOK, DenyRequest
  <2> QED BY <1>5, <2>1 DEF TypeOK, DenyRequest, Proceed, Steps, documents
<1>6. ASSUME NEW h \in Handlers, WriteRequests(h)
      PROVE  TypeOK'
  <2>1. Settle(h, "ok") /\ AtHead(h) /\ "ok" \in Replies
    BY <1>6 DEF WriteRequests, Replies
  <2> QED BY <1>6, <2>1, SettleTypes DEF TypeOK, WriteRequests
<1>7. ASSUME NEW h \in Handlers, InsertSession(h)
      PROVE  TypeOK'
  <2>1. PICK s \in FreeSessionIds :
          /\ job' = [job EXCEPT ![h].session = s]
          /\ sessionsCopy' =
               [sessionsCopy EXCEPT
                  ![h] = [sessions EXCEPT ![s] = Shape!NewSession(job[h].request)]]
    BY <1>7 DEF InsertSession
  <2>2. job' \in [Handlers -> Job]
    BY <2>1 DEF TypeOK, Job, FreeSessionIds
  <2>3. Shape!NewSession(job[h].request) \in Shape!Session
    BY RecordTypes DEF TypeOK, Job
  <2>4. sessionsCopy' \in [Handlers -> [SessionIds -> Shape!Session]]
    BY <2>1, <2>3 DEF TypeOK, FreeSessionIds
  <2> QED BY <1>7, <2>2, <2>4 DEF TypeOK, InsertSession, Proceed, Steps, documents
<1>8. ASSUME NEW h \in Handlers, RevokeSession(h)
      PROVE  TypeOK'
  <2> DEFINE after == [sessions EXCEPT ![job[h].session].status = "revoked"]
  <2>a. after \in [SessionIds -> Shape!Session]
    BY DEF TypeOK
  <2>b. sessionsCopy' = [sessionsCopy EXCEPT ![h] = after]
    BY <1>8 DEF RevokeSession
  <2>1. sessionsCopy' \in [Handlers -> [SessionIds -> Shape!Session]]
    <3> HIDE DEF after
    <3> QED BY <2>a, <2>b DEF TypeOK
  <2> QED BY <1>8, <2>1 DEF TypeOK, RevokeSession, Proceed, Steps, documents
<1>9. ASSUME NEW h \in Handlers, MarkSessionUsed(h)
      PROVE  TypeOK'
  <2> DEFINE after == [sessions EXCEPT ![job[h].session].used = TRUE]
  <2>a. after \in [SessionIds -> Shape!Session]
    BY DEF TypeOK
  <2>b. sessionsCopy' = [sessionsCopy EXCEPT ![h] = after]
    BY <1>9 DEF MarkSessionUsed
  <2>1. sessionsCopy' \in [Handlers -> [SessionIds -> Shape!Session]]
    <3> HIDE DEF after
    <3> QED BY <2>a, <2>b DEF TypeOK
  <2> QED BY <1>9, <2>1 DEF TypeOK, MarkSessionUsed, Proceed, Steps, documents
<1>10. ASSUME NEW h \in Handlers, RefuseSessionChange(h)
       PROVE  TypeOK'
  <2>1. PICK outcome \in Replies : Settle(h, outcome)
    BY <1>10 DEF RefuseSessionChange, Replies
  <2>2. AtHead(h)
    BY <1>10 DEF RefuseSessionChange, Starts
  <2> QED BY <1>10, <2>1, <2>2, SettleTypes DEF TypeOK, RefuseSessionChange, documents
<1>11. ASSUME NEW h \in Handlers, WriteSessions(h)
       PROVE  TypeOK'
  <2>1. CASE job[h].op = "approve"
    <3>1. Shape!RequestWith("approved", job[h].session) \in Shape!Request
      BY <1>11, RecordTypes DEF WriteSessions, OperationsAreSound
    <3> DEFINE after == [requestsCopy[h] EXCEPT
                           ![job[h].request] = Shape!RequestWith("approved", job[h].session)]
    <3>a. after \in [RequestIds -> Shape!Request]
      BY <3>1 DEF TypeOK
    <3>b. requestsCopy' = [requestsCopy EXCEPT ![h] = after]
      BY <1>11, <2>1 DEF WriteSessions
    <3>2. requestsCopy' \in [Handlers -> [RequestIds -> Shape!Request]]
      <4> HIDE DEF after
      <4> QED BY <3>a, <3>b DEF TypeOK
    <3> QED BY <1>11, <2>1, <3>2 DEF TypeOK, WriteSessions, Proceed, Steps
  <2>2. CASE job[h].op # "approve"
    <3>1. Settle(h, "ok") /\ AtHead(h) /\ "ok" \in Replies
      BY <1>11, <2>2 DEF WriteSessions, Replies
    <3> QED BY <1>11, <3>1, SettleTypes DEF TypeOK, WriteSessions
  <2> QED BY <2>1, <2>2
<1>12. ASSUME NEW h \in Handlers, StorageFails(h)
       PROVE  TypeOK'
  <2>1. Settle(h, "storage_error") /\ AtHead(h) /\ "storage_error" \in Replies
    BY <1>12 DEF StorageFails, Replies
  <2>2. faults' \in 0..MaxFaults
    BY <1>12, StoreAssumption DEF TypeOK, StorageFails
  <2> QED BY <1>12, <2>1, <2>2, SettleTypes DEF TypeOK, StorageFails, documents
<1>13. CASE CrashAndRestart
  <2>1. faults' \in 0..MaxFaults
    BY <1>13, StoreAssumption DEF TypeOK, CrashAndRestart
  <2> QED BY <1>13, <2>1, RecordTypes DEF TypeOK, CrashAndRestart, Steps, Replies, documents
<1>14. CASE UNCHANGED vars
  BY <1>14 DEF TypeOK, vars, copies
<1> QED
  BY <1>1, <1>2, <1>3, <1>4, <1>5, <1>6, <1>7, <1>8, <1>9, <1>10, <1>11, <1>12, <1>13, <1>14
  DEF Next, Step

-----------------------------------------------------------------------------
\* Appending to a queue keeps the head it has.
LEMMA HeadOfAppend ==
    ASSUME NEW S, NEW q \in Seq(S), q # <<>>, NEW e \in S
    PROVE  Append(q, e) # <<>> /\ Head(Append(q, e)) = Head(q)
OBVIOUS

\* What one handler's operation has to satisfy in OperationsAreSound and
\* NoLostUpdate, so that the proofs can treat the running handler and the
\* waiting ones apart.
SoundAt(h) ==
  LET j == job[h] IN
    /\ pc[h] = "queued" => j \in Calls
    /\ pc[h] = "insert" => j.op = "approve"
    /\ pc[h] = "writeSessions" =>
         /\ j.op \in {"approve", "createSession", "revoke", "markUsed"}
         /\ j.session \in SessionIds
         /\ j.op \in {"approve", "createSession"} => sessions[j.session].status = "absent"
         /\ j.op = "createSession" => j.request = NoRequest
         /\ j.op = "revoke" => sessions[j.session].status = "active"
         /\ j.op = "markUsed" => sessions[j.session].status # "absent"
    /\ pc[h] \in {"insert", "writeSessions"} /\ j.op = "approve" =>
         /\ j.request \in RequestIds
         /\ requests[j.request] = Shape!PendingRequest
         /\ requestsCopy[h] = requests
    /\ pc[h] = "writeRequests" =>
         /\ j.op \in {"createRequest", "approve", "deny"}
         /\ j.request \in RequestIds
         /\ j.op = "createRequest" => requests[j.request].status = "absent"
         /\ j.op # "createRequest" => requests[j.request] = Shape!PendingRequest
         /\ j.op = "approve" => /\ j.session \in SessionIds
                                /\ sessions[j.session] = Shape!NewSession(j.request)
    /\ pc[h] = "writeRequests" => requestsCopy[h] = RequestsAfter(j)
    /\ pc[h] = "writeSessions" => sessionsCopy[h] = SessionsAfter(j)

\* The soundness of all operations, handler by handler.
LEMMA SoundAtAll ==
    (\A h \in Handlers : SoundAt(h)) <=> (OperationsAreSound /\ NoLostUpdate)
BY DEF SoundAt, OperationsAreSound, NoLostUpdate

\* The same in the next state.
LEMMA SoundAtAllPrimed ==
    (\A h \in Handlers : SoundAt(h))' <=> (OperationsAreSound /\ NoLostUpdate)'
BY SoundAtAll, PTL

\* When the head of the queue settles nobody is left inside an operation.
LEMMA SettleIsSound ==
    ASSUME StoreInv, NEW h \in Handlers, AtHead(h),
           NEW outcome, Settle(h, outcome), job' = job
    PROVE  OneOperationRuns' /\ (\A g \in Handlers : SoundAt(g))'
<1>1. \A g \in Handlers :
        /\ pc'[g] \in {"idle", "queued"}
        /\ pc'[g] = "queued" => pc[g] = "queued"
  BY OthersWait DEF StoreInv, TypeOK, Settle
<1>2. OneOperationRuns'
  BY <1>1 DEF OneOperationRuns, Running
<1>3. ASSUME NEW g \in Handlers PROVE SoundAt(g)'
  BY <1>1 DEF StoreInv, OperationsAreSound, SoundAt
<1> QED BY <1>2, <1>3

\* When the head of the queue moves on to its next step everybody else goes
\* on waiting, so only its own soundness is at stake.
LEMMA ProceedIsSound ==
    ASSUME StoreInv, NEW h \in Handlers, AtHead(h),
           NEW step \in Steps, Proceed(h, step),
           \A g \in Handlers : g # h => job'[g] = job[g],
           SoundAt(h)'
    PROVE  OneOperationRuns' /\ (\A g \in Handlers : SoundAt(g))'
<1>1. \A g \in Handlers : g # h =>
        /\ pc'[g] = pc[g]
        /\ pc'[g] \in {"idle", "queued"}
  BY OthersWait DEF StoreInv, TypeOK, Proceed
<1>2. OneOperationRuns'
  BY <1>1 DEF OneOperationRuns, Running, Proceed, AtHead
<1>3. ASSUME NEW g \in Handlers, g # h PROVE SoundAt(g)'
  BY <1>1, <1>3 DEF StoreInv, OperationsAreSound, SoundAt
<1> QED BY <1>2, <1>3

\* Every step keeps the operations sound and their copies current.
LEMMA OperationsPreserved ==
    ASSUME StoreInv, [Next]_vars
    PROVE  OneOperationRuns' /\ (\A g \in Handlers : SoundAt(g))'
<1> USE DEF StoreInv
<1>1. ASSUME NEW h \in Handlers, NEW j \in Calls, Submit(h, j)
      PROVE  OneOperationRuns' /\ (\A g \in Handlers : SoundAt(g))'
  <2>1. Running' = Running
    BY <1>1 DEF Submit, Running, TypeOK
  <2>2. \A g \in Handlers : AtHead(g) => AtHead(g)'
    BY <1>1, HeadOfAppend DEF Submit, AtHead, TypeOK
  <2>3. OneOperationRuns'
    BY <2>1, <2>2 DEF OneOperationRuns, Running
  <2>4. ASSUME NEW g \in Handlers, g # h PROVE SoundAt(g)'
    <3>1. pc'[g] = pc[g] /\ job'[g] = job[g] /\ UNCHANGED <<documents, copies>>
      BY <1>1, <2>4 DEF Submit, TypeOK
    <3>2. SoundAt(g)
      BY SoundAtAll
    <3> QED BY <3>1, <3>2 DEF SoundAt, documents, copies, RequestsAfter, SessionsAfter
  <2>5. SoundAt(h)'
    BY <1>1 DEF Submit, SoundAt, TypeOK
  <2> QED BY <2>3, <2>4, <2>5
<1>2. ASSUME NEW h \in Handlers, CreateRequest(h)
      PROVE  OneOperationRuns' /\ (\A g \in Handlers : SoundAt(g))'
  <2>1. PICK r \in FreeRequestIds :
          /\ job' = [job EXCEPT ![h].request = r]
          /\ requestsCopy' =
               [requestsCopy EXCEPT ![h] = [requests EXCEPT ![r] = Shape!PendingRequest]]
    BY <1>2 DEF CreateRequest
  <2>2. /\ AtHead(h) /\ Proceed(h, "writeRequests") /\ "writeRequests" \in Steps
        /\ job'[h].op = "createRequest" /\ job'[h].request = r
    BY <1>2, <2>1 DEF CreateRequest, Starts, Steps, TypeOK, Job
  <2>3. SoundAt(h)'
    BY <1>2, <2>1, <2>2
    DEF CreateRequest, SoundAt, Proceed, FreeRequestIds, RequestsAfter, TypeOK, documents
  <2> QED BY <2>1, <2>2, <2>3, ProceedIsSound DEF TypeOK
<1>3. ASSUME NEW h \in Handlers, RefuseResolution(h)
      PROVE  OneOperationRuns' /\ (\A g \in Handlers : SoundAt(g))'
  BY <1>3, SettleIsSound DEF RefuseResolution, Starts
<1>4. ASSUME NEW h \in Handlers, BeginApproval(h)
      PROVE  OneOperationRuns' /\ (\A g \in Handlers : SoundAt(g))'
  <2>1. /\ AtHead(h) /\ Proceed(h, "insert") /\ "insert" \in Steps
        /\ job[h].op = "approve" /\ job[h].request \in RequestIds
    BY <1>4, CallsAreJobs DEF BeginApproval, Starts, Steps, OperationsAreSound
  <2>2. requests[job[h].request] = Shape!PendingRequest
    BY <1>4, <2>1 DEF BeginApproval, RecordsAreWellFormed, TypeOK, Shape!PendingRequest,
                      Shape!RequestWith
  <2>3. SoundAt(h)'
    BY <1>4, <2>1, <2>2 DEF BeginApproval, SoundAt, Proceed, TypeOK, documents
  <2> QED BY <1>4, <2>1, <2>3, ProceedIsSound DEF BeginApproval
<1>5. ASSUME NEW h \in Handlers, DenyRequest(h)
      PROVE  OneOperationRuns' /\ (\A g \in Handlers : SoundAt(g))'
  <2>1. /\ AtHead(h) /\ Proceed(h, "writeRequests") /\ "writeRequests" \in Steps
        /\ job[h].op = "deny" /\ job[h].request \in RequestIds
    BY <1>5, CallsAreJobs DEF DenyRequest, Starts, Steps, OperationsAreSound
  <2>2. requests[job[h].request] = Shape!PendingRequest
    BY <1>5, <2>1 DEF DenyRequest, RecordsAreWellFormed, TypeOK, Shape!PendingRequest,
                      Shape!RequestWith
  <2>3. SoundAt(h)'
    BY <1>5, <2>1, <2>2 DEF DenyRequest, SoundAt, Proceed, TypeOK, documents, RequestsAfter
  <2> QED BY <1>5, <2>1, <2>3, ProceedIsSound DEF DenyRequest
<1>6. ASSUME NEW h \in Handlers, WriteRequests(h)
      PROVE  OneOperationRuns' /\ (\A g \in Handlers : SoundAt(g))'
  BY <1>6, SettleIsSound DEF WriteRequests
<1>7. ASSUME NEW h \in Handlers, InsertSession(h)
      PROVE  OneOperationRuns' /\ (\A g \in Handlers : SoundAt(g))'
  <2>1. PICK s \in FreeSessionIds :
          /\ job' = [job EXCEPT ![h].session = s]
          /\ sessionsCopy' =
               [sessionsCopy EXCEPT
                  ![h] = [sessions EXCEPT ![s] = Shape!NewSession(job[h].request)]]
    BY <1>7 DEF InsertSession
  <2>2. /\ AtHead(h) /\ Proceed(h, "writeSessions") /\ "writeSessions" \in Steps
        /\ job[h].op \in {"approve", "createSession"}
    BY <1>7 DEF InsertSession, Starts, Steps, OperationsAreSound
  <2>3. /\ job'[h].op = job[h].op /\ job'[h].request = job[h].request
        /\ job'[h].session = s /\ s \in SessionIds /\ sessions[s].status = "absent"
    BY <2>1 DEF TypeOK, Job, FreeSessionIds
  <2>4. job[h].op = "createSession" => job[h].request = NoRequest
    BY <1>7, CallsAreJobs DEF InsertSession, Starts, OperationsAreSound
  <2>5. job[h].op = "approve" =>
          /\ job[h].request \in RequestIds
          /\ requests[job[h].request] = Shape!PendingRequest
          /\ requestsCopy[h] = requests
    BY <1>7 DEF InsertSession, Starts, OperationsAreSound
  <2>6. sessionsCopy'[h] = SessionsAfter(job[h])'
    BY <1>7, <2>1, <2>2, <2>3 DEF TypeOK, SessionsAfter, InsertSession, documents
  <2>7. SoundAt(h)'
    BY <1>7, <2>2, <2>3, <2>4, <2>5, <2>6
    DEF InsertSession, SoundAt, Proceed, TypeOK, documents
  <2> QED BY <2>1, <2>2, <2>7, ProceedIsSound DEF TypeOK
<1>8. ASSUME NEW h \in Handlers, RevokeSession(h)
      PROVE  OneOperationRuns' /\ (\A g \in Handlers : SoundAt(g))'
  <2>1. /\ AtHead(h) /\ Proceed(h, "writeSessions") /\ "writeSessions" \in Steps
        /\ job[h].op = "revoke" /\ job[h].session \in SessionIds
    BY <1>8, CallsAreJobs DEF RevokeSession, Starts, Steps, OperationsAreSound
  <2>2. sessionsCopy'[h] = SessionsAfter(job[h])'
    BY <1>8, <2>1 DEF TypeOK, SessionsAfter, RevokeSession, documents
  <2>3. SoundAt(h)'
    BY <1>8, <2>1, <2>2 DEF RevokeSession, SoundAt, Proceed, TypeOK, documents
  <2> QED BY <1>8, <2>1, <2>3, ProceedIsSound DEF RevokeSession
<1>9. ASSUME NEW h \in Handlers, MarkSessionUsed(h)
      PROVE  OneOperationRuns' /\ (\A g \in Handlers : SoundAt(g))'
  <2>1. /\ AtHead(h) /\ Proceed(h, "writeSessions") /\ "writeSessions" \in Steps
        /\ job[h].op = "markUsed" /\ job[h].session \in SessionIds
    BY <1>9, CallsAreJobs DEF MarkSessionUsed, Starts, Steps, OperationsAreSound
  <2>2. sessionsCopy'[h] = SessionsAfter(job[h])'
    BY <1>9, <2>1 DEF TypeOK, SessionsAfter, MarkSessionUsed, documents
  <2>3. SoundAt(h)'
    BY <1>9, <2>1, <2>2 DEF MarkSessionUsed, SoundAt, Proceed, TypeOK, documents
  <2> QED BY <1>9, <2>1, <2>3, ProceedIsSound DEF MarkSessionUsed
<1>10. ASSUME NEW h \in Handlers, RefuseSessionChange(h)
       PROVE  OneOperationRuns' /\ (\A g \in Handlers : SoundAt(g))'
  BY <1>10, SettleIsSound DEF RefuseSessionChange, Starts
<1>11. ASSUME NEW h \in Handlers, WriteSessions(h)
       PROVE  OneOperationRuns' /\ (\A g \in Handlers : SoundAt(g))'
  <2>1. CASE job[h].op # "approve"
    BY <1>11, <2>1, SettleIsSound DEF WriteSessions
  <2>2. CASE job[h].op = "approve"
    <3>1. /\ AtHead(h) /\ Proceed(h, "writeRequests") /\ "writeRequests" \in Steps
          /\ pc'[h] = "writeRequests" /\ UNCHANGED <<requests, job>>
      BY <1>11, <2>2 DEF WriteSessions, Proceed, Steps, TypeOK
    <3>2. /\ job[h].request \in RequestIds
          /\ job[h].session \in SessionIds
          /\ requests[job[h].request] = Shape!PendingRequest
          /\ requestsCopy[h] = requests
          /\ sessionsCopy[h] = SessionsAfter(job[h])
      BY <1>11, <2>2 DEF WriteSessions, OperationsAreSound, NoLostUpdate
    <3>3. sessions'[job[h].session] = Shape!NewSession(job[h].request)
      BY <1>11, <2>2, <3>2 DEF WriteSessions, SessionsAfter, TypeOK
    <3>4. requestsCopy'[h] = RequestsAfter(job[h])'
      BY <1>11, <2>2, <3>1, <3>2 DEF WriteSessions, RequestsAfter, TypeOK
    <3>5. SoundAt(h)'
      BY <2>2, <3>1, <3>2, <3>3, <3>4 DEF SoundAt
    <3> QED BY <3>1, <3>5, ProceedIsSound
  <2> QED BY <2>1, <2>2
<1>12. ASSUME NEW h \in Handlers, StorageFails(h)
       PROVE  OneOperationRuns' /\ (\A g \in Handlers : SoundAt(g))'
  BY <1>12, SettleIsSound DEF StorageFails
<1>13. CASE CrashAndRestart
  BY <1>13 DEF CrashAndRestart, OneOperationRuns, Running, SoundAt
<1>14. CASE UNCHANGED vars
  <2>1. \A g \in Handlers : SoundAt(g)
    BY SoundAtAll
  <2> QED
    BY <1>14, <2>1 DEF vars, copies, OneOperationRuns, Running, AtHead, SoundAt, RequestsAfter,
                       SessionsAfter
<1> QED
  BY <1>1, <1>2, <1>3, <1>4, <1>5, <1>6, <1>7, <1>8, <1>9, <1>10, <1>11, <1>12, <1>13, <1>14
  DEF Next, Step

-----------------------------------------------------------------------------
\* How one step changes the documents: not at all, by the change of one
\* resolving or creating operation on one request, or by the change of one
\* operation on one session.
LEMMA DocumentSteps ==
    ASSUME StoreInv, [Next]_vars
    PROVE  \/ UNCHANGED documents
           \/ /\ \E h \in Handlers : /\ pc[h] = "writeRequests"
                                     /\ requests' = RequestsAfter(job[h])
              /\ sessions' = sessions
           \/ /\ \E h \in Handlers : /\ pc[h] = "writeSessions"
                                     /\ sessions' = SessionsAfter(job[h])
              /\ requests' = requests
<1> USE DEF StoreInv, documents
<1>1. CASE \E h \in Handlers : WriteRequests(h)
  BY <1>1 DEF WriteRequests, NoLostUpdate
<1>2. CASE \E h \in Handlers : WriteSessions(h)
  BY <1>2 DEF WriteSessions, NoLostUpdate
<1>3. CASE \E h \in Handlers : \E j \in Calls : Submit(h, j)
  BY <1>3 DEF Submit
<1>4. CASE \E h \in Handlers : \/ CreateRequest(h) \/ RefuseResolution(h) \/ BeginApproval(h)
                               \/ DenyRequest(h)
  BY <1>4 DEF CreateRequest, RefuseResolution, BeginApproval, DenyRequest
<1>5. CASE \E h \in Handlers : \/ InsertSession(h) \/ RevokeSession(h) \/ MarkSessionUsed(h)
                               \/ RefuseSessionChange(h)
  BY <1>5 DEF InsertSession, RevokeSession, MarkSessionUsed, RefuseSessionChange
<1>6. CASE (\E h \in Handlers : StorageFails(h)) \/ CrashAndRestart \/ UNCHANGED vars
  BY <1>6 DEF StorageFails, CrashAndRestart, vars
<1> QED BY <1>1, <1>2, <1>3, <1>4, <1>5, <1>6 DEF Next, Step

\* The two document changes, record by record.
LEMMA SessionChange ==
    ASSUME TypeOK, NEW j \in Job, j.session \in SessionIds
    PROVE  /\ \A s \in SessionIds : s # j.session => SessionsAfter(j)[s] = sessions[s]
           /\ j.op = "revoke" =>
                SessionsAfter(j)[j.session] = [sessions[j.session] EXCEPT !.status = "revoked"]
           /\ j.op = "markUsed" =>
                SessionsAfter(j)[j.session] = [sessions[j.session] EXCEPT !.used = TRUE]
           /\ j.op \notin {"revoke", "markUsed"} =>
                SessionsAfter(j)[j.session] = Shape!NewSession(j.request)
BY DEF TypeOK, SessionsAfter

\* The changes of the requests.
LEMMA RequestChange ==
    ASSUME TypeOK, NEW j \in Job, j.request \in RequestIds
    PROVE  /\ \A r \in RequestIds : r # j.request => RequestsAfter(j)[r] = requests[r]
           /\ j.op = "createRequest" => RequestsAfter(j)[j.request] = Shape!PendingRequest
           /\ j.op = "approve" =>
                RequestsAfter(j)[j.request] = Shape!RequestWith("approved", j.session)
           /\ j.op \notin {"createRequest", "approve"} =>
                RequestsAfter(j)[j.request] = Shape!DeniedRequest
BY DEF TypeOK, RequestsAfter

\* Every step only moves sessions and requests forward.
LEMMA OnlyForwardStep ==
    ASSUME StoreInv, [Next]_vars
    PROVE  OnlyForward
<1> USE DEF StoreInv
<1>1. CASE UNCHANGED documents
  BY <1>1 DEF documents, OnlyForward
<1>2. ASSUME NEW h \in Handlers, pc[h] = "writeRequests",
             requests' = RequestsAfter(job[h]), sessions' = sessions
      PROVE  OnlyForward
  <2>1. /\ job[h] \in Job
        /\ job[h].request \in RequestIds
        /\ job[h].op \in {"createRequest", "approve", "deny"}
        /\ requests[job[h].request].status \in {"absent", "pending"}
    BY <1>2 DEF OperationsAreSound, TypeOK, Shape!PendingRequest, Shape!RequestWith
  <2>2. requests'[job[h].request].status # "absent"
    <3>1. requests'[job[h].request] \in {Shape!PendingRequest, Shape!DeniedRequest,
                                         Shape!RequestWith("approved", job[h].session)}
      BY <1>2, <2>1, RequestChange
    <3> QED BY <3>1 DEF Shape!PendingRequest, Shape!DeniedRequest, Shape!RequestWith
  <2> QED BY <1>2, <2>1, <2>2, RequestChange DEF OnlyForward
<1>3. ASSUME NEW h \in Handlers, pc[h] = "writeSessions",
             sessions' = SessionsAfter(job[h]), requests' = requests
      PROVE  OnlyForward
  <2> DEFINE j == job[h]
             s == j.session
  <2>1. /\ j \in Job /\ s \in SessionIds /\ sessions[s] \in Shape!Session
        /\ j.op \in {"approve", "createSession", "revoke", "markUsed"}
    BY <1>3 DEF OperationsAreSound, TypeOK
  <2>2. /\ sessions[s].status = "revoked" => sessions'[s].status = "revoked"
        /\ sessions[s].used => sessions'[s].used
        /\ sessions[s].status # "absent" =>
             sessions'[s].status # "absent" /\ sessions'[s].request = sessions[s].request
    <3>1. CASE j.op \in {"approve", "createSession"}
      <4>1. sessions[s].status = "absent"
        BY <1>3, <3>1 DEF OperationsAreSound
      <4>2. sessions[s].used = FALSE
        BY <2>1, <4>1 DEF RecordsAreWellFormed, Shape!AbsentSession
      <4> QED BY <4>1, <4>2
    <3>2. CASE j.op = "revoke"
      BY <1>3, <2>1, <3>2, SessionChange
    <3>3. CASE j.op = "markUsed"
      BY <1>3, <2>1, <3>3, SessionChange
    <3> QED BY <2>1, <3>1, <3>2, <3>3
  <2> QED BY <1>3, <2>1, <2>2, SessionChange DEF OnlyForward
<1> QED BY <1>1, <1>2, <1>3, DocumentSteps

\* Every step keeps the records well formed and approvals linked.
LEMMA RecordsPreserved ==
    ASSUME StoreInv, [Next]_vars
    PROVE  RecordsAreWellFormed' /\ ApprovedRequestHasItsSession'
<1> USE DEF StoreInv
<1>1. CASE UNCHANGED documents
  BY <1>1 DEF documents, RecordsAreWellFormed, ApprovedRequestHasItsSession
<1>2. ASSUME NEW h \in Handlers, pc[h] = "writeRequests",
             requests' = RequestsAfter(job[h]), sessions' = sessions
      PROVE  RecordsAreWellFormed' /\ ApprovedRequestHasItsSession'
  <2> DEFINE j == job[h]
             r == j.request
  <2>1. /\ j \in Job /\ r \in RequestIds
        /\ j.op \in {"createRequest", "approve", "deny"}
        /\ j.op = "approve" => /\ j.session \in SessionIds
                               /\ sessions[j.session] = Shape!NewSession(r)
    BY <1>2 DEF OperationsAreSound, TypeOK
  <2>2. /\ requests'[r].status # "approved" => requests'[r].session = NoSession
        /\ requests'[r].status = "approved" =>
             /\ requests'[r].session \in SessionIds
             /\ sessions[requests'[r].session].status # "absent"
             /\ sessions[requests'[r].session].request = r
    <3>1. CASE j.op = "createRequest"
      <4>1. requests'[r] = Shape!PendingRequest
        BY <1>2, <2>1, <3>1, RequestChange
      <4> QED BY <4>1 DEF Shape!PendingRequest, Shape!RequestWith
    <3>2. CASE j.op = "deny"
      <4>1. requests'[r] = Shape!DeniedRequest
        BY <1>2, <2>1, <3>2, RequestChange
      <4> QED BY <4>1 DEF Shape!DeniedRequest, Shape!RequestWith
    <3>3. CASE j.op = "approve"
      <4>1. requests'[r] = Shape!RequestWith("approved", j.session)
        BY <1>2, <2>1, <3>3, RequestChange
      <4> QED BY <2>1, <3>3, <4>1 DEF Shape!RequestWith, Shape!NewSession
    <3> QED BY <2>1, <3>1, <3>2, <3>3
  <2> QED BY <1>2, <2>1, <2>2, RequestChange
          DEF RecordsAreWellFormed, ApprovedRequestHasItsSession
<1>3. ASSUME NEW h \in Handlers, pc[h] = "writeSessions",
             sessions' = SessionsAfter(job[h]), requests' = requests
      PROVE  RecordsAreWellFormed' /\ ApprovedRequestHasItsSession'
  <2> DEFINE j == job[h]
             s == j.session
  <2>1. /\ j \in Job /\ s \in SessionIds /\ sessions[s] \in Shape!Session
        /\ j.op \in {"approve", "createSession", "revoke", "markUsed"}
        /\ j.op = "markUsed" => sessions[s].status # "absent"
    BY <1>3 DEF OperationsAreSound, TypeOK
  <2>2. sessions'[s].status # "absent"
    <3>1. CASE j.op \in {"approve", "createSession"}
      <4>1. sessions'[s] = Shape!NewSession(j.request)
        BY <1>3, <2>1, <3>1, SessionChange
      <4> QED BY <4>1 DEF Shape!NewSession
    <3>2. CASE j.op = "revoke"
      BY <1>3, <2>1, <3>2, SessionChange
    <3>3. CASE j.op = "markUsed"
      BY <1>3, <2>1, <3>3, SessionChange
    <3> QED BY <2>1, <3>1, <3>2, <3>3
  <2>3. RecordsAreWellFormed'
    BY <1>3, <2>1, <2>2, SessionChange DEF RecordsAreWellFormed
  <2>4. ApprovedRequestHasItsSession'
    BY <1>3, OnlyForwardStep DEF ApprovedRequestHasItsSession, OnlyForward
  <2> QED BY <2>3, <2>4
<1> QED BY <1>1, <1>2, <1>3, DocumentSteps

-----------------------------------------------------------------------------
(* The store's documents have their shape, one operation runs at a time,   *)
(* nothing is overwritten with a stale copy, and an approved request's     *)
(* session exists, in every reachable state (SessionStore.serialize and    *)
(* the write order of approveRequest).                                     *)
THEOREM StoreInvariant == Spec => []StoreInv
<1>1. Init => StoreInv
  BY InitStoreInv
<1>2. StoreInv /\ [Next]_vars => StoreInv'
  <2> SUFFICES ASSUME StoreInv, [Next]_vars PROVE StoreInv'
    OBVIOUS
  <2>1. TypeOK'
    BY TypeOKPreserved
  <2>2. OneOperationRuns' /\ OperationsAreSound' /\ NoLostUpdate'
    BY OperationsPreserved, SoundAtAllPrimed
  <2>3. RecordsAreWellFormed' /\ ApprovedRequestHasItsSession'
    BY RecordsPreserved
  <2> QED BY <2>1, <2>2, <2>3 DEF StoreInv
<1> QED BY <1>1, <1>2, PTL DEF Spec

(* No handler ever writes back a document from which another handler's     *)
(* update is missing: what SessionStore.serialize exists for.              *)
THEOREM NoUpdateIsLost == Spec => []NoLostUpdate
<1>1. StoreInv => NoLostUpdate
  BY DEF StoreInv
<1> QED BY <1>1, StoreInvariant, PTL

(* A poller that sees a request approved finds the request's own session,  *)
(* also after a crash between the two writes of approveRequest.            *)
THEOREM ApprovedRequestsHaveSessions == Spec => []ApprovedRequestHasItsSession
<1>1. StoreInv => ApprovedRequestHasItsSession
  BY DEF StoreInv
<1> QED BY <1>1, StoreInvariant, PTL

(* Revocation, consumption and the resolution of a request are for good.   *)
THEOREM OnlyForwardSteps == Spec => SessionsAndRequestsOnlyMoveForward
<1>1. StoreInv /\ [Next]_vars => [OnlyForward]_vars
  BY OnlyForwardStep
<1> QED BY <1>1, StoreInvariant, PTL DEF Spec, SessionsAndRequestsOnlyMoveForward

-----------------------------------------------------------------------------
(* Acknowledgements *)

\* What the acknowledgement of operation j promises of the documents.
Promised(j) ==
    /\ j.op = "createRequest" =>
         j.request \in RequestIds /\ requests[j.request].status # "absent"
    /\ j.op = "approve" =>
         /\ j.request \in RequestIds /\ j.session \in SessionIds
         /\ requests[j.request] = Shape!RequestWith("approved", j.session)
         /\ sessions[j.session].status # "absent"
         /\ sessions[j.session].request = j.request
    /\ j.op = "deny" =>
         j.request \in RequestIds /\ requests[j.request] = Shape!DeniedRequest
    /\ j.op = "createSession" =>
         j.session \in SessionIds /\ sessions[j.session].status # "absent"
    /\ j.op = "revoke" =>
         j.session \in SessionIds /\ sessions[j.session].status = "revoked"
    /\ j.op = "markUsed" =>
         j.session \in SessionIds /\ sessions[j.session].used

\* A handler keeps its acknowledgement until its next call, and the promise
\* with it.
AcksHold == \A h \in Handlers : reply[h] = "ok" => pc[h] = "idle" /\ Promised(job[h])

\* No step of any handler takes back what was promised.
LEMMA PromiseKept ==
    ASSUME StoreInv, [Next]_vars, NEW j \in Job, Promised(j)
    PROVE  Promised(j)'
<1>1. OnlyForward
  BY OnlyForwardStep
<1> QED BY <1>1 DEF OnlyForward, Promised, Shape!RequestWith, Shape!DeniedRequest

\* A write of session-requests.json establishes what its acknowledgement
\* promises.
LEMMA RequestWritePromises ==
    ASSUME StoreInv, NEW h \in Handlers, WriteRequests(h)
    PROVE  Promised(job[h])'
<1> DEFINE j == job[h]
<1> USE DEF StoreInv
<1>1. /\ requests' = RequestsAfter(j) /\ UNCHANGED <<sessions, job>>
      /\ j \in Job /\ j.request \in RequestIds
      /\ j.op \in {"createRequest", "approve", "deny"}
      /\ j.op = "approve" => /\ j.session \in SessionIds
                             /\ sessions[j.session] = Shape!NewSession(j.request)
  BY DEF WriteRequests, NoLostUpdate, OperationsAreSound, TypeOK
<1>2. /\ j.op = "createRequest" => requests'[j.request] = Shape!PendingRequest
      /\ j.op = "approve" => requests'[j.request] = Shape!RequestWith("approved", j.session)
      /\ j.op = "deny" => requests'[j.request] = Shape!DeniedRequest
  BY <1>1, RequestChange
<1> QED BY <1>1, <1>2
        DEF Promised, Shape!NewSession, Shape!PendingRequest, Shape!RequestWith

\* So does the last write of an operation on sessions.json.
LEMMA SessionWritePromises ==
    ASSUME StoreInv, NEW h \in Handlers, WriteSessions(h), job[h].op # "approve"
    PROVE  Promised(job[h])'
<1> DEFINE j == job[h]
<1> USE DEF StoreInv
<1>1. /\ sessions' = SessionsAfter(j) /\ UNCHANGED <<requests, job>>
      /\ j \in Job /\ j.session \in SessionIds
      /\ sessions[j.session] \in Shape!Session
      /\ j.op \in {"createSession", "revoke", "markUsed"}
  BY DEF WriteSessions, NoLostUpdate, OperationsAreSound, TypeOK
<1>2. /\ j.op = "revoke" =>
           sessions'[j.session] = [sessions[j.session] EXCEPT !.status = "revoked"]
      /\ j.op = "markUsed" =>
           sessions'[j.session] = [sessions[j.session] EXCEPT !.used = TRUE]
      /\ j.op = "createSession" => sessions'[j.session] = Shape!NewSession(j.request)
  BY <1>1, SessionChange
<1>3. /\ j.op = "revoke" => sessions'[j.session].status = "revoked"
      /\ j.op = "markUsed" => sessions'[j.session].used
      /\ j.op = "createSession" => sessions'[j.session].status # "absent"
  BY <1>1, <1>2 DEF Shape!NewSession
<1> QED BY <1>1, <1>3 DEF Promised

\* An acknowledgement is an old one of an operation that stays as it is, or
\* it is given by the last write of the operation.
LEMMA AckSteps ==
    ASSUME StoreInv, AcksHold, [Next]_vars, NEW h \in Handlers, reply'[h] = "ok"
    PROVE  \/ reply[h] = "ok" /\ pc'[h] = "idle" /\ job'[h] = job[h]
           \/ pc'[h] = "idle" /\ Promised(job[h])'
<1> DEFINE Goal == \/ reply[h] = "ok" /\ pc'[h] = "idle" /\ job'[h] = job[h]
                   \/ pc'[h] = "idle" /\ Promised(job[h])'
<1> USE DEF StoreInv
<1>0. reply[h] = "ok" => pc[h] = "idle"
  BY DEF AcksHold
<1>1. ASSUME NEW g \in Handlers, NEW j \in Calls, Submit(g, j) PROVE Goal
  BY <1>0, <1>1 DEF Submit, TypeOK
<1>2. ASSUME NEW g \in Handlers,
             \/ CreateRequest(g) \/ BeginApproval(g) \/ DenyRequest(g)
             \/ InsertSession(g) \/ RevokeSession(g) \/ MarkSessionUsed(g)
      PROVE  Goal
  <2>1. pc[g] # "idle" /\ reply' = reply
    BY <1>2 DEF CreateRequest, BeginApproval, DenyRequest, InsertSession, RevokeSession,
                MarkSessionUsed, Starts, Proceed
  <2>2. g # h
    BY <1>0, <2>1
  <2>3. pc'[h] = pc[h]
    BY <1>2, <2>2 DEF CreateRequest, BeginApproval, DenyRequest, InsertSession, RevokeSession,
                      MarkSessionUsed, Proceed, TypeOK
  <2>4. job'[h] = job[h]
    BY <1>2, <2>2 DEF CreateRequest, BeginApproval, DenyRequest, InsertSession, RevokeSession,
                      MarkSessionUsed, TypeOK
  <2> QED BY <1>0, <2>1, <2>3, <2>4
<1>3. ASSUME NEW g \in Handlers, RefuseResolution(g) \/ RefuseSessionChange(g) \/ StorageFails(g)
      PROVE  Goal
  <2>1. PICK outcome : Settle(g, outcome) /\ outcome # "ok" /\ job' = job
    BY <1>3 DEF RefuseResolution, RefuseSessionChange, StorageFails
  <2> QED BY <1>0, <2>1 DEF Settle, TypeOK
<1>4. ASSUME NEW g \in Handlers, WriteRequests(g) PROVE Goal
  <2>1. Settle(g, "ok") /\ job' = job
    BY <1>4 DEF WriteRequests
  <2>2. CASE g = h
    BY <1>4, <2>1, <2>2, RequestWritePromises DEF Settle, TypeOK
  <2>3. CASE g # h
    BY <1>0, <2>1, <2>3 DEF Settle, TypeOK
  <2> QED BY <2>2, <2>3
<1>5. ASSUME NEW g \in Handlers, WriteSessions(g) PROVE Goal
  <2>1. job' = job
    BY <1>5 DEF WriteSessions
  <2>2. CASE job[g].op = "approve"
    <3>1. pc[g] # "idle" /\ Proceed(g, "writeRequests")
      BY <1>5, <2>2 DEF WriteSessions
    <3> QED BY <1>0, <2>1, <3>1 DEF Proceed, TypeOK
  <2>3. CASE job[g].op # "approve"
    <3>1. Settle(g, "ok")
      BY <1>5, <2>3 DEF WriteSessions
    <3>2. CASE g = h
      BY <1>5, <2>3, <3>1, <3>2, SessionWritePromises DEF Settle, TypeOK
    <3>3. CASE g # h
      BY <1>0, <2>1, <3>1, <3>3 DEF Settle, TypeOK
    <3> QED BY <3>2, <3>3
  <2> QED BY <2>2, <2>3
<1>6. CASE CrashAndRestart
  BY <1>0, <1>6 DEF CrashAndRestart
<1>7. CASE UNCHANGED vars
  BY <1>0, <1>7 DEF vars
<1> QED BY <1>1, <1>2, <1>3, <1>4, <1>5, <1>6, <1>7 DEF Next, Step

(* What a handler was told is done stays done: no later call, failed write *)
(* or crash undoes an acknowledged creation, resolution, revocation or     *)
(* consumption (the awaited writes of every store operation, and           *)
(* JsonStore's replace-by-rename).                                         *)
THEOREM AcknowledgementsLast == Spec => []AcknowledgedIsDurable
<1>1. Init => AcksHold
  BY DEF Init, AcksHold
<1>2. StoreInv /\ AcksHold /\ [Next]_vars => AcksHold'
  <2> SUFFICES ASSUME StoreInv, AcksHold, [Next]_vars,
                      NEW h \in Handlers, reply'[h] = "ok"
               PROVE  pc'[h] = "idle" /\ Promised(job[h])'
    BY DEF AcksHold
  <2>1. CASE reply[h] = "ok" /\ pc'[h] = "idle" /\ job'[h] = job[h]
    <3>1. job[h] \in Job
      BY DEF StoreInv, TypeOK
    <3>2. \A j \in Job : Promised(j) => Promised(j)'
      BY PromiseKept
    <3>3. Promised(job[h])
      BY <2>1 DEF AcksHold
    <3> QED BY <2>1, <3>1, <3>2, <3>3 DEF Promised
  <2> QED BY <2>1, AckSteps
<1>3. StoreInv /\ AcksHold => AcknowledgedIsDurable
  <2> SUFFICES ASSUME StoreInv, AcksHold PROVE AcknowledgedIsDurable
    OBVIOUS
  <2>1. \A h \in Handlers : job[h].op \in Ops
    BY DEF StoreInv, TypeOK, Job
  <2>2. \A h \in Handlers : reply[h] = "ok" => Promised(job[h])
    BY DEF AcksHold
  <2> QED BY <2>1, <2>2, Zenon DEF Ops, Promised, AcknowledgedIsDurable
<1> QED BY <1>1, <1>2, <1>3, StoreInvariant, PTL DEF Spec

-----------------------------------------------------------------------------
(* Refinement *)

\* The abstract change that a write of session-requests.json stands for.
LEMMA RequestWriteRefines ==
    ASSUME StoreInv, NEW h \in Handlers, pc[h] = "writeRequests",
           NEW j \in Job, j = job[h], NEW r, r = j.request,
           requests' = RequestsAfter(j), sessions' = sessions
    PROVE  Lifecycle!Next
<1> USE DEF StoreInv
<1>1. /\ j \in Job /\ r \in RequestIds
      /\ j.op \in {"createRequest", "approve", "deny"}
      /\ j.op = "createRequest" => requests[r].status = "absent"
      /\ j.op # "createRequest" => requests[r] = Shape!PendingRequest
      /\ j.op = "approve" => /\ j.session \in SessionIds
                             /\ sessions[j.session] = Shape!NewSession(r)
  BY DEF OperationsAreSound, TypeOK
<1>2. requests[r].session = NoSession /\ requests[r].status \in {"absent", "pending"}
  BY <1>1 DEF RecordsAreWellFormed, Shape!PendingRequest, Shape!RequestWith
<1>3. \A q \in RequestIds : q # r => requests'[q] = requests[q]
  BY <1>1, RequestChange
<1>4. \A s \in SessionIds : sessions[s].request \in RequestIds \cup {NoRequest}
  BY DEF TypeOK
<1>5. \A s \in SessionIds : sessions[s].request = r => ~IsLinked(s)
  BY <1>1, <1>2, StoreAssumption DEF IsLinked
<1>6. ASSUME requests'[r].session = NoSession
      PROVE  LinkedSessions' = LinkedSessions
  <2>1. \A s \in SessionIds : IsLinked(s)' <=> IsLinked(s)
    BY <1>2, <1>3, <1>4, <1>6 DEF IsLinked
  <2> QED BY <2>1 DEF LinkedSessions
<1>7. CASE j.op = "createRequest"
  <2>1. requests' = [requests EXCEPT ![r] = Shape!PendingRequest]
    BY <1>7 DEF RequestsAfter
  <2>2. requests'[r].session = NoSession
    BY <1>1, <2>1 DEF TypeOK, Shape!PendingRequest, Shape!RequestWith
  <2>3. Lifecycle!CreateRequest(r)
    BY <1>1, <1>6, <1>7, <2>1, <2>2
    DEF Lifecycle!CreateRequest, Lifecycle!PendingRequest, Lifecycle!RequestWith,
        Shape!PendingRequest, Shape!RequestWith
  <2> QED BY <1>1, <2>3 DEF Lifecycle!Next
<1>8. CASE j.op = "deny"
  <2>1. requests' = [requests EXCEPT ![r] = Shape!DeniedRequest]
    BY <1>8 DEF RequestsAfter
  <2>2. requests'[r].session = NoSession
    BY <1>1, <2>1 DEF TypeOK, Shape!DeniedRequest, Shape!RequestWith
  <2>3. requests[r].status = "pending"
    BY <1>1, <1>8 DEF Shape!PendingRequest, Shape!RequestWith
  <2>4. Lifecycle!DenyRequest(r)
    BY <1>1, <1>6, <2>1, <2>2, <2>3
    DEF Lifecycle!DenyRequest, Lifecycle!DeniedRequest, Lifecycle!RequestWith,
        Shape!DeniedRequest, Shape!RequestWith
  <2> QED BY <1>1, <2>4 DEF Lifecycle!Next
<1>9. CASE j.op = "approve"
  <2> DEFINE s0 == j.session
  <2>1. requests' = [requests EXCEPT ![r] = Shape!RequestWith("approved", s0)]
    BY <1>9 DEF RequestsAfter
  <2>2. requests'[r] = Shape!RequestWith("approved", s0)
    BY <1>1, <2>1 DEF TypeOK
  <2>3. requests[r].status = "pending"
    BY <1>1, <1>9 DEF Shape!PendingRequest, Shape!RequestWith
  <2>4. s0 \in SessionIds /\ sessions[s0].request = r /\ ~IsLinked(s0)
    BY <1>1, <1>5, <1>9 DEF Shape!NewSession
  <2>5. IsLinked(s0)'
    BY <2>2, <2>4 DEF IsLinked, Shape!RequestWith
  <2>6. ASSUME NEW s \in SessionIds, s # s0 PROVE IsLinked(s)' <=> IsLinked(s)
    <3>1. CASE sessions[s].request = r
      BY <1>1, <1>5, <2>2, <2>6, <3>1, StoreAssumption DEF IsLinked, Shape!RequestWith
    <3>2. CASE sessions[s].request # r
      BY <1>3, <1>4, <3>2 DEF IsLinked
    <3> QED BY <3>1, <3>2
  <2>7. LinkedSessions' = [LinkedSessions EXCEPT ![s0] = Shape!NewSession(r)]
    BY <1>1, <1>9, <2>4, <2>5, <2>6 DEF LinkedSessions
  <2>8. LinkedSessions[s0].status = "absent"
    BY <2>4 DEF LinkedSessions, Shape!AbsentSession
  <2>9. Lifecycle!ApproveRequest(r, s0)
    BY <2>1, <2>3, <2>7, <2>8
    DEF Lifecycle!ApproveRequest, Lifecycle!NewSession, Lifecycle!RequestWith,
        Shape!NewSession, Shape!RequestWith
  <2> QED BY <1>1, <2>4, <2>9 DEF Lifecycle!Next
<1> QED BY <1>1, <1>7, <1>8, <1>9

\* The abstract change that a write of sessions.json stands for; a session
\* that its request does not name yet is not part of the abstract state.
LEMMA SessionWriteRefines ==
    ASSUME StoreInv, NEW h \in Handlers, pc[h] = "writeSessions",
           NEW j \in Job, j = job[h], NEW s, s = j.session,
           sessions' = SessionsAfter(j), requests' = requests
    PROVE  Lifecycle!Next \/ UNCHANGED <<requests, LinkedSessions>>
<1> USE DEF StoreInv
<1>1. /\ j \in Job /\ s \in SessionIds /\ sessions[s] \in Shape!Session
      /\ j.op \in {"approve", "createSession", "revoke", "markUsed"}
  BY DEF OperationsAreSound, TypeOK
<1>2. \A t \in SessionIds : t # s => sessions'[t] = sessions[t]
  BY <1>1, SessionChange
<1>3. \A t \in SessionIds : t # s => LinkedSessions'[t] = LinkedSessions[t]
  BY <1>2 DEF LinkedSessions, IsLinked
<1>4. ASSUME LinkedSessions'[s] = LinkedSessions[s] PROVE LinkedSessions' = LinkedSessions
  BY <1>3, <1>4 DEF LinkedSessions
<1>5. ASSUME NEW rec, LinkedSessions'[s] = rec
      PROVE  LinkedSessions' = [LinkedSessions EXCEPT ![s] = rec]
  BY <1>1, <1>3, <1>5 DEF LinkedSessions
<1>6. CASE j.op = "approve"
  <2>1. /\ sessions[s].status = "absent" /\ j.request \in RequestIds
        /\ requests[j.request] = Shape!PendingRequest
    BY <1>6 DEF OperationsAreSound
  <2>2. sessions'[s] = Shape!NewSession(j.request)
    BY <1>1, <1>6, SessionChange
  <2>3. ~IsLinked(s)'
    BY <1>1, <2>1, <2>2, StoreAssumption
    DEF IsLinked, Shape!NewSession, Shape!PendingRequest, Shape!RequestWith
  <2>4. LinkedSessions'[s] = LinkedSessions[s]
    BY <1>1, <2>1, <2>3 DEF LinkedSessions, RecordsAreWellFormed
  <2> QED BY <1>4, <2>4
<1>7. CASE j.op = "createSession"
  <2>1. sessions[s].status = "absent" /\ j.request = NoRequest
    BY <1>7 DEF OperationsAreSound
  <2>2. sessions'[s] = Shape!NewSession(NoRequest)
    BY <1>1, <1>7, <2>1, SessionChange
  <2>3. LinkedSessions'[s] = Shape!NewSession(NoRequest)
    BY <1>1, <2>2 DEF LinkedSessions, IsLinked, Shape!NewSession
  <2>4. LinkedSessions[s].status = "absent"
    BY <1>1, <2>1 DEF LinkedSessions, Shape!AbsentSession
  <2>5. Lifecycle!CreateSession(s)
    BY <1>5, <2>3, <2>4 DEF Lifecycle!CreateSession, Lifecycle!NewSession, Shape!NewSession
  <2> QED BY <1>1, <2>5 DEF Lifecycle!Next
<1>8. CASE j.op \in {"revoke", "markUsed"}
  <2>1. /\ sessions[s].status # "absent"
        /\ j.op = "revoke" => sessions[s].status = "active"
    BY <1>8 DEF OperationsAreSound
  <2>2. /\ j.op = "revoke" => sessions'[s] = [sessions[s] EXCEPT !.status = "revoked"]
        /\ j.op = "markUsed" => sessions'[s] = [sessions[s] EXCEPT !.used = TRUE]
    BY <1>1, SessionChange
  <2>3. IsLinked(s)' <=> IsLinked(s)
    <3>1. sessions'[s].request = sessions[s].request
      BY <1>1, <1>8, <2>2
    <3> QED BY <3>1 DEF IsLinked
  <2>4. CASE ~IsLinked(s)
    BY <1>1, <1>4, <2>3, <2>4 DEF LinkedSessions
  <2>5. CASE IsLinked(s)
    <3>1. LinkedSessions[s] = sessions[s] /\ LinkedSessions'[s] = sessions'[s]
      BY <1>1, <2>3, <2>5 DEF LinkedSessions
    <3>2. CASE j.op = "revoke"
      <4>1. LinkedSessions' = [LinkedSessions EXCEPT ![s].status = "revoked"]
        BY <1>5, <2>2, <3>1, <3>2
      <4> QED BY <1>1, <2>1, <3>1, <3>2, <4>1 DEF Lifecycle!Next, Lifecycle!RevokeSession
    <3>3. CASE j.op = "markUsed"
      <4>1. LinkedSessions' = [LinkedSessions EXCEPT ![s].used = TRUE]
        BY <1>5, <2>2, <3>1, <3>3
      <4> QED BY <1>1, <2>1, <3>1, <4>1 DEF Lifecycle!Next, Lifecycle!MarkSessionUsed
    <3> QED BY <1>8, <3>2, <3>3
  <2> QED BY <2>4, <2>5
<1> QED BY <1>1, <1>6, <1>7, <1>8

(* Seen through the requests, every operation of the store is atomic: an   *)
(* approval opens exactly one session in the step that resolves its        *)
(* request, with any number of concurrent handlers, crashes and failed     *)
(* writes (approveRequest writes sessions.json, then                       *)
(* session-requests.json).                                                 *)
THEOREM StoreImplementsLifecycle == Spec => ImplementsLifecycle
<1>1. Init => Lifecycle!Init
  <2> SUFFICES ASSUME Init PROVE Lifecycle!Init
    OBVIOUS
  <2>1. LinkedSessions = [s \in SessionIds |-> Lifecycle!AbsentSession]
    BY DEF Init, LinkedSessions, NoSessions, Shape!AbsentSession, Lifecycle!AbsentSession
  <2>2. requests = [r \in RequestIds |-> Lifecycle!AbsentRequest]
    BY DEF Init, NoRequests, Shape!AbsentRequest, Shape!RequestWith,
           Lifecycle!AbsentRequest, Lifecycle!RequestWith
  <2> QED BY <2>1, <2>2 DEF Lifecycle!Init
<1>2. StoreInv /\ [Next]_vars => [Lifecycle!Next]_(Lifecycle!vars)
  <2> SUFFICES ASSUME StoreInv, [Next]_vars
               PROVE  Lifecycle!Next \/ UNCHANGED <<requests, LinkedSessions>>
    BY DEF Lifecycle!vars
  <2>1. CASE UNCHANGED documents
    BY <2>1 DEF documents, LinkedSessions, IsLinked
  <2>2. \A h \in Handlers : job[h] \in Job
    BY DEF StoreInv, TypeOK
  <2>3. CASE \E h \in Handlers : pc[h] = "writeRequests" /\ requests' = RequestsAfter(job[h])
        /\ sessions' = sessions
    BY <2>2, <2>3, RequestWriteRefines
  <2>4. CASE \E h \in Handlers : pc[h] = "writeSessions" /\ sessions' = SessionsAfter(job[h])
        /\ requests' = requests
    BY <2>2, <2>4, SessionWriteRefines
  <2> QED BY <2>1, <2>3, <2>4, DocumentSteps
<1> QED BY <1>1, <1>2, StoreInvariant, PTL DEF Spec, ImplementsLifecycle, Lifecycle!Spec
=============================================================================
