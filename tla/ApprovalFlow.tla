---------------------------- MODULE ApprovalFlow ----------------------------
(***************************************************************************)
(* From an application's request to the owner's decision and back: a page  *)
(* that uses the typed client (packages/sdk/src/session.ts, index.ts,      *)
(* http.ts; apps/agent-demo/app/page.tsx), the approve screen and the      *)
(* operator console (apps/approval-ui), all of them clients of the session *)
(* routes.                                                                 *)
(*                                                                         *)
(* Every handle the page holds polls for its own approval while the page   *)
(* goes on; the owner decides from two screens at once, one of which shows *)
(* lists that may be stale.                                                *)
(***************************************************************************)
EXTENDS SessionRoutes

CONSTANTS
    Handles,      \* session handles of the page
    App, Screen, Console,  \* the page's own calls, the approve screen, the console
    MaxTime,      \* bound: the clock
    MaxInFlight   \* bound: people start something only below as many calls

ASSUME CallersAssumption ==
    /\ Callers = Handles \cup {App, Screen, Console}
    /\ App \notin Handles \cup {Screen, Console}
    /\ Screen \notin Handles \cup {Console} /\ Console \notin Handles
    /\ NoId \notin Handles
    /\ MaxTime \in Nat

VARIABLES
    now,
    handle,       \* the handles
    app,          \* what the page waits for: "idle", "requesting", "paying" or "stuck"
    held,         \* the handle the page shows, NoId at first
    screen,       \* the approve screen
    console       \* the operator console

clients == <<handle, app, held, screen, console>>
vars    == <<routeVars, now, clients>>

-----------------------------------------------------------------------------
HandleState == [status  : {"none", "pending_approval", "approved", "denied"},
            request : RequestIds \cup {NoId},
            session : SessionIds \cup {NoId},
            wait    : {"none", "polling", "sleeping", "over", "timedOut", "broken"},
            deadline : 0..MaxTime,
            wake     : 0..MaxTime]

NoHandle == [status |-> "none", request |-> NoId, session |-> NoId, wait |-> "none",
             deadline |-> 0, wake |-> 0]

\* pc of the screen says what it shows; "stuck" is a button that stays busy.
ScreenState == [pc      : {"closed", "loading", "notFound", "resolved", "shown", "deciding",
                           "approved", "denied", "error", "stuck"},
                request : RequestIds \cup {NoId},
                session : SessionIds \cup {NoId}]

Init ==
    /\ RoutesInit
    /\ now = 0
    /\ handle = [h \in Handles |-> NoHandle]
    /\ app = "idle"
    /\ held = NoId
    /\ screen = [pc |-> "closed", request |-> NoId, session |-> NoId]
    /\ console = "idle"

\* A client sends a call, or takes the answer to one.
Send(caller, op, id) == calls' = calls \cup {NewCall(caller, op, id)}

AnswersTo(caller) == {m \in calls : m.by = caller /\ m.stage = "answered"}

Take(m) == calls' = calls \ {m}

stored == <<requests, sessions, audit, faults>>

Quiet == Cardinality(calls) < MaxInFlight

-----------------------------------------------------------------------------
(* The page and its handles *)

FreeHandles == {h \in Handles : handle[h].status = "none"}

\* FiberGuard.requestSession.
AskForSession ==
    /\ app = "idle"
    /\ FreeHandles # {}
    /\ app' = "requesting"
    /\ Send(App, "request", NoId)
    /\ UNCHANGED <<stored, now, handle, held, screen, console>>

\* A pending handle starts to poll at once, with a timeout of the page's choice.
GetSession ==
    /\ app = "requesting"
    /\ \E m \in AnswersTo(App) :
         LET h == CHOOSE g \in FreeHandles : TRUE IN
           CASE m.answer.status = "pending_approval" ->
                  /\ \E deadline \in now..MaxTime :
                       handle' = [handle EXCEPT ![h] =
                         [NoHandle EXCEPT !.status = "pending_approval", !.request = m.answer.id,
                                          !.wait = "polling", !.deadline = deadline]]
                  /\ held' = h
                  /\ calls' = (calls \ {m}) \cup {NewCall(h, "detail", m.answer.id)}
             [] m.answer.status = "approved" ->
                  /\ handle' = [handle EXCEPT ![h] =
                       [NoHandle EXCEPT !.status = "approved", !.session = m.answer.id]]
                  /\ held' = h
                  /\ Take(m)
             [] OTHER -> \* requestSession throws, the page shows the reason
                  /\ Take(m)
                  /\ UNCHANGED <<handle, held>>
    /\ app' = "idle"
    /\ UNCHANGED <<stored, now, screen, console>>

\* Mutant: the deadline is looked at before the answer to the poll.
GetPoll_DeadlineFirst(h) ==
    /\ handle[h].wait = "polling"
    /\ \E m \in AnswersTo(h) :
         /\ handle' = [handle EXCEPT ![h] =
              CASE m.answer.status = "network"  -> [@ EXCEPT !.wait = "broken"]
                [] m.answer.status = "approved" /\ now < @.deadline ->
                     [@ EXCEPT !.status = "approved", !.session = m.answer.id, !.wait = "over"]
                [] m.answer.status = "denied" /\ now < @.deadline ->
                     [@ EXCEPT !.status = "denied", !.wait = "over"]
                [] OTHER -> IF now < @.deadline THEN [@ EXCEPT !.wait = "sleeping", !.wake = now + 1]
                            ELSE [@ EXCEPT !.wait = "timedOut"]]
         /\ Take(m)
    /\ UNCHANGED <<stored, now, app, held, screen, console>>

\* Mutant: a poll that is neither approved nor denied never looks at the deadline.
GetPoll_NoDeadline(h) ==
    /\ handle[h].wait = "polling"
    /\ \E m \in AnswersTo(h) :
         /\ handle' = [handle EXCEPT ![h] =
              CASE m.answer.status = "network"  -> [@ EXCEPT !.wait = "broken"]
                [] m.answer.status = "approved" ->
                     [@ EXCEPT !.status = "approved", !.session = m.answer.id, !.wait = "over"]
                [] m.answer.status = "denied"   -> [@ EXCEPT !.status = "denied", !.wait = "over"]
                [] OTHER -> [@ EXCEPT !.wait = "sleeping", !.wake = IF now < MaxTime THEN now + 1 ELSE now]]
         /\ Take(m)
    /\ UNCHANGED <<stored, now, app, held, screen, console>>

\* waitForApproval: the answer to a poll.  A 404 or a 5xx is neither approved
\* nor denied and polling goes on; a network error ends the wait.
GetPoll(h) ==
    /\ handle[h].wait = "polling"
    /\ \E m \in AnswersTo(h) :
         /\ handle' = [handle EXCEPT ![h] =
              CASE m.answer.status = "network"  -> [@ EXCEPT !.wait = "broken"]
                [] m.answer.status = "approved" ->
                     [@ EXCEPT !.status = "approved", !.session = m.answer.id, !.wait = "over"]
                [] m.answer.status = "denied"   -> [@ EXCEPT !.status = "denied", !.wait = "over"]
                [] OTHER -> IF now < @.deadline THEN [@ EXCEPT !.wait = "sleeping", !.wake = now + 1]
                            ELSE [@ EXCEPT !.wait = "timedOut"]]
         /\ Take(m)
    /\ UNCHANGED <<stored, now, app, held, screen, console>>

\* The delay between two polls, here one tick.
PollAgain(h) ==
    /\ handle[h].wait = "sleeping"
    /\ now >= handle[h].wake
    /\ handle' = [handle EXCEPT ![h].wait = "polling", ![h].wake = 0]
    /\ Send(h, "detail", handle[h].request)
    /\ UNCHANGED <<stored, now, app, held, screen, console>>

\* An intent of a handle with a session; without one the handle blocks it
\* itself (gate) and nothing is sent.
PayInvoice ==
    /\ app = "idle"
    /\ held # NoId
    /\ handle[held].session # NoId
    /\ app' = "paying"
    /\ Send(App, "pay", handle[held].session)
    /\ UNCHANGED <<stored, now, handle, held, screen, console>>

\* interpret: a block is returned, a transport failure is thrown; the page's
\* button then stays busy.
PayAnswer ==
    /\ app = "paying"
    /\ \E m \in AnswersTo(App) :
         /\ app' = IF m.answer.status \in {"network", "fault"} THEN "stuck" ELSE "idle"
         /\ Take(m)
    /\ UNCHANGED <<stored, now, handle, held, screen, console>>

-----------------------------------------------------------------------------
(* The approve screen *)

\* The approval link, or the console's "Open"; a reload of a stuck screen.
OpenScreen(r) ==
    /\ requests[r].status # "absent"
    /\ screen.pc \in {"closed", "stuck"}
    /\ screen' = [pc |-> "loading", request |-> r, session |-> NoId]
    /\ Send(Screen, "detail", r)
    /\ UNCHANGED <<stored, now, handle, app, held, console>>

ShowScreen ==
    /\ screen.pc = "loading"
    /\ \E m \in AnswersTo(Screen) :
         /\ screen' = [screen EXCEPT !.pc =
              CASE m.answer.status = "pending"                -> "shown"
                [] m.answer.status \in {"approved", "denied"} -> "resolved"
                [] OTHER                                      -> "notFound"]
         /\ Take(m)
    /\ UNCHANGED <<stored, now, handle, app, held, console>>

Decide(op) ==
    /\ screen.pc = "shown"
    /\ screen' = [screen EXCEPT !.pc = "deciding"]
    /\ Send(Screen, op, screen.request)
    /\ UNCHANGED <<stored, now, handle, app, held, console>>

\* Without a catch, a network error leaves the buttons busy.
ShowOutcome ==
    /\ screen.pc = "deciding"
    /\ \E m \in AnswersTo(Screen) :
         /\ screen' = CASE m.answer.status = "approved" ->
                             [screen EXCEPT !.pc = "approved", !.session = m.answer.id]
                        [] m.answer.status = "denied"  -> [screen EXCEPT !.pc = "denied"]
                        [] m.answer.status = "network" -> [screen EXCEPT !.pc = "stuck"]
                        [] OTHER                       -> [screen EXCEPT !.pc = "error"]
         /\ Take(m)
    /\ UNCHANGED <<stored, now, handle, app, held, console>>

-----------------------------------------------------------------------------
(* The operator console *)

\* act(): a button of a row.  The lists the rows come from are refreshed after
\* every action and may be out of date; a row names what exists, or existed in
\* the state shown.
Act(op, id) ==
    /\ console = "idle"
    /\ IF op = "revoke" THEN sessions[id].status # "absent" ELSE requests[id].status # "absent"
    /\ console' = "acting"
    /\ Send(Console, op, id)
    /\ UNCHANGED <<stored, now, handle, app, held, screen>>

\* Whatever came of the action, the buttons are free again.
ActEnds ==
    /\ console = "acting"
    /\ \E m \in AnswersTo(Console) : Take(m)
    /\ console' = "idle"
    /\ UNCHANGED <<stored, now, handle, app, held, screen>>

-----------------------------------------------------------------------------
Tick ==
    /\ now < MaxTime
    /\ now' = now + 1
    /\ UNCHANGED <<routeVars, clients>>

\* What the clients' code does by itself, and the timers.
Client ==
    \/ GetSession \/ PayAnswer
    \/ ShowScreen \/ ShowOutcome
    \/ ActEnds

Wait(h) == GetPoll(h) \/ PollAgain(h)

\* What the people in front of the screens do.
User == Quiet /\ (
    \/ AskForSession \/ PayInvoice
    \/ \E r \in RequestIds : OpenScreen(r)
    \/ \E op \in {"approve", "deny"} : Decide(op) \/ \E r \in RequestIds : Act(op, r)
    \/ \E s \in SessionIds : Act("revoke", s))

Gateway(caller) == \E m \in calls : m.by = caller /\ Handle(m)

Next ==
    \/ User
    \/ Client
    \/ \E h \in Handles : Wait(h)
    \/ \E caller \in Callers \cup {Nobody} : Gateway(caller) /\ UNCHANGED <<now, clients>>
    \/ FaultStep /\ UNCHANGED <<now, clients>>
    \/ Tick

Spec == Init /\ [][Next]_vars

\* The clock goes on, clients take their answers, handlers run to their end.
\* Nobody has to click.
FairSpec ==
    /\ Spec
    /\ WF_vars(Tick)
    /\ WF_vars(GetSession) /\ WF_vars(PayAnswer)
    /\ WF_vars(ShowScreen) /\ WF_vars(ShowOutcome)
    /\ WF_vars(ActEnds)
    /\ \A h \in Handles : WF_vars(Wait(h))
    /\ \A caller \in Callers : WF_vars(Gateway(caller) /\ UNCHANGED <<now, clients>>)

-----------------------------------------------------------------------------
\* What the screens and the handles say was done in the store, and stays so:
\* a handle's session is the one its own request opened, a decision shown on
\* the approve screen was taken on the request it shows.
ScreensTellTheTruth ==
    /\ \A h \in Handles :
         /\ handle[h].session # NoId /\ handle[h].request # NoId =>
              requests[handle[h].request] = Store!RequestWith("approved", handle[h].session)
         /\ handle[h].session # NoId /\ handle[h].request = NoId =>
              /\ sessions[handle[h].session].status # "absent"
              /\ sessions[handle[h].session].request = NoRequest
         /\ handle[h].status = "denied" => requests[handle[h].request].status = "denied"
    /\ screen.pc = "approved" =>
         requests[screen.request] = Store!RequestWith("approved", screen.session)
    /\ screen.pc = "denied" => requests[screen.request].status = "denied"

-----------------------------------------------------------------------------
(* The inductive invariant *)

TypeOK ==
    /\ now \in 0..MaxTime
    /\ handle \in [Handles -> HandleState]
    /\ app \in {"idle", "requesting", "paying", "stuck"}
    /\ held \in Handles \cup {NoId}
    /\ screen \in ScreenState
    /\ console \in {"idle", "acting"}

\* A client waits for one answer at a time, to what it asked last.
OneCallEach == \A m, n \in calls : m.by = n.by /\ m.by # Nobody => m = n

CallsAreExpected ==
    \A m \in calls :
      /\ m.by \in Handles => /\ handle[m.by].wait = "polling"
                            /\ m.op = "detail" /\ m.id = handle[m.by].request
      /\ m.by = App => \/ app = "requesting" /\ m.op = "request"
                       \/ app = "paying" /\ m.op = "pay"
      /\ m.by = Screen => /\ m.id = screen.request
                          /\ \/ screen.pc = "loading" /\ m.op = "detail"
                             \/ screen.pc = "deciding" /\ m.op \in {"approve", "deny"}
      /\ m.by = Console => console = "acting"

HandlesAreSound ==
    /\ \A h \in Handles :
         /\ handle[h].status = "none" => handle[h] = NoHandle
         /\ handle[h].wait # "none" \/ handle[h].status = "denied" =>
              handle[h].request \in RequestIds
    /\ app = "requesting" => FreeHandles # {}
    /\ screen.pc # "closed" => screen.request \in RequestIds

FlowInv ==
    /\ TypeOK
    /\ RoutesInv
    /\ OneCallEach
    /\ CallsAreExpected
    /\ HandlesAreSound
    /\ ScreensTellTheTruth

-----------------------------------------------------------------------------
(* Liveness *)

Adopted(h) ==
    handle[h].request # NoId /\ requests[handle[h].request].session = handle[h].session

\* An approval given while the client sleeps between two polls is not missed,
\* whatever the deadline: the deadline is looked at only after a poll.
ApprovalBeforeLastPollIsSeen ==
    \A h \in Handles :
      (handle[h].wait = "sleeping" /\ requests[handle[h].request].status = "approved"
         /\ faults = MaxFaults)
        ~> Adopted(h)

\* waitForApproval resolves or throws and the console's buttons come back, also
\* when the gateway fails or dies.
EveryWaitEnds ==
    /\ \A h \in Handles :
         handle[h].wait = "polling" ~> handle[h].wait \in {"over", "timedOut", "broken"}
    /\ console = "acting" ~> console = "idle"
=============================================================================
