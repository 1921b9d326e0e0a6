----------------------------- MODULE ManagedSession -----------------------------
(***************************************************************************)
(* A task that runs as a session of a remote agent: ManagedSessionRunner,  *)
(* the overrides of ManagedAgentWorkerEngine, and the phone's verdicts,    *)
(* replies and cancellation.  The agent keeps a log of its events; a       *)
(* stream shows those that come after it was opened, a listing shows all   *)
(* of them, and the runner drives the task from both.                      *)
(*                                                                         *)
(* The model starts where SubprocessWorkerOrchestrator calls run(): what   *)
(* comes before is TaskLifecycle.  The engine lock is never held across an *)
(* await here, so its critical sections are parts of single steps.  The    *)
(* agent is external and is modelled as the code uses it: it may announce  *)
(* several tool uses before it asks for those that need a confirmation,    *)
(* asks again while some of them have none, and ends its turn when it is   *)
(* interrupted.                                                            *)
(***************************************************************************)
EXTENDS Naturals, Sequences, FiniteSets

CONSTANTS
    Uses,             \* the tool uses the agent may come up with, by id
    AlwaysAsk,        \* those of a tool that needs a confirmation
    NoUse,            \* null value
    MaxReconnects,    \* _MAX_RECONNECTS
    PageSize,         \* events on the first page of a listing, external
    MaxEvents,        \* bound: events the agent emits
    MaxReplies        \* bound: replies of the phone; besides one reply, one
                      \* cancellation is in flight at a time

ASSUME ManagedAssumption ==
    /\ AlwaysAsk \subseteq Uses
    /\ NoUse \notin Uses
    /\ MaxReconnects \in Nat /\ PageSize \in Nat /\ MaxEvents \in Nat /\ MaxReplies \in Nat

VARIABLES
    status, approval,                      \* the database
    job, cancelReq,                        \* the task's asyncio job
    armed, granted, queued,                \* RuntimeState
    live, pend, seen,                      \* LiveSession
    prompted, reconnects, replay, conn, since, shown,  \* locals of _drive, _pump
    agent, using, ran, rlog,               \* the remote session
    answering, cancelling, replying, replies,    \* the requests in flight
    blind, deaf, early, crowded   \* history: a listing failed or left an event
                         \* out, the call that tells the agent of a verdict failed,
                         \* a reply came before the first stream, a tool use was
                         \* announced while another was open

dbVars     == <<status, approval>>
jobVars    == <<job, cancelReq>>
stateVars  == <<armed, granted, queued>>
liveVars   == <<live, pend, seen>>
driveVars  == <<prompted, reconnects, replay, conn, since, shown>>
agentVars  == <<agent, using, ran, rlog>>
phoneVars  == <<answering, cancelling, replying, replies>>
faultVars  == <<blind, deaf, early, crowded>>
vars == <<dbVars, jobVars, stateVars, liveVars, driveVars, agentVars, phoneVars, faultVars>>

-----------------------------------------------------------------------------
(* Values *)

Active   == {"running", "waiting_approval"}
Terminal == {"completed", "failed", "cancelled"}

JobPC == {"create", "register", "open", "opened", "loop", "ask", "park", "wait", "stop",
          "resume", "complete", "fail", "finish", "done"}

\* Events of the remote log that do more than add a line to the task's log;
\* idle comes with one of three stop reasons.
Idle  == {"requires_action", "end_turn", "budget_reached"}
Kind  == {"agent.tool_use", "agent.tool_result",
          "session.error", "session.status_terminated"} \cup Idle
Event == [kind : Kind, use : Uses \cup {NoUse}]

AgentState == {"none", "idle", "working", "busy", "asking", "stopping", "gone"}

AnswerPC == {"none", "failRejected", "notify", "signal", "deny", "done"}
CancelPC == {"none", "write", "interrupt", "cancelJob"}

ManagedTypeOK ==
    /\ status \in Active \cup Terminal
    /\ approval \in [Uses -> {"none", "pending", "approved", "rejected"}]
    /\ job \in JobPC /\ cancelReq \in BOOLEAN
    /\ armed \in Uses \cup {NoUse}
    /\ granted \in {"none", "yes", "no"}
    /\ queued \in 0..MaxReplies
    /\ live \in BOOLEAN /\ pend \in Uses \cup {NoUse} /\ seen \subseteq 1..MaxEvents
    /\ prompted \in BOOLEAN /\ reconnects \in 0..MaxReconnects
    /\ replay \subseteq 1..MaxEvents /\ conn \in {"none", "open", "closed"}
    /\ since \in 1..MaxEvents + 1 /\ shown \in 0..MaxEvents
    /\ agent \in AgentState /\ using \subseteq Uses /\ ran \subseteq Uses
    /\ Len(rlog) \in 0..MaxEvents /\ \A i \in DOMAIN rlog : rlog[i] \in Event
    /\ answering \in [Uses -> AnswerPC] /\ cancelling \in CancelPC
    /\ replying \in BOOLEAN /\ replies \in 0..MaxReplies
    /\ blind \in BOOLEAN /\ deaf \in BOOLEAN /\ early \in BOOLEAN /\ crowded \in BOOLEAN

Init ==
    /\ status = "running"
    /\ approval = [u \in Uses |-> "none"]
    /\ job = "create" /\ cancelReq = FALSE
    /\ armed = NoUse /\ granted = "none" /\ queued = 0
    /\ live = FALSE /\ pend = NoUse /\ seen = {}
    /\ prompted = FALSE /\ reconnects = 0
    /\ replay = {} /\ conn = "none" /\ since = 1 /\ shown = 0
    /\ agent = "none" /\ using = {} /\ ran = {} /\ rlog = << >>
    /\ answering = [u \in Uses |-> "none"] /\ cancelling = "none"
    /\ replying = FALSE /\ replies = 0
    /\ blind = FALSE /\ deaf = FALSE /\ early = FALSE /\ crowded = FALSE

-----------------------------------------------------------------------------
(* What the steps are made of *)

\* The job may still read what the agent emits.
Reading == job \notin {"complete", "fail", "finish", "done"}

At(pc)  == job = pc /\ ~cancelReq
Goto(pc) == job' = pc /\ UNCHANGED cancelReq
JobOnly == UNCHANGED <<dbVars, stateVars, liveVars, driveVars, agentVars, phoneVars, faultVars>>

\* The open tool uses that have no confirmation yet.
Waiting == (using \cap AlwaysAsk) \ ran

\* What a user.message, a user.interrupt and a user.tool_confirmation do to
\* the agent.
Message ==
    /\ agent' = IF agent = "idle" THEN "working" ELSE agent
    /\ UNCHANGED <<using, ran, rlog>>
Interrupt ==
    /\ agent' = IF agent \in {"working", "busy", "asking"} THEN "stopping" ELSE agent
    /\ UNCHANGED <<using, ran, rlog>>
Confirm(u, ok) ==
    LET heard == agent = "asking" /\ u \in Waiting IN
    /\ using' = IF heard /\ ~ok THEN using \ {u} ELSE using
    /\ ran' = IF heard /\ ok THEN ran \cup {u} ELSE ran
    /\ agent' = IF ~heard THEN agent ELSE IF using' = {} THEN "working" ELSE "busy"
    /\ UNCHANGED rlog

\* _send: the call reaches the agent, or it raises - before the agent has
\* heard of it or, as with a timeout, after.
NotSent(Call) == Call \/ UNCHANGED agentVars

\* interrupt(): an error of the call is logged and swallowed.
TryInterrupt == Interrupt \/ NotSent(Interrupt)

-----------------------------------------------------------------------------
(* ManagedSessionRunner.run *)

\* No repository, no agent configured, no token, the session is refused; or,
\* later, a stream cannot be opened.
JobGivesUp ==
    /\ At("create") \/ At("open")
    /\ Goto("fail") /\ JobOnly

\* sessions.create
JobCreate ==
    /\ At("create")
    /\ agent' = "idle"
    /\ Goto("register")
    /\ UNCHANGED <<dbVars, stateVars, liveVars, driveVars, using, ran, rlog, phoneVars, faultVars>>

JobRegister ==
    /\ At("register")
    /\ live' = TRUE
    /\ Goto("open")
    /\ UNCHANGED <<dbVars, stateVars, pend, seen, driveVars, agentVars, phoneVars, faultVars>>

\* finally: the live session and the RuntimeState are dropped.
JobFinally ==
    /\ job = "finish"
    /\ job' = "done" /\ cancelReq' = FALSE
    /\ armed' = NoUse /\ granted' = "none" /\ queued' = 0
    /\ live' = FALSE /\ pend' = NoUse /\ seen' = {}
    /\ prompted' = FALSE /\ reconnects' = 0
    /\ replay' = {} /\ conn' = "none" /\ since' = 1 /\ shown' = 0
    /\ UNCHANGED <<dbVars, agentVars, phoneVars, faultVars>>

\* CancelledError at the await the job is in.
JobCancelled ==
    /\ cancelReq /\ job \notin {"finish", "done"}
    /\ job' = "finish" /\ cancelReq' = FALSE
    /\ JobOnly

-----------------------------------------------------------------------------
(* _drive and _pump *)

\* A stream shows what comes after it was opened.
JobOpen ==
    /\ At("open")
    /\ conn' = "open" /\ since' = Len(rlog) + 1 /\ shown' = 0
    /\ Goto("opened")
    /\ UNCHANGED <<dbVars, stateVars, liveVars, prompted, reconnects, replay,
                   agentVars, phoneVars, faultVars>>

\* The first message is sent when the first stream is open.
JobPrompt ==
    /\ At("opened") /\ ~prompted
    /\ \/ Message /\ prompted' = TRUE /\ Goto("loop")
       \/ NotSent(Message) /\ Goto("fail") /\ UNCHANGED prompted
    /\ UNCHANGED <<dbVars, stateVars, liveVars, reconnects, replay, conn, since, shown,
                   phoneVars, faultVars>>

\* Mutant: a new stream is read without listing what was missed.
MissedNothing == {}

\* What the first page of the listing holds and was not handled before: the
\* other pages are not asked for.
Missed == {i \in DOMAIN rlog \ seen : i <= PageSize}

\* _history: what a later stream does not show any more is handled first.  A
\* listing that fails counts as empty; what lies behind the first page and is
\* older than the stream is not seen at all.
JobReplay ==
    /\ At("opened") /\ prompted
    /\ \/ replay' = Missed /\ blind' = (blind \/ ~(1..since - 1 \subseteq seen \cup 1..PageSize))
       \/ replay' = {} /\ blind' = TRUE
    /\ Goto("loop")
    /\ UNCHANGED <<dbVars, stateVars, liveVars, prompted, reconnects, conn, since, shown,
                   agentVars, phoneVars, deaf, early, crowded>>

\* The stream ends or breaks, at any time, after some of the events.
PumpDrop ==
    /\ conn = "open" /\ Reading
    /\ conn' = "closed"
    /\ shown' \in since - 1..Len(rlog)
    /\ UNCHANGED <<dbVars, jobVars, stateVars, liveVars, prompted, reconnects, replay, since,
                   agentVars, phoneVars, faultVars>>

\* What the stream has shown and was not handled before.
Queue == (since..IF conn = "open" THEN Len(rlog) ELSE shown) \ seen

\* Nothing is left to replay, and the deadline has passed.
JobDeadline ==
    /\ At("loop") /\ replay = {}
    /\ TryInterrupt
    /\ Goto("fail")
    /\ UNCHANGED <<dbVars, stateVars, liveVars, driveVars, phoneVars, faultVars>>

\* Mutants: one attempt too many; an attempt is not counted.
MayReconnectOnceMore == reconnects <= MaxReconnects
CountAttemptNot == UNCHANGED reconnects

MayReconnect == reconnects < MaxReconnects
CountAttempt == reconnects' = reconnects + 1

\* The queue is read to its end and the stream is closed.
JobReconnect ==
    /\ At("loop") /\ replay = {} /\ Queue = {} /\ conn = "closed"
    /\ \/ MayReconnect /\ CountAttempt /\ Goto("open")
       \/ ~MayReconnect /\ Goto("fail") /\ UNCHANGED reconnects
    /\ UNCHANGED <<dbVars, stateVars, liveVars, prompted, replay, conn, since, shown,
                   agentVars, phoneVars, faultVars>>

-----------------------------------------------------------------------------
(* _handle_event: the replayed events first, then those of the stream *)

Pending == IF replay # {} THEN replay ELSE Queue
Current == CHOOSE i \in Pending : \A j \in Pending : i <= j

\* The next event that was not seen before is of one of the kinds in K.
Handling(K) ==
    /\ At("loop") /\ Pending # {} /\ rlog[Current].kind \in K
    /\ replay' = replay \ {Current}
    /\ seen' = seen \cup {Current}
    /\ UNCHANGED <<dbVars, cancelReq, armed, granted, live, prompted, reconnects, conn,
                   since, shown, phoneVars, faultVars>>

\* A tool use becomes the pending one, whatever was pending before; a result
\* clears it, whichever use it is the result of.
HandleTool ==
    /\ Handling({"agent.tool_use", "agent.tool_result"})
    /\ pend' = rlog[Current].use
    /\ UNCHANGED <<job, queued, agentVars>>

\* Mutant: "requires_action" is not among the reasons tested for.
MustAskOtherReason == pend # NoUse /\ rlog[Current].kind = "end_turn"

\* The agent has stopped because a tool is pending.
MustAsk == pend # NoUse /\ rlog[Current].kind = "requires_action"

HandleRequest ==
    /\ Handling(Idle) /\ MustAsk
    /\ job' = "ask"
    /\ UNCHANGED <<pend, queued, agentVars>>

\* The turn is over, and a reply has been queued.
HandleFollowUp ==
    /\ Handling(Idle) /\ ~MustAsk /\ queued > 0
    /\ queued' = queued - 1
    /\ \/ Message /\ UNCHANGED job
       \/ NotSent(Message) /\ job' = "fail"
    /\ UNCHANGED pend

HandleEnd ==
    /\ Handling(Idle) /\ ~MustAsk /\ queued = 0
    /\ job' = IF rlog[Current].kind = "budget_reached" THEN "fail" ELSE "complete"
    /\ UNCHANGED <<pend, queued, agentVars>>

HandleGone ==
    /\ Handling({"session.error", "session.status_terminated"})
    /\ job' = IF rlog[Current].kind = "session.status_terminated" /\ status \in Terminal
              THEN "finish" ELSE "fail"
    /\ UNCHANGED <<pend, queued, agentVars>>

-----------------------------------------------------------------------------
(* _confirm_tool *)

JobAsk ==
    /\ At("ask")
    /\ approval' = [approval EXCEPT ![pend] = "pending"]
    /\ Goto("park")
    /\ UNCHANGED <<status, stateVars, liveVars, driveVars, agentVars, phoneVars, faultVars>>

\* A fresh approval_event under the lock, then the transition.
JobPark ==
    /\ At("park")
    /\ armed' = pend /\ granted' = "none"
    /\ status' = "waiting_approval"
    /\ Goto("wait")
    /\ UNCHANGED <<approval, queued, liveVars, driveVars, agentVars, phoneVars, faultVars>>

\* The interrupt that ends the wait for a verdict; the history notes its failure.
StopAgent ==
    \/ Interrupt /\ UNCHANGED deaf
    \/ NotSent(Interrupt) /\ deaf' = TRUE

JobApprovalTimeout ==
    /\ At("wait") /\ granted = "none"
    /\ StopAgent
    /\ Goto("fail")
    /\ UNCHANGED <<dbVars, stateVars, liveVars, driveVars, phoneVars, blind, early, crowded>>

\* Mutant: what wakes the job is taken for a yes.
PermitsAny == granted # "none"

Permits == granted = "yes"

\* The answer for the tool that was asked about goes to the agent.
JobVerdict ==
    /\ At("wait") /\ granted # "none"
    /\ pend' = NoUse
    /\ \/ /\ Confirm(pend, Permits) /\ UNCHANGED deaf
          /\ Goto(IF Permits THEN "resume" ELSE "stop")
       \/ NotSent(Confirm(pend, Permits)) /\ deaf' = TRUE /\ Goto("fail")
    /\ UNCHANGED <<dbVars, stateVars, live, seen, driveVars, phoneVars, blind, early, crowded>>

\* Mutant: a denied tool is all that a rejection stops.
JobStopNot == At("stop") /\ Goto("finish") /\ JobOnly

JobStop ==
    /\ At("stop")
    /\ StopAgent
    /\ Goto("finish")
    /\ UNCHANGED <<dbVars, stateVars, liveVars, driveVars, phoneVars, blind, early, crowded>>

JobResume ==
    /\ At("resume")
    /\ status' = "running"
    /\ Goto("loop")
    /\ UNCHANGED <<approval, stateVars, liveVars, driveVars, agentVars, phoneVars, faultVars>>

-----------------------------------------------------------------------------
(* _complete and _fail; their events are lines of the task's log *)

JobOutcome ==
    /\ \/ At("complete") /\ status' = "completed"
       \/ At("fail") /\ status' = "failed"
    /\ Goto("finish")
    /\ UNCHANGED <<approval, stateVars, liveVars, driveVars, agentVars, phoneVars, faultVars>>

-----------------------------------------------------------------------------
(* The phone's requests and the engine's callbacks.  An approval is        *)
(* resolved once, so its use stands for the request that resolves it.      *)

Engine == UNCHANGED <<jobVars, stateVars, liveVars, driveVars, agentVars, faultVars>>
Step(u, pc) ==
    /\ answering' = [answering EXCEPT ![u] = pc]
    /\ UNCHANGED <<cancelling, replying, replies>>

\* ApprovalService._resolve, as in TaskLifecycle.
Resolve(u, ok) ==
    /\ approval[u] = "pending" /\ status = "waiting_approval"
    /\ approval' = [approval EXCEPT ![u] = IF ok THEN "approved" ELSE "rejected"]
    /\ Step(u, IF ok THEN "notify" ELSE "failRejected")
    /\ Engine /\ UNCHANGED status

ResolveFail(u) ==
    /\ answering[u] = "failRejected"
    /\ status' = "failed"
    /\ Step(u, "deny")
    /\ Engine /\ UNCHANGED approval

\* The base class reads the status before it takes the lock.
NotifyEngine(u) ==
    /\ answering[u] = "notify"
    /\ Step(u, IF status = "waiting_approval" THEN "signal" ELSE "done")
    /\ Engine /\ UNCHANGED dbVars

\* If the job is there and waits for this approval, the answer is left for it.
Answer(u, v) ==
    /\ granted' = IF job # "done" /\ armed = u THEN v ELSE granted
    /\ Step(u, "done")
    /\ UNCHANGED <<dbVars, jobVars, armed, queued, liveVars, driveVars, agentVars, faultVars>>

Signal(u) == answering[u] = "signal" /\ Answer(u, "yes")

\* Mutant: a rejection is handled by the base class, as in the other engines.
DenyByBase(u) ==
    /\ answering[u] = "deny"
    /\ \/ status = "waiting_approval" /\ Answer(u, "no")
       \/ status # "waiting_approval" /\ Step(u, "done") /\ Engine /\ UNCHANGED dbVars

\* The engine's own handling of a rejection: the status is not asked.
Deny(u) == answering[u] = "deny" /\ Answer(u, "no")

\* TaskService.cancel_task ...
CancelCheck ==
    /\ cancelling = "none" /\ status \in Active
    /\ cancelling' = "write"
    /\ Engine /\ UNCHANGED <<dbVars, answering, replying, replies>>

CancelWrite ==
    /\ cancelling = "write"
    /\ status' = "cancelled"
    /\ cancelling' = "interrupt"
    /\ Engine /\ UNCHANGED <<approval, answering, replying, replies>>

\* ... and the engine: the session is interrupted, then the job cancelled.
CancelInterrupt ==
    /\ cancelling = "interrupt"
    /\ IF live THEN TryInterrupt ELSE UNCHANGED agentVars
    /\ cancelling' = "cancelJob"
    /\ UNCHANGED <<dbVars, jobVars, stateVars, liveVars, driveVars, faultVars,
                   answering, replying, replies>>

CancelJob ==
    /\ cancelling = "cancelJob"
    /\ cancelReq' = (cancelReq \/ job # "done")
    /\ cancelling' = "none"
    /\ UNCHANGED <<dbVars, job, stateVars, liveVars, driveVars, agentVars, faultVars,
                   answering, replying, replies>>

\* A reply is stored; the engine forwards it to a live session, or queues it.
ReplyStore ==
    /\ ~replying /\ status \in Active /\ replies < MaxReplies
    /\ replying' = TRUE /\ replies' = replies + 1
    /\ Engine /\ UNCHANGED <<dbVars, answering, cancelling>>

ReplyForward ==
    /\ replying
    /\ \/ /\ live /\ (Message \/ NotSent(Message))
          /\ early' = (early \/ conn = "none")
          /\ UNCHANGED queued
       \/ /\ ~live
          /\ queued' = IF job = "done" THEN queued ELSE queued + 1
          /\ UNCHANGED <<agentVars, early>>
    /\ replying' = FALSE
    /\ UNCHANGED <<dbVars, jobVars, armed, granted, liveVars, driveVars, blind, deaf, crowded,
                   answering, cancelling, replies>>

-----------------------------------------------------------------------------
(* The remote agent *)

AgentOnly == UNCHANGED <<dbVars, jobVars, stateVars, liveVars, driveVars, phoneVars,
                         blind, deaf, early>>
\* Bounds: the length of the log, and that it is not followed when nobody reads.
Emit(k, u) ==
    /\ Len(rlog) < MaxEvents /\ Reading
    /\ rlog' = Append(rlog, [kind |-> k, use |-> u])

\* A tool of the kind "always ask" is announced, others simply run; a turn may
\* use several at once.
AgentUses(u) ==
    /\ agent \in {"working", "busy"} /\ \A i \in DOMAIN rlog : rlog[i].use # u
    /\ Emit("agent.tool_use", u)
    /\ using' = using \cup {u} /\ agent' = "busy"
    /\ ran' = IF u \in AlwaysAsk THEN ran ELSE ran \cup {u}
    /\ crowded' = (crowded \/ using # {})
    /\ AgentOnly

AgentAsks ==
    /\ agent = "busy" /\ Waiting # {} /\ Emit("requires_action", NoUse)
    /\ agent' = "asking" /\ UNCHANGED <<using, ran, crowded>> /\ AgentOnly

AgentResult(u) ==
    /\ agent = "busy" /\ u \in using \cap ran /\ Emit("agent.tool_result", NoUse)
    /\ using' = using \ {u}
    /\ agent' = IF using' = {} THEN "working" ELSE "busy"
    /\ UNCHANGED <<ran, crowded>> /\ AgentOnly

AgentEnds ==
    /\ \/ agent = "working" /\ Emit("budget_reached", NoUse)
       \/ agent \in {"working", "stopping"} /\ Emit("end_turn", NoUse)
    /\ agent' = "idle" /\ using' = {} /\ UNCHANGED <<ran, crowded>> /\ AgentOnly

AgentGone ==
    /\ agent \notin {"none", "gone"}
    /\ \/ Emit("session.error", NoUse)
       \/ Emit("session.status_terminated", NoUse)
    /\ agent' = "gone" /\ using' = {} /\ UNCHANGED <<ran, crowded>> /\ AgentOnly

-----------------------------------------------------------------------------
Quiescent ==
    /\ job = "done" /\ cancelling = "none" /\ ~replying
    /\ \A u \in Uses : answering[u] \in {"none", "done"}
    /\ UNCHANGED vars

JobStep ==
    \/ JobGivesUp \/ JobCreate \/ JobRegister \/ JobFinally \/ JobCancelled
    \/ JobOpen \/ JobPrompt \/ JobReplay \/ JobDeadline \/ JobReconnect
    \/ HandleTool \/ HandleRequest \/ HandleFollowUp \/ HandleEnd \/ HandleGone
    \/ JobAsk \/ JobPark \/ JobApprovalTimeout \/ JobVerdict \/ JobStop \/ JobResume
    \/ JobOutcome

\* Bound: no request starts after the job's end, when it would only change
\* the rows.
RequestStart ==
    /\ job # "done"
    /\ \/ CancelCheck \/ ReplyStore
       \/ \E u \in Uses, ok \in BOOLEAN : Resolve(u, ok)

AnswerStep(u) == ResolveFail(u) \/ NotifyEngine(u) \/ Signal(u) \/ Deny(u)
CancelStep == CancelWrite \/ CancelInterrupt \/ CancelJob

AgentStep ==
    \/ AgentAsks \/ AgentEnds \/ AgentGone
    \/ \E u \in Uses : AgentUses(u) \/ AgentResult(u)

Next ==
    \/ JobStep \/ PumpDrop \/ AgentStep
    \/ RequestStart \/ CancelStep \/ ReplyForward
    \/ \E u \in Uses : AnswerStep(u)
    \/ Quiescent

Spec == Init /\ [][Next]_vars

\* The event loop runs the job and the handlers.  Nothing is asked of the
\* agent, of the stream or of the human; but every call to the agent's service
\* returns or raises, which the runner leaves to the timeouts of its client.
FairSpec ==
    /\ Spec
    /\ WF_vars(JobStep)
    /\ WF_vars(CancelStep) /\ WF_vars(ReplyForward)
    /\ \A u \in Uses : WF_vars(AnswerStep(u))

-----------------------------------------------------------------------------
(* Correctness *)

\* Every tool that must be asked for has a gate of its own: it is asked for
\* once, answered once, and runs at most once and only after its own yes -
\* however drops and replays, deadlines, replies and cancellation fall
\* between the request, the verdict and the confirmation that is sent.
ToolGate == INSTANCE ApprovalGate WITH
                Tasks <- AlwaysAsk,
                Required <- TRUE,
                verdict <- [u \in AlwaysAsk |-> approval[u]],
                launched <- [u \in AlwaysAsk |-> u \in ran]
ImplementsToolGate == ToolGate!Spec

\* Over all drops and reconnects the runner handles the agent's events in
\* the order they were emitted, leaving none out: what a new stream does not
\* show any more is in the listing made after it was opened - as long as no
\* listing has failed or was cut off by its first page, and no reply has woken
\* the agent before the first stream.
NoEventSkipped == ~blind /\ ~early => seen = 1..Cardinality(seen)

\* A request for a tool is never taken for the end of the turn, over all drops
\* and reconnects: the task is only completed on an idle event that is no
\* request (session_runner.py, session.status_idle) - unless events were missed
\* in one of these ways, or the agent used several tools at once, of which the
\* runner keeps one and forgets it with the first result or verdict.
RequestIsNotTheEnd ==
    job = "complete" /\ ~blind /\ ~early /\ ~crowded =>
        rlog[Cardinality(seen)].kind = "end_turn"

\* An answer reaches the job: when the handler of a verdict is done and the
\* task was not cancelled, the job that waits for this tool will find the
\* verdict, also a rejection that has already made the task FAILED.
VerdictReachesJob ==
    \A u \in AlwaysAsk :
        answering[u] = "done" /\ job = "wait" /\ pend = u /\ status # "cancelled"
        => granted # "none"

\* The job ends, whatever the agent, the stream and the phone do.
SessionJobEnds == job # "done" ~> job = "done"

\* The agent whose tool is rejected while the job waits for the verdict is
\* stopped, not only denied the tool, unless the call that tells it so fails or
\* a cancellation takes over.
RejectedAgentStops ==
    \A u \in AlwaysAsk :
        approval[u] = "rejected" /\ job = "wait" /\ pend = u ~>
            \/ agent \in {"stopping", "idle", "gone"}
            \/ deaf \/ cancelReq \/ cancelling # "none"

-----------------------------------------------------------------------------
(* A statement of a comment that the code refutes *)

\* session_runner.py:274, "the message is sent only once the stream is open,
\* so no early event is missed": without a listing that failed or was cut off
\* by its first page, the events handled are all those up to the last one.
NoEarlyEventMissed == ~blind => seen = 1..Cardinality(seen)

=============================================================================
