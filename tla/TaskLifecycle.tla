----------------------------- MODULE TaskLifecycle -----------------------------
(***************************************************************************)
(* The life of Phodex tasks on one backend instance that runs a subprocess *)
(* engine (Claude or Codex): TaskService and ApprovalService, which serve  *)
(* the phone's requests, and SubprocessWorkerOrchestrator with its process *)
(* runner, which runs one asyncio job per task.                            *)
(*                                                                         *)
(* Every coroutine is a program counter, and one action is what it does    *)
(* between two awaits that matter to somebody else: one committed database *)
(* transaction, one appended event, or one critical section of the engine's*)
(* asyncio lock.  A request of the phone that the code refuses (404, 409,  *)
(* 422) changes nothing and is simply not enabled.                         *)
(***************************************************************************)
EXTENDS Naturals, FiniteSets

CONSTANTS
    Tasks,                    \* the tasks of one user
    Clients,                  \* request handlers that can be in flight at once
    NoClient, NoTask,         \* null values
    RequireInitialApproval,   \* {claude,codex}_require_initial_approval
    UsesStdin,                \* TRUE: Codex, prompt on stdin; FALSE: Claude
    MaxConcurrent,            \* max_concurrent_tasks_per_user, 0 is no limit
    MaxCrashes                \* bound: how often the backend process dies

ASSUME ConstantsAssumption ==
    /\ NoClient \notin Clients
    /\ NoTask \notin Tasks
    /\ RequireInitialApproval \in BOOLEAN
    /\ UsesStdin \in BOOLEAN
    /\ MaxConcurrent \in Nat
    /\ MaxCrashes \in Nat

VARIABLES
    status, phase, approval, events,   \* the database
    states, armed, granted, queued,    \* RuntimeState of each task; queued:
                                       \* pending_replies holds a reply that
                                       \* the prompt does not contain
    procRef, job, why, cancelReq,
    lock,                              \* the engine's asyncio.Lock
    proc,                              \* the runtime's OS processes
    req,                               \* the requests in flight
    crashes                            \* how often the backend has died

dbVars  == <<status, phase, approval, events>>
memVars == <<states, armed, granted, queued, procRef>>
vars == <<status, phase, approval, events, states, armed, granted, queued,
          procRef, job, why, cancelReq, lock, proc, req, crashes>>

-----------------------------------------------------------------------------
(* Values *)

\* TaskStatus; "absent" is a task that has no row yet.
Active   == {"queued", "starting", "running", "waiting_approval"}
Terminal == {"completed", "failed", "cancelled"}
Status   == Active \cup Terminal \cup {"absent"}

\* current_phase of a failed task; each goes with one error_code of the
\* task.failed event, so the same names stand for those events.
RuntimeFailure == {"runtime_exit_nonzero", "runtime_blocked", "runtime_timeout"}
Failure == RuntimeFailure \cup {"approval_rejected", "approval_timeout",
                                "runtime_unavailable", "worker_error"}

EventKind == Failure \cup
    {"task.created", "task.starting", "task.running", "task.progress",
     "task.log", "task.completed", "task.cancelled",
     "approval.requested", "approval.approved", "approval.rejected"}

ApprovalStatus == {"none", "pending", "approved", "rejected"}

\* How a process can stand: an exit is named by the phase it leads to.
Exited == {"ok"} \cup RuntimeFailure
Proc   == {"none", "running"} \cup Exited

\* Where the job is: the next thing _run_task or ProcessRunner.run does.
BeforeAsk == {"starting", "announce", "prepare", "running", "ask"}
Parking   == {"asked", "park", "parked", "waiting"}
PastGate  == {"resume", "resumed", "launch", "spawned", "feeding", "streaming",
              "draining", "unwinding", "complete", "completed"}
JobPC == {"none", "fail", "failed", "finish", "done"}
             \cup BeforeAsk \cup Parking \cup PastGate
Alive(t)  == job[t] \notin {"none", "done"}

CreatePC == {"insert", "created", "dispatch"}
VerdictPC == {"resolved", "failRejected", "rejectedEvent", "failedEvent",
              "notify", "signal"}
CancelPC == {"cancelWrite", "cancelled", "cancelJob", "kill"}
ReplyPC  == {"replyEvent", "replyLock", "replyLog", "replyWrite"}
ReqPC == {"idle"} \cup CreatePC \cup VerdictPC \cup CancelPC \cup ReplyPC

\* approved is the verdict of an approve or reject request; late tells of a
\* reply that it was stored after the prompt had been composed.
Request == [pc: ReqPC, task: Tasks \cup {NoTask}, approved: BOOLEAN, late: BOOLEAN]
Idle == [pc |-> "idle", task |-> NoTask, approved |-> FALSE, late |-> FALSE]

TypeOK ==
    /\ status \in [Tasks -> Status]
    /\ phase \in [Tasks -> Failure \cup {"none"}]
    /\ approval \in [Tasks -> ApprovalStatus]
    /\ events \in [Tasks -> SUBSET EventKind]
    /\ states \in [Tasks -> BOOLEAN]
    /\ armed \in [Tasks -> BOOLEAN]
    /\ granted \in [Tasks -> {"none", "yes", "no"}]
    /\ queued \in [Tasks -> BOOLEAN]
    /\ procRef \in [Tasks -> BOOLEAN]
    /\ job \in [Tasks -> JobPC]
    /\ why \in [Tasks -> Failure \cup {"none"}]
    /\ cancelReq \in [Tasks -> BOOLEAN]
    /\ lock \in Clients \cup {NoClient}
    /\ proc \in [Tasks -> Proc]
    /\ req \in [Clients -> Request]
    /\ crashes \in 0..MaxCrashes

Init ==
    /\ status = [t \in Tasks |-> "absent"]
    /\ phase = [t \in Tasks |-> "none"]
    /\ approval = [t \in Tasks |-> "none"]
    /\ events = [t \in Tasks |-> {}]
    /\ states = [t \in Tasks |-> FALSE]
    /\ armed = [t \in Tasks |-> FALSE]
    /\ granted = [t \in Tasks |-> "none"]
    /\ queued = [t \in Tasks |-> FALSE]
    /\ procRef = [t \in Tasks |-> FALSE]
    /\ job = [t \in Tasks |-> "none"]
    /\ why = [t \in Tasks |-> "none"]
    /\ cancelReq = [t \in Tasks |-> FALSE]
    /\ lock = NoClient
    /\ proc = [t \in Tasks |-> "none"]
    /\ req = [c \in Clients |-> Idle]
    /\ crashes = 0

-----------------------------------------------------------------------------
(* What the steps are made of *)

\* TaskRepository.update_status: the row is locked, overwritten whatever it
\* held, and committed.
SetStatus(t, s, p) ==
    /\ status' = [status EXCEPT ![t] = s]
    /\ phase' = [phase EXCEPT ![t] = p]

\* EventService.append_event, reduced to which kinds the task's log holds.
Emit(t, e) == events' = [events EXCEPT ![t] = @ \cup {e}]

\* The job of t is about to do what pc names and has not been cancelled.
At(t, pc) == job[t] = pc /\ ~cancelReq[t]
Goto(t, pc) == job' = [job EXCEPT ![t] = pc]

\* The except branches of the job: FAILED with a phase, then task.failed.
Fail(t, f) == Goto(t, "fail") /\ why' = [why EXCEPT ![t] = f]

\* A handler in flight for c.
Doing(c, pc) == req[c].pc = pc
Continue(c, pc) == req' = [req EXCEPT ![c].pc = pc]
Begin(c, pc, t) ==
    /\ Doing(c, "idle")
    /\ req' = [req EXCEPT ![c] = [Idle EXCEPT !.pc = pc, !.task = t]]
Return(c) == req' = [req EXCEPT ![c] = Idle]

LockFree == lock = NoClient

-----------------------------------------------------------------------------
(* The job: SubprocessWorkerOrchestrator._run_task *)

\* transition_for_worker(STARTING)
JobStarting(t) ==
    /\ At(t, "starting")
    /\ SetStatus(t, "starting", "none")
    /\ Goto(t, "announce")
    /\ UNCHANGED <<approval, events, memVars, why, cancelReq, lock, proc, req, crashes>>

\* Mutant: the approval setting is ignored.
JobEventsNeverAsk ==
    {<<"announce", "task.starting", "prepare">>,
     <<"running", "task.running", "launch">>,
     <<"complete", "task.completed", "completed">>}

\* The plain event appends of the job, and where each one leads.
JobEvents ==
    {<<"announce", "task.starting", "prepare">>,
     <<"running", "task.running", IF RequireInitialApproval THEN "ask" ELSE "launch">>,
     <<"asked", "approval.requested", "park">>,
     <<"parked", "task.progress", "waiting">>,
     <<"resumed", "task.running", "launch">>,
     <<"complete", "task.completed", "completed">>}

JobEvent(t) ==
    /\ \E e \in JobEvents :
          At(t, e[1]) /\ Emit(t, e[2]) /\ Goto(t, e[3])
    /\ UNCHANGED <<status, phase, approval, memVars, why, cancelReq, lock, proc, req, crashes>>

\* The execution context is built, then transition_for_worker(RUNNING).
JobPrepare(t) ==
    /\ At(t, "prepare")
    /\ SetStatus(t, "running", "none")
    /\ Goto(t, "running")
    /\ UNCHANGED <<approval, events, memVars, why, cancelReq, lock, proc, req, crashes>>

\* Building the context or preparing the launch raises: "worker_error".
JobRaise(t) ==
    /\ At(t, "prepare") \/ At(t, "launch")
    /\ Fail(t, "worker_error")
    /\ UNCHANGED <<dbVars, memVars, cancelReq, lock, proc, req, crashes>>

\* create_approval_request: the PENDING row.
JobAsk(t) ==
    /\ At(t, "ask")
    /\ approval' = [approval EXCEPT ![t] = "pending"]
    /\ Goto(t, "asked")
    /\ UNCHANGED <<status, phase, events, memVars, why, cancelReq, lock, proc, req, crashes>>

\* Mutant: WAITING_APPROVAL is visible before state.approval_id is set.
JobParkUnarmed(t) ==
    /\ At(t, "park")
    /\ SetStatus(t, "waiting_approval", "none")
    /\ Goto(t, "parked")
    /\ UNCHANGED <<approval, events, memVars, why, cancelReq, lock, proc, req, crashes>>

\* state.approval_id is set, then transition_for_worker(WAITING_APPROVAL).
JobPark(t) ==
    /\ At(t, "park")
    /\ armed' = [armed EXCEPT ![t] = TRUE]
    /\ SetStatus(t, "waiting_approval", "none")
    /\ Goto(t, "parked")
    /\ UNCHANGED <<approval, events, states, granted, queued, procRef,
                   why, cancelReq, lock, proc, req, crashes>>

\* Mutant: the verdict is tested the wrong way round.
JobWakeInverted(t) ==
    /\ At(t, "waiting") /\ granted[t] # "none"
    /\ Goto(t, IF granted[t] = "no" /\ status[t] # "cancelled"
               THEN "resume" ELSE "finish")
    /\ UNCHANGED <<dbVars, memVars, why, cancelReq, lock, proc, req, crashes>>

\* approval_event is set: go on if the verdict was yes and the task is not
\* cancelled by now.
JobWake(t) ==
    /\ At(t, "waiting") /\ granted[t] # "none"
    /\ Goto(t, IF granted[t] = "yes" /\ status[t] # "cancelled"
               THEN "resume" ELSE "finish")
    /\ UNCHANGED <<dbVars, memVars, why, cancelReq, lock, proc, req, crashes>>

\* Mutants: a timeout counts as a yes; after it the job waits again.
JobTimeoutGrants(t) ==
    /\ At(t, "waiting") /\ granted[t] = "none"
    /\ Goto(t, "resume")
    /\ UNCHANGED <<dbVars, memVars, why, cancelReq, lock, proc, req, crashes>>

\* wait_for gives up before approval_event was set.
JobTimeout(t) ==
    /\ At(t, "waiting") /\ granted[t] = "none"
    /\ Fail(t, "approval_timeout")
    /\ UNCHANGED <<dbVars, memVars, cancelReq, lock, proc, req, crashes>>

\* transition_for_worker(RUNNING) once approved.
JobResume(t) ==
    /\ At(t, "resume")
    /\ SetStatus(t, "running", "none")
    /\ Goto(t, "resumed")
    /\ UNCHANGED <<approval, events, memVars, why, cancelReq, lock, proc, req, crashes>>

-----------------------------------------------------------------------------
(* The job: ClaudeProcessRunner.run and CodexProcessRunner.run *)

\* "Launching ... runtime process" is logged and the process is spawned.
JobSpawn(t) ==
    /\ At(t, "launch")
    /\ Emit(t, "task.log")
    /\ proc' = [proc EXCEPT ![t] = "running"]
    /\ Goto(t, "spawned")
    /\ UNCHANGED <<status, phase, approval, memVars, why, cancelReq, lock, req, crashes>>

\* The same, but the command does not exist (FileNotFoundError) or cannot be
\* started for another reason.
JobNoRuntime(t) ==
    /\ At(t, "launch")
    /\ Emit(t, "task.log")
    /\ \E f \in {"runtime_unavailable", "worker_error"} : Fail(t, f)
    /\ UNCHANGED <<status, phase, approval, memVars, cancelReq, lock, proc, req, crashes>>

\* state.process is set under the lock.  Codex then folds the queued replies
\* into the prompt and clears them; Claude leaves them queued.
JobAttach(t) ==
    /\ At(t, "spawned") /\ LockFree
    /\ procRef' = [procRef EXCEPT ![t] = TRUE]
    /\ queued' = [queued EXCEPT ![t] = @ /\ ~UsesStdin]
    /\ Goto(t, IF UsesStdin THEN "feeding" ELSE "streaming")
    /\ UNCHANGED <<dbVars, states, armed, granted, why, cancelReq, lock, proc, req, crashes>>

\* send_and_close_stdin has written the prompt and closes stdin, or finds the
\* pipe of a process that is gone broken.  No timeout runs yet: the job waits
\* here for as long as the runtime reads nothing and does not end.
JobFeed(t) ==
    /\ At(t, "feeding")
    /\ \/ Goto(t, "streaming") /\ UNCHANGED why
       \/ proc[t] \in Exited /\ Fail(t, "worker_error")
    /\ UNCHANGED <<dbVars, memVars, cancelReq, lock, proc, req, crashes>>

\* What may still come through the runtime's pipes is read.
Reading(t) == job[t] \in {"streaming", "draining", "unwinding"}

\* A line of output is logged, also after the exit and for a cancelled job.
JobOutput(t) ==
    /\ Reading(t)
    /\ \E e \in {"task.log", "task.progress"} : Emit(t, e)
    /\ UNCHANGED <<status, phase, approval, memVars, job, why, cancelReq, lock, proc,
                   req, crashes>>

\* ManagedSubprocess.wait: its timeout fires before the exit is reported and
\* the runtime is killed, if it still runs ...
RuntimeTimeout(t) ==
    /\ At(t, "streaming")
    /\ proc' = [proc EXCEPT ![t] = "runtime_timeout"]
    /\ Goto(t, "draining")
    /\ UNCHANGED <<dbVars, memVars, why, cancelReq, lock, req, crashes>>

\* ... or has ended in time.
JobWaited(t) ==
    /\ At(t, "streaming") /\ proc[t] \in Exited
    /\ Goto(t, "draining")
    /\ UNCHANGED <<dbVars, memVars, why, cancelReq, lock, proc, req, crashes>>

\* Mutant: the exit code is not looked at.
JobExitedIgnoresCode(t) ==
    /\ At(t, "draining") /\ proc[t] \in Exited
    /\ Goto(t, IF status[t] = "cancelled" THEN "finish" ELSE "complete")
    /\ UNCHANGED <<dbVars, memVars, why, cancelReq, lock, proc, req, crashes>>

\* The pipes are at their end, for which wait() sets no limit (a child of the
\* runtime may hold them open): get_status, then the outcome.
JobExited(t) ==
    /\ At(t, "draining") /\ proc[t] \in Exited
    /\ \/ /\ status[t] = "cancelled"
          /\ Goto(t, "finish") /\ UNCHANGED why
       \/ /\ status[t] # "cancelled" /\ proc[t] = "ok"
          /\ Goto(t, "complete") /\ UNCHANGED why
       \/ /\ status[t] # "cancelled" /\ proc[t] # "ok"
          /\ Fail(t, proc[t])
    /\ UNCHANGED <<dbVars, memVars, cancelReq, lock, proc, req, crashes>>

\* The pipes of a cancelled job are at their end.
JobUnwound(t) ==
    /\ At(t, "unwinding")
    /\ Goto(t, "finish")
    /\ UNCHANGED <<dbVars, memVars, why, cancelReq, lock, proc, req, crashes>>

\* transition_for_worker(COMPLETED), after task.completed.
JobComplete(t) ==
    /\ At(t, "completed")
    /\ SetStatus(t, "completed", "none")
    /\ Goto(t, "finish")
    /\ UNCHANGED <<approval, events, memVars, why, cancelReq, lock, proc, req, crashes>>

\* transition_for_worker(FAILED), then task.failed.
JobFail(t) ==
    /\ At(t, "fail")
    /\ SetStatus(t, "failed", why[t])
    /\ Goto(t, "failed")
    /\ UNCHANGED <<approval, events, memVars, why, cancelReq, lock, proc, req, crashes>>

JobFailed(t) ==
    /\ At(t, "failed")
    /\ Emit(t, why[t])
    /\ Goto(t, "finish")
    /\ UNCHANGED <<status, phase, approval, memVars, why, cancelReq, lock, proc, req, crashes>>

\* finally: the RuntimeState is dropped under the lock.
JobFinally(t) ==
    /\ job[t] = "finish" /\ LockFree
    /\ states' = [states EXCEPT ![t] = FALSE]
    /\ Goto(t, "done")
    /\ UNCHANGED <<dbVars, armed, granted, queued, procRef, why, cancelReq,
                   lock, proc, req, crashes>>

\* CancelledError at the await the job is in.  One that waits for the exit of
\* its process still drains the output in wait()'s finally block, where only a
\* second cancellation reaches it.
JobCancelled(t) ==
    /\ cancelReq[t] /\ Alive(t)
    /\ \/ job[t] \notin {"streaming", "finish"} /\ Goto(t, "finish")
       \/ job[t] \in {"streaming", "draining"} /\ Goto(t, "unwinding")
    /\ cancelReq' = [cancelReq EXCEPT ![t] = FALSE]
    /\ UNCHANGED <<dbVars, memVars, why, lock, proc, req, crashes>>

\* A job that waits for the lock in its finally block skips the clean-up.
JobCancelledAtExit(t) ==
    /\ cancelReq[t] /\ job[t] = "finish" /\ ~LockFree
    /\ Goto(t, "done")
    /\ cancelReq' = [cancelReq EXCEPT ![t] = FALSE]
    /\ UNCHANGED <<dbVars, memVars, why, lock, proc, req, crashes>>

\* The runtime process ends by itself, whoever still looks at it.
ProcessExit(t) ==
    /\ proc[t] = "running"
    /\ \E o \in {"ok", "runtime_exit_nonzero", "runtime_blocked"} :
          proc' = [proc EXCEPT ![t] = o]
    /\ UNCHANGED <<dbVars, memVars, job, why, cancelReq, lock, req, crashes>>

-----------------------------------------------------------------------------
(* POST /tasks: TaskService.create_task *)

ActiveTasks == {t \in Tasks : status[t] \in Active}

\* Bound: a request is only started while there is a task id left for it.
IdLeft == Cardinality({c \in Clients : Doing(c, "insert")})
             < Cardinality({t \in Tasks : status[t] = "absent"})

\* The running tasks are counted ...
CreateCheck(c) ==
    /\ IdLeft
    /\ MaxConcurrent > 0 => Cardinality(ActiveTasks) < MaxConcurrent
    /\ Begin(c, "insert", NoTask)
    /\ UNCHANGED <<dbVars, memVars, job, why, cancelReq, lock, proc, crashes>>

\* ... and later the new task is inserted and committed.
CreateInsert(c) ==
    /\ Doing(c, "insert")
    /\ \E t \in Tasks :
          /\ status[t] = "absent"
          /\ status' = [status EXCEPT ![t] = "queued"]
          /\ req' = [req EXCEPT ![c] = [@ EXCEPT !.pc = "created", !.task = t]]
    /\ UNCHANGED <<phase, approval, events, memVars, job, why, cancelReq, lock, proc, crashes>>

\* dispatch_task: a job and a fresh RuntimeState, unless a job is running.
Dispatch(c) ==
    LET t == req[c].task IN
    /\ Doing(c, "dispatch") /\ LockFree
    /\ IF states[t] /\ Alive(t)
       THEN UNCHANGED <<memVars, job, why, cancelReq>>
       ELSE /\ states' = [states EXCEPT ![t] = TRUE]
            /\ armed' = [armed EXCEPT ![t] = FALSE]
            /\ granted' = [granted EXCEPT ![t] = "none"]
            /\ queued' = [queued EXCEPT ![t] = FALSE]
            /\ procRef' = [procRef EXCEPT ![t] = FALSE]
            /\ why' = [why EXCEPT ![t] = "none"]
            /\ cancelReq' = [cancelReq EXCEPT ![t] = FALSE]
            /\ Goto(t, "starting")
    /\ Return(c)
    /\ UNCHANGED <<dbVars, lock, proc, crashes>>

\* The plain event appends of the request handlers.
RequestEvents ==
    {<<"created", "task.created", "dispatch">>,
     <<"resolved", "approval.approved", "notify">>,
     <<"rejectedEvent", "approval.rejected", "failedEvent">>,
     <<"failedEvent", "approval_rejected", "notify">>,
     <<"cancelled", "task.cancelled", "cancelJob">>,
     <<"replyEvent", "task.progress", "replyLock">>}

RequestEvent(c) ==
    /\ \E e \in RequestEvents :
          Doing(c, e[1]) /\ Emit(req[c].task, e[2]) /\ Continue(c, e[3])
    /\ UNCHANGED <<status, phase, approval, memVars, job, why, cancelReq, lock, proc, crashes>>

-----------------------------------------------------------------------------
(* POST /approvals/{id}/approve and /reject: ApprovalService *)

BeginVerdict(c, t, ok) ==
    /\ Doing(c, "idle")
    /\ req' = [req EXCEPT ![c] = [Idle EXCEPT
                 !.pc = IF ok THEN "resolved" ELSE "failRejected",
                 !.task = t, !.approved = ok]]

\* _resolve: approval and task rows are locked, both must be unresolved, and
\* the verdict is committed.
Resolve(c, t, ok) ==
    /\ approval[t] = "pending" /\ status[t] = "waiting_approval"
    /\ approval' = [approval EXCEPT ![t] = IF ok THEN "approved" ELSE "rejected"]
    /\ BeginVerdict(c, t, ok)
    /\ UNCHANGED <<status, phase, events, memVars, job, why, cancelReq, lock, proc, crashes>>

\* A rejection then fails the task, in a second transaction.
ResolveFail(c) ==
    /\ Doing(c, "failRejected")
    /\ SetStatus(req[c].task, "failed", "approval_rejected")
    /\ Continue(c, "rejectedEvent")
    /\ UNCHANGED <<approval, events, memVars, job, why, cancelReq, lock, proc, crashes>>

\* Mutant: the handler retries until the task waits for approval.
NotifyEngineRetries(c) ==
    /\ Doing(c, "notify")
    /\ Continue(c, IF status[req[c].task] = "waiting_approval" THEN "signal" ELSE "resolved")
    /\ UNCHANGED <<dbVars, memVars, job, why, cancelReq, lock, proc, crashes>>

\* handle_approval: get_status before the lock is taken ...
NotifyEngine(c) ==
    /\ Doing(c, "notify")
    /\ IF status[req[c].task] = "waiting_approval" THEN Continue(c, "signal") ELSE Return(c)
    /\ UNCHANGED <<dbVars, memVars, job, why, cancelReq, lock, proc, crashes>>

\* Mutant: a verdict that comes before the job waits is dropped.
SignalTooEarly(c) ==
    LET t == req[c].task IN
    /\ Doing(c, "signal") /\ LockFree
    /\ granted' = [granted EXCEPT ![t] =
                      IF ~states[t] \/ ~armed[t] \/ job[t] # "waiting" THEN @
                      ELSE IF req[c].approved THEN "yes" ELSE "no"]
    /\ Return(c)
    /\ UNCHANGED <<dbVars, states, armed, queued, procRef, job, why, cancelReq,
                   lock, proc, crashes>>

\* ... and the job is woken if it is still there and waits for this approval.
Signal(c) ==
    LET t == req[c].task IN
    /\ Doing(c, "signal") /\ LockFree
    /\ granted' = [granted EXCEPT ![t] =
                      IF ~states[t] \/ ~armed[t] THEN @
                      ELSE IF req[c].approved THEN "yes" ELSE "no"]
    /\ Return(c)
    /\ UNCHANGED <<dbVars, states, armed, queued, procRef, job, why, cancelReq,
                   lock, proc, crashes>>

-----------------------------------------------------------------------------
(* POST /tasks/{id}/cancel: TaskService.cancel_task *)

\* The status is read without a lock ...
CancelCheck(c, t) ==
    /\ status[t] \in Active
    /\ Begin(c, "cancelWrite", t)
    /\ UNCHANGED <<dbVars, memVars, job, why, cancelReq, lock, proc, crashes>>

\* ... and later overwritten, whatever it is by then.
CancelWrite(c) ==
    /\ Doing(c, "cancelWrite")
    /\ SetStatus(req[c].task, "cancelled", "none")
    /\ Continue(c, "cancelled")
    /\ UNCHANGED <<approval, events, memVars, job, why, cancelReq, lock, proc, crashes>>

\* cancel_task of the engine: a running process it knows of is terminated
\* first; otherwise the job is cancelled without giving up control.
CancelJob(c) ==
    LET t == req[c].task IN
    /\ Doing(c, "cancelJob") /\ LockFree
    /\ IF states[t] /\ procRef[t] /\ proc[t] = "running"
       THEN /\ \E o \in {"ok", "runtime_exit_nonzero"} : proc' = [proc EXCEPT ![t] = o]
            /\ Continue(c, "kill")
            /\ UNCHANGED cancelReq
       ELSE /\ cancelReq' = [cancelReq EXCEPT ![t] = @ \/ (states[t] /\ Alive(t))]
            /\ Return(c)
            /\ UNCHANGED proc
    /\ UNCHANGED <<dbVars, memVars, job, why, lock, crashes>>

\* The terminated process has been waited for, killed after two seconds and
\* then without a limit: job.cancel().
CancelKill(c) ==
    LET t == req[c].task IN
    /\ Doing(c, "kill")
    /\ cancelReq' = [cancelReq EXCEPT ![t] = @ \/ Alive(t)]
    /\ Return(c)
    /\ UNCHANGED <<dbVars, memVars, job, why, lock, proc, crashes>>

-----------------------------------------------------------------------------
(* POST /tasks/{id}/reply: TaskService.add_reply *)

\* The job has read the stored messages into its prompt.
Prompted(t) == job[t] \notin {"none", "starting", "announce", "prepare"}

\* The message is stored unless the task is finished.
ReplyStore(c, t) ==
    /\ status[t] \in Active /\ Doing(c, "idle")
    /\ req' = [req EXCEPT ![c] = [Idle EXCEPT
                 !.pc = "replyEvent", !.task = t, !.late = Prompted(t)]]
    /\ UNCHANGED <<dbVars, memVars, job, why, cancelReq, lock, proc, crashes>>

StdinOpen(t) == procRef[t] /\ job[t] = "feeding"

\* handle_user_reply: without a writable stdin the reply is queued and the
\* lock stays taken while the event is appended; with one it is written after
\* the lock is released.
ReplyLock(c) ==
    LET t == req[c].task IN
    /\ Doing(c, "replyLock") /\ LockFree
    /\ \/ ~states[t] /\ Return(c) /\ UNCHANGED <<queued, lock>>
       \/ /\ states[t] /\ ~StdinOpen(t)
          /\ queued' = [queued EXCEPT ![t] = @ \/ req[c].late]
          /\ lock' = c
          /\ Continue(c, "replyLog")
       \/ states[t] /\ StdinOpen(t) /\ Continue(c, "replyWrite") /\ UNCHANGED <<queued, lock>>
    /\ UNCHANGED <<dbVars, states, armed, granted, procRef, job, why, cancelReq, proc, crashes>>

ReplyLog(c) ==
    /\ Doing(c, "replyLog")
    /\ Emit(req[c].task, "task.log")
    /\ lock' = NoClient
    /\ Return(c)
    /\ UNCHANGED <<status, phase, approval, memVars, job, why, cancelReq, proc, crashes>>

\* write_to_stdin: the reply is drained and logged, unless stdin was closed
\* meanwhile or its pipe is broken.
ReplyWrite(c) ==
    LET t == req[c].task IN
    /\ Doing(c, "replyWrite")
    /\ \/ Emit(t, "task.log")
       \/ ~StdinOpen(t) /\ UNCHANGED events
       \/ proc[t] \in Exited /\ UNCHANGED events
    /\ Return(c)
    /\ UNCHANGED <<status, phase, approval, memVars, job, why, cancelReq, lock, proc, crashes>>

-----------------------------------------------------------------------------
(* The backend process dies: everything in memory is gone, the runtime     *)
(* processes are orphans, and the restarted backend resumes nothing.       *)
Crash ==
    /\ crashes < MaxCrashes
    /\ crashes' = crashes + 1
    /\ states' = [t \in Tasks |-> FALSE]
    /\ armed' = [t \in Tasks |-> FALSE]
    /\ granted' = [t \in Tasks |-> "none"]
    /\ queued' = [t \in Tasks |-> FALSE]
    /\ procRef' = [t \in Tasks |-> FALSE]
    /\ job' = [t \in Tasks |-> IF job[t] = "none" THEN "none" ELSE "done"]
    /\ why' = [t \in Tasks |-> "none"]
    /\ cancelReq' = [t \in Tasks |-> FALSE]
    /\ lock' = NoClient
    /\ req' = [c \in Clients |-> Idle]
    /\ UNCHANGED <<dbVars, proc>>

\* Nothing is in flight; the phone may or may not ask for more.
Quiescent ==
    /\ \A c \in Clients : Doing(c, "idle")
    /\ \A t \in Tasks : ~Alive(t) /\ proc[t] # "running"
    /\ UNCHANGED vars

-----------------------------------------------------------------------------
JobStep(t) ==
    \/ JobStarting(t) \/ JobEvent(t) \/ JobPrepare(t) \/ JobRaise(t)
    \/ JobAsk(t) \/ JobPark(t) \/ JobWake(t) \/ JobTimeout(t) \/ JobResume(t)
    \/ JobSpawn(t) \/ JobNoRuntime(t) \/ JobAttach(t)
    \/ JobOutput(t) \/ RuntimeTimeout(t) \/ JobWaited(t) \/ JobComplete(t)
    \/ JobFail(t) \/ JobFailed(t) \/ JobFinally(t)
    \/ JobCancelled(t) \/ JobCancelledAtExit(t)

\* What waits for the runtime, or for a child it left behind, with no limit.
RuntimeStep(t) == JobFeed(t) \/ JobExited(t) \/ JobUnwound(t) \/ ProcessExit(t)

RequestStart(c) ==
    \/ CreateCheck(c)
    \/ \E t \in Tasks : \/ CancelCheck(c, t) \/ ReplyStore(c, t)
                        \/ \E ok \in BOOLEAN : Resolve(c, t, ok)

RequestStep(c) ==
    \/ CreateInsert(c) \/ Dispatch(c) \/ RequestEvent(c)
    \/ ResolveFail(c) \/ NotifyEngine(c) \/ Signal(c)
    \/ CancelWrite(c) \/ CancelJob(c)
    \/ ReplyLock(c) \/ ReplyLog(c)

\* The same for the requests: stdin is drained, a killed process waited for.
RuntimeAnswer(c) == CancelKill(c) \/ ReplyWrite(c)

Next ==
    \/ \E t \in Tasks : JobStep(t) \/ RuntimeStep(t)
    \/ \E c \in Clients : RequestStart(c) \/ RequestStep(c) \/ RuntimeAnswer(c)
    \/ Crash
    \/ Quiescent

Spec == Init /\ [][Next]_vars

\* The event loop runs every coroutine that can run, and asyncio.Lock serves
\* its waiters in order, so one that waits for the lock again and again gets
\* it.  Nothing is assumed of the phone and of the runtime process: the two
\* timeouts are job steps, and what no timeout bounds - the write of the prompt
\* or a reply, the end of the pipes, the exit after a kill - may never come.
Fairness ==
    /\ \A t \in Tasks : SF_vars(JobStep(t))
    /\ \A c \in Clients : SF_vars(RequestStep(c))

FairSpec == Spec /\ Fairness

-----------------------------------------------------------------------------
(* Correctness *)

\* The human gate: with require_initial_approval set, no runtime process is
\* ever spawned for a task whose approval a human has not granted - however
\* approve, reject, cancel, the timeout and a restart interleave.
HumanGate ==
    RequireInitialApproval =>
        \A t \in Tasks : proc[t] # "none" => approval[t] = "approved"

\* What the log says happened, happened: task.completed is only logged for a
\* process that exited well, and the task is never COMPLETED without it
\* (the runner appends the event before the transition, over two awaits in
\* which a cancel may come).
CompletionTruthful ==
    \A t \in Tasks :
        /\ "task.completed" \in events[t] => proc[t] = "ok"
        /\ status[t] = "completed" => "task.completed" \in events[t]

\* A running job can be found by the requests that concern it: its state is
\* registered from dispatch until its finally block, and the approval id is in
\* the state before the phone can answer the approval - a verdict that finds
\* the task WAITING_APPROVAL and its job alive is never dropped as unknown.
JobIsReachable ==
    \A t \in Tasks : Alive(t) =>
        /\ states[t]
        /\ status[t] = "waiting_approval" => armed[t]

\* The wake-up is never lost: when the handler of a granted approval is done
\* and the task was not cancelled, a job that has yet to wait, or waits, will
\* find approval_event set - though the verdict may come between the
\* WAITING_APPROVAL transition and the wait.
WakeupNotLost ==
    \A t \in Tasks :
        /\ approval[t] = "approved" /\ job[t] \in {"parked", "waiting"}
        /\ status[t] # "cancelled"
        /\ \A c \in Clients : ~(req[c].task = t /\ req[c].pc \in VerdictPC)
        => granted[t] = "yes"

\* A job ends, whatever the phone and the runtime process do or fail to do:
\* the approval timeout, the runtime timeout and cancellation end it.  The
\* places where it may stay for ever are named: the write of the prompt, which
\* comes before the timeout is armed, and the end of the pipes after the exit,
\* the kill or the cancellation (codex/process_runner.py, subprocess_io.py).
Stuck == {"feeding", "draining", "unwinding"}

\* A request of the phone is answered: no handler waits for ever for the lock
\* of the engine, whatever the jobs and the other handlers do.  It may wait for
\* ever only for the runtime to read a reply or, killed, to go.
RequestEnds ==
    \A c \in Clients : <>[]~Doing(c, "idle")
                          => <>[](Doing(c, "replyWrite") \/ Doing(c, "kill"))

\* An approval is honoured: once it is granted, the runtime is launched,
\* unless the task is cancelled, fails with a reason that is logged, or the
\* backend dies.
ApprovalHonoured ==
    \A t \in Tasks :
        approval[t] = "approved" ~>
            \/ proc[t] # "none"
            \/ events[t] \cap (Failure \cup {"task.cancelled"}) # {}
            \/ crashes > 0

\* The gate as the lifecycle implements it.
Gate == INSTANCE ApprovalGate WITH
            Required <- RequireInitialApproval,
            verdict <- approval,
            launched <- [t \in Tasks |-> proc[t] # "none"]

\* Every run of the backend is a run of the gate the product promises
\* (ApprovalGate): ask, one verdict, launch at most once and only if granted.
ImplementsGate == Gate!Spec

-----------------------------------------------------------------------------
(* Statements of the documentation and the tests that the code refutes *)

\* orchestrator.py, where the job finds approval_granted not True: "Rejection
\* is handled by ApprovalService before dispatcher callback": when the callback
\* of a rejection comes, a job that waits is still to be woken by it.
RejectionReachesJob ==
    \A c \in Clients :
        Doing(c, "notify") /\ ~req[c].approved =>
            LET t == req[c].task IN
            job[t] = "waiting" /\ ~cancelReq[t] => status[t] = "waiting_approval"

\* test_tasks_and_approvals.py: after a cancel is accepted the task is
\* "cancelled"; cancellation is a final status.
CancelIsFinal ==
    [][\A t \in Tasks : status[t] = "cancelled" => status'[t] = "cancelled"]_status

=============================================================================
