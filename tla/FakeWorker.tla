------------------------------- MODULE FakeWorker -------------------------------
(***************************************************************************)
(* The default engine, FakeWorkerEngine, with the requests of the phone    *)
(* around it.  It keeps no state between its two jobs: the first asks for  *)
(* an approval and ends, and the approval starts the second.  The engine   *)
(* knows one job per task, the latest.                                     *)
(*                                                                         *)
(* One task; tasks share nothing but a lock that is never held across an   *)
(* await.  One action is one committed transaction, or what a coroutine    *)
(* does in memory between two awaits.  The events the jobs append, and     *)
(* replies, which only append events, are left out.                        *)
(***************************************************************************)
EXTENDS Naturals

CONSTANTS
    Clients,        \* requests of the phone that are served at once
    MaxFaults       \* bound: how often something raises or the backend restarts

ASSUME FakeAssumption == MaxFaults \in Nat

VARIABLES
    status,         \* of the task
    approval,       \* of its approval request
    creator,        \* the request that creates the task
    job,            \* where each of the two jobs is
    entry,          \* the job in _task_jobs
    stop,           \* the jobs whose cancellation is not delivered yet
    req,            \* the other requests
    faults

vars == <<status, approval, creator, job, entry, stop, req, faults>>

Jobs == {"first", "second"}
Terminal == {"completed", "failed", "cancelled"}
Idle == [pc |-> "idle", approved |-> FALSE]

\* The task has been inserted and is not dispatched yet.
Init ==
    /\ status = "queued" /\ approval = "none"
    /\ creator = "dispatch"
    /\ job = [j \in Jobs |-> "none"] /\ entry = "none" /\ stop = {}
    /\ req = [c \in Clients |-> Idle]
    /\ faults = 0

\* Not asyncio.Task.done.
Busy(j) == job[j] \notin {"none", "done"}

EngagedNever == FALSE                   \* Mutant: nobody looks.
EngagedForGood == entry # "none"        \* Mutant: done() is not asked.

\* _task_jobs has a job that is not done.
Engaged == entry # "none" /\ Busy(entry)

-----------------------------------------------------------------------------
(* The jobs                                                                *)

\* dispatch_task.  The row is not read again: a task that was cancelled
\* meanwhile starts.
Dispatch ==
    /\ creator = "dispatch" /\ creator' = "done"
    /\ job' = [job EXCEPT !["first"] = "starting"] /\ entry' = "first"
    /\ UNCHANGED <<status, approval, stop, req, faults>>

\* The event or the cache raises before that, and the task stays queued.
CreateFails ==
    /\ creator = "dispatch" /\ creator' = "done"
    /\ faults < MaxFaults /\ faults' = faults + 1
    /\ UNCHANGED <<status, approval, job, entry, stop, req>>

\* What a job does at each statement, and where it goes.  Until its last
\* event it is not done, and the task can be answered already.
FirstJob ==
    [starting |-> <<"starting", "booted">>,
     booted   |-> <<"check", "run">>,
     run      |-> <<"running", "analyzed">>,
     analyzed |-> <<"check", "ask">>,
     ask      |-> <<"ask", "park">>,
     park     |-> <<"waiting_approval", "announce">>,
     announce |-> <<"event", "done">>]
SecondJob ==
    [resume   |-> <<"running", "resumed">>,
     resumed  |-> <<"check", "complete">>,
     complete |-> <<"completed", "settle">>,
     settle   |-> <<"event", "done">>]
Failing ==
    [fail   |-> <<"failed", "report">>,
     report |-> <<"event", "done">>]

Script ==
    [pc \in DOMAIN FirstJob \cup DOMAIN SecondJob \cup DOMAIN Failing |->
        IF pc \in DOMAIN FirstJob THEN FirstJob[pc]
        ELSE IF pc \in DOMAIN SecondJob THEN SecondJob[pc]
        ELSE Failing[pc]]

\* A job whose cancellation has not been asked for goes on.
GoesOn(j) ==
    /\ Busy(j) /\ j \notin stop
    /\ job' = [job EXCEPT ![j] = Script[@][2]]
    /\ UNCHANGED <<creator, entry, stop, req, faults>>

\* transition_for_worker overwrites the status, whatever it is.
JobWrite(j) ==
    /\ GoesOn(j)
    /\ Script[job[j]][1] \notin {"check", "ask", "event"}
    /\ status' = Script[job[j]][1] /\ UNCHANGED approval

JobAppend(j) == GoesOn(j) /\ Script[job[j]][1] = "event" /\ UNCHANGED <<status, approval>>

\* create_approval_request.
JobAsk(j) ==
    /\ GoesOn(j) /\ Script[job[j]][1] = "ask"
    /\ approval' = "pending" /\ UNCHANGED status

\* After each delay a job stops if the task has been cancelled.
JobCheck(j) ==
    /\ Busy(j) /\ j \notin stop /\ Script[job[j]][1] = "check"
    /\ job' = [job EXCEPT ![j] = IF status = "cancelled" THEN "done" ELSE Script[@][2]]
    /\ UNCHANGED <<status, approval, creator, entry, stop, req, faults>>

\* A statement or an event of a job raises, or the cache after it: the task
\* is to fail, even if it is COMPLETED by then.  Where that raises too the job
\* ends.
JobRaises(j) ==
    /\ Busy(j)
    /\ faults < MaxFaults /\ faults' = faults + 1
    /\ job' = [job EXCEPT ![j] = IF @ \in DOMAIN Failing THEN "done" ELSE "fail"]
    /\ UNCHANGED <<status, approval, creator, entry, stop, req>>

\* The job ends at the await where it is, and leaves the row as it is.
JobCancelled(j) ==
    /\ j \in stop /\ stop' = stop \ {j}
    /\ job' = [job EXCEPT ![j] = "done"]
    /\ UNCHANGED <<status, approval, creator, entry, req, faults>>

-----------------------------------------------------------------------------
(* The requests of the phone                                               *)

Doing(c, pc) == req[c].pc = pc
Continue(c, pc) == req' = [req EXCEPT ![c].pc = pc]

AnyVerdict == approval # "none"         \* Mutant: verdicts may be replaced.
Unresolved == approval = "pending"

\* _resolve: both rows are locked and must be unresolved.
Resolve(c, ok) ==
    /\ Doing(c, "idle")
    /\ Unresolved /\ status = "waiting_approval"
    /\ approval' = IF ok THEN "approved" ELSE "rejected"
    /\ req' = [req EXCEPT ![c] = [pc |-> IF ok THEN "notify" ELSE "fail", approved |-> ok]]
    /\ UNCHANGED <<status, creator, job, entry, stop, faults>>

\* A rejection fails the task in a second transaction.  handle_approval finds
\* it failed then, and does nothing: its own branch for a rejection is never
\* reached.
RejectFail(c) ==
    /\ Doing(c, "fail")
    /\ status' = "failed"
    /\ req' = [req EXCEPT ![c] = Idle]
    /\ UNCHANGED <<approval, creator, job, entry, stop, faults>>

\* handle_approval of an approval: get_status ...
Notify(c) ==
    /\ Doing(c, "notify")
    /\ Continue(c, IF status = "waiting_approval" THEN "resume" ELSE "idle")
    /\ UNCHANGED <<status, approval, creator, job, entry, stop, faults>>

\* ... and, unless a job of the task is still at work, the second job.
Resume(c) ==
    /\ Doing(c, "resume")
    /\ IF Engaged THEN UNCHANGED <<job, entry>>
       ELSE job' = [job EXCEPT !["second"] = "resume"] /\ entry' = "second"
    /\ req' = [req EXCEPT ![c] = Idle]
    /\ UNCHANGED <<status, approval, creator, stop, faults>>

\* TaskService.cancel_task reads the status, overwrites it later, and tells
\* the engine.
CancelCheck(c) ==
    /\ Doing(c, "idle") /\ status \notin Terminal
    /\ Continue(c, "cancelWrite")
    /\ UNCHANGED <<status, approval, creator, job, entry, stop, faults>>

CancelWrite(c) ==
    /\ Doing(c, "cancelWrite")
    /\ status' = "cancelled"
    /\ Continue(c, "cancelJob")
    /\ UNCHANGED <<approval, creator, job, entry, stop, faults>>

CancelJob(c) ==
    /\ Doing(c, "cancelJob")
    /\ stop' = IF Engaged THEN stop \cup {entry} ELSE stop
    /\ req' = [req EXCEPT ![c] = Idle]
    /\ UNCHANGED <<status, approval, creator, job, entry, faults>>

\* A statement or an event of a request raises between its steps.
RequestRaises(c) ==
    /\ ~Doing(c, "idle")
    /\ faults < MaxFaults /\ faults' = faults + 1
    /\ req' = [req EXCEPT ![c] = Idle]
    /\ UNCHANGED <<status, approval, creator, job, entry, stop>>

\* The backend restarts: jobs and requests are gone, rows stay.
Crash ==
    /\ faults < MaxFaults /\ faults' = faults + 1
    /\ creator' = "done"
    /\ job' = [j \in Jobs |-> IF Busy(j) THEN "done" ELSE job[j]]
    /\ entry' = "none" /\ stop' = {}
    /\ req' = [c \in Clients |-> Idle]
    /\ UNCHANGED <<status, approval>>

\* Nothing is under way and nothing can be asked for any more.
Quiescent ==
    /\ creator = "done" /\ status \in Terminal
    /\ \A j \in Jobs : ~Busy(j)
    /\ \A c \in Clients : Doing(c, "idle")
    /\ UNCHANGED vars

-----------------------------------------------------------------------------
JobStep(j) == JobWrite(j) \/ JobAppend(j) \/ JobAsk(j) \/ JobCheck(j) \/ JobCancelled(j)
RequestStep(c) ==
    RejectFail(c) \/ Notify(c) \/ Resume(c) \/ CancelWrite(c) \/ CancelJob(c)

Next ==
    \/ Dispatch \/ CreateFails
    \/ \E j \in Jobs : JobStep(j) \/ JobRaises(j)
    \/ \E c \in Clients :
        \/ RequestStep(c) \/ RequestRaises(c)
        \/ CancelCheck(c) \/ \E ok \in BOOLEAN : Resolve(c, ok)
    \/ Crash \/ Quiescent

Spec == Init /\ [][Next]_vars

\* The event loop runs every job and every request it has accepted.
FairSpec ==
    /\ Spec
    /\ \A j \in Jobs : WF_vars(JobStep(j))
    /\ \A c \in Clients : WF_vars(RequestStep(c))

-----------------------------------------------------------------------------
(* Properties                                                              *)

\* The default engine keeps the promise of the approval step: it asks once,
\* is answered once, and applies the action at most once and only after a
\* yes - across restarts too, after which an approval starts a new job.
Gate == INSTANCE ApprovalGate WITH
            Tasks <- {"task"},
            Required <- TRUE,
            verdict <- [t \in {"task"} |-> approval],
            launched <- [t \in {"task"} |-> job["second"] # "none"]
FakeGate == Gate!Spec

\* The two jobs never work on the task at the same time, although the task
\* can be answered before the first one is done and a cancellation reaches
\* only the job that the table holds.
JobsTakeTurns == ~(Busy("first") /\ Busy("second"))

Cancelling == \E c \in Clients : req[c].pc \in {"cancelWrite", "cancelJob"}

\* An approval that is handled when the first job is over takes the task to
\* an end, unless a fault intervenes or a cancellation, whose CANCELLED the
\* second job may overwrite before it is stopped.
ApprovalCarriedOut ==
    \A c \in Clients, n \in 0..MaxFaults :
        Doing(c, "notify") /\ status = "waiting_approval" /\ ~Busy("first") /\ faults = n
            ~> status \in Terminal \/ Cancelling \/ faults > n

-----------------------------------------------------------------------------
(* A statement of a test that the code refutes                             *)

\* tests/test_tasks_and_approvals.py:29-40: a task that waits for approval and
\* is approved goes on.  An approval that comes before the last event of the
\* first job starts nothing, and the task waits for ever.
ApprovedTaskGoesOn ==
    approval = "approved" /\ status = "waiting_approval" ~> status # "waiting_approval"

=============================================================================
