-------------------------- MODULE TaskLifecycleProofs --------------------------
(***************************************************************************)
(* Theorems about TaskLifecycle for any number of tasks, of concurrent     *)
(* requests and of crashes.                                                *)
(***************************************************************************)
EXTENDS TaskLifecycle, TLAPS

\* The event tables: which program counters and event kinds they connect.
LEMMA JobEventsTable ==
    ASSUME NEW e \in JobEvents
    PROVE  /\ e[1] \in JobPC \ {"none", "done", "fail", "failed"}
           /\ e[2] \in EventKind
           /\ e[3] \in JobPC \ {"none", "done", "fail", "failed"}
  BY DEF JobEvents, JobPC, EventKind, Failure, RuntimeFailure, BeforeAsk, Parking, PastGate

LEMMA RequestEventsTable ==
    ASSUME NEW e \in RequestEvents
    PROVE  /\ e[1] \in ReqPC \ {"idle", "insert"}
           /\ e[2] \in EventKind
           /\ e[3] \in ReqPC \ {"idle", "insert"}
  BY DEF RequestEvents, ReqPC, CreatePC, VerdictPC, CancelPC, ReplyPC,
         EventKind, Failure, RuntimeFailure

-----------------------------------------------------------------------------
(* Type correctness *)

\* TypeOK alone is not inductive: a job about to report a failure must know
\* one, and a request that is under way is about a task.
TypeInv ==
    /\ TypeOK
    /\ \A t \in Tasks : job[t] \in {"fail", "failed"} => why[t] \in Failure
    /\ \A c \in Clients : req[c].pc \notin {"idle", "insert"} => req[c].task \in Tasks

LEMMA TypeInit == Init => TypeInv
  BY ConstantsAssumption
  DEF Init, TypeInv, TypeOK, Status, Active, Terminal, ApprovalStatus, JobPC, Proc,
      Request, Idle, ReqPC, BeforeAsk

\* What the steps of the jobs write has the right type.
LEMMA TypeJob ==
    ASSUME TypeInv, NEW t \in Tasks, JobStep(t) \/ RuntimeStep(t)
    PROVE  TypeInv'
  <1> USE DEF TypeInv, TypeOK, dbVars, memVars, At, Goto
  <1>1. CASE JobEvent(t)
    BY <1>1, JobEventsTable DEF JobEvent, Emit
  <1>2. CASE JobStarting(t)
    BY <1>2 DEF JobStarting, SetStatus, Status, Active, JobPC, BeforeAsk
  <1>3. CASE JobPrepare(t)
    BY <1>3 DEF JobPrepare, SetStatus, Status, Active, JobPC, BeforeAsk
  <1>4. CASE JobPark(t)
    BY <1>4 DEF JobPark, SetStatus, Status, Active, JobPC, Parking
  <1>5. CASE JobResume(t)
    BY <1>5 DEF JobResume, SetStatus, Status, Active, JobPC, PastGate
  <1>6. CASE JobComplete(t)
    BY <1>6 DEF JobComplete, SetStatus, Status, Terminal, JobPC
  <1>7. CASE JobRaise(t)
    BY <1>7 DEF JobRaise, Fail, Failure, JobPC
  <1>8. CASE JobTimeout(t)
    BY <1>8 DEF JobTimeout, Fail, Failure, JobPC
  <1>9. CASE JobNoRuntime(t)
    BY <1>9 DEF JobNoRuntime, Fail, Emit, Failure, JobPC, EventKind
  <1>10. CASE JobAsk(t)
    BY <1>10 DEF JobAsk, ApprovalStatus, JobPC, Parking
  <1>11. CASE JobWake(t)
    BY <1>11 DEF JobWake, JobPC, PastGate
  <1>12. CASE JobFeed(t)
    BY <1>12 DEF JobFeed, Fail, Failure, JobPC, PastGate
  <1>13. CASE JobFinally(t)
    BY <1>13 DEF JobFinally, JobPC
  <1>14. CASE JobSpawn(t)
    BY <1>14 DEF JobSpawn, Emit, EventKind, Proc, JobPC, PastGate
  <1>15. CASE JobAttach(t)
    BY <1>15, ConstantsAssumption DEF JobAttach, JobPC, PastGate
  <1>16. CASE JobExited(t)
    BY <1>16 DEF JobExited, Fail, Exited, Failure, RuntimeFailure, JobPC, PastGate
  <1>17. CASE JobFail(t)
    BY <1>17 DEF JobFail, SetStatus, Status, Terminal, JobPC
  <1>18. CASE JobFailed(t)
    BY <1>18 DEF JobFailed, Emit, EventKind, JobPC
  <1>19. CASE JobCancelled(t)
    BY <1>19 DEF JobCancelled, Alive, JobPC, PastGate
  <1>20. CASE JobCancelledAtExit(t)
    BY <1>20 DEF JobCancelledAtExit, JobPC
  <1>21. CASE RuntimeTimeout(t)
    BY <1>21 DEF RuntimeTimeout, Proc, Exited, RuntimeFailure, JobPC, PastGate
  <1>22. CASE ProcessExit(t)
    BY <1>22 DEF ProcessExit, Proc, Exited, RuntimeFailure
  <1>23. CASE JobOutput(t)
    BY <1>23 DEF JobOutput, Emit, EventKind
  <1>24. CASE JobWaited(t) \/ JobUnwound(t)
    BY <1>24 DEF JobWaited, JobUnwound, JobPC, PastGate
  <1> QED
    BY <1>1, <1>2, <1>3, <1>4, <1>5, <1>6, <1>7, <1>8, <1>9, <1>10, <1>11, <1>12,
       <1>13, <1>14, <1>15, <1>16, <1>17, <1>18, <1>19, <1>20, <1>21, <1>22,
       <1>23, <1>24 DEF JobStep, RuntimeStep

\* What a handler may do with its own request record: go on, return, begin.
RequestsTyped(r) ==
    /\ r \in [Clients -> Request]
    /\ \A c \in Clients : r[c].pc \notin {"idle", "insert"} => r[c].task \in Tasks

LEMMA ContinueTyped ==
    ASSUME RequestsTyped(req), NEW c \in Clients, NEW pc \in ReqPC,
           ~Doing(c, "idle"), ~Doing(c, "insert"), Continue(c, pc)
    PROVE  RequestsTyped(req')
  <1>1. \A d \in Clients : req'[d] = IF d = c THEN [req[c] EXCEPT !.pc = pc] ELSE req[d]
    BY DEF Continue, RequestsTyped
  <1>2. req[c] \in Request /\ req[c].task \in Tasks
    BY DEF RequestsTyped, Doing
  <1>3. [req[c] EXCEPT !.pc = pc] \in Request /\ [req[c] EXCEPT !.pc = pc].task = req[c].task
    BY <1>2 DEF Request
  <1>4. DOMAIN req' = Clients /\ req' = [d \in Clients |-> req'[d]]
    BY DEF Continue, RequestsTyped
  <1> QED
    BY <1>1, <1>2, <1>3, <1>4 DEF RequestsTyped

LEMMA PutTyped ==
    ASSUME RequestsTyped(req), NEW c \in Clients, NEW r \in Request,
           r.pc \notin {"idle", "insert"} => r.task \in Tasks,
           req' = [req EXCEPT ![c] = r]
    PROVE  RequestsTyped(req')
  BY DEF RequestsTyped

LEMMA ReturnTyped ==
    ASSUME RequestsTyped(req), NEW c \in Clients, Return(c)
    PROVE  RequestsTyped(req')
  <1>1. Idle \in Request /\ Idle.pc = "idle"
    BY DEF Idle, Request, ReqPC
  <1> QED
    BY <1>1, PutTyped DEF Return

LEMMA BeginTyped ==
    ASSUME RequestsTyped(req), NEW c \in Clients, NEW t \in Tasks \cup {NoTask},
           NEW pc \in ReqPC, pc = "insert" \/ t \in Tasks, Begin(c, pc, t)
    PROVE  RequestsTyped(req')
  <1> DEFINE r == [Idle EXCEPT !.pc = pc, !.task = t]
  <1>1. r \in Request /\ r.pc = pc /\ r.task = t
    BY DEF Idle, Request
  <1> HIDE DEF r
  <1>2. req' = [req EXCEPT ![c] = r]
    BY DEF Begin, r
  <1> QED
    BY <1>1, <1>2, PutTyped

\* The steps of the handlers of the phone's requests keep the types too.
LEMMA TypeRequest ==
    ASSUME TypeInv, NEW c \in Clients,
           RequestStart(c) \/ RequestStep(c) \/ RuntimeAnswer(c)
    PROVE  TypeInv'
  <1>0. RequestsTyped(req) /\ (RequestsTyped(req') =>
           /\ req' \in [Clients -> Request]
           /\ \A d \in Clients : req'[d].pc \notin {"idle", "insert"} => req'[d].task \in Tasks)
    BY DEF TypeInv, TypeOK, RequestsTyped
  <1>r. req[c].task \in Tasks \cup {NoTask} /\ (\A pc : Doing(c, pc) /\ pc \notin {"idle", "insert"} => req[c].task \in Tasks)
    BY DEF TypeInv, TypeOK, Request, Doing
  <1> USE DEF TypeInv, TypeOK, dbVars, memVars
  <1>1. CASE CreateCheck(c)
    <2>1. RequestsTyped(req')
      BY <1>1, <1>0, BeginTyped DEF CreateCheck, ReqPC, CreatePC
    <2> QED BY <2>1, <1>0, <1>1 DEF CreateCheck
  <1>2. ASSUME NEW t \in Tasks, CancelCheck(c, t) PROVE TypeInv'
    <2>1. RequestsTyped(req')
      BY <1>2, <1>0, BeginTyped DEF CancelCheck, ReqPC, CancelPC
    <2> QED BY <2>1, <1>0, <1>2 DEF CancelCheck
  <1>3. ASSUME NEW t \in Tasks, ReplyStore(c, t) PROVE TypeInv'
    <2> DEFINE r == [Idle EXCEPT !.pc = "replyEvent", !.task = t, !.late = Prompted(t)]
    <2>1. r \in Request /\ r.task \in Tasks
      BY DEF Idle, Request, ReqPC, ReplyPC, Prompted
    <2>2. req' = [req EXCEPT ![c] = r]
      BY <1>3 DEF ReplyStore
    <2> HIDE DEF r
    <2>3. RequestsTyped(req')
      BY <2>1, <2>2, <1>0, PutTyped
    <2> QED BY <2>3, <1>0, <1>3 DEF ReplyStore
  <1>4. ASSUME NEW t \in Tasks, NEW ok \in BOOLEAN, Resolve(c, t, ok) PROVE TypeInv'
    <2> DEFINE r == [Idle EXCEPT !.pc = IF ok THEN "resolved" ELSE "failRejected",
                                 !.task = t, !.approved = ok]
    <2>1. r \in Request /\ r.task \in Tasks
      BY DEF Idle, Request, ReqPC, VerdictPC
    <2>2. req' = [req EXCEPT ![c] = r]
      BY <1>4 DEF Resolve, BeginVerdict
    <2> HIDE DEF r
    <2>3. RequestsTyped(req')
      BY <2>1, <2>2, <1>0, PutTyped
    <2>4. approval' \in [Tasks -> ApprovalStatus]
      BY <1>4 DEF Resolve, ApprovalStatus
    <2> QED BY <2>3, <2>4, <1>0, <1>4 DEF Resolve
  <1>5. CASE CreateInsert(c)
    <2>1. PICK t \in Tasks : /\ status' = [status EXCEPT ![t] = "queued"]
                             /\ req' = [req EXCEPT ![c] = [@ EXCEPT !.pc = "created", !.task = t]]
      BY <1>5 DEF CreateInsert
    <2> DEFINE r == [req[c] EXCEPT !.pc = "created", !.task = t]
    <2>r. req[c] \in Request
      BY DEF TypeOK
    <2>2. r \in Request /\ r.task \in Tasks
      BY <2>r DEF Request, ReqPC, CreatePC
    <2>3. req' = [req EXCEPT ![c] = r]
      BY <2>1
    <2> HIDE DEF r
    <2>4. RequestsTyped(req')
      BY <2>2, <2>3, <1>0, PutTyped
    <2> QED BY <2>1, <2>4, <1>0, <1>5 DEF CreateInsert, Status, Active
  <1>6. CASE Dispatch(c)
    <2>1. RequestsTyped(req')
      BY <1>6, <1>0, ReturnTyped DEF Dispatch
    <2>2. CASE states[req[c].task] /\ Alive(req[c].task)
      BY <2>1, <2>2, <1>0, <1>6 DEF Dispatch
    <2>3. CASE ~(states[req[c].task] /\ Alive(req[c].task))
      <3>1. PICK t \in Tasks : t = req[c].task
        BY <1>6, <1>r DEF Dispatch, Doing
      <3>2. /\ job' = [job EXCEPT ![t] = "starting"] /\ why' = [why EXCEPT ![t] = "none"]
            /\ states' = [states EXCEPT ![t] = TRUE] /\ armed' = [armed EXCEPT ![t] = FALSE]
            /\ granted' = [granted EXCEPT ![t] = "none"]
            /\ queued' = [queued EXCEPT ![t] = FALSE]
            /\ procRef' = [procRef EXCEPT ![t] = FALSE]
            /\ cancelReq' = [cancelReq EXCEPT ![t] = FALSE]
            /\ UNCHANGED <<status, phase, approval, events, lock, proc, crashes>>
        BY <1>6, <2>3, <3>1 DEF Dispatch, Goto
      <3>3. job' \in [Tasks -> JobPC]
        BY <3>2 DEF JobPC, BeforeAsk
      <3>4. \A u \in Tasks : job'[u] \in {"fail", "failed"} => why'[u] \in Failure
        BY <3>2
      <3> QED BY <2>1, <1>0, <3>2, <3>3, <3>4
    <2> QED BY <2>2, <2>3
  <1>7. CASE RequestEvent(c)
    <2>1. PICK e \in RequestEvents : Doing(c, e[1]) /\ Emit(req[c].task, e[2]) /\ Continue(c, e[3])
      BY <1>7 DEF RequestEvent
    <2>2. RequestsTyped(req')
      BY <2>1, <1>0, ContinueTyped, RequestEventsTable DEF Doing
    <2>3. events' \in [Tasks -> SUBSET EventKind]
      BY <2>1, RequestEventsTable DEF Emit
    <2> QED BY <2>2, <2>3, <1>0, <1>7 DEF RequestEvent
  <1>8. CASE ResolveFail(c)
    <2>1. RequestsTyped(req')
      BY <1>8, <1>0, ContinueTyped DEF ResolveFail, Doing, ReqPC, VerdictPC
    <2> QED BY <2>1, <1>0, <1>8 DEF ResolveFail, SetStatus, Status, Terminal, Failure
  <1>9. CASE NotifyEngine(c)
    <2>1. RequestsTyped(req')
      BY <1>9, <1>0, ContinueTyped, ReturnTyped DEF NotifyEngine, Doing, ReqPC, VerdictPC
    <2> QED BY <2>1, <1>0, <1>9 DEF NotifyEngine
  <1>10. CASE Signal(c)
    <2>1. RequestsTyped(req')
      BY <1>10, <1>0, ReturnTyped DEF Signal
    <2> QED BY <2>1, <1>0, <1>10 DEF Signal
  <1>11. CASE CancelWrite(c)
    <2>1. RequestsTyped(req')
      BY <1>11, <1>0, ContinueTyped DEF CancelWrite, Doing, ReqPC, CancelPC
    <2> QED BY <2>1, <1>0, <1>11 DEF CancelWrite, SetStatus, Status, Terminal
  <1>12. CASE CancelJob(c)
    <2>1. RequestsTyped(req')
      BY <1>12, <1>0, ContinueTyped, ReturnTyped DEF CancelJob, Doing, ReqPC, CancelPC
    <2> QED BY <2>1, <1>0, <1>12, <1>r DEF CancelJob, Alive, Proc, Exited, RuntimeFailure
  <1>13. CASE CancelKill(c)
    <2>1. RequestsTyped(req')
      BY <1>13, <1>0, ReturnTyped DEF CancelKill
    <2> QED BY <2>1, <1>0, <1>13, <1>r DEF CancelKill, Alive
  <1>14. CASE ReplyLock(c)
    <2>1. RequestsTyped(req')
      BY <1>14, <1>0, ContinueTyped, ReturnTyped DEF ReplyLock, Doing, ReqPC, ReplyPC
    <2>2. req[c].late \in BOOLEAN
      BY DEF Request
    <2> QED BY <2>1, <2>2, <1>0, <1>14, <1>r DEF ReplyLock
  <1>15. CASE ReplyLog(c)
    <2>1. RequestsTyped(req')
      BY <1>15, <1>0, ReturnTyped DEF ReplyLog
    <2> QED BY <2>1, <1>0, <1>15 DEF ReplyLog, Emit, EventKind
  <1>16. CASE ReplyWrite(c)
    <2>1. RequestsTyped(req')
      BY <1>16, <1>0, ReturnTyped DEF ReplyWrite
    <2> QED BY <2>1, <1>0, <1>16 DEF ReplyWrite, Emit, EventKind
  <1> QED
    BY <1>1, <1>2, <1>3, <1>4, <1>5, <1>6, <1>7, <1>8, <1>9, <1>10, <1>11, <1>12,
       <1>13, <1>14, <1>15, <1>16 DEF RequestStart, RequestStep, RuntimeAnswer

LEMMA TypeNext == TypeInv /\ [Next]_vars => TypeInv'
  <1> SUFFICES ASSUME TypeInv, [Next]_vars PROVE TypeInv'
    OBVIOUS
  <1>1. CASE Crash
    BY <1>1, ConstantsAssumption
    DEF Crash, TypeInv, TypeOK, dbVars, JobPC, Request, Idle, ReqPC
  <1>2. CASE UNCHANGED vars
    BY <1>2 DEF TypeInv, TypeOK, vars
  <1> QED
    BY <1>1, <1>2, TypeJob, TypeRequest DEF Next, Quiescent

\* Type correctness of every run of the backend.
THEOREM TypeCorrect == Spec => []TypeOK
  <1>1. TypeInv => TypeOK
    BY DEF TypeInv
  <1> QED
    BY <1>1, TypeInit, TypeNext, PTL DEF Spec

-----------------------------------------------------------------------------
(* The human gate *)

\* The handler that creates a task, once the task is there.
NewPC == {"created", "dispatch"}

\* Nothing has happened yet for a task that no job was started for; it is
\* known to one handler at most, the one that creates it.
Untouched(t) == job[t] = "none" /\ approval[t] = "none" /\ proc[t] = "none"

CreationInv ==
    /\ \A t \in Tasks : status[t] = "absent" =>
          Untouched(t) /\ \A c \in Clients : req[c].task # t
    /\ \A c \in Clients : req[c].pc \in NewPC => Untouched(req[c].task)
    /\ \A c, d \in Clients :
          req[c].pc \in NewPC /\ req[d].pc \in NewPC /\ req[c].task = req[d].task => c = d

\* Between the spawn of its process and the outcome.
Spawned == {"spawned", "feeding", "streaming", "draining"}

\* Where a job is tells what the approval and the process of its task are.
JobInv ==
    \A t \in Tasks :
        /\ job[t] \in {"none"} \cup BeforeAsk => approval[t] = "none"
        /\ job[t] \in {"none", "resume", "resumed", "launch"} \cup BeforeAsk \cup Parking
              => proc[t] = "none"
        /\ RequireInitialApproval /\ job[t] \in PastGate => approval[t] = "approved"
        /\ ~RequireInitialApproval => job[t] \notin {"ask"} \cup Parking
        /\ job[t] \in Spawned => proc[t] # "none"

\* A yes that is on its way, or has arrived, is the yes of the database.
YesInv ==
    /\ \A t \in Tasks : granted[t] = "yes" => approval[t] = "approved"
    /\ \A c \in Clients : req[c].pc \in VerdictPC /\ req[c].approved
          => approval[req[c].task] = "approved"
    /\ \A t \in Tasks : ~RequireInitialApproval => approval[t] = "none"

GateInv == CreationInv /\ JobInv /\ YesInv /\ HumanGate

PreLaunch == {"none", "resume", "resumed", "launch"} \cup BeforeAsk \cup Parking

\* An event of the job does not take it from one region of JobInv to another
\* against the gate.
LEMMA JobEventsGate ==
    ASSUME NEW e \in JobEvents
    PROVE  /\ e[3] \in {"none"} \cup BeforeAsk => e[1] \in BeforeAsk
           /\ e[3] \in PreLaunch => e[1] \in PreLaunch
           /\ RequireInitialApproval /\ e[3] \in PastGate => e[1] \in PastGate
           /\ ~RequireInitialApproval /\ e[3] \in {"ask"} \cup Parking
                 => e[1] \in {"ask"} \cup Parking
           /\ e[1] # "none" /\ e[3] # "none" /\ e[3] \notin Spawned
  BY ConstantsAssumption DEF JobEvents, BeforeAsk, Parking, PastGate, PreLaunch, Spawned

LEMMA RequestEventsGate ==
    ASSUME NEW e \in RequestEvents
    PROVE  /\ e[3] \in NewPC => e[1] \in NewPC
           /\ e[1] # "idle"
           /\ e[3] \in VerdictPC => e[1] \in VerdictPC
  BY DEF RequestEvents, NewPC, VerdictPC

\* A step that only moves the job of t, to a program counter that promises no
\* more about approval and process than the one it leaves.
LEMMA GateGoto ==
    ASSUME TypeInv, GateInv, NEW t \in Tasks, NEW pc \in JobPC \ {"none"},
           job[t] # "none", Goto(t, pc),
           pc \in BeforeAsk => job[t] \in BeforeAsk,
           pc \in PreLaunch => job[t] \in PreLaunch,
           pc \in Spawned => job[t] \in Spawned,
           RequireInitialApproval /\ pc \in PastGate => approval[t] = "approved",
           ~RequireInitialApproval => pc \notin {"ask"} \cup Parking
                                      \/ job[t] \in {"ask"} \cup Parking,
           UNCHANGED <<approval, proc, granted, req>>,
           \A u \in Tasks : status'[u] = "absent" => status[u] = "absent"
    PROVE  GateInv'
  BY DEF GateInv, CreationInv, JobInv, YesInv, HumanGate, Untouched, Goto, TypeInv, TypeOK,
         PreLaunch, BeforeAsk

LEMMA GateJob ==
    ASSUME TypeInv, GateInv, NEW t \in Tasks, JobStep(t) \/ RuntimeStep(t)
    PROVE  GateInv'
  <1> USE DEF At, dbVars, memVars
  <1>0. /\ job[t] \in JobPC /\ proc[t] \in Proc
        /\ \A p : \A u \in Tasks, s \in Status : SetStatus(t, s, p) /\ s # "absent"
              => (status'[u] = "absent" => status[u] = "absent")
    BY DEF TypeInv, TypeOK, SetStatus
  <1>1. CASE JobEvent(t)
    <2>1. PICK e \in JobEvents : At(t, e[1]) /\ Goto(t, e[3])
      BY <1>1 DEF JobEvent
    <2>2. RequireInitialApproval /\ e[3] \in PastGate => approval[t] = "approved"
      BY <2>1, JobEventsGate DEF GateInv, JobInv
    <2> QED
      BY <1>1, <2>1, <2>2, JobEventsGate, JobEventsTable, GateGoto DEF JobEvent
  <1>2. CASE JobStarting(t)
    BY <1>2, <1>0, GateGoto DEF JobStarting, BeforeAsk, Parking, PastGate, PreLaunch, Spawned, JobPC, Status, Active
  <1>3. CASE JobPrepare(t)
    BY <1>3, <1>0, GateGoto DEF JobPrepare, BeforeAsk, Parking, PastGate, PreLaunch, Spawned, JobPC, Status, Active
  <1>4. CASE JobPark(t)
    BY <1>4, <1>0, GateGoto DEF JobPark, BeforeAsk, Parking, PastGate, PreLaunch, Spawned, JobPC, Status, Active
  <1>5. CASE JobResume(t)
    <2>1. RequireInitialApproval => approval[t] = "approved"
      BY <1>5 DEF JobResume, GateInv, JobInv, PastGate
    <2> QED
      BY <1>5, <1>0, <2>1, GateGoto DEF JobResume, BeforeAsk, Parking, PastGate, PreLaunch, Spawned, JobPC, Status, Active
  <1>6. CASE JobComplete(t)
    BY <1>6, <1>0, GateGoto DEF JobComplete, BeforeAsk, Parking, PastGate, PreLaunch, Spawned, JobPC, Status, Terminal
  <1>7. CASE JobFail(t)
    BY <1>7, <1>0, GateGoto DEF JobFail, BeforeAsk, Parking, PastGate, PreLaunch, Spawned, JobPC, Status, Terminal
  <1>8. CASE JobRaise(t) \/ JobTimeout(t) \/ JobNoRuntime(t)
    BY <1>8, GateGoto DEF JobRaise, JobTimeout, JobNoRuntime, Fail, BeforeAsk, Parking, PastGate, PreLaunch, Spawned, JobPC
  <1>9. CASE JobFailed(t) \/ JobFinally(t) \/ JobCancelledAtExit(t)
    BY <1>9, GateGoto DEF JobFailed, JobFinally, JobCancelledAtExit, BeforeAsk, Parking, PastGate, PreLaunch, Spawned, JobPC
  <1>10. CASE JobCancelled(t)
    <2>1. RequireInitialApproval /\ job[t] \in {"streaming", "draining"} => approval[t] = "approved"
      BY DEF GateInv, JobInv, PastGate
    <2> QED
      BY <1>10, <2>1, GateGoto DEF JobCancelled, Alive, BeforeAsk, Parking, PastGate, PreLaunch, Spawned, JobPC
  <1>11. CASE JobWake(t)
    \* The yes the job has got is the yes of the database.
    <2>1. granted[t] = "yes" => approval[t] = "approved"
      BY DEF GateInv, YesInv
    <2> QED
      BY <1>11, <2>1, GateGoto DEF JobWake, BeforeAsk, Parking, PastGate, PreLaunch, Spawned, JobPC
  <1>12. CASE JobFeed(t) \/ JobAttach(t) \/ JobWaited(t) \/ JobUnwound(t)
    <2>1. RequireInitialApproval => approval[t] = "approved"
      BY <1>12 DEF JobFeed, JobAttach, JobWaited, JobUnwound, GateInv, JobInv, PastGate
    <2> QED
      BY <1>12, <2>1, GateGoto DEF JobFeed, JobAttach, JobWaited, JobUnwound, Fail, BeforeAsk, Parking, PastGate, PreLaunch, Spawned, JobPC
  <1>13. CASE JobExited(t)
    <2>1. RequireInitialApproval => approval[t] = "approved"
      BY <1>13 DEF JobExited, GateInv, JobInv, PastGate
    <2> QED
      BY <1>13, <2>1, GateGoto DEF JobExited, Fail, BeforeAsk, Parking, PastGate, PreLaunch, Spawned, JobPC
  <1>14. CASE JobAsk(t)
    \* The row is inserted for a task that had none.
    <2>1. approval[t] = "none" /\ proc[t] = "none" /\ RequireInitialApproval
      BY <1>14, ConstantsAssumption DEF JobAsk, GateInv, JobInv, BeforeAsk
    <2>2. \A c \in Clients : req[c].task = t => req[c].pc \notin NewPC
      BY <1>14 DEF JobAsk, GateInv, CreationInv, Untouched
    <2>3. status[t] # "absent"
      BY <1>14 DEF JobAsk, GateInv, CreationInv, Untouched
    <2>4. \A c \in Clients : req[c].pc \in VerdictPC /\ req[c].approved => req[c].task # t
      BY <2>1 DEF GateInv, YesInv
    <2> QED
      BY <1>14, <2>1, <2>2, <2>3, <2>4
      DEF JobAsk, Goto, TypeInv, TypeOK, GateInv, CreationInv, JobInv, YesInv, HumanGate,
          Untouched, BeforeAsk, Parking, PastGate, Spawned
  <1>15. CASE JobSpawn(t)
    <2>1. RequireInitialApproval => approval[t] = "approved"
      BY <1>15 DEF JobSpawn, GateInv, JobInv, PastGate
    <2> QED
      BY <1>15, <2>1
      DEF JobSpawn, Goto, TypeInv, TypeOK, GateInv, CreationInv, JobInv, YesInv, HumanGate,
          Untouched, BeforeAsk, Parking, PastGate, Spawned
  <1>16. CASE ProcessExit(t)
    <2>1. PICK o \in Exited : proc[t] = "running" /\ proc' = [proc EXCEPT ![t] = o]
      BY <1>16 DEF ProcessExit, Exited, RuntimeFailure
    <2>2. UNCHANGED <<status, approval, granted, job, req>>
      BY <1>16 DEF ProcessExit
    <2>3. \A u \in Tasks : (proc'[u] = "none") = (proc[u] = "none")
      BY <2>1 DEF Exited, RuntimeFailure, TypeInv, TypeOK
    <2>4. \A c \in Clients : req[c].pc \in NewPC => req[c].task \in Tasks
      BY DEF TypeInv, NewPC
    <2> QED
      BY <2>2, <2>3, <2>4 DEF GateInv, CreationInv, JobInv, YesInv, HumanGate, Untouched
  <1>17. CASE JobOutput(t)
    <2>1. UNCHANGED <<status, approval, granted, job, proc, req>>
      BY <1>17 DEF JobOutput
    <2>2. \A c \in Clients : req[c].pc \in NewPC => req[c].task \in Tasks
      BY DEF TypeInv, NewPC
    <2> QED
      BY <2>1, <2>2 DEF GateInv, CreationInv, JobInv, YesInv, HumanGate, Untouched
  <1>18. CASE RuntimeTimeout(t)
    \* The timeout is armed for a process that was spawned.
    <2>1. /\ proc' = [proc EXCEPT ![t] = "runtime_timeout"] /\ job[t] = "streaming"
          /\ job' = [job EXCEPT ![t] = "draining"]
          /\ UNCHANGED <<status, approval, granted, req>>
      BY <1>18 DEF RuntimeTimeout, Goto
    <2>2. proc[t] # "none" /\ (RequireInitialApproval => approval[t] = "approved")
      BY <2>1 DEF GateInv, JobInv, PastGate, Spawned
    <2>3. \A u \in Tasks : (proc'[u] = "none") = (proc[u] = "none")
      BY <2>1, <2>2 DEF TypeInv, TypeOK
    <2>4. CreationInv'
      BY <2>1, <2>3 DEF GateInv, CreationInv, Untouched, TypeInv, TypeOK, NewPC
    <2>5. JobInv'
      BY <2>1, <2>2, <2>3
      DEF GateInv, JobInv, TypeInv, TypeOK, BeforeAsk, Parking, PastGate, Spawned
    <2> QED
      BY <2>1, <2>3, <2>4, <2>5 DEF GateInv, YesInv, HumanGate
  <1> QED
    BY <1>1, <1>2, <1>3, <1>4, <1>5, <1>6, <1>7, <1>8, <1>9, <1>10, <1>11, <1>12,
       <1>13, <1>14, <1>15, <1>16, <1>17, <1>18 DEF JobStep, RuntimeStep

\* A handler that goes on or returns without touching job, approval, process
\* or wake-up: only where it is then matters.
LEMMA GateRequest ==
    ASSUME TypeInv, GateInv, NEW c \in Clients, NEW r \in Request,
           req' = [req EXCEPT ![c] = r],
           r.pc \in NewPC => req[c].pc \in NewPC /\ r.task = req[c].task,
           r.pc \in VerdictPC /\ r.approved => approval[r.task] = "approved",
           r.task \in Tasks => status[r.task] # "absent",
           UNCHANGED <<job, approval, proc, granted>>,
           \A u \in Tasks : status'[u] = "absent" => status[u] = "absent"
    PROVE  GateInv'
  <1>1. \A d \in Clients : req'[d] = IF d = c THEN r ELSE req[d]
    BY DEF TypeInv, TypeOK
  <1>2. CreationInv'
    BY <1>1 DEF GateInv, CreationInv, Untouched
  <1>3. YesInv'
    BY <1>1 DEF GateInv, YesInv
  <1> QED
    BY <1>2, <1>3 DEF GateInv, JobInv, HumanGate

\* The same for Continue and Return.
LEMMA GateContinue ==
    ASSUME TypeInv, GateInv, NEW c \in Clients, NEW pc \in ReqPC, Continue(c, pc),
           ~Doing(c, "idle"), ~Doing(c, "insert"),
           pc \in NewPC => req[c].pc \in NewPC,
           pc \in VerdictPC => req[c].pc \in VerdictPC,
           UNCHANGED <<job, approval, proc, granted>>,
           \A u \in Tasks : status'[u] = "absent" => status[u] = "absent"
    PROVE  GateInv'
  <1> DEFINE r == [req[c] EXCEPT !.pc = pc]
  <1>0. req[c] \in Request /\ req[c].task \in Tasks
    BY DEF TypeInv, TypeOK, Doing
  <1>1. r \in Request /\ r.pc = pc /\ r.task = req[c].task /\ r.approved = req[c].approved
    BY <1>0 DEF Request
  <1>2. req' = [req EXCEPT ![c] = r]
    BY DEF Continue
  <1>3. status[req[c].task] # "absent"
    BY <1>0 DEF GateInv, CreationInv
  <1>4. pc \in VerdictPC /\ req[c].approved => approval[req[c].task] = "approved"
    BY DEF GateInv, YesInv
  <1> HIDE DEF r
  <1> QED
    BY <1>0, <1>1, <1>2, <1>3, <1>4, GateRequest

LEMMA IdleRequest == Idle \in Request /\ Idle.pc = "idle" /\ Idle.task = NoTask
  BY DEF Idle, Request, ReqPC

LEMMA GateReturn ==
    ASSUME TypeInv, GateInv, NEW c \in Clients, Return(c),
           UNCHANGED <<job, approval, proc, granted>>,
           \A u \in Tasks : status'[u] = "absent" => status[u] = "absent"
    PROVE  GateInv'
  <1>1. Idle.pc \notin NewPC \cup VerdictPC /\ Idle.task \notin Tasks
    BY IdleRequest, ConstantsAssumption DEF NewPC, VerdictPC
  <1> QED
    BY <1>1, IdleRequest, GateRequest DEF Return

LEMMA GateRequests ==
    ASSUME TypeInv, GateInv, NEW c \in Clients,
           RequestStart(c) \/ RequestStep(c) \/ RuntimeAnswer(c)
    PROVE  GateInv'
  <1> USE DEF dbVars, memVars
  <1>1. CASE CreateCheck(c)
    <2> DEFINE r == [Idle EXCEPT !.pc = "insert", !.task = NoTask]
    <2>1. r \in Request /\ r.pc \notin NewPC \cup VerdictPC /\ r.task \notin Tasks
      BY ConstantsAssumption DEF Idle, Request, ReqPC, CreatePC, NewPC, VerdictPC
    <2>2. req' = [req EXCEPT ![c] = r]
      BY <1>1 DEF CreateCheck, Begin
    <2> HIDE DEF r
    <2> QED
      BY <1>1, <2>1, <2>2, GateRequest DEF CreateCheck
  <1>2. ASSUME NEW t \in Tasks, CancelCheck(c, t) PROVE GateInv'
    <2> DEFINE r == [Idle EXCEPT !.pc = "cancelWrite", !.task = t]
    <2>1. r \in Request /\ r.pc \notin NewPC \cup VerdictPC /\ r.task = t
      BY DEF Idle, Request, ReqPC, CancelPC, NewPC, VerdictPC
    <2>2. req' = [req EXCEPT ![c] = r] /\ status[t] # "absent"
      BY <1>2 DEF CancelCheck, Begin, Active
    <2> HIDE DEF r
    <2> QED
      BY <1>2, <2>1, <2>2, GateRequest DEF CancelCheck
  <1>3. ASSUME NEW t \in Tasks, ReplyStore(c, t) PROVE GateInv'
    <2> DEFINE r == [Idle EXCEPT !.pc = "replyEvent", !.task = t, !.late = Prompted(t)]
    <2>1. r \in Request /\ r.pc \notin NewPC \cup VerdictPC /\ r.task = t
      BY DEF Idle, Request, ReqPC, ReplyPC, NewPC, VerdictPC, Prompted
    <2>2. req' = [req EXCEPT ![c] = r] /\ status[t] # "absent"
      BY <1>3 DEF ReplyStore, Active
    <2> HIDE DEF r
    <2> QED
      BY <1>3, <2>1, <2>2, GateRequest DEF ReplyStore
  <1>4. ASSUME NEW t \in Tasks, NEW ok \in BOOLEAN, Resolve(c, t, ok) PROVE GateInv'
    \* Only a pending approval changes, so no yes is taken back.
    <2> DEFINE r == [Idle EXCEPT !.pc = IF ok THEN "resolved" ELSE "failRejected",
                                 !.task = t, !.approved = ok]
    <2>1. /\ r \in Request /\ r.pc \notin NewPC /\ r.task = t /\ r.approved = ok
      BY DEF Idle, Request, ReqPC, VerdictPC, NewPC
    <2>2. /\ req' = [req EXCEPT ![c] = r] /\ status[t] = "waiting_approval"
          /\ approval[t] = "pending"
          /\ approval' = [approval EXCEPT ![t] = IF ok THEN "approved" ELSE "rejected"]
          /\ UNCHANGED <<status, job, proc, granted>>
      BY <1>4 DEF Resolve, BeginVerdict
    <2> HIDE DEF r
    <2>3. \A u \in Tasks : /\ approval[u] = "approved" => approval'[u] = "approved"
                           /\ approval[u] = "none" => approval'[u] = "none"
      BY <2>2 DEF TypeInv, TypeOK
    <2>4. ~Untouched(t) /\ RequireInitialApproval
      BY <2>2, ConstantsAssumption DEF Untouched, GateInv, YesInv
    <2>5. \A d \in Clients : req'[d] = IF d = c THEN r ELSE req[d]
      BY <2>2 DEF TypeInv, TypeOK
    <2>6. CreationInv'
      BY <2>1, <2>2, <2>3, <2>5 DEF GateInv, CreationInv, Untouched, TypeInv, NewPC
    <2>7. JobInv'
      BY <2>2, <2>3 DEF GateInv, JobInv
    <2>8. ok => approval'[t] = "approved"
      BY <2>2 DEF TypeInv, TypeOK
    <2>9. YesInv'
      BY <2>1, <2>2, <2>3, <2>4, <2>5, <2>8 DEF GateInv, YesInv, TypeInv, VerdictPC
    <2> QED
      BY <2>2, <2>3, <2>6, <2>7, <2>9 DEF GateInv, HumanGate
  <1>5. CASE CreateInsert(c)
    \* The new task is known to nobody else and has no job yet.
    <2> DEFINE r(t) == [req[c] EXCEPT !.pc = "created", !.task = t]
    <2>1. PICK t \in Tasks : /\ status[t] = "absent" /\ status' = [status EXCEPT ![t] = "queued"]
                             /\ req' = [req EXCEPT ![c] = r(t)]
      BY <1>5 DEF CreateInsert
    <2>2. r(t).pc = "created" /\ r(t).task = t
      BY DEF TypeInv, TypeOK, Request
    <2>3. Untouched(t) /\ \A d \in Clients : req[d].task # t
      BY <2>1 DEF GateInv, CreationInv
    <2>4. \A d \in Clients : req'[d] = IF d = c THEN r(t) ELSE req[d]
      BY <2>1 DEF TypeInv, TypeOK
    <2>5. UNCHANGED <<job, approval, proc, granted>>
      BY <1>5 DEF CreateInsert
    <2> HIDE DEF r
    <2>6. CreationInv'
      BY <2>1, <2>2, <2>3, <2>4, <2>5 DEF GateInv, CreationInv, Untouched, TypeInv, TypeOK
    <2>7. YesInv'
      BY <2>2, <2>4, <2>5 DEF GateInv, YesInv, VerdictPC
    <2> QED
      BY <2>5, <2>6, <2>7 DEF GateInv, JobInv, HumanGate
  <1>6. CASE Dispatch(c)
    \* The job starts untouched, and its handler was the only one to start it.
    <2>1. PICK t \in Tasks : t = req[c].task
      BY <1>6 DEF Dispatch, Doing, TypeInv
    <2>2. Untouched(t) /\ ~Alive(t)
      BY <1>6, <2>1 DEF Dispatch, Doing, GateInv, CreationInv, NewPC, Untouched, Alive
    <2>3. /\ job' = [job EXCEPT ![t] = "starting"] /\ granted' = [granted EXCEPT ![t] = "none"]
          /\ req' = [req EXCEPT ![c] = Idle] /\ UNCHANGED <<status, approval, proc>>
      BY <1>6, <2>1, <2>2 DEF Dispatch, Goto, Return
    <2>4. \A d \in Clients : req'[d] = IF d = c THEN Idle ELSE req[d]
      BY <2>3 DEF TypeInv, TypeOK
    <2>5. \A d \in Clients : d # c /\ req[d].pc \in NewPC => req[d].task # t
      BY <1>6, <2>1 DEF Dispatch, Doing, GateInv, CreationInv, NewPC
    <2>6. status[t] # "absent"
      BY <2>1 DEF GateInv, CreationInv
    <2>7. CreationInv'
      BY <2>3, <2>4, <2>5, <2>6, IdleRequest, ConstantsAssumption
      DEF GateInv, CreationInv, Untouched, TypeInv, TypeOK, NewPC
    <2>8. JobInv'
      BY <2>2, <2>3 DEF GateInv, JobInv, Untouched, TypeInv, TypeOK, BeforeAsk, Parking, PastGate, Spawned
    <2>9. YesInv'
      BY <2>3, <2>4, IdleRequest DEF GateInv, YesInv, TypeInv, TypeOK, VerdictPC
    <2> QED
      BY <2>3, <2>7, <2>8, <2>9 DEF GateInv, HumanGate
  <1>7. CASE RequestEvent(c)
    <2>1. PICK e \in RequestEvents : Doing(c, e[1]) /\ Continue(c, e[3])
      BY <1>7 DEF RequestEvent
    <2> QED
      BY <1>7, <2>1, RequestEventsTable, RequestEventsGate, GateContinue DEF RequestEvent, Doing
  <1>8. CASE ResolveFail(c)
    BY <1>8, GateContinue
    DEF ResolveFail, SetStatus, Doing, NewPC, VerdictPC, ReqPC, TypeInv, TypeOK
  <1>9. CASE NotifyEngine(c)
    BY <1>9, GateContinue, GateReturn DEF NotifyEngine, Doing, NewPC, VerdictPC, ReqPC
  <1>10. CASE Signal(c)
    \* The job is told the verdict of the request, which is that of the row.
    <2>1. PICK t \in Tasks : t = req[c].task
      BY <1>10 DEF Signal, Doing, TypeInv
    <2>2. req[c].approved => approval[t] = "approved"
      BY <1>10, <2>1 DEF Signal, Doing, GateInv, YesInv, VerdictPC
    <2>3. /\ granted' = [granted EXCEPT ![t] = IF ~states[t] \/ ~armed[t] THEN granted[t]
                                               ELSE IF req[c].approved THEN "yes" ELSE "no"]
          /\ req' = [req EXCEPT ![c] = Idle] /\ UNCHANGED <<status, job, approval, proc>>
      BY <1>10, <2>1 DEF Signal, Return
    <2>4. \A u \in Tasks : granted'[u] = "yes" => approval[u] = "approved"
      BY <2>2, <2>3 DEF GateInv, YesInv, TypeInv, TypeOK
    <2>5. \A d \in Clients : req'[d] = IF d = c THEN Idle ELSE req[d]
      BY <2>3 DEF TypeInv, TypeOK
    <2>6. CreationInv'
      BY <2>3, <2>5, IdleRequest, ConstantsAssumption DEF GateInv, CreationInv, Untouched, NewPC
    <2>7. YesInv'
      BY <2>3, <2>4, <2>5, IdleRequest DEF GateInv, YesInv, VerdictPC
    <2> QED
      BY <2>3, <2>6, <2>7 DEF GateInv, JobInv, HumanGate
  <1>11. CASE CancelWrite(c)
    BY <1>11, GateContinue
    DEF CancelWrite, SetStatus, Doing, NewPC, VerdictPC, ReqPC, CancelPC, TypeInv, TypeOK
  <1>12. CASE CancelJob(c)
    <2>1. PICK t \in Tasks : t = req[c].task
      BY <1>12 DEF CancelJob, Doing, TypeInv
    <2>2. CASE states[t] /\ procRef[t] /\ proc[t] = "running"
      <3>1. PICK o \in {"ok", "runtime_exit_nonzero"} : proc' = [proc EXCEPT ![t] = o]
        BY <1>12, <2>1, <2>2 DEF CancelJob
      <3>2. Continue(c, "kill") /\ UNCHANGED <<status, approval, granted, job>>
        BY <1>12, <2>1, <2>2 DEF CancelJob
      <3>3. \A u \in Tasks : (proc'[u] = "none") = (proc[u] = "none")
        BY <2>2, <3>1 DEF TypeInv, TypeOK
      <3>4. \A d \in Clients : req'[d] = IF d = c THEN [req[c] EXCEPT !.pc = "kill"] ELSE req[d]
        BY <3>2 DEF Continue, TypeInv, TypeOK
      <3>5. [req[c] EXCEPT !.pc = "kill"].pc = "kill" /\ [req[c] EXCEPT !.pc = "kill"].task = t
        BY <2>1 DEF TypeInv, TypeOK, Request
      <3>6. status[t] # "absent" /\ (\A d \in Clients : req[d].pc \in NewPC => req[d].task \in Tasks)
        BY <2>1 DEF GateInv, CreationInv, TypeInv, NewPC
      <3>7. CreationInv'
        <4>1. \A u \in Tasks : Untouched(u) => Untouched(u)'
          BY <3>2, <3>3 DEF Untouched
        <4>2. \A d \in Clients : /\ req'[d].task = req[d].task
                                 /\ req'[d].pc \in NewPC => req[d].pc \in NewPC
          BY <2>1, <3>4, <3>5 DEF NewPC
        <4> HIDE DEF Untouched
        <4> QED
          BY <3>2, <3>6, <4>1, <4>2 DEF GateInv, CreationInv
      <3>8. YesInv'
        BY <3>2, <3>4, <3>5 DEF GateInv, YesInv, VerdictPC
      <3> QED
        BY <3>2, <3>3, <3>7, <3>8 DEF GateInv, JobInv, HumanGate
    <2>3. CASE ~(states[t] /\ procRef[t] /\ proc[t] = "running")
      BY <1>12, <2>1, <2>3, GateReturn DEF CancelJob
    <2> QED BY <2>2, <2>3
  <1>13. CASE CancelKill(c) \/ ReplyLog(c) \/ ReplyWrite(c)
    BY <1>13, GateReturn DEF CancelKill, ReplyLog, ReplyWrite
  <1>14. CASE ReplyLock(c)
    BY <1>14, GateContinue, GateReturn DEF ReplyLock, Doing, NewPC, VerdictPC, ReqPC, ReplyPC
  <1> QED
    BY <1>1, <1>2, <1>3, <1>4, <1>5, <1>6, <1>7, <1>8, <1>9, <1>10, <1>11, <1>12,
       <1>13, <1>14 DEF RequestStart, RequestStep, RuntimeAnswer

LEMMA GateInit == Init => GateInv
  BY ConstantsAssumption
  DEF Init, GateInv, CreationInv, JobInv, YesInv, HumanGate, Untouched, Idle, NewPC, VerdictPC,
      BeforeAsk, Parking, PastGate, Spawned

LEMMA GateNext == TypeInv /\ GateInv /\ [Next]_vars => GateInv'
  <1> SUFFICES ASSUME TypeInv, GateInv, [Next]_vars PROVE GateInv'
    OBVIOUS
  <1>1. CASE Crash
    \* Whatever was in memory is gone; approvals and processes are not.
    <2>1. /\ \A t \in Tasks : job'[t] = "none" => job[t] = "none"
          /\ \A t \in Tasks : job'[t] \in {"none", "done"} /\ granted'[t] = "none"
                              /\ (job[t] = "none" => job'[t] = "none")
          /\ \A c \in Clients : req'[c] = Idle
          /\ UNCHANGED <<status, approval, proc>>
      BY <1>1 DEF Crash, dbVars, TypeInv, TypeOK
    <2>2. CreationInv'
      BY <2>1, IdleRequest, ConstantsAssumption DEF GateInv, CreationInv, Untouched, NewPC
    <2>3. JobInv'
      BY <2>1 DEF GateInv, JobInv, BeforeAsk, Parking, PastGate, Spawned
    <2>4. YesInv'
      BY <2>1, IdleRequest DEF GateInv, YesInv, VerdictPC
    <2> QED
      BY <2>1, <2>2, <2>3, <2>4 DEF GateInv, HumanGate
  <1>2. CASE UNCHANGED vars
    BY <1>2 DEF vars, GateInv, CreationInv, JobInv, YesInv, HumanGate, Untouched
  <1> QED
    BY <1>1, <1>2, GateJob, GateRequests DEF Next, Quiescent

LEMMA InductiveInvariant == Spec => [](TypeInv /\ GateInv)
  BY TypeInit, TypeNext, GateInit, GateNext, PTL DEF Spec

\* No runtime process is ever spawned for a gated task that a human has not
\* approved.
THEOREM HumanGateHolds == Spec => []HumanGate
  <1>1. GateInv => HumanGate
    BY DEF GateInv
  <1> QED
    BY <1>1, InductiveInvariant, PTL

-----------------------------------------------------------------------------
(* The abstract gate *)

\* Only three kinds of steps concern approvals and processes: asking,
\* resolving, and what starts or ends a process.
LEMMA GateSteps ==
    ASSUME TypeInv, GateInv, [Next]_vars
    PROVE  \/ \E t \in Tasks : JobAsk(t)
           \/ \E t \in Tasks : JobSpawn(t)
           \/ \E c \in Clients, t \in Tasks, ok \in BOOLEAN : Resolve(c, t, ok)
           \/ /\ UNCHANGED approval
              /\ \A t \in Tasks : (proc'[t] = "none") = (proc[t] = "none")
  <1> USE DEF TypeInv, TypeOK, dbVars, memVars
  <1>1. ASSUME NEW t \in Tasks, JobStep(t) \/ RuntimeStep(t), ~JobAsk(t), ~JobSpawn(t)
        PROVE  UNCHANGED approval /\ \A u \in Tasks : (proc'[u] = "none") = (proc[u] = "none")
    <2>1. CASE ProcessExit(t)
      BY <2>1 DEF ProcessExit
    <2>2. CASE RuntimeTimeout(t)
      <3>1. proc[t] # "none"
        BY <2>2 DEF RuntimeTimeout, At, GateInv, JobInv, Spawned
      <3> QED BY <2>2, <3>1 DEF RuntimeTimeout
    <2> QED
      BY <1>1, <2>1, <2>2
      DEF JobStep, RuntimeStep, JobStarting, JobEvent, JobPrepare, JobRaise, JobPark, JobWake, JobTimeout,
          JobResume, JobNoRuntime, JobAttach, JobFeed, JobOutput, JobExited, JobComplete, JobFail,
          JobFailed, JobFinally, JobCancelled, JobCancelledAtExit, JobWaited, JobUnwound
  <1>2. ASSUME NEW c \in Clients, RequestStart(c) \/ RequestStep(c) \/ RuntimeAnswer(c),
               ~\E t \in Tasks, ok \in BOOLEAN : Resolve(c, t, ok)
        PROVE  UNCHANGED approval /\ \A u \in Tasks : (proc'[u] = "none") = (proc[u] = "none")
    <2>1. CASE CancelJob(c)
      BY <2>1 DEF CancelJob
    <2> QED
      BY <1>2, <2>1
      DEF RequestStart, RequestStep, RuntimeAnswer, CreateCheck, CancelCheck, ReplyStore, CreateInsert,
          Dispatch, RequestEvent, ResolveFail, NotifyEngine, Signal, CancelWrite, CancelKill,
          ReplyLock, ReplyLog, ReplyWrite
  <1>3. Crash \/ UNCHANGED vars => UNCHANGED <<approval, proc>>
    BY DEF Crash, vars
  <1> QED
    BY <1>1, <1>2, <1>3 DEF Next, Quiescent

\* The backend implements the gate it promises.
THEOREM GateImplemented == Spec => ImplementsGate
  <1> DEFINE launched == [t \in Tasks |-> proc[t] # "none"]
  <1>1. Init => Gate!Init
    <2> SUFFICES ASSUME Init PROVE Gate!Init
      OBVIOUS
    <2>1. \A t \in Tasks : ~(proc[t] # "none")
      BY DEF Init
    <2>2. launched = [t \in Tasks |-> FALSE]
      BY <2>1, Zenon
    <2> QED
      BY <2>2 DEF Init, Gate!Init
  <1>2. ASSUME TypeInv, GateInv, [Next]_vars PROVE [Gate!Next]_(Gate!gateVars)
    <2>1. ASSUME NEW t \in Tasks, JobAsk(t) PROVE Gate!Ask(t)
      BY <1>2, <2>1, ConstantsAssumption
      DEF JobAsk, At, Gate!Ask, GateInv, JobInv, BeforeAsk
    <2>2. ASSUME NEW t \in Tasks, JobSpawn(t) PROVE Gate!Launch(t)
      <3>1. proc[t] = "none" /\ (RequireInitialApproval => approval[t] = "approved")
        BY <1>2, <2>2 DEF JobSpawn, At, GateInv, JobInv, PastGate
      <3>2. launched' = [launched EXCEPT ![t] = TRUE]
        BY <1>2, <2>2 DEF JobSpawn, TypeInv, TypeOK
      <3> QED BY <2>2, <3>1, <3>2 DEF Gate!Launch, JobSpawn
    <2>3. ASSUME NEW c \in Clients, NEW t \in Tasks, NEW ok \in BOOLEAN, Resolve(c, t, ok)
          PROVE  Gate!Answer(t)
      <3>1. proc[t] = "none"
        BY <1>2, <2>3, ConstantsAssumption DEF Resolve, GateInv, HumanGate, YesInv
      <3> QED BY <2>3, <3>1 DEF Resolve, dbVars, Gate!Answer
    <2>4. CASE UNCHANGED approval /\ \A t \in Tasks : (proc'[t] = "none") = (proc[t] = "none")
      <3>1. launched' = launched
        BY <2>4
      <3> QED BY <2>4, <3>1 DEF Gate!gateVars
    <2> QED
      BY <1>2, <2>1, <2>2, <2>3, <2>4, GateSteps DEF Gate!Next
  <1> QED
    BY <1>1, <1>2, InductiveInvariant, PTL DEF Spec, ImplementsGate, Gate!Spec

-----------------------------------------------------------------------------
(* What the log says happened, happened *)

\* CompletionTruthful with what the job knows on the way to it: the exit code
\* before task.completed is appended, the event before the transition; and no
\* such event before the outcome is known.
CompletionInv ==
    /\ CompletionTruthful
    /\ \A t \in Tasks : /\ job[t] = "complete" => proc[t] = "ok"
                        /\ job[t] = "completed" => "task.completed" \in events[t]
                        /\ job[t] \in Spawned => "task.completed" \notin events[t]

\* A job logs task.completed, or goes where that event must have been logged,
\* only from where the process is known to have ended well.
LEMMA JobEventsCompletion ==
    ASSUME NEW e \in JobEvents
    PROVE  /\ e[2] = "task.completed" => e[1] = "complete"
           /\ e[3] # "complete"
           /\ e[3] = "completed" => e[2] = "task.completed"
           /\ e[3] \notin Spawned
  BY DEF JobEvents, Spawned

\* No handler logs task.completed.
LEMMA RequestEventsCompletion ==
    ASSUME NEW e \in RequestEvents
    PROVE  e[2] # "task.completed"
  BY DEF RequestEvents

\* A step that appends no task.completed, moves no job to the places
\* CompletionInv speaks of, completes no task and takes no good exit back.
LEMMA CompletionFrame ==
    ASSUME CompletionInv,
           \A u \in Tasks : /\ "task.completed" \in events'[u] <=> "task.completed" \in events[u]
                            /\ job'[u] \in {"complete", "completed"} => job'[u] = job[u]
                            /\ job'[u] \in Spawned => job[u] \in Spawned
                            /\ status'[u] = "completed" => status[u] = "completed"
                            /\ proc[u] = "ok" => proc'[u] = "ok"
    PROVE  CompletionInv'
  BY DEF CompletionInv, CompletionTruthful

LEMMA CompletionJob ==
    ASSUME TypeInv, GateInv, CompletionInv, NEW t \in Tasks, JobStep(t) \/ RuntimeStep(t)
    PROVE  CompletionInv'
  <1> USE DEF At, Goto, dbVars, memVars, TypeInv, TypeOK, Spawned
  <1>1. CASE JobEvent(t)
    <2>1. PICK e \in JobEvents : At(t, e[1]) /\ Emit(t, e[2]) /\ Goto(t, e[3])
      BY <1>1 DEF JobEvent
    <2>2. e[2] = "task.completed" => proc[t] = "ok"
      BY <2>1, JobEventsCompletion DEF CompletionInv
    <2> QED
      BY <1>1, <2>1, <2>2, JobEventsCompletion
      DEF JobEvent, Emit, CompletionInv, CompletionTruthful
  <1>2. CASE JobExited(t)
    \* The exit code is looked at before "complete".
    BY <1>2 DEF JobExited, Fail, CompletionInv, CompletionTruthful
  <1>3. CASE JobComplete(t)
    BY <1>3 DEF JobComplete, SetStatus, CompletionInv, CompletionTruthful
  <1>4. CASE JobSpawn(t)
    \* Nothing has been completed for a task without a process.
    <2>1. proc[t] = "none" /\ "task.completed" \notin events[t]
      BY <1>4 DEF JobSpawn, GateInv, JobInv, CompletionInv, CompletionTruthful
    <2> QED
      BY <1>4, <2>1 DEF JobSpawn, Emit, CompletionInv, CompletionTruthful
  <1>5. CASE ProcessExit(t)
    BY <1>5, CompletionFrame DEF ProcessExit
  <1>10. CASE RuntimeTimeout(t)
    \* A good exit may be overtaken by the timeout, but nothing was completed.
    <2>1. "task.completed" \notin events[t]
      BY <1>10 DEF RuntimeTimeout, CompletionInv
    <2> QED
      BY <1>10, <2>1 DEF RuntimeTimeout, CompletionInv, CompletionTruthful
  <1>6. CASE JobFailed(t)
    <2>1. why[t] # "task.completed"
      BY <1>6 DEF JobFailed, Failure, RuntimeFailure
    <2> QED
      BY <1>6, <2>1, CompletionFrame DEF JobFailed, Emit
  <1>7. CASE JobNoRuntime(t) \/ JobOutput(t)
    BY <1>7, CompletionFrame DEF JobNoRuntime, JobOutput, Emit, Fail
  <1>8. CASE \/ JobStarting(t) \/ JobPrepare(t) \/ JobPark(t) \/ JobResume(t) \/ JobFail(t)
    BY <1>8, CompletionFrame
    DEF JobStarting, JobPrepare, JobPark, JobResume, JobFail, SetStatus
  <1>9. CASE \/ JobRaise(t) \/ JobAsk(t) \/ JobWake(t) \/ JobTimeout(t) \/ JobAttach(t)
             \/ JobFeed(t) \/ JobFinally(t) \/ JobCancelled(t) \/ JobCancelledAtExit(t)
             \/ JobWaited(t) \/ JobUnwound(t)
    BY <1>9, CompletionFrame
    DEF JobRaise, JobAsk, JobWake, JobTimeout, JobAttach, JobFeed, JobFinally, JobCancelled,
        JobCancelledAtExit, JobWaited, JobUnwound, Fail
  <1> QED
    BY <1>1, <1>2, <1>3, <1>4, <1>5, <1>6, <1>7, <1>8, <1>9, <1>10 DEF JobStep, RuntimeStep

LEMMA CompletionRequest ==
    ASSUME TypeInv, CompletionInv, NEW c \in Clients,
           RequestStart(c) \/ RequestStep(c) \/ RuntimeAnswer(c)
    PROVE  CompletionInv'
  <1> USE DEF dbVars, memVars, TypeInv, TypeOK
  <1>1. CASE RequestEvent(c)
    BY <1>1, RequestEventsCompletion, CompletionFrame DEF RequestEvent, Emit
  <1>2. CASE ReplyLog(c) \/ ReplyWrite(c)
    BY <1>2, CompletionFrame DEF ReplyLog, ReplyWrite, Emit
  <1>3. CASE CreateInsert(c) \/ ResolveFail(c) \/ CancelWrite(c)
    BY <1>3, CompletionFrame DEF CreateInsert, ResolveFail, CancelWrite, SetStatus
  <1>4. CASE Dispatch(c)
    BY <1>4, CompletionFrame DEF Dispatch, Goto, Spawned
  <1>5. CASE CancelJob(c)
    BY <1>5, CompletionFrame DEF CancelJob
  <1>6. CASE \/ CreateCheck(c) \/ NotifyEngine(c) \/ Signal(c) \/ CancelKill(c) \/ ReplyLock(c)
             \/ \E t \in Tasks : \/ CancelCheck(c, t) \/ ReplyStore(c, t)
                                 \/ \E ok \in BOOLEAN : Resolve(c, t, ok)
    BY <1>6, CompletionFrame
    DEF CreateCheck, NotifyEngine, Signal, CancelKill, ReplyLock, CancelCheck, ReplyStore, Resolve
  <1> QED
    BY <1>1, <1>2, <1>3, <1>4, <1>5, <1>6 DEF RequestStart, RequestStep, RuntimeAnswer

LEMMA CompletionNext ==
    TypeInv /\ GateInv /\ CompletionInv /\ [Next]_vars => CompletionInv'
  <1> SUFFICES ASSUME TypeInv, GateInv, CompletionInv, [Next]_vars PROVE CompletionInv'
    OBVIOUS
  <1>1. CASE Crash
    BY <1>1, CompletionFrame DEF Crash, dbVars, Spawned, TypeInv, TypeOK
  <1>2. CASE UNCHANGED vars
    BY <1>2, CompletionFrame DEF vars
  <1> QED
    BY <1>1, <1>2, CompletionJob, CompletionRequest DEF Next, Quiescent

\* task.completed is only in the log of a task whose process exited well, and
\* a COMPLETED task has it, whatever cancellation and crash come in between.
THEOREM CompletionIsTruthful == Spec => []CompletionTruthful
  <1>1. Init => CompletionInv
    BY DEF Init, CompletionInv, CompletionTruthful
  <1>2. CompletionInv => CompletionTruthful
    BY DEF CompletionInv
  <1> QED
    BY <1>1, <1>2, CompletionNext, InductiveInvariant, PTL DEF Spec

-----------------------------------------------------------------------------
(* The wait for the human: the job can be reached, its wake-up is not lost *)

\* Before the job parks, nobody sees its task WAITING_APPROVAL; when it waits,
\* its state holds the approval id, and the status can only have been moved on
\* by a cancel or by a rejection.
BeforePark == {"none", "asked", "park"} \cup BeforeAsk
ParkInv ==
    \A t \in Tasks :
        /\ job[t] \in BeforePark => status[t] # "waiting_approval"
        /\ job[t] \in {"asked", "park"} => approval[t] = "pending"
        /\ job[t] \in {"parked", "waiting"} =>
              /\ armed[t]
              /\ status[t] \in {"waiting_approval", "cancelled"} \/ approval[t] = "rejected"

\* A no that is on its way is the no of the database (YesInv is its twin), and
\* only a handler that rejects comes to fail the task.
NoInv ==
    \A c \in Clients : req[c].pc \in VerdictPC =>
        /\ ~req[c].approved => approval[req[c].task] = "rejected"
        /\ req[c].pc = "failRejected" => ~req[c].approved

WaitInv == ParkInv /\ NoInv /\ JobIsReachable /\ WakeupNotLost

LEMMA JobEventsWait ==
    ASSUME NEW e \in JobEvents
    PROVE  /\ e[3] \in {"asked", "park"} => e[1] \in {"asked", "park"}
           /\ e[3] \in BeforePark => e[1] \in BeforePark
           /\ e[3] \in {"parked", "waiting"} => e[1] \in {"parked", "waiting"}
  BY ConstantsAssumption DEF JobEvents, BeforePark, BeforeAsk

\* A step that moves the job of t within, or out of, the places ParkInv speaks
\* of, and sets a status no phone can answer.
LEMMA WaitGoto ==
    ASSUME TypeInv, WaitInv, NEW t \in Tasks, NEW pc \in JobPC \ {"none"}, Alive(t), Goto(t, pc),
           pc \in {"asked", "park"} => job[t] \in {"asked", "park"},
           pc \in BeforePark => job[t] \in BeforePark \/ status'[t] # "waiting_approval",
           pc \in {"parked", "waiting"} => job[t] \in {"parked", "waiting"} /\ status'[t] = status[t],
           UNCHANGED <<approval, states, armed, granted, req>>,
           \A u \in Tasks : status'[u] = status[u] \/ (u = t /\ status'[t] # "waiting_approval")
    PROVE  WaitInv'
  <1> USE DEF Goto, TypeInv, TypeOK
  <1>1. ParkInv'
    BY DEF WaitInv, ParkInv
  <1>2. NoInv'
    BY DEF WaitInv, NoInv
  <1>3. JobIsReachable'
    BY DEF WaitInv, JobIsReachable, Alive
  <1>4. WakeupNotLost'
    BY DEF WaitInv, WakeupNotLost
  <1> QED
    BY <1>1, <1>2, <1>3, <1>4 DEF WaitInv

LEMMA WaitJob ==
    ASSUME TypeInv, GateInv, WaitInv, NEW t \in Tasks, JobStep(t) \/ RuntimeStep(t)
    PROVE  WaitInv'
  <1> USE DEF At, dbVars, memVars, JobPC, BeforePark, BeforeAsk, Parking, PastGate
  <1>1. CASE JobEvent(t)
    <2>1. PICK e \in JobEvents : At(t, e[1]) /\ Goto(t, e[3])
      BY <1>1 DEF JobEvent
    <2> QED
      BY <1>1, <2>1, JobEventsWait, JobEventsTable, WaitGoto DEF JobEvent, Alive
  <1>2. CASE JobStarting(t) \/ JobPrepare(t) \/ JobResume(t) \/ JobComplete(t) \/ JobFail(t)
    BY <1>2, WaitGoto
    DEF JobStarting, JobPrepare, JobResume, JobComplete, JobFail, SetStatus, Alive, TypeInv, TypeOK
  <1>3. CASE \/ JobRaise(t) \/ JobWake(t) \/ JobTimeout(t) \/ JobNoRuntime(t) \/ JobAttach(t)
             \/ JobFeed(t) \/ JobExited(t) \/ JobFailed(t) \/ JobSpawn(t)
             \/ JobWaited(t) \/ JobUnwound(t) \/ RuntimeTimeout(t)
    BY <1>3, WaitGoto
    DEF JobRaise, JobWake, JobTimeout, JobNoRuntime, JobAttach, JobFeed, JobExited, JobFailed,
        JobSpawn, JobWaited, JobUnwound, RuntimeTimeout, Fail, Alive
  <1>4. CASE JobCancelled(t) \/ JobCancelledAtExit(t)
    BY <1>4, WaitGoto DEF JobCancelled, JobCancelledAtExit, Alive
  <1>5. CASE JobAsk(t)
    \* No verdict can be under way for a task that had no approval.
    <2>1. approval[t] = "none"
      BY <1>5 DEF JobAsk, GateInv, JobInv
    <2>2. \A c \in Clients : req[c].pc \in VerdictPC => req[c].task # t
      BY <2>1 DEF GateInv, YesInv, WaitInv, NoInv
    <2>3. /\ approval' = [approval EXCEPT ![t] = "pending"] /\ job' = [job EXCEPT ![t] = "asked"]
          /\ job[t] = "ask" /\ UNCHANGED <<status, states, armed, granted, req>>
      BY <1>5 DEF JobAsk, Goto
    <2> USE DEF TypeInv, TypeOK
    <2>4. ParkInv'
      BY <2>3 DEF WaitInv, ParkInv
    <2>5. NoInv'
      BY <2>2, <2>3 DEF WaitInv, NoInv, VerdictPC
    <2>6. JobIsReachable'
      BY <2>3 DEF WaitInv, JobIsReachable, Alive
    <2>7. WakeupNotLost'
      BY <2>3 DEF WaitInv, WakeupNotLost
    <2> QED
      BY <2>4, <2>5, <2>6, <2>7 DEF WaitInv
  <1>6. CASE JobPark(t)
    \* The approval id is in the state before anybody can see the status, and
    \* the approval is not answered yet.
    <2>1. /\ job[t] = "park" /\ job' = [job EXCEPT ![t] = "parked"]
          /\ armed' = [armed EXCEPT ![t] = TRUE]
          /\ status' = [status EXCEPT ![t] = "waiting_approval"]
          /\ UNCHANGED <<approval, states, granted, req>>
      BY <1>6 DEF JobPark, Goto, SetStatus
    <2>2. approval[t] = "pending"
      BY <2>1 DEF WaitInv, ParkInv
    <2> USE DEF TypeInv, TypeOK
    <2>3. ParkInv'
      BY <2>1 DEF WaitInv, ParkInv
    <2>4. NoInv'
      BY <2>1 DEF WaitInv, NoInv
    <2>5. JobIsReachable'
      BY <2>1 DEF WaitInv, JobIsReachable, Alive
    <2>6. WakeupNotLost'
      BY <2>1, <2>2 DEF WaitInv, WakeupNotLost
    <2> QED
      BY <2>3, <2>4, <2>5, <2>6 DEF WaitInv
  <1>7. CASE JobFinally(t)
    <2>1. /\ job' = [job EXCEPT ![t] = "done"] /\ states' = [states EXCEPT ![t] = FALSE]
          /\ UNCHANGED <<status, approval, armed, granted, req>>
      BY <1>7 DEF JobFinally, Goto
    <2> QED
      BY <2>1
      DEF TypeInv, TypeOK, WaitInv, ParkInv, NoInv, JobIsReachable, WakeupNotLost, Alive
  <1>8. CASE ProcessExit(t) \/ JobOutput(t)
    BY <1>8
    DEF ProcessExit, JobOutput, WaitInv, ParkInv, NoInv, JobIsReachable,
        WakeupNotLost, Alive
  <1> QED
    BY <1>1, <1>2, <1>3, <1>4, <1>5, <1>6, <1>7, <1>8 DEF JobStep, RuntimeStep

\* A handler that goes on or returns, and at most cancels tasks: if it drops a
\* verdict, nobody waits for it.
LEMMA WaitRequest ==
    ASSUME TypeInv, WaitInv, NEW c \in Clients, NEW r \in Request,
           req' = [req EXCEPT ![c] = r],
           r.pc \in VerdictPC => /\ req[c].pc \in VerdictPC /\ r.task = req[c].task
                                 /\ r.approved = req[c].approved /\ r.pc # "failRejected",
           req[c].pc \in VerdictPC /\ r.pc \notin VerdictPC
              => status[req[c].task] # "waiting_approval",
           UNCHANGED <<job, approval, states, armed, granted>>,
           \A u \in Tasks : status'[u] \in {status[u], "cancelled"}
    PROVE  WaitInv'
  <1>1. \A d \in Clients : req'[d] = IF d = c THEN r ELSE req[d]
    BY DEF TypeInv, TypeOK
  <1>2. ParkInv'
    BY DEF WaitInv, ParkInv
  <1>3. NoInv'
    BY <1>1 DEF WaitInv, NoInv
  <1>4. JobIsReachable'
    BY DEF WaitInv, JobIsReachable, Alive
  <1>5. WakeupNotLost'
    <2> SUFFICES ASSUME NEW t \in Tasks, approval[t] = "approved", job[t] \in {"parked", "waiting"},
                        status'[t] # "cancelled",
                        \A d \in Clients : ~(req'[d].task = t /\ req'[d].pc \in VerdictPC)
                 PROVE  granted[t] = "yes"
      BY DEF WakeupNotLost
    <2>1. status[t] = "waiting_approval"
      BY DEF WaitInv, ParkInv
    <2>2. \A d \in Clients : ~(req[d].task = t /\ req[d].pc \in VerdictPC)
      BY <1>1, <2>1
    <2> QED
      BY <2>1, <2>2 DEF WaitInv, WakeupNotLost
  <1> QED
    BY <1>2, <1>3, <1>4, <1>5 DEF WaitInv

\* The same for the steps that leave their place to a later one.
LEMMA WaitContinue ==
    ASSUME TypeInv, WaitInv, NEW c \in Clients, NEW pc \in ReqPC, Continue(c, pc),
           pc \in VerdictPC <=> req[c].pc \in VerdictPC, pc # "failRejected",
           UNCHANGED <<job, approval, states, armed, granted>>,
           \A u \in Tasks : status'[u] \in {status[u], "cancelled"}
    PROVE  WaitInv'
  <1> DEFINE r == [req[c] EXCEPT !.pc = pc]
  <1>0. req[c] \in Request
    BY DEF TypeInv, TypeOK
  <1>1. /\ r \in Request /\ r.pc = pc /\ r.task = req[c].task /\ r.approved = req[c].approved
    BY <1>0 DEF Request
  <1>2. req' = [req EXCEPT ![c] = r]
    BY DEF Continue
  <1> HIDE DEF r
  <1> QED
    BY <1>1, <1>2, WaitRequest

LEMMA WaitReturn ==
    ASSUME TypeInv, WaitInv, NEW c \in Clients, Return(c),
           req[c].pc \in VerdictPC => status[req[c].task] # "waiting_approval",
           UNCHANGED <<job, approval, states, armed, granted>>,
           \A u \in Tasks : status'[u] \in {status[u], "cancelled"}
    PROVE  WaitInv'
  <1>1. Idle.pc \notin VerdictPC
    BY IdleRequest DEF VerdictPC
  <1> QED
    BY <1>1, IdleRequest, WaitRequest DEF Return

LEMMA WaitRequests ==
    ASSUME TypeInv, GateInv, WaitInv, NEW c \in Clients,
           RequestStart(c) \/ RequestStep(c) \/ RuntimeAnswer(c)
    PROVE  WaitInv'
  <1> USE DEF dbVars, memVars
  <1>1. ASSUME NEW t \in Tasks, NEW ok \in BOOLEAN, Resolve(c, t, ok) PROVE WaitInv'
    \* The verdict is on its way from now on.
    <2> DEFINE r == [Idle EXCEPT !.pc = IF ok THEN "resolved" ELSE "failRejected",
                                 !.task = t, !.approved = ok]
    <2>1. /\ r \in Request /\ r.pc \in VerdictPC /\ r.task = t /\ r.approved = ok
          /\ r.pc = "failRejected" => ~ok
      BY DEF Idle, Request, ReqPC, VerdictPC
    <2>2. /\ req' = [req EXCEPT ![c] = r] /\ req[c].pc \notin VerdictPC
          /\ approval[t] = "pending" /\ status[t] = "waiting_approval"
          /\ approval' = [approval EXCEPT ![t] = IF ok THEN "approved" ELSE "rejected"]
          /\ UNCHANGED <<status, job, states, armed, granted>>
      BY <1>1 DEF Resolve, BeginVerdict, Doing, VerdictPC
    <2> HIDE DEF r
    <2>3. \A d \in Clients : req'[d] = IF d = c THEN r ELSE req[d]
      BY <2>2 DEF TypeInv, TypeOK
    <2>4. \A u \in Tasks : approval'[u] = IF u = t THEN (IF ok THEN "approved" ELSE "rejected")
                                                   ELSE approval[u]
      BY <2>2 DEF TypeInv, TypeOK
    <2>5. ParkInv'
      BY <2>2, <2>4 DEF WaitInv, ParkInv, BeforePark
    <2>6. NoInv'
      BY <2>1, <2>2, <2>3, <2>4 DEF WaitInv, NoInv, TypeInv, VerdictPC
    <2>7. JobIsReachable'
      BY <2>2 DEF WaitInv, JobIsReachable, Alive
    <2>8. WakeupNotLost'
      BY <2>1, <2>2, <2>3, <2>4 DEF WaitInv, WakeupNotLost
    <2> QED
      BY <2>5, <2>6, <2>7, <2>8 DEF WaitInv
  <1>2. CASE ResolveFail(c)
    \* Only a rejected task is failed.
    <2> DEFINE t == req[c].task
               r == [req[c] EXCEPT !.pc = "rejectedEvent"]
    <2>1. /\ req[c].pc = "failRejected" /\ req[c] \in Request /\ t \in Tasks
          /\ req' = [req EXCEPT ![c] = r] /\ status' = [status EXCEPT ![t] = "failed"]
          /\ UNCHANGED <<approval, job, states, armed, granted>>
      BY <1>2 DEF ResolveFail, Doing, Continue, SetStatus, TypeInv, TypeOK
    <2>2. r.pc = "rejectedEvent" /\ r.task = t /\ r.approved = req[c].approved
      BY <2>1 DEF Request
    <2>3. approval[t] = "rejected"
      BY <2>1 DEF WaitInv, NoInv, VerdictPC
    <2>4. \A d \in Clients : req'[d] = IF d = c THEN r ELSE req[d]
      BY <2>1 DEF TypeInv, TypeOK
    <2>5. \A u \in Tasks : status'[u] = IF u = t THEN "failed" ELSE status[u]
      BY <2>1 DEF TypeInv, TypeOK
    <2> HIDE DEF r
    <2>6. ParkInv'
      BY <2>1, <2>3, <2>5 DEF WaitInv, ParkInv
    <2>7. NoInv'
      BY <2>1, <2>2, <2>4 DEF WaitInv, NoInv, VerdictPC
    <2>8. JobIsReachable'
      BY <2>1, <2>5 DEF WaitInv, JobIsReachable, Alive
    <2>9. WakeupNotLost'
      BY <2>1, <2>2, <2>3, <2>4, <2>5 DEF WaitInv, WakeupNotLost, VerdictPC
    <2> QED
      BY <2>6, <2>7, <2>8, <2>9 DEF WaitInv
  <1>3. CASE Signal(c)
    \* The job is there and waits for this approval, so it gets the verdict.
    <2> DEFINE t == req[c].task
    <2>1. /\ req[c].pc = "signal" /\ t \in Tasks
          /\ granted' = [granted EXCEPT ![t] = IF ~states[t] \/ ~armed[t] THEN granted[t]
                                               ELSE IF req[c].approved THEN "yes" ELSE "no"]
          /\ req' = [req EXCEPT ![c] = Idle]
          /\ UNCHANGED <<status, approval, job, states, armed>>
      BY <1>3 DEF Signal, Doing, Return, TypeInv
    <2>2. ~req[c].approved => approval[t] = "rejected"
      BY <2>1 DEF WaitInv, NoInv, VerdictPC
    <2>3. \A d \in Clients : req'[d] = IF d = c THEN Idle ELSE req[d]
      BY <2>1 DEF TypeInv, TypeOK
    <2>4. \A u \in Tasks : u # t => granted'[u] = granted[u]
      BY <2>1 DEF TypeInv, TypeOK
    <2>5. job[t] \in {"parked", "waiting"} /\ approval[t] = "approved" => granted'[t] = "yes"
      BY <2>1, <2>2 DEF WaitInv, ParkInv, JobIsReachable, Alive, TypeInv, TypeOK
    <2> HIDE DEF t
    <2>6. ParkInv' /\ JobIsReachable'
      BY <2>1 DEF WaitInv, ParkInv, JobIsReachable, Alive
    <2>7. NoInv'
      BY <2>1, <2>3, IdleRequest DEF WaitInv, NoInv, VerdictPC
    <2>8. WakeupNotLost'
      <3> SUFFICES ASSUME NEW u \in Tasks, approval[u] = "approved", job[u] \in {"parked", "waiting"},
                          status[u] # "cancelled", u # t,
                          \A d \in Clients : ~(req'[d].task = u /\ req'[d].pc \in VerdictPC)
                   PROVE  granted[u] = "yes"
        BY <2>1, <2>4, <2>5 DEF WakeupNotLost
      <3>1. \A d \in Clients : ~(req[d].task = u /\ req[d].pc \in VerdictPC)
        BY <2>3 DEF t
      <3> QED
        BY <3>1 DEF WaitInv, WakeupNotLost
    <2> QED
      BY <2>6, <2>7, <2>8 DEF WaitInv
  <1>4. CASE Dispatch(c)
    <2>1. PICK t \in Tasks : t = req[c].task
      BY <1>4 DEF Dispatch, Doing, TypeInv
    <2>2. job[t] = "none" /\ ~Alive(t)
      BY <1>4, <2>1 DEF Dispatch, Doing, GateInv, CreationInv, NewPC, Untouched, Alive
    <2>3. /\ job' = [job EXCEPT ![t] = "starting"] /\ granted' = [granted EXCEPT ![t] = "none"]
          /\ states' = [states EXCEPT ![t] = TRUE] /\ armed' = [armed EXCEPT ![t] = FALSE]
          /\ req' = [req EXCEPT ![c] = Idle] /\ UNCHANGED <<status, approval>>
      BY <1>4, <2>1, <2>2 DEF Dispatch, Goto, Return
    <2>4. \A d \in Clients : req'[d] = IF d = c THEN Idle ELSE req[d]
      BY <2>3 DEF TypeInv, TypeOK
    <2>5. req[c].pc \notin VerdictPC
      BY <1>4 DEF Dispatch, Doing, VerdictPC
    <2>6. ParkInv'
      BY <2>2, <2>3 DEF WaitInv, ParkInv, BeforePark, TypeInv, TypeOK
    <2>7. NoInv'
      BY <2>3, <2>4, IdleRequest DEF WaitInv, NoInv, VerdictPC
    <2>8. JobIsReachable'
      BY <2>2, <2>3 DEF WaitInv, ParkInv, BeforePark, JobIsReachable, Alive, TypeInv, TypeOK
    <2>9. WakeupNotLost'
      BY <2>3, <2>4, <2>5 DEF WaitInv, WakeupNotLost, TypeInv, TypeOK
    <2> QED
      BY <2>6, <2>7, <2>8, <2>9 DEF WaitInv
  <1>5. CASE CreateInsert(c)
    \* The new task has no job.
    <2>1. PICK t \in Tasks :
             /\ status[t] = "absent" /\ status' = [status EXCEPT ![t] = "queued"]
             /\ req' = [req EXCEPT ![c] = [req[c] EXCEPT !.pc = "created", !.task = t]]
      BY <1>5 DEF CreateInsert
    <2> DEFINE r == [req[c] EXCEPT !.pc = "created", !.task = t]
    <2>2. r.pc = "created" /\ req[c].pc = "insert"
      BY <1>5 DEF TypeInv, TypeOK, Request, CreateInsert, Doing
    <2>3. job[t] = "none"
      BY <2>1 DEF GateInv, CreationInv, Untouched
    <2>4. \A d \in Clients : req'[d] = IF d = c THEN r ELSE req[d]
      BY <2>1 DEF TypeInv, TypeOK
    <2>5. UNCHANGED <<job, approval, states, armed, granted>>
      BY <1>5 DEF CreateInsert
    <2> HIDE DEF r
    <2>6. ParkInv' /\ JobIsReachable'
      BY <2>1, <2>3, <2>5 DEF WaitInv, ParkInv, JobIsReachable, Alive, BeforePark, TypeInv, TypeOK
    <2>7. NoInv'
      BY <2>2, <2>4, <2>5 DEF WaitInv, NoInv, VerdictPC
    <2>8. WakeupNotLost'
      BY <2>1, <2>2, <2>3, <2>4, <2>5 DEF WaitInv, WakeupNotLost, VerdictPC, TypeInv, TypeOK
    <2> QED
      BY <2>6, <2>7, <2>8 DEF WaitInv
  <1>6. CASE CreateCheck(c) \/ \E t \in Tasks : CancelCheck(c, t) \/ ReplyStore(c, t)
    <2>1. PICK r : /\ r \in Request /\ r.pc \notin VerdictPC
                   /\ req' = [req EXCEPT ![c] = r]
      BY <1>6
      DEF CreateCheck, CancelCheck, ReplyStore, Begin, Idle, Request, ReqPC, CreatePC, CancelPC,
          ReplyPC, VerdictPC, Prompted
    <2>2. req[c].pc \notin VerdictPC
      BY <1>6 DEF CreateCheck, CancelCheck, ReplyStore, Begin, Doing, VerdictPC
    <2> QED
      BY <1>6, <2>1, <2>2, WaitRequest DEF CreateCheck, CancelCheck, ReplyStore
  <1>7. CASE RequestEvent(c)
    <2>1. PICK e \in RequestEvents : Doing(c, e[1]) /\ Continue(c, e[3])
      BY <1>7 DEF RequestEvent
    <2>2. /\ e[3] \in ReqPC /\ e[3] # "failRejected"
          /\ e[3] \in VerdictPC <=> e[1] \in VerdictPC
      BY DEF RequestEvents, ReqPC, CreatePC, CancelPC, ReplyPC, VerdictPC
    <2> QED
      BY <1>7, <2>1, <2>2, WaitContinue DEF RequestEvent, Doing
  <1>8. CASE NotifyEngine(c)
    BY <1>8, WaitContinue, WaitReturn DEF NotifyEngine, Doing, VerdictPC, ReqPC
  <1>9. CASE CancelWrite(c)
    BY <1>9, WaitContinue
    DEF CancelWrite, SetStatus, Doing, VerdictPC, ReqPC, CancelPC, TypeInv, TypeOK
  <1>10. CASE CancelJob(c)
    BY <1>10, WaitContinue, WaitReturn DEF CancelJob, Doing, VerdictPC, ReqPC, CancelPC
  <1>11. CASE CancelKill(c) \/ ReplyLog(c) \/ ReplyWrite(c)
    BY <1>11, WaitReturn DEF CancelKill, ReplyLog, ReplyWrite, Doing, VerdictPC
  <1>12. CASE ReplyLock(c)
    BY <1>12, WaitContinue, WaitReturn DEF ReplyLock, Doing, VerdictPC, ReqPC, ReplyPC
  <1> QED
    BY <1>1, <1>2, <1>3, <1>4, <1>5, <1>6, <1>7, <1>8, <1>9, <1>10, <1>11, <1>12
    DEF RequestStart, RequestStep, RuntimeAnswer

LEMMA WaitNext == TypeInv /\ GateInv /\ WaitInv /\ [Next]_vars => WaitInv'
  <1> SUFFICES ASSUME TypeInv, GateInv, WaitInv, [Next]_vars PROVE WaitInv'
    OBVIOUS
  <1>1. CASE Crash
    \* No job and no handler survives; where no job was, the status says so.
    <2>1. /\ \A t \in Tasks : job'[t] = IF job[t] = "none" THEN "none" ELSE "done"
          /\ \A c \in Clients : req'[c] = Idle
          /\ UNCHANGED <<status, approval>>
      BY <1>1 DEF Crash, dbVars
    <2>2. ParkInv'
      BY <2>1 DEF WaitInv, ParkInv, BeforePark, BeforeAsk
    <2>3. NoInv'
      BY <2>1, IdleRequest DEF NoInv, VerdictPC
    <2>4. JobIsReachable' /\ WakeupNotLost'
      BY <2>1 DEF JobIsReachable, WakeupNotLost, Alive
    <2> QED
      BY <2>2, <2>3, <2>4 DEF WaitInv
  <1>2. CASE UNCHANGED vars
    BY <1>2 DEF vars, WaitInv, ParkInv, NoInv, JobIsReachable, WakeupNotLost, Alive
  <1> QED
    BY <1>1, <1>2, WaitJob, WaitRequests DEF Next, Quiescent

LEMMA WaitInvariant == Spec => []WaitInv
  <1>1. Init => WaitInv
    BY IdleRequest
    DEF Init, WaitInv, ParkInv, NoInv, JobIsReachable, WakeupNotLost, Alive, BeforePark, VerdictPC
  <1> QED
    BY <1>1, WaitNext, InductiveInvariant, PTL DEF Spec

\* While its job lives, a task is known to the engine, and the engine knows
\* the approval a phone can answer.
THEOREM JobStaysReachable == Spec => []JobIsReachable
  <1>1. WaitInv => JobIsReachable
    BY DEF WaitInv
  <1> QED
    BY <1>1, WaitInvariant, PTL

\* A granted approval whose handler is done has set the event its job waits
\* for, unless the task was cancelled meanwhile.
THEOREM WakeupIsNotLost == Spec => []WakeupNotLost
  <1>1. WaitInv => WakeupNotLost
    BY DEF WaitInv
  <1> QED
    BY <1>1, WaitInvariant, PTL

=============================================================================
