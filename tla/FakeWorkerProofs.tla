---------------------------- MODULE FakeWorkerProofs ----------------------------
(***************************************************************************)
(* Proofs about the default engine, for every number of requests, faults   *)
(* and restarts: its two jobs take turns, and it implements the approval   *)
(* gate.                                                                   *)
(***************************************************************************)
EXTENDS FakeWorker, TLAPS

-----------------------------------------------------------------------------
(* What the two jobs do.                                                   *)

\* Where the first job has not asked yet, and where it has.
BeforeAsk == {"starting", "booted", "run", "analyzed", "ask"}
AfterAsk == {"park", "announce"}
SecondPcs == {"resume", "resumed", "complete", "settle"}
FailPcs == {"fail", "report"}

LEMMA ScriptParts ==
    /\ DOMAIN FirstJob = BeforeAsk \cup AfterAsk
    /\ DOMAIN SecondJob = SecondPcs
    /\ DOMAIN Failing = FailPcs
BY DEF FirstJob, SecondJob, Failing, BeforeAsk, AfterAsk, SecondPcs, FailPcs

\* Only the statement "ask" asks, and the first job passes it once, on its way
\* from the statements before it to those after it.
LEMMA ScriptGoesOn ==
    /\ DOMAIN Script = BeforeAsk \cup AfterAsk \cup SecondPcs \cup FailPcs
    /\ \A pc \in DOMAIN Script : Script[pc][1] = "ask" <=> pc = "ask"
    /\ \A pc \in BeforeAsk \ {"ask"} : Script[pc][2] \in BeforeAsk
    /\ \A pc \in AfterAsk \cup {"ask"} : Script[pc][2] \in AfterAsk \cup {"done"}
    /\ \A pc \in SecondPcs : Script[pc][2] \in SecondPcs \cup {"done"}
    /\ \A pc \in FailPcs : Script[pc][2] \in FailPcs \cup {"done"}
<1> USE DEF BeforeAsk, AfterAsk, SecondPcs, FailPcs
<1>1. DOMAIN Script = BeforeAsk \cup AfterAsk \cup SecondPcs \cup FailPcs
  BY ScriptParts DEF Script
<1>2. \A pc \in BeforeAsk \cup AfterAsk : Script[pc] = FirstJob[pc]
  BY ScriptParts DEF Script
<1>3. \A pc \in SecondPcs : Script[pc] = SecondJob[pc]
  BY ScriptParts DEF Script
<1>4. \A pc \in FailPcs : Script[pc] = Failing[pc]
  BY ScriptParts DEF Script
<1>5. /\ \A pc \in BeforeAsk \cup AfterAsk : Script[pc][1] = "ask" <=> pc = "ask"
      /\ \A pc \in BeforeAsk \ {"ask"} : Script[pc][2] \in BeforeAsk
      /\ \A pc \in AfterAsk \cup {"ask"} : Script[pc][2] \in AfterAsk \cup {"done"}
  BY <1>2 DEF FirstJob
<1>6. \A pc \in SecondPcs : Script[pc][1] # "ask" /\ Script[pc][2] \in SecondPcs \cup {"done"}
  BY <1>3 DEF SecondJob
<1>7. \A pc \in FailPcs : Script[pc][1] # "ask" /\ Script[pc][2] \in FailPcs \cup {"done"}
  BY <1>4 DEF Failing
<1> QED BY <1>1, <1>5, <1>6, <1>7

-----------------------------------------------------------------------------
(* The inductive invariant.                                                *)

FakeTypes ==
    /\ approval \in {"none", "pending", "approved", "rejected"}
    /\ creator \in {"dispatch", "done"}
    /\ job \in [Jobs -> {"none", "done"} \cup DOMAIN Script]
    /\ job["first"] \notin SecondPcs /\ job["second"] \notin BeforeAsk \cup AfterAsk
    /\ entry \in {"none"} \cup Jobs /\ stop \subseteq Jobs
    /\ req \in [Clients -> [pc : {"idle", "fail", "notify", "resume", "cancelWrite", "cancelJob"},
                            approved : BOOLEAN]]

\* Nothing is asked before the first job asks, the second starts after a yes,
\* and who is to start it has been told so; a job that is at work is the one
\* the engine's table holds.
FakeInv ==
    /\ FakeTypes
    /\ creator = "dispatch" => \A j \in Jobs : job[j] = "none"
    /\ job["first"] \in {"none"} \cup BeforeAsk => approval = "none"
    /\ job["second"] # "none" => approval = "approved"
    /\ \A c \in Clients : req[c].pc \in {"notify", "resume"} => approval = "approved"
    /\ \A j \in Jobs : Busy(j) => entry = j
    /\ \A j \in stop : job[j] # "none"

LEMMA FakeInit == Init => FakeInv
<1> SUFFICES ASSUME Init PROVE FakeInv
  OBVIOUS
<1>1. Idle \in [pc : {"idle", "fail", "notify", "resume", "cancelWrite", "cancelJob"},
                approved : BOOLEAN]
  BY DEF Idle
<1>2. job \in [Jobs -> {"none", "done"} \cup DOMAIN Script]
  BY DEF Init
<1> QED
  BY <1>1, <1>2 DEF Init, FakeInv, FakeTypes, Jobs, Busy, Idle, SecondPcs, BeforeAsk, AfterAsk

\* A job that asks is the first one, and nothing has been asked before.
LEMMA AskIsFirst ==
    ASSUME FakeInv, NEW j \in Jobs, JobAsk(j)
    PROVE  j = "first" /\ job["first"] = "ask" /\ approval = "none" /\ job["second"] = "none"
<1>1. job[j] \in DOMAIN Script
  BY DEF JobAsk, GoesOn, Busy, FakeInv, FakeTypes
<1>2. job[j] = "ask"
  BY <1>1, ScriptGoesOn DEF JobAsk
<1> QED BY <1>2 DEF FakeInv, FakeTypes, Jobs, BeforeAsk

\* A job that takes a step which is not the question.
LEMMA JobMoves ==
    ASSUME FakeInv, NEW j \in Jobs, Busy(j), NEW pc \in {"done"} \cup DOMAIN Script,
           pc \in FailPcs \cup {"done"} \/ (pc = Script[job[j]][2] /\ job[j] # "ask"),
           job' = [job EXCEPT ![j] = pc], stop' \subseteq stop,
           UNCHANGED <<approval, creator, entry, req>>
    PROVE  FakeInv'
<1>1. job[j] \in DOMAIN Script
  BY DEF Busy, FakeInv, FakeTypes
<1>2. /\ job[j] \in BeforeAsk \cup AfterAsk \cup SecondPcs \cup FailPcs
      /\ pc \in BeforeAsk => job[j] \in BeforeAsk
      /\ pc \in AfterAsk => job[j] \in AfterAsk
      /\ pc \in SecondPcs => job[j] \in SecondPcs
  BY <1>1, ScriptGoesOn DEF BeforeAsk, AfterAsk, SecondPcs, FailPcs
<1>3. job' \in [Jobs -> {"none", "done"} \cup DOMAIN Script]
  BY DEF FakeInv, FakeTypes
<1>4. job'[j] = pc /\ \A k \in Jobs : k # j => job'[k] = job[k]
  BY DEF FakeInv, FakeTypes
<1>5. pc # "none"
  BY ScriptGoesOn DEF BeforeAsk, AfterAsk, SecondPcs, FailPcs
<1>6. FakeTypes'
  BY <1>2, <1>3, <1>4 DEF FakeInv, FakeTypes, Jobs
<1>7. \A k \in Jobs : Busy(k)' => Busy(k)
  BY <1>4 DEF Busy
<1>8. creator # "dispatch"
  BY DEF FakeInv, Busy
<1> QED BY <1>2, <1>4, <1>5, <1>6, <1>7, <1>8 DEF FakeInv, Jobs, Busy

LEMMA JobEnds ==
    ASSUME FakeInv, NEW j \in Jobs, Busy(j), job' = [job EXCEPT ![j] = "done"],
           stop' \subseteq stop, UNCHANGED <<approval, creator, entry, req>>
    PROVE  FakeInv'
<1>1. "done" \in {"done"} \cup DOMAIN Script /\ "done" \in FailPcs \cup {"done"}
  OBVIOUS
<1> QED BY <1>1, JobMoves

LEMMA JobKeeps ==
    ASSUME FakeInv, NEW j \in Jobs, JobStep(j) \/ JobRaises(j)
    PROVE  FakeInv'
<1>1. ASSUME GoesOn(j), UNCHANGED approval, job[j] # "ask" PROVE FakeInv'
  <2>1. Busy(j) /\ job' = [job EXCEPT ![j] = Script[job[j]][2]] /\ UNCHANGED <<creator, entry, stop, req>>
    BY <1>1 DEF GoesOn
  <2>2. job[j] \in DOMAIN Script
    BY <2>1 DEF Busy, FakeInv, FakeTypes
  <2>3. Script[job[j]][2] \in {"done"} \cup DOMAIN Script
    BY <1>1, <2>2, ScriptGoesOn
  <2> QED BY <1>1, <2>1, <2>3, JobMoves
<1>2. CASE JobWrite(j) \/ JobAppend(j)
  <2>1. job[j] \in DOMAIN Script
    BY <1>2 DEF JobWrite, JobAppend, GoesOn, Busy, FakeInv, FakeTypes
  <2>2. Script[job[j]][1] # "ask"
    BY <1>2 DEF JobWrite, JobAppend
  <2>3. job[j] # "ask"
    BY <2>1, <2>2, ScriptGoesOn
  <2> QED BY <1>1, <1>2, <2>3 DEF JobWrite, JobAppend
<1>3. CASE JobAsk(j)
  <2>1. j = "first" /\ job["first"] = "ask" /\ approval = "none" /\ job["second"] = "none"
    BY <1>3, AskIsFirst
  <2>2. /\ job' = [job EXCEPT !["first"] = Script["ask"][2]] /\ approval' = "pending"
        /\ UNCHANGED <<creator, entry, stop, req>>
    BY <1>3, <2>1 DEF JobAsk, GoesOn
  <2>3. Script["ask"][2] \in AfterAsk \cup {"done"}
    BY ScriptGoesOn
  <2>4. /\ job'["first"] \in AfterAsk \cup {"done"} /\ job'["second"] = "none"
        /\ job' \in [Jobs -> {"none", "done"} \cup DOMAIN Script]
    BY <2>1, <2>2, <2>3, ScriptGoesOn DEF FakeInv, FakeTypes, Jobs
  <2>5. FakeTypes'
    BY <2>2, <2>4 DEF FakeInv, FakeTypes, AfterAsk, SecondPcs, BeforeAsk
  <2>6. creator # "dispatch" /\ entry = "first"
    BY <2>1 DEF FakeInv, Busy, Jobs
  <2>7. \A c \in Clients : req[c].pc \notin {"notify", "resume"}
    BY <2>1 DEF FakeInv
  <2> QED BY <2>2, <2>4, <2>5, <2>6, <2>7 DEF FakeInv, Jobs, Busy, AfterAsk, BeforeAsk
<1>4. CASE JobCheck(j)
  <2>1. job[j] \in DOMAIN Script /\ Script[job[j]][1] = "check" /\ Busy(j)
    BY <1>4 DEF JobCheck, Busy, FakeInv, FakeTypes
  <2>2. job[j] # "ask"
    BY <2>1, ScriptGoesOn
  <2>3. Script[job[j]][2] \in {"done"} \cup DOMAIN Script
    BY <2>1, <2>2, ScriptGoesOn
  <2>4. CASE status = "cancelled"
    <3>1. /\ job' = [job EXCEPT ![j] = "done"] /\ stop' \subseteq stop
          /\ UNCHANGED <<approval, creator, entry, req>>
      BY <1>4, <2>4 DEF JobCheck
    <3> QED BY <2>1, <3>1, JobEnds
  <2>5. CASE status # "cancelled"
    <3>1. /\ job' = [job EXCEPT ![j] = Script[job[j]][2]]
          /\ UNCHANGED <<approval, creator, entry, stop, req>>
      BY <1>4, <2>5 DEF JobCheck
    <3> QED BY <2>1, <2>2, <2>3, <3>1, JobMoves
  <2> QED BY <2>4, <2>5
<1>5. CASE JobCancelled(j)
  <2>1. /\ j \in stop /\ job' = [job EXCEPT ![j] = "done"] /\ stop' \subseteq stop
        /\ UNCHANGED <<approval, creator, entry, req>>
    BY <1>5 DEF JobCancelled
  <2>2. CASE Busy(j)
    BY <2>1, <2>2, JobEnds
  <2>3. CASE ~Busy(j)
    <3>1. job[j] = "done"
      BY <2>1, <2>3 DEF Busy, FakeInv
    <3>2. job' = job
      BY <2>1, <3>1 DEF FakeInv, FakeTypes
    <3> QED BY <2>1, <3>2 DEF FakeInv, FakeTypes, Busy
  <2> QED BY <2>2, <2>3
<1>6. CASE JobRaises(j)
  <2> DEFINE pc == IF job[j] \in DOMAIN Failing THEN "done" ELSE "fail"
  <2>1. Busy(j) /\ job' = [job EXCEPT ![j] = pc] /\ UNCHANGED <<approval, creator, entry, stop, req>>
    BY <1>6 DEF JobRaises
  <2>2. pc \in FailPcs \cup {"done"} /\ pc \in {"done"} \cup DOMAIN Script
    BY ScriptGoesOn DEF FailPcs
  <2> HIDE DEF pc
  <2>3. stop' \subseteq stop /\ UNCHANGED <<approval, creator, entry, req>>
    BY <2>1
  <2> QED BY <2>1, <2>2, <2>3, JobMoves
<1> QED BY <1>2, <1>3, <1>4, <1>5, <1>6 DEF JobStep

-----------------------------------------------------------------------------
(* The requests                                                            *)

\* A request that goes on, or is over, and changes nothing else but rows.
LEMMA RequestMoves ==
    ASSUME FakeInv, NEW c \in Clients,
           NEW r \in [pc : {"idle", "fail", "notify", "resume", "cancelWrite", "cancelJob"},
                      approved : BOOLEAN],
           req' = [req EXCEPT ![c] = r],
           r.pc \in {"notify", "resume"} => approval' = "approved",
           approval' = approval \/ (approval = "pending" /\ approval' \in {"approved", "rejected"}),
           UNCHANGED <<creator, job, entry, stop>>
    PROVE  FakeInv'
<1>1. FakeTypes'
  BY DEF FakeInv, FakeTypes
<1>2. req'[c] = r /\ \A d \in Clients : d # c => req'[d] = req[d]
  BY DEF FakeInv, FakeTypes
<1>3. \A d \in Clients : req'[d].pc \in {"notify", "resume"} => approval' = "approved"
  BY <1>2 DEF FakeInv
<1> QED BY <1>1, <1>3 DEF FakeInv, Busy

LEMMA RequestKeeps ==
    ASSUME FakeInv, NEW c \in Clients,
           RequestStep(c) \/ RequestRaises(c) \/ CancelCheck(c) \/ \E ok \in BOOLEAN : Resolve(c, ok)
    PROVE  FakeInv'
<1> DEFINE R == [pc : {"idle", "fail", "notify", "resume", "cancelWrite", "cancelJob"},
                 approved : BOOLEAN]
<1>0. Idle \in R /\ Idle.pc = "idle" /\ req[c] \in R
  BY DEF Idle, FakeInv, FakeTypes
<1>1. ASSUME NEW pc \in {"idle", "resume", "cancelWrite", "cancelJob"}, Continue(c, pc),
             pc = "resume" => approval = "approved", UNCHANGED <<approval, creator, job, entry, stop>>
      PROVE  FakeInv'
  <2> DEFINE r == [req[c] EXCEPT !.pc = pc]
  <2>1. r \in R /\ r.pc = pc /\ req' = [req EXCEPT ![c] = r]
    BY <1>0, <1>1 DEF Continue
  <2> HIDE DEF r
  <2> QED BY <1>1, <2>1, RequestMoves
<1>2. ASSUME req' = [req EXCEPT ![c] = Idle], UNCHANGED <<approval, creator, job, entry, stop>>
      PROVE  FakeInv'
  BY <1>0, <1>2, RequestMoves
<1>3. CASE RejectFail(c) \/ RequestRaises(c)
  BY <1>2, <1>3 DEF RejectFail, RequestRaises
<1>4. CASE Notify(c)
  BY <1>1, <1>4 DEF Notify, Doing, FakeInv
<1>5. CASE CancelCheck(c) \/ CancelWrite(c)
  BY <1>1, <1>5 DEF CancelCheck, CancelWrite
<1>6. ASSUME NEW ok \in BOOLEAN, Resolve(c, ok) PROVE FakeInv'
  <2> DEFINE r == [pc |-> IF ok THEN "notify" ELSE "fail", approved |-> ok]
  <2>1. r \in R /\ (r.pc \in {"notify", "resume"} => ok)
    OBVIOUS
  <2>2. /\ req' = [req EXCEPT ![c] = r] /\ approval = "pending"
        /\ approval' = IF ok THEN "approved" ELSE "rejected"
        /\ UNCHANGED <<creator, job, entry, stop>>
    BY <1>6 DEF Resolve, Unresolved
  <2> HIDE DEF r
  <2> QED BY <2>1, <2>2, RequestMoves
\* The second job starts only when the table's job is done: so no job is busy.
<1>7. CASE Resume(c)
  <2>1. CASE Engaged
    BY <1>2, <1>7, <2>1 DEF Resume
  <2>2. CASE ~Engaged
    <3>1. \A j \in Jobs : ~Busy(j)
      BY <2>2 DEF Engaged, FakeInv, Jobs
    <3>2. /\ job' = [job EXCEPT !["second"] = "resume"] /\ entry' = "second"
          /\ req' = [req EXCEPT ![c] = Idle] /\ UNCHANGED <<approval, creator, stop>>
      BY <1>7, <2>2 DEF Resume
    <3>3. approval = "approved"
      BY <1>7 DEF Resume, Doing, FakeInv
    <3>4. /\ job'["second"] = "resume" /\ job'["first"] = job["first"]
          /\ job' \in [Jobs -> {"none", "done"} \cup DOMAIN Script]
      BY <3>2, ScriptGoesOn DEF FakeInv, FakeTypes, Jobs, SecondPcs
    <3>5. FakeTypes'
      BY <1>0, <3>2, <3>4 DEF FakeInv, FakeTypes, BeforeAsk, AfterAsk
    <3>6. creator # "dispatch"
      BY <3>3 DEF FakeInv, Jobs
    <3>7. \A d \in Clients : req'[d].pc \in {"notify", "resume"} => approval' = "approved"
      BY <3>2, <3>3
    <3>8. \A j \in Jobs : Busy(j)' => entry' = j
      BY <3>1, <3>2, <3>4 DEF Busy, Jobs
    <3> QED BY <3>2, <3>3, <3>4, <3>5, <3>6, <3>7, <3>8 DEF FakeInv, FakeTypes, Jobs
  <2> QED BY <2>1, <2>2
<1>8. CASE CancelJob(c)
  <2>1. CASE Engaged /\ entry \in Jobs
    <3>1. stop' = stop \cup {entry} /\ job[entry] # "none"
      BY <1>8, <2>1 DEF CancelJob, Engaged, Busy
    <3>2. req' = [req EXCEPT ![c] = Idle] /\ UNCHANGED <<approval, creator, job, entry>>
      BY <1>8 DEF CancelJob
    <3>3. FakeTypes'
      BY <1>0, <2>1, <3>1, <3>2 DEF FakeInv, FakeTypes
    <3>4. \A d \in Clients : req'[d].pc \in {"notify", "resume"} => approval' = "approved"
      BY <1>0, <3>2 DEF FakeInv, FakeTypes
    <3> QED BY <3>1, <3>2, <3>3, <3>4 DEF FakeInv, Busy
  <2>2. CASE ~Engaged
    BY <1>2, <1>8, <2>2 DEF CancelJob
  <2>3. Engaged => entry \in Jobs
    BY DEF Engaged, FakeInv, FakeTypes
  <2> QED BY <2>1, <2>2, <2>3
<1> QED BY <1>3, <1>4, <1>5, <1>6, <1>7, <1>8 DEF RequestStep

LEMMA FakeStep == FakeInv /\ [Next]_vars => FakeInv'
<1> SUFFICES ASSUME FakeInv, [Next]_vars PROVE FakeInv'
  OBVIOUS
<1>1. CASE Dispatch
  <2>1. job["first"] = "none" /\ job["second"] = "none" /\ approval = "none"
    BY <1>1 DEF Dispatch, FakeInv, Jobs
  <2>2. /\ job'["first"] = "starting" /\ job'["second"] = "none" /\ entry' = "first"
        /\ job' \in [Jobs -> {"none", "done"} \cup DOMAIN Script] /\ creator' = "done"
        /\ UNCHANGED <<approval, stop, req>>
    BY <1>1, <2>1, ScriptGoesOn DEF Dispatch, FakeInv, FakeTypes, Jobs, BeforeAsk
  <2> QED BY <2>1, <2>2 DEF FakeInv, FakeTypes, Jobs, Busy, SecondPcs, BeforeAsk
<1>2. CASE CreateFails
  BY <1>2 DEF CreateFails, FakeInv, FakeTypes, Busy
<1>3. ASSUME NEW j \in Jobs, JobStep(j) \/ JobRaises(j) PROVE FakeInv'
  BY <1>3, JobKeeps
<1>4. ASSUME NEW c \in Clients,
             RequestStep(c) \/ RequestRaises(c) \/ CancelCheck(c) \/ \E ok \in BOOLEAN : Resolve(c, ok)
      PROVE  FakeInv'
  BY <1>4, RequestKeeps
<1>5. CASE Crash
  <2>1. /\ \A j \in Jobs : job'[j] = IF Busy(j) THEN "done" ELSE job[j]
        /\ job' \in [Jobs -> {"none", "done"} \cup DOMAIN Script]
    BY <1>5 DEF Crash, FakeInv, FakeTypes
  <2>2. \A j \in Jobs : ~Busy(j)'
    BY <2>1 DEF Busy
  <2>3. creator' = "done" /\ stop' = {} /\ UNCHANGED approval /\ \A c \in Clients : req'[c] = Idle
    BY <1>5 DEF Crash
  <2>4. req' \in [Clients -> [pc : {"idle", "fail", "notify", "resume", "cancelWrite", "cancelJob"},
                              approved : BOOLEAN]]
    BY <1>5 DEF Crash, Idle
  <2>e. entry' = "none"
    BY <1>5 DEF Crash
  <2>5. FakeTypes'
    BY <2>1, <2>3, <2>4, <2>e DEF FakeInv, FakeTypes, SecondPcs, BeforeAsk, AfterAsk, Jobs
  <2>6. \A j \in Jobs : /\ job'[j] # "none" <=> job[j] # "none"
                        /\ job'[j] \in BeforeAsk => job[j] \in BeforeAsk
    BY <2>1 DEF Busy, BeforeAsk
  <2> QED BY <2>2, <2>3, <2>5, <2>6 DEF FakeInv, Jobs, Idle
<1>6. CASE Quiescent \/ UNCHANGED vars
  BY <1>6 DEF Quiescent, vars, FakeInv, FakeTypes, Busy
<1> QED BY <1>1, <1>2, <1>3, <1>4, <1>5, <1>6 DEF Next

LEMMA FakeInvariant == Spec => []FakeInv
BY FakeInit, FakeStep, PTL DEF Spec

-----------------------------------------------------------------------------
\* The job that an approval starts never works beside the one that asked,
\* however many requests answer and cancel, and whatever raises or restarts
\* (FakeWorkerEngine.handle_approval).
THEOREM JobsNeverOverlap == Spec => []JobsTakeTurns
<1>1. FakeInv => JobsTakeTurns
  BY DEF FakeInv, JobsTakeTurns, Jobs
<1> QED BY <1>1, FakeInvariant, PTL

\* The default engine asks once, is answered once, and starts the approved
\* action at most once and only after a yes, with any number of requests,
\* faults and restarts.
THEOREM FakeGateImplemented == Spec => FakeGate
<1> DEFINE verdict == [t \in {"task"} |-> approval]
           launched == [t \in {"task"} |-> job["second"] # "none"]
<1>1. Init => Gate!Init
  BY DEF Init, Gate!Init, Jobs
<1>2. ASSUME FakeInv, [Next]_vars PROVE [Gate!Next]_(Gate!gateVars)
  <2> USE <1>2
  <2>1. ASSUME NEW j \in Jobs, JobAsk(j) PROVE Gate!Ask("task")
    <3>1. j = "first" /\ approval = "none" /\ job["second"] = "none"
      BY <2>1, AskIsFirst
    <3>2. approval' = "pending" /\ job'["second"] = job["second"]
      BY <2>1, <3>1 DEF JobAsk, GoesOn, FakeInv, FakeTypes, Jobs
    <3> QED BY <3>1, <3>2 DEF Gate!Ask
  <2>2. ASSUME NEW c \in Clients, NEW ok \in BOOLEAN, Resolve(c, ok) PROVE Gate!Answer("task")
    <3>1. approval = "pending" /\ job["second"] = "none" /\ job' = job
      BY <2>2 DEF Resolve, Unresolved, FakeInv
    <3>2. approval' \in {"approved", "rejected"}
      BY <2>2 DEF Resolve
    <3> QED BY <3>1, <3>2 DEF Gate!Answer
  <2>3. ASSUME NEW c \in Clients, Resume(c) PROVE Gate!Launch("task") \/ UNCHANGED Gate!gateVars
    <3>1. approval = "approved" /\ approval' = approval
      BY <2>3 DEF Resume, Doing, FakeInv
    <3>2. job' = job \/ job'["second"] = "resume"
      BY <2>3 DEF Resume, FakeInv, FakeTypes, Jobs
    <3>3. CASE job["second"] = "none" /\ job' # job
      <4>1. launched = [t \in {"task"} |-> FALSE] /\ launched' = [t \in {"task"} |-> TRUE]
        BY <3>2, <3>3
      <4> QED BY <3>1, <3>2, <3>3, <4>1 DEF Gate!Launch
    <3>4. CASE job' = job \/ job["second"] # "none"
      BY <3>1, <3>2, <3>4 DEF Gate!gateVars
    <3> QED BY <3>3, <3>4
  <2>4. ASSUME approval' = approval, (job'["second"] # "none") = (job["second"] # "none")
        PROVE  UNCHANGED Gate!gateVars
    BY <2>4 DEF Gate!gateVars
\* What a job that is at work does leaves whether the second was started.
  <2>5. ASSUME NEW j \in Jobs, JobStep(j) \/ JobRaises(j), ~JobAsk(j) PROVE UNCHANGED Gate!gateVars
    <3>1. approval' = approval /\ job[j] # "none" /\ \E pc : job' = [job EXCEPT ![j] = pc]
      BY <2>5 DEF JobStep, JobWrite, JobAppend, JobCheck, JobCancelled, JobRaises, GoesOn, Busy, FakeInv
    <3>2. job' \in [Jobs -> {"none", "done"} \cup DOMAIN Script] /\ FakeInv'
      BY FakeStep DEF FakeInv, FakeTypes
    <3>3. job'[j] # "none"
      BY <2>5, ScriptGoesOn
      DEF JobStep, JobWrite, JobAppend, JobCheck, JobCancelled, JobRaises, GoesOn, Busy,
          FakeInv, FakeTypes, BeforeAsk, AfterAsk, SecondPcs, FailPcs
    <3>4. (job'["second"] # "none") = (job["second"] # "none")
      BY <3>1, <3>3 DEF FakeInv, FakeTypes, Jobs
    <3> QED BY <2>4, <3>1, <3>4
  <2>6. ASSUME NEW c \in Clients, RequestStep(c) \/ RequestRaises(c) \/ CancelCheck(c), ~Resume(c)
        PROVE  UNCHANGED Gate!gateVars
    <3>1. UNCHANGED <<approval, job>>
      BY <2>6 DEF RequestStep, RejectFail, Notify, CancelWrite, CancelJob, RequestRaises, CancelCheck
    <3> QED BY <2>4, <3>1
  <2>7. CASE Dispatch \/ CreateFails \/ Crash \/ Quiescent \/ UNCHANGED vars
    <3>1. approval' = approval /\ (job'["second"] # "none") = (job["second"] # "none")
      BY <2>7 DEF Dispatch, CreateFails, Crash, Quiescent, vars, FakeInv, FakeTypes, Jobs, Busy
    <3> QED BY <2>4, <3>1
  <2>8. Gate!Ask("task") \/ Gate!Answer("task") \/ Gate!Launch("task") => Gate!Next
    BY DEF Gate!Next
  <2> QED BY <2>1, <2>2, <2>3, <2>5, <2>6, <2>7, <2>8 DEF Next, RequestStep
<1> QED BY <1>1, <1>2, FakeInvariant, PTL DEF Spec, FakeGate, Gate!Spec

=============================================================================
