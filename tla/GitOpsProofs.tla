----------------------------- MODULE GitOpsProofs -----------------------------
(***************************************************************************)
(* Proofs about commit and push for every number of operations, request    *)
(* handlers and edits: while no two phones answer one review at the same   *)
(* moment, GitService implements GitReview; an operation is RUNNING only   *)
(* while a handler works on it, or there was a fault; and an uncommitted   *)
(* edit is lost only by a discard, with the disk or under a clone that     *)
(* fails.                                                                  *)
(***************************************************************************)
EXTENDS GitOps, TLAPS

\* The part of the types that the arguments below need.
TypeInv ==
    /\ op \in [Ops -> [status : OpStatus, review : SUBSET Edits]]
    /\ req \in [Clients -> [pc : Pc, op : Ops \cup {NoOp}, seen : SUBSET Edits]]
    /\ tree \subseteq Edits /\ staged \subseteq Edits
    /\ made \subseteq Edits
    /\ prep \in [Jobs -> PrepPc]

WorkInv ==
    /\ faults \in Nat
    /\ faults = 0 => present /\ \A j \in Jobs : prep[j] \notin {"clone", "cloning"}
    /\ RunningIsWorkedOn

GitInv == TypeInv /\ HandlerInv

LEMMA GitInitInv == Init => GitInv /\ WorkInv
BY GitAssumption DEF Init, GitInv, TypeInv, HandlerInv, WorkInv, RunningIsWorkedOn, Idle,
   Pc, ConfirmPc, DiscardPc, Verdict, OpStatus, PrepPc

\* Preparing the workspace changes nothing of the reviews.
LEMMA PrepareQuiet ==
    ASSUME NEW j \in Jobs, PrepareForTask(j)
    PROVE  UNCHANGED <<op, req, made, pushed, dropped, faults>>
BY DEF PrepareForTask, PrepareCheck, PrepareFails, PrepareFetch, IsClean, Pull, CloneStart,
       CloneDone, CloneFails

\* What it does to the workspace, by its steps.
LEMMA PrepareEffect ==
    ASSUME NEW j \in Jobs, PrepareForTask(j)
    PROVE  /\ \E pc \in PrepPc : PrepGoto(j, pc)
           /\ remote' = remote
           /\ \/ UNCHANGED <<tree, staged, local, cloned>> /\ present' \in {present, TRUE}
              \/ UNCHANGED <<tree, staged, present, cloned>> /\ local' = remote
              \/ CloneDone(j)
              \/ prep[j] = "cloning" /\ Removed
<1> USE DEF PrepPc, repo
<1>1. CASE PrepareCheck(j)
  BY <1>1 DEF PrepareCheck
<1>2. CASE PrepareFails(j) \/ PrepareFetch(j)
  BY <1>2 DEF PrepareFails, PrepareFetch
<1>3. CASE IsClean(j)
  BY <1>3 DEF IsClean
<1>4. CASE Pull(j)
  BY <1>4 DEF Pull
<1>5. CASE CloneStart(j)
  BY <1>5 DEF CloneStart
<1>6. CASE CloneDone(j)
  BY <1>6 DEF CloneDone
<1>7. CASE CloneFails(j)
  BY <1>7 DEF CloneFails, Removed
<1> QED BY <1>1, <1>2, <1>3, <1>4, <1>5, <1>6, <1>7 DEF PrepareForTask

-----------------------------------------------------------------------------
(* Types                                                                   *)

Handler == [pc : Pc, op : Ops \cup {NoOp}, seen : SUBSET Edits]
Operation == [status : OpStatus, review : SUBSET Edits]

\* What the helpers of the handlers preserve.
LEMMA HelperTypes ==
    ASSUME TypeInv, NEW c \in Clients
    PROVE  /\ Return(c) => req' \in [Clients -> Handler]
           /\ \A pc \in Pc : Goto(c, pc) => req' \in [Clients -> Handler]
           /\ \A s \in OpStatus :
                 SetStatus(req[c].op, s) => op' \in [Ops -> Operation]
<1>1. Idle \in Handler
  BY DEF Idle, Handler, Pc
<1>2. Return(c) => req' \in [Clients -> Handler]
  BY <1>1 DEF Return, TypeInv, Handler
<1>3. ASSUME NEW pc \in Pc, Goto(c, pc) PROVE req' \in [Clients -> Handler]
  <2>1. [req[c] EXCEPT !.pc = pc] \in Handler
    BY DEF TypeInv, Handler
  <2> QED BY <1>3, <2>1 DEF Goto, TypeInv, Handler
<1>4. ASSUME NEW s \in OpStatus, SetStatus(req[c].op, s) PROVE op' \in [Ops -> Operation]
  <2>1. \A o \in Ops : [op[o] EXCEPT !.status = s] \in Operation
    BY DEF TypeInv, Operation
  <2> QED BY <1>4, <2>1 DEF SetStatus, TypeInv, Operation
<1> QED BY <1>2, <1>3, <1>4

LEMMA TypeStep == TypeInv /\ [Next]_vars => TypeInv'
<1> SUFFICES ASSUME TypeInv, [Next]_vars PROVE TypeInv'
  OBVIOUS
<1> USE GitAssumption DEF TypeInv, Pc, ConfirmPc, DiscardPc, OpStatus, repo, PrepPc
<1>1. ASSUME NEW e \in Edits, TaskEdits(e) PROVE TypeInv'
  BY <1>1 DEF TaskEdits
<1>2. CASE (\E e \in Foreign : OthersPush(e)) \/ DiskLost
  BY <1>2 DEF OthersPush, DiskLost, Removed
<1>11. ASSUME NEW j \in Jobs, PrepareForTask(j) PROVE TypeInv'
  <2>1. tree' \subseteq Edits /\ staged' \subseteq Edits
    BY <1>11, PrepareEffect DEF CloneDone, Removed
  <2>2. prep' \in [Jobs -> PrepPc]
    BY <1>11, PrepareEffect DEF PrepGoto
  <2> QED BY <1>11, <2>1, <2>2, PrepareQuiet
<1>3. CASE Crash
  BY <1>3 DEF Crash, Idle
<1>4. ASSUME NEW c \in Clients PROVE Prepare(c) \/ PrepareStatus(c) => TypeInv'
  <2>1. CASE Prepare(c)
    BY <2>1, HelperTypes DEF Prepare, Handler
  <2>2. CASE PrepareStatus(c)
    <3>1. Idle \in Handler /\ [req[c] EXCEPT !.pc = "create", !.seen = tree] \in Handler
      BY DEF Idle, Handler
    <3> QED BY <2>2, <3>1 DEF PrepareStatus, Handler
  <2> QED BY <2>1, <2>2
<1>5. ASSUME NEW c \in Clients, NEW o \in Ops, PrepareCreate(c, o) \/ LoadPending(c, o)
      PROVE  TypeInv'
  <2>1. CASE PrepareCreate(c, o)
    <3>1. req[c].seen \in SUBSET Edits
      OBVIOUS
    <3> QED BY <2>1, <3>1, HelperTypes DEF PrepareCreate, Handler
  <2>2. CASE LoadPending(c, o)
    BY <2>2 DEF LoadPending
  <2> QED BY <1>5, <2>1, <2>2
<1>6. ASSUME NEW c \in Clients, ConfirmRunning(c) \/ Finish(c) \/ EnvRaises(c) \/ Escapes(c)
      PROVE  TypeInv'
  BY <1>6, HelperTypes DEF ConfirmRunning, Finish, EnvRaises, Escapes, Handler, Operation
<1>7. ASSUME NEW c \in Clients, GitAdd(c) \/ GitCommit(c) \/ GitPush(c)
      PROVE  TypeInv'
  BY <1>7, HelperTypes DEF GitAdd, GitCommit, GitPush, Fails, Handler
<1>8. ASSUME NEW c \in Clients, DiscardReject(c) \/ ResetCheck(c) PROVE TypeInv'
  BY <1>8, HelperTypes DEF DiscardReject, ResetCheck, Handler, Operation
<1>9. ASSUME NEW c \in Clients PROVE ResetCheckout(c) \/ ResetClean(c) => TypeInv'
  <2>1. CASE ResetCheckout(c)
    <3>1. [req[c] EXCEPT !.pc = "clean", !.seen = tree] \in Handler
      BY DEF Handler
    <3>2. req' \in [Clients -> Handler]
      BY <2>1, <3>1, HelperTypes DEF ResetCheckout, Handler
    <3>3. tree' \subseteq Edits
      BY <2>1 DEF ResetCheckout
    <3> QED BY <2>1, <3>2, <3>3 DEF ResetCheckout, Handler
  <2>2. CASE ResetClean(c)
    <3>1. tree' \subseteq Edits
      BY <2>2 DEF ResetClean
    <3> QED BY <2>2, <3>1, HelperTypes DEF ResetClean, Handler
  <2> QED BY <2>1, <2>2
<1>10. CASE UNCHANGED vars
  BY <1>10 DEF vars
<1> QED
  BY <1>1, <1>2, <1>3, <1>4, <1>5, <1>6, <1>7, <1>8, <1>9, <1>10, <1>11
     DEF Next, HandlerStep

-----------------------------------------------------------------------------
(* Who works on which operation                                            *)

\* Steps that touch no operation, and no handler except to end it.
LEMMA HandlerQuiet ==
    ASSUME GitInv, UNCHANGED <<op, pushed>>,
           \A c \in Clients : req'[c].pc \in Verdict => req'[c] = req[c]
    PROVE  HandlerInv'
BY DEF GitInv, HandlerInv, Verdict, ConfirmPc

LEMMA HandlerStepInv == ~PhonesRace /\ GitInv /\ [Next]_vars => HandlerInv'
<1> SUFFICES ASSUME ~PhonesRace, GitInv, [Next]_vars PROVE HandlerInv'
  OBVIOUS
<1> USE DEF GitInv, TypeInv, Verdict, ConfirmPc, DiscardPc, Idle
<1>1. CASE \/ \E e \in Edits : TaskEdits(e)
           \/ \E e \in Foreign : OthersPush(e)
           \/ \E j \in Jobs : PrepareForTask(j)
           \/ DiskLost \/ Crash
  BY <1>1, HandlerQuiet, PrepareQuiet DEF TaskEdits, OthersPush, DiskLost, Crash
<1>2. ASSUME NEW c \in Clients,
             \/ Prepare(c) \/ PrepareStatus(c) \/ EnvRaises(c) \/ Escapes(c)
             \/ ResetCheck(c) \/ ResetCheckout(c) \/ ResetClean(c)
      PROVE  HandlerInv'
  <2>1. UNCHANGED <<op, pushed>>
    BY <1>2 DEF Prepare, PrepareStatus, EnvRaises, Escapes, ResetCheck,
                ResetCheckout, ResetClean
  <2>2. \A d \in Clients \ {c} : req'[d] = req[d]
    BY <1>2 DEF Prepare, PrepareStatus, EnvRaises, Escapes, ResetCheck,
                ResetCheckout, ResetClean, Goto, Return
  <2>3. req'[c].pc \notin Verdict
    <3>1. CASE Prepare(c)
      BY <3>1 DEF Prepare, Goto
    <3>2. CASE PrepareStatus(c)
      <4>1. CASE present
        BY <3>2, <4>1 DEF PrepareStatus
      <4>2. CASE ~present
        BY <3>2, <4>2 DEF PrepareStatus
      <4> QED BY <4>1, <4>2
    <3>3. CASE EnvRaises(c) \/ Escapes(c) \/ ResetCheck(c) \/ ResetCheckout(c) \/ ResetClean(c)
      BY <3>3 DEF EnvRaises, Escapes, ResetCheck,
                ResetCheckout, ResetClean, Return, Goto
    <3> QED BY <1>2, <3>1, <3>2, <3>3
  <2> QED BY <2>1, <2>2, <2>3, HandlerQuiet
<1>3. ASSUME NEW c \in Clients, NEW o \in Ops, PrepareCreate(c, o) PROVE HandlerInv'
  BY <1>3 DEF PrepareCreate, Return, HandlerInv
<1>4. ASSUME NEW c \in Clients, NEW o \in Ops, LoadPending(c, o) PROVE HandlerInv'
  <2>1. \A d \in Clients \ {c} : req[d].pc \in Verdict => req[d].op # o
    BY <1>4 DEF LoadPending, Unrivalled, HandlerInv
  <2>2. /\ \A d \in Clients \ {c} : req'[d] = req[d]
        /\ req'[c].op = o /\ req'[c].pc \in {"loaded", "rejecting"}
    BY <1>4 DEF LoadPending
  <2> QED BY <1>4, <2>1, <2>2 DEF LoadPending, HandlerInv
<1>5. ASSUME NEW c \in Clients, ConfirmRunning(c) PROVE HandlerInv'
  BY <1>5 DEF ConfirmRunning, SetStatus, Goto, HandlerInv
<1>6. ASSUME NEW c \in Clients, GitAdd(c) \/ GitCommit(c) PROVE HandlerInv'
  <2>1. /\ op' = op /\ pushed' = pushed /\ req[c].pc \in {"add", "commit"}
        /\ \A d \in Clients \ {c} : req'[d] = req[d]
    BY <1>6 DEF GitAdd, GitCommit, Goto, Fails
  <2>2. req'[c].op = req[c].op /\ req'[c].pc \in {"commit", "push", "failing"}
    BY <1>6 DEF GitAdd, GitCommit, Goto, Fails
  <2> QED BY <2>1, <2>2 DEF HandlerInv
<1>7. ASSUME NEW c \in Clients, GitPush(c) PROVE HandlerInv'
  <2>1. PICK o \in Ops : o = req[c].op
    BY <1>7 DEF GitPush, HandlerInv
  <2>2. /\ op' = op /\ op[o].status = "running" /\ req'[c].op = o
        /\ \A d \in Clients \ {c} :
              req'[d] = req[d] /\ (req[d].pc \in Verdict => req[d].op # o)
    BY <1>7, <2>1 DEF GitPush, Goto, Fails, HandlerInv
  <2>3. \/ req'[c].pc = "completing" /\ pushed' = pushed \cup {o}
        \/ req'[c].pc = "failing" /\ pushed' \in {pushed, pushed \cup {o}}
    BY <1>7, <2>1 DEF GitPush, Goto, Fails
  <2> QED BY <2>2, <2>3 DEF HandlerInv
<1>8. ASSUME NEW c \in Clients, Finish(c) \/ DiscardReject(c) PROVE HandlerInv'
  <2>1. PICK o \in Ops : o = req[c].op
    BY <1>8 DEF Finish, DiscardReject, HandlerInv
  <2>2. /\ \A d \in Clients \ {c} :
              req'[d] = req[d] /\ (req[d].pc \in Verdict => req[d].op # o)
        /\ req'[c].pc \notin Verdict /\ pushed' = pushed
    BY <1>8, <2>1 DEF Finish, DiscardReject, Goto, Return, HandlerInv
  <2>3. /\ \A q \in Ops \ {o} : op'[q] = op[q]
        /\ op'[o].status \in {"completed", "failed", "rejected"}
    BY <1>8, <2>1 DEF Finish, DiscardReject, SetStatus
  <2> QED BY <2>2, <2>3 DEF HandlerInv
<1>9. CASE UNCHANGED vars
  BY <1>9, HandlerQuiet DEF vars
<1> QED
  BY <1>1, <1>2, <1>3, <1>4, <1>5, <1>6, <1>7, <1>8, <1>9 DEF Next, HandlerStep

LEMMA GitInvariant == ASSUME ~PhonesRace PROVE Spec => []GitInv
<1>1. GitInv /\ [Next]_vars => GitInv'
  BY TypeStep, HandlerStepInv DEF GitInv
<1> QED BY <1>1, GitInitInv, PTL DEF Spec

-----------------------------------------------------------------------------
(* The refinement                                                          *)

LEMMA ReviewInit == Init => Review!Init
BY DEF Init, Review!Init

\* Every step of a handler is the step of the review that its status write or
\* its push stands for; all other steps leave the review alone.
LEMMA ReviewStep == GitInv /\ [Next]_vars => [Review!Next]_(Review!reviewVars)
<1> SUFFICES ASSUME GitInv, [Next]_vars PROVE [Review!Next]_(Review!reviewVars)
  OBVIOUS
<1> USE DEF GitInv, TypeInv, ConfirmPc, Review!reviewVars
<1>1. CASE UNCHANGED <<op, pushed>>
  BY <1>1
<1>2. ASSUME NEW c \in Clients, NEW o \in Ops, PrepareCreate(c, o) PROVE Review!Next
  BY <1>2 DEF PrepareCreate, Review!Next, Review!Offer, Review!Decide
<1>3. ASSUME NEW c \in Clients, ConfirmRunning(c) PROVE Review!Next
  <2>1. PICK o \in Ops : o = req[c].op /\ op[o].status = "pending_review"
    BY <1>3 DEF ConfirmRunning, HandlerInv, Verdict
  <2>2. Review!Confirm(o)
    BY <1>3, <2>1 DEF ConfirmRunning, SetStatus, Review!Confirm, Review!Decide
  <2> QED BY <2>1, <2>2 DEF Review!Next
<1>4. ASSUME NEW c \in Clients, DiscardReject(c) PROVE Review!Next
  <2>1. PICK o \in Ops : o = req[c].op /\ op[o].status = "pending_review"
    BY <1>4 DEF DiscardReject, HandlerInv, Verdict
  <2>2. Review!Discard(o)
    BY <1>4, <2>1 DEF DiscardReject, SetStatus, Review!Discard, Review!Decide
  <2> QED BY <2>1, <2>2 DEF Review!Next
<1>5. ASSUME NEW c \in Clients, GitPush(c), ~UNCHANGED pushed PROVE Review!Next
  <2>1. PICK o \in Ops :
            o = req[c].op /\ op[o].status = "running" /\ o \notin pushed
    BY <1>5 DEF GitPush, HandlerInv, Verdict
  <2>2. op' = op /\ pushed' = pushed \cup {o}
    BY <1>5, <2>1 DEF GitPush
  <2>3. Review!Push(o)
    BY <2>1, <2>2 DEF Review!Push
  <2> QED BY <2>3 DEF Review!Next
<1>6. ASSUME NEW c \in Clients, Finish(c) PROVE Review!Next
  <2>1. PICK o \in Ops : o = req[c].op /\ op[o].status = "running"
    BY <1>6 DEF Finish, HandlerInv, Verdict
  <2>2. CASE req[c].pc = "completing"
    <3>1. o \in pushed
      BY <2>1, <2>2 DEF HandlerInv
    <3>2. Review!Complete(o)
      BY <1>6, <2>1, <2>2, <3>1
         DEF Finish, SetStatus, Review!Complete, Review!Decide
    <3> QED BY <2>1, <3>2 DEF Review!Next
  <2>3. CASE req[c].pc = "failing"
    <3>1. Review!Fail(o)
      BY <1>6, <2>1, <2>3 DEF Finish, SetStatus, Review!Fail, Review!Decide
    <3> QED BY <2>1, <3>1 DEF Review!Next
  <2> QED BY <1>6, <2>2, <2>3 DEF Finish
<1>7. ASSUME NEW c \in Clients,
             \/ Prepare(c) \/ PrepareStatus(c) \/ GitAdd(c) \/ GitCommit(c)
             \/ EnvRaises(c) \/ Escapes(c) \/ ResetCheck(c) \/ ResetCheckout(c)
             \/ ResetClean(c)
             \/ \E o \in Ops : LoadPending(c, o)
      PROVE  UNCHANGED <<op, pushed>>
  BY <1>7 DEF Prepare, PrepareStatus, GitAdd, GitCommit, EnvRaises, Escapes, ResetCheck,
              ResetCheckout, ResetClean, LoadPending
<1>8. ASSUME NEW c \in Clients, GitPush(c) PROVE UNCHANGED op
  BY <1>8 DEF GitPush
<1>9. CASE \/ \E e \in Edits : TaskEdits(e)
           \/ \E e \in Foreign : OthersPush(e)
           \/ \E j \in Jobs : PrepareForTask(j)
           \/ DiskLost \/ Crash \/ UNCHANGED vars
  BY <1>9, PrepareQuiet DEF TaskEdits, OthersPush, DiskLost, Crash, vars
<1> QED
  BY <1>1, <1>2, <1>3, <1>4, <1>5, <1>6, <1>7, <1>8, <1>9 DEF Next, HandlerStep

\* As long as no two phones answer one review at the same moment, an
\* operation is answered once, pushed at most once and only after a
\* confirmation, and completed only if its push arrived (GitService).
THEOREM ReviewImplemented == ASSUME ~PhonesRace PROVE Spec => ImplementsReview
<1>1. Spec => []GitInv
  BY GitInvariant
<1> QED BY <1>1, ReviewInit, ReviewStep, PTL DEF Spec, ImplementsReview, Review!Spec

-----------------------------------------------------------------------------
(* No operation is forgotten                                               *)

\* Handlers that work on an operation still do so, and nothing starts to run.
LEMMA WorkQuiet ==
    ASSUME WorkInv,
           faults' \in Nat, faults' = 0 => faults = 0 /\ present',
           faults' = 0 => \A j \in Jobs : prep'[j] \notin {"clone", "cloning"},
           \A o \in Ops : op'[o].status = "running" => op[o].status = "running",
           faults' = 0 =>
              \A o \in Ops, c \in Clients :
                 /\ op'[o].status = "running" /\ req[c].op = o
                 /\ req[c].pc \in ConfirmPc
                 => req'[c].op = o /\ req'[c].pc \in ConfirmPc
    PROVE  WorkInv'
BY DEF WorkInv, RunningIsWorkedOn

LEMMA WorkStep == TypeInv /\ WorkInv /\ [Next]_vars => WorkInv'
<1> SUFFICES ASSUME TypeInv, WorkInv, [Next]_vars PROVE WorkInv'
  OBVIOUS
<1> USE DEF TypeInv, ConfirmPc, Idle
<1>1. CASE DiskLost \/ Crash \/ \E c \in Clients : EnvRaises(c)
  <2>1. faults' \in Nat /\ faults' # 0
    BY <1>1 DEF DiskLost, Crash, EnvRaises, WorkInv
  <2> QED BY <2>1 DEF WorkInv, RunningIsWorkedOn
<1>2. CASE \/ \E e \in Edits : TaskEdits(e)
           \/ \E e \in Foreign : OthersPush(e)
           \/ UNCHANGED vars
  BY <1>2, WorkQuiet DEF TaskEdits, OthersPush, vars, WorkInv, repo
<1>8. ASSUME NEW j \in Jobs, PrepareForTask(j) PROVE WorkInv'
  <2>1. faults' = faults /\ req' = req /\ op' = op
    BY <1>8, PrepareQuiet
  <2>2. ASSUME faults = 0
        PROVE  present' /\ \A k \in Jobs : prep'[k] \notin {"clone", "cloning"}
    <3>1. present /\ \A k \in Jobs : prep[k] \notin {"clone", "cloning"}
      BY <2>2 DEF WorkInv
    <3>2. PrepareCheck(j) \/ PrepareFails(j) \/ PrepareFetch(j) \/ IsClean(j) \/ Pull(j)
      BY <1>8, <3>1 DEF PrepareForTask, CloneStart, CloneDone, CloneFails
    <3> QED BY <3>1, <3>2 DEF PrepareCheck, PrepareFails, PrepareFetch, IsClean, Pull, PrepGoto,
               repo
  <2> QED BY <2>1, <2>2, WorkQuiet DEF WorkInv
<1>3. ASSUME NEW c \in Clients,
             \/ Prepare(c) \/ PrepareStatus(c) \/ ResetCheck(c) \/ ResetCheckout(c)
             \/ ResetClean(c)
             \/ \E o \in Ops : PrepareCreate(c, o) \/ LoadPending(c, o)
             \/ DiscardReject(c)
      PROVE  WorkInv'
  <2>1. faults' = faults /\ present' = present /\ prep' = prep /\ req[c].pc \notin ConfirmPc
    BY <1>3 DEF Prepare, PrepareStatus, ResetCheck, ResetCheckout, ResetClean, PrepareCreate,
                LoadPending, DiscardReject, repo
  <2>2. \A d \in Clients \ {c} : req'[d] = req[d]
    BY <1>3 DEF Prepare, PrepareStatus, ResetCheck, ResetCheckout, ResetClean, PrepareCreate,
                LoadPending, DiscardReject, Goto, Return
  <2>3. \A o \in Ops : op'[o].status = "running" => op[o].status = "running"
    BY <1>3 DEF Prepare, PrepareStatus, ResetCheck, ResetCheckout, ResetClean, PrepareCreate,
                LoadPending, DiscardReject, SetStatus
  <2> QED BY <2>1, <2>2, <2>3, WorkQuiet DEF WorkInv
<1>4. ASSUME NEW c \in Clients, ConfirmRunning(c) PROVE WorkInv'
  BY <1>4 DEF ConfirmRunning, SetStatus, Goto, repo, WorkInv, RunningIsWorkedOn
<1>5. ASSUME NEW c \in Clients, GitAdd(c) \/ GitCommit(c) \/ GitPush(c) PROVE WorkInv'
  <2>1. faults' = faults /\ present' = present /\ prep' = prep /\ op' = op
    BY <1>5 DEF GitAdd, GitCommit, GitPush
  <2>2. /\ \A d \in Clients \ {c} : req'[d] = req[d]
        /\ req'[c].op = req[c].op /\ req'[c].pc \in ConfirmPc
    BY <1>5 DEF GitAdd, GitCommit, GitPush, Goto, Fails
  <2> QED BY <2>1, <2>2, WorkQuiet DEF WorkInv
<1>6. ASSUME NEW c \in Clients, Finish(c) PROVE WorkInv'
  <2>1. faults' = faults /\ present' = present /\ prep' = prep
    BY <1>6 DEF Finish, repo
  <2>2. \A d \in Clients \ {c} : req'[d] = req[d]
    BY <1>6 DEF Finish, Return
  <2>3. \A o \in Ops : op'[o].status = "running" =>
            op[o].status = "running" /\ req[c].op # o
    BY <1>6 DEF Finish, SetStatus
  <2> QED BY <2>1, <2>2, <2>3, WorkQuiet DEF WorkInv
<1>7. ASSUME NEW c \in Clients, Escapes(c) PROVE WorkInv'
  <2>1. faults' = faults /\ present' = present /\ prep' = prep /\ op' = op /\ faults # 0
    BY <1>7 DEF Escapes, repo, WorkInv
  <2> QED BY <2>1, WorkQuiet DEF WorkInv
<1> QED
  BY <1>1, <1>2, <1>3, <1>4, <1>5, <1>6, <1>7, <1>8 DEF Next, HandlerStep

\* Unless the backend died or the disk was lost, a RUNNING operation has a
\* handler that will settle it, even when two phones race (confirm).
THEOREM RunningHasHandler == Spec => []RunningIsWorkedOn
<1>1. TypeInv /\ WorkInv /\ [Next]_vars => (TypeInv /\ WorkInv)'
  BY TypeStep, WorkStep
<1>2. Init => TypeInv /\ WorkInv
  BY GitInitInv DEF GitInv
<1>3. WorkInv => RunningIsWorkedOn
  BY DEF WorkInv
<1> QED BY <1>1, <1>2, <1>3, PTL DEF Spec

-----------------------------------------------------------------------------
(* The workspace                                                           *)

\* What the index, the tree and the reports of the resets may contain; what
\* the handlers have seen of it, and that those of a review have one.
WorkspaceInv ==
    /\ staged \subseteq tree /\ tree \subseteq made /\ dropped \subseteq made
    /\ local \subseteq Edits \cup Foreign /\ remote \subseteq Edits \cup Foreign
    /\ present \in BOOLEAN /\ cloned \in BOOLEAN /\ pushed \subseteq Ops /\ faults \in 0..MaxFaults
    /\ \A c \in Clients :
          req[c].seen \subseteq made /\ (req[c].pc \in Verdict => req[c].op \in Ops)

LEMMA WorkspaceStep == TypeInv /\ WorkspaceInv /\ [Next]_vars => WorkspaceInv'
<1> SUFFICES ASSUME TypeInv, WorkspaceInv, [Next]_vars PROVE WorkspaceInv'
  OBVIOUS
<1> USE GitAssumption DEF TypeInv, WorkspaceInv, Verdict, ConfirmPc, repo
<1>1. CASE (\E e \in Edits : TaskEdits(e)) \/ (\E e \in Foreign : OthersPush(e))
  BY <1>1 DEF TaskEdits, OthersPush
<1>2. CASE DiskLost
  <2>1. faults' \in 0..MaxFaults
    BY <1>2 DEF DiskLost
  <2> QED BY <1>2, <2>1 DEF DiskLost, Removed
<1>11. ASSUME NEW j \in Jobs, PrepareForTask(j) PROVE WorkspaceInv'
  <2>1. /\ staged' \subseteq tree' /\ tree' \subseteq made
        /\ local' \subseteq Edits \cup Foreign
        /\ present' \in BOOLEAN /\ cloned' \in BOOLEAN /\ remote' = remote
    BY <1>11, PrepareEffect DEF CloneDone, Removed
  <2> QED BY <1>11, <2>1, PrepareQuiet
<1>3. CASE Crash
  BY <1>3 DEF Crash, Idle
<1>4. ASSUME NEW c \in Clients,
             \/ Prepare(c) \/ PrepareStatus(c)
             \/ \E o \in Ops : PrepareCreate(c, o) \/ LoadPending(c, o)
      PROVE  WorkspaceInv'
  <2>1. CASE Prepare(c)
    BY <2>1 DEF Prepare, Goto
  <2>2. CASE PrepareStatus(c)
    <3>1. CASE present
      BY <2>2, <3>1 DEF PrepareStatus
    <3>2. CASE ~present
      BY <2>2, <3>2 DEF PrepareStatus, Idle
    <3> QED BY <3>1, <3>2
  <2>3. ASSUME NEW o \in Ops, PrepareCreate(c, o) \/ LoadPending(c, o) PROVE WorkspaceInv'
    <3>1. CASE PrepareCreate(c, o)
      BY <3>1 DEF PrepareCreate, Return, Idle
    <3>2. CASE LoadPending(c, o)
      BY <3>2 DEF LoadPending
    <3> QED BY <2>3, <3>1, <3>2
  <2> QED BY <1>4, <2>1, <2>2, <2>3
<1>5. ASSUME NEW c \in Clients, ConfirmRunning(c) \/ Finish(c) \/ EnvRaises(c) \/ Escapes(c)
      PROVE  WorkspaceInv'
  <2>1. CASE ConfirmRunning(c)
    BY <2>1 DEF ConfirmRunning, Goto
  <2>2. CASE Finish(c) \/ Escapes(c)
    BY <2>2 DEF Finish, Escapes, Return, Idle
  <2>3. CASE EnvRaises(c)
    BY <2>3 DEF EnvRaises, Return, Idle
  <2> QED BY <1>5, <2>1, <2>2, <2>3
<1>6. ASSUME NEW c \in Clients, GitAdd(c) \/ GitCommit(c) PROVE WorkspaceInv'
  BY <1>6 DEF GitAdd, GitCommit, Goto, Fails
<1>7. ASSUME NEW c \in Clients, GitPush(c) PROVE WorkspaceInv'
  BY <1>7 DEF GitPush, Goto, Fails
<1>8. ASSUME NEW c \in Clients, DiscardReject(c) \/ ResetCheck(c) PROVE WorkspaceInv'
  BY <1>8 DEF DiscardReject, ResetCheck, Goto, Return, Idle
<1>9. ASSUME NEW c \in Clients, ResetCheckout(c) \/ ResetClean(c) PROVE WorkspaceInv'
  BY <1>9 DEF ResetCheckout, ResetClean, Return, Idle
<1>10. CASE UNCHANGED vars
  BY <1>10 DEF vars
<1> QED
  BY <1>1, <1>2, <1>3, <1>4, <1>5, <1>6, <1>7, <1>8, <1>9, <1>10, <1>11 DEF Next, HandlerStep

\* The types, and with them that the index holds only what differs from HEAD
\* in the tree, and that a discard reports only edits of tasks (GitService,
\* reset_workspace).
THEOREM GitTypeCorrect == Spec => []GitTypeOK
<1>1. Init => TypeInv /\ WorkspaceInv
  BY GitInitInv, GitAssumption
     DEF GitInv, Init, WorkspaceInv, Idle, Verdict, ConfirmPc
<1>2. TypeInv /\ WorkspaceInv /\ [Next]_vars => (TypeInv /\ WorkspaceInv)'
  BY TypeStep, WorkspaceStep
<1>3. TypeInv /\ WorkspaceInv => GitTypeOK
  BY DEF TypeInv, WorkspaceInv, GitTypeOK
<1> QED BY <1>1, <1>2, <1>3, PTL DEF Spec

-----------------------------------------------------------------------------
(* No work is lost                                                         *)

\* Only a cloud workspace is reset.
ResetInv == \A c \in Clients : req[c].pc \in {"checkout", "clean"} => Cloud

LEMMA ResetStep == TypeInv /\ ResetInv /\ [Next]_vars => ResetInv'
<1> SUFFICES ASSUME TypeInv, ResetInv, [Next]_vars PROVE ResetInv'
  OBVIOUS
<1> USE DEF TypeInv, ResetInv, Idle, Goto, Return, Fails
<1>1. CASE \/ \E e \in Edits : TaskEdits(e)
           \/ \E e \in Foreign : OthersPush(e)
           \/ \E j \in Jobs : PrepareForTask(j)
           \/ DiskLost \/ Crash \/ UNCHANGED vars
  BY <1>1, PrepareQuiet DEF TaskEdits, OthersPush, DiskLost, Crash, vars
<1>2. ASSUME NEW c \in Clients,
             Prepare(c) \/ HandlerStep(c) \/ \E o \in Ops : LoadPending(c, o)
      PROVE  ResetInv'
  <2>1. \A d \in Clients \ {c} : req'[d] = req[d]
    BY <1>2 DEF Prepare, LoadPending, HandlerStep, PrepareStatus, PrepareCreate, ConfirmRunning,
                GitAdd, GitCommit, GitPush, Finish, EnvRaises, Escapes, DiscardReject,
                ResetCheck, ResetCheckout, ResetClean
  <2>2. req'[c].pc \in {"checkout", "clean"} => Cloud
    <3>1. CASE Prepare(c) \/ \E o \in Ops : LoadPending(c, o)
      BY <3>1 DEF Prepare, LoadPending
    <3>2. CASE PrepareStatus(c)
      <4>1. CASE present
        BY <3>2, <4>1 DEF PrepareStatus
      <4>2. CASE ~present
        BY <3>2, <4>2 DEF PrepareStatus
      <4> QED BY <4>1, <4>2
    <3>3. CASE (\E o \in Ops : PrepareCreate(c, o)) \/ Finish(c) \/ EnvRaises(c) \/ Escapes(c)
      BY <3>3 DEF PrepareCreate, Finish, EnvRaises, Escapes
    <3>4. CASE ConfirmRunning(c) \/ GitAdd(c) \/ GitCommit(c) \/ GitPush(c)
      BY <3>4 DEF ConfirmRunning, GitAdd, GitCommit, GitPush
    <3>5. CASE DiscardReject(c) \/ ResetCheck(c) \/ ResetCheckout(c) \/ ResetClean(c)
      BY <3>5 DEF DiscardReject, ResetCheck, ResetCheckout, ResetClean
    <3> QED BY <1>2, <3>1, <3>2, <3>3, <3>4, <3>5 DEF HandlerStep
  <2> QED BY <2>1, <2>2
<1> QED BY <1>1, <1>2 DEF Next

\* An uncommitted edit leaves the working tree only into a commit or by a discard
\* of a cloud workspace, unless the disk is lost or a clone fails that was making
\* the directory: fetching and pulling for the next task beside the tasks that
\* run, a failed commit or push and a second phone lose nothing.
THEOREM NothingLostSilently == Spec => NoSilentLoss
<1>1. Init => TypeInv /\ WorkspaceInv /\ ResetInv
  BY GitInitInv, GitAssumption
     DEF GitInv, Init, WorkspaceInv, ResetInv, Idle, Verdict, ConfirmPc
<1>2. TypeInv /\ WorkspaceInv /\ ResetInv /\ [Next]_vars => (TypeInv /\ WorkspaceInv /\ ResetInv)'
  BY TypeStep, WorkspaceStep, ResetStep
<1>3. WorkspaceInv /\ ResetInv /\ [Next]_vars =>
          [faults' = faults =>
              \A e \in tree \ tree' :
                  \/ e \in local'
                  \/ Cloud /\ \E c \in Clients : req[c].pc \in {"checkout", "clean"}
                  \/ LostWithClone]_vars
  <2> SUFFICES ASSUME WorkspaceInv, ResetInv, Next, faults' = faults, NEW e \in tree, e \notin tree'
               PROVE  \/ e \in local'
                      \/ Cloud /\ \E c \in Clients : req[c].pc \in {"checkout", "clean"}
                      \/ LostWithClone
    OBVIOUS
  <2>1. ASSUME NEW c \in Clients, GitCommit(c) PROVE e \in local'
    BY <2>1 DEF GitCommit
  <2>2. ASSUME NEW c \in Clients, ResetCheckout(c) \/ ResetClean(c)
        PROVE  Cloud /\ \E d \in Clients : req[d].pc \in {"checkout", "clean"}
    <3>1. req[c].pc \in {"checkout", "clean"}
      BY <2>2 DEF ResetCheckout, ResetClean
    <3> QED BY <3>1 DEF ResetInv
  <2>3. ~DiskLost
    BY GitAssumption DEF DiskLost, WorkspaceInv
  <2>4. CASE \/ \E x \in Edits : TaskEdits(x)
             \/ \E x \in Foreign : OthersPush(x)
             \/ Crash
    BY <2>4 DEF TaskEdits, OthersPush, Crash, repo
  <2>6. ASSUME NEW j \in Jobs, PrepareForTask(j) PROVE LostWithClone
    BY <2>6, PrepareEffect DEF CloneDone, Removed, LostWithClone
  <2>5. ASSUME NEW c \in Clients,
               \/ Prepare(c) \/ PrepareStatus(c) \/ ConfirmRunning(c) \/ GitAdd(c) \/ GitPush(c)
               \/ Finish(c) \/ EnvRaises(c) \/ Escapes(c) \/ DiscardReject(c)
               \/ ResetCheck(c)
               \/ \E o \in Ops : PrepareCreate(c, o) \/ LoadPending(c, o)
        PROVE  FALSE
    <3>1. tree' = tree
      BY <2>5 DEF Prepare, PrepareStatus, ConfirmRunning, GitAdd, GitPush, Finish, EnvRaises,
                  Escapes, DiscardReject, ResetCheck, PrepareCreate, LoadPending, repo
    <3> QED BY <3>1
  <2> QED BY <2>1, <2>2, <2>3, <2>4, <2>5, <2>6 DEF Next, HandlerStep
<1> QED BY <1>1, <1>2, <1>3, PTL DEF Spec, NoSilentLoss

=============================================================================
