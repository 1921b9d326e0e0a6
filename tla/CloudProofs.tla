------------------------------ MODULE CloudProofs ------------------------------
(***************************************************************************)
(* Proofs about the cloud repositories, for every number of connects,      *)
(* tasks and faults: the types, that connects that race insert a runner    *)
(* each and no more, and that what is listed has a HEAD.                   *)
(***************************************************************************)
EXTENDS CloudWorkspaces, FiniteSetTheorems, TLAPS

Later == {"idle", "look", "clone", "write", "run"} \cup Git \cup Drain
Worker == [pc : {"insert"} \cup Later, branch : BOOLEAN, runner : {0} \cup runners]

\* The connects that saw no runner and have not inserted one yet.
Inserting == {c \in Connects : At(c, "insert")}

\* A connect that is past the runner knows one.
RunnerKnown ==
    \A c \in Connects : work[c].pc \notin {"idle", "insert"} => work[c].runner \in runners

\* Runners are numbered as they come, and those who are about to insert one
\* count already: such a connect joins only while there is none.
RunnerInv ==
    /\ \E n \in Nat : runners = 1..n
    /\ Cardinality(runners) + Cardinality(Inserting) <= Cardinality(Connects)

CloudInv == CloudTypeOK /\ RunnerKnown /\ RunnerInv

LEMMA CloudInitInv == Init => CloudInv
<1> SUFFICES ASSUME Init PROVE CloudInv
  OBVIOUS
<1>1. CloudTypeOK /\ RunnerKnown
  <2>1. Idle \in Worker
    BY DEF Idle, Worker, Later
  <2>2. work \in [Workers -> Worker]
    BY <2>1 DEF Init
  <2>3. faults \in 0..MaxFaults
    BY CloudAssumption DEF Init
  <2> QED BY <2>2, <2>3 DEF Init, CloudTypeOK, Worker, Later, RunnerKnown, Idle, Workers
<1>2. runners = 1..0 /\ Inserting = {}
  BY DEF Init, Inserting, At, Idle, Workers
<1>3. Cardinality(runners) = 0 /\ Cardinality(Inserting) = 0
  BY <1>2, FS_EmptySet DEF Init
<1>4. Cardinality(Connects) \in Nat
  BY CloudAssumption, FS_CardinalityType
<1> QED BY <1>1, <1>2, <1>3, <1>4 DEF CloudInv, RunnerInv

-----------------------------------------------------------------------------
\* The count needs only that nobody joins those who insert, as long as there
\* are no new runners.
LEMMA CountQuiet ==
    ASSUME RunnerInv, runners' = runners, Inserting' \subseteq Inserting
    PROVE  RunnerInv'
<1>1. IsFiniteSet(Inserting)
  BY CloudAssumption, FS_Subset DEF Inserting
<1>2. Cardinality(Inserting') <= Cardinality(Inserting)
  BY <1>1, FS_Subset
<1>3. IsFiniteSet(Inserting')
  BY <1>1, FS_Subset
<1>4. \E n \in Nat : runners = 1..n
  BY DEF RunnerInv
<1>5. Cardinality(runners) \in Nat
  BY <1>4, FS_Interval
<1>6. /\ Cardinality(Inserting) \in Nat /\ Cardinality(Inserting') \in Nat
      /\ Cardinality(Connects) \in Nat
  BY <1>1, <1>3, CloudAssumption, FS_CardinalityType
<1>7. Cardinality(runners) + Cardinality(Inserting) <= Cardinality(Connects)
  BY DEF RunnerInv
<1>8. Cardinality(runners') + Cardinality(Inserting') <= Cardinality(Connects)
  BY <1>2, <1>5, <1>6, <1>7
<1> QED BY <1>4, <1>8 DEF RunnerInv

\* A worker that goes on with its git commands, or gives up.
Moves(w) ==
    /\ work[w].pc \notin {"idle", "insert"}
    /\ \/ work' = [work EXCEPT ![w] = Idle]
       \/ \E pc \in Later : Goto(w, pc)
       \/ UNCHANGED work

LEMMA MovesKeep ==
    ASSUME CloudInv, NEW w \in Workers, Moves(w), UNCHANGED <<runners, rows, faults>>,
           dir' \in {"absent", "unborn", "headed", "full"}, removed' \in BOOLEAN
    PROVE  CloudInv'
<1> USE DEF CloudInv, CloudTypeOK, Worker, Later, Git, Drain
<1>1. CASE work' = [work EXCEPT ![w] = Idle]
  <2>1. Idle \in Worker
    BY DEF Idle
  <2>2. CloudTypeOK' /\ RunnerKnown'
    BY <1>1, <2>1 DEF RunnerKnown, Idle, Workers
  <2>3. Inserting' \subseteq Inserting
    BY <1>1 DEF Inserting, At, Idle, Workers
  <2> QED BY <2>2, <2>3, CountQuiet
<1>2. ASSUME NEW pc \in Later, Goto(w, pc) PROVE CloudInv'
  <2>1. [work[w] EXCEPT !.pc = pc] \in Worker
    OBVIOUS
  <2>2. CloudTypeOK'
    BY <1>2, <2>1 DEF Goto
  <2>3. RunnerKnown'
    BY <1>2 DEF Goto, RunnerKnown, Workers, Moves
  <2>4. Inserting' \subseteq Inserting
    BY <1>2 DEF Goto, Inserting, At, Workers
  <2> QED BY <2>2, <2>3, <2>4, CountQuiet
<1>3. CASE UNCHANGED work
  <2>1. Inserting' \subseteq Inserting
    BY <1>3 DEF Inserting, At
  <2> QED BY <1>3, <2>1, CountQuiet DEF RunnerKnown
<1> QED BY <1>1, <1>2, <1>3 DEF Moves

\* Giving up, and going on after the workspace is up to date, are moves.
LEMMA GiveUpMoves ==
    ASSUME CloudInv, NEW w \in Workers, work[w].pc \notin {"idle", "insert"}
    PROVE  /\ GiveUp(w) => Moves(w)
           /\ Goto(w, Ready(w)) => Moves(w)
           /\ \A pc \in Later : Goto(w, pc) => Moves(w)
<1>1. CASE w \in Jobs
  BY <1>1 DEF GiveUp, Moves, Goto, Later, Git, Drain, Ready
<1>2. CASE w \notin Jobs
  BY <1>2 DEF GiveUp, Moves, Goto, Later, Git, Drain, Ready
<1> QED BY <1>1, <1>2

\* Every git command is a move, and leaves the directory in one of its states.
LEMMA WorkerStepKeeps ==
    ASSUME CloudInv, NEW w \in Workers, WorkerStep(w) \/ Drained(w)
    PROVE  CloudInv'
<1>1. dir \in {"absent", "unborn", "headed", "full"} /\ removed \in BOOLEAN
  BY DEF CloudInv, CloudTypeOK
<1>2. CASE \/ Look(w) \/ Fetch(w) \/ Status(w) \/ Pull(w)
           \/ GitFails(w) \/ Killed(w) \/ Drained(w) \/ SpawnFails(w)
  <2>1. UNCHANGED <<disk, runners, rows, faults>>
    BY <1>2 DEF Look, Fetch, Status, Pull, GitFails, Killed, Drained, SpawnFails
  <2>2. Moves(w)
    <3>1. CASE Look(w)
      BY <3>1, GiveUpMoves DEF Look, At, Later, Git, Drain
    <3>2. CASE Fetch(w)
      BY <3>2, GiveUpMoves DEF Fetch, At, Later, Git, Drain
    <3>3. CASE Status(w)
      BY <3>3, GiveUpMoves DEF Status, At, Later, Git, Drain
    <3>4. CASE Pull(w) \/ GitFails(w)
      BY <3>4, GiveUpMoves DEF Pull, GitFails, At
    <3>5. CASE SpawnFails(w)
      BY <3>5 DEF SpawnFails, Moves, Git
    <3>6. CASE Killed(w)
      <4>1. PICK pc \in Drain : Goto(w, pc)
        BY <3>6 DEF Killed, Drain
      <4> QED BY <3>6, <4>1, GiveUpMoves DEF Killed, Git, Later
    <3>7. CASE Drained(w)
      BY <3>7, GiveUpMoves DEF Drained, At, Later
    <3> QED BY <1>2, <3>1, <3>2, <3>3, <3>4, <3>5, <3>6, <3>7
  <2> QED BY <1>1, <2>1, <2>2, MovesKeep DEF disk
<1>3. CASE CloneStart(w) \/ CloneHead(w) \/ CloneEnd(w) \/ Checkout(w)
  <2>1. UNCHANGED <<runners, rows, faults>>
    BY <1>3 DEF CloneStart, CloneHead, CloneEnd, Checkout
  <2>2. dir' \in {"absent", "unborn", "headed", "full"} /\ removed' \in BOOLEAN
    BY <1>1, <1>3 DEF CloneStart, CloneHead, CloneEnd, Checkout
  <2>3. Moves(w)
    <3>1. CASE CloneStart(w)
      BY <3>1, GiveUpMoves DEF CloneStart, At, Later, Git, Drain
    <3>2. CASE CloneHead(w)
      BY <3>2 DEF CloneHead, At, Moves
    <3>3. CASE CloneEnd(w)
      BY <3>3, GiveUpMoves DEF CloneEnd, At
    <3>4. CASE Checkout(w)
      BY <3>4, GiveUpMoves DEF Checkout, At, Later, Git, Drain
    <3> QED BY <1>3, <3>1, <3>2, <3>3, <3>4
  <2> QED BY <2>1, <2>2, <2>3, MovesKeep
<1> QED BY <1>2, <1>3 DEF WorkerStep

-----------------------------------------------------------------------------
(* The runner                                                              *)

LEMMA FindRunnerKeeps ==
    ASSUME CloudInv, NEW c \in Connects, FindRunner(c)
    PROVE  CloudInv'
<1> USE DEF CloudInv, CloudTypeOK, Worker, Later, Git, Drain
<1>1. c \in Workers
  BY DEF Workers
<1>2. CASE runners = {}
  <2>1. PICK branch \in BOOLEAN :
            work' = [work EXCEPT ![c] = [Idle EXCEPT !.pc = "insert", !.branch = branch]]
    BY <1>2 DEF FindRunner
  <2>2. [Idle EXCEPT !.pc = "insert", !.branch = branch] \in Worker
    BY DEF Idle
  <2>3. CloudTypeOK' /\ RunnerKnown'
    BY <1>1, <2>1, <2>2 DEF FindRunner, disk, RunnerKnown, Workers
  <2>4. Cardinality(runners') = 0
    BY <1>2, FS_EmptySet DEF FindRunner
  <2>5. Cardinality(Inserting') <= Cardinality(Connects) /\ Cardinality(Inserting') \in Nat
    BY CloudAssumption, FS_Subset, FS_CardinalityType DEF Inserting
  <2>6. Cardinality(Connects) \in Nat
    BY CloudAssumption, FS_CardinalityType
  <2>7. \E n \in Nat : runners' = 1..n
    BY DEF RunnerInv, FindRunner
  <2>8. Cardinality(runners') + Cardinality(Inserting') <= Cardinality(Connects)
    BY <2>4, <2>5, <2>6
  <2>9. RunnerInv'
    BY <2>7, <2>8 DEF RunnerInv
  <2> QED BY <2>3, <2>9
<1>3. CASE runners # {}
  <2>1. PICK branch \in BOOLEAN, d \in runners :
            work' = [work EXCEPT ![c] =
                        [Idle EXCEPT !.pc = "look", !.branch = branch, !.runner = d]]
    BY <1>3 DEF FindRunner
  <2>2. [Idle EXCEPT !.pc = "look", !.branch = branch, !.runner = d] \in Worker
    BY DEF Idle
  <2>3. CloudTypeOK' /\ RunnerKnown'
    BY <1>1, <2>1, <2>2 DEF FindRunner, disk, RunnerKnown, Workers, Idle
  <2>4. Inserting' \subseteq Inserting
    BY <1>1, <2>1 DEF Inserting, At, Workers
  <2> QED BY <2>3, <2>4, CountQuiet DEF FindRunner
<1> QED BY <1>2, <1>3

LEMMA InsertRunnerKeeps ==
    ASSUME CloudInv, NEW c \in Connects, InsertRunner(c)
    PROVE  CloudInv'
<1> USE DEF CloudInv, CloudTypeOK
<1> DEFINE new == Cardinality(runners) + 1
<1>1. PICK n \in Nat : runners = 1..n
  BY DEF RunnerInv
<1>2. IsFiniteSet(runners) /\ Cardinality(runners) = n
  BY <1>1, FS_Interval
<1>3. new \in Nat /\ new = n + 1 /\ new \notin runners
  BY <1>1, <1>2
<1>4. /\ runners' = 1..(n + 1)
      /\ work' = [work EXCEPT ![c].pc = "look", ![c].runner = new]
      /\ c \in Workers /\ At(c, "insert")
  BY <1>1, <1>3 DEF InsertRunner, Workers
<1>5. Cardinality(runners') = n + 1
  <2> HIDE DEF CloudInv, CloudTypeOK
  <2>1. Cardinality(1..(n + 1)) = n + 1
    BY <1>1, FS_Interval
  <2> QED BY <1>4, <2>1
<1>6. CloudTypeOK'
  <2>1. [work[c] EXCEPT !.pc = "look", !.runner = new] \in Worker'
    BY <1>3, <1>4 DEF Worker, Later, Git, Drain, InsertRunner
  <2>2. Worker \subseteq Worker'
    BY <1>1, <1>4 DEF Worker
  <2>3. work' \in [Workers -> Worker']
    BY <1>4, <2>1, <2>2 DEF Worker, Later, Git, Drain
  <2>4. runners' \subseteq Nat /\ rows' \subseteq runners'
    BY <1>1, <1>4 DEF InsertRunner
  <2> QED BY <2>3, <2>4 DEF InsertRunner, disk, Worker, Later, Git, Drain
<1>7. RunnerKnown'
  BY <1>1, <1>3, <1>4 DEF RunnerKnown, InsertRunner, Workers
<1>8. Inserting' = Inserting \ {c} /\ c \in Inserting
  BY <1>4 DEF Inserting, At, Workers
<1>9. IsFiniteSet(Inserting)
  BY CloudAssumption, FS_Subset DEF Inserting
<1>10. Cardinality(Inserting') = Cardinality(Inserting) - 1
  BY <1>8, <1>9, FS_RemoveElement
<1>11. /\ Cardinality(Inserting) \in Nat /\ Cardinality(Connects) \in Nat
       /\ Cardinality(runners) + Cardinality(Inserting) <= Cardinality(Connects)
  BY <1>9, CloudAssumption, FS_CardinalityType DEF RunnerInv
<1>12. RunnerInv'
  BY <1>2, <1>4, <1>5, <1>10, <1>11 DEF RunnerInv
<1> QED BY <1>6, <1>7, <1>12

-----------------------------------------------------------------------------
LEMMA CloudStep == CloudInv /\ [Next]_vars => CloudInv'
<1> SUFFICES ASSUME CloudInv, [Next]_vars PROVE CloudInv'
  OBVIOUS
<1> USE DEF CloudInv
<1>1. ASSUME NEW c \in Connects, FindRunner(c) \/ InsertRunner(c) PROVE CloudInv'
  BY <1>1, FindRunnerKeeps, InsertRunnerKeeps
<1>2. ASSUME NEW w \in Workers, WorkerStep(w) \/ Drained(w) PROVE CloudInv'
  BY <1>2, WorkerStepKeeps
<1>3. ASSUME NEW c \in Connects, ReadHead(c) \/ ReadDefault(c) PROVE CloudInv'
  <2>1. Moves(c) /\ c \in Workers
    BY <1>3, GiveUpMoves DEF ReadHead, ReadDefault, At, Later, Git, Workers
  <2> QED BY <1>3, <2>1, MovesKeep DEF ReadHead, ReadDefault, disk, CloudTypeOK
<1>4. ASSUME NEW c \in Connects, WriteRow(c) PROVE CloudInv'
  <2>1. c \in Workers /\ work' = [work EXCEPT ![c] = Idle]
    BY <1>4 DEF WriteRow, Workers
  <2>2. rows' \subseteq runners'
    BY <1>4 DEF WriteRow, At, RunnerKnown, CloudTypeOK
  <2>3. Idle \in Worker
    BY DEF Idle, Worker, Later
  <2>4. CloudTypeOK' /\ RunnerKnown'
    BY <1>4, <2>1, <2>2, <2>3
       DEF WriteRow, CloudTypeOK, Worker, Later, disk, RunnerKnown, Idle, Workers
  <2>5. Inserting' \subseteq Inserting
    BY <2>1 DEF Inserting, At, Idle, CloudTypeOK
  <2> QED BY <1>4, <2>4, <2>5, CountQuiet DEF WriteRow
<1>5. ASSUME NEW j \in Jobs, PrepareStart(j) PROVE CloudInv'
  <2>1. j \in Workers /\ j \notin Connects /\ work' = [work EXCEPT ![j].pc = "look"]
    BY <1>5, CloudAssumption DEF PrepareStart, Goto, Workers
  <2>2. [work[j] EXCEPT !.pc = "look"] \in Worker
    BY <2>1 DEF CloudTypeOK, Worker, Later
  <2>3. CloudTypeOK' /\ RunnerKnown'
    BY <1>5, <2>1, <2>2
       DEF PrepareStart, CloudTypeOK, Worker, Later, disk, RunnerKnown, Workers
  <2>4. Inserting' \subseteq Inserting
    BY <2>1 DEF Inserting, At, CloudTypeOK, Workers
  <2> QED BY <1>5, <2>3, <2>4, CountQuiet DEF PrepareStart
<1>6. ASSUME NEW j \in Jobs, RunEnds(j) PROVE CloudInv'
  <2>1. Moves(j) /\ j \in Workers
    BY <1>6 DEF RunEnds, At, Moves, Workers
  <2> QED BY <1>6, <2>1, MovesKeep DEF RunEnds, disk, CloudTypeOK
<1>7. CASE Crash
  <2>1. work' = [w \in Workers |-> Idle] /\ faults' \in 0..MaxFaults
    BY <1>7, CloudAssumption DEF Crash, CloudTypeOK
  <2>2. Idle \in Worker
    BY DEF Idle, Worker, Later
  <2>3. work' \in [Workers -> Worker]
    BY <2>1, <2>2
  <2>4. dir' \in {"absent", "unborn", "headed", "full"} /\ removed' \in BOOLEAN
    BY <1>7 DEF Crash, CloudTypeOK
  <2>5. UNCHANGED <<runners, rows>>
    BY <1>7 DEF Crash
  <2>6. CloudTypeOK'
    BY <2>1, <2>3, <2>4, <2>5 DEF CloudTypeOK, Worker, Later
  <2>7. RunnerKnown'
    BY <2>1 DEF RunnerKnown, Idle, Workers
  <2>8. Inserting' \subseteq Inserting
    BY <2>1 DEF Inserting, At, Idle, Workers
  <2> QED BY <2>5, <2>6, <2>7, <2>8, CountQuiet
<1>8. CASE UNCHANGED vars
  <2>1. Inserting' \subseteq Inserting
    BY <1>8 DEF vars, Inserting, At
  <2> QED BY <1>8, <2>1, CountQuiet DEF vars, CloudTypeOK, RunnerKnown
<1> QED
  BY <1>1, <1>2, <1>3, <1>4, <1>5, <1>6, <1>7, <1>8 DEF Next, ConnectStep, Workers

LEMMA CloudInvariant == Spec => []CloudInv
BY CloudInitInv, CloudStep, PTL DEF Spec

\* The types, and with them that a listed repository belongs to a runner
\* that exists (connect_repository).
THEOREM CloudTypeCorrect == Spec => []CloudTypeOK
<1>1. CloudInv => CloudTypeOK
  BY DEF CloudInv
<1> QED BY <1>1, CloudInvariant, PTL

\* However many requests connect at once, and whatever crashes and git do,
\* there are never more runners than that (ensure_runner_device).
THEOREM RunnersStayBounded == Spec => []RunnersBounded
<1>1. CloudInv => RunnersBounded
  <2> SUFFICES ASSUME CloudInv PROVE RunnersBounded
    OBVIOUS
  <2>1. IsFiniteSet(Inserting)
    BY CloudAssumption, FS_Subset DEF Inserting
  <2>2. PICK n \in Nat : runners = 1..n
    BY DEF CloudInv, RunnerInv
  <2>3. /\ Cardinality(Inserting) \in Nat /\ Cardinality(Connects) \in Nat
        /\ Cardinality(runners) \in Nat
    BY <2>1, <2>2, FS_Interval, CloudAssumption, FS_CardinalityType
  <2> QED BY <2>3 DEF CloudInv, RunnerInv, RunnersBounded
<1> QED BY <1>1, CloudInvariant, PTL


-----------------------------------------------------------------------------
(* The HEAD of a listed repository                                         *)

\* The repository is listed, or a connect has read its HEAD and will list it.
Promising == {"default", "drainDefault", "write"}
Promised == rows # {} \/ \E c \in Connects : work[c].pc \in Promising

\* From the moment that a connect has read HEAD there is one, until the
\* directory is removed.
HeadInv == Promised /\ ~removed => dir \in {"headed", "full"}

\* Git commands promise nothing: nobody comes to the row through one.
LEMMA GitPromisesNothing ==
    ASSUME CloudInv, NEW w \in Workers, WorkerStep(w) \/ Drained(w), Promised'
    PROVE  Promised
<1> USE DEF CloudInv, CloudTypeOK, At, Goto
<1>1. UNCHANGED rows
  BY DEF WorkerStep, Look, CloneStart, CloneHead, CloneEnd, Fetch, Checkout, Status, Pull,
         GitFails, Killed, Drained, SpawnFails, disk
<1>2. ASSUME NEW c \in Connects, work'[c].pc \in Promising PROVE work[c].pc \in Promising
  <2> USE DEF Workers, Ready, GiveUp, Idle, Promising
  <2>1. CASE Look(w) \/ CloneStart(w) \/ Fetch(w)
    BY <1>2, <2>1 DEF Look, CloneStart, Fetch
  <2>2. CASE CloneHead(w) \/ CloneEnd(w)
    BY <1>2, <2>2 DEF CloneHead, CloneEnd
  <2>3. CASE Checkout(w) \/ Status(w) \/ Pull(w)
    BY <1>2, <2>3 DEF Checkout, Status, Pull
  <2>4. CASE GitFails(w) \/ SpawnFails(w)
    BY <1>2, <2>4 DEF GitFails, SpawnFails
  <2>5. CASE Killed(w) \/ Drained(w)
    BY <1>2, <2>5 DEF Killed, Drained
  <2> QED BY <2>1, <2>2, <2>3, <2>4, <2>5 DEF WorkerStep
<1> QED BY <1>1, <1>2 DEF Promised

\* What they do to the directory keeps its HEAD, or removes it and says so.
LEMMA GitKeepsHead ==
    ASSUME CloudInv, HeadInv, NEW w \in Workers, WorkerStep(w) \/ Drained(w)
    PROVE  HeadInv'
<1>1. Promised' => Promised
  BY GitPromisesNothing
<1>2. ~removed' /\ dir \in {"headed", "full"} => ~removed /\ dir' \in {"headed", "full"}
  BY DEF WorkerStep, Look, CloneStart, CloneHead, CloneEnd, Fetch, Checkout, Status, Pull,
         GitFails, Killed, Drained, SpawnFails, disk
<1>3. removed => removed'
  BY DEF WorkerStep, Look, CloneStart, CloneHead, CloneEnd, Fetch, Checkout, Status, Pull,
         GitFails, Killed, Drained, SpawnFails, disk
<1> QED BY <1>1, <1>2, <1>3 DEF HeadInv

LEMMA HeadStep == CloudInv /\ HeadInv /\ [Next]_vars => HeadInv'
<1> SUFFICES ASSUME CloudInv, HeadInv, [Next]_vars PROVE HeadInv'
  OBVIOUS
<1> USE DEF CloudInv, CloudTypeOK, Promised, Promising, At, Workers
<1>1. ASSUME NEW w \in Workers, WorkerStep(w) \/ Drained(w) PROVE HeadInv'
  BY <1>1, GitKeepsHead
<1>2. ASSUME NEW c \in Connects, FindRunner(c) \/ InsertRunner(c) PROVE HeadInv'
  BY <1>2 DEF HeadInv, FindRunner, InsertRunner, disk, Idle
<1>3. ASSUME NEW c \in Connects, ReadHead(c) PROVE HeadInv'
  BY <1>3 DEF HeadInv, ReadHead, Goto, disk
<1>8. ASSUME NEW c \in Connects, ReadDefault(c) PROVE HeadInv'
  BY <1>8 DEF HeadInv, ReadDefault, Goto, disk
<1>4. ASSUME NEW c \in Connects, WriteRow(c) PROVE HeadInv'
  <2>1. Promised
    BY <1>4 DEF WriteRow
  <2> QED BY <1>4, <2>1 DEF HeadInv, WriteRow, disk
<1>5. ASSUME NEW j \in Jobs, PrepareStart(j) \/ RunEnds(j) PROVE HeadInv'
  BY <1>5 DEF HeadInv, PrepareStart, RunEnds, Goto, disk, Idle
<1>6. CASE Crash
  <2>1. Promised' => Promised
    BY <1>6 DEF Crash, Idle
  <2>2. CASE UNCHANGED <<dir, removed>>
    BY <2>1, <2>2 DEF HeadInv
  <2>3. CASE removed' = (removed \/ dir \in {"headed", "full"})
    BY <2>1, <2>3 DEF HeadInv
  <2> QED BY <1>6, <2>2, <2>3 DEF Crash
<1>7. CASE UNCHANGED vars
  BY <1>7 DEF HeadInv, vars
<1> QED BY <1>1, <1>2, <1>3, <1>4, <1>5, <1>6, <1>7, <1>8 DEF Next, ConnectStep

\* A repository that is listed has a HEAD, however many connects, tasks and
\* clones that fail or are killed work on its one directory: what a request
\* lists it has read there (connect_repository).
THEOREM ListedStaysHeaded == Spec => []ListedHasHead
<1>1. Init => HeadInv
  BY DEF Init, HeadInv, Promised, Promising, Idle, Workers
<1>2. HeadInv => ListedHasHead
  BY DEF HeadInv, Promised, ListedHasHead
<1> QED BY <1>1, <1>2, HeadStep, CloudInvariant, PTL DEF Spec

=============================================================================
