---------------------------- MODULE CloudWorkspaces ----------------------------
(***************************************************************************)
(* Cloud repositories: connect_repository, which clones a repository onto  *)
(* the server and lists it under the synthetic runner device, and the      *)
(* preparation of its workspace before a task.  One user and one           *)
(* repository; requests and tasks work on its directory at once, without a *)
(* lock.                                                                   *)
(*                                                                         *)
(* One action is one git subprocess or one committed transaction.  A git   *)
(* process that is killed at its timeout is gone, but its handler goes on  *)
(* only when nobody holds the process' pipes any more (ManagedSubprocess). *)
(*                                                                         *)
(* The directory is "absent", "unborn" (.git is there, HEAD names no       *)
(* commit), "headed" (HEAD is set, the files are being checked out) or     *)
(* "full".  A clone goes through them in this order; a killed one stays    *)
(* where it is.                                                            *)
(***************************************************************************)
EXTENDS Naturals, FiniteSets

CONSTANTS
    Connects,       \* handlers of POST /repos/github/connect
    Jobs,           \* tasks that prepare the workspace
    MaxFaults       \* bound: how often the backend dies

ASSUME CloudAssumption ==
    /\ Connects \cap Jobs = {} /\ IsFiniteSet(Connects)
    /\ MaxFaults \in Nat

VARIABLES
    dir,            \* the workspace on the disk
    runners,        \* rows of devices with platform "cloud"
    rows,           \* the runners under which the repository is listed
    work,           \* the connect handlers and the preparing tasks
    removed,        \* a workspace with a HEAD has been removed from the disk
    faults

vars == <<dir, runners, rows, work, removed, faults>>
disk == <<dir, removed>>

Workers == Connects \cup Jobs
Git == {"fetch", "checkout", "status", "pull", "cloning", "head", "default"}
Drain == {"drain", "drainPull", "drainDefault"}
Idle == [pc |-> "idle", branch |-> FALSE, runner |-> 0]

\* Types.
CloudTypeOK ==
    /\ dir \in {"absent", "unborn", "headed", "full"}
    /\ runners \subseteq Nat /\ rows \subseteq runners
    /\ work \in [Workers -> [pc : {"idle", "insert", "look", "clone", "write", "run"} \cup Git \cup Drain,
                             branch : BOOLEAN, runner : {0} \cup runners]]
    /\ removed \in BOOLEAN /\ faults \in 0..MaxFaults

Init ==
    /\ dir = "absent" /\ removed = FALSE
    /\ runners = {} /\ rows = {}
    /\ work = [w \in Workers |-> Idle]
    /\ faults = 0

At(w, pc) == work[w].pc = pc
Goto(w, pc) == work' = [work EXCEPT ![w].pc = pc]

\* A failed git command is the failure of the request; a task starts anyway
\* and only logs it.
GiveUp(w) == work' = [work EXCEPT ![w] = IF w \in Jobs THEN [@ EXCEPT !.pc = "run"] ELSE Idle]

\* What follows a workspace that is up to date: a request reads its branch.
Ready(w) == IF w \in Jobs THEN "run" ELSE "head"

-----------------------------------------------------------------------------
(* The runner device                                                       *)

\* Mutant: the runner is inserted without a look at those there are.
FindRunnerNone(c) ==
    /\ At(c, "idle")
    /\ \E branch \in BOOLEAN :
        work' = [work EXCEPT ![c] = [Idle EXCEPT !.pc = "insert", !.branch = branch]]
    /\ UNCHANGED <<disk, runners, rows, faults>>

\* ensure_runner_device selects the device of the platform; with several
\* rows it takes any one.
FindRunner(c) ==
    /\ At(c, "idle")
    /\ \E branch \in BOOLEAN :
        \/ /\ runners = {}
           /\ work' = [work EXCEPT ![c] = [Idle EXCEPT !.pc = "insert", !.branch = branch]]
        \/ \E d \in runners :
             work' = [work EXCEPT ![c] =
                 [Idle EXCEPT !.pc = "look", !.branch = branch, !.runner = d]]
    /\ UNCHANGED <<disk, runners, rows, faults>>

\* It saw none and inserts one.  Nothing makes the platform unique.
InsertRunner(c) ==
    /\ At(c, "insert")
    /\ LET new == Cardinality(runners) + 1 IN
        /\ runners' = runners \cup {new}
        /\ work' = [work EXCEPT ![c].pc = "look", ![c].runner = new]
    /\ UNCHANGED <<disk, rows, faults>>

-----------------------------------------------------------------------------
(* The workspace                                                           *)

\* prepare_for_task of a repository that is listed.
PrepareStart(j) ==
    /\ At(j, "idle") /\ rows # {}
    /\ Goto(j, "look")
    /\ UNCHANGED <<disk, runners, rows, faults>>

\* Is there a .git directory?
Look(w) ==
    /\ At(w, "look")
    /\ Goto(w, IF dir = "absent" THEN "clone" ELSE "fetch")
    /\ UNCHANGED <<disk, runners, rows, faults>>

\* Mutant: the clone waits for the directory to go.
CloneStartWaits(w) ==
    /\ At(w, "clone") /\ dir = "absent"
    /\ dir' = "unborn"
    /\ Goto(w, "cloning")
    /\ UNCHANGED <<removed, runners, rows, faults>>

\* git clone makes the directory, and refuses one that is not empty.
CloneStart(w) ==
    /\ At(w, "clone")
    /\ IF dir = "absent"
       THEN dir' = "unborn" /\ Goto(w, "cloning")
       ELSE GiveUp(w) /\ UNCHANGED dir
    /\ UNCHANGED <<removed, runners, rows, faults>>

\* It has fetched everything and sets HEAD.
CloneHead(w) ==
    /\ At(w, "cloning") /\ dir = "unborn"
    /\ dir' = "headed"
    /\ UNCHANGED <<removed, runners, rows, work, faults>>

\* A clone succeeds, or fails on its own and takes away what it made.
CloneEnd(w) ==
    /\ At(w, "cloning")
    /\ \/ /\ dir # "unborn" /\ dir' = "full" /\ Goto(w, Ready(w)) /\ UNCHANGED removed
       \/ /\ dir' = "absent" /\ GiveUp(w)
          /\ removed' = (removed \/ dir # "unborn")
    /\ UNCHANGED <<runners, rows, faults>>

\* git fetch --prune origin, in the directory that is there.  A task stays
\* on its branch.
Fetch(w) ==
    /\ At(w, "fetch") /\ dir # "absent"
    /\ Goto(w, IF work[w].branch THEN "checkout" ELSE "status")
    /\ UNCHANGED <<disk, runners, rows, faults>>

\* git checkout of the branch, if need be made from origin, gives an unborn
\* HEAD a branch.  The lock a clone holds, or left, on the index refuses it.
Checkout(w) ==
    /\ At(w, "checkout") /\ dir \in {"unborn", "full"}
    /\ dir' = "full"
    /\ Goto(w, "status")
    /\ UNCHANGED <<removed, runners, rows, faults>>

\* git status --porcelain: a clean tree is pulled, a dirty one, as after half
\* a checkout, left alone.
Status(w) ==
    /\ At(w, "status") /\ dir # "absent"
    /\ \/ dir # "headed" /\ Goto(w, "pull")
       \/ dir # "unborn" /\ Goto(w, Ready(w))
    /\ UNCHANGED <<disk, runners, rows, faults>>

\* git pull --ff-only: what goes wrong is only logged.
Pull(w) ==
    /\ At(w, "pull") /\ dir # "absent"
    /\ Goto(w, Ready(w))
    /\ UNCHANGED <<disk, runners, rows, faults>>

\* A git command fails.
GitFails(w) ==
    /\ work[w].pc \in {"fetch", "checkout", "status", "head"} /\ dir # "absent"
    /\ GiveUp(w)
    /\ UNCHANGED <<disk, runners, rows, faults>>

\* A git command is killed at its timeout, and leaves what it has, as a clone
\* its half-made directory.
Killed(w) ==
    /\ work[w].pc \in Git
    /\ Goto(w, CASE At(w, "pull") -> "drainPull"
                 [] At(w, "default") -> "drainDefault"
                 [] OTHER -> "drain")
    /\ UNCHANGED <<disk, runners, rows, faults>>

\* Its pipes are closed, also by the helpers it has started, which nobody
\* kills; only then the handler goes on.
Drained(w) ==
    /\ \/ At(w, "drain") /\ GiveUp(w)
       \/ At(w, "drainPull") /\ Goto(w, Ready(w))
       \/ At(w, "drainDefault") /\ Goto(w, "write")
    /\ UNCHANGED <<disk, runners, rows, faults>>

\* Without the directory the process does not start, an error nobody catches:
\* the request, or the task, fails.
SpawnFails(w) ==
    /\ work[w].pc \in Git \ {"cloning"} /\ dir = "absent"
    /\ work' = [work EXCEPT ![w] = Idle]
    /\ UNCHANGED <<disk, runners, rows, faults>>

\* The task is over.
RunEnds(j) ==
    /\ At(j, "run")
    /\ work' = [work EXCEPT ![j] = Idle]
    /\ UNCHANGED <<disk, runners, rows, faults>>

-----------------------------------------------------------------------------
(* The row of the repository                                               *)

\* Mutant: an unborn HEAD passes for the branch "HEAD".
ReadHeadUnborn(c) ==
    /\ At(c, "head")
    /\ Goto(c, "default")
    /\ UNCHANGED <<disk, runners, rows, faults>>

\* git rev-parse --abbrev-ref HEAD fails while HEAD is unborn.
ReadHead(c) ==
    /\ At(c, "head") /\ dir \in {"headed", "full"}
    /\ Goto(c, "default")
    /\ UNCHANGED <<disk, runners, rows, faults>>

\* git symbolic-ref: without an answer the branch just read is the default.
ReadDefault(c) ==
    /\ At(c, "default") /\ dir # "absent"
    /\ Goto(c, "write")
    /\ UNCHANGED <<disk, runners, rows, faults>>

\* The row is updated, or inserted unless another request was first: then
\* the unique constraint fails the request.
WriteRow(c) ==
    /\ At(c, "write")
    /\ rows' = rows \cup {work[c].runner}
    /\ work' = [work EXCEPT ![c] = Idle]
    /\ UNCHANGED <<disk, runners, faults>>

-----------------------------------------------------------------------------
\* The backend dies with its git processes; an ephemeral disk goes with it.
Crash ==
    /\ faults < MaxFaults
    /\ faults' = faults + 1
    /\ \/ dir' = "absent" /\ removed' = (removed \/ dir \in {"headed", "full"})
       \/ UNCHANGED <<dir, removed>>
    /\ work' = [w \in Workers |-> Idle]
    /\ UNCHANGED <<runners, rows>>

WorkerStep(w) ==
    \/ Look(w) \/ CloneStart(w) \/ CloneHead(w) \/ CloneEnd(w)
    \/ Fetch(w) \/ Checkout(w) \/ Status(w) \/ Pull(w)
    \/ GitFails(w) \/ Killed(w) \/ SpawnFails(w)

ConnectStep(c) ==
    InsertRunner(c) \/ WorkerStep(c) \/ ReadHead(c) \/ ReadDefault(c) \/ WriteRow(c)

Next ==
    \/ \E c \in Connects : FindRunner(c) \/ ConnectStep(c)
    \/ \E j \in Jobs : PrepareStart(j) \/ WorkerStep(j) \/ RunEnds(j)
    \/ \E w \in Workers : Drained(w)
    \/ Crash

Spec == Init /\ [][Next]_vars

\* Every git command ends or is killed at its timeout (60, 120 or 600 seconds)
\* and a database statement has an answer: the handlers run on.  But nothing
\* makes the helpers of a killed git command close its pipes, and nothing makes
\* anyone start a request.
FairSpec == Spec /\ \A c \in Connects : WF_vars(ConnectStep(c))

-----------------------------------------------------------------------------
(* Properties                                                              *)

\* A repository that is listed has a HEAD: the empty beginnings of a clone,
\* of a request still running or of one that was killed, are never offered
\* to a task.  Only a lost disk, or a failing clone that takes the directory
\* of a faster request with it, removes the workspace from under the row.
ListedHasHead == rows # {} /\ ~removed => dir \in {"headed", "full"}

\* First connects that race insert a runner each, but no later one does:
\* there are never more runners than connects that ran at once.
RunnersBounded == Cardinality(runners) <= Cardinality(Connects)

\* "The synthetic device representing this server for the given user", one per
\* user in the docs: not so, and workspaces_twins shows two connects that race.
OneRunner == Cardinality(runners) <= 1

\* A connect that is never answered waits for the pipes of a git command that
\* was killed at its timeout, which has no bound: nothing else holds it, not the
\* requests and tasks beside it in the same directory, nor the remains of those
\* that failed or were killed.
ConnectEnds ==
    \A c \in Connects :
        <>[]~At(c, "idle") => <>[](work[c].pc \in Drain)

=============================================================================
