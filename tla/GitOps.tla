-------------------------------- MODULE GitOps --------------------------------
(***************************************************************************)
(* Commit and push from the phone: GitService's prepare, confirm and       *)
(* discard, and CloudRepoService's hooks, on the one working tree that the *)
(* tasks of a repository share.  One action is one git subprocess or one   *)
(* committed transaction.                                                  *)
(*                                                                         *)
(* The working tree is the set of its uncommitted edits, those of them in  *)
(* the index, and the edits that HEAD and the branch on origin contain.    *)
(***************************************************************************)
EXTENDS Naturals

CONSTANTS
    Ops,            \* rows of git_operations
    NoOp,           \* null value
    Clients,        \* request handlers that can be in flight at once
    Jobs,           \* jobs that can prepare the workspace at once
    Edits,          \* what the tasks change in the repository
    NewFiles,       \* the edits that create a file
    Foreign,        \* what others push to the branch on origin
    Cloud,          \* the repository is a cloud workspace
    PhonesRace,     \* two phones answer one review at the same moment
    MaxFaults       \* bound: how often the backend dies, the disk is lost or
                    \* the stored token cannot be decrypted

ASSUME GitAssumption ==
    /\ NoOp \notin Ops
    /\ NewFiles \subseteq Edits /\ Edits \cap Foreign = {}
    /\ Cloud \in BOOLEAN /\ PhonesRace \in BOOLEAN /\ MaxFaults \in Nat

VARIABLES
    op,             \* status and status_output of each operation
    req,            \* the handlers
    prep,           \* how far each job is in prepare_for_task
    made,           \* edits some task has made so far
    tree, staged,   \* uncommitted edits; those in the index
    local, remote,  \* edits in HEAD, edits in the branch on origin
    present,        \* the workspace is on the disk, with a .git
    cloned,         \* the clone that made it has ended
    pushed,         \* the operations whose push arrived
    dropped,        \* uncommitted edits a reset reported as discarded
    faults

repo == <<tree, staged, local, remote, present, cloned>>
vars == <<op, req, prep, made, repo, pushed, dropped, faults>>

OpStatus == {"absent", "pending_review", "running", "completed", "failed", "rejected"}
ConfirmPc == {"loaded", "add", "commit", "push", "completing", "failing"}
DiscardPc == {"rejecting", "reset", "checkout", "clean"}
Pc == {"idle", "status", "create"} \cup ConfirmPc \cup DiscardPc

PrepPc == {"off", "fetch", "status", "pull", "clone", "cloning"}

Idle == [pc |-> "idle", op |-> NoOp, seen |-> {}]

GitTypeOK ==
    /\ op \in [Ops -> [status : OpStatus, review : SUBSET Edits]]
    /\ req \in [Clients -> [pc : Pc, op : Ops \cup {NoOp}, seen : SUBSET Edits]]
    /\ prep \in [Jobs -> PrepPc]
    /\ made \subseteq Edits /\ tree \subseteq made /\ staged \subseteq tree
    /\ local \subseteq Edits \cup Foreign /\ remote \subseteq Edits \cup Foreign
    /\ present \in BOOLEAN /\ cloned \in BOOLEAN
    /\ pushed \subseteq Ops /\ dropped \subseteq made
    /\ faults \in 0..MaxFaults

Init ==
    /\ op = [o \in Ops |-> [status |-> "absent", review |-> {}]]
    /\ req = [c \in Clients |-> Idle]
    /\ made = {} /\ tree = {} /\ staged = {} /\ local = {} /\ remote = {}
    /\ prep = [j \in Jobs |-> "off"]
    /\ present = TRUE /\ cloned = TRUE
    /\ pushed = {} /\ dropped = {} /\ faults = 0

Goto(c, pc) == req' = [req EXCEPT ![c].pc = pc]
PrepGoto(j, pc) == prep' = [prep EXCEPT ![j] = pc]
Return(c) == req' = [req EXCEPT ![c] = Idle]
SetStatus(o, s) == op' = [op EXCEPT ![o].status = s]

-----------------------------------------------------------------------------
(* The workspace                                                           *)

\* A running task changes the working tree.
TaskEdits(e) ==
    /\ present /\ e \notin made
    /\ made' = made \cup {e}
    /\ tree' = tree \cup {e}
    /\ UNCHANGED <<op, req, prep, staged, local, remote, present, cloned, pushed, dropped,
                   faults>>

\* Somebody else pushes to the branch.
OthersPush(e) ==
    /\ e \notin remote
    /\ remote' = remote \cup {e}
    /\ UNCHANGED <<op, req, prep, made, tree, staged, local, present, cloned, pushed,
                   dropped, faults>>

\* The directory is gone with all that is in it.
Removed ==
    /\ present' = FALSE /\ cloned' = FALSE
    /\ tree' = {} /\ staged' = {} /\ local' = {}
    /\ UNCHANGED remote

\* prepare_for_task: a workspace that is gone is cloned, else origin is fetched
\* and, if the tree is clean, the branch fast-forwarded.  A git command that
\* fails ends it.
PrepareCheck(j) ==
    /\ Cloud /\ prep[j] = "off"
    /\ PrepGoto(j, IF present THEN "fetch" ELSE "clone")
    /\ UNCHANGED <<op, req, made, repo, pushed, dropped, faults>>

PrepareFails(j) ==
    /\ prep[j] \in {"fetch", "status", "pull"}
    /\ PrepGoto(j, "off")
    /\ UNCHANGED <<op, req, made, repo, pushed, dropped, faults>>

PrepareFetch(j) ==
    /\ prep[j] = "fetch" /\ present
    /\ PrepGoto(j, "status")
    /\ UNCHANGED <<op, req, made, repo, pushed, dropped, faults>>

IsClean(j) ==
    /\ prep[j] = "status" /\ present
    /\ PrepGoto(j, IF tree = {} THEN "pull" ELSE "off")
    /\ UNCHANGED <<op, req, made, repo, pushed, dropped, faults>>

\* Mutant: the branch is reset to what origin has.
PullHard(j) ==
    /\ prep[j] = "pull" /\ present /\ cloned
    /\ PrepGoto(j, "off")
    /\ local' = remote /\ tree' = {} /\ staged' = {}
    /\ UNCHANGED <<op, req, made, remote, present, cloned, pushed, dropped, faults>>

\* The tree may have edits by now: `git pull --ff-only` keeps those it does not
\* touch and refuses (PrepareFails) to overwrite the others.
Pull(j) ==
    /\ prep[j] = "pull" /\ present /\ cloned
    /\ local \subseteq remote
    /\ PrepGoto(j, "off")
    /\ local' = remote
    /\ UNCHANGED <<op, req, made, tree, staged, remote, present, cloned, pushed, dropped,
                   faults>>

\* git clone makes the directory, with a .git that the checks above and other
\* tasks take for a repository; it refuses one that others have made.
CloneStart(j) ==
    /\ prep[j] = "clone"
    /\ PrepGoto(j, IF present THEN "off" ELSE "cloning")
    /\ present' = TRUE
    /\ UNCHANGED <<op, req, made, tree, staged, local, remote, cloned, pushed, dropped,
                   faults>>

\* HEAD and the index become those of origin; what was committed meanwhile is
\* uncommitted again.
CloneDone(j) ==
    /\ prep[j] = "cloning" /\ present
    /\ PrepGoto(j, "off")
    /\ cloned' = TRUE
    /\ local' = remote
    /\ staged' = {}
    /\ tree' = tree \cup ((local \cap made) \ remote)
    /\ UNCHANGED <<op, req, made, remote, present, pushed, dropped, faults>>

\* A clone that fails removes the directory with all that is in it by then; one
\* that is killed at its timeout leaves it.
CloneFails(j) ==
    /\ prep[j] = "cloning"
    /\ PrepGoto(j, "off")
    /\ Removed \/ UNCHANGED repo
    /\ UNCHANGED <<op, req, made, pushed, dropped, faults>>

\* The disk of a cloud instance is ephemeral.
DiskLost ==
    /\ Cloud /\ present /\ faults < MaxFaults
    /\ faults' = faults + 1
    /\ Removed
    /\ UNCHANGED <<op, req, prep, made, pushed, dropped>>

-----------------------------------------------------------------------------
(* POST /tasks/{id}/git/prepare                                            *)

Prepare(c) ==
    /\ req[c].pc = "idle"
    /\ Goto(c, "status")
    /\ UNCHANGED <<op, prep, made, repo, pushed, dropped, faults>>

\* git status --porcelain; without the directory the spawn raises.
PrepareStatus(c) ==
    /\ req[c].pc = "status"
    /\ req' = [req EXCEPT ![c] = IF present
                                 THEN [@ EXCEPT !.pc = "create", !.seen = tree]
                                 ELSE Idle]
    /\ UNCHANGED <<op, prep, made, repo, pushed, dropped, faults>>

PrepareCreate(c, o) ==
    /\ req[c].pc = "create" /\ op[o].status = "absent"
    /\ op' = [op EXCEPT ![o] = [status |-> "pending_review", review |-> req[c].seen]]
    /\ Return(c)
    /\ UNCHANGED <<prep, made, repo, pushed, dropped, faults>>

-----------------------------------------------------------------------------
(* POST /tasks/{id}/git/{op}/confirm and discard                           *)

\* The sheet on one phone is busy until its request has an answer.
Unrivalled(c, o) ==
    PhonesRace \/ \A d \in Clients \ {c} :
        req[d].op = o => req[d].pc \notin {"loaded", "rejecting"}

\* _load_pending, then nothing holds the row.
LoadPending(c, o) ==
    /\ req[c].pc = "idle" /\ op[o].status = "pending_review" /\ Unrivalled(c, o)
    /\ \E pc \in {"loaded", "rejecting"} :
          req' = [req EXCEPT ![c] = [pc |-> pc, op |-> o, seen |-> {}]]
    /\ UNCHANGED <<op, prep, made, repo, pushed, dropped, faults>>

ConfirmRunning(c) ==
    /\ req[c].pc = "loaded"
    /\ SetStatus(req[c].op, "running")
    /\ Goto(c, "add")
    /\ UNCHANGED <<prep, made, repo, pushed, dropped, faults>>

\* A git command that exits nonzero or is killed at its timeout.
Fails(c) == Goto(c, "failing")

GitAdd(c) ==
    /\ req[c].pc = "add" /\ present
    /\ \/ staged' = tree /\ Goto(c, "commit")
       \/ UNCHANGED staged /\ Fails(c)
    /\ UNCHANGED <<op, prep, made, tree, local, remote, present, cloned, pushed, dropped, faults>>

\* `git commit` has nothing to do if the index is HEAD; a hook, a lock or the
\* timeout can stop it before or after it made the commit.
GitCommit(c) ==
    /\ req[c].pc = "commit" /\ present
    /\ \/ staged # {} /\ (Goto(c, "push") \/ Fails(c))
          /\ local' = local \cup staged
          /\ tree' = tree \ staged
          /\ staged' = {}
       \/ Fails(c) /\ UNCHANGED <<local, tree, staged>>
    /\ UNCHANGED <<op, prep, made, remote, present, cloned, pushed, dropped, faults>>

\* Mutant: the exit code of git push is not looked at.
GitPushLenient(c) ==
    /\ req[c].pc = "push" /\ present
    /\ \/ /\ cloned /\ remote \subseteq local
          /\ remote' = local
          /\ pushed' = pushed \cup {req[c].op}
          /\ Goto(c, "completing")
       \/ Goto(c, "completing") /\ UNCHANGED <<remote, pushed>>
    /\ UNCHANGED <<op, prep, made, tree, staged, local, present, cloned, dropped, faults>>

\* `git push -u origin HEAD` needs a fast-forward; its failure may be a
\* timeout after origin took it.
GitPush(c) ==
    /\ req[c].pc = "push" /\ present
    /\ \/ /\ cloned /\ remote \subseteq local
          /\ remote' = local
          /\ pushed' = pushed \cup {req[c].op}
          /\ Goto(c, "completing") \/ Fails(c)
       \/ Fails(c) /\ UNCHANGED <<remote, pushed>>
    /\ UNCHANGED <<op, prep, made, tree, staged, local, present, cloned, dropped, faults>>

\* Mutant: a failure is not written to the row.
FinishQuietly(c) ==
    /\ req[c].pc \in {"completing", "failing"}
    /\ IF req[c].pc = "completing"
       THEN SetStatus(req[c].op, "completed") ELSE UNCHANGED op
    /\ Return(c)
    /\ UNCHANGED <<prep, made, repo, pushed, dropped, faults>>

\* COMPLETED, or FAILED after a GitCommandError.
Finish(c) ==
    /\ req[c].pc \in {"completing", "failing"}
    /\ SetStatus(req[c].op,
                 IF req[c].pc = "completing" THEN "completed" ELSE "failed")
    /\ Return(c)
    /\ UNCHANGED <<prep, made, repo, pushed, dropped, faults>>

\* resolve_git_env raises a ValueError: the token was encrypted with another
\* key.  That is no GitCommandError, so the operation stays RUNNING.
EnvRaises(c) ==
    /\ Cloud /\ req[c].pc = "add" /\ faults < MaxFaults
    /\ faults' = faults + 1
    /\ Return(c)
    /\ UNCHANGED <<op, prep, made, repo, pushed, dropped>>

\* Without the directory the spawn of git raises FileNotFoundError, which is
\* no GitCommandError either.  After the push, git rev-parse is still to run.
Escapes(c) ==
    /\ req[c].pc \in {"add", "commit", "push", "completing"} /\ ~present
    /\ Return(c)
    /\ UNCHANGED <<op, prep, made, repo, pushed, dropped, faults>>

DiscardReject(c) ==
    /\ req[c].pc = "rejecting"
    /\ SetStatus(req[c].op, "rejected")
    /\ Goto(c, "reset")
    /\ UNCHANGED <<prep, made, repo, pushed, dropped, faults>>

\* reset_workspace leaves the repository of a desktop alone.
ResetCheck(c) ==
    /\ req[c].pc = "reset"
    /\ IF Cloud /\ present THEN Goto(c, "checkout") ELSE Return(c)
    /\ UNCHANGED <<op, prep, made, repo, pushed, dropped, faults>>

\* `git checkout -- .` takes tracked files back to what the index has.  A
\* command that fails ends the reset; the exception is logged.
ResetCheckout(c) ==
    /\ req[c].pc = "checkout"
    /\ \/ /\ present
          /\ tree' = staged \cup (tree \cap NewFiles)
          /\ req' = [req EXCEPT ![c].pc = "clean", ![c].seen = tree]
       \/ UNCHANGED tree /\ Return(c)
    /\ UNCHANGED <<op, prep, made, staged, local, remote, present, cloned, pushed, dropped, faults>>

\* `git clean -fd` removes untracked files: new ones that are not staged.
\* Then git.discarded reports the workspace as reset.
ResetClean(c) ==
    /\ req[c].pc = "clean"
    /\ \/ /\ present
          /\ tree' = staged \cup (tree \ NewFiles)
          /\ dropped' = dropped \cup (req[c].seen \ local)
       \/ UNCHANGED <<tree, dropped>>
    /\ Return(c)
    /\ UNCHANGED <<op, prep, made, staged, local, remote, present, cloned, pushed, faults>>

\* The backend dies; no handler and no job comes back.
Crash ==
    /\ faults < MaxFaults
    /\ faults' = faults + 1
    /\ req' = [c \in Clients |-> Idle]
    /\ prep' = [j \in Jobs |-> "off"]
    /\ UNCHANGED <<op, made, repo, pushed, dropped>>

-----------------------------------------------------------------------------
HandlerStep(c) ==
    \/ PrepareStatus(c) \/ \E o \in Ops : PrepareCreate(c, o)
    \/ ConfirmRunning(c) \/ GitAdd(c) \/ GitCommit(c) \/ GitPush(c)
    \/ Finish(c) \/ EnvRaises(c) \/ Escapes(c)
    \/ DiscardReject(c) \/ ResetCheck(c) \/ ResetCheckout(c) \/ ResetClean(c)

PrepareForTask(j) ==
    \/ PrepareCheck(j) \/ PrepareFails(j) \/ PrepareFetch(j) \/ IsClean(j) \/ Pull(j)
    \/ CloneStart(j) \/ CloneDone(j) \/ CloneFails(j)

Next ==
    \/ \E e \in Edits : TaskEdits(e)
    \/ \E e \in Foreign : OthersPush(e)
    \/ \E j \in Jobs : PrepareForTask(j)
    \/ DiskLost \/ Crash
    \/ \E c \in Clients :
          Prepare(c) \/ HandlerStep(c) \/ \E o \in Ops : LoadPending(c, o)

Spec == Init /\ [][Next]_vars

-----------------------------------------------------------------------------
(* Properties                                                              *)

\* While one phone answers, an operation is answered once, committed and
\* pushed only after a confirmation and at most once, and "completed" only
\* when its push arrived, whatever tasks, other operations, faults and a
\* lost disk do in between (GitService).
Review == INSTANCE GitReview WITH verdict <- [o \in Ops |-> op[o].status]
ImplementsReview == Review!Spec

\* "Git operation already resolved" (GitService._load_pending): an operation
\* that was answered is not answered again.
AnsweredOnce ==
    [][\A o \in Ops :
          op[o].status \in {"running", "rejected", "completed", "failed"} =>
              op'[o].status \in {op[o].status} \cup
                  (IF op[o].status = "running" THEN {"completed", "failed"} ELSE {})]_vars

\* An operation is RUNNING only while a handler works on it, unless the
\* backend died, the workspace vanished or the token could not be decrypted:
\* however the git commands of confirm fail, and whoever else answers the
\* same operation, its handler settles it.
RunningIsWorkedOn ==
    faults = 0 => \A o \in Ops : op[o].status = "running" =>
        \E c \in Clients : req[c].op = o /\ req[c].pc \in ConfirmPc

\* Uncommitted work is "never thrown away silently" (prepare_for_task): an
\* edit leaves the working tree only into a commit or by a discard, unless
\* the disk is lost, whatever tasks, preparations and reviews overlap; with
\* one exception, an edit made under a clone that then fails.  On a desktop
\* a discard leaves the tree alone.
LostWithClone == ~present' /\ \E j \in Jobs : prep[j] = "cloning"
NoSilentLoss ==
    [][faults' = faults =>
          \A e \in tree \ tree' :
              \/ e \in local'
              \/ Cloud /\ \E c \in Clients : req[c].pc \in {"checkout", "clean"}
              \/ LostWithClone]_vars

\* Who works on which operation, and which pushes have arrived.
Verdict == ConfirmPc \cup {"rejecting"}
HandlerInv ==
    /\ \A c \in Clients :
          /\ req[c].pc \in Verdict => req[c].op \in Ops
          /\ req[c].pc \in {"loaded", "rejecting"} => op[req[c].op].status = "pending_review"
          /\ req[c].pc \in ConfirmPc \ {"loaded"} => op[req[c].op].status = "running"
          /\ req[c].pc \in {"add", "commit", "push"} => req[c].op \notin pushed
          /\ req[c].pc = "completing" => req[c].op \in pushed
    /\ \A c, d \in Clients :
          c # d /\ req[c].pc \in Verdict /\ req[d].pc \in Verdict => req[c].op # req[d].op
    /\ \A o \in Ops : op[o].status \in {"absent", "pending_review"} => o \notin pushed

\* "reset_workspace: drop uncommitted changes when the user discards them"
\* (cloud_repo_service.py): what a reset reported as discarded is not pushed
\* later.
DiscardedNotPushed == dropped \cap remote = {}

=============================================================================
