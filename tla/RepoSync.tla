------------------------------- MODULE RepoSync -------------------------------
(***************************************************************************)
(* The repositories of a laptop: the device agent, which registers its     *)
(* device, scans its disk and posts what it finds, and sync_repositories,  *)
(* which brings the rows of the device in line, with a commit for each row *)
(* it updates.  An agent that gives up waiting leaves its request running, *)
(* so a sync of the next run may overlap it.                               *)
(*                                                                         *)
(* A row is "none", "on" or "off" (is_active).  The ORM writes is_active   *)
(* only where it differs from the value the request has loaded.            *)
(***************************************************************************)
EXTENDS Naturals, FiniteSets

CONSTANTS
    Roots,          \* git repositories the laptop may hold
    Handlers,       \* handlers of POST /repos/sync
    Selects,        \* handlers of POST /repos/{id}/select
    MaxSelections,  \* bound: how many selections are made
    MaxChanges,     \* bound: how often a repository comes or goes on the disk
    MaxFaults       \* bound: how often the agent dies or a request is lost

ASSUME SyncAssumption == {MaxSelections, MaxChanges, MaxFaults} \subseteq Nat

VARIABLES
    disk,           \* the repositories under the watched directories
    devices,        \* how many devices are registered; their ids are 1..devices
    saved,          \* the id in ~/.phodex/device.json; 0 is none
    agent,          \* the process of the agent
    rows,           \* is_active of each row of each device
    hand,           \* the sync handlers
    sel,            \* the select handlers
    current,        \* the project contexts with is_current, by their updated_at
    stamp,          \* the latest updated_at given to a context
    changes, faults

sync == <<disk, devices, saved, agent, rows, hand, changes, faults>>
choice == <<sel, current, stamp>>
vars == <<sync, choice>>

Dev == 1..(MaxFaults + 2)
Row == {"none", "on", "off"}
NoRows == [r \in Roots |-> "none"]

Off == [pc |-> "off", dev |-> 0, looping |-> FALSE]
HandIdle == [pc |-> "idle", dev |-> 0, seen |-> {}, todo |-> {}, known |-> NoRows,
             asked |-> FALSE, alone |-> TRUE]
SelIdle == [pc |-> "idle", seen |-> {}, held |-> {}, id |-> 0]

\* Types.  While the agent waits for an answer one request of it runs.
SyncTypeOK ==
    /\ disk \subseteq Roots
    /\ devices \in {0} \cup Dev /\ saved \in 0..devices
    /\ agent \in [pc : {"off", "save", "scan", "asked"}, dev : 0..devices, looping : BOOLEAN]
    /\ rows \in [Dev -> [Roots -> Row]]
    /\ hand \in [Handlers -> [pc : {"idle", "load", "items"}, dev : 0..devices,
                              seen : SUBSET Roots, todo : SUBSET Roots,
                              known : [Roots -> Row], asked : BOOLEAN, alone : BOOLEAN]]
    /\ agent.pc = "asked" => Cardinality({h \in Handlers : hand[h].asked}) = 1
    /\ stamp \in 0..MaxSelections /\ current \subseteq 1..stamp
    /\ sel \in [Selects -> [pc : {"idle", "update", "flush", "commit"}, id : 0..stamp,
                            seen : SUBSET (1..stamp), held : SUBSET current]]
    /\ changes \in 0..MaxChanges /\ faults \in 0..MaxFaults

Init ==
    /\ disk \in SUBSET Roots
    /\ devices = 0 /\ saved = 0
    /\ agent = Off
    /\ rows = [d \in Dev |-> NoRows]
    /\ hand = [h \in Handlers |-> HandIdle]
    /\ sel = [s \in Selects |-> SelIdle] /\ current = {} /\ stamp = 0
    /\ changes = 0 /\ faults = 0

\* What the phone is offered agrees with the disk.
InStep == agent.dev # 0 /\ disk = {r \in Roots : rows[agent.dev][r] = "on"}

\* A repository is cloned to, or deleted from, a watched directory.
DiskChanges(r) ==
    /\ changes < MaxChanges
    /\ changes' = changes + 1
    /\ disk' = IF r \in disk THEN disk \ {r} ELSE disk \cup {r}
    /\ UNCHANGED <<devices, saved, agent, rows, hand, faults, choice>>

-----------------------------------------------------------------------------
(* The device agent                                                        *)

\* A run registers the device under the id in the state file, or a new one.
Register ==
    /\ agent.pc = "off"
    /\ devices' = IF saved = 0 THEN devices + 1 ELSE devices
    /\ agent' = [Off EXCEPT !.pc = "save", !.dev = IF saved = 0 THEN devices' ELSE saved]
    /\ UNCHANGED <<disk, saved, rows, hand, changes, faults, choice>>

SaveNothing ==                          \* Mutant: the id is not saved.
    /\ agent.pc = "save"
    /\ agent' = [agent EXCEPT !.pc = "scan"]
    /\ UNCHANGED <<disk, devices, saved, rows, hand, changes, faults, choice>>

\* save_device_id, in every run: the file is truncated and written.
SaveDevice ==
    /\ agent.pc = "save"
    /\ saved' = agent.dev
    /\ agent' = [agent EXCEPT !.pc = "scan"]
    /\ UNCHANGED <<disk, devices, rows, hand, changes, faults, choice>>

\* sync_once, at the start and then at every interval: discover_repos, and
\* nothing is sent when nothing is found.
FindNothing ==
    /\ agent.pc = "scan" /\ disk = {}
    /\ agent' = [agent EXCEPT !.looping = TRUE]
    /\ UNCHANGED <<disk, devices, saved, rows, hand, changes, faults, choice>>

\* POST /repos/sync of what is found.
PostSync(h) ==
    /\ agent.pc = "scan" /\ disk # {} /\ hand[h].pc = "idle"
    /\ LET rivals == {o \in Handlers : hand[o].pc # "idle"} IN
        hand' = [o \in Handlers |->
            IF o = h THEN [HandIdle EXCEPT !.pc = "load", !.dev = agent.dev, !.seen = disk,
                              !.asked = TRUE, !.alone = rivals = {}]
            ELSE [hand[o] EXCEPT !.alone = @ /\ o \notin rivals]]
    /\ agent' = [agent EXCEPT !.pc = "asked"]
    /\ UNCHANGED <<disk, devices, saved, rows, changes, faults, choice>>

\* --once, or Ctrl+C between two syncs.
AgentStops ==
    /\ agent.pc = "scan" /\ agent.looping
    /\ agent' = Off
    /\ UNCHANGED <<disk, devices, saved, rows, hand, changes, faults, choice>>

\* The agent is killed, or a read times out, an error it does not catch.  Its
\* request runs on; a file that was truncated and not written holds no id.
AgentDies ==
    /\ agent.pc # "off" /\ faults < MaxFaults
    /\ faults' = faults + 1
    /\ saved' \in IF agent.pc = "save" THEN {saved, 0} ELSE {saved}
    /\ agent' = Off
    /\ hand' = [h \in Handlers |-> [hand[h] EXCEPT !.asked = FALSE]]
    /\ UNCHANGED <<disk, devices, rows, changes, choice>>

-----------------------------------------------------------------------------
(* sync_repositories                                                       *)

\* What the agent does with the answer to its sync: an error ends the first
\* one's run, and is logged in the loop.
Answered(h, ok) ==
    agent' = IF ~hand[h].asked THEN agent
             ELSE IF ok \/ agent.looping
                  THEN [agent EXCEPT !.pc = "scan", !.looping = TRUE]
             ELSE Off

\* The rows of the device are read.
SyncLoad(h) ==
    /\ hand[h].pc = "load"
    /\ hand' = [hand EXCEPT ![h].pc = "items", ![h].todo = hand[h].seen,
                            ![h].known = rows[hand[h].dev]]
    /\ UNCHANGED <<disk, devices, saved, agent, rows, changes, faults, choice>>

\* Found repositories without a row at the time of the load are inserted.
Fresh(h) == {r \in hand[h].todo : hand[h].known[r] = "none"}

\* A row inserted by another request meanwhile violates the unique constraint.
Conflict(h, new) == \E r \in new : rows[hand[h].dev][r] # "none"

\* A row that was off when it was loaded is switched on.
NeverRevived(h, r) == FALSE             \* Mutant: only what is new is.
Revived(h, r) == hand[h].known[r] = "off"

\* One row is updated and committed, with the rows added before it.
SyncUpdate(h) ==
    /\ hand[h].pc = "items"
    /\ \E r \in hand[h].todo \ Fresh(h), new \in SUBSET Fresh(h) :
        /\ ~Conflict(h, new)
        /\ rows' = [rows EXCEPT ![hand[h].dev] =
               [q \in Roots |-> IF q \in new \/ (q = r /\ Revived(h, r))
                                THEN "on" ELSE @[q]]]
        /\ hand' = [hand EXCEPT ![h].todo = @ \ (new \cup {r})]
    /\ UNCHANGED <<disk, devices, saved, agent, changes, faults, choice>>

UnseenNone(h) == {}                     \* Mutant: they are left on.

\* The rows of the device that were on and were not in the scan.
Unseen(h) == {r \in Roots \ hand[h].seen : hand[h].known[r] = "on"}

\* The last commit: the rows still to insert, and the unseen ones off.
SyncFinish(h) ==
    /\ hand[h].pc = "items" /\ hand[h].todo = Fresh(h)
    /\ ~Conflict(h, Fresh(h))
    /\ rows' = [rows EXCEPT ![hand[h].dev] =
           [q \in Roots |-> IF q \in Fresh(h) THEN "on"
                            ELSE IF q \in Unseen(h) THEN "off" ELSE @[q]]]
    /\ hand' = [hand EXCEPT ![h] = HandIdle]
    /\ Answered(h, TRUE)
    /\ UNCHANGED <<disk, devices, saved, changes, faults, choice>>

SyncConflictSilent(h) ==                \* Mutant: the error is not answered.
    /\ hand[h].pc = "items"
    /\ Conflict(h, Fresh(h))
    /\ hand' = [hand EXCEPT ![h] = HandIdle]
    /\ UNCHANGED <<disk, devices, saved, agent, rows, changes, faults, choice>>

\* A commit fails; those before it stay.
SyncConflict(h) ==
    /\ hand[h].pc = "items"
    /\ Conflict(h, Fresh(h))
    /\ hand' = [hand EXCEPT ![h] = HandIdle]
    /\ Answered(h, FALSE)
    /\ UNCHANGED <<disk, devices, saved, rows, changes, faults, choice>>

\* The backend dies, or the database fails, between two commits.
SyncLost(h) ==
    /\ hand[h].pc # "idle" /\ faults < MaxFaults
    /\ faults' = faults + 1
    /\ hand' = [hand EXCEPT ![h] = HandIdle]
    /\ Answered(h, FALSE)
    /\ UNCHANGED <<disk, devices, saved, rows, changes, choice>>

-----------------------------------------------------------------------------
(* The selection                                                           *)

\* get_current_context: the latest of the current ones; 0 is none.
Shown == CHOOSE n \in current \cup {0} : \A m \in current : m <= n

\* Somebody has cleared one of these contexts and has not committed.
Locked(contexts) == \E o \in Selects : sel[o].held \cap contexts # {}

\* Mutant: the UPDATE commits on its own.
SelectStartApart(s) ==
    /\ sel[s].pc = "idle" /\ \E d \in Dev, r \in Roots : rows[d][r] # "none"
    /\ stamp + Cardinality({o \in Selects : sel[o].pc \in {"update", "flush"}}) < MaxSelections
    /\ current' = {}
    /\ sel' = [sel EXCEPT ![s] = [SelIdle EXCEPT !.pc = "flush", !.seen = current]]
    /\ UNCHANGED <<sync, stamp>>

\* select_repository of a row that exists: the UPDATE clears the contexts it
\* sees, or waits for the transaction that has cleared one of them.
SelectStart(s) ==
    /\ sel[s].pc = "idle" /\ \E d \in Dev, r \in Roots : rows[d][r] # "none"
    /\ stamp + Cardinality({o \in Selects : sel[o].pc \in {"update", "flush"}}) < MaxSelections
    /\ sel' = [sel EXCEPT ![s] =
           IF Locked(current) THEN [SelIdle EXCEPT !.pc = "update", !.seen = current]
           ELSE [SelIdle EXCEPT !.pc = "flush", !.seen = current, !.held = current]]
    /\ UNCHANGED <<sync, current, stamp>>

\* After the wait it skips what the other has cleared, and cannot see what
\* the other has inserted.
SelectUpdate(s) ==
    /\ sel[s].pc = "update" /\ ~Locked(sel[s].seen)
    /\ sel' = [sel EXCEPT ![s].pc = "flush", ![s].held = sel[s].seen \cap current]
    /\ UNCHANGED <<sync, current, stamp>>

\* The flush of the new context gives it its updated_at.
SelectFlush(s) ==
    /\ sel[s].pc = "flush"
    /\ stamp' = stamp + 1
    /\ sel' = [sel EXCEPT ![s].pc = "commit", ![s].id = stamp + 1]
    /\ UNCHANGED <<sync, current>>

\* Both changes commit together.
AfterSelect(s) == (current \ sel[s].held) \cup {sel[s].id}

SelectCommit(s) ==
    /\ sel[s].pc = "commit"
    /\ current' = AfterSelect(s)
    /\ sel' = [sel EXCEPT ![s] = SelIdle]
    /\ UNCHANGED <<sync, stamp>>

-----------------------------------------------------------------------------
HandStep(h) == SyncLoad(h) \/ SyncUpdate(h) \/ SyncFinish(h) \/ SyncConflict(h)
AgentStep == SaveDevice \/ FindNothing \/ \E h \in Handlers : PostSync(h)

Next ==
    \/ \E r \in Roots : DiskChanges(r)
    \/ Register \/ AgentStep \/ AgentStops \/ AgentDies
    \/ \E h \in Handlers : HandStep(h) \/ SyncLost(h)
    \/ \E s \in Selects :
        SelectStart(s) \/ SelectUpdate(s) \/ SelectFlush(s) \/ SelectCommit(s)

Spec == Init /\ [][Next]_vars

\* A started agent runs on, and a request the server has accepted is carried
\* out.  Nothing restarts an agent.
FairSpec == Spec /\ WF_vars(AgentStep) /\ \A h \in Handlers : WF_vars(HandStep(h))

-----------------------------------------------------------------------------
(* Properties                                                              *)

\* Runs of the agent share one device: another is registered only after an
\* agent has died before it had saved the id, or while it wrote it again.
DevicesBounded == devices <= 1 + faults

\* A sync that no other overlapped leaves exactly the scanned repositories
\* active, in however many commits it got there and whatever an earlier one
\* that failed had left half done.
SyncIsExact ==
    [][\A h \in Handlers :
        hand[h].alone /\ hand[h].pc = "items" /\ hand'[h].pc = "idle" /\ faults' = faults
            => {r \in Roots : rows'[hand[h].dev][r] = "on"} = hand[h].seen]_vars

\* If the agent keeps running, with a repository to sync, its rows come to
\* agree with the disk for good: whatever an overlapping request of an earlier
\* run switched off or left undone is repaired by a later sync.
SyncConverges ==
    <>[](agent.pc # "off" /\ disk # {}) => <>[]InStep

\* However selections overlap, get_current_context never goes back to an
\* earlier one, nor to none, and a selection replaces every context that was
\* current when it began: it waits for one that clears the same rows, clears
\* and adds in one transaction, and takes its time after the clearing.
SelectionsTakeTurns ==
    [][/\ Shown' >= Shown
       /\ \A s \in Selects : sel[s].pc = "commit" /\ sel'[s].pc = "idle"
              => sel[s].seen \cap current' = {}]_choice

=============================================================================
