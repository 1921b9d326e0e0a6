------------------------------- MODULE EventLog -------------------------------
(***************************************************************************)
(* The event log of one task: EventService.append_event, called from any   *)
(* number of coroutines on any number of backend instances that share one  *)
(* Postgres.  A call takes the instance's asyncio lock for the task, locks *)
(* the task's row, reads the highest seq_no, inserts the next one and      *)
(* commits, gives the asyncio lock back and only then publishes.  A call   *)
(* that a task's job makes ends at once, wherever it is, when the job is   *)
(* cancelled.                                                              *)
(*                                                                         *)
(* task_events has a unique constraint on (task_id, seq_no), so the rows   *)
(* of the task are a sequence: log[n] is the call whose event has seq_no n.*)
(***************************************************************************)
EXTENDS Naturals, Sequences

CONSTANTS
    Instances,      \* the backend processes
    Appends,        \* the calls of append_event for this task
    JobAppends,     \* those that the task's job makes
    NoAppend,       \* null value
    MaxCrashes      \* bound: how often an instance dies and is restarted

ASSUME LogAssumption ==
    /\ NoAppend \notin Appends
    /\ JobAppends \subseteq Appends
    /\ MaxCrashes \in Nat

VARIABLES
    log,            \* the committed rows
    call,           \* where each call is: its instance, step and max_seq
    appendLock,     \* _append_locks[task_id] of each instance
    rowLock,        \* SELECT ... FOR UPDATE on the task's row
    crashes

logVars == <<log, call, appendLock, rowLock, crashes>>

InRow == {"max", "insert"}                       \* inside the transaction
InLock == {"row", "committed"} \cup InRow        \* inside the asyncio lock
Running == InLock \cup {"publish"}
CallPc == Running \cup {"idle", "done", "raised", "cancelled", "lost"}

LogTypeOK ==
    /\ log \in Seq(Appends)
    /\ call \in [Appends -> [pc : CallPc, at : Instances, max : Nat]]
    /\ appendLock \in [Instances -> Appends \cup {NoAppend}]
    /\ rowLock \in Appends \cup {NoAppend}
    /\ crashes \in Nat

LogInit ==
    /\ log = <<>>
    /\ call \in [Appends -> [pc : {"idle"}, at : Instances, max : {0}]]
    /\ appendLock = [i \in Instances |-> NoAppend]
    /\ rowLock = NoAppend
    /\ crashes = 0

Step(a, pc) == call' = [call EXCEPT ![a].pc = pc]

\* The call gets its instance's append lock.
AppendLock(a) ==
    /\ call[a].pc = "idle" /\ appendLock[call[a].at] = NoAppend
    /\ appendLock' = [appendLock EXCEPT ![call[a].at] = a]
    /\ Step(a, "row")
    /\ UNCHANGED <<log, rowLock, crashes>>

\* Mutant: the row is read without FOR UPDATE.
RowLockFree(a) ==
    /\ call[a].pc = "row"
    /\ Step(a, "max")
    /\ UNCHANGED <<log, appendLock, rowLock, crashes>>

\* lock_task: waits until no other transaction holds the row.
RowLock(a) ==
    /\ call[a].pc = "row" /\ rowLock = NoAppend
    /\ rowLock' = a
    /\ Step(a, "max")
    /\ UNCHANGED <<log, appendLock, crashes>>

ReadMax(a) ==
    /\ call[a].pc = "max"
    /\ call' = [call EXCEPT ![a].pc = "insert", ![a].max = Len(log)]
    /\ UNCHANGED <<log, appendLock, rowLock, crashes>>

\* seq_no is already in the table: the unique constraint refuses the row.
Taken(a) == call[a].max + 1 \in DOMAIN log

\* Mutant: neither lock is given back when the transaction ends.
InsertKeepsRow(a) ==
    /\ call[a].pc = "insert"
    /\ log' = IF Taken(a) THEN log ELSE Append(log, a)
    /\ Step(a, IF Taken(a) THEN "raised" ELSE "committed")
    /\ UNCHANGED <<appendLock, rowLock, crashes>>

\* INSERT and COMMIT, or IntegrityError and ROLLBACK, which leaves both locks.
Insert(a) ==
    /\ call[a].pc = "insert"
    /\ log' = IF Taken(a) THEN log ELSE Append(log, a)
    /\ Step(a, IF Taken(a) THEN "raised" ELSE "committed")
    /\ rowLock' = IF rowLock = a THEN NoAppend ELSE rowLock
    /\ appendLock' = IF Taken(a)
                     THEN [appendLock EXCEPT ![call[a].at] = NoAppend]
                     ELSE appendLock
    /\ UNCHANGED crashes

\* The end of `async with self._append_locks[task_id]`.
Release(a, next) ==
    /\ call[a].pc = "committed"
    /\ appendLock' = [appendLock EXCEPT ![call[a].at] = NoAppend]
    /\ Step(a, next)
    /\ UNCHANGED <<log, rowLock, crashes>>

\* The event has been handed to the bus.
Published(a) ==
    /\ call[a].pc = "publish"
    /\ Step(a, "done")
    /\ UNCHANGED <<log, appendLock, rowLock, crashes>>

\* job.cancel(): CancelledError at the await the call is in.  A commit that is
\* under way may have taken effect or be rolled back, and whatever was
\* inserted is not published; the two context managers give the locks back.
Cancelled(a) ==
    /\ a \in JobAppends /\ call[a].pc \in Running
    /\ \/ UNCHANGED log
       \/ call[a].pc = "insert" /\ ~Taken(a) /\ log' = Append(log, a)
    /\ Step(a, "cancelled")
    /\ rowLock' = IF rowLock = a THEN NoAppend ELSE rowLock
    /\ appendLock' = [appendLock EXCEPT ![call[a].at] = IF @ = a THEN NoAppend ELSE @]
    /\ UNCHANGED crashes

\* The instance dies and comes back: its calls are gone, the database rolls
\* their transactions back.
Down(i, a) == call[a].at = i /\ call[a].pc \in Running

LogCrash(i) ==
    /\ crashes < MaxCrashes
    /\ crashes' = crashes + 1
    /\ call' = [a \in Appends |->
           IF Down(i, a) THEN [call[a] EXCEPT !.pc = "lost"] ELSE call[a]]
    /\ appendLock' = [appendLock EXCEPT ![i] = NoAppend]
    /\ rowLock' = IF \E a \in Appends : rowLock = a /\ Down(i, a)
                  THEN NoAppend ELSE rowLock
    /\ UNCHANGED log

LogNext ==
    \/ \E a \in Appends :
          \/ AppendLock(a) \/ RowLock(a) \/ ReadMax(a) \/ Insert(a)
          \/ \E next \in {"publish", "done"} : Release(a, next)
          \/ Published(a) \/ Cancelled(a)
    \/ \E i \in Instances : LogCrash(i)

LogSpec == LogInit /\ [][LogNext]_logVars

-----------------------------------------------------------------------------
\* However many instances append to one task at once, and whatever one that
\* dies or a job that is cancelled leaves behind, no append is ever refused by the unique
\* constraint on (task_id, seq_no): reading max(seq_no) and inserting its
\* successor is one step to the others (EventService.append_event).
AppendNeverCollides == \A a \in Appends : call[a].pc # "raised"

\* The row lock and the instance locks belong to the calls that are between
\* taking and releasing them, and max_seq is current until the insert.
LockInv ==
    /\ \A a \in Appends : call[a].pc \in InRow => rowLock = a
    /\ \A a \in Appends : call[a].pc \in InLock => appendLock[call[a].at] = a
    /\ rowLock # NoAppend => call[rowLock].pc \in InRow
    /\ \A i \in Instances : appendLock[i] # NoAppend =>
           /\ call[appendLock[i]].at = i
           /\ call[appendLock[i]].pc \in InLock
    /\ \A a \in Appends : call[a].pc = "insert" => call[a].max = Len(log)

=============================================================================
