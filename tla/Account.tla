-------------------------------- MODULE Account --------------------------------
(***************************************************************************)
(* The account of one user: logins behind the rate limiter, sessions with  *)
(* their cap and their revocation, the cap on concurrent tasks, and the    *)
(* usage summary that is cached in Redis.  Phones send one request at a    *)
(* time each, beside workers that end tasks and take cancelled ones back;  *)
(* nothing takes a lock.                                                   *)
(*                                                                         *)
(* One action is one database statement or transaction, or one command of  *)
(* Redis.  The cached summary is "fresh", "stale" (fresh when it was       *)
(* stored, outdated since) or "late" (outdated when it was stored).  What  *)
(* it says of the sessions is never dropped and not modelled.              *)
(***************************************************************************)
EXTENDS Naturals, FiniteSets

CONSTANTS
    Phones,         \* clients of the user
    MaxSessions,    \* max_active_sessions_per_user; 0 is no cap
    MaxTasks,       \* max_concurrent_tasks_per_user; 0 is no cap
    RateLimit,      \* auth_rate_limit_per_minute, for one address
    MaxTakenBack,   \* bound: how many cancelled tasks a worker takes back
    MaxFaults       \* bound: how often a handler dies

ASSUME AccountAssumption ==
    /\ IsFiniteSet(Phones) /\ Phones # {}
    /\ MaxSessions \in Nat /\ MaxTasks \in Nat /\ RateLimit \in Nat \ {0}
    /\ MaxTakenBack \in Nat /\ MaxFaults \in Nat

VARIABLES
    phone,          \* the clients, each with its request in flight
    live,           \* the sessions that are neither revoked nor expired
    active,         \* how many tasks are queued, starting, running or waiting
                    \* and were never final
    cancelled,      \* how many were cancelled under a job that still writes
    revived,        \* how many of those the job has made running again
    worker,         \* who changes the status of a task
    rate,           \* the counter of the rate limiter, and whether it has a TTL
    cache,          \* the cached summary, or "none"
    faults

tasks == <<active, cancelled, revived>>
vars == <<phone, live, tasks, worker, rate, cache, faults>>

LoginPc == {"out", "expire", "sessions", "issue"}
UsagePc == {"usage", "count", "set"}
Pc == LoginPc \cup UsagePc \cup {"in", "list", "revoke", "tasks", "create", "delete"}

Age == {"fresh", "stale", "late"}
SignedOut == [pc |-> "out", session |-> 0, targets |-> {}, late |-> FALSE]
SignedIn(s) == [pc |-> "in", session |-> s, targets |-> {}, late |-> FALSE]

\* Types; 0 is no session.
AccountTypeOK ==
    /\ phone \in [Phones -> [pc : Pc, session : Nat, targets : SUBSET Nat, late : BOOLEAN]]
    /\ live \subseteq Nat \ {0} /\ worker \in {"idle", "delete"}
    /\ active \in Nat /\ cancelled \in Nat /\ revived \in Nat
    /\ rate \in [count : 0..(RateLimit + 1), ttl : BOOLEAN]
    /\ cache \in {"none"} \cup Age
    /\ faults \in Nat

Init ==
    /\ phone = [p \in Phones |-> SignedOut]
    /\ live = {} /\ worker = "idle"
    /\ active = 0 /\ cancelled = 0 /\ revived = 0
    /\ rate = [count |-> 0, ttl |-> FALSE]
    /\ cache = "none" /\ faults = 0

At(p, pc) == phone[p].pc = pc
Goto(p, pc) == phone' = [phone EXCEPT ![p].pc = pc]

\* A change of the tasks outdates the cached summary and one not yet stored.
TasksChange == cache' = IF cache = "fresh" THEN "stale" ELSE cache
StillLate(q) == phone[q].late \/ At(q, "set")

\* What a change of a status does beside the count of the tasks.
StatusChange ==
    /\ worker = "idle"
    /\ worker' = "delete"
    /\ phone' = [q \in Phones |-> [phone[q] EXCEPT !.late = StillLate(q)]]
    /\ TasksChange
    /\ UNCHANGED <<live, rate, faults>>

-----------------------------------------------------------------------------
(* Login                                                                   *)

\* RedisService.allow: INCR returns 1 to the first login of a window, which
\* sends EXPIRE in a second command.
FirstOfWindowZero(n) == n = 0           \* Mutant: the count before INCR.
FirstOfWindow(n) == n = 1

LoginRate(p) ==
    /\ At(p, "out")
    /\ LET n == rate.count + 1 IN
        /\ rate' = IF n <= RateLimit + 1 THEN [rate EXCEPT !.count = n] ELSE rate
        /\ Goto(p, IF FirstOfWindow(n) THEN "expire"
                   ELSE IF n <= RateLimit THEN "sessions" ELSE "out")
    /\ UNCHANGED <<live, tasks, worker, cache, faults>>

LoginExpire(p) ==
    /\ At(p, "expire")
    /\ rate' = [rate EXCEPT !.ttl = TRUE]
    /\ Goto(p, "sessions")
    /\ UNCHANGED <<live, tasks, worker, cache, faults>>

\* The minute is over.
WindowEnds ==
    /\ rate.ttl
    /\ rate' = [count |-> 0, ttl |-> FALSE]
    /\ UNCHANGED <<phone, live, tasks, worker, cache, faults>>

SessionRoomOneMore == MaxSessions = 0 \/ Cardinality(live) <= MaxSessions   \* Mutant.
SessionRoom == MaxSessions = 0 \/ Cardinality(live) < MaxSessions

\* Wrong password, or an account that exists already.
LoginRefused(p) ==
    /\ At(p, "sessions")
    /\ Goto(p, "out")
    /\ UNCHANGED <<live, tasks, worker, rate, cache, faults>>

\* _issue_token counts the active sessions.
LoginCount(p) ==
    /\ At(p, "sessions")
    /\ Goto(p, IF SessionRoom THEN "issue" ELSE "out")
    /\ UNCHANGED <<live, tasks, worker, rate, cache, faults>>

\* A new id: none that the database, a token or a request holds.
FreshSession ==
    LET used == live \cup UNION {{phone[q].session} \cup phone[q].targets : q \in Phones}
    IN  CHOOSE s \in 1..(Cardinality(used) + 1) : s \notin used

\* The session is inserted in a later statement.
LoginIssue(p) ==
    /\ At(p, "issue")
    /\ live' = live \cup {FreshSession}
    /\ phone' = [phone EXCEPT ![p] = SignedIn(FreshSession)]
    /\ UNCHANGED <<tasks, worker, rate, cache, faults>>

\* The app forgets its token; the session stays.
SignOut(p) ==
    /\ At(p, "in")
    /\ phone' = [phone EXCEPT ![p] = SignedOut]
    /\ UNCHANGED <<live, tasks, worker, rate, cache, faults>>

SessionExpires ==
    /\ \E s \in live : live' = live \ {s}
    /\ UNCHANGED <<phone, tasks, worker, rate, cache, faults>>

-----------------------------------------------------------------------------
(* Requests with a bearer token                                            *)

\* get_user_from_bearer: the row of the session is read for every request;
\* a request it refuses changes nothing.
Authorized(p) == At(p, "in") /\ phone[p].session \in live

Request(p) ==
    /\ Authorized(p)
    /\ \E pc \in {"usage", "list", "tasks"} : Goto(p, pc)
    /\ UNCHANGED <<live, tasks, worker, rate, cache, faults>>

\* revoke_session, of a session the phone was shown.
RequestRevoke(p) ==
    /\ Authorized(p)
    /\ \E s \in live :
        phone' = [phone EXCEPT ![p] = [@ EXCEPT !.pc = "revoke", !.targets = {s}]]
    /\ UNCHANGED <<live, tasks, worker, rate, cache, faults>>

\* revoke_others reads the sessions to revoke ...
ListOthers(p) ==
    /\ At(p, "list")
    /\ phone' = [phone EXCEPT ![p] =
        [@ EXCEPT !.pc = "revoke", !.targets = live \ {phone[p].session}]]
    /\ UNCHANGED <<live, tasks, worker, rate, cache, faults>>

\* ... and revokes those, in one transaction.
Revoke(p) ==
    /\ At(p, "revoke")
    /\ live' = live \ phone[p].targets
    /\ phone' = [phone EXCEPT ![p] = [@ EXCEPT !.pc = "in", !.targets = {}]]
    /\ UNCHANGED <<tasks, worker, rate, cache, faults>>

TaskRoomOneMore == MaxTasks = 0 \/ active + revived <= MaxTasks    \* Mutant.
TaskRoom == MaxTasks = 0 \/ active + revived < MaxTasks

\* create_task counts the concurrent tasks.
CountConcurrent(p) ==
    /\ At(p, "tasks")
    /\ Goto(p, IF TaskRoom THEN "create" ELSE "in")
    /\ UNCHANGED <<live, tasks, worker, rate, cache, faults>>

AfterInsertDone == "in"                 \* Mutant: the summary is not dropped.
AfterInsert == "delete"

\* The task is inserted in a later statement.
CreateTask(p) ==
    /\ At(p, "create")
    /\ active' = active + 1
    /\ phone' = [q \in Phones |->
        IF q = p THEN [phone[p] EXCEPT !.pc = AfterInsert]
        ELSE [phone[q] EXCEPT !.late = StillLate(q)]]
    /\ TasksChange
    /\ UNCHANGED <<cancelled, revived, live, worker, rate, faults>>

\* _invalidate_usage, after the event task.created is stored.
DropUsage(p) ==
    /\ At(p, "delete")
    /\ cache' = "none"
    /\ Goto(p, "in")
    /\ UNCHANGED <<live, tasks, worker, rate, faults>>

-----------------------------------------------------------------------------
(* The usage summary                                                       *)

\* A cached summary is the answer.
UsageGet(p) ==
    /\ At(p, "usage")
    /\ Goto(p, IF cache = "none" THEN "count" ELSE "in")
    /\ UNCHANGED <<live, tasks, worker, rate, cache, faults>>

\* The first of ten queries.  The others run between it and the SET, each with
\* a view of its own: what changes from now on, some of them have missed.
UsageCount(p) ==
    /\ At(p, "count")
    /\ Goto(p, "set")
    /\ UNCHANGED <<live, tasks, worker, rate, cache, faults>>

\* SET with a TTL, whatever has been deleted since.
UsageSet(p) ==
    /\ At(p, "set")
    /\ cache' = IF phone[p].late THEN "late" ELSE "fresh"
    /\ phone' = [phone EXCEPT ![p] = [@ EXCEPT !.pc = "in", !.late = FALSE]]
    /\ UNCHANGED <<live, tasks, worker, rate, faults>>

\* cache_ttl_seconds are over.
UsageExpires ==
    /\ cache # "none"
    /\ cache' = "none"
    /\ UNCHANGED <<phone, live, tasks, worker, rate, faults>>

-----------------------------------------------------------------------------
(* Workers and faults                                                      *)

\* transition_for_worker moves a task to a final status.
TaskEnds ==
    /\ \/ active > 0 /\ active' = active - 1 /\ UNCHANGED revived
       \/ revived > 0 /\ revived' = revived - 1 /\ UNCHANGED active
    /\ StatusChange
    /\ UNCHANGED cancelled

\* cancel_task commits CANCELLED while the job of the task has still to see it.
TaskCancelled ==
    /\ active > 0 /\ cancelled + revived < MaxTakenBack
    /\ active' = active - 1 /\ cancelled' = cancelled + 1
    /\ StatusChange
    /\ UNCHANGED revived

\* transition_for_worker writes RUNNING whatever the status is by then ...
TaskTakenBack ==
    /\ cancelled > 0
    /\ cancelled' = cancelled - 1 /\ revived' = revived + 1
    /\ StatusChange
    /\ UNCHANGED active

\* ... unless the job is stopped first.
JobStopped ==
    /\ cancelled > 0
    /\ cancelled' = cancelled - 1
    /\ UNCHANGED <<phone, live, active, revived, worker, rate, cache, faults>>

WorkerDropsUsage ==
    /\ worker = "delete"
    /\ worker' = "idle"
    /\ cache' = "none"
    /\ UNCHANGED <<phone, live, tasks, rate, faults>>

\* A command of Redis or a statement raises, or the backend dies: a request
\* ends where it is.
HandlerDies ==
    /\ faults < MaxFaults
    /\ faults' = faults + 1
    /\ \/ /\ \E p \in Phones :
               /\ phone[p].pc \notin {"in", "out"}
               /\ phone' = [phone EXCEPT ![p] =
                    IF @.pc \in LoginPc THEN SignedOut ELSE SignedIn(@.session)]
          /\ UNCHANGED worker
       \/ worker = "delete" /\ worker' = "idle" /\ UNCHANGED phone
    /\ UNCHANGED <<live, tasks, rate, cache>>

-----------------------------------------------------------------------------
Login(p) ==
    \/ LoginRate(p) \/ LoginExpire(p) \/ LoginRefused(p)
    \/ LoginCount(p) \/ LoginIssue(p) \/ SignOut(p)
Sessions(p) == Request(p) \/ RequestRevoke(p) \/ ListOthers(p) \/ Revoke(p)
Creation(p) == CountConcurrent(p) \/ CreateTask(p) \/ DropUsage(p)
Usage(p) == UsageGet(p) \/ UsageCount(p) \/ UsageSet(p)

Next ==
    \/ \E p \in Phones : Login(p) \/ Sessions(p) \/ Creation(p) \/ Usage(p)
    \/ WindowEnds \/ SessionExpires \/ UsageExpires
    \/ TaskEnds \/ TaskCancelled \/ TaskTakenBack \/ JobStopped
    \/ WorkerDropsUsage \/ HandlerDies

Spec == Init /\ [][Next]_vars

-----------------------------------------------------------------------------
(* Properties                                                              *)

\* The count and the insert of a login are two statements, so racing logins
\* pass the cap together; but by no more than all of them but one, and a
\* later login does not add to it.
SessionsBounded ==
    MaxSessions > 0 => Cardinality(live) < MaxSessions + Cardinality(Phones)

\* The same race of create_task on the cap of concurrent tasks.  The tasks
\* that a worker took back after their cancellation come on top: nobody
\* counts when it does, but every later creation counts them.
TasksBounded == MaxTasks > 0 => active < MaxTasks + Cardinality(Phones)

\* A cached summary that a change of the tasks has outdated is about to be
\* dropped by the one who made the change.
StaleIsBeingDropped ==
    faults = 0 /\ cache = "stale"
        => worker = "delete" \/ \E p \in Phones : At(p, "delete")

\* The counter of the rate limiter never stands without a TTL, which would
\* shut the address out for good, unless the login that counted first died
\* between the two commands.
RateKeyExpires ==
    faults = 0 /\ rate.count > 0 /\ ~rate.ttl => \E p \in Phones : At(p, "expire")

=============================================================================
