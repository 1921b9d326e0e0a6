------------------------------ MODULE EventStream ------------------------------
(***************************************************************************)
(* How a task's events reach the people who watch it: the log of EventLog, *)
(* the EventBus of every instance with or without Redis Pub/Sub, the       *)
(* server-sent-event handlers of api/tasks.py, and the SessionController   *)
(* of the phone, which loads a snapshot over REST, follows the stream from *)
(* the last sequence it has, and resubscribes when the connection drops.   *)
(***************************************************************************)
EXTENDS EventLog, FiniteSets, FiniteSetsExt

CONSTANTS
    Readers,          \* the clients that watch the task
    TerminalAppends,  \* appends of task.completed, .failed or .cancelled
    UsesRedis,        \* REDIS_URL is set
    MaxDrops,         \* bound: connections cut by the network
    MaxRedisFaults    \* bound: failed publishes and dead listeners

ASSUME StreamAssumption ==
    /\ TerminalAppends \subseteq Appends
    /\ IsFiniteSet(Appends)
    /\ UsesRedis \in BOOLEAN
    /\ MaxDrops \in Nat /\ MaxRedisFaults \in Nat

VARIABLES
    inbox,            \* messages on each instance's Redis connection
    listening,        \* the state of each instance's listener task
    stream,           \* the SSE handler that serves a reader
    queue,            \* its asyncio.Queue on the bus
    out,              \* what it has sent and the reader has not received
    reader,           \* the client's state
    drops, redisFaults

busVars == <<inbox, listening, redisFaults>>
streamVars == <<stream, queue, out>>
vars == <<logVars, busVars, streamVars, reader, drops>>

Sequences_ == 1..Cardinality(Appends)

StreamTypeOK ==
    /\ LogTypeOK
    /\ inbox \in [Instances -> Seq(Sequences_)]
    /\ listening \in [Instances -> {"off", "starting", "on"}]
    /\ stream \in [Readers -> [pc : {"off", "opened", "replay", "live"},
                               at : Instances, last : Nat]]
    /\ queue \in [Readers -> Seq(Sequences_)]
    /\ out \in [Readers -> Seq(Sequences_)]
    /\ reader \in [Readers -> [view : {"loading", "answered", "shown", "error"},
                               conn : {"none", "open", "waiting"},
                               events : SUBSET Sequences_, finished : BOOLEAN]]
    /\ drops \in 0..MaxDrops /\ redisFaults \in 0..MaxRedisFaults

Init ==
    /\ LogInit
    /\ inbox = [i \in Instances |-> <<>>]
    /\ listening = [i \in Instances |-> IF UsesRedis THEN "on" ELSE "off"]
    /\ stream \in [Readers -> [pc : {"off"}, at : Instances, last : {0}]]
    /\ queue = [p \in Readers |-> <<>>]
    /\ out = [p \in Readers |-> <<>>]
    /\ reader = [p \in Readers |-> [view |-> "loading", conn |-> "none",
                                    events |-> {}, finished |-> FALSE]]
    /\ drops = 0 /\ redisFaults = 0

-----------------------------------------------------------------------------
(* The bus                                                                 *)

SeqOf(a) == CHOOSE n \in DOMAIN log : log[n] = a

\* The handler's queue is among the bus's subscribers.
Joined(p) == stream[p].pc \in {"replay", "live"}

\* EventBus._deliver on instance i.
Deliver(i, s) ==
    queue' = [p \in Readers |->
        IF Joined(p) /\ stream[p].at = i THEN Append(queue[p], s) ELSE queue[p]]

\* Without Redis nothing is awaited between the release of the append lock
\* and the delivery to the subscribers of the same instance.
Released(a) ==
    /\ IF UsesRedis
       THEN Release(a, "publish") /\ UNCHANGED queue
       ELSE Release(a, "done") /\ Deliver(call[a].at, SeqOf(a))
    /\ UNCHANGED <<busVars, stream, out, reader, drops>>

Broadcast(s) ==
    [i \in Instances |->
        IF listening[i] = "on" THEN Append(inbox[i], s) ELSE inbox[i]]

\* A call whose job is cancelled while it publishes: Redis took the message
\* or not, and nothing is delivered in its place.
PublishCancelled(a) ==
    /\ Cancelled(a)
    /\ \/ UNCHANGED inbox
       \/ call[a].pc = "publish" /\ inbox' = Broadcast(SeqOf(a))
    /\ UNCHANGED <<listening, redisFaults, streamVars, reader, drops>>

\* Redis takes the message and passes it to every connection that listens.
RedisPublish(a) ==
    /\ Published(a)
    /\ inbox' = Broadcast(SeqOf(a))
    /\ UNCHANGED <<listening, redisFaults, streamVars, reader, drops>>

\* The publish raises, before or after Redis took the message: publish
\* returns False and the event is delivered on this instance only.
RedisPublishFails(a) ==
    /\ redisFaults < MaxRedisFaults
    /\ redisFaults' = redisFaults + 1
    /\ Published(a)
    /\ \E taken \in BOOLEAN :
          inbox' = IF taken THEN Broadcast(SeqOf(a)) ELSE inbox
    /\ Deliver(call[a].at, SeqOf(a))
    /\ UNCHANGED <<listening, stream, out, reader, drops>>

\* RedisService.listen hands the next message to the bus.
ListenerDeliver(i) ==
    /\ listening[i] = "on" /\ inbox[i] # <<>>
    /\ Deliver(i, Head(inbox[i]))
    /\ inbox' = [inbox EXCEPT ![i] = Tail(@)]
    /\ UNCHANGED <<logVars, listening, redisFaults, stream, out, reader, drops>>

\* Any exception ends the listener task, and nothing starts it again.
ListenerDies(i) ==
    /\ listening[i] = "on" /\ redisFaults < MaxRedisFaults
    /\ redisFaults' = redisFaults + 1
    /\ listening' = [listening EXCEPT ![i] = "off"]
    /\ inbox' = [inbox EXCEPT ![i] = <<>>]
    /\ UNCHANGED <<logVars, streamVars, reader, drops>>

\* EventBus.start after a restart: the subscription reaches Redis.
ListenerStart(i) ==
    /\ listening[i] = "starting"
    /\ listening' = [listening EXCEPT ![i] = "on"]
    /\ UNCHANGED <<logVars, inbox, redisFaults, streamVars, reader, drops>>

-----------------------------------------------------------------------------
(* The handlers: subscribe, then replay, then follow.                      *)

StreamJoin(p) ==
    /\ stream[p].pc = "opened"
    /\ stream' = [stream EXCEPT ![p].pc = "replay"]
    /\ UNCHANGED <<logVars, busVars, queue, out, reader, drops>>

\* Mutant: the replay repeats the last event the client has.
StreamReplayInclusive(p) ==
    /\ stream[p].pc = "replay"
    /\ out' = [out EXCEPT ![p] =
           @ \o [k \in 1..(Len(log) + 1 - stream[p].last) |-> stream[p].last + k - 1]]
    /\ stream' = [stream EXCEPT ![p].pc = "live", ![p].last = Len(log)]
    /\ UNCHANGED <<logVars, busVars, queue, reader, drops>>

\* list_envelopes(after_sequence)
StreamReplay(p) ==
    /\ stream[p].pc = "replay"
    /\ out' = [out EXCEPT ![p] =
           @ \o [k \in 1..(Len(log) - stream[p].last) |-> stream[p].last + k]]
    /\ stream' = [stream EXCEPT ![p].pc = "live", ![p].last = Len(log)]
    /\ UNCHANGED <<logVars, busVars, queue, reader, drops>>

\* Mutant: the sequence of a live event is not looked at.
StreamSendAll(p) ==
    /\ stream[p].pc = "live" /\ queue[p] # <<>>
    /\ queue' = [queue EXCEPT ![p] = Tail(@)]
    /\ out' = [out EXCEPT ![p] = Append(@, Head(queue[p]))]
    /\ UNCHANGED <<logVars, busVars, stream, reader, drops>>

\* The handler sends only what is above the last sequence it sent.
StreamSend(p) ==
    /\ stream[p].pc = "live" /\ queue[p] # <<>>
    /\ queue' = [queue EXCEPT ![p] = Tail(@)]
    /\ LET s == Head(queue[p])
       IN IF s > stream[p].last
          THEN /\ out' = [out EXCEPT ![p] = Append(@, s)]
               /\ stream' = [stream EXCEPT ![p].last = s]
          ELSE UNCHANGED <<out, stream>>
    /\ UNCHANGED <<logVars, busVars, reader, drops>>

-----------------------------------------------------------------------------
(* The client                                                              *)

\* SessionUiState.latestSequence
Latest(p) == Max(reader[p].events \cup {0})

\* Mutant: the client asks for what is above the next sequence.
OpenPastNext(p, last) ==
    /\ \E i \in Instances :
          stream' = [stream EXCEPT ![p] = [pc |-> "opened", at |-> i, last |-> last + 1]]
    /\ queue' = [queue EXCEPT ![p] = <<>>]
    /\ out' = [out EXCEPT ![p] = <<>>]

\* A new request replaces the old one and reaches some instance.
Open(p, last) ==
    /\ \E i \in Instances :
          stream' = [stream EXCEPT ![p] = [pc |-> "opened", at |-> i, last |-> last]]
    /\ queue' = [queue EXCEPT ![p] = <<>>]
    /\ out' = [out EXCEPT ![p] = <<>>]

\* GET /tasks/{id}.  The task's row is written before or after the event of
\* its end, and is read before the events: it may say either.
ReaderSnapshot(p) ==
    /\ reader[p].view = "loading"
    /\ \E fin \in {FALSE, TerminalAppends # {}} :
          reader' = [reader EXCEPT ![p].view = "answered",
                                   ![p].events = DOMAIN log,
                                   ![p].finished = fin]
    /\ UNCHANGED <<logVars, busVars, streamVars, drops>>

\* The end of _init: the session is shown and subscribed to.
ReaderShow(p) ==
    /\ reader[p].view = "answered"
    /\ reader' = [reader EXCEPT ![p].view = "shown", ![p].conn = "open"]
    /\ Open(p, Latest(p))
    /\ UNCHANGED <<logVars, busVars, drops>>

\* The request fails: the screen shows the error and nothing is subscribed.
ReaderError(p) ==
    /\ reader[p].view \in {"loading", "answered"}
    /\ reader' = [reader EXCEPT ![p].view = "error"]
    /\ UNCHANGED <<logVars, busVars, streamVars, drops>>

\* refresh, by hand or after approve, reject and cancelTask.  _init stops
\* the reconnect timer; an open subscription stays.
ReaderRefresh(p) ==
    /\ reader[p].view \in {"shown", "error"}
    /\ reader' = [reader EXCEPT ![p].view = "loading",
                                ![p].conn = IF @ = "open" THEN @ ELSE "none"]
    /\ UNCHANGED <<logVars, busVars, streamVars, drops>>

\* _applyIncomingEvent drops what arrives while no session is shown.
ReaderEvent(p) ==
    /\ reader[p].conn = "open" /\ out[p] # <<>>
    /\ out' = [out EXCEPT ![p] = Tail(@)]
    /\ LET s == Head(out[p])
       IN reader' = IF reader[p].view = "shown"
                    THEN [reader EXCEPT
                             ![p].events = @ \cup {s},
                             ![p].finished = @ \/ log[s] \in TerminalAppends]
                    ELSE reader
    /\ UNCHANGED <<logVars, busVars, stream, queue, drops>>

\* Mutant: no timer is armed.
CutForGood(P) ==
    /\ stream' = [p \in Readers |->
           IF p \in P THEN [stream[p] EXCEPT !.pc = "off"] ELSE stream[p]]
    /\ queue' = [p \in Readers |-> IF p \in P THEN <<>> ELSE queue[p]]
    /\ out' = [p \in Readers |-> IF p \in P THEN <<>> ELSE out[p]]
    /\ reader' = [p \in Readers |->
           IF p \in P THEN [reader[p] EXCEPT !.conn = "none"] ELSE reader[p]]

\* The connections of P end.  _scheduleReconnect arms its timer only for a
\* session that is shown and whose task is not finished.
Cut(P) ==
    /\ stream' = [p \in Readers |->
           IF p \in P THEN [stream[p] EXCEPT !.pc = "off"] ELSE stream[p]]
    /\ queue' = [p \in Readers |-> IF p \in P THEN <<>> ELSE queue[p]]
    /\ out' = [p \in Readers |-> IF p \in P THEN <<>> ELSE out[p]]
    /\ reader' = [p \in Readers |->
           IF p \in P
           THEN [reader[p] EXCEPT !.conn =
                    IF reader[p].view = "shown" /\ ~reader[p].finished
                    THEN "waiting" ELSE "none"]
           ELSE reader[p]]

Drop(p) ==
    /\ reader[p].conn = "open" /\ drops < MaxDrops
    /\ drops' = drops + 1
    /\ Cut({p})
    /\ UNCHANGED <<logVars, busVars>>

\* The reconnect timer fires.
Reconnect(p) ==
    /\ reader[p].conn = "waiting"
    /\ reader' = [reader EXCEPT ![p].conn = "open"]
    /\ Open(p, Latest(p))
    /\ UNCHANGED <<logVars, busVars, drops>>

-----------------------------------------------------------------------------
LogOnly(A) == A /\ UNCHANGED <<busVars, streamVars, reader, drops>>

\* An instance dies with its calls, its listener and its connections.
Crash(i) ==
    /\ LogCrash(i)
    /\ listening' = [listening EXCEPT ![i] = IF UsesRedis THEN "starting" ELSE "off"]
    /\ inbox' = [inbox EXCEPT ![i] = <<>>]
    /\ Cut({p \in Readers : reader[p].conn = "open" /\ stream[p].at = i})
    /\ UNCHANGED <<drops, redisFaults>>

CallStep(a) ==
    \/ LogOnly(RowLock(a) \/ ReadMax(a) \/ Insert(a))
    \/ Released(a)
    \/ RedisPublish(a)

BusStep(i) == ListenerDeliver(i) \/ ListenerStart(i)

StreamStep(p) == StreamJoin(p) \/ StreamReplay(p) \/ StreamSend(p)

LoadStep(p) == ReaderSnapshot(p) \/ ReaderShow(p)

Next ==
    \/ \E a \in Appends :
          \/ LogOnly(AppendLock(a)) \/ CallStep(a)
          \/ RedisPublishFails(a) \/ PublishCancelled(a)
    \/ \E i \in Instances : BusStep(i) \/ ListenerDies(i) \/ Crash(i)
    \/ \E p \in Readers :
          \/ StreamStep(p) \/ LoadStep(p) \/ ReaderEvent(p) \/ Reconnect(p)
          \/ ReaderError(p) \/ ReaderRefresh(p) \/ Drop(p)

Spec == Init /\ [][Next]_vars

\* A call that was made goes on, a lock is handed to a waiter, a handler, a
\* listener, a request or a timer that can run does; users, crashes and
\* dropped connections are not forced.
FairSpec ==
    /\ Spec
    /\ \A a \in Appends : SF_vars(CallStep(a))
    /\ \A i \in Instances : WF_vars(BusStep(i))
    /\ \A p \in Readers :
          /\ WF_vars(StreamStep(p)) /\ WF_vars(LoadStep(p))
          /\ WF_vars(ReaderEvent(p)) /\ WF_vars(Reconnect(p))

-----------------------------------------------------------------------------
(* Properties                                                              *)

Shown(p) == reader[p].view = "shown"

\* A stream never goes back: what the handler has sent is in strictly
\* increasing order and above everything the phone already holds, whatever
\* order Redis delivers in, through drops, reloads and crashes.
StreamOrdered ==
    \A p \in Readers :
        /\ \A j, k \in DOMAIN out[p] : j < k => out[p][j] < out[p][k]
        /\ Shown(p) => \A e \in reader[p].events, k \in DOMAIN out[p] : e < out[p][k]

\* An append whose job was cancelled before it was published.
Skipped(n) == n \in DOMAIN log /\ call[log[n]].pc = "cancelled"

\* A phone resubscribes "from the last sequence we saw"
\* (session_controller.dart) and never asks for what is below it.  Without
\* Redis that loses nothing but rows no handler was ever given: what is below
\* the phone's cursor and not on the phone is an append that was committed
\* and whose job was cancelled before it was published (append_event).
GapsAreCancelled ==
    \A p \in Readers : Shown(p) =>
        \A n \in 1..Latest(p) : n \in reader[p].events \/ Skipped(n)

\* Every call that was made ends: the two locks of append_event are always
\* taken in the same order and given back, so no append waits forever.
AppendsEnd == \A a \in Appends : call[a].pc \in Running ~> call[a].pc \notin Running

Committed(n) == n \in DOMAIN log
Seen(p, n) == n \in reader[p].events \/ reader[p].view = "error"

\* The phone shows the end of the task and has no connection left: its
\* _scheduleReconnect arms no timer.
LeftAlone(p) == Shown(p) /\ reader[p].finished /\ reader[p].conn = "none"

\* Every committed event reaches every phone through dropped connections,
\* reloads and a restart of the backend, except for an append whose job was
\* cancelled, a screen that shows an error, and a phone that saw the end of
\* the task before its connection ended.
EventuallySeen ==
    \A p \in Readers, n \in Sequences_ :
        Committed(n) ~> Seen(p, n) \/ Skipped(n) \/ LeftAlone(p)

\* "Terminal tasks still subscribe - git operations emit events after
\* completion" (session_controller.dart): an event that is appended after the
\* end of the task reaches the phone as well.
LateEventsSeen ==
    \A p \in Readers, n \in Sequences_ :
        Committed(n) /\ (\E m \in 1..(n - 1) : log[m] \in TerminalAppends) ~> Seen(p, n)

=============================================================================
