--------------------------- MODULE EventStreamProofs ---------------------------
(***************************************************************************)
(* Proofs about the event log and its stream, for every number of          *)
(* instances, calls and readers: two calls are never between max(seq_no)   *)
(* and their insert at the same time, so no append is refused; the whole   *)
(* stream, bus, handlers and clients, only ever does to the log what       *)
(* EventLog allows; no stream goes back behind what the phone holds; and   *)
(* without Redis the cursor skips nothing but cancelled appends.           *)
(***************************************************************************)
EXTENDS EventStream, FiniteSetTheorems, SequenceTheorems,
        WellFoundedInduction, TLAPS

\* What the induction carries: the types and the ownership of the locks.
LogInv == LogTypeOK /\ LockInv

LEMMA LogInitInv == LogInit => LogInv
BY LogAssumption DEF LogInit, LogInv, LogTypeOK, LockInv, CallPc, Running, InLock, InRow

\* One append takes a step of its own call: everything it disturbs.
LEMMA AppendStep ==
    ASSUME LogInv, NEW a \in Appends,
           \/ AppendLock(a) \/ RowLock(a) \/ ReadMax(a) \/ Insert(a)
           \/ \E next \in {"publish", "done"} : Release(a, next)
           \/ Published(a) \/ Cancelled(a)
    PROVE  LogInv'
<1> USE LogAssumption DEF LogInv, CallPc, Running, InLock, InRow
<1>1. CASE AppendLock(a)
  <2>1. call[a].at \in Instances
    BY DEF LogTypeOK
  <2>2. LogTypeOK'
    BY <1>1, <2>1 DEF AppendLock, Step, LogTypeOK
  <2>3. LockInv'
    BY <1>1, <2>1 DEF AppendLock, Step, LogTypeOK, LockInv
  <2> QED BY <2>2, <2>3
<1>2. CASE RowLock(a)
  BY <1>2 DEF RowLock, Step, LogTypeOK, LockInv
<1>3. CASE ReadMax(a)
  <2>1. Len(log) \in Nat
    BY DEF LogTypeOK
  <2>2. LogTypeOK'
    BY <1>3, <2>1 DEF ReadMax, LogTypeOK
  <2>3. LockInv'
    BY <1>3, <2>1 DEF ReadMax, LogTypeOK, LockInv
  <2> QED BY <2>2, <2>3
<1>4. CASE Insert(a)
  <2>1. ~Taken(a)
    BY <1>4 DEF Insert, Taken, LogTypeOK, LockInv
  <2>2. LogTypeOK'
    <3>1. log' \in Seq(Appends)
      BY <1>4, <2>1 DEF Insert, LogTypeOK
    <3>2. call' \in [Appends -> [pc : CallPc, at : Instances, max : Nat]]
      BY <1>4, <2>1 DEF Insert, Step, LogTypeOK
    <3> QED BY <1>4, <2>1, <3>1, <3>2 DEF Insert, LogTypeOK
  <2>3. LockInv'
    BY <1>4, <2>1 DEF Insert, Step, LogTypeOK, LockInv
  <2> QED BY <2>2, <2>3
<1>5. CASE \E next \in {"publish", "done"} : Release(a, next)
  <2>1. PICK next \in {"publish", "done"} : Release(a, next)
    BY <1>5
  <2>2. /\ call[a].pc = "committed" /\ UNCHANGED <<log, rowLock, crashes>>
        /\ appendLock' = [appendLock EXCEPT ![call[a].at] = NoAppend]
        /\ call' = [call EXCEPT ![a].pc = next]
    BY <2>1 DEF Release, Step
  <2>3. LogTypeOK'
    BY <2>2 DEF LogTypeOK
  <2>4. LockInv'
    BY <2>2 DEF LogTypeOK, LockInv
  <2> QED BY <2>3, <2>4
<1>6. CASE Published(a)
  BY <1>6 DEF Published, Step, LogTypeOK, LockInv
<1>7. CASE Cancelled(a)
  <2>1. /\ call[a].pc \in Running /\ call' = [call EXCEPT ![a].pc = "cancelled"]
        /\ rowLock' = IF rowLock = a THEN NoAppend ELSE rowLock
        /\ appendLock' = [appendLock EXCEPT ![call[a].at] = IF @ = a THEN NoAppend ELSE @]
        /\ log' = log \/ (call[a].pc = "insert" /\ log' = Append(log, a))
        /\ UNCHANGED crashes
    BY <1>7 DEF Cancelled, Step
  <2>2. LogTypeOK'
    <3>1. log' \in Seq(Appends)
      <4>1. log \in Seq(Appends) /\ Append(log, a) \in Seq(Appends)
        BY AppendProperties DEF LogTypeOK
      <4> QED BY <2>1, <4>1
    <3>2. call' \in [Appends -> [pc : CallPc, at : Instances, max : Nat]]
      BY <2>1 DEF LogTypeOK
    <3>3. rowLock' \in Appends \cup {NoAppend}
      BY <2>1 DEF LogTypeOK
    <3>4. appendLock' \in [Instances -> Appends \cup {NoAppend}]
      <4>1. (IF appendLock[call[a].at] = a THEN NoAppend ELSE appendLock[call[a].at])
               \in Appends \cup {NoAppend}
        BY DEF LogTypeOK
      <4> QED BY <2>1, <4>1 DEF LogTypeOK
    <3> QED BY <2>1, <3>1, <3>2, <3>3, <3>4 DEF LogTypeOK
  <2>3. /\ \A b \in Appends : /\ call'[b].at = call[b].at /\ call'[b].max = call[b].max
                              /\ call'[b].pc = IF b = a THEN "cancelled" ELSE call[b].pc
        /\ \A i \in Instances : appendLock'[i] = IF appendLock[i] = a /\ i = call[a].at
                                                 THEN NoAppend ELSE appendLock[i]
    BY <2>1 DEF LogTypeOK
  <2>4. LockInv'
    <3>1. \A b \in Appends : b # a /\ call[b].pc \in InRow => log' = log
      BY <2>1 DEF LockInv, LogTypeOK
    <3>2. \A b \in Appends : call'[b].pc \in InRow => rowLock' = b
      BY <2>1, <2>3 DEF LockInv
    <3>3. \A b \in Appends : call'[b].pc \in InLock => appendLock'[call'[b].at] = b
      BY <2>1, <2>3 DEF LockInv, LogTypeOK
    <3>4. rowLock' # NoAppend => call'[rowLock'].pc \in InRow
      BY <2>1, <2>3 DEF LockInv, LogTypeOK
    <3>5. \A i \in Instances : appendLock'[i] # NoAppend =>
             /\ call'[appendLock'[i]].at = i
             /\ call'[appendLock'[i]].pc \in InLock
      BY <2>1, <2>3 DEF LockInv, LogTypeOK
    <3>6. \A b \in Appends : call'[b].pc = "insert" => call'[b].max = Len(log')
      BY <2>3, <3>1 DEF LockInv
    <3> QED BY <3>2, <3>3, <3>4, <3>5, <3>6 DEF LockInv
  <2> QED BY <2>2, <2>4
<1> QED BY <1>1, <1>2, <1>3, <1>4, <1>5, <1>6, <1>7

\* A crash takes the locks of its own calls with it and no others.
LEMMA CrashStep ==
    ASSUME LogInv, NEW i \in Instances, LogCrash(i)
    PROVE  LogInv'
<1> USE LogAssumption DEF LogInv, CallPc, Running, InLock, InRow
<1>1. LogTypeOK'
  <2>1. ASSUME NEW a \in Appends
        PROVE  [call[a] EXCEPT !.pc = "lost"] \in [pc : CallPc, at : Instances, max : Nat]
    BY DEF LogTypeOK
  <2>2. call' \in [Appends -> [pc : CallPc, at : Instances, max : Nat]]
    BY <2>1 DEF LogCrash, LogTypeOK
  <2> QED BY <2>2 DEF LogCrash, LogTypeOK
<1>2. LockInv'
  <2>1. \A a \in Appends : call'[a].at = call[a].at
    BY DEF LogCrash, LogTypeOK
  <2>2. \A a \in Appends : call'[a].pc = IF Down(i, a) THEN "lost" ELSE call[a].pc
    BY DEF LogCrash, LogTypeOK
  <2>3. \A a \in Appends : call'[a].max = call[a].max
    BY DEF LogCrash, LogTypeOK
  <2>4. \A a \in Appends : call[a].pc \in Running => (Down(i, a) <=> call[a].at = i)
    BY DEF Down
  <2> QED BY <2>1, <2>2, <2>3, <2>4 DEF LogCrash, LogTypeOK, LockInv
<1> QED BY <1>1, <1>2

LEMMA LogStepInv == LogInv /\ [LogNext]_logVars => LogInv'
<1> SUFFICES ASSUME LogInv, [LogNext]_logVars PROVE LogInv'
  OBVIOUS
<1>1. CASE LogNext
  BY <1>1, AppendStep, CrashStep DEF LogNext
<1>2. CASE UNCHANGED logVars
  BY <1>2 DEF logVars, LogInv, LogTypeOK, LockInv, InLock, InRow
<1> QED BY <1>1, <1>2

\* A call that is refused would have read a max_seq that is not current.
LEMMA NeverRefused == LogInv /\ AppendNeverCollides /\ [LogNext]_logVars => AppendNeverCollides'
<1> SUFFICES ASSUME LogInv, AppendNeverCollides, [LogNext]_logVars,
                    NEW a \in Appends
             PROVE  call'[a].pc # "raised"
  BY DEF AppendNeverCollides
<1> USE DEF LogInv, LogTypeOK, AppendNeverCollides, CallPc, Running, InLock, InRow
<1>1. ASSUME NEW b \in Appends, Insert(b) PROVE call'[a].pc # "raised"
  <2>1. ~Taken(b)
    BY <1>1 DEF Insert, Taken, LockInv
  <2> QED BY <1>1, <2>1 DEF Insert, Step
<1>2. ASSUME NEW b \in Appends,
             AppendLock(b) \/ RowLock(b) \/ ReadMax(b) \/ Published(b)
      PROVE  call'[a].pc # "raised"
  BY <1>2 DEF AppendLock, RowLock, ReadMax, Published, Step
<1>c. ASSUME NEW b \in Appends, Cancelled(b) PROVE call'[a].pc # "raised"
  <2>1. call' = [call EXCEPT ![b].pc = "cancelled"]
    BY <1>c DEF Cancelled, Step
  <2> QED BY <2>1
<1>3. ASSUME NEW b \in Appends, NEW next \in {"publish", "done"}, Release(b, next)
      PROVE  call'[a].pc # "raised"
  BY <1>3 DEF Release, Step
<1>4. ASSUME NEW i \in Instances, LogCrash(i) PROVE call'[a].pc # "raised"
  BY <1>4 DEF LogCrash
<1>5. CASE UNCHANGED logVars
  BY <1>5 DEF logVars
<1> QED BY <1>1, <1>2, <1>c, <1>3, <1>4, <1>5 DEF LogNext

-----------------------------------------------------------------------------
\* No append to the log is ever refused by the unique constraint, for any
\* number of instances, concurrent calls and crashes (append_event).
THEOREM LogNeverCollides == LogSpec => []AppendNeverCollides
<1>1. LogInit => LogInv /\ AppendNeverCollides
  BY LogInitInv DEF LogInit, AppendNeverCollides
<1>2. LogInv /\ AppendNeverCollides /\ [LogNext]_logVars
          => (LogInv /\ AppendNeverCollides)'
  BY LogStepInv, NeverRefused
<1> QED BY <1>1, <1>2, PTL DEF LogSpec

\* Every step of the event stream is a step of the log or leaves it alone.
LEMMA StreamStepsLog == [Next]_vars => [LogNext]_logVars
<1> SUFFICES ASSUME [Next]_vars PROVE [LogNext]_logVars
  OBVIOUS
<1>1. ASSUME NEW a \in Appends,
             \/ LogOnly(AppendLock(a)) \/ CallStep(a)
             \/ RedisPublishFails(a) \/ PublishCancelled(a)
      PROVE  LogNext
  <2>1. CASE LogOnly(AppendLock(a))
    BY <2>1 DEF LogOnly, LogNext
  <2>2. CASE LogOnly(RowLock(a) \/ ReadMax(a) \/ Insert(a))
    BY <2>2 DEF LogOnly, LogNext
  <2>3. CASE Released(a)
    BY <2>3 DEF Released, LogNext
  <2>4. CASE RedisPublish(a) \/ RedisPublishFails(a) \/ PublishCancelled(a)
    BY <2>4 DEF RedisPublish, RedisPublishFails, PublishCancelled, LogNext
  <2> QED BY <1>1, <2>1, <2>2, <2>3, <2>4 DEF CallStep
<1>2. ASSUME NEW i \in Instances, BusStep(i) \/ ListenerDies(i) \/ Crash(i)
      PROVE  [LogNext]_logVars
  BY <1>2 DEF BusStep, ListenerDeliver, ListenerStart, ListenerDies, Crash, LogNext
<1>3. ASSUME NEW p \in Readers,
             \/ StreamStep(p) \/ LoadStep(p) \/ ReaderEvent(p) \/ Reconnect(p)
             \/ ReaderError(p) \/ ReaderRefresh(p) \/ Drop(p)
      PROVE  UNCHANGED logVars
  BY <1>3 DEF StreamStep, StreamJoin, StreamReplay, StreamSend, LoadStep,
              ReaderSnapshot, ReaderShow, ReaderEvent, Reconnect, ReaderError,
              ReaderRefresh, Drop
<1>4. CASE UNCHANGED vars
  BY <1>4 DEF vars
<1> QED BY <1>1, <1>2, <1>3, <1>4 DEF Next

\* The detailed event stream implements the event log on its own.
THEOREM StreamImplementsLog == Spec => LogSpec
<1>1. Init => LogInit
  BY DEF Init
<1> QED BY <1>1, StreamStepsLog, PTL DEF Spec, LogSpec

\* With the bus, Redis, the handlers and the clients around it, no append is
\* refused either.
THEOREM NeverCollides == Spec => []AppendNeverCollides
BY StreamImplementsLog, LogNeverCollides, PTL

-----------------------------------------------------------------------------
(* The order of the stream.                                                *)

\* A non-empty set of natural numbers has a least element.
LEMMA LeastOf ==
    ASSUME NEW S, S \subseteq Nat, S # {}
    PROVE  \E m \in S : \A y \in S : m <= y
<1> DEFINE R == OpToRel(<, Nat)
<1>1. IsWellFoundedOn(R, Nat)
  BY NatLessThanWellFounded
<1>2. \A x, y \in Nat : x < y => <<x, y>> \in R
  BY DEF OpToRel
<1> HIDE DEF R
<1>3. \E m \in S : \A y \in S : ~(<<y, m>> \in R)
  BY <1>1, WFMin
<1>4. PICK m \in S : \A y \in S : ~(<<y, m>> \in R)
  BY <1>3
<1>5. \A y \in S : ~(y < m)
  BY <1>2, <1>4
<1> QED BY <1>5

\* Max is the greatest element of a non-empty, bounded set of naturals.
LEMMA MaxOf ==
    ASSUME NEW n \in Nat, NEW S, S \subseteq 0..n, S # {}
    PROVE  Max(S) \in S /\ \A y \in S : y <= Max(S)
<1> DEFINE T == {n - x : x \in S}
<1>1. T \subseteq Nat /\ T # {}
  <2>1. \A x \in S : n - x \in Nat
    OBVIOUS
  <2> QED BY <2>1
<1>2. PICK m \in T : \A y \in T : m <= y
  BY <1>1, LeastOf
<1>3. PICK x \in S : m = n - x
  BY <1>2
<1>4. \A y \in S : x >= y
  <2> SUFFICES ASSUME NEW y \in S PROVE x >= y
    OBVIOUS
  <2>1. n - y \in T
    OBVIOUS
  <2>2. n - x <= n - y
    BY <2>1, <1>2, <1>3
  <2> QED BY <2>2
<1> QED BY <1>4 DEF Max

\* The rows of the log are the calls that have committed, each one once.
Written == {"committed", "publish", "done", "cancelled", "lost"}
RowsInv ==
    /\ \A n \in 1..Len(log) : call[log[n]].pc \in Written
    /\ \A m, n \in 1..Len(log) : log[m] = log[n] => m = n
    /\ \A a \in Appends : call[a].pc \in {"committed", "publish"}
                             => \E n \in 1..Len(log) : log[n] = a

LEMMA RowsStep == LogInv /\ RowsInv /\ [LogNext]_logVars => RowsInv'
<1> SUFFICES ASSUME LogInv, RowsInv, [LogNext]_logVars PROVE RowsInv'
  OBVIOUS
<1> USE DEF LogInv, LogTypeOK, Written
<1>0. \A n \in 1..Len(log) : log[n] \in Appends
  OBVIOUS
<1>1. ASSUME NEW a \in Appends, call[a].pc = "insert", log' = Append(log, a),
             NEW end \in {"committed", "cancelled"}, call' = [call EXCEPT ![a].pc = end]
      PROVE  RowsInv'
  <2>1. call[a].pc = "insert"
    BY <1>1
  <2>2. log' = Append(log, a) /\ call' = [call EXCEPT ![a].pc = end]
    BY <1>1
  <2>3. Len(log') = Len(log) + 1 /\ log'[Len(log) + 1] = a /\ \A n \in 1..Len(log) : log'[n] = log[n]
    BY <2>2
  <2>4. \A n \in 1..Len(log) : log[n] # a
    BY <2>1 DEF RowsInv
  <2>5. \A b \in Appends : call'[b].pc = IF b = a THEN end ELSE call[b].pc
    BY <2>2
  <2>6. Len(log) \in Nat
    OBVIOUS
  <2>7. \A n \in 1..Len(log') : n = Len(log) + 1 \/ n \in 1..Len(log)
    BY <2>3, <2>6
  <2>8. Len(log) + 1 \in 1..Len(log') /\ \A n \in 1..Len(log) : n \in 1..Len(log')
    BY <2>3, <2>6
  <2>9. \A n \in 1..Len(log') : call'[log'[n]].pc \in Written
    <3>1. call'[a].pc \in Written
      BY <2>5
    <3>2. ASSUME NEW n \in 1..Len(log) PROVE call'[log[n]].pc \in Written
      BY <2>4, <2>5, <1>0 DEF RowsInv
    <3> QED BY <2>3, <2>7, <3>1, <3>2
  <2>10. \A m, n \in 1..Len(log') : log'[m] = log'[n] => m = n
    BY <2>3, <2>4, <2>7 DEF RowsInv
  <2>11. \A b \in Appends : call'[b].pc \in {"committed", "publish"}
                                => \E n \in 1..Len(log') : log'[n] = b
    <3> SUFFICES ASSUME NEW b \in Appends, b # a, call[b].pc \in {"committed", "publish"}
                 PROVE  \E n \in 1..Len(log') : log'[n] = b
      BY <2>3, <2>5, <2>8
    <3>1. PICK n \in 1..Len(log) : log[n] = b
      BY DEF RowsInv
    <3> QED BY <3>1, <2>3, <2>8
  <2> QED BY <2>9, <2>10, <2>11 DEF RowsInv
<1>2. ASSUME NEW a \in Appends, AppendLock(a) \/ RowLock(a) \/ ReadMax(a) PROVE RowsInv'
  <2>1. UNCHANGED log /\ call[a].pc \notin Written
    BY <1>2 DEF AppendLock, RowLock, ReadMax
  <2>2. /\ \A b \in Appends : b # a => call'[b] = call[b]
        /\ call'[a].pc \notin {"committed", "publish"}
    BY <1>2 DEF AppendLock, RowLock, ReadMax, Step
  <2> QED BY <2>1, <2>2, <1>0 DEF RowsInv
<1>3. ASSUME NEW a \in Appends, Published(a) \/ \E next \in {"publish", "done"} : Release(a, next)
      PROVE  RowsInv'
  <2>1. UNCHANGED log /\ call[a].pc \in {"committed", "publish"} /\ call'[a].pc \in Written
    BY <1>3 DEF Release, Published, Step
  <2>2. \A b \in Appends : b # a => call'[b] = call[b]
    BY <1>3 DEF Release, Published, Step
  <2> QED BY <2>1, <2>2, <1>0 DEF RowsInv
<1>i. ASSUME NEW a \in Appends, Insert(a) PROVE RowsInv'
  <2>1. ~Taken(a) /\ call[a].pc = "insert"
    BY <1>i DEF Insert, Taken, LockInv
  <2>2. log' = Append(log, a) /\ call' = [call EXCEPT ![a].pc = "committed"]
    BY <1>i, <2>1 DEF Insert, Step
  <2> QED BY <1>1, <2>1, <2>2
<1>c. ASSUME NEW a \in Appends, Cancelled(a) PROVE RowsInv'
  <2>1. call' = [call EXCEPT ![a].pc = "cancelled"]
    BY <1>c DEF Cancelled, Step
  <2>2. CASE log' = log
    <3>1. \A b \in Appends : call'[b].pc = IF b = a THEN "cancelled" ELSE call[b].pc
      BY <2>1
    <3> QED BY <2>2, <3>1, <1>0 DEF RowsInv
  <2>3. CASE call[a].pc = "insert" /\ log' = Append(log, a)
    BY <1>1, <2>1, <2>3
  <2> QED BY <1>c, <2>2, <2>3 DEF Cancelled
<1>4. ASSUME NEW i \in Instances, LogCrash(i) PROVE RowsInv'
  <2>1. \A b \in Appends : call'[b].pc = IF Down(i, b) THEN "lost" ELSE call[b].pc
    BY <1>4 DEF LogCrash
  <2> QED BY <2>1, <1>0, <1>4 DEF RowsInv, LogCrash
<1>5. CASE UNCHANGED logVars
  BY <1>5 DEF logVars, RowsInv
<1> QED BY <1>i, <1>c, <1>2, <1>3, <1>4, <1>5 DEF LogNext

\* There are no more sequence numbers than calls.
LEMMA RowsBounded ==
    ASSUME LogInv, RowsInv
    PROVE  Len(log) \in Nat /\ 1..Len(log) \subseteq Sequences_ /\ Cardinality(Appends) \in Nat
<1>1. Len(log) \in Nat /\ log \in [1..Len(log) -> Appends]
  BY DEF LogInv, LogTypeOK
<1>2. log \in Injection(1..Len(log), Appends)
  BY <1>1 DEF RowsInv, Injection, IsInjective
<1>3. Cardinality(1..Len(log)) <= Cardinality(Appends)
  BY <1>2, StreamAssumption, FS_Injection
<1>4. Cardinality(1..Len(log)) = Len(log)
  BY <1>1, FS_Interval
<1>5. Cardinality(Appends) \in Nat
  BY StreamAssumption, FS_CardinalityType
<1> QED BY <1>1, <1>3, <1>4, <1>5 DEF Sequences_

\* A call that publishes has a sequence number.
LEMMA SeqOfRow ==
    ASSUME LogInv, RowsInv, NEW a \in Appends, call[a].pc \in {"committed", "publish"}
    PROVE  SeqOf(a) \in 1..Len(log) /\ log[SeqOf(a)] = a
<1>1. DOMAIN log = 1..Len(log)
  BY DEF LogInv, LogTypeOK
<1> QED BY <1>1 DEF SeqOf, RowsInv

\* Everything that is on its way to a reader, or is there, is a row's number.
RowTypes ==
    /\ inbox \in [Instances -> Seq(1..Len(log))]
    /\ listening \in [Instances -> {"off", "starting", "on"}]
    /\ stream \in [Readers -> [pc : {"off", "opened", "replay", "live"},
                               at : Instances, last : 0..Len(log)]]
    /\ queue \in [Readers -> Seq(1..Len(log))]
    /\ out \in [Readers -> Seq(1..Len(log))]
    /\ reader \in [Readers -> [view : {"loading", "answered", "shown", "error"},
                               conn : {"none", "open", "waiting"},
                               events : SUBSET (1..Len(log)), finished : BOOLEAN]]
    /\ drops \in 0..MaxDrops /\ redisFaults \in 0..MaxRedisFaults

\* A handler h serves an open connection, sends nothing before the replay and
\* nothing above its cursor; the cursor is not below what a shown reader r
\* holds, and what is on its way, o, is in order and above it.
Fits(h, o, r) ==
    /\ h.pc = "off" <=> r.conn # "open"
    /\ h.pc # "live" => o = <<>>
    /\ \A k \in DOMAIN o : o[k] <= h.last
    /\ \A j, k \in DOMAIN o : j < k => o[j] < o[k]
    /\ r.view = "shown" /\ r.conn = "open" => \A e \in r.events : e <= h.last
    /\ r.view = "shown" => \A e \in r.events, k \in DOMAIN o : e < o[k]

Follows(p) == Fits(stream[p], out[p], reader[p])

StreamInv == LogInv /\ RowsInv /\ RowTypes /\ \A p \in Readers : Follows(p)

LEMMA StreamInitInv == Init => StreamInv
<1> SUFFICES ASSUME Init PROVE StreamInv
  OBVIOUS
<1>1. log = <<>> /\ Len(log) = 0 /\ LogInv
  BY LogInitInv DEF Init, LogInit
<1>2. RowsInv
  BY <1>1 DEF Init, LogInit, RowsInv
<1>3. RowTypes
  BY <1>1, StreamAssumption DEF Init, RowTypes
<1>4. \A p \in Readers : Follows(p)
  BY DEF Init, Follows, Fits
<1> QED BY <1>1, <1>2, <1>3, <1>4 DEF StreamInv

\* The types of the module follow, since there are no more rows than calls.
LEMMA StreamInvTypes == StreamInv => StreamTypeOK
<1> SUFFICES ASSUME StreamInv PROVE StreamTypeOK
  OBVIOUS
<1>1. Len(log) \in Nat /\ 1..Len(log) \subseteq Sequences_
  BY RowsBounded DEF StreamInv
<1>2. \A s \in Seq(1..Len(log)) : s \in Seq(Sequences_)
  BY <1>1, SeqMonotonic
<1>3. /\ inbox \in [Instances -> Seq(Sequences_)]
      /\ queue \in [Readers -> Seq(Sequences_)] /\ out \in [Readers -> Seq(Sequences_)]
  BY <1>2 DEF StreamInv, RowTypes
<1>4. stream \in [Readers -> [pc : {"off", "opened", "replay", "live"}, at : Instances, last : Nat]]
  BY <1>1 DEF StreamInv, RowTypes
<1>5. reader \in [Readers -> [view : {"loading", "answered", "shown", "error"},
                              conn : {"none", "open", "waiting"},
                              events : SUBSET Sequences_, finished : BOOLEAN]]
  BY <1>1 DEF StreamInv, RowTypes
<1> QED BY <1>3, <1>4, <1>5 DEF StreamInv, RowTypes, StreamTypeOK, LogInv

\* Growth of the log disturbs nothing of what is under way.
LEMMA RowTypesGrow ==
    ASSUME LogInv, RowTypes, LogInv', Len(log) <= Len(log'), UNCHANGED <<busVars, streamVars, reader, drops>>
    PROVE  RowTypes'
<1>1. Len(log) \in Nat /\ Len(log') \in Nat
  BY DEF LogInv, LogTypeOK
<1>2. 1..Len(log) \subseteq 1..Len(log') /\ 0..Len(log) \subseteq 0..Len(log')
  BY <1>1
<1>3. \A s \in Seq(1..Len(log)) : s \in Seq(1..Len(log'))
  BY <1>2, SeqMonotonic
<1>4. UNCHANGED <<inbox, listening, stream, queue, out, reader, drops, redisFaults>>
  BY DEF busVars, streamVars
<1>5. /\ inbox \in [Instances -> Seq(1..Len(log'))]
      /\ queue \in [Readers -> Seq(1..Len(log'))] /\ out \in [Readers -> Seq(1..Len(log'))]
  BY <1>3 DEF RowTypes
<1>6. stream \in [Readers -> [pc : {"off", "opened", "replay", "live"}, at : Instances, last : 0..Len(log')]]
  BY <1>2 DEF RowTypes
<1>7. reader \in [Readers -> [view : {"loading", "answered", "shown", "error"},
                              conn : {"none", "open", "waiting"},
                              events : SUBSET (1..Len(log')), finished : BOOLEAN]]
  BY <1>2 DEF RowTypes
<1> QED BY <1>4, <1>5, <1>6, <1>7 DEF RowTypes

\* Where nothing of a reader changes, it follows as before.
LEMMA FollowsSame ==
    ASSUME NEW p \in Readers, Follows(p),
           stream'[p] = stream[p], out'[p] = out[p], reader'[p] = reader[p]
    PROVE  Follows(p)'
BY DEF Follows

\* Delivering a row's number adds it to queues and to nothing else.
LEMMA DeliverTyped ==
    ASSUME RowTypes, NEW i \in Instances, NEW s \in 1..Len(log), Deliver(i, s)
    PROVE  queue' \in [Readers -> Seq(1..Len(log))]
<1>1. \A p \in Readers : queue[p] \in Seq(1..Len(log)) /\ Append(queue[p], s) \in Seq(1..Len(log))
  BY AppendProperties DEF RowTypes
<1> QED BY <1>1 DEF Deliver

LEMMA BroadcastTyped ==
    ASSUME RowTypes, NEW s \in 1..Len(log)
    PROVE  Broadcast(s) \in [Instances -> Seq(1..Len(log))]
<1>1. \A i \in Instances : inbox[i] \in Seq(1..Len(log)) /\ Append(inbox[i], s) \in Seq(1..Len(log))
  BY AppendProperties DEF RowTypes
<1> QED BY <1>1 DEF Broadcast

LEMMA TailTyped ==
    ASSUME NEW S, NEW s \in Seq(S), s # <<>>
    PROVE  /\ Head(s) \in S /\ Tail(s) \in Seq(S)
           /\ Len(Tail(s)) = Len(s) - 1 /\ Len(s) \in Nat \ {0}
           /\ DOMAIN s = 1..Len(s) /\ DOMAIN Tail(s) = 1..(Len(s) - 1)
           /\ s[1] = Head(s) /\ \A k \in 1..(Len(s) - 1) : Tail(s)[k] = s[k + 1]
BY HeadTailProperties, LenProperties, EmptySeq

\* The steps of the calls and of the bus.
LEMMA CallSteps ==
    ASSUME StreamInv, LogInv', RowsInv', NEW a \in Appends,
           LogOnly(AppendLock(a)) \/ CallStep(a) \/ RedisPublishFails(a)
    PROVE  StreamInv'
<1> USE DEF StreamInv
<1>1. CASE LogOnly(AppendLock(a) \/ RowLock(a) \/ ReadMax(a) \/ Insert(a))
  <2>1. UNCHANGED <<busVars, streamVars, reader, drops>>
    BY <1>1 DEF LogOnly
  <2>2. Len(log) <= Len(log')
    BY <1>1 DEF LogOnly, AppendLock, RowLock, ReadMax, Insert, LogInv, LogTypeOK
  <2>3. RowTypes'
    BY <2>1, <2>2, RowTypesGrow
  <2>4. \A p \in Readers : Follows(p)'
    BY <2>1, FollowsSame DEF streamVars
  <2> QED BY <2>3, <2>4
<1>2. CASE Released(a) \/ RedisPublish(a) \/ RedisPublishFails(a)
  <2>1. SeqOf(a) \in 1..Len(log) /\ call[a].at \in Instances
    BY <1>2, SeqOfRow
    DEF Released, RedisPublish, RedisPublishFails, Release, Published, LogInv, LogTypeOK
  <2>2. /\ UNCHANGED <<log, listening, stream, out, reader, drops>>
        /\ queue' = queue \/ Deliver(call[a].at, SeqOf(a))
        /\ inbox' = inbox \/ inbox' = Broadcast(SeqOf(a))
        /\ redisFaults' \in 0..MaxRedisFaults
    BY <1>2, StreamAssumption
    DEF Released, RedisPublish, RedisPublishFails, Release, Published, busVars, streamVars, RowTypes
  <2>3. RowTypes'
    BY <2>1, <2>2, DeliverTyped, BroadcastTyped DEF RowTypes
  <2>4. \A p \in Readers : Follows(p)'
    BY <2>2, FollowsSame
  <2> QED BY <2>3, <2>4
<1>3. LogOnly(AppendLock(a)) \/ LogOnly(RowLock(a) \/ ReadMax(a) \/ Insert(a))
         => LogOnly(AppendLock(a) \/ RowLock(a) \/ ReadMax(a) \/ Insert(a))
  BY DEF LogOnly
<1> QED BY <1>1, <1>2, <1>3 DEF CallStep

\* A cancelled call leaves the log as it is, or one row longer.
LEMMA CancelSteps ==
    ASSUME StreamInv, LogInv', RowsInv', NEW a \in Appends, PublishCancelled(a)
    PROVE  StreamInv'
<1> USE DEF StreamInv
<1>1. UNCHANGED <<listening, stream, queue, out, reader, drops, redisFaults>>
  BY DEF PublishCancelled, streamVars
<1>2. CASE UNCHANGED inbox
  <2>1. UNCHANGED <<busVars, streamVars, reader, drops>>
    BY <1>1, <1>2 DEF busVars, streamVars
  <2>2. Len(log) <= Len(log')
    BY DEF PublishCancelled, Cancelled, LogInv, LogTypeOK
  <2>3. RowTypes'
    BY <2>1, <2>2, RowTypesGrow
  <2> QED BY <1>1, <2>3, FollowsSame
<1>3. CASE call[a].pc = "publish" /\ inbox' = Broadcast(SeqOf(a))
  <2>1. SeqOf(a) \in 1..Len(log) /\ UNCHANGED log
    BY <1>3, SeqOfRow DEF PublishCancelled, Cancelled
  <2>2. RowTypes'
    BY <1>1, <1>3, <2>1, BroadcastTyped DEF RowTypes
  <2> QED BY <1>1, <2>2, FollowsSame
<1> QED BY <1>2, <1>3 DEF PublishCancelled

LEMMA BusSteps ==
    ASSUME StreamInv, LogInv', RowsInv', NEW i \in Instances, BusStep(i) \/ ListenerDies(i)
    PROVE  StreamInv'
<1> USE DEF StreamInv
<1>1. UNCHANGED <<log, stream, out, reader, drops>>
  BY DEF BusStep, ListenerDeliver, ListenerStart, ListenerDies, logVars, streamVars
<1>2. CASE ListenerDeliver(i)
  <2>1. inbox[i] \in Seq(1..Len(log)) /\ inbox[i] # <<>>
    BY <1>2 DEF ListenerDeliver, RowTypes
  <2>2. Head(inbox[i]) \in 1..Len(log) /\ Tail(inbox[i]) \in Seq(1..Len(log))
    BY <2>1, TailTyped
  <2>3. queue' \in [Readers -> Seq(1..Len(log))]
    BY <1>2, <2>2, DeliverTyped DEF ListenerDeliver
  <2>4. inbox' \in [Instances -> Seq(1..Len(log))]
    BY <1>2, <2>2 DEF ListenerDeliver, RowTypes
  <2> QED BY <1>1, <1>2, <2>3, <2>4, FollowsSame DEF ListenerDeliver, RowTypes
<1>3. CASE ListenerStart(i) \/ ListenerDies(i)
  <2>0. <<>> \in Seq(1..Len(log)) /\ inbox \in [Instances -> Seq(1..Len(log))]
    BY DEF RowTypes
  <2>1. /\ listening' \in [Instances -> {"off", "starting", "on"}] /\ UNCHANGED queue
        /\ inbox = inbox' \/ inbox' = [inbox EXCEPT ![i] = <<>>]
    BY <1>3 DEF ListenerStart, ListenerDies, RowTypes, streamVars
  <2>2. redisFaults' \in 0..MaxRedisFaults
    BY <1>3, StreamAssumption DEF ListenerStart, ListenerDies, RowTypes
  <2>3. RowTypes'
    <3>1. inbox' \in [Instances -> Seq(1..Len(log))]
      BY <2>0, <2>1
    <3> QED BY <1>1, <2>1, <2>2, <3>1 DEF RowTypes
  <2> QED BY <1>1, <2>3, FollowsSame
<1> QED BY <1>2, <1>3 DEF BusStep

\* A connection that ends leaves a reader with what it has.
LEMMA CutSteps ==
    ASSUME RowTypes, \A p \in Readers : Follows(p), NEW P \in SUBSET Readers, Cut(P), UNCHANGED log
    PROVE  /\ stream' \in [Readers -> [pc : {"off", "opened", "replay", "live"},
                                       at : Instances, last : 0..Len(log)]]
           /\ queue' \in [Readers -> Seq(1..Len(log))]
           /\ out' \in [Readers -> Seq(1..Len(log))]
           /\ reader' \in [Readers -> [view : {"loading", "answered", "shown", "error"},
                                       conn : {"none", "open", "waiting"},
                                       events : SUBSET (1..Len(log)), finished : BOOLEAN]]
           /\ \A p \in Readers : Follows(p)'
<1>1. \A p \in Readers : [stream[p] EXCEPT !.pc = "off"]
                             \in [pc : {"off", "opened", "replay", "live"}, at : Instances, last : 0..Len(log)]
  BY DEF RowTypes
<1>2. \A p \in Readers, cn \in {"none", "waiting"} : [reader[p] EXCEPT !.conn = cn]
                             \in [view : {"loading", "answered", "shown", "error"},
                                  conn : {"none", "open", "waiting"},
                                  events : SUBSET (1..Len(log)), finished : BOOLEAN]
  BY DEF RowTypes
<1>3. <<>> \in Seq(1..Len(log))
  OBVIOUS
<1>4. \A p \in Readers : Follows(p)'
  <2> SUFFICES ASSUME NEW p \in Readers PROVE Follows(p)'
    OBVIOUS
  <2>1. CASE p \in P
    <3>1. stream'[p].pc = "off" /\ out'[p] = <<>> /\ reader'[p].conn # "open"
      BY <2>1 DEF Cut, RowTypes
    <3> QED BY <3>1 DEF Follows, Fits
  <2>2. CASE p \notin P
    BY <2>2, FollowsSame DEF Cut
  <2> QED BY <2>1, <2>2
<1> QED BY <1>1, <1>2, <1>3, <1>4 DEF Cut, RowTypes

LEMMA CrashSteps ==
    ASSUME StreamInv, LogInv', RowsInv', NEW i \in Instances, Crash(i)
    PROVE  StreamInv'
<1>1. UNCHANGED <<log, drops, redisFaults>>
  BY DEF Crash, LogCrash
<1>2. inbox' \in [Instances -> Seq(1..Len(log))] /\ listening' \in [Instances -> {"off", "starting", "on"}]
  BY DEF Crash, StreamInv, RowTypes
<1>3. PICK P \in SUBSET Readers : Cut(P)
  BY DEF Crash
<1> QED BY <1>1, <1>2, <1>3, CutSteps DEF StreamInv, RowTypes

LEMMA DropSteps ==
    ASSUME StreamInv, LogInv', RowsInv', NEW p \in Readers, Drop(p)
    PROVE  StreamInv'
<1>1. UNCHANGED <<log, inbox, listening, redisFaults>> /\ drops' \in 0..MaxDrops
  BY StreamAssumption DEF Drop, logVars, busVars, StreamInv, RowTypes
<1>2. {p} \in SUBSET Readers /\ Cut({p})
  BY DEF Drop
<1> QED BY <1>1, <1>2, CutSteps DEF StreamInv, RowTypes

ReaderRecord == [view : {"loading", "answered", "shown", "error"},
                 conn : {"none", "open", "waiting"},
                 events : SUBSET (1..Len(log)), finished : BOOLEAN]
HandlerRecord == [pc : {"off", "opened", "replay", "live"}, at : Instances, last : 0..Len(log)]

\* A step of the handler or the client of one reader, and what it must leave.
LEMMA OneReader ==
    ASSUME StreamInv, LogInv', RowsInv', NEW p \in Readers,
           NEW h \in HandlerRecord, NEW q \in Seq(1..Len(log)), NEW o \in Seq(1..Len(log)),
           NEW r \in ReaderRecord,
           stream' = [stream EXCEPT ![p] = h], queue' = [queue EXCEPT ![p] = q],
           out' = [out EXCEPT ![p] = o], reader' = [reader EXCEPT ![p] = r],
           UNCHANGED <<logVars, busVars, drops>>, Fits(h, o, r)
    PROVE  StreamInv'
<1>1. UNCHANGED <<log, inbox, listening, redisFaults, drops>>
  BY DEF logVars, busVars
<1>2. /\ stream \in [Readers -> HandlerRecord] /\ reader \in [Readers -> ReaderRecord]
      /\ queue \in [Readers -> Seq(1..Len(log))] /\ out \in [Readers -> Seq(1..Len(log))]
  BY DEF StreamInv, RowTypes, HandlerRecord, ReaderRecord
<1>3. /\ stream'[p] = h /\ queue'[p] = q /\ out'[p] = o /\ reader'[p] = r
      /\ \A u \in Readers : u # p => stream'[u] = stream[u] /\ out'[u] = out[u] /\ reader'[u] = reader[u]
  BY <1>2
<1>4. RowTypes'
  <2>1. /\ stream' \in [Readers -> HandlerRecord] /\ reader' \in [Readers -> ReaderRecord]
        /\ queue' \in [Readers -> Seq(1..Len(log))] /\ out' \in [Readers -> Seq(1..Len(log))]
    BY <1>2
  <2> QED BY <1>1, <2>1 DEF StreamInv, RowTypes, HandlerRecord, ReaderRecord
<1>5. Follows(p)'
  BY <1>3 DEF Follows
<1>6. \A u \in Readers : Follows(u)'
  BY <1>3, <1>5, FollowsSame DEF StreamInv
<1> QED BY <1>4, <1>6 DEF StreamInv

\* What is known of a reader, and that leaving a part alone is a way to set it.
LEMMA ReaderFacts ==
    ASSUME StreamInv, NEW p \in Readers
    PROVE  /\ stream[p] \in HandlerRecord /\ stream = [stream EXCEPT ![p] = stream[p]]
           /\ queue[p] \in Seq(1..Len(log)) /\ queue = [queue EXCEPT ![p] = queue[p]]
           /\ out[p] \in Seq(1..Len(log)) /\ out = [out EXCEPT ![p] = out[p]]
           /\ DOMAIN out[p] = 1..Len(out[p]) /\ Len(out[p]) \in Nat
           /\ reader[p] \in ReaderRecord /\ reader = [reader EXCEPT ![p] = reader[p]]
           /\ Fits(stream[p], out[p], reader[p]) /\ Len(log) \in Nat
BY LenProperties DEF StreamInv, RowTypes, HandlerRecord, ReaderRecord, LogInv, LogTypeOK, Follows

\* The replay is everything above the cursor, in order.
LEMMA ReplayFits ==
    ASSUME NEW n \in Nat, NEW last \in 0..n,
           NEW o \in [1..(n - last) -> Nat], \A k \in 1..(n - last) : o[k] = last + k
    PROVE  /\ o \in Seq(1..n) /\ DOMAIN o = 1..(n - last) /\ Len(o) = n - last
           /\ \A k \in DOMAIN o : o[k] = last + k /\ last < o[k] /\ o[k] \in 1..n
           /\ \A j, k \in DOMAIN o : j < k => o[j] < o[k]
<1>1. n - last \in Nat /\ \A k \in 1..(n - last) : last + k \in 1..n
  OBVIOUS
<1>2. o \in [1..(n - last) -> 1..n]
  BY <1>1
<1>3. o \in Seq(1..n)
  BY <1>1, <1>2, SeqDef
<1>4. DOMAIN o = 1..(n - last) /\ \A k \in 1..(n - last) : o[k] = last + k
  BY <1>1
<1>5. Len(o) = n - last
  BY <1>1, <1>3, <1>4, LenProperties
<1>6. \A k \in 1..(n - last) : k \in Nat \ {0} /\ last \in Nat /\ last + k <= n
  OBVIOUS
<1>7. \A k \in DOMAIN o : o[k] = last + k /\ last < o[k] /\ o[k] \in 1..n
  BY <1>1, <1>4, <1>6
<1>8. ASSUME NEW j \in DOMAIN o, NEW k \in DOMAIN o, j < k PROVE o[j] < o[k]
  BY <1>4, <1>6, <1>8
<1> QED BY <1>3, <1>4, <1>5, <1>7, <1>8

\* Appending something above the cursor keeps what is sent in order.
LEMMA SendFits ==
    ASSUME NEW n \in Nat, NEW o \in Seq(1..n), NEW s \in 1..n, NEW last \in 0..n, s > last,
           \A k \in DOMAIN o : o[k] <= last,
           \A j, k \in DOMAIN o : j < k => o[j] < o[k]
    PROVE  /\ Append(o, s) \in Seq(1..n) /\ Len(Append(o, s)) = Len(o) + 1
           /\ \A k \in DOMAIN Append(o, s) : \/ k \in DOMAIN o /\ Append(o, s)[k] = o[k]
                                             \/ Append(o, s)[k] = s
           /\ \A k \in DOMAIN Append(o, s) : Append(o, s)[k] <= s
           /\ \A j, k \in DOMAIN Append(o, s) : j < k => Append(o, s)[j] < Append(o, s)[k]
<1> DEFINE a == Append(o, s)
<1>1. Len(o) \in Nat /\ DOMAIN o = 1..Len(o) /\ \A k \in 1..Len(o) : o[k] \in 1..n
  BY LenProperties, ElementOfSeq
<1>2. /\ a \in Seq(1..n) /\ Len(a) = Len(o) + 1 /\ a[Len(o) + 1] = s
      /\ \A k \in 1..Len(o) : a[k] = o[k]
  BY AppendProperties
<1>3. DOMAIN a = 1..(Len(o) + 1)
  BY <1>2, LenProperties
<1> HIDE DEF a
<1>4. \A k \in DOMAIN a : k \in 1..Len(o) \/ k = Len(o) + 1
  BY <1>1, <1>3
<1>5. \A k \in DOMAIN a : (k \in DOMAIN o /\ a[k] = o[k]) \/ a[k] = s
  BY <1>1, <1>2, <1>4
<1>6. \A k \in DOMAIN o : o[k] < s
  BY <1>1
<1>7. \A k \in DOMAIN a : a[k] <= s
  BY <1>1, <1>5, <1>6
<1>8. ASSUME NEW j \in DOMAIN a, NEW k \in DOMAIN a, j < k PROVE a[j] < a[k]
  <2>1. j \in 1..Len(o)
    BY <1>1, <1>3, <1>8
  <2>2. CASE k \in 1..Len(o)
    BY <1>1, <1>2, <1>8, <2>1, <2>2
  <2>3. CASE k = Len(o) + 1
    BY <1>1, <1>2, <1>6, <2>1, <2>3
  <2> QED BY <1>4, <2>2, <2>3
<1> QED BY <1>2, <1>5, <1>7, <1>8 DEF a

LEMMA HandlerSteps ==
    ASSUME StreamInv, LogInv', RowsInv', NEW p \in Readers, StreamStep(p)
    PROVE  StreamInv'
<1>0. /\ stream[p] \in HandlerRecord /\ stream = [stream EXCEPT ![p] = stream[p]]
      /\ queue[p] \in Seq(1..Len(log)) /\ queue = [queue EXCEPT ![p] = queue[p]]
      /\ out[p] \in Seq(1..Len(log)) /\ out = [out EXCEPT ![p] = out[p]]
      /\ reader[p] \in ReaderRecord /\ reader = [reader EXCEPT ![p] = reader[p]]
      /\ Fits(stream[p], out[p], reader[p]) /\ Len(log) \in Nat
  BY ReaderFacts
<1>1. CASE StreamJoin(p)
  <2> DEFINE h == [stream[p] EXCEPT !.pc = "replay"]
  <2>1. h \in HandlerRecord /\ h.pc = "replay" /\ h.last = stream[p].last
    BY <1>0 DEF HandlerRecord
  <2>2. /\ stream' = [stream EXCEPT ![p] = h] /\ stream[p].pc = "opened"
        /\ UNCHANGED <<queue, out, reader, logVars, busVars, drops>>
    BY <1>1 DEF StreamJoin
  <2> HIDE DEF h
  <2>3. Fits(h, out[p], reader[p])
    BY <1>0, <2>1, <2>2 DEF Fits
  <2> QED BY <1>0, <2>1, <2>2, <2>3, OneReader
<1>2. CASE StreamReplay(p)
  <2> DEFINE h == [stream[p] EXCEPT !.pc = "live", !.last = Len(log)]
             o == [k \in 1..(Len(log) - stream[p].last) |-> stream[p].last + k]
  <2>1. stream[p].last \in 0..Len(log) /\ Len(log) \in 0..Len(log)
    BY <1>0 DEF HandlerRecord
  <2>2. h \in HandlerRecord /\ h.pc = "live" /\ h.last = Len(log)
    BY <1>0, <2>1 DEF HandlerRecord
  <2>3. /\ stream' = [stream EXCEPT ![p] = h] /\ out' = [out EXCEPT ![p] = out[p] \o o]
        /\ stream[p].pc = "replay" /\ UNCHANGED <<queue, reader, logVars, busVars, drops>>
    BY <1>2 DEF StreamReplay
  <2>o. /\ o \in [1..(Len(log) - stream[p].last) -> Nat]
        /\ \A k \in 1..(Len(log) - stream[p].last) : o[k] = stream[p].last + k
    BY <1>0, <2>1
  <2> HIDE DEF h, o
  <2>4. /\ o \in Seq(1..Len(log))
        /\ \A k \in DOMAIN o : stream[p].last < o[k] /\ o[k] \in 1..Len(log)
        /\ \A j, k \in DOMAIN o : j < k => o[j] < o[k]
    BY <1>0, <2>1, <2>o, ReplayFits
  <2>5. out[p] \o o = o
    BY <1>0, <2>3, <2>4, ConcatEmptySeq DEF Fits
  <2>6. reader[p].conn = "open" /\ reader[p].events \subseteq 1..Len(log)
    BY <1>0, <2>3 DEF Fits, ReaderRecord
  <2>7. reader[p].view = "shown" => \A e \in reader[p].events, k \in DOMAIN o : e < o[k]
    BY <1>0, <2>1, <2>4, <2>6 DEF Fits
  <2>8. Fits(h, o, reader[p])
    BY <1>0, <2>2, <2>4, <2>6, <2>7 DEF Fits
  <2> QED BY <1>0, <2>2, <2>3, <2>4, <2>5, <2>8, OneReader
<1>3. CASE StreamSend(p)
  <2> DEFINE s == Head(queue[p])
  <2>1. /\ stream[p].pc = "live" /\ queue[p] # <<>>
        /\ queue' = [queue EXCEPT ![p] = Tail(queue[p])]
        /\ UNCHANGED <<reader, logVars, busVars, drops>>
    BY <1>3 DEF StreamSend
  <2>2. s \in 1..Len(log) /\ Tail(queue[p]) \in Seq(1..Len(log))
    BY <1>0, <2>1, TailTyped
  <2>3. CASE s > stream[p].last
    <3> DEFINE h == [stream[p] EXCEPT !.last = s]
               o == Append(out[p], s)
    <3>1. stream[p].last \in 0..Len(log) /\ s \in 0..Len(log)
      BY <1>0, <2>2 DEF HandlerRecord
    <3>2. h \in HandlerRecord /\ h.pc = "live" /\ h.last = s
      BY <1>0, <2>1, <3>1 DEF HandlerRecord
    <3>3. stream' = [stream EXCEPT ![p] = h] /\ out' = [out EXCEPT ![p] = o]
      BY <1>3, <2>3 DEF StreamSend
    <3>4. /\ \A k \in DOMAIN out[p] : out[p][k] <= stream[p].last
          /\ \A j, k \in DOMAIN out[p] : j < k => out[p][j] < out[p][k]
      BY <1>0 DEF Fits
    <3>5. /\ o \in Seq(1..Len(log))
          /\ \A k \in DOMAIN o : (k \in DOMAIN out[p] /\ o[k] = out[p][k]) \/ o[k] = s
          /\ \A k \in DOMAIN o : o[k] <= s
          /\ \A j, k \in DOMAIN o : j < k => o[j] < o[k]
      BY <1>0, <2>2, <2>3, <3>1, <3>4, SendFits
    <3>6. reader[p].conn = "open" /\ reader[p].events \subseteq 1..Len(log)
      BY <1>0, <2>1 DEF Fits, ReaderRecord
    <3> HIDE DEF h, o, s
    <3>7. reader[p].view = "shown" => \A e \in reader[p].events : e < s
      BY <1>0, <2>2, <2>3, <3>1, <3>6 DEF Fits
    <3>8. reader[p].view = "shown" => \A e \in reader[p].events, k \in DOMAIN o : e < o[k]
      BY <1>0, <3>5, <3>7 DEF Fits
    <3>9. reader[p].view = "shown" => \A e \in reader[p].events : e <= s
      BY <2>2, <3>6, <3>7
    <3>10. Fits(h, o, reader[p])
      BY <3>2, <3>5, <3>6, <3>8, <3>9 DEF Fits
    <3> QED BY <1>0, <2>1, <2>2, <3>2, <3>3, <3>5, <3>10, OneReader
  <2>4. CASE ~(s > stream[p].last)
    <3>1. UNCHANGED <<out, stream>>
      BY <1>3, <2>4 DEF StreamSend
    <3> HIDE DEF s
    <3> QED BY <1>0, <2>1, <2>2, <3>1, OneReader
  <2> QED BY <2>3, <2>4
<1> QED BY <1>1, <1>2, <1>3 DEF StreamStep

\* The cursor a client opens a stream with is above all it holds.
LEMMA LatestOf ==
    ASSUME StreamInv, NEW p \in Readers
    PROVE  /\ Latest(p) \in 0..Len(log) /\ \A e \in reader[p].events : e <= Latest(p)
           /\ Latest(p) \in reader[p].events \cup {0}
<1>1. reader[p].events \cup {0} \subseteq 0..Len(log) /\ reader[p].events \cup {0} # {}
  BY ReaderFacts DEF ReaderRecord
<1>2. Len(log) \in Nat
  BY ReaderFacts
<1> QED BY <1>1, <1>2, MaxOf DEF Latest

\* A new request starts over.
LEMMA OpenSteps ==
    ASSUME StreamInv, LogInv', RowsInv', NEW p \in Readers, NEW r \in ReaderRecord,
           r.conn = "open", r.events = reader[p].events,
           reader' = [reader EXCEPT ![p] = r], Open(p, Latest(p)),
           UNCHANGED <<logVars, busVars, drops>>
    PROVE  StreamInv'
<1>1. PICK i \in Instances :
         stream' = [stream EXCEPT ![p] = [pc |-> "opened", at |-> i, last |-> Latest(p)]]
  BY DEF Open
<1> DEFINE h == [pc |-> "opened", at |-> i, last |-> Latest(p)]
<1>2. h \in HandlerRecord /\ h.pc = "opened" /\ h.last = Latest(p)
  BY LatestOf DEF HandlerRecord
<1>3. stream' = [stream EXCEPT ![p] = h]
  BY <1>1
<1>4. <<>> \in Seq(1..Len(log)) /\ DOMAIN <<>> = {}
  OBVIOUS
<1>5. queue' = [queue EXCEPT ![p] = <<>>] /\ out' = [out EXCEPT ![p] = <<>>]
  BY DEF Open
<1>6. \A e \in r.events : e <= h.last
  BY <1>2, LatestOf
<1> HIDE DEF h
<1>7. Fits(h, <<>>, r)
  BY <1>2, <1>4, <1>6 DEF Fits
<1> QED BY <1>2, <1>3, <1>4, <1>5, <1>7, OneReader

LEMMA ClientSteps ==
    ASSUME StreamInv, LogInv', RowsInv', NEW p \in Readers,
           LoadStep(p) \/ ReaderEvent(p) \/ Reconnect(p) \/ ReaderError(p) \/ ReaderRefresh(p)
    PROVE  StreamInv'
<1>0. /\ stream[p] \in HandlerRecord /\ stream = [stream EXCEPT ![p] = stream[p]]
      /\ queue[p] \in Seq(1..Len(log)) /\ queue = [queue EXCEPT ![p] = queue[p]]
      /\ out[p] \in Seq(1..Len(log)) /\ out = [out EXCEPT ![p] = out[p]]
      /\ reader[p] \in ReaderRecord
      /\ Fits(stream[p], out[p], reader[p]) /\ Len(log) \in Nat
  BY ReaderFacts
\* A client that shows nothing can be given anything.
<1>s. ASSUME NEW r \in ReaderRecord, r.view # "shown", (r.conn = "open") = (reader[p].conn = "open"),
             reader' = [reader EXCEPT ![p] = r], UNCHANGED <<logVars, busVars, streamVars, drops>>
      PROVE  StreamInv'
  <2>1. Fits(stream[p], out[p], r)
    BY <1>0, <1>s DEF Fits
  <2> QED BY <1>0, <1>s, <2>1, OneReader DEF streamVars
<1>1. CASE ReaderSnapshot(p)
  <2>1. PICK fin \in BOOLEAN :
           reader' = [reader EXCEPT ![p].view = "answered", ![p].events = DOMAIN log, ![p].finished = fin]
    BY <1>1 DEF ReaderSnapshot
  <2> DEFINE r == [reader[p] EXCEPT !.view = "answered", !.events = DOMAIN log, !.finished = fin]
  <2>2. DOMAIN log = 1..Len(log)
    BY DEF StreamInv, LogInv, LogTypeOK
  <2>3. r \in ReaderRecord /\ r.view = "answered" /\ r.conn = reader[p].conn
    BY <1>0, <2>2 DEF ReaderRecord
  <2>4. reader' = [reader EXCEPT ![p] = r]
    BY <2>1
  <2> HIDE DEF r
  <2> QED BY <1>1, <1>s, <2>3, <2>4 DEF ReaderSnapshot
<1>2. CASE ReaderShow(p)
  <2> DEFINE r == [reader[p] EXCEPT !.view = "shown", !.conn = "open"]
  <2>1. r \in ReaderRecord /\ r.conn = "open" /\ r.events = reader[p].events
    BY <1>0 DEF ReaderRecord
  <2>2. reader' = [reader EXCEPT ![p] = r]
    BY <1>2 DEF ReaderShow
  <2> HIDE DEF r
  <2> QED BY <1>2, <2>1, <2>2, OpenSteps DEF ReaderShow
<1>3. CASE Reconnect(p)
  <2> DEFINE r == [reader[p] EXCEPT !.conn = "open"]
  <2>1. r \in ReaderRecord /\ r.conn = "open" /\ r.events = reader[p].events
    BY <1>0 DEF ReaderRecord
  <2>2. reader' = [reader EXCEPT ![p] = r]
    BY <1>3 DEF Reconnect
  <2> HIDE DEF r
  <2> QED BY <1>3, <2>1, <2>2, OpenSteps DEF Reconnect
<1>4. CASE ReaderError(p)
  <2> DEFINE r == [reader[p] EXCEPT !.view = "error"]
  <2>1. r \in ReaderRecord /\ r.view = "error" /\ r.conn = reader[p].conn
    BY <1>0 DEF ReaderRecord
  <2>2. reader' = [reader EXCEPT ![p] = r]
    BY <1>4 DEF ReaderError
  <2> HIDE DEF r
  <2> QED BY <1>4, <1>s, <2>1, <2>2 DEF ReaderError
<1>5. CASE ReaderRefresh(p)
  <2> DEFINE r == [reader[p] EXCEPT !.view = "loading", !.conn = IF @ = "open" THEN @ ELSE "none"]
  <2>1. r \in ReaderRecord /\ r.view = "loading" /\ (r.conn = "open") = (reader[p].conn = "open")
    BY <1>0 DEF ReaderRecord
  <2>2. reader' = [reader EXCEPT ![p] = r]
    BY <1>5 DEF ReaderRefresh
  <2> HIDE DEF r
  <2> QED BY <1>5, <1>s, <2>1, <2>2 DEF ReaderRefresh
<1>6. CASE ReaderEvent(p)
  <2> DEFINE s == Head(out[p])
             o == Tail(out[p])
  <2>1. /\ reader[p].conn = "open" /\ out[p] # <<>> /\ out' = [out EXCEPT ![p] = o]
        /\ UNCHANGED <<stream, queue, logVars, busVars, drops>>
    BY <1>6 DEF ReaderEvent
  <2>2. /\ s \in 1..Len(log) /\ o \in Seq(1..Len(log)) /\ DOMAIN o = 1..(Len(out[p]) - 1)
        /\ out[p][1] = s /\ \A k \in 1..(Len(out[p]) - 1) : o[k] = out[p][k + 1]
        /\ DOMAIN out[p] = 1..Len(out[p]) /\ Len(out[p]) \in Nat \ {0}
    BY <1>0, <2>1, TailTyped
  <2> HIDE DEF o, s
  <2>3. 1 \in DOMAIN out[p] /\ \A k \in DOMAIN o : k + 1 \in DOMAIN out[p] /\ 1 < k + 1
    BY <2>2
  <2>4. \A j, k \in DOMAIN o : j < k => j + 1 < k + 1
    BY <2>2
  <2>5. Fits(stream[p], o, reader[p])
    <3>1. stream[p].pc = "live"
      BY <1>0, <2>1 DEF Fits
    <3>2. \A k \in DOMAIN o : o[k] = out[p][k + 1]
      BY <2>2
    <3>3. \A k \in DOMAIN o : o[k] <= stream[p].last
      BY <1>0, <2>3, <3>2 DEF Fits
    <3>4. \A j, k \in DOMAIN o : j < k => o[j] < o[k]
      BY <1>0, <2>3, <2>4, <3>2 DEF Fits
    <3>5. reader[p].view = "shown" => \A e \in reader[p].events, k \in DOMAIN o : e < o[k]
      BY <1>0, <2>3, <3>2 DEF Fits
    <3> QED BY <1>0, <3>1, <3>3, <3>4, <3>5 DEF Fits
  <2>6. s <= stream[p].last /\ \A k \in DOMAIN o : s < o[k]
    BY <1>0, <2>2, <2>3 DEF Fits
  <2>7. CASE Shown(p)
    <3> DEFINE r == [reader[p] EXCEPT !.events = @ \cup {s},
                                      !.finished = @ \/ log[s] \in TerminalAppends]
    <3>1. /\ r \in ReaderRecord /\ r.view = "shown" /\ r.conn = "open"
          /\ r.events = reader[p].events \cup {s}
      BY <1>0, <2>1, <2>2, <2>7 DEF ReaderRecord, Shown
    <3>2. reader' = [reader EXCEPT ![p] = r]
      BY <1>6, <2>7 DEF ReaderEvent, Shown, s
    <3> HIDE DEF r
    <3>3. Fits(stream[p], o, r)
      BY <2>1, <2>5, <2>6, <2>7, <3>1 DEF Fits, Shown
    <3> QED BY <1>0, <2>1, <2>2, <3>1, <3>2, <3>3, OneReader
  <2>8. CASE ~Shown(p)
    <3>1. UNCHANGED reader
      BY <1>6, <2>8 DEF ReaderEvent, Shown
    <3>2. reader = [reader EXCEPT ![p] = reader[p]]
      BY ReaderFacts
    <3> QED BY <1>0, <2>1, <2>2, <2>5, <3>1, <3>2, OneReader
  <2> QED BY <2>7, <2>8
<1> QED BY <1>1, <1>2, <1>3, <1>4, <1>5, <1>6 DEF LoadStep

LEMMA StreamInvNext == StreamInv /\ [Next]_vars => StreamInv'
<1> SUFFICES ASSUME StreamInv, [Next]_vars PROVE StreamInv'
  OBVIOUS
<1>1. LogInv' /\ RowsInv'
  BY StreamStepsLog, LogStepInv, RowsStep DEF StreamInv
<1>2. CASE UNCHANGED vars
  <2>1. UNCHANGED <<busVars, streamVars, reader, drops, log>>
    BY <1>2 DEF vars, logVars
  <2>2. RowTypes'
    BY <2>1 DEF StreamInv, RowTypes, busVars, streamVars
  <2> QED BY <1>1, <2>1, <2>2, FollowsSame DEF StreamInv, streamVars
<1> QED BY <1>1, <1>2, CallSteps, CancelSteps, BusSteps, CrashSteps, DropSteps, HandlerSteps, ClientSteps DEF Next

LEMMA StreamInvariant == Spec => []StreamInv
BY StreamInitInv, StreamInvNext, PTL DEF Spec

\* What is in flight or held anywhere is the number of a row, whatever Redis
\* repeats or loses and however often connections and instances end.
THEOREM StreamTypeCorrect == Spec => []StreamTypeOK
BY StreamInvariant, StreamInvTypes, PTL

\* A stream never goes back behind itself or behind what the phone holds.
THEOREM StreamNeverGoesBack == Spec => []StreamOrdered
<1>1. StreamInv => StreamOrdered
  BY DEF StreamInv, StreamOrdered, Follows, Fits, Shown
<1> QED BY <1>1, StreamInvariant, PTL

-----------------------------------------------------------------------------
(* One instance without Redis: the cursor skips only cancelled appends.    *)

\* The numbers in a sequence, and that they ascend.
In(s) == {s[k] : k \in DOMAIN s}
Ascends(s) == \A j, k \in DOMAIN s : j < k => s[j] < s[k]

LEMMA AscendsAppend ==
    ASSUME NEW s \in Seq(Nat), Ascends(s), NEW n \in Nat, \A m \in In(s) : m < n
    PROVE  Ascends(Append(s, n)) /\ In(Append(s, n)) = In(s) \cup {n}
<1> DEFINE a == Append(s, n)
<1>1. Len(s) \in Nat /\ DOMAIN s = 1..Len(s)
  BY LenProperties
<1>2. /\ Len(a) = Len(s) + 1 /\ a \in Seq(Nat) /\ a[Len(s) + 1] = n
      /\ \A k \in 1..Len(s) : a[k] = s[k]
  BY AppendProperties
<1>3. DOMAIN a = 1..(Len(s) + 1)
  BY <1>2, LenProperties
<1> HIDE DEF a
<1>4. \A k \in DOMAIN a : k \in DOMAIN s \/ k = Len(s) + 1
  BY <1>1, <1>3
<1>5. Len(s) + 1 \in DOMAIN a /\ \A k \in DOMAIN s : k \in DOMAIN a /\ a[k] = s[k]
  BY <1>1, <1>2, <1>3
<1>6. ASSUME NEW j \in DOMAIN a, NEW k \in DOMAIN a, j < k PROVE a[j] < a[k]
  <2>1. j \in DOMAIN s
    BY <1>1, <1>3, <1>6
  <2>2. CASE k \in DOMAIN s
    BY <1>5, <1>6, <2>1, <2>2 DEF Ascends
  <2>3. CASE k = Len(s) + 1
    BY <1>2, <1>5, <2>1, <2>3 DEF In
  <2> QED BY <1>4, <2>2, <2>3
<1>7. In(a) = In(s) \cup {n}
  BY <1>2, <1>4, <1>5 DEF In
<1> QED BY <1>6, <1>7 DEF Ascends, a

LEMMA AscendsTail ==
    ASSUME NEW s \in Seq(Nat), s # <<>>, Ascends(s)
    PROVE  /\ Ascends(Tail(s)) /\ In(s) = {Head(s)} \cup In(Tail(s))
           /\ \A m \in In(Tail(s)) : Head(s) < m
<1> DEFINE t == Tail(s)
<1>1. Len(s) \in Nat \ {0} /\ DOMAIN s = 1..Len(s) /\ Head(s) = s[1]
  BY LenProperties, HeadTailProperties, EmptySeq
<1>2. Len(t) = Len(s) - 1 /\ t \in Seq(Nat) /\ \A k \in 1..Len(t) : t[k] = s[k + 1]
  BY HeadTailProperties
<1>3. DOMAIN t = 1..(Len(s) - 1)
  BY <1>2, LenProperties
<1> HIDE DEF t
<1>4. 1 \in DOMAIN s /\ \A k \in DOMAIN t : k + 1 \in DOMAIN s /\ 1 < k + 1 /\ t[k] = s[k + 1]
  BY <1>1, <1>2, <1>3
<1>5. \A j, k \in DOMAIN t : j < k => j + 1 < k + 1
  BY <1>1, <1>3
<1>6. \A k \in DOMAIN s : k = 1 \/ (k - 1 \in DOMAIN t /\ t[k - 1] = s[k])
  <2> SUFFICES ASSUME NEW k \in DOMAIN s, k # 1
               PROVE  k - 1 \in DOMAIN t /\ t[k - 1] = s[k]
    OBVIOUS
  <2>1. k - 1 \in DOMAIN t /\ (k - 1) + 1 = k
    BY <1>1, <1>3
  <2> QED BY <1>4, <2>1
<1>7. Ascends(t) /\ \A m \in In(t) : Head(s) < m
  BY <1>1, <1>4, <1>5 DEF Ascends, In
<1>8. In(s) = {Head(s)} \cup In(t)
  BY <1>1, <1>4, <1>6 DEF In
<1> QED BY <1>7, <1>8 DEF t

LEMMA InEmpty == In(<<>>) = {} /\ Ascends(<<>>)
BY DEF In, Ascends

\* The call behind a row, and the rows that the bus was given or that the
\* instance took with it, together with every connection.
CallOf(n) == call[log[n]].pc
Given(n) == CallOf(n) \in {"done", "lost"}

\* Below each of its members the set has every row that is not cancelled.
Whole(S) == \A e \in S : \A n \in 1..e : n \in S \/ Skipped(n)

\* The queue q of a handler h is in order and holds, of the rows that were
\* given to the bus, those above its cursor; what is not with the client r and
\* not on its way, o, below the cursor was cancelled.
Gapless(h, q, o, r) ==
    /\ h.pc \in {"off", "opened"} => q = <<>>
    /\ Ascends(q)
    /\ \A n \in In(q) : CallOf(n) = "done"
    /\ h.pc = "live" => \A n \in 1..Len(log) : Given(n) => n <= h.last \/ n \in In(q)
    /\ r.view \in {"answered", "shown"} => Whole(r.events)
    /\ r.view = "shown" /\ r.conn = "open" =>
           \A n \in 1..h.last : n \in r.events \/ n \in In(o) \/ Skipped(n)

LocalInv ==
    /\ \A i \in Instances : listening[i] = "off"
    /\ \A a \in Appends : call[a].pc # "publish"
    /\ \A a \in Appends : call[a].pc = "committed" => Len(log) > 0 /\ log[Len(log)] = a
    /\ \A p \in Readers : Gapless(stream[p], queue[p], out[p], reader[p])

\* EventBus without REDIS_URL is one process's memory, so it is run with one.
Local == ~UsesRedis /\ \A i, j \in Instances : i = j

LEMMA LocalInit == Local /\ Init => LocalInv
<1> SUFFICES ASSUME Local, Init PROVE LocalInv
  OBVIOUS
<1>1. \A a \in Appends : call[a].pc = "idle"
  BY DEF Init, LogInit
<1>2. /\ \A i \in Instances : listening[i] = "off"
      /\ \A p \in Readers : /\ stream[p].pc = "off" /\ queue[p] = <<>> /\ out[p] = <<>>
                            /\ reader[p].view = "loading"
  BY DEF Init, Local
<1>3. \A p \in Readers : Gapless(stream[p], queue[p], out[p], reader[p])
  BY <1>2, InEmpty DEF Gapless
<1> QED BY <1>1, <1>2, <1>3 DEF LocalInv

\* The append lock of the one instance keeps two calls from being between
\* their insert and their delivery.
LEMMA OnePending ==
    ASSUME Local, LogInv, NEW a \in Appends, NEW b \in Appends,
           call[a].pc \in InLock, call[b].pc \in InLock
    PROVE  a = b
<1>1. call[a].at \in Instances /\ call[b].at \in Instances
  BY DEF LogInv, LogTypeOK
<1>2. call[a].at = call[b].at
  BY <1>1 DEF Local
<1> QED BY <1>2 DEF LogInv, LockInv

\* What is known of the numbers a reader's parts hold.
LEMMA ReaderRows ==
    ASSUME StreamInv, NEW p \in Readers
    PROVE  /\ Len(log) \in Nat /\ DOMAIN log = 1..Len(log)
           /\ stream[p].last \in 0..Len(log) /\ reader[p].events \subseteq 1..Len(log)
           /\ queue[p] \in Seq(Nat) /\ out[p] \in Seq(Nat)
           /\ In(queue[p]) \subseteq 1..Len(log) /\ In(out[p]) \subseteq 1..Len(log)
<1>1. /\ stream[p] \in HandlerRecord /\ reader[p] \in ReaderRecord /\ Len(log) \in Nat
      /\ queue[p] \in Seq(1..Len(log)) /\ out[p] \in Seq(1..Len(log))
  BY ReaderFacts
<1>2. queue[p] \in Seq(Nat) /\ out[p] \in Seq(Nat)
  BY <1>1, SeqMonotonic
<1>3. In(queue[p]) \subseteq 1..Len(log) /\ In(out[p]) \subseteq 1..Len(log)
  BY <1>1, LenProperties, ElementOfSeq DEF In
<1>4. DOMAIN log = 1..Len(log)
  BY DEF StreamInv, LogInv, LogTypeOK
<1> QED BY <1>1, <1>2, <1>3, <1>4 DEF HandlerRecord, ReaderRecord

\* A step of a call that gives the bus nothing, and takes nothing back that
\* was given or cancelled, leaves every reader as it is.
LEMMA GaplessKept ==
    ASSUME StreamInv, LocalInv, UNCHANGED <<stream, queue, out, reader>>,
           Len(log) <= Len(log'), Len(log') \in Nat, DOMAIN log' = 1..Len(log'),
           \A n \in 1..Len(log) : /\ CallOf(n) \in {"done", "cancelled"} => CallOf(n)' = CallOf(n)
                                  /\ Given(n)' => Given(n),
           \A n \in 1..Len(log') : n \in 1..Len(log) \/ ~Given(n)'
    PROVE  \A p \in Readers : Gapless(stream[p], queue[p], out[p], reader[p])'
<1> SUFFICES ASSUME NEW p \in Readers
             PROVE  Gapless(stream[p], queue[p], out[p], reader[p])'
  OBVIOUS
<1>1. Gapless(stream[p], queue[p], out[p], reader[p])
  BY DEF LocalInv
<1>2. /\ Len(log) \in Nat /\ stream[p].last \in 0..Len(log) /\ DOMAIN log = 1..Len(log)
      /\ In(queue[p]) \subseteq 1..Len(log) /\ reader[p].events \subseteq 1..Len(log)
  BY ReaderRows
<1>3. \A n : Skipped(n) => Skipped(n)'
  <2> SUFFICES ASSUME NEW n, Skipped(n) PROVE Skipped(n)'
    OBVIOUS
  <2>1. n \in 1..Len(log) /\ CallOf(n) = "cancelled" /\ n \in 1..Len(log')
    BY <1>2 DEF Skipped, CallOf
  <2> QED BY <2>1 DEF Skipped, CallOf
<1>4. \A n \in In(queue[p]) : CallOf(n)' = "done"
  BY <1>1, <1>2 DEF Gapless
<1>5. stream[p].pc = "live" =>
         \A n \in 1..Len(log') : Given(n)' => n <= stream[p].last \/ n \in In(queue[p])
  BY <1>1 DEF Gapless
<1>6. Whole(reader[p].events) => Whole(reader[p].events)'
  BY <1>3 DEF Whole
<1>7. /\ stream'[p] = stream[p] /\ queue'[p] = queue[p]
      /\ out'[p] = out[p] /\ reader'[p] = reader[p]
  OBVIOUS
<1> QED BY <1>1, <1>3, <1>4, <1>5, <1>6, <1>7 DEF Gapless

\* The insert of a row gives the bus nothing yet.
LEMMA LocalInsert ==
    ASSUME Local, StreamInv, LocalInv, NEW a \in Appends, LogOnly(Insert(a))
    PROVE  LocalInv'
<1>1. LogInv /\ RowsInv /\ Len(log) \in Nat /\ DOMAIN log = 1..Len(log)
  BY DEF StreamInv, LogInv, LogTypeOK
<1>2. call[a].pc = "insert" /\ ~Taken(a)
  BY <1>1 DEF LogOnly, Insert, Taken, LogInv, LogTypeOK, LockInv
<1>3. \A b \in Appends : call[b].pc # "committed"
  BY <1>1, <1>2, OnePending DEF InLock, InRow
<1>4. log' = Append(log, a) /\ call' = [call EXCEPT ![a].pc = "committed"]
  BY <1>2 DEF LogOnly, Insert, Step
<1>5. /\ Len(log') = Len(log) + 1 /\ log'[Len(log')] = a /\ DOMAIN log' = 1..Len(log')
      /\ \A n \in 1..Len(log) : log'[n] = log[n] /\ log[n] \in Appends
  BY <1>1, <1>4 DEF LogInv, LogTypeOK
<1>6. \A b \in Appends : call'[b].pc = IF b = a THEN "committed" ELSE call[b].pc
  BY <1>1, <1>4 DEF LogInv, LogTypeOK
<1>7. \A n \in 1..Len(log) : log[n] # a
  BY <1>1, <1>2 DEF RowsInv, Written
<1>8. UNCHANGED <<listening, stream, queue, out, reader>>
  BY DEF LogOnly, busVars, streamVars
<1>9. \A n \in 1..Len(log) : CallOf(n)' = CallOf(n) /\ (Given(n)' <=> Given(n))
  BY <1>5, <1>6, <1>7 DEF CallOf, Given
<1>10. \A n \in 1..Len(log') : n \in 1..Len(log) \/ ~Given(n)'
  <2>1. \A n \in 1..Len(log') : n \in 1..Len(log) \/ n = Len(log')
    BY <1>1, <1>5
  <2>2. ASSUME NEW n \in 1..Len(log'), n = Len(log') PROVE ~Given(n)'
    BY <1>5, <1>6, <2>2 DEF Given, CallOf
  <2> QED BY <2>1, <2>2
<1>11. \A p \in Readers : Gapless(stream[p], queue[p], out[p], reader[p])'
  BY <1>1, <1>5, <1>8, <1>9, <1>10, GaplessKept
<1>12. \A b \in Appends : /\ call'[b].pc # "publish"
                          /\ call'[b].pc = "committed" => Len(log') > 0 /\ log'[Len(log')] = b
  BY <1>1, <1>3, <1>5, <1>6 DEF LocalInv
<1> QED BY <1>8, <1>11, <1>12 DEF LocalInv

\* The steps before it are of calls without a row.
LEMMA LocalBefore ==
    ASSUME StreamInv, LocalInv, NEW a \in Appends, LogOnly(AppendLock(a) \/ RowLock(a) \/ ReadMax(a))
    PROVE  LocalInv'
<1>1. UNCHANGED <<log, listening, stream, queue, out, reader>>
  BY DEF LogOnly, AppendLock, RowLock, ReadMax, busVars, streamVars
<1>2. /\ \A b \in Appends : b # a => call'[b] = call[b]
      /\ call[a].pc \notin Written /\ call'[a].pc \notin Written
  BY DEF LogOnly, AppendLock, RowLock, ReadMax, Step, StreamInv, LogInv, LogTypeOK, Written
<1>3. \A n \in 1..Len(log) : log[n] \in Appends /\ log[n] # a
  BY <1>2 DEF StreamInv, LogInv, LogTypeOK, RowsInv
<1>4. \A n \in 1..Len(log) : CallOf(n)' = CallOf(n) /\ (Given(n)' <=> Given(n))
  BY <1>1, <1>2, <1>3 DEF CallOf, Given
<1>5. Len(log) \in Nat /\ DOMAIN log = 1..Len(log)
  BY DEF StreamInv, LogInv, LogTypeOK
<1>6. \A p \in Readers : Gapless(stream[p], queue[p], out[p], reader[p])'
  BY <1>1, <1>4, <1>5, GaplessKept
<1>7. \A b \in Appends : call'[b].pc # "publish"
                         /\ (call'[b].pc = "committed" => call[b].pc = "committed")
  BY <1>2 DEF LocalInv, Written
<1> QED BY <1>1, <1>6, <1>7 DEF LocalInv

\* A cancelled call gives the bus nothing and takes nothing back.
LEMMA LocalCancel ==
    ASSUME Local, StreamInv, LocalInv, NEW a \in Appends, PublishCancelled(a)
    PROVE  LocalInv'
<1>1. LogInv /\ RowsInv /\ Len(log) \in Nat /\ DOMAIN log = 1..Len(log)
  BY DEF StreamInv, LogInv, LogTypeOK
<1>2. /\ call[a].pc \in Running /\ call' = [call EXCEPT ![a].pc = "cancelled"]
      /\ log' = log \/ (call[a].pc = "insert" /\ log' = Append(log, a))
  BY DEF PublishCancelled, Cancelled, Step
<1>3. UNCHANGED <<listening, stream, queue, out, reader>>
  BY DEF PublishCancelled, streamVars
<1>4. \A b \in Appends : call'[b].pc = IF b = a THEN "cancelled" ELSE call[b].pc
  BY <1>1, <1>2 DEF LogInv, LogTypeOK
<1>5. /\ Len(log') \in Nat /\ Len(log) <= Len(log') /\ DOMAIN log' = 1..Len(log')
      /\ \A n \in 1..Len(log) : log'[n] = log[n] /\ log[n] \in Appends
      /\ \A n \in 1..Len(log') : n \in 1..Len(log) \/ log'[n] = a
  <2>1. log \in Seq(Appends)
    BY <1>1 DEF LogInv, LogTypeOK
  <2>2. CASE log' = log
    BY <2>1, <2>2, <1>1
  <2>3. CASE log' = Append(log, a)
    BY <2>1, <2>3, <1>1
  <2> QED BY <1>2, <2>2, <2>3
<1>6. \A n \in 1..Len(log) : /\ CallOf(n) \in {"done", "cancelled"} => CallOf(n)' = CallOf(n)
                             /\ Given(n)' => Given(n)
  <2> SUFFICES ASSUME NEW n \in 1..Len(log)
               PROVE  /\ CallOf(n) \in {"done", "cancelled"} => CallOf(n)' = CallOf(n)
                      /\ Given(n)' => Given(n)
    OBVIOUS
  <2>1. CASE log[n] = a
    <3>1. CallOf(n) \notin {"done", "cancelled"} /\ CallOf(n)' = "cancelled"
      BY <1>2, <1>4, <1>5, <2>1 DEF CallOf, Running, InLock, InRow
    <3> QED BY <3>1 DEF Given
  <2>2. CASE log[n] # a
    <3>1. CallOf(n)' = CallOf(n)
      BY <1>4, <1>5, <2>2 DEF CallOf
    <3> QED BY <3>1 DEF Given
  <2> QED BY <2>1, <2>2
<1>7. \A n \in 1..Len(log') : n \in 1..Len(log) \/ ~Given(n)'
  BY <1>4, <1>5 DEF CallOf, Given
<1>8. \A p \in Readers : Gapless(stream[p], queue[p], out[p], reader[p])'
  BY <1>3, <1>5, <1>6, <1>7, GaplessKept
<1>9. \A b \in Appends : /\ call'[b].pc # "publish"
                         /\ call'[b].pc = "committed" => Len(log') > 0 /\ log'[Len(log')] = b
  <2> SUFFICES ASSUME NEW b \in Appends, b # a
               PROVE  /\ call[b].pc # "publish"
                      /\ call[b].pc = "committed" => Len(log') > 0 /\ log'[Len(log')] = b
    BY <1>4
  <2>1. call[b].pc = "committed" => log' = log
    BY <1>1, <1>2, OnePending DEF InLock, InRow
  <2> QED BY <2>1 DEF LocalInv
<1> QED BY <1>3, <1>8, <1>9 DEF LocalInv

\* The delivery gives every handler that listens the newest row.
LEMMA LocalRelease ==
    ASSUME Local, StreamInv, LocalInv, NEW a \in Appends, Released(a)
    PROVE  LocalInv'
<1>1. /\ call[a].pc = "committed" /\ call' = [call EXCEPT ![a].pc = "done"]
      /\ Deliver(call[a].at, SeqOf(a)) /\ UNCHANGED <<log, listening, stream, out, reader>>
  BY DEF Released, Release, Step, Local, busVars
<1>2. SeqOf(a) \in 1..Len(log) /\ log[SeqOf(a)] = a /\ Len(log) \in Nat /\ LogInv
  BY <1>1, SeqOfRow DEF StreamInv, LogInv, LogTypeOK
<1>3. SeqOf(a) = Len(log) /\ Len(log) > 0 /\ log[Len(log)] = a
  BY <1>1, <1>2 DEF StreamInv, RowsInv, LocalInv
<1>4. \A b \in Appends : call[b].pc = "committed" => b = a
  BY <1>1, <1>2, OnePending DEF InLock
<1>5. \A b \in Appends : call'[b].pc = IF b = a THEN "done" ELSE call[b].pc
  BY <1>1, <1>2 DEF LogInv, LogTypeOK
<1>6. \A n \in 1..Len(log) : log[n] \in Appends /\ (log[n] = a <=> n = Len(log))
  BY <1>2, <1>3 DEF StreamInv, LogInv, LogTypeOK, RowsInv
<1>7. \A n \in 1..Len(log) : IF n = Len(log) THEN CallOf(n) = "committed" /\ CallOf(n)' = "done"
                             ELSE CallOf(n)' = CallOf(n)
  BY <1>1, <1>5, <1>6 DEF CallOf
<1>8. \A n : Skipped(n) => Skipped(n)'
  BY <1>1, <1>2, <1>5 DEF Skipped, LogInv, LogTypeOK
<1>9. \A p \in Readers : Gapless(stream[p], queue[p], out[p], reader[p])'
  <2> SUFFICES ASSUME NEW p \in Readers
               PROVE  Gapless(stream[p], queue[p], out[p], reader[p])'
    OBVIOUS
  <2>1. Gapless(stream[p], queue[p], out[p], reader[p])
    BY DEF LocalInv
  <2>2. /\ stream[p].last \in 0..Len(log) /\ queue[p] \in Seq(Nat)
        /\ In(queue[p]) \subseteq 1..Len(log)
    BY ReaderRows
  <2>3. \A n \in In(queue[p]) : CallOf(n) = "done" /\ CallOf(n)' = "done" /\ n < Len(log)
    BY <1>2, <1>7, <2>1, <2>2 DEF Gapless
  <2>4. Whole(reader[p].events) => Whole(reader[p].events)'
    BY <1>1, <1>8 DEF Whole
  <2>5. stream'[p] = stream[p] /\ out'[p] = out[p] /\ reader'[p] = reader[p] /\ log' = log
    BY <1>1
  <2>6. CASE Joined(p)
    <3>1. stream[p].at = call[a].at
      BY DEF Local, StreamInv, RowTypes, LogInv, LogTypeOK
    <3>2. queue'[p] = Append(queue[p], Len(log))
      BY <1>1, <1>3, <2>6, <3>1 DEF Deliver
    <3>3. Ascends(queue'[p]) /\ In(queue'[p]) = In(queue[p]) \cup {Len(log)}
      BY <1>2, <2>1, <2>2, <2>3, <3>2, AscendsAppend DEF Gapless
    <3>4. \A n \in In(queue'[p]) : CallOf(n)' = "done"
      BY <1>2, <1>3, <1>7, <2>3, <3>3
    <3>5. \A n \in 1..Len(log) : Given(n)' => Given(n) \/ n = Len(log)
      BY <1>7 DEF Given
    <3>6. stream[p].pc = "live" =>
             \A n \in 1..Len(log) : Given(n)' => n <= stream[p].last \/ n \in In(queue'[p])
      BY <2>1, <3>3, <3>5 DEF Gapless
    <3>7. stream[p].pc \notin {"off", "opened"}
      BY <2>6 DEF Joined
    <3> QED BY <1>8, <2>1, <2>4, <2>5, <3>3, <3>4, <3>6, <3>7 DEF Gapless
  <2>7. CASE ~Joined(p)
    <3>1. queue'[p] = queue[p] /\ stream[p].pc \in {"off", "opened"}
      BY <1>1, <2>7 DEF Deliver, Joined, StreamInv, RowTypes
    <3> QED BY <1>8, <2>1, <2>3, <2>4, <2>5, <3>1 DEF Gapless
  <2> QED BY <2>6, <2>7
<1>10. \A b \in Appends : call'[b].pc # "committed" /\ call'[b].pc # "publish"
  BY <1>4, <1>5 DEF LocalInv
<1> QED BY <1>1, <1>9, <1>10 DEF LocalInv

\* Without Redis nothing is published and nobody listens.
LEMMA LocalNoRedis ==
    ASSUME LocalInv, NEW a \in Appends, NEW i \in Instances
    PROVE  ~RedisPublish(a) /\ ~RedisPublishFails(a) /\ ~BusStep(i) /\ ~ListenerDies(i)
BY DEF LocalInv, RedisPublish, RedisPublishFails, Published, BusStep, ListenerDeliver,
       ListenerStart, ListenerDies

\* A connection that ends leaves its reader with what it holds.
LEMMA GaplessCut ==
    ASSUME StreamInv, LocalInv, NEW P \in SUBSET Readers, Cut(P), UNCHANGED log,
           \A n : Skipped(n) => Skipped(n)',
           \/ UNCHANGED call
           \/ \A u \in Readers : u \in P \/ stream[u].pc = "off"
    PROVE  \A p \in Readers : Gapless(stream[p], queue[p], out[p], reader[p])'
<1> SUFFICES ASSUME NEW p \in Readers
             PROVE  Gapless(stream[p], queue[p], out[p], reader[p])'
  OBVIOUS
<1>1. Gapless(stream[p], queue[p], out[p], reader[p])
  BY DEF LocalInv
<1>2. Whole(reader[p].events) => Whole(reader[p].events)'
  <2>1. reader'[p].events = reader[p].events
    BY DEF Cut, StreamInv, RowTypes
  <2> QED BY <2>1 DEF Whole
<1>3. CASE p \in P
  <2>1. /\ stream'[p].pc = "off" /\ queue'[p] = <<>> /\ reader'[p].conn # "open"
        /\ reader'[p].view = reader[p].view
    BY <1>3 DEF Cut, StreamInv, RowTypes
  <2> QED BY <1>1, <1>2, <2>1, InEmpty DEF Gapless
<1>4. CASE p \notin P
  <2>1. stream'[p] = stream[p] /\ queue'[p] = queue[p] /\ out'[p] = out[p] /\ reader'[p] = reader[p]
    BY <1>4 DEF Cut
  <2>2. CASE UNCHANGED call
    BY <1>1, <2>1, <2>2 DEF Gapless, Whole, Skipped, Given, CallOf
  <2>3. CASE stream[p].pc = "off"
    <3>1. queue[p] = <<>> /\ reader[p].conn # "open"
      BY <1>1, <2>3 DEF Gapless, StreamInv, Follows, Fits
    <3> QED BY <1>1, <1>2, <2>1, <2>3, <3>1, InEmpty DEF Gapless
  <2> QED BY <1>4, <2>2, <2>3
<1> QED BY <1>3, <1>4

\* The instance's end ends all connections, so a row it had not delivered yet
\* is not missed by any of them.
LEMMA LocalCrash ==
    ASSUME Local, StreamInv, LocalInv, NEW i \in Instances, Crash(i)
    PROVE  LocalInv'
<1> DEFINE P == {p \in Readers : reader[p].conn = "open" /\ stream[p].at = i}
<1>1. /\ \A b \in Appends : call'[b].pc = IF Down(i, b) THEN "lost" ELSE call[b].pc
      /\ Cut(P) /\ UNCHANGED log
  BY DEF Crash, LogCrash, StreamInv, LogInv, LogTypeOK
<1>2. \A b \in Appends : call[b].at = i
  BY DEF Local, StreamInv, LogInv, LogTypeOK
<1>3. \A b \in Appends : call'[b].pc \notin {"committed", "publish"}
  BY <1>1, <1>2 DEF Down, Running, InLock
<1>4. \A j \in Instances : listening'[j] = "off"
  BY DEF Crash, Local, LocalInv, StreamInv, RowTypes
<1>5. \A p \in Readers : p \in P \/ stream[p].pc = "off"
  BY DEF Local, StreamInv, RowTypes, Follows, Fits
<1>6. \A n : Skipped(n) => Skipped(n)'
  <2> SUFFICES ASSUME NEW n, Skipped(n) PROVE Skipped(n)'
    OBVIOUS
  <2>1. n \in DOMAIN log /\ log[n] \in Appends /\ call[log[n]].pc = "cancelled"
    BY DEF Skipped, StreamInv, LogInv, LogTypeOK
  <2>2. ~Down(i, log[n])
    BY <2>1 DEF Down, Running, InLock, InRow
  <2> QED BY <1>1, <2>1, <2>2 DEF Skipped
<1>7. P \in SUBSET Readers
  OBVIOUS
<1> HIDE DEF P
<1>8. \A p \in Readers : Gapless(stream[p], queue[p], out[p], reader[p])'
  BY <1>1, <1>5, <1>6, <1>7, GaplessCut
<1> QED BY <1>3, <1>4, <1>8 DEF LocalInv

LEMMA LocalDrop ==
    ASSUME StreamInv, LocalInv, NEW p \in Readers, Drop(p)
    PROVE  LocalInv'
<1>1. Cut({p}) /\ {p} \in SUBSET Readers /\ UNCHANGED <<log, call, listening>>
  BY DEF Drop, logVars, busVars
<1>2. \A n : Skipped(n) => Skipped(n)'
  BY <1>1 DEF Skipped
<1>3. \A u \in Readers : Gapless(stream[u], queue[u], out[u], reader[u])'
  BY <1>1, <1>2, GaplessCut
<1> QED BY <1>1, <1>3 DEF LocalInv

\* A step of the handler or the client of one reader.
LEMMA OneGapless ==
    ASSUME StreamInv, LocalInv, NEW p \in Readers, NEW h, NEW q, NEW o, NEW r,
           stream' = [stream EXCEPT ![p] = h], queue' = [queue EXCEPT ![p] = q],
           out' = [out EXCEPT ![p] = o], reader' = [reader EXCEPT ![p] = r],
           UNCHANGED <<logVars, busVars>>, Gapless(h, q, o, r)
    PROVE  LocalInv'
<1>1. UNCHANGED <<log, call, listening>>
  BY DEF logVars, busVars
<1>2. /\ stream'[p] = h /\ queue'[p] = q /\ out'[p] = o /\ reader'[p] = r
      /\ \A u \in Readers : u # p => /\ stream'[u] = stream[u] /\ queue'[u] = queue[u]
                                     /\ out'[u] = out[u] /\ reader'[u] = reader[u]
  BY DEF StreamInv, RowTypes
<1>3. \A u \in Readers : Gapless(stream[u], queue[u], out[u], reader[u])'
  <2> SUFFICES ASSUME NEW u \in Readers
               PROVE  Gapless(stream[u], queue[u], out[u], reader[u])'
    OBVIOUS
  <2>1. Gapless(stream'[u], queue'[u], out'[u], reader'[u])
    BY <1>2 DEF LocalInv
  <2> QED BY <1>1, <2>1 DEF Gapless, Whole, Skipped, Given, CallOf
<1> QED BY <1>1, <1>3 DEF LocalInv

LEMMA LocalJoin ==
    ASSUME StreamInv, LocalInv, NEW p \in Readers, StreamJoin(p)
    PROVE  LocalInv'
<1> DEFINE h == [stream[p] EXCEPT !.pc = "replay"]
<1>1. stream[p] \in HandlerRecord
  BY ReaderFacts
<1>2. h.pc = "replay" /\ h.last = stream[p].last
  BY <1>1 DEF HandlerRecord
<1>3. stream' = [stream EXCEPT ![p] = h] /\ stream[p].pc = "opened"
  BY DEF StreamJoin
<1>4. /\ queue' = [queue EXCEPT ![p] = queue[p]] /\ out' = [out EXCEPT ![p] = out[p]]
      /\ reader' = [reader EXCEPT ![p] = reader[p]] /\ UNCHANGED <<logVars, busVars>>
  BY ReaderFacts DEF StreamJoin
<1> HIDE DEF h
<1>5. Gapless(h, queue[p], out[p], reader[p])
  BY <1>2, <1>3 DEF Gapless, LocalInv
<1> QED BY <1>3, <1>4, <1>5, OneGapless

\* The replay is every row above the cursor.
LEMMA LocalReplay ==
    ASSUME StreamInv, LocalInv, NEW p \in Readers, StreamReplay(p)
    PROVE  LocalInv'
<1> DEFINE h == [stream[p] EXCEPT !.pc = "live", !.last = Len(log)]
           o == [k \in 1..(Len(log) - stream[p].last) |-> stream[p].last + k]
<1>1. stream[p] \in HandlerRecord /\ Len(log) \in Nat /\ Fits(stream[p], out[p], reader[p])
  BY ReaderFacts
<1>2. stream[p].last \in 0..Len(log)
  BY <1>1 DEF HandlerRecord
<1>3. h.pc = "live" /\ h.last = Len(log)
  BY <1>1 DEF HandlerRecord
<1>4. stream[p].pc = "replay" /\ stream' = [stream EXCEPT ![p] = h]
  BY DEF StreamReplay
<1>5. out' = [out EXCEPT ![p] = out[p] \o o]
  BY DEF StreamReplay
<1>6. /\ queue' = [queue EXCEPT ![p] = queue[p]]
      /\ reader' = [reader EXCEPT ![p] = reader[p]] /\ UNCHANGED <<logVars, busVars>>
  BY ReaderFacts DEF StreamReplay
<1>7. /\ o \in [1..(Len(log) - stream[p].last) -> Nat]
      /\ \A k \in 1..(Len(log) - stream[p].last) : o[k] = stream[p].last + k
  BY <1>1, <1>2
<1> HIDE DEF h, o
<1>8. /\ o \in Seq(1..Len(log)) /\ DOMAIN o = 1..(Len(log) - stream[p].last)
      /\ \A k \in DOMAIN o : o[k] = stream[p].last + k
  BY <1>1, <1>2, <1>7, ReplayFits
<1>9. out[p] = <<>> /\ out[p] \o o = o
  BY <1>1, <1>4, <1>8, ConcatEmptySeq DEF Fits
<1>10. \A n \in 1..Len(log) : n \in 1..stream[p].last \/ n \in In(o)
  <2> SUFFICES ASSUME NEW n \in 1..Len(log), n \notin 1..stream[p].last PROVE n \in In(o)
    OBVIOUS
  <2> DEFINE k == n - stream[p].last
  <2>1. k \in DOMAIN o /\ stream[p].last + k = n
    BY <1>1, <1>2, <1>8
  <2>2. o[k] = n
    BY <1>8, <2>1
  <2> QED BY <2>1, <2>2 DEF In
<1>11. Gapless(stream[p], queue[p], out[p], reader[p])
  BY DEF LocalInv
<1>12. reader[p].view = "shown" /\ reader[p].conn = "open" =>
         \A n \in 1..Len(log) : n \in reader[p].events \/ n \in In(o) \/ Skipped(n)
  BY <1>9, <1>10, <1>11, InEmpty DEF Gapless
<1>13. \A n \in 1..Len(log) : n <= h.last
  BY <1>1, <1>3
<1>14. Gapless(h, queue[p], o, reader[p])
  BY <1>3, <1>11, <1>12, <1>13 DEF Gapless
<1> QED BY <1>4, <1>5, <1>6, <1>9, <1>14, OneGapless

\* What lies between the cursor and the head of the queue was cancelled.
LEMMA LocalSend ==
    ASSUME StreamInv, LocalInv, NEW p \in Readers, StreamSend(p)
    PROVE  LocalInv'
<1> DEFINE s == Head(queue[p])
           q == Tail(queue[p])
<1>1. /\ stream[p] \in HandlerRecord /\ Len(log) \in Nat /\ DOMAIN log = 1..Len(log)
      /\ stream[p].last \in 0..Len(log) /\ queue[p] \in Seq(Nat) /\ out[p] \in Seq(Nat)
      /\ In(queue[p]) \subseteq 1..Len(log) /\ Fits(stream[p], out[p], reader[p])
  BY ReaderFacts, ReaderRows
<1>2. /\ stream[p].pc = "live" /\ queue[p] # <<>> /\ queue' = [queue EXCEPT ![p] = q]
      /\ reader' = [reader EXCEPT ![p] = reader[p]] /\ UNCHANGED <<logVars, busVars>>
  BY ReaderFacts DEF StreamSend
<1>3. Gapless(stream[p], queue[p], out[p], reader[p])
  BY DEF LocalInv
<1>4. /\ Ascends(q) /\ In(queue[p]) = {s} \cup In(q) /\ \A m \in In(q) : s < m
  BY <1>1, <1>2, <1>3, AscendsTail DEF Gapless
<1> HIDE DEF s, q
<1>5. s \in 1..Len(log) /\ In(q) \subseteq 1..Len(log)
  BY <1>1, <1>4
<1>6. \A n \in In(q) : CallOf(n) = "done"
  BY <1>3, <1>4 DEF Gapless
<1>7. CASE s > stream[p].last
  <2> DEFINE h == [stream[p] EXCEPT !.last = s]
             o == Append(out[p], s)
  <2>1. h.pc = "live" /\ h.last = s
    BY <1>1, <1>2 DEF HandlerRecord
  <2>2. stream' = [stream EXCEPT ![p] = h] /\ out' = [out EXCEPT ![p] = o]
    BY <1>7 DEF StreamSend, s
  <2>3. In(o) = In(out[p]) \cup {s}
    <3>1. Ascends(out[p]) /\ \A m \in In(out[p]) : m < s
      BY <1>1, <1>5, <1>7, ReaderRows DEF Fits, Ascends, In
    <3>2. out[p] \in Seq(Nat) /\ s \in Nat
      BY <1>1, <1>5
    <3> QED BY <3>1, <3>2, AscendsAppend
  <2> HIDE DEF h, o
  <2>4. \A n \in 1..Len(log) : Given(n) => n <= s \/ n \in In(q)
    BY <1>1, <1>2, <1>3, <1>4, <1>5, <1>7 DEF Gapless
  <2>5. \A n \in 1..s : n <= stream[p].last \/ n = s \/ Skipped(n)
    <3> SUFFICES ASSUME NEW n \in 1..s, ~(n <= stream[p].last), n # s PROVE Skipped(n)
      OBVIOUS
    <3>1. n \in 1..Len(log) /\ n < s
      BY <1>1, <1>5
    <3>2. n \notin In(queue[p])
      BY <1>4, <1>5, <3>1
    <3>3. ~Given(n)
      BY <1>2, <1>3, <3>1, <3>2 DEF Gapless
    <3>4. CallOf(n) \in Written /\ log[n] \in Appends
      BY <3>1 DEF CallOf, StreamInv, RowsInv, LogInv, LogTypeOK
    <3>5. CallOf(n) # "publish"
      BY <3>4 DEF CallOf, LocalInv
    <3>6. CallOf(n) # "committed"
      <4> SUFFICES ASSUME CallOf(n) = "committed" PROVE FALSE
        OBVIOUS
      <4>1. log[Len(log)] = log[n] /\ Len(log) \in 1..Len(log)
        BY <1>5, <3>1, <3>4 DEF CallOf, LocalInv
      <4>2. n = Len(log)
        BY <3>1, <4>1 DEF StreamInv, RowsInv
      <4> QED BY <1>5, <3>1, <4>2
    <3> QED BY <1>1, <3>1, <3>3, <3>4, <3>5, <3>6 DEF Given, Written, Skipped, CallOf
  <2>6. reader[p].view = "shown" /\ reader[p].conn = "open" =>
           \A n \in 1..s : n \in reader[p].events \/ n \in In(o) \/ Skipped(n)
    <3> SUFFICES ASSUME reader[p].view = "shown", reader[p].conn = "open", NEW n \in 1..s
                 PROVE  n \in reader[p].events \/ n \in In(o) \/ Skipped(n)
      OBVIOUS
    <3>1. n <= stream[p].last => n \in 1..stream[p].last
      BY <1>1, <1>5
    <3> QED BY <1>3, <2>3, <2>5, <3>1 DEF Gapless
  <2>7. Gapless(h, q, o, reader[p])
    BY <1>3, <1>4, <1>6, <2>1, <2>4, <2>6 DEF Gapless
  <2> QED BY <1>2, <2>2, <2>7, OneGapless
<1>8. CASE ~(s > stream[p].last)
  <2>1. stream' = [stream EXCEPT ![p] = stream[p]] /\ out' = [out EXCEPT ![p] = out[p]]
    BY <1>8, ReaderFacts DEF StreamSend, s
  <2>2. s <= stream[p].last
    BY <1>1, <1>5, <1>8
  <2>3. \A n \in 1..Len(log) : Given(n) => n <= stream[p].last \/ n \in In(q)
    BY <1>2, <1>3, <1>4, <2>2 DEF Gapless
  <2>4. Gapless(stream[p], q, out[p], reader[p])
    BY <1>2, <1>3, <1>4, <1>6, <2>3 DEF Gapless
  <2> QED BY <1>2, <2>1, <2>4, OneGapless
<1> QED BY <1>7, <1>8

\* Up to its cursor, a client that opens a stream has all but cancelled rows.
LEMMA WholeLatest ==
    ASSUME StreamInv, NEW p \in Readers, Whole(reader[p].events)
    PROVE  \A n \in 1..Latest(p) : n \in reader[p].events \/ Skipped(n)
<1>1. Latest(p) \in reader[p].events \/ Latest(p) = 0
  BY LatestOf
<1> QED BY <1>1 DEF Whole

LEMMA GaplessOpen ==
    ASSUME StreamInv, LocalInv, NEW p \in Readers, NEW r, Open(p, Latest(p)),
           r.events = reader[p].events, reader' = [reader EXCEPT ![p] = r],
           r.view \in {"answered", "shown"} => reader[p].view \in {"answered", "shown"},
           UNCHANGED <<logVars, busVars>>
    PROVE  LocalInv'
<1>1. PICK i \in Instances :
         stream' = [stream EXCEPT ![p] = [pc |-> "opened", at |-> i, last |-> Latest(p)]]
  BY DEF Open
<1> DEFINE h == [pc |-> "opened", at |-> i, last |-> Latest(p)]
<1>2. h.pc = "opened" /\ h.last = Latest(p) /\ stream' = [stream EXCEPT ![p] = h]
  BY <1>1
<1>3. queue' = [queue EXCEPT ![p] = <<>>] /\ out' = [out EXCEPT ![p] = <<>>]
  BY DEF Open
<1> HIDE DEF h
<1>4. r.view \in {"answered", "shown"} => Whole(reader[p].events)
  BY DEF LocalInv, Gapless
<1>5. r.view \in {"answered", "shown"} =>
         \A n \in 1..Latest(p) : n \in reader[p].events \/ Skipped(n)
  BY <1>4, WholeLatest
<1>6. Gapless(h, <<>>, <<>>, r)
  BY <1>2, <1>4, <1>5, InEmpty DEF Gapless
<1> QED BY <1>2, <1>3, <1>6, OneGapless

LEMMA LocalClient ==
    ASSUME StreamInv, LocalInv, NEW p \in Readers,
           LoadStep(p) \/ ReaderEvent(p) \/ Reconnect(p) \/ ReaderError(p) \/ ReaderRefresh(p)
    PROVE  LocalInv'
<1>0. /\ stream[p] \in HandlerRecord /\ stream = [stream EXCEPT ![p] = stream[p]]
      /\ queue[p] \in Seq(1..Len(log)) /\ queue = [queue EXCEPT ![p] = queue[p]]
      /\ out[p] \in Seq(1..Len(log)) /\ out = [out EXCEPT ![p] = out[p]]
      /\ reader[p] \in ReaderRecord /\ Len(log) \in Nat
      /\ Fits(stream[p], out[p], reader[p])
  BY ReaderFacts
<1>g. Gapless(stream[p], queue[p], out[p], reader[p])
  BY DEF LocalInv
\* A client that shows nothing holds what it has been given.
<1>s. ASSUME NEW r, r.view # "shown", r.view = "answered" => Whole(r.events),
             reader' = [reader EXCEPT ![p] = r], UNCHANGED <<logVars, busVars, streamVars>>
      PROVE  LocalInv'
  <2>1. Gapless(stream[p], queue[p], out[p], r)
    BY <1>g, <1>s DEF Gapless
  <2> QED BY <1>0, <1>s, <2>1, OneGapless DEF streamVars
<1>1. CASE ReaderSnapshot(p)
  <2>1. PICK fin \in BOOLEAN :
           reader' = [reader EXCEPT ![p].view = "answered", ![p].events = DOMAIN log, ![p].finished = fin]
    BY <1>1 DEF ReaderSnapshot
  <2> DEFINE r == [reader[p] EXCEPT !.view = "answered", !.events = DOMAIN log, !.finished = fin]
  <2>2. DOMAIN log = 1..Len(log)
    BY DEF StreamInv, LogInv, LogTypeOK
  <2>3. r.view = "answered" /\ r.events = 1..Len(log)
    BY <1>0, <2>2 DEF ReaderRecord
  <2>4. reader' = [reader EXCEPT ![p] = r]
    BY <2>1
  <2> HIDE DEF r
  <2>5. Whole(r.events)
    BY <1>0, <2>3 DEF Whole
  <2> QED BY <1>1, <1>s, <2>3, <2>4, <2>5 DEF ReaderSnapshot
<1>2. CASE ReaderShow(p)
  <2> DEFINE r == [reader[p] EXCEPT !.view = "shown", !.conn = "open"]
  <2>1. r.view = "shown" /\ r.events = reader[p].events
    BY <1>0 DEF ReaderRecord
  <2>2. reader' = [reader EXCEPT ![p] = r] /\ reader[p].view = "answered"
    BY <1>2 DEF ReaderShow
  <2> HIDE DEF r
  <2> QED BY <1>2, <2>1, <2>2, GaplessOpen DEF ReaderShow
<1>3. CASE Reconnect(p)
  <2> DEFINE r == [reader[p] EXCEPT !.conn = "open"]
  <2>1. r.view = reader[p].view /\ r.events = reader[p].events
    BY <1>0 DEF ReaderRecord
  <2>2. reader' = [reader EXCEPT ![p] = r]
    BY <1>3 DEF Reconnect
  <2> HIDE DEF r
  <2> QED BY <1>3, <2>1, <2>2, GaplessOpen DEF Reconnect
<1>4. CASE ReaderError(p)
  <2> DEFINE r == [reader[p] EXCEPT !.view = "error"]
  <2>1. r.view = "error" /\ reader' = [reader EXCEPT ![p] = r]
    BY <1>0, <1>4 DEF ReaderRecord, ReaderError
  <2> HIDE DEF r
  <2> QED BY <1>4, <1>s, <2>1 DEF ReaderError
<1>5. CASE ReaderRefresh(p)
  <2> DEFINE r == [reader[p] EXCEPT !.view = "loading", !.conn = IF @ = "open" THEN @ ELSE "none"]
  <2>1. r.view = "loading" /\ reader' = [reader EXCEPT ![p] = r]
    BY <1>0, <1>5 DEF ReaderRecord, ReaderRefresh
  <2> HIDE DEF r
  <2> QED BY <1>5, <1>s, <2>1 DEF ReaderRefresh
<1>6. CASE ReaderEvent(p)
  <2> DEFINE s == Head(out[p])
             o == Tail(out[p])
  <2>1. /\ reader[p].conn = "open" /\ out[p] # <<>> /\ out' = [out EXCEPT ![p] = o]
        /\ UNCHANGED <<stream, queue, logVars, busVars, drops>>
    BY <1>6 DEF ReaderEvent
  <2>2. out[p] \in Seq(Nat) /\ Ascends(out[p])
    BY <1>0, SeqMonotonic DEF Fits, Ascends
  <2>3. In(out[p]) = {s} \cup In(o) /\ \A m \in In(o) : s < m
    BY <2>1, <2>2, AscendsTail
  <2>4. s \in 1..Len(log) /\ In(o) \subseteq 1..Len(log) /\ s <= stream[p].last
    <3>1. In(out[p]) \subseteq 1..Len(log)
      BY ReaderRows
    <3>2. \A m \in In(out[p]) : m <= stream[p].last
      BY <1>0 DEF Fits, In
    <3> QED BY <2>3, <3>1, <3>2
  <2>5. stream[p].last \in Nat
    BY <1>0 DEF HandlerRecord
  <2> HIDE DEF o, s
  <2>7. CASE Shown(p)
    <3> DEFINE r == [reader[p] EXCEPT !.events = @ \cup {s},
                                      !.finished = @ \/ log[s] \in TerminalAppends]
    <3>1. r.view = "shown" /\ r.events = reader[p].events \cup {s} /\ r.conn = reader[p].conn
      BY <1>0, <2>7 DEF ReaderRecord, Shown
    <3>2. reader' = [reader EXCEPT ![p] = r]
      BY <1>6, <2>7 DEF ReaderEvent, Shown, s
    <3> HIDE DEF r
    <3>3. \A n \in 1..stream[p].last : n \in reader[p].events \/ n \in In(out[p]) \/ Skipped(n)
      BY <1>g, <2>1, <2>7 DEF Gapless, Shown
    <3>4. \A n \in 1..s : n \in r.events \/ Skipped(n)
      <4> SUFFICES ASSUME NEW n \in 1..s PROVE n \in r.events \/ Skipped(n)
        OBVIOUS
      <4>1. n \in 1..stream[p].last /\ n \notin In(o)
        BY <2>3, <2>4, <2>5
      <4> QED BY <2>3, <3>1, <3>3, <4>1
    <3>5. Whole(r.events)
      <4>1. Whole(reader[p].events)
        BY <1>g, <2>7 DEF Gapless, Shown
      <4> QED BY <3>1, <3>4, <4>1 DEF Whole
    <3>6. \A n \in 1..stream[p].last : n \in r.events \/ n \in In(o) \/ Skipped(n)
      BY <2>3, <3>1, <3>3
    <3>7. Gapless(stream[p], queue[p], o, r)
      BY <1>g, <3>1, <3>5, <3>6 DEF Gapless
    <3> QED BY <1>0, <2>1, <3>2, <3>7, OneGapless
  <2>8. CASE ~Shown(p)
    <3>1. reader' = [reader EXCEPT ![p] = reader[p]]
      BY <1>6, <2>8, ReaderFacts DEF ReaderEvent, Shown
    <3>2. Gapless(stream[p], queue[p], o, reader[p])
      BY <1>g, <2>8 DEF Gapless, Shown
    <3> QED BY <1>0, <2>1, <3>1, <3>2, OneGapless
  <2> QED BY <2>7, <2>8
<1> QED BY <1>1, <1>2, <1>3, <1>4, <1>5, <1>6 DEF LoadStep

LEMMA LocalNext == Local /\ StreamInv /\ LocalInv /\ [Next]_vars => LocalInv'
<1> SUFFICES ASSUME Local, StreamInv, LocalInv, [Next]_vars PROVE LocalInv'
  OBVIOUS
<1>1. ASSUME NEW a \in Appends,
             \/ LogOnly(AppendLock(a)) \/ CallStep(a)
             \/ RedisPublishFails(a) \/ PublishCancelled(a)
      PROVE  LocalInv'
  <2>1. Instances # {}
    BY DEF StreamInv, LogInv, LogTypeOK
  <2>2. \/ LogOnly(AppendLock(a) \/ RowLock(a) \/ ReadMax(a)) \/ LogOnly(Insert(a)) \/ Released(a)
        \/ RedisPublish(a) \/ RedisPublishFails(a) \/ PublishCancelled(a)
    BY <1>1 DEF CallStep, LogOnly
  <2> QED BY <2>1, <2>2, LocalBefore, LocalInsert, LocalRelease, LocalCancel, LocalNoRedis
<1>2. ASSUME NEW i \in Instances, BusStep(i) \/ ListenerDies(i) \/ Crash(i)
      PROVE  LocalInv'
  BY <1>2, LocalCrash
  DEF LocalInv, BusStep, ListenerDeliver, ListenerStart, ListenerDies
<1>3. CASE UNCHANGED vars
  <2>1. UNCHANGED <<log, call, listening, stream, queue, out, reader>>
    BY <1>3 DEF vars, logVars, busVars, streamVars
  <2> QED BY <2>1 DEF LocalInv, Gapless, Whole, Skipped, Given, CallOf
<1> QED BY <1>1, <1>2, <1>3, LocalDrop, LocalJoin, LocalReplay, LocalSend, LocalClient
    DEF Next, StreamStep

\* On one instance without Redis, a phone that shows the session holds every
\* event up to its cursor, whatever is dropped, reloaded or restarted, but for
\* appends whose job was cancelled between the commit and the publish.
THEOREM CursorIsEnough == ASSUME Local PROVE Spec => []GapsAreCancelled
<1>1. Local
  OBVIOUS
<1>2. StreamInv /\ LocalInv => GapsAreCancelled
  BY WholeLatest DEF GapsAreCancelled, LocalInv, Gapless, Shown
<1> QED BY <1>1, <1>2, LocalInit, LocalNext, StreamInvariant, PTL DEF Spec

=============================================================================
