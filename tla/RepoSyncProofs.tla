---------------------------- MODULE RepoSyncProofs ----------------------------
(***************************************************************************)
(* Proofs about the laptop's repositories, for any number of repositories, *)
(* requests, selections and faults: the types, the bound on the devices,   *)
(* that a sync on its own leaves exactly what was scanned active, and that *)
(* selections take turns.                                                  *)
(***************************************************************************)
EXTENDS RepoSync, FiniteSetTheorems, WellFoundedInduction, TLAPS

-----------------------------------------------------------------------------
(* The agent and the handlers                                              *)

AgentRecord == [pc : {"off", "save", "scan", "asked"}, dev : 0..devices, looping : BOOLEAN]
HandRecord == [pc : {"idle", "load", "items"}, dev : 0..devices, seen : SUBSET Roots,
               todo : SUBSET Roots, known : [Roots -> Row], asked : BOOLEAN, alone : BOOLEAN]

\* The request the agent waits for, if any, is the only one it has asked.
Waits == IF agent.pc = "asked" THEN \E h \in Handlers : {o \in Handlers : hand[o].asked} = {h}
         ELSE \A o \in Handlers : ~hand[o].asked

\* A device that is not saved yet is paid for by a fault, or is the one the
\* agent is about to save.
DeviceInv ==
    /\ devices \in Nat /\ saved \in 0..devices /\ faults \in 0..MaxFaults
    /\ agent \in AgentRecord
    /\ devices <= 1 + faults
    /\ saved = 0 /\ agent.pc # "save" => devices <= faults
    /\ agent.pc # "off" => agent.dev # 0

SyncInv ==
    /\ DeviceInv
    /\ disk \subseteq Roots /\ changes \in 0..MaxChanges
    /\ rows \in [Dev -> [Roots -> Row]]
    /\ hand \in [Handlers -> HandRecord]
    /\ \A h \in Handlers : hand[h].pc # "idle" => hand[h].dev # 0
    /\ Waits

\* A fault more allows no less.
LEMMA FaultCount ==
    ASSUME NEW m \in Nat, NEW f \in Nat, NEW g \in f..m, NEW d \in Nat, d <= 1 + f
    PROVE  g \in 0..m /\ d <= 1 + g /\ (d <= f => d <= g)
OBVIOUS

\* What the agent makes of an answer: it waits no longer.
LEMMA AnswerKeeps ==
    ASSUME SyncInv, NEW h \in Handlers, NEW ok \in BOOLEAN, Answered(h, ok),
           hand' = [hand EXCEPT ![h] = HandIdle], rows' \in [Dev -> [Roots -> Row]],
           faults' \in faults..MaxFaults, UNCHANGED <<disk, devices, saved, changes>>
    PROVE  SyncInv'
<1> USE DEF SyncInv, DeviceInv, AgentRecord
<1>1. HandIdle \in HandRecord
  BY DEF HandIdle, HandRecord, NoRows, Row
<1>2. hand' \in [Handlers -> HandRecord']
  BY <1>1 DEF HandRecord
<1>3. hand'[h] = HandIdle /\ \A o \in Handlers : o # h => hand'[o] = hand[o]
  OBVIOUS
<1>4. \A o \in Handlers : hand'[o].pc # "idle" => hand'[o].dev # 0
  BY <1>3 DEF HandIdle
<1>7. /\ faults' \in 0..MaxFaults /\ devices <= 1 + faults'
      /\ saved = 0 /\ agent.pc # "save" => devices <= faults'
  <2>1. /\ faults \in Nat /\ MaxFaults \in Nat /\ faults' \in faults..MaxFaults
        /\ devices \in Nat /\ devices <= 1 + faults
        /\ saved = 0 /\ agent.pc # "save" => devices <= faults
    BY SyncAssumption
  <2> QED BY <2>1, FaultCount
<1>5. CASE ~hand[h].asked
  <2>1. agent' = agent
    BY <1>5 DEF Answered
  <2>2. {o \in Handlers : hand'[o].asked} = {o \in Handlers : hand[o].asked}
    BY <1>3, <1>5 DEF HandIdle
  <2>3. Waits'
    BY <2>1, <2>2 DEF Waits
  <2>4. DeviceInv'
    BY <1>7, <2>1
  <2> QED BY <1>2, <1>4, <2>3, <2>4
<1>6. CASE hand[h].asked
  <2>1. agent.pc = "asked" /\ \A o \in Handlers : hand[o].asked => o = h
    BY <1>6 DEF Waits
  <2>2. \A o \in Handlers : ~hand'[o].asked
    BY <1>3, <2>1 DEF HandIdle
  <2> DEFINE again == [agent EXCEPT !.pc = "scan", !.looping = TRUE]
  <2>5. again \in AgentRecord /\ again.pc = "scan" /\ again.dev # 0
    BY <2>1
  <2>6. Off \in AgentRecord /\ Off.pc = "off"
    BY DEF Off
  <2>7. agent' = again \/ agent' = Off
    BY <1>6 DEF Answered
  <2>3. agent' \in AgentRecord /\ agent'.pc \notin {"asked", "save"} /\ (agent'.pc # "off" => agent'.dev # 0)
    BY <2>5, <2>6, <2>7
  <2>4. Waits'
    BY <2>2, <2>3 DEF Waits
  <2>8. DeviceInv'
    BY <1>7, <2>1, <2>3
  <2> QED BY <1>2, <1>4, <2>4, <2>8
<1> QED BY <1>5, <1>6

\* A handler that goes on.
LEMMA HandGoesOn ==
    ASSUME SyncInv, NEW h \in Handlers, NEW g \in HandRecord,
           hand' = [hand EXCEPT ![h] = g], g.dev = hand[h].dev, g.asked = hand[h].asked,
           hand[h].pc # "idle", rows' \in [Dev -> [Roots -> Row]],
           UNCHANGED <<disk, devices, saved, agent, faults, changes>>
    PROVE  SyncInv'
<1> USE DEF SyncInv, DeviceInv, AgentRecord
<1>1. hand' \in [Handlers -> HandRecord'] /\ HandRecord' = HandRecord
  BY DEF HandRecord
<1>2. hand'[h] = g /\ \A o \in Handlers : o # h => hand'[o] = hand[o]
  OBVIOUS
<1>3. {o \in Handlers : hand'[o].asked} = {o \in Handlers : hand[o].asked}
  BY <1>2
<1>4. Waits'
  BY <1>3 DEF Waits
<1> QED BY <1>1, <1>2, <1>4

LEMMA HandKeeps ==
    ASSUME SyncInv, NEW h \in Handlers, HandStep(h) \/ SyncLost(h)
    PROVE  SyncInv'
<1>0. hand[h] \in HandRecord /\ devices \in Nat /\ faults \in 0..MaxFaults /\ MaxFaults \in Nat
  BY SyncAssumption DEF SyncInv, DeviceInv
<1>d. hand[h].pc # "idle" => hand[h].dev \in Dev
  BY <1>0, SyncAssumption DEF SyncInv, DeviceInv, Dev, HandRecord
<1>1. CASE SyncLoad(h)
  <2> DEFINE g == [hand[h] EXCEPT !.pc = "items", !.todo = hand[h].seen, !.known = rows[hand[h].dev]]
  <2>1. rows[hand[h].dev] \in [Roots -> Row]
    BY <1>1, <1>d DEF SyncLoad, SyncInv
  <2>2. g \in HandRecord /\ g.dev = hand[h].dev /\ g.asked = hand[h].asked
    BY <1>0, <2>1 DEF HandRecord
  <2>3. hand' = [hand EXCEPT ![h] = g] /\ hand[h].pc # "idle"
    BY <1>1 DEF SyncLoad
  <2> HIDE DEF g
  <2> QED BY <1>1, <2>2, <2>3, HandGoesOn DEF SyncLoad, SyncInv
<1>2. CASE SyncUpdate(h)
  <2>1. PICK r \in hand[h].todo \ Fresh(h), new \in SUBSET Fresh(h) :
          /\ rows' = [rows EXCEPT ![hand[h].dev] =
                 [q \in Roots |-> IF q \in new \/ (q = r /\ Revived(h, r)) THEN "on" ELSE @[q]]]
          /\ hand' = [hand EXCEPT ![h].todo = @ \ (new \cup {r})]
    BY <1>2 DEF SyncUpdate
  <2> DEFINE g == [hand[h] EXCEPT !.todo = @ \ (new \cup {r})]
  <2>2. g \in HandRecord /\ g.dev = hand[h].dev /\ g.asked = hand[h].asked
    BY <1>0 DEF HandRecord
  <2>3. hand' = [hand EXCEPT ![h] = g] /\ hand[h].pc # "idle"
    BY <1>2, <2>1 DEF SyncUpdate
  <2>4. rows' \in [Dev -> [Roots -> Row]]
    BY <1>d, <2>1, <2>3 DEF SyncInv, Row
  <2> HIDE DEF g
  <2> QED BY <1>2, <2>2, <2>3, <2>4, HandGoesOn DEF SyncUpdate
<1>3. CASE SyncFinish(h)
  <2>1. rows' \in [Dev -> [Roots -> Row]]
    BY <1>d, <1>3 DEF SyncFinish, SyncInv, Row
  <2>2. faults' \in faults..MaxFaults
    BY <1>0, <1>3 DEF SyncFinish
  <2> QED BY <1>3, <2>1, <2>2, AnswerKeeps DEF SyncFinish
<1>4. CASE SyncConflict(h)
  <2>1. faults' \in faults..MaxFaults
    BY <1>0, <1>4 DEF SyncConflict
  <2> QED BY <1>4, <2>1, AnswerKeeps DEF SyncConflict, SyncInv
<1>5. CASE SyncLost(h)
  <2>1. faults' \in faults..MaxFaults
    BY <1>0, <1>5 DEF SyncLost
  <2> QED BY <1>5, <2>1, AnswerKeeps DEF SyncLost, SyncInv
<1> QED BY <1>1, <1>2, <1>3, <1>4, <1>5 DEF HandStep

\* The steps of the laptop.  Only the end of a process touches the handlers.
LEMMA AgentKeeps ==
    ASSUME SyncInv, Register \/ SaveDevice \/ FindNothing \/ AgentStops \/ AgentDies
    PROVE  SyncInv'
<1> USE DEF SyncInv, DeviceInv, AgentRecord, Waits
<1>0. MaxFaults \in Nat
  BY SyncAssumption
<1>1. CASE Register
  <2>1. agent.pc = "off" /\ \A o \in Handlers : ~hand[o].asked
    BY <1>1 DEF Register
  <2>2. CASE saved # 0
    <3>1. /\ agent' = [Off EXCEPT !.pc = "save", !.dev = saved]
          /\ saved' = saved /\ devices' = devices
      BY <1>1, <2>2 DEF Register
    <3>2. agent' \in AgentRecord' /\ agent'.pc = "save" /\ agent'.dev # 0
      BY <2>2, <3>1 DEF Off
    <3> QED BY <1>1, <2>1, <2>2, <3>1, <3>2 DEF Register, HandRecord
  <2>3. CASE saved = 0
    <3>6. devices' = devices + 1
      BY <1>1, <2>3 DEF Register
    <3>1. agent' = [Off EXCEPT !.pc = "save", !.dev = devices + 1] /\ devices <= faults
      BY <1>1, <2>1, <2>3, <3>6 DEF Register
    <3>0. devices + 1 \in 0..(devices + 1) /\ devices + 1 # 0
      OBVIOUS
    <3>2. agent' \in AgentRecord' /\ agent'.pc = "save" /\ agent'.dev # 0
      BY <3>6, <3>0, <3>1 DEF Off
    <3>3. UNCHANGED <<disk, saved, rows, hand, changes, faults>>
      BY <1>1 DEF Register
    <3>4. hand' \in [Handlers -> HandRecord']
      BY <3>6, <3>3 DEF HandRecord
    <3>5. devices' \in Nat /\ saved' \in 0..devices' /\ devices' <= 1 + faults'
      BY <3>6, <3>1, <3>3, <1>0
    <3> QED BY <2>1, <3>2, <3>3, <3>4, <3>5, <3>6
  <2> QED BY <1>1, <2>2, <2>3 DEF Register
<1>2. CASE SaveDevice \/ FindNothing
  <2>1. agent' \in AgentRecord' /\ agent'.pc = "scan" /\ agent'.dev # 0 /\ saved' \in 0..devices
    BY <1>2 DEF SaveDevice, FindNothing
  <2>2. agent.pc # "asked" /\ (agent.pc # "save" => saved' = saved) /\ (agent.pc = "save" => saved' # 0)
    BY <1>2 DEF SaveDevice, FindNothing
  <2>3. UNCHANGED <<disk, devices, rows, hand, changes, faults>>
    BY <1>2 DEF SaveDevice, FindNothing
  <2> QED BY <2>1, <2>2, <2>3 DEF HandRecord
<1>3. CASE AgentStops
  BY <1>3 DEF AgentStops, Off, HandRecord
<1>4. CASE AgentDies
  <2>1. /\ agent' = Off /\ faults' = faults + 1 /\ faults' \in 0..MaxFaults
        /\ saved' \in {saved, 0}
        /\ UNCHANGED <<disk, devices, rows, changes>>
    BY <1>0, <1>4 DEF AgentDies
  <2>2. hand' = [h \in Handlers |-> [hand[h] EXCEPT !.asked = FALSE]]
    BY <1>4 DEF AgentDies
  <2>e. \A h \in Handlers : [hand[h] EXCEPT !.asked = FALSE] \in HandRecord
    BY DEF HandRecord
  <2>3. hand' \in [Handlers -> HandRecord']
    BY <2>1, <2>2, <2>e DEF HandRecord
  <2>4. \A h \in Handlers : ~hand'[h].asked /\ hand'[h].pc = hand[h].pc /\ hand'[h].dev = hand[h].dev
    BY <2>2 DEF HandRecord
  <2>5. agent' \in AgentRecord' /\ agent'.pc = "off"
    BY <2>1 DEF Off
  <2>6. devices <= 1 + faults /\ devices <= faults'
    BY <2>1
  <2> QED BY <2>1, <2>3, <2>4, <2>5, <2>6
<1> QED BY <1>1, <1>2, <1>3, <1>4

LEMMA PostKeeps ==
    ASSUME SyncInv, NEW h \in Handlers, PostSync(h)
    PROVE  SyncInv'
<1> DEFINE rivals == {o \in Handlers : hand[o].pc # "idle"}
           g == [HandIdle EXCEPT !.pc = "load", !.dev = agent.dev, !.seen = disk,
                                 !.asked = TRUE, !.alone = rivals = {}]
<1>1. /\ agent.pc = "scan" /\ agent' = [agent EXCEPT !.pc = "asked"]
      /\ hand' = [o \in Handlers |-> IF o = h THEN g ELSE [hand[o] EXCEPT !.alone = @ /\ o \notin rivals]]
      /\ UNCHANGED <<disk, devices, saved, rows, changes, faults>>
  BY DEF PostSync
<1>2. g \in HandRecord /\ g.asked /\ g.dev # 0
  BY <1>1 DEF HandIdle, HandRecord, NoRows, Row, SyncInv, DeviceInv, AgentRecord
<1> HIDE DEF g
<1>3. \A o \in Handlers : [hand[o] EXCEPT !.alone = @ /\ o \notin rivals] \in HandRecord
  BY DEF SyncInv, HandRecord
<1>4. hand' \in [Handlers -> HandRecord']
  BY <1>1, <1>2, <1>3 DEF HandRecord
<1>5. \A o \in Handlers \ {h} : /\ hand'[o].pc = hand[o].pc /\ hand'[o].dev = hand[o].dev
                                /\ hand'[o].asked = hand[o].asked
  BY <1>1 DEF SyncInv, HandRecord
<1>6. hand'[h] = g /\ \A o \in Handlers : ~hand[o].asked
  BY <1>1 DEF SyncInv, Waits
<1>7. {o \in Handlers : hand'[o].asked} = {h}
  BY <1>2, <1>5, <1>6
<1>8. agent' \in AgentRecord' /\ agent'.pc = "asked" /\ agent'.dev # 0
  BY <1>1 DEF SyncInv, DeviceInv, AgentRecord
<1>9. Waits'
  BY <1>7, <1>8 DEF Waits
<1>10. DeviceInv'
  BY <1>1, <1>8 DEF SyncInv, DeviceInv
<1> QED BY <1>1, <1>2, <1>4, <1>5, <1>6, <1>9, <1>10 DEF SyncInv

LEMMA SyncInit == Init => SyncInv
<1> SUFFICES ASSUME Init PROVE SyncInv
  OBVIOUS
<1>1. Off \in AgentRecord /\ DeviceInv
  BY SyncAssumption DEF Init, Off, AgentRecord, DeviceInv
<1>2. HandIdle \in HandRecord /\ HandIdle.pc = "idle" /\ ~HandIdle.asked
  BY DEF Init, HandIdle, HandRecord, NoRows, Row
<1>3. hand = [h \in Handlers |-> HandIdle] /\ \A h \in Handlers : hand[h] = HandIdle
  BY DEF Init
<1>4. hand \in [Handlers -> HandRecord]
  BY <1>2, <1>3
<1>5. rows \in [Dev -> [Roots -> Row]]
  BY DEF Init, NoRows, Row
<1>6. Waits
  BY <1>2, <1>3 DEF Init, Waits, Off
<1> QED BY <1>1, <1>2, <1>3, <1>4, <1>5, <1>6, SyncAssumption DEF Init, SyncInv

LEMMA SyncNext == SyncInv /\ [Next]_vars => SyncInv'
<1> SUFFICES ASSUME SyncInv, [Next]_vars PROVE SyncInv'
  OBVIOUS
<1>1. ASSUME NEW r \in Roots, DiskChanges(r) PROVE SyncInv'
  BY <1>1, SyncAssumption DEF DiskChanges, SyncInv, DeviceInv, AgentRecord, HandRecord, Waits
<1>2. CASE UNCHANGED sync
  BY <1>2 DEF sync, SyncInv, DeviceInv, AgentRecord, HandRecord, Waits
<1>3. ASSUME NEW s \in Selects, SelectStart(s) \/ SelectUpdate(s) \/ SelectFlush(s) \/ SelectCommit(s)
      PROVE  SyncInv'
  BY <1>2, <1>3 DEF SelectStart, SelectUpdate, SelectFlush, SelectCommit
<1> QED BY <1>1, <1>2, <1>3, AgentKeeps, PostKeeps, HandKeeps DEF Next, AgentStep, vars

LEMMA SyncInvariant == Spec => []SyncInv
BY SyncInit, SyncNext, PTL DEF Spec

\* However often agents die, are restarted or give up waiting, each run but
\* one that dies while it registers or saves its device leaves the next one the same
\* device (device_agent.py, register_device and save_device_id).
THEOREM DevicesStayBounded == Spec => []DevicesBounded
<1>1. SyncInv => DevicesBounded
  BY DEF SyncInv, DeviceInv, DevicesBounded
<1> QED BY <1>1, SyncInvariant, PTL

-----------------------------------------------------------------------------
(* A sync on its own                                                       *)

\* A request that began beside another, or beside which another began, is not
\* alone.  One that is alone finds the rows as it has loaded them, but for
\* those it has switched on itself.
AloneInv ==
    /\ \A h, o \in Handlers : h # o /\ hand[h].pc # "idle" /\ hand[o].pc # "idle" => ~hand[h].alone
    /\ \A h \in Handlers : hand[h].pc = "items" /\ hand[h].alone =>
          /\ hand[h].todo \subseteq hand[h].seen
          /\ \A r \in Roots : rows[hand[h].dev][r] =
                IF r \in hand[h].seen \ hand[h].todo THEN "on" ELSE hand[h].known[r]

\* Steps that write no row and begin no request.
LEMMA AloneQuiet ==
    ASSUME AloneInv, UNCHANGED rows,
           \A h \in Handlers :
              hand'[h].pc = "idle" \/ (/\ hand'[h].pc = hand[h].pc /\ hand'[h].alone = hand[h].alone
                                       /\ hand'[h].dev = hand[h].dev /\ hand'[h].seen = hand[h].seen
                                       /\ hand'[h].todo = hand[h].todo /\ hand'[h].known = hand[h].known)
    PROVE  AloneInv'
BY DEF AloneInv

\* A request that writes: nobody else is alone beside it.
LEMMA AloneWrites ==
    ASSUME AloneInv, NEW h \in Handlers, hand[h].pc # "idle",
           \A o \in Handlers : o # h => hand'[o] = hand[o],
           hand'[h].pc = "idle" \/ hand'[h].alone = hand[h].alone,
           hand'[h].pc = "items" /\ hand'[h].alone =>
              /\ hand'[h].todo \subseteq hand'[h].seen
              /\ \A r \in Roots : rows'[hand'[h].dev][r] =
                    IF r \in hand'[h].seen \ hand'[h].todo THEN "on" ELSE hand'[h].known[r]
    PROVE  AloneInv'
<1>1. \A g, o \in Handlers : g # o /\ hand'[g].pc # "idle" /\ hand'[o].pc # "idle" => ~hand'[g].alone
  BY DEF AloneInv
<1>2. \A o \in Handlers : o # h /\ hand'[o].pc = "items" => ~hand'[o].alone
  BY DEF AloneInv
<1> QED BY <1>1, <1>2 DEF AloneInv

LEMMA AloneHand ==
    ASSUME SyncInv, AloneInv, NEW h \in Handlers, HandStep(h) \/ SyncLost(h)
    PROVE  AloneInv'
<1>0. hand \in [Handlers -> HandRecord] /\ hand[h] \in HandRecord
  BY DEF SyncInv
<1>d. hand[h].pc # "idle" => hand[h].dev \in Dev /\ rows[hand[h].dev] \in [Roots -> Row]
  BY <1>0, SyncAssumption DEF SyncInv, DeviceInv, Dev, HandRecord
<1>1. CASE SyncLoad(h)
  <2>1. /\ hand'[h].pc = "items" /\ hand'[h].alone = hand[h].alone /\ hand'[h].dev = hand[h].dev
        /\ hand'[h].seen = hand[h].seen /\ hand'[h].todo = hand[h].seen
        /\ hand'[h].known = rows[hand[h].dev]
    BY <1>0, <1>1 DEF SyncLoad, HandRecord
  <2>2. \A o \in Handlers : o # h => hand'[o] = hand[o]
    BY <1>0, <1>1 DEF SyncLoad
  <2>3. rows' = rows /\ hand[h].pc # "idle"
    BY <1>1 DEF SyncLoad
  <2> QED BY <2>1, <2>2, <2>3, AloneWrites
<1>2. CASE SyncUpdate(h)
  <2>1. PICK r \in hand[h].todo \ Fresh(h), new \in SUBSET Fresh(h) :
          /\ rows' = [rows EXCEPT ![hand[h].dev] =
                 [q \in Roots |-> IF q \in new \/ (q = r /\ Revived(h, r)) THEN "on" ELSE @[q]]]
          /\ hand' = [hand EXCEPT ![h].todo = @ \ (new \cup {r})]
    BY <1>2 DEF SyncUpdate
  <2>2. /\ hand'[h].pc = "items" /\ hand'[h].alone = hand[h].alone /\ hand'[h].dev = hand[h].dev
        /\ hand'[h].seen = hand[h].seen /\ hand'[h].todo = hand[h].todo \ (new \cup {r})
        /\ hand'[h].known = hand[h].known /\ hand[h].pc = "items"
    BY <1>0, <1>2, <2>1 DEF SyncUpdate, HandRecord
  <2>3. \A o \in Handlers : o # h => hand'[o] = hand[o]
    BY <1>0, <2>1
  <2>4. \A q \in Roots : rows'[hand[h].dev][q] =
           IF q \in new \/ (q = r /\ Revived(h, r)) THEN "on" ELSE rows[hand[h].dev][q]
    BY <1>d, <2>1, <2>2 DEF SyncInv
  <2>5. ASSUME hand[h].alone PROVE
           /\ hand'[h].todo \subseteq hand'[h].seen
           /\ \A q \in Roots : rows'[hand[h].dev][q] =
                 IF q \in hand'[h].seen \ hand'[h].todo THEN "on" ELSE hand[h].known[q]
    <3>1. /\ hand[h].todo \subseteq hand[h].seen
          /\ \A q \in Roots : rows[hand[h].dev][q] =
                IF q \in hand[h].seen \ hand[h].todo THEN "on" ELSE hand[h].known[q]
      BY <2>2, <2>5 DEF AloneInv
    <3>2. \A q \in Roots : hand[h].known[q] \in Row
      BY <1>0 DEF HandRecord
    <3>3. new \subseteq hand[h].todo /\ r \in hand[h].todo /\ r \in Roots
      BY <1>0 DEF Fresh, HandRecord
    \* What is updated was on when it was loaded, or is switched on.
    <3>4. hand[h].known[r] = "on" \/ Revived(h, r)
      BY <3>2, <3>3 DEF Fresh, Revived, Row
    <3>5. ASSUME NEW q \in Roots PROVE
             rows'[hand[h].dev][q] = IF q \in hand'[h].seen \ hand'[h].todo THEN "on" ELSE hand[h].known[q]
      <4>1. CASE q \in new
        BY <2>2, <2>4, <3>1, <3>3, <4>1
      <4>2. CASE q = r
        BY <2>2, <2>4, <3>1, <3>3, <3>4, <4>2
      <4>3. CASE q \notin new /\ q # r
        BY <2>2, <2>4, <3>1, <4>3
      <4> QED BY <4>1, <4>2, <4>3
    <3> QED BY <2>2, <3>1, <3>5
  <2> QED BY <2>2, <2>3, <2>5, AloneWrites
<1>3. CASE SyncFinish(h) \/ SyncConflict(h) \/ SyncLost(h)
  <2>1. hand' = [hand EXCEPT ![h] = HandIdle] /\ hand[h].pc # "idle"
    BY <1>3 DEF SyncFinish, SyncConflict, SyncLost
  <2>2. hand'[h].pc = "idle" /\ \A o \in Handlers : o # h => hand'[o] = hand[o]
    BY <1>0, <2>1 DEF HandIdle
  <2> QED BY <2>1, <2>2, AloneWrites
<1> QED BY <1>1, <1>2, <1>3 DEF HandStep

LEMMA AlonePost ==
    ASSUME SyncInv, AloneInv, NEW h \in Handlers, PostSync(h)
    PROVE  AloneInv'
<1>1. hand \in [Handlers -> HandRecord]
  BY DEF SyncInv
<1>2. /\ rows' = rows /\ hand[h].pc = "idle" /\ hand'[h].pc = "load"
      /\ hand'[h].alone => \A o \in Handlers : hand[o].pc = "idle"
  BY <1>1 DEF PostSync, HandIdle
<1>3. ASSUME NEW o \in Handlers, o # h
      PROVE  /\ hand'[o].pc = hand[o].pc /\ hand'[o].alone => hand[o].alone /\ hand[o].pc = "idle"
             /\ hand'[o].pc = hand[o].pc
  BY <1>1, <1>3 DEF PostSync, HandRecord
<1>4. \A o \in Handlers : o # h /\ hand'[o].pc # "idle" => ~hand'[o].alone
  BY <1>3
<1> QED BY <1>2, <1>3, <1>4 DEF AloneInv

LEMMA AloneNext == SyncInv /\ AloneInv /\ [Next]_vars => AloneInv'
<1> SUFFICES ASSUME SyncInv, AloneInv, [Next]_vars PROVE AloneInv'
  OBVIOUS
<1>1. ASSUME UNCHANGED <<rows, hand>> PROVE AloneInv'
  BY <1>1, AloneQuiet
<1>2. CASE (\E r \in Roots : DiskChanges(r)) \/ Register \/ SaveDevice \/ FindNothing \/ AgentStops
  BY <1>1, <1>2 DEF DiskChanges, Register, SaveDevice, FindNothing, AgentStops
<1>3. CASE AgentDies
  <2>1. /\ rows' = rows
        /\ \A h \in Handlers : hand'[h] = [hand[h] EXCEPT !.asked = FALSE] /\ hand[h] \in HandRecord
    BY <1>3 DEF AgentDies, SyncInv
  <2> QED BY <2>1, AloneQuiet DEF HandRecord
<1>4. CASE \E s \in Selects : SelectStart(s) \/ SelectUpdate(s) \/ SelectFlush(s) \/ SelectCommit(s)
  BY <1>1, <1>4 DEF SelectStart, SelectUpdate, SelectFlush, SelectCommit, sync
<1>5. CASE UNCHANGED vars
  BY <1>1, <1>5 DEF vars, sync
<1> QED BY <1>2, <1>3, <1>4, <1>5, AlonePost, AloneHand DEF Next, AgentStep

\* A sync beside which no other ran leaves exactly what was scanned active,
\* whatever the commits before it and earlier syncs left (sync_repositories).
THEOREM SyncLeavesExactly == Spec => SyncIsExact
<1>1. Init => AloneInv
  BY DEF Init, AloneInv, HandIdle
<1>2. ASSUME SyncInv, AloneInv, [Next]_vars, NEW h \in Handlers,
             hand[h].alone, hand[h].pc = "items", hand'[h].pc = "idle", faults' = faults
      PROVE  {r \in Roots : rows'[hand[h].dev][r] = "on"} = hand[h].seen
  <2>0. hand \in [Handlers -> HandRecord] /\ hand[h] \in HandRecord /\ faults \in Nat
    BY <1>2 DEF SyncInv, DeviceInv
  <2>a. hand[h].pc = "items" /\ hand'[h].pc = "idle" /\ faults' = faults
    BY <1>2
  <2>1. /\ hand[h].todo \subseteq hand[h].seen
        /\ \A r \in Roots : rows[hand[h].dev][r] =
              IF r \in hand[h].seen \ hand[h].todo THEN "on" ELSE hand[h].known[r]
    BY <1>2 DEF AloneInv
  <2>2. SyncFinish(h) \/ SyncConflict(h)
    <3>1. \A o \in Handlers : o # h /\ (HandStep(o) \/ SyncLost(o)) => hand'[h] = hand[h]
      BY <2>0 DEF HandStep, SyncLoad, SyncUpdate, SyncFinish, SyncConflict, SyncLost
    <3>2. \A o \in Handlers : PostSync(o) => hand'[h].pc = hand[h].pc
      <4> SUFFICES ASSUME NEW o \in Handlers, PostSync(o) PROVE hand'[h].pc = hand[h].pc
        OBVIOUS
      <4>1. o # h
        BY <2>a DEF PostSync
      <4>2. \A b \in BOOLEAN : [hand[h] EXCEPT !.alone = b].pc = hand[h].pc
        BY <2>0 DEF HandRecord
      <4> QED BY <2>0, <4>1, <4>2 DEF PostSync, HandRecord
    <3>3. AgentDies => hand'[h].pc = hand[h].pc
      BY <2>0 DEF AgentDies, HandRecord
    <3>4. SyncLoad(h) \/ SyncUpdate(h) => hand'[h].pc = "items"
      BY <1>2, <2>0 DEF SyncLoad, SyncUpdate, HandRecord
    <3>5. ~SyncLost(h)
      <4>1. faults # faults + 1
        BY <2>0
      <4> QED BY <2>a, <4>1 DEF SyncLost
    <3>6. hand' # hand
      BY <1>2
    <3> QED
      BY <1>2, <3>1, <3>2, <3>3, <3>4, <3>5, <3>6
      DEF Next, AgentStep, HandStep, DiskChanges, Register, SaveDevice, FindNothing, AgentStops,
          SelectStart, SelectUpdate, SelectFlush, SelectCommit, sync, vars
  <2>3. ~SyncConflict(h)
    BY <2>0, <2>1 DEF SyncConflict, Conflict, Fresh, HandRecord
  <2>4. /\ hand[h].todo = Fresh(h)
        /\ \A q \in Roots : rows'[hand[h].dev][q] =
              IF q \in Fresh(h) THEN "on" ELSE IF q \in Unseen(h) THEN "off" ELSE rows[hand[h].dev][q]
    <3>1. hand[h].dev \in Dev
      BY <1>2, <2>0, SyncAssumption DEF SyncInv, DeviceInv, Dev, HandRecord
    <3>2. rows \in [Dev -> [Roots -> Row]]
      BY <1>2 DEF SyncInv
    <3>3. SyncFinish(h)
      BY <2>2, <2>3
    <3> QED BY <3>1, <3>2, <3>3 DEF SyncFinish
  <2>5. ASSUME NEW q \in Roots PROVE rows'[hand[h].dev][q] = "on" <=> q \in hand[h].seen
    <3>1. CASE q \in hand[h].todo
      BY <2>1, <2>4, <3>1
    <3>2. CASE q \in hand[h].seen \ hand[h].todo
      BY <2>1, <2>4, <3>2 DEF Unseen
    <3>3. CASE q \notin hand[h].seen
      BY <2>1, <2>4, <3>3 DEF Unseen
    <3> QED BY <3>1, <3>2, <3>3
  <2> QED BY <2>0, <2>5 DEF HandRecord
<1>3. SyncInv /\ AloneInv /\ [Next]_vars =>
        [\A h \in Handlers :
            hand[h].alone /\ hand[h].pc = "items" /\ hand'[h].pc = "idle" /\ faults' = faults
                => {r \in Roots : rows'[hand[h].dev][r] = "on"} = hand[h].seen]_vars
  BY <1>2
<1> QED BY <1>1, <1>3, AloneNext, SyncInvariant, PTL DEF Spec, SyncIsExact

-----------------------------------------------------------------------------
(* The selections                                                          *)

SelRecord == [pc : {"idle", "update", "flush", "commit"}, id : 0..stamp,
              seen : SUBSET (1..stamp), held : SUBSET current]

\* The selections that will still take an updated_at.
Waiting == {s \in Selects : sel[s].pc \in {"update", "flush"}}

SelTypes ==
    /\ stamp \in Nat /\ current \subseteq 1..stamp
    /\ sel \in [Selects -> SelRecord]
    /\ IsFiniteSet(Waiting) /\ stamp + Cardinality(Waiting) <= MaxSelections

\* What a selection is to clear is held by it alone and older than itself,
\* and nobody has seen a context that is not committed.
SelInv ==
    /\ \A s, o \in Selects : s # o => sel[s].held \cap sel[o].held = {}
    /\ \A s \in Selects : sel[s].pc \in {"idle", "update"} => sel[s].held = {}
    /\ \A s \in Selects : sel[s].pc \in {"flush", "commit"} =>
          sel[s].seen \cap current \subseteq sel[s].held
    /\ \A s \in Selects : sel[s].pc = "commit" =>
          /\ sel[s].id \in 1..stamp /\ sel[s].id \notin current
          /\ \A n \in sel[s].held : n < sel[s].id
          /\ \A o \in Selects : sel[s].id \notin sel[o].seen
          /\ \A o \in Selects : o # s /\ sel[o].pc = "commit" => sel[o].id # sel[s].id

\* The steps of a selection.
LEMMA SelStartKeeps ==
    ASSUME SelTypes, SelInv, NEW s \in Selects, SelectStart(s)
    PROVE  SelTypes' /\ SelInv'
<1> DEFINE g == IF Locked(current) THEN [SelIdle EXCEPT !.pc = "update", !.seen = current]
                ELSE [SelIdle EXCEPT !.pc = "flush", !.seen = current, !.held = current]
<1>1. /\ sel[s].pc = "idle" /\ sel' = [sel EXCEPT ![s] = g] /\ UNCHANGED <<current, stamp>>
      /\ stamp + Cardinality(Waiting) < MaxSelections
  BY DEF SelectStart, Waiting
<1>2. g \in SelRecord /\ g.pc \in {"update", "flush"} /\ g.seen = current
  <2>1. current \subseteq 1..stamp /\ 0 \in 0..stamp
    BY DEF SelTypes
  <2>2. /\ [SelIdle EXCEPT !.pc = "update", !.seen = current] \in SelRecord
        /\ [SelIdle EXCEPT !.pc = "flush", !.seen = current, !.held = current] \in SelRecord
    BY <2>1 DEF SelIdle, SelRecord
  <2>3. g \in SelRecord
    BY <2>2
  <2> QED BY <2>3 DEF SelIdle
<1>3. (g.pc = "update" /\ g.held = {}) \/ (g.pc = "flush" /\ g.held = current /\ ~Locked(current))
  BY DEF SelIdle
<1> HIDE DEF g
<1>4. sel'[s] = g /\ \A o \in Selects : o # s => sel'[o] = sel[o]
  BY <1>1 DEF SelTypes
<1>5. Waiting' = Waiting \cup {s} /\ s \notin Waiting
  BY <1>1, <1>2, <1>4 DEF Waiting
<1>6. SelTypes'
  <2>1. IsFiniteSet(Waiting') /\ Cardinality(Waiting') = Cardinality(Waiting) + 1
    BY <1>5, FS_AddElement DEF SelTypes
  <2>2. Cardinality(Waiting) \in Nat
    BY FS_CardinalityType DEF SelTypes
  <2>3. stamp' + Cardinality(Waiting') <= MaxSelections
    BY <1>1, <2>1, <2>2, SyncAssumption DEF SelTypes
  <2>4. sel' \in [Selects -> SelRecord']
    BY <1>1, <1>2 DEF SelTypes, SelRecord
  <2> QED BY <1>1, <2>1, <2>3, <2>4 DEF SelTypes
<1>7. \A o \in Selects : o # s => g.held \cap sel[o].held = {}
  BY <1>3 DEF Locked
<1>8. \A o, t \in Selects : o # t => sel'[o].held \cap sel'[t].held = {}
  BY <1>4, <1>7 DEF SelInv
<1>9. \A o \in Selects : sel'[o].pc = "commit" => o # s /\ sel'[o] = sel[o]
  BY <1>2, <1>4
<1>10. SelInv'
  BY <1>1, <1>2, <1>3, <1>4, <1>8, <1>9 DEF SelInv
<1> QED BY <1>6, <1>10

LEMMA SelUpdateKeeps ==
    ASSUME SelTypes, SelInv, NEW s \in Selects, SelectUpdate(s)
    PROVE  SelTypes' /\ SelInv'
<1> DEFINE g == [sel[s] EXCEPT !.pc = "flush", !.held = sel[s].seen \cap current]
<1>1. /\ sel[s].pc = "update" /\ ~Locked(sel[s].seen) /\ sel' = [sel EXCEPT ![s] = g]
      /\ UNCHANGED <<current, stamp>>
  BY DEF SelectUpdate
<1>2. /\ g \in SelRecord /\ g.pc = "flush" /\ g.seen = sel[s].seen
      /\ g.held = sel[s].seen \cap current
  BY DEF SelRecord, SelTypes
<1> HIDE DEF g
<1>4. sel'[s] = g /\ \A o \in Selects : o # s => sel'[o] = sel[o]
  BY <1>1 DEF SelTypes
<1>5. Waiting' = Waiting
  BY <1>1, <1>2, <1>4 DEF Waiting
<1>6. SelTypes'
  BY <1>1, <1>2, <1>5 DEF SelTypes, SelRecord
<1>7. \A o \in Selects : o # s => g.held \cap sel[o].held = {}
  BY <1>1, <1>2 DEF Locked
<1>8. \A o, t \in Selects : o # t => sel'[o].held \cap sel'[t].held = {}
  BY <1>4, <1>7 DEF SelInv
<1>9. \A o \in Selects : (sel'[o].pc = "commit" => o # s /\ sel'[o] = sel[o]) /\ sel'[o].seen = sel[o].seen
  BY <1>2, <1>4
<1>10. SelInv'
  BY <1>1, <1>2, <1>4, <1>8, <1>9 DEF SelInv
<1> QED BY <1>6, <1>10

LEMMA SelFlushKeeps ==
    ASSUME SelTypes, SelInv, NEW s \in Selects, SelectFlush(s)
    PROVE  SelTypes' /\ SelInv'
<1> DEFINE g == [sel[s] EXCEPT !.pc = "commit", !.id = stamp + 1]
<1>1. /\ sel[s].pc = "flush" /\ stamp' = stamp + 1 /\ sel' = [sel EXCEPT ![s] = g]
      /\ current' = current
  BY DEF SelectFlush
<1>0. stamp \in Nat /\ stamp + 1 \in 1..(stamp + 1) /\ 1..stamp \subseteq 1..(stamp + 1)
      /\ 0..stamp \subseteq 0..(stamp + 1) /\ stamp + 1 \notin 1..stamp
  BY DEF SelTypes
<1>2. /\ g.pc = "commit" /\ g.id = stamp + 1 /\ g.seen = sel[s].seen /\ g.held = sel[s].held
      /\ sel[s] \in SelRecord
  BY DEF SelRecord, SelTypes
<1>3. g \in SelRecord' /\ SelRecord \subseteq SelRecord'
  <2>1. SelRecord \subseteq SelRecord'
    BY <1>0, <1>1 DEF SelRecord
  <2>2. sel[s] \in SelRecord' /\ stamp + 1 \in 0..stamp'
    BY <1>0, <1>1, <1>2, <2>1
  <2>4. g \in SelRecord'
    BY <2>2 DEF SelRecord
  <2> QED BY <2>1, <2>4
<1> HIDE DEF g
<1>4. sel'[s] = g /\ \A o \in Selects : o # s => sel'[o] = sel[o]
  BY <1>1 DEF SelTypes
<1>5. Waiting' = Waiting \ {s} /\ s \in Waiting
  BY <1>1, <1>2, <1>4 DEF Waiting
<1>6. SelTypes'
  <2>1. IsFiniteSet(Waiting') /\ Cardinality(Waiting') = Cardinality(Waiting) - 1
    BY <1>5, FS_RemoveElement DEF SelTypes
  <2>2. Cardinality(Waiting) \in Nat
    BY FS_CardinalityType DEF SelTypes
  <2>3. stamp' + Cardinality(Waiting') <= MaxSelections
    BY <1>0, <1>1, <2>1, <2>2, SyncAssumption DEF SelTypes
  <2>4. sel' \in [Selects -> SelRecord']
    BY <1>1, <1>3 DEF SelTypes
  <2> QED BY <1>0, <1>1, <2>1, <2>3, <2>4 DEF SelTypes
<1>7. \A o \in Selects : sel'[o].held = sel[o].held /\ sel'[o].seen = sel[o].seen
  BY <1>2, <1>4
<1>8. \A o \in Selects : sel[o].held \subseteq current /\ sel[o].seen \subseteq 1..stamp
  BY DEF SelTypes, SelRecord
<1>9. \A o \in Selects : o # s /\ sel[o].pc = "commit" => sel[o].id \in 1..stamp
  BY DEF SelInv
<1>10. ASSUME NEW o \in Selects, sel'[o].pc = "commit"
       PROVE  /\ sel'[o].id \in 1..stamp' /\ sel'[o].id \notin current'
              /\ \A n \in sel'[o].held : n < sel'[o].id
              /\ \A t \in Selects : sel'[o].id \notin sel'[t].seen
              /\ \A t \in Selects : t # o /\ sel'[t].pc = "commit" => sel'[t].id # sel'[o].id
  <2>1. CASE o = s
    <3>1. sel'[o].id = stamp + 1
      BY <1>2, <1>4, <2>1
    <3>2. \A n \in 1..stamp : n < stamp + 1
      BY <1>0
    <3>3. sel'[o].id \in 1..stamp' /\ stamp + 1 \notin current' /\ current \subseteq 1..stamp
      BY <1>0, <1>1, <3>1 DEF SelTypes
    <3>4. \A n \in sel'[o].held : n < sel'[o].id
      BY <1>7, <1>8, <3>1, <3>2, <3>3
    <3>5. \A t \in Selects : sel'[o].id \notin sel'[t].seen
      BY <1>0, <1>7, <1>8, <3>1
    <3>6. \A t \in Selects : t # o /\ sel'[t].pc = "commit" => sel'[t].id # sel'[o].id
      BY <1>0, <1>4, <1>9, <2>1, <3>1
    <3> QED BY <3>1, <3>3, <3>4, <3>5, <3>6
  <2>2. CASE o # s
    <3>1. sel'[o] = sel[o] /\ sel[o].id \in 1..stamp
      BY <1>4, <1>9, <1>10, <2>2
    <3> QED BY <1>0, <1>1, <1>2, <1>4, <1>7, <1>10, <2>2, <3>1 DEF SelInv
  <2> QED BY <2>1, <2>2
<1>11. SelInv'
  BY <1>1, <1>2, <1>4, <1>7, <1>10 DEF SelInv
<1> QED BY <1>6, <1>11

LEMMA SelCommitKeeps ==
    ASSUME SelTypes, SelInv, NEW s \in Selects, SelectCommit(s)
    PROVE  SelTypes' /\ SelInv'
<1>1. /\ sel[s].pc = "commit" /\ current' = (current \ sel[s].held) \cup {sel[s].id}
      /\ sel' = [sel EXCEPT ![s] = SelIdle] /\ stamp' = stamp
  BY DEF SelectCommit, AfterSelect
<1>2. sel'[s] = SelIdle /\ \A o \in Selects : o # s => sel'[o] = sel[o]
  BY <1>1 DEF SelTypes
<1>3. sel[s].id \in 1..stamp
  BY <1>1 DEF SelInv
<1>4. \A o \in Selects : o # s => sel[o].held \subseteq current'
  BY <1>1 DEF SelInv, SelTypes, SelRecord
<1>5. SelTypes'
  <2>1. Waiting' = Waiting
    BY <1>1, <1>2 DEF Waiting, SelIdle
  <2>2. SelIdle \in SelRecord'
    BY <1>1 DEF SelIdle, SelRecord, SelTypes
  <2>3. \A o \in Selects : o # s => sel[o] \in SelRecord'
    BY <1>1, <1>4 DEF SelTypes, SelRecord
  <2>4. sel' \in [Selects -> SelRecord']
    BY <1>1, <1>2, <2>2, <2>3 DEF SelTypes
  <2> QED BY <1>1, <1>3, <2>1, <2>4 DEF SelTypes
<1>6. \A o \in Selects : sel'[o].held \subseteq sel[o].held /\ sel'[o].seen \subseteq sel[o].seen
  BY <1>2 DEF SelIdle
<1>7. \A o \in Selects : sel'[o].pc # "idle" => o # s /\ sel'[o] = sel[o]
  BY <1>2 DEF SelIdle
<1>8. \A o \in Selects : sel[s].id \notin sel[o].seen
  BY <1>1 DEF SelInv
<1>9. \A o \in Selects : sel'[o].pc \in {"flush", "commit"} => sel'[o].seen \cap current' \subseteq sel'[o].held
  BY <1>1, <1>7, <1>8 DEF SelInv
<1>10. \A o \in Selects : sel'[o].pc \in {"idle", "update"} => sel'[o].held = {}
  BY <1>2 DEF SelInv, SelIdle
<1>11. ASSUME NEW o \in Selects, sel'[o].pc = "commit"
       PROVE  /\ sel'[o].id \in 1..stamp' /\ sel'[o].id \notin current'
              /\ \A n \in sel'[o].held : n < sel'[o].id
              /\ \A t \in Selects : sel'[o].id \notin sel'[t].seen
              /\ \A t \in Selects : t # o /\ sel'[t].pc = "commit" => sel'[t].id # sel'[o].id
  <2>1. o # s /\ sel'[o] = sel[o] /\ sel[o].pc = "commit"
    BY <1>7, <1>11
  <2>2. sel[o].id \notin current'
    BY <1>1, <2>1 DEF SelInv
  <2> QED BY <1>1, <1>6, <1>7, <2>1, <2>2 DEF SelInv
<1>12. \A o, t \in Selects : o # t => sel'[o].held \cap sel'[t].held = {}
  BY <1>6 DEF SelInv
<1> QED BY <1>5, <1>9, <1>10, <1>11, <1>12 DEF SelInv

LEMMA SelInit == Init => SelTypes /\ SelInv
<1> SUFFICES ASSUME Init PROVE SelTypes /\ SelInv
  OBVIOUS
<1>1. SelIdle \in SelRecord
  BY DEF Init, SelIdle, SelRecord
<1>2. Waiting = {}
  BY DEF Init, Waiting, SelIdle
<1>3. IsFiniteSet(Waiting) /\ stamp + Cardinality(Waiting) <= MaxSelections
  BY <1>2, FS_EmptySet, SyncAssumption DEF Init
<1> QED BY <1>1, <1>3 DEF Init, SelTypes, SelInv, SelIdle

LEMMA SelNext == SelTypes /\ SelInv /\ [Next]_vars => SelTypes' /\ SelInv'
<1> SUFFICES ASSUME SelTypes, SelInv, [Next]_vars PROVE SelTypes' /\ SelInv'
  OBVIOUS
<1>1. CASE UNCHANGED choice
  BY <1>1 DEF choice, SelTypes, SelInv, SelRecord, Waiting
<1>2. UNCHANGED choice \/ \E s \in Selects :
         SelectStart(s) \/ SelectUpdate(s) \/ SelectFlush(s) \/ SelectCommit(s)
  BY DEF Next, vars, DiskChanges, Register, AgentStep, SaveDevice, FindNothing, PostSync,
         AgentStops, AgentDies, HandStep, SyncLoad, SyncUpdate, SyncFinish, SyncConflict, SyncLost
<1> QED BY <1>1, <1>2, SelStartKeeps, SelUpdateKeeps, SelFlushKeeps, SelCommitKeeps

LEMMA SelInvariant == Spec => [](SelTypes /\ SelInv)
BY SelInit, SelNext, PTL DEF Spec

\* The types, and with them that an agent that waits has one request running,
\* and that the bounds on devices and selections are kept.
THEOREM SyncTypeCorrect == Spec => []SyncTypeOK
<1>1. SyncInv /\ SelTypes => SyncTypeOK
  <2> SUFFICES ASSUME SyncInv, SelTypes PROVE SyncTypeOK
    OBVIOUS
  <2>1. agent.pc = "asked" => Cardinality({h \in Handlers : hand[h].asked}) = 1
    <3> SUFFICES ASSUME agent.pc = "asked" PROVE Cardinality({h \in Handlers : hand[h].asked}) = 1
      OBVIOUS
    <3>1. PICK h \in Handlers : {o \in Handlers : hand[o].asked} = {h}
      BY DEF SyncInv, Waits
    <3> QED BY <3>1, FS_Singleton
  <2>2. devices \in {0} \cup Dev
    BY SyncAssumption DEF SyncInv, DeviceInv, Dev
  <2>3. stamp \in 0..MaxSelections
    <3>1. Cardinality(Waiting) \in Nat
      BY FS_CardinalityType DEF SelTypes
    <3> QED BY <3>1, SyncAssumption DEF SelTypes
  <2> QED BY <2>1, <2>2, <2>3 DEF SyncInv, DeviceInv, SelTypes, SyncTypeOK, AgentRecord, HandRecord, SelRecord
<1> QED BY <1>1, SyncInvariant, SelInvariant, PTL

\* A non-empty set of numbers up to n has a greatest one.
LEMMA GreatestOf ==
    ASSUME NEW n \in Nat, NEW S, S \subseteq 0..n, S # {}
    PROVE  \E m \in S : \A y \in S : y <= m
<1> DEFINE R == OpToRel(<, Nat)
           T == {n - x : x \in S}
<1>1. IsWellFoundedOn(R, Nat)
  BY NatLessThanWellFounded
<1>2. \A x, y \in Nat : x < y => <<x, y>> \in R
  BY DEF OpToRel
<1>3. T \subseteq Nat /\ T # {}
  <2>1. \A x \in S : n - x \in Nat
    OBVIOUS
  <2> QED BY <2>1
<1> HIDE DEF R
<1>4. PICK m \in T : \A y \in T : ~(<<y, m>> \in R)
  BY <1>1, <1>3, WFMin
<1>5. PICK x \in S : m = n - x
  BY <1>4
<1>6. ASSUME NEW y \in S PROVE y <= x
  <2>1. n - y \in T /\ n - y \in Nat /\ n - x \in Nat
    OBVIOUS
  <2>2. ~(n - y < n - x)
    BY <1>2, <1>4, <1>5, <2>1
  <2> QED BY <2>2
<1> QED BY <1>6

\* What is shown is the greatest of the current contexts.
LEMMA ShownIsLatest ==
    ASSUME NEW k \in Nat, NEW C \in SUBSET (1..k), NEW top,
           top = CHOOSE n \in C \cup {0} : \A m \in C : m <= n
    PROVE  top \in C \cup {0} /\ top \in Nat /\ \A m \in C : m <= top
<1>1. C \cup {0} \subseteq 0..k
  OBVIOUS
<1>2. \E n \in C \cup {0} : \A m \in C \cup {0} : m <= n
  BY <1>1, GreatestOf
<1>3. top \in C \cup {0} /\ \A m \in C : m <= top
  BY <1>2
<1>4. top \in Nat
  <2>1. \A n \in C \cup {0} : n \in Nat
    OBVIOUS
  <2> QED BY <1>3, <2>1
<1> QED BY <1>3, <1>4

\* However many selections overlap, the context that is shown never goes
\* back, and each selection replaces all that were current when it began
\* (select_repository, get_current_context).
THEOREM SelectionsOrdered == Spec => SelectionsTakeTurns
<1>1. ASSUME SelTypes, SelInv, NEW s \in Selects, SelectCommit(s)
      PROVE  Shown' >= Shown /\ sel[s].seen \cap current' = {}
  <2>1. /\ sel[s].pc = "commit" /\ current' = (current \ sel[s].held) \cup {sel[s].id}
        /\ SelTypes' /\ sel[s].id \in 1..stamp
    BY <1>1, SelCommitKeeps DEF SelectCommit, AfterSelect, SelInv
  <2>2. sel[s].seen \cap current' = {}
    BY <2>1, <1>1 DEF SelInv
  <2>3. /\ Shown \in current \cup {0} /\ Shown \in Nat
        /\ Shown' \in Nat /\ \A m \in current' : m <= Shown'
    <3>1. Shown \in current \cup {0} /\ Shown \in Nat
      BY <1>1, ShownIsLatest DEF SelTypes, Shown
    <3>2. Shown' \in Nat /\ \A m \in current' : m <= Shown'
      <4>1. stamp' \in Nat /\ current' \in SUBSET (1..stamp')
        BY <2>1 DEF SelTypes
      <4>2. Shown' = CHOOSE n \in current' \cup {0} : \A m \in current' : m <= n
        BY DEF Shown
      <4> QED BY <4>1, <4>2, ShownIsLatest
    <3> QED BY <3>1, <3>2
  <2>4. CASE Shown \in sel[s].held
    <3>1. Shown < sel[s].id /\ sel[s].id <= Shown'
      BY <1>1, <2>1, <2>3, <2>4 DEF SelInv
    <3> QED BY <2>1, <2>2, <2>3, <3>1
  <2>5. CASE Shown \notin sel[s].held
    BY <2>1, <2>2, <2>3, <2>5
  <2> QED BY <2>4, <2>5
<1>2. ASSUME SelTypes, SelInv, [Next]_vars
      PROVE  [/\ Shown' >= Shown
              /\ \A s \in Selects : sel[s].pc = "commit" /\ sel'[s].pc = "idle"
                     => sel[s].seen \cap current' = {}]_choice
  <2>1. CASE UNCHANGED choice
    BY <2>1
  <2>2. ASSUME NEW s \in Selects, SelectStart(s) \/ SelectUpdate(s) \/ SelectFlush(s)
        PROVE  Shown' >= Shown /\ \A o \in Selects : ~(sel[o].pc = "commit" /\ sel'[o].pc = "idle")
    <3>1. Shown' = Shown
      BY <2>2 DEF SelectStart, SelectUpdate, SelectFlush, Shown
    <3>2. Shown \in Nat
      BY <1>2, ShownIsLatest DEF SelTypes, Shown
    <3>3. \A o \in Selects : o # s => sel'[o] = sel[o]
      BY <1>2, <2>2 DEF SelectStart, SelectUpdate, SelectFlush, SelTypes
    <3>4. ~(sel[s].pc = "commit" /\ sel'[s].pc = "idle")
      BY <2>2 DEF SelectStart, SelectUpdate, SelectFlush
    <3> QED BY <3>1, <3>2, <3>3, <3>4
  <2>3. ASSUME NEW s \in Selects, SelectCommit(s)
        PROVE  /\ Shown' >= Shown
               /\ \A o \in Selects : sel[o].pc = "commit" /\ sel'[o].pc = "idle"
                      => sel[o].seen \cap current' = {}
    <3>1. \A o \in Selects : o # s => sel'[o] = sel[o]
      BY <1>2, <2>3 DEF SelectCommit, SelTypes
    <3> QED BY <1>1, <1>2, <2>3, <3>1
  <2>4. UNCHANGED choice \/ \E s \in Selects :
           SelectStart(s) \/ SelectUpdate(s) \/ SelectFlush(s) \/ SelectCommit(s)
    BY <1>2
    DEF Next, vars, DiskChanges, Register, AgentStep, SaveDevice, FindNothing, PostSync,
        AgentStops, AgentDies, HandStep, SyncLoad, SyncUpdate, SyncFinish, SyncConflict, SyncLost
  <2> QED BY <2>1, <2>2, <2>3, <2>4
<1> QED BY <1>2, SelInvariant, PTL DEF Spec, SelectionsTakeTurns

=============================================================================
