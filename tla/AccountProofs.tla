----------------------------- MODULE AccountProofs -----------------------------
(***************************************************************************)
(* Proofs about the account of a user, for every number of clients and     *)
(* every limit: the types, the bounds that racing requests keep on the     *)
(* session cap and the task cap, and that an outdated summary and a        *)
(* counter without expiry are being looked after.                          *)
(***************************************************************************)
EXTENDS Account, FiniteSetTheorems, TLAPS

Phone == [pc : Pc, session : Nat, targets : SUBSET Nat, late : BOOLEAN]

\* The session ids a request or the database refers to are finitely many.
FiniteInv ==
    /\ IsFiniteSet(live)
    /\ \A p \in Phones : IsFiniteSet(phone[p].targets)

TypeInv == AccountTypeOK /\ FiniteInv

\* Who has counted and will insert.
Issuing == {p \in Phones : At(p, "issue")}
Creating == {p \in Phones : At(p, "create")}

\* Each of them was let in while there was room, and keeps its place.
SessionsInv ==
    MaxSessions > 0 =>
        Cardinality(live) + Cardinality(Issuing) < MaxSessions + Cardinality(Phones)

TasksInv ==
    MaxTasks > 0 => active + Cardinality(Creating) < MaxTasks + Cardinality(Phones)

AccountInv ==
    TypeInv /\ SessionsInv /\ TasksInv /\ StaleIsBeingDropped /\ RateKeyExpires

-----------------------------------------------------------------------------
(* Types                                                                   *)

\* The phone after sign-out and after login.
LEMMA SignedType ==
    /\ SignedOut \in Phone /\ SignedOut.targets = {}
    /\ \A s \in Nat : SignedIn(s) \in Phone /\ SignedIn(s).targets = {}
BY DEF SignedOut, SignedIn, Phone, Pc, LoginPc, UsagePc

\* There is always an id that nobody refers to.
LEMMA FreshExists == TypeInv => FreshSession \in Nat \ {0}
<1> SUFFICES ASSUME TypeInv PROVE FreshSession \in Nat \ {0}
  OBVIOUS
<1> DEFINE ids == [q \in Phones |-> {phone[q].session} \cup phone[q].targets]
           held == {{phone[q].session} \cup phone[q].targets : q \in Phones}
           used == live \cup UNION held
<1>1. IsFiniteSet(held)
  <2>1. ids \in Surjection(Phones, held)
    BY DEF Surjection
  <2> QED BY <2>1, FS_Surjection, AccountAssumption
<1>2. ASSUME NEW S \in held PROVE IsFiniteSet(S)
  <2>1. PICK q \in Phones : S = {phone[q].session} \cup phone[q].targets
    OBVIOUS
  <2>2. IsFiniteSet(phone[q].targets)
    BY DEF TypeInv, FiniteInv
  <2>3. IsFiniteSet({phone[q].session})
    BY FS_Singleton
  <2> QED BY <2>1, <2>2, <2>3, FS_Union
<1>3. IsFiniteSet(UNION held)
  BY <1>1, <1>2, FS_UNION
<1>4. IsFiniteSet(used) /\ Cardinality(used) \in Nat
  BY <1>3, FS_Union, FS_CardinalityType DEF TypeInv, FiniteInv
<1>5. \E s \in 1..(Cardinality(used) + 1) : s \notin used
  <2> SUFFICES ASSUME 1..(Cardinality(used) + 1) \subseteq used PROVE FALSE
    OBVIOUS
  <2> DEFINE n == Cardinality(used)
             ids1 == 1..(n + 1)
  <2>1. n \in Nat
    BY <1>4
  <2>2. Cardinality(ids1) <= n
    <3> HIDE DEF used, n
    <3> QED BY <1>4, FS_Subset DEF n, ids1
  <2>3. Cardinality(ids1) = n + 1
    BY <2>1, FS_Interval
  <2> QED BY <2>1, <2>2, <2>3
<1>6. FreshSession \in 1..(Cardinality(used) + 1)
  BY <1>5 DEF FreshSession
<1> QED BY <1>4, <1>6

\* What the clients keep when a request goes from one statement to the next.
PhonesOk(f) == f \in [Phones -> Phone] /\ \A p \in Phones : IsFiniteSet(f[p].targets)

LEMMA PhonesOkNow == TypeInv => PhonesOk(phone)
BY DEF TypeInv, AccountTypeOK, FiniteInv, PhonesOk, Phone

LEMMA GotoKeeps ==
    ASSUME TypeInv, NEW p \in Phones, NEW pc \in Pc, Goto(p, pc)
    PROVE  PhonesOk(phone')
<1>1. [phone[p] EXCEPT !.pc = pc] \in Phone
      /\ [phone[p] EXCEPT !.pc = pc].targets = phone[p].targets
  BY PhonesOkNow DEF PhonesOk, Phone
<1> QED BY <1>1, PhonesOkNow DEF Goto, PhonesOk

LEMMA PutKeeps ==
    ASSUME TypeInv, NEW p \in Phones, NEW r \in Phone, IsFiniteSet(r.targets)
    PROVE  PhonesOk([phone EXCEPT ![p] = r])
BY PhonesOkNow DEF PhonesOk

\* The same of an update of a client in place.
LEMMA UpdateKeeps ==
    ASSUME TypeInv, NEW p \in Phones, NEW pc \in Pc
    PROVE  /\ \A t \in SUBSET Nat : IsFiniteSet(t) =>
                 PhonesOk([phone EXCEPT ![p] = [@ EXCEPT !.pc = pc, !.targets = t]])
           /\ PhonesOk([phone EXCEPT ![p] = [@ EXCEPT !.pc = pc, !.late = FALSE]])
<1>1. phone[p] \in Phone /\ IsFiniteSet(phone[p].targets)
  BY PhonesOkNow DEF PhonesOk
<1>2. ASSUME NEW t \in SUBSET Nat, IsFiniteSet(t)
      PROVE  PhonesOk([phone EXCEPT ![p] = [@ EXCEPT !.pc = pc, !.targets = t]])
  <2> DEFINE r == [phone[p] EXCEPT !.pc = pc, !.targets = t]
  <2>1. r \in Phone /\ r.targets = t
    BY <1>1 DEF Phone
  <2> HIDE DEF r
  <2>2. PhonesOk([phone EXCEPT ![p] = r])
    BY <1>2, <2>1, PutKeeps
  <2> QED BY <2>2 DEF r
<1>3. PhonesOk([phone EXCEPT ![p] = [@ EXCEPT !.pc = pc, !.late = FALSE]])
  <2> DEFINE r == [phone[p] EXCEPT !.pc = pc, !.late = FALSE]
  <2>1. r \in Phone /\ r.targets = phone[p].targets
    BY <1>1 DEF Phone
  <2> HIDE DEF r
  <2>2. PhonesOk([phone EXCEPT ![p] = r])
    BY <1>1, <2>1, PutKeeps
  <2> QED BY <2>2 DEF r
<1> QED BY <1>2, <1>3

\* The workers' and the cancelling requests' transactions on the tasks.
StatusChanges == TaskEnds \/ TaskCancelled \/ TaskTakenBack \/ JobStopped

\* They change a status, or nothing but a count.
LEMMA StatusChanging ==
    StatusChanges => StatusChange \/ UNCHANGED <<phone, live, worker, rate, cache, faults>>
BY DEF StatusChanges, TaskEnds, TaskCancelled, TaskTakenBack, JobStopped

\* None of them makes an active task of another.
LEMMA StatusCounts ==
    ASSUME TypeInv, StatusChanges
    PROVE  active' \in Nat /\ cancelled' \in Nat /\ revived' \in Nat /\ active' <= active
BY DEF StatusChanges, TaskEnds, TaskCancelled, TaskTakenBack, JobStopped, TypeInv,
       AccountTypeOK

\* A change of the tasks touches only the age of the summaries.
LEMMA TasksChangeKeeps ==
    ASSUME TypeInv
    PROVE  /\ TasksChange => cache' \in {"none"} \cup Age
           /\ \A q \in Phones : StillLate(q) \in BOOLEAN
BY PhonesOkNow DEF TasksChange, StillLate, At, PhonesOk, Phone, TypeInv, AccountTypeOK, Age

LEMMA TypeStep == TypeInv /\ [Next]_vars => TypeInv'
<1> SUFFICES ASSUME TypeInv, [Next]_vars PROVE TypeInv'
  OBVIOUS
<1> USE AccountAssumption
<1> DEFINE Rest ==
      /\ live' \subseteq Nat \ {0} /\ IsFiniteSet(live')
      /\ active' \in Nat /\ cancelled' \in Nat /\ revived' \in Nat
      /\ worker' \in {"idle", "delete"}
      /\ rate' \in [count : 0..(RateLimit + 1), ttl : BOOLEAN]
      /\ cache' \in {"none"} \cup Age
      /\ faults' \in Nat
<1>1. PhonesOk(phone)
  BY PhonesOkNow
<1>2. SUFFICES PhonesOk(phone') /\ Rest
  BY DEF TypeInv, AccountTypeOK, FiniteInv, PhonesOk, Phone
<1> USE DEF TypeInv, AccountTypeOK, FiniteInv, tasks
<1>4. ASSUME NEW p \in Phones, Login(p) PROVE PhonesOk(phone') /\ Rest
  <2>1. CASE LoginRate(p)
    <3>1. \E pc \in {"expire", "sessions", "out"} : Goto(p, pc)
      BY <2>1 DEF LoginRate
    <3>2. PhonesOk(phone')
      BY <3>1, GotoKeeps DEF Pc, LoginPc
    <3>3. rate' \in [count : 0..(RateLimit + 1), ttl : BOOLEAN]
      BY <2>1 DEF LoginRate
    <3> QED BY <2>1, <3>2, <3>3 DEF LoginRate
  <2>2. CASE LoginExpire(p)
    BY <2>2, GotoKeeps DEF LoginExpire, Pc, LoginPc
  <2>3. CASE LoginRefused(p)
    BY <2>3, GotoKeeps DEF LoginRefused, Pc, LoginPc
  <2>4. CASE LoginCount(p)
    <3>1. \E pc \in {"issue", "out"} : Goto(p, pc)
      BY <2>4 DEF LoginCount
    <3> QED BY <3>1, <2>4, GotoKeeps DEF LoginCount, Pc, LoginPc
  <2>5. CASE LoginIssue(p)
    <3>1. live' \subseteq Nat \ {0} /\ IsFiniteSet(live')
      BY <2>5, FreshExists, FS_AddElement DEF LoginIssue
    <3>2. PhonesOk(phone')
      BY <2>5, <1>1, FreshExists, SignedType, FS_EmptySet DEF LoginIssue, PhonesOk
    <3> QED BY <2>5, <3>1, <3>2 DEF LoginIssue
  <2>6. CASE SignOut(p)
    <3>1. PhonesOk(phone')
      BY <2>6, <1>1, SignedType, FS_EmptySet DEF SignOut, PhonesOk
    <3> QED BY <2>6, <3>1 DEF SignOut
  <2> QED BY <1>4, <2>1, <2>2, <2>3, <2>4, <2>5, <2>6 DEF Login
<1>5. ASSUME NEW p \in Phones, Sessions(p) PROVE PhonesOk(phone') /\ Rest
  <2>1. CASE Request(p)
    BY <2>1, GotoKeeps DEF Request, Pc, UsagePc
  <2>2. CASE RequestRevoke(p)
    <3>1. PICK s \in live :
            phone' = [phone EXCEPT ![p] = [@ EXCEPT !.pc = "revoke", !.targets = {s}]]
      BY <2>2 DEF RequestRevoke
    <3>2. {s} \in SUBSET Nat /\ IsFiniteSet({s})
      BY FS_Singleton
    <3>3. PhonesOk(phone')
      BY <3>1, <3>2, UpdateKeeps DEF Pc
    <3> QED BY <2>2, <3>3 DEF RequestRevoke
  <2>3. CASE ListOthers(p)
    <3>1. IsFiniteSet(live \ {phone[p].session})
      BY FS_Difference
    <3>2. PhonesOk(phone')
      BY <2>3, <3>1, UpdateKeeps DEF ListOthers, Pc
    <3> QED BY <2>3, <3>2 DEF ListOthers
  <2>4. CASE Revoke(p)
    <3>1. live' \subseteq Nat \ {0} /\ IsFiniteSet(live')
      BY <2>4, FS_Difference DEF Revoke
    <3>2. PhonesOk(phone')
      BY <2>4, UpdateKeeps, FS_EmptySet DEF Revoke, Pc
    <3> QED BY <2>4, <3>1, <3>2 DEF Revoke
  <2> QED BY <1>5, <2>1, <2>2, <2>3, <2>4 DEF Sessions
<1>6. ASSUME NEW p \in Phones, Creation(p) PROVE PhonesOk(phone') /\ Rest
  <2>1. CASE CountConcurrent(p)
    <3>1. \E pc \in {"create", "in"} : Goto(p, pc)
      BY <2>1 DEF CountConcurrent
    <3> QED BY <3>1, <2>1, GotoKeeps DEF CountConcurrent, Pc
  <2>2. CASE CreateTask(p)
    <3>1. PhonesOk(phone')
      BY <2>2, <1>1, TasksChangeKeeps DEF CreateTask, AfterInsert, PhonesOk, Phone, Pc
    <3> QED BY <2>2, <3>1, TasksChangeKeeps DEF CreateTask
  <2>3. CASE DropUsage(p)
    BY <2>3, GotoKeeps DEF DropUsage, Pc
  <2> QED BY <1>6, <2>1, <2>2, <2>3 DEF Creation
<1>7. ASSUME NEW p \in Phones, Usage(p) PROVE PhonesOk(phone') /\ Rest
  <2>1. CASE UsageGet(p)
    <3>1. \E pc \in {"count", "in"} : Goto(p, pc)
      BY <2>1 DEF UsageGet
    <3> QED BY <3>1, <2>1, GotoKeeps DEF UsageGet, Pc, UsagePc
  <2>2. CASE UsageCount(p)
    BY <2>2, GotoKeeps DEF UsageCount, Pc, UsagePc
  <2>3. CASE UsageSet(p)
    <3>1. PhonesOk(phone')
      BY <2>3, UpdateKeeps DEF UsageSet, Pc
    <3> QED BY <2>3, <3>1 DEF UsageSet, Age
  <2> QED BY <1>7, <2>1, <2>2, <2>3 DEF Usage
<1>8. CASE WindowEnds
  BY <1>8, <1>1 DEF WindowEnds, PhonesOk
<1>9. CASE SessionExpires
  <2>1. PICK s \in live : live' = live \ {s}
    BY <1>9 DEF SessionExpires
  <2> QED BY <1>9, <1>1, <2>1, FS_Difference DEF SessionExpires, PhonesOk
<1>10. CASE UsageExpires
  BY <1>10, <1>1 DEF UsageExpires, PhonesOk
<1>11. CASE StatusChanges
  <2>1. CASE StatusChange
    <3>1. PhonesOk(phone')
      BY <2>1, <1>1, TasksChangeKeeps DEF StatusChange, PhonesOk, Phone
    <3> QED BY <1>11, <2>1, <3>1, TasksChangeKeeps, StatusCounts DEF StatusChange
  <2>2. CASE UNCHANGED <<phone, live, worker, rate, cache, faults>>
    BY <1>11, <1>1, <2>2, StatusCounts DEF PhonesOk
  <2> QED BY <1>11, <2>1, <2>2, StatusChanging
<1>12. CASE WorkerDropsUsage
  BY <1>12, <1>1 DEF WorkerDropsUsage, PhonesOk
<1>13. CASE HandlerDies
  <2>1. ASSUME NEW p \in Phones,
               phone' = [phone EXCEPT ![p] =
                    IF @.pc \in LoginPc THEN SignedOut ELSE SignedIn(@.session)]
        PROVE  PhonesOk(phone')
    <3>1. phone[p].session \in Nat
      BY <1>1 DEF PhonesOk, Phone
    <3> QED BY <2>1, <3>1, PutKeeps, SignedType, FS_EmptySet
  <2> QED BY <1>13, <1>1, <2>1 DEF HandlerDies
<1>14. CASE UNCHANGED vars
  BY <1>14, <1>1 DEF vars
<1> QED BY <1>4, <1>5, <1>6, <1>7, <1>8, <1>9, <1>10, <1>11, <1>12, <1>13, <1>14
       DEF Next, StatusChanges

-----------------------------------------------------------------------------
(* Where the requests go                                                   *)

\* The request of p goes to a statement in S; the others stay.
Moves(p, S) ==
    /\ phone'[p].pc \in S
    /\ \A q \in Phones \ {p} : phone'[q].pc = phone[q].pc

AllStay == \A q \in Phones : phone'[q].pc = phone[q].pc

LEMMA GotoMoves ==
    ASSUME TypeInv, NEW p \in Phones, NEW pc \in Pc, Goto(p, pc)
    PROVE  Moves(p, {pc})
BY PhonesOkNow DEF Goto, Moves, PhonesOk, Phone

LEMMA LoginMoves ==
    ASSUME TypeInv, NEW p \in Phones
    PROVE  /\ LoginRate(p) => Moves(p, {"expire", "sessions", "out"})
           /\ LoginExpire(p) => Moves(p, {"sessions"})
           /\ LoginRefused(p) => Moves(p, {"out"})
           /\ LoginCount(p) => Moves(p, IF SessionRoom THEN {"issue"} ELSE {"out"})
           /\ LoginIssue(p) => Moves(p, {"in"})
           /\ SignOut(p) => Moves(p, {"out"})
<1>1. LoginRate(p) => Moves(p, {"expire", "sessions", "out"})
  <2> SUFFICES ASSUME LoginRate(p) PROVE Moves(p, {"expire", "sessions", "out"})
    OBVIOUS
  <2>1. PICK pc \in {"expire", "sessions", "out"} : Goto(p, pc)
    BY DEF LoginRate
  <2>2. Moves(p, {pc})
    BY <2>1, GotoMoves DEF Pc, LoginPc
  <2> QED BY <2>2 DEF Moves
<1>2. LoginExpire(p) => Moves(p, {"sessions"})
  BY GotoMoves DEF LoginExpire, Pc, LoginPc
<1>3. LoginRefused(p) => Moves(p, {"out"})
  BY GotoMoves DEF LoginRefused, Pc, LoginPc
<1>4. LoginCount(p) => Moves(p, IF SessionRoom THEN {"issue"} ELSE {"out"})
  BY GotoMoves DEF LoginCount, Pc, LoginPc
<1>5. LoginIssue(p) => Moves(p, {"in"})
  BY FreshExists, PhonesOkNow DEF LoginIssue, SignedIn, Moves, PhonesOk
<1>6. SignOut(p) => Moves(p, {"out"})
  BY PhonesOkNow DEF SignOut, SignedOut, Moves, PhonesOk
<1> QED BY <1>1, <1>2, <1>3, <1>4, <1>5, <1>6

LEMMA RequestMoves ==
    ASSUME TypeInv, NEW p \in Phones
    PROVE  /\ Request(p) => Moves(p, {"usage", "list", "tasks"})
           /\ RequestRevoke(p) => Moves(p, {"revoke"})
           /\ ListOthers(p) => Moves(p, {"revoke"})
           /\ Revoke(p) => Moves(p, {"in"})
           /\ CountConcurrent(p) => Moves(p, IF TaskRoom THEN {"create"} ELSE {"in"})
           /\ CreateTask(p) => Moves(p, {"delete"})
           /\ DropUsage(p) => Moves(p, {"in"})
           /\ Usage(p) => Moves(p, {"count", "set", "in"})
<1>1. Request(p) => Moves(p, {"usage", "list", "tasks"})
  <2> SUFFICES ASSUME Request(p) PROVE Moves(p, {"usage", "list", "tasks"})
    OBVIOUS
  <2>1. PICK pc \in {"usage", "list", "tasks"} : Goto(p, pc)
    BY DEF Request
  <2>2. Moves(p, {pc})
    BY <2>1, GotoMoves DEF Pc, UsagePc
  <2> QED BY <2>2 DEF Moves
<1>2. RequestRevoke(p) => Moves(p, {"revoke"})
  BY PhonesOkNow DEF RequestRevoke, Moves, PhonesOk, Phone
<1>3. ListOthers(p) => Moves(p, {"revoke"})
  BY PhonesOkNow DEF ListOthers, Moves, PhonesOk, Phone
<1>4. Revoke(p) => Moves(p, {"in"})
  BY PhonesOkNow DEF Revoke, Moves, PhonesOk, Phone
<1>5. CountConcurrent(p) => Moves(p, IF TaskRoom THEN {"create"} ELSE {"in"})
  BY GotoMoves DEF CountConcurrent, Pc
<1>6. CreateTask(p) => Moves(p, {"delete"})
  BY PhonesOkNow DEF CreateTask, AfterInsert, Moves, PhonesOk, Phone
<1>7. DropUsage(p) => Moves(p, {"in"})
  BY GotoMoves DEF DropUsage, Pc
<1>8. Usage(p) => Moves(p, {"count", "set", "in"})
  <2>1. UsageGet(p) => Moves(p, {"count"}) \/ Moves(p, {"in"})
    BY GotoMoves DEF UsageGet, Pc, UsagePc
  <2>2. UsageCount(p) => Moves(p, {"set"})
    BY GotoMoves DEF UsageCount, Pc, UsagePc
  <2>3. UsageSet(p) => Moves(p, {"in"})
    BY PhonesOkNow DEF UsageSet, Moves, PhonesOk, Phone
  <2> QED BY <2>1, <2>2, <2>3 DEF Usage, Moves
<1> QED BY <1>1, <1>2, <1>3, <1>4, <1>5, <1>6, <1>7, <1>8

\* Nothing else moves a request, except a fault, which ends one.
LEMMA OthersStay ==
    ASSUME TypeInv
    PROVE  /\ WindowEnds \/ SessionExpires \/ UsageExpires \/ StatusChanges \/ WorkerDropsUsage
                 \/ UNCHANGED vars => AllStay
           /\ HandlerDies => AllStay \/ \E p \in Phones : Moves(p, {"in", "out"})
<1>1. StatusChanges => AllStay
  BY PhonesOkNow, StatusChanging DEF StatusChange, AllStay, PhonesOk, Phone
<1>2. WindowEnds \/ SessionExpires \/ UsageExpires \/ WorkerDropsUsage \/ UNCHANGED vars => AllStay
  BY DEF WindowEnds, SessionExpires, UsageExpires, WorkerDropsUsage, vars, AllStay
<1>3. HandlerDies => AllStay \/ \E p \in Phones : Moves(p, {"in", "out"})
  BY PhonesOkNow DEF HandlerDies, AllStay, Moves, PhonesOk, SignedIn, SignedOut
<1> QED BY <1>1, <1>2, <1>3

-----------------------------------------------------------------------------
(* The caps                                                                *)

LEMMA RacersFinite ==
    /\ IsFiniteSet(Phones) /\ Cardinality(Phones) \in Nat /\ Cardinality(Phones) > 0
    /\ IsFiniteSet(Issuing) /\ Cardinality(Issuing) \in Nat
    /\ IsFiniteSet(Creating) /\ Cardinality(Creating) \in Nat
<1>1. IsFiniteSet(Phones) /\ Cardinality(Phones) \in Nat /\ Cardinality(Phones) # 0
  BY AccountAssumption, FS_CardinalityType, FS_EmptySet
<1>2. Issuing \in SUBSET Phones /\ Creating \in SUBSET Phones
  BY DEF Issuing, Creating
<1> QED BY <1>1, <1>2, FS_Subset, FS_CardinalityType

\* Who moves elsewhere does not join the race and leaves it.
LEMMA RaceMoves ==
    ASSUME NEW p \in Phones, NEW S, Moves(p, S)
    PROVE  /\ "issue" \notin S => Issuing' \subseteq Issuing \ {p}
           /\ "create" \notin S => Creating' \subseteq Creating \ {p}
BY DEF Moves, Issuing, Creating, At

LEMMA RaceStays == AllStay => Issuing' = Issuing /\ Creating' = Creating
BY DEF AllStay, Issuing, Creating, At

\* The steps that neither count nor insert a session only make room.
LEMMA SessionsShrink ==
    ASSUME TypeInv, SessionsInv, live' \subseteq live, Issuing' \subseteq Issuing
    PROVE  SessionsInv'
<1>1. Cardinality(live') <= Cardinality(live)
      /\ Cardinality(live') \in Nat /\ Cardinality(live) \in Nat
  BY FS_Subset, FS_CardinalityType DEF TypeInv, FiniteInv
<1>2. Cardinality(Issuing') <= Cardinality(Issuing) /\ Cardinality(Issuing') \in Nat
  BY RacersFinite, FS_Subset, FS_CardinalityType
<1> QED BY <1>1, <1>2, RacersFinite, AccountAssumption DEF SessionsInv

LEMMA SessionsStep == TypeInv /\ SessionsInv /\ [Next]_vars => SessionsInv'
<1> SUFFICES ASSUME TypeInv, SessionsInv, [Next]_vars PROVE SessionsInv'
  OBVIOUS
<1>1. ASSUME NEW p \in Phones, LoginCount(p) PROVE SessionsInv'
  <2>1. live' = live
    BY <1>1 DEF LoginCount
  <2>2. CASE SessionRoom
    <3>1. Issuing' \in SUBSET Phones
      BY DEF Issuing
    <3>2. Cardinality(Issuing') <= Cardinality(Phones) /\ Cardinality(Issuing') \in Nat
      BY <3>1, RacersFinite, FS_Subset, FS_CardinalityType
    <3>3. Cardinality(live) \in Nat
      BY FS_CardinalityType DEF TypeInv, FiniteInv
    <3> QED BY <2>1, <2>2, <3>2, <3>3, RacersFinite, AccountAssumption
            DEF SessionRoom, SessionsInv
  <2>3. CASE ~SessionRoom
    <3>1. Moves(p, {"out"})
      BY <1>1, <2>3, LoginMoves
    <3>2. Issuing' \subseteq Issuing
      BY <3>1, RaceMoves
    <3> QED BY <2>1, <3>2, SessionsShrink
  <2> QED BY <2>2, <2>3
<1>2. ASSUME NEW p \in Phones, LoginIssue(p) PROVE SessionsInv'
  <2>1. live' = live \cup {FreshSession}
    BY <1>2 DEF LoginIssue
  <2>2. Cardinality(live') <= Cardinality(live) + 1
        /\ Cardinality(live') \in Nat /\ Cardinality(live) \in Nat
    BY <2>1, FS_AddElement, FS_CardinalityType DEF TypeInv, FiniteInv
  <2>3. Issuing' \subseteq Issuing \ {p}
    BY <1>2, LoginMoves, RaceMoves
  <2>4. p \in Issuing
    BY <1>2 DEF LoginIssue, Issuing
  <2>5. IsFiniteSet(Issuing \ {p}) /\ Cardinality(Issuing \ {p}) = Cardinality(Issuing) - 1
    BY <2>4, RacersFinite, FS_RemoveElement
  <2>6. Cardinality(Issuing') <= Cardinality(Issuing) - 1 /\ Cardinality(Issuing') \in Nat
    BY <2>3, <2>5, FS_Subset, FS_CardinalityType
  <2> QED BY <2>2, <2>6, RacersFinite, AccountAssumption DEF SessionsInv
<1>3. ASSUME NEW p \in Phones,
             \/ LoginRate(p) \/ LoginExpire(p) \/ LoginRefused(p) \/ SignOut(p)
             \/ Sessions(p) \/ Creation(p) \/ Usage(p)
      PROVE  SessionsInv'
  <2>1. live' \subseteq live
    BY <1>3 DEF LoginRate, LoginExpire, LoginRefused, SignOut, Sessions, Request,
       RequestRevoke, ListOthers, Revoke, Creation, CountConcurrent,
       CreateTask, DropUsage, Usage, UsageGet, UsageCount, UsageSet
  <2>2. \E S : Moves(p, S) /\ "issue" \notin S
    <3>1. CASE LoginRate(p) \/ LoginExpire(p) \/ LoginRefused(p) \/ SignOut(p)
      BY <3>1, LoginMoves
    <3>2. CASE Sessions(p)
      BY <3>2, RequestMoves DEF Sessions
    <3>3. CASE Creation(p)
      BY <3>3, RequestMoves DEF Creation
    <3>4. CASE Usage(p)
      BY <3>4, RequestMoves
    <3> QED BY <1>3, <3>1, <3>2, <3>3, <3>4
  <2>3. Issuing' \subseteq Issuing
    BY <2>2, RaceMoves
  <2> QED BY <2>1, <2>3, SessionsShrink
<1>4. ASSUME \/ WindowEnds \/ SessionExpires \/ UsageExpires \/ StatusChanges \/ WorkerDropsUsage
             \/ HandlerDies \/ UNCHANGED vars
      PROVE  SessionsInv'
  <2>1. live' \subseteq live
    BY <1>4, StatusChanging DEF WindowEnds, SessionExpires, UsageExpires, StatusChange,
       WorkerDropsUsage, HandlerDies, vars
  <2>2. Issuing' \subseteq Issuing
    BY <1>4, OthersStay, RaceMoves, RaceStays
  <2> QED BY <2>1, <2>2, SessionsShrink
<1> QED BY <1>1, <1>2, <1>3, <1>4 DEF Next, Login, StatusChanges

LEMMA TasksShrink ==
    ASSUME TypeInv, TasksInv, active' \in Nat, active' <= active, Creating' \subseteq Creating
    PROVE  TasksInv'
<1>1. Cardinality(Creating') <= Cardinality(Creating) /\ Cardinality(Creating') \in Nat
  BY RacersFinite, FS_Subset, FS_CardinalityType
<1> QED BY <1>1, RacersFinite, AccountAssumption DEF TasksInv, TypeInv, AccountTypeOK

LEMMA TasksStep == TypeInv /\ TasksInv /\ [Next]_vars => TasksInv'
<1> SUFFICES ASSUME TypeInv, TasksInv, [Next]_vars PROVE TasksInv'
  OBVIOUS
<1>0. active \in Nat /\ active' \in Nat /\ revived \in Nat
  BY TypeStep DEF TypeInv, AccountTypeOK
<1>1. ASSUME NEW p \in Phones, CountConcurrent(p) PROVE TasksInv'
  <2>1. active' = active
    BY <1>1 DEF CountConcurrent, tasks
  <2>2. CASE TaskRoom
    <3>1. Creating' \in SUBSET Phones
      BY DEF Creating
    <3>2. Cardinality(Creating') <= Cardinality(Phones) /\ Cardinality(Creating') \in Nat
      BY <3>1, RacersFinite, FS_Subset, FS_CardinalityType
    <3> QED BY <1>0, <2>1, <2>2, <3>2, RacersFinite, AccountAssumption DEF TaskRoom, TasksInv
  <2>3. CASE ~TaskRoom
    <3>1. Moves(p, {"in"})
      BY <1>1, <2>3, RequestMoves
    <3>2. Creating' \subseteq Creating
      BY <3>1, RaceMoves
    <3> QED BY <1>0, <2>1, <3>2, TasksShrink
  <2> QED BY <2>2, <2>3
<1>2. ASSUME NEW p \in Phones, CreateTask(p) PROVE TasksInv'
  <2>1. active' = active + 1
    BY <1>2 DEF CreateTask
  <2>2. Creating' \subseteq Creating \ {p}
    BY <1>2, RequestMoves, RaceMoves
  <2>3. p \in Creating
    BY <1>2 DEF CreateTask, Creating
  <2>4. IsFiniteSet(Creating \ {p}) /\ Cardinality(Creating \ {p}) = Cardinality(Creating) - 1
    BY <2>3, RacersFinite, FS_RemoveElement
  <2>5. Cardinality(Creating') <= Cardinality(Creating) - 1 /\ Cardinality(Creating') \in Nat
    BY <2>2, <2>4, FS_Subset, FS_CardinalityType
  <2> QED BY <1>0, <2>1, <2>5, RacersFinite, AccountAssumption DEF TasksInv
<1>3. ASSUME NEW p \in Phones,
             Login(p) \/ Sessions(p) \/ DropUsage(p) \/ Usage(p)
      PROVE  TasksInv'
  <2>1. active' = active
    BY <1>3 DEF Login, LoginRate, LoginExpire, LoginRefused, LoginCount, LoginIssue, SignOut,
       Sessions, Request, RequestRevoke, ListOthers, Revoke, DropUsage,
       Usage, UsageGet, UsageCount, UsageSet, tasks
  <2>2. \E S : Moves(p, S) /\ "create" \notin S
    <3>1. CASE Login(p)
      BY <3>1, LoginMoves DEF Login
    <3>2. CASE Sessions(p)
      BY <3>2, RequestMoves DEF Sessions
    <3>3. CASE DropUsage(p)
      BY <3>3, RequestMoves
    <3>4. CASE Usage(p)
      BY <3>4, RequestMoves
    <3> QED BY <1>3, <3>1, <3>2, <3>3, <3>4
  <2>3. Creating' \subseteq Creating
    BY <2>2, RaceMoves
  <2> QED BY <1>0, <2>1, <2>3, TasksShrink
<1>4. ASSUME \/ WindowEnds \/ SessionExpires \/ UsageExpires \/ StatusChanges \/ WorkerDropsUsage
             \/ HandlerDies \/ UNCHANGED vars
      PROVE  TasksInv'
  <2>1. active' <= active
    BY <1>0, <1>4, StatusCounts DEF WindowEnds, SessionExpires, UsageExpires,
       WorkerDropsUsage, HandlerDies, vars, tasks
  <2>2. Creating' \subseteq Creating
    BY <1>4, OthersStay, RaceMoves, RaceStays
  <2> QED BY <1>0, <2>1, <2>2, TasksShrink
<1> QED BY <1>1, <1>2, <1>3, <1>4 DEF Next, Creation, StatusChanges

-----------------------------------------------------------------------------
(* The summary and the counter                                             *)

\* Somebody is about to drop the summary.
Dropping == worker = "delete" \/ \E p \in Phones : At(p, "delete")
Expiring == \E p \in Phones : At(p, "expire")

\* Who is at a statement stays there while another request moves.
LEMMA WaitingStays ==
    ASSUME NEW p \in Phones, NEW S, Moves(p, S), NEW q \in Phones, q # p, NEW pc, At(q, pc)
    PROVE  At(q, pc)'
BY DEF Moves, At

LEMMA StaleStep == TypeInv /\ StaleIsBeingDropped /\ [Next]_vars => StaleIsBeingDropped'
<1> SUFFICES ASSUME TypeInv, StaleIsBeingDropped, [Next]_vars,
                    faults' = 0, cache' = "stale"
             PROVE  Dropping'
  BY DEF StaleIsBeingDropped, Dropping
<1>1. ~HandlerDies
  BY DEF HandlerDies, TypeInv, AccountTypeOK
<1>2. faults = 0
  BY <1>1, StatusChanging DEF Next, StatusChanges, StatusChange, Login, LoginRate, LoginExpire, LoginRefused, LoginCount, LoginIssue,
     SignOut, Sessions, Request, RequestRevoke, ListOthers, Revoke, Creation, CountConcurrent,
     CreateTask, DropUsage, Usage, UsageGet, UsageCount, UsageSet, WindowEnds,
     SessionExpires, UsageExpires, WorkerDropsUsage, vars
<1>3. cache = "stale" => Dropping
  BY <1>2 DEF StaleIsBeingDropped, Dropping
<1>4. ASSUME NEW p \in Phones, CreateTask(p) PROVE Dropping'
  BY <1>4, RequestMoves DEF Moves, At, Dropping
<1>5. ASSUME NEW p \in Phones, DropUsage(p) PROVE FALSE
  BY <1>5 DEF DropUsage
<1>6. ASSUME NEW p \in Phones, Login(p) \/ Sessions(p) \/ CountConcurrent(p) \/ Usage(p)
      PROVE  Dropping'
  <2>0. ~UsageSet(p)
    BY DEF UsageSet
  <2>1. cache' = cache /\ worker' = worker
    <3>1. CASE LoginIssue(p) \/ Revoke(p)
      BY <3>1 DEF LoginIssue, Revoke, TypeInv, AccountTypeOK
    <3>2. CASE ~(LoginIssue(p) \/ Revoke(p))
      BY <1>6, <2>0, <3>2 DEF Login, LoginRate, LoginExpire, LoginRefused, LoginCount, SignOut,
         Sessions, Request, RequestRevoke, ListOthers, CountConcurrent,
         Usage, UsageGet, UsageCount
    <3> QED BY <3>1, <3>2
  <2>2. \E S : Moves(p, S)
    BY <1>6, LoginMoves, RequestMoves DEF Login, Sessions
  <2>3. ~At(p, "delete")
    BY <1>6 DEF Login, LoginRate, LoginExpire, LoginRefused, LoginCount, LoginIssue, SignOut,
       Sessions, Request, RequestRevoke, ListOthers, Revoke, CountConcurrent,
       Usage, UsageGet, UsageCount, UsageSet, Authorized, At
  <2> QED BY <1>3, <2>1, <2>2, <2>3, WaitingStays DEF Dropping
<1>7. CASE WindowEnds \/ SessionExpires \/ UNCHANGED vars
  <2>1. cache' = cache /\ worker' = worker
    BY <1>7 DEF WindowEnds, SessionExpires, vars, TypeInv, AccountTypeOK
  <2> QED BY <1>3, <1>7, <2>1, OthersStay DEF Dropping, AllStay, At
<1>8. CASE StatusChanges
  <2>1. CASE StatusChange
    BY <2>1 DEF StatusChange, Dropping
  <2>2. CASE UNCHANGED <<phone, live, worker, rate, cache, faults>>
    BY <1>3, <2>2 DEF Dropping, At
  <2> QED BY <1>8, <2>1, <2>2, StatusChanging
<1>9. CASE UsageExpires \/ WorkerDropsUsage
  BY <1>9 DEF UsageExpires, WorkerDropsUsage
<1> QED BY <1>1, <1>4, <1>5, <1>6, <1>7, <1>8, <1>9 DEF Next, Creation, StatusChanges

LEMMA RateStep == TypeInv /\ RateKeyExpires /\ [Next]_vars => RateKeyExpires'
<1> SUFFICES ASSUME TypeInv, RateKeyExpires, [Next]_vars,
                    faults' = 0, rate'.count > 0, ~rate'.ttl
             PROVE  Expiring'
  BY DEF RateKeyExpires, Expiring
<1>1. ~HandlerDies
  BY DEF HandlerDies, TypeInv, AccountTypeOK
<1>2. faults = 0
  BY <1>1, StatusChanging DEF Next, StatusChanges, StatusChange, Login, LoginRate, LoginExpire, LoginRefused, LoginCount, LoginIssue,
     SignOut, Sessions, Request, RequestRevoke, ListOthers, Revoke, Creation, CountConcurrent,
     CreateTask, DropUsage, Usage, UsageGet, UsageCount, UsageSet, WindowEnds,
     SessionExpires, UsageExpires, WorkerDropsUsage, vars
<1>3. rate.count > 0 /\ ~rate.ttl => Expiring
  BY <1>2 DEF RateKeyExpires, Expiring
<1>4. ASSUME NEW p \in Phones, LoginRate(p) PROVE Expiring'
  <2>1. Moves(p, {"expire", "sessions", "out"}) /\ ~At(p, "expire")
    BY <1>4, LoginMoves DEF LoginRate, At
  <2>2. CASE rate.count = 0
    <3>1. Goto(p, "expire")
      BY <1>4, <2>2 DEF LoginRate, FirstOfWindow
    <3> QED BY <3>1, GotoMoves DEF Moves, At, Expiring, Pc, LoginPc
  <2>3. CASE rate.count > 0
    <3>1. ~rate.ttl
      BY <1>4 DEF LoginRate, TypeInv, AccountTypeOK
    <3> QED BY <1>3, <2>1, <2>3, <3>1, WaitingStays DEF Expiring
  <2> QED BY <2>2, <2>3 DEF TypeInv, AccountTypeOK
<1>5. ASSUME NEW p \in Phones, LoginExpire(p) PROVE FALSE
  BY <1>5 DEF LoginExpire, TypeInv, AccountTypeOK
<1>6. ASSUME NEW p \in Phones,
             \/ LoginRefused(p) \/ LoginCount(p) \/ LoginIssue(p) \/ SignOut(p)
             \/ Sessions(p) \/ Creation(p) \/ Usage(p)
      PROVE  Expiring'
  <2>1. rate' = rate
    BY <1>6 DEF LoginRefused, LoginCount, LoginIssue, SignOut,
       Sessions, Request, RequestRevoke, ListOthers, Revoke, Creation, CountConcurrent,
       CreateTask, DropUsage, Usage, UsageGet, UsageCount, UsageSet
  <2>2. \E S : Moves(p, S)
    BY <1>6, LoginMoves, RequestMoves DEF Sessions, Creation
  <2>3. ~At(p, "expire")
    BY <1>6 DEF LoginRefused, LoginCount, LoginIssue, SignOut, Sessions, Request,
       RequestRevoke, ListOthers, Revoke, Creation, CountConcurrent, CreateTask, DropUsage,
       Usage, UsageGet, UsageCount, UsageSet, Authorized, At
  <2> QED BY <1>3, <2>1, <2>2, <2>3, WaitingStays DEF Expiring
<1>7. CASE WindowEnds
  BY <1>7 DEF WindowEnds
<1>8. CASE SessionExpires \/ UsageExpires \/ StatusChanges \/ WorkerDropsUsage \/ UNCHANGED vars
  <2>1. rate' = rate
    BY <1>8, StatusChanging DEF SessionExpires, UsageExpires, StatusChange, WorkerDropsUsage,
       vars
  <2> QED BY <1>3, <1>8, <2>1, OthersStay DEF Expiring, AllStay, At
<1> QED BY <1>1, <1>4, <1>5, <1>6, <1>7, <1>8 DEF Next, Login, StatusChanges

-----------------------------------------------------------------------------
(* The theorems                                                            *)

LEMMA InitInv == Init => AccountInv
<1> SUFFICES ASSUME Init PROVE AccountInv
  OBVIOUS
<1>1. \A p \in Phones : phone[p] = SignedOut
  BY DEF Init
<1>2. TypeInv
  <2>1. phone \in [Phones -> Phone] /\ \A p \in Phones : IsFiniteSet(phone[p].targets)
    BY <1>1, SignedType, FS_EmptySet DEF Init
  <2>2. cache \in {"none"} \cup Age
    BY DEF Init
  <2>3. rate \in [count : 0..(RateLimit + 1), ttl : BOOLEAN]
    BY AccountAssumption DEF Init
  <2> QED BY <2>1, <2>2, <2>3, FS_EmptySet
         DEF Phone, Init, TypeInv, AccountTypeOK, FiniteInv
<1>3. Issuing = {} /\ Creating = {} /\ Cardinality(live) = 0 /\ active = 0
  BY <1>1, FS_EmptySet DEF Init, Issuing, Creating, At, SignedOut
<1>4. SessionsInv /\ TasksInv
  BY <1>3, FS_EmptySet, RacersFinite, AccountAssumption DEF SessionsInv, TasksInv
<1>5. StaleIsBeingDropped /\ RateKeyExpires
  BY DEF Init, StaleIsBeingDropped, RateKeyExpires
<1> QED BY <1>2, <1>4, <1>5 DEF AccountInv

LEMMA InvHolds == Spec => []AccountInv
<1>1. AccountInv /\ [Next]_vars => AccountInv'
  BY TypeStep, SessionsStep, TasksStep, StaleStep, RateStep DEF AccountInv
<1> QED BY <1>1, InitInv, PTL DEF Spec

\* Every variable keeps to its type: among other things no task ends twice
\* and every session gets an id that nobody holds.
THEOREM AccountTypeCorrect == Spec => []AccountTypeOK
BY InvHolds, PTL DEF AccountInv, TypeInv

\* However many clients log in at once, their sessions pass the cap of
\* _issue_token by less than their number.
THEOREM SessionsStayBounded == Spec => []SessionsBounded
<1>1. AccountInv => SessionsBounded
  <2> SUFFICES ASSUME AccountInv, MaxSessions > 0
               PROVE  Cardinality(live) < MaxSessions + Cardinality(Phones)
    BY DEF SessionsBounded
  <2>1. Cardinality(live) \in Nat
    BY FS_CardinalityType DEF AccountInv, TypeInv, FiniteInv
  <2> QED BY <2>1, RacersFinite, AccountAssumption DEF AccountInv, SessionsInv
<1> QED BY <1>1, InvHolds, PTL

\* The same of create_task and the cap of concurrent tasks, beside those
\* that a worker took back after they were cancelled.
THEOREM TasksStayBounded == Spec => []TasksBounded
<1>1. AccountInv => TasksBounded
  BY RacersFinite, AccountAssumption
     DEF AccountInv, TypeInv, AccountTypeOK, TasksInv, TasksBounded
<1> QED BY <1>1, InvHolds, PTL

\* Without a fault, a summary that a task has outdated in the cache is on
\* its way out: _invalidate_usage is still to run.
THEOREM StaleSummaryIsDropped == Spec => []StaleIsBeingDropped
BY InvHolds, PTL DEF AccountInv

\* Without a fault, a counter without expiry has the login that will set it.
THEOREM RateCounterExpires == Spec => []RateKeyExpires
BY InvHolds, PTL DEF AccountInv

=============================================================================
