-------------------------- MODULE ManagedSessionProofs --------------------------
(***************************************************************************)
(* Proofs about the session of a remote agent, for every set of tools and  *)
(* every bound on its events, reconnects and replies: no event is skipped  *)
(* over drops and reconnects, a request for a tool is not taken for the    *)
(* end, a verdict reaches the job, and every tool that must be asked for   *)
(* has an approval gate of its own.                                        *)
(***************************************************************************)
EXTENDS ManagedSession, SequenceTheorems, FiniteSetTheorems,
        WellFoundedInduction, TLAPS

-----------------------------------------------------------------------------
(* The inductive invariant, in four parts.                                 *)

\* The types, with what the bounds on the counters rest on: a reply is queued
\* once, and what is read lies in the log.
Types ==
    /\ ManagedTypeOK /\ rlog \in Seq(Event)
    /\ queued <= replies /\ (replying => queued < replies)
    /\ seen \subseteq DOMAIN rlog /\ replay \subseteq DOMAIN rlog \ seen
    /\ shown <= Len(rlog) /\ since <= Len(rlog) + 1
    /\ job \in {"ask", "park", "wait"} => pend # NoUse

\* The agent comes up with a tool use once and tells of it; and as long as it
\* uses one tool at a time, it asks right after it has told.
Told(u) == \E i \in DOMAIN rlog : rlog[i].use = u
LastIs(u) ==
    rlog # << >> /\ rlog[Len(rlog)].use = u /\ rlog[Len(rlog)].kind = "agent.tool_use"
OneAtATime ==
    /\ \A u, v \in using : u = v
    /\ agent = "busy" => \A u \in Waiting : LastIs(u)
    /\ \A k \in DOMAIN rlog : rlog[k].kind = "requires_action" =>
          k > 1 /\ rlog[k - 1].kind = "agent.tool_use" /\ rlog[k - 1].use # NoUse
AgentInv ==
    /\ \A i, j \in DOMAIN rlog : rlog[i].use = rlog[j].use /\ rlog[i].use # NoUse => i = j
    /\ \A u \in ran \cup using : Told(u)
    /\ ~crowded => OneAtATime

\* The events handled are the first n of the log, those left to replay are the
\* next up to m, and the stream shows what comes after; or the agent is gone
\* for good, and only its last event was missed.
Gone == agent = "gone" /\ replay = {} /\ since = Len(rlog) + 1
Untouched ==
    /\ seen = {} /\ replay = {} /\ ~prompted
    /\ agent = "gone" \/ (agent \in {"none", "idle"} /\ rlog = << >>)
AskPcs == {"ask", "park", "wait", "resume"}
InOrder(n, m) ==
    /\ seen = 1..n /\ replay = n + 1..m
    /\ conn = "none" /\ job # "done" => Untouched
    /\ job \in {"create", "register"} => conn = "none"
    /\ job = "create" => agent = "none"
    /\ job = "open" /\ conn # "none" => prompted
    /\ job = "opened" /\ ~prompted => n = 0 /\ m = 0 /\ (since = 1 \/ Gone)
    /\ job \in AskPcs \cup {"loop"} => prompted /\ (since <= m + 1 \/ Gone)
    /\ job \in AskPcs \cup {"opened", "loop"} => conn # "none"
    /\ job \in AskPcs => n > 0 /\ rlog[n].kind = "requires_action"
    /\ job \in {"loop", "open", "opened"} /\ n > 0 /\ rlog[n].kind = "agent.tool_use" =>
          pend = rlog[n].use
    /\ job = "complete" /\ ~crowded => n > 0 /\ rlog[n].kind = "end_turn"
OrderInv ==
    ~blind /\ ~early => \E n \in 0..Len(rlog), m \in 0..Len(rlog) : n <= m /\ InOrder(n, m)

\* A tool that was asked for has been seen, so it is not asked for again; at
\* most the pending tool waits for an answer, and a rejection ends the job.
Seen(u) == \E i \in seen : rlog[i].use = u
BeforePark == {"create", "register", "open", "opened", "loop", "ask", "park"}
GateInv ==
    /\ job # "done" => \A u \in Uses : approval[u] # "none" \/ pend = u => Seen(u)
    /\ job \in BeforePark \ {"park"} /\ pend # NoUse => approval[pend] = "none"
    /\ job \in {"resume", "stop"} => pend = NoUse
    /\ job = "park" => approval[pend] = "pending"
    /\ job = "wait" => armed = pend /\ approval[pend] # "none"
    /\ job \in BeforePark \cup {"wait", "resume"} =>
          \A u \in Uses : approval[u] \in {"pending", "rejected"} =>
              job \in {"park", "wait"} /\ u = pend
    /\ granted # "none" => armed # NoUse
    /\ granted = "yes" => approval[armed] = "approved"
    /\ granted = "no" => approval[armed] = "rejected"
    /\ \A u \in Uses :
          /\ answering[u] # "none" => approval[u] \in {"approved", "rejected"}
          /\ answering[u] \in {"notify", "signal"} => approval[u] = "approved"
          /\ answering[u] \in {"failRejected", "deny"} => approval[u] = "rejected"
    /\ \A u \in ran \cap AlwaysAsk : approval[u] = "approved"
WaitInv ==
    /\ job \in BeforePark => status # "waiting_approval"
    /\ job = "wait" =>
          /\ status \in {"waiting_approval", "cancelled"}
             \/ (status = "failed" /\ approval[pend] = "rejected")
          /\ answering[pend] = "done" => granted # "none" \/ status = "cancelled"

-----------------------------------------------------------------------------
(* The types.                                                              *)

LEMMA LeastOf ==
    ASSUME NEW S, S \subseteq Nat, S # {}
    PROVE  \E m \in S : \A y \in S : m <= y
<1> DEFINE R == OpToRel(<, Nat)
<1>1. IsWellFoundedOn(R, Nat)
  BY NatLessThanWellFounded
<1>2. \A x, y \in Nat : x < y => <<x, y>> \in R
  BY DEF OpToRel
<1> HIDE DEF R
<1>3. PICK m \in S : \A y \in S : ~(<<y, m>> \in R)
  BY <1>1, WFMin
<1>4. \A y \in S : ~(y < m)
  BY <1>2, <1>3
<1> QED BY <1>4

\* What is handled next is the first of what is left, and was not handled yet.
LEMMA CurrentIsFirst ==
    ASSUME Types, Pending # {}
    PROVE  /\ Current \in Pending /\ \A j \in Pending : Current <= j
           /\ Pending \subseteq DOMAIN rlog \ seen
<1>1. Pending \subseteq DOMAIN rlog \ seen
  <2>1. CASE replay # {}
    BY <2>1 DEF Types, Pending
  <2>2. CASE replay = {}
    <3>1. Queue \subseteq 1..Len(rlog) \ seen
      BY DEF Queue, Types, ManagedTypeOK
    <3> QED BY <2>2, <3>1 DEF Pending, Types
  <2> QED BY <2>1, <2>2
<1>2. DOMAIN rlog \subseteq Nat
  BY DEF Types
<1>3. \E i \in Pending : \A j \in Pending : i <= j
  BY <1>1, <1>2, LeastOf
<1> QED BY <1>1, <1>3 DEF Current

LEMMA InitTypes == Init => Types
<1> SUFFICES ASSUME Init PROVE Types
  OBVIOUS
<1>1. rlog \in Seq(Event) /\ Len(rlog) = 0 /\ DOMAIN rlog = {}
  BY DEF Init
<1>2. /\ approval \in [Uses -> {"none", "pending", "approved", "rejected"}]
      /\ answering \in [Uses -> AnswerPC]
  BY DEF Init, AnswerPC
<1>3. /\ reconnects \in 0..MaxReconnects /\ since \in 1..MaxEvents + 1 /\ shown \in 0..MaxEvents
      /\ Len(rlog) \in 0..MaxEvents /\ queued \in 0..MaxReplies /\ replies \in 0..MaxReplies
  BY <1>1, ManagedAssumption DEF Init
<1>4. ManagedTypeOK
  BY <1>1, <1>2, <1>3 DEF Init, ManagedTypeOK, JobPC, CancelPC, AgentState, Active
<1> QED BY <1>1, <1>4 DEF Init, Types

\* What the calls to the agent do to it.
LEMMA CallsTyped ==
    ASSUME Types, \/ Message \/ Interrupt \/ \E u \in Uses, ok \in BOOLEAN : Confirm(u, ok)
                  \/ UNCHANGED agentVars
    PROVE  /\ agent' \in AgentState /\ using' \subseteq Uses /\ ran' \subseteq Uses
           /\ rlog' = rlog
<1> USE DEF Types, ManagedTypeOK, AgentState
<1>1. CASE Message \/ Interrupt
  BY <1>1 DEF Message, Interrupt
<1>2. ASSUME NEW u \in Uses, NEW ok \in BOOLEAN, Confirm(u, ok)
      PROVE  /\ agent' \in AgentState /\ using' \subseteq Uses /\ ran' \subseteq Uses
             /\ rlog' = rlog
  <2>1. agent' \in AgentState /\ using' \subseteq using /\ rlog' = rlog
    BY <1>2 DEF Confirm
  <2>2. ran' \subseteq ran \cup {u}
    BY <1>2 DEF Confirm
  <2> QED BY <2>1, <2>2
<1>3. CASE UNCHANGED agentVars
  BY <1>3 DEF agentVars
<1> QED BY <1>1, <1>2, <1>3

LEMMA JobTypes == Types /\ JobStep => Types'
<1> SUFFICES ASSUME Types, JobStep PROVE Types'
  OBVIOUS
<1> USE ManagedAssumption
    DEF Types, ManagedTypeOK, At, Goto, JobPC,
        dbVars, stateVars, liveVars, driveVars, agentVars, phoneVars, faultVars
<1>1. CASE JobGivesUp \/ JobCancelled
  <2>1. job' \in {"fail", "finish"} /\ cancelReq' \in BOOLEAN /\ JobOnly
    BY <1>1 DEF JobGivesUp, JobCancelled
  <2> QED BY <2>1 DEF JobOnly
<1>12. CASE JobRegister
  BY <1>12 DEF JobRegister
<1>10. CASE JobFinally
  <2>1. since' \in 1..MaxEvents + 1 /\ reconnects' \in 0..MaxReconnects /\ shown' \in 0..MaxEvents
    BY <1>10 DEF JobFinally
  <2>2. rlog' = rlog /\ Len(rlog) \in Nat
    BY <1>10 DEF JobFinally
  <2>3. /\ seen' \subseteq DOMAIN rlog' /\ replay' \subseteq DOMAIN rlog' \ seen'
        /\ seen' = {} /\ replay' = {} /\ shown' <= Len(rlog') /\ since' <= Len(rlog') + 1
    BY <1>10, <2>2 DEF JobFinally
  <2>4. /\ UNCHANGED <<dbVars, agentVars, phoneVars, faultVars>>
        /\ job' = "done" /\ cancelReq' = FALSE /\ armed' = NoUse /\ granted' = "none" /\ queued' = 0
        /\ live' = FALSE /\ pend' = NoUse /\ prompted' = FALSE /\ conn' = "none"
    BY <1>10 DEF JobFinally
  <2>5. queued' <= replies' /\ (replying' => queued' < replies') /\ queued' \in 0..MaxReplies
    BY <2>4
  <2>6. seen' \subseteq 1..MaxEvents /\ replay' \subseteq 1..MaxEvents
    BY <2>3
  <2>7. ManagedTypeOK'
    BY <2>1, <2>4, <2>5, <2>6
  <2> QED BY <2>2, <2>3, <2>4, <2>5, <2>7
<1>2. CASE JobCreate
  BY <1>2 DEF JobCreate, AgentState
<1>3. CASE JobOpen
  BY <1>3 DEF JobOpen
<1>4. CASE JobPrompt \/ JobDeadline \/ JobApprovalTimeout \/ JobStop
  <2>1. /\ agent' \in AgentState /\ using' \subseteq Uses /\ ran' \subseteq Uses
        /\ rlog' = rlog /\ deaf' \in BOOLEAN
    <3>1. Message \/ Interrupt \/ UNCHANGED agentVars
      BY <1>4 DEF JobPrompt, JobDeadline, JobApprovalTimeout, JobStop, TryInterrupt, StopAgent,
                  NotSent
    <3>2. deaf' \in BOOLEAN
      BY <1>4 DEF JobPrompt, JobDeadline, JobApprovalTimeout, JobStop, StopAgent
    <3> HIDE DEF Types, agentVars
    <3> QED BY <3>1, <3>2, CallsTyped
  <2>2. /\ UNCHANGED <<dbVars, stateVars, liveVars, phoneVars, blind, early, crowded>>
        /\ UNCHANGED <<reconnects, replay, conn, since, shown, cancelReq>>
        /\ prompted' \in BOOLEAN /\ job' \in {"loop", "fail", "finish"}
    BY <1>4 DEF JobPrompt, JobDeadline, JobApprovalTimeout, JobStop
  <2> QED BY <2>1, <2>2
<1>5. CASE JobReplay
  <2>1. replay' \subseteq DOMAIN rlog \ seen /\ blind' \in BOOLEAN
    BY <1>5 DEF JobReplay, Missed
  <2>2. DOMAIN rlog \subseteq 1..MaxEvents
    OBVIOUS
  <2>3. replay' \subseteq DOMAIN rlog' \ seen' /\ replay' \subseteq 1..MaxEvents
    BY <1>5, <2>1, <2>2 DEF JobReplay
  <2> QED BY <1>5, <2>1, <2>3 DEF JobReplay
<1>6. CASE JobReconnect
  BY <1>6 DEF JobReconnect, MayReconnect, CountAttempt
<1>7. CASE HandleTool \/ HandleRequest \/ HandleFollowUp \/ HandleEnd \/ HandleGone
  <2>1. PICK K \in SUBSET Kind : Handling(K)
    BY <1>7 DEF HandleTool, HandleRequest, HandleFollowUp, HandleEnd, HandleGone, Kind, Idle
  <2>2. Current \in DOMAIN rlog /\ Current \notin seen
    BY <2>1, CurrentIsFirst DEF Handling
  <2>3. rlog[Current].use \in Uses \cup {NoUse}
    BY <2>2 DEF Event
  <2>4. /\ agent' \in AgentState /\ using' \subseteq Uses /\ ran' \subseteq Uses
        /\ rlog' = rlog /\ deaf' \in BOOLEAN
    <3>1. Message \/ UNCHANGED agentVars
      BY <1>7 DEF HandleTool, HandleRequest, HandleFollowUp, HandleEnd, HandleGone, NotSent
    <3>2. deaf' \in BOOLEAN
      BY <2>1 DEF Handling
    <3> HIDE DEF Types, agentVars
    <3> QED BY <3>1, <3>2, CallsTyped
  <2>9. job' \in {"ask", "park", "wait"} => pend' # NoUse
    BY <1>7, <2>1
    DEF HandleTool, HandleRequest, HandleFollowUp, HandleEnd, HandleGone, Handling, MustAsk
  <2>5. /\ job' \in JobPC /\ pend' \in Uses \cup {NoUse}
        /\ queued' \in Nat /\ queued' <= queued
    BY <1>7, <2>3 DEF HandleTool, HandleRequest, HandleFollowUp, HandleEnd, HandleGone
  <2>6. /\ UNCHANGED <<dbVars, cancelReq, armed, granted, live, prompted, reconnects, conn,
                       since, shown, phoneVars, faultVars>>
        /\ replay' = replay \ {Current} /\ seen' = seen \cup {Current}
    BY <2>1 DEF Handling
  <2>7. /\ seen' \subseteq DOMAIN rlog' /\ replay' \subseteq DOMAIN rlog' \ seen'
        /\ seen' \subseteq 1..MaxEvents /\ replay' \subseteq 1..MaxEvents
    <3>1. DOMAIN rlog \subseteq 1..MaxEvents
      OBVIOUS
    <3>2. rlog' = rlog /\ replay' = replay \ {Current} /\ seen' = seen \cup {Current}
      BY <2>4, <2>6
    <3>3. seen' \subseteq DOMAIN rlog /\ replay' \subseteq DOMAIN rlog \ seen'
      BY <2>2, <3>2
    <3> QED BY <3>1, <3>2, <3>3
  <2>8. queued' \in 0..MaxReplies /\ queued' <= replies' /\ (replying' => queued' < replies')
    BY <2>5, <2>6
  <2> QED BY <2>4, <2>5, <2>6, <2>7, <2>8, <2>9
<1>8. CASE JobResume \/ JobOutcome
  <2>1. /\ status' \in Active \cup Terminal /\ job' \in {"loop", "finish"}
        /\ UNCHANGED <<cancelReq, approval, stateVars, liveVars, driveVars, agentVars, phoneVars, faultVars>>
    BY <1>8 DEF JobResume, JobOutcome, Active, Terminal
  <2> QED BY <2>1
<1>13. CASE JobPark
  BY <1>13 DEF JobPark, Active
<1>11. CASE JobAsk
  <2>1. approval' \in [Uses -> {"none", "pending", "approved", "rejected"}]
    BY <1>11 DEF JobAsk
  <2> QED BY <1>11, <2>1 DEF JobAsk
<1>9. CASE JobVerdict
  <2>1. /\ agent' \in AgentState /\ using' \subseteq Uses /\ ran' \subseteq Uses
        /\ rlog' = rlog /\ deaf' \in BOOLEAN
    <3>1. Confirm(pend, Permits) \/ UNCHANGED agentVars
      BY <1>9 DEF JobVerdict, NotSent
    <3>2. deaf' \in BOOLEAN /\ pend \in Uses /\ Permits \in BOOLEAN
      BY <1>9 DEF JobVerdict, Permits
    <3> HIDE DEF Types, agentVars
    <3> QED BY <3>1, <3>2, CallsTyped
  <2> QED BY <1>9, <2>1 DEF JobVerdict
<1> HIDE DEF Types, ManagedTypeOK, At, Goto, JobPC,
        dbVars, stateVars, liveVars, driveVars, agentVars, phoneVars, faultVars
<1> QED BY <1>1, <1>2, <1>3, <1>4, <1>5, <1>6, <1>7, <1>8, <1>9, <1>10, <1>11,
          <1>12, <1>13
      DEF JobStep

LEMMA PhoneTypes ==
    ASSUME Types, \/ RequestStart \/ CancelStep \/ ReplyForward
                  \/ \E u \in Uses : AnswerStep(u)
    PROVE  Types'
<1> USE ManagedAssumption
    DEF Types, ManagedTypeOK, Engine, Step, AnswerPC, CancelPC,
        dbVars, jobVars, stateVars, liveVars, driveVars, agentVars, phoneVars, faultVars
<1>1. CASE CancelCheck \/ CancelWrite \/ CancelJob
  <2>1. CASE CancelCheck
    BY <2>1 DEF CancelCheck
  <2>2. CASE CancelWrite
    BY <2>2 DEF CancelWrite, Terminal
  <2>3. CASE CancelJob
    BY <2>3 DEF CancelJob
  <2> QED BY <1>1, <2>1, <2>2, <2>3
<1>2. CASE ReplyStore
  BY <1>2 DEF ReplyStore
<1>3. ASSUME NEW u \in Uses, NEW ok \in BOOLEAN, Resolve(u, ok) PROVE Types'
  BY <1>3 DEF Resolve
<1>4. ASSUME NEW u \in Uses, ResolveFail(u) \/ NotifyEngine(u) PROVE Types'
  <2>1. PICK pc \in AnswerPC : Step(u, pc)
    BY <1>4 DEF ResolveFail, NotifyEngine
  <2>2. answering' \in [Uses -> AnswerPC]
    BY <2>1
  <2>3. Engine /\ approval' = approval /\ status' \in Active \cup Terminal
    BY <1>4 DEF ResolveFail, NotifyEngine, Terminal
  <2> QED BY <2>1, <2>2, <2>3
<1>5. ASSUME NEW u \in Uses, Signal(u) \/ Deny(u) PROVE Types'
  <2>1. PICK v \in {"yes", "no"} : Answer(u, v)
    BY <1>5 DEF Signal, Deny
  <2>2. answering' \in [Uses -> AnswerPC] /\ granted' \in {"none", "yes", "no"}
    BY <2>1 DEF Answer
  <2> QED BY <2>1, <2>2 DEF Answer
<1>6. CASE CancelInterrupt \/ ReplyForward
  <2>1. Message \/ Interrupt \/ UNCHANGED agentVars
    BY <1>6 DEF CancelInterrupt, ReplyForward, TryInterrupt, NotSent
  <2>2. deaf' \in BOOLEAN /\ crowded' \in BOOLEAN
    BY <1>6 DEF CancelInterrupt, ReplyForward
  <2>3. /\ agent' \in AgentState /\ using' \subseteq Uses /\ ran' \subseteq Uses
        /\ rlog' = rlog
    <3> HIDE DEF Types, agentVars
    <3> QED BY <2>1, CallsTyped
  <2>4. CASE CancelInterrupt
    BY <2>2, <2>3, <2>4 DEF CancelInterrupt
  <2>5. CASE ReplyForward
    <3>1. queued' \in 0..MaxReplies /\ queued' <= replies' /\ replying' = FALSE
      BY <2>5 DEF ReplyForward
    <3>2. early' \in BOOLEAN
      BY <2>5 DEF ReplyForward
    <3>3. /\ UNCHANGED <<dbVars, jobVars, armed, granted, liveVars, driveVars, blind>>
          /\ UNCHANGED <<answering, cancelling, replies>>
      BY <2>5 DEF ReplyForward
    <3>5. replying' \in BOOLEAN /\ replies' \in 0..MaxReplies /\ cancelReq' \in BOOLEAN
          /\ live' \in BOOLEAN /\ prompted' \in BOOLEAN /\ blind' \in BOOLEAN
      BY <3>1, <3>3
    <3>6. /\ status' \in Active \cup Terminal /\ job' \in JobPC
          /\ armed' \in Uses \cup {NoUse} /\ granted' \in {"none", "yes", "no"}
          /\ pend' \in Uses \cup {NoUse} /\ seen' \subseteq 1..MaxEvents
          /\ reconnects' \in 0..MaxReconnects /\ replay' \subseteq 1..MaxEvents
          /\ conn' \in {"none", "open", "closed"} /\ since' \in 1..MaxEvents + 1
          /\ shown' \in 0..MaxEvents /\ cancelling' \in CancelPC
          /\ approval' \in [Uses -> {"none", "pending", "approved", "rejected"}]
          /\ answering' \in [Uses -> AnswerPC]
      BY <3>3
    <3>4. ManagedTypeOK'
      BY <2>2, <2>3, <3>1, <3>2, <3>5, <3>6
    <3> QED BY <2>3, <3>1, <3>3, <3>4
  <2> QED BY <1>6, <2>4, <2>5
<1> HIDE DEF Types, ManagedTypeOK, Engine, Step, AnswerPC, CancelPC,
        dbVars, jobVars, stateVars, liveVars, driveVars, agentVars, phoneVars, faultVars
<1> QED BY <1>1, <1>2, <1>3, <1>4, <1>5, <1>6 DEF RequestStart, CancelStep, AnswerStep

\* The agent adds at most one event to its log, within its bound, and only while
\* the job reads; no other variable changes.
LEMMA AgentAppends ==
    ASSUME Types, AgentStep
    PROVE  /\ AgentOnly /\ Reading
           /\ rlog' \in Seq(Event) /\ Len(rlog') = Len(rlog) + 1 /\ Len(rlog') <= MaxEvents
           /\ \A i \in DOMAIN rlog : i \in DOMAIN rlog' /\ rlog'[i] = rlog[i]
           /\ agent' \in AgentState /\ using' \subseteq Uses /\ ran' \subseteq Uses
<1>1. /\ AgentOnly /\ \E k \in Kind, u \in Uses \cup {NoUse} : Emit(k, u)
      /\ agent' \in AgentState /\ using' \subseteq Uses /\ ran' \subseteq Uses
  BY DEF AgentStep, AgentAsks, AgentResult, AgentEnds, AgentGone, AgentUses, Kind, Idle,
         AgentState, Types, ManagedTypeOK
<1>2. PICK e \in Event : rlog' = Append(rlog, e) /\ Len(rlog) < MaxEvents /\ Reading
  <2>1. PICK k \in Kind, u \in Uses \cup {NoUse} : Emit(k, u)
    BY <1>1
  <2>2. [kind |-> k, use |-> u] \in Event
    BY DEF Event
  <2> QED BY <2>1, <2>2 DEF Emit
<1>3. rlog \in Seq(Event) /\ Len(rlog) \in Nat /\ MaxEvents \in Nat
  BY ManagedAssumption DEF Types
<1>4. /\ rlog' \in Seq(Event) /\ Len(rlog') = Len(rlog) + 1
      /\ \A i \in 1..Len(rlog) : rlog'[i] = rlog[i]
  BY <1>2, <1>3, AppendProperties
<1>5. DOMAIN rlog = 1..Len(rlog) /\ DOMAIN rlog' = 1..Len(rlog')
  BY <1>3, <1>4
<1> QED BY <1>1, <1>2, <1>3, <1>4, <1>5

LEMMA TypesStep == Types /\ [Next]_vars => Types'
<1> SUFFICES ASSUME Types, [Next]_vars PROVE Types'
  OBVIOUS
<1>1. CASE JobStep
  BY <1>1, JobTypes
<1>2. CASE RequestStart \/ CancelStep \/ ReplyForward \/ \E u \in Uses : AnswerStep(u)
  BY <1>2, PhoneTypes
<1>3. CASE AgentStep
  <2> USE <1>3, AgentAppends, ManagedAssumption
  <2>1. /\ AgentOnly /\ rlog' \in Seq(Event) /\ Len(rlog') = Len(rlog) + 1 /\ Len(rlog') <= MaxEvents
        /\ \A i \in DOMAIN rlog : i \in DOMAIN rlog'
        /\ agent' \in AgentState /\ using' \subseteq Uses /\ ran' \subseteq Uses
    OBVIOUS
  <2>2. seen \subseteq DOMAIN rlog' /\ replay \subseteq DOMAIN rlog' \ seen
    BY <2>1 DEF Types
  <2>3. \A i \in DOMAIN rlog' : rlog'[i] \in Event
    BY <2>1
  <2>4. crowded' \in BOOLEAN
    BY DEF AgentStep, AgentUses, AgentAsks, AgentResult, AgentEnds, AgentGone, Types, ManagedTypeOK
  <2> QED BY <2>1, <2>2, <2>3, <2>4
      DEF Types, ManagedTypeOK, AgentOnly, dbVars, jobVars, stateVars, liveVars, driveVars,
          phoneVars, faultVars
<1>4. CASE PumpDrop
  BY <1>4, ManagedAssumption
  DEF PumpDrop, Types, ManagedTypeOK, dbVars, jobVars, stateVars, liveVars, agentVars,
      phoneVars, faultVars
<1>5. CASE Quiescent \/ UNCHANGED vars
  <2>1. UNCHANGED vars
    BY <1>5 DEF Quiescent
  <2> QED BY <2>1 DEF vars, Types, ManagedTypeOK, dbVars, jobVars, stateVars, liveVars, driveVars,
                      agentVars, phoneVars, faultVars
<1> QED BY <1>1, <1>2, <1>3, <1>4, <1>5 DEF Next

\* The counters stay in their bounds and the program counters in their ranges,
\* however the session, the stream and the phone interleave.
THEOREM ManagedTypeCorrect == Spec => []ManagedTypeOK
<1>1. Types => ManagedTypeOK
  BY DEF Types
<1> QED BY <1>1, InitTypes, TypesStep, PTL DEF Spec

-----------------------------------------------------------------------------
(* The log of the agent.                                                   *)

\* What a step does to the agent, seen from the agent.
AgentMoves ==
    \/ UNCHANGED agentVars \/ Message \/ Interrupt
    \/ \E ok \in BOOLEAN : Confirm(pend, ok)
    \/ agent' = "idle" /\ UNCHANGED <<using, ran, rlog>>
    \/ AgentStep

LEMMA StepMovesAgent == [Next]_vars => AgentMoves
<1> SUFFICES ASSUME [Next]_vars PROVE AgentMoves
  OBVIOUS
<1> USE DEF AgentMoves, TryInterrupt, NotSent, Engine
<1>1. CASE JobStep
  <2>1. CASE JobGivesUp \/ JobRegister \/ JobFinally \/ JobCancelled \/ JobOpen \/ JobReplay
             \/ JobReconnect \/ JobAsk \/ JobPark \/ JobResume \/ JobOutcome
    <3>1. UNCHANGED agentVars
      BY <2>1 DEF JobGivesUp, JobRegister, JobFinally, JobCancelled, JobOpen, JobReplay,
                  JobReconnect, JobAsk, JobPark, JobResume, JobOutcome, JobOnly
    <3> QED BY <3>1
  <2>2. CASE JobPrompt \/ JobDeadline \/ JobApprovalTimeout \/ JobStop
    BY <2>2 DEF JobPrompt, JobDeadline, JobApprovalTimeout, JobStop, StopAgent
  <2>3. CASE HandleTool \/ HandleRequest \/ HandleFollowUp \/ HandleEnd \/ HandleGone
    BY <2>3 DEF HandleTool, HandleRequest, HandleFollowUp, HandleEnd, HandleGone
  <2>4. CASE JobCreate
    BY <2>4 DEF JobCreate
  <2>5. CASE JobVerdict
    BY <2>5 DEF JobVerdict, Permits
  <2> QED BY <1>1, <2>1, <2>2, <2>3, <2>4, <2>5 DEF JobStep
<1>2. CASE RequestStart \/ \E u \in Uses : AnswerStep(u)
  <2>1. UNCHANGED agentVars
    BY <1>2 DEF RequestStart, AnswerStep, CancelCheck, ReplyStore, Resolve, ResolveFail,
                NotifyEngine, Signal, Deny, Answer
  <2> QED BY <2>1
<1>3. CASE CancelStep \/ ReplyForward
  BY <1>3 DEF CancelStep, CancelWrite, CancelInterrupt, CancelJob, ReplyForward
<1>4. CASE AgentStep
  BY <1>4
<1>5. CASE PumpDrop \/ Quiescent \/ UNCHANGED vars
  BY <1>5 DEF PumpDrop, Quiescent, vars
<1> QED BY <1>1, <1>2, <1>3, <1>4, <1>5 DEF Next

\* A fault is not forgotten.
LEMMA FaultsStay == [Next]_vars => (blind => blind') /\ (early => early') /\ (crowded => crowded')
<1> SUFFICES ASSUME [Next]_vars PROVE (blind => blind') /\ (early => early') /\ (crowded => crowded')
  OBVIOUS
<1> USE DEF faultVars
<1>1. CASE JobStep
  <2>1. CASE JobGivesUp \/ JobCreate \/ JobRegister \/ JobFinally \/ JobCancelled \/ JobOpen
             \/ JobReconnect \/ JobAsk \/ JobPark \/ JobResume \/ JobOutcome
    BY <2>1 DEF JobGivesUp, JobCreate, JobRegister, JobFinally, JobCancelled, JobOpen,
                JobReconnect, JobAsk, JobPark, JobResume, JobOutcome, JobOnly
  <2>2. CASE JobPrompt \/ JobDeadline \/ JobApprovalTimeout \/ JobVerdict \/ JobStop
    BY <2>2 DEF JobPrompt, JobDeadline, JobApprovalTimeout, JobVerdict, JobStop
  <2>4. CASE JobReplay
    <3>1. early' = early /\ crowded' = crowded
      BY <2>4 DEF JobReplay
    <3>2. blind => blind'
      BY <2>4, Zenon DEF JobReplay
    <3> QED BY <3>1, <3>2
  <2>3. CASE HandleTool \/ HandleRequest \/ HandleFollowUp \/ HandleEnd \/ HandleGone
    BY <2>3 DEF HandleTool, HandleRequest, HandleFollowUp, HandleEnd, HandleGone, Handling
  <2> QED BY <1>1, <2>1, <2>2, <2>3, <2>4 DEF JobStep
<1>2. CASE RequestStart \/ CancelStep \/ ReplyForward
  <2>1. CASE RequestStart \/ CancelStep
    BY <2>1 DEF RequestStart, CancelStep, CancelCheck, CancelWrite, CancelInterrupt, CancelJob,
                ReplyStore, Resolve, Engine
  <2>2. CASE ReplyForward
    <3>1. blind' = blind /\ crowded' = crowded
      BY <2>2 DEF ReplyForward
    <3>2. early' = (early \/ conn = "none") \/ early' = early
      BY <2>2, Zenon DEF ReplyForward
    <3>3. early => early'
      BY <3>2, Zenon
    <3>4. (blind => blind') /\ (crowded => crowded')
      BY <3>1
    <3> QED BY <3>3, <3>4, Zenon
  <2> QED BY <1>2, <2>1, <2>2
<1>3. CASE \E u \in Uses : AnswerStep(u)
  BY <1>3 DEF AnswerStep, ResolveFail, NotifyEngine, Signal, Deny, Answer, Engine
<1>4. CASE AgentStep
  <2>1. blind' = blind /\ early' = early
    BY <1>4 DEF AgentStep, AgentAsks, AgentResult, AgentEnds, AgentGone, AgentUses, AgentOnly
  <2>2. ASSUME NEW u \in Uses, AgentUses(u) PROVE crowded => crowded'
    BY <2>2, Zenon DEF AgentUses
  <2>3. ASSUME AgentAsks \/ AgentEnds \/ AgentGone \/ \E u \in Uses : AgentResult(u)
        PROVE  crowded => crowded'
    BY <2>3 DEF AgentAsks, AgentResult, AgentEnds, AgentGone
  <2> QED BY <1>4, <2>1, <2>2, <2>3 DEF AgentStep
<1>5. CASE PumpDrop \/ Quiescent \/ UNCHANGED vars
  BY <1>5 DEF PumpDrop, Quiescent, vars
<1> QED BY <1>1, <1>2, <1>3, <1>4, <1>5 DEF Next

\* An event is only added to the log, as the last one.
LEMMA LastIsNew ==
    ASSUME Types, NEW k, NEW u, Emit(k, u)
    PROVE  /\ DOMAIN rlog' = DOMAIN rlog \cup {Len(rlog) + 1} /\ Len(rlog') = Len(rlog) + 1
           /\ rlog'[Len(rlog) + 1] = [kind |-> k, use |-> u]
           /\ \A i \in DOMAIN rlog : rlog'[i] = rlog[i]
BY DEF Types, Emit

LEMMA AgentInvStep ==
    ASSUME Types, AgentInv, AgentMoves, crowded => crowded'
    PROVE  AgentInv'
<1>1. CASE UNCHANGED agentVars
  BY <1>1 DEF AgentInv, OneAtATime, LastIs, Waiting, Told, agentVars
<1>2. CASE Message \/ Interrupt \/ (agent' = "idle" /\ UNCHANGED <<using, ran, rlog>>)
  <2>1. UNCHANGED <<using, ran, rlog>> /\ (agent' = "busy" => agent' = agent)
    BY <1>2 DEF Message, Interrupt
  <2> QED BY <2>1 DEF AgentInv, OneAtATime, LastIs, Waiting, Told
<1>3. ASSUME NEW ok \in BOOLEAN, Confirm(pend, ok) PROVE AgentInv'
  <2>1. CASE agent = "asking" /\ pend \in Waiting
    <3>1. /\ rlog' = rlog /\ using' \subseteq using /\ ran \subseteq ran'
          /\ ran' \subseteq ran \cup {pend} /\ pend \in using
          /\ pend \notin using' \/ pend \in ran'
      BY <1>3, <2>1 DEF Confirm, Waiting
    <3>2. ~crowded' => Waiting' = {}
      BY <3>1 DEF Waiting, AgentInv, OneAtATime
    <3> QED BY <3>1, <3>2 DEF AgentInv, OneAtATime, Told
  <2>2. CASE ~(agent = "asking" /\ pend \in Waiting)
    <3>1. UNCHANGED <<agent, using, ran, rlog>>
      BY <1>3, <2>2 DEF Confirm
    <3> QED BY <3>1 DEF AgentInv, OneAtATime, LastIs, Waiting, Told
  <2> QED BY <2>1, <2>2
<1>4. CASE AgentStep
  <2>t. DOMAIN rlog = 1..Len(rlog) /\ Len(rlog) \in Nat /\ AlwaysAsk \subseteq Uses /\ NoUse \notin Uses
    BY ManagedAssumption DEF Types
\* What one more event, of a use not told of before, does to the log.
  <2>1. ASSUME NEW k, NEW u, Emit(k, u), u = NoUse \/ ~Told(u),
               k = "requires_action" /\ ~crowded => \E v \in Uses : LastIs(v)
        PROVE  /\ \A v : Told(v) => Told(v)'
               /\ Told(u)'
               /\ \A i, j \in DOMAIN rlog' :
                      rlog'[i].use = rlog'[j].use /\ rlog'[i].use # NoUse => i = j
               /\ ~crowded => \A i \in DOMAIN rlog' : rlog'[i].kind = "requires_action" =>
                      i > 1 /\ rlog'[i - 1].kind = "agent.tool_use" /\ rlog'[i - 1].use # NoUse
    <3>1. /\ DOMAIN rlog' = DOMAIN rlog \cup {Len(rlog) + 1}
          /\ rlog'[Len(rlog) + 1] = [kind |-> k, use |-> u]
          /\ \A i \in DOMAIN rlog : rlog'[i] = rlog[i]
      BY <2>1, LastIsNew
    <3>3. \A i, j \in DOMAIN rlog' :
              rlog'[i].use = rlog'[j].use /\ rlog'[i].use # NoUse => i = j
      <4> SUFFICES ASSUME NEW i \in DOMAIN rlog', NEW j \in DOMAIN rlog',
                          rlog'[i].use = rlog'[j].use, rlog'[i].use # NoUse
                   PROVE  i = j
        OBVIOUS
      <4>1. rlog'[Len(rlog) + 1].use = u
        BY <3>1
      <4>2. \A l \in DOMAIN rlog : rlog'[l].use = u => u = NoUse
        BY <2>1, <3>1 DEF Told
      <4> QED BY <3>1, <4>1, <4>2 DEF AgentInv
    <3>4. ASSUME NEW i \in DOMAIN rlog', rlog'[i].kind = "requires_action", ~crowded
          PROVE  i > 1 /\ rlog'[i - 1].kind = "agent.tool_use" /\ rlog'[i - 1].use # NoUse
      <4>1. CASE i \in DOMAIN rlog
        <5>1. i > 1 /\ rlog[i - 1].kind = "agent.tool_use" /\ rlog[i - 1].use # NoUse
          BY <3>1, <3>4, <4>1 DEF AgentInv, OneAtATime
        <5>2. i - 1 \in DOMAIN rlog
          BY <2>t, <4>1, <5>1
        <5> QED BY <3>1, <5>1, <5>2
      <4>2. CASE i = Len(rlog) + 1
        <5>1. k = "requires_action"
          BY <3>1, <3>4, <4>2
        <5>2. PICK v \in Uses : LastIs(v)
          BY <2>1, <3>4, <5>1
        <5>3. /\ rlog # << >> /\ rlog[Len(rlog)].kind = "agent.tool_use"
              /\ rlog[Len(rlog)].use \in Uses
          BY <5>2 DEF LastIs
        <5>4. Len(rlog) \in DOMAIN rlog /\ i > 1 /\ i - 1 = Len(rlog)
          BY <2>t, <4>2, <5>3 DEF Types
        <5> QED BY <2>t, <3>1, <5>3, <5>4
      <4> QED BY <3>1, <4>1, <4>2
    <3>5. \A v : Told(v) => Told(v)'
      BY <3>1 DEF Told
    <3>6. Told(u)'
      BY <3>1 DEF Told
    <3> QED BY <3>3, <3>4, <3>5, <3>6
  <2>2. ASSUME NEW u \in Uses, AgentUses(u) PROVE AgentInv'
    <3>1. /\ Emit("agent.tool_use", u) /\ ~Told(u) /\ using' = using \cup {u}
          /\ ran' \subseteq ran \cup {u} /\ (~crowded' => using = {} /\ ~crowded)
      BY <2>2 DEF AgentUses, Told
    <3>2. LastIs(u)'
      <4>1. /\ DOMAIN rlog' = DOMAIN rlog \cup {Len(rlog) + 1} /\ Len(rlog') = Len(rlog) + 1
            /\ rlog'[Len(rlog) + 1] = [kind |-> "agent.tool_use", use |-> u]
        BY <3>1, LastIsNew
      <4> QED BY <4>1 DEF LastIs
    <3>3. /\ \A v : Told(v) => Told(v)'
          /\ Told(u)'
          /\ \A i, j \in DOMAIN rlog' :
                 rlog'[i].use = rlog'[j].use /\ rlog'[i].use # NoUse => i = j
          /\ ~crowded => \A i \in DOMAIN rlog' : rlog'[i].kind = "requires_action" =>
                 i > 1 /\ rlog'[i - 1].kind = "agent.tool_use" /\ rlog'[i - 1].use # NoUse
      BY <2>1, <3>1
    <3>4. \A v \in ran' \cup using' : Told(v)'
      BY <3>1, <3>3 DEF AgentInv
    <3>5. ~crowded' => OneAtATime'
      BY <3>1, <3>2, <3>3 DEF OneAtATime, Waiting
    <3> QED BY <3>3, <3>4, <3>5 DEF AgentInv
  <2>3. CASE AgentAsks
    <3>1. /\ agent = "busy" /\ Waiting # {} /\ Emit("requires_action", NoUse)
          /\ agent' = "asking" /\ UNCHANGED <<using, ran>>
      BY <2>3 DEF AgentAsks
    <3>2. ~crowded => \E v \in Uses : LastIs(v)
      BY <2>t, <3>1 DEF AgentInv, OneAtATime, Waiting
    <3>3. /\ \A v : Told(v) => Told(v)'
          /\ \A i, j \in DOMAIN rlog' :
                 rlog'[i].use = rlog'[j].use /\ rlog'[i].use # NoUse => i = j
          /\ ~crowded => \A i \in DOMAIN rlog' : rlog'[i].kind = "requires_action" =>
                 i > 1 /\ rlog'[i - 1].kind = "agent.tool_use" /\ rlog'[i - 1].use # NoUse
      BY <2>1, <3>1, <3>2
    <3> QED BY <3>1, <3>3 DEF AgentInv, OneAtATime
  <2>4. CASE (\E u \in Uses : AgentResult(u)) \/ AgentEnds \/ AgentGone
    <3>1. /\ ran' = ran /\ using' \subseteq using /\ (agent' = "busy" => agent = "busy")
          /\ \E k \in Kind \ {"requires_action"} : Emit(k, NoUse)
          /\ using' # {} => \E u \in using \cap ran : TRUE
      BY <2>4 DEF AgentResult, AgentEnds, AgentGone, Kind, Idle
    <3>2. ~crowded => Waiting' = {}
      BY <3>1 DEF AgentInv, OneAtATime, Waiting
    <3>3. /\ \A v : Told(v) => Told(v)'
          /\ \A i, j \in DOMAIN rlog' :
                 rlog'[i].use = rlog'[j].use /\ rlog'[i].use # NoUse => i = j
          /\ ~crowded => \A i \in DOMAIN rlog' : rlog'[i].kind = "requires_action" =>
                 i > 1 /\ rlog'[i - 1].kind = "agent.tool_use" /\ rlog'[i - 1].use # NoUse
      BY <2>1, <3>1
    <3> QED BY <3>1, <3>2, <3>3 DEF AgentInv, OneAtATime
  <2> QED BY <1>4, <2>2, <2>3, <2>4 DEF AgentStep
<1> QED BY <1>1, <1>2, <1>3, <1>4 DEF AgentMoves

-----------------------------------------------------------------------------
(* The gate in front of a tool.                                            *)

\* The log only grows, and what was handled stays so until the job ends.
LEMMA SeenStays ==
    ASSUME Types, [Next]_vars, job' # "done"
    PROVE  \A u : Seen(u) => Seen(u)'
<1>1. \A i \in DOMAIN rlog : i \in DOMAIN rlog' /\ rlog'[i] = rlog[i]
  <2>1. CASE AgentStep
    BY <2>1, AgentAppends
  <2>2. CASE rlog' = rlog
    BY <2>2
  <2> QED BY <2>1, <2>2, StepMovesAgent DEF AgentMoves, agentVars, Message, Interrupt, Confirm
<1>2. seen \subseteq seen'
  <2>1. CASE JobStep
    <3>1. CASE HandleTool \/ HandleRequest \/ HandleFollowUp \/ HandleEnd \/ HandleGone
      BY <3>1
      DEF HandleTool, HandleRequest, HandleFollowUp, HandleEnd, HandleGone, Handling
    <3>2. CASE \/ JobGivesUp \/ JobCreate \/ JobRegister \/ JobCancelled \/ JobOpen \/ JobPrompt
               \/ JobReplay \/ JobDeadline \/ JobReconnect \/ JobAsk \/ JobPark
               \/ JobApprovalTimeout \/ JobVerdict \/ JobStop \/ JobResume \/ JobOutcome
      <4>1. seen' = seen
        BY <3>2
        DEF JobGivesUp, JobCreate, JobRegister, JobCancelled, JobOpen, JobPrompt, JobReplay,
            JobDeadline, JobReconnect, JobAsk, JobPark, JobApprovalTimeout, JobVerdict, JobStop,
            JobResume, JobOutcome, JobOnly, liveVars
      <4> QED BY <4>1
    <3>3. ~JobFinally
      BY DEF JobFinally
    <3> QED BY <2>1, <3>1, <3>2, <3>3 DEF JobStep
  <2>2. CASE ~JobStep
    <3>1. seen' = seen
      BY <2>2
      DEF Next, vars, liveVars, PumpDrop, AgentStep, AgentAsks, AgentResult, AgentEnds, AgentGone,
          AgentUses, AgentOnly, RequestStart, CancelStep, AnswerStep, CancelCheck, CancelWrite,
          CancelInterrupt, CancelJob, ReplyStore, ReplyForward, Resolve, ResolveFail,
          NotifyEngine, Signal, Deny, Answer, Engine, Quiescent
    <3> QED BY <3>1
  <2> QED BY <2>1, <2>2
<1> QED BY <1>1, <1>2 DEF Seen, Types

\* The steps that leave the gate alone: they move the job on its way to the next
\* request, or to its end.
ReadPcs == {"create", "register", "open", "opened", "loop"}
Aside ==
    /\ UNCHANGED <<pend, approval, armed, granted, answering>>
    /\ ran' \cap AlwaysAsk = ran \cap AlwaysAsk
    /\ \/ job' = job \/ job' \in {"fail", "finish", "complete"}
       \/ job \in ReadPcs \cup {"resume"} /\ job' \in ReadPcs \cup {"ask"}
    /\ job' = "done" <=> job = "done"

LEMMA OtherSteps ==
    ASSUME [Next]_vars
    PROVE  \/ Aside \/ JobFinally \/ HandleTool \/ JobAsk \/ JobPark \/ JobVerdict
           \/ \E u \in Uses, ok \in BOOLEAN : Resolve(u, ok)
           \/ \E u \in Uses : AnswerStep(u)
<1> USE DEF Aside, ReadPcs, At, Goto
<1>1. CASE JobStep
  <2>1. CASE JobGivesUp \/ JobCreate \/ JobRegister \/ JobCancelled \/ JobOpen \/ JobReplay
             \/ JobReconnect
    BY <2>1 DEF JobGivesUp, JobCreate, JobRegister, JobCancelled, JobOpen, JobReplay, JobReconnect,
                JobOnly, dbVars, stateVars, liveVars, phoneVars, agentVars
  <2>2. CASE JobPrompt \/ JobDeadline \/ JobApprovalTimeout \/ JobStop
    BY <2>2 DEF JobPrompt, JobDeadline, JobApprovalTimeout, JobStop, TryInterrupt, StopAgent,
                Message, Interrupt, NotSent, dbVars, stateVars, liveVars, phoneVars, agentVars
  <2>3. CASE HandleRequest \/ HandleFollowUp \/ HandleEnd \/ HandleGone
    BY <2>3 DEF HandleRequest, HandleFollowUp, HandleEnd, HandleGone, Handling, Message, NotSent,
                dbVars, phoneVars, agentVars
  <2>4. CASE JobResume \/ JobOutcome
    BY <2>4 DEF JobResume, JobOutcome, stateVars, liveVars, phoneVars, agentVars
  <2> QED BY <1>1, <2>1, <2>2, <2>3, <2>4 DEF JobStep
<1>2. CASE CancelStep \/ CancelCheck \/ ReplyStore \/ ReplyForward
  BY <1>2 DEF CancelStep, CancelWrite, CancelInterrupt, CancelJob, CancelCheck, ReplyStore,
              ReplyForward, Engine, TryInterrupt, Message, Interrupt, NotSent,
              dbVars, jobVars, stateVars, liveVars, agentVars
<1>3. CASE AgentStep
  <2>1. AgentOnly /\ ran' \cap AlwaysAsk = ran \cap AlwaysAsk
    BY <1>3 DEF AgentStep, AgentAsks, AgentResult, AgentEnds, AgentGone, AgentUses
  <2> QED BY <2>1 DEF AgentOnly, dbVars, jobVars, stateVars, liveVars, phoneVars
<1>4. CASE PumpDrop \/ Quiescent \/ UNCHANGED vars
  BY <1>4 DEF PumpDrop, Quiescent, vars, dbVars, jobVars, stateVars, liveVars, phoneVars, agentVars
<1> QED BY <1>1, <1>2, <1>3, <1>4 DEF Next, RequestStart

LEMMA AsideKeepsGate == Types /\ GateInv /\ [Next]_vars /\ Aside => GateInv'
<1> SUFFICES ASSUME Types, GateInv, [Next]_vars, Aside PROVE GateInv'
  OBVIOUS
<1>1. Types'
  BY TypesStep
<1>2. job' # "done" => \A u \in Uses : approval'[u] # "none" \/ pend' = u => Seen(u)'
  BY SeenStays DEF Aside, GateInv
<1>3. job' \in BeforePark \ {"park"} /\ pend' # NoUse => approval'[pend'] = "none"
  BY DEF Aside, GateInv, BeforePark, ReadPcs
<1>4. /\ job' \in {"resume", "stop"} => pend' = NoUse
      /\ job' = "park" => approval'[pend'] = "pending"
      /\ job' = "wait" => armed' = pend' /\ approval'[pend'] # "none"
  BY DEF Aside, GateInv, ReadPcs
<1>5. job' \in BeforePark \cup {"wait", "resume"} =>
          \A u \in Uses : approval'[u] \in {"pending", "rejected"} =>
              job' \in {"park", "wait"} /\ u = pend'
  BY DEF Aside, GateInv, BeforePark, ReadPcs
<1>6. /\ granted' # "none" => armed' # NoUse
      /\ granted' = "yes" => approval'[armed'] = "approved"
      /\ granted' = "no" => approval'[armed'] = "rejected"
      /\ \A u \in Uses :
            /\ answering'[u] # "none" => approval'[u] \in {"approved", "rejected"}
            /\ answering'[u] \in {"notify", "signal"} => approval'[u] = "approved"
            /\ answering'[u] \in {"failRejected", "deny"} => approval'[u] = "rejected"
      /\ \A u \in ran' \cap AlwaysAsk : approval'[u] = "approved"
  BY DEF Aside, GateInv
<1> QED BY <1>2, <1>3, <1>4, <1>5, <1>6 DEF GateInv

LEMMA GateStep == Types /\ AgentInv /\ GateInv /\ WaitInv /\ [Next]_vars => GateInv'
<1> SUFFICES ASSUME Types, AgentInv, GateInv, WaitInv, [Next]_vars PROVE GateInv'
  OBVIOUS
<1>t. /\ approval \in [Uses -> {"none", "pending", "approved", "rejected"}]
      /\ answering \in [Uses -> AnswerPC] /\ pend \in Uses \cup {NoUse} /\ armed \in Uses \cup {NoUse}
      /\ NoUse \notin Uses
  BY ManagedAssumption DEF Types, ManagedTypeOK
<1>s. job' # "done" => \A u : Seen(u) => Seen(u)'
  BY SeenStays
<1>1. CASE Aside
  BY <1>1, AsideKeepsGate
<1>2. CASE JobFinally
  BY <1>2 DEF JobFinally, GateInv, BeforePark, dbVars, agentVars, phoneVars
<1>3. CASE HandleTool
  <2>1. /\ job = "loop" /\ job' = "loop" /\ pend' = rlog[Current].use
        /\ Pending # {} /\ seen' = seen \cup {Current}
        /\ UNCHANGED <<approval, armed, granted, answering, ran, rlog>>
    BY <1>3 DEF HandleTool, Handling, At, dbVars, phoneVars, agentVars
  <2>2. Current \in DOMAIN rlog /\ Current \notin seen /\ seen \subseteq DOMAIN rlog
    BY <2>1, CurrentIsFirst DEF Types
  <2>3. pend' # NoUse => approval[pend'] = "none"
    <3> SUFFICES ASSUME pend' # NoUse, approval[pend'] # "none" PROVE FALSE
      OBVIOUS
    <3>4. rlog[Current] \in Event
      BY <2>2 DEF Types, ManagedTypeOK
    <3>1. pend' \in Uses
      BY <2>1, <3>4 DEF Event
    <3>2. PICK i \in seen : rlog[i].use = pend'
      BY <2>1, <3>1 DEF GateInv, Seen
    <3>3. i = Current
      BY <2>1, <2>2, <3>2 DEF AgentInv
    <3> QED BY <2>2, <3>3
  <2>4. \A u \in Uses : approval'[u] # "none" \/ pend' = u => Seen(u)'
    <3>1. ASSUME NEW u \in Uses, pend' = u PROVE Seen(u)'
      BY <2>1, <2>2, <3>1 DEF Seen
    <3> QED BY <1>s, <2>1, <3>1 DEF GateInv
  <2> QED BY <2>1, <2>3, <2>4 DEF GateInv, BeforePark
<1>4. CASE JobAsk
  <2>1. /\ job = "ask" /\ job' = "park" /\ approval' = [approval EXCEPT ![pend] = "pending"]
        /\ UNCHANGED <<pend, armed, granted, answering, ran>>
    BY <1>4 DEF JobAsk, At, Goto, stateVars, liveVars, phoneVars, agentVars
  <2>2. pend \in Uses /\ approval[pend] = "none" /\ approval'[pend] = "pending"
        /\ \A u \in Uses \ {pend} : approval'[u] = approval[u]
    BY <1>t, <2>1 DEF GateInv, BeforePark, Types
  <2>3. \A u \in Uses : approval'[u] # "none" \/ pend' = u => Seen(u)'
    BY <1>s, <2>1, <2>2 DEF GateInv
  <2>4. /\ granted' # "none" => armed' # NoUse
        /\ granted' = "yes" => approval'[armed'] = "approved"
        /\ granted' = "no" => approval'[armed'] = "rejected"
        /\ \A u \in ran' \cap AlwaysAsk : approval'[u] = "approved"
    BY <1>t, <2>1, <2>2, ManagedAssumption DEF GateInv
  <2>5. \A u \in Uses :
            /\ answering'[u] # "none" => approval'[u] \in {"approved", "rejected"}
            /\ answering'[u] \in {"notify", "signal"} => approval'[u] = "approved"
            /\ answering'[u] \in {"failRejected", "deny"} => approval'[u] = "rejected"
    BY <2>1, <2>2 DEF GateInv
  <2>6. \A u \in Uses : approval'[u] \in {"pending", "rejected"} => u = pend'
    BY <2>1, <2>2 DEF GateInv, BeforePark
  <2> QED BY <2>1, <2>2, <2>3, <2>4, <2>5, <2>6 DEF GateInv, BeforePark
<1>5. CASE JobPark
  <2>1. /\ job = "park" /\ job' = "wait" /\ armed' = pend /\ granted' = "none"
        /\ UNCHANGED <<pend, approval, answering, ran>>
    BY <1>5 DEF JobPark, At, Goto, liveVars, phoneVars, agentVars
  <2> QED BY <1>s, <2>1 DEF GateInv, BeforePark
<1>6. CASE JobVerdict
  <2>1. /\ job = "wait" /\ granted # "none" /\ pend' = NoUse
        /\ job' = (IF granted = "yes" THEN "resume" ELSE "stop") \/ job' = "fail"
        /\ UNCHANGED <<approval, armed, granted, answering>>
        /\ ran' \subseteq ran \cup (IF granted = "yes" THEN {pend} ELSE {})
    BY <1>6 DEF JobVerdict, At, Goto, Permits, Confirm, NotSent,
                dbVars, stateVars, phoneVars, agentVars
  <2>2. granted = "yes" => approval[pend] = "approved"
    BY <2>1 DEF GateInv
  <2>3. \A u \in Uses : approval'[u] # "none" \/ pend' = u => Seen(u)'
    BY <1>s, <1>t, <2>1 DEF GateInv
  <2>4. \A u \in ran' \cap AlwaysAsk : approval'[u] = "approved"
    BY <2>1, <2>2 DEF GateInv
  <2>5. job' = "resume" => \A u \in Uses : approval'[u] \notin {"pending", "rejected"}
    BY <2>1, <2>2 DEF GateInv
  <2> QED BY <2>1, <2>3, <2>4, <2>5 DEF GateInv, BeforePark
<1>7. ASSUME NEW u \in Uses, NEW ok \in BOOLEAN, Resolve(u, ok) PROVE GateInv'
  <2>1. /\ approval[u] = "pending" /\ status = "waiting_approval"
        /\ approval'[u] = IF ok THEN "approved" ELSE "rejected"
        /\ answering'[u] = IF ok THEN "notify" ELSE "failRejected"
        /\ \A v \in Uses \ {u} : approval'[v] = approval[v] /\ answering'[v] = answering[v]
        /\ UNCHANGED <<job, pend, armed, granted, ran>>
    BY <1>7, <1>t DEF Resolve, Step, Engine, jobVars, liveVars, stateVars, agentVars
  <2>2. job \notin BeforePark
    BY <2>1 DEF WaitInv
  <2>3. job' # "done" => \A v \in Uses : approval'[v] # "none" \/ pend' = v => Seen(v)'
    BY <1>s, <2>1 DEF GateInv
  <2>4. /\ granted' # "none" => armed' # NoUse
        /\ granted' = "yes" => approval'[armed'] = "approved"
        /\ granted' = "no" => approval'[armed'] = "rejected"
    BY <1>t, <2>1 DEF GateInv
  <2>5. \A v \in ran' \cap AlwaysAsk : approval'[v] = "approved"
    BY <2>1, ManagedAssumption DEF GateInv
  <2>6. \A v \in Uses :
            /\ answering'[v] # "none" => approval'[v] \in {"approved", "rejected"}
            /\ answering'[v] \in {"notify", "signal"} => approval'[v] = "approved"
            /\ answering'[v] \in {"failRejected", "deny"} => approval'[v] = "rejected"
    BY <2>1 DEF GateInv
  <2>7. job' \in {"wait", "resume"} =>
            \A v \in Uses : approval'[v] \in {"pending", "rejected"} =>
                job' \in {"park", "wait"} /\ v = pend'
    BY <2>1 DEF GateInv
  <2>8. job' = "wait" => armed' = pend' /\ approval'[pend'] # "none"
    BY <1>t, <2>1 DEF GateInv
  <2>9. job' \in {"resume", "stop"} => pend' = NoUse
    BY <2>1 DEF GateInv
  <2> QED BY <2>1, <2>2, <2>3, <2>4, <2>5, <2>6, <2>7, <2>8, <2>9 DEF GateInv, BeforePark
<1>8. ASSUME NEW u \in Uses, AnswerStep(u) PROVE GateInv'
  <2>1. /\ UNCHANGED <<job, pend, approval, armed, ran>>
        /\ \A v \in Uses \ {u} : answering'[v] = answering[v]
        /\ \/ granted' = granted
           \/ answering[u] = "signal" /\ armed = u /\ granted' = "yes"
           \/ answering[u] = "deny" /\ armed = u /\ granted' = "no"
        /\ \/ answering[u] = "failRejected" /\ answering'[u] = "deny"
           \/ answering[u] = "notify" /\ answering'[u] \in {"signal", "done"}
           \/ answering[u] \in {"signal", "deny"} /\ answering'[u] = "done"
    BY <1>8, <1>t DEF AnswerStep, ResolveFail, NotifyEngine, Signal, Deny, Answer, Step, Engine,
                      dbVars, jobVars, liveVars, stateVars, agentVars
  <2>2. job' # "done" => \A v \in Uses : approval'[v] # "none" \/ pend' = v => Seen(v)'
    BY <1>s, <2>1 DEF GateInv
  <2>3. /\ granted' # "none" => armed' # NoUse
        /\ granted' = "yes" => approval'[armed'] = "approved"
        /\ granted' = "no" => approval'[armed'] = "rejected"
    BY <1>t, <2>1 DEF GateInv
  <2>4. \A v \in Uses :
            /\ answering'[v] # "none" => approval'[v] \in {"approved", "rejected"}
            /\ answering'[v] \in {"notify", "signal"} => approval'[v] = "approved"
            /\ answering'[v] \in {"failRejected", "deny"} => approval'[v] = "rejected"
    BY <2>1 DEF GateInv
  <2>5. \A v \in ran' \cap AlwaysAsk : approval'[v] = "approved"
    BY <2>1 DEF GateInv
  <2>6. /\ job' \in BeforePark \ {"park"} /\ pend' # NoUse => approval'[pend'] = "none"
        /\ job' \in {"resume", "stop"} => pend' = NoUse
        /\ job' = "park" => approval'[pend'] = "pending"
        /\ job' = "wait" => armed' = pend' /\ approval'[pend'] # "none"
        /\ job' \in BeforePark \cup {"wait", "resume"} =>
              \A v \in Uses : approval'[v] \in {"pending", "rejected"} =>
                  job' \in {"park", "wait"} /\ v = pend'
    BY <2>1 DEF GateInv
  <2> QED BY <2>2, <2>3, <2>4, <2>5, <2>6 DEF GateInv
<1> QED BY <1>1, <1>2, <1>3, <1>4, <1>5, <1>6, <1>7, <1>8, OtherSteps

\* The steps that write the status, or an answer, or move the job to its wait.
LEMMA OtherWaitSteps ==
    ASSUME [Next]_vars
    PROVE  \/ /\ UNCHANGED <<status, answering>> /\ job' \notin {"park", "wait"}
              /\ job' \in BeforePark => job \in BeforePark
           \/ UNCHANGED <<status, answering, job, pend, approval, granted>>
           \/ JobAsk \/ JobPark \/ JobResume \/ JobOutcome \/ CancelWrite
           \/ \E u \in Uses, ok \in BOOLEAN : Resolve(u, ok)
           \/ \E u \in Uses : AnswerStep(u)
<1> USE DEF BeforePark, At, Goto
<1>1. CASE JobStep
  <2>1. CASE JobGivesUp \/ JobCreate \/ JobRegister \/ JobFinally \/ JobCancelled \/ JobOpen
             \/ JobReplay \/ JobReconnect
    BY <2>1 DEF JobGivesUp, JobCreate, JobRegister, JobFinally, JobCancelled, JobOpen, JobReplay,
                JobReconnect, JobOnly, dbVars, phoneVars
  <2>2. CASE JobPrompt \/ JobDeadline \/ JobApprovalTimeout \/ JobStop \/ JobVerdict
    BY <2>2 DEF JobPrompt, JobDeadline, JobApprovalTimeout, JobStop, JobVerdict, dbVars, phoneVars
  <2>3. CASE HandleTool \/ HandleRequest \/ HandleFollowUp \/ HandleEnd \/ HandleGone
    BY <2>3 DEF HandleTool, HandleRequest, HandleFollowUp, HandleEnd, HandleGone, Handling,
                dbVars, phoneVars
  <2> QED BY <1>1, <2>1, <2>2, <2>3 DEF JobStep
<1>2. CASE CancelInterrupt \/ CancelJob \/ CancelCheck \/ ReplyStore \/ ReplyForward
  BY <1>2 DEF CancelInterrupt, CancelJob, CancelCheck, ReplyStore, ReplyForward, Engine,
              dbVars, jobVars, stateVars, liveVars
<1>3. CASE AgentStep \/ PumpDrop
  BY <1>3 DEF AgentStep, AgentAsks, AgentResult, AgentEnds, AgentGone, AgentUses, AgentOnly,
              PumpDrop, dbVars, jobVars, stateVars, liveVars, phoneVars
<1>4. CASE Quiescent \/ UNCHANGED vars
  BY <1>4 DEF Quiescent, vars, dbVars, jobVars, stateVars, liveVars, phoneVars
<1> QED BY <1>1, <1>2, <1>3, <1>4 DEF Next, RequestStart, CancelStep

LEMMA WaitStep == Types /\ GateInv /\ WaitInv /\ [Next]_vars => WaitInv'
<1> SUFFICES ASSUME Types, GateInv, WaitInv, [Next]_vars PROVE WaitInv'
  OBVIOUS
<1>t. /\ approval \in [Uses -> {"none", "pending", "approved", "rejected"}]
      /\ answering \in [Uses -> AnswerPC] /\ pend \in Uses \cup {NoUse} /\ armed \in Uses \cup {NoUse}
      /\ NoUse \notin Uses /\ (job \in {"ask", "park", "wait"} => pend # NoUse)
  BY ManagedAssumption DEF Types, ManagedTypeOK
<1>1. CASE /\ UNCHANGED <<status, answering>> /\ job' \notin {"park", "wait"}
           /\ job' \in BeforePark => job \in BeforePark
  BY <1>1 DEF WaitInv
<1>2. CASE UNCHANGED <<status, answering, job, pend, approval, granted>>
  BY <1>2 DEF WaitInv
<1>3. CASE JobAsk \/ JobResume \/ JobOutcome
  BY <1>3 DEF JobAsk, JobResume, JobOutcome, At, Goto, WaitInv, BeforePark
<1>4. CASE JobPark
  <2>1. /\ job = "park" /\ job' = "wait" /\ status' = "waiting_approval"
        /\ UNCHANGED <<answering, pend, approval>>
    BY <1>4 DEF JobPark, At, Goto, liveVars, phoneVars
  <2>2. answering[pend] # "done"
    BY <1>t, <2>1 DEF GateInv
  <2> QED BY <2>1, <2>2 DEF WaitInv, BeforePark
<1>5. CASE CancelWrite
  BY <1>5 DEF CancelWrite, Engine, jobVars, stateVars, liveVars, WaitInv
<1>6. ASSUME NEW u \in Uses, NEW ok \in BOOLEAN, Resolve(u, ok) PROVE WaitInv'
  <2>1. /\ approval[u] = "pending" /\ status = "waiting_approval" /\ status' = status
        /\ answering'[u] \in {"notify", "failRejected"}
        /\ \A v \in Uses \ {u} : approval'[v] = approval[v] /\ answering'[v] = answering[v]
        /\ UNCHANGED <<job, pend, granted>>
    BY <1>6, <1>t DEF Resolve, Step, Engine, jobVars, liveVars, stateVars
  <2>2. job = "wait" => pend = u
    BY <2>1 DEF GateInv
  <2> QED BY <2>1, <2>2 DEF WaitInv
<1>7. ASSUME NEW u \in Uses, AnswerStep(u) PROVE WaitInv'
  <2>1. /\ UNCHANGED <<job, pend, approval>>
        /\ \A v \in Uses \ {u} : answering'[v] = answering[v]
    BY <1>7, <1>t DEF AnswerStep, ResolveFail, NotifyEngine, Signal, Deny, Answer, Step, Engine,
                      dbVars, jobVars, liveVars, stateVars
  <2>2. CASE ResolveFail(u)
    <3>1. /\ answering[u] = "failRejected" /\ answering'[u] = "deny" /\ status' = "failed"
          /\ granted' = granted
      BY <2>2, <1>t DEF ResolveFail, Step, Engine, stateVars
    <3>2. approval[u] = "rejected"
      BY <3>1 DEF GateInv
    <3>3. job = "wait" => pend = u
      BY <3>2 DEF GateInv
    <3> QED BY <2>1, <3>1, <3>2, <3>3 DEF WaitInv
  <2>3. CASE NotifyEngine(u)
    <3>1. /\ answering[u] = "notify" /\ status' = status /\ granted' = granted
          /\ answering'[u] = IF status = "waiting_approval" THEN "signal" ELSE "done"
      BY <2>3, <1>t DEF NotifyEngine, Step, Engine, stateVars, dbVars
    <3>2. approval[u] = "approved"
      BY <3>1 DEF GateInv
    <3>3. job = "wait" /\ pend = u /\ answering'[u] = "done" => status' = "cancelled"
      BY <3>1, <3>2 DEF WaitInv
    <3> QED BY <1>t, <2>1, <3>1, <3>3 DEF WaitInv, BeforePark
  <2>4. ASSUME NEW v \in {"yes", "no"}, Answer(u, v) PROVE WaitInv'
    <3>1. /\ granted' = IF job # "done" /\ armed = u THEN v ELSE granted
          /\ status' = status
      BY <2>4 DEF Answer, dbVars
    <3>2. job = "wait" => armed = pend
      BY DEF GateInv
    <3> QED BY <1>t, <2>1, <3>1, <3>2 DEF WaitInv, BeforePark
  <2> QED BY <1>7, <2>2, <2>3, <2>4 DEF AnswerStep, Signal, Deny
<1> QED BY <1>1, <1>2, <1>3, <1>4, <1>5, <1>6, <1>7, OtherWaitSteps

SessionInv == Types /\ AgentInv /\ GateInv /\ WaitInv
LEMMA SessionInvariant == Spec => []SessionInv
<1>1. Init => SessionInv
  <2> SUFFICES ASSUME Init PROVE SessionInv
    OBVIOUS
  <2>1. Types
    BY InitTypes
  <2>2. AgentInv
    BY DEF Init, AgentInv, OneAtATime, Told
  <2>3. GateInv
    BY ManagedAssumption DEF Init, GateInv, BeforePark
  <2>4. WaitInv
    BY DEF Init, WaitInv
  <2> QED BY <2>1, <2>2, <2>3, <2>4 DEF SessionInv
<1>2. SessionInv /\ [Next]_vars => SessionInv'
  BY TypesStep, StepMovesAgent, FaultsStay, AgentInvStep, GateStep, WaitStep DEF SessionInv
<1> QED BY <1>1, <1>2, PTL DEF Spec

\* A verdict reaches the job that waits for it, also when a rejection has already
\* made the task FAILED (ManagedAgentWorkerEngine's handling of a rejection).
THEOREM VerdictIsDelivered == Spec => []VerdictReachesJob
<1>1. SessionInv => VerdictReachesJob
  BY ManagedAssumption DEF SessionInv, WaitInv, VerdictReachesJob
<1> QED BY <1>1, SessionInvariant, PTL

\* Every tool that must be asked for has a gate of its own: asked for once,
\* answered once, and run at most once and only after its own yes, over all drops
\* and replays, deadlines, replies and cancellations.
THEOREM ToolGateImplemented == Spec => ImplementsToolGate
<1> DEFINE verdict == [u \in AlwaysAsk |-> approval[u]]
           launched == [u \in AlwaysAsk |-> u \in ran]
<1>1. Init => ToolGate!Init
  <2> SUFFICES ASSUME Init PROVE ToolGate!Init
    OBVIOUS
  <2>1. \A u \in AlwaysAsk : approval[u] = "none" /\ u \notin ran
    BY ManagedAssumption DEF Init
  <2>2. verdict = [u \in AlwaysAsk |-> "none"] /\ launched = [u \in AlwaysAsk |-> FALSE]
    <3>1. \A u \in AlwaysAsk : (u \in ran) = FALSE
      BY <2>1
    <3>2. launched = [u \in AlwaysAsk |-> FALSE]
      BY <3>1, Zenon
    <3> QED BY <2>1, <3>2
  <2> QED BY <2>2 DEF ToolGate!Init
<1>2. ASSUME SessionInv, [Next]_vars PROVE [ToolGate!Next]_(ToolGate!gateVars)
  <2> USE <1>2
  <2>t. /\ approval \in [Uses -> {"none", "pending", "approved", "rejected"}]
        /\ AlwaysAsk \subseteq Uses
        /\ \A u \in ran \cap AlwaysAsk : approval[u] = "approved"
    BY ManagedAssumption DEF SessionInv, GateInv, Types, ManagedTypeOK
  <2>1. ASSUME \A u \in AlwaysAsk : approval'[u] = approval[u] /\ (u \in ran' <=> u \in ran)
        PROVE  UNCHANGED ToolGate!gateVars
    <3>1. verdict' = verdict /\ launched' = launched
      BY <2>1
    <3> QED BY <3>1 DEF ToolGate!gateVars
  <2>2. CASE JobAsk
    <3>1. /\ approval' = [approval EXCEPT ![pend] = "pending"] /\ ran' = ran
          /\ job = "ask" /\ pend # NoUse
      BY <2>2 DEF JobAsk, At, agentVars, SessionInv, Types
    <3>2. approval[pend] = "none"
      BY <3>1 DEF SessionInv, GateInv, BeforePark
    <3>3. CASE pend \in AlwaysAsk
      <4>0. PICK u \in AlwaysAsk : u = pend
        BY <3>3
      <4>1. verdict' = [verdict EXCEPT ![u] = "pending"] /\ launched' = launched
        BY <2>t, <3>1, <4>0
      <4>2. verdict[u] = "none" /\ ~launched[u]
        BY <2>t, <3>2, <4>0
      <4>3. ToolGate!Ask(u)
        BY <4>1, <4>2 DEF ToolGate!Ask
      <4> QED BY <4>3 DEF ToolGate!Next
    <3>4. CASE pend \notin AlwaysAsk
      <4>1. \A u \in AlwaysAsk : approval'[u] = approval[u] /\ (u \in ran' <=> u \in ran)
        BY <2>t, <3>1, <3>4
      <4> QED BY <2>1, <4>1
    <3> QED BY <3>3, <3>4
  <2>3. ASSUME NEW u \in Uses, NEW ok \in BOOLEAN, Resolve(u, ok)
        PROVE  [ToolGate!Next]_(ToolGate!gateVars)
    <3>1. /\ approval[u] = "pending" /\ ran' = ran
          /\ \E v \in {"approved", "rejected"} : approval' = [approval EXCEPT ![u] = v]
      BY <2>3 DEF Resolve, Engine, agentVars
    <3>2. CASE u \in AlwaysAsk
      <4>1. launched' = launched /\ verdict[u] = "pending" /\ ~launched[u]
        BY <2>t, <3>1, <3>2
      <4>2. \E v \in {"approved", "rejected"} : verdict' = [verdict EXCEPT ![u] = v]
        BY <2>t, <3>1, <3>2
      <4>3. ToolGate!Answer(u)
        BY <4>1, <4>2 DEF ToolGate!Answer
      <4> QED BY <3>2, <4>3 DEF ToolGate!Next
    <3>3. CASE u \notin AlwaysAsk
      <4>1. \A v \in AlwaysAsk : approval'[v] = approval[v] /\ (v \in ran' <=> v \in ran)
        BY <2>t, <3>1, <3>3
      <4> QED BY <2>1, <4>1
    <3> QED BY <3>2, <3>3
  <2>4. CASE JobVerdict
    <3>1. /\ approval' = approval
          /\ \/ ran' = ran
             \/ /\ job = "wait" /\ granted = "yes" /\ pend \in Waiting
                /\ ran' = ran \cup {pend}
      BY <2>4 DEF JobVerdict, At, Confirm, Permits, NotSent, dbVars, agentVars
    <3>2. CASE ran' = ran
      BY <2>1, <3>1, <3>2
    <3>3. CASE ran' # ran
      <4>0. PICK u \in AlwaysAsk : u = pend
        BY <3>1, <3>3 DEF Waiting
      <4>1. u \notin ran /\ approval[u] = "approved"
        BY <3>1, <3>3, <4>0 DEF Waiting, SessionInv, GateInv
      <4>2. launched' = [launched EXCEPT ![u] = TRUE] /\ verdict' = verdict
        <5>1. \A v \in AlwaysAsk : v \in ran' <=> v \in ran \/ v = u
          BY <3>1, <3>3, <4>0
        <5>2. verdict' = verdict
          BY <3>1
        <5>3. launched' = [v \in AlwaysAsk |-> v \in ran']
          OBVIOUS
        <5>4. [launched EXCEPT ![u] = TRUE] = [v \in AlwaysAsk |-> IF v = u THEN TRUE ELSE v \in ran]
          BY Zenon
        <5>5. \A v \in AlwaysAsk : (v \in ran') = (IF v = u THEN TRUE ELSE v \in ran)
          <6> SUFFICES ASSUME NEW v \in AlwaysAsk
                       PROVE  (v \in ran') = (IF v = u THEN TRUE ELSE v \in ran)
            OBVIOUS
          <6>1. CASE v = u
            BY <5>1, <6>1
          <6>2. CASE v # u
            <7>1. (v \in ran') = (v \in ran)
              BY <5>1, <6>2
            <7> QED BY <6>2, <7>1
          <6> QED BY <6>1, <6>2
        <5>6. [v \in AlwaysAsk |-> v \in ran']
                  = [v \in AlwaysAsk |-> IF v = u THEN TRUE ELSE v \in ran]
          BY <5>5, Zenon
        <5> QED BY <5>2, <5>3, <5>4, <5>6, Zenon
      <4>3. ToolGate!Launch(u)
        BY <4>1, <4>2 DEF ToolGate!Launch
      <4> QED BY <4>3 DEF ToolGate!Next
    <3> QED BY <3>2, <3>3
  <2>5. CASE Aside \/ JobFinally \/ HandleTool \/ JobPark \/ \E u \in Uses : AnswerStep(u)
    <3>1. approval' = approval /\ ran' \cap AlwaysAsk = ran \cap AlwaysAsk
      BY <2>5 DEF Aside, JobFinally, HandleTool, Handling, JobPark, AnswerStep, ResolveFail,
                  NotifyEngine, Signal, Deny, Answer, Engine, dbVars, agentVars
    <3> QED BY <2>1, <3>1
  <2> QED BY <2>2, <2>3, <2>4, <2>5, OtherSteps
<1> QED BY <1>1, <1>2, SessionInvariant, PTL DEF Spec, ImplementsToolGate, ToolGate!Spec

-----------------------------------------------------------------------------
(* The order of the events.                                                *)

\* The steps that leave the order alone.
Beside ==
    /\ UNCHANGED <<seen, replay, prompted, since, rlog>>
    /\ conn' = "none" <=> conn = "none"
    /\ agent = "gone" => agent' = "gone"
    /\ conn = "none" /\ agent \in {"none", "idle"} => agent' = agent
    /\ \/ job' = job /\ pend' = pend
       \/ job # "done" /\ job' \in {"fail", "finish", "stop"}
       \/ job \in AskPcs /\ job' \in AskPcs
       \/ job = "resume" /\ job' = "loop"
       \/ job = "register" /\ job' = "open"
       \/ job = "loop" /\ job' = "open" /\ conn # "none" /\ pend' = pend

LEMMA StepsBeside ==
    ASSUME [Next]_vars, ~early'
    PROVE  \/ Beside \/ JobCreate \/ JobFinally \/ JobOpen \/ JobPrompt \/ JobReplay
           \/ HandleTool \/ HandleRequest \/ HandleFollowUp \/ HandleEnd \/ HandleGone
           \/ AgentStep
<1> USE DEF Beside, At, Goto, AskPcs
<1>2. CASE JobStep
  <2>1. CASE JobGivesUp \/ JobRegister \/ JobCancelled
    BY <2>1 DEF JobGivesUp, JobRegister, JobCancelled, JobOnly, liveVars, driveVars, agentVars
  <2>2. CASE JobDeadline \/ JobApprovalTimeout \/ JobStop
    BY <2>2 DEF JobDeadline, JobApprovalTimeout, JobStop, TryInterrupt, StopAgent, Interrupt,
                NotSent,
                liveVars, driveVars, agentVars
  <2>3. CASE JobReconnect
    BY <2>3 DEF JobReconnect, liveVars, agentVars
  <2>4. CASE JobAsk \/ JobPark \/ JobResume \/ JobOutcome
    BY <2>4 DEF JobAsk, JobPark, JobResume, JobOutcome, liveVars, driveVars, agentVars
  <2>5. CASE JobVerdict
    <3>1. \/ agent' = agent
          \/ agent = "asking"
      BY <2>5 DEF JobVerdict, Confirm, NotSent, agentVars
    <3>2. /\ UNCHANGED <<seen, replay, prompted, since, rlog, conn>>
          /\ job = "wait" /\ job' \in {"resume", "stop", "fail"}
      BY <2>5 DEF JobVerdict, Confirm, NotSent, agentVars, driveVars
    <3> QED BY <3>1, <3>2
  <2> QED BY <1>2, <2>1, <2>2, <2>3, <2>4, <2>5 DEF JobStep
<1>3. CASE CancelStep \/ CancelCheck \/ ReplyStore
  BY <1>3 DEF CancelStep, CancelWrite, CancelInterrupt, CancelJob, CancelCheck, ReplyStore,
              Engine, TryInterrupt, Interrupt, NotSent, jobVars, liveVars, driveVars, agentVars
<1>4. CASE ReplyForward
  <2>1. /\ UNCHANGED <<job, pend, seen, replay, prompted, since, rlog, conn>>
        /\ \/ agent' = agent
           \/ agent' = "working" /\ agent = "idle" /\ conn # "none"
    BY <1>4 DEF ReplyForward, Message, NotSent, jobVars, liveVars, driveVars, agentVars
  <2> QED BY <2>1
<1>5. CASE \/ PumpDrop \/ Quiescent \/ UNCHANGED vars
           \/ \E u \in Uses, ok \in BOOLEAN : Resolve(u, ok)
           \/ \E u \in Uses : AnswerStep(u)
  BY <1>5 DEF PumpDrop, Quiescent, vars, Resolve, AnswerStep, ResolveFail, NotifyEngine, Signal,
              Deny, Answer, Engine, jobVars, liveVars, driveVars, agentVars
<1> QED BY <1>2, <1>3, <1>4, <1>5 DEF Next, RequestStart

LEMMA BesideKeepsOrder ==
    ASSUME Types, crowded => crowded',
           NEW n \in 0..Len(rlog), NEW m \in 0..Len(rlog), n <= m, InOrder(n, m), Beside
    PROVE  /\ n \in 0..Len(rlog') /\ m \in 0..Len(rlog')
           /\ InOrder(n, m)'
<1> USE DEF Beside, InOrder, AskPcs
<1>1. n \in 0..Len(rlog') /\ m \in 0..Len(rlog')
  OBVIOUS
<1>2. seen' = 1..n /\ replay' = n + 1..m
  OBVIOUS
<1>3. Gone => Gone'
  BY DEF Gone
<1>4. conn' = "none" /\ job' # "done" => Untouched'
  BY DEF Untouched
<1>5. /\ job' \in {"create", "register"} => conn' = "none"
      /\ job' = "create" => agent' = "none"
      /\ job' = "open" /\ conn' # "none" => prompted'
  OBVIOUS
<1>6. /\ job' = "opened" /\ ~prompted' => n = 0 /\ m = 0 /\ (since' = 1 \/ Gone')
      /\ job' \in AskPcs \cup {"loop"} => prompted' /\ (since' <= m + 1 \/ Gone')
      /\ job' \in AskPcs \cup {"opened", "loop"} => conn' # "none"
  BY <1>3
<1>7. /\ job' \in AskPcs => n > 0 /\ rlog'[n].kind = "requires_action"
      /\ job' \in {"loop", "open", "opened"} /\ n > 0 /\ rlog'[n].kind = "agent.tool_use" =>
            pend' = rlog'[n].use
      /\ job' = "complete" /\ ~crowded' => n > 0 /\ rlog'[n].kind = "end_turn"
  <2>1. CASE job' = job /\ pend' = pend
    BY <2>1
  <2>2. CASE job' # job
    <3>1. job = "register" => n = 0
      BY DEF Untouched
    <3> QED BY <2>2, <3>1
  <2>3. CASE job' = job /\ pend' # pend
    BY <2>3
  <2> QED BY <2>1, <2>2, <2>3
<1> QED BY <1>1, <1>2, <1>4, <1>5, <1>6, <1>7 DEF InOrder

\* What is handled next is the event after the last one handled.
LEMMA NextInOrder ==
    ASSUME Types, NEW n \in 0..Len(rlog), NEW m \in 0..Len(rlog), n <= m, InOrder(n, m),
           job = "loop", Pending # {}
    PROVE  /\ Current = n + 1 /\ n + 1 <= Len(rlog)
           /\ since <= m + 1 /\ replay \ {Current} = n + 2..m
<1>1. Current \in Pending /\ \A j \in Pending : Current <= j
  BY CurrentIsFirst
<1>2. seen = 1..n /\ replay = n + 1..m /\ (since <= m + 1 \/ Gone)
  BY DEF InOrder, AskPcs
<1>3. Len(rlog) \in Nat /\ since \in Nat /\ shown \in Nat /\ shown <= Len(rlog)
  BY ManagedAssumption DEF Types, ManagedTypeOK
<1>4. CASE replay # {}
  <2>1. Pending = n + 1..m /\ n < m
    BY <1>2, <1>3, <1>4 DEF Pending
  <2>2. Current = n + 1
    BY <1>1, <1>3, <2>1
  <2> QED BY <1>2, <1>3, <1>4, <2>1, <2>2 DEF Gone
<1>5. CASE replay = {}
  <2>1. Pending = (since..IF conn = "open" THEN Len(rlog) ELSE shown) \ (1..n) /\ m = n
    BY <1>2, <1>3, <1>5 DEF Pending, Queue
  <2>2. ~Gone /\ since <= n + 1
    BY <1>1, <1>2, <1>3, <2>1 DEF Gone
  <2>3. Current \in Nat /\ Current >= since /\ Current <= Len(rlog) /\ Current \notin 1..n
    BY <1>1, <1>3, <2>1
  <2>4. Current >= n + 1
    <3>1. since >= 1
      BY DEF Types, ManagedTypeOK
    <3> QED BY <1>3, <2>3, <3>1
  <2>5. n + 1 \in Pending
    BY <1>1, <1>3, <2>1, <2>2, <2>4
  <2>6. Current = n + 1
    BY <1>1, <1>3, <2>3, <2>4, <2>5
  <2> QED BY <1>3, <1>5, <2>1, <2>2, <2>3, <2>6
<1> QED BY <1>4, <1>5

LEMMA HandlingInOrder ==
    ASSUME Types, AgentInv, crowded => crowded',
           NEW n \in 0..Len(rlog), NEW m \in 0..Len(rlog), n <= m, InOrder(n, m),
           HandleTool \/ HandleRequest \/ HandleFollowUp \/ HandleEnd \/ HandleGone
    PROVE  \E l \in 0..Len(rlog') : n + 1 \in 0..Len(rlog') /\ n + 1 <= l /\ InOrder(n + 1, l)'
<1>1. PICK K \in SUBSET Kind : Handling(K)
  BY DEF HandleTool, HandleRequest, HandleFollowUp, HandleEnd, HandleGone, Kind, Idle
<1>2. /\ job = "loop" /\ Pending # {} /\ rlog[Current].kind \in K
      /\ replay' = replay \ {Current} /\ seen' = seen \cup {Current}
      /\ UNCHANGED <<prompted, conn, since>>
  BY <1>1 DEF Handling, At
<1>3. /\ Current = n + 1 /\ n + 1 <= Len(rlog)
      /\ since <= m + 1 /\ replay' = n + 2..m
  BY <1>2, NextInOrder
<1>4. rlog' = rlog /\ (agent' = agent \/ agent' = "working")
  BY DEF HandleTool, HandleRequest, HandleFollowUp, HandleEnd, HandleGone, Message, NotSent,
         agentVars
<1>5. /\ job' = "loop" => /\ rlog[n + 1].kind = "agent.tool_use" => pend' = rlog[n + 1].use
      /\ job' = "ask" => rlog[n + 1].kind = "requires_action"
      /\ job' = "complete" /\ ~crowded' => rlog[n + 1].kind = "end_turn"
      /\ job' \in {"loop", "ask", "complete", "fail", "finish"}
  <2>1. CASE HandleTool
    BY <1>2, <1>3, <2>1 DEF HandleTool
  <2>2. CASE HandleRequest
    BY <1>3, <2>2 DEF HandleRequest, MustAsk
  <2>3. CASE HandleFollowUp
    BY <1>2, <1>3, <2>3 DEF HandleFollowUp, Handling, Idle
  <2>4. CASE HandleEnd
    <3>1. job' \in {"complete", "fail"} /\ rlog[Current].kind \in Idle /\ ~MustAsk
      BY <2>4 DEF HandleEnd, Handling
    <3>2. job' = "complete" => rlog[Current].kind # "budget_reached"
      BY <2>4 DEF HandleEnd
    <3>3. ASSUME rlog[n + 1].kind = "requires_action", ~crowded PROVE MustAsk
      <4>1. n + 1 \in DOMAIN rlog
        BY <1>3 DEF Types
      <4>2. n + 1 > 1 /\ rlog[n + 1 - 1].kind = "agent.tool_use" /\ rlog[n + 1 - 1].use # NoUse
        BY <3>3, <4>1 DEF AgentInv, OneAtATime
      <4>3. n + 1 - 1 = n /\ n > 0
        BY <4>2
      <4>4. pend = rlog[n].use
        BY <1>2, <4>2, <4>3 DEF InOrder
      <4> QED BY <1>3, <3>3, <4>2, <4>3, <4>4 DEF MustAsk
    <3> QED BY <1>3, <3>1, <3>2, <3>3 DEF Idle
  <2>5. CASE HandleGone
    BY <2>5 DEF HandleGone
  <2> QED BY <2>1, <2>2, <2>3, <2>4, <2>5
<1>6. conn # "none" /\ prompted
  BY <1>2 DEF InOrder, AskPcs
<1>7. seen' = 1..n + 1
  <2>1. seen = 1..n
    BY DEF InOrder
  <2> QED BY <1>2, <1>3, <2>1
<1> DEFINE l == IF m > n THEN m ELSE n + 1
<1>8. l \in 0..Len(rlog') /\ n + 1 <= l /\ replay' = (n + 1) + 1..l /\ since' <= l + 1
      /\ n + 1 \in 0..Len(rlog')
  <2>1. since \in Nat /\ Len(rlog) \in Nat
    BY DEF Types, ManagedTypeOK
  <2> QED BY <1>2, <1>3, <1>4, <2>1
<1> HIDE DEF l
<1>9. InOrder(n + 1, l)'
  <2>1. conn' # "none" /\ prompted'
    BY <1>2, <1>6
  <2> QED BY <1>4, <1>5, <1>7, <1>8, <2>1 DEF InOrder, AskPcs
<1> QED BY <1>8, <1>9

LEMMA OrderStep == Types /\ AgentInv /\ OrderInv /\ [Next]_vars => OrderInv'
<1> SUFFICES ASSUME Types, AgentInv, OrderInv, [Next]_vars, ~blind' /\ ~early'
             PROVE  \E n \in 0..Len(rlog'), m \in 0..Len(rlog') : n <= m /\ InOrder(n, m)'
  BY DEF OrderInv
<1>1. PICK n \in 0..Len(rlog), m \in 0..Len(rlog) : n <= m /\ InOrder(n, m)
  BY FaultsStay DEF OrderInv
<1>t. Len(rlog) \in Nat /\ since \in Nat /\ DOMAIN rlog = 1..Len(rlog)
  BY DEF Types, ManagedTypeOK
<1>2. CASE Beside
  BY <1>1, <1>2, FaultsStay, BesideKeepsOrder
<1>3. CASE HandleTool \/ HandleRequest \/ HandleFollowUp \/ HandleEnd \/ HandleGone
  BY <1>1, <1>3, FaultsStay, HandlingInOrder
<1>4. CASE JobCreate
  <2>1. /\ job = "create" /\ job' = "register" /\ agent' = "idle" /\ rlog' = rlog
        /\ UNCHANGED <<seen, replay, prompted, conn>>
    BY <1>4 DEF JobCreate, At, Goto, liveVars, driveVars
  <2>2. InOrder(n, m)'
    BY <1>1, <2>1 DEF InOrder, AskPcs, Untouched
  <2> QED BY <1>1, <2>1, <2>2
<1>5. CASE JobFinally
  <2>1. seen' = {} /\ replay' = {} /\ job' = "done" /\ rlog' = rlog
    BY <1>5 DEF JobFinally, agentVars
  <2>2. InOrder(0, 0)'
    BY <2>1 DEF InOrder, AskPcs
  <2> QED BY <1>t, <2>1, <2>2
<1>6. CASE JobOpen
  <2>1. /\ job = "open" /\ job' = "opened" /\ conn' = "open" /\ since' = Len(rlog) + 1
        /\ UNCHANGED <<seen, replay, prompted, rlog, agent, pend>>
    BY <1>6 DEF JobOpen, At, Goto, liveVars, agentVars
  <2>2. prompted \/ (n = 0 /\ m = 0 /\ (since' = 1 \/ Gone'))
    <3>1. prompted \/ Untouched
      BY <1>1, <2>1 DEF InOrder
    <3>2. Untouched => n = 0 /\ m = 0
      BY <1>1 DEF InOrder, Untouched
    <3>3. Untouched => since' = 1 \/ Gone'
      BY <2>1 DEF Untouched, Gone
    <3> QED BY <3>1, <3>2, <3>3
  <2>3. n > 0 /\ rlog'[n].kind = "agent.tool_use" => pend' = rlog'[n].use
    BY <1>1, <2>1 DEF InOrder
  <2>4. InOrder(n, m)'
    BY <1>1, <2>1, <2>2, <2>3 DEF InOrder, AskPcs
  <2> QED BY <1>1, <2>1, <2>4
<1>7. CASE JobPrompt
  <2>1. /\ job = "opened" /\ ~prompted
        /\ UNCHANGED <<seen, replay, conn, since, rlog, pend>>
        /\ (job' = "loop" /\ prompted') \/ job' = "fail"
        /\ agent = "gone" => agent' = "gone"
    BY <1>7 DEF JobPrompt, At, Goto, Message, NotSent, liveVars, agentVars
  <2>2. n = 0 /\ m = 0 /\ (since = 1 \/ Gone) /\ conn # "none"
    BY <1>1, <2>1 DEF InOrder
  <2>3. Gone => Gone'
    BY <2>1 DEF Gone
  <2>4. InOrder(n, m)'
    BY <1>1, <2>1, <2>2, <2>3 DEF InOrder, AskPcs
  <2> QED BY <1>1, <2>1, <2>4
<1>8. CASE JobReplay
  <2>1. /\ job = "opened" /\ prompted /\ job' = "loop"
        /\ replay' = Missed /\ 1..since - 1 \subseteq seen \cup 1..PageSize
        /\ UNCHANGED <<seen, prompted, conn, since, rlog, pend>>
    BY <1>8 DEF JobReplay, At, Goto, liveVars, agentVars
  <2>2. PageSize \in Nat /\ seen = 1..n
    BY <1>1, ManagedAssumption DEF InOrder
\* The page ends before the log, or reaches to its end.
  <2>3. PICK l \in 0..Len(rlog) : n <= l /\ replay' = n + 1..l /\ since <= l + 1
    <3> DEFINE k == IF PageSize <= n THEN n
                    ELSE IF PageSize < Len(rlog) THEN PageSize ELSE Len(rlog)
    <3>1. k \in 0..Len(rlog) /\ n <= k
      BY <1>1, <1>t, <2>2
    <3>2. replay' = n + 1..k
      BY <1>1, <1>t, <2>1, <2>2 DEF Missed
    <3>3. since <= k + 1
      <4>1. CASE since <= n + 1
        BY <1>t, <3>1, <4>1
      <4>2. CASE since > n + 1
        <5>1. since - 1 \in 1..since - 1 /\ since - 1 \notin seen
          BY <1>1, <1>t, <2>2, <4>2
        <5>2. since - 1 <= PageSize
          BY <1>t, <2>1, <2>2, <5>1
        <5>3. since <= Len(rlog) + 1
          BY DEF Types
        <5> QED BY <1>1, <1>t, <2>2, <4>2, <5>2, <5>3
      <4> QED BY <1>1, <1>t, <4>1, <4>2
    <3> HIDE DEF k
    <3> QED BY <3>1, <3>2, <3>3
  <2>6. InOrder(n, l)'
    <3>1. conn' # "none" /\ prompted'
      BY <1>1, <2>1 DEF InOrder
    <3>2. n > 0 /\ rlog'[n].kind = "agent.tool_use" => pend' = rlog'[n].use
      BY <1>1, <2>1 DEF InOrder
    <3> QED BY <2>1, <2>2, <2>3, <3>1, <3>2 DEF InOrder, AskPcs
  <2>7. n \in 0..Len(rlog') /\ l \in 0..Len(rlog')
    BY <1>1, <2>1, <2>3
  <2> QED BY <2>3, <2>6, <2>7
<1>9. CASE AgentStep
  <2>1. /\ UNCHANGED <<job, pend, seen, replay, prompted, conn, since>>
        /\ Len(rlog') = Len(rlog) + 1 /\ \A i \in DOMAIN rlog : rlog'[i] = rlog[i]
    BY <1>9, AgentAppends DEF AgentOnly, jobVars, liveVars, driveVars
  <2>2. agent \notin {"none", "gone"} /\ (agent = "idle" => agent' = "gone")
    BY <1>9 DEF AgentStep, AgentAsks, AgentResult, AgentEnds, AgentGone, AgentUses
  <2>3. n \in 0..Len(rlog') /\ m \in 0..Len(rlog') /\ (n > 0 => rlog'[n] = rlog[n])
    BY <1>1, <1>t, <2>1
  <2>4. ~Gone /\ (Untouched => Untouched')
    BY <2>1, <2>2 DEF Gone, Untouched
  <2>5. InOrder(n, m)'
    BY <1>1, <2>1, <2>2, <2>3, <2>4, FaultsStay DEF InOrder
  <2> QED BY <1>1, <2>3, <2>5
<1> QED BY <1>2, <1>3, <1>4, <1>5, <1>6, <1>7, <1>8, <1>9, StepsBeside

LEMMA OrderInvariant == Spec => [](SessionInv /\ OrderInv)
<1>1. Init => OrderInv
  <2> SUFFICES ASSUME Init PROVE OrderInv
    OBVIOUS
  <2>1. Untouched /\ Len(rlog) = 0 /\ conn = "none" /\ job = "create" /\ agent = "none"
    BY DEF Init, Untouched
  <2>2. seen = 1..0 /\ replay = 0 + 1..0
    BY <2>1 DEF Untouched
  <2>3. InOrder(0, 0)
    BY <2>1, <2>2 DEF InOrder, AskPcs
  <2> QED BY <2>1, <2>3 DEF OrderInv
<1>2. SessionInv /\ OrderInv /\ [Next]_vars => OrderInv'
  BY OrderStep DEF SessionInv
<1> QED BY <1>1, <1>2, SessionInvariant, PTL DEF Spec

LEMMA CountUpTo == \A n \in Nat : Cardinality(1..n) = n
<1> TAKE n \in Nat
<1>1. Cardinality(1..n) = IF 1 > n THEN 0 ELSE n - 1 + 1
  BY FS_Interval
<1> QED BY <1>1

\* Over all drops and reconnects the events are handled in the order they were
\* emitted, leaving none out, as long as no listing has failed or was cut off by
\* its first page and no reply has woken the agent before the first stream
\* (_history and the seen ids).
THEOREM EventsInOrder == Spec => []NoEventSkipped
<1>1. Types /\ OrderInv => NoEventSkipped
  <2> SUFFICES ASSUME Types, OrderInv, ~blind /\ ~early PROVE seen = 1..Cardinality(seen)
    BY DEF NoEventSkipped
  <2>1. PICK n \in 0..Len(rlog) : seen = 1..n
    BY DEF OrderInv, InOrder
  <2>2. n \in Nat
    BY DEF Types
  <2> QED BY <2>1, <2>2, CountUpTo
<1> QED BY <1>1, OrderInvariant, PTL DEF SessionInv

\* A request for a tool is never taken for the end of the turn: the task is
\* completed on an idle event that is no request, unless events were missed or
\* the agent had several tool uses open at once (the one pending_tool).
THEOREM RequestNeverEnds == Spec => []RequestIsNotTheEnd
<1>1. Types /\ OrderInv => RequestIsNotTheEnd
  <2> SUFFICES ASSUME Types, OrderInv, job = "complete", ~blind /\ ~early /\ ~crowded
               PROVE  rlog[Cardinality(seen)].kind = "end_turn"
    BY DEF RequestIsNotTheEnd
  <2>1. PICK n \in 0..Len(rlog) : seen = 1..n /\ rlog[n].kind = "end_turn"
    BY DEF OrderInv, InOrder
  <2>2. n \in Nat
    BY DEF Types
  <2> QED BY <2>1, <2>2, CountUpTo
<1> QED BY <1>1, OrderInvariant, PTL DEF SessionInv

=============================================================================
