---------------------------- MODULE Tools_proofs ----------------------------
(***************************************************************************)
(* Proofs about the tool calls of a turn: how a batch of them runs         *)
(* (ToolBatch), for every number of calls and messages, and which of them  *)
(* the request was forced to make (ToolChoice), for every number of        *)
(* prompts, turns, forced choices, previews, aborts and faults.  The two   *)
(* parts have nothing in common but the library.                           *)
(***************************************************************************)
EXTENDS ToolBatch, ToolChoice, FiniteSetTheorems, SequenceTheorems, WellFoundedInduction, TLAPS

(***************************************************************************)
(* Part 1.  The batch.                                                     *)
(***************************************************************************)
\* A non-empty set of call numbers has a largest member.
LEMMA MaxExists ==
    ASSUME NEW n \in Nat, NEW S \in SUBSET (1..n), S # {}
    PROVE  \E k \in S : \A m \in S : m <= k
<1> DEFINE T == {n - k : k \in S}
<1>1. \A k \in S : k \in Nat /\ n - k \in Nat
  OBVIOUS
<1>2. T \subseteq Nat /\ T # {}
  BY <1>1
<1>3. PICK x \in T : \A y \in T : ~ (<<y, x>> \in OpToRel(<, Nat))
  BY <1>2, WFMin, NatLessThanWellFounded, Zenon
<1>4. \A y \in T : ~(y < x)
  BY <1>2, <1>3 DEF OpToRel
<1>5. PICK k \in S : x = n - k
  OBVIOUS
<1>6. ASSUME NEW m \in S PROVE m <= k
  <2>1. ~(n - m < n - k)
    BY <1>4, <1>5
  <2>2. QED BY <2>1, <1>1
<1>7. QED BY <1>6
-----------------------------------------------------------------------------
\* The list a look at the queue takes and the list it leaves are lists of
\* messages (Agent.#dequeueSteeringMessages).
LEMMA DequeueType ==
    ASSUME steeringQueue \in Seq(Messages)
    PROVE  /\ Dequeued \in Seq(Messages)
           /\ QueueAfterDequeue \in Seq(Messages)
<1>1. CASE steeringQueue = << >>
  BY <1>1, EmptySeq DEF Dequeued, QueueAfterDequeue
<1>2. CASE steeringQueue # << >>
  <2>1. Head(steeringQueue) \in Messages /\ Tail(steeringQueue) \in Seq(Messages)
    BY <1>2, HeadTailProperties
  <2>2. <<Head(steeringQueue)>> \in Seq(Messages)
    BY <2>1
  <2>3. QED BY <2>1, <2>2, EmptySeq DEF Dequeued, QueueAfterDequeue
<1>3. QED BY <1>1, <1>2

\* The contents of a list of messages are messages.
LEMMA ToSetType ==
    ASSUME NEW S, NEW s \in Seq(S)
    PROVE  ToSet(s) \in SUBSET S
BY DEF ToSet

LEMMA TypeInit == Init => TypeOK
<1> SUFFICES ASSUME Init PROVE TypeOK
  OBVIOUS
<1> USE DEF Init
<1>1. /\ steeringMessages \in Seq(Messages)
      /\ steeringQueue \in Seq(Messages)
      /\ fetched \in [Calls -> Seq(Messages)]
      /\ emitted \in Seq(Calls)
  BY EmptySeq
<1>2. nextMessage \in 1..(MaxSteer + 1)
  BY MaxSteerAssumption
<1>3. QED BY <1>1, <1>2 DEF TypeOK, States

\* Each way out of checkSteering keeps the types of what it touches.
LEMMA TypeCheckSteering ==
    ASSUME TypeOK, NEW i \in Calls, CheckSteering(i)
    PROVE  /\ pc' \in [Calls -> States]
           /\ pc' \in {[pc EXCEPT ![i] = s] : s \in {"settled", "joined", "checking"}}
           /\ steeringCheck' \in Calls \cup {None}
           /\ awaiting' \in [Calls -> Calls \cup {None}]
           /\ fetched' \in [Calls -> Seq(Messages)]
           /\ steeringQueue' \in Seq(Messages)
<1> USE DEF TypeOK, States
<1>1. CASE /\ pc' = [pc EXCEPT ![i] = "settled"]
           /\ UNCHANGED <<steeringCheck, awaiting, fetched, steeringQueue>>
  BY <1>1
<1>2. CASE /\ steeringCheck # None
           /\ pc' = [pc EXCEPT ![i] = "joined"]
           /\ awaiting' = [awaiting EXCEPT ![i] = steeringCheck]
           /\ UNCHANGED <<steeringCheck, fetched, steeringQueue>>
  BY <1>2
<1>3. CASE /\ pc' = [pc EXCEPT ![i] = "checking"]
           /\ steeringCheck' = i
           /\ fetched' = [fetched EXCEPT ![i] = Dequeued]
           /\ steeringQueue' = QueueAfterDequeue
           /\ UNCHANGED awaiting
  <2>1. Dequeued \in Seq(Messages) /\ QueueAfterDequeue \in Seq(Messages)
    BY DequeueType
  <2>2. fetched' \in [Calls -> Seq(Messages)] /\ steeringQueue' \in Seq(Messages)
    BY <1>3, <2>1
  <2>3. pc' \in [Calls -> States]
    BY <1>3
  <2>4. QED BY <1>3, <2>2, <2>3
<1>4. QED BY <1>1, <1>2, <1>3 DEF CheckSteering

LEMMA TypeFinish ==
    ASSUME TypeOK, NEW i \in Calls, Finish(i)
    PROVE  TypeOK'
<1> USE DEF TypeOK, States
<1>1. /\ result' \in [Calls -> {"none", "executed", "skipped"}]
      /\ emitted' \in Seq(Calls)
  <2>1. Append(emitted, i) \in Seq(Calls)
    BY AppendProperties
  <2>2. Outcome \in {"none", "executed", "skipped"}
    BY DEF Outcome
  <2>3. Emit(i, Outcome)
    BY DEF Finish
  <2>4. CASE result[i] = "none"
    BY <2>1, <2>2, <2>3, <2>4 DEF Emit
  <2>5. CASE result[i] # "none"
    BY <2>3, <2>5 DEF Emit
  <2>6. QED BY <2>4, <2>5
<1>2. CheckSteering(i)
  BY DEF Finish
<1>3. /\ pc' \in [Calls -> States]
      /\ steeringCheck' \in Calls \cup {None}
      /\ awaiting' \in [Calls -> Calls \cup {None}]
      /\ fetched' \in [Calls -> Seq(Messages)]
      /\ steeringQueue' \in Seq(Messages)
  BY <1>2, TypeCheckSteering
<1>4. QED
  BY <1>1, <1>2, <1>3 DEF Finish, settings

LEMMA TypeReturn ==
    ASSUME TypeOK, Return
    PROVE  TypeOK'
<1> USE DEF TypeOK, States
<1>1. Unanswered \subseteq Calls
  BY DEF Unanswered
<1>2. IsFiniteSet(Calls)
  BY NumCallsAssumption, FS_Interval DEF Calls
<1>3. Cardinality(Unanswered) \in Nat
  BY <1>1, <1>2, FS_Subset, FS_CardinalityType
<1>4. PICK swept \in [1..Cardinality(Unanswered) -> Unanswered] : emitted' = emitted \o swept
  BY DEF Return
<1>5. swept \in Seq(Calls)
  <2>1. PICK n \in Nat : n = Cardinality(Unanswered)
    BY <1>3
  <2>2. swept \in [1..n -> Calls]
    BY <1>1, <1>4, <2>1
  <2>3. QED BY <2>2
<1>6. emitted' \in Seq(Calls)
  BY <1>4, <1>5, ConcatProperties
<1>7. result' \in [Calls -> {"none", "executed", "skipped"}]
  BY DEF Return
<1>8. QED
  BY <1>6, <1>7 DEF Return, settings, checkVars, userVars

\* Every reachable state is well typed, however many calls the turn has and
\* however many messages the user queues.
THEOREM TypeCorrect == Spec => []TypeOK
<1>1. TypeOK /\ [Next]_vars => TypeOK'
  <2> SUFFICES ASSUME TypeOK, [Next]_vars PROVE TypeOK'
    OBVIOUS
  <2> USE DEF TypeOK, States
  <2>1. ASSUME NEW i \in Calls, Start(i) PROVE TypeOK'
    BY <2>1 DEF Start, StateOnTurn, settings, checkVars, userVars
  <2>2. ASSUME NEW i \in Calls, CheckDone(i) PROVE TypeOK'
    <3>1. /\ pc' = [pc EXCEPT ![i] = "settled"]
          /\ steeringCheck' = None
          /\ fetched' = [fetched EXCEPT ![i] = << >>]
          /\ UNCHANGED <<conc, interruptMode, steeringMode>>
          /\ UNCHANGED <<result, emitted, returned, awaiting>>
          /\ UNCHANGED <<steeringQueue, nextMessage, withdrawn, userAborted>>
      BY <2>2 DEF CheckDone, settings, userVars
    <3>2. pc' \in [Calls -> States]
      BY <3>1
    <3>3. fetched' \in [Calls -> Seq(Messages)]
      BY <3>1, EmptySeq
    <3>4. steeringMessages' \in Seq(Messages) /\ triggered' \in BOOLEAN
      <4>1. CASE fetched[i] # << >>
        BY <2>2, <4>1 DEF CheckDone
      <4>2. CASE fetched[i] = << >>
        BY <2>2, <4>2 DEF CheckDone
      <4>3. QED BY <4>1, <4>2
    <3>5. QED
      BY <3>1, <3>2, <3>3, <3>4
  <2>3. ASSUME NEW i \in Calls, JoinDone(i) PROVE TypeOK'
    BY <2>3 DEF JoinDone, settings, userVars
  <2>4. CASE Steer
    <3>1. nextMessage \in Messages /\ nextMessage + 1 \in 1..(MaxSteer + 1)
      BY <2>4, MaxSteerAssumption DEF Steer, Messages
    <3>2. steeringQueue' \in Seq(Messages)
      BY <2>4, <3>1, AppendProperties DEF Steer
    <3>3. QED BY <2>4, <3>1, <3>2 DEF Steer, settings, taskVars, checkVars
  <2>5. CASE PopLastSteer
    <3>1. Len(steeringQueue) \in Nat /\ Len(steeringQueue) # 0
      BY <2>5, EmptySeq, LenProperties DEF PopLastSteer
    <3>2. Last(steeringQueue) \in Messages
      BY <3>1, ElementOfSeq DEF Last
    <3>3. Front(steeringQueue) \in Seq(Messages)
      BY <3>1, ElementOfSeq, SubSeqProperties DEF Front
    <3>4. QED BY <2>5, <3>2, <3>3 DEF PopLastSteer, settings, taskVars, checkVars
  <2>6. CASE ClearSteeringQueue
    <3>1. steeringQueue' \in Seq(Messages)
      BY <2>6, EmptySeq DEF ClearSteeringQueue
    <3>2. withdrawn' \in SUBSET Messages
      BY <2>6, ToSetType DEF ClearSteeringQueue
    <3>3. QED BY <2>6, <3>1, <3>2 DEF ClearSteeringQueue, settings, taskVars, checkVars
  <2>7. CASE Abort
    BY <2>7 DEF Abort, settings, taskVars, checkVars
  <2>8. CASE UNCHANGED vars
    BY <2>8 DEF vars, settings, taskVars, checkVars, userVars
  <2>9. QED
    BY <2>1, <2>2, <2>3, <2>4, <2>5, <2>6, <2>7, <2>8, TypeFinish, TypeReturn DEF Next, Done
<1>2. QED BY TypeInit, <1>1, PTL DEF Spec
-----------------------------------------------------------------------------
(***************************************************************************)
(* The inductive invariant behind the exclusive calls: a call that has     *)
(* begun has every conflicting call before it behind it.  The promise      *)
(* chain only names the nearest ones (Preds); the rest follows by going    *)
(* through the last exclusive call between the two.                        *)
(***************************************************************************)
ChainInv ==
    \A i, j \in Calls :
        i < j /\ Conflict(i, j) /\ pc[j] # "waiting" => pc[i] = "settled"

\* When all a call is chained behind has settled, so has every conflicting
\* call before it: the chain loses no ordering.
LEMMA ChainSuffices ==
    ASSUME TypeOK, ChainInv, NEW j \in Calls,
           \A p \in Preds(j) : pc[p] = "settled",
           NEW i \in Calls, i < j, Conflict(i, j)
    PROVE  pc[i] = "settled"
<1> DEFINE Between == {k \in i..(j - 1) : conc[k] = "exclusive" \/ k = i}
<1>1. Between \in SUBSET (1..NumCalls) /\ Between # {}
  BY NumCallsAssumption DEF Calls
<1>2. PICK k \in Between : \A m \in Between : m <= k
  BY <1>1, MaxExists, NumCallsAssumption
<1>3. k \in Calls /\ i <= k /\ k < j
  BY NumCallsAssumption DEF Calls
<1>4. \A m \in (k + 1)..(j - 1) : conc[m] = "shared"
  BY <1>2, <1>3, NumCallsAssumption DEF TypeOK, Calls
<1>5. CASE k = i
  <2>1. i \in Preds(j)
    BY <1>4, <1>5, NumCallsAssumption DEF Preds, Calls, Conflict
  <2>2. QED BY <2>1
<1>6. CASE k # i
  <2>1. conc[k] = "exclusive"
    BY <1>6
  <2>2. k \in Preds(j)
    BY <1>3, <1>4, <2>1, NumCallsAssumption DEF Preds, Calls, Conflict
  <2>3. pc[k] # "waiting" /\ i < k /\ Conflict(i, k)
    BY <1>3, <1>6, <2>1, <2>2, NumCallsAssumption DEF Conflict, Calls
  <2>4. QED BY <1>3, <2>3 DEF ChainInv
<1>7. QED BY <1>5, <1>6

\* No step but Start lets a call begin, and none takes a call back.
LEMMA ChainStep ==
    ASSUME TypeOK, ChainInv, [Next]_vars
    PROVE  ChainInv'
<1> USE DEF ChainInv, Conflict, TypeOK
<1>1. ASSUME NEW c \in Calls, Start(c) PROVE ChainInv'
  <2> SUFFICES ASSUME NEW i \in Calls, NEW j \in Calls,
                      (i < j /\ Conflict(i, j) /\ pc[j] # "waiting")'
               PROVE  pc'[i] = "settled"
    OBVIOUS
  <2>1. pc[i] = "settled"
    <3>1. CASE j = c
      BY <1>1, <3>1, ChainSuffices DEF Start, settings
    <3>2. CASE j # c
      BY <1>1, <3>2 DEF Start, settings
    <3>3. QED BY <3>1, <3>2
  <2>2. QED BY <1>1, <2>1 DEF Start
<1>2. ASSUME NEW c \in Calls, Finish(c) PROVE ChainInv'
  BY <1>2 DEF Finish, CheckSteering, settings
<1>3. ASSUME NEW c \in Calls, CheckDone(c) PROVE ChainInv'
  BY <1>3 DEF CheckDone, settings
<1>4. ASSUME NEW c \in Calls, JoinDone(c) PROVE ChainInv'
  BY <1>4 DEF JoinDone, settings
<1>5. CASE UNCHANGED <<conc, pc>>
  BY <1>5
<1>6. QED
  BY <1>1, <1>2, <1>3, <1>4, <1>5
  DEF Next, Return, Steer, PopLastSteer, ClearSteeringQueue, Abort, Done, vars,
      settings, taskVars

\* The invariant of the promise chain holds throughout.
THEOREM ChainCorrect == Spec => []ChainInv
<1>1. Init => ChainInv
  BY DEF Init, ChainInv
<1>2. TypeOK /\ ChainInv /\ [Next]_vars => ChainInv'
  BY ChainStep
<1>3. QED BY <1>1, <1>2, TypeCorrect, PTL DEF Spec

\* An exclusive tool runs alone in every batch, whatever its size and order:
\* what AgentTool.concurrency promises of executeToolCalls.
THEOREM ExclusiveCorrect == Spec => []ExclusiveRunsAlone
<1>1. TypeOK /\ ChainInv => ExclusiveRunsAlone
  <2> SUFFICES ASSUME TypeOK, ChainInv, NEW i \in Calls, NEW j \in Calls,
                      i # j, conc[i] = "exclusive", InFlight(i), InFlight(j)
               PROVE  FALSE
    BY DEF ExclusiveRunsAlone
  <2>1. i < j \/ j < i
    BY NumCallsAssumption DEF Calls
  <2>2. Conflict(i, j) /\ Conflict(j, i)
    BY DEF Conflict
  <2>3. QED BY <2>1, <2>2 DEF ChainInv, InFlight
<1>2. QED BY <1>1, TypeCorrect, ChainCorrect, PTL
-----------------------------------------------------------------------------
(***************************************************************************)
(* The batch implements the abstract schedule.  Besides the chain, the     *)
(* mapping needs to know when a call has its result.                       *)
(***************************************************************************)
AnswerInv ==
    \A i \in Calls :
        /\ pc[i] \in {"waiting", "running"} => result[i] = "none"
        /\ pc[i] \in {"checking", "joined"} => result[i] # "none"
        /\ pc[i] = "settled" /\ result[i] = "none" => triggered

\* A call is answered while it runs, never before, and only an interrupted
\* batch lets a call settle without an answer.
LEMMA AnswerStep ==
    ASSUME TypeOK, AnswerInv, [Next]_vars
    PROVE  AnswerInv'
<1> USE DEF AnswerInv, TypeOK, States
<1>1. ASSUME NEW c \in Calls, Start(c) PROVE AnswerInv'
  BY <1>1 DEF Start, StateOnTurn, checkVars
<1>2. ASSUME NEW c \in Calls, Finish(c) PROVE AnswerInv'
  <2>1. result' = [result EXCEPT ![c] = Outcome] /\ Outcome # "none"
    BY <1>2 DEF Finish, Emit, Outcome
  <2>2. \A i \in Calls : i # c => pc'[i] = pc[i] /\ result'[i] = result[i]
    BY <1>2, <2>1 DEF Finish, CheckSteering
  <2>3. pc'[c] \in {"settled", "joined", "checking"} /\ result'[c] # "none"
    BY <1>2, <2>1 DEF Finish, CheckSteering
  <2>4. triggered' = triggered
    BY <1>2 DEF Finish
  <2>5. QED BY <2>2, <2>3, <2>4
<1>3. ASSUME NEW c \in Calls, CheckDone(c) PROVE AnswerInv'
  BY <1>3 DEF CheckDone
<1>4. ASSUME NEW c \in Calls, JoinDone(c) PROVE AnswerInv'
  BY <1>4 DEF JoinDone
<1>5. CASE Return
  BY <1>5 DEF Return, Unanswered, checkVars
<1>6. CASE UNCHANGED <<pc, result, triggered>>
  BY <1>6
<1>7. QED
  BY <1>1, <1>2, <1>3, <1>4, <1>5, <1>6
  DEF Next, Steer, PopLastSteer, ClearSteeringQueue, Abort, Done, vars, taskVars, checkVars

\* Every step of the batch is a step of the schedule, or invisible to it.
LEMMA ScheduleStep ==
    ASSUME TypeOK, ChainInv, AnswerInv, [Next]_vars
    PROVE  [Schedule!Next]_Schedule!vars
<1> DEFINE phase == [i \in Calls |-> IF pc[i] = "waiting" THEN "pending"
                                     ELSE IF pc[i] = "settled" THEN "finished" ELSE "active"]
<1> USE DEF TypeOK, States, Schedule!vars, Schedule!Next, Schedule!Calls, Calls
<1>1. ASSUME NEW c \in Calls, Start(c) PROVE Schedule!Begin(c) \/ Schedule!Drop(c)
  <2>1. \A i \in Calls : i < c /\ Conflict(c, i) => pc[i] = "settled"
    BY <1>1, ChainSuffices DEF Start, Conflict
  <2>2. Schedule!MayGo(c)
    BY <1>1, <2>1 DEF Start, Schedule!MayGo, Schedule!Conflict, Conflict
  <2>3. UNCHANGED <<conc, result, triggered>>
    BY <1>1 DEF Start, settings, checkVars
  <2>4. CASE triggered
    <3>1. phase' = [phase EXCEPT ![c] = "finished"]
      BY <1>1, <2>4 DEF Start, StateOnTurn
    <3>2. QED BY <2>2, <2>3, <2>4, <3>1 DEF Schedule!Drop
  <2>5. CASE ~triggered
    <3>1. phase' = [phase EXCEPT ![c] = "active"]
      BY <1>1, <2>5 DEF Start, StateOnTurn
    <3>2. QED BY <2>2, <2>3, <2>5, <3>1 DEF Schedule!Begin
  <2>6. QED BY <2>4, <2>5
<1>2. ASSUME NEW c \in Calls, Finish(c) PROVE Schedule!Answer(c)
  <2>1. result[c] = "none" /\ result' = [result EXCEPT ![c] = Outcome]
    BY <1>2 DEF Finish, Emit, AnswerInv
  <2>2. phase[c] = "active" /\ UNCHANGED <<conc, triggered>>
    BY <1>2 DEF Finish, settings
  <2>3. phase' \in {phase, [phase EXCEPT ![c] = "finished"]}
    <3>1. CheckSteering(c)
      BY <1>2 DEF Finish
    <3>2. PICK s \in {"settled", "joined", "checking"} : pc' = [pc EXCEPT ![c] = s]
      BY <3>1, TypeCheckSteering
    <3>3. CASE s = "settled"
      BY <3>2, <3>3
    <3>4. CASE s # "settled"
      BY <1>2, <3>2, <3>4 DEF Finish
    <3>5. QED BY <3>3, <3>4
  <2>4. QED BY <2>1, <2>2, <2>3 DEF Outcome, Schedule!Answer
<1>3. ASSUME NEW c \in Calls, CheckDone(c) \/ JoinDone(c) PROVE Schedule!Finish(c)
  <2>1. pc[c] \in {"checking", "joined"} /\ pc' = [pc EXCEPT ![c] = "settled"]
    BY <1>3 DEF CheckDone, JoinDone
  <2>2. phase[c] = "active" /\ phase' = [phase EXCEPT ![c] = "finished"]
    BY <2>1
  <2>3. result[c] # "none"
    BY <2>1 DEF AnswerInv
  <2>4. UNCHANGED <<conc, result>> /\ triggered' \in {triggered, TRUE}
    BY <1>3 DEF CheckDone, JoinDone, settings
  <2>5. QED BY <2>2, <2>3, <2>4 DEF Schedule!Finish
<1>4. ASSUME Return PROVE Schedule!Close
  <2>1. \A i \in Calls : phase[i] = "finished"
    BY <1>4 DEF Return
  <2>2. \A i \in Calls : result[i] = "none" => triggered
    BY <1>4 DEF Return, AnswerInv
  <2>3. result' = [i \in Calls |-> IF result[i] = "none" THEN "skipped" ELSE result[i]]
    BY <1>4 DEF Return, Unanswered
  <2>4. UNCHANGED <<conc, pc, triggered>>
    BY <1>4 DEF Return, settings, checkVars
  <2>5. QED BY <2>1, <2>2, <2>3, <2>4 DEF Schedule!Close
<1>5. CASE UNCHANGED <<conc, pc, result, triggered>>
  BY <1>5
<1>6. QED
  BY <1>1, <1>2, <1>3, <1>4, <1>5
  DEF Next, Steer, PopLastSteer, ClearSteeringQueue, Abort, Done, vars,
      settings, taskVars, checkVars

\* executeToolCalls keeps the promises of ToolSchedule: exclusive calls alone,
\* conflicting calls in order, one answer each, nothing begun after an
\* interruption.
THEOREM ScheduleImplemented == Spec => ScheduleSpec
<1>1. Init => Schedule!Init
  BY DEF Init, Schedule!Init, Schedule!Calls, Calls
<1>2. Init => AnswerInv
  BY DEF Init, AnswerInv
<1>3. TypeOK /\ AnswerInv /\ [Next]_vars => AnswerInv'
  BY AnswerStep
<1>4. TypeOK /\ ChainInv /\ AnswerInv /\ [Next]_vars => [Schedule!Next]_Schedule!vars
  BY ScheduleStep
<1>5. QED
  BY <1>1, <1>2, <1>3, <1>4, TypeCorrect, ChainCorrect, PTL
  DEF Spec, ScheduleSpec, Schedule!Spec
-----------------------------------------------------------------------------
(***************************************************************************)
(* One result per call.  A result that is emitted is the first of its call *)
(* (Finish), and the sweep is a bijection onto the calls without one.      *)
(***************************************************************************)
\* The members of two lists put together, and when no member is repeated.
LEMMA ConcatContents ==
    ASSUME NEW S, NEW s \in Seq(S), NEW t \in Seq(S)
    PROVE  /\ ToSet(s \o t) = ToSet(s) \cup ToSet(t)
           /\ IsInjective(s) /\ IsInjective(t) /\ ToSet(s) \cap ToSet(t) = {}
                => IsInjective(s \o t)
<1> PICK u : u = s \o t
  OBVIOUS
<1>1. /\ u \in Seq(S)
      /\ Len(u) = Len(s) + Len(t)
      /\ \A i \in 1..(Len(s) + Len(t)) : u[i] = IF i <= Len(s) THEN s[i] ELSE t[i - Len(s)]
  BY ConcatProperties
<1>2. Len(s) \in Nat /\ Len(t) \in Nat
  OBVIOUS
<1>3. DOMAIN s = 1..Len(s) /\ DOMAIN t = 1..Len(t) /\ DOMAIN u = 1..(Len(s) + Len(t))
  BY <1>1
<1>4. /\ \A i \in 1..Len(s) : u[i] = s[i]
      /\ \A i \in 1..Len(t) : u[Len(s) + i] = t[i]
  BY <1>1, <1>2
<1>5. \A i \in DOMAIN u : i \in DOMAIN s \/ (i > Len(s) /\ i - Len(s) \in DOMAIN t)
  BY <1>2, <1>3
<1>6. ToSet(u) = ToSet(s) \cup ToSet(t)
  <2>1. ToSet(u) \subseteq ToSet(s) \cup ToSet(t)
    BY <1>1, <1>2, <1>3, <1>5 DEF ToSet
  <2>2. ToSet(s) \subseteq ToSet(u)
    BY <1>2, <1>3, <1>4 DEF ToSet
  <2>3. \A i \in DOMAIN t : Len(s) + i \in DOMAIN u /\ u[Len(s) + i] = t[i]
    BY <1>2, <1>3, <1>4
  <2>4. ToSet(t) \subseteq ToSet(u)
    BY <2>3 DEF ToSet
  <2>5. QED BY <2>1, <2>2, <2>4
<1>7. ASSUME IsInjective(s), IsInjective(t), ToSet(s) \cap ToSet(t) = {}
      PROVE  IsInjective(u)
  <2> SUFFICES ASSUME NEW a \in DOMAIN u, NEW b \in DOMAIN u, u[a] = u[b]
               PROVE  a = b
    BY DEF IsInjective
  <2>1. \A i \in DOMAIN s, j \in DOMAIN t : s[i] # t[j]
    BY <1>7 DEF ToSet
  <2>2. QED BY <1>1, <1>2, <1>3, <1>5, <1>7, <2>1 DEF IsInjective
<1>8. QED BY <1>6, <1>7

\* A strictly increasing list of as many members as a finite set of numbers
\* has, all taken from it, has each of them once.
LEMMA SweepIsComplete ==
    ASSUME NEW S \in SUBSET Calls,
           NEW f \in [1..Cardinality(S) -> S],
           \A p, q \in DOMAIN f : p < q => f[p] < f[q]
    PROVE  f \in Seq(Calls) /\ IsInjective(f) /\ ToSet(f) = S
<1>1. IsFiniteSet(S) /\ Cardinality(S) \in Nat
  <2>1. IsFiniteSet(Calls)
    BY NumCallsAssumption, FS_Interval DEF Calls
  <2>2. QED BY <2>1, FS_Subset, FS_CardinalityType
<1>2. PICK n \in Nat : n = Cardinality(S)
  BY <1>1
<1>3. f \in [1..n -> S]
  BY <1>2
<1>4. f \in Seq(Calls)
  BY <1>3
<1>5. IsInjective(f)
  <2> SUFFICES ASSUME NEW a \in DOMAIN f, NEW b \in DOMAIN f, a # b
               PROVE  f[a] # f[b]
    BY DEF IsInjective
  <2>1. a \in Int /\ b \in Int /\ (a < b \/ b < a)
    BY <1>3
  <2>2. f[a] \in Calls /\ f[b] \in Calls
    BY <1>3
  <2>3. \A i \in Calls : i \in Int
    BY NumCallsAssumption DEF Calls
  <2>4. QED BY <2>1, <2>2, <2>3
<1>6. f \in Injection(1..n, S)
  BY <1>3, <1>5 DEF Injection
<1>7. Cardinality(1..n) = Cardinality(S)
  BY <1>2, FS_Interval
<1>8. f \in Surjection(1..n, S)
  BY <1>1, <1>6, <1>7, FS_Injection
<1>9. ToSet(f) = S
  BY <1>3, <1>8 DEF Surjection, ToSet
<1>10. QED BY <1>4, <1>5, <1>9

\* A result of a call is the first one it gets, whoever gives it.
LEMMA ResultsStep ==
    ASSUME TypeOK, OneResultPerCall, [Next]_vars
    PROVE  OneResultPerCall'
<1> USE DEF OneResultPerCall
<1>1. ASSUME NEW c \in Calls, Finish(c) PROVE OneResultPerCall'
  <2>1. Emit(c, Outcome) /\ Outcome # "none" /\ returned' = returned
    BY <1>1 DEF Finish, Outcome
  <2>2. CASE result[c] # "none"
    BY <2>1, <2>2 DEF Emit
  <2>3. CASE result[c] = "none"
    <3>1. emitted' = Append(emitted, c) /\ result' = [result EXCEPT ![c] = Outcome]
      BY <2>1, <2>3 DEF Emit
    <3>2. <<c>> \in Seq(Calls) /\ IsInjective(<<c>>) /\ ToSet(<<c>>) = {c}
      BY DEF IsInjective, ToSet
    <3>3. emitted' = emitted \o <<c>>
      BY <3>1, AppendIsConcat DEF TypeOK
    <3>4. c \notin ToSet(emitted)
      BY <2>3
    <3>5. ToSet(emitted') = ToSet(emitted) \cup {c} /\ IsInjective(emitted')
      <4>1. emitted \in Seq(Calls)
        BY DEF TypeOK
      <4>2. ToSet(emitted) \cap ToSet(<<c>>) = {}
        BY <3>2, <3>4
      <4>3. /\ IsInjective(emitted \o <<c>>)
            /\ ToSet(emitted \o <<c>>) = ToSet(emitted) \cup ToSet(<<c>>)
        <5>1. PICK last : last = <<c>>
          OBVIOUS
        <5>2. /\ last \in Seq(Calls) /\ IsInjective(last) /\ IsInjective(emitted)
              /\ ToSet(emitted) \cap ToSet(last) = {}
          BY <3>2, <4>2, <5>1
        <5>3. /\ IsInjective(emitted \o last)
              /\ ToSet(emitted \o last) = ToSet(emitted) \cup ToSet(last)
          BY ONLY <4>1, <5>2, ConcatContents
        <5>4. QED BY ONLY <5>1, <5>3
      <4>4. QED BY <3>2, <3>3, <4>3
    <3>6. \A i \in Calls : result'[i] # "none" <=> i = c \/ result[i] # "none"
      BY <2>1, <3>1 DEF TypeOK
    <3>7. QED BY <2>1, <3>5, <3>6
  <2>4. QED BY <2>2, <2>3
<1>2. CASE Return
  <2>1. PICK swept \in [1..Cardinality(Unanswered) -> Unanswered] :
            /\ \A p, q \in DOMAIN swept : p < q => swept[p] < swept[q]
            /\ emitted' = emitted \o swept
    BY <1>2 DEF Return
  <2>2. swept \in Seq(Calls) /\ IsInjective(swept) /\ ToSet(swept) = Unanswered
    BY <2>1, SweepIsComplete DEF Unanswered
  <2>3. ToSet(emitted) \subseteq Calls
    BY ToSetType DEF TypeOK
  <2>4. ToSet(emitted) \cap Unanswered = {} /\ ToSet(emitted) \cup Unanswered = Calls
    BY <2>3 DEF Unanswered
  <2>5. ToSet(emitted') = Calls /\ IsInjective(emitted')
    <3>1. emitted \in Seq(Calls)
      BY DEF TypeOK
    <3>2. ToSet(emitted) \cap ToSet(swept) = {}
      BY <2>2, <2>4
    <3>3. /\ IsInjective(emitted \o swept)
          /\ ToSet(emitted \o swept) = ToSet(emitted) \cup ToSet(swept)
      BY <2>2, <3>1, <3>2, ConcatContents
    <3>4. QED BY <2>1, <2>2, <2>4, <3>3
  <2>6. \A i \in Calls : result'[i] # "none"
    BY <1>2 DEF Return, Unanswered
  <2>7. QED BY <2>5, <2>6
<1>3. CASE UNCHANGED <<emitted, result, returned>>
  BY <1>3
<1>4. QED
  BY <1>1, <1>2, <1>3
  DEF Next, Start, CheckDone, JoinDone, Steer, PopLastSteer, ClearSteeringQueue, Abort, Done,
      vars, taskVars

\* What providers demand of a turn, for any number of calls: no call has two
\* results, and each has one when executeToolCalls returns.
THEOREM ResultsCorrect == Spec => []OneResultPerCall
<1>1. Init => OneResultPerCall
  BY DEF Init, OneResultPerCall, IsInjective, ToSet
<1>2. TypeOK /\ OneResultPerCall /\ [Next]_vars => OneResultPerCall'
  BY ResultsStep
<1>3. QED BY <1>1, <1>2, TypeCorrect, PTL DEF Spec
-----------------------------------------------------------------------------
(***************************************************************************)
(* No steering message is lost.  SteeringConserved is kept by every step   *)
(* once one knows whose look is pending and what it may overwrite: looks   *)
(* are single-flight, and none is started or comes back after the batch    *)
(* has found messages.                                                     *)
(***************************************************************************)
LookInv ==
    /\ \A i \in Calls : pc[i] = "checking" <=> steeringCheck = i
    /\ steeringCheck # None => ~triggered
    /\ ~triggered => steeringMessages = << >>

LEMMA LookStep ==
    ASSUME TypeOK, LookInv, [Next]_vars
    PROVE  LookInv'
<1> USE DEF LookInv, TypeOK, States
<1>1. \A i \in Calls : i # None
  BY NumCallsAssumption DEF Calls, None
<1>2. ASSUME NEW c \in Calls, Start(c) PROVE LookInv'
  BY <1>2 DEF Start, StateOnTurn, checkVars
<1>3. ASSUME NEW c \in Calls, Finish(c) PROVE LookInv'
  <2>1. CheckSteering(c) /\ UNCHANGED <<triggered, steeringMessages>> /\ pc[c] = "running"
    BY <1>3 DEF Finish
  <2>2. CASE UNCHANGED steeringCheck /\ pc' \in {[pc EXCEPT ![c] = s] : s \in {"settled", "joined"}}
    BY <2>1, <2>2
  <2>3. CASE /\ LooksForSteering
             /\ steeringCheck = None
             /\ pc' = [pc EXCEPT ![c] = "checking"]
             /\ steeringCheck' = c
    BY <1>1, <2>1, <2>3 DEF LooksForSteering
  <2>4. QED BY <2>1, <2>2, <2>3 DEF CheckSteering
<1>4. ASSUME NEW c \in Calls, CheckDone(c) PROVE LookInv'
  BY <1>1, <1>4 DEF CheckDone
<1>5. ASSUME NEW c \in Calls, JoinDone(c) PROVE LookInv'
  BY <1>5 DEF JoinDone
<1>6. CASE UNCHANGED <<pc, checkVars>>
  BY <1>6 DEF checkVars
<1>7. QED
  BY <1>2, <1>3, <1>4, <1>5, <1>6
  DEF Next, Return, Steer, PopLastSteer, ClearSteeringQueue, Abort, Done, vars, taskVars

THEOREM LookCorrect == Spec => []LookInv
<1>1. Init => LookInv
  BY NumCallsAssumption DEF Init, LookInv, Calls, None
<1>2. TypeOK /\ LookInv /\ [Next]_vars => LookInv'
  BY LookStep
<1>3. QED BY <1>1, <1>2, TypeCorrect, PTL DEF Spec

\* A look takes messages from the front of the queue and leaves the rest.
LEMMA DequeueSplits ==
    ASSUME steeringQueue \in Seq(Messages)
    PROVE  Dequeued \o QueueAfterDequeue = steeringQueue
<1>1. CASE steeringMode = "one-at-a-time" /\ steeringQueue # << >>
  <2>1. Head(steeringQueue) \in Messages /\ Tail(steeringQueue) \in Seq(Messages)
    BY <1>1, HeadTailProperties
  <2>2. steeringQueue = <<Head(steeringQueue)>> \o Tail(steeringQueue)
    BY <1>1
  <2>3. QED BY <1>1, <2>2 DEF Dequeued, QueueAfterDequeue
<1>2. CASE ~(steeringMode = "one-at-a-time" /\ steeringQueue # << >>)
  BY <1>2, ConcatEmptySeq DEF Dequeued, QueueAfterDequeue
<1>3. QED BY <1>1, <1>2

\* What is in the system, as far as a list says it.
Conserves(list, next, gone) ==
    /\ ToSet(list) = (1..(next - 1)) \ gone
    /\ \A p, q \in DOMAIN list : p < q => list[p] < list[q]

\* The three ways the user changes the list.
LEMMA SteerConserves ==
    ASSUME NEW next \in Messages, NEW list \in Seq(Messages), NEW gone \in SUBSET (1..(next - 1)),
           Conserves(list, next, gone)
    PROVE  Conserves(Append(list, next), next + 1, gone)
<1> PICK more : more = Append(list, next)
  OBVIOUS
<1>1. /\ more \in Seq(Messages) /\ Len(more) = Len(list) + 1
      /\ \A i \in 1..Len(list) : more[i] = list[i]
      /\ more[Len(list) + 1] = next
  BY AppendProperties
<1>2. DOMAIN more = 1..(Len(list) + 1) /\ DOMAIN list = 1..Len(list) /\ Len(list) \in Nat
  BY <1>1
<1>3. next \in Nat /\ next >= 1
  BY MaxSteerAssumption DEF Messages
<1>4. ToSet(more) = ToSet(list) \cup {next}
  BY <1>1, <1>2 DEF ToSet
<1>5. ToSet(more) = (1..((next + 1) - 1)) \ gone
  BY <1>3, <1>4 DEF Conserves
<1>6. ASSUME NEW p \in DOMAIN more, NEW q \in DOMAIN more, p < q
      PROVE  more[p] < more[q]
  <2>1. p \in DOMAIN list
    BY <1>2, <1>6
  <2>2. list[p] \in 1..(next - 1)
    BY <2>1 DEF ToSet, Conserves
  <2>3. QED BY <1>1, <1>2, <1>3, <1>6, <2>1, <2>2 DEF Conserves
<1>7. QED BY <1>5, <1>6 DEF Conserves

\* The first n messages of the list are left, the others withdrawn.
LEMMA CutConserves ==
    ASSUME NEW next \in Nat, NEW list \in Seq(Messages), NEW gone,
           Conserves(list, next, gone),
           NEW n \in Nat, NEW left \in Seq(Messages), n <= Len(list), Len(left) = n,
           \A i \in 1..n : left[i] = list[i],
           NEW cut, cut = {list[i] : i \in (n + 1)..Len(list)}
    PROVE  Conserves(left, next, gone \cup cut)
<1>1. DOMAIN left = 1..n /\ DOMAIN list = 1..Len(list) /\ Len(list) \in Nat
  OBVIOUS
<1>2. \A i \in DOMAIN list : i \in DOMAIN left \/ i \in (n + 1)..Len(list)
  BY <1>1
<1>3. \A i \in DOMAIN left, j \in (n + 1)..Len(list) :
          i \in DOMAIN list /\ j \in DOMAIN list /\ i < j
  BY <1>1
<1>4. \A i \in DOMAIN list : list[i] \in Int
  BY <1>1, MaxSteerAssumption DEF Messages
<1>5. \A i \in DOMAIN left, j \in (n + 1)..Len(list) : left[i] # list[j]
  BY <1>1, <1>3, <1>4 DEF Conserves
<1>6. ToSet(left) = ToSet(list) \ cut
  <2>1. ToSet(left) \subseteq ToSet(list) \ cut
    <3>1. ASSUME NEW i \in DOMAIN left
          PROVE  left[i] = list[i] /\ i \in DOMAIN list /\ left[i] \notin cut
      BY <1>1, <1>5
    <3>2. QED BY <3>1 DEF ToSet
  <2>2. ToSet(list) \ cut \subseteq ToSet(left)
    <3>1. ASSUME NEW i \in DOMAIN list, list[i] \notin cut
          PROVE  i \in DOMAIN left /\ left[i] = list[i]
      BY <1>1, <1>2, <3>1
    <3>2. QED BY <3>1 DEF ToSet
  <2>3. QED BY <2>1, <2>2
<1>7. ToSet(left) = (1..(next - 1)) \ (gone \cup cut)
  BY <1>6 DEF Conserves
<1>8. \A p, q \in DOMAIN left : p < q => left[p] < left[q]
  BY <1>1 DEF Conserves
<1>9. QED BY <1>7, <1>8 DEF Conserves

\* A list without its last member.
LEMMA FrontProperties ==
    ASSUME NEW S, NEW s \in Seq(S), s # << >>
    PROVE  /\ Front(s) \in Seq(S) /\ Len(Front(s)) = Len(s) - 1
           /\ \A i \in 1..(Len(s) - 1) : Front(s)[i] = s[i]
           /\ Len(s) \in Nat \ {0} /\ Last(s) = s[Len(s)]
<1>1. Len(s) \in Nat \ {0}
  BY EmptySeq
<1>2. PICK n \in Nat : n = Len(s) - 1
  BY <1>1
<1>3. \A i \in 1..n : s[i] \in S
  BY <1>1, <1>2
<1>4. PICK front : front = SubSeq(s, 1, n)
  OBVIOUS
<1>5. /\ front \in Seq(S)
      /\ Len(front) = IF 1 <= n THEN n - 1 + 1 ELSE 0
      /\ \A i \in 1..(n - 1 + 1) : front[i] = s[1 + i - 1]
  BY <1>3, <1>4, SubSeqProperties
<1>6. Len(front) = n /\ \A i \in 1..n : front[i] = s[i]
  BY <1>2, <1>5
<1>7. QED BY <1>1, <1>2, <1>4, <1>5, <1>6 DEF Front, Last

\* What the batch itself holds of the messages.
Taken == steeringMessages \o Held

LEMMA TakenType ==
    ASSUME TypeOK
    PROVE  Held \in Seq(Messages) /\ Taken \in Seq(Messages) /\ InSystem \in Seq(Messages)
<1>1. Held \in Seq(Messages)
  BY EmptySeq DEF TypeOK, Held, None
<1>2. Taken \in Seq(Messages)
  BY <1>1, ConcatProperties DEF TypeOK, Taken
<1>3. QED BY <1>1, <1>2, ConcatProperties DEF TypeOK, Taken, InSystem

\* A look moves messages from the queue to the call that looks, and its end
\* moves them on to the batch: the list as a whole stays as it is.
LEMMA LooksKeepOrder ==
    ASSUME TypeOK, LookInv, NEW c \in Calls, Finish(c) \/ CheckDone(c)
    PROVE  InSystem' = InSystem
<1> USE DEF TypeOK, LookInv
<1>1. c # None
  BY NumCallsAssumption DEF Calls, None
<1>2. Held \in Seq(Messages)
  BY TakenType
<1>3. CASE Finish(c)
  <2>1. CheckSteering(c) /\ UNCHANGED <<triggered, steeringMessages>>
    BY <1>3 DEF Finish
  <2>2. CASE UNCHANGED <<steeringCheck, fetched, steeringQueue>>
    BY <2>1, <2>2 DEF InSystem, Held
  <2>3. CASE /\ LooksForSteering
             /\ steeringCheck = None
             /\ steeringCheck' = c
             /\ fetched' = [fetched EXCEPT ![c] = Dequeued]
             /\ steeringQueue' = QueueAfterDequeue
    <3>1. steeringMessages = << >> /\ steeringMessages' = << >>
      BY <2>1, <2>3 DEF LooksForSteering
    <3>2. Held = << >> /\ Held' = Dequeued
      BY <1>1, <2>3 DEF Held
    <3>3. InSystem = steeringQueue
      BY <3>1, <3>2, ConcatEmptySeq, EmptySeq DEF InSystem
    <3>4. InSystem' = Dequeued \o QueueAfterDequeue
      BY <2>3, <3>1, <3>2, ConcatEmptySeq, DequeueType DEF InSystem
    <3>5. QED BY <3>3, <3>4, DequeueSplits
  <2>4. QED BY <2>1, <2>2, <2>3 DEF CheckSteering
<1>4. CASE CheckDone(c)
  <2>1. steeringCheck = c /\ steeringMessages = << >> /\ Held = fetched[c]
    BY <1>1, <1>4 DEF CheckDone, Held
  <2>2. Held' = << >> /\ steeringQueue' = steeringQueue
    BY <1>4 DEF CheckDone, Held, userVars
  <2>3. steeringMessages' = fetched[c]
    <3>1. CASE fetched[c] = << >>
      BY <1>4, <2>1, <3>1 DEF CheckDone
    <3>2. CASE fetched[c] # << >>
      BY <1>4, <3>2 DEF CheckDone
    <3>3. QED BY <3>1, <3>2
  <2>4. steeringMessages \o Held = fetched[c]
    BY <2>1, ConcatEmptySeq
  <2>5. (steeringMessages \o Held)' = fetched[c]
    BY <2>2, <2>3, ConcatEmptySeq
  <2>6. QED BY <2>2, <2>4, <2>5 DEF InSystem
<1>5. QED BY <1>3, <1>4

\* Messages are numbered as they come, so none is withdrawn beforehand.
SteeringInv == SteeringConserved /\ withdrawn \subseteq 1..(nextMessage - 1)

LEMMA SteeringStep ==
    ASSUME TypeOK, LookInv, SteeringInv, [Next]_vars
    PROVE  SteeringInv'
<1> USE DEF SteeringInv
<1>1. Conserves(InSystem, nextMessage, withdrawn)
  BY DEF SteeringConserved, Conserves
<1>2. SUFFICES /\ Conserves(InSystem', nextMessage', withdrawn')
               /\ withdrawn' \subseteq 1..(nextMessage' - 1)
  BY DEF SteeringConserved, Conserves
<1>3. /\ Taken \in Seq(Messages) /\ steeringQueue \in Seq(Messages)
      /\ InSystem = Taken \o steeringQueue
  BY TakenType DEF TypeOK, Taken, InSystem
<1>4. /\ InSystem \in Seq(Messages)
      /\ Len(InSystem) = Len(Taken) + Len(steeringQueue)
      /\ \A i \in 1..Len(InSystem) :
             InSystem[i] = IF i <= Len(Taken) THEN Taken[i] ELSE steeringQueue[i - Len(Taken)]
  BY <1>3, ConcatProperties
<1>5. Len(Taken) \in Nat /\ Len(steeringQueue) \in Nat
  BY <1>3
<1>6. ASSUME NEW c \in Calls, Finish(c) \/ CheckDone(c)
      PROVE  InSystem' = InSystem /\ UNCHANGED <<nextMessage, withdrawn>>
  BY <1>6, LooksKeepOrder DEF Finish, CheckDone, userVars
<1>7. CASE Steer
  <2>1. nextMessage \in Messages /\ nextMessage' = nextMessage + 1 /\ withdrawn' = withdrawn
    BY <1>7, MaxSteerAssumption DEF Steer, TypeOK, Messages
  <2>2. InSystem' = Taken \o Append(steeringQueue, nextMessage)
    BY <1>7 DEF Steer, checkVars, InSystem, Taken, Held
  <2>3. Taken \o Append(steeringQueue, nextMessage) = Append(InSystem, nextMessage)
    BY <1>3, <2>1
  <2>4. Conserves(Append(InSystem, nextMessage), nextMessage + 1, withdrawn)
    BY <1>1, <1>4, <2>1, SteerConserves
  <2>5. withdrawn \subseteq 1..nextMessage
    BY <2>1, MaxSteerAssumption DEF Messages
  <2>6. QED BY <2>1, <2>2, <2>3, <2>4, <2>5, MaxSteerAssumption DEF Messages
<1>8. CASE PopLastSteer
  <2>1. PICK front \in Seq(Messages) :
            /\ front = Front(steeringQueue)
            /\ Len(front) = Len(steeringQueue) - 1
            /\ \A i \in 1..Len(front) : front[i] = steeringQueue[i]
    <3>1. steeringQueue \in Seq(Messages) /\ steeringQueue # << >>
      BY <1>3, <1>8 DEF PopLastSteer
    <3>2. QED BY ONLY <3>1, FrontProperties
  <2>2. PICK left \in Seq(Messages) :
            /\ left = Taken \o front
            /\ Len(left) = Len(Taken) + Len(front)
            /\ \A i \in 1..(Len(Taken) + Len(front)) :
                   left[i] = IF i <= Len(Taken) THEN Taken[i] ELSE front[i - Len(Taken)]
    <3>1. Taken \o front \in Seq(Messages)
      BY <1>3, ConcatProperties
    <3>2. /\ Len(Taken \o front) = Len(Taken) + Len(front)
          /\ \A i \in 1..(Len(Taken) + Len(front)) :
                 (Taken \o front)[i] = IF i <= Len(Taken) THEN Taken[i] ELSE front[i - Len(Taken)]
      BY <1>3, ConcatProperties
    <3>3. QED BY <3>1, <3>2
  <2>3. InSystem' = left /\ nextMessage' = nextMessage
    BY <1>8, <2>1, <2>2 DEF PopLastSteer, checkVars, InSystem, Taken, Held
  <2>4. /\ Len(left) \in Nat /\ Len(InSystem) = Len(left) + 1
        /\ \A i \in 1..Len(left) : left[i] = InSystem[i]
    <3>1. Len(steeringQueue) = Len(front) + 1 /\ Len(front) \in Nat
      BY <1>5, <2>1
    <3>2. Len(left) = Len(Taken) + Len(front) /\ Len(InSystem) = Len(left) + 1
      BY <1>4, <1>5, <2>2, <3>1
    <3>3. ASSUME NEW i \in 1..Len(left) PROVE left[i] = InSystem[i]
      <4>1. i \in 1..Len(InSystem) /\ i \in 1..(Len(Taken) + Len(front))
        BY <1>5, <3>1, <3>2
      <4>2. CASE i <= Len(Taken)
        BY <1>4, <2>2, <4>1, <4>2
      <4>3. CASE i > Len(Taken)
        <5>1. i - Len(Taken) \in 1..Len(front)
          BY <1>5, <3>1, <4>1, <4>3
        <5>2. QED BY <1>4, <1>5, <2>1, <2>2, <4>1, <4>3, <5>1
      <4>4. QED BY <1>5, <4>1, <4>2, <4>3
    <3>4. QED BY <1>5, <3>1, <3>2, <3>3
  <2>5. {Last(steeringQueue)} = {InSystem[i] : i \in (Len(left) + 1)..Len(InSystem)}
    <3>1. InSystem[Len(InSystem)] = Last(steeringQueue)
      BY <1>4, <1>5, <2>1, <2>2 DEF Last
    <3>2. (Len(left) + 1)..Len(InSystem) = {Len(InSystem)}
      BY <2>4
    <3>3. QED BY <3>1, <3>2
  <2>6. nextMessage \in Nat
    BY MaxSteerAssumption DEF TypeOK
  <2>7. withdrawn' = withdrawn \cup {Last(steeringQueue)}
    BY <1>8 DEF PopLastSteer
  <2>8. Conserves(left, nextMessage, withdrawn')
    <3>1. Len(left) <= Len(InSystem)
      BY <2>4
    <3>2. Conserves(left, nextMessage, withdrawn \cup {Last(steeringQueue)})
      BY <1>1, <1>4, <2>4, <2>5, <2>6, <3>1, CutConserves
    <3>3. QED BY <2>7, <3>2
  <2>9. Last(steeringQueue) \in 1..(nextMessage - 1)
    <3>1. PICK i \in (Len(left) + 1)..Len(InSystem) : Last(steeringQueue) = InSystem[i]
      BY <2>5
    <3>2. i \in DOMAIN InSystem
      BY <1>4, <2>4
    <3>3. QED BY <1>1, <3>1, <3>2 DEF Conserves, ToSet
  <2>10. QED BY <2>3, <2>7, <2>8, <2>9
<1>9. CASE ClearSteeringQueue
  <2>1. /\ InSystem' = Taken \o << >> /\ nextMessage' = nextMessage
        /\ withdrawn' = withdrawn \cup ToSet(steeringQueue)
    BY <1>9 DEF ClearSteeringQueue, checkVars, InSystem, Taken, Held
  <2>2. InSystem' = Taken
    BY <1>3, <2>1, ConcatEmptySeq
  <2>3. \A i \in 1..Len(Taken) : Taken[i] = InSystem[i]
    BY <1>4, <1>5
  <2>4. ToSet(steeringQueue) = {InSystem[i] : i \in (Len(Taken) + 1)..Len(InSystem)}
    <3>1. \A i \in DOMAIN steeringQueue :
              /\ Len(Taken) + i \in (Len(Taken) + 1)..Len(InSystem)
              /\ InSystem[Len(Taken) + i] = steeringQueue[i]
      BY <1>3, <1>4, <1>5
    <3>2. \A i \in (Len(Taken) + 1)..Len(InSystem) :
              i - Len(Taken) \in DOMAIN steeringQueue /\ InSystem[i] = steeringQueue[i - Len(Taken)]
      BY <1>3, <1>4, <1>5
    <3>3. QED BY <3>1, <3>2 DEF ToSet
  <2>5. nextMessage \in Nat /\ Len(Taken) <= Len(InSystem)
    BY <1>4, <1>5, MaxSteerAssumption DEF TypeOK
  <2>6. Conserves(Taken, nextMessage, withdrawn')
    BY <1>1, <1>3, <1>4, <1>5, <2>1, <2>3, <2>4, <2>5, CutConserves
  <2>7. ToSet(steeringQueue) \subseteq 1..(nextMessage - 1)
    <3>1. (Len(Taken) + 1)..Len(InSystem) \subseteq DOMAIN InSystem
      BY <1>4, <1>5
    <3>2. QED BY <1>1, <2>4, <3>1 DEF Conserves, ToSet
  <2>8. QED BY <2>1, <2>2, <2>6, <2>7
<1>10. CASE UNCHANGED <<steeringMessages, steeringCheck, fetched, steeringQueue,
                        nextMessage, withdrawn>>
  BY <1>1, <1>10 DEF InSystem, Held
<1>11. QED
  BY <1>1, <1>6, <1>7, <1>8, <1>9, <1>10
  DEF Next, Start, JoinDone, Return, Abort, Done, vars, checkVars, userVars

\* No steering message is lost, doubled or overtaken, for any number of calls
\* and messages, whoever looks, joins a look or takes messages back.
THEOREM SteeringCorrect == Spec => []SteeringConserved
<1>1. Init => SteeringInv
  <2> SUFFICES ASSUME Init PROVE SteeringInv
    OBVIOUS
  <2>1. InSystem = << >>
    BY ConcatEmptySeq DEF Init, InSystem, Held, None
  <2>2. nextMessage = 1 /\ withdrawn = {}
    BY DEF Init
  <2>3. QED BY <2>1, <2>2 DEF SteeringInv, SteeringConserved, ToSet
<1>2. TypeOK /\ LookInv /\ SteeringInv /\ [Next]_vars => SteeringInv'
  BY SteeringStep
<1>3. SteeringInv => SteeringConserved
  BY DEF SteeringInv
<1>4. QED BY <1>1, <1>2, <1>3, TypeCorrect, LookCorrect, PTL DEF Spec
-----------------------------------------------------------------------------
(***************************************************************************)
(* Part 2.  The forced choices.  The invariants come first; the queue is   *)
(* then taken apart into the places of its choices, each operation on it   *)
(* is described by what it does to them, and each action by what it does   *)
(* to the invariants.                                                      *)
(***************************************************************************)
\* The todo call is not mixed with choices that are wanted back.
TodoInv ==
    /\ \A i \in DOMAIN queue : queue[i].label = "eager-todo" =>
           \A j \in DOMAIN queue[i].values : queue[i].values[j].label = "eager-todo"
    /\ inFlightOf = "eager-todo" => inFlight.label = "eager-todo"

\* Of every choice there is it is known who has asked for it.
Issued(c) == c \in Wanted \/ (c.label = "eager-todo" /\ c.part = 1)
IssuedInv ==
    \A c \in Forced : Served(c) # {} \/ inFlight = c \/ Queued(c) # {} => Issued(c)

\* A turn has been counted when it is being answered.
CountedInv == turn \in {"answering", "tools"} => turns >= 1

\* While a turn is being answered and its tools run, nobody settles its choice,
\* except that the end of a prompt takes the todo call away and that of an abort
\* whatever there is.
ServingInv ==
    ~overtaken /\ turn \in {"answering", "tools"} =>
        ending = {} /\ (inFlight = serving \/ serving.label = "eager-todo" \/ snatched)

\* Where a choice is: nowhere but among the resolved ones, in flight, or queued.
OnlyServed(c) == (\E i \in Served(c) : Served(c) = {i}) /\ inFlight # c /\ Queued(c) = {}
OnlyInFlight(c) == Served(c) = {} /\ inFlight = c /\ Queued(c) = {}
OnlyQueued(c) == Served(c) = {} /\ inFlight # c /\ \E p \in Queued(c) : Queued(c) = {p}
KeptInv ==
    ~overtaken => \A c \in Wanted : OnlyServed(c) \/ OnlyInFlight(c) \/ OnlyQueued(c)

\* The tool of a /force comes before its "none", wherever the two are.
ForcedPart(k, part) == [label |-> "user-force", owner |-> k, part |-> part]
Earlier(p, q) == p[1] < q[1] \/ (p[1] = q[1] /\ p[2] < q[2])
ToolFirst(k) ==
    /\ \A p \in Queued(ForcedPart(k, 1)), q \in Queued(ForcedPart(k, 2)) : Earlier(p, q)
    /\ inFlight = ForcedPart(k, 2) => Served(ForcedPart(k, 1)) # {}
    /\ \A j \in Served(ForcedPart(k, 2)) : \E i \in Served(ForcedPart(k, 1)) : i < j
OrderInv == ~overtaken => \A k \in 1..forced : ToolFirst(k)
-----------------------------------------------------------------------------
(***************************************************************************)
(* The queue, taken apart: the j-th choice that directive i of q yields.   *)
(***************************************************************************)
Yields(d, j, c) == j \in 1..Len(d.values) /\ d.values[j] = c
At(q, i, j, c) == i \in 1..Len(q) /\ Yields(q[i], j, c)

Nowhere(q, c) == \A i, j \in Nat : ~At(q, i, j, c)
Once(q, c) ==
    \E i, j \in Nat :
        /\ At(q, i, j, c)
        /\ \A k, l \in Nat : At(q, k, l, c) => k = i /\ l = j
Ahead(q, a, b) ==
    \A i, j, k, l \in Nat : At(q, i, j, a) /\ At(q, k, l, b) => i < k \/ (i = k /\ j < l)

Queues == Seq(Directives)

\* A set of numbers that has one has a smallest.
LEMMA LeastExists ==
    ASSUME NEW S \in SUBSET Nat, S # {}
    PROVE  Min(S) \in S /\ \A m \in S : Min(S) <= m
<1>1. PICK x \in S : \A y \in S : ~ (<<y, x>> \in OpToRel(<, Nat))
  BY WFMin, NatLessThanWellFounded, Zenon
<1>2. \A y \in S : x <= y
  <2>1. \A y \in S : ~(y < x)
    BY <1>1 DEF OpToRel
  <2>2. QED BY <2>1
<1>3. QED BY <1>2 DEF Min

\* The first directive that has something to yield.
FirstFilled(q) == SelectInSeq(q, LAMBDA d : d.values # << >>)

LEMMA FirstIs ==
    ASSUME NEW q \in Queues
    PROVE  /\ FirstFilled(q) = 0 => \A i \in 1..Len(q) : q[i].values = << >>
           /\ FirstFilled(q) # 0 =>
                 /\ FirstFilled(q) \in 1..Len(q) /\ q[FirstFilled(q)].values # << >>
                 /\ \A i \in 1..(FirstFilled(q) - 1) : q[i].values = << >>
<1>1. PICK I : I = {i \in 1..Len(q) : q[i].values # << >>}
  OBVIOUS
<1>2. I \in SUBSET Nat
  BY <1>1
<1>3. FirstFilled(q) = IF I # {} THEN Min(I) ELSE 0
  BY <1>1 DEF FirstFilled, SelectInSeq
<1>4. CASE I = {}
  BY <1>1, <1>3, <1>4
<1>5. CASE I # {}
  <2>1. PICK m : m = Min(I)
    OBVIOUS
  <2>2. m \in I /\ \A i \in I : m <= i
    BY <1>2, <1>5, <2>1, LeastExists
  <2>3. FirstFilled(q) = m /\ m \in 1..Len(q) /\ q[m].values # << >> /\ Len(q) \in Nat
    BY <1>1, <1>3, <1>5, <2>1, <2>2 DEF Queues
  <2>4. ASSUME NEW i \in 1..(m - 1) PROVE q[i].values = << >>
    <3>1. i \in 1..Len(q) /\ ~(m <= i)
      BY <2>3
    <3>2. QED BY <1>1, <2>2, <3>1
  <2>5. m # 0
    BY <2>3
  <2>6. QED BY <2>3, <2>4, <2>5
<1>6. QED BY <1>4, <1>5

\* The members of a set of numbers, counted in their order.
LEMMA Ranks ==
    ASSUME NEW n \in Nat, NEW K \in SUBSET (1..n), NEW rank,
           rank = [i \in K |-> Cardinality({j \in K : j <= i})]
    PROVE  /\ Cardinality(K) \in Nat
           /\ \A i \in K : rank[i] \in 1..Cardinality(K)
           /\ \A i, k \in K : i < k => rank[i] < rank[k]
           /\ \A m \in 1..Cardinality(K) : \E i \in K : rank[i] = m
<1> DEFINE Below(i) == {j \in K : j <= i}
<1>1. IsFiniteSet(1..n)
  BY FS_Interval
<1>2. IsFiniteSet(K) /\ Cardinality(K) \in Nat
  BY <1>1, FS_Subset, FS_CardinalityType
<1>3. ASSUME NEW i \in K
      PROVE  /\ IsFiniteSet(Below(i)) /\ Cardinality(Below(i)) \in Nat
             /\ Cardinality(Below(i)) <= Cardinality(K) /\ Cardinality(Below(i)) # 0
  <2>1. Below(i) \in SUBSET K /\ i \in Below(i)
    OBVIOUS
  <2>2. IsFiniteSet(Below(i)) /\ Cardinality(Below(i)) <= Cardinality(K)
    BY <1>2, <2>1, FS_Subset
  <2>3. Cardinality(Below(i)) \in Nat
    BY <2>2, FS_CardinalityType
  <2>4. Cardinality(Below(i)) # 0
    BY <2>1, <2>2, FS_EmptySet
  <2>5. QED BY <2>2, <2>3, <2>4
<1>4. \A i \in K : rank[i] \in 1..Cardinality(K)
  BY <1>2, <1>3
<1>5. ASSUME NEW i \in K, NEW k \in K, i < k PROVE rank[i] < rank[k]
  <2>1. Below(i) \in SUBSET Below(k) /\ k \in Below(k) /\ k \notin Below(i)
    <3>1. \A j \in K : j \in Nat
      OBVIOUS
    <3>2. \A j \in K : j <= i => j <= k
      BY <1>5, <3>1
    <3>3. k <= k /\ ~(k <= i)
      BY <1>5, <3>1
    <3>4. QED BY <3>2, <3>3
  <2>2. Cardinality(Below(i)) <= Cardinality(Below(k))
        /\ (Cardinality(Below(k)) = Cardinality(Below(i)) => Below(k) = Below(i))
    BY <1>3, <2>1, FS_Subset
  <2>3. Cardinality(Below(i)) # Cardinality(Below(k))
    BY <2>1, <2>2
  <2>4. Cardinality(Below(i)) < Cardinality(Below(k))
    BY <1>3, <2>2, <2>3
  <2>5. QED BY <2>4
<1>6. \A m \in 1..Cardinality(K) : \E i \in K : rank[i] = m
  <2>1. PICK T : T = 1..Cardinality(K)
    OBVIOUS
  <2>2. IsFiniteSet(T) /\ Cardinality(T) = Cardinality(K)
    <3>1. IsFiniteSet(1..Cardinality(K)) /\ Cardinality(1..Cardinality(K)) = Cardinality(K)
      BY <1>2, FS_Interval
    <3>2. QED BY <2>1, <3>1
  <2>3. rank \in [K -> T]
    BY <1>4, <2>1
  <2>4. \A i, k \in K : rank[i] = rank[k] => i = k
    <3>1. SUFFICES ASSUME NEW i \in K, NEW k \in K, rank[i] = rank[k] PROVE i = k
      OBVIOUS
    <3>2. i \in Int /\ k \in Int /\ rank[i] \in Int /\ rank[k] \in Int
      BY <1>2, <1>4
    <3>3. QED BY <1>5, <3>1, <3>2
  <2>5. rank \in Injection(K, T)
    BY <2>3, <2>4 DEF Injection, IsInjective
  <2>6. rank \in Surjection(K, T)
    BY <2>2, <2>5, FS_Injection
  <2>7. QED BY <2>1, <2>6 DEF Surjection
<1>7. QED BY <1>2, <1>4, <1>5, <1>6

\* What Without leaves, and that it keeps the order.
LEMMA WithoutIs ==
    ASSUME NEW q \in Queues, NEW label, NEW r, r = Without(q, label)
    PROVE  /\ r \in Queues
           /\ \E m \in [1..Len(r) -> 1..Len(q)] :
                 /\ \A n \in 1..Len(r) : r[n] = q[m[n]] /\ r[n].label # label
                 /\ \A n, o \in 1..Len(r) : n < o => m[n] < m[o]
                 /\ \A i \in 1..Len(q) : q[i].label # label => \E n \in 1..Len(r) : m[n] = i
<1>1. DOMAIN q = 1..Len(q) /\ Len(q) \in Nat /\ \A i \in 1..Len(q) : q[i] \in Directives
  BY DEF Queues
<1>2. PICK K : K = {i \in DOMAIN q : q[i].label # label}
  OBVIOUS
<1>3. /\ K \in SUBSET (1..Len(q)) /\ \A i \in K : i \in Nat
      /\ \A i \in 1..Len(q) : i \in K <=> q[i].label # label
  BY <1>1, <1>2
<1>4. PICK rank : rank = [i \in K |-> Cardinality({j \in K : j <= i})]
  OBVIOUS
<1>5. /\ Cardinality(K) \in Nat
      /\ \A i \in K : rank[i] \in 1..Cardinality(K)
      /\ \A i, k \in K : i < k => rank[i] < rank[k]
      /\ \A n \in 1..Cardinality(K) : \E i \in K : rank[i] = n
  <2>1. PICK y \in Nat : y = Len(q)
    BY <1>1
  <2>2. K \in SUBSET (1..y)
    BY <1>3, <2>1
  <2>3. y \in Nat /\ K \in SUBSET (1..y) /\ rank = [i \in K |-> Cardinality({j \in K : j <= i})]
    BY <1>4, <2>1, <2>2
  <2>4. QED BY ONLY <2>3, Ranks
<1>6. PICK size \in Nat : size = Cardinality(K)
  BY <1>5
<1>7. PICK m : m = [n \in 1..size |-> CHOOSE i \in K : Cardinality({j \in K : j <= i}) = n]
  OBVIOUS
<1>8. \A n \in 1..size : m[n] \in K /\ rank[m[n]] = n
  <2>1. SUFFICES ASSUME NEW n \in 1..size PROVE m[n] \in K /\ rank[m[n]] = n
    OBVIOUS
  <2>2. \E i \in K : Cardinality({j \in K : j <= i}) = n
    BY <1>4, <1>5, <1>6
  <2>3. m[n] \in K /\ Cardinality({j \in K : j <= m[n]}) = n
    BY <1>7, <2>2
  <2>4. QED BY <1>4, <2>3
<1>9. r = [n \in 1..size |-> q[m[n]]]
  <2>1. r = [n \in 1..size |-> q[CHOOSE i \in K : Cardinality({j \in K : j <= i}) = n]]
    BY <1>2, <1>6 DEF Without
  <2>2. QED BY <1>7, <2>1
<1>10. r \in Queues /\ Len(r) = size /\ \A n \in 1..size : r[n] = q[m[n]]
  <2>1. \A n \in 1..size : q[m[n]] \in Directives
    BY <1>1, <1>3, <1>8
  <2>2. QED BY <1>9, <2>1 DEF Queues
<1>11. m \in [1..size -> 1..Len(q)]
  BY <1>3, <1>7, <1>8
<1>12. \A n \in 1..size : r[n].label # label
  <2>1. \A i \in K : q[i].label # label
    BY <1>2
  <2>2. QED BY <1>8, <1>10, <2>1
<1>13. \A n, o \in 1..size : n < o => m[n] < m[o]
  <2>1. SUFFICES ASSUME NEW n \in 1..size, NEW o \in 1..size, n < o PROVE m[n] < m[o]
    OBVIOUS
  <2>2. m[n] \in K /\ m[o] \in K /\ rank[m[n]] = n /\ rank[m[o]] = o
    BY <1>8
  <2>3. m[n] \in Nat /\ m[o] \in Nat
    BY ONLY <1>3, <2>2
  <2>4. m[n] # m[o]
    BY <2>1, <2>2
  <2>5. ~(m[o] < m[n])
    BY <1>5, <2>1, <2>2
  <2>6. QED BY <2>3, <2>4, <2>5
<1>14. \A i \in 1..Len(q) : q[i].label # label => \E n \in 1..size : m[n] = i
  <2>1. SUFFICES ASSUME NEW i \in K PROVE \E n \in 1..size : m[n] = i
    BY <1>3
  <2>2. PICK n \in 1..size : rank[i] = n
    BY <1>5, <1>6
  <2>3. m[n] \in K /\ rank[m[n]] = rank[i]
    BY <1>8, <2>2
  <2>4. i \in Nat /\ m[n] \in Nat
    BY <1>3, <2>3
  <2>5. ~(i < m[n]) /\ ~(m[n] < i)
    BY <1>5, <2>3, <2>4
  <2>6. QED BY <2>4, <2>5
<1>15. QED BY <1>10, <1>11, <1>12, <1>13, <1>14

LEMMA WithoutKeeps ==
    ASSUME NEW q \in Queues, NEW label, NEW r, r = Without(q, label)
    PROVE  /\ \A c : Nowhere(q, c) => Nowhere(r, c)
           /\ \A c : /\ \A i \in 1..Len(q), j \in Nat : q[i].label = label => ~Yields(q[i], j, c)
                     /\ Once(q, c)
                     => Once(r, c)
           /\ \A a, b : Ahead(q, a, b) => Ahead(r, a, b)
<1>1. PICK m \in [1..Len(r) -> 1..Len(q)] :
          /\ \A n \in 1..Len(r) : r[n] = q[m[n]] /\ r[n].label # label
          /\ \A n, o \in 1..Len(r) : n < o => m[n] < m[o]
          /\ \A i \in 1..Len(q) : q[i].label # label => \E n \in 1..Len(r) : m[n] = i
  BY WithoutIs
<1>2. PICK x \in Nat : x = Len(r)
  BY WithoutIs DEF Queues
<1>3. PICK y \in Nat : y = Len(q)
  BY DEF Queues
<1>4. \A n \in 1..x : m[n] \in 1..y /\ m[n] \in Nat
  BY <1>1, <1>2, <1>3
<1>5. \A n, j \in Nat : \A c : At(r, n, j, c) => n \in 1..x /\ m[n] \in Nat /\ At(q, m[n], j, c)
  BY <1>1, <1>2, <1>3, <1>4 DEF At
<1>6. \A n \in 1..x, j \in Nat : \A c : At(q, m[n], j, c) => At(r, n, j, c)
  BY <1>1, <1>2 DEF At
<1>7. \A n, o \in 1..x : m[n] = m[o] => n = o
  <2>1. SUFFICES ASSUME NEW n \in 1..x, NEW o \in 1..x, m[n] = m[o] PROVE n = o
    OBVIOUS
  <2>2. ~(n < o) /\ ~(o < n)
    BY <1>1, <1>2, <1>4, <2>1
  <2>3. QED BY <2>2
<1>8. ASSUME NEW c, Nowhere(q, c) PROVE Nowhere(r, c)
  BY <1>5, <1>8 DEF Nowhere
<1>9. ASSUME NEW c, Once(q, c),
             \A i \in 1..Len(q), j \in Nat : q[i].label = label => ~Yields(q[i], j, c)
      PROVE  Once(r, c)
  <2>1. PICK i \in Nat, j \in Nat :
            At(q, i, j, c) /\ \A k, l \in Nat : At(q, k, l, c) => k = i /\ l = j
    BY <1>9 DEF Once
  <2>2. i \in 1..y /\ Yields(q[i], j, c)
    BY <1>3, <2>1 DEF At
  <2>3. PICK n \in 1..x : m[n] = i
    BY <1>1, <1>2, <1>3, <1>9, <2>2
  <2>4. n \in Nat /\ At(r, n, j, c)
    BY <1>6, <2>1, <2>3
  <2>5. ASSUME NEW k \in Nat, NEW l \in Nat, At(r, k, l, c) PROVE k = n /\ l = j
    <3>1. k \in 1..x /\ m[k] \in Nat /\ At(q, m[k], l, c)
      BY <1>5, <2>5
    <3>2. m[k] = i /\ l = j
      BY <2>1, <3>1
    <3>3. QED BY <1>7, <2>3, <3>1, <3>2
  <2>6. QED BY <2>4, <2>5 DEF Once
<1>10. ASSUME NEW a, NEW b, Ahead(q, a, b) PROVE Ahead(r, a, b)
  <2>1. SUFFICES ASSUME NEW i \in Nat, NEW j \in Nat, NEW k \in Nat, NEW l \in Nat,
                        At(r, i, j, a), At(r, k, l, b)
                 PROVE  i < k \/ (i = k /\ j < l)
    BY DEF Ahead
  <2>2. /\ i \in 1..x /\ k \in 1..x /\ m[i] \in Nat /\ m[k] \in Nat
        /\ At(q, m[i], j, a) /\ At(q, m[k], l, b)
    BY <1>5, <2>1
  <2>3. m[i] < m[k] \/ (m[i] = m[k] /\ j < l)
    BY <1>10, <2>2 DEF Ahead
  <2>4. m[i] < m[k] => i < k
    <3>1. ASSUME m[i] < m[k] PROVE ~(k < i) /\ i # k
      BY <1>1, <1>2, <2>2, <3>1
    <3>2. QED BY <2>2, <3>1
  <2>5. QED BY <1>7, <2>2, <2>3, <2>4
<1>11. QED BY <1>8, <1>9, <1>10

\* A directive put behind the others.
LEMMA AppendIs ==
    ASSUME NEW q \in Queues, NEW d \in Directives, NEW r, r = Append(q, d)
    PROVE  /\ r \in Queues
           /\ \A i, j \in Nat : \A c : At(r, i, j, c) <=> At(q, i, j, c) \/ (i = Len(q) + 1 /\ Yields(d, j, c))
           /\ \A i \in 1..Len(r) : (i \in 1..Len(q) /\ r[i] = q[i]) \/ r[i] = d
<1>1. PICK n \in Nat : n = Len(q)
  BY DEF Queues
<1>2. /\ r \in Queues /\ Len(r) = n + 1
      /\ \A i \in 1..n : r[i] = q[i]
      /\ r[n + 1] = d
  BY <1>1, AppendProperties DEF Queues
<1>3. \A i \in Nat : i \in 1..(n + 1) <=> i \in 1..n \/ i = n + 1
  OBVIOUS
<1>4. ASSUME NEW i \in Nat, NEW j \in Nat, NEW c
      PROVE  At(r, i, j, c) <=> At(q, i, j, c) \/ (i = n + 1 /\ Yields(d, j, c))
  <2>1. CASE i \in 1..n
    <3>1. i # n + 1 /\ r[i] = q[i] /\ i \in 1..(n + 1)
      BY <1>2, <2>1
    <3>2. QED BY <1>1, <1>2, <2>1, <3>1 DEF At
  <2>2. CASE i = n + 1
    <3>1. i \notin 1..n /\ i \in 1..(n + 1)
      BY <2>2
    <3>2. QED BY <1>1, <1>2, <2>2, <3>1 DEF At
  <2>3. CASE i \notin 1..n /\ i # n + 1
    BY <1>1, <1>2, <1>3, <2>3 DEF At
  <2>4. QED BY <2>1, <2>2, <2>3
<1>5. \A i \in 1..(n + 1) : (i \in 1..n /\ r[i] = q[i]) \/ r[i] = d
  BY <1>2, <1>3
<1>6. QED BY <1>1, <1>2, <1>4, <1>5

LEMMA AppendKeeps ==
    ASSUME NEW q \in Queues, NEW d \in Directives, NEW r, r = Append(q, d)
    PROVE  /\ \A c : (\A j \in Nat : ~Yields(d, j, c)) =>
                  (Nowhere(q, c) => Nowhere(r, c)) /\ (Once(q, c) => Once(r, c))
           /\ \A a, b : Ahead(q, a, b) /\ (\A j \in Nat : ~Yields(d, j, a)) => Ahead(r, a, b)
<1>1. \A i, j \in Nat : \A c : At(r, i, j, c) <=> At(q, i, j, c) \/ (i = Len(q) + 1 /\ Yields(d, j, c))
  BY AppendIs
<1>2. ASSUME NEW c, \A j \in Nat : ~Yields(d, j, c)
      PROVE  (Nowhere(q, c) => Nowhere(r, c)) /\ (Once(q, c) => Once(r, c))
  <2>1. \A i, j \in Nat : At(r, i, j, c) <=> At(q, i, j, c)
    BY <1>1, <1>2
  <2>2. QED BY <2>1 DEF Nowhere, Once
<1>3. ASSUME NEW a, NEW b, Ahead(q, a, b), \A j \in Nat : ~Yields(d, j, a)
      PROVE  Ahead(r, a, b)
  <2>1. SUFFICES ASSUME NEW i \in Nat, NEW j \in Nat, NEW k \in Nat, NEW l \in Nat,
                        At(r, i, j, a), At(r, k, l, b)
                 PROVE  i < k \/ (i = k /\ j < l)
    BY DEF Ahead
  <2>2. At(q, i, j, a)
    BY <1>1, <1>3, <2>1
  <2>3. CASE At(q, k, l, b)
    BY <1>3, <2>2, <2>3 DEF Ahead
  <2>4. CASE k = Len(q) + 1
    <3>1. Len(q) \in Nat /\ i <= Len(q)
      BY <2>2 DEF At, Queues
    <3>2. QED BY <2>4, <3>1
  <2>5. QED BY <1>1, <2>1, <2>3, <2>4
<1>4. QED BY <1>2, <1>3

\* A directive put before the others.
LEMMA PrependIs ==
    ASSUME NEW q \in Queues, NEW d \in Directives, NEW r, r = <<d>> \o q
    PROVE  /\ r \in Queues
           /\ \A j \in Nat : \A c : At(r, 1, j, c) <=> Yields(d, j, c)
           /\ \A i, j \in Nat : \A c : At(r, i + 1, j, c) <=> At(q, i, j, c) \/ (i = 0 /\ Yields(d, j, c))
           /\ \A j \in Nat : \A c : ~At(r, 0, j, c)
           /\ \A i \in 1..Len(r) : r[i] = d \/ \E k \in 1..Len(q) : r[i] = q[k]
<1>1. PICK n \in Nat : n = Len(q)
  BY DEF Queues
<1>2. PICK h : h = <<d>>
  OBVIOUS
<1>3. h \in Queues /\ Len(h) = 1 /\ h[1] = d
  BY <1>2 DEF Queues
<1>4. /\ r \in Queues /\ Len(r) = n + 1
      /\ r[1] = d /\ \A i \in 1..n : r[i + 1] = q[i]
  <2>1. /\ r \in Queues /\ Len(r) = Len(h) + Len(q)
        /\ \A i \in 1..(Len(h) + Len(q)) : r[i] = IF i <= Len(h) THEN h[i] ELSE q[i - Len(h)]
    BY <1>2, <1>3, ConcatProperties DEF Queues
  <2>2. /\ Len(r) = n + 1
        /\ \A i \in 1..(n + 1) : r[i] = IF i <= 1 THEN h[i] ELSE q[i - 1]
    BY <1>1, <1>3, <2>1
  <2>3. r[1] = d
    <3>1. 1 \in 1..(n + 1) /\ 1 <= 1
      OBVIOUS
    <3>2. QED BY <1>3, <2>2, <3>1
  <2>4. ASSUME NEW i \in 1..n PROVE r[i + 1] = q[i]
    <3>1. i + 1 \in 1..(n + 1) /\ ~(i + 1 <= 1) /\ (i + 1) - 1 = i
      OBVIOUS
    <3>2. QED BY <2>2, <3>1
  <2>5. QED BY <2>1, <2>2, <2>3, <2>4
<1>5. 1 \in 1..(n + 1) /\ 0 \notin 1..(n + 1)
  OBVIOUS
<1>6. \A j \in Nat : \A c : At(r, 1, j, c) <=> Yields(d, j, c)
  BY <1>4, <1>5 DEF At
<1>7. ASSUME NEW i \in Nat, NEW j \in Nat, NEW c
      PROVE  At(r, i + 1, j, c) <=> At(q, i, j, c) \/ (i = 0 /\ Yields(d, j, c))
  <2>1. CASE i = 0
    <3>1. i \notin 1..n /\ i + 1 = 1
      BY <2>1
    <3>2. QED BY <1>1, <1>6, <2>1, <3>1 DEF At
  <2>2. CASE i # 0
    <3>1. i + 1 \in 1..(n + 1) <=> i \in 1..n
      BY <2>2
    <3>2. i \in 1..n => r[i + 1] = q[i]
      BY <1>4
    <3>3. QED BY <1>1, <1>4, <2>2, <3>1, <3>2 DEF At
  <2>3. QED BY <2>1, <2>2
<1>8. \A j \in Nat : \A c : ~At(r, 0, j, c)
  BY <1>4, <1>5 DEF At
<1>9. ASSUME NEW i \in 1..(n + 1) PROVE r[i] = d \/ \E k \in 1..n : r[i] = q[k]
  <2>1. CASE i = 1
    BY <1>4, <2>1
  <2>2. CASE i # 1
    <3>1. i - 1 \in 1..n /\ (i - 1) + 1 = i
      BY <2>2
    <3>2. QED BY <1>4, <3>1
  <2>3. QED BY <2>1, <2>2
<1>10. QED BY <1>1, <1>4, <1>6, <1>7, <1>8, <1>9

LEMMA Successor == \A i \in Nat : i = 0 \/ \E k \in Nat : i = k + 1
<1>1. \A i \in Nat : i # 0 => i - 1 \in Nat /\ i = (i - 1) + 1
  OBVIOUS
<1>2. QED BY <1>1

\* Where the choices of a queue are when a directive has been put before it.
LEMMA PrependKeeps ==
    ASSUME NEW q \in Queues, NEW d \in Directives, NEW r, r = <<d>> \o q
    PROVE  /\ \A c : (\A j \in Nat : ~Yields(d, j, c)) =>
                  (Nowhere(q, c) => Nowhere(r, c)) /\ (Once(q, c) => Once(r, c))
           /\ \A a, b : Ahead(q, a, b) /\ (\A j \in Nat : ~Yields(d, j, b)) => Ahead(r, a, b)
<1>1. /\ \A i, j \in Nat : \A c : At(r, i + 1, j, c) <=> At(q, i, j, c) \/ (i = 0 /\ Yields(d, j, c))
      /\ \A j \in Nat : \A c : ~At(r, 0, j, c)
      /\ \A j \in Nat : \A c : ~At(q, 0, j, c)
  <2>1. \A j \in Nat : \A c : ~At(q, 0, j, c)
    BY DEF At
  <2>2. QED BY <2>1, PrependIs
<1>2. ASSUME NEW c, \A j \in Nat : ~Yields(d, j, c), Nowhere(q, c) PROVE Nowhere(r, c)
  <2>1. SUFFICES ASSUME NEW i \in Nat, NEW j \in Nat, At(r, i, j, c) PROVE FALSE
    BY DEF Nowhere
  <2>2. PICK k \in Nat : i = k + 1
    BY <1>1, <2>1, Successor
  <2>3. QED BY <1>1, <1>2, <2>1, <2>2 DEF Nowhere
<1>3. ASSUME NEW c, \A j \in Nat : ~Yields(d, j, c), Once(q, c) PROVE Once(r, c)
  <2>1. PICK i \in Nat, j \in Nat :
            At(q, i, j, c) /\ \A k, l \in Nat : At(q, k, l, c) => k = i /\ l = j
    BY <1>3 DEF Once
  <2>2. i + 1 \in Nat /\ At(r, i + 1, j, c)
    <3>1. At(q, i, j, c) /\ i + 1 \in Nat
      BY <2>1
    <3>2. At(r, i + 1, j, c) <=> At(q, i, j, c) \/ (i = 0 /\ Yields(d, j, c))
      BY ONLY <1>1
    <3>3. QED BY ONLY <3>1, <3>2
  <2>3. ASSUME NEW k \in Nat, NEW l \in Nat, At(r, k, l, c) PROVE k = i + 1 /\ l = j
    <3>1. PICK k0 \in Nat : k = k0 + 1
      BY <1>1, <2>3, Successor
    <3>2. At(q, k0, l, c)
      BY <1>1, <1>3, <2>3, <3>1
    <3>3. QED BY <2>1, <3>1, <3>2
  <2>4. QED BY <2>2, <2>3 DEF Once
<1>4. ASSUME NEW a, NEW b, Ahead(q, a, b), \A j \in Nat : ~Yields(d, j, b) PROVE Ahead(r, a, b)
  <2>1. SUFFICES ASSUME NEW i \in Nat, NEW j \in Nat, NEW k \in Nat, NEW l \in Nat,
                        At(r, i, j, a), At(r, k, l, b)
                 PROVE  i < k \/ (i = k /\ j < l)
    BY DEF Ahead
  <2>2. PICK i0 \in Nat : i = i0 + 1
    BY <1>1, <2>1, Successor
  <2>3. PICK k0 \in Nat : k = k0 + 1
    BY <1>1, <2>1, Successor
  <2>4. At(q, k0, l, b)
    BY <1>1, <1>4, <2>1, <2>3
  <2>5. k0 # 0
    BY <1>1, <2>4
  <2>6. CASE i0 = 0
    BY <2>2, <2>3, <2>5, <2>6
  <2>7. CASE At(q, i0, j, a)
    <3>1. i0 < k0 \/ (i0 = k0 /\ j < l)
      BY <1>4, <2>4, <2>7 DEF Ahead
    <3>2. QED BY <2>2, <2>3, <3>1
  <2>8. QED BY <1>1, <2>1, <2>2, <2>6, <2>7
<1>5. QED BY <1>2, <1>3, <1>4

\* What NextToolChoice leaves of a queue whose first choice is that of directive f.
AfterFirst(q, f) ==
    <<[q[f] EXCEPT !.values = Tail(@)]>> \o SubSeq(q, f + 1, Len(q))

LEMMA TakenIs ==
    ASSUME NEW q \in Queues, NEW f \in 1..Len(q), q[f].values # << >>,
           \A i \in 1..(f - 1) : q[i].values = << >>,
           NEW r, r = AfterFirst(q, f), NEW h, h = Head(q[f].values)
    PROVE  /\ r \in Queues
           /\ At(q, f, 1, h) /\ h \in Forced
           /\ \A c : At(q, f, 1, c) => c = h
           /\ \A i, j \in Nat : \A c : At(q, i, j, c) => f <= i /\ 1 <= j
           /\ \A j \in Nat : \A c : At(r, 1, j, c) <=> j # 0 /\ At(q, f, j + 1, c)
           /\ \A i, j \in Nat : \A c : i # 0 => (At(r, i + 1, j, c) <=> At(q, f + i, j, c))
           /\ \A j \in Nat : \A c : ~At(r, 0, j, c)
           /\ r[1].label = q[f].label
           /\ \A i \in 1..Len(r) : i # 1 => \E k \in 1..Len(q) : r[i] = q[k]
<1>1. PICK n \in Nat : n = Len(q)
  BY DEF Queues
<1>2. f \in Nat /\ f >= 1 /\ f <= n /\ f + 1 \in Int /\ n \in Int
  BY <1>1
<1>3. PICK v : v = q[f].values
  OBVIOUS
<1>4. q[f] \in Directives /\ v \in Seq(Forced) /\ v # << >>
  <2>1. q[f] \in Directives
    BY DEF Queues
  <2>2. q[f].values \in Seq(Forced)
    BY <2>1 DEF Directives
  <2>3. QED BY <1>3, <2>1, <2>2
<1>5. PICK w : w = Tail(v)
  OBVIOUS
<1>6. /\ h \in Forced /\ w \in Seq(Forced) /\ Len(v) \in Nat /\ Len(v) # 0
      /\ Len(w) = Len(v) - 1 /\ \A i \in 1..Len(w) : w[i] = v[i + 1]
      /\ h = v[1]
  BY <1>3, <1>4, <1>5, HeadTailProperties
<1>7. PICK d : d = [q[f] EXCEPT !.values = w]
  OBVIOUS
<1>8. d \in Directives /\ d.label = q[f].label /\ d.values = w
  BY <1>4, <1>6, <1>7 DEF Directives
<1>9. PICK rest : rest = SubSeq(q, f + 1, n)
  OBVIOUS
<1>10. /\ rest \in Queues /\ Len(rest) = n - f
       /\ \A i \in 1..(n - f) : rest[i] = q[f + i]
  <2>1. \A i \in (f + 1)..n : q[i] \in Directives
    <3>1. \A i \in (f + 1)..n : i \in 1..n
      BY <1>2
    <3>2. \A i \in 1..n : q[i] \in Directives
      BY <1>1 DEF Queues
    <3>3. QED BY <3>1, <3>2
  <2>2. /\ rest \in Seq(Directives)
        /\ Len(rest) = IF f + 1 <= n THEN n - (f + 1) + 1 ELSE 0
        /\ \A i \in 1..(n - (f + 1) + 1) : rest[i] = q[(f + 1) + i - 1]
    <3>1. PICK m \in Int : m = f + 1
      BY <1>2
    <3>2. rest = SubSeq(q, m, n) /\ n \in Int /\ \A i \in m..n : q[i] \in Directives
      BY <1>2, <1>9, <2>1, <3>1
    <3>3. /\ rest \in Seq(Directives)
          /\ Len(rest) = IF m <= n THEN n - m + 1 ELSE 0
          /\ \A i \in 1..(n - m + 1) : rest[i] = q[m + i - 1]
      BY ONLY m \in Int, <3>2, SubSeqProperties
    <3>4. QED BY <3>1, <3>3
  <2>3. n - (f + 1) + 1 = n - f /\ (~(f + 1 <= n) => n - f = 0)
    BY <1>2
  <2>4. Len(rest) = n - f
    BY <2>2, <2>3
  <2>5. \A i \in 1..(n - f) : (f + 1) + i - 1 = f + i
    BY <1>2
  <2>6. QED BY <2>2, <2>3, <2>4, <2>5 DEF Queues
<1>11. r = <<d>> \o rest
  BY <1>1, <1>3, <1>5, <1>7, <1>9 DEF AfterFirst
<1>12. /\ r \in Queues
       /\ \A j \in Nat : \A c : At(r, 1, j, c) <=> Yields(d, j, c)
       /\ \A i, j \in Nat : \A c : At(r, i + 1, j, c) <=> At(rest, i, j, c) \/ (i = 0 /\ Yields(d, j, c))
       /\ \A j \in Nat : \A c : ~At(r, 0, j, c)
  BY <1>8, <1>10, <1>11, PrependIs
<1>13. r[1] = d /\ \A i \in 1..Len(r) : i # 1 => \E k \in 1..n : r[i] = q[k]
  <2>1. PICK u : u = <<d>>
    OBVIOUS
  <2>2. u \in Queues /\ Len(u) = 1 /\ u[1] = d
    BY <1>8, <2>1 DEF Queues
  <2>3. /\ Len(r) = 1 + (n - f)
        /\ \A i \in 1..(1 + (n - f)) : r[i] = IF i <= 1 THEN u[i] ELSE rest[i - 1]
    <3>1. /\ Len(r) = Len(u) + Len(rest)
          /\ \A i \in 1..(Len(u) + Len(rest)) :
                r[i] = IF i <= Len(u) THEN u[i] ELSE rest[i - Len(u)]
      <4>1. r = u \o rest /\ u \in Seq(Directives) /\ rest \in Seq(Directives)
        BY <1>10, <1>11, <2>1, <2>2 DEF Queues
      <4>2. QED BY ONLY <4>1, ConcatProperties
    <3>2. QED BY <1>10, <2>2, <3>1
  <2>4. 1 \in 1..(1 + (n - f)) /\ 1 <= 1
    BY <1>2
  <2>5. r[1] = d
    BY <2>2, <2>3, <2>4
  <2>6. ASSUME NEW i \in 1..Len(r), i # 1 PROVE \E k \in 1..n : r[i] = q[k]
    <3>1. i \in 1..(1 + (n - f)) /\ ~(i <= 1) /\ i - 1 \in 1..(n - f) /\ f + (i - 1) \in 1..n
      BY <1>2, <2>3, <2>6
    <3>2. QED BY <1>10, <2>3, <3>1
  <2>7. QED BY <2>5, <2>6
<1>14. At(q, f, 1, h) /\ \A c : At(q, f, 1, c) => c = h
  BY <1>3, <1>6 DEF At, Yields
<1>15. ASSUME NEW i \in Nat, NEW j \in Nat, NEW c, At(q, i, j, c) PROVE f <= i /\ 1 <= j
  <2>1. i \in 1..n /\ j \in 1..Len(q[i].values)
    BY <1>1, <1>15 DEF At, Yields
  <2>2. q[i].values # << >> /\ 1 <= j
    BY <2>1
  <2>3. i \notin 1..(f - 1)
    BY <2>2
  <2>4. QED BY <1>2, <2>1, <2>2, <2>3
<1>16. ASSUME NEW j \in Nat, NEW c
       PROVE  At(r, 1, j, c) <=> j # 0 /\ At(q, f, j + 1, c)
  <2>1. Yields(d, j, c) <=> j \in 1..Len(w) /\ w[j] = c
    BY <1>8 DEF Yields
  <2>2. At(q, f, j + 1, c) <=> j + 1 \in 1..Len(v) /\ v[j + 1] = c
    BY <1>3 DEF At, Yields
  <2>3. j # 0 => (j \in 1..Len(w) <=> j + 1 \in 1..Len(v))
    BY <1>6
  <2>4. j \in 1..Len(w) => j # 0
    OBVIOUS
  <2>5. QED BY <1>6, <1>12, <2>1, <2>2, <2>3, <2>4
<1>17. ASSUME NEW i \in Nat, NEW j \in Nat, NEW c, i # 0
       PROVE  At(r, i + 1, j, c) <=> At(q, f + i, j, c)
  <2>1. i \in 1..(n - f) <=> f + i \in 1..n
    BY <1>2, <1>17
  <2>2. At(rest, i, j, c) <=> At(q, f + i, j, c)
    BY <1>1, <1>10, <2>1 DEF At
  <2>3. At(r, i + 1, j, c) <=> At(rest, i, j, c) \/ (i = 0 /\ Yields(d, j, c))
    BY ONLY <1>12
  <2>4. QED BY ONLY <1>17, <2>2, <2>3
<1>18. QED BY <1>1, <1>6, <1>8, <1>12, <1>13, <1>14, <1>15, <1>16, <1>17

\* Every place of r was a place of q behind the first choice, and the other way round.
WasAt(q, f, i, j, c) ==
    \E x, y \in Nat : /\ At(q, x, y, c)
                      /\ x = i + f - 1 /\ y = (IF i = 1 THEN j + 1 ELSE j)
                      /\ i # 0 /\ j # 0
IsNowAt(r, f, x, y, c) ==
    \E i, j \in Nat : /\ At(r, i, j, c)
                      /\ x = i + f - 1 /\ y = (IF i = 1 THEN j + 1 ELSE j)
                      /\ i # 0 /\ j # 0
Moved(q, f, r) ==
    /\ \A i, j \in Nat : \A c : At(r, i, j, c) => WasAt(q, f, i, j, c)
    /\ \A x, y \in Nat : \A c :
          At(q, x, y, c) => (x = f /\ y = 1) \/ IsNowAt(r, f, x, y, c)

LEMMA TakenPlaces ==
    ASSUME NEW q \in Queues, NEW f \in 1..Len(q), q[f].values # << >>,
           \A i \in 1..(f - 1) : q[i].values = << >>,
           NEW r, r = AfterFirst(q, f)
    PROVE  Moved(q, f, r)
<1>0. f \in Nat /\ f # 0
  OBVIOUS
<1>1. PICK h : h = Head(q[f].values)
  OBVIOUS
<1>2. /\ r \in Queues
      /\ At(q, f, 1, h) /\ h \in Forced
      /\ \A c : At(q, f, 1, c) => c = h
      /\ \A i, j \in Nat : \A c : At(q, i, j, c) => f <= i /\ 1 <= j
      /\ \A j \in Nat : \A c : At(r, 1, j, c) <=> j # 0 /\ At(q, f, j + 1, c)
      /\ \A i, j \in Nat : \A c : i # 0 => (At(r, i + 1, j, c) <=> At(q, f + i, j, c))
      /\ \A j \in Nat : \A c : ~At(r, 0, j, c)
  BY <1>1, TakenIs
<1>3. ASSUME NEW i \in Nat, NEW j \in Nat, NEW c, At(r, i, j, c)
      PROVE  WasAt(q, f, i, j, c)
  <2>1. i # 0
    BY <1>2, <1>3
  <2>2. CASE i = 1
    <3>1. At(r, 1, j, c)
      BY <1>3, <2>2
    <3>2. j # 0 /\ At(q, f, j + 1, c)
      BY ONLY <1>2, <3>1
    <3>3. f = i + f - 1 /\ j + 1 \in Nat /\ f \in Nat
      BY <1>0, <2>2
    <3>4. QED BY <2>1, <2>2, <3>2, <3>3 DEF WasAt
  <2>3. CASE i # 1
    <3>1. PICK k \in Nat : k = i - 1
      BY <2>1
    <3>2. k # 0 /\ i = k + 1 /\ f + k = i + f - 1 /\ f + k \in Nat
      BY <1>0, <2>3, <3>1
    <3>3. At(r, k + 1, j, c)
      BY <1>3, <3>2
    <3>4. At(q, f + k, j, c)
      BY ONLY <1>2, <3>2, <3>3
    <3>5. 1 <= j
      BY ONLY <1>2, <3>2, <3>4
    <3>6. j # 0
      BY <3>5
    <3>7. QED BY <2>1, <2>3, <3>2, <3>4, <3>6 DEF WasAt
  <2>4. QED BY <2>2, <2>3
<1>4. ASSUME NEW x \in Nat, NEW y \in Nat, NEW c, At(q, x, y, c), ~(x = f /\ y = 1)
      PROVE  IsNowAt(r, f, x, y, c)
  <2>1. f <= x /\ 1 <= y
    BY <1>2, <1>4
  <2>2. CASE x = f
    <3>1. PICK j \in Nat : y = j + 1
      BY <2>1, Successor
    <3>2. j # 0
      BY <1>4, <2>2, <3>1
    <3>3. At(q, f, j + 1, c)
      BY <1>4, <2>2, <3>1
    <3>4. At(r, 1, j, c)
      BY ONLY <1>2, <3>2, <3>3
    <3>5. x = 1 + f - 1 /\ 1 \in Nat /\ 1 # 0
      BY <1>0, <2>2
    <3>6. QED BY <3>1, <3>2, <3>4, <3>5 DEF IsNowAt
  <2>3. CASE x # f
    <3>1. PICK k \in Nat : k = x - f
      BY <1>0, <2>1
    <3>2. k # 0 /\ x = f + k /\ k + 1 \in Nat /\ x = (k + 1) + f - 1 /\ k + 1 # 1 /\ k + 1 # 0
      BY <1>0, <2>3, <3>1
    <3>3. At(q, f + k, y, c)
      BY <1>4, <3>2
    <3>4. At(r, k + 1, y, c)
      BY ONLY <1>2, <3>2, <3>3
    <3>5. y # 0
      BY <2>1
    <3>6. QED BY <3>2, <3>4, <3>5 DEF IsNowAt
  <2>4. QED BY <2>2, <2>3
<1>5. QED BY <1>3, <1>4 DEF Moved

LEMMA TakenKeeps ==
    ASSUME NEW q \in Queues, NEW f \in 1..Len(q), q[f].values # << >>,
           \A i \in 1..(f - 1) : q[i].values = << >>,
           NEW r, r = AfterFirst(q, f), NEW h, h = Head(q[f].values)
    PROVE  /\ \A c : Nowhere(q, c) => Nowhere(r, c)
           /\ \A c : Once(q, c) /\ c # h => Once(r, c)
           /\ Once(q, h) => Nowhere(r, h)
           /\ \A a, b : Ahead(q, a, b) => Ahead(r, a, b)
           /\ \A a : Ahead(q, a, h) => Nowhere(q, a)
<1>0. f \in Nat
  OBVIOUS
<1>1. /\ \A i, j \in Nat : \A c : At(r, i, j, c) => WasAt(q, f, i, j, c)
      /\ \A x, y \in Nat : \A c :
            At(q, x, y, c) => (x = f /\ y = 1) \/ IsNowAt(r, f, x, y, c)
  <2>1. Moved(q, f, r)
    BY TakenPlaces
  <2>2. QED BY <2>1 DEF Moved
<1>2. /\ r \in Queues
      /\ At(q, f, 1, h) /\ h \in Forced
      /\ \A c : At(q, f, 1, c) => c = h
      /\ \A i, j \in Nat : \A c : At(q, i, j, c) => f <= i /\ 1 <= j
  BY TakenIs
<1>3. ASSUME NEW c, Nowhere(q, c) PROVE Nowhere(r, c)
  <2>1. SUFFICES ASSUME NEW i \in Nat, NEW j \in Nat, At(r, i, j, c) PROVE FALSE
    BY DEF Nowhere
  <2>2. \E x, y \in Nat : At(q, x, y, c)
    BY <1>1, <2>1 DEF WasAt
  <2>3. QED BY <1>3, <2>2 DEF Nowhere
<1>4. ASSUME NEW c, Once(q, c), c # h PROVE Once(r, c)
  <2>1. PICK x \in Nat, y \in Nat :
            At(q, x, y, c) /\ \A k, l \in Nat : At(q, k, l, c) => k = x /\ l = y
    BY <1>4 DEF Once
  <2>2. ~(x = f /\ y = 1)
    BY <1>2, <1>4, <2>1
  <2>3. PICK i \in Nat, j \in Nat :
            At(r, i, j, c) /\ x = i + f - 1 /\ y = (IF i = 1 THEN j + 1 ELSE j)
    <3>1. IsNowAt(r, f, x, y, c)
      BY ONLY <1>1, <2>1, <2>2, x \in Nat, y \in Nat
    <3>2. QED BY <3>1 DEF IsNowAt
  <2>4. ASSUME NEW k \in Nat, NEW l \in Nat, At(r, k, l, c) PROVE k = i /\ l = j
    <3>1. PICK z \in Nat, w \in Nat :
              At(q, z, w, c) /\ z = k + f - 1 /\ w = (IF k = 1 THEN l + 1 ELSE l)
      BY <1>1, <2>4 DEF WasAt
    <3>2. z = x /\ w = y
      BY <2>1, <3>1
    <3>3. k = i
      BY <1>0, <2>3, <3>1, <3>2
    <3>4. QED BY <2>3, <3>1, <3>2, <3>3
  <2>5. QED BY <2>3, <2>4 DEF Once
<1>5. ASSUME Once(q, h) PROVE Nowhere(r, h)
  <2>1. SUFFICES ASSUME NEW i \in Nat, NEW j \in Nat, At(r, i, j, h) PROVE FALSE
    BY DEF Nowhere
  <2>2. PICK x \in Nat, y \in Nat :
            /\ At(q, x, y, h) /\ x = i + f - 1 /\ y = (IF i = 1 THEN j + 1 ELSE j)
            /\ i # 0 /\ j # 0
    BY <1>1, <2>1 DEF WasAt
  <2>3. x = f /\ y = 1
    BY <1>0, <1>2, <1>5, <2>2 DEF Once
  <2>4. i = 1
    BY <1>0, <2>2, <2>3
  <2>5. QED BY <2>2, <2>3, <2>4
<1>6. ASSUME NEW a, NEW b, Ahead(q, a, b) PROVE Ahead(r, a, b)
  <2>1. SUFFICES ASSUME NEW i \in Nat, NEW j \in Nat, NEW k \in Nat, NEW l \in Nat,
                        At(r, i, j, a), At(r, k, l, b)
                 PROVE  i < k \/ (i = k /\ j < l)
    BY DEF Ahead
  <2>2. PICK x \in Nat, y \in Nat :
            At(q, x, y, a) /\ x = i + f - 1 /\ y = (IF i = 1 THEN j + 1 ELSE j)
    BY <1>1, <2>1 DEF WasAt
  <2>3. PICK z \in Nat, w \in Nat :
            At(q, z, w, b) /\ z = k + f - 1 /\ w = (IF k = 1 THEN l + 1 ELSE l)
    BY <1>1, <2>1 DEF WasAt
  <2>4. x < z \/ (x = z /\ y < w)
    BY <1>6, <2>2, <2>3 DEF Ahead
  <2>5. (x < z => i < k) /\ (x = z => i = k)
    BY <1>0, <2>2, <2>3
  <2>6. i = k /\ y < w => j < l
    BY <2>2, <2>3
  <2>7. QED BY <2>4, <2>5, <2>6
<1>7. ASSUME NEW a, Ahead(q, a, h) PROVE Nowhere(q, a)
  <2>1. SUFFICES ASSUME NEW i \in Nat, NEW j \in Nat, At(q, i, j, a) PROVE FALSE
    BY DEF Nowhere
  <2>2. 1 \in Nat
    OBVIOUS
  <2>3. i < f \/ (i = f /\ j < 1)
    BY <1>0, <1>2, <1>7, <2>1, <2>2 DEF Ahead
  <2>4. f <= i /\ 1 <= j
    BY <1>2, <2>1
  <2>5. QED BY <1>0, <2>3, <2>4
<1>8. QED BY <1>3, <1>4, <1>5, <1>6, <1>7
-----------------------------------------------------------------------------
(***************************************************************************)
(* What the model says of the queue, in these terms.                       *)
(***************************************************************************)
LEMMA QueuedPlaces ==
    ASSUME queue \in Queues, NEW c
    PROVE  \A p : p \in Queued(c) <=> \E i, j \in Nat : p = <<i, j>> /\ At(queue, i, j, c)
<1>1. DOMAIN queue = 1..Len(queue) /\ \A i \in DOMAIN queue : i \in Nat
  BY DEF Queues
<1>2. ASSUME NEW i \in DOMAIN queue
      PROVE  \A j : j \in QueuedIn(i, c) <=> j \in Nat /\ Yields(queue[i], j, c)
  <2>1. queue[i] \in Directives /\ queue[i].values \in Seq(Forced)
    <3>1. queue[i] \in Directives
      BY DEF Queues
    <3>2. QED BY <3>1 DEF Directives
  <2>2. /\ DOMAIN queue[i].values = 1..Len(queue[i].values)
        /\ \A j \in 1..Len(queue[i].values) : j \in Nat
    BY <2>1
  <2>3. QED BY <2>2 DEF QueuedIn, Yields
<1>3. \A p : p \in Queued(c) <=> \E i \in DOMAIN queue : p \in {i} \X QueuedIn(i, c)
  BY DEF Queued
<1>4. QED BY <1>1, <1>2, <1>3 DEF At

LEMMA QueuedIs ==
    ASSUME queue \in Queues
    PROVE  /\ \A c : Queued(c) = {} <=> Nowhere(queue, c)
           /\ \A c : (\E p \in Queued(c) : Queued(c) = {p}) <=> Once(queue, c)
           /\ \A a, b : (\A p \in Queued(a), q \in Queued(b) : Earlier(p, q)) <=> Ahead(queue, a, b)
<1>1. \A c, p : p \in Queued(c) <=> \E i, j \in Nat : p = <<i, j>> /\ At(queue, i, j, c)
  BY QueuedPlaces
<1>2. \A c : Queued(c) = {} <=> Nowhere(queue, c)
  BY <1>1 DEF Nowhere
<1>3. ASSUME NEW c, NEW p \in Queued(c), Queued(c) = {p} PROVE Once(queue, c)
  <2>1. PICK i \in Nat, j \in Nat : p = <<i, j>> /\ At(queue, i, j, c)
    BY <1>1, <1>3
  <2>2. ASSUME NEW k \in Nat, NEW l \in Nat, At(queue, k, l, c) PROVE k = i /\ l = j
    <3>1. <<k, l>> \in Queued(c)
      BY <1>1, <2>2
    <3>2. QED BY <1>3, <2>1, <3>1
  <2>3. QED BY <2>1, <2>2 DEF Once
<1>4. ASSUME NEW c, Once(queue, c) PROVE \E p \in Queued(c) : Queued(c) = {p}
  <2>1. PICK i \in Nat, j \in Nat :
            At(queue, i, j, c) /\ \A k, l \in Nat : At(queue, k, l, c) => k = i /\ l = j
    BY <1>4 DEF Once
  <2>2. <<i, j>> \in Queued(c)
    BY <1>1, <2>1
  <2>3. ASSUME NEW p \in Queued(c) PROVE p = <<i, j>>
    BY <1>1, <2>1
  <2>4. QED BY <2>2, <2>3
<1>5. ASSUME NEW a, NEW b
      PROVE  (\A p \in Queued(a), q \in Queued(b) : Earlier(p, q)) <=> Ahead(queue, a, b)
  <2>1. ASSUME \A p \in Queued(a), q \in Queued(b) : Earlier(p, q) PROVE Ahead(queue, a, b)
    <3>1. SUFFICES ASSUME NEW i \in Nat, NEW j \in Nat, NEW k \in Nat, NEW l \in Nat,
                          At(queue, i, j, a), At(queue, k, l, b)
                   PROVE  i < k \/ (i = k /\ j < l)
      BY DEF Ahead
    <3>2. <<i, j>> \in Queued(a) /\ <<k, l>> \in Queued(b)
      BY <1>1, <3>1
    <3>3. Earlier(<<i, j>>, <<k, l>>)
      BY <2>1, <3>2
    <3>4. QED BY <3>3 DEF Earlier
  <2>2. ASSUME Ahead(queue, a, b), NEW p \in Queued(a), NEW q \in Queued(b)
        PROVE  Earlier(p, q)
    <3>1. PICK i \in Nat, j \in Nat : p = <<i, j>> /\ At(queue, i, j, a)
      BY <1>1
    <3>2. PICK k \in Nat, l \in Nat : q = <<k, l>> /\ At(queue, k, l, b)
      BY <1>1
    <3>3. i < k \/ (i = k /\ j < l)
      BY <2>2, <3>1, <3>2 DEF Ahead
    <3>4. QED BY <3>1, <3>2, <3>3 DEF Earlier
  <2>3. QED BY <2>1, <2>2
<1>6. QED BY <1>2, <1>3, <1>4, <1>5

\* What a directive yields.
LEMMA DirectiveIs ==
    ASSUME NEW label \in Labels, NEW owner \in 0..(MaxForces + MaxPreviews + MaxPrompts),
           NEW d, d = Directive(label, owner)
    PROVE  /\ d \in Directives /\ d.label = label
           /\ \A j \in Nat : \A c : Yields(d, j, c) <=>
                  /\ j = 1 \/ (j = 2 /\ label = "user-force")
                  /\ c = [label |-> label, owner |-> owner, part |-> j]
<1>1. PICK n \in Nat : n = IF label = "user-force" THEN 2 ELSE 1
  OBVIOUS
<1>2. PICK v : v = [i \in 1..n |-> [label |-> label, owner |-> owner, part |-> i]]
  OBVIOUS
<1>3. d = [label |-> label, values |-> v]
  BY <1>1, <1>2 DEF Directive
<1>4. \A i \in 1..n : i \in 1..2 /\ v[i] \in Forced
  BY <1>1, <1>2 DEF Forced
<1>5. v \in Seq(Forced) /\ Len(v) = n /\ DOMAIN v = 1..n
  BY <1>2, <1>4
<1>6. d \in Directives /\ d.label = label /\ d.values = v
  BY <1>3, <1>5 DEF Directives, DirectiveLabels
<1>7. \A j \in Nat : j \in 1..n <=> j = 1 \/ (j = 2 /\ label = "user-force")
  BY <1>1
<1>8. \A j \in Nat : \A c : Yields(d, j, c) <=>
          j \in 1..n /\ c = [label |-> label, owner |-> owner, part |-> j]
  BY <1>2, <1>5, <1>6 DEF Yields
<1>9. QED BY <1>6, <1>7, <1>8

\* What a step does to the choices, for those who only look at these.
Quiet == UNCHANGED <<choices, resolved, forced, previews, overtaken>>
Rejects == Reject /\ UNCHANGED <<resolved, forced, previews>> /\ (overtaken => overtaken')
Resolves == Resolve /\ UNCHANGED <<forced, previews, overtaken>>

LEMMA StepIs ==
    ASSUME [ChoiceNext]_choiceVars
    PROVE  \/ Quiet \/ Rejects \/ Resolves
           \/ SetForcedToolChoice \/ Request \/ Preview
           \/ \E p \in Prompts : PromptBegins(p, TRUE) \/ PromptEnds(p)
<1> USE DEF choices, run, bounds, history
<1>1. CASE UNCHANGED choiceVars
  BY <1>1 DEF choiceVars, Quiet
<1>2. ASSUME NEW p \in Prompts, NEW eager \in BOOLEAN, PromptBegins(p, eager), ~eager
      PROVE  Quiet
  BY <1>2 DEF PromptBegins, Quiet
<1>3. ASSUME NEW p \in Prompts, PromptWaits(p) \/ PromptRuns(p) PROVE Quiet
  BY <1>3 DEF PromptWaits, PromptRuns, Quiet
<1>4. CASE AnswerFails
  BY <1>4 DEF AnswerFails, Quiet
<1>5. CASE AnswerComes
  BY <1>5 DEF AnswerComes, Quiet
<1>6. CASE ToolsDone
  BY <1>6 DEF ToolsDone, Quiet
<1>7. CASE RunCapped
  BY <1>7 DEF RunCapped, Quiet
<1>8. ASSUME NEW next \in {"none", "request"}, RequestLost(next) PROVE Quiet
  BY <1>8 DEF RequestLost, Quiet
<1>9. ASSUME NEW listener \in ending, TurnEndHandled(listener) PROVE Rejects \/ Resolves
  BY <1>9 DEF TurnEndHandled, SettleInFlight, Rejects, Resolves
<1>10. CASE AbortBegins \/ AbortWaits
  BY <1>10 DEF AbortBegins, AbortWaits, Quiet
<1>11. CASE AbortEnds
  BY <1>11 DEF AbortEnds, Rejects
<1>12. QED
  BY <1>1, <1>2, <1>3, <1>4, <1>5, <1>6, <1>7, <1>8, <1>9, <1>10, <1>11
  DEF ChoiceNext, TurnStep

LEMMA NextToolChoiceIs ==
    ASSUME queue \in Queues, NextToolChoice
    PROVE  \/ /\ \A c : Nowhere(queue, c)
              /\ queue' = << >> /\ serving' = NoChoice /\ UNCHANGED <<inFlight, inFlightOf>>
           \/ \E f \in 1..Len(queue) :
                 /\ queue[f].values # << >>
                 /\ \A i \in 1..(f - 1) : queue[i].values = << >>
                 /\ queue' = AfterFirst(queue, f)
                 /\ serving' = Head(queue[f].values)
                 /\ inFlight' = serving' /\ inFlightOf' = queue[f].label
<1>1. PICK q \in Queues : q = queue
  OBVIOUS
<1>2. PICK f : f = FirstFilled(q)
  OBVIOUS
<1>3. /\ f = 0 => \A i \in 1..Len(q) : q[i].values = << >>
      /\ f # 0 => /\ f \in 1..Len(q) /\ q[f].values # << >>
                  /\ \A i \in 1..(f - 1) : q[i].values = << >>
  BY <1>2, FirstIs
<1>4. CASE f = 0
  <2>1. queue' = << >> /\ serving' = NoChoice /\ UNCHANGED <<inFlight, inFlightOf>>
    BY <1>1, <1>2, <1>4 DEF NextToolChoice, FirstFilled
  <2>2. \A i \in 1..Len(q) : \A j, c : ~Yields(q[i], j, c)
    <3>1. \A j : j \notin 1..Len(<< >>)
      OBVIOUS
    <3>2. QED BY <1>3, <1>4, <3>1 DEF Yields
  <2>3. \A c : Nowhere(queue, c)
    BY <1>1, <2>2 DEF Nowhere, At
  <2>4. QED BY <2>1, <2>3
<1>5. CASE f # 0
  <2>1. /\ serving' = Head(queue[f].values) /\ inFlight' = serving'
        /\ inFlightOf' = queue[f].label
        /\ queue' = AfterFirst(queue, f)
    BY <1>1, <1>2, <1>5 DEF NextToolChoice, FirstFilled, AfterFirst
  <2>2. QED BY <1>1, <1>3, <1>5, <2>1
<1>6. QED BY <1>4, <1>5

LEMMA RemoveIs ==
    ASSUME TodoInv, RemoveByLabel("eager-todo")
    PROVE  /\ queue' = Without(queue, "eager-todo")
           /\ \/ UNCHANGED <<inFlight, inFlightOf>>
              \/ inFlight.label = "eager-todo" /\ inFlight' = NoChoice /\ inFlightOf' = "none"
<1>1. CASE inFlightOf = "eager-todo"
  <2>1. inFlight.label = "eager-todo" /\ Rejected = queue
    BY <1>1 DEF TodoInv, Rejected
  <2>2. QED BY <1>1, <2>1 DEF RemoveByLabel, ClearInFlight
<1>2. CASE inFlightOf # "eager-todo"
  BY <1>2 DEF RemoveByLabel
<1>3. QED BY <1>1, <1>2

\* What comes back when a choice is rejected.
Returned == [label |-> Requeued(inFlightOf), values |-> <<inFlight>>]

LEMMA ReturnedIs ==
    ASSUME inFlight \in Forced
    PROVE  /\ Returned \in Directives /\ Returned.label # "eager-todo"
           /\ \A j \in Nat : \A c : Yields(Returned, j, c) <=> j = 1 /\ c = inFlight
<1>1. PICK v : v = <<inFlight>>
  OBVIOUS
<1>2. v \in Seq(Forced) /\ Len(v) = 1 /\ v[1] = inFlight
  BY <1>1
<1>3. Returned.values = v /\ Returned = [label |-> Requeued(inFlightOf), values |-> v]
  BY <1>1 DEF Returned
<1>4. Requeued(inFlightOf) \in DirectiveLabels /\ Requeued(inFlightOf) # "eager-todo"
  BY DEF Requeued, DirectiveLabels
<1>5. Returned \in Directives /\ Returned.label # "eager-todo"
  BY <1>2, <1>3, <1>4 DEF Directives
<1>6. \A j \in Nat : j \in 1..1 <=> j = 1
  OBVIOUS
<1>7. QED BY <1>2, <1>3, <1>5, <1>6 DEF Yields

LEMMA RejectIs ==
    ASSUME inFlight \in Forced \cup {NoChoice}, Reject
    PROVE  /\ inFlight' = NoChoice /\ inFlightOf' = "none"
           /\ \/ /\ inFlight = NoChoice \/ inFlight.label = "eager-todo"
                 /\ UNCHANGED queue
              \/ /\ inFlight \in Forced /\ inFlight.label # "eager-todo"
                 /\ queue' = <<Returned>> \o queue
BY DEF Reject, ClearInFlight, Rejected, Returned
-----------------------------------------------------------------------------
(* Types, and where the turn and the prompts stand.                        *)
LEMMA ChoiceTypeStep ==
    ASSUME ChoiceTypeOK, TodoInv, CountedInv, [ChoiceNext]_choiceVars
    PROVE  ChoiceTypeOK'
<1> USE BoundsAssumption
<1>0. queue \in Queues
  BY DEF ChoiceTypeOK, Queues
<1>1. queue' \in Queues /\ resolved' \in Seq(Forced)
      /\ inFlight' \in Forced \cup {NoChoice} /\ inFlightOf' \in DirectiveLabels \cup {"none"}
  <2>1. CASE Quiet
    BY <1>0, <2>1 DEF Quiet, ChoiceTypeOK, choices
  <2>2. CASE Rejects
    <3>1. Reject /\ UNCHANGED resolved /\ inFlight \in Forced \cup {NoChoice}
      BY <2>2 DEF Rejects, ChoiceTypeOK
    <3>2. queue' \in Queues
      <4>1. CASE UNCHANGED queue
        BY <1>0, <4>1
      <4>2. CASE inFlight \in Forced /\ queue' = <<Returned>> \o queue
        BY <1>0, <4>2, ReturnedIs, PrependIs
      <4>3. QED BY <3>1, <4>1, <4>2, RejectIs
    <3>3. QED BY <3>1, <3>2, RejectIs DEF ChoiceTypeOK
  <2>3. CASE Resolves
    <3>1. Resolve
      BY <2>3 DEF Resolves
    <3>2. CASE inFlight = NoChoice
      BY <1>0, <3>1, <3>2 DEF Resolve, choices, ChoiceTypeOK
    <3>3. CASE inFlight # NoChoice
      BY <1>0, <3>1, <3>3, AppendProperties DEF Resolve, ClearInFlight, ChoiceTypeOK
    <3>4. QED BY <3>2, <3>3
  <2>4. CASE SetForcedToolChoice
    <3>1. /\ forced' \in 0..(MaxForces + MaxPreviews + MaxPrompts)
          /\ queue' = Append(queue, Directive("user-force", forced'))
          /\ UNCHANGED <<inFlight, inFlightOf, resolved>>
      BY <2>4 DEF SetForcedToolChoice, ChoiceTypeOK, history
    <3>2. "user-force" \in Labels
      BY DEF Labels
    <3>3. Directive("user-force", forced') \in Directives
      BY <3>1, <3>2, DirectiveIs
    <3>4. queue' \in Queues
      BY <1>0, <3>1, <3>3, AppendIs
    <3>5. QED BY <3>1, <3>4 DEF ChoiceTypeOK
  <2>5. CASE Request
    <3>1. NextToolChoice /\ UNCHANGED resolved
      BY <2>5 DEF Request
    <3>2. CASE queue' = << >> /\ UNCHANGED <<inFlight, inFlightOf>>
      BY <3>1, <3>2 DEF ChoiceTypeOK, Queues
    <3>3. ASSUME NEW f \in 1..Len(queue), queue[f].values # << >>,
                 \A i \in 1..(f - 1) : queue[i].values = << >>,
                 queue' = AfterFirst(queue, f), inFlight' = Head(queue[f].values),
                 inFlightOf' = queue[f].label
          PROVE  /\ queue' \in Queues
                 /\ inFlight' \in Forced /\ inFlightOf' \in DirectiveLabels
      <4>1. queue' \in Queues /\ inFlight' \in Forced
        BY <1>0, <3>3, TakenIs
      <4>2. queue[f] \in Directives
        BY <1>0 DEF Queues
      <4>3. QED BY <3>3, <4>1, <4>2 DEF Directives
    <3>4. \/ queue' = << >> /\ UNCHANGED <<inFlight, inFlightOf>>
          \/ \E f \in 1..Len(queue) :
                 /\ queue[f].values # << >>
                 /\ \A i \in 1..(f - 1) : queue[i].values = << >>
                 /\ queue' = AfterFirst(queue, f)
                 /\ inFlight' = Head(queue[f].values)
                 /\ inFlightOf' = queue[f].label
      BY <1>0, <3>1, NextToolChoiceIs
    <3>5. QED BY <3>1, <3>2, <3>3, <3>4 DEF ChoiceTypeOK
  <2>6. CASE Preview
    <3>1. /\ previews' \in 0..(MaxForces + MaxPreviews + MaxPrompts)
          /\ queue' = <<Directive("pending-action", previews')>> \o queue
          /\ UNCHANGED <<inFlight, inFlightOf, resolved>>
      BY <2>6 DEF Preview, ChoiceTypeOK, history
    <3>2. "pending-action" \in Labels
      BY DEF Labels
    <3>3. Directive("pending-action", previews') \in Directives
      BY <3>1, <3>2, DirectiveIs
    <3>4. queue' \in Queues
      BY <1>0, <3>1, <3>3, PrependIs
    <3>5. QED BY <3>1, <3>4 DEF ChoiceTypeOK
  <2>7. ASSUME NEW p \in Prompts, PromptBegins(p, TRUE)
        PROVE  queue' \in Queues /\ UNCHANGED <<inFlight, inFlightOf, resolved>>
    <3>1. /\ p \in 0..(MaxForces + MaxPreviews + MaxPrompts)
          /\ queue' = Append(queue, Directive("eager-todo", p))
          /\ UNCHANGED <<inFlight, inFlightOf, resolved>>
      BY <2>7 DEF PromptBegins, Prompts, history
    <3>2. "eager-todo" \in Labels
      BY DEF Labels
    <3>3. Directive("eager-todo", p) \in Directives
      BY <3>1, <3>2, DirectiveIs
    <3>4. QED BY <1>0, <3>1, <3>3, AppendIs
  <2>8. ASSUME NEW p \in Prompts, PromptEnds(p)
        PROVE  /\ queue' \in Queues /\ UNCHANGED resolved
               /\ inFlight' \in Forced \cup {NoChoice}
               /\ inFlightOf' \in DirectiveLabels \cup {"none"}
    <3>1. RemoveByLabel("eager-todo") /\ UNCHANGED resolved
      BY <2>8 DEF PromptEnds, history
    <3>2. queue' \in Queues
      BY <1>0, <3>1, RemoveIs, WithoutIs
    <3>3. QED BY <3>1, <3>2, RemoveIs DEF ChoiceTypeOK
  <2>9. QED
    BY <2>1, <2>2, <2>3, <2>4, <2>5, <2>6, <2>7, <2>8, StepIs DEF ChoiceTypeOK
<1>2. serving' \in Forced \cup {NoChoice}
  <2>1. CASE Request
    <3>1. NextToolChoice
      BY <2>1 DEF Request
    <3>2. serving' = NoChoice \/ serving' = inFlight'
      BY <1>0, <3>1, NextToolChoiceIs
    <3>3. QED BY <1>1, <3>2
  <2>2. CASE ~Request
    <3>1. UNCHANGED serving
      BY <2>2 DEF ChoiceNext, choiceVars, TurnStep, SetForcedToolChoice, PromptBegins, PromptWaits,
                  PromptRuns, PromptEnds, RequestLost, AnswerFails, AnswerComes, Preview,
                  ToolsDone, RunCapped, TurnEndHandled, AbortBegins, AbortWaits, AbortEnds, run
    <3>2. QED BY <3>1 DEF ChoiceTypeOK
  <2>3. QED BY <2>1, <2>2
<1>3. ending' \subseteq [turn : 1..MaxTurns, verdict : {"resolve", "reject"}]
  <2>1. ASSUME NEW verdict \in {"resolve", "reject"}, turn \in {"answering", "tools"}, TurnEnds(verdict)
        PROVE  ending' \subseteq [turn : 1..MaxTurns, verdict : {"resolve", "reject"}]
    <3>1. turns \in 1..MaxTurns
      BY <2>1 DEF CountedInv, ChoiceTypeOK
    <3>2. QED BY <2>1, <3>1 DEF TurnEnds, ChoiceTypeOK
  <2>2. CASE AnswerFails
    BY <2>1, <2>2 DEF AnswerFails
  <2>3. CASE ToolsDone
    BY <2>1, <2>3 DEF ToolsDone
  <2>4. CASE \E listener \in ending : TurnEndHandled(listener)
    BY <2>4 DEF TurnEndHandled, ChoiceTypeOK
  <2>5. CASE UNCHANGED ending
    BY <2>5 DEF ChoiceTypeOK
  <2>6. QED
    BY <2>2, <2>3, <2>4, <2>5
    DEF ChoiceNext, choiceVars, TurnStep, SetForcedToolChoice, PromptBegins, PromptWaits,
        PromptRuns, PromptEnds, RequestLost, Request, AnswerComes, Preview, RunCapped,
        AbortBegins, AbortWaits, AbortEnds
<1>4. prompts' \in [Prompts -> PromptStates] /\ promptInFlightCount' \in 0..1 /\ runner' \in 0..MaxPrompts
  <2>1. ASSUME NEW p \in Prompts, NEW at \in {"setup", "retrying", "running", "over"},
               prompts' = [prompts EXCEPT ![p] = at]
        PROVE  prompts' \in [Prompts -> PromptStates]
    BY <2>1 DEF ChoiceTypeOK, PromptStates
  <2>2. ASSUME NEW p \in Prompts, NEW eager \in BOOLEAN,
               PromptBegins(p, eager) \/ PromptWaits(p) \/ PromptRuns(p) \/ PromptEnds(p)
        PROVE  /\ \E at \in {"setup", "retrying", "running", "over"} :
                      prompts' = [prompts EXCEPT ![p] = at]
               /\ promptInFlightCount' \in {0, 1, promptInFlightCount}
               /\ runner' \in {p, runner}
    BY <2>2 DEF PromptBegins, PromptWaits, PromptRuns, PromptEnds
  <2>3. AbortBegins => /\ prompts' \in [Prompts -> PromptStates]
                       /\ UNCHANGED <<promptInFlightCount, runner>>
    BY DEF AbortBegins, ChoiceTypeOK, PromptStates
  <2>4. AbortEnds => promptInFlightCount' = 0 /\ UNCHANGED <<prompts, runner>>
    BY DEF AbortEnds
  <2>5. \/ \E p \in Prompts, eager \in BOOLEAN :
               PromptBegins(p, eager) \/ PromptWaits(p) \/ PromptRuns(p) \/ PromptEnds(p)
        \/ AbortBegins \/ AbortEnds \/ UNCHANGED session
    BY DEF ChoiceNext, choiceVars, TurnStep, SetForcedToolChoice, RequestLost, Request, AnswerFails,
           AnswerComes, Preview, ToolsDone, RunCapped, TurnEndHandled, AbortWaits
  <2>6. \A p \in Prompts : p \in 0..MaxPrompts
    BY DEF Prompts
  <2>7. QED BY <2>1, <2>2, <2>3, <2>4, <2>5, <2>6 DEF ChoiceTypeOK, session
<1>5. turn' \in {"none", "request", "answering", "tools"} /\ turns' \in 0..MaxTurns
  <2>1. CASE Request
    BY <2>1 DEF Request, ChoiceTypeOK
  <2>2. CASE ~Request
    BY <2>2 DEF ChoiceTypeOK, ChoiceNext, choiceVars, TurnStep, SetForcedToolChoice, PromptBegins,
                PromptWaits, PromptRuns, PromptEnds, RequestLost, AnswerFails, AnswerComes,
                Preview, ToolsDone, RunCapped, TurnEndHandled, AbortBegins, AbortWaits,
                AbortEnds, run
  <2>3. QED BY <2>1, <2>2
<1>6. /\ forced' \in 0..MaxForces /\ previews' \in 0..MaxPreviews
      /\ aborts' \in 0..MaxAborts /\ faults' \in 0..MaxFaults
      /\ abort' \in {"none", "waiting", "resetting"}
  <2>1. /\ UNCHANGED forced \/ (forced < MaxForces /\ forced' = forced + 1)
        /\ UNCHANGED previews \/ (previews < MaxPreviews /\ previews' = previews + 1)
        /\ UNCHANGED aborts \/ (aborts < MaxAborts /\ aborts' = aborts + 1)
        /\ UNCHANGED faults \/ (faults < MaxFaults /\ faults' = faults + 1)
        /\ UNCHANGED abort \/ abort' \in {"none", "waiting", "resetting"}
    BY DEF ChoiceNext, choiceVars, TurnStep, SetForcedToolChoice, PromptBegins, PromptWaits,
           PromptRuns, PromptEnds, RequestLost, Request, AnswerFails, AnswerComes, Preview,
           ToolsDone, RunCapped, TurnEndHandled, AbortBegins, AbortWaits, AbortEnds, bounds
  <2>2. /\ forced \in 0..MaxForces /\ previews \in 0..MaxPreviews
        /\ aborts \in 0..MaxAborts /\ faults \in 0..MaxFaults
        /\ abort \in {"none", "waiting", "resetting"}
    BY DEF ChoiceTypeOK
  <2>3. QED BY <2>1, <2>2
<1>7. lost' \in BOOLEAN /\ overtaken' \in BOOLEAN /\ snatched' \in BOOLEAN
  <2>1. /\ snatched' = snatched \/ snatched' = FALSE
           \/ snatched' = (snatched \/ turn \in {"answering", "tools"})
        /\ lost' = lost \/ lost' = TRUE \/ lost' = FALSE
        /\ \/ overtaken' = overtaken
           \/ overtaken' = (overtaken \/ ending # {} \/ lost)
           \/ overtaken' = (overtaken \/ ending # {})
    BY DEF ChoiceNext, choiceVars, TurnStep, SetForcedToolChoice, PromptBegins,
           PromptWaits, PromptRuns, PromptEnds, RequestLost, Request, AnswerFails, AnswerComes,
           Preview, ToolsDone, RunCapped, TurnEndHandled, AbortBegins, AbortWaits, AbortEnds,
           history
  <2>2. QED BY <2>1 DEF ChoiceTypeOK
<1>8. QED BY <1>1, <1>2, <1>3, <1>4, <1>5, <1>6, <1>7 DEF ChoiceTypeOK, Queues

LEMMA CountedStep ==
    ASSUME ChoiceTypeOK, CountedInv, [ChoiceNext]_choiceVars
    PROVE  CountedInv'
<1>1. CASE Request
  BY <1>1 DEF Request, ChoiceTypeOK, CountedInv
<1>2. CASE ~Request
  <2>1. turns' = turns /\ (turn' \in {"answering", "tools"} => turn \in {"answering", "tools"})
    BY <1>2 DEF ChoiceNext, choiceVars, TurnStep, SetForcedToolChoice, PromptBegins, PromptWaits,
                PromptRuns, PromptEnds, RequestLost, AnswerFails, AnswerComes, Preview, ToolsDone,
                RunCapped, TurnEndHandled, AbortBegins, AbortWaits, AbortEnds, run
  <2>2. QED BY <2>1 DEF CountedInv
<1>3. QED BY <1>1, <1>2

LEMMA NothingLeftStep ==
    ASSUME ChoiceTypeOK, TodoInv, CountedInv, NothingLeftInFlight, [ChoiceNext]_choiceVars
    PROVE  NothingLeftInFlight'
<1>1. CASE ending' # {} \/ lost' \/ overtaken' \/ turn' \notin {"none", "request"}
  BY <1>1 DEF NothingLeftInFlight
<1>2. CASE inFlight' = NoChoice
  BY <1>2 DEF NothingLeftInFlight
<1>3. CASE /\ UNCHANGED <<inFlight, ending, lost, overtaken>>
           /\ turn' \in {"none", "request"} => turn \in {"none", "request"}
  BY <1>3 DEF NothingLeftInFlight
<1>4. ASSUME NEW p \in Prompts, PromptRuns(p) PROVE NothingLeftInFlight'
  <2>1. turn = "none" /\ UNCHANGED <<inFlight, ending, lost, overtaken>>
    BY <1>4 DEF PromptRuns, choices, history
  <2>2. QED BY <1>3, <2>1
<1>5. ASSUME NEW p \in Prompts, PromptEnds(p) PROVE NothingLeftInFlight'
  <2>1. RemoveByLabel("eager-todo") /\ UNCHANGED <<ending, turn, lost, overtaken>>
    BY <1>5 DEF PromptEnds, run, history
  <2>2. inFlight' = NoChoice \/ UNCHANGED inFlight
    BY <2>1, RemoveIs
  <2>3. QED BY <1>2, <1>3, <2>1, <2>2
<1>6. ASSUME NEW listener \in ending, TurnEndHandled(listener) PROVE NothingLeftInFlight'
  <2>1. Reject \/ Resolve
    BY <1>6 DEF TurnEndHandled, SettleInFlight
  <2>2. inFlight' = NoChoice
    BY <2>1 DEF Reject, Resolve, ClearInFlight, choices
  <2>3. QED BY <1>2, <2>2
<1>7. CASE AbortEnds
  BY <1>2, <1>7 DEF AbortEnds, Reject, ClearInFlight
<1>8. ASSUME TurnStep \/ AbortBegins \/ AbortWaits \/ \E p \in Prompts : PromptWaits(p)
      PROVE  \/ ending' # {} \/ lost' \/ turn' \notin {"none", "request"}
             \/ /\ UNCHANGED <<inFlight, ending, lost, overtaken>>
                /\ turn' \in {"none", "request"} => turn \in {"none", "request"}
  BY <1>8 DEF TurnStep, Request, AnswerFails, AnswerComes, Preview, ToolsDone, RunCapped,
              RequestLost, TurnEnds, AbortBegins, AbortWaits, PromptWaits, choices, run, history
<1>9. ASSUME SetForcedToolChoice \/ \E p \in Prompts, eager \in BOOLEAN : PromptBegins(p, eager)
      PROVE  UNCHANGED <<inFlight, ending, turn, lost, overtaken>>
  BY <1>9 DEF SetForcedToolChoice, PromptBegins, run, history
<1>10. CASE UNCHANGED choiceVars
  BY <1>3, <1>10 DEF choiceVars, choices, run, history
<1>11. QED
  BY <1>1, <1>3, <1>4, <1>5, <1>6, <1>7, <1>8, <1>9, <1>10 DEF ChoiceNext

LEMMA ServingStep ==
    ASSUME ChoiceTypeOK, TodoInv, CountedInv, NothingLeftInFlight, ServingInv,
           [ChoiceNext]_choiceVars
    PROVE  ServingInv'
<1>1. CASE overtaken' \/ turn' \notin {"answering", "tools"}
  BY <1>1 DEF ServingInv
<1>2. CASE /\ UNCHANGED <<inFlight, serving, ending, overtaken, snatched>>
           /\ turn' \in {"answering", "tools"} => turn \in {"answering", "tools"}
  BY <1>2 DEF ServingInv
<1>3. CASE Request /\ ~overtaken'
  <2>1. turn = "request" /\ ending = {} /\ ending' = {} /\ ~lost /\ ~overtaken /\ NextToolChoice
    BY <1>3 DEF Request, ChoiceTypeOK
  <2>2. inFlight = NoChoice /\ queue \in Queues
    BY <2>1 DEF NothingLeftInFlight, ChoiceTypeOK, Queues
  <2>3. inFlight' = serving'
    BY <2>1, <2>2, NextToolChoiceIs
  <2>4. QED BY <2>1, <2>3 DEF ServingInv
<1>4. ASSUME NEW p \in Prompts, PromptEnds(p) PROVE ServingInv'
  <2>1. RemoveByLabel("eager-todo") /\ UNCHANGED <<ending, turn, serving, overtaken, snatched>>
    BY <1>4 DEF PromptEnds, run, history
  <2>2. UNCHANGED inFlight \/ inFlight.label = "eager-todo"
    BY <2>1, RemoveIs
  <2>3. QED BY <2>1, <2>2 DEF ServingInv
<1>5. ASSUME NEW listener \in ending, TurnEndHandled(listener) PROVE ServingInv'
  <2>1. ending # {} /\ UNCHANGED <<turn, overtaken>>
    BY <1>5 DEF TurnEndHandled, run
  <2>2. QED BY <1>1, <2>1 DEF ServingInv
<1>6. CASE AbortEnds
  BY <1>1, <1>6 DEF AbortEnds, run, ServingInv
<1>7. ASSUME AnswerFails \/ AnswerComes \/ Preview \/ ToolsDone \/ RunCapped \/ AbortBegins
             \/ AbortWaits \/ (\E p \in Prompts : PromptWaits(p))
             \/ \E next \in {"none", "request"} : RequestLost(next)
      PROVE  \/ turn' \notin {"answering", "tools"}
             \/ /\ UNCHANGED <<inFlight, serving, ending, overtaken, snatched>>
                /\ turn' \in {"answering", "tools"} => turn \in {"answering", "tools"}
  BY <1>7 DEF AnswerFails, AnswerComes, Preview, ToolsDone, RunCapped, RequestLost, AbortBegins,
              AbortWaits, PromptWaits, choices, run, history
<1>8. ASSUME SetForcedToolChoice \/ \E p \in Prompts, eager \in BOOLEAN : PromptBegins(p, eager)
      PROVE  UNCHANGED <<inFlight, serving, ending, turn, overtaken, snatched>>
  BY <1>8 DEF SetForcedToolChoice, PromptBegins, run, history
<1>9. ASSUME NEW p \in Prompts, PromptRuns(p) PROVE turn' \notin {"answering", "tools"}
  BY <1>9 DEF PromptRuns
<1>10. CASE UNCHANGED choiceVars
  BY <1>2, <1>10 DEF choiceVars, choices, run, history
<1>11. QED
  BY <1>1, <1>2, <1>3, <1>4, <1>5, <1>6, <1>7, <1>8, <1>9, <1>10 DEF ChoiceNext, TurnStep
-----------------------------------------------------------------------------
(* The directives of todo calls.                                           *)
PureDirective(d) ==
    d.label = "eager-todo" => \A j \in Nat : \A c : Yields(d, j, c) => c.label = "eager-todo"
Pure(q) == \A i \in 1..Len(q) : PureDirective(q[i])

LEMMA PureIs ==
    ASSUME NEW q \in Queues
    PROVE  Pure(q) <=> \A i \in DOMAIN q : q[i].label = "eager-todo" =>
                           \A j \in DOMAIN q[i].values : q[i].values[j].label = "eager-todo"
<1>1. DOMAIN q = 1..Len(q)
  BY DEF Queues
<1>2. ASSUME NEW i \in 1..Len(q)
      PROVE  PureDirective(q[i]) <=>
                 (q[i].label = "eager-todo" =>
                      \A j \in DOMAIN q[i].values : q[i].values[j].label = "eager-todo")
  <2>1. q[i] \in Directives
    BY DEF Queues
  <2>2. q[i].values \in Seq(Forced)
    BY <2>1 DEF Directives
  <2>3. /\ DOMAIN q[i].values = 1..Len(q[i].values)
        /\ \A j \in 1..Len(q[i].values) : j \in Nat
    BY <2>2
  <2>4. QED BY <2>3 DEF PureDirective, Yields
<1>3. QED BY <1>1, <1>2 DEF Pure

LEMMA PureKept ==
    ASSUME NEW q \in Queues, Pure(q)
    PROVE  /\ \A d \in Directives : PureDirective(d) => Pure(Append(q, d)) /\ Pure(<<d>> \o q)
           /\ \A label : Pure(Without(q, label))
           /\ \A f \in 1..Len(q) :
                 q[f].values # << >> /\ (\A i \in 1..(f - 1) : q[i].values = << >>)
                 => Pure(AfterFirst(q, f))
<1>1. ASSUME NEW d \in Directives, PureDirective(d) PROVE Pure(Append(q, d))
  <2>1. PICK r : r = Append(q, d)
    OBVIOUS
  <2>2. \A i \in 1..Len(r) : (i \in 1..Len(q) /\ r[i] = q[i]) \/ r[i] = d
    BY <2>1, AppendIs
  <2>3. \A i \in 1..Len(r) : PureDirective(r[i])
    BY <1>1, <2>2 DEF Pure
  <2>4. QED BY <2>1, <2>3 DEF Pure
<1>2. ASSUME NEW d \in Directives, PureDirective(d) PROVE Pure(<<d>> \o q)
  <2>1. PICK r : r = <<d>> \o q
    OBVIOUS
  <2>2. \A i \in 1..Len(r) : r[i] = d \/ \E k \in 1..Len(q) : r[i] = q[k]
    <3>1. SUFFICES ASSUME NEW i \in 1..Len(r)
                   PROVE  r[i] = d \/ \E k \in 1..Len(q) : r[i] = q[k]
      OBVIOUS
    <3>2. QED BY <2>1, PrependIs
  <2>3. \A i \in 1..Len(r) : PureDirective(r[i])
    BY <1>2, <2>2 DEF Pure
  <2>4. QED BY <2>1, <2>3 DEF Pure
<1>3. ASSUME NEW label PROVE Pure(Without(q, label))
  <2>1. PICK r : r = Without(q, label)
    OBVIOUS
  <2>2. PICK m \in [1..Len(r) -> 1..Len(q)] : \A n \in 1..Len(r) : r[n] = q[m[n]]
    BY <2>1, WithoutIs
  <2>3. \A n \in 1..Len(r) : m[n] \in 1..Len(q) /\ r[n] = q[m[n]]
    BY <2>2
  <2>4. \A n \in 1..Len(r) : PureDirective(r[n])
    BY <2>3 DEF Pure
  <2>5. QED BY <2>1, <2>4 DEF Pure
<1>4. ASSUME NEW f \in 1..Len(q), q[f].values # << >>,
             \A i \in 1..(f - 1) : q[i].values = << >>
      PROVE  Pure(AfterFirst(q, f))
  <2>1. PICK r : r = AfterFirst(q, f)
    OBVIOUS
  <2>2. PICK h : h = Head(q[f].values)
    OBVIOUS
  <2>3. /\ r[1].label = q[f].label
        /\ \A j \in Nat : \A c : At(r, 1, j, c) <=> j # 0 /\ At(q, f, j + 1, c)
        /\ \A i \in 1..Len(r) : i # 1 => \E k \in 1..Len(q) : r[i] = q[k]
    BY <1>4, <2>1, <2>2, TakenIs
  <2>4. ASSUME 1 \in 1..Len(r) PROVE PureDirective(r[1])
    <3>1. SUFFICES ASSUME NEW j \in Nat, NEW c, Yields(r[1], j, c), r[1].label = "eager-todo"
                   PROVE  c.label = "eager-todo"
      BY DEF PureDirective
    <3>2. At(r, 1, j, c)
      BY <2>4, <3>1 DEF At
    <3>3. At(q, f, j + 1, c) /\ j + 1 \in Nat
      BY <2>3, <3>2
    <3>4. Yields(q[f], j + 1, c) /\ q[f].label = "eager-todo"
      BY <2>3, <3>1, <3>3 DEF At
    <3>5. QED BY <3>3, <3>4 DEF Pure, PureDirective
  <2>5. \A i \in 1..Len(r) : i # 1 => PureDirective(r[i])
    BY <2>3 DEF Pure
  <2>6. \A i \in 1..Len(r) : PureDirective(r[i])
    BY <2>4, <2>5
  <2>7. QED BY <2>1, <2>6 DEF Pure
<1>5. QED BY <1>1, <1>2, <1>3, <1>4

LEMMA DirectivePure ==
    ASSUME NEW label \in Labels, NEW owner \in 0..(MaxForces + MaxPreviews + MaxPrompts)
    PROVE  PureDirective(Directive(label, owner))
<1>1. PICK d : d = Directive(label, owner)
  OBVIOUS
<1>2. /\ d.label = label
      /\ \A j \in Nat : \A c : Yields(d, j, c) =>
                                   c = [label |-> label, owner |-> owner, part |-> j]
  BY <1>1, DirectiveIs
<1>3. QED BY <1>1, <1>2 DEF PureDirective

TodoParts ==
    queue \in Queues =>
        (TodoInv <=> Pure(queue) /\ (inFlightOf = "eager-todo" => inFlight.label = "eager-todo"))

LEMMA TodoPartsHold == TodoParts
BY PureIs DEF TodoParts, TodoInv

\* The owners there are when a directive is made.
LEMMA OwnersIn ==
    ASSUME ChoiceTypeOK
    PROVE  /\ SetForcedToolChoice => forced' \in 0..(MaxForces + MaxPreviews + MaxPrompts)
           /\ Preview => previews' \in 0..(MaxForces + MaxPreviews + MaxPrompts)
           /\ \A p \in Prompts : p \in 0..(MaxForces + MaxPreviews + MaxPrompts)
           /\ {"user-force", "pending-action", "eager-todo"} \subseteq Labels
BY BoundsAssumption DEF SetForcedToolChoice, Preview, ChoiceTypeOK, Prompts, Labels

LEMMA TodoStep ==
    ASSUME ChoiceTypeOK, TodoInv, ChoiceTypeOK', [ChoiceNext]_choiceVars
    PROVE  TodoInv'
<1>0. TodoParts /\ TodoParts'
  BY TodoPartsHold, PTL
<1>1. queue \in Queues /\ queue' \in Queues
  BY DEF ChoiceTypeOK, Queues
<1>2. /\ Pure(queue) /\ (inFlightOf = "eager-todo" => inFlight.label = "eager-todo")
      /\ TodoInv' <=> Pure(queue') /\ (inFlightOf' = "eager-todo" => inFlight'.label = "eager-todo")
  BY <1>0, <1>1 DEF TodoParts
<1>3. \A d \in Directives :
           PureDirective(d) => Pure(Append(queue, d)) /\ Pure(<<d>> \o queue)
  BY ONLY <1>1, <1>2, PureKept
<1>4. CASE Quiet
  BY <1>2, <1>4 DEF Quiet, choices
<1>5. CASE Rejects
  <2>1. Reject /\ inFlight \in Forced \cup {NoChoice}
    BY <1>5 DEF Rejects, ChoiceTypeOK
  <2>2. ASSUME inFlight \in Forced, queue' = <<Returned>> \o queue PROVE Pure(queue')
    <3>1. Returned \in Directives /\ PureDirective(Returned)
      BY <2>2, ReturnedIs DEF PureDirective
    <3>2. QED BY <1>2, <1>3, <2>2, <3>1
  <2>3. Pure(queue')
    BY <1>2, <2>1, <2>2, RejectIs
  <2>4. QED BY <1>2, <2>1, <2>3, RejectIs
<1>6. CASE Resolves
  BY <1>2, <1>6 DEF Resolves, Resolve, ClearInFlight, choices
<1>7. CASE SetForcedToolChoice
  <2>1. queue' = Append(queue, Directive("user-force", forced')) /\ UNCHANGED <<inFlight, inFlightOf>>
    BY <1>7 DEF SetForcedToolChoice
  <2>2. PICK d : d = Directive("user-force", forced')
    OBVIOUS
  <2>3. d \in Directives /\ PureDirective(d)
    BY <1>7, <2>2, OwnersIn, DirectiveIs, DirectivePure
  <2>4. QED BY <1>2, <1>3, <2>1, <2>2, <2>3
<1>8. CASE Preview
  <2>1. queue' = <<Directive("pending-action", previews')>> \o queue /\ UNCHANGED <<inFlight, inFlightOf>>
    BY <1>8 DEF Preview
  <2>2. PICK d : d = Directive("pending-action", previews')
    OBVIOUS
  <2>3. d \in Directives /\ PureDirective(d)
    BY <1>8, <2>2, OwnersIn, DirectiveIs, DirectivePure
  <2>4. QED BY <1>2, <1>3, <2>1, <2>2, <2>3
<1>9. ASSUME NEW p \in Prompts, PromptBegins(p, TRUE) PROVE TodoInv'
  <2>1. queue' = Append(queue, Directive("eager-todo", p)) /\ UNCHANGED <<inFlight, inFlightOf>>
    BY <1>9 DEF PromptBegins
  <2>2. PICK d : d = Directive("eager-todo", p)
    OBVIOUS
  <2>3. d \in Directives /\ PureDirective(d)
    BY <2>2, OwnersIn, DirectiveIs, DirectivePure
  <2>4. QED BY <1>2, <1>3, <2>1, <2>2, <2>3
<1>10. ASSUME NEW p \in Prompts, PromptEnds(p) PROVE TodoInv'
  <2>1. RemoveByLabel("eager-todo")
    BY <1>10 DEF PromptEnds
  <2>2. Pure(queue')
    BY <1>1, <1>2, <2>1, RemoveIs, PureKept
  <2>3. QED BY <1>2, <2>1, <2>2, RemoveIs
<1>11. CASE Request
  <2>1. NextToolChoice
    BY <1>11 DEF Request
  <2>2. CASE queue' = << >> /\ UNCHANGED <<inFlight, inFlightOf>>
    BY <1>2, <2>2 DEF Pure
  <2>3. ASSUME NEW f \in 1..Len(queue), queue[f].values # << >>,
               \A i \in 1..(f - 1) : queue[i].values = << >>,
               queue' = AfterFirst(queue, f), serving' = Head(queue[f].values),
               inFlight' = serving', inFlightOf' = queue[f].label
        PROVE  TodoInv'
    <3>1. Pure(queue')
      BY <1>1, <1>2, <2>3, PureKept
    <3>2. At(queue, f, 1, inFlight')
      BY <1>1, <2>3, TakenIs
    <3>3. PureDirective(queue[f])
      BY <1>2 DEF Pure
    <3>4. inFlightOf' = "eager-todo" => inFlight'.label = "eager-todo"
      BY <2>3, <3>2, <3>3 DEF PureDirective, At
    <3>5. QED BY <1>2, <3>1, <3>4
  <2>4. QED BY <1>1, <2>1, <2>2, <2>3, NextToolChoiceIs
<1>12. QED BY <1>4, <1>5, <1>6, <1>7, <1>8, <1>9, <1>10, <1>11, StepIs
-----------------------------------------------------------------------------
(* Where the choices are: in the queue, in flight, or served.              *)
PlaceFacts ==
    queue \in Queues =>
        /\ \A c : Queued(c) = {} <=> Nowhere(queue, c)
        /\ \A c : (\E p \in Queued(c) : Queued(c) = {p}) <=> Once(queue, c)
        /\ \A a, b :
              (\A p \in Queued(a), q \in Queued(b) : Earlier(p, q)) <=> Ahead(queue, a, b)

LEMMA PlaceFactsHold == PlaceFacts
BY QueuedIs DEF PlaceFacts

LEMMA NoChoiceIs == NoChoice \notin Forced
BY DEF NoChoice, Forced, Labels

\* A choice that a directive yields once is in the queue once it has been added.
LEMMA AddedOnce ==
    ASSUME NEW q \in Queues, NEW d \in Directives, NEW c, Nowhere(q, c),
           NEW j \in Nat, Yields(d, j, c), \A l \in Nat : Yields(d, l, c) => l = j
    PROVE  Once(Append(q, d), c) /\ Once(<<d>> \o q, c)
<1>1. Once(Append(q, d), c)
  <2>1. PICK r : r = Append(q, d)
    OBVIOUS
  <2>2. \A i, l \in Nat : \A e :
            At(r, i, l, e) <=> At(q, i, l, e) \/ (i = Len(q) + 1 /\ Yields(d, l, e))
    BY <2>1, AppendIs
  <2>3. PICK n \in Nat : n = Len(q) + 1
    BY DEF Queues
  <2>4. \A i, l \in Nat : At(r, i, l, c) <=> i = n /\ Yields(d, l, c)
    BY <2>2, <2>3 DEF Nowhere
  <2>5. QED BY <2>1, <2>4 DEF Once
<1>2. Once(<<d>> \o q, c)
  <2>1. PICK r : r = <<d>> \o q
    OBVIOUS
  <2>2. /\ \A l \in Nat : \A e : At(r, 1, l, e) <=> Yields(d, l, e)
        /\ \A i, l \in Nat : \A e :
              At(r, i + 1, l, e) <=> At(q, i, l, e) \/ (i = 0 /\ Yields(d, l, e))
        /\ \A l \in Nat : \A e : ~At(r, 0, l, e)
    BY <2>1, PrependIs
  <2>3. At(r, 1, j, c)
    BY <2>2
  <2>4. ASSUME NEW i \in Nat, NEW l \in Nat, At(r, i, l, c) PROVE i = 1 /\ l = j
    <3>1. PICK k \in Nat : i = k + 1
      BY <2>2, <2>4, Successor
    <3>2. k = 0 /\ Yields(d, l, c)
      <4>1. At(r, k + 1, l, c)
        BY <2>4, <3>1
      <4>2. At(q, k, l, c) \/ (k = 0 /\ Yields(d, l, c))
        BY ONLY <2>2, <4>1
      <4>3. QED BY <4>2 DEF Nowhere
    <3>3. QED BY <3>1, <3>2
  <2>5. 1 \in Nat
    OBVIOUS
  <2>6. QED BY <2>1, <2>3, <2>4, <2>5 DEF Once
<1>3. QED BY <1>1, <1>2

\* The choices of a new directive.
NewFrom(label, owner) ==
    {c \in Forced : c.label = label /\ c.owner = owner /\ (c.part = 1 \/ label = "user-force")}

LEMMA AddedIs ==
    ASSUME NEW q \in Queues, NEW label \in Labels,
           NEW owner \in 0..(MaxForces + MaxPreviews + MaxPrompts),
           NEW d, d = Directive(label, owner),
           NEW r, r = Append(q, d) \/ r = <<d>> \o q
    PROVE  /\ d \in Directives
           /\ \A c \in Forced : c \notin NewFrom(label, owner) =>
                  /\ \A j \in Nat : ~Yields(d, j, c)
                  /\ Nowhere(q, c) => Nowhere(r, c)
                  /\ Once(q, c) => Once(r, c)
           /\ \A c \in NewFrom(label, owner) : Nowhere(q, c) => Once(r, c)
<1>1. /\ d \in Directives
      /\ \A j \in Nat : \A c : Yields(d, j, c) <=>
            /\ j = 1 \/ (j = 2 /\ label = "user-force")
            /\ c = [label |-> label, owner |-> owner, part |-> j]
  BY DirectiveIs
<1>2. ASSUME NEW c \in Forced, NEW j \in Nat, Yields(d, j, c)
      PROVE  c \in NewFrom(label, owner)
  <2>1. (j = 1 \/ label = "user-force") /\ c = [label |-> label, owner |-> owner, part |-> j]
    BY <1>1, <1>2
  <2>2. QED BY <2>1 DEF NewFrom
<1>3. ASSUME NEW c \in Forced, c \notin NewFrom(label, owner)
      PROVE  (Nowhere(q, c) => Nowhere(r, c)) /\ (Once(q, c) => Once(r, c))
  <2>1. \A j \in Nat : ~Yields(d, j, c)
    BY <1>2, <1>3
  <2>2. CASE r = Append(q, d)
    BY <1>1, <2>1, <2>2, AppendKeeps
  <2>3. CASE r = <<d>> \o q
    BY <1>1, <2>1, <2>3, PrependKeeps
  <2>4. QED BY <2>2, <2>3
<1>4. ASSUME NEW c \in NewFrom(label, owner), Nowhere(q, c) PROVE Once(r, c)
  <2>1. /\ c.label = label /\ c.owner = owner /\ c.part \in 1..2
        /\ c = [label |-> c.label, owner |-> c.owner, part |-> c.part]
        /\ c.part = 1 \/ label = "user-force"
    BY DEF NewFrom, Forced
  <2>2. c.part \in Nat /\ (c.part = 1 \/ (c.part = 2 /\ label = "user-force"))
    BY <2>1
  <2>3. Yields(d, c.part, c)
    BY <1>1, <2>1, <2>2
  <2>4. ASSUME NEW l \in Nat, Yields(d, l, c) PROVE l = c.part
    <3>1. c = [label |-> label, owner |-> owner, part |-> l]
      BY <1>1, <2>4
    <3>2. QED BY <3>1
  <2>5. Once(Append(q, d), c) /\ Once(<<d>> \o q, c)
    BY <1>1, <1>4, <2>2, <2>3, <2>4, AddedOnce
  <2>6. QED BY <2>5
<1>5. QED BY <1>1, <1>2, <1>3, <1>4

LEMMA QueueAddedTo ==
    ASSUME queue \in Queues, NEW label \in Labels,
           NEW owner \in 0..(MaxForces + MaxPreviews + MaxPrompts),
           \/ queue' = Append(queue, Directive(label, owner))
           \/ queue' = <<Directive(label, owner)>> \o queue
    PROVE  /\ \A c \in Forced : c \notin NewFrom(label, owner) =>
                  /\ Nowhere(queue, c) => Nowhere(queue', c)
                  /\ Once(queue, c) => Once(queue', c)
           /\ \A c \in NewFrom(label, owner) : Nowhere(queue, c) => Once(queue', c)
<1>1. PICK q \in Queues : q = queue
  OBVIOUS
<1>2. PICK d : d = Directive(label, owner)
  OBVIOUS
<1>3. PICK r : r = queue'
  OBVIOUS
<1>4. r = Append(q, d) \/ r = <<d>> \o q
  BY <1>1, <1>2, <1>3
<1>5. /\ \A c \in Forced : c \notin NewFrom(label, owner) =>
             /\ \A j \in Nat : ~Yields(d, j, c)
             /\ Nowhere(q, c) => Nowhere(r, c)
             /\ Once(q, c) => Once(r, c)
      /\ \A c \in NewFrom(label, owner) : Nowhere(q, c) => Once(r, c)
  BY <1>2, <1>4, AddedIs
<1>6. QED BY <1>1, <1>3, <1>5

\* What serving one more does to the places of a choice among those served.
LEMMA ServedIs ==
    ASSUME resolved \in Seq(Forced), NEW c
    PROVE  /\ Served(c) \subseteq 1..Len(resolved)
           /\ UNCHANGED resolved => Served(c)' = Served(c)
           /\ \A h \in Forced : resolved' = Append(resolved, h) =>
                 /\ h # c => Served(c)' = Served(c)
                 /\ h = c => Served(c)' = Served(c) \cup {Len(resolved) + 1}
<1>1. DOMAIN resolved = 1..Len(resolved) /\ Len(resolved) \in Nat
  OBVIOUS
<1>2. Served(c) \subseteq 1..Len(resolved)
  BY <1>1 DEF Served
<1>3. ASSUME UNCHANGED resolved PROVE Served(c)' = Served(c)
  BY <1>3 DEF Served
<1>4. ASSUME NEW h \in Forced, resolved' = Append(resolved, h)
      PROVE  /\ h # c => Served(c)' = Served(c)
             /\ h = c => Served(c)' = Served(c) \cup {Len(resolved) + 1}
  <2>1. PICK n \in Nat : n = Len(resolved)
    BY <1>1
  <2>2. /\ DOMAIN resolved' = 1..(n + 1)
        /\ \A i \in 1..n : resolved'[i] = resolved[i]
        /\ resolved'[n + 1] = h
    <3>1. /\ resolved' \in Seq(Forced) /\ Len(resolved') = n + 1
          /\ \A i \in 1..n : resolved'[i] = resolved[i]
          /\ resolved'[n + 1] = h
      BY <1>4, <2>1, AppendProperties
    <3>2. QED BY <3>1
  <2>3. \A i : i \in 1..(n + 1) <=> i \in 1..n \/ i = n + 1
    OBVIOUS
  <2>4. n + 1 \notin 1..n
    OBVIOUS
  <2>5. Served(c)' = {i \in 1..(n + 1) : resolved'[i] = c}
    BY <2>2 DEF Served
  <2>6. Served(c) = {i \in 1..n : resolved[i] = c}
    BY <1>1, <2>1 DEF Served
  <2>7. ASSUME NEW i PROVE i \in Served(c)' <=> i \in Served(c) \/ (i = n + 1 /\ h = c)
    BY <2>2, <2>3, <2>4, <2>5, <2>6
  <2>8. QED BY <2>1, <2>7
<1>5. QED BY <1>2, <1>3, <1>4

\* Who is wanted back, after a step.
LEMMA WantedStep ==
    ASSUME ChoiceTypeOK, ChoiceTypeOK', [ChoiceNext]_choiceVars
    PROVE  /\ \A c : Issued(c) => Issued(c)'
           /\ SetForcedToolChoice =>
                 /\ Wanted' = Wanted \cup NewFrom("user-force", forced')
                 /\ \A c \in NewFrom("user-force", forced') : c \in Forced /\ ~Issued(c)
           /\ Preview =>
                 /\ Wanted' = Wanted \cup NewFrom("pending-action", previews')
                 /\ \A c \in NewFrom("pending-action", previews') : c \in Forced /\ ~Issued(c)
           /\ UNCHANGED <<forced, previews>> => Wanted' = Wanted
<1>1. UNCHANGED <<forced, previews>> => Wanted' = Wanted
  BY DEF Wanted
<1>2. CASE SetForcedToolChoice
  <2>1. forced' = forced + 1 /\ forced \in Nat /\ previews' = previews
    BY <1>2 DEF SetForcedToolChoice, ChoiceTypeOK
  <2>2. 1..forced' = (1..forced) \cup {forced'} /\ forced' \notin 1..forced
    BY <2>1
  <2>3. ASSUME NEW c \in Forced
        PROVE  c \in Wanted' <=> c \in Wanted \/ c \in NewFrom("user-force", forced')
    BY <2>1, <2>2 DEF Wanted, NewFrom
  <2>4. Wanted' = Wanted \cup NewFrom("user-force", forced')
    BY <2>3 DEF Wanted, NewFrom
  <2>5. \A c \in NewFrom("user-force", forced') : c \in Forced /\ ~Issued(c)
    BY <2>2 DEF NewFrom, Issued, Wanted
  <2>6. \A c : Issued(c) => Issued(c)'
    BY <2>4 DEF Issued
  <2>7. ~Preview /\ ~UNCHANGED <<forced, previews>>
    BY <1>2, <2>1 DEF SetForcedToolChoice, Preview, run
  <2>8. QED BY <2>4, <2>5, <2>6, <2>7
<1>3. CASE Preview
  <2>1. previews' = previews + 1 /\ previews \in Nat /\ forced' = forced
    BY <1>3 DEF Preview, ChoiceTypeOK
  <2>2. 1..previews' = (1..previews) \cup {previews'} /\ previews' \notin 1..previews
    BY <2>1
  <2>3. ASSUME NEW c \in Forced
        PROVE  c \in Wanted' <=> c \in Wanted \/ c \in NewFrom("pending-action", previews')
    BY <2>1, <2>2 DEF Wanted, NewFrom
  <2>4. Wanted' = Wanted \cup NewFrom("pending-action", previews')
    BY <2>3 DEF Wanted, NewFrom
  <2>5. \A c \in NewFrom("pending-action", previews') : c \in Forced /\ ~Issued(c)
    BY <2>2 DEF NewFrom, Issued, Wanted
  <2>6. \A c : Issued(c) => Issued(c)'
    BY <2>4 DEF Issued
  <2>7. ~SetForcedToolChoice /\ ~UNCHANGED <<forced, previews>>
    BY <2>1 DEF SetForcedToolChoice, ChoiceTypeOK
  <2>8. QED BY <2>4, <2>5, <2>6, <2>7
<1>4. CASE ~SetForcedToolChoice /\ ~Preview
  <2>1. UNCHANGED <<forced, previews>>
    BY <1>4 DEF ChoiceNext, choiceVars, TurnStep, PromptBegins, PromptWaits, PromptRuns,
                PromptEnds, RequestLost,
                Request, AnswerFails, AnswerComes, ToolsDone, RunCapped, TurnEndHandled,
                AbortBegins, AbortWaits, AbortEnds, bounds
  <2>2. \A c : Issued(c) => Issued(c)'
    BY <1>1, <2>1 DEF Issued
  <2>3. QED BY <1>1, <1>4, <2>2
<1>5. QED BY <1>2, <1>3, <1>4

\* A choice that nobody has asked for is nowhere.
Absent(c) == Served(c) = {} /\ inFlight # c /\ Queued(c) = {}

LEMMA IssuedStep ==
    ASSUME ChoiceTypeOK, TodoInv, ChoiceTypeOK', IssuedInv, [ChoiceNext]_choiceVars
    PROVE  IssuedInv'
<1>0. PlaceFacts /\ PlaceFacts'
  BY PlaceFactsHold, PTL
<1>1. queue \in Queues /\ queue' \in Queues /\ resolved \in Seq(Forced)
      /\ inFlight \in Forced \cup {NoChoice}
  BY DEF ChoiceTypeOK, Queues
<1>2. SUFFICES ASSUME NEW c \in Forced, ~Issued(c)' PROVE Absent(c)'
  BY DEF IssuedInv, Absent
<1>3. ~Issued(c)
  BY <1>2, WantedStep
<1>4. Served(c) = {} /\ inFlight # c /\ Nowhere(queue, c) /\ c # NoChoice
  BY <1>0, <1>1, <1>3, NoChoiceIs DEF IssuedInv, PlaceFacts
<1>5. /\ Queued(c)' = {} <=> Nowhere(queue', c)
      /\ UNCHANGED resolved => Served(c)' = {}
  BY <1>0, <1>1, <1>4, ServedIs DEF PlaceFacts
<1>6. CASE Quiet
  BY <1>4, <1>5, <1>6 DEF Quiet, choices, Absent
<1>7. CASE Rejects
  <2>1. Reject /\ UNCHANGED resolved
    BY <1>7 DEF Rejects
  <2>2. ASSUME inFlight \in Forced, queue' = <<Returned>> \o queue PROVE Nowhere(queue', c)
    <3>1. Returned \in Directives /\ \A j \in Nat : ~Yields(Returned, j, c)
      BY <1>4, <2>2, ReturnedIs
    <3>2. QED BY <1>1, <1>4, <2>2, <3>1, PrependKeeps
  <2>3. Nowhere(queue', c) /\ inFlight' = NoChoice
    BY <1>1, <1>4, <2>1, <2>2, RejectIs
  <2>4. QED BY <1>4, <1>5, <2>1, <2>3 DEF Absent
<1>8. CASE Resolves
  <2>1. Resolve
    BY <1>8 DEF Resolves
  <2>2. CASE inFlight = NoChoice
    BY <1>4, <1>5, <2>1, <2>2 DEF Resolve, choices, Absent
  <2>3. CASE inFlight # NoChoice
    <3>1. /\ resolved' = Append(resolved, inFlight) /\ inFlight' = NoChoice /\ UNCHANGED queue
          /\ inFlight \in Forced
      BY <1>1, <2>1, <2>3 DEF Resolve, ClearInFlight
    <3>2. Served(c)' = {}
      BY <1>1, <1>4, <3>1, ServedIs
    <3>3. QED BY <1>4, <1>5, <3>1, <3>2 DEF Absent
  <2>4. QED BY <2>2, <2>3
<1>9. CASE SetForcedToolChoice
  <2>1. /\ queue' = Append(queue, Directive("user-force", forced'))
        /\ UNCHANGED <<inFlight, resolved>>
    BY <1>9 DEF SetForcedToolChoice, history
  <2>2. c \notin NewFrom("user-force", forced')
    BY <1>2, <1>9, WantedStep DEF Issued
  <2>3. "user-force" \in Labels /\ forced' \in 0..(MaxForces + MaxPreviews + MaxPrompts)
    BY <1>9, OwnersIn
  <2>4. Nowhere(queue', c)
    BY <1>1, <1>4, <2>1, <2>2, <2>3, QueueAddedTo
  <2>5. QED BY <1>4, <1>5, <2>1, <2>4 DEF Absent
<1>10. CASE Preview
  <2>1. /\ queue' = <<Directive("pending-action", previews')>> \o queue
        /\ UNCHANGED <<inFlight, resolved>>
    BY <1>10 DEF Preview, history
  <2>2. c \notin NewFrom("pending-action", previews')
    BY <1>2, <1>10, WantedStep DEF Issued
  <2>3. "pending-action" \in Labels /\ previews' \in 0..(MaxForces + MaxPreviews + MaxPrompts)
    BY <1>10, OwnersIn
  <2>4. Nowhere(queue', c)
    BY <1>1, <1>4, <2>1, <2>2, <2>3, QueueAddedTo
  <2>5. QED BY <1>4, <1>5, <2>1, <2>4 DEF Absent
<1>11. ASSUME NEW p \in Prompts, PromptBegins(p, TRUE) PROVE Absent(c)'
  <2>1. /\ queue' = Append(queue, Directive("eager-todo", p))
        /\ UNCHANGED <<inFlight, resolved>>
    BY <1>11 DEF PromptBegins, history
  <2>2. c \notin NewFrom("eager-todo", p)
    BY <1>2 DEF NewFrom, Issued
  <2>3. "eager-todo" \in Labels /\ p \in 0..(MaxForces + MaxPreviews + MaxPrompts)
    BY OwnersIn
  <2>4. Nowhere(queue', c)
    BY <1>1, <1>4, <2>1, <2>2, <2>3, QueueAddedTo
  <2>5. QED BY <1>4, <1>5, <2>1, <2>4 DEF Absent
<1>12. ASSUME NEW p \in Prompts, PromptEnds(p) PROVE Absent(c)'
  <2>1. RemoveByLabel("eager-todo") /\ UNCHANGED resolved
    BY <1>12 DEF PromptEnds, history
  <2>2. Nowhere(queue', c)
    BY <1>1, <1>4, <2>1, RemoveIs, WithoutKeeps
  <2>3. inFlight' # c
    BY <1>4, <2>1, RemoveIs
  <2>4. QED BY <1>5, <2>1, <2>2, <2>3 DEF Absent
<1>13. CASE Request
  <2>1. NextToolChoice /\ UNCHANGED resolved
    BY <1>13 DEF Request
  <2>2. CASE queue' = << >> /\ UNCHANGED inFlight
    <3>1. Nowhere(queue', c)
      BY <2>2 DEF Nowhere, At
    <3>2. QED BY <1>4, <1>5, <2>1, <2>2, <3>1 DEF Absent
  <2>3. ASSUME NEW f \in 1..Len(queue), queue[f].values # << >>,
               \A i \in 1..(f - 1) : queue[i].values = << >>,
               queue' = AfterFirst(queue, f), inFlight' = Head(queue[f].values)
        PROVE  Absent(c)'
    <3>1. Nowhere(queue', c)
      BY ONLY <1>1, <1>4, <2>3, f \in 1..Len(queue), TakenKeeps
    <3>2. At(queue, f, 1, inFlight')
      BY <1>1, <2>3, TakenIs
    <3>3. f \in Nat /\ 1 \in Nat
      OBVIOUS
    <3>4. inFlight' # c
      BY <1>4, <3>2, <3>3 DEF Nowhere
    <3>5. QED BY <1>5, <2>1, <3>1, <3>4 DEF Absent
  <2>4. QED BY <1>1, <2>1, <2>2, <2>3, NextToolChoiceIs
<1>14. QED BY <1>6, <1>7, <1>8, <1>9, <1>10, <1>11, <1>12, <1>13, StepIs

\* OnlyServed, OnlyInFlight and OnlyQueued, with the queue in terms of places.
InOnePlace(c) ==
    \/ (\E i \in Served(c) : Served(c) = {i}) /\ inFlight # c /\ Nowhere(queue, c)
    \/ Served(c) = {} /\ inFlight = c /\ Nowhere(queue, c)
    \/ Served(c) = {} /\ inFlight # c /\ Once(queue, c)
OnePlaceFacts ==
    queue \in Queues =>
        \A c : InOnePlace(c) <=> OnlyServed(c) \/ OnlyInFlight(c) \/ OnlyQueued(c)

LEMMA OnePlaceFactsHold == OnePlaceFacts
BY QueuedIs DEF OnePlaceFacts, InOnePlace, OnlyServed, OnlyInFlight, OnlyQueued

\* Nothing is at a place and at none.
LEMMA OnceOrNowhere ==
    ASSUME NEW q, NEW c
    PROVE  /\ ~(Once(q, c) /\ Nowhere(q, c))
           /\ \A i, j \in Nat : At(q, i, j, c) => ~Nowhere(q, c)
BY DEF Once, Nowhere

LEMMA KeptStep ==
    ASSUME ChoiceTypeOK, TodoInv, ChoiceTypeOK', IssuedInv, NothingLeftInFlight, KeptInv,
           [ChoiceNext]_choiceVars
    PROVE  KeptInv'
<1>0. PlaceFacts /\ OnePlaceFacts /\ OnePlaceFacts'
  BY PlaceFactsHold, OnePlaceFactsHold, PTL
<1>1. queue \in Queues /\ queue' \in Queues /\ resolved \in Seq(Forced)
      /\ inFlight \in Forced \cup {NoChoice}
  BY DEF ChoiceTypeOK, Queues
<1>2. overtaken => overtaken'
  BY DEF ChoiceNext, choiceVars, TurnStep, SetForcedToolChoice, PromptBegins, PromptWaits,
         PromptRuns, PromptEnds, RequestLost, Request, AnswerFails, AnswerComes, Preview, ToolsDone,
         RunCapped, TurnEndHandled, AbortBegins, AbortWaits, AbortEnds, history
<1>3. SUFFICES ASSUME ~overtaken', NEW c \in Wanted' PROVE InOnePlace(c)'
  BY <1>0, <1>1 DEF KeptInv, OnePlaceFacts
<1>4. c \in Forced /\ c # NoChoice /\ c.label # "eager-todo"
  BY NoChoiceIs DEF Wanted
<1>5. c \in Wanted => InOnePlace(c)
  BY <1>0, <1>1, <1>2, <1>3 DEF KeptInv, OnePlaceFacts
<1>6. /\ UNCHANGED resolved => Served(c)' = Served(c)
      /\ \A h \in Forced : resolved' = Append(resolved, h) =>
            /\ h # c => Served(c)' = Served(c)
            /\ h = c => Served(c)' = Served(c) \cup {Len(resolved) + 1}
  BY <1>1, ServedIs
<1>7. CASE Quiet
  BY <1>3, <1>5, <1>6, <1>7, WantedStep DEF Quiet, choices, InOnePlace
<1>8. ASSUME UNCHANGED <<forced, previews>> PROVE InOnePlace(c)
  BY <1>3, <1>5, <1>8, WantedStep
<1>9. CASE Rejects
  <2>1. Reject /\ UNCHANGED <<resolved, forced, previews>>
    BY <1>9 DEF Rejects
  <2>2. inFlight' = NoChoice /\ Served(c)' = Served(c) /\ InOnePlace(c)
    BY <1>1, <1>6, <1>8, <2>1, RejectIs
  <2>3. CASE UNCHANGED queue /\ (inFlight = NoChoice \/ inFlight.label = "eager-todo")
    BY <1>4, <2>2, <2>3 DEF InOnePlace
  <2>4. ASSUME inFlight \in Forced, queue' = <<Returned>> \o queue PROVE InOnePlace(c)'
    <3>1. /\ Returned \in Directives
          /\ \A j \in Nat : \A e : Yields(Returned, j, e) <=> j = 1 /\ e = inFlight
      BY <2>4, ReturnedIs
    <3>2. CASE inFlight = c
      <4>1. Served(c) = {} /\ Nowhere(queue, c)
        BY <2>2, <3>2 DEF InOnePlace
      <4>2. Once(queue', c)
        <5>1. 1 \in Nat /\ Yields(Returned, 1, c) /\ \A l \in Nat : Yields(Returned, l, c) => l = 1
          BY <3>1, <3>2
        <5>2. QED BY <1>1, <2>4, <3>1, <4>1, <5>1, AddedOnce
      <4>3. QED BY <1>4, <2>2, <4>1, <4>2 DEF InOnePlace
    <3>3. CASE inFlight # c
      <4>1. \A j \in Nat : ~Yields(Returned, j, c)
        BY <3>1, <3>3
      <4>2. (Nowhere(queue, c) => Nowhere(queue', c)) /\ (Once(queue, c) => Once(queue', c))
        BY <1>1, <2>4, <3>1, <4>1, PrependKeeps
      <4>3. QED BY <1>4, <2>2, <3>3, <4>2 DEF InOnePlace
    <3>4. QED BY <3>2, <3>3
  <2>5. QED BY <1>1, <2>1, <2>3, <2>4, RejectIs
<1>10. CASE Resolves
  <2>1. Resolve /\ InOnePlace(c)
    BY <1>8, <1>10 DEF Resolves
  <2>2. CASE inFlight = NoChoice
    BY <1>6, <2>1, <2>2 DEF Resolve, choices, InOnePlace
  <2>3. CASE inFlight # NoChoice
    <3>1. /\ resolved' = Append(resolved, inFlight) /\ inFlight' = NoChoice /\ UNCHANGED queue
          /\ inFlight \in Forced
      BY <1>1, <2>1, <2>3 DEF Resolve, ClearInFlight
    <3>2. CASE inFlight = c
      <4>1. Served(c) = {} /\ Nowhere(queue, c)
        BY <2>1, <3>2 DEF InOnePlace
      <4>2. Served(c)' = {Len(resolved) + 1}
        BY <1>6, <3>1, <3>2, <4>1
      <4>3. QED BY <1>4, <3>1, <4>1, <4>2 DEF InOnePlace
    <3>3. CASE inFlight # c
      <4>1. Served(c)' = Served(c)
        BY <1>6, <3>1, <3>3
      <4>2. QED BY <1>4, <2>1, <3>1, <3>3, <4>1 DEF InOnePlace
    <3>4. QED BY <3>2, <3>3
  <2>4. QED BY <2>2, <2>3
<1>11. ASSUME NEW label \in Labels, NEW owner \in 0..(MaxForces + MaxPreviews + MaxPrompts),
              \/ queue' = Append(queue, Directive(label, owner))
              \/ queue' = <<Directive(label, owner)>> \o queue,
              UNCHANGED <<inFlight, resolved>>,
              \/ InOnePlace(c) /\ c \notin NewFrom(label, owner)
              \/ c \in NewFrom(label, owner) /\ ~Issued(c)
       PROVE  InOnePlace(c)'
  <2>1. /\ \A e \in Forced : e \notin NewFrom(label, owner) =>
                /\ Nowhere(queue, e) => Nowhere(queue', e)
                /\ Once(queue, e) => Once(queue', e)
        /\ \A e \in NewFrom(label, owner) : Nowhere(queue, e) => Once(queue', e)
    BY <1>1, <1>11, QueueAddedTo
  <2>2. Served(c)' = Served(c) /\ inFlight' = inFlight
    BY <1>6, <1>11
  <2>3. CASE InOnePlace(c) /\ c \notin NewFrom(label, owner)
    BY <1>4, <2>1, <2>2, <2>3 DEF InOnePlace
  <2>4. CASE c \in NewFrom(label, owner) /\ ~Issued(c)
    <3>1. Served(c) = {} /\ inFlight # c /\ Queued(c) = {}
      BY <1>4, <2>4 DEF IssuedInv
    <3>2. Nowhere(queue, c)
      BY <1>0, <1>1, <3>1 DEF PlaceFacts
    <3>3. QED BY <2>1, <2>2, <2>4, <3>1, <3>2 DEF InOnePlace
  <2>5. QED BY <1>11, <2>3, <2>4
<1>12. CASE SetForcedToolChoice
  <2>1. /\ queue' = Append(queue, Directive("user-force", forced'))
        /\ UNCHANGED <<inFlight, resolved>>
    BY <1>12 DEF SetForcedToolChoice, history
  <2>2. "user-force" \in Labels /\ forced' \in 0..(MaxForces + MaxPreviews + MaxPrompts)
    BY <1>12, OwnersIn
  <2>3. /\ Wanted' = Wanted \cup NewFrom("user-force", forced')
        /\ \A e \in NewFrom("user-force", forced') : e \in Forced /\ ~Issued(e)
    BY <1>12, WantedStep
  <2>4. QED BY <1>3, <1>5, <1>11, <2>1, <2>2, <2>3
<1>13. CASE Preview
  <2>1. /\ queue' = <<Directive("pending-action", previews')>> \o queue
        /\ UNCHANGED <<inFlight, resolved>>
    BY <1>13 DEF Preview, history
  <2>2. "pending-action" \in Labels /\ previews' \in 0..(MaxForces + MaxPreviews + MaxPrompts)
    BY <1>13, OwnersIn
  <2>3. /\ Wanted' = Wanted \cup NewFrom("pending-action", previews')
        /\ \A e \in NewFrom("pending-action", previews') : e \in Forced /\ ~Issued(e)
    BY <1>13, WantedStep
  <2>4. QED BY <1>3, <1>5, <1>11, <2>1, <2>2, <2>3
<1>14. ASSUME NEW p \in Prompts, PromptBegins(p, TRUE) PROVE InOnePlace(c)'
  <2>1. /\ queue' = Append(queue, Directive("eager-todo", p))
        /\ UNCHANGED <<inFlight, resolved, forced, previews>>
    BY <1>14 DEF PromptBegins, history, bounds
  <2>2. "eager-todo" \in Labels /\ p \in 0..(MaxForces + MaxPreviews + MaxPrompts)
    BY OwnersIn
  <2>3. InOnePlace(c) /\ c \notin NewFrom("eager-todo", p)
    BY <1>4, <1>8, <2>1 DEF NewFrom
  <2>4. QED BY <1>11, <2>1, <2>2, <2>3
<1>15. ASSUME NEW p \in Prompts, PromptEnds(p) PROVE InOnePlace(c)'
  <2>1. RemoveByLabel("eager-todo") /\ UNCHANGED <<resolved, forced, previews>>
    BY <1>15 DEF PromptEnds, history, bounds
  <2>2. InOnePlace(c) /\ Served(c)' = Served(c)
    BY <1>6, <1>8, <2>1
  <2>3. queue' = Without(queue, "eager-todo")
    BY <2>1, RemoveIs
  <2>4. \A i \in 1..Len(queue), j \in Nat :
            queue[i].label = "eager-todo" => ~Yields(queue[i], j, c)
    <3>1. TodoParts
      BY TodoPartsHold
    <3>2. Pure(queue)
      BY <1>1, <3>1 DEF TodoParts
    <3>3. QED BY <1>4, <3>2 DEF Pure, PureDirective
  <2>5. /\ Nowhere(queue, c) => Nowhere(queue', c)
        /\ Once(queue, c) => Once(queue', c)
    BY <1>1, <2>3, <2>4, WithoutKeeps
  <2>6. inFlight' = c <=> inFlight = c
    BY <1>4, <2>1, RemoveIs
  <2>7. QED BY <2>2, <2>5, <2>6 DEF InOnePlace
<1>16. CASE Request
  <2>1. NextToolChoice /\ UNCHANGED <<resolved, forced, previews>> /\ inFlight = NoChoice
    BY <1>2, <1>3, <1>16 DEF Request, bounds, ChoiceTypeOK, NothingLeftInFlight
  <2>2. InOnePlace(c) /\ Served(c)' = Served(c)
    BY <1>6, <1>8, <2>1
  <2>3. CASE Nowhere(queue, c) /\ queue' = << >> /\ UNCHANGED inFlight
    <3>1. Nowhere(queue', c)
      BY <2>3 DEF Nowhere, At
    <3>2. QED BY <2>2, <2>3, <3>1, OnceOrNowhere DEF InOnePlace
  <2>4. ASSUME NEW f \in 1..Len(queue), queue[f].values # << >>,
               \A i \in 1..(f - 1) : queue[i].values = << >>,
               queue' = AfterFirst(queue, f), inFlight' = Head(queue[f].values)
        PROVE  InOnePlace(c)'
    <3>1. PICK h : h = Head(queue[f].values)
      OBVIOUS
    <3>2. /\ Nowhere(queue, c) => Nowhere(queue', c)
          /\ Once(queue, c) /\ c # h => Once(queue', c)
          /\ Once(queue, h) => Nowhere(queue', h)
      BY ONLY <1>1, <2>4, <3>1, f \in 1..Len(queue), TakenKeeps
    <3>3. At(queue, f, 1, h)
      BY <1>1, <2>4, <3>1, TakenIs
    <3>4. CASE c = h
      <4>1. f \in Nat /\ 1 \in Nat
        OBVIOUS
      <4>2. ~Nowhere(queue, c)
        BY <3>3, <3>4, <4>1 DEF Nowhere
      <4>3. Served(c) = {} /\ Once(queue, c)
        BY <1>4, <2>1, <2>2, <4>2 DEF InOnePlace
      <4>4. QED BY <2>2, <2>4, <3>1, <3>2, <3>4, <4>3 DEF InOnePlace
    <3>5. CASE c # h
      BY <1>4, <2>1, <2>2, <2>4, <3>1, <3>2, <3>5 DEF InOnePlace
    <3>6. QED BY <3>4, <3>5
  <2>5. QED BY <1>1, <2>1, <2>3, <2>4, NextToolChoiceIs
<1>17. QED
  BY <1>7, <1>9, <1>10, <1>12, <1>13, <1>14, <1>15, <1>16, StepIs

\* ToolFirst, with the queue in terms of places.
InOrder(k) ==
    /\ Ahead(queue, ForcedPart(k, 1), ForcedPart(k, 2))
    /\ inFlight = ForcedPart(k, 2) => Served(ForcedPart(k, 1)) # {}
    /\ \A j \in Served(ForcedPart(k, 2)) : \E i \in Served(ForcedPart(k, 1)) : i < j
OrderFacts == queue \in Queues => \A k : InOrder(k) <=> ToolFirst(k)

LEMMA OrderFactsHold == OrderFacts
BY QueuedIs DEF OrderFacts, InOrder, ToolFirst

LEMMA AheadOfNone ==
    ASSUME NEW q, NEW a, NEW b, Nowhere(q, a)
    PROVE  Ahead(q, a, b)
BY DEF Nowhere, Ahead

LEMMA OrderStep ==
    ASSUME ChoiceTypeOK, TodoInv, ChoiceTypeOK', IssuedInv, NothingLeftInFlight, KeptInv, OrderInv,
           [ChoiceNext]_choiceVars
    PROVE  OrderInv'
<1>0. PlaceFacts /\ OnePlaceFacts /\ OrderFacts /\ OrderFacts'
  BY PlaceFactsHold, OnePlaceFactsHold, OrderFactsHold, PTL
<1>1. queue \in Queues /\ queue' \in Queues /\ resolved \in Seq(Forced)
      /\ inFlight \in Forced \cup {NoChoice}
  BY DEF ChoiceTypeOK, Queues
<1>2. overtaken => overtaken'
  BY DEF ChoiceNext, choiceVars, TurnStep, SetForcedToolChoice, PromptBegins, PromptWaits,
         PromptRuns, PromptEnds, RequestLost, Request, AnswerFails, AnswerComes, Preview, ToolsDone,
         RunCapped, TurnEndHandled, AbortBegins, AbortWaits, AbortEnds, history
<1>3. SUFFICES ASSUME ~overtaken', NEW k \in 1..forced' PROVE InOrder(k)'
  BY <1>0, <1>1 DEF OrderInv, OrderFacts
<1>4. PICK a, b : a = ForcedPart(k, 1) /\ b = ForcedPart(k, 2)
  OBVIOUS
<1>5. /\ a \in Forced /\ b \in Forced /\ a # b /\ a # NoChoice /\ b # NoChoice
      /\ a.label = "user-force" /\ b.label = "user-force" /\ a.owner = k /\ b.owner = k
      /\ a.part = 1 /\ b.part = 2
  <2>1. k \in 0..(MaxForces + MaxPreviews + MaxPrompts)
    BY BoundsAssumption DEF ChoiceTypeOK
  <2>2. a \in Forced /\ b \in Forced
    BY <1>4, <2>1 DEF ForcedPart, Forced, Labels
  <2>3. QED BY <1>4, <2>2, NoChoiceIs DEF ForcedPart
<1>6. k \in 1..forced => InOrder(k) /\ InOnePlace(a)
  <2>1. ASSUME k \in 1..forced PROVE InOrder(k)
    BY <1>0, <1>1, <1>2, <1>3, <2>1 DEF OrderInv, OrderFacts
  <2>2. ASSUME k \in 1..forced PROVE InOnePlace(a)
    <3>1. a \in Wanted
      BY <1>5, <2>2 DEF Wanted
    <3>2. QED BY <1>0, <1>1, <1>2, <1>3, <3>1 DEF KeptInv, OnePlaceFacts
  <2>3. QED BY <2>1, <2>2
<1>7. /\ InOrder(k)' <=> /\ Ahead(queue', a, b)
                         /\ inFlight' = b => Served(a)' # {}
                         /\ \A j \in Served(b)' : \E i \in Served(a)' : i < j
      /\ InOrder(k) <=> /\ Ahead(queue, a, b)
                        /\ inFlight = b => Served(a) # {}
                        /\ \A j \in Served(b) : \E i \in Served(a) : i < j
  BY <1>4 DEF InOrder
<1>8. \A c : /\ Served(c) \subseteq 1..Len(resolved)
             /\ UNCHANGED resolved => Served(c)' = Served(c)
             /\ \A h \in Forced : resolved' = Append(resolved, h) =>
                   /\ h # c => Served(c)' = Served(c)
                   /\ h = c => Served(c)' = Served(c) \cup {Len(resolved) + 1}
  BY <1>1, ServedIs
<1>9. UNCHANGED forced => InOrder(k) /\ InOnePlace(a)
  BY <1>3, <1>6
<1>10. UNCHANGED resolved => Served(a)' = Served(a) /\ Served(b)' = Served(b)
  BY <1>8
<1>11. CASE Quiet
  BY <1>7, <1>9, <1>10, <1>11 DEF Quiet, choices
<1>12. CASE Rejects
  <2>1. Reject /\ UNCHANGED <<resolved, forced>>
    BY <1>12 DEF Rejects
  <2>2. InOrder(k) /\ InOnePlace(a) /\ inFlight' = NoChoice
    BY <1>1, <1>9, <2>1, RejectIs
  <2>3. ASSUME inFlight \in Forced, queue' = <<Returned>> \o queue PROVE Ahead(queue', a, b)
    <3>1. /\ Returned \in Directives
          /\ \A j \in Nat : \A e : Yields(Returned, j, e) <=> j = 1 /\ e = inFlight
      BY <2>3, ReturnedIs
    <3>2. CASE inFlight = b
      <4>1. Nowhere(queue, a)
        BY <1>7, <2>2, <3>2 DEF InOnePlace
      <4>2. \A j \in Nat : ~Yields(Returned, j, a)
        BY <1>5, <3>1, <3>2
      <4>3. Nowhere(queue', a)
        BY <1>1, <2>3, <3>1, <4>1, <4>2, PrependKeeps
      <4>4. QED BY <4>3, AheadOfNone
    <3>3. CASE inFlight # b
      <4>1. \A j \in Nat : ~Yields(Returned, j, b)
        BY <3>1, <3>3
      <4>2. Ahead(queue, a, b)
        BY <1>7, <2>2
      <4>3. QED BY <1>1, <2>3, <3>1, <4>1, <4>2, PrependKeeps
    <3>4. QED BY <3>2, <3>3
  <2>4. Ahead(queue', a, b)
    BY <1>1, <1>7, <2>1, <2>2, <2>3, RejectIs
  <2>5. QED BY <1>5, <1>7, <1>10, <2>1, <2>2, <2>4
<1>13. CASE Resolves
  <2>1. Resolve /\ InOrder(k)
    BY <1>9, <1>13 DEF Resolves
  <2>2. CASE inFlight = NoChoice
    BY <1>7, <1>10, <2>1, <2>2 DEF Resolve, choices
  <2>3. CASE inFlight # NoChoice
    <3>1. /\ resolved' = Append(resolved, inFlight) /\ inFlight' = NoChoice /\ UNCHANGED queue
          /\ inFlight \in Forced
      BY <1>1, <2>1, <2>3 DEF Resolve, ClearInFlight
    <3>2. Served(a) \subseteq Served(a)'
      BY <1>8, <3>1
    <3>3. ASSUME NEW j \in Served(b)' PROVE \E i \in Served(a)' : i < j
      <4>1. CASE j \in Served(b)
        BY <1>7, <2>1, <3>2, <4>1
      <4>2. CASE j \notin Served(b)
        <5>1. inFlight = b /\ j = Len(resolved) + 1
          BY <1>8, <3>1, <4>2
        <5>2. PICK i \in Served(a) : TRUE
          BY <1>7, <2>1, <5>1
        <5>3. i \in 1..Len(resolved) /\ Len(resolved) \in Nat
          BY <1>1, <1>8, <5>2
        <5>4. i < j
          BY <5>1, <5>3
        <5>5. QED BY <3>2, <5>2, <5>4
      <4>3. QED BY <4>1, <4>2
    <3>4. QED BY <1>5, <1>7, <2>1, <3>1, <3>3
  <2>4. QED BY <2>2, <2>3
<1>14. CASE SetForcedToolChoice
  <2>1. /\ queue' = Append(queue, Directive("user-force", forced'))
        /\ UNCHANGED <<inFlight, resolved>>
        /\ forced' = forced + 1 /\ forced \in Nat
    BY <1>14 DEF SetForcedToolChoice, history, ChoiceTypeOK
  <2>2. "user-force" \in Labels /\ forced' \in 0..(MaxForces + MaxPreviews + MaxPrompts)
    BY <1>14, OwnersIn
  <2>3. PICK d : d = Directive("user-force", forced')
    OBVIOUS
  <2>4. /\ d \in Directives
        /\ \A j \in Nat : \A e : Yields(d, j, e) <=>
              (j = 1 \/ j = 2) /\ e = [label |-> "user-force", owner |-> forced', part |-> j]
    BY <2>2, <2>3, DirectiveIs
  <2>5. CASE k = forced'
    <3>1. /\ \A e \in NewFrom("user-force", forced') : ~Issued(e)
          /\ a \in NewFrom("user-force", forced') /\ b \in NewFrom("user-force", forced')
      BY <1>5, <1>14, <2>5, WantedStep DEF NewFrom
    <3>2. /\ Queued(a) = {} /\ Queued(b) = {}
          /\ inFlight # b /\ Served(b) = {}
      BY <1>5, <3>1 DEF IssuedInv
    <3>3. Nowhere(queue, a) /\ Nowhere(queue, b)
      BY <1>0, <1>1, <3>2 DEF PlaceFacts
    <3>4. \A i, j \in Nat : \A e :
              At(queue', i, j, e) <=> At(queue, i, j, e) \/ (i = Len(queue) + 1 /\ Yields(d, j, e))
      <4>1. queue' = Append(queue, d) /\ d \in Directives
        BY <2>1, <2>3, <2>4
      <4>2. QED BY ONLY <1>1, <4>1, AppendIs
    <3>5. \A i, j \in Nat : At(queue', i, j, a) => i = Len(queue) + 1 /\ j = 1
      <4>1. \A j \in Nat : Yields(d, j, a) => j = 1
        BY <1>5, <2>4
      <4>2. QED BY <3>3, <3>4, <4>1 DEF Nowhere
    <3>6. \A i, j \in Nat : At(queue', i, j, b) => i = Len(queue) + 1 /\ j = 2
      <4>1. \A j \in Nat : Yields(d, j, b) => j = 2
        BY <1>5, <2>4
      <4>2. QED BY <3>3, <3>4, <4>1 DEF Nowhere
    <3>7. Ahead(queue', a, b)
      BY <3>5, <3>6 DEF Ahead
    <3>8. QED BY <1>7, <1>10, <2>1, <3>2, <3>7
  <2>6. CASE k # forced'
    <3>1. k \in 1..forced
      BY <2>1, <2>6
    <3>2. InOrder(k)
      BY <1>6, <3>1
    <3>3. \A j \in Nat : ~Yields(d, j, a)
      BY <1>5, <2>4, <2>6
    <3>4. Ahead(queue', a, b)
      BY <1>1, <1>7, <2>1, <2>3, <2>4, <3>2, <3>3, AppendKeeps
    <3>5. QED BY <1>7, <1>10, <2>1, <3>2, <3>4
  <2>7. QED BY <2>5, <2>6
<1>15. CASE Preview
  <2>1. /\ queue' = <<Directive("pending-action", previews')>> \o queue
        /\ UNCHANGED <<inFlight, resolved, forced>>
    BY <1>15 DEF Preview, history
  <2>2. "pending-action" \in Labels /\ previews' \in 0..(MaxForces + MaxPreviews + MaxPrompts)
    BY <1>15, OwnersIn
  <2>3. PICK d : d = Directive("pending-action", previews')
    OBVIOUS
  <2>4. d \in Directives /\ \A j \in Nat : \A e : Yields(d, j, e) => e.label = "pending-action"
    BY <2>2, <2>3, DirectiveIs
  <2>5. InOrder(k)
    BY <1>9, <2>1
  <2>6. \A j \in Nat : ~Yields(d, j, b)
    BY <1>5, <2>4
  <2>7. Ahead(queue', a, b)
    BY <1>1, <1>7, <2>1, <2>3, <2>4, <2>5, <2>6, PrependKeeps
  <2>8. QED BY <1>7, <1>10, <2>1, <2>5, <2>7
<1>16. ASSUME NEW p \in Prompts, PromptBegins(p, TRUE) PROVE InOrder(k)'
  <2>1. /\ queue' = Append(queue, Directive("eager-todo", p))
        /\ UNCHANGED <<inFlight, resolved, forced>>
    BY <1>16 DEF PromptBegins, history, bounds
  <2>2. "eager-todo" \in Labels /\ p \in 0..(MaxForces + MaxPreviews + MaxPrompts)
    BY OwnersIn
  <2>3. PICK d : d = Directive("eager-todo", p)
    OBVIOUS
  <2>4. d \in Directives /\ \A j \in Nat : \A e : Yields(d, j, e) => e.label = "eager-todo"
    BY <2>2, <2>3, DirectiveIs
  <2>5. InOrder(k)
    BY <1>9, <2>1
  <2>6. \A j \in Nat : ~Yields(d, j, a)
    BY <1>5, <2>4
  <2>7. Ahead(queue', a, b)
    BY <1>1, <1>7, <2>1, <2>3, <2>4, <2>5, <2>6, AppendKeeps
  <2>8. QED BY <1>7, <1>10, <2>1, <2>5, <2>7
<1>17. ASSUME NEW p \in Prompts, PromptEnds(p) PROVE InOrder(k)'
  <2>1. RemoveByLabel("eager-todo") /\ UNCHANGED <<resolved, forced>>
    BY <1>17 DEF PromptEnds, history, bounds
  <2>2. InOrder(k)
    BY <1>9, <2>1
  <2>3. queue' = Without(queue, "eager-todo") /\ (inFlight' = b => inFlight = b)
    BY <1>5, <2>1, RemoveIs
  <2>4. Ahead(queue', a, b)
    BY <1>1, <1>7, <2>2, <2>3, WithoutKeeps
  <2>5. QED BY <1>7, <1>10, <2>1, <2>2, <2>3, <2>4
<1>18. CASE Request
  <2>1. NextToolChoice /\ UNCHANGED <<resolved, forced>> /\ inFlight = NoChoice
    BY <1>2, <1>3, <1>18 DEF Request, bounds, ChoiceTypeOK, NothingLeftInFlight
  <2>2. InOrder(k) /\ InOnePlace(a)
    BY <1>9, <2>1
  <2>3. CASE queue' = << >> /\ UNCHANGED inFlight
    <3>1. Nowhere(queue', a)
      BY <2>3 DEF Nowhere, At
    <3>2. Ahead(queue', a, b)
      BY <3>1, AheadOfNone
    <3>3. QED BY <1>7, <1>10, <2>1, <2>2, <2>3, <3>2
  <2>4. ASSUME NEW f \in 1..Len(queue), queue[f].values # << >>,
               \A i \in 1..(f - 1) : queue[i].values = << >>,
               queue' = AfterFirst(queue, f), inFlight' = Head(queue[f].values)
        PROVE  InOrder(k)'
    <3>1. PICK h : h = Head(queue[f].values)
      OBVIOUS
    <3>2. /\ Ahead(queue, a, b) => Ahead(queue', a, b)
          /\ Ahead(queue, a, h) => Nowhere(queue, a)
      BY ONLY <1>1, <2>4, <3>1, f \in 1..Len(queue), TakenKeeps
    <3>3. Ahead(queue', a, b)
      BY <1>7, <2>2, <3>2
    <3>4. ASSUME h = b PROVE Served(a)' # {}
      <4>1. Nowhere(queue, a)
        BY <1>7, <2>2, <3>2, <3>4
      <4>2. Served(a) # {}
        BY <1>5, <2>1, <2>2, <4>1, OnceOrNowhere DEF InOnePlace
      <4>3. QED BY <1>10, <2>1, <4>2
    <3>5. QED BY <1>7, <1>10, <2>1, <2>2, <2>4, <3>1, <3>3, <3>4
  <2>5. QED BY <1>1, <2>1, <2>3, <2>4, NextToolChoiceIs
<1>19. QED
  BY <1>11, <1>12, <1>13, <1>14, <1>15, <1>16, <1>17, <1>18, StepIs
-----------------------------------------------------------------------------
(***************************************************************************)
(* The invariant, and what it says.                                        *)
(***************************************************************************)
ChoiceInv ==
    /\ ChoiceTypeOK /\ CountedInv /\ TodoInv /\ IssuedInv
    /\ NothingLeftInFlight /\ ServingInv /\ KeptInv /\ OrderInv

LEMMA ChoiceInitInv == ASSUME ChoiceInit PROVE ChoiceInv
<1> USE BoundsAssumption DEF ChoiceInit
<1>1. queue = << >> /\ DOMAIN queue = {} /\ resolved = << >> /\ DOMAIN resolved = {}
  OBVIOUS
<1>2. ChoiceTypeOK
  <2>1. queue \in Seq(Directives) /\ resolved \in Seq(Forced)
    BY <1>1
  <2>2. /\ forced \in 0..MaxForces /\ previews \in 0..MaxPreviews /\ turns \in 0..MaxTurns
        /\ aborts \in 0..MaxAborts /\ faults \in 0..MaxFaults
    OBVIOUS
  <2>3. prompts \in [Prompts -> PromptStates] /\ promptInFlightCount \in 0..1 /\ runner \in 0..MaxPrompts
    BY DEF PromptStates
  <2>4. QED BY <2>1, <2>2, <2>3 DEF ChoiceTypeOK
<1>3. CountedInv /\ NothingLeftInFlight /\ ServingInv
  BY DEF CountedInv, NothingLeftInFlight, ServingInv
<1>4. TodoInv
  BY <1>1 DEF TodoInv
<1>5. \A c : Served(c) = {} /\ Queued(c) = {}
  BY <1>1 DEF Served, Queued
<1>6. IssuedInv
  BY <1>5, NoChoiceIs DEF IssuedInv
<1>7. Wanted = {}
  BY DEF Wanted
<1>8. KeptInv /\ OrderInv
  BY <1>7 DEF KeptInv, OrderInv
<1>9. QED BY <1>2, <1>3, <1>4, <1>6, <1>8 DEF ChoiceInv

\* The invariant of the forced choices.  Nothing of it holds without the rest:
\* that no choice is doubled needs the place in flight to be free when the next
\* is taken, and that the tool of a /force is first needs that none is lost.
THEOREM ChoiceInvariant == ChoiceSpec => []ChoiceInv
<1>1. ChoiceInit => ChoiceInv
  BY ChoiceInitInv
<1>2. ASSUME ChoiceInv, [ChoiceNext]_choiceVars PROVE ChoiceInv'
  <2>1. /\ ChoiceTypeOK /\ CountedInv /\ TodoInv /\ IssuedInv
        /\ NothingLeftInFlight /\ ServingInv /\ KeptInv /\ OrderInv
    BY <1>2 DEF ChoiceInv
  <2>2. ChoiceTypeOK'
    BY <1>2, <2>1, ChoiceTypeStep
  <2>3. CountedInv'
    BY <1>2, <2>1, CountedStep
  <2>4. TodoInv'
    BY <1>2, <2>1, <2>2, TodoStep
  <2>5. IssuedInv'
    BY <1>2, <2>1, <2>2, IssuedStep
  <2>6. NothingLeftInFlight'
    BY <1>2, <2>1, NothingLeftStep
  <2>7. ServingInv'
    BY <1>2, <2>1, ServingStep
  <2>8. KeptInv'
    BY <1>2, <2>1, <2>2, KeptStep
  <2>9. OrderInv'
    BY <1>2, <2>1, <2>2, OrderStep
  <2>10. QED BY <2>2, <2>3, <2>4, <2>5, <2>6, <2>7, <2>8, <2>9 DEF ChoiceInv
<1>3. QED BY <1>1, <1>2, PTL DEF ChoiceSpec

\* The types of the queue of forced choices, for any number of everything.
THEOREM ChoiceTypeCorrect == ChoiceSpec => []ChoiceTypeOK
<1>1. ChoiceInv => ChoiceTypeOK
  BY DEF ChoiceInv
<1>2. QED BY <1>1, ChoiceInvariant, PTL

\* A forced choice is not lost and not doubled (tool-choice-queue.ts), however
\* many are forced, previewed, aborted and requeued.
THEOREM ChoicesAreKept == ChoiceSpec => []ChoicesKept
<1>1. ASSUME ChoiceInv PROVE ChoicesKept
  <2>1. SUFFICES ASSUME ~overtaken, NEW c \in Wanted
                 PROVE  Cardinality(Served(c)) + (IF inFlight = c THEN 1 ELSE 0)
                            + Cardinality(Queued(c)) = 1
    BY DEF ChoicesKept
  <2>2. Cardinality({}) = 0 /\ \A x : Cardinality({x}) = 1
    BY FS_EmptySet, FS_Singleton
  <2>3. OnlyServed(c) \/ OnlyInFlight(c) \/ OnlyQueued(c)
    BY <1>1, <2>1 DEF ChoiceInv, KeptInv
  <2>4. CASE OnlyServed(c)
    <3>1. Cardinality(Served(c)) = 1 /\ inFlight # c /\ Cardinality(Queued(c)) = 0
      BY <2>2, <2>4 DEF OnlyServed
    <3>2. QED BY <3>1
  <2>5. CASE OnlyInFlight(c)
    <3>1. Cardinality(Served(c)) = 0 /\ inFlight = c /\ Cardinality(Queued(c)) = 0
      BY <2>2, <2>5 DEF OnlyInFlight
    <3>2. QED BY <3>1
  <2>6. CASE OnlyQueued(c)
    <3>1. Cardinality(Served(c)) = 0 /\ inFlight # c /\ Cardinality(Queued(c)) = 1
      BY <2>2, <2>6 DEF OnlyQueued
    <3>2. QED BY <3>1
  <2>7. QED BY <2>3, <2>4, <2>5, <2>6
<1>2. QED BY <1>1, ChoiceInvariant, PTL

\* The "none" of a /force is not served before its tool.
THEOREM ForcedComesBeforeNone == ChoiceSpec => []ForcedBeforeNone
<1>1. ASSUME ChoiceInv PROVE ForcedBeforeNone
  <2>1. SUFFICES ASSUME ~overtaken, NEW j \in DOMAIN resolved, resolved[j].part = 2
                 PROVE  \E i \in 1..(j - 1) : resolved[i] = [resolved[j] EXCEPT !.part = 1]
    BY DEF ForcedBeforeNone
  <2>2. PICK c : c = resolved[j]
    OBVIOUS
  <2>3. resolved \in Seq(Forced)
    BY <1>1 DEF ChoiceInv, ChoiceTypeOK
  <2>4. c \in Forced /\ j \in Served(c)
    BY <2>2, <2>3 DEF Served
  <2>5. Issued(c)
    BY <1>1, <2>4 DEF ChoiceInv, IssuedInv
  <2>6. c.label = "user-force" /\ c.owner \in 1..forced /\ c.part = 2
    BY <2>1, <2>2, <2>5 DEF Issued, Wanted
  <2>7. c = ForcedPart(c.owner, 2) /\ [c EXCEPT !.part = 1] = ForcedPart(c.owner, 1)
    BY <2>4, <2>6 DEF Forced, ForcedPart
  <2>8. PICK i \in Served(ForcedPart(c.owner, 1)) : i < j
    BY <1>1, <2>1, <2>4, <2>6, <2>7 DEF ChoiceInv, OrderInv, ToolFirst
  <2>9. i \in 1..Len(resolved) /\ resolved[i] = ForcedPart(c.owner, 1) /\ j \in 1..Len(resolved)
    BY <2>1, <2>3 DEF Served
  <2>10. i \in 1..(j - 1)
    BY <2>8, <2>9
  <2>11. QED BY <2>2, <2>7, <2>9, <2>10
<1>2. QED BY <1>1, ChoiceInvariant, PTL

\* A turn forced to call resolve runs its tools with the handler of that preview,
\* unless the end of an abort has rejected the choice of that very turn.
THEOREM HandlerStaysInPlace == ChoiceSpec => []HandlerInPlace
<1>1. ASSUME ChoiceInv PROVE HandlerInPlace
  BY <1>1 DEF ChoiceInv, ServingInv, HandlerInPlace
<1>2. QED BY <1>1, ChoiceInvariant, PTL

\* Nothing is in flight when no turn and no listener is left.
THEOREM NothingStaysInFlight == ChoiceSpec => []NothingLeftInFlight
<1>1. ChoiceInv => NothingLeftInFlight
  BY DEF ChoiceInv
<1>2. QED BY <1>1, ChoiceInvariant, PTL
=============================================================================
