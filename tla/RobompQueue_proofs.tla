------------------------- MODULE RobompQueue_proofs -------------------------
(***************************************************************************)
(* Proofs about RobompQueue for every set of deliveries, issues and slots, *)
(* and any number of replays, crashes and stops.                           *)
(***************************************************************************)
EXTENDS RobompQueue, SequenceTheorems, TLAPS

\* The groups of variables that actions leave alone are always expanded.
USE DEF vars, table, dispatcher, tasks, threads, cancels, stopping, counters,
        dispUnchanged, threadUnchanged
-----------------------------------------------------------------------------
\* A manual triage moves the row to the end and leaves the others in order.
LEMMA RenewedOrder ==
    ASSUME arrival \in Seq(Events), NEW e \in Events, e \in ToSet(arrival)
    PROVE  /\ Renewed(e) \in Seq(Events)
           /\ Len(Renewed(e)) = Len(arrival)
           /\ \E i \in 1..Len(arrival) :
                /\ arrival[i] = e
                /\ \A k \in 1..Len(arrival) :
                      Renewed(e)[k] = IF k < i THEN arrival[k]
                                      ELSE IF k < Len(arrival) THEN arrival[k + 1] ELSE e
<1>1. PICK n \in Nat : n = Len(arrival) /\ DOMAIN arrival = 1..n
  BY LenProperties
<1>2. PICK i \in 1..n : arrival[i] = e /\ i = CHOOSE j \in DOMAIN arrival : arrival[j] = e
  BY <1>1 DEF ToSet
<1>3. PICK before : before = SubSeq(arrival, 1, i - 1)
  OBVIOUS
<1>4. PICK after : after = SubSeq(arrival, i + 1, n)
  OBVIOUS
<1>5. /\ before \in Seq(Events) /\ Len(before) = i - 1
      /\ \A k \in 1..(i - 1) : before[k] = arrival[k]
  <2>1. \A k \in 1..(i - 1) : arrival[k] \in Events
    BY <1>1, ElementOfSeq
  <2>2. /\ before \in Seq(Events)
        /\ Len(before) = IF 1 <= i - 1 THEN (i - 1) - 1 + 1 ELSE 0
        /\ \A k \in 1..((i - 1) - 1 + 1) : before[k] = arrival[1 + k - 1]
    BY <1>3, <2>1, SubSeqProperties
  <2>3. QED BY <2>2
<1>6. /\ after \in Seq(Events) /\ Len(after) = n - i
      /\ \A k \in 1..(n - i) : after[k] = arrival[k + i]
  <2>1. \A k \in (i + 1)..n : arrival[k] \in Events
    BY <1>1, ElementOfSeq
  <2>2. /\ after \in Seq(Events)
        /\ Len(after) = IF i + 1 <= n THEN n - (i + 1) + 1 ELSE 0
        /\ \A k \in 1..(n - (i + 1) + 1) : after[k] = arrival[(i + 1) + k - 1]
    BY <1>4, <2>1, SubSeqProperties
  <2>3. QED BY <2>2
<1>7. PICK rest : rest = before \o after
  OBVIOUS
<1>8. /\ rest \in Seq(Events) /\ Len(rest) = n - 1
      /\ \A k \in 1..(n - 1) : rest[k] = IF k < i THEN arrival[k] ELSE arrival[k + 1]
  <2>1. /\ rest \in Seq(Events)
        /\ Len(rest) = Len(before) + Len(after)
        /\ \A k \in 1..(Len(before) + Len(after)) :
              rest[k] = IF k <= Len(before) THEN before[k] ELSE after[k - Len(before)]
    BY <1>5, <1>6, <1>7, ConcatProperties
  <2>2. QED BY <1>5, <1>6, <2>1
<1>9. Renewed(e) = Append(rest, e)
  BY <1>1, <1>2, <1>3, <1>4, <1>7 DEF Renewed, RemoveAt
<1>10. /\ Renewed(e) \in Seq(Events) /\ Len(Renewed(e)) = n
       /\ \A k \in 1..(n - 1) : Renewed(e)[k] = rest[k]
       /\ Renewed(e)[n] = e
  <2>1. /\ Append(rest, e) \in Seq(Events)
        /\ Len(Append(rest, e)) = Len(rest) + 1
        /\ \A k \in 1..Len(rest) : Append(rest, e)[k] = rest[k]
        /\ Append(rest, e)[Len(rest) + 1] = e
    BY <1>8, AppendProperties
  <2>2. QED BY <1>8, <1>9, <2>1
<1>11. \A k \in 1..n : Renewed(e)[k] = IF k < i THEN arrival[k]
                                        ELSE IF k < n THEN arrival[k + 1] ELSE e
  <2> SUFFICES ASSUME NEW k \in 1..n
               PROVE  Renewed(e)[k] = IF k < i THEN arrival[k]
                                      ELSE IF k < n THEN arrival[k + 1] ELSE e
    OBVIOUS
  <2>1. CASE k = n
    BY <1>10, <2>1
  <2>2. CASE k # n
    <3>1. k \in 1..(n - 1)
      BY <2>2
    <3>2. QED BY <1>8, <1>10, <3>1
  <2>3. QED BY <2>1, <2>2
<1>12. QED BY <1>1, <1>2, <1>10, <1>11

\* Only a row can be claimed or worked on, and only the dispatcher's claim
\* makes one claimed.
KnownInv ==
    /\ disp = "claimed" <=> claimed # NoEvent
    /\ \A e \in Events : claimed = e \/ task[e] # "none" => row[e] # "absent"

\* The list of rows stays as it is when no row comes.
LEMMA ArrivalKept ==
    ASSUME TypeOK, arrival' = arrival,
           \A e \in Events : row'[e] = "absent" <=> row[e] = "absent"
    PROVE  /\ arrival' \in Seq(Events) /\ IsInjective(arrival)'
           /\ ToSet(arrival)' = {e \in Events : row'[e] # "absent"}
BY DEF TypeOK, IsInjective, ToSet

\* The finally clause of a task.
LEMMA FinallyType ==
    ASSUME TypeOK, KnownInv, NEW e \in Events, task[e] # "none",
           NEW r \in RowStates \ {"absent"}, Finally(e, r)
    PROVE  TypeOK' /\ KnownInv'
<1> USE DEF TypeOK, RowStates
<1>1. row[e] # "absent"
  BY DEF KnownInv
<1>2. row' = [row EXCEPT ![e] = r] /\ task' = [task EXCEPT ![e] = "release"]
  BY DEF Finally
<1>3. \A f \in Events : row'[f] = "absent" <=> row[f] = "absent"
  BY <1>1, <1>2
<1>4. arrival' \in Seq(Events) /\ IsInjective(arrival)'
      /\ ToSet(arrival)' = {f \in Events : row'[f] # "absent"}
  BY <1>3, ArrivalKept DEF Finally
<1>5. row' \in [Events -> RowStates]
      /\ task' \in [Events -> {"none", "slot", "prep", "await", "release"}]
  BY <1>2
<1>6. /\ slot' \in [Events -> Slots \cup {NoSlot}]
      /\ thread' \in [Events -> {"none", "pre", "checked", "working", "ok", "error"}]
      /\ uid' \in [Events -> Slots \cup {NoSlot}]
  BY DEF Finally
<1>7. /\ killed' \subseteq Events /\ hooks' \subseteq Events /\ cancelled' \subseteq Events
      /\ shutdownCancelled' \subseteq Events /\ cancelling' \subseteq Events /\ asked' \subseteq Events
  BY DEF Finally
<1>8. UNCHANGED <<key, disp, claimed, wakeup, inflight, stop, stillRunning, replays, restarts>>
  BY DEF Finally
<1>9. TypeOK'
  BY <1>4, <1>5, <1>6, <1>7, <1>8
<1>10. KnownInv'
  BY <1>1, <1>2, <1>8 DEF KnownInv
<1>11. QED BY <1>9, <1>10

LEMMA TypeStep == TypeOK /\ KnownInv /\ [Next]_vars => TypeOK' /\ KnownInv'
<1> SUFFICES ASSUME TypeOK, KnownInv, [Next]_vars PROVE TypeOK' /\ KnownInv'
  OBVIOUS
<1> USE ConstantsAssumption DEF TypeOK, RowStates
<1>1. ASSUME NEW e \in Events, Record(e) PROVE TypeOK' /\ KnownInv'
  <2>1. /\ row[e] = "absent" /\ row' = [row EXCEPT ![e] = "queued"]
        /\ arrival' = Append(arrival, e)
    BY <1>1 DEF Record
  <2>2. e \notin ToSet(arrival)
    BY <2>1
  <2>3. /\ arrival' \in Seq(Events) /\ Len(arrival') = Len(arrival) + 1
        /\ \A k \in 1..Len(arrival) : arrival'[k] = arrival[k]
        /\ arrival'[Len(arrival) + 1] = e
    BY <2>1, AppendProperties
  <2>4. Len(arrival) \in Nat /\ DOMAIN arrival = 1..Len(arrival) /\ DOMAIN arrival' = 1..Len(arrival')
    BY <2>3, LenProperties
  <2>5. IsInjective(arrival)'
    BY <2>2, <2>3, <2>4 DEF IsInjective, ToSet
  <2>6. ToSet(arrival)' = ToSet(arrival) \cup {e}
    <3>1. ToSet(arrival)' \subseteq ToSet(arrival) \cup {e}
      BY <2>3, <2>4 DEF ToSet
    <3>2. ToSet(arrival) \subseteq ToSet(arrival)'
      BY <2>3, <2>4 DEF ToSet
    <3>3. e \in ToSet(arrival)'
      BY <2>3, <2>4 DEF ToSet
    <3>4. QED BY <3>1, <3>2, <3>3
  <2>7. ToSet(arrival)' = {f \in Events : row'[f] # "absent"}
    BY <2>1, <2>6
  <2>8. QED BY <1>1, <2>1, <2>3, <2>5, <2>7 DEF Record, KnownInv
<1>2. ASSUME NEW e \in Events, Retrigger(e) PROVE TypeOK' /\ KnownInv'
  <2>1. /\ row[e] \in {"done", "failed"} /\ row' = [row EXCEPT ![e] = "queued"]
        /\ arrival' = Renewed(e)
    BY <1>2 DEF Retrigger, Inactive
  <2>2. PICK i \in 1..Len(arrival) :
          /\ arrival[i] = e
          /\ \A k \in 1..Len(arrival) :
                arrival'[k] = IF k < i THEN arrival[k]
                              ELSE IF k < Len(arrival) THEN arrival[k + 1] ELSE e
    BY <2>1, RenewedOrder
  <2>3. arrival' \in Seq(Events) /\ Len(arrival') = Len(arrival)
    BY <2>1, RenewedOrder
  <2>4. Len(arrival) \in Nat /\ DOMAIN arrival = 1..Len(arrival) /\ DOMAIN arrival' = 1..Len(arrival)
    BY <2>3, LenProperties
  <2> DEFINE was(k) == IF k < i THEN k ELSE IF k < Len(arrival) THEN k + 1 ELSE i
  <2>9. \A k \in 1..Len(arrival) : was(k) \in 1..Len(arrival) /\ arrival'[k] = arrival[was(k)]
    BY <2>2, <2>4
  <2>10. \A k, m \in 1..Len(arrival) : was(k) = was(m) => k = m
    BY <2>4
  <2> HIDE DEF was
  <2>5. IsInjective(arrival)'
    BY <2>4, <2>9, <2>10 DEF IsInjective
  <2>6. ToSet(arrival)' = ToSet(arrival)
    <3>1. ToSet(arrival)' \subseteq ToSet(arrival)
      BY <2>4, <2>9 DEF ToSet
    <3>2. ASSUME NEW k \in 1..Len(arrival) PROVE arrival[k] \in ToSet(arrival)'
      <4>1. CASE k < i
        BY <2>2, <2>4, <3>2, <4>1 DEF ToSet
      <4>2. CASE k = i
        BY <2>2, <2>4, <3>2, <4>2 DEF ToSet
      <4>3. CASE k > i
        <5>1. k - 1 \in 1..Len(arrival) /\ ~(k - 1 < i) /\ k - 1 < Len(arrival) /\ (k - 1) + 1 = k
          BY <2>4, <4>3
        <5>2. arrival'[k - 1] = arrival[k]
          BY <2>2, <5>1
        <5>3. QED BY <2>4, <5>1, <5>2 DEF ToSet
      <4>4. QED BY <4>1, <4>2, <4>3, <2>4
    <3>3. ToSet(arrival) \subseteq ToSet(arrival)'
      BY <2>4, <3>2 DEF ToSet
    <3>4. QED BY <3>1, <3>3
  <2>7. ToSet(arrival)' = {f \in Events : row'[f] # "absent"}
    BY <2>1, <2>6
  <2>8. QED BY <1>2, <2>1, <2>3, <2>5, <2>7 DEF Retrigger, KnownInv
<1>3. ASSUME arrival' = arrival, \A e \in Events : row'[e] = "absent" <=> row[e] = "absent"
      PROVE  /\ arrival' \in Seq(Events) /\ IsInjective(arrival)'
             /\ ToSet(arrival)' = {e \in Events : row'[e] # "absent"}
  BY <1>3, ArrivalKept
<1>4. ASSUME NEW e \in Events, Replay(e) PROVE TypeOK' /\ KnownInv'
  <2>1. row[e] \in {"done", "failed"} /\ row' = [row EXCEPT ![e] = "queued"] /\ arrival' = arrival
    BY <1>4 DEF Replay, Inactive
  <2>2. \A f \in Events : row'[f] = "absent" <=> row[f] = "absent"
    BY <2>1
  <2>3. wakeup' \in BOOLEAN
    BY <1>4 DEF Replay
  <2>7. replays' \in 0..MaxReplays
    BY <1>4 DEF Replay
  <2>4. KnownInv'
    BY <1>4, <2>2 DEF Replay, KnownInv
  <2>5. row' \in [Events -> RowStates]
    BY <2>1
  <2>6. QED BY <1>3, <1>4, <2>1, <2>2, <2>3, <2>4, <2>5, <2>7 DEF Replay
<1>5. ASSUME NEW e \in Events, Cancel(e) PROVE TypeOK' /\ KnownInv'
  BY <1>5 DEF Cancel, KnownInv
<1>6. ASSUME NEW e \in Events, AcquireSlot(e) PROVE TypeOK' /\ KnownInv'
  BY <1>6 DEF AcquireSlot, KnownInv, FreeSlots
<1>7. ASSUME NEW e \in Events, StartThread(e) PROVE TypeOK' /\ KnownInv'
  BY <1>7 DEF StartThread, KnownInv
<1>8. ASSUME NEW e \in Events, EndWithoutThread(e) PROVE TypeOK' /\ KnownInv'
  BY <1>8, FinallyType DEF EndWithoutThread, RowOnReturn, RowOnError
<1>9. ASSUME NEW e \in Events, EndWithThread(e) PROVE TypeOK' /\ KnownInv'
  BY <1>9, FinallyType DEF EndWithThread, RowOnReturn, RowOnError
<1>10. ASSUME NEW e \in Events, CancelTask(e) PROVE TypeOK' /\ KnownInv'
  <2>1. task[e] # "none" /\ row[e] \in RowStates \ {"absent"} /\ Finally(e, row[e])
    BY <1>10 DEF CancelTask, Alive, KnownInv
  <2>2. QED BY <2>1, FinallyType
<1>11. ASSUME NEW e \in Events, Release(e) PROVE TypeOK' /\ KnownInv'
  BY <1>11 DEF Release, KnownInv
<1>12. ASSUME NEW e \in Events, SpawnAndCheck(e) PROVE TypeOK' /\ KnownInv'
  BY <1>12 DEF SpawnAndCheck, KnownInv
<1>13. ASSUME NEW e \in Events, Arm(e) PROVE TypeOK' /\ KnownInv'
  BY <1>13 DEF Arm, KnownInv
<1>14. ASSUME NEW e \in Events, ThreadEnds(e) PROVE TypeOK' /\ KnownInv'
  BY <1>14 DEF ThreadEnds, KnownInv
<1>15. CASE Claim
  <2>1. arrival' = arrival /\ \A e \in Events : row'[e] = "absent" <=> row[e] = "absent"
    BY <1>15 DEF Claim, OldestQueued
  <2>2. QED BY <1>3, <1>15, <2>1 DEF Claim, OldestQueued, KnownInv
<1>16. CASE Admit
  BY <1>16 DEF Admit, KnownInv
<1>17. CASE PutBack
  <2>1. row' = [row EXCEPT ![claimed] = "queued"] /\ row[claimed] # "absent" /\ claimed \in Events
    BY <1>17 DEF PutBack, RowPutBack, KnownInv
  <2>2. arrival' = arrival /\ \A e \in Events : row'[e] = "absent" <=> row[e] = "absent"
    BY <1>17, <2>1 DEF PutBack
  <2>3. KnownInv'
    BY <1>17, <2>2 DEF PutBack, KnownInv
  <2>4. row' \in [Events -> RowStates]
    BY <2>1
  <2>5. restarts' \in 0..MaxRestarts
    BY <1>17 DEF PutBack
  <2>6. task' \in [Events -> {"none", "slot", "prep", "await", "release"}]
    BY <1>17 DEF PutBack
  <2>7. QED BY <1>3, <1>17, <2>2, <2>3, <2>4, <2>5, <2>6 DEF PutBack
<1>18. CASE FallAsleep
  BY <1>18 DEF FallAsleep, KnownInv
<1>19. CASE WakeUp
  BY <1>19 DEF WakeUp, KnownInv
<1>20. CASE BeginStop
  BY <1>20 DEF BeginStop, KnownInv
<1>21. CASE EndDrain
  BY <1>21 DEF EndDrain, KnownInv
<1>22. CASE Interrupt
  BY <1>22 DEF Interrupt, KnownInv, Interruptible
<1>23. CASE EndStop
  BY <1>23 DEF EndStop, KnownInv
<1>24. CASE Restart
  <2>1. row' = [e \in Events |-> IF row[e] = "running" THEN "queued" ELSE row[e]]
    BY <1>24 DEF Restart, RowsAtStart, KnownInv
  <2>2. arrival' = arrival /\ \A e \in Events : row'[e] = "absent" <=> row[e] = "absent"
    BY <1>24, <2>1 DEF Restart
  <2>3. KnownInv'
    BY <1>24, <2>2 DEF Restart, KnownInv
  <2>4. row' \in [Events -> RowStates]
    BY <2>1
  <2>5. restarts' \in 0..MaxRestarts
    BY <1>24 DEF Restart
  <2>6. task' \in [Events -> {"none", "slot", "prep", "await", "release"}]
    BY <1>24 DEF Restart
  <2>7. QED BY <1>3, <1>24, <2>2, <2>3, <2>4, <2>5, <2>6 DEF Restart
<1>25. CASE UNCHANGED vars
  BY <1>25 DEF KnownInv
<1>26. QED
  BY <1>1, <1>2, <1>4, <1>5, <1>6, <1>7, <1>8, <1>9, <1>10, <1>11, <1>12, <1>13, <1>14, <1>15, <1>16, <1>17, <1>18, <1>19, <1>20, <1>21, <1>22, <1>23, <1>24, <1>25
  DEF Next, DispatcherStep, TaskStep, ThreadStep, StopStep, Quiet

\* Every reachable state is well typed; the rows in their order are exactly
\* the rows there are, each once.
THEOREM TypeCorrect == Spec => [](TypeOK /\ KnownInv)
<1>1. Init => TypeOK /\ KnownInv
  <2> SUFFICES ASSUME Init PROVE TypeOK /\ KnownInv
    OBVIOUS
  <2>1. arrival \in Seq(Events) /\ IsInjective(arrival) /\ ToSet(arrival) = {}
    BY EmptySeq DEF Init, IsInjective, ToSet
  <2>2. {e \in Events : row[e] # "absent"} = {}
    BY DEF Init
  <2>3. KnownInv
    BY ConstantsAssumption DEF Init, KnownInv
  <2>4. replays \in 0..MaxReplays /\ restarts \in 0..MaxRestarts
    BY ConstantsAssumption DEF Init
  <2>5. wakeup \in BOOLEAN
    BY DEF Init
  <2>6. QED BY <2>1, <2>2, <2>3, <2>4, <2>5 DEF Init, TypeOK, RowStates
<1>2. QED BY <1>1, TypeStep, PTL DEF Spec
-----------------------------------------------------------------------------
(* Control: who is at work on which issue.                                 *)

\* The dispatcher ends with stop(), and nobody is interrupted before its loop
\* over the running tasks.
StopInv ==
    /\ stop # "no" => disp = "off"
    /\ stop \in {"no", "drain"} => cancelling = {} /\ shutdownCancelled = {}

\* An event is engaged from its admission until its task and its thread are gone.
Engaged(e) == task[e] # "none" \/ thread[e] # "none"

\* An issue has at most one engaged event, whose key is in flight until its task
\* is over; a thread outlives its task only once stop() has begun to interrupt.
EngagedInv ==
    /\ \A e \in Events : task[e] # "none" => key[e] \in inflight
    /\ \A e, f \in Events : e # f /\ key[e] = key[f] /\ Engaged(e) => ~Engaged(f)
    /\ \A e \in Events :
          thread[e] # "none" => task[e] = "await" \/ stop \in {"interrupt", "settle", "stopped"}

\* Nothing but stop() puts the dispatcher off or interrupts a task.
LEMMA StopStepInv ==
    ASSUME TypeOK, StopInv, [Next]_vars
    PROVE  StopInv'
<1> USE ConstantsAssumption DEF TypeOK, StopInv
<1>1. ASSUME NEW e \in Events, Record(e) PROVE StopInv'
  BY <1>1 DEF Record
<1>2. ASSUME NEW e \in Events, Replay(e) PROVE StopInv'
  BY <1>2 DEF Replay, Inactive
<1>3. ASSUME NEW e \in Events, Retrigger(e) PROVE StopInv'
  BY <1>3 DEF Retrigger, Inactive
<1>4. ASSUME NEW e \in Events, Cancel(e) PROVE StopInv'
  BY <1>4 DEF Cancel
<1>5. ASSUME NEW e \in Events, AcquireSlot(e) PROVE StopInv'
  BY <1>5 DEF AcquireSlot, FreeSlots
<1>6. ASSUME NEW e \in Events, StartThread(e) PROVE StopInv'
  BY <1>6 DEF StartThread
<1>7. ASSUME NEW e \in Events, EndWithoutThread(e) PROVE StopInv'
  BY <1>7 DEF EndWithoutThread, Finally, RowOnReturn, RowOnError
<1>8. ASSUME NEW e \in Events, EndWithThread(e) PROVE StopInv'
  BY <1>8 DEF EndWithThread, Finally, RowOnReturn, RowOnError
<1>9. ASSUME NEW e \in Events, CancelTask(e) PROVE StopInv'
  BY <1>9 DEF CancelTask, Finally, Alive
<1>10. ASSUME NEW e \in Events, Release(e) PROVE StopInv'
  BY <1>10 DEF Release
<1>11. ASSUME NEW e \in Events, SpawnAndCheck(e) PROVE StopInv'
  BY <1>11 DEF SpawnAndCheck
<1>12. ASSUME NEW e \in Events, Arm(e) PROVE StopInv'
  BY <1>12 DEF Arm
<1>13. ASSUME NEW e \in Events, ThreadEnds(e) PROVE StopInv'
  BY <1>13 DEF ThreadEnds
<1>14. CASE Claim
  BY <1>14 DEF Claim, OldestQueued
<1>15. CASE Admit
  BY <1>15 DEF Admit, Busy
<1>16. CASE PutBack
  BY <1>16 DEF PutBack, RowPutBack, Busy
<1>17. CASE FallAsleep
  BY <1>17 DEF FallAsleep
<1>18. CASE WakeUp
  BY <1>18 DEF WakeUp
<1>19. CASE BeginStop
  BY <1>19 DEF BeginStop
<1>20. CASE EndDrain
  BY <1>20 DEF EndDrain
<1>21. CASE Interrupt
  BY <1>21 DEF Interrupt, Interruptible
<1>22. CASE EndStop
  BY <1>22 DEF EndStop
<1>23. CASE Restart
  BY <1>23 DEF Restart, RowsAtStart
<1>24. CASE UNCHANGED vars
  BY <1>24
<1>25. QED
  BY <1>1, <1>2, <1>3, <1>4, <1>5, <1>6, <1>7, <1>8, <1>9, <1>10, <1>11, <1>12, <1>13, <1>14, <1>15, <1>16, <1>17, <1>18, <1>19, <1>20, <1>21, <1>22, <1>23, <1>24
  DEF Next, DispatcherStep, TaskStep, ThreadStep, StopStep, Quiet

\* Only Admit engages an event, and it finds the issue free.
LEMMA EngagedStep ==
    ASSUME TypeOK, KnownInv, StopInv, EngagedInv, [Next]_vars
    PROVE  EngagedInv'
<1> USE ConstantsAssumption DEF TypeOK, KnownInv, StopInv, EngagedInv, Engaged
<1>1. ASSUME NEW e \in Events, Record(e) PROVE EngagedInv'
  BY <1>1 DEF Record
<1>2. ASSUME NEW e \in Events, Replay(e) PROVE EngagedInv'
  BY <1>2 DEF Replay, Inactive
<1>3. ASSUME NEW e \in Events, Retrigger(e) PROVE EngagedInv'
  BY <1>3 DEF Retrigger, Inactive
<1>4. ASSUME NEW e \in Events, Cancel(e) PROVE EngagedInv'
  BY <1>4 DEF Cancel
<1>5. ASSUME NEW e \in Events, AcquireSlot(e) PROVE EngagedInv'
  BY <1>5 DEF AcquireSlot, FreeSlots
<1>6. ASSUME NEW e \in Events, StartThread(e) PROVE EngagedInv'
  BY <1>6 DEF StartThread
<1>7. ASSUME NEW e \in Events, EndWithoutThread(e) PROVE EngagedInv'
  BY <1>7 DEF EndWithoutThread, Finally, RowOnReturn, RowOnError
<1>8. ASSUME NEW e \in Events, EndWithThread(e) PROVE EngagedInv'
  BY <1>8 DEF EndWithThread, Finally, RowOnReturn, RowOnError
<1>9. ASSUME NEW e \in Events, CancelTask(e) PROVE EngagedInv'
  BY <1>9 DEF CancelTask, Finally, Alive
<1>10. ASSUME NEW e \in Events, Release(e) PROVE EngagedInv'
  BY <1>10 DEF Release
<1>11. ASSUME NEW e \in Events, SpawnAndCheck(e) PROVE EngagedInv'
  BY <1>11 DEF SpawnAndCheck
<1>12. ASSUME NEW e \in Events, Arm(e) PROVE EngagedInv'
  BY <1>12 DEF Arm
<1>13. ASSUME NEW e \in Events, ThreadEnds(e) PROVE EngagedInv'
  BY <1>13 DEF ThreadEnds
<1>14. CASE Claim
  BY <1>14 DEF Claim, OldestQueued
<1>15. CASE Admit
  BY <1>15 DEF Admit, Busy
<1>16. CASE PutBack
  BY <1>16 DEF PutBack, RowPutBack, Busy
<1>17. CASE FallAsleep
  BY <1>17 DEF FallAsleep
<1>18. CASE WakeUp
  BY <1>18 DEF WakeUp
<1>19. CASE BeginStop
  BY <1>19 DEF BeginStop
<1>20. CASE EndDrain
  BY <1>20 DEF EndDrain
<1>21. CASE Interrupt
  BY <1>21 DEF Interrupt, Interruptible
<1>22. CASE EndStop
  BY <1>22 DEF EndStop
<1>23. CASE Restart
  BY <1>23 DEF Restart, RowsAtStart
<1>24. CASE UNCHANGED vars
  BY <1>24
<1>25. QED
  BY <1>1, <1>2, <1>3, <1>4, <1>5, <1>6, <1>7, <1>8, <1>9, <1>10, <1>11, <1>12, <1>13, <1>14, <1>15, <1>16, <1>17, <1>18, <1>19, <1>20, <1>21, <1>22, <1>23, <1>24
  DEF Next, DispatcherStep, TaskStep, ThreadStep, StopStep, Quiet

LEMMA ControlCorrect == Spec => [](StopInv /\ EngagedInv)
<1>1. Init => StopInv /\ EngagedInv
  BY DEF Init, StopInv, EngagedInv, Engaged
<1>2. QED BY <1>1, StopStepInv, EngagedStep, TypeCorrect, PTL DEF Spec

\* At most one event of an issue is at work, its thread included, over crashes,
\* stops and replays: what the _inflight set is for.
THEOREM OneRunCorrect == Spec => []OneRunPerIssue
<1>1. EngagedInv => OneRunPerIssue
  BY DEF EngagedInv, Engaged, OneRunPerIssue, Going, Alive
<1>2. QED BY <1>1, ControlCorrect, PTL
-----------------------------------------------------------------------------
(* Rows and tasks.                                                         *)

\* What the dispatcher has claimed, no task is at work on.
ClaimedInv == \A e \in Events : claimed = e => ~Alive(e)

\* A row becomes running when it is claimed, and only its end, or its return to
\* the queue, makes it something else.
LEMMA RowsStep ==
    ASSUME TypeOK, KnownInv, StopInv, ClaimedInv, RowsMatchTasks, [Next]_vars
    PROVE  ClaimedInv' /\ RowsMatchTasks'
<1> USE ConstantsAssumption DEF TypeOK, RowStates, KnownInv, StopInv, ClaimedInv, RowsMatchTasks, Alive
<1>1. ASSUME NEW e \in Events, Record(e) PROVE ClaimedInv' /\ RowsMatchTasks'
  BY <1>1 DEF Record
<1>2. ASSUME NEW e \in Events, Replay(e) PROVE ClaimedInv' /\ RowsMatchTasks'
  BY <1>2 DEF Replay, Inactive
<1>3. ASSUME NEW e \in Events, Retrigger(e) PROVE ClaimedInv' /\ RowsMatchTasks'
  BY <1>3 DEF Retrigger, Inactive
<1>4. ASSUME NEW e \in Events, Cancel(e) PROVE ClaimedInv' /\ RowsMatchTasks'
  BY <1>4 DEF Cancel
<1>5. ASSUME NEW e \in Events, AcquireSlot(e) PROVE ClaimedInv' /\ RowsMatchTasks'
  BY <1>5 DEF AcquireSlot, FreeSlots
<1>6. ASSUME NEW e \in Events, StartThread(e) PROVE ClaimedInv' /\ RowsMatchTasks'
  BY <1>6 DEF StartThread
<1>7. ASSUME NEW e \in Events, EndWithoutThread(e) PROVE ClaimedInv' /\ RowsMatchTasks'
  BY <1>7 DEF EndWithoutThread, Finally, RowOnReturn, RowOnError
<1>8. ASSUME NEW e \in Events, EndWithThread(e) PROVE ClaimedInv' /\ RowsMatchTasks'
  BY <1>8 DEF EndWithThread, Finally, RowOnReturn, RowOnError
<1>9. ASSUME NEW e \in Events, CancelTask(e) PROVE ClaimedInv' /\ RowsMatchTasks'
  BY <1>9 DEF CancelTask, Finally, Alive
<1>10. ASSUME NEW e \in Events, Release(e) PROVE ClaimedInv' /\ RowsMatchTasks'
  BY <1>10 DEF Release
<1>11. ASSUME NEW e \in Events, SpawnAndCheck(e) PROVE ClaimedInv' /\ RowsMatchTasks'
  BY <1>11 DEF SpawnAndCheck
<1>12. ASSUME NEW e \in Events, Arm(e) PROVE ClaimedInv' /\ RowsMatchTasks'
  BY <1>12 DEF Arm
<1>13. ASSUME NEW e \in Events, ThreadEnds(e) PROVE ClaimedInv' /\ RowsMatchTasks'
  BY <1>13 DEF ThreadEnds
<1>14. CASE Claim
  BY <1>14 DEF Claim, OldestQueued
<1>15. CASE Admit
  BY <1>15 DEF Admit, Busy
<1>16. CASE PutBack
  BY <1>16 DEF PutBack, RowPutBack, Busy
<1>17. CASE FallAsleep
  BY <1>17 DEF FallAsleep
<1>18. CASE WakeUp
  BY <1>18 DEF WakeUp
<1>19. CASE BeginStop
  BY <1>19 DEF BeginStop
<1>20. CASE EndDrain
  BY <1>20 DEF EndDrain
<1>21. CASE Interrupt
  BY <1>21 DEF Interrupt, Interruptible
<1>22. CASE EndStop
  BY <1>22 DEF EndStop
<1>23. CASE Restart
  BY <1>23 DEF Restart, RowsAtStart
<1>24. CASE UNCHANGED vars
  BY <1>24
<1>25. QED
  BY <1>1, <1>2, <1>3, <1>4, <1>5, <1>6, <1>7, <1>8, <1>9, <1>10, <1>11, <1>12, <1>13, <1>14, <1>15, <1>16, <1>17, <1>18, <1>19, <1>20, <1>21, <1>22, <1>23, <1>24
  DEF Next, DispatcherStep, TaskStep, ThreadStep, StopStep, Quiet

\* While the process is not being stopped, the rows that say running are those
\* the dispatcher or a task has, whatever crossed before.
THEOREM RowsCorrect == Spec => []RowsMatchTasks
<1>1. Init => ClaimedInv /\ RowsMatchTasks
  BY ConstantsAssumption DEF Init, ClaimedInv, RowsMatchTasks, Alive
<1>2. QED BY <1>1, RowsStep, ControlCorrect, TypeCorrect, PTL DEF Spec
-----------------------------------------------------------------------------
(* Slots.                                                                  *)

\* A task has a slot from its preparation to its end, no two have the same, and
\* the subprocess of its thread runs under it.
SlotInv ==
    /\ \A e \in Events : slot[e] # NoSlot <=> task[e] \in {"prep", "await"}
    /\ \A e, f \in Events : e # f /\ slot[e] # NoSlot => slot[f] # slot[e]
    /\ \A e \in Events : task[e] = "await" => uid[e] = slot[e]

\* A slot is taken when nobody has it, and is let go with the task.
LEMMA SlotStep ==
    ASSUME TypeOK, KnownInv, EngagedInv, SlotInv, [Next]_vars
    PROVE  SlotInv'
<1> USE ConstantsAssumption DEF TypeOK, SlotInv
<1>1. ASSUME NEW e \in Events, Record(e) PROVE SlotInv'
  BY <1>1 DEF Record
<1>2. ASSUME NEW e \in Events, Replay(e) PROVE SlotInv'
  BY <1>2 DEF Replay, Inactive
<1>3. ASSUME NEW e \in Events, Retrigger(e) PROVE SlotInv'
  BY <1>3 DEF Retrigger, Inactive
<1>4. ASSUME NEW e \in Events, Cancel(e) PROVE SlotInv'
  BY <1>4 DEF Cancel
<1>5. ASSUME NEW e \in Events, AcquireSlot(e) PROVE SlotInv'
  BY <1>5 DEF AcquireSlot, FreeSlots
<1>6. ASSUME NEW e \in Events, StartThread(e) PROVE SlotInv'
  BY <1>6 DEF StartThread
<1>7. ASSUME NEW e \in Events, EndWithoutThread(e) PROVE SlotInv'
  BY <1>7 DEF EndWithoutThread, Finally, RowOnReturn, RowOnError
<1>8. ASSUME NEW e \in Events, EndWithThread(e) PROVE SlotInv'
  <2>1. /\ task' = [task EXCEPT ![e] = "release"] /\ slot' = [slot EXCEPT ![e] = NoSlot]
        /\ \A f \in Events : f # e => uid'[f] = uid[f]
    BY <1>8 DEF EndWithThread, Finally
  <2>2. QED BY <2>1
<1>9. ASSUME NEW e \in Events, CancelTask(e) PROVE SlotInv'
  BY <1>9 DEF CancelTask, Finally, Alive
<1>10. ASSUME NEW e \in Events, Release(e) PROVE SlotInv'
  BY <1>10 DEF Release
<1>11. ASSUME NEW e \in Events, SpawnAndCheck(e) PROVE SlotInv'
  BY <1>11 DEF SpawnAndCheck
<1>12. ASSUME NEW e \in Events, Arm(e) PROVE SlotInv'
  BY <1>12 DEF Arm
<1>13. ASSUME NEW e \in Events, ThreadEnds(e) PROVE SlotInv'
  BY <1>13 DEF ThreadEnds
<1>14. CASE Claim
  BY <1>14 DEF Claim, OldestQueued
<1>15. CASE Admit
  <2>1. claimed \in Events /\ task' = [task EXCEPT ![claimed] = "slot"] /\ UNCHANGED <<slot, uid>>
    BY <1>15 DEF Admit, KnownInv
  <2>2. task[claimed] = "none"
    BY <1>15, <2>1 DEF Admit, Busy, EngagedInv
  <2>3. QED BY <2>1, <2>2
<1>16. CASE PutBack
  BY <1>16 DEF PutBack, RowPutBack, Busy
<1>17. CASE FallAsleep
  BY <1>17 DEF FallAsleep
<1>18. CASE WakeUp
  BY <1>18 DEF WakeUp
<1>19. CASE BeginStop
  BY <1>19 DEF BeginStop
<1>20. CASE EndDrain
  BY <1>20 DEF EndDrain
<1>21. CASE Interrupt
  BY <1>21 DEF Interrupt, Interruptible
<1>22. CASE EndStop
  BY <1>22 DEF EndStop
<1>23. CASE Restart
  BY <1>23 DEF Restart, RowsAtStart
<1>24. CASE UNCHANGED vars
  BY <1>24
<1>25. QED
  BY <1>1, <1>2, <1>3, <1>4, <1>5, <1>6, <1>7, <1>8, <1>9, <1>10, <1>11, <1>12, <1>13, <1>14, <1>15, <1>16, <1>17, <1>18, <1>19, <1>20, <1>21, <1>22, <1>23, <1>24
  DEF Next, DispatcherStep, TaskStep, ThreadStep, StopStep, Quiet

LEMMA SlotCorrect == Spec => []SlotInv
<1>1. Init => SlotInv
  BY DEF Init, SlotInv
<1>2. QED BY <1>1, SlotStep, TypeCorrect, ControlCorrect, PTL DEF Spec

\* No subprocess of an earlier task shares a slot with a later one, until stop()
\* begins to interrupt (_reap_slot).
THEOREM NoStragglerCorrect == Spec => []NoStraggler
<1>1. TypeOK /\ EngagedInv /\ SlotInv => NoStraggler
  BY DEF TypeOK, EngagedInv, SlotInv, NoStraggler, Spawned
<1>2. QED BY <1>1, TypeCorrect, ControlCorrect, SlotCorrect, PTL
-----------------------------------------------------------------------------
(* Cancellation.                                                           *)

\* A cancel that came while the task was alive stays known until its end.
AskedInv ==
    /\ \A e \in asked : Alive(e) => e \in cancelled
    /\ stop \in {"no", "drain"} => \A e \in asked : Alive(e)

\* An end forgets the cancel, unless it leaves the row to the next process.
LEMMA AskedStep ==
    ASSUME TypeOK, StopInv, AskedInv, [Next]_vars
    PROVE  AskedInv'
<1> USE ConstantsAssumption DEF TypeOK, StopInv, AskedInv, Alive
<1>1. ASSUME NEW e \in Events, Record(e) PROVE AskedInv'
  BY <1>1 DEF Record
<1>2. ASSUME NEW e \in Events, Replay(e) PROVE AskedInv'
  BY <1>2 DEF Replay, Inactive
<1>3. ASSUME NEW e \in Events, Retrigger(e) PROVE AskedInv'
  BY <1>3 DEF Retrigger, Inactive
<1>4. ASSUME NEW e \in Events, Cancel(e) PROVE AskedInv'
  BY <1>4 DEF Cancel
<1>5. ASSUME NEW e \in Events, AcquireSlot(e) PROVE AskedInv'
  BY <1>5 DEF AcquireSlot, FreeSlots
<1>6. ASSUME NEW e \in Events, StartThread(e) PROVE AskedInv'
  BY <1>6 DEF StartThread
<1>7. ASSUME NEW e \in Events, EndWithoutThread(e) PROVE AskedInv'
  BY <1>7 DEF EndWithoutThread, Finally, RowOnReturn, RowOnError
<1>8. ASSUME NEW e \in Events, EndWithThread(e) PROVE AskedInv'
  BY <1>8 DEF EndWithThread, Finally, RowOnReturn, RowOnError
<1>9. ASSUME NEW e \in Events, CancelTask(e) PROVE AskedInv'
  BY <1>9 DEF CancelTask, Finally, Alive
<1>10. ASSUME NEW e \in Events, Release(e) PROVE AskedInv'
  BY <1>10 DEF Release
<1>11. ASSUME NEW e \in Events, SpawnAndCheck(e) PROVE AskedInv'
  BY <1>11 DEF SpawnAndCheck
<1>12. ASSUME NEW e \in Events, Arm(e) PROVE AskedInv'
  BY <1>12 DEF Arm
<1>13. ASSUME NEW e \in Events, ThreadEnds(e) PROVE AskedInv'
  BY <1>13 DEF ThreadEnds
<1>14. CASE Claim
  BY <1>14 DEF Claim, OldestQueued
<1>15. CASE Admit
  BY <1>15 DEF Admit, Busy
<1>16. CASE PutBack
  BY <1>16 DEF PutBack, RowPutBack, Busy
<1>17. CASE FallAsleep
  BY <1>17 DEF FallAsleep
<1>18. CASE WakeUp
  BY <1>18 DEF WakeUp
<1>19. CASE BeginStop
  BY <1>19 DEF BeginStop
<1>20. CASE EndDrain
  BY <1>20 DEF EndDrain
<1>21. CASE Interrupt
  BY <1>21 DEF Interrupt, Interruptible
<1>22. CASE EndStop
  BY <1>22 DEF EndStop
<1>23. CASE Restart
  BY <1>23 DEF Restart, RowsAtStart
<1>24. CASE UNCHANGED vars
  BY <1>24
<1>25. QED
  BY <1>1, <1>2, <1>3, <1>4, <1>5, <1>6, <1>7, <1>8, <1>9, <1>10, <1>11, <1>12, <1>13, <1>14, <1>15, <1>16, <1>17, <1>18, <1>19, <1>20, <1>21, <1>22, <1>23, <1>24
  DEF Next, DispatcherStep, TaskStep, ThreadStep, StopStep, Quiet

\* Only the end of a task says done, and it looks for a cancel first.
LEMMA CancelledStep ==
    ASSUME TypeOK, AskedInv, [Next]_vars
    PROVE  \A d \in asked : row[d] = "running" => row'[d] # "done"
<1> USE ConstantsAssumption DEF TypeOK, AskedInv, Alive
<1>1. ASSUME NEW e \in Events, Record(e) PROVE \A d \in asked : row[d] = "running" => row'[d] # "done"
  BY <1>1 DEF Record
<1>2. ASSUME NEW e \in Events, Replay(e) PROVE \A d \in asked : row[d] = "running" => row'[d] # "done"
  BY <1>2 DEF Replay, Inactive
<1>3. ASSUME NEW e \in Events, Retrigger(e) PROVE \A d \in asked : row[d] = "running" => row'[d] # "done"
  BY <1>3 DEF Retrigger, Inactive
<1>4. ASSUME NEW e \in Events, Cancel(e) PROVE \A d \in asked : row[d] = "running" => row'[d] # "done"
  BY <1>4 DEF Cancel
<1>5. ASSUME NEW e \in Events, AcquireSlot(e) PROVE \A d \in asked : row[d] = "running" => row'[d] # "done"
  BY <1>5 DEF AcquireSlot, FreeSlots
<1>6. ASSUME NEW e \in Events, StartThread(e) PROVE \A d \in asked : row[d] = "running" => row'[d] # "done"
  BY <1>6 DEF StartThread
<1>7. ASSUME NEW e \in Events, EndWithoutThread(e) PROVE \A d \in asked : row[d] = "running" => row'[d] # "done"
  BY <1>7 DEF EndWithoutThread, Finally, RowOnReturn, RowOnError
<1>8. ASSUME NEW e \in Events, EndWithThread(e) PROVE \A d \in asked : row[d] = "running" => row'[d] # "done"
  BY <1>8 DEF EndWithThread, Finally, RowOnReturn, RowOnError
<1>9. ASSUME NEW e \in Events, CancelTask(e) PROVE \A d \in asked : row[d] = "running" => row'[d] # "done"
  BY <1>9 DEF CancelTask, Finally, Alive
<1>10. ASSUME NEW e \in Events, Release(e) PROVE \A d \in asked : row[d] = "running" => row'[d] # "done"
  BY <1>10 DEF Release
<1>11. ASSUME NEW e \in Events, SpawnAndCheck(e) PROVE \A d \in asked : row[d] = "running" => row'[d] # "done"
  BY <1>11 DEF SpawnAndCheck
<1>12. ASSUME NEW e \in Events, Arm(e) PROVE \A d \in asked : row[d] = "running" => row'[d] # "done"
  BY <1>12 DEF Arm
<1>13. ASSUME NEW e \in Events, ThreadEnds(e) PROVE \A d \in asked : row[d] = "running" => row'[d] # "done"
  BY <1>13 DEF ThreadEnds
<1>14. CASE Claim
  BY <1>14 DEF Claim, OldestQueued
<1>15. CASE Admit
  BY <1>15 DEF Admit, Busy
<1>16. CASE PutBack
  BY <1>16 DEF PutBack, RowPutBack, Busy
<1>17. CASE FallAsleep
  BY <1>17 DEF FallAsleep
<1>18. CASE WakeUp
  BY <1>18 DEF WakeUp
<1>19. CASE BeginStop
  BY <1>19 DEF BeginStop
<1>20. CASE EndDrain
  BY <1>20 DEF EndDrain
<1>21. CASE Interrupt
  BY <1>21 DEF Interrupt, Interruptible
<1>22. CASE EndStop
  BY <1>22 DEF EndStop
<1>23. CASE Restart
  BY <1>23 DEF Restart, RowsAtStart
<1>24. CASE UNCHANGED vars
  BY <1>24
<1>25. QED
  BY <1>1, <1>2, <1>3, <1>4, <1>5, <1>6, <1>7, <1>8, <1>9, <1>10, <1>11, <1>12, <1>13, <1>14, <1>15, <1>16, <1>17, <1>18, <1>19, <1>20, <1>21, <1>22, <1>23, <1>24
  DEF Next, DispatcherStep, TaskStep, ThreadStep, StopStep, Quiet

\* A delivery cancelled while its task was alive is never recorded as done,
\* however the cancel and the end of the turn cross.
THEOREM CancelledCorrect == Spec => CancelledNeverDone
<1>1. Init => AskedInv
  BY DEF Init, AskedInv
<1>2. Spec => []AskedInv
  BY <1>1, AskedStep, TypeCorrect, ControlCorrect, PTL DEF Spec
<1>3. TypeOK /\ AskedInv /\ [Next]_vars
      => [\A e \in asked : row[e] = "running" => row'[e] # "done"]_vars
  BY CancelledStep
<1>4. QED BY <1>2, <1>3, TypeCorrect, PTL DEF Spec, CancelledNeverDone
=============================================================================
