----------------------------- MODULE AsyncJobs ------------------------------
(***************************************************************************)
(* Background jobs of a session: AsyncJobManager in                        *)
(* packages/coding-agent/src/async/job-manager.ts, with its users: the job *)
(* tool (tools/job.ts) that polls, the bash tool that may wait for the job *)
(* it started, and the session's onJobComplete (sdk.ts) that hands results *)
(* on to the agent.                                                        *)
(*                                                                         *)
(* A job that ends has its result queued for delivery, unless somebody has *)
(* acknowledged it or polls it.  One loop works the queue off, one at a    *)
(* time; a session that drains its own deliveries takes them out of the    *)
(* middle of the same queue.  Ids are handed out again after the eviction  *)
(* of the job they named, and every table of the manager is kept by id.    *)
(*                                                                         *)
(* A job here is one registration; "finished" stands for completed and     *)
(* failed, which the manager treats alike.                                 *)
(***************************************************************************)
EXTENDS Integers, Sequences, FiniteSets, SequencesExt

CONSTANTS
    MaxJobs,         \* bound: jobs registered in all
    MaxRunning,      \* maxRunningJobs
    NumPolls,        \* polls that may wait at the same time
    MaxFailures,     \* bound: deliveries that fail in all
    LongRetention    \* the retention time outlasts aborts, hand-overs, polls

ASSUME ConstantsAssumption ==
    /\ MaxJobs \in Nat \ {0} /\ MaxRunning \in Nat \ {0}
    /\ NumPolls \in Nat /\ MaxFailures \in Nat
    /\ LongRetention \in BOOLEAN

Jobs == 1..MaxJobs                   \* in the order they are registered
Ids == 1..MaxJobs                    \* bg_1, bg_2, ...
Polls == 1..NumPolls
None == 0

VARIABLES
    \* the jobs
    nextJob,       \* the next job to be registered
    id,            \* id[j]: the id of job j
    status,        \* status[j]
    over,          \* jobs whose promise has settled
    waiter,        \* jobs whose starting tool still waits for the result
    \* the tables
    jobAt,         \* #jobs: jobAt[i] is the job listed under id i, or None
    suppressed,    \* #suppressedDeliveries
    watched,       \* #watchedJobs
    timers,        \* #evictionTimers
    \* deliveries
    queue,         \* #deliveries
    retried,       \* jobs whose delivery has failed: the next try is put off
    flight,        \* flight[j]: who waits for the hand-over of j's result
    loop,          \* #deliveryLoop: where it stands
    loopJob,       \* the delivery it sleeps before, or waits for
    \* the job tool
    raced,         \* raced[p]: the running jobs poll p waits for
    tracked,       \* tracked[p]: the jobs poll p will report on
    \* dispose
    disposing,     \* where it stands
    awaited,       \* the jobs waitForAll waits for
    \* history
    failures,      \* deliveries that failed
    told,          \* told[j]: how often the session was given j's result
    shown          \* jobs whose end a tool call has reported

jobVars == <<nextJob, id, status, over>>
tables == <<jobAt, suppressed, watched, timers>>
deliveries == <<queue, flight, loop, loopJob>>
polling == <<raced, tracked>>
disposal == <<disposing, awaited>>
history == <<failures, told, shown>>
vars == <<jobVars, waiter, tables, deliveries, retried, polling, disposal, history>>

TypeOK ==
    /\ nextJob \in 1..(MaxJobs + 1)
    /\ id \in [Jobs -> Ids \cup {None}]
    /\ status \in [Jobs -> {"unborn", "running", "finished", "cancelled"}]
    /\ \A j \in Jobs : id[j] = None <=> status[j] = "unborn"
    /\ jobAt \in [Ids -> Jobs \cup {None}]
    /\ {over, waiter, retried, awaited, shown} \subseteq SUBSET Jobs
    /\ {suppressed, watched, timers} \subseteq SUBSET Ids
    /\ queue \in Seq(Jobs)
    /\ flight \in [Jobs -> {"no", "loop", "drain"}]
    /\ loop \in {"none", "sleep", "await", "exit"}
    /\ loopJob \in Jobs \cup {None}
    /\ raced \in [Polls -> SUBSET Jobs] /\ tracked \in [Polls -> SUBSET Jobs]
    /\ disposing \in {"no", "waiting", "draining", "done"}
    /\ failures \in 0..MaxFailures
    /\ told \in [Jobs -> Nat]

Init ==
    /\ nextJob = 1
    /\ id = [j \in Jobs |-> None]
    /\ status = [j \in Jobs |-> "unborn"]
    /\ jobAt = [i \in Ids |-> None]
    /\ over = {} /\ waiter = {} /\ retried = {} /\ awaited = {} /\ shown = {}
    /\ suppressed = {} /\ watched = {} /\ timers = {}
    /\ queue = << >>
    /\ flight = [j \in Jobs |-> "no"]
    /\ loop = "none" /\ loopJob = None
    /\ raced = [p \in Polls |-> {}] /\ tracked = [p \in Polls |-> {}]
    /\ disposing = "no"
    /\ failures = 0
    /\ told = [j \in Jobs |-> 0]
-----------------------------------------------------------------------------
Listed == {jobAt[i] : i \in Ids} \ {None}
Running == {j \in Listed : status[j] = "running"}
IdsOf(js) == {id[j] : j \in js}

\* isDeliverySuppressed.
Suppressed(j) == id[j] \in suppressed \cup watched

FreeIds == {i \in Ids : jobAt[i] = None}
\* #resolveJobId: the first candidate that is not listed.
NewId == CHOOSE i \in FreeIds : \A k \in FreeIds : i <= k

\* Array.filter: the members of s that are in S, in their order (the nth is
\* the one with n of them up to it).
Kept(s, S) ==
    LET is == {i \in DOMAIN s : s[i] \in S}
    IN  [n \in 1..Cardinality(is) |->
            s[CHOOSE i \in is : Cardinality({k \in is : k <= i}) = n]]

(* #runDeliveryLoop from the top of its while to its next await, over the  *)
(* queue q and the hand-overs fl: suppressed deliveries are dropped, and   *)
(* the first other one is waited for or handed over.                       *)
HandOver(j, q, fl) ==
    /\ loop' = "await" /\ loopJob' = j
    /\ queue' = q
    /\ flight' = [fl EXCEPT ![j] = "loop"]
RunLoop(q, fl) ==
    LET wanted == {i \in DOMAIN q : ~Suppressed(q[i])}
    IN  \/ /\ wanted = {}
           /\ loop' = "exit" /\ loopJob' = None
           /\ queue' = << >>
           /\ flight' = fl
        \/ \E first \in wanted :
            /\ \A i \in wanted : first <= i
            /\ \/ /\ q[first] \in retried
                  /\ loop' = "sleep" /\ loopJob' = q[first]
                  /\ queue' = SubSeq(q, first, Len(q))
                  /\ flight' = fl
               \/ HandOver(q[first], SubSeq(q, first + 1, Len(q)), fl)

\* #ensureDeliveryLoop, called with something in the queue.
EnsureLoop(q, fl) ==
    IF loop = "none" /\ q # << >>
    THEN RunLoop(q, fl)
    ELSE queue' = q /\ flight' = fl /\ UNCHANGED <<loop, loopJob>>

\* acknowledgeDeliveries: what it leaves of the queue.  The ids in w are
\* those still watched.
Acknowledge(is, w) ==
    /\ suppressed' = suppressed \cup is
    /\ queue' = Kept(queue, {j \in Jobs : id[j] \notin suppressed \cup is \cup w})
    /\ UNCHANGED <<flight, loop, loopJob>>
-----------------------------------------------------------------------------
(* The jobs.                                                               *)
\* register: a tool starts a job, and may wait for it for a while (bash).
Register ==
    LET j == nextJob
    IN  /\ disposing = "no"
        /\ j <= MaxJobs
        /\ Cardinality(Running) < MaxRunning
        /\ nextJob' = j + 1
        /\ id' = [id EXCEPT ![j] = NewId]
        /\ status' = [status EXCEPT ![j] = "running"]
        /\ jobAt' = [jobAt EXCEPT ![NewId] = j]
        /\ suppressed' = suppressed \ {NewId}
        /\ waiter' \in {waiter, waiter \cup {j}}
        /\ UNCHANGED <<over, watched, timers, deliveries, retried, polling, disposal, history>>

\* The work of j returns or throws.  The result of a cancelled job is kept,
\* but not delivered; #enqueueDelivery drops one that is suppressed.
JobEnds(j) ==
    /\ status[j] \in {"running", "cancelled"} /\ j \notin over
    /\ over' = over \cup {j}
    /\ timers' = timers \cup {id[j]}
    /\ IF status[j] = "cancelled"
       THEN UNCHANGED <<status, deliveries>>
       ELSE /\ status' = [status EXCEPT ![j] = "finished"]
            /\ IF Suppressed(j)
               THEN UNCHANGED deliveries
               ELSE EnsureLoop(Append(queue, j), flight)
    /\ UNCHANGED <<nextJob, id, waiter, jobAt, suppressed, watched, retried,
                   polling, disposal, history>>

\* cancel: of the job listed under id i, if it is running.
CancelAt(i) ==
    IF jobAt[i] \in Running
    THEN /\ status' = [status EXCEPT ![jobAt[i]] = "cancelled"]
         /\ timers' = timers \cup {i}
    ELSE UNCHANGED <<status, timers>>
Cancel(j) ==
    /\ j \in Running
    /\ CancelAt(id[j])
    /\ UNCHANGED <<nextJob, id, over, waiter, jobAt, suppressed, watched, deliveries, retried,
                   polling, disposal, history>>

\* The tool that started j has its result, perhaps before the job has ended,
\* reports it and acknowledges the delivery.
Collect(j) ==
    /\ j \in waiter
    /\ waiter' = waiter \ {j}
    /\ shown' = shown \cup {j}
    /\ Acknowledge({id[j]}, watched)
    /\ UNCHANGED <<jobVars, jobAt, watched, timers, retried, polling, disposal, failures, told>>

\* It has waited long enough: the job goes on in the background.
Background(j) ==
    /\ j \in waiter \ over
    /\ waiter' = waiter \ {j}
    /\ UNCHANGED <<jobVars, tables, deliveries, retried, polling, disposal, history>>

\* It was aborted: the job is cancelled and its delivery acknowledged.
AbortWait(j) ==
    /\ j \in waiter
    /\ waiter' = waiter \ {j}
    /\ shown' = shown \cup {j}
    /\ CancelAt(id[j])
    /\ Acknowledge({id[j]}, watched)
    /\ UNCHANGED <<nextJob, id, over, jobAt, watched, retried, polling, disposal, failures, told>>
-----------------------------------------------------------------------------
(* The job tool.                                                           *)
\* #snapshotJobs: the job now listed under the id, or the one that was.
Latest(j) == IF jobAt[id[j]] # None THEN jobAt[id[j]] ELSE j

\* #buildResult: what has ended is reported and acknowledged.
BuildResult(js, w) ==
    LET ended == {k \in {Latest(j) : j \in js} : status[k] # "running"}
    IN  /\ Acknowledge(IdsOf(ended), w)
        /\ shown' = shown \cup ended

\* list, or a poll of jobs none of which is running.
Show(js) ==
    /\ js \subseteq Listed
    /\ js \ Running # {}
    /\ BuildResult(js, watched)
    /\ UNCHANGED <<jobVars, waiter, jobAt, watched, timers, retried, polling, disposal,
                   failures, told>>

StartPoll(p, js) ==
    /\ raced[p] = {}
    /\ js \subseteq Listed
    /\ js \cap Running # {}
    /\ raced' = [raced EXCEPT ![p] = js \cap Running]
    /\ tracked' = [tracked EXCEPT ![p] = js]
    /\ watched' = watched \cup IdsOf(js \cap Running)
    /\ UNCHANGED <<jobVars, waiter, jobAt, suppressed, timers, deliveries, retried, disposal, history>>

\* A raced job has ended, or the time is up, or the call was aborted.
EndPoll(p) ==
    LET left == watched \ IdsOf(raced[p])
    IN  /\ raced[p] # {}
        /\ raced' = [raced EXCEPT ![p] = {}]
        /\ tracked' = [tracked EXCEPT ![p] = {}]
        /\ watched' = left
        /\ BuildResult(tracked[p], left)
        /\ UNCHANGED <<jobVars, waiter, jobAt, timers, retried, disposal, failures, told>>
-----------------------------------------------------------------------------
(* Deliveries.                                                             *)
\* Mutant of Wanted: onJobComplete checks only before it formats the result.
WantedAnyway(j) == TRUE
\* onJobComplete: is the delivery still wanted after the result is formatted?
Wanted(j) == ~Suppressed(j)

\* The hand-over of j's result comes back; a failed one is queued again.
EndHandOver(j) ==
    LET landed == [flight EXCEPT ![j] = "no"]
    IN  /\ flight[j] # "no"
        /\ \/ /\ told' = [told EXCEPT ![j] = IF Wanted(j) THEN @ + 1 ELSE @]
              /\ EnsureLoop(queue, landed)
              /\ UNCHANGED <<failures, retried>>
           \/ /\ failures < MaxFailures
              /\ failures' = failures + 1
              /\ retried' = retried \cup {j}
              /\ EnsureLoop(IF Suppressed(j) THEN queue ELSE Append(queue, j), landed)
              /\ UNCHANGED told
        /\ UNCHANGED <<jobVars, waiter, tables, polling, disposal, shown>>

\* Mutant of StillHead: the loop trusts the delivery it slept for.
StillHeadAlways(j) == TRUE
\* Nobody has taken the delivery while the loop slept.
StillHead(j) == queue # << >> /\ Head(queue) = j
WakeLoop ==
    /\ loop = "sleep"
    /\ IF StillHead(loopJob) /\ ~Suppressed(loopJob)
       THEN HandOver(loopJob, IF queue = << >> THEN << >> ELSE Tail(queue), flight)
       ELSE RunLoop(queue, flight)
    /\ UNCHANGED <<jobVars, waiter, tables, retried, polling, disposal, history>>

ResumeLoop ==
    /\ loop = "await"
    /\ flight[loopJob] # "loop"
    /\ RunLoop(queue, flight)
    /\ UNCHANGED <<jobVars, waiter, tables, retried, polling, disposal, history>>

\* Mutant of LoopLeftWork: the loop does not look back when it ends.
LoopLeftNothing == FALSE
\* The finally of #ensureDeliveryLoop: something was queued while the promise
\* of the loop had yet to settle.
LoopLeftWork == queue # << >>
EndLoop ==
    /\ loop = "exit"
    /\ IF LoopLeftWork
       THEN RunLoop(queue, flight)
       ELSE loop' = "none" /\ UNCHANGED <<queue, flight, loopJob>>
    /\ UNCHANGED <<jobVars, waiter, tables, retried, polling, disposal, history>>

\* #deliverNextFiltered: a session drains its own deliveries.
DrainNext(j) ==
    /\ disposing # "done"
    /\ j \in ToSet(queue) /\ ~Suppressed(j)
    /\ queue' = Kept(queue, Jobs \ {j})
    /\ flight' = [flight EXCEPT ![j] = "drain"]
    /\ UNCHANGED <<jobVars, waiter, tables, loop, loopJob, retried, polling, disposal, history>>
-----------------------------------------------------------------------------
\* Promise callbacks run before timers do: no tool call is about to report.
CallbacksDone ==
    /\ \A p \in Polls : raced[p] \cap over = {}
    /\ waiter \cap over = {}

\* The retention time is longer than an aborted job takes to end, a result takes
\* to be handed over, and a poll may wait.
Retained(i) ==
    \/ \E j \in Jobs :
        /\ id[j] = i
        /\ flight[j] # "no" \/ (status[j] = "cancelled" /\ j \notin over)
    \/ \E p \in Polls : \E j \in tracked[p] : id[j] = i /\ jobAt[i] # j

\* The eviction timer of id i fires.
Evict(i) ==
    /\ i \in timers
    /\ CallbacksDone
    /\ LongRetention => ~Retained(i)
    /\ jobAt' = [jobAt EXCEPT ![i] = None]
    /\ suppressed' = suppressed \ {i}
    /\ watched' = watched \ {i}
    /\ timers' = timers \ {i}
    /\ UNCHANGED <<jobVars, waiter, deliveries, retried, polling, disposal, history>>
-----------------------------------------------------------------------------
(* dispose.                                                                *)
\* Mutant of StatusAfterCancelAll: nothing is cancelled.
StatusLeft == status
StatusAfterCancelAll == [j \in Jobs |-> IF j \in Running THEN "cancelled" ELSE status[j]]
BeginDispose ==
    /\ disposing = "no"
    /\ disposing' = "waiting"
    /\ status' = StatusAfterCancelAll
    /\ timers' = IdsOf(Running)
    /\ awaited' = Listed
    /\ UNCHANGED <<nextJob, id, over, waiter, jobAt, suppressed, watched, deliveries, retried,
                   polling, history>>

\* waitForAll is over; drainDeliveries begins.
BeginDrain ==
    /\ disposing = "waiting"
    /\ awaited \subseteq over
    /\ disposing' = "draining"
    /\ EnsureLoop(queue, flight)
    /\ UNCHANGED <<jobVars, waiter, tables, retried, polling, awaited, history>>

\* Everything is delivered, or the three seconds are over.
EndDispose ==
    /\ disposing = "draining"
    /\ disposing' = "done"
    /\ jobAt' = [i \in Ids |-> None]
    /\ suppressed' = {} /\ watched' = {} /\ timers' = {}
    /\ queue' = << >>
    /\ UNCHANGED <<jobVars, waiter, flight, loop, loopJob, retried, polling, awaited, history>>

\* Nothing is left to do.
Idle ==
    /\ disposing = "done"
    /\ loop = "none"
    /\ UNCHANGED vars

LoopStep == WakeLoop \/ ResumeLoop \/ EndLoop
Next ==
    \/ Register
    \/ \E j \in Jobs :
        \/ JobEnds(j) \/ Cancel(j) \/ Collect(j) \/ Background(j) \/ AbortWait(j)
        \/ EndHandOver(j) \/ DrainNext(j)
    \/ \E js \in SUBSET Jobs : Show(js) \/ \E p \in Polls : StartPoll(p, js)
    \/ \E p \in Polls : EndPoll(p)
    \/ LoopStep
    \/ \E i \in Ids : Evict(i)
    \/ BeginDispose \/ BeginDrain \/ EndDispose
    \/ Idle

Spec == Init /\ [][Next]_vars

\* The event loop runs what is ready.  A job may run for ever, unless it is
\* cancelled; a poll has a time limit; a hand-over comes back.
FairSpec ==
    /\ Spec
    /\ WF_vars(LoopStep)
    /\ WF_vars(BeginDrain) /\ WF_vars(EndDispose)
    /\ \A p \in Polls : WF_vars(EndPoll(p))
    /\ \A j \in Jobs :
        /\ WF_vars(status[j] = "cancelled" /\ JobEnds(j))
        /\ WF_vars(EndHandOver(j))
-----------------------------------------------------------------------------
(***************************************************************************)
(* Properties.                                                             *)
(***************************************************************************)
\* No later job has taken over the id of j.
Own(j) == \A k \in Jobs : k > j => id[k] # id[j]
Reported(j) == told[j] > 0 \/ j \in shown

\* The loop and a draining session take deliveries from the same queue, but no
\* result is given to the session twice.
DeliveredOnce == \A j \in Jobs : told[j] <= 1

\* A result a tool call has reported is not delivered as well afterwards: "Skip
\* delivery if already acknowledged", also when it was on its way (until dispose
\* has thrown the acknowledgements away).
ReportedNotDelivered ==
    [][disposing # "done" =>
         \A j \in Jobs : j \in shown /\ Own(j) => told'[j] = told[j]]_vars

\* Every result reaches the agent: nothing stays in a queue no loop works off.
EveryResultReported ==
    \A j \in Jobs : status[j] = "finished" ~> (Reported(j) \/ ~Own(j) \/ disposing = "done")

\* dispose returns, although jobs and deliveries of the session are going on.
DisposeEnds == disposing = "waiting" ~> disposing = "done"
=============================================================================
