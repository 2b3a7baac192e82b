----------------------------- MODULE ToolBatch ------------------------------
(***************************************************************************)
(* The tool calls of one assistant turn: executeToolCalls in               *)
(* packages/agent/src/agent-loop.ts, with the steering queue of the Agent  *)
(* (packages/agent/src/agent.ts) it polls between calls.                   *)
(*                                                                         *)
(* Every call becomes a promise task.  A task first waits for the tasks it *)
(* is chained behind (Preds), runs its tool, emits the result and then     *)
(* looks for steering messages; only after that its promise settles.  The  *)
(* look is single-flight: while one call's look is pending, another call   *)
(* that finishes joins it.  An interruption stops tools that have not      *)
(* started; a sweep at the end answers the calls that never ran.           *)
(***************************************************************************)
EXTENDS Integers, Sequences, FiniteSets, SequencesExt

CONSTANTS
    NumCalls,      \* tool calls of the assistant turn
    MaxSteer       \* bound: how many messages the user queues in all

ASSUME NumCallsAssumption == NumCalls \in Nat \ {0}
ASSUME MaxSteerAssumption == MaxSteer \in Nat

Calls == 1..NumCalls
Messages == 1..MaxSteer               \* numbered in the order they are queued
None == 0                             \* no call

VARIABLES
    \* settings of this batch
    conc,             \* conc[i]: "shared" or "exclusive"
    interruptMode,    \* "immediate" or "wait"
    steeringMode,     \* "one-at-a-time" or "all"
    \* the tasks
    pc,               \* pc[i]: where task i stands
    result,           \* result[i]: "none", "executed" or "skipped"
    emitted,          \* emittedToolResults: calls in the order they were answered
    returned,         \* executeToolCalls has returned
    \* the interruption
    triggered,        \* interruptState.triggered
    steeringMessages, \* what the batch will hand to the loop
    steeringCheck,    \* the call whose look at the queue is pending, or None
    awaiting,         \* awaiting[i]: the look that call i has joined
    fetched,          \* fetched[i]: dequeued by i's look, not yet stored
    \* the user's side
    steeringQueue,    \* Agent.#steeringQueue
    nextMessage,      \* number of the next message the user queues
    withdrawn,        \* messages taken back by the user
    userAborted       \* the run's own abort signal

settings == <<conc, interruptMode, steeringMode>>
taskVars == <<pc, result, emitted, returned>>
checkVars == <<triggered, steeringMessages, steeringCheck, awaiting, fetched>>
userVars == <<steeringQueue, nextMessage, withdrawn, userAborted>>
vars == <<settings, taskVars, checkVars, userVars>>

States == {"waiting", "running", "checking", "joined", "settled"}
-----------------------------------------------------------------------------
TypeOK ==
    /\ conc \in [Calls -> {"shared", "exclusive"}]
    /\ interruptMode \in {"immediate", "wait"}
    /\ steeringMode \in {"one-at-a-time", "all"}
    /\ pc \in [Calls -> States]
    /\ result \in [Calls -> {"none", "executed", "skipped"}]
    /\ emitted \in Seq(Calls)
    /\ returned \in BOOLEAN
    /\ triggered \in BOOLEAN
    /\ steeringMessages \in Seq(Messages)
    /\ steeringCheck \in Calls \cup {None}
    /\ awaiting \in [Calls -> Calls \cup {None}]
    /\ fetched \in [Calls -> Seq(Messages)]
    /\ steeringQueue \in Seq(Messages)
    /\ nextMessage \in 1..(MaxSteer + 1)
    /\ withdrawn \in SUBSET Messages
    /\ userAborted \in BOOLEAN

Init ==
    /\ conc \in [Calls -> {"shared", "exclusive"}]
    /\ interruptMode \in {"immediate", "wait"}
    /\ steeringMode \in {"one-at-a-time", "all"}
    /\ pc = [i \in Calls |-> "waiting"]
    /\ result = [i \in Calls |-> "none"]
    /\ emitted = << >>
    /\ returned = FALSE
    /\ triggered = FALSE
    /\ steeringMessages = << >>
    /\ steeringCheck = None
    /\ awaiting = [i \in Calls |-> None]
    /\ fetched = [i \in Calls |-> << >>]
    /\ steeringQueue = << >>
    /\ nextMessage = 1
    /\ withdrawn = {}
    /\ userAborted = FALSE
-----------------------------------------------------------------------------
\* Two calls conflict when one of them has to run alone.
Conflict(i, j) == conc[i] = "exclusive" \/ conc[j] = "exclusive"

\* Mutants of Preds: only exclusive calls wait; only the nearest call counts;
\* a call also waits for the conflicting calls behind it.
PredsOfExclusiveOnly(i) ==
    {j \in 1..(i - 1) : conc[i] = "exclusive" /\ \A k \in (j + 1)..(i - 1) : conc[k] = "shared"}
PredsNearest(i) == {j \in Calls : j = i - 1 /\ Conflict(i, j)}
PredsBothWays(i) == {j \in Calls : j # i /\ Conflict(i, j)}

(* The promise chain built by the scheduling loop: an exclusive task is    *)
(* chained behind the last exclusive task (lastExclusive) and the shared   *)
(* tasks since it (sharedTasks); a shared task behind lastExclusive only.  *)
Preds(i) ==
    {j \in 1..(i - 1) :
        /\ Conflict(i, j)
        /\ \A k \in (j + 1)..(i - 1) : conc[k] = "shared"}

\* Mutant of LooksForSteering: an interrupted batch keeps looking.
LooksAlways == interruptMode # "wait"

\* The two early returns of checkSteering before it looks at the queue.
LooksForSteering == interruptMode # "wait" /\ ~triggered

\* Agent.#dequeueSteeringMessages: what it returns, and what it leaves.
Dequeued ==
    IF steeringMode = "one-at-a-time" /\ steeringQueue # << >>
    THEN <<Head(steeringQueue)>>
    ELSE steeringQueue
QueueAfterDequeue ==
    IF steeringMode = "one-at-a-time" /\ steeringQueue # << >>
    THEN Tail(steeringQueue)
    ELSE << >>

\* emitToolResult: a second result of the same call is dropped.
Emit(i, outcome) ==
    IF result[i] = "none"
    THEN /\ result' = [result EXCEPT ![i] = outcome]
         /\ emitted' = Append(emitted, i)
    ELSE UNCHANGED <<result, emitted>>
-----------------------------------------------------------------------------
(* The task of call i gets its turn: runTool up to the tool's first await, *)
(* or its early return in a batch that was interrupted.                    *)
StateOnTurn == IF triggered THEN "settled" ELSE "running"
Start(i) ==
    /\ ~returned
    /\ pc[i] = "waiting"
    /\ \A j \in Preds(i) : pc[j] = "settled"
    /\ pc' = [pc EXCEPT ![i] = StateOnTurn]
    /\ UNCHANGED <<settings, result, emitted, returned, checkVars, userVars>>

\* checkSteering, entered without an await right after the result went out:
\* it returns at once, joins a pending look, or starts one; starting one
\* runs getSteeringMessages, which empties the queue synchronously.
CheckSteering(i) ==
    \/ /\ ~LooksForSteering
       /\ pc' = [pc EXCEPT ![i] = "settled"]
       /\ UNCHANGED <<steeringCheck, awaiting, fetched, steeringQueue>>
    \/ /\ LooksForSteering
       /\ steeringCheck # None
       /\ pc' = [pc EXCEPT ![i] = "joined"]
       /\ awaiting' = [awaiting EXCEPT ![i] = steeringCheck]
       /\ UNCHANGED <<steeringCheck, fetched, steeringQueue>>
    \/ /\ LooksForSteering
       /\ steeringCheck = None
       /\ pc' = [pc EXCEPT ![i] = "checking"]
       /\ steeringCheck' = i
       /\ fetched' = [fetched EXCEPT ![i] = Dequeued]
       /\ steeringQueue' = QueueAfterDequeue
       /\ UNCHANGED awaiting

\* The result of a call that ran into an interruption is replaced.
Outcome == IF triggered THEN "skipped" ELSE "executed"

(* The tool of call i returned or threw: the rest of runTool.              *)
Finish(i) ==
    /\ pc[i] = "running"
    /\ Emit(i, Outcome)
    /\ CheckSteering(i)
    /\ UNCHANGED <<settings, returned, triggered, steeringMessages,
                   nextMessage, withdrawn, userAborted>>

(* The look of call i comes back: the continuation of steeringCheck.       *)
CheckDone(i) ==
    /\ pc[i] = "checking"
    /\ pc' = [pc EXCEPT ![i] = "settled"]
    /\ steeringCheck' = None
    /\ fetched' = [fetched EXCEPT ![i] = << >>]
    /\ IF fetched[i] # << >>
       THEN /\ steeringMessages' = fetched[i]
            /\ triggered' = TRUE
       ELSE UNCHANGED <<steeringMessages, triggered>>
    /\ UNCHANGED <<settings, result, emitted, returned, awaiting, userVars>>

(* A call that joined a look resumes once that look has come back.         *)
JoinDone(i) ==
    /\ pc[i] = "joined"
    /\ pc[awaiting[i]] # "checking"
    /\ pc' = [pc EXCEPT ![i] = "settled"]
    /\ awaiting' = [awaiting EXCEPT ![i] = None]
    /\ UNCHANGED <<settings, result, emitted, returned, triggered, steeringMessages,
                   steeringCheck, fetched, userVars>>

\* Mutant of Unanswered: calls that were skipped are answered again.
NotExecuted == {i \in Calls : result[i] # "executed"}

\* Calls that have no result message.
Unanswered == {i \in Calls : result[i] = "none"}

(* Promise.allSettled, the sweep over the records in their order, and the  *)
(* return.                                                                 *)
Return ==
    /\ ~returned
    /\ \A i \in Calls : pc[i] = "settled"
    /\ \E swept \in [1..Cardinality(Unanswered) -> Unanswered] :
        /\ \A p, q \in DOMAIN swept : p < q => swept[p] < swept[q]
        /\ emitted' = emitted \o swept
    /\ result' = [i \in Calls |-> IF i \in Unanswered THEN "skipped" ELSE result[i]]
    /\ returned' = TRUE
    /\ UNCHANGED <<settings, pc, checkVars, userVars>>

(* The user: Agent.steer, popLastSteer, clearSteeringQueue and abort may   *)
(* happen between any two steps of the batch.                              *)
Steer ==
    /\ ~returned
    /\ nextMessage <= MaxSteer
    /\ steeringQueue' = Append(steeringQueue, nextMessage)
    /\ nextMessage' = nextMessage + 1
    /\ UNCHANGED <<settings, taskVars, checkVars, withdrawn, userAborted>>

PopLastSteer ==
    /\ ~returned
    /\ steeringQueue # << >>
    /\ withdrawn' = withdrawn \cup {Last(steeringQueue)}
    /\ steeringQueue' = Front(steeringQueue)
    /\ UNCHANGED <<settings, taskVars, checkVars, nextMessage, userAborted>>

ClearSteeringQueue ==
    /\ ~returned
    /\ withdrawn' = withdrawn \cup ToSet(steeringQueue)
    /\ steeringQueue' = << >>
    /\ UNCHANGED <<settings, taskVars, checkVars, nextMessage, userAborted>>

Abort ==
    /\ ~returned
    /\ userAborted' = TRUE
    /\ UNCHANGED <<settings, taskVars, checkVars, steeringQueue, nextMessage, withdrawn>>

\* The batch is over; nothing is left to do.
Done == returned /\ UNCHANGED vars

Next ==
    \/ \E i \in Calls : Start(i) \/ Finish(i) \/ CheckDone(i) \/ JoinDone(i)
    \/ Return
    \/ Steer \/ PopLastSteer \/ ClearSteeringQueue \/ Abort
    \/ Done

Spec == Init /\ [][Next]_vars

\* The signal a tool sees: the run's own, or the steering controller's.
ToolSignalAborted == userAborted \/ triggered

\* The event loop runs every continuation that is ready.  A tool is only
\* assumed to settle once its signal is aborted (a nonAbortable tool runs to
\* completion instead, and so settles too); until then it may hang.
FairSpec ==
    /\ Spec
    /\ \A i \in Calls :
        /\ WF_vars(Start(i))
        /\ WF_vars(Finish(i) /\ ToolSignalAborted)
        /\ WF_vars(CheckDone(i))
        /\ WF_vars(JoinDone(i))
    /\ WF_vars(Return)
-----------------------------------------------------------------------------
(***************************************************************************)
(* Properties.                                                             *)
(***************************************************************************)
InFlight(i) == pc[i] \in {"running", "checking", "joined"}

\* An exclusive tool runs alone: while it is in flight, its look for
\* steering messages included, no other call of the batch is
\* (AgentTool.concurrency, types.ts).
ExclusiveRunsAlone ==
    \A i, j \in Calls :
        i # j /\ conc[i] = "exclusive" /\ InFlight(i) => ~InFlight(j)

\* The provider demands one tool result per tool call: results never repeat,
\* and when the batch returns every call has exactly one.
OneResultPerCall ==
    /\ IsInjective(emitted)
    /\ \A i \in Calls : i \in ToSet(emitted) <=> result[i] # "none"
    /\ returned => ToSet(emitted) = Calls

\* No steering message is lost, doubled or overtaken: those queued so far and
\* not withdrawn are, in order, what the batch hands to the loop, what a
\* pending look holds, and what is still queued.
Held == IF steeringCheck = None THEN << >> ELSE fetched[steeringCheck]
InSystem == steeringMessages \o Held \o steeringQueue
SteeringConserved ==
    /\ ToSet(InSystem) = (1..(nextMessage - 1)) \ withdrawn
    /\ \A p, q \in DOMAIN InSystem : p < q => InSystem[p] < InSystem[q]

\* Once the signal of the tools is aborted, by the user or by a steering
\* message, the batch comes to its end: the promise chain cannot deadlock.
AbortEndsBatch == ToolSignalAborted ~> returned
-----------------------------------------------------------------------------
(* The batch implements the abstract schedule.                             *)
Schedule == INSTANCE ToolSchedule WITH
    phase <- [i \in Calls |-> IF pc[i] = "waiting" THEN "pending"
                              ELSE IF pc[i] = "settled" THEN "finished" ELSE "active"],
    answer <- result,
    interrupted <- triggered
ScheduleSpec == Schedule!Spec
=============================================================================
