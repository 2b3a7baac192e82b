------------------------------ MODULE YieldQueue ------------------------------
(***************************************************************************)
(* Results of background jobs and notifications of MCP servers on their    *)
(* way to the model: the queue of session/yield-queue.ts as AgentSession   *)
(* (session/agent-session.ts) drives it.                                   *)
(*                                                                         *)
(* An entry that comes while the session streams waits for the end of the  *)
(* run, where onBeforeYield turns the queue into follow-up messages.  An   *)
(* entry that comes while it is idle is flushed by a task a millisecond    *)
(* later, which prompts the agent itself.  "Streams" is more than "a run   *)
(* is going on": a prompt counts from its setup to the end of what follows *)
(* its run, and an abort sets that count to zero while prompts it has      *)
(* overtaken are still unwinding.                                          *)
(*                                                                         *)
(* The run is AgentLoop's, reduced to where it looks at this queue; the    *)
(* user's own steering and follow-up messages are left to that module.     *)
(***************************************************************************)
EXTENDS Integers, Sequences, SequencesExt, FiniteSets

CONSTANTS
    MaxEntries,    \* bound: entries ever queued
    MaxPrompts,    \* bound: prompts of the user
    MaxAborts,     \* bound: aborts
    MaxStops,      \* bound: runs that end early, with no abort, on an error
    MaxContinues   \* bound: runs started by what follows a run

ASSUME BoundsAssumption ==
    /\ MaxEntries \in Nat /\ MaxPrompts \in Nat /\ MaxAborts \in Nat
    /\ MaxStops \in Nat /\ MaxContinues \in Nat

Entries == 1..MaxEntries
Kinds == <<"async-result", "mcp-notification">>   \* in the order of registration
Prompts == 1..MaxPrompts

VARIABLES
    \* YieldQueue
    entries,          \* #entries: for each kind, in the order they came
    idleFlushPending, \* #idleFlushPending
    \* AgentSession
    idleTask,         \* the idle flush: in its delay, or waiting for its run
    maintenance,      \* another post-prompt task is tracked
    prompts,          \* where each prompt stands, and its generation
    generation,       \* #promptGeneration
    inFlight,         \* #promptInFlightCount
    abort,            \* what abort() waits for
    \* Agent
    run,              \* where the run stands, and whose it is
    followUps,        \* follow-up messages, each the entries it reports
    \* the world
    suppressed,       \* entries whose result was fetched while they were queued
    told,             \* entries in messages the agent has taken
    \* bounds and history
    arrived, stops, continues,
    stuck,            \* an abort has cancelled an idle flush in its delay
    missed            \* entries that the code leaves to a run that may not come

queue == <<entries, idleFlushPending>>
agent == <<run, followUps, told>>
session == <<idleTask, maintenance, prompts, generation, inFlight, abort>>
counters == <<arrived, stops, continues>>
vars == <<queue, agent, session, counters, suppressed, stuck, missed>>

NoRun == [at |-> "none", by |-> "nobody"]

TypeOK ==
    /\ entries \in [ToSet(Kinds) -> Seq(Entries)]
    /\ idleFlushPending \in BOOLEAN
    /\ idleTask \in {"none", "waiting", "prompting"}
    /\ maintenance \in BOOLEAN
    /\ prompts \in [Prompts -> [at : {"none", "setup", "asking", "running", "recovery", "over"},
                                generation : 0..MaxAborts]]
    /\ generation \in 0..MaxAborts
    /\ inFlight \in 0..MaxPrompts
    /\ abort \in {"none", "waiting", "resetting"}
    /\ run \in [at : {"none", "streaming", "yielding"},
                by : {"nobody", "prompt", "idle", "continue"}]
    /\ followUps \in Seq(SUBSET Entries)
    /\ suppressed \subseteq Entries /\ told \subseteq Entries /\ missed \subseteq Entries
    /\ arrived \in 0..MaxEntries
    /\ stops \in 0..MaxStops /\ continues \in 0..MaxContinues
    /\ stuck \in BOOLEAN
-----------------------------------------------------------------------------
Init ==
    /\ entries = [k \in ToSet(Kinds) |-> << >>]
    /\ idleFlushPending = FALSE
    /\ idleTask = "none" /\ maintenance = FALSE
    /\ prompts = [p \in Prompts |-> [at |-> "none", generation |-> 0]]
    /\ generation = 0 /\ inFlight = 0 /\ abort = "none"
    /\ run = NoRun /\ followUps = << >>
    /\ suppressed = {} /\ told = {}
    /\ arrived = 0 /\ stops = 0 /\ continues = 0
    /\ stuck = FALSE /\ missed = {}

IsStreaming == run.at # "none" \/ inFlight > 0

Queued == UNION {ToSet(entries[k]) : k \in ToSet(Kinds)}
Injected == UNION ToSet(followUps)
-----------------------------------------------------------------------------
(* The queue.                                                              *)

\* A task is scheduled unless one is thought to be.
ScheduleIdleFlush ==
    IF idleFlushPending
    THEN UNCHANGED <<idleFlushPending, idleTask>>
    ELSE idleFlushPending' = TRUE /\ idleTask' = "waiting"

\* enqueue.  The history notes what nothing will look at by itself: what comes
\* in the last moments of a run or in what follows it, and what comes after the
\* flag has been left set by a cancelled task.
Enqueue(k) ==
    LET e == arrived + 1 IN
    /\ e \in Entries
    /\ arrived' = e
    /\ entries' = [entries EXCEPT ![k] = Append(@, e)]
    /\ IF IsStreaming THEN UNCHANGED <<idleFlushPending, idleTask>> ELSE ScheduleIdleFlush
    /\ missed' = IF \/ ~IsStreaming /\ stuck
                    \/ /\ IsStreaming /\ run.at # "streaming"
                       /\ ~\E p \in Prompts : /\ prompts[p].at \in {"setup", "asking"}
                                              /\ prompts[p].generation = generation
                 THEN missed \cup {e} ELSE missed
    /\ UNCHANGED <<agent, maintenance, prompts, generation, inFlight, abort, stops, continues,
                   suppressed, stuck>>

\* The job tool shows the model the result of a job whose entry is queued.
Acknowledge(e) ==
    /\ e \in ToSet(entries["async-result"]) \ suppressed
    /\ suppressed' = suppressed \cup {e}
    /\ UNCHANGED <<queue, agent, session, counters, stuck, missed>>

\* What is left of a kind when its dispatcher has dropped stale entries.
Survivors(k) == ToSet(entries[k]) \ suppressed

\* One message for every kind that has something to say.
Batch(k) == IF Survivors(k) = {} THEN << >> ELSE <<Survivors(k)>>
Batches == Batch(Kinds[1]) \o Batch(Kinds[2])

Drained == [k \in ToSet(Kinds) |-> << >>]
-----------------------------------------------------------------------------
(* Runs.                                                                   *)

\* Whoever has prompted the agent goes on when the run is over; the handlers
\* of its end may track another task, unless it was aborted.
EndRun ==
    /\ run' = NoRun
    /\ idleTask' = IF run.by = "idle" THEN "none" ELSE idleTask
    /\ prompts' = [p \in Prompts |-> IF prompts[p].at = "running"
                                     THEN [prompts[p] EXCEPT !.at = "recovery"] ELSE prompts[p]]
    /\ LET goesOn == maintenance /\ run.by # "continue"
       IN  maintenance' \in IF abort = "none" THEN {goesOn, TRUE} ELSE {goesOn}
    /\ abort' = IF abort = "waiting" THEN "resetting" ELSE abort

\* Mutant of RunYields: nothing is flushed.
RunYieldsUnflushed ==
    /\ run.at = "streaming"
    /\ run' = [run EXCEPT !.at = "yielding"]
    /\ UNCHANGED <<queue, followUps, told, session, counters, suppressed, stuck, missed>>

\* The model has nothing left to do: onBeforeYield flushes the queue.
RunYields ==
    /\ run.at = "streaming"
    /\ run' = [run EXCEPT !.at = "yielding"]
    /\ entries' = Drained
    /\ followUps' = followUps \o Batches
    /\ UNCHANGED <<idleFlushPending, told, session, counters, suppressed, stuck, missed>>

\* One follow-up message, if there is one, and the run goes on with it.
RunPolls ==
    /\ run.at = "yielding"
    /\ IF followUps # << >>
       THEN /\ told' = told \cup Head(followUps)
            /\ followUps' = Tail(followUps)
            /\ run' = [run EXCEPT !.at = "streaming"]
            /\ UNCHANGED session
       ELSE /\ EndRun
            /\ UNCHANGED <<told, followUps, generation, inFlight>>
    /\ UNCHANGED <<queue, counters, suppressed, stuck, missed>>

\* An answer that was aborted or that failed ends the run on the spot.
RunStops ==
    /\ run.at = "streaming"
    /\ IF abort # "none" THEN UNCHANGED stops ELSE stops < MaxStops /\ stops' = stops + 1
    /\ EndRun
    /\ missed' = missed \cup Queued \cup Injected
    /\ UNCHANGED <<queue, followUps, told, generation, inFlight, arrived, continues,
                   suppressed, stuck>>
-----------------------------------------------------------------------------
(* Post-prompt tasks.                                                      *)

\* Mutant of IdleFlush: the task does not ask whether the session streams by now,
\* and the agent refuses its message.
IdleFlushUnasked ==
    /\ idleTask = "waiting"
    /\ idleFlushPending' = FALSE
    /\ stuck' = FALSE
    /\ entries' = Drained
    /\ IF Batches # << >> /\ run.at = "none"
       THEN /\ run' = [at |-> "streaming", by |-> "idle"]
            /\ told' = told \cup UNION ToSet(Batches)
            /\ idleTask' = "prompting"
       ELSE idleTask' = "none" /\ UNCHANGED <<run, told>>
    /\ UNCHANGED <<followUps, maintenance, prompts, generation, inFlight, abort, counters,
                   suppressed, missed>>

\* The task of scheduleIdleFlush after its delay.
IdleFlush ==
    /\ idleTask = "waiting"
    /\ idleFlushPending' = FALSE
    /\ stuck' = FALSE
    /\ IF IsStreaming
       THEN idleTask' = "none" /\ UNCHANGED <<entries, run, told>>
       ELSE /\ entries' = Drained
            /\ IF Batches # << >>
               THEN /\ run' = [at |-> "streaming", by |-> "idle"]
                    /\ told' = told \cup UNION ToSet(Batches)
                    /\ idleTask' = "prompting"
               ELSE idleTask' = "none" /\ UNCHANGED <<run, told>>
    /\ UNCHANGED <<followUps, maintenance, prompts, generation, inFlight, abort, counters,
                   suppressed, missed>>

\* Compaction, todo reminders and the rest are done, or have the agent go on.
Maintain ==
    /\ maintenance /\ run.by # "continue"
    /\ \/ maintenance' = FALSE /\ UNCHANGED <<run, continues>>
       \/ /\ run.at = "none" /\ continues < MaxContinues
          /\ continues' = continues + 1
          /\ run' = [at |-> "streaming", by |-> "continue"]
          /\ UNCHANGED maintenance
    /\ UNCHANGED <<queue, followUps, told, idleTask, prompts, generation, inFlight, abort,
                   arrived, stops, suppressed, stuck, missed>>

-----------------------------------------------------------------------------
(* Prompts and aborts.                                                     *)

\* Math.max(0, n - 1).
Decrement(n) == IF n > 0 THEN n - 1 ELSE 0

\* #promptWithMessage begins: a prompt that comes while the session streams is
\* steered or refused, and is none of this module's.
PromptBegins(p) ==
    /\ ~IsStreaming
    /\ prompts[p].at = "none"
    /\ prompts' = [prompts EXCEPT ![p] = [at |-> "setup", generation |-> generation]]
    /\ inFlight' = inFlight + 1
    /\ UNCHANGED <<queue, agent, idleTask, maintenance, generation, abort, counters,
                   suppressed, stuck, missed>>

\* Mutant of PromptEnds: only a prompt that has got to its run counts down.
PromptEndsAfterRun(p) ==
    /\ prompts' = [prompts EXCEPT ![p].at = "over"]
    /\ inFlight' = IF prompts[p].at = "setup" THEN inFlight ELSE Decrement(inFlight)

\* The finally of #promptWithMessage.
PromptEnds(p) ==
    /\ prompts' = [prompts EXCEPT ![p].at = "over"]
    /\ inFlight' = Decrement(inFlight)

\* The setup is over.  A prompt an abort has overtaken gives up, and so does one
\* without a model, a key or room for its messages.
PromptSetUp(p) ==
    /\ prompts[p].at = "setup"
    /\ \/ /\ prompts[p].generation = generation
          /\ prompts' = [prompts EXCEPT ![p].at = "asking"]
          /\ UNCHANGED <<inFlight, missed>>
       \/ /\ PromptEnds(p)
          /\ missed' = missed \cup Queued
    /\ UNCHANGED <<queue, agent, idleTask, maintenance, generation, abort, counters,
                   suppressed, stuck>>

\* #promptAgentWithIdleRetry: a busy agent is waited for, for half a minute.
PromptAsks(p) ==
    /\ prompts[p].at = "asking"
    /\ \/ /\ run.at = "none"
          /\ run' = [at |-> "streaming", by |-> "prompt"]
          /\ prompts' = [prompts EXCEPT ![p].at = "running"]
          /\ UNCHANGED <<inFlight, missed>>
       \/ /\ run.at # "none"
          /\ PromptEnds(p)
          /\ missed' = missed \cup Queued
          /\ UNCHANGED run
    /\ UNCHANGED <<queue, followUps, told, idleTask, maintenance, generation, abort, counters,
                   suppressed, stuck>>

\* #waitForPostPromptRecovery has found nothing left to wait for.
PromptRecovers(p) ==
    /\ prompts[p].at = "recovery"
    /\ idleTask = "none" /\ ~maintenance /\ run.at = "none"
    /\ PromptEnds(p)
    /\ UNCHANGED <<queue, agent, idleTask, maintenance, generation, abort, counters,
                   suppressed, stuck, missed>>

\* abort() up to its first await: a new generation, and no post-prompt task that
\* has not begun its run is left.
AbortBegins ==
    /\ abort = "none" /\ generation < MaxAborts
    /\ generation' = generation + 1
    /\ idleTask' = IF idleTask = "waiting" THEN "none" ELSE idleTask
    /\ stuck' = (stuck \/ idleTask = "waiting")
    /\ maintenance' = (maintenance /\ run.by = "continue")
    /\ abort' = IF run.at = "none" THEN "resetting" ELSE "waiting"
    /\ missed' = missed \cup Queued \cup Injected
    /\ UNCHANGED <<queue, agent, prompts, inFlight, counters, suppressed>>

\* The agent is idle: the session is made to look so too.
AbortEnds ==
    /\ abort = "resetting"
    /\ abort' = "none"
    /\ inFlight' = 0
    /\ UNCHANGED <<queue, agent, idleTask, maintenance, prompts, generation, counters,
                   suppressed, stuck, missed>>
-----------------------------------------------------------------------------
RunStep == RunYields \/ RunPolls \/ RunStops

PromptStep(p) == PromptSetUp(p) \/ PromptAsks(p) \/ PromptRecovers(p)

Next ==
    \/ \E k \in ToSet(Kinds) : Enqueue(k)
    \/ \E e \in Entries : Acknowledge(e)
    \/ RunStep
    \/ IdleFlush \/ Maintain
    \/ \E p \in Prompts : PromptBegins(p) \/ PromptStep(p)
    \/ AbortBegins \/ AbortEnds

Spec == Init /\ [][Next]_vars

\* Timers fire, the provider answers or fails, and tasks and setups end.
FairSpec ==
    /\ Spec
    /\ WF_vars(RunStep) /\ WF_vars(IdleFlush) /\ WF_vars(Maintain) /\ WF_vars(AbortEnds)
    /\ \A p \in Prompts : WF_vars(PromptStep(p))
-----------------------------------------------------------------------------
(***************************************************************************)
(* Properties.                                                             *)
(***************************************************************************)
\* An idle flush takes the entries out of the queue before it prompts the agent,
\* and a busy agent would refuse: no entry is lost that way, and none is told
\* and still queued.
EntriesAccounted ==
    /\ 1..arrived = Queued \cup Injected \cup told \cup suppressed
    /\ told \cap (Queued \cup Injected) = {}
    /\ Queued \cap Injected = {}

\* A session whose prompts are all over is not held busy by a count that was
\* never taken back, in whatever order aborts and unwinding prompts come.
NoBusyForEver ==
    inFlight <= Cardinality({p \in Prompts : prompts[p].at \notin {"none", "over"}})

\* Every entry reaches the model without help from the user, except those that
\* come when the last look at the queue has been taken, or that an abort, a
\* failed run or a failed setup finds in the queue.
UnmissedGetTold ==
    \A e \in Entries :
        e <= arrived ~> e \in told \cup suppressed \cup missed
=============================================================================
