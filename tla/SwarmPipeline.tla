----------------------------- MODULE SwarmPipeline -----------------------------
(***************************************************************************)
(* A swarm at work: PipelineController (swarm-extension/src/swarm/         *)
(* pipeline.ts) takes the waves of SwarmDag, runs the agents of a wave     *)
(* side by side through executeSwarmAgent (executor.ts), and repeats the   *)
(* whole graph as often as the definition says.  StateTracker (state.ts)   *)
(* keeps the state of all of them and writes it to pipeline.json.          *)
(*                                                                         *)
(* Every write is a snapshot of the whole state, taken when the write is   *)
(* asked for.  Agents of a wave write without waiting for one another, so  *)
(* an older snapshot may replace a newer one.  A write may fail, or the    *)
(* log line that follows it: what that means depends on who asked for it.  *)
(***************************************************************************)
EXTENDS SwarmDag

CONSTANTS
    MaxIterations, \* bound: target_count of the definition
    MaxFaults,     \* bound: writes that fail
    MaxAborts      \* bound: 1 if the signal may be aborted, else 0

ASSUME PipelineAssumption ==
    /\ MaxIterations \in Nat \ {0} /\ MaxFaults \in Nat /\ MaxAborts \in 0..1

VARIABLES
    targetCount, \* iterations of the graph
    controller,  \* where run() stands
    iteration,   \* the iterations done
    wave,        \* the wave it is in, 0 before the first
    unmarked,    \* agents of the wave that are not "waiting" yet
    at,          \* where each agent stands in this iteration
    outcomes,    \* allResults: whether each run of an agent succeeded
    results,     \* those of this iteration
    tracker,     \* StateTracker.#state: the status of the pipeline and of each agent
    file,        \* pipeline.json
    writes,      \* snapshots being written, and for whom
    aborted,     \* the signal
    faults

runVars == <<targetCount, controller, iteration, wave, unmarked, at, outcomes, results, tracker, file, writes,
             aborted, faults>>
vars == <<dagVars, runVars>>

Controller == 0     \* not an agent
Statuses == {"pending", "waiting", "running", "completed", "failed"}
Trackers == [pipeline : {"running", "completed", "failed", "aborted"}, agents : [Agents -> Statuses]]

PipelineTypeOK ==
    /\ TypeOK
    /\ controller \in {"idle", "beginning", "marking", "running", "finishing", "aborting",
                       "failing", "returned", "threw"}
    /\ targetCount \in 1..MaxIterations
    /\ iteration \in 0..targetCount
    /\ wave \in 0..Len(waves)
    /\ unmarked \subseteq Agents
    /\ at \in [Agents -> {"idle", "starting", "working", "ending", "recording", "done"}]
    /\ outcomes \in [Agents -> Seq(BOOLEAN)] /\ results \in [Agents -> Seq(BOOLEAN)]
    /\ tracker \in Trackers /\ file \in Trackers
    /\ \A w \in writes : w.by \in Agents \cup {Controller} /\ w.state \in Trackers
    /\ aborted \in BOOLEAN
    /\ faults \in 0..MaxFaults

Init ==
    /\ \E mode \in Modes :
          /\ DagInit(mode)
          /\ targetCount \in IF mode = "pipeline" THEN 1..MaxIterations ELSE {1}
    /\ controller = "idle"
    /\ iteration = 0 /\ wave = 0 /\ unmarked = {}
    /\ at = [a \in Agents |-> "idle"]
    /\ outcomes = [a \in Agents |-> << >>] /\ results = [a \in Agents |-> << >>]
    /\ tracker = [pipeline |-> "running", agents |-> [a \in Agents |-> "pending"]]
    /\ file = tracker
    /\ writes = {}
    /\ aborted = FALSE /\ faults = 0
-----------------------------------------------------------------------------
(* The state file.                                                         *)

\* updateAgent, updatePipeline: the state at once, then a write of all of it.
Persist(by, state) ==
    /\ tracker' = state
    /\ writes' = writes \cup {[by |-> by, state |-> state]}

Writing(by) == \E w \in writes : w.by = by

Succeeds(w) ==
    /\ w \in writes
    /\ writes' = writes \ {w}
    /\ file' = w.state
    /\ UNCHANGED faults
-----------------------------------------------------------------------------
(* run().                                                                  *)
SetPipeline(status) == [tracker EXCEPT !.pipeline = status]
SetAgent(a, status) == [tracker EXCEPT !.agents[a] = status]

\* Mutant of Failed: only the last iteration is looked at.
FailedLast == \E a \in Agents : outcomes[a] # << >> /\ ~outcomes[a][Len(outcomes[a])]

Failed == \E a \in Agents : FALSE \in {outcomes[a][i] : i \in DOMAIN outcomes[a]}

AllIterations == iteration = targetCount

\* The head of the loop over the iterations: the signal, the next one, or the end.
Begin ==
    /\ phase = "layered"
    /\ controller = "idle"
    /\ IF AllIterations
       THEN /\ controller' = "finishing"
            /\ Persist(Controller, SetPipeline(IF Failed THEN "failed" ELSE "completed"))
       ELSE IF aborted
       THEN /\ controller' = "aborting"
            /\ Persist(Controller, SetPipeline("aborted"))
       ELSE /\ controller' = "beginning"
            /\ Persist(Controller, tracker)
    /\ at' = [a \in Agents |-> "idle"]
    /\ UNCHANGED <<dagVars, targetCount, iteration, wave, unmarked, outcomes, results, file, aborted, faults>>

Wave == IF wave = 0 THEN {} ELSE waves[wave]

\* Mutant of WaveDone: every agent is waited for, those of later waves too.
EveryoneDone == wave = 0 \/ \A a \in Agents : at[a] = "done"

\* Promise.all over the agents of the wave.
WaveDone == \A a \in Wave : at[a] = "done"

\* #runIteration goes on to the next wave, or is over.  Its results count once
\* all of its waves are through.
Advance ==
    /\ controller = "running" /\ ~Writing(Controller)
    /\ WaveDone
    /\ IF wave < Len(waves) /\ ~aborted
       THEN /\ wave' = wave + 1
            /\ controller' = "marking"
            /\ unmarked' = waves[wave + 1]
            /\ UNCHANGED <<iteration, outcomes, results>>
       ELSE /\ wave' = 0
            /\ controller' = "idle"
            /\ iteration' = iteration + 1
            /\ outcomes' = [a \in Agents |-> outcomes[a] \o results[a]]
            /\ results' = [a \in Agents |-> << >>]
            /\ UNCHANGED unmarked
    /\ UNCHANGED <<dagVars, targetCount, at, tracker, file, writes, aborted, faults>>

\* The agents of a wave are marked as waiting, one write after the other.
Mark(a) ==
    /\ controller = "marking" /\ ~Writing(Controller)
    /\ a \in unmarked
    /\ unmarked' = unmarked \ {a}
    /\ Persist(Controller, SetAgent(a, "waiting"))
    /\ UNCHANGED <<dagVars, targetCount, controller, iteration, wave, at, outcomes, results, file, aborted, faults>>

\* All agents of the wave are started at once.
Launch ==
    /\ controller = "marking" /\ unmarked = {} /\ ~Writing(Controller)
    /\ controller' = "running"
    /\ at' = [a \in Agents |-> IF a \in Wave THEN "starting" ELSE at[a]]
    /\ UNCHANGED <<dagVars, targetCount, iteration, wave, unmarked, outcomes, results, tracker, file, writes,
                   aborted, faults>>

\* The last write of run(), or the one before the first wave, has come back.
ControllerResumes(w) ==
    /\ w.by = Controller
    /\ Succeeds(w)
    /\ controller' = CASE controller = "beginning" -> "running"
                       [] controller \in {"finishing", "aborting", "failing"} -> "returned"
                       [] OTHER -> controller
    /\ UNCHANGED <<dagVars, targetCount, iteration, wave, unmarked, at, outcomes, results, tracker, aborted>>

\* A write that fails, or the log line after it does: the snapshot may be there
\* or not.
FailsToWrite(w) ==
    /\ w \in writes
    /\ faults < MaxFaults /\ faults' = faults + 1
    /\ file' \in {file, w.state}

\* The catch of run(): one more write, and what the waves of this iteration have
\* come to is dropped.
ControllerFails(w) ==
    /\ w.by = Controller
    /\ FailsToWrite(w)
    /\ IF controller = "failing"
       THEN /\ controller' = "threw"
            /\ writes' = writes \ {w}
            /\ UNCHANGED tracker
       ELSE /\ controller' = "failing"
            /\ tracker' = SetPipeline("failed")
            /\ writes' = (writes \ {w}) \cup {[by |-> Controller, state |-> tracker']}
    /\ UNCHANGED <<dagVars, targetCount, iteration, wave, unmarked, at, outcomes, results, aborted>>
-----------------------------------------------------------------------------
(* executeSwarmAgent.                                                      *)

\* The agent is running, says the state, and a write of that is waited for.
StartAgent(a) ==
    /\ at[a] = "starting" /\ ~Writing(a) /\ tracker.agents[a] = "waiting"
    /\ Persist(a, SetAgent(a, "running"))
    /\ UNCHANGED <<dagVars, targetCount, controller, iteration, wave, unmarked, at, outcomes, results, file,
                   aborted, faults>>

\* Mutant of EndAgent: the write is not waited for.
EndAgentUnawaited(a) ==
    /\ at[a] = "working"
    /\ \E ok \in BOOLEAN :
          /\ Persist(a, SetAgent(a, IF ok THEN "completed" ELSE "failed"))
          /\ results' = [results EXCEPT ![a] = <<ok>>]
          /\ at' = [at EXCEPT ![a] = "done"]
    /\ UNCHANGED <<dagVars, targetCount, controller, iteration, wave, unmarked, outcomes, file, aborted, faults>>

\* The agent's process exits, with or without success, or could not be run.
EndAgent(a) ==
    /\ at[a] = "working"
    /\ \E ok, exited \in BOOLEAN :
          /\ ok => exited
          /\ Persist(a, SetAgent(a, IF ok THEN "completed" ELSE "failed"))
          /\ results' = [results EXCEPT ![a] = <<ok>>]
          /\ at' = [at EXCEPT ![a] = IF exited THEN "ending" ELSE "recording"]
    /\ UNCHANGED <<dagVars, targetCount, controller, iteration, wave, unmarked, outcomes, file, aborted, faults>>

AgentResumes(w) ==
    /\ w.by \in Agents
    /\ Succeeds(w)
    /\ at' = [at EXCEPT ![w.by] = IF @ = "starting" THEN "working" ELSE "done"]
    /\ UNCHANGED <<dagVars, targetCount, controller, iteration, wave, unmarked, outcomes, results, tracker,
                   aborted>>

\* A failing write makes the run of the agent a failed one, whatever the agent
\* has done.  Before the agent was run nothing is recorded; after it another
\* write is tried.
AgentFails(w) ==
    /\ w.by \in Agents
    /\ FailsToWrite(w)
    /\ results' = [results EXCEPT ![w.by] = <<FALSE>>]
    /\ IF at[w.by] = "ending"
       THEN /\ at' = [at EXCEPT ![w.by] = "recording"]
            /\ tracker' = SetAgent(w.by, "failed")
            /\ writes' = (writes \ {w}) \cup {[by |-> w.by, state |-> tracker']}
       ELSE /\ at' = [at EXCEPT ![w.by] = "done"]
            /\ writes' = writes \ {w}
            /\ UNCHANGED tracker
    /\ UNCHANGED <<dagVars, targetCount, controller, iteration, wave, unmarked, outcomes, aborted>>

Abort ==
    /\ MaxAborts > 0 /\ ~aborted
    /\ controller \notin {"returned", "threw"}
    /\ aborted' = TRUE
    /\ UNCHANGED <<dagVars, targetCount, controller, iteration, wave, unmarked, at, outcomes, results, tracker,
                   file, writes, faults>>
-----------------------------------------------------------------------------
ControllerStep ==
    \/ Begin \/ Advance \/ Launch
    \/ \E a \in Agents : Mark(a)
    \/ \E w \in writes : ControllerResumes(w) \/ ControllerFails(w)

AgentStep(a) ==
    \/ StartAgent(a) \/ EndAgent(a)
    \/ \E w \in writes : w.by = a /\ (AgentResumes(w) \/ AgentFails(w))

Next ==
    \/ DagNext /\ UNCHANGED runVars
    \/ ControllerStep
    \/ \E a \in Agents : AgentStep(a)
    \/ Abort

Spec == Init /\ [][Next]_vars

\* Agents come to an end, writes come back.
FairSpec ==
    /\ Spec
    /\ WF_vars(DagNext /\ UNCHANGED runVars)
    /\ WF_vars(ControllerStep)
    /\ \A a \in Agents : WF_vars(AgentStep(a))
-----------------------------------------------------------------------------
(***************************************************************************)
(* Properties.                                                             *)
(***************************************************************************)
Busy(a) == at[a] \notin {"idle", "done"}

\* An agent works only when everyone it waits for is through with the same
\* iteration, whatever became of them.
AfterDependencies ==
    \A a \in Agents : Busy(a) => \A d \in deps[a] : at[d] = "done"

\* Nobody is at work, and no write of his is under way, outside the wave that
\* is on, and nobody at all when run() has returned.
WavesDoNotOverlap ==
    /\ \A a \in Agents : Busy(a) => controller = "running" /\ a \in Wave
    /\ controller \in {"idle", "returned", "threw"} => writes = {}

\* "completed" means that every agent ran in every iteration and succeeded, and
\* "failed" that there is someone to blame, unless the signal came.
StatusIsEarned ==
    controller = "returned" /\ ~aborted =>
        /\ tracker.pipeline = "completed" =>
              \A a \in Agents : outcomes[a] = [i \in 1..targetCount |-> TRUE]
        /\ tracker.pipeline = "failed" /\ faults = 0 =>
              \E a \in Agents : \E i \in 1..targetCount : ~outcomes[a][i]

\* What run() leaves on disk is the state it ended in, although agents of a
\* wave overwrite each other's snapshots on the way.
FileIsFinal == controller = "returned" => file = tracker

\* run() comes back, however the agents fare.
PipelineReturns == phase = "layered" ~> controller \in {"returned", "threw"}
=============================================================================
