------------------------------- MODULE SwarmDag -------------------------------
(***************************************************************************)
(* The order in which the agents of a swarm run                            *)
(* (packages/swarm-extension/src/swarm/dag.ts): the dependency graph of a  *)
(* definition, the search for cycles (Kahn's algorithm on counted          *)
(* in-degrees), and the division of the agents into waves.                 *)
(*                                                                         *)
(* The two algorithms are written apart and only meet in their callers,    *)
(* which refuse a definition with a cycle: buildExecutionWaves gives up    *)
(* with "Deadlock: ... This indicates a bug in cycle detection" where the  *)
(* two disagree.  Which of several ready agents the queue holds first is   *)
(* the order of a Map, and is left open.                                   *)
(***************************************************************************)
EXTENDS Integers, Sequences, FiniteSets

CONSTANTS
    AgentCount,    \* the agents of the definition are numbered as it declares them
    MaxLinks       \* bound: names in all waits_for and reports_to lists together

ASSUME AgentsAssumption == AgentCount \in Nat /\ MaxLinks \in Nat

Agents == 1..AgentCount

VARIABLES
    deps,       \* the dependency graph: whom each agent waits for
    phase,      \* "detecting", "rejected", "layering", "layered", or "stuck"
    inDegree,   \* detectCycles: dependencies of each agent that are not sorted yet
    queue,      \* detectCycles: agents whose count has come to zero
    sorted,     \* detectCycles: agents taken out of the queue
    waves,      \* buildExecutionWaves: the waves so far
    completed   \* buildExecutionWaves: the agents in them

detection == <<inDegree, queue, sorted>>
layering == <<waves, completed>>
dagVars == <<deps, phase, detection, layering>>

TypeOK ==
    /\ deps \in [Agents -> SUBSET Agents]
    /\ phase \in {"detecting", "rejected", "layering", "layered", "stuck"}
    /\ inDegree \in [Agents -> Nat]
    /\ queue \in SUBSET Agents
    /\ sorted \in SUBSET Agents
    /\ waves \in Seq(SUBSET Agents)
    /\ completed \in SUBSET Agents
-----------------------------------------------------------------------------
(* The graph.                                                              *)
Modes == {"pipeline", "sequential", "parallel"}

\* What validateSwarmDefinition lets through: no agent names itself.
Links == {l \in [Agents -> SUBSET Agents] : \A a \in Agents : a \notin l[a]}

SizeOf(links) == Cardinality({l \in Agents \X Agents : l[2] \in links[l[1]]})

\* buildDependencyGraph: who reports to an agent is waited for by it; a
\* definition that orders nothing is a chain, unless its mode is "parallel".
DependencyGraph(mode, waitsFor, reportsTo) ==
    LET explicit == [a \in Agents |-> waitsFor[a] \cup {b \in Agents : a \in reportsTo[b]}]
    IN  IF mode # "parallel" /\ \A a \in Agents : explicit[a] = {}
        THEN [a \in Agents |-> {a - 1} \cap Agents]
        ELSE explicit

\* Every agent's count, and the queue of those that wait for nobody.
DagInit(mode) ==
    /\ \E waitsFor, reportsTo \in Links :
          /\ SizeOf(waitsFor) + SizeOf(reportsTo) <= MaxLinks
          /\ deps = DependencyGraph(mode, waitsFor, reportsTo)
    /\ phase = "detecting"
    /\ inDegree = [a \in Agents |-> Cardinality(deps[a])]
    /\ queue = {a \in Agents : deps[a] = {}}
    /\ sorted = {}
    /\ waves = << >>
    /\ completed = {}
-----------------------------------------------------------------------------
(* detectCycles.                                                           *)

\* Mutant of Counted: the dependent is queued when its first dependency is done.
CountedOnce(a) == {d \in Agents : a \in deps[d] /\ d \notin queue /\ d \notin sorted}

\* The dependents of an agent whose count comes to zero with it.
Counted(a) == {d \in Agents : a \in deps[d] /\ inDegree[d] = 1}

Take(a) ==
    /\ phase = "detecting"
    /\ a \in queue
    /\ sorted' = sorted \cup {a}
    /\ inDegree' = [d \in Agents |-> IF a \in deps[d] THEN inDegree[d] - 1 ELSE inDegree[d]]
    /\ queue' = (queue \ {a}) \cup Counted(a)
    /\ UNCHANGED <<deps, phase, layering>>

\* Whoever is not sorted when the queue is empty is reported, and the callers
\* refuse the definition.
Detected ==
    /\ phase = "detecting"
    /\ queue = {}
    /\ phase' = IF sorted = Agents THEN "layering" ELSE "rejected"
    /\ UNCHANGED <<deps, detection, layering>>
-----------------------------------------------------------------------------
(* buildExecutionWaves.                                                    *)
Remaining == Agents \ completed

\* Mutant of Ready: one dependency that has run is enough.
ReadyOnAny == {a \in Remaining : deps[a] = {} \/ deps[a] \cap completed # {}}

Ready == {a \in Remaining : deps[a] \subseteq completed}

NextWave ==
    /\ phase = "layering" /\ Remaining # {}
    /\ IF Ready = {}
       THEN phase' = "stuck" /\ UNCHANGED layering
       ELSE /\ waves' = Append(waves, Ready)
            /\ completed' = completed \cup Ready
            /\ UNCHANGED phase
    /\ UNCHANGED <<deps, detection>>

Layered ==
    /\ phase = "layering" /\ Remaining = {}
    /\ phase' = "layered"
    /\ UNCHANGED <<deps, detection, layering>>
-----------------------------------------------------------------------------
DagNext == (\E a \in Agents : Take(a)) \/ Detected \/ NextWave \/ Layered

DagSpec == (\E mode \in Modes : DagInit(mode)) /\ [][DagNext]_dagVars
-----------------------------------------------------------------------------
(***************************************************************************)
(* Properties.                                                             *)
(***************************************************************************)
\* The reference: some agents wait for one another, none of them for nobody.
HasCycle ==
    \E knot \in SUBSET Agents : knot # {} /\ \A a \in knot : deps[a] \cap knot # {}

\* detectCycles refuses exactly the definitions with a cycle, however the queue
\* is ordered.
RejectsCycles ==
    /\ phase = "rejected" => HasCycle
    /\ phase \in {"layering", "layered", "stuck"} => ~HasCycle

\* What detectCycles lets through never makes buildExecutionWaves throw
\* "Deadlock: agents cannot make progress".
NeverStuck == phase # "stuck"

\* "Each wave contains agents whose dependencies are all in earlier waves", each
\* agent is in one wave, and none is put off: the wave before has someone it
\* waits for.
WavesAreLevels ==
    \A i \in DOMAIN waves : \A a \in waves[i] :
        /\ \A d \in deps[a] : \E j \in 1..(i - 1) : d \in waves[j]
        /\ \A j \in DOMAIN waves : a \in waves[j] => j = i
        /\ i > 1 => deps[a] \cap waves[i - 1] # {}
=============================================================================
