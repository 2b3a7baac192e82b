------------------------- MODULE SwarmPipeline_proofs -------------------------
(***************************************************************************)
(* Proofs about SwarmDag and SwarmPipeline for every number of agents,     *)
(* every dependency graph and every number of iterations.                  *)
(***************************************************************************)
EXTENDS SwarmPipeline, FiniteSetTheorems, SequenceTheorems, TLAPS

USE DEF Agents
-----------------------------------------------------------------------------
(***************************************************************************)
(* The graph.  The two algorithms of dag.ts meet in one fact, GroundedInv: *)
(* among any agents that detectCycles has sorted, one waits for none of    *)
(* the others.  So what it sorted entirely has no cycle, and the agents    *)
(* buildExecutionWaves has left always have a ready one among them.        *)
(***************************************************************************)
\* The counts: how many of an agent's dependencies are not sorted.
CountInv == \A a \in Agents : inDegree[a] = Cardinality(deps[a] \ sorted)

\* The queue holds exactly those whose dependencies are all sorted.
QueueInv == queue = {a \in Agents \ sorted : deps[a] \subseteq sorted}

ClosedInv == \A a \in sorted : deps[a] \subseteq sorted

GroundedInv == \A S \in SUBSET sorted : S # {} => \E a \in S : deps[a] \cap S = {}

\* What the verdict of detectCycles says.
VerdictInv ==
    /\ phase \in {"layering", "layered", "stuck"} => sorted = Agents
    /\ phase = "rejected" => queue = {} /\ sorted # Agents
    /\ phase # "stuck"

DetectionInv == CountInv /\ QueueInv /\ ClosedInv /\ GroundedInv /\ VerdictInv
-----------------------------------------------------------------------------
\* The dependencies of an agent are finitely many.
LEMMA DepsFinite ==
    ASSUME TypeOK, NEW a \in Agents, NEW S \in SUBSET deps[a]
    PROVE  IsFiniteSet(S) /\ Cardinality(S) \in Nat
<1>1. IsFiniteSet(Agents)
  BY FS_Interval, AgentsAssumption
<1>2. S \subseteq Agents
  BY DEF TypeOK
<1>3. QED BY <1>1, <1>2, FS_Subset, FS_CardinalityType

LEMMA TypeInit == (\E mode \in Modes : DagInit(mode)) => TypeOK
<1> SUFFICES ASSUME NEW mode \in Modes, DagInit(mode) PROVE TypeOK
  OBVIOUS
<1>1. deps \in [Agents -> SUBSET Agents]
  <2>1. PICK waitsFor, reportsTo \in Links : deps = DependencyGraph(mode, waitsFor, reportsTo)
    BY DEF DagInit
  <2>2. waitsFor \in [Agents -> SUBSET Agents]
    BY <2>1 DEF Links
  <2>3. QED BY <2>1, <2>2 DEF DependencyGraph
<1>2. ASSUME NEW a \in Agents PROVE Cardinality(deps[a]) \in Nat
  <2>1. deps[a] \subseteq Agents
    BY <1>1
  <2>2. IsFiniteSet(Agents)
    BY FS_Interval, AgentsAssumption
  <2>3. QED BY <2>1, <2>2, FS_Subset, FS_CardinalityType
<1>3. inDegree \in [Agents -> Nat]
  BY <1>2 DEF DagInit
<1>4. waves \in Seq(SUBSET Agents)
  BY DEF DagInit
<1>5. QED BY <1>1, <1>3, <1>4 DEF DagInit, TypeOK

\* A step of detectCycles lowers the counts of the dependents of the agent it
\* takes by one, and no count below zero.
LEMMA CountStep ==
    ASSUME TypeOK, DetectionInv, NEW a \in Agents, Take(a), NEW d \in Agents
    PROVE  /\ inDegree'[d] = Cardinality(deps[d] \ sorted')
           /\ inDegree'[d] \in Nat
<1>1. a \notin sorted /\ sorted' = sorted \cup {a}
  BY DEF Take, DetectionInv, QueueInv
<1>2. inDegree[d] = Cardinality(deps[d] \ sorted)
  BY DEF DetectionInv, CountInv
<1>3. IsFiniteSet(deps[d] \ sorted) /\ Cardinality(deps[d] \ sorted) \in Nat
  BY DepsFinite
<1>4. CASE a \in deps[d]
  <2>1. deps[d] \ sorted' = (deps[d] \ sorted) \ {a}
    BY <1>1
  <2>2. a \in deps[d] \ sorted
    BY <1>1, <1>4
  <2>3. Cardinality(deps[d] \ sorted') = Cardinality(deps[d] \ sorted) - 1
    BY <2>1, <2>2, <1>3, FS_RemoveElement
  <2>4. Cardinality(deps[d] \ sorted') \in Nat
    BY DepsFinite
  <2>5. inDegree'[d] = inDegree[d] - 1
    BY <1>4 DEF Take
  <2>6. QED BY <1>2, <2>3, <2>4, <2>5
<1>5. CASE a \notin deps[d]
  <2>1. deps[d] \ sorted' = deps[d] \ sorted
    BY <1>1, <1>5
  <2>2. inDegree'[d] = inDegree[d]
    BY <1>5 DEF Take
  <2>3. QED BY <1>2, <1>3, <2>1, <2>2
<1>6. QED BY <1>4, <1>5

LEMMA TypeStep == TypeOK /\ DetectionInv /\ [DagNext]_dagVars => TypeOK'
<1> SUFFICES ASSUME TypeOK, DetectionInv, [DagNext]_dagVars PROVE TypeOK'
  OBVIOUS
<1>1. ASSUME NEW a \in Agents, Take(a) PROVE TypeOK'
  <2>1. inDegree' \in [Agents -> Nat]
    <3>1. \A d \in Agents : inDegree'[d] \in Nat
      BY <1>1, CountStep
    <3>2. inDegree' = [d \in Agents |-> inDegree'[d]]
      BY <1>1 DEF Take
    <3>3. QED BY <3>1, <3>2
  <2>2. Counted(a) \subseteq Agents
    BY DEF Counted
  <2>3. QED BY <1>1, <2>1, <2>2 DEF Take, TypeOK, layering
<1>2. CASE Detected
  BY <1>2 DEF Detected, TypeOK, detection, layering
<1>3. CASE NextWave
  <2>1. Ready \in SUBSET Agents
    BY DEF Ready, Remaining
  <2>2. waves' \in Seq(SUBSET Agents)
    <3>1. CASE Ready = {}
      BY <1>3, <3>1 DEF NextWave, TypeOK, layering
    <3>2. CASE Ready # {}
      <4>1. waves' = Append(waves, Ready)
        BY <1>3, <3>2 DEF NextWave
      <4>2. waves \in Seq(SUBSET Agents)
        BY DEF TypeOK
      <4>3. QED BY <2>1, <4>1, <4>2, AppendProperties
    <3>3. QED BY <3>1, <3>2
  <2>3. completed' \in SUBSET Agents
    BY <1>3, <2>1 DEF NextWave, TypeOK, layering
  <2>4. UNCHANGED <<deps, inDegree, queue, sorted>> /\ phase' \in {phase, "stuck"}
    BY <1>3 DEF NextWave, detection
  <2>5. QED BY <2>2, <2>3, <2>4 DEF TypeOK
<1>4. CASE Layered
  BY <1>4 DEF Layered, TypeOK, detection, layering
<1>5. CASE UNCHANGED dagVars
  BY <1>5 DEF dagVars, detection, layering, TypeOK
<1>6. QED BY <1>1, <1>2, <1>3, <1>4, <1>5 DEF DagNext
-----------------------------------------------------------------------------
LEMMA DetectionInit ==
    ASSUME NEW mode \in Modes, DagInit(mode), TypeOK
    PROVE  DetectionInv
<1>1. CountInv
  <2>1. \A a \in Agents : deps[a] \ sorted = deps[a]
    BY DEF DagInit
  <2>2. QED BY <2>1 DEF DagInit, CountInv
<1>2. QueueInv
  BY DEF DagInit, QueueInv
<1>3. ClosedInv /\ GroundedInv /\ VerdictInv
  BY DEF DagInit, ClosedInv, GroundedInv, VerdictInv
<1>4. QED BY <1>1, <1>2, <1>3 DEF DetectionInv

\* An agent is queued with the last of its dependencies: never before, and
\* never twice.
LEMMA QueueStep ==
    ASSUME TypeOK, DetectionInv, NEW a \in Agents, Take(a)
    PROVE  QueueInv'
<1>1. /\ a \notin sorted /\ deps[a] \subseteq sorted
      /\ sorted' = sorted \cup {a} /\ deps' = deps
  BY DEF Take, DetectionInv, QueueInv
<1>2. ASSUME NEW d \in Agents, a \in deps[d]
      PROVE  inDegree[d] = 1 <=> deps[d] \subseteq sorted'
  <2>1. a \in deps[d] \ sorted
    BY <1>1, <1>2
  <2>2. /\ IsFiniteSet(deps[d] \ sorted) /\ Cardinality(deps[d] \ sorted) \in Nat
        /\ IsFiniteSet(deps[d] \ sorted')
    BY DepsFinite
  <2>3. deps[d] \ sorted' = (deps[d] \ sorted) \ {a}
    BY <1>1
  <2>4. Cardinality(deps[d] \ sorted') = Cardinality(deps[d] \ sorted) - 1
    BY <2>1, <2>2, <2>3, FS_RemoveElement
  <2>5. Cardinality(deps[d] \ sorted') = 0 <=> deps[d] \ sorted' = {}
    BY <2>2, FS_EmptySet
  <2>6. inDegree[d] = Cardinality(deps[d] \ sorted)
    BY DEF DetectionInv, CountInv
  <2>7. QED BY <2>2, <2>4, <2>5, <2>6
<1>3. ASSUME NEW d \in Agents
      PROVE  d \in queue' <=> d \notin sorted' /\ deps[d] \subseteq sorted'
  <2>1. d \in queue' <=> (d \in queue /\ d # a) \/ (a \in deps[d] /\ inDegree[d] = 1)
    BY DEF Take, Counted
  <2>2. d \in queue <=> d \notin sorted /\ deps[d] \subseteq sorted
    BY DEF DetectionInv, QueueInv
  <2>3. CASE a \in deps[d]
    <3>1. d # a /\ d \notin sorted
      BY <1>1, <2>3 DEF DetectionInv, ClosedInv
    <3>2. d \notin queue
      BY <1>1, <2>2, <2>3
    <3>3. QED BY <1>1, <1>2, <2>1, <2>3, <3>1, <3>2
  <2>4. CASE a \notin deps[d]
    BY <1>1, <2>1, <2>2, <2>4
  <2>5. QED BY <2>3, <2>4
<1>4. queue' \subseteq Agents
  BY DEF Take, Counted, TypeOK
<1>5. QED BY <1>1, <1>3, <1>4 DEF QueueInv

LEMMA GroundedStep ==
    ASSUME TypeOK, DetectionInv, NEW a \in Agents, Take(a)
    PROVE  ClosedInv' /\ GroundedInv'
<1>1. /\ a \notin sorted /\ deps[a] \subseteq sorted
      /\ sorted' = sorted \cup {a} /\ deps' = deps
  BY DEF Take, DetectionInv, QueueInv
<1>2. ClosedInv'
  BY <1>1 DEF DetectionInv, ClosedInv
<1>3. ASSUME NEW S \in SUBSET sorted', S # {}
      PROVE  \E b \in S : deps[b] \cap S = {}
  <2>1. CASE S \subseteq {a}
    BY <1>1, <1>3, <2>1
  <2>2. CASE ~(S \subseteq {a})
    <3>1. S \ {a} \in SUBSET sorted /\ S \ {a} # {}
      BY <1>1, <2>2
    <3>2. PICK b \in S \ {a} : deps[b] \cap (S \ {a}) = {}
      BY <3>1 DEF DetectionInv, GroundedInv
    <3>3. a \notin deps[b]
      BY <1>1, <3>1, <3>2 DEF DetectionInv, ClosedInv
    <3>4. QED BY <3>2, <3>3
  <2>3. QED BY <2>1, <2>2
<1>4. QED BY <1>1, <1>2, <1>3 DEF GroundedInv

\* Any agents that are left have one among them that waits for none of the
\* others, so buildExecutionWaves finds a wave.
LEMMA SomeoneReady ==
    ASSUME TypeOK, DetectionInv, phase = "layering", Remaining # {}
    PROVE  Ready # {}
<1>1. Remaining \in SUBSET sorted
  BY DEF DetectionInv, VerdictInv, Remaining
<1>2. PICK a \in Remaining : deps[a] \cap Remaining = {}
  BY <1>1 DEF DetectionInv, GroundedInv
<1>3. deps[a] \subseteq completed
  BY <1>2 DEF Remaining, TypeOK
<1>4. QED BY <1>3 DEF Ready

LEMMA DetectionStep == TypeOK /\ DetectionInv /\ [DagNext]_dagVars => DetectionInv'
<1> SUFFICES ASSUME TypeOK, DetectionInv, [DagNext]_dagVars PROVE DetectionInv'
  OBVIOUS
<1>1. ASSUME NEW a \in Agents, Take(a) PROVE DetectionInv'
  <2>1. CountInv'
    <3>1. deps' = deps
      BY <1>1 DEF Take
    <3>2. QED BY <1>1, <3>1, CountStep DEF CountInv
  <2>2. VerdictInv'
    BY <1>1 DEF Take, VerdictInv
  <2>3. QED BY <1>1, <2>1, <2>2, QueueStep, GroundedStep DEF DetectionInv
<1>2. ASSUME UNCHANGED <<deps, inDegree, queue, sorted>>, VerdictInv'
      PROVE  DetectionInv'
  BY <1>2 DEF DetectionInv, CountInv, QueueInv, ClosedInv, GroundedInv
<1>3. CASE Detected
  <2>1. VerdictInv'
    BY <1>3 DEF Detected, VerdictInv, detection
  <2>2. QED BY <1>2, <1>3, <2>1 DEF Detected, detection
<1>4. CASE NextWave
  <2>1. UNCHANGED <<deps, inDegree, queue, sorted>>
    BY <1>4 DEF NextWave, detection
  <2>2. phase' = phase
    BY <1>4, SomeoneReady DEF NextWave
  <2>3. VerdictInv'
    BY <2>1, <2>2 DEF DetectionInv, VerdictInv
  <2>4. QED BY <1>2, <2>1, <2>3
<1>5. CASE Layered
  <2>1. VerdictInv'
    BY <1>5 DEF Layered, DetectionInv, VerdictInv, detection
  <2>2. QED BY <1>2, <1>5, <2>1 DEF Layered, detection
<1>6. CASE UNCHANGED dagVars
  <2>1. VerdictInv'
    BY <1>6 DEF dagVars, DetectionInv, VerdictInv, detection
  <2>2. QED BY <1>2, <1>6, <2>1 DEF dagVars, detection
<1>7. QED BY <1>1, <1>3, <1>4, <1>5, <1>6 DEF DagNext
-----------------------------------------------------------------------------
\* Every variable of the two algorithms keeps its type.
THEOREM TypeCorrect == DagSpec => []TypeOK
<1>1. (\E mode \in Modes : DagInit(mode)) => TypeOK /\ DetectionInv
  BY TypeInit, DetectionInit
<1>2. TypeOK /\ DetectionInv /\ [DagNext]_dagVars => (TypeOK /\ DetectionInv)'
  BY TypeStep, DetectionStep
<1>3. QED BY <1>1, <1>2, PTL DEF DagSpec

LEMMA DetectionCorrect == DagSpec => []DetectionInv
<1>1. (\E mode \in Modes : DagInit(mode)) => TypeOK /\ DetectionInv
  BY TypeInit, DetectionInit
<1>2. TypeOK /\ DetectionInv /\ [DagNext]_dagVars => (TypeOK /\ DetectionInv)'
  BY TypeStep, DetectionStep
<1>3. QED BY <1>1, <1>2, PTL DEF DagSpec

\* buildExecutionWaves never throws "Deadlock" (dag.ts) on a graph that
\* detectCycles has let through.
THEOREM NeverStuckCorrect == DagSpec => []NeverStuck
<1>1. DetectionInv => NeverStuck
  BY DEF DetectionInv, VerdictInv, NeverStuck
<1>2. QED BY <1>1, DetectionCorrect, PTL

\* detectCycles refuses a graph if and only if it has a cycle.
THEOREM RejectsCorrect == DagSpec => []RejectsCycles
<1>1. TypeOK /\ DetectionInv => RejectsCycles
  <2> SUFFICES ASSUME TypeOK, DetectionInv PROVE RejectsCycles
    OBVIOUS
  <2>1. ASSUME phase = "rejected" PROVE HasCycle
    <3>1. Agents \ sorted # {} /\ queue = {}
      BY <2>1 DEF DetectionInv, VerdictInv, TypeOK
    <3>2. \A a \in Agents \ sorted : deps[a] \cap (Agents \ sorted) # {}
      BY <3>1 DEF DetectionInv, QueueInv, TypeOK
    <3>3. QED BY <3>1, <3>2 DEF HasCycle
  <2>2. ASSUME phase \in {"layering", "layered", "stuck"} PROVE ~HasCycle
    BY <2>2 DEF DetectionInv, VerdictInv, GroundedInv, HasCycle
  <2>3. QED BY <2>1, <2>2 DEF RejectsCycles
<1>2. QED BY <1>1, TypeCorrect, DetectionCorrect, PTL
-----------------------------------------------------------------------------
(* The waves.  Who is left was not ready for the last wave: one of the     *)
(* agents it waits for is in that wave or still left.                      *)
LevelsInv ==
    /\ completed = {a \in Agents : \E j \in DOMAIN waves : a \in waves[j]}
    /\ \A a \in Remaining :
          Len(waves) > 0 => ~(deps[a] \subseteq completed \ waves[Len(waves)])
    /\ WavesAreLevels

LEMMA LevelsStep == TypeOK /\ LevelsInv /\ [DagNext]_dagVars => LevelsInv'
<1> SUFFICES ASSUME TypeOK, LevelsInv, [DagNext]_dagVars PROVE LevelsInv'
  OBVIOUS
<1>1. ASSUME UNCHANGED <<deps, layering>> PROVE LevelsInv'
  <2>1. deps' = deps /\ waves' = waves /\ completed' = completed /\ Remaining' = Remaining
    BY <1>1 DEF layering, Remaining
  <2>2. WavesAreLevels'
    BY <2>1 DEF LevelsInv, WavesAreLevels
  <2>3. QED BY <2>1, <2>2 DEF LevelsInv
<1>2. CASE NextWave /\ Ready # {}
  <2> DEFINE n == Len(waves)
  <2>1. /\ waves' = Append(waves, Ready)
        /\ completed' = completed \cup Ready
        /\ deps' = deps
    BY <1>2 DEF NextWave
  <2>2. waves \in Seq(SUBSET Agents) /\ n \in Nat /\ DOMAIN waves = 1..n
    BY DEF TypeOK
  <2>3. Ready \in SUBSET Agents
    BY DEF Ready, Remaining
  <2>4. /\ DOMAIN waves' = 1..(n + 1) /\ Len(waves') = n + 1
        /\ \A j \in 1..n : waves'[j] = waves[j]
        /\ waves'[n + 1] = Ready
    BY <2>1, <2>2, <2>3, AppendProperties
  <2>5. completed = {a \in Agents : \E j \in 1..n : a \in waves[j]}
    BY <2>2 DEF LevelsInv
  <2>6. \A a \in Ready : a \in Agents /\ a \notin completed /\ deps[a] \subseteq completed
    BY DEF Ready, Remaining
  <2> HIDE DEF n
  <2>7. completed' = {a \in Agents : \E j \in DOMAIN waves' : a \in waves'[j]}
    <3>1. \A a \in Agents : (\E j \in 1..(n + 1) : a \in waves'[j])
                              <=> (\E j \in 1..n : a \in waves[j]) \/ a \in Ready
      BY <2>2, <2>4
    <3>2. QED BY <2>1, <2>3, <2>4, <2>5, <3>1
  <2>8. ASSUME NEW a \in Remaining' PROVE ~(deps'[a] \subseteq completed' \ waves'[Len(waves')])
    <3>1. a \in Remaining /\ a \notin Ready
      BY <2>1, <2>8 DEF Remaining
    <3>2. ~(deps[a] \subseteq completed)
      BY <3>1 DEF Ready
    <3>3. QED BY <2>1, <2>4, <3>2
  <2>9. ASSUME NEW i \in 1..(n + 1), NEW a \in waves'[i]
        PROVE  /\ \A d \in deps[a] : \E j \in 1..(i - 1) : d \in waves'[j]
               /\ \A j \in 1..(n + 1) : a \in waves'[j] => j = i
               /\ i > 1 => deps[a] \cap waves'[i - 1] # {}
    <3>1. CASE i \in 1..n
      <4>1. a \in waves[i] /\ i \in DOMAIN waves
        BY <2>2, <2>4, <2>9, <3>1
      <4>2. a \in Agents
        BY <2>2, <3>1, <4>1
      <4>3. a \notin Ready
        BY <2>5, <2>6, <3>1, <4>1, <4>2
      <4>4. /\ \A d \in deps[a] : \E j \in 1..(i - 1) : d \in waves[j]
            /\ \A j \in 1..n : a \in waves[j] => j = i
            /\ i > 1 => deps[a] \cap waves[i - 1] # {}
        BY <2>2, <4>1 DEF LevelsInv, WavesAreLevels
      <4>5. \A j \in 1..(i - 1) : j \in 1..n
        BY <2>2, <3>1
      <4>6. \A d \in deps[a] : \E j \in 1..(i - 1) : d \in waves'[j]
        BY <2>4, <4>4, <4>5
      <4>7. ASSUME NEW j \in 1..(n + 1), a \in waves'[j] PROVE j = i
        BY <2>2, <2>4, <4>3, <4>4, <4>7
      <4>8. ASSUME i > 1 PROVE deps[a] \cap waves'[i - 1] # {}
        <5>1. i - 1 \in 1..n
          BY <2>2, <3>1, <4>8
        <5>2. QED BY <2>4, <4>4, <4>8, <5>1
      <4>9. QED BY <4>6, <4>7, <4>8
    <3>2. CASE i = n + 1
      <4>1. a \in Ready
        BY <2>4, <2>9, <3>2
      <4>2. i - 1 = n
        BY <2>2, <3>2
      <4>3. ASSUME NEW d \in deps[a] PROVE \E j \in 1..(i - 1) : d \in waves'[j]
        <5>1. d \in completed
          BY <2>6, <4>1
        <5>2. PICK j \in 1..n : d \in waves[j]
          BY <2>5, <5>1
        <5>3. QED BY <2>4, <4>2, <5>2
      <4>4. ASSUME NEW j \in 1..(n + 1), a \in waves'[j] PROVE j = i
        <5>1. j \notin 1..n
          BY <2>4, <2>5, <2>6, <4>1, <4>4
        <5>2. QED BY <2>2, <3>2, <5>1
      <4>5. ASSUME i > 1 PROVE deps[a] \cap waves'[i - 1] # {}
        <5>1. n > 0 /\ n \in 1..n
          BY <2>2, <3>2, <4>5
        <5>2. a \in Remaining
          BY <4>1 DEF Ready
        <5>3. ~(deps[a] \subseteq completed \ waves[n])
          BY <5>1, <5>2 DEF LevelsInv, n
        <5>4. deps[a] \cap waves[n] # {}
          BY <2>6, <4>1, <5>3
        <5>5. QED BY <2>4, <4>2, <5>1, <5>4
      <4>6. QED BY <4>3, <4>4, <4>5
    <3>3. QED BY <2>2, <3>1, <3>2
  <2>10. WavesAreLevels'
    BY <2>1, <2>4, <2>9 DEF WavesAreLevels
  <2>11. QED BY <2>7, <2>8, <2>10 DEF LevelsInv
<1>3. CASE UNCHANGED dagVars
  BY <1>1, <1>3 DEF dagVars
<1>4. CASE DagNext /\ ~(NextWave /\ Ready # {})
  BY <1>1, <1>4 DEF DagNext, Take, Detected, NextWave, Layered
<1>5. QED BY <1>2, <1>3, <1>4

LEMMA LevelsInvariant == DagSpec => []LevelsInv
<1>1. ASSUME NEW mode \in Modes, DagInit(mode) PROVE LevelsInv
  <2>1. waves = << >> /\ DOMAIN waves = {} /\ Len(waves) = 0 /\ completed = {}
    BY <1>1 DEF DagInit
  <2>2. QED BY <2>1 DEF LevelsInv, WavesAreLevels
<1>2. (\E mode \in Modes : DagInit(mode)) => LevelsInv
  BY <1>1
<1>3. QED BY <1>2, LevelsStep, TypeCorrect, PTL DEF DagSpec

\* "Each wave contains agents whose dependencies are all in earlier waves"
\* (buildExecutionWaves), nobody is in two waves, and nobody could run earlier.
THEOREM LevelsCorrect == DagSpec => []WavesAreLevels
<1>1. LevelsInv => WavesAreLevels
  BY DEF LevelsInv
<1>2. QED BY <1>1, LevelsInvariant, PTL

\* When buildExecutionWaves returns, every agent is in a wave.
Covered == phase = "layered" => \A a \in Agents : \E i \in DOMAIN waves : a \in waves[i]

LEMMA CoveredCorrect == DagSpec => []Covered
<1> DEFINE Exhausted == phase = "layered" => Remaining = {}
<1>1. ASSUME NEW mode \in Modes, DagInit(mode) PROVE Exhausted
  BY <1>1 DEF DagInit
<1>2. (\E mode \in Modes : DagInit(mode)) => Exhausted
  BY <1>1
<1>3. Exhausted /\ [DagNext]_dagVars => Exhausted'
  BY DEF DagNext, Take, Detected, NextWave, Layered, dagVars, layering, Remaining
<1>4. LevelsInv /\ Exhausted => Covered
  BY DEF LevelsInv, Covered, Remaining
<1> HIDE DEF Exhausted
<1>5. QED BY <1>2, <1>3, <1>4, LevelsInvariant, PTL DEF DagSpec

-----------------------------------------------------------------------------
(***************************************************************************)
(* The pipeline.  An agent works only when all it waits for are through,   *)
(* waves do not overlap, what run() leaves on disk is the state it ended   *)
(* in, and that state is earned.  What is shown above of the waves carries *)
(* over, since the pipeline only reads them.                               *)
(***************************************************************************)
\* The controller starts once the waves are there, so they do not change under it.
LayeredInv == controller # "idle" => phase = "layered"

\* Agents of the waves before are done, those of the waves to come are idle.
ProgressInv ==
    /\ controller \in {"idle", "beginning"} => wave = 0
    /\ controller = "beginning" => \A a \in Agents : at[a] = "idle"
    /\ controller \in {"marking", "running"} =>
          \A i \in DOMAIN waves : \A a \in waves[i] :
              /\ i < wave => at[a] = "done"
              /\ i > wave => at[a] = "idle"
              /\ i = wave /\ controller = "marking" => at[a] = "idle"

BusyInv == \A a \in Agents : Busy(a) => controller = "running" /\ a \in Wave

\* An agent waits for a write in three places, the controller in five; each of
\* them for one at a time; and the last one of run() carries the final state.
WriteInv ==
    /\ \A w \in writes : w.by \in Agents => at[w.by] \in {"starting", "ending", "recording"}
    /\ \A w \in writes : w.by = Controller =>
          controller \in {"beginning", "marking", "finishing", "aborting", "failing"}
    /\ \A v, w \in writes : v.by = w.by => v = w
    /\ controller \in {"finishing", "aborting", "failing"} =>
          \A w \in writes : w.by = Controller => w.state = tracker

PipelineInv == LayeredInv /\ ProgressInv /\ BusyInv /\ WriteInv /\ FileIsFinal
-----------------------------------------------------------------------------
\* The pipeline takes the steps of SwarmDag or leaves its variables alone.
LEMMA DagUnderPipeline == Spec => DagSpec
<1>1. Init => \E mode \in Modes : DagInit(mode)
  BY DEF Init
<1>2. [Next]_vars => [DagNext]_dagVars
  BY DEF Next, vars, ControllerStep, AgentStep, Begin, Advance, Launch, Mark, ControllerResumes,
         ControllerFails, StartAgent, EndAgent, AgentResumes, AgentFails, Abort
<1>3. QED BY <1>1, <1>2, PTL DEF Spec, DagSpec

LEMMA ControllerIsNoAgent == Controller \notin Agents
BY AgentsAssumption DEF Controller

LEMMA WaveType == TypeOK /\ wave \in 0..Len(waves) => Wave \in SUBSET Agents
<1> SUFFICES ASSUME TypeOK, wave \in 0..Len(waves) PROVE Wave \in SUBSET Agents
  OBVIOUS
<1>1. CASE wave = 0
  BY <1>1 DEF Wave
<1>2. CASE wave # 0
  <2>1. waves \in Seq(SUBSET Agents) /\ wave \in 1..Len(waves)
    BY <1>2 DEF TypeOK
  <2>2. waves[wave] \in SUBSET Agents
    BY <2>1
  <2>3. QED BY <1>2, <2>2 DEF Wave
<1>3. QED BY <1>1, <1>2

LEMMA TrackerType ==
    ASSUME tracker \in Trackers
    PROVE  /\ \A s \in {"running", "completed", "failed", "aborted"} : SetPipeline(s) \in Trackers
           /\ \A a \in Agents, s \in Statuses : SetAgent(a, s) \in Trackers
<1> USE DEF Trackers
<1>1. \A s \in {"running", "completed", "failed", "aborted"} : SetPipeline(s) \in Trackers
  BY DEF SetPipeline
<1>2. \A a \in Agents, s \in Statuses : SetAgent(a, s) \in Trackers
  BY DEF SetAgent
<1>3. QED BY <1>1, <1>2

\* What Persist does to the types.
LEMMA PersistType ==
    ASSUME PipelineTypeOK, NEW by \in Agents \cup {Controller}, NEW state \in Trackers,
           Persist(by, state)
    PROVE  /\ tracker' \in Trackers
           /\ \A w \in writes' : w.by \in Agents \cup {Controller} /\ w.state \in Trackers
BY DEF Persist, PipelineTypeOK

\* What becomes of a write that comes back or fails.
LEMMA WriteType ==
    ASSUME PipelineTypeOK, NEW w \in writes
    PROVE  /\ Succeeds(w) => /\ file' \in Trackers /\ writes' \subseteq writes
                            /\ faults' = faults
           /\ FailsToWrite(w) => file' \in Trackers /\ faults' \in 0..MaxFaults
<1>1. w.state \in Trackers /\ file \in Trackers /\ faults \in 0..MaxFaults
  BY DEF PipelineTypeOK
<1>2. ASSUME Succeeds(w)
      PROVE  file' \in Trackers /\ writes' \subseteq writes /\ faults' = faults
  BY <1>1, <1>2 DEF Succeeds
<1>3. ASSUME FailsToWrite(w) PROVE file' \in Trackers /\ faults' \in 0..MaxFaults
  BY <1>1, <1>3, PipelineAssumption DEF FailsToWrite
<1>4. QED BY <1>2, <1>3

LEMMA PipelineTypeInit == Init /\ TypeOK => PipelineTypeOK
<1> SUFFICES ASSUME Init, TypeOK PROVE PipelineTypeOK
  OBVIOUS
<1>1. targetCount \in 1..MaxIterations
  <2>1. PICK mode \in Modes : targetCount \in IF mode = "pipeline" THEN 1..MaxIterations ELSE {1}
    BY DEF Init
  <2>2. QED BY <2>1, PipelineAssumption
<1>2. tracker \in Trackers
  BY DEF Init, Trackers, Statuses
<1>3. wave \in 0..Len(waves)
  BY DEF Init, TypeOK
<1>4. outcomes \in [Agents -> Seq(BOOLEAN)] /\ results \in [Agents -> Seq(BOOLEAN)]
  BY EmptySeq DEF Init
<1>5. /\ iteration \in 0..targetCount /\ faults \in 0..MaxFaults
      /\ unmarked \subseteq Agents /\ writes = {}
      /\ at \in [Agents -> {"idle", "starting", "working", "ending", "recording", "done"}]
  BY <1>1, PipelineAssumption DEF Init
<1>6. QED BY <1>1, <1>2, <1>3, <1>4, <1>5 DEF Init, PipelineTypeOK

\* An iteration that is on is one of those asked for.
IterationInv == controller \in {"beginning", "marking", "running"} => iteration < targetCount

LEMMA PipelineTypeStep ==
    PipelineTypeOK /\ IterationInv /\ TypeOK' /\ [Next]_vars => PipelineTypeOK'
<1> SUFFICES ASSUME PipelineTypeOK, IterationInv, TypeOK', [Next]_vars PROVE PipelineTypeOK'
  OBVIOUS
<1> USE DEF PipelineTypeOK
<1>1. CASE DagNext /\ UNCHANGED runVars
  <2>1. wave' \in 0..Len(waves')
    <3>1. Len(waves') >= Len(waves) /\ Len(waves') \in Nat /\ Len(waves) \in Nat
      <4>1. CASE UNCHANGED waves
        BY <4>1 DEF TypeOK
      <4>2. CASE waves' = Append(waves, Ready)
        <5>1. Ready \in SUBSET Agents
          BY DEF Ready, Remaining
        <5>2. QED BY <4>2, <5>1, AppendProperties DEF TypeOK
      <4>3. QED BY <1>1, <4>1, <4>2 DEF DagNext, Take, Detected, NextWave, Layered, layering
    <3>2. QED BY <1>1, <3>1 DEF runVars
  <2>2. QED BY <1>1, <2>1 DEF runVars
<1>2. CASE Begin
  <2>1. PICK state \in Trackers : Persist(Controller, state)
    BY <1>2, TrackerType DEF Begin
  <2>2. QED BY <1>2, <2>1, PersistType DEF Begin, dagVars, layering
<1>3. CASE Advance
  <2>1. CASE wave < Len(waves) /\ ~aborted
    <3>1. waves[wave + 1] \in SUBSET Agents
      BY <2>1 DEF TypeOK
    <3>2. wave + 1 \in 0..Len(waves)
      BY <2>1 DEF TypeOK
    <3>3. QED BY <1>3, <2>1, <3>1, <3>2 DEF Advance, dagVars, layering
  <2>2. CASE ~(wave < Len(waves) /\ ~aborted)
    <3>1. iteration + 1 \in 0..targetCount
      BY <1>3 DEF Advance, IterationInv
    <3>2. \A a \in Agents : outcomes[a] \o results[a] \in Seq(BOOLEAN)
      BY ConcatProperties
    <3>3. 0 \in 0..Len(waves)
      BY DEF TypeOK
    <3>4. QED BY <1>3, <2>2, <3>1, <3>2, <3>3, EmptySeq DEF Advance, dagVars, layering
  <2>3. QED BY <2>1, <2>2
<1>4. ASSUME NEW a \in Agents, Mark(a) PROVE PipelineTypeOK'
  <2>1. SetAgent(a, "waiting") \in Trackers
    BY TrackerType DEF Statuses
  <2>2. QED BY <1>4, <2>1, PersistType DEF Mark, dagVars, layering
<1>5. CASE Launch
  BY <1>5 DEF Launch, dagVars, layering
<1>6. ASSUME NEW w \in writes, ControllerResumes(w) PROVE PipelineTypeOK'
  BY <1>6, WriteType DEF ControllerResumes, dagVars, layering
<1>7. ASSUME NEW w \in writes, ControllerFails(w) PROVE PipelineTypeOK'
  <2>1. SetPipeline("failed") \in Trackers
    BY TrackerType
  <2>2. file' \in Trackers /\ faults' \in 0..MaxFaults
    BY <1>7, WriteType DEF ControllerFails
  <2>3. tracker' \in Trackers /\ \A v \in writes' : v.by \in Agents \cup {Controller} /\ v.state \in Trackers
    BY <1>7, <2>1 DEF ControllerFails
  <2>4. /\ controller' \in {"threw", "failing"}
        /\ UNCHANGED <<dagVars, targetCount, iteration, wave, unmarked, at, outcomes, results, aborted>>
    BY <1>7 DEF ControllerFails
  <2>5. QED BY <2>2, <2>3, <2>4 DEF dagVars, layering
<1>8. ASSUME NEW a \in Agents, StartAgent(a) PROVE PipelineTypeOK'
  <2>1. SetAgent(a, "running") \in Trackers
    BY TrackerType DEF Statuses
  <2>2. QED BY <1>8, <2>1, PersistType DEF StartAgent, dagVars, layering
<1>9. ASSUME NEW a \in Agents, EndAgent(a) PROVE PipelineTypeOK'
  <2>1. PICK ok, exited \in BOOLEAN :
          /\ Persist(a, SetAgent(a, IF ok THEN "completed" ELSE "failed"))
          /\ results' = [results EXCEPT ![a] = <<ok>>]
          /\ at' = [at EXCEPT ![a] = IF exited THEN "ending" ELSE "recording"]
    BY <1>9 DEF EndAgent
  <2>2. SetAgent(a, IF ok THEN "completed" ELSE "failed") \in Trackers
    BY TrackerType DEF Statuses
  <2>3. QED BY <1>9, <2>1, <2>2, PersistType DEF EndAgent, dagVars, layering
<1>10. ASSUME NEW w \in writes, AgentResumes(w) PROVE PipelineTypeOK'
  BY <1>10, WriteType DEF AgentResumes, dagVars, layering
<1>11. ASSUME NEW w \in writes, AgentFails(w) PROVE PipelineTypeOK'
  <2>1. w.by \in Agents /\ SetAgent(w.by, "failed") \in Trackers
    BY <1>11, TrackerType DEF AgentFails, Statuses
  <2>2. /\ file' \in Trackers /\ faults' \in 0..MaxFaults
        /\ results' \in [Agents -> Seq(BOOLEAN)]
    BY <1>11, <2>1, WriteType DEF AgentFails
  <2>3. /\ tracker' \in Trackers
        /\ at' \in [Agents -> {"idle", "starting", "working", "ending", "recording", "done"}]
        /\ \A v \in writes' : v.by \in Agents \cup {Controller} /\ v.state \in Trackers
    <3>1. CASE at[w.by] = "ending"
      <4>1. tracker' = SetAgent(w.by, "failed")
        BY <1>11, <3>1 DEF AgentFails
      <4>2. writes' = (writes \ {w}) \cup {[by |-> w.by, state |-> tracker']}
        BY <1>11, <3>1 DEF AgentFails
      <4>3. at' = [at EXCEPT ![w.by] = "recording"]
        BY <1>11, <3>1 DEF AgentFails
      <4>4. QED BY <2>1, <4>1, <4>2, <4>3
    <3>2. CASE at[w.by] # "ending"
      BY <1>11, <3>2 DEF AgentFails
    <3>3. QED BY <3>1, <3>2
  <2>4. QED BY <1>11, <2>2, <2>3 DEF AgentFails, dagVars, layering
<1>12. CASE Abort
  BY <1>12 DEF Abort, dagVars, layering
<1>13. CASE UNCHANGED vars
  BY <1>13 DEF vars, runVars, dagVars, layering
<1>14. QED
  BY <1>1, <1>2, <1>3, <1>4, <1>5, <1>6, <1>7, <1>8, <1>9, <1>10, <1>11, <1>12, <1>13
     DEF Next, ControllerStep, AgentStep

\* Every variable keeps its type.
THEOREM PipelineTypeCorrect == Spec => []PipelineTypeOK
<1>1. Spec => []TypeOK
  BY DagUnderPipeline, TypeCorrect, PTL
<1>2. Init => IterationInv
  BY DEF Init, IterationInv
<1>3. PipelineTypeOK /\ IterationInv /\ [Next]_vars => IterationInv'
  <2> SUFFICES ASSUME PipelineTypeOK, IterationInv, [Next]_vars PROVE IterationInv'
    OBVIOUS
  <2> USE DEF IterationInv
  <2>1. CASE Begin
    <3>1. iteration \in 0..targetCount /\ targetCount \in 1..MaxIterations
      BY DEF PipelineTypeOK
    <3>2. QED BY <2>1, <3>1, PipelineAssumption DEF Begin, AllIterations
  <2>2. CASE Advance
    BY <2>2 DEF Advance
  <2>3. CASE ~Begin /\ ~Advance
    BY <2>3 DEF Next, ControllerStep, AgentStep, vars, runVars, Mark, Launch, ControllerResumes,
                ControllerFails, StartAgent, EndAgent, AgentResumes, AgentFails, Abort
  <2>4. QED BY <2>1, <2>2, <2>3
<1>4. QED BY <1>1, <1>2, <1>3, PipelineTypeInit, PipelineTypeStep, PTL DEF Spec
-----------------------------------------------------------------------------
\* An agent of the wave that is on is in no other wave.
LEMMA OneWave ==
    ASSUME PipelineTypeOK, WavesAreLevels, NEW a \in Wave, NEW i \in DOMAIN waves, a \in waves[i]
    PROVE  i = wave
<1>1. wave \in DOMAIN waves /\ Wave = waves[wave]
  <2>1. wave # 0 /\ Wave = waves[wave]
    BY DEF Wave
  <2>2. QED BY <2>1 DEF PipelineTypeOK, TypeOK
<1>2. QED BY <1>1 DEF WavesAreLevels

\* The agents of a wave that has begun are found in it.
LEMMA InWave ==
    ASSUME PipelineTypeOK, wave > 0
    PROVE  wave \in DOMAIN waves /\ Wave = waves[wave]
BY DEF Wave, PipelineTypeOK, TypeOK

\* Between the waves nobody is busy, and only the controller writes.
LEMMA NobodyBusy ==
    ASSUME PipelineTypeOK, PipelineInv, controller # "running" \/ WaveDone
    PROVE  /\ \A a \in Agents : ~Busy(a)
           /\ \A w \in writes : w.by = Controller
<1>1. \A a \in Agents : ~Busy(a)
  BY DEF PipelineInv, BusyInv, WaveDone, Busy
<1>2. \A w \in writes : w.by \notin Agents
  BY <1>1 DEF PipelineInv, WriteInv, Busy
<1>3. QED BY <1>1, <1>2 DEF PipelineTypeOK

\* A step of an agent: it is of the wave that is on, and waits for its own
\* writes only.
LEMMA AgentStepShape ==
    ASSUME PipelineTypeOK, PipelineInv, NEW a \in Agents, AgentStep(a)
    PROVE  /\ UNCHANGED <<dagVars, controller, wave>>
           /\ Busy(a)
           /\ \A b \in Agents \ {a} : at'[b] = at[b]
           /\ \A w \in writes' : w.by # a => w \in writes
           /\ \A w \in writes' : w.by = a => at'[a] \in {"starting", "ending", "recording"}
           /\ \A v, w \in writes' : v.by = a /\ w.by = a => v = w
<1> USE DEF Busy
<1>1. \A w \in writes : w.by = a => at[a] \in {"starting", "ending", "recording"}
  BY DEF PipelineInv, WriteInv
<1>2. \A v, w \in writes : v.by = w.by => v = w
  BY DEF PipelineInv, WriteInv
<1>3. CASE StartAgent(a)
  BY <1>3 DEF StartAgent, Persist, Writing
<1>4. CASE EndAgent(a)
  <2>1. PICK ok, exited \in BOOLEAN :
          /\ Persist(a, SetAgent(a, IF ok THEN "completed" ELSE "failed"))
          /\ at' = [at EXCEPT ![a] = IF exited THEN "ending" ELSE "recording"]
    BY <1>4 DEF EndAgent
  <2>2. at[a] = "working" /\ \A w \in writes : w.by # a
    BY <1>1, <1>4 DEF EndAgent
  <2>3. at'[a] \in {"ending", "recording"} /\ \A b \in Agents \ {a} : at'[b] = at[b]
    BY <2>1 DEF PipelineTypeOK
  <2>4. QED BY <1>4, <2>1, <2>2, <2>3 DEF EndAgent, Persist
<1>5. ASSUME NEW w \in writes, w.by = a, AgentResumes(w)
      PROVE  /\ UNCHANGED <<dagVars, controller, wave>>
             /\ \A b \in Agents \ {a} : at'[b] = at[b]
             /\ writes' = writes \ {w}
  BY <1>5 DEF AgentResumes, Succeeds
<1>6. ASSUME NEW w \in writes, w.by = a, AgentFails(w)
      PROVE  /\ UNCHANGED <<dagVars, controller, wave>>
             /\ \A b \in Agents \ {a} : at'[b] = at[b]
             /\ \/ writes' = writes \ {w}
                \/ /\ writes' = (writes \ {w}) \cup {[by |-> a, state |-> tracker']}
                   /\ at'[a] = "recording"
  <2>1. UNCHANGED <<dagVars, controller, wave>>
    BY <1>6 DEF AgentFails
  <2>2. CASE at[a] = "ending"
    BY <1>6, <2>1, <2>2 DEF AgentFails, PipelineTypeOK
  <2>3. CASE at[a] # "ending"
    BY <1>6, <2>1, <2>3 DEF AgentFails, PipelineTypeOK
  <2>4. QED BY <2>2, <2>3
<1>7. ASSUME NEW w \in writes, w.by = a, AgentResumes(w) \/ AgentFails(w)
      PROVE  /\ Busy(a)
             /\ \A v \in writes \ {w} : v.by # a
  BY <1>1, <1>2, <1>7
<1>8. QED BY <1>3, <1>4, <1>5, <1>6, <1>7 DEF AgentStep

LEMMA AgentStepInv ==
    ASSUME PipelineTypeOK, WavesAreLevels, PipelineInv, NEW a \in Agents, AgentStep(a)
    PROVE  PipelineInv'
<1>1. /\ UNCHANGED <<deps, phase, waves, controller, wave>>
      /\ Busy(a)
      /\ \A b \in Agents \ {a} : at'[b] = at[b]
      /\ \A w \in writes' : w.by # a => w \in writes
      /\ \A w \in writes' : w.by = a => at'[a] \in {"starting", "ending", "recording"}
      /\ \A v, w \in writes' : v.by = a /\ w.by = a => v = w
  BY AgentStepShape DEF dagVars, layering
<1>2. controller = "running" /\ a \in Wave
  BY <1>1 DEF PipelineInv, BusyInv
<1>3. Wave' = Wave
  BY <1>1 DEF Wave
<1>4. LayeredInv'
  BY <1>1 DEF PipelineInv, LayeredInv
<1>5. ProgressInv'
  <2>1. ASSUME NEW i \in DOMAIN waves, NEW b \in waves[i], i # wave
        PROVE  at'[b] = at[b]
    <3>1. b \in Agents
      BY <2>1 DEF PipelineTypeOK, TypeOK
    <3>2. b # a
      BY <1>2, <2>1, OneWave DEF PipelineInv
    <3>3. QED BY <1>1, <3>1, <3>2
  <2>2. wave \in Nat /\ \A i \in DOMAIN waves : i \in Nat
    BY DEF PipelineTypeOK, TypeOK
  <2>3. QED BY <1>1, <1>2, <2>1, <2>2 DEF PipelineInv, ProgressInv
<1>6. BusyInv'
  BY <1>1, <1>2, <1>3 DEF PipelineInv, BusyInv, Busy
<1>7. WriteInv'
  <2>1. \A w \in writes' : w.by \in Agents => at'[w.by] \in {"starting", "ending", "recording"}
    BY <1>1 DEF PipelineInv, WriteInv
  <2>2. \A w \in writes' : w.by # Controller
    BY <1>1, <1>2, ControllerIsNoAgent DEF PipelineInv, WriteInv
  <2>3. \A v, w \in writes' : v.by = w.by => v = w
    BY <1>1 DEF PipelineInv, WriteInv
  <2>4. QED BY <2>1, <2>2, <2>3 DEF WriteInv
<1>8. FileIsFinal'
  BY <1>1, <1>2 DEF FileIsFinal
<1>9. QED BY <1>4, <1>5, <1>6, <1>7, <1>8 DEF PipelineInv

\* A write of the controller comes back or fails: it was the only one.
LEMMA ControllerWriteInv ==
    ASSUME PipelineTypeOK, PipelineInv, NEW w \in writes,
           ControllerResumes(w) \/ ControllerFails(w)
    PROVE  PipelineInv'
<1>1. w.by = Controller
  BY DEF ControllerResumes, ControllerFails
<1>2. controller \in {"beginning", "marking", "finishing", "aborting", "failing"}
  BY <1>1 DEF PipelineInv, WriteInv
<1>3. /\ \A a \in Agents : ~Busy(a)
      /\ writes = {w}
  <2>1. \A v \in writes : v.by = Controller
    BY <1>2, NobodyBusy
  <2>2. \A v \in writes : v = w
    BY <1>1, <2>1 DEF PipelineInv, WriteInv
  <2>3. QED BY <1>2, <2>2, NobodyBusy
<1>4. UNCHANGED <<deps, phase, waves, wave, at>>
  BY DEF ControllerResumes, ControllerFails, dagVars, layering
<1>5. \A a \in Agents : ~Busy(a)'
  BY <1>3, <1>4 DEF Busy
<1>6. LayeredInv'
  BY <1>2, <1>4 DEF PipelineInv, LayeredInv
<1>7. BusyInv'
  BY <1>5 DEF BusyInv
<1>8. CASE ControllerResumes(w)
  <2>1. /\ writes' = {} /\ file' = w.state /\ tracker' = tracker
        /\ controller' = CASE controller = "beginning" -> "running"
                            [] controller \in {"finishing", "aborting", "failing"} -> "returned"
                            [] OTHER -> controller
    BY <1>3, <1>8 DEF ControllerResumes, Succeeds
  <2>2. ProgressInv'
    <3>1. CASE controller = "marking"
      <4>1. controller' = "marking"
        BY <2>1, <3>1
      <4>2. QED BY <1>4, <3>1, <4>1 DEF PipelineInv, ProgressInv
    <3>2. CASE controller = "beginning"
      <4>1. controller' = "running" /\ wave = 0 /\ \A a \in Agents : at[a] = "idle"
        BY <2>1, <3>2 DEF PipelineInv, ProgressInv
      <4>2. \A i \in DOMAIN waves : i \in Nat /\ i > 0 /\ waves[i] \subseteq Agents
        BY DEF PipelineTypeOK, TypeOK
      <4>3. QED BY <1>4, <4>1, <4>2 DEF ProgressInv
    <3>3. CASE controller \in {"finishing", "aborting", "failing"}
      BY <2>1, <3>3 DEF ProgressInv
    <3>4. QED BY <1>2, <3>1, <3>2, <3>3
  <2>3. WriteInv'
    BY <2>1 DEF WriteInv
  <2>4. FileIsFinal'
    <3>1. CASE controller \in {"finishing", "aborting", "failing"}
      BY <1>1, <2>1, <3>1 DEF PipelineInv, WriteInv, FileIsFinal
    <3>2. CASE controller \in {"beginning", "marking"}
      BY <2>1, <3>2 DEF FileIsFinal
    <3>3. QED BY <1>2, <3>1, <3>2
  <2>5. QED BY <1>6, <1>7, <2>2, <2>3, <2>4 DEF PipelineInv
<1>9. CASE ControllerFails(w)
  <2>1. \/ controller' = "threw" /\ writes' = {}
        \/ controller' = "failing" /\ writes' = {[by |-> Controller, state |-> tracker']}
    BY <1>3, <1>9 DEF ControllerFails
  <2>2. ProgressInv'
    BY <2>1 DEF ProgressInv
  <2>3. WriteInv'
    BY <2>1, ControllerIsNoAgent DEF WriteInv
  <2>4. FileIsFinal'
    BY <2>1 DEF FileIsFinal
  <2>5. QED BY <1>6, <1>7, <2>2, <2>3, <2>4 DEF PipelineInv
<1>10. QED BY <1>8, <1>9

\* The head of the loop over the iterations.
LEMMA BeginInv == PipelineTypeOK /\ PipelineInv /\ Begin => PipelineInv'
<1> SUFFICES ASSUME PipelineTypeOK, PipelineInv, Begin PROVE PipelineInv'
  OBVIOUS
<1>1. writes = {}
  <2>1. controller = "idle"
    BY DEF Begin
  <2>2. \A w \in writes : w.by = Controller
    BY <2>1, NobodyBusy
  <2>3. QED BY <2>1, <2>2 DEF PipelineInv, WriteInv
<1>2. PICK state : Persist(Controller, state)
  BY DEF Begin
<1>3. /\ controller' \in {"finishing", "aborting", "beginning"}
      /\ at' = [a \in Agents |-> "idle"]
      /\ wave' = wave /\ wave = 0 /\ phase' = phase /\ phase = "layered"
  BY DEF Begin, dagVars, PipelineInv, ProgressInv
<1>4. writes' = {[by |-> Controller, state |-> tracker']}
  BY <1>1, <1>2 DEF Persist
<1>5. LayeredInv' /\ ProgressInv' /\ FileIsFinal'
  BY <1>3 DEF LayeredInv, ProgressInv, FileIsFinal
<1>6. BusyInv'
  BY <1>3 DEF BusyInv, Busy
<1>7. WriteInv'
  BY <1>3, <1>4, ControllerIsNoAgent DEF WriteInv
<1>8. QED BY <1>5, <1>6, <1>7 DEF PipelineInv

\* The wave that was on is done, the next one has not begun.
LEMMA AdvanceInv == PipelineTypeOK /\ WavesAreLevels /\ PipelineInv /\ Advance => PipelineInv'
<1> SUFFICES ASSUME PipelineTypeOK, WavesAreLevels, PipelineInv, Advance PROVE PipelineInv'
  OBVIOUS
<1>1. /\ controller = "running" /\ WaveDone
      /\ UNCHANGED <<deps, phase, waves, at, tracker, file, writes>>
  BY DEF Advance, dagVars, layering
<1>2. \A a \in Agents : ~Busy(a) /\ ~Busy(a)'
  BY <1>1, NobodyBusy DEF Busy
<1>3. writes = {} /\ writes' = {}
  BY <1>1, NobodyBusy DEF PipelineInv, WriteInv
<1>4. LayeredInv'
  BY <1>1 DEF PipelineInv, LayeredInv
<1>5. BusyInv'
  BY <1>2 DEF BusyInv
<1>6. WriteInv'
  BY <1>3 DEF WriteInv
<1>7. controller' \in {"marking", "idle"}
  BY DEF Advance
<1>8. FileIsFinal'
  BY <1>7 DEF FileIsFinal
<1>9. ProgressInv'
  <2>1. CASE controller' = "idle"
    <3>1. wave' = 0
      BY <2>1 DEF Advance
    <3>2. QED BY <2>1, <3>1 DEF ProgressInv
  <2>2. CASE controller' = "marking"
    <3>1. wave' = wave + 1
      BY <2>2 DEF Advance
    <3>2. wave \in Nat /\ \A i \in DOMAIN waves : i \in Nat /\ i > 0
      BY DEF PipelineTypeOK, TypeOK
    <3>3. ASSUME NEW i \in DOMAIN waves, NEW a \in waves[i]
          PROVE  /\ i < wave => at[a] = "done"
                 /\ i > wave => at[a] = "idle"
                 /\ i = wave => at[a] = "done"
      <4>1. i = wave => a \in Wave
        BY <3>2, <3>3, InWave
      <4>2. QED BY <1>1, <3>3, <4>1 DEF PipelineInv, ProgressInv, WaveDone
    <3>4. \A i \in DOMAIN waves : i < wave + 1 => i < wave \/ i = wave
      BY <3>2
    <3>5. \A i \in DOMAIN waves : (i > wave + 1 => i > wave) /\ (i = wave + 1 => i > wave)
      BY <3>2
    <3>6. QED BY <1>1, <2>2, <3>1, <3>3, <3>4, <3>5 DEF ProgressInv
  <2>3. QED BY <1>7, <2>1, <2>2
<1>10. QED BY <1>4, <1>5, <1>6, <1>8, <1>9 DEF PipelineInv

LEMMA MarkInv ==
    ASSUME PipelineTypeOK, PipelineInv, NEW a \in Agents, Mark(a)
    PROVE  PipelineInv'
<1>1. /\ controller = "marking" /\ ~Writing(Controller)
      /\ Persist(Controller, SetAgent(a, "waiting"))
      /\ UNCHANGED <<deps, phase, waves, controller, wave, at>>
  BY DEF Mark, dagVars, layering
<1>2. writes = {}
  BY <1>1, NobodyBusy DEF Writing
<1>3. writes' = {[by |-> Controller, state |-> tracker']}
  BY <1>1, <1>2 DEF Persist
<1>4. WriteInv'
  BY <1>1, <1>3, ControllerIsNoAgent DEF WriteInv
<1>5. LayeredInv' /\ ProgressInv' /\ FileIsFinal'
  BY <1>1 DEF PipelineInv, LayeredInv, ProgressInv, FileIsFinal
<1>6. BusyInv'
  BY <1>1, NobodyBusy DEF BusyInv, Busy
<1>7. QED BY <1>4, <1>5, <1>6 DEF PipelineInv

LEMMA LaunchInv == PipelineTypeOK /\ WavesAreLevels /\ PipelineInv /\ Launch => PipelineInv'
<1> SUFFICES ASSUME PipelineTypeOK, WavesAreLevels, PipelineInv, Launch PROVE PipelineInv'
  OBVIOUS
<1>1. /\ controller = "marking" /\ ~Writing(Controller) /\ controller' = "running"
      /\ at' = [a \in Agents |-> IF a \in Wave THEN "starting" ELSE at[a]]
      /\ UNCHANGED <<deps, phase, waves, wave, writes>>
  BY DEF Launch, dagVars, layering
<1>2. writes = {}
  BY <1>1, NobodyBusy DEF Writing
<1>3. Wave' = Wave
  BY <1>1 DEF Wave
<1>4. WriteInv'
  BY <1>1, <1>2 DEF WriteInv
<1>5. BusyInv'
  <2>1. \A a \in Agents : a \notin Wave => ~Busy(a)'
    BY <1>1, NobodyBusy DEF Busy
  <2>2. QED BY <1>1, <1>3, <2>1 DEF BusyInv
<1>6. ProgressInv'
  <2>1. ASSUME NEW i \in DOMAIN waves, NEW a \in waves[i], i # wave
        PROVE  at'[a] = at[a]
    <3>1. a \in Agents
      BY <2>1 DEF PipelineTypeOK, TypeOK
    <3>2. a \notin Wave
      BY <2>1, OneWave DEF PipelineInv
    <3>3. QED BY <1>1, <3>1, <3>2
  <2>2. wave \in Nat /\ \A i \in DOMAIN waves : i \in Nat
    BY DEF PipelineTypeOK, TypeOK
  <2>3. QED BY <1>1, <2>1, <2>2 DEF PipelineInv, ProgressInv
<1>7. LayeredInv' /\ FileIsFinal'
  BY <1>1 DEF PipelineInv, LayeredInv, FileIsFinal
<1>8. QED BY <1>4, <1>5, <1>6, <1>7 DEF PipelineInv

\* While the waves are still being found, run() has not been called.
LEMMA DagStepInv == PipelineTypeOK /\ PipelineInv /\ DagNext /\ UNCHANGED runVars => PipelineInv'
<1> SUFFICES ASSUME PipelineTypeOK, PipelineInv, DagNext, UNCHANGED runVars PROVE PipelineInv'
  OBVIOUS
<1>1. phase # "layered"
  BY DEF DagNext, Take, Detected, NextWave, Layered
<1>2. controller = "idle" /\ UNCHANGED <<controller, wave, at, writes, tracker, file>>
  BY <1>1 DEF PipelineInv, LayeredInv, runVars
<1>3. \A a \in Agents : ~Busy(a) /\ ~Busy(a)'
  BY <1>2, NobodyBusy DEF Busy
<1>4. LayeredInv' /\ ProgressInv' /\ FileIsFinal'
  BY <1>2 DEF PipelineInv, LayeredInv, ProgressInv, FileIsFinal
<1>5. WriteInv'
  BY <1>2 DEF PipelineInv, WriteInv
<1>6. QED BY <1>3, <1>4, <1>5 DEF PipelineInv, BusyInv

LEMMA PipelineStep ==
    PipelineTypeOK /\ WavesAreLevels /\ PipelineInv /\ [Next]_vars => PipelineInv'
<1> SUFFICES ASSUME PipelineTypeOK, WavesAreLevels, PipelineInv, [Next]_vars PROVE PipelineInv'
  OBVIOUS
<1>1. CASE UNCHANGED <<deps, phase, waves, controller, wave, at, writes, tracker, file>>
  BY <1>1 DEF PipelineInv, LayeredInv, ProgressInv, BusyInv, WriteInv, FileIsFinal, Busy, Wave
<1>2. CASE Abort
  BY <1>1, <1>2 DEF Abort, dagVars, layering
<1>3. CASE UNCHANGED vars
  BY <1>1, <1>3 DEF vars, dagVars, layering, runVars
<1>4. CASE ControllerStep
  BY <1>4, BeginInv, AdvanceInv, LaunchInv, MarkInv, ControllerWriteInv DEF ControllerStep
<1>5. QED BY <1>2, <1>3, <1>4, DagStepInv, AgentStepInv DEF Next

LEMMA PipelineCorrect == Spec => []PipelineInv
<1>1. Init => PipelineInv
  BY DEF Init, PipelineInv, LayeredInv, ProgressInv, BusyInv, WriteInv, FileIsFinal, Busy
<1>2. Spec => []WavesAreLevels
  BY DagUnderPipeline, LevelsCorrect, PTL
<1>3. QED BY <1>1, <1>2, PipelineStep, PipelineTypeCorrect, PTL DEF Spec
-----------------------------------------------------------------------------
\* An agent works only when everyone it waits for is through with the iteration,
\* although the controller knows waves only and never looks at the graph.
THEOREM AfterDependenciesCorrect == Spec => []AfterDependencies
<1>1. PipelineTypeOK /\ WavesAreLevels /\ PipelineInv => AfterDependencies
  <2> SUFFICES ASSUME PipelineTypeOK, WavesAreLevels, PipelineInv, NEW a \in Agents, Busy(a),
                      NEW d \in deps[a]
               PROVE  at[d] = "done"
    BY DEF AfterDependencies
  <2>1. controller = "running" /\ a \in Wave
    BY DEF PipelineInv, BusyInv
  <2>2. wave \in DOMAIN waves /\ a \in waves[wave]
    <3>1. wave > 0
      BY <2>1 DEF Wave, PipelineTypeOK, TypeOK
    <3>2. QED BY <2>1, <3>1, InWave
  <2>3. PICK j \in 1..(wave - 1) : d \in waves[j]
    BY <2>2 DEF WavesAreLevels
  <2>4. j \in DOMAIN waves /\ j < wave
    BY <2>2, <2>3 DEF PipelineTypeOK, TypeOK
  <2>5. QED BY <2>1, <2>3, <2>4 DEF PipelineInv, ProgressInv
<1>2. Spec => []WavesAreLevels
  BY DagUnderPipeline, LevelsCorrect, PTL
<1>3. QED BY <1>1, <1>2, PipelineCorrect, PipelineTypeCorrect, PTL

\* Only agents of the wave that is on are busy, and nothing is being written
\* between two iterations or after the end of run().
THEOREM WavesDoNotOverlapCorrect == Spec => []WavesDoNotOverlap
<1>1. PipelineTypeOK /\ PipelineInv => WavesDoNotOverlap
  <2> SUFFICES ASSUME PipelineTypeOK, PipelineInv PROVE WavesDoNotOverlap
    OBVIOUS
  <2>1. ASSUME controller \in {"idle", "returned", "threw"} PROVE writes = {}
    BY <2>1, NobodyBusy DEF PipelineInv, WriteInv
  <2>2. QED BY <2>1 DEF WavesDoNotOverlap, PipelineInv, BusyInv
<1>2. QED BY <1>1, PipelineCorrect, PipelineTypeCorrect, PTL

\* When run() has returned, pipeline.json holds the state it ended in, whatever
\* snapshots overtook one another on the way.
THEOREM FileIsFinalCorrect == Spec => []FileIsFinal
<1>1. PipelineInv => FileIsFinal
  BY DEF PipelineInv
<1>2. QED BY <1>1, PipelineCorrect, PTL
-----------------------------------------------------------------------------
(* Why the status is earned.  An iteration that the signal does not cut    *)
(* short goes through all waves, in which every agent is; whoever is       *)
(* through with his run has one result; and the verdict is passed when     *)
(* allResults has one result of each agent for each iteration.             *)
ResultsInv ==
    /\ controller = "idle" => \A a \in Agents : Len(results[a]) = 0
    /\ controller \in {"beginning", "marking", "running"} =>
          \A a \in Agents : Len(results[a]) = IF at[a] \in {"idle", "starting", "working"} THEN 0 ELSE 1

LengthInv == ~aborted => \A a \in Agents : Len(outcomes[a]) = iteration

VerdictIsDue ==
    /\ controller \in {"finishing", "returned"} =>
          /\ tracker.pipeline = "completed" => ~Failed /\ AllIterations
          /\ tracker.pipeline = "failed" /\ faults = 0 => Failed /\ AllIterations
    /\ controller = "aborting" => tracker.pipeline = "aborted"
    /\ controller = "failing" => tracker.pipeline = "failed" /\ faults > 0

EarnedInv == ResultsInv /\ LengthInv /\ VerdictIsDue

\* Agents do not report between the waves, and not after the last one.
LEMMA AgentStepEarned ==
    ASSUME PipelineTypeOK, PipelineInv, EarnedInv, NEW a \in Agents, AgentStep(a)
    PROVE  EarnedInv'
<1>1. Busy(a) /\ UNCHANGED controller /\ controller = "running"
  BY AgentStepShape DEF PipelineInv, BusyInv
<1>2. UNCHANGED <<iteration, outcomes, aborted>>
  BY DEF AgentStep, StartAgent, EndAgent, AgentResumes, AgentFails
<1>3. \A w \in writes : w.by = a => at[a] \in {"starting", "ending", "recording"}
  BY DEF PipelineInv, WriteInv
<1>4. \A b \in Agents : Len(results[b]) = IF at[b] \in {"idle", "starting", "working"} THEN 0 ELSE 1
  BY <1>1 DEF EarnedInv, ResultsInv
<1>5. \A b \in Agents : Len(results'[b]) = IF at'[b] \in {"idle", "starting", "working"} THEN 0 ELSE 1
  <2>1. CASE StartAgent(a)
    BY <1>4, <2>1 DEF StartAgent
  <2>2. CASE EndAgent(a)
    <3>1. PICK ok, exited \in BOOLEAN :
            /\ results' = [results EXCEPT ![a] = <<ok>>]
            /\ at' = [at EXCEPT ![a] = IF exited THEN "ending" ELSE "recording"]
      BY <2>2 DEF EndAgent
    <3>2. QED BY <1>4, <3>1 DEF PipelineTypeOK
  <2>3. ASSUME NEW w \in writes, w.by = a, AgentResumes(w)
        PROVE  \A b \in Agents : Len(results'[b]) = IF at'[b] \in {"idle", "starting", "working"} THEN 0 ELSE 1
    <3>1. at' = [at EXCEPT ![a] = IF @ = "starting" THEN "working" ELSE "done"] /\ results' = results
      BY <2>3 DEF AgentResumes
    <3>2. at[a] \in {"starting", "ending", "recording"}
      BY <1>3, <2>3
    <3>3. QED BY <1>4, <3>1, <3>2 DEF PipelineTypeOK
  <2>4. ASSUME NEW w \in writes, w.by = a, AgentFails(w)
        PROVE  \A b \in Agents : Len(results'[b]) = IF at'[b] \in {"idle", "starting", "working"} THEN 0 ELSE 1
    <3>1. /\ results' = [results EXCEPT ![a] = <<FALSE>>]
          /\ \/ at' = [at EXCEPT ![a] = "recording"]
             \/ at' = [at EXCEPT ![a] = "done"]
      BY <2>4 DEF AgentFails
    <3>2. QED BY <1>4, <3>1 DEF PipelineTypeOK
  <2>5. QED BY <2>1, <2>2, <2>3, <2>4 DEF AgentStep
<1>6. ResultsInv'
  BY <1>1, <1>5 DEF ResultsInv
<1>7. LengthInv'
  BY <1>2 DEF EarnedInv, LengthInv
<1>8. VerdictIsDue'
  BY <1>1 DEF VerdictIsDue
<1>9. QED BY <1>6, <1>7, <1>8 DEF EarnedInv

\* The head of the loop passes the verdict.
LEMMA BeginEarned == PipelineTypeOK /\ EarnedInv /\ Begin => EarnedInv'
<1> SUFFICES ASSUME PipelineTypeOK, EarnedInv, Begin PROVE EarnedInv'
  OBVIOUS
<1>1. /\ controller = "idle" /\ at' = [a \in Agents |-> "idle"]
      /\ UNCHANGED <<iteration, targetCount, outcomes, results, aborted, faults>>
  BY DEF Begin
<1>2. Failed' = Failed /\ AllIterations' = AllIterations
  BY <1>1 DEF Failed, AllIterations
<1>3. \A a \in Agents : Len(results[a]) = 0
  BY <1>1 DEF EarnedInv, ResultsInv
<1>4. controller' \in {"finishing", "aborting", "beginning"}
  BY DEF Begin
<1>5. ResultsInv'
  BY <1>1, <1>3, <1>4 DEF ResultsInv
<1>6. LengthInv'
  BY <1>1 DEF EarnedInv, LengthInv
<1>7. \A s \in {"failed", "completed", "aborted"} : SetPipeline(s).pipeline = s
  BY DEF SetPipeline, PipelineTypeOK, Trackers
<1>8. VerdictIsDue'
  <2>1. CASE AllIterations /\ Failed
    <3>1. controller' = "finishing" /\ tracker'.pipeline = "failed"
      BY <1>7, <2>1 DEF Begin, Persist
    <3>2. QED BY <1>2, <2>1, <3>1 DEF VerdictIsDue
  <2>2. CASE AllIterations /\ ~Failed
    <3>1. controller' = "finishing" /\ tracker'.pipeline = "completed"
      BY <1>7, <2>2 DEF Begin, Persist
    <3>2. QED BY <1>2, <2>2, <3>1 DEF VerdictIsDue
  <2>3. CASE ~AllIterations
    <3>1. \/ controller' = "aborting" /\ tracker'.pipeline = "aborted"
          \/ controller' = "beginning"
      BY <1>7, <2>3 DEF Begin, Persist
    <3>2. QED BY <3>1 DEF VerdictIsDue
  <2>4. QED BY <2>1, <2>2, <2>3
<1>9. QED BY <1>5, <1>6, <1>8 DEF EarnedInv

\* An iteration that is over without the signal has a result of everyone.
LEMMA AdvanceEarned ==
    PipelineTypeOK /\ Covered /\ PipelineInv /\ EarnedInv /\ Advance => EarnedInv'
<1> SUFFICES ASSUME PipelineTypeOK, Covered, PipelineInv, EarnedInv, Advance PROVE EarnedInv'
  OBVIOUS
<1>1. /\ controller = "running" /\ WaveDone
      /\ UNCHANGED <<at, aborted>>
  BY DEF Advance
<1>2. \A a \in Agents : Len(results[a]) = IF at[a] \in {"idle", "starting", "working"} THEN 0 ELSE 1
  BY <1>1 DEF EarnedInv, ResultsInv
<1>3. CASE wave < Len(waves) /\ ~aborted
  <2>1. controller' = "marking" /\ UNCHANGED <<iteration, outcomes, results>>
    BY <1>3 DEF Advance
  <2>2. ResultsInv'
    BY <1>1, <1>2, <2>1 DEF ResultsInv
  <2>3. QED BY <1>1, <2>1, <2>2 DEF EarnedInv, LengthInv, VerdictIsDue
<1>4. CASE ~(wave < Len(waves) /\ ~aborted)
  <2>1. /\ controller' = "idle" /\ iteration' = iteration + 1
        /\ outcomes' = [a \in Agents |-> outcomes[a] \o results[a]]
        /\ results' = [a \in Agents |-> << >>]
    BY <1>4 DEF Advance
  <2>2. ResultsInv'
    BY <2>1 DEF ResultsInv
  <2>3. ASSUME ~aborted, NEW a \in Agents PROVE at[a] = "done"
    <3>1. ~(wave < Len(waves)) /\ wave \in Nat /\ Len(waves) \in Nat
      BY <1>4, <2>3 DEF PipelineTypeOK, TypeOK
    <3>2. PICK i \in DOMAIN waves : a \in waves[i]
      BY <1>1 DEF Covered, PipelineInv, LayeredInv
    <3>3. i \in 1..Len(waves)
      BY DEF PipelineTypeOK, TypeOK
    <3>4. i < wave \/ i = wave
      BY <3>1, <3>3 DEF PipelineTypeOK
    <3>5. CASE i < wave
      BY <1>1, <3>2, <3>5 DEF PipelineInv, ProgressInv
    <3>6. CASE i = wave
      <4>1. wave > 0
        BY <3>3, <3>6
      <4>2. Wave = waves[wave]
        BY <4>1, InWave
      <4>3. QED BY <1>1, <3>2, <3>6, <4>2 DEF WaveDone
    <3>7. QED BY <3>4, <3>5, <3>6
  <2>4. ASSUME ~aborted, NEW a \in Agents PROVE Len(outcomes'[a]) = iteration + 1
    <3>1. Len(results[a]) = 1 /\ Len(outcomes[a]) = iteration
      BY <1>2, <2>3, <2>4 DEF EarnedInv, LengthInv
    <3>2. outcomes[a] \in Seq(BOOLEAN) /\ results[a] \in Seq(BOOLEAN)
      BY DEF PipelineTypeOK
    <3>3. outcomes'[a] = outcomes[a] \o results[a]
      BY <2>1
    <3>4. Len(outcomes[a] \o results[a]) = Len(outcomes[a]) + Len(results[a])
      BY <3>2, ConcatProperties
    <3>5. QED BY <3>1, <3>3, <3>4
  <2>5. LengthInv'
    BY <1>1, <2>1, <2>4 DEF LengthInv
  <2>6. VerdictIsDue'
    BY <2>1 DEF VerdictIsDue
  <2>7. QED BY <2>2, <2>5, <2>6 DEF EarnedInv
<1>5. QED BY <1>3, <1>4

LEMMA ControllerWriteEarned ==
    ASSUME PipelineTypeOK, EarnedInv, NEW w \in writes,
           ControllerResumes(w) \/ ControllerFails(w)
    PROVE  EarnedInv'
<1>1. UNCHANGED <<iteration, targetCount, outcomes, results, at, aborted>>
  BY DEF ControllerResumes, ControllerFails
<1>2. LengthInv'
  BY <1>1 DEF EarnedInv, LengthInv
<1>3. Failed' = Failed /\ AllIterations' = AllIterations
  BY <1>1 DEF Failed, AllIterations
<1>4. CASE ControllerResumes(w)
  <2>1. /\ UNCHANGED <<tracker, faults>>
        /\ \/ controller = "beginning" /\ controller' = "running"
           \/ controller \in {"finishing", "aborting", "failing"} /\ controller' = "returned"
           \/ controller \notin {"beginning", "finishing", "aborting", "failing"} /\ controller' = controller
    BY <1>4 DEF ControllerResumes, Succeeds
  <2>2. ResultsInv'
    BY <1>1, <2>1 DEF EarnedInv, ResultsInv
  <2>3. VerdictIsDue'
    <3>1. faults \in Nat
      BY DEF PipelineTypeOK
    <3>2. QED BY <1>3, <2>1, <3>1 DEF EarnedInv, VerdictIsDue
  <2>4. QED BY <1>2, <2>2, <2>3 DEF EarnedInv
<1>5. CASE ControllerFails(w)
  <2>1. \/ controller' = "threw"
        \/ controller' = "failing" /\ tracker' = SetPipeline("failed") /\ faults' = faults + 1
    BY <1>5 DEF ControllerFails, FailsToWrite
  <2>2. SetPipeline("failed").pipeline = "failed"
    BY DEF SetPipeline, PipelineTypeOK, Trackers
  <2>3. faults \in Nat
    BY DEF PipelineTypeOK
  <2>4. ResultsInv' /\ VerdictIsDue'
    BY <2>1, <2>2, <2>3 DEF ResultsInv, VerdictIsDue
  <2>5. QED BY <1>2, <2>4 DEF EarnedInv
<1>6. QED BY <1>4, <1>5

LEMMA EarnedStep ==
    PipelineTypeOK /\ Covered /\ PipelineInv /\ EarnedInv /\ [Next]_vars => EarnedInv'
<1> SUFFICES ASSUME PipelineTypeOK, Covered, PipelineInv, EarnedInv, [Next]_vars PROVE EarnedInv'
  OBVIOUS
<1>1. CASE UNCHANGED runVars
  BY <1>1 DEF runVars, EarnedInv, ResultsInv, LengthInv, VerdictIsDue, Failed, AllIterations
<1>2. CASE Abort
  BY <1>2 DEF Abort, EarnedInv, ResultsInv, LengthInv, VerdictIsDue, Failed, AllIterations
<1>3. ASSUME NEW a \in Agents, Mark(a) PROVE EarnedInv'
  BY <1>3 DEF Mark, EarnedInv, ResultsInv, LengthInv, VerdictIsDue
<1>4. CASE Launch
  <2>1. /\ controller = "marking" /\ controller' = "running"
        /\ at' = [a \in Agents |-> IF a \in Wave THEN "starting" ELSE at[a]]
        /\ UNCHANGED <<iteration, outcomes, results, aborted>>
    BY <1>4 DEF Launch
  <2>2. ASSUME NEW a \in Wave PROVE at[a] = "idle"
    <3>1. wave > 0
      BY <2>2 DEF Wave, PipelineTypeOK, TypeOK
    <3>2. QED BY <2>1, <2>2, <3>1, InWave DEF PipelineInv, ProgressInv
  <2>3. ResultsInv'
    BY <2>1, <2>2 DEF EarnedInv, ResultsInv
  <2>4. QED BY <2>1, <2>3 DEF EarnedInv, LengthInv, VerdictIsDue
<1>5. QED
  BY <1>1, <1>2, <1>3, <1>4, BeginEarned, AdvanceEarned, ControllerWriteEarned, AgentStepEarned
     DEF Next, ControllerStep, vars

\* "completed" is said only of a pipeline all of whose agents succeeded in all
\* iterations, and "failed" only where somebody failed, unless the signal came:
\* the verdict counts what allResults holds, and that nothing is missing there
\* rests on the waves (executeAgents, finalStatus of run()).
THEOREM StatusIsEarnedCorrect == Spec => []StatusIsEarned
<1>1. Init => EarnedInv
  BY DEF Init, EarnedInv, ResultsInv, LengthInv, VerdictIsDue
<1>2. PipelineTypeOK /\ EarnedInv => StatusIsEarned
  <2> SUFFICES ASSUME PipelineTypeOK, EarnedInv, controller = "returned", ~aborted
               PROVE  /\ tracker.pipeline = "completed" =>
                            \A a \in Agents : outcomes[a] = [i \in 1..targetCount |-> TRUE]
                      /\ tracker.pipeline = "failed" /\ faults = 0 =>
                            \E a \in Agents : \E i \in 1..targetCount : ~outcomes[a][i]
    BY DEF StatusIsEarned
  <2>1. ASSUME AllIterations, NEW a \in Agents
        PROVE  /\ outcomes[a] \in Seq(BOOLEAN)
               /\ DOMAIN outcomes[a] = 1..targetCount
               /\ outcomes[a] \in [1..targetCount -> BOOLEAN]
    BY <2>1 DEF EarnedInv, LengthInv, AllIterations, PipelineTypeOK
  <2>2. ASSUME tracker.pipeline = "completed", NEW a \in Agents
        PROVE  outcomes[a] = [i \in 1..targetCount |-> TRUE]
    <3>1. ~Failed /\ AllIterations
      BY <2>2 DEF EarnedInv, VerdictIsDue
    <3>2. \A i \in 1..targetCount : outcomes[a][i] = TRUE
      BY <2>1, <3>1 DEF Failed
    <3>3. QED BY <2>1, <3>1, <3>2
  <2>3. ASSUME tracker.pipeline = "failed", faults = 0
        PROVE  \E a \in Agents : \E i \in 1..targetCount : ~outcomes[a][i]
    <3>1. Failed /\ AllIterations
      BY <2>3 DEF EarnedInv, VerdictIsDue
    <3>2. PICK a \in Agents : FALSE \in {outcomes[a][i] : i \in DOMAIN outcomes[a]}
      BY <3>1 DEF Failed
    <3>3. PICK i \in 1..targetCount : outcomes[a][i] = FALSE
      BY <2>1, <3>1, <3>2
    <3>4. QED BY <3>3
  <2>4. QED BY <2>2, <2>3
<1>3. Spec => []Covered
  BY DagUnderPipeline, CoveredCorrect, PTL
<1>4. QED BY <1>1, <1>2, <1>3, EarnedStep, PipelineCorrect, PipelineTypeCorrect, PTL DEF Spec
=============================================================================
