-------------------------- MODULE AsyncJobs_proofs ---------------------------
(***************************************************************************)
(* Proofs about AsyncJobs for any numbers of jobs, polls and failures.     *)
(***************************************************************************)
EXTENDS AsyncJobs, FiniteSetTheorems, SequenceTheorems, WellFoundedInduction, TLAPS

\* The groups of variables that actions leave alone are always expanded.
USE DEF vars, jobVars, tables, deliveries, polling, disposal, history
-----------------------------------------------------------------------------
(***************************************************************************)
(* Lists.                                                                  *)
(***************************************************************************)
\* A non-empty set of numbers has a least member, a bounded one a greatest.
LEMMA LeastExists ==
    ASSUME NEW S \in SUBSET Nat, S # {}
    PROVE  \E k \in S : \A m \in S : k <= m
<1>1. PICK k \in S : \A m \in S : ~ (<<m, k>> \in OpToRel(<, Nat))
  BY WFMin, NatLessThanWellFounded, Zenon
<1>2. \A m \in S : ~(m < k)
  BY <1>1 DEF OpToRel
<1>3. QED BY <1>2

LEMMA GreatestExists ==
    ASSUME NEW n \in Nat, NEW S \in SUBSET (1..n), S # {}
    PROVE  \E k \in S : \A m \in S : m <= k
<1> DEFINE T == {n - k : k \in S}
<1>1. \A k \in S : k \in Nat /\ n - k \in Nat
  OBVIOUS
<1>2. T \in SUBSET Nat /\ T # {}
  BY <1>1
<1>3. PICK x \in T : \A y \in T : x <= y
  BY <1>2, LeastExists
<1>4. PICK k \in S : x = n - k
  OBVIOUS
<1>5. ASSUME NEW m \in S PROVE m <= k
  <2>1. n - k <= n - m
    BY <1>3, <1>4
  <2>2. QED BY <1>1, <2>1
<1>6. QED BY <1>5

\* Every rank up to the size of a set of numbers is taken by a member.
LEMMA RankExists ==
    ASSUME NEW N \in Nat, NEW is \in SUBSET (1..N),
           NEW n \in 1..Cardinality(is)
    PROVE  \E i \in is : Cardinality({k \in is : k <= i}) = n
<1> DEFINE R(i) == {k \in is : k <= i}
           A == {i \in is : Cardinality(R(i)) >= n}
<1>1. IsFiniteSet(is) /\ Cardinality(is) \in Nat
  <2>1. IsFiniteSet(1..N)
    BY FS_Interval
  <2>2. QED BY <2>1, FS_Subset, FS_CardinalityType
<1>2. is # {}
  BY FS_EmptySet
<1>3. \A i \in is : IsFiniteSet(R(i)) /\ Cardinality(R(i)) \in Nat
  <2>1. \A i \in is : R(i) \in SUBSET is
    OBVIOUS
  <2>2. QED BY <1>1, <2>1, FS_Subset, FS_CardinalityType
<1>4. PICK m \in is : \A k \in is : k <= m
  BY <1>2, GreatestExists
<1>5. R(m) = is
  BY <1>4
<1>6. A \in SUBSET Nat /\ A # {}
  <2>1. Cardinality(R(m)) >= n
    BY <1>5, <1>1
  <2>2. m \in A
    BY <2>1
  <2>3. A \subseteq is /\ is \subseteq Nat
    OBVIOUS
  <2>4. QED BY <2>2, <2>3, Zenon
<1>7. PICK a \in A : \A i \in A : a <= i
  BY <1>6, LeastExists
<1>8. PICK B : B = R(a) \ {a}
  OBVIOUS
<1>9. IsFiniteSet(B) /\ Cardinality(B) = Cardinality(R(a)) - 1
  BY <1>3, <1>8, FS_RemoveElement
<1>10. CASE Cardinality(R(a)) = n
  BY <1>10
<1>11. CASE Cardinality(R(a)) # n
  <2>1. Cardinality(B) \in Nat /\ Cardinality(B) >= n
    BY <1>3, <1>9, <1>11
  <2>2. B # {}
    BY <2>1, FS_EmptySet
  <2>3. B \in SUBSET (1..N) /\ B \subseteq is
    BY <1>8
  <2>4. PICK b \in B : \A k \in B : k <= b
    BY <2>2, <2>3, GreatestExists
  <2>5. b \in is /\ b < a
    BY <1>8, <2>3, <2>4
  <2>6. R(b) = B
    <3>1. is \subseteq Nat /\ a \in Nat
      OBVIOUS
    <3>2. \A k \in is : k <= b => k \in B
      BY <1>8, <2>5, <3>1
    <3>3. \A k \in B : k \in is /\ k <= b
      BY <2>3, <2>4
    <3>4. QED BY <3>2, <3>3
  <2>7. b \in A
    BY <2>1, <2>5, <2>6
  <2>8. QED BY <1>7, <2>5, <2>7
<1>12. QED BY <1>10, <1>11

\* A list with every member once.
Distinct(s) == \A m, n \in DOMAIN s : s[m] = s[n] => m = n

LEMMA KeptProperties ==
    ASSUME NEW T, NEW s \in Seq(T), NEW S
    PROVE  /\ Kept(s, S) \in Seq(T)
           /\ ToSet(Kept(s, S)) \subseteq ToSet(s) \cap S
           /\ Distinct(s) => Distinct(Kept(s, S))
<1>1. PICK is : is = {i \in DOMAIN s : s[i] \in S}
  OBVIOUS
<1>2. PICK N \in Nat : N = Len(s)
  OBVIOUS
<1>3. is \in SUBSET (1..N)
  BY <1>1, <1>2
<1>4. PICK size \in Nat : size = Cardinality(is)
  <2>1. IsFiniteSet(1..N)
    BY FS_Interval
  <2>2. QED BY <1>3, <2>1, FS_Subset, FS_CardinalityType
<1> DEFINE at(n) == CHOOSE i \in is : Cardinality({k \in is : k <= i}) = n
<1>5. \A n \in 1..size : at(n) \in is /\ Cardinality({k \in is : k <= at(n)}) = n
  <2>1. \A n \in 1..size : \E i \in is : Cardinality({k \in is : k <= i}) = n
    BY <1>3, <1>4, RankExists
  <2>2. QED BY <2>1
<1>6. PICK t : t = Kept(s, S)
  OBVIOUS
<1>7. t = [n \in 1..size |-> s[at(n)]]
  BY <1>1, <1>4, <1>6 DEF Kept
<1> HIDE DEF at
<1>8. \A n \in 1..size : at(n) \in DOMAIN s /\ s[at(n)] \in T \cap S
  <2>1. \A i \in is : i \in DOMAIN s /\ s[i] \in S
    BY <1>1
  <2>2. \A i \in DOMAIN s : s[i] \in T
    OBVIOUS
  <2>3. QED BY <1>5, <2>1, <2>2
<1>9. t \in Seq(T) /\ DOMAIN t = 1..size
  BY <1>4, <1>7, <1>8
<1>10. ToSet(t) \subseteq ToSet(s) \cap S
  BY <1>7, <1>8, <1>9 DEF ToSet
<1>11. ASSUME Distinct(s) PROVE Distinct(t)
  <2>1. ASSUME NEW m \in 1..size, NEW n \in 1..size, t[m] = t[n]
        PROVE  m = n
    <3>1. at(m) = at(n)
      BY <1>7, <1>8, <1>11, <2>1 DEF Distinct
    <3>2. QED BY <1>5, <3>1
  <2>2. QED BY <1>9, <2>1 DEF Distinct
<1>12. QED BY <1>6, <1>9, <1>10, <1>11

\* One more member, one of its own.
LEMMA AppendedList ==
    ASSUME NEW T, NEW s \in Seq(T), NEW e \in T
    PROVE  /\ Append(s, e) \in Seq(T)
           /\ ToSet(Append(s, e)) \subseteq ToSet(s) \cup {e}
           /\ Distinct(s) /\ e \notin ToSet(s) => Distinct(Append(s, e))
<1>1. PICK t : t = Append(s, e)
  OBVIOUS
<1>2. PICK N \in Nat : N = Len(s)
  OBVIOUS
<1>3. /\ t \in Seq(T) /\ DOMAIN s = 1..N /\ DOMAIN t = 1..(N + 1)
      /\ \A i \in 1..N : t[i] = s[i]
      /\ t[N + 1] = e
  BY <1>1, <1>2, AppendProperties
<1>4. ToSet(t) \subseteq ToSet(s) \cup {e}
  <2>1. \A i \in 1..(N + 1) : i \in 1..N \/ i = N + 1
    OBVIOUS
  <2>2. QED BY <1>3, <2>1 DEF ToSet
<1>5. ASSUME Distinct(s), e \notin ToSet(s) PROVE Distinct(t)
  <2>1. \A i \in 1..N : s[i] # e
    BY <1>3, <1>5 DEF ToSet
  <2>2. \A i \in 1..(N + 1) : i \in 1..N \/ i = N + 1
    OBVIOUS
  <2>3. QED BY <1>3, <1>5, <2>1, <2>2 DEF Distinct
<1>6. QED BY <1>1, <1>3, <1>4, <1>5

\* The end of a list from a place on.
LEMMA RestOfList ==
    ASSUME NEW T, NEW s \in Seq(T), NEW m \in 1..(Len(s) + 1)
    PROVE  /\ SubSeq(s, m, Len(s)) \in Seq(T)
           /\ ToSet(SubSeq(s, m, Len(s))) \subseteq ToSet(s)
           /\ Distinct(s) =>
                 /\ Distinct(SubSeq(s, m, Len(s)))
                 /\ \A i \in 1..(m - 1) : s[i] \notin ToSet(SubSeq(s, m, Len(s)))
<1>1. PICK t : t = SubSeq(s, m, Len(s))
  OBVIOUS
<1>2. PICK N \in Nat : N = Len(s)
  OBVIOUS
<1>3. /\ t \in Seq(T) /\ DOMAIN s = 1..N /\ DOMAIN t = 1..(N - m + 1)
      /\ \A i \in 1..(N - m + 1) : t[i] = s[m + i - 1]
  BY <1>1, <1>2, SubSeqProperties
<1>4. \A i \in 1..(N - m + 1) : m + i - 1 \in 1..N /\ m + i - 1 >= m
  BY <1>2
<1>5. ToSet(t) \subseteq ToSet(s)
  BY <1>3, <1>4 DEF ToSet
<1>6. ASSUME Distinct(s)
      PROVE  Distinct(t) /\ \A i \in 1..(m - 1) : s[i] \notin ToSet(t)
  <2>1. ASSUME NEW i \in 1..(N - m + 1), NEW j \in 1..(N - m + 1), t[i] = t[j]
        PROVE  i = j
    <3>1. m + i - 1 = m + j - 1
      BY <1>3, <1>4, <1>6, <2>1 DEF Distinct
    <3>2. QED BY <1>2, <3>1
  <2>2. ASSUME NEW i \in 1..(m - 1), NEW j \in 1..(N - m + 1), s[i] = t[j]
        PROVE  FALSE
    <3>1. i \in 1..N /\ i < m
      BY <1>2
    <3>2. i = m + j - 1
      BY <1>3, <1>4, <1>6, <2>2, <3>1 DEF Distinct
    <3>3. QED BY <1>4, <3>1, <3>2
  <2>3. QED BY <1>3, <2>1, <2>2 DEF Distinct, ToSet
<1>7. QED BY <1>1, <1>3, <1>5, <1>6
-----------------------------------------------------------------------------
(***************************************************************************)
(* The queue of deliveries.  Whatever takes deliveries out of it, the      *)
(* loop, a session that drains its own, or an acknowledgement, leaves a    *)
(* part of it, and hands over only what it has taken out.                  *)
(***************************************************************************)
Flights == {"no", "loop", "drain"}

Takes(q, fl) ==
    /\ queue' \in Seq(Jobs) /\ ToSet(queue') \subseteq ToSet(q)
    /\ Distinct(q) => Distinct(queue')
    /\ flight' \in [Jobs -> Flights]
    /\ \A j \in Jobs :
          \/ flight'[j] = fl[j]
          \/ j \in ToSet(q) /\ (Distinct(q) => j \notin ToSet(queue'))
    /\ loop' \in {"none", "sleep", "await", "exit"} /\ loopJob' \in Jobs \cup {None}

\* queue.splice and the like: a list is taken over as it is.
LEMMA TakesAll ==
    ASSUME NEW q \in Seq(Jobs), NEW fl \in [Jobs -> Flights],
           queue' = q, flight' = fl,
           loop' \in {"none", "sleep", "await", "exit"}, loopJob' \in Jobs \cup {None}
    PROVE  Takes(q, fl)
BY DEF Takes

LEMMA TakesNone ==
    ASSUME NEW q \in Seq(Jobs), NEW fl \in [Jobs -> Flights],
           queue' = << >>, flight' = fl,
           loop' \in {"none", "sleep", "await", "exit"}, loopJob' \in Jobs \cup {None}
    PROVE  Takes(q, fl)
<1>1. << >> \in Seq(Jobs) /\ DOMAIN << >> = {}
  OBVIOUS
<1>2. ToSet(<< >>) = {} /\ Distinct(<< >>)
  BY <1>1 DEF ToSet, Distinct
<1>3. QED BY <1>1, <1>2 DEF Takes

\* The loop waits for, or hands over, the delivery at a place of the queue.
LEMMA TakesFrom ==
    ASSUME NEW q \in Seq(Jobs), NEW fl \in [Jobs -> Flights], NEW first \in DOMAIN q,
           loop' \in {"none", "sleep", "await", "exit"}, loopJob' \in Jobs \cup {None},
           \/ queue' = SubSeq(q, first, Len(q)) /\ flight' = fl
           \/ /\ queue' = SubSeq(q, first + 1, Len(q))
              /\ flight' = [fl EXCEPT ![q[first]] = "loop"]
    PROVE  Takes(q, fl)
<1>1. first \in 1..(Len(q) + 1) /\ first + 1 \in 1..(Len(q) + 1)
  OBVIOUS
<1>2. PICK j \in Jobs : j = q[first]
  OBVIOUS
<1>3. CASE queue' = SubSeq(q, first, Len(q)) /\ flight' = fl
  BY <1>1, <1>3, RestOfList DEF Takes
<1>4. CASE queue' = SubSeq(q, first + 1, Len(q)) /\ flight' = [fl EXCEPT ![j] = "loop"]
  <2>1. PICK rest : rest = SubSeq(q, first + 1, Len(q))
    OBVIOUS
  <2>2. /\ rest \in Seq(Jobs) /\ ToSet(rest) \subseteq ToSet(q)
        /\ Distinct(q) => Distinct(rest) /\ \A i \in 1..(first + 1 - 1) : q[i] \notin ToSet(rest)
    BY <1>1, <2>1, RestOfList
  <2>3. first \in 1..(first + 1 - 1)
    BY <1>1
  <2>4. Distinct(q) => j \notin ToSet(rest)
    BY <1>2, <2>2, <2>3
  <2>5. j \in ToSet(q)
    BY <1>2 DEF ToSet
  <2>6. flight' \in [Jobs -> Flights] /\ \A k \in Jobs : k # j => flight'[k] = fl[k]
    BY <1>4 DEF Flights
  <2>7. QED BY <1>4, <2>1, <2>2, <2>4, <2>5, <2>6 DEF Takes
<1>5. QED BY <1>2, <1>3, <1>4

LEMMA RunLoopTakes ==
    ASSUME NEW q \in Seq(Jobs), NEW fl \in [Jobs -> Flights], RunLoop(q, fl)
    PROVE  Takes(q, fl)
<1>1. CASE loop' = "exit" /\ loopJob' = None /\ queue' = << >> /\ flight' = fl
  BY <1>1, TakesNone
<1>2. ASSUME NEW first \in DOMAIN q,
             \/ /\ loop' = "sleep" /\ loopJob' = q[first]
                /\ queue' = SubSeq(q, first, Len(q)) /\ flight' = fl
             \/ HandOver(q[first], SubSeq(q, first + 1, Len(q)), fl)
      PROVE  Takes(q, fl)
  <2>1. loop' \in {"none", "sleep", "await", "exit"} /\ loopJob' \in Jobs \cup {None}
    BY <1>2 DEF HandOver
  <2>2. \/ queue' = SubSeq(q, first, Len(q)) /\ flight' = fl
        \/ /\ queue' = SubSeq(q, first + 1, Len(q))
           /\ flight' = [fl EXCEPT ![q[first]] = "loop"]
    BY <1>2 DEF HandOver
  <2>3. QED BY <2>1, <2>2, TakesFrom
<1>3. QED BY <1>1, <1>2 DEF RunLoop

LoopType == loop \in {"none", "sleep", "await", "exit"} /\ loopJob \in Jobs \cup {None}

LEMMA EnsureLoopTakes ==
    ASSUME LoopType, NEW q \in Seq(Jobs), NEW fl \in [Jobs -> Flights], EnsureLoop(q, fl)
    PROVE  Takes(q, fl)
BY RunLoopTakes, TakesAll DEF EnsureLoop, LoopType

LEMMA AcknowledgeTakes ==
    ASSUME LoopType, queue \in Seq(Jobs), flight \in [Jobs -> Flights],
           NEW is, NEW w, Acknowledge(is, w)
    PROVE  /\ Takes(queue, flight) /\ flight' = flight
           /\ \A j \in ToSet(queue') : j \in Jobs /\ id[j] \notin suppressed'
<1>1. PICK S : S = {j \in Jobs : id[j] \notin suppressed \cup is \cup w}
  OBVIOUS
<1>2. queue' = Kept(queue, S) /\ UNCHANGED <<flight, loop, loopJob>>
      /\ suppressed' = suppressed \cup is
  BY <1>1 DEF Acknowledge
<1>3. /\ queue' \in Seq(Jobs) /\ ToSet(queue') \subseteq ToSet(queue) \cap S
      /\ Distinct(queue) => Distinct(queue')
  BY <1>2, KeptProperties
<1>4. QED BY <1>1, <1>2, <1>3 DEF Takes, LoopType
-----------------------------------------------------------------------------
(***************************************************************************)
(* Types, and what every step does to the deliveries.                      *)
(***************************************************************************)
Born == 1..(nextJob - 1)

JobType ==
    /\ nextJob \in 1..(MaxJobs + 1)
    /\ id \in [Jobs -> Ids \cup {None}]
    /\ status \in [Jobs -> {"unborn", "running", "finished", "cancelled"}]
    /\ \A j \in Jobs : id[j] = None <=> status[j] = "unborn"
    /\ \A j \in Jobs : status[j] = "unborn" <=> j \notin Born
    /\ \A j \in Jobs : status[j] = "finished" => j \in over
    /\ \A j \in over : status[j] # "running"
PartiesType ==
    /\ over \subseteq Born /\ waiter \subseteq Born /\ shown \subseteq Born
    /\ raced \in [Polls -> SUBSET Born] /\ tracked \in [Polls -> SUBSET Born]
    /\ disposing \in {"no", "waiting", "draining", "done"} /\ awaited \subseteq Jobs
TableType ==
    /\ jobAt \in [Ids -> Jobs \cup {None}]
    /\ \A i \in Ids : jobAt[i] # None => id[jobAt[i]] = i
    /\ suppressed \subseteq Ids /\ watched \subseteq Ids /\ timers \subseteq Ids
DeliveryType ==
    /\ queue \in Seq(Jobs) /\ flight \in [Jobs -> Flights] /\ LoopType
    /\ retried \subseteq Jobs /\ failures \in 0..MaxFailures
    /\ told \in [Jobs -> Nat]
TypeInv == JobType /\ PartiesType /\ TableType /\ DeliveryType

\* A result is queued once its job is over, and again when its hand-over has
\* failed; the session is given it by a hand-over.
DeliveryStep ==
    /\ over \subseteq over'
    /\ \/ Takes(queue, flight) /\ told' = told
       \/ \E j \in Jobs \ over :
             /\ j \in over' /\ ~Suppressed(j)
             /\ Takes(Append(queue, j), flight) /\ told' = told
       \/ \E j \in Jobs :
             /\ flight[j] # "no"
             /\ \/ /\ Takes(queue, [flight EXCEPT ![j] = "no"])
                   /\ told' = told \/ (Wanted(j) /\ told' = [told EXCEPT ![j] = @ + 1])
                \/ /\ Takes(Append(queue, j), [flight EXCEPT ![j] = "no"])
                   /\ ~Suppressed(j) /\ told' = told

\* The jobs listed, and those of any ids, are jobs of theirs.
LEMMA BornFacts ==
    ASSUME TypeInv
    PROVE  /\ nextJob \in Nat /\ Born \subseteq Jobs /\ MaxJobs \in Nat
           /\ Listed \subseteq Born /\ Running \subseteq Listed
           /\ \A j \in Born : id[j] \in Ids
           /\ \A js \in SUBSET Born : IdsOf(js) \subseteq Ids
           /\ \A j \in Listed : jobAt[id[j]] = j
<1>1. nextJob \in Nat /\ MaxJobs \in Nat /\ Born \subseteq Jobs
  BY ConstantsAssumption DEF TypeInv, JobType, Born, Jobs
<1>2. \A j \in Born : id[j] \in Ids
  BY <1>1 DEF TypeInv, JobType
<1>3. ASSUME NEW i \in Ids, jobAt[i] # None
      PROVE  jobAt[i] \in Born /\ id[jobAt[i]] = i
  <2>1. jobAt[i] \in Jobs /\ id[jobAt[i]] = i /\ i # None
    BY <1>1, <1>3 DEF TypeInv, TableType, Ids, None
  <2>2. QED BY <2>1 DEF TypeInv, JobType
<1>4. Listed \subseteq Born /\ \A j \in Listed : jobAt[id[j]] = j
  BY <1>3 DEF Listed
<1>5. \A js \in SUBSET Born : IdsOf(js) \subseteq Ids
  BY <1>2 DEF IdsOf
<1>6. QED BY <1>1, <1>2, <1>4, <1>5 DEF Running

\* #resolveJobId finds an id that is not listed.
LEMMA NewIdIsFree ==
    ASSUME TypeInv, nextJob <= MaxJobs
    PROVE  NewId \in Ids /\ jobAt[NewId] = None
<1>1. nextJob \in Nat /\ Born \subseteq Jobs /\ MaxJobs \in Nat /\ Listed \subseteq Born
  BY BornFacts
<1>2. ASSUME FreeIds = {} PROVE FALSE
  <2>1. \A i \in Ids : jobAt[i] \in Born /\ id[jobAt[i]] = i
    BY <1>1, <1>2 DEF FreeIds, Listed, TypeInv, TableType
  <2>2. PICK f : f = [i \in Ids |-> jobAt[i]]
    OBVIOUS
  <2>3. f \in [Ids -> Born] /\ \A i, k \in Ids : f[i] = f[k] => i = k
    BY <2>1, <2>2
  <2>4. f \in Injection(Ids, Born)
    BY <2>3 DEF Injection, IsInjective
  <2>5. /\ IsFiniteSet(Born) /\ Cardinality(Born) = nextJob - 1
        /\ IsFiniteSet(Ids) /\ Cardinality(Ids) = MaxJobs
    <3>1. nextJob - 1 \in Int /\ 1 \in Int /\ MaxJobs \in Int /\ nextJob - 1 >= 0
      BY <1>1 DEF TypeInv, JobType
    <3>2. QED BY <1>1, <3>1, FS_Interval DEF Born, Ids
  <2>6. Cardinality(Ids) <= Cardinality(Born)
    BY <2>4, <2>5, FS_Injection
  <2>7. QED BY <1>1, <2>5, <2>6
<1>3. FreeIds \in SUBSET Nat
  BY <1>1 DEF FreeIds, Ids
<1>4. NewId \in FreeIds
  <2>1. \E i \in FreeIds : \A k \in FreeIds : i <= k
    BY <1>2, <1>3, LeastExists
  <2>2. QED BY <2>1 DEF NewId
<1>5. QED BY <1>4 DEF FreeIds

\* What a step needs to show about the queue, to keep its types.
LEMMA TakesType ==
    ASSUME NEW q, NEW fl, Takes(q, fl),
           retried' \subseteq Jobs, failures' \in 0..MaxFailures, told' \in [Jobs -> Nat]
    PROVE  DeliveryType'
BY DEF Takes, DeliveryType, LoopType

LEMMA QueueKept ==
    ASSUME TypeInv, UNCHANGED <<deliveries, told>>
    PROVE  Takes(queue, flight)
BY TakesAll DEF TypeInv, DeliveryType, LoopType

\* Steps of the jobs and of those that wait for them.
LEMMA JobStepType ==
    ASSUME TypeInv,
           NEW j \in Jobs,
           \/ Register \/ JobEnds(j) \/ Cancel(j) \/ Collect(j) \/ Background(j) \/ AbortWait(j)
    PROVE  TypeInv' /\ DeliveryStep
<1>1. /\ nextJob \in Nat /\ Born \subseteq Jobs /\ MaxJobs \in Nat
      /\ Listed \subseteq Born /\ Running \subseteq Listed
      /\ \A k \in Born : id[k] \in Ids
      /\ \A k \in Listed : jobAt[id[k]] = k
  BY BornFacts
<1>2. queue \in Seq(Jobs) /\ flight \in [Jobs -> Flights] /\ LoopType
  BY DEF TypeInv, DeliveryType
<1>3. CASE Register
  <2>1. PICK n \in Jobs : n = nextJob
    BY <1>1, <1>3 DEF Register, Jobs, TypeInv, JobType
  <2>2. PICK i \in Ids : i = NewId /\ jobAt[i] = None
    BY <1>3, NewIdIsFree DEF Register
  <2>3. /\ nextJob' = n + 1 /\ id' = [id EXCEPT ![n] = i]
        /\ status' = [status EXCEPT ![n] = "running"] /\ jobAt' = [jobAt EXCEPT ![i] = n]
        /\ suppressed' = suppressed \ {i} /\ waiter' \in {waiter, waiter \cup {n}}
        /\ UNCHANGED <<over, watched, timers, deliveries, retried, polling, disposal, history>>
    BY <1>3, <2>1, <2>2 DEF Register
  <2>4. Born' = Born \cup {n} /\ n \notin Born /\ Born' \subseteq Jobs /\ n \notin over
    <3>1. Born = 1..(n - 1) /\ Born' = 1..(n + 1 - 1) /\ n \in Nat /\ n >= 1
      BY <1>1, <2>1, <2>3 DEF Born, Jobs
    <3>2. Born' = Born \cup {n} /\ n \notin Born
      BY <3>1
    <3>3. QED BY <1>1, <3>2 DEF TypeInv, PartiesType
  <2>5. JobType'
    <3>1. nextJob' \in 1..(MaxJobs + 1)
      BY <1>1, <2>1, <2>3 DEF Jobs
    <3>2. i # None
      BY DEF Ids, None
    <3>3. /\ id' \in [Jobs -> Ids \cup {None}] /\ id'[n] = i /\ status'[n] = "running"
          /\ status' \in [Jobs -> {"unborn", "running", "finished", "cancelled"}]
          /\ \A k \in Jobs \ {n} : id'[k] = id[k] /\ status'[k] = status[k]
      BY <2>3 DEF TypeInv, JobType
    <3>4. QED BY <2>3, <2>4, <3>1, <3>2, <3>3 DEF TypeInv, JobType
  <2>6. PartiesType'
    BY <2>3, <2>4 DEF TypeInv, PartiesType
  <2>7. TableType'
    <3>1. jobAt' \in [Ids -> Jobs \cup {None}] /\ \A k \in Ids \ {i} : jobAt'[k] = jobAt[k]
      BY <2>3 DEF TypeInv, TableType
    <3>2. jobAt'[i] = n /\ id'[n] = i /\ \A k \in Jobs \ {n} : id'[k] = id[k]
      BY <2>3 DEF TypeInv, TableType, JobType
    <3>3. \A k \in Ids : jobAt[k] # None => jobAt[k] \in Listed
      BY DEF Listed
    <3>4. \A k \in Ids : jobAt[k] # None => jobAt[k] \in Jobs /\ jobAt[k] # n
      BY <1>1, <2>4, <3>3
    <3>5. \A k \in Ids : jobAt'[k] # None => id'[jobAt'[k]] = k
      BY <3>1, <3>2, <3>4 DEF TypeInv, TableType
    <3>6. QED BY <2>3, <3>1, <3>5 DEF TypeInv, TableType
  <2>8. Takes(queue, flight) /\ told' = told
    BY <2>3, QueueKept
  <2>9. DeliveryType'
    BY <2>3, <2>8, TakesType DEF TypeInv, DeliveryType
  <2>10. QED BY <2>3, <2>5, <2>6, <2>7, <2>8, <2>9 DEF TypeInv, DeliveryStep
<1>4. CASE JobEnds(j)
  <2>1. /\ status[j] \in {"running", "cancelled"} /\ j \notin over /\ over' = over \cup {j}
        /\ timers' = timers \cup {id[j]}
        /\ status' = IF status[j] = "cancelled" THEN status
                     ELSE [status EXCEPT ![j] = "finished"]
        /\ UNCHANGED <<nextJob, id, waiter, jobAt, suppressed, watched, retried,
                       polling, disposal, history>>
    BY <1>4 DEF JobEnds
  <2>2. j \in Born /\ id[j] \in Ids /\ Born' = Born
    BY <1>1, <2>1 DEF TypeInv, JobType, Born
  <2>3. JobType'
    <3>1. /\ status' \in [Jobs -> {"unborn", "running", "finished", "cancelled"}]
          /\ status'[j] \in {"finished", "cancelled"}
          /\ \A k \in Jobs \ {j} : status'[k] = status[k]
      BY <2>1 DEF TypeInv, JobType
    <3>2. QED BY <2>1, <2>2, <3>1 DEF TypeInv, JobType
  <2>4. PartiesType' /\ TableType'
    BY <2>1, <2>2 DEF TypeInv, PartiesType, TableType
  <2>5. CASE UNCHANGED deliveries
    <3>1. Takes(queue, flight) /\ told' = told
      BY <2>1, <2>5, QueueKept
    <3>2. DeliveryType'
      BY <2>1, <3>1, TakesType DEF TypeInv, DeliveryType
    <3>3. QED BY <2>1, <2>3, <2>4, <3>1, <3>2 DEF TypeInv, DeliveryStep
  <2>6. CASE ~Suppressed(j) /\ EnsureLoop(Append(queue, j), flight)
    <3>1. Append(queue, j) \in Seq(Jobs)
      BY <1>2, AppendedList
    <3>2. Takes(Append(queue, j), flight)
      BY <1>2, <2>6, <3>1, EnsureLoopTakes
    <3>3. DeliveryType'
      BY <2>1, <3>2, TakesType DEF TypeInv, DeliveryType
    <3>4. DeliveryStep
      BY <2>1, <2>6, <3>2 DEF DeliveryStep
    <3>5. QED BY <2>3, <2>4, <3>3, <3>4 DEF TypeInv
  <2>7. QED BY <1>4, <2>5, <2>6 DEF JobEnds
<1>5. ASSUME NEW i \in Ids, CancelAt(i), UNCHANGED <<nextJob, id, over, jobAt>>
      PROVE  JobType' /\ timers' \subseteq Ids /\ Born' = Born
  <2>1. Born' = Born
    BY <1>5 DEF Born
  <2>2. CASE UNCHANGED <<status, timers>>
    BY <1>5, <2>1, <2>2 DEF TypeInv, JobType, TableType
  <2>3. CASE jobAt[i] \in Running /\ status' = [status EXCEPT ![jobAt[i]] = "cancelled"]
             /\ timers' = timers \cup {i}
    <3>1. PICK k \in Born : k = jobAt[i] /\ status[k] = "running"
      BY <1>1, <2>3 DEF Running
    <3>2. /\ k \in Jobs /\ status'[k] = "cancelled"
          /\ status' \in [Jobs -> {"unborn", "running", "finished", "cancelled"}]
          /\ \A m \in Jobs \ {k} : status'[m] = status[m]
      BY <1>1, <2>3, <3>1 DEF TypeInv, JobType
    <3>3. QED BY <1>5, <2>1, <2>3, <3>1, <3>2 DEF TypeInv, JobType, TableType
  <2>4. QED BY <1>5, <2>2, <2>3 DEF CancelAt
<1>6. ASSUME UNCHANGED <<deliveries, told, over>> PROVE Takes(queue, flight) /\ DeliveryStep
  <2>1. Takes(queue, flight)
    BY <1>6, QueueKept
  <2>2. QED BY <1>6, <2>1 DEF DeliveryStep
<1>7. CASE Cancel(j)
  <2>1. id[j] \in Ids /\ CancelAt(id[j])
        /\ UNCHANGED <<nextJob, id, over, waiter, jobAt, suppressed, watched, deliveries,
                       retried, polling, disposal, history>>
    BY <1>1, <1>7 DEF Cancel
  <2>2. JobType' /\ timers' \subseteq Ids /\ Born' = Born
    BY <1>5, <2>1
  <2>3. Takes(queue, flight) /\ DeliveryStep
    BY <1>6, <2>1
  <2>4. DeliveryType'
    BY <2>1, <2>3, TakesType DEF TypeInv, DeliveryType
  <2>5. QED BY <2>1, <2>2, <2>3, <2>4 DEF TypeInv, PartiesType, TableType
<1>8. CASE Background(j)
  <2>1. Born' = Born
    BY <1>8 DEF Background, Born
  <2>2. Takes(queue, flight) /\ DeliveryStep
    BY <1>6, <1>8 DEF Background
  <2>3. DeliveryType'
    BY <1>8, <2>2, TakesType DEF Background, TypeInv, DeliveryType
  <2>4. JobType' /\ PartiesType' /\ TableType'
    BY <1>8, <2>1 DEF Background, TypeInv, JobType, PartiesType, TableType
  <2>5. QED BY <2>2, <2>3, <2>4 DEF TypeInv
<1>9. CASE Collect(j) \/ AbortWait(j)
  <2>1. /\ j \in waiter /\ waiter' = waiter \ {j} /\ shown' = shown \cup {j}
        /\ Acknowledge({id[j]}, watched)
        /\ UNCHANGED <<nextJob, id, over, jobAt, watched, retried, polling, disposal, failures,
                       told>>
        /\ UNCHANGED <<status, timers>> \/ CancelAt(id[j])
    BY <1>9 DEF Collect, AbortWait
  <2>2. j \in Born /\ id[j] \in Ids
    BY <1>1, <2>1 DEF TypeInv, PartiesType
  <2>3. JobType' /\ timers' \subseteq Ids /\ Born' = Born
    <3>1. CASE UNCHANGED <<status, timers>>
      BY <2>1, <3>1 DEF TypeInv, JobType, TableType, Born
    <3>2. QED BY <1>5, <2>1, <2>2, <3>1
  <2>4. Takes(queue, flight)
    BY <1>2, <2>1, AcknowledgeTakes
  <2>5. DeliveryType'
    BY <2>1, <2>4, TakesType DEF TypeInv, DeliveryType
  <2>6. suppressed' \subseteq Ids
    BY <2>1, <2>2 DEF Acknowledge, TypeInv, TableType
  <2>7. PartiesType' /\ TableType'
    BY <2>1, <2>2, <2>3, <2>6 DEF TypeInv, PartiesType, TableType
  <2>8. DeliveryStep
    BY <2>1, <2>4 DEF DeliveryStep
  <2>9. QED BY <2>3, <2>5, <2>7, <2>8 DEF TypeInv
<1>10. QED BY <1>3, <1>4, <1>7, <1>8, <1>9

\* Steps of the job tool.
LEMMA PollStepType ==
    ASSUME TypeInv,
           \/ \E js \in SUBSET Jobs : Show(js) \/ \E p \in Polls : StartPoll(p, js)
           \/ \E p \in Polls : EndPoll(p)
    PROVE  TypeInv' /\ DeliveryStep
<1>1. /\ Born \subseteq Jobs /\ Listed \subseteq Born /\ Running \subseteq Listed
      /\ \A k \in Born : id[k] \in Ids
      /\ \A js \in SUBSET Born : IdsOf(js) \subseteq Ids
  BY BornFacts
<1>2. queue \in Seq(Jobs) /\ flight \in [Jobs -> Flights] /\ LoopType
  BY DEF TypeInv, DeliveryType
<1>3. ASSUME NEW js \in SUBSET Born, NEW w \in SUBSET Ids, BuildResult(js, w), watched' = w,
             raced' \in [Polls -> SUBSET Born], tracked' \in [Polls -> SUBSET Born],
             UNCHANGED <<jobVars, waiter, jobAt, timers, retried, disposal, failures, told>>
      PROVE  TypeInv' /\ DeliveryStep
  <2>1. \A j \in js : Latest(j) \in Born
    <3>1. \A j \in js : jobAt[id[j]] # None => jobAt[id[j]] \in Listed
      BY <1>1 DEF Listed
    <3>2. QED BY <1>1, <3>1 DEF Latest
  <2>2. PICK ended \in SUBSET Born : shown' = shown \cup ended /\ Acknowledge(IdsOf(ended), w)
    BY <1>3, <2>1 DEF BuildResult
  <2>3. Takes(queue, flight)
    BY <1>2, <2>2, AcknowledgeTakes
  <2>4. suppressed' \subseteq Ids
    BY <1>1, <2>2 DEF Acknowledge, TypeInv, TableType
  <2>5. Born' = Born
    BY <1>3 DEF Born
  <2>6. DeliveryType'
    BY <1>3, <2>3, TakesType DEF TypeInv, DeliveryType
  <2>7. JobType' /\ PartiesType' /\ TableType'
    BY <1>3, <2>2, <2>4, <2>5 DEF TypeInv, JobType, PartiesType, TableType
  <2>8. DeliveryStep
    BY <1>3, <2>3 DEF DeliveryStep
  <2>9. QED BY <2>6, <2>7, <2>8 DEF TypeInv
<1>4. ASSUME NEW js \in SUBSET Jobs, Show(js)
      PROVE  TypeInv' /\ DeliveryStep
  <2>1. js \in SUBSET Born /\ watched \in SUBSET Ids
    BY <1>1, <1>4 DEF Show, TypeInv, TableType
  <2>2. BuildResult(js, watched) /\ raced' = raced /\ tracked' = tracked /\ watched' = watched
        /\ UNCHANGED <<jobVars, waiter, jobAt, timers, retried, disposal, failures, told>>
    BY <1>4 DEF Show
  <2>3. raced' \in [Polls -> SUBSET Born] /\ tracked' \in [Polls -> SUBSET Born]
    BY <2>2 DEF TypeInv, PartiesType
  <2>4. QED BY <1>3, <2>1, <2>2, <2>3
<1>5. ASSUME NEW js \in SUBSET Jobs, NEW p \in Polls, StartPoll(p, js)
      PROVE  TypeInv' /\ DeliveryStep
  <2>1. /\ js \in SUBSET Born /\ js \cap Running \in SUBSET Born
        /\ raced' = [raced EXCEPT ![p] = js \cap Running]
        /\ tracked' = [tracked EXCEPT ![p] = js]
        /\ watched' = watched \cup IdsOf(js \cap Running)
        /\ UNCHANGED <<jobVars, waiter, jobAt, suppressed, timers, deliveries, retried, disposal,
                       history>>
    BY <1>1, <1>5 DEF StartPoll
  <2>2. Takes(queue, flight) /\ told' = told /\ over' = over
    BY <2>1, QueueKept
  <2>3. DeliveryType'
    BY <2>1, <2>2, TakesType DEF TypeInv, DeliveryType
  <2>4. watched' \subseteq Ids
    BY <1>1, <2>1 DEF TypeInv, TableType
  <2>5. raced' \in [Polls -> SUBSET Born] /\ tracked' \in [Polls -> SUBSET Born] /\ Born' = Born
    BY <2>1 DEF TypeInv, PartiesType, Born
  <2>6. JobType' /\ PartiesType' /\ TableType'
    BY <2>1, <2>4, <2>5 DEF TypeInv, JobType, PartiesType, TableType
  <2>7. DeliveryStep
    BY <2>2 DEF DeliveryStep
  <2>8. QED BY <2>3, <2>6, <2>7 DEF TypeInv
<1>6. ASSUME NEW p \in Polls, EndPoll(p)
      PROVE  TypeInv' /\ DeliveryStep
  <2>1. PICK left : left = watched \ IdsOf(raced[p])
    OBVIOUS
  <2>2. /\ raced' = [raced EXCEPT ![p] = {}] /\ tracked' = [tracked EXCEPT ![p] = {}]
        /\ watched' = left /\ BuildResult(tracked[p], left)
        /\ UNCHANGED <<jobVars, waiter, jobAt, timers, retried, disposal, failures, told>>
    BY <1>6, <2>1 DEF EndPoll
  <2>3. /\ tracked[p] \in SUBSET Born /\ left \in SUBSET Ids
        /\ raced' \in [Polls -> SUBSET Born] /\ tracked' \in [Polls -> SUBSET Born]
    BY <2>1, <2>2 DEF TypeInv, PartiesType, TableType
  <2>4. QED BY <1>3, <2>2, <2>3
<1>7. QED BY <1>4, <1>5, <1>6

\* Steps of the loop and of those that drain, evict and dispose.
LEMMA DeliveryStepType ==
    ASSUME TypeInv,
           \/ LoopStep
           \/ \E j \in Jobs : EndHandOver(j) \/ DrainNext(j)
           \/ BeginDrain
    PROVE  TypeInv' /\ DeliveryStep
<1>1. queue \in Seq(Jobs) /\ flight \in [Jobs -> Flights] /\ LoopType
  BY DEF TypeInv, DeliveryType
<1>2. ASSUME NEW q, NEW fl, Takes(q, fl),
             UNCHANGED <<jobVars, waiter, tables, polling, shown>>,
             disposing' \in {"no", "waiting", "draining", "done"}, awaited' = awaited,
             retried' \subseteq Jobs, failures' \in 0..MaxFailures, told' \in [Jobs -> Nat]
      PROVE  TypeInv'
  <2>1. DeliveryType'
    BY <1>2, TakesType
  <2>2. Born' = Born
    BY <1>2 DEF Born
  <2>3. JobType' /\ PartiesType' /\ TableType'
    BY <1>2, <2>2 DEF TypeInv, JobType, PartiesType, TableType
  <2>4. QED BY <2>1, <2>3 DEF TypeInv
<1>3. /\ disposing \in {"no", "waiting", "draining", "done"} /\ retried \subseteq Jobs
      /\ failures \in 0..MaxFailures /\ told \in [Jobs -> Nat]
  BY DEF TypeInv, PartiesType, DeliveryType
<1>4. ASSUME Takes(queue, flight),
             UNCHANGED <<jobVars, waiter, tables, retried, polling, disposal, history>>
      PROVE  TypeInv' /\ DeliveryStep
  <2>1. TypeInv'
    BY <1>2, <1>3, <1>4
  <2>2. QED BY <1>4, <2>1 DEF DeliveryStep
<1>5. CASE LoopStep
  <2>1. UNCHANGED <<jobVars, waiter, tables, retried, polling, disposal, history>>
    BY <1>5 DEF LoopStep, WakeLoop, ResumeLoop, EndLoop
  <2>2. CASE RunLoop(queue, flight)
    BY <1>1, <1>4, <2>1, <2>2, RunLoopTakes
  <2>3. CASE loop' = "none" /\ UNCHANGED <<queue, flight, loopJob>>
    <3>1. loop' \in {"none", "sleep", "await", "exit"} /\ loopJob' \in Jobs \cup {None}
      BY <1>1, <2>3 DEF LoopType
    <3>2. Takes(queue, flight)
      BY <1>1, <2>3, <3>1, TakesAll
    <3>3. QED BY <1>4, <2>1, <3>2
  <2>4. CASE StillHead(loopJob) /\ HandOver(loopJob, IF queue = << >> THEN << >> ELSE Tail(queue),
                                            flight)
    <3>1. queue # << >> /\ Head(queue) = loopJob /\ HandOver(loopJob, Tail(queue), flight)
      BY <2>4 DEF StillHead
    <3>2. 1 \in DOMAIN queue /\ queue[1] = loopJob /\ loopJob \in Jobs
      BY <1>1, <3>1, HeadTailProperties, EmptySeq
    <3>3. Tail(queue) = SubSeq(queue, 1 + 1, Len(queue))
      BY <1>1, <3>1
    <3>4. /\ queue' = SubSeq(queue, 1 + 1, Len(queue))
          /\ flight' = [flight EXCEPT ![queue[1]] = "loop"]
          /\ loop' \in {"none", "sleep", "await", "exit"} /\ loopJob' \in Jobs \cup {None}
      BY <3>1, <3>2, <3>3 DEF HandOver
    <3>5. Takes(queue, flight)
      BY <1>1, <3>2, <3>4, TakesFrom
    <3>6. QED BY <1>4, <2>1, <3>5
  <2>5. QED BY <1>5, <2>2, <2>3, <2>4 DEF LoopStep, WakeLoop, ResumeLoop, EndLoop
<1>6. ASSUME NEW j \in Jobs, EndHandOver(j)
      PROVE  TypeInv' /\ DeliveryStep
  <2>1. PICK landed \in [Jobs -> Flights] : landed = [flight EXCEPT ![j] = "no"]
    BY <1>1 DEF Flights
  <2>2. flight[j] # "no" /\ UNCHANGED <<jobVars, waiter, tables, polling, disposal, shown>>
    BY <1>6 DEF EndHandOver
  <2>3. CASE /\ told' = [told EXCEPT ![j] = IF Wanted(j) THEN @ + 1 ELSE @]
             /\ EnsureLoop(queue, landed)
             /\ UNCHANGED <<failures, retried>>
    <3>1. /\ told' \in [Jobs -> Nat]
          /\ \/ told' = told
             \/ Wanted(j) /\ told' = [told EXCEPT ![j] = @ + 1]
      <4>1. CASE Wanted(j)
        BY <1>3, <2>3, <4>1
      <4>2. CASE ~Wanted(j)
        BY <1>3, <2>3, <4>2
      <4>3. QED BY <4>1, <4>2
    <3>2. Takes(queue, landed)
      BY <1>1, <2>3, EnsureLoopTakes
    <3>3. TypeInv'
      BY <1>2, <1>3, <2>2, <2>3, <3>1, <3>2
    <3>4. DeliveryStep
      BY <2>1, <2>2, <3>1, <3>2 DEF DeliveryStep
    <3>5. QED BY <3>3, <3>4
  <2>4. CASE /\ failures < MaxFailures
             /\ failures' = failures + 1
             /\ retried' = retried \cup {j}
             /\ EnsureLoop(IF Suppressed(j) THEN queue ELSE Append(queue, j), landed)
             /\ UNCHANGED told
    <3>1. failures' \in 0..MaxFailures /\ retried' \subseteq Jobs
      BY <1>3, <2>4, ConstantsAssumption
    <3>2. CASE Suppressed(j)
      <4>1. Takes(queue, landed)
        BY <1>1, <2>4, <3>2, EnsureLoopTakes
      <4>2. TypeInv'
        BY <1>2, <1>3, <2>2, <2>4, <3>1, <4>1
      <4>3. DeliveryStep
        BY <2>1, <2>2, <2>4, <4>1 DEF DeliveryStep
      <4>4. QED BY <4>2, <4>3
    <3>3. CASE ~Suppressed(j)
      <4>1. Append(queue, j) \in Seq(Jobs)
        BY <1>1, AppendedList
      <4>2. Takes(Append(queue, j), landed)
        BY <1>1, <2>4, <3>3, <4>1, EnsureLoopTakes
      <4>3. TypeInv'
        BY <1>2, <1>3, <2>2, <2>4, <3>1, <4>2
      <4>4. DeliveryStep
        BY <2>1, <2>2, <2>4, <3>3, <4>2 DEF DeliveryStep
      <4>5. QED BY <4>3, <4>4
    <3>4. QED BY <3>2, <3>3
  <2>5. QED BY <1>6, <2>1, <2>3, <2>4 DEF EndHandOver
<1>7. ASSUME NEW j \in Jobs, DrainNext(j)
      PROVE  TypeInv' /\ DeliveryStep
  <2>1. PICK S : S = Jobs \ {j}
    OBVIOUS
  <2>2. /\ j \in ToSet(queue)
        /\ queue' = Kept(queue, S) /\ flight' = [flight EXCEPT ![j] = "drain"]
        /\ UNCHANGED <<jobVars, waiter, tables, loop, loopJob, retried, polling, disposal, history>>
    BY <1>7, <2>1 DEF DrainNext
  <2>3. /\ queue' \in Seq(Jobs) /\ ToSet(queue') \subseteq ToSet(queue) \cap S
        /\ Distinct(queue) => Distinct(queue')
    BY <1>1, <2>2, KeptProperties
  <2>4. flight' \in [Jobs -> Flights] /\ \A k \in Jobs : k # j => flight'[k] = flight[k]
    BY <1>1, <2>2 DEF Flights
  <2>5. Takes(queue, flight)
    BY <1>1, <2>1, <2>2, <2>3, <2>4 DEF Takes, LoopType
  <2>6. QED BY <1>4, <2>2, <2>5
<1>8. CASE BeginDrain
  <2>1. /\ EnsureLoop(queue, flight) /\ disposing' = "draining" /\ awaited' = awaited
        /\ UNCHANGED <<jobVars, waiter, tables, retried, polling, history>>
    BY <1>8 DEF BeginDrain
  <2>2. Takes(queue, flight)
    BY <1>1, <2>1, EnsureLoopTakes
  <2>3. TypeInv'
    BY <1>2, <1>3, <2>1, <2>2
  <2>4. QED BY <2>1, <2>2, <2>3 DEF DeliveryStep
<1>9. QED BY <1>5, <1>6, <1>7, <1>8

\* An eviction, and dispose.
LEMMA EndStepType ==
    ASSUME TypeInv, (\E i \in Ids : Evict(i)) \/ BeginDispose \/ EndDispose \/ UNCHANGED vars
    PROVE  TypeInv' /\ DeliveryStep
<1>1. /\ Born \subseteq Jobs /\ Listed \subseteq Born /\ Running \subseteq Listed
      /\ \A js \in SUBSET Born : IdsOf(js) \subseteq Ids
  BY BornFacts
<1>2. queue \in Seq(Jobs) /\ flight \in [Jobs -> Flights] /\ LoopType
  BY DEF TypeInv, DeliveryType
<1>3. ASSUME Takes(queue, flight), UNCHANGED <<retried, failures, told, over>>
      PROVE  DeliveryType' /\ DeliveryStep
  BY <1>3, TakesType DEF TypeInv, DeliveryType, DeliveryStep
<1>4. ASSUME UNCHANGED <<nextJob, id, over, waiter, shown, polling, awaited>>
      PROVE  /\ Born' = Born
             /\ disposing' \in {"no", "waiting", "draining", "done"} => PartiesType'
             /\ status' = status => JobType'
  BY <1>4 DEF Born, TypeInv, PartiesType, JobType
<1>5. ASSUME NEW i \in Ids, Evict(i)
      PROVE  TypeInv' /\ DeliveryStep
  <2>1. /\ jobAt' = [jobAt EXCEPT ![i] = None] /\ suppressed' = suppressed \ {i}
        /\ watched' = watched \ {i} /\ timers' = timers \ {i}
        /\ UNCHANGED <<jobVars, waiter, deliveries, retried, polling, disposal, history>>
    BY <1>5 DEF Evict
  <2>2. TableType'
    BY <2>1 DEF TypeInv, TableType
  <2>3. Takes(queue, flight)
    BY <2>1, QueueKept
  <2>4. PartiesType' /\ JobType'
    BY <1>4, <2>1 DEF TypeInv, PartiesType
  <2>5. DeliveryType' /\ DeliveryStep
    BY <1>3, <2>1, <2>3
  <2>6. QED BY <2>2, <2>4, <2>5 DEF TypeInv
<1>6. CASE BeginDispose
  <2>1. /\ disposing' = "waiting" /\ status' = StatusAfterCancelAll /\ timers' = IdsOf(Running)
        /\ awaited' = Listed
        /\ UNCHANGED <<nextJob, id, over, waiter, jobAt, suppressed, watched, deliveries, retried,
                       polling, history>>
    BY <1>6 DEF BeginDispose
  <2>2. Takes(queue, flight)
    BY <2>1, QueueKept
  <2>3. Born' = Born
    BY <2>1 DEF Born
  <2>4. JobType'
    <3>1. \A j \in Running : j \in Jobs /\ status[j] = "running"
      BY <1>1 DEF Running
    <3>2. \A j \in Jobs : status'[j] = IF j \in Running THEN "cancelled" ELSE status[j]
      BY <2>1 DEF StatusAfterCancelAll
    <3>3. status' \in [Jobs -> {"unborn", "running", "finished", "cancelled"}]
      BY <2>1 DEF StatusAfterCancelAll, TypeInv, JobType
    <3>4. \A j \in Jobs : status[j] = "unborn" <=> status'[j] = "unborn"
      BY <3>1, <3>2
    <3>5. \A j \in Jobs : status'[j] = "finished" => status[j] = "finished"
      BY <3>2
    <3>6. \A j \in Jobs : status'[j] = "running" => status[j] = "running"
      BY <3>2
    <3>7. over \subseteq Jobs
      BY <1>1 DEF TypeInv, PartiesType
    <3>8. QED BY <2>1, <2>3, <3>3, <3>4, <3>5, <3>6, <3>7 DEF TypeInv, JobType
  <2>5. PartiesType' /\ TableType'
    BY <1>1, <2>1, <2>3 DEF TypeInv, PartiesType, TableType
  <2>6. DeliveryType' /\ DeliveryStep
    BY <1>3, <2>1, <2>2
  <2>7. QED BY <2>4, <2>5, <2>6 DEF TypeInv
<1>7. CASE EndDispose
  <2>1. /\ disposing' = "done" /\ jobAt' = [i \in Ids |-> None]
        /\ suppressed' = {} /\ watched' = {} /\ timers' = {} /\ queue' = << >>
        /\ UNCHANGED <<jobVars, waiter, flight, loop, loopJob, retried, polling, awaited, history>>
    BY <1>7 DEF EndDispose
  <2>2. loop' \in {"none", "sleep", "await", "exit"} /\ loopJob' \in Jobs \cup {None}
    BY <1>2, <2>1 DEF LoopType
  <2>3. Takes(queue, flight)
    BY <1>2, <2>1, <2>2, TakesNone
  <2>4. PartiesType' /\ JobType'
    BY <1>4, <2>1
  <2>5. TableType'
    BY <2>1 DEF TableType
  <2>6. DeliveryType' /\ DeliveryStep
    BY <1>3, <2>1, <2>3
  <2>7. QED BY <2>4, <2>5, <2>6 DEF TypeInv
<1>8. CASE UNCHANGED vars
  <2>1. Takes(queue, flight)
    BY <1>8, QueueKept
  <2>2. PartiesType' /\ JobType' /\ TableType'
    BY <1>4, <1>8 DEF TypeInv, PartiesType, TableType
  <2>3. QED BY <1>3, <1>8, <2>1, <2>2 DEF TypeInv
<1>9. QED BY <1>5, <1>6, <1>7, <1>8

LEMMA TypeStep == ASSUME TypeInv, [Next]_vars PROVE TypeInv' /\ DeliveryStep
<1>1. CASE \/ Register
           \/ \E j \in Jobs : JobEnds(j) \/ Cancel(j) \/ Collect(j) \/ Background(j) \/ AbortWait(j)
  <2>1. 1 \in Jobs
    BY ConstantsAssumption DEF Jobs
  <2>2. QED BY <1>1, <2>1, JobStepType
<1>2. CASE \/ \E js \in SUBSET Jobs : Show(js) \/ \E p \in Polls : StartPoll(p, js)
           \/ \E p \in Polls : EndPoll(p)
  BY <1>2, PollStepType
<1>3. CASE LoopStep \/ BeginDrain \/ \E j \in Jobs : EndHandOver(j) \/ DrainNext(j)
  BY <1>3, DeliveryStepType
<1>4. CASE (\E i \in Ids : Evict(i)) \/ BeginDispose \/ EndDispose \/ UNCHANGED vars
  BY <1>4, EndStepType
<1>5. CASE Idle
  BY <1>5, EndStepType DEF Idle
<1>6. QED BY <1>1, <1>2, <1>3, <1>4, <1>5 DEF Next

LEMMA TypeInit == Init => TypeInv
<1> SUFFICES ASSUME Init PROVE TypeInv
  OBVIOUS
<1> USE DEF Init
<1>1. Born = {}
  BY DEF Born
<1>2. JobType
  BY <1>1, ConstantsAssumption DEF JobType
<1>3. PartiesType
  BY <1>1 DEF PartiesType
<1>4. TableType
  BY DEF TableType
<1>5. DeliveryType
  BY EmptySeq, ConstantsAssumption DEF DeliveryType, LoopType, Flights
<1>6. QED BY <1>2, <1>3, <1>4, <1>5 DEF TypeInv

\* Type correctness; every listed job is listed under its own id.
THEOREM TypeCorrect == Spec => [](TypeOK /\ TypeInv)
<1>1. TypeInv => TypeOK
  <2> SUFFICES ASSUME TypeInv PROVE TypeOK
    OBVIOUS
  <2>1. Born \subseteq Jobs
    BY BornFacts
  <2>2. QED BY <2>1 DEF TypeInv, JobType, PartiesType, TableType, DeliveryType, LoopType,
                       Flights, TypeOK
<1>2. QED BY <1>1, TypeInit, TypeStep, PTL DEF Spec
-----------------------------------------------------------------------------
(***************************************************************************)
(* A result is in one place: not there yet, in the queue once, on its way, *)
(* or given to the session, or dropped.                                    *)
(***************************************************************************)
PlaceInv ==
    /\ Distinct(queue)
    /\ \A j \in Jobs : j \in ToSet(queue) => flight[j] = "no"
    /\ \A j \in Jobs : j \in ToSet(queue) \/ flight[j] # "no" => told[j] = 0 /\ j \in over
    /\ \A j \in Jobs : told[j] > 0 => j \in over
    /\ \A j \in Jobs : told[j] <= 1

LEMMA PlaceStep ==
    ASSUME TypeInv, TypeInv', DeliveryStep, PlaceInv
    PROVE  PlaceInv'
<1>1. /\ queue \in Seq(Jobs) /\ flight \in [Jobs -> Flights] /\ told \in [Jobs -> Nat]
      /\ flight' \in [Jobs -> Flights] /\ told' \in [Jobs -> Nat] /\ over \subseteq over'
  BY DEF TypeInv, DeliveryType, DeliveryStep
<1>2. CASE Takes(queue, flight) /\ told' = told
  BY <1>1, <1>2 DEF Takes, PlaceInv
<1>3. ASSUME NEW j \in Jobs \ over, j \in over',
             Takes(Append(queue, j), flight), told' = told
      PROVE  PlaceInv'
  <2>1. PICK q : q = Append(queue, j)
    OBVIOUS
  <2>2. j \notin ToSet(queue)
    BY <1>3 DEF PlaceInv
  <2>3. ToSet(q) \subseteq ToSet(queue) \cup {j} /\ Distinct(q)
    BY <1>1, <2>1, <2>2, AppendedList DEF PlaceInv
  <2>4. flight[j] = "no" /\ told[j] = 0
    BY <1>1, <1>3 DEF PlaceInv
  <2>5. \A k \in ToSet(q) : flight[k] = "no" /\ told[k] = 0 /\ k \in over'
    <3>1. \A k \in ToSet(queue) : k \in Jobs
      BY <1>1 DEF ToSet
    <3>2. QED BY <1>1, <1>3, <2>3, <2>4, <3>1 DEF PlaceInv
  <2>6. Takes(q, flight)
    BY <1>3, <2>1
  <2>7. QED BY <1>1, <1>3, <2>3, <2>5, <2>6 DEF Takes, PlaceInv
<1>4. ASSUME NEW j \in Jobs, flight[j] # "no",
             \/ /\ Takes(queue, [flight EXCEPT ![j] = "no"])
                /\ told' = told \/ told' = [told EXCEPT ![j] = @ + 1]
             \/ /\ Takes(Append(queue, j), [flight EXCEPT ![j] = "no"])
                /\ told' = told
      PROVE  PlaceInv'
  <2>1. j \notin ToSet(queue) /\ told[j] = 0 /\ j \in over
    BY <1>4 DEF PlaceInv
  <2>2. PICK landed : landed = [flight EXCEPT ![j] = "no"]
    OBVIOUS
  <2>3. landed[j] = "no" /\ \A k \in Jobs : k # j => landed[k] = flight[k]
    BY <1>1, <2>2
  <2>4. \A k \in ToSet(queue) : k \in Jobs /\ k # j
    BY <1>1, <2>1 DEF ToSet
  <2>5. CASE Takes(queue, landed) /\ (told' = told \/ told' = [told EXCEPT ![j] = @ + 1])
    <3>1. told'[j] \in 0..1 /\ \A k \in Jobs : k # j => told'[k] = told[k]
      BY <1>1, <2>1, <2>5
    <3>2. flight'[j] = "no" /\ j \notin ToSet(queue')
      BY <2>1, <2>3, <2>5 DEF Takes
    <3>3. Distinct(queue') /\ ToSet(queue') \subseteq ToSet(queue)
      BY <2>5 DEF Takes, PlaceInv
    <3>4. ASSUME NEW k \in Jobs, k # j
          PROVE  /\ k \in ToSet(queue') => flight'[k] = "no"
                 /\ k \in ToSet(queue') \/ flight'[k] # "no" => told'[k] = 0 /\ k \in over'
                 /\ told'[k] > 0 => k \in over'
                 /\ told'[k] <= 1
      <4>1. flight'[k] = flight[k] \/ (k \in ToSet(queue) /\ k \notin ToSet(queue'))
        BY <2>3, <2>5, <3>4 DEF Takes, PlaceInv
      <4>2. told'[k] = told[k]
        BY <3>1, <3>4
      <4>3. QED BY <1>1, <3>3, <4>1, <4>2 DEF PlaceInv
    <3>5. /\ j \notin ToSet(queue') /\ flight'[j] = "no" /\ j \in over' /\ told'[j] <= 1
      BY <1>1, <2>1, <3>1, <3>2
    <3>6. QED BY <3>3, <3>4, <3>5 DEF PlaceInv
  <2>6. CASE Takes(Append(queue, j), landed) /\ told' = told
    <3>1. PICK q : q = Append(queue, j)
      OBVIOUS
    <3>2. ToSet(q) \subseteq ToSet(queue) \cup {j} /\ Distinct(q)
      BY <1>1, <2>1, <3>1, AppendedList DEF PlaceInv
    <3>3. Takes(q, landed)
      BY <2>6, <3>1
    <3>4. \A k \in ToSet(q) : landed[k] = "no" /\ told[k] = 0 /\ k \in over
      BY <2>1, <2>3, <2>4, <3>2 DEF PlaceInv
    <3>5. QED BY <1>1, <2>1, <2>3, <2>6, <3>2, <3>3, <3>4 DEF Takes, PlaceInv
  <2>7. QED BY <1>4, <2>2, <2>5, <2>6
<1>5. QED BY <1>2, <1>3, <1>4 DEF DeliveryStep

Placed == TypeInv /\ PlaceInv

LEMMA PlacedInit == Init => Placed
<1> SUFFICES ASSUME Init PROVE Placed
  OBVIOUS
<1>1. DOMAIN << >> = {}
  OBVIOUS
<1>2. PlaceInv
  BY <1>1 DEF Init, PlaceInv, Distinct, ToSet
<1>3. QED BY <1>2, TypeInit DEF Placed

\* No result is given to the session twice, whoever takes deliveries from the
\* queue and however often a hand-over fails.
THEOREM DeliveredOnceCorrect == Spec => []DeliveredOnce
<1>1. Placed /\ [Next]_vars => Placed'
  BY TypeStep, PlaceStep DEF Placed
<1>2. Placed => DeliveredOnce
  BY DEF Placed, PlaceInv, DeliveredOnce
<1>3. QED BY <1>1, <1>2, PlacedInit, PTL DEF Spec
-----------------------------------------------------------------------------
(***************************************************************************)
(* Ids.  When the retention time outlasts aborts, hand-overs and polls, a  *)
(* job keeps its place in #jobs until its promise has settled, and only    *)
(* then its acknowledgement is forgotten.                                  *)
(***************************************************************************)
HomeInv == disposing # "done" =>
    /\ \A j \in Born :
          status[j] = "running" \/ (status[j] = "cancelled" /\ j \notin over) => jobAt[id[j]] = j
    /\ \A i \in timers : jobAt[i] # None /\ status[jobAt[i]] # "running"

\* The result of a job that was shown is acknowledged, until it cannot be
\* delivered any more.
QuietInv == disposing # "done" =>
    /\ \A j \in ToSet(queue) : id[j] \notin suppressed
    /\ \A j \in shown : Own(j) =>
          \/ id[j] \in suppressed
          \/ j \in over /\ j \notin ToSet(queue) /\ flight[j] = "no"

Disposed == disposing = "done" => disposing' = "done"

LEMMA DisposedStep == ASSUME [Next]_vars PROVE Disposed
<1>1. CASE \E j \in Jobs : EndHandOver(j) \/ DrainNext(j)
  BY <1>1 DEF EndHandOver, DrainNext, Disposed
<1>2. CASE \E j \in Jobs : JobEnds(j) \/ Cancel(j) \/ Collect(j) \/ Background(j) \/ AbortWait(j)
  BY <1>2 DEF JobEnds, Cancel, Collect, Background, AbortWait, Disposed
<1>3. CASE \/ \E js \in SUBSET Jobs : Show(js) \/ \E p \in Polls : StartPoll(p, js)
           \/ \E p \in Polls : EndPoll(p)
  BY <1>3 DEF Show, StartPoll, EndPoll, Disposed
<1>4. CASE LoopStep
  BY <1>4 DEF LoopStep, WakeLoop, ResumeLoop, EndLoop, Disposed
<1>5. CASE Register \/ (\E i \in Ids : Evict(i)) \/ BeginDispose \/ BeginDrain \/ EndDispose
           \/ Idle \/ UNCHANGED vars
  BY <1>5 DEF Register, Evict, BeginDispose, BeginDrain, EndDispose, Idle, Disposed
<1>6. QED BY <1>1, <1>2, <1>3, <1>4, <1>5 DEF Next

\* The end of a job, and its cancellation.
LEMMA HomeCancel ==
    ASSUME TypeInv, HomeInv, Disposed, NEW i \in Ids, CancelAt(i),
           UNCHANGED <<nextJob, id, over, jobAt, disposing>>
    PROVE  HomeInv'
<1>1. /\ Born \subseteq Jobs /\ Listed \subseteq Born /\ Running \subseteq Listed
      /\ \A k \in Listed : jobAt[id[k]] = k
  BY BornFacts
<1>2. Born' = Born
  BY DEF Born
<1>3. CASE UNCHANGED <<status, timers>>
  BY <1>2, <1>3 DEF HomeInv
<1>4. CASE jobAt[i] \in Running /\ status' = [status EXCEPT ![jobAt[i]] = "cancelled"]
           /\ timers' = timers \cup {i}
  <2>1. PICK k \in Listed : k = jobAt[i]
    BY <1>1, <1>4
  <2>2. /\ k \in Jobs /\ k # None /\ jobAt[id[k]] = k
        /\ status'[k] = "cancelled" /\ \A m \in Jobs \ {k} : status'[m] = status[m]
    BY <1>1, <1>4, <2>1 DEF TypeInv, JobType, Listed
  <2>3. \A m \in timers : jobAt[m] \in Jobs \cup {None}
    BY DEF TypeInv, TableType
  <2>4. QED BY <1>1, <1>2, <1>4, <2>1, <2>2, <2>3 DEF HomeInv
<1>5. QED BY <1>3, <1>4 DEF CancelAt

LEMMA HomeStep ==
    ASSUME LongRetention, TypeInv, HomeInv, [Next]_vars
    PROVE  HomeInv'
<1>1. /\ nextJob \in Nat /\ Born \subseteq Jobs /\ MaxJobs \in Nat
      /\ Listed \subseteq Born /\ Running \subseteq Listed
      /\ \A k \in Born : id[k] \in Ids
      /\ \A k \in Listed : jobAt[id[k]] = k
  BY BornFacts
<1>2. Disposed
  BY DisposedStep
<1>3. ASSUME UNCHANGED <<jobVars, jobAt, timers>> PROVE HomeInv'
  BY <1>2, <1>3 DEF HomeInv, Born, Disposed
<1>4. CASE Register
  <2>1. PICK n \in Jobs : n = nextJob
    BY <1>1, <1>4 DEF Register, Jobs, TypeInv, JobType
  <2>2. PICK i \in Ids : i = NewId /\ jobAt[i] = None
    BY <1>4, NewIdIsFree DEF Register
  <2>3. /\ nextJob' = n + 1 /\ id' = [id EXCEPT ![n] = i]
        /\ status' = [status EXCEPT ![n] = "running"] /\ jobAt' = [jobAt EXCEPT ![i] = n]
        /\ UNCHANGED <<over, timers>> /\ disposing # "done"
    BY <1>4, <2>1, <2>2 DEF Register
  <2>4. Born' = Born \cup {n} /\ n \notin Born
    <3>1. Born = 1..(n - 1) /\ Born' = 1..(n + 1 - 1) /\ n \in Nat /\ n >= 1
      BY <1>1, <2>1, <2>3 DEF Born, Jobs
    <3>2. QED BY <3>1
  <2>5. /\ id'[n] = i /\ jobAt'[i] = n /\ n # None
        /\ \A j \in Jobs \ {n} : id'[j] = id[j] /\ status'[j] = status[j]
        /\ \A m \in Ids \ {i} : jobAt'[m] = jobAt[m]
    BY <2>3 DEF TypeInv, JobType, TableType, Jobs, None
  <2>6. \A j \in Born' :
            status'[j] = "running" \/ (status'[j] = "cancelled" /\ j \notin over')
               => jobAt'[id'[j]] = j
    <3>1. ASSUME NEW j \in Born, status[j] = "running" \/ (status[j] = "cancelled" /\ j \notin over)
          PROVE  jobAt'[id[j]] = j
      <4>1. jobAt[id[j]] = j /\ j # None /\ id[j] \in Ids
        BY <1>1, <2>3, <3>1 DEF HomeInv, Jobs, None
      <4>2. QED BY <2>2, <2>5, <4>1
    <3>2. QED BY <1>1, <2>3, <2>4, <2>5, <3>1
  <2>7. \A m \in timers' : jobAt'[m] # None /\ status'[jobAt'[m]] # "running"
    <3>1. \A m \in timers : m \in Ids /\ m # i
      BY <2>2, <2>3 DEF HomeInv, TypeInv, TableType
    <3>2. \A m \in timers : jobAt[m] \in Listed
      BY <2>3, <3>1 DEF HomeInv, Listed
    <3>3. \A m \in timers : jobAt[m] \in Jobs /\ jobAt[m] # n
      BY <1>1, <2>4, <3>2
    <3>4. QED BY <2>3, <2>5, <3>1, <3>3 DEF HomeInv
  <2>8. QED BY <2>6, <2>7 DEF HomeInv
<1>5. ASSUME NEW j \in Jobs, JobEnds(j) PROVE HomeInv'
  <2>1. /\ status[j] \in {"running", "cancelled"} /\ j \notin over /\ over' = over \cup {j}
        /\ timers' = timers \cup {id[j]}
        /\ status' = IF status[j] = "cancelled" THEN status
                     ELSE [status EXCEPT ![j] = "finished"]
        /\ UNCHANGED <<nextJob, id, jobAt, disposing>>
    BY <1>5 DEF JobEnds
  <2>2. j \in Born /\ Born' = Born
    BY <2>1 DEF TypeInv, JobType, Born
  <2>3. /\ status'[j] \in {"finished", "cancelled"}
        /\ \A k \in Jobs \ {j} : status'[k] = status[k]
    BY <2>1 DEF TypeInv, JobType
  <2>4. disposing # "done" => jobAt[id[j]] = j /\ j # None
    BY <2>1, <2>2 DEF HomeInv, Jobs, None
  <2>5. \A m \in timers : jobAt[m] \in Jobs \cup {None}
    BY DEF TypeInv, TableType
  <2>6. QED BY <1>1, <2>1, <2>2, <2>3, <2>4, <2>5 DEF HomeInv
<1>6. ASSUME NEW j \in Jobs, Cancel(j) \/ AbortWait(j) PROVE HomeInv'
  <2>1. CancelAt(id[j]) /\ UNCHANGED <<nextJob, id, over, jobAt, disposing>>
    BY <1>6 DEF Cancel, AbortWait
  <2>2. j \in Born
    BY <1>1, <1>6 DEF Cancel, AbortWait, TypeInv, PartiesType
  <2>3. QED BY <1>1, <1>2, <2>1, <2>2, HomeCancel
<1>7. ASSUME NEW i \in Ids, Evict(i) PROVE HomeInv'
  <2>1. /\ i \in timers /\ ~Retained(i)
        /\ jobAt' = [jobAt EXCEPT ![i] = None] /\ timers' = timers \ {i}
        /\ UNCHANGED <<jobVars, disposing>>
    BY <1>7 DEF Evict
  <2>2. Born' = Born
    BY <2>1 DEF Born
  <2>3. ASSUME disposing # "done", NEW j \in Born,
               status[j] = "running" \/ (status[j] = "cancelled" /\ j \notin over)
        PROVE  jobAt'[id[j]] = j
    <3>1. jobAt[id[j]] = j /\ id[j] \in Ids
      BY <1>1, <2>3 DEF HomeInv
    <3>2. id[j] # i
      <4>1. CASE status[j] = "running"
        BY <2>1, <2>3, <3>1, <4>1 DEF HomeInv
      <4>2. CASE status[j] = "cancelled" /\ j \notin over
        BY <1>1, <2>1, <4>2 DEF Retained
      <4>3. QED BY <2>3, <4>1, <4>2
    <3>3. QED BY <2>1, <3>1, <3>2 DEF TypeInv, TableType
  <2>4. ASSUME disposing # "done", NEW m \in timers, m # i
        PROVE  jobAt'[m] # None /\ status[jobAt'[m]] # "running"
    <3>1. jobAt'[m] = jobAt[m]
      BY <2>1, <2>4 DEF TypeInv, TableType
    <3>2. QED BY <2>4, <3>1 DEF HomeInv
  <2>5. QED BY <2>1, <2>2, <2>3, <2>4 DEF HomeInv
<1>8. CASE BeginDispose
  <2>1. /\ disposing = "no" /\ status' = StatusAfterCancelAll /\ timers' = IdsOf(Running)
        /\ UNCHANGED <<nextJob, id, over, jobAt>>
    BY <1>8 DEF BeginDispose
  <2>2. Born' = Born
    BY <2>1 DEF Born
  <2>3. \A j \in Jobs : status'[j] = IF j \in Running THEN "cancelled" ELSE status[j]
    BY <2>1 DEF StatusAfterCancelAll
  <2>4. \A j \in Running : j \in Jobs /\ j # None /\ jobAt[id[j]] = j
    BY <1>1 DEF Listed
  <2>5. \A m \in timers' : jobAt'[m] # None /\ status'[jobAt'[m]] # "running"
    BY <2>1, <2>3, <2>4 DEF IdsOf
  <2>6. ASSUME NEW j \in Born,
               status'[j] = "running" \/ (status'[j] = "cancelled" /\ j \notin over)
        PROVE  jobAt[id[j]] = j
    BY <1>1, <2>1, <2>3, <2>4, <2>6 DEF HomeInv
  <2>7. QED BY <2>1, <2>2, <2>5, <2>6 DEF HomeInv
<1>9. CASE EndDispose
  BY <1>9 DEF EndDispose, HomeInv
<1>10. ASSUME NEW j \in Jobs, Collect(j) \/ Background(j) \/ EndHandOver(j) \/ DrainNext(j)
       PROVE  HomeInv'
  <2>1. UNCHANGED <<jobVars, jobAt, timers>>
    BY <1>10 DEF Collect, Background, EndHandOver, DrainNext
  <2>2. QED BY <1>3, <2>1
<1>11. CASE \/ \E js \in SUBSET Jobs : Show(js) \/ \E p \in Polls : StartPoll(p, js)
            \/ \E p \in Polls : EndPoll(p)
  <2>1. UNCHANGED <<jobVars, jobAt, timers>>
    BY <1>11 DEF Show, StartPoll, EndPoll
  <2>2. QED BY <1>3, <2>1
<1>12. CASE LoopStep \/ BeginDrain \/ Idle \/ UNCHANGED vars
  <2>1. UNCHANGED <<jobVars, jobAt, timers>>
    BY <1>12 DEF LoopStep, WakeLoop, ResumeLoop, EndLoop, BeginDrain, Idle
  <2>2. QED BY <1>3, <2>1
<1>13. QED
  BY <1>4, <1>5, <1>6, <1>7, <1>8, <1>9, <1>10, <1>11, <1>12 DEF Next

\* Deliveries do not bring back what is not delivered any more.
LEMMA QuietKept ==
    ASSUME TypeInv, PlaceInv, DeliveryStep, QuietInv, Disposed, UNCHANGED <<id, suppressed, shown>>
    PROVE  QuietInv'
<1>1. /\ queue \in Seq(Jobs) /\ flight \in [Jobs -> Flights]
      /\ shown \subseteq Jobs /\ ToSet(queue) \subseteq Jobs
      /\ over \subseteq over'
  <2>1. queue \in Seq(Jobs) /\ flight \in [Jobs -> Flights]
    BY DEF TypeInv, DeliveryType
  <2>2. ToSet(queue) \subseteq Jobs
    BY <2>1 DEF ToSet
  <2>3. QED BY <2>1, <2>2, BornFacts DEF TypeInv, PartiesType, DeliveryStep
<1>2. \A j \in Jobs : Own(j)' = Own(j)
  BY DEF Own
<1>3. ASSUME NEW q, NEW fl, Takes(q, fl),
             \A j \in ToSet(q) : j \in ToSet(queue) \/
                 (j \in Jobs /\ id[j] \notin suppressed /\ (j \notin over \/ flight[j] # "no")),
             \A j \in Jobs : flight[j] = "no" => fl[j] = "no"
      PROVE  QuietInv'
  <2> SUFFICES ASSUME disposing # "done" PROVE QuietInv'
    BY DEF QuietInv, Disposed
  <2>1. \A j \in ToSet(queue') : id[j] \notin suppressed
    BY <1>3 DEF Takes, QuietInv
  <2>2. ASSUME NEW j \in shown, Own(j), id[j] \notin suppressed
        PROVE  j \in over' /\ j \notin ToSet(queue') /\ flight'[j] = "no"
    <3>1. j \in Jobs /\ j \in over /\ j \notin ToSet(queue) /\ flight[j] = "no"
      BY <1>1, <2>2 DEF QuietInv
    <3>2. j \notin ToSet(q) /\ fl[j] = "no"
      BY <1>3, <3>1
    <3>3. QED BY <1>1, <1>3, <3>1, <3>2 DEF Takes
  <2>3. QED BY <1>1, <1>2, <2>1, <2>2 DEF QuietInv
<1>4. CASE Takes(queue, flight)
  BY <1>3, <1>4
<1>5. ASSUME NEW j \in Jobs \ over, ~Suppressed(j), Takes(Append(queue, j), flight)
      PROVE  QuietInv'
  <2>1. ToSet(Append(queue, j)) \subseteq ToSet(queue) \cup {j}
    BY <1>1, AppendedList
  <2>2. \A k \in ToSet(Append(queue, j)) : k \in ToSet(queue) \/
            (k \in Jobs /\ id[k] \notin suppressed /\ (k \notin over \/ flight[k] # "no"))
    BY <1>5, <2>1 DEF Suppressed
  <2>3. QED BY <1>3, <1>5, <2>2
<1>6. ASSUME NEW j \in Jobs, flight[j] # "no",
             \/ Takes(queue, [flight EXCEPT ![j] = "no"])
             \/ ~Suppressed(j) /\ Takes(Append(queue, j), [flight EXCEPT ![j] = "no"])
      PROVE  QuietInv'
  <2>1. PICK landed : landed = [flight EXCEPT ![j] = "no"]
    OBVIOUS
  <2>2. \A k \in Jobs : flight[k] = "no" => landed[k] = "no"
    BY <1>1, <2>1
  <2>3. CASE Takes(queue, landed)
    BY <1>3, <2>2, <2>3
  <2>4. CASE ~Suppressed(j) /\ Takes(Append(queue, j), landed)
    <3>1. ToSet(Append(queue, j)) \subseteq ToSet(queue) \cup {j}
      BY <1>1, AppendedList
    <3>2. \A k \in ToSet(Append(queue, j)) : k \in ToSet(queue) \/
              (k \in Jobs /\ id[k] \notin suppressed /\ (k \notin over \/ flight[k] # "no"))
      BY <1>6, <2>4, <3>1 DEF Suppressed
    <3>3. QED BY <1>3, <2>2, <2>4, <3>2
  <2>5. QED BY <1>6, <2>1, <2>3, <2>4
<1>7. QED BY <1>4, <1>5, <1>6 DEF DeliveryStep

\* What is shown is acknowledged in the same step.
LEMMA QuietAcknowledge ==
    ASSUME TypeInv, QuietInv, Disposed, NEW js \in SUBSET Born, NEW w,
           Acknowledge(IdsOf(js), w), shown' = shown \cup js, UNCHANGED <<id, over>>
    PROVE  QuietInv'
<1>1. queue \in Seq(Jobs) /\ flight \in [Jobs -> Flights] /\ LoopType
  BY DEF TypeInv, DeliveryType
<1>2. /\ ToSet(queue') \subseteq ToSet(queue) /\ flight' = flight
      /\ \A j \in ToSet(queue') : id[j] \notin suppressed'
  BY <1>1, AcknowledgeTakes DEF Takes
<1>3. suppressed' = suppressed \cup IdsOf(js)
  BY DEF Acknowledge
<1>4. \A j \in js : id[j] \in suppressed'
  BY <1>3 DEF IdsOf
<1>5. \A j \in Jobs : Own(j)' = Own(j)
  BY DEF Own
<1>6. shown \subseteq Jobs /\ js \subseteq Jobs
  BY BornFacts DEF TypeInv, PartiesType
<1>7. QED BY <1>2, <1>3, <1>4, <1>5, <1>6 DEF QuietInv, Disposed

LEMMA QuietStep ==
    ASSUME LongRetention, TypeInv, PlaceInv, HomeInv, QuietInv, [Next]_vars
    PROVE  QuietInv'
<1>1. /\ nextJob \in Nat /\ Born \subseteq Jobs /\ MaxJobs \in Nat
      /\ Listed \subseteq Born /\ Running \subseteq Listed
      /\ \A k \in Born : id[k] \in Ids
  BY BornFacts
<1>2. Disposed /\ DeliveryStep
  BY DisposedStep, TypeStep
<1>3. ASSUME UNCHANGED <<id, suppressed, shown>> PROVE QuietInv'
  BY <1>2, <1>3, QuietKept
<1>4. shown \subseteq Born /\ over \subseteq Born /\ waiter \subseteq Born
      /\ tracked \in [Polls -> SUBSET Born]
  BY DEF TypeInv, PartiesType
<1>5. ToSet(queue) \subseteq Born
  <2>1. ToSet(queue) \subseteq Jobs
    BY DEF TypeInv, DeliveryType, ToSet
  <2>2. QED BY <1>4, <2>1 DEF PlaceInv
<1>6. CASE Register
  <2>1. PICK n \in Jobs : n = nextJob
    BY <1>1, <1>6 DEF Register, Jobs, TypeInv, JobType
  <2>2. PICK i \in Ids : i = NewId
    BY <1>6, NewIdIsFree DEF Register
  <2>3. /\ id' = [id EXCEPT ![n] = i] /\ suppressed' = suppressed \ {i}
        /\ UNCHANGED <<over, deliveries, shown>> /\ disposing # "done"
    BY <1>6, <2>1, <2>2 DEF Register
  <2>4. id'[n] = i /\ \A j \in Jobs \ {n} : id'[j] = id[j]
    BY <2>3 DEF TypeInv, JobType
  <2>5. \A j \in Born : j \in Jobs /\ j # n /\ n > j
    BY <1>1, <2>1 DEF Born
  <2>6. ASSUME NEW j \in Born, Own(j)' PROVE Own(j) /\ id[j] # i
    <3>1. id'[n] # id'[j]
      BY <2>5, <2>6 DEF Own
    <3>2. id[j] # i
      BY <2>4, <2>5, <3>1
    <3>3. id[n] # id[j]
      <4>1. n \notin Born
        BY <2>5
      <4>2. id[n] = None /\ id[j] # None
        BY <1>1, <2>5, <4>1 DEF TypeInv, JobType
      <4>3. QED BY <4>2
    <3>4. Own(j)
      <4>1. \A k \in Jobs : k > j /\ k # n => id[k] # id[j]
        BY <2>4, <2>5, <2>6 DEF Own
      <4>2. QED BY <3>3, <4>1 DEF Own
    <3>5. QED BY <3>2, <3>4
  <2>7. \A j \in ToSet(queue') : id'[j] \notin suppressed'
    BY <1>5, <2>3, <2>4, <2>5 DEF QuietInv
  <2>8. ASSUME NEW j \in shown, Own(j)'
        PROVE  \/ id'[j] \in suppressed'
               \/ j \in over /\ j \notin ToSet(queue) /\ flight[j] = "no"
    <3>1. j \in Born /\ Own(j) /\ id[j] # i /\ id'[j] = id[j]
      BY <1>4, <2>4, <2>5, <2>6, <2>8
    <3>2. QED BY <2>3, <2>8, <3>1 DEF QuietInv
  <2>9. QED BY <2>3, <2>7, <2>8 DEF QuietInv
<1>7. ASSUME NEW j \in Jobs, Collect(j) \/ AbortWait(j) PROVE QuietInv'
  <2>1. /\ {j} \in SUBSET Born /\ IdsOf({j}) = {id[j]}
        /\ Acknowledge({id[j]}, watched) /\ shown' = shown \cup {j} /\ UNCHANGED <<id, over>>
    BY <1>4, <1>7 DEF Collect, AbortWait, IdsOf
  <2>2. QED BY <1>2, <2>1, QuietAcknowledge
<1>8. ASSUME NEW js \in SUBSET Born, NEW w, BuildResult(js, w), UNCHANGED <<id, over>>
      PROVE  QuietInv'
  <2>1. \A j \in js : Latest(j) \in Born
    <3>1. \A j \in js : jobAt[id[j]] # None => jobAt[id[j]] \in Listed
      BY <1>1 DEF Listed
    <3>2. QED BY <1>1, <3>1 DEF Latest
  <2>2. PICK ended \in SUBSET Born : shown' = shown \cup ended /\ Acknowledge(IdsOf(ended), w)
    BY <1>8, <2>1 DEF BuildResult
  <2>3. QED BY <1>2, <1>8, <2>2, QuietAcknowledge
<1>9. ASSUME NEW js \in SUBSET Jobs, Show(js) PROVE QuietInv'
  <2>1. js \in SUBSET Born /\ BuildResult(js, watched) /\ UNCHANGED <<id, over>>
    BY <1>1, <1>9 DEF Show
  <2>2. QED BY <1>8, <2>1
<1>10. ASSUME NEW p \in Polls, EndPoll(p) PROVE QuietInv'
  <2>1. PICK js \in SUBSET Born : js = tracked[p]
    BY <1>4
  <2>2. \E w : BuildResult(js, w) /\ UNCHANGED <<id, over>>
    BY <1>10, <2>1 DEF EndPoll
  <2>3. QED BY <1>8, <2>2
<1>11. ASSUME NEW i \in Ids, Evict(i) PROVE QuietInv'
  <2>1. /\ i \in timers /\ ~Retained(i) /\ suppressed' = suppressed \ {i}
        /\ UNCHANGED <<id, over, status, shown, queue, flight, disposing>>
    BY <1>11 DEF Evict
  <2>2. ASSUME disposing # "done", NEW j \in shown, Own(j), id[j] \in suppressed, id[j] = i
        PROVE  j \in over /\ j \notin ToSet(queue) /\ flight[j] = "no"
    <3>1. j \in Born /\ j \in Jobs
      BY <1>1, <1>4
    <3>2. j \notin ToSet(queue)
      BY <2>2 DEF QuietInv
    <3>3. flight[j] = "no" /\ ~(status[j] = "cancelled" /\ j \notin over)
      BY <2>1, <2>2, <3>1 DEF Retained
    <3>4. status[j] # "running"
      BY <2>1, <2>2, <3>1 DEF HomeInv
    <3>5. status[j] \in {"finished", "cancelled"} /\ (status[j] = "finished" => j \in over)
      BY <3>1, <3>4 DEF TypeInv, JobType
    <3>6. QED BY <3>2, <3>3, <3>5
  <2>3. \A j \in Jobs : Own(j)' = Own(j)
    BY <2>1 DEF Own
  <2>4. \A j \in shown : j \in Jobs
    BY <1>1, <1>4
  <2>5. QED BY <2>1, <2>2, <2>3, <2>4 DEF QuietInv
<1>12. CASE EndDispose
  BY <1>12 DEF EndDispose, QuietInv
<1>13. ASSUME NEW j \in Jobs,
              JobEnds(j) \/ Cancel(j) \/ Background(j) \/ EndHandOver(j) \/ DrainNext(j)
       PROVE  QuietInv'
  <2>1. UNCHANGED <<id, suppressed, shown>>
    BY <1>13 DEF JobEnds, Cancel, Background, EndHandOver, DrainNext
  <2>2. QED BY <1>3, <2>1
<1>14. CASE \/ \E js \in SUBSET Jobs : \E p \in Polls : StartPoll(p, js)
            \/ LoopStep \/ BeginDispose \/ BeginDrain \/ Idle \/ UNCHANGED vars
  <2>1. UNCHANGED <<id, suppressed, shown>>
    BY <1>14 DEF StartPoll, LoopStep, WakeLoop, ResumeLoop, EndLoop, BeginDispose, BeginDrain, Idle
  <2>2. QED BY <1>3, <2>1
<1>15. QED BY <1>6, <1>7, <1>9, <1>10, <1>11, <1>12, <1>13, <1>14 DEF Next

Quiet == Placed /\ HomeInv /\ QuietInv

LEMMA QuietInit == Init => Quiet
<1> SUFFICES ASSUME Init PROVE Quiet
  OBVIOUS
<1>1. Born = {} /\ DOMAIN << >> = {}
  BY DEF Init, Born
<1>2. HomeInv /\ QuietInv
  BY <1>1 DEF Init, HomeInv, QuietInv, ToSet
<1>3. QED BY <1>2, PlacedInit DEF Quiet

\* A result that a tool call has reported is not delivered as well afterwards,
\* also when it was on its way, as long as entries of #jobs outlast what still
\* refers to them.
THEOREM ReportedCorrect ==
    ASSUME LongRetention
    PROVE  Spec => ReportedNotDelivered
<1>1. Quiet /\ [Next]_vars => Quiet'
  BY TypeStep, PlaceStep, HomeStep, QuietStep DEF Quiet, Placed
<1>2. ASSUME Quiet, [Next]_vars
      PROVE  disposing # "done" =>
                 \A j \in Jobs : j \in shown /\ Own(j) => told'[j] = told[j]
  <2> SUFFICES ASSUME disposing # "done", NEW j \in Jobs, j \in shown, Own(j)
               PROVE  told'[j] = told[j]
    OBVIOUS
  <2>1. id[j] \in suppressed \/ flight[j] = "no"
    BY <1>2 DEF Quiet, QuietInv
  <2>2. told \in [Jobs -> Nat]
    BY <1>2 DEF Quiet, Placed, TypeInv, DeliveryType
  <2>3. DeliveryStep
    BY <1>2, TypeStep DEF Quiet, Placed
  <2>4. CASE told' = told
    BY <2>4
  <2>5. ASSUME NEW k \in Jobs, flight[k] # "no", Wanted(k), told' = [told EXCEPT ![k] = @ + 1]
        PROVE  told'[j] = told[j]
    BY <2>1, <2>2, <2>5 DEF Wanted, Suppressed
  <2>6. QED BY <2>3, <2>4, <2>5 DEF DeliveryStep
<1>3. QED BY <1>1, <1>2, QuietInit, PTL DEF Spec, ReportedNotDelivered
=============================================================================
