-------------------------- MODULE YieldQueue_proofs --------------------------
(***************************************************************************)
(* Proofs about YieldQueue for any number of entries, prompts, aborts,     *)
(* failed runs and continuations.                                          *)
(***************************************************************************)
EXTENDS YieldQueue, SequenceTheorems, FiniteSetTheorems, TLAPS

\* The groups of variables that actions leave alone are always expanded.
USE DEF vars, queue, agent, session, counters
-----------------------------------------------------------------------------
(***************************************************************************)
(* Prompts in flight.  The count is taken back at most once for each       *)
(* prompt that counted itself, and an abort only lowers it.                *)
(***************************************************************************)
Live == {p \in Prompts : prompts[p].at \notin {"none", "over"}}

\* The parts of TypeOK that the count depends on.
PromptType ==
    /\ prompts \in [Prompts -> [at : {"none", "setup", "asking", "running", "recovery", "over"},
                                generation : 0..MaxAborts]]
    /\ generation \in 0..MaxAborts
    /\ inFlight \in Nat

\* Prompts are finitely many.
LEMMA LiveFinite ==
    IsFiniteSet(Prompts) /\ IsFiniteSet(Live) /\ Cardinality(Live) \in Nat
<1>1. IsFiniteSet(Prompts) /\ Live \subseteq Prompts
  BY BoundsAssumption, FS_Interval DEF Prompts, Live
<1>2. QED BY <1>1, FS_Subset, FS_CardinalityType

\* A prompt that ends takes itself out of the count: once, as it is live before
\* and not after, and never below zero.
LEMMA EndsStep ==
    ASSUME PromptType, NoBusyForEver, NEW p \in Prompts, p \in Live, PromptEnds(p)
    PROVE  inFlight' \in Nat /\ inFlight' <= Cardinality(Live')
<1>1. Live' = Live \ {p}
  BY DEF PromptType, PromptEnds, Live
<1>2. Cardinality(Live') = Cardinality(Live) - 1
  BY <1>1, LiveFinite, FS_RemoveElement
<1>3. inFlight <= Cardinality(Live)
  BY DEF NoBusyForEver, Live
<1>4. inFlight' = IF inFlight > 0 THEN inFlight - 1 ELSE 0
  BY DEF PromptEnds, Decrement
<1>5. Cardinality(Live) > 0
  <2>1. Cardinality(Live') \in Nat
    BY <1>1, LiveFinite, FS_RemoveElement, FS_CardinalityType
  <2>2. QED BY <1>2, <2>1, LiveFinite
<1>6. QED BY <1>2, <1>3, <1>4, <1>5, LiveFinite DEF PromptType

LEMMA CountStep ==
    ASSUME PromptType, NoBusyForEver, [Next]_vars
    PROVE  PromptType' /\ NoBusyForEver'
<1> USE DEF PromptType
<1>1. inFlight <= Cardinality(Live) /\ Cardinality(Live) \in Nat
  BY LiveFinite DEF NoBusyForEver, Live
<1>2. SUFFICES PromptType' /\ inFlight' <= Cardinality(Live')
  BY DEF NoBusyForEver, Live
<1>3. CASE UNCHANGED <<prompts, generation, inFlight>>
  BY <1>1, <1>3 DEF Live
<1>4. CASE EndRun /\ UNCHANGED <<generation, inFlight>>
  <2>1. prompts' = [p \in Prompts |-> IF prompts[p].at = "running"
                                     THEN [prompts[p] EXCEPT !.at = "recovery"] ELSE prompts[p]]
    BY <1>4 DEF EndRun
  <2>2. PromptType'
    BY <1>4, <2>1
  <2>3. Live' = Live
    BY <2>1 DEF Live
  <2>4. QED BY <1>1, <1>4, <2>2, <2>3
<1>5. ASSUME NEW p \in Prompts, PromptBegins(p) PROVE PromptType' /\ inFlight' <= Cardinality(Live')
  <2>1. /\ prompts[p].at = "none"
        /\ prompts' = [prompts EXCEPT ![p] = [at |-> "setup", generation |-> generation]]
        /\ inFlight' = inFlight + 1 /\ generation' = generation
    BY <1>5 DEF PromptBegins
  <2>2. Live' = Live \cup {p} /\ p \notin Live
    BY <2>1 DEF Live
  <2>3. Cardinality(Live') = Cardinality(Live) + 1
    BY <2>2, LiveFinite, FS_AddElement
  <2>4. PromptType'
    BY <2>1
  <2>5. QED BY <1>1, <2>1, <2>3, <2>4
<1>6. ASSUME NEW p \in Prompts, p \in Live, PromptEnds(p), generation' = generation
      PROVE  PromptType' /\ inFlight' <= Cardinality(Live')
  <2>1. prompts' = [prompts EXCEPT ![p].at = "over"]
    BY <1>6 DEF PromptEnds
  <2>2. QED BY <1>6, <2>1, EndsStep
<1>7. ASSUME NEW p \in Prompts, p \in Live, NEW at \in {"asking", "running"},
             prompts' = [prompts EXCEPT ![p].at = at], UNCHANGED <<generation, inFlight>>
      PROVE  PromptType' /\ inFlight' <= Cardinality(Live')
  <2>1. Live' = Live
    BY <1>7 DEF Live
  <2>2. QED BY <1>1, <1>7, <2>1
<1>8. ASSUME NEW p \in Prompts, PromptStep(p) PROVE PromptType' /\ inFlight' <= Cardinality(Live')
  <2>1. p \in Live /\ generation' = generation
    BY <1>8 DEF PromptStep, PromptSetUp, PromptAsks, PromptRecovers, Live
  <2>2. \/ PromptEnds(p)
        \/ /\ \E at \in {"asking", "running"} : prompts' = [prompts EXCEPT ![p].at = at]
           /\ inFlight' = inFlight
    BY <1>8 DEF PromptStep, PromptSetUp, PromptAsks, PromptRecovers
  <2>3. QED BY <1>6, <1>7, <2>1, <2>2
<1>9. CASE AbortBegins
  BY <1>1, <1>9, BoundsAssumption DEF AbortBegins, Live
<1>10. CASE AbortEnds
  BY <1>10, LiveFinite, <1>1 DEF AbortEnds, Live
<1>11. QED
  BY <1>3, <1>4, <1>5, <1>8, <1>9, <1>10
  DEF Next, Enqueue, Acknowledge, RunStep, RunYields, RunPolls, RunStops, IdleFlush, Maintain,
      ScheduleIdleFlush

LEMMA CountInit == Init => PromptType /\ NoBusyForEver
<1> SUFFICES ASSUME Init PROVE PromptType /\ NoBusyForEver
  OBVIOUS
<1>1. PromptType
  BY BoundsAssumption DEF Init, PromptType
<1>2. inFlight = 0 /\ inFlight <= Cardinality(Live)
  BY LiveFinite DEF Init
<1>3. QED BY <1>1, <1>2 DEF NoBusyForEver, Live

\* No count of prompts in flight outlives the prompts, for any number of them
\* and of aborts: the session does not stay busy for ever.
THEOREM BusyCorrect == Spec => []NoBusyForEver
<1>1. Init => PromptType /\ NoBusyForEver
  BY CountInit
<1>2. PromptType /\ NoBusyForEver /\ [Next]_vars => PromptType' /\ NoBusyForEver'
  BY CountStep
<1>3. QED BY <1>1, <1>2, PTL DEF Spec
-----------------------------------------------------------------------------
(***************************************************************************)
(* Entries.  An entry is in one place: in the queue of one kind, in one    *)
(* follow-up message, or told.                                             *)
(***************************************************************************)
Results == ToSet(entries["async-result"])
Notifications == ToSet(entries["mcp-notification"])

\* What a list of messages says, and a list no two of whose messages say the same.
Said(messages) == UNION ToSet(messages)
Apart(messages) ==
    \A p, q \in DOMAIN messages : p # q => messages[p] \cap messages[q] = {}

EntryType ==
    /\ entries \in [ToSet(Kinds) -> Seq(Entries)]
    /\ followUps \in Seq(SUBSET Entries)
    /\ arrived \in 0..MaxEntries

\* EntriesAccounted says where entries are; the rest is needed when a message
\* is built of the kinds, and when messages are taken one after the other.
EntriesInv ==
    /\ EntriesAccounted
    /\ Results \cap Notifications = {}
    /\ Apart(followUps)

LEMMA KindsAre ==
    /\ ToSet(Kinds) = {"async-result", "mcp-notification"}
    /\ Kinds[1] = "async-result" /\ Kinds[2] = "mcp-notification"
    /\ Queued = Results \cup Notifications
<1>1. /\ ToSet(Kinds) = {"async-result", "mcp-notification"}
      /\ Kinds[1] = "async-result" /\ Kinds[2] = "mcp-notification"
  <2>1. DOMAIN Kinds = {1, 2}
    BY DEF Kinds
  <2>2. Kinds[1] = "async-result" /\ Kinds[2] = "mcp-notification"
    BY DEF Kinds
  <2>3. QED BY <2>1, <2>2 DEF ToSet
<1>2. QED BY <1>1 DEF Queued, Results, Notifications

\* Messages of two lists that have nothing in common.
LEMMA ConcatApart ==
    ASSUME NEW S, NEW s \in Seq(S), NEW t \in Seq(S)
    PROVE  /\ Said(s \o t) = Said(s) \cup Said(t)
           /\ Apart(s) /\ Apart(t) /\ Said(s) \cap Said(t) = {} => Apart(s \o t)
<1> PICK u : u = s \o t
  OBVIOUS
<1>1. /\ u \in Seq(S)
      /\ Len(u) = Len(s) + Len(t)
      /\ \A i \in 1..(Len(s) + Len(t)) : u[i] = IF i <= Len(s) THEN s[i] ELSE t[i - Len(s)]
  BY ConcatProperties
<1>2. Len(s) \in Nat /\ Len(t) \in Nat
  OBVIOUS
<1>3. DOMAIN s = 1..Len(s) /\ DOMAIN t = 1..Len(t) /\ DOMAIN u = 1..(Len(s) + Len(t))
  BY <1>1
<1>4. \A i \in DOMAIN u :
          \/ i \in DOMAIN s /\ u[i] = s[i]
          \/ i > Len(s) /\ i - Len(s) \in DOMAIN t /\ u[i] = t[i - Len(s)]
  BY <1>1, <1>2, <1>3
<1>5. \A i \in DOMAIN s : i \in DOMAIN u /\ u[i] = s[i]
  BY <1>1, <1>2, <1>3
<1>6. \A i \in DOMAIN t : Len(s) + i \in DOMAIN u /\ u[Len(s) + i] = t[i]
  BY <1>1, <1>2, <1>3
<1>7. ToSet(u) = ToSet(s) \cup ToSet(t)
  <2>1. ToSet(u) \subseteq ToSet(s) \cup ToSet(t)
    BY <1>4 DEF ToSet
  <2>2. ToSet(s) \subseteq ToSet(u)
    BY <1>5 DEF ToSet
  <2>3. ToSet(t) \subseteq ToSet(u)
    BY <1>6 DEF ToSet
  <2>4. QED BY <2>1, <2>2, <2>3
<1>8. ASSUME Apart(s), Apart(t), Said(s) \cap Said(t) = {}
      PROVE  Apart(u)
  <2> SUFFICES ASSUME NEW p \in DOMAIN u, NEW q \in DOMAIN u, p # q
               PROVE  u[p] \cap u[q] = {}
    BY DEF Apart
  <2>1. \A i \in DOMAIN s, j \in DOMAIN t : s[i] \cap t[j] = {}
    BY <1>8 DEF Said, ToSet
  <2>2. CASE p \in DOMAIN s /\ q \in DOMAIN s
    BY <1>5, <1>8, <2>2 DEF Apart
  <2>3. CASE p \in DOMAIN s /\ q \notin DOMAIN s
    BY <1>4, <1>5, <2>1, <2>3
  <2>4. CASE p \notin DOMAIN s /\ q \in DOMAIN s
    <3>1. u[p] = t[p - Len(s)] /\ p - Len(s) \in DOMAIN t /\ u[q] = s[q]
      BY <1>4, <1>5, <2>4
    <3>2. QED BY <2>1, <2>4, <3>1
  <2>5. CASE p \notin DOMAIN s /\ q \notin DOMAIN s
    <3>1. /\ u[p] = t[p - Len(s)] /\ p - Len(s) \in DOMAIN t
          /\ u[q] = t[q - Len(s)] /\ q - Len(s) \in DOMAIN t
      BY <1>4, <2>5
    <3>2. p - Len(s) # q - Len(s)
      BY <1>1, <1>2, <1>3
    <3>3. QED BY <1>8, <3>1, <3>2 DEF Apart
  <2>6. QED BY <2>2, <2>3, <2>4, <2>5
<1>9. QED BY <1>7, <1>8 DEF Said

\* The first message of a list, and the others.
LEMMA TailApart ==
    ASSUME NEW S, NEW s \in Seq(S), s # << >>
    PROVE  /\ Said(s) = Head(s) \cup Said(Tail(s))
           /\ Apart(s) => Apart(Tail(s)) /\ Head(s) \cap Said(Tail(s)) = {}
<1> PICK t : t = Tail(s)
  OBVIOUS
<1>1. /\ t \in Seq(S) /\ Len(t) = Len(s) - 1 /\ Len(s) \in Nat \ {0}
      /\ \A i \in 1..Len(t) : t[i] = s[i + 1]
      /\ Head(s) = s[1]
  BY HeadTailProperties, EmptySeq
<1>2. DOMAIN s = 1..Len(s) /\ DOMAIN t = 1..(Len(s) - 1)
  BY <1>1
<1>3. /\ \A i \in DOMAIN t : i + 1 \in DOMAIN s /\ i + 1 # 1 /\ t[i] = s[i + 1]
      /\ \A i \in DOMAIN s : i = 1 \/ (i - 1 \in DOMAIN t /\ t[i - 1] = s[i])
      /\ 1 \in DOMAIN s
  BY <1>1, <1>2
<1>4. ToSet(s) = {Head(s)} \cup ToSet(t)
  <2>1. ASSUME NEW i \in DOMAIN s PROVE s[i] \in {Head(s)} \cup ToSet(t)
    <3>1. CASE i = 1
      BY <1>1, <3>1
    <3>2. CASE i # 1
      BY <1>3, <3>2 DEF ToSet
    <3>3. QED BY <3>1, <3>2
  <2>2. Head(s) \in ToSet(s)
    BY <1>1, <1>3 DEF ToSet
  <2>3. ToSet(t) \subseteq ToSet(s)
    BY <1>3 DEF ToSet
  <2>4. ToSet(s) \subseteq {Head(s)} \cup ToSet(t)
    BY <2>1 DEF ToSet
  <2>5. QED BY <2>2, <2>3, <2>4
<1>5. ASSUME Apart(s) PROVE Apart(t) /\ Head(s) \cap Said(t) = {}
  <2>1. \A i \in DOMAIN t : t[i] \cap s[1] = {}
    BY <1>3, <1>5 DEF Apart
  <2>2. Apart(t)
    <3> SUFFICES ASSUME NEW p \in DOMAIN t, NEW q \in DOMAIN t, p # q
                 PROVE  t[p] \cap t[q] = {}
      BY DEF Apart
    <3>1. p + 1 # q + 1
      BY <1>2
    <3>2. QED BY <1>3, <1>5, <3>1 DEF Apart
  <2>3. QED BY <1>1, <2>1, <2>2 DEF Said, ToSet
<1>6. QED BY <1>4, <1>5 DEF Said

\* The messages of a flush say what is queued and not suppressed, each once.
LEMMA BatchesSay ==
    ASSUME EntryType, Results \cap Notifications = {}
    PROVE  /\ Batches \in Seq(SUBSET Entries)
           /\ Said(Batches) = Queued \ suppressed
           /\ Apart(Batches)
<1>1. /\ Survivors("async-result") = Results \ suppressed
      /\ Survivors("mcp-notification") = Notifications \ suppressed
  BY DEF Survivors, Results, Notifications
<1>2. Results \subseteq Entries /\ Notifications \subseteq Entries
  BY KindsAre DEF EntryType, Results, Notifications, ToSet
<1>3. ASSUME NEW k \in ToSet(Kinds), Survivors(k) \subseteq Entries
      PROVE  /\ Batch(k) \in Seq(SUBSET Entries)
             /\ Said(Batch(k)) = Survivors(k)
             /\ Apart(Batch(k))
  <2>1. CASE Survivors(k) = {}
    <3>1. Batch(k) = << >> /\ DOMAIN << >> = {}
      BY <2>1 DEF Batch
    <3>2. QED BY <2>1, <3>1, EmptySeq DEF Said, Apart, ToSet
  <2>2. CASE Survivors(k) # {}
    <3>1. PICK survivors \in SUBSET Entries : survivors = Survivors(k)
      BY <1>3
    <3>2. Batch(k) = <<survivors>>
      BY <2>2, <3>1 DEF Batch
    <3>3. <<survivors>> \in Seq(SUBSET Entries)
      OBVIOUS
    <3>4. DOMAIN <<survivors>> = {1} /\ <<survivors>>[1] = survivors
      OBVIOUS
    <3>5. QED BY <3>1, <3>2, <3>3, <3>4 DEF Said, Apart, ToSet
  <2>3. QED BY <2>1, <2>2
<1>4. /\ Batch("async-result") \in Seq(SUBSET Entries)
      /\ Said(Batch("async-result")) = Results \ suppressed
      /\ Apart(Batch("async-result"))
  BY <1>1, <1>2, <1>3, KindsAre
<1>5. /\ Batch("mcp-notification") \in Seq(SUBSET Entries)
      /\ Said(Batch("mcp-notification")) = Notifications \ suppressed
      /\ Apart(Batch("mcp-notification"))
  BY <1>1, <1>2, <1>3, KindsAre
<1>6. Batches = Batch("async-result") \o Batch("mcp-notification")
  BY KindsAre DEF Batches
<1>7. Batches \in Seq(SUBSET Entries)
  BY <1>4, <1>5, <1>6, ConcatProperties
<1>8. Said(Batch("async-result")) \cap Said(Batch("mcp-notification")) = {}
  BY <1>4, <1>5
<1>9. /\ Said(Batches) = Said(Batch("async-result")) \cup Said(Batch("mcp-notification"))
      /\ Apart(Batches)
  BY <1>4, <1>5, <1>6, <1>8, ConcatApart
<1>10. QED BY <1>4, <1>5, <1>7, <1>9, KindsAre

\* Types of what entries travel in.
LEMMA EntryTypeStep ==
    ASSUME EntryType, EntriesInv, [Next]_vars
    PROVE  EntryType'
<1> USE DEF EntryType
<1>1. Batches \in Seq(SUBSET Entries)
  BY BatchesSay DEF EntriesInv
<1>2. Drained \in [ToSet(Kinds) -> Seq(Entries)]
  BY EmptySeq DEF Drained
<1>3. ASSUME NEW k \in ToSet(Kinds), Enqueue(k) PROVE EntryType'
  <2>1. arrived + 1 \in Entries /\ arrived' = arrived + 1 /\ followUps' = followUps
    BY <1>3 DEF Enqueue
  <2>2. Append(entries[k], arrived + 1) \in Seq(Entries)
    BY <2>1, AppendProperties
  <2>3. entries' = [entries EXCEPT ![k] = Append(@, arrived + 1)]
    BY <1>3 DEF Enqueue
  <2>4. entries' \in [ToSet(Kinds) -> Seq(Entries)]
    BY <2>2, <2>3
  <2>5. arrived' \in 0..MaxEntries
    BY <2>1, BoundsAssumption DEF Entries
  <2>6. QED BY <2>1, <2>4, <2>5
<1>4. CASE RunYields
  <2>1. followUps \o Batches \in Seq(SUBSET Entries)
    BY <1>1, ConcatProperties
  <2>2. QED BY <1>2, <1>4, <2>1 DEF RunYields
<1>5. CASE RunPolls
  <2>1. CASE followUps # << >>
    <3>1. Tail(followUps) \in Seq(SUBSET Entries)
      BY <2>1, HeadTailProperties
    <3>2. QED BY <1>5, <2>1, <3>1 DEF RunPolls
  <2>2. CASE followUps = << >>
    BY <1>5, <2>2 DEF RunPolls
  <2>3. QED BY <2>1, <2>2
<1>6. CASE IdleFlush
  BY <1>2, <1>6 DEF IdleFlush
<1>7. CASE UNCHANGED <<entries, followUps, arrived>>
  BY <1>7
<1>8. QED
  BY <1>3, <1>4, <1>5, <1>6, <1>7
  DEF Next, Acknowledge, RunStep, RunStops, Maintain, PromptBegins, PromptStep, PromptSetUp,
      PromptAsks, PromptRecovers, AbortBegins, AbortEnds

\* Steps that take the queue as a whole leave it empty.
LEMMA DrainedQueue ==
    ASSUME entries' = Drained
    PROVE  Queued' = {} /\ Results' = {} /\ Notifications' = {}
<1>1. ToSet(<< >>) = {}
  BY DEF ToSet
<1>2. Results' = {} /\ Notifications' = {}
  BY <1>1, KindsAre DEF Drained, Results, Notifications
<1>3. Queued' = Results' \cup Notifications'
  BY KindsAre DEF Queued, Results, Notifications
<1>4. QED BY <1>2, <1>3

\* An entry moves from the queue to a message and from there to the model, and
\* is never in two places.
LEMMA EntriesStep ==
    ASSUME EntryType, EntriesInv, [Next]_vars
    PROVE  EntriesInv'
<1>1. Injected = Said(followUps) /\ Injected' = Said(followUps')
  BY DEF Injected, Said
<1>2. /\ 1..arrived = Queued \cup Injected \cup told \cup suppressed
      /\ told \cap (Queued \cup Injected) = {}
      /\ Queued \cap Injected = {}
      /\ Results \cap Notifications = {} /\ Apart(followUps)
      /\ Queued = Results \cup Notifications
  BY KindsAre DEF EntriesInv, EntriesAccounted
<1>3. Queued' = Results' \cup Notifications'
  BY KindsAre DEF Queued, Results, Notifications
<1>4. SUFFICES /\ 1..arrived' = Queued' \cup Injected' \cup told' \cup suppressed'
               /\ told' \cap (Queued' \cup Injected') = {}
               /\ Queued' \cap Injected' = {}
               /\ Results' \cap Notifications' = {} /\ Apart(followUps')
  BY DEF EntriesInv, EntriesAccounted
<1>5. Said(Batches) = Queued \ suppressed /\ Apart(Batches) /\ Batches \in Seq(SUBSET Entries)
  BY <1>2, BatchesSay
<1>6. ASSUME NEW k \in ToSet(Kinds), Enqueue(k)
      PROVE  EntriesInv'
  <2>1. /\ UNCHANGED <<followUps, told, suppressed>>
        /\ arrived' = arrived + 1
        /\ entries' = [entries EXCEPT ![k] = Append(@, arrived + 1)]
    BY <1>6 DEF Enqueue
  <2>2. 1..arrived' = 1..arrived \cup {arrived + 1} /\ arrived + 1 \notin 1..arrived
    BY <2>1 DEF EntryType
  <2>3. \A l \in ToSet(Kinds) : ToSet(entries'[l]) =
            IF l = k THEN ToSet(entries[l]) \cup {arrived + 1} ELSE ToSet(entries[l])
    <3>1. arrived + 1 \in Entries
      BY <1>6 DEF Enqueue
    <3>2. ToSet(Append(entries[k], arrived + 1)) = ToSet(entries[k]) \cup {arrived + 1}
      <4>1. PICK s \in Seq(Entries) : s = entries[k]
        BY DEF EntryType
      <4>2. PICK t : t = Append(s, arrived + 1)
        OBVIOUS
      <4>3. /\ t \in Seq(Entries) /\ Len(t) = Len(s) + 1 /\ Len(s) \in Nat
            /\ \A i \in 1..Len(s) : t[i] = s[i]
            /\ t[Len(s) + 1] = arrived + 1
        BY <3>1, <4>2, AppendProperties
      <4>4. DOMAIN s = 1..Len(s) /\ DOMAIN t = 1..(Len(s) + 1)
        BY <4>3
      <4>5. ToSet(t) = ToSet(s) \cup {arrived + 1}
        BY <4>3, <4>4 DEF ToSet
      <4>6. QED BY <4>1, <4>2, <4>5
    <3>3. QED BY <2>1, <3>2 DEF EntryType
  <2>4. \/ Results' = Results \cup {arrived + 1} /\ Notifications' = Notifications
        \/ Results' = Results /\ Notifications' = Notifications \cup {arrived + 1}
    BY <2>3, KindsAre DEF Results, Notifications
  <2>5. Injected' = Injected
    BY <1>1, <2>1
  <2>6. arrived + 1 \notin Queued \cup Injected \cup told \cup suppressed
    BY <1>2, <2>2
  <2>7. QED
    BY <1>2, <1>3, <2>1, <2>2, <2>4, <2>5, <2>6 DEF EntriesInv, EntriesAccounted
<1>7. ASSUME NEW e \in Entries, Acknowledge(e) PROVE EntriesInv'
  <2>1. UNCHANGED <<followUps, told, arrived, entries>> /\ suppressed' = suppressed \cup {e}
    BY <1>7 DEF Acknowledge
  <2>2. e \in Queued
    BY <1>7, KindsAre DEF Acknowledge, Results
  <2>3. /\ Queued' = Queued /\ Injected' = Injected
        /\ Results' = Results /\ Notifications' = Notifications
    BY <2>1 DEF Queued, Injected, Results, Notifications
  <2>4. QED BY <1>2, <2>1, <2>2, <2>3 DEF EntriesInv, EntriesAccounted
<1>8. CASE RunYields
  <2>1. entries' = Drained /\ UNCHANGED <<told, suppressed, arrived>>
    BY <1>8 DEF RunYields
  <2>2. PICK list : list = followUps \o Batches
    OBVIOUS
  <2>3. Said(list) = Said(followUps) \cup Said(Batches)
    BY <1>5, <2>2, ConcatApart DEF EntryType
  <2>4. Said(followUps) \cap Said(Batches) = {}
    BY <1>1, <1>2, <1>5
  <2>5. Apart(list)
    BY <1>2, <1>5, <2>2, <2>4, ConcatApart DEF EntryType
  <2>6. followUps' = list
    BY <1>8, <2>2 DEF RunYields
  <2>7. QED
    BY <1>1, <1>2, <1>5, <2>1, <2>3, <2>5, <2>6, DrainedQueue DEF EntriesInv, EntriesAccounted
<1>9. CASE RunPolls
  <2>1. UNCHANGED <<entries, suppressed, arrived>>
    BY <1>9 DEF RunPolls
  <2>2. Queued' = Queued /\ Results' = Results /\ Notifications' = Notifications
    BY <2>1 DEF Queued, Results, Notifications
  <2>3. CASE followUps # << >>
    <3>1. followUps' = Tail(followUps) /\ told' = told \cup Head(followUps)
      BY <1>9, <2>3 DEF RunPolls
    <3>2. /\ Said(followUps) = Head(followUps) \cup Said(followUps')
          /\ Apart(followUps') /\ Head(followUps) \cap Said(followUps') = {}
      BY <1>2, <2>3, <3>1, TailApart DEF EntryType
    <3>3. QED
      BY <1>1, <1>2, <2>1, <2>2, <3>1, <3>2 DEF EntriesInv, EntriesAccounted
  <2>4. CASE followUps = << >>
    <3>1. UNCHANGED <<followUps, told>>
      BY <1>9, <2>4 DEF RunPolls
    <3>2. QED BY <1>1, <1>2, <2>1, <2>2, <3>1 DEF EntriesInv, EntriesAccounted
  <2>5. QED BY <2>3, <2>4
<1>10. CASE IdleFlush
  <2>1. UNCHANGED <<followUps, suppressed, arrived>>
    BY <1>10 DEF IdleFlush
  <2>2. CASE UNCHANGED <<entries, told>>
    BY <1>1, <1>2, <2>1, <2>2
    DEF Queued, Results, Notifications, EntriesInv, EntriesAccounted
  <2>3. CASE entries' = Drained /\ told' = told \cup Said(Batches)
    BY <1>1, <1>2, <1>5, <2>1, <2>3, DrainedQueue DEF EntriesInv, EntriesAccounted
  <2>4. CASE entries' = Drained /\ told' = told /\ Batches = << >>
    <3>1. Said(Batches) = {}
      BY <2>4 DEF Said, ToSet
    <3>2. QED
      BY <1>1, <1>2, <1>5, <2>1, <2>4, <3>1, DrainedQueue DEF EntriesInv, EntriesAccounted
  <2>5. QED BY <1>10, <2>2, <2>3, <2>4 DEF IdleFlush, Said
<1>11. CASE UNCHANGED <<entries, followUps, told, suppressed, arrived>>
  BY <1>1, <1>2, <1>11 DEF Queued, Results, Notifications, EntriesInv, EntriesAccounted
<1>12. QED
  BY <1>6, <1>7, <1>8, <1>9, <1>10, <1>11
  DEF Next, RunStep, RunStops, Maintain, PromptBegins, PromptStep, PromptSetUp, PromptAsks,
      PromptRecovers, AbortBegins, AbortEnds, EntriesInv, EntriesAccounted

LEMMA EntriesInit == Init => EntryType /\ EntriesInv
<1> SUFFICES ASSUME Init PROVE EntryType /\ EntriesInv
  OBVIOUS
<1>1. EntryType
  BY BoundsAssumption, EmptySeq DEF Init, EntryType
<1>2. entries["async-result"] = << >> /\ entries["mcp-notification"] = << >>
  BY KindsAre DEF Init
<1>3. ToSet(<< >>) = {} /\ Apart(<< >>)
  BY DEF ToSet, Apart
<1>4. Queued = {} /\ Injected = {} /\ Results = {}
  BY <1>2, <1>3, KindsAre DEF Init, Results, Notifications, Injected
<1>5. QED BY <1>1, <1>3, <1>4 DEF Init, EntriesInv, EntriesAccounted

\* Every result that came is queued, in one message, told, or was fetched by a
\* poll, and is never in two of these places, for any number of entries, runs
\* and aborts: the idle flush takes none that it cannot deliver.
THEOREM EntriesCorrect == Spec => []EntriesAccounted
<1>1. Init => EntryType /\ EntriesInv
  BY EntriesInit
<1>2. EntryType /\ EntriesInv /\ [Next]_vars => EntryType' /\ EntriesInv'
  BY EntryTypeStep, EntriesStep
<1>3. EntriesInv => EntriesAccounted
  BY DEF EntriesInv
<1>4. QED BY <1>1, <1>2, <1>3, PTL DEF Spec
-----------------------------------------------------------------------------
(***************************************************************************)
(* Types.  PromptType and EntryType are the parts that the count and the   *)
(* places of entries need; the rest of TypeOK follows beside them.         *)
(***************************************************************************)
RestType ==
    /\ idleFlushPending \in BOOLEAN
    /\ idleTask \in {"none", "waiting", "prompting"}
    /\ maintenance \in BOOLEAN
    /\ abort \in {"none", "waiting", "resetting"}
    /\ run \in [at : {"none", "streaming", "yielding"},
                by : {"nobody", "prompt", "idle", "continue"}]
    /\ suppressed \subseteq Entries /\ told \subseteq Entries /\ missed \subseteq Entries
    /\ stops \in 0..MaxStops /\ continues \in 0..MaxContinues
    /\ stuck \in BOOLEAN

\* What is queued or in a message is an entry.
LEMMA PlacesType ==
    ASSUME EntryType, EntriesInv
    PROVE  /\ Queued \subseteq Entries /\ Injected \subseteq Entries
           /\ Said(Batches) \subseteq Entries
           /\ followUps # << >> => Head(followUps) \subseteq Entries
<1>1. Queued \subseteq Entries
  BY KindsAre DEF EntryType, Results, Notifications, ToSet
<1>2. Injected \subseteq Entries
  BY DEF EntryType, Injected, ToSet
<1>3. Said(Batches) \subseteq Entries
  BY <1>1, BatchesSay DEF EntriesInv
<1>4. followUps # << >> => Head(followUps) \subseteq Entries
  BY HeadTailProperties DEF EntryType
<1>5. QED BY <1>1, <1>2, <1>3, <1>4

LEMMA EndRunType ==
    ASSUME RestType, EndRun
    PROVE  /\ run' \in [at : {"none", "streaming", "yielding"},
                        by : {"nobody", "prompt", "idle", "continue"}]
           /\ idleTask' \in {"none", "waiting", "prompting"}
           /\ maintenance' \in BOOLEAN
           /\ abort' \in {"none", "waiting", "resetting"}
<1> USE DEF RestType
<1>1. /\ run' \in [at : {"none", "streaming", "yielding"},
                   by : {"nobody", "prompt", "idle", "continue"}]
      /\ idleTask' \in {"none", "waiting", "prompting"}
      /\ abort' \in {"none", "waiting", "resetting"}
  BY DEF EndRun, NoRun
<1>2. maintenance' \in BOOLEAN
  BY DEF EndRun
<1>3. QED BY <1>1, <1>2

LEMMA RestTypeStep ==
    ASSUME EntryType, EntriesInv, RestType, [Next]_vars
    PROVE  RestType'
<1> USE DEF RestType
<1>1. ASSUME NEW k \in ToSet(Kinds), Enqueue(k) PROVE RestType'
  <2>1. missed' \subseteq Entries
    BY <1>1 DEF Enqueue
  <2>2. idleFlushPending' \in BOOLEAN /\ idleTask' \in {"none", "waiting", "prompting"}
    BY <1>1 DEF Enqueue, ScheduleIdleFlush
  <2>3. QED BY <1>1, <2>1, <2>2 DEF Enqueue
<1>2. ASSUME NEW e \in Entries, Acknowledge(e) PROVE RestType'
  BY <1>2 DEF Acknowledge
<1>3. CASE RunYields
  BY <1>3 DEF RunYields
<1>4. CASE RunPolls
  <2>1. CASE followUps # << >>
    BY <1>4, <2>1, PlacesType DEF RunPolls
  <2>2. CASE followUps = << >>
    BY <1>4, <2>2, EndRunType DEF RunPolls
  <2>3. QED BY <2>1, <2>2
<1>5. CASE RunStops
  <2>1. EndRun /\ stops' \in 0..MaxStops
    BY <1>5, BoundsAssumption DEF RunStops
  <2>2. missed' \subseteq Entries
    BY <1>5, PlacesType DEF RunStops
  <2>3. QED BY <1>5, <2>1, <2>2, EndRunType DEF RunStops
<1>6. CASE IdleFlush
  <2>1. told' \subseteq Entries
    BY <1>6, PlacesType DEF IdleFlush, Said
  <2>2. /\ run' \in [at : {"none", "streaming", "yielding"},
                     by : {"nobody", "prompt", "idle", "continue"}]
        /\ idleTask' \in {"none", "waiting", "prompting"}
    BY <1>6 DEF IdleFlush
  <2>3. QED BY <1>6, <2>1, <2>2 DEF IdleFlush
<1>7. CASE Maintain
  <2>1. CASE maintenance' = FALSE /\ UNCHANGED <<run, continues>>
    BY <1>7, <2>1 DEF Maintain
  <2>2. CASE /\ continues < MaxContinues /\ continues' = continues + 1
             /\ run' = [at |-> "streaming", by |-> "continue"]
             /\ UNCHANGED maintenance
    <3>1. continues' \in 0..MaxContinues
      BY <2>2, BoundsAssumption
    <3>2. run' \in [at : {"none", "streaming", "yielding"},
                    by : {"nobody", "prompt", "idle", "continue"}]
      BY <2>2
    <3>3. QED BY <1>7, <2>2, <3>1, <3>2 DEF Maintain
  <2>3. QED BY <1>7, <2>1, <2>2 DEF Maintain
<1>8. ASSUME NEW p \in Prompts, PromptBegins(p) \/ PromptStep(p) PROVE RestType'
  <2>1. missed' \subseteq Entries
    BY <1>8, PlacesType DEF PromptBegins, PromptStep, PromptSetUp, PromptAsks, PromptRecovers
  <2>2. QED
    BY <1>8, <2>1 DEF PromptBegins, PromptStep, PromptSetUp, PromptAsks, PromptRecovers
<1>9. CASE AbortBegins
  <2>1. missed' \subseteq Entries
    BY <1>9, PlacesType DEF AbortBegins
  <2>2. maintenance' \in BOOLEAN /\ stuck' \in BOOLEAN
    BY <1>9 DEF AbortBegins
  <2>3. QED BY <1>9, <2>1, <2>2 DEF AbortBegins
<1>10. CASE AbortEnds
  BY <1>10 DEF AbortEnds
<1>11. CASE UNCHANGED vars
  BY <1>11
<1>12. QED
  BY <1>1, <1>2, <1>3, <1>4, <1>5, <1>6, <1>7, <1>8, <1>9, <1>10, <1>11 DEF Next, RunStep

\* Every reachable state is well typed.  That the count of prompts in flight
\* stays in its range is NoBusyForEver.
THEOREM TypeCorrect == Spec => []TypeOK
<1>1. Init => PromptType /\ NoBusyForEver /\ EntryType /\ EntriesInv /\ RestType
  <2>1. ASSUME Init PROVE RestType
    <3>1. /\ suppressed = {} /\ told = {} /\ missed = {} /\ stops = 0 /\ continues = 0
          /\ idleFlushPending = FALSE /\ maintenance = FALSE /\ stuck = FALSE
          /\ idleTask = "none" /\ abort = "none"
          /\ run = [at |-> "none", by |-> "nobody"]
      BY <2>1 DEF Init, NoRun
    <3>2. stops \in 0..MaxStops /\ continues \in 0..MaxContinues
      BY <3>1, BoundsAssumption
    <3>3. QED BY <3>1, <3>2 DEF RestType
  <2>2. QED BY <2>1, CountInit, EntriesInit
<1>2. /\ PromptType /\ NoBusyForEver /\ EntryType /\ EntriesInv /\ RestType
      /\ [Next]_vars
      => (PromptType /\ NoBusyForEver /\ EntryType /\ EntriesInv /\ RestType)'
  BY CountStep, EntryTypeStep, EntriesStep, RestTypeStep
<1>3. PromptType /\ NoBusyForEver /\ EntryType /\ RestType => TypeOK
  <2> SUFFICES ASSUME PromptType, NoBusyForEver, EntryType, RestType PROVE TypeOK
    OBVIOUS
  <2>1. Cardinality(Live) <= MaxPrompts
    <3>1. Cardinality(Live) <= Cardinality(Prompts)
      BY LiveFinite, FS_Subset DEF Live
    <3>2. Cardinality(Prompts) = MaxPrompts
      BY BoundsAssumption, FS_Interval DEF Prompts
    <3>3. QED BY <3>1, <3>2
  <2>2. inFlight \in 0..MaxPrompts
    BY <2>1, LiveFinite, BoundsAssumption DEF NoBusyForEver, Live, PromptType
  <2>3. QED BY <2>2 DEF PromptType, EntryType, RestType, TypeOK
<1>4. QED BY <1>1, <1>2, <1>3, PTL DEF Spec
=============================================================================
