----------------------- MODULE SessionPersist_proofs -----------------------
(***************************************************************************)
(* Proofs about SessionPersist for any number of entries, requests,        *)
(* crashes and failing file operations.                                    *)
(***************************************************************************)
EXTENDS SessionPersist, FiniteSetTheorems, SequenceTheorems, TLAPS

\* The groups of variables that actions leave alone are always expanded.
USE DEF vars, disk, flags, memory, work, history, bounds, unchangedByTasks
-----------------------------------------------------------------------------
(***************************************************************************)
(* Types, and that there is always an inode left for a new file.           *)
(***************************************************************************)
Tasks == [kind : {"rewrite", "ensure", "close", "flush"}, want : SUBSET Entries]

\* A temporary file has been written and is not yet in place.
HasTemp == task.at \in {"renaming", "movingAside", "retryingBare", "retrying", "rollingBack"}

\* Only the first line of a file is a header.
LinesInv == \A i \in Inodes : lines[i] # << >> => Tail(lines[i]) \in Seq(Entries)

\* Of all of S, i was written last.
IsNewest(i, S, order) == i \in S /\ \A j \in S : <<j, i>> \in order

\* The ages are an order in which any inodes have a newest one.
AgeInv ==
    /\ age \subseteq UsedInodes \X UsedInodes
    /\ \A i, j \in Inodes : <<i, j>> \in age /\ <<j, i>> \in age => i = j
    /\ \A S \in SUBSET UsedInodes : S # {} => \E i \in S : IsNewest(i, S, age)

\* What is named or open has been written.
UsedInv ==
    /\ primary # None => primary \in UsedInodes
    /\ backups \subseteq UsedInodes
    /\ HasTemp => task.temp \in UsedInodes
    /\ task.at \in {"retrying", "rollingBack"} => task.backup \in UsedInodes
    /\ writer.state # "none" => writer.file \in UsedInodes

\* Where a task stands: only a rewrite gets past the closing of the descriptor.
PhaseInv ==
    /\ task.at # "queued" =>
          /\ chain # << >>
          /\ \/ Head(chain).kind \in {"rewrite", "ensure"}
             \/ Head(chain).kind = "close" /\ task.at = "closing"
    /\ process # "running" => chain = << >> /\ task = Idle /\ writer = NoWriter /\ ~persistError

\* The tasks that have not written a file yet.
Unwritten == Len(chain) - (IF task.at \in {"queued", "closing", "writing"} THEN 0 ELSE 1)

\* Each file was made by an entry or by a request.
CountInv == Cardinality(UsedInodes) + Unwritten <= nextEntry - 1 + requests

\* A new file does not end in a fragment.
TornInv == torn \subseteq UsedInodes

TypeInv == TypeOK /\ LinesInv /\ AgeInv /\ UsedInv /\ TornInv /\ PhaseInv /\ CountInv

LEMMA EntriesFacts ==
    /\ nextEntry \in 1..(MaxEntries + 1) /\ nextEntry <= MaxEntries =>
          nextEntry \in Entries /\ nextEntry + 1 \in 1..(MaxEntries + 1)
    /\ Header \notin Entries
    /\ None \notin Inodes
BY BoundsAssumption DEF Entries, Header, None, Inodes

\* Cardinalities of sets of inodes.
LEMMA UsedFinite ==
    ASSUME NEW S \in SUBSET Inodes, NEW i \in Inodes
    PROVE  /\ IsFiniteSet(S) /\ Cardinality(S) \in Nat
           /\ Cardinality(S \cup {i}) <= Cardinality(S) + 1
           /\ Cardinality(Inodes) = MaxEntries + MaxRequests + 2
<1>1. MaxEntries + MaxRequests + 2 \in Nat /\ 1 \in Int /\ MaxEntries + MaxRequests + 2 >= 1
  BY BoundsAssumption
<1>2. IsFiniteSet(Inodes) /\ Cardinality(Inodes) = MaxEntries + MaxRequests + 2
  BY <1>1, FS_Interval DEF Inodes
<1>3. IsFiniteSet(S)
  BY <1>2, FS_Subset
<1>4. Cardinality(S) \in Nat
  BY <1>3, FS_CardinalityType
<1>5. Cardinality(S \cup {i}) <= Cardinality(S) + 1
  BY <1>3, <1>4, FS_AddElement
<1>6. QED BY <1>2, <1>3, <1>4, <1>5

\* There is an inode left.
LEMMA FreshExists ==
    ASSUME TypeInv
    PROVE  FreshInode \in Inodes /\ FreshInode \notin UsedInodes
<1>1. UsedInodes \in SUBSET Inodes /\ 1 \in Inodes
  BY BoundsAssumption DEF UsedInodes, Inodes
<1>2. Len(chain) \in Nat /\ (chain # << >> => Len(chain) >= 1)
  BY EmptySeq DEF TypeInv, TypeOK
<1>3. Unwritten >= 0 /\ Unwritten \in Int
  BY <1>2 DEF TypeInv, PhaseInv, Unwritten
<1>4. nextEntry - 1 + requests <= MaxEntries + MaxRequests /\ nextEntry \in Int /\ requests \in Int
  BY BoundsAssumption DEF TypeInv, TypeOK
<1>5. Cardinality(UsedInodes) <= MaxEntries + MaxRequests
  <2>1. Cardinality(UsedInodes) \in Nat
    BY <1>1, UsedFinite
  <2>2. QED BY <2>1, <1>3, <1>4, BoundsAssumption DEF TypeInv, CountInv
<1>6. UsedInodes # Inodes
  BY <1>1, <1>5, UsedFinite, BoundsAssumption
<1>7. \E i \in Inodes : i \notin UsedInodes
  BY <1>1, <1>6
<1>8. QED BY <1>7 DEF FreshInode

\* What writing to an inode does to the order of ages.
LEMMA TouchFacts ==
    ASSUME age \subseteq Inodes \X Inodes, AgeInv, NEW i \in Inodes, age' = Touch(i)
    PROVE  /\ UsedInodes' = UsedInodes \cup {i}
           /\ age' \subseteq Inodes \X Inodes
           /\ age' \subseteq UsedInodes' \X UsedInodes'
           /\ \A j \in UsedInodes \cup {i} : <<j, i>> \in age'
           /\ \A j, k \in Inodes : j # i /\ k # i => (<<j, k>> \in age' <=> <<j, k>> \in age)
           /\ \A j \in Inodes : <<i, j>> \in age' => j = i
<1>1. \A j, k : <<j, k>> \in age' <=>
          \/ <<j, k>> \in age /\ j # i
          \/ j \in UsedInodes \cup {i} /\ k = i
  BY DEF Touch
<1>2. UsedInodes' = UsedInodes \cup {i}
  <2>1. \A j : j \in UsedInodes' <=> j \in Inodes /\ <<j, j>> \in age'
    BY DEF UsedInodes
  <2>2. \A j : j \in UsedInodes <=> j \in Inodes /\ <<j, j>> \in age
    BY DEF UsedInodes
  <2>3. QED BY <1>1, <2>1, <2>2
<1>3. UsedInodes \subseteq Inodes
  BY DEF UsedInodes
<1>4. \A pair \in age' : \E j, k : pair = <<j, k>>
  BY DEF Touch
<1>5. age \subseteq UsedInodes \X UsedInodes
  BY DEF AgeInv
<1>6. \A pair \in age' : pair \in (UsedInodes \cup {i}) \X (UsedInodes \cup {i})
  BY <1>1, <1>4, <1>5
<1>7. QED BY <1>1, <1>2, <1>3, <1>6

LEMMA AgeStep ==
    ASSUME age \subseteq Inodes \X Inodes, AgeInv, NEW i \in Inodes, age' = Touch(i)
    PROVE  AgeInv'
<1>1. UsedInodes \subseteq Inodes
  BY DEF UsedInodes
<1>2. /\ UsedInodes' = UsedInodes \cup {i}
      /\ age' \subseteq UsedInodes' \X UsedInodes'
      /\ \A j \in UsedInodes \cup {i} : <<j, i>> \in age'
      /\ \A j, k \in Inodes : j # i /\ k # i => (<<j, k>> \in age' <=> <<j, k>> \in age)
      /\ \A j \in Inodes : <<i, j>> \in age' => j = i
  BY TouchFacts
<1>3. ASSUME NEW j \in Inodes, NEW k \in Inodes, <<j, k>> \in age', <<k, j>> \in age'
      PROVE  j = k
  BY <1>2, <1>3 DEF AgeInv
<1>4. ASSUME NEW S \in SUBSET UsedInodes', S # {}
      PROVE  \E k \in S : IsNewest(k, S, age')
  <2>1. CASE i \in S
    BY <1>2, <1>4, <2>1 DEF IsNewest
  <2>2. CASE i \notin S
    <3>1. S \in SUBSET UsedInodes
      BY <1>2, <2>2
    <3>2. PICK k \in S : IsNewest(k, S, age)
      BY <1>4, <3>1 DEF AgeInv
    <3>3. \A j \in S : <<j, k>> \in age'
      BY <1>1, <1>2, <2>2, <3>1, <3>2 DEF IsNewest
    <3>4. QED BY <3>3 DEF IsNewest
  <2>3. QED BY <2>1, <2>2
<1>5. \A j, k \in Inodes : <<j, k>> \in age' /\ <<k, j>> \in age' => j = k
  BY <1>3
<1>6. \A S \in SUBSET UsedInodes' : S # {} => \E k \in S : IsNewest(k, S, age')
  BY <1>4
<1>7. QED BY <1>2, <1>5, <1>6 DEF AgeInv

\* A backup that is newest is the one that is promoted.
LEMMA NewestIsIt ==
    ASSUME TypeOK, AgeInv, NEW i, IsNewest(i, backups, age)
    PROVE  NewestBackup = i
<1>1. i \in backups /\ \A j \in backups : <<j, i>> \in age
  BY DEF IsNewest
<1>2. ASSUME NEW k \in backups, \A j \in backups : <<j, k>> \in age
      PROVE  k = i
  BY <1>1, <1>2 DEF AgeInv, TypeOK
<1>3. QED BY <1>1, <1>2 DEF NewestBackup

LEMMA NewestExists ==
    ASSUME TypeOK, AgeInv, UsedInv, backups # {}
    PROVE  NewestBackup \in backups /\ IsNewest(NewestBackup, backups, age)
<1>1. PICK i \in backups : IsNewest(i, backups, age)
  BY DEF AgeInv, UsedInv
<1>2. QED BY <1>1, NewestIsIt

\* A line at the end of a file, and a new file.
LEMMA LineAppended ==
    ASSUME TypeOK, LinesInv, NEW file \in Inodes, NEW e \in Entries,
           lines' = [lines EXCEPT ![file] = Append(@, e)]
    PROVE  lines' \in [Inodes -> Seq(Entries \cup {Header})] /\ LinesInv'
<1>1. lines \in [Inodes -> Seq(Entries \cup {Header})]
  BY DEF TypeOK
<1>2. Append(lines[file], e) \in Seq(Entries \cup {Header})
  BY <1>1, AppendProperties
<1>3. Tail(Append(lines[file], e)) \in Seq(Entries)
  <2>1. Tail(Append(lines[file], e)) =
           IF lines[file] = << >> THEN << >> ELSE Append(Tail(lines[file]), e)
    BY <1>1, HeadTailAppend
  <2>2. CASE lines[file] = << >>
    BY <2>1, <2>2
  <2>3. CASE lines[file] # << >>
    <3>1. Tail(lines[file]) \in Seq(Entries)
      BY <2>3 DEF LinesInv
    <3>2. QED BY <2>1, <2>3, <3>1, AppendProperties
  <2>4. QED BY <2>2, <2>3
<1>4. QED BY <1>1, <1>2, <1>3 DEF LinesInv

LEMMA HeaderFirst ==
    ASSUME NEW s \in Seq(Entries)
    PROVE  /\ <<Header>> \o s \in Seq(Entries \cup {Header})
           /\ <<Header>> \o s # << >>
           /\ Head(<<Header>> \o s) = Header
           /\ Tail(<<Header>> \o s) = s
<1>1. PICK h : h = <<Header>>
  OBVIOUS
<1>2. h \in Seq(Entries \cup {Header}) /\ Len(h) = 1 /\ h[1] = Header
  BY <1>1
<1>3. s \in Seq(Entries \cup {Header})
  BY SeqMonotonic
<1>4. PICK t : t = h \o s
  OBVIOUS
<1>5. /\ t \in Seq(Entries \cup {Header})
      /\ Len(t) = 1 + Len(s)
      /\ \A i \in 1..(1 + Len(s)) : t[i] = IF i <= 1 THEN h[i] ELSE s[i - 1]
  <2>1. /\ t \in Seq(Entries \cup {Header})
        /\ Len(t) = Len(h) + Len(s)
        /\ \A i \in 1..(Len(h) + Len(s)) : t[i] = IF i <= Len(h) THEN h[i] ELSE s[i - Len(h)]
    BY <1>2, <1>3, <1>4, ConcatProperties
  <2>2. Len(h) = 1
    BY <1>2
  <2>3. QED BY <2>1, <2>2
<1>6. Len(s) \in Nat
  OBVIOUS
<1>7. t # << >> /\ Head(t) = Header
  BY <1>2, <1>5, <1>6
<1>8. Tail(t) = s
  <2>1. /\ Tail(t) \in Seq(Entries \cup {Header}) /\ Len(Tail(t)) = Len(s)
        /\ \A i \in 1..Len(Tail(t)) : Tail(t)[i] = t[i + 1]
    BY <1>5, <1>6, <1>7, HeadTailProperties
  <2>2. \A i \in 1..Len(s) : t[i + 1] = s[i]
    BY <1>5, <1>6
  <2>3. \A i \in 1..Len(s) : Tail(t)[i] = s[i]
    BY <2>1, <2>2
  <2>4. QED BY <1>3, <2>1, <2>3, SeqEqual
<1>9. QED BY <1>1, <1>4, <1>5, <1>7, <1>8

LEMMA FileMade ==
    ASSUME TypeOK, LinesInv, NEW file \in Inodes, NEW s \in Seq(Entries),
           lines' = [lines EXCEPT ![file] = <<Header>> \o s]
    PROVE  lines' \in [Inodes -> Seq(Entries \cup {Header})] /\ LinesInv'
<1>1. PICK t : t = <<Header>> \o s
  OBVIOUS
<1>2. t \in Seq(Entries \cup {Header}) /\ Tail(t) = s
  BY <1>1, HeaderFirst
<1>3. lines' = [lines EXCEPT ![file] = t]
  BY <1>1
<1>4. lines \in [Inodes -> Seq(Entries \cup {Header})]
  BY DEF TypeOK
<1>5. lines' \in [Inodes -> Seq(Entries \cup {Header})]
  BY <1>2, <1>3, <1>4
<1>6. ASSUME NEW i \in Inodes, lines'[i] # << >>
      PROVE  Tail(lines'[i]) \in Seq(Entries)
  <2>1. CASE i = file
    BY <1>2, <1>3, <1>4, <2>1
  <2>2. CASE i # file
    BY <1>3, <1>4, <1>6, <2>2 DEF LinesInv
  <2>3. QED BY <2>1, <2>2
<1>7. QED BY <1>5, <1>6 DEF LinesInv

LEMMA LoadedType ==
    ASSUME TypeOK, LinesInv, NEW i \in Inodes \cup {None}
    PROVE  Loaded(i) \in Seq(Entries)
<1>1. << >> \in Seq(Entries)
  OBVIOUS
<1>2. QED BY <1>1 DEF Loaded, LinesInv

\* The inode the hot path writes to.
LEMMA HotInode ==
    ASSUME TypeInv, NEW e, AppendLine(e)
    PROVE  \/ UNCHANGED <<primary, lines, torn, age, writer>>
           \/ \E file \in Inodes :
                 /\ writer' = [state |-> "open", file |-> file]
                 /\ primary' = IF primary = None /\ writer.state = "none" THEN file ELSE primary
                 /\ age' = Touch(file) \/ (age' = age /\ file \in UsedInodes)
                 /\ torn' \subseteq torn \cup {file}
                 /\ \/ lines' = [lines EXCEPT ![file] = Append(@, e)]
                    \/ lines' = lines
<1> DEFINE file == IF writer.state # "none" THEN writer.file
                   ELSE IF primary # None THEN primary ELSE FreshInode
<1>1. file \in Inodes
  <2>1. writer.state # "none" => writer.file \in Inodes
    BY DEF TypeInv, UsedInv, UsedInodes
  <2>2. primary # None => primary \in Inodes
    BY DEF TypeInv, TypeOK
  <2>3. QED BY <2>1, <2>2, FreshExists
<1>2. \/ UNCHANGED <<primary, lines, torn, age, writer>>
      \/ /\ writer' = [state |-> "open", file |-> file]
         /\ primary' = IF primary = None /\ writer.state = "none" THEN file ELSE primary
         /\ age' = Touch(file) \/ (age' = age /\ file \in UsedInodes)
         /\ torn' \subseteq torn \cup {file}
         /\ \/ lines' = [lines EXCEPT ![file] = Append(@, e)]
            \/ lines' = lines
  BY DEF AppendLine
<1> HIDE DEF file
<1>3. QED BY <1>1, <1>2

LEMMA OnDiskByNowType == ASSUME TypeOK PROVE OnDiskByNow \in SUBSET Entries
BY DEF TypeOK, OnDiskByNow, ToSet

\* A request puts a task at the end of the chain.
LEMMA RequestCases ==
    ASSUME TypeOK,
           SetSessionName \/ RewriteEntries \/ EnsureOnDisk \/ Flush \/ Close
    PROVE  \E t \in Tasks : Request(t)
BY OnDiskByNowType DEF SetSessionName, RewriteEntries, EnsureOnDisk, Flush, Close, Rewrite, Tasks
Places == {"queued", "closing", "writing", "renaming", "movingAside", "retryingBare",
           "retrying", "rollingBack", "removingBackup", "replaced"}
TaskPositions == [at : Places, snapshot : Seq(Entries),
                  temp : Inodes \cup {None}, backup : Inodes \cup {None}]
Writers == [state : {"none", "open", "closing"}, file : Inodes \cup {None}]

\* The ways a task moves keep the types.
LEMMA TaskMoves ==
    ASSUME TypeOK
    PROVE  /\ chain # << >> => Tail(chain) \in Seq(Tasks)
           /\ chain \in Seq(Tasks) /\ task \in TaskPositions /\ writer \in Writers
           /\ Idle \in TaskPositions /\ NoWriter \in Writers
           /\ \A at \in Places : [task EXCEPT !.at = at] \in TaskPositions
           /\ \A at \in Places, i \in Inodes :
                 /\ [task EXCEPT !.at = at, !.temp = i] \in TaskPositions
                 /\ [task EXCEPT !.at = at, !.backup = i] \in TaskPositions
           /\ \A at \in Places : [task EXCEPT !.at = at, !.snapshot = entries] \in TaskPositions
           /\ [writer EXCEPT !.state = "closing"] \in Writers
           /\ task.snapshot \in Seq(Entries)
<1>1. chain \in Seq(Tasks) /\ task \in TaskPositions /\ writer \in Writers /\ entries \in Seq(Entries)
  BY DEF TypeOK, Tasks, TaskPositions, Places, Writers
<1>2. chain # << >> => Tail(chain) \in Seq(Tasks)
  BY <1>1
<1>3. Idle \in TaskPositions /\ NoWriter \in Writers
  BY DEF Idle, TaskPositions, Places, NoWriter, Writers
<1>4. [writer EXCEPT !.state = "closing"] \in Writers
  BY <1>1 DEF Writers
<1>5. \A at \in Places : [task EXCEPT !.at = at] \in TaskPositions
  BY <1>1 DEF TaskPositions
<1>6. \A at \in Places, i \in Inodes :
         /\ [task EXCEPT !.at = at, !.temp = i] \in TaskPositions
         /\ [task EXCEPT !.at = at, !.backup = i] \in TaskPositions
  BY <1>1 DEF TaskPositions
<1>7. \A at \in Places : [task EXCEPT !.at = at, !.snapshot = entries] \in TaskPositions
  BY <1>1 DEF TaskPositions
<1>8. task.snapshot \in Seq(Entries)
  BY <1>1 DEF TaskPositions
<1>9. QED BY <1>1, <1>2, <1>3, <1>4, <1>5, <1>6, <1>7, <1>8

\* Only what a task works with changes.
TaskTypes ==
    /\ primary \in Inodes \cup {None}
    /\ backups \subseteq Inodes
    /\ \A flag \in {flushed, needsFullRewrite, ensuredOnDisk, persistError} : flag \in BOOLEAN
    /\ writer \in Writers /\ chain \in Seq(Tasks) /\ task \in TaskPositions
    /\ faults \in 0..MaxFaults
    /\ written \subseteq Entries /\ glued \subseteq Entries

LEMMA TaskTypesStep ==
    ASSUME TypeOK, LinesInv, TaskTypes', UNCHANGED <<unchangedByTasks, lines, torn, age, oldFormat>>
    PROVE  TypeOK' /\ LinesInv'
BY DEF TypeOK, LinesInv, TaskTypes, Writers, Tasks, TaskPositions, Places

LEMMA TypesNow == ASSUME TypeOK PROVE TaskTypes
BY TaskMoves DEF TypeOK, TaskTypes

LEMMA FaultType == ASSUME TypeOK, Fault PROVE faults' \in 0..MaxFaults
BY BoundsAssumption DEF TypeOK, Fault

LEMMA TypeOKStep ==
    ASSUME TypeInv, [Next]_vars
    PROVE  TypeOK' /\ LinesInv'
<1> USE DEF TypeOK
<1>0. TypeOK /\ LinesInv /\ AgeInv /\ UsedInv
  BY DEF TypeInv
<1>1. ASSUME NEW assistant \in BOOLEAN, AppendEntry(assistant)
      PROVE  TypeOK' /\ LinesInv'
  <2>1. nextEntry \in Entries /\ nextEntry + 1 \in 1..(MaxEntries + 1)
    BY <1>0, <1>1, EntriesFacts DEF AppendEntry
  <2>2. entries' \in Seq(Entries) /\ assistants' \subseteq Entries /\ nextEntry' \in 1..(MaxEntries + 1)
    BY <1>0, <1>1, <2>1, AppendProperties DEF AppendEntry
  <2>3. CASE UNCHANGED <<disk, writer, task, faults, written, glued, persistError, needsFullRewrite,
                        ensuredOnDisk>>
    <3>1. chain' \in Seq(Tasks) /\ flushed' \in BOOLEAN /\ overlapped' \in BOOLEAN
      <4>1. Rewrite \in Tasks
        BY DEF Rewrite, Tasks
      <4>2. chain \in Seq(Tasks)
        BY <1>0 DEF Tasks
      <4>3. chain' = chain \/ chain' = Append(chain, Rewrite)
        BY <1>1 DEF AppendEntry, Enqueue, AppendLine
      <4>4. chain' \in Seq(Tasks)
        BY <4>1, <4>2, <4>3, AppendProperties
      <4>5. flushed' = flushed \/ flushed' = FALSE
        BY <1>1 DEF AppendEntry
      <4>6. overlapped' \in {overlapped, overlapped \/ PastSnapshot, overlapped \/ NotInPlace}
        BY <1>1 DEF AppendEntry
      <4>7. overlapped' \in BOOLEAN
        BY <1>0, <4>6
      <4>8. flushed' \in BOOLEAN
        BY <1>0, <4>5
      <4>9. QED BY <4>4, <4>7, <4>8
    <3>2. LinesInv'
      BY <1>0, <2>3 DEF LinesInv
    <3>3. /\ process' = process /\ crashes' = crashes /\ requests' = requests /\ UNCHANGED disk
          /\ \A flag \in {needsFullRewrite', ensuredOnDisk', persistError'} : flag \in BOOLEAN
          /\ UNCHANGED <<writer, task, faults, written, glued>>
      BY <1>0, <1>1, <2>3 DEF AppendEntry
    <3>4. \A flag \in {flushed', needsFullRewrite', ensuredOnDisk', persistError', overlapped'} :
              flag \in BOOLEAN
      BY <3>1, <3>3
    <3>5. /\ primary' \in Inodes \cup {None} /\ backups' \subseteq Inodes
          /\ lines' \in [Inodes -> Seq(Entries \cup {Header})] /\ age' \subseteq Inodes \X Inodes
          /\ torn' \subseteq Inodes
          /\ oldFormat' \subseteq Inodes /\ process' \in {"running", "crashed", "gone"}
          /\ requests' \in 0..MaxRequests /\ crashes' \in 0..MaxCrashes /\ faults' \in 0..MaxFaults
          /\ written' \subseteq Entries /\ glued' \subseteq Entries
      BY <1>0, <3>3
    <3>6. QED BY <1>0, <2>2, <3>1, <3>2, <3>3, <3>4, <3>5 DEF Tasks
  <2>4. CASE AppendLine(nextEntry) /\ UNCHANGED <<flushed, needsFullRewrite, ensuredOnDisk, chain, task>>
             /\ overlapped' = (overlapped \/ NotInPlace)
    <3>1. /\ lines' \in [Inodes -> Seq(Entries \cup {Header})] /\ LinesInv'
          /\ age' \subseteq Inodes \X Inodes /\ torn' \subseteq Inodes
          /\ primary' \in Inodes \cup {None} /\ writer' \in Writers
      <4>1. CASE UNCHANGED <<primary, lines, torn, age, writer>>
        BY <1>0, <4>1, TaskMoves DEF LinesInv
      <4>2. ASSUME NEW file \in Inodes,
                   writer' = [state |-> "open", file |-> file],
                   primary' = IF primary = None /\ writer.state = "none" THEN file ELSE primary,
                   age' = Touch(file) \/ (age' = age /\ file \in UsedInodes),
                   torn' \subseteq torn \cup {file},
                   lines' = [lines EXCEPT ![file] = Append(@, nextEntry)] \/ lines' = lines
            PROVE  /\ lines' \in [Inodes -> Seq(Entries \cup {Header})] /\ LinesInv'
                   /\ age' \subseteq Inodes \X Inodes /\ torn' \subseteq Inodes
                   /\ primary' \in Inodes \cup {None} /\ writer' \in Writers
        <5>1. lines' \in [Inodes -> Seq(Entries \cup {Header})] /\ LinesInv'
          BY <1>0, <2>1, <4>2, LineAppended DEF LinesInv
        <5>2. age' \subseteq Inodes \X Inodes
          BY <1>0, <4>2, TouchFacts
        <5>3. QED BY <1>0, <4>2, <5>1, <5>2 DEF Writers
      <4>3. QED BY <2>4, <4>1, <4>2, HotInode
    <3>2. written' \subseteq Entries /\ glued' \subseteq Entries /\ persistError' \in BOOLEAN
          /\ faults' \in 0..MaxFaults /\ backups' = backups /\ oldFormat' = oldFormat
      <4>1. /\ written' = written \/ written' = written \cup {nextEntry}
            /\ glued' = glued \/ glued' = glued \cup {nextEntry}
            /\ persistError' \in {persistError, TRUE}
            /\ faults' = faults \/ Fault
            /\ backups' = backups /\ oldFormat' = oldFormat
        BY <2>4 DEF AppendLine
      <4>2. faults' \in 0..MaxFaults
        BY <1>0, <4>1, FaultType
      <4>3. QED BY <1>0, <2>1, <4>1, <4>2
    <3>3. overlapped' \in BOOLEAN
      BY <1>0, <2>4
    <3>4. QED BY <1>0, <1>1, <2>2, <2>4, <3>1, <3>2, <3>3 DEF AppendEntry, Writers
  <2>5. QED BY <1>1, <2>3, <2>4 DEF AppendEntry
<1>2. ASSUME NEW t \in Tasks, Request(t)
      PROVE  TypeOK' /\ LinesInv'
  <2>1. chain' \in Seq(Tasks)
    BY <1>0, <1>2, AppendProperties DEF Request, Enqueue, Tasks
  <2>2. requests' \in 0..MaxRequests
    BY <1>0, <1>2, BoundsAssumption DEF Request
  <2>3. QED BY <1>0, <1>2, <2>1, <2>2 DEF Request, LinesInv, Tasks
<1>3. CASE BeginTask
  <2>1. writer' \in Writers /\ chain' \in Seq(Tasks) /\ task' \in TaskPositions
        /\ faults' \in 0..MaxFaults
    BY <1>0, <1>3, TaskMoves, FaultType DEF BeginTask, Running, FailTask, EndTask, Goto, Places
  <2>2. QED BY <1>0, <1>3, <2>1, TypesNow, TaskTypesStep DEF BeginTask, FailTask, TaskTypes
<1>4. CASE CloseDone
  <2>1. writer' \in Writers /\ chain' \in Seq(Tasks) /\ task' \in TaskPositions
    BY <1>0, <1>4, TaskMoves DEF CloseDone, Running, EndTask, ForgetWriter
  <2>2. QED BY <1>0, <1>4, <2>1, TypesNow, TaskTypesStep DEF CloseDone, TaskTypes
<1>5. CASE TakeSnapshot
  <2>1. writer' \in Writers /\ task' \in TaskPositions
    BY <1>0, <1>5, TaskMoves DEF TakeSnapshot, ForgetWriter, Places
  <2>2. QED BY <1>0, <1>5, <2>1, TypesNow, TaskTypesStep DEF TakeSnapshot, TaskTypes
<1>6. CASE WriteTemp
  <2>1. CASE UNCHANGED <<lines, age>>
    <3>1. FailTask /\ Fault
      <4>1. <<FreshInode, FreshInode>> \in Touch(FreshInode) /\ <<FreshInode, FreshInode>> \notin age
        BY FreshExists DEF Touch, UsedInodes
      <4>2. QED BY <1>6, <2>1, <4>1 DEF WriteTemp
    <3>2. chain' \in Seq(Tasks) /\ task' \in TaskPositions /\ faults' \in 0..MaxFaults
      BY <1>0, <1>6, <3>1, TaskMoves, FaultType DEF WriteTemp, Running, FailTask, EndTask
    <3>3. QED BY <1>0, <1>6, <2>1, <3>1, <3>2, TypesNow, TaskTypesStep DEF WriteTemp, FailTask, TaskTypes
  <2>2. CASE /\ task' = [task EXCEPT !.at = "renaming", !.temp = FreshInode]
             /\ lines' = [lines EXCEPT ![FreshInode] = <<Header>> \o task.snapshot]
             /\ age' = Touch(FreshInode)
             /\ UNCHANGED <<flags, chain, faults>>
    <3>1. FreshInode \in Inodes
      BY FreshExists
    <3>2. task.snapshot \in Seq(Entries)
      BY <1>0, TaskMoves
    <3>3. lines' \in [Inodes -> Seq(Entries \cup {Header})] /\ LinesInv'
      BY <1>0, <2>2, <3>1, <3>2, FileMade DEF LinesInv
    <3>4. age' \subseteq Inodes \X Inodes
      BY <1>0, <2>2, <3>1, TouchFacts
    <3>5. task' \in TaskPositions
      BY <1>0, <2>2, <3>1, TaskMoves DEF Places
    <3>6. QED BY <1>0, <1>6, <2>2, <3>3, <3>4, <3>5 DEF WriteTemp, TaskPositions, Places
  <2>3. QED BY <1>6, <2>1, <2>2 DEF WriteTemp
<1>7. CASE Rename
  <2>1. /\ chain' \in Seq(Tasks) /\ task' \in TaskPositions
        /\ faults' \in 0..MaxFaults /\ primary' \in Inodes \cup {None}
        /\ persistError' \in BOOLEAN
    BY <1>0, <1>7, TaskMoves, FaultType DEF Rename, RenameStep, Running, FailTask, EndTask, Goto, Places
  <2>2. QED BY <1>0, <1>7, <2>1, TypesNow, TaskTypesStep DEF Rename, RenameStep, FailTask, TaskTypes
<1>8. CASE MoveAside
  <2>1. /\ chain' \in Seq(Tasks) /\ task' \in TaskPositions
        /\ faults' \in 0..MaxFaults /\ primary' \in Inodes \cup {None}
        /\ persistError' \in BOOLEAN /\ backups' \subseteq Inodes
    <3>1. CASE /\ primary # None
               /\ backups' = backups \cup {primary}
               /\ task' = [task EXCEPT !.at = "retrying", !.backup = primary]
               /\ primary' = None
               /\ UNCHANGED <<flags, chain, faults>>
      <4>1. primary \in Inodes
        BY <1>0, <3>1
      <4>2. task' \in TaskPositions
        BY <1>0, <3>1, <4>1, TaskMoves DEF Places
      <4>3. chain' \in Seq(Tasks)
        BY <1>0, <3>1, TaskMoves
      <4>4. QED BY <1>0, <3>1, <4>1, <4>2, <4>3
    <3>2. CASE Goto("retryingBare") /\ UNCHANGED <<primary, backups, flags, chain, faults>>
      BY <1>0, <3>2, TaskMoves DEF Goto, Places
    <3>3. CASE Fault /\ FailTask /\ UNCHANGED <<primary, backups>>
      BY <1>0, <1>8, <3>3, TaskMoves, FaultType DEF MoveAside, RenameStep, Running, FailTask, EndTask
    <3>4. QED BY <1>8, <3>1, <3>2, <3>3 DEF MoveAside
  <2>2. QED BY <1>0, <1>8, <2>1, TypesNow, TaskTypesStep DEF MoveAside, RenameStep, FailTask, TaskTypes
<1>9. CASE RetryBare
  <2>1. /\ chain' \in Seq(Tasks) /\ task' \in TaskPositions
        /\ faults' \in 0..MaxFaults /\ primary' \in Inodes \cup {None}
        /\ persistError' \in BOOLEAN
    BY <1>0, <1>9, TaskMoves, FaultType DEF RetryBare, RenameStep, Running, FailTask, EndTask, Goto, Places
  <2>2. QED BY <1>0, <1>9, <2>1, TypesNow, TaskTypesStep DEF RetryBare, RenameStep, FailTask, TaskTypes
<1>10. CASE Retry
  <2>1. /\ task' \in TaskPositions
        /\ faults' \in 0..MaxFaults /\ primary' \in Inodes \cup {None}
    BY <1>0, <1>10, TaskMoves, FaultType DEF Retry, RenameStep, Goto, Places
  <2>2. QED BY <1>0, <1>10, <2>1, TypesNow, TaskTypesStep DEF Retry, RenameStep, TaskTypes
<1>11. CASE RollBack
  <2>1. /\ chain' \in Seq(Tasks) /\ task' \in TaskPositions
        /\ faults' \in 0..MaxFaults /\ primary' \in Inodes \cup {None}
        /\ backups' \subseteq Inodes
    BY <1>0, <1>11, TaskMoves, FaultType DEF RollBack, RenameStep, Running, FailTask, EndTask
  <2>2. QED BY <1>0, <1>11, <2>1, TypesNow, TaskTypesStep DEF RollBack, RenameStep, FailTask, TaskTypes
<1>12. CASE RemoveBackup
  <2>1. task' \in TaskPositions /\ faults' \in 0..MaxFaults /\ backups' \subseteq Inodes
    BY <1>0, <1>12, TaskMoves, FaultType DEF RemoveBackup, RenameStep, Goto, Places
  <2>2. QED BY <1>0, <1>12, <2>1, TypesNow, TaskTypesStep DEF RemoveBackup, RenameStep, TaskTypes
<1>13. CASE RewriteDone
  <2>1. chain' \in Seq(Tasks) /\ task' \in TaskPositions
    BY <1>0, <1>13, TaskMoves DEF RewriteDone, Running, EndTask
  <2>2. written' \subseteq Entries
    <3>1. task.snapshot \in Seq(Entries)
      BY <1>0, TaskMoves
    <3>2. ToSet(task.snapshot) \subseteq Entries
      BY <3>1 DEF ToSet
    <3>3. QED BY <1>0, <1>13, <3>2 DEF RewriteDone
  <2>3. ensuredOnDisk' \in BOOLEAN /\ glued' \subseteq Entries
    BY <1>0, <1>13 DEF RewriteDone
  <2>4. QED BY <1>0, <1>13, <2>1, <2>2, <2>3, TypesNow, TaskTypesStep DEF RewriteDone, TaskTypes
<1>14. CASE Crash
  <2>1. crashes' \in 0..MaxCrashes
    BY <1>0, <1>14, BoundsAssumption DEF Crash
  <2>2. << >> \in Seq(Entries) /\ << >> \in Seq(Tasks)
    OBVIOUS
  <2>3. Idle \in TaskPositions /\ NoWriter \in Writers
    BY <1>0, TaskMoves
  <2>4. /\ writer' \in Writers /\ chain' \in Seq(Tasks) /\ task' \in TaskPositions
        /\ process' \in {"running", "crashed", "gone"}
    BY <1>14, <2>2, <2>3 DEF Crash
  <2>5. \A flag \in {flushed', needsFullRewrite', ensuredOnDisk', persistError', overlapped'} :
            flag \in BOOLEAN
    BY <1>0, <1>14 DEF Crash
  <2>6. /\ UNCHANGED disk /\ entries' \in Seq(Entries) /\ assistants' \subseteq Entries
        /\ nextEntry' \in 1..(MaxEntries + 1) /\ requests' \in 0..MaxRequests
        /\ faults' \in 0..MaxFaults /\ written' \subseteq Entries /\ glued' \subseteq Entries
    BY <1>0, <1>14, <2>2 DEF Crash
  <2>7. LinesInv'
    BY <1>0, <2>6 DEF LinesInv
  <2>8. QED BY <1>0, <2>1, <2>4, <2>5, <2>6, <2>7 DEF Tasks, TaskPositions, Places, Writers
<1>15. CASE Restart
  <2>1. primary' \in Inodes \cup {None} /\ backups' \subseteq Inodes /\ faults' \in 0..MaxFaults
    BY <1>0, <1>15, FaultType, NewestExists DEF Restart
  <2>2. entries' \in Seq(Entries)
    <3>1. Loaded(primary') = (IF primary' # None /\ lines[primary'] # << >> /\ Head(lines[primary']) = Header
                              THEN Tail(lines[primary']) ELSE << >>)
      BY DEF Loaded
    <3>2. << >> \in Seq(Entries)
      OBVIOUS
    <3>3. entries' = << >> \/ (primary' \in Inodes /\ lines[primary'] # << >> /\ entries' = Tail(lines[primary']))
      BY <1>15, <2>1, <3>1 DEF Restart
    <3>4. QED BY <1>0, <3>2, <3>3 DEF LinesInv
  <2>3. process' \in {"running", "gone"} /\ needsFullRewrite' \in BOOLEAN
    BY <1>15 DEF Restart
  <2>4. flushed' = TRUE /\ ensuredOnDisk' = TRUE
        /\ UNCHANGED <<lines, torn, age, oldFormat, assistants, nextEntry, persistError, work,
                       requests, crashes, history>>
    BY <1>15 DEF Restart
  <2>5. \A flag \in {flushed', needsFullRewrite', ensuredOnDisk', persistError', overlapped'} :
            flag \in BOOLEAN
    BY <1>0, <2>3, <2>4
  <2>6. /\ lines' \in [Inodes -> Seq(Entries \cup {Header})] /\ torn' \subseteq Inodes
        /\ age' \subseteq Inodes \X Inodes /\ oldFormat' \subseteq Inodes
        /\ assistants' \subseteq Entries /\ nextEntry' \in 1..(MaxEntries + 1)
        /\ requests' \in 0..MaxRequests /\ crashes' \in 0..MaxCrashes
        /\ written' \subseteq Entries /\ glued' \subseteq Entries
    BY <1>0, <2>4
  <2>7. LinesInv'
    BY <1>0, <2>4 DEF LinesInv
  <2>8. UNCHANGED work
    BY <2>4
  <2>9. QED BY <1>0, <2>1, <2>2, <2>3, <2>5, <2>6, <2>7, <2>8
<1>16. CASE UNCHANGED vars
  BY <1>0, <1>16 DEF LinesInv
<1>17. QED
  BY <1>0, <1>1, <1>2, <1>3, <1>4, <1>5, <1>6, <1>7, <1>8, <1>9, <1>10, <1>11, <1>12, <1>13,
     <1>14, <1>15, <1>16, RequestCases DEF Next, TaskStep
\* Only a line or a temporary file changes the ages.
LEMMA AgeCases ==
    ASSUME TypeInv, [Next]_vars
    PROVE  \/ age' = age
           \/ AppendLine(nextEntry) /\ \E assistant \in BOOLEAN : AppendEntry(assistant)
           \/ WriteTemp /\ age' = Touch(FreshInode)
<1>1. ASSUME NEW assistant \in BOOLEAN, AppendEntry(assistant)
      PROVE  age' = age \/ AppendLine(nextEntry)
  BY <1>1 DEF AppendEntry
<1>2. CASE SetSessionName \/ RewriteEntries \/ EnsureOnDisk \/ Flush \/ Close
  BY <1>2, RequestCases DEF TypeInv, Request
<1>3. CASE WriteTemp
  BY <1>3 DEF WriteTemp
<1>4. CASE BeginTask \/ CloseDone \/ TakeSnapshot \/ RewriteDone
  BY <1>4 DEF BeginTask, CloseDone, TakeSnapshot, RewriteDone
<1>5. CASE Rename \/ MoveAside \/ RetryBare \/ Retry \/ RollBack \/ RemoveBackup
  BY <1>5 DEF Rename, MoveAside, RetryBare, Retry, RollBack, RemoveBackup, RenameStep
<1>6. CASE Crash \/ Restart \/ UNCHANGED vars
  BY <1>6 DEF Crash, Restart
<1>7. QED BY <1>1, <1>2, <1>3, <1>4, <1>5, <1>6 DEF Next, TaskStep

LEMMA UsedCases ==
    ASSUME TypeInv, [Next]_vars
    PROVE  AgeInv' /\ UsedInodes \subseteq UsedInodes'
<1>0. age \subseteq Inodes \X Inodes /\ AgeInv
  BY DEF TypeInv, TypeOK
<1>1. CASE age' = age
  <2>1. UsedInodes' = UsedInodes
    BY <1>1 DEF UsedInodes
  <2>2. QED BY <1>0, <1>1, <2>1 DEF AgeInv
<1>2. ASSUME NEW i \in Inodes, age' = Touch(i)
      PROVE  AgeInv' /\ UsedInodes \subseteq UsedInodes'
  BY <1>0, <1>2, AgeStep, TouchFacts
<1>3. CASE AppendLine(nextEntry)
  BY <1>1, <1>2, <1>3, HotInode
<1>4. CASE age' = Touch(FreshInode)
  BY <1>2, <1>4, FreshExists
<1>5. QED BY <1>1, <1>3, <1>4, AgeCases

\* The position of a task after a step, field by field.
Moved(at) ==
    /\ task'.at = at
    /\ task'.snapshot = task.snapshot /\ task'.temp = task.temp /\ task'.backup = task.backup

LEMMA GotoMoves == ASSUME TypeOK, NEW at, Goto(at) PROVE Moved(at)
BY DEF TypeOK, Goto, Moved

LEMMA MoveAsideCases ==
    ASSUME TypeOK, MoveAside
    PROVE  \/ /\ primary # None /\ primary' = None /\ backups' = backups \cup {primary}
              /\ task'.at = "retrying" /\ task'.backup = primary
              /\ task'.snapshot = task.snapshot /\ task'.temp = task.temp
              /\ UNCHANGED <<flags, chain>>
           \/ /\ primary = None /\ Moved("retryingBare")
              /\ UNCHANGED <<primary, backups, flags, chain>>
           \/ /\ FailTask /\ task'.at = "queued"
              /\ UNCHANGED <<primary, backups>>
<1>1. CASE /\ primary # None
           /\ backups' = backups \cup {primary}
           /\ task' = [task EXCEPT !.at = "retrying", !.backup = primary]
           /\ primary' = None
           /\ UNCHANGED <<flags, chain, faults>>
  <2>1. /\ task'.at = "retrying" /\ task'.backup = primary
        /\ task'.snapshot = task.snapshot /\ task'.temp = task.temp
    BY <1>1 DEF TypeOK
  <2>2. QED BY <1>1, <2>1
<1>2. CASE primary = None /\ Goto("retryingBare") /\ UNCHANGED <<primary, backups, flags, chain, faults>>
  BY <1>2, GotoMoves
<1>3. CASE Fault /\ FailTask /\ UNCHANGED <<primary, backups>>
  BY <1>3 DEF FailTask, EndTask, Idle
<1>4. QED BY <1>1, <1>2, <1>3 DEF MoveAside

LEMMA UsedStep ==
    ASSUME TypeInv, [Next]_vars
    PROVE  UsedInv'
<1> DEFINE Used == UsedInodes
           UsedNext == UsedInodes'
<1>0. Used \subseteq UsedNext /\ TypeOK /\ UsedInv /\ UsedInodes \subseteq Inodes /\ AgeInv
  BY UsedCases DEF TypeInv, UsedInodes
<1> HIDE DEF Used, UsedNext
<1>. USE DEF HasTemp
<1>a. ASSUME UNCHANGED <<primary, backups, task, writer>>
      PROVE  UsedInv'
  BY <1>0, <1>a DEF UsedInv, Used, UsedNext
<1>1. ASSUME NEW assistant \in BOOLEAN, AppendEntry(assistant)
      PROVE  UsedInv'
  <2>1. CASE UNCHANGED <<primary, backups, task, writer>>
    BY <1>a, <2>1
  <2>2. CASE AppendLine(nextEntry) /\ task' = task
    <3>1. CASE UNCHANGED <<primary, lines, torn, age, writer>>
      BY <1>a, <2>2, <3>1 DEF AppendLine
    <3>2. ASSUME NEW file \in Inodes,
                 writer' = [state |-> "open", file |-> file],
                 primary' = IF primary = None /\ writer.state = "none" THEN file ELSE primary,
                 age' = Touch(file) \/ (age' = age /\ file \in UsedInodes)
          PROVE  UsedInv'
      <4>1. file \in UsedNext
        <5>1. CASE age' = Touch(file)
          BY <1>0, <5>1, TouchFacts DEF UsedNext, TypeOK
        <5>2. CASE file \in UsedInodes
          BY <1>0, <5>2 DEF Used
        <5>3. QED BY <3>2, <5>1, <5>2
      <4>2. backups' = backups
        BY <2>2 DEF AppendLine
      <4>3. QED BY <1>0, <2>2, <3>2, <4>1, <4>2 DEF UsedInv, Used, UsedNext
    <3>3. QED BY <2>2, <3>1, <3>2, HotInode
  <2>3. QED BY <1>1, <2>1, <2>2 DEF AppendEntry
<1>2. CASE SetSessionName \/ RewriteEntries \/ EnsureOnDisk \/ Flush \/ Close
  BY <1>0, <1>2, <1>a, RequestCases DEF Request
<1>3. CASE BeginTask
  <2>1. task'.at \in {"queued", "closing"} /\ UNCHANGED <<primary, backups>>
    BY <1>0, <1>3 DEF BeginTask, FailTask, EndTask, Goto, Idle, TypeOK
  <2>2. writer'.state # "none" => writer.state # "none" /\ writer'.file = writer.file
    BY <1>0, <1>3 DEF BeginTask, TypeOK
  <2>3. QED BY <1>0, <2>1, <2>2 DEF UsedInv, Used, UsedNext
<1>4. CASE CloseDone
  BY <1>0, <1>4 DEF CloseDone, ForgetWriter, NoWriter, UsedInv, Used, UsedNext, EndTask, Idle, TypeOK
<1>5. CASE TakeSnapshot
  BY <1>0, <1>5 DEF TakeSnapshot, ForgetWriter, NoWriter, UsedInv, Used, UsedNext, TypeOK
<1>6. CASE WriteTemp
  <2>1. CASE FailTask /\ UNCHANGED <<primary, backups, writer>>
    BY <1>0, <2>1 DEF FailTask, UsedInv, Used, UsedNext, EndTask, Idle
  <2>2. CASE /\ task' = [task EXCEPT !.at = "renaming", !.temp = FreshInode]
             /\ age' = Touch(FreshInode)
             /\ UNCHANGED <<primary, backups, writer>>
    <3>1. FreshInode \in UsedNext
      BY <1>0, <2>2, FreshExists, TouchFacts DEF UsedNext, TypeOK
    <3>2. task' \in [at : {"renaming"}, snapshot : Seq(Entries), temp : {FreshInode}, backup : Inodes \cup {None}]
      BY <1>0, <2>2 DEF TypeOK
    <3>3. QED BY <1>0, <2>2, <3>1, <3>2 DEF UsedInv, Used, UsedNext
  <2>3. QED BY <1>6, <2>1, <2>2 DEF WriteTemp
<1>7. CASE Rename
  <2>1. UNCHANGED <<backups, writer>> /\ primary' \in {primary, task.temp} /\ task.at = "renaming"
    BY <1>7 DEF Rename, RenameStep, Running
  <2>2. \/ task'.at \in {"queued", "replaced"}
        \/ task'.at = "movingAside" /\ task'.temp = task.temp
    BY <1>0, <1>7 DEF Rename, FailTask, EndTask, Idle, Goto, TypeOK
  <2>3. QED BY <1>0, <2>1, <2>2 DEF UsedInv, Used, UsedNext
<1>8. CASE MoveAside
  <2>1. writer' = writer /\ primary' \in {primary, None} /\ task.at = "movingAside"
    BY <1>8 DEF MoveAside, RenameStep, Running
  <2>2. \/ task'.at = "queued" /\ backups' = backups
        \/ task'.at = "retryingBare" /\ task'.temp = task.temp /\ backups' = backups
        \/ /\ task'.at = "retrying" /\ task'.temp = task.temp /\ task'.backup = primary
           /\ primary # None /\ backups' = backups \cup {primary}
    BY <1>0, <1>8, MoveAsideCases DEF Moved, FailTask
  <2>3. QED BY <1>0, <2>1, <2>2 DEF UsedInv, Used, UsedNext
<1>9. CASE RetryBare
  BY <1>0, <1>9 DEF RetryBare, RenameStep, Running, FailTask, EndTask, Goto, Idle, UsedInv, Used, UsedNext, TypeOK
<1>10. CASE Retry
  BY <1>0, <1>10 DEF Retry, RenameStep, Running, Goto, UsedInv, Used, UsedNext, TypeOK
<1>11. CASE RollBack
  BY <1>0, <1>11 DEF RollBack, RenameStep, Running, FailTask, EndTask, Idle, UsedInv, Used, UsedNext, TypeOK
<1>12. CASE RemoveBackup
  BY <1>0, <1>12 DEF RemoveBackup, RenameStep, Running, Goto, UsedInv, Used, UsedNext, TypeOK
<1>13. CASE RewriteDone
  BY <1>0, <1>13 DEF RewriteDone, EndTask, Idle, UsedInv, Used, UsedNext, TypeOK
<1>14. CASE Crash
  BY <1>0, <1>14 DEF Crash, NoWriter, Idle, UsedInv, Used, UsedNext, TypeOK
<1>15. CASE Restart
  <2>1. primary' # None => primary' \in Used
    BY <1>0, <1>15, NewestExists DEF Restart, UsedInv, Used
  <2>2. backups' \subseteq backups /\ UNCHANGED <<task, writer>>
    BY <1>15 DEF Restart
  <2>3. QED BY <1>0, <2>1, <2>2 DEF UsedInv, Used, UsedNext
<1>16. CASE UNCHANGED vars
  BY <1>16, <1>a
<1>17. QED
  BY <1>1, <1>2, <1>3, <1>4, <1>5, <1>6, <1>7, <1>8, <1>9, <1>10, <1>11, <1>12, <1>13,
     <1>14, <1>15, <1>16 DEF Next, TaskStep
\* Only an append changes which files end in a fragment.
LEMMA TornCases ==
    ASSUME TypeInv, [Next]_vars
    PROVE  \/ torn' = torn
           \/ AppendLine(nextEntry) /\ \E assistant \in BOOLEAN : AppendEntry(assistant)
<1>1. ASSUME NEW assistant \in BOOLEAN, AppendEntry(assistant)
      PROVE  torn' = torn \/ AppendLine(nextEntry)
  BY <1>1 DEF AppendEntry
<1>2. CASE SetSessionName \/ RewriteEntries \/ EnsureOnDisk \/ Flush \/ Close
  BY <1>2, RequestCases DEF TypeInv, Request
<1>3. CASE WriteTemp
  BY <1>3 DEF WriteTemp
<1>4. CASE BeginTask \/ CloseDone \/ TakeSnapshot \/ RewriteDone
  BY <1>4 DEF BeginTask, CloseDone, TakeSnapshot, RewriteDone
<1>5. CASE Rename \/ MoveAside \/ RetryBare \/ Retry \/ RollBack \/ RemoveBackup
  BY <1>5 DEF Rename, MoveAside, RetryBare, Retry, RollBack, RemoveBackup, RenameStep
<1>6. CASE Crash \/ Restart \/ UNCHANGED vars
  BY <1>6 DEF Crash, Restart
<1>7. QED BY <1>1, <1>2, <1>3, <1>4, <1>5, <1>6 DEF Next, TaskStep

LEMMA TornStep ==
    ASSUME TypeInv, [Next]_vars
    PROVE  TornInv'
<1>0. torn \subseteq UsedInodes /\ UsedInodes \subseteq UsedInodes' /\ AgeInv /\ TypeOK
  BY UsedCases DEF TypeInv, TornInv
<1>1. ASSUME NEW file \in Inodes,
             age' = Touch(file) \/ (age' = age /\ file \in UsedInodes),
             torn' \subseteq torn \cup {file}
      PROVE  TornInv'
  <2>1. file \in UsedInodes'
    <3>1. CASE age' = Touch(file)
      BY <1>0, <3>1, TouchFacts DEF TypeOK
    <3>2. CASE file \in UsedInodes
      BY <1>0, <3>2
    <3>3. QED BY <1>1, <3>1, <3>2
  <2>2. QED BY <1>0, <1>1, <2>1 DEF TornInv
<1>2. CASE torn' = torn
  BY <1>0, <1>2 DEF TornInv
<1>3. CASE AppendLine(nextEntry)
  BY <1>1, <1>2, <1>3, HotInode
<1>4. QED BY <1>2, <1>3, TornCases

\* What the two ways to change the chain do to it.
LEMMA ChainAppended ==
    ASSUME chain \in Seq(Tasks), NEW t \in Tasks, Enqueue(t)
    PROVE  /\ chain' \in Seq(Tasks) /\ chain' # << >>
           /\ Len(chain) \in Nat /\ Len(chain') = Len(chain) + 1
           /\ \A k \in 1..Len(chain) : chain'[k] = chain[k]
           /\ chain'[Len(chain) + 1] = t
           /\ chain # << >> => Head(chain') = Head(chain)
BY AppendProperties, HeadTailAppend DEF Enqueue

LEMMA ChainShortened ==
    ASSUME chain \in Seq(Tasks), chain # << >>, EndTask
    PROVE  /\ chain' \in Seq(Tasks)
           /\ Len(chain) \in Nat /\ Len(chain) >= 1 /\ Len(chain') = Len(chain) - 1
           /\ \A k \in 1..Len(chain') : chain'[k] = chain[k + 1]
           /\ Head(chain) = chain[1]
           /\ task' = Idle /\ task'.at = "queued"
BY HeadTailProperties, EmptySeq DEF EndTask, Idle

LEMMA PhaseStep ==
    ASSUME TypeInv, [Next]_vars
    PROVE  PhaseInv'
<1>0. TypeOK /\ PhaseInv /\ chain \in Seq(Tasks)
  BY TaskMoves DEF TypeInv
<1> USE DEF PhaseInv
<1>1. ASSUME NEW assistant \in BOOLEAN, AppendEntry(assistant)
      PROVE  PhaseInv'
  <2>1. process = "running" /\ process' = "running" /\ task' = task
    BY <1>1 DEF AppendEntry
  <2>2. Rewrite \in Tasks
    BY DEF Rewrite, Tasks
  <2>3. chain' = chain \/ Enqueue(Rewrite)
    BY <1>1 DEF AppendEntry
  <2>4. QED BY <1>0, <2>1, <2>2, <2>3, ChainAppended
<1>2. ASSUME NEW t \in Tasks, Request(t)
      PROVE  PhaseInv'
  BY <1>0, <1>2, ChainAppended DEF Request
<1>3. CASE BeginTask
  BY <1>0, <1>3 DEF BeginTask, Running, FailTask, EndTask, Goto, Idle, TypeOK
<1>4. CASE CloseDone \/ RewriteDone
  BY <1>0, <1>4 DEF CloseDone, RewriteDone, Running, EndTask, Idle
<1>5. CASE TakeSnapshot
  BY <1>0, <1>5 DEF TakeSnapshot, Running, TypeOK
<1>6. CASE WriteTemp
  BY <1>0, <1>6 DEF WriteTemp, Running, FailTask, EndTask, Idle, TypeOK
<1>7. CASE Rename \/ RetryBare
  BY <1>0, <1>7 DEF Rename, RetryBare, RenameStep, Running, FailTask, EndTask, Idle, Goto, TypeOK
<1>8. CASE MoveAside
  BY <1>0, <1>8, MoveAsideCases DEF MoveAside, RenameStep, Running, FailTask, EndTask, Moved
<1>9. CASE Retry
  BY <1>0, <1>9 DEF Retry, RenameStep, Running, Goto, TypeOK
<1>10. CASE RollBack
  BY <1>0, <1>10 DEF RollBack, RenameStep, Running, FailTask, EndTask, Idle
<1>11. CASE RemoveBackup
  BY <1>0, <1>11 DEF RemoveBackup, RenameStep, Running, Goto, TypeOK
<1>12. CASE Crash
  BY <1>0, <1>12 DEF Crash, Idle
<1>13. CASE Restart
  BY <1>0, <1>13 DEF Restart, Idle
<1>14. CASE UNCHANGED vars
  BY <1>0, <1>14
<1>15. QED
  BY <1>0, <1>1, <1>2, <1>3, <1>4, <1>5, <1>6, <1>7, <1>8, <1>9, <1>10, <1>11, <1>12, <1>13,
     <1>14, RequestCases DEF Next, TaskStep

LEMMA CountStep ==
    ASSUME TypeInv, [Next]_vars
    PROVE  CountInv'
<1>0. TypeOK /\ PhaseInv /\ chain \in Seq(Tasks)
  BY TaskMoves DEF TypeInv
<1>1. Len(chain) \in Nat /\ nextEntry \in Int /\ requests \in Int
  BY <1>0 DEF TypeOK
<1>2. UsedInodes \in SUBSET Inodes /\ Cardinality(UsedInodes) \in Nat
  <2>1. 1 \in Inodes
    BY BoundsAssumption DEF Inodes
  <2>2. QED BY <2>1, UsedFinite DEF UsedInodes
<1>3. Cardinality(UsedInodes) + Unwritten <= nextEntry - 1 + requests
  BY DEF TypeInv, CountInv
<1>a. ASSUME age' = age
      PROVE  UsedInodes' = UsedInodes
  BY <1>a DEF UsedInodes
<1>b. ASSUME NEW i \in Inodes, age' = Touch(i)
      PROVE  /\ Cardinality(UsedInodes') \in Nat /\ Cardinality(UsedInodes') <= Cardinality(UsedInodes) + 1
             /\ i \in UsedInodes => UsedInodes' = UsedInodes
  <2>1. UsedInodes' = UsedInodes \cup {i}
    BY <1>b, TouchFacts DEF TypeInv, TypeOK
  <2>2. UsedInodes \cup {i} \in SUBSET Inodes
    BY <1>2
  <2>3. QED BY <1>2, <2>1, <2>2, UsedFinite
\* Nothing is written, and nothing is left to write that was not before.
<1>c. ASSUME age' = age, nextEntry' = nextEntry, requests' = requests, Unwritten' <= Unwritten,
             Unwritten' \in Int
      PROVE  CountInv'
  <2>1. Unwritten \in Int
    BY <1>1 DEF Unwritten
  <2>2. QED BY <1>1, <1>2, <1>3, <1>a, <1>c, <2>1 DEF CountInv
\* A task moves on, or ends.
<1>d. ASSUME chain' = chain, task.at \in {"queued", "closing", "writing"} \/ task'.at \notin {"queued", "closing", "writing"}
      PROVE  Unwritten' <= Unwritten /\ Unwritten' \in Int
  BY <1>1, <1>d DEF Unwritten
<1>e. ASSUME chain # << >>, EndTask
      PROVE  Unwritten' <= Unwritten /\ Unwritten' \in Int
  <2>1. Len(chain') = Len(chain) - 1 /\ task'.at = "queued"
    BY <1>0, <1>e, ChainShortened
  <2>2. QED BY <1>1, <2>1 DEF Unwritten
<1>f. ASSUME NEW t \in Tasks, Enqueue(t), task' = task
      PROVE  Unwritten' = Unwritten + 1 /\ Unwritten \in Int
  BY <1>0, <1>1, <1>f, ChainAppended DEF Unwritten
<1>4. ASSUME NEW assistant \in BOOLEAN, AppendEntry(assistant)
      PROVE  CountInv'
  <2>1. requests' = requests /\ nextEntry' = nextEntry + 1 /\ task' = task
    BY <1>4 DEF AppendEntry
  <2>2. CASE age' = age /\ (chain' = chain \/ Enqueue(Rewrite))
    <3>1. Unwritten' <= Unwritten + 1 /\ Unwritten' \in Int /\ Unwritten \in Int
      <4>1. Rewrite \in Tasks
        BY DEF Rewrite, Tasks
      <4>2. CASE chain' = chain
        BY <1>1, <2>1, <4>2 DEF Unwritten
      <4>3. CASE Enqueue(Rewrite)
        BY <1>f, <2>1, <4>1, <4>3
      <4>4. QED BY <2>2, <4>2, <4>3
    <3>2. QED BY <1>1, <1>2, <1>3, <1>a, <2>1, <2>2, <3>1 DEF CountInv
  <2>3. CASE AppendLine(nextEntry) /\ chain' = chain
    <3>1. age' = age \/ \E i \in Inodes : age' = Touch(i)
      BY <2>3, HotInode
    <3>2. Unwritten' = Unwritten /\ Unwritten \in Int
      BY <1>1, <2>1, <2>3 DEF Unwritten
    <3>3. CASE age' = age
      BY <2>2, <2>3, <3>3
    <3>4. ASSUME NEW i \in Inodes, age' = Touch(i)
          PROVE  CountInv'
      BY <1>1, <1>2, <1>3, <1>b, <2>1, <3>2, <3>4 DEF CountInv
    <3>5. QED BY <3>1, <3>3, <3>4
  <2>4. QED BY <1>4, <2>2, <2>3 DEF AppendEntry
<1>5. ASSUME NEW t \in Tasks, Request(t)
      PROVE  CountInv'
  <2>1. age' = age /\ requests' = requests + 1 /\ nextEntry' = nextEntry /\ task' = task /\ Enqueue(t)
    BY <1>5 DEF Request
  <2>2. QED BY <1>1, <1>2, <1>3, <1>a, <1>f, <2>1 DEF CountInv
<1>6. CASE BeginTask
  <2>1. UNCHANGED <<age, nextEntry, requests>> /\ chain # << >> /\ task.at = "queued"
    BY <1>6 DEF BeginTask, Running
  <2>2. EndTask \/ (chain' = chain /\ task'.at = "closing")
    BY <1>0, <1>6 DEF BeginTask, FailTask, Goto, TypeOK
  <2>3. QED BY <1>c, <1>d, <1>e, <2>1, <2>2
<1>7. CASE CloseDone
  BY <1>7, <1>c, <1>e DEF CloseDone, Running
<1>8. CASE TakeSnapshot
  BY <1>8, <1>c, <1>d DEF TakeSnapshot, Running
<1>9. CASE WriteTemp
  <2>1. task.at = "writing" /\ UNCHANGED <<nextEntry, requests>> /\ chain # << >>
    BY <1>9 DEF WriteTemp, Running
  <2>2. CASE EndTask /\ age' = age
    BY <1>c, <1>e, <2>1, <2>2
  <2>3. CASE /\ task' = [task EXCEPT !.at = "renaming", !.temp = FreshInode]
             /\ age' = Touch(FreshInode)
             /\ chain' = chain
    <3>1. task'.at = "renaming"
      BY <1>0, <2>3 DEF TypeOK
    <3>2. Unwritten' = Unwritten - 1 /\ Unwritten \in Int
      BY <1>1, <2>1, <2>3, <3>1 DEF Unwritten
    <3>3. /\ Cardinality(UsedInodes') \in Nat /\ Cardinality(UsedInodes') <= Cardinality(UsedInodes) + 1
      BY <1>b, <2>3, FreshExists
    <3>4. QED BY <1>1, <1>2, <1>3, <2>1, <3>2, <3>3 DEF CountInv
  <2>4. QED BY <1>9, <2>2, <2>3 DEF WriteTemp, FailTask
<1>10. CASE Rename
  <2>1. UNCHANGED <<age, nextEntry, requests>> /\ chain # << >> /\ task.at = "renaming"
    BY <1>10 DEF Rename, RenameStep, Running
  <2>2. EndTask \/ (chain' = chain /\ task'.at \in {"replaced", "movingAside"})
    BY <1>0, <1>10, GotoMoves DEF Rename, FailTask, Moved
  <2>3. QED BY <1>c, <1>d, <1>e, <2>1, <2>2
<1>11. CASE MoveAside
  <2>1. UNCHANGED <<age, nextEntry, requests>> /\ chain # << >> /\ task.at = "movingAside"
    BY <1>11 DEF MoveAside, RenameStep, Running
  <2>2. EndTask \/ (chain' = chain /\ task'.at \in {"retryingBare", "retrying"})
    BY <1>0, <1>11, MoveAsideCases DEF FailTask, Moved
  <2>3. QED BY <1>c, <1>d, <1>e, <2>1, <2>2
<1>12. CASE RetryBare
  <2>1. UNCHANGED <<age, nextEntry, requests>> /\ chain # << >> /\ task.at = "retryingBare"
    BY <1>12 DEF RetryBare, RenameStep, Running
  <2>2. EndTask \/ (chain' = chain /\ task'.at = "replaced")
    BY <1>0, <1>12, GotoMoves DEF RetryBare, FailTask, Moved
  <2>3. QED BY <1>c, <1>d, <1>e, <2>1, <2>2
<1>13. CASE Retry
  <2>1. UNCHANGED <<age, nextEntry, requests, chain>> /\ task.at = "retrying"
    BY <1>13 DEF Retry, RenameStep, Running
  <2>2. task'.at \in {"removingBackup", "rollingBack"}
    BY <1>0, <1>13, GotoMoves DEF Retry, Moved
  <2>3. QED BY <1>c, <1>d, <2>1, <2>2
<1>14. CASE RollBack
  BY <1>14, <1>c, <1>e DEF RollBack, RenameStep, Running, FailTask
<1>15. CASE RemoveBackup
  <2>1. UNCHANGED <<age, nextEntry, requests, chain>> /\ task.at = "removingBackup"
    BY <1>15 DEF RemoveBackup, RenameStep, Running
  <2>2. task'.at = "replaced"
    BY <1>0, <1>15, GotoMoves DEF RemoveBackup, Moved
  <2>3. QED BY <1>c, <1>d, <2>1, <2>2
<1>16. CASE RewriteDone
  BY <1>16, <1>c, <1>e DEF RewriteDone, Running
<1>17. CASE Crash
  <2>1. UNCHANGED <<age, nextEntry, requests>> /\ Len(chain') = 0 /\ task'.at = "queued"
    BY <1>17 DEF Crash, Idle
  <2>2. Unwritten' = 0
    <3>1. Unwritten' = Len(chain') - (IF task'.at \in {"queued", "closing", "writing"} THEN 0 ELSE 1)
      BY DEF Unwritten
    <3>2. Unwritten' = 0 - 0
      BY <2>1, <3>1
    <3>3. QED BY <3>2
  <2>3. Unwritten >= 0
    BY <1>0, <1>1, EmptySeq DEF Unwritten, PhaseInv
  <2>4. QED BY <1>c, <2>1, <2>2, <2>3
<1>18. CASE Restart
  BY <1>18, <1>c, <1>d DEF Restart
<1>19. CASE UNCHANGED vars
  BY <1>19, <1>c, <1>d
<1>20. QED
  BY <1>0, <1>4, <1>5, <1>6, <1>7, <1>8, <1>9, <1>10, <1>11, <1>12, <1>13,
     <1>14, <1>15, <1>16, <1>17, <1>18, <1>19, RequestCases DEF Next, TaskStep
\* The file of a session that was opened.
LEMMA OpenedFile == Tail(<<Header, 1>>) = <<1>>
<1>1. 1 \in Entries /\ <<1>> \in Seq(Entries)
  BY BoundsAssumption DEF Entries
<1>2. PICK s : s = <<1>>
  OBVIOUS
<1>3. <<Header, 1>> = <<Header>> \o s
  BY <1>2
<1>4. QED BY <1>1, <1>2, <1>3, HeaderFirst

LEMMA TypeInit ==
    ASSUME Init
    PROVE  TypeInv
<1>0. 1 \in Entries /\ 0 \in 0..MaxRequests /\ 0 \in 0..MaxCrashes /\ 0 \in 0..MaxFaults
      /\ 1 \in 1..(MaxEntries + 1) /\ 2 \in 1..(MaxEntries + 1)
  BY BoundsAssumption DEF Entries
<1>1. 1 \in Inodes /\ IsFiniteSet({1}) /\ Cardinality({}) = 0 /\ Cardinality({1}) = 1
  BY FS_EmptySet, FS_Singleton, BoundsAssumption DEF Inodes
<1>2. << >> \in Seq(Entries) /\ << >> \in Seq(Tasks) /\ Idle \in TaskPositions /\ NoWriter \in Writers
  BY DEF Idle, NoWriter, TaskPositions, Places, Writers
<1>3. PhaseInv /\ Unwritten = 0 /\ requests = 0 /\ TornInv
  BY DEF Init, PhaseInv, Unwritten, Idle, TornInv
<1>4. /\ backups = {} /\ ~HasTemp /\ task.at = "queued" /\ writer.state = "none"
      /\ process = "running" /\ assistants = {} /\ requests = 0 /\ crashes = 0 /\ faults = 0
      /\ writer \in Writers /\ chain \in Seq(Tasks) /\ task \in TaskPositions
      /\ persistError \in BOOLEAN /\ overlapped \in BOOLEAN /\ torn = {} /\ glued = {}
  BY <1>2 DEF Init, HasTemp, Idle, NoWriter
<1>5. CASE /\ primary = None /\ age = {} /\ oldFormat = {}
           /\ lines = [i \in Inodes |-> << >>]
           /\ entries = << >> /\ nextEntry = 1 /\ written = {}
           /\ flushed = FALSE /\ needsFullRewrite = FALSE /\ ensuredOnDisk = FALSE
  <2>1. UsedInodes = {}
    BY <1>5 DEF UsedInodes
  <2>2. AgeInv /\ UsedInv /\ LinesInv
    BY <1>4, <1>5, <2>1 DEF AgeInv, UsedInv, LinesInv
  <2>3. TypeOK
    <3>1. \A flag \in {flushed, needsFullRewrite, ensuredOnDisk, persistError, overlapped} :
             flag \in BOOLEAN
      BY <1>4, <1>5
    <3>2. lines \in [Inodes -> Seq(Entries \cup {Header})]
      BY <1>5
    <3>3. QED
      BY <1>0, <1>2, <1>4, <1>5, <3>1, <3>2 DEF TypeOK, Writers, Tasks, TaskPositions, Places
  <2>4. CountInv
    BY <1>1, <1>3, <1>5, <2>1 DEF CountInv
  <2>5. QED BY <1>3, <2>2, <2>3, <2>4 DEF TypeInv
<1>6. CASE /\ primary = 1 /\ age = {<<1, 1>>} /\ oldFormat \in {{}, {1}}
           /\ lines = [i \in Inodes |-> IF i = 1 THEN <<Header, 1>> ELSE << >>]
           /\ entries = <<1>> /\ nextEntry = 2 /\ written = {1}
           /\ flushed = TRUE /\ needsFullRewrite = (oldFormat # {}) /\ ensuredOnDisk = TRUE
  <2>1. UsedInodes = {1}
    BY <1>1, <1>6 DEF UsedInodes
  <2>2. AgeInv
    <3>1. \A i, j : <<i, j>> \in age <=> i = 1 /\ j = 1
      BY <1>6
    <3>2. \A S \in SUBSET {1} : S # {} => S = {1}
      OBVIOUS
    <3>3. IsNewest(1, {1}, age)
      BY <3>1 DEF IsNewest
    <3>4. \A S \in SUBSET UsedInodes : S # {} => \E i \in S : IsNewest(i, S, age)
      BY <2>1, <3>2, <3>3
    <3>5. age \subseteq UsedInodes \X UsedInodes
      BY <1>6, <2>1
    <3>6. QED BY <3>1, <3>4, <3>5 DEF AgeInv
  <2>3. UsedInv
    BY <1>4, <1>6, <2>1 DEF UsedInv
  <2>4. PICK s : s = <<Header, 1>>
    OBVIOUS
  <2>5. s \in Seq(Entries \cup {Header}) /\ Tail(s) \in Seq(Entries) /\ <<1>> \in Seq(Entries)
    <3>1. s \in Seq(Entries \cup {Header})
      BY <1>0, <2>4
    <3>2. <<1>> \in Seq(Entries)
      BY <1>0
    <3>3. QED BY <2>4, <3>1, <3>2, OpenedFile
  <2>6. lines = [i \in Inodes |-> IF i = 1 THEN s ELSE << >>]
    BY <1>6, <2>4
  <2>7. lines \in [Inodes -> Seq(Entries \cup {Header})] /\ LinesInv
    BY <1>1, <2>5, <2>6 DEF LinesInv
  <2>8. TypeOK
    <3>1. \A flag \in {flushed, needsFullRewrite, ensuredOnDisk, persistError, overlapped} :
             flag \in BOOLEAN
      BY <1>4, <1>6
    <3>2. age \subseteq Inodes \X Inodes
      BY <1>1, <1>6
    <3>3. QED
      BY <1>0, <1>1, <1>2, <1>4, <1>6, <2>5, <2>7, <3>1, <3>2 DEF TypeOK, Writers, Tasks, TaskPositions, Places
  <2>9. CountInv
    BY <1>1, <1>3, <1>6, <2>1 DEF CountInv
  <2>10. QED BY <1>3, <2>2, <2>3, <2>7, <2>8, <2>9 DEF TypeInv
<1>7. QED BY <1>5, <1>6 DEF Init

\* The types, and that a new file always finds an inode.
THEOREM TypeInvariance == Spec => []TypeInv
<1>1. Init => TypeInv
  BY TypeInit
<1>2. TypeInv /\ [Next]_vars => TypeInv'
  BY TypeOKStep, UsedCases, UsedStep, TornStep, PhaseStep, CountStep DEF TypeInv
<1>3. QED BY <1>1, <1>2, PTL DEF Spec

\* Every variable keeps its type, whatever fails and whenever the process dies.
THEOREM TypeCorrect == Spec => []TypeOK
<1>1. TypeInv => TypeOK
  BY DEF TypeInv
<1>2. QED BY <1>1, TypeInvariance, PTL
-----------------------------------------------------------------------------
(***************************************************************************)
(* The directory and the open descriptor, as long as no entry is appended  *)
(* behind the back of a rewrite.                                           *)
(***************************************************************************)
HasHeader(i) == lines[i] # << >> /\ Head(lines[i]) = Header

Detour == task.at \in {"retrying", "rollingBack"}
CloseAsked == \E k \in 1..Len(chain) : chain[k].kind = "close"

\* What is open is the session file, and only between two rewrites.
WriterInv ==
    /\ writer.state # "none" => writer.file = primary /\ primary # None
    /\ writer.state = "open" => task.at \in {"queued", "removingBackup", "replaced"}
    /\ writer.state = "closing" => task.at = "closing"

HeadersInv ==
    /\ primary # None => HasHeader(primary)
    /\ \A i \in backups : HasHeader(i)

\* A session that thinks its file is up to date has one.
PrimaryInv ==
    /\ process = "running" /\ ~persistError /\ ~Detour
          /\ (flushed \/ writer.state # "none" \/ CloseAsked) => primary # None
    /\ task.at \in {"removingBackup", "replaced"} => primary # None

\* Backups are older than the session file; while it is moved aside, it is the
\* newest of them.
BackupsInv ==
    /\ primary # None => primary \notin backups /\ \A j \in backups : <<j, primary>> \in age
    /\ Detour => primary = None /\ IsNewest(task.backup, backups, age)

\* The temporary file is the newest of all files and has the snapshot.
TempInv ==
    HasTemp =>
        /\ task.temp # primary /\ task.temp \notin backups
        /\ \A j \in UsedInodes : <<j, task.temp>> \in age
        /\ lines[task.temp] = <<Header>> \o task.snapshot

DirParts == WriterInv /\ HeadersInv /\ PrimaryInv /\ BackupsInv /\ TempInv
DirInv == ~overlapped => DirParts

\* Once an entry was appended behind the back of a rewrite, that stays known.
LEMMA OverlappedStays ==
    ASSUME TypeInv, [Next]_vars, ~overlapped'
    PROVE  ~overlapped
<1>1. ASSUME NEW assistant \in BOOLEAN, AppendEntry(assistant)
      PROVE  ~overlapped
  BY <1>1 DEF AppendEntry
<1>2. ASSUME NEW t \in Tasks, Request(t)
      PROVE  ~overlapped
  BY <1>2 DEF Request
<1>3. CASE TaskStep
  BY <1>3 DEF TaskStep, BeginTask, CloseDone, TakeSnapshot, WriteTemp, Rename, MoveAside, RetryBare,
              Retry, RollBack, RemoveBackup, RewriteDone, RenameStep
<1>4. CASE Crash \/ Restart \/ UNCHANGED vars
  BY <1>4 DEF Crash, Restart
<1>5. QED BY <1>1, <1>2, <1>3, <1>4, RequestCases DEF Next, TypeInv

\* An entry that is written in place goes to the session file, or is joined
\* to the fragment at the end of it, or the file operation fails.
HotAppend(e) ==
    /\ primary # None /\ flushed /\ ~persistError /\ ~NotInPlace
    /\ writer.state = "open" => writer.file = primary
    /\ writer.state # "closing"
    /\ writer' = writer \/ writer' = [state |-> "open", file |-> primary]
    /\ age' = age \/ age' = Touch(primary)
    /\ UNCHANGED <<primary, backups, oldFormat, chain, task, flushed, ensuredOnDisk>>
    /\ \/ /\ lines' = [lines EXCEPT ![primary] = Append(@, e)]
          /\ written' = written \cup {e}
          /\ UNCHANGED <<torn, glued>>
          /\ ~persistError'
       \/ /\ primary \in torn /\ torn' \subseteq torn
          /\ written' = written \cup {e} /\ glued' = glued \cup {e}
          /\ lines' = lines
          /\ ~persistError'
       \/ /\ torn' \subseteq torn \cup {primary}
          /\ UNCHANGED <<lines, written, glued>>
          /\ persistError'

\* What an append comes to.
LEMMA AppendCases ==
    ASSUME TypeInv, DirInv, NEW assistant \in BOOLEAN, AppendEntry(assistant), ~overlapped'
    PROVE  /\ process = "running" /\ process' = "running" /\ ~overlapped /\ task' = task
           /\ nextEntry \in Entries /\ entries' = Append(entries, nextEntry)
           /\ assistants \subseteq assistants' /\ ensuredOnDisk' = ensuredOnDisk
           /\ \/ /\ persistError
                 /\ UNCHANGED <<disk, flags, work, written, glued>>
              \/ /\ ~persistError /\ ~BelongsOnDisk(entries') /\ ~PastSnapshot /\ ~flushed'
                 /\ UNCHANGED <<disk, persistError, work, written, glued>>
              \/ /\ ~persistError /\ BelongsOnDisk(entries') /\ Enqueue(Rewrite)
                 /\ UNCHANGED <<disk, flags, writer, written, glued>>
              \/ /\ BelongsOnDisk(entries') /\ HotAppend(nextEntry)
<1>1. TypeOK
  BY DEF TypeInv
<1>2. ~overlapped
  BY DEF AppendEntry
<1>3. nextEntry \in Entries
  BY <1>1, EntriesFacts DEF AppendEntry, TypeOK
<1>4. CASE /\ ~persistError /\ BelongsOnDisk(entries') /\ AppendsInPlace
           /\ AppendLine(nextEntry)
           /\ overlapped' = (overlapped \/ NotInPlace)
           /\ UNCHANGED <<flushed, needsFullRewrite, ensuredOnDisk, chain, task>>
  <2>1. flushed /\ writer.state # "closing" /\ ~NotInPlace
    BY <1>4 DEF AppendsInPlace
  <2>2. writer.state \in {"none", "open", "closing"}
    BY <1>1 DEF TypeOK
  <2>3. primary # None /\ (writer.state = "open" => writer.file = primary)
    BY <1>2, <1>4, <2>1 DEF DirInv, DirParts, WriterInv, PrimaryInv, Detour, NotInPlace, AppendEntry
  <2>4. (IF writer.state # "none" THEN writer.file
         ELSE IF primary # None THEN primary ELSE FreshInode) = primary
    BY <2>1, <2>2, <2>3
  <2>5. /\ writer' = writer \/ writer' = [state |-> "open", file |-> primary]
        /\ age' = age \/ age' = Touch(primary)
        /\ UNCHANGED <<primary, backups, oldFormat>>
        /\ \/ /\ lines' = [lines EXCEPT ![primary] = Append(@, nextEntry)]
              /\ written' = written \cup {nextEntry}
              /\ UNCHANGED <<torn, glued>>
              /\ persistError' = persistError
           \/ /\ primary \in torn /\ torn' \subseteq torn
              /\ written' = written \cup {nextEntry} /\ glued' = glued \cup {nextEntry}
              /\ lines' = lines
              /\ persistError' = persistError
           \/ /\ torn' \subseteq torn \cup {primary}
              /\ UNCHANGED <<lines, written, glued>>
              /\ persistError'
    BY <1>4, <2>3, <2>4 DEF AppendLine
  <2>6. HotAppend(nextEntry)
    BY <1>4, <2>1, <2>3, <2>5 DEF HotAppend
  <2>7. QED BY <1>2, <1>3, <1>4, <2>6 DEF AppendEntry
<1>5. QED BY <1>2, <1>3, <1>4 DEF AppendEntry
\* Nothing happens to the files, and the task does not get to where a
\* temporary file or a backup matters.
LEMMA DirStays ==
    ASSUME TypeInv, DirParts, UNCHANGED <<primary, backups, lines, age>>,
           writer' = writer \/ writer'.state = "none",
           task' = task \/ task'.at \in {"queued", "writing", "replaced"},
           writer'.state = "open" => task'.at \in {"queued", "removingBackup", "replaced"},
           writer'.state = "closing" => task'.at = "closing",
           task'.at \in {"removingBackup", "replaced"} => primary # None,
           process' = "running" /\ ~persistError' /\ ~Detour' /\ (flushed' \/ writer'.state # "none" \/ CloseAsked')
              => primary # None
    PROVE  DirParts'
<1>1. UsedInodes' = UsedInodes
  BY DEF UsedInodes
<1>2. WriterInv' /\ HeadersInv'
  BY DEF DirParts, WriterInv, HeadersInv, HasHeader
<1>3. PrimaryInv'
  BY DEF DirParts, PrimaryInv
<1>4. BackupsInv' /\ TempInv'
  BY <1>1 DEF DirParts, BackupsInv, TempInv, HasTemp, Detour
<1>5. QED BY <1>2, <1>3, <1>4 DEF DirParts

LEMMA DirAppends ==
    ASSUME TypeInv, DirParts, NEW e \in Entries, HotAppend(e), process' = "running"
    PROVE  DirParts'
<1>1. TypeOK /\ AgeInv /\ UsedInv /\ primary \in Inodes
  BY DEF TypeInv, TypeOK, HotAppend
<1>2. task'.at \in {"queued", "removingBackup", "replaced"} /\ task' = task
  BY DEF HotAppend, NotInPlace
<1>3. WriterInv'
  BY <1>2 DEF HotAppend, DirParts, WriterInv
<1>4. HasHeader(primary)
  BY DEF DirParts, HeadersInv, HotAppend
<1>5. HeadersInv'
  <2>1. lines \in [Inodes -> Seq(Entries \cup {Header})] /\ backups \subseteq Inodes
    BY <1>1 DEF TypeOK
  <2>2. Append(lines[primary], e) # << >> /\ Head(Append(lines[primary], e)) = Head(lines[primary])
    BY <1>1, <1>4, <2>1, AppendProperties, HeadTailAppend DEF HasHeader
  <2>3. \A i \in Inodes : HasHeader(i) => HasHeader(i)'
    BY <1>1, <2>1, <2>2 DEF HasHeader, HotAppend
  <2>4. HasHeader(primary)'
    BY <1>1, <1>4, <2>1, <2>2 DEF HasHeader, HotAppend
  <2>5. \A i \in backups' : HasHeader(i)'
    BY <2>1, <2>3 DEF DirParts, HeadersInv, HotAppend
  <2>6. QED BY <2>4, <2>5 DEF HeadersInv
<1>6. PrimaryInv'
  BY <1>2 DEF PrimaryInv, HotAppend
<1>7. BackupsInv' /\ TempInv'
  <2>1. age' = Touch(primary) => \A j \in UsedInodes : <<j, primary>> \in age'
    BY <1>1, TouchFacts DEF TypeOK
  <2>2. \A j \in backups' : <<j, primary'>> \in age' /\ primary' \notin backups'
    BY <1>1, <2>1 DEF HotAppend, UsedInv, DirParts, BackupsInv
  <2>3. ~Detour' /\ ~HasTemp'
    BY <1>2 DEF Detour, HasTemp
  <2>4. primary' # None => primary' \notin backups'
    BY DEF HotAppend, DirParts, BackupsInv
  <2>5. QED BY <2>2, <2>3, <2>4 DEF BackupsInv, TempInv
<1>8. QED BY <1>3, <1>5, <1>6, <1>7 DEF DirParts

LEMMA DirTaskStep ==
    ASSUME TypeInv, DirParts, TaskStep
    PROVE  DirParts'
<1>0. TypeOK /\ PhaseInv /\ UsedInv /\ AgeInv /\ chain \in Seq(Tasks) /\ None \notin Inodes
  BY TaskMoves, EntriesFacts DEF TypeInv
<1>a. writer.state \in {"none", "open", "closing"} /\ task.at \in Places
  BY <1>0 DEF TypeOK, Places
<1>b. ASSUME chain # << >>, EndTask, CloseAsked'
      PROVE  CloseAsked
  BY <1>0, <1>b, ChainShortened DEF CloseAsked
<1>c. ASSUME chain # << >>, Head(chain).kind = "close"
      PROVE  CloseAsked
  <2>1. Head(chain) = chain[1] /\ 1 \in 1..Len(chain)
    BY <1>0, <1>c, EmptySeq, HeadTailProperties
  <2>2. QED BY <1>c, <2>1 DEF CloseAsked
\* A task that fails leaves the files as they are.
<1>d. ASSUME FailTask, UNCHANGED <<primary, backups, lines, age, writer>>, chain # << >>,
             task.at \notin {"queued", "closing"}
      PROVE  DirParts'
  <2>1. task'.at = "queued" /\ persistError'
    BY <1>d DEF FailTask, EndTask, Idle
  <2>2. writer'.state # "closing"
    BY <1>d DEF DirParts, WriterInv
  <2>3. QED BY <1>d, <2>1, <2>2, DirStays DEF DirParts
<1>1. CASE BeginTask
  <2>1. task.at = "queued" /\ chain # << >> /\ UNCHANGED disk /\ process' = process
        /\ (persistError => persistError') /\ flushed' = flushed
    BY <1>1 DEF BeginTask, Running, FailTask
  <2>2. CASE EndTask /\ writer' = writer
    <3>1. task'.at = "queued"
      BY <2>2 DEF EndTask, Idle
    <3>2. CloseAsked' => CloseAsked
      BY <1>b, <2>1, <2>2
    <3>3. QED BY <2>1, <2>2, <3>1, <3>2, DirStays DEF DirParts, WriterInv, PrimaryInv, Detour
  <2>3. CASE /\ Goto("closing") /\ chain' = chain
             /\ writer' = IF writer.state = "open" THEN [writer EXCEPT !.state = "closing"] ELSE writer
    <3>1. task'.at = "closing"
      BY <1>0, <2>3, GotoMoves DEF Moved
    <3>2. writer'.state \in {"none", "closing"} /\ (writer.state = "none" => writer'.state = "none")
          /\ writer'.file = writer.file
      BY <1>0, <1>a, <2>1, <2>3 DEF TypeOK, DirParts, WriterInv
    <3>3. WriterInv' /\ HeadersInv'
      BY <2>1, <3>1, <3>2 DEF DirParts, WriterInv, HeadersInv, HasHeader
    <3>4. CloseAsked' = CloseAsked
      BY <2>3 DEF CloseAsked
    <3>5. PrimaryInv'
      BY <2>1, <3>1, <3>2, <3>4 DEF DirParts, PrimaryInv, Detour
    <3>6. BackupsInv' /\ TempInv'
      BY <2>1, <3>1 DEF DirParts, BackupsInv, TempInv, HasTemp, Detour
    <3>7. QED BY <3>3, <3>5, <3>6 DEF DirParts
  <2>4. QED BY <1>1, <2>2, <2>3 DEF BeginTask, FailTask
<1>2. CASE CloseDone
  <2>1. /\ task.at = "closing" /\ chain # << >> /\ UNCHANGED disk /\ CloseAsked
        /\ process = "running" /\ persistError' = persistError /\ EndTask
    BY <1>2, <1>c DEF CloseDone, Running
  <2>2. writer'.state = "none" \/ writer' = writer
    BY <1>2 DEF CloseDone, ForgetWriter, NoWriter
  <2>3. task'.at = "queued"
    BY <2>1 DEF EndTask, Idle
  <2>4. ~persistError' => primary # None
    BY <2>1 DEF DirParts, PrimaryInv, Detour
  <2>5. writer'.state # "closing"
    BY <1>2 DEF CloseDone, ForgetWriter, NoWriter
  <2>6. QED BY <2>1, <2>2, <2>3, <2>4, <2>5, DirStays
<1>3. CASE TakeSnapshot
  <2>1. task.at = "closing" /\ UNCHANGED <<disk, flags, chain>> /\ process' = process
    BY <1>3 DEF TakeSnapshot, Running
  <2>2. task'.at = "writing"
    BY <1>0, <1>3 DEF TakeSnapshot, TypeOK
  <2>3. writer'.state = "none"
    BY <1>3, <1>a, <2>1 DEF TakeSnapshot, ForgetWriter, NoWriter, DirParts, WriterInv
  <2>4. CloseAsked' = CloseAsked
    BY <2>1 DEF CloseAsked
  <2>5. QED BY <2>1, <2>2, <2>3, <2>4, DirStays DEF DirParts, PrimaryInv, Detour
<1>4. CASE WriteTemp
  <2>1. task.at = "writing" /\ UNCHANGED <<primary, backups, writer>> /\ process' = process /\ chain # << >>
    BY <1>4 DEF WriteTemp, Running
  <2>2. CASE FailTask /\ UNCHANGED <<lines, age>>
    BY <1>d, <2>1, <2>2
  <2>3. CASE /\ task' = [task EXCEPT !.at = "renaming", !.temp = FreshInode]
             /\ lines' = [lines EXCEPT ![FreshInode] = <<Header>> \o task.snapshot]
             /\ age' = Touch(FreshInode)
             /\ UNCHANGED <<flags, chain>>
    <3>1. PICK fresh \in Inodes : fresh = FreshInode
      BY FreshExists
    <3>2. fresh \notin UsedInodes /\ fresh # None
      BY <1>0, <3>1, FreshExists
    <3>3. /\ task'.at = "renaming" /\ task'.temp = fresh /\ task'.snapshot = task.snapshot
          /\ lines' = [lines EXCEPT ![fresh] = <<Header>> \o task.snapshot]
          /\ age' = Touch(fresh)
      BY <1>0, <2>3, <3>1 DEF TypeOK
    <3>4. /\ UsedInodes' = UsedInodes \cup {fresh}
          /\ \A j \in UsedInodes' : <<j, fresh>> \in age'
          /\ \A j, k \in Inodes : j # fresh /\ k # fresh => (<<j, k>> \in age' <=> <<j, k>> \in age)
      BY <1>0, <3>3, TouchFacts DEF TypeOK
    <3>5. primary # fresh /\ fresh \notin backups /\ backups \subseteq Inodes
          /\ (primary # None => primary \in Inodes)
      BY <1>0, <3>2 DEF UsedInv, UsedInodes
    <3>6. WriterInv'
      BY <2>1, <3>3 DEF DirParts, WriterInv
    <3>7. HeadersInv'
      BY <1>0, <2>1, <3>3, <3>5 DEF DirParts, HeadersInv, HasHeader, TypeOK
    <3>8. CloseAsked' = CloseAsked
      BY <2>3 DEF CloseAsked
    <3>9. PrimaryInv'
      BY <2>1, <2>3, <3>3, <3>8 DEF DirParts, PrimaryInv, Detour
    <3>10. BackupsInv'
      BY <2>1, <3>3, <3>4, <3>5 DEF DirParts, BackupsInv, Detour
    <3>11. lines'[fresh] = <<Header>> \o task.snapshot
      BY <1>0, <3>3 DEF TypeOK
    <3>12. TempInv'
      BY <2>1, <3>3, <3>4, <3>5, <3>11 DEF TempInv
    <3>13. QED BY <3>6, <3>7, <3>9, <3>10, <3>12 DEF DirParts
  <2>4. QED BY <1>4, <2>2, <2>3 DEF WriteTemp
\* The temporary file takes the place of the session file.
<1>e. ASSUME HasTemp, primary' = task.temp, task'.at \in {"replaced", "removingBackup"},
             UNCHANGED <<backups, lines, age, writer>>
      PROVE  DirParts'
  <2>1. task.temp \in UsedInodes /\ task.temp # None /\ task.temp \notin backups
        /\ \A j \in UsedInodes : <<j, task.temp>> \in age
        /\ lines[task.temp] = <<Header>> \o task.snapshot
    BY <1>0, <1>e DEF UsedInv, UsedInodes, DirParts, TempInv
  <2>2. writer.state = "none"
    BY <1>a, <1>e DEF DirParts, WriterInv, HasTemp
  <2>3. task.snapshot \in Seq(Entries)
    BY <1>0, TaskMoves
  <2>4. HasHeader(task.temp)
    BY <2>1, <2>3, HeaderFirst DEF HasHeader
  <2>5. HeadersInv'
    BY <1>e, <2>4 DEF DirParts, HeadersInv, HasHeader
  <2>6. WriterInv' /\ PrimaryInv'
    BY <1>e, <2>1, <2>2 DEF WriterInv, PrimaryInv
  <2>7. BackupsInv' /\ TempInv'
    <3>1. ~Detour' /\ ~HasTemp'
      BY <1>e DEF Detour, HasTemp
    <3>2. \A j \in backups : <<j, task.temp>> \in age
      BY <1>0, <2>1 DEF UsedInv
    <3>3. QED BY <1>e, <2>1, <3>1, <3>2 DEF BackupsInv, TempInv
  <2>8. QED BY <2>5, <2>6, <2>7 DEF DirParts
<1>f. UsedInodes' = UsedInodes \/ age' # age
  BY DEF UsedInodes
\* The rewrite goes on with its temporary file, the session file as it is.
<1>g. ASSUME HasTemp, UNCHANGED <<primary, backups, lines, age, writer, flags, chain, process>>,
             Moved(task'.at), HasTemp', Detour' <=> Detour
      PROVE  DirParts'
  <2>1. writer.state = "none"
    BY <1>a, <1>g DEF DirParts, WriterInv, HasTemp
  <2>2. WriterInv' /\ HeadersInv'
    BY <1>g, <2>1 DEF DirParts, WriterInv, HeadersInv, HasHeader
  <2>3. CloseAsked' = CloseAsked /\ task'.at \notin {"removingBackup", "replaced"}
    BY <1>g DEF CloseAsked, HasTemp
  <2>4. PrimaryInv'
    BY <1>g, <2>3 DEF DirParts, PrimaryInv
  <2>5. BackupsInv' /\ TempInv'
    BY <1>f, <1>g DEF DirParts, BackupsInv, TempInv, Moved
  <2>6. QED BY <2>2, <2>4, <2>5 DEF DirParts
<1>5. CASE Rename
  <2>1. /\ task.at = "renaming" /\ UNCHANGED <<backups, lines, age, writer, process>> /\ chain # << >>
    BY <1>5 DEF Rename, RenameStep, Running
  <2>2. HasTemp /\ ~Detour
    BY <2>1 DEF HasTemp, Detour
  <2>3. CASE primary' = task.temp /\ Goto("replaced")
    BY <1>0, <1>e, <2>1, <2>2, <2>3, GotoMoves DEF Moved
  <2>4. CASE Goto("movingAside") /\ UNCHANGED <<primary, flags, chain>>
    <3>1. Moved("movingAside")
      BY <1>0, <2>4, GotoMoves
    <3>2. HasTemp' /\ ~Detour' /\ task'.at = "movingAside"
      BY <3>1 DEF Moved, HasTemp, Detour
    <3>3. QED BY <1>g, <2>1, <2>2, <2>4, <3>1, <3>2
  <2>5. CASE FailTask /\ UNCHANGED primary
    BY <1>d, <2>1, <2>5
  <2>6. QED BY <1>5, <2>3, <2>4, <2>5 DEF Rename
<1>6. CASE MoveAside
  <2>1. /\ task.at = "movingAside" /\ UNCHANGED <<lines, age, writer, process>> /\ chain # << >>
    BY <1>6 DEF MoveAside, RenameStep, Running
  <2>2. HasTemp /\ ~Detour /\ writer.state = "none"
    BY <1>a, <2>1 DEF HasTemp, Detour, DirParts, WriterInv
  <2>3. CASE /\ primary # None /\ primary' = None /\ backups' = backups \cup {primary}
             /\ task'.at = "retrying" /\ task'.backup = primary
             /\ task'.snapshot = task.snapshot /\ task'.temp = task.temp
             /\ UNCHANGED <<flags, chain>>
    <3>1. WriterInv' /\ HeadersInv'
      BY <2>1, <2>2, <2>3 DEF DirParts, WriterInv, HeadersInv, HasHeader
    <3>2. PrimaryInv' /\ Detour' /\ HasTemp'
      BY <2>3 DEF PrimaryInv, Detour, HasTemp
    <3>3. primary \in UsedInodes /\ <<primary, primary>> \in age
      BY <1>0, <2>3 DEF UsedInv, UsedInodes
    <3>4. BackupsInv'
      BY <2>1, <2>3, <3>3 DEF DirParts, BackupsInv, IsNewest
    <3>5. task.temp # None
      BY <1>0, <2>2 DEF UsedInv, UsedInodes
    <3>6. TempInv'
      BY <1>f, <2>1, <2>2, <2>3, <3>5 DEF DirParts, TempInv
    <3>7. QED BY <3>1, <3>2, <3>4, <3>6 DEF DirParts
  <2>4. CASE Moved("retryingBare") /\ UNCHANGED <<primary, backups, flags, chain>>
    <3>1. HasTemp' /\ ~Detour' /\ task'.at = "retryingBare"
      BY <2>4 DEF Moved, HasTemp, Detour
    <3>2. QED BY <1>g, <2>1, <2>2, <2>4, <3>1
  <2>5. CASE FailTask /\ UNCHANGED <<primary, backups>>
    BY <1>d, <2>1, <2>5
  <2>6. QED BY <1>0, <1>6, <2>3, <2>4, <2>5, MoveAsideCases
<1>7. CASE RetryBare
  <2>1. /\ task.at = "retryingBare" /\ UNCHANGED <<backups, lines, age, writer, process>> /\ chain # << >>
    BY <1>7 DEF RetryBare, RenameStep, Running
  <2>2. HasTemp /\ ~Detour
    BY <2>1 DEF HasTemp, Detour
  <2>3. CASE primary' = task.temp /\ Goto("replaced")
    BY <1>0, <1>e, <2>1, <2>2, <2>3, GotoMoves DEF Moved
  <2>4. CASE FailTask /\ UNCHANGED primary
    BY <1>d, <2>1, <2>4
  <2>5. QED BY <1>7, <2>3, <2>4 DEF RetryBare
<1>8. CASE Retry
  <2>1. /\ task.at = "retrying" /\ UNCHANGED <<backups, lines, age, writer, process>> /\ chain # << >>
    BY <1>8 DEF Retry, RenameStep, Running
  <2>2. HasTemp /\ Detour
    BY <2>1 DEF HasTemp, Detour
  <2>3. CASE primary' = task.temp /\ Goto("removingBackup")
    BY <1>0, <1>e, <2>1, <2>2, <2>3, GotoMoves DEF Moved
  <2>4. CASE Goto("rollingBack") /\ UNCHANGED <<primary, flags, chain>>
    <3>1. Moved("rollingBack")
      BY <1>0, <2>4, GotoMoves
    <3>2. HasTemp' /\ Detour' /\ task'.at = "rollingBack"
      BY <3>1 DEF Moved, HasTemp, Detour
    <3>3. QED BY <1>g, <2>1, <2>2, <2>4, <3>1, <3>2
  <2>5. QED BY <1>8, <2>3, <2>4 DEF Retry
<1>9. CASE RollBack
  <2>1. /\ task.at = "rollingBack" /\ UNCHANGED <<lines, age, writer, process>> /\ chain # << >>
        /\ FailTask
    BY <1>9 DEF RollBack, RenameStep, Running
  <2>2. HasTemp /\ Detour /\ writer.state = "none"
    BY <1>a, <2>1 DEF HasTemp, Detour, DirParts, WriterInv
  <2>3. CASE primary' = task.backup /\ backups' = backups \ {task.backup}
    <3>1. task'.at = "queued" /\ persistError'
      BY <2>1 DEF FailTask, EndTask, Idle
    <3>2. task.backup \in backups /\ \A j \in backups : <<j, task.backup>> \in age
      BY <2>2 DEF DirParts, BackupsInv, IsNewest
    <3>3. WriterInv' /\ PrimaryInv' /\ TempInv' /\ ~Detour'
      BY <2>1, <2>2, <3>1 DEF WriterInv, PrimaryInv, TempInv, HasTemp, Detour
    <3>4. HeadersInv'
      BY <2>1, <2>3, <3>2 DEF DirParts, HeadersInv, HasHeader
    <3>5. BackupsInv'
      BY <2>1, <2>3, <3>2, <3>3 DEF BackupsInv
    <3>6. QED BY <3>3, <3>4, <3>5 DEF DirParts
  <2>4. CASE UNCHANGED <<primary, backups>>
    BY <1>d, <2>1, <2>4
  <2>5. QED BY <1>9, <2>3, <2>4 DEF RollBack
<1>10. CASE RemoveBackup
  <2>1. /\ task.at = "removingBackup" /\ UNCHANGED <<primary, lines, age, writer, process>>
        /\ backups' \subseteq backups /\ Goto("replaced")
    BY <1>10 DEF RemoveBackup, RenameStep, Running
  <2>2. task'.at = "replaced"
    BY <1>0, <2>1, GotoMoves DEF Moved
  <2>3. primary # None
    BY <2>1 DEF DirParts, PrimaryInv
  <2>4. WriterInv' /\ HeadersInv' /\ PrimaryInv'
    BY <1>a, <2>1, <2>2, <2>3 DEF DirParts, WriterInv, HeadersInv, HasHeader, PrimaryInv
  <2>5. BackupsInv' /\ TempInv'
    BY <2>1, <2>2, <2>3 DEF DirParts, BackupsInv, TempInv, HasTemp, Detour
  <2>6. QED BY <2>4, <2>5 DEF DirParts
<1>11. CASE RewriteDone
  <2>1. task.at = "replaced" /\ UNCHANGED <<disk, writer>> /\ EndTask
    BY <1>11 DEF RewriteDone, Running
  <2>2. primary # None
    BY <2>1 DEF DirParts, PrimaryInv
  <2>3. task'.at = "queued"
    BY <2>1 DEF EndTask, Idle
  <2>4. writer'.state # "closing"
    BY <2>1 DEF DirParts, WriterInv
  <2>5. QED BY <2>1, <2>2, <2>3, <2>4, DirStays
<1>12. QED BY <1>1, <1>2, <1>3, <1>4, <1>5, <1>6, <1>7, <1>8, <1>9, <1>10, <1>11 DEF TaskStep
LEMMA DirInit ==
    ASSUME Init
    PROVE  DirInv
<1>1. /\ task.at = "queued" /\ writer.state = "none" /\ chain = << >> /\ backups = {}
  BY DEF Init, Idle, NoWriter
<1>2. ~CloseAsked /\ ~Detour /\ ~HasTemp
  BY <1>1 DEF CloseAsked, Detour, HasTemp
<1>3. WriterInv /\ BackupsInv /\ TempInv
  BY <1>1, <1>2 DEF WriterInv, BackupsInv, TempInv
<1>4. PrimaryInv
  BY <1>1, <1>2 DEF Init, PrimaryInv, None
<1>5. HeadersInv
  <2>1. CASE primary = None
    BY <1>1, <2>1 DEF HeadersInv
  <2>2. CASE primary # None
    <3>1. primary = 1 /\ lines = [i \in Inodes |-> IF i = 1 THEN <<Header, 1>> ELSE << >>]
      BY <2>2 DEF Init
    <3>2. 1 \in Inodes
      BY BoundsAssumption DEF Inodes
    <3>3. lines[primary] = <<Header, 1>>
      BY <3>1, <3>2
    <3>4. HasHeader(primary)
      BY <3>3 DEF HasHeader
    <3>5. QED BY <1>1, <3>4 DEF HeadersInv
  <2>3. QED BY <2>1, <2>2
<1>6. QED BY <1>3, <1>4, <1>5 DEF DirInv, DirParts

LEMMA DirStep ==
    ASSUME TypeInv, DirInv, [Next]_vars
    PROVE  DirInv'
<1> SUFFICES ASSUME ~overlapped'
             PROVE  DirParts'
  BY DEF DirInv
<1>0. ~overlapped /\ DirParts /\ TypeOK /\ AgeInv /\ UsedInv /\ chain \in Seq(Tasks)
  BY OverlappedStays, TaskMoves DEF DirInv, TypeInv
<1>a. ASSUME UNCHANGED <<disk, work, process>>, persistError' = persistError, flushed' => flushed
      PROVE  DirParts'
  BY <1>0, <1>a, DirStays DEF DirParts, PrimaryInv, WriterInv, Detour, CloseAsked
<1>1. ASSUME NEW assistant \in BOOLEAN, AppendEntry(assistant)
      PROVE  DirParts'
  <2>1. process = "running" /\ process' = "running" /\ task' = task /\ nextEntry \in Entries
    BY <1>1, AppendCases
  <2>2. CASE UNCHANGED <<disk, persistError, work>> /\ (flushed' => flushed)
    BY <1>a, <2>1, <2>2
  <2>3. CASE Enqueue(Rewrite) /\ UNCHANGED <<disk, flags, writer>>
    <3>1. Rewrite \in Tasks /\ Rewrite.kind = "rewrite"
      BY DEF Rewrite, Tasks
    <3>2. CloseAsked' => CloseAsked
      BY <1>0, <2>3, <3>1, ChainAppended DEF CloseAsked
    <3>3. QED BY <1>0, <2>1, <2>3, <3>2, DirStays DEF DirParts, PrimaryInv, WriterInv, Detour
  <2>4. CASE HotAppend(nextEntry)
    BY <1>0, <2>1, <2>4, DirAppends
  <2>5. QED BY <1>1, <2>2, <2>3, <2>4, AppendCases
<1>2. ASSUME NEW t \in Tasks, Request(t), t.kind = "close" => writer.state # "none"
      PROVE  DirParts'
  <2>1. UNCHANGED <<disk, flags, writer, task, process>> /\ Enqueue(t)
    BY <1>2 DEF Request
  <2>2. CloseAsked' => CloseAsked \/ writer.state # "none"
    BY <1>0, <1>2, <2>1, ChainAppended DEF CloseAsked
  <2>3. QED BY <1>0, <2>1, <2>2, DirStays DEF DirParts, PrimaryInv, WriterInv, Detour
<1>3. CASE SetSessionName \/ RewriteEntries \/ EnsureOnDisk \/ Flush \/ Close
  BY <1>0, <1>2, <1>3, OnDiskByNowType
     DEF SetSessionName, RewriteEntries, EnsureOnDisk, Flush, Close, Rewrite, Tasks
<1>4. CASE TaskStep
  BY <1>0, <1>4, DirTaskStep
<1>5. CASE Crash
  <2>1. UNCHANGED disk /\ process' # "running" /\ task'.at = "queued" /\ writer'.state = "none"
    BY <1>5 DEF Crash, Idle, NoWriter
  <2>2. QED BY <1>0, <2>1, DirStays
<1>6. CASE Restart
  <2>1. /\ task.at = "queued" /\ writer.state = "none" /\ chain = << >>
        /\ task' = task /\ writer' = writer /\ chain' = chain /\ lines' = lines /\ age' = age
    BY <1>6 DEF Restart, TypeInv, PhaseInv, Idle, NoWriter
  <2>2. ~CloseAsked' /\ ~Detour' /\ ~HasTemp'
    BY <2>1 DEF CloseAsked, Detour, HasTemp
  <2>3. process' = "running" => primary' # None
    BY <1>6 DEF Restart
  <2>4. WriterInv' /\ PrimaryInv' /\ TempInv'
    BY <2>1, <2>2, <2>3 DEF WriterInv, PrimaryInv, TempInv
  <2>5. CASE primary' = primary /\ backups' = backups
    BY <1>0, <2>1, <2>2, <2>4, <2>5 DEF DirParts, HeadersInv, HasHeader, BackupsInv
  <2>6. CASE backups # {} /\ primary' = NewestBackup /\ backups' = backups \ {NewestBackup}
    <3>1. NewestBackup \in backups /\ \A j \in backups : <<j, NewestBackup>> \in age
      BY <1>0, <2>6, NewestExists DEF IsNewest
    <3>2. HeadersInv'
      BY <1>0, <2>1, <2>6, <3>1 DEF DirParts, HeadersInv, HasHeader
    <3>3. BackupsInv'
      BY <2>1, <2>2, <2>6, <3>1 DEF BackupsInv
    <3>4. QED BY <2>4, <3>2, <3>3 DEF DirParts
  <2>7. QED BY <1>6, <2>5, <2>6 DEF Restart
<1>7. CASE UNCHANGED vars
  BY <1>7, <1>a
<1>8. QED BY <1>1, <1>3, <1>4, <1>5, <1>6, <1>7 DEF Next
-----------------------------------------------------------------------------
(***************************************************************************)
(* What a start after a crash finds, and how a step changes it.            *)
(***************************************************************************)
LoadedOf(i, content) ==
    IF i # None /\ content[i] # << >> /\ Head(content[i]) = Header THEN Tail(content[i]) ELSE << >>

NewestOf(S, order) == CHOOSE i \in S : \A j \in S : <<j, i>> \in order

RecoverableOf(file, S, content, order) ==
    IF file # None THEN LoadedOf(file, content)
    ELSE IF S # {} THEN LoadedOf(NewestOf(S, order), content) ELSE << >>

LEMMA RecoverableIs ==
    /\ Recoverable = RecoverableOf(primary, backups, lines, age)
    /\ Recoverable' = RecoverableOf(primary', backups', lines', age')
BY DEF Recoverable, RecoverableOf, LoadedOf, Loaded, NewestOf, NewestBackup

\* The newest of some inodes depends on their ages only.
LEMMA NewestSame ==
    ASSUME NEW S, NEW old, NEW new, \A i, j \in S : <<i, j>> \in old <=> <<i, j>> \in new
    PROVE  NewestOf(S, old) = NewestOf(S, new)
<1>1. \A i : (i \in S /\ \A j \in S : <<j, i>> \in old) <=> (i \in S /\ \A j \in S : <<j, i>> \in new)
  OBVIOUS
<1>2. (CHOOSE i : i \in S /\ \A j \in S : <<j, i>> \in old) = (CHOOSE i : i \in S /\ \A j \in S : <<j, i>> \in new)
  BY <1>1
<1>3. QED BY <1>2 DEF NewestOf

LEMMA NewestIs ==
    ASSUME NEW S, NEW order, NEW i, IsNewest(i, S, order),
           \A j, k \in S : <<j, k>> \in order /\ <<k, j>> \in order => j = k
    PROVE  NewestOf(S, order) = i
<1>1. i \in S /\ \A j \in S : <<j, i>> \in order
  BY DEF IsNewest
<1>2. \A k \in S : (\A j \in S : <<j, k>> \in order) => k = i
  BY <1>1
<1>3. QED BY <1>1, <1>2 DEF NewestOf

LEMMA RecoverableType ==
    ASSUME TypeInv
    PROVE  Recoverable \in Seq(Entries)
<1>1. primary \in Inodes \cup {None} /\ TypeOK /\ LinesInv /\ AgeInv /\ UsedInv /\ backups \subseteq Inodes
  BY DEF TypeInv, TypeOK
<1>2. << >> \in Seq(Entries)
  OBVIOUS
<1>3. backups # {} => NewestBackup \in Inodes
  BY <1>1, NewestExists
<1>4. QED BY <1>1, <1>2, <1>3, LoadedType DEF Recoverable

LEMMA RecoverHot ==
    ASSUME TypeInv, DirParts, NEW e \in Entries, HotAppend(e)
    PROVE  \/ /\ ~persistError' /\ written' = written \cup {e} /\ glued' = glued
              /\ Recoverable' = Append(Recoverable, e)
           \/ /\ ~persistError' /\ written' = written \cup {e} /\ glued' = glued \cup {e}
              /\ primary \in torn /\ Recoverable' = Recoverable
           \/ /\ persistError' /\ UNCHANGED <<written, glued>>
              /\ Recoverable' = Recoverable
<1>1. primary \in Inodes /\ primary # None /\ primary' = primary /\ lines \in [Inodes -> Seq(Entries \cup {Header})]
  BY DEF HotAppend, TypeInv, TypeOK
<1>2. lines[primary] # << >> /\ Head(lines[primary]) = Header
  BY <1>1 DEF DirParts, HeadersInv, HasHeader
<1>3. Recoverable = LoadedOf(primary, lines) /\ Recoverable' = LoadedOf(primary, lines')
  BY <1>1, RecoverableIs DEF RecoverableOf
<1>5. ASSUME lines' = [lines EXCEPT ![primary] = Append(@, e)]
      PROVE  Recoverable' = Append(Recoverable, e)
  <2>1. lines'[primary] = Append(lines[primary], e)
    BY <1>1, <1>5
  <2>2. lines'[primary] # << >> /\ Head(lines'[primary]) = Header
        /\ Tail(lines'[primary]) = Append(Tail(lines[primary]), e)
    BY <1>1, <1>2, <2>1, AppendProperties, HeadTailAppend
  <2>3. Recoverable' = Append(Recoverable, e)
    BY <1>1, <1>2, <1>3, <2>2 DEF LoadedOf
  <2>4. QED BY <2>3
<1>6. lines' = lines => Recoverable' = Recoverable
  BY <1>3
<1>7. lines' = [lines EXCEPT ![primary] = Append(@, e)] => Recoverable' = Append(Recoverable, e)
  BY <1>5
<1>8. QED BY <1>6, <1>7 DEF HotAppend

\* The rename of the temporary file over the session file.
RenamesTemp ==
    /\ HasTemp /\ primary' = task.temp /\ UNCHANGED <<lines, age>>
    /\ task'.at \in {"replaced", "removingBackup"} /\ task'.snapshot = task.snapshot
    /\ persistError' = persistError

LEMMA RecoverRename ==
    ASSUME TypeInv, DirParts, RenamesTemp
    PROVE  Recoverable' = task.snapshot
<1>1. task.temp # None /\ lines'[task.temp] = <<Header>> \o task.snapshot
  BY EntriesFacts DEF RenamesTemp, DirParts, TempInv, TypeInv, UsedInv, UsedInodes
<1>2. task.snapshot \in Seq(Entries)
  BY TaskMoves DEF TypeInv
<1>3. PICK s : s = <<Header>> \o task.snapshot
  OBVIOUS
<1>4. s # << >> /\ Head(s) = Header /\ Tail(s) = task.snapshot
  BY <1>2, <1>3, HeaderFirst
<1>5. Recoverable' = LoadedOf(task.temp, lines')
  BY <1>1, RecoverableIs DEF RecoverableOf, RenamesTemp
<1>6. QED BY <1>1, <1>3, <1>4, <1>5 DEF LoadedOf

\* The other steps of a rewrite.
LEMMA RecoverTask ==
    ASSUME TypeInv, DirParts, TaskStep
    PROVE  Recoverable' = Recoverable \/ RenamesTemp
<1>0. TypeOK /\ UsedInv /\ AgeInv /\ None \notin Inodes /\ backups \subseteq Inodes /\ primary \in Inodes \cup {None}
  BY EntriesFacts DEF TypeInv, TypeOK
<1>a. ASSUME UNCHANGED <<primary, backups, lines, age>>
      PROVE  Recoverable' = Recoverable
  BY <1>a, RecoverableIs
<1>b. ASSUME HasTemp, primary' = task.temp, Moved("replaced") \/ Moved("removingBackup"),
             UNCHANGED <<lines, age, persistError>>
      PROVE  RenamesTemp
  BY <1>b DEF RenamesTemp, Moved
<1>1. CASE BeginTask \/ CloseDone \/ TakeSnapshot \/ RewriteDone
  BY <1>1, <1>a DEF BeginTask, CloseDone, TakeSnapshot, RewriteDone
<1>2. CASE WriteTemp
  <2>1. UNCHANGED <<primary, backups>>
    BY <1>2 DEF WriteTemp
  <2>2. CASE UNCHANGED <<lines, age>>
    BY <1>a, <2>1, <2>2
  <2>3. CASE lines' = [lines EXCEPT ![FreshInode] = <<Header>> \o task.snapshot] /\ age' = Touch(FreshInode)
    <3>1. PICK fresh \in Inodes : fresh = FreshInode /\ fresh \notin UsedInodes
      BY FreshExists
    <3>2. \A i \in Inodes : i # fresh => lines'[i] = lines[i]
      BY <1>0, <2>3, <3>1 DEF TypeOK
    <3>3. \A j, k \in Inodes : j # fresh /\ k # fresh => (<<j, k>> \in age <=> <<j, k>> \in age')
      BY <1>0, <2>3, <3>1, TouchFacts DEF TypeOK
    <3>4. primary # fresh /\ fresh \notin backups
      BY <1>0, <3>1 DEF UsedInv
    <3>5. \A j, k \in backups : <<j, k>> \in age <=> <<j, k>> \in age'
      BY <1>0, <3>3, <3>4
    <3>6. NewestOf(backups, age) = NewestOf(backups, age')
      BY <3>5, NewestSame
    <3>7. backups # {} => NewestOf(backups, age) \in backups
      BY <1>0, NewestExists DEF NewestOf, NewestBackup
    <3>8. \A i \in Inodes : i # fresh => LoadedOf(i, lines) = LoadedOf(i, lines')
      BY <3>2 DEF LoadedOf
    <3>9. QED BY <1>0, <2>1, <3>4, <3>6, <3>7, <3>8, RecoverableIs DEF RecoverableOf
  <2>4. QED BY <1>2, <2>2, <2>3 DEF WriteTemp
<1>3. CASE Rename
  <2>1. HasTemp /\ UNCHANGED <<backups, lines, age>>
    BY <1>3 DEF Rename, RenameStep, Running, HasTemp
  <2>2. CASE primary' = task.temp /\ Goto("replaced") /\ UNCHANGED <<flags, chain, faults>>
    BY <1>0, <1>b, <2>1, <2>2, GotoMoves
  <2>3. CASE UNCHANGED primary
    BY <1>a, <2>1, <2>3
  <2>4. QED BY <1>3, <2>2, <2>3 DEF Rename
<1>4. CASE MoveAside
  <2>1. UNCHANGED <<lines, age>>
    BY <1>4 DEF MoveAside, RenameStep
  <2>2. CASE primary # None /\ primary' = None /\ backups' = backups \cup {primary}
    <3>1. <<primary, primary>> \in age
      BY <1>0, <2>2 DEF UsedInv, UsedInodes
    <3>2. IsNewest(primary, backups', age)
      BY <2>2, <3>1 DEF DirParts, BackupsInv, IsNewest
    <3>3. \A j, k \in backups' : <<j, k>> \in age /\ <<k, j>> \in age => j = k
      BY <1>0, <2>2 DEF AgeInv
    <3>4. NewestOf(backups', age) = primary
      BY <3>2, <3>3, NewestIs
    <3>5. QED BY <2>1, <2>2, <3>4, RecoverableIs DEF RecoverableOf
  <2>3. CASE UNCHANGED <<primary, backups>>
    BY <1>a, <2>1, <2>3
  <2>4. QED BY <1>0, <1>4, <2>2, <2>3, MoveAsideCases
<1>5. CASE RetryBare
  <2>1. HasTemp /\ UNCHANGED <<backups, lines, age>>
    BY <1>5 DEF RetryBare, RenameStep, Running, HasTemp
  <2>2. CASE primary' = task.temp /\ Goto("replaced") /\ UNCHANGED <<flags, chain, faults>>
    BY <1>0, <1>b, <2>1, <2>2, GotoMoves
  <2>3. CASE UNCHANGED primary
    BY <1>a, <2>1, <2>3
  <2>4. QED BY <1>5, <2>2, <2>3 DEF RetryBare
<1>6. CASE Retry
  <2>1. HasTemp /\ UNCHANGED <<backups, lines, age>>
    BY <1>6 DEF Retry, RenameStep, Running, HasTemp
  <2>2. CASE primary' = task.temp /\ Goto("removingBackup") /\ UNCHANGED <<flags, chain, faults>>
    BY <1>0, <1>b, <2>1, <2>2, GotoMoves
  <2>3. CASE UNCHANGED primary
    BY <1>a, <2>1, <2>3
  <2>4. QED BY <1>6, <2>2, <2>3 DEF Retry
<1>7. CASE RollBack
  <2>1. Detour /\ UNCHANGED <<lines, age>>
    BY <1>7 DEF RollBack, RenameStep, Running, Detour
  <2>2. primary = None /\ IsNewest(task.backup, backups, age)
    BY <2>1 DEF DirParts, BackupsInv
  <2>3. NewestBackup = task.backup /\ task.backup \in backups
    BY <1>0, <2>2, NewestIsIt DEF IsNewest
  <2>4. NewestOf(backups, age) = task.backup /\ task.backup # None
    BY <1>0, <2>3 DEF NewestOf, NewestBackup
  <2>5. CASE primary' = task.backup
    BY <2>1, <2>2, <2>3, <2>4, <2>5, RecoverableIs DEF RecoverableOf
  <2>6. CASE UNCHANGED <<primary, backups>>
    BY <1>a, <2>1, <2>6
  <2>7. QED BY <1>7, <2>5, <2>6 DEF RollBack
<1>8. CASE RemoveBackup
  <2>1. task.at = "removingBackup" /\ UNCHANGED <<primary, lines, age>>
    BY <1>8 DEF RemoveBackup, RenameStep, Running
  <2>2. primary # None
    BY <2>1 DEF DirParts, PrimaryInv
  <2>3. QED BY <2>1, <2>2, RecoverableIs DEF RecoverableOf
<1>9. QED BY <1>1, <1>2, <1>3, <1>4, <1>5, <1>6, <1>7, <1>8 DEF TaskStep

LEMMA RecoverRestart ==
    ASSUME TypeInv, Restart
    PROVE  /\ Recoverable' = Recoverable
           /\ process' = "running" => entries' = Recoverable'
<1>1. TypeOK /\ UsedInv /\ AgeInv /\ UNCHANGED <<lines, age>> /\ None \notin Inodes /\ backups \subseteq Inodes
  BY EntriesFacts DEF TypeInv, TypeOK, Restart
<1>2. entries' = LoadedOf(primary', lines')
  BY <1>1 DEF Restart, LoadedOf, Loaded
<1>3. CASE primary = None /\ backups # {} /\ primary' = NewestBackup
  <2>1. NewestOf(backups, age) = NewestBackup /\ NewestBackup \in backups
    BY <1>1, <1>3, NewestExists DEF NewestOf, NewestBackup
  <2>2. QED BY <1>1, <1>2, <1>3, <2>1, RecoverableIs DEF RecoverableOf
<1>4. CASE primary = None /\ UNCHANGED <<primary, backups>>
  <2>1. process' # "running"
    BY <1>4 DEF Restart
  <2>2. QED BY <1>1, <1>4, <2>1, RecoverableIs
<1>5. CASE primary # None /\ UNCHANGED <<primary, backups>>
  BY <1>1, <1>2, <1>5, RecoverableIs DEF RecoverableOf, LoadedOf
<1>6. QED BY <1>3, <1>4, <1>5 DEF Restart
-----------------------------------------------------------------------------
(***************************************************************************)
(* What was written stays.  A rewrite that has its snapshot is as good as  *)
(* done: Kept is what the file will have when nothing else happens.        *)
(***************************************************************************)
Kept == IF HasTemp \/ task.at = "writing" THEN task.snapshot ELSE Recoverable

SavedInv ==
    ~overlapped =>
        /\ written \ glued \subseteq ToSet(Recoverable)
        /\ written \ glued \subseteq ToSet(Kept)
        /\ process = "running" => written \ glued \subseteq ToSet(entries)
        /\ PastSnapshot => ToSet(task.snapshot) \subseteq ToSet(entries)
        /\ task.at \in {"removingBackup", "replaced"} =>
              ToSet(task.snapshot) \subseteq ToSet(Recoverable)

LEMMA ToSetAppend ==
    ASSUME NEW S, NEW s \in Seq(S), NEW e \in S
    PROVE  ToSet(Append(s, e)) = ToSet(s) \cup {e}
<1>1. PICK t : t = Append(s, e)
  OBVIOUS
<1>2. /\ t \in Seq(S) /\ Len(t) = Len(s) + 1 /\ Len(s) \in Nat
      /\ \A i \in 1..Len(s) : t[i] = s[i]
      /\ t[Len(s) + 1] = e
  BY <1>1, AppendProperties
<1>3. DOMAIN s = 1..Len(s) /\ DOMAIN t = 1..(Len(s) + 1)
  BY <1>2
<1>4. ToSet(t) = ToSet(s) \cup {e}
  <2>1. \A x : x \in ToSet(t) <=> \E i \in 1..(Len(s) + 1) : x = t[i]
    BY <1>3 DEF ToSet
  <2>2. \A x : x \in ToSet(s) <=> \E i \in 1..Len(s) : x = s[i]
    BY <1>3 DEF ToSet
  <2>3. \A i : i \in 1..(Len(s) + 1) <=> i \in 1..Len(s) \/ i = Len(s) + 1
    BY <1>2
  <2>4. QED BY <1>2, <2>1, <2>2, <2>3
<1>5. QED BY <1>1, <1>4

\* A step of the chain, seen from what will be kept.
LEMMA KeptTask ==
    ASSUME TypeInv, DirParts, TaskStep
    PROVE  \/ TakeSnapshot /\ Kept' = entries /\ Recoverable' = Recoverable
           \/ Kept' = Kept /\ (Recoverable' = Recoverable \/ RenamesTemp)
           \/ persistError' /\ Kept' = Recoverable /\ Recoverable' = Recoverable
<1>0. TypeOK /\ (Recoverable' = Recoverable \/ RenamesTemp)
  BY RecoverTask DEF TypeInv
<1>a. ASSUME RenamesTemp
      PROVE  Kept' = Kept
  <2>1. ~HasTemp' /\ task'.at # "writing"
    BY <1>a DEF RenamesTemp, HasTemp
  <2>2. Recoverable' = task.snapshot
    BY <1>a, RecoverRename
  <2>3. QED BY <1>a, <2>1, <2>2 DEF Kept, RenamesTemp
<1>b. ASSUME Recoverable' = Recoverable, task.at \notin {"writing"}, ~HasTemp, task'.at \notin {"writing"}, ~HasTemp'
      PROVE  Kept' = Kept
  BY <1>b DEF Kept
<1>c. ASSUME HasTemp \/ task.at = "writing", HasTemp' \/ task'.at = "writing", task'.snapshot = task.snapshot
      PROVE  Kept' = Kept
  BY <1>c DEF Kept
<1>d. ASSUME FailTask, Recoverable' = Recoverable
      PROVE  persistError' /\ Kept' = Recoverable
  BY <1>d DEF FailTask, EndTask, Idle, Kept, HasTemp
<1>1. CASE BeginTask \/ CloseDone \/ RemoveBackup \/ RewriteDone
  <2>1. task.at \in {"queued", "closing", "removingBackup", "replaced"}
    BY <1>1 DEF BeginTask, CloseDone, RemoveBackup, RewriteDone, RenameStep, Running
  <2>2. task'.at \in {"queued", "closing", "replaced"}
    BY <1>0, <1>1, GotoMoves
       DEF BeginTask, CloseDone, RemoveBackup, RewriteDone, FailTask, EndTask, Idle, Moved
  <2>3. ~HasTemp /\ ~HasTemp'
    BY <2>1, <2>2 DEF HasTemp
  <2>4. QED BY <1>0, <1>a, <1>b, <2>1, <2>2, <2>3
<1>2. CASE TakeSnapshot
  <2>1. task'.at = "writing" /\ task'.snapshot = entries /\ UNCHANGED disk
    BY <1>0, <1>2 DEF TakeSnapshot, TypeOK
  <2>2. Recoverable' = Recoverable
    BY <2>1, RecoverableIs
  <2>3. QED BY <1>2, <2>1, <2>2 DEF Kept
<1>3. CASE WriteTemp
  <2>1. task.at = "writing"
    BY <1>3 DEF WriteTemp, Running
  <2>2. Recoverable' = Recoverable
    BY <1>0, <2>1 DEF RenamesTemp, HasTemp
  <2>3. FailTask \/ (task'.at = "renaming" /\ task'.snapshot = task.snapshot)
    BY <1>0, <1>3 DEF WriteTemp, TypeOK
  <2>4. QED BY <1>c, <1>d, <2>1, <2>2, <2>3 DEF HasTemp
<1>4. CASE Rename \/ MoveAside \/ RetryBare \/ Retry \/ RollBack
  <2>1. HasTemp
    BY <1>4 DEF Rename, MoveAside, RetryBare, Retry, RollBack, RenameStep, Running, HasTemp
  <2>2. CASE RenamesTemp
    BY <1>a, <2>2
  <2>3. CASE Recoverable' = Recoverable /\ FailTask
    BY <1>d, <2>3
  <2>4. CASE Recoverable' = Recoverable /\ HasTemp' /\ task'.snapshot = task.snapshot
    BY <1>c, <2>1, <2>4
  <2>5. \/ FailTask
        \/ HasTemp' /\ task'.snapshot = task.snapshot
        \/ RenamesTemp
    <3>1. CASE Rename
      <4>1. UNCHANGED <<lines, age>>
        BY <3>1 DEF Rename, RenameStep
      <4>2. CASE Goto("replaced") /\ primary' = task.temp /\ UNCHANGED flags
        BY <1>0, <2>1, <4>1, <4>2, GotoMoves DEF Moved, RenamesTemp
      <4>3. CASE Goto("movingAside")
        BY <1>0, <4>3, GotoMoves DEF Moved, HasTemp
      <4>4. QED BY <3>1, <4>2, <4>3 DEF Rename
    <3>2. CASE MoveAside
      BY <1>0, <3>2, MoveAsideCases DEF Moved, HasTemp
    <3>3. CASE RetryBare
      <4>1. UNCHANGED <<lines, age>>
        BY <3>3 DEF RetryBare, RenameStep
      <4>2. CASE Goto("replaced") /\ primary' = task.temp /\ UNCHANGED flags
        BY <1>0, <2>1, <4>1, <4>2, GotoMoves DEF Moved, RenamesTemp
      <4>3. QED BY <3>3, <4>2 DEF RetryBare
    <3>4. CASE Retry
      <4>1. UNCHANGED <<lines, age>>
        BY <3>4 DEF Retry, RenameStep
      <4>2. CASE Goto("removingBackup") /\ primary' = task.temp /\ UNCHANGED flags
        BY <1>0, <2>1, <4>1, <4>2, GotoMoves DEF Moved, RenamesTemp
      <4>3. CASE Goto("rollingBack")
        BY <1>0, <4>3, GotoMoves DEF Moved, HasTemp
      <4>4. QED BY <3>4, <4>2, <4>3 DEF Retry
    <3>5. CASE RollBack
      BY <3>5 DEF RollBack
    <3>6. QED BY <1>4, <3>1, <3>2, <3>3, <3>4, <3>5
  <2>6. QED BY <1>0, <2>2, <2>3, <2>4, <2>5
<1>5. QED BY <1>1, <1>2, <1>3, <1>4 DEF TaskStep

\* An entry written in place is behind all that was there.
LEMMA KeptHot ==
    ASSUME TypeInv, DirParts, NEW e \in Entries, HotAppend(e)
    PROVE  /\ Kept = Recoverable /\ Kept' = Recoverable'
           /\ \/ /\ ~persistError' /\ written' = written \cup {e} /\ glued' = glued
                 /\ Recoverable' = Append(Recoverable, e)
              \/ /\ ~persistError' /\ written' = written \cup {e} /\ glued' = glued \cup {e}
                 /\ primary \in torn /\ Recoverable' = Recoverable
              \/ /\ persistError' /\ UNCHANGED <<written, glued>>
                 /\ Recoverable' = Recoverable
<1>1. ~HasTemp /\ task.at # "writing" /\ ~HasTemp' /\ task'.at # "writing"
  BY DEF HotAppend, NotInPlace, HasTemp
<1>2. Kept = Recoverable /\ Kept' = Recoverable'
  BY <1>1 DEF Kept
<1>3. QED BY <1>2, RecoverHot

\* Where a task comes from, when it has its snapshot.
LEMMA TaskPlaces ==
    ASSUME TypeInv, TaskStep
    PROVE  /\ PastSnapshot' => \/ TakeSnapshot /\ task'.snapshot = entries
                               \/ PastSnapshot /\ task'.snapshot = task.snapshot
           /\ task'.at \in {"removingBackup", "replaced"} =>
                 \/ RenamesTemp
                 \/ task.at \in {"removingBackup", "replaced"} /\ task'.snapshot = task.snapshot
<1>0. TypeOK
  BY DEF TypeInv
<1>a. ASSUME EndTask
      PROVE  task'.at = "queued" /\ ~PastSnapshot'
  BY <1>a DEF EndTask, Idle, PastSnapshot
<1>b. ASSUME NEW at, Goto(at)
      PROVE  task'.at = at /\ task'.snapshot = task.snapshot
  BY <1>0, <1>b, GotoMoves DEF Moved
<1>1. CASE BeginTask
  BY <1>1, <1>a, <1>b DEF BeginTask, FailTask, PastSnapshot
<1>2. CASE CloseDone \/ RollBack \/ RewriteDone
  BY <1>2, <1>a DEF CloseDone, RollBack, RewriteDone, FailTask
<1>3. CASE TakeSnapshot
  BY <1>0, <1>3 DEF TakeSnapshot, TypeOK
<1>4. CASE WriteTemp
  <2>1. task.at = "writing"
    BY <1>4 DEF WriteTemp, Running
  <2>2. EndTask \/ (task'.at = "renaming" /\ task'.snapshot = task.snapshot)
    BY <1>0, <1>4 DEF WriteTemp, TypeOK, FailTask
  <2>3. QED BY <1>a, <2>1, <2>2 DEF PastSnapshot
<1>5. CASE Rename
  <2>1. task.at = "renaming" /\ UNCHANGED <<lines, age>>
    BY <1>5 DEF Rename, RenameStep, Running
  <2>2. CASE primary' = task.temp /\ Goto("replaced") /\ UNCHANGED flags
    BY <1>b, <2>1, <2>2 DEF PastSnapshot, RenamesTemp, HasTemp
  <2>3. CASE EndTask
    BY <1>a, <2>3
  <2>4. CASE Goto("movingAside")
    BY <1>b, <2>1, <2>4 DEF PastSnapshot
  <2>5. QED BY <1>5, <2>2, <2>3, <2>4 DEF Rename, FailTask
<1>6. CASE MoveAside
  <2>1. task.at = "movingAside"
    BY <1>6 DEF MoveAside, RenameStep, Running
  <2>2. EndTask \/ (task'.at \in {"retrying", "retryingBare"} /\ task'.snapshot = task.snapshot)
    BY <1>0, <1>6, MoveAsideCases DEF Moved, FailTask
  <2>3. QED BY <1>a, <2>1, <2>2 DEF PastSnapshot
<1>7. CASE RetryBare
  <2>1. task.at = "retryingBare" /\ UNCHANGED <<lines, age>>
    BY <1>7 DEF RetryBare, RenameStep, Running
  <2>2. CASE primary' = task.temp /\ Goto("replaced") /\ UNCHANGED flags
    BY <1>b, <2>1, <2>2 DEF PastSnapshot, RenamesTemp, HasTemp
  <2>3. CASE EndTask
    BY <1>a, <2>3
  <2>4. QED BY <1>7, <2>2, <2>3 DEF RetryBare, FailTask
<1>8. CASE Retry
  <2>1. task.at = "retrying" /\ UNCHANGED <<lines, age>>
    BY <1>8 DEF Retry, RenameStep, Running
  <2>2. CASE primary' = task.temp /\ Goto("removingBackup") /\ UNCHANGED flags
    BY <1>b, <2>1, <2>2 DEF PastSnapshot, RenamesTemp, HasTemp
  <2>3. CASE Goto("rollingBack")
    BY <1>b, <2>1, <2>3 DEF PastSnapshot
  <2>4. QED BY <1>8, <2>2, <2>3 DEF Retry
<1>9. CASE RemoveBackup
  BY <1>9, <1>b DEF RemoveBackup, RenameStep, Running, PastSnapshot
<1>10. QED BY <1>1, <1>2, <1>3, <1>4, <1>5, <1>6, <1>7, <1>8, <1>9 DEF TaskStep

-----------------------------------------------------------------------------
(***************************************************************************)
(* A file a rewrite has made does not end in a fragment, until the rewrite *)
(* is over or a write to it fails.                                         *)
(***************************************************************************)
SoundParts ==
    /\ HasTemp => task.temp \notin torn
    /\ task.at \in {"removingBackup", "replaced"} /\ ~persistError => primary \notin torn

SoundInv == ~overlapped => SoundParts

LEMMA SoundInit == Init => SoundInv
BY DEF Init, Idle, SoundInv, SoundParts, HasTemp

\* Where the temporary file of a rewrite comes from.
LEMMA TempPlaces ==
    ASSUME TypeInv, TaskStep, HasTemp'
    PROVE  \/ HasTemp /\ task'.temp = task.temp
           \/ task'.temp = FreshInode
<1>0. TypeOK
  BY DEF TypeInv
<1>a. ASSUME EndTask
      PROVE  FALSE
  BY <1>a DEF EndTask, Idle, HasTemp
<1>b. ASSUME NEW at, Goto(at)
      PROVE  task'.at = at /\ task'.temp = task.temp
  BY <1>0, <1>b, GotoMoves DEF Moved
<1>1. CASE BeginTask \/ CloseDone \/ RemoveBackup \/ RewriteDone
  BY <1>1, <1>a, <1>b DEF BeginTask, CloseDone, RemoveBackup, RewriteDone, FailTask, HasTemp
<1>2. CASE TakeSnapshot
  <2>1. task'.at = "writing"
    BY <1>0, <1>2 DEF TakeSnapshot, TypeOK
  <2>2. QED BY <2>1 DEF HasTemp
<1>3. CASE WriteTemp
  BY <1>0, <1>3, <1>a DEF WriteTemp, FailTask, TypeOK
<1>4. CASE Rename \/ RetryBare \/ Retry \/ RollBack
  <2>1. HasTemp
    BY <1>4 DEF Rename, RetryBare, Retry, RollBack, RenameStep, Running, HasTemp
  <2>2. QED BY <1>4, <2>1, <1>a, <1>b DEF Rename, RetryBare, Retry, RollBack, FailTask
<1>5. CASE MoveAside
  <2>1. HasTemp
    BY <1>5 DEF MoveAside, RenameStep, Running, HasTemp
  <2>2. QED BY <1>0, <1>5, <1>a, <2>1, MoveAsideCases DEF FailTask, Moved
<1>6. QED BY <1>1, <1>2, <1>3, <1>4, <1>5 DEF TaskStep

LEMMA SoundStep ==
    ASSUME TypeInv, DirInv, SoundInv, [Next]_vars
    PROVE  SoundInv'
<1> SUFFICES ASSUME ~overlapped'
             PROVE  SoundParts'
  BY DEF SoundInv
<1>0. ~overlapped /\ DirParts /\ SoundParts /\ TypeOK
  BY OverlappedStays DEF DirInv, SoundInv, TypeInv
<1>a. ASSUME UNCHANGED <<torn, task, primary>>, persistError => persistError'
      PROVE  SoundParts'
  BY <1>0, <1>a DEF SoundParts, HasTemp
<1>1. ASSUME NEW assistant \in BOOLEAN, AppendEntry(assistant)
      PROVE  SoundParts'
  <2>1. task' = task
    BY <1>1, AppendCases
  <2>2. CASE UNCHANGED disk /\ persistError' = persistError
    BY <1>a, <2>1, <2>2
  <2>3. CASE HotAppend(nextEntry)
    <3>1. ~HasTemp' /\ primary' = primary
      BY <2>3 DEF HotAppend, NotInPlace, HasTemp
    <3>2. persistError' \/ torn' \subseteq torn
      BY <2>3 DEF HotAppend
    <3>3. ~persistError
      BY <2>3 DEF HotAppend
    <3>4. QED BY <1>0, <2>1, <3>1, <3>2, <3>3 DEF SoundParts
  <2>4. QED BY <1>1, <2>2, <2>3, AppendCases
<1>2. CASE SetSessionName \/ RewriteEntries \/ EnsureOnDisk \/ Flush \/ Close
  BY <1>0, <1>2, <1>a, RequestCases DEF Request
<1>3. CASE TaskStep
  <2>1. torn' = torn /\ (persistError => persistError')
    BY <1>3 DEF TaskStep, BeginTask, CloseDone, TakeSnapshot, WriteTemp, Rename, MoveAside, RetryBare,
                Retry, RollBack, RemoveBackup, RewriteDone, RenameStep, FailTask
  <2>2. HasTemp' => task'.temp \notin torn'
    <3>1. FreshInode \notin torn
      BY FreshExists DEF TypeInv, TornInv
    <3>2. QED BY <1>0, <1>3, <2>1, <3>1, TempPlaces DEF SoundParts
  <2>3. ASSUME task'.at \in {"removingBackup", "replaced"}, ~persistError'
        PROVE  primary' \notin torn'
    <3>1. CASE RenamesTemp
      BY <1>0, <2>1, <3>1 DEF RenamesTemp, SoundParts
    <3>2. CASE task.at \in {"removingBackup", "replaced"}
      <4>1. primary' = primary
        BY <1>3, <3>2 DEF TaskStep, BeginTask, CloseDone, TakeSnapshot, WriteTemp, Rename, MoveAside, RetryBare,
                Retry, RollBack, RemoveBackup, RewriteDone, RenameStep, Running
      <4>2. QED BY <1>0, <2>1, <2>3, <3>2, <4>1 DEF SoundParts
    <3>3. QED BY <1>3, <2>3, <3>1, <3>2, TaskPlaces
  <2>4. QED BY <2>2, <2>3 DEF SoundParts
<1>4. CASE Crash \/ Restart
  <2>1. task'.at = "queued"
    BY <1>4 DEF Crash, Restart, TypeInv, PhaseInv, Idle
  <2>2. QED BY <2>1 DEF SoundParts, HasTemp
<1>5. CASE UNCHANGED vars
  BY <1>5, <1>a
<1>6. QED BY <1>1, <1>2, <1>3, <1>4, <1>5 DEF Next

LEMMA SavedInit == Init => SavedInv
<1> SUFFICES ASSUME Init PROVE SavedInv
  OBVIOUS
<1>1. task.at = "queued" /\ ~HasTemp
  BY DEF Init, Idle, HasTemp
<1>2. Kept = Recoverable /\ ~PastSnapshot
  BY <1>1 DEF Kept, PastSnapshot
<1>3. CASE written = {}
  <2>1. written \ glued = {}
    BY <1>3
  <2>2. QED BY <1>1, <1>2, <2>1 DEF SavedInv
<1>4. CASE /\ primary = 1 /\ written = {1} /\ entries = <<1>>
           /\ lines = [i \in Inodes |-> IF i = 1 THEN <<Header, 1>> ELSE << >>]
  <2>1. 1 \in Inodes
    BY BoundsAssumption DEF Inodes
  <2>2. Recoverable = Tail(<<Header, 1>>)
    BY <1>4, <2>1 DEF Recoverable, Loaded, None
  <2>3. Tail(<<Header, 1>>) = <<1>>
    BY OpenedFile
  <2>4. 1 \in ToSet(<<1>>)
    BY DEF ToSet
  <2>5. QED BY <1>1, <1>2, <1>4, <2>2, <2>3, <2>4 DEF SavedInv
<1>5. QED BY <1>3, <1>4 DEF Init

LEMMA SavedStep ==
    ASSUME TypeInv, DirInv, SavedInv, [Next]_vars
    PROVE  SavedInv'
<1> DEFINE Saved == /\ written \ glued \subseteq ToSet(Recoverable)
                    /\ written \ glued \subseteq ToSet(Kept)
                    /\ process = "running" => written \ glued \subseteq ToSet(entries)
                    /\ PastSnapshot => ToSet(task.snapshot) \subseteq ToSet(entries)
                    /\ task.at \in {"removingBackup", "replaced"} =>
                          ToSet(task.snapshot) \subseteq ToSet(Recoverable)
<1> SUFFICES ASSUME ~overlapped'
             PROVE  Saved'
  BY DEF SavedInv
<1>0. ~overlapped /\ DirParts /\ TypeOK /\ entries \in Seq(Entries) /\ Recoverable \in Seq(Entries)
  BY OverlappedStays, RecoverableType DEF DirInv, TypeInv, TypeOK
<1>s. Saved
  BY <1>0 DEF SavedInv
<1>a. ASSUME UNCHANGED <<disk, task, written, glued>>, ToSet(entries) \subseteq ToSet(entries'), process' = process
      PROVE  Saved'
  <2>1. Recoverable' = Recoverable /\ Kept' = Kept
    BY <1>a, RecoverableIs DEF Kept, HasTemp
  <2>2. QED BY <1>s, <1>a, <2>1 DEF PastSnapshot
<1>1. ASSUME NEW assistant \in BOOLEAN, AppendEntry(assistant)
      PROVE  Saved'
  <2>1. process = "running" /\ process' = "running" /\ task' = task /\ nextEntry \in Entries
        /\ entries' = Append(entries, nextEntry)
    BY <1>1, AppendCases
  <2>2. ToSet(entries') = ToSet(entries) \cup {nextEntry}
    BY <1>0, <2>1, ToSetAppend
  <2>3. CASE UNCHANGED <<disk, written, glued>>
    BY <1>a, <2>1, <2>2, <2>3
  <2>4. CASE HotAppend(nextEntry)
    <3>1. Kept' = Recoverable'
      BY <1>0, <2>1, <2>4, KeptHot
    <3>2. /\ ToSet(Recoverable) \subseteq ToSet(Recoverable')
          /\ written' \ glued' \subseteq ToSet(Recoverable')
          /\ written' \ glued' \subseteq (written \ glued) \cup {nextEntry}
      <4>1. CASE Recoverable' = Recoverable /\ UNCHANGED <<written, glued>>
        BY <1>s, <4>1
      <4>2. CASE Recoverable' = Recoverable /\ written' = written \cup {nextEntry}
                 /\ glued' = glued \cup {nextEntry}
        BY <1>s, <4>2
      <4>3. CASE Recoverable' = Append(Recoverable, nextEntry) /\ written' = written \cup {nextEntry}
                 /\ glued' = glued
        <5>1. ToSet(Recoverable') = ToSet(Recoverable) \cup {nextEntry}
          BY <1>0, <2>1, <4>3, ToSetAppend
        <5>2. QED BY <1>s, <4>3, <5>1
      <4>4. QED BY <1>0, <2>1, <2>4, <4>1, <4>2, <4>3, KeptHot
    <3>3. QED BY <1>s, <2>1, <2>2, <3>1, <3>2 DEF PastSnapshot
  <2>5. QED BY <1>1, <2>3, <2>4, AppendCases
<1>2. ASSUME NEW t \in Tasks, Request(t)
      PROVE  Saved'
  BY <1>2, <1>a DEF Request
<1>3. CASE TaskStep
  <2>1. entries' = entries /\ process = "running" /\ process' = "running"
    BY <1>3 DEF TaskStep, BeginTask, CloseDone, TakeSnapshot, WriteTemp, Rename, MoveAside, RetryBare,
                Retry, RollBack, RemoveBackup, RewriteDone, RenameStep, Running
  <2>2. CASE RewriteDone
    <3>1. task.at = "replaced" /\ ~HasTemp /\ PastSnapshot
      BY <2>2 DEF RewriteDone, Running, HasTemp, PastSnapshot
    <3>2. /\ task'.at = "queued" /\ UNCHANGED disk
          /\ written' = written \cup ToSet(task.snapshot) /\ glued' = glued \ ToSet(task.snapshot)
      BY <2>2 DEF RewriteDone, EndTask, Idle
    <3>3. Recoverable' = Recoverable
      BY <3>2, RecoverableIs
    <3>4. Kept' = Recoverable /\ ~PastSnapshot'
      BY <3>2, <3>3 DEF Kept, HasTemp, PastSnapshot
    <3>5. written' \ glued' \subseteq (written \ glued) \cup ToSet(task.snapshot)
      BY <3>2
    <3>6. QED BY <1>s, <2>1, <3>1, <3>2, <3>3, <3>4, <3>5
  <2>3. CASE ~RewriteDone
    <3>1. written' = written /\ glued' = glued
      BY <1>3, <2>3 DEF TaskStep, BeginTask, CloseDone, TakeSnapshot, WriteTemp, Rename, MoveAside, RetryBare,
                  Retry, RollBack, RemoveBackup, RenameStep
    <3>2. PastSnapshot' => \/ task'.snapshot = entries
                           \/ PastSnapshot /\ task'.snapshot = task.snapshot
      BY <1>0, <1>3, <2>3, TaskPlaces
    <3>3. task'.at \in {"removingBackup", "replaced"} =>
             \/ RenamesTemp
             \/ task.at \in {"removingBackup", "replaced"} /\ task'.snapshot = task.snapshot
      BY <1>0, <1>3, <2>3, TaskPlaces
    <3>4. CASE TakeSnapshot /\ Kept' = entries /\ Recoverable' = Recoverable
      <4>1. task'.at = "writing" /\ task'.snapshot = entries
        BY <1>0, <3>4 DEF TakeSnapshot, TypeOK
      <4>2. QED BY <1>s, <2>1, <3>1, <3>4, <4>1
    <3>5. CASE Kept' = Kept /\ Recoverable' = Recoverable
      <4>1. task'.at \in {"removingBackup", "replaced"} => ToSet(task'.snapshot) \subseteq ToSet(Recoverable')
        BY <1>0, <1>s, <3>3, <3>5, RecoverRename DEF RenamesTemp
      <4>2. QED BY <1>s, <2>1, <3>1, <3>2, <3>5, <4>1
    <3>6. CASE Kept' = Kept /\ RenamesTemp
      <4>1. Recoverable' = task.snapshot /\ Kept = task.snapshot /\ task'.snapshot = task.snapshot
        BY <1>0, <3>6, RecoverRename DEF RenamesTemp, Kept
      <4>2. QED BY <1>s, <2>1, <3>1, <3>2, <3>6, <4>1
    <3>7. CASE persistError' /\ Kept' = Recoverable /\ Recoverable' = Recoverable
      <4>1. task'.at \in {"removingBackup", "replaced"} => ToSet(task'.snapshot) \subseteq ToSet(Recoverable')
        BY <1>0, <1>s, <3>3, <3>7, RecoverRename DEF RenamesTemp
      <4>2. QED BY <1>s, <2>1, <3>1, <3>2, <3>7, <4>1
    <3>8. QED BY <1>0, <1>3, <3>4, <3>5, <3>6, <3>7, KeptTask
  <2>4. QED BY <2>2, <2>3
<1>4. CASE Crash
  <2>1. UNCHANGED <<disk, written, glued>> /\ process' # "running" /\ task'.at = "queued"
    BY <1>4 DEF Crash, Idle
  <2>2. Recoverable' = Recoverable
    BY <2>1, RecoverableIs
  <2>3. Kept' = Recoverable /\ ~PastSnapshot'
    BY <2>1, <2>2 DEF Kept, HasTemp, PastSnapshot
  <2>4. QED BY <1>s, <2>1, <2>2, <2>3
<1>5. CASE Restart
  <2>1. task' = task /\ task.at = "queued" /\ written' = written /\ glued' = glued
    BY <1>5 DEF Restart, TypeInv, PhaseInv, Idle
  <2>2. Recoverable' = Recoverable /\ (process' = "running" => entries' = Recoverable')
    BY <1>5, RecoverRestart
  <2>3. Kept' = Recoverable' /\ ~PastSnapshot'
    BY <2>1 DEF Kept, HasTemp, PastSnapshot
  <2>4. QED BY <1>s, <2>1, <2>2, <2>3
<1>6. CASE UNCHANGED vars
  BY <1>6, <1>a
<1>7. QED BY <1>0, <1>1, <1>2, <1>3, <1>4, <1>5, <1>6, RequestCases DEF Next
-----------------------------------------------------------------------------
(***************************************************************************)
(* What is on disk is a beginning of the entries, all of them if they      *)
(* belong there, or a rewrite is still to come.                            *)
(***************************************************************************)
\* Before task k there is a rewrite that has not taken its snapshot.
RewriteAhead(k) ==
    \E j \in 1..(k - 1) :
        /\ chain[j].kind \in {"rewrite", "ensure"}
        /\ j = 1 => task.at \in {"queued", "closing"}

RewriteToCome == RewriteAhead(Len(chain) + 1)

Belongs == ensuredOnDisk \/ \E e \in ToSet(entries) : e \in assistants

FlushesInv ==
    \A k \in 1..Len(chain) :
        chain[k].kind = "flush" =>
            /\ chain[k].want \subseteq ToSet(entries)
            /\ RewriteAhead(k) \/ chain[k].want \ glued \subseteq ToSet(Kept)

\* No entry in memory was joined to a fragment, but for those the rewrite that
\* is under way has copied.
NoneJoined == glued \cap ToSet(entries) \subseteq (IF PastSnapshot THEN ToSet(task.snapshot) ELSE {})

WholeParts ==
    /\ RewriteToCome \/ IsPrefix(Kept, entries)
    /\ flushed \/ Belongs \/ PastSnapshot => RewriteToCome \/ Kept = entries

\* Whatever was joined to a fragment, the other entries are on disk.
NoneMissing ==
    flushed \/ Belongs \/ PastSnapshot => RewriteToCome \/ ToSet(entries) \ glued \subseteq ToSet(Kept)

KeptParts ==
    /\ NoneJoined => WholeParts
    /\ NoneMissing
    /\ writer.state # "none" \/ CloseAsked => Belongs
    /\ FlushesInv

KeptInv == process = "running" /\ ~persistError /\ ~overlapped => KeptParts

LEMMA PrefixSelf == ASSUME NEW S, NEW s \in Seq(S) PROVE IsPrefix(s, s)
BY DEF IsPrefix

LEMMA PrefixAppend ==
    ASSUME NEW S, NEW s \in Seq(S), NEW t \in Seq(S), NEW e \in S, IsPrefix(s, t)
    PROVE  IsPrefix(s, Append(t, e))
<1>1. PICK u : u = Append(t, e)
  OBVIOUS
<1>2. u \in Seq(S) /\ Len(u) = Len(t) + 1 /\ \A i \in 1..Len(t) : u[i] = t[i]
  BY <1>1, AppendProperties
<1>3. PICK n \in Nat : n = Len(s)
  OBVIOUS
<1>4. Len(t) \in Nat /\ n <= Len(t) /\ SubSeq(s, 1, n) = SubSeq(t, 1, n)
  BY <1>3 DEF IsPrefix
<1>5. SubSeq(u, 1, n) = SubSeq(t, 1, n)
  <2>1. \A i \in 1..n : i \in 1..Len(t) /\ u[i] = t[i]
    BY <1>2, <1>4
  <2>2. SubSeq(u, 1, n) = [i \in 1..n |-> u[i]] /\ SubSeq(t, 1, n) = [i \in 1..n |-> t[i]]
    BY <1>2, <1>4
  <2>3. QED BY <2>1, <2>2
<1>6. QED BY <1>1, <1>2, <1>3, <1>4, <1>5 DEF IsPrefix

\* How the rewrites ahead change with the chain.
LEMMA AheadAppended ==
    ASSUME TypeInv, NEW t \in Tasks, Enqueue(t), task' = task
    PROVE  /\ \A k \in 1..(Len(chain) + 1) : RewriteAhead(k)' <=> RewriteAhead(k)
           /\ RewriteToCome' <=> (RewriteToCome \/ t.kind \in {"rewrite", "ensure"})
<1>1. chain \in Seq(Tasks) /\ (chain = << >> => task.at = "queued")
  BY TaskMoves DEF TypeInv, PhaseInv
<1>2. PICK n \in Nat : n = Len(chain)
  BY <1>1
<1>3. /\ Len(chain') = n + 1 /\ \A k \in 1..n : chain'[k] = chain[k]
      /\ chain'[n + 1] = t
  BY <1>1, <1>2, ChainAppended
<1>4. \A k \in 1..(n + 1) : RewriteAhead(k)' <=> RewriteAhead(k)
  <2>1. \A k \in 1..(n + 1) : \A j \in 1..(k - 1) : j \in 1..n
    OBVIOUS
  <2>2. QED BY <1>3, <2>1 DEF RewriteAhead
<1>5. RewriteToCome' <=> RewriteAhead(n + 2)'
  BY <1>3 DEF RewriteToCome
<1>6. RewriteAhead(n + 2)' <=> RewriteAhead(n + 1)' \/ t.kind \in {"rewrite", "ensure"}
  <2>1. \A j : j \in 1..(n + 2 - 1) <=> j \in 1..(n + 1 - 1) \/ j = n + 1
    OBVIOUS
  <2>2. n + 1 = 1 => task'.at \in {"queued", "closing"}
    BY <1>1, <1>2, EmptySeq
  <2>3. QED BY <1>3, <2>1, <2>2 DEF RewriteAhead
<1>7. n + 1 \in 1..(n + 1)
  OBVIOUS
<1>8. QED BY <1>2, <1>4, <1>5, <1>6, <1>7 DEF RewriteToCome

LEMMA AheadShortened ==
    ASSUME TypeInv, chain # << >>, EndTask,
           Head(chain).kind \in {"rewrite", "ensure"} => task.at \notin {"queued", "closing"}
    PROVE  /\ \A k \in 1..Len(chain') : RewriteAhead(k)' <=> RewriteAhead(k + 1)
           /\ RewriteToCome' <=> RewriteToCome
<1>1. chain \in Seq(Tasks)
  BY TaskMoves DEF TypeInv
<1>2. /\ Len(chain) \in Nat /\ Len(chain) >= 1 /\ Len(chain') = Len(chain) - 1
      /\ \A k \in 1..Len(chain') : chain'[k] = chain[k + 1]
      /\ Head(chain) = chain[1] /\ task'.at = "queued"
  BY <1>1, ChainShortened
<1>3. PICK n \in Nat : n = Len(chain')
  BY <1>2
<1>4. ASSUME NEW k \in 1..(n + 1)
      PROVE  RewriteAhead(k)' <=> RewriteAhead(k + 1)
  <2>1. RewriteAhead(k)' <=> \E j \in 1..(k - 1) : chain'[j].kind \in {"rewrite", "ensure"}
    BY <1>2 DEF RewriteAhead
  <2>2. \A j \in 1..(k - 1) : j \in 1..n /\ chain'[j] = chain[j + 1]
    BY <1>2, <1>3, <1>4
  <2>3. RewriteAhead(k + 1) <=> \E j \in 1..k : j # 1 /\ chain[j].kind \in {"rewrite", "ensure"}
    BY <1>2 DEF RewriteAhead
  <2>4. (\E j \in 1..(k - 1) : chain[j + 1].kind \in {"rewrite", "ensure"})
        <=> \E j \in 1..k : j # 1 /\ chain[j].kind \in {"rewrite", "ensure"}
    <3>1. \A j \in 1..(k - 1) : j + 1 \in 1..k /\ j + 1 # 1
      OBVIOUS
    <3>2. \A j \in 1..k : j # 1 => j - 1 \in 1..(k - 1) /\ (j - 1) + 1 = j
      OBVIOUS
    <3>3. QED BY <3>1, <3>2
  <2>5. QED BY <2>1, <2>2, <2>3, <2>4
<1>5. n + 1 \in 1..(n + 1) /\ n + 1 + 1 = Len(chain) + 1
  BY <1>2, <1>3
<1>6. RewriteToCome' <=> RewriteToCome
  BY <1>3, <1>4, <1>5 DEF RewriteToCome
<1>7. \A k \in 1..n : k \in 1..(n + 1)
  OBVIOUS
<1>8. QED BY <1>3, <1>4, <1>6, <1>7

\* The first task moves on without taking a snapshot.
LEMMA KeptMoves ==
    ASSUME KeptParts, UNCHANGED <<entries, assistants, chain, ensuredOnDisk>>, Kept' = Kept,
           task.at \in {"queued", "closing"} <=> task'.at \in {"queued", "closing"},
           flushed' => flushed, glued' = glued,
           PastSnapshot => task'.snapshot = task.snapshot,
           writer'.state # "none" => writer.state # "none"
    PROVE  KeptParts'
<1>1. \A k : RewriteAhead(k)' <=> RewriteAhead(k)
  BY DEF RewriteAhead
<1>2. RewriteToCome' <=> RewriteToCome
  BY <1>1 DEF RewriteToCome
<1>3. /\ Belongs' <=> Belongs
      /\ CloseAsked' <=> CloseAsked
      /\ PastSnapshot' <=> PastSnapshot
  BY DEF Belongs, CloseAsked, PastSnapshot
<1>4. FlushesInv'
  BY <1>1 DEF KeptParts, FlushesInv
<1>5. NoneJoined' => NoneJoined
  BY <1>3 DEF NoneJoined
<1>6. QED BY <1>2, <1>3, <1>4, <1>5 DEF KeptParts, WholeParts, NoneMissing

\* The first task ends.
LEMMA KeptEnds ==
    ASSUME TypeInv, KeptParts, UNCHANGED <<entries, assistants>>, Kept' = Kept,
           chain # << >>, EndTask,
           Head(chain).kind \in {"rewrite", "ensure"} => task.at \notin {"queued", "closing"},
           ensuredOnDisk => ensuredOnDisk',
           flushed' \/ Belongs' => flushed \/ Belongs \/ PastSnapshot,
           writer'.state # "none" => writer.state # "none",
           \/ glued' = glued /\ ~PastSnapshot
           \/ /\ glued' = glued \ ToSet(task.snapshot) /\ PastSnapshot
              /\ ToSet(task.snapshot) \subseteq ToSet(Kept)
    PROVE  KeptParts'
<1>1. chain \in Seq(Tasks)
  BY TaskMoves DEF TypeInv
<1>2. /\ \A k \in 1..Len(chain') : RewriteAhead(k)' <=> RewriteAhead(k + 1)
      /\ RewriteToCome' <=> RewriteToCome
  BY AheadShortened
<1>3. /\ Len(chain) \in Nat /\ Len(chain') = Len(chain) - 1
      /\ \A k \in 1..Len(chain') : chain'[k] = chain[k + 1]
      /\ task'.at = "queued"
  BY <1>1, ChainShortened
<1>4. \A k \in 1..Len(chain') : k + 1 \in 1..Len(chain)
  BY <1>3
<1>5. Belongs => Belongs'
  BY DEF Belongs
<1>6. CloseAsked' => CloseAsked
  BY <1>3, <1>4 DEF CloseAsked
<1>7. ~PastSnapshot'
  BY <1>3 DEF PastSnapshot
<1>8. FlushesInv'
  <2>1. \A want : want \ glued \subseteq ToSet(Kept) => want \ glued' \subseteq ToSet(Kept)
    OBVIOUS
  <2>2. QED BY <1>2, <1>3, <1>4, <2>1 DEF KeptParts, FlushesInv
<1>9. NoneJoined' => NoneJoined
  BY <1>7 DEF NoneJoined
<1>10. NoneMissing'
  <2>1. ToSet(entries) \ glued \subseteq ToSet(Kept) => ToSet(entries) \ glued' \subseteq ToSet(Kept)
    OBVIOUS
  <2>2. QED BY <1>2, <1>5, <1>7, <2>1 DEF KeptParts, NoneMissing
<1>11. NoneJoined' => WholeParts'
  BY <1>2, <1>5, <1>7, <1>9 DEF KeptParts, WholeParts
<1>12. QED BY <1>5, <1>6, <1>8, <1>10, <1>11 DEF KeptParts

LEMMA KeptAppends ==
    ASSUME TypeInv, DirInv, SoundInv, KeptParts, NEW assistant \in BOOLEAN, AppendEntry(assistant),
           ~persistError', ~overlapped'
    PROVE  KeptParts'
<1>0. TypeOK /\ entries \in Seq(Entries) /\ Recoverable \in Seq(Entries) /\ Kept \in Seq(Entries)
  BY RecoverableType, TaskMoves DEF TypeInv, TypeOK, Kept
<1>1. /\ process = "running" /\ ~overlapped /\ task' = task
      /\ nextEntry \in Entries /\ entries' = Append(entries, nextEntry)
      /\ assistants \subseteq assistants' /\ ensuredOnDisk' = ensuredOnDisk
  BY AppendCases
<1>2. entries' \in Seq(Entries) /\ ToSet(entries) \subseteq ToSet(entries')
  BY <1>0, <1>1, ToSetAppend, AppendProperties
<1>3. Belongs' <=> BelongsOnDisk(entries')
  BY <1>1 DEF Belongs, BelongsOnDisk
<1>4. Belongs => Belongs'
  BY <1>1, <1>2 DEF Belongs
<1>5. PastSnapshot' <=> PastSnapshot
  BY <1>1 DEF PastSnapshot
<1>n. glued \subseteq glued' => (NoneJoined' => NoneJoined)
  BY <1>1, <1>2, <1>5 DEF NoneJoined
<1>6. CASE ~BelongsOnDisk(entries') /\ ~PastSnapshot /\ ~flushed' /\ UNCHANGED <<disk, work, glued>>
  <2>1. Kept' = Kept
    BY <1>1, <1>6, RecoverableIs DEF Kept, HasTemp
  <2>2. \A k : RewriteAhead(k)' <=> RewriteAhead(k)
    BY <1>6 DEF RewriteAhead
  <2>3. RewriteToCome' <=> RewriteToCome
    BY <1>6, <2>2 DEF RewriteToCome
  <2>4. IsPrefix(Kept, entries) => IsPrefix(Kept, entries')
    BY <1>0, <1>1, PrefixAppend
  <2>5. FlushesInv'
    BY <1>2, <1>6, <2>1, <2>2 DEF KeptParts, FlushesInv
  <2>6. CloseAsked' <=> CloseAsked
    BY <1>6 DEF CloseAsked
  <2>7. QED BY <1>3, <1>4, <1>5, <1>6, <1>n, <2>1, <2>3, <2>4, <2>5, <2>6
            DEF KeptParts, WholeParts, NoneMissing
<1>7. CASE BelongsOnDisk(entries') /\ Enqueue(Rewrite) /\ UNCHANGED <<disk, writer, glued>>
  <2>1. Rewrite \in Tasks /\ Rewrite.kind = "rewrite"
    BY DEF Rewrite, Tasks
  <2>2. Kept' = Kept
    BY <1>1, <1>7, RecoverableIs DEF Kept, HasTemp
  <2>3. /\ \A k \in 1..(Len(chain) + 1) : RewriteAhead(k)' <=> RewriteAhead(k)
        /\ RewriteToCome'
    BY <1>1, <1>7, <2>1, AheadAppended
  <2>4. /\ Len(chain) \in Nat /\ Len(chain') = Len(chain) + 1
        /\ \A k \in 1..Len(chain) : chain'[k] = chain[k]
        /\ chain'[Len(chain) + 1] = Rewrite
    BY <1>0, <1>7, <2>1, ChainAppended, TaskMoves
  <2>5. FlushesInv'
    <3>1. \A k \in 1..Len(chain') : k \in 1..Len(chain) \/ k = Len(chain) + 1
      BY <2>4
    <3>2. \A k \in 1..Len(chain) : k \in 1..(Len(chain) + 1)
      BY <2>4
    <3>3. QED BY <1>2, <1>7, <2>1, <2>2, <2>3, <2>4, <3>1, <3>2 DEF KeptParts, FlushesInv
  <2>6. QED BY <1>3, <1>7, <2>3, <2>5 DEF KeptParts, WholeParts, NoneMissing
<1>8. CASE BelongsOnDisk(entries') /\ HotAppend(nextEntry)
  <2>1. chain' = chain /\ flushed
    BY <1>8 DEF HotAppend
  <2>2. \A k : RewriteAhead(k)' <=> RewriteAhead(k)
    BY <1>1, <2>1 DEF RewriteAhead
  <2>3. RewriteToCome' <=> RewriteToCome
    BY <2>1, <2>2 DEF RewriteToCome
  <2>4. \/ Kept' = Append(Kept, nextEntry) /\ glued' = glued
        \/ Kept' = Kept /\ glued' = glued \cup {nextEntry} /\ primary \in torn
    BY <1>0, <1>1, <1>8, KeptHot DEF DirInv
  <2>5. ToSet(Kept) \subseteq ToSet(Kept')
    <3>1. ToSet(Append(Kept, nextEntry)) = ToSet(Kept) \cup {nextEntry}
      BY <1>0, <1>1, ToSetAppend
    <3>2. QED BY <2>4, <3>1
  <2>6. FlushesInv'
    <3>1. glued \subseteq glued'
      BY <2>4
    <3>2. \A want : want \ glued \subseteq ToSet(Kept) => want \ glued' \subseteq ToSet(Kept')
      BY <2>5, <3>1
    <3>3. QED BY <1>2, <2>1, <2>2, <3>2 DEF KeptParts, FlushesInv
  <2>7. NoneJoined' => WholeParts'
    <3>1. CASE Kept' = Append(Kept, nextEntry) /\ glued' = glued
      <4>1. NoneJoined' => (RewriteToCome \/ Kept' = entries')
        BY <1>1, <1>n, <2>1, <3>1 DEF KeptParts, WholeParts
      <4>2. NoneJoined' => (RewriteToCome \/ IsPrefix(Kept', entries'))
        BY <1>2, <4>1, PrefixSelf
      <4>3. QED BY <2>3, <4>1, <4>2 DEF WholeParts
    <3>2. CASE glued' = glued \cup {nextEntry} /\ primary \in torn
      <4>1. ~PastSnapshot
        BY <1>1, <1>8, <3>2 DEF HotAppend, NotInPlace, PastSnapshot, SoundInv, SoundParts
      <4>2. nextEntry \in glued' \cap ToSet(entries')
        BY <1>0, <1>1, <3>2, ToSetAppend
      <4>3. ~NoneJoined'
        BY <1>5, <4>1, <4>2 DEF NoneJoined
      <4>4. QED BY <4>3
    <3>3. QED BY <2>4, <3>1, <3>2
  <2>8. NoneMissing'
    <3>1. ToSet(entries') = ToSet(entries) \cup {nextEntry}
      BY <1>0, <1>1, ToSetAppend
    <3>2. Kept' = Append(Kept, nextEntry) => ToSet(Kept') = ToSet(Kept) \cup {nextEntry}
      BY <1>0, <1>1, ToSetAppend
    <3>3. ToSet(entries) \ glued \subseteq ToSet(Kept) => ToSet(entries') \ glued' \subseteq ToSet(Kept')
      BY <2>4, <3>1, <3>2
    <3>4. QED BY <2>1, <2>3, <3>3 DEF KeptParts, NoneMissing
  <2>9. QED BY <1>3, <1>8, <2>6, <2>7, <2>8 DEF KeptParts
<1>9. ~persistError
  BY AppendCases DEF HotAppend
<1>10. QED BY <1>6, <1>7, <1>8, <1>9, AppendCases

LEMMA KeptRequests ==
    ASSUME TypeInv, KeptParts, NEW t \in Tasks, Request(t),
           t.kind = "close" => writer.state # "none",
           t.kind = "flush" => t.want = OnDiskByNow
    PROVE  KeptParts'
<1>1. UNCHANGED <<disk, memory, flags, writer, task, glued>> /\ Enqueue(t)
  BY DEF Request
<1>2. Kept' = Kept
  BY <1>1, RecoverableIs DEF Kept, HasTemp
<1>3. /\ \A k \in 1..(Len(chain) + 1) : RewriteAhead(k)' <=> RewriteAhead(k)
      /\ RewriteToCome' <=> (RewriteToCome \/ t.kind \in {"rewrite", "ensure"})
  BY <1>1, AheadAppended
<1>4. /\ Len(chain) \in Nat /\ Len(chain') = Len(chain) + 1
      /\ \A k \in 1..Len(chain) : chain'[k] = chain[k]
      /\ chain'[Len(chain) + 1] = t
  BY <1>1, ChainAppended, TaskMoves DEF TypeInv
<1>5. \A k \in 1..Len(chain') : k \in 1..Len(chain) \/ k = Len(chain) + 1
  BY <1>4
<1>6. /\ Belongs' <=> Belongs
      /\ PastSnapshot' <=> PastSnapshot
      /\ CloseAsked' => CloseAsked \/ t.kind = "close"
  BY <1>1, <1>4, <1>5 DEF Belongs, PastSnapshot, CloseAsked
<1>7. OnDiskByNow \subseteq ToSet(entries) /\ (OnDiskByNow # {} => Belongs /\ OnDiskByNow = ToSet(entries))
  BY DEF OnDiskByNow, Belongs
<1>8. FlushesInv'
  <2>1. PICK n \in Nat : n = Len(chain)
    BY <1>4
  <2>2. n + 1 \in 1..(n + 1) /\ \A k \in 1..n : k \in 1..(n + 1)
    OBVIOUS
  <2>3. FlushesInv
    BY DEF KeptParts
  <2>4. ASSUME t.kind = "flush"
        PROVE  /\ t.want \subseteq ToSet(entries)
               /\ RewriteAhead(n + 1)' \/ t.want \ glued \subseteq ToSet(Kept)
    <3>1. RewriteToCome => RewriteAhead(n + 1)'
      BY <1>3, <2>1, <2>2 DEF RewriteToCome
    <3>2. QED BY <1>7, <2>4, <3>1 DEF KeptParts, NoneMissing
  <2>5. ASSUME NEW k \in 1..n, chain'[k].kind = "flush"
        PROVE  /\ chain'[k].want \subseteq ToSet(entries')
               /\ RewriteAhead(k)' \/ chain'[k].want \ glued' \subseteq ToSet(Kept')
    <3>1. chain'[k] = chain[k] /\ (RewriteAhead(k)' <=> RewriteAhead(k))
      BY <1>3, <1>4, <2>1, <2>2
    <3>2. QED BY <1>1, <1>2, <2>1, <2>3, <2>5, <3>1 DEF FlushesInv
  <2>6. ASSUME NEW k \in {n + 1}, chain'[k].kind = "flush"
        PROVE  /\ chain'[k].want \subseteq ToSet(entries')
               /\ RewriteAhead(k)' \/ chain'[k].want \ glued' \subseteq ToSet(Kept')
    <3>1. k = n + 1 /\ chain'[k] = t /\ entries' = entries
      BY <1>1, <1>4, <2>1
    <3>2. QED BY <1>1, <1>2, <2>4, <2>6, <3>1
  <2>7. \A k \in 1..Len(chain') : k \in 1..n \/ k \in {n + 1}
    BY <1>5, <2>1
  <2>8. QED BY <2>5, <2>6, <2>7 DEF FlushesInv
<1>9. NoneJoined' <=> NoneJoined
  BY <1>1, <1>6 DEF NoneJoined
<1>10. NoneMissing' /\ (NoneJoined' => WholeParts')
  BY <1>1, <1>2, <1>3, <1>6, <1>9 DEF KeptParts, NoneMissing, WholeParts
<1>11. QED BY <1>1, <1>6, <1>8, <1>10 DEF KeptParts

LEMMA KeptTaskStep ==
    ASSUME TypeInv, DirParts, ~overlapped, SavedInv, KeptParts, TaskStep, ~persistError'
    PROVE  KeptParts'
<1>0. TypeOK /\ PhaseInv /\ chain \in Seq(Tasks) /\ entries \in Seq(Entries)
  BY TaskMoves DEF TypeInv, TypeOK
<1>1. ASSUME ~TakeSnapshot
      PROVE  Kept' = Kept
  BY <1>1, KeptTask
<1>2. CASE BeginTask
  <2>1. /\ task.at = "queued" /\ chain # << >> /\ ~persistError
        /\ UNCHANGED <<memory, flags, glued>> /\ ~PastSnapshot
    BY <1>2 DEF BeginTask, Running, FailTask, PastSnapshot
  <2>2. Kept' = Kept
    BY <1>1, <2>1 DEF TakeSnapshot, Running
  <2>3. CASE Head(chain).kind = "flush" /\ EndTask /\ UNCHANGED writer
    <3>1. Belongs' <=> Belongs
      BY <2>1 DEF Belongs
    <3>2. QED BY <2>1, <2>2, <2>3, <3>1, KeptEnds
  <2>4. CASE /\ Goto("closing") /\ chain' = chain
             /\ writer' = IF writer.state = "open" THEN [writer EXCEPT !.state = "closing"] ELSE writer
    <3>1. task'.at = "closing"
      BY <1>0, <2>4, GotoMoves DEF Moved
    <3>2. QED BY <2>1, <2>2, <2>4, <3>1, KeptMoves
  <2>5. QED BY <1>2, <2>1, <2>3, <2>4 DEF BeginTask, FailTask
<1>3. CASE CloseDone
  <2>1. /\ task.at = "closing" /\ chain # << >> /\ Head(chain).kind = "close" /\ EndTask
        /\ UNCHANGED <<memory, ensuredOnDisk, glued>> /\ ~PastSnapshot
    BY <1>3 DEF CloseDone, Running, PastSnapshot
  <2>2. writer'.state # "none" => writer.state # "none"
    BY <1>3 DEF CloseDone, ForgetWriter, NoWriter
  <2>3. CloseAsked
    <3>1. Head(chain) = chain[1] /\ 1 \in 1..Len(chain)
      BY <1>0, <2>1, EmptySeq, HeadTailProperties
    <3>2. QED BY <2>1, <3>1 DEF CloseAsked
  <2>4. Belongs
    BY <2>3 DEF KeptParts
  <2>5. Kept' = Kept
    BY <1>1, <2>1 DEF TakeSnapshot, Running
  <2>6. QED BY <2>1, <2>2, <2>4, <2>5, KeptEnds
<1>4. CASE TakeSnapshot
  <2>1. Kept' = entries /\ UNCHANGED <<entries, assistants, chain, flags>>
    <3>1. task'.at = "writing" /\ task'.snapshot = entries
      BY <1>0, <1>4 DEF TakeSnapshot, TypeOK
    <3>2. QED BY <1>4, <3>1 DEF Kept, TakeSnapshot
  <2>2. writer'.state # "none" => writer.state # "none"
    BY <1>4 DEF TakeSnapshot, ForgetWriter, NoWriter
  <2>3. Belongs' <=> Belongs
    BY <2>1 DEF Belongs
  <2>4. CloseAsked' <=> CloseAsked
    BY <2>1 DEF CloseAsked
  <2>5. IsPrefix(Kept', entries')
    BY <1>0, <2>1, PrefixSelf
  <2>6. FlushesInv'
    BY <2>1 DEF KeptParts, FlushesInv
  <2>7. WholeParts' /\ NoneMissing'
    BY <2>1, <2>5 DEF WholeParts, NoneMissing
  <2>8. QED BY <2>1, <2>2, <2>3, <2>4, <2>6, <2>7 DEF KeptParts
<1>5. CASE WriteTemp \/ Rename \/ MoveAside \/ RetryBare \/ Retry \/ RemoveBackup
  <2>1. /\ task.at \notin {"queued", "closing"} /\ writer' = writer
        /\ UNCHANGED <<entries, assistants, glued>>
    BY <1>5 DEF WriteTemp, Rename, MoveAside, RetryBare, Retry, RemoveBackup, RenameStep, Running
  <2>2. Kept' = Kept
    BY <1>1, <2>1 DEF TakeSnapshot, Running
  <2>3. ~FailTask
    BY DEF FailTask
  <2>4. UNCHANGED <<chain, ensuredOnDisk, flushed>>
    <3>1. CASE WriteTemp
      BY <2>3, <3>1 DEF WriteTemp
    <3>2. CASE MoveAside
      BY <1>0, <2>3, <3>2, MoveAsideCases
    <3>3. CASE Rename \/ RetryBare \/ Retry \/ RemoveBackup
      BY <2>3, <3>3 DEF Rename, RetryBare, Retry, RemoveBackup
    <3>4. QED BY <1>5, <3>1, <3>2, <3>3
  <2>5. task'.at \notin {"queued", "closing"} /\ task'.snapshot = task.snapshot
    <3>1. CASE WriteTemp
      BY <1>0, <2>3, <3>1 DEF WriteTemp, TypeOK
    <3>2. CASE MoveAside
      BY <1>0, <2>3, <3>2, MoveAsideCases DEF Moved
    <3>3. CASE Rename \/ RetryBare \/ Retry \/ RemoveBackup
      BY <1>0, <2>3, <3>3, GotoMoves DEF Rename, RetryBare, Retry, RemoveBackup, Moved
    <3>4. QED BY <1>5, <3>1, <3>2, <3>3
  <2>6. QED BY <2>1, <2>2, <2>4, <2>5, KeptMoves
<1>6. CASE RollBack
  BY <1>6 DEF RollBack, FailTask
<1>7. CASE RewriteDone
  <2>1. /\ task.at = "replaced" /\ chain # << >> /\ EndTask /\ UNCHANGED <<memory, writer>>
        /\ (ensuredOnDisk => ensuredOnDisk')
    BY <1>7 DEF RewriteDone, Running
  <2>2. PastSnapshot /\ Kept' = Kept
    BY <1>1, <2>1 DEF PastSnapshot, TakeSnapshot, Running
  <2>3. glued' = glued \ ToSet(task.snapshot) /\ ToSet(task.snapshot) \subseteq ToSet(Kept)
    BY <1>7, <2>1 DEF RewriteDone, SavedInv, Kept, HasTemp
  <2>4. QED BY <2>1, <2>2, <2>3, KeptEnds
<1>8. QED BY <1>2, <1>3, <1>4, <1>5, <1>6, <1>7 DEF TaskStep

LEMMA KeptRests ==
    ASSUME chain = << >>, ~PastSnapshot, writer.state = "none",
           Kept = entries, entries \in Seq(Entries)
    PROVE  KeptParts
<1>1. ~CloseAsked /\ FlushesInv
  BY DEF CloseAsked, FlushesInv
<1>2. IsPrefix(Kept, entries)
  BY PrefixSelf
<1>3. QED BY <1>1, <1>2 DEF KeptParts, WholeParts, NoneMissing

LEMMA KeptInit == Init => KeptInv
<1> SUFFICES ASSUME Init PROVE KeptParts
  BY DEF KeptInv
<1>1. /\ task.at = "queued" /\ writer.state = "none" /\ chain = << >> /\ backups = {}
      /\ entries \in Seq(Entries)
  BY TypeInit DEF Init, Idle, NoWriter, TypeInv, TypeOK
<1>2. Kept = Recoverable /\ ~PastSnapshot
  BY <1>1 DEF Kept, HasTemp, PastSnapshot
<1>3. Recoverable = entries
  <2>1. CASE primary = None /\ entries = << >>
    BY <1>1, <2>1 DEF Recoverable
  <2>2. CASE /\ primary = 1 /\ entries = <<1>>
             /\ lines = [i \in Inodes |-> IF i = 1 THEN <<Header, 1>> ELSE << >>]
    <3>1. 1 \in Inodes
      BY BoundsAssumption DEF Inodes
    <3>2. Recoverable = Tail(<<Header, 1>>)
      BY <2>2, <3>1 DEF Recoverable, Loaded, None
    <3>3. QED BY <2>2, <3>2, OpenedFile
  <2>3. QED BY <2>1, <2>2 DEF Init
<1>4. QED BY <1>1, <1>2, <1>3, KeptRests

LEMMA KeptStep ==
    ASSUME TypeInv, DirInv, SoundInv, SavedInv, KeptInv, [Next]_vars
    PROVE  KeptInv'
<1> SUFFICES ASSUME process' = "running", ~persistError', ~overlapped'
             PROVE  KeptParts'
  BY DEF KeptInv
<1>0. ~overlapped /\ DirParts /\ TypeOK
  BY OverlappedStays DEF DirInv, TypeInv
<1>1. ASSUME NEW assistant \in BOOLEAN, AppendEntry(assistant)
      PROVE  KeptParts'
  <2>1. process = "running" /\ ~persistError
    BY <1>1, AppendCases DEF HotAppend
  <2>2. QED BY <1>0, <1>1, <2>1, KeptAppends DEF KeptInv
<1>2. ASSUME NEW t \in Tasks, Request(t), t.kind = "close" => writer.state # "none",
             t.kind = "flush" => t.want = OnDiskByNow
      PROVE  KeptParts'
  <2>1. process = "running" /\ ~persistError
    BY <1>2 DEF Request
  <2>2. QED BY <1>0, <1>2, <2>1, KeptRequests DEF KeptInv
<1>3. CASE SetSessionName \/ RewriteEntries \/ EnsureOnDisk \/ Flush \/ Close
  BY <1>0, <1>2, <1>3, OnDiskByNowType
     DEF SetSessionName, RewriteEntries, EnsureOnDisk, Flush, Close, Rewrite, Tasks
<1>4. CASE TaskStep
  <2>1. process = "running" /\ (persistError => persistError')
    BY <1>4 DEF TaskStep, BeginTask, CloseDone, TakeSnapshot, WriteTemp, Rename, MoveAside, RetryBare,
                Retry, RollBack, RemoveBackup, RewriteDone, RenameStep, Running, FailTask
  <2>2. QED BY <1>0, <1>4, <2>1, KeptTaskStep DEF KeptInv
<1>5. CASE Crash
  BY <1>5 DEF Crash
<1>6. CASE Restart
  <2>1. /\ chain' = << >> /\ task'.at = "queued" /\ writer'.state = "none"
    BY <1>6 DEF Restart, TypeInv, PhaseInv, Idle, NoWriter
  <2>2. Kept' = entries' /\ ~PastSnapshot'
    BY <1>6, <2>1, RecoverRestart DEF Kept, HasTemp, PastSnapshot
  <2>3. entries' \in Seq(Entries)
    BY TypeOKStep DEF TypeOK
  <2>4. ~CloseAsked' /\ FlushesInv'
    BY <2>1 DEF CloseAsked, FlushesInv
  <2>5. IsPrefix(Kept', entries')
    BY <2>2, <2>3, PrefixSelf
  <2>6. WholeParts' /\ NoneMissing'
    BY <2>2, <2>5 DEF WholeParts, NoneMissing
  <2>7. QED BY <2>1, <2>4, <2>6 DEF KeptParts
<1>7. CASE UNCHANGED vars
  <2>1. Kept' = Kept
    BY <1>7, RecoverableIs DEF Kept, HasTemp
  <2>2. QED BY <1>0, <1>7, <2>1, KeptMoves DEF KeptInv
<1>8. QED BY <1>1, <1>3, <1>4, <1>5, <1>6, <1>7 DEF Next
-----------------------------------------------------------------------------
\* The inductive invariant of the directory, of what was written, and of what the
\* chain still has to write.
THEOREM PersistInvariance == Spec => [](TypeInv /\ DirInv /\ SoundInv /\ SavedInv /\ KeptInv)
<1>1. Init => TypeInv /\ DirInv /\ SoundInv /\ SavedInv /\ KeptInv
  BY TypeInit, DirInit, SoundInit, SavedInit, KeptInit
<1>2. TypeInv /\ DirInv /\ SoundInv /\ SavedInv /\ KeptInv /\ [Next]_vars
         => (TypeInv /\ DirInv /\ SoundInv /\ SavedInv /\ KeptInv)'
  <2>1. TypeInv /\ [Next]_vars => TypeInv'
    BY TypeOKStep, UsedCases, UsedStep, TornStep, PhaseStep, CountStep DEF TypeInv
  <2>2. QED BY <2>1, DirStep, SoundStep, SavedStep, KeptStep
<1>3. QED BY <1>1, <1>2, PTL DEF Spec

\* What a finished rewrite or an append in place has written is found again,
\* whenever the process dies and whatever file operation fails, be it with half a
\* line written: all but the entries that were joined to such a fragment, and
\* unless an entry was appended behind the back of a rewrite.
THEOREM SavedSurvivesCorrect == Spec => []SavedSurvives
<1>1. SavedInv => SavedSurvives
  BY DEF SavedInv, SavedSurvives
<1>2. QED BY <1>1, PersistInvariance, PTL

\* Once the chain is empty, the file has the entries in order and without a gap,
\* and all of them if they belong on disk, as long as persistence has not failed,
\* nothing was appended behind the back of a rewrite and none of the entries was
\* joined to a fragment.
THEOREM FileMatchesCorrect == Spec => []FileMatchesEntries
<1>1. TypeInv /\ KeptInv => FileMatchesEntries
  <2> SUFFICES ASSUME TypeInv, KeptInv, process = "running", chain = << >>, ~persistError, ~overlapped,
                      glued \cap ToSet(entries) = {}
               PROVE  /\ IsPrefix(Recoverable, entries)
                      /\ OnDiskByNow # {} => Recoverable = entries
    BY DEF FileMatchesEntries
  <2>1. task.at = "queued" /\ KeptParts /\ WholeParts
    BY DEF TypeInv, PhaseInv, KeptInv, KeptParts, NoneJoined
  <2>2. Kept = Recoverable
    BY <2>1 DEF Kept, HasTemp
  <2>3. ~RewriteToCome
    BY DEF RewriteToCome, RewriteAhead
  <2>4. OnDiskByNow # {} => Belongs
    BY DEF OnDiskByNow, Belongs
  <2>5. QED BY <2>1, <2>2, <2>3, <2>4 DEF WholeParts
<1>2. QED BY <1>1, PersistInvariance, PTL

\* A flush that returns without an error has what was appended before it, and
\* belongs there, on disk, but for the entries that were joined to a fragment,
\* and unless something was appended behind the back of a rewrite.
THEOREM FlushCorrect == Spec => FlushIsDurable
<1> DEFINE Durable ==
      \A t \in ToSet(chain) :
          /\ t.kind = "flush"
          /\ process' = "running"
          /\ chain # << >> /\ chain' = Tail(chain) /\ Head(chain) = t
          /\ ~persistError'
          /\ ~overlapped
          => t.want \ glued' \subseteq ToSet(Recoverable')
<1>1. TypeInv /\ DirInv /\ KeptInv /\ [Next]_vars => [Durable]_vars
  <2> SUFFICES ASSUME TypeInv, DirInv, KeptInv, [Next]_vars,
                      NEW t \in ToSet(chain), t.kind = "flush", process' = "running",
                      chain # << >>, chain' = Tail(chain), Head(chain) = t,
                      ~persistError', ~overlapped
               PROVE  t.want \ glued' \subseteq ToSet(Recoverable')
    OBVIOUS
  <2>1. chain \in Seq(Tasks) /\ TypeOK
    BY TaskMoves DEF TypeInv
  <2>2. Len(chain) \in Nat /\ Len(chain) >= 1 /\ Len(chain') = Len(chain) - 1 /\ chain[1] = t
    BY <2>1, EmptySeq, HeadTailProperties
  <2>3. task.at = "queued"
    BY DEF TypeInv, PhaseInv
  <2>4. ASSUME BeginTask
        PROVE  t.want \ glued' \subseteq ToSet(Recoverable')
    <3>1. process = "running" /\ ~persistError /\ UNCHANGED <<disk, glued>>
      BY <2>4 DEF BeginTask, Running, FailTask
    <3>2. FlushesInv
      BY <3>1 DEF KeptInv, KeptParts
    <3>3. ~RewriteAhead(1) /\ 1 \in 1..Len(chain)
      <4>1. \A j \in 1..(1 - 1) : FALSE
        OBVIOUS
      <4>2. ~RewriteAhead(1)
        BY <4>1 DEF RewriteAhead
      <4>3. 1 \in 1..Len(chain)
        BY <2>1, EmptySeq
      <4>4. QED BY <4>2, <4>3
    <3>4. t.want \ glued \subseteq ToSet(Kept)
      BY <2>2, <3>2, <3>3 DEF FlushesInv
    <3>5. Kept = Recoverable /\ Recoverable' = Recoverable
      BY <2>3, <3>1, RecoverableIs DEF Kept, HasTemp
    <3>6. QED BY <3>1, <3>4, <3>5
  <2>5. chain' # chain /\ Len(chain') # Len(chain) + 1
    <3>1. PICK n, m : n = Len(chain) /\ m = Len(chain')
      OBVIOUS
    <3>2. n \in Nat /\ m = n - 1
      BY <2>2, <3>1
    <3>3. m # n /\ m # n + 1
      BY <3>2
    <3>4. QED BY <3>1, <3>3
  <2>6. ASSUME NEW assistant \in BOOLEAN, AppendEntry(assistant)
        PROVE  FALSE
    <3>1. Rewrite \in Tasks
      BY DEF Rewrite, Tasks
    <3>2. chain' = chain \/ Enqueue(Rewrite)
      BY <2>6 DEF AppendEntry
    <3>3. QED BY <2>1, <2>5, <3>1, <3>2, ChainAppended
  <2>7. ASSUME NEW u \in Tasks, Request(u)
        PROVE  FALSE
    BY <2>1, <2>5, <2>7, ChainAppended DEF Request
  <2>8. ~(CloseDone \/ TakeSnapshot \/ WriteTemp \/ Rename \/ MoveAside \/ RetryBare \/ Retry
             \/ RollBack \/ RemoveBackup \/ RewriteDone)
    BY <2>3 DEF CloseDone, TakeSnapshot, WriteTemp, Rename, MoveAside, RetryBare, Retry,
               RollBack, RemoveBackup, RewriteDone, RenameStep, Running
  <2>9. ~Crash /\ ~Restart /\ ~UNCHANGED vars
    BY <2>5 DEF Crash, Restart
  <2>10. QED BY <2>1, <2>4, <2>6, <2>7, <2>8, <2>9, RequestCases DEF Next, TaskStep
<1>2. [][Durable]_vars => FlushIsDurable
  BY DEF FlushIsDurable
<1> HIDE DEF Durable
<1>3. QED BY <1>1, <1>2, PersistInvariance, PTL DEF Spec
=============================================================================
