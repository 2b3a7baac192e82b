------------------------ MODULE SessionStorage_proofs ------------------------
(***************************************************************************)
(* Proofs about SessionStorage for any paths, writers, numbers of calls    *)
(* and failures of the backend.                                            *)
(***************************************************************************)
EXTENDS SessionStorage, SequenceTheorems, WellFoundedInduction, TLAPS

\* The groups of variables that actions leave alone are always expanded.
USE DEF vars, unchangedBySync, unchangedByWaiting, unchangedByEnding
-----------------------------------------------------------------------------
(***************************************************************************)
(* What the chain of operations depends on.  What the backend holds is no  *)
(* part of it.                                                             *)
(***************************************************************************)
IndexEntries == [size : Nat, mtime : Nat]
Operations == [kind : OpKinds, paths : Seq(Paths), writer : Writers \cup {NoWriter},
               tracked : BOOLEAN, mtime : Nat, after : SUBSET Nat]
OpStates == {"queued", "done", "failed"}
CallStates == {"awaiting", "operating", "reading", "flushing", "draining", "returned", "threw"}
CallRecords == [kind : CallKinds, paths : Seq(Paths), writer : Writers \cup {NoWriter},
                waits : Seq(Paths), on : Nat, previous : [Paths -> IndexEntries],
                since : Nat, at : CallStates]

OpsType ==
    /\ ops \in Seq(Operations)
    /\ state \in Seq(OpStates)
    /\ Len(state) = Len(ops)
    /\ pathTails \in [Paths -> Nat]

WritersType == writers \in [Writers -> [path : Paths, open : BOOLEAN, error : BOOLEAN]]

CallsType ==
    /\ index \in [Paths -> IndexEntries]
    /\ calls \in Seq(CallRecords)

\* The shape of a call: what it awaits, and the paths of each kind.
CallShape(call) ==
    /\ call.at = "awaiting" => call.paths # << >> /\ call.waits # << >>
    /\ call.at = "awaiting" /\ call.kind = "rename" =>
          Len(call.paths) = 2 /\ call.paths[1] # call.paths[2]
    /\ call.at = "awaiting" /\ call.kind = "writeText" => Len(call.paths) = 1
    /\ call.kind = "readText" => Len(call.waits) = 1 /\ Len(call.paths) = 1
    /\ call.at = "reading" => call.kind = "readText"
CallInv == \A c \in DOMAIN calls : CallShape(calls[c])

QueueType == OpsType /\ WritersType /\ CallsType /\ CallInv

\* A list that has got one more member, or another one at c.
LEMMA AppendedList ==
    ASSUME NEW S, NEW s \in Seq(S), NEW e \in S
    PROVE  /\ Append(s, e) \in Seq(S)
           /\ Len(Append(s, e)) = Len(s) + 1
           /\ DOMAIN Append(s, e) = DOMAIN s \cup {Len(s) + 1}
           /\ Len(s) \in Nat /\ Len(s) + 1 \notin DOMAIN s
           /\ \A i \in DOMAIN s : Append(s, e)[i] = s[i]
           /\ Append(s, e)[Len(s) + 1] = e
<1>1. PICK t : t = Append(s, e)
  OBVIOUS
<1>2. /\ t \in Seq(S) /\ Len(t) = Len(s) + 1 /\ Len(s) \in Nat
      /\ \A i \in 1..Len(s) : t[i] = s[i]
      /\ t[Len(s) + 1] = e
  BY <1>1, AppendProperties
<1>3. DOMAIN s = 1..Len(s) /\ DOMAIN t = 1..(Len(s) + 1)
  BY <1>2
<1>4. QED BY <1>1, <1>2, <1>3

LEMMA ChangedList ==
    ASSUME NEW S, NEW s \in Seq(S), NEW e \in S, NEW c \in DOMAIN s
    PROVE  /\ [s EXCEPT ![c] = e] \in Seq(S)
           /\ Len([s EXCEPT ![c] = e]) = Len(s)
           /\ DOMAIN [s EXCEPT ![c] = e] = DOMAIN s
           /\ \A i \in DOMAIN s : [s EXCEPT ![c] = e][i] = IF i = c THEN e ELSE s[i]
OBVIOUS

\* #enqueuePaths keeps the types.
LEMMA EnqueueType ==
    ASSUME OpsType,
           NEW kind \in OpKinds, NEW ps \in Seq(Paths), NEW w \in Writers \cup {NoWriter},
           NEW tracked \in BOOLEAN, NEW mtime \in Nat,
           Enqueue(kind, ps, w, tracked, mtime)
    PROVE  OpsType'
<1> USE DEF OpsType
<1>1. PICK op : op = [kind |-> kind, paths |-> ps, writer |-> w, tracked |-> tracked,
                      mtime |-> mtime, after |-> Previous(ps)]
  OBVIOUS
<1>2. Previous(ps) \in SUBSET Nat
  <2>1. \A i \in DOMAIN ps : ps[i] \in Paths
    OBVIOUS
  <2>2. QED BY <2>1 DEF Previous
<1>3. op \in Operations
  BY <1>1, <1>2 DEF Operations
<1>4. ops' = Append(ops, op) /\ state' = Append(state, "queued")
  BY <1>1 DEF Enqueue
<1>5. ops' \in Seq(Operations) /\ Len(ops') = Len(ops) + 1
  BY <1>3, <1>4, AppendedList
<1>6. state' \in Seq(OpStates) /\ Len(state') = Len(state) + 1
  BY <1>4, AppendedList DEF OpStates
<1>7. pathTails' \in [Paths -> Nat]
  BY DEF Enqueue, Tails
<1>8. QED BY <1>5, <1>6, <1>7

\* The end of an operation keeps the types.
Ends(k, outcome) ==
    /\ Sent(k)
    /\ state' = [state EXCEPT ![k] = outcome]
    /\ Forget(k)
    /\ ops' = ops

LEMMA EndsType ==
    ASSUME OpsType, NEW k \in OpIds, NEW outcome \in {"done", "failed"}, Ends(k, outcome)
    PROVE  OpsType'
<1> USE DEF OpsType
<1>1. k \in DOMAIN state /\ outcome \in OpStates
  BY DEF OpIds, OpStates
<1>2. state' \in Seq(OpStates) /\ Len(state') = Len(state)
  BY <1>1, ChangedList DEF Ends
<1>3. pathTails' \in [Paths -> Nat]
  BY DEF Ends, Forget, None
<1>4. QED BY <1>2, <1>3 DEF Ends
-----------------------------------------------------------------------------
(***************************************************************************)
(* Every step puts one operation in the chain, ends one that was sent, or  *)
(* leaves the chain alone.                                                 *)
(***************************************************************************)
Enqueued(kind, ps, w) ==
    /\ ps # << >>
    /\ w # NoWriter => writers'[w].open /\ ps = <<writers'[w].path>>
    /\ \E tracked \in BOOLEAN, mtime \in Nat : Enqueue(kind, ps, w, tracked, mtime)

ChainGrows ==
    \E kind \in OpKinds, ps \in Seq(Paths), w \in Writers \cup {NoWriter} : Enqueued(kind, ps, w)

\* The path of an open writer stays, and so does its error.
WritersKept ==
    \A w \in Writers :
        /\ writers[w].open => writers'[w].open /\ writers'[w].path = writers[w].path
        /\ writers[w].error => writers'[w].error

LEMMA NowType == OpsType => Now \in Nat
BY DEF OpsType, Now

LEMMA GrowsType == OpsType /\ ChainGrows => OpsType'
BY EnqueueType DEF ChainGrows, Enqueued

\* A new call, and a call that goes on, keep types and shape.
LEMMA CallAdded ==
    ASSUME CallsType, CallInv, NEW call \in CallRecords, CallShape(call),
           calls' = Append(calls, call), index' = index
    PROVE  CallsType' /\ CallInv'
<1>1. /\ calls' \in Seq(CallRecords) /\ DOMAIN calls' = DOMAIN calls \cup {Len(calls) + 1}
      /\ \A i \in DOMAIN calls : calls'[i] = calls[i]
      /\ calls'[Len(calls) + 1] = call
  BY AppendedList DEF CallsType
<1>2. QED BY <1>1 DEF CallsType, CallInv

LEMMA CallChanged ==
    ASSUME CallsType, CallInv, NEW c \in DOMAIN calls, NEW call \in CallRecords, CallShape(call),
           calls' = [calls EXCEPT ![c] = call], index' \in [Paths -> IndexEntries]
    PROVE  CallsType' /\ CallInv'
<1>1. /\ calls' \in Seq(CallRecords) /\ DOMAIN calls' = DOMAIN calls
      /\ \A i \in DOMAIN calls : calls'[i] = IF i = c THEN call ELSE calls[i]
  BY ChangedList DEF CallsType
<1>2. QED BY <1>1 DEF CallsType, CallInv

\* Another entry of the index.
LEMMA SetIndexType ==
    ASSUME OpsType, CallsType, NEW p \in Paths, NEW size \in Nat, SetIndex(p, size)
    PROVE  index' \in [Paths -> IndexEntries]
BY NowType DEF SetIndex, CallsType, IndexEntries

LEMMA NoIndexType == NoIndex \in [Paths -> IndexEntries] /\ NoEntry \in IndexEntries
BY DEF NoIndex, NoEntry, IndexEntries

\* A writer's operations have a last one.
LEMMA LastOfType ==
    ASSUME OpsType, NEW w
    PROVE  LastOf(w) \in Nat
<1> DEFINE own == {k \in OpIds : ops[k].writer = w}
<1>1. CASE own = {}
  BY <1>1 DEF LastOf, None
<1>2. CASE own # {}
  <2> DEFINE n == Len(ops)
             FromEnd == {n - k : k \in own}
  <2>1. n \in Nat /\ \A k \in own : k \in 1..n /\ n - k \in Nat
    BY DEF OpsType, OpIds
  <2>2. FromEnd \subseteq Nat /\ FromEnd # {}
    BY <1>2, <2>1
  <2>3. PICK x \in FromEnd : \A y \in FromEnd : ~ (<<y, x>> \in OpToRel(<, Nat))
    BY <2>2, WFMin, NatLessThanWellFounded, Zenon
  <2>4. PICK k \in own : x = n - k
    OBVIOUS
  <2>5. ASSUME NEW j \in own PROVE j <= k
    <3>1. ~(n - j < n - k)
      BY <2>2, <2>3, <2>4 DEF OpToRel
    <3>2. QED BY <2>1, <3>1
  <2>6. LastOf(w) \in own
    BY <1>2, <2>5 DEF LastOf
  <2>7. QED BY <2>1, <2>6
<1>3. QED BY <1>1, <1>2

\* What is asked of the storage from outside.
LEMMA AskedStep ==
    ASSUME QueueType, NEW kind \in CallKinds, NEW ps \in Seq(Paths), ps # << >>,
           NEW w \in Writers \cup {NoWriter}, NEW on \in Nat,
           NEW at \in {"awaiting", "flushing", "draining"},
           kind = "rename" => Len(ps) = 2 /\ ps[1] # ps[2],
           kind \in {"readText", "writeText"} => Len(ps) = 1,
           Call(kind, ps, w, on, at), writers' = writers
    PROVE  QueueType' /\ WritersKept /\ UNCHANGED <<ops, state, pathTails>>
<1> USE DEF QueueType
<1>1. PICK call : call = [kind |-> kind, paths |-> ps, writer |-> w, waits |-> ps, on |-> on,
                          previous |-> NoIndex, since |-> Len(ops), at |-> at]
  OBVIOUS
<1>2. call \in CallRecords
  BY <1>1, NoIndexType DEF CallRecords, CallStates, OpsType
<1>3. CallShape(call)
  BY <1>1 DEF CallShape
<1>4. calls' = Append(calls, call)
  BY <1>1 DEF Call
<1>5. CallsType' /\ CallInv'
  BY <1>2, <1>3, <1>4, CallAdded DEF Call
<1>6. UNCHANGED <<ops, state, pathTails>>
  BY DEF Call
<1>7. QED BY <1>5, <1>6 DEF OpsType, WritersType, WritersKept

LEMMA NewCallStep ==
    ASSUME QueueType, NewCall
    PROVE  QueueType' /\ WritersKept /\ (ChainGrows \/ UNCHANGED <<ops, state, pathTails>>)
<1> USE DEF QueueType
<1>1. Now \in Nat
  BY NowType
<1>2. ASSUME calls' = calls, index' \in [Paths -> IndexEntries]
      PROVE  CallsType' /\ CallInv'
  BY <1>2 DEF CallsType, CallInv
<1>3. \A p \in Paths : <<p>> \in Seq(Paths) /\ <<p>> # << >> /\ Len(<<p>>) = 1
  OBVIOUS
<1>4. ASSUME NEW p \in Paths, WriteTextSync(p)
      PROVE  QueueType' /\ WritersKept /\ ChainGrows
  <2>1. index' \in [Paths -> IndexEntries] /\ calls' = calls /\ writers' = writers
    BY <1>4, SetIndexType DEF WriteTextSync
  <2>2. ChainGrows
    BY <1>1, <1>3, <1>4 DEF WriteTextSync, ChainGrows, Enqueued, OpKinds
  <2>3. QED BY <1>2, <2>1, <2>2, GrowsType DEF WritersType, WritersKept
<1>5. ASSUME NEW w \in Writers, OpenWriter(w, Session)
      PROVE  QueueType' /\ WritersKept /\ (ChainGrows \/ UNCHANGED <<ops, state, pathTails>>)
  <2>1. /\ ~writers[w].open
        /\ writers' = [writers EXCEPT ![w].path = Session, ![w].open = TRUE]
        /\ calls' = calls
    BY <1>5 DEF OpenWriter
  <2>2. WritersType' /\ WritersKept /\ writers'[w].open /\ writers'[w].path = Session
    BY <2>1, PathsAssumption DEF WritersType, WritersKept
  <2>3. CASE UNCHANGED <<index, ops, state, pathTails>>
    BY <1>2, <2>1, <2>2, <2>3 DEF OpsType, CallsType
  <2>4. CASE SetIndex(Session, 0) /\ Enqueue("truncate", <<Session>>, w, TRUE, Now)
    <3>1. index' \in [Paths -> IndexEntries]
      BY <2>4, SetIndexType, PathsAssumption
    <3>2. Enqueued("truncate", <<Session>>, w)
      BY <1>1, <1>3, <2>2, <2>4, PathsAssumption DEF Enqueued
    <3>3. ChainGrows
      BY <1>3, <3>2, PathsAssumption DEF ChainGrows, OpKinds
    <3>4. QED BY <1>2, <2>1, <2>2, <3>1, <3>3, GrowsType
  <2>5. QED BY <1>5, <2>3, <2>4 DEF OpenWriter
<1>6. ASSUME NEW w \in Writers, WriteLine(w)
      PROVE  QueueType' /\ WritersKept /\ ChainGrows
  <2>1. PICK p \in Paths : p = writers[w].path
    BY DEF WritersType
  <2>2. /\ writers' = writers /\ calls' = calls /\ writers'[w].open /\ p = writers'[w].path
        /\ SetIndex(p, index[p].size + 1)
        /\ Enqueue("append", <<p>>, w, TRUE, Now)
    BY <1>6, <2>1 DEF WriteLine, Usable
  <2>3. index[p].size + 1 \in Nat
    BY DEF CallsType, IndexEntries
  <2>4. index' \in [Paths -> IndexEntries]
    BY <2>2, <2>3, SetIndexType
  <2>5. Enqueued("append", <<p>>, w)
    BY <1>1, <1>3, <2>2 DEF Enqueued
  <2>6. ChainGrows
    BY <1>3, <2>5 DEF ChainGrows, OpKinds
  <2>7. QED BY <1>2, <2>2, <2>4, <2>6, GrowsType DEF WritersType, WritersKept
<1>7. ASSUME NEW kind \in CallKinds, NEW ps \in Seq(Paths), ps # << >>,
             kind = "rename" => Len(ps) = 2 /\ ps[1] # ps[2],
             kind \in {"readText", "writeText"} => Len(ps) = 1,
             CallOn(kind, ps)
      PROVE  QueueType' /\ WritersKept /\ UNCHANGED <<ops, state, pathTails>>
  <2>1. ps[1] \in Paths
    BY <1>7, EmptySeq
  <2>2. pathTails[ps[1]] \in Nat
    BY <2>1 DEF OpsType
  <2>3. QED BY <1>7, <2>2, AskedStep DEF CallOn
<1>8. ASSUME NEW p \in Paths, WriteText(p) \/ Unlink(p) \/ ReadText(p)
      PROVE  QueueType' /\ WritersKept /\ UNCHANGED <<ops, state, pathTails>>
  BY <1>3, <1>7, <1>8 DEF WriteText, Unlink, ReadText, CallKinds
<1>9. ASSUME NEW src \in Paths, NEW dst \in Paths, Rename(src, dst)
      PROVE  QueueType' /\ WritersKept /\ UNCHANGED <<ops, state, pathTails>>
  <2>1. /\ <<src, dst>> \in Seq(Paths) /\ <<src, dst>> # << >> /\ Len(<<src, dst>>) = 2
        /\ <<src, dst>>[1] # <<src, dst>>[2]
    BY <1>9 DEF Rename
  <2>2. QED BY <1>7, <1>9, <2>1 DEF Rename, CallKinds
<1>10. CASE DeleteSessionWithArtifacts
  BY <1>3, <1>7, <1>10, PathsAssumption DEF DeleteSessionWithArtifacts, CallKinds
<1>11. ASSUME NEW w \in Writers, Flush(w)
       PROVE  QueueType' /\ WritersKept /\ UNCHANGED <<ops, state, pathTails>>
  <2>1. PICK p \in Paths : p = writers[w].path
    BY DEF WritersType
  <2>2. LastOf(w) \in Nat
    BY LastOfType
  <2>3. Call("flush", <<p>>, w, LastOf(w), "flushing") /\ writers' = writers
    BY <1>11, <2>1 DEF Flush
  <2>4. QED BY <1>3, <2>2, <2>3, AskedStep DEF CallKinds
<1>12. CASE Drain
  BY <1>3, <1>12, AskedStep, PathsAssumption DEF Drain, CallKinds, None
<1>13. QED
  BY <1>4, <1>5, <1>6, <1>8, <1>9, <1>10, <1>11, <1>12 DEF NewCall

\* An operation that ends, well or not.
ChainSettles ==
    \E k \in OpIds, outcome \in {"done", "failed"} :
        /\ Ends(k, outcome)
        /\ ops[k].writer # NoWriter =>
               /\ outcome = "done" => ~writers[ops[k].writer].error
               /\ outcome = "failed" => writers'[ops[k].writer].error

LEMMA OpStepKind ==
    ASSUME QueueType, NEW k \in OpIds, OpStep(k)
    PROVE  QueueType' /\ WritersKept /\ ChainSettles
<1> USE DEF QueueType
<1>1. UNCHANGED <<index, ops, calls>>
  BY DEF OpStep, Succeed, MoveUntimed, Done, BackendFails, TaskThrows, Fail
<1>2. PICK w \in Writers \cup {NoWriter} : w = ops[k].writer
  <2>1. ops[k] \in Operations
    BY DEF OpsType, OpIds
  <2>2. QED BY <2>1 DEF Operations
<1>3. CASE Done(k)
  <2>1. Ends(k, "done") /\ writers' = writers /\ ~WriterFailed(k)
    BY <1>3 DEF Done, Ends
  <2>2. ChainSettles
    BY <2>1 DEF ChainSettles, WriterFailed
  <2>3. OpsType'
    BY <2>1, EndsType
  <2>4. QED BY <1>1, <2>1, <2>2, <2>3 DEF WritersType, WritersKept, CallsType, CallInv
<1>4. CASE BackendFails(k) \/ TaskThrows(k)
  <2>1. /\ Ends(k, "failed")
        /\ writers' = IF w = NoWriter THEN writers ELSE [writers EXCEPT ![w].error = TRUE]
    BY <1>2, <1>4 DEF BackendFails, TaskThrows, Fail, Ends
  <2>2. WritersType' /\ WritersKept /\ (w # NoWriter => writers'[w].error)
    BY <2>1 DEF WritersType, WritersKept
  <2>3. ChainSettles
    BY <1>2, <2>1, <2>2 DEF ChainSettles
  <2>4. OpsType'
    BY <2>1, EndsType
  <2>5. QED BY <1>1, <2>2, <2>3, <2>4 DEF CallsType, CallInv
<1>5. QED BY <1>3, <1>4 DEF OpStep, Succeed, MoveUntimed

\* A call that is over keeps nothing but its outcome.
LEMMA EndStep ==
    ASSUME CallsType, CallInv, NEW c \in DOMAIN calls, NEW at \in {"returned", "threw"},
           End(c, at), index' \in [Paths -> IndexEntries]
    PROVE  CallsType' /\ CallInv'
<1>1. PICK over : over = [kind |-> "drain", paths |-> << >>, writer |-> NoWriter,
                          waits |-> << >>, on |-> None, previous |-> NoIndex,
                          since |-> 0, at |-> at]
  OBVIOUS
<1>2. over \in CallRecords /\ CallShape(over)
  BY <1>1, EmptySeq, NoIndexType DEF CallRecords, CallKinds, CallStates, None, CallShape
<1>3. calls' = [calls EXCEPT ![c] = over]
  BY <1>1 DEF End
<1>4. QED BY <1>2, <1>3, CallChanged

\* The call has put its operation in the chain.
LEMMA OperatingStep ==
    ASSUME QueueType, NEW c \in DOMAIN calls, Operating(c), calls[c].kind # "readText",
           index' \in [Paths -> IndexEntries]
    PROVE  CallsType' /\ CallInv'
<1> USE DEF QueueType
<1>1. calls[c] \in CallRecords /\ index \in [Paths -> IndexEntries] /\ Len(ops) + 1 \in Nat
  BY DEF CallsType, OpsType
<1>2. PICK call : call = [calls[c] EXCEPT !.at = "operating", !.on = Len(ops) + 1,
                                         !.previous = index]
  OBVIOUS
<1>3. call \in CallRecords
  BY <1>1, <1>2 DEF CallRecords, CallStates
<1>4. CallShape(call)
  BY <1>1, <1>2 DEF CallShape, CallRecords
<1>5. calls' = [calls EXCEPT ![c] = call]
  BY <1>2 DEF Operating
<1>6. QED BY <1>3, <1>4, <1>5, CallChanged

\* A call that waits for its path has it in its list.
LEMMA CallPaths ==
    ASSUME QueueType, NEW c \in DOMAIN calls
    PROVE  /\ calls[c] \in CallRecords /\ CallShape(calls[c])
           /\ calls[c].paths \in Seq(Paths) /\ calls[c].waits \in Seq(Paths)
           /\ calls[c].at = "awaiting" => calls[c].paths # << >> /\ calls[c].paths[1] \in Paths
           /\ calls[c].at = "awaiting" /\ calls[c].kind = "rename" => calls[c].paths[2] \in Paths
<1>1. calls[c] \in CallRecords /\ CallShape(calls[c])
  BY DEF QueueType, CallsType, CallInv
<1>2. PICK ps \in Seq(Paths) : ps = calls[c].paths
  BY <1>1 DEF CallRecords
<1>3. calls[c].waits \in Seq(Paths)
  BY <1>1 DEF CallRecords
<1>4. ps # << >> => ps[1] \in Paths
  BY EmptySeq
<1>5. ASSUME Len(ps) = 2 PROVE ps[2] \in Paths
  <2>1. 2 \in 1..Len(ps)
    BY <1>5
  <2>2. QED BY <2>1, ElementOfSeq
<1>6. QED BY <1>1, <1>2, <1>3, <1>4, <1>5 DEF CallShape

\* A call that changes no operation, whatever becomes of it.
LEMMA QuietCallStep ==
    ASSUME QueueType, NEW c \in DOMAIN calls,
           \/ AwaitNext(c) \/ ReadyToDelete(c) \/ NoSuchFile(c) \/ ReadyToRead(c) \/ ReadDone(c)
           \/ Return(c) \/ RollBack(c) \/ FlushDone(c) \/ DrainDone(c)
    PROVE  CallsType' /\ CallInv'
<1> USE DEF QueueType
<1>1. /\ calls[c] \in CallRecords /\ CallShape(calls[c])
      /\ calls[c].paths \in Seq(Paths) /\ calls[c].waits \in Seq(Paths)
  BY CallPaths
<1>2. index \in [Paths -> IndexEntries]
  BY DEF CallsType
<1>3. ASSUME NEW at \in {"returned", "threw"}, End(c, at), index' = index
      PROVE  CallsType' /\ CallInv'
  BY <1>2, <1>3, EndStep
<1>4. CASE AwaitNext(c)
  <2>1. CASE End(c, "threw")
    BY <1>3, <1>4, <2>1 DEF AwaitNext
  <2>2. CASE /\ Len(calls[c].waits) > 1
             /\ calls' = [calls EXCEPT ![c].waits = Tail(@), ![c].on = pathTails[calls[c].waits[2]]]
    <3>1. PICK waits \in Seq(Paths) : waits = calls[c].waits
      BY <1>1
    <3>2. Len(waits) > 1 /\ Len(waits) \in Nat /\ waits # << >> /\ waits[2] \in Paths
      BY <2>2, <3>1
    <3>3. PICK rest \in Seq(Paths) : rest = Tail(waits) /\ Len(rest) = Len(waits) - 1
      BY <3>2, HeadTailProperties
    <3>4. PICK on \in Nat : on = pathTails[waits[2]]
      BY <3>2 DEF OpsType
    <3>5. PICK call : call = [calls[c] EXCEPT !.waits = rest, !.on = on]
      OBVIOUS
    <3>6. call \in CallRecords
      BY <1>1, <3>5 DEF CallRecords
    <3>7. calls[c].kind # "readText"
      BY <1>1, <3>1, <3>2 DEF CallShape
    <3>8. rest # << >>
      <4>1. Len(rest) > 0
        BY <3>2, <3>3
      <4>2. QED BY <4>1, EmptySeq
    <3>9. CallShape(call)
      BY <1>1, <3>5, <3>7, <3>8 DEF CallShape, CallRecords
    <3>10. calls' = [calls EXCEPT ![c] = call]
      BY <2>2, <3>1, <3>3, <3>4, <3>5
    <3>11. index' = index
      BY <1>4 DEF AwaitNext
    <3>12. QED BY <1>2, <3>6, <3>9, <3>10, <3>11, CallChanged
  <2>3. QED BY <1>4, <2>1, <2>2 DEF AwaitNext
<1>5. CASE ReadyToDelete(c)
  <2>1. PICK ps \in {<<Session, Artifact>>, <<Session>>}, on \in Nat :
            calls' = [calls EXCEPT ![c].kind = "deleteAll", ![c].paths = ps, ![c].waits = ps,
                                   ![c].on = on]
    <3>1. pathTails[Session] \in Nat
      BY PathsAssumption DEF OpsType
    <3>2. QED BY <1>5, <3>1 DEF ReadyToDelete
  <2>2. ps \in Seq(Paths) /\ ps # << >>
    <3>1. <<Session, Artifact>> \in Seq(Paths) /\ <<Session>> \in Seq(Paths)
      BY PathsAssumption
    <3>2. <<Session, Artifact>> # << >> /\ <<Session>> # << >>
      OBVIOUS
    <3>3. QED BY <3>1, <3>2
  <2>3. PICK call : call = [calls[c] EXCEPT !.kind = "deleteAll", !.paths = ps, !.waits = ps,
                                            !.on = on]
    OBVIOUS
  <2>4. call \in CallRecords
    BY <1>1, <2>2, <2>3 DEF CallRecords, CallKinds
  <2>5. calls[c].at = "awaiting"
    BY <1>5 DEF ReadyToDelete, Ready
  <2>6. CallShape(call)
    BY <1>1, <2>2, <2>3, <2>5 DEF CallShape, CallRecords
  <2>7. calls' = [calls EXCEPT ![c] = call] /\ index' = index
    BY <1>5, <2>1, <2>3 DEF ReadyToDelete
  <2>8. QED BY <1>2, <2>4, <2>6, <2>7, CallChanged
<1>6. CASE NoSuchFile(c)
  BY <1>3, <1>6 DEF NoSuchFile
<1>7. CASE ReadyToRead(c)
  <2>1. PICK call : call = [calls[c] EXCEPT !.at = "reading"]
    OBVIOUS
  <2>2. call \in CallRecords /\ calls[c].kind = "readText"
    BY <1>1, <1>7, <2>1 DEF CallRecords, CallStates, ReadyToRead, Ready
  <2>3. CallShape(call)
    BY <1>1, <2>1, <2>2 DEF CallShape, CallRecords
  <2>4. calls' = [calls EXCEPT ![c] = call] /\ index' = index
    BY <1>7, <2>1 DEF ReadyToRead
  <2>5. QED BY <1>2, <2>2, <2>3, <2>4, CallChanged
<1>8. CASE ReadDone(c)
  <2>1. \E at \in {"returned", "threw"} : End(c, at)
    BY <1>8 DEF ReadDone
  <2>2. QED BY <1>3, <1>8, <2>1 DEF ReadDone
<1>9. CASE Return(c)
  BY <1>3, <1>9 DEF Return
<1>10. CASE RollBack(c)
  <2>1. calls[c].previous \in [Paths -> IndexEntries]
    BY <1>1 DEF CallRecords
  <2>2. index' \in [Paths -> IndexEntries]
    BY <1>2, <1>10, <2>1 DEF RollBack
  <2>3. End(c, "threw")
    BY <1>10 DEF RollBack
  <2>4. QED BY <2>2, <2>3, EndStep
<1>11. CASE FlushDone(c)
  BY <1>3, <1>11 DEF FlushDone, FlushOutcome
<1>12. CASE DrainDone(c)
  <2>1. \E at \in {"returned", "threw"} : End(c, at)
    BY <1>12 DEF DrainDone
  <2>2. QED BY <1>3, <1>12, <2>1 DEF DrainDone
<1>13. QED BY <1>4, <1>5, <1>6, <1>7, <1>8, <1>9, <1>10, <1>11, <1>12

\* Every step of a call: it lets the chain alone, or puts one operation there.
LEMMA CallStepKind ==
    ASSUME QueueType, NEW c \in DOMAIN calls, CallStep(c)
    PROVE  QueueType' /\ writers' = writers /\ (ChainGrows \/ UNCHANGED <<ops, state, pathTails>>)
<1> USE DEF QueueType
<1>1. /\ calls[c] \in CallRecords /\ CallShape(calls[c]) /\ calls[c].paths \in Seq(Paths)
      /\ calls[c].at = "awaiting" => calls[c].paths # << >> /\ calls[c].paths[1] \in Paths
      /\ calls[c].at = "awaiting" /\ calls[c].kind = "rename" => calls[c].paths[2] \in Paths
  BY CallPaths
<1>2. index \in [Paths -> IndexEntries] /\ Now \in Nat /\ NoEntry \in IndexEntries
  BY NowType, NoIndexType DEF CallsType
<1>3. ASSUME NEW kind \in OpKinds, NEW ps \in Seq(Paths), ps # << >>, NEW mtime \in Nat,
             Enqueue(kind, ps, NoWriter, FALSE, mtime)
      PROVE  ChainGrows
  BY <1>3 DEF ChainGrows, Enqueued
<1>4. writers' = writers
  BY DEF CallStep, AwaitNext, ReadyToWrite, ReadyToRename, ReadyToRemove, ReadyToDelete,
         NoSuchFile, ReadyToRead, ReadDone, Return, RollBack, FlushDone, DrainDone
<1>5. CASE ReadyToWrite(c)
  <2>1. PICK p \in Paths : p = calls[c].paths[1]
    BY <1>1, <1>5 DEF ReadyToWrite, Ready
  <2>2. /\ SetIndex(p, 1) /\ Operating(c) /\ calls[c].kind = "writeText"
        /\ Enqueue("writeFull", <<p>>, NoWriter, FALSE, Now)
    BY <1>5, <2>1 DEF ReadyToWrite, Ready
  <2>3. ChainGrows
    <3>1. <<p>> \in Seq(Paths) /\ <<p>> # << >>
      OBVIOUS
    <3>2. QED BY <1>2, <1>3, <2>2, <3>1 DEF OpKinds
  <2>4. index' \in [Paths -> IndexEntries]
    BY <2>2, SetIndexType
  <2>5. QED BY <1>4, <2>2, <2>3, <2>4, GrowsType, OperatingStep DEF WritersType
<1>6. CASE ReadyToRename(c)
  <2>1. PICK src \in Paths, dst \in Paths : src = calls[c].paths[1] /\ dst = calls[c].paths[2]
    BY <1>1, <1>6 DEF ReadyToRename, Ready
  <2>2. /\ index' = [index EXCEPT ![src] = NoEntry, ![dst] = index[src]]
        /\ Enqueue("move", <<src, dst>>, NoWriter, FALSE, index[src].mtime)
        /\ Operating(c) /\ calls[c].kind = "rename"
    BY <1>6, <2>1 DEF ReadyToRename, Ready
  <2>3. index[src].mtime \in Nat
    BY <1>2 DEF IndexEntries
  <2>4. <<src, dst>> \in Seq(Paths) /\ <<src, dst>> # << >>
    OBVIOUS
  <2>5. ChainGrows
    BY <1>3, <2>2, <2>3, <2>4 DEF OpKinds
  <2>6. index' \in [Paths -> IndexEntries]
    BY <1>2, <2>2
  <2>7. QED BY <1>4, <2>2, <2>5, <2>6, GrowsType, OperatingStep DEF WritersType
<1>7. CASE ReadyToRemove(c)
  <2>1. /\ calls[c].at = "awaiting" /\ calls[c].kind # "readText"
        /\ Enqueue("remove", calls[c].paths, NoWriter, FALSE, Now)
        /\ Operating(c)
    BY <1>7 DEF ReadyToRemove, Ready
  <2>2. index' \in [Paths -> IndexEntries]
    BY <1>2, <1>7 DEF ReadyToRemove
  <2>3. ChainGrows
    BY <1>1, <1>2, <1>3, <2>1 DEF OpKinds
  <2>4. QED BY <1>4, <2>1, <2>2, <2>3, GrowsType, OperatingStep DEF WritersType
<1>8. CASE \/ AwaitNext(c) \/ ReadyToDelete(c) \/ NoSuchFile(c) \/ ReadyToRead(c) \/ ReadDone(c)
           \/ Return(c) \/ RollBack(c) \/ FlushDone(c) \/ DrainDone(c)
  <2>1. UNCHANGED <<ops, state, pathTails>>
    BY <1>8 DEF AwaitNext, ReadyToDelete, NoSuchFile, ReadyToRead, ReadDone, Return, RollBack,
                FlushDone, DrainDone
  <2>2. QED BY <1>4, <1>8, <2>1, QuietCallStep DEF OpsType, WritersType
<1>9. QED BY <1>5, <1>6, <1>7, <1>8 DEF CallStep

\* The kinds of steps, as the chain sees them.
LEMMA StepKinds ==
    ASSUME QueueType, [Next]_vars
    PROVE  /\ QueueType' /\ WritersKept
           /\ ChainGrows \/ ChainSettles \/ UNCHANGED <<ops, state, pathTails>>
<1>1. CASE NewCall
  BY <1>1, NewCallStep
<1>2. ASSUME NEW k \in OpIds, OpStep(k)
      PROVE  QueueType' /\ WritersKept /\ ChainSettles
  BY <1>2, OpStepKind
<1>3. ASSUME NEW c \in 1..Len(calls), CallStep(c)
      PROVE  /\ QueueType' /\ WritersKept
             /\ ChainGrows \/ UNCHANGED <<ops, state, pathTails>>
  <2>1. c \in DOMAIN calls
    BY DEF QueueType, CallsType
  <2>2. QED BY <1>3, <2>1, CallStepKind DEF WritersKept
<1>4. CASE UNCHANGED vars
  BY <1>4 DEF QueueType, OpsType, WritersType, CallsType, CallInv, WritersKept
<1>5. QED BY <1>1, <1>2, <1>3, <1>4 DEF Next

LEMMA TypeInit == Init => QueueType
<1> SUFFICES ASSUME Init PROVE QueueType
  OBVIOUS
<1>1. OpsType
  BY EmptySeq DEF Init, OpsType, None
<1>2. WritersType
  BY PathsAssumption DEF Init, WritersType
<1>3. CallsType /\ CallInv
  BY EmptySeq DEF Init, CallsType, CallInv, IndexEntries, NoEntry
<1>4. QED BY <1>1, <1>2, <1>3 DEF QueueType

\* Types of the chain, the writers and the calls, and the shape of the calls.
THEOREM QueueTypeCorrect == Spec => []QueueType
<1>1. Init => QueueType
  BY TypeInit
<1>2. QueueType /\ [Next]_vars => QueueType'
  BY StepKinds
<1>3. QED BY <1>1, <1>2, PTL DEF Spec
-----------------------------------------------------------------------------
(***************************************************************************)
(* The chain.  An operation waits only for the tails it found; the         *)
(* invariant says that this makes it wait for everything queued before it  *)
(* on any of its paths.                                                    *)
(***************************************************************************)
\* The tail of a path is its last operation, for as long as that is queued.
TailInv ==
    /\ \A p \in Paths : pathTails[p] # None =>
          \E t \in OpIds : pathTails[p] = t /\ state[t] = "queued" /\ p \in PathsOf(t)
    /\ \A k \in OpIds : \A p \in PathsOf(k) : state[k] = "queued" => k <= pathTails[p]

\* What was queued before on a path is settled, or one that this waits for on
\* the path is not, and comes behind it.
ChainInv ==
    \A j, k \in OpIds : \A p \in PathsOf(j) \cap PathsOf(k) :
        j < k /\ ~Settled(j) =>
            /\ state[k] = "queued"
            /\ \E m \in ops[k].after :
                  m \in OpIds /\ j <= m /\ state[m] = "queued" /\ p \in PathsOf(m)

\* An operation settles after all that were queued before it on its paths.
LEMMA InOrder ==
    ASSUME OpsType, ChainInv, NEW j \in OpIds, NEW k \in OpIds, j < k,
           PathsOf(j) \cap PathsOf(k) # {}, state[k] # "queued" \/ Sent(k)
    PROVE  Settled(j)
BY DEF ChainInv, Sent, Settled

\* The chain with one more operation, n, at its end.
Grown(n, ps, w) ==
    /\ OpIds' = OpIds \cup {n} /\ n \notin OpIds /\ n \in Nat \ {0}
    /\ \A k \in OpIds : k \in Nat /\ k < n /\ ops'[k] = ops[k] /\ state'[k] = state[k]
    /\ ops'[n].paths = ps /\ ops'[n].after = Previous(ps) /\ ops'[n].writer = w
    /\ state'[n] = "queued"
    /\ \A p \in Paths : pathTails'[p] =
          IF \E i \in DOMAIN ps : ps[i] = p THEN n ELSE pathTails[p]

LEMMA GrownChain ==
    ASSUME OpsType, NEW kind, NEW ps \in Seq(Paths), NEW w, NEW tracked, NEW mtime,
           Enqueue(kind, ps, w, tracked, mtime), NEW n, n = Len(ops) + 1
    PROVE  Grown(n, ps, w)
<1>1. PICK op : op = [kind |-> kind, paths |-> ps, writer |-> w, tracked |-> tracked,
                      mtime |-> mtime, after |-> Previous(ps)]
  OBVIOUS
<1>2. ops' = Append(ops, op) /\ state' = Append(state, "queued") /\ pathTails' = Tails(ps, n)
  BY <1>1 DEF Enqueue
<1>3. Len(ops) \in Nat /\ Len(state) = Len(ops)
  BY DEF OpsType
<1>4. Len(ops') = Len(ops) + 1 /\ (\A k \in 1..Len(ops) : ops'[k] = ops[k]) /\ ops'[n] = op
  BY <1>2 DEF OpsType
<1>5. (\A k \in 1..Len(ops) : state'[k] = state[k]) /\ state'[n] = "queued"
  BY <1>2, <1>3 DEF OpsType
<1>6. OpIds' = OpIds \cup {n} /\ n \notin OpIds /\ n \in Nat \ {0}
  BY <1>3, <1>4 DEF OpIds
<1>7. \A k \in OpIds : k \in Nat /\ k < n /\ ops'[k] = ops[k] /\ state'[k] = state[k]
  BY <1>3, <1>4, <1>5 DEF OpIds
<1>8. \A p \in Paths : pathTails'[p] = IF \E i \in DOMAIN ps : ps[i] = p THEN n ELSE pathTails[p]
  BY <1>2 DEF Tails
<1>9. QED BY <1>1, <1>4, <1>5, <1>6, <1>7, <1>8 DEF Grown

LEMMA GrowStep ==
    ASSUME OpsType, TailInv, ChainInv, OpsType', ChainGrows
    PROVE  TailInv' /\ ChainInv'
<1>1. PICK kind \in OpKinds, ps \in Seq(Paths), w \in Writers \cup {NoWriter},
           tracked \in BOOLEAN, mtime \in Nat : Enqueue(kind, ps, w, tracked, mtime)
  BY DEF ChainGrows, Enqueued
<1> PICK n : n = Len(ops) + 1
  OBVIOUS
<1>2. Grown(n, ps, w)
  BY <1>1, GrownChain
<1> USE DEF Grown
<1>3. \A k \in OpIds : PathsOf(k)' = PathsOf(k) /\ (Settled(k)' <=> Settled(k))
  BY <1>2 DEF PathsOf, Settled
<1>4. PathsOf(n)' = {ps[i] : i \in DOMAIN ps} /\ PathsOf(n)' \subseteq Paths
  BY <1>2 DEF PathsOf
<1>5. \A k \in OpIds : PathsOf(k) \subseteq Paths
  <2>1. \A k \in OpIds : ops[k].paths \in Seq(Paths)
    <3>1. \A k \in OpIds : ops[k] \in Operations
      BY DEF OpsType, OpIds
    <3>2. QED BY <3>1 DEF Operations
  <2>2. QED BY <2>1 DEF PathsOf
<1>6. \A p \in Paths : pathTails'[p] = IF p \in PathsOf(n)' THEN n ELSE pathTails[p]
  BY <1>2, <1>4
<1>7. TailInv'
  <2>1. ASSUME NEW p \in Paths, pathTails'[p] # None
        PROVE  \E t \in OpIds' : pathTails'[p] = t /\ state'[t] = "queued" /\ p \in PathsOf(t)'
    <3>1. CASE p \in PathsOf(n)'
      BY <1>2, <1>6, <3>1
    <3>2. CASE p \notin PathsOf(n)'
      BY <1>2, <1>3, <1>6, <2>1, <3>2 DEF TailInv
    <3>3. QED BY <3>1, <3>2
  <2>2. ASSUME NEW k \in OpIds', NEW p \in PathsOf(k)', state'[k] = "queued"
        PROVE  k <= pathTails'[p]
    <3>1. CASE k = n
      BY <1>2, <1>4, <1>6, <3>1
    <3>2. CASE k \in OpIds
      <4>1. p \in PathsOf(k) /\ p \in Paths /\ k <= pathTails[p]
        BY <1>2, <1>3, <1>5, <2>2, <3>2 DEF TailInv
      <4>2. QED BY <1>2, <1>6, <3>2, <4>1
    <3>3. QED BY <1>2, <3>1, <3>2
  <2>3. QED BY <2>1, <2>2 DEF TailInv
<1>8. ChainInv'
  <2> SUFFICES ASSUME NEW j \in OpIds', NEW k \in OpIds', NEW p \in PathsOf(j)' \cap PathsOf(k)',
                      j < k, ~Settled(j)'
               PROVE  /\ state'[k] = "queued"
                      /\ \E m \in ops'[k].after :
                            m \in OpIds' /\ j <= m /\ state'[m] = "queued" /\ p \in PathsOf(m)'
    BY DEF ChainInv
  <2>1. j \in OpIds
    BY <1>2
  <2>2. CASE k = n
    <3>1. state[j] = "queued" /\ p \in PathsOf(j)
      <4>1. state[j] \in OpStates
        BY <2>1 DEF OpsType, OpIds
      <4>2. QED BY <1>3, <2>1, <4>1 DEF Settled, OpStates
    <3>2. p \in Paths /\ j <= pathTails[p] /\ j \in Nat /\ j > 0
      BY <1>5, <2>1, <3>1 DEF TailInv, OpIds, OpsType
    <3>3. pathTails[p] \in Nat /\ pathTails[p] # None
      BY <3>2 DEF OpsType, None
    <3>4. PICK i \in DOMAIN ps : ps[i] = p
      BY <1>4, <2>2
    <3>5. pathTails[p] \in Previous(ps)
      BY <3>3, <3>4 DEF Previous
    <3>6. PICK t \in OpIds : pathTails[p] = t /\ state[t] = "queued" /\ p \in PathsOf(t)
      BY <3>2, <3>3 DEF TailInv
    <3>7. QED BY <1>2, <1>3, <2>2, <3>2, <3>5, <3>6
  <2>3. CASE k \in OpIds
    <3>1. ~Settled(j) /\ p \in PathsOf(j) \cap PathsOf(k)
      BY <1>3, <2>1, <2>3
    <3>2. /\ state[k] = "queued"
          /\ \E m \in ops[k].after :
                m \in OpIds /\ j <= m /\ state[m] = "queued" /\ p \in PathsOf(m)
      BY <2>1, <2>3, <3>1 DEF ChainInv
    <3>3. QED BY <1>2, <1>3, <2>3, <3>2
  <2>4. QED BY <1>2, <2>2, <2>3
<1>9. QED BY <1>7, <1>8

LEMMA SettleStep ==
    ASSUME OpsType, TailInv, ChainInv, ChainSettles
    PROVE  TailInv' /\ ChainInv'
<1>1. PICK k \in OpIds, outcome \in {"done", "failed"} : Ends(k, outcome)
  BY DEF ChainSettles
<1>2. /\ OpIds' = OpIds /\ ops' = ops
      /\ \A i \in OpIds : state'[i] = IF i = k THEN outcome ELSE state[i]
      /\ \A p \in Paths : pathTails'[p] = IF pathTails[p] = k THEN None ELSE pathTails[p]
      /\ \A i \in OpIds : i \in Nat
  BY <1>1 DEF Ends, Forget, OpIds, OpsType
<1>3. \A i \in OpIds : PathsOf(i)' = PathsOf(i) /\ PathsOf(i) \subseteq Paths
  <2>1. \A i \in OpIds : ops[i] \in Operations
    BY DEF OpsType, OpIds
  <2>2. \A i \in OpIds : ops[i].paths \in Seq(Paths)
    BY <2>1 DEF Operations
  <2>3. QED BY <1>2, <2>2 DEF PathsOf
<1>4. Sent(k) /\ state[k] = "queued"
  BY <1>1 DEF Ends, Sent
<1>5. ASSUME NEW j \in OpIds, j < k, state[j] = "queued", NEW p \in PathsOf(j) \cap PathsOf(k)
      PROVE  FALSE
  <2>1. Settled(j)
    BY <1>4, <1>5, InOrder
  <2>2. QED BY <1>5, <2>1 DEF Settled
<1>6. TailInv'
  <2>1. ASSUME NEW p \in Paths, pathTails'[p] # None
        PROVE  \E t \in OpIds' : pathTails'[p] = t /\ state'[t] = "queued" /\ p \in PathsOf(t)'
    <3>1. pathTails[p] # k /\ pathTails'[p] = pathTails[p]
      BY <1>2, <2>1
    <3>2. PICK t \in OpIds : pathTails[p] = t /\ state[t] = "queued" /\ p \in PathsOf(t)
      BY <2>1, <3>1 DEF TailInv
    <3>3. QED BY <1>2, <1>3, <3>1, <3>2
  <2>2. ASSUME NEW i \in OpIds', NEW p \in PathsOf(i)', state'[i] = "queued"
        PROVE  i <= pathTails'[p]
    <3>1. i \in OpIds /\ p \in PathsOf(i) /\ p \in Paths
      BY <1>2, <1>3
    <3>2. i # k /\ state[i] = "queued"
      BY <1>2, <2>2, <3>1
    <3>3. i <= pathTails[p]
      BY <3>1, <3>2 DEF TailInv
    <3>4. ASSUME pathTails[p] = k PROVE FALSE
      <4>1. p \in PathsOf(k)
        BY <1>2, <3>1, <3>4 DEF TailInv, None, OpIds
      <4>2. i < k
        BY <1>2, <3>1, <3>2, <3>3, <3>4
      <4>3. QED BY <1>5, <3>1, <3>2, <4>1, <4>2
    <3>5. QED BY <1>2, <3>1, <3>3, <3>4
  <2>3. QED BY <2>1, <2>2 DEF TailInv
<1>7. ChainInv'
  <2> SUFFICES ASSUME NEW j \in OpIds', NEW i \in OpIds', NEW p \in PathsOf(j)' \cap PathsOf(i)',
                      j < i, ~Settled(j)'
               PROVE  /\ state'[i] = "queued"
                      /\ \E m \in ops'[i].after :
                            m \in OpIds' /\ j <= m /\ state'[m] = "queued" /\ p \in PathsOf(m)'
    BY DEF ChainInv
  <2>1. j \in OpIds /\ i \in OpIds /\ p \in PathsOf(j) \cap PathsOf(i)
    BY <1>2, <1>3
  <2>2. j # k /\ ~Settled(j)
    BY <1>2, <2>1 DEF Settled
  <2>3. state[j] = "queued"
    <3>1. state[j] \in OpStates
      BY <2>1 DEF OpsType, OpIds
    <3>2. QED BY <2>2, <3>1 DEF Settled, OpStates
  <2>4. state[i] = "queued"
    BY <2>1, <2>2 DEF ChainInv
  <2>5. PICK m \in ops[i].after : m \in OpIds /\ j <= m /\ state[m] = "queued" /\ p \in PathsOf(m)
    BY <2>1, <2>2 DEF ChainInv
  <2>6. i # k
    BY <1>4, <2>5 DEF Sent, Settled
  <2>7. m # k
    <3>1. ASSUME m = k PROVE FALSE
      <4>1. j < k
        BY <1>2, <2>1, <2>2, <2>5, <3>1
      <4>2. QED BY <1>5, <2>1, <2>3, <2>5, <3>1, <4>1
    <3>2. QED BY <3>1
  <2>8. m \in ops'[i].after /\ state'[i] = "queued" /\ m \in OpIds' /\ state'[m] = "queued"
        /\ p \in PathsOf(m)'
    BY <1>2, <1>3, <2>1, <2>4, <2>5, <2>6, <2>7
  <2>9. QED BY <2>5, <2>8
<1>8. QED BY <1>6, <1>7

ChainOk == QueueType /\ TailInv /\ ChainInv

LEMMA ChainStep == ASSUME ChainOk, [Next]_vars PROVE ChainOk'
<1>1. QueueType' /\ (ChainGrows \/ ChainSettles \/ UNCHANGED <<ops, state, pathTails>>)
  BY StepKinds DEF ChainOk
<1>2. CASE ChainGrows
  BY <1>1, <1>2, GrowStep DEF ChainOk, QueueType
<1>3. CASE ChainSettles
  BY <1>1, <1>3, SettleStep DEF ChainOk, QueueType
<1>4. CASE UNCHANGED <<ops, state, pathTails>>
  BY <1>1, <1>4 DEF ChainOk, TailInv, ChainInv, OpIds, PathsOf, Settled
<1>5. QED BY <1>1, <1>2, <1>3, <1>4

LEMMA ChainInit == Init => ChainOk
<1> SUFFICES ASSUME Init PROVE ChainOk
  OBVIOUS
<1>1. QueueType
  BY TypeInit
<1>2. OpIds = {}
  BY DEF Init, OpIds
<1>3. QED BY <1>1, <1>2 DEF Init, ChainOk, TailInv, ChainInv

\* The chain orders what shares a path, whatever else is in it.
THEOREM ChainCorrect == Spec => [](TailInv /\ ChainInv)
<1>1. ChainOk => TailInv /\ ChainInv
  BY DEF ChainOk
<1>2. QED BY <1>1, ChainInit, ChainStep, PTL DEF Spec
-----------------------------------------------------------------------------
(***************************************************************************)
(* A writer's operations are on the writer's path, so that the chain keeps *)
(* their order, and those behind a failure find the writer's error.        *)
(***************************************************************************)
WriterInv ==
    \A k \in OpIds : ops[k].writer # NoWriter =>
        /\ writers[ops[k].writer].open
        /\ ops[k].paths = <<writers[ops[k].writer].path>>
        /\ state[k] = "failed" => writers[ops[k].writer].error

WriterOk == ChainOk /\ WriterInv /\ NoGapInWriter

\* The operations of a writer share its path.
LEMMA OneWriterOnePath ==
    ASSUME WriterInv, NEW j \in OpIds, NEW k \in OpIds,
           ops[j].writer = ops[k].writer, ops[k].writer # NoWriter
    PROVE  PathsOf(j) \cap PathsOf(k) # {}
<1>1. PICK p : p = writers[ops[k].writer].path
  OBVIOUS
<1>2. ops[j].paths = <<p>> /\ ops[k].paths = <<p>>
  BY <1>1 DEF WriterInv
<1>3. p \in PathsOf(j) /\ p \in PathsOf(k)
  <2>1. 1 \in DOMAIN <<p>> /\ <<p>>[1] = p
    OBVIOUS
  <2>2. QED BY <1>2, <2>1 DEF PathsOf
<1>4. QED BY <1>3

LEMMA OpWriterType ==
    ASSUME OpsType, NEW k \in OpIds
    PROVE  ops[k].writer \in Writers \cup {NoWriter} /\ state[k] \in OpStates
<1>1. ops[k] \in Operations /\ state[k] \in OpStates
  BY DEF OpsType, OpIds
<1>2. QED BY <1>1 DEF Operations

LEMMA WriterGrowStep ==
    ASSUME WriterOk, WritersKept, ChainGrows
    PROVE  WriterInv' /\ NoGapInWriter'
<1> USE DEF WriterOk, ChainOk, QueueType
<1>1. PICK kind \in OpKinds, ps \in Seq(Paths), w \in Writers \cup {NoWriter},
           tracked \in BOOLEAN, mtime \in Nat :
               /\ w # NoWriter => writers'[w].open /\ ps = <<writers'[w].path>>
               /\ Enqueue(kind, ps, w, tracked, mtime)
  BY DEF ChainGrows, Enqueued
<1> PICK n : n = Len(ops) + 1
  OBVIOUS
<1>2. Grown(n, ps, w)
  BY <1>1, GrownChain
<1>3. /\ OpIds' = OpIds \cup {n} /\ n \notin OpIds
      /\ \A k \in OpIds : k \in Nat /\ k < n /\ ops'[k] = ops[k] /\ state'[k] = state[k]
      /\ ops'[n].paths = ps /\ ops'[n].writer = w /\ state'[n] = "queued"
  BY <1>2 DEF Grown
<1>4. WriterInv'
  <2> SUFFICES ASSUME NEW k \in OpIds', ops'[k].writer # NoWriter
               PROVE  /\ writers'[ops'[k].writer].open
                      /\ ops'[k].paths = <<writers'[ops'[k].writer].path>>
                      /\ state'[k] = "failed" => writers'[ops'[k].writer].error
    BY DEF WriterInv
  <2>1. CASE k = n
    BY <1>1, <1>3, <2>1
  <2>2. CASE k \in OpIds
    <3>1. ops'[k] = ops[k] /\ state'[k] = state[k] /\ ops[k].writer \in Writers
      BY <1>3, <2>2, OpWriterType
    <3>2. QED BY <2>2, <3>1 DEF WriterInv, WritersKept
  <2>3. QED BY <1>3, <2>1, <2>2
<1>5. NoGapInWriter'
  <2> SUFFICES ASSUME NEW k \in OpIds', ops'[k].writer # NoWriter, state'[k] = "done",
                      NEW j \in 1..(k - 1), ops'[j].writer = ops'[k].writer
               PROVE  state'[j] = "done"
    BY DEF NoGapInWriter
  <2>1. k \in OpIds
    BY <1>3
  <2>2. j \in OpIds
    BY <2>1 DEF OpIds, OpsType
  <2>3. QED BY <1>3, <2>1, <2>2 DEF NoGapInWriter
<1>6. QED BY <1>4, <1>5

LEMMA WriterSettleStep ==
    ASSUME WriterOk, WritersKept, ChainSettles
    PROVE  WriterInv' /\ NoGapInWriter'
<1> USE DEF WriterOk, ChainOk, QueueType
<1>1. PICK k \in OpIds, outcome \in {"done", "failed"} :
          /\ Ends(k, outcome)
          /\ ops[k].writer # NoWriter =>
                 /\ outcome = "done" => ~writers[ops[k].writer].error
                 /\ outcome = "failed" => writers'[ops[k].writer].error
  BY DEF ChainSettles
<1>2. /\ OpIds' = OpIds /\ ops' = ops
      /\ \A i \in OpIds : state'[i] = IF i = k THEN outcome ELSE state[i]
      /\ Sent(k) /\ state[k] = "queued"
  BY <1>1 DEF Ends, Sent, OpIds, OpsType
<1>3. WriterInv'
  <2> SUFFICES ASSUME NEW i \in OpIds', ops'[i].writer # NoWriter
               PROVE  /\ writers'[ops'[i].writer].open
                      /\ ops'[i].paths = <<writers'[ops'[i].writer].path>>
                      /\ state'[i] = "failed" => writers'[ops'[i].writer].error
    BY DEF WriterInv
  <2>1. i \in OpIds /\ ops'[i] = ops[i] /\ ops[i].writer \in Writers
    BY <1>2, OpWriterType
  <2>2. QED BY <1>1, <1>2, <2>1 DEF WriterInv, WritersKept
<1>4. NoGapInWriter'
  <2> SUFFICES ASSUME NEW i \in OpIds', ops'[i].writer # NoWriter, state'[i] = "done",
                      NEW j \in 1..(i - 1), ops'[j].writer = ops'[i].writer
               PROVE  state'[j] = "done"
    BY DEF NoGapInWriter
  <2>1. i \in OpIds /\ ops[i].writer # NoWriter /\ ops[j].writer = ops[i].writer
    BY <1>2
  <2>2. j \in OpIds /\ j < i
    BY <2>1 DEF OpIds, OpsType
  <2>3. PathsOf(j) \cap PathsOf(i) # {}
    BY <2>1, <2>2, OneWriterOnePath
  <2>4. CASE i = k
    <3>1. Settled(j)
      BY <1>2, <2>1, <2>2, <2>3, <2>4, InOrder
    <3>2. state[j] # "failed"
      BY <1>1, <1>2, <2>1, <2>2, <2>4 DEF WriterInv
    <3>3. QED BY <1>2, <2>2, <2>4, <3>1, <3>2 DEF Settled
  <2>5. CASE i # k
    <3>1. state[i] = "done"
      BY <1>2, <2>1, <2>5
    <3>2. state[j] = "done"
      BY <2>1, <3>1 DEF NoGapInWriter
    <3>3. QED BY <1>2, <2>2, <3>2
  <2>6. QED BY <2>4, <2>5
<1>5. QED BY <1>3, <1>4

LEMMA WriterStep == ASSUME WriterOk, [Next]_vars PROVE WriterOk'
<1>1. ChainOk'
  BY ChainStep DEF WriterOk
<1>2. WritersKept /\ (ChainGrows \/ ChainSettles \/ UNCHANGED <<ops, state, pathTails>>)
  BY StepKinds DEF WriterOk, ChainOk
<1>3. CASE ChainGrows
  BY <1>1, <1>2, <1>3, WriterGrowStep DEF WriterOk
<1>4. CASE ChainSettles
  BY <1>1, <1>2, <1>4, WriterSettleStep DEF WriterOk
<1>5. CASE UNCHANGED <<ops, state, pathTails>>
  <2>1. \A k \in OpIds : ops[k].writer \in Writers \cup {NoWriter}
    BY OpWriterType DEF WriterOk, ChainOk, QueueType
  <2>2. QED BY <1>1, <1>2, <1>5, <2>1 DEF WriterOk, WriterInv, NoGapInWriter, WritersKept, OpIds
<1>6. QED BY <1>2, <1>3, <1>4, <1>5

\* A line of a writer reaches the file only after all the writer wrote before,
\* for any operations of any others on the path, renames included.
THEOREM NoGapCorrect == Spec => []NoGapInWriter
<1>1. Init => WriterOk
  <2> SUFFICES ASSUME Init PROVE WriterOk
    OBVIOUS
  <2>1. OpIds = {}
    BY DEF Init, OpIds
  <2>2. QED BY <2>1, ChainInit DEF WriterOk, WriterInv, NoGapInWriter
<1>2. WriterOk => NoGapInWriter
  BY DEF WriterOk
<1>3. QED BY <1>1, <1>2, WriterStep, PTL DEF Spec
-----------------------------------------------------------------------------
(***************************************************************************)
(* Reads.  A read looks up the tail of its path once, when it is called.   *)
(***************************************************************************)
\* What was queued on the path before the read is over, or does not come
\* behind the operation the read waits for.
ReadSafe(call) ==
    /\ call.at \in {"awaiting", "reading"} /\ call.since <= Len(ops)
    /\ \A k \in 1..call.since : call.paths[1] \in PathsOf(k) =>
          \/ Settled(k)
          \/ /\ call.at = "awaiting" /\ call.on \in OpIds
             /\ call.paths[1] \in PathsOf(call.on) /\ k <= call.on

ReadInv == \A c \in DOMAIN calls : calls[c].kind = "readText" => ReadSafe(calls[c])

ReadOk == ChainOk /\ ReadInv

\* A call of readText, made now.
NewRead(call) ==
    \E p \in Paths :
        /\ call.paths = <<p>> /\ call.at = "awaiting" /\ call.since = Len(ops)
        /\ call.on = pathTails[p]

\* What a step does to a read that is not over: it leaves it alone, lets it
\* read, or is the call itself.
ReadKept(c) == c \in DOMAIN calls /\ calls'[c] = calls[c]
ReadStarts(c) ==
    /\ c \in DOMAIN calls /\ ReadyToRead(c)
    /\ calls'[c] = [calls[c] EXCEPT !.at = "reading"]
ReadCalled(c) == NewRead(calls'[c]) /\ UNCHANGED <<ops, state, pathTails>>

LEMMA AskedRead ==
    ASSUME QueueType, NewCall, NEW c \in DOMAIN calls', calls'[c].kind = "readText"
    PROVE  ReadKept(c) \/ ReadCalled(c)
<1> USE DEF QueueType
<1>1. CASE calls' = calls
  BY <1>1 DEF ReadKept
<1>2. ASSUME NEW kind \in CallKinds, NEW ps \in Seq(Paths), NEW w \in Writers \cup {NoWriter},
             NEW on \in Nat, NEW at \in CallStates, Call(kind, ps, w, on, at)
      PROVE  /\ UNCHANGED <<ops, state, pathTails>>
             /\ \/ ReadKept(c)
                \/ /\ kind = "readText" /\ calls'[c].paths = ps /\ calls'[c].at = at
                   /\ calls'[c].since = Len(ops) /\ calls'[c].on = on
  <2>1. PICK call : call = [kind |-> kind, paths |-> ps, writer |-> w, waits |-> ps, on |-> on,
                            previous |-> NoIndex, since |-> Len(ops), at |-> at]
    OBVIOUS
  <2>2. call \in CallRecords
    BY <2>1, NoIndexType DEF CallRecords, OpsType
  <2>3. calls' = Append(calls, call) /\ UNCHANGED <<ops, state, pathTails>>
    BY <1>2, <2>1 DEF Call
  <2>4. /\ DOMAIN calls' = DOMAIN calls \cup {Len(calls) + 1}
        /\ \A i \in DOMAIN calls : calls'[i] = calls[i]
        /\ calls'[Len(calls) + 1] = call
    BY <2>2, <2>3, AppendedList DEF CallsType
  <2>5. QED BY <2>1, <2>3, <2>4 DEF ReadKept
<1>3. \A p \in Paths : <<p>> \in Seq(Paths) /\ pathTails[p] \in Nat /\ <<p>>[1] = p
  BY DEF OpsType
<1>4. ASSUME NEW p \in Paths, NEW kind \in CallKinds, CallOn(kind, <<p>>)
      PROVE  ReadKept(c) \/ ReadCalled(c)
  <2>1. PICK on \in Nat : on = pathTails[p]
    BY <1>3
  <2>2. Call(kind, <<p>>, NoWriter, on, "awaiting")
    BY <1>3, <1>4, <2>1 DEF CallOn
  <2>3. "awaiting" \in CallStates
    BY DEF CallStates
  <2>4. /\ UNCHANGED <<ops, state, pathTails>>
        /\ \/ ReadKept(c)
           \/ /\ calls'[c].paths = <<p>> /\ calls'[c].at = "awaiting"
              /\ calls'[c].since = Len(ops) /\ calls'[c].on = on
    <3>1. /\ kind \in CallKinds /\ <<p>> \in Seq(Paths)
          /\ NoWriter \in Writers \cup {NoWriter} /\ on \in Nat
      BY <1>3, <2>1
    <3>2. QED BY ONLY <1>2, <2>2, <2>3, <3>1
  <2>5. QED BY <2>1, <2>4 DEF ReadCalled, NewRead
<1>5. ASSUME NEW p \in Paths, WriteText(p) \/ Unlink(p) \/ ReadText(p)
      PROVE  ReadKept(c) \/ ReadCalled(c)
  BY <1>4, <1>5 DEF WriteText, Unlink, ReadText, CallKinds
<1>6. ASSUME NEW src \in Paths, NEW dst \in Paths, Rename(src, dst)
      PROVE  ReadKept(c)
  <2>1. <<src, dst>> \in Seq(Paths)
    OBVIOUS
  <2>2. PICK on \in Nat : on = pathTails[src]
    BY <1>3
  <2>3. Call("rename", <<src, dst>>, NoWriter, on, "awaiting")
    BY <1>6, <2>2 DEF Rename, CallOn
  <2>4. QED BY <1>2, <2>1, <2>3 DEF CallKinds, CallStates
<1>7. ASSUME NEW w \in Writers, Flush(w)
      PROVE  ReadKept(c)
  <2>1. PICK p \in Paths : p = writers[w].path
    BY DEF WritersType
  <2>2. PICK on \in Nat : on = LastOf(w)
    BY LastOfType
  <2>3. Call("flush", <<p>>, w, on, "flushing")
    BY <1>7, <2>1, <2>2 DEF Flush
  <2>4. QED BY <1>2, <1>3, <2>3 DEF CallKinds, CallStates
<1>8. CASE Drain
  <2>1. Call("drain", <<Session>>, NoWriter, 0, "draining")
    BY <1>8 DEF Drain, None
  <2>2. QED BY <1>2, <1>3, <2>1, PathsAssumption DEF CallKinds, CallStates
<1>9. CASE DeleteSessionWithArtifacts
  BY <1>4, <1>9, PathsAssumption DEF DeleteSessionWithArtifacts, CallKinds
<1>10. ASSUME NEW w \in Writers, WriteLine(w) \/ OpenWriter(w, Session)
       PROVE  ReadKept(c)
  <2>1. calls' = calls
    BY <1>10 DEF WriteLine, OpenWriter
  <2>2. QED BY <1>1, <2>1 DEF ReadKept
<1>11. ASSUME NEW p \in Paths, WriteTextSync(p)
       PROVE  ReadKept(c)
  <2>1. calls' = calls
    BY <1>11 DEF WriteTextSync
  <2>2. QED BY <1>1, <2>1 DEF ReadKept
<1>12. QED BY <1>5, <1>6, <1>7, <1>8, <1>9, <1>10, <1>11 DEF NewCall

LEMMA CallStepRead ==
    ASSUME QueueType, NEW d \in DOMAIN calls, CallStep(d),
           NEW c \in DOMAIN calls', calls'[c].kind = "readText"
    PROVE  ReadKept(c) \/ ReadStarts(c)
<1> USE DEF QueueType
<1>1. ASSUME NEW call \in CallRecords, calls' = [calls EXCEPT ![d] = call]
      PROVE  /\ c \in DOMAIN calls
             /\ calls'[c] = IF c = d THEN call ELSE calls[c]
  BY <1>1, ChangedList DEF CallsType
<1>2. calls[d] \in CallRecords
  BY CallPaths
<1>3. CASE \E at \in CallStates : End(d, at)
  <2>1. PICK at \in CallStates : End(d, at)
    BY <1>3
  <2>2. PICK call : call = [kind |-> "drain", paths |-> << >>, writer |-> NoWriter,
                            waits |-> << >>, on |-> None, previous |-> NoIndex,
                            since |-> 0, at |-> at]
    OBVIOUS
  <2>3. call \in CallRecords /\ call.kind # "readText"
    BY <2>2, NoIndexType, EmptySeq DEF CallRecords, CallKinds, None
  <2>4. calls' = [calls EXCEPT ![d] = call]
    BY <2>1, <2>2 DEF End
  <2>5. QED BY <1>1, <2>3, <2>4 DEF ReadKept
<1>4. CASE ReadyToRead(d)
  <2>1. PICK call : call = [calls[d] EXCEPT !.at = "reading"]
    OBVIOUS
  <2>2. call \in CallRecords
    BY <1>2, <2>1 DEF CallRecords, CallStates
  <2>3. calls' = [calls EXCEPT ![d] = call]
    BY <1>4, <2>1 DEF ReadyToRead
  <2>4. QED BY <1>1, <1>4, <2>1, <2>2, <2>3 DEF ReadKept, ReadStarts
<1>5. ASSUME calls[d].kind # "readText",
             NEW call \in CallRecords, call.kind # "readText", calls' = [calls EXCEPT ![d] = call]
      PROVE  ReadKept(c)
  BY <1>1, <1>5 DEF ReadKept
<1>6. CASE Operating(d) /\ calls[d].kind # "readText"
  BY <1>6 DEF ReadKept, Operating, CallsType
<1>7. CASE ReadyToDelete(d)
  BY <1>7 DEF ReadKept, ReadyToDelete, CallsType
<1>8. CASE AwaitNext(d) /\ Len(calls[d].waits) > 1
  <2>1. CASE End(d, "threw")
    BY <1>3, <2>1 DEF CallStates
  <2>2. CASE calls' = [calls EXCEPT ![d].waits = Tail(@), ![d].on = pathTails[calls[d].waits[2]]]
    <3>1. calls[d].kind # "readText"
      <4>1. CallShape(calls[d])
        BY CallPaths
      <4>2. calls[d].kind = "readText" => Len(calls[d].waits) = 1
        BY <4>1 DEF CallShape
      <4>3. PICK n \in Nat : n = Len(calls[d].waits)
        <5>1. calls[d].waits \in Seq(Paths)
          BY CallPaths
        <5>2. QED BY <5>1
      <4>4. n > 1
        BY <1>8, <4>3
      <4>5. n # 1
        BY <4>4
      <4>6. QED BY <4>2, <4>3, <4>5
    <3>2. QED BY <2>2, <3>1 DEF ReadKept, CallsType
  <2>3. QED BY <1>8, <2>1, <2>2 DEF AwaitNext
<1>9. CASE AwaitNext(d) /\ ~(Len(calls[d].waits) > 1)
  BY <1>3, <1>9 DEF AwaitNext, CallStates
<1>10. CASE ReadyToWrite(d) \/ ReadyToRename(d) \/ ReadyToRemove(d)
  BY <1>6, <1>10 DEF ReadyToWrite, ReadyToRename, ReadyToRemove, Ready
<1>11. CASE NoSuchFile(d) \/ ReadDone(d) \/ Return(d) \/ RollBack(d) \/ FlushDone(d) \/ DrainDone(d)
  <2>1. \E at \in CallStates : End(d, at)
    BY <1>11 DEF NoSuchFile, ReadDone, Return, RollBack, FlushDone, FlushOutcome, DrainDone,
                 CallStates
  <2>2. QED BY <1>3, <2>1
<1>12. QED BY <1>4, <1>7, <1>8, <1>9, <1>10, <1>11 DEF CallStep

LEMMA ReadSteps ==
    ASSUME QueueType, [Next]_vars, NEW c \in DOMAIN calls', calls'[c].kind = "readText"
    PROVE  ReadKept(c) \/ ReadStarts(c) \/ ReadCalled(c)
<1>1. CASE NewCall
  BY <1>1, AskedRead
<1>2. ASSUME NEW k \in OpIds, OpStep(k)
      PROVE  ReadKept(c)
  BY <1>2 DEF OpStep, Succeed, MoveUntimed, Done, BackendFails, TaskThrows, Fail, ReadKept
<1>3. ASSUME NEW d \in 1..Len(calls), CallStep(d)
      PROVE  ReadKept(c) \/ ReadStarts(c)
  <2>1. d \in DOMAIN calls
    BY DEF QueueType, CallsType
  <2>2. QED BY <1>3, <2>1, CallStepRead
<1>4. CASE UNCHANGED vars
  BY <1>4 DEF ReadKept
<1>5. QED BY <1>1, <1>2, <1>3, <1>4 DEF Next

\* What the chain does to a read that waits.
LEMMA ReadWaits ==
    ASSUME ChainOk, [Next]_vars, NEW call, call.since \in Nat, ReadSafe(call)
    PROVE  ReadSafe(call)'
<1> USE DEF ChainOk, QueueType
<1>1. Len(ops) \in Nat /\ Len(ops') \in Nat
  BY DEF OpsType
<1>2. ASSUME /\ OpIds \subseteq OpIds' /\ Len(ops) <= Len(ops')
             /\ \A k \in OpIds : PathsOf(k)' = PathsOf(k) /\ (Settled(k) => Settled(k)')
      PROVE  ReadSafe(call)'
  <2>1. /\ call.at \in {"awaiting", "reading"} /\ call.since <= Len(ops')
        /\ \A k \in 1..call.since : k \in OpIds
    BY <1>1, <1>2 DEF ReadSafe, OpIds
  <2>2. ASSUME NEW k \in 1..call.since, call.paths[1] \in PathsOf(k)'
        PROVE  \/ Settled(k)'
               \/ /\ call.at = "awaiting" /\ call.on \in OpIds'
                  /\ call.paths[1] \in PathsOf(call.on)' /\ k <= call.on
    <3>1. call.paths[1] \in PathsOf(k)
      BY <1>2, <2>1, <2>2
    <3>2. CASE Settled(k)
      BY <1>2, <2>1, <3>2
    <3>3. CASE /\ call.at = "awaiting" /\ call.on \in OpIds
               /\ call.paths[1] \in PathsOf(call.on) /\ k <= call.on
      <4>1. PICK on \in OpIds : on = call.on
        BY <3>3
      <4>2. PathsOf(on)' = PathsOf(on) /\ on \in OpIds'
        BY <1>2
      <4>3. call.paths[1] \in PathsOf(on)'
        BY <3>3, <4>1, <4>2
      <4>4. QED BY <3>3, <4>1, <4>2, <4>3
    <3>4. QED BY <3>1, <3>2, <3>3 DEF ReadSafe
  <2>3. QED BY <2>1, <2>2 DEF ReadSafe
<1>3. CASE ChainGrows
  <2>1. PICK kind \in OpKinds, ps \in Seq(Paths), w \in Writers \cup {NoWriter},
             tracked \in BOOLEAN, mtime \in Nat : Enqueue(kind, ps, w, tracked, mtime)
    BY <1>3 DEF ChainGrows, Enqueued
  <2>2. Grown(Len(ops) + 1, ps, w)
    BY <2>1, GrownChain
  <2>3. OpIds \subseteq OpIds' /\ Len(ops) <= Len(ops')
    <3>1. PICK op : ops' = Append(ops, op)
      BY <2>1 DEF Enqueue
    <3>2. Len(ops') = Len(ops) + 1
      BY <3>1 DEF OpsType
    <3>3. QED BY <1>1, <3>2 DEF OpIds
  <2>4. \A k \in OpIds : ops'[k] = ops[k] /\ state'[k] = state[k]
    BY <2>2 DEF Grown
  <2>5. QED BY <1>2, <2>3, <2>4 DEF PathsOf, Settled
<1>4. CASE ChainSettles
  <2>1. PICK k \in OpIds, outcome \in {"done", "failed"} : Ends(k, outcome)
    BY <1>4 DEF ChainSettles
  <2>2. /\ ops' = ops
        /\ \A i \in OpIds : state'[i] = IF i = k THEN outcome ELSE state[i]
    BY <2>1 DEF Ends, OpIds, OpsType
  <2>3. QED BY <1>1, <1>2, <2>2 DEF OpIds, PathsOf, Settled
<1>5. CASE UNCHANGED <<ops, state, pathTails>>
  BY <1>1, <1>2, <1>5 DEF OpIds, PathsOf, Settled
<1>6. QED BY <1>3, <1>4, <1>5, StepKinds

LEMMA ReadStep == ASSUME ReadOk, [Next]_vars PROVE ReadOk'
<1> USE DEF ReadOk, ChainOk, QueueType
<1>1. ChainOk'
  BY ChainStep
<1>2. ASSUME NEW c \in DOMAIN calls', calls'[c].kind = "readText"
      PROVE  ReadSafe(calls[c])' 
  <2>1. CASE ReadKept(c)
    <3>1. PICK call : call = calls[c]
      OBVIOUS
    <3>2. call.kind = "readText" /\ c \in DOMAIN calls /\ call \in CallRecords /\ calls'[c] = call
      BY <1>2, <2>1, <3>1 DEF ReadKept, CallsType
    <3>3. ReadSafe(call)
      BY <3>1, <3>2 DEF ReadInv
    <3>4. call.since \in Nat
      BY <3>2 DEF CallRecords
    <3>5. ReadSafe(call)'
      BY <3>3, <3>4, ReadWaits
    <3>6. QED BY <3>2, <3>5 DEF ReadSafe
  <2>2. CASE ReadStarts(c)
    <3>1. /\ ReadyToRead(c) /\ c \in DOMAIN calls /\ calls[c] \in CallRecords
          /\ calls'[c] = [calls[c] EXCEPT !.at = "reading"]
          /\ UNCHANGED <<ops, state, pathTails>>
      BY <2>2 DEF ReadStarts, ReadyToRead, CallsType
    <3>2. calls[c].kind = "readText" /\ calls[c].at = "awaiting" /\ Awaited(c)
      BY <3>1 DEF ReadyToRead, Ready
    <3>3. /\ calls'[c].at = "reading" /\ calls'[c].paths = calls[c].paths
          /\ calls'[c].since = calls[c].since /\ calls[c].since \in Nat
      BY <3>1 DEF CallRecords
    <3>4. calls[c].since <= Len(ops)
      BY <3>1, <3>2 DEF ReadInv, ReadSafe
    <3>5. ASSUME NEW k \in 1..calls[c].since, calls[c].paths[1] \in PathsOf(k)
          PROVE  Settled(k)
      <4>1. k \in OpIds
        BY <3>3, <3>4 DEF OpIds, OpsType
      <4>2. CASE Settled(k)
        BY <4>2
      <4>3. CASE /\ calls[c].on \in OpIds /\ calls[c].paths[1] \in PathsOf(calls[c].on)
                 /\ k <= calls[c].on
        <5>1. PICK on \in OpIds : on = calls[c].on
          BY <4>3
        <5>2. Settled(on) /\ state[on] # "queued"
          BY <3>2, <5>1 DEF Awaited, None, Settled, OpIds
        <5>3. k = on \/ k < on
          BY <4>1, <4>3, <5>1 DEF OpIds, OpsType
        <5>4. PathsOf(k) \cap PathsOf(on) # {}
          BY <3>5, <4>3, <5>1
        <5>5. QED BY <4>1, <5>2, <5>3, <5>4, InOrder
      <4>4. QED BY <3>1, <3>2, <3>5, <4>2, <4>3 DEF ReadInv, ReadSafe
    <3>6. \A k \in 1..calls[c].since : PathsOf(k)' = PathsOf(k) /\ Settled(k)' = Settled(k)
      BY <3>1 DEF PathsOf, Settled
    <3>7. QED BY <3>1, <3>3, <3>4, <3>5, <3>6 DEF ReadSafe
  <2>3. CASE ReadCalled(c)
    <3>1. PICK p \in Paths : /\ calls'[c].paths = <<p>> /\ calls'[c].at = "awaiting"
                             /\ calls'[c].since = Len(ops) /\ calls'[c].on = pathTails[p]
      BY <2>3 DEF ReadCalled, NewRead
    <3>2. UNCHANGED <<ops, state, pathTails>> /\ Len(ops) \in Nat /\ <<p>>[1] = p
      BY <2>3 DEF ReadCalled, OpsType
    <3>3. ASSUME NEW k \in OpIds, p \in PathsOf(k), ~Settled(k)
          PROVE  pathTails[p] \in OpIds /\ p \in PathsOf(pathTails[p]) /\ k <= pathTails[p]
      <4>1. state[k] = "queued"
        BY <3>3, OpWriterType DEF Settled, OpStates
      <4>2. k <= pathTails[p] /\ k > 0 /\ pathTails[p] \in Nat
        BY <3>3, <4>1 DEF TailInv, OpIds, OpsType
      <4>3. pathTails[p] # None
        BY <4>2 DEF None, OpIds
      <4>4. QED BY <4>2, <4>3 DEF TailInv
    <3>4. (\A k : PathsOf(k)' = PathsOf(k) /\ Settled(k)' = Settled(k)) /\ OpIds' = OpIds
      BY <3>2 DEF PathsOf, Settled, OpIds
    <3>5. PICK on : on = pathTails[p]
      OBVIOUS
    <3>6. PathsOf(on)' = PathsOf(on)
      BY <3>4
    <3>7. \A k \in 1..Len(ops) : p \in PathsOf(k)' =>
             Settled(k)' \/ (on \in OpIds' /\ p \in PathsOf(on)' /\ k <= on)
      BY <3>3, <3>4, <3>5, <3>6 DEF OpIds
    <3>8. PICK call : call = calls'[c]
      OBVIOUS
    <3>9. call.paths[1] = p /\ call.at = "awaiting" /\ call.since = Len(ops) /\ call.on = on
      BY <3>1, <3>2, <3>5, <3>8
    <3>10. QED BY <3>2, <3>7, <3>8, <3>9 DEF ReadSafe
  <2>4. QED BY <1>2, <2>1, <2>2, <2>3, ReadSteps
<1>3. ReadInv'
  BY <1>2 DEF ReadInv
<1>4. QED BY <1>1, <1>3

LEMMA ReadInit == Init => ReadOk
<1>1. Init => DOMAIN calls = {}
  BY EmptySeq DEF Init
<1>2. QED BY <1>1, ChainInit DEF ReadOk, ReadInv

\* A read sees every operation that was queued on its path before it.
THEOREM ReadsCorrect == Spec => ReadsWhatWasWritten
<1>1. ASSUME ReadOk, [Next]_vars
      PROVE  \A c \in 1..Len(calls) : calls[c].at = "reading" /\ calls'[c].at # "reading" =>
                \A k \in 1..calls[c].since :
                    calls[c].paths[1] \in PathsOf(k) => Settled(k)
  <2> SUFFICES ASSUME NEW c \in 1..Len(calls), calls[c].at = "reading",
                      NEW k \in 1..calls[c].since, calls[c].paths[1] \in PathsOf(k)
               PROVE  Settled(k)
    OBVIOUS
  <2>1. c \in DOMAIN calls
    BY <1>1 DEF ReadOk, ChainOk, QueueType, CallsType
  <2>2. calls[c].kind = "readText"
    BY <1>1, <2>1 DEF ReadOk, ChainOk, QueueType, CallInv, CallShape
  <2>3. QED BY <1>1, <2>1, <2>2 DEF ReadOk, ReadInv, ReadSafe
<1>2. QED BY <1>1, ReadInit, ReadStep, PTL DEF Spec, ReadsWhatWasWritten
-----------------------------------------------------------------------------
(***************************************************************************)
(* The index.  A call changes it before its operation is sent, to what the *)
(* operation will make of the entries the call has found.  found[k] is the *)
(* index as it was when operation k was queued.                            *)
(***************************************************************************)
Files == [lines : Seq(Nat), mtime : Nat]
Indexes == [Paths -> IndexEntries]

\* What the backend would answer for a path.
EntryOf(file) == [size |-> Len(file.lines), mtime |-> file.mtime]

\* What it would answer had every rename recorded its time.
Fills(entry, p) ==
    /\ entry = NoEntry <=> content[p] = NoFile
    /\ entry.size = Len(content[p].lines)
Matches(real) ==
    /\ real \in Indexes
    /\ \A p \in Paths : /\ Fills(real[p], p)
                        /\ p \notin untimed => real[p].mtime = content[p].mtime

\* What operation op makes of the entries it found.
Post(op, found, p) ==
    CASE op.kind = "writeFull" -> [size |-> 1, mtime |-> op.mtime]
      [] op.kind = "append" -> [size |-> found[p].size + 1, mtime |-> op.mtime]
      [] op.kind = "truncate" -> [size |-> 0, mtime |-> op.mtime]
      [] op.kind = "move" -> IF p = op.paths[2] THEN found[op.paths[1]] ELSE NoEntry
      [] op.kind = "remove" -> NoEntry

\* The paths of each kind of operation; a rename takes the time of its source along.
OpShape(op) ==
    /\ op.paths # << >>
    /\ op.kind = "move" => Len(op.paths) = 2 /\ op.paths[1] # op.paths[2]
    /\ op.kind \notin {"move", "remove"} => Len(op.paths) = 1
Fits(op, found) ==
    op.kind = "move" => found[op.paths[1]] # NoEntry /\ op.mtime = found[op.paths[1]].mtime

FilesOk ==
    /\ content \in [Paths -> Files]
    /\ \A k \in OpIds : OpShape(ops[k])

LEMMA OperationType ==
    ASSUME OpsType, NEW k \in OpIds
    PROVE  /\ k \in Nat /\ k > 0 /\ ops[k] \in Operations /\ state[k] \in OpStates
           /\ ops[k].kind \in OpKinds /\ ops[k].mtime \in Nat /\ ops[k].paths \in Seq(Paths)
           /\ ops[k].tracked \in BOOLEAN
           /\ PathsOf(k) \subseteq Paths
<1>1. k \in Nat /\ k > 0 /\ ops[k] \in Operations /\ state[k] \in OpStates
  BY DEF OpsType, OpIds
<1>2. /\ ops[k].kind \in OpKinds /\ ops[k].mtime \in Nat /\ ops[k].paths \in Seq(Paths)
      /\ ops[k].tracked \in BOOLEAN
  BY <1>1 DEF Operations
<1>3. PICK ps \in Seq(Paths) : ps = ops[k].paths
  BY <1>2
<1>4. \A i \in DOMAIN ps : ps[i] \in Paths
  OBVIOUS
<1>5. PathsOf(k) \subseteq Paths
  BY <1>3, <1>4 DEF PathsOf
<1>6. QED BY <1>1, <1>2, <1>5

LEMMA PathsOne ==
    ASSUME NEW k, Len(ops[k].paths) = 1, ops[k].paths \in Seq(Paths)
    PROVE  PathsOf(k) = {ops[k].paths[1]}
<1>1. PICK ps \in Seq(Paths) : ps = ops[k].paths
  OBVIOUS
<1>2. DOMAIN ps = {1}
  BY <1>1
<1>3. QED BY <1>1, <1>2 DEF PathsOf

LEMMA PathsTwo ==
    ASSUME NEW k, Len(ops[k].paths) = 2, ops[k].paths \in Seq(Paths)
    PROVE  PathsOf(k) = {ops[k].paths[1], ops[k].paths[2]}
<1>1. PICK ps \in Seq(Paths) : ps = ops[k].paths
  OBVIOUS
<1>2. DOMAIN ps = {1, 2}
  BY <1>1
<1>3. QED BY <1>1, <1>2 DEF PathsOf

LEMMA NoFileType ==
    /\ NoFile \in Files /\ EntryOf(NoFile) = NoEntry
    /\ \A file \in Files : EntryOf(file) = NoEntry <=> file = NoFile
<1>1. << >> \in Seq(Nat) /\ Len(<< >>) = 0
  OBVIOUS
<1>2. NoFile \in Files /\ EntryOf(NoFile) = NoEntry
  BY <1>1 DEF NoFile, Files, EntryOf, NoEntry
<1>3. ASSUME NEW file \in Files, EntryOf(file) = NoEntry
      PROVE  file = NoFile
  <2>1. Len(file.lines) = 0 /\ file.mtime = 0 /\ file.lines \in Seq(Nat)
    BY <1>3 DEF EntryOf, NoEntry, Files
  <2>2. file.lines = << >>
    BY <2>1, EmptySeq
  <2>3. QED BY <2>1, <2>2 DEF Files, NoFile
<1>4. QED BY <1>2, <1>3

\* Some files are removed.
LEMMA RemovedIs ==
    ASSUME FilesOk, NEW ps, NEW n
    PROVE  /\ Removed(ps, n) \in [Paths -> Files]
           /\ \A p \in Paths : (\A i \in 1..n : ps[i] # p) => Removed(ps, n)[p] = content[p]
           /\ \A p \in Paths : (\E i \in 1..n : ps[i] = p) => Removed(ps, n)[p] = NoFile
BY NoFileType DEF Removed, FilesOk

\* One file is written.
LEMMA SetLinesIs ==
    ASSUME FilesOk, NEW p \in Paths, NEW ls \in Seq(Nat), NEW mtime \in Nat
    PROVE  /\ SetLines(p, ls, mtime) \in [Paths -> Files]
           /\ SetLines(p, ls, mtime)[p] = [lines |-> ls, mtime |-> mtime]
           /\ \A q \in Paths : q # p => SetLines(p, ls, mtime)[q] = content[q]
<1>1. [lines |-> ls, mtime |-> mtime] \in Files
  BY DEF Files
<1>2. QED BY <1>1 DEF SetLines, FilesOk

\* One file is moved.
LEMMA MovedIs ==
    ASSUME FilesOk, NEW src \in Paths, NEW dst \in Paths, src # dst, NEW mtime \in Nat,
           NEW moved, moved = Moved(src, dst, mtime)
    PROVE  /\ moved \in [Paths -> Files]
           /\ \A p \in Paths : p # src /\ p # dst => moved[p] = content[p]
           /\ content[src] # NoFile =>
                 /\ moved[src] = NoFile
                 /\ moved[dst] = [lines |-> content[src].lines, mtime |-> mtime]
<1>1. content[src] \in Files
  BY DEF FilesOk
<1>2. PICK f : f = [lines |-> content[src].lines, mtime |-> mtime]
  OBVIOUS
<1>3. f \in Files
  BY <1>1, <1>2 DEF Files
<1>4. CASE content[src] = NoFile
  <2>1. moved = Removed(<<dst>>, 1)
    BY <1>4 DEF Moved
  <2>2. \A p : p # dst => \A i \in 1..1 : <<dst>>[i] # p
    OBVIOUS
  <2>3. QED BY <1>4, <2>1, <2>2, RemovedIs
<1>5. CASE content[src] # NoFile
  <2>1. moved = [content EXCEPT ![dst] = f, ![src] = NoFile]
    BY <1>2, <1>5 DEF Moved
  <2>2. QED BY <1>2, <1>3, <2>1, NoFileType DEF FilesOk
<1>6. QED BY <1>4, <1>5

\* An operation makes of the files what Post says.
LEMMA AppliedIs ==
    ASSUME OpsType, FilesOk, NEW k \in OpIds
    PROVE  /\ Applied(k) \in [Paths -> Files]
           /\ \A p \in Paths \ PathsOf(k) : Applied(k)[p] = content[p]
           /\ \A found \in Indexes :
                 Fits(ops[k], found) /\ (\A p \in PathsOf(k) : Fills(found[p], p))
                 => \A p \in PathsOf(k) : EntryOf(Applied(k)[p]) = Post(ops[k], found, p)
<1>1. PICK op : op = ops[k]
  OBVIOUS
<1>2. /\ op \in Operations /\ op.kind \in OpKinds /\ op.mtime \in Nat
      /\ op.paths \in Seq(Paths) /\ PathsOf(k) \subseteq Paths /\ OpShape(op) /\ k \in Nat
  BY <1>1, OperationType DEF FilesOk
<1>3. PICK p1 : p1 = op.paths[1]
  OBVIOUS
<1>4. p1 \in Paths
  BY <1>2, <1>3, EmptySeq DEF OpShape
<1>5. content[p1] \in Files /\ content[p1].lines \in Seq(Nat)
  BY <1>4 DEF FilesOk, Files
<1>6. ASSUME NEW ls \in Seq(Nat), Applied(k) = SetLines(p1, ls, op.mtime),
             op.kind \notin {"move", "remove"},
             \A found : Fills(found[p1], p1) =>
                 Post(op, found, p1) = [size |-> Len(ls), mtime |-> op.mtime]
      PROVE  /\ Applied(k) \in [Paths -> Files]
             /\ \A p \in Paths \ PathsOf(k) : Applied(k)[p] = content[p]
             /\ \A found : Fits(op, found) /\ (\A p \in PathsOf(k) : Fills(found[p], p))
                   => \A p \in PathsOf(k) : EntryOf(Applied(k)[p]) = Post(op, found, p)
  <2>1. PathsOf(k) = {p1}
    BY <1>1, <1>2, <1>3, <1>6, PathsOne DEF OpShape
  <2>2. /\ Applied(k) \in [Paths -> Files]
        /\ Applied(k)[p1] = [lines |-> ls, mtime |-> op.mtime]
        /\ \A q \in Paths : q # p1 => Applied(k)[q] = content[q]
    BY <1>2, <1>4, <1>6, SetLinesIs
  <2>3. EntryOf(Applied(k)[p1]) = [size |-> Len(ls), mtime |-> op.mtime]
    BY <2>2 DEF EntryOf
  <2>4. QED BY <1>6, <2>1, <2>2, <2>3
<1>7. CASE op.kind = "writeFull"
  <2>1. <<k>> \in Seq(Nat) /\ Len(<<k>>) = 1
    BY <1>2
  <2>2. Applied(k) = SetLines(p1, <<k>>, op.mtime)
    BY <1>1, <1>3, <1>7 DEF Applied
  <2>3. \A found : Post(op, found, p1) = [size |-> 1, mtime |-> op.mtime]
    BY <1>7 DEF Post
  <2>4. QED BY <1>1, <1>6, <1>7, <2>1, <2>2, <2>3
<1>8. CASE op.kind = "append"
  <2>1. PICK ls : ls = Append(content[p1].lines, k)
    OBVIOUS
  <2>2. ls \in Seq(Nat) /\ Len(ls) = Len(content[p1].lines) + 1
    BY <1>2, <1>5, <2>1, AppendedList
  <2>3. Applied(k) = SetLines(p1, ls, op.mtime)
    BY <1>1, <1>3, <1>8, <2>1 DEF Applied
  <2>4. ASSUME NEW found, Fills(found[p1], p1)
        PROVE  Post(op, found, p1) = [size |-> Len(ls), mtime |-> op.mtime]
    <3>1. found[p1].size = Len(content[p1].lines)
      BY <2>4 DEF Fills
    <3>2. Post(op, found, p1) = [size |-> found[p1].size + 1, mtime |-> op.mtime]
      BY <1>8 DEF Post
    <3>3. QED BY <2>2, <3>1, <3>2
  <2>5. QED BY <1>1, <1>6, <1>8, <2>2, <2>3, <2>4
<1>9. CASE op.kind = "truncate"
  <2>1. << >> \in Seq(Nat) /\ Len(<< >>) = 0
    OBVIOUS
  <2>2. Applied(k) = SetLines(p1, << >>, op.mtime)
    BY <1>1, <1>3, <1>9 DEF Applied
  <2>3. \A found : Post(op, found, p1) = [size |-> 0, mtime |-> op.mtime]
    BY <1>9 DEF Post
  <2>4. QED BY <1>1, <1>6, <1>9, <2>1, <2>2, <2>3
<1>10. CASE op.kind = "move"
  <2>1. PICK p2 : p2 = op.paths[2]
    OBVIOUS
  <2>2. Len(op.paths) = 2 /\ p1 # p2 /\ p2 \in Paths
    <3>1. Len(op.paths) = 2 /\ p1 # p2
      BY <1>2, <1>3, <1>10, <2>1 DEF OpShape
    <3>2. 2 \in 1..Len(op.paths)
      BY <3>1
    <3>3. QED BY <1>2, <2>1, <3>1, <3>2, ElementOfSeq
  <2>3. PathsOf(k) = {p1, p2}
    BY <1>1, <1>2, <1>3, <2>1, <2>2, PathsTwo
  <2>4. Applied(k) = Moved(p1, p2, op.mtime)
    BY <1>1, <1>3, <1>10, <2>1 DEF Applied
  <2>5. /\ Applied(k) \in [Paths -> Files]
        /\ \A p \in Paths : p # p1 /\ p # p2 => Applied(k)[p] = content[p]
        /\ content[p1] # NoFile =>
              /\ Applied(k)[p1] = NoFile
              /\ Applied(k)[p2] = [lines |-> content[p1].lines, mtime |-> op.mtime]
    BY <1>2, <1>4, <2>2, <2>4, MovedIs
  <2>6. /\ Applied(k) \in [Paths -> Files]
        /\ \A p \in Paths \ PathsOf(k) : Applied(k)[p] = content[p]
    BY <2>3, <2>5
  <2>7. ASSUME NEW found \in Indexes, Fits(op, found), \A p \in PathsOf(k) : Fills(found[p], p)
        PROVE  \A p \in PathsOf(k) : EntryOf(Applied(k)[p]) = Post(op, found, p)
    <3>1. /\ found[p1] # NoEntry /\ op.mtime = found[p1].mtime
          /\ Fills(found[p1], p1)
      BY <1>3, <1>10, <2>3, <2>7 DEF Fits
    <3>2. content[p1] # NoFile
      BY <3>1 DEF Fills
    <3>3. /\ Applied(k)[p1] = NoFile
          /\ Applied(k)[p2] = [lines |-> content[p1].lines, mtime |-> op.mtime]
      BY <2>5, <3>2
    <3>4. EntryOf(Applied(k)[p1]) = NoEntry /\ EntryOf(Applied(k)[p2]) = found[p1]
      BY <1>4, <3>1, <3>3, NoFileType DEF EntryOf, Fills, Indexes, IndexEntries
    <3>5. Post(op, found, p1) = NoEntry /\ Post(op, found, p2) = found[p1]
      BY <1>3, <1>10, <2>1, <2>2 DEF Post
    <3>6. QED BY <2>3, <3>4, <3>5
  <2>8. QED BY <1>1, <2>6, <2>7
<1>11. CASE op.kind = "remove"
  <2>1. PICK ps \in Seq(Paths) : ps = op.paths
    BY <1>2
  <2>2. Applied(k) = Removed(ps, Len(ps))
    BY <1>1, <1>11, <2>1 DEF Applied
  <2>3. PathsOf(k) = {ps[i] : i \in 1..Len(ps)}
    BY <1>1, <2>1 DEF PathsOf
  <2>4. /\ Applied(k) \in [Paths -> Files]
        /\ \A p \in Paths \ PathsOf(k) : Applied(k)[p] = content[p]
        /\ \A p \in PathsOf(k) : Applied(k)[p] = NoFile
    BY <1>2, <2>2, <2>3, RemovedIs
  <2>5. \A found, p : Post(op, found, p) = NoEntry
    BY <1>11 DEF Post
  <2>6. QED BY <1>1, <2>4, <2>5, NoFileType
<1>12. QED BY <1>2, <1>7, <1>8, <1>9, <1>10, <1>11 DEF OpKinds

\* A rename that does not record the time.
LEMMA UntimedIs ==
    ASSUME OpsType, FilesOk, NEW k \in OpIds, ops[k].kind = "move", ~Refused(k),
           NEW src, NEW dst, src = ops[k].paths[1], dst = ops[k].paths[2],
           NEW moved, moved = Moved(src, dst, OldTime(dst))
    PROVE  /\ moved \in [Paths -> Files] /\ PathsOf(k) = {src, dst} /\ src # dst
           /\ \A p \in Paths \ PathsOf(k) : moved[p] = content[p]
           /\ moved[src] = NoFile /\ moved[dst] # NoFile
           /\ moved[dst].lines = content[src].lines /\ content[src] # NoFile
<1>1. ops[k].paths \in Seq(Paths) /\ Len(ops[k].paths) = 2 /\ src # dst /\ PathsOf(k) \subseteq Paths
  BY OperationType DEF FilesOk, OpShape
<1>2. PathsOf(k) = {src, dst}
  BY <1>1, PathsTwo
<1>3. src \in Paths /\ dst \in Paths /\ content[src] # NoFile
  BY <1>1, <1>2 DEF Refused
<1>4. content[dst] \in Files /\ content[src] \in Files
  BY <1>3 DEF FilesOk
<1>5. OldTime(dst) \in Nat /\ OldTime(dst) # 0
  BY <1>4, PathsAssumption DEF OldTime, Files, NoFile
<1>6. /\ moved \in [Paths -> Files]
      /\ \A p \in Paths : p # src /\ p # dst => moved[p] = content[p]
      /\ moved[src] = NoFile
      /\ moved[dst] = [lines |-> content[src].lines, mtime |-> OldTime(dst)]
  BY <1>1, <1>3, <1>5, MovedIs
<1>7. moved[dst] # NoFile /\ moved[dst].lines = content[src].lines
  BY <1>5, <1>6 DEF NoFile
<1>8. QED BY <1>1, <1>2, <1>3, <1>6, <1>7

\* However much of it was done, what a failed operation leaves are files.
LEMMA HalfwayType ==
    ASSUME OpsType, FilesOk, NEW k \in OpIds, NEW left \in FailedHalfway(k)
    PROVE  left \in [Paths -> Files]
<1>1. content \in [Paths -> Files] /\ Applied(k) \in [Paths -> Files]
  BY AppliedIs DEF FilesOk
<1>2. \A ps, n : Removed(ps, n) \in [Paths -> Files]
  BY RemovedIs
<1>3. PICK p : p = ops[k].paths[1]
  OBVIOUS
<1>4. p \in Paths
  BY <1>3, OperationType, EmptySeq DEF FilesOk, OpShape
<1>5. content[p] \in Files /\ Applied(k)[p] \in Files
  BY <1>1, <1>4
<1>6. OldTime(p) \in Nat /\ Applied(k)[p].lines \in Seq(Nat)
  BY <1>5, PathsAssumption DEF OldTime, Files
<1>7. SetLines(p, Applied(k)[p].lines, OldTime(p)) \in [Paths -> Files]
  BY <1>4, <1>6, SetLinesIs
<1>8. \/ left \in {content, Removed(<<ops[k].paths[2]>>, 1)}
      \/ left \in {Removed(ops[k].paths, n) : n \in 0..Len(ops[k].paths)}
      \/ left \in {content, SetLines(p, Applied(k)[p].lines, OldTime(p))}
  BY <1>3 DEF FailedHalfway
<1>9. QED BY <1>1, <1>2, <1>7, <1>8
-----------------------------------------------------------------------------
(***************************************************************************)
(* Every step puts an operation in the chain, which the index tells at     *)
(* once, ends one, takes back what a failed one left in the index, or is   *)
(* none of the index's business.                                           *)
(***************************************************************************)
Busy(c) == c \in DOMAIN calls /\ calls[c].at = "operating"

Puts(op) ==
    /\ op \in Operations /\ OpShape(op) /\ Fits(op, index)
    /\ ops' = Append(ops, op) /\ state' = Append(state, "queued")
    /\ UNCHANGED <<content, untimed, clobbered>>
    /\ \A p \in Paths : index'[p] = IF \E i \in DOMAIN op.paths : op.paths[i] = p
                                    THEN Post(op, index, p) ELSE index[p]

\* The operation is one that the next drain tells of, or a call's.
Tracks(op) == op.tracked /\ calls' = calls
Serves(op, c) ==
    /\ c \in DOMAIN calls /\ ~Busy(c) /\ Busy(c)' /\ ~op.tracked
    /\ calls'[c].on = Len(ops) + 1 /\ calls'[c].paths = op.paths /\ calls'[c].previous = index
    /\ calls'[c].kind = "deleteAll" => op.kind = "remove"
    /\ \A d : d # c => (Busy(d)' <=> Busy(d)) /\ (Busy(d) => calls'[d] = calls[d])

Succeeds(k) ==
    /\ Ends(k, "done")
    /\ UNCHANGED <<index, calls, clobbered>>
    /\ \/ content' = Applied(k) /\ untimed' = untimed \ PathsOf(k)
       \/ /\ ops[k].kind = "move" /\ ~Refused(k)
          /\ content' = Moved(ops[k].paths[1], ops[k].paths[2], OldTime(ops[k].paths[2]))
          /\ untimed' = (untimed \ {ops[k].paths[1]}) \cup {ops[k].paths[2]}
Fails(k) ==
    /\ Ends(k, "failed") /\ content' \in [Paths -> Files]
    /\ UNCHANGED <<index, calls, untimed>>
    /\ clobbered => clobbered'
    /\ ~clobbered' => ~ops[k].tracked /\ content' = content

Undoes(c) ==
    /\ Busy(c) /\ state[calls[c].on] = "failed"
    /\ UNCHANGED <<content, ops, state, untimed>>
    /\ index' = [p \in Paths |-> IF p \in TakenBack(c) THEN calls[c].previous[p] ELSE index[p]]
    /\ clobbered' = (clobbered \/ \E k \in OpIds : k > calls[c].on
                                      /\ PathsOf(k) \cap PathsOf(calls[c].on) # {})
    /\ \A d : (Busy(d)' <=> Busy(d) /\ d # c) /\ (Busy(d) /\ d # c => calls'[d] = calls[d])

CallsKept ==
    \A d : /\ Busy(d)' => Busy(d) /\ calls'[d] = calls[d]
           /\ Busy(d) => state[calls[d].on] = "done" \/ (Busy(d)' /\ calls'[d] = calls[d])
Elsewhere == UNCHANGED <<index, content, ops, state, untimed, clobbered>> /\ CallsKept

IndexStep ==
    \/ \E op : Puts(op) /\ (Tracks(op) \/ \E c : Serves(op, c))
    \/ \E k \in OpIds : Succeeds(k) \/ Fails(k)
    \/ \E c : Undoes(c)
    \/ Elsewhere

\* A write of one path.
LEMMA PutsOne ==
    ASSUME OpsType, CallsType,
           NEW kind \in {"writeFull", "append", "truncate"}, NEW p \in Paths, NEW size \in Nat,
           NEW w \in Writers \cup {NoWriter}, NEW tracked \in BOOLEAN,
           Enqueue(kind, <<p>>, w, tracked, Now), SetIndex(p, size),
           UNCHANGED <<content, untimed, clobbered>>,
           kind = "writeFull" => size = 1,
           kind = "append" => size = index[p].size + 1,
           kind = "truncate" => size = 0
    PROVE  \E op : Puts(op) /\ op.tracked = tracked /\ op.paths = <<p>> /\ op.kind = kind
<1>1. PICK op : op = [kind |-> kind, paths |-> <<p>>, writer |-> w, tracked |-> tracked,
                      mtime |-> Now, after |-> Previous(<<p>>)]
  OBVIOUS
<1>2. PICK ps \in Seq(Paths) :
          ps = <<p>> /\ Len(ps) = 1 /\ ps # << >> /\ DOMAIN ps = {1} /\ ps[1] = p
  <2>1. /\ <<p>> \in Seq(Paths) /\ Len(<<p>>) = 1 /\ <<p>> # << >>
        /\ DOMAIN <<p>> = {1} /\ <<p>>[1] = p
    OBVIOUS
  <2>2. QED BY <2>1
<1>3. Previous(ps) \in SUBSET Nat
  BY <1>2 DEF Previous, OpsType
<1>4. op \in Operations
  BY <1>1, <1>2, <1>3, NowType DEF Operations, OpKinds
<1>5. OpShape(op) /\ Fits(op, index)
  BY <1>1, <1>2 DEF OpShape, Fits
<1>6. ops' = Append(ops, op) /\ state' = Append(state, "queued")
  BY <1>1 DEF Enqueue
<1>7. Post(op, index, p) = [size |-> size, mtime |-> Now]
  BY <1>1 DEF Post
<1>8. \A q \in Paths : index'[q] = IF q = p THEN [size |-> size, mtime |-> Now] ELSE index[q]
  BY DEF SetIndex, CallsType
<1>9. \A q : (\E i \in DOMAIN op.paths : op.paths[i] = q) <=> q = p
  BY <1>1, <1>2
<1>10. Puts(op)
  BY <1>4, <1>5, <1>6, <1>7, <1>8, <1>9 DEF Puts
<1>11. QED BY <1>1, <1>10

\* A rename.
LEMMA PutsMove ==
    ASSUME OpsType, CallsType, NEW src \in Paths, NEW dst \in Paths, src # dst,
           index[src] # NoEntry,
           Enqueue("move", <<src, dst>>, NoWriter, FALSE, index[src].mtime),
           index' = [index EXCEPT ![src] = NoEntry, ![dst] = index[src]],
           UNCHANGED <<content, untimed, clobbered>>
    PROVE  \E op : Puts(op) /\ ~op.tracked /\ op.paths = <<src, dst>> /\ op.kind = "move"
<1>1. PICK op : op = [kind |-> "move", paths |-> <<src, dst>>, writer |-> NoWriter,
                      tracked |-> FALSE, mtime |-> index[src].mtime, after |-> Previous(<<src, dst>>)]
  OBVIOUS
<1>2. PICK ps \in Seq(Paths) : /\ ps = <<src, dst>> /\ Len(ps) = 2
                               /\ ps # << >> /\ DOMAIN ps = {1, 2} /\ ps[1] = src /\ ps[2] = dst
  <2>1. /\ <<src, dst>> \in Seq(Paths) /\ Len(<<src, dst>>) = 2 /\ <<src, dst>> # << >>
        /\ DOMAIN <<src, dst>> = {1, 2} /\ <<src, dst>>[1] = src /\ <<src, dst>>[2] = dst
    OBVIOUS
  <2>2. QED BY <2>1
<1>3. Previous(ps) \in SUBSET Nat
  BY <1>2 DEF Previous, OpsType
<1>4. index[src].mtime \in Nat /\ index \in [Paths -> IndexEntries]
  BY DEF CallsType, IndexEntries
<1>5. op \in Operations
  BY <1>1, <1>2, <1>3, <1>4 DEF Operations, OpKinds
<1>6. OpShape(op) /\ Fits(op, index)
  BY <1>1, <1>2 DEF OpShape, Fits
<1>7. ops' = Append(ops, op) /\ state' = Append(state, "queued")
  BY <1>1 DEF Enqueue
<1>8. Post(op, index, src) = NoEntry /\ Post(op, index, dst) = index[src]
  BY <1>1, <1>2 DEF Post
<1>9. \A q \in Paths :
          index'[q] = IF q = dst THEN index[src] ELSE IF q = src THEN NoEntry ELSE index[q]
  BY <1>4
<1>10. \A q : (\E i \in DOMAIN op.paths : op.paths[i] = q) <=> q \in {src, dst}
  BY <1>1, <1>2
<1>11. \A q \in Paths : index'[q] = IF \E i \in DOMAIN op.paths : op.paths[i] = q
                                    THEN Post(op, index, q) ELSE index[q]
  BY <1>8, <1>9, <1>10
<1>12. Puts(op)
  BY <1>5, <1>6, <1>7, <1>11 DEF Puts
<1>13. QED BY <1>1, <1>12

\* The removal of one path or several.
LEMMA PutsRemove ==
    ASSUME OpsType, CallsType, NEW ps \in Seq(Paths), ps # << >>,
           Enqueue("remove", ps, NoWriter, FALSE, Now),
           index' = [p \in Paths |-> IF \E i \in DOMAIN ps : ps[i] = p THEN NoEntry ELSE index[p]],
           UNCHANGED <<content, untimed, clobbered>>
    PROVE  \E op : Puts(op) /\ ~op.tracked /\ op.paths = ps /\ op.kind = "remove"
<1>1. PICK op : op = [kind |-> "remove", paths |-> ps, writer |-> NoWriter, tracked |-> FALSE,
                      mtime |-> Now, after |-> Previous(ps)]
  OBVIOUS
<1>2. Previous(ps) \in SUBSET Nat
  <2>1. \A i \in DOMAIN ps : ps[i] \in Paths
    OBVIOUS
  <2>2. QED BY <2>1 DEF Previous, OpsType
<1>3. op \in Operations
  BY <1>1, <1>2, NowType DEF Operations, OpKinds
<1>4. OpShape(op) /\ Fits(op, index)
  BY <1>1 DEF OpShape, Fits
<1>5. ops' = Append(ops, op) /\ state' = Append(state, "queued")
  BY <1>1 DEF Enqueue
<1>6. \A q : Post(op, index, q) = NoEntry
  BY <1>1 DEF Post
<1>7. \A q \in Paths : index'[q] = IF \E i \in DOMAIN op.paths : op.paths[i] = q
                                   THEN Post(op, index, q) ELSE index[q]
  BY <1>1, <1>6
<1>8. Puts(op)
  BY <1>3, <1>4, <1>5, <1>7 DEF Puts
<1>9. QED BY <1>1, <1>8

\* A call that is not or no longer at its operation: what becomes of it.
LEMMA KeptByAdding ==
    ASSUME CallsType, NEW call \in CallRecords, call.at # "operating", calls' = Append(calls, call)
    PROVE  CallsKept
<1>1. /\ DOMAIN calls' = DOMAIN calls \cup {Len(calls) + 1}
      /\ Len(calls) + 1 \notin DOMAIN calls
      /\ \A i \in DOMAIN calls : calls'[i] = calls[i]
      /\ calls'[Len(calls) + 1] = call
  BY AppendedList DEF CallsType
<1>2. QED BY <1>1 DEF CallsKept, Busy

LEMMA KeptByChanging ==
    ASSUME CallsType, NEW c \in DOMAIN calls, NEW call, call.at # "operating",
           calls' = [calls EXCEPT ![c] = call],
           calls[c].at = "operating" => state[calls[c].on] = "done"
    PROVE  CallsKept
<1>1. /\ DOMAIN calls' = DOMAIN calls
      /\ \A i \in DOMAIN calls : calls'[i] = IF i = c THEN call ELSE calls[i]
  BY DEF CallsType
<1>2. QED BY <1>1 DEF CallsKept, Busy

\* What is asked of the storage.
LEMMA AskedElsewhere ==
    ASSUME QueueType, NEW kind \in CallKinds, NEW ps \in Seq(Paths),
           NEW w \in Writers \cup {NoWriter}, NEW on \in Nat, NEW at \in {"awaiting", "flushing", "draining"},
           Call(kind, ps, w, on, at)
    PROVE  Elsewhere
<1>1. PICK call : call = [kind |-> kind, paths |-> ps, writer |-> w, waits |-> ps, on |-> on,
                          previous |-> NoIndex, since |-> Len(ops), at |-> at]
  OBVIOUS
<1>2. call \in CallRecords
  BY <1>1, NoIndexType DEF CallRecords, CallStates, QueueType, OpsType
<1>3. calls' = Append(calls, call) /\ UNCHANGED <<index, content, ops, state, untimed, clobbered>>
  BY <1>1 DEF Call
<1>4. call.at # "operating"
  BY <1>1
<1>5. QED BY <1>2, <1>3, <1>4, KeptByAdding DEF Elsewhere, QueueType

LEMMA NewCallIndex ==
    ASSUME QueueType, NewCall
    PROVE  IndexStep
<1> USE DEF QueueType
<1>1. ASSUME NEW p \in Paths, WriteTextSync(p) PROVE IndexStep
  <2>1. /\ SetIndex(p, 1) /\ Enqueue("writeFull", <<p>>, NoWriter, TRUE, Now)
        /\ UNCHANGED <<content, untimed, clobbered>> /\ calls' = calls
    BY <1>1 DEF WriteTextSync
  <2>2. \E op : Puts(op) /\ op.tracked = TRUE
    BY <2>1, PutsOne
  <2>3. QED BY <2>1, <2>2 DEF IndexStep, Tracks
<1>2. ASSUME NEW w \in Writers, OpenWriter(w, Session) PROVE IndexStep
  <2>1. UNCHANGED <<content, calls, untimed, clobbered>>
    BY <1>2 DEF OpenWriter
  <2>2. CASE UNCHANGED <<index, ops, state, pathTails, writes>>
    BY <2>1, <2>2 DEF IndexStep, Elsewhere, CallsKept, Busy
  <2>3. CASE SetIndex(Session, 0) /\ Enqueue("truncate", <<Session>>, w, TRUE, Now)
    <3>1. \E op : Puts(op) /\ op.tracked = TRUE
      BY <2>1, <2>3, PutsOne, PathsAssumption
    <3>2. QED BY <2>1, <3>1 DEF IndexStep, Tracks
  <2>4. QED BY <1>2, <2>2, <2>3 DEF OpenWriter
<1>3. ASSUME NEW w \in Writers, WriteLine(w) PROVE IndexStep
  <2>1. PICK p \in Paths : p = writers[w].path
    BY DEF WritersType
  <2>2. PICK size \in Nat : size = index[p].size + 1
    BY DEF CallsType, IndexEntries
  <2>3. /\ SetIndex(p, size) /\ Enqueue("append", <<p>>, w, TRUE, Now)
        /\ UNCHANGED <<content, untimed, clobbered>> /\ calls' = calls
    BY <1>3, <2>1, <2>2 DEF WriteLine
  <2>4. \E op : Puts(op) /\ op.tracked = TRUE
    BY <2>2, <2>3, PutsOne
  <2>5. QED BY <2>3, <2>4 DEF IndexStep, Tracks
<1>4. ASSUME NEW kind \in CallKinds, NEW ps \in Seq(Paths), ps # << >>, CallOn(kind, ps)
      PROVE  IndexStep
  <2>1. ps[1] \in Paths
    BY <1>4, EmptySeq
  <2>2. PICK on \in Nat : on = pathTails[ps[1]]
    BY <2>1 DEF OpsType
  <2>3. Call(kind, ps, NoWriter, on, "awaiting")
    BY <1>4, <2>2 DEF CallOn
  <2>4. QED BY <2>3, AskedElsewhere DEF IndexStep
<1>5. \A p \in Paths : <<p>> \in Seq(Paths) /\ <<p>> # << >>
  OBVIOUS
<1>6. ASSUME NEW p \in Paths, WriteText(p) \/ Unlink(p) \/ ReadText(p) PROVE IndexStep
  BY <1>4, <1>5, <1>6 DEF WriteText, Unlink, ReadText, CallKinds
<1>7. ASSUME NEW src \in Paths, NEW dst \in Paths, Rename(src, dst) PROVE IndexStep
  <2>1. <<src, dst>> \in Seq(Paths) /\ <<src, dst>> # << >>
    OBVIOUS
  <2>2. QED BY <1>4, <1>7, <2>1 DEF Rename, CallKinds
<1>8. CASE DeleteSessionWithArtifacts
  BY <1>4, <1>5, <1>8, PathsAssumption DEF DeleteSessionWithArtifacts, CallKinds
<1>9. ASSUME NEW w \in Writers, Flush(w) PROVE IndexStep
  <2>1. PICK p \in Paths : p = writers[w].path
    BY DEF WritersType
  <2>2. PICK on \in Nat : on = LastOf(w)
    BY LastOfType
  <2>3. Call("flush", <<p>>, w, on, "flushing")
    BY <1>9, <2>1, <2>2 DEF Flush
  <2>4. QED BY <1>5, <2>3, AskedElsewhere DEF CallKinds, IndexStep
<1>10. CASE Drain
  <2>1. Call("drain", <<Session>>, NoWriter, 0, "draining")
    BY <1>10 DEF Drain, None
  <2>2. QED BY <1>5, <2>1, AskedElsewhere, PathsAssumption DEF CallKinds, IndexStep
<1>11. QED BY <1>1, <1>2, <1>3, <1>6, <1>7, <1>8, <1>9, <1>10 DEF NewCall

LEMMA OpStepIndex ==
    ASSUME QueueType, FilesOk, NEW k \in OpIds, OpStep(k)
    PROVE  IndexStep
<1>1. CASE Succeed(k) \/ MoveUntimed(k)
  <2>1. Succeeds(k)
    BY <1>1 DEF Succeed, MoveUntimed, Done, Succeeds, Ends
  <2>2. QED BY <2>1 DEF IndexStep
<1>2. CASE BackendFails(k)
  <2>1. content' \in [Paths -> Files]
    <3>1. CASE content' = content
      BY <3>1 DEF FilesOk
    <3>2. CASE content' \in FailedHalfway(k)
      BY <3>2, HalfwayType DEF QueueType
    <3>3. QED BY <1>2, <3>1, <3>2 DEF BackendFails
  <2>2. Ends(k, "failed") /\ UNCHANGED <<index, calls, untimed>>
    BY <1>2 DEF BackendFails, Fail, Ends
  <2>3. clobbered' = (clobbered \/ ops[k].tracked \/ content' # content)
    BY <1>2 DEF BackendFails
  <2>4. Fails(k)
    BY <2>1, <2>2, <2>3 DEF Fails
  <2>5. QED BY <2>4 DEF IndexStep
<1>3. CASE TaskThrows(k)
  <2>1. /\ Ends(k, "failed") /\ UNCHANGED <<index, calls, content, untimed>> /\ clobbered' = TRUE
    BY <1>3 DEF TaskThrows, Fail, Ends
  <2>2. Fails(k)
    BY <2>1 DEF Fails, FilesOk
  <2>3. QED BY <2>2 DEF IndexStep
<1>4. QED BY <1>1, <1>2, <1>3 DEF OpStep

\* The call whose operation was put in the chain.
LEMMA ServesIt ==
    ASSUME QueueType, NEW c \in DOMAIN calls, Operating(c), calls[c].at = "awaiting",
           NEW op, ~op.tracked, op.paths = calls[c].paths,
           calls[c].kind = "deleteAll" => op.kind = "remove"
    PROVE  Serves(op, c)
<1>1. calls[c] \in CallRecords
  BY CallPaths
<1>2. PICK call : call = [calls[c] EXCEPT !.at = "operating", !.on = Len(ops) + 1,
                                         !.previous = index]
  OBVIOUS
<1>3. /\ call.at = "operating" /\ call.on = Len(ops) + 1 /\ call.previous = index
      /\ call.paths = calls[c].paths /\ call.kind = calls[c].kind
  BY <1>1, <1>2 DEF CallRecords
<1>4. calls' = [calls EXCEPT ![c] = call]
  BY <1>2 DEF Operating
<1>5. /\ DOMAIN calls' = DOMAIN calls
      /\ \A i \in DOMAIN calls : calls'[i] = IF i = c THEN call ELSE calls[i]
  BY <1>4 DEF QueueType, CallsType
<1>6. QED BY <1>3, <1>5 DEF Serves, Busy

\* The operation of a call is over.
LEMMA KeptByEnding ==
    ASSUME QueueType, NEW c \in DOMAIN calls, NEW at \in {"returned", "threw"}, End(c, at),
           calls[c].at = "operating" => state[calls[c].on] = "done"
    PROVE  CallsKept
<1>1. PICK over : over = [kind |-> "drain", paths |-> << >>, writer |-> NoWriter,
                          waits |-> << >>, on |-> None, previous |-> NoIndex,
                          since |-> 0, at |-> at]
  OBVIOUS
<1>2. calls' = [calls EXCEPT ![c] = over] /\ over.at # "operating"
  BY <1>1 DEF End
<1>3. QED BY <1>2, KeptByChanging DEF QueueType

LEMMA CallStepIndex ==
    ASSUME QueueType, NEW c \in DOMAIN calls, CallStep(c)
    PROVE  IndexStep
<1> USE DEF QueueType
<1>1. /\ calls[c] \in CallRecords /\ CallShape(calls[c]) /\ calls[c].paths \in Seq(Paths)
      /\ calls[c].at = "awaiting" => calls[c].paths # << >> /\ calls[c].paths[1] \in Paths
      /\ calls[c].at = "awaiting" /\ calls[c].kind = "rename" => calls[c].paths[2] \in Paths
  BY CallPaths
<1>2. CASE ReadyToWrite(c)
  <2>1. PICK p \in Paths : p = calls[c].paths[1]
    BY <1>1, <1>2 DEF ReadyToWrite, Ready
  <2>2. /\ SetIndex(p, 1) /\ Enqueue("writeFull", <<p>>, NoWriter, FALSE, Now)
        /\ UNCHANGED <<content, untimed, clobbered>> /\ Operating(c)
        /\ calls[c].at = "awaiting" /\ calls[c].kind = "writeText"
    BY <1>2, <2>1 DEF ReadyToWrite, Ready
  <2>3. \E op : Puts(op) /\ op.tracked = FALSE /\ op.paths = <<p>> /\ op.kind = "writeFull"
    BY <2>2, PutsOne
  <2>4. calls[c].paths = <<p>>
    <3>1. PICK ps \in Seq(Paths) : ps = calls[c].paths
      BY <1>1
    <3>2. Len(ps) = 1
      BY <1>1, <2>2, <3>1 DEF CallShape
    <3>3. ps = <<p>>
      BY <2>1, <3>1, <3>2
    <3>4. QED BY <3>1, <3>3
  <2>5. PICK op : Puts(op) /\ op.tracked = FALSE /\ op.paths = <<p>>
    BY <2>3
  <2>6. QED BY <2>2, <2>4, <2>5, ServesIt DEF IndexStep
<1>3. CASE ReadyToRename(c)
  <2>1. PICK src \in Paths, dst \in Paths : src = calls[c].paths[1] /\ dst = calls[c].paths[2]
    BY <1>1, <1>3 DEF ReadyToRename, Ready
  <2>2. /\ index' = [index EXCEPT ![src] = NoEntry, ![dst] = index[src]] /\ index[src] # NoEntry
        /\ Enqueue("move", <<src, dst>>, NoWriter, FALSE, index[src].mtime)
        /\ UNCHANGED <<content, untimed, clobbered>> /\ Operating(c)
        /\ calls[c].at = "awaiting" /\ calls[c].kind = "rename"
    BY <1>3, <2>1 DEF ReadyToRename, Ready
  <2>3. src # dst /\ Len(calls[c].paths) = 2
    BY <1>1, <2>1, <2>2 DEF CallShape
  <2>4. PICK op : Puts(op) /\ ~op.tracked /\ op.paths = <<src, dst>>
    BY <2>2, <2>3, PutsMove
  <2>5. calls[c].paths = <<src, dst>>
    <3>1. PICK ps \in Seq(Paths) : ps = calls[c].paths
      BY <1>1
    <3>2. ps = <<src, dst>>
      BY <2>1, <2>3, <3>1
    <3>3. QED BY <3>1, <3>2
  <2>6. QED BY <2>2, <2>4, <2>5, ServesIt DEF IndexStep
<1>4. CASE ReadyToRemove(c)
  <2>1. PICK ps \in Seq(Paths) : ps = calls[c].paths
    BY <1>1
  <2>2. /\ index' = [p \in Paths |-> IF \E i \in DOMAIN ps : ps[i] = p THEN NoEntry ELSE index[p]]
        /\ Enqueue("remove", ps, NoWriter, FALSE, Now)
        /\ UNCHANGED <<content, untimed, clobbered>> /\ Operating(c) /\ calls[c].at = "awaiting"
    BY <1>4, <2>1 DEF ReadyToRemove, Ready
  <2>3. ps # << >>
    BY <1>1, <2>1, <2>2
  <2>4. PICK op : Puts(op) /\ ~op.tracked /\ op.paths = ps /\ op.kind = "remove"
    BY <2>2, <2>3, PutsRemove
  <2>5. QED BY <2>1, <2>2, <2>4, ServesIt DEF IndexStep
<1>5. CASE RollBack(c)
  <2>1. /\ Busy(c) /\ state[calls[c].on] = "failed" /\ End(c, "threw")
    BY <1>5 DEF RollBack, Busy
  <2>2. PICK over : over = [kind |-> "drain", paths |-> << >>, writer |-> NoWriter,
                            waits |-> << >>, on |-> None, previous |-> NoIndex,
                            since |-> 0, at |-> "threw"]
    OBVIOUS
  <2>3. calls' = [calls EXCEPT ![c] = over] /\ over.at = "threw"
    BY <2>1, <2>2 DEF End
  <2>4. /\ DOMAIN calls' = DOMAIN calls
        /\ \A i \in DOMAIN calls : calls'[i] = IF i = c THEN over ELSE calls[i]
    BY <2>3 DEF CallsType
  <2>5. \A d : (Busy(d)' <=> Busy(d) /\ d # c) /\ (Busy(d) /\ d # c => calls'[d] = calls[d])
    BY <2>3, <2>4 DEF Busy
  <2>6. Undoes(c)
    BY <1>5, <2>1, <2>5 DEF RollBack, Undoes
  <2>7. QED BY <2>6 DEF IndexStep
<1>6. ASSUME UNCHANGED <<index, content, ops, state, untimed, clobbered>>, CallsKept PROVE IndexStep
  BY <1>6 DEF IndexStep, Elsewhere
<1>7. CASE AwaitNext(c)
  <2>1. CASE End(c, "threw")
    BY <1>6, <1>7, <2>1, KeptByEnding DEF AwaitNext
  <2>2. CASE calls' = [calls EXCEPT ![c].waits = Tail(@), ![c].on = pathTails[calls[c].waits[2]]]
    <3>1. PICK call : call = [calls[c] EXCEPT !.waits = Tail(calls[c].waits),
                                              !.on = pathTails[calls[c].waits[2]]]
      OBVIOUS
    <3>2. call.at = calls[c].at /\ calls' = [calls EXCEPT ![c] = call]
      BY <1>1, <2>2, <3>1 DEF CallRecords
    <3>3. CallsKept
      BY <1>7, <3>2, KeptByChanging DEF AwaitNext
    <3>4. QED BY <1>6, <1>7, <3>3 DEF AwaitNext
  <2>3. QED BY <1>7, <2>1, <2>2 DEF AwaitNext
<1>8. CASE ReadyToDelete(c)
  <2>1. PICK ps, on : calls' = [calls EXCEPT ![c].kind = "deleteAll", ![c].paths = ps,
                                             ![c].waits = ps, ![c].on = on]
    BY <1>8 DEF ReadyToDelete
  <2>2. PICK call : call = [calls[c] EXCEPT !.kind = "deleteAll", !.paths = ps, !.waits = ps,
                                            !.on = on]
    OBVIOUS
  <2>3. call.at = calls[c].at /\ calls' = [calls EXCEPT ![c] = call]
    BY <1>1, <2>1, <2>2 DEF CallRecords
  <2>4. CallsKept
    BY <1>8, <2>3, KeptByChanging DEF ReadyToDelete, Ready
  <2>5. QED BY <1>6, <1>8, <2>4 DEF ReadyToDelete
<1>9. CASE ReadyToRead(c)
  <2>1. PICK call : call = [calls[c] EXCEPT !.at = "reading"]
    OBVIOUS
  <2>2. call.at # "operating" /\ calls' = [calls EXCEPT ![c] = call] /\ calls[c].at = "awaiting"
    BY <1>1, <1>9, <2>1 DEF CallRecords, ReadyToRead, Ready
  <2>3. CallsKept
    BY <2>2, KeptByChanging
  <2>4. QED BY <1>6, <1>9, <2>3 DEF ReadyToRead
<1>10. CASE NoSuchFile(c) \/ ReadDone(c) \/ Return(c) \/ FlushDone(c) \/ DrainDone(c)
  <2>1. \E at \in {"returned", "threw"} : End(c, at)
    BY <1>10 DEF NoSuchFile, ReadDone, Return, FlushDone, FlushOutcome, DrainDone
  <2>2. calls[c].at = "operating" => state[calls[c].on] = "done"
    BY <1>10 DEF NoSuchFile, Ready, ReadDone, Return, FlushDone, DrainDone
  <2>3. CallsKept
    BY <2>1, <2>2, KeptByEnding
  <2>4. QED BY <1>6, <1>10, <2>3 DEF NoSuchFile, ReadDone, Return, FlushDone, DrainDone
<1>11. QED BY <1>2, <1>3, <1>4, <1>5, <1>7, <1>8, <1>9, <1>10 DEF CallStep

LEMMA IndexSteps ==
    ASSUME QueueType, FilesOk, [Next]_vars
    PROVE  IndexStep
<1>1. ASSUME NEW c \in 1..Len(calls), CallStep(c)
      PROVE  IndexStep
  <2>1. c \in DOMAIN calls
    BY DEF QueueType, CallsType
  <2>2. QED BY <1>1, <2>1, CallStepIndex
<1>2. CASE UNCHANGED vars
  BY <1>2 DEF IndexStep, Elsewhere, CallsKept, Busy
<1>3. QED BY <1>1, <1>2, NewCallIndex, OpStepIndex DEF Next
-----------------------------------------------------------------------------
(***************************************************************************)
(* The calls at their operations.                                          *)
(***************************************************************************)
\* A call that operates has one operation to itself, and an operation that no
\* drain tells of has a call that will see it through.
CallsInv ==
    /\ \A c : Busy(c) =>
          /\ calls[c].on \in OpIds /\ ops[calls[c].on].paths = calls[c].paths
          /\ ~ops[calls[c].on].tracked
          /\ calls[c].kind = "deleteAll" => ops[calls[c].on].kind = "remove"
    /\ \A c, d : Busy(c) /\ Busy(d) /\ calls[c].on = calls[d].on => c = d
    /\ \A k \in OpIds : state[k] = "queued" /\ ~ops[k].tracked =>
          \E c : Busy(c) /\ calls[c].on = k

\* A call whose operation has failed, on a path, and which has not seen it yet.
Failing(c) == Busy(c) /\ state[calls[c].on] = "failed"
Touches(c, p) == Failing(c) /\ p \in PathsOf(calls[c].on)

\* Somebody went on from what the call is going to take back.
Overtaken(c) ==
    /\ Failing(c)
    /\ \E k \in OpIds : k > calls[c].on /\ PathsOf(k) \cap PathsOf(calls[c].on) # {}
Doomed == \E c : Overtaken(c)

\* The chain with op at its end.
LEMMA PutChain ==
    ASSUME OpsType, NEW op, Puts(op), NEW n, n = Len(ops) + 1
    PROVE  /\ n \in Nat \ {0} /\ OpIds' = OpIds \cup {n} /\ n \notin OpIds /\ Len(ops') = n
           /\ \A k \in OpIds : /\ k \in Nat /\ k > 0 /\ k < n /\ ops'[k] = ops[k]
                               /\ state'[k] = state[k] /\ PathsOf(k)' = PathsOf(k)
           /\ ops'[n] = op /\ state'[n] = "queued"
           /\ PathsOf(n)' = {op.paths[i] : i \in DOMAIN op.paths}
           /\ PathsOf(n)' \subseteq Paths
<1>1. /\ op \in Operations /\ ops' = Append(ops, op) /\ state' = Append(state, "queued")
      /\ op.paths \in Seq(Paths)
  BY DEF Puts, Operations
<1>2. Len(ops) \in Nat /\ Len(state) = Len(ops)
  BY DEF OpsType
<1>3. Len(ops') = Len(ops) + 1 /\ (\A k \in 1..Len(ops) : ops'[k] = ops[k]) /\ ops'[n] = op
  BY <1>1, AppendedList DEF OpsType
<1>4. (\A k \in 1..Len(ops) : state'[k] = state[k]) /\ state'[n] = "queued"
  BY <1>1, <1>2 DEF OpsType
<1>5. OpIds' = OpIds \cup {n} /\ n \notin OpIds /\ n \in Nat \ {0}
  BY <1>2, <1>3 DEF OpIds
<1>6. \A k \in OpIds : /\ k \in Nat /\ k > 0 /\ k < n /\ ops'[k] = ops[k]
                       /\ state'[k] = state[k] /\ PathsOf(k)' = PathsOf(k)
  BY <1>2, <1>3, <1>4 DEF OpIds, PathsOf
<1>7. PathsOf(n)' = {op.paths[i] : i \in DOMAIN op.paths}
  BY <1>3 DEF PathsOf
<1>8. \A i \in DOMAIN op.paths : op.paths[i] \in Paths
  BY <1>1
<1>9. QED BY <1>2, <1>3, <1>4, <1>5, <1>6, <1>7, <1>8

\* What ends one operation.
LEMMA EndedChain ==
    ASSUME OpsType, NEW k \in OpIds, NEW outcome \in {"done", "failed"}, Ends(k, outcome)
    PROVE  /\ OpIds' = OpIds /\ ops' = ops /\ Len(ops') = Len(ops)
           /\ \A j \in OpIds : state'[j] = IF j = k THEN outcome ELSE state[j]
           /\ \A j : PathsOf(j)' = PathsOf(j)
           /\ state[k] = "queued" /\ Sent(k)
BY DEF Ends, Sent, OpsType, OpIds, PathsOf

LEMMA CallsInvStep ==
    ASSUME OpsType, CallsInv, IndexStep
    PROVE  CallsInv'
<1>1. ASSUME NEW op, Puts(op), Tracks(op) PROVE CallsInv'
  <2>1. PICK n : n = Len(ops) + 1
    OBVIOUS
  <2>2. /\ OpIds' = OpIds \cup {n} /\ n \notin OpIds /\ ops'[n] = op
        /\ \A k \in OpIds : ops'[k] = ops[k] /\ state'[k] = state[k]
    BY <1>1, <2>1, PutChain
  <2>3. calls' = calls /\ op.tracked /\ \A c : Busy(c)' = Busy(c)
    BY <1>1 DEF Tracks, Busy
  <2>4. QED BY <2>2, <2>3 DEF CallsInv
<1>2. ASSUME NEW op, Puts(op), NEW c, Serves(op, c) PROVE CallsInv'
  <2>1. PICK n : n = Len(ops) + 1
    OBVIOUS
  <2>2. /\ OpIds' = OpIds \cup {n} /\ n \notin OpIds /\ ops'[n] = op
        /\ \A k \in OpIds : ops'[k] = ops[k] /\ state'[k] = state[k]
    BY <1>2, <2>1, PutChain
  <2>3. /\ ~Busy(c) /\ Busy(c)' /\ ~op.tracked
        /\ calls'[c].on = n /\ calls'[c].paths = op.paths
        /\ calls'[c].kind = "deleteAll" => op.kind = "remove"
        /\ \A d : d # c => (Busy(d)' <=> Busy(d)) /\ (Busy(d) => calls'[d] = calls[d])
    BY <1>2, <2>1 DEF Serves
  <2>4. ASSUME NEW d, Busy(d)'
        PROVE  /\ calls'[d].on \in OpIds' /\ ops'[calls'[d].on].paths = calls'[d].paths
               /\ ~ops'[calls'[d].on].tracked
               /\ calls'[d].kind = "deleteAll" => ops'[calls'[d].on].kind = "remove"
               /\ d # c => Busy(d) /\ calls'[d] = calls[d] /\ calls'[d].on \in OpIds
    <3>1. CASE d = c
      BY <2>2, <2>3, <3>1
    <3>2. CASE d # c
      BY <2>2, <2>3, <2>4, <3>2 DEF CallsInv
    <3>3. QED BY <3>1, <3>2
  <2>5. ASSUME NEW d, NEW e, Busy(d)', Busy(e)', calls'[d].on = calls'[e].on
        PROVE  d = e
    BY <2>2, <2>3, <2>4, <2>5 DEF CallsInv
  <2>6. ASSUME NEW k \in OpIds', state'[k] = "queued", ~ops'[k].tracked
        PROVE  \E d : Busy(d)' /\ calls'[d].on = k
    <3>1. CASE k = n
      BY <2>3, <3>1
    <3>2. CASE k # n
      BY <2>2, <2>3, <2>6, <3>2 DEF CallsInv
    <3>3. QED BY <3>1, <3>2
  <2>7. QED BY <2>4, <2>5, <2>6 DEF CallsInv
<1>3. ASSUME NEW k \in OpIds, Succeeds(k) \/ Fails(k) PROVE CallsInv'
  <2>1. PICK outcome \in {"done", "failed"} : Ends(k, outcome)
    BY <1>3 DEF Succeeds, Fails
  <2>2. /\ OpIds' = OpIds /\ ops' = ops
        /\ \A j \in OpIds : state'[j] = "queued" => state[j] = "queued"
    BY <2>1, EndedChain
  <2>3. calls' = calls /\ \A c : Busy(c)' = Busy(c)
    BY <1>3 DEF Succeeds, Fails, Busy
  <2>4. QED BY <2>2, <2>3 DEF CallsInv
<1>4. ASSUME NEW c, Undoes(c) PROVE CallsInv'
  <2>1. /\ ops' = ops /\ state' = state /\ OpIds' = OpIds /\ state[calls[c].on] = "failed"
        /\ \A d : (Busy(d)' <=> Busy(d) /\ d # c) /\ (Busy(d) /\ d # c => calls'[d] = calls[d])
    BY <1>4 DEF Undoes, OpIds
  <2>2. QED BY <2>1 DEF CallsInv
<1>5. CASE Elsewhere
  <2>1. ops' = ops /\ state' = state /\ OpIds' = OpIds
    BY <1>5 DEF Elsewhere, OpIds
  <2>2. \A d : /\ Busy(d)' => Busy(d) /\ calls'[d] = calls[d]
               /\ Busy(d) => state[calls[d].on] = "done" \/ (Busy(d)' /\ calls'[d] = calls[d])
    BY <1>5 DEF Elsewhere, CallsKept
  <2>3. QED BY <2>1, <2>2 DEF CallsInv
<1>6. QED BY <1>1, <1>2, <1>3, <1>4, <1>5 DEF IndexStep

LEMMA FilesStep ==
    ASSUME OpsType, FilesOk, IndexStep
    PROVE  FilesOk'
<1>1. ASSUME NEW op, Puts(op) PROVE FilesOk'
  <2>1. PICK n : n = Len(ops) + 1
    OBVIOUS
  <2>2. /\ OpIds' = OpIds \cup {n} /\ ops'[n] = op /\ \A k \in OpIds : ops'[k] = ops[k]
    BY <1>1, <2>1, PutChain
  <2>3. content' = content /\ OpShape(op)
    BY <1>1 DEF Puts
  <2>4. QED BY <2>2, <2>3 DEF FilesOk
<1>2. ASSUME NEW k \in OpIds, Succeeds(k) \/ Fails(k) PROVE FilesOk'
  <2>1. content' \in [Paths -> Files]
    BY <1>2, AppliedIs, UntimedIs DEF Succeeds, Fails
  <2>2. ops' = ops
    BY <1>2 DEF Succeeds, Fails, Ends
  <2>3. QED BY <2>1, <2>2 DEF FilesOk, OpIds
<1>3. ASSUME NEW c, Undoes(c) \/ Elsewhere PROVE FilesOk'
  BY <1>3 DEF Undoes, Elsewhere, FilesOk, OpIds
<1>4. QED BY <1>1, <1>2, <1>3 DEF IndexStep

\* Nobody helps a call that is overtaken: it takes back too little or too much.
LEMMA OvertakenStep ==
    ASSUME OpsType, CallsInv, IndexStep, NEW c, Overtaken(c)
    PROVE  clobbered' \/ Overtaken(c)'
<1>1. PICK f : f = calls[c].on
  OBVIOUS
<1>2. Busy(c) /\ f \in OpIds /\ state[f] = "failed"
  BY <1>1 DEF Overtaken, Failing, CallsInv
<1>3. PICK k \in OpIds : k > f /\ PathsOf(k) \cap PathsOf(f) # {}
  BY <1>1 DEF Overtaken
<1>4. ASSUME Busy(c)', calls'[c] = calls[c], OpIds \subseteq OpIds', state'[f] = "failed",
             PathsOf(k)' = PathsOf(k), PathsOf(f)' = PathsOf(f)
      PROVE  Overtaken(c)'
  <2>1. calls'[c].on = f
    BY <1>1, <1>4
  <2>2. k > f /\ PathsOf(k)' \cap PathsOf(f)' # {} /\ k \in OpIds'
    BY <1>3, <1>4
  <2>3. Failing(c)'
    BY <1>4, <2>1 DEF Failing
  <2>4. PathsOf(calls[c].on)' = PathsOf(f)'
    BY <2>1 DEF PathsOf
  <2>5. \E i \in OpIds' : i > calls'[c].on /\ PathsOf(i)' \cap PathsOf(calls[c].on)' # {}
    BY <2>1, <2>2, <2>4
  <2>6. QED BY <2>3, <2>5 DEF Overtaken
<1>5. ASSUME NEW op, Puts(op), Tracks(op) \/ \E d : Serves(op, d) PROVE Overtaken(c)'
  <2>1. /\ OpIds \subseteq OpIds'
        /\ \A j \in OpIds : state'[j] = state[j] /\ PathsOf(j)' = PathsOf(j)
    BY <1>5, PutChain
  <2>2. Busy(c)' /\ calls'[c] = calls[c]
    BY <1>2, <1>5 DEF Tracks, Serves, Busy
  <2>3. QED BY <1>2, <1>4, <2>1, <2>2
<1>6. ASSUME NEW j \in OpIds, Succeeds(j) \/ Fails(j) PROVE Overtaken(c)'
  <2>1. PICK outcome \in {"done", "failed"} : Ends(j, outcome)
    BY <1>6 DEF Succeeds, Fails
  <2>2. /\ OpIds' = OpIds /\ state[j] = "queued"
        /\ \A i \in OpIds : state'[i] = IF i = j THEN outcome ELSE state[i]
        /\ \A i : PathsOf(i)' = PathsOf(i)
    BY <2>1, EndedChain
  <2>3. Busy(c)' /\ calls'[c] = calls[c]
    BY <1>2, <1>6 DEF Succeeds, Fails, Busy
  <2>4. QED BY <1>2, <1>4, <2>2, <2>3
<1>7. ASSUME NEW d, Undoes(d) PROVE clobbered' \/ Overtaken(c)'
  <2>1. CASE d = c
    BY <1>1, <1>3, <1>7, <2>1 DEF Undoes
  <2>2. CASE d # c
    <3>1. OpIds' = OpIds /\ state' = state /\ \A i : PathsOf(i)' = PathsOf(i)
      BY <1>7 DEF Undoes, OpIds, PathsOf
    <3>2. Busy(c)' /\ calls'[c] = calls[c]
      BY <1>2, <1>7, <2>2 DEF Undoes
    <3>3. QED BY <1>2, <1>4, <3>1, <3>2
  <2>3. QED BY <2>1, <2>2
<1>8. CASE Elsewhere
  <2>1. OpIds' = OpIds /\ state' = state /\ \A i : PathsOf(i)' = PathsOf(i)
    BY <1>8 DEF Elsewhere, OpIds, PathsOf
  <2>2. Busy(c)' /\ calls'[c] = calls[c]
    BY <1>1, <1>2, <1>8 DEF Elsewhere, CallsKept
  <2>3. QED BY <1>2, <1>4, <2>1, <2>2
<1>9. QED BY <1>5, <1>6, <1>7, <1>8 DEF IndexStep
-----------------------------------------------------------------------------
(***************************************************************************)
(* What the entries of the index are.                                      *)
(***************************************************************************)
\* Operation k waits on path p; it is the last one to do so before number n.
Waits(k, p) == k \in OpIds /\ state[k] = "queued" /\ p \in PathsOf(k)
Latest(j, n, p) == Waits(j, p) /\ j < n /\ \A i : Waits(i, p) /\ i < n => i <= j

\* e is what path p will have when all operations before number n are through.
Comes(n, p, e, found, real) ==
    /\ \A j : Latest(j, n, p) => e = Post(ops[j], found[j], p)
    /\ (\A j : Waits(j, p) => ~(j < n)) => e = real[p]

\* Each operation will find what the index said when it was queued.
FindsIt(found, real) ==
    \A k \in OpIds : state[k] = "queued" =>
        /\ Fits(ops[k], found[k])
        /\ \A p \in PathsOf(k) : Comes(k, p, found[k][p], found, real)

\* The index is what will be there when all operations are through; a path
\* whose entry is about to be taken back is the exception.
TellsIt(found, real) ==
    \A p \in Paths : (\A c : ~Touches(c, p)) => Comes(Len(ops) + 1, p, index[p], found, real)

\* What a call takes back is what the backend has.
TakesBack(real) ==
    \A c, p : Touches(c, p) =>
        /\ calls[c].previous[p] = real[p]
        /\ calls[c].kind = "deleteAll" => index[p] = NoEntry

Remembers(found) ==
    \A c : Busy(c) /\ state[calls[c].on] = "queued" => calls[c].previous = found[calls[c].on]

Agreed(found, real) == FindsIt(found, real) /\ TellsIt(found, real) /\ TakesBack(real) /\ Remembers(found)

\* An operation that is sent is the first one on its paths.
LEMMA FirstOnPath ==
    ASSUME OpsType, ChainInv, NEW k \in OpIds, Sent(k), NEW p \in PathsOf(k), NEW j, Waits(j, p)
    PROVE  ~(j < k)
<1>1. j \in OpIds /\ state[j] = "queued" /\ PathsOf(j) \cap PathsOf(k) # {}
  BY DEF Waits
<1>2. ASSUME j < k PROVE FALSE
  <2>1. Settled(j)
    BY <1>1, <1>2, InOrder
  <2>2. QED BY <1>1, <2>1 DEF Settled
<1>3. QED BY <1>2

\* Nobody waits on a path that a call has yet to take back, or it is overtaken.
LEMMA NobodyWaits ==
    ASSUME OpsType, ChainInv, CallsInv, NEW c, NEW p, Touches(c, p), ~Overtaken(c), NEW j
    PROVE  ~Waits(j, p)
<1>1. SUFFICES ASSUME Waits(j, p) PROVE FALSE
  OBVIOUS
<1>2. PICK f : f = calls[c].on
  OBVIOUS
<1>3. f \in OpIds /\ state[f] = "failed" /\ p \in PathsOf(f) /\ Failing(c)
  BY <1>2 DEF Touches, Failing, CallsInv
<1>4. j \in OpIds /\ state[j] = "queued" /\ p \in PathsOf(j)
  BY <1>1 DEF Waits
<1>5. j \in Nat /\ f \in Nat /\ j # f
  BY <1>3, <1>4, OperationType
<1>6. CASE j < f
  <2>1. Settled(j)
    BY <1>3, <1>4, <1>6, InOrder
  <2>2. QED BY <1>4, <2>1 DEF Settled
<1>7. CASE j > f
  BY <1>2, <1>3, <1>4, <1>7 DEF Overtaken
<1>8. QED BY <1>5, <1>6, <1>7

LEMMA OneTouches ==
    ASSUME OpsType, CallsInv, NEW c, NEW d, NEW p, Touches(c, p), Touches(d, p),
           ~Overtaken(c), ~Overtaken(d)
    PROVE  c = d
<1>1. PICK f, g : f = calls[c].on /\ g = calls[d].on
  OBVIOUS
<1>2. /\ f \in OpIds /\ g \in OpIds /\ p \in PathsOf(f) /\ p \in PathsOf(g)
      /\ Failing(c) /\ Failing(d) /\ Busy(c) /\ Busy(d)
  BY <1>1 DEF Touches, Failing, CallsInv
<1>3. f \in Nat /\ g \in Nat
  BY <1>2, OperationType
<1>4. ~(f > g) /\ ~(g > f)
  BY <1>1, <1>2 DEF Overtaken
<1>5. f = g
  BY <1>3, <1>4
<1>6. QED BY <1>1, <1>2, <1>5 DEF CallsInv

\* One more operation, which found the index as it is.
LEMMA PutAgrees ==
    ASSUME OpsType, CallsType, ChainInv, CallsInv, CallsInv', NEW found \in Seq(Indexes), NEW real,
           Len(found) = Len(ops), Agreed(found, real),
           NEW op, Puts(op), Tracks(op) \/ \E c : Serves(op, c), ~Doomed',
           NEW found2, found2 = Append(found, index)
    PROVE  found2 \in Seq(Indexes) /\ Len(found2) = Len(ops') /\ Agreed(found2, real)'
<1>1. PICK n : n = Len(ops) + 1
  OBVIOUS
<1>2. found2 = Append(found, index)
  OBVIOUS
<1>3. /\ n \in Nat \ {0} /\ OpIds' = OpIds \cup {n} /\ n \notin OpIds /\ Len(ops') = n
      /\ \A k \in OpIds : /\ k \in Nat /\ k > 0 /\ k < n /\ ops'[k] = ops[k]
                          /\ state'[k] = state[k] /\ PathsOf(k)' = PathsOf(k)
      /\ ops'[n] = op /\ state'[n] = "queued"
      /\ PathsOf(n)' = {op.paths[i] : i \in DOMAIN op.paths}
      /\ PathsOf(n)' \subseteq Paths
  BY <1>1, PutChain
<1>4. /\ found2 \in Seq(Indexes) /\ Len(found2) = n /\ found2[n] = index
      /\ \A k \in OpIds : found2[k] = found[k]
  <2>1. index \in Indexes /\ DOMAIN found = OpIds
    BY DEF CallsType, Indexes, OpIds
  <2>2. QED BY <1>1, <1>2, <2>1, AppendedList
<1>6. ASSUME NEW c
      PROVE  /\ Busy(c) => Busy(c)' /\ calls'[c] = calls[c]
             /\ Busy(c)' => \/ Busy(c)
                            \/ calls'[c].on = n /\ calls'[c].previous = index
  BY <1>1 DEF Tracks, Serves, Busy
<1>7. ASSUME NEW c, NEW p
      PROVE  Touches(c, p)' <=> Touches(c, p)
  <2>1. CASE Busy(c)
    <3>1. PICK f : f = calls[c].on
      OBVIOUS
    <3>2. calls'[c].on = f /\ Busy(c)' /\ f \in OpIds
      BY <1>6, <2>1, <3>1 DEF CallsInv
    <3>3. state'[f] = state[f] /\ PathsOf(f)' = PathsOf(f)
      BY <1>3, <3>2
    <3>4. Touches(c, p) <=> state[f] = "failed" /\ p \in PathsOf(f)
      BY <2>1, <3>1 DEF Touches, Failing
    <3>5. Touches(c, p)' <=> state'[f] = "failed" /\ p \in PathsOf(f)'
      BY <3>2 DEF Touches, Failing, PathsOf
    <3>6. QED BY <3>3, <3>4, <3>5
  <2>2. CASE ~Busy(c)
    <3>1. ~Touches(c, p)
      BY <2>2 DEF Touches, Failing
    <3>2. ~Touches(c, p)'
      BY <1>3, <1>6, <2>2 DEF Touches, Failing
    <3>3. QED BY <3>1, <3>2
  <2>3. QED BY <2>1, <2>2
<1>8. ASSUME NEW c, NEW p, Touches(c, p) PROVE p \notin PathsOf(n)'
  <2>1. Touches(c, p)'
    BY <1>7, <1>8
  <2>2. ~Overtaken(c)'
    BY DEF Doomed
  <2>3. PICK f : f = calls'[c].on
    OBVIOUS
  <2>4. f \in OpIds
    BY <1>6, <1>8, <2>3 DEF Touches, Failing, CallsInv
  <2>5. p \in PathsOf(f)' /\ Failing(c)'
    BY <2>1, <2>3 DEF Touches, Failing, PathsOf
  <2>6. n > f /\ n \in OpIds'
    BY <1>3, <2>4
  <2>7. QED BY <2>2, <2>3, <2>5, <2>6 DEF Overtaken, PathsOf
<1>9. \A k, p : Waits(k, p)' <=> Waits(k, p) \/ (k = n /\ p \in PathsOf(n)')
  BY <1>3 DEF Waits
<1>10. \A k, p : Waits(k, p) => k \in OpIds /\ k \in Nat /\ k < n
  BY <1>3 DEF Waits
<1>11. ASSUME NEW m \in Nat, m <= n, NEW p, NEW e, Comes(m, p, e, found, real)
       PROVE  Comes(m, p, e, found2, real)'
  <2>1. \A i : Waits(i, p)' /\ i < m <=> Waits(i, p) /\ i < m
    BY <1>3, <1>9, <1>11
  <2>2. ASSUME NEW j, Latest(j, m, p)' PROVE e = Post(ops'[j], found2[j], p)
    <3>1. Latest(j, m, p)
      BY <2>1, <2>2 DEF Latest
    <3>2. ops'[j] = ops[j] /\ found2[j] = found[j]
      BY <1>3, <1>4, <3>1 DEF Latest, Waits
    <3>3. QED BY <1>11, <3>1, <3>2 DEF Comes
  <2>3. ASSUME \A j : Waits(j, p)' => ~(j < m) PROVE e = real[p]
    <3>1. \A j : Waits(j, p) => ~(j < m)
      BY <2>1, <2>3
    <3>2. QED BY <1>11, <3>1 DEF Comes
  <2>4. QED BY <2>2, <2>3 DEF Comes
<1>12. FindsIt(found2, real)'
  <2>1. ASSUME NEW k \in OpIds', state'[k] = "queued"
        PROVE  /\ Fits(ops'[k], found2[k])
               /\ \A p \in PathsOf(k)' : Comes(k, p, found2[k][p], found2, real)'
    <3>1. CASE k = n
      <4>1. Fits(ops'[k], found2[k])
        BY <1>3, <1>4, <3>1 DEF Puts
      <4>2. ASSUME NEW p \in PathsOf(n)' PROVE Comes(n, p, found2[n][p], found2, real)'
        <5>1. p \in Paths /\ \A c : ~Touches(c, p)
          BY <1>3, <1>8, <4>2
        <5>2. PICK e : e = index[p]
          OBVIOUS
        <5>3. Comes(n, p, e, found, real)
          BY <1>1, <5>1, <5>2 DEF Agreed, TellsIt
        <5>4. Comes(n, p, e, found2, real)'
          BY <1>3, <1>11, <5>3
        <5>5. e = found2[n][p]
          BY <1>4, <5>2
        <5>6. QED BY <5>4, <5>5
      <4>3. QED BY <1>4, <3>1, <4>1, <4>2
    <3>2. CASE k \in OpIds
      <4>1. state[k] = "queued" /\ ops'[k] = ops[k] /\ found2[k] = found[k]
            /\ PathsOf(k)' = PathsOf(k) /\ k \in Nat /\ k <= n
        BY <1>3, <1>4, <2>1, <3>2
      <4>2. Fits(ops[k], found[k]) /\ \A p \in PathsOf(k) : Comes(k, p, found[k][p], found, real)
        BY <3>2, <4>1 DEF Agreed, FindsIt
      <4>3. QED BY <1>11, <4>1, <4>2
    <3>3. QED BY <1>3, <3>1, <3>2
  <2>2. QED BY <2>1 DEF FindsIt
<1>13. TellsIt(found2, real)'
  <2>1. ASSUME NEW p \in Paths, \A c : ~Touches(c, p)', NEW e, e = index'[p]
        PROVE  Comes(n + 1, p, e, found2, real)'
    <3>1. Comes(n, p, index[p], found, real)
      BY <1>1, <1>7, <2>1 DEF Agreed, TellsIt
    <3>2. CASE p \in PathsOf(n)'
      <4>1. Waits(n, p)' /\ n < n + 1
        BY <1>3, <1>9, <3>2
      <4>2. ASSUME NEW j, Latest(j, n + 1, p)' PROVE j = n
        <5>1. Waits(j, p)' /\ n <= j /\ j < n + 1
          BY <4>1, <4>2 DEF Latest
        <5>2. QED BY <1>3, <1>9, <1>10, <5>1
      <4>3. e = Post(op, index, p)
        BY <1>3, <2>1, <3>2 DEF Puts
      <4>4. \A j : Latest(j, n + 1, p)' => e = Post(ops'[j], found2[j], p)
        BY <1>3, <1>4, <4>2, <4>3
      <4>5. QED BY <4>1, <4>4 DEF Comes
    <3>3. CASE p \notin PathsOf(n)'
      <4>1. e = index[p]
        BY <1>3, <2>1, <3>3 DEF Puts
      <4>2. \A i : Waits(i, p)' <=> Waits(i, p)
        BY <1>9, <3>3
      <4>3. \A i : Waits(i, p) => i < n /\ i < n + 1
        BY <1>3, <1>10
      <4>4. ASSUME NEW j, Latest(j, n + 1, p)' PROVE e = Post(ops'[j], found2[j], p)
        <5>1. Latest(j, n, p)
          BY <4>2, <4>3, <4>4 DEF Latest
        <5>2. ops'[j] = ops[j] /\ found2[j] = found[j]
          BY <1>3, <1>4, <5>1 DEF Latest, Waits
        <5>3. QED BY <3>1, <4>1, <5>1, <5>2 DEF Comes
      <4>5. ASSUME \A j : Waits(j, p)' => ~(j < n + 1) PROVE e = real[p]
        <5>1. \A j : Waits(j, p) => ~(j < n)
          BY <4>2, <4>3, <4>5
        <5>2. QED BY <3>1, <4>1, <5>1 DEF Comes
      <4>6. QED BY <4>4, <4>5 DEF Comes
    <3>4. QED BY <3>2, <3>3
  <2>2. ASSUME NEW p \in Paths, \A c : ~Touches(c, p)'
        PROVE  Comes(Len(ops) + 1, p, index[p], found2, real)'
    <3>1. PICK e : e = index'[p]
      OBVIOUS
    <3>2. Comes(n + 1, p, e, found2, real)'
      BY <2>1, <2>2, <3>1
    <3>3. QED BY <1>3, <3>1, <3>2 DEF Comes, Latest
  <2>3. QED BY <2>2 DEF TellsIt
<1>14. TakesBack(real)'
  <2>1. ASSUME NEW c, NEW p, Touches(c, p)'
        PROVE  /\ calls'[c].previous[p] = real[p]
               /\ calls'[c].kind = "deleteAll" => index'[p] = NoEntry
    <3>1. Touches(c, p) /\ p \notin PathsOf(n)'
      BY <1>7, <1>8, <2>1
    <3>2. calls'[c] = calls[c] /\ p \in Paths
      BY <1>6, <3>1, OperationType DEF Touches, Failing, CallsInv
    <3>3. index'[p] = index[p]
      BY <1>3, <3>1, <3>2 DEF Puts
    <3>4. QED BY <3>1, <3>2, <3>3 DEF Agreed, TakesBack
  <2>2. QED BY <2>1 DEF TakesBack
<1>15. Remembers(found2)'
  <2>1. ASSUME NEW c, Busy(c)', state'[calls'[c].on] = "queued"
        PROVE  calls'[c].previous = found2[calls'[c].on]
    <3>1. CASE Busy(c)
      <4>1. calls'[c] = calls[c] /\ calls[c].on \in OpIds
        BY <1>6, <3>1 DEF CallsInv
      <4>2. state[calls[c].on] = "queued"
        BY <1>3, <2>1, <4>1
      <4>3. QED BY <1>4, <3>1, <4>1, <4>2 DEF Agreed, Remembers
    <3>2. CASE ~Busy(c)
      BY <1>4, <1>6, <2>1, <3>2
    <3>3. QED BY <3>1, <3>2
  <2>2. QED BY <2>1 DEF Remembers
<1>16. Agreed(found2, real)'
  BY <1>12, <1>13, <1>14, <1>15 DEF Agreed
<1>17. QED BY <1>3, <1>4, <1>16

\* One operation less is waited for, and did what Post says if its paths matter.
LEMMA EndedComes ==
    ASSUME OpsType, ChainInv, NEW k \in OpIds, NEW outcome \in {"done", "failed"},
           Ends(k, outcome), NEW found, NEW real, NEW real2, NEW m \in Nat, NEW p, NEW e,
           Comes(m, p, e, found, real),
           p \in PathsOf(k) => k < m /\ Post(ops[k], found[k], p) = real2[p],
           p \notin PathsOf(k) => real2[p] = real[p]
    PROVE  Comes(m, p, e, found, real2)'
<1>1. /\ OpIds' = OpIds /\ ops' = ops /\ state[k] = "queued" /\ Sent(k) /\ k \in Nat
      /\ \A j \in OpIds : j \in Nat /\ state'[j] = IF j = k THEN outcome ELSE state[j]
      /\ \A j : PathsOf(j)' = PathsOf(j)
  BY EndedChain, OperationType
<1>2. \A j : Waits(j, p)' <=> Waits(j, p) /\ j # k
  BY <1>1 DEF Waits
<1>3. CASE p \notin PathsOf(k)
  <2>1. \A j : Waits(j, p)' <=> Waits(j, p)
    BY <1>2, <1>3 DEF Waits
  <2>2. \A j : Latest(j, m, p)' <=> Latest(j, m, p)
    BY <2>1 DEF Latest
  <2>3. QED BY <1>1, <1>3, <2>1, <2>2 DEF Comes
<1>4. CASE p \in PathsOf(k)
  <2>1. Waits(k, p) /\ k < m
    BY <1>1, <1>4 DEF Waits
  <2>2. \A j : Waits(j, p) => j \in Nat /\ ~(j < k)
    BY <1>1, <1>4, FirstOnPath DEF Waits
  <2>3. ASSUME NEW j, Latest(j, m, p)' PROVE e = Post(ops'[j], found[j], p)
    <3>1. Waits(j, p) /\ j < m /\ j # k /\ \A i : Waits(i, p) /\ i # k /\ i < m => i <= j
      BY <1>2, <2>3 DEF Latest
    <3>2. k <= j
      BY <1>1, <2>2, <3>1
    <3>3. Latest(j, m, p)
      BY <3>1, <3>2 DEF Latest
    <3>4. QED BY <1>1, <3>3 DEF Comes
  <2>4. ASSUME \A j : Waits(j, p)' => ~(j < m) PROVE e = real2[p]
    <3>1. \A i : Waits(i, p) /\ i < m => i = k
      BY <1>2, <2>4
    <3>2. Latest(k, m, p)
      BY <1>1, <2>1, <3>1 DEF Latest
    <3>3. QED BY <1>4, <3>2 DEF Comes
  <2>5. QED BY <2>3, <2>4 DEF Comes
<1>5. QED BY <1>3, <1>4

\* An operation finds on its paths what the call found in the index.
LEMMA FindsEntry ==
    ASSUME OpsType, ChainInv, NEW k \in OpIds, Sent(k), NEW found, NEW real,
           FindsIt(found, real)
    PROVE  Fits(ops[k], found[k]) /\ \A p \in PathsOf(k) : found[k][p] = real[p]
<1>1. Fits(ops[k], found[k]) /\ \A p \in PathsOf(k) : Comes(k, p, found[k][p], found, real)
  BY DEF FindsIt, Sent
<1>2. QED BY <1>1, FirstOnPath DEF Comes

\* What the backend would answer once operation k is through.
After(k, found, real) ==
    [p \in Paths |-> IF p \in PathsOf(k) THEN Post(ops[k], found, p) ELSE real[p]]

LEMMA FillsMatch ==
    ASSUME NEW k \in OpIds, NEW found, NEW real, Matches(real), NEW real2, real2 \in Indexes,
           \A p \in PathsOf(k) : EntryOf(content'[p]) = real2[p],
           \A p \in Paths \ PathsOf(k) : content'[p] = content[p] /\ real2[p] = real[p],
           content' \in [Paths -> Files], untimed' = untimed \ PathsOf(k)
    PROVE  Matches(real2)'
<1>1. ASSUME NEW p \in Paths
      PROVE  /\ real2[p] = NoEntry <=> content'[p] = NoFile
             /\ real2[p].size = Len(content'[p].lines)
             /\ p \notin untimed' => real2[p].mtime = content'[p].mtime
  <2>1. CASE p \in PathsOf(k)
    <3>1. content'[p] \in Files /\ real2[p] = EntryOf(content'[p])
      BY <2>1
    <3>2. real2[p] = NoEntry <=> content'[p] = NoFile
      BY <3>1, NoFileType
    <3>3. real2[p].size = Len(content'[p].lines) /\ real2[p].mtime = content'[p].mtime
      BY <3>1 DEF EntryOf
    <3>4. QED BY <3>2, <3>3
  <2>2. CASE p \notin PathsOf(k)
    <3>1. content'[p] = content[p] /\ real2[p] = real[p] /\ (p \notin untimed' => p \notin untimed)
      BY <2>2
    <3>2. Fills(real[p], p) /\ (p \notin untimed => real[p].mtime = content[p].mtime)
      BY DEF Matches
    <3>3. QED BY <3>1, <3>2 DEF Fills
  <2>3. QED BY <2>1, <2>2
<1>2. QED BY <1>1 DEF Matches, Fills

LEMMA SucceedMatches ==
    ASSUME OpsType, FilesOk, NEW k \in OpIds, Succeeds(k), NEW found \in Indexes, NEW real,
           Matches(real), Fits(ops[k], found), \A p \in PathsOf(k) : found[p] = real[p],
           NEW real2, real2 = After(k, found, real)
    PROVE  Matches(real2)'
<1>1. PathsOf(k) \subseteq Paths /\ real \in Indexes /\ ops[k].kind \in OpKinds /\ ops[k].mtime \in Nat
  BY OperationType DEF Matches
<1>2. \A p \in PathsOf(k) : Fills(found[p], p)
  BY <1>1 DEF Matches
<1>3. \A p \in Paths : real2[p] = IF p \in PathsOf(k) THEN Post(ops[k], found, p) ELSE real[p]
  BY DEF After
<1>4. CASE content' = Applied(k) /\ untimed' = untimed \ PathsOf(k)
  <2>1. /\ content' \in [Paths -> Files]
        /\ \A p \in Paths \ PathsOf(k) : content'[p] = content[p]
        /\ \A p \in PathsOf(k) : EntryOf(content'[p]) = Post(ops[k], found, p)
    BY <1>2, <1>4, AppliedIs
  <2>2. \A p \in PathsOf(k) : EntryOf(content'[p]) \in IndexEntries
    BY <1>1, <2>1 DEF EntryOf, Files, IndexEntries
  <2>3. real2 \in Indexes
    BY <1>1, <2>1, <2>2 DEF After, Indexes
  <2>4. \A p \in PathsOf(k) : EntryOf(content'[p]) = real2[p]
    BY <1>1, <1>3, <2>1
  <2>5. \A p \in Paths \ PathsOf(k) : content'[p] = content[p] /\ real2[p] = real[p]
    BY <1>3, <2>1
  <2>6. QED BY <1>4, <2>1, <2>3, <2>4, <2>5, FillsMatch
<1>5. ASSUME NEW src, NEW dst, src = ops[k].paths[1], dst = ops[k].paths[2],
             ops[k].kind = "move", ~Refused(k), content' = Moved(src, dst, OldTime(dst)),
             untimed' = (untimed \ {src}) \cup {dst}
      PROVE  Matches(real2)'
  <2>1. /\ content' \in [Paths -> Files] /\ PathsOf(k) = {src, dst} /\ src # dst
        /\ \A p \in Paths \ PathsOf(k) : content'[p] = content[p]
        /\ content'[src] = NoFile /\ content'[dst] # NoFile
        /\ content'[dst].lines = content[src].lines
    BY <1>5, UntimedIs
  <2>2. /\ Post(ops[k], found, dst) = found[src] /\ Post(ops[k], found, src) = NoEntry
    BY <1>5, <2>1 DEF Post
  <2>3. src \in Paths /\ dst \in Paths
    BY <1>1, <2>1
  <2>4. found[src] # NoEntry /\ Fills(found[src], src) /\ found[src] \in IndexEntries
        /\ NoEntry \in IndexEntries
    BY <1>2, <1>5, <2>1, <2>3, NoIndexType DEF Fits, Indexes
  <2>5. real2[src] = NoEntry /\ real2[dst] = found[src]
        /\ \A p \in Paths \ {src, dst} : real2[p] = real[p]
    BY <1>3, <2>1, <2>2, <2>3
  <2>6. real2 \in Indexes
    BY <1>1, <2>1, <2>2, <2>4 DEF After, Indexes
  <2>7. ASSUME NEW p \in Paths
        PROVE  /\ real2[p] = NoEntry <=> content'[p] = NoFile
               /\ real2[p].size = Len(content'[p].lines)
               /\ p \notin untimed' => real2[p].mtime = content'[p].mtime
    <3>1. CASE p = src
      BY <2>1, <2>5, <3>1 DEF NoEntry, NoFile
    <3>2. CASE p = dst
      BY <1>5, <2>1, <2>4, <2>5, <3>2 DEF Fills
    <3>3. CASE p \notin {src, dst}
      <4>1. real2[p] = real[p]
        BY <2>5, <3>3
      <4>2. content'[p] = content[p] /\ (p \notin untimed' => p \notin untimed)
        BY <1>5, <2>1, <3>3
      <4>3. Fills(real[p], p) /\ (p \notin untimed => real[p].mtime = content[p].mtime)
        BY DEF Matches
      <4>4. QED BY <4>1, <4>2, <4>3 DEF Fills
    <3>4. QED BY <3>1, <3>2, <3>3
  <2>8. QED BY <2>6, <2>7 DEF Matches, Fills
<1>6. QED BY <1>4, <1>5 DEF Succeeds

LEMMA SucceedAgrees ==
    ASSUME OpsType, FilesOk, ChainInv, CallsInv, NEW found, NEW real, Agreed(found, real), ~Doomed,
           NEW k \in OpIds, Succeeds(k), NEW real2, real2 = After(k, found[k], real)
    PROVE  Agreed(found, real2)'
<1>1. /\ OpIds' = OpIds /\ ops' = ops /\ state[k] = "queued" /\ Sent(k) /\ k \in Nat
      /\ \A j \in OpIds : j \in Nat /\ state'[j] = IF j = k THEN "done" ELSE state[j]
      /\ \A j : PathsOf(j)' = PathsOf(j)
  BY EndedChain, OperationType DEF Succeeds
<1>2. Ends(k, "done") /\ calls' = calls /\ index' = index
  BY DEF Succeeds
<1>3. PathsOf(k) \subseteq Paths
  BY OperationType
<1>5. \A p \in PathsOf(k) : Post(ops[k], found[k], p) = real2[p]
  BY <1>3 DEF After
<1>6. \A p \in Paths \ PathsOf(k) : real2[p] = real[p]
  BY DEF After
<1>7. \A c : (Busy(c)' <=> Busy(c)) /\ (Busy(c) => calls[c].on \in OpIds)
  BY <1>2 DEF Busy, CallsInv
<1>8. \A c, p : Touches(c, p)' <=> Touches(c, p)
  BY <1>1, <1>2, <1>7 DEF Touches, Failing
<1>9. \A c, p : Touches(c, p) => p \in Paths \ PathsOf(k)
  <2>1. SUFFICES ASSUME NEW c, NEW p, Touches(c, p) PROVE p \in Paths \ PathsOf(k)
    OBVIOUS
  <2>2. p \in Paths
    BY <1>7, <2>1, OperationType DEF Touches, Failing
  <2>3. ~Waits(k, p)
    BY <2>1, NobodyWaits DEF Doomed
  <2>4. QED BY <1>1, <2>2, <2>3 DEF Waits
<1>10. FindsIt(found, real2)'
  <2>1. ASSUME NEW m \in OpIds', state'[m] = "queued"
        PROVE  /\ Fits(ops'[m], found[m])
               /\ \A p \in PathsOf(m)' : Comes(m, p, found[m][p], found, real2)'
    <3>1. m \in OpIds /\ m # k /\ state[m] = "queued" /\ m \in Nat /\ PathsOf(m) \subseteq Paths
      BY <1>1, <2>1, OperationType
    <3>2. Fits(ops[m], found[m]) /\ \A p \in PathsOf(m) : Comes(m, p, found[m][p], found, real)
      BY <3>1 DEF Agreed, FindsIt
    <3>3. ASSUME NEW p \in PathsOf(m) PROVE Comes(m, p, found[m][p], found, real2)'
      <4>1. p \in PathsOf(k) => ~(m < k)
        BY <1>1, <3>1, FirstOnPath DEF Waits
      <4>2. p \in PathsOf(k) => k < m /\ Post(ops[k], found[k], p) = real2[p]
        BY <1>1, <1>5, <3>1, <4>1
      <4>3. p \notin PathsOf(k) => real2[p] = real[p]
        BY <1>6, <3>1
      <4>4. Comes(m, p, found[m][p], found, real)
        BY <3>2
      <4>5. QED BY <1>2, <3>1, <4>2, <4>3, <4>4, EndedComes
    <3>4. QED BY <1>1, <3>2, <3>3
  <2>2. QED BY <2>1 DEF FindsIt
<1>11. TellsIt(found, real2)'
  <2>1. PICK n : n = Len(ops) + 1
    OBVIOUS
  <2>2. n \in Nat /\ n = Len(ops') + 1 /\ k < n
    BY <1>1, <2>1 DEF OpsType, OpIds
  <2>3. ASSUME NEW p \in Paths, \A c : ~Touches(c, p)', NEW e, e = index'[p]
        PROVE  Comes(n, p, e, found, real2)'
    <3>1. Comes(n, p, e, found, real)
      BY <1>2, <1>8, <2>1, <2>3 DEF Agreed, TellsIt
    <3>2. QED BY <1>2, <1>5, <1>6, <2>2, <3>1, EndedComes
  <2>4. QED BY <2>2, <2>3 DEF TellsIt
<1>12. TakesBack(real2)'
  <2>1. ASSUME NEW c, NEW p, Touches(c, p)'
        PROVE  /\ calls'[c].previous[p] = real2[p]
               /\ calls'[c].kind = "deleteAll" => index'[p] = NoEntry
    <3>1. Touches(c, p) /\ real2[p] = real[p]
      BY <1>6, <1>8, <1>9, <2>1
    <3>2. QED BY <1>2, <3>1 DEF Agreed, TakesBack
  <2>2. QED BY <2>1 DEF TakesBack
<1>13. Remembers(found)'
  BY <1>1, <1>2, <1>7 DEF Agreed, Remembers
<1>14. QED BY <1>10, <1>11, <1>12, <1>13 DEF Agreed

LEMMA FailAgrees ==
    ASSUME OpsType, FilesOk, ChainInv, CallsInv, NEW found, NEW real, Agreed(found, real),
           ~Doomed, ~Doomed',
           NEW k \in OpIds, Fails(k), ~clobbered'
    PROVE  Agreed(found, real)'
<1>1. /\ OpIds' = OpIds /\ ops' = ops /\ state[k] = "queued" /\ Sent(k) /\ k \in Nat
      /\ \A j \in OpIds : j \in Nat /\ state'[j] = IF j = k THEN "failed" ELSE state[j]
      /\ \A j : PathsOf(j)' = PathsOf(j)
  BY EndedChain, OperationType DEF Fails
<1>2. /\ Ends(k, "failed") /\ content' = content /\ calls' = calls /\ index' = index
      /\ ~ops[k].tracked
  BY DEF Fails
<1>3. PICK c : Busy(c) /\ calls[c].on = k
  BY <1>1, <1>2 DEF CallsInv
<1>4. \A p \in PathsOf(k) : found[k][p] = real[p]
  BY <1>1, FindsEntry DEF Agreed
<1>6. \A d : (Busy(d)' <=> Busy(d)) /\ (Busy(d) => calls[d].on \in OpIds)
  BY <1>2 DEF Busy, CallsInv
<1>7. \A d, p : Touches(d, p)' <=> Touches(d, p) \/ (d = c /\ p \in PathsOf(k))
  <2>1. \A d : Busy(d) /\ calls[d].on = k => d = c
    BY <1>3 DEF CallsInv
  <2>2. QED BY <1>1, <1>2, <1>3, <1>6, <2>1 DEF Touches, Failing
<1>8. ASSUME NEW m \in OpIds, state[m] = "queued", NEW p \in PathsOf(m) \cap PathsOf(k)
      PROVE  m = k
  <2>1. Failing(c)' /\ calls'[c].on = k
    BY <1>1, <1>2, <1>3, <1>6 DEF Failing
  <2>2. ~(m > k)
    BY <1>1, <1>8, <2>1 DEF Doomed, Overtaken
  <2>3. ~(m < k)
    BY <1>1, <1>8, FirstOnPath DEF Waits
  <2>4. QED BY <1>1, <2>2, <2>3
<1>9. FindsIt(found, real)'
  <2>1. ASSUME NEW m \in OpIds', state'[m] = "queued"
        PROVE  /\ Fits(ops'[m], found[m])
               /\ \A p \in PathsOf(m)' : Comes(m, p, found[m][p], found, real)'
    <3>1. m \in OpIds /\ m # k /\ state[m] = "queued" /\ m \in Nat
      BY <1>1, <2>1
    <3>2. Fits(ops[m], found[m]) /\ \A p \in PathsOf(m) : Comes(m, p, found[m][p], found, real)
      BY <3>1 DEF Agreed, FindsIt
    <3>3. ASSUME NEW p \in PathsOf(m) PROVE Comes(m, p, found[m][p], found, real)'
      <4>1. p \notin PathsOf(k)
        BY <1>8, <3>1
      <4>2. QED BY <1>2, <3>1, <3>2, <4>1, EndedComes
    <3>4. QED BY <1>1, <3>2, <3>3
  <2>2. QED BY <2>1 DEF FindsIt
<1>10. PICK n : n = Len(ops) + 1 /\ n \in Nat /\ n = Len(ops') + 1 /\ k < n
  BY <1>1 DEF OpsType, OpIds
<1>11. TellsIt(found, real)'
  <2>1. ASSUME NEW p \in Paths, \A d : ~Touches(d, p)', NEW e, e = index'[p]
        PROVE  Comes(n, p, e, found, real)'
    <3>1. p \notin PathsOf(k) /\ \A d : ~Touches(d, p)
      BY <1>7, <2>1
    <3>2. Comes(n, p, e, found, real)
      BY <1>2, <1>10, <2>1, <3>1 DEF Agreed, TellsIt
    <3>3. QED BY <1>2, <1>10, <3>1, <3>2, EndedComes
  <2>2. QED BY <1>10, <2>1 DEF TellsIt
<1>12. TakesBack(real)'
  <2>1. ASSUME NEW d, NEW p, Touches(d, p)'
        PROVE  /\ calls'[d].previous[p] = real[p]
               /\ calls'[d].kind = "deleteAll" => index'[p] = NoEntry
    <3>1. CASE Touches(d, p)
      BY <1>2, <3>1 DEF Agreed, TakesBack
    <3>2. CASE d = c /\ p \in PathsOf(k)
      <4>1. calls[c].previous = found[k]
        BY <1>1, <1>3 DEF Agreed, Remembers
      <4>2. ASSUME calls[c].kind = "deleteAll" PROVE index[p] = NoEntry
        <5>1. ops[k].kind = "remove"
          BY <1>3, <4>2 DEF CallsInv
        <5>2. Waits(k, p) /\ p \in Paths
          BY <1>1, <3>2, OperationType DEF Waits
        <5>3. \A i : Waits(i, p) => i = k
          BY <1>8, <3>2 DEF Waits
        <5>4. \A i : ~Touches(i, p)
          BY <5>2, NobodyWaits DEF Doomed
        <5>5. Latest(k, n, p)
          BY <1>1, <1>10, <5>2, <5>3 DEF Latest
        <5>6. PICK e : e = index[p]
          OBVIOUS
        <5>7. Comes(n, p, e, found, real)
          BY <1>10, <5>2, <5>4, <5>6 DEF Agreed, TellsIt
        <5>8. e = Post(ops[k], found[k], p)
          BY <5>5, <5>7 DEF Comes
        <5>9. QED BY <5>1, <5>6, <5>8 DEF Post
      <4>3. QED BY <1>2, <1>4, <3>2, <4>1, <4>2
    <3>3. QED BY <1>7, <2>1, <3>1, <3>2
  <2>2. QED BY <2>1 DEF TakesBack
<1>13. Remembers(found)'
  BY <1>1, <1>2, <1>6 DEF Agreed, Remembers
<1>14. QED BY <1>9, <1>11, <1>12, <1>13 DEF Agreed

\* Who waits, and for what, is the same when the chain and the files are.
LEMMA ComesKept ==
    ASSUME UNCHANGED <<content, ops, state>>, NEW m, NEW p, NEW e, NEW found, NEW real
    PROVE  Comes(m, p, e, found, real)' <=> Comes(m, p, e, found, real)
<1>1. \A j : Waits(j, p)' <=> Waits(j, p)
  BY DEF Waits, OpIds, PathsOf
<1>2. \A j : Latest(j, m, p)' <=> Latest(j, m, p)
  BY <1>1 DEF Latest
<1>3. QED BY <1>1, <1>2 DEF Comes

LEMMA FindsItKept ==
    ASSUME UNCHANGED <<content, ops, state>>, NEW found, NEW real, FindsIt(found, real)
    PROVE  FindsIt(found, real)'
<1>1. ASSUME NEW k \in OpIds', state'[k] = "queued"
      PROVE  /\ Fits(ops'[k], found[k])
             /\ \A p \in PathsOf(k)' : Comes(k, p, found[k][p], found, real)'
  <2>1. k \in OpIds /\ state[k] = "queued" /\ ops'[k] = ops[k] /\ PathsOf(k)' = PathsOf(k)
    BY <1>1 DEF OpIds, PathsOf
  <2>2. Fits(ops[k], found[k]) /\ \A p \in PathsOf(k) : Comes(k, p, found[k][p], found, real)
    BY <2>1 DEF FindsIt
  <2>3. QED BY <2>1, <2>2, ComesKept
<1>2. QED BY <1>1 DEF FindsIt

LEMMA UndoAgrees ==
    ASSUME OpsType, ChainInv, CallsInv, NEW found, NEW real, Agreed(found, real), ~Doomed,
           NEW c, Undoes(c)
    PROVE  Agreed(found, real)'
<1>1. PICK f : f = calls[c].on
  OBVIOUS
<1>2. /\ UNCHANGED <<content, ops, state>> /\ Failing(c) /\ f \in OpIds
      /\ PathsOf(f) = {calls[c].paths[i] : i \in DOMAIN calls[c].paths}
      /\ \A d : Busy(d) => calls[d].on \in OpIds
  BY <1>1 DEF Undoes, Failing, CallsInv, PathsOf
<1>3. \A d : (Busy(d)' <=> Busy(d) /\ d # c) /\ (Busy(d) /\ d # c => calls'[d] = calls[d])
  BY DEF Undoes
<1>4. \A d, p : Touches(d, p)' <=> Touches(d, p) /\ d # c
  BY <1>2, <1>3 DEF Touches, Failing, PathsOf
<1>5. \A p : Touches(c, p) <=> p \in PathsOf(f)
  BY <1>1, <1>2 DEF Touches
<1>6. \A p \in Paths : index'[p] = IF p \in TakenBack(c) THEN calls[c].previous[p] ELSE index[p]
  BY DEF Undoes
<1>7. TakenBack(c) \subseteq PathsOf(f)
  BY <1>2 DEF TakenBack
<1>8. ASSUME NEW p \in Paths, p \in PathsOf(f) PROVE index'[p] = real[p]
  <2>1. /\ calls[c].previous[p] = real[p]
        /\ calls[c].kind = "deleteAll" => index[p] = NoEntry
    BY <1>5, <1>8 DEF Agreed, TakesBack
  <2>2. p \in TakenBack(c) <=> (calls[c].kind = "deleteAll" => calls[c].previous[p] # NoEntry)
    BY <1>2, <1>8 DEF TakenBack
  <2>3. QED BY <1>6, <2>1, <2>2
<1>9. FindsIt(found, real)'
  BY <1>2, FindsItKept DEF Agreed
<1>10. TellsIt(found, real)'
  <2>1. ASSUME NEW p \in Paths, \A d : ~Touches(d, p)', NEW e, e = index'[p]
        PROVE  Comes(Len(ops) + 1, p, e, found, real)
    <3>1. CASE p \in PathsOf(f)
      <4>1. \A j : ~Waits(j, p)
        BY <1>5, <3>1, NobodyWaits DEF Doomed
      <4>2. e = real[p]
        BY <1>8, <2>1, <3>1
      <4>3. QED BY <4>1, <4>2 DEF Comes, Latest
    <3>2. CASE p \notin PathsOf(f)
      <4>1. e = index[p] /\ \A d : ~Touches(d, p)
        BY <1>4, <1>5, <1>6, <1>7, <2>1, <3>2
      <4>2. QED BY <4>1 DEF Agreed, TellsIt
    <3>3. QED BY <3>1, <3>2
  <2>2. PICK n : n = Len(ops) + 1
    OBVIOUS
  <2>3. ASSUME NEW p \in Paths, \A d : ~Touches(d, p)', NEW e, e = index'[p]
        PROVE  Comes(n, p, e, found, real)'
    BY <1>2, <2>1, <2>2, <2>3, ComesKept
  <2>4. n = Len(ops') + 1
    BY <1>2, <2>2
  <2>5. QED BY <2>3, <2>4 DEF TellsIt
<1>11. TakesBack(real)'
  <2>1. ASSUME NEW d, NEW p, Touches(d, p)'
        PROVE  /\ calls'[d].previous[p] = real[p]
               /\ calls'[d].kind = "deleteAll" => index'[p] = NoEntry
    <3>1. Touches(d, p) /\ d # c /\ calls'[d] = calls[d]
      BY <1>3, <1>4, <2>1 DEF Touches, Failing
    <3>2. p \notin PathsOf(f)
      BY <1>5, <3>1, OneTouches DEF Doomed
    <3>3. p \in Paths
      BY <1>2, <3>1, OperationType DEF Touches, Failing
    <3>4. index'[p] = index[p]
      BY <1>6, <1>7, <3>2, <3>3
    <3>5. QED BY <3>1, <3>4 DEF Agreed, TakesBack
  <2>2. QED BY <2>1 DEF TakesBack
<1>12. Remembers(found)'
  BY <1>2, <1>3 DEF Agreed, Remembers
<1>13. QED BY <1>9, <1>10, <1>11, <1>12 DEF Agreed

LEMMA ElsewhereAgrees ==
    ASSUME NEW found, NEW real, Agreed(found, real), Elsewhere
    PROVE  Agreed(found, real)'
<1>1. UNCHANGED <<content, ops, state, index>>
  BY DEF Elsewhere
<1>2. \A d : /\ Busy(d)' => Busy(d) /\ calls'[d] = calls[d]
             /\ Busy(d) => state[calls[d].on] = "done" \/ (Busy(d)' /\ calls'[d] = calls[d])
  BY DEF Elsewhere, CallsKept
<1>3. \A d, p : Touches(d, p)' <=> Touches(d, p)
  BY <1>1, <1>2 DEF Touches, Failing, PathsOf
<1>4. FindsIt(found, real)'
  BY <1>1, FindsItKept DEF Agreed
<1>5. TellsIt(found, real)'
  <2>1. PICK n : n = Len(ops) + 1 /\ n = Len(ops') + 1
    BY <1>1
  <2>2. ASSUME NEW p \in Paths, \A d : ~Touches(d, p)', NEW e, e = index'[p]
        PROVE  Comes(n, p, e, found, real)'
    <3>1. Comes(n, p, e, found, real)
      BY <1>1, <1>3, <2>1, <2>2 DEF Agreed, TellsIt
    <3>2. QED BY <1>1, <3>1, ComesKept
  <2>3. QED BY <2>1, <2>2 DEF TellsIt
<1>6. TakesBack(real)'
  BY <1>1, <1>2, <1>3 DEF Agreed, TakesBack, Touches, Failing
<1>7. Remembers(found)'
  BY <1>1, <1>2 DEF Agreed, Remembers
<1>8. QED BY <1>4, <1>5, <1>6, <1>7 DEF Agreed
-----------------------------------------------------------------------------
(***************************************************************************)
(* The index tells what will be there, unless a failure left something     *)
(* behind or is about to: then nothing is promised.                        *)
(***************************************************************************)
AgreeInv ==
    /\ FilesOk /\ CallsInv
    /\ \/ clobbered \/ Doomed
       \/ \E found \in Seq(Indexes), real \in Indexes :
             Len(found) = Len(ops) /\ Matches(real) /\ Agreed(found, real)

AgreeOk == ChainOk /\ AgreeInv

LEMMA ClobberedStays == ASSUME clobbered, IndexStep PROVE clobbered'
BY DEF IndexStep, Puts, Succeeds, Fails, Undoes, Elsewhere

LEMMA AgreeStep == ASSUME AgreeOk, [Next]_vars PROVE AgreeOk'
<1> USE DEF AgreeOk
<1>1. ChainOk'
  BY ChainStep
<1>2. /\ OpsType /\ CallsType /\ ChainInv /\ FilesOk /\ CallsInv /\ IndexStep
  BY IndexSteps DEF ChainOk, QueueType, AgreeInv
<1>3. FilesOk' /\ CallsInv'
  BY <1>2, FilesStep, CallsInvStep
<1>4. ASSUME ~clobbered', ~Doomed'
      PROVE  \E found \in Seq(Indexes), real \in Indexes :
                Len(found) = Len(ops') /\ Matches(real)' /\ Agreed(found, real)'
  <2>1. ~clobbered
    BY <1>2, <1>4, ClobberedStays
  <2>2. ~Doomed
    BY <1>2, <1>4, OvertakenStep DEF Doomed
  <2>3. PICK found \in Seq(Indexes), real \in Indexes :
           Len(found) = Len(ops) /\ Matches(real) /\ Agreed(found, real)
    BY <2>1, <2>2 DEF AgreeInv
  <2>a. content' = content /\ untimed' = untimed => Matches(real)'
    BY <2>3 DEF Matches, Fills
  <2>4. ASSUME NEW op, Puts(op), Tracks(op) \/ \E c : Serves(op, c)
        PROVE  \E found2 \in Seq(Indexes) :
                  Len(found2) = Len(ops') /\ Matches(real)' /\ Agreed(found2, real)'
    <3>1. PICK found2 : found2 = Append(found, index)
      OBVIOUS
    <3>2. found2 \in Seq(Indexes) /\ Len(found2) = Len(ops') /\ Agreed(found2, real)'
      BY <1>2, <1>3, <1>4, <2>3, <2>4, <3>1, PutAgrees
    <3>3. QED BY <2>4, <2>a, <3>2 DEF Puts
  <2>5. ASSUME NEW k \in OpIds, Succeeds(k)
        PROVE  \E real2 \in Indexes : Matches(real2)' /\ Agreed(found, real2)' /\ ops' = ops
    <3>1. PICK real2 : real2 = After(k, found[k], real)
      OBVIOUS
    <3>2. found[k] \in Indexes /\ Sent(k)
      BY <2>3, <2>5, ElementOfSeq DEF Succeeds, Ends, OpIds
    <3>3. Fits(ops[k], found[k]) /\ \A p \in PathsOf(k) : found[k][p] = real[p]
      BY <1>2, <2>3, <3>2, FindsEntry DEF Agreed
    <3>4. Matches(real2)'
      BY <1>2, <2>3, <2>5, <3>1, <3>2, <3>3, SucceedMatches
    <3>5. Agreed(found, real2)'
      BY <1>2, <2>2, <2>3, <2>5, <3>1, SucceedAgrees
    <3>6. QED BY <2>5, <3>4, <3>5 DEF Succeeds, Ends, Matches
  <2>6. ASSUME NEW k \in OpIds, Fails(k)
        PROVE  Matches(real)' /\ Agreed(found, real)' /\ ops' = ops
    BY <1>2, <1>4, <2>2, <2>3, <2>6, <2>a, FailAgrees DEF Fails, Ends
  <2>7. ASSUME NEW c, Undoes(c)
        PROVE  Matches(real)' /\ Agreed(found, real)' /\ ops' = ops
    BY <1>2, <2>2, <2>3, <2>7, <2>a, UndoAgrees DEF Undoes
  <2>8. ASSUME Elsewhere
        PROVE  Matches(real)' /\ Agreed(found, real)' /\ ops' = ops
    BY <2>3, <2>8, <2>a, ElsewhereAgrees DEF Elsewhere
  <2>9. QED BY <1>2, <2>3, <2>4, <2>5, <2>6, <2>7, <2>8 DEF IndexStep
<1>5. AgreeInv'
  BY <1>3, <1>4 DEF AgreeInv
<1>6. QED BY <1>1, <1>5

LEMMA AgreeInit == Init => AgreeOk
<1> SUFFICES ASSUME Init PROVE AgreeOk
  OBVIOUS
<1>1. OpIds = {} /\ Len(ops) = 0 /\ \A c : ~Busy(c)
  BY DEF Init, OpIds, Busy
<1>2. PICK real : real = index
  OBVIOUS
<1>m. content \in [Paths -> Files] /\ real \in Indexes /\ Matches(real)
  <2>1. <<0>> \in Seq(Nat) /\ Len(<<0>>) = 1
    OBVIOUS
  <2>2. PICK one : one = [lines |-> <<0>>, mtime |-> 1]
    OBVIOUS
  <2>3. one \in Files /\ one # NoFile /\ Len(one.lines) = 1 /\ one.mtime = 1
    BY <2>1, <2>2 DEF Files, NoFile
  <2>4. /\ Len(NoFile.lines) = 0 /\ NoFile.mtime = 0 /\ NoEntry.size = 0 /\ NoEntry.mtime = 0
        /\ [size |-> 1, mtime |-> 1] \in IndexEntries /\ NoEntry \in IndexEntries
        /\ [size |-> 1, mtime |-> 1] # NoEntry
    BY DEF NoFile, NoEntry, IndexEntries
  <2>5. /\ content = [p \in Paths |-> IF p = Session THEN one ELSE NoFile]
        /\ real = [p \in Paths |-> IF p = Session THEN [size |-> 1, mtime |-> 1] ELSE NoEntry]
    BY <1>2, <2>2 DEF Init
  <2>6. content \in [Paths -> Files] /\ real \in Indexes
    BY <2>3, <2>4, <2>5, NoFileType DEF Indexes
  <2>7. ASSUME NEW p \in Paths
        PROVE  Fills(real[p], p) /\ real[p].mtime = content[p].mtime
    BY <2>3, <2>4, <2>5 DEF Fills
  <2>8. QED BY <2>6, <2>7 DEF Matches
<1>3. FilesOk
  BY <1>1, <1>m DEF FilesOk
<1>4. CallsInv
  BY <1>1 DEF CallsInv
<1>5. PICK found : found = << >>
  OBVIOUS
<1>6. found \in Seq(Indexes) /\ Len(found) = 0
  BY <1>5
<1>7. Agreed(found, real)
  <2>1. \A j, p : ~Waits(j, p)
    BY <1>1 DEF Waits
  <2>2. \A c, p : ~Touches(c, p)
    BY <1>1 DEF Touches, Failing
  <2>3. FindsIt(found, real)
    BY <1>1 DEF FindsIt
  <2>4. TellsIt(found, real)
    BY <1>2, <2>1 DEF TellsIt, Comes, Latest
  <2>5. QED BY <1>1, <2>2, <2>3, <2>4 DEF Agreed, TakesBack, Remembers
<1>8. QED BY <1>1, <1>3, <1>4, <1>6, <1>7, <1>m, ChainInit DEF AgreeOk, AgreeInv

\* What the backend holds are files, and every operation has the paths its kind
\* needs, of which a rename has two that differ.
THEOREM FilesCorrect == Spec => []FilesOk
<1>1. AgreeOk => FilesOk
  BY DEF AgreeOk, AgreeInv
<1>2. QED BY <1>1, AgreeInit, AgreeStep, PTL DEF Spec

\* When every operation and every call is over, the index has the files that the
\* backend has, with their sizes and their times, unless a failure left something
\* behind that nobody could take back; the time of a file that was moved without
\* recording it is left out.
THEOREM IndexAgreesCorrect == Spec => []IndexAgreesAtRest
<1>1. AgreeOk => IndexAgreesAtRest
  <2> SUFFICES ASSUME AgreeOk, \A k \in OpIds : Settled(k), Ended, ~clobbered,
                      NEW p \in Paths
               PROVE  Agrees(p)
    BY DEF IndexAgreesAtRest
  <2>1. \A c : ~Busy(c)
    <3>1. DOMAIN calls = 1..Len(calls)
      BY DEF AgreeOk, ChainOk, QueueType, CallsType
    <3>2. QED BY <3>1 DEF Busy, Ended
  <2>2. ~Doomed /\ \A c : ~Touches(c, p)
    BY <2>1 DEF Doomed, Overtaken, Touches, Failing
  <2>3. PICK found \in Seq(Indexes), real \in Indexes : Matches(real) /\ Agreed(found, real)
    BY <2>2 DEF AgreeOk, AgreeInv
  <2>4. \A j : ~Waits(j, p)
    BY DEF Waits, Settled
  <2>5. Comes(Len(ops) + 1, p, index[p], found, real)
    BY <2>2, <2>3 DEF Agreed, TellsIt
  <2>6. index[p] = real[p]
    BY <2>4, <2>5 DEF Comes
  <2>7. QED BY <2>3, <2>6 DEF Matches, Fills, Agrees
<1>2. QED BY <1>1, AgreeInit, AgreeStep, PTL DEF Spec
=============================================================================
