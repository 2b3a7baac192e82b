--------------------------- MODULE SessionStorage ---------------------------
(***************************************************************************)
(* Session files kept in Redis or in an SQL table: IndexedSessionStorage   *)
(* and its writers (packages/coding-agent/src/session/                     *)
(* indexed-session-storage.ts) over the two backends.                      *)
(*                                                                         *)
(* Sizes and times of files are answered from an index in memory, which a  *)
(* call changes before its operation has even been sent.  Operations of    *)
(* one path are chained by promises: each waits for the last one queued on *)
(* every path it touches.  Calls await one another's operations, take back *)
(* what they did to the index when theirs fails, and are made, by several  *)
(* parties, at any moment.                                                 *)
(***************************************************************************)
EXTENDS Naturals, Sequences

CONSTANTS
    Paths,       \* keys of session files
    Session,     \* the path of a session
    Artifact,    \* a path below the session's directory of artifacts
    Writers,     \* the writers that are ever opened
    NoWriter,    \* an operation that is not a writer's
    MaxRequests, \* bound: writes and calls ever made
    MaxFaults    \* bound: operations the backend fails

ASSUME PathsAssumption ==
    /\ Session \in Paths /\ Artifact \in Paths /\ Session # Artifact
    /\ NoWriter \notin Writers
    /\ MaxRequests \in Nat /\ MaxFaults \in Nat

VARIABLES
    index,       \* #index: size and time of each path
    content,     \* the backend: lines and time of each path
    ops,         \* operations in the order they were queued
    state,       \* the state of each
    pathTails,   \* #pathTails and #pathPending: the last one on each path
    writers,     \* path and #error of each writer
    calls,       \* the asynchronous calls, in the order they were made
    firstDrainError, \* #firstDrainError is set
    writes, faults,  \* bounds
    untimed,     \* history: paths whose file was moved there without its time
    clobbered    \* history: a failure left more behind than its call took back

vars == <<index, content, ops, state, pathTails, writers, calls, firstDrainError,
          writes, faults, untimed, clobbered>>

OpIds == 1..Len(ops)
None == 0                             \* no operation
NoEntry == [size |-> 0, mtime |-> 0]
NoIndex == [p \in Paths |-> NoEntry]  \* nothing to put back
NoFile == [lines |-> << >>, mtime |-> 0]
PathsOf(k) == {ops[k].paths[i] : i \in DOMAIN ops[k].paths}
Settled(k) == state[k] \in {"done", "failed"}

OpKinds == {"writeFull", "append", "truncate", "move", "remove"}
CallKinds == {"writeText", "rename", "unlink", "delete", "deleteAll", "readText", "flush", "drain"}

TypeOK ==
    /\ index \in [Paths -> [size : Nat, mtime : Nat]]
    /\ content \in [Paths -> [lines : Seq(0..MaxRequests), mtime : Nat]]
    /\ ops \in Seq([kind : OpKinds, paths : Seq(Paths), writer : Writers \cup {NoWriter},
                    tracked : BOOLEAN, mtime : Nat, after : SUBSET (1..MaxRequests)])
    /\ Len(ops) <= MaxRequests
    /\ state \in [OpIds -> {"queued", "done", "failed"}]
    /\ pathTails \in [Paths -> 0..Len(ops)]
    /\ writers \in [Writers -> [path : Paths, open : BOOLEAN, error : BOOLEAN]]
    /\ calls \in Seq([kind : CallKinds, paths : Seq(Paths), writer : Writers \cup {NoWriter},
                      waits : Seq(Paths), on : 0..MaxRequests, previous : [Paths -> [size : Nat, mtime : Nat]],
                      since : 0..MaxRequests,
                      at : {"awaiting", "operating", "reading", "flushing", "draining",
                            "returned", "threw"}])
    /\ firstDrainError \in BOOLEAN /\ clobbered \in BOOLEAN /\ untimed \subseteq Paths
    /\ writes \in 0..MaxRequests /\ faults \in 0..MaxFaults

\* After initialize(): the index is what the backend has.
Init ==
    /\ content = [p \in Paths |-> IF p = Session THEN [lines |-> <<0>>, mtime |-> 1] ELSE NoFile]
    /\ index = [p \in Paths |-> IF p = Session THEN [size |-> 1, mtime |-> 1] ELSE NoEntry]
    /\ ops = << >> /\ state = << >>
    /\ pathTails = [p \in Paths |-> None]
    /\ writers = [w \in Writers |-> [path |-> Session, open |-> FALSE, error |-> FALSE]]
    /\ calls = << >>
    /\ firstDrainError = FALSE
    /\ writes = 0 /\ faults = 0 /\ clobbered = FALSE /\ untimed = {}
-----------------------------------------------------------------------------
(* The chain.                                                              *)

\* What an operation on these paths has to wait for.
Previous(ps) == {pathTails[ps[i]] : i \in DOMAIN ps} \ {None}

\* Mutant of Tails: a rename becomes the tail of its source only.
TailsOfFirst(ps, k) == [pathTails EXCEPT ![ps[1]] = k]

Tails(ps, k) == [p \in Paths |-> IF \E i \in DOMAIN ps : ps[i] = p THEN k ELSE pathTails[p]]

\* #allocMtimeMs: later than every time given before.
Now == Len(ops) + 2

(* #enqueuePaths.                                                          *)
Enqueue(kind, ps, w, tracked, mtime) ==
    /\ ops' = Append(ops, [kind |-> kind, paths |-> ps, writer |-> w, tracked |-> tracked,
                           mtime |-> mtime, after |-> Previous(ps)])
    /\ state' = Append(state, "queued")
    /\ pathTails' = Tails(ps, Len(ops) + 1)

SetIndex(p, size) == index' = [index EXCEPT ![p] = [size |-> size, mtime |-> Now]]

Write == Len(calls) + writes < MaxRequests /\ writes' = writes + 1

unchangedBySync == <<content, calls, firstDrainError, faults, untimed, clobbered>>

(* writeTextSync.                                                          *)
WriteTextSync(p) ==
    /\ Write
    /\ SetIndex(p, 1)
    /\ Enqueue("writeFull", <<p>>, NoWriter, TRUE, Now)
    /\ UNCHANGED <<unchangedBySync, writers>>

(* openWriter: with the flag w the file is cut to nothing.                 *)
OpenWriter(w, p) ==
    /\ ~writers[w].open
    /\ writers' = [writers EXCEPT ![w].path = p, ![w].open = TRUE]
    /\ \/ UNCHANGED <<index, ops, state, pathTails, writes>>
       \/ /\ Write
          /\ SetIndex(p, 0)
          /\ Enqueue("truncate", <<p>>, w, TRUE, Now)
    /\ UNCHANGED unchangedBySync

Usable(w) == writers[w].open /\ ~writers[w].error

(* writeLineSync, writeLine; either throws once the writer has an error.   *)
WriteLine(w) ==
    /\ Usable(w)
    /\ Write
    /\ SetIndex(writers[w].path, index[writers[w].path].size + 1)
    /\ Enqueue("append", <<writers[w].path>>, w, TRUE, Now)
    /\ UNCHANGED <<unchangedBySync, writers>>
-----------------------------------------------------------------------------
(* The backend.                                                            *)
SetLines(p, ls, mtime) == [content EXCEPT ![p] = [lines |-> ls, mtime |-> mtime]]

Removed(ps, n) == [p \in Paths |-> IF \E i \in 1..n : ps[i] = p THEN NoFile ELSE content[p]]

\* SQL deletes the target, then renames what it finds.
Moved(src, dst, mtime) ==
    IF content[src] = NoFile THEN Removed(<<dst>>, 1) ELSE
    [content EXCEPT ![dst] = [lines |-> content[src].lines, mtime |-> mtime], ![src] = NoFile]

\* The backend after operation k.
Applied(k) ==
    LET op == ops[k]
        p == op.paths[1]
    IN  CASE op.kind = "writeFull" -> SetLines(p, <<k>>, op.mtime)
          [] op.kind = "append" -> SetLines(p, Append(content[p].lines, k), op.mtime)
          [] op.kind = "truncate" -> SetLines(p, << >>, op.mtime)
          [] op.kind = "move" -> Moved(p, op.paths[2], op.mtime)
          [] op.kind = "remove" -> Removed(op.paths, Len(op.paths))

\* The time a path has when none is recorded: the one of before, or what
\* loadIndex falls back to, the time of the next start.
OldTime(p) == IF content[p].mtime = NoFile.mtime THEN MaxRequests + 2 ELSE content[p].mtime

\* The backends after a failure of k: nothing was done, or the first of its
\* commands: content without its time (Redis), the target of a rename deleted
\* or some files of several removed (SQL).
FailedHalfway(k) ==
    LET op == ops[k]
        p == op.paths[1]
    IN  IF op.kind = "move" THEN {content, Removed(<<op.paths[2]>>, 1)}
        ELSE IF op.kind = "remove" THEN {Removed(op.paths, n) : n \in 0..Len(op.paths)}
        ELSE {content, SetLines(p, Applied(k)[p].lines, OldTime(p))}

\* Redis refuses to rename a key that is not there, SQL does not.
Refused(k) == ops[k].kind = "move" /\ content[ops[k].paths[1]] = NoFile

\* Mutant of WriterFailed: later lines are sent although one was lost.
NeverFailed(k) == FALSE

\* The task of a writer's operation looks at the writer's error first.
WriterFailed(k) == ops[k].writer # NoWriter /\ writers[ops[k].writer].error

\* Promise.all(previous).then(task): what the operation waits for is settled.
\* It is sent then; when it takes effect on its paths nobody else is there.
Sent(k) == state[k] = "queued" /\ \A j \in ops[k].after : Settled(j)

\* The tail is taken out of the maps when it is settled.
Forget(k) == pathTails' = [p \in Paths |-> IF pathTails[p] = k THEN None ELSE pathTails[p]]

Done(k) ==
    /\ Sent(k) /\ ~WriterFailed(k)
    /\ state' = [state EXCEPT ![k] = "done"]
    /\ Forget(k)
    /\ UNCHANGED <<index, ops, writers, calls, firstDrainError, writes, clobbered>>

Succeed(k) ==
    /\ Done(k)
    /\ content' = Applied(k)
    /\ untimed' = untimed \ PathsOf(k)
    /\ UNCHANGED faults

\* A rename of Redis that did its first command only is none the less done: what
\* goes wrong with the times is caught and logged.
MoveUntimed(k) ==
    LET src == ops[k].paths[1]
        dst == ops[k].paths[2]
    IN  /\ Done(k)
        /\ ops[k].kind = "move" /\ ~Refused(k)
        /\ faults < MaxFaults
        /\ faults' = faults + 1
        /\ content' = Moved(src, dst, OldTime(dst))
        /\ untimed' = (untimed \ {src}) \cup {dst}

\* A failed operation: the writer and the next drain will say so.
Fail(k) ==
    /\ state' = [state EXCEPT ![k] = "failed"]
    /\ Forget(k)
    /\ writers' = IF ops[k].writer = NoWriter THEN writers
                  ELSE [writers EXCEPT ![ops[k].writer].error = TRUE]
    /\ firstDrainError' = (firstDrainError \/ ops[k].tracked)
    /\ UNCHANGED <<index, ops, calls, writes, untimed>>

\* The backend fails, or the writer had failed before.
BackendFails(k) ==
    /\ Sent(k) /\ ~WriterFailed(k)
    /\ IF Refused(k) THEN UNCHANGED <<content, faults>>
       ELSE /\ faults < MaxFaults
            /\ faults' = faults + 1
            /\ content' \in FailedHalfway(k)
    /\ clobbered' = (clobbered \/ ops[k].tracked \/ content' # content)
    /\ Fail(k)

TaskThrows(k) ==
    /\ Sent(k) /\ WriterFailed(k)
    /\ clobbered' = TRUE
    /\ Fail(k)
    /\ UNCHANGED <<content, faults>>
-----------------------------------------------------------------------------
(* Asynchronous calls.  #awaitPath looks up what is pending on a path when *)
(* it is evaluated; the paths of a call are looked up one after the other. *)
Call(kind, ps, w, on, at) ==
    /\ Len(calls) + writes < MaxRequests
    /\ calls' = Append(calls, [kind |-> kind, paths |-> ps, writer |-> w, waits |-> ps, on |-> on,
                               previous |-> NoIndex, since |-> Len(ops), at |-> at])
    /\ UNCHANGED <<index, content, ops, state, pathTails, firstDrainError, writes,
                   faults, untimed, clobbered>>

CallOn(kind, ps) == Call(kind, ps, NoWriter, pathTails[ps[1]], "awaiting") /\ UNCHANGED writers

WriteText(p) == CallOn("writeText", <<p>>)
Rename(src, dst) == src # dst /\ CallOn("rename", <<src, dst>>)
Unlink(p) == CallOn("unlink", <<p>>)
DeleteSessionWithArtifacts == CallOn("delete", <<Session>>)
ReadText(p) == index[p] # NoEntry /\ CallOn("readText", <<p>>)

\* The last operation of a writer, which its #pendingChain ends with.
LastOf(w) ==
    LET own == {k \in OpIds : ops[k].writer = w}
    IN  IF own = {} THEN None ELSE CHOOSE k \in own : \A j \in own : j <= k

(* flush, fsync, and close, which flushes.                                 *)
Flush(w) ==
    /\ writers[w].open /\ ~writers[w].error
    /\ Call("flush", <<writers[w].path>>, w, LastOf(w), "flushing")
    /\ UNCHANGED writers

Drain == Call("drain", <<Session>>, NoWriter, None, "draining") /\ UNCHANGED writers

\* The outcome is all that is kept of a call that is over.
End(c, at) ==
    calls' = [calls EXCEPT ![c] = [kind |-> "drain", paths |-> << >>, writer |-> NoWriter,
                                   waits |-> << >>, on |-> None, previous |-> NoIndex,
                                   since |-> 0, at |-> at]]

Awaited(c) == calls[c].on # None => Settled(calls[c].on)
AwaitedFailed(c) == calls[c].on # None /\ state[calls[c].on] = "failed"

unchangedByWaiting == <<content, writers, firstDrainError, writes, faults, untimed, clobbered>>
unchangedByEnding == <<index, ops, state, pathTails, unchangedByWaiting>>

(* An awaited operation is over: its failure is thrown here too, or the    *)
(* next path is looked up.                                                 *)
AwaitNext(c) ==
    /\ calls[c].at = "awaiting" /\ Awaited(c)
    /\ \/ AwaitedFailed(c) /\ End(c, "threw")
       \/ /\ ~AwaitedFailed(c) /\ Len(calls[c].waits) > 1
          /\ calls' = [calls EXCEPT ![c].waits = Tail(@), ![c].on = pathTails[calls[c].waits[2]]]
    /\ UNCHANGED unchangedByEnding

Ready(c, kind) ==
    /\ calls[c].at = "awaiting" /\ calls[c].kind = kind
    /\ Awaited(c) /\ ~AwaitedFailed(c) /\ Len(calls[c].waits) = 1

\* The call has changed the index and waits for its operation.
Operating(c) ==
    calls' = [calls EXCEPT ![c].at = "operating", ![c].on = Len(ops) + 1, ![c].previous = index]

ReadyToWrite(c) ==
    LET p == calls[c].paths[1]
    IN  /\ Ready(c, "writeText")
        /\ SetIndex(p, 1)
        /\ Enqueue("writeFull", <<p>>, NoWriter, FALSE, Now)
        /\ Operating(c)
        /\ UNCHANGED unchangedByWaiting

ReadyToRename(c) ==
    LET src == calls[c].paths[1]
        dst == calls[c].paths[2]
    IN  /\ Ready(c, "rename")
        /\ index[src] # NoEntry
        /\ index' = [index EXCEPT ![src] = NoEntry, ![dst] = index[src]]
        /\ Enqueue("move", <<src, dst>>, NoWriter, FALSE, index[src].mtime)
        /\ Operating(c)
        /\ UNCHANGED unchangedByWaiting

ReadyToRemove(c) ==
    /\ Ready(c, "unlink") \/ Ready(c, "deleteAll")
    /\ index[calls[c].paths[1]] # NoEntry \/ calls[c].kind = "deleteAll"
    /\ index' = [p \in Paths |-> IF \E i \in DOMAIN calls[c].paths : calls[c].paths[i] = p
                                 THEN NoEntry ELSE index[p]]
    /\ Enqueue("remove", calls[c].paths, NoWriter, FALSE, Now)
    /\ Operating(c)
    /\ UNCHANGED unchangedByWaiting

(* deleteSessionWithArtifacts collects the paths and awaits them again.    *)
ReadyToDelete(c) ==
    LET ps == IF index[Artifact] # NoEntry THEN <<Session, Artifact>> ELSE <<Session>>
    IN  /\ Ready(c, "delete")
        /\ index[Session] # NoEntry
        /\ calls' = [calls EXCEPT ![c].kind = "deleteAll", ![c].paths = ps, ![c].waits = ps,
                                  ![c].on = pathTails[Session]]
        /\ UNCHANGED unchangedByEnding

\* ENOENT: the file is gone by now.
NoSuchFile(c) ==
    /\ Ready(c, "rename") \/ Ready(c, "unlink") \/ Ready(c, "delete")
    /\ index[calls[c].paths[1]] = NoEntry
    /\ End(c, "threw")
    /\ UNCHANGED unchangedByEnding

ReadyToRead(c) ==
    /\ Ready(c, "readText")
    /\ calls' = [calls EXCEPT ![c].at = "reading"]
    /\ UNCHANGED unchangedByEnding

ReadDone(c) ==
    /\ calls[c].at = "reading"
    /\ End(c, IF content[calls[c].paths[1]] = NoFile THEN "threw" ELSE "returned")
    /\ UNCHANGED unchangedByEnding

Return(c) ==
    /\ calls[c].at = "operating" /\ state[calls[c].on] = "done"
    /\ End(c, "returned")
    /\ UNCHANGED unchangedByEnding

\* Mutant of TakenBack: what a rename replaced is not put back.
TakenBackFirst(c) == {calls[c].paths[1]}

\* The paths whose entries a failed call puts back.
TakenBack(c) ==
    {p \in {calls[c].paths[i] : i \in DOMAIN calls[c].paths} :
        calls[c].kind = "deleteAll" => calls[c].previous[p] # NoEntry}

(* The catch of a call whose operation failed.                             *)
RollBack(c) ==
    /\ calls[c].at = "operating" /\ state[calls[c].on] = "failed"
    /\ index' = [p \in Paths |-> IF p \in TakenBack(c) THEN calls[c].previous[p] ELSE index[p]]
    /\ End(c, "threw")
    /\ clobbered' = (clobbered \/ \E k \in OpIds : k > calls[c].on
                                      /\ PathsOf(k) \cap PathsOf(calls[c].on) # {})
    /\ UNCHANGED <<content, ops, state, pathTails, writers, firstDrainError, writes,
                   faults, untimed>>

FlushOutcome(c) == IF writers[calls[c].writer].error THEN "threw" ELSE "returned"

FlushDone(c) ==
    /\ calls[c].at = "flushing" /\ Awaited(c)
    /\ End(c, FlushOutcome(c))
    /\ UNCHANGED unchangedByEnding

Drained(c) == \A k \in OpIds : ops[k].tracked => Settled(k)

(* drain loops until nothing is pending, and throws the first error.       *)
DrainDone(c) ==
    /\ calls[c].at = "draining" /\ Drained(c)
    /\ End(c, IF firstDrainError THEN "threw" ELSE "returned")
    /\ firstDrainError' = FALSE
    /\ UNCHANGED <<index, content, ops, state, pathTails, writers, writes, faults, untimed,
                   clobbered>>

CallStep(c) ==
    \/ AwaitNext(c) \/ ReadyToWrite(c) \/ ReadyToRename(c) \/ ReadyToRemove(c) \/ ReadyToDelete(c)
    \/ NoSuchFile(c) \/ ReadyToRead(c) \/ ReadDone(c) \/ Return(c) \/ RollBack(c)
    \/ FlushDone(c) \/ DrainDone(c)

OpStep(k) == Succeed(k) \/ MoveUntimed(k) \/ BackendFails(k) \/ TaskThrows(k)

NewCall ==
    \/ \E p \in Paths : WriteTextSync(p) \/ WriteText(p) \/ Unlink(p) \/ ReadText(p)
    \/ \E src, dst \in Paths : Rename(src, dst)
    \/ \E w \in Writers : WriteLine(w) \/ Flush(w) \/ OpenWriter(w, Session)
    \/ DeleteSessionWithArtifacts \/ Drain

Next ==
    \/ NewCall
    \/ \E k \in OpIds : OpStep(k)
    \/ \E c \in 1..Len(calls) : CallStep(c)

Spec == Init /\ [][Next]_vars
-----------------------------------------------------------------------------
(***************************************************************************)
(* Properties.                                                             *)
(***************************************************************************)

\* A line of a writer never reaches the file without the lines the writer
\* wrote before: once one is lost, those already queued behind it are not sent.
NoGapInWriter ==
    \A k \in OpIds : ops[k].writer # NoWriter /\ state[k] = "done" =>
        \A j \in 1..(k - 1) : ops[j].writer = ops[k].writer => state[j] = "done"

Ended == \A c \in 1..Len(calls) : calls[c].at \in {"returned", "threw"}

Agrees(p) ==
    /\ index[p] = NoEntry <=> content[p] = NoFile
    /\ index[p].size = Len(content[p].lines)
    /\ p \notin untimed => index[p].mtime = content[p].mtime

\* The index, changed ahead of the backend by calls that overlap, agrees with
\* it in which files there are, their sizes and times when everything is over,
\* renames and failures that were taken back included, unless a failure left
\* something behind.  Only of a file that was moved without its time, the time
\* is left out.
IndexAgreesAtRest ==
    /\ \A k \in OpIds : Settled(k)
    /\ Ended
    /\ ~clobbered
    => \A p \in Paths : Agrees(p)

\* A read sees every operation that was queued on its path before it, those of
\* a rename of or onto that path included.
ReadsWhatWasWritten ==
    [][\A c \in 1..Len(calls) : calls[c].at = "reading" /\ calls'[c].at # "reading" =>
          \A k \in 1..calls[c].since :
              calls[c].paths[1] \in PathsOf(k) => Settled(k)]_vars
=============================================================================
