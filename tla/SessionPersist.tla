--------------------------- MODULE SessionPersist ---------------------------
(***************************************************************************)
(* How a session gets to its file: the persistence half of SessionManager  *)
(* (packages/coding-agent/src/session/session-manager.ts) on top of        *)
(* FileSessionStorage (session-storage.ts), with the process dying at any  *)
(* step and coming back through recoverOrphanedBackups.                    *)
(*                                                                         *)
(* Entries are kept in memory and reach the file in two ways.  The hot     *)
(* path appends one line through an open descriptor before appendMessage   *)
(* returns.  The cold path rewrites the whole file: a task on a promise    *)
(* chain closes the descriptor, copies the entries, writes a temporary     *)
(* file and renames it over the session file, with a detour over a backup  *)
(* where the rename is refused.  The user appends between any two steps.   *)
(*                                                                         *)
(* A file is an inode; a rename changes what the path means, not what an   *)
(* open descriptor writes to.  Of its content the model has the lines the  *)
(* loader reads.  A write that fails half done leaves a fragment without a *)
(* newline: the next line that is appended is joined to it, and the loader *)
(* skips both.                                                             *)
(***************************************************************************)
EXTENDS Integers, Sequences, SequencesExt

CONSTANTS
    MaxEntries,    \* bound: entries ever appended
    MaxRequests,   \* bound: rewrites, flushes and closes asked for in all
    MaxCrashes,    \* bound: crashes of the process
    MaxFaults      \* bound: file operations that fail

ASSUME BoundsAssumption ==
    /\ MaxEntries \in Nat \ {0} /\ MaxRequests \in Nat
    /\ MaxCrashes \in Nat /\ MaxFaults \in Nat

Entries == 1..MaxEntries
Header == 0                        \* the first line of a session file
Inodes == 1..(MaxEntries + MaxRequests + 2)
None == 0                          \* no inode

VARIABLES
    \* the directory
    primary,          \* the inode of the session file, or None
    backups,          \* inodes of its <file>.<id>.bak
    lines,            \* lines[i]: the lines of inode i that the loader can read
    torn,             \* inodes that end in a fragment of a line
    age,              \* <<j, i>>: inode i was last written no earlier than j (mtime)
    oldFormat,        \* inodes whose header has an older version
    \* the process
    process,          \* "running", "crashed", or "gone": no session to go on with
    entries,          \* #fileEntries
    assistants,       \* those of all entries that are assistant messages
    flushed,          \* #flushed
    needsFullRewrite, \* #needsFullRewriteOnNextPersist
    ensuredOnDisk,    \* #ensuredOnDisk
    persistError,     \* #persistError
    writer,           \* #persistWriter: its state and the inode it has open
    chain,            \* #persistChain: the tasks not yet done
    task,             \* where the first of them stands
    \* bounds and history
    nextEntry, requests, crashes, faults,
    written,          \* entries a finished rewrite or a hot append has written
    glued,            \* entries joined to a fragment and not rewritten since
    overlapped        \* an entry was appended behind the back of a rewrite

disk == <<primary, backups, lines, torn, age, oldFormat>>
flags == <<flushed, needsFullRewrite, ensuredOnDisk, persistError>>
memory == <<process, entries, assistants, nextEntry>>
work == <<writer, chain, task>>
history == <<written, glued, overlapped>>
bounds == <<requests, crashes, faults>>
vars == <<disk, memory, flags, work, bounds, history>>

NoWriter == [state |-> "none", file |-> None]
Idle == [at |-> "queued", snapshot |-> << >>, temp |-> None, backup |-> None]
Rewrite == [kind |-> "rewrite", want |-> {}]

TypeOK ==
    /\ primary \in Inodes \cup {None}
    /\ backups \subseteq Inodes
    /\ lines \in [Inodes -> Seq(Entries \cup {Header})]
    /\ torn \subseteq Inodes
    /\ age \subseteq Inodes \X Inodes
    /\ oldFormat \subseteq Inodes
    /\ process \in {"running", "crashed", "gone"}
    /\ entries \in Seq(Entries)
    /\ assistants \subseteq Entries
    /\ \A flag \in {flushed, needsFullRewrite, ensuredOnDisk, persistError, overlapped} :
          flag \in BOOLEAN
    /\ writer \in [state : {"none", "open", "closing"}, file : Inodes \cup {None}]
    /\ chain \in Seq([kind : {"rewrite", "ensure", "close", "flush"}, want : SUBSET Entries])
    /\ task \in [at : {"queued", "closing", "writing", "renaming", "movingAside", "retryingBare",
                       "retrying", "rollingBack", "removingBackup", "replaced"},
                 snapshot : Seq(Entries), temp : Inodes \cup {None}, backup : Inodes \cup {None}]
    /\ nextEntry \in 1..(MaxEntries + 1)
    /\ requests \in 0..MaxRequests /\ crashes \in 0..MaxCrashes /\ faults \in 0..MaxFaults
    /\ written \subseteq Entries /\ glued \subseteq Entries
-----------------------------------------------------------------------------
(* Files.                                                                  *)
UsedInodes == {i \in Inodes : <<i, i>> \in age}
FreshInode == CHOOSE i \in Inodes : i \notin UsedInodes
\* Inode i is written: from now on it is the youngest.
Touch(i) == {pair \in age : pair[1] # i} \cup {<<j, i>> : j \in UsedInodes \cup {i}}

\* loadEntriesFromFile: a file that does not begin with a header is no session.
Loaded(i) ==
    IF i # None /\ lines[i] # << >> /\ Head(lines[i]) = Header THEN Tail(lines[i]) ELSE << >>

\* Mutant of NewestBackup: the first one the glob returns.
OldestBackup == CHOOSE i \in backups : \A j \in backups : i <= j

\* The backup recoverOrphanedBackups promotes: the one written last.
NewestBackup == CHOOSE i \in backups : \A j \in backups : <<j, i>> \in age

\* What a start after a crash at this moment would find.
Recoverable ==
    IF primary # None THEN Loaded(primary)
    ELSE IF backups # {} THEN Loaded(NewestBackup) ELSE << >>
-----------------------------------------------------------------------------
\* A new session, or one that was opened from its file; the file may be of an
\* older version, and is then rewritten before anything is appended to it.
Init ==
    /\ backups = {} /\ torn = {}
    /\ process = "running"
    /\ persistError = FALSE
    /\ writer = NoWriter /\ chain = << >> /\ task = Idle
    /\ requests = 0 /\ crashes = 0 /\ faults = 0
    /\ overlapped = FALSE /\ glued = {}
    /\ assistants = {}
    /\ \/ /\ primary = None /\ age = {} /\ oldFormat = {}
          /\ lines = [i \in Inodes |-> << >>]
          /\ entries = << >> /\ nextEntry = 1 /\ written = {}
          /\ flushed = FALSE /\ needsFullRewrite = FALSE /\ ensuredOnDisk = FALSE
       \/ /\ primary = 1 /\ age = {<<1, 1>>} /\ oldFormat \in {{}, {1}}
          /\ lines = [i \in Inodes |-> IF i = 1 THEN <<Header, 1>> ELSE << >>]
          /\ entries = <<1>> /\ nextEntry = 2 /\ written = {1}
          /\ flushed = TRUE /\ needsFullRewrite = (oldFormat # {}) /\ ensuredOnDisk = TRUE

\* Mutant of BelongsOnDisk: only an assistant message is reason to write.
BelongsByItself(es) == ensuredOnDisk \/ Last(es) \in assistants'

\* Entries wait in memory until there is an assistant message among them, or
\* the session was put on disk on purpose.
BelongsOnDisk(es) == ensuredOnDisk \/ \E e \in ToSet(es) : e \in assistants'

\* Mutant of AppendsInPlace: nobody asks whether the entries before it are there.
AppendsUnflushed == ~needsFullRewrite /\ writer.state # "closing"

\* The hot path of _persist.
AppendsInPlace == flushed /\ ~needsFullRewrite /\ writer.state # "closing"

\* A rewrite has begun, and has not put its file in place: a descriptor opened
\* now is open on a file that is about to be replaced.
NotInPlace == task.at \notin {"queued", "removingBackup", "replaced"}

\* A rewrite has copied the entries and is not over.
PastSnapshot == task.at \notin {"queued", "closing"}

\* Mutant of Enqueue: next, before the tasks that wait.
EnqueueNext(t) ==
    chain' = IF chain = << >> THEN <<t>> ELSE <<Head(chain), t>> \o Tail(chain)

Enqueue(t) == chain' = Append(chain, t)

Fault == faults < MaxFaults /\ faults' = faults + 1

(* The hot path: #ensurePersistWriter opens the path, creating the file if *)
(* there is none, and writeLineSync puts the line at the end of what is    *)
(* open.  It may be refused at once, or with a part of the line written.   *)
AppendLine(e) ==
    LET file == IF writer.state # "none" THEN writer.file
                ELSE IF primary # None THEN primary ELSE FreshInode
        Opened == /\ writer' = [state |-> "open", file |-> file]
                  /\ primary' = IF primary = None /\ writer.state = "none" THEN file ELSE primary
    IN  /\ UNCHANGED <<backups, oldFormat>>
        /\ \/ /\ Opened /\ file \notin torn
              /\ lines' = [lines EXCEPT ![file] = Append(@, e)]
              /\ age' = Touch(file)
              /\ written' = written \cup {e}
              /\ UNCHANGED <<torn, glued, persistError, faults>>
           \/ /\ Opened /\ file \in torn          \* joined to the fragment
              /\ torn' = torn \ {file}
              /\ age' = Touch(file)
              /\ written' = written \cup {e}
              /\ glued' = glued \cup {e}
              /\ UNCHANGED <<lines, persistError, faults>>
           \/ /\ Opened /\ Fault                  \* the write fails
              /\ persistError' = TRUE
              /\ \/ torn' = torn \cup {file} /\ age' = Touch(file)
                 \/ torn' = torn /\ age' = IF file \in UsedInodes THEN age ELSE Touch(file)
              /\ UNCHANGED <<lines, written, glued>>
           \/ /\ writer.state = "none" /\ Fault   \* or the open
              /\ persistError' = TRUE
              /\ UNCHANGED <<primary, lines, torn, age, writer, written, glued>>

(* #appendEntry and _persist, without an await.                            *)
AppendEntry(assistant) ==
    /\ process = "running"
    /\ nextEntry <= MaxEntries
    /\ nextEntry' = nextEntry + 1
    /\ entries' = Append(entries, nextEntry)
    /\ assistants' = IF assistant THEN assistants \cup {nextEntry} ELSE assistants
    /\ \/ /\ persistError              \* _persist throws
          /\ UNCHANGED <<disk, flags, work, faults, history>>
       \/ /\ ~persistError /\ ~BelongsOnDisk(entries')
          /\ flushed' = FALSE
          /\ overlapped' = (overlapped \/ PastSnapshot)
          /\ UNCHANGED <<disk, needsFullRewrite, ensuredOnDisk, persistError, work, faults,
                         written, glued>>
       \/ /\ ~persistError /\ BelongsOnDisk(entries') /\ ~AppendsInPlace
          /\ Enqueue(Rewrite)
          /\ UNCHANGED <<disk, flags, writer, task, faults, history>>
       \/ /\ ~persistError /\ BelongsOnDisk(entries') /\ AppendsInPlace
          /\ AppendLine(nextEntry)
          /\ overlapped' = (overlapped \/ NotInPlace)
          /\ UNCHANGED <<flushed, needsFullRewrite, ensuredOnDisk, chain, task>>
    /\ UNCHANGED <<process, requests, crashes>>

Request(t) ==
    /\ process = "running"
    /\ requests < MaxRequests
    /\ requests' = requests + 1
    /\ Enqueue(t)
    /\ UNCHANGED <<disk, memory, flags, writer, task, crashes, faults, history>>

(* setSessionName rewrites the header of a session that has a file;        *)
(* rewriteEntries writes entries that were pruned in place.                *)
SetSessionName == primary # None /\ Request(Rewrite)
RewriteEntries == Request(Rewrite)

(* ensureOnDisk: returns at once when the file is up to date.              *)
EnsureOnDisk == ~(flushed /\ ~needsFullRewrite) /\ Request([kind |-> "ensure", want |-> {}])

OnDiskByNow == IF ensuredOnDisk \/ \E e \in ToSet(entries) : e \in assistants
               THEN ToSet(entries) ELSE {}

(* flush() queues a task and throws what went wrong.                       *)
Flush == Request([kind |-> "flush", want |-> OnDiskByNow])

(* close(), which returns at once when there is no writer.                 *)
Close == writer.state # "none" /\ Request([kind |-> "close", want |-> OnDiskByNow])
-----------------------------------------------------------------------------
(* The tasks of the chain, one await after the other.                      *)
Running(kinds, at) ==
    /\ process = "running"
    /\ chain # << >>
    /\ Head(chain).kind \in kinds
    /\ task.at = at

Goto(at) == task' = [task EXCEPT !.at = at]

EndTask ==
    /\ chain' = Tail(chain)
    /\ task' = Idle

\* A task that throws: #queuePersistTask records the first error.  The
\* temporary file of a rewrite is removed (no one ever looks at it).
FailTask ==
    /\ EndTask
    /\ persistError' = TRUE
    /\ UNCHANGED <<flushed, needsFullRewrite, ensuredOnDisk>>

unchangedByTasks == <<memory, requests, crashes, overlapped>>

(* #queuePersistTask: a task behind an error throws instead of running;    *)
(* every task but flush begins with closing the descriptor; a flush syncs  *)
(* it, if there is one, and that may fail.                                 *)
BeginTask ==
    /\ Running({"rewrite", "ensure", "close", "flush"}, "queued")
    /\ \/ /\ persistError \/ Head(chain).kind = "flush"
          /\ EndTask
          /\ UNCHANGED <<flags, writer, faults>>
       \/ /\ ~persistError /\ Head(chain).kind = "flush" /\ writer.state = "open"
          /\ Fault /\ FailTask
          /\ UNCHANGED writer
       \/ /\ ~persistError /\ Head(chain).kind # "flush"
          /\ Goto("closing")
          /\ writer' = IF writer.state = "open" THEN [writer EXCEPT !.state = "closing"] ELSE writer
          /\ UNCHANGED <<flags, chain, faults>>
    /\ UNCHANGED <<unchangedByTasks, disk, written, glued>>

\* The end of #closePersistWriterInternal; if there was nothing to close, an
\* append may have opened a descriptor in the meantime.
ForgetWriter == writer' = IF writer.state = "closing" THEN NoWriter ELSE writer

(* The descriptor is closed: close() is done, a rewrite copies the entries.*)
CloseDone ==
    /\ Running({"close"}, "closing")
    /\ ForgetWriter
    /\ flushed' = TRUE
    /\ EndTask
    /\ UNCHANGED <<unchangedByTasks, disk, needsFullRewrite, ensuredOnDisk, persistError,
                   faults, written, glued>>

TakeSnapshot ==
    /\ Running({"rewrite", "ensure"}, "closing")
    /\ ForgetWriter
    /\ task' = [task EXCEPT !.at = "writing", !.snapshot = entries]
    /\ UNCHANGED <<unchangedByTasks, disk, flags, chain, faults, written, glued>>

(* #writeEntriesAtomically: the temporary file, header first.              *)
WriteTemp ==
    /\ Running({"rewrite", "ensure"}, "writing")
    /\ \/ /\ task' = [task EXCEPT !.at = "renaming", !.temp = FreshInode]
          /\ lines' = [lines EXCEPT ![FreshInode] = <<Header>> \o task.snapshot]
          /\ age' = Touch(FreshInode)
          /\ UNCHANGED <<flags, chain, faults>>
       \/ /\ Fault /\ FailTask
          /\ UNCHANGED <<lines, age>>
    /\ UNCHANGED <<unchangedByTasks, primary, backups, torn, oldFormat, writer, written, glued>>

\* A rename in the session's directory, at its place in the rewrite.
RenameStep(at) ==
    /\ Running({"rewrite", "ensure"}, at)
    /\ UNCHANGED <<unchangedByTasks, lines, torn, age, oldFormat, writer, written, glued>>

(* #replaceSessionFile: done, refused with EPERM, or failed.               *)
Rename ==
    /\ RenameStep("renaming")
    /\ UNCHANGED backups
    /\ \/ primary' = task.temp /\ Goto("replaced") /\ UNCHANGED <<flags, chain, faults>>
       \/ Fault /\ Goto("movingAside") /\ UNCHANGED <<primary, flags, chain>>
       \/ Fault /\ FailTask /\ UNCHANGED primary

(* #replaceSessionFileAfterEperm: the old file is moved aside,             *)
MoveAside ==
    /\ RenameStep("movingAside")
    /\ \/ /\ primary # None
          /\ backups' = backups \cup {primary}
          /\ task' = [task EXCEPT !.at = "retrying", !.backup = primary]
          /\ primary' = None
          /\ UNCHANGED <<flags, chain, faults>>
       \/ /\ primary = None            \* ENOENT
          /\ Goto("retryingBare")
          /\ UNCHANGED <<primary, backups, flags, chain, faults>>
       \/ Fault /\ FailTask /\ UNCHANGED <<primary, backups>>

(* the rename is tried again, with nothing to fall back on,                *)
RetryBare ==
    /\ RenameStep("retryingBare")
    /\ UNCHANGED backups
    /\ \/ primary' = task.temp /\ Goto("replaced") /\ UNCHANGED <<flags, chain, faults>>
       \/ Fault /\ FailTask /\ UNCHANGED primary

(* or with the backup,                                                     *)
Retry ==
    /\ RenameStep("retrying")
    /\ UNCHANGED backups
    /\ \/ primary' = task.temp /\ Goto("removingBackup") /\ UNCHANGED <<flags, chain, faults>>
       \/ Fault /\ Goto("rollingBack") /\ UNCHANGED <<primary, flags, chain>>

(* which goes back when the second rename fails too,                       *)
RollBack ==
    /\ RenameStep("rollingBack")
    /\ FailTask
    /\ \/ /\ primary' = task.backup
          /\ backups' = backups \ {task.backup}
          /\ UNCHANGED faults
       \/ Fault /\ UNCHANGED <<primary, backups>>

(* and is removed, if that works, when it does not.                        *)
RemoveBackup ==
    /\ RenameStep("removingBackup")
    /\ Goto("replaced")
    /\ \/ backups' = backups \ {task.backup} /\ UNCHANGED faults
       \/ Fault /\ UNCHANGED backups
    /\ UNCHANGED <<primary, flags, chain>>

(* The end of #rewriteFile, and of ensureOnDisk if it asked for it.        *)
RewriteDone ==
    /\ Running({"rewrite", "ensure"}, "replaced")
    /\ flushed' = TRUE
    /\ needsFullRewrite' = FALSE
    /\ ensuredOnDisk' = (ensuredOnDisk \/ Head(chain).kind = "ensure")
    /\ written' = written \cup ToSet(task.snapshot)
    /\ glued' = glued \ ToSet(task.snapshot)
    /\ EndTask
    /\ UNCHANGED <<unchangedByTasks, disk, persistError, writer, faults>>

TaskStep ==
    \/ BeginTask \/ CloseDone \/ TakeSnapshot \/ WriteTemp \/ Rename \/ MoveAside
    \/ RetryBare \/ Retry \/ RollBack \/ RemoveBackup \/ RewriteDone
-----------------------------------------------------------------------------
(* The process dies; what was written stays in the page cache.             *)
Crash ==
    /\ process = "running"
    /\ crashes < MaxCrashes
    /\ crashes' = crashes + 1
    /\ process' = "crashed"
    /\ entries' = << >>
    /\ persistError' = FALSE
    /\ writer' = NoWriter /\ chain' = << >> /\ task' = Idle
    /\ UNCHANGED <<disk, assistants, nextEntry, flushed, needsFullRewrite, ensuredOnDisk,
                   requests, faults, history>>

(* The next start scans the directory: recoverOrphanedBackups, then        *)
(* setSessionFile on what is there.                                        *)
Restart ==
    /\ process = "crashed"
    /\ \/ /\ primary = None /\ backups # {}
          /\ primary' = NewestBackup
          /\ backups' = backups \ {NewestBackup}
          /\ UNCHANGED faults
       \/ /\ primary = None /\ backups # {}
          /\ Fault
          /\ UNCHANGED <<primary, backups>>
       \/ /\ primary # None \/ backups = {}
          /\ UNCHANGED <<primary, backups, faults>>
    /\ entries' = Loaded(primary')
    /\ process' = IF primary' # None /\ lines[primary'] # << >> /\ Head(lines[primary']) = Header
                  THEN "running" ELSE "gone"
    /\ flushed' = TRUE
    /\ ensuredOnDisk' = TRUE
    /\ needsFullRewrite' = (primary' \in oldFormat)
    /\ UNCHANGED <<lines, torn, age, oldFormat, assistants, nextEntry, persistError, work,
                   requests, crashes, history>>

Next ==
    \/ \E assistant \in BOOLEAN : AppendEntry(assistant)
    \/ SetSessionName \/ RewriteEntries \/ EnsureOnDisk \/ Flush \/ Close
    \/ TaskStep
    \/ Crash \/ Restart

Spec == Init /\ [][Next]_vars

\* The event loop runs every continuation and a file operation comes back.
FairSpec == Spec /\ WF_vars(TaskStep) /\ WF_vars(Restart)
-----------------------------------------------------------------------------
(***************************************************************************)
(* Properties.                                                             *)
(***************************************************************************)
\* What a finished rewrite or a hot append has written is found again however
\* the process ends, at every step of a rewrite and of its detours, and whatever
\* fragments failing writes leave, unless an entry was appended behind the back
\* of a rewrite.  Only an entry that was itself joined to a fragment is excepted.
SavedSurvives == ~overlapped => written \ glued \subseteq ToSet(Recoverable)

\* When no task is left the file has the entries in their order, none twice and
\* none left out, unless one of them was joined to a fragment: entries point to
\* their parents, and a missing one cuts the history off.  Between two rewrites
\* of the cold path it may have gaps.
FileMatchesEntries ==
    process = "running" /\ chain = << >> /\ ~persistError /\ ~overlapped
    /\ glued \cap ToSet(entries) = {}
        => /\ IsPrefix(Recoverable, entries)
           /\ OnDiskByNow # {} => Recoverable = entries

\* A flush that returns without an error has everything on disk that was
\* appended before it and belongs there, but for what was joined to a fragment.
FlushIsDurable ==
    [][\A t \in ToSet(chain) :
          /\ t.kind = "flush"
          /\ process' = "running"
          /\ chain # << >> /\ chain' = Tail(chain) /\ Head(chain) = t
          /\ ~persistError'
          /\ ~overlapped
          => t.want \ glued' \subseteq ToSet(Recoverable')]_vars

\* Entries that belong on disk get there, though the cold path writes them
\* later, unless persistence has failed or the process died.
EntriesGetWritten ==
    ~(OnDiskByNow \ glued \subseteq ToSet(Recoverable)) ~>
        \/ OnDiskByNow \ glued \subseteq ToSet(Recoverable)
        \/ persistError \/ overlapped \/ process # "running"

\* "fs.writeSync returns once the bytes are in the kernel page cache, so the
\* entry survives": what appendMessage has written in place is found again.
HotAppendSurvives == written \subseteq ToSet(Recoverable)
=============================================================================
