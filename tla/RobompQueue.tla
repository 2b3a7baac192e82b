---------------------------- MODULE RobompQueue -----------------------------
(***************************************************************************)
(* The event queue of robomp, the GitHub bot: WorkerPool (queue.py) over   *)
(* the rows of the events table (db.py), the slot pool, and the worker     *)
(* threads that drive the agent's subprocess (worker.py), all under        *)
(* python/robomp/src.                                                      *)
(*                                                                         *)
(* One dispatcher claims rows and starts a task per event; a task waits    *)
(* for a slot, prepares (prep), and hands over to a worker thread (await). *)
(* Tasks and the dispatcher share one event loop; the threads run beside   *)
(* it and share only the cancellation maps with it.  The process may       *)
(* crash, or be stopped by stop(), which drains and then interrupts;       *)
(* either way the next process starts from the rows alone.                 *)
(***************************************************************************)
EXTENDS Integers, Sequences, FiniteSets, SequencesExt

CONSTANTS
    Events,          \* delivery ids
    Issues,          \* issue keys
    Slots,           \* the slot uids
    NoEvent, NoSlot,
    MaxReplays,      \* bound: replays and re-triggers in all
    MaxRestarts,     \* bound: crashes and stops in all
    GracefulStops,   \* the process may be stopped
    Crashes          \* the process may crash

ASSUME ConstantsAssumption ==
    /\ MaxReplays \in Nat /\ MaxRestarts \in Nat
    /\ NoEvent \notin Events /\ NoSlot \notin Slots
    /\ GracefulStops \in BOOLEAN /\ Crashes \in BOOLEAN

VARIABLES
    key,               \* key[e]: the issue of event e
    \* the events table
    row,               \* row[e]: state of its row
    arrival,           \* the rows in the order of received_at
    \* the dispatcher
    disp,              \* where it stands
    claimed,           \* the row it has claimed and not handed on
    wakeup,            \* _wakeup
    inflight,          \* _inflight
    \* the tasks
    task,              \* task[e]: where _run_event of e stands
    slot,              \* slot[e]: the slot it holds
    \* the worker threads
    thread,            \* thread[e]: where _run_rpc_blocking of e stands
    uid,               \* uid[e]: the slot its subprocess runs under
    killed,            \* events whose subprocess was killed
    \* cancellation
    hooks,             \* _cancel_hooks
    cancelled,         \* _cancelled
    shutdownCancelled, \* _shutdown_cancelled
    cancelling,        \* events whose task has a CancelledError coming
    \* stop()
    stop,              \* where it stands
    stillRunning,      \* tasks it has yet to interrupt
    \* counters and history
    replays, restarts,
    asked              \* events an operator cancelled while their task was alive

table == <<row, arrival>>
dispatcher == <<disp, claimed, wakeup, inflight>>
tasks == <<task, slot>>
threads == <<thread, uid, killed>>
cancels == <<hooks, cancelled, shutdownCancelled, cancelling>>
stopping == <<stop, stillRunning>>
counters == <<replays, restarts>>
vars == <<key, table, dispatcher, tasks, threads, cancels, stopping, counters, asked>>

RowStates == {"absent", "queued", "running", "done", "failed"}
TypeOK ==
    /\ key \in [Events -> Issues]
    /\ row \in [Events -> RowStates]
    /\ arrival \in Seq(Events) /\ IsInjective(arrival)
    /\ ToSet(arrival) = {e \in Events : row[e] # "absent"}
    /\ disp \in {"top", "claimed", "empty", "backoff", "sleep", "off"}
    /\ claimed \in Events \cup {NoEvent}
    /\ wakeup \in BOOLEAN
    /\ inflight \in SUBSET Issues
    /\ task \in [Events -> {"none", "slot", "prep", "await", "release"}]
    /\ slot \in [Events -> Slots \cup {NoSlot}]
    /\ thread \in [Events -> {"none", "pre", "checked", "working", "ok", "error"}]
    /\ uid \in [Events -> Slots \cup {NoSlot}]
    /\ killed \subseteq Events /\ hooks \subseteq Events /\ cancelled \subseteq Events
    /\ shutdownCancelled \subseteq Events /\ cancelling \subseteq Events
    /\ stillRunning \subseteq Events /\ asked \subseteq Events
    /\ stop \in {"no", "drain", "interrupt", "settle", "stopped"}
    /\ replays \in 0..MaxReplays /\ restarts \in 0..MaxRestarts

Init ==
    /\ key \in [Events -> Issues]
    /\ disp = "top" /\ claimed = NoEvent /\ wakeup = FALSE /\ inflight = {}
    /\ task = [e \in Events |-> "none"] /\ slot = [e \in Events |-> NoSlot]
    /\ thread = [e \in Events |-> "none"] /\ uid = [e \in Events |-> NoSlot]
    /\ killed = {} /\ hooks = {} /\ cancelled = {} /\ shutdownCancelled = {}
    /\ cancelling = {} /\ stop = "no" /\ stillRunning = {}
    /\ row = [e \in Events |-> "absent"]
    /\ arrival = << >>
    /\ replays = 0 /\ restarts = 0 /\ asked = {}
-----------------------------------------------------------------------------
\* ORDER BY received_at LIMIT 1, among the queued rows.
OldestQueued(e) ==
    \E i \in DOMAIN arrival :
        /\ arrival[i] = e /\ row[e] = "queued"
        /\ \A j \in 1..(i - 1) : row[arrival[j]] # "queued"
NothingQueued == \A e \in Events : row[e] # "queued"
\* Mutant of FreeSlots: a slot is free once its thread is on its way.
SlotsNotInPrep == Slots \ {slot[e] : e \in {f \in Events : task[f] = "prep"}}
FreeSlots == Slots \ {slot[e] : e \in Events}
Spawned(e) == thread[e] \in {"checked", "working"}
\* _inflight_lock: the dispatcher keeps it while it claims and backs off.
LockFree == disp \notin {"claimed", "empty", "backoff"}
\* The task of e is before its finally clause.
Alive(e) == task[e] \in {"slot", "prep", "await"}
Inactive(e) == row[e] \in {"done", "failed"}

(* The server and the command line.                                        *)
\* webhook: a delivery that is not known yet becomes a row; INSERT OR IGNORE
\* drops a duplicate.
Record(e) ==
    /\ stop = "no"
    /\ row[e] = "absent"
    /\ row' = [row EXCEPT ![e] = "queued"]
    /\ arrival' = Append(arrival, e)
    /\ wakeup' = TRUE
    /\ UNCHANGED <<key, disp, claimed, inflight, tasks, threads, cancels, stopping, counters, asked>>

\* /replay and the retry of /api/trigger requeue a row where it stands and wake
\* the pool; `robomp replay` does so from another process and wakes nobody.
Replay(e) ==
    /\ replays < MaxReplays
    /\ Inactive(e)
    /\ replays' = replays + 1
    /\ row' = [row EXCEPT ![e] = "queued"]
    /\ \/ stop = "no" /\ wakeup' = TRUE
       \/ UNCHANGED wakeup
    /\ UNCHANGED <<key, arrival, disp, claimed, inflight, tasks, threads, cancels,
                   stopping, restarts, asked>>

\* A manual triage replaces the row by a new one (replace_event_if_state_in).
Renewed(e) ==
    LET i == CHOOSE i \in DOMAIN arrival : arrival[i] = e
    IN  Append(RemoveAt(arrival, i), e)
Retrigger(e) ==
    /\ stop = "no"
    /\ replays < MaxReplays
    /\ Inactive(e)
    /\ replays' = replays + 1
    /\ row' = [row EXCEPT ![e] = "queued"]
    /\ arrival' = Renewed(e)
    /\ wakeup' = TRUE
    /\ UNCHANGED <<key, disp, claimed, inflight, tasks, threads, cancels, stopping, restarts, asked>>

\* /api/cancel and cancel_event: any known delivery may be named.
Cancel(e) ==
    /\ stop = "no"
    /\ row[e] # "absent"
    /\ cancelled' = cancelled \cup {e}
    /\ hooks' = hooks \ {e}
    /\ killed' = killed \cup (hooks \cap {e})
    /\ asked' = IF Alive(e) THEN asked \cup {e} ELSE asked
    /\ UNCHANGED <<key, table, dispatcher, tasks, thread, uid, shutdownCancelled, cancelling,
                   stopping, counters>>
-----------------------------------------------------------------------------
(* The dispatcher: _dispatch_loop and _claim_next_unique.                  *)
dispUnchanged == <<key, arrival, tasks, threads, cancels, stopping, counters, asked>>

\* claim_next_event, on a thread: the oldest queued row becomes running.
Claim ==
    /\ disp = "top"
    /\ \/ \E e \in Events :
           /\ OldestQueued(e)
           /\ row' = [row EXCEPT ![e] = "running"]
           /\ claimed' = e
           /\ disp' = "claimed"
       \/ /\ NothingQueued
          /\ disp' = "empty"
          /\ UNCHANGED <<row, claimed>>
    /\ UNCHANGED <<dispUnchanged, wakeup, inflight>>

\* Mutant of Busy: the guard looks at the row instead of the issue.
BusyRow(e) == task[e] # "none"
\* Another task is at work on the issue.
Busy(e) == key[e] \in inflight

Admit ==
    /\ disp = "claimed"
    /\ ~Busy(claimed)
    /\ inflight' = inflight \cup {key[claimed]}
    /\ task' = [task EXCEPT ![claimed] = "slot"]
    /\ claimed' = NoEvent
    /\ disp' = "top"
    /\ UNCHANGED <<key, table, slot, wakeup, threads, cancels, stopping, counters, asked>>

\* Mutant of RowPutBack: the row is requeued only from an inactive state.
RowLeft == row
\* requeue_event(from_states = running).
RowPutBack == [row EXCEPT ![claimed] = "queued"]
PutBack ==
    /\ disp = "claimed"
    /\ Busy(claimed)
    /\ row' = RowPutBack
    /\ claimed' = NoEvent
    /\ disp' = "backoff"
    /\ UNCHANGED <<dispUnchanged, wakeup, inflight>>

\* Nothing to run: the lock is let go, the flag cleared, and the wait begins.
\* What set the flag since the claim is forgotten.
FallAsleep ==
    /\ disp \in {"empty", "backoff"}
    /\ wakeup' = FALSE
    /\ disp' = "sleep"
    /\ UNCHANGED <<dispUnchanged, row, claimed, inflight>>

\* Mutant of WaitOver: the wait has no timeout.
WaitWoken == wakeup
\* wait_for(_wakeup.wait(), timeout = 10.0): woken, or timed out.
WaitOver == TRUE
WakeUp ==
    /\ disp = "sleep"
    /\ WaitOver
    /\ disp' = "top"
    /\ UNCHANGED <<dispUnchanged, row, claimed, wakeup, inflight>>
-----------------------------------------------------------------------------
(* A task: _run_event.                                                     *)
\* Nothing it waits for has been cancelled.
Goes(e) == e \notin cancelling

AcquireSlot(e) ==
    /\ task[e] = "slot" /\ Goes(e)
    /\ \E s \in FreeSlots : slot' = [slot EXCEPT ![e] = s]
    /\ task' = [task EXCEPT ![e] = "prep"]
    /\ UNCHANGED <<key, table, dispatcher, threads, cancels, stopping, counters, asked>>

\* run_task: _run_rpc_blocking on a worker thread.
StartThread(e) ==
    /\ task[e] = "prep" /\ Goes(e)
    /\ task' = [task EXCEPT ![e] = "await"]
    /\ thread' = [thread EXCEPT ![e] = "pre"]
    /\ uid' = [uid EXCEPT ![e] = slot[e]]
    /\ UNCHANGED <<key, table, dispatcher, slot, killed, cancels, stopping, counters, asked>>

\* Mutant of RowOnReturn: an operator's cancel is only seen as an exception.
RowDone(e) == "done"
\* _dispatch_and_mark when the work has returned.
RowOnReturn(e) == IF e \in cancelled THEN "failed" ELSE "done"
\* The except clause when it has raised.
RowOnError(e) == IF e \in shutdownCancelled THEN "running" ELSE "failed"

\* The finally clause, up to its wait for the lock.  Reaping the slot kills
\* what runs under it; a thread that is still going stays behind.
Finally(e, r) ==
    LET left == thread[e] \in {"pre", "checked", "working"}
    IN  /\ row' = [row EXCEPT ![e] = r]
        /\ task' = [task EXCEPT ![e] = "release"]
        /\ slot' = [slot EXCEPT ![e] = NoSlot]
        /\ thread' = IF left THEN thread ELSE [thread EXCEPT ![e] = "none"]
        /\ uid' = IF left THEN uid ELSE [uid EXCEPT ![e] = NoSlot]
        /\ killed' = (IF left THEN killed ELSE killed \ {e})
                     \cup {f \in Events : slot[e] # NoSlot /\ Spawned(f) /\ uid[f] = slot[e]}
        /\ hooks' = hooks \ {e}
        /\ cancelled' = cancelled \ {e}
        /\ shutdownCancelled' = shutdownCancelled \ {e}
        /\ cancelling' = cancelling \ {e}
        /\ asked' = IF r = "running" THEN asked ELSE asked \ {e}
        /\ UNCHANGED <<key, arrival, dispatcher, stopping, counters>>

\* An event that needs no agent, or whose preparation fails.
EndWithoutThread(e) ==
    /\ task[e] = "prep" /\ Goes(e)
    /\ \E r \in {RowOnReturn(e), RowOnError(e)} : Finally(e, r)

EndWithThread(e) ==
    /\ task[e] = "await" /\ Goes(e)
    /\ \/ thread[e] = "ok" /\ Finally(e, RowOnReturn(e))
       \/ thread[e] = "error" /\ Finally(e, RowOnError(e))

\* The CancelledError of stop() is not an Exception: only finally runs.
CancelTask(e) ==
    /\ e \in cancelling
    /\ Alive(e)
    /\ Finally(e, row[e])

\* _release, once the lock is free.
Release(e) ==
    /\ task[e] = "release"
    /\ LockFree
    /\ task' = [task EXCEPT ![e] = "none"]
    /\ inflight' = inflight \ {key[e]}
    /\ UNCHANGED <<key, table, disp, claimed, wakeup, slot, threads, cancels, stopping, counters, asked>>
-----------------------------------------------------------------------------
(* A worker thread: _run_rpc_blocking.                                     *)
threadUnchanged == <<key, table, dispatcher, tasks, stopping, counters, asked,
                     cancelled, shutdownCancelled, cancelling>>

\* The subprocess is up and _arm_cancel has looked for a cancellation.
SpawnAndCheck(e) ==
    /\ thread[e] = "pre"
    /\ IF e \in cancelled
       THEN /\ thread' = [thread EXCEPT ![e] = "working"]
            /\ killed' = killed \cup {e}
       ELSE /\ thread' = [thread EXCEPT ![e] = "checked"]
            /\ UNCHANGED killed
    /\ UNCHANGED <<threadUnchanged, uid, hooks>>

\* _arm_cancel stores the hook.
Arm(e) ==
    /\ thread[e] = "checked"
    /\ thread' = [thread EXCEPT ![e] = "working"]
    /\ hooks' = hooks \cup {e}
    /\ UNCHANGED <<threadUnchanged, uid, killed>>

\* The subprocess never came up, or the turn is over, by itself, by a kill or
\* by the hard timeout; nobody hears of it when the task is gone.
ThreadEnds(e) ==
    /\ \/ thread[e] = "pre" /\ UNCHANGED hooks
       \/ thread[e] = "working" /\ hooks' = hooks \ {e}
    /\ IF task[e] = "await"
       THEN /\ \E r \in {"ok", "error"} :
                /\ thread[e] = "pre" => r = "error"
                /\ thread' = [thread EXCEPT ![e] = r]
            /\ UNCHANGED <<uid, killed>>
       ELSE /\ thread' = [thread EXCEPT ![e] = "none"]
            /\ uid' = [uid EXCEPT ![e] = NoSlot]
            /\ killed' = killed \ {e}
    /\ UNCHANGED threadUnchanged
-----------------------------------------------------------------------------
(* stop(), crashes and restarts.                                           *)
Interruptible == {e \in stillRunning : Alive(e)}

\* The dispatcher is cancelled, wherever it is; a row it has just claimed
\* stays running.
BeginStop ==
    /\ GracefulStops
    /\ restarts < MaxRestarts
    /\ stop = "no"
    /\ disp' = "off"
    /\ claimed' = NoEvent
    /\ stop' = IF \A e \in Events : task[e] = "none" THEN "stopped" ELSE "drain"
    /\ wakeup' = TRUE
    /\ UNCHANGED <<key, table, inflight, tasks, threads, cancels, stillRunning, counters, asked>>

\* The drain is over: every task has ended, or the time is up.
EndDrain ==
    /\ stop = "drain"
    /\ \A e \in Events : task[e] # "release"
    /\ stillRunning' = {e \in Events : Alive(e)}
    /\ stop' = IF stillRunning' = {} THEN "stopped" ELSE "interrupt"
    /\ UNCHANGED <<key, table, dispatcher, tasks, threads, cancels, counters, asked>>

\* The loop over still_running, in any order: tasks without a hook are
\* cancelled, and it gives way to the others only while a hook runs.
Interrupt ==
    /\ stop = "interrupt"
    /\ \E first \in SUBSET (Interruptible \ hooks) :
        \/ /\ first = Interruptible
           /\ stillRunning' = {}
           /\ stop' = "settle"
           /\ cancelling' = cancelling \cup first
           /\ shutdownCancelled' = shutdownCancelled \cup first
           /\ UNCHANGED <<hooks, killed>>
        \/ \E h \in Interruptible \cap hooks :
           /\ stillRunning' = Interruptible \ (first \cup {h})
           /\ cancelling' = cancelling \cup first
           /\ shutdownCancelled' = shutdownCancelled \cup first \cup {h}
           /\ hooks' = hooks \ {h}
           /\ killed' = killed \cup {h}
           /\ UNCHANGED stop
    /\ UNCHANGED <<key, table, dispatcher, tasks, thread, uid, cancelled, counters, asked>>

\* stop() waits a little for the tasks to settle, and returns.
EndStop ==
    /\ stop = "settle"
    /\ stop' = "stopped"
    /\ UNCHANGED <<key, table, dispatcher, tasks, threads, cancels, stillRunning, counters, asked>>

\* Mutant of RowsAtStart: rows found running are left alone.
RowsLeft == row
\* start: reset_stuck_running.
RowsAtStart == [e \in Events |-> IF row[e] = "running" THEN "queued" ELSE row[e]]
Restart ==
    /\ \/ stop = "stopped"
       \/ Crashes
    /\ restarts < MaxRestarts
    /\ restarts' = restarts + 1
    /\ disp' = "top" /\ claimed' = NoEvent /\ wakeup' = FALSE /\ inflight' = {}
    /\ task' = [e \in Events |-> "none"] /\ slot' = [e \in Events |-> NoSlot]
    /\ thread' = [e \in Events |-> "none"] /\ uid' = [e \in Events |-> NoSlot]
    /\ killed' = {} /\ hooks' = {} /\ cancelled' = {} /\ shutdownCancelled' = {}
    /\ cancelling' = {} /\ stop' = "no" /\ stillRunning' = {}
    /\ row' = RowsAtStart
    /\ asked' = {}
    /\ UNCHANGED <<key, arrival, replays>>

\* The operators are idle, or every event has come to its end.
Quiet == NothingQueued /\ (\A e \in Events : task[e] = "none") /\ UNCHANGED vars

DispatcherStep == Claim \/ Admit \/ PutBack \/ FallAsleep \/ WakeUp
TaskStep(e) ==
    StartThread(e) \/ EndWithoutThread(e) \/ EndWithThread(e) \/ CancelTask(e)
ThreadStep(e) == SpawnAndCheck(e) \/ Arm(e) \/ ThreadEnds(e)
StopStep == EndDrain \/ Interrupt \/ EndStop

Next ==
    \/ \E e \in Events :
        \/ Record(e) \/ Replay(e) \/ Retrigger(e) \/ Cancel(e)
        \/ AcquireSlot(e) \/ TaskStep(e) \/ Release(e) \/ ThreadStep(e)
    \/ DispatcherStep
    \/ BeginStop \/ StopStep \/ Restart
    \/ Quiet

Spec == Init /\ [][Next]_vars

\* The event loop and the threads run what is ready; a turn ends at the latest
\* by its hard timeout.  Slots and the lock are handed out in the order they
\* were asked for (asyncio.Queue, asyncio.Lock), so no waiter is passed over
\* for ever.  A stopped process is started again.
FairSpec ==
    /\ Spec
    /\ WF_vars(DispatcherStep) /\ WF_vars(StopStep)
    /\ WF_vars(stop = "stopped" /\ Restart)
    /\ \A e \in Events :
        /\ SF_vars(AcquireSlot(e)) /\ SF_vars(Release(e))
        /\ WF_vars(TaskStep(e)) /\ WF_vars(ThreadStep(e))
-----------------------------------------------------------------------------
(***************************************************************************)
(* Properties.                                                             *)
(***************************************************************************)
Going(e) == Alive(e) \/ thread[e] \in {"pre", "checked", "working"}

\* Work on one issue is serialized (the _inflight set of the README): no two
\* events of an issue are at work at once, threads left behind included.
OneRunPerIssue ==
    \A e, f \in Events : e # f /\ key[e] = key[f] /\ Going(e) => ~Going(f)

\* Outside stop() a row says running exactly while the dispatcher or a task of
\* this process has it: no row is stuck, and none is handed out twice.
RowsMatchTasks ==
    stop = "no" => \A e \in Events : row[e] = "running" <=> claimed = e \/ Alive(e)

\* A delivery that was cancelled while it ran never counts as done, however the
\* cancel and the end of the turn cross (cancel_event).
CancelledNeverDone ==
    [][\A e \in asked : row[e] = "running" => row'[e] # "done"]_vars

\* "A previous task's straggler process must not survive long enough to observe
\* or interfere with the next task assigned to that UID" (_reap_slot): until
\* stop() interrupts tasks, a live subprocess shares its slot with no other task.
NoStraggler ==
    stop \in {"no", "drain"} =>
        \A e, f \in Events :
            e # f /\ Spawned(e) /\ e \notin killed => slot[f] = NoSlot \/ slot[f] # uid[e]

\* Every queued event is worked off, also when nobody wakes the dispatcher, and
\* over crashes and stops.
EventuallyProcessed ==
    \A e \in Events : row[e] = "queued" ~> row[e] \in {"done", "failed"}
=============================================================================
