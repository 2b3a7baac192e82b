---------------------------- MODULE ToolSchedule ----------------------------
(***************************************************************************)
(* What a batch of tool calls of one assistant turn promises, whatever the *)
(* promises and the steering queue behind it do:                           *)
(*   - an exclusive call runs alone, and calls that conflict run in the    *)
(*     order the model wrote them;                                         *)
(*   - every call is answered at most once, by its own result, or by a     *)
(*     placeholder once the batch was interrupted;                         *)
(*   - nothing begins after the interruption.                              *)
(* ToolBatch.tla is the code's scheduler and implements this module.       *)
(***************************************************************************)
EXTENDS Integers

CONSTANT NumCalls                     \* tool calls of the assistant turn

Calls == 1..NumCalls

VARIABLES
    conc,         \* conc[i]: the concurrency mode of call i
    phase,        \* phase[i]: "pending", "active" or "finished"
    answer,       \* answer[i]: "none", "executed" or "skipped"
    interrupted   \* a steering message has interrupted the batch

vars == <<conc, phase, answer, interrupted>>

\* Two calls conflict when one of them must run alone.
Conflict(i, j) == conc[i] = "exclusive" \/ conc[j] = "exclusive"

MayGo(i) ==
    /\ phase[i] = "pending"
    /\ \A j \in Calls : j < i /\ Conflict(i, j) => phase[j] = "finished"

Init ==
    /\ conc \in [Calls -> {"shared", "exclusive"}]
    /\ phase = [i \in Calls |-> "pending"]
    /\ answer = [i \in Calls |-> "none"]
    /\ interrupted = FALSE

Begin(i) ==
    /\ MayGo(i)
    /\ ~interrupted
    /\ phase' = [phase EXCEPT ![i] = "active"]
    /\ UNCHANGED <<conc, answer, interrupted>>

\* A call the interruption overtook before it began.
Drop(i) ==
    /\ MayGo(i)
    /\ interrupted
    /\ phase' = [phase EXCEPT ![i] = "finished"]
    /\ UNCHANGED <<conc, answer, interrupted>>

Answer(i) ==
    /\ phase[i] = "active"
    /\ answer[i] = "none"
    /\ answer' = [answer EXCEPT ![i] = IF interrupted THEN "skipped" ELSE "executed"]
    /\ phase' \in {phase, [phase EXCEPT ![i] = "finished"]}
    /\ UNCHANGED <<conc, interrupted>>

\* An answered call gives way to the calls behind it; looking at the
\* steering queue on the way out, it may interrupt the batch.
Finish(i) ==
    /\ phase[i] = "active"
    /\ answer[i] # "none"
    /\ phase' = [phase EXCEPT ![i] = "finished"]
    /\ interrupted' \in {interrupted, TRUE}
    /\ UNCHANGED <<conc, answer>>

\* The batch closes: what is still unanswered gets a placeholder.
Close ==
    /\ \A i \in Calls : phase[i] = "finished"
    /\ \A i \in Calls : answer[i] = "none" => interrupted
    /\ answer' = [i \in Calls |-> IF answer[i] = "none" THEN "skipped" ELSE answer[i]]
    /\ UNCHANGED <<conc, phase, interrupted>>

Next ==
    \/ \E i \in Calls : Begin(i) \/ Drop(i) \/ Answer(i) \/ Finish(i)
    \/ Close

Spec == Init /\ [][Next]_vars
=============================================================================
