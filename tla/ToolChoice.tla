------------------------------ MODULE ToolChoice ------------------------------
(***************************************************************************)
(* Forced tool choices: the queue of session/tool-choice-queue.ts, who     *)
(* pushes onto it, and how the turns of a run take from it.                *)
(*                                                                         *)
(* A request of the run takes the next choice and leaves it "in flight".   *)
(* The choice is settled by a listener of the run's events, the turn_end   *)
(* branch of AgentSession's #handleAgentEvent, which first awaits the      *)
(* hooks of extensions: the run does not wait for it.  What an aborted     *)
(* turn did not serve goes back to the head of the queue, if its owner     *)
(* wants that.  The choices that matter are /force's [tool, "none"], the   *)
(* resolve call a preview asks for, whose handler is found through the     *)
(* choice in flight, and the todo call a new prompt begins with.           *)
(***************************************************************************)
EXTENDS Integers, Sequences, FiniteSets, SequencesExt

CONSTANTS
    MaxForces,     \* bound: /force commands
    MaxPreviews,   \* bound: previews that ask to be resolved
    MaxPrompts,    \* bound: prompts of the user
    MaxTurns,      \* bound: requests to the model
    MaxAborts,     \* bound: aborts
    MaxFaults      \* bound: requests that throw or leak

ASSUME BoundsAssumption ==
    /\ MaxForces \in Nat /\ MaxPreviews \in Nat /\ MaxPrompts \in Nat
    /\ MaxTurns \in Nat /\ MaxAborts \in Nat /\ MaxFaults \in Nat

Prompts == 1..MaxPrompts
Labels == {"user-force", "pending-action", "eager-todo"}

\* A choice knows its directive; a second part is the "none" of a /force.
Forced == [label : Labels, owner : 0..(MaxForces + MaxPreviews + MaxPrompts), part : 1..2]
NoChoice == [label |-> "none", owner |-> 0, part |-> 0]

VARIABLES
    \* ToolChoiceQueue
    queue,       \* #queue: directives, each with the choices it has yet to yield
    inFlight,    \* #inFlight: the choice yielded, or NoChoice
    inFlightOf,  \* the label its directive has by now
    \* AgentSession
    prompts,     \* where each prompt stands, and whether an abort has outdated its setup
    promptInFlightCount,
    ending,      \* turn_end listeners still awaiting the hooks: their turn and verdict
    abort,       \* how far abort() has come
    \* the run
    runner,      \* the prompt that started it
    turn,        \* where the turn stands
    serving,     \* the choice its request was made with
    \* bounds and history
    forced, previews, turns, aborts, faults,
    resolved,    \* the choices resolved, in order
    lost,        \* a request has ended without a turn_end
    overtaken,   \* a request was made while another's choice was to be settled
    snatched     \* the end of an abort has rejected the choice of the turn under way

choices == <<queue, inFlight, inFlightOf>>
session == <<prompts, promptInFlightCount, runner>>
run == <<turn, serving, turns>>
bounds == <<forced, previews, aborts, faults>>
history == <<resolved, lost, overtaken, snatched>>
choiceVars == <<choices, session, ending, abort, run, bounds, history>>

DirectiveLabels == Labels \cup {"user-force-requeued", "pending-action-requeued"}
Directives == [label : DirectiveLabels, values : Seq(Forced)]

PromptStates == {"none", "setup", "stale", "retrying", "running", "over"}

ChoiceTypeOK ==
    /\ queue \in Seq(Directives)
    /\ inFlight \in Forced \cup {NoChoice} /\ serving \in Forced \cup {NoChoice}
    /\ inFlightOf \in DirectiveLabels \cup {"none"}
    /\ prompts \in [Prompts -> PromptStates]
    /\ promptInFlightCount \in 0..1 /\ runner \in 0..MaxPrompts
    /\ ending \subseteq [turn : 1..MaxTurns, verdict : {"resolve", "reject"}]
    /\ abort \in {"none", "waiting", "resetting"}
    /\ turn \in {"none", "request", "answering", "tools"}
    /\ turns \in 0..MaxTurns
    /\ forced \in 0..MaxForces /\ previews \in 0..MaxPreviews
    /\ aborts \in 0..MaxAborts /\ faults \in 0..MaxFaults
    /\ resolved \in Seq(Forced)
    /\ lost \in BOOLEAN /\ overtaken \in BOOLEAN /\ snatched \in BOOLEAN

ChoiceInit ==
    /\ queue = << >> /\ inFlight = NoChoice /\ inFlightOf = "none"
    /\ prompts = [p \in Prompts |-> "none"]
    /\ promptInFlightCount = 0 /\ runner = 0
    /\ ending = {} /\ abort = "none"
    /\ turn = "none" /\ serving = NoChoice /\ turns = 0
    /\ forced = 0 /\ previews = 0 /\ aborts = 0 /\ faults = 0
    /\ resolved = << >> /\ lost = FALSE /\ overtaken = FALSE /\ snatched = FALSE
-----------------------------------------------------------------------------
(* The queue.                                                              *)
Directive(label, owner) ==
    [label |-> label,
     values |-> [i \in 1..(IF label = "user-force" THEN 2 ELSE 1) |->
                    [label |-> label, owner |-> owner, part |-> i]]]

ClearInFlight == inFlight' = NoChoice /\ inFlightOf' = "none"

\* Mutant of NextToolChoice: a directive is dropped with its first choice.
NextToolChoiceOnce ==
    /\ queue' = IF queue = << >> THEN queue ELSE Tail(queue)
    /\ IF queue = << >>
       THEN serving' = NoChoice /\ UNCHANGED <<inFlight, inFlightOf>>
       ELSE /\ serving' = Head(Head(queue).values)
            /\ inFlight' = serving' /\ inFlightOf' = Head(queue).label

\* nextToolChoice.  A directive stays at the head, with nothing more to yield,
\* until it is asked again; nothing is cleared when there is nothing to yield.
NextToolChoice ==
    LET first == SelectInSeq(queue, LAMBDA d : d.values # << >>) IN
    IF first = 0
    THEN /\ queue' = << >>
         /\ serving' = NoChoice
         /\ UNCHANGED <<inFlight, inFlightOf>>
    ELSE LET directive == queue[first]
         IN  /\ serving' = Head(directive.values)
             /\ inFlight' = serving'
             /\ inFlightOf' = directive.label
             /\ queue' = <<[directive EXCEPT !.values = Tail(@)]>>
                         \o SubSeq(queue, first + 1, Len(queue))

\* resolve().
Resolve ==
    IF inFlight = NoChoice
    THEN UNCHANGED <<choices, resolved>>
    ELSE /\ resolved' = Append(resolved, inFlight)
         /\ ClearInFlight
         /\ UNCHANGED queue

Requeued(label) ==
    IF label \in {"user-force", "user-force-requeued"}
    THEN "user-force-requeued" ELSE "pending-action-requeued"

\* Mutant of Rejected: what was lost goes to the end of the queue.
RejectedLast ==
    IF inFlight = NoChoice \/ inFlight.label = "eager-todo" THEN queue
    ELSE Append(queue, [label |-> Requeued(inFlightOf), values |-> <<inFlight>>])

\* reject(): /force and previews answer "requeue", the todo call has no opinion.
\* The label grows a second "-requeued" when it is lost again.
Rejected ==
    IF inFlight = NoChoice \/ inFlight.label = "eager-todo" THEN queue
    ELSE <<[label |-> Requeued(inFlightOf), values |-> <<inFlight>>]>> \o queue

Reject == queue' = Rejected /\ ClearInFlight

\* The directives of q that have another label, in their order.
Without(q, label) ==
    LET kept == {i \in DOMAIN q : q[i].label # label}
        Rank(i) == Cardinality({j \in kept : j <= i})
    IN  [n \in 1..Cardinality(kept) |-> q[CHOOSE i \in kept : Rank(i) = n]]

\* removeByLabel: the choice in flight is rejected first if it has the label.
RemoveByLabel(label) ==
    /\ IF inFlightOf = label THEN ClearInFlight ELSE UNCHANGED <<inFlight, inFlightOf>>
    /\ queue' = Without(IF inFlightOf = label THEN Rejected ELSE queue, label)
-----------------------------------------------------------------------------
(* Prompts.                                                                *)

\* setForcedToolChoice, at any time.
SetForcedToolChoice ==
    /\ forced < MaxForces
    /\ forced' = forced + 1
    /\ queue' = Append(queue, Directive("user-force", forced'))
    /\ UNCHANGED <<inFlight, inFlightOf, session, ending, abort, run, previews, aborts, faults,
                   history>>

\* A prompt of the user, when the session is not streaming.  It may want the model
\* to begin with its todo list, unless the user has asked for something else.
\* Prompts are numbered as they begin.
PromptBegins(p, eager) ==
    /\ prompts[p] = "none" /\ \A q \in 1..(p - 1) : prompts[q] # "none"
    /\ turn = "none" /\ promptInFlightCount = 0
    /\ prompts' = [prompts EXCEPT ![p] = "setup"]
    /\ promptInFlightCount' = 1
    /\ eager => ~\E d \in ToSet(queue) : d.label = "user-force"
    /\ queue' = IF eager THEN Append(queue, Directive("eager-todo", p)) ELSE queue
    /\ UNCHANGED <<inFlight, inFlightOf, runner, ending, abort, run, bounds, history>>

\* #promptAgentWithIdleRetry: the setup is over, but another prompt's run is on.
\* An abort is not looked for any more.
PromptWaits(p) ==
    /\ prompts[p] = "setup" /\ turn # "none"
    /\ prompts' = [prompts EXCEPT ![p] = "retrying"]
    /\ UNCHANGED <<choices, promptInFlightCount, runner, ending, abort, run, bounds, history>>

\* The run begins, if no abort has begun since the setup did.
PromptRuns(p) ==
    /\ prompts[p] \in {"setup", "retrying"} /\ turn = "none"
    /\ prompts' = [prompts EXCEPT ![p] = "running"]
    /\ runner' = p
    /\ turn' = "request"
    /\ UNCHANGED <<choices, promptInFlightCount, ending, abort, serving, turns, bounds, history>>

\* prompt()'s finally: after its run, after a setup that failed or was overtaken
\* by an abort, and whatever prompt has begun since.
PromptEnds(p) ==
    /\ prompts[p] \in {"setup", "stale", "retrying", "running"}
    /\ prompts[p] = "running" /\ runner = p => turn = "none"
    /\ prompts' = [prompts EXCEPT ![p] = "over"]
    /\ promptInFlightCount' = 0
    /\ RemoveByLabel("eager-todo")
    /\ UNCHANGED <<runner, ending, abort, run, bounds, history>>
-----------------------------------------------------------------------------
(* Turns.                                                                  *)

\* The request of a turn.  If the listener of the turn before has not come back
\* from the hooks of the extensions, it will settle this turn's choice.
Request ==
    /\ turn = "request" /\ turns < MaxTurns
    /\ turns' = turns + 1
    /\ NextToolChoice
    /\ turn' = "answering"
    /\ overtaken' = (overtaken \/ ending # {} \/ lost)
    /\ snatched' = FALSE
    /\ UNCHANGED <<session, ending, abort, bounds, resolved, lost>>

\* The request throws, and the run ends without a turn_end; or a leak of the
\* model's channel markup makes the loop ask again.
RequestLost(next) ==
    /\ turn = "answering" /\ faults < MaxFaults
    /\ faults' = faults + 1
    /\ turn' = next
    /\ lost' = TRUE
    /\ UNCHANGED <<choices, session, ending, abort, serving, turns, forced, previews, aborts,
                   resolved, overtaken, snatched>>

\* The turn_end event wakes the listener, which starts to await the hooks.
TurnEnds(verdict) == ending' = ending \cup {[turn |-> turns, verdict |-> verdict]}

\* The answer is an error, or was aborted: turn_end, and the run is over.
AnswerFails ==
    /\ turn = "answering"
    /\ TurnEnds("reject")
    /\ turn' = "none"
    /\ UNCHANGED <<choices, session, abort, serving, turns, bounds, history>>

\* Mutant of AnswerComes: the choice is settled with the answer, not with the turn.
AnswerComesSettled ==
    /\ turn = "answering"
    /\ TurnEnds("resolve")
    /\ turn' = "tools"
    /\ UNCHANGED <<choices, session, abort, serving, turns, bounds, history>>

AnswerComes ==
    /\ turn = "answering"
    /\ turn' = "tools"
    /\ UNCHANGED <<choices, session, ending, abort, serving, turns, bounds, history>>

\* queueResolveHandler: a tool shows a preview and asks for the resolve call
\* next; so does a resolve call whose apply has thrown.
Preview ==
    /\ turn = "tools" /\ previews < MaxPreviews
    /\ previews' = previews + 1
    /\ queue' = <<Directive("pending-action", previews')>> \o queue
    /\ UNCHANGED <<inFlight, inFlightOf, session, ending, abort, run, forced, aborts, faults,
                   history>>

\* The tools are done: turn_end, and another turn or none.
ToolsDone ==
    /\ turn = "tools"
    /\ TurnEnds("resolve")
    /\ turn' \in {"request", "none"}
    /\ UNCHANGED <<choices, session, abort, serving, turns, bounds, history>>

\* No more requests than the bound allows.
RunCapped ==
    /\ turn = "request" /\ turns = MaxTurns
    /\ turn' = "none"
    /\ UNCHANGED <<choices, session, ending, abort, serving, turns, bounds, history>>

\* The turn_end branch of #handleAgentEvent, after its awaits.
SettleInFlight(listener) ==
    IF listener.verdict = "reject" THEN Reject /\ UNCHANGED resolved ELSE Resolve

TurnEndHandled(listener) ==
    /\ listener \in ending
    /\ ending' = ending \ {listener}
    /\ SettleInFlight(listener)
    /\ UNCHANGED <<session, abort, run, bounds, lost, overtaken, snatched>>
-----------------------------------------------------------------------------
\* abort() outdates the prompts that are being set up.
AbortBegins ==
    /\ abort = "none" /\ aborts < MaxAborts
    /\ aborts' = aborts + 1
    /\ abort' = "waiting"
    /\ prompts' = [p \in Prompts |-> IF prompts[p] = "setup" THEN "stale" ELSE prompts[p]]
    /\ UNCHANGED <<choices, promptInFlightCount, runner, ending, run, forced, previews, faults,
                   history>>

\* The run is over; while the goal's accounting is awaited, another may begin.
AbortWaits ==
    /\ abort = "waiting" /\ turn = "none"
    /\ abort' = "resetting"
    /\ UNCHANGED <<choices, session, ending, run, bounds, history>>

\* Mutant of AbortEnds: the choice in flight is left to the listener.
AbortEndsTrusting ==
    /\ abort = "resetting"
    /\ abort' = "none"
    /\ promptInFlightCount' = 0
    /\ lost' = FALSE
    /\ overtaken' = (overtaken \/ ending # {})
    /\ snatched' = (snatched \/ turn \in {"answering", "tools"})
    /\ UNCHANGED <<choices, prompts, runner, ending, run, bounds, resolved>>

\* Prompts that are still unwinding no longer count, and what is in flight is
\* rejected, were it the choice of a run that has begun since.
AbortEnds ==
    /\ abort = "resetting"
    /\ abort' = "none"
    /\ promptInFlightCount' = 0
    /\ Reject
    /\ lost' = FALSE
    /\ overtaken' = (overtaken \/ ending # {})
    /\ snatched' = (snatched \/ turn \in {"answering", "tools"})
    /\ UNCHANGED <<prompts, runner, ending, run, bounds, resolved>>

TurnStep ==
    \/ Request \/ AnswerFails \/ AnswerComes \/ Preview \/ ToolsDone \/ RunCapped
    \/ \E next \in {"none", "request"} : RequestLost(next)

ChoiceNext ==
    \/ SetForcedToolChoice
    \/ \E p \in Prompts :
          \/ \E eager \in BOOLEAN : PromptBegins(p, eager)
          \/ PromptWaits(p) \/ PromptRuns(p) \/ PromptEnds(p)
    \/ TurnStep
    \/ \E listener \in ending : TurnEndHandled(listener)
    \/ AbortBegins \/ AbortWaits \/ AbortEnds

ChoiceSpec == ChoiceInit /\ [][ChoiceNext]_choiceVars
-----------------------------------------------------------------------------
(***************************************************************************)
(* Properties.  A request made while the choice of another is still to be  *)
(* settled -- its listener waits for a hook, or it ended without turn_end  *)
(* -- takes its place, and so does the end of an abort under a listener    *)
(* that waits: most of them are about behaviours without that.             *)
(***************************************************************************)
\* The choices that are asked back for when they get lost.
Wanted ==
    {c \in Forced : \/ c.label = "user-force" /\ c.owner \in 1..forced
                    \/ c.label = "pending-action" /\ c.owner \in 1..previews /\ c.part = 1}

\* Where a choice has been served, and where it is queued.
Served(c) == {i \in DOMAIN resolved : resolved[i] = c}
QueuedIn(i, c) == {j \in DOMAIN queue[i].values : queue[i].values[j] = c}
Queued(c) == UNION {{i} \X QueuedIn(i, c) : i \in DOMAIN queue}

\* A forced choice is not lost and not doubled, whatever is aborted or fails: it
\* is still queued, or in flight, or has been served.
ChoicesKept ==
    ~overtaken =>
        \A c \in Wanted :
            Cardinality(Served(c)) + (IF inFlight = c THEN 1 ELSE 0) + Cardinality(Queued(c)) = 1

\* "so the model calls exactly the forced tool once and then cannot call another":
\* the "none" of a /force is not served before its tool, not even when the
\* tool's turn was aborted and the tool put back.
ForcedBeforeNone ==
    ~overtaken =>
        \A i \in DOMAIN resolved :
            resolved[i].part = 2 => \E j \in 1..(i - 1) :
                                        resolved[j] = [resolved[i] EXCEPT !.part = 1]

\* While the tools of a turn run whose request was forced to call resolve, the
\* handler of that very preview is the one resolve finds, whatever prompts and
\* aborts overlap the turn; unless the end of an abort whose wait it began in has
\* taken its choice.
HandlerInPlace ==
    ~overtaken /\ ~snatched /\ turn = "tools" /\ serving.label = "pending-action" =>
        inFlight = serving

\* Nothing is in flight when no turn and no listener is left: not even what was
\* in flight when a request threw, once an abort has cleaned up.
NothingLeftInFlight ==
    ~overtaken /\ ~lost /\ turn \in {"none", "request"} /\ ending = {} => inFlight = NoChoice
=============================================================================
