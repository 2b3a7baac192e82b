----------------------------- MODULE AgentLoop ------------------------------
(***************************************************************************)
(* One Agent (packages/agent/src/agent.ts) and the loops it runs           *)
(* (packages/agent/src/agent-loop.ts).                                     *)
(*                                                                         *)
(* A run has two halves that share nothing but an event stream.  The loop  *)
(* polls the steering queue, asks the model, executes tool calls and keeps *)
(* its own copy of the conversation (ctx).  The consumer, the for-await of *)
(* #runLoop, takes the events off the stream and builds the transcript     *)
(* the rest of the program sees (messages).  The user prompts, steers,     *)
(* queues follow-ups and aborts in between.                                *)
(*                                                                         *)
(* The tool batch of a turn is ToolBatch.tla; here it is reduced to what   *)
(* the loop sees of it: calls are answered one after the other, and the    *)
(* batch may come back with a steering message.                            *)
(***************************************************************************)
EXTENDS Integers, Sequences, FiniteSets, SequencesExt

CONSTANTS
    MaxRuns,         \* bound: runs started in all
    MaxMessages,     \* bound: user messages in all
    MaxTurns,        \* bound: responses requested in all
    MaxCalls,        \* bound: tool calls in one response
    QueueMode,       \* steeringMode and followUpMode: "one-at-a-time" or "all"
    HarmonyTarget    \* the model is one whose responses are checked for leaks

ASSUME BoundsAssumption ==
    /\ MaxRuns \in Nat /\ MaxMessages \in Nat /\ MaxTurns \in Nat /\ MaxCalls \in Nat
    /\ QueueMode \in {"one-at-a-time", "all"}
    /\ HarmonyTarget \in BOOLEAN

Runs == 1..MaxRuns
None == 0
Numbers == 1..MaxMessages       \* of the user's messages
CallNumbers == 1..MaxCalls      \* of the calls of a response

VARIABLES
    interruptMode,   \* "immediate" or "wait"
    run,             \* run[r]: the two halves of run r, see RunType
    messages,        \* state.messages: the transcript
    steeringQueue,   \* #steeringQueue: message numbers
    followUpQueue,   \* #followUpQueue
    isStreaming,     \* state.isStreaming
    controller,      \* the run #abortController belongs to, or None
    runningPrompt,   \* the run #runningPrompt belongs to, or None
    aborted,         \* runs whose abort signal has fired
    nextRun, nextMessage, nextTurn,
    withdrawn,       \* messages the user took back out of a queue
    crossed          \* a run was started beside one that was at work

queues == <<steeringQueue, followUpQueue>>
agentVars == <<isStreaming, controller, runningPrompt>>
counters == <<nextRun, nextMessage, nextTurn>>
vars == <<interruptMode, run, messages, queues, agentVars, aborted, counters, withdrawn, crossed>>
-----------------------------------------------------------------------------
(* Messages of a conversation.  A response is known by its turn number and *)
(* how many tool calls it makes; a tool result by the call it answers.     *)
User(m) == [role |-> "user", id |-> m, n |-> 0, stop |-> "none"]
Assistant(t, n, stop) == [role |-> "assistant", id |-> t, n |-> n, stop |-> stop]
ToolResult(t, k) == [role |-> "toolResult", id |-> t, n |-> k, stop |-> "none"]
NoMessage == [role |-> "none", id |-> 0, n |-> 0, stop |-> "none"]

MessageType ==
    [role : {"user", "assistant", "toolResult", "none"},
     id : 0..(MaxMessages + MaxTurns), n : 0..MaxCalls,
     stop : {"none", "partial", "stop", "length", "error", "aborted"}]
EventType == [kind : {"start", "end", "agentEnd"}, message : MessageType]

RunType ==
    [at : {"idle", "poll", "turn", "request", "streaming", "tools", "yield", "ended"},
     ctx : Seq(MessageType),         \* currentContext.messages
     pending : Seq(Numbers),  \* pendingMessages
     hasMore : BOOLEAN,              \* hasMoreToolCalls
     skipPoll : BOOLEAN,             \* skipInitialSteeringPoll
     retry : 0..2,                   \* harmonyRetryAttempt
     turn : 0..MaxTurns,             \* the response being streamed or executed
     calls : 0..MaxCalls,            \* its tool calls
     answered : Seq(CallNumbers),    \* those that have a result
     steering : Seq(Numbers), \* steeringMessagesFromExecution
     events : Seq(EventType),        \* EventStream.queue
     closed : {"open", "ended", "failed"},
     consumer : {"none", "consuming", "finished"},
     partial : MessageType]          \* #runLoop's partial

FreshRun ==
    [at |-> "idle", ctx |-> << >>, pending |-> << >>, hasMore |-> TRUE,
     skipPoll |-> FALSE, retry |-> 0, turn |-> 0, calls |-> 0, answered |-> << >>,
     steering |-> << >>, events |-> << >>, closed |-> "open", consumer |-> "none",
     partial |-> NoMessage]

TypeOK ==
    /\ interruptMode \in {"immediate", "wait"}
    /\ run \in [Runs -> RunType]
    /\ \A r \in Runs : ToSet(run[r].answered) \subseteq 1..run[r].calls
    /\ messages \in Seq(MessageType)
    /\ steeringQueue \in Seq(Numbers)
    /\ followUpQueue \in Seq(Numbers)
    /\ isStreaming \in BOOLEAN
    /\ controller \in Runs \cup {None}
    /\ runningPrompt \in Runs \cup {None}
    /\ aborted \in SUBSET Runs
    /\ nextRun \in 1..(MaxRuns + 1)
    /\ nextMessage \in 1..(MaxMessages + 1)
    /\ nextTurn \in 1..(MaxTurns + 1)
    /\ withdrawn \in SUBSET Numbers
    /\ crossed \in BOOLEAN

Init ==
    /\ interruptMode \in {"immediate", "wait"}
    /\ run = [r \in Runs |-> FreshRun]
    /\ messages = << >>
    /\ steeringQueue = << >> /\ followUpQueue = << >>
    /\ isStreaming = FALSE
    /\ controller = None /\ runningPrompt = None
    /\ aborted = {}
    /\ nextRun = 1 /\ nextMessage = 1 /\ nextTurn = 1
    /\ withdrawn = {} /\ crossed = FALSE
-----------------------------------------------------------------------------
(* Helpers.                                                                *)
Users(ms) == [i \in DOMAIN ms |-> User(ms[i])]
Starts(m) == <<[kind |-> "start", message |-> m]>>
\* message_end; for a user message or a tool result the message_start right
\* before it changes nothing the consumer keeps.
Ends(ms) == [i \in DOMAIN ms |-> [kind |-> "end", message |-> ms[i]]]
AgentEnd == <<[kind |-> "agentEnd", message |-> NoMessage]>>

\* #dequeueSteeringMessages and #dequeueFollowUpMessages: the part of a queue
\* one poll takes.
Taken(q) == IF QueueMode = "one-at-a-time" /\ q # << >> THEN <<Head(q)>> ELSE q
\* Mutant of Left: a poll that takes one message forgets the others.
LeftNothing(q) == << >>
Left(q) == IF QueueMode = "one-at-a-time" /\ q # << >> THEN Tail(q) ELSE << >>

\* The placeholders that pair the calls of a response that is not executed
\* (createAbortedToolResult).
\* Mutant: no placeholders.
NoPlaceholders(t, n) == << >>
Placeholders(t, n) == [k \in 1..n |-> ToolResult(t, k)]
\* The results of an executed batch, in the order they were emitted.
\* Mutant: the loop keeps them in the order of the calls.
ResultsByCall(t, ks) == [k \in 1..Len(ks) |-> ToolResult(t, k)]
Results(t, ks) == [i \in DOMAIN ks |-> ToolResult(t, ks[i])]

\* The test of the inner while loop.
Loops(hasMore, pending) == hasMore \/ pending # << >>
-----------------------------------------------------------------------------
(* Starting a run: the synchronous start of #runLoop, agentLoop and        *)
(* agentLoopContinue.                                                      *)
\* The run is not over, and has more left to do than its finally block.
AtWork(r) == run[r].consumer = "consuming" /\ ~(run[r].closed = "ended" /\ run[r].events = << >>)

StartRun(prompts, skip) ==
    /\ nextRun \in Runs
    /\ run' = [run EXCEPT ![nextRun] =
                [FreshRun EXCEPT !.at = "poll",
                                 !.ctx = messages \o Users(prompts),
                                 !.skipPoll = skip,
                                 !.events = Ends(Users(prompts)),
                                 !.consumer = "consuming"]]
    /\ nextRun' = nextRun + 1
    /\ isStreaming' = TRUE
    /\ controller' = nextRun
    /\ runningPrompt' = nextRun
    /\ crossed' = (crossed \/ \E r \in Runs : AtWork(r))

\* Whoever asks for a run is refused while the agent streams.  A listener of
\* agent_end is called before #runLoop gets to its finally block: the run it
\* starts overlaps with the end of the one before, whose finally block then
\* says that the agent does not stream, and lets a third run in beside it.
CallerReady == ~isStreaming

Prompt ==
    /\ CallerReady
    /\ nextMessage <= MaxMessages
    /\ StartRun(<<nextMessage>>, FALSE)
    /\ nextMessage' = nextMessage + 1
    /\ UNCHANGED <<interruptMode, messages, queues, aborted, nextTurn, withdrawn>>

\* continue() behind an assistant message delivers what is queued; behind
\* anything else it picks the conversation up as it is.
ContinueQueued ==
    /\ CallerReady
    /\ messages # << >> /\ Last(messages).role = "assistant"
    /\ \/ /\ steeringQueue # << >>
          /\ StartRun(Taken(steeringQueue), TRUE)
          /\ steeringQueue' = Left(steeringQueue)
          /\ UNCHANGED followUpQueue
       \/ /\ steeringQueue = << >>
          /\ followUpQueue # << >>
          /\ StartRun(Taken(followUpQueue), FALSE)
          /\ followUpQueue' = Left(followUpQueue)
          /\ UNCHANGED steeringQueue
    /\ UNCHANGED <<interruptMode, messages, aborted, nextMessage, nextTurn, withdrawn>>

ContinueAsIs ==
    /\ CallerReady
    /\ messages # << >> /\ Last(messages).role # "assistant"
    /\ StartRun(<< >>, FALSE)
    /\ UNCHANGED <<interruptMode, messages, queues, aborted, nextMessage, nextTurn, withdrawn>>
-----------------------------------------------------------------------------
(* The loop: runLoopBody, cut at its awaits.                               *)
loopUnchanged == <<interruptMode, messages, agentVars, aborted, nextRun, nextMessage, withdrawn, crossed>>

\* getSteeringMessages, before the first turn and after every turn.
PollSteering(r) ==
    LET skip == run[r].skipPoll
        got == IF skip THEN << >> ELSE Taken(steeringQueue)
    IN  /\ run[r].at = "poll"
        /\ steeringQueue' = IF skip THEN steeringQueue ELSE Left(steeringQueue)
        /\ run' = [run EXCEPT ![r].pending = got,
                              ![r].skipPoll = FALSE,
                              ![r].at = IF Loops(run[r].hasMore, got) THEN "turn" ELSE "yield"]
        /\ UNCHANGED <<loopUnchanged, followUpQueue, nextTurn>>

\* The pending messages enter the conversation.
BeginTurn(r) ==
    LET ms == Users(run[r].pending)
    IN  /\ run[r].at = "turn"
        /\ run' = [run EXCEPT ![r].events = @ \o Ends(ms),
                              ![r].ctx = @ \o ms,
                              ![r].pending = << >>,
                              ![r].at = "request"]
        /\ UNCHANGED <<loopUnchanged, queues, nextTurn>>

\* streamAssistantResponse up to the first event: the partial response is in
\* the context and on the stream.
OpenResponse(r) ==
    /\ run[r].at = "request"
    /\ r \notin aborted
    /\ nextTurn <= MaxTurns
    /\ \E n \in 0..MaxCalls :
        LET m == Assistant(nextTurn, n, "partial")
        IN  run' = [run EXCEPT ![r].ctx = Append(@, m),
                               ![r].events = @ \o Starts(m),
                               ![r].turn = nextTurn,
                               ![r].calls = n,
                               ![r].at = "streaming"]
    /\ nextTurn' = nextTurn + 1
    /\ UNCHANGED <<loopUnchanged, queues>>

\* What the loop does with a final response m that replaces the partial one.
\* A response that failed or was aborted ends the run; one that ran into its
\* token limit has its calls answered by placeholders; the others' are run.
Finalize(r, base, opening, m) ==
    LET placeholders == IF m.stop = "stop" THEN << >> ELSE Placeholders(m.id, m.n)
        over == m.stop \in {"error", "aborted"}
        hasMore == m.stop = "stop" /\ m.n > 0
    IN  run' = [run EXCEPT
            ![r].ctx = Append(base, m) \o placeholders,
            ![r].events = @ \o opening \o Ends(<<m>> \o placeholders)
                            \o (IF over THEN AgentEnd ELSE << >>),
            ![r].retry = 0,
            ![r].hasMore = IF over THEN @ ELSE hasMore,
            ![r].closed = IF over THEN "ended" ELSE @,
            ![r].at = IF over THEN "ended" ELSE IF hasMore THEN "tools" ELSE "poll"]

\* "done" or "error" arrives.
CompleteResponse(r) ==
    /\ run[r].at = "streaming"
    /\ r \notin aborted
    /\ \E stop \in {"stop", "length", "error"} :
        Finalize(r, Front(run[r].ctx), << >>, Assistant(run[r].turn, run[r].calls, stop))
    /\ UNCHANGED <<loopUnchanged, queues, nextTurn>>

\* Mutant of AbortResponse: a signal that fires before the request is missed.
AbortStreaming(r) ==
    /\ r \in aborted
    /\ run[r].at = "streaming"
    /\ Finalize(r, Front(run[r].ctx), << >>,
                Assistant(run[r].turn, run[r].calls, "aborted"))
    /\ UNCHANGED <<loopUnchanged, queues, nextTurn>>

\* The signal has fired: emitAbortedAssistantMessage keeps the partial
\* response, or makes one up when none had begun.
AbortResponse(r) ==
    /\ r \in aborted
    /\ \/ /\ run[r].at = "streaming"
          /\ Finalize(r, Front(run[r].ctx), << >>,
                      Assistant(run[r].turn, run[r].calls, "aborted"))
       \/ /\ run[r].at = "request"
          /\ LET m == Assistant(0, 0, "aborted") IN Finalize(r, run[r].ctx, Starts(m), m)
    /\ UNCHANGED <<loopUnchanged, queues, nextTurn>>

\* Preparing or streaming the request throws: agentLoop fails the stream.
FailResponse(r) ==
    /\ run[r].at \in {"request", "streaming"}
    /\ run' = [run EXCEPT ![r].closed = "failed", ![r].at = "ended"]
    /\ UNCHANGED <<loopUnchanged, queues, nextTurn>>

\* What a leaked response leaves behind.  Mutant: it stays in the context.
KeepPartial(c) == c
DropPartial(c) == Front(c)

\* The final response leaks protocol text: it leaves the context, and the
\* loop goes round again, at most twice.
LeakResponse(r) ==
    /\ HarmonyTarget
    /\ run[r].at = "streaming"
    /\ r \notin aborted
    /\ IF run[r].retry >= 2
       THEN run' = [run EXCEPT ![r].ctx = DropPartial(@),
                               ![r].closed = "failed",
                               ![r].at = "ended"]
       ELSE run' = [run EXCEPT ![r].ctx = DropPartial(@),
                               ![r].retry = @ + 1,
                               ![r].at = IF Loops(run[r].hasMore, run[r].pending)
                                         THEN "turn" ELSE "yield"]
    /\ UNCHANGED <<loopUnchanged, queues, nextTurn>>

\* executeToolCalls: a call is answered; an immediate interrupt looks at the
\* steering queue until it has found something.
AnswerCall(r) ==
    LET looks == interruptMode # "wait" /\ run[r].steering = << >>
    IN  /\ run[r].at = "tools"
        /\ \E k \in (1..run[r].calls) \ ToSet(run[r].answered) :
            run' = [run EXCEPT ![r].events = @ \o Ends(<<ToolResult(run[r].turn, k)>>),
                               ![r].answered = Append(@, k),
                               ![r].steering = IF looks THEN Taken(steeringQueue) ELSE @]
        /\ steeringQueue' = IF looks THEN Left(steeringQueue) ELSE steeringQueue
        /\ UNCHANGED <<loopUnchanged, followUpQueue, nextTurn>>

\* executeToolCalls returns: a steering message it found makes the next poll
\* unnecessary.
EndTools(r) ==
    LET found == run[r].steering # << >>
    IN  /\ run[r].at = "tools"
        /\ Len(run[r].answered) = run[r].calls
        /\ run' = [run EXCEPT ![r].ctx = @ \o Results(run[r].turn, run[r].answered),
                              ![r].pending = run[r].steering,
                              ![r].answered = << >>,
                              ![r].steering = << >>,
                              ![r].at = IF found THEN "turn" ELSE "poll"]
        /\ UNCHANGED <<loopUnchanged, queues, nextTurn>>

\* onBeforeYield has come back: follow-ups, or the end of the run.
Yield(r) ==
    LET got == Taken(followUpQueue)
    IN  /\ run[r].at = "yield"
        /\ followUpQueue' = Left(followUpQueue)
        /\ run' = IF got # << >>
                  THEN [run EXCEPT ![r].pending = got,
                                   ![r].hasMore = TRUE,
                                   ![r].at = "turn"]
                  ELSE [run EXCEPT ![r].events = @ \o AgentEnd,
                                   ![r].closed = "ended",
                                   ![r].at = "ended"]
        /\ UNCHANGED <<loopUnchanged, steeringQueue, nextTurn>>
-----------------------------------------------------------------------------
(* The consumer: the for-await of #runLoop and what follows it.            *)
\* The event that stops isStreaming.
StopsStreaming(e) == e.kind = "agentEnd"

Consume(r) ==
    LET e == Head(run[r].events)
    IN  /\ run[r].consumer = "consuming"
        /\ run[r].events # << >>
        /\ run' = [run EXCEPT ![r].events = Tail(@),
                              ![r].partial = CASE e.kind = "start" -> e.message
                                               [] e.kind = "end" -> NoMessage
                                               [] OTHER -> @]
        /\ messages' = IF e.kind = "end" THEN Append(messages, e.message) ELSE messages
        /\ isStreaming' = (isStreaming /\ ~StopsStreaming(e))
        /\ UNCHANGED <<interruptMode, queues, controller, runningPrompt, aborted, counters, withdrawn,
                       crossed>>

\* What the end of the stream leaves to append: a partial response that was
\* never finished, or the error the stream failed with.
\* Mutant: the error is only recorded in the state.
LeftoverPartial(r) == IF run[r].partial.role = "assistant" THEN <<run[r].partial>> ELSE << >>
Leftover(r) ==
    IF run[r].closed = "failed" THEN <<Assistant(0, 0, "error")>>
    ELSE IF run[r].partial.role = "assistant" THEN <<run[r].partial>>
    ELSE << >>

Settle(r) ==
    /\ run[r].consumer = "consuming"
    /\ run[r].events = << >>
    /\ run[r].closed # "open"
    /\ messages' = messages \o Leftover(r)
    /\ run' = [run EXCEPT ![r].consumer = "finished", ![r].partial = NoMessage]
    /\ isStreaming' = FALSE
    /\ controller' = None
    /\ runningPrompt' = None
    /\ UNCHANGED <<interruptMode, queues, aborted, counters, withdrawn, crossed>>
-----------------------------------------------------------------------------
(* The user, at any time.                                                  *)
userUnchanged == <<interruptMode, run, messages, agentVars, crossed>>

Steer ==
    /\ nextMessage <= MaxMessages
    /\ steeringQueue' = Append(steeringQueue, nextMessage)
    /\ nextMessage' = nextMessage + 1
    /\ UNCHANGED <<userUnchanged, followUpQueue, aborted, nextRun, nextTurn, withdrawn>>

FollowUp ==
    /\ nextMessage <= MaxMessages
    /\ followUpQueue' = Append(followUpQueue, nextMessage)
    /\ nextMessage' = nextMessage + 1
    /\ UNCHANGED <<userUnchanged, steeringQueue, aborted, nextRun, nextTurn, withdrawn>>

PopLastSteer ==
    /\ steeringQueue # << >>
    /\ steeringQueue' = Front(steeringQueue)
    /\ withdrawn' = withdrawn \cup {Last(steeringQueue)}
    /\ UNCHANGED <<userUnchanged, followUpQueue, aborted, counters>>

PopLastFollowUp ==
    /\ followUpQueue # << >>
    /\ followUpQueue' = Front(followUpQueue)
    /\ withdrawn' = withdrawn \cup {Last(followUpQueue)}
    /\ UNCHANGED <<userUnchanged, steeringQueue, aborted, counters>>

ClearAllQueues ==
    /\ steeringQueue \o followUpQueue # << >>
    /\ steeringQueue' = << >> /\ followUpQueue' = << >>
    /\ withdrawn' = withdrawn \cup ToSet(steeringQueue \o followUpQueue)
    /\ UNCHANGED <<userUnchanged, aborted, counters>>

Abort ==
    /\ controller # None
    /\ aborted' = aborted \cup {controller}
    /\ UNCHANGED <<userUnchanged, queues, counters, withdrawn>>

\* No run is going on: the agent waits for its user.
Idle ==
    /\ \A r \in Runs : run[r].consumer # "consuming"
    /\ UNCHANGED vars

LoopStep(r) ==
    \/ PollSteering(r) \/ BeginTurn(r) \/ OpenResponse(r) \/ CompleteResponse(r)
    \/ AbortResponse(r) \/ FailResponse(r) \/ LeakResponse(r)
    \/ AnswerCall(r) \/ EndTools(r) \/ Yield(r)

Next ==
    \/ Prompt \/ ContinueQueued \/ ContinueAsIs
    \/ \E r \in Runs : LoopStep(r) \/ Consume(r) \/ Settle(r)
    \/ Steer \/ FollowUp \/ PopLastSteer \/ PopLastFollowUp \/ ClearAllQueues
    \/ Abort
    \/ Idle

Spec == Init /\ [][Next]_vars

\* The event loop runs whatever is ready.  The model and the tools may take
\* for ever, unless the signal they were given fires.
FairSpec ==
    /\ Spec
    /\ \A r \in Runs :
        /\ WF_vars(PollSteering(r) \/ BeginTurn(r) \/ EndTools(r) \/ Yield(r))
        /\ WF_vars(AbortResponse(r))
        /\ WF_vars(r \in aborted /\ AnswerCall(r))
        /\ WF_vars(Consume(r) \/ Settle(r))
-----------------------------------------------------------------------------
(***************************************************************************)
(* Properties.                                                             *)
(***************************************************************************)
AllFinished == \A r \in Runs : run[r].consumer # "consuming"

\* "A leaked final response is aborted-and-retried by the existing mitigation
\* instead of being committed": no response that did not come to its end gets
\* into the transcript.  (It does: a turn entered for a steering message is not
\* retried, and the consumer commits the partial response it was left with.)
NoPartialCommitted == \A i \in DOMAIN messages : messages[i].stop # "partial"

\* The conversation is in order until one of two things happens, which the
\* properties below leave out: a partial response is committed, or two runs
\* write the transcript at the same time.
Orderly == NoPartialCommitted /\ ~crossed

\* Every response of a conversation is followed at once by one result for each
\* of its tool calls, and no result stands anywhere else.
Paired(c) ==
    /\ \A i \in DOMAIN c : c[i].role = "assistant" =>
        /\ i + c[i].n <= Len(c)
        /\ {c[j] : j \in (i + 1)..(i + c[i].n)} = {ToolResult(c[i].id, k) : k \in 1..c[i].n}
    /\ \A j \in DOMAIN c : c[j].role = "toolResult" =>
        \E i \in 1..(j - 1) : c[i].role = "assistant" /\ c[i].id = c[j].id /\ j <= i + c[i].n

\* "This maintains the tool_use/tool_result pairing that the API requires"
\* (agent-loop.ts): what a request sends, and the transcript between runs, are
\* paired, through aborts, errors, truncation and interruptions.
ToolPairing ==
  Orderly =>
    /\ \A r \in Runs : run[r].at = "request" => Paired(run[r].ctx)
    /\ AllFinished => Paired(messages)

\* Where the user's messages are: the queues, what a loop holds, the streams
\* and the transcript, each as a sequence of messages.
EventMessages(es) == [i \in DOMAIN es |-> es[i].message]
Places ==
    ({"steering", "followUp", "transcript"} \X {None}) \cup ({"pending", "found", "stream"} \X Runs)
Held == [p \in Places |->
    CASE p[1] = "steering" -> Users(steeringQueue)
      [] p[1] = "followUp" -> Users(followUpQueue)
      [] p[1] = "transcript" -> messages
      [] p[1] = "pending" -> Users(run[p[2]].pending)
      [] p[1] = "found" -> Users(run[p[2]].steering)
      [] p[1] = "stream" -> EventMessages(run[p[2]].events)]

\* Each of the messages ids is somewhere, once, and no other is anywhere.
UsersIn(c) == {i \in DOMAIN c : c[i].role = "user"}
Spots(held) == UNION {LET c == held[p] IN {<<p, i, c[i].id>> : i \in UsersIn(c)} : p \in DOMAIN held}
Conserved(held, ids) ==
    LET spots == Spots(held)
    IN  /\ {s[3] : s \in spots} = ids
        /\ \A s, t \in spots : s[3] = t[3] => s = t

\* No user message is lost or delivered twice: it is in one queue, or held by
\* the loop, or on the stream, or in the transcript, and in one of them once.
MessagesConserved == Conserved(Held, (1..(nextMessage - 1)) \ withdrawn)

\* Every message the agent took is answered: between runs, an assistant
\* message that is not a torn-off partial follows each user message.
EveryPromptAnswered ==
    NoPartialCommitted /\ AllFinished =>
        \A i \in DOMAIN messages : messages[i].role = "user" =>
            \E j \in (i + 1)..Len(messages) :
                messages[j].role = "assistant" /\ messages[j].stop # "partial"

\* The two halves agree: when a run has ended and nothing was started since,
\* the transcript is the conversation the loop had with the model.
TranscriptMatchesContext ==
    Orderly /\ AllFinished /\ nextRun > 1 /\ run[nextRun - 1].closed = "ended"
        => messages = run[nextRun - 1].ctx

\* The model is never shown a response that did not come to its end: not one
\* that leaked, not one that was retried.
NoPartialInRequests ==
  NoPartialCommitted =>
    \A r \in Runs : run[r].at = "request" =>
        \A i \in DOMAIN run[r].ctx : run[r].ctx[i].stop # "partial"

\* An abort ends its run, whatever is queued, and waitForIdle returns.
AbortEndsRun == \A r \in Runs : r \in aborted ~> run[r].consumer = "finished"
=============================================================================
