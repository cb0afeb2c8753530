---------------------------- MODULE GeminiStream ----------------------------
(***************************************************************************)
(* One streamed Gemini answer on its way from the Antigravity CLI to the   *)
(* client: the goroutine that parses the CLI's events (protocol.go,        *)
(* runner.go), the bridge's handler that forwards text and heartbeats      *)
(* (gemini_stream.go), the connection between bridge and gateway, and the  *)
(* gateway that withholds the end of the answer until it has seen the end  *)
(* of the stream (proxy/gemini_stream.go).  Text is a sequence of chunks   *)
(* that are blank or an opening fence ("b"), open a JSON object ("{"), or  *)
(* are anything else ("x"): what the check for a tool call tells apart.    *)
(***************************************************************************)
EXTENDS Naturals, Sequences

CONSTANTS
    MaxLength,          \* bound on the length of an answer
    MaxEvents,          \* bound on the CLI's events
    MaxBeats            \* bound on heartbeats

ASSUME StreamAssumption == MaxLength \in Nat

VARIABLES
    agent,              \* the goroutine in RunStream, and the CLI it reads
    emitter,            \* the handler's goroutine
    wire,               \* events sent by the bridge, not yet read
    gateway,            \* forwardGeminiStream
    shown, verdict,     \* what the client has: the text, and how it ended
    cancelled           \* the request's context

streamVars == <<agent, emitter, wire, gateway, shown, verdict, cancelled>>
downstream == <<gateway, shown, verdict>>

Texts == UNION {[1..n -> {"b", "{", "x"}] : n \in 0..MaxLength}

HasPrefix(text, prefix) == Len(prefix) <= Len(text) /\ SubSeq(text, 1, Len(prefix)) = prefix

Event(kind, text, call) == [kind |-> kind, text |-> text, call |-> call]

StreamInit ==
    /\ agent = [stage |-> "reading", initialized |-> FALSE, finished |-> FALSE, text |-> <<>>, offer |-> <<>>,
                response |-> <<>>, failed |-> FALSE, events |-> 0, results |-> 0, saved |-> FALSE]
    /\ emitter = [stage |-> "serving", started |-> FALSE, plain |-> FALSE, pending |-> <<>>, beats |-> 0]
    /\ wire = <<>>
    /\ gateway = [stage |-> "reading", text |-> <<>>, terminal |-> <<>>]
    /\ shown = <<>> /\ verdict = "open" /\ cancelled = FALSE

-----------------------------------------------------------------------------
(* parseStreamUpdates *)

Reads == agent.stage = "reading" /\ agent.events < MaxEvents
ReadEvent(next) == agent' = [next EXCEPT !.events = @ + 1]
Refused == [agent EXCEPT !.stage = "leaving", !.failed = TRUE]

\* mutant: what follows the result is accepted
Acceptable(initialized) == agent.initialized = initialized

\* No event is accepted after the result, and none but init before init.
Expected(initialized) == agent.initialized = initialized /\ ~agent.finished

\* init: announced by an empty update.
ReadInit ==
    /\ Reads
    /\ ReadEvent(IF Expected(FALSE)
                 THEN [agent EXCEPT !.initialized = TRUE, !.stage = "updating", !.offer = <<>>]
                 ELSE Refused)
    /\ UNCHANGED <<emitter, wire, downstream, cancelled>>

\* step_update with text of the assistant; any other step is refused or says
\* nothing.
ReadText ==
    /\ Reads
    /\ \E chunk \in {"b", "{", "x"} :
        /\ Len(agent.text) < MaxLength
        /\ ReadEvent(IF Expected(TRUE)
                     THEN [agent EXCEPT !.text = Append(@, chunk), !.stage = "updating", !.offer = <<chunk>>]
                     ELSE Refused)
    /\ UNCHANGED <<emitter, wire, downstream, cancelled>>

\* result: a success whose text continues what was streamed.
ReadResult ==
    /\ Reads
    /\ \E response \in Texts :
        ReadEvent([(IF Expected(TRUE) /\ HasPrefix(response, agent.text)
                    THEN [agent EXCEPT !.finished = TRUE, !.response = response]
                    ELSE Refused) EXCEPT !.results = @ + 1])
    /\ UNCHANGED <<emitter, wire, downstream, cancelled>>

\* A failure result, a forbidden event, or the end of the output.
ReadEnd ==
    /\ agent.stage = "reading"
    /\ agent' \in {Refused, [agent EXCEPT !.stage = "leaving", !.failed = ~agent.finished]}
    /\ UNCHANGED <<emitter, wire, downstream, cancelled>>

\* mutant: the callback waits for its acknowledgement alone
OnlyReading == agent.stage = "reading"

\* The callback also waits for the context while it hands over an update; a
\* cancelled context kills the CLI that is being read.
Interruptible == agent.stage \in {"reading", "updating"}

AgentCancelled ==
    /\ cancelled \/ emitter.stage = "stopping"
    /\ Interruptible
    /\ agent' = Refused
    /\ UNCHANGED <<emitter, wire, downstream, cancelled>>

\* runUpdates, after the output: the process is reaped and the credential
\* saved whatever happened; either may fail the run.
Reap ==
    /\ agent.stage = "leaving"
    /\ \E ok \in BOOLEAN :
        agent' = [agent EXCEPT !.stage = "done", !.failed = @ \/ ~ok \/ cancelled, !.saved = ok]
    /\ UNCHANGED <<emitter, wire, downstream, cancelled>>

-----------------------------------------------------------------------------
(* serveGeminiStream *)

Solid(text) == SelectSeq(text, LAMBDA chunk : chunk # "b")

\* Nothing but blanks so far, or an object begins.
potentialClientCall(text) == Solid(text) = <<>> \/ Head(Solid(text)) = "{"

Send(event) == wire' = Append(wire, event)

\* An update: text that may still become a tool call is held back.  A write
\* that fails is acknowledged as an error and stops the handler.
TakeUpdate ==
    /\ emitter.stage = "serving" /\ agent.stage = "updating"
    /\ LET held == emitter.pending \o agent.offer
           plain == emitter.plain \/ (agent.offer # <<>> /\ ~potentialClientCall(held))
           text == CASE agent.offer = <<>> -> <<>>
                     [] emitter.plain -> agent.offer
                     [] plain -> held
                     [] OTHER -> <<>>
       IN  \/ /\ IF agent.offer = <<>> \/ text # <<>>
                 THEN Send(Event("progress", text, FALSE)) ELSE UNCHANGED wire
              /\ emitter' = [emitter EXCEPT !.started = @ \/ agent.offer = <<>> \/ text # <<>>, !.plain = plain,
                                            !.pending = IF plain THEN <<>> ELSE held]
              /\ agent' = [agent EXCEPT !.stage = "reading"]
           \/ /\ emitter' = [emitter EXCEPT !.stage = "stopping"]
              /\ agent' = Refused /\ UNCHANGED wire
    /\ UNCHANGED <<downstream, cancelled>>

\* The ticker; an empty event that cannot be written stops the handler.
Heartbeat ==
    /\ emitter.stage = "serving" /\ emitter.started /\ emitter.beats < MaxBeats
    /\ \/ /\ Send(Event("progress", <<>>, FALSE))
          /\ emitter' = [emitter EXCEPT !.beats = @ + 1]
       \/ emitter' = [emitter EXCEPT !.stage = "stopping"] /\ UNCHANGED wire
    /\ UNCHANGED <<agent, downstream, cancelled>>

SeesCancellation ==
    /\ emitter.stage = "serving" /\ cancelled
    /\ emitter' = [emitter EXCEPT !.stage = "stopping"]
    /\ UNCHANGED <<agent, wire, downstream, cancelled>>

\* stop: cancel, then <-done.
StopsWaiting == emitter.stage = "stopping" /\ agent.stage = "done"

Stop ==
    /\ StopsWaiting
    /\ emitter' = [emitter EXCEPT !.stage = "ended"]
    /\ UNCHANGED <<agent, wire, downstream, cancelled>>

\* The completion: a failure, before or after the first byte, or the whole
\* result.  Text that opens an object is a declared tool call, an undeclared
\* one, or only text.
TakeDone ==
    /\ emitter.stage = "serving" /\ agent.stage = "done"
    /\ emitter' = [emitter EXCEPT !.stage = "ended"]
    /\ LET object == Solid(agent.response) # <<>> /\ Head(Solid(agent.response)) = "{"
           failure == IF emitter.started THEN "error" ELSE "status"
       IN  IF cancelled
           THEN UNCHANGED wire
           ELSE IF agent.failed
           THEN Send(Event(failure, <<>>, FALSE))
           ELSE \/ Send(Event("terminal", agent.response, FALSE))
                \/ object /\ Send(Event(failure, <<>>, FALSE))
                \/ object /\ Send(IF emitter.plain THEN Event(failure, <<>>, FALSE)
                                                   ELSE Event("terminal", agent.response, TRUE))
    /\ UNCHANGED <<agent, downstream, cancelled>>

-----------------------------------------------------------------------------
(* forwardGeminiStream *)

GatewayReads == gateway.stage = "reading" /\ verdict = "open"

\* A failure: an error event and an aborted response, or a plain error when
\* nothing was sent yet.  Its return closes the connection to the bridge.
GatewayFails ==
    /\ verdict' = "failed" /\ gateway' = [gateway EXCEPT !.stage = "ended"]
    /\ cancelled' = TRUE /\ UNCHANGED shown

\* An event of the stream; a progress event is passed on at once.
GatewayEvent ==
    /\ GatewayReads /\ wire # <<>>
    /\ wire' = Tail(wire)
    /\ LET event == Head(wire)
       IN  CASE gateway.terminal # <<>> \/ event.kind \in {"error", "status"} -> GatewayFails
             [] event.kind = "terminal" ->
                    \/ /\ gateway' = [gateway EXCEPT !.terminal = <<event>>]
                       /\ UNCHANGED <<shown, verdict, cancelled>>
                    \/ GatewayFails
             [] OTHER -> /\ gateway' = [gateway EXCEPT !.text = @ \o event.text]
                         /\ shown' = shown \o event.text
                         /\ UNCHANGED <<verdict, cancelled>>
    /\ UNCHANGED <<agent, emitter>>

Remainder(full, text) == SubSeq(full, Len(text) + 1, Len(full))

\* The end of the body: the withheld result is checked against what was sent
\* and its remainder completes the answer.
GatewayEnd ==
    /\ GatewayReads /\ wire = <<>> /\ emitter.stage = "ended"
    /\ IF \/ gateway.terminal = <<>>
          \/ gateway.text # <<>> /\ (gateway.terminal[1].call \/ ~HasPrefix(gateway.terminal[1].text, gateway.text))
       THEN GatewayFails
       ELSE /\ shown' = IF gateway.terminal[1].call THEN shown ELSE shown \o Remainder(gateway.terminal[1].text, gateway.text)
            /\ verdict' = IF gateway.terminal[1].call THEN "call" ELSE "complete"
            /\ gateway' = [gateway EXCEPT !.stage = "ended"]
            /\ UNCHANGED cancelled
    /\ UNCHANGED <<agent, emitter, wire>>

\* The connection to the bridge breaks.
ConnectionBreaks ==
    /\ GatewayReads /\ GatewayFails
    /\ wire' = <<>>
    /\ UNCHANGED <<agent, emitter>>

\* The client goes away.
ClientLeaves ==
    /\ verdict = "open"
    /\ verdict' = "gone" /\ cancelled' = TRUE
    /\ gateway' = [gateway EXCEPT !.stage = "ended"]
    /\ UNCHANGED <<agent, emitter, wire, shown>>

AgentStep == ReadInit \/ ReadText \/ ReadResult \/ ReadEnd \/ AgentCancelled \/ Reap
EmitterStep == TakeUpdate \/ Heartbeat \/ SeesCancellation \/ Stop \/ TakeDone
GatewayStep == GatewayEvent \/ GatewayEnd

StreamOver == agent.stage = "done" /\ emitter.stage = "ended" /\ verdict # "open"

StreamNext ==
    \/ AgentStep \/ EmitterStep \/ GatewayStep
    \/ ConnectionBreaks \/ ClientLeaves
    \/ StreamOver /\ UNCHANGED streamVars

StreamSpec == StreamInit /\ [][StreamNext]_streamVars

\* Goroutines run; the CLI ends or is killed at its timeout.
StreamFairness ==
    /\ WF_streamVars(AgentStep) /\ WF_streamVars(ReadEnd)
    /\ WF_streamVars(EmitterStep) /\ WF_streamVars(GatewayStep)

-----------------------------------------------------------------------------
(* Properties *)

\* A completed answer is exactly what the CLI's one result says, each chunk
\* once and in order, and the run it came from ended well with its credential
\* saved ("Tools and usage are withheld until that result passes all
\* validation and EOF proves that no trailing error/event invalidated it").
CompletedExactly ==
    verdict \in {"complete", "call"} =>
        /\ agent.stage = "done" /\ ~agent.failed /\ agent.saved /\ agent.results = 1
        /\ verdict = "complete" => shown = agent.response

=============================================================================
