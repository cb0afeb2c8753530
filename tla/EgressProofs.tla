---------------------------- MODULE EgressProofs ----------------------------
(***************************************************************************)
(* The way out and the answer that comes back, for any nodes,              *)
(* registrations, calls, tunnels, ports and lengths of a text: what a      *)
(* stream completes with, the answers to the sidecar about the egress of   *)
(* an account, and what the proxy delivers.                                *)
(***************************************************************************)
EXTENDS GeminiStream, Egress, EgressRuntime, TLAPS

\* The provers to try, and their time, for a leaf that names none.
USE SMTT(30), ZenonT(30), SMTT(60)

-----------------------------------------------------------------------------
(* The streamed answer.  A terminal event exists only for a run that ended *)
(* well, and carries its result; the client was shown exactly what the     *)
(* gateway will compare that result with.                                  *)

Chunk == {"b", "{", "x"}

\* What a run of the CLI has come to: while its output is read nothing has
\* failed and the result was read at most once; afterwards a run that did not
\* fail has exactly one result, and a saved credential once it is reaped.
RunWell ==
    /\ DOMAIN agent = {"stage", "initialized", "finished", "text", "offer", "response", "failed",
                       "events", "results", "saved"}
    /\ agent.offer \in Seq(Chunk) /\ agent.response \in Seq(Chunk)
    /\ agent.stage \in {"reading", "updating", "leaving", "done"}
    /\ agent.stage \in {"reading", "updating"} =>
           ~agent.failed /\ (agent.finished => agent.results = 1) /\ (~agent.finished => agent.results = 0)
    /\ agent.stage \in {"leaving", "done"} /\ ~agent.failed => agent.finished /\ agent.results = 1
    /\ agent.stage = "done" /\ ~agent.failed => agent.saved

Message == [kind : {"progress", "status", "error", "terminal"}, text : Seq(Chunk), call : BOOLEAN]

\* A terminal event was sent for a run that ended well and carries its result.
Honest(event) ==
    event.kind = "terminal" => agent.stage = "done" /\ ~agent.failed /\ event.text = agent.response

Held ==
    /\ DOMAIN emitter = {"stage", "started", "plain", "pending", "beats"}
    /\ emitter.pending \in Seq(Chunk)

Underway ==
    /\ wire \in Seq(Message)
    /\ \A i \in 1..Len(wire) : Honest(wire[i])

\* The client was shown what the gateway compares the result with, and the
\* result it withholds is one the bridge sent.
Forwarded ==
    /\ DOMAIN gateway = {"stage", "text", "terminal"}
    /\ gateway.text \in Seq(Chunk)
    /\ gateway.terminal # <<>> =>
           /\ gateway.terminal[1] \in Message /\ gateway.terminal[1].kind = "terminal"
           /\ Honest(gateway.terminal[1])
    /\ verdict = "open" => gateway.text = shown

Answering == RunWell /\ Held /\ Underway /\ Forwarded /\ CompletedExactly

\* A text is a sequence of chunks.
LEMMA AnswerTexts == \A t \in Texts : t \in Seq(Chunk)
  <1> SUFFICES ASSUME NEW t \in Texts PROVE t \in Seq(Chunk)
    OBVIOUS
  <1>1. PICK m \in 0..MaxLength : t \in [1..m -> Chunk]
    BY Zenon DEF Texts, Chunk
  <1>2. m \in Nat
    BY <1>1, StreamAssumption
  <1> QED BY <1>1, <1>2

\* A chunk is a text of length one.
LEMMA OneChunk == \A chunk \in Chunk : <<chunk>> \in Seq(Chunk)
  OBVIOUS

\* The steps of the run: it keeps its books, and moves only until it is done.
LEMMA AgentKeeps ==
  ASSUME RunWell, AgentStep
  PROVE  RunWell' /\ agent.stage # "done"
  <1> USE DEF RunWell, ReadEvent, Refused, Reads
  <1>1. CASE ReadInit
    BY <1>1 DEF ReadInit, Expected
  <1>2. CASE ReadText
    <2>1. PICK chunk \in Chunk :
             agent' = [(IF Expected(TRUE)
                        THEN [agent EXCEPT !.text = Append(@, chunk), !.stage = "updating", !.offer = <<chunk>>]
                        ELSE Refused) EXCEPT !.events = @ + 1]
      BY Zenon, <1>2 DEF ReadText, Chunk
    <2>2. <<chunk>> \in Seq(Chunk) /\ agent.stage = "reading"
      BY Zenon, <2>1, <1>2, OneChunk DEF ReadText
    <2> QED BY <2>1, <2>2 DEF Expected
  <1>3. CASE ReadResult
    <2>1. PICK response \in Texts :
             agent' = [[(IF Expected(TRUE) /\ HasPrefix(response, agent.text)
                         THEN [agent EXCEPT !.finished = TRUE, !.response = response]
                         ELSE Refused) EXCEPT !.results = @ + 1] EXCEPT !.events = @ + 1]
      BY Zenon, <1>3 DEF ReadResult
    <2>2. response \in Seq(Chunk) /\ agent.stage = "reading"
      BY <2>1, <1>3, AnswerTexts DEF ReadResult
    <2>3. CASE Expected(TRUE) /\ HasPrefix(response, agent.text)
      BY <2>1, <2>2, <2>3 DEF Expected
    <2>4. CASE ~(Expected(TRUE) /\ HasPrefix(response, agent.text))
      BY Zenon, <2>1, <2>2, <2>4
    <2> QED BY Zenon, <2>3, <2>4
  <1>4. CASE ReadEnd
    BY Zenon, <1>4 DEF ReadEnd
  <1>5. CASE AgentCancelled
    BY <1>5 DEF AgentCancelled, Interruptible
  <1>6. CASE Reap
    BY Zenon, <1>6 DEF Reap
  <1> QED BY <1>1, <1>2, <1>3, <1>4, <1>5, <1>6 DEF AgentStep

\* A step of the run keeps the invariant: nothing was answered yet.
LEMMA AgentKeepsAnswer ==
  ASSUME Answering, AgentStep
  PROVE  Answering'
  <1>1. RunWell' /\ agent.stage # "done"
    BY AgentKeeps DEF Answering
  <1>2. UNCHANGED <<emitter, wire, gateway, shown, verdict, cancelled>>
    BY Zenon DEF AgentStep, ReadInit, ReadText, ReadResult, ReadEnd, AgentCancelled, Reap, downstream
  <1>3. Held' /\ Underway'
    BY <1>1, <1>2 DEF Answering, Held, Underway, Honest
  <1>4. Forwarded'
    BY <1>1, <1>2 DEF Answering, Forwarded, Honest
  <1>5. CompletedExactly'
    BY <1>1, <1>2 DEF Answering, CompletedExactly
  <1> QED BY <1>1, <1>3, <1>4, <1>5 DEF Answering

\* Sending one more event.
LEMMA SendKeeps ==
  ASSUME Underway, NEW event \in Message, Honest(event), Send(event), UNCHANGED agent
  PROVE  Underway'
  <1>1. wire' = Append(wire, event) /\ wire \in Seq(Message)
    BY DEF Send, Underway
  <1>2. /\ wire' \in Seq(Message) /\ Len(wire') = Len(wire) + 1 /\ Len(wire) \in Nat
        /\ wire'[Len(wire) + 1] = event
        /\ \A i \in 1..Len(wire) : wire'[i] = wire[i]
    BY <1>1
  <1>3. ASSUME NEW i \in 1..Len(wire') PROVE Honest(wire'[i])
    BY <1>2 DEF Underway
  <1> QED BY <1>2, <1>3 DEF Underway, Honest

\* The bridge's handler: an update passed on or held back, a heartbeat, or the
\* end of the run.
LEMMA TakeUpdateKeeps ==
  ASSUME Answering, TakeUpdate
  PROVE  Answering'
  <1> DEFINE held == emitter.pending \o agent.offer
             plain == emitter.plain \/ (agent.offer # <<>> /\ ~potentialClientCall(held))
             text == CASE agent.offer = <<>> -> <<>>
                       [] emitter.plain -> agent.offer
                       [] plain -> held
                       [] OTHER -> <<>>
  <1>0. RunWell /\ Held /\ Underway /\ Forwarded /\ CompletedExactly
    BY DEF Answering
  <1>1. /\ agent.stage = "updating" /\ UNCHANGED <<gateway, shown, verdict, cancelled>>
        /\ \/ /\ Send(Event("progress", text, FALSE)) \/ UNCHANGED wire
              /\ emitter' = [emitter EXCEPT !.started = @ \/ agent.offer = <<>> \/ text # <<>>, !.plain = plain,
                                            !.pending = IF plain THEN <<>> ELSE held]
              /\ agent' = [agent EXCEPT !.stage = "reading"]
           \/ /\ emitter' = [emitter EXCEPT !.stage = "stopping"]
              /\ agent' = Refused /\ UNCHANGED wire
    BY Zenon DEF TakeUpdate, downstream
  <1>2. held \in Seq(Chunk) /\ agent.offer \in Seq(Chunk) /\ <<>> \in Seq(Chunk)
    BY <1>0 DEF Held, RunWell
  <1>3. text \in Seq(Chunk)
    <2> HIDE DEF held, plain
    <2> QED BY <1>2
  <1> HIDE DEF held, plain, text
  <1>4. RunWell' /\ Held'
    <2>1. agent' = [agent EXCEPT !.stage = "reading"] \/ agent' = Refused
      BY Zenon, <1>1
    <2>2. RunWell'
      BY Zenon, <1>0, <1>1, <2>1 DEF RunWell, Refused
    <2>3. Held'
      BY Zenon, <1>0, <1>1, <1>2 DEF Held
    <2> QED BY <2>2, <2>3
  <1>5. /\ Event("progress", text, FALSE) \in Message
        /\ Event("progress", text, FALSE).kind # "terminal"
    BY <1>3 DEF Event, Message
  <1>6. \A i \in 1..Len(wire) : wire[i].kind # "terminal"
    BY <1>0, <1>1 DEF Underway, Honest
  <1>7. Underway'
    <2>1. CASE UNCHANGED wire
      BY <1>0, <1>6, <2>1 DEF Underway, Honest
    <2>2. CASE Send(Event("progress", text, FALSE))
      <3> DEFINE event == Event("progress", text, FALSE)
      <3>0. event \in Message /\ event.kind # "terminal"
        BY Zenon, <1>5
      <3> HIDE DEF event
      <3>1. /\ wire' \in Seq(Message) /\ Len(wire') = Len(wire) + 1 /\ Len(wire) \in Nat
            /\ wire'[Len(wire) + 1] = event
            /\ \A i \in 1..Len(wire) : wire'[i] = wire[i]
        <4>1. wire' = Append(wire, event) /\ wire \in Seq(Message)
          BY <1>0, <2>2 DEF Send, Underway, event
        <4> QED BY <3>0, <4>1
      <3>2. \A i \in 1..Len(wire') : wire'[i].kind # "terminal"
        BY <1>6, <3>0, <3>1
      <3> QED BY <3>1, <3>2 DEF Underway, Honest
    <2> QED BY Zenon, <1>1, <2>1, <2>2
  <1>8. gateway.terminal = <<>> /\ verdict \notin {"complete", "call"}
    BY <1>0, <1>1 DEF Forwarded, Honest, CompletedExactly
  <1>9. Forwarded' /\ CompletedExactly'
    BY <1>0, <1>1, <1>8 DEF Forwarded, CompletedExactly
  <1> QED BY <1>4, <1>7, <1>9 DEF Answering

\* A step of the handler that leaves the run alone and sends an honest event
\* or none.
LEMMA SendingKeeps ==
  ASSUME Answering, UNCHANGED <<agent, gateway, shown, verdict, cancelled>>, Held',
         UNCHANGED wire \/ \E event \in Message : Honest(event) /\ Send(event)
  PROVE  Answering'
  <1>1. Underway'
    <2>1. CASE UNCHANGED wire
      BY <2>1 DEF Answering, Underway, Honest
    <2>2. CASE \E event \in Message : Honest(event) /\ Send(event)
      BY <2>2, SendKeeps DEF Answering
    <2> QED BY <2>1, <2>2
  <1>2. RunWell' /\ Forwarded' /\ CompletedExactly'
    BY DEF Answering, RunWell, Forwarded, CompletedExactly, Honest
  <1> QED BY <1>1, <1>2 DEF Answering

\* The emitter takes the end of the run and sends its result or its failure.
LEMMA TakeDoneKeeps ==
  ASSUME Answering, TakeDone
  PROVE  Answering'
  <1> DEFINE Sent(event) == event \in Message /\ Honest(event)
             failure == IF emitter.started THEN "error" ELSE "status"
  <1>1. /\ agent.stage = "done" /\ UNCHANGED <<agent, gateway, shown, verdict, cancelled>>
        /\ emitter' = [emitter EXCEPT !.stage = "ended"]
        /\ \/ UNCHANGED wire
           \/ Send(Event(failure, <<>>, FALSE))
           \/ ~agent.failed /\ Send(Event("terminal", agent.response, FALSE))
           \/ ~agent.failed /\ Send(Event("terminal", agent.response, TRUE))
    BY Zenon DEF TakeDone, downstream
  <1>2. Held' /\ agent.response \in Seq(Chunk)
    BY <1>1 DEF Answering, Held, RunWell
  <1>3. Sent(Event(failure, <<>>, FALSE))
    BY DEF Event, Message, Honest
  <1>4. ASSUME ~agent.failed, NEW call \in BOOLEAN PROVE Sent(Event("terminal", agent.response, call))
    BY <1>1, <1>2, <1>4 DEF Event, Message, Honest
  <1> HIDE DEF failure
  <1>5. UNCHANGED wire \/ \E event \in Message : Honest(event) /\ Send(event)
    BY Zenon, <1>1, <1>3, <1>4
  <1> QED BY <1>1, <1>2, <1>5, SendingKeeps

\* Every step of the emitter keeps the invariant.
LEMMA EmitterKeepsAnswer ==
  ASSUME Answering, EmitterStep
  PROVE  Answering'
  <1>1. CASE TakeUpdate
    BY <1>1, TakeUpdateKeeps
  <1>2. CASE Heartbeat
    <2>1. Event("progress", <<>>, FALSE) \in Message /\ Honest(Event("progress", <<>>, FALSE))
      BY DEF Event, Message, Honest
    <2>2. Held' /\ UNCHANGED <<agent, gateway, shown, verdict, cancelled>>
      BY Zenon, <1>2 DEF Heartbeat, downstream, Answering, Held
    <2>3. UNCHANGED wire \/ Send(Event("progress", <<>>, FALSE))
      BY Zenon, <1>2 DEF Heartbeat
    <2> QED BY Zenon, <2>1, <2>2, <2>3, SendingKeeps
  <1>3. CASE SeesCancellation \/ Stop
    <2>1. Held' /\ UNCHANGED <<agent, gateway, shown, verdict, cancelled>> /\ UNCHANGED wire
      BY <1>3 DEF SeesCancellation, Stop, downstream, Answering, Held
    <2> QED BY <2>1, SendingKeeps
  <1>4. CASE TakeDone
    BY <1>4, TakeDoneKeeps
  <1> QED BY <1>1, <1>2, <1>3, <1>4 DEF EmitterStep

\* What was shown and the rest of the result make the result.
LEMMA PrefixAndRest ==
  ASSUME NEW full \in Seq(Chunk), NEW text \in Seq(Chunk), text = <<>> \/ HasPrefix(full, text)
  PROVE  text \o Remainder(full, text) = full
  <1>1. Len(text) <= Len(full) /\ \A i \in 1..Len(text) : text[i] = full[i]
    <2>1. CASE text = <<>>
      BY <2>1
    <2>2. CASE HasPrefix(full, text)
      <3>1. Len(text) <= Len(full) /\ SubSeq(full, 1, Len(text)) = text
        BY <2>2 DEF HasPrefix
      <3>2. ASSUME NEW i \in 1..Len(text) PROVE text[i] = full[i]
        <4>1. SubSeq(full, 1, Len(text))[i] = full[i]
          BY <3>1
        <4> QED BY <3>1, <4>1
      <3> QED BY <3>1, <3>2
    <2> QED BY <2>1, <2>2
  <1> DEFINE rest == Remainder(full, text)
             whole == text \o rest
  <1>2. /\ rest \in Seq(Chunk)
        /\ Len(rest) = Len(full) - Len(text)
        /\ \A i \in 1..(Len(full) - Len(text)) : rest[i] = full[Len(text) + i]
    BY <1>1 DEF Remainder
  <1> HIDE DEF rest
  <1>3. whole \in Seq(Chunk) /\ Len(whole) = Len(full)
    BY <1>1, <1>2
  <1>4. ASSUME NEW i \in 1..Len(full) PROVE whole[i] = full[i]
    <2>1. CASE i <= Len(text)
      BY <1>1, <1>2, <2>1
    <2>2. CASE i > Len(text)
      <3>1. whole[i] = rest[i - Len(text)] /\ i - Len(text) \in 1..(Len(full) - Len(text))
        BY <1>1, <1>2, <2>2
      <3>2. full[Len(text) + (i - Len(text))] = full[i]
        BY <1>1, <2>2
      <3>3. rest[i - Len(text)] = full[Len(text) + (i - Len(text))]
        BY <1>2, <3>1
      <3> QED BY Zenon, <3>1, <3>2, <3>3
    <2> HIDE DEF whole
    <2>3. i <= Len(text) \/ i > Len(text)
      OBVIOUS
    <2> QED BY Zenon, <2>1, <2>2, <2>3
  <1> HIDE DEF whole
  <1>5. whole = full
    BY <1>3, <1>4
  <1> QED BY <1>5 DEF whole, rest

\* The gateway: an event passed on, the result withheld, a failure, or the end.
LEMMA GatewayFailsKeeps ==
  ASSUME Answering, GatewayFails, UNCHANGED <<agent, emitter>>, Underway'
  PROVE  Answering'
  BY DEF Answering, GatewayFails, RunWell, Held, Forwarded, Honest, CompletedExactly

\* The gateway reads an event and forwards, keeps or refuses it.
LEMMA GatewayEventKeeps ==
  ASSUME Answering, GatewayEvent
  PROVE  Answering'
  <1> DEFINE event == Head(wire)
  <1>0. RunWell /\ Held /\ Underway /\ Forwarded /\ CompletedExactly
    BY DEF Answering
  <1>1. /\ verdict = "open" /\ wire # <<>> /\ wire' = Tail(wire) /\ UNCHANGED <<agent, emitter>>
    BY DEF GatewayEvent, GatewayReads
  <1>2. \/ GatewayFails
        \/ /\ event.kind = "terminal"
           /\ gateway' = [gateway EXCEPT !.terminal = <<event>>]
           /\ UNCHANGED <<shown, verdict, cancelled>>
        \/ /\ gateway' = [gateway EXCEPT !.text = @ \o event.text]
           /\ shown' = shown \o event.text
           /\ UNCHANGED <<verdict, cancelled>>
    BY Zenon DEF GatewayEvent
  <1>3. event \in Message /\ Honest(event) /\ event = wire[1]
    BY <1>0, <1>1 DEF Underway
  <1>4. Underway'
    <2>1. /\ wire' \in Seq(Message) /\ Len(wire') = Len(wire) - 1 /\ Len(wire) \in Nat
          /\ \A i \in 1..Len(wire') : wire'[i] = wire[i + 1]
      BY <1>0, <1>1 DEF Underway
    <2>2. \A i \in 1..Len(wire') : Honest(wire'[i])
      BY <1>0, <2>1 DEF Underway
    <2> QED BY <1>1, <2>1, <2>2 DEF Underway, Honest
  <1> HIDE DEF event
  <1>5. CASE GatewayFails
    BY <1>1, <1>4, <1>5, GatewayFailsKeeps
  <1>6. RunWell' /\ Held'
    BY <1>0, <1>1 DEF RunWell, Held
  <1>7. CASE /\ event.kind = "terminal"
             /\ gateway' = [gateway EXCEPT !.terminal = <<event>>]
             /\ UNCHANGED <<shown, verdict, cancelled>>
    <2>1. /\ DOMAIN gateway' = DOMAIN gateway /\ gateway'.terminal = <<event>> /\ gateway'.text = gateway.text
      BY <1>0, <1>7 DEF Forwarded
    <2>2. Forwarded'
      BY <1>0, <1>1, <1>3, <1>7, <2>1 DEF Forwarded, Honest
    <2>3. CompletedExactly'
      BY <1>1, <1>7 DEF CompletedExactly
    <2> QED BY <1>4, <1>6, <2>2, <2>3 DEF Answering
  <1>8. CASE /\ gateway' = [gateway EXCEPT !.text = @ \o event.text]
             /\ shown' = shown \o event.text
             /\ UNCHANGED <<verdict, cancelled>>
    <2>1. event.text \in Seq(Chunk)
      BY <1>3 DEF Message
    <2>2. /\ DOMAIN gateway' = DOMAIN gateway /\ gateway'.terminal = gateway.terminal
          /\ gateway'.text = gateway.text \o event.text /\ gateway.text = shown
      BY <1>0, <1>1, <1>8 DEF Forwarded
    <2>3. gateway'.text \in Seq(Chunk)
      BY <1>0, <2>1, <2>2 DEF Forwarded
    <2>4. Forwarded'
      BY <1>0, <1>1, <1>8, <2>2, <2>3 DEF Forwarded, Honest
    <2>5. CompletedExactly'
      BY <1>1, <1>8 DEF CompletedExactly
    <2> QED BY <1>4, <1>6, <2>4, <2>5 DEF Answering
  <1> QED BY Zenon, <1>2, <1>5, <1>7, <1>8

\* The stream ends and the gateway decides.
LEMMA GatewayEndKeeps ==
  ASSUME Answering, GatewayEnd
  PROVE  Answering'
  <1> DEFINE result == gateway.terminal[1]
  <1>0. RunWell /\ Held /\ Underway /\ Forwarded /\ CompletedExactly
    BY DEF Answering
  <1>1. verdict = "open" /\ UNCHANGED <<agent, emitter, wire>>
    BY DEF GatewayEnd, GatewayReads
  <1>2. RunWell' /\ Held' /\ Underway'
    BY <1>0, <1>1 DEF RunWell, Held, Underway, Honest
  <1>3. CASE GatewayFails
    BY <1>1, <1>2, <1>3, GatewayFailsKeeps
  <1>4. CASE ~GatewayFails
    <2>1. /\ gateway.terminal # <<>>
          /\ gateway.text = <<>> \/ HasPrefix(result.text, gateway.text)
          /\ shown' = IF result.call THEN shown ELSE shown \o Remainder(result.text, gateway.text)
          /\ verdict' = IF result.call THEN "call" ELSE "complete"
          /\ gateway' = [gateway EXCEPT !.stage = "ended"]
      BY Zenon, <1>4 DEF GatewayEnd
    <2>2. /\ result.text \in Seq(Chunk) /\ result.text = agent.response /\ agent.stage = "done" /\ ~agent.failed
          /\ gateway.text \in Seq(Chunk) /\ gateway.text = shown
      BY <1>0, <1>1, <2>1 DEF Forwarded, Honest, Message
    <2>3. ~result.call => shown' = agent.response
      BY <2>1, <2>2, PrefixAndRest
    <2>4. Forwarded'
      BY <1>0, <1>1, <2>1 DEF Forwarded, Honest
    <2>5. CompletedExactly'
      BY <1>0, <1>1, <2>1, <2>2, <2>3 DEF CompletedExactly, RunWell
    <2> QED BY <1>2, <2>4, <2>5 DEF Answering
  <1> QED BY <1>3, <1>4

\* Every step of a stream keeps the invariant.
LEMMA AnsweringStep == Answering /\ [StreamNext]_streamVars => Answering'
  <1> SUFFICES ASSUME Answering, [StreamNext]_streamVars PROVE Answering'
    OBVIOUS
  <1>1. CASE AgentStep
    BY <1>1, AgentKeepsAnswer
  <1>2. CASE EmitterStep
    BY <1>2, EmitterKeepsAnswer
  <1>3. CASE GatewayStep
    BY <1>3, GatewayEventKeeps, GatewayEndKeeps DEF GatewayStep
  <1>4. CASE ConnectionBreaks
    <2>1. Underway'
      BY <1>4 DEF ConnectionBreaks, Underway
    <2> QED BY <1>4, <2>1, GatewayFailsKeeps DEF ConnectionBreaks
  <1>5. CASE ClientLeaves
    BY <1>5 DEF ClientLeaves, Answering, RunWell, Held, Underway, Forwarded, Honest, CompletedExactly
  <1>6. CASE UNCHANGED streamVars
    BY <1>6 DEF streamVars, Answering, RunWell, Held, Underway, Forwarded, Honest, CompletedExactly
  <1> QED BY Zenon, <1>1, <1>2, <1>3, <1>4, <1>5, <1>6 DEF StreamNext

\* Nothing is sent or shown at the start.
LEMMA AnsweringStart == StreamInit => Answering
  BY DEF StreamInit, Answering, RunWell, Held, Underway, Forwarded, Honest, CompletedExactly

\* A streamed answer that the gateway completes is exactly the one result of a
\* CLI run that ended well, whatever is held back, broken off or abandoned on
\* the way: for every length of answer and number of events.
THEOREM CompletedExactlyHolds == StreamSpec => []CompletedExactly
  <1>1. Answering => CompletedExactly
    BY DEF Answering
  <1> QED BY <1>1, AnsweringStart, AnsweringStep, PTL DEF StreamSpec

-----------------------------------------------------------------------------
(***************************************************************************)
(* The proxy.  It never gives two nodes one port, tunnels keep the port of *)
(* their node as long as they last, and Mihomo, whatever reload it took    *)
(* last, never has a known node's port for another node.                   *)
(***************************************************************************)
RuntimeTypeOK ==
    /\ content \in [1..MaxSnapshot -> SUBSET NodeKeys]
    /\ appliedVersion \in 0..MaxSnapshot
    /\ nodes \in [NodeKeys -> Nat] /\ mihomo \in [NodeKeys -> Nat]
    /\ up \subseteq NodeKeys
    /\ tunnel \in [Tunnels -> [stage : {"closed", "dialling", "open"}, kind : {"none", "tunnel", "probe"},
                               node : NodeKeys \cup {"none"}, port : Nat]]

Carried(t) ==
    /\ tunnel[t].stage # "closed" =>
        /\ tunnel[t].node \in NodeKeys
        /\ tunnel[t].port = nodes[tunnel[t].node] /\ tunnel[t].port # NoPort
    /\ tunnel[t].stage = "open" =>
        tunnel[t].node \in up /\ mihomo[tunnel[t].node] = nodes[tunnel[t].node]

PortsApart ==
    /\ \A k, l \in NodeKeys : nodes[k] = nodes[l] /\ nodes[k] # NoPort => k = l
    /\ \A k, l \in NodeKeys : mihomo[k] = nodes[l] /\ nodes[l] # NoPort => k = l

\* Which nodes the runtime knows, and from which snapshots.
Installation ==
    /\ \A i, j, l \in 1..MaxSnapshot : i < j /\ j < l => content[i] \cap content[l] \subseteq content[j]
    /\ routes = desired
    /\ appliedVersion > 0 => desired = content[appliedVersion]
    /\ appliedVersion = 0 => desired = {} /\ ~rtReady
    /\ \A k \in NodeKeys : nodes[k] # NoPort => \E i \in 1..appliedVersion : k \in content[i]
    /\ \A k \in desired : nodes[k] # NoPort
    /\ ~shaken /\ appliedVersion > 0 => rtReady

RuntimeInvariant ==
    /\ RuntimeTypeOK /\ PortsApart /\ Installation /\ ReadyRoutesServed
    /\ \A t \in Tunnels : Carried(t)

-----------------------------------------------------------------------------
\* A reload keeps the listeners of the nodes that stay on their port.
LEMMA ReloadKeeps ==
    ASSUME NEW old, NEW open, open \subseteq NodeKeys, NEW config, NEW m \in Reloaded(old, open, config)
    PROVE  /\ m.config = config
           /\ m.up \subseteq NodeKeys
           /\ \A k \in open : config[k] # NoPort /\ config[k] = old[k] => k \in m.up
<1> DEFINE same == {k \in open : config[k] # NoPort /\ config[k] = old[k]}
<1>1. PICK more \in SUBSET (Known(config) \ same) : m = [config |-> config, up |-> same \union more]
  BY DEF Reloaded
<1>2. Known(config) \subseteq NodeKeys
  BY DEF Known
<1> QED BY <1>1, <1>2

\* A reload in doubt did happen or did not; either way the listeners stay.
LEMMA DoubtfulKeeps ==
    ASSUME NEW old, NEW open, open \subseteq NodeKeys, NEW config, NEW m \in Doubtful(old, open, config),
           NEW k \in open, config[k] # NoPort, config[k] = old[k]
    PROVE  k \in m.up
<1>1. CASE m = [config |-> old, up |-> open]
  BY <1>1
<1>2. CASE m \in Reloaded(old, open, config)
  BY <1>2, ReloadKeeps, Zenon
<1> QED BY <1>1, <1>2 DEF Doubtful

\* A reload whose outcome is unknown leaves one of the two configurations, and
\* the listeners both of them have.
LEMMA DoubtfulReload ==
    ASSUME NEW old, NEW open, open \subseteq NodeKeys, NEW config, NEW m \in Doubtful(old, open, config)
    PROVE  /\ m.config \in {old, config}
           /\ m.up \subseteq NodeKeys
           /\ \A k \in open : config[k] # NoPort /\ config[k] = old[k] => k \in m.up /\ m.config[k] = old[k]
<1>1. CASE m = [config |-> old, up |-> open]
  BY <1>1
<1>2. CASE m \in Reloaded(old, open, config)
  <2>1. m.config = config /\ m.up \subseteq NodeKeys
    BY Zenon, <1>2, ReloadKeeps
  <2>2. ASSUME NEW k \in open, config[k] # NoPort, config[k] = old[k]
        PROVE  k \in m.up
    BY Zenon, <1>2, <2>2, ReloadKeeps
  <2> QED BY <2>1, <2>2
<1> QED BY <1>1, <1>2 DEF Doubtful

\* The nodes of a candidate: known ones that stay, and new ones on fresh ports.
LEMMA CandidateNodes ==
    ASSUME RuntimeTypeOK, NEW v \in 1..MaxSnapshot, NEW fresh \in Assignments(v), NEW k \in NodeKeys
    PROVE  /\ Candidate(v, fresh)[k] \in Nat
           /\ \/ /\ Candidate(v, fresh)[k] = nodes[k] /\ nodes[k] # NoPort
                 /\ Active(k) \/ k \in content[v]
              \/ /\ k \in New(v) /\ Candidate(v, fresh)[k] = fresh[k] /\ fresh[k] # NoPort
                 /\ \A l \in NodeKeys : nodes[l] # fresh[k]
              \/ Candidate(v, fresh)[k] = NoPort /\ k \notin content[v] /\ ~(nodes[k] # NoPort /\ Active(k))
<1>1. fresh \in [New(v) -> FreePorts(v)] /\ FreePorts(v) \subseteq Nat \ {0}
  BY Zenon, RuntimeAssumption DEF Assignments, FreePorts
<1>2. k \in New(v) <=> k \in content[v] /\ nodes[k] = NoPort
  BY DEF New
<1>3. k \in New(v) => fresh[k] \in Nat \ {0} /\ fresh[k] \in FreePorts(v)
  BY <1>1
<1>4. k \in New(v) => \A l \in NodeKeys : nodes[l] # fresh[k]
  BY <1>3 DEF FreePorts
<1>5. Candidate(v, fresh)[k] = IF nodes[k] # NoPort /\ (Active(k) \/ k \in content[v]) THEN nodes[k]
                               ELSE IF k \in content[v] THEN fresh[k] ELSE NoPort
  BY DEF Candidate
<1>6. nodes[k] \in Nat
  BY DEF RuntimeTypeOK
<1> QED BY <1>2, <1>3, <1>4, <1>5, <1>6 DEF NoPort

\* A candidate's ports are apart, from one another and from the known ones.
LEMMA CandidateApart ==
    ASSUME RuntimeTypeOK, PortsApart, NEW v \in 1..MaxSnapshot, NEW fresh \in Assignments(v),
           NEW k \in NodeKeys, NEW l \in NodeKeys, Candidate(v, fresh)[k] # NoPort
    PROVE  /\ Candidate(v, fresh)[k] = Candidate(v, fresh)[l] => k = l
           /\ Candidate(v, fresh)[k] = nodes[l] => k = l
<1>1. \A x, y \in New(v) : x # y => fresh[x] # fresh[y]
  BY DEF Assignments
<1>2. CASE k \in New(v) /\ Candidate(v, fresh)[k] = fresh[k] /\ \A x \in NodeKeys : nodes[x] # fresh[k]
  BY <1>1, <1>2, CandidateNodes
<1>3. CASE Candidate(v, fresh)[k] = nodes[k] /\ nodes[k] # NoPort
  BY <1>3, CandidateNodes DEF PortsApart
<1> QED BY <1>2, <1>3, CandidateNodes

\* Configurations the runtime loads keep the port of every node with a tunnel.
LEMMA ActiveKeepPort ==
    ASSUME RuntimeInvariant, NEW t \in Tunnels, tunnel[t].stage # "closed"
    PROVE  /\ \A v \in 1..MaxSnapshot : \A fresh \in Assignments(v) :
                Candidate(v, fresh)[tunnel[t].node] = nodes[tunnel[t].node]
           /\ Keep[tunnel[t].node] = nodes[tunnel[t].node]
           /\ tunnel[t].node \in NodeKeys /\ nodes[tunnel[t].node] # NoPort
<1>1. tunnel[t].node \in NodeKeys /\ nodes[tunnel[t].node] # NoPort
  BY DEF RuntimeInvariant, Carried
<1>2. Active(tunnel[t].node)
  BY DEF Active
<1> QED BY <1>1, <1>2 DEF Candidate, Keep

\* A reload to a configuration that keeps the ports of the nodes with tunnels.
LEMMA TunnelsCarried ==
    ASSUME RuntimeInvariant, RuntimeTypeOK', UNCHANGED tunnel,
           \A t \in Tunnels : tunnel[t].stage # "closed" => nodes'[tunnel[t].node] = nodes[tunnel[t].node],
           \A k \in NodeKeys : (\E t \in Tunnels : tunnel[t].stage = "open" /\ tunnel[t].node = k) =>
                k \in up' /\ mihomo'[k] = mihomo[k]
    PROVE  \A t \in Tunnels : Carried(t)'
<1> SUFFICES ASSUME NEW t \in Tunnels PROVE Carried(t)'
  OBVIOUS
<1>1. Carried(t)
  BY DEF RuntimeInvariant
<1> QED BY <1>1 DEF Carried

-----------------------------------------------------------------------------
\* A snapshot is installed.
LEMMA InstallStep ==
    ASSUME RuntimeInvariant, NEW v \in 1..MaxSnapshot, NEW fresh \in Assignments(v), install(v, fresh)
    PROVE  RuntimeInvariant'
<1> DEFINE next == Candidate(v, fresh)
<1>0. /\ RuntimeTypeOK /\ PortsApart /\ Installation /\ v \in Nat /\ MaxSnapshot \in Nat
      /\ appliedVersion \in Nat /\ content[v] \subseteq NodeKeys
  BY RuntimeAssumption DEF RuntimeInvariant, RuntimeTypeOK
<1>1. PICK m \in Reloaded(mihomo, up, next) : New(v) \subseteq m.up /\ mihomo' = m.config /\ up' = m.up
  BY DEF install
<1>2. /\ nodes' = next /\ desired' = content[v] /\ routes' = content[v] /\ appliedVersion' = v /\ rtReady' = TRUE
      /\ content' = content /\ tunnel' = tunnel /\ shaken' = shaken
  BY DEF install
<1>3. /\ mihomo' = next /\ up' \subseteq NodeKeys
      /\ \A k \in up : next[k] # NoPort /\ next[k] = mihomo[k] => k \in up'
  <2>1. up \subseteq NodeKeys
    BY <1>0 DEF RuntimeTypeOK
  <2> HIDE DEF next
  <2>2. /\ m.config = next /\ m.up \subseteq NodeKeys
        /\ \A k \in up : next[k] # NoPort /\ next[k] = mihomo[k] => k \in m.up
    BY <1>1, <2>1, ReloadKeeps, ZenonT(30)
  <2> QED BY <1>1, <2>2
<1>4. next \in [NodeKeys -> Nat]
  BY <1>0, CandidateNodes DEF Candidate
<1>5. RuntimeTypeOK'
  BY <1>0, <1>2, <1>3, <1>4 DEF RuntimeTypeOK
<1>6. \A k, l \in NodeKeys : next[k] # NoPort /\ next[k] = next[l] => k = l
  BY <1>0, CandidateApart
<1>7. \A k \in content[v] : next[k] # NoPort
  BY <1>0, CandidateNodes
<1>8. appliedVersion <= v
  BY <1>0 DEF install, Installable
<1>9. \A k \in NodeKeys : next[k] # NoPort => \E i \in 1..v : k \in content[i]
  <2> SUFFICES ASSUME NEW k \in NodeKeys, next[k] # NoPort PROVE \E i \in 1..v : k \in content[i]
    OBVIOUS
  <2>1. CASE nodes[k] # NoPort
    <3>1. PICK i \in 1..appliedVersion : k \in content[i]
      BY <1>0, <2>1 DEF Installation
    <3> QED BY <1>0, <1>8, <3>1
  <2>2. CASE k \in content[v]
    BY <1>0, <2>2
  <2>3. nodes[k] # NoPort \/ k \in content[v]
    BY <1>0, CandidateNodes, Zenon DEF New
  <2> QED BY <2>1, <2>2, <2>3
<1>10. ASSUME ~shaken, NEW k \in content[v]
       PROVE  k \in up'
  <2>1. CASE k \in New(v)
    BY <1>1, <2>1
  <2>2. CASE k \notin New(v)
    <3>1. k \in NodeKeys /\ nodes[k] # NoPort
      BY <1>0, <2>2 DEF New
    <3>2. PICK i \in 1..appliedVersion : k \in content[i]
      BY <1>0, <3>1 DEF Installation
    <3>3. appliedVersion > 0 /\ rtReady /\ v > appliedVersion
      BY <1>0, <1>10, <3>2 DEF Installation, install, Installable
    <3>4. k \in content[appliedVersion]
      BY <1>0, <1>10, <3>2, <3>3 DEF Installation
    <3>5. mihomo[k] = nodes[k] /\ k \in up
      BY <1>0, <1>10, <3>3, <3>4 DEF Installation, RuntimeInvariant, ReadyRoutesServed
    <3>6. next[k] = nodes[k]
      BY <1>10, <3>1 DEF Candidate
    <3> QED BY <1>3, <3>1, <3>5, <3>6
  <2> QED BY <2>1, <2>2
<1>11. \A t \in Tunnels : Carried(t)'
  <2>1. ASSUME NEW t \in Tunnels, tunnel[t].stage # "closed"
        PROVE  next[tunnel[t].node] = nodes[tunnel[t].node]
    BY <2>1, ActiveKeepPort
  <2>2. ASSUME NEW t \in Tunnels, tunnel[t].stage = "open"
        PROVE  tunnel[t].node \in up' /\ mihomo'[tunnel[t].node] = mihomo[tunnel[t].node]
    <3>1. tunnel[t].node \in up /\ mihomo[tunnel[t].node] = nodes[tunnel[t].node]
      BY <2>2 DEF RuntimeInvariant, Carried
    <3>2. next[tunnel[t].node] = nodes[tunnel[t].node] /\ nodes[tunnel[t].node] # NoPort
      BY <2>2, ActiveKeepPort
    <3> QED BY <1>3, <3>1, <3>2
  <2> HIDE DEF next
  <2> QED BY <1>2, <1>5, <2>1, <2>2, TunnelsCarried
<1> HIDE DEF next
<1>12. PortsApart'
  BY <1>2, <1>3, <1>6 DEF PortsApart
<1>13. Installation'
  BY <1>0, <1>2, <1>7, <1>9 DEF Installation
<1>14. ReadyRoutesServed'
  BY <1>2, <1>3, <1>10 DEF ReadyRoutesServed
<1> QED BY <1>5, <1>11, <1>12, <1>13, <1>14 DEF RuntimeInvariant

\* Reloads that leave what the runtime knows: to one of the configurations,
\* maybe one after the other.
LEMMA ReloadStep ==
    ASSUME RuntimeInvariant, UNCHANGED <<content, nodes, desired, routes, appliedVersion, tunnel>>,
           mihomo' \in [NodeKeys -> Nat], up' \subseteq NodeKeys,
           \A k, l \in NodeKeys : mihomo'[k] = nodes[l] /\ nodes[l] # NoPort => k = l,
           \A t \in Tunnels : tunnel[t].stage = "open" =>
                tunnel[t].node \in up' /\ mihomo'[tunnel[t].node] = nodes[tunnel[t].node],
           ReadyRoutesServed', ~shaken' => ~shaken, rtReady' = rtReady \/ (shaken' /\ ~rtReady')
    PROVE  RuntimeInvariant'
<1>1. RuntimeTypeOK'
  BY DEF RuntimeInvariant, RuntimeTypeOK
<1>2. PortsApart'
  BY DEF RuntimeInvariant, PortsApart
<1>3. Installation'
  BY DEF RuntimeInvariant, Installation
<1>4. \A t \in Tunnels : Carried(t)'
  BY DEF RuntimeInvariant, Carried
<1> QED BY <1>1, <1>2, <1>3, <1>4 DEF RuntimeInvariant

\* An installation fails.
LEMMA RollbackStep ==
    ASSUME RuntimeInvariant, NEW v \in 1..MaxSnapshot, NEW fresh \in Assignments(v),
           RolledBack(v, fresh) \/ RollbackFailed(v, fresh)
    PROVE  RuntimeInvariant'
<1> DEFINE next == Candidate(v, fresh)
<1>0. RuntimeTypeOK /\ PortsApart /\ up \subseteq NodeKeys
  BY Zenon DEF RuntimeInvariant, RuntimeTypeOK
<1>1. next \in [NodeKeys -> Nat]
  BY <1>0, CandidateNodes DEF Candidate
<1>2. \A k, l \in NodeKeys : next[k] = nodes[l] /\ nodes[l] # NoPort => k = l
  BY <1>0, CandidateApart
<1>3. ASSUME NEW t \in Tunnels, tunnel[t].stage = "open"
      PROVE  /\ tunnel[t].node \in up /\ mihomo[tunnel[t].node] = nodes[tunnel[t].node]
             /\ next[tunnel[t].node] = nodes[tunnel[t].node] /\ nodes[tunnel[t].node] # NoPort
  BY <1>3, ActiveKeepPort DEF RuntimeInvariant, Carried
<1> HIDE DEF next
<1>4. CASE RolledBack(v, fresh)
  <2>1. PICK m \in Doubtful(mihomo, up, next) : \E n \in Reloaded(m.config, m.up, nodes) :
            Known(nodes) \subseteq n.up /\ mihomo' = n.config /\ up' = n.up
    BY Zenon, <1>4 DEF RolledBack, next
  <2>2. PICK n \in Reloaded(m.config, m.up, nodes) :
            Known(nodes) \subseteq n.up /\ mihomo' = n.config /\ up' = n.up
    BY <2>1
  <2>3. m.up \subseteq NodeKeys
    BY Zenon, <1>0, <2>1, DoubtfulReload
  <2>4. mihomo' = nodes /\ up' \subseteq NodeKeys /\ Known(nodes) \subseteq up'
    BY ZenonT(30), <2>2, <2>3, ReloadKeeps
  <2>5. UNCHANGED <<content, nodes, desired, routes, appliedVersion, rtReady, tunnel, shaken>>
    BY Zenon, <1>4 DEF RolledBack
  <2>6. ReadyRoutesServed'
    <3>1. \A k \in routes : k \in NodeKeys /\ nodes[k] # NoPort
      <4>1. routes = desired /\ (appliedVersion > 0 => desired = content[appliedVersion])
            /\ (appliedVersion = 0 => desired = {}) /\ (\A k \in desired : nodes[k] # NoPort)
        BY Zenon DEF RuntimeInvariant, Installation
      <4>2. appliedVersion \in 0..MaxSnapshot /\ MaxSnapshot \in Nat
        BY <1>0, RuntimeAssumption DEF RuntimeTypeOK
      <4>3. routes \subseteq NodeKeys
        BY <1>0, <4>1, <4>2 DEF RuntimeTypeOK
      <4> QED BY Zenon, <4>1, <4>3
    <3> QED BY Zenon, <2>4, <2>5, <3>1 DEF ReadyRoutesServed, Known
  <2>7. \A t \in Tunnels : tunnel[t].stage = "open" =>
            tunnel[t].node \in up' /\ mihomo'[tunnel[t].node] = nodes[tunnel[t].node]
    BY <1>0, <1>3, <2>4 DEF Known
  <2> QED BY Zenon, <1>0, <2>4, <2>5, <2>6, <2>7, ReloadStep DEF RuntimeTypeOK, PortsApart
<1>5. CASE RollbackFailed(v, fresh)
  <2>1. PICK m \in Doubtful(mihomo, up, next) : \E n \in Doubtful(m.config, m.up, nodes) :
            mihomo' = n.config /\ up' = n.up
    BY <1>5 DEF RollbackFailed, next
  <2>2. PICK n \in Doubtful(m.config, m.up, nodes) : mihomo' = n.config /\ up' = n.up
    BY <2>1
  <2>3. /\ m.up \subseteq NodeKeys /\ m.config \in {mihomo, next}
        /\ \A k \in up : next[k] # NoPort /\ next[k] = mihomo[k] => k \in m.up /\ m.config[k] = mihomo[k]
    BY <1>0, <2>1, DoubtfulReload
  <2>4. /\ up' \subseteq NodeKeys /\ mihomo' \in {m.config, nodes}
        /\ \A k \in m.up : nodes[k] # NoPort /\ nodes[k] = m.config[k] => k \in up' /\ mihomo'[k] = m.config[k]
    <3>1. n.config \in {m.config, nodes} /\ n.up \subseteq NodeKeys
      BY Zenon, <2>2, <2>3, DoubtfulReload
    <3>2. ASSUME NEW k \in m.up, nodes[k] # NoPort, nodes[k] = m.config[k]
          PROVE  k \in n.up /\ n.config[k] = m.config[k]
      <4> DEFINE between == m.config
      <4> DEFINE open == m.up
      <4>1. n \in Doubtful(between, open, nodes) /\ open \subseteq NodeKeys
        BY <2>2, <2>3
      <4>2. k \in open /\ nodes[k] = between[k]
        BY <3>2
      <4> HIDE DEF between, open
      <4>3. k \in n.up
        BY <3>2, <4>1, <4>2, DoubtfulKeeps, Zenon
      <4> QED BY <3>1, <3>2, <4>3
    <3> QED BY <2>2, <3>1, <3>2
  <2>5. /\ UNCHANGED <<content, nodes, desired, routes, appliedVersion, tunnel>>
        /\ rtReady' = FALSE /\ shaken' = TRUE
    BY <1>5 DEF RollbackFailed
  <2>6. mihomo' \in {mihomo, next, nodes}
    BY Zenon, <2>3, <2>4
  <2>7. ReadyRoutesServed'
    BY <2>5 DEF ReadyRoutesServed
  <2>8. \A t \in Tunnels : tunnel[t].stage = "open" =>
            tunnel[t].node \in up' /\ mihomo'[tunnel[t].node] = nodes[tunnel[t].node]
    BY <1>3, <2>3, <2>4
  <2>9. \A k, l \in NodeKeys : mihomo'[k] = nodes[l] /\ nodes[l] # NoPort => k = l
    BY <1>0, <1>2, <2>6 DEF PortsApart
  <2>10. mihomo' \in [NodeKeys -> Nat]
    BY <1>0, <1>1, <2>6 DEF RuntimeTypeOK
  <2> QED BY <2>4, <2>5, <2>7, <2>8, <2>9, <2>10, ReloadStep
<1> QED BY <1>4, <1>5

\* Nodes without a route and without a tunnel are dropped, or Mihomo does not
\* take the configuration without them.
LEMMA PruneStep ==
    ASSUME RuntimeInvariant, prune
    PROVE  RuntimeInvariant'
<1>0. RuntimeTypeOK /\ PortsApart /\ Installation /\ ReadyRoutesServed /\ up \subseteq NodeKeys
  BY DEF RuntimeInvariant, RuntimeTypeOK
<1>1. /\ Keep \in [NodeKeys -> Nat]
      /\ \A k \in NodeKeys : Keep[k] = nodes[k] \/ (Keep[k] = NoPort /\ k \notin desired)
  BY <1>0 DEF Keep, RuntimeTypeOK, NoPort
<1>2. UNCHANGED <<content, desired, routes, appliedVersion, rtReady, tunnel, shaken>> /\ rtReady
  BY DEF prune, publishedVars
<1>3. /\ mihomo' \in {mihomo, Keep} /\ nodes' \in {nodes, Keep} /\ (nodes' = Keep => mihomo' = Keep \/ nodes = Keep)
      /\ up' \subseteq NodeKeys
      /\ \A k \in up : Keep[k] # NoPort /\ Keep[k] = mihomo[k] => k \in up' /\ mihomo'[k] = mihomo[k]
  <2>1. CASE /\ \E m \in Reloaded(mihomo, up, Keep) : mihomo' = m.config /\ up' = m.up
             /\ nodes' = Keep
    <3>1. PICK m \in Reloaded(mihomo, up, Keep) : mihomo' = m.config /\ up' = m.up
      BY <2>1
    <3>2. m.config = Keep /\ m.up \subseteq NodeKeys
      BY Zenon, <1>0, <3>1, ReloadKeeps
    <3>3. ASSUME NEW k \in up, Keep[k] # NoPort, Keep[k] = mihomo[k]
          PROVE  k \in m.up
      BY Zenon, <1>0, <3>1, <3>3, ReloadKeeps
    <3> QED BY <2>1, <3>1, <3>2, <3>3
  <2>2. CASE /\ \E m \in Doubtful(mihomo, up, Keep) : mihomo' = m.config /\ up' = m.up
             /\ UNCHANGED nodes
    <3>1. PICK m \in Doubtful(mihomo, up, Keep) : mihomo' = m.config /\ up' = m.up
      BY <2>2
    <3>2. m.config \in {mihomo, Keep} /\ m.up \subseteq NodeKeys
      BY Zenon, <1>0, <3>1, DoubtfulReload
    <3>3. ASSUME NEW k \in up, Keep[k] # NoPort, Keep[k] = mihomo[k]
          PROVE  k \in m.up /\ m.config[k] = mihomo[k]
      BY <1>0, <3>1, <3>3, DoubtfulReload
    <3> QED BY <2>2, <3>1, <3>2, <3>3
  <2> QED BY <2>1, <2>2 DEF prune
<1>4. desired \subseteq NodeKeys /\ routes = desired /\ \A k \in desired : nodes[k] # NoPort
  <2>1. appliedVersion \in 0..MaxSnapshot /\ MaxSnapshot \in Nat
    BY <1>0, RuntimeAssumption DEF RuntimeTypeOK
  <2> QED BY <1>0, <2>1 DEF Installation, RuntimeTypeOK
<1>5. ASSUME NEW k \in desired
      PROVE  Keep[k] = nodes[k] /\ nodes'[k] = nodes[k] /\ mihomo'[k] = nodes[k] /\ (~shaken => k \in up')
  <2>1. k \in NodeKeys /\ nodes[k] # NoPort /\ Keep[k] = nodes[k]
    BY <1>1, <1>4
  <2>2. mihomo[k] = nodes[k] /\ (~shaken => k \in up)
    BY <1>0, <1>2, <1>4 DEF ReadyRoutesServed
  <2> QED BY <1>3, <2>1, <2>2
<1>6. ASSUME NEW t \in Tunnels, tunnel[t].stage # "closed"
      PROVE  Keep[tunnel[t].node] = nodes[tunnel[t].node] /\ nodes[tunnel[t].node] # NoPort
  BY <1>6, ActiveKeepPort
<1>7. ASSUME NEW t \in Tunnels, tunnel[t].stage = "open"
      PROVE  tunnel[t].node \in up' /\ mihomo'[tunnel[t].node] = mihomo[tunnel[t].node]
  <2>1. tunnel[t].node \in up /\ mihomo[tunnel[t].node] = nodes[tunnel[t].node]
    BY <1>7 DEF RuntimeInvariant, Carried
  <2> QED BY <1>3, <1>6, <1>7, <2>1
<1>8. RuntimeTypeOK'
  BY Zenon, <1>0, <1>1, <1>2, <1>3 DEF RuntimeTypeOK
<1>9. \A t \in Tunnels : Carried(t)'
  BY <1>2, <1>3, <1>6, <1>7, <1>8, TunnelsCarried
<1>10. PortsApart'
  BY <1>0, <1>1, <1>3 DEF PortsApart
<1>11. \A k \in NodeKeys : nodes'[k] # NoPort => nodes[k] # NoPort
  BY <1>1, <1>3
<1>12. Installation'
  BY Zenon, <1>0, <1>2, <1>5, <1>11 DEF Installation
<1>13. ReadyRoutesServed'
  BY <1>2, <1>4, <1>5 DEF ReadyRoutesServed
<1> QED BY <1>8, <1>9, <1>10, <1>12, <1>13 DEF RuntimeInvariant

\* Tunnels come and go.
LEMMA TunnelStep ==
    ASSUME RuntimeInvariant, NEW t \in Tunnels,
           Dialled(t) \/ Closed(t) \/ \E k \in NodeKeys : ServeHTTP(t, k) \/ probeNode(t, k)
    PROVE  RuntimeInvariant'
<1>0. RuntimeTypeOK /\ PortsApart /\ Installation /\ Carried(t)
  BY DEF RuntimeInvariant
<1>1. UNCHANGED <<content, appliedVersion, rtReady, desired, routes, nodes, mihomo, up, shaken>>
  BY ZenonT(30) DEF Dialled, Closed, ServeHTTP, probeNode, publishedVars
<1>2. PortsApart' /\ Installation' /\ ReadyRoutesServed'
  BY Zenon, <1>1 DEF RuntimeInvariant, PortsApart, Installation, ReadyRoutesServed
<1>3. ASSUME NEW x \in [stage : {"closed", "dialling", "open"}, kind : {"none", "tunnel", "probe"},
                        node : NodeKeys \cup {"none"}, port : Nat],
             tunnel' = [tunnel EXCEPT ![t] = x],
             x.stage # "closed" => x.node \in NodeKeys /\ x.port = nodes[x.node] /\ x.port # NoPort,
             x.stage = "open" => x.node \in up /\ mihomo[x.node] = nodes[x.node]
      PROVE  RuntimeInvariant'
  <2>1. RuntimeTypeOK'
    BY <1>0, <1>1, <1>3 DEF RuntimeTypeOK
  <2>2. tunnel'[t] = x /\ \A o \in Tunnels : o # t => tunnel'[o] = tunnel[o]
    BY <1>0, <1>3 DEF RuntimeTypeOK
  <2>3. Carried(t)'
    <3>1. nodes' = nodes /\ mihomo' = mihomo /\ up' = up
      BY Zenon, <1>1
    <3>2. /\ x.stage # "closed" => x.node \in NodeKeys /\ x.port = nodes'[x.node] /\ x.port # NoPort
          /\ x.stage = "open" => x.node \in up' /\ mihomo'[x.node] = nodes'[x.node]
      BY Zenon, <1>3, <3>1
    <3> QED BY Zenon, <2>2, <3>2 DEF Carried
  <2>4. ASSUME NEW o \in Tunnels, o # t PROVE Carried(o)'
    BY <1>1, <2>2, <2>4 DEF RuntimeInvariant, Carried
  <2> QED BY <1>2, <2>1, <2>3, <2>4 DEF RuntimeInvariant
<1>4. CASE Dialled(t)
  <2> DEFINE x == [tunnel[t] EXCEPT !.stage = "open"]
  <2>1. PICK k \in up : mihomo[k] = tunnel[t].port
    BY <1>4 DEF Dialled
  <2>2. /\ tunnel[t].node \in NodeKeys /\ tunnel[t].port = nodes[tunnel[t].node] /\ tunnel[t].port # NoPort
    BY <1>0, <1>4 DEF Carried, Dialled
  <2>3. k \in NodeKeys /\ k = tunnel[t].node
    BY <1>0, <2>1, <2>2 DEF RuntimeTypeOK, PortsApart
  <2>4. /\ x \in [stage : {"closed", "dialling", "open"}, kind : {"none", "tunnel", "probe"},
                  node : NodeKeys \cup {"none"}, port : Nat]
        /\ x.node = tunnel[t].node /\ x.port = tunnel[t].port
        /\ tunnel' = [tunnel EXCEPT ![t] = x]
    BY Zenon, <1>0, <1>4 DEF RuntimeTypeOK, Dialled
  <2> HIDE DEF x
  <2> QED BY Zenon, <1>3, <2>1, <2>2, <2>3, <2>4
<1>5. CASE Closed(t)
  <2>1. /\ NoTunnel \in [stage : {"closed", "dialling", "open"}, kind : {"none", "tunnel", "probe"},
                         node : NodeKeys \cup {"none"}, port : Nat]
        /\ NoTunnel.stage = "closed"
    BY DEF NoTunnel, NoPort
  <2> QED BY Zenon, <1>3, <1>5, <2>1 DEF Closed
<1>6. ASSUME NEW k \in NodeKeys, ServeHTTP(t, k) \/ probeNode(t, k) PROVE RuntimeInvariant'
  <2>1. PICK kind \in {"tunnel", "probe"} : Holds(t, kind, k)
    BY Zenon, <1>6 DEF ServeHTTP, probeNode
  <2> DEFINE x == [stage |-> "dialling", kind |-> kind, node |-> k, port |-> nodes[k]]
  <2>2. nodes[k] \in Nat /\ nodes[k] # NoPort
    BY Zenon, <1>0, <1>6 DEF ServeHTTP, probeNode, Installation, RuntimeTypeOK
  <2>3. /\ x \in [stage : {"closed", "dialling", "open"}, kind : {"none", "tunnel", "probe"},
                  node : NodeKeys \cup {"none"}, port : Nat]
        /\ x.node = k /\ x.port = nodes[k] /\ x.stage = "dialling" /\ tunnel' = [tunnel EXCEPT ![t] = x]
    BY <2>1, <2>2 DEF Holds
  <2> HIDE DEF x
  <2> QED BY ZenonT(30), <1>3, <2>2, <2>3
<1> QED BY <1>4, <1>5, <1>6

\* Every step keeps the invariant.
LEMMA RuntimeStep ==
    ASSUME RuntimeInvariant, [RuntimeNext]_runtimeVars
    PROVE  RuntimeInvariant'
<1>1. CASE Exits
  <2>1. RuntimeTypeOK'
    BY <1>1, RuntimeAssumption DEF Exits, RuntimeInvariant, RuntimeTypeOK, Nothing, NoTunnel, NoPort
  <2>2. PortsApart' /\ ReadyRoutesServed'
    BY <1>1 DEF Exits, PortsApart, ReadyRoutesServed, Nothing, NoPort
  <2>3. Installation'
    BY <1>1 DEF Exits, RuntimeInvariant, Installation, Nothing, NoPort
  <2>4. \A t \in Tunnels : Carried(t)'
    BY Zenon, <1>1 DEF Exits, Carried, NoTunnel
  <2> QED BY <2>1, <2>2, <2>3, <2>4 DEF RuntimeInvariant
<1>2. CASE UNCHANGED runtimeVars
  BY <1>2 DEF runtimeVars, RuntimeInvariant, RuntimeTypeOK, PortsApart, Installation, ReadyRoutesServed, Carried
<1> QED BY <1>1, <1>2, InstallStep, RollbackStep, PruneStep, TunnelStep DEF RuntimeNext

\* The proxy delivers what it offers through every installation, rollback,
\* failed reload and pruning.
THEOREM ProxyDeliversHolds == RuntimeSpec => []ProxyDelivers
<1>1. RuntimeInit => RuntimeInvariant
  <2> SUFFICES ASSUME RuntimeInit PROVE RuntimeInvariant
    OBVIOUS
  <2>1. RuntimeTypeOK
    BY RuntimeAssumption DEF RuntimeInit, RuntimeTypeOK, Nothing, NoTunnel, NoPort
  <2>2. PortsApart /\ ReadyRoutesServed
    BY DEF RuntimeInit, PortsApart, ReadyRoutesServed, Nothing, NoPort
  <2>3. Installation
    BY DEF RuntimeInit, Installation, Nothing, NoPort
  <2>4. \A t \in Tunnels : Carried(t)
    BY DEF RuntimeInit, Carried, NoTunnel
  <2> QED BY <2>1, <2>2, <2>3, <2>4 DEF RuntimeInvariant
<1>2. RuntimeInvariant => ProxyDelivers
  <2> SUFFICES ASSUME RuntimeInvariant PROVE ProxyDelivers
    BY Zenon
  <2>1. TunnelsReachTheirNode
    BY DEF RuntimeInvariant, PortsApart, Carried, TunnelsReachTheirNode
  <2>2. EstablishedTunnelsSurvive
    BY DEF RuntimeInvariant, Carried, EstablishedTunnelsSurvive
  <2> QED BY <2>1, <2>2 DEF RuntimeInvariant, ProxyDelivers
<1> QED BY <1>1, <1>2, RuntimeStep, PTL DEF RuntimeSpec

-----------------------------------------------------------------------------
(***************************************************************************)
(* The answers.  A call keeps the bindings it has met, its snapshot has    *)
(* one of them, an open registration has the node it was created with, and *)
(* what the runtime reports was applied.                                   *)
(***************************************************************************)
RequestFields == {"stage", "kind", "intent", "want", "snap", "answer", "seen"}
IntentFields == {"state", "node", "preserve", "revision", "baseline", "stale"}

IntentsKept ==
    /\ DOMAIN registration = Registrations /\ DOMAIN chosenNode = Registrations
    /\ \A r \in Registrations :
        /\ DOMAIN registration[r] = IntentFields
        /\ registration[r].state \in {"none", "pending", "prepared", "committed"}
        /\ registration[r].state \in {"pending", "prepared"} => registration[r].node = chosenNode[r]

RoutesRecorded == DOMAIN runtime = {"version", "ready", "routes"} /\ runtime.routes \subseteq applied

\* The answer of a finished call.
AnswerFollows(c) ==
    /\ egCall[c].kind = "account" /\ egCall[c].answer # Unavailable =>
        \E b \in egCall[c].seen :
            /\ b.revision = egCall[c].answer.revision
            /\ (b.node = Global) = (egCall[c].answer.mode = Global)
            /\ b.node = egCall[c].answer.route.node
    /\ egCall[c].answer.mode = "account" => egCall[c].answer.route \in applied
    /\ egCall[c].intent # "none" /\ egCall[c].answer.mode = Global =>
        chosenNode[egCall[c].intent] = Global \/ \E b \in egCall[c].seen : b.node = Global

CallFacts(c) ==
    /\ DOMAIN egCall[c] = RequestFields
    /\ egCall[c].intent # "none" =>
        egCall[c].intent \in Registrations /\ registration[egCall[c].intent].state # "none"
    /\ egCall[c].stage \in {"sync", "exchange"} /\ egCall[c].kind = "account" => egBinding \in egCall[c].seen
    /\ egCall[c].stage = "exchange" /\ egCall[c].kind = "account" => egCall[c].snap.binding \in egCall[c].seen
    /\ egCall[c].stage \in {"sync", "exchange"} /\ egCall[c].kind = "registration" => egCall[c].want.node # Global
    /\ egCall[c].stage = "done" => AnswerFollows(c)

EgressInvariant ==
    /\ IntentsKept /\ RoutesRecorded
    /\ DOMAIN egCall = EgCalls
    /\ \A c \in EgCalls : CallFacts(c)

-----------------------------------------------------------------------------
\* A registration that exists stays, with the node it was created with; routes
\* once applied stay recorded.
RecordsGrow ==
    /\ \A r \in Registrations : registration[r].state # "none" =>
        registration'[r].state # "none" /\ chosenNode'[r] = chosenNode[r]
    /\ applied \subseteq applied'

\* A call that another step leaves alone, or only shows the new binding.
LEMMA CallStays ==
    ASSUME EgressInvariant, RecordsGrow, NEW c \in EgCalls,
           \/ egCall'[c] = egCall[c] /\ (egBinding' = egBinding \/ egCall[c].stage \in {"idle", "done"})
           \/ /\ egCall[c].stage \notin {"idle", "done"}
              /\ egCall'[c] = [egCall[c] EXCEPT !.seen = @ \union {egBinding'}]
    PROVE  CallFacts(c)'
<1>0. CallFacts(c)
  BY DEF EgressInvariant
<1>1. CASE egCall'[c] = egCall[c] /\ (egBinding' = egBinding \/ egCall[c].stage \in {"idle", "done"})
  <2>1. AnswerFollows(c) /\ egCall[c].stage = "done" => AnswerFollows(c)'
    BY <1>0, <1>1 DEF AnswerFollows, CallFacts, RecordsGrow
  <2> QED BY <1>0, <1>1, <2>1 DEF CallFacts, RecordsGrow
<1>2. CASE /\ egCall[c].stage \notin {"idle", "done"}
           /\ egCall'[c] = [egCall[c] EXCEPT !.seen = @ \union {egBinding'}]
  <2>1. /\ DOMAIN egCall'[c] = RequestFields /\ egCall'[c].seen = egCall[c].seen \union {egBinding'}
        /\ egCall'[c].stage = egCall[c].stage /\ egCall'[c].kind = egCall[c].kind
        /\ egCall'[c].intent = egCall[c].intent /\ egCall'[c].want = egCall[c].want /\ egCall'[c].snap = egCall[c].snap
    BY <1>0, <1>2 DEF CallFacts, RequestFields
  <2> QED BY <1>0, <1>2, <2>1 DEF CallFacts, RecordsGrow
<1> QED BY <1>1, <1>2

\* Steps that only read the database change one call.
LEMMA OneCallChanges ==
    ASSUME EgressInvariant, NEW c \in EgCalls, NEW q, egCall' = [egCall EXCEPT ![c] = q],
           UNCHANGED databaseVars, RoutesRecorded', applied \subseteq applied',
           CallFacts(c)'
    PROVE  EgressInvariant'
<1>1. egCall'[c] = q /\ DOMAIN egCall' = EgCalls /\ \A o \in EgCalls : o # c => egCall'[o] = egCall[o]
  BY DEF EgressInvariant
<1>2. IntentsKept' /\ RecordsGrow
  BY DEF EgressInvariant, IntentsKept, RecordsGrow, databaseVars
<1>3. ASSUME NEW o \in EgCalls, o # c PROVE CallFacts(o)'
  BY Zenon, <1>1, <1>2, <1>3, CallStays DEF databaseVars
<1> QED BY <1>1, <1>2, <1>3 DEF EgressInvariant

\* Steps of administrators and of time.
LEMMA AdministerStep ==
    ASSUME EgressInvariant, Administer
    PROVE  EgressInvariant'
<1>0. IntentsKept /\ RoutesRecorded /\ DOMAIN egCall = EgCalls
  BY Zenon DEF EgressInvariant
\* the calls stay
<1>1. ASSUME UNCHANGED <<egBinding, egCall, runtime, applied>>, RecordsGrow, IntentsKept'
      PROVE  EgressInvariant'
  <2>1. ASSUME NEW c \in EgCalls PROVE CallFacts(c)'
    BY <1>1, CallStays
  <2> QED BY <1>0, <1>1, <2>1 DEF EgressInvariant, RoutesRecorded
<1>2. ASSUME NEW n \in EgNodes, SaveEgressServer(n) PROVE EgressInvariant'
  BY <1>0, <1>1, <1>2 DEF SaveEgressServer, RecordsGrow, IntentsKept
<1>3. ASSUME NEW n \in EgNodes, DeleteEgressServer(n) PROVE EgressInvariant'
  <2>1. ASSUME NEW r \in Registrations
        PROVE  /\ DOMAIN registration'[r] = IntentFields /\ registration'[r].state = registration[r].state
               /\ registration[r].state # "committed" => registration'[r] = registration[r]
    <3>1. registration'[r] \in {registration[r], [registration[r] EXCEPT !.node = Global]}
      BY <1>3 DEF DeleteEgressServer
    <3>2. registration[r].state # "committed" => registration'[r] = registration[r]
      BY <1>3 DEF DeleteEgressServer
    <3>3. DOMAIN registration[r] = IntentFields
      BY <1>0 DEF IntentsKept
    <3> QED BY <3>1, <3>2, <3>3 DEF IntentFields
  <2>2. DOMAIN registration' = Registrations /\ UNCHANGED <<egBinding, egCall, runtime, applied, chosenNode>>
    BY <1>3 DEF DeleteEgressServer
  <2> QED BY <1>0, <1>1, <2>1, <2>2 DEF IntentsKept, RecordsGrow
<1>4. ASSUME NEW node \in EgNodes \union {Global}, SetEgressBinding(node) PROVE EgressInvariant'
  <2>1. UNCHANGED <<registration, chosenNode, runtime, applied>> /\ Observed
    BY <1>4 DEF SetEgressBinding
  <2>2. RecordsGrow /\ IntentsKept' /\ RoutesRecorded'
    BY <1>0, <2>1 DEF RecordsGrow, IntentsKept, RoutesRecorded
  <2>3. ASSUME NEW c \in EgCalls PROVE CallFacts(c)'
    <3>1. egCall'[c] = IF egCall[c].stage \in {"idle", "done"} THEN egCall[c]
                       ELSE [egCall[c] EXCEPT !.seen = @ \union {egBinding'}]
      BY <2>1 DEF Observed
    <3> QED BY <2>2, <3>1, CallStays
  <2>4. DOMAIN egCall' = EgCalls
    BY <2>1 DEF Observed
  <2> QED BY <2>2, <2>3, <2>4 DEF EgressInvariant
<1>5. ASSUME NEW r \in Registrations, NEW node \in EgNodes \union {Global}, NEW preserve \in BOOLEAN,
             CreateEgressRegistration(r, node, preserve)
      PROVE  EgressInvariant'
  <2> DEFINE new == [state |-> "pending", node |-> node, preserve |-> preserve,
                     revision |-> egVersion', baseline |-> 0, stale |-> FALSE]
  <2>1. /\ registration[r].state = "none" /\ registration' = [registration EXCEPT ![r] = new]
        /\ chosenNode' = [chosenNode EXCEPT ![r] = node]
        /\ UNCHANGED <<egBinding, egCall, runtime, applied>>
    BY <1>5 DEF CreateEgressRegistration
  <2>2. DOMAIN new = IntentFields /\ new.node = node /\ new.state = "pending"
    BY DEF IntentFields
  <2> HIDE DEF new
  <2>3. RecordsGrow /\ IntentsKept'
    BY <1>0, <2>1, <2>2 DEF RecordsGrow, IntentsKept
  <2> QED BY <1>1, <2>1, <2>3
<1>6. ASSUME NEW r \in Registrations, RegistrationAges(r) PROVE EgressInvariant'
  <2> DEFINE new == [registration[r] EXCEPT !.stale = TRUE]
  <2>1. /\ registration' = [registration EXCEPT ![r] = new]
        /\ UNCHANGED <<egBinding, egCall, runtime, applied, chosenNode>>
    BY <1>0, <1>6 DEF RegistrationAges, IntentsKept
  <2>2. DOMAIN new = IntentFields /\ new.node = registration[r].node /\ new.state = registration[r].state
    BY <1>0 DEF IntentFields, IntentsKept
  <2> HIDE DEF new
  <2>3. RecordsGrow /\ IntentsKept'
    BY ZenonT(30), <1>0, <2>1, <2>2 DEF RecordsGrow, IntentsKept
  <2> QED BY <1>1, <2>1, <2>3
<1> QED BY <1>2, <1>3, <1>4, <1>5, <1>6 DEF Administer

-----------------------------------------------------------------------------
\* What a resolution may be.
LEMMA Resolutions ==
    ASSUME NEW kind, NEW id, NEW x, NEW snap, NEW status
    PROVE  LET answer == appliedRouteResolution(kind, id, x, snap, status)
           IN  \/ answer = Unavailable
               \/ answer = Direct(x.revision) /\ x.node = Global
               \/ /\ x.node # Global /\ answer.mode = "account" /\ answer.revision = x.revision
                  /\ answer.route.node = x.node /\ status.ready /\ answer.route \in status.routes
<1> DEFINE resolution == routeResolution(kind, id, x, snap)
<1>1. CASE x.node = Global
  BY Zenon, <1>1 DEF appliedRouteResolution, routeResolution
<1>2. CASE x.node # Global
  <2>1. \/ resolution = Unavailable
        \/ resolution = [mode |-> "account", revision |-> x.revision,
                         route |-> Route(kind, id, x.revision, x.node, snap.node[x.node])]
    BY Zenon, <1>2 DEF routeResolution
  <2>2. \/ resolution = Unavailable
        \/ resolution.mode = "account" /\ resolution.revision = x.revision /\ resolution.route.node = x.node
    BY <2>1 DEF Route
  <2>3. \/ appliedRouteResolution(kind, id, x, snap, status) = Unavailable
        \/ /\ appliedRouteResolution(kind, id, x, snap, status) = resolution
           /\ status.ready /\ resolution.route \in status.routes
    BY <1>2 DEF appliedRouteResolution
  <2> HIDE DEF resolution
  <2> QED BY ZenonT(30), <1>2, <2>2, <2>3
<1> QED BY Zenon, <1>1, <1>2

\* The modes of the fixed answers.
LEMMA FixedAnswers ==
    ASSUME NEW n
    PROVE  /\ Unavailable.mode = "unavailable"
           /\ Direct(n).mode = Global /\ Direct(n).revision = n
           /\ Direct(n).route.node = Global /\ Direct(n) # Unavailable
BY DEF Unavailable, Direct, NoRoute, Global

\* A call that reads the account's route.
LEMMA ResolveNowStep ==
    ASSUME EgressInvariant, NEW c \in EgCalls, NEW request, ResolveNow(c, request), UNCHANGED <<databaseVars, runtime, applied>>,
           DOMAIN request = RequestFields,
           request.intent # "none" => request.intent \in Registrations /\ registration[request.intent].state # "none"
    PROVE  EgressInvariant'
<1> DEFINE answer == IF egBinding.node = Global THEN routeResolution("account", "account", egBinding, EgressSnapshot)
                     ELSE Unavailable
<1> DEFINE stage == IF egBinding.node = Global THEN "done" ELSE "sync"
<1> DEFINE q == [request EXCEPT !.stage = stage, !.kind = "account", !.seen = {egBinding}, !.answer = answer]
<1>1. egCall' = [egCall EXCEPT ![c] = q]
  BY DEF ResolveNow
<1>2. /\ DOMAIN q = RequestFields /\ q.stage = stage /\ q.kind = "account" /\ q.seen = {egBinding}
      /\ q.answer = answer /\ q.intent = request.intent
  BY Zenon DEF RequestFields
<1>3. egBinding.node = Global => answer = Direct(egBinding.revision)
  BY DEF routeResolution
<1>4. egBinding.node # Global => stage = "sync"
  OBVIOUS
<1>5. stage \in {"done", "sync"} /\ (stage = "done" => egBinding.node = Global)
  BY Zenon
<1> HIDE DEF q, answer, stage
<1>6. egCall'[c] = q
  BY ZenonT(30), <1>1 DEF EgressInvariant
<1>7. stage = "done" => AnswerFollows(c)'
  <2> SUFFICES ASSUME stage = "done" PROVE AnswerFollows(c)'
    OBVIOUS
  <2>1. egBinding.node = Global /\ q.answer = Direct(egBinding.revision) /\ egBinding \in q.seen
    BY Zenon, <1>2, <1>3, <1>5
  <2>2. /\ q.answer.mode = Global /\ q.answer.revision = egBinding.revision
        /\ q.answer.route.node = Global
    BY Zenon, <2>1, FixedAnswers
  <2>3. Global # "account"
    BY DEF Global
  <2> QED BY Zenon, <1>6, <2>1, <2>2, <2>3 DEF AnswerFollows
<1>8. CallFacts(c)'
  BY ZenonT(30), <1>2, <1>5, <1>6, <1>7 DEF CallFacts, databaseVars
<1>9. RoutesRecorded' /\ applied \subseteq applied'
  BY ZenonT(30) DEF EgressInvariant, RoutesRecorded, databaseVars
<1> QED BY ZenonT(30), <1>1, <1>8, <1>9, OneCallChanges

\* A call that starts, goes on or ends without an answer.
LEMMA PlainCallStep ==
    ASSUME EgressInvariant, NEW c \in EgCalls, NEW q, egCall' = [egCall EXCEPT ![c] = q],
           UNCHANGED databaseVars, RoutesRecorded', applied \subseteq applied',
           DOMAIN q = RequestFields,
           q.intent # "none" => q.intent \in Registrations /\ registration[q.intent].state # "none",
           q.stage \notin {"exchange"}, q.stage = "sync" => q.kind # "account",
           q.stage = "sync" /\ q.kind = "registration" => q.want.node # Global,
           q.stage = "done" =>
                \/ q.answer = Unavailable
                \/ /\ q.kind # "account" /\ q.answer.mode = Global
                   /\ q.intent # "none" => chosenNode[q.intent] = Global
    PROVE  EgressInvariant'
<1>1. egCall'[c] = q
  BY Zenon DEF EgressInvariant
<1>2. q.stage = "done" => AnswerFollows(c)'
  BY Zenon, <1>1, FixedAnswers DEF AnswerFollows, databaseVars, Global
<1>3. CallFacts(c)'
  BY ZenonT(30), <1>1, <1>2 DEF CallFacts, databaseVars
<1> QED BY Zenon, <1>3, OneCallChanges

\* A call goes on with the status its exchange gave it.
LEMMA GoesOnStep ==
    ASSUME EgressInvariant, NEW c \in EgCalls, egCall[c].stage = "exchange", NEW status, GoesOn(c, status),
           UNCHANGED databaseVars, RoutesRecorded', applied \subseteq applied',
           status.ready => status.routes \subseteq applied'
    PROVE  EgressInvariant'
<1> DEFINE snap == egCall[c].snap
<1> DEFINE want == egCall[c].want
<1>0. CallFacts(c) /\ DOMAIN egCall[c] = RequestFields
  BY Zenon DEF EgressInvariant, CallFacts
<1>1. CASE egCall[c].kind = "worker" /\ egCall' = [egCall EXCEPT ![c] = NoRequest]
  <2>1. DOMAIN NoRequest = RequestFields /\ NoRequest.intent = "none" /\ NoRequest.stage = "idle"
    BY Zenon DEF NoRequest, RequestFields
  <2> QED BY ZenonT(30), <1>1, <2>1, PlainCallStep
\* a finished call
<1>2. ASSUME NEW answer, Done(c, answer)
      PROVE  \E q : /\ egCall' = [egCall EXCEPT ![c] = q] /\ DOMAIN q = RequestFields /\ q.stage = "done"
                    /\ q.kind = egCall[c].kind /\ q.intent = egCall[c].intent /\ q.answer = answer
                    /\ q.seen = egCall[c].seen
  <2> DEFINE q == [NoRequest EXCEPT !.stage = "done", !.kind = egCall[c].kind, !.intent = egCall[c].intent,
                                    !.answer = answer, !.seen = egCall[c].seen]
  <2>1. egCall' = [egCall EXCEPT ![c] = q]
    BY <1>2 DEF Done
  <2>2. /\ DOMAIN q = RequestFields /\ q.stage = "done" /\ q.kind = egCall[c].kind /\ q.intent = egCall[c].intent
        /\ q.answer = answer /\ q.seen = egCall[c].seen
    BY DEF NoRequest, RequestFields
  <2> HIDE DEF q
  <2> QED BY Zenon, <2>1, <2>2
<1>3. ASSUME NEW answer, Done(c, answer),
             answer # Unavailable => answer.mode \in {Global, "account"},
             answer.mode = "account" => answer.route \in applied',
             egCall[c].kind # "account" => answer.mode # Global,
             egCall[c].kind = "account" /\ answer # Unavailable =>
                /\ snap.binding.revision = answer.revision
                /\ (snap.binding.node = Global) = (answer.mode = Global)
                /\ snap.binding.node = answer.route.node
      PROVE  EgressInvariant'
  <2>1. PICK q : /\ egCall' = [egCall EXCEPT ![c] = q] /\ DOMAIN q = RequestFields /\ q.stage = "done"
                 /\ q.kind = egCall[c].kind /\ q.intent = egCall[c].intent /\ q.answer = answer
                 /\ q.seen = egCall[c].seen
    BY <1>2, <1>3
  <2>2. egCall'[c] = q
    BY Zenon, <2>1 DEF EgressInvariant
  <2>3. egCall[c].kind = "account" => snap.binding \in egCall[c].seen
    BY ZenonT(30), <1>0 DEF CallFacts
  <2>4. AnswerFollows(c)'
    <3>1. egCall[c].kind = "account" /\ answer # Unavailable =>
            \E b \in egCall[c].seen :
                /\ b.revision = answer.revision /\ (b.node = Global) = (answer.mode = Global)
                /\ b.node = answer.route.node
      BY Zenon, <1>3, <2>3
    <3>2. answer.mode = Global => \E b \in egCall[c].seen : b.node = Global
      BY Zenon, <1>3, <2>3, FixedAnswers DEF Global
    <3> HIDE DEF snap
    <3>3. egCall'[c].kind = egCall[c].kind /\ egCall'[c].answer = answer /\ egCall'[c].seen = egCall[c].seen
      BY Zenon, <2>1, <2>2
    <3>4. egCall'[c].kind = "account" /\ egCall'[c].answer # Unavailable =>
            \E b \in egCall'[c].seen :
                /\ b.revision = egCall'[c].answer.revision
                /\ (b.node = Global) = (egCall'[c].answer.mode = Global)
                /\ b.node = egCall'[c].answer.route.node
      BY Zenon, <3>1, <3>3
    <3>5. egCall'[c].answer.mode = "account" => egCall'[c].answer.route \in applied'
      BY Zenon, <1>3, <3>3
    <3>6. egCall'[c].answer.mode = Global => \E b \in egCall'[c].seen : b.node = Global
      BY Zenon, <3>2, <3>3
    <3> QED BY Zenon, <3>4, <3>5, <3>6 DEF AnswerFollows
  <2>5. CallFacts(c)'
    BY Zenon, <1>0, <2>1, <2>2, <2>4 DEF CallFacts, databaseVars
  <2> QED BY ZenonT(30), <2>1, <2>5, OneCallChanges
<1>4. CASE egCall[c].kind = "account" /\ Done(c, resolveAccountEgress(snap, status))
  <2> DEFINE answer == resolveAccountEgress(snap, status)
  <2>1. \/ answer = Unavailable
        \/ answer = appliedRouteResolution("account", "account", snap.binding, snap, status)
    BY Zenon DEF resolveAccountEgress
  <2>2. \/ answer = Unavailable
        \/ answer = Direct(snap.binding.revision) /\ snap.binding.node = Global
        \/ /\ snap.binding.node # Global /\ answer.mode = "account" /\ answer.revision = snap.binding.revision
           /\ answer.route.node = snap.binding.node /\ status.ready /\ answer.route \in status.routes
    <3> DEFINE applies == appliedRouteResolution("account", "account", snap.binding, snap, status)
    <3>1. \/ applies = Unavailable
          \/ applies = Direct(snap.binding.revision) /\ snap.binding.node = Global
          \/ /\ snap.binding.node # Global /\ applies.mode = "account" /\ applies.revision = snap.binding.revision
             /\ applies.route.node = snap.binding.node /\ status.ready /\ applies.route \in status.routes
      BY Zenon, Resolutions
    <3> HIDE DEF answer, snap, applies
    <3> QED BY ZenonT(30), <2>1, <3>1 DEF applies
  <2> HIDE DEF answer, snap
  <2>3. /\ answer # Unavailable => answer.mode \in {Global, "account"}
        /\ answer.mode = "account" => answer.route \in applied'
        /\ answer # Unavailable =>
                /\ snap.binding.revision = answer.revision
                /\ (snap.binding.node = Global) = (answer.mode = Global)
                /\ snap.binding.node = answer.route.node
    <3>1. CASE answer = Unavailable
      BY Zenon, <3>1, FixedAnswers DEF Global
    <3>2. CASE answer = Direct(snap.binding.revision) /\ snap.binding.node = Global
      <4>1. /\ answer.mode = Global /\ answer.revision = snap.binding.revision /\ answer.route.node = Global
        BY Zenon, <3>2, FixedAnswers
      <4> QED BY Zenon, <3>2, <4>1 DEF Global
    <3>3. CASE /\ snap.binding.node # Global /\ answer.mode = "account" /\ answer.revision = snap.binding.revision
               /\ answer.route.node = snap.binding.node /\ status.ready /\ answer.route \in status.routes
      BY ZenonT(30), <3>3 DEF Global
    <3> QED BY Zenon, <2>2, <3>1, <3>2, <3>3
  <2> QED BY Zenon, <1>3, <1>4, <2>3 DEF answer
<1>5. CASE egCall[c].kind = "registration" /\ Done(c, appliedRouteResolution("registration", egCall[c].intent, want, snap, status))
  <2> DEFINE answer == appliedRouteResolution("registration", egCall[c].intent, want, snap, status)
  <2>1. want.node # Global
    BY ZenonT(30), <1>0, <1>5 DEF CallFacts
  <2>2. \/ answer = Unavailable
        \/ answer.mode = "account" /\ status.ready /\ answer.route \in status.routes
    <3>1. \/ answer = Unavailable
          \/ answer = Direct(want.revision) /\ want.node = Global
          \/ /\ want.node # Global /\ answer.mode = "account" /\ answer.revision = want.revision
             /\ answer.route.node = want.node /\ status.ready /\ answer.route \in status.routes
      BY Zenon, Resolutions
    <3> HIDE DEF answer, want
    <3> QED BY Zenon, <2>1, <3>1
  <2> HIDE DEF answer
  <2>3. /\ answer # Unavailable => answer.mode \in {Global, "account"}
        /\ answer.mode = "account" => answer.route \in applied'
        /\ answer.mode # Global
    BY <2>2, FixedAnswers DEF Global
  <2> QED BY Zenon, <1>3, <1>5, <2>3 DEF answer
<1>6. CASE egCall[c].kind = "register" /\ registerEgress(c, appliedRouteResolution("account", "account", want, snap, status))
  <2>1. CASE Done(c, Unavailable)
    BY ZenonT(30), <1>3, <1>6, <2>1, FixedAnswers DEF Global
  <2>2. CASE egCall' = [egCall EXCEPT ![c].stage = "commit"]
    <3> DEFINE q == [egCall[c] EXCEPT !.stage = "commit"]
    <3>1. egCall' = [egCall EXCEPT ![c] = q]
      BY <2>2 DEF EgressInvariant
    <3>2. DOMAIN q = RequestFields /\ q.stage = "commit" /\ q.intent = egCall[c].intent
      BY <1>0 DEF RequestFields
    <3> HIDE DEF q
    <3> QED BY Zenon, <1>0, <3>1, <3>2, PlainCallStep DEF CallFacts
  <2> QED BY <1>6, <2>1, <2>2 DEF registerEgress
<1> QED BY Zenon, <1>1, <1>4, <1>5, <1>6 DEF GoesOn

\* A call synchronises the runtime.
LEMMA SynchroniseStep ==
    ASSUME EgressInvariant, NEW c \in EgCalls, Synchronise(c)
    PROVE  EgressInvariant'
<1>0. CallFacts(c) /\ RoutesRecorded /\ DOMAIN egCall = EgCalls
  BY DEF EgressInvariant
<1>1. CASE ReadSnapshot(c)
  <2> DEFINE q == [egCall[c] EXCEPT !.stage = "exchange", !.snap = EgressSnapshot]
  <2>1. egCall' = [egCall EXCEPT ![c] = q] /\ egCall[c].stage = "sync" /\ UNCHANGED <<databaseVars, runtime, applied>>
    BY Zenon, <1>0, <1>1 DEF ReadSnapshot
  <2>2. /\ DOMAIN q = RequestFields /\ q.stage = "exchange" /\ q.snap = EgressSnapshot /\ q.kind = egCall[c].kind
        /\ q.seen = egCall[c].seen /\ q.intent = egCall[c].intent /\ q.want = egCall[c].want
    BY <1>0 DEF CallFacts, RequestFields
  <2>3. EgressSnapshot.binding = egBinding
    BY DEF EgressSnapshot
  <2> HIDE DEF q
  <2>4. egCall'[c] = q
    BY Zenon, <1>0, <2>1
  <2>5. CallFacts(c)'
    BY Zenon, <1>0, <2>1, <2>2, <2>3, <2>4 DEF CallFacts, databaseVars
  <2>6. RoutesRecorded' /\ applied \subseteq applied'
    BY Zenon, <1>0, <2>1 DEF RoutesRecorded
  <2> QED BY Zenon, <2>1, <2>5, <2>6, OneCallChanges
<1>2. CASE syncAccountEgress(c)
  <2>1. /\ egCall[c].stage = "exchange" /\ applied' = applied \union runtime'.routes
        /\ GoesOn(c, runtime') /\ UNCHANGED databaseVars
        /\ runtime' \in {runtime, Installed(egCall[c].snap)}
    BY Zenon, <1>2 DEF syncAccountEgress
  <2>2. DOMAIN runtime' = {"version", "ready", "routes"}
    BY <1>0, <2>1 DEF RoutesRecorded, Installed
  <2>3. RoutesRecorded' /\ applied \subseteq applied' /\ runtime'.routes \subseteq applied'
    BY <2>1, <2>2 DEF RoutesRecorded
  <2> QED BY Zenon, <2>1, <2>3, GoesOnStep
<1>3. ASSUME NEW restored \in BOOLEAN, ApplyFails(c, restored) PROVE EgressInvariant'
  <2>1. /\ egCall[c].stage = "exchange" /\ runtime' = [runtime EXCEPT !.ready = runtime.ready /\ restored]
        /\ GoesOn(c, runtime') /\ UNCHANGED <<databaseVars, applied>>
    BY <1>3 DEF ApplyFails
  <2>2. DOMAIN runtime' = {"version", "ready", "routes"} /\ runtime'.routes = runtime.routes
    BY <1>0, <2>1 DEF RoutesRecorded
  <2>3. RoutesRecorded' /\ applied \subseteq applied' /\ runtime'.routes \subseteq applied'
    BY Zenon, <1>0, <2>1, <2>2 DEF RoutesRecorded
  <2> QED BY Zenon, <2>1, <2>3, GoesOnStep
<1>4. CASE ControlUnavailable(c)
  <2>1. egCall[c].stage = "exchange" /\ GoesOn(c, Down) /\ UNCHANGED <<databaseVars, runtime, applied>>
    BY Zenon, <1>4 DEF ControlUnavailable
  <2>2. RoutesRecorded' /\ applied \subseteq applied' /\ Down.routes = {}
    BY <1>0, <2>1 DEF RoutesRecorded, Down
  <2> QED BY Zenon, <2>1, <2>2, GoesOnStep
<1> QED BY <1>1, <1>2, <1>3, <1>4 DEF Synchronise

-----------------------------------------------------------------------------
\* A call about a registration.
LEMMA RegistrationCallStep ==
    ASSUME EgressInvariant, NEW c \in EgCalls, NEW r \in Registrations, egressRegistrationResolution(c, r)
    PROVE  EgressInvariant'
<1> DEFINE request == [NoRequest EXCEPT !.kind = "registration", !.intent = r, !.want = Wanted(r)]
<1>0. registration[r].state # "none" /\ UNCHANGED <<databaseVars, runtime, applied>>
  BY DEF egressRegistrationResolution
<1>1. /\ DOMAIN request = RequestFields /\ request.kind = "registration" /\ request.intent = r
      /\ request.want.node = registration[r].node
  BY Zenon DEF NoRequest, RequestFields, Wanted
<1>2. RoutesRecorded' /\ applied \subseteq applied'
  BY Zenon, <1>0 DEF EgressInvariant, RoutesRecorded
<1>3. CASE registration[r].state = "committed"
  <2>1. ResolveNow(c, request)
    BY <1>3 DEF egressRegistrationResolution
  <2> HIDE DEF request
  <2> QED BY <1>0, <1>1, <2>1, ResolveNowStep
<1>4. CASE registration[r].state # "committed"
  <2>1. egCall' = [egCall EXCEPT ![c] =
            IF registration[r].node = Global
            THEN [request EXCEPT !.stage = "done", !.answer = Direct(registration[r].revision)]
            ELSE [request EXCEPT !.stage = "sync"]]
    BY <1>4 DEF egressRegistrationResolution
  <2> HIDE DEF request
  <2>2. CASE registration[r].node = Global
    <3> DEFINE q == [request EXCEPT !.stage = "done", !.answer = Direct(registration[r].revision)]
    <3>1. egCall' = [egCall EXCEPT ![c] = q]
      BY <2>1, <2>2
    <3>2. /\ DOMAIN q = RequestFields /\ q.stage = "done" /\ q.kind = "registration" /\ q.intent = r
          /\ q.answer = Direct(registration[r].revision)
      BY <1>1 DEF RequestFields
    <3>3. chosenNode[r] = Global
      BY <1>0, <1>4, <2>2 DEF EgressInvariant, IntentsKept
    <3> HIDE DEF q
    <3> QED BY ZenonT(30), <1>0, <1>2, <3>1, <3>2, <3>3, PlainCallStep, FixedAnswers
  <2>3. CASE registration[r].node # Global
    <3> DEFINE q == [request EXCEPT !.stage = "sync"]
    <3>1. egCall' = [egCall EXCEPT ![c] = q]
      BY <2>1, <2>3
    <3>2. /\ DOMAIN q = RequestFields /\ q.stage = "sync" /\ q.kind = "registration" /\ q.intent = r
          /\ q.want.node = registration[r].node
      BY Zenon, <1>1 DEF RequestFields
    <3> HIDE DEF q
    <3> QED BY Zenon, <1>0, <1>2, <2>3, <3>1, <3>2, PlainCallStep
  <2> QED BY <2>2, <2>3
<1> QED BY <1>3, <1>4

\* The sidecar prepares a registration.
LEMMA PrepareStep ==
    ASSUME EgressInvariant, NEW c \in EgCalls, NEW r \in Registrations, PrepareEgressRegistration(c, r)
    PROVE  EgressInvariant'
<1> DEFINE stage == IF registration[r].state = "committed" THEN "committed"
                    ELSE IF registration[r].preserve \/ registration[r].node = Global THEN "commit" ELSE "sync"
<1> DEFINE request == [NoRequest EXCEPT !.kind = "register", !.intent = r, !.want = Wanted(r)]
<1> DEFINE q == [request EXCEPT !.stage = stage]
<1>0. /\ registration[r].state # "none" /\ UNCHANGED <<egBinding, runtime, applied, chosenNode>>
      /\ egCall' = [egCall EXCEPT ![c] = q]
  BY DEF PrepareEgressRegistration
<1>1. DOMAIN q = RequestFields /\ q.stage = stage /\ q.kind = "register" /\ q.intent = r
  BY DEF NoRequest, RequestFields
<1>2. stage \in {"committed", "commit", "sync"}
  OBVIOUS
<1> HIDE DEF q, request, stage
<1>3. IntentsKept /\ IntentsKept' /\ RecordsGrow
  <2>0. IntentsKept
    BY ZenonT(30) DEF EgressInvariant
  <2>1. CASE UNCHANGED registration
    BY <1>0, <2>0, <2>1 DEF IntentsKept, RecordsGrow
  <2>2. CASE ~UNCHANGED registration
    <3>1. registration[r].state = "pending"
          /\ registration' = [registration EXCEPT ![r].state = "prepared", ![r].baseline = egBinding.revision]
      BY <2>2 DEF PrepareEgressRegistration
    <3> DEFINE new == [registration[r] EXCEPT !.state = "prepared", !.baseline = egBinding.revision]
    <3>2. registration' = [registration EXCEPT ![r] = new]
      BY Zenon, <2>0, <3>1 DEF IntentsKept
    <3>3. DOMAIN new = IntentFields /\ new.state = "prepared" /\ new.node = registration[r].node
      BY <2>0 DEF IntentsKept, IntentFields
    <3> HIDE DEF new
    <3> QED BY <1>0, <2>0, <3>1, <3>2, <3>3 DEF IntentsKept, RecordsGrow
  <2> QED BY <2>1, <2>2
<1>4. egCall'[c] = q /\ DOMAIN egCall' = EgCalls /\ \A o \in EgCalls : o # c => egCall'[o] = egCall[o]
  BY ZenonT(30), <1>0 DEF EgressInvariant
<1>5. CallFacts(c)'
  BY <1>0, <1>1, <1>2, <1>3, <1>4 DEF CallFacts, RecordsGrow
<1>6. ASSUME NEW o \in EgCalls, o # c PROVE CallFacts(o)'
  BY Zenon, <1>0, <1>3, <1>4, <1>6, CallStays
<1>7. RoutesRecorded'
  BY Zenon, <1>0 DEF EgressInvariant, RoutesRecorded
<1> QED BY <1>3, <1>4, <1>5, <1>6, <1>7 DEF EgressInvariant

\* The sidecar commits a registration.
LEMMA CommitStep ==
    ASSUME EgressInvariant, NEW c \in EgCalls, NEW r \in Registrations, CommitEgressRegistration(c, r)
    PROVE  EgressInvariant'
<1> DEFINE q == [NoRequest EXCEPT !.stage = "committed", !.kind = "register", !.intent = r]
<1> DEFINE new == [registration[r] EXCEPT !.state = "committed"]
<1>0. IntentsKept /\ UNCHANGED <<runtime, applied, chosenNode>>
  BY DEF EgressInvariant, CommitEgressRegistration
<1>1. registration' = [registration EXCEPT ![r] = new]
  BY <1>0 DEF CommitEgressRegistration, IntentsKept
<1>2. DOMAIN new = IntentFields /\ new.state = "committed"
  BY <1>0 DEF IntentsKept, IntentFields
<1>3. DOMAIN q = RequestFields /\ q.stage = "committed" /\ q.intent = r
  BY DEF NoRequest, RequestFields
<1>4. egCall'[c] = q /\ DOMAIN egCall' = EgCalls
  BY DEF CommitEgressRegistration
<1>5. ASSUME NEW o \in EgCalls, o # c
      PROVE  egCall'[o] = IF egCall[o].stage \in {"idle", "done"} THEN egCall[o]
                          ELSE [egCall[o] EXCEPT !.seen = @ \union {egBinding'}]
  BY Zenon, <1>5 DEF CommitEgressRegistration
<1> HIDE DEF q, new
<1>6. IntentsKept' /\ RecordsGrow
  BY Zenon, <1>0, <1>1, <1>2 DEF IntentsKept, RecordsGrow
<1>7. CallFacts(c)'
  <2>1. registration'[r].state = "committed"
    BY <1>0, <1>1, <1>2 DEF IntentsKept
  <2> QED BY Zenon, <1>3, <1>4, <2>1 DEF CallFacts
<1>8. ASSUME NEW o \in EgCalls, o # c PROVE CallFacts(o)'
  BY Zenon, <1>5, <1>6, <1>8, CallStays
<1>9. RoutesRecorded'
  BY <1>0 DEF EgressInvariant, RoutesRecorded
<1> QED BY <1>4, <1>6, <1>7, <1>8, <1>9 DEF EgressInvariant

\* Calls begin and go on.
LEMMA ServeStep ==
    ASSUME EgressInvariant, NEW c \in EgCalls, Serve(c)
    PROVE  EgressInvariant'
<1>0. CallFacts(c)
  BY Zenon DEF EgressInvariant
<1>1. DOMAIN NoRequest = RequestFields /\ NoRequest.intent = "none" /\ NoRequest.stage = "idle"
  BY DEF NoRequest, RequestFields
<1>2. ASSUME UNCHANGED <<databaseVars, runtime, applied>>
      PROVE  RoutesRecorded' /\ applied \subseteq applied' /\ UNCHANGED databaseVars
  BY Zenon, <1>2 DEF EgressInvariant, RoutesRecorded
<1>3. CASE resolveEgress(c)
  BY <1>1, <1>3, ResolveNowStep DEF resolveEgress
<1>4. CASE RunEgressSync(c)
  <2> DEFINE q == [NoRequest EXCEPT !.stage = "sync", !.kind = "worker"]
  <2>1. egCall' = [egCall EXCEPT ![c] = q] /\ UNCHANGED <<databaseVars, runtime, applied>>
    BY <1>4 DEF RunEgressSync
  <2>2. DOMAIN q = RequestFields /\ q.stage = "sync" /\ q.kind = "worker" /\ q.intent = "none"
    BY ZenonT(30) DEF NoRequest, RequestFields
  <2> HIDE DEF q
  <2> QED BY Zenon, <1>2, <2>1, <2>2, PlainCallStep
<1>5. CASE ResolveCommitted(c)
  <2> DEFINE q == [NoRequest EXCEPT !.intent = egCall[c].intent]
  <2>1. ResolveNow(c, q) /\ UNCHANGED <<databaseVars, runtime, applied>>
    BY <1>5 DEF ResolveCommitted
  <2>2. DOMAIN q = RequestFields /\ q.intent = egCall[c].intent
    BY DEF NoRequest, RequestFields
  <2> HIDE DEF q
  <2> QED BY <1>0, <2>1, <2>2, ResolveNowStep DEF CallFacts
<1>6. ASSUME NEW r \in Registrations, CommitReplayed(c, r) PROVE EgressInvariant'
  <2> DEFINE q == [NoRequest EXCEPT !.stage = "committed", !.kind = "register", !.intent = r]
  <2>1. /\ egCall' = [egCall EXCEPT ![c] = q] /\ UNCHANGED <<databaseVars, runtime, applied>>
        /\ registration[r].state = "committed"
    BY <1>6 DEF CommitReplayed
  <2>2. DOMAIN q = RequestFields /\ q.stage = "committed" /\ q.intent = r
    BY DEF NoRequest, RequestFields
  <2> HIDE DEF q
  <2> QED BY Zenon, <1>2, <2>1, <2>2, PlainCallStep
<1>7. ASSUME NEW r \in Registrations, CommitRefused(c, r) PROVE EgressInvariant'
  <2> DEFINE q == [NoRequest EXCEPT !.stage = "done", !.kind = egCall[c].kind, !.intent = egCall[c].intent,
                                    !.answer = Unavailable, !.seen = egCall[c].seen]
  <2>1. egCall' = [egCall EXCEPT ![c] = q] /\ UNCHANGED <<databaseVars, runtime, applied>>
    BY <1>7 DEF CommitRefused, Done
  <2>2. DOMAIN q = RequestFields /\ q.stage = "done" /\ q.intent = egCall[c].intent /\ q.answer = Unavailable
    BY DEF NoRequest, RequestFields
  <2> HIDE DEF q
  <2> QED BY Zenon, <1>0, <1>2, <2>1, <2>2, PlainCallStep DEF CallFacts
<1> QED BY <1>3, <1>4, <1>5, <1>6, <1>7, RegistrationCallStep, PrepareStep, CommitStep DEF Serve

\* Every step keeps the invariant.
LEMMA EgressStep ==
    ASSUME EgressInvariant, [EgressNext]_egressVars
    PROVE  EgressInvariant'
<1>1. CASE RuntimeRestarts
  <2>1. UNCHANGED <<databaseVars, egCall, applied>> /\ runtime' = Down
    BY Zenon, <1>1 DEF RuntimeRestarts
  <2>2. IntentsKept' /\ RecordsGrow
    BY <2>1 DEF EgressInvariant, IntentsKept, RecordsGrow, databaseVars
  <2>3. RoutesRecorded'
    BY <2>1 DEF RoutesRecorded, Down
  <2>4. ASSUME NEW c \in EgCalls PROVE CallFacts(c)'
    BY ZenonT(30), <2>1, <2>2, CallStays DEF databaseVars
  <2> QED BY <2>1, <2>2, <2>3, <2>4 DEF EgressInvariant
<1>2. CASE UNCHANGED egressVars
  BY ZenonT(30), <1>2 DEF egressVars, EgressInvariant, IntentsKept, RoutesRecorded, CallFacts, AnswerFollows
<1> QED BY <1>1, <1>2, AdministerStep, SynchroniseStep, ServeStep DEF EgressNext

\* Every answer about an account's route follows what was decided, however
\* administration, registrations, restarts and other calls fall into the call.
THEOREM AnswersFollowDecisionsHolds == EgressSpec => []AnswersFollowDecisions
<1>1. EgressInit => EgressInvariant
  <2> SUFFICES ASSUME EgressInit PROVE EgressInvariant
    OBVIOUS
  <2>1. IntentsKept
    BY Zenon DEF EgressInit, IntentsKept, NoIntent, IntentFields
  <2>2. RoutesRecorded
    BY Zenon DEF EgressInit, RoutesRecorded, Down
  <2>3. ASSUME NEW c \in EgCalls PROVE CallFacts(c)
    BY Zenon DEF EgressInit, CallFacts, NoRequest, RequestFields
  <2> QED BY Zenon, <2>1, <2>2, <2>3 DEF EgressInit, EgressInvariant
<1>2. EgressInvariant => AnswersFollowDecisions
  BY DEF EgressInvariant, CallFacts, AnswerFollows, AnswersFollowDecisions, ResolvedAsBound, AnsweredRoutesApplied,
         DelayedRegistrationNotGlobal
<1> QED BY <1>1, <1>2, EgressStep, PTL DEF EgressSpec

=============================================================================
