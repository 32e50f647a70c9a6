------------------------------ MODULE GrokArena ------------------------------
(***************************************************************************)
(* The conversation with the agent behind the OpenClaw gateway             *)
(* (grok/arena.ts, grok/openclaw-client.ts and the /grok routes of         *)
(* agent-api/server.ts). A prompt opens a run; events of the gateway,      *)
(* which name the run or only the session, are pushed to the streams       *)
(* attached to it, until a final or an error, a timer, or a failure to     *)
(* send the prompt closes the run.                                         *)
(*                                                                         *)
(* A run is named by its prompt. A text is the sequence of the chunks that *)
(* the gateway made, each named by the prompt it answers and its number.   *)
(* Rate limits and the stored history are left out.                        *)
(***************************************************************************)
EXTENDS Naturals, Sequences, FiniteSets, SequencesExt

CONSTANTS
  Prompts, NoRun,   \* prompts are numbered as they are submitted
  Sessions,         \* and sessions as they are first used
  Streams,      \* requests for GET /grok/stream
  Hashes,       \* transactions that the agent reports
  MaxEvents,    \* 200, events that a run remembers
  MaxChunks,    \* bound: chunks of an answer
  MaxDrops      \* bound: times the connection is lost

ASSUME GrokAssumption ==
  /\ Prompts \cup Sessions \subseteq Nat /\ Sessions # {} /\ NoRun \notin Prompts /\ IsFiniteSet(Hashes)
  /\ {MaxEvents, MaxChunks, MaxDrops} \subseteq Nat /\ MaxEvents > 0

VARIABLES
  prompt,   \* the handler of each prompt
  run,      \* runs
  active,   \* activeBySession
  link,     \* the connection to the gateway
  job,      \* the gateway's own state of each prompt
  stream,   \* the streams
  pushed,   \* all events of each run, until it is forgotten
  drops,
  apart     \* sessions whose runs have never overlapped, nor been closed before the gateway was done

grokVars == << prompt, run, active, link, job, stream, pushed, drops, apart >>

NoStream == [pc |-> "idle", run |-> NoRun, got |-> << >>]
NoState == [state |-> "none", text |-> << >>, events |-> << >>, seen |-> {}]

GrokInit ==
  /\ prompt = [p \in Prompts |-> [pc |-> "idle", session |-> CHOOSE s \in Sessions : TRUE]]
  /\ run = [p \in Prompts |-> NoState] /\ pushed = [p \in Prompts |-> << >>]
  /\ active = [s \in Sessions |-> NoRun]
  /\ link = "down" /\ drops = 0
  /\ job = [p \in Prompts |-> [state |-> "none", made |-> 0]]
  /\ stream = [st \in Streams |-> NoStream]
  /\ apart = Sessions

SessionOf(p) == prompt[p].session
Open(p)      == run[p].state = "open"
Ends(e)      == e.type \in {"final", "error"}
Ending(es)   == \E i \in DOMAIN es : Ends(es[i])
Token(chunks) == [type |-> "token", of |-> chunks]
Final(text)  == [type |-> "final", of |-> text]
Error        == [type |-> "error", of |-> << >>]
Action(h)    == [type |-> "action", of |-> << h >>]

-----------------------------------------------------------------------------
(* pushEvent and closeRun, for the events es that a handler pushes in turn *)

Remembered(es) == IF Len(es) > MaxEvents THEN SubSeq(es, Len(es) - MaxEvents + 1, Len(es)) ELSE es

Hears(st, p) == stream[st].pc = "open" /\ stream[st].run = p

Push(p, es, text, seen) ==
  /\ pushed' = [pushed EXCEPT ![p] = @ \o es]
  /\ run' = [run EXCEPT ![p] = [state  |-> IF Ending(es) THEN "closed" ELSE @.state,
                                text   |-> text, seen |-> seen,
                                events |-> Remembered(@.events \o es)]]
  /\ stream' = [st \in Streams |->
                  IF Hears(st, p)
                  THEN [stream[st] EXCEPT !.got = @ \o es, !.pc = IF Ending(es) THEN "ended" ELSE @]
                  ELSE stream[st]]
  /\ active' = IF Ending(es) THEN [active EXCEPT ![SessionOf(p)] = NoRun] ELSE active

\* The events are dropped, whoever they were for.
Nothing == UNCHANGED << pushed, run, stream, active >>

Closed(ps) ==
  /\ run' = [p \in Prompts |-> IF p \in ps THEN [run[p] EXCEPT !.state = "closed"] ELSE run[p]]
  /\ active' = [s \in Sessions |-> IF \E p \in ps : SessionOf(p) = s THEN NoRun ELSE active[s]]

\* Sessions where the gateway has still to answer one of the prompts ps, whose runs are closed.
Unfinished(ps) == {SessionOf(p) : p \in {q \in ps : job[q].state = "live" \/ prompt'[q].pc = "waiting"}}

-----------------------------------------------------------------------------
(* submitPrompt: the check, two queries, and then the run                  *)

Submit(p, s) ==
  /\ prompt[p].pc = "idle" /\ \A q \in Prompts : q < p => prompt[q].pc # "idle"
  /\ s <= p
  /\ prompt' = [prompt EXCEPT ![p] = [pc |-> IF active[s] = NoRun THEN "checked" ELSE "refused", session |-> s]]
  /\ UNCHANGED << run, active, link, job, stream, pushed, drops, apart >>

QueryFails(p) ==
  /\ prompt[p].pc = "checked"
  /\ prompt' = [prompt EXCEPT ![p].pc = "failed"]
  /\ UNCHANGED << run, active, link, job, stream, pushed, drops, apart >>

OpenRun(p) ==
  /\ prompt[p].pc = "checked"
  /\ prompt' = [prompt EXCEPT ![p].pc = "waiting"]
  /\ run' = [run EXCEPT ![p].state = "open"]
  /\ active' = [active EXCEPT ![SessionOf(p)] = p]
  /\ apart' = apart \ {SessionOf(q) : q \in {q \in Prompts \ {p} : SessionOf(q) = SessionOf(p) /\ Open(q)}}
  /\ UNCHANGED << link, job, stream, pushed, drops >>

\* chat.send, once the connection is ready; it may be lost on the way.
Send(p) ==
  /\ prompt[p].pc = "waiting" /\ link = "up"
  /\ prompt' = [prompt EXCEPT ![p].pc = "sending"]
  /\ job' = [job EXCEPT ![p].state = "live"]
  /\ UNCHANGED << run, active, link, stream, pushed, drops, apart >>

GatewayAnswers(p) ==
  /\ prompt[p].pc = "sending" /\ link = "up" /\ job[p].state # "none"
  /\ prompt' = [prompt EXCEPT ![p].pc = "answered"]
  /\ UNCHANGED << run, active, link, job, stream, pushed, drops, apart >>

\* Too late, or refused by the gateway.
SendFails(p) ==
  /\ prompt[p].pc \in {"waiting", "sending"}
  /\ prompt' = [prompt EXCEPT ![p].pc = "failed"]
  /\ Closed({p})
  /\ apart' = apart \ Unfinished({p})
  /\ UNCHANGED << link, job, stream, pushed, drops >>

RunTimeout(p) ==
  /\ Open(p) /\ UNCHANGED << prompt, link, job, drops >>
  /\ Push(p, << Final(run[p].text) >>, run[p].text, run[p].seen)
  /\ apart' = apart \ Unfinished({p})

\* Seeded fault: a run that has said something is not timed out any more.
RunTimeoutIfSilent(p) == pushed[p] = << >> /\ RunTimeout(p)
OnTimer(p) == RunTimeout(p)

Cleanup(p) ==
  /\ run[p].state = "closed" /\ run' = [run EXCEPT ![p] = [NoState EXCEPT !.state = "gone"]]
  /\ pushed' = [pushed EXCEPT ![p] = << >>]
  /\ UNCHANGED << prompt, active, link, job, stream, drops, apart >>

-----------------------------------------------------------------------------
(* The connection: opened, "connect" sent on the challenge or after half a *)
(* second, accepted. Losing it rejects whoever waits.                      *)

Connection ==
  /\ link # "up" /\ link' = IF link = "down" THEN "asked" ELSE "up"
  /\ UNCHANGED << prompt, run, active, job, stream, pushed, drops, apart >>

Disconnected ==
  LET waiting == {p \in Prompts : prompt[p].pc \in {"waiting", "sending"}} IN
  /\ link # "down" /\ drops < MaxDrops
  /\ link' = "down" /\ drops' = drops + 1
  /\ prompt' = [p \in Prompts |-> IF p \in waiting THEN [prompt[p] EXCEPT !.pc = "failed"] ELSE prompt[p]]
  /\ Closed(waiting)
  /\ apart' = apart \ Unfinished(waiting)
  /\ UNCHANGED << job, stream, pushed >>

-----------------------------------------------------------------------------
(* Events of the gateway about the prompt j. The run they go to is the one *)
(* they name, if it is open, or else the one active in the session.        *)

\* Seeded fault: an event goes to whatever run is open, if not to the one it names.
ResolveAnyOpen(j, named) ==
  IF named /\ Open(j) THEN j
  ELSE IF \E r \in Prompts : Open(r) THEN CHOOSE r \in Prompts : Open(r) ELSE NoRun
ResolveRunForEvent(j, named) ==
  IF named /\ Open(j) THEN j
  ELSE IF active[SessionOf(j)] # NoRun /\ Open(active[SessionOf(j)]) THEN active[SessionOf(j)] ELSE NoRun

Chunks(j, n) == [i \in 1..n |-> << j, i >>]

Arrives(j, Handle(_)) ==
  \E r \in {ResolveRunForEvent(j, named) : named \in BOOLEAN} :
    IF link = "up" /\ r # NoRun THEN Handle(r) ELSE Nothing

\* What the text brings that the run does not have, which may be nothing.
ChatDelta(j, r) ==
  LET text == Chunks(j, job'[j].made)
      more == IF IsPrefix(run[r].text, text) THEN SubSeq(text, Len(run[r].text) + 1, Len(text)) ELSE text
  IN  IF Len(text) > Len(run[r].text)
      THEN Push(r, << Token(more) >>, IF IsPrefix(run[r].text, text) THEN text ELSE run[r].text \o text, run[r].seen)
      ELSE Nothing

\* The event may bring all of the text beside the delta.
AssistantDelta(j, r) ==
  LET chunk == << << j, job'[j].made >> >>
  IN  \E all \in {run[r].text \o chunk, Chunks(j, job'[j].made)} : Push(r, << Token(chunk) >>, all, run[r].seen)

\* The transactions hs that a text reports, one after the other.
Reported(hs) == LET each == SetToSeq(hs) IN [i \in DOMAIN each |-> Action(each[i])]

\* Seeded fault: what was reported is forgotten.
DetectedAgain(r, hs) == Reported(hs)
Detected(r, hs) == Reported(hs \ run[r].seen)

ToolResult(r, h) == Push(r, Detected(r, {h}), run[r].text, run[r].seen \cup {h})

\* The text of a final may repeat a hash.
ChatFinal(j, r, hs) ==
  LET text == Chunks(j, job[j].made)
      last == IF Len(text) >= Len(run[r].text) THEN text ELSE run[r].text
      said == IF last = << >> THEN {} ELSE hs
  IN  Push(r, Detected(r, said) \o << Final(last) >>, run[r].text, run[r].seen \cup said)

ChatError(r) == Push(r, << Error >>, run[r].text, run[r].seen)

Gateway(j) ==
  /\ job[j].state = "live"
  /\ UNCHANGED << prompt, link, drops, apart >>
  /\ \/ /\ job[j].made < MaxChunks
        /\ job' = [job EXCEPT ![j].made = @ + 1]
        /\ \/ Arrives(j, LAMBDA r : ChatDelta(j, r))
           \/ Arrives(j, LAMBDA r : AssistantDelta(j, r))
     \/ job[j].made > 0 /\ UNCHANGED job /\ Arrives(j, LAMBDA r : ChatDelta(j, r))
     \/ \E h \in Hashes : UNCHANGED job /\ Arrives(j, LAMBDA r : ToolResult(r, h))
     \/ /\ job' = [job EXCEPT ![j] = [state |-> "done", made |-> 0]]
        /\ \/ \E hs \in SUBSET Hashes : Arrives(j, LAMBDA r : ChatFinal(j, r, hs))
           \/ Arrives(j, ChatError)

-----------------------------------------------------------------------------
(* GET /grok/stream: who has the name of a run attaches to it              *)

Attached(p) ==
  [pc  |-> IF Ending(run[p].events) \/ run[p].state = "closed" THEN "ended" ELSE "open",
   run |-> p, got |-> run[p].events]

Attach(st, p) ==
  /\ stream[st].pc = "idle" /\ prompt[p].pc = "answered"
  /\ stream' = [stream EXCEPT ![st] = IF run[p].state \in {"open", "closed"} THEN Attached(p)
                                      ELSE [@ EXCEPT !.pc = "not_found"]]
  /\ UNCHANGED << prompt, run, active, link, job, pushed, drops, apart >>

Leave(st) ==
  /\ stream[st].pc = "open" /\ stream' = [stream EXCEPT ![st] = [NoStream EXCEPT !.pc = "left"]]
  /\ UNCHANGED << prompt, run, active, link, job, pushed, drops, apart >>

-----------------------------------------------------------------------------
GrokNext ==
  \/ \E p \in Prompts :
       \/ \E s \in Sessions : Submit(p, s)
       \/ QueryFails(p) \/ OpenRun(p) \/ Send(p) \/ GatewayAnswers(p) \/ SendFails(p)
       \/ OnTimer(p) \/ Cleanup(p)
       \/ Gateway(p)
  \/ Connection
  \/ Disconnected
  \/ \E st \in Streams : (\E p \in Prompts : Attach(st, p)) \/ Leave(st)

\* The timers fire.
GrokFairness == \A p \in Prompts : WF_grokVars(OnTimer(p))
GrokSpec == GrokInit /\ [][GrokNext]_grokVars /\ GrokFairness

-----------------------------------------------------------------------------
(* Properties *)

\* However the gateway, the timer and failures race, a run ends once, nothing is pushed after its final or
\* its error, and no transaction is reported twice; and whenever a stream was attached, it has every event of
\* its run since then, in order, with all that the run remembered before, and the end if the server ended it.
StreamsTellTheRun ==
  /\ \A p \in Prompts : \A i, k \in DOMAIN pushed[p] : i < k =>
       /\ ~Ends(pushed[p][i])
       /\ pushed[p][i].type = "action" => pushed[p][i] # pushed[p][k]
  /\ \A st \in Streams : stream[st].pc \in {"open", "ended"} /\ run[stream[st].run].state # "gone" =>
       LET all == pushed[stream[st].run] IN
       /\ IsSuffix(stream[st].got, all)
       /\ Len(all) <= MaxEvents => stream[st].got = all
       /\ stream[st].pc = "ended" <=> Ending(stream[st].got)

\* In a session whose prompts have not overlapped, and whose runs the gateway itself has ended, a run shows
\* the answer to its own prompt, whether or not the events name it.
AnswersItsPrompt ==
  \A p \in Prompts : SessionOf(p) \in apart =>
    \A i \in DOMAIN pushed[p] : pushed[p][i].type \in {"token", "final"} =>
      \A k \in DOMAIN pushed[p][i].of : pushed[p][i].of[k][1] = p

\* No stream is kept open for ever.
StreamsEnd == \A st \in Streams : stream[st].pc = "open" ~> stream[st].pc # "open"
=============================================================================
