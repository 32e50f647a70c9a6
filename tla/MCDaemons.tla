----------------------------- MODULE MCDaemons -----------------------------
(***************************************************************************)
(* The two parts of the middleware that go on by themselves: the loops of  *)
(* the action worker, with two actions for the same character, two         *)
(* attempts each and one crash; and the runs of the Grok arena, with two   *)
(* prompts in one or two sessions. They share no state: a behaviour is of  *)
(* one part, and the other stays as it began. An answer of two chunks is   *)
(* given to the first prompt as long as it is alone.                       *)
(***************************************************************************)
EXTENDS ActionQueue, GrokArena

CONSTANT character

VARIABLE part

daemonVars == << part, queueVars, grokVars >>

MCConflictKey == << character, character >>

\* Some text has a second chunk.
Long(es) == \E i \in DOMAIN es : es[i].type \in {"token", "final"} /\ \E k \in DOMAIN es[i].of : es[i].of[k][2] = 2
Bounded  == (\E p \in Prompts : job[p].made = 2 \/ Long(pushed[p])) \/ (\E st \in Streams : Long(stream[st].got))
              => prompt[2].pc = "idle"

DaemonsInit == part \in {"queue", "arena"} /\ QueueInit /\ GrokInit

DaemonsNext ==
  \/ part = "queue" /\ QueueNext /\ UNCHANGED << part, grokVars >>
  \/ part = "arena" /\ GrokNext /\ UNCHANGED << part, queueVars >> /\ Bounded'

DaemonsSpec ==
  /\ DaemonsInit /\ [][DaemonsNext]_daemonVars
  /\ \A w \in Workers : WF_queueVars(part = "queue" /\ Step(w))
  /\ GrokFairness
=============================================================================
