------------------------------ MODULE ArenaPage ------------------------------
(***************************************************************************)
(* The arena of the page (front/src/App.tsx): a session is asked for in    *)
(* the background, again and again until it comes, or with the first       *)
(* prompt; a prompt is posted and its stream followed; the visitor resets  *)
(* the arena or disconnects the wallet at any moment. React runs the       *)
(* effect of a new session before the next event. What the texts are is    *)
(* left out; the server's side is GrokArena.                               *)
(***************************************************************************)
EXTENDS Naturals, FiniteSets

CONSTANTS
  Bootstraps,   \* POST /grok/session under way
  Posts,        \* prompts of the visitor
  MaxSessions   \* bound: sessions given

ASSUME ArenaPageAssumption == MaxSessions \in Nat /\ "none" \notin Posts

VARIABLES
  session,    \* grokSessionId, 0 for none; sessions are numbered as they are given
  given,      \* sessions that the API has given
  inFlight,   \* grokSessionInFlightRef
  bootstrap,  \* the requests for a session
  retryTimer, \* grokSessionRetryTimerRef is set
  sending,    \* grokSending
  post,       \* the prompts and their streams
  source,     \* grokEventSourceRef
  hasty       \* history: the visitor has cleared the session while a request of it was under way

pageVars == << session, given, inFlight, bootstrap, retryTimer, sending, post, source, hasty >>

NoSource == "none"
NoBootstrap == [pc |-> "idle", by |-> "effect", active |-> FALSE, post |-> NoSource]
Posting == {q \in Posts : post[q].pc = "posting"}
Streaming == {q \in Posts : post[q].pc = "open"}
UnderWay == Posting # {} \/ \E b \in Bootstraps : bootstrap[b].pc # "idle"

\* The page is loaded, and the effect's first attempt is under way.
ArenaPageInit ==
  /\ session = 0 /\ given = 0 /\ inFlight = TRUE
  /\ LET first == CHOOSE b \in Bootstraps : TRUE
     IN  bootstrap = [[b \in Bootstraps |-> NoBootstrap] EXCEPT ![first].pc = "asked", ![first].active = TRUE]
  /\ retryTimer = FALSE /\ sending = FALSE
  /\ post = [q \in Posts |-> [pc |-> "none", session |-> 0]] /\ source = NoSource
  /\ hasty = FALSE

\* closeGrokStream
ClosedStream(posts) == IF source = NoSource THEN posts ELSE [posts EXCEPT ![source].pc = "closed"]

-----------------------------------------------------------------------------
(* bootstrapGrokSession                                                    *)

\* Seeded fault: nobody looks whether a request is under way.
MayAskAlways == session = 0
MayAsk       == session = 0 /\ ~inFlight

Asked(bs, b, by, q) == [bs EXCEPT ![b] = [pc |-> "asked", by |-> by, active |-> TRUE, post |-> q]]

\* What is left of the requests when the effect has been cleaned up: nobody goes on from theirs.
Abandoned(bs) == [b \in Bootstraps |-> [bs[b] EXCEPT !.active = FALSE]]

\* attemptBootstrap, from the bootstraps bs that go on: ask, or try again later.
Attempt(bs, asking) ==
  \/ /\ ~asking
     /\ \E b \in Bootstraps : bs[b].pc = "idle" /\ bootstrap' = Asked(bs, b, "effect", NoSource)
     /\ inFlight' = TRUE /\ retryTimer' = FALSE
  \/ /\ asking /\ bootstrap' = bs /\ retryTimer' = TRUE /\ UNCHANGED inFlight

OnRetryTimer ==
  /\ retryTimer
  /\ IF session # 0 THEN retryTimer' = FALSE /\ UNCHANGED << bootstrap, inFlight >>
     ELSE Attempt(bootstrap, ~MayAsk)
  /\ UNCHANGED << session, given, sending, post, source, hasty >>

\* The prompt of sendGrokPrompt goes out on the session s.
Posted(posts, q, s) == [ClosedStream(posts) EXCEPT ![q] = [pc |-> "posting", session |-> s]]

\* A new session: the effect's cleanup closes the stream, and the effect finds that there is a session.
SessionArrives(b) ==
  LET q == bootstrap[b].post
      s == given + 1
  IN  /\ bootstrap[b].pc = "asked" /\ given < MaxSessions
      /\ session' = s /\ given' = s /\ inFlight' = FALSE /\ retryTimer' = FALSE
      /\ bootstrap' = Abandoned([bootstrap EXCEPT ![b] = NoBootstrap])
      /\ source' = NoSource
      /\ IF bootstrap[b].by = "effect"
         THEN post' = ClosedStream(post) /\ UNCHANGED sending
         ELSE post' = Posted(post, q, s) /\ sending' = TRUE
      /\ UNCHANGED hasty

SessionFails(b) ==
  /\ bootstrap[b].pc = "asked"
  /\ bootstrap' = [bootstrap EXCEPT ![b] = NoBootstrap]
  /\ inFlight' = FALSE
  /\ retryTimer' = (retryTimer \/ (bootstrap[b].by = "effect" /\ bootstrap[b].active /\ session = 0))
  /\ post' = IF bootstrap[b].by = "prompt" THEN [post EXCEPT ![bootstrap[b].post].pc = "none"] ELSE post
  /\ UNCHANGED << session, given, sending, source, hasty >>

-----------------------------------------------------------------------------
(* sendGrokPrompt *)

SendPrompt(q) ==
  /\ post[q].pc = "none" /\ ~sending
  /\ \/ /\ session # 0
        /\ post' = Posted(post, q, session) /\ source' = NoSource /\ sending' = TRUE
        /\ UNCHANGED << bootstrap, inFlight >>
     \/ /\ MayAsk
        /\ \E b \in Bootstraps : bootstrap[b].pc = "idle" /\ bootstrap' = Asked(bootstrap, b, "prompt", q)
        /\ inFlight' = TRUE /\ post' = [post EXCEPT ![q].pc = "waiting"]
        /\ UNCHANGED << source, sending >>
  /\ UNCHANGED << session, given, retryTimer, hasty >>

StreamOpens(q) ==
  /\ post[q].pc = "posting"
  /\ post' = [post EXCEPT ![q].pc = "open"] /\ source' = q
  /\ UNCHANGED << session, given, inFlight, bootstrap, retryTimer, sending, hasty >>

PostFails(q) ==
  /\ post[q].pc = "posting"
  /\ post' = [post EXCEPT ![q].pc = "closed"] /\ sending' = FALSE
  /\ UNCHANGED << session, given, inFlight, bootstrap, retryTimer, source, hasty >>

\* finishStream: a final, an error, or the connection is gone.
FinishStream(q) ==
  /\ post[q].pc = "open"
  /\ post' = [post EXCEPT ![q].pc = "closed"] /\ source' = NoSource /\ sending' = FALSE
  /\ UNCHANGED << session, given, inFlight, bootstrap, retryTimer, hasty >>

-----------------------------------------------------------------------------
(* The session is cleared: the effect is cleaned up and run again, unless  *)
(* there was none.                                                         *)

ClearSession(closes, asking, flight) ==
  /\ sending' = FALSE /\ session' = 0 /\ hasty' = (hasty \/ UnderWay)
  /\ IF session # 0
     THEN /\ Attempt(Abandoned(bootstrap), asking)
          /\ post' = ClosedStream(post) /\ source' = NoSource
     ELSE /\ post' = IF closes THEN ClosedStream(post) ELSE post
          /\ source' = IF closes THEN NoSource ELSE source
          /\ inFlight' = flight /\ retryTimer' = (retryTimer /\ ~closes) /\ UNCHANGED bootstrap
  /\ UNCHANGED given

\* resetGrokArena takes the flag of a request under way away with the rest.
ResetGrokArena   == ClearSession(TRUE, FALSE, FALSE)
DisconnectWallet == ClearSession(FALSE, inFlight, inFlight)

ArenaPageNext ==
  \/ OnRetryTimer
  \/ \E b \in Bootstraps : SessionArrives(b) \/ SessionFails(b)
  \/ \E q \in Posts : SendPrompt(q) \/ StreamOpens(q) \/ PostFails(q) \/ FinishStream(q)
  \/ ResetGrokArena \/ DisconnectWallet

ArenaPageSpec == ArenaPageInit /\ [][ArenaPageNext]_pageVars

-----------------------------------------------------------------------------
(* Properties *)

\* The page says that a prompt is under way, and takes no other, exactly while one is being posted or its
\* stream is open; no other stream is open, and the stream is of the session that the page is in. This is as
\* long as the visitor has not cleared the session while a request was under way: from then on an answer of
\* before may change the session, close the stream of a prompt that goes on being shown as under way, or
\* write into the new session.
SendingMeansStreaming ==
  ~hasty =>
    /\ sending <=> Posting \cup Streaming # {}
    /\ Cardinality(Posting \cup Streaming) <= 1
    /\ Streaming = (IF source = NoSource THEN {} ELSE {source})
    /\ \A q \in Posting \cup Streaming : post[q].session = session
=============================================================================
