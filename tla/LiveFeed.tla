------------------------------ MODULE LiveFeed ------------------------------
(***************************************************************************)
(* How a page of the application learns that something was published       *)
(* (src/frontend/app.js, realtimeState): it polls every five seconds and   *)
(* tries a web socket; an open socket stops the polling, a lost one starts *)
(* it again and arms a timer that connects anew.  Signing out stops all of *)
(* it, but the page runs on until the login page replaces it.              *)
(*                                                                         *)
(* The numbered feed the page asks for is external: no route of this       *)
(* backend serves it (FeedServed = FALSE).  With FeedServed = TRUE it is   *)
(* the feed the page is written for: answers and pushes carry the items    *)
(* after a number, in order, up to some later number.                      *)
(***************************************************************************)
EXTENDS Naturals, FiniteSets

CONSTANTS
    FeedServed,   \* the backend has the feed
    MaxSeq,       \* bound: items published
    Polls,        \* bound: polls in flight together
    NoPoll

ASSUME FeedAssumption ==
    FeedServed \in BOOLEAN /\ MaxSeq \in Nat /\ NoPoll \notin Nat

VARIABLES
    latest,      \* items published so far; the newest has this number
    started,     \* startRealtimeFeed has run
    left,        \* logout has run: no token, the next page is on its way
    rt,          \* realtimeState
    socket,      \* the socket object: its state, and the last item sent on it
    poll,        \* polls in flight: the number asked after, or the refresh
                 \* their items started
    signalled    \* items that reached applyRealtimeFeedItems

vars == <<latest, started, left, rt, socket, poll, signalled>>

Seqs == 0 .. MaxSeq
Refreshing == MaxSeq + 1
Realtime == [lastSeq : Seqs, timer : BOOLEAN, inFlight : BOOLEAN,
             websocket : BOOLEAN, retryTimer : BOOLEAN, active : BOOLEAN]
Socket == [state : {"none", "connecting", "open", "closing"}, after : Seqs]

TypeOK ==
    /\ latest \in Seqs
    /\ started \in BOOLEAN /\ left \in BOOLEAN
    /\ rt \in Realtime
    /\ socket \in Socket
    /\ poll \in [Polls -> Seqs \cup {Refreshing, NoPoll}]
    /\ signalled \in SUBSET (1 .. MaxSeq)

Init ==
    /\ latest = 0
    /\ started = FALSE /\ left = FALSE
    /\ rt = [lastSeq |-> 0, timer |-> FALSE, inFlight |-> FALSE,
             websocket |-> FALSE, retryTimer |-> FALSE, active |-> FALSE]
    /\ socket = [state |-> "none", after |-> 0]
    /\ poll = [p \in Polls |-> NoPoll]
    /\ signalled = {}

InFlight == {p \in Polls : poll[p] # NoPoll}

\* Something is published (event_bus.publish).
Publish ==
    /\ latest < MaxSeq
    /\ latest' = latest + 1
    /\ UNCHANGED <<started, left, rt, socket, poll, signalled>>

-----------------------------------------------------------------------------
(* Polling. *)

\* Mutant: a poll already in flight is not looked at.
MaySendAnyway(r) == ~r.active

\* pollRealtimeFeed sends only when no poll is in flight and no socket open.
MaySend(r) == ~r.inFlight /\ ~r.active

SendPoll(r) == \E p \in Polls \ InFlight : poll' = [poll EXCEPT ![p] = r.lastSeq]

PollIf(r) == IF MaySend(r) THEN SendPoll(r) ELSE UNCHANGED poll

\* ensureRealtimePolling: the first call polls at once and sets the interval.
EnsurePolling(r) ==
    IF r.timer
    THEN rt' = r /\ UNCHANGED poll
    ELSE /\ PollIf(r)
         /\ rt' = [r EXCEPT !.timer = TRUE, !.inFlight = @ \/ MaySend(r)]

\* The interval fires.
Tick ==
    /\ rt.timer /\ MaySend(rt)
    /\ SendPoll(rt)
    /\ rt' = [rt EXCEPT !.inFlight = TRUE]
    /\ UNCHANGED <<latest, started, left, socket, signalled>>

Waiting(p) == poll[p] \in Seqs

\* Mutant: the number wanted next is noted.
SeenNext(n) == n + 1

\* The last number the page has seen becomes the one in the answer, a 0 aside.
Seen(n) == IF n = 0 THEN rt.lastSeq ELSE n

\* The feed answers with the items up to n.  The poll is over at once, or when
\* the page has refreshed itself.
PollAnswer(p, n, refreshes) ==
    /\ FeedServed /\ Waiting(p) /\ n \in poll[p] .. latest
    /\ signalled' = signalled \cup ((poll[p] + 1) .. n)
    /\ poll' = [poll EXCEPT ![p] = IF refreshes THEN Refreshing ELSE NoPoll]
    /\ rt' = [rt EXCEPT !.lastSeq = Seen(n), !.inFlight = @ /\ refreshes]
    /\ UNCHANGED <<latest, started, left, socket>>

\* Mutant: the flag is not lowered after the refresh.
RefreshKeepsFlag(p) ==
    /\ poll[p] = Refreshing
    /\ poll' = [poll EXCEPT ![p] = NoPoll]
    /\ UNCHANGED <<latest, started, left, rt, socket, signalled>>

\* A refresh is done.
RefreshDone(p) ==
    /\ poll[p] = Refreshing
    /\ poll' = [poll EXCEPT ![p] = NoPoll]
    /\ rt' = [rt EXCEPT !.inFlight = FALSE]
    /\ UNCHANGED <<latest, started, left, socket, signalled>>

\* No answer, or none of use.
PollNull(p) ==
    /\ Waiting(p)
    /\ poll' = [poll EXCEPT ![p] = NoPoll]
    /\ rt' = [rt EXCEPT !.inFlight = FALSE]
    /\ UNCHANGED <<latest, started, left, socket, signalled>>

-----------------------------------------------------------------------------
(* The socket. *)

\* connectRealtimeWebSocket: with a token and no socket yet a new one is made,
\* which a browser may refuse to do; in the other cases polling goes on.
Connect(r) ==
    \/ /\ ~left /\ ~r.websocket
       /\ socket' = [state |-> "connecting", after |-> r.lastSeq]
       /\ rt' = [r EXCEPT !.websocket = TRUE]
       /\ UNCHANGED poll
    \/ EnsurePolling(r) /\ UNCHANGED socket

\* startRealtimeFeed connects and, whatever came of it, starts to poll.
Start ==
    /\ ~started
    /\ started' = TRUE
    /\ IF left
       THEN UNCHANGED socket
       ELSE \/ socket' = [state |-> "connecting", after |-> rt.lastSeq]
            \/ UNCHANGED socket
    /\ EnsurePolling([rt EXCEPT !.websocket = socket'.state = "connecting"])
    /\ UNCHANGED <<latest, left, signalled>>

\* An open socket takes the place of the interval.
SocketOpen ==
    /\ socket.state = "connecting"
    /\ socket' = [socket EXCEPT !.state = "open"]
    /\ rt' = [rt EXCEPT !.active = TRUE, !.timer = FALSE]
    /\ UNCHANGED <<latest, started, left, poll, signalled>>

\* Mutant: of a push only the newest item is applied.
PushNewest(n) ==
    /\ FeedServed /\ socket.state = "open" /\ n \in socket.after + 1 .. latest
    /\ signalled' = signalled \cup {n}
    /\ socket' = [socket EXCEPT !.after = n]
    /\ rt' = [rt EXCEPT !.lastSeq = n]
    /\ UNCHANGED <<latest, started, left, poll>>

\* The feed pushes the items up to n.
Push(n) ==
    /\ FeedServed /\ socket.state = "open" /\ n \in socket.after + 1 .. latest
    /\ signalled' = signalled \cup (socket.after + 1 .. n)
    /\ socket' = [socket EXCEPT !.after = n]
    /\ rt' = [rt EXCEPT !.lastSeq = n]
    /\ UNCHANGED <<latest, started, left, poll>>

\* A message that is no JSON starts the interval beside the socket.
BadMessage ==
    /\ socket.state = "open"
    /\ EnsurePolling(rt)
    /\ UNCHANGED <<latest, started, left, socket, signalled>>

\* An error comes before the close of a connection that failed.
SocketError ==
    /\ socket.state \in {"connecting", "open"}
    /\ socket' = [socket EXCEPT !.state = "closing"]
    /\ EnsurePolling([rt EXCEPT !.active = FALSE])
    /\ UNCHANGED <<latest, started, left, signalled>>

\* Mutant: the close handler counts on the retry alone.
CloseWithoutPolling ==
    /\ socket.state \in {"open", "closing"}
    /\ socket' = [socket EXCEPT !.state = "none"]
    /\ rt' = [rt EXCEPT !.active = FALSE, !.websocket = FALSE, !.retryTimer = TRUE]
    /\ UNCHANGED <<latest, started, left, poll, signalled>>

\* Closed, by either side: polling again, and a retry in three seconds.  (The
\* test for code 1008 reads a field a socket does not have.)
SocketClose ==
    /\ socket.state \in {"open", "closing"}
    /\ socket' = [socket EXCEPT !.state = "none"]
    /\ EnsurePolling([rt EXCEPT !.active = FALSE, !.websocket = FALSE,
                                !.retryTimer = TRUE])
    /\ UNCHANGED <<latest, started, left, signalled>>

\* scheduleRealtimeWebSocketRetry's timer fires.
Retry ==
    /\ rt.retryTimer
    /\ Connect([rt EXCEPT !.retryTimer = FALSE])
    /\ UNCHANGED <<latest, started, left, signalled>>

-----------------------------------------------------------------------------
(* Signing out. *)

\* stopRealtimeActivity.  A socket that was closed still reports its close.
Stopped == [rt EXCEPT !.timer = FALSE, !.retryTimer = FALSE, !.websocket = FALSE,
                      !.active = FALSE, !.inFlight = FALSE]
ClosedSocket ==
    IF rt.websocket THEN [socket EXCEPT !.state = "closing"] ELSE socket

LogOut ==
    /\ ~left /\ left' = TRUE
    /\ rt' = Stopped /\ socket' = ClosedSocket
    /\ UNCHANGED <<latest, started, poll, signalled>>

\* A poll is answered 401, which logs out before the poll ends.
PollRefused(p) ==
    /\ Waiting(p)
    /\ left' = TRUE
    /\ rt' = Stopped /\ socket' = ClosedSocket
    /\ poll' = [poll EXCEPT ![p] = NoPoll]
    /\ UNCHANGED <<latest, started, signalled>>

-----------------------------------------------------------------------------
PollStep(p) ==
    \/ \E n \in Seqs, refreshes \in BOOLEAN : PollAnswer(p, n, refreshes)
    \/ RefreshDone(p)
    \/ PollNull(p)
    \/ PollRefused(p)

SocketStep ==
    \/ SocketOpen
    \/ \E n \in Seqs : Push(n)
    \/ BadMessage
    \/ SocketError
    \/ SocketClose

Next ==
    \/ Publish
    \/ Start
    \/ Tick
    \/ \E p \in Polls : PollStep(p)
    \/ SocketStep
    \/ Retry
    \/ LogOut

\* Timers fire, refreshes end, an open socket delivers, and a feed that is asked
\* again and again answers in the end.
Fairness ==
    /\ WF_vars(Start) /\ WF_vars(Retry) /\ WF_vars(Tick)
    /\ WF_vars(\E n \in Seqs : Push(n))
    /\ \A p \in Polls :
         /\ WF_vars(RefreshDone(p))
         /\ WF_vars(PollNull(p))
    /\ SF_vars(\E p \in Polls, refreshes \in BOOLEAN : PollAnswer(p, latest, refreshes))

Spec == Init /\ [][Next]_vars /\ Fairness

-----------------------------------------------------------------------------
(* Properties. *)

\* A page that is signed in has an interval running or a socket open, in
\* whatever order sockets open, fail and close: it is never cut off for good
\* (app.js:5917, :5937, :5956, :5969).
NeverDeaf == started /\ ~left => rt.timer \/ rt.active

\* While the page is signed in it has at most one poll, with the refresh it
\* starts, in flight (app.js:5901): answers to polls never overtake each other.
OnePollAtATime == ~left => Cardinality(InFlight) <= 1

\* No item is skipped, though a push may come between a poll's question and its
\* answer and set the number back: all up to the number seen were applied.
SignalsComplete == 1 .. rt.lastSeq \subseteq signalled

\* What is published is applied on every page that stays signed in, however
\* often its socket is lost (app.js:5937, :5956), unless messages that are no
\* JSON never end: each of them starts an interval, which the close that follows
\* takes for a running one and does not poll, and the next open stops it again.
PublishedIsSignalled ==
    <>[][~BadMessage]_vars =>
      \A n \in 1 .. MaxSeq :
        started /\ latest >= n ~> left \/ n \in signalled
=============================================================================
