-------------------------- MODULE LiveFeedProofs --------------------------
(***************************************************************************)
(* Theorems about LiveFeed, for any number of items and of poll slots,     *)
(* served or not: the page is never cut off, its polls never overtake each *)
(* other, no item is skipped.                                              *)
(***************************************************************************)
EXTENDS LiveFeed, FiniteSetTheorems, TLAPS

-----------------------------------------------------------------------------
(* The inductive invariant. *)

\* While signed in a poll in flight is the only one and has raised the flag.
Alone ==
    ~left =>
      /\ \A p \in Polls : poll[p] # NoPoll => rt.inFlight
      /\ \A p, q \in Polls : poll[p] # NoPoll /\ poll[q] # NoPoll => p = q

\* All items up to n were applied.
Applied(n) == \A i \in 1 .. n : i \in signalled

\* A question asks after items that were applied.
AskedAfter ==
    /\ Applied(rt.lastSeq)
    /\ Applied(socket.after)
    /\ \A p \in Polls : Waiting(p) => Applied(poll[p])

IInv == TypeOK /\ NeverDeaf /\ Alone /\ AskedAfter

-----------------------------------------------------------------------------
(* Polling. *)

\* What ensureRealtimePolling leaves, called with the state r of a page whose
\* other variables satisfy the invariant.
LEMMA EnsureInv ==
    ASSUME TypeOK, Alone, AskedAfter, NEW r \in Realtime, r.lastSeq = rt.lastSeq,
           ~left => (r.inFlight <=> rt.inFlight),
           EnsurePolling(r)
    PROVE  /\ rt' \in Realtime
           /\ poll' \in [Polls -> Seqs \cup {Refreshing, NoPoll}]
           /\ rt'.timer
           /\ rt'.lastSeq = rt.lastSeq
           /\ ~left =>
                /\ \A p \in Polls : poll'[p] # NoPoll => rt'.inFlight
                /\ \A p, q \in Polls : poll'[p] # NoPoll /\ poll'[q] # NoPoll => p = q
           /\ \A p \in Polls : poll'[p] \in {poll[p], rt.lastSeq}
<1>1. CASE r.timer
  BY <1>1 DEF EnsurePolling, TypeOK, Alone
<1>2. CASE ~r.timer /\ ~MaySend(r)
  <2>1. rt' = [r EXCEPT !.timer = TRUE, !.inFlight = r.inFlight \/ MaySend(r)]
        /\ UNCHANGED poll
    BY <1>2 DEF EnsurePolling, PollIf
  <2>2. rt' \in Realtime /\ rt'.timer /\ rt'.lastSeq = rt.lastSeq
        /\ (r.inFlight => rt'.inFlight)
    BY <1>2, <2>1 DEF Realtime, MaySend
  <2> QED BY <2>1, <2>2 DEF TypeOK, Alone
<1>3. CASE ~r.timer /\ MaySend(r)
  <2>1. rt' = [r EXCEPT !.timer = TRUE, !.inFlight = r.inFlight \/ MaySend(r)]
        /\ SendPoll(r)
    BY <1>3 DEF EnsurePolling, PollIf
  <2>2. rt' \in Realtime /\ rt'.timer /\ rt'.lastSeq = rt.lastSeq /\ rt'.inFlight
    BY <1>3, <2>1 DEF Realtime, MaySend
  <2>3. PICK p \in Polls \ InFlight : poll' = [poll EXCEPT ![p] = r.lastSeq]
    BY <2>1 DEF SendPoll
  <2>4. r.lastSeq \in Seqs
    BY DEF Realtime
  <2>5. poll' \in [Polls -> Seqs \cup {Refreshing, NoPoll}]
    BY <2>3, <2>4 DEF TypeOK
  <2>6. \A q \in Polls : poll'[q] \in {poll[q], rt.lastSeq}
    BY <2>3 DEF TypeOK
  <2>7. ~left => \A q \in Polls : poll[q] = NoPoll
    BY <1>3 DEF MaySend, Alone
  <2>8. ~left => \A q \in Polls : poll'[q] # NoPoll => q = p
    BY <2>3, <2>7 DEF TypeOK
  <2> QED BY <2>2, <2>5, <2>6, <2>8
<1> QED BY <1>1, <1>2, <1>3

\* From there to the invariant, when nothing else but the socket changes.
LEMMA AfterEnsure ==
    ASSUME IInv, NEW r \in Realtime, r.lastSeq = rt.lastSeq,
           ~left => (r.inFlight <=> rt.inFlight),
           EnsurePolling(r),
           socket' \in Socket, socket'.after \in {socket.after, rt.lastSeq},
           started' \in BOOLEAN, UNCHANGED <<latest, left, signalled>>
    PROVE  IInv'
<1> USE DEF IInv
<1>1. /\ rt' \in Realtime
      /\ poll' \in [Polls -> Seqs \cup {Refreshing, NoPoll}]
      /\ rt'.timer /\ rt'.lastSeq = rt.lastSeq
      /\ ~left => /\ \A p \in Polls : poll'[p] # NoPoll => rt'.inFlight
                  /\ \A p, q \in Polls :
                       poll'[p] # NoPoll /\ poll'[q] # NoPoll => p = q
      /\ \A p \in Polls : poll'[p] \in {poll[p], rt.lastSeq}
  BY EnsureInv
<1>2. TypeOK'
  BY <1>1 DEF TypeOK
<1>3. NeverDeaf'
  BY <1>1 DEF NeverDeaf
<1>4. Alone'
  BY <1>1 DEF Alone
<1>5. AskedAfter'
  <2>1. \A n : Applied(n)' <=> Applied(n)
    BY DEF Applied
  <2> QED BY <1>1, <2>1 DEF AskedAfter, Waiting
<1> QED BY <1>2, <1>3, <1>4, <1>5

\* A poll that ends, having applied the items up to n or none, leaves the
\* invariant; so does one that goes on refreshing.
LEMMA PollEnds ==
    ASSUME IInv, NEW p \in Polls, poll[p] # NoPoll,
           NEW kept \in {NoPoll, Refreshing},
           poll' = [poll EXCEPT ![p] = kept],
           rt' \in Realtime, rt'.timer = rt.timer, rt'.active = rt.active,
           kept = Refreshing => rt'.inFlight = rt.inFlight,
           signalled' \in SUBSET (1 .. MaxSeq), signalled \subseteq signalled',
           \A i \in 1 .. rt'.lastSeq : i \in signalled',
           UNCHANGED <<latest, started, left, socket>>
    PROVE  IInv'
<1> USE DEF IInv
<1>1. TypeOK'
  BY DEF TypeOK
<1>2. NeverDeaf'
  BY DEF NeverDeaf
<1>3. Alone'
  <2>1. CASE kept = Refreshing
    BY <2>1 DEF Alone, TypeOK
  <2>2. CASE kept = NoPoll
    BY <2>2 DEF Alone, TypeOK
  <2> QED BY <2>1, <2>2
<1>4. AskedAfter'
  <2>1. \A n : Applied(n) => Applied(n)'
    BY DEF Applied
  <2>2. Applied(rt.lastSeq)'
    BY DEF Applied
  <2>3. kept \notin Seqs
    BY FeedAssumption DEF Seqs, Refreshing
  <2>4. \A q \in Polls : Waiting(q)' => Waiting(q) /\ poll'[q] = poll[q]
    BY <2>3 DEF Waiting, TypeOK
  <2>5. socket' = socket /\ Applied(socket.after)
    BY DEF AskedAfter
  <2>6. Applied(socket.after)'
    BY <2>1, <2>5
  <2>7. \A q \in Polls : Waiting(q)' => Applied(poll[q])
    BY <2>4 DEF AskedAfter
  <2>8. \A q \in Polls : Waiting(q)' => Applied(poll[q])'
    <3> SUFFICES ASSUME NEW q \in Polls, Waiting(q)' PROVE Applied(poll[q])'
      OBVIOUS
    <3>1. poll'[q] = poll[q] /\ Applied(poll[q])
      BY <2>4, <2>7
    <3> QED BY <3>1 DEF Applied
  <2> QED BY <2>2, <2>6, <2>8 DEF AskedAfter
<1> QED BY <1>1, <1>2, <1>3, <1>4

\* Signing out keeps the invariant, with or without a poll that ends by it.
LEMMA LeftInv ==
    ASSUME IInv, left', rt' = Stopped, socket' = ClosedSocket,
           \/ UNCHANGED poll
           \/ \E p \in Polls : poll' = [poll EXCEPT ![p] = NoPoll],
           UNCHANGED <<latest, started, signalled>>
    PROVE  IInv'
<1>1. rt' \in Realtime /\ rt'.lastSeq = rt.lastSeq
  BY DEF IInv, TypeOK, Stopped, Realtime
<1>2. socket' \in Socket /\ socket'.after = socket.after
  BY DEF IInv, TypeOK, ClosedSocket, Socket
<1>3. /\ poll' \in [Polls -> Seqs \cup {Refreshing, NoPoll}]
      /\ \A q \in Polls : poll'[q] \in {poll[q], NoPoll}
  BY DEF IInv, TypeOK
<1>4. NoPoll \notin Seqs
  BY FeedAssumption DEF Seqs
<1>5. TypeOK'
  BY <1>1, <1>2, <1>3 DEF IInv, TypeOK
<1>6. NeverDeaf' /\ Alone'
  BY DEF NeverDeaf, Alone
<1>7. AskedAfter'
  BY <1>1, <1>2, <1>3, <1>4 DEF IInv, AskedAfter, Applied, Waiting
<1> QED BY <1>5, <1>6, <1>7 DEF IInv

\* The steps of a poll keep the invariant.
LEMMA PollStepInv ==
    ASSUME IInv, NEW p \in Polls, PollStep(p)
    PROVE  IInv'
<1>1. ASSUME NEW n \in Seqs, NEW refreshes \in BOOLEAN, PollAnswer(p, n, refreshes)
      PROVE  IInv'
  <2> DEFINE kept == IF refreshes THEN Refreshing ELSE NoPoll
  <2>1. poll[p] # NoPoll /\ poll[p] \in Seqs
    BY <1>1, FeedAssumption DEF PollAnswer, Waiting, Seqs
  <2>2. rt' = [rt EXCEPT !.lastSeq = Seen(n), !.inFlight = rt.inFlight /\ refreshes]
    BY <1>1 DEF PollAnswer
  <2>3. Seen(n) \in Seqs
    BY DEF Seen, IInv, TypeOK, Realtime
  <2>4. /\ rt' \in Realtime /\ rt'.timer = rt.timer /\ rt'.active = rt.active
        /\ rt'.lastSeq = Seen(n) /\ (refreshes => rt'.inFlight = rt.inFlight)
    BY <2>2, <2>3 DEF IInv, TypeOK, Realtime
  <2>5. signalled' = signalled \cup ((poll[p] + 1) .. n) /\ n <= latest
    BY <1>1 DEF PollAnswer
  <2>6. signalled' \in SUBSET (1 .. MaxSeq)
    <3>1. latest \in Nat /\ latest <= MaxSeq /\ signalled \in SUBSET (1 .. MaxSeq)
      BY FeedAssumption DEF IInv, TypeOK, Seqs
    <3>2. poll[p] \in Nat /\ n \in Nat
      BY <2>1, FeedAssumption DEF Seqs
    <3>3. ((poll[p] + 1) .. n) \subseteq 1 .. MaxSeq
      BY <2>5, <3>1, <3>2, FeedAssumption
    <3> QED BY <2>5, <3>1, <3>3
  <2>7. \A i \in 1 .. Seen(n) : i \in signalled'
    <3>1. CASE n = 0
      BY <2>5, <3>1 DEF Seen, IInv, AskedAfter, Applied
    <3>2. CASE n # 0
      <4>1. Seen(n) = n
        BY <3>2 DEF Seen
      <4>2. \A i \in 1 .. poll[p] : i \in signalled
        BY <1>1 DEF PollAnswer, IInv, AskedAfter, Applied
      <4>3. poll[p] \in Nat /\ n \in Nat
        BY <2>1, FeedAssumption DEF Seqs
      <4>4. \A i \in 1 .. n : i \in 1 .. poll[p] \/ i \in (poll[p] + 1) .. n
        BY <4>3
      <4> QED BY <2>5, <4>1, <4>2, <4>4
    <3> QED BY <3>1, <3>2
  <2>8. poll' = [poll EXCEPT ![p] = kept] /\ kept \in {NoPoll, Refreshing}
    BY <1>1 DEF PollAnswer
  <2>9. kept = Refreshing => refreshes
    <3>1. Refreshing # NoPoll
      BY FeedAssumption DEF Refreshing
    <3> QED BY <3>1
  <2>10. UNCHANGED <<latest, started, left, socket>>
    BY <1>1 DEF PollAnswer
  <2>11. signalled \subseteq signalled'
    BY <2>5
  <2> HIDE DEF kept
  <2> QED BY <2>1, <2>4, <2>6, <2>7, <2>8, <2>9, <2>10, <2>11, PollEnds
<1>2. CASE RefreshDone(p) \/ PollNull(p)
  <2>1. poll[p] # NoPoll
    BY <1>2, FeedAssumption DEF RefreshDone, PollNull, Waiting, Refreshing, Seqs
  <2>2. rt' = [rt EXCEPT !.inFlight = FALSE]
    BY <1>2 DEF RefreshDone, PollNull
  <2>3. /\ rt' \in Realtime /\ rt'.timer = rt.timer /\ rt'.active = rt.active
        /\ rt'.lastSeq = rt.lastSeq
    BY <2>2 DEF IInv, TypeOK, Realtime
  <2>4. \A i \in 1 .. rt'.lastSeq : i \in signalled
    BY <2>3 DEF IInv, AskedAfter, Applied
  <2>5. /\ poll' = [poll EXCEPT ![p] = NoPoll]
        /\ UNCHANGED <<latest, started, left, socket, signalled>>
    BY <1>2 DEF RefreshDone, PollNull
  <2>6. NoPoll # Refreshing
    BY FeedAssumption DEF Refreshing
  <2>7. signalled \in SUBSET (1 .. MaxSeq)
    BY DEF IInv, TypeOK
  <2> QED BY <2>1, <2>3, <2>4, <2>5, <2>6, <2>7, PollEnds
<1>3. CASE PollRefused(p)
  <2>1. /\ left' /\ rt' = Stopped /\ socket' = ClosedSocket
        /\ poll' = [poll EXCEPT ![p] = NoPoll]
        /\ UNCHANGED <<latest, started, signalled>>
    BY <1>3 DEF PollRefused
  <2> QED BY <2>1, LeftInv
<1> QED BY <1>1, <1>2, <1>3 DEF PollStep

\* The steps of the socket keep the invariant.
LEMMA SocketStepInv ==
    ASSUME IInv, SocketStep
    PROVE  IInv'
<1>0. rt \in Realtime /\ socket \in Socket /\ rt.lastSeq \in Seqs
      /\ started \in BOOLEAN
  BY DEF IInv, TypeOK, Realtime
<1>1. CASE SocketOpen
  <2>1. /\ socket' = [socket EXCEPT !.state = "open"]
        /\ rt' = [rt EXCEPT !.active = TRUE, !.timer = FALSE]
        /\ UNCHANGED <<latest, started, left, poll, signalled>>
    BY <1>1 DEF SocketOpen
  <2>2. socket' \in Socket /\ socket'.after = socket.after
    BY <1>0, <2>1 DEF Socket
  <2>3. rt' \in Realtime /\ rt'.active /\ rt'.lastSeq = rt.lastSeq
        /\ rt'.inFlight = rt.inFlight
    BY <1>0, <2>1 DEF Realtime
  <2>4. TypeOK'
    BY <2>1, <2>2, <2>3 DEF IInv, TypeOK
  <2>5. NeverDeaf' /\ Alone'
    BY <2>1, <2>3 DEF IInv, NeverDeaf, Alone
  <2>6. AskedAfter'
    BY <2>1, <2>2, <2>3 DEF IInv, AskedAfter, Applied, Waiting
  <2> QED BY <2>4, <2>5, <2>6 DEF IInv
<1>2. ASSUME NEW n \in Seqs, Push(n)
      PROVE  IInv'
  <2>1. /\ n \in socket.after + 1 .. latest
        /\ signalled' = signalled \cup (socket.after + 1 .. n)
        /\ socket' = [socket EXCEPT !.after = n]
        /\ rt' = [rt EXCEPT !.lastSeq = n]
        /\ UNCHANGED <<latest, started, left, poll>>
    BY <1>2 DEF Push
  <2>2. socket' \in Socket /\ socket'.after = n
    BY <1>0, <2>1 DEF Socket
  <2>3. rt' \in Realtime /\ rt'.active = rt.active /\ rt'.timer = rt.timer
        /\ rt'.lastSeq = n /\ rt'.inFlight = rt.inFlight
    BY <1>0, <2>1 DEF Realtime
  <2>4. socket.after \in Nat /\ n \in Nat /\ n <= MaxSeq
    BY <1>0, FeedAssumption DEF Socket, Seqs
  <2>5. signalled' \in SUBSET (1 .. MaxSeq)
    <3>1. (socket.after + 1 .. n) \subseteq 1 .. MaxSeq
      BY <2>4, FeedAssumption
    <3> QED BY <2>1, <3>1 DEF IInv, TypeOK
  <2>6. TypeOK'
    BY <2>1, <2>2, <2>3, <2>5 DEF IInv, TypeOK
  <2>7. NeverDeaf' /\ Alone'
    BY <2>1, <2>3 DEF IInv, NeverDeaf, Alone
  <2>8. \A i \in 1 .. n : i \in signalled'
    <3>1. \A i \in 1 .. socket.after : i \in signalled
      BY DEF IInv, AskedAfter, Applied
    <3>2. \A i \in 1 .. n : i \in 1 .. socket.after \/ i \in socket.after + 1 .. n
      BY <2>4
    <3> QED BY <2>1, <3>1, <3>2
  <2>9. \A i : i \in signalled => i \in signalled'
    BY <2>1
  <2>10. AskedAfter'
    BY <2>1, <2>2, <2>3, <2>8, <2>9 DEF IInv, AskedAfter, Applied, Waiting
  <2> QED BY <2>6, <2>7, <2>10 DEF IInv
<1>3. CASE BadMessage
  <2>1. EnsurePolling(rt) /\ UNCHANGED <<latest, started, left, socket, signalled>>
    BY <1>3 DEF BadMessage
  <2> QED BY <1>0, <2>1, AfterEnsure
<1>4. CASE SocketError
  <2> DEFINE r == [rt EXCEPT !.active = FALSE]
  <2>1. r \in Realtime /\ r.lastSeq = rt.lastSeq /\ r.inFlight = rt.inFlight
    BY <1>0 DEF Realtime
  <2>2. socket' \in Socket /\ socket'.after = socket.after
    BY <1>0, <1>4 DEF SocketError, Socket
  <2>3. EnsurePolling(r) /\ UNCHANGED <<latest, started, left, signalled>>
    BY <1>4 DEF SocketError
  <2> HIDE DEF r
  <2> QED BY <1>0, <2>1, <2>2, <2>3, AfterEnsure
<1>5. CASE SocketClose
  <2> DEFINE r == [rt EXCEPT !.active = FALSE, !.websocket = FALSE,
                             !.retryTimer = TRUE]
  <2>1. r \in Realtime /\ r.lastSeq = rt.lastSeq /\ r.inFlight = rt.inFlight
    BY <1>0 DEF Realtime
  <2>2. socket' \in Socket /\ socket'.after = socket.after
    BY <1>0, <1>5 DEF SocketClose, Socket
  <2>3. EnsurePolling(r) /\ UNCHANGED <<latest, started, left, signalled>>
    BY <1>5 DEF SocketClose
  <2> HIDE DEF r
  <2> QED BY <1>0, <2>1, <2>2, <2>3, AfterEnsure
<1> QED BY <1>1, <1>2, <1>3, <1>4, <1>5 DEF SocketStep

\* Every other step keeps it too.
LEMMA StepInv == IInv /\ [Next]_vars => IInv'
<1> SUFFICES ASSUME IInv, [Next]_vars PROVE IInv'
  OBVIOUS
<1>0. rt \in Realtime /\ socket \in Socket /\ rt.lastSeq \in Seqs
  BY DEF IInv, TypeOK, Realtime
<1>1. CASE Publish
  <2>1. latest' \in Seqs
    BY <1>1, FeedAssumption DEF Publish, IInv, TypeOK, Seqs
  <2>2. UNCHANGED <<started, left, rt, socket, poll, signalled>>
    BY <1>1 DEF Publish
  <2> QED BY <2>1, <2>2 DEF IInv, TypeOK, NeverDeaf, Alone, AskedAfter, Applied, Waiting
<1>2. CASE Start
  <2> DEFINE r == [rt EXCEPT !.websocket = socket'.state = "connecting"]
  <2>1. r \in Realtime /\ r.lastSeq = rt.lastSeq /\ r.inFlight = rt.inFlight
    BY <1>0 DEF Realtime
  <2>2. socket' \in Socket /\ socket'.after \in {socket.after, rt.lastSeq}
    BY <1>0, <1>2 DEF Start, Socket
  <2>3. EnsurePolling(r) /\ started' \in BOOLEAN /\ UNCHANGED <<latest, left, signalled>>
    BY <1>2 DEF Start
  <2> HIDE DEF r
  <2> QED BY <2>1, <2>2, <2>3, AfterEnsure
<1>3. CASE Tick
  <2>1. MaySend(rt) /\ SendPoll(rt) /\ rt' = [rt EXCEPT !.inFlight = TRUE]
        /\ UNCHANGED <<latest, started, left, socket, signalled>>
    BY <1>3 DEF Tick
  <2>2. PICK p \in Polls \ InFlight : poll' = [poll EXCEPT ![p] = rt.lastSeq]
    BY <2>1 DEF SendPoll
  <2>3. rt' \in Realtime /\ rt'.inFlight /\ rt'.timer = rt.timer
        /\ rt'.active = rt.active /\ rt'.lastSeq = rt.lastSeq
    BY <1>0, <2>1 DEF Realtime
  <2>4. TypeOK'
    BY <1>0, <2>1, <2>2, <2>3 DEF IInv, TypeOK
  <2>5. NeverDeaf'
    BY <2>1, <2>3 DEF IInv, NeverDeaf
  <2>6. ~left => \A q \in Polls : poll[q] = NoPoll
    BY <2>1 DEF MaySend, IInv, Alone
  <2>7. ~left => \A q \in Polls : poll'[q] # NoPoll => q = p
    BY <2>2, <2>6 DEF IInv, TypeOK
  <2>8. Alone'
    BY <2>1, <2>3, <2>7 DEF Alone
  <2>9. \A q \in Polls : poll'[q] \in {poll[q], rt.lastSeq}
    BY <2>2 DEF IInv, TypeOK
  <2>10. AskedAfter'
    BY <2>1, <2>3, <2>9 DEF IInv, AskedAfter, Applied, Waiting
  <2> QED BY <2>4, <2>5, <2>8, <2>10 DEF IInv
<1>4. CASE \E p \in Polls : PollStep(p)
  BY <1>4, PollStepInv
<1>5. CASE SocketStep
  BY <1>5, SocketStepInv
<1>6. CASE Retry
  <2> DEFINE r == [rt EXCEPT !.retryTimer = FALSE]
  <2>1. r \in Realtime /\ r.lastSeq = rt.lastSeq /\ r.inFlight = rt.inFlight
        /\ r.timer = rt.timer /\ r.active = rt.active
    BY <1>0 DEF Realtime
  <2>2. Connect(r) /\ UNCHANGED <<latest, started, left, signalled>>
    BY <1>6 DEF Retry
  <2> HIDE DEF r
  <2>3. CASE EnsurePolling(r) /\ UNCHANGED socket
    <3>1. started' \in BOOLEAN
      BY <2>2 DEF IInv, TypeOK
    <3> QED BY <1>0, <2>1, <2>2, <2>3, <3>1, AfterEnsure
  <2>4. CASE /\ socket' = [state |-> "connecting", after |-> r.lastSeq]
             /\ rt' = [r EXCEPT !.websocket = TRUE] /\ UNCHANGED poll
    <3>1. socket' \in Socket /\ socket'.after = rt.lastSeq
      BY <1>0, <2>1, <2>4 DEF Socket
    <3>2. rt' \in Realtime /\ rt'.lastSeq = rt.lastSeq /\ rt'.inFlight = rt.inFlight
          /\ rt'.timer = rt.timer /\ rt'.active = rt.active
      BY <2>1, <2>4 DEF Realtime
    <3>3. TypeOK'
      BY <2>2, <2>4, <3>1, <3>2 DEF IInv, TypeOK
    <3>4. NeverDeaf' /\ Alone'
      BY <2>2, <2>4, <3>2 DEF IInv, NeverDeaf, Alone
    <3>5. AskedAfter'
      BY <2>2, <2>4, <3>1, <3>2 DEF IInv, AskedAfter, Applied, Waiting
    <3> QED BY <3>3, <3>4, <3>5 DEF IInv
  <2> QED BY <2>2, <2>3, <2>4 DEF Connect
<1>7. CASE LogOut
  <2>1. /\ left' /\ rt' = Stopped /\ socket' = ClosedSocket
        /\ UNCHANGED <<latest, started, signalled, poll>>
    BY <1>7 DEF LogOut
  <2> QED BY <2>1, LeftInv
<1>8. CASE UNCHANGED vars
  BY <1>8 DEF vars, IInv, TypeOK, NeverDeaf, Alone, AskedAfter, Applied, Waiting
<1> QED BY <1>1, <1>2, <1>3, <1>4, <1>5, <1>6, <1>7, <1>8 DEF Next

\* The initial state satisfies the invariant.
LEMMA InitInv == Init => IInv
<1> SUFFICES ASSUME Init PROVE IInv
  OBVIOUS
<1>1. 0 \in Seqs
  BY FeedAssumption DEF Seqs
<1>2. TypeOK
  BY <1>1 DEF Init, TypeOK, Realtime, Socket
<1>3. NeverDeaf /\ Alone
  BY DEF Init, NeverDeaf, Alone
<1>4. Applied(0)
  BY DEF Applied
<1>5. AskedAfter
  BY <1>4, FeedAssumption DEF Init, AskedAfter, Waiting, Seqs
<1> QED BY <1>2, <1>3, <1>5 DEF IInv

-----------------------------------------------------------------------------
(* The theorems. *)

\* The invariant holds in every behaviour.
THEOREM Invariance == Spec => []IInv
BY InitInv, StepInv, PTL DEF Spec

\* realtimeState and the socket keep their types (app.js:949).
THEOREM TypeCorrect == Spec => []TypeOK
BY Invariance, PTL DEF IInv

\* A signed-in page polls or has a socket open, whatever befalls its sockets.
THEOREM Hearing == Spec => []NeverDeaf
BY Invariance, PTL DEF IInv

\* pollRealtimeFeed never has two polls in flight before logout.
THEOREM PollsAlone == Spec => []OnePollAtATime
<1>1. IInv => OnePollAtATime
  <2> SUFFICES ASSUME IInv, ~left PROVE Cardinality(InFlight) <= 1
    BY DEF OnePollAtATime
  <2>1. CASE InFlight = {}
    BY <2>1, FS_EmptySet
  <2>2. CASE InFlight # {}
    <3>1. PICK p : p \in InFlight
      BY <2>2
    <3>2. InFlight = {p}
      BY <3>1 DEF InFlight, IInv, Alone
    <3> QED BY <3>2, FS_Singleton
  <2> QED BY <2>1, <2>2
<1> QED BY <1>1, Invariance, PTL

\* Every item up to the number a page has seen reached it, though the number
\* may go back.
THEOREM NothingSkipped == Spec => []SignalsComplete
<1>1. IInv => SignalsComplete
  BY DEF IInv, AskedAfter, Applied, SignalsComplete
<1> QED BY <1>1, Invariance, PTL
===========================================================================
