----------------------------- MODULE SensorAgent -----------------------------
(***************************************************************************)
(* agent/transferids_agent.py in continuous mode: the cycle of run_once    *)
(* with its retry queue, a file of one line per batch that could not be    *)
(* sent.  A batch is what one reading of the observation file yields (with *)
(* its captured_at); it is named by the order of reading.                  *)
(*                                                                         *)
(* A request ends in one of three ways: it is accepted and the reply       *)
(* arrives; it is accepted and the reply is lost or late; it is not        *)
(* accepted.  The agent cannot tell the last two apart.                    *)
(***************************************************************************)
EXTENDS Naturals, Sequences

CONSTANTS
  MaxCaptures,  \* bound on the batches read
  Kills         \* may the agent be killed at any point?

ASSUME AgentAssumption == MaxCaptures \in Nat \ {0} /\ Kills \in BOOLEAN

Captures == 1..MaxCaptures

None == 0   \* no batch in hand

Torn == 0   \* a line of the queue file that was cut short when it was written

VARIABLES
  pc,        \* where run_once stands
  queue,     \* lines of the queue file
  line,      \* the line retry_queue works on
  retained,  \* lines retry_queue will write back
  inHand,    \* batch read and not yet sent or queued
  taken,     \* batches read so far
  accepted,  \* how often the server has accepted each batch: 0, 1, or 2 for more
  unsure,    \* batches accepted without the agent keeping a note of it
  dropped    \* batches the agent held in memory only when it was killed

vars == <<pc, queue, line, retained, inHand, taken, accepted, unsure, dropped>>
retrying == <<queue, line, retained>>
history == <<accepted, unsure, dropped>>

Lines(s) == {s[i] : i \in DOMAIN s}

Init ==
  /\ pc = "retry"
  /\ queue = <<>> /\ line = 1 /\ retained = <<>>
  /\ inHand = None /\ taken = 0
  /\ accepted = [c \in Captures |-> 0]
  /\ unsure = {} /\ dropped = {}

-----------------------------------------------------------------------------
(* The server, as the agent sees it.                                       *)

Accept(c) == accepted' = [accepted EXCEPT ![c] = IF @ = 0 THEN 1 ELSE 2]

Sent(c) == Accept(c) /\ UNCHANGED unsure

NotSent(c) ==
  \/ Accept(c) /\ unsure' = unsure \cup {c}
  \/ UNCHANGED <<accepted, unsure>>

-----------------------------------------------------------------------------
(* retry_queue.                                                            *)

\* Mutant: a queue is retried on the first line only.
LoadQueueSkip ==
  /\ pc = "retry"
  /\ pc' = "heartbeat"
  /\ line' = 1 /\ retained' = <<>>
  /\ UNCHANGED <<queue, inHand, taken, history>>

LoadQueue ==
  /\ pc = "retry"
  /\ pc' = IF queue = <<>> THEN "heartbeat" ELSE "resend"
  /\ line' = 1 /\ retained' = <<>>
  /\ UNCHANGED <<queue, inHand, taken, history>>

\* Mutant: a line that was sent is kept with the others.
ResendKeepsSent ==
  /\ pc = "resend" /\ line <= Len(queue) /\ queue[line] # Torn
  /\ Sent(queue[line])
  /\ retained' = Append(retained, queue[line])
  /\ line' = line + 1
  /\ UNCHANGED <<pc, queue, inHand, taken, dropped>>

ResendDone ==
  /\ pc = "resend" /\ line <= Len(queue) /\ queue[line] # Torn
  /\ Sent(queue[line])
  /\ line' = line + 1
  /\ UNCHANGED <<pc, queue, retained, inHand, taken, dropped>>

ResendFailed ==
  /\ pc = "resend" /\ line <= Len(queue) /\ queue[line] # Torn
  /\ NotSent(queue[line])
  /\ retained' = Append(retained, queue[line])
  /\ line' = line + 1
  /\ UNCHANGED <<pc, queue, inHand, taken, dropped>>

\* What was resent before a break is still in the file.
Interrupted == {queue[i] : i \in 1..(line - 1)} \ Lines(retained)

\* json.loads raises outside the try: the agent ends with the file as it was.
ResendTorn ==
  /\ pc = "resend" /\ line <= Len(queue) /\ queue[line] = Torn
  /\ pc' = "exited"
  /\ unsure' = unsure \cup Interrupted
  /\ UNCHANGED <<retrying, inHand, taken, accepted, dropped>>

\* Mutant: the file is removed whatever has failed.
EndRetryUnlink ==
  /\ pc = "resend" /\ line > Len(queue)
  /\ queue' = <<>>
  /\ pc' = "heartbeat"
  /\ UNCHANGED <<line, retained, inHand, taken, history>>

\* The file is removed, or emptied to be written anew.
EndRetry ==
  /\ pc = "resend" /\ line > Len(queue)
  /\ queue' = <<>>
  /\ pc' = IF retained = <<>> THEN "heartbeat" ELSE "write_back"
  /\ UNCHANGED <<line, retained, inHand, taken, history>>

WriteBack ==
  /\ pc = "write_back"
  /\ queue' = retained
  /\ pc' = "heartbeat"
  /\ UNCHANGED <<line, retained, inHand, taken, history>>

-----------------------------------------------------------------------------
(* The rest of run_once.                                                   *)

\* Nothing catches a failed heartbeat.
Heartbeat ==
  /\ pc = "heartbeat"
  /\ pc' \in {"read", "exited"}
  /\ UNCHANGED <<retrying, inHand, taken, history>>

\* The observation file yields a batch, no valid flow, or text that does not parse.
Read ==
  /\ pc = "read"
  /\ \/ /\ taken < MaxCaptures
        /\ taken' = taken + 1
        /\ inHand' = taken + 1
        /\ pc' = "send"
     \/ /\ pc' \in {"sleep", "exited"}
        /\ UNCHANGED <<inHand, taken>>
  /\ UNCHANGED <<retrying, history>>

SendDone ==
  /\ pc = "send"
  /\ Sent(inHand)
  /\ inHand' = None
  /\ pc' = "sleep"
  /\ UNCHANGED <<retrying, taken, dropped>>

\* Mutant: a batch that could not be sent is not queued.
SendFailedForgets ==
  /\ pc = "send"
  /\ NotSent(inHand)
  /\ inHand' = None
  /\ pc' = "sleep"
  /\ UNCHANGED <<retrying, taken, dropped>>

SendFailed ==
  /\ pc = "send"
  /\ NotSent(inHand)
  /\ pc' = "enqueue"
  /\ UNCHANGED <<retrying, inHand, taken, dropped>>

\* Mutant: the newest batch goes first.
EnqueueInFront ==
  /\ pc = "enqueue"
  /\ queue' = <<inHand>> \o queue
  /\ inHand' = None
  /\ pc' = "sleep"
  /\ UNCHANGED <<line, retained, taken, history>>

\* Mutant: the sender keeps the batch, and so does its caller.
EnqueueTwice ==
  /\ pc = "enqueue"
  /\ queue' = Append(Append(queue, inHand), inHand)
  /\ inHand' = None
  /\ pc' = "sleep"
  /\ UNCHANGED <<line, retained, taken, history>>

Enqueue ==
  /\ pc = "enqueue"
  /\ queue' = Append(queue, inHand)
  /\ inHand' = None
  /\ pc' = "sleep"
  /\ UNCHANGED <<line, retained, taken, history>>

Sleep ==
  /\ pc = "sleep"
  /\ pc' = "retry"
  /\ UNCHANGED <<retrying, inHand, taken, history>>

-----------------------------------------------------------------------------
(* The outside: somebody starts the agent again, or ends it.               *)

Start ==
  /\ pc = "exited"
  /\ pc' = "retry"
  /\ UNCHANGED <<retrying, inHand, taken, history>>

\* What is left of lines whose writing was cut short.
CutShort(lines) ==
  {SubSeq(lines, 1, n) : n \in 0..(Len(lines) - 1)} \cup
  {Append(SubSeq(lines, 1, n), Torn) : n \in 0..(Len(lines) - 1)}

Kill ==
  /\ Kills /\ pc # "exited"
  /\ pc' = "exited"
  /\ queue' \in CASE pc = "write_back" -> CutShort(retained)
                  [] pc = "enqueue" -> {queue, Append(queue, Torn)}
                  [] OTHER -> {queue}
  /\ unsure' = IF pc = "resend" THEN unsure \cup Interrupted ELSE unsure
  /\ dropped' = dropped \cup (IF pc = "write_back" THEN Lines(retained) \ Lines(queue')
                              ELSE IF inHand = None THEN {} ELSE {inHand})
  /\ inHand' = None
  /\ UNCHANGED <<line, retained, taken, accepted>>

Resend == ResendDone \/ ResendFailed \/ ResendTorn

Send == SendDone \/ SendFailed

Cycle ==
  LoadQueue \/ Resend \/ EndRetry \/ WriteBack \/ Heartbeat \/ Read \/ Send \/ Enqueue \/ Sleep

Next == Cycle \/ Start \/ Kill

Spec == Init /\ [][Next]_vars

\* The process runs; and the network does not fail for ever: a batch that is sent
\* over and over gets through.
Fairness ==
  /\ WF_vars(Cycle)
  /\ \A c \in Captures : SF_vars(ResendDone /\ queue[line] = c)

FairSpec == Spec /\ Fairness
-----------------------------------------------------------------------------
(* Properties.                                                             *)

\* Every variable keeps to its domain, and the file does not outgrow the batches that
\* were read: a line is never written back and appended again.
TypeOK ==
  /\ pc \in {"retry", "resend", "write_back", "heartbeat", "read", "send", "enqueue", "sleep",
             "exited"}
  /\ queue \in Seq(0..MaxCaptures) /\ Len(queue) <= taken
  /\ line \in Nat \ {0}
  /\ retained \in Seq(Captures)
  /\ inHand \in 0..taken
  /\ taken \in 0..MaxCaptures
  /\ accepted \in [Captures -> 0..2]
  /\ unsure \subseteq Captures /\ dropped \subseteq Captures

Rewriting == pc = "write_back"

\* A batch that was read is with the server, in the file, or in the hands of the
\* agent; only a kill at the wrong moment takes it away.  In particular a heartbeat
\* that fails after the queue was rewritten loses nothing.
NothingLost ==
  \A c \in 1..taken :
    \/ accepted[c] > 0
    \/ c \in Lines(queue)
    \/ Rewriting /\ c \in Lines(retained)
    \/ c = inHand
    \/ c \in dropped

\* The server gets a batch twice only when a reply was lost or a retry was broken off.
DuplicatesAreUnsure == \A c \in Captures : accepted[c] > 1 => c \in unsure

\* Batches wait in the order they were read, and nothing is ever put behind a line
\* that cannot be parsed.
QueueInOrder ==
  \A i, j \in DOMAIN queue : i < j =>
    queue[i] # Torn /\ (queue[j] = Torn \/ queue[i] < queue[j])

\* The batches the agent has, in its file or in hand.
Held ==
  Captures \cap
    (Lines(queue) \cup {inHand} \cup (IF Rewriting THEN Lines(retained) ELSE {}))

Delivered == {c \in Captures : accepted[c] > 0}

Promise == INSTANCE Delivery WITH
  Batches <- Captures, Rereads <- FALSE, Losses <- Kills,
  read <- 1..taken, held <- Held, delivered <- Delivered, lost <- dropped

\* The agent stores and forwards: no step of it, a rewriting of the file or a kill
\* included, lets go of a batch the server has not accepted without a note in
\* `dropped`, which an agent that is not killed never makes.
DeliverySpec == Promise!Spec

\* A batch in the file reaches the server, unless the agent ends first.
QueueDrains ==
  \A c \in Captures :
    c \in Lines(queue) ~> accepted[c] > 0 \/ pc = "exited"
=============================================================================
