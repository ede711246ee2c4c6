-------------------------- MODULE SensorAgentProofs --------------------------
(***************************************************************************)
(* Theorems about SensorAgent, for any number of batches, with an agent    *)
(* that may be killed at any step and requests that may fail in any way.   *)
(***************************************************************************)
EXTENDS SensorAgent, TLAPS

InHandOK ==
  /\ pc \in {"send", "enqueue"} <=> inHand # None
  /\ inHand # None => inHand = taken /\ Len(queue) < taken
  /\ pc = "send" => accepted[inHand] = 0
  /\ pc = "enqueue" /\ accepted[inHand] > 0 => inHand \in unsure

\* The lines of the file are batches read before the one in hand.
QueueOK ==
  /\ \A i \in DOMAIN queue : queue[i] <= taken /\ (inHand # None => queue[i] < inHand)
  /\ pc \notin {"retry", "resend", "exited"} => \A i \in DOMAIN queue : queue[i] # Torn
  /\ pc = "write_back" => queue = <<>>

\* What was retained is a part of the lines worked on, in their order.
RetainedOK ==
  pc \in {"resend", "write_back"} =>
    /\ Len(retained) <= taken
    /\ \A i \in DOMAIN retained : retained[i] <= taken
    /\ \A i, j \in DOMAIN retained : i < j => retained[i] < retained[j]

ResendOK ==
  pc = "resend" =>
    /\ line <= Len(queue) + 1
    /\ Len(retained) < line
    /\ \A i \in DOMAIN retained, j \in line..Len(queue) :
         queue[j] # Torn => retained[i] < queue[j]
    /\ \A i \in 1..(line - 1) :
         queue[i] # Torn /\ (accepted[queue[i]] > 0 \/ queue[i] \in Lines(retained))

\* A batch still to be sent was accepted before only if the agent could not know.
RepeatsAreUnsure ==
  /\ \A c \in Captures : c > taken => accepted[c] = 0
  /\ \A i \in DOMAIN queue :
       /\ queue[i] # Torn /\ accepted[queue[i]] > 0
       /\ pc = "resend" => i >= line
       => queue[i] \in unsure
  /\ pc \in {"resend", "write_back"} =>
       \A i \in DOMAIN retained : accepted[retained[i]] > 0 => retained[i] \in unsure

IInv ==
  /\ TypeOK /\ NothingLost /\ DuplicatesAreUnsure /\ QueueInOrder
  /\ InHandOK /\ QueueOK /\ RetainedOK /\ ResendOK /\ RepeatsAreUnsure

-----------------------------------------------------------------------------
(* Sequences.                                                              *)

LEMMA EmptySeq ==
  /\ \A S : <<>> \in Seq(S)
  /\ Len(<<>>) = 0 /\ DOMAIN <<>> = {} /\ Lines(<<>>) = {}
BY DEF Lines

LEMMA AppendFacts ==
  ASSUME NEW S, NEW s \in Seq(S), NEW e \in S
  PROVE  /\ Append(s, e) \in Seq(S)
         /\ Len(s) \in Nat
         /\ Len(Append(s, e)) = Len(s) + 1
         /\ DOMAIN s = 1..Len(s)
         /\ DOMAIN Append(s, e) = 1..(Len(s) + 1)
         /\ \A i \in 1..Len(s) : Append(s, e)[i] = s[i]
         /\ Append(s, e)[Len(s) + 1] = e
OBVIOUS

LEMMA AppendLines ==
  ASSUME NEW S, NEW s \in Seq(S), NEW e \in S
  PROVE  Lines(Append(s, e)) = Lines(s) \cup {e}
BY AppendFacts DEF Lines

LEMMA PrefixFacts ==
  ASSUME NEW S, NEW s \in Seq(S), NEW n \in 0..(Len(s) - 1)
  PROVE  /\ SubSeq(s, 1, n) \in Seq(S)
         /\ Len(SubSeq(s, 1, n)) = n
         /\ \A i \in 1..n : SubSeq(s, 1, n)[i] = s[i]
OBVIOUS

\* A write that was cut short leaves a part of the lines in their order, and at most
\* one torn line behind them.
LEMMA CutShortFacts ==
  ASSUME NEW s \in Seq(Captures), NEW q \in CutShort(s)
  PROVE  /\ q \in Seq(0..MaxCaptures)
         /\ Len(q) <= Len(s)
         /\ DOMAIN q = 1..Len(q)
         /\ \A i \in 1..Len(q) : q[i] = s[i] \/ (q[i] = Torn /\ i = Len(q))
<1> USE AgentAssumption DEF Captures
<1>1. Len(s) \in Nat /\ s \in Seq(0..MaxCaptures) /\ Torn \in 0..MaxCaptures
  BY DEF Torn
<1>2. ASSUME NEW n \in 0..(Len(s) - 1), q = SubSeq(s, 1, n)
      PROVE  /\ q \in Seq(0..MaxCaptures)
             /\ Len(q) = n /\ DOMAIN q = 1..n
             /\ \A i \in 1..n : q[i] = s[i]
  BY <1>1, <1>2, PrefixFacts
<1>3. ASSUME NEW n \in 0..(Len(s) - 1), q = Append(SubSeq(s, 1, n), Torn)
      PROVE  /\ q \in Seq(0..MaxCaptures)
             /\ Len(q) = n + 1 /\ DOMAIN q = 1..(n + 1)
             /\ \A i \in 1..n : q[i] = s[i]
             /\ q[n + 1] = Torn
  <2> DEFINE p == SubSeq(s, 1, n)
  <2>1. p \in Seq(0..MaxCaptures) /\ Len(p) = n /\ \A i \in 1..n : p[i] = s[i]
    BY <1>1, PrefixFacts
  <2> HIDE DEF p
  <2> QED
    BY <1>1, <1>3, <2>1, AppendFacts DEF p
<1>4. \E n \in 0..(Len(s) - 1) : q = SubSeq(s, 1, n) \/ q = Append(SubSeq(s, 1, n), Torn)
  BY DEF CutShort
<1>5. PICK n \in 0..(Len(s) - 1) :
        q = SubSeq(s, 1, n) \/ q = Append(SubSeq(s, 1, n), Torn)
  BY <1>4
<1>6. CASE q = SubSeq(s, 1, n)
  BY <1>1, <1>2, <1>5, <1>6
<1>7. CASE q = Append(SubSeq(s, 1, n), Torn)
  <2>1. /\ q \in Seq(0..MaxCaptures)
        /\ Len(q) = n + 1 /\ DOMAIN q = 1..(n + 1)
        /\ \A i \in 1..n : q[i] = s[i]
        /\ q[n + 1] = Torn
    BY <1>3, <1>7
  <2>2. ASSUME NEW i \in 1..Len(q)
        PROVE  q[i] = s[i] \/ (q[i] = Torn /\ i = Len(q))
    <3>1. i \in 1..n \/ i = n + 1
      BY <2>1, <2>2, <1>5
    <3> QED
      BY <2>1, <3>1
  <2> QED
    BY <1>1, <1>5, <2>1, <2>2
<1> QED
  BY <1>5, <1>6, <1>7

-----------------------------------------------------------------------------
(* The invariant, action by action.                                        *)

LEMMA InitIInv == Init => IInv
<1> SUFFICES ASSUME Init PROVE IInv
  OBVIOUS
<1> USE AgentAssumption DEF Captures, None
<1>1. queue = <<>> /\ retained = <<>> /\ line = 1 /\ taken = 0 /\ pc = "retry" /\ inHand = 0
  BY DEF Init
<1>2. DOMAIN queue = {} /\ Len(queue) = 0 /\ queue \in Seq(0..MaxCaptures) /\ retained \in Seq(Captures)
  BY <1>1, EmptySeq
<1>3. TypeOK
  BY <1>1, <1>2 DEF Init, TypeOK
<1>4. NothingLost /\ DuplicatesAreUnsure /\ QueueInOrder
  BY <1>1, <1>2 DEF Init, NothingLost, DuplicatesAreUnsure, QueueInOrder
<1>5. InHandOK /\ QueueOK /\ RetainedOK /\ ResendOK /\ RepeatsAreUnsure
  BY <1>1, <1>2 DEF Init, InHandOK, QueueOK, RetainedOK, ResendOK, RepeatsAreUnsure
<1> QED
  BY <1>3, <1>4, <1>5 DEF IInv

LEMMA LoadQueueStep == ASSUME IInv, LoadQueue PROVE IInv'
<1> USE AgentAssumption DEF IInv, LoadQueue, history, Captures, None
<1>1. retained' = <<>> /\ retained' \in Seq(Captures) /\ Len(retained') = 0 /\ DOMAIN retained' = {}
  BY EmptySeq
<1>2. Len(queue) \in Nat /\ DOMAIN queue = 1..Len(queue) /\ (queue = <<>> <=> Len(queue) = 0)
  BY DEF TypeOK
<1>3. TypeOK'
  BY <1>1 DEF TypeOK
<1>4. NothingLost' /\ DuplicatesAreUnsure' /\ QueueInOrder'
  BY DEF NothingLost, DuplicatesAreUnsure, QueueInOrder, Rewriting
<1>5. InHandOK' /\ RetainedOK' /\ ResendOK'
  BY <1>1, <1>2 DEF InHandOK, RetainedOK, ResendOK, TypeOK
<1>6. QueueOK'
  BY <1>2 DEF QueueOK
<1>7. RepeatsAreUnsure'
  BY <1>1, <1>2 DEF RepeatsAreUnsure, TypeOK
<1> QED
  BY <1>3, <1>4, <1>5, <1>6, <1>7

\* Steps that move on and leave the file and the batches as they are.
LEMMA MoveStep ==
  ASSUME IInv, UNCHANGED <<retrying, inHand, taken, accepted, unsure, dropped>>,
         pc \in {"heartbeat", "read", "sleep", "exited"},
         pc' \in {"read", "sleep", "retry", "exited"},
         pc = "exited" => pc' = "retry"
  PROVE  IInv'
<1> USE DEF IInv, retrying, None
<1>1. TypeOK'
  BY DEF TypeOK
<1>2. NothingLost' /\ DuplicatesAreUnsure' /\ QueueInOrder'
  BY DEF NothingLost, DuplicatesAreUnsure, QueueInOrder, Rewriting
<1>3. InHandOK' /\ RetainedOK' /\ ResendOK'
  BY DEF InHandOK, RetainedOK, ResendOK
<1>4. QueueOK'
  BY DEF QueueOK
<1>5. RepeatsAreUnsure'
  BY DEF RepeatsAreUnsure
<1> QED
  BY <1>1, <1>2, <1>3, <1>4, <1>5

\* A batch is read: the one in hand is newer than every line of the file.
LEMMA ReadStep == ASSUME IInv, Read PROVE IInv'
<1> USE AgentAssumption DEF IInv, Read, retrying, history, Captures, None
<1>1. CASE UNCHANGED <<inHand, taken>>
  <2>1. taken' # taken + 1
    BY <1>1 DEF TypeOK
  <2>2. pc = "read" /\ pc' \in {"sleep", "exited"}
    BY <2>1
  <2>3. UNCHANGED <<retrying, inHand, taken, accepted, unsure, dropped>>
    BY <1>1
  <2> HIDE DEF IInv, Read
  <2> QED
    BY <2>2, <2>3, MoveStep
<1>2. CASE taken < MaxCaptures /\ taken' = taken + 1 /\ inHand' = taken + 1 /\ pc' = "send"
  <2>1. Len(queue) \in Nat /\ DOMAIN queue = 1..Len(queue) /\ queue \in Seq(0..MaxCaptures)
    BY DEF TypeOK
  <2>2. \A i \in DOMAIN queue : queue[i] \in 0..MaxCaptures
    BY <2>1
  <2>3. accepted[taken + 1] = 0
    BY <1>2 DEF RepeatsAreUnsure, TypeOK
  <2>4. TypeOK'
    BY <1>2, <2>1 DEF TypeOK
  <2>5. NothingLost'
    <3>1. \A c \in 1..taken' : c \in 1..taken \/ c = inHand'
      BY <1>2 DEF TypeOK
    <3>2. inHand = 0 /\ pc # "write_back"
      BY DEF InHandOK
    <3> QED
      BY <3>1, <3>2 DEF NothingLost, Rewriting
  <2>9. DuplicatesAreUnsure' /\ QueueInOrder'
    BY DEF DuplicatesAreUnsure, QueueInOrder
  <2>6. InHandOK' /\ RetainedOK' /\ ResendOK'
    BY <1>2, <2>1, <2>3 DEF InHandOK, RetainedOK, ResendOK, TypeOK
  <2>7. QueueOK'
    BY <1>2, <2>2 DEF QueueOK, TypeOK
  <2>8. RepeatsAreUnsure'
    BY <1>2 DEF RepeatsAreUnsure, TypeOK
  <2> QED
    BY <2>4, <2>5, <2>6, <2>7, <2>8, <2>9
<1> QED
  BY <1>1, <1>2

\* What the server did with a request on batch c.
LEMMA AnswerFacts ==
  ASSUME IInv, NEW c \in Captures, Sent(c) \/ NotSent(c)
  PROVE  /\ accepted' \in [Captures -> 0..2] /\ unsure' \subseteq Captures
         /\ unsure \subseteq unsure'
         /\ \A d \in Captures : d # c => accepted'[d] = accepted[d]
         /\ accepted'[c] >= accepted[c]
         /\ \A d \in Captures : accepted'[d] \in Nat /\ accepted[d] \in Nat
         /\ Sent(c) => accepted'[c] > 0
         /\ NotSent(c) /\ accepted'[c] # accepted[c] => c \in unsure'
BY DEF IInv, TypeOK, Sent, NotSent, Accept

LEMMA SendDoneStep == ASSUME IInv, SendDone PROVE IInv'
<1> USE AgentAssumption DEF IInv, SendDone, retrying, Captures, None
<1>1. inHand \in Captures /\ inHand = taken
  BY DEF InHandOK, TypeOK
<1>2. Sent(inHand)
  OBVIOUS
<1>3. /\ accepted' \in [Captures -> 0..2] /\ unsure' \subseteq Captures
      /\ unsure \subseteq unsure'
      /\ \A d \in Captures : d # inHand => accepted'[d] = accepted[d]
      /\ accepted'[inHand] >= accepted[inHand]
      /\ \A d \in Captures : accepted'[d] \in Nat /\ accepted[d] \in Nat
      /\ accepted'[inHand] > 0
  BY <1>1, <1>2, AnswerFacts
<1>4. accepted'[inHand] = 1
  BY <1>1, <1>2 DEF InHandOK, Sent, Accept, TypeOK
<1>5. \A i \in DOMAIN queue : queue[i] # inHand
  BY <1>1 DEF QueueOK, TypeOK
<1> HIDE DEF SendDone
<1>6. /\ pc = "send" /\ pc' = "sleep" /\ inHand' = 0 /\ dropped' = dropped
      /\ queue' = queue /\ line' = line /\ retained' = retained /\ taken' = taken
  BY DEF SendDone
<1>7. TypeOK'
  BY <1>3, <1>6 DEF TypeOK
<1>8. NothingLost'
  <2> SUFFICES ASSUME NEW c \in 1..taken
               PROVE  \/ accepted'[c] > 0 \/ c \in Lines(queue') \/ c \in dropped'
    BY <1>6 DEF NothingLost
  <2>1. c \in Captures
    BY DEF TypeOK
  <2>2. CASE c = inHand
    BY <1>3, <2>2
  <2>3. CASE c # inHand
    BY <1>3, <1>6, <2>1, <2>3 DEF NothingLost, Rewriting
  <2> QED
    BY <2>2, <2>3
<1>11. DuplicatesAreUnsure'
  BY <1>3, <1>4 DEF DuplicatesAreUnsure
<1>12. QueueInOrder'
  BY <1>6 DEF QueueInOrder
<1>9. InHandOK' /\ RetainedOK' /\ ResendOK' /\ QueueOK'
  BY <1>6 DEF InHandOK, RetainedOK, ResendOK, QueueOK, TypeOK
<1>10. RepeatsAreUnsure'
  <2>1. \A i \in DOMAIN queue : queue[i] \in 0..MaxCaptures
    BY DEF TypeOK
  <2>2. ASSUME NEW i \in DOMAIN queue, queue[i] # 0
        PROVE  accepted'[queue[i]] = accepted[queue[i]]
    BY <1>3, <1>5, <2>1, <2>2
  <2>3. RepeatsAreUnsure /\ taken \in 0..MaxCaptures
    BY DEF TypeOK
  <2>4. \A d \in Captures : d > taken => accepted'[d] = 0
    <3> SUFFICES ASSUME NEW d \in Captures, d > taken
                 PROVE  accepted'[d] = 0
      OBVIOUS
    <3>1. d # inHand
      BY <1>1
    <3> QED
      BY <1>3, <2>3, <3>1 DEF RepeatsAreUnsure
  <2>5. \A i \in DOMAIN queue :
          queue[i] # 0 /\ accepted'[queue[i]] > 0 => queue[i] \in unsure'
    BY <1>3, <1>6, <2>2, <2>3 DEF RepeatsAreUnsure, Torn
  <2> QED
    BY <1>6, <2>4, <2>5 DEF RepeatsAreUnsure, Torn
<1> QED
  BY <1>7, <1>8, <1>9, <1>10, <1>11, <1>12

LEMMA SendFailedStep == ASSUME IInv, SendFailed PROVE IInv'
<1> USE AgentAssumption DEF IInv, retrying, Captures, None
<1>1. inHand \in Captures /\ inHand = taken
  BY DEF InHandOK, TypeOK, SendFailed
<1>2. NotSent(inHand)
  BY DEF SendFailed
<1>3. /\ accepted' \in [Captures -> 0..2] /\ unsure' \subseteq Captures
      /\ unsure \subseteq unsure'
      /\ \A d \in Captures : d # inHand => accepted'[d] = accepted[d]
      /\ accepted'[inHand] >= accepted[inHand]
      /\ \A d \in Captures : accepted'[d] \in Nat /\ accepted[d] \in Nat
      /\ accepted'[inHand] # accepted[inHand] => inHand \in unsure'
  BY <1>1, <1>2, AnswerFacts
<1>4. /\ pc = "send" /\ pc' = "enqueue" /\ inHand' = inHand /\ dropped' = dropped
      /\ queue' = queue /\ line' = line /\ retained' = retained /\ taken' = taken
  BY DEF SendFailed
<1>5. accepted[inHand] = 0
  BY <1>4 DEF InHandOK
<1>6. TypeOK'
  BY <1>3, <1>4 DEF TypeOK
<1>7. NothingLost'
  BY <1>1, <1>3, <1>4 DEF NothingLost, Rewriting, TypeOK
<1>10. DuplicatesAreUnsure'
  BY <1>3 DEF DuplicatesAreUnsure
<1>11. QueueInOrder'
  BY <1>4 DEF QueueInOrder
<1>8. InHandOK' /\ RetainedOK' /\ ResendOK' /\ QueueOK'
  BY <1>1, <1>3, <1>4, <1>5 DEF InHandOK, RetainedOK, ResendOK, QueueOK, TypeOK
<1>9. RepeatsAreUnsure'
  <2>1. \A i \in DOMAIN queue : queue[i] \in 0..MaxCaptures
    BY DEF TypeOK
  <2>2. \A i \in DOMAIN queue : queue[i] # inHand
    BY <1>1 DEF QueueOK, TypeOK
  <2>3. \A c \in Captures : c > taken' => accepted'[c] = 0
    BY <1>1, <1>3, <1>4 DEF RepeatsAreUnsure, TypeOK
  <2>4. ASSUME NEW i \in DOMAIN queue, queue[i] # Torn, accepted'[queue[i]] > 0
        PROVE  queue[i] \in unsure'
    <3>1. queue[i] \in Captures /\ accepted'[queue[i]] = accepted[queue[i]]
      BY <1>3, <2>1, <2>2, <2>4 DEF Torn
    <3> QED
      BY <1>3, <1>4, <2>4, <3>1 DEF RepeatsAreUnsure
  <2> QED
    BY <1>4, <2>3, <2>4 DEF RepeatsAreUnsure
<1> QED
  BY <1>6, <1>7, <1>8, <1>9, <1>10, <1>11

LEMMA SeqElement ==
  ASSUME NEW S, NEW s \in Seq(S)
  PROVE  \A i \in DOMAIN s : s[i] \in S
OBVIOUS

\* The lines of the file, with their types.
LEMMA FileFacts ==
  ASSUME IInv
  PROVE  /\ queue \in Seq(0..MaxCaptures) /\ retained \in Seq(Captures)
         /\ Len(queue) \in Nat /\ DOMAIN queue = 1..Len(queue)
         /\ Len(retained) \in Nat /\ DOMAIN retained = 1..Len(retained)
         /\ \A i \in DOMAIN queue : queue[i] \in Nat /\ (queue[i] # Torn => queue[i] \in Captures)
         /\ \A i \in DOMAIN retained : retained[i] \in Captures /\ retained[i] \in Nat
         /\ taken \in Nat /\ line \in Nat
<1>1. queue \in Seq(0..MaxCaptures) /\ retained \in Seq(Captures) /\ taken \in 0..MaxCaptures
      /\ line \in Nat \ {0}
  BY DEF IInv, TypeOK
<1>2. \A i \in DOMAIN queue : queue[i] \in 0..MaxCaptures
  BY <1>1, SeqElement
<1>3. \A i \in DOMAIN retained : retained[i] \in Captures
  BY <1>1, SeqElement
<1> QED
  BY <1>1, <1>2, <1>3, AgentAssumption DEF Captures, Torn

LEMMA Lengths ==
  ASSUME IInv
  PROVE  /\ Len(queue) \in Nat /\ DOMAIN queue = 1..Len(queue)
         /\ Len(retained) \in Nat /\ DOMAIN retained = 1..Len(retained)
         /\ line \in Nat
BY FileFacts

LEMMA EnqueueStep == ASSUME IInv, Enqueue PROVE IInv'
<1> USE AgentAssumption DEF Captures, None
<1>1. /\ pc = "enqueue" /\ pc' = "sleep" /\ inHand' = 0 /\ taken' = taken
      /\ queue' = Append(queue, inHand) /\ line' = line /\ retained' = retained
      /\ accepted' = accepted /\ unsure' = unsure /\ dropped' = dropped
  BY DEF Enqueue, history
<1>2. /\ inHand \in Captures /\ inHand \in 0..MaxCaptures /\ inHand = taken /\ inHand # Torn
      /\ Len(queue) < taken
      /\ accepted[inHand] > 0 => inHand \in unsure
  BY <1>1 DEF IInv, InHandOK, TypeOK, Torn
<1>3. /\ queue' \in Seq(0..MaxCaptures)
      /\ Len(queue') = Len(queue) + 1
      /\ DOMAIN queue' = 1..(Len(queue) + 1)
      /\ \A i \in 1..Len(queue) : queue'[i] = queue[i]
      /\ queue'[Len(queue) + 1] = inHand
      /\ Lines(queue') = Lines(queue) \cup {inHand}
  <2> HIDE DEF Captures, None
  <2>1. queue \in Seq(0..MaxCaptures) /\ inHand \in 0..MaxCaptures
    BY <1>2, FileFacts
  <2>2. queue' = Append(queue, inHand)
    BY <1>1
  <2>3. /\ queue' \in Seq(0..MaxCaptures)
        /\ Len(queue') = Len(queue) + 1
        /\ DOMAIN queue' = 1..(Len(queue) + 1)
        /\ \A i \in 1..Len(queue) : queue'[i] = queue[i]
        /\ queue'[Len(queue) + 1] = inHand
    BY <2>1, <2>2, AppendFacts
  <2>4. Lines(queue') = Lines(queue) \cup {inHand}
    BY <2>1, <2>2, AppendLines
  <2> QED
    BY <2>3, <2>4
<1>4. \A i \in 1..Len(queue) : queue[i] # Torn /\ queue[i] < inHand /\ queue[i] \in Nat
  BY <1>1, <1>2, FileFacts DEF IInv, QueueOK
<1>5. TypeOK'
  BY <1>1, <1>2, <1>3, FileFacts DEF IInv, TypeOK
<1>6. NothingLost'
  BY <1>1, <1>3 DEF IInv, NothingLost, Rewriting
<1>7. DuplicatesAreUnsure'
  BY <1>1 DEF IInv, DuplicatesAreUnsure
<1>8. QueueInOrder'
  <2> SUFFICES ASSUME NEW i \in DOMAIN queue', NEW j \in DOMAIN queue', i < j
               PROVE  queue'[i] # Torn /\ queue'[i] < queue'[j]
    BY DEF QueueInOrder
  <2>1. i \in 1..Len(queue) /\ (j \in 1..Len(queue) \/ j = Len(queue) + 1)
    BY <1>3, Lengths
  <2>2. CASE j = Len(queue) + 1
    BY <1>3, <1>4, <2>1, <2>2
  <2>3. CASE j \in 1..Len(queue)
    BY <1>3, <1>4, <2>1, <2>3, FileFacts DEF IInv, QueueInOrder
  <2> QED
    BY <2>1, <2>2, <2>3
<1>9. InHandOK' /\ RetainedOK' /\ ResendOK'
  BY <1>1 DEF InHandOK, RetainedOK, ResendOK
<1>10. QueueOK'
  <2>1. \A i \in DOMAIN queue' : queue'[i] # Torn /\ queue'[i] <= taken
    <3> SUFFICES ASSUME NEW i \in DOMAIN queue'
                 PROVE  queue'[i] # Torn /\ queue'[i] <= taken
      OBVIOUS
    <3>1. i \in 1..Len(queue) \/ i = Len(queue) + 1
      BY <1>3, FileFacts
    <3> QED
      BY <1>2, <1>3, <1>4, <3>1, FileFacts
  <2> QED
    BY <1>1, <2>1 DEF QueueOK
<1>11. RepeatsAreUnsure'
  <2>1. ASSUME NEW i \in DOMAIN queue', accepted[queue'[i]] > 0
        PROVE  queue'[i] \in unsure
    <3>1. i \in 1..Len(queue) \/ i = Len(queue) + 1
      BY <1>3, FileFacts
    <3>2. CASE i \in 1..Len(queue)
      BY <1>1, <1>3, <1>4, <2>1, <3>2, FileFacts DEF IInv, RepeatsAreUnsure
    <3> QED
      BY <1>2, <1>3, <2>1, <3>1, <3>2
  <2> QED
    BY <1>1, <2>1 DEF IInv, RepeatsAreUnsure
<1> QED
  BY <1>5, <1>6, <1>7, <1>8, <1>9, <1>10, <1>11 DEF IInv

LEMMA EndRetryStep == ASSUME IInv, EndRetry PROVE IInv'
<1> USE AgentAssumption DEF Captures, None
<1>1. /\ pc = "resend" /\ pc' = (IF retained = <<>> THEN "heartbeat" ELSE "write_back")
      /\ inHand' = inHand /\ taken' = taken
      /\ queue' = <<>> /\ line' = line /\ retained' = retained
      /\ accepted' = accepted /\ unsure' = unsure /\ dropped' = dropped
      /\ line > Len(queue)
  BY DEF EndRetry, history
<1>2. queue' \in Seq(0..MaxCaptures) /\ Len(queue') = 0 /\ DOMAIN queue' = {} /\ Lines(queue') = {}
  BY <1>1, EmptySeq
<1>3. inHand = 0
  BY <1>1 DEF IInv, InHandOK
<1>4. \A i \in DOMAIN queue : accepted[queue[i]] > 0 \/ queue[i] \in Lines(retained)
  <2>1. 1..(line - 1) = DOMAIN queue
    <3>1. line <= Len(queue) + 1
      BY <1>1 DEF IInv, ResendOK
    <3> QED
      BY <1>1, <3>1, FileFacts
  <2> QED
    BY <1>1, <2>1 DEF IInv, ResendOK
<1>5. Lines(retained) # {} => pc' = "write_back"
  BY <1>1, EmptySeq
<1>6. TypeOK'
  BY <1>1, <1>2, FileFacts DEF IInv, TypeOK
<1>7. NothingLost'
  <2> SUFFICES ASSUME NEW c \in 1..taken
               PROVE  \/ accepted[c] > 0
                      \/ pc' = "write_back" /\ c \in Lines(retained)
                      \/ c \in dropped
    BY <1>1 DEF NothingLost, Rewriting
  <2>1. CASE c \in Lines(queue)
    BY <1>4, <1>5, <2>1 DEF Lines
  <2> QED
    BY <1>1, <1>3, <2>1 DEF IInv, NothingLost, Rewriting
<1>8. DuplicatesAreUnsure' /\ QueueInOrder'
  BY <1>1, <1>2 DEF IInv, DuplicatesAreUnsure, QueueInOrder
<1>9. InHandOK' /\ RetainedOK' /\ ResendOK' /\ QueueOK'
  BY <1>1, <1>2, <1>3 DEF IInv, InHandOK, RetainedOK, ResendOK, QueueOK
<1>10. RepeatsAreUnsure'
  BY <1>1, <1>2 DEF IInv, RepeatsAreUnsure
<1> QED
  BY <1>6, <1>7, <1>8, <1>9, <1>10 DEF IInv

LEMMA WriteBackStep == ASSUME IInv, WriteBack PROVE IInv'
<1> USE AgentAssumption DEF Captures, None
<1>1. /\ pc = "write_back" /\ pc' = "heartbeat" /\ inHand' = inHand /\ taken' = taken
      /\ queue' = retained /\ line' = line /\ retained' = retained
      /\ accepted' = accepted /\ unsure' = unsure /\ dropped' = dropped
  BY DEF WriteBack, history
<1>2. inHand = 0 /\ DOMAIN queue = {}
  BY <1>1, EmptySeq DEF IInv, InHandOK, QueueOK
<1>3. /\ Len(retained) <= taken
      /\ \A i \in DOMAIN retained : retained[i] <= taken /\ retained[i] # Torn
      /\ \A i, j \in DOMAIN retained : i < j => retained[i] < retained[j]
  BY <1>1, FileFacts DEF IInv, RetainedOK, Torn
<1>4. retained \in Seq(0..MaxCaptures)
  BY FileFacts
<1>5. TypeOK'
  BY <1>1, <1>3, <1>4 DEF IInv, TypeOK
<1>6. NothingLost'
  BY <1>1, <1>2 DEF IInv, NothingLost, Rewriting, Lines
<1>7. DuplicatesAreUnsure' /\ QueueInOrder'
  BY <1>1, <1>3 DEF IInv, DuplicatesAreUnsure, QueueInOrder
<1>8. InHandOK' /\ RetainedOK' /\ ResendOK' /\ QueueOK'
  BY <1>1, <1>2, <1>3 DEF IInv, InHandOK, RetainedOK, ResendOK, QueueOK
<1>9. RepeatsAreUnsure'
  BY <1>1 DEF IInv, RepeatsAreUnsure
<1> QED
  BY <1>5, <1>6, <1>7, <1>8, <1>9 DEF IInv

\* The line retry_queue works on, against the others.
LEMMA ResendFacts ==
  ASSUME IInv, pc = "resend", line <= Len(queue), queue[line] # Torn
  PROVE  /\ line \in DOMAIN queue /\ queue[line] \in Captures
         /\ queue[line] \in 1..taken /\ inHand = 0
         /\ \A i \in DOMAIN queue : i # line => queue[i] # queue[line]
         /\ \A i \in DOMAIN retained : retained[i] < queue[line]
         /\ accepted[queue[line]] > 0 => queue[line] \in unsure
<1> USE DEF Captures
<1>1. line \in DOMAIN queue
  BY FileFacts DEF IInv, TypeOK
<1>2. queue[line] \in Captures
  BY <1>1, FileFacts
<1>3. queue[line] <= taken
  BY <1>1 DEF IInv, QueueOK
<1>4. \A i \in DOMAIN queue : i # line => queue[i] # queue[line]
  <2> SUFFICES ASSUME NEW i \in DOMAIN queue, i # line
               PROVE  queue[i] # queue[line]
    OBVIOUS
  <2>1. i < line \/ line < i
    BY <1>1, FileFacts
  <2> QED
    BY <1>1, <2>1, FileFacts DEF IInv, QueueInOrder, Torn
<1>5. \A i \in DOMAIN retained : retained[i] < queue[line]
  <2>1. line \in line..Len(queue)
    BY <1>1, FileFacts
  <2> QED
    BY <2>1 DEF IInv, ResendOK
<1>6. accepted[queue[line]] > 0 => queue[line] \in unsure
  BY <1>1, FileFacts DEF IInv, RepeatsAreUnsure
<1>7. inHand = 0
  BY DEF IInv, InHandOK, None
<1> QED
  BY <1>1, <1>2, <1>3, <1>4, <1>5, <1>6, <1>7, FileFacts

LEMMA ResendDoneStep == ASSUME IInv, ResendDone PROVE IInv'
<1> USE AgentAssumption DEF Captures, None
<1> DEFINE c == queue[line]
<1>1. /\ pc = "resend" /\ pc' = "resend" /\ inHand' = inHand /\ taken' = taken
      /\ queue' = queue /\ line' = line + 1 /\ retained' = retained /\ dropped' = dropped
      /\ unsure' = unsure /\ line <= Len(queue) /\ c # Torn
  BY DEF ResendDone, Sent
<1>2. /\ line \in DOMAIN queue /\ c \in Captures /\ inHand = 0
      /\ \A i \in DOMAIN queue : i # line => queue[i] # c
      /\ \A i \in DOMAIN retained : retained[i] < c
      /\ accepted[c] > 0 => c \in unsure
      /\ c <= taken
  BY <1>1, ResendFacts
<1> HIDE DEF c
<1>3. /\ accepted' \in [Captures -> 0..2]
      /\ \A d \in Captures : d # c => accepted'[d] = accepted[d]
      /\ accepted'[c] >= accepted[c] /\ accepted'[c] > 0
      /\ \A d \in Captures : accepted'[d] \in Nat /\ accepted[d] \in Nat
  <2>1. Sent(c)
    BY DEF ResendDone, c
  <2> QED
    BY <1>2, <2>1, AnswerFacts
<1>4. TypeOK'
  <2>1. TypeOK /\ line' \in Nat \ {0}
    BY <1>1, FileFacts DEF IInv
  <2> QED
    BY <1>1, <1>3, <2>1 DEF TypeOK
<1>5. NothingLost'
  <2> SUFFICES ASSUME NEW d \in 1..taken
               PROVE  accepted'[d] > 0 \/ d \in Lines(queue) \/ d \in dropped
    BY <1>1 DEF NothingLost
  <2>1. d \in Captures
    BY DEF IInv, TypeOK
  <2>2. accepted[d] > 0 \/ d \in Lines(queue) \/ d \in dropped
    <3>1. d # inHand
      BY <1>2
    <3> QED
      BY <1>1, <3>1 DEF IInv, NothingLost, Rewriting
  <2>3. accepted[d] > 0 => accepted'[d] > 0
    BY <1>3, <2>1
  <2> QED
    BY <2>2, <2>3
<1>6. DuplicatesAreUnsure'
  <2>1. accepted'[c] > 1 => accepted[c] > 0
    <3>1. accepted' = [accepted EXCEPT ![c] = IF @ = 0 THEN 1 ELSE 2]
      BY DEF ResendDone, Sent, Accept, c
    <3> QED
      BY <1>2, <1>3, <3>1 DEF IInv, TypeOK
  <2> QED
    BY <1>1, <1>2, <1>3, <2>1 DEF IInv, DuplicatesAreUnsure
<1>7. QueueInOrder' /\ InHandOK' /\ QueueOK' /\ RetainedOK'
  BY <1>1, <1>2 DEF IInv, QueueInOrder, InHandOK, QueueOK, RetainedOK
<1>8. ResendOK'
  <2>1. line' <= Len(queue) + 1 /\ Len(retained) < line'
    BY <1>1, FileFacts DEF IInv, ResendOK
  <2>2. \A i \in DOMAIN retained, j \in line'..Len(queue) :
          queue[j] # Torn => retained[i] < queue[j]
    <3>1. \A j \in line'..Len(queue) : j \in line..Len(queue)
      BY <1>1, FileFacts
    <3> QED
      BY <1>1, <3>1 DEF IInv, ResendOK
  <2>3. ASSUME NEW i \in 1..(line' - 1)
        PROVE  queue[i] # Torn /\ (accepted'[queue[i]] > 0 \/ queue[i] \in Lines(retained))
    <3>1. i \in 1..(line - 1) \/ i = line
      BY <1>1, FileFacts
    <3>2. CASE i = line
      BY <1>1, <1>3, <3>2 DEF c
    <3>3. CASE i \in 1..(line - 1)
      <4>1. i \in DOMAIN queue /\ i # line
        BY <1>1, <3>3, Lengths
      <4>2. queue[i] # Torn /\ (accepted[queue[i]] > 0 \/ queue[i] \in Lines(retained))
        BY <1>1, <3>3 DEF IInv, ResendOK
      <4> QED
        BY <1>2, <1>3, <4>1, <4>2, FileFacts
    <3> QED
      BY <3>1, <3>2, <3>3
  <2> QED
    BY <1>1, <2>1, <2>2, <2>3 DEF ResendOK
<1>9. RepeatsAreUnsure'
  <2>1. \A d \in Captures : d > taken => accepted'[d] = 0
    <3>1. \A d \in Captures : d > taken => d # c /\ accepted[d] = 0
      BY <1>2, FileFacts DEF IInv, RepeatsAreUnsure
    <3> QED
      BY <1>3, <3>1
  <2>2. ASSUME NEW i \in DOMAIN queue, queue[i] # Torn, accepted'[queue[i]] > 0, i >= line'
        PROVE  queue[i] \in unsure
    <3>1. i # line /\ i >= line
      BY <1>1, <2>2, FileFacts
    <3>2. accepted'[queue[i]] = accepted[queue[i]]
      BY <1>2, <1>3, <2>2, <3>1, FileFacts
    <3> QED
      BY <1>1, <2>2, <3>1, <3>2 DEF IInv, RepeatsAreUnsure
  <2>3. ASSUME NEW i \in DOMAIN retained, accepted'[retained[i]] > 0
        PROVE  retained[i] \in unsure
    <3>1. retained[i] # c /\ retained[i] \in Captures
      BY <1>2, FileFacts
    <3> QED
      BY <1>1, <1>3, <2>3, <3>1 DEF IInv, RepeatsAreUnsure
  <2> QED
    BY <1>1, <2>1, <2>2, <2>3 DEF RepeatsAreUnsure
<1> QED
  BY <1>4, <1>5, <1>6, <1>7, <1>8, <1>9 DEF IInv

LEMMA ResendFailedStep == ASSUME IInv, ResendFailed PROVE IInv'
<1> USE AgentAssumption DEF Captures, None
<1> DEFINE c == queue[line]
<1>1. /\ pc = "resend" /\ pc' = "resend" /\ inHand' = inHand /\ taken' = taken
      /\ queue' = queue /\ line' = line + 1 /\ retained' = Append(retained, c)
      /\ dropped' = dropped /\ line <= Len(queue) /\ c # Torn
  BY DEF ResendFailed
<1>2. /\ line \in DOMAIN queue /\ c \in Captures /\ inHand = 0
      /\ \A i \in DOMAIN queue : i # line => queue[i] # c
      /\ \A i \in DOMAIN retained : retained[i] < c
      /\ accepted[c] > 0 => c \in unsure
      /\ c <= taken
  BY <1>1, ResendFacts
<1> HIDE DEF c
<1>3. /\ accepted' \in [Captures -> 0..2] /\ unsure' \subseteq Captures
      /\ unsure \subseteq unsure'
      /\ \A d \in Captures : d # c => accepted'[d] = accepted[d]
      /\ accepted'[c] >= accepted[c]
      /\ accepted'[c] # accepted[c] => c \in unsure'
      /\ \A d \in Captures : accepted'[d] \in Nat /\ accepted[d] \in Nat
  <2>1. NotSent(c)
    BY DEF ResendFailed, c
  <2> QED
    BY <1>2, <2>1, AnswerFacts
<1>4. /\ retained' \in Seq(Captures)
      /\ Len(retained') = Len(retained) + 1
      /\ DOMAIN retained' = 1..(Len(retained) + 1)
      /\ \A i \in 1..Len(retained) : retained'[i] = retained[i]
      /\ retained'[Len(retained) + 1] = c
      /\ Lines(retained') = Lines(retained) \cup {c}
  <2> HIDE DEF Captures
  <2>1. retained \in Seq(Captures) /\ c \in Captures
    BY <1>2, FileFacts
  <2>2. Lines(Append(retained, c)) = Lines(retained) \cup {c}
    BY <2>1, AppendLines
  <2>3. /\ Append(retained, c) \in Seq(Captures)
        /\ Len(Append(retained, c)) = Len(retained) + 1
        /\ DOMAIN Append(retained, c) = 1..(Len(retained) + 1)
        /\ \A i \in 1..Len(retained) : Append(retained, c)[i] = retained[i]
        /\ Append(retained, c)[Len(retained) + 1] = c
    BY <2>1, AppendFacts
  <2> QED
    BY <1>1, <2>2, <2>3
<1>5. \A i \in DOMAIN retained' :
        (i \in DOMAIN retained /\ retained'[i] = retained[i]) \/ (i = Len(retained) + 1 /\ retained'[i] = c)
  BY <1>4, Lengths
<1>6. TypeOK'
  <2>1. TypeOK /\ line' \in Nat \ {0}
    BY <1>1, FileFacts DEF IInv
  <2> QED
    BY <1>1, <1>3, <1>4, <2>1 DEF TypeOK
<1>7. NothingLost'
  <2> SUFFICES ASSUME NEW d \in 1..taken
               PROVE  accepted'[d] > 0 \/ d \in Lines(queue) \/ d \in dropped
    BY <1>1 DEF NothingLost
  <2>1. d \in Captures
    BY DEF IInv, TypeOK
  <2>2. accepted'[d] >= accepted[d]
    BY <1>3, <2>1
  <2> QED
    BY <1>1, <1>2, <1>3, <2>1, <2>2 DEF IInv, NothingLost, Rewriting
<1>8. DuplicatesAreUnsure'
  <2> SUFFICES ASSUME NEW d \in Captures, accepted'[d] > 1
               PROVE  d \in unsure'
    BY DEF DuplicatesAreUnsure
  <2>1. CASE accepted'[d] = accepted[d]
    BY <1>3, <2>1 DEF IInv, DuplicatesAreUnsure
  <2> QED
    BY <1>3, <2>1
<1>9. QueueInOrder' /\ InHandOK' /\ QueueOK'
  BY <1>1, <1>2 DEF IInv, QueueInOrder, InHandOK, QueueOK
<1>10. Len(retained) < line /\ line <= Len(queue) /\ Len(queue) <= taken
  BY <1>1 DEF IInv, ResendOK, TypeOK
<1>11. RetainedOK'
  <2>1. Len(retained') <= taken
    BY <1>4, <1>10, FileFacts
  <2>2. \A i \in DOMAIN retained' : retained'[i] <= taken
    BY <1>1, <1>2, <1>5 DEF IInv, RetainedOK
  <2>3. ASSUME NEW i \in DOMAIN retained', NEW j \in DOMAIN retained', i < j
        PROVE  retained'[i] < retained'[j]
    <3>1. i \in DOMAIN retained /\ retained'[i] = retained[i]
      BY <1>4, <1>5, <2>3, Lengths
    <3>2. CASE j = Len(retained) + 1 /\ retained'[j] = c
      BY <1>2, <3>1, <3>2
    <3>3. CASE j \in DOMAIN retained /\ retained'[j] = retained[j]
      BY <1>1, <2>3, <3>1, <3>3 DEF IInv, RetainedOK
    <3> QED
      BY <1>5, <3>2, <3>3
  <2> QED
    BY <1>1, <2>1, <2>2, <2>3 DEF RetainedOK
<1>12. ResendOK'
  <2>1. line' <= Len(queue) + 1 /\ Len(retained') < line'
    BY <1>1, <1>4, <1>10, FileFacts
  <2>2. ASSUME NEW i \in DOMAIN retained', NEW j \in line'..Len(queue), queue[j] # Torn
        PROVE  retained'[i] < queue[j]
    <3>1. j \in line..Len(queue) /\ j \in DOMAIN queue /\ line < j
      BY <1>1, Lengths
    <3>2. CASE i = Len(retained) + 1 /\ retained'[i] = c
      BY <1>2, <2>2, <3>1, <3>2 DEF IInv, QueueInOrder, c
    <3>3. CASE i \in DOMAIN retained /\ retained'[i] = retained[i]
      BY <1>1, <2>2, <3>1, <3>3 DEF IInv, ResendOK
    <3> QED
      BY <1>5, <3>2, <3>3
  <2>3. ASSUME NEW i \in 1..(line' - 1)
        PROVE  queue[i] # Torn /\ (accepted'[queue[i]] > 0 \/ queue[i] \in Lines(retained'))
    <3>1. i \in 1..(line - 1) \/ i = line
      BY <1>1, FileFacts
    <3>2. CASE i = line
      BY <1>1, <1>4, <3>2 DEF c
    <3>3. CASE i \in 1..(line - 1)
      <4>1. i \in DOMAIN queue /\ i # line
        BY <1>1, <3>3, Lengths
      <4>2. queue[i] # Torn /\ (accepted[queue[i]] > 0 \/ queue[i] \in Lines(retained))
        BY <1>1, <3>3 DEF IInv, ResendOK
      <4> QED
        BY <1>2, <1>3, <1>4, <4>1, <4>2, FileFacts
    <3> QED
      BY <3>1, <3>2, <3>3
  <2> QED
    BY <1>1, <2>1, <2>2, <2>3 DEF ResendOK
<1>13. RepeatsAreUnsure'
  <2>0. accepted'[c] > 0 => c \in unsure'
    BY <1>2, <1>3
  <2>1. \A d \in Captures : d > taken => accepted'[d] = 0
    <3>1. \A d \in Captures : d > taken => d # c /\ accepted[d] = 0
      BY <1>2, FileFacts DEF IInv, RepeatsAreUnsure
    <3> QED
      BY <1>3, <3>1
  <2>2. ASSUME NEW i \in DOMAIN queue, queue[i] # Torn, accepted'[queue[i]] > 0, i >= line'
        PROVE  queue[i] \in unsure'
    <3>1. i # line /\ i >= line
      BY <1>1, <2>2, FileFacts
    <3>2. accepted'[queue[i]] = accepted[queue[i]]
      BY <1>2, <1>3, <2>2, <3>1, FileFacts
    <3> QED
      BY <1>1, <1>3, <2>2, <3>1, <3>2 DEF IInv, RepeatsAreUnsure
  <2>3. ASSUME NEW i \in DOMAIN retained', accepted'[retained'[i]] > 0
        PROVE  retained'[i] \in unsure'
    <3>1. CASE i \in DOMAIN retained /\ retained'[i] = retained[i]
      <4>1. retained[i] # c /\ retained[i] \in Captures
        BY <1>2, <3>1, FileFacts
      <4> QED
        BY <1>1, <1>3, <2>3, <3>1, <4>1 DEF IInv, RepeatsAreUnsure
    <3> QED
      BY <1>5, <2>0, <2>3, <3>1
  <2> QED
    BY <1>1, <2>1, <2>2, <2>3 DEF RepeatsAreUnsure
<1> QED
  BY <1>6, <1>7, <1>8, <1>9, <1>11, <1>12, <1>13 DEF IInv

\* A retry that breaks off leaves no batch in the file that was accepted unnoticed.
LEMMA BreakOff ==
  ASSUME IInv, pc = "resend"
  PROVE  /\ Interrupted \subseteq Captures
         /\ \A i \in DOMAIN queue : queue[i] # Torn /\ accepted[queue[i]] > 0 =>
              queue[i] \in unsure \cup Interrupted
<1>1. line - 1 <= Len(queue) /\ \A i \in 1..(line - 1) : i \in DOMAIN queue /\ queue[i] # Torn
  <2>1. line <= Len(queue) + 1
    BY DEF IInv, ResendOK
  <2>2. \A i \in 1..(line - 1) : i \in DOMAIN queue
    BY <2>1, FileFacts
  <2> QED
    BY <2>1, <2>2, FileFacts DEF IInv, ResendOK
<1>2. Interrupted \subseteq Captures
  BY <1>1, FileFacts DEF Interrupted
<1>3. ASSUME NEW i \in DOMAIN queue, queue[i] # Torn, accepted[queue[i]] > 0
      PROVE  queue[i] \in unsure \cup Interrupted
  <2>1. CASE i >= line
    BY <1>3, <2>1 DEF IInv, RepeatsAreUnsure
  <2>2. CASE queue[i] \in Lines(retained)
    BY <1>3, <2>2 DEF IInv, RepeatsAreUnsure, Lines
  <2>3. CASE ~(i >= line) /\ queue[i] \notin Lines(retained)
    <3>1. i \in 1..(line - 1)
      BY <2>3, FileFacts
    <3> QED
      BY <2>3, <3>1 DEF Interrupted
  <2> QED
    BY <2>1, <2>2, <2>3
<1> QED
  BY <1>2, <1>3

LEMMA ResendTornStep == ASSUME IInv, ResendTorn PROVE IInv'
<1> USE DEF None
<1>1. /\ pc = "resend" /\ pc' = "exited" /\ inHand' = inHand /\ taken' = taken
      /\ queue' = queue /\ line' = line /\ retained' = retained /\ dropped' = dropped
      /\ accepted' = accepted /\ unsure' = unsure \cup Interrupted
  BY DEF ResendTorn, retrying
<1>2. TypeOK'
  BY <1>1, BreakOff DEF IInv, TypeOK
<1>3. NothingLost' /\ DuplicatesAreUnsure' /\ QueueInOrder'
  BY <1>1 DEF IInv, NothingLost, Rewriting, DuplicatesAreUnsure, QueueInOrder
<1>4. InHandOK' /\ QueueOK' /\ RetainedOK' /\ ResendOK'
  BY <1>1 DEF IInv, InHandOK, QueueOK, RetainedOK, ResendOK
<1>5. RepeatsAreUnsure'
  BY <1>1, BreakOff DEF IInv, RepeatsAreUnsure
<1> QED
  BY <1>2, <1>3, <1>4, <1>5 DEF IInv

LEMMA SeqLength ==
  ASSUME NEW S, NEW s \in Seq(S)
  PROVE  Len(s) \in Nat /\ DOMAIN s = 1..Len(s)
OBVIOUS

LEMMA TwoSteps ==
  ASSUME NEW a \in Nat, NEW b \in Nat, NEW c \in Nat, a <= b, b <= c
  PROVE  a <= c /\ 1..a \subseteq 1..b
OBVIOUS

\* An agent that was killed: what has to hold of the file it leaves.
LEMMA KilledStep ==
  ASSUME IInv, pc' = "exited", inHand' = None,
         UNCHANGED <<line, retained, taken, accepted>>,
         unsure \subseteq unsure', unsure' \subseteq Captures, dropped' \subseteq Captures,
         queue' \in Seq(0..MaxCaptures), Len(queue') <= taken,
         \A i \in DOMAIN queue' : queue'[i] <= taken,
         QueueInOrder', NothingLost',
         \A i \in DOMAIN queue' :
           queue'[i] # Torn /\ accepted[queue'[i]] > 0 => queue'[i] \in unsure'
  PROVE  IInv'
<1> USE DEF None
<1>1. TypeOK'
  <2>1. TypeOK
    BY DEF IInv
  <2> QED
    BY <2>1 DEF TypeOK
<1>2. DuplicatesAreUnsure'
  BY DEF IInv, DuplicatesAreUnsure
<1>3. InHandOK' /\ QueueOK' /\ RetainedOK' /\ ResendOK'
  BY DEF InHandOK, QueueOK, RetainedOK, ResendOK
<1>4. RepeatsAreUnsure'
  BY DEF IInv, RepeatsAreUnsure
<1> QED
  BY <1>1, <1>2, <1>3, <1>4 DEF IInv

LEMMA KillStep == ASSUME IInv, Kill PROVE IInv'
<1> USE AgentAssumption DEF Captures, None
<1>1. /\ pc' = "exited" /\ inHand' = None /\ pc # "exited"
      /\ UNCHANGED <<line, retained, taken, accepted>>
  BY DEF Kill
<1>2. /\ unsure \subseteq Captures /\ dropped \subseteq Captures /\ Len(queue) <= taken
      /\ QueueInOrder /\ taken \in 0..MaxCaptures
      /\ \A i \in DOMAIN queue : queue[i] <= taken
  BY DEF IInv, TypeOK, QueueOK
<1>3. CASE pc = "write_back"
  <2>1. /\ queue' \in CutShort(retained) /\ unsure' = unsure
        /\ dropped' = dropped \cup (Lines(retained) \ Lines(queue'))
    BY <1>3 DEF Kill
  <2>2. /\ Len(retained) <= taken
        /\ \A i \in DOMAIN retained : retained[i] <= taken /\ retained[i] # Torn
        /\ \A i, j \in DOMAIN retained : i < j => retained[i] < retained[j]
        /\ \A i \in DOMAIN retained : accepted[retained[i]] > 0 => retained[i] \in unsure
        /\ Lines(retained) \subseteq Captures
    BY <1>3, FileFacts DEF IInv, RetainedOK, RepeatsAreUnsure, Lines, Torn
  <2>3. inHand = 0 /\ Lines(queue) = {}
    BY <1>3, EmptySeq DEF IInv, InHandOK, QueueOK
  <2>4. /\ queue' \in Seq(0..MaxCaptures)
        /\ Len(queue') <= Len(retained)
        /\ DOMAIN queue' = 1..Len(queue')
        /\ \A i \in 1..Len(queue') :
             queue'[i] = retained[i] \/ (queue'[i] = Torn /\ i = Len(queue'))
    <3> HIDE DEF Captures
    <3>1. retained \in Seq(Captures)
      BY FileFacts
    <3> QED
      BY <2>1, <3>1, CutShortFacts
  <2>5. Len(queue') \in Nat /\ Len(queue') <= taken /\ DOMAIN queue' \subseteq DOMAIN retained
    <3>1. Len(queue') \in Nat
      BY <2>4, SeqLength
    <3>2. Len(retained) \in Nat /\ DOMAIN retained = 1..Len(retained)
      <4> HIDE DEF Captures
      <4>1. retained \in Seq(Captures)
        BY FileFacts
      <4> QED
        BY <4>1, SeqLength
    <3>3. /\ Len(queue') <= Len(retained)
          /\ Len(retained) <= taken
          /\ taken \in Nat
      <4>1. taken \in Nat
        BY <1>2
      <4>2. Len(queue') <= Len(retained)
        BY <2>4, Zenon
      <4>3. Len(retained) <= taken
        BY <2>2, Zenon
      <4> QED
        BY <4>1, <4>2, <4>3
    <3>4. Len(queue') <= taken /\ 1..Len(queue') \subseteq 1..Len(retained)
      BY <3>1, <3>2, <3>3, TwoSteps
    <3> QED
      BY <2>4, <3>1, <3>2, <3>4
  <2>6. \A i \in DOMAIN queue' : queue'[i] <= taken
    <3> SUFFICES ASSUME NEW i \in DOMAIN queue'
                 PROVE  queue'[i] <= taken
      OBVIOUS
    <3>1. CASE queue'[i] = retained[i]
      BY <2>2, <2>5, <3>1
    <3>2. CASE queue'[i] = Torn
      BY <1>2, <3>2 DEF Torn
    <3> QED
      BY <2>4, <3>1, <3>2
  <2>7. QueueInOrder'
    <3> SUFFICES ASSUME NEW i \in DOMAIN queue', NEW j \in DOMAIN queue', i < j
                 PROVE  queue'[i] # Torn /\ (queue'[j] = Torn \/ queue'[i] < queue'[j])
      BY DEF QueueInOrder
    <3>1. queue'[i] = retained[i]
      <4>1. i \in 1..Len(queue') /\ j \in 1..Len(queue')
        BY <2>4
      <4>2. i # Len(queue')
        BY <2>5, <4>1
      <4> QED
        BY <2>4, <4>1, <4>2
    <3>2. i \in DOMAIN retained /\ j \in DOMAIN retained
      BY <2>5
    <3>3. queue'[j] = retained[j] \/ queue'[j] = Torn
      BY <2>4
    <3> QED
      BY <2>2, <3>1, <3>2, <3>3
  <2>8. NothingLost'
    BY <1>1, <1>3, <2>1, <2>3 DEF IInv, NothingLost, Rewriting
  <2>9. \A i \in DOMAIN queue' :
          queue'[i] # Torn /\ accepted[queue'[i]] > 0 => queue'[i] \in unsure'
    BY <2>1, <2>2, <2>4, <2>5
  <2> QED
    BY <1>1, <1>2, <2>1, <2>2, <2>4, <2>5, <2>6, <2>7, <2>8, <2>9, KilledStep
<1>4. CASE pc = "enqueue"
  <2>1. /\ queue' = queue \/ queue' = Append(queue, Torn)
        /\ unsure' = unsure /\ inHand # 0 /\ dropped' = dropped \cup {inHand}
    BY <1>4 DEF Kill, IInv, InHandOK
  <2>2. /\ inHand \in Captures /\ Len(queue) < taken
        /\ \A i \in DOMAIN queue : queue[i] # Torn
        /\ \A i \in DOMAIN queue : accepted[queue[i]] > 0 => queue[i] \in unsure
    BY <1>4, <2>1 DEF IInv, InHandOK, TypeOK, QueueOK, RepeatsAreUnsure
  <2>3. NothingLost' /\ dropped' \subseteq Captures
    <3>1. Lines(queue) \subseteq Lines(queue')
      <4>1. CASE queue' = Append(queue, Torn)
        <5>1. queue \in Seq(0..MaxCaptures) /\ Torn \in 0..MaxCaptures
          BY FileFacts DEF Torn
        <5> QED
          BY <4>1, <5>1, AppendLines
      <4> QED
        BY <2>1, <4>1
    <3> QED
      BY <1>1, <1>2, <1>4, <2>1, <2>2, <3>1 DEF IInv, NothingLost, Rewriting
  <2>4. CASE queue' = queue
    <3>1. QueueInOrder'
      BY <1>2, <2>4 DEF QueueInOrder
    <3> QED
      BY <1>1, <1>2, <2>1, <2>2, <2>3, <2>4, <3>1, FileFacts, KilledStep
  <2>5. CASE queue' = Append(queue, Torn)
    <3>1. /\ queue' \in Seq(0..MaxCaptures)
          /\ Len(queue') = Len(queue) + 1
          /\ DOMAIN queue' = 1..(Len(queue) + 1)
          /\ \A i \in 1..Len(queue) : queue'[i] = queue[i]
          /\ queue'[Len(queue) + 1] = Torn
      <4>1. queue \in Seq(0..MaxCaptures) /\ Torn \in 0..MaxCaptures
        BY FileFacts DEF Torn
      <4> QED
        BY <2>5, <4>1, AppendFacts
    <3>2. \A i \in DOMAIN queue' :
            (i \in DOMAIN queue /\ queue'[i] = queue[i]) \/ (i = Len(queue) + 1 /\ queue'[i] = Torn)
      BY <3>1, Lengths
    <3>3. Len(queue') <= taken
      BY <2>2, <3>1, FileFacts
    <3>4. \A i \in DOMAIN queue' : queue'[i] <= taken
      BY <1>2, <3>2 DEF Torn
    <3>5. QueueInOrder'
      <4> SUFFICES ASSUME NEW i \in DOMAIN queue', NEW j \in DOMAIN queue', i < j
                   PROVE  queue'[i] # Torn /\ (queue'[j] = Torn \/ queue'[i] < queue'[j])
        BY DEF QueueInOrder
      <4>1. i \in DOMAIN queue /\ queue'[i] = queue[i]
        BY <3>1, <3>2, Lengths
      <4> QED
        BY <1>2, <2>2, <3>2, <4>1 DEF QueueInOrder
    <3>6. \A i \in DOMAIN queue' :
            queue'[i] # Torn /\ accepted[queue'[i]] > 0 => queue'[i] \in unsure'
      BY <2>1, <2>2, <3>2
    <3> QED
      BY <1>1, <1>2, <2>1, <2>3, <3>1, <3>3, <3>4, <3>5, <3>6, KilledStep
  <2> QED
    BY <2>1, <2>4, <2>5
<1>5. CASE pc \notin {"write_back", "enqueue"}
  <2>1. /\ queue' = queue
        /\ unsure' = IF pc = "resend" THEN unsure \cup Interrupted ELSE unsure
        /\ dropped' = dropped \cup (IF inHand = 0 THEN {} ELSE {inHand})
    BY <1>5 DEF Kill
  <2>2. unsure \subseteq unsure' /\ unsure' \subseteq Captures
    <3>1. CASE pc = "resend"
      <4>1. Interrupted \subseteq Captures
        BY <3>1, BreakOff
      <4> QED
        BY <1>2, <2>1, <3>1, <4>1
    <3> QED
      BY <1>2, <2>1, <3>1
  <2>3. dropped' \subseteq Captures
    BY <1>2, <2>1 DEF IInv, TypeOK
  <2>4. \A i \in DOMAIN queue :
          queue[i] # Torn /\ accepted[queue[i]] > 0 => queue[i] \in unsure'
    <3>1. CASE pc = "resend"
      BY <2>1, <3>1, BreakOff
    <3>2. CASE pc # "resend"
      BY <2>1, <3>2 DEF IInv, RepeatsAreUnsure
    <3> QED
      BY <3>1, <3>2
  <2>5. NothingLost'
    BY <1>1, <1>5, <2>1 DEF IInv, NothingLost, Rewriting
  <2>6. QueueInOrder'
    BY <1>2, <2>1 DEF QueueInOrder
  <2> QED
    BY <1>1, <1>2, <2>1, <2>2, <2>3, <2>4, <2>5, <2>6, FileFacts, KilledStep
<1> QED
  BY <1>3, <1>4, <1>5

LEMMA NextIInv == IInv /\ [Next]_vars => IInv'
<1> SUFFICES ASSUME IInv, [Next]_vars
             PROVE  IInv'
  OBVIOUS
<1>1. CASE LoadQueue
  BY <1>1, LoadQueueStep
<1>2. CASE ResendDone
  BY <1>2, ResendDoneStep
<1>3. CASE ResendFailed
  BY <1>3, ResendFailedStep
<1>4. CASE ResendTorn
  BY <1>4, ResendTornStep
<1>5. CASE EndRetry
  BY <1>5, EndRetryStep
<1>6. CASE WriteBack
  BY <1>6, WriteBackStep
<1>7. CASE Heartbeat \/ Sleep \/ Start
  BY <1>7, MoveStep DEF Heartbeat, Sleep, Start, history
<1>8. CASE Read
  BY <1>8, ReadStep
<1>9. CASE SendDone
  BY <1>9, SendDoneStep
<1>10. CASE SendFailed
  BY <1>10, SendFailedStep
<1>11. CASE Enqueue
  BY <1>11, EnqueueStep
<1>12. CASE Kill
  BY <1>12, KillStep
<1>13. CASE UNCHANGED vars
  BY <1>13 DEF vars, IInv, TypeOK, NothingLost, DuplicatesAreUnsure, QueueInOrder, InHandOK,
               QueueOK, RetainedOK, ResendOK, RepeatsAreUnsure, Rewriting
<1> QED
  BY <1>1, <1>2, <1>3, <1>4, <1>5, <1>6, <1>7, <1>8, <1>9, <1>10, <1>11, <1>12, <1>13
     DEF Next, Cycle, Resend, Send

-----------------------------------------------------------------------------
\* The inductive invariant holds in every reachable state.
THEOREM Invariance == Spec => []IInv
BY InitIInv, NextIInv, PTL DEF Spec

\* Type correctness of the agent; the file never outgrows what was read.
THEOREM TypeCorrect == Spec => []TypeOK
<1>1. IInv => TypeOK
  BY DEF IInv
<1> QED
  BY <1>1, Invariance, PTL

\* No batch is lost but to a kill while it was in memory only.
THEOREM BatchesAreKept == Spec => []NothingLost
<1>1. IInv => NothingLost
  BY DEF IInv
<1> QED
  BY <1>1, Invariance, PTL

\* A batch is accepted twice only after a lost reply or a retry that was broken off.
THEOREM DuplicatesAreExplained == Spec => []DuplicatesAreUnsure
<1>1. IInv => DuplicatesAreUnsure
  BY DEF IInv
<1> QED
  BY <1>1, Invariance, PTL

\* The file keeps the order of reading, with nothing behind a torn line.
THEOREM OrderIsKept == Spec => []QueueInOrder
<1>1. IInv => QueueInOrder
  BY DEF IInv
<1> QED
  BY <1>1, Invariance, PTL

-----------------------------------------------------------------------------
(* The agent stores and forwards.                                          *)

\* What is retained comes from the file.
FromFile == pc = "resend" => Lines(retained) \subseteq Lines(queue)

LEMMA LineFacts ==
  ASSUME IInv, line <= Len(queue)
  PROVE  line \in DOMAIN queue
<1>1. line # 0
  BY DEF IInv, TypeOK
<1> QED
  BY <1>1, FileFacts

LEMMA FromFileStep ==
  ASSUME IInv, FromFile, [Next]_vars
  PROVE  FromFile'
<1>1. CASE LoadQueue
  BY <1>1, EmptySeq DEF LoadQueue, FromFile
<1>2. CASE ResendFailed
  <2>1. /\ retained' = Append(retained, queue[line]) /\ queue' = queue /\ pc = "resend"
        /\ line <= Len(queue) /\ queue[line] # Torn
    BY <1>2 DEF ResendFailed
  <2>2. line \in DOMAIN queue /\ queue[line] \in Captures /\ retained \in Seq(Captures)
    BY <2>1, LineFacts, FileFacts
  <2>3. Lines(retained') = Lines(retained) \cup {queue[line]}
    BY <2>1, <2>2, AppendLines
  <2> QED
    BY <2>1, <2>2, <2>3 DEF FromFile, Lines
<1>3. CASE ResendDone
  BY <1>3 DEF ResendDone, FromFile
<1>4. CASE UNCHANGED vars
  BY <1>4 DEF vars, FromFile
<1>5. CASE ResendTorn \/ EndRetry \/ WriteBack \/ Heartbeat \/ Read \/ Send \/ Enqueue
           \/ Sleep \/ Start \/ Kill
  BY <1>5 DEF ResendTorn, EndRetry, WriteBack, Heartbeat, Read, Send, SendDone, SendFailed,
              Enqueue, Sleep, Start, Kill, FromFile
<1> QED
  BY <1>1, <1>2, <1>3, <1>4, <1>5 DEF Next, Cycle, Resend

\* A step that changes neither what the server has nor what the agent has.
LEMMA HeldStep ==
  ASSUME taken' = taken, accepted' = accepted, dropped' = dropped,
         Held' \subseteq Held, Held \ Held' \subseteq Delivered
  PROVE  Promise!Next
<1>1. Delivered' = Delivered
  BY DEF Delivered
<1> QED
  BY <1>1 DEF Promise!Next, Promise!Forget, Promise!LetGo

\* A request on a batch the agent has.
LEMMA AnswerStep ==
  ASSUME IInv, NEW c \in Held, Sent(c) \/ NotSent(c),
         taken' = taken, dropped' = dropped,
         Held' \subseteq Held,
         Held' = Held \/ (Sent(c) /\ Held \ Held' \subseteq {c})
  PROVE  Promise!Next
<1>1. c \in Captures
  BY DEF Held
<1>2. Delivered' = Delivered \/ Delivered' = Delivered \cup {c}
  BY <1>1 DEF Delivered, Sent, NotSent, Accept, IInv, TypeOK
<1>3. Sent(c) => c \in Delivered'
  BY <1>1, AnswerFacts DEF Delivered
<1>4. Held \ Held' \subseteq Delivered'
  BY <1>3
<1> QED
  BY <1>1, <1>2, <1>4 DEF Promise!Next, Promise!Deliver, Promise!Forget, Promise!LetGo

\* A resent line is held by the file until the file is removed, and by then the server
\* has accepted it or it is retained.
LEMMA RetrySteps ==
  ASSUME IInv, FromFile,
         LoadQueue \/ ResendDone \/ ResendFailed \/ ResendTorn \/ EndRetry \/ WriteBack
  PROVE  Promise!Next
<1>1. CASE LoadQueue \/ ResendTorn
  <2>1. pc \in {"retry", "resend"} /\ pc' # "write_back"
        /\ UNCHANGED <<queue, inHand, taken, accepted, dropped>>
    BY <1>1 DEF LoadQueue, ResendTorn, retrying, history
  <2>2. Held' = Held
    BY <2>1 DEF Held, Rewriting
  <2> QED
    BY <2>1, <2>2, HeldStep
<1>2. CASE ResendDone \/ ResendFailed
  <2> DEFINE c == queue[line]
  <2>1. /\ pc = "resend" /\ UNCHANGED <<pc, queue, inHand, taken, dropped>>
        /\ line \in DOMAIN queue /\ c # Torn /\ (Sent(c) \/ NotSent(c))
    BY <1>2, LineFacts DEF ResendDone, ResendFailed
  <2>2. c \in Held
    BY <2>1, FileFacts DEF Held, Lines
  <2>3. Held' = Held
    BY <2>1 DEF Held, Rewriting
  <2> HIDE DEF c
  <2> QED
    BY <2>1, <2>2, <2>3, AnswerStep
<1>3. CASE EndRetry
  <2>1. /\ pc = "resend" /\ queue' = <<>> /\ line > Len(queue)
        /\ UNCHANGED <<retained, inHand, taken, accepted, dropped>>
        /\ pc' = IF retained = <<>> THEN "heartbeat" ELSE "write_back"
    BY <1>3 DEF EndRetry, history
  <2>2. inHand = None
    BY <2>1 DEF IInv, InHandOK
  <2>3. Lines(queue') \cup (IF Rewriting' THEN Lines(retained') ELSE {}) = Lines(retained)
    BY <2>1, EmptySeq DEF Rewriting
  <2>4. Held' \subseteq Held
    BY <2>1, <2>3 DEF Held, FromFile
  <2>5. \A i \in DOMAIN queue : accepted[queue[i]] > 0 \/ queue[i] \in Lines(retained)
    <3>1. \A i \in DOMAIN queue : i \in 1..(line - 1)
      BY <2>1, FileFacts
    <3> QED
      BY <2>1, <3>1 DEF IInv, ResendOK
  <2>6. Held \ Held' \subseteq Delivered
    <3>1. Captures \cap Lines(retained) \subseteq Held'
      BY <2>3 DEF Held
    <3>2. None \notin Captures
      BY DEF None, Captures
    <3>3. Held \subseteq Captures /\ Held \subseteq Lines(queue)
      BY <2>1, <2>2, <3>2 DEF Held, Rewriting
    <3>4. ASSUME NEW d \in Held, d \notin Lines(retained)
          PROVE  d \in Delivered
      BY <2>5, <3>3, <3>4 DEF Delivered, Lines
    <3> QED
      BY <3>1, <3>3, <3>4
  <2> QED
    BY <2>1, <2>4, <2>6, HeldStep
<1>4. CASE WriteBack
  <2>1. /\ pc = "write_back" /\ queue = <<>> /\ queue' = retained /\ pc' = "heartbeat"
        /\ UNCHANGED <<inHand, taken, accepted, dropped>>
    BY <1>4 DEF WriteBack, history, IInv, QueueOK
  <2>2. Held' = Held
    BY <2>1, EmptySeq DEF Held, Rewriting
  <2> QED
    BY <2>1, <2>2, HeldStep
<1> QED
  BY <1>1, <1>2, <1>3, <1>4

LEMMA CycleSteps ==
  ASSUME IInv, Heartbeat \/ Read \/ SendDone \/ SendFailed \/ Enqueue \/ Sleep \/ Start
  PROVE  Promise!Next
<1>1. CASE \/ Heartbeat \/ Sleep \/ Start
           \/ Read /\ UNCHANGED <<inHand, taken>>
  <2>1. pc # "write_back" /\ pc' # "write_back"
        /\ UNCHANGED <<queue, inHand, taken, accepted, dropped>>
    BY <1>1 DEF Heartbeat, Sleep, Start, Read, retrying, history
  <2>2. Held' = Held
    BY <2>1 DEF Held, Rewriting
  <2> QED
    BY <2>1, <2>2, HeldStep
<1>2. CASE Read /\ ~UNCHANGED <<inHand, taken>>
  <2>1. /\ pc = "read" /\ pc' = "send" /\ taken < MaxCaptures
        /\ taken' = taken + 1 /\ inHand' = taken + 1
        /\ UNCHANGED <<queue, accepted, dropped>>
    BY <1>2 DEF Read, retrying, history
  <2>2. inHand = None /\ taken \in Nat
    BY <2>1, FileFacts DEF IInv, InHandOK
  <2> DEFINE c == taken + 1
  <2>3. c \in Captures /\ c \notin 1..taken /\ 1..taken' = (1..taken) \cup {c}
    BY <2>1, <2>2, AgentAssumption DEF Captures
  <2>4. Held' = Held \cup {c}
    BY <2>1, <2>2, <2>3 DEF Held, Rewriting, None, Captures
  <2>5. Delivered' = Delivered
    BY <2>1 DEF Delivered
  <2> HIDE DEF c
  <2> QED
    BY <2>1, <2>3, <2>4, <2>5 DEF Promise!Next, Promise!Read
<1>3. CASE SendDone \/ SendFailed
  <2>1. /\ pc = "send" /\ pc' \in {"sleep", "enqueue"}
        /\ UNCHANGED <<queue, taken, dropped>>
        /\ inHand' = inHand \/ (inHand' = None /\ Sent(inHand))
        /\ Sent(inHand) \/ NotSent(inHand)
    BY <1>3 DEF SendDone, SendFailed, retrying
  <2>2. inHand \in Held
    BY <2>1 DEF Held, IInv, InHandOK, TypeOK, Captures, None
  <2>3. None \notin Captures
    BY DEF None, Captures
  <2>4. /\ Held' \subseteq Held
        /\ Held' = Held \/ (Sent(inHand) /\ Held \ Held' \subseteq {inHand})
    BY <2>1, <2>3 DEF Held, Rewriting
  <2> QED
    BY <2>1, <2>2, <2>4, AnswerStep
<1>4. CASE Enqueue
  <2>1. /\ pc = "enqueue" /\ pc' = "sleep" /\ queue' = Append(queue, inHand) /\ inHand' = None
        /\ UNCHANGED <<taken, accepted, dropped>>
    BY <1>4 DEF Enqueue, history
  <2>2. inHand \in 0..MaxCaptures /\ queue \in Seq(0..MaxCaptures)
    BY AgentAssumption DEF IInv, TypeOK
  <2>3. Lines(Append(queue, inHand)) = Lines(queue) \cup {inHand}
    BY <2>2, AppendLines, AgentAssumption
  <2>4. Held' = Held
    BY <2>1, <2>3 DEF Held, Rewriting, None, Captures
  <2> QED
    BY <2>1, <2>4, HeldStep
<1> QED
  BY <1>1, <1>2, <1>3, <1>4

\* What a kill takes from the agent is noted, and the file is left with nothing new.
LEMMA KillLetsGo == ASSUME IInv, Kill PROVE Promise!Next
<1>1. /\ pc' = "exited" /\ inHand' = None /\ Kills
      /\ UNCHANGED <<retained, taken, accepted>>
  BY DEF Kill
<1>2. Torn \notin Captures /\ None \notin Captures /\ Torn \in 0..MaxCaptures
  BY AgentAssumption DEF Torn, None, Captures
<1>3. Held' = Captures \cap Lines(queue')
  BY <1>1, <1>2 DEF Held, Rewriting
<1>4. CASE pc = "write_back"
  <2>1. /\ queue' \in CutShort(retained)
        /\ dropped' = dropped \cup (Lines(retained) \ Lines(queue'))
    BY <1>4 DEF Kill
  <2>2. Lines(queue) = {} /\ inHand = None /\ Lines(retained) \subseteq Captures
    BY <1>4, FileFacts, EmptySeq DEF IInv, QueueOK, InHandOK, Lines
  <2>3. Held = Lines(retained)
    BY <1>2, <1>4, <2>2 DEF Held, Rewriting
  <2>4. Held' \subseteq Held
    <3>1. retained \in Seq(Captures) /\ DOMAIN retained = 1..Len(retained) /\ Len(retained) \in Nat
      BY FileFacts
    <3>2. /\ queue' \in Seq(0..MaxCaptures) /\ Len(queue') <= Len(retained)
          /\ DOMAIN queue' = 1..Len(queue')
          /\ \A i \in 1..Len(queue') :
               queue'[i] = retained[i] \/ (queue'[i] = Torn /\ i = Len(queue'))
      BY <2>1, <3>1, CutShortFacts
    <3>3. DOMAIN queue' \subseteq DOMAIN retained
      BY <3>1, <3>2, SeqLength
    <3> QED
      BY <1>2, <1>3, <2>3, <3>2, <3>3 DEF Lines
  <2> QED
    BY <1>1, <1>3, <2>1, <2>2, <2>3, <2>4
       DEF Promise!Next, Promise!Forget, Promise!LetGo, Delivered
<1>5. CASE pc # "write_back"
  <2>1. dropped' = dropped \cup (IF inHand = None THEN {} ELSE {inHand})
    BY <1>5 DEF Kill
  <2>2. Lines(queue) \subseteq Lines(queue') /\ Lines(queue') \subseteq Lines(queue) \cup {Torn}
    <3>1. queue' = queue \/ queue' = Append(queue, Torn)
      BY <1>5 DEF Kill
    <3>2. queue \in Seq(0..MaxCaptures) /\ Torn \in 0..MaxCaptures
      BY <1>2, FileFacts
    <3>3. Lines(Append(queue, Torn)) = Lines(queue) \cup {Torn}
      BY <3>2, AppendLines, AgentAssumption
    <3> QED
      BY <3>1, <3>3
  <2>3. Held = Captures \cap (Lines(queue) \cup {inHand})
    BY <1>5 DEF Held, Rewriting
  <2>4. inHand # None => inHand \in Captures
    BY AgentAssumption DEF IInv, TypeOK, None, Captures
  <2> QED
    BY <1>1, <1>2, <1>3, <2>1, <2>2, <2>3, <2>4
       DEF Promise!Next, Promise!Forget, Promise!LetGo, Delivered
<1> QED
  BY <1>4, <1>5

\* The agent stores and forwards: it lets go of a batch only when the server has it, or
\* when it is killed with the batch in memory only, and it reads no batch twice.
THEOREM StoresAndForwards == Spec => DeliverySpec
<1>1. Init => FromFile /\ Promise!Init
  <2> SUFFICES ASSUME Init PROVE FromFile /\ Promise!Init
    OBVIOUS
  <2>1. Lines(queue) = {} /\ 1..taken = {} /\ inHand \notin Captures
    BY EmptySeq DEF Init, None, Captures
  <2>2. Held = {} /\ Delivered = {}
    BY <2>1 DEF Init, Held, Rewriting, Delivered
  <2> QED
    BY <2>1, <2>2 DEF Init, FromFile, Promise!Init
<1>2. IInv /\ FromFile /\ [Next]_vars => FromFile' /\ [Promise!Next]_(Promise!vars)
  <2> SUFFICES ASSUME IInv, FromFile, [Next]_vars
               PROVE  FromFile' /\ [Promise!Next]_(Promise!vars)
    OBVIOUS
  <2>1. CASE UNCHANGED vars
    BY <2>1, FromFileStep DEF vars, Promise!vars, Held, Rewriting, Delivered
  <2>2. CASE Next
    BY <2>2, FromFileStep, RetrySteps, CycleSteps, KillLetsGo DEF Next, Cycle, Resend, Send
  <2> QED
    BY <2>1, <2>2
<1> QED
  BY <1>1, <1>2, Invariance, PTL DEF Spec, DeliverySpec, Promise!Spec
=============================================================================
