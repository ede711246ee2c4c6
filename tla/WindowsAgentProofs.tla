------------------------- MODULE WindowsAgentProofs -------------------------
(***************************************************************************)
(* Theorems about WindowsAgent, for any set of batches and a buffer of any *)
(* length, with a process that may be killed while it writes.              *)
(***************************************************************************)
EXTENDS WindowsAgent, TLAPS

\* The lists a run works on are empty outside its flush.
WorkOK ==
  /\ pc = "send" <=> inHand # None
  /\ pc # "resend" => entries = <<>> /\ remaining = <<>>

\* A flush that has met no failure so far has put no line back.
CleanOK == pc = "resend" /\ clean => buffer = <<>> /\ remaining = <<>>

IInv == TypeOK /\ NothingLost /\ WorkOK /\ CleanOK

-----------------------------------------------------------------------------
(* Sequences.                                                              *)

LEMMA EmptyRange == Range(<<>>) = {} /\ \A S : <<>> \in Seq(S)
BY DEF Range

LEMMA AppendRange ==
  ASSUME NEW S, NEW s \in Seq(S), NEW e \in S
  PROVE  Append(s, e) \in Seq(S) /\ Range(Append(s, e)) = Range(s) \cup {e}
<1>1. /\ Append(s, e) \in Seq(S) /\ Len(s) \in Nat /\ DOMAIN s = 1..Len(s)
      /\ DOMAIN Append(s, e) = 1..(Len(s) + 1)
      /\ \A i \in 1..Len(s) : Append(s, e)[i] = s[i]
      /\ Append(s, e)[Len(s) + 1] = e
  OBVIOUS
<1>2. Range(s) \cup {e} \subseteq Range(Append(s, e))
  BY <1>1 DEF Range
<1>3. Range(Append(s, e)) \subseteq Range(s) \cup {e}
  BY <1>1 DEF Range
<1> QED
  BY <1>1, <1>2, <1>3

LEMMA ConcatRange ==
  ASSUME NEW S, NEW s \in Seq(S), NEW r \in Seq(S)
  PROVE  s \o r \in Seq(S) /\ Range(s) \subseteq Range(s \o r)
<1>1. /\ s \o r \in Seq(S) /\ Len(s) \in Nat /\ Len(r) \in Nat /\ DOMAIN s = 1..Len(s)
      /\ DOMAIN (s \o r) = 1..(Len(s) + Len(r))
      /\ \A i \in 1..Len(s) : (s \o r)[i] = s[i]
  OBVIOUS
<1> QED
  BY <1>1 DEF Range

LEMMA HeadTail ==
  ASSUME NEW S, NEW s \in Seq(S), s # <<>>
  PROVE  /\ Head(s) \in S /\ Head(s) \in Range(s)
         /\ Tail(s) \in Seq(S)
         /\ Range(s) \subseteq Range(Tail(s)) \cup {Head(s)}
         /\ Range(s) \subseteq S
<1>1. /\ Len(s) \in Nat \ {0} /\ DOMAIN s = 1..Len(s) /\ Head(s) = s[1]
      /\ Tail(s) \in Seq(S) /\ DOMAIN Tail(s) = 1..(Len(s) - 1)
      /\ \A i \in 1..(Len(s) - 1) : Tail(s)[i] = s[i + 1]
      /\ \A i \in 1..Len(s) : s[i] \in S
  OBVIOUS
<1>2. ASSUME NEW i \in 1..Len(s), i # 1
      PROVE  s[i] \in Range(Tail(s))
  <2>1. i - 1 \in 1..(Len(s) - 1) /\ (i - 1) + 1 = i
    BY <1>1, <1>2
  <2> QED
    BY <1>1, <2>1 DEF Range
<1>3. Range(s) \subseteq Range(Tail(s)) \cup {Head(s)}
  BY <1>1, <1>2 DEF Range
<1>4. 1 \in DOMAIN s /\ Head(s) = s[1] /\ s[1] \in S
  BY <1>1
<1>5. Range(s) \subseteq S
  BY <1>1, Zenon DEF Range
<1>6. Head(s) \in Range(s)
  BY <1>4, Zenon DEF Range
<1> QED
  BY <1>1, <1>3, <1>4, <1>5, <1>6

LEMMA Prefix ==
  ASSUME NEW S, NEW s \in Seq(S), NEW n \in 0..(Len(s) - 1)
  PROVE  SubSeq(s, 1, n) \in Seq(S)
OBVIOUS

LEMMA Without ==
  ASSUME NEW S, NEW x, NEW s \in Seq(S \cup {x}), x \notin Range(s)
  PROVE  s \in Seq(S)
<1>1. Len(s) \in Nat /\ DOMAIN s = 1..Len(s) /\ \A i \in 1..Len(s) : s[i] \in S \cup {x}
  OBVIOUS
<1>2. \A i \in 1..Len(s) : s[i] \in S
  BY <1>1 DEF Range
<1>3. s = [i \in 1..Len(s) |-> s[i]]
  OBVIOUS
<1> QED
  BY <1>1, <1>2, <1>3

LEMMA Wider ==
  ASSUME NEW S, NEW T, S \subseteq T, NEW s \in Seq(S)
  PROVE  s \in Seq(T)
OBVIOUS

-----------------------------------------------------------------------------
(* The steps.                                                              *)

LEMMA InitIInv == Init => IInv
BY WindowsAgentAssumption, EmptyRange
   DEF Init, IInv, TypeOK, NothingLost, WorkOK, CleanOK

LEMMA BufferPayloadFacts ==
  ASSUME TypeOK, NEW p \in Payloads, BufferPayload(p)
  PROVE  /\ buffer' \in Seq(Payloads \cup {Torn})
         /\ dropped' \subseteq Batches /\ dropped \subseteq dropped'
         /\ Range(buffer) \subseteq Range(buffer')
         /\ p \in Batches => p \in Range(buffer') \cup dropped'
<1>1. buffer \in Seq(Payloads \cup {Torn}) /\ dropped \subseteq Batches
  BY DEF TypeOK
<1>2. CASE EndsTorn
  BY <1>1, <1>2 DEF BufferPayload
<1>3. CASE ~EndsTorn
  <2>1. buffer' = Append(buffer, p) /\ dropped' = dropped
    BY <1>3 DEF BufferPayload
  <2> QED
    BY <1>1, <2>1, AppendRange
<1> QED
  BY <1>2, <1>3

LEMMA BreakOffStep ==
  ASSUME IInv, NEW p, NEW memory, BreakOff(p, memory),
         Range(entries) \subseteq memory \cup {Beat},
         inHand # None => inHand \in memory
  PROVE  IInv'
<1>1. /\ pc' = "idle" /\ inHand' = None /\ entries' = <<>> /\ remaining' = <<>>
      /\ dropped' = dropped \cup (memory \cap Batches) /\ clean' = FALSE
      /\ flows' = flows /\ written' = written /\ seen' = seen
  BY DEF BreakOff, End, collecting
<1>2. accepted \subseteq accepted' /\ accepted' \subseteq Batches
  BY DEF IInv, TypeOK, BreakOff, MayAccept, Accept
<1>3. buffer' \in Seq(Payloads \cup {Torn}) /\ Range(buffer) \subseteq Range(buffer')
  <2>1. buffer \in Seq(Payloads \cup {Torn}) /\ Torn \in Payloads \cup {Torn}
    BY DEF IInv, TypeOK
  <2>2. buffer' = buffer \/ buffer' = Append(buffer, Torn)
    BY DEF BreakOff
  <2>3. CASE buffer' = Append(buffer, Torn)
    <3>1. /\ Append(buffer, Torn) \in Seq(Payloads \cup {Torn})
          /\ Range(Append(buffer, Torn)) = Range(buffer) \cup {Torn}
      BY <2>1, AppendRange
    <3> QED
      BY <2>3, <3>1
  <2> QED
    BY <2>1, <2>2, <2>3
<1>4. TypeOK'
  BY <1>1, <1>2, <1>3, EmptyRange DEF IInv, TypeOK
<1>5. NothingLost'
  <2> SUFFICES ASSUME NEW b \in seen
               PROVE  b \in accepted' \cup dropped' \/ b \in Range(buffer')
    BY <1>1 DEF NothingLost
  <2>1. b \in Batches /\ b # Beat /\ b # None
    BY WindowsAgentAssumption DEF IInv, TypeOK
  <2>2. \/ b \in accepted \cup dropped
        \/ b \in Range(buffer) \cup Range(entries)
        \/ b = inHand
    BY DEF IInv, NothingLost
  <2> QED
    BY <1>1, <1>2, <1>3, <2>1, <2>2
<1> QED
  BY <1>1, <1>4, <1>5 DEF IInv, WorkOK, CleanOK

LEMMA CollectStep == ASSUME IInv, Collect PROVE IInv'
BY DEF Collect, flushing, IInv, TypeOK, NothingLost, WorkOK, CleanOK

LEMMA StartStep == ASSUME IInv, Start PROVE IInv'
BY DEF Start, collecting, flushing, IInv, TypeOK, NothingLost, WorkOK, CleanOK

LEMMA HeartbeatStep == ASSUME IInv, Heartbeat PROVE IInv'
<1>1. entries = <<>> /\ inHand = None /\ pc = "beat"
  BY DEF Heartbeat, IInv, WorkOK
<1>2. CASE BreakOff(Beat, {})
  BY <1>1, <1>2, EmptyRange, BreakOffStep
<1>3. CASE /\ pc' = "read"
           /\ \/ UNCHANGED <<buffer, clean, dropped>>
              \/ BufferPayload(Beat) /\ clean' = FALSE
           /\ UNCHANGED <<collecting, seen, inHand, flushing, accepted>>
  <2>1. /\ buffer' \in Seq(Payloads \cup {Torn})
        /\ dropped' \subseteq Batches /\ dropped \subseteq dropped'
        /\ Range(buffer) \subseteq Range(buffer')
        /\ clean' \in BOOLEAN
    <3>1. CASE UNCHANGED <<buffer, clean, dropped>>
      BY <3>1 DEF IInv, TypeOK
    <3>2. CASE BufferPayload(Beat) /\ clean' = FALSE
      BY <3>2, BufferPayloadFacts DEF IInv, Payloads
    <3> QED
      BY <1>3, <3>1, <3>2
  <2>2. /\ pc' = "read" /\ flows' = flows /\ written' = written /\ seen' = seen
        /\ inHand' = inHand /\ entries' = entries /\ remaining' = remaining
        /\ accepted' = accepted
    BY <1>3 DEF collecting, flushing
  <2>3. TypeOK'
    BY <2>1, <2>2 DEF IInv, TypeOK
  <2>4. NothingLost'
    BY <2>1, <2>2 DEF IInv, NothingLost
  <2> QED
    BY <1>1, <2>2, <2>3, <2>4 DEF IInv, WorkOK, CleanOK
<1> QED
  BY <1>2, <1>3 DEF Heartbeat

LEMMA ExtractFlowsStep == ASSUME IInv, ExtractFlows PROVE IInv'
<1>1. /\ pc = "read" /\ flows' = flows /\ written' = written /\ buffer' = buffer
      /\ entries' = entries /\ remaining' = remaining /\ accepted' = accepted
      /\ dropped' = dropped
  BY DEF ExtractFlows, collecting, flushing
<1>2. inHand = None /\ entries = <<>> /\ remaining = <<>>
  BY <1>1 DEF IInv, WorkOK
<1>3. \/ pc' \in {"flush", "idle"} /\ seen' = seen /\ inHand' = inHand
      \/ pc' = "send" /\ flows # None /\ inHand' = flows /\ seen' = seen \cup {flows}
  BY DEF ExtractFlows
<1>4. clean' \in BOOLEAN
  BY DEF ExtractFlows, IInv, TypeOK
<1>5. flows \in written \cup {None}
  BY DEF IInv, TypeOK
<1>6. TypeOK'
  BY <1>1, <1>3, <1>4, <1>5 DEF IInv, TypeOK
<1>7. NothingLost'
  BY <1>1, <1>2, <1>3, WindowsAgentAssumption DEF IInv, TypeOK, NothingLost
<1> QED
  BY <1>1, <1>2, <1>3, <1>6, <1>7 DEF IInv, WorkOK, CleanOK

LEMMA SendFlowsStep == ASSUME IInv, SendFlows PROVE IInv'
<1>1. /\ pc = "send" /\ inHand \in Batches /\ entries = <<>> /\ remaining = <<>>
  BY DEF SendFlows, IInv, WorkOK, TypeOK
<1>2. CASE BreakOff(inHand, {inHand})
  BY <1>1, <1>2, EmptyRange, BreakOffStep
<1>3. CASE /\ pc' = "flush" /\ inHand' = None
           /\ \/ Accept(inHand) /\ UNCHANGED <<buffer, clean, dropped>>
              \/ MayAccept(inHand) /\ BufferPayload(inHand) /\ clean' = FALSE
           /\ UNCHANGED <<collecting, seen, flushing>>
  <2>1. /\ buffer' \in Seq(Payloads \cup {Torn})
        /\ dropped' \subseteq Batches /\ dropped \subseteq dropped'
        /\ Range(buffer) \subseteq Range(buffer')
        /\ clean' \in BOOLEAN
        /\ accepted \subseteq accepted' /\ accepted' \subseteq Batches
        /\ inHand \in accepted' \cup Range(buffer') \cup dropped'
    <3>1. CASE Accept(inHand) /\ UNCHANGED <<buffer, clean, dropped>>
      BY <1>1, <3>1 DEF IInv, TypeOK, Accept
    <3>2. CASE MayAccept(inHand) /\ BufferPayload(inHand) /\ clean' = FALSE
      <4>1. accepted \subseteq accepted' /\ accepted' \subseteq Batches
        BY <3>2 DEF IInv, TypeOK, MayAccept, Accept
      <4>2. inHand \in Payloads
        BY <1>1 DEF Payloads
      <4> QED
        BY <1>1, <3>2, <4>1, <4>2, BufferPayloadFacts DEF IInv
    <3> QED
      BY <1>3, <3>1, <3>2
  <2>2. /\ pc' = "flush" /\ flows' = flows /\ written' = written /\ seen' = seen
        /\ inHand' = None /\ entries' = entries /\ remaining' = remaining
    BY <1>3 DEF collecting, flushing
  <2>3. TypeOK'
    BY <2>1, <2>2 DEF IInv, TypeOK
  <2>4. NothingLost'
    BY <2>1, <2>2 DEF IInv, NothingLost
  <2> QED
    BY <1>1, <2>2, <2>3, <2>4 DEF IInv, WorkOK, CleanOK
<1> QED
  BY <1>2, <1>3 DEF SendFlows

LEMMA LoadBufferStep == ASSUME IInv, LoadBuffer PROVE IInv'
<1>1. /\ pc = "flush" /\ flows' = flows /\ written' = written /\ seen' = seen
      /\ inHand' = inHand /\ remaining' = remaining /\ accepted' = accepted
      /\ dropped' = dropped
  BY DEF LoadBuffer, collecting
<1>2. inHand = None /\ entries = <<>> /\ remaining = <<>>
  BY <1>1 DEF IInv, WorkOK
<1>3. CASE /\ Torn \notin Range(buffer)
           /\ entries' = buffer /\ buffer' = <<>> /\ UNCHANGED clean
           /\ pc' = IF buffer = <<>> THEN "idle" ELSE "resend"
  <2>1. buffer \in Seq(Payloads)
    BY <1>3, Without DEF IInv, TypeOK
  <2>2. TypeOK'
    BY <1>1, <1>3, <2>1, EmptyRange DEF IInv, TypeOK
  <2>3. NothingLost'
    BY <1>1, <1>2, <1>3, EmptyRange DEF IInv, NothingLost
  <2> QED
    BY <1>1, <1>2, <1>3, <2>2, <2>3 DEF IInv, WorkOK, CleanOK
<1>4. CASE pc' = "idle" /\ clean' = FALSE /\ UNCHANGED <<buffer, entries>>
  BY <1>1, <1>2, <1>4 DEF IInv, TypeOK, NothingLost, WorkOK, CleanOK
<1> QED
  BY <1>3, <1>4 DEF LoadBuffer

LEMMA ResendStep == ASSUME IInv, Resend PROVE IInv'
<1> DEFINE e == Head(entries)
<1>1. pc = "resend" /\ entries # <<>> /\ inHand = None
  BY DEF Resend, IInv, WorkOK
<1>2. /\ e \in Payloads
      /\ Tail(entries) \in Seq(Payloads)
      /\ Range(entries) \subseteq Range(Tail(entries)) \cup {e}
  BY <1>1, HeadTail DEF IInv, TypeOK
<1>3. CASE BreakOff(Head(entries), Range(entries))
  BY <1>1, <1>3, BreakOffStep
<1>4. CASE /\ entries' = Tail(entries)
           /\ \/ Accept(e) /\ UNCHANGED <<buffer, remaining, clean>>
              \/ /\ MayAccept(e)
                 /\ buffer' = Append(buffer, e)
                 /\ remaining' = Append(remaining, e)
                 /\ clean' = FALSE
           /\ UNCHANGED <<pc, collecting, seen, inHand, dropped>>
  <2> HIDE DEF e
  <2>1. /\ buffer' \in Seq(Payloads \cup {Torn}) /\ remaining' \in Seq(Payloads)
        /\ Range(buffer) \subseteq Range(buffer')
        /\ accepted \subseteq accepted' /\ accepted' \subseteq Batches
        /\ e \in Batches => e \in accepted' \cup Range(buffer')
        /\ clean' => clean /\ UNCHANGED <<buffer, remaining>>
        /\ clean' \in BOOLEAN
    <3>1. CASE Accept(e) /\ UNCHANGED <<buffer, remaining, clean>>
      BY <3>1 DEF IInv, TypeOK, Accept
    <3>2. CASE MayAccept(e) /\ buffer' = Append(buffer, e)
               /\ remaining' = Append(remaining, e) /\ clean' = FALSE
      <4>1. /\ Append(buffer, e) \in Seq(Payloads \cup {Torn})
            /\ Range(Append(buffer, e)) = Range(buffer) \cup {e}
        <5>1. buffer \in Seq(Payloads \cup {Torn}) /\ e \in Payloads \cup {Torn}
          BY <1>2 DEF IInv, TypeOK
        <5> QED
          BY <5>1, AppendRange
      <4>2. Append(remaining, e) \in Seq(Payloads)
        <5>1. remaining \in Seq(Payloads)
          BY DEF IInv, TypeOK
        <5> QED
          BY <1>2, <5>1, AppendRange
      <4>3. accepted \subseteq accepted' /\ accepted' \subseteq Batches
        BY <3>2 DEF IInv, TypeOK, MayAccept, Accept
      <4> QED
        BY <3>2, <4>1, <4>2, <4>3
    <3> QED
      BY <1>4, <3>1, <3>2
  <2>2. /\ entries' = Tail(entries) /\ pc' = pc /\ flows' = flows /\ written' = written
        /\ seen' = seen /\ inHand' = inHand /\ dropped' = dropped
    BY <1>4 DEF collecting
  <2>3. TypeOK'
    BY <1>2, <2>1, <2>2 DEF IInv, TypeOK
  <2>4. NothingLost'
    <3>1. seen \subseteq Batches
      BY DEF IInv, TypeOK
    <3> QED
      BY <1>2, <2>1, <2>2, <3>1 DEF IInv, NothingLost
  <2> QED
    BY <1>1, <2>1, <2>2, <2>3, <2>4 DEF IInv, WorkOK, CleanOK
<1> QED
  BY <1>3, <1>4 DEF Resend

LEMMA WriteBackStep == ASSUME IInv, WriteBack PROVE IInv'
<1>1. /\ pc = "resend" /\ pc' = "idle" /\ entries = <<>> /\ entries' = <<>>
      /\ remaining' = <<>> /\ flows' = flows /\ written' = written /\ seen' = seen
      /\ inHand' = inHand /\ accepted' = accepted /\ clean' = clean /\ dropped' = dropped
      /\ buffer' = buffer \o remaining
  BY DEF WriteBack, collecting
<1>2. buffer' \in Seq(Payloads \cup {Torn}) /\ Range(buffer) \subseteq Range(buffer')
  <2>1. buffer \in Seq(Payloads \cup {Torn}) /\ remaining \in Seq(Payloads)
    BY DEF IInv, TypeOK
  <2>2. remaining \in Seq(Payloads \cup {Torn})
    BY <2>1, Wider
  <2> QED
    BY <1>1, <2>1, <2>2, ConcatRange
<1>3. TypeOK'
  BY <1>1, <1>2, EmptyRange DEF IInv, TypeOK
<1>4. NothingLost'
  BY <1>1, <1>2 DEF IInv, NothingLost
<1> QED
  BY <1>1, <1>3, <1>4 DEF IInv, WorkOK, CleanOK

LEMMA WriteBackKilledStep == ASSUME IInv, WriteBackKilled PROVE IInv'
<1>1. /\ pc = "resend" /\ pc' = "idle" /\ entries = <<>> /\ entries' = <<>>
      /\ remaining' = <<>> /\ flows' = flows /\ written' = written /\ seen' = seen
      /\ inHand = None /\ inHand' = None /\ accepted' = accepted /\ clean' = FALSE
      /\ dropped' = dropped
  BY DEF WriteBackKilled, End, collecting, IInv, WorkOK
<1>2. buffer' \in Seq(Payloads \cup {Torn}) /\ Range(buffer) \subseteq Range(buffer')
  <2>1. /\ buffer \in Seq(Payloads \cup {Torn}) /\ remaining \in Seq(Payloads)
        /\ Torn \in Payloads \cup {Torn}
    BY DEF IInv, TypeOK
  <2>2. PICK n \in 0..(Len(remaining) - 1) :
          \/ buffer' = buffer \o SubSeq(remaining, 1, n)
          \/ buffer' = Append(buffer \o SubSeq(remaining, 1, n), Torn)
    BY DEF WriteBackKilled
  <2> DEFINE part == buffer \o SubSeq(remaining, 1, n)
  <2>3. part \in Seq(Payloads \cup {Torn}) /\ Range(buffer) \subseteq Range(part)
    <3>1. SubSeq(remaining, 1, n) \in Seq(Payloads)
      BY <2>1, Prefix
    <3>2. SubSeq(remaining, 1, n) \in Seq(Payloads \cup {Torn})
      BY <3>1, Wider
    <3> QED
      BY <2>1, <3>2, ConcatRange
  <2> HIDE DEF part
  <2>4. /\ Append(part, Torn) \in Seq(Payloads \cup {Torn})
        /\ Range(Append(part, Torn)) = Range(part) \cup {Torn}
    BY <2>1, <2>3, AppendRange
  <2>5. buffer' = part \/ buffer' = Append(part, Torn)
    BY <2>2 DEF part
  <2> QED
    BY <2>3, <2>4, <2>5
<1>3. TypeOK'
  BY <1>1, <1>2, EmptyRange DEF IInv, TypeOK
<1>4. NothingLost'
  BY <1>1, <1>2 DEF IInv, NothingLost
<1> QED
  BY <1>1, <1>3, <1>4 DEF IInv, WorkOK, CleanOK

LEMMA NextIInv == IInv /\ [Next]_vars => IInv'
<1> SUFFICES ASSUME IInv, [Next]_vars
             PROVE  IInv'
  OBVIOUS
<1>1. CASE UNCHANGED vars
  BY <1>1 DEF vars, IInv, TypeOK, NothingLost, WorkOK, CleanOK
<1>2. CASE Next
  BY <1>2, CollectStep, StartStep, HeartbeatStep, ExtractFlowsStep, SendFlowsStep,
     LoadBufferStep, ResendStep, WriteBackStep, WriteBackKilledStep DEF Next, Run
<1> QED
  BY <1>1, <1>2

-----------------------------------------------------------------------------
\* The inductive invariant holds in every reachable state.
THEOREM Invariance == Spec => []IInv
BY InitIInv, NextIInv, PTL DEF Spec

\* Type correctness: no line that cannot be parsed is ever worked on.
THEOREM TypeCorrect == Spec => []TypeOK
<1>1. IInv => TypeOK
  BY DEF IInv
<1> QED
  BY <1>1, Invariance, PTL

\* A batch the agent has read is lost only with the memory of a process that ends, or
\* behind a torn line.
THEOREM BatchesAreKept == Spec => []NothingLost
<1>1. IInv => NothingLost
  BY DEF IInv
<1> QED
  BY <1>1, Invariance, PTL

\* A run in which every payload was sent leaves an empty buffer.
THEOREM CleanRunsDrain == Spec => CleanRunDrains
<1>1. ASSUME IInv, [Next]_vars, pc # "idle", pc' = "idle", clean'
      PROVE  buffer' = <<>>
  <2>1. \/ LoadBuffer \/ WriteBack
    BY <1>1 DEF vars, Next, Run, Collect, Start, Heartbeat, ExtractFlows, SendFlows, Resend,
                WriteBackKilled, BreakOff, End
  <2>2. CASE LoadBuffer
    BY <1>1, <2>2 DEF LoadBuffer
  <2>3. CASE WriteBack
    <3>1. buffer = <<>> /\ remaining = <<>> /\ buffer' = buffer \o remaining
      BY <1>1, <2>3 DEF WriteBack, IInv, CleanOK
    <3> QED
      BY <3>1
  <2> QED
    BY <2>1, <2>2, <2>3
<1>2. IInv /\ [Next]_vars => [pc # "idle" /\ pc' = "idle" /\ clean' => buffer' = <<>>]_vars
  BY <1>1
<1> QED
  BY <1>2, Invariance, PTL DEF Spec, CleanRunDrains

-----------------------------------------------------------------------------
(* The agent stores and forwards.                                          *)

\* A line that will be written back is in the buffer already.
KeptTwice == Range(remaining) \subseteq Range(buffer)

LEMMA ConcatParts ==
  ASSUME NEW S, NEW s \in Seq(S), NEW r \in Seq(S)
  PROVE  Range(s \o r) = Range(s) \cup Range(r)
<1>1. /\ Len(s) \in Nat /\ Len(r) \in Nat /\ DOMAIN s = 1..Len(s) /\ DOMAIN r = 1..Len(r)
      /\ DOMAIN (s \o r) = 1..(Len(s) + Len(r))
      /\ \A i \in 1..Len(s) : (s \o r)[i] = s[i]
      /\ \A i \in 1..Len(r) : (s \o r)[Len(s) + i] = r[i]
  OBVIOUS
<1>2. Range(s) \subseteq Range(s \o r)
  BY <1>1 DEF Range
<1>3. ASSUME NEW j \in 1..Len(r)
      PROVE  r[j] \in Range(s \o r)
  <2>1. Len(s) + j \in 1..(Len(s) + Len(r)) /\ (s \o r)[Len(s) + j] = r[j]
    BY <1>1
  <2> QED
    BY <1>1, <2>1 DEF Range
<1>4. ASSUME NEW i \in 1..(Len(s) + Len(r))
      PROVE  (s \o r)[i] \in Range(s) \cup Range(r)
  <2>1. CASE i \in 1..Len(s)
    BY <1>1, <2>1 DEF Range
  <2>2. CASE i \notin 1..Len(s)
    <3>1. i - Len(s) \in 1..Len(r) /\ Len(s) + (i - Len(s)) = i
      BY <1>1, <2>2
    <3>2. (s \o r)[i] = r[i - Len(s)]
      BY <1>1, <3>1
    <3> QED
      BY <1>1, <3>1, <3>2 DEF Range
  <2> QED
    BY <2>1, <2>2
<1> QED
  BY <1>1, <1>2, <1>3, <1>4 DEF Range

LEMMA PartRange ==
  ASSUME NEW S, NEW s \in Seq(S)
  PROVE  /\ s # <<>> => Range(Tail(s)) \subseteq Range(s)
         /\ \A n \in 0..(Len(s) - 1) : Range(SubSeq(s, 1, n)) \subseteq Range(s)
<1>1. Len(s) \in Nat /\ DOMAIN s = 1..Len(s)
  OBVIOUS
<1>2. ASSUME s # <<>>
      PROVE  Range(Tail(s)) \subseteq Range(s)
  <2>1. /\ DOMAIN Tail(s) = 1..(Len(s) - 1)
        /\ \A i \in 1..(Len(s) - 1) : Tail(s)[i] = s[i + 1] /\ i + 1 \in 1..Len(s)
    BY <1>1, <1>2
  <2> QED
    BY <1>1, <2>1 DEF Range
<1>3. ASSUME NEW n \in 0..(Len(s) - 1)
      PROVE  Range(SubSeq(s, 1, n)) \subseteq Range(s)
  <2>1. /\ DOMAIN SubSeq(s, 1, n) = 1..n
        /\ \A i \in 1..n : SubSeq(s, 1, n)[i] = s[i] /\ i \in 1..Len(s)
    BY <1>1, <1>3
  <2> QED
    BY <1>1, <2>1 DEF Range
<1> QED
  BY <1>2, <1>3

\* The three lists of lines, with their types.
LEMMA ListFacts ==
  ASSUME TypeOK
  PROVE  /\ buffer \in Seq(Payloads \cup {Torn})
         /\ entries \in Seq(Payloads) /\ remaining \in Seq(Payloads \cup {Torn})
         /\ Range(entries) \subseteq Payloads
<1>1. /\ buffer \in Seq(Payloads \cup {Torn}) /\ entries \in Seq(Payloads)
      /\ remaining \in Seq(Payloads)
  BY DEF TypeOK
<1>2. Range(entries) \subseteq Payloads
  <2>1. CASE entries = <<>>
    BY <2>1, EmptyRange
  <2>2. CASE entries # <<>>
    BY <1>1, <2>2, HeadTail
  <2> QED
    BY <2>1, <2>2
<1> QED
  BY <1>1, <1>2, Wider

\* What _buffer_payload does to the lines.
LEMMA BufferedLines ==
  ASSUME TypeOK, NEW p \in Payloads, BufferPayload(p)
  PROVE  \/ Range(buffer') = Range(buffer) \cup {p} /\ dropped' = dropped
         \/ Range(buffer') = Range(buffer) /\ dropped' = dropped \cup ({p} \cap Batches)
<1>1. buffer \in Seq(Payloads \cup {Torn}) /\ p \in Payloads \cup {Torn}
  BY ListFacts
<1>2. Range(Append(buffer, p)) = Range(buffer) \cup {p}
  BY <1>1, AppendRange
<1> QED
  BY <1>2 DEF BufferPayload

LEMMA BrokenOffLines ==
  ASSUME TypeOK, NEW p, NEW memory, BreakOff(p, memory)
  PROVE  Range(buffer') \in {Range(buffer), Range(buffer) \cup {Torn}}
<1>1. buffer \in Seq(Payloads \cup {Torn}) /\ Torn \in Payloads \cup {Torn}
  BY ListFacts
<1>2. Range(Append(buffer, Torn)) = Range(buffer) \cup {Torn}
  BY <1>1, AppendRange
<1>3. buffer' = buffer \/ buffer' = Append(buffer, Torn)
  BY DEF BreakOff
<1> QED
  BY <1>2, <1>3

\* What flush_buffer appends to the buffer and to the remaining lines.
LEMMA ResentLines ==
  ASSUME TypeOK, NEW e \in Payloads
  PROVE  /\ Range(Append(buffer, e)) = Range(buffer) \cup {e}
         /\ Range(Append(remaining, e)) = Range(remaining) \cup {e}
<1>1. /\ buffer \in Seq(Payloads \cup {Torn}) /\ remaining \in Seq(Payloads \cup {Torn})
      /\ e \in Payloads \cup {Torn}
  BY ListFacts
<1> QED
  BY <1>1, AppendRange

LEMMA KeptTwiceStep ==
  ASSUME IInv, KeptTwice, [Next]_vars
  PROVE  KeptTwice'
<1> USE EmptyRange
<1>0. TypeOK /\ (pc # "resend" => remaining = <<>>)
  BY DEF IInv, WorkOK
<1>1. CASE Collect \/ Start \/ ExtractFlows \/ UNCHANGED vars
  BY <1>1 DEF Collect, Start, ExtractFlows, flushing, vars, KeptTwice
<1>2. CASE Heartbeat \/ SendFlows \/ LoadBuffer \/ WriteBack \/ WriteBackKilled
  <2>1. remaining' = <<>>
    BY <1>0, <1>2 DEF Heartbeat, SendFlows, LoadBuffer, WriteBack, WriteBackKilled, BreakOff,
                      End, flushing
  <2> QED
    BY <2>1 DEF KeptTwice
<1>3. CASE Resend
  <2> DEFINE e == Head(entries)
  <2>1. e \in Payloads
    BY <1>0, <1>3, ListFacts, HeadTail DEF Resend
  <2>2. \/ remaining' = <<>>
        \/ UNCHANGED <<buffer, remaining>>
        \/ buffer' = Append(buffer, e) /\ remaining' = Append(remaining, e)
    BY <1>3 DEF Resend, BreakOff, End
  <2> HIDE DEF e
  <2> QED
    BY <1>0, <2>1, <2>2, ResentLines DEF KeptTwice
<1> QED
  BY <1>1, <1>2, <1>3 DEF Next, Run

\* A step in which the agent reads nothing, and the server accepts at most one payload.
LEMMA LetGoStep ==
  ASSUME seen' = seen, NEW p \in Payloads,
         MayAccept(p), p \in Batches => p \in Held,
         Held' \subseteq Held, Held \ Held' \subseteq accepted' \cup dropped',
         dropped \subseteq dropped', dropped' \subseteq dropped \cup Held
  PROVE  Promise!Next
<1>1. CASE accepted' = accepted
  BY <1>1 DEF Promise!Next, Promise!Forget, Promise!LetGo
<1>2. CASE accepted' # accepted
  <2>1. p \in Batches /\ accepted' = accepted \cup {p}
    BY <1>2 DEF MayAccept, Accept
  <2> QED
    BY <2>1 DEF Promise!Next, Promise!Deliver, Promise!LetGo
<1> QED
  BY <1>1, <1>2

LEMMA BreakOffLetsGo ==
  ASSUME IInv, NEW p \in Payloads, p \in Batches => p \in Held,
         NEW memory, BreakOff(p, memory),
         memory \cap Batches = Batches \cap (Range(entries) \cup {inHand})
  PROVE  Promise!Next
<1>1. /\ seen' = seen /\ MayAccept(p) /\ inHand' = None /\ entries' = <<>>
      /\ dropped' = dropped \cup (memory \cap Batches)
  BY DEF BreakOff, End
<1>2. Range(buffer') \in {Range(buffer), Range(buffer) \cup {Torn}}
  BY BrokenOffLines DEF IInv
<1>3. Held' = Batches \cap Range(buffer)
  BY <1>1, <1>2, EmptyRange, WindowsAgentAssumption DEF Held
<1>4. /\ Held' \subseteq Held /\ Held \ Held' \subseteq dropped'
      /\ dropped \subseteq dropped' /\ dropped' \subseteq dropped \cup Held
  BY <1>1, <1>3 DEF Held
<1> QED
  BY <1>1, <1>4, LetGoStep

\* Steps outside the agent, and steps that send nothing.
LEMMA LocalSteps ==
  ASSUME IInv, KeptTwice,
         Collect \/ Start \/ ExtractFlows \/ LoadBuffer \/ WriteBack \/ WriteBackKilled
  PROVE  Promise!Next
<1>0. TypeOK
  BY DEF IInv
<1>1. CASE Collect \/ Start
  <2>1. Held' = Held /\ UNCHANGED <<seen, accepted, dropped>>
    BY <1>1 DEF Collect, Start, flushing, Held
  <2> QED
    BY <2>1 DEF Promise!Next, Promise!Forget, Promise!LetGo
<1>2. CASE ExtractFlows
  <2>1. /\ pc = "read" /\ UNCHANGED <<buffer, entries, accepted, dropped>>
        /\ \/ UNCHANGED <<seen, inHand>>
           \/ flows # None /\ inHand' = flows /\ seen' = seen \cup {flows}
    BY <1>2 DEF ExtractFlows, flushing
  <2>2. inHand = None /\ None \notin Batches
    BY <2>1, WindowsAgentAssumption DEF IInv, WorkOK
  <2>3. CASE UNCHANGED <<seen, inHand>>
    <3>1. Held' = Held
      BY <2>1, <2>3 DEF Held
    <3> QED
      BY <2>1, <2>3, <3>1 DEF Promise!Next, Promise!Forget, Promise!LetGo
  <2>4. CASE flows # None /\ inHand' = flows /\ seen' = seen \cup {flows}
    <3>1. flows \in Batches
      BY <1>0, <2>4 DEF TypeOK
    <3>2. Held' = Held \cup {flows}
      BY <2>1, <2>2, <2>4, <3>1 DEF Held
    <3> QED
      BY <2>1, <2>4, <3>1, <3>2 DEF Promise!Next, Promise!Read
  <2> QED
    BY <2>1, <2>3, <2>4
<1>3. CASE LoadBuffer \/ WriteBack \/ WriteBackKilled
  <2>1. /\ UNCHANGED <<seen, accepted, dropped>>
        /\ inHand' = None /\ inHand = None
    BY <1>3 DEF LoadBuffer, WriteBack, WriteBackKilled, End, IInv, WorkOK
  <2>2. Batches \cap (Range(buffer') \cup Range(entries'))
          = Batches \cap (Range(buffer) \cup Range(entries))
    <3>1. CASE LoadBuffer
      <4>1. entries = <<>>
        BY <3>1 DEF LoadBuffer, IInv, WorkOK
      <4>2. \/ entries' = buffer /\ buffer' = <<>>
            \/ UNCHANGED <<buffer, entries>>
        BY <3>1 DEF LoadBuffer
      <4> QED
        BY <4>1, <4>2, EmptyRange
    <3>2. CASE WriteBack
      <4>1. entries' = entries /\ buffer' = buffer \o remaining
        BY <3>2 DEF WriteBack
      <4>2. Range(buffer \o remaining) = Range(buffer) \cup Range(remaining)
        BY <1>0, ListFacts, ConcatParts
      <4> QED
        BY <4>1, <4>2 DEF KeptTwice
    <3>3. CASE WriteBackKilled
      <4>1. entries = <<>> /\ entries' = <<>>
        BY <3>3 DEF WriteBackKilled, End
      <4>2. PICK n \in 0..(Len(remaining) - 1) :
              \/ buffer' = buffer \o SubSeq(remaining, 1, n)
              \/ buffer' = Append(buffer \o SubSeq(remaining, 1, n), Torn)
        BY <3>3 DEF WriteBackKilled
      <4> DEFINE part == SubSeq(remaining, 1, n)
      <4>3. part \in Seq(Payloads \cup {Torn}) /\ Range(part) \subseteq Range(remaining)
        BY <1>0, ListFacts, Prefix, PartRange
      <4>4. buffer' = buffer \o part \/ buffer' = Append(buffer \o part, Torn)
        BY <4>2
      <4> HIDE DEF part
      <4>5. /\ buffer \o part \in Seq(Payloads \cup {Torn})
            /\ Range(buffer \o part) = Range(buffer)
        <5>1. Range(buffer \o part) = Range(buffer) \cup Range(part)
              /\ buffer \o part \in Seq(Payloads \cup {Torn})
          BY <1>0, <4>3, ListFacts, ConcatParts, ConcatRange
        <5> QED
          BY <4>3, <5>1 DEF KeptTwice
      <4> DEFINE whole == buffer \o part
      <4>6. /\ buffer' = whole \/ buffer' = Append(whole, Torn)
            /\ whole \in Seq(Payloads \cup {Torn}) /\ Range(whole) = Range(buffer)
            /\ Torn \in Payloads \cup {Torn} /\ Torn \notin Batches
        BY <4>4, <4>5, WindowsAgentAssumption
      <4> HIDE DEF whole
      <4>7. Range(Append(whole, Torn)) = Range(whole) \cup {Torn}
        BY <4>6, AppendRange
      <4> QED
        BY <4>1, <4>6, <4>7
    <3> QED
      BY <1>3, <3>1, <3>2, <3>3
  <2>3. Held' = Held
    BY <2>1, <2>2 DEF Held
  <2> QED
    BY <2>1, <2>3 DEF Promise!Next, Promise!Forget, Promise!LetGo
<1> QED
  BY <1>1, <1>2, <1>3

LEMMA HeartbeatLetsGo == ASSUME IInv, Heartbeat PROVE Promise!Next
<1>1. pc = "beat" /\ TypeOK /\ Beat \in Payloads /\ Beat \notin Batches /\ None \notin Batches
  BY WindowsAgentAssumption DEF Heartbeat, IInv, Payloads
<1>2. inHand = None /\ entries = <<>>
  BY <1>1 DEF IInv, WorkOK
<1>3. CASE BreakOff(Beat, {})
  <2>1. {} \cap Batches = Batches \cap (Range(entries) \cup {inHand})
    BY <1>1, <1>2, EmptyRange
  <2> QED
    BY <1>1, <1>3, <2>1, BreakOffLetsGo
<1>4. CASE /\ UNCHANGED <<buffer, clean, dropped>> \/ BufferPayload(Beat)
           /\ UNCHANGED <<collecting, seen, inHand, flushing, accepted>>
  <2>1. Batches \cap Range(buffer') = Batches \cap Range(buffer) /\ dropped' = dropped
    BY <1>1, <1>4, BufferedLines
  <2>2. Held' = Held
    BY <1>4, <2>1 DEF Held, flushing
  <2> QED
    BY <1>4, <2>1, <2>2 DEF Promise!Next, Promise!Forget, Promise!LetGo
<1> QED
  BY <1>3, <1>4 DEF Heartbeat

LEMMA SendFlowsLetsGo == ASSUME IInv, SendFlows PROVE Promise!Next
<1>1. /\ pc = "send" /\ TypeOK /\ inHand \in Batches /\ inHand \in Payloads
      /\ None \notin Batches
  BY WindowsAgentAssumption DEF SendFlows, IInv, WorkOK, TypeOK, Payloads
<1>2. entries = <<>> /\ inHand \in Held
  BY <1>1 DEF IInv, WorkOK, Held
<1>3. CASE BreakOff(inHand, {inHand})
  <2>1. {inHand} \cap Batches = Batches \cap (Range(entries) \cup {inHand})
    BY <1>2, EmptyRange
  <2> QED
    BY <1>1, <1>2, <1>3, <2>1, BreakOffLetsGo
<1>4. CASE /\ inHand' = None
           /\ \/ Accept(inHand) /\ UNCHANGED <<buffer, clean, dropped>>
              \/ MayAccept(inHand) /\ BufferPayload(inHand)
           /\ UNCHANGED <<collecting, seen, flushing>>
  <2>1. seen' = seen /\ entries' = entries /\ MayAccept(inHand)
    BY <1>4 DEF flushing, MayAccept
  <2>2. \/ Range(buffer') = Range(buffer) /\ inHand \in accepted' /\ dropped' = dropped
        \/ Range(buffer') = Range(buffer) \cup {inHand} /\ dropped' = dropped
        \/ Range(buffer') = Range(buffer) /\ dropped' = dropped \cup {inHand}
    BY <1>1, <1>4, BufferedLines DEF Accept
  <2>3. /\ Held' \subseteq Held /\ Held \ Held' \subseteq accepted' \cup dropped'
        /\ dropped \subseteq dropped' /\ dropped' \subseteq dropped \cup Held
    BY <1>1, <1>2, <1>4, <2>1, <2>2 DEF Held
  <2> QED
    BY <1>1, <1>2, <2>1, <2>3, LetGoStep
<1> QED
  BY <1>3, <1>4 DEF SendFlows

LEMMA ResendLetsGo == ASSUME IInv, Resend PROVE Promise!Next
<1> DEFINE e == Head(entries)
<1>1. pc = "resend" /\ entries # <<>> /\ TypeOK /\ inHand = None /\ None \notin Batches
  BY WindowsAgentAssumption DEF Resend, IInv, WorkOK
<1>2. /\ e \in Payloads /\ e \in Range(entries)
      /\ Range(entries) = Range(Tail(entries)) \cup {e}
  BY <1>1, ListFacts, HeadTail, PartRange
<1>3. CASE BreakOff(e, Range(entries))
  <2>1. e \in Batches => e \in Held
    BY <1>2 DEF Held
  <2>2. Range(entries) \cap Batches = Batches \cap (Range(entries) \cup {inHand})
    BY <1>1
  <2> HIDE DEF e
  <2> QED
    BY <1>2, <1>3, <2>1, <2>2, BreakOffLetsGo
<1>4. CASE /\ entries' = Tail(entries)
           /\ \/ Accept(e) /\ UNCHANGED <<buffer, remaining, clean>>
              \/ /\ MayAccept(e)
                 /\ buffer' = Append(buffer, e)
                 /\ remaining' = Append(remaining, e)
                 /\ clean' = FALSE
           /\ UNCHANGED <<pc, collecting, seen, inHand, dropped>>
  <2> HIDE DEF e
  <2>1. seen' = seen /\ inHand' = inHand /\ dropped' = dropped /\ MayAccept(e)
    BY <1>4 DEF MayAccept
  <2>2. \/ Range(buffer') = Range(buffer) /\ (e \in Batches => e \in accepted')
        \/ Range(buffer') = Range(buffer) \cup {e}
    BY <1>1, <1>2, <1>4, ResentLines DEF Accept
  <2>3. Held' \subseteq Held /\ Held \ Held' \subseteq accepted' \cup dropped'
    BY <1>2, <1>4, <2>1, <2>2 DEF Held
  <2>4. e \in Batches => e \in Held
    BY <1>2 DEF Held
  <2> QED
    BY <1>2, <2>1, <2>3, <2>4, LetGoStep
<1> QED
  BY <1>3, <1>4 DEF Resend

\* The agent stores and forwards: it lets go of a batch only when the server has it, or
\* when the memory of a process that ends or a torn line takes it.
THEOREM StoresAndForwards == Spec => DeliverySpec
<1>1. Init => KeptTwice /\ Promise!Init
  BY EmptyRange, WindowsAgentAssumption DEF Init, KeptTwice, Promise!Init, Held
<1>2. IInv /\ KeptTwice /\ [Next]_vars => KeptTwice' /\ [Promise!Next]_(Promise!vars)
  <2> SUFFICES ASSUME IInv, KeptTwice, [Next]_vars
               PROVE  KeptTwice' /\ [Promise!Next]_(Promise!vars)
    OBVIOUS
  <2>1. CASE UNCHANGED vars
    BY <2>1, KeptTwiceStep DEF vars, Promise!vars, Held
  <2>2. CASE Next
    BY <2>2, KeptTwiceStep, LocalSteps, HeartbeatLetsGo, SendFlowsLetsGo, ResendLetsGo
       DEF Next, Run
  <2> QED
    BY <2>1, <2>2
<1> QED
  BY <1>1, <1>2, Invariance, PTL DEF Spec, DeliverySpec, Promise!Spec
=============================================================================
