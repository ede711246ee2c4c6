---------------------------- MODULE WindowsAgent ----------------------------
(***************************************************************************)
(* backend/agents/windows_agent: one run of agent.py sends a heartbeat,    *)
(* sends the batch it finds in the flow file, and flushes its buffer, a    *)
(* file of one line per payload that could not be sent.  A scheduler runs  *)
(* it again and again; a collector replaces the flow file at any time.     *)
(*                                                                         *)
(* send_payload catches a refusal, a timeout and a reply that is no JSON,  *)
(* and buffers the payload.  It does not catch a connection that breaks    *)
(* off before the status line: that ends the process, like a kill does.    *)
(***************************************************************************)
EXTENDS Naturals, Sequences, SequencesExt

CONSTANTS
  Batches,   \* what the collector writes, each batch once
  Beat,      \* the heartbeat payload
  Torn,      \* a line that was cut short
  None,      \* no batch
  MaxLines,  \* bound on the lines of the buffer when a run begins
  Kills      \* may the process be killed while it writes?

ASSUME WindowsAgentAssumption ==
  /\ None \notin Batches \cup {Beat, Torn}
  /\ Torn \notin Batches \cup {Beat}
  /\ Beat \notin Batches
  /\ MaxLines \in Nat
  /\ Kills \in BOOLEAN

VARIABLES
  pc,         \* where the run stands
  flows,      \* batch in the flow file
  written,    \* batches the collector has written so far
  seen,       \* batches the agent has read so far
  inHand,     \* batch read from the flow file
  buffer,     \* lines of the buffer file
  entries,    \* lines flush_buffer still has to send
  remaining,  \* lines flush_buffer will write back
  accepted,   \* batches the server has accepted
  clean,      \* has every payload of this run been sent so far?
  dropped     \* batches in memory only when the process ended, or put behind a torn line

vars == <<pc, flows, written, seen, inHand, buffer, entries, remaining, accepted, clean, dropped>>
collecting == <<flows, written>>
flushing == <<entries, remaining>>

Init ==
  /\ pc = "idle"
  /\ flows = None /\ written = {} /\ seen = {} /\ inHand = None
  /\ buffer = <<>> /\ entries = <<>> /\ remaining = <<>>
  /\ accepted = {} /\ clean = TRUE /\ dropped = {}

-----------------------------------------------------------------------------
EndsTorn == buffer # <<>> /\ Last(buffer) = Torn

\* _buffer_payload: a line appended behind a torn one becomes part of it.
BufferPayload(payload) ==
  /\ buffer' = IF EndsTorn THEN buffer ELSE Append(buffer, payload)
  /\ dropped' = IF EndsTorn THEN dropped \cup ({payload} \cap Batches) ELSE dropped

Accept(payload) == accepted' = accepted \cup ({payload} \cap Batches)

MayAccept(payload) == Accept(payload) \/ UNCHANGED accepted

\* The process ends: what it had in memory is gone.
End(memory) ==
  /\ pc' = "idle"
  /\ inHand' = None /\ entries' = <<>> /\ remaining' = <<>>
  /\ dropped' = dropped \cup (memory \cap Batches)

\* send_payload breaks off in the request, or is killed while it buffers.
BreakOff(payload, memory) ==
  /\ MayAccept(payload)
  /\ buffer' \in {buffer} \cup (IF Kills /\ ~EndsTorn THEN {Append(buffer, Torn)} ELSE {})
  /\ clean' = FALSE
  /\ End(memory)
  /\ UNCHANGED <<collecting, seen>>

-----------------------------------------------------------------------------
(* The collector and the scheduler.                                        *)

Collect ==
  /\ \E b \in Batches \ written : flows' = b /\ written' = written \cup {b}
  /\ UNCHANGED <<pc, seen, inHand, buffer, flushing, accepted, clean, dropped>>

Start ==
  /\ pc = "idle" /\ Len(buffer) <= MaxLines
  /\ pc' = "beat" /\ clean' = TRUE
  /\ UNCHANGED <<collecting, seen, inHand, buffer, flushing, accepted, dropped>>

-----------------------------------------------------------------------------
(* main: the heartbeat, then the flows.                                    *)

Heartbeat ==
  /\ pc = "beat"
  /\ \/ /\ pc' = "read"
        /\ \/ UNCHANGED <<buffer, clean, dropped>>
           \/ BufferPayload(Beat) /\ clean' = FALSE
        /\ UNCHANGED <<collecting, seen, inHand, flushing, accepted>>
     \/ BreakOff(Beat, {})

\* The flow file is left as it is, so that the next run sends its batch again.  A
\* file that does not parse, such as one the collector is writing, ends the run.
ExtractFlows ==
  /\ pc = "read"
  /\ \/ /\ flows = None
        /\ pc' = "flush"
        /\ UNCHANGED <<seen, inHand, clean>>
     \/ /\ flows # None
        /\ inHand' = flows /\ seen' = seen \cup {flows}
        /\ pc' = "send"
        /\ UNCHANGED clean
     \/ /\ pc' = "idle"
        /\ clean' = FALSE
        /\ UNCHANGED <<seen, inHand>>
  /\ UNCHANGED <<collecting, buffer, flushing, accepted, dropped>>

SendFlows ==
  /\ pc = "send"
  /\ \/ /\ pc' = "flush" /\ inHand' = None
        /\ \/ Accept(inHand) /\ UNCHANGED <<buffer, clean, dropped>>
           \/ MayAccept(inHand) /\ BufferPayload(inHand) /\ clean' = FALSE
        /\ UNCHANGED <<collecting, seen, flushing>>
     \/ BreakOff(inHand, {inHand})

-----------------------------------------------------------------------------
(* flush_buffer.                                                           *)

\* Mutant: a line that does not parse is taken for a payload.
LoadBufferUnparsed ==
  /\ pc = "flush"
  /\ entries' = buffer /\ buffer' = <<>> /\ UNCHANGED clean
  /\ pc' = IF buffer = <<>> THEN "idle" ELSE "resend"
  /\ UNCHANGED <<collecting, seen, inHand, remaining, accepted, dropped>>

\* Mutant: the buffer is read and not removed.
LoadBufferKeep ==
  /\ pc = "flush"
  /\ \/ /\ Torn \notin Range(buffer)
        /\ entries' = buffer /\ UNCHANGED <<buffer, clean>>
        /\ pc' = IF buffer = <<>> THEN "idle" ELSE "resend"
     \/ /\ Torn \in Range(buffer) \/ Kills
        /\ pc' = "idle" /\ clean' = FALSE
        /\ UNCHANGED <<buffer, entries>>
  /\ UNCHANGED <<collecting, seen, inHand, remaining, accepted, dropped>>

\* Reads every line and removes the file; a torn line, or a kill, ends the run before.
LoadBuffer ==
  /\ pc = "flush"
  /\ \/ /\ Torn \notin Range(buffer)
        /\ entries' = buffer /\ buffer' = <<>> /\ UNCHANGED clean
        /\ pc' = IF buffer = <<>> THEN "idle" ELSE "resend"
     \/ /\ Torn \in Range(buffer) \/ Kills
        /\ pc' = "idle" /\ clean' = FALSE
        /\ UNCHANGED <<buffer, entries>>
  /\ UNCHANGED <<collecting, seen, inHand, remaining, accepted, dropped>>

\* Mutant: flush_buffer alone keeps a line that fails again.
ResendOnceKept ==
  /\ pc = "resend" /\ entries # <<>>
  /\ \/ /\ entries' = Tail(entries)
        /\ \/ Accept(Head(entries)) /\ UNCHANGED <<buffer, remaining, clean>>
           \/ /\ MayAccept(Head(entries))
              /\ remaining' = Append(remaining, Head(entries))
              /\ clean' = FALSE /\ UNCHANGED buffer
        /\ UNCHANGED <<pc, collecting, seen, inHand, dropped>>
     \/ BreakOff(Head(entries), Range(entries))

\* A line that fails again is kept twice: by send_payload and for the end.
Resend ==
  /\ pc = "resend" /\ entries # <<>>
  /\ \/ /\ entries' = Tail(entries)
        /\ \/ Accept(Head(entries)) /\ UNCHANGED <<buffer, remaining, clean>>
           \/ /\ MayAccept(Head(entries))
              /\ buffer' = Append(buffer, Head(entries))
              /\ remaining' = Append(remaining, Head(entries))
              /\ clean' = FALSE
        /\ UNCHANGED <<pc, collecting, seen, inHand, dropped>>
     \/ BreakOff(Head(entries), Range(entries))

WriteBack ==
  /\ pc = "resend" /\ entries = <<>>
  /\ buffer' = buffer \o remaining
  /\ remaining' = <<>>
  /\ pc' = "idle"
  /\ UNCHANGED <<collecting, seen, inHand, entries, accepted, clean, dropped>>

\* Killed while it writes back: the remaining lines are in the file already.
WriteBackKilled ==
  /\ Kills
  /\ pc = "resend" /\ entries = <<>> /\ remaining # <<>>
  /\ \E n \in 0..(Len(remaining) - 1) :
       LET part == buffer \o SubSeq(remaining, 1, n) IN
       buffer' \in {part, Append(part, Torn)}
  /\ clean' = FALSE
  /\ End({})
  /\ UNCHANGED <<collecting, seen, accepted>>

Run ==
  Heartbeat \/ ExtractFlows \/ SendFlows \/ LoadBuffer \/ Resend \/ WriteBack \/ WriteBackKilled

Next == Collect \/ Start \/ Run

Spec == Init /\ [][Next]_vars
-----------------------------------------------------------------------------
(* Properties.                                                             *)

Payloads == Batches \cup {Beat}

\* Every variable keeps to its domain.
TypeOK ==
  /\ pc \in {"idle", "beat", "read", "send", "flush", "resend"}
  /\ written \subseteq Batches /\ flows \in written \cup {None}
  /\ seen \subseteq written /\ inHand \in Batches \cup {None}
  /\ buffer \in Seq(Payloads \cup {Torn})
  /\ entries \in Seq(Payloads) /\ remaining \in Seq(Payloads)
  /\ accepted \subseteq Batches /\ dropped \subseteq Batches
  /\ clean \in BOOLEAN

\* A batch the agent has read is with the server, in the buffer or being worked on;
\* it is lost only where `dropped` says.  In particular a kill while the remaining lines
\* are written back loses none of them.
NothingLost ==
  \A b \in seen :
    \/ b \in accepted \cup dropped
    \/ b \in Range(buffer) \cup Range(entries)
    \/ b = inHand

\* The batches the agent has, in its buffer, in the lines it works on or in hand.
Held == Batches \cap (Range(buffer) \cup Range(entries) \cup {inHand})

Promise == INSTANCE Delivery WITH
  Rereads <- TRUE, Losses <- TRUE,
  read <- seen, held <- Held, delivered <- accepted, lost <- dropped

\* The agent stores and forwards: no step of it, the flush that removes the buffer and
\* writes it anew included, lets go of a batch the server has not accepted without a
\* note in `dropped`.
DeliverySpec == Promise!Spec

\* A run in which every payload was sent leaves no backlog.
CleanRunDrains ==
  [][pc # "idle" /\ pc' = "idle" /\ clean' => buffer' = <<>>]_vars
=============================================================================
