------------------------------- MODULE Delivery -------------------------------
(***************************************************************************)
(* What both agents promise of the batches they read: store and forward.   *)
(* A batch stays with the agent until the server has accepted it, or until *)
(* it is lost where losses are admitted; nothing else reaches the server.  *)
(* SensorAgent.tla and WindowsAgent.tla, each with its own file and its    *)
(* own way to work it off, are shown to implement this.                    *)
(***************************************************************************)
CONSTANTS
  Batches,  \* what can be read
  Rereads,  \* may a batch be read more than once?
  Losses    \* may a batch be lost?

VARIABLES
  read,       \* batches the agent has read
  held,       \* batches it has in its file or in hand
  delivered,  \* batches the server has accepted
  lost        \* batches that were lost on the way

vars == <<read, held, delivered, lost>>

Init == read = {} /\ held = {} /\ delivered = {} /\ lost = {}

Read(b) ==
  /\ b \notin read \/ Rereads
  /\ read' = read \cup {b}
  /\ held' = held \cup {b}
  /\ UNCHANGED <<delivered, lost>>

\* The agent lets go only of what is delivered or lost, and loses only what it held.
LetGo ==
  /\ held' \subseteq held
  /\ held \ held' \subseteq delivered' \cup lost'
  /\ lost \subseteq lost' /\ lost' \subseteq lost \cup held
  /\ ~Losses => lost' = lost

\* The server accepts one of the batches; the agent may not learn of it.
Deliver(b) ==
  /\ b \in held
  /\ delivered' = delivered \cup {b}
  /\ LetGo
  /\ UNCHANGED read

Forget == LetGo /\ UNCHANGED <<read, delivered>>

Next == Forget \/ \E b \in Batches : Read(b) \/ Deliver(b)

Spec == Init /\ [][Next]_vars
=============================================================================
