----------------------------- MODULE PageViews -----------------------------
(***************************************************************************)
(* One tab of the application: the page it shows, the handlers of the page *)
(* that wait for an answer, and which panels show what the page's objects  *)
(* hold now.  Between two awaits a handler runs alone; any handler may run *)
(* while others wait.  Opening a page replaces the document: its script    *)
(* starts anew and the handlers of the last page are gone.                 *)
(***************************************************************************)
EXTENDS PageTables, Naturals

CONSTANTS
    Slots,      \* bound: handlers that wait together
    Idle        \* no handler waits

ASSUME IdleAssumption ==
    Idle \notin [handler : UNION {DOMAIN Handlers[p] : p \in Pages}, at : Nat]

VARIABLES
    page,       \* the page shown
    fresh,      \* its panels that show the present state of all they read
    running     \* the handlers that wait, and the segment each has done

views == <<page, fresh, running>>

Handler(p, h) == Handlers[p][h]

ViewsTypeOK ==
    /\ page \in Pages
    /\ fresh \subseteq DOMAIN Panels[page]
    /\ \A s \in Slots : running[s] # Idle =>
         /\ running[s].handler \in DOMAIN Handlers[page]
         /\ running[s].at \in 1 .. Len(Handler(page, running[s].handler)) - 1

\* The panels that read a field of writes.
Reading(p, writes) == {v \in DOMAIN Panels[p] : Panels[p][v] \cap writes # {}}

\* A segment runs.
Run(segment) == fresh' = (fresh \ Reading(page, segment.writes)) \cup segment.draws

\* A handler that has done its segment n waits, unless it was the last.
After(p, h, n) ==
    IF n = Len(Handler(p, h)) THEN Idle ELSE [handler |-> h, at |-> n]

\* A page is opened: its script runs up to its first await (initApp).
Open(p) ==
    \E h \in (DOMAIN Handlers[p]) \cap InitHandlers, s \in Slots :
        /\ page' = p
        /\ fresh' = Handler(p, h)[1].draws
        /\ running' = [x \in Slots |-> IF x = s THEN After(p, h, 1) ELSE Idle]

\* The handlers of the page are bound, and the feed started, when its init is done.
Bound == \A s \in Slots : running[s] # Idle => running[s].handler \notin InitHandlers

\* A handler of the page starts in slot s.
Begin(s, h) ==
    /\ Bound /\ running[s] = Idle
    /\ h \in (DOMAIN Handlers[page]) \ InitHandlers
    /\ Run(Handler(page, h)[1])
    /\ running' = [running EXCEPT ![s] = After(page, h, 1)]
    /\ UNCHANGED page

\* The answer a handler waits for is there, and it runs on.
Resume(s) ==
    /\ running[s] # Idle
    /\ LET h == running[s].handler
           n == running[s].at + 1 IN
       /\ Run(Handler(page, h)[n])
       /\ running' = [running EXCEPT ![s] = After(page, h, n)]
    /\ UNCHANGED page

AtRest == \A s \in Slots : running[s] = Idle
=============================================================================
