----------------------------- MODULE Workbench -----------------------------
(***************************************************************************)
(* A signed-in user at work: one tab that goes from page to page           *)
(* (PageViews), with the data of the dashboard (Dashboard) and of the      *)
(* incidents page (Ledger) behind their panels, while the backend moves    *)
(* on.  The load of a handler is kept under the handler's slot.            *)
(*                                                                         *)
(* Answers of the backend and items of the feed are external: a request is *)
(* answered from any moment since it was sent, or fails.                   *)
(***************************************************************************)
EXTENDS PageViews

CONSTANTS
    Worlds, Windows,        \* see Dashboard
    Lists, Texts, Found,    \* see Ledger
    NoneYet                 \* no load, no request, no event

VARIABLES now, windowMinutes, load, data, request, items, filter, selected, detail

D == INSTANCE Dashboard WITH Loads <- Slots, NoLoad <- NoneYet
L == INSTANCE Ledger WITH Requests <- Slots, NoRequest <- NoneYet, NoEvent <- NoneYet

dashboard == <<windowMinutes, load, data>>
ledger == <<request, items, filter, selected, detail>>
vars == <<page, fresh, running, now, dashboard, ledger>>

IsSequence(s) == s \in Seq({s[i] : i \in DOMAIN s})

\* There is a first moment, and both tell what the backend holds at the same
\* moments; the page starts with a window of 15 minutes; nothing may be typed.
ASSUME WorkbenchAssumption ==
    /\ IsSequence(Worlds) /\ IsSequence(Lists)
    /\ Len(Worlds) > 0 /\ Len(Worlds) = Len(Lists)
    /\ 15 \in Windows /\ Windows \subseteq Nat \ {0}
    /\ "" \in Texts

\* The backend answers with lists, each case with its risk and each event with
\* its confidence in whole numbers.
ASSUME ContentsAssumption ==
    \A t \in 1 .. Len(Worlds) :
        /\ IsSequence(Worlds[t].cases) /\ IsSequence(Worlds[t].events)
        /\ IsSequence(Lists[t])
        /\ \A i \in DOMAIN Worlds[t].cases : Worlds[t].cases[i].risk \in Nat
        /\ \A i \in DOMAIN Lists[t] : Lists[t][i].confidence \in Nat

\* The moment, for each slot whose handler waits on a page of this name.
Sent(name, what) ==
    [s \in Slots |-> IF page' = name /\ running'[s] # Idle THEN what ELSE NoneYet]

NewDocument ==
    /\ windowMinutes' = D!NewWindow
    /\ data' = D!NewData
    /\ load' = Sent("dashboard", [sent |-> now, window |-> D!NewWindow])
    /\ request' = Sent("incidents", now)
    /\ items' = <<>>
    /\ filter' = L!NewFilter
    /\ selected' = NoneYet /\ detail' = NoneYet

Init ==
    /\ page = "dashboard" /\ fresh = {}
    /\ running \in {[x \in Slots |-> IF x = s THEN [handler |-> "init", at |-> 1]
                                     ELSE Idle] : s \in Slots}
    /\ now = 1
    /\ windowMinutes = D!NewWindow
    /\ data = D!NewData
    /\ load = [s \in Slots |-> IF running[s] = Idle THEN NoneYet
                               ELSE [sent |-> now, window |-> D!NewWindow]]
    /\ request = [s \in Slots |-> NoneYet]
    /\ items = <<>> /\ filter = L!NewFilter
    /\ selected = NoneYet /\ detail = NoneYet

\* The user goes to a page.
OpenPage(p) == Open(p) /\ NewDocument /\ UNCHANGED now

\* Events and incidents come in.
Advance ==
    /\ now < Len(Worlds)
    /\ now' = now + 1
    /\ UNCHANGED <<page, fresh, running, dashboard, ledger>>

-----------------------------------------------------------------------------
(* The dashboard. *)

OnDashboard == page = "dashboard" /\ UNCHANGED <<now, ledger>>

RefreshDashboard(s) ==
    /\ OnDashboard /\ Begin(s, "refresh")
    /\ D!SendLoad(s, windowMinutes)
    /\ UNCHANGED <<windowMinutes, data>>

\* A press of a window other than the present one, on either toggle.
ChooseWindow(s, h, w) ==
    /\ OnDashboard /\ w # windowMinutes /\ Begin(s, h)
    /\ windowMinutes' = w
    /\ D!SendLoad(s, w)
    /\ UNCHANGED data

ResizeDashboard(s) == OnDashboard /\ Begin(s, "resize") /\ UNCHANGED dashboard

DashboardAnswered(s) ==
    /\ OnDashboard /\ Resume(s)
    /\ \/ D!LoadFails(s)
       \/ \E summary, events, cases \in load[s].sent .. now :
              D!LoadDone(s, summary, events, cases)
    /\ UNCHANGED windowMinutes

-----------------------------------------------------------------------------
(* The incidents page. *)

OnIncidents == page = "incidents" /\ UNCHANGED <<now, dashboard>>

RefreshLedger(s) ==
    /\ OnIncidents /\ Begin(s, "refresh")
    /\ L!SendRequest(s)
    /\ UNCHANGED <<items, filter, selected, detail>>

SendStatus(s) ==
    /\ OnIncidents /\ L!MayPressStatus /\ Begin(s, "status")
    /\ UNCHANGED ledger

\* The new status is taken or refused; either way the list is asked for.
StatusAnswered(s) ==
    /\ OnIncidents /\ request[s] = NoneYet /\ Resume(s)
    /\ L!SendRequest(s)
    /\ UNCHANGED <<items, filter, selected, detail>>

LedgerAnswered(s) ==
    /\ OnIncidents /\ request[s] # NoneYet /\ Resume(s)
    /\ \/ L!LedgerLoaded(s, <<>>)
       \/ \E t \in request[s] .. now : L!LedgerLoaded(s, Lists[t])

Search(s, text) ==
    /\ OnIncidents /\ Begin(s, "search")
    /\ L!SetFilter([filter EXCEPT !.search = text])

ChooseMode(s, mode) ==
    /\ OnIncidents /\ Begin(s, "mode")
    /\ L!SetFilter([filter EXCEPT !.mode = mode])

PickEvent(s, e) ==
    /\ OnIncidents /\ Begin(s, "pick")
    /\ L!Pick(e)

-----------------------------------------------------------------------------
(* The other pages. *)

Elsewhere ==
    page \notin {"dashboard", "incidents"} /\ UNCHANGED <<now, dashboard, ledger>>

BeginElsewhere(s) ==
    Elsewhere /\ \E h \in DOMAIN Handlers[page] : Begin(s, h)

ResumeElsewhere(s) == Elsewhere /\ Resume(s)

Next ==
    \/ \E p \in Pages : OpenPage(p)
    \/ Advance
    \/ \E s \in Slots :
        \/ RefreshDashboard(s)
        \/ \E w \in Windows : \/ ChooseWindow(s, "window", w)
                              \/ ChooseWindow(s, "sentinelWindow", w)
        \/ ResizeDashboard(s)
        \/ DashboardAnswered(s)
        \/ RefreshLedger(s)
        \/ SendStatus(s)
        \/ StatusAnswered(s)
        \/ LedgerAnswered(s)
        \/ \E text \in Texts : Search(s, text)
        \/ \E mode \in L!Modes : ChooseMode(s, mode)
        \/ \E e \in L!EventIds : PickEvent(s, e)
        \/ BeginElsewhere(s)
        \/ ResumeElsewhere(s)

Spec == Init /\ [][Next]_vars

-----------------------------------------------------------------------------
(* Properties. *)

\* Each variable holds values of its kind: the slots name a handler of the
\* page and a segment before its last, the loads were sent in the past, the
\* score is at most 100 and named by its label, the list is one the backend had.
TypeOK ==
    /\ ViewsTypeOK
    /\ D!DashboardTypeOK
    /\ L!LedgerTypeOK

\* When no handler waits, every panel of the page shows what the page's objects
\* hold, whatever handlers ran before and in whatever order their answers came.
\* Three panels of the dashboard wait for the first refresh after its start.
AtRestDrawn ==
    AtRest => DOMAIN Panels[page] \ fresh \subseteq
                  (IF page = "dashboard" THEN DrawnOnRefresh ELSE {})

\* What the dashboard shows of cases and of alerts belongs together (see
\* OnePicture in Dashboard), with loads answered in any order.
DashboardIsOnePicture == D!OnePicture

\* The dashboard's map of the first four cases is a graph (see Dashboard).
MapIsGraph == D!MapIsGraph

\* The command centre shows an event that is listed (see Ledger).
DetailIsListed == L!DetailIsListed

\* On the incidents page only a click takes the selection from an event that is
\* still listed, neither a refresh nor a filter does.  (Bound' tells such a step
\* from the opening of a page.)
SelectionIsKept == [][selected # NoneYet /\ Bound' => L!KeepsSelection]_vars
=============================================================================
