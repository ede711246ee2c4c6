------------------------------- MODULE Ledger -------------------------------
(***************************************************************************)
(* The data of the incidents page (src/frontend/app.js,                    *)
(* incidentEventLedgerState and -FilterState): the list of events, its     *)
(* filter, and the event the command centre shows in detail.               *)
(*                                                                         *)
(* Every draw of the command centre keeps or moves the selection, so it    *)
(* belongs to each step here.  The list is what one answer held; loads may *)
(* overlap and be answered in any order.  Each event of this backend names *)
(* the incident made of its own id (web3EventToNdrEvent), so all events    *)
(* count as linked and a press of a status button never has to open an     *)
(* incident first.                                                         *)
(***************************************************************************)
EXTENDS Naturals, Sequences

CONSTANTS
    Lists,      \* the events the backend holds, one list for each moment
    Texts,      \* what may be typed in the search; "" among them
    Found,      \* Found[text]: the ids of the events whose words hold the text
    Requests,   \* loads under way together
    NoRequest, NoEvent

VARIABLES
    now,        \* the present moment of the backend
    request,    \* the loads under way: the moment each was sent
    items,      \* incidentEventLedgerState.items
    filter,     \* incidentEventLedgerFilterState, its mode and search
    selected,   \* ... its selectedEventId
    detail      \* the event the command centre shows in detail

Modes == {"all", "verified", "high_conf", "linked_incident"}
EventIds == UNION {{Lists[t][i].id : i \in DOMAIN Lists[t]} : t \in DOMAIN Lists}

NewFilter == [mode |-> "all", search |-> ""]

LedgerTypeOK ==
    /\ \A r \in Requests : request[r] # NoRequest => request[r] \in 1 .. now
    /\ items = <<>> \/ \E t \in 1 .. now : items = Lists[t]
    /\ filter \in [mode : Modes, search : Texts]
    /\ {selected, detail} \subseteq EventIds \cup {NoEvent}

\* web3EventToNdrEvent: the tier of an event is told by its verdict alone.
VerificationTier(e) == IF e.attack THEN "confirmed_attack" ELSE "benign_or_low_risk"

\* getFilteredIncidentEventLedgerItems; confidence is in hundredths.
Passes(e, f) ==
    /\ f.mode = "verified" => VerificationTier(e) = "confirmed_attack"
    /\ f.mode = "high_conf" => e.confidence >= 80
    /\ f.search # "" => e.id \in Found[f.search]

\* The places of the list whose events pass, so its order stays.
Passing(list, f) == {i \in DOMAIN list : Passes(list[i], f)}

\* incidentEventPriorityScore in tenths: the tier, the confidence, the incident.
TierScore(tier) == IF tier = "confirmed_attack" THEN 5 ELSE 1
PriorityScore(e) == 1000 * TierScore(VerificationTier(e)) + e.confidence + 10

Shown(list, f) == {list[i].id : i \in Passing(list, f)}

\* The sort is stable: the event at i comes before the one at j.
Precedes(list, i, j) ==
    \/ PriorityScore(list[j]) < PriorityScore(list[i])
    \/ PriorityScore(list[j]) = PriorityScore(list[i]) /\ i <= j

\* The first of the events with the highest score.
Foremost(list, f) ==
    list[CHOOSE i \in Passing(list, f) :
            \A j \in Passing(list, f) : Precedes(list, i, j)].id

\* Mutant: the foremost event is chosen at every draw.
ChooseForemost(list, f, was) == Foremost(list, f)

\* Mutant: an event once selected stays so when it is no longer listed.
ChooseOnce(list, f, was) == IF was # NoEvent THEN was ELSE Foremost(list, f)

\* The event that is selected already stays so while it is listed.
Choose(list, f, was) ==
    IF was \in Shown(list, f) THEN was ELSE Foremost(list, f)

\* With no event listed the selection is left alone.
Select(list, f, was) ==
    IF Shown(list, f) = {} THEN was ELSE Choose(list, f, was)

\* renderIncidentCommandCenter.
Draw(list, f, was) ==
    /\ selected' = Select(list, f, was)
    /\ detail' = IF Shown(list, f) = {} THEN NoEvent ELSE selected'

\* loadIncidentEventLedgerFromApi: the request is sent ...
SendRequest(r) == request' = [request EXCEPT ![r] = now]

\* ... and answered from a later moment, or fails, which empties the list.
LedgerLoaded(r, list) ==
    /\ list = <<>> \/ \E t \in request[r] .. now : list = Lists[t]
    /\ items' = list
    /\ request' = [request EXCEPT ![r] = NoRequest]
    /\ Draw(list, filter, selected)
    /\ UNCHANGED filter

\* The search and the mode buttons.
SetFilter(f) ==
    /\ filter' = f
    /\ Draw(items, f, selected)
    /\ UNCHANGED <<request, items>>

\* A click on an event of the queue, which holds those that pass the filter.
Pick(e) ==
    /\ e \in Shown(items, filter)
    /\ Draw(items, filter, e)
    /\ UNCHANGED <<request, items, filter>>

\* A status button is there when an event is shown.
MayPressStatus == detail # NoEvent

-----------------------------------------------------------------------------
(* Properties. *)

\* What the command centre shows in detail is listed and selected, it shows
\* nothing only when nothing is listed.
DetailIsListed ==
    IF Shown(items, filter) = {} THEN detail = NoEvent
    ELSE detail = selected /\ detail \in Shown(items, filter)

\* Only a click takes the selection from an event that is still listed; and a
\* stretch without any event listed does not lose it.
KeepsSelection ==
    \/ selected' = selected
    \/ /\ Shown(items', filter') # {}
       /\ \/ selected \notin Shown(items', filter')
          \/ UNCHANGED <<items, filter>>
=============================================================================
