----------------------------- MODULE Dashboard -----------------------------
(***************************************************************************)
(* The data of the dashboard (src/frontend/app.js, dashboardData): what    *)
(* loadDashboardFromApi makes of the answers of the backend.               *)
(*                                                                         *)
(* A load asks for the summary, the events and the incidents in three      *)
(* requests that the backend answers one by one, each from the events and  *)
(* incidents it has then.  Loads may overlap and be answered in any order. *)
(* The objects that a load copies as they come (metrics, sensors, reviews, *)
(* optimization, the model's status, and a trend that is always empty) are *)
(* left out.                                                               *)
(***************************************************************************)
EXTENDS Naturals, FiniteSets, SequencesExt, FiniteSetsExt

CONSTANTS
    Worlds,     \* what the backend holds, one record for each moment
    Windows,    \* the observation windows, in minutes; 15 at first
    Loads,      \* loads under way together
    NoLoad

VARIABLES
    now,            \* the present moment of the backend
    windowMinutes,  \* dashboardState.windowMinutes
    load,           \* the loads under way: when each was sent, for which window
    data            \* dashboardData

Moments == 1 .. Len(Worlds)
Cases(i) == Worlds[i].cases
Events(i) == Worlds[i].events

-----------------------------------------------------------------------------
(* The severity of a score. *)

SeverityLabelFromScore(score) ==
    CASE score >= 90 -> "critical"
      [] score >= 75 -> "high"
      [] score >= 60 -> "medium"
      [] OTHER -> "low"

Most(a, b) == IF a > b THEN a ELSE b
Least(a, b) == IF a < b THEN a ELSE b

\* a / b, rounded half up; 0 when there is nothing to divide by.
Rounded(a, b) == IF b = 0 THEN 0 ELSE (2 * a + b) \div (2 * b)

\* a || b on numbers.
Or(a, b) == IF a = 0 THEN b ELSE a

Count(s, Test(_)) == Cardinality({i \in DOMAIN s : Test(s[i])})

-----------------------------------------------------------------------------
(* What the backend answers (dashboard_routes, event_store.summary). *)

Summary(t) ==
    LET e == Events(t) IN
    [eventCount |-> Len(e),
     confirmedAttacks |-> Count(e, LAMBDA x : x.attack),
     highSeverityEvents |-> Count(e, LAMBDA x : x.high),
     recentAlerts |-> Reverse(SubSeq(e, Most(Len(e) - 9, 1), Len(e)))]

\* The cases that are not closed, and how many of them have a priority.
Active(i) == {k \in DOMAIN Cases(i) : ~Cases(i)[k].closed}
Urgent(i, priority) == Cardinality({k \in Active(i) : Cases(i)[k].priority = priority})

\* loadWeb3DashboardCompat: the overview of a summary, events and incidents.
Overview(s, t, i, window) ==
    LET summary == Summary(s)
        events == Events(t)
        eventCount == Or(summary.eventCount, Len(events))
        confirmed == Or(summary.confirmedAttacks, Count(events, LAMBDA x : x.attack)) IN
    [window |-> window,
     observations |-> eventCount,
     confirmedAttacks |-> confirmed,
     eventizationRate |-> Rounded(100 * confirmed, eventCount),
     highSeverityAlerts |-> summary.highSeverityEvents,
     activeIncidents |-> Cardinality(Active(i)),
     p1 |-> Urgent(i, "P1"), p2 |-> Urgent(i, "P2"), p3 |-> Urgent(i, "P3")]

-----------------------------------------------------------------------------
(* What the page makes of it. *)

TotalRisk(cases) ==
    LET sum[n \in 0 .. Len(cases)] == IF n = 0 THEN 0 ELSE sum[n - 1] + cases[n].risk
    IN  sum[Len(cases)]

\* The score: the mean risk of the cases, or the weighted counts when they
\* come to more, up to 100.
RiskScore(o, cases) ==
    LET weighted == 100 * (8 * Least(o.highSeverityAlerts, 5)
                           + 8 * Least(o.activeIncidents, 5)
                           + Least(o.highSeverityAlerts, 10))
                    + 12 * Least(o.eventizationRate, 100) IN
    Least(100, Most(Rounded(TotalRisk(cases), Len(cases)), Rounded(weighted, 100)))

First(n, s) == SubSeq(s, 1, Least(n, Len(s)))

\* buildTopologyFromIncidents looks at four cases.  A source stands on the map
\* when the first of its cases has coordinates, a target always does.
FirstWith(items, i) == Min({j \in DOMAIN items : items[j].source = items[i].source})
OnMap(items, i) == items[FirstWith(items, i)].located

\* Mutant: each case is asked for its own coordinates.
OnMapByItself(items, i) == items[i].located

\* A case is a link when its source is on the map.
Linked(items, i) == OnMap(items, i)

Topology(cases) ==
    LET items == First(4, cases)
        links == {i \in DOMAIN items : Linked(items, i)} IN
    [nodes |-> {<<"source", items[i].source>> :
                    i \in {i \in DOMAIN items : OnMap(items, i)}}
               \cup {<<"target", items[i].target>> : i \in DOMAIN items},
     links |-> [i \in links |-> [from |-> <<"source", items[i].source>>,
                                 to |-> <<"target", items[i].target>>]],
     suppressed |-> Cardinality((DOMAIN items) \ links)]

NoTopology == [nodes |-> {}, links |-> <<>>, suppressed |-> 0]

Drivers(o) == <<o.highSeverityAlerts, o.activeIncidents, o.eventizationRate>>

\* The four tiles; the last falls back to all events when no attack is confirmed.
Kpis(o) ==
    [p1 |-> o.p1, p2 |-> o.p2, p3 |-> o.p3, openAlerts |-> o.highSeverityAlerts,
     observations |-> o.observations,
     confirmed |-> Or(o.confirmedAttacks, o.observations)]

NoKpis == [p1 |-> 0, p2 |-> 0, p3 |-> 0, openAlerts |-> 0,
           observations |-> 0, confirmed |-> 0]

Ids(s) == [i \in DOMAIN s |-> s[i].id]

-----------------------------------------------------------------------------
\* dashboardData and dashboardState as the script starts.
NewData ==
    [liveTelemetryLoaded |-> FALSE, observationWindowMinutes |-> 15,
     riskScore |-> 0, riskStatus |-> "low", riskDrivers |-> <<0, 0, 0>>,
     kpis |-> NoKpis, topology |-> NoTopology, ticker |-> <<>>,
     incidents |-> <<>>, recentEvents |-> <<>>]
NewWindow == 15

DashboardTypeOK ==
    /\ now \in Moments
    /\ windowMinutes \in Windows
    /\ \A l \in Loads : load[l] # NoLoad =>
           load[l].sent \in 1 .. now /\ load[l].window \in Windows
    /\ data.liveTelemetryLoaded \in BOOLEAN
    /\ data.observationWindowMinutes \in Windows
    /\ data.riskScore \in 0 .. 100
    /\ data.riskStatus = SeverityLabelFromScore(data.riskScore)

\* The requests of a load are sent, with the window of that moment.
SendLoad(l, window) ==
    load' = [load EXCEPT ![l] = [sent |-> now, window |-> window]]

\* All three are answered, from the moments s, t and i.
LoadDone(l, s, t, i) ==
    LET o == Overview(s, t, i, load[l].window)
        score == RiskScore(o, Cases(i)) IN
    /\ {s, t, i} \subseteq load[l].sent .. now
    /\ data' = [liveTelemetryLoaded |-> TRUE,
                observationWindowMinutes |-> o.window,
                riskScore |-> score,
                riskStatus |-> SeverityLabelFromScore(score),
                riskDrivers |-> Drivers(o),
                kpis |-> Kpis(o),
                topology |-> Topology(Cases(i)),
                ticker |-> Ids(First(5, Summary(s).recentAlerts)),
                incidents |-> Ids(First(5, Cases(i))),
                recentEvents |-> Ids(First(10, Events(t)))]
    /\ load' = [load EXCEPT ![l] = NoLoad]

\* Mutant: the map, the ticker and the lists stay as they were.
LosesNothing ==
    [data EXCEPT !.liveTelemetryLoaded = FALSE,
                 !.observationWindowMinutes = windowMinutes,
                 !.riskScore = 0, !.riskStatus = "low"]

\* Mutant: the label of the last score stays.
LosesScoreOnly ==
    [data EXCEPT !.liveTelemetryLoaded = FALSE,
                 !.observationWindowMinutes = windowMinutes,
                 !.riskScore = 0, !.topology = NoTopology, !.ticker = <<>>,
                 !.incidents = <<>>, !.recentEvents = <<>>]

\* What a page without an answer holds: the tiles and the drivers stay.
Lost ==
    [data EXCEPT !.liveTelemetryLoaded = FALSE,
                 !.observationWindowMinutes = windowMinutes,
                 !.riskScore = 0, !.riskStatus = "low",
                 !.topology = NoTopology, !.ticker = <<>>,
                 !.incidents = <<>>, !.recentEvents = <<>>]

\* One of them fails.
LoadFails(l) ==
    /\ data' = Lost
    /\ load' = [load EXCEPT ![l] = NoLoad]

-----------------------------------------------------------------------------
(* Properties. *)

\* Every count and picture made of cases is made of the cases of one moment,
\* and every alert of the events of one moment, also when answers of other
\* loads came in between; a page that lost its connection shows no case.
OnePicture ==
    IF data.liveTelemetryLoaded
    THEN \E s, i \in 1 .. now :
           /\ data.riskDrivers[2] = Cardinality(Active(i))
           /\ data.kpis.p1 = Urgent(i, "P1")
           /\ data.kpis.p1 + data.kpis.p2 + data.kpis.p3 <= Cardinality(Active(i))
           /\ data.topology = Topology(Cases(i))
           /\ data.incidents = Ids(First(5, Cases(i)))
           /\ data.riskDrivers[1] = data.kpis.openAlerts
           /\ data.kpis.openAlerts = Summary(s).highSeverityEvents
           /\ data.ticker = Ids(First(5, Summary(s).recentAlerts))
    ELSE /\ data.topology = NoTopology
         /\ data.incidents = <<>> /\ data.recentEvents = <<>> /\ data.ticker = <<>>
         /\ data.riskScore = 0

\* The map is a graph: links join nodes it shows, each case is a link or is
\* counted as left out, and the eight nodes and links that the small graph of
\* the command centre takes are all there are.
MapIsGraph ==
    LET t == data.topology IN
    /\ \A i \in DOMAIN t.links : {t.links[i].from, t.links[i].to} \subseteq t.nodes
    /\ Cardinality(DOMAIN t.links) + t.suppressed = Least(4, Len(data.incidents))
    /\ Cardinality(t.nodes) <= 8
=============================================================================
