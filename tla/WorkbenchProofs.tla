-------------------------- MODULE WorkbenchProofs --------------------------
(***************************************************************************)
(* Proofs about the workbench, for any contents of the backend.            *)
(***************************************************************************)
EXTENDS Workbench, TLAPS

\* Every init waits for an answer before it draws: a page that was just opened
\* has a handler waiting.
LEMMA InitWaits ==
  ASSUME NEW p \in Pages, NEW h \in (DOMAIN Handlers[p]) \cap InitHandlers
  PROVE  Len(Handler(p, h)) # 1
<1> USE DEF Pages, Handler, Handlers, Panels, InitHandlers, LoadThenDraw
<1>1. CASE p = "dashboard"
  BY <1>1 DEF DashboardHandlers, InitDashboardPage
<1>2. CASE p = "incidents"
  BY <1>2 DEF IncidentHandlers
<1>3. CASE p = "response"
  BY <1>3 DEF ResponseHandlers, InitCase, InitNoCase, InitNoDetail, InitResponse
<1>4. CASE p = "insights"
  BY <1>4 DEF InsightsHandlers, InitInsightsPage
<1>5. CASE p = "reports"
  BY <1>5 DEF ReportsHandlers, LoadReports, LoadReportsEmpty
<1>6. CASE p = "learning"
  BY <1>6 DEF LearningHandlers
<1>7. CASE p = "settings"
  BY <1>7 DEF SettingsHandlers, LoadSettings
<1>8. CASE p = "intake"
  BY <1>8 DEF IntakeHandlers, InitIntakePage
<1> QED
  BY <1>1, <1>2, <1>3, <1>4, <1>5, <1>6, <1>7, <1>8

\* The page just opened has nothing bound.
LEMMA OpenedIsNotBound ==
  ASSUME NEW p \in Pages, Open(p)
  PROVE  ~Bound'
<1>1. PICK h \in (DOMAIN Handlers[p]) \cap InitHandlers, s \in Slots :
        running' = [x \in Slots |-> IF x = s THEN After(p, h, 1) ELSE Idle]
  BY DEF Open
<1>2. After(p, h, 1) = [handler |-> h, at |-> 1]
  BY InitWaits DEF After
<1>3. [handler |-> h, at |-> 1] # Idle
  <2>1. h \in UNION {DOMAIN Handlers[q] : q \in Pages}
    OBVIOUS
  <2> QED
    BY <2>1, IdleAssumption
<1>4. running'[s] # Idle /\ running'[s].handler \in InitHandlers
  BY <1>1, <1>2, <1>3
<1> QED
  BY <1>4 DEF Bound

\* Drawing the command centre from a list keeps the selection while it is listed.
LEMMA DrawKeepsSelection ==
  ASSUME L!Draw(items', filter', selected)
  PROVE  L!KeepsSelection
BY DEF L!Draw, L!Select, L!Choose, L!KeepsSelection

\* On the incidents page only a click takes the selection from an event that is
\* still listed.
THEOREM SelectionKept == Spec => SelectionIsKept
<1> DEFINE A == selected # NoneYet /\ Bound' => L!KeepsSelection
<1>1. [Next]_vars => [A]_vars
  <2> SUFFICES ASSUME Next
               PROVE  A
    OBVIOUS
  <2>1. ASSUME NEW p \in Pages, OpenPage(p)
        PROVE  A
    BY <2>1, OpenedIsNotBound DEF OpenPage
  <2>2. ASSUME UNCHANGED ledger
        PROVE  A
    BY <2>2 DEF ledger, L!KeepsSelection
  <2>3. ASSUME Advance
        PROVE  A
    BY <2>2, <2>3 DEF Advance
  <2>4. ASSUME OnDashboard
        PROVE  A
    BY <2>2, <2>4 DEF OnDashboard
  <2>5. ASSUME Elsewhere
        PROVE  A
    BY <2>2, <2>5 DEF Elsewhere
  <2>6. ASSUME NEW s \in Slots, RefreshLedger(s) \/ SendStatus(s) \/ StatusAnswered(s)
        PROVE  A
    BY <2>6 DEF RefreshLedger, SendStatus, StatusAnswered, ledger, L!KeepsSelection
  <2>7. ASSUME NEW s \in Slots, LedgerAnswered(s)
        PROVE  A
    BY <2>7, DrawKeepsSelection DEF LedgerAnswered, L!LedgerLoaded
  <2>8. ASSUME NEW f, L!SetFilter(f)
        PROVE  A
    BY <2>8, DrawKeepsSelection DEF L!SetFilter
  <2>9. ASSUME NEW e, L!Pick(e)
        PROVE  A
    BY <2>9 DEF L!Pick, L!KeepsSelection
  <2> QED
    BY <2>1, <2>2, <2>3, <2>4, <2>5, <2>6, <2>7, <2>8, <2>9
       DEF Next, RefreshDashboard, ChooseWindow, ResizeDashboard, DashboardAnswered,
           Search, ChooseMode, PickEvent, BeginElsewhere, ResumeElsewhere
<1> QED
  BY <1>1, PTL DEF Spec, SelectionIsKept

-----------------------------------------------------------------------------
(* Panels at rest.  A panel that does not show the present state is due: a  *)
(* handler that waits draws it in a segment still to come.  That rests on   *)
(* the table alone, whatever handlers overlap.                              *)

\* Panels of a page that its init leaves to the first refresh.
Exempt(p) == IF p = "dashboard" THEN DrawnOnRefresh ELSE {}

\* Handler H draws each panel of P, those of E aside, in or after the segment
\* that assigns what the panel reads.
Covers(P, H, E) ==
    /\ Len(H) \in Nat \ {0}
    /\ \A n \in 1 .. Len(H), v \in (DOMAIN P) \ E :
           P[v] \cap H[n].writes # {} => \E k \in n .. Len(H) : v \in H[k].draws

\* A handler that ends with drawing everything.
DrawsAll(P, H, E) ==
    /\ Len(H) \in Nat \ {0}
    /\ (DOMAIN P) \ E \subseteq H[Len(H)].draws

\* What the proof needs to know of a page.
PageCovered(p) ==
    /\ \A h \in DOMAIN Handlers[p] : Covers(Panels[p], Handler(p, h), Exempt(p))
    /\ \A h \in (DOMAIN Handlers[p]) \cap InitHandlers :
           DrawsAll(Panels[p], Handler(p, h), Exempt(p))

LEMMA DrawsAllCovers ==
  ASSUME NEW P, NEW H, NEW E, DrawsAll(P, H, E)
  PROVE  Covers(P, H, E)
BY DEF DrawsAll, Covers

\* A handler of one segment.
LEMMA SyncCovers ==
  ASSUME NEW P, NEW W, NEW V, NEW E,
         \A v \in (DOMAIN P) \ E : P[v] \cap W # {} => v \in V
  PROVE  Covers(P, Sync(W, V), E)
BY DEF Sync, Segment, Covers

LEMMA LoadThenDrawEnds ==
  ASSUME NEW P, NEW W, NEW V, NEW E, (DOMAIN P) \ E \subseteq V
  PROVE  DrawsAll(P, LoadThenDraw(W, V), E)
BY DEF LoadThenDraw, Segment, DrawsAll

\* W is read by the panels of V only.
ReadBy(P, W, V) == \A v \in DOMAIN P : P[v] \cap W # {} => v \in V

\* H has m segments, assigns no field but those of W and ends with drawing V.
Ends(H, m, W, V) ==
    /\ m \in Nat \ {0} /\ Len(H) = m
    /\ H[m].draws = V
    /\ \A n \in 1 .. m : H[n].writes \subseteq W

LEMMA LastCovers ==
  ASSUME NEW P, NEW H, NEW W, NEW V, NEW m, ReadBy(P, W, V), Ends(H, m, W, V)
  PROVE  Covers(P, H, {})
BY DEF Covers, ReadBy, Ends

LEMMA SyncReadBy ==
  ASSUME NEW P, NEW W, NEW V, NEW U \in SUBSET W, ReadBy(P, W, V)
  PROVE  Covers(P, Sync(U, V), {})
BY SyncCovers DEF ReadBy

LEMMA Prefixed ==
  ASSUME NEW S, NEW T
  PROVE  Len(<<S>> \o <<T>>) = 2 /\ (<<S>> \o <<T>>)[2] = T
OBVIOUS

LEMMA DashboardCovered == PageCovered("dashboard")
<1> DEFINE P == DashboardPanels
           E == DrawnOnRefresh
           V == DOMAIN DashboardPanels
<1>1. DrawsAll(P, InitDashboardPage, E)
  BY LoadThenDrawEnds DEF InitDashboardPage
<1>2. DrawsAll(P, RefreshDashboardPage, E)
  BY LoadThenDrawEnds DEF RefreshDashboardPage
<1>3. ASSUME NEW S
      PROVE  DrawsAll(P, <<S>> \o Tail(RefreshDashboardPage), E)
  <2>1. Tail(RefreshDashboardPage) = <<Segment(LoadDashboard, V)>>
    BY DEF RefreshDashboardPage, LoadThenDraw
  <2> DEFINE H == <<S>> \o Tail(RefreshDashboardPage)
  <2> HIDE DEF P, V
  <2>2. Len(H) = 2 /\ H[2] = Segment(LoadDashboard, V)
    BY <2>1, Prefixed
  <2>3. H[2].draws = V
    BY <2>2 DEF Segment
  <2> USE DEF P, V
  <2> QED
    BY <2>2, <2>3 DEF DrawsAll
<1>4. DrawsAll(P, PressWindow, E) /\ DrawsAll(P, PressSentinelWindow, E)
  BY <1>3 DEF PressWindow, PressSentinelWindow
<1>5. Covers(P, Sync({}, {"ThreatTrend"}), E)
  BY SyncCovers
<1>6. /\ Covers(P, InitDashboardPage, E) /\ Covers(P, RefreshDashboardPage, E)
      /\ Covers(P, PressWindow, E) /\ Covers(P, PressSentinelWindow, E)
  BY <1>1, <1>2, <1>4, DrawsAllCovers
<1>7. Panels["dashboard"] = P /\ Exempt("dashboard") = E
      /\ Handlers["dashboard"] = DashboardHandlers
  BY DEF Panels, Exempt, Handlers
<1> QED
  BY <1>1, <1>5, <1>6, <1>7 DEF PageCovered, Handler, DashboardHandlers, InitHandlers

LEMMA IncidentsCovered == PageCovered("incidents")
<1> DEFINE P == IncidentPanels
           LL == LoadThenDraw(LoadIncidentEventLedger, DrawLedger)
           Pick == Sync({"selectedEventId"}, {"IncidentCommandCenter"})
<1>1. DrawsAll(P, LL, {})
  BY LoadThenDrawEnds DEF DrawLedger
<1>2. Len(PressStatus) = 3 /\ PressStatus[3] = Segment(LoadIncidentEventLedger, DrawLedger)
  BY DEF PressStatus, LoadThenDraw
<1>3. DrawsAll(P, PressStatus, {})
  BY <1>2 DEF DrawsAll, DrawLedger, Segment
<1>4. Covers(P, LL, {}) /\ Covers(P, PressStatus, {})
  BY <1>1, <1>3, DrawsAllCovers
<1>5. \A W : Covers(P, Sync(W, DrawLedger), {})
  BY SyncCovers DEF DrawLedger
<1>6. Covers(P, Pick, {})
  <2>1. \A v \in DOMAIN P : P[v] \cap {"selectedEventId"} # {} => v \in {"IncidentCommandCenter"}
    BY DEF IncidentPanels, RenderIncidentEventLedger
  <2> QED
    BY <2>1, SyncCovers
<1>7. Panels["incidents"] = P /\ Exempt("incidents") = {}
      /\ Handlers["incidents"] = IncidentHandlers
  BY DEF Panels, Exempt, Handlers
<1> HIDE DEF P
<1> QED
  BY <1>1, <1>4, <1>5, <1>6, <1>7 DEF PageCovered, Handler, IncidentHandlers, InitHandlers

LEMMA ResponseCovered == PageCovered("response")
<1> DEFINE P == ResponsePanels
           W1 == {"assignee", "auditTrail", "status", "nextStep"}
           W2 == {"feedbackType", "confidenceOverride"}
           W3 == {"addReviewPool", "addFinetunePool", "feedbackLabel"}
           W4 == {"auditTrail", "nextStep", "savedFeedback", "status",
                  "advisor", "reviewHistory"}
           Feedback == {"FeedbackSummary", "FeedbackFlow"}
\* What the fields are read by.
<1>1. /\ ReadBy(P, W1, Workflow) /\ ReadBy(P, {"auditTrail"}, {"ResponseTimeline"})
      /\ ReadBy(P, W2, {"FeedbackFlow"}) /\ ReadBy(P, W3, Feedback)
      /\ ReadBy(P, W4, AfterFeedback)
  BY DEF ReadBy, ResponsePanels, Workflow, AfterFeedback, RenderResponseContext,
         RenderWorkflowStatus, RenderResponseAdvisor, RenderDecisionHistory,
         RenderResponseTimeline, RenderPlaybook, RenderFeedbackSummary,
         RenderFeedbackFlow, RenderFeedbackHistory, RenderArtifacts
<1>2. /\ DrawsAll(P, InitCase, {}) /\ DrawsAll(P, InitNoCase, {})
      /\ DrawsAll(P, InitNoDetail, {})
  <2> DEFINE T(U) == Segment(U, DOMAIN ResponsePanels)
  <2>1. \A U : T(U).draws = DOMAIN ResponsePanels
    BY DEF Segment
  <2> HIDE DEF T
  <2>2. \A U : /\ Len(<<Nothing>> \o <<T(U)>>) = 2
               /\ (<<Nothing>> \o <<T(U)>>)[2] = T(U)
               /\ Len(<<Nothing, Nothing>> \o <<T(U)>>) = 3
               /\ (<<Nothing, Nothing>> \o <<T(U)>>)[3] = T(U)
    OBVIOUS
  <2>3. \A U : /\ DrawsAll(P, <<Nothing>> \o <<T(U)>>, {})
               /\ DrawsAll(P, <<Nothing, Nothing>> \o <<T(U)>>, {})
    BY <2>1, <2>2 DEF DrawsAll
  <2> HIDE DEF P
  <2> QED
    BY <2>3 DEF InitCase, InitNoCase, InitNoDetail, InitResponse, T
<1> HIDE DEF P
<1>3. /\ Covers(P, AssigneeSent, {}) /\ Covers(P, AssigneeOnly, {})
      /\ Covers(P, FirewallAction, {}) /\ Covers(P, RecommendedAction, {})
      /\ Covers(P, Sync({"status", "auditTrail"}, Workflow), {})
  <2> HIDE DEF Workflow
  <2>1. \A U \in SUBSET W1 : Covers(P, Sync(U, Workflow), {})
    BY <1>1, SyncReadBy
  <2>2. ASSUME NEW U \in SUBSET W1, NEW V \in SUBSET W1
        PROVE  Covers(P, <<Segment(U, {}), Segment(V, Workflow)>>, {})
    <3> DEFINE H == <<Segment(U, {}), Segment(V, Workflow)>>
    <3>1. ReadBy(P, W1, Workflow)
      BY <1>1
    <3>2. Len(H) = 2 /\ H[1].writes = U /\ H[2].writes = V /\ H[2].draws = Workflow
      BY DEF Segment
    <3> HIDE DEF H, W1
    <3>3. Ends(H, 2, W1, Workflow)
      BY <3>2 DEF Ends
    <3>4. Covers(P, H, {})
      BY <3>1, <3>3, LastCovers
    <3> QED
      BY <3>4 DEF H
  <2> QED
    BY <2>1, <2>2 DEF AssigneeSent, AssigneeOnly, FirewallAction, RecommendedAction
<1>4. Covers(P, ArtifactAction, {}) /\ Covers(P, ArtifactNoCase, {})
  <2>1. ReadBy(P, {"auditTrail"}, {"ResponseTimeline"})
    BY <1>1
  <2>2. /\ Len(ArtifactAction) = 2
        /\ ArtifactAction[1].writes = {"auditTrail"}
        /\ ArtifactAction[2].writes = {"auditTrail"}
        /\ ArtifactAction[2].draws = {"ResponseTimeline"}
    BY DEF ArtifactAction, Segment
  <2>3. Ends(ArtifactAction, 2, {"auditTrail"}, {"ResponseTimeline"})
    BY <2>2 DEF Ends
  <2>4. Covers(P, ArtifactAction, {})
    BY <2>1, <2>3, LastCovers
  <2>5. Covers(P, ArtifactNoCase, {})
    BY <2>1, SyncReadBy DEF ArtifactNoCase
  <2> QED
    BY <2>4, <2>5
<1>5. /\ Covers(P, Sync({"feedbackType"}, {"FeedbackFlow"}), {})
      /\ Covers(P, Sync({"confidenceOverride"}, {"FeedbackFlow"}), {})
  <2>1. \A U \in SUBSET W2 : Covers(P, Sync(U, {"FeedbackFlow"}), {})
    BY <1>1, SyncReadBy
  <2> QED
    BY <2>1
<1>6. /\ Covers(P, TogglePool("addReviewPool"), {})
      /\ Covers(P, TogglePool("addFinetunePool"), {}) /\ Covers(P, PressFeedback, {})
  <2>1. \A U \in SUBSET W3 : Covers(P, Sync(U, Feedback), {})
    BY <1>1, SyncReadBy
  <2> QED
    BY <2>1 DEF TogglePool, PressFeedback
<1>7. Covers(P, SubmitFeedback, {}) /\ Covers(P, SubmitFeedbackNoCase, {})
  <2>1. ReadBy(P, W4, AfterFeedback)
    BY <1>1
  <2>2. /\ Len(SubmitFeedback) = 3 /\ SubmitFeedback[1].writes = {}
        /\ SubmitFeedback[2].writes = {"auditTrail", "nextStep", "savedFeedback", "status"}
        /\ SubmitFeedback[3].writes = {"advisor", "reviewHistory"}
        /\ SubmitFeedback[3].draws = AfterFeedback
    BY DEF SubmitFeedback, Segment, Nothing
  <2>3. Ends(SubmitFeedback, 3, W4, AfterFeedback)
    BY <2>2 DEF Ends
  <2>4. /\ Len(SubmitFeedbackNoCase) = 2 /\ SubmitFeedbackNoCase[1].writes = {}
        /\ SubmitFeedbackNoCase[2].writes
             = {"auditTrail", "nextStep", "savedFeedback", "status"}
        /\ SubmitFeedbackNoCase[2].draws = AfterFeedback
    BY DEF SubmitFeedbackNoCase, Segment, Nothing
  <2>5. Ends(SubmitFeedbackNoCase, 2, W4, AfterFeedback)
    BY <2>4 DEF Ends
  <2> HIDE DEF W4
  <2>6. Covers(P, SubmitFeedback, {})
    BY <2>1, <2>3, LastCovers
  <2>7. Covers(P, SubmitFeedbackNoCase, {})
    BY <2>1, <2>5, LastCovers
  <2> QED
    BY <2>6, <2>7
<1>8. Covers(P, InitCase, {}) /\ Covers(P, InitNoCase, {}) /\ Covers(P, InitNoDetail, {})
  BY <1>2, DrawsAllCovers
<1>9. Panels["response"] = P /\ Exempt("response") = {}
      /\ Handlers["response"] = ResponseHandlers
  BY DEF Panels, Exempt, Handlers, P
<1> QED
  BY <1>2, <1>3, <1>4, <1>5, <1>6, <1>7, <1>8, <1>9
     DEF PageCovered, Handler, ResponseHandlers, InitHandlers

LEMMA InsightsCovered == PageCovered("insights")
<1> DEFINE P == InsightsPanels
           Chart == {"StageToggle", "ComparisonCanvas", "StageMetrics"}
<1>1. DrawsAll(P, InitInsightsPage, {})
  BY LoadThenDrawEnds DEF InitInsightsPage
<1>2. ReadBy(P, {"selectedStage"}, Chart)
  BY DEF ReadBy, InsightsPanels, RenderInsightsSetup, RenderDriftFeatureRows,
         RenderDriftCanvas, RenderConfidence, RenderFeatureImportance
<1>3. ReadBy(P, {}, {"DriftCanvas", "ComparisonCanvas"})
  BY DEF ReadBy
<1>4. Panels["insights"] = P /\ Exempt("insights") = {}
      /\ Handlers["insights"] = InsightsHandlers
  BY DEF Panels, Exempt, Handlers
<1> HIDE DEF P
<1>5. Covers(P, PressStage, {})
  BY <1>2, SyncReadBy DEF PressStage
<1>6. Covers(P, Sync({}, {"DriftCanvas", "ComparisonCanvas"}), {})
  BY <1>3, SyncReadBy
<1>7. Covers(P, InitInsightsPage, {})
  BY <1>1, DrawsAllCovers
<1> QED
  BY <1>1, <1>4, <1>5, <1>6, <1>7 DEF PageCovered, Handler, InsightsHandlers, InitHandlers

LEMMA ReportsCovered == PageCovered("reports")
<1> DEFINE P == ReportsPanels
<1>1. DrawsAll(P, LoadReports, {})
  BY DEF DrawsAll, LoadReports, Segment
<1>2. DrawsAll(P, LoadReportsEmpty, {})
  BY LoadThenDrawEnds DEF LoadReportsEmpty
<1>3. ReadBy(P, {"range", "format"}, {"ReportPreview"}) /\ ReadBy(P, {"history"}, {"ReportHistory"})
  BY DEF ReadBy, ReportsPanels, RenderReportPreview, RenderReportBundleCards,
         RenderReportHistory, RenderReportTimelineChart, RenderReportRadarChart
<1>4. ReadBy(P, {}, {})
  BY DEF ReadBy
<1>5. Panels["reports"] = P /\ Exempt("reports") = {}
      /\ Handlers["reports"] = ReportsHandlers
  BY DEF Panels, Exempt, Handlers
<1> HIDE DEF P
<1>6. /\ Covers(P, Sync({"range"}, {"ReportPreview"}), {})
      /\ Covers(P, Sync({"format"}, {"ReportPreview"}), {})
  <2>1. \A U \in SUBSET {"range", "format"} : Covers(P, Sync(U, {"ReportPreview"}), {})
    BY <1>3, SyncReadBy
  <2> QED
    BY <2>1
<1>7. Covers(P, ExportDone, {})
  <2>1. Ends(ExportDone, 2, {"history"}, {"ReportHistory"})
    BY DEF Ends, ExportDone, LoadThenDraw, Segment, Nothing
  <2> QED
    BY <1>3, <2>1, LastCovers
<1>8. Covers(P, ExportRefused, {})
  <2>1. Ends(ExportRefused, 2, {}, {})
    BY DEF Ends, ExportRefused, Segment, Nothing
  <2> QED
    BY <1>4, <2>1, LastCovers
<1>9. Covers(P, LoadReports, {}) /\ Covers(P, LoadReportsEmpty, {})
  BY <1>1, <1>2, DrawsAllCovers
<1> QED
  BY <1>1, <1>2, <1>5, <1>6, <1>7, <1>8, <1>9
     DEF PageCovered, Handler, ReportsHandlers, InitHandlers

LEMMA LearningCovered == PageCovered("learning")
<1> DEFINE P == LearningPanels
           Queue == {"LearningQueueSummary", "LearningQueueTables"}
           Flow == {"LearningQueueFlow"}
           LL == LoadThenDraw(LoadLearningQueue, DOMAIN P)
<1>1. DrawsAll(P, LL, {})
  BY LoadThenDrawEnds
<1>2. ReadBy(P, {"search", "pool", "label", "training"}, Queue) /\ ReadBy(P, {"actionLog"}, Flow)
  BY DEF ReadBy, LearningPanels, RenderLearningQueueFlow, RenderLearningQueueSummary,
         RenderLearningQueueTables, LearningFilter
<1>3. Panels["learning"] = P /\ Exempt("learning") = {}
      /\ Handlers["learning"] = LearningHandlers
  BY DEF Panels, Exempt, Handlers
<1>4. DOMAIN P = DOMAIN LearningPanels
  OBVIOUS
<1>5. LearningHandlers = [init |-> LL, filter |-> FilterLearning, export |-> ExportCandidates,
                          unavailable |-> Sync({"actionLog"}, Flow)]
  BY DEF LearningHandlers
<1> HIDE DEF P, LL
<1>6. Covers(P, FilterLearning, {}) /\ Covers(P, Sync({"actionLog"}, Flow), {})
  BY <1>2, SyncReadBy DEF FilterLearning
<1>7. Covers(P, ExportCandidates, {})
  <2>1. Ends(ExportCandidates, 2, {"actionLog"}, Flow)
    BY DEF Ends, ExportCandidates, LoadThenDraw, Segment, Nothing
  <2> QED
    BY <1>2, <2>1, LastCovers
<1>8. Covers(P, LL, {})
  BY <1>1, DrawsAllCovers
<1> QED
  BY <1>1, <1>3, <1>5, <1>6, <1>7, <1>8 DEF PageCovered, Handler, InitHandlers

LEMMA SettingsCovered == PageCovered("settings")
<1> DEFINE P == SettingsPanels
<1>1. \A B : DrawsAll(P, LoadSettings(B), {})
  <2> HIDE DEF P
  <2> QED
    BY DEF DrawsAll, LoadSettings, Segment, P
<1>2. Panels["settings"] = P /\ Exempt("settings") = {}
      /\ Handlers["settings"] = SettingsHandlers
  BY DEF Panels, Exempt, Handlers
<1> HIDE DEF P
<1>3. \A B : Covers(P, LoadSettings(B), {})
  BY <1>1, DrawsAllCovers
<1> QED
  BY <1>1, <1>2, <1>3 DEF PageCovered, Handler, SettingsHandlers, InitHandlers

LEMMA IntakeCovered == PageCovered("intake")
<1> DEFINE P == IntakePanels
<1>1. DrawsAll(P, InitIntakePage, {})
  BY DEF DrawsAll, InitIntakePage, Segment
<1>2. /\ ReadBy(P, {"source", "logs"}, {"SourceCards", "StrategySummary", "Terminal"})
      /\ ReadBy(P, {"strategy", "model", "route", "task", "ae", "logs"},
                {"StrategySummary", "Terminal"})
      /\ ReadBy(P, {"logs"}, {"Terminal"})
      /\ ReadBy(P, {"result", "logs"}, {"LatestAnalysis", "Terminal"})
  BY DEF ReadBy, IntakePanels, RenderSourceCards, RenderStrategySummary,
         RenderLatestAnalysis, RenderTerminal
<1>3. Panels["intake"] = P /\ Exempt("intake") = {}
      /\ Handlers["intake"] = IntakeHandlers
  BY DEF Panels, Exempt, Handlers
<1> HIDE DEF P
<1> DEFINE Log == <<PushIntakeLog({}, {})>>
<1>4. Covers(P, Log, {})
  <2>1. Ends(Log, 1, {"logs"}, {"Terminal"})
    BY DEF Ends, PushIntakeLog, Segment
  <2> QED
    BY <1>2, <2>1, LastCovers
<1>5. Covers(P, PressSource, {})
  <2>1. Ends(PressSource, 1, {"source", "logs"}, {"SourceCards", "StrategySummary", "Terminal"})
    BY DEF Ends, PressSource, PushIntakeLog, Segment
  <2> QED
    BY <1>2, <2>1, LastCovers
<1>6. Covers(P, UpdateConfig, {})
  <2>1. Ends(UpdateConfig, 1, {"strategy", "model", "route", "task", "ae", "logs"},
             {"StrategySummary", "Terminal"})
    BY DEF Ends, UpdateConfig, PushIntakeLog, Segment
  <2> QED
    BY <1>2, <2>1, LastCovers
\* An upload draws its beginning and its end.
<1>7. ASSUME NEW H, NEW W, NEW V, Len(H) = 2, H[1] = UploadBegins,
             H[2].writes = W, H[2].draws = V, ReadBy(P, W, V)
      PROVE  Covers(P, H, {})
  <2>1. /\ H[1].writes = {"source", "logs"}
        /\ H[1].draws = {"SourceCards", "StrategySummary", "Terminal"}
    BY <1>7 DEF UploadBegins, PushIntakeLog, Segment
  <2>2. ASSUME NEW v \in DOMAIN P, P[v] \cap H[1].writes # {}
        PROVE  v \in H[1].draws
    BY <1>2, <2>1, <2>2 DEF ReadBy
  <2>3. ASSUME NEW v \in DOMAIN P, P[v] \cap H[2].writes # {}
        PROVE  v \in H[2].draws
    BY <1>7, <2>3 DEF ReadBy
  <2> QED
    BY <1>7, <2>2, <2>3 DEF Covers
<1>8. Covers(P, UploadDone, {})
  <2>1. /\ Len(UploadDone) = 2 /\ UploadDone[1] = UploadBegins
        /\ UploadDone[2].writes = {"result", "logs"}
        /\ UploadDone[2].draws = {"LatestAnalysis", "Terminal"}
    BY DEF UploadDone, PushIntakeLog, Segment
  <2> QED
    BY <1>2, <1>7, <2>1
<1>9. Covers(P, UploadFails, {})
  <2>1. /\ Len(UploadFails) = 2 /\ UploadFails[1] = UploadBegins
        /\ UploadFails[2].writes = {"logs"}
        /\ UploadFails[2].draws = {"Terminal"}
    BY DEF UploadFails, PushIntakeLog, Segment
  <2> QED
    BY <1>2, <1>7, <2>1
<1>10. Covers(P, InitIntakePage, {})
  BY <1>1, DrawsAllCovers
<1> QED
  BY <1>1, <1>3, <1>4, <1>5, <1>6, <1>8, <1>9, <1>10
     DEF PageCovered, Handler, IntakeHandlers, InitHandlers

LEMMA AllCovered == \A p \in Pages : PageCovered(p)
<1>1. Pages = {"dashboard", "incidents", "response", "insights", "reports", "learning",
               "settings", "intake"}
  BY DEF Pages, Panels
<1> QED
  BY <1>1, DashboardCovered, IncidentsCovered, ResponseCovered, InsightsCovered,
     ReportsCovered, LearningCovered, SettingsCovered, IntakeCovered

\* A handler that waits draws the panel in a segment still to come.
Due(v) ==
    \E s \in Slots :
        /\ running[s] # Idle
        /\ \E k \in running[s].at + 1 .. Len(Handler(page, running[s].handler)) :
               v \in Handler(page, running[s].handler)[k].draws

Waits ==
    /\ page \in Pages
    /\ running = [s \in Slots |-> running[s]]
    /\ \A s \in Slots : running[s] # Idle =>
         /\ running[s].handler \in DOMAIN Handlers[page]
         /\ running[s].at \in 1 .. Len(Handler(page, running[s].handler)) - 1

DrawnOrDue == \A v \in (DOMAIN Panels[page]) \ Exempt(page) : v \in fresh \/ Due(v)

RestInv == Waits /\ DrawnOrDue

\* A handler that waits is not mistaken for none.
LEMMA AfterFacts ==
  ASSUME NEW p \in Pages, NEW h \in DOMAIN Handlers[p], NEW n \in 1 .. Len(Handler(p, h))
  PROVE  IF n = Len(Handler(p, h)) THEN After(p, h, n) = Idle
         ELSE /\ After(p, h, n) # Idle
              /\ After(p, h, n).handler = h /\ After(p, h, n).at = n
<1>1. n \in Nat
  BY AllCovered DEF PageCovered, Covers
<1>2. [handler |-> h, at |-> n] # Idle
  BY <1>1, IdleAssumption
<1> QED
  BY <1>2 DEF After

\* One segment of a handler: what it assigns is drawn by it or due by the same
\* handler, what was due by another one still is.
LEMMA SegmentStep ==
  ASSUME RestInv, NEW s \in Slots, NEW h \in DOMAIN Handlers[page],
         NEW n \in 1 .. Len(Handler(page, h)),
         \/ running[s] = Idle
         \/ running[s].handler = h /\ running[s].at + 1 = n,
         Run(Handler(page, h)[n]), page' = page,
         running' = [running EXCEPT ![s] = After(page, h, n)]
  PROVE  RestInv'
<1> DEFINE H == Handler(page, h)
<1>1. /\ page \in Pages /\ Len(H) \in Nat \ {0}
      /\ Covers(Panels[page], H, Exempt(page))
  BY AllCovered DEF RestInv, Waits, PageCovered, Covers
<1>2. /\ running' = [x \in Slots |-> running'[x]]
      /\ running'[s] = After(page, h, n)
      /\ \A x \in Slots \ {s} : running'[x] = running[x]
  BY DEF RestInv, Waits
<1>3. IF n = Len(H) THEN running'[s] = Idle
      ELSE running'[s] # Idle /\ running'[s].handler = h /\ running'[s].at = n
  BY <1>1, <1>2, AfterFacts
<1>4. Waits'
  <2>1. ASSUME NEW x \in Slots, running'[x] # Idle
        PROVE  /\ running'[x].handler \in DOMAIN Handlers[page']
               /\ running'[x].at \in 1 .. Len(Handler(page', running'[x].handler)) - 1
    <3>1. CASE x = s
      BY <1>1, <1>3, <2>1, <3>1
    <3>2. CASE x # s
      BY <1>2, <2>1, <3>2 DEF RestInv, Waits
    <3> QED
      BY <3>1, <3>2
  <2> QED
    BY <1>1, <1>2, <2>1 DEF Waits
<1>5. ASSUME NEW v, \E k \in n .. Len(H) : v \in H[k].draws
      PROVE  v \in fresh' \/ Due(v)'
  <2>1. PICK k \in n .. Len(H) : v \in H[k].draws
    BY <1>5
  <2>2. CASE k = n
    BY <2>1, <2>2 DEF Run
  <2>3. CASE k # n
    <3>1. n # Len(H) /\ k \in n + 1 .. Len(H)
      BY <1>1, <2>1, <2>3
    <3>2. Handler(page', running'[s].handler) = H /\ running'[s].at = n
      BY <1>3, <3>1
    <3> QED
      BY <1>3, <2>1, <3>1, <3>2 DEF Due
  <2> QED
    BY <2>2, <2>3
<1>6. ASSUME NEW v \in (DOMAIN Panels[page]) \ Exempt(page)
      PROVE  v \in fresh' \/ Due(v)'
  <2>1. CASE Panels[page][v] \cap H[n].writes # {}
    BY <1>1, <1>5, <2>1 DEF Covers
  <2>2. CASE Panels[page][v] \cap H[n].writes = {} /\ v \in fresh
    BY <2>2 DEF Run, Reading
  <2>3. CASE Due(v)
    <3>1. PICK x \in Slots :
            /\ running[x] # Idle
            /\ \E k \in running[x].at + 1 .. Len(Handler(page, running[x].handler)) :
                  v \in Handler(page, running[x].handler)[k].draws
      BY <2>3 DEF Due
    <3>2. CASE x = s
      BY <1>5, <3>1, <3>2
    <3>3. CASE x # s
      <4>1. running'[x] = running[x]
        BY <1>2, <3>3
      <4> QED
        BY <3>1, <4>1 DEF Due
    <3> QED
      BY <3>2, <3>3
  <2> QED
    BY <2>1, <2>2, <2>3 DEF RestInv, DrawnOrDue
<1> QED
  BY <1>4, <1>6 DEF RestInv, DrawnOrDue

LEMMA BeginStep == ASSUME RestInv, NEW s \in Slots, NEW h, Begin(s, h) PROVE RestInv'
<1>1. h \in DOMAIN Handlers[page] /\ running[s] = Idle /\ page' = page
  BY DEF Begin
<1>2. 1 \in 1 .. Len(Handler(page, h))
  BY <1>1, AllCovered DEF RestInv, Waits, PageCovered, Covers
<1> QED
  BY <1>1, <1>2, SegmentStep DEF Begin

LEMMA ResumeStep == ASSUME RestInv, NEW s \in Slots, Resume(s) PROVE RestInv'
<1> DEFINE h == running[s].handler
           n == running[s].at + 1
<1>1. /\ h \in DOMAIN Handlers[page] /\ page \in Pages /\ page' = page
      /\ running[s].at \in 1 .. Len(Handler(page, h)) - 1
  BY DEF Resume, RestInv, Waits
<1>2. n \in 1 .. Len(Handler(page, h))
  BY <1>1, AllCovered DEF PageCovered, Covers
<1>3. Run(Handler(page, h)[n]) /\ running' = [running EXCEPT ![s] = After(page, h, n)]
  BY DEF Resume
<1> HIDE DEF h, n
<1>4. running[s].handler = h /\ running[s].at + 1 = n
  BY DEF h, n
<1> QED
  BY <1>1, <1>2, <1>3, <1>4, SegmentStep

\* A handler waiting after its first segment has its last segment still to run.
LEMMA LastAhead ==
  ASSUME NEW n \in Nat \ {0, 1}, NEW k, k = 1
  PROVE  k \in 1 .. n - 1 /\ n \in k + 1 .. n
OBVIOUS

\* A page just opened has all its panels drawn or due by its init.
LEMMA OpenStep == ASSUME NEW p \in Pages, Open(p) PROVE RestInv'
<1>1. PICK h \in (DOMAIN Handlers[p]) \cap InitHandlers, s \in Slots :
        /\ page' = p /\ fresh' = Handler(p, h)[1].draws
        /\ running' = [x \in Slots |-> IF x = s THEN After(p, h, 1) ELSE Idle]
  BY DEF Open
<1> DEFINE H == Handler(p, h)
           A == After(p, h, 1)
<1>2. /\ Len(H) \in Nat \ {0, 1} /\ 1 \in 1 .. Len(H)
      /\ DrawsAll(Panels[p], H, Exempt(p))
  BY AllCovered, InitWaits DEF PageCovered, DrawsAll
<1>3. A # Idle /\ A.handler = h /\ A.at = 1
  <2>1. A = [handler |-> h, at |-> 1]
    BY <1>2 DEF After
  <2>2. h \in UNION {DOMAIN Handlers[q] : q \in Pages}
    OBVIOUS
  <2> QED
    BY <2>1, <2>2, IdleAssumption
<1> HIDE DEF A
<1>4. /\ running' = [x \in Slots |-> running'[x]] /\ running'[s] = A
      /\ \A x \in Slots : running'[x] # Idle => x = s
  BY <1>1 DEF A
<1>5. Handler(page', A.handler) = H
  BY <1>1, <1>3
<1> HIDE DEF H
<1>6. Waits'
  <2>1. A.at \in 1 .. Len(H) - 1
    BY <1>2, <1>3, LastAhead
  <2> QED
    BY <1>1, <1>3, <1>4, <1>5, <2>1 DEF Waits
<1>7. ASSUME NEW v \in (DOMAIN Panels[p]) \ Exempt(p)
      PROVE  Due(v)'
  <2>1. Len(H) \in A.at + 1 .. Len(H)
    BY <1>2, <1>3, LastAhead
  <2>2. v \in H[Len(H)].draws
    BY <1>2 DEF DrawsAll
  <2> QED
    BY <1>3, <1>4, <1>5, <2>1, <2>2 DEF Due
<1> QED
  BY <1>1, <1>6, <1>7 DEF RestInv, DrawnOrDue

LEMMA InitRest == Init => RestInv
<1> SUFFICES ASSUME Init PROVE RestInv
  OBVIOUS
<1> DEFINE H == Handler("dashboard", "init")
           A == [handler |-> "init", at |-> 1]
<1>1. PICK s \in Slots : running = [x \in Slots |-> IF x = s THEN A ELSE Idle]
  BY DEF Init
<1>2. /\ page = "dashboard" /\ "dashboard" \in Pages
      /\ "init" \in (DOMAIN Handlers["dashboard"]) \cap InitHandlers
  BY DEF Init, Pages, Panels, Handlers, DashboardHandlers, InitHandlers
<1>3. /\ Len(H) \in Nat \ {0, 1}
      /\ DrawsAll(Panels["dashboard"], H, Exempt("dashboard"))
  BY <1>2, AllCovered, InitWaits DEF PageCovered, DrawsAll
<1>4. A # Idle /\ A.handler = "init" /\ A.at = 1
  <2>1. "init" \in UNION {DOMAIN Handlers[q] : q \in Pages}
    BY <1>2
  <2> QED
    BY <2>1, IdleAssumption
<1> HIDE DEF A
<1>5. /\ running = [x \in Slots |-> running[x]] /\ running[s] = A
      /\ \A x \in Slots : running[x] # Idle => x = s
  BY <1>1
<1>6. Handler(page, A.handler) = H
  BY <1>2, <1>4
<1> HIDE DEF H
<1>7. Waits
  <2>1. A.at \in 1 .. Len(H) - 1
    BY <1>3, <1>4, LastAhead
  <2> QED
    BY <1>2, <1>4, <1>5, <1>6, <2>1 DEF Waits
<1>8. ASSUME NEW v \in (DOMAIN Panels["dashboard"]) \ Exempt("dashboard")
      PROVE  Due(v)
  <2>1. Len(H) \in A.at + 1 .. Len(H)
    BY <1>3, <1>4, LastAhead
  <2>2. v \in H[Len(H)].draws
    BY <1>3 DEF DrawsAll
  <2> QED
    BY <1>4, <1>5, <1>6, <2>1, <2>2 DEF Due
<1> QED
  BY <1>2, <1>7, <1>8 DEF RestInv, DrawnOrDue

LEMMA NextRest == RestInv /\ [Next]_vars => RestInv'
<1> SUFFICES ASSUME RestInv, [Next]_vars
             PROVE  RestInv'
  OBVIOUS
<1>1. ASSUME UNCHANGED <<page, fresh, running>>
      PROVE  RestInv'
  BY <1>1 DEF RestInv, Waits, DrawnOrDue, Due
<1>2. ASSUME NEW p \in Pages, OpenPage(p)
      PROVE  RestInv'
  BY <1>2, OpenStep DEF OpenPage
<1>3. ASSUME NEW s \in Slots, NEW h, Begin(s, h)
      PROVE  RestInv'
  BY <1>3, BeginStep
<1>4. ASSUME NEW s \in Slots, Resume(s)
      PROVE  RestInv'
  BY <1>4, ResumeStep
<1> QED
  BY <1>1, <1>2, <1>3, <1>4
     DEF Next, vars, Advance, RefreshDashboard, ChooseWindow, ResizeDashboard,
         DashboardAnswered, RefreshLedger, SendStatus, StatusAnswered, LedgerAnswered,
         Search, ChooseMode, PickEvent, BeginElsewhere, ResumeElsewhere

\* When no handler waits every panel of the page shows the present state, however
\* many handlers overlapped and in whatever order their answers came.
THEOREM DrawnAtRest == Spec => []AtRestDrawn
<1>1. RestInv => AtRestDrawn
  BY DEF RestInv, DrawnOrDue, Due, AtRest, AtRestDrawn, Exempt
<1> QED
  BY <1>1, InitRest, NextRest, PTL DEF Spec
=============================================================================
