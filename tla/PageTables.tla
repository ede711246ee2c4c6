----------------------------- MODULE PageTables -----------------------------
(***************************************************************************)
(* The pages of the application (src/frontend/app.js): what each draws and *)
(* what its code assigns.  A panel is a part of the page that one function *)
(* draws; its definition is the set of fields of the page's objects that   *)
(* the function reads, through the helpers it calls.  A load or a handler  *)
(* is the set of fields it may assign.  Markup, wording and form controls  *)
(* are left out.                                                           *)
(*                                                                         *)
(* A handler is a sequence of segments, one per stretch of code between    *)
(* two awaits; a segment assigns fields and draws panels.  A panel counts  *)
(* as drawn by a segment when it is drawn after the last assignment to a   *)
(* field it reads.  Where an answer decides how a handler goes on, each    *)
(* way is a handler of its own with the same beginning.                    *)
(*                                                                         *)
(* Only what a signed-in user can reach is here.  currentUserIsAdmin is    *)
(* false on every page: the role is set again from /auth/me, which names   *)
(* none.  So the controls of the sensor and of the endpoint agent, which   *)
(* the pages hide from a user, have no handler.                            *)
(***************************************************************************)
EXTENDS Sequences

Segment(writes, draws) == [writes |-> writes, draws |-> draws]
Nothing == Segment({}, {})

\* A handler that waits for nothing.
Sync(writes, draws) == <<Segment(writes, draws)>>

\* A page that loads, and then draws.
LoadThenDraw(writes, draws) == <<Nothing, Segment(writes, draws)>>

-----------------------------------------------------------------------------
(* The dashboard. *)

RenderRiskGauge == {"riskScore", "riskStatus", "riskDrivers"}
RenderKpis == {"kpis"}
SentinelThreatPosture == {"liveTelemetryLoaded", "riskScore"}
SentinelPrimaryIncident == {"incidents"}
SentinelEntityGraphData == {"topology", "recentEvents"}
RenderSentinelCommandCenter ==
    SentinelThreatPosture \cup SentinelPrimaryIncident \cup SentinelEntityGraphData
    \cup {"metricsSummary", "reviewAudit", "kpis", "trend", "adaptation", "ticker",
          "optimization", "observationWindowMinutes", "windowMinutes"}
RenderMaterializationFunnel == {"metricsSummary"}
RenderMetricsHealth == {"metricsSummary"}
RenderDistributedSensors == {"distributedSensors"}
RenderThreatActivityStream == {"recentEvents"}
RenderIngestionFlow == {"distributedSensors", "incidents", "metricsSummary"}
RenderOptimizationStatus == {"optimization"}
RenderConflictDistribution == {"reviewAudit"}
RenderOptimizationHistory == {"optimizationHistory"}
RenderDashboardWindowToggle == {"windowMinutes"}
RenderTopology == {"liveTelemetryLoaded", "observationWindowMinutes", "topology"}
RenderThreatTrend == {"observationWindowMinutes", "trend"}
RenderTicker == {"observationWindowMinutes", "ticker"}
RenderAdaptation == {"adaptation"}
RenderTables == {"incidents", "recentEvents"}

DashboardPanels ==
    [SentinelCommandCenter |-> RenderSentinelCommandCenter,
     DashboardWindowToggle |-> RenderDashboardWindowToggle,
     Kpis |-> RenderKpis, RiskGauge |-> RenderRiskGauge,
     MaterializationFunnel |-> RenderMaterializationFunnel,
     MetricsHealth |-> RenderMetricsHealth,
     DistributedSensors |-> RenderDistributedSensors,
     ThreatActivityStream |-> RenderThreatActivityStream,
     IngestionFlow |-> RenderIngestionFlow,
     ConflictDistribution |-> RenderConflictDistribution,
     Topology |-> RenderTopology, ThreatTrend |-> RenderThreatTrend,
     Ticker |-> RenderTicker, Adaptation |-> RenderAdaptation,
     OptimizationStatus |-> RenderOptimizationStatus,
     OptimizationHistory |-> RenderOptimizationHistory, Tables |-> RenderTables]

\* loadDashboardFromApi assigns these after its seven requests are answered.
LoadDashboard == (UNION {DashboardPanels[v] : v \in DOMAIN DashboardPanels})
                 \ {"windowMinutes"}

\* initDashboardPage draws all panels but these, whose functions only the
\* refresh calls.
DrawnOnRefresh == {"DistributedSensors", "ThreatActivityStream", "IngestionFlow"}
InitDashboardPage ==
    LoadThenDraw(LoadDashboard, (DOMAIN DashboardPanels) \ DrawnOnRefresh)

RefreshDashboardPage == LoadThenDraw(LoadDashboard, DOMAIN DashboardPanels)

\* The two window toggles; only the first draws itself before it waits.
PressWindow ==
    <<Segment({"windowMinutes"}, {"DashboardWindowToggle"})>> \o Tail(RefreshDashboardPage)
PressSentinelWindow ==
    <<Segment({"windowMinutes"}, {})>> \o Tail(RefreshDashboardPage)

DashboardHandlers ==
    [init |-> InitDashboardPage, refresh |-> RefreshDashboardPage,
     window |-> PressWindow, sentinelWindow |-> PressSentinelWindow,
     resize |-> Sync({}, {"ThreatTrend"})]

-----------------------------------------------------------------------------
(* The list of events, with the command centre beside it. *)

RenderIncidentCommandCenter ==
    {"items", "lastUpdated", "mode", "search", "selectedEventId"}
RenderIncidentEventLedger == {"items", "lastUpdated", "mode", "search"}

IncidentPanels == [IncidentCommandCenter |-> RenderIncidentCommandCenter,
                   IncidentEventLedger |-> RenderIncidentEventLedger]

LoadIncidentEventLedger == {"items", "lastUpdated"}
DrawLedger == DOMAIN IncidentPanels

\* A press of a status button sends the status, loads the list and draws it.
PressStatus == <<Nothing>> \o LoadThenDraw(LoadIncidentEventLedger, DrawLedger)

IncidentHandlers ==
    [init |-> LoadThenDraw(LoadIncidentEventLedger, DrawLedger),
     refresh |-> LoadThenDraw(LoadIncidentEventLedger, DrawLedger),
     search |-> Sync({"search"}, DrawLedger),
     mode |-> Sync({"mode"}, DrawLedger),
     pick |-> Sync({"selectedEventId"}, {"IncidentCommandCenter"}),
     status |-> PressStatus]

-----------------------------------------------------------------------------
(* The response centre. *)

RenderResponseContext ==
    {"incidentId", "riskScore", "severity", "attackType", "verificationTier",
     "events", "detectionMode", "driftImpact"}
RenderWorkflowStatus == {"attackType", "status", "sla", "nextStep"}
RenderResponseAdvisor == {"advisor", "events", "primaryEventId"}
RenderDecisionHistory == {"reviewHistory"}
RenderResponseTimeline == {"timeline", "auditTrail"}
RenderPlaybook == {"playbook", "actions"}
RenderFeedbackSummary ==
    {"feedbackLabel", "addReviewPool", "analystLabelSuggestion",
     "analystGuidance", "followupChecks"}
RenderFeedbackFlow ==
    {"incidentId", "feedbackLabel", "feedbackType", "confidenceOverride",
     "addReviewPool", "addFinetunePool"}
RenderFeedbackHistory == {"savedFeedback", "assigneeOptions"}
RenderArtifacts == {"artifacts"}

ResponsePanels ==
    [ResponseContext |-> RenderResponseContext, WorkflowStatus |-> RenderWorkflowStatus,
     ResponseAdvisor |-> RenderResponseAdvisor, DecisionHistory |-> RenderDecisionHistory,
     ResponseTimeline |-> RenderResponseTimeline, Playbook |-> RenderPlaybook,
     FeedbackSummary |-> RenderFeedbackSummary, FeedbackFlow |-> RenderFeedbackFlow,
     FeedbackHistory |-> RenderFeedbackHistory, Artifacts |-> RenderArtifacts]

\* loadResponseFromApi without a case: the fields it resets, others stay.
ResetResponse ==
    {"assigneeOptions", "incidentId", "primaryEventId", "verificationTier",
     "analystLabelSuggestion", "analystGuidance", "followupChecks", "feedbackLabel",
     "timeline", "playbook", "actions", "artifacts", "auditTrail", "savedFeedback",
     "reviewHistory", "attackType", "nextStep", "advisor"}

\* With a case and its details; the rest of the form keeps its defaults.
LoadResponse ==
    ResetResponse \cup {"riskScore", "severity", "events", "detectionMode",
                        "driftImpact", "assignee", "status", "sla"}

\* initResponsePage, by how loadResponseFromApi ends: without a case, with one
\* whose details did not come, with one.
InitResponse(waits, writes) == waits \o <<Segment(writes, DOMAIN ResponsePanels)>>
InitNoCase == InitResponse(<<Nothing>>, ResetResponse)
InitNoDetail == InitResponse(<<Nothing, Nothing>>, {})
InitCase == InitResponse(<<Nothing, Nothing>>, LoadResponse)

Workflow == {"WorkflowStatus", "ResponseTimeline"}

\* Choosing an assignee: known to the backend, the choice is sent first.
AssigneeSent ==
    <<Segment({"assignee", "auditTrail"}, {}), Segment({}, Workflow)>>
AssigneeOnly == Sync({"assignee", "auditTrail"}, Workflow)

PressFeedback == Sync({"feedbackLabel"}, {"FeedbackSummary", "FeedbackFlow"})
TogglePool(field) == Sync({field}, {"FeedbackSummary", "FeedbackFlow"})

\* Submitting the review: the answer decides what is noted, then the advice and
\* the history of the case are asked for again.
AfterFeedback ==
    {"WorkflowStatus", "ResponseAdvisor", "DecisionHistory", "ResponseTimeline",
     "FeedbackSummary", "FeedbackFlow", "FeedbackHistory"}
SubmitFeedback ==
    <<Nothing,
      Segment({"auditTrail", "nextStep", "savedFeedback", "status"}, {}),
      Segment({"advisor", "reviewHistory"}, AfterFeedback)>>
SubmitFeedbackNoCase ==
    <<Nothing,
      Segment({"auditTrail", "nextStep", "savedFeedback", "status"}, AfterFeedback)>>

\* A recommended action; one about the firewall is sent first.
RecommendedAction == Sync({"nextStep", "auditTrail"}, Workflow)
FirewallAction ==
    <<Segment({"nextStep", "auditTrail"}, {}), Segment({"auditTrail"}, Workflow)>>

\* An artifact: with a case a file is made or fetched first.
ArtifactAction ==
    <<Segment({"auditTrail"}, {}), Segment({"auditTrail"}, {"ResponseTimeline"})>>
ArtifactNoCase == Sync({"auditTrail"}, {"ResponseTimeline"})

ResponseHandlers ==
    [init |-> InitCase, initNoCase |-> InitNoCase, initNoDetail |-> InitNoDetail,
     assigneeSent |-> AssigneeSent, assigneeOnly |-> AssigneeOnly,
     status |-> Sync({"status", "auditTrail"}, Workflow),
     type |-> Sync({"feedbackType"}, {"FeedbackFlow"}),
     confidence |-> Sync({"confidenceOverride"}, {"FeedbackFlow"}),
     reviewPool |-> TogglePool("addReviewPool"),
     finetunePool |-> TogglePool("addFinetunePool"),
     label |-> PressFeedback, submit |-> SubmitFeedback,
     submitNoCase |-> SubmitFeedbackNoCase, action |-> RecommendedAction,
     firewall |-> FirewallAction, artifact |-> ArtifactAction,
     artifactNoCase |-> ArtifactNoCase]

-----------------------------------------------------------------------------
(* Insights. *)

RenderInsightsSetup == {"setup", "summary"}
RenderDriftFeatureRows == {"driftFeatures"}
RenderDriftCanvas == {"driftFeatures"}
RenderConfidence == {"confidence"}
RenderStageToggle == {"selectedStage"}
RenderComparisonCanvas == {"strategies", "selectedStage"}
RenderStageMetrics == {"strategies", "selectedStage"}
RenderFeatureImportance == {"featureImportance", "conclusions"}

InsightsPanels ==
    [InsightsSetup |-> RenderInsightsSetup, DriftCanvas |-> RenderDriftCanvas,
     DriftFeatureRows |-> RenderDriftFeatureRows, Confidence |-> RenderConfidence,
     StageToggle |-> RenderStageToggle, ComparisonCanvas |-> RenderComparisonCanvas,
     StageMetrics |-> RenderStageMetrics, FeatureImportance |-> RenderFeatureImportance]

LoadInsights == {"setup", "summary", "driftFeatures", "strategies"}

\* Mutant: the numbers of the stage are not drawn again.
PressStageChart == Sync({"selectedStage"}, {"StageToggle", "ComparisonCanvas"})

PressStage ==
    Sync({"selectedStage"}, {"StageToggle", "ComparisonCanvas", "StageMetrics"})
InitInsightsPage == LoadThenDraw(LoadInsights, DOMAIN InsightsPanels)

InsightsHandlers ==
    [init |-> InitInsightsPage, stage |-> PressStage,
     resize |-> Sync({}, {"DriftCanvas", "ComparisonCanvas"})]

-----------------------------------------------------------------------------
(* Reports. *)

RenderReportPreview == {"preview", "exportSummary", "range", "format"}
RenderReportBundleCards == {"bundle"}
RenderReportHistory == {"history"}
RenderReportTimelineChart == {"timeline"}
RenderReportRadarChart == {"radar"}

ReportsPanels ==
    [ReportPreview |-> RenderReportPreview, ReportBundleCards |-> RenderReportBundleCards,
     ReportHistory |-> RenderReportHistory,
     ReportTimelineChart |-> RenderReportTimelineChart,
     ReportRadarChart |-> RenderReportRadarChart]

\* loadReportsFromApi: the first case, and then its details; or neither.
LoadReports ==
    <<Nothing, Segment({"preview"}, {}),
      Segment({"exportSummary", "timeline", "history"}, DOMAIN ReportsPanels)>>
LoadReportsEmpty ==
    LoadThenDraw({"preview", "exportSummary", "timeline", "history"}, DOMAIN ReportsPanels)

\* The two export buttons note an export only when the answer holds one.
ExportDone == LoadThenDraw({"history"}, {"ReportHistory"})
ExportRefused == <<Nothing, Nothing>>

ReportsHandlers ==
    [init |-> LoadReports, initEmpty |-> LoadReportsEmpty,
     range |-> Sync({"range"}, {"ReportPreview"}),
     format |-> Sync({"format"}, {"ReportPreview"}),
     exportDone |-> ExportDone, exportRefused |-> ExportRefused]

-----------------------------------------------------------------------------
(* The learning queue. *)

LearningFilter == {"items", "search", "pool", "label", "training"}
RenderLearningQueueSummary == LearningFilter \cup {"jobs"}
RenderLearningQueueTables == LearningFilter \cup {"jobs"}
RenderLearningQueueFlow == {"actionLog"}

LearningPanels ==
    [LearningQueueSummary |-> RenderLearningQueueSummary,
     LearningQueueTables |-> RenderLearningQueueTables,
     LearningQueueFlow |-> RenderLearningQueueFlow]

LoadLearningQueue == {"items", "jobs"}
FilterLearning ==
    Sync({"search", "pool", "label", "training"},
         {"LearningQueueSummary", "LearningQueueTables"})
ExportCandidates == LoadThenDraw({"actionLog"}, {"LearningQueueFlow"})

LearningHandlers ==
    [init |-> LoadThenDraw(LoadLearningQueue, DOMAIN LearningPanels),
     filter |-> FilterLearning, export |-> ExportCandidates,
     unavailable |-> Sync({"actionLog"}, {"LearningQueueFlow"})]

-----------------------------------------------------------------------------
(* Settings: renderSettingsSummary draws every part of the page but the panel of *)
(* the sensor, before which it returns when the user is no administrator.        *)

RenderSummaryGrid == {"registry", "geoip", "users", "collectors", "agents",
                      "registryEntries", "jobs", "sensor"}
RenderRuntimeGrid == {"registry", "sensor"}
RenderGeoip == {"geoip", "geoCoverage"}
RenderPeopleAndAgents == {"users", "collectors", "agents"}
RenderAgentHost == {"agentHostRuntime"}
RenderRegistry == {"registry", "lineage", "registryEntries", "jobs"}
RenderActionLog == {"actionLog", "geoip", "geoCoverage", "registry",
                    "registryEntries", "jobs", "agents", "agentHostRuntime", "sensor"}

SettingsPanels ==
    [SummaryGrid |-> RenderSummaryGrid, RuntimeGrid |-> RenderRuntimeGrid,
     Geoip |-> RenderGeoip, PeopleAndAgents |-> RenderPeopleAndAgents,
     AgentHost |-> RenderAgentHost, Registry |-> RenderRegistry,
     ActionLog |-> RenderActionLog]

\* loadSettingsFromApi empties the lists, the log and the sensor before it asks,
\* and fills in what it is answered.
EmptySettings == {"users", "collectors", "agents", "registryEntries", "jobs",
                  "actionLog", "sensor"}
FillSettings == {"registry", "geoip", "geoCoverage"}
LoadSettings(before) ==
    <<Segment(EmptySettings \cup before, {}),
      Segment(FillSettings, DOMAIN SettingsPanels)>>

SettingsHandlers ==
    [init |-> LoadSettings({}), refresh |-> LoadSettings({}),
     refreshSystem |-> LoadSettings({"actionLog"})]

-----------------------------------------------------------------------------
(* Intake. *)

RenderSourceCards == {"sources", "source"}
RenderStrategySummary == {"running", "autoDetectionActive", "strategy", "model",
                          "task", "route", "ae"}
RenderLatestAnalysis == {"result"}
RenderTerminal == {"logs"}

IntakePanels ==
    [SourceCards |-> RenderSourceCards, StrategySummary |-> RenderStrategySummary,
     LatestAnalysis |-> RenderLatestAnalysis, Terminal |-> RenderTerminal]

\* pushIntakeLog and updateLatestAnalysis draw what they assign.
PushIntakeLog(writes, draws) == Segment(writes \cup {"logs"}, draws \cup {"Terminal"})

\* initIntakePage: nothing is left running for a user, then the latest events.
InitIntakePage ==
    <<Segment({"running"}, {}), Segment({"result"}, DOMAIN IntakePanels)>>

PressSource == <<PushIntakeLog({"source"}, {"SourceCards", "StrategySummary"})>>
UpdateConfig ==
    <<PushIntakeLog({"strategy", "model", "route", "task", "ae"}, {"StrategySummary"})>>

\* The upload of a file, which the backend takes or refuses.
UploadBegins == PushIntakeLog({"source"}, {"SourceCards", "StrategySummary"})
UploadDone == <<UploadBegins, PushIntakeLog({"result"}, {"LatestAnalysis"})>>
UploadFails == <<UploadBegins, PushIntakeLog({}, {})>>

IntakeHandlers ==
    [init |-> InitIntakePage, source |-> PressSource, config |-> UpdateConfig,
     upload |-> UploadDone, uploadFails |-> UploadFails,
     log |-> <<PushIntakeLog({}, {})>>]

-----------------------------------------------------------------------------
(* All pages. *)

Panels ==
    [dashboard |-> DashboardPanels, incidents |-> IncidentPanels,
     response |-> ResponsePanels, insights |-> InsightsPanels,
     reports |-> ReportsPanels, learning |-> LearningPanels,
     settings |-> SettingsPanels, intake |-> IntakePanels]

Handlers ==
    [dashboard |-> DashboardHandlers, incidents |-> IncidentHandlers,
     response |-> ResponseHandlers, insights |-> InsightsHandlers,
     reports |-> ReportsHandlers, learning |-> LearningHandlers,
     settings |-> SettingsHandlers, intake |-> IntakeHandlers]

Pages == DOMAIN Panels
InitHandlers == {"init", "initNoCase", "initNoDetail", "initEmpty"}
=============================================================================
