------------------------------- MODULE Handlers -------------------------------
(***************************************************************************)
(* What the handler of each GET request does, as a sequence of stages.     *)
(* A stage that fails answers with the status "fail" and ends the handler, *)
(* unless it is said to go on.  Requests says what the stages do.  The     *)
(* handlers that write profiles are in ProfileWrites.                      *)
(***************************************************************************)
EXTENDS Naturals, Sequences

Stage(what, arg, status) == [do |-> what, arg |-> arg, fail |-> status]

\* A part of the query is parsed.  When it is malformed: Query writes an error with a body
\* and goes on with what it has, Check writes an error and goes on, Require returns.
Query(part) == Stage("query", part, 400)
Check(part) == Stage("check", part, 400)
Require(part) == Stage("require", part, 400)
\* The handler returns, and writes nothing itself, when the part was malformed.
ReturnIfBad(part) == Stage("returnIfBad", part, 400)

Token == Stage("token", "header", 401)                   \* validateToken
Installed == Stage("installed", "Capi", 500)             \* isCAPIInstalled
MayAll(kind, status) == Stage("mayAll", kind, status)    \* remembered, not refused
MayGet(part) == Stage("mayGet", part, 401)
MayGetUnlessAll(part) == Stage("mayGetUnlessAll", part, 401)
CopyProfiles == Stage("copy", "Profile", 500)
List(kind, status) == Stage("list", kind, status)        \* one by one unless MayAll
Read(kind, status) == Stage("read", kind, status)        \* what belongs to the cluster
Get(part, status) == Stage("get", part, status)          \* fails when it does not exist
GetOr404(part, status) == Stage("getOr404", part, status)
GetOrNull(part, status) == Stage("getOrNull", part, status)
Filter == Stage("filter", "filters", 400)
Page(bounds) == Stage("page", bounds, 400)
CacheHas(part) == Stage("cacheHas", part, 200)           \* answers, and goes on, when not
Ask == Stage("ask", "mcp", 500)                          \* the MCP server
Answer == Stage("answer", "data", 200)

-----------------------------------------------------------------------------
(* Lists of what the user may get                                          *)

getManagedCAPIClusters ==
  <<Installed, Query("page"), Require("filters"), Token, MayAll("Capi", 401),
    List("Capi", 401), Filter, Page("clusters"), Answer>>

getManagedSveltosClusters ==
  <<Query("page"), Require("filters"), Token, MayAll("Sveltos", 401),
    List("Sveltos", 401), Filter, Page("clusters"), Answer>>

getProfiles ==
  <<Token, MayAll("ClusterProfile", 401), MayAll("Profile", 401), CopyProfiles,
    List("ClusterProfile", 401), List("Profile", 401), Filter, Answer>>

getEvents ==
  <<Query("page"), Token, MayAll("EventTrigger", 401), List("EventTrigger", 401), Filter,
    Page("slice"), Answer>>

getClassifiers ==
  <<Query("page"), Token, MayAll("Classifier", 401), MayAll("MCC", 401),
    List("Classifier", 401), List("MCC", 401), Filter, Page("slice"), Answer>>

countClusters ==
  <<MayAll("Sveltos", 500), MayAll("Capi", 500), List("Sveltos", 500), List("Capi", 500)>>

countClusterProfilesAndProfiles ==
  <<MayAll("ClusterProfile", 500), MayAll("Profile", 500), CopyProfiles,
    List("ClusterProfile", 500), List("Profile", 500)>>

countClusterSummaries == <<MayAll("ClusterSummary", 500), List("ClusterSummary", 500)>>

countEventTriggers == <<MayAll("EventTrigger", 500), List("EventTrigger", 500)>>

countClassifiers == <<MayAll("Classifier", 500), List("Classifier", 500)>>

countManagementClusterClassifiers == <<MayAll("MCC", 500), List("MCC", 500)>>

getStats ==
  <<Token>> \o countClusters \o countClusterProfilesAndProfiles \o countClusterSummaries
    \o countEventTriggers \o countClassifiers \o countManagementClusterClassifiers
    \o <<Answer>>

-----------------------------------------------------------------------------
(* Pages of one cluster                                                    *)

getDeployedHelmCharts ==
  <<Query("cluster"), Query("page"), Token, MayGet("cluster"), Read("Chart", 400), Filter,
    Page("slice"), Answer>>

getDeployedResources ==
  <<Query("cluster"), Query("page"), Token, MayGet("cluster"), Read("Resource", 400), Filter,
    Page("slice"), Answer>>

getClusterStatus ==
  <<Query("cluster"), Query("failed"), Query("page"), Token, MayGet("cluster"),
    Read("Status", 400), Filter, Page("slice"), Answer>>

getClusterHealth ==
  <<Query("cluster"), Query("page"), Token, MayGet("cluster"), Read("Unhealthy", 400), Filter,
    Page("slice"), Answer>>

-----------------------------------------------------------------------------
(* Pages of one object                                                     *)

getProfile ==
  <<Check("profile"), Token, MayGet("profile"), CacheHas("profile"), Get("profile", 500),
    Answer>>

getEvent ==
  <<Check("trigger"), Token, MayAll("EventTrigger", 401), MayGetUnlessAll("trigger"),
    MayAll("Capi", 401), List("Capi", 401), MayAll("Sveltos", 401), List("Sveltos", 401),
    GetOrNull("trigger", 500), Answer>>

getEventResources ==
  <<Require("trigger"), Query("cluster"), ReturnIfBad("cluster"), Query("page"), Token,
    MayAll("EventTrigger", 401), MayGetUnlessAll("trigger"), MayGet("cluster"),
    GetOr404("trigger", 400), Read("Matching", 400), Filter, Page("slice"), Answer>>

getClassifier ==
  <<Require("classifier"), Token, MayAll("classifier", 401), MayGetUnlessAll("classifier"),
    GetOrNull("classifier", 500), Answer>>

getDryRunChanges ==
  <<Require("profile"), Query("cluster"), ReturnIfBad("cluster"), Token, MayGet("cluster"),
    MayGet("profile"), Read("Report", 500), Answer>>

-----------------------------------------------------------------------------
(* Questions to the MCP server                                             *)

checkInstallationState == <<Token, Ask, Answer>>

checkProfileDeploymentOnCluster ==
  <<Check("cluster"), Check("profile"), Token, MayGet("cluster"), MayGet("profile"), Ask, Answer>>

checkClusterDeploymentStatuses == <<Query("cluster"), Token, MayGet("cluster"), Ask, Answer>>

\* For event triggers and for classifiers.
handleAnalyzePipeline == <<Query("cluster"), Token, MayGet("cluster"), Ask, Answer>>

-----------------------------------------------------------------------------

\* The handler of each path.
Handler ==
  [capiclusters |-> getManagedCAPIClusters, sveltosclusters |-> getManagedSveltosClusters,
   helmcharts |-> getDeployedHelmCharts, resources |-> getDeployedResources,
   getClusterStatus |-> getClusterStatus, clusterHealth |-> getClusterHealth,
   profiles |-> getProfiles, profile |-> getProfile, events |-> getEvents, event |-> getEvent,
   eventResources |-> getEventResources, classifiers |-> getClassifiers,
   classifier |-> getClassifier, stats |-> getStats, installation |-> checkInstallationState,
   debugProfileCluster |-> checkProfileDeploymentOnCluster,
   debugCluster |-> checkClusterDeploymentStatuses,
   analyzeEventPipeline |-> handleAnalyzePipeline,
   analyzeClassifierPipeline |-> handleAnalyzePipeline, dryRunChanges |-> getDryRunChanges]

Paths == DOMAIN Handler

\* What the handlers have in common.
WellFormed(h) ==
  /\ h \in Seq([do : STRING, arg : STRING, fail : Nat])
  /\ h # <<>> /\ h[Len(h)] = Answer
  /\ \E i \in DOMAIN h : h[i] = Token
  /\ \A i \in DOMAIN h :
       /\ h[i].do \notin {"cacheHas", "answer"} => h[i].fail \in {400, 401, 500}
       /\ h[i].do = "answer" => i = Len(h)
       /\ h[i].do = "page" => i + 1 = Len(h)
       /\ h[i].do = "installed" =>
            i = 1 /\ \A j \in DOMAIN h : h[j].do \notin {"mayGet", "mayGetUnlessAll"}
       /\ h[i].do = "installed" => \A j \in DOMAIN h : h[j].do = "list" => h[j].arg = "Capi"
       /\ h[i].do = "list" =>
            /\ h[i].arg \in {"Sveltos", "Capi", "ClusterSummary", "ClusterProfile", "Profile",
                             "EventTrigger", "Classifier", "MCC"}
            /\ h[i].arg \in {"Sveltos", "Capi", "ClusterSummary"} =>
                 \E j \in 1..(i - 1) : h[j].do = "mayAll" /\ h[j].arg = h[i].arg
            /\ h[i].arg \in {"ClusterProfile", "Profile"} =>
                 \E j \in 1..(i - 1) : h[j].do = "copy"
       /\ h[i].do = "read" => h[i].arg \notin {"Sveltos", "Capi", "ClusterSummary",
            "ClusterProfile", "Profile", "EventTrigger", "Classifier", "MCC"}
       /\ h[i].do \in {"mayGet", "mayGetUnlessAll"} =>
            /\ h[i].arg \in {"cluster", "profile", "trigger", "classifier"}
            /\ \E j \in 1..(i - 1) :
                 h[j].do \in {"query", "check", "require"} /\ h[j].arg = h[i].arg
       /\ h[i].do = "mayGetUnlessAll" => h[i].arg \in {"trigger", "classifier"}
       /\ h[i].do = "returnIfBad" =>
            \E j \in 1..(i - 1) : h[j].do = "query" /\ h[j].arg = h[i].arg
       /\ h[i].do \in {"query", "check", "require", "ask"} =>
            \A j \in 1..(i - 1) : h[j].do # "cacheHas"

\* There is no constant in it: TLC decides it.
ASSUME HandlerTable == \A p \in Paths : WellFormed(Handler[p])

===============================================================================
