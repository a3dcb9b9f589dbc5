# Verification of the Sveltos UI backend

TLA+ models of `ui-backend`, the server behind the Sveltos dashboard, with TLC
runs that check them on small instances and TLAPS proofs that hold for every
instance. Paths below are relative to the repository.

The backend watches the management cluster with a set of controllers, keeps what
the dashboard shows in maps in memory, and answers HTTP requests from those maps
and from the API server, with the rights of the user who asks. It persists
nothing: a restart rebuilds every map from the watches. What can go wrong is
therefore that a map and the objects part ways, that a request sees two moments
at once, or that a write of several objects stops in the middle.

## The system

| component | state | operations | fed by / read by |
|---|---|---|---|
| health cache, `internal/server/health.go` | summaries, generated checks (two inverse maps), reports, an index by cluster for summaries and reports, a state per cluster; one lock | `setSummary`, `removeSummary`, `setGeneratedCheck`, `removeGeneratedCheck`, `setReport`, `removeReport`, `state`, `evaluate` | three controllers / cluster list, health page |
| cluster badges, `internal/server/manager.go` | `clusterSummaryReport` and the sets of summaries with issues, provisioning and outdated charts per cluster; one lock | `AddClusterProfileStatus`, `RemoveClusterProfileStatus`, `ClusterHasIssues`... | ClusterSummary controller / cluster list, cluster page, profile page |
| controllers of ClusterSummary, HealthCheck and HealthCheckReport, with `predicates.go` | work queue, one worker per key with a copy of the object | `Reconcile`, predicates, resync | API server / the two caches above |
| cluster list, `internal/server/http.go` | the row being built | four readings per row | both caches |
| profile cache, `internal/server/manager.go`, `clusterprofile_controller.go`, `profile_controller.go` | `profiles`: dependencies and dependents of each; one lock | `AddProfile`, `RemoveProfile`, `GetProfiles`, `GetProfile` | two controllers / profile pages |
| profile writes, `internal/server/profile_writes.go` | the objects in the API server, the state of each handler | POST, PUT, DELETE `/profile`, each several calls | users, in parallel |
| cluster inventory, `internal/server/manager.go`, `sveltoscluster_controller.go`, `cluster_controller.go`, `cmd/main.go` | `sveltosClusters`, `capiClusters`; whether the ClusterAPI controller runs | `Add...`, `Remove...`, `GetManaged...`, `startClusterController`, `capiCRDHandler` | two controllers / cluster list, profile page |
| profile page, `internal/server/rollout.go`, `k8s-utils.go`, `http.go` | one request: its copy of the profile, remembered permissions, rows | `getProfile`, `clusterAccessChecker`, `rolloutTracker` | users / cluster and badge caches, access reviews |
| the other GET requests, `internal/server/http.go`, `k8s-utils.go`, `managed_clusters.go`, `addons.go`, `events.go`, `classifiers.go`, `dryrun.go`, `stats.go`, `cluster_health.go` | one request: what the user may list, rows, page, status | twenty handlers made of the same stages: query, token, reviews, lists, filter, page | users / all maps, API server, access reviews |
| MCP client, `internal/mcpclient/client.go` | one session per request | `connect`, a tool, `Close` | four debug pages / the MCP server |
| not modelled: OIDC proxy, most of process set-up | none that outlives a request | | |

What is hard here is the distance between an event and its effect. A worker
applies the object it read, not the one that exists, while the queue holds the
key again; workers of different keys and kinds run together; predicates drop
updates; the order in which related objects arrive is arbitrary. Handlers read
several maps under several locks, or ask the API server several times while the
world moves. Writes of a profile and its content are no transaction.
`PROJECT.json` lists the hazards one by one, each at its line.

What makes each part correct:

* health cache: whatever it was told, in whatever order, its indexes, its inverse
  maps and the state of each cluster are those a recomputation from scratch gives;
* badges: those of a cluster follow from its reports, and nothing deleted keeps one on;
* controllers: at rest the caches say what the API server says;
* cluster list: a row is one consistent picture unless what it shows changed;
* profile cache: dependents are the mirror of dependencies, whatever the order;
* profile writes: a failed create leaves nothing, a successful one keeps its
  content, content does not go before its profile;
* inventory: both ways of listing agree; ClusterAPI may be installed at any time;
* profile page: exactly the clusters the user may get, counted once each;
* every GET request: nothing shown that was not reviewed, nothing lost that was
  there all along, one answer with the right status, and pages that make up the list;
* MCP client: a session ends with its request, and a client is told when none could be made.

## Modules

`HealthCache` is `healthCache`: a variable per map, an action per method.
`removeSummary` takes two locks one after the other, so it is two actions
(`RemoveSummaryLook`, `RemoveSummary`) with a caller in between. How a health
state follows from its inputs is `libsveltos`; here the state *is* the set of
inputs joined, the finest thing any such function could depend on.

`HealthView` is the abstract specification: what is monitored, attributed and
reported, and a state always computed from all of it. `HealthCache!View` is the
refinement mapping, `ImplementsView` the property.

`ClusterStatus` is the map of reports and the three badge sets. A report has a
state per feature and whether its summary waits for dependencies. The outdated
chart badge depends on chart data that the code does not keep: the `charts` of a report are history,
what the summary came with, so that `SetsExact` can say which summaries each of the three sets must
hold, none more and none less. Names and messages are left out.

`ClusterMonitor` composes the two (`HealthCache` and `ClusterStatus` by
`INSTANCE`) with their three controllers. The API server's objects change by
`Edit...` actions, the predicates decide whether a change is queued, `Get` is
the moment a worker reads, the `Reconcile...` actions apply what was read. The
work queue is external and modelled by what it promises: a key waits at most
once, and a key being worked on is handed out again only afterwards.

`ClusterList` extends it with the building of one row, four separate readings.

`ProfileGraph` is the profile cache with its reconcilers. `DependencyOf` is the
reference under which a dependency is filed (completed with the namespace),
`AsGiven` the one under which it is erased: they differ in the code, and only for
Profiles. `GetProfiles` keeps a copy of the map that shares its sets.

`ProfileWrites` has one step per API call of each handler. A call can be refused
(no effect, and an error) or lost (its effect, and an error). What the API server says when it refuses
is passed on as `abortProfileWriteError` does (`Refusals`): 403, 500, and 404 for a create whose namespace is gone.
A request that does not parse, does not validate or brings no token is answered 400 or 401 before any
call (`ReceiveRejected`); what makes it invalid is left out. The existence check may fail, too.
The API server, its resource versions, finalizers and the informer behind `profileExists` are external.
Each request carries history only the properties read: `took`, what it deleted,
and `unsure`, that a failed call left the ConfigMap it made.

`ProfileStore` is its abstract specification: what the three requests promise about the
profiles, as if each were one atomic operation. A request changes its own profile at most once,
between its arrival and its answer; "created" means that it made the profile while there was
none, "ok" that its spec was written, "noContent" that the profile was marked for deletion or
gone, "conflict" that nothing was written, nor with "forbidden" or "notFound" of a create; "invalid" and
"unauthorized" come at once; "error" alone tells nothing. Of a PUT it shows what
the answer leaves open: "notFound" is also said after the spec was written, when a content is
missing (`profile_writes.go:579`, `589`). The refinement mapping is `ProfilesSeen` and `ClientsSeen`, which
leave out versions and contents and sum up the step of a handler in an outcome; `ImplementsStore` is the
property. No history was needed: a rollback and the calls for the contents come after
the one that changes the profile.

`ClusterInventory` has the two maps, the predicates field by field, the queue, the
two ways of listing, and the process's start: look for the CRD (which may
fail), run the controller or watch for the CRD, be killed and start again with
empty maps.

`ProfilePage` has one request. The profile is read once; then for each matching
cluster a permission is looked up, remembered or asked for, and a row is added
with the cluster's data of that moment. `ever`, `always` and `alwaysAll`
are history: what the user could get at some time or all the time.

`Paging` is the arithmetic of a page: `getSliceInRange` and `getClustersInRange` with
ints that wrap at `MaxInt`, Go's slice expression that panics out of range, and
`Window`, the page a reader of the API expects, in numbers that do not wrap.

`Handlers` is what each handler does, as data: a sequence of stages, in the order of
the code, each with what it is about and the status with which it fails. The
difference between handlers that write a 400 and return, that write it and go on,
and that leave it to a helper is a stage of its own (`Require`, `Check`, `Query`). `WellFormed`
says what all handlers have in common; TLC decides it for the table.

`Requests` runs one such handler, one call a step: `validateToken`, the reviews of
`k8s-utils.go`, the two ways of each list (whole, or one review per object, each of which may
fail), filter, order, page, the questions to the MCP server. Between two steps objects are made,
marked for deletion and removed, the server's maps catch up, rights and token
change, ClusterAPI is installed or removed, the MCP server comes and goes. The token may be bad from the
start, and `Connect` may fail although the server is up (a refused handshake, a cancelled request). After an answer the
client may ask for the next page, or ask the MCP server again. Objects are opaque; `Rank` is their place
in the order of a list, with ties where the code's comparison has them. The variables from `allowedGet`
on are history: what the user could get or list at some time and all the time, what
was there all the time, whether the token was good and the MCP server up at some time, which reviews failed,
whether a session was made (`opened`), which rows earlier pages had.
The path `profile` is here with its permission and its answers; its rows are in `ProfilePage`.

`MC<Module>` gives the constants of a run that are no plain sets. A property's
mutant is not in the modules' specifications: it is a definition whose name
says what it forgets, beside the one it replaces, that nothing else uses. It is
there to show that the property would notice.

## Runs

| run | shows | bounds |
|---|---|---|
| `health_cache` | indexes, inverse maps, cached states, refinement | 2 summaries, 2 checks, 2 reports, 2 clusters, 2 concurrent removers: the smallest in which an object moves, a check is handed over and a removal meets a new entry; no bound on the length |
| `cluster_status` | badges and sets against the reports | 3 summaries on 2 clusters, so that a cluster has two and another stays apart; every feature state, dependency and chart mix |
| `cluster_monitor` | agreement with the objects at rest, no phantom checks, convergence | 2 summaries, 2 checks, 1 report, `MaxEdits` = 4 changes: creating, adopting, replacing and deleting takes that many |
| `cluster_list` | an undisturbed row | 2 summaries of one cluster, `MaxEdits` = 4, the health part without checks |
| `profile_graph` | mirror of dependencies, no change lost, convergence | 2 ClusterProfiles that may depend on each other, `MaxEdits` = 4: create, change, delete, create again |
| `profile_writes` | what failing and concurrent writes leave behind, refinement of `ProfileStore` | 3 requests, alike but for their names (symmetry), on 2 identities that share one ConfigMap, at most two failing calls (`MaxFaults` = 2): a create and its rollback may both fail |
| `cluster_inventory` | both lists agree, ready Clusters are shown, Clusters end up listed | 1 SveltosCluster, 1 Cluster (they never share an entry), `MaxEdits` = 4, `MaxFailures` = 1 |
| `profile_page` | permissions, number of reviews, summary | clusters of both types, `MaxChanges` = 2 changes around a request |
| `requests` | rights, completeness, status, bodies, pages and sessions of the 20 paths | one or two objects of each of 13 kinds; 3 users (everything, list without get, some by name and nothing as a whole); at most one malformed part of the query (`MaxBad` = 1); up to two changes of the world during a request (`MCMaxChanges`: 2, 1 where pages or several kinds multiply the states, 0 for the statistics, whose lists are those of other paths); limits and skips inside, past the end, negative, and one whose sum wraps at `MaxInt` = 21; default limit `maxItems` = 2; `MaxSessions` = 2. |
| `profile_graph_namespaced` | a violation: see below | 2 Profiles in one namespace, of which one may depend on the other, 2 edits |
| `profile_graph_copy` | a violation | 2 ClusterProfiles |
| `cluster_inventory_stale` | a violation | as `cluster_inventory`, 3 edits |

Object changes, failures and requests are budgets, so a run ends with the
system at rest: those configurations switch the deadlock check off. `health_cache`,
`cluster_status`, `cluster_list` and `profile_page` keep it on. Only `profile_writes` uses
symmetry, of its requests; it has no liveness property.

Each mutant of `PROJECT.json` replaces one definition by one with a plausible mistake
and makes its property fail under the same configuration.

### Fairness

Weak fairness only, and only of the system's own threads: a worker takes a key that
waits and finishes what it began (controller-runtime starts
`ConcurrentReconciles` workers that block only on an empty queue); the cache
resyncs each `SyncPeriod` (`cmd/main.go`), for HealthChecks and profiles; the start-up loop
goes on, and the CRD watcher reports what it sees. Nothing is assumed of users, of the
objects, or of failures, which may use up their bound.

`Converges` needs the resync. Without it the attribution of a HealthCheck can be
lost: a worker with an old copy detaches a check that was generated anew
meanwhile, and no event is left to bring it back. That the resync repairs it
within a period is what the property says.

### Where the code and its own documents disagree

* `profile_graph_namespaced`: `RemoveProfile` "updates all dependents"
  (`manager_test.go:974`), but a Profile's dependencies carry no namespace
  (`profile_controller.go:114-120`) while its dependents are filed with one
  (`manager.go:857-873`) and looked up without (`manager.go:845-855`). In the run a Profile
  is reconciled and then gone, and stays listed by the placeholder of what it depended on.
  `AddProfile` erases the dependents of a dependency that was dropped by the same helper.
* `profile_graph_copy`: `GetProfiles` "is not affected by later updates of the
  cache" (`manager_test.go:1139`), but the copy shares its sets (`manager.go:891-901`).
* `cluster_inventory_stale`: the predicate "triggers reconciliation ... when the
  Cluster's status.conditions or status.initialization fields change"
  (`predicates.go:78`), but only changes to true pass (`predicates.go:100-121`).
  The theorem `OnlyReadinessIsLost` shows that this is
  the only cause: where ClusterAPI never takes an initialization back, what is shown as ready is.

Met on the way, with no run of their own because no document promises otherwise,
or because a property here is stated to allow them:

* a row of the cluster list can show issues and provisioning together, when the
  summary changes between the readings (`http.go:1404`); `UndisturbedRow` says when not;
* a ClusterSummary that named another cluster would leave its badges there
  (`manager.go:476-479`); `OneCluster` assumes it does not;
* `RemoveProfile` drops the entry and with it the dependents of a profile that others still
  depend on; a resync of those brings them back (`Converges`);
* the placeholder of a dependency that does not exist is listed like a profile;
* a rollback that fails is only logged, and the ConfigMap left makes every later
  create of that identity fail (`profile_writes.go:505-509`);
* a DELETE repeated after its content failed to go finds no profile and answers
  success: the content stays (`profile_writes.go:619-624`);
* of two concurrent creates with YAML the loser collides on the ConfigMap, and is answered with
  500 (`profile_writes.go:485-488`) where "409 for a name collision" (`http.go:1569`) is promised;
* `getProfile` writes an empty answer for a profile the cache does not have and goes on to
  write a second one (`http.go:536-538`), and goes on after a 400 (`http.go:479-505`):
  `OneAnswer` makes an exception of it, `ShownWasAllowed` does not;
* a malformed limit, skip, cluster or `failed` is answered with a 400 and a text by the helper
  (`http.go:1489-1566`), and most handlers go on and write a second body: the
  status stays 400 (`MalformedIs400`), nothing unreviewed is in it;
* `skip + limit` past the largest int passes the test of the range and panics in the slice
  expression (`managed_clusters.go:73-78`, `addons.go:431-438`); gin's recovery answers 500;
* 503 is for an MCP server that "could not be reached" (`http.go:1590-1592`, `client.go:43-46`), but `connect`
  gives it for every error of `client.Connect` (`client.go:79-83`): also when a server that is there refuses the
  handshake, or the request is cancelled. A server that goes away after the handshake is answered with
  500. `UnavailableIsSaid` says what the code does;
* a session of the MCP client stays open when its tools cannot be listed (`client.go:88-93`):
  `SessionsAccounted` says that these are all that do;
* two resources with one time and one GVK tie in `sortResources` (`addons.go:451`), and the list comes
  out of a Go map (`addons.go:253-263`): pages may repeat one and miss another, so
  `PagesMakeTheList` exempts ties. `README.md:219-223` only promises the order by time;
* the map that merges resources has their `LastAppliedTime`, a pointer, in its key
  (`addons.go:372-412`), so what two profiles deployed is merged only by accident;
* `getEventMatchingResources` "returns nil when the EventTrigger or its EventSource does not exist"
  (`events.go:325`), but never looks for the EventSource;
* the reviews of clusters and ClusterSummaries ask for the verb list, those of profiles,
  event triggers and classifiers for get without a name (`k8s-utils.go:140-168`, `394-454`): `CanAll`;
* a user who may not list everything also sees clusters that are being deleted, which the maps
  leave out: `ListIsComplete` is about what is there, and allows it.

## Proofs

TLAPS proves, for every value of the constants their `ASSUME`s allow:

`HealthCacheProofs`. `Typing`. `IndexesExact` and `ChecksAreInverse` are inductive
with the types: each method updates map and index in one critical section.
`StatusIsFresh` is not inductive alone: a state is recomputed through the indexes, so it
is right only while they are, and a cluster whose state is not recomputed keeps a right
one only if none of its inputs changed. The lemma `SameInputs` says when that
is; it needs the inverse maps, because the check of a summary is looked up in
one map and the summary of a check in the other. The invariant is the
conjunction of the four. `Refinement` then maps each method to a step of
`HealthView`: initial state to initial state, each step to a step or a stutter
(the look of `removeSummary` is one).

`ClusterStatusProofs`. `Typing`. `Exactness` (`SetsExact`, all three sets equal to what the last reports call for) strengthened with: a report is
filed under the cluster its summary belongs to. That, and the theorem, hold under
`OneCluster`, that a ClusterSummary name is for one cluster. `Badges` follows from
`SetsExact` in each state.

`ProfileGraphProofs`. `Typing`. `NoChangeLost` with the invariant `Current`: a
profile that does not wait in the queue either agrees with the store already, or
is with a worker whose copy is the object as it is. A stale copy is thus always
followed by another reconcile, which is the argument that stale copies do no harm.
`ListedDependentsDepend` holds under `OneName`, that a dependency is filed and erased
under one name, which is true of ClusterProfiles and false of Profiles (the
violation above).

`ClusterInventoryProofs`. `Typing`. `BothListsAgree` and `ReadyOnesShown` with the invariant
`InventoryInv`: a cluster that is followed and waits neither in the queue nor for its
object is in the cache, or with a worker, as an object that *covers* the one in the store,
that is, the differences are those the predicate does not look at (`DroppedIsCovered`,
`CoversOnward`). Clusters that nobody follows yet are not known at all, which is what a start and a
restart establish; a controller that runs has the definition of its objects (`RunsWhereInstalled`), so that the
direct list is not empty for want of it. For SveltosClusters an object that covers another shows the same;
for Clusters it may show one as ready that is not any more (the violation above),
never the other way round.
`OnlyReadinessIsLost` is about the same system when initialized control planes
stay so (`StaysReady`, a hypothesis about ClusterAPI that is part of `ReadySpec`, beside the
proof): then what was seen of a Cluster that waits for nothing is ready only if the Cluster
is (`ReadyInv`), and `ShownReadyIsReady` holds. No run has that hypothesis:
`cluster_inventory_stale` shows what happens without it.

`ProfileWritesProofs`. Every call of a handler leaves its request in its place (`Handled`): at a step of its
operation, with the ConfigMap of its profile, at a rollback only with an error, at
the contents of a DELETE only if it was asked to. `Typing` follows, with the versions that only grow.
`LostRaceOrphansNothing` strengthened with: a content that a request made is that request's ConfigMap, and the
request is before its profile's creation or its rollback, or created, or unsure.
`OnlyDeletesTakeContent` strengthened with: a create past its ConfigMap has it, so that the
content a rollback removes is its own. `ProfileGoesFirst` strengthened with: a DELETE at its contents has
read a version of the profile that is gone or on its way out, which no later create or
update undoes (`GoneForGood`).
`Implementation` is the refinement of `ProfileStore` (`ImplementsStore`): initial state to initial state,
each call of a handler to the one step that changes its profile or answers for it, or to none
(`StoreHandled`, a step for each of the ten handlers' calls, over `OutcomeSeen` and
`ProfileSeenWritten`, which say what the store sees of a request and of a write); the API server's removal of a finalized profile
to `Finalize`, the informer to nothing. It needs the types and the places of the requests only.

`ClusterMonitorProofs`, about `ClusterMonitor` and `ClusterList`. The parts were proved open, under any calls.
`CallsHealthCache` and `CallsClusterStatus` say that the controllers, with all their interleavings,
are such callers: each of their steps is a call of one part, or leaves it alone. The theorems of the parts
are then taken over with `INSTANCE`, their assumptions being consequences of
`NoneIsNothing` and `PartsConstants`: that is how `Typing` and the freshness of the states hold of
the whole, and `ControllersImplementView` (the controllers drive an implementation of `HealthView`).
`QuietCachesAgree` strengthened with `AgreementInv`: an object that the caches do not have as it
is waits in the queue, or is with a worker as it is. It needs what a worker knows between
its locks (`Halfway`) and that each change of a summary that matters is queued
(`SummaryEditQueued`): the predicate looks at all that counts but the labels and owner
that `verifyLabelConfiguration` wants, and those stay as they were made. `OneCluster` is its hypothesis, as for the badges.
`NoPhantoms` needs the same of checks only in what they were generated for (`AttributionInv`), and the
inverse maps. `RowsHold` (`UndisturbedRow`): while nothing changed, an answer in the row is what the
question would be answered now, and the badges and states are those of the parts' theorems.

`RequestsProofs`. `WindowExact`, for every length, limit, skip and `MaxInt`: the sum of two ints that
are not negative wraps to a negative number or not at all (`WrapSum`), so a wrapped sum
never passes for a window; it ends in a panic. The lemma `Placing`: a handler stays in the table, which is what lets every other
proof argue with `HandlerTable`, decided by TLC. `Typing` needs no more. The steps of a request fall into a few
classes (`Steps`): ordinary stages, those that meet something malformed, those of the MCP server,
changes of the world, and a new request. Over these:
`SessionsCounted` is inductive with the place of the request.
`MalformedAnswered` strengthened with: before anything malformed is met nothing is
written, but by a profile that the map does not have, and that stage comes after all parsing.
`WindowsRight` needs that rows are objects, that there are no more of them than an int counts,
and `WindowExact`. `ReviewedFirst` strengthened with: each review passed, or right to list
remembered, was so at some time of the request, and each row came from one of the two;
`SubjectsReviewed` (decided by TLC) says that each handler reviews what its answer is about.
`NothingLeftOut` strengthened with: whoever may list a kind all along is known to once that
was asked; the copy has the profiles that were there all along; the rows, with what
is left to review, have what is due of the kinds listed so far; and without ClusterAPI
there are no Clusters, so that its early answer leaves nothing out.
`AnsweredOnce` strengthened with: nothing is written before the stage that ends the handler.
`UnavailableSaid` strengthened with: while nothing malformed is met, a 503 was written by `Connect` and
by nothing else, and a session is open only if the server was up at some time.
`PagesAreTheList` (`PagesMakeTheList`): while nothing changes, what a handler found out and its rows are, at every
stage, those that the world and the request make (`ListedInv`, `RowsAt`), unless a review failed;
so every page of a walk is cut from the same rows. The rows come sorted in any order, but a list without
ties has only one (`OneOrder`), as the place of a row is how many rank no higher.
What the walk got is then how that order begins (`WalkInv`), and the last page ends it.

`ProfilePageProofs`. `Typing`. `AccessIsRespected` strengthened with: what the access checker
remembers was so at some time of the request, each row and the row about to be added are of
a cluster the user could get at some time, and each matching cluster that the user could get all
along has a row or is still to come. `ReviewsAreFew` charges each review to the type it
asked about or to the cluster it looked at, which is done with afterwards; it
needs that a profile matches a cluster once (`PageConstants`). `SummaryIsComplete` strengthened
with: a row says what a row of that profile may say, so that the five places cover the
rows. `PercentageRoundsUp` is about `getMaxUpdate` alone.

Only model-checked: liveness (`Converges`, `ClustersListed`), which is out of the reach of
the proof system. Every invariant and every action property of the passing runs is proved,
some under the hypothesis named with them.

## Not modelled, and why

The OIDC proxy is a Host header and a CA file; how a token is read and logged changes nothing
that a handler decides. What a filter matches, and what is inside a chart, a resource,
a report or a spec, is opaque: a filter is a set of rows. The health that the status page adds
to its rows after they were cut, and the reports of the classifiers, are second readings of the kind `ClusterList` and
`ProfilePage` model, and left out. Flags, probes and the memory limit
do not touch the maps. Time is not modelled, so neither are periods and pauses
of retries, only that they end.

`OneAnswer` has two exceptions, both above: a request with a malformed part, which can get two
bodies, and a profile that is missing from the map.

## Plan

Done in this order: `HealthCache` with its view, `ClusterStatus`, their
composition `ClusterMonitor`, `ClusterList`; `ProfileGraph`; `ProfileWrites`;
`ClusterInventory`; `ProfilePage`; `Paging`, `Handlers` and `Requests`; the proofs of all of
them, last those of the two that compose others; `ProfileStore` and its refinement.

Next, the hazards that no property is about yet: a DELETE or a PUT of a profile that is repeated after
it failed half-way, and the health that the status page reads after it cut its rows.
