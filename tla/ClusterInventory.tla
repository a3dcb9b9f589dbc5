--------------------------- MODULE ClusterInventory ---------------------------
(***************************************************************************)
(* The managed clusters of internal/server/manager.go: a cache for         *)
(* SveltosClusters and one for ClusterAPI Clusters, their controllers, the *)
(* predicates that choose which updates of a cluster the controllers see,  *)
(* and the two ways of listing clusters: from the cache for a user that    *)
(* may list them all, from the informers for anyone else.                  *)
(* ClusterAPI is optional.  The process looks for its CRD at start: either *)
(* it runs the controller of Clusters, or it watches for the CRD and kills *)
(* itself when the CRD appears, to come back and run the controller.       *)
(***************************************************************************)
EXTENDS Naturals

CONSTANTS
  SveltosClusters, CAPIClusters,   \* references
  Values,         \* of a field that is only copied and compared
  NoValue,        \* the zero value of such a field
  Objects,        \* the objects a cluster may be
  None,           \* "no entry", "no object"
  Idle,           \* "no worker"
  MaxEdits,       \* bound on the number of object changes
  MaxFailures     \* bound on the failing checks for the CRD

Keys == SveltosClusters \cup CAPIClusters

\* ready is Status.Ready, or ControlPlaneInitialized.  other stands for the rest of the
\* status: for a Cluster, the condition, infrastructure and phase of its predicate.
Object == [paused : BOOLEAN, version : Values, labels : Values, ready : BOOLEAN,
           message : Values, other : BOOLEAN, deleting : BOOLEAN]

ClusterInfo == [paused : BOOLEAN, version : Values, labels : Values, ready : BOOLEAN,
                message : Values]

ASSUME InventoryConstants ==
  /\ SveltosClusters \cap CAPIClusters = {}
  /\ NoValue \in Values
  /\ Objects \subseteq Object
  /\ None \notin Object
  /\ None \notin ClusterInfo
  /\ Idle \notin Object \cup {None}
  /\ MaxEdits \in Nat
  /\ MaxFailures \in Nat

VARIABLES
  clusters,     \* [Keys -> ClusterInfo or None]: sveltosClusters and capiClusters
  store,        \* [Keys -> Object or None]: the objects, as the informers have them
  queue,        \* keys waiting for a worker
  work,         \* [Keys -> the object the worker of the key has read, or Idle]
  crd,          \* the CRD of ClusterAPI is installed
  controller,   \* what the process does about ClusterAPI
  edits, failures

vars == <<clusters, store, queue, work, crd, controller, edits, failures>>

TypeOK ==
  /\ clusters \in [Keys -> ClusterInfo \cup {None}]
  /\ store \in [Keys -> Object \cup {None}]
  /\ queue \subseteq Keys
  /\ work \in [Keys -> Object \cup {None, Idle}]
  /\ crd \in BOOLEAN
  /\ controller \in {"checking", "watching", "running"}
  /\ edits \in 0..MaxEdits
  /\ failures \in 0..MaxFailures

Init ==
  /\ clusters = [k \in Keys |-> None]
  /\ store = [k \in Keys |-> None]
  /\ queue = {}
  /\ work = [k \in Keys |-> Idle]
  /\ crd \in BOOLEAN
  /\ controller = "checking"
  /\ edits = 0
  /\ failures = 0

Stored(kind) == {k \in kind : store[k] # None}

-----------------------------------------------------------------------------
(* Changes of clusters, and the predicates that let them through           *)

\* What a generation counts: the spec and the deletion timestamp.  The version is in
\* the spec of a Cluster, in the status of a SveltosCluster.
Generation(k, o) ==
  <<o.paused, o.deleting, IF k \in CAPIClusters THEN o.version ELSE NoValue>>

\* Faulty: the version, like the other fields of the status, is not looked at.
SveltosPredicateWithoutVersion(k, old, new) ==
  \/ Generation(k, old) # Generation(k, new)
  \/ old.ready # new.ready
  \/ old.message # new.message
  \/ old.labels # new.labels

SveltosClusterPredicate(k, old, new) ==
  \/ Generation(k, old) # Generation(k, new)
  \/ old.ready # new.ready
  \/ old.version # new.version
  \/ old.message # new.message
  \/ old.labels # new.labels

\* Faulty: the control plane's initialization is not looked at.
ClusterPredicateWithoutReady(k, old, new) ==
  \/ Generation(k, old) # Generation(k, new)
  \/ ~old.other /\ new.other
  \/ old.labels # new.labels

\* The status matters only when it becomes true.
ClusterStatusPredicate(k, old, new) ==
  \/ Generation(k, old) # Generation(k, new)
  \/ ~old.ready /\ new.ready
  \/ ~old.other /\ new.other
  \/ old.labels # new.labels

\* Creation and deletion always pass.
Passes(k, old, new) ==
  \/ old = None
  \/ new = None
  \/ k \in SveltosClusters /\ SveltosClusterPredicate(k, old, new)
  \/ k \in CAPIClusters /\ ClusterStatusPredicate(k, old, new)

\* Clusters exist only with their CRD, and only a running controller gets their events.
Edit(k, new) ==
  /\ edits < MaxEdits
  /\ new # store[k]
  /\ k \in CAPIClusters => crd
  /\ edits' = edits + 1
  /\ store' = [store EXCEPT ![k] = new]
  /\ queue' = IF Passes(k, store[k], new) /\ (k \in CAPIClusters => controller = "running")
              THEN queue \cup {k} ELSE queue
  /\ UNCHANGED <<clusters, work, crd, controller, failures>>

-----------------------------------------------------------------------------
(* Workers                                                                 *)

Get(k) ==
  /\ k \in queue
  /\ work[k] = Idle
  /\ queue' = queue \ {k}
  /\ work' = [work EXCEPT ![k] = store[k]]
  /\ UNCHANGED <<clusters, store, crd, controller, edits, failures>>

Exists(object) == object # None /\ ~object.deleting

\* AddSveltosCluster and AddCAPICluster: what the cache keeps.  The conditions of a
\* Cluster are not looked at for a message.
InfoOf(k, o) ==
  [paused |-> o.paused, version |-> o.version, labels |-> o.labels, ready |-> o.ready,
   message |-> IF k \in CAPIClusters THEN NoValue ELSE o.message]

\* Faulty: the cache keeps the object, not the info.
ReconcileKeepsObject(k) ==
  /\ work[k] # Idle
  /\ clusters' = [clusters EXCEPT ![k] = work[k]]
  /\ work' = [work EXCEPT ![k] = Idle]
  /\ UNCHANGED <<store, queue, crd, controller, edits, failures>>

\* Not found, or on its way out: remove; otherwise replace the entry.
Reconcile(k) ==
  /\ work[k] # Idle
  /\ clusters' = [clusters EXCEPT ![k] = IF Exists(work[k]) THEN InfoOf(k, work[k]) ELSE None]
  /\ work' = [work EXCEPT ![k] = Idle]
  /\ UNCHANGED <<store, queue, crd, controller, edits, failures>>

-----------------------------------------------------------------------------
(* ClusterAPI may be installed later                                       *)

InstallCRD ==
  /\ ~crd
  /\ crd' = TRUE
  /\ UNCHANGED <<clusters, store, queue, work, controller, edits, failures>>

\* The check of startClusterController fails, and is made again.
CheckFails ==
  /\ controller = "checking"
  /\ failures < MaxFailures
  /\ failures' = failures + 1
  /\ UNCHANGED <<clusters, store, queue, work, crd, controller, edits>>

\* The controller begins with every Cluster there is.
StartClusterController ==
  /\ controller = "checking"
  /\ controller' = IF crd THEN "running" ELSE "watching"
  /\ queue' = IF crd THEN queue \cup Stored(CAPIClusters) ELSE queue
  /\ UNCHANGED <<clusters, store, work, crd, edits, failures>>

\* Faulty: the handler ignores the CRD.
capiCRDHandlerIgnoring ==
  /\ controller = "watching"
  /\ crd
  /\ UNCHANGED vars

\* The watcher reports the CRD, those it finds when it starts included: the process ends,
\* with its caches and queues, and the next one begins with every SveltosCluster.
capiCRDHandler ==
  /\ controller = "watching"
  /\ crd
  /\ clusters' = [k \in Keys |-> None]
  /\ queue' = Stored(SveltosClusters)
  /\ work' = [k \in Keys |-> Idle]
  /\ controller' = "checking"
  /\ UNCHANGED <<store, crd, edits, failures>>

-----------------------------------------------------------------------------
(* Lists                                                                   *)

\* A user that may list them all gets the cache, any other user what the informers have
\* of the clusters it may get.
GetManagedSveltosClusters(canListAll, allowed) ==
  IF canListAll
  THEN [k \in {c \in SveltosClusters : clusters[c] # None} |-> clusters[k]]
  ELSE [k \in Stored(SveltosClusters) \cap allowed |-> InfoOf(k, store[k])]

\* The cache is answered without a look at the CRD.  The version is not filled in for a
\* user that may not list them all.
GetManagedCAPIClusters(canListAll, allowed) ==
  IF canListAll
  THEN [k \in {c \in CAPIClusters : clusters[c] # None} |-> clusters[k]]
  ELSE IF ~crd THEN [k \in {} |-> None]
  ELSE [k \in Stored(CAPIClusters) \cap allowed |->
          [InfoOf(k, store[k]) EXCEPT !.version = NoValue]]

-----------------------------------------------------------------------------

Next ==
  \/ \E k \in Keys, o \in Objects \cup {None} : Edit(k, o)
  \/ \E k \in Keys : Get(k)
  \/ \E k \in Keys : Reconcile(k)
  \/ InstallCRD
  \/ CheckFails
  \/ StartClusterController
  \/ capiCRDHandler

Spec == Init /\ [][Next]_vars

\* Workers and the startup goroutine never stop while they have something to do, and the
\* watcher reports what is there.
FairSpec ==
  /\ Spec
  /\ \A k \in Keys : WF_vars(Get(k)) /\ WF_vars(Reconcile(k))
  /\ WF_vars(StartClusterController)
  /\ WF_vars(capiCRDHandler)

-----------------------------------------------------------------------------
(* Properties                                                              *)

Settled(k) == k \notin queue /\ work[k] = Idle

NotDeleting(list) == [k \in {c \in DOMAIN list : Exists(store[c])} |-> list[k]]

\* When everything is processed, a user that may list all SveltosClusters and one that
\* may get each of them see the same clusters with the same data (but for those on their
\* way out, which only the second sees): the predicate lets through every change of a
\* field that the cache keeps.
ListsAgree ==
  (\A k \in SveltosClusters : Settled(k)) =>
    GetManagedSveltosClusters(TRUE, {})
      = NotDeleting(GetManagedSveltosClusters(FALSE, SveltosClusters))

\* The same for Clusters, as far as it goes: when everything is processed, the same are
\* listed, with the spec and the labels they have, and one that is ready is shown so.
ReadyClustersShown ==
  controller = "running" /\ (\A k \in CAPIClusters : Settled(k)) =>
    LET all == GetManagedCAPIClusters(TRUE, {})
        each == NotDeleting(GetManagedCAPIClusters(FALSE, CAPIClusters))
    IN /\ DOMAIN all = DOMAIN each
       /\ \A k \in DOMAIN all :
            /\ all[k].paused = each[k].paused /\ all[k].labels = each[k].labels
            /\ all[k].version = store[k].version
            /\ each[k].ready => all[k].ready

\* "Triggers reconciliation ... when the Cluster's status.conditions or
\* status.initialization fields change": when everything is processed, a Cluster shown as
\* ready is ready.
ShownReadyIsReady ==
  controller = "running" /\ (\A k \in CAPIClusters : Settled(k)) =>
    \A k \in CAPIClusters :
      clusters[k] # None /\ Exists(store[k]) => (clusters[k].ready => store[k].ready)

\* Whenever ClusterAPI is installed, before, during or after the start of the process, its
\* clusters end up being listed.
ClustersListed ==
  \A k \in CAPIClusters : []<>(Exists(store[k]) => clusters[k] # None)

=============================================================================
