------------------------ MODULE ClusterInventoryProofs ------------------------
(***************************************************************************)
(* TLAPS proofs about ClusterInventory, for any clusters, any objects and  *)
(* any number of changes, failing checks and restarts: its types, and that *)
(* once the work is done both ways of listing agree, with the readiness of *)
(* Clusters as the only thing that may be lost.                            *)
(***************************************************************************)
EXTENDS ClusterInventory, TLAPS

\* An entry of the cache is the kept part of an object.
LEMMA InfoTyping ==
  ASSUME NEW k, NEW o \in Object
  PROVE  InfoOf(k, o) \in ClusterInfo /\ InfoOf(k, o) # None
<1>1. NoValue \in Values /\ None \notin ClusterInfo
  BY InventoryConstants
<1>2. InfoOf(k, o) \in ClusterInfo
  BY <1>1 DEF InfoOf, Object, ClusterInfo
<1>. QED
  BY <1>1, <1>2

\* The types hold at first, and every step keeps them.
LEMMA InitTyping == Init => TypeOK
BY InventoryConstants DEF Init, TypeOK

LEMMA NextTyping == TypeOK /\ [Next]_vars => TypeOK'
<1>1. MaxEdits \in Nat /\ MaxFailures \in Nat /\ Objects \subseteq Object
  BY InventoryConstants
<1>. SUFFICES ASSUME TypeOK, [Next]_vars PROVE TypeOK'
  OBVIOUS
<1>. USE <1>1 DEF TypeOK
<1>2. ASSUME NEW k \in Keys, NEW o \in Objects \cup {None}, Edit(k, o) PROVE TypeOK'
  BY <1>2 DEF Edit
<1>3. ASSUME NEW k \in Keys, Get(k) PROVE TypeOK'
  BY <1>3 DEF Get
<1>4. ASSUME NEW k \in Keys, Reconcile(k) PROVE TypeOK'
  <2>1. work[k] \in Object \cup {None}
    BY <1>4 DEF Reconcile
  <2>2. Exists(work[k]) => InfoOf(k, work[k]) \in ClusterInfo
    BY <2>1, InfoTyping DEF Exists
  <2>. QED
    BY <1>4, <2>2 DEF Reconcile
<1>5. CASE InstallCRD
  BY <1>5 DEF InstallCRD
<1>6. CASE CheckFails
  BY <1>6 DEF CheckFails
<1>7. CASE StartClusterController
  BY <1>7 DEF StartClusterController, Stored, Keys
<1>8. CASE capiCRDHandler
  BY <1>8 DEF capiCRDHandler, Stored, Keys
<1>9. CASE UNCHANGED vars
  BY <1>9 DEF vars
<1>. QED
  BY <1>2, <1>3, <1>4, <1>5, <1>6, <1>7, <1>8, <1>9 DEF Next

\* Every variable keeps its type, whatever the clusters do.
THEOREM Typing == Spec => []TypeOK
BY InitTyping, NextTyping, PTL DEF Spec

-----------------------------------------------------------------------------
(* What the predicates let by                                              *)

\* What of an object is lost when now is not looked at because seen was: both are listed,
\* or neither; the fields the cache copies are the same, but that a status may have become
\* false.
Covers(k, seen, now) ==
  /\ Exists(seen) <=> Exists(now)
  /\ Exists(now) =>
       /\ seen.paused = now.paused /\ seen.labels = now.labels /\ seen.version = now.version
       /\ k \in SveltosClusters => seen.ready = now.ready /\ seen.message = now.message
       /\ now.ready => seen.ready

LEMMA CoversItself ==
  ASSUME NEW k, NEW o PROVE Covers(k, o, o)
BY DEF Covers

\* An update that a predicate drops is covered by what was seen before.
LEMMA DroppedIsCovered ==
  ASSUME NEW k \in Keys, NEW old \in Object \cup {None}, NEW new \in Object \cup {None},
         ~Passes(k, old, new)
  PROVE  Covers(k, old, new)
<1>1. SveltosClusters \cap CAPIClusters = {}
  BY InventoryConstants
<1>2. /\ old # None /\ new # None
      /\ Generation(k, old) = Generation(k, new) /\ old.labels = new.labels
      /\ k \in SveltosClusters =>
           old.ready = new.ready /\ old.version = new.version /\ old.message = new.message
      /\ k \in CAPIClusters => (new.ready => old.ready)
  BY DEF Passes, SveltosClusterPredicate, ClusterStatusPredicate, Keys
<1>3. /\ old.paused = new.paused /\ old.deleting = new.deleting
      /\ k \in CAPIClusters => old.version = new.version
  BY <1>2 DEF Generation
<1>. QED
  BY <1>1, <1>2, <1>3 DEF Covers, Exists, Keys

LEMMA CoversOnward ==
  ASSUME NEW k, NEW a, NEW b, NEW c, Covers(k, a, b), Covers(k, b, c)
  PROVE  Covers(k, a, c)
BY DEF Covers

-----------------------------------------------------------------------------
(* No change is lost                                                       *)

\* The entry of k says of an object what AddSveltosCluster and AddCAPICluster keep of it,
\* or is missing for one that is not to be listed.
Tells(k, entry, seen) == entry = IF Exists(seen) THEN InfoOf(k, seen) ELSE None

\* A cluster that waits for nothing is in the cache, or with a worker, as an object that
\* covers the one in the store.
Current(k) ==
  k \notin queue =>
    IF work[k] = Idle
    THEN \E seen \in Object \cup {None} : Tells(k, clusters[k], seen) /\ Covers(k, seen, store[k])
    ELSE Covers(k, work[k], store[k])

\* SveltosClusters are always followed, Clusters while their controller runs; before that
\* nothing is known of them.
Followed(k) == k \in SveltosClusters \/ controller = "running"
Unknown(k) == k \notin queue /\ work[k] = Idle /\ clusters[k] = None

InventoryInv == \A k \in Keys : IF Followed(k) THEN Current(k) ELSE Unknown(k)

LEMMA NothingToTell ==
  ASSUME NEW k \in Keys, work[k] = Idle, clusters[k] = None, store[k] = None
  PROVE  Current(k)
<1>1. Tells(k, clusters[k], None) /\ Covers(k, None, store[k])
  BY DEF Tells, Covers, Exists
<1>. QED
  BY <1>1 DEF Current

\* A key that an action leaves alone stays as it was.
LEMMA LeftAlone ==
  ASSUME NEW k \in Keys, work'[k] = work[k], clusters'[k] = clusters[k], store'[k] = store[k],
         k \in queue <=> k \in queue'
  PROVE  /\ Current(k) => Current(k)'
         /\ Unknown(k) => Unknown(k)'
BY DEF Current, Unknown, Tells, Covers

LEMMA InventoryHolds == Spec => []InventoryInv
<1>1. Init => InventoryInv
  <2>. SUFFICES ASSUME Init, NEW k \in Keys
                PROVE  IF Followed(k) THEN Current(k) ELSE Unknown(k)
    BY DEF InventoryInv
  <2>1. work[k] = Idle /\ clusters[k] = None /\ store[k] = None /\ k \notin queue
    BY DEF Init
  <2>. QED
    BY <2>1, NothingToTell DEF Unknown
<1>2. TypeOK /\ InventoryInv /\ [Next]_vars => InventoryInv'
  <2>. SUFFICES ASSUME TypeOK, InventoryInv, [Next]_vars, NEW k \in Keys
                PROVE  (IF Followed(k) THEN Current(k) ELSE Unknown(k))'
    BY DEF InventoryInv
  <2>0. /\ Followed(k) => Current(k)
        /\ ~Followed(k) => Unknown(k)
    BY DEF InventoryInv
  <2>1. ASSUME NEW x \in Keys, NEW o \in Objects \cup {None}, Edit(x, o)
        PROVE  (IF Followed(k) THEN Current(k) ELSE Unknown(k))'
    <3>1. /\ clusters' = clusters /\ work' = work /\ controller' = controller
          /\ store' = [store EXCEPT ![x] = o]
          /\ queue' = IF Passes(x, store[x], o) /\ (x \in CAPIClusters => controller = "running")
                      THEN queue \cup {x} ELSE queue
      BY <2>1 DEF Edit
    <3>2. Followed(k)' <=> Followed(k)
      BY <3>1 DEF Followed
    <3>3. o \in Object \cup {None} /\ store[x] \in Object \cup {None}
      BY InventoryConstants DEF TypeOK
    <3>4. CASE k # x
      <4>1. store'[k] = store[k] /\ (k \in queue <=> k \in queue')
        BY <3>1, <3>4 DEF TypeOK
      <4>. QED
        BY <2>0, <3>1, <3>2, <4>1, LeftAlone
    <3>5. CASE k = x /\ ~Followed(k)
      <4>1. queue' = queue
        BY <3>1, <3>5 DEF Followed, Keys
      <4>. QED
        BY <2>0, <3>1, <3>2, <3>5, <4>1 DEF Unknown
    <3>6. CASE k = x /\ Followed(k)
      <4>1. store'[k] = o
        BY <3>1, <3>6 DEF TypeOK
      <4>2. k \in queue' \/ (queue' = queue /\ ~Passes(k, store[k], o))
        <5>1. SveltosClusters \cap CAPIClusters = {}
          BY InventoryConstants
        <5>. QED
          BY <3>1, <3>6, <5>1 DEF Followed
      <4>3. k \notin queue' => queue' = queue /\ Covers(k, store[k], o)
        BY <3>3, <3>6, <4>2, DroppedIsCovered
      <4>4. k \notin queue' => Current(k)
        BY <2>0, <3>6
      <4>5. Current(k)'
        <5>. SUFFICES ASSUME k \notin queue'
                      PROVE  IF work[k] = Idle
                             THEN \E seen \in Object \cup {None} :
                                    Tells(k, clusters[k], seen) /\ Covers(k, seen, o)
                             ELSE Covers(k, work[k], o)
          BY <3>1, <4>1 DEF Current, Tells, Covers
        <5>1. Covers(k, store[k], o) /\ k \notin queue /\ Current(k)
          BY <4>3, <4>4
        <5>2. CASE work[k] = Idle
          <6>1. PICK seen \in Object \cup {None} :
                  Tells(k, clusters[k], seen) /\ Covers(k, seen, store[k])
            BY <5>1, <5>2 DEF Current
          <6>2. Covers(k, seen, o)
            BY <5>1, <6>1, CoversOnward
          <6>. QED
            BY <5>2, <6>1, <6>2
        <5>3. CASE work[k] # Idle
          <6>1. Covers(k, work[k], store[k])
            BY <5>1, <5>3 DEF Current
          <6>2. Covers(k, work[k], o)
            BY <5>1, <6>1, CoversOnward
          <6>. QED
            BY <5>3, <6>2
        <5>. QED
          BY <5>2, <5>3
      <4>. QED
        BY <3>2, <3>6, <4>5
    <3>. QED
      BY <3>4, <3>5, <3>6
  <2>2. ASSUME NEW x \in Keys, Get(x)
        PROVE  (IF Followed(k) THEN Current(k) ELSE Unknown(k))'
    <3>1. /\ x \in queue /\ queue' = queue \ {x} /\ work' = [work EXCEPT ![x] = store[x]]
          /\ clusters' = clusters /\ store' = store /\ controller' = controller
      BY <2>2 DEF Get
    <3>2. Followed(k)' <=> Followed(k)
      BY <3>1 DEF Followed
    <3>3. CASE k # x
      <4>1. work'[k] = work[k] /\ (k \in queue <=> k \in queue')
        BY <3>1, <3>3 DEF TypeOK
      <4>. QED
        BY <2>0, <3>1, <3>2, <4>1, LeftAlone
    <3>4. CASE k = x
      <4>1. Followed(k)
        BY <2>0, <3>1, <3>4 DEF Unknown
      <4>2. work'[k] = store'[k] /\ work'[k] # Idle
        <5>1. Idle \notin Object \cup {None}
          BY InventoryConstants
        <5>. QED
          BY <3>1, <3>4, <5>1 DEF TypeOK
      <4>3. Covers(k, work[k], store[k])'
        BY <4>2 DEF Covers
      <4>. QED
        BY <3>2, <4>1, <4>2, <4>3 DEF Current
    <3>. QED
      BY <3>3, <3>4
  <2>3. ASSUME NEW x \in Keys, Reconcile(x)
        PROVE  (IF Followed(k) THEN Current(k) ELSE Unknown(k))'
    <3>1. /\ work[x] # Idle /\ work' = [work EXCEPT ![x] = Idle]
          /\ clusters' = [clusters EXCEPT ![x] = IF Exists(work[x]) THEN InfoOf(x, work[x]) ELSE None]
          /\ store' = store /\ queue' = queue /\ controller' = controller
      BY <2>3 DEF Reconcile
    <3>2. Followed(k)' <=> Followed(k)
      BY <3>1 DEF Followed
    <3>3. CASE k # x
      <4>1. work'[k] = work[k] /\ clusters'[k] = clusters[k]
        BY <3>1, <3>3 DEF TypeOK
      <4>. QED
        BY <2>0, <3>1, <3>2, <4>1, LeftAlone
    <3>4. CASE k = x
      <4>1. Followed(k)
        BY <2>0, <3>1, <3>4 DEF Unknown
      <4>2. work[k] \in Object \cup {None} /\ work'[k] = Idle
        BY <3>1, <3>4 DEF TypeOK
      <4>3. Tells(k, clusters'[k], work[k])
        BY <3>1, <3>4 DEF TypeOK, Tells
      <4>4. k \notin queue => Covers(k, work[k], store[k])
        BY <2>0, <3>1, <3>4, <4>1 DEF Current
      <4>5. Current(k)'
        <5>. SUFFICES ASSUME k \notin queue
                      PROVE  \E seen \in Object \cup {None} :
                               Tells(k, clusters'[k], seen) /\ Covers(k, seen, store[k])
          BY <3>1, <4>2 DEF Current, Tells, Covers
        <5>. QED
          BY <4>2, <4>3, <4>4
      <4>. QED
        BY <3>2, <4>1, <4>5
    <3>. QED
      BY <3>3, <3>4
  <2>4. CASE InstallCRD \/ CheckFails \/ UNCHANGED vars
    <3>1. /\ clusters' = clusters /\ store' = store /\ work' = work /\ queue' = queue
          /\ controller' = controller
      BY <2>4 DEF InstallCRD, CheckFails, vars
    <3>2. Followed(k)' <=> Followed(k)
      BY <3>1 DEF Followed
    <3>. QED
      BY <2>0, <3>1, <3>2, LeftAlone
  <2>5. CASE StartClusterController
    <3>1. /\ clusters' = clusters /\ store' = store /\ work' = work
          /\ controller = "checking" /\ controller' = IF crd THEN "running" ELSE "watching"
          /\ queue' = IF crd THEN queue \cup Stored(CAPIClusters) ELSE queue
      BY <2>5 DEF StartClusterController
    <3>2. CASE k \in SveltosClusters
      <4>1. k \notin CAPIClusters /\ Followed(k) /\ Followed(k)'
        BY <3>2, InventoryConstants DEF Followed
      <4>2. k \in queue <=> k \in queue'
        BY <3>1, <4>1 DEF Stored
      <4>. QED
        BY <2>0, <3>1, <4>1, <4>2, LeftAlone
    <3>3. CASE k \notin SveltosClusters /\ crd
      <4>1. Unknown(k) /\ k \in CAPIClusters
        BY <2>0, <3>1, <3>3 DEF Followed, Keys
      <4>2. k \notin queue' => store[k] = None
        BY <3>1, <3>3, <4>1 DEF Stored
      <4>3. Current(k)'
        <5>1. CASE k \in queue'
          BY <5>1 DEF Current
        <5>2. CASE k \notin queue'
          <6>1. Current(k)
            BY <4>1, <4>2, <5>2, NothingToTell DEF Unknown
          <6>2. k \notin queue
            BY <4>1 DEF Unknown
          <6>. QED
            BY <3>1, <5>2, <6>1, <6>2, LeftAlone
        <5>. QED
          BY <5>1, <5>2
      <4>4. Followed(k)'
        BY <3>1, <3>3 DEF Followed
      <4>. QED
        BY <4>3, <4>4
    <3>4. CASE k \notin SveltosClusters /\ ~crd
      <4>1. Unknown(k) /\ ~Followed(k)'
        BY <2>0, <3>1, <3>4 DEF Followed
      <4>. QED
        BY <3>1, <3>4, <4>1 DEF Unknown
    <3>. QED
      BY <3>2, <3>3, <3>4
  <2>6. CASE capiCRDHandler
    <3>1. /\ clusters' = [c \in Keys |-> None] /\ work' = [c \in Keys |-> Idle]
          /\ queue' = Stored(SveltosClusters) /\ store' = store /\ controller' = "checking"
      BY <2>6 DEF capiCRDHandler
    <3>2. clusters'[k] = None /\ work'[k] = Idle
      BY <3>1
    <3>3. CASE k \in SveltosClusters
      <4>1. k \notin queue' => store'[k] = None
        BY <3>1, <3>3 DEF Stored
      <4>2. Current(k)'
        <5>1. k \notin queue' => Tells(k, clusters'[k], None) /\ Covers(k, None, store'[k])
          BY <3>2, <4>1 DEF Tells, Covers, Exists
        <5>. QED
          BY <3>2, <5>1 DEF Current, Tells, Covers
      <4>. QED
        BY <3>3, <4>2 DEF Followed
    <3>4. CASE k \notin SveltosClusters
      <4>1. k \notin queue' /\ ~Followed(k)'
        BY <3>1, <3>4 DEF Stored, Followed
      <4>. QED
        BY <3>2, <4>1 DEF Unknown
    <3>. QED
      BY <3>3, <3>4
  <2>. QED
    BY <2>1, <2>2, <2>3, <2>4, <2>5, <2>6 DEF Next
<1>. QED
  BY <1>1, <1>2, Typing, PTL DEF Spec

-----------------------------------------------------------------------------
(* The lists                                                               *)

\* What a settled cluster that is followed has in the cache.
LEMMA SettledEntry ==
  ASSUME TypeOK, InventoryInv, NEW k \in Keys, Followed(k), Settled(k)
  PROVE  /\ clusters[k] # None <=> Exists(store[k])
         /\ Exists(store[k]) =>
              /\ clusters[k].paused = store[k].paused /\ clusters[k].labels = store[k].labels
              /\ clusters[k].version = store[k].version
              /\ store[k].ready => clusters[k].ready
              /\ k \in SveltosClusters => clusters[k] = InfoOf(k, store[k])
<1>1. Current(k) /\ k \notin queue /\ work[k] = Idle
  BY DEF InventoryInv, Settled
<1>2. PICK seen \in Object \cup {None} : Tells(k, clusters[k], seen) /\ Covers(k, seen, store[k])
  BY <1>1 DEF Current
<1>3. CASE ~Exists(store[k])
  BY <1>2, <1>3 DEF Tells, Covers
<1>4. CASE Exists(store[k])
  <2>1. Exists(seen) /\ clusters[k] = InfoOf(k, seen)
    BY <1>2, <1>4 DEF Tells, Covers
  <2>2. clusters[k] # None
    BY <2>1, InfoTyping DEF Exists
  <2>3. /\ clusters[k].paused = seen.paused /\ clusters[k].labels = seen.labels
        /\ clusters[k].version = seen.version /\ clusters[k].ready = seen.ready
    BY <2>1 DEF InfoOf
  <2>4. k \in SveltosClusters => InfoOf(k, seen) = InfoOf(k, store[k])
    <3>1. SveltosClusters \cap CAPIClusters = {}
      BY InventoryConstants
    <3>. QED
      BY <1>2, <1>4, <3>1 DEF Covers, InfoOf
  <2>. QED
    BY <1>2, <1>4, <2>1, <2>2, <2>3, <2>4 DEF Covers
<1>. QED
  BY <1>3, <1>4

\* Once every SveltosCluster is processed, the list from the cache and the list from the
\* informers are the same, for any clusters, after any number of changes and restarts.
THEOREM BothListsAgree == Spec => []ListsAgree
<1>1. TypeOK /\ InventoryInv => ListsAgree
  <2>. SUFFICES ASSUME TypeOK, InventoryInv, \A k \in SveltosClusters : Settled(k)
                PROVE  GetManagedSveltosClusters(TRUE, {})
                         = NotDeleting(GetManagedSveltosClusters(FALSE, SveltosClusters))
    BY DEF ListsAgree
  <2>1. \A k \in SveltosClusters :
          /\ clusters[k] # None <=> Exists(store[k])
          /\ Exists(store[k]) => clusters[k] = InfoOf(k, store[k])
    BY SettledEntry DEF Keys, Followed
  <2>. DEFINE shown == {c \in SveltosClusters : clusters[c] # None}
              all == [k \in Stored(SveltosClusters) \cap SveltosClusters |-> InfoOf(k, store[k])]
  <2>2. GetManagedSveltosClusters(TRUE, {}) = [k \in shown |-> clusters[k]]
    BY DEF GetManagedSveltosClusters
  <2>3. GetManagedSveltosClusters(FALSE, SveltosClusters) = all
    BY DEF GetManagedSveltosClusters
  <2>4. shown = {c \in DOMAIN all : Exists(store[c])}
    BY <2>1 DEF Stored, Exists
  <2>5. NotDeleting(all) = [k \in shown |-> all[k]]
    BY <2>4 DEF NotDeleting
  <2>6. \A k \in shown : all[k] = clusters[k]
    BY <2>1 DEF Stored, Exists
  <2>. QED
    BY <2>2, <2>3, <2>5, <2>6
<1>. QED
  BY <1>1, Typing, InventoryHolds, PTL

\* The controller runs only where ClusterAPI is installed.
LEMMA RunsWhereInstalled == Spec => [](controller = "running" => crd)
<1>. DEFINE Inv == controller = "running" => crd
<1>1. Init => Inv
  BY DEF Init
<1>2. Inv /\ [Next]_vars => Inv'
  BY DEF Next, vars, Edit, Get, Reconcile, InstallCRD, CheckFails, StartClusterController,
         capiCRDHandler
<1>. QED
  BY <1>1, <1>2, PTL DEF Spec

\* The same for the Clusters of ClusterAPI once their controller runs, as far as their
\* predicate lets it be: the same clusters, with their spec and labels, and none that is
\* ready is shown as not ready.
THEOREM ReadyOnesShown == Spec => []ReadyClustersShown
<1>1. TypeOK /\ InventoryInv /\ (controller = "running" => crd) => ReadyClustersShown
  <2>. SUFFICES ASSUME TypeOK, InventoryInv, controller = "running", crd,
                       \A k \in CAPIClusters : Settled(k)
                PROVE  ReadyClustersShown
    BY DEF ReadyClustersShown
  <2>. DEFINE all == GetManagedCAPIClusters(TRUE, {})
              whole == GetManagedCAPIClusters(FALSE, CAPIClusters)
              each == NotDeleting(whole)
              shown == {c \in CAPIClusters : clusters[c] # None}
              listed == Stored(CAPIClusters) \cap CAPIClusters
  <2>1. \A k \in CAPIClusters :
          /\ clusters[k] # None <=> Exists(store[k])
          /\ Exists(store[k]) =>
               /\ clusters[k].paused = store[k].paused /\ clusters[k].labels = store[k].labels
               /\ clusters[k].version = store[k].version
               /\ store[k].ready => clusters[k].ready
    BY SettledEntry DEF Keys, Followed
  <2>2. all = [k \in shown |-> clusters[k]]
    BY DEF GetManagedCAPIClusters
  <2>3. whole = [k \in listed |-> [InfoOf(k, store[k]) EXCEPT !.version = NoValue]]
    BY DEF GetManagedCAPIClusters
  <2>4. each = [k \in {c \in listed : Exists(store[c])} |-> whole[k]]
    BY <2>3 DEF NotDeleting
  <2>5. shown = {c \in listed : Exists(store[c])}
    BY <2>1 DEF Stored, Exists
  <2>. HIDE DEF all, whole, each, shown, listed
  <2>6. DOMAIN all = shown /\ DOMAIN each = shown
    BY <2>2, <2>4, <2>5
  <2>7. ASSUME NEW k \in shown
        PROVE  /\ all[k].paused = each[k].paused /\ all[k].labels = each[k].labels
               /\ all[k].version = store[k].version
               /\ each[k].ready => all[k].ready
    <3>1. k \in CAPIClusters /\ Exists(store[k]) /\ k \in listed
      BY <2>5, <2>7 DEF shown
    <3>2. all[k] = clusters[k] /\ each[k] = [InfoOf(k, store[k]) EXCEPT !.version = NoValue]
      BY <2>2, <2>3, <2>4, <2>5, <2>7, <3>1
    <3>3. /\ each[k].paused = store[k].paused /\ each[k].labels = store[k].labels
          /\ each[k].ready = store[k].ready
      BY <3>2 DEF InfoOf
    <3>. QED
      BY <2>1, <3>1, <3>2, <3>3
  <2>. QED
    BY <2>6, <2>7 DEF ReadyClustersShown, all, each, whole
<1>. QED
  BY <1>1, Typing, InventoryHolds, RunsWhereInstalled, PTL

-----------------------------------------------------------------------------
(* Readiness is all that the predicate of Clusters loses                   *)

\* A control plane that was initialized stays so, for as long as its Cluster exists.
StaysReady ==
  \A k \in CAPIClusters :
    store[k] # None /\ store'[k] # None /\ store[k].ready => store'[k].ready

ReadySpec == Init /\ [][Next /\ StaysReady]_vars

\* What was seen of a Cluster that waits for nothing, in the cache or with a worker, is not
\* ready while the Cluster is not.
SeenReadyIsReady(k) ==
  controller = "running" /\ k \notin queue /\ Exists(store[k]) =>
    IF work[k] = Idle
    THEN clusters[k] # None /\ clusters[k].ready => store[k].ready
    ELSE Exists(work[k]) /\ work[k].ready => store[k].ready

ReadyInv == \A k \in CAPIClusters : SeenReadyIsReady(k)

\* A key that an action leaves alone, or queues, or whose controller stops.
LEMMA SeenLeftAlone ==
  ASSUME NEW k \in CAPIClusters, SeenReadyIsReady(k),
         controller' = "running" /\ k \notin queue' =>
           /\ controller = "running" /\ k \notin queue /\ work'[k] = work[k]
           /\ clusters'[k] = clusters[k] /\ store'[k] = store[k]
  PROVE  SeenReadyIsReady(k)'
BY DEF SeenReadyIsReady, Exists

\* If an initialized control plane stays so, every Cluster shown as ready is ready: the
\* violation that TLC finds without this has no other cause.
THEOREM OnlyReadinessIsLost == ReadySpec => []ShownReadyIsReady
<1>1. Init => TypeOK /\ ReadyInv
  <2>1. Init => ReadyInv
    BY DEF Init, ReadyInv, SeenReadyIsReady
  <2>2. Init => TypeOK
    BY InitTyping
  <2>. QED
    BY <2>1, <2>2
<1>2. TypeOK /\ ReadyInv /\ [Next /\ StaysReady]_vars => TypeOK' /\ ReadyInv'
  <2>. SUFFICES ASSUME TypeOK, ReadyInv, [Next /\ StaysReady]_vars
                PROVE  TypeOK' /\ ReadyInv'
    OBVIOUS
  <2>0. TypeOK'
    BY NextTyping DEF vars
  <2>. SUFFICES ASSUME NEW k \in CAPIClusters PROVE SeenReadyIsReady(k)'
    BY <2>0 DEF ReadyInv
  <2>1. k \in Keys /\ SeenReadyIsReady(k)
    BY DEF Keys, ReadyInv
  <2>2. ASSUME NEW x \in Keys, NEW o \in Objects \cup {None}, Edit(x, o), StaysReady
        PROVE  SeenReadyIsReady(k)'
    <3>1. /\ clusters' = clusters /\ work' = work /\ controller' = controller
          /\ store' = [store EXCEPT ![x] = o]
          /\ queue' = IF Passes(x, store[x], o) /\ (x \in CAPIClusters => controller = "running")
                      THEN queue \cup {x} ELSE queue
      BY <2>2 DEF Edit
    <3>2. o \in Object \cup {None} /\ store[x] \in Object \cup {None}
      BY InventoryConstants DEF TypeOK
    <3>3. CASE k # x
      <4>1. store'[k] = store[k] /\ (k \notin queue' => k \notin queue)
        BY <3>1, <3>3 DEF TypeOK
      <4>. QED
        BY <2>1, <3>1, <4>1, SeenLeftAlone
    <3>4. CASE k = x
      <4>. SUFFICES ASSUME controller = "running", k \notin queue', Exists(o)
                    PROVE  IF work[k] = Idle
                           THEN clusters[k] # None /\ clusters[k].ready => o.ready
                           ELSE Exists(work[k]) /\ work[k].ready => o.ready
        <5>1. store'[k] = o
          BY <3>1, <3>4 DEF TypeOK
        <5>. QED
          BY <3>1, <5>1 DEF SeenReadyIsReady, Exists
      <4>1. ~Passes(k, store[k], o) /\ k \notin queue
        BY <3>1, <3>4
      <4>2. Covers(k, store[k], o)
        BY <2>1, <3>2, <3>4, <4>1, DroppedIsCovered
      <4>3. Exists(store[k]) /\ store[k] # None /\ o # None
        BY <4>2 DEF Covers, Exists
      <4>4. store[k].ready => o.ready
        <5>1. store'[k] = o
          BY <3>1, <3>4 DEF TypeOK
        <5>. QED
          BY <2>2, <4>3, <5>1 DEF StaysReady
      <4>. QED
        BY <2>1, <4>1, <4>3, <4>4 DEF SeenReadyIsReady
    <3>. QED
      BY <3>3, <3>4
  <2>3. ASSUME NEW x \in Keys, Get(x) PROVE SeenReadyIsReady(k)'
    <3>1. /\ x \in queue /\ queue' = queue \ {x} /\ work' = [work EXCEPT ![x] = store[x]]
          /\ clusters' = clusters /\ store' = store /\ controller' = controller
      BY <2>3 DEF Get
    <3>2. CASE k # x
      BY <2>1, <3>1, <3>2, SeenLeftAlone DEF TypeOK
    <3>3. CASE k = x
      <4>1. work'[k] = store'[k]
        BY <2>1, <3>1, <3>3 DEF TypeOK
      <4>2. work'[k] # Idle
        BY <2>1, <3>1, <3>3, InventoryConstants DEF TypeOK
      <4>. QED
        BY <4>1, <4>2 DEF SeenReadyIsReady
    <3>. QED
      BY <3>2, <3>3
  <2>4. ASSUME NEW x \in Keys, Reconcile(x) PROVE SeenReadyIsReady(k)'
    <3>1. /\ work[x] # Idle /\ work' = [work EXCEPT ![x] = Idle]
          /\ clusters' = [clusters EXCEPT ![x] =
                         IF Exists(work[x]) THEN InfoOf(x, work[x]) ELSE None]
          /\ store' = store /\ queue' = queue /\ controller' = controller
      BY <2>4 DEF Reconcile
    <3>2. CASE k # x
      BY <2>1, <3>1, <3>2, SeenLeftAlone DEF TypeOK
    <3>3. CASE k = x
      <4>. SUFFICES ASSUME controller = "running", k \notin queue, Exists(store[k]),
                           clusters'[k] # None, clusters'[k].ready
                    PROVE  store[k].ready
        <5>1. work'[k] = Idle
          BY <2>1, <3>1, <3>3 DEF TypeOK
        <5>. QED
          BY <3>1, <5>1 DEF SeenReadyIsReady, Exists
      <4>1. Exists(work[k]) /\ clusters'[k] = InfoOf(k, work[k])
        BY <2>1, <3>1, <3>3 DEF TypeOK
      <4>2. work[k].ready
        BY <4>1 DEF InfoOf
      <4>. QED
        BY <2>1, <3>1, <3>3, <4>1, <4>2 DEF SeenReadyIsReady
    <3>. QED
      BY <3>2, <3>3
  <2>5. CASE InstallCRD \/ CheckFails \/ UNCHANGED vars
    BY <2>1, <2>5, SeenLeftAlone DEF InstallCRD, CheckFails, vars
  <2>6. CASE StartClusterController
    <3>1. controller' = "running" => k \in queue' \/ store'[k] = None
      BY <2>6 DEF StartClusterController, Stored
    <3>. QED
      BY <3>1 DEF SeenReadyIsReady, Exists
  <2>7. CASE capiCRDHandler
    BY <2>7 DEF capiCRDHandler, SeenReadyIsReady
  <2>. QED
    BY <2>2, <2>3, <2>4, <2>5, <2>6, <2>7 DEF Next
<1>3. ReadyInv => ShownReadyIsReady
  BY DEF ReadyInv, SeenReadyIsReady, ShownReadyIsReady, Settled
<1>. QED
  BY <1>1, <1>2, <1>3, PTL DEF ReadySpec

=============================================================================
