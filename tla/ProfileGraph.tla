----------------------------- MODULE ProfileGraph -----------------------------
(***************************************************************************)
(* The ClusterProfiles, or the Profiles, of internal/server/manager.go: a  *)
(* graph of dependencies kept in both directions, fed by the profile       *)
(* controllers, and read through shallow copies by the HTTP handlers.      *)
(* The two kinds never meet in the graph: an instance of this module is    *)
(* about one of them.  ClusterProfiles have no namespace: Namespaces is    *)
(* {NoNamespace}.  Profiles have one.                                      *)
(***************************************************************************)
EXTENDS Naturals

CONSTANTS
  Names,
  Namespaces,      \* namespaces of the profiles of this kind
  NoNamespace,     \* the empty namespace
  Selections,      \* the values Spec.DependsOn may have: sets of names
  None,            \* "no entry", "no object"
  Idle,            \* "no worker"
  MaxEdits         \* bound on the number of object changes

Refs == [namespace : Namespaces, name : Names]
ProfileInfo == [dependencies : SUBSET Names, dependents : SUBSET Refs]
Object == [dependsOn : Selections, deleting : BOOLEAN]

ASSUME ProfileConstants ==
  /\ Selections \subseteq SUBSET Names
  /\ None \notin ProfileInfo
  /\ None \notin Object
  /\ Idle \notin Object \cup {None}
  /\ None \notin Refs
  /\ MaxEdits \in Nat

VARIABLES
  profiles,   \* [Refs -> ProfileInfo or None]: the manager's cache
  store,      \* [Refs -> Object or None]: the informer's store
  queue,      \* references waiting for a worker
  work,       \* [Refs -> the object the worker of the reference has read, or Idle]
  edits,
  held        \* one entry of a copy that GetProfiles handed to a request, or None

vars == <<profiles, store, queue, work, edits, held>>

\* sharing: the copy's set of dependents is still the one of the cache; afterwards
\* set holds it.  seen is a history variable: what the set held when copied.
Copy == [profile : Refs, sharing : BOOLEAN, set : SUBSET Refs, seen : SUBSET Refs]

TypeOK ==
  /\ profiles \in [Refs -> ProfileInfo \cup {None}]
  /\ store \in [Refs -> Object \cup {None}]
  /\ queue \subseteq Refs
  /\ work \in [Refs -> Object \cup {None, Idle}]
  /\ edits \in 0..MaxEdits
  /\ held \in Copy \cup {None}

Init ==
  /\ profiles = [r \in Refs |-> None]
  /\ store = [r \in Refs |-> None]
  /\ queue = {}
  /\ work = [r \in Refs |-> Idle]
  /\ edits = 0
  /\ held = None

-----------------------------------------------------------------------------
(* The graph.  Dependencies are names: the controllers give no namespace.  *)

\* The profile that dependency n of p names when p is added to its dependents...
DependencyOf(p, n) == [namespace |-> p.namespace, name |-> n]

\* ...and the one it names when p is removed from them: the reference as given.
AsGiven(n) == [namespace |-> NoNamespace, name |-> n]

\* getProfileInfo: an unknown profile has empty sets.
InfoOf(entry) ==
  IF entry = None THEN [dependencies |-> {}, dependents |-> {}] ELSE entry

\* Faulty: the names of the dependencies are inserted, not the profile.
AppendNames(cache, p, names) ==
  [r \in Refs |->
     IF r \in {DependencyOf(p, n) : n \in names}
     THEN [InfoOf(cache[r]) EXCEPT !.dependents = @ \cup names]
     ELSE cache[r]]

\* appendProfileAsDependent: a dependency not known yet gets an entry of its own.
AppendDependent(cache, p, names) ==
  [r \in Refs |->
     IF r \in {DependencyOf(p, n) : n \in names}
     THEN [InfoOf(cache[r]) EXCEPT !.dependents = @ \cup {p}]
     ELSE cache[r]]

\* removeProfileDependency for every name: nothing for a reference not in the cache.
RemoveDependent(cache, p, names) ==
  [r \in Refs |->
     IF r \in {AsGiven(n) : n \in names} /\ cache[r] # None
     THEN [cache[r] EXCEPT !.dependents = @ \ {p}]
     ELSE cache[r]]

\* Faulty: the profile stays a dependent of what it no longer depends on.
AddProfileWithoutErase(p, names) ==
  LET appended == AppendDependent(profiles, p, names) IN
  /\ profiles' = [appended EXCEPT ![p] = [InfoOf(appended[p]) EXCEPT !.dependencies = names]]
  /\ UNCHANGED held

\* Faulty: the profile is appended to its new dependencies only.
AddProfileToNewOnly(p, names) ==
  LET before == InfoOf(profiles[p]).dependencies
      appended == AppendDependent(profiles, p, names \ before)
      trimmed == RemoveDependent(appended, p, before \ names)
  IN /\ profiles' = [trimmed EXCEPT ![p] = [InfoOf(trimmed[p]) EXCEPT !.dependencies = names]]
     /\ UNCHANGED held

AddProfile(p, names) ==
  LET appended == AppendDependent(profiles, p, names)
      trimmed == RemoveDependent(appended, p, InfoOf(appended[p]).dependencies \ names)
  IN /\ profiles' = [trimmed EXCEPT ![p] = [InfoOf(trimmed[p]) EXCEPT !.dependencies = names]]
     /\ UNCHANGED held

\* The whole entry goes, the profile's own dependents with it.  A copy of the entry
\* keeps the set, which nothing in the cache shares any more.
RemoveProfile(p) ==
  LET trimmed == RemoveDependent(profiles, p, InfoOf(profiles[p]).dependencies)
  IN /\ profiles' = [trimmed EXCEPT ![p] = None]
     /\ held' = IF held # None /\ held.profile = p /\ held.sharing
                THEN [held EXCEPT !.sharing = FALSE, !.set = InfoOf(trimmed[p]).dependents]
                ELSE held

-----------------------------------------------------------------------------
(* The controllers                                                         *)

\* No predicate: every event of an object is queued.
Edit(r, new) ==
  /\ edits < MaxEdits
  /\ new # store[r]
  /\ store' = [store EXCEPT ![r] = new]
  /\ queue' = queue \cup {r}
  /\ edits' = edits + 1
  /\ UNCHANGED <<profiles, work, held>>

\* A deletion timestamp comes once and the object does not lose it.
Create(r, names) ==
  store[r] = None /\ Edit(r, [dependsOn |-> names, deleting |-> FALSE])
Change(r, names) ==
  store[r] # None /\ Edit(r, [store[r] EXCEPT !.dependsOn = names])
Delete(r) ==
  store[r] # None /\ Edit(r, [store[r] EXCEPT !.deleting = TRUE])
Vanish(r) ==
  store[r] # None /\ Edit(r, None)

\* The periodic resync of the informer.
Resync(r) ==
  /\ store[r] # None
  /\ queue' = queue \cup {r}
  /\ UNCHANGED <<profiles, store, work, edits, held>>

Get(r) ==
  /\ r \in queue
  /\ work[r] = Idle
  /\ queue' = queue \ {r}
  /\ work' = [work EXCEPT ![r] = store[r]]
  /\ UNCHANGED <<profiles, store, edits, held>>

Exists(object) == object # None /\ ~object.deleting

\* Faulty: a profile on its way out is added.
ReconcileUnlessGone(r) ==
  /\ work[r] # Idle
  /\ work' = [work EXCEPT ![r] = Idle]
  /\ IF work[r] = None THEN RemoveProfile(r) ELSE AddProfile(r, work[r].dependsOn)
  /\ UNCHANGED <<store, queue, edits>>

\* Not found, or on its way out: remove; otherwise add.
Reconcile(r) ==
  /\ work[r] # Idle
  /\ work' = [work EXCEPT ![r] = Idle]
  /\ IF ~Exists(work[r]) THEN RemoveProfile(r) ELSE AddProfile(r, work[r].dependsOn)
  /\ UNCHANGED <<store, queue, edits>>

-----------------------------------------------------------------------------
(* A request                                                               *)

\* getCopyOfProfiles: the map is copied, the sets are not.
GetProfiles(r) ==
  /\ held = None
  /\ profiles[r] # None
  /\ held' = [profile |-> r, sharing |-> TRUE, set |-> {}, seen |-> profiles[r].dependents]
  /\ UNCHANGED <<profiles, store, queue, work, edits>>

\* What transformSetToSlice finds in the copy, outside the lock.
Dependents(copy) ==
  IF copy.sharing THEN InfoOf(profiles[copy.profile]).dependents ELSE copy.set

Answer ==
  /\ held # None
  /\ held' = None
  /\ UNCHANGED <<profiles, store, queue, work, edits>>

-----------------------------------------------------------------------------

Next ==
  \/ \E r \in Refs, names \in Selections : Create(r, names)
  \/ \E r \in Refs, names \in Selections : Change(r, names)
  \/ \E r \in Refs : Delete(r)
  \/ \E r \in Refs : Vanish(r)
  \/ \E r \in Refs : Resync(r)
  \/ \E r \in Refs : Get(r)
  \/ \E r \in Refs : Reconcile(r)
  \/ \E r \in Refs : GetProfiles(r)
  \/ Answer

Spec == Init /\ [][Next]_vars

\* Workers never stop while there is work, and the resync comes again and again.
FairSpec ==
  Spec /\ \A r \in Refs : WF_vars(Get(r)) /\ WF_vars(Reconcile(r)) /\ WF_vars(Resync(r))

-----------------------------------------------------------------------------
(* Properties                                                              *)

\* A profile is listed as a dependent of another only while the cache has it, with
\* that other among its dependencies: what is erased when a profile drops a dependency
\* or goes away is what was inserted.
DependentsDepend ==
  \A r \in Refs : profiles[r] # None =>
    \A p \in profiles[r].dependents :
      profiles[p] # None /\ \E n \in profiles[p].dependencies : r = DependencyOf(p, n)

\* The cache has what the store has, for one profile.
Agrees(r) ==
  IF Exists(store[r])
  THEN profiles[r] # None /\ profiles[r].dependencies = store[r].dependsOn
  ELSE profiles[r] = None \/ profiles[r].dependencies = {}

\* No change is lost: as soon as neither the queue nor a worker has a profile, the cache
\* has its dependencies as they are in the store, and none for one that is gone.
NothingLost == \A r \in Refs : r \notin queue /\ work[r] = Idle => Agrees(r)

\* Those that depend on r, of the profiles that exist.
TrueDependents(r) ==
  {p \in Refs : Exists(store[p]) /\ \E n \in store[p].dependsOn : r = DependencyOf(p, n)}

\* Once objects stop changing, every profile that exists ends up with exactly its
\* dependents, even if it was deleted and created again.
Converges ==
  <>[](\A r \in Refs : Exists(store[r]) =>
         profiles[r] # None /\ profiles[r].dependents = TrueDependents(r))

\* "GetProfiles is not affected by later updates of the cache".
CopyUnaffected == held # None => Dependents(held) = held.seen

=============================================================================
