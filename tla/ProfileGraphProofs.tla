------------------------- MODULE ProfileGraphProofs -------------------------
(***************************************************************************)
(* ProfileGraph for any profiles, any number of object changes: its types, *)
(* NothingLost for both kinds of profile, and DependentsDepend for the     *)
(* kind that has no namespace.                                             *)
(***************************************************************************)
EXTENDS ProfileGraph, TLAPS

\* AddProfile leaves typed variables.
LEMMA AddTyping ==
  ASSUME TypeOK, NEW p \in Refs, NEW names \in SUBSET Names, AddProfile(p, names)
  PROVE  /\ profiles' \in [Refs -> ProfileInfo \cup {None}]
         /\ held' \in Copy \cup {None}
<1> DEFINE appended == AppendDependent(profiles, p, names)
           trimmed == RemoveDependent(appended, p, InfoOf(appended[p]).dependencies \ names)
<1>1. appended \in [Refs -> ProfileInfo \cup {None}]
  BY DEF TypeOK, AppendDependent, InfoOf, ProfileInfo
<1>2. trimmed \in [Refs -> ProfileInfo \cup {None}]
  BY <1>1 DEF RemoveDependent, ProfileInfo
<1>3. InfoOf(trimmed[p]) \in ProfileInfo
  BY <1>2 DEF InfoOf, ProfileInfo
<1>4. [InfoOf(trimmed[p]) EXCEPT !.dependencies = names] \in ProfileInfo
  BY <1>3 DEF ProfileInfo
<1>5. profiles' = [trimmed EXCEPT ![p] = [InfoOf(trimmed[p]) EXCEPT !.dependencies = names]]
  BY DEF AddProfile
<1> QED  BY <1>2, <1>4, <1>5 DEF AddProfile, TypeOK

\* RemoveProfile leaves typed variables.
LEMMA RemoveTyping ==
  ASSUME TypeOK, NEW p \in Refs, RemoveProfile(p)
  PROVE  /\ profiles' \in [Refs -> ProfileInfo \cup {None}]
         /\ held' \in Copy \cup {None}
<1> DEFINE trimmed == RemoveDependent(profiles, p, InfoOf(profiles[p]).dependencies)
<1>1. trimmed \in [Refs -> ProfileInfo \cup {None}]
  BY DEF TypeOK, RemoveDependent, ProfileInfo
<1>2. InfoOf(trimmed[p]).dependents \in SUBSET Refs
  BY <1>1 DEF InfoOf, ProfileInfo
<1>3. profiles' = [trimmed EXCEPT ![p] = None]
  BY DEF RemoveProfile
<1>4. held' = IF held # None /\ held.profile = p /\ held.sharing
              THEN [held EXCEPT !.sharing = FALSE, !.set = InfoOf(trimmed[p]).dependents]
              ELSE held
  BY DEF RemoveProfile
<1>5. held' \in Copy \cup {None}
  BY <1>2, <1>4 DEF TypeOK, Copy
<1> QED  BY <1>1, <1>3, <1>5

\* Every variable of the profile graph keeps its type.
THEOREM Typing == Spec => []TypeOK
<1>1. Init => TypeOK
  BY ProfileConstants DEF Init, TypeOK
<1>2. TypeOK /\ [Next]_vars => TypeOK'
  <2> SUFFICES ASSUME TypeOK, [Next]_vars PROVE TypeOK'
    OBVIOUS
  <2> USE ProfileConstants
  <2>1. ASSUME NEW r \in Refs, NEW names \in Selections, Create(r, names) PROVE TypeOK'
    BY <2>1 DEF Create, Edit, TypeOK, Object
  <2>2. ASSUME NEW r \in Refs, NEW names \in Selections, Change(r, names) PROVE TypeOK'
    BY <2>2 DEF Change, Edit, TypeOK, Object
  <2>3. ASSUME NEW r \in Refs, Delete(r) PROVE TypeOK'
    <3>1. store[r] \in Object
      BY <2>3 DEF Delete, TypeOK
    <3>2. [store[r] EXCEPT !.deleting = TRUE] \in Object
      BY <3>1 DEF Object
    <3> QED  BY <2>3, <3>2 DEF Delete, Edit, TypeOK
  <2>4. ASSUME NEW r \in Refs, Vanish(r) PROVE TypeOK'
    BY <2>4 DEF Vanish, Edit, TypeOK
  <2>5. ASSUME NEW r \in Refs, Resync(r) PROVE TypeOK'
    BY <2>5 DEF Resync, TypeOK
  <2>6. ASSUME NEW r \in Refs, Get(r) PROVE TypeOK'
    BY <2>6 DEF Get, TypeOK
  <2>7. ASSUME NEW r \in Refs, Reconcile(r) PROVE TypeOK'
    <3>1. work[r] \in Object \cup {None}
      BY <2>7 DEF Reconcile, TypeOK
    <3>2. CASE ~Exists(work[r])
      BY <2>7, <3>2, RemoveTyping DEF Reconcile, TypeOK
    <3>3. CASE Exists(work[r])
      <4>1. work[r].dependsOn \in SUBSET Names
        BY <3>1, <3>3 DEF Exists, Object
      <4>2. AddProfile(r, work[r].dependsOn)
        BY <2>7, <3>3 DEF Reconcile
      <4> QED  BY <2>7, <4>1, <4>2, AddTyping DEF Reconcile, TypeOK
    <3> QED  BY <3>2, <3>3
  <2>8. ASSUME NEW r \in Refs, GetProfiles(r) PROVE TypeOK'
    BY <2>8 DEF GetProfiles, TypeOK, Copy, ProfileInfo
  <2>9. CASE Answer
    BY <2>9 DEF Answer, TypeOK
  <2>10. CASE UNCHANGED vars
    BY <2>10 DEF vars, TypeOK
  <2> QED
    BY <2>1, <2>2, <2>3, <2>4, <2>5, <2>6, <2>7, <2>8, <2>9, <2>10 DEF Next
<1> QED  BY <1>1, <1>2, PTL DEF Spec

-----------------------------------------------------------------------------
(* What the two updates do to an entry other than the profile's own        *)

\* The dependencies of an entry are the same in both caches; one of them may have no
\* entry where the other has a placeholder.
SameDependencies(before, after) ==
  \/ before = None /\ (after = None \/ after.dependencies = {})
  \/ before # None /\ after # None /\ after.dependencies = before.dependencies

LEMMA WithDependencies ==
  ASSUME NEW info \in ProfileInfo, NEW names \in SUBSET Names
  PROVE  /\ [info EXCEPT !.dependencies = names] \in ProfileInfo
         /\ [info EXCEPT !.dependencies = names].dependencies = names
         /\ [info EXCEPT !.dependencies = names].dependents = info.dependents
BY DEF ProfileInfo

LEMMA AddLeavesDependencies ==
  ASSUME TypeOK, NEW p \in Refs, NEW names \in SUBSET Names, AddProfile(p, names)
  PROVE  /\ profiles'[p] # None /\ profiles'[p].dependencies = names
         /\ \A q \in Refs \ {p} : SameDependencies(profiles[q], profiles'[q])
<1> USE ProfileConstants
<1> DEFINE appended == AppendDependent(profiles, p, names)
           trimmed == RemoveDependent(appended, p, InfoOf(appended[p]).dependencies \ names)
<1>1. profiles' = [trimmed EXCEPT ![p] = [InfoOf(trimmed[p]) EXCEPT !.dependencies = names]]
  BY DEF AddProfile
<1>2. \A q \in Refs : appended[q] \in ProfileInfo \cup {None}
  BY DEF TypeOK, AppendDependent, InfoOf, ProfileInfo
<1>3. \A q \in Refs : trimmed[q] \in ProfileInfo \cup {None}
  BY <1>2 DEF RemoveDependent, ProfileInfo
<1>4. \A q \in Refs : SameDependencies(profiles[q], appended[q])
  BY <1>2 DEF TypeOK, AppendDependent, InfoOf, ProfileInfo, SameDependencies
<1>5. \A q \in Refs : SameDependencies(appended[q], trimmed[q])
  BY <1>2, <1>3 DEF RemoveDependent, ProfileInfo, SameDependencies
<1>6. InfoOf(trimmed[p]) \in ProfileInfo
  BY <1>3 DEF InfoOf, ProfileInfo
<1>7. \A q \in Refs \ {p} : profiles'[q] = trimmed[q]
  BY <1>1 DEF RemoveDependent
<1>8. profiles'[p] = [InfoOf(trimmed[p]) EXCEPT !.dependencies = names]
  BY <1>1 DEF RemoveDependent
<1>9. profiles'[p] \in ProfileInfo /\ profiles'[p].dependencies = names
  BY <1>6, <1>8, WithDependencies
<1> QED  BY <1>4, <1>5, <1>7, <1>9 DEF SameDependencies

LEMMA RemoveLeavesDependencies ==
  ASSUME TypeOK, NEW p \in Refs, RemoveProfile(p)
  PROVE  /\ profiles'[p] = None
         /\ \A q \in Refs \ {p} : SameDependencies(profiles[q], profiles'[q])
<1> USE ProfileConstants
<1> DEFINE trimmed == RemoveDependent(profiles, p, InfoOf(profiles[p]).dependencies)
<1>1. profiles' = [trimmed EXCEPT ![p] = None]
  BY DEF RemoveProfile
<1>2. \A q \in Refs : trimmed[q] \in ProfileInfo \cup {None}
  BY DEF TypeOK, RemoveDependent, ProfileInfo
<1>3. \A q \in Refs : SameDependencies(profiles[q], trimmed[q])
  BY <1>2 DEF TypeOK, RemoveDependent, ProfileInfo, SameDependencies
<1>4. \A q \in Refs \ {p} : profiles'[q] = trimmed[q]
  BY <1>1 DEF RemoveDependent
<1>5. profiles'[p] = None
  BY <1>1 DEF RemoveDependent
<1> QED  BY <1>3, <1>4, <1>5

-----------------------------------------------------------------------------
(* No change is lost                                                       *)

\* A profile that is not queued is in the cache as it is in the store, or is with a
\* worker that read it as it is.
Current(r) ==
  r \notin queue => IF work[r] = Idle THEN Agrees(r) ELSE work[r] = store[r]

LEMMA SameStillAgrees ==
  ASSUME NEW r, Agrees(r), store' [r] = store[r], SameDependencies(profiles[r], profiles'[r])
  PROVE  Agrees(r)'
BY DEF Agrees, SameDependencies

\* A profile neither queued nor with a worker has in the cache the dependencies it has
\* in the store, although a worker may have applied an older copy before.
THEOREM NoChangeLost == Spec => []NothingLost
<1> DEFINE AllCurrent == \A r \in Refs : Current(r)
<1>1. Init => AllCurrent
  BY DEF Init, Current, Agrees, Exists
<1>2. TypeOK /\ AllCurrent /\ [Next]_vars => AllCurrent'
  <2> SUFFICES ASSUME TypeOK, AllCurrent, [Next]_vars PROVE AllCurrent'
    OBVIOUS
  <2>1. ASSUME NEW r \in Refs, NEW new, Edit(r, new) PROVE AllCurrent'
    BY <2>1 DEF Edit, Current, Agrees, TypeOK
  <2>2. ASSUME NEW r \in Refs, Resync(r) PROVE AllCurrent'
    BY <2>2 DEF Resync, Current, Agrees
  <2>3. ASSUME NEW r \in Refs, Get(r) PROVE AllCurrent'
    BY <2>3, ProfileConstants DEF Get, Current, Agrees, TypeOK
  <2>4. ASSUME NEW r \in Refs, Reconcile(r) PROVE AllCurrent'
    <3>1. /\ work' = [work EXCEPT ![r] = Idle] /\ work[r] # Idle
          /\ UNCHANGED <<store, queue>>
      BY <2>4 DEF Reconcile
    <3>2. work[r] \in Object \cup {None}
      BY <3>1 DEF TypeOK
    <3>3. /\ Exists(work[r]) => profiles'[r] # None /\ profiles'[r].dependencies = work[r].dependsOn
          /\ ~Exists(work[r]) => profiles'[r] = None
          /\ \A q \in Refs \ {r} : SameDependencies(profiles[q], profiles'[q])
      <4>1. CASE Exists(work[r])
        <5>1. work[r].dependsOn \in SUBSET Names
          BY <3>2, <4>1, ProfileConstants DEF Exists, Object
        <5>2. AddProfile(r, work[r].dependsOn)
          BY <2>4, <4>1 DEF Reconcile
        <5> QED  BY <4>1, <5>1, <5>2, AddLeavesDependencies
      <4>2. CASE ~Exists(work[r])
        BY <2>4, <4>2, RemoveLeavesDependencies DEF Reconcile
      <4> QED  BY <4>1, <4>2
    <3>4. Current(r)'
      BY <3>1, <3>3 DEF Current, Agrees, TypeOK
    <3>5. ASSUME NEW q \in Refs \ {r} PROVE Current(q)'
      <4>1. SameDependencies(profiles[q], profiles'[q]) /\ store'[q] = store[q]
        BY <3>1, <3>3
      <4>2. Agrees(q) => Agrees(q)'
        BY <4>1, SameStillAgrees
      <4> QED  BY <3>1, <4>2 DEF Current, TypeOK
    <3> QED  BY <3>4, <3>5
  <2>5. ASSUME NEW r \in Refs, GetProfiles(r) PROVE AllCurrent'
    BY <2>5 DEF GetProfiles, Current, Agrees
  <2>6. CASE Answer
    BY <2>6 DEF Answer, Current, Agrees
  <2>7. CASE UNCHANGED vars
    BY <2>7 DEF vars, Current, Agrees
  <2> QED
    BY <2>1, <2>2, <2>3, <2>4, <2>5, <2>6, <2>7 DEF Next, Create, Change, Delete, Vanish
<1>3. AllCurrent => NothingLost
  BY DEF Current, NothingLost
<1> QED  BY <1>1, <1>2, <1>3, Typing, PTL DEF Spec

-----------------------------------------------------------------------------
(* Dependents depend                                                       *)

\* ClusterProfiles: what a dependency names when it is removed is what it named when
\* it was added.
OneName == Namespaces = {NoNamespace}

LEMMA SameReference ==
  ASSUME OneName, NEW p \in Refs, NEW n PROVE DependencyOf(p, n) = AsGiven(n)
BY DEF OneName, Refs, DependencyOf, AsGiven

\* Who may be among the dependents of an entry after AddProfile: the profile where it
\* has a dependency, anyone else where it was before.
LEMMA AddedDependents ==
  ASSUME TypeOK, DependentsDepend, OneName,
         NEW p \in Refs, NEW names \in SUBSET Names, AddProfile(p, names),
         NEW r \in Refs, profiles'[r] # None, NEW x \in profiles'[r].dependents
  PROVE  \/ x = p /\ \E n \in names : r = DependencyOf(p, n)
         \/ x # p /\ profiles[r] # None /\ x \in profiles[r].dependents
<1> USE ProfileConstants
<1> DEFINE appended == AppendDependent(profiles, p, names)
           old == InfoOf(appended[p]).dependencies \ names
           trimmed == RemoveDependent(appended, p, old)
<1>1. \A q \in Refs : appended[q] \in ProfileInfo \cup {None}
  BY DEF TypeOK, AppendDependent, InfoOf, ProfileInfo
<1>2. \A q \in Refs : trimmed[q] \in ProfileInfo \cup {None}
  BY <1>1 DEF RemoveDependent, ProfileInfo
<1>3. /\ profiles' = [trimmed EXCEPT ![p] = [InfoOf(trimmed[p]) EXCEPT !.dependencies = names]]
      /\ trimmed = [q \in Refs |-> trimmed[q]]
  BY DEF AddProfile, RemoveDependent
<1>4. InfoOf(trimmed[p]) \in ProfileInfo
  BY <1>2 DEF InfoOf, ProfileInfo
<1>5. trimmed[r] # None /\ x \in trimmed[r].dependents
  <2>1. CASE r = p
    <3>1. profiles'[r].dependents = InfoOf(trimmed[p]).dependents
      BY <1>3, <1>4, <2>1, WithDependencies
    <3> QED  BY <2>1, <3>1 DEF InfoOf
  <2>2. CASE r # p
    BY <1>3, <2>2
  <2> QED  BY <2>1, <2>2
<1>6. appended[r] # None /\ x \in appended[r].dependents
  BY <1>1, <1>5 DEF RemoveDependent, ProfileInfo
<1>7. CASE x # p
  BY <1>6, <1>7 DEF TypeOK, AppendDependent, InfoOf, ProfileInfo
<1>8. CASE x = p
  <2> SUFFICES ASSUME \A n \in names : r # DependencyOf(p, n) PROVE FALSE
    BY <1>8
  <2>1. profiles[r] # None /\ p \in profiles[r].dependents
    BY <1>6, <1>8 DEF AppendDependent
  <2>2. PICK n \in profiles[p].dependencies : profiles[p] # None /\ r = DependencyOf(p, n)
    BY <2>1 DEF DependentsDepend
  <2>3. appended[p] # None /\ appended[p].dependencies = profiles[p].dependencies
    BY <1>1, <2>2 DEF TypeOK, AppendDependent, InfoOf, ProfileInfo
  <2>4. n \in old
    BY <2>2, <2>3 DEF InfoOf
  <2>5. r \in {AsGiven(m) : m \in old}
    BY <2>2, <2>4, SameReference
  <2>6. p \notin trimmed[r].dependents
    BY <1>1, <1>6, <2>5 DEF RemoveDependent, ProfileInfo
  <2> QED  BY <1>5, <1>8, <2>6
<1> QED  BY <1>7, <1>8

LEMMA RemovedDependents ==
  ASSUME TypeOK, DependentsDepend, OneName, NEW p \in Refs, RemoveProfile(p),
         NEW r \in Refs, profiles'[r] # None, NEW x \in profiles'[r].dependents
  PROVE  x # p /\ profiles[r] # None /\ x \in profiles[r].dependents
<1> USE ProfileConstants
<1> DEFINE old == InfoOf(profiles[p]).dependencies
           trimmed == RemoveDependent(profiles, p, old)
<1>1. /\ profiles' = [trimmed EXCEPT ![p] = None]
      /\ trimmed = [q \in Refs |-> trimmed[q]]
  BY DEF RemoveProfile, RemoveDependent
<1>2. r # p /\ trimmed[r] # None /\ x \in trimmed[r].dependents
  BY <1>1
<1>3. profiles[r] # None /\ x \in profiles[r].dependents
  BY <1>2 DEF TypeOK, RemoveDependent, ProfileInfo
<1>4. ASSUME x = p PROVE FALSE
  <2>1. PICK n \in profiles[p].dependencies : profiles[p] # None /\ r = DependencyOf(p, n)
    BY <1>3, <1>4 DEF DependentsDepend
  <2>2. r \in {AsGiven(m) : m \in old}
    BY <2>1, SameReference DEF InfoOf
  <2>3. p \notin trimmed[r].dependents
    BY <1>3, <2>2 DEF TypeOK, RemoveDependent, ProfileInfo
  <2> QED  BY <1>2, <1>4, <2>3
<1> QED  BY <1>3, <1>4

\* Among ClusterProfiles, a dependent listed in the cache is in the cache and has the
\* dependency: no removal leaves a dependent behind.
THEOREM ListedDependentsDepend ==
  ASSUME OneName
  PROVE  Spec => []DependentsDepend
<1>1. Init => DependentsDepend
  BY DEF Init, DependentsDepend
<1>2. TypeOK /\ DependentsDepend /\ [Next]_vars => DependentsDepend'
  <2> SUFFICES ASSUME TypeOK, DependentsDepend, [Next]_vars PROVE DependentsDepend'
    OBVIOUS
  <2>1. ASSUME NEW p \in Refs, Reconcile(p) PROVE DependentsDepend'
    <3> SUFFICES ASSUME NEW r \in Refs, profiles'[r] # None, NEW x \in profiles'[r].dependents
                 PROVE  /\ profiles'[x] # None
                        /\ \E n \in profiles'[x].dependencies : r = DependencyOf(x, n)
      BY DEF DependentsDepend, DependencyOf
    <3>1. CASE Exists(work[p])
      <4>1. work[p] \in Object \cup {None}
        BY <2>1 DEF Reconcile, TypeOK
      <4>2. work[p].dependsOn \in SUBSET Names
        BY <3>1, <4>1, ProfileConstants DEF Exists, Object
      <4>3. AddProfile(p, work[p].dependsOn)
        BY <2>1, <3>1 DEF Reconcile
      <4>4. \/ x = p /\ \E n \in work[p].dependsOn : r = DependencyOf(p, n)
            \/ x # p /\ profiles[r] # None /\ x \in profiles[r].dependents
        BY <4>2, <4>3, AddedDependents
      <4>5. /\ profiles'[p] # None /\ profiles'[p].dependencies = work[p].dependsOn
            /\ \A q \in Refs \ {p} : SameDependencies(profiles[q], profiles'[q])
        BY <4>2, <4>3, AddLeavesDependencies
      <4>6. CASE x = p
        BY <4>4, <4>5, <4>6
      <4>7. CASE x # p
        <5>1. x \in Refs
          BY <4>4, <4>7 DEF TypeOK, ProfileInfo
        <5>2. profiles[x] # None /\ \E n \in profiles[x].dependencies : r = DependencyOf(x, n)
          BY <4>4, <4>7 DEF DependentsDepend
        <5> QED  BY <4>5, <4>7, <5>1, <5>2 DEF SameDependencies
      <4> QED  BY <4>6, <4>7
    <3>2. CASE ~Exists(work[p])
      <4>1. RemoveProfile(p)
        BY <2>1, <3>2 DEF Reconcile
      <4>2. x # p /\ profiles[r] # None /\ x \in profiles[r].dependents
        BY <4>1, RemovedDependents
      <4>3. \A q \in Refs \ {p} : SameDependencies(profiles[q], profiles'[q])
        BY <4>1, RemoveLeavesDependencies
      <4>4. x \in Refs
        BY <4>2 DEF TypeOK, ProfileInfo
      <4>5. profiles[x] # None /\ \E n \in profiles[x].dependencies : r = DependencyOf(x, n)
        BY <4>2 DEF DependentsDepend
      <4> QED  BY <4>2, <4>3, <4>4, <4>5 DEF SameDependencies
    <3> QED  BY <3>1, <3>2
  <2>2. CASE UNCHANGED profiles
    BY <2>2 DEF DependentsDepend
  <2> QED
    BY <2>1, <2>2 DEF Next, vars, Create, Change, Delete, Vanish, Edit, Resync, Get,
                      GetProfiles, Answer
<1> QED  BY <1>1, <1>2, Typing, PTL DEF Spec

=============================================================================
