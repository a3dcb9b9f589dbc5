----------------------------- MODULE ProfilePage -----------------------------
(***************************************************************************)
(* GET /profile: the page of one profile, with a row for each matching     *)
(* cluster that the user may get, the place of the cluster in the rollout  *)
(* of the profile, and a count of the rows in each place.                  *)
(* The page takes many steps: it reads the profile once, then asks the API *)
(* server about the user's permissions and the cache about the cluster,    *)
(* cluster by cluster, while the profile's rollout goes on, clusters are   *)
(* paused or become ready, and permissions are granted and withdrawn.      *)
(***************************************************************************)
EXTENDS Naturals, FiniteSets, Sequences

CONSTANTS
  SveltosClusters, CAPIClusters,
  Profiles,       \* the objects the profile may be
  None,           \* "no object", "no entry", "no row", "not asked", "no summary"
  MaxChanges      \* bound on the changes around the requests

Clusters == SveltosClusters \cup CAPIClusters
Types == {"Sveltos", "Capi"}
TypeOf(c) == IF c \in CAPIClusters THEN "Capi" ELSE "Sveltos"

\* maxUpdate is not set, a number, or a percentage.
MaxUpdate == [percent : BOOLEAN, value : Nat] \cup {None}
Profile == [matching : Seq(Clusters), updated : SUBSET Clusters, updating : SUBSET Clusters,
            maxUpdate : MaxUpdate]
ClusterInfo == [paused : BOOLEAN, ready : BOOLEAN]
RolloutStates == {"updated", "updating", "waiting", "paused", "notReady"}

\* A profile matches a cluster once.
ASSUME PageConstants ==
  /\ SveltosClusters \cap CAPIClusters = {} /\ IsFiniteSet(Clusters)
  /\ Profiles \subseteq Profile
  /\ \A p \in Profiles : \A i, j \in DOMAIN p.matching : p.matching[i] = p.matching[j] => i = j
  /\ None \notin Profile /\ None \notin ClusterInfo /\ None \notin BOOLEAN
  /\ None \notin RolloutStates /\ None # ""
  /\ None \notin [maxUpdate : Nat, count : [RolloutStates -> Nat]]
  /\ MaxChanges \in Nat

VARIABLES
  profile,      \* the profile as the informer has it, or None
  info,         \* [Clusters -> ClusterInfo or None]: the cluster caches
  getAll,       \* types of which the user may get every cluster
  getNamed,     \* clusters that the user may get by name
  changes,
  request       \* the request being served, or None

world == <<profile, info, getAll, getNamed, changes>>
vars == <<world, request>>

Steps == {"permission", "read", "access", "row", "sent"}

\* copy: the profile as it was read; todo: the clusters still to look at; canGetAll: what
\* the access checker remembers; reviews: the questions about clusters it asked.  History:
\* ever, always and alwaysAll, what the user could get at some time and all the time.
Request == [step : Steps, copy : Profile \cup {None}, todo : Seq(Clusters),
            canGetAll : [Types -> BOOLEAN \cup {None}],
            rows : [Clusters -> RolloutStates \cup {"", None}], reviews : Nat,
            ever : SUBSET Clusters, always : SUBSET Clusters, alwaysAll : SUBSET Types]

\* A page is only built from a profile that was found.
TypeOK ==
  /\ profile \in Profiles \cup {None}
  /\ info \in [Clusters -> ClusterInfo \cup {None}]
  /\ getAll \subseteq Types
  /\ getNamed \subseteq Clusters
  /\ changes \in 0..MaxChanges
  /\ request # None =>
       /\ request \in Request
       /\ request.step \in {"access", "row", "sent"} => request.copy # None

Init ==
  /\ profile \in Profiles \cup {None}
  /\ info = [c \in Clusters |-> None]
  /\ getAll \in SUBSET Types
  /\ getNamed \in SUBSET Clusters
  /\ changes = 0
  /\ request = None

-----------------------------------------------------------------------------
(* Around the request                                                      *)

Accessible(all, named) == {c \in Clusters : TypeOf(c) \in all \/ c \in named}

Change == changes < MaxChanges /\ changes' = changes + 1

ChangeProfile(new) ==
  /\ Change
  /\ profile # new
  /\ profile' = new
  /\ UNCHANGED <<info, getAll, getNamed, request>>

ChangeInfo(c, new) ==
  /\ Change
  /\ info[c] # new
  /\ info' = [info EXCEPT ![c] = new]
  /\ UNCHANGED <<profile, getAll, getNamed, request>>

ChangeAccess(all, named) ==
  /\ Change
  /\ <<all, named>> # <<getAll, getNamed>>
  /\ getAll' = all
  /\ getNamed' = named
  /\ request' = IF request = None THEN None
                ELSE [request EXCEPT !.ever = @ \cup Accessible(all, named),
                                     !.always = @ \cap Accessible(all, named),
                                     !.alwaysAll = @ \cap all]
  /\ UNCHANGED <<profile, info>>

-----------------------------------------------------------------------------
(* The rollout of a profile                                                *)

isPending(p) == p.updated # {} \/ p.updating # {}

\* entry is what the cache has of c.
stateOf(p, c, entry) ==
  IF entry # None /\ entry.paused THEN "paused"
  ELSE IF ~isPending(p) THEN ""
  ELSE IF c \in p.updated THEN "updated"
  ELSE IF c \in p.updating THEN "updating"
  ELSE IF entry # None /\ ~entry.ready THEN "notReady"
  ELSE "waiting"

\* A percentage of the matching clusters is rounded up.
getMaxUpdate(p) ==
  IF p.maxUpdate = None THEN 0
  ELSE IF p.maxUpdate.percent THEN (p.maxUpdate.value * Len(p.matching) + 99) \div 100
  ELSE p.maxUpdate.value

summarize(p, rows) ==
  IF ~isPending(p) THEN None
  ELSE [maxUpdate |-> getMaxUpdate(p),
        count |-> [s \in RolloutStates |-> Cardinality({c \in Clusters : rows[c] = s})]]

-----------------------------------------------------------------------------
(* The request                                                             *)

\* A request for a profile of a known kind, by name, from a user whose token is good.
Receive ==
  /\ request = None
  /\ request' = [step |-> "permission", copy |-> None, todo |-> <<>>,
                 canGetAll |-> [t \in Types |-> None], rows |-> [c \in Clusters |-> None],
                 reviews |-> 0, ever |-> Accessible(getAll, getNamed),
                 always |-> Accessible(getAll, getNamed), alwaysAll |-> getAll]
  /\ UNCHANGED world

At(step) == request # None /\ request.step = step

\* Any question to the API server may fail, or find that the user may not get the
\* profile: the answer is an error.
Abort ==
  /\ \/ At("permission")
     \/ /\ At("access") /\ request.todo # <<>>
        /\ request.canGetAll[TypeOf(Head(request.todo))] # TRUE
  /\ request' = None
  /\ UNCHANGED world

CanGetProfile ==
  /\ At("permission")
  /\ request' = [request EXCEPT !.step = "read"]
  /\ UNCHANGED world

\* Faulty: a profile that is gone is taken for one without clusters.
ReadProfileUnchecked ==
  /\ At("read")
  /\ request' = [request EXCEPT !.copy = profile, !.step = "access",
                                !.todo = IF profile = None THEN <<>> ELSE profile.matching]
  /\ UNCHANGED world

\* A profile that is gone by now is an error.
ReadProfile ==
  /\ At("read")
  /\ request' = IF profile = None THEN None
                ELSE [request EXCEPT !.copy = profile, !.step = "access",
                                     !.todo = profile.matching]
  /\ UNCHANGED world

Asking(c) == At("access") /\ request.todo # <<>> /\ c = Head(request.todo)

\* Faulty: what is remembered does not depend on the type.
AskAllOfAnyType(c) ==
  /\ Asking(c)
  /\ request.canGetAll[TypeOf(c)] = None
  /\ request' = [request EXCEPT !.reviews = @ + 1,
                   !.canGetAll = [t \in Types |-> TypeOf(c) \in getAll]]
  /\ UNCHANGED world

\* Faulty: a yes is used, and not remembered.
AskAllAgain(c) ==
  /\ Asking(c)
  /\ request.canGetAll[TypeOf(c)] = None
  /\ request' = [request EXCEPT !.reviews = @ + 1,
                   !.step = IF TypeOf(c) \in getAll THEN "row" ELSE @,
                   !.canGetAll[TypeOf(c)] = IF TypeOf(c) \in getAll THEN None ELSE FALSE]
  /\ UNCHANGED world

\* The first cluster of its type: may the user get them all?
AskAll(c) ==
  /\ Asking(c)
  /\ request.canGetAll[TypeOf(c)] = None
  /\ request' = [request EXCEPT !.reviews = @ + 1,
                   !.canGetAll[TypeOf(c)] = TypeOf(c) \in getAll]
  /\ UNCHANGED world

\* A cluster of a type the user could get all of needs no question.
SkipReview(c) ==
  /\ Asking(c)
  /\ request.canGetAll[TypeOf(c)] = TRUE
  /\ request' = [request EXCEPT !.step = "row"]
  /\ UNCHANGED world

\* Any other is asked about by name; the ones denied have no row.
AskOne(c) ==
  /\ Asking(c)
  /\ request.canGetAll[TypeOf(c)] = FALSE
  /\ request' = IF c \in Accessible(getAll, getNamed)
                THEN [request EXCEPT !.reviews = @ + 1, !.step = "row"]
                ELSE [request EXCEPT !.reviews = @ + 1, !.todo = Tail(@)]
  /\ UNCHANGED world

\* Faulty: the rollout is looked up again for each row.
AddRowOfNow(c) ==
  /\ At("row") /\ c = Head(request.todo)
  /\ request' = [request EXCEPT !.step = "access", !.todo = Tail(@),
                   !.rows[c] = stateOf(IF profile = None THEN request.copy ELSE profile,
                                       c, info[c])]
  /\ UNCHANGED world

AddRow(c) ==
  /\ At("row") /\ c = Head(request.todo)
  /\ request' = [request EXCEPT !.step = "access", !.todo = Tail(@),
                   !.rows[c] = stateOf(request.copy, c, info[c])]
  /\ UNCHANGED world

Send ==
  /\ At("access") /\ request.todo = <<>>
  /\ request' = [request EXCEPT !.step = "sent"]
  /\ UNCHANGED world

Finish ==
  /\ At("sent")
  /\ request' = None
  /\ UNCHANGED world

-----------------------------------------------------------------------------

Next ==
  \/ \E new \in Profiles \cup {None} : ChangeProfile(new)
  \/ \E c \in Clusters, new \in ClusterInfo \cup {None} : ChangeInfo(c, new)
  \/ \E all \in SUBSET Types, named \in SUBSET Clusters : ChangeAccess(all, named)
  \/ Receive
  \/ Abort
  \/ CanGetProfile
  \/ ReadProfile
  \/ \E c \in Clusters : AskAll(c) \/ SkipReview(c) \/ AskOne(c) \/ AddRow(c)
  \/ Send
  \/ Finish

Spec == Init /\ [][Next]_vars

-----------------------------------------------------------------------------
(* Properties                                                              *)

Shown == {c \in Clusters : request.rows[c] # None}
Matching == {request.copy.matching[n] : n \in 1..Len(request.copy.matching)}

\* Permissions change while a page is built and the access checker remembers answers.
\* All the same, a page has a row for each matching cluster that the user could get all
\* along, and only for those that the user could get at some moment of the request.
AccessRespected ==
  At("sent") =>
    /\ Matching \cap request.always \subseteq Shown
    /\ Shown \subseteq Matching \cap request.ever

\* "A user allowed to get all the clusters of a type is found out with one call per type
\* for the whole request": beyond that, a review is only spent on a cluster of a type the
\* user could not get all of at some time of the request, and only one.
FewReviews ==
  request # None =>
    request.reviews <=
      Cardinality({t \in Types : request.canGetAll[t] # None})
        + Cardinality({c \in Clusters : TypeOf(c) \notin request.alwaysAll})

\* The summary accounts for each row, once, whatever happens to the rollout while the
\* page is built; without a summary, rows say at most that their cluster is paused.
SummaryCountsRows ==
  At("sent") =>
    LET summary == summarize(request.copy, request.rows) IN
      IF summary = None
      THEN \A c \in Shown : request.rows[c] \in {"", "paused"}
      ELSE LET n == summary.count IN
             n["updated"] + n["updating"] + n["waiting"] + n["paused"] + n["notReady"]
               = Cardinality(Shown)

=============================================================================
