------------------------------- MODULE Requests -------------------------------
(***************************************************************************)
(* One GET request, from its query to its answer, for every path that      *)
(* Handlers lists: parsing, the token, the reviews of the user's rights,   *)
(* the lists and what they filter, the page, the questions to the MCP      *)
(* server.  A stage that asks several times does so one call a step, and   *)
(* between two steps objects come and go, rights change, the token is      *)
(* withdrawn, ClusterAPI is installed, the MCP server stops.  Any call to  *)
(* the API server may fail.  A client that got a page may ask for the next.*)
(***************************************************************************)
EXTENDS Handlers, Paging, FiniteSets

CONSTANTS
  Objects,
  KindOf,      \* [Objects -> kinds]
  Rank,        \* [Objects -> Nat]: the order of the lists; some objects may tie
  Users,       \* rights: kinds to list, kinds to get, objects to get by name
  Filters,     \* sets of objects that a query may ask for
  Starts,      \* sets of objects that may exist when the request begins
  Targets,     \* objects that a query may name
  Bounds,      \* pairs of limit and skip
  MaxBad,      \* bound on the malformed parts of a query
  MaxChanges,  \* [Paths -> Nat]: bound on the changes during the request
  MaxSessions  \* bound on the sessions of the MCP server

ListKinds == {"Sveltos", "Capi", "ClusterSummary"}       \* reviewed with the verb list
ProfileKinds == {"ClusterProfile", "Profile"}
LiveKinds == {"EventTrigger", "Classifier", "MCC"}       \* listed from the API server
CachedKinds == ListKinds \cup ProfileKinds
ReviewedKinds == CachedKinds \cup LiveKinds
DataKinds == {"Chart", "Resource", "Status", "Unhealthy", "Matching"}    \* of a cluster
Kinds == ReviewedKinds \cup DataKinds

\* The kinds that the parts of a query name.
PartKinds == [cluster |-> {"Sveltos", "Capi"}, profile |-> ProfileKinds,
              trigger |-> {"EventTrigger"}, classifier |-> {"Classifier", "MCC"}]

ASSUME RequestConstants ==
  /\ IsFiniteSet(Objects) /\ Cardinality(Objects) <= MaxInt
  /\ KindOf \in [Objects -> Kinds] /\ Rank \in [Objects -> Nat]
  /\ \A u \in Users : u.list \subseteq Kinds /\ u.get \subseteq Kinds /\ u.named \subseteq Objects
  /\ Filters \subseteq SUBSET Objects /\ Starts \subseteq SUBSET Objects
  /\ Targets \subseteq Objects /\ Bounds \subseteq Ints \X Ints
  /\ MaxBad \in Nat /\ MaxChanges \in [Paths -> Nat] /\ MaxSessions \in Nat

VARIABLES
  \* the world
  objects,     \* [objects the path looks at -> "absent", "present", "deleting"]
  cached,      \* the objects in the maps of the server
  rights, token, installed, up,
  changes,     \* how many are left
  \* the request
  path, bad, target, wanted,
  \* the handler, and the number of the stage it is at
  handler, pc, limit, skip, all, copy, todo, rows, sliced, page, mcp,
  \* the answer
  status, bodies, answered,
  \* the MCP server
  sessions,
  \* history, which only the properties read
  allowedGet, allowedAll, steadyGet, steadyAll, trusted, wasUp,
  met, missed, skipped, opened, unlisted, got, quiet

world == <<objects, cached, rights, token, installed, up, changes>>
request == <<path, bad, target, wanted, handler>>
bounds == <<limit, skip>>
lists == <<all, copy, todo, rows, skipped>>
window == <<sliced, page>>
reply == <<status, bodies, answered>>
session == <<mcp, sessions, opened, unlisted>>
watched == <<allowedGet, allowedAll, steadyGet, steadyAll, trusted, wasUp, quiet>>
vars == <<world, request, pc, bounds, lists, window, reply, session, watched, met, missed, got>>

NotSliced == [result |-> "none", from |-> 0, to |-> 0]

-----------------------------------------------------------------------------
(* The rights of the user, and what is seen of them and of the objects     *)

OfKind(kinds) == {o \in Objects : KindOf[o] \in kinds}

\* canListSveltosClusters and its like ask for list, or for get without a name.
CanAll(kind) == kind \in IF kind \in ListKinds THEN rights.list ELSE rights.get
CanGet(o) == KindOf[o] \in rights.get \/ o \in rights.named

\* There for whoever asks the API server and for whoever reads the server's maps.
There(o) == objects[o] = "present" /\ (KindOf[o] \in CachedKinds => o \in cached)
Looked(kinds) == {o \in DOMAIN objects : KindOf[o] \in kinds}

Gettable == {o \in Objects : CanGet(o)}
Listable == {o \in Objects : CanAll(KindOf[o])}
Settled == {o \in DOMAIN objects : There(o)}

\* History takes notice of a change of the world, which ends a walk through the pages.
Watch ==
  /\ allowedGet' = allowedGet \cup Gettable'
  /\ allowedAll' = allowedAll \cup Listable'
  /\ steadyGet' = steadyGet \cap Gettable' \cap Settled'
  /\ steadyAll' = steadyAll \cap Listable' \cap Settled'
  /\ trusted' = (trusted \/ token')
  /\ wasUp' = (wasUp \/ up')
  /\ quiet' = FALSE

-----------------------------------------------------------------------------
(* What a path is about                                                    *)

Args(p, dos) ==
  {Handler[p][i].arg : i \in {j \in DOMAIN Handler[p] : Handler[p][j].do \in dos}}

\* The parts of the query that name an object, and the objects that the path looks at.
Parts(p) ==
  DOMAIN PartKinds \cap Args(p, {"query", "check", "require"})
Relevant(p) ==
  OfKind(Args(p, {"list", "read"}) \cup
         UNION {PartKinds[part] : part \in Args(p, {"get", "getOr404", "getOrNull", "cacheHas"})})

Has(do) == {i \in DOMAIN handler : handler[i].do = do}
Parsed == {"header"} \cup {handler[i].arg : i \in Has("query") \cup Has("check") \cup Has("require")}
Listed == {handler[i].arg : i \in Has("list")}

stage == handler[pc]
At(do) == pc \in DOMAIN handler /\ stage.do = do
End == Len(handler) + 1
Done == pc = End

-----------------------------------------------------------------------------

Init ==
  /\ path \in Paths /\ handler = Handler[path]
  /\ bad \in {b \in SUBSET Parsed : Cardinality(b) <= MaxBad}
  /\ target \in {t \in [Parts(path) -> Targets] :
                   \A part \in Parts(path) : KindOf[t[part]] \in PartKinds[part]}
  /\ wanted \in IF Has("filter") # {} THEN Filters ELSE {Objects}
  /\ \E there \in {s \cap Relevant(path) : s \in Starts} :
       objects = [o \in Relevant(path) |-> IF o \in there THEN "present" ELSE "absent"]
  /\ installed \in {TRUE, \E o \in DOMAIN objects : KindOf[o] = "Capi" /\ objects[o] = "present"}
  /\ cached = {o \in Looked(CachedKinds) : objects[o] = "present"}
  /\ rights \in Users
  /\ token \in BOOLEAN
  /\ up \in IF Has("ask") # {} THEN BOOLEAN ELSE {TRUE}
  /\ changes = MaxChanges[path]
  /\ pc = 1 /\ limit = maxItems /\ skip = 0
  /\ all = {} /\ copy = {} /\ todo = {} /\ rows = {} /\ skipped = {}
  /\ sliced = NotSliced /\ page = <<>>
  /\ mcp = "unused" /\ opened = FALSE /\ sessions = 0 /\ unlisted = 0
  /\ status = 0 /\ bodies = 0 /\ answered = FALSE
  /\ allowedGet = Gettable /\ allowedAll = Listable
  /\ steadyGet = Gettable \cap Settled /\ steadyAll = Listable \cap Settled
  /\ trusted = token /\ wasUp = up
  /\ met = FALSE /\ missed = FALSE /\ got = <<>> /\ quiet = TRUE

-----------------------------------------------------------------------------
(* How a stage ends.  The first status written is the one that is sent.    *)

Write(code) == status' = IF status = 0 THEN code ELSE status

Go == pc' = pc + 1 /\ UNCHANGED reply

\* AbortWithError, then return.
Abort(code) == Write(code) /\ pc' = End /\ UNCHANGED <<bodies, answered>>

\* AbortWithError without the return.
AbortAndGo(code) == Write(code) /\ pc' = pc + 1 /\ UNCHANGED <<bodies, answered>>

\* c.JSON with an error or another text that is no data.
WriteText(code) == Write(code) /\ bodies' = bodies + 1 /\ UNCHANGED answered

WriteData == Write(200) /\ bodies' = bodies + 1 /\ answered' = TRUE

-----------------------------------------------------------------------------
(* Parsing                                                                 *)

\* Whoever walks through the pages skips what he has; others skip what they like.
ParseBounds ==
  IF stage.arg # "page" THEN UNCHANGED bounds
  ELSE IF got = <<>> THEN \E b \in Bounds \cup {<<maxItems, 0>>} : limit' = b[1] /\ skip' = b[2]
  ELSE skip' = Len(got) /\ UNCHANGED limit

ParseWell ==
  /\ At("query") \/ At("check") \/ At("require")
  /\ stage.arg \notin bad
  /\ ParseBounds
  /\ Go
  /\ UNCHANGED <<world, request, lists, window, session, watched, met, missed, got>>

\* What Atoi returns with an error.
AtoiErrors == {0, MaxInt, -MaxInt - 1}

\* Faulty: an error in the query is not answered, and zero values are used.
QueryIgnoresBad ==
  /\ At("query") /\ stage.arg \in bad
  /\ met' = TRUE
  /\ Go
  /\ UNCHANGED <<world, request, bounds, lists, window, session, watched, missed, got>>

\* getLimitAndSkipFromQuery, getFailedOnlyFromQuery and getClusterFromQuery write an error
\* and return: their callers go on with what was parsed so far, which for the cluster is
\* nothing.
QueryBad ==
  /\ At("query") /\ stage.arg \in bad
  /\ met' = TRUE
  /\ WriteText(400)
  /\ pc' = pc + 1
  /\ IF stage.arg = "page"
       THEN \/ limit' \in AtoiErrors /\ UNCHANGED skip
            \/ skip' \in AtoiErrors /\ \E b \in Bounds \cup {<<maxItems, 0>>} : limit' = b[1]
       ELSE UNCHANGED bounds
  /\ UNCHANGED <<world, request, lists, window, session, watched, missed, got>>

CheckBad ==
  /\ At("check") /\ stage.arg \in bad
  /\ met' = TRUE
  /\ AbortAndGo(400)
  /\ UNCHANGED <<world, request, bounds, lists, window, session, watched, missed, got>>

RequireBad ==
  /\ At("require") /\ stage.arg \in bad
  /\ met' = TRUE
  /\ Abort(400)
  /\ UNCHANGED <<world, request, bounds, lists, window, session, watched, missed, got>>

ReturnIfBadStage ==
  /\ At("returnIfBad")
  /\ IF stage.arg \in bad THEN pc' = End /\ UNCHANGED reply ELSE Go
  /\ UNCHANGED <<world, request, bounds, lists, window, session, watched, met, missed, got>>

-----------------------------------------------------------------------------
(* The token and the rights                                                *)

\* validateToken: a missing header is answered with a text; the token is tried against the
\* API server, which also says whose it is.
TokenStage ==
  /\ At("token")
  /\ \/ "header" \in bad /\ WriteText(401) /\ pc' = End
     \/ "header" \notin bad /\ Abort(401)
     \/ "header" \notin bad /\ token /\ Go
  /\ UNCHANGED <<world, request, bounds, lists, window, session, watched, met, missed, got>>

InstalledStage ==
  /\ At("installed")
  /\ \/ Abort(stage.fail)
     \/ ~installed /\ WriteData /\ pc' = End
     \/ installed /\ Go
  /\ UNCHANGED <<world, request, bounds, lists, window, session, watched, met, missed, got>>

\* The kind a review is about; for a part of the query, that of the object it names.
KindOfArg(arg) == IF arg \in DOMAIN target THEN KindOf[target[arg]] ELSE arg

MayAllStage ==
  /\ At("mayAll")
  /\ \/ Abort(stage.fail) /\ UNCHANGED all
     \/ /\ all' = all \cup {k \in {KindOfArg(stage.arg)} : CanAll(k)}
        /\ Go
  /\ UNCHANGED <<world, request, bounds, copy, todo, rows, skipped, window, session, watched,
                 met, missed, got>>

\* Faulty: a refusal is written, but the handler does not return.
MayGetStageGoesOn ==
  /\ \/ At("mayGet")
     \/ At("mayGetUnlessAll") /\ KindOfArg(stage.arg) \notin all
  /\ \/ AbortAndGo(stage.fail)
     \/ (stage.arg \in bad \/ CanGet(target[stage.arg])) /\ Go
  /\ UNCHANGED <<world, request, bounds, lists, window, session, watched, met, missed, got>>

\* A malformed part is a review of another object, or of none: any answer.
MayGetStage ==
  /\ \/ At("mayGet")
     \/ At("mayGetUnlessAll") /\ KindOfArg(stage.arg) \notin all
  /\ \/ Abort(stage.fail)
     \/ (stage.arg \in bad \/ CanGet(target[stage.arg])) /\ Go
  /\ UNCHANGED <<world, request, bounds, lists, window, session, watched, met, missed, got>>

MayGetNotNeeded ==
  /\ At("mayGetUnlessAll") /\ KindOfArg(stage.arg) \in all
  /\ Go
  /\ UNCHANGED <<world, request, bounds, lists, window, session, watched, met, missed, got>>

-----------------------------------------------------------------------------
(* Lists                                                                   *)

\* getCopyOfProfiles
CopyStage ==
  /\ At("copy")
  /\ copy' = cached \cap OfKind(ProfileKinds)
  /\ Go
  /\ UNCHANGED <<world, request, bounds, all, todo, rows, skipped, window, session, watched,
                 met, missed, got>>

\* Faulty: the right to list one kind of profiles is taken for both.
WholeIfEither(kind) == IF kind \in ProfileKinds THEN ProfileKinds \cap all # {} ELSE kind \in all

\* Profiles of both kinds are listed whole, or neither.
Whole(kind) == IF kind \in ProfileKinds THEN ProfileKinds \subseteq all ELSE kind \in all

\* Objects being deleted are left out of the lists of event triggers and classifiers.
Candidates(kind) ==
  {o \in Looked({kind}) :
     objects[o] = "present" \/ (objects[o] = "deleting" /\ kind \notin LiveKinds)}

\* What a list contains for those who may list everything.
Everything(kind) ==
  IF kind \in LiveKinds THEN Candidates(kind)
  ELSE IF kind \in ProfileKinds THEN copy \cap OfKind({kind})
  ELSE cached \cap OfKind({kind})

ListFails ==
  /\ At("list") /\ todo = {}
  /\ Whole(stage.arg) => stage.arg \in LiveKinds
  /\ Abort(stage.fail)
  /\ UNCHANGED <<world, request, bounds, lists, window, session, watched, met, missed, got>>

ListWhole ==
  /\ At("list") /\ Whole(stage.arg)
  /\ rows' = rows \cup Everything(stage.arg)
  /\ Go
  /\ UNCHANGED <<world, request, bounds, all, copy, todo, skipped, window, session, watched,
                 met, missed, got>>

\* Without the right to list, the objects are listed and reviewed one by one.
ListSome ==
  /\ At("list") /\ ~Whole(stage.arg) /\ todo = {}
  /\ todo' = Candidates(stage.arg)
  /\ IF todo' = {} THEN Go ELSE UNCHANGED <<pc, reply>>
  /\ UNCHANGED <<world, request, bounds, all, copy, rows, skipped, window, session, watched,
                 met, missed, got>>

\* Faulty: a review that fails ends the list.
ReviewGivesUp(o) ==
  /\ At("list")
  /\ \/ rows' = rows /\ skipped' = skipped \cup {o} /\ todo' = {}
     \/ /\ rows' = IF CanGet(o) /\ (stage.arg \in ProfileKinds => o \in copy)
                     THEN rows \cup {o} ELSE rows
        /\ todo' = todo \ {o}
        /\ UNCHANGED skipped
  /\ IF todo' = {} THEN Go ELSE UNCHANGED <<pc, reply>>
  /\ UNCHANGED <<world, request, bounds, all, copy, window, session, watched, met, missed, got>>

\* A review that fails leaves its object out.  A profile also needs to be in the copy.
Review(o) ==
  /\ At("list")
  /\ todo' = todo \ {o}
  /\ \/ rows' = rows /\ skipped' = skipped \cup {o}
     \/ /\ rows' = IF CanGet(o) /\ (stage.arg \in ProfileKinds => o \in copy)
                     THEN rows \cup {o} ELSE rows
        /\ UNCHANGED skipped
  /\ IF todo' = {} THEN Go ELSE UNCHANGED <<pc, reply>>
  /\ UNCHANGED <<world, request, bounds, all, copy, window, session, watched, met, missed, got>>

FilterStage ==
  /\ At("filter")
  /\ rows' = rows \cap wanted
  /\ Go
  /\ UNCHANGED <<world, request, bounds, all, copy, todo, skipped, window, session, watched,
                 met, missed, got>>

-----------------------------------------------------------------------------
(* What belongs to one object                                              *)

Exists(part) == part \notin bad /\ objects[target[part]] # "absent"

\* The maps of the server are always there; a call to the API server may fail.  Nothing
\* belongs to a cluster without a name.
ReadStage ==
  /\ At("read")
  /\ \/ stage.arg \notin {"Status", "Unhealthy"} /\ Abort(stage.fail) /\ UNCHANGED rows
     \/ /\ rows' = rows \cup {o \in Looked({stage.arg}) :
                                "cluster" \notin bad /\ objects[o] = "present"}
        /\ Go
  /\ UNCHANGED <<world, request, bounds, all, copy, todo, skipped, window, session, watched,
                 met, missed, got>>

GetStage ==
  /\ At("get") \/ At("getOr404") \/ At("getOrNull")
  /\ \/ Abort(stage.fail)
     \/ At("getOr404") /\ ~Exists(stage.arg) /\ Abort(404)
     \/ At("getOrNull") /\ ~Exists(stage.arg) /\ Go
     \/ Exists(stage.arg) /\ Go
  /\ UNCHANGED <<world, request, bounds, lists, window, session, watched, met, missed, got>>

\* getProfile answers with an empty text for a profile that is not in the map, and goes on.
CacheHasStage ==
  /\ At("cacheHas")
  /\ IF stage.arg \notin bad /\ target[stage.arg] \in cached
       THEN Go /\ UNCHANGED missed
       ELSE WriteText(200) /\ pc' = pc + 1 /\ missed' = TRUE
  /\ UNCHANGED <<world, request, bounds, lists, window, session, watched, met, got>>

-----------------------------------------------------------------------------
(* Pages                                                                   *)

\* Faulty: the order of the Go map is kept.
OrdersUnsorted(set) ==
  {s \in [1..Cardinality(set) -> set] : \A i, j \in DOMAIN s : i < j => s[i] # s[j]}

\* The rows come out of a Go map in any order, and are sorted.
Orders(set) ==
  {s \in [1..Cardinality(set) -> set] :
     \A i, j \in DOMAIN s : i < j => s[i] # s[j] /\ Rank[s[i]] <= Rank[s[j]]}

InRange(kind, len) ==
  IF kind = "clusters" THEN getClustersInRange(len, limit, skip)
  ELSE getSliceInRange(len, limit, skip)

\* A panic is answered by gin's recovery.
PageStage ==
  /\ At("page")
  /\ sliced' = InRange(stage.arg, Cardinality(rows))
  /\ \/ /\ sliced'.result = "ok"
        /\ \E s \in Orders(rows) : page' = SubSeq(s, sliced'.from + 1, sliced'.to)
        /\ Go
     \/ sliced'.result = "refused" /\ Abort(stage.fail) /\ UNCHANGED page
     \/ sliced'.result = "panic" /\ Abort(500) /\ UNCHANGED page
  /\ UNCHANGED <<world, request, bounds, lists, session, watched, met, missed, got>>

AnswerStage ==
  /\ At("answer")
  /\ WriteData
  /\ pc' = End
  /\ UNCHANGED <<world, request, bounds, lists, window, session, watched, met, missed, got>>

-----------------------------------------------------------------------------
(* The MCP server: connect lists the tools before it returns the session   *)

\* Faulty: a server that does not answer is an error like others.
ConnectPlainError ==
  /\ At("ask") /\ mcp = "unused"
  /\ \/ /\ up /\ mcp' = "open" /\ opened' = TRUE /\ sessions' = sessions + 1
        /\ UNCHANGED <<pc, reply>>
     \/ mcp' = "closed" /\ Abort(500) /\ UNCHANGED <<opened, sessions>>
  /\ UNCHANGED <<world, request, bounds, lists, window, unlisted, watched, met, missed, got>>

\* Every error of Connect is told as a server that is not available: one that is down, one
\* that refuses, a request that was cancelled.
Connect ==
  /\ At("ask") /\ mcp = "unused"
  /\ \/ /\ up /\ mcp' = "open" /\ opened' = TRUE /\ sessions' = sessions + 1
        /\ UNCHANGED <<pc, reply>>
     \/ mcp' = "closed" /\ Abort(503) /\ UNCHANGED <<opened, sessions>>
  /\ UNCHANGED <<world, request, bounds, lists, window, unlisted, watched, met, missed, got>>

\* When the tools cannot be listed, nobody closes the session.
ListTools ==
  /\ At("ask") /\ mcp = "open"
  /\ \/ up /\ mcp' = "ready" /\ UNCHANGED <<pc, reply, unlisted>>
     \/ mcp' = "closed" /\ unlisted' = unlisted + 1 /\ Abort(stage.fail)
  /\ UNCHANGED <<world, request, bounds, lists, window, opened, sessions, watched, met, missed,
                 got>>

\* Faulty: the session is closed twice.
CallToolClosesTwice ==
  /\ At("ask") /\ mcp = "ready"
  /\ mcp' = "closed" /\ sessions' = sessions - 2
  /\ \/ up /\ Go
     \/ Abort(stage.fail)
  /\ UNCHANGED <<world, request, bounds, lists, window, opened, unlisted, watched, met, missed,
                 got>>

\* Faulty: the session is only closed after a result.
CallToolKeepsSession ==
  /\ At("ask") /\ mcp = "ready"
  /\ mcp' = "closed"
  /\ \/ up /\ Go /\ sessions' = sessions - 1
     \/ Abort(stage.fail) /\ UNCHANGED sessions
  /\ UNCHANGED <<world, request, bounds, lists, window, opened, unlisted, watched, met, missed,
                 got>>

\* The tool fails, answers an error, or something that is no result.
CallTool ==
  /\ At("ask") /\ mcp = "ready"
  /\ mcp' = "closed" /\ sessions' = sessions - 1
  /\ \/ up /\ Go
     \/ Abort(stage.fail)
  /\ UNCHANGED <<world, request, bounds, lists, window, opened, unlisted, watched, met, missed,
                 got>>

-----------------------------------------------------------------------------
(* The world, in what the path looks at                                    *)

process == <<request, pc, bounds, lists, window, reply, session, met, missed, got>>

Changes == ~Done /\ changes > 0 /\ changes' = changes - 1

EditObject(o) ==
  /\ Changes
  /\ \E s \in {"absent", "present", "deleting"} \ {objects[o]} :
       /\ s = "present" => objects[o] = "absent" /\ (KindOf[o] = "Capi" => installed)
       /\ s = "deleting" => objects[o] = "present"
       /\ objects' = [objects EXCEPT ![o] = s]
  /\ UNCHANGED <<process, cached, rights, token, installed, up>>
  /\ Watch

\* A controller brings a map up to date.
CatchUp(o) ==
  /\ ~Done
  /\ KindOf[o] \in CachedKinds
  /\ cached' = IF objects[o] = "present" THEN cached \cup {o} ELSE cached \ {o}
  /\ cached' # cached
  /\ UNCHANGED <<process, objects, rights, token, installed, up, changes>>
  /\ Watch

ChangeRights ==
  /\ Changes
  /\ \E u \in Users \ {rights} : rights' = u
  /\ UNCHANGED <<process, objects, cached, token, installed, up>>
  /\ Watch

ChangeToken ==
  /\ Changes
  /\ token' = ~token
  /\ UNCHANGED <<process, objects, cached, rights, installed, up>>
  /\ Watch

\* The Clusters go with their definition.
ChangeInstalled ==
  /\ Changes
  /\ Looked({"Capi"}) # {}
  /\ installed' = ~installed
  /\ objects' = [o \in DOMAIN objects |-> IF KindOf[o] = "Capi" THEN "absent" ELSE objects[o]]
  /\ UNCHANGED <<process, cached, rights, token, up>>
  /\ Watch

ChangeServer ==
  /\ Changes
  /\ Has("ask") # {}
  /\ up' = ~up
  /\ UNCHANGED <<process, objects, cached, rights, token, installed>>
  /\ Watch

\* The client asks for the next page of a list, or asks the MCP server again.
Again ==
  /\ Done
  /\ \/ /\ quiet /\ status = 200 /\ page # <<>> /\ skip = Len(got) /\ skipped = {}
        /\ skip + Len(page) < Cardinality(rows)
        /\ got' = got \o page
     \/ mcp = "closed" /\ unlisted > 0 /\ sessions < MaxSessions /\ UNCHANGED got
  /\ pc' = 1 /\ all' = {} /\ copy' = {} /\ todo' = {} /\ rows' = {} /\ skipped' = {}
  /\ sliced' = NotSliced /\ page' = <<>> /\ mcp' = "unused" /\ opened' = FALSE
  /\ status' = 0 /\ bodies' = 0 /\ answered' = FALSE
  /\ allowedGet' = Gettable /\ allowedAll' = Listable
  /\ steadyGet' = Gettable \cap Settled /\ steadyAll' = Listable \cap Settled
  /\ trusted' = token /\ wasUp' = up
  /\ met' = FALSE /\ missed' = FALSE
  /\ UNCHANGED <<world, request, bounds, sessions, unlisted, quiet>>

-----------------------------------------------------------------------------

Handle ==
  \/ ParseWell \/ QueryBad \/ CheckBad \/ RequireBad \/ ReturnIfBadStage
  \/ TokenStage \/ InstalledStage \/ MayAllStage \/ MayGetStage \/ MayGetNotNeeded
  \/ CopyStage \/ ListFails \/ ListWhole \/ ListSome \/ (\E o \in todo : Review(o))
  \/ FilterStage \/ ReadStage \/ GetStage \/ CacheHasStage \/ PageStage \/ AnswerStage
  \/ Connect \/ ListTools \/ CallTool

Change ==
  \/ \E o \in DOMAIN objects : EditObject(o) \/ CatchUp(o)
  \/ ChangeRights \/ ChangeToken \/ ChangeInstalled \/ ChangeServer

Next == Handle \/ Change \/ Again

Spec == Init /\ [][Next]_vars

-----------------------------------------------------------------------------
(* Properties                                                              *)

\* The variables have their types.
TypeOK ==
  /\ DOMAIN objects \subseteq Objects
  /\ objects \in [DOMAIN objects -> {"absent", "present", "deleting"}]
  /\ cached \subseteq Objects /\ rights \in Users
  /\ token \in BOOLEAN /\ installed \in BOOLEAN /\ up \in BOOLEAN
  /\ path \in Paths /\ bad \subseteq Parsed /\ wanted \subseteq Objects
  /\ target \in [DOMAIN target -> Objects]
  /\ changes \in Nat
  /\ pc \in 1..End /\ limit \in Ints /\ skip \in Ints
  /\ copy \subseteq Objects /\ todo \subseteq Objects /\ rows \subseteq Objects
  /\ all \subseteq Kinds
  /\ sliced.result \in {"none", "ok", "refused", "panic"}
  /\ page \in Seq(Objects) /\ got \in Seq(Objects)
  /\ mcp \in {"unused", "open", "ready", "closed"} /\ opened \in BOOLEAN
  /\ sessions \in Nat /\ unlisted \in Nat
  /\ status \in {0, 200, 400, 401, 404, 500, 503} /\ bodies \in Nat /\ answered \in BOOLEAN

\* What the answer of a path is about, besides the lists in it.
Subjects(p) ==
  CASE p \in {"helmcharts", "resources", "getClusterStatus", "clusterHealth", "debugCluster",
                 "analyzeEventPipeline", "analyzeClassifierPipeline"} -> {"cluster"}
    [] p = "profile" -> {"profile"}
    [] p = "event" -> {"trigger"}
    [] p = "eventResources" -> {"trigger", "cluster"}
    [] p = "classifier" -> {"classifier"}
    [] p \in {"debugProfileCluster", "dryRunChanges"} -> {"profile", "cluster"}
    [] OTHER -> {}

\* A handler reviews what its answer is about.  TLC decides it, too.
ASSUME SubjectsReviewed ==
  \A p \in Paths : \A part \in Subjects(p) :
    \E i \in DOMAIN Handler[p] : Handler[p][i] \in {MayGet(part), MayGetUnlessAll(part)}

\* Data is only sent about what the user might get, or list, at some time during the request,
\* and only to a user whose token was good at some time during it: also when rights change
\* while the lists are put together, and when a part of the query is malformed and the handler
\* goes on (the reviews of k8s-utils.go, as the handlers of http.go use them).
ShownWasAllowed ==
  answered =>
    /\ trusted \/ rows \cup Subjects(path) = {}
    /\ \A part \in Subjects(path) \ bad : target[part] \in allowedGet
    /\ rows \cap OfKind(ReviewedKinds) \subseteq allowedGet \cup allowedAll

\* What was there all along, for a user who might get it all along or list it all along, is
\* in the list, unless its review failed: a change, or a review that failed, never costs
\* others their place (the loops of manager.go:226-325, 903-957, events.go:145-184,
\* classifiers.go:121-207 and stats.go).
ListIsComplete ==
  answered /\ Done =>
    ((steadyGet \cup steadyAll) \cap OfKind(Listed) \cap wanted) \ skipped
      \subseteq rows

\* A request with a malformed part is answered with 400, whatever the handler goes on to do
\* after it found that (http.go:1489-1566 write the answer, but not all callers stop).
MalformedIs400 == Done /\ met => status = 400

\* Every request is answered, by one body at most, and with data exactly when it says so;
\* but for a profile missing from the map, and malformed requests (see Not modelled in the
\* README for both).
OneAnswer ==
  Done /\ ~met /\ ~missed =>
    /\ status # 0 /\ bodies <= 1
    /\ status = 200 <=> answered

\* 503 is said exactly when there was no session with the MCP server, so that it can be told
\* from the errors of its tools (client.go:43-46): whenever the server was down all along, but
\* also for any other error of Connect (79-83), and not for a server that goes away later.
UnavailableIsSaid ==
  Done /\ mcp # "unused" /\ ~met =>
    /\ status = 503 <=> ~opened
    /\ ~wasUp => status = 503

\* The sessions of the MCP server are the one in use and those whose tools could not be
\* listed: connect closes nothing (client.go:88-93), all else is closed.
SessionsAccounted == sessions = unlisted + IF mcp \in {"open", "ready"} THEN 1 ELSE 0

\* A page is the window that limit and skip ask for; it is refused only for negative numbers,
\* or when their sum does not fit in an int (managed_clusters.go:57-80, addons.go:420-439).
WindowRight ==
  sliced # NotSliced =>
    LET asked == Window(Cardinality(rows), limit, skip)
    IN /\ sliced.result = "ok" => sliced = asked \/ rows = {}
       /\ skip >= 0 /\ limit >= 0 /\ skip + limit <= MaxInt => sliced.result = "ok"

\* Whoever asks for page after page while nothing changes gets each row once and in order,
\* as long as no two rows tie.
PagesMakeTheList ==
  LET whole == got \o page
  IN /\ Done /\ quiet /\ status = 200 /\ skipped = {} /\ page # <<>>
     /\ skip = Len(got) /\ skip + Len(page) = Cardinality(rows)
     /\ \A o, p \in rows : Rank[o] = Rank[p] => o = p
     => /\ {whole[i] : i \in DOMAIN whole} = rows
        /\ \A i, j \in DOMAIN whole : i < j => Rank[whole[i]] < Rank[whole[j]]

===============================================================================
