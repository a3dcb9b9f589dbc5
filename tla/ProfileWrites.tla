---------------------------- MODULE ProfileWrites ----------------------------
(***************************************************************************)
(* POST, PUT and DELETE /profile of internal/server/profile_writes.go:     *)
(* requests that write a profile and the ConfigMaps and Secrets it refers  *)
(* to, one call of the API server after the other, while other requests do *)
(* the same.  Every call may fail: refused, without effect, or lost, where *)
(* it took effect and only its answer did not come (a request whose client *)
(* went away is refused every call that follows).                          *)
(***************************************************************************)
EXTENDS Naturals, FiniteSets

CONSTANTS
  Requests,
  Ids,            \* identities of profiles: kind, namespace and name
  Contents,       \* ConfigMaps and Secrets
  ContentOf,      \* [Ids -> Contents]: the ConfigMap a pasted YAML goes to
  RefSets,        \* sets of contents that a spec may refer to
  Operations,     \* subset of {"create", "update", "delete"}
  RemoveFlags,    \* the values RemoveReferencedContent may have
  FaultKinds,     \* subset of {"refused", "lost"}
  MaxFaults,      \* bound on the failing calls
  None,           \* "no object", "no answer"
  User,           \* who made the contents that no request made
  Made            \* the contents that users made before

VARIABLES
  profileObjects,   \* [Ids -> object or None]
  contentObjects,   \* [Contents -> object or None]
  cached,           \* identities the informer of this process has
  requests,         \* [Requests -> state of the handler]
  version,          \* the resource version of the last write
  faults            \* calls that failed

vars == <<profileObjects, contentObjects, cached, requests, version, faults>>
objects == <<profileObjects, contentObjects, version>>

\* born is the version of the creation; deleting, that it has a deletion timestamp.
Profile == [refs : SUBSET Contents, born : Nat, version : Nat, deleting : BOOLEAN]
Content == [by : Requests \cup {User}, version : Nat]

Steps == {"new", "exists", "configMap", "createProfile", "rollback", "get", "updateProfile",
          "getContent", "updateContent", "deleteProfile", "deleteContent", "done"}

\* "invalid" is 400, "unauthorized" 401, "forbidden" 403, "notFound" 404, "conflict" 409,
\* and "error" 500.
Answers == {"created", "ok", "noContent", "invalid", "unauthorized", "forbidden", "notFound",
            "conflict", "error"}

\* read: the resource version the handler has of the object it will update; todo: the
\* contents it has still to write or delete.  History: took, the contents it deleted;
\* unsure, that a call failed and left the ConfigMap it made.
Request == [op : {"create", "update", "delete"}, id : Ids, yaml : BOOLEAN, remove : BOOLEAN,
            refs : SUBSET Contents, todo : SUBSET Contents, content : Contents,
            read : Nat, took : SUBSET Contents,
            unsure : BOOLEAN, answer : Answers \cup {None}, step : Steps]

ASSUME WriteConstants ==
  /\ ContentOf \in [Ids -> Contents]
  /\ RefSets \subseteq SUBSET Contents
  /\ Operations \subseteq {"create", "update", "delete"}
  /\ RemoveFlags \subseteq BOOLEAN
  /\ FaultKinds \subseteq {"refused", "lost"}
  /\ MaxFaults \in Nat
  /\ User \notin Requests
  /\ Made \subseteq Contents
  /\ None \notin Profile \cup Content \cup Request \cup Answers
  /\ None \notin [refs : SUBSET Contents, deleting : BOOLEAN]
  /\ None \notin [op : {"create", "update", "delete"}, id : Ids, refs : SUBSET Contents,
                  outcome : {"pending", "applied"} \cup Answers]

TypeOK ==
  /\ profileObjects \in [Ids -> Profile \cup {None}]
  /\ contentObjects \in [Contents -> Content \cup {None}]
  /\ cached \subseteq Ids
  /\ requests \in [Requests -> Request \cup {None}]
  /\ \A q \in Requests :
       requests[q] # None /\ requests[q].step = "done" => requests[q].answer # None
  /\ version \in Nat
  /\ faults \in 0..MaxFaults

Init ==
  /\ profileObjects = [i \in Ids |-> None]
  /\ contentObjects =
       [c \in Contents |-> IF c \in Made THEN [by |-> User, version |-> 0] ELSE None]
  /\ cached = {}
  /\ requests = [q \in Requests |-> None]
  /\ version = 0
  /\ faults = 0

-----------------------------------------------------------------------------
(* Calls of the API server                                                 *)

At(q, step) == requests[q] # None /\ requests[q].step = step

Continue(q, changed) == requests' = [requests EXCEPT ![q] = changed]
GoTo(q, step) == Continue(q, [requests[q] EXCEPT !.step = step])
Return(q, answer) == Continue(q, [requests[q] EXCEPT !.step = "done", !.answer = answer])

\* The call works as the API server works...
NoFault == UNCHANGED faults

\* ...or fails.
Fault(kind) == kind \in FaultKinds /\ faults < MaxFaults /\ faults' = faults + 1

\* What the API server says when it refuses, as abortProfileWriteError passes it on: a
\* create is also refused where its namespace is gone.
Refusals == {"forbidden", "error"}
CreateRefusals == Refusals \cup {"notFound"}

Refused(q) == Fault("refused") /\ \E answer \in Refusals : Return(q, answer)

\* A write takes the next resource version.
WriteProfile(i, object) ==
  /\ profileObjects' = [profileObjects EXCEPT ![i] = object]
  /\ version' = version + 1
  /\ UNCHANGED contentObjects

WriteContent(c, object) ==
  /\ contentObjects' = [contentObjects EXCEPT ![c] = object]
  /\ version' = version + 1
  /\ UNCHANGED profileObjects

\* The API server marks a profile for deletion, and removes it when the finalizers of
\* the controllers that deploy it are gone.
MarkDeleted(i) ==
  IF profileObjects[i].deleting
  THEN UNCHANGED objects
  ELSE WriteProfile(i, [profileObjects[i] EXCEPT !.deleting = TRUE, !.version = version + 1])

Finalized(i) ==
  /\ profileObjects[i] # None /\ profileObjects[i].deleting
  /\ profileObjects' = [profileObjects EXCEPT ![i] = None]
  /\ UNCHANGED <<contentObjects, version, cached, requests, faults>>

\* The informer of profileExists hears of the profile's creation or deletion.
Informed(i) ==
  /\ cached' = IF profileObjects[i] = None THEN cached \ {i} ELSE cached \cup {i}
  /\ cached' # cached
  /\ UNCHANGED <<objects, requests, faults>>

-----------------------------------------------------------------------------
(* POST                                                                    *)

NewRequest(op, i, yaml, remove, refs, todo, step) ==
  [op |-> op, id |-> i, yaml |-> yaml, remove |-> remove, refs |-> refs, todo |-> todo,
   content |-> ContentOf[i], read |-> 0, took |-> {}, unsure |-> FALSE,
   answer |-> None, step |-> step]

Receive(q, request) ==
  /\ request.op \in Operations
  /\ Continue(q, request)
  /\ UNCHANGED <<objects, cached, faults>>

\* A request whose body does not parse or does not validate, or that brings no token, is
\* answered before any call.
ReceiveRejected(q, i) ==
  /\ requests[q] = None
  /\ \E op \in Operations, answer \in {"invalid", "unauthorized"} :
       Receive(q, [NewRequest(op, i, FALSE, FALSE, {}, {}, "done") EXCEPT !.answer = answer])

\* Pasted YAML, or a spec that needs no ConfigMap of its own (Helm chart, existing
\* content, remote URL).
ReceiveCreate(q, i) ==
  /\ requests[q] = None
  /\ \/ Receive(q, NewRequest("create", i, TRUE, FALSE, {ContentOf[i]}, {}, "exists"))
     \/ \E refs \in RefSets :
          Receive(q, NewRequest("create", i, FALSE, FALSE, refs, {}, "exists"))

\* profileExists asks the informer, which may fail, too.
ProfileExists(q) ==
  /\ At(q, "exists")
  /\ \/ /\ IF requests[q].id \in cached THEN Return(q, "conflict")
           ELSE IF requests[q].yaml THEN GoTo(q, "configMap")
           ELSE GoTo(q, "createProfile")
        /\ NoFault
     \/ Fault("refused") /\ Return(q, "error")
  /\ UNCHANGED <<objects, cached>>

\* Faulty: a ConfigMap that already exists is taken for the request's own.
CreateOrReuseConfigMap(q) ==
  LET c == requests[q].content IN
  /\ At(q, "configMap")
  /\ UNCHANGED cached
  /\ \/ /\ contentObjects[c] = None
        /\ WriteContent(c, [by |-> q, version |-> version + 1])
        /\ NoFault /\ GoTo(q, "createProfile")
     \/ /\ contentObjects[c] # None
        /\ NoFault /\ GoTo(q, "createProfile")
        /\ UNCHANGED objects

\* A ConfigMap that already exists is an error like any other.
CreateConfigMap(q) ==
  LET c == requests[q].content IN
  /\ At(q, "configMap")
  /\ UNCHANGED cached
  /\ \/ /\ contentObjects[c] = None
        /\ WriteContent(c, [by |-> q, version |-> version + 1])
        /\ \/ NoFault /\ GoTo(q, "createProfile")
           \/ /\ Fault("lost")
              /\ Continue(q, [requests[q] EXCEPT !.step = "done", !.answer = "error",
                                                 !.unsure = TRUE])
     \/ /\ \/ contentObjects[c] # None /\ NoFault /\ Return(q, "error")
           \/ Fault("refused") /\ \E answer \in CreateRefusals : Return(q, answer)
        /\ UNCHANGED objects

\* Faulty: no rollback for a collision.
CreateFailedKeepingContent(q, answer) ==
  IF requests[q].yaml /\ answer # "conflict"
  THEN Continue(q, [requests[q] EXCEPT !.step = "rollback", !.answer = answer])
  ELSE Return(q, answer)

\* What follows a create that did not succeed: the ConfigMap goes first.
CreateFailed(q, answer) ==
  IF requests[q].yaml
  THEN Continue(q, [requests[q] EXCEPT !.step = "rollback", !.answer = answer])
  ELSE Return(q, answer)

\* Faulty: a profile that is there already counts as created.
CreateOrReuseProfile(q) ==
  LET i == requests[q].id IN
  /\ At(q, "createProfile")
  /\ UNCHANGED cached
  /\ \/ /\ profileObjects[i] = None
        /\ WriteProfile(i, [refs |-> requests[q].refs, born |-> version + 1,
                            version |-> version + 1, deleting |-> FALSE])
        /\ NoFault /\ Return(q, "created")
     \/ /\ profileObjects[i] # None
        /\ NoFault /\ Return(q, "created")
        /\ UNCHANGED objects

CreateProfile(q) ==
  LET i == requests[q].id IN
  /\ At(q, "createProfile")
  /\ UNCHANGED cached
  /\ \/ /\ profileObjects[i] = None
        /\ WriteProfile(i, [refs |-> requests[q].refs, born |-> version + 1,
                            version |-> version + 1, deleting |-> FALSE])
        /\ \/ NoFault /\ Return(q, "created")
           \/ Fault("lost") /\ CreateFailed(q, "error")
     \/ /\ \/ profileObjects[i] # None /\ NoFault /\ CreateFailed(q, "conflict")
           \/ Fault("refused") /\ \E answer \in CreateRefusals : CreateFailed(q, answer)
        /\ UNCHANGED objects

\* Faulty: the answer is lost on the way.
RollbackForgettingAnswer(q) ==
  LET c == requests[q].content IN
  /\ At(q, "rollback")
  /\ Return(q, None)
  /\ UNCHANGED cached
  /\ IF contentObjects[c] # None THEN WriteContent(c, None) ELSE UNCHANGED objects
  /\ NoFault

\* Delete the ConfigMap of that name; a failure is logged, the answer stays.
Rollback(q) ==
  LET c == requests[q].content IN
  /\ At(q, "rollback")
  /\ UNCHANGED cached
  /\ \/ /\ contentObjects[c] # None /\ WriteContent(c, None)
        /\ NoFault \/ Fault("lost")
        /\ GoTo(q, "done")
     \/ /\ contentObjects[c] = None /\ UNCHANGED objects
        /\ NoFault
        /\ GoTo(q, "done")
     \/ /\ Fault("refused") /\ UNCHANGED objects
        /\ Continue(q, [requests[q] EXCEPT !.step = "done", !.unsure = TRUE])

-----------------------------------------------------------------------------
(* PUT                                                                     *)

\* A new spec, and edits of some of the contents it refers to: edits of others, and
\* references without one namespace, are skipped.
ReceiveUpdate(q, i) ==
  /\ requests[q] = None
  /\ \E refs \in RefSets : \E edited \in SUBSET refs :
       Receive(q, NewRequest("update", i, FALSE, FALSE, refs, edited, "get"))

\* The object as the API server has it, for an update or a deletion.
GetProfile(q) ==
  LET r == requests[q]
      object == profileObjects[r.id]
      next == IF r.op = "update" THEN "updateProfile" ELSE "deleteProfile"
  IN /\ At(q, "get")
     /\ \/ /\ object # None
           /\ Continue(q, [r EXCEPT !.read = object.version, !.step = next,
                             !.refs = IF r.op = "update" THEN @ ELSE object.refs])
           /\ NoFault
        \/ /\ object = None
           /\ Return(q, IF r.op = "update" THEN "notFound" ELSE "noContent")
           /\ NoFault
        \/ Refused(q)
     /\ UNCHANGED <<objects, cached>>

\* On to the next content, or done.
NextContent(q, r, todo) ==
  LET more == IF r.op = "update" THEN "getContent" ELSE "deleteContent"
      answer == IF r.op = "update" THEN "ok" ELSE "noContent"
  IN Continue(q, [r EXCEPT !.todo = todo,
                    !.step = IF todo = {} THEN "done" ELSE more,
                    !.answer = IF todo = {} THEN answer ELSE @])

\* The update is refused unless the object is still the one that was read.
UpdateProfile(q) ==
  LET r == requests[q]
      object == profileObjects[r.id]
  IN /\ At(q, "updateProfile")
     /\ UNCHANGED cached
     /\ \/ /\ object # None /\ object.version = r.read
           /\ WriteProfile(r.id, [object EXCEPT !.refs = r.refs, !.version = version + 1])
           /\ \/ NoFault /\ NextContent(q, r, r.todo)
              \/ Fault("lost") /\ Return(q, "error")
        \/ /\ \/ object = None /\ NoFault /\ Return(q, "notFound")
              \/ object # None /\ object.version # r.read /\ NoFault /\ Return(q, "error")
              \/ Refused(q)
           /\ UNCHANGED objects

GetContent(q) ==
  LET r == requests[q] IN
  /\ At(q, "getContent")
  /\ UNCHANGED <<objects, cached>>
  /\ \/ \E c \in r.todo :
          /\ NoFault
          /\ IF contentObjects[c] = None
             THEN Return(q, "notFound")
             ELSE Continue(q, [r EXCEPT !.content = c, !.read = contentObjects[c].version,
                                 !.step = "updateContent"])
     \/ Refused(q)

UpdateContent(q) ==
  LET r == requests[q]
      object == contentObjects[r.content]
  IN /\ At(q, "updateContent")
     /\ UNCHANGED cached
     /\ \/ /\ object # None /\ object.version = r.read
           /\ WriteContent(r.content, [object EXCEPT !.version = version + 1])
           /\ \/ NoFault /\ NextContent(q, r, r.todo \ {r.content})
              \/ Fault("lost") /\ Return(q, "error")
        \/ /\ \/ object = None /\ NoFault /\ Return(q, "notFound")
              \/ object # None /\ object.version # r.read /\ NoFault /\ Return(q, "error")
              \/ Refused(q)
           /\ UNCHANGED objects

-----------------------------------------------------------------------------
(* DELETE                                                                  *)

ReceiveDelete(q, i) ==
  /\ requests[q] = None
  /\ \E remove \in RemoveFlags :
       Receive(q, NewRequest("delete", i, FALSE, remove, {}, {}, "get"))

\* Faulty: an error of the profile's deletion does not stop the handler.
DeleteProfileIgnoringErrors(q) ==
  LET r == requests[q]
      contents == IF r.remove THEN r.refs ELSE {}
  IN /\ At(q, "deleteProfile")
     /\ UNCHANGED cached
     /\ NextContent(q, r, contents)
     /\ \/ profileObjects[r.id] # None /\ MarkDeleted(r.id) /\ NoFault
        \/ profileObjects[r.id] = None /\ NoFault /\ UNCHANGED objects
        \/ Fault("refused") /\ UNCHANGED objects

\* The profile goes whatever its version; one that is gone already is no error.
DeleteProfile(q) ==
  LET r == requests[q]
      contents == IF r.remove THEN r.refs ELSE {}
  IN /\ At(q, "deleteProfile")
     /\ UNCHANGED cached
     /\ \/ /\ profileObjects[r.id] # None
           /\ MarkDeleted(r.id)
           /\ \/ NoFault /\ NextContent(q, r, contents)
              \/ Fault("lost") /\ Return(q, "error")
        \/ /\ \/ profileObjects[r.id] = None /\ NoFault /\ NextContent(q, r, contents)
              \/ Refused(q)
           /\ UNCHANGED objects

DeleteContent(q) ==
  LET r == requests[q] IN
  /\ At(q, "deleteContent")
  /\ UNCHANGED cached
  /\ \E c \in r.todo :
       \/ /\ contentObjects[c] # None
          /\ WriteContent(c, None)
          /\ \/ NoFault /\ NextContent(q, [r EXCEPT !.took = @ \cup {c}], r.todo \ {c})
             \/ Fault("lost") /\ Return(q, "error")
       \/ /\ \/ contentObjects[c] = None /\ NoFault /\ NextContent(q, r, r.todo \ {c})
             \/ Refused(q)
          /\ UNCHANGED objects

-----------------------------------------------------------------------------

Handle(q) ==
  \/ ProfileExists(q)
  \/ CreateConfigMap(q)
  \/ CreateProfile(q)
  \/ Rollback(q)
  \/ GetProfile(q)
  \/ UpdateProfile(q)
  \/ GetContent(q)
  \/ UpdateContent(q)
  \/ DeleteProfile(q)
  \/ DeleteContent(q)

Next ==
  \/ \E q \in Requests, i \in Ids :
       \/ ReceiveCreate(q, i) \/ ReceiveUpdate(q, i) \/ ReceiveDelete(q, i)
       \/ ReceiveRejected(q, i)
  \/ \E q \in Requests : Handle(q)
  \/ \E i \in Ids : Finalized(i)
  \/ \E i \in Ids : Informed(i)

Spec == Init /\ [][Next]_vars

-----------------------------------------------------------------------------
(* Properties                                                              *)

Done(q) == At(q, "done")

\* What a request has done to its profile, and what its client will hear: a rollback and
\* the calls for the contents come after the profile's own.
OutcomeOf(r) ==
  CASE r.step \in {"done", "rollback"} -> r.answer
    [] r.step \in {"getContent", "updateContent", "deleteContent"} -> "applied"
    [] OTHER -> "pending"

ProfileSeen(object) ==
  IF object = None THEN None ELSE [refs |-> object.refs, deleting |-> object.deleting]

ClientSeen(r) ==
  IF r = None THEN None
  ELSE [op |-> r.op, id |-> r.id, refs |-> IF r.op = "delete" THEN {} ELSE r.refs,
        outcome |-> OutcomeOf(r)]

ProfilesSeen == [i \in Ids |-> ProfileSeen(profileObjects[i])]
ClientsSeen == [q \in Requests |-> ClientSeen(requests[q])]

Store == INSTANCE ProfileStore WITH profiles <- ProfilesSeen, clients <- ClientsSeen

\* Every request changes its profile at most once, and its answer is true of that change,
\* whichever call fails and whatever the other requests do meanwhile.
ImplementsStore == Store!Spec

\* A create that answers an error leaves no ConfigMap behind, "so a lost race never
\* orphans one", unless the call that failed is the one that made the ConfigMap or the
\* one that should have removed it.
FailedCreateLeavesNothing ==
  \A q \in Requests :
    Done(q) /\ requests[q].op = "create" /\ requests[q].answer # "created"
    /\ ~requests[q].unsure =>
      \A c \in Contents : contentObjects[c] # None => contentObjects[c].by # q

\* The ConfigMap of a create that succeeded stays unless a DELETE asks to remove it: no
\* other create, however it fails, rolls it back, and no update replaces it.
CreatedKeepsContent ==
  \A q \in Requests :
    Done(q) /\ requests[q].yaml /\ requests[q].answer = "created"
    /\ (\A p \in Requests : requests[p] # None => ~requests[p].remove) =>
      LET object == contentObjects[ContentOf[requests[q].id]] IN
        object # None /\ object.by = q

\* A DELETE removes no content of the profile it has read before that one is gone or on
\* its way out, whichever of its calls fails.
ContentGoesLast ==
  \A q \in Requests :
    requests[q] # None /\ requests[q].took # {} =>
      LET object == profileObjects[requests[q].id] IN
        object = None \/ object.deleting \/ object.born > requests[q].read

=============================================================================
