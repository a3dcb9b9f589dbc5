------------------------- MODULE ProfileWritesProofs -------------------------
(***************************************************************************)
(* TLAPS proofs about ProfileWrites, for any number of requests, profiles, *)
(* contents and failing calls: its types, that a failed create leaves      *)
(* nothing behind, that nothing but a DELETE takes the ConfigMap of a      *)
(* create that succeeded, and that a DELETE takes contents last.           *)
(***************************************************************************)
EXTENDS ProfileWrites, TLAPS

-----------------------------------------------------------------------------
(* Where a handler is, and with what                                       *)

StepsOf(op) ==
  CASE op = "create" -> {"exists", "configMap", "createProfile", "rollback", "done"}
    [] op = "update" -> {"get", "updateProfile", "getContent", "updateContent", "done"}
    [] op = "delete" -> {"get", "deleteProfile", "deleteContent", "done"}

\* What a create that wrote no profile may answer.
CreateErrors == CreateRefusals \cup {"conflict"}

\* What holds of a request at each step of its handler: only pasted YAML has a ConfigMap,
\* named after the profile; only a DELETE that was asked to touches contents, and it took
\* none before that step.
Placed(r) ==
  /\ r.step \in StepsOf(r.op)
  /\ r.yaml => r.op = "create"
  /\ r.op = "create" => r.content = ContentOf[r.id]
  /\ r.step \in {"configMap", "rollback"} => r.yaml
  /\ r.step = "rollback" => r.answer \in CreateErrors
  /\ r.step = "done" => r.answer # None
  /\ r.step = "deleteContent" => r.remove
  /\ r.took # {} => r.op = "delete" /\ r.step \in {"deleteContent", "done"}

\* What a handler never changes of its request.
SameRequest(r, s) == s.id = r.id /\ s.op = r.op /\ s.yaml = r.yaml /\ s.remove = r.remove

PlacedInv == \A q \in Requests : requests[q] # None => Placed(requests[q])

\* A request that just came has its type and its place.
LEMMA NewPlaced ==
  ASSUME NEW i \in Ids, NEW refs \in SUBSET Contents, NEW todo \in SUBSET refs,
         NEW remove \in BOOLEAN, NEW yaml \in BOOLEAN
  PROVE  /\ NewRequest("create", i, yaml, FALSE, refs, {}, "exists") \in Request
         /\ Placed(NewRequest("create", i, yaml, FALSE, refs, {}, "exists"))
         /\ NewRequest("update", i, FALSE, FALSE, refs, todo, "get") \in Request
         /\ Placed(NewRequest("update", i, FALSE, FALSE, refs, todo, "get"))
         /\ NewRequest("delete", i, FALSE, remove, {}, {}, "get") \in Request
         /\ Placed(NewRequest("delete", i, FALSE, remove, {}, {}, "get"))
         /\ \A op \in {"create", "update", "delete"}, answer \in {"invalid", "unauthorized"} :
              LET rejected == [NewRequest(op, i, FALSE, FALSE, {}, {}, "done")
                                 EXCEPT !.answer = answer]
              IN  rejected \in Request /\ Placed(rejected)
<1>1. ContentOf[i] \in Contents
  BY WriteConstants
<1>2. ASSUME NEW op \in {"create", "update", "delete"}, NEW answer \in {"invalid", "unauthorized"},
             NEW s, s = [NewRequest(op, i, FALSE, FALSE, {}, {}, "done") EXCEPT !.answer = answer]
      PROVE  s \in Request /\ Placed(s)
  <2>1. answer \in Answers /\ answer # None
    BY WriteConstants DEF Answers
  <2>2. s \in Request
    BY <1>1, <1>2, <2>1 DEF NewRequest, Request, Steps
  <2>3. /\ s.step = "done" /\ s.op = op /\ s.yaml = FALSE /\ s.answer = answer /\ s.took = {}
        /\ s.content = ContentOf[i] /\ s.id = i
    BY <1>2 DEF NewRequest
  <2>. QED
    BY <2>1, <2>2, <2>3 DEF Placed, StepsOf
<1>3. ASSUME NEW op \in {"create", "update", "delete"}, NEW answer \in {"invalid", "unauthorized"}
      PROVE  LET rejected == [NewRequest(op, i, FALSE, FALSE, {}, {}, "done")
                                EXCEPT !.answer = answer]
             IN  rejected \in Request /\ Placed(rejected)
  BY <1>2
<1>4. /\ NewRequest("create", i, yaml, FALSE, refs, {}, "exists") \in Request
      /\ Placed(NewRequest("create", i, yaml, FALSE, refs, {}, "exists"))
      /\ NewRequest("update", i, FALSE, FALSE, refs, todo, "get") \in Request
      /\ Placed(NewRequest("update", i, FALSE, FALSE, refs, todo, "get"))
      /\ NewRequest("delete", i, FALSE, remove, {}, {}, "get") \in Request
      /\ Placed(NewRequest("delete", i, FALSE, remove, {}, {}, "get"))
  BY <1>1 DEF NewRequest, Request, Placed, StepsOf, Steps
<1>. QED
  BY <1>3, <1>4

Comes(q, i) ==
  ReceiveCreate(q, i) \/ ReceiveUpdate(q, i) \/ ReceiveDelete(q, i) \/ ReceiveRejected(q, i)

\* A request has its calls before it, or is answered as it comes.
JustCame(r) ==
  /\ Placed(r) /\ r.took = {} /\ r.read = 0
  /\ \/ r.step \in {"exists", "get"}
     \/ r.step = "done" /\ r.answer \in {"invalid", "unauthorized"}

\* What a request is when it comes, for all three operations.
LEMMA Received ==
  ASSUME NEW q \in Requests, NEW i \in Ids, Comes(q, i)
  PROVE  \E r \in Request :
           /\ JustCame(r)
           /\ requests[q] = None /\ requests' = [requests EXCEPT ![q] = r]
           /\ UNCHANGED <<objects, cached, faults>>
<1>. DEFINE Good(r) == r \in Request /\ JustCame(r)
<1>0. ASSUME NEW r, Good(r), requests[q] = None, Receive(q, r)
      PROVE  \E s \in Request :
               /\ JustCame(s)
               /\ requests[q] = None /\ requests' = [requests EXCEPT ![q] = s]
               /\ UNCHANGED <<objects, cached, faults>>
  BY <1>0 DEF Receive, Continue
<1>1. ContentOf[i] \in Contents /\ RefSets \subseteq SUBSET Contents /\ RemoveFlags \subseteq BOOLEAN
  BY WriteConstants
<1>2. ASSUME NEW refs \in SUBSET Contents, NEW yaml \in BOOLEAN
      PROVE  Good(NewRequest("create", i, yaml, FALSE, refs, {}, "exists"))
  BY <1>2, NewPlaced DEF NewRequest, JustCame
<1>3. ASSUME NEW refs \in SUBSET Contents, NEW edited \in SUBSET refs
      PROVE  Good(NewRequest("update", i, FALSE, FALSE, refs, edited, "get"))
  BY <1>3, NewPlaced DEF NewRequest, JustCame
<1>4. ASSUME NEW remove \in BOOLEAN
      PROVE  Good(NewRequest("delete", i, FALSE, remove, {}, {}, "get"))
  BY <1>4, NewPlaced DEF NewRequest, JustCame
<1>. HIDE DEF Good
<1>5. CASE ReceiveCreate(q, i)
  <2>1. {ContentOf[i]} \in SUBSET Contents
    BY <1>1
  <2>. QED
    BY <1>0, <1>1, <1>2, <1>5, <2>1 DEF ReceiveCreate
<1>6. CASE ReceiveUpdate(q, i)
  BY <1>0, <1>1, <1>3, <1>6 DEF ReceiveUpdate
<1>7. CASE ReceiveDelete(q, i)
  BY <1>0, <1>1, <1>4, <1>7 DEF ReceiveDelete
<1>8. CASE ReceiveRejected(q, i)
  <2>1. PICK op \in Operations, answer \in {"invalid", "unauthorized"} :
          Receive(q, [NewRequest(op, i, FALSE, FALSE, {}, {}, "done") EXCEPT !.answer = answer])
    BY <1>8 DEF ReceiveRejected
  <2>. DEFINE s == [NewRequest(op, i, FALSE, FALSE, {}, {}, "done") EXCEPT !.answer = answer]
  <2>2. op \in {"create", "update", "delete"}
    BY WriteConstants
  <2>3. s \in Request /\ Placed(s)
    BY <2>2, NewPlaced
  <2>4. s.took = {} /\ s.read = 0 /\ s.step = "done" /\ s.answer = answer
    BY DEF NewRequest
  <2>5. Good(s)
    BY <2>3, <2>4 DEF Good, JustCame
  <2>6. requests[q] = None
    BY <1>8 DEF ReceiveRejected
  <2>. HIDE DEF s
  <2>. QED
    BY <1>0, <2>1, <2>5, <2>6 DEF s
<1>. QED
  BY <1>5, <1>6, <1>7, <1>8 DEF Comes

\* On to the next content, or done: where that leaves the request.
LEMMA NextContentPlaced ==
  ASSUME NEW q \in Requests, NEW r \in Request, NEW todo \in SUBSET Contents,
         r.op \in {"update", "delete"}, r.op = "delete" /\ todo # {} => r.remove,
         r.took # {} => r.op = "delete", ~r.yaml,
         NextContent(q, r, todo)
  PROVE  \E s \in Request :
           /\ requests' = [requests EXCEPT ![q] = s]
           /\ Placed(s) /\ SameRequest(r, s) /\ s.read = r.read /\ s.took = r.took
           /\ s.content = r.content /\ s.unsure = r.unsure
           /\ s.step = IF todo = {} THEN "done"
                       ELSE IF r.op = "update" THEN "getContent" ELSE "deleteContent"
<1>. DEFINE s == [r EXCEPT !.todo = todo,
                    !.step = IF todo = {} THEN "done"
                             ELSE IF r.op = "update" THEN "getContent" ELSE "deleteContent",
                    !.answer = IF todo = {} THEN (IF r.op = "update" THEN "ok" ELSE "noContent")
                               ELSE @]
<1>1. None \notin Answers
  BY WriteConstants
<1>2. s \in Request
  BY DEF Request, Steps, Answers
<1>3. /\ SameRequest(r, s) /\ s.read = r.read /\ s.took = r.took
      /\ s.content = r.content /\ s.unsure = r.unsure
      /\ s.step = IF todo = {} THEN "done"
                  ELSE IF r.op = "update" THEN "getContent" ELSE "deleteContent"
      /\ todo = {} => s.answer \in {"ok", "noContent"}
  BY DEF Request, SameRequest
<1>4. Placed(s)
  <2>. HIDE DEF s
  <2>. QED
    BY <1>1, <1>3 DEF Placed, StepsOf, SameRequest, Answers
<1>5. requests' = [requests EXCEPT ![q] = s]
  BY DEF NextContent, Continue
<1>. QED
  BY <1>2, <1>3, <1>4, <1>5

\* A request that returns is done, with an answer.
LEMMA ReturnPlaced ==
  ASSUME NEW r \in Request, Placed(r), NEW answer \in Answers, NEW unsure \in BOOLEAN
  PROVE  LET s == [r EXCEPT !.step = "done", !.answer = answer, !.unsure = unsure]
         IN  s \in Request /\ Placed(s) /\ SameRequest(r, s)
<1>. DEFINE s == [r EXCEPT !.step = "done", !.answer = answer, !.unsure = unsure]
<1>1. answer # None
  BY WriteConstants
<1>2. s \in Request
  BY DEF Request, Steps
<1>3. /\ SameRequest(r, s) /\ s.step = "done" /\ s.answer = answer /\ s.took = r.took
      /\ s.content = r.content
  BY DEF Request, SameRequest
<1>4. r.op \in {"create", "update", "delete"}
  BY DEF Request
<1>5. Placed(s)
  <2>. HIDE DEF s
  <2>. QED
    BY <1>1, <1>3, <1>4 DEF Placed, StepsOf, SameRequest
<1>. QED
  BY <1>2, <1>3, <1>5

\* A request that goes on to the next call takes its answer along, and an answer that a
\* rollback must not lose.
LEMMA GoPlaced ==
  ASSUME NEW r \in Request, Placed(r), r.step # "done", r.step # "deleteContent",
         NEW step \in StepsOf(r.op) \ {"done", "deleteContent"},
         step \in {"configMap", "rollback"} => r.yaml,
         NEW answer \in Answers \cup {None}, step = "rollback" => answer \in CreateErrors,
         NEW read \in Nat, NEW refs \in SUBSET Contents,
         NEW content \in Contents, r.op = "create" => content = r.content,
         NEW s, s = [r EXCEPT !.step = step, !.answer = answer, !.read = read, !.refs = refs,
                              !.content = content]
  PROVE  s \in Request /\ Placed(s) /\ SameRequest(r, s) /\ s.took = r.took
<1>1. r.op \in {"create", "update", "delete"}
  BY DEF Request
<1>2. step \in Steps
  BY <1>1 DEF StepsOf, Steps
<1>3. s \in Request
  BY <1>2 DEF Request
<1>4. /\ SameRequest(r, s) /\ s.step = step /\ s.answer = answer /\ s.took = r.took
      /\ s.content = content
  BY DEF Request, SameRequest
<1>5. r.took = {}
  BY DEF Placed
<1>. QED
  BY <1>1, <1>3, <1>4, <1>5 DEF Placed, SameRequest

\* A handler leaves its request in a place, with what it never changes.
LEMMA Handled ==
  ASSUME TypeOK, PlacedInv, NEW q \in Requests, Handle(q)
  PROVE  /\ requests[q] \in Request /\ requests[q].step # "done"
         /\ \E s \in Request :
              /\ requests' = [requests EXCEPT ![q] = s]
              /\ Placed(s) /\ SameRequest(requests[q], s)
<1>. DEFINE r == requests[q]
            Result == \E s \in Request :
                        /\ requests' = [requests EXCEPT ![q] = s]
                        /\ Placed(s) /\ SameRequest(r, s)
<1>1. r # None /\ r.step # "done"
  BY DEF Handle, ProfileExists, CreateConfigMap, CreateProfile, Rollback, GetProfile, UpdateProfile,
         GetContent, UpdateContent, DeleteProfile, DeleteContent, At
<1>2. r \in Request /\ Placed(r)
  BY <1>1 DEF TypeOK, PlacedInv
<1>. SUFFICES Result
  BY <1>1, <1>2
<1>3. /\ r.id \in Ids /\ r.op \in {"create", "update", "delete"} /\ r.refs \in SUBSET Contents
      /\ r.todo \in SUBSET Contents /\ r.content \in Contents /\ r.read \in Nat
      /\ r.answer \in Answers \cup {None} /\ r.yaml \in BOOLEAN /\ r.unsure \in BOOLEAN
      /\ r.took \in SUBSET Contents
  BY <1>2 DEF Request
<1>4. ASSUME NEW s \in Request, Continue(q, s), Placed(s), SameRequest(r, s)
      PROVE  Result
  BY <1>4 DEF Continue
<1>. HIDE DEF Result
<1>5. ASSUME NEW answer \in Answers, Return(q, answer)
      PROVE  Result
  <2>. DEFINE s == [r EXCEPT !.step = "done", !.answer = answer, !.unsure = r.unsure]
  <2>1. s \in Request /\ Placed(s) /\ SameRequest(r, s)
    BY <1>2, <1>3, ReturnPlaced
  <2>2. Continue(q, s)
    <3>1. s = [r EXCEPT !.step = "done", !.answer = answer]
      BY <1>2 DEF Request
    <3>. QED
      BY <1>5, <3>1 DEF Return
  <2>. QED
    BY <1>4, <2>1, <2>2
<1>6. ASSUME NEW answer \in Answers, NEW s,
             s = [r EXCEPT !.step = "done", !.answer = answer, !.unsure = TRUE], Continue(q, s)
      PROVE  Result
  <2>1. s \in Request /\ Placed(s) /\ SameRequest(r, s)
    BY <1>2, <1>6, ReturnPlaced
  <2>. QED
    BY <1>4, <1>6, <2>1
<1>7. ASSUME NEW step, GoTo(q, step),
             step \in StepsOf(r.op) \ {"done", "deleteContent", "rollback"},
             r.step # "deleteContent", step = "configMap" => r.yaml
      PROVE  Result
  <2>. DEFINE answer == r.answer
              read == r.read
              refs == r.refs
              content == r.content
              s == [r EXCEPT !.step = step, !.answer = answer, !.read = read, !.refs = refs,
                             !.content = content]
  <2>0. /\ step \in StepsOf(r.op) \ {"done", "deleteContent"} /\ step # "rollback"
        /\ step \in {"configMap", "rollback"} => r.yaml
        /\ answer \in Answers \cup {None} /\ read \in Nat /\ refs \in SUBSET Contents
        /\ content \in Contents /\ content = r.content
    BY <1>3, <1>7
  <2>1. s \in Request /\ Placed(s) /\ SameRequest(r, s)
    <3>. HIDE DEF answer, read, refs, content
    <3>. QED
      BY <1>1, <1>2, <1>7, <2>0, GoPlaced
  <2>2. Continue(q, s)
    <3>1. s = [r EXCEPT !.step = step]
      BY <1>2 DEF Request
    <3>. QED
      BY <1>7, <3>1 DEF GoTo
  <2>. QED
    BY <1>4, <2>1, <2>2
<1>8. ASSUME NEW todo \in SUBSET Contents, NEW t \in Request, NextContent(q, t, todo),
             t.op \in {"update", "delete"}, t.op = "delete" /\ todo # {} => t.remove,
             t.took # {} => t.op = "delete", ~t.yaml, SameRequest(r, t)
      PROVE  Result
  <2>1. PICK s \in Request : /\ requests' = [requests EXCEPT ![q] = s]
                             /\ Placed(s) /\ SameRequest(t, s)
    BY <1>8, NextContentPlaced
  <2>2. SameRequest(r, s)
    BY <1>8, <2>1 DEF SameRequest
  <2>. QED
    BY <1>4, <2>1, <2>2 DEF Continue
<1>9. CASE ProfileExists(q)
  <2>1. r.step = "exists" /\ r.op = "create"
    BY <1>2, <1>3, <1>9 DEF ProfileExists, At, Placed, StepsOf
  <2>2. {"configMap", "createProfile"} \subseteq StepsOf(r.op)
    BY <2>1 DEF StepsOf
  <2>3. \/ Return(q, "conflict")
        \/ Return(q, "error")
        \/ r.yaml /\ GoTo(q, "configMap")
        \/ GoTo(q, "createProfile")
    BY <1>9 DEF ProfileExists
  <2>. QED
    BY <1>5, <1>7, <2>1, <2>2, <2>3 DEF Answers
<1>10. CASE CreateConfigMap(q)
  <2>1. r.step = "configMap" /\ r.op = "create"
    BY <1>2, <1>3, <1>10 DEF CreateConfigMap, At, Placed, StepsOf
  <2>2. "createProfile" \in StepsOf(r.op)
    BY <2>1 DEF StepsOf
  <2>3. \/ GoTo(q, "createProfile")
        \/ Continue(q, [r EXCEPT !.step = "done", !.answer = "error", !.unsure = TRUE])
        \/ Return(q, "error")
        \/ \E answer \in CreateRefusals : Return(q, answer)
    BY <1>10 DEF CreateConfigMap
  <2>. QED
    BY <1>5, <1>6, <1>7, <2>1, <2>2, <2>3 DEF Answers, CreateRefusals, Refusals
<1>11. CASE CreateProfile(q)
  <2>1. r.step = "createProfile" /\ r.op = "create"
    BY <1>2, <1>3, <1>11 DEF CreateProfile, At, Placed, StepsOf
  <2>2. \/ Return(q, "created")
        \/ \E answer \in CreateErrors : CreateFailed(q, answer)
    BY <1>11 DEF CreateProfile, CreateErrors, CreateRefusals, Refusals
  <2>3. ASSUME NEW answer \in CreateErrors, r.yaml,
               Continue(q, [r EXCEPT !.step = "rollback", !.answer = answer])
        PROVE  Result
    <3>. DEFINE read == r.read
                refs == r.refs
                content == r.content
                s == [r EXCEPT !.step = "rollback", !.answer = answer, !.read = read,
                               !.refs = refs, !.content = content]
    <3>1. "rollback" \in StepsOf(r.op) \ {"done", "deleteContent"} /\ answer \in Answers
      BY <2>1 DEF StepsOf, Answers, CreateErrors, CreateRefusals, Refusals
    <3>2. s \in Request /\ Placed(s) /\ SameRequest(r, s)
      <4>1. /\ answer \in Answers \cup {None} /\ read \in Nat /\ refs \in SUBSET Contents
            /\ content \in Contents /\ content = r.content /\ r.step # "deleteContent"
        BY <1>3, <2>1, <3>1
      <4>. HIDE DEF read, refs, content
      <4>. QED
        BY <1>1, <1>2, <2>1, <2>3, <3>1, <4>1, GoPlaced
    <3>3. s = [r EXCEPT !.step = "rollback", !.answer = answer]
      BY <1>2 DEF Request
    <3>. QED
      BY <1>4, <2>3, <3>2, <3>3
  <2>. QED
    BY <1>5, <2>2, <2>3 DEF CreateFailed, Answers, CreateErrors, CreateRefusals, Refusals
<1>12. CASE Rollback(q)
  <2>1. r.step = "rollback" /\ r.answer \in CreateErrors
    BY <1>2, <1>12 DEF Rollback, At, Placed
  <2>2. \/ GoTo(q, "done")
        \/ Continue(q, [r EXCEPT !.step = "done", !.unsure = TRUE])
    BY <1>12 DEF Rollback
  <2>3. /\ [r EXCEPT !.step = "done"]
             = [r EXCEPT !.step = "done", !.answer = r.answer, !.unsure = r.unsure]
        /\ [r EXCEPT !.step = "done", !.unsure = TRUE]
             = [r EXCEPT !.step = "done", !.answer = r.answer, !.unsure = TRUE]
    BY <1>2 DEF Request
  <2>4. r.answer \in Answers
    BY <2>1 DEF Answers, CreateErrors, CreateRefusals, Refusals
  <2>5. Return(q, r.answer) \/ Continue(q, [r EXCEPT !.step = "done", !.answer = r.answer, !.unsure = TRUE])
    <3>1. [r EXCEPT !.step = "done"] = [r EXCEPT !.step = "done", !.answer = r.answer]
      BY <1>2 DEF Request
    <3>. QED
      BY <2>2, <2>3, <3>1 DEF GoTo, Return
  <2>. QED
    BY <1>5, <1>6, <2>4, <2>5
<1>13. CASE GetProfile(q)
  <2>. DEFINE object == profileObjects[r.id]
              next == IF r.op = "update" THEN "updateProfile" ELSE "deleteProfile"
  <2>1. r.step = "get" /\ r.op \in {"update", "delete"}
    BY <1>2, <1>3, <1>13 DEF GetProfile, At, Placed, StepsOf
  <2>2. CASE Return(q, IF r.op = "update" THEN "notFound" ELSE "noContent")
    BY <1>5, <2>2 DEF Answers
  <2>3. CASE Refused(q)
    BY <1>5, <2>3 DEF Refused, Answers, Refusals
  <2>4. CASE /\ object # None
             /\ Continue(q, [r EXCEPT !.read = object.version, !.step = next,
                               !.refs = IF r.op = "update" THEN @ ELSE object.refs])
    <3>. DEFINE refs == IF r.op = "update" THEN r.refs ELSE object.refs
                s == [r EXCEPT !.step = next, !.answer = r.answer, !.read = object.version,
                               !.refs = refs, !.content = r.content]
    <3>1. object \in Profile
      BY <1>3, <2>4 DEF TypeOK
    <3>2. object.version \in Nat /\ refs \in SUBSET Contents
      BY <1>3, <3>1 DEF Profile
    <3>3. next \in StepsOf(r.op) \ {"done", "deleteContent", "configMap", "rollback"}
      BY <2>1 DEF StepsOf
    <3>4. s \in Request /\ Placed(s) /\ SameRequest(r, s)
      <4>. HIDE DEF object, next, refs
      <4>. QED
        BY <1>1, <1>2, <1>3, <2>1, <3>2, <3>3, GoPlaced
    <3>5. s = [r EXCEPT !.read = object.version, !.step = next,
                        !.refs = IF r.op = "update" THEN @ ELSE object.refs]
      BY <1>2 DEF Request
    <3>. HIDE DEF s
    <3>. QED
      BY <1>4, <2>4, <3>4, <3>5
  <2>. QED
    BY <1>13, <2>2, <2>3, <2>4 DEF GetProfile
<1>14. CASE UpdateProfile(q)
  <2>1. r.step = "updateProfile" /\ r.op = "update" /\ ~r.yaml /\ r.took = {}
    BY <1>2, <1>3, <1>14 DEF UpdateProfile, At, Placed, StepsOf
  <2>2. \/ NextContent(q, r, r.todo)
        \/ Return(q, "error")
        \/ Return(q, "notFound")
        \/ Refused(q)
    BY <1>14 DEF UpdateProfile
  <2>3. SameRequest(r, r)
    BY DEF SameRequest
  <2>. QED
    BY <1>2, <1>3, <1>5, <1>8, <2>1, <2>2, <2>3 DEF Refused, Answers, Refusals
<1>15. CASE GetContent(q)
  <2>1. r.step = "getContent" /\ r.op = "update"
    BY <1>2, <1>3, <1>15 DEF GetContent, At, Placed, StepsOf
  <2>2. CASE Return(q, "notFound") \/ Refused(q)
    BY <1>5, <2>2 DEF Refused, Answers, Refusals
  <2>3. ASSUME NEW c \in r.todo, contentObjects[c] # None,
               Continue(q, [r EXCEPT !.content = c, !.read = contentObjects[c].version,
                                     !.step = "updateContent"])
        PROVE  Result
    <3>. DEFINE v == contentObjects[c].version
                s == [r EXCEPT !.step = "updateContent", !.answer = r.answer, !.read = v,
                               !.refs = r.refs, !.content = c]
    <3>1. c \in Contents /\ contentObjects[c] \in Content
      BY <1>3, <2>3 DEF TypeOK
    <3>2. v \in Nat
      BY <3>1 DEF Content
    <3>3. "updateContent" \in StepsOf(r.op) \ {"done", "deleteContent"}
      BY <2>1 DEF StepsOf
    <3>4. s = [r EXCEPT !.content = c, !.read = contentObjects[c].version, !.step = "updateContent"]
      BY <1>2 DEF Request
    <3>5. s \in Request /\ Placed(s) /\ SameRequest(r, s)
      <4>. HIDE DEF v
      <4>. QED
        BY <1>1, <1>2, <1>3, <2>1, <3>1, <3>2, <3>3, GoPlaced
    <3>. HIDE DEF s
    <3>. QED
      BY <1>4, <2>3, <3>4, <3>5
  <2>. QED
    BY <1>15, <2>2, <2>3 DEF GetContent
<1>16. CASE UpdateContent(q)
  <2>1. r.step = "updateContent" /\ r.op = "update" /\ ~r.yaml /\ r.took = {}
    BY <1>2, <1>3, <1>16 DEF UpdateContent, At, Placed, StepsOf
  <2>2. \/ NextContent(q, r, r.todo \ {r.content})
        \/ Return(q, "error")
        \/ Return(q, "notFound")
        \/ Refused(q)
    BY <1>16 DEF UpdateContent
  <2>3. SameRequest(r, r) /\ r.todo \ {r.content} \in SUBSET Contents
    BY <1>3 DEF SameRequest
  <2>. QED
    BY <1>2, <1>5, <1>8, <2>1, <2>2, <2>3 DEF Refused, Answers, Refusals
<1>17. CASE DeleteProfile(q)
  <2>. DEFINE contents == IF r.remove THEN r.refs ELSE {}
  <2>1. r.step = "deleteProfile" /\ r.op = "delete" /\ ~r.yaml /\ r.took = {}
    BY <1>2, <1>3, <1>17 DEF DeleteProfile, At, Placed, StepsOf
  <2>2. NextContent(q, r, contents) \/ Return(q, "error") \/ Refused(q)
    BY <1>17 DEF DeleteProfile
  <2>3. SameRequest(r, r) /\ contents \in SUBSET Contents /\ (contents # {} => r.remove)
    BY <1>3 DEF SameRequest
  <2>. QED
    BY <1>2, <1>5, <1>8, <2>1, <2>2, <2>3 DEF Refused, Answers, Refusals
<1>18. CASE DeleteContent(q)
  <2>1. r.step = "deleteContent" /\ r.op = "delete" /\ ~r.yaml /\ r.remove
    BY <1>2, <1>3, <1>18 DEF DeleteContent, At, Placed, StepsOf
  <2>2. PICK c \in r.todo :
          \/ NextContent(q, [r EXCEPT !.took = @ \cup {c}], r.todo \ {c})
          \/ NextContent(q, r, r.todo \ {c})
          \/ Return(q, "error")
          \/ Refused(q)
    BY <1>18 DEF DeleteContent
  <2>. DEFINE t == [r EXCEPT !.took = @ \cup {c}]
  <2>3. /\ t \in Request /\ SameRequest(r, t) /\ SameRequest(r, r)
        /\ t.op = "delete" /\ ~t.yaml /\ t.remove /\ r.todo \ {c} \in SUBSET Contents
    BY <1>2, <1>3, <2>1 DEF Request, SameRequest
  <2>. HIDE DEF t
  <2>4. CASE NextContent(q, t, r.todo \ {c})
    BY <1>8, <2>3, <2>4
  <2>5. CASE NextContent(q, r, r.todo \ {c})
    BY <1>2, <1>8, <2>1, <2>3, <2>5
  <2>. QED
    BY <1>5, <2>2, <2>4, <2>5 DEF Answers, Refused, Refusals, t
<1>. QED
  BY <1>9, <1>10, <1>11, <1>12, <1>13, <1>14, <1>15, <1>16, <1>17, <1>18 DEF Handle

-----------------------------------------------------------------------------
(* What a handler's calls leave in the API server                          *)

\* Versions only grow: nothing carries one that has not been given out.
VersionInv ==
  /\ \A i \in Ids : profileObjects[i] # None => profileObjects[i].version <= version
  /\ \A c \in Contents : contentObjects[c] # None => contentObjects[c].version <= version

ObjectsTypeOK ==
  /\ profileObjects \in [Ids -> Profile \cup {None}]
  /\ contentObjects \in [Contents -> Content \cup {None}]
  /\ version \in Nat

\* A profile that is written.
LEMMA ProfileWritten ==
  ASSUME ObjectsTypeOK, VersionInv, NEW i \in Ids, NEW object \in Profile,
         object.version = version + 1, WriteProfile(i, object)
  PROVE  ObjectsTypeOK' /\ VersionInv' /\ version <= version'
<1>1. object # None /\ version + 1 \in Nat
  BY WriteConstants DEF ObjectsTypeOK
<1>. QED
  BY <1>1 DEF ObjectsTypeOK, VersionInv, WriteProfile, Profile, Content

\* A content that is written, or removed.
LEMMA ContentWritten ==
  ASSUME ObjectsTypeOK, VersionInv, NEW c \in Contents, NEW object \in Content \cup {None},
         object # None => object.version = version + 1, WriteContent(c, object)
  PROVE  ObjectsTypeOK' /\ VersionInv' /\ version <= version'
<1>1. version + 1 \in Nat
  BY DEF ObjectsTypeOK
<1>. QED
  BY <1>1 DEF ObjectsTypeOK, VersionInv, WriteContent, Profile, Content

\* The objects keep their types and versions whatever a handler does.
LEMMA ObjectsHandled ==
  ASSUME TypeOK, PlacedInv, VersionInv, NEW q \in Requests, Handle(q)
  PROVE  /\ ObjectsTypeOK' /\ VersionInv' /\ version <= version'
         /\ cached' = cached /\ faults' \in 0..MaxFaults
<1>. DEFINE r == requests[q]
            Result == ObjectsTypeOK' /\ VersionInv' /\ version <= version'
<1>1. ObjectsTypeOK /\ MaxFaults \in Nat /\ faults \in 0..MaxFaults
  BY WriteConstants DEF TypeOK, ObjectsTypeOK
<1>2. r \in Request
  BY Handled
<1>3. r.id \in Ids /\ r.refs \in SUBSET Contents /\ r.content \in Contents /\ r.todo \in SUBSET Contents
  BY <1>2 DEF Request
<1>4. version + 1 \in Nat /\ version <= version + 1
  BY <1>1 DEF ObjectsTypeOK
<1>5. cached' = cached
  BY DEF Handle, ProfileExists, CreateConfigMap, CreateProfile, Rollback, GetProfile, UpdateProfile,
         GetContent, UpdateContent, DeleteProfile, DeleteContent
<1>6. faults' = faults \/ (faults < MaxFaults /\ faults' = faults + 1)
  <2>1. NoFault \/ Fault("lost") \/ Fault("refused") \/ UNCHANGED faults
    BY DEF Handle, ProfileExists, CreateConfigMap, CreateProfile, Rollback, GetProfile, UpdateProfile,
           GetContent, UpdateContent, DeleteProfile, DeleteContent, Refused
  <2>. QED
    BY <2>1 DEF NoFault, Fault
<1>7. faults' \in 0..MaxFaults
  BY <1>1, <1>6
<1>. SUFFICES Result
  BY <1>5, <1>7
<1>8. CASE UNCHANGED objects
  BY <1>1, <1>8 DEF ObjectsTypeOK, VersionInv, objects
<1>9. CASE CreateConfigMap(q) /\ WriteContent(r.content, [by |-> q, version |-> version + 1])
  <2>1. [by |-> q, version |-> version + 1] \in Content
    BY <1>4 DEF Content
  <2>. QED
    BY <1>1, <1>3, <1>9, <2>1, ContentWritten
<1>10. CASE WriteProfile(r.id, [refs |-> r.refs, born |-> version + 1,
                                version |-> version + 1, deleting |-> FALSE])
  <2>1. [refs |-> r.refs, born |-> version + 1,
         version |-> version + 1, deleting |-> FALSE] \in Profile
    BY <1>3, <1>4 DEF Profile
  <2>. QED
    BY <1>1, <1>3, <1>10, <2>1, ProfileWritten
<1>11. ASSUME NEW c \in Contents, WriteContent(c, None)
       PROVE  Result
  BY <1>1, <1>11, ContentWritten
<1>12. CASE UpdateProfile(q) /\ profileObjects[r.id] # None
            /\ WriteProfile(r.id, [profileObjects[r.id] EXCEPT !.refs = r.refs, !.version = version + 1])
  <2>. DEFINE object == [profileObjects[r.id] EXCEPT !.refs = r.refs, !.version = version + 1]
  <2>1. profileObjects[r.id] \in Profile
    BY <1>1, <1>3, <1>12 DEF ObjectsTypeOK
  <2>2. object \in Profile /\ object.version = version + 1
    BY <1>3, <1>4, <2>1 DEF Profile
  <2>. HIDE DEF object
  <2>3. WriteProfile(r.id, object)
    BY <1>12 DEF object
  <2>. QED
    BY <1>1, <1>3, <2>2, <2>3, ProfileWritten
<1>13. CASE contentObjects[r.content] # None
            /\ WriteContent(r.content, [contentObjects[r.content] EXCEPT !.version = version + 1])
  <2>. DEFINE object == [contentObjects[r.content] EXCEPT !.version = version + 1]
  <2>1. contentObjects[r.content] \in Content
    BY <1>1, <1>3, <1>13 DEF ObjectsTypeOK
  <2>2. object \in Content /\ object.version = version + 1
    BY <1>4, <2>1 DEF Content
  <2>. HIDE DEF object
  <2>3. WriteContent(r.content, object)
    BY <1>13 DEF object
  <2>. QED
    BY <1>1, <1>3, <2>2, <2>3, ContentWritten
<1>14. CASE profileObjects[r.id] # None /\ MarkDeleted(r.id)
  <2>. DEFINE object == [profileObjects[r.id] EXCEPT !.deleting = TRUE, !.version = version + 1]
  <2>1. profileObjects[r.id] \in Profile
    BY <1>1, <1>3, <1>14 DEF ObjectsTypeOK
  <2>2. object \in Profile /\ object.version = version + 1
    BY <1>4, <2>1 DEF Profile
  <2>. HIDE DEF object
  <2>3. WriteProfile(r.id, object) \/ UNCHANGED objects
    BY <1>14 DEF MarkDeleted, object
  <2>. QED
    BY <1>1, <1>3, <1>8, <2>2, <2>3, ProfileWritten
<1>. HIDE DEF Result
<1>15. Result
  <2>1. CASE ProfileExists(q) \/ GetProfile(q) \/ GetContent(q)
    BY <1>8, <2>1 DEF ProfileExists, GetProfile, GetContent
  <2>2. CASE CreateConfigMap(q)
    BY <1>8, <1>9, <2>2 DEF CreateConfigMap
  <2>3. CASE CreateProfile(q)
    BY <1>8, <1>10, <2>3 DEF CreateProfile
  <2>4. CASE Rollback(q)
    BY <1>3, <1>8, <1>11, <2>4 DEF Rollback
  <2>5. CASE UpdateProfile(q)
    BY <1>8, <1>12, <2>5 DEF UpdateProfile
  <2>6. CASE UpdateContent(q)
    BY <1>8, <1>13, <2>6 DEF UpdateContent
  <2>7. CASE DeleteProfile(q)
    BY <1>8, <1>14, <2>7 DEF DeleteProfile
  <2>8. CASE DeleteContent(q)
    BY <1>3, <1>8, <1>11, <2>8 DEF DeleteContent
  <2>. QED
    BY <2>1, <2>2, <2>3, <2>4, <2>5, <2>6, <2>7, <2>8 DEF Handle
<1>. QED
  BY <1>15

-----------------------------------------------------------------------------
(* Types                                                                   *)

TypesInv == TypeOK /\ PlacedInv /\ VersionInv

LEMMA TypesHold == Spec => []TypesInv
<1>1. Init => TypesInv
  <2>. SUFFICES ASSUME Init PROVE TypesInv
    OBVIOUS
  <2>1. ASSUME NEW c \in Contents
        PROVE  /\ contentObjects[c] \in Content \cup {None}
               /\ contentObjects[c] # None => contentObjects[c].version <= version
    BY WriteConstants DEF Init, Content
  <2>2. contentObjects \in [Contents -> Content \cup {None}]
    BY <2>1 DEF Init
  <2>. QED
    BY <2>1, <2>2, WriteConstants DEF Init, TypesInv, TypeOK, PlacedInv, VersionInv
<1>2. TypesInv /\ [Next]_vars => TypesInv'
  <2>. SUFFICES ASSUME TypesInv, [Next]_vars PROVE TypesInv'
    OBVIOUS
  <2>. USE DEF TypesInv
  <2>1. ASSUME NEW q \in Requests, NEW s \in Request, Placed(s),
               requests' = [requests EXCEPT ![q] = s]
        PROVE  /\ requests' \in [Requests -> Request \cup {None}] /\ PlacedInv'
               /\ \A p \in Requests : requests'[p] # None /\ requests'[p].step = "done"
                                      => requests'[p].answer # None
    BY <2>1 DEF TypeOK, PlacedInv, Placed
  <2>2. CASE \E q \in Requests, i \in Ids : Comes(q, i)
    <3>1. PICK q \in Requests, i \in Ids : Comes(q, i)
      BY <2>2
    <3>2. PICK s \in Request : /\ Placed(s) /\ requests' = [requests EXCEPT ![q] = s]
                               /\ UNCHANGED <<objects, cached, faults>>
      BY <3>1, Received DEF JustCame
    <3>. QED
      BY <2>1, <3>2 DEF TypeOK, VersionInv, objects
  <2>3. CASE \E q \in Requests : Handle(q)
    <3>1. PICK q \in Requests : Handle(q)
      BY <2>3
    <3>2. PICK s \in Request : Placed(s) /\ requests' = [requests EXCEPT ![q] = s]
      BY <3>1, Handled
    <3>3. /\ ObjectsTypeOK' /\ VersionInv' /\ cached' = cached /\ faults' \in 0..MaxFaults
      BY <3>1, ObjectsHandled
    <3>. QED
      BY <2>1, <3>2, <3>3 DEF TypeOK, ObjectsTypeOK
  <2>4. CASE \E i \in Ids : Finalized(i)
    BY <2>4 DEF Finalized, TypeOK, PlacedInv, VersionInv
  <2>5. CASE \E i \in Ids : Informed(i)
    BY <2>5 DEF Informed, TypeOK, PlacedInv, VersionInv, objects
  <2>6. CASE UNCHANGED vars
    BY <2>6 DEF vars, TypeOK, PlacedInv, VersionInv
  <2>. QED
    BY <2>2, <2>3, <2>4, <2>5, <2>6 DEF Next, Comes
<1>. QED
  BY <1>1, <1>2, PTL DEF Spec

\* Every variable of the model keeps its type, and no handler ends without an answer,
\* whatever other requests and failing calls come between its calls.
THEOREM Typing == Spec => []TypeOK
BY TypesHold, PTL DEF TypesInv

-----------------------------------------------------------------------------
(* Who made a content, and who removes it                                  *)

\* The content is what it was, or was edited in place.
KeptBy(c) ==
  \/ contentObjects'[c] = contentObjects[c]
  \/ contentObjects[c] # None /\ contentObjects'[c] # None
     /\ contentObjects'[c].by = contentObjects[c].by

\* What each step of a handler does to the contents, s being its request afterwards.
ContentsAfter(q, r, s) ==
  /\ \A c \in Contents :
       \/ KeptBy(c)
       \/ c = r.content /\ r.step \in {"configMap", "rollback"}
       \/ r.step = "deleteContent" /\ contentObjects'[c] = None
  /\ r.step = "exists" =>
       \/ s.step = "configMap"
       \/ s.step = "createProfile" /\ ~r.yaml
       \/ s.step = "done" /\ s.answer # "created"
  /\ r.step = "configMap" =>
       \/ /\ contentObjects[r.content] = None
          /\ contentObjects'[r.content] # None /\ contentObjects'[r.content].by = q
          /\ \/ s.step = "createProfile"
             \/ s.step = "done" /\ s.answer = "error" /\ s.unsure
       \/ KeptBy(r.content) /\ s.step = "done" /\ s.answer # "created"
  /\ r.step = "createProfile" =>
       \/ s.step = "rollback"
       \/ s.step = "done" /\ s.answer = "created"
       \/ s.step = "done" /\ ~r.yaml
  /\ r.step = "rollback" =>
       /\ s.step = "done" /\ s.answer = r.answer
       /\ \/ contentObjects'[r.content] = None
          \/ KeptBy(r.content) /\ s.unsure

LEMMA ContentsHandled ==
  ASSUME TypeOK, PlacedInv, NEW q \in Requests, Handle(q)
  PROVE  ContentsAfter(q, requests[q], requests'[q])
<1>. DEFINE r == requests[q]
            s == requests'[q]
<1>. SUFFICES ContentsAfter(q, r, s)
  OBVIOUS
<1>1. r \in Request /\ Placed(r)
  <2>1. r \in Request
    BY Handled
  <2>2. r # None
    BY <2>1, WriteConstants
  <2>. QED
    BY <2>1, <2>2 DEF PlacedInv
<1>2. /\ r.content \in Contents /\ r.todo \in SUBSET Contents
      /\ requests \in [Requests -> Request \cup {None}]
      /\ contentObjects \in [Contents -> Content \cup {None}]
  BY <1>1 DEF Request, TypeOK
<1>3. /\ \A step : GoTo(q, step) => s.step = step /\ s.answer = r.answer
      /\ \A answer : Return(q, answer) => s.step = "done" /\ s.answer = answer
      /\ \A answer : CreateFailed(q, answer) =>
           s.step = IF r.yaml THEN "rollback" ELSE "done"
  <2>1. \A step : /\ [r EXCEPT !.step = step].step = step
                  /\ [r EXCEPT !.step = step].answer = r.answer
    BY <1>1 DEF Request
  <2>2. \A step, answer : /\ [r EXCEPT !.step = step, !.answer = answer].step = step
                          /\ [r EXCEPT !.step = step, !.answer = answer].answer = answer
    BY <1>1 DEF Request
  <2>3. ASSUME NEW changed, Continue(q, changed) PROVE s = changed
    BY <1>2, <2>3 DEF Continue
  <2>4. ASSUME NEW step, GoTo(q, step) PROVE s.step = step /\ s.answer = r.answer
    BY <2>1, <2>3, <2>4 DEF GoTo
  <2>5. ASSUME NEW answer, Return(q, answer) PROVE s.step = "done" /\ s.answer = answer
    <3>1. s = [r EXCEPT !.step = "done", !.answer = answer]
      BY <2>3, <2>5 DEF Return
    <3>. HIDE DEF r, s
    <3>. QED
      BY <2>2, <3>1
  <2>6. ASSUME NEW answer, CreateFailed(q, answer)
        PROVE  s.step = IF r.yaml THEN "rollback" ELSE "done"
    <3>1. CASE r.yaml /\ Continue(q, [r EXCEPT !.step = "rollback", !.answer = answer])
      <4>1. s = [r EXCEPT !.step = "rollback", !.answer = answer]
        BY <2>3, <3>1
      <4>. HIDE DEF r, s
      <4>. QED
        BY <2>2, <3>1, <4>1
    <3>. QED
      BY <2>5, <2>6, <3>1 DEF CreateFailed
  <2>. QED
    BY <2>4, <2>5, <2>6
<1>4. ASSUME UNCHANGED objects, NEW c PROVE KeptBy(c)
  BY <1>4 DEF objects, KeptBy
<1>5. ASSUME NEW i, NEW object, WriteProfile(i, object), NEW c PROVE KeptBy(c)
  BY <1>5 DEF WriteProfile, KeptBy
<1>6. ASSUME NEW c \in Contents, NEW object, WriteContent(c, object)
      PROVE  contentObjects'[c] = object /\ \A d \in Contents \ {c} : KeptBy(d)
  BY <1>2, <1>6 DEF WriteContent, KeptBy
<1>7. CASE ProfileExists(q)
  BY <1>3, <1>4, <1>7 DEF ProfileExists, At, ContentsAfter
<1>8. CASE CreateConfigMap(q)
  <2>. DEFINE object == [by |-> q, version |-> version + 1]
  <2>1. r.step = "configMap"
    BY <1>8 DEF CreateConfigMap, At
  <2>2. CASE contentObjects[r.content] = None /\ WriteContent(r.content, object)
             /\ (GoTo(q, "createProfile")
                 \/ Continue(q, [r EXCEPT !.step = "done", !.answer = "error", !.unsure = TRUE]))
    <3>1. version + 1 \in Nat
      BY DEF TypeOK
    <3>2. object \in Content /\ object # None /\ object.by = q
      BY <3>1, WriteConstants DEF Content
    <3>3. Continue(q, [r EXCEPT !.step = "done", !.answer = "error", !.unsure = TRUE])
            => s.step = "done" /\ s.answer = "error" /\ s.unsure
      BY <1>1, <1>2 DEF Continue, Request
    <3>. HIDE DEF object
    <3>4. contentObjects'[r.content] = object /\ \A d \in Contents \ {r.content} : KeptBy(d)
      BY <1>2, <1>6, <2>2
    <3>. HIDE DEF r, s
    <3>. QED
      BY <1>3, <2>1, <2>2, <3>2, <3>3, <3>4 DEF ContentsAfter
  <2>3. CASE (\E answer \in CreateRefusals : Return(q, answer)) /\ UNCHANGED objects
    <3>1. s.step = "done" /\ s.answer # "created"
      BY <1>3, <2>3 DEF CreateRefusals, Refusals
    <3>2. \A c \in Contents \cup {r.content} : KeptBy(c)
      BY <1>4, <2>3
    <3>. HIDE DEF r, s
    <3>. QED
      BY <2>1, <3>1, <3>2 DEF ContentsAfter
  <2>. QED
    BY <1>8, <2>2, <2>3 DEF CreateConfigMap, CreateRefusals, Refusals
<1>9. CASE CreateProfile(q)
  <2>1. r.step = "createProfile"
    BY <1>9 DEF CreateProfile, At
  <2>2. \/ Return(q, "created")
        \/ \E answer : CreateFailed(q, answer)
    BY <1>9 DEF CreateProfile
  <2>3. ASSUME NEW c PROVE KeptBy(c)
    BY <1>4, <1>5, <1>9 DEF CreateProfile
  <2>. QED
    BY <1>1, <1>3, <2>1, <2>2, <2>3 DEF ContentsAfter
<1>10. CASE Rollback(q)
  <2>1. r.step = "rollback"
    BY <1>10 DEF Rollback, At
  <2>2. CASE WriteContent(r.content, None) /\ GoTo(q, "done")
    <3>1. contentObjects'[r.content] = None /\ \A d \in Contents \ {r.content} : KeptBy(d)
      BY <1>2, <1>6, <2>2
    <3>. HIDE DEF r, s
    <3>. QED
      BY <1>3, <2>1, <2>2, <3>1 DEF ContentsAfter
  <2>3. CASE contentObjects[r.content] = None /\ UNCHANGED objects /\ GoTo(q, "done")
    <3>1. contentObjects'[r.content] = None
      BY <2>3 DEF objects
    <3>. HIDE DEF r, s
    <3>. QED
      BY <1>3, <1>4, <2>1, <2>3, <3>1 DEF ContentsAfter
  <2>4. CASE UNCHANGED objects /\ Continue(q, [r EXCEPT !.step = "done", !.unsure = TRUE])
    <3>1. s.step = "done" /\ s.answer = r.answer /\ s.unsure
      BY <1>1, <1>2, <2>4 DEF Continue, Request
    <3>. HIDE DEF r, s
    <3>. QED
      BY <1>4, <2>1, <2>4, <3>1 DEF ContentsAfter
  <2>. QED
    BY <1>10, <2>2, <2>3, <2>4 DEF Rollback
<1>11. ASSUME \A c \in Contents : KeptBy(c),
              r.step \notin {"exists", "configMap", "createProfile", "rollback"}
       PROVE  ContentsAfter(q, r, s)
  BY <1>11 DEF ContentsAfter
<1>12. CASE GetProfile(q) \/ GetContent(q)
  <2>1. r.step \in {"get", "getContent"} /\ UNCHANGED objects
    BY <1>12 DEF GetProfile, GetContent, At
  <2>. QED
    BY <1>4, <1>11, <2>1
<1>13. CASE UpdateProfile(q)
  <2>1. r.step = "updateProfile"
    BY <1>13 DEF UpdateProfile, At
  <2>2. \A c \in Contents : KeptBy(c)
    BY <1>4, <1>5, <1>13 DEF UpdateProfile
  <2>. QED
    BY <1>11, <2>1, <2>2
<1>14. CASE UpdateContent(q)
  <2>. DEFINE object == [contentObjects[r.content] EXCEPT !.version = version + 1]
  <2>1. r.step = "updateContent"
    BY <1>14 DEF UpdateContent, At
  <2>2. CASE contentObjects[r.content] # None /\ WriteContent(r.content, object)
    <3>1. contentObjects[r.content] \in Content /\ version + 1 \in Nat
      BY <1>2, <2>2 DEF TypeOK
    <3>2. object \in Content /\ object.by = contentObjects[r.content].by
      BY <3>1 DEF Content
    <3>3. object # None
      BY <3>2, WriteConstants
    <3>. HIDE DEF object
    <3>4. contentObjects'[r.content] = object /\ \A d \in Contents \ {r.content} : KeptBy(d)
      BY <1>2, <1>6, <2>2
    <3>5. KeptBy(r.content)
      BY <2>2, <3>2, <3>3, <3>4 DEF KeptBy
    <3>. QED
      BY <1>11, <2>1, <3>4, <3>5
  <2>3. CASE UNCHANGED objects
    BY <1>4, <1>11, <2>1, <2>3
  <2>. QED
    BY <1>14, <2>2, <2>3 DEF UpdateContent
<1>15. CASE DeleteProfile(q)
  <2>1. r.step = "deleteProfile"
    BY <1>15 DEF DeleteProfile, At
  <2>2. \A c \in Contents : KeptBy(c)
    BY <1>4, <1>5, <1>15 DEF DeleteProfile, MarkDeleted
  <2>. QED
    BY <1>11, <2>1, <2>2
<1>16. CASE DeleteContent(q)
  <2>1. r.step = "deleteContent"
    BY <1>16 DEF DeleteContent, At
  <2>2. PICK c \in r.todo : WriteContent(c, None) \/ UNCHANGED objects
    BY <1>16 DEF DeleteContent
  <2>3. \A d \in Contents : KeptBy(d) \/ contentObjects'[d] = None
    BY <1>2, <1>4, <1>6, <2>2
  <2>. HIDE DEF r, s
  <2>. QED
    BY <2>1, <2>3 DEF ContentsAfter
<1>. QED
  BY <1>7, <1>8, <1>9, <1>10, <1>12, <1>13, <1>14, <1>15, <1>16 DEF Handle

\* A content that a request made is the ConfigMap of that request, which still has the
\* profile to create or the ConfigMap to remove, or created the profile, or could not tell.
MayOwn(q, c) ==
  LET r == requests[q] IN
    /\ r # None /\ r.yaml /\ c = r.content
    /\ \/ r.step \in {"createProfile", "rollback"}
       \/ r.step = "done" /\ r.answer = "created"
       \/ r.step = "done" /\ r.unsure

OwnedInv ==
  \A c \in Contents, q \in Requests :
    contentObjects[c] # None /\ contentObjects[c].by = q => MayOwn(q, c)

\* A create past its ConfigMap has it, unless a DELETE removes contents.
Relies(q) ==
  LET r == requests[q] IN
    /\ r # None /\ r.yaml
    /\ \/ r.step \in {"createProfile", "rollback"}
       \/ r.step = "done" /\ r.answer = "created"

NoRemoval == \A p \in Requests : requests[p] # None => ~requests[p].remove

ReliedInv ==
  NoRemoval =>
    \A q \in Requests :
      Relies(q) => LET object == contentObjects[ContentOf[requests[q].id]] IN
                     object # None /\ object.by = q

\* What follows from a step of q, for the requests that did not make it.
LEMMA OthersLeftAlone ==
  ASSUME TypeOK, PlacedInv, NEW q \in Requests, Handle(q)
  PROVE  LET r == requests[q]
             s == requests'[q]
         IN /\ r \in Request /\ Placed(r) /\ r # None /\ r.step # "done"
            /\ s \in Request /\ Placed(s) /\ s # None /\ SameRequest(r, s)
            /\ \A p \in Requests \ {q} : requests'[p] = requests[p]
            /\ r.yaml => s.content = r.content /\ r.content = ContentOf[r.id]
<1>1. PICK t \in Request : /\ requests' = [requests EXCEPT ![q] = t]
                           /\ Placed(t) /\ SameRequest(requests[q], t)
  BY Handled
<1>2. requests[q] \in Request /\ requests[q].step # "done"
  BY Handled
<1>3. requests[q] # None /\ t # None
  BY <1>2, WriteConstants
<1>4. Placed(requests[q])
  BY <1>3 DEF PlacedInv
<1>5. requests'[q] = t /\ \A p \in Requests \ {q} : requests'[p] = requests[p]
  BY <1>1 DEF TypeOK
<1>. QED
  BY <1>1, <1>2, <1>3, <1>4, <1>5 DEF SameRequest, Placed

\* A step of a handler keeps both.
LEMMA OwnersHandled ==
  ASSUME TypeOK, PlacedInv, OwnedInv, ReliedInv, NEW q \in Requests, Handle(q)
  PROVE  OwnedInv' /\ ReliedInv'
<1>. DEFINE r == requests[q]
            s == requests'[q]
<1>1. /\ r \in Request /\ Placed(r) /\ r # None /\ r.step # "done"
      /\ s \in Request /\ Placed(s) /\ s # None /\ SameRequest(r, s)
      /\ \A p \in Requests \ {q} : requests'[p] = requests[p]
      /\ r.yaml => s.content = r.content /\ r.content = ContentOf[r.id]
  BY OthersLeftAlone
<1>2. ContentsAfter(q, r, s)
  BY ContentsHandled
<1>3. /\ r.content \in Contents /\ r.op \in {"create", "update", "delete"}
      /\ r.yaml => r.step \in {"exists", "configMap", "createProfile", "rollback"}
      /\ s.id = r.id /\ s.yaml = r.yaml /\ s.remove = r.remove
      /\ r.step = "deleteContent" => r.remove
      /\ r.step \in {"configMap", "rollback"} => r.yaml
      /\ r.step = "rollback" => r.answer # "created"
  BY <1>1 DEF Request, Placed, StepsOf, SameRequest, CreateErrors, CreateRefusals, Refusals
<1>4. OwnedInv'
  <2>. SUFFICES ASSUME NEW c \in Contents, NEW p \in Requests,
                       contentObjects'[c] # None, contentObjects'[c].by = p
                PROVE  MayOwn(p, c)'
    BY DEF OwnedInv
  <2>. HIDE DEF r, s
  <2>1. CASE KeptBy(c) /\ p # q
    <3>1. MayOwn(p, c)
      BY <2>1 DEF KeptBy, OwnedInv
    <3>. QED
      BY <1>1, <2>1, <3>1 DEF MayOwn
  <2>2. CASE KeptBy(c) /\ p = q
    <3>1. MayOwn(q, c)
      BY <2>2 DEF KeptBy, OwnedInv
    <3>2. r.yaml /\ c = r.content /\ r.step \in {"createProfile", "rollback"}
      BY <1>1, <3>1 DEF MayOwn, r
    <3>3. \/ s.step = "rollback"
          \/ s.step = "done" /\ s.answer = "created"
          \/ s.step = "done" /\ s.unsure
      BY <1>2, <2>2, <3>2 DEF ContentsAfter
    <3>. QED
      BY <1>1, <1>3, <2>2, <3>2, <3>3 DEF MayOwn, s
  <2>3. CASE ~KeptBy(c)
    <3>1. c = r.content /\ r.step = "configMap"
      BY <1>2, <2>3 DEF ContentsAfter
    <3>2. p = q /\ (s.step = "createProfile" \/ (s.step = "done" /\ s.unsure))
      BY <1>2, <2>3, <3>1 DEF ContentsAfter
    <3>. QED
      BY <1>1, <1>3, <3>1, <3>2 DEF MayOwn, s
  <2>. QED
    BY <2>1, <2>2, <2>3
<1>5. ReliedInv'
  <2>. SUFFICES ASSUME NoRemoval', NEW p \in Requests, Relies(p)'
                PROVE  LET object == contentObjects'[ContentOf[requests'[p].id]] IN
                         object # None /\ object.by = p
    BY DEF ReliedInv
  <2>1. ~r.remove /\ ~s.remove
    BY <1>1, <1>3 DEF NoRemoval
  <2>2. NoRemoval
    BY <1>1, <2>1 DEF NoRemoval
  <2>. DEFINE c == ContentOf[requests'[p].id]
  <2>. HIDE DEF r, s
  <2>3. CASE p # q
    <3>1. requests'[p] = requests[p] /\ Relies(p)
      BY <1>1, <2>3 DEF Relies
    <3>2. contentObjects[c] # None /\ contentObjects[c].by = p
      BY <2>2, <3>1 DEF ReliedInv
    <3>3. c \in Contents
      <4>1. requests[p] \in Request
        BY <3>1 DEF TypeOK, Relies
      <4>. QED
        BY <3>1, <4>1, WriteConstants DEF Request
    <3>4. CASE ~(c = r.content /\ r.step \in {"configMap", "rollback"})
      <4>1. KeptBy(c)
        BY <1>2, <1>3, <2>1, <3>3, <3>4 DEF ContentsAfter
      <4>. QED
        BY <3>2, <4>1 DEF KeptBy
    <3>5. CASE c = r.content /\ r.step = "configMap"
      <4>1. KeptBy(c)
        BY <1>2, <3>2, <3>5 DEF ContentsAfter
      <4>. QED
        BY <3>2, <4>1 DEF KeptBy
    <3>6. CASE c = r.content /\ r.step = "rollback"
      <4>1. Relies(q) /\ c = ContentOf[r.id]
        BY <1>1, <1>3, <3>6 DEF Relies, r
      <4>2. contentObjects[c].by = q
        BY <2>2, <4>1 DEF ReliedInv, r
      <4>. QED
        BY <2>3, <3>2, <4>2
    <3>. QED
      BY <3>4, <3>5, <3>6
  <2>4. CASE p = q
    <3>1. r.yaml /\ c = r.content
          /\ (s.step \in {"createProfile", "rollback"} \/ (s.step = "done" /\ s.answer = "created"))
      BY <1>1, <1>3, <2>4 DEF Relies, s
    <3>2. r.step \in {"configMap", "createProfile"}
      BY <1>2, <1>3, <3>1 DEF ContentsAfter
    <3>3. CASE r.step = "configMap"
      BY <1>2, <2>4, <3>1, <3>3 DEF ContentsAfter
    <3>4. CASE r.step = "createProfile"
      <4>1. Relies(q) /\ c = ContentOf[r.id]
        BY <1>1, <3>1, <3>4 DEF Relies, r
      <4>2. contentObjects[c] # None /\ contentObjects[c].by = q
        BY <2>2, <4>1 DEF ReliedInv, r
      <4>3. KeptBy(c)
        BY <1>2, <1>3, <3>1, <3>4 DEF ContentsAfter
      <4>. QED
        BY <2>4, <4>2, <4>3 DEF KeptBy
    <3>. QED
      BY <3>2, <3>3, <3>4
  <2>. QED
    BY <2>3, <2>4
<1>. QED
  BY <1>4, <1>5

LEMMA OwnersHold == Spec => [](OwnedInv /\ ReliedInv)
<1>1. Init => OwnedInv /\ ReliedInv
  BY WriteConstants DEF Init, OwnedInv, ReliedInv, Relies
<1>2. TypesInv /\ OwnedInv /\ ReliedInv /\ [Next]_vars => OwnedInv' /\ ReliedInv'
  <2>. SUFFICES ASSUME TypesInv, OwnedInv, ReliedInv, [Next]_vars
                PROVE  OwnedInv' /\ ReliedInv'
    OBVIOUS
  <2>1. ASSUME UNCHANGED <<contentObjects, requests>> PROVE OwnedInv' /\ ReliedInv'
    BY <2>1 DEF OwnedInv, ReliedInv, MayOwn, Relies, NoRemoval
  <2>2. CASE \E q \in Requests, i \in Ids : Comes(q, i)
    <3>1. PICK q \in Requests, i \in Ids : Comes(q, i)
      BY <2>2
    <3>2. PICK s \in Request :
            /\ s.step \in {"exists", "get"} \/ (s.step = "done" /\ s.answer # "created")
            /\ requests[q] = None
            /\ requests' = [requests EXCEPT ![q] = s]
            /\ contentObjects' = contentObjects
      BY <3>1, Received DEF JustCame, objects
    <3>3. requests'[q] = s /\ \A p \in Requests \ {q} : requests'[p] = requests[p]
      BY <3>2 DEF TypesInv, TypeOK
    <3>4. OwnedInv'
      BY <3>2, <3>3 DEF OwnedInv, MayOwn
    <3>5. NoRemoval' => NoRemoval
      BY <3>2, <3>3 DEF NoRemoval
    <3>6. ASSUME NEW p \in Requests, Relies(p)' PROVE p # q /\ requests'[p] = requests[p] /\ Relies(p)
      BY <3>2, <3>3, <3>6 DEF Relies
    <3>7. ReliedInv'
      BY <3>2, <3>5, <3>6 DEF ReliedInv
    <3>. QED
      BY <3>4, <3>7
  <2>3. CASE \E q \in Requests : Handle(q)
    BY <2>3, OwnersHandled DEF TypesInv
  <2>4. CASE \E i \in Ids : Finalized(i)
    BY <2>1, <2>4 DEF Finalized
  <2>5. CASE \E i \in Ids : Informed(i)
    BY <2>1, <2>5 DEF Informed, objects
  <2>6. CASE UNCHANGED vars
    BY <2>1, <2>6 DEF vars
  <2>. QED
    BY <2>2, <2>3, <2>4, <2>5, <2>6 DEF Next, Comes
<1>. QED
  BY <1>1, <1>2, TypesHold, PTL DEF Spec

\* A create that answers an error leaves no ConfigMap of its own, whoever else writes, as
\* long as the calls that made it and that should remove it did not fail.
THEOREM LostRaceOrphansNothing == Spec => []FailedCreateLeavesNothing
<1>1. TypesInv /\ OwnedInv => FailedCreateLeavesNothing
  BY DEF OwnedInv, FailedCreateLeavesNothing, MayOwn, Done, At
<1>. QED
  BY <1>1, TypesHold, OwnersHold, PTL

\* No other create, however it fails, and no update takes the ConfigMap of a create that
\* succeeded.
THEOREM OnlyDeletesTakeContent == Spec => []CreatedKeepsContent
<1>1. ReliedInv => CreatedKeepsContent
  BY DEF ReliedInv, CreatedKeepsContent, Relies, NoRemoval, Done, At
<1>. QED
  BY <1>1, OwnersHold, PTL

-----------------------------------------------------------------------------
(* A DELETE takes contents last                                            *)

\* The profile that was read at this version is gone, or on its way out.
Gone(i, read) ==
  LET object == profileObjects[i] IN object = None \/ object.deleting \/ object.born > read

\* The same, after a step.
GoneAfter(i, read) ==
  LET object == profileObjects'[i] IN object = None \/ object.deleting \/ object.born > read

LastInv ==
  \A q \in Requests :
    LET r == requests[q] IN
      r # None =>
        /\ r.read <= version
        /\ r.op = "delete" /\ (r.step = "deleteContent" \/ r.took # {}) => Gone(r.id, r.read)

\* What is gone stays gone: a profile of the same name is a younger one, and an update
\* of one on its way out leaves it there.
LEMMA GoneForGood ==
  ASSUME TypeOK, PlacedInv, NEW q \in Requests, Handle(q),
         NEW i \in Ids, NEW read \in Nat, read <= version, Gone(i, read)
  PROVE  GoneAfter(i, read)
<1>. DEFINE r == requests[q]
<1>1. r \in Request
  BY Handled
<1>2. /\ r.id \in Ids /\ version \in Nat
      /\ profileObjects \in [Ids -> Profile \cup {None}]
  BY <1>1 DEF Request, TypeOK
<1>3. CASE UNCHANGED profileObjects
  BY <1>3 DEF Gone, GoneAfter
<1>4. ASSUME NEW object, WriteProfile(r.id, object), object.deleting \/ object.born > read
      PROVE  GoneAfter(i, read)
  BY <1>2, <1>4 DEF WriteProfile, Gone, GoneAfter
<1>. HIDE DEF r
<1>5. CASE CreateProfile(q)
  <2>. DEFINE object == [refs |-> r.refs, born |-> version + 1,
                         version |-> version + 1, deleting |-> FALSE]
  <2>1. object.born > read
    BY <1>2
  <2>2. WriteProfile(r.id, object) \/ UNCHANGED profileObjects
    BY <1>5 DEF CreateProfile, objects, r
  <2>. HIDE DEF object
  <2>. QED
    BY <1>3, <1>4, <2>1, <2>2
<1>6. CASE UpdateProfile(q)
  <2>. DEFINE object == [profileObjects[r.id] EXCEPT !.refs = r.refs, !.version = version + 1]
  <2>1. \/ profileObjects[r.id] # None /\ WriteProfile(r.id, object)
        \/ UNCHANGED profileObjects
    BY <1>6 DEF UpdateProfile, objects, r
  <2>2. CASE profileObjects[r.id] # None /\ WriteProfile(r.id, object)
    <3>1. profileObjects[r.id] \in Profile
      BY <1>2, <2>2
    <3>2. /\ object.deleting = profileObjects[r.id].deleting
          /\ object.born = profileObjects[r.id].born
      BY <3>1 DEF Profile
    <3>. HIDE DEF object
    <3>3. CASE i = r.id
      BY <1>4, <2>2, <3>2, <3>3 DEF Gone, GoneAfter
    <3>4. CASE i # r.id
      BY <1>2, <2>2, <3>4 DEF Gone, GoneAfter, WriteProfile
    <3>. QED
      BY <3>3, <3>4
  <2>. QED
    BY <1>3, <2>1, <2>2
<1>7. CASE DeleteProfile(q)
  <2>. DEFINE object == [profileObjects[r.id] EXCEPT !.deleting = TRUE, !.version = version + 1]
  <2>1. \/ profileObjects[r.id] # None /\ WriteProfile(r.id, object)
        \/ UNCHANGED profileObjects
    BY <1>7 DEF DeleteProfile, MarkDeleted, objects, r
  <2>2. CASE profileObjects[r.id] # None /\ WriteProfile(r.id, object)
    <3>1. profileObjects[r.id] \in Profile
      BY <1>2, <2>2
    <3>2. object.deleting
      BY <3>1 DEF Profile
    <3>. HIDE DEF object
    <3>. QED
      BY <1>4, <2>2, <3>2
  <2>. QED
    BY <1>3, <2>1, <2>2
<1>. QED
  BY <1>3, <1>5, <1>6, <1>7
  DEF Handle, ProfileExists, CreateConfigMap, Rollback, GetProfile, GetContent, UpdateContent,
      DeleteContent, objects, WriteContent

\* Which versions a handler's step reads, and when it goes on to the contents.
LEMMA ReadsHandled ==
  ASSUME TypeOK, PlacedInv, VersionInv, NEW q \in Requests, Handle(q)
  PROVE  LET r == requests[q]
             s == requests'[q]
         IN /\ s.read = r.read \/ s.read <= version
            /\ r.op = "delete" /\ (s.step = "deleteContent" \/ s.took # {}) =>
                 /\ s.read = r.read
                 /\ \/ r.step = "deleteContent"
                    \/ r.step = "deleteProfile" /\ GoneAfter(r.id, r.read)
<1>. DEFINE r == requests[q]
            s == requests'[q]
            Result == /\ s.read = r.read \/ s.read <= version
                      /\ r.op = "delete" /\ (s.step = "deleteContent" \/ s.took # {}) =>
                           /\ s.read = r.read
                           /\ \/ r.step = "deleteContent"
                              \/ r.step = "deleteProfile" /\ GoneAfter(r.id, r.read)
<1>. SUFFICES Result
  OBVIOUS
<1>1. /\ r \in Request /\ Placed(r) /\ s \in Request /\ Placed(s) /\ SameRequest(r, s)
      /\ r.step # "done"
  BY OthersLeftAlone
<1>2. /\ r.id \in Ids /\ r.op \in {"create", "update", "delete"} /\ r.content \in Contents
      /\ r.todo \in SUBSET Contents /\ s.op = r.op
      /\ requests \in [Requests -> Request \cup {None}]
  BY <1>1 DEF Request, TypeOK, SameRequest
<1>3. ASSUME NEW changed, Continue(q, changed) PROVE s = changed
  BY <1>2, <1>3 DEF Continue
<1>4. ASSUME s.read = r.read, s.step # "deleteContent", s.took = r.took PROVE Result
  BY <1>1, <1>4 DEF Placed
<1>5. CASE r.op = "create" \/ r.step = "updateProfile" \/ r.step = "updateContent"
            \/ r.step = "getContent"
  <2>1. r.op # "delete"
    BY <1>1, <1>5 DEF Placed, StepsOf
  <2>2. s.read = r.read \/ s.read <= version
    <3>1. CASE GetContent(q)
      <4>1. CASE \E answer : Return(q, answer)
        BY <1>1, <1>3, <4>1 DEF Return, Request
      <4>2. ASSUME NEW c \in r.todo, contentObjects[c] # None,
                   Continue(q, [r EXCEPT !.content = c, !.read = contentObjects[c].version,
                                         !.step = "updateContent"])
            PROVE  s.read <= version
        <5>1. s.read = contentObjects[c].version
          BY <1>1, <1>3, <4>2 DEF Request
        <5>. QED
          BY <1>2, <4>2, <5>1 DEF VersionInv
      <4>. QED
        BY <3>1, <4>1, <4>2 DEF GetContent, Refused
    <3>2. CASE ~GetContent(q)
      <4>1. \/ \E step : GoTo(q, step)
            \/ \E answer : Return(q, answer)
            \/ \E answer : Continue(q, [r EXCEPT !.step = "done", !.answer = answer, !.unsure = TRUE])
            \/ Continue(q, [r EXCEPT !.step = "done", !.unsure = TRUE])
            \/ \E answer : Continue(q, [r EXCEPT !.step = "rollback", !.answer = answer])
            \/ \E todo : NextContent(q, r, todo)
        <5>1. CASE ProfileExists(q)
          BY <5>1 DEF ProfileExists
        <5>2. CASE CreateConfigMap(q)
          BY <5>2 DEF CreateConfigMap
        <5>3. CASE CreateProfile(q)
          BY <5>3 DEF CreateProfile, CreateFailed
        <5>4. CASE Rollback(q)
          BY <5>4 DEF Rollback
        <5>5. CASE UpdateProfile(q) \/ UpdateContent(q)
          BY <5>5 DEF UpdateProfile, UpdateContent, Refused
        <5>6. CASE GetProfile(q) \/ DeleteProfile(q) \/ DeleteContent(q)
          <6>1. r.step \in {"get", "deleteProfile", "deleteContent"}
            BY <5>6 DEF GetProfile, DeleteProfile, DeleteContent, At
          <6>. QED
            BY <1>1, <1>5, <6>1 DEF Placed, StepsOf
        <5>. QED
          BY <3>2, <5>1, <5>2, <5>3, <5>4, <5>5, <5>6 DEF Handle
      <4>. QED
        BY <1>1, <1>3, <4>1 DEF GoTo, Return, NextContent, Request
    <3>. QED
      BY <3>1, <3>2
  <2>. QED
    BY <2>1, <2>2
<1>6. CASE GetProfile(q)
  <2>1. r.step = "get" /\ r.took = {}
    BY <1>1, <1>6 DEF GetProfile, At, Placed
  <2>2. CASE \E answer : Return(q, answer)
    <3>1. s.read = r.read /\ s.step = "done" /\ s.took = r.took
      BY <1>1, <1>3, <2>2 DEF Return, Request
    <3>. QED
      BY <1>4, <3>1
  <2>3. ASSUME NEW step \in {"updateProfile", "deleteProfile"}, NEW refs, profileObjects[r.id] # None,
               Continue(q, [r EXCEPT !.read = profileObjects[r.id].version, !.step = step,
                                     !.refs = refs])
        PROVE  Result
    <3>1. s.read = profileObjects[r.id].version /\ s.step = step /\ s.took = r.took
      BY <1>1, <1>3, <2>3 DEF Request
    <3>2. s.read <= version
      BY <1>2, <2>3, <3>1 DEF VersionInv
    <3>. QED
      BY <2>1, <2>3, <3>1, <3>2
  <2>. QED
    BY <1>6, <2>2, <2>3 DEF GetProfile, Refused
<1>7. CASE DeleteProfile(q)
  <2>1. r.step = "deleteProfile" /\ r.took = {} /\ r.op = "delete"
    BY <1>1, <1>2, <1>7 DEF DeleteProfile, At, Placed, StepsOf
  <2>2. CASE \E answer : Return(q, answer)
    <3>1. s.read = r.read /\ s.step = "done" /\ s.took = r.took
      BY <1>1, <1>3, <2>2 DEF Return, Request
    <3>. QED
      BY <1>4, <3>1
  <2>3. CASE /\ \E todo : NextContent(q, r, todo)
             /\ \/ profileObjects[r.id] # None /\ MarkDeleted(r.id)
                \/ profileObjects[r.id] = None /\ UNCHANGED objects
    <3>1. s.read = r.read
      BY <1>1, <1>3, <2>3 DEF NextContent, Request
    <3>2. GoneAfter(r.id, r.read)
      BY <1>2, <2>3 DEF TypeOK, Gone, GoneAfter, MarkDeleted, WriteProfile, Profile, objects
    <3>. HIDE DEF r, s
    <3>. QED
      BY <2>1, <3>1, <3>2
  <2>. QED
    BY <1>7, <2>2, <2>3 DEF DeleteProfile, Refused
<1>8. CASE DeleteContent(q)
  <2>1. r.step = "deleteContent"
    BY <1>8 DEF DeleteContent, At
  <2>2. \/ \E answer : Return(q, answer)
        \/ \E took, todo : NextContent(q, [r EXCEPT !.took = took], todo)
        \/ \E todo : NextContent(q, r, todo)
    BY <1>8 DEF DeleteContent, Refused
  <2>3. s.read = r.read
    <3>1. CASE \E answer : Return(q, answer)
      BY <1>1, <1>3, <3>1 DEF Return, Request
    <3>2. ASSUME NEW took, NEW todo, NextContent(q, [r EXCEPT !.took = took], todo)
          PROVE  s.read = r.read
      <4>. DEFINE t == [r EXCEPT !.took = took]
      <4>1. t.read = r.read /\ DOMAIN t = DOMAIN r
        BY <1>1 DEF Request
      <4>2. \E step, answer : s = [t EXCEPT !.todo = todo, !.step = step, !.answer = answer]
        BY <1>3, <3>2 DEF NextContent
      <4>3. s.read = t.read
        <5>. HIDE DEF t
        <5>. QED
          BY <1>1, <4>1, <4>2 DEF Request
      <4>. QED
        BY <4>1, <4>3
    <3>3. ASSUME NEW todo, NextContent(q, r, todo)
          PROVE  s.read = r.read
      BY <1>1, <1>3, <3>3 DEF NextContent, Request
    <3>. QED
      BY <2>2, <3>1, <3>2, <3>3
  <2>. QED
    BY <2>1, <2>3
<1>. QED
  <2>1. \/ r.op = "create" \/ r.step \in {"updateProfile", "updateContent", "getContent"}
        \/ r.step \in {"get", "deleteProfile", "deleteContent"}
    BY <1>1, <1>2 DEF Placed, StepsOf
  <2>2. r.step \in {"get", "deleteProfile", "deleteContent"} =>
          GetProfile(q) \/ DeleteProfile(q) \/ DeleteContent(q)
    BY DEF Handle, ProfileExists, CreateConfigMap, CreateProfile, Rollback, UpdateProfile,
           GetContent, UpdateContent, At
  <2>. QED
    BY <1>5, <1>6, <1>7, <1>8, <2>1, <2>2

LEMMA LastHolds == Spec => []LastInv
<1>1. Init => LastInv
  BY DEF Init, LastInv
<1>2. TypesInv /\ LastInv /\ [Next]_vars => LastInv'
  <2>. SUFFICES ASSUME TypesInv, LastInv, [Next]_vars PROVE LastInv'
    OBVIOUS
  <2>0. version \in Nat /\ \A q \in Requests : requests[q] # None =>
                             requests[q].read \in Nat /\ requests[q].id \in Ids
    BY DEF TypesInv, TypeOK, Request
  <2>1. CASE UNCHANGED <<profileObjects, requests, version>>
    BY <2>1 DEF LastInv, Gone
  <2>2. CASE \E q \in Requests, i \in Ids : Comes(q, i)
    <3>1. PICK q \in Requests, i \in Ids : Comes(q, i)
      BY <2>2
    <3>2. PICK s \in Request : /\ s.step # "deleteContent" /\ s.read = 0 /\ s.took = {}
                               /\ requests' = [requests EXCEPT ![q] = s]
                               /\ UNCHANGED <<profileObjects, version>>
      BY <3>1, Received DEF JustCame, objects
    <3>3. requests'[q] = s /\ \A p \in Requests \ {q} : requests'[p] = requests[p]
      BY <3>2 DEF TypesInv, TypeOK
    <3>. QED
      BY <2>0, <3>2, <3>3 DEF LastInv, Gone
  <2>3. CASE \E q \in Requests : Handle(q)
    <3>1. PICK q \in Requests : Handle(q)
      BY <2>3
    <3>. USE DEF TypesInv
    <3>2. version <= version' /\ version' \in Nat
      BY <3>1, ObjectsHandled DEF ObjectsTypeOK
    <3>3. ASSUME NEW p \in Requests, p # q, requests'[p] # None
          PROVE  LET r == requests'[p] IN
                   /\ r.read <= version'
                   /\ r.op = "delete" /\ (r.step = "deleteContent" \/ r.took # {}) =>
                        GoneAfter(r.id, r.read)
      <4>. DEFINE r == requests[p]
      <4>1. requests'[p] = r /\ r # None
        BY <3>1, <3>3, OthersLeftAlone
      <4>2. /\ r.read <= version /\ r.read \in Nat /\ r.id \in Ids
            /\ r.op = "delete" /\ (r.step = "deleteContent" \/ r.took # {}) => Gone(r.id, r.read)
        BY <2>0, <4>1 DEF LastInv
      <4>3. Gone(r.id, r.read) => GoneAfter(r.id, r.read)
        BY <3>1, <4>2, GoneForGood
      <4>. HIDE DEF r
      <4>. QED
        BY <2>0, <3>2, <4>1, <4>2, <4>3
    <3>4. LET s == requests'[q] IN
            /\ s.read <= version'
            /\ s.op = "delete" /\ (s.step = "deleteContent" \/ s.took # {}) => GoneAfter(s.id, s.read)
      <4>. DEFINE r == requests[q]
                  s == requests'[q]
      <4>1. /\ r # None /\ s.op = r.op /\ s.id = r.id /\ s.read \in Nat
        BY <3>1, OthersLeftAlone DEF SameRequest, Request
      <4>2. /\ r.read <= version /\ r.read \in Nat /\ r.id \in Ids
            /\ r.op = "delete" /\ r.step = "deleteContent" => Gone(r.id, r.read)
        BY <2>0, <4>1 DEF LastInv
      <4>3. /\ s.read = r.read \/ s.read <= version
            /\ r.op = "delete" /\ (s.step = "deleteContent" \/ s.took # {}) =>
                 /\ s.read = r.read
                 /\ \/ r.step = "deleteContent"
                    \/ r.step = "deleteProfile" /\ GoneAfter(r.id, r.read)
        BY <3>1, ReadsHandled
      <4>4. Gone(r.id, r.read) => GoneAfter(r.id, r.read)
        BY <3>1, <4>2, GoneForGood
      <4>5. /\ s.read <= version'
            /\ s.op = "delete" /\ (s.step = "deleteContent" \/ s.took # {}) => GoneAfter(s.id, s.read)
        <5>. HIDE DEF r, s
        <5>. QED
          BY <2>0, <3>2, <4>1, <4>2, <4>3, <4>4
      <4>. QED
        BY <4>5
    <3>. QED
      BY <3>3, <3>4 DEF LastInv, Gone, GoneAfter
  <2>4. CASE \E i \in Ids : Finalized(i)
    BY <2>4 DEF Finalized, LastInv, Gone, TypesInv, TypeOK
  <2>5. CASE \E i \in Ids : Informed(i)
    BY <2>1, <2>5 DEF Informed, objects
  <2>6. CASE UNCHANGED vars
    BY <2>1, <2>6 DEF vars
  <2>. QED
    BY <2>2, <2>3, <2>4, <2>5, <2>6 DEF Next, Comes
<1>. QED
  BY <1>1, <1>2, TypesHold, PTL DEF Spec

\* Whichever call fails, and whatever is written meanwhile, a DELETE has removed no content
\* while the profile it read is there to stay.
THEOREM ProfileGoesFirst == Spec => []ContentGoesLast
<1>1. TypesInv /\ LastInv => ContentGoesLast
  BY DEF TypesInv, TypeOK, PlacedInv, Placed, LastInv, ContentGoesLast, Gone
<1>. QED
  BY <1>1, TypesHold, LastHolds, PTL

-----------------------------------------------------------------------------
(* The requests implement the store                                        *)

\* A profile that is written, or left alone, as the store sees it.
LEMMA ProfileSeenWritten ==
  ASSUME TypeOK, NEW i \in Ids
  PROVE  /\ profileObjects[i] = None <=> ProfilesSeen[i] = None
         /\ profileObjects[i] # None =>
              /\ profileObjects[i] \in Profile
              /\ ProfilesSeen[i] =
                   [refs |-> profileObjects[i].refs, deleting |-> profileObjects[i].deleting]
         /\ \A object \in Profile :
              profileObjects' = [profileObjects EXCEPT ![i] = object] =>
                ProfilesSeen' = [ProfilesSeen EXCEPT ![i] =
                                   [refs |-> object.refs, deleting |-> object.deleting]]
         /\ profileObjects' = [profileObjects EXCEPT ![i] = None] =>
              ProfilesSeen' = [ProfilesSeen EXCEPT ![i] = None]
<1>1. \A object \in Profile :
        object # None /\ [refs |-> object.refs, deleting |-> object.deleting] # None
  BY WriteConstants DEF Profile
<1>2. profileObjects \in [Ids -> Profile \cup {None}]
  BY DEF TypeOK
<1>3. ASSUME NEW object \in Profile, profileObjects' = [profileObjects EXCEPT ![i] = object]
      PROVE  ProfilesSeen' = [ProfilesSeen EXCEPT ![i] =
                                [refs |-> object.refs, deleting |-> object.deleting]]
  BY <1>1, <1>2, <1>3 DEF ProfilesSeen, ProfileSeen
<1>4. ASSUME profileObjects' = [profileObjects EXCEPT ![i] = None]
      PROVE  ProfilesSeen' = [ProfilesSeen EXCEPT ![i] = None]
  BY <1>2, <1>4 DEF ProfilesSeen, ProfileSeen
<1>5. /\ profileObjects[i] = None <=> ProfilesSeen[i] = None
      /\ profileObjects[i] # None =>
           /\ profileObjects[i] \in Profile
           /\ ProfilesSeen[i] =
                [refs |-> profileObjects[i].refs, deleting |-> profileObjects[i].deleting]
  BY <1>1, <1>2 DEF ProfilesSeen, ProfileSeen
<1>. QED
  BY <1>3, <1>4, <1>5

\* What the store sees of a request is a record of its own: no client is None.
LEMMA ClientIsSeen ==
  ASSUME NEW r \in Request, Placed(r)
  PROVE  /\ r # None /\ ClientSeen(r) # None
         /\ ClientSeen(r) = [op |-> r.op, id |-> r.id,
                             refs |-> IF r.op = "delete" THEN {} ELSE r.refs,
                             outcome |-> OutcomeOf(r)]
<1>1. r # None
  BY WriteConstants
<1>2. OutcomeOf(r) \in {"pending", "applied"} \cup Answers
  <2>1. r.step \in {"done", "rollback"} => r.answer \in Answers
    BY DEF Placed, Request, Answers, CreateErrors, CreateRefusals, Refusals
  <2>. QED
    BY <2>1 DEF OutcomeOf
<1>3. ClientSeen(r) = [op |-> r.op, id |-> r.id,
                       refs |-> IF r.op = "delete" THEN {} ELSE r.refs,
                       outcome |-> OutcomeOf(r)]
  BY <1>1 DEF ClientSeen
<1>4. r.op \in {"create", "update", "delete"} /\ r.id \in Ids /\ r.refs \in SUBSET Contents
  BY DEF Request
<1>5. ClientSeen(r) # None
  BY <1>2, <1>3, <1>4, WriteConstants
<1>. QED
  BY <1>1, <1>3, <1>5

\* A handler's step shows as the outcome it leaves, and as nothing when it leaves the same.
LEMMA OutcomeSeen ==
  ASSUME TypeOK, PlacedInv, NEW q \in Requests, Handle(q),
         requests[q].op # "delete" => requests'[q].refs = requests[q].refs
  PROVE  LET r == requests[q]
             s == requests'[q]
         IN /\ ClientsSeen[q] # None
            /\ ClientsSeen[q].op = r.op /\ ClientsSeen[q].id = r.id
            /\ ClientsSeen[q].outcome = OutcomeOf(r)
            /\ r.op # "delete" => ClientsSeen[q].refs = r.refs
            /\ \A outcomes : OutcomeOf(s) \in outcomes => Store!Outcome(q, outcomes)
            /\ OutcomeOf(s) = OutcomeOf(r) => ClientsSeen' = ClientsSeen
<1>. DEFINE r == requests[q]
            s == requests'[q]
<1>1. /\ r \in Request /\ Placed(r) /\ s \in Request /\ Placed(s) /\ SameRequest(r, s)
      /\ \A p \in Requests \ {q} : requests'[p] = requests[p]
  BY OthersLeftAlone
<1>2. /\ ClientSeen(r) # None
      /\ ClientSeen(r) = [op |-> r.op, id |-> r.id,
                          refs |-> IF r.op = "delete" THEN {} ELSE r.refs,
                          outcome |-> OutcomeOf(r)]
  BY <1>1, ClientIsSeen
<1>3. ClientSeen(s) = [op |-> s.op, id |-> s.id,
                       refs |-> IF s.op = "delete" THEN {} ELSE s.refs,
                       outcome |-> OutcomeOf(s)]
  BY <1>1, ClientIsSeen
<1>4. ClientSeen(s) = [ClientSeen(r) EXCEPT !.outcome = OutcomeOf(s)]
  <2>1. s.op = r.op /\ s.id = r.id
    BY <1>1 DEF SameRequest
  <2>. HIDE DEF s, r
  <2>. QED
    BY <1>2, <1>3, <2>1 DEF r, s
<1>5. ClientsSeen[q] = ClientSeen(r)
  BY DEF ClientsSeen
<1>6. ClientsSeen' = [ClientsSeen EXCEPT ![q] = ClientSeen(s)]
  <2>1. ClientsSeen' = [p \in Requests |-> ClientSeen(requests'[p])]
    BY DEF ClientsSeen, ClientSeen, OutcomeOf
  <2>. QED
    BY <1>1, <2>1 DEF ClientsSeen
<1>7. ASSUME NEW outcomes, OutcomeOf(s) \in outcomes
      PROVE  Store!Outcome(q, outcomes)
  BY <1>4, <1>5, <1>6, <1>7 DEF Store!Outcome
<1>8. OutcomeOf(s) = OutcomeOf(r) => ClientsSeen' = ClientsSeen
  <2>1. ASSUME OutcomeOf(s) = OutcomeOf(r) PROVE ClientSeen(s) = ClientSeen(r)
    BY <1>2, <1>4, <2>1
  <2>. QED
    BY <1>5, <1>6, <2>1 DEF ClientsSeen
<1>. QED
  BY <1>2, <1>5, <1>7, <1>8

\* A profile with a new spec, and one that is marked.
LEMMA SpecChanged ==
  ASSUME NEW o \in Profile, NEW refs \in SUBSET Contents, NEW v \in Nat
  PROVE  /\ [o EXCEPT !.refs = refs, !.version = v] \in Profile
         /\ [o EXCEPT !.refs = refs, !.version = v].refs = refs
         /\ [o EXCEPT !.refs = refs, !.version = v].deleting = o.deleting
  BY DEF Profile

LEMMA Marked ==
  ASSUME NEW o \in Profile, NEW v \in Nat
  PROVE  /\ [o EXCEPT !.deleting = TRUE, !.version = v] \in Profile
         /\ [o EXCEPT !.deleting = TRUE, !.version = v].refs = o.refs
         /\ [o EXCEPT !.deleting = TRUE, !.version = v].deleting = TRUE
<1>1. [o EXCEPT !.deleting = TRUE, !.version = v] \in Profile
  BY DEF Profile
<1>2. [o EXCEPT !.deleting = TRUE, !.version = v].refs = o.refs
  BY DEF Profile
<1>3. [o EXCEPT !.deleting = TRUE, !.version = v].deleting = TRUE
  BY <1>1 DEF Profile
<1>. QED
  BY <1>1, <1>2, <1>3

LEMMA MarkedRecord ==
  ASSUME NEW refs, NEW deleting, NEW mark
  PROVE  [[refs |-> refs, deleting |-> deleting] EXCEPT !.deleting = mark]
           = [refs |-> refs, deleting |-> mark]
OBVIOUS

\* Every call of a handler is a step of the store, or none that the store sees.
LEMMA StoreHandled ==
  ASSUME TypeOK, PlacedInv, NEW q \in Requests, Handle(q)
  PROVE  Store!Next \/ UNCHANGED Store!vars
<1>. DEFINE r == requests[q]
            s == requests'[q]
            Kept == r.op # "delete" => s.refs = r.refs
            Result == Store!Next \/ UNCHANGED Store!vars
<1>. SUFFICES Result
  OBVIOUS
<1>1. /\ r \in Request /\ Placed(r) /\ s \in Request /\ SameRequest(r, s)
      /\ r.id \in Ids /\ r.op \in {"create", "update", "delete"}
      /\ requests \in [Requests -> Request \cup {None}]
  BY OthersLeftAlone DEF Request, TypeOK
<1>2. ASSUME NEW changed, Continue(q, changed) PROVE s = changed
  BY <1>1, <1>2 DEF Continue
<1>3. ASSUME NEW answer, Return(q, answer)
      PROVE  Kept /\ OutcomeOf(s) = answer
  <2>1. s.step = "done" /\ s.answer = answer /\ s.refs = r.refs
    BY <1>1, <1>2, <1>3 DEF Return, Request
  <2>. QED
    BY <2>1 DEF OutcomeOf
<1>4. ASSUME NEW step, GoTo(q, step)
      PROVE  Kept /\ s.step = step /\ s.answer = r.answer
  BY <1>1, <1>2, <1>4 DEF GoTo, Request
<1>5. ASSUME NEW took, NEW todo, NextContent(q, [r EXCEPT !.took = took], todo)
      PROVE  /\ Kept
             /\ OutcomeOf(s) = IF todo # {} THEN "applied"
                               ELSE IF r.op = "update" THEN "ok" ELSE "noContent"
  <2>1. /\ s.refs = r.refs
        /\ todo = {} => s.step = "done" /\ s.answer = IF r.op = "update" THEN "ok" ELSE "noContent"
        /\ todo # {} => s.step \in {"getContent", "deleteContent"}
    <3>. DEFINE t == [r EXCEPT !.took = took]
                answer == IF r.op = "update" THEN "ok" ELSE "noContent"
                step == IF r.op = "update" THEN "getContent" ELSE "deleteContent"
                changed == [t EXCEPT !.todo = todo,
                              !.step = IF todo = {} THEN "done" ELSE step,
                              !.answer = IF todo = {} THEN answer ELSE @]
    <3>1. t.op = r.op
      BY <1>1 DEF Request
    <3>2. s = changed
      BY <1>2, <1>5, <3>1 DEF NextContent
    <3>3. /\ changed.refs = r.refs
          /\ changed.step = IF todo = {} THEN "done" ELSE step
          /\ changed.answer = IF todo = {} THEN answer ELSE r.answer
      <4>. HIDE DEF answer, step
      <4>. QED
        BY <1>1 DEF Request
    <3>. QED
      BY <3>2, <3>3
  <2>. QED
    BY <2>1 DEF OutcomeOf
<1>6. \A todo : NextContent(q, r, todo) => NextContent(q, [r EXCEPT !.took = r.took], todo)
  <2>1. r = [r EXCEPT !.took = r.took]
    BY <1>1 DEF Request
  <2>. QED
    BY <2>1
<1>7. ASSUME NEW answer, CreateFailed(q, answer)
      PROVE  Kept /\ OutcomeOf(s) = answer
  <2>1. CASE Return(q, answer)
    BY <1>3, <2>1
  <2>2. CASE Continue(q, [r EXCEPT !.step = "rollback", !.answer = answer])
    <3>1. s.step = "rollback" /\ s.answer = answer /\ s.refs = r.refs
      BY <1>1, <1>2, <2>2 DEF Request
    <3>. QED
      BY <3>1 DEF OutcomeOf
  <2>. QED
    BY <1>7, <2>1, <2>2 DEF CreateFailed
<1>8. ASSUME Kept
      PROVE  /\ ClientsSeen[q] # None
             /\ ClientsSeen[q].op = r.op /\ ClientsSeen[q].id = r.id
             /\ ClientsSeen[q].outcome = OutcomeOf(r)
             /\ r.op # "delete" => ClientsSeen[q].refs = r.refs
             /\ \A outcomes : OutcomeOf(s) \in outcomes => Store!Outcome(q, outcomes)
             /\ OutcomeOf(s) = OutcomeOf(r) => ClientsSeen' = ClientsSeen
  BY <1>8, OutcomeSeen
<1>9. UNCHANGED profileObjects => UNCHANGED ProfilesSeen
  BY DEF ProfilesSeen
<1>10. ASSUME Kept, UNCHANGED profileObjects, OutcomeOf(s) = OutcomeOf(r)
       PROVE  Result
  BY <1>8, <1>9, <1>10 DEF Store!vars
<1>. DEFINE object == profileObjects[r.id]
            seen == ProfilesSeen[r.id]
<1>11. /\ object = None <=> seen = None
       /\ object # None =>
            object \in Profile /\ seen = [refs |-> object.refs, deleting |-> object.deleting]
       /\ \A o \in Profile :
            profileObjects' = [profileObjects EXCEPT ![r.id] = o] =>
              ProfilesSeen' = [ProfilesSeen EXCEPT ![r.id] =
                                 [refs |-> o.refs, deleting |-> o.deleting]]
  BY <1>1, ProfileSeenWritten
<1>12. version \in Nat /\ r.refs \in SUBSET Contents
  BY <1>1 DEF TypeOK, Request
<1>14. version + 1 \in Nat
  BY <1>12
<1>16. \A refs, deleting :
         [[refs |-> refs, deleting |-> deleting] EXCEPT !.deleting = TRUE]
           = [refs |-> refs, deleting |-> TRUE]
  BY MarkedRecord
<1>17. ASSUME Refused(q) PROVE Kept /\ OutcomeOf(s) \in {"forbidden", "error"}
  BY <1>3, <1>17 DEF Refused, Refusals
<1>13. \/ Store!Create(q) \/ Store!Update(q) \/ Store!FinishUpdate(q)
       \/ Store!Delete(q) \/ Store!FinishDelete(q)
       => Result
  BY DEF Store!Next
<1>. HIDE DEF Result
<1>20. CASE ProfileExists(q)
  <2>1. r.step = "exists" /\ r.op = "create" /\ OutcomeOf(r) = "pending"
    BY <1>1, <1>20 DEF ProfileExists, At, Placed, StepsOf, OutcomeOf
  <2>2. UNCHANGED profileObjects
    BY <1>20 DEF ProfileExists, objects
  <2>3. CASE Return(q, "conflict") \/ Return(q, "error")
    <3>1. Store!Create(q)
      BY <1>3, <1>8, <1>9, <2>1, <2>2, <2>3 DEF Store!Create, Store!Pending, Store!Is
    <3>. QED
      BY <1>13, <3>1
  <2>4. CASE GoTo(q, "configMap") \/ GoTo(q, "createProfile")
    <3>1. Kept /\ s.step \in {"configMap", "createProfile"}
      BY <1>4, <2>4
    <3>. QED
      BY <1>10, <2>1, <2>2, <3>1 DEF OutcomeOf
  <2>. QED
    BY <1>20, <2>3, <2>4 DEF ProfileExists
<1>21. CASE CreateConfigMap(q)
  <2>1. r.step = "configMap" /\ r.op = "create" /\ OutcomeOf(r) = "pending"
    BY <1>1, <1>21 DEF CreateConfigMap, At, Placed, StepsOf, OutcomeOf
  <2>2. UNCHANGED profileObjects
    BY <1>21 DEF CreateConfigMap, objects, WriteContent
  <2>3. CASE GoTo(q, "createProfile")
    <3>1. Kept /\ s.step = "createProfile"
      BY <1>4, <2>3
    <3>. QED
      BY <1>10, <2>1, <2>2, <3>1 DEF OutcomeOf
  <2>4. CASE \/ \E answer \in CreateRefusals : Return(q, answer)
             \/ Continue(q, [r EXCEPT !.step = "done", !.answer = "error", !.unsure = TRUE])
    <3>1. Kept /\ OutcomeOf(s) \in {"error", "forbidden", "notFound"}
      <4>1. CASE \E answer \in CreateRefusals : Return(q, answer)
        BY <1>3, <4>1 DEF CreateRefusals, Refusals
      <4>2. CASE Continue(q, [r EXCEPT !.step = "done", !.answer = "error", !.unsure = TRUE])
        <5>1. s.step = "done" /\ s.answer = "error" /\ s.refs = r.refs
          BY <1>1, <1>2, <4>2 DEF Request
        <5>. QED
          BY <5>1 DEF OutcomeOf
      <4>. QED
        BY <2>4, <4>1, <4>2
    <3>2. Store!Create(q)
      BY <1>8, <1>9, <2>1, <2>2, <3>1 DEF Store!Create, Store!Pending, Store!Is
    <3>. QED
      BY <1>13, <3>2
  <2>. QED
    BY <1>21, <2>3, <2>4 DEF CreateConfigMap, CreateRefusals, Refusals
<1>22. CASE CreateProfile(q)
  <2>1. r.step = "createProfile" /\ r.op = "create" /\ OutcomeOf(r) = "pending"
    BY <1>1, <1>22 DEF CreateProfile, At, Placed, StepsOf, OutcomeOf
  <2>2. Kept /\ OutcomeOf(s) \in {"created"} \cup CreateErrors
    BY <1>3, <1>7, <1>22 DEF CreateProfile, CreateErrors, CreateRefusals, Refusals
  <2>3. Store!Pending(q, "create")
    BY <1>8, <2>1, <2>2 DEF Store!Pending, Store!Is
  <2>4. CASE /\ object = None
             /\ WriteProfile(r.id, [refs |-> r.refs, born |-> version + 1,
                                    version |-> version + 1, deleting |-> FALSE])
             /\ Return(q, "created") \/ CreateFailed(q, "error")
    <3>. DEFINE o == [refs |-> r.refs, born |-> version + 1,
                      version |-> version + 1, deleting |-> FALSE]
    <3>1. OutcomeOf(s) \in {"created", "error"}
      BY <1>3, <1>7, <2>4
    <3>2. o \in Profile /\ profileObjects' = [profileObjects EXCEPT ![r.id] = o]
      BY <1>12, <2>4 DEF WriteProfile, Profile
    <3>3. ProfilesSeen' = [ProfilesSeen EXCEPT ![r.id] = [refs |-> r.refs, deleting |-> FALSE]]
      BY <1>11, <3>2
    <3>4. Store!Create(q)
      BY <1>8, <1>11, <2>1, <2>2, <2>3, <2>4, <3>1, <3>3
      DEF Store!Create, Store!SetProfile, Store!ProfileOf
    <3>. QED
      BY <1>13, <3>4
  <2>5. CASE UNCHANGED profileObjects /\ \E answer \in CreateErrors : CreateFailed(q, answer)
    <3>1. OutcomeOf(s) \in {"conflict", "forbidden", "notFound", "error"}
      BY <1>7, <2>5 DEF CreateErrors, CreateRefusals, Refusals
    <3>2. Store!Create(q)
      BY <1>8, <1>9, <2>2, <2>3, <2>5, <3>1 DEF Store!Create
    <3>. QED
      BY <1>13, <3>2
  <2>. QED
    BY <1>22, <2>4, <2>5 DEF CreateProfile, CreateErrors, objects
<1>23. CASE Rollback(q)
  <2>1. r.step = "rollback" /\ OutcomeOf(r) = r.answer
    BY <1>23 DEF Rollback, At, OutcomeOf
  <2>2. UNCHANGED profileObjects
    BY <1>23 DEF Rollback, objects, WriteContent
  <2>3. Kept /\ s.step = "done" /\ s.answer = r.answer
    <3>1. CASE GoTo(q, "done")
      BY <1>4, <3>1
    <3>2. CASE Continue(q, [r EXCEPT !.step = "done", !.unsure = TRUE])
      BY <1>1, <1>2, <3>2 DEF Request
    <3>. QED
      BY <1>23, <3>1, <3>2 DEF Rollback
  <2>. QED
    BY <1>10, <2>1, <2>2, <2>3 DEF OutcomeOf
<1>24. CASE GetProfile(q)
  <2>1. r.step = "get" /\ r.op \in {"update", "delete"} /\ OutcomeOf(r) = "pending"
    BY <1>1, <1>24 DEF GetProfile, At, Placed, StepsOf, OutcomeOf
  <2>2. UNCHANGED profileObjects
    BY <1>24 DEF GetProfile, objects
  <2>3. CASE object = None /\ Return(q, IF r.op = "update" THEN "notFound" ELSE "noContent")
    <3>1. Kept /\ OutcomeOf(s) = (IF r.op = "update" THEN "notFound" ELSE "noContent")
      BY <1>3, <2>3
    <3>2. CASE r.op = "update"
      <4>1. Store!Update(q)
        BY <1>8, <1>9, <1>11, <2>1, <2>2, <2>3, <3>1, <3>2
        DEF Store!Update, Store!Pending, Store!Is, Store!ProfileOf
      <4>. QED
        BY <1>13, <4>1
    <3>3. CASE r.op = "delete"
      <4>1. Store!Delete(q)
        BY <1>8, <1>9, <1>11, <2>1, <2>2, <2>3, <3>1, <3>3
        DEF Store!Delete, Store!Pending, Store!Is, Store!ProfileOf
      <4>. QED
        BY <1>13, <4>1
    <3>. QED
      BY <2>1, <3>2, <3>3
  <2>4. CASE Refused(q)
    <3>1. Kept /\ OutcomeOf(s) \in {"forbidden", "error"}
      BY <1>17, <2>4
    <3>2. Store!Update(q) \/ Store!Delete(q)
      BY <1>8, <1>9, <2>1, <2>2, <3>1 DEF Store!Update, Store!Delete, Store!Pending, Store!Is
    <3>. QED
      BY <1>13, <3>2
  <2>5. ASSUME NEW step \in {"updateProfile", "deleteProfile"},
               Continue(q, [r EXCEPT !.read = object.version, !.step = step,
                              !.refs = IF r.op = "update" THEN @ ELSE object.refs])
        PROVE  Result
    <3>1. s.step = step /\ (r.op = "update" => s.refs = r.refs)
      <4>. HIDE DEF object
      <4>. QED
        BY <1>1, <1>2, <2>5 DEF Request
    <3>2. Kept /\ OutcomeOf(s) = "pending"
      BY <2>1, <2>5, <3>1 DEF OutcomeOf
    <3>. QED
      BY <1>10, <2>1, <2>2, <3>2
  <2>. QED
    BY <1>24, <2>3, <2>4, <2>5 DEF GetProfile
<1>25. CASE UpdateProfile(q)
  <2>1. r.step = "updateProfile" /\ r.op = "update" /\ OutcomeOf(r) = "pending"
    BY <1>1, <1>25 DEF UpdateProfile, At, Placed, StepsOf, OutcomeOf
  <2>. DEFINE o == [object EXCEPT !.refs = r.refs, !.version = version + 1]
  <2>2. CASE /\ object # None
             /\ WriteProfile(r.id, o)
             /\ NextContent(q, r, r.todo) \/ Return(q, "error")
    <3>1. Kept /\ OutcomeOf(s) \in {"applied", "ok", "error"}
      BY <1>3, <1>5, <1>6, <2>1, <2>2
    <3>2. Store!Pending(q, "update") /\ Store!Outcome(q, {"applied", "ok", "error"})
      BY <1>8, <2>1, <3>1 DEF Store!Pending, Store!Is
    <3>3. /\ object \in Profile
          /\ seen = [refs |-> object.refs, deleting |-> object.deleting] /\ seen # None
      BY <1>11, <2>2
    <3>4. o \in Profile /\ o.refs = r.refs /\ o.deleting = object.deleting
      <4>1. o \in Profile
        BY <1>12, <1>14, <3>3, SpecChanged
      <4>2. o.refs = r.refs /\ o.deleting = object.deleting
        <5>1. object \in Profile
          BY <3>3
        <5>. HIDE DEF object, r
        <5>. QED
          BY <5>1 DEF Profile
      <4>. QED
        BY <4>1, <4>2
    <3>5. ProfilesSeen' = [ProfilesSeen EXCEPT ![r.id] = [seen EXCEPT !.refs = r.refs]]
      <4>1. profileObjects' = [profileObjects EXCEPT ![r.id] = o]
        BY <2>2 DEF WriteProfile
      <4>2. ProfilesSeen' = [ProfilesSeen EXCEPT ![r.id] =
                               [refs |-> o.refs, deleting |-> o.deleting]]
        BY <1>11, <3>4, <4>1
      <4>3. [seen EXCEPT !.refs = r.refs] = [refs |-> r.refs, deleting |-> object.deleting]
        <5>. HIDE DEF object, seen
        <5>. QED
          BY <3>3
      <4>. QED
        BY <3>4, <4>2, <4>3
    <3>6. ClientsSeen[q].id = r.id /\ ClientsSeen[q].refs = r.refs
      BY <1>8, <2>1, <3>1
    <3>7. Store!Update(q)
      BY <3>2, <3>3, <3>5, <3>6 DEF Store!Update, Store!SetProfile, Store!ProfileOf
    <3>. QED
      BY <1>13, <3>7
  <2>3. CASE UNCHANGED profileObjects /\ object = None /\ Return(q, "notFound")
    <3>1. Kept /\ OutcomeOf(s) = "notFound"
      BY <1>3, <2>3
    <3>2. Store!Update(q)
      BY <1>8, <1>9, <1>11, <2>1, <2>3, <3>1 DEF Store!Update, Store!Pending, Store!Is, Store!ProfileOf
    <3>. QED
      BY <1>13, <3>2
  <2>4. CASE UNCHANGED profileObjects /\ (Return(q, "error") \/ Refused(q))
    <3>1. Kept /\ OutcomeOf(s) \in {"forbidden", "error"}
      BY <1>3, <1>17, <2>4
    <3>2. Store!Update(q)
      BY <1>8, <1>9, <2>1, <2>4, <3>1 DEF Store!Update, Store!Pending, Store!Is
    <3>. QED
      BY <1>13, <3>2
  <2>. QED
    BY <1>25, <2>2, <2>3, <2>4 DEF UpdateProfile, objects
<1>26. CASE GetContent(q)
  <2>1. r.step = "getContent" /\ r.op = "update" /\ OutcomeOf(r) = "applied"
    BY <1>1, <1>26 DEF GetContent, At, Placed, StepsOf, OutcomeOf
  <2>2. UNCHANGED profileObjects
    BY <1>26 DEF GetContent, objects
  <2>3. CASE Return(q, "notFound") \/ Refused(q)
    <3>1. Kept /\ OutcomeOf(s) \in {"ok", "notFound", "forbidden", "error"}
      BY <1>3, <1>17, <2>3
    <3>2. Store!FinishUpdate(q)
      BY <1>8, <1>9, <2>1, <2>2, <3>1 DEF Store!FinishUpdate, Store!Applied, Store!Is
    <3>. QED
      BY <1>13, <3>2
  <2>4. ASSUME NEW c, Continue(q, [r EXCEPT !.content = c, !.read = contentObjects[c].version,
                                            !.step = "updateContent"])
        PROVE  Result
    <3>1. Kept /\ s.step = "updateContent"
      BY <1>1, <1>2, <2>4 DEF Request
    <3>2. OutcomeOf(s) = "applied"
      BY <3>1 DEF OutcomeOf
    <3>. QED
      BY <1>10, <2>1, <2>2, <3>1, <3>2
  <2>. QED
    BY <1>26, <2>3, <2>4 DEF GetContent
<1>27. CASE UpdateContent(q)
  <2>1. r.step = "updateContent" /\ r.op = "update" /\ OutcomeOf(r) = "applied"
    BY <1>1, <1>27 DEF UpdateContent, At, Placed, StepsOf, OutcomeOf
  <2>2. UNCHANGED profileObjects
    BY <1>27 DEF UpdateContent, objects, WriteContent
  <2>3. Kept /\ OutcomeOf(s) \in {"applied", "ok", "notFound", "forbidden", "error"}
    <3>1. \/ NextContent(q, r, r.todo \ {r.content})
          \/ Return(q, "error")
          \/ Return(q, "notFound")
          \/ Refused(q)
      BY <1>27 DEF UpdateContent
    <3>. QED
      BY <1>3, <1>5, <1>6, <1>17, <2>1, <3>1
  <2>4. OutcomeOf(s) # "applied" => Store!FinishUpdate(q)
    BY <1>8, <1>9, <2>1, <2>2, <2>3 DEF Store!FinishUpdate, Store!Applied, Store!Is
  <2>. QED
    BY <1>10, <1>13, <2>1, <2>2, <2>3, <2>4
<1>28. CASE DeleteProfile(q)
  <2>1. r.step = "deleteProfile" /\ r.op = "delete" /\ OutcomeOf(r) = "pending"
    BY <1>1, <1>28 DEF DeleteProfile, At, Placed, StepsOf, OutcomeOf
  <2>2. CASE /\ object # None
             /\ MarkDeleted(r.id)
             /\ (\E todo : NextContent(q, r, todo)) \/ Return(q, "error")
    <3>1. Kept /\ OutcomeOf(s) \in {"applied", "noContent", "error"}
      BY <1>3, <1>5, <1>6, <2>1, <2>2
    <3>2. /\ Store!Pending(q, "delete") /\ Store!Outcome(q, {"applied", "noContent", "error"})
          /\ ClientsSeen[q].id = r.id
      BY <1>8, <2>1, <3>1 DEF Store!Pending, Store!Is
    <3>3. /\ object \in Profile
          /\ seen = [refs |-> object.refs, deleting |-> object.deleting] /\ seen # None
      BY <1>11, <2>2
    <3>4. ProfilesSeen' = [ProfilesSeen EXCEPT ![r.id] = [seen EXCEPT !.deleting = TRUE]]
      <4>1. CASE object.deleting
        <5>1. UNCHANGED ProfilesSeen
          BY <1>9, <2>2, <4>1 DEF MarkDeleted, objects
        <5>2. [seen EXCEPT !.deleting = TRUE] = seen
          <6>1. object.deleting = TRUE
            BY <3>3, <4>1 DEF Profile
          <6>. HIDE DEF object, seen
          <6>. QED
            BY <1>16, <3>3, <6>1
        <5>3. ProfilesSeen = [ProfilesSeen EXCEPT ![r.id] = seen]
          BY <1>1 DEF ProfilesSeen
        <5>. QED
          BY <5>1, <5>2, <5>3
      <4>2. CASE ~object.deleting
        <5>. DEFINE o == [object EXCEPT !.deleting = TRUE, !.version = version + 1]
        <5>1. profileObjects' = [profileObjects EXCEPT ![r.id] = o]
          BY <2>2, <4>2 DEF MarkDeleted, WriteProfile
        <5>2. o \in Profile /\ o.refs = object.refs /\ o.deleting = TRUE
          BY <1>14, <3>3, Marked
        <5>3. ProfilesSeen' = [ProfilesSeen EXCEPT ![r.id] =
                                 [refs |-> o.refs, deleting |-> o.deleting]]
          BY <1>11, <5>1, <5>2
        <5>4. [seen EXCEPT !.deleting = TRUE] = [refs |-> object.refs, deleting |-> TRUE]
          BY <1>16, <3>3
        <5>. QED
          BY <5>2, <5>3, <5>4
      <4>. QED
        BY <4>1, <4>2
    <3>5. Store!Delete(q)
      BY <3>2, <3>3, <3>4 DEF Store!Delete, Store!SetProfile, Store!ProfileOf
    <3>. QED
      BY <1>13, <3>5
  <2>3. CASE UNCHANGED profileObjects /\ object = None /\ \E todo : NextContent(q, r, todo)
    <3>1. Kept /\ OutcomeOf(s) \in {"applied", "noContent"}
      BY <1>5, <1>6, <2>1, <2>3
    <3>2. Store!Delete(q)
      BY <1>8, <1>9, <1>11, <2>1, <2>3, <3>1 DEF Store!Delete, Store!Pending, Store!Is, Store!ProfileOf
    <3>. QED
      BY <1>13, <3>2
  <2>4. CASE UNCHANGED profileObjects /\ Refused(q)
    <3>1. Kept /\ OutcomeOf(s) \in {"forbidden", "error"}
      BY <1>17, <2>4
    <3>2. Store!Delete(q)
      BY <1>8, <1>9, <2>1, <2>4, <3>1 DEF Store!Delete, Store!Pending, Store!Is
    <3>. QED
      BY <1>13, <3>2
  <2>. QED
    BY <1>28, <2>2, <2>3, <2>4 DEF DeleteProfile, objects
<1>29. CASE DeleteContent(q)
  <2>1. r.step = "deleteContent" /\ r.op = "delete" /\ OutcomeOf(r) = "applied"
    BY <1>1, <1>29 DEF DeleteContent, At, Placed, StepsOf, OutcomeOf
  <2>2. UNCHANGED profileObjects
    BY <1>29 DEF DeleteContent, objects, WriteContent
  <2>3. Kept /\ OutcomeOf(s) \in {"applied", "noContent", "forbidden", "error"}
    <3>1. \/ \E took, todo : NextContent(q, [r EXCEPT !.took = took], todo)
          \/ \E todo : NextContent(q, r, todo)
          \/ Return(q, "error")
          \/ Refused(q)
      BY <1>29 DEF DeleteContent
    <3>. QED
      BY <1>3, <1>5, <1>6, <1>17, <2>1, <3>1
  <2>4. OutcomeOf(s) # "applied" => Store!FinishDelete(q)
    BY <1>8, <1>9, <2>1, <2>2, <2>3 DEF Store!FinishDelete, Store!Applied, Store!Is
  <2>. QED
    BY <1>10, <1>13, <2>1, <2>2, <2>3, <2>4

<1>. QED
  BY <1>20, <1>21, <1>22, <1>23, <1>24, <1>25, <1>26, <1>27, <1>28, <1>29 DEF Handle

\* Whatever the number of requests, profiles, contents and failing calls, the handlers
\* implement the store: a profile is changed by one call of a request, and what the
\* client hears of it is true.
THEOREM Implementation == Spec => ImplementsStore
<1>1. Init => Store!Init
  BY DEF Init, Store!Init, ProfilesSeen, ProfileSeen, ClientsSeen, ClientSeen
<1>2. TypesInv /\ [Next]_vars => [Store!Next]_Store!vars
  <2>. SUFFICES ASSUME TypesInv, [Next]_vars PROVE Store!Next \/ UNCHANGED Store!vars
    OBVIOUS
  <2>1. TypeOK /\ PlacedInv
    BY DEF TypesInv
  <2>2. CASE \E q \in Requests, i \in Ids : Comes(q, i)
    <3>1. PICK q \in Requests, i \in Ids : Comes(q, i)
      BY <2>2
    <3>2. PICK r \in Request : /\ JustCame(r)
                               /\ requests[q] = None /\ requests' = [requests EXCEPT ![q] = r]
                               /\ UNCHANGED profileObjects
      BY <3>1, Received DEF objects
    <3>. DEFINE refs == IF r.op = "delete" THEN {} ELSE r.refs
    <3>3. /\ r.op \in {"create", "update", "delete"} /\ r.id \in Ids /\ refs \in SUBSET Contents
      BY DEF Request
    <3>4. /\ ClientSeen(r) = [op |-> r.op, id |-> r.id, refs |-> refs, outcome |-> OutcomeOf(r)]
          /\ OutcomeOf(r) \in {"pending", "invalid", "unauthorized"}
      BY <3>2, ClientIsSeen DEF OutcomeOf, JustCame
    <3>5. ClientsSeen[q] = None
      BY <3>2 DEF ClientsSeen, ClientSeen
    <3>6. ClientsSeen' = [ClientsSeen EXCEPT ![q] = ClientSeen(r)]
      <4>1. ClientsSeen' = [p \in Requests |-> ClientSeen(requests'[p])]
        BY DEF ClientsSeen, ClientSeen, OutcomeOf
      <4>2. \A p \in Requests : requests'[p] = IF p = q THEN r ELSE requests[p]
        BY <2>1, <3>2 DEF TypeOK
      <4>. QED
        BY <4>1, <4>2 DEF ClientsSeen
    <3>7. UNCHANGED ProfilesSeen
      BY <3>2 DEF ProfilesSeen
    <3>8. Store!Receive(q)
      <4>1. ClientsSeen'[q] = ClientSeen(r)
        BY <3>6 DEF ClientsSeen
      <4>2. ClientSeen(r) \in Store!Request
        <5>. HIDE DEF refs
        <5>. QED
          BY <3>3, <3>4 DEF Store!Request
      <4>. QED
        BY <3>5, <3>6, <3>7, <4>1, <4>2 DEF Store!Receive
    <3>. QED
      BY <3>8 DEF Store!Next
  <2>3. CASE \E q \in Requests : Handle(q)
    BY <2>1, <2>3, StoreHandled
  <2>4. CASE \E i \in Ids : Finalized(i)
    <3>1. PICK i \in Ids : Finalized(i)
      BY <2>4
    <3>2. /\ ProfilesSeen[i] # None /\ ProfilesSeen[i].deleting
          /\ ProfilesSeen' = [ProfilesSeen EXCEPT ![i] = None]
      <4>1. /\ profileObjects[i] # None /\ profileObjects[i].deleting
            /\ profileObjects' = [profileObjects EXCEPT ![i] = None]
        BY <3>1 DEF Finalized
      <4>2. /\ ProfilesSeen[i] # None
            /\ ProfilesSeen[i] =
                 [refs |-> profileObjects[i].refs, deleting |-> profileObjects[i].deleting]
        BY <2>1, <4>1, ProfileSeenWritten
      <4>3. ProfilesSeen' = [ProfilesSeen EXCEPT ![i] = None]
        BY <2>1, <4>1, ProfileSeenWritten
      <4>. QED
        BY <4>1, <4>2, <4>3
    <3>3. UNCHANGED ClientsSeen
      BY <3>1 DEF Finalized, ClientsSeen
    <3>4. Store!Finalize(i)
      BY <3>2, <3>3 DEF Store!Finalize
    <3>. QED
      BY <3>4 DEF Store!Next
  <2>5. CASE UNCHANGED <<profileObjects, requests>>
    BY <2>5 DEF Store!vars, ProfilesSeen, ClientsSeen
  <2>6. CASE \E i \in Ids : Informed(i)
    BY <2>5, <2>6 DEF Informed, objects
  <2>7. CASE UNCHANGED vars
    BY <2>5, <2>7 DEF vars
  <2>. QED
    BY <2>2, <2>3, <2>4, <2>6, <2>7 DEF Next, Comes
<1>. QED
  BY <1>1, <1>2, TypesHold, PTL DEF Spec, ImplementsStore, Store!Spec

=============================================================================
