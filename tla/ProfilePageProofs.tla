-------------------------- MODULE ProfilePageProofs --------------------------
(***************************************************************************)
(* ProfilePage for any clusters, profiles and number of changes: its       *)
(* types, who sees which cluster, how many reviews that takes, and what    *)
(* the summary counts.                                                     *)
(***************************************************************************)
EXTENDS ProfilePage, TLAPS, FiniteSetTheorems, SequenceTheorems

\* The sequences of clusters that a page goes through lose their first element.
LEMMA Shorter ==
  ASSUME NEW s \in Seq(Clusters), s # <<>>
  PROVE  /\ Head(s) \in Clusters /\ Tail(s) \in Seq(Clusters)
         /\ Head(s) = s[1] /\ Len(s) \in Nat /\ Len(s) >= 1 /\ Len(Tail(s)) = Len(s) - 1
         /\ \A i \in 1..Len(Tail(s)) : Tail(s)[i] = s[i + 1]
BY HeadTailProperties, EmptySeq, LenProperties

\* Every state of a row is one that a rollout has, or none.
LEMMA StateTyping ==
  ASSUME NEW p, NEW c, NEW entry
  PROVE  stateOf(p, c, entry) \in RolloutStates \cup {""}
BY DEF stateOf, RolloutStates

\* Such a state is not the absence of a row.
LEMMA StateIsSome ==
  ASSUME NEW p, NEW c, NEW entry
  PROVE  stateOf(p, c, entry) # None
BY PageConstants, StateTyping DEF RolloutStates

\* Changes stay within their bound.
LEMMA ChangesFit ==
  ASSUME changes \in 0..MaxChanges, Change
  PROVE  changes' \in 0..MaxChanges
<1>1. MaxChanges \in Nat
  BY PageConstants
<1>. QED
  BY <1>1 DEF Change

\* A page that adds a row has a cluster to add it for.
PageTyping ==
  /\ TypeOK
  /\ At("row") => request.todo # <<>>

\* What a page goes through has its type in each of its steps.
LEMMA PageTypes == Spec => []PageTyping
<1>1. Init => PageTyping
  <2>1. MaxChanges \in Nat
    BY PageConstants
  <2>2. 0 \in 0..MaxChanges
    BY <2>1
  <2>. QED
    BY <2>2 DEF Init, PageTyping, TypeOK, At
<1>2. PageTyping /\ [Next]_vars => PageTyping'
  <2>. SUFFICES ASSUME PageTyping, [Next]_vars PROVE PageTyping'
    OBVIOUS
  <2>. USE DEF PageTyping, TypeOK, At
  <2>1. ASSUME NEW new \in Profiles \cup {None}, ChangeProfile(new) PROVE PageTyping'
    BY <2>1, ChangesFit DEF ChangeProfile
  <2>2. ASSUME NEW c \in Clusters, NEW new \in ClusterInfo \cup {None}, ChangeInfo(c, new)
        PROVE PageTyping'
    BY <2>2, ChangesFit DEF ChangeInfo
  <2>3. ASSUME NEW all \in SUBSET Types, NEW named \in SUBSET Clusters, ChangeAccess(all, named)
        PROVE PageTyping'
    <3>1. request # None =>
            /\ request' = [request EXCEPT !.ever = @ \cup Accessible(all, named),
                                          !.always = @ \cap Accessible(all, named),
                                          !.alwaysAll = @ \cap all]
            /\ request' \in Request
            /\ request'.step = request.step /\ request'.copy = request.copy
            /\ request'.todo = request.todo
      BY <2>3 DEF ChangeAccess, Request, Accessible
    <3>. QED
      BY <2>3, <3>1, ChangesFit DEF ChangeAccess
  <2>4. CASE Receive
    <3>1. request' \in Request /\ request'.step = "permission"
      BY <2>4 DEF Receive, Request, Steps, Accessible, RolloutStates
    <3>. QED
      BY <2>4, <3>1 DEF Receive, world
  <2>5. CASE Abort \/ Finish
    BY <2>5 DEF Abort, Finish, world
  <2>6. CASE CanGetProfile
    BY <2>6 DEF CanGetProfile, Request, Steps, world
  <2>7. CASE ReadProfile
    BY <2>7, PageConstants DEF ReadProfile, Request, Steps, world, Profile
  <2>8. ASSUME NEW c \in Clusters, AskAll(c) PROVE PageTyping'
    <3>1. request # None /\ request \in Request /\ request.todo # <<>> /\ request.copy # None
      BY <2>8 DEF AskAll, Asking
    <3>0. request.reviews \in Nat
      BY <3>1 DEF Request
    <3>5. request.reviews + 1 \in Nat
      BY <3>0, SMT
    <3>2. (TypeOf(c) \in getAll) \in BOOLEAN
      OBVIOUS
    <3>3. [request.canGetAll EXCEPT ![TypeOf(c)] = TypeOf(c) \in getAll]
            \in [Types -> BOOLEAN \cup {None}]
      BY <3>1, <3>2 DEF Request
    <3>4. request' \in Request /\ request'.copy # None /\ request'.step = "access"
      BY <2>8, <3>1, <3>3, <3>5 DEF AskAll, Asking, Request
    <3>. QED
      BY <2>8, <3>4 DEF AskAll, world
  <2>9. ASSUME NEW c \in Clusters, SkipReview(c) \/ AskOne(c) PROVE PageTyping'
    <3>1. request # None /\ request \in Request /\ request.todo # <<>> /\ request.copy # None
      BY <2>9 DEF SkipReview, AskOne, Asking
    <3>2. request.step = "access" /\ request.todo \in Seq(Clusters)
          /\ Tail(request.todo) \in Seq(Clusters)
      BY <2>9, <3>1, Shorter DEF Request, SkipReview, AskOne, Asking
    <3>0. request.reviews \in Nat /\ "row" \in Steps
      BY <3>1 DEF Request, Steps
    <3>5. request.reviews + 1 \in Nat /\ "row" \in Steps
      BY <3>0
    <3>6. [request EXCEPT !.step = "row"] \in Request
      BY <3>1, <3>5 DEF Request
    <3>7. [request EXCEPT !.reviews = @ + 1, !.step = "row"] \in Request
      BY <3>1, <3>5 DEF Request
    <3>3. [request EXCEPT !.reviews = @ + 1, !.todo = Tail(@)] \in Request
      BY <3>1, <3>2, <3>5 DEF Request
    <3>4. /\ request' \in Request /\ request'.copy # None
          /\ request'.step = "access" \/ request'.todo = request.todo
      BY <2>9, <3>1, <3>2, <3>6, <3>7, <3>3 DEF SkipReview, AskOne, Request
    <3>. QED
      BY <2>9, <3>1, <3>4 DEF SkipReview, AskOne, world
  <2>10. ASSUME NEW c \in Clusters, AddRow(c) PROVE PageTyping'
    <3>1. request # None /\ request \in Request /\ request.copy # None /\ request.todo # <<>>
      BY <2>10 DEF AddRow
    <3>2. request.todo \in Seq(Clusters) /\ Tail(request.todo) \in Seq(Clusters)
      BY <3>1, Shorter DEF Request
    <3>3. stateOf(request.copy, c, info[c]) \in RolloutStates \cup {"", None}
      BY StateTyping
    <3>4. request' \in Request /\ request'.copy # None /\ request'.step = "access"
      BY <2>10, <3>1, <3>2, <3>3 DEF AddRow, Request, Steps
    <3>. QED
      BY <2>10, <3>4 DEF AddRow, world
  <2>11. CASE Send
    BY <2>11 DEF Send, Request, Steps, world
  <2>12. CASE UNCHANGED vars
    BY <2>12 DEF vars, world
  <2>. QED
    BY <2>1, <2>2, <2>3, <2>4, <2>5, <2>6, <2>7, <2>8, <2>9, <2>10, <2>11, <2>12 DEF Next
<1>. QED
  BY <1>1, <1>2, PTL DEF Spec

\* The page and the world around it keep their types.
THEOREM Typing == Spec => []TypeOK
<1>1. PageTyping => TypeOK
  BY DEF PageTyping
<1>. QED
  BY <1>1, PageTypes, PTL

-----------------------------------------------------------------------------
(* What is left of a page, and who may see what is on it                   *)

Elements(s) == {s[i] : i \in 1..Len(s)}
NoRepeats(s) == \A i, j \in 1..Len(s) : s[i] = s[j] => i = j

\* The first element is gone from a sequence without repetitions, and no other.
LEMMA FirstGone ==
  ASSUME NEW s \in Seq(Clusters), s # <<>>
  PROVE  /\ Elements(s) = {Head(s)} \cup Elements(Tail(s))
         /\ NoRepeats(s) => NoRepeats(Tail(s)) /\ Head(s) \notin Elements(Tail(s))
<1>1. ASSUME NEW i \in 1..Len(s) PROVE s[i] \in {Head(s)} \cup Elements(Tail(s))
  <2>1. CASE i = 1
    BY <2>1, Shorter
  <2>2. CASE i # 1
    <3>1. i - 1 \in 1..Len(Tail(s)) /\ (i - 1) + 1 = i
      BY <2>2, Shorter
    <3>2. s[i] = Tail(s)[i - 1]
      BY <3>1, Shorter
    <3>. QED
      BY <3>1, <3>2 DEF Elements
  <2>. QED
    BY <2>1, <2>2
<1>2. ASSUME NEW i \in 1..Len(Tail(s))
      PROVE  i + 1 \in 1..Len(s) /\ i + 1 # 1 /\ Tail(s)[i] = s[i + 1]
  BY Shorter
<1>3. Elements(s) = {Head(s)} \cup Elements(Tail(s))
  <2>1. 1 \in 1..Len(s)
    BY Shorter
  <2>. QED
    BY <1>1, <1>2, <2>1, Shorter DEF Elements
<1>4. ASSUME NoRepeats(s) PROVE NoRepeats(Tail(s)) /\ Head(s) \notin Elements(Tail(s))
  <2>1. 1 \in 1..Len(s) /\ Head(s) = s[1]
    BY Shorter
  <2>2. Head(s) \notin Elements(Tail(s))
    BY <1>2, <1>4, <2>1 DEF Elements, NoRepeats
  <2>3. ASSUME NEW i \in 1..Len(Tail(s)), NEW j \in 1..Len(Tail(s)), Tail(s)[i] = Tail(s)[j]
        PROVE  i = j
    <3>1. i + 1 = j + 1
      BY <1>2, <1>4, <2>3 DEF NoRepeats
    <3>. QED
      BY <3>1
  <2>. QED
    BY <2>2, <2>3 DEF NoRepeats
<1>. QED
  BY <1>3, <1>4

\* What the checker remembers, what has a row and what is about to get one was the user's to
\* get at some time; what was so all along has a row or is left to look at.
AccessInv ==
  request # None =>
    /\ Accessible(getAll, getNamed) \subseteq request.ever
    /\ request.always \subseteq Accessible(getAll, getNamed)
    /\ request.alwaysAll \subseteq getAll
    /\ \A c \in Clusters : request.canGetAll[TypeOf(c)] = TRUE => c \in request.ever
    /\ \A t \in Types : request.canGetAll[t] = FALSE => t \notin request.alwaysAll
    /\ \A c \in Clusters : request.rows[c] # None => c \in request.ever
    /\ request.step \in {"permission", "read"} => \A c \in Clusters : request.rows[c] = None
    /\ request.step = "row" => Head(request.todo) \in request.ever
    /\ request.step = "sent" => request.todo = <<>>
    /\ request.step \in {"access", "row", "sent"} =>
         /\ NoRepeats(request.todo)
         /\ Shown \cup Elements(request.todo) \subseteq Matching
         /\ Matching \cap request.always \subseteq Shown \cup Elements(request.todo)

\* The invariant is about the request, and what the user may get now.
LEMMA AccessKept ==
  ASSUME AccessInv, UNCHANGED <<request, getAll, getNamed>>
  PROVE  AccessInv'
BY DEF AccessInv, Shown, Matching

\* A step of the page that reviews no more, changes no row and leaves no cluster out.
LEMMA StepKeepsAccess ==
  ASSUME PageTyping, AccessInv, request # None, UNCHANGED world,
         NEW reviews, NEW step \in {"access", "row", "sent"},
         request.step \in {"access", "row", "sent"},
         request' = [request EXCEPT !.reviews = reviews, !.step = step],
         step = "row" => Head(request.todo) \in request.ever,
         step = "sent" => request.todo = <<>>
  PROVE  AccessInv'
<1>1. request \in Request
  BY DEF PageTyping, TypeOK
<1>2. /\ request'.step = step /\ request'.copy = request.copy /\ request'.todo = request.todo
      /\ request'.canGetAll = request.canGetAll /\ request'.rows = request.rows
      /\ request'.ever = request.ever /\ request'.always = request.always
      /\ request'.alwaysAll = request.alwaysAll
  BY <1>1 DEF Request
<1>3. Shown' = Shown /\ Matching' = Matching
  BY <1>2 DEF Shown, Matching
<1>. QED
  BY <1>2, <1>3 DEF AccessInv, world

\* Every step keeps that.
LEMMA AccessHolds == Spec => []AccessInv
<1>1. Init => AccessInv
  BY DEF Init, AccessInv
<1>2. PageTyping /\ AccessInv /\ [Next]_vars => AccessInv'
  <2>. SUFFICES ASSUME PageTyping, AccessInv, [Next]_vars PROVE AccessInv'
    OBVIOUS
  <2>0. request # None => request \in Request
    BY DEF PageTyping, TypeOK
  <2>1. ASSUME NEW new \in Profiles \cup {None}, ChangeProfile(new) PROVE AccessInv'
    BY <2>1, AccessKept DEF ChangeProfile
  <2>2. ASSUME NEW c \in Clusters, NEW new \in ClusterInfo \cup {None}, ChangeInfo(c, new)
        PROVE AccessInv'
    BY <2>2, AccessKept DEF ChangeInfo
  <2>3. ASSUME NEW all \in SUBSET Types, NEW named \in SUBSET Clusters, ChangeAccess(all, named)
        PROVE AccessInv'
    <3>. SUFFICES ASSUME request # None, request' # None PROVE AccessInv'
      BY <2>3 DEF ChangeAccess, AccessInv
    <3>1. /\ request'.step = request.step /\ request'.copy = request.copy
          /\ request'.todo = request.todo /\ request'.canGetAll = request.canGetAll
          /\ request'.rows = request.rows
          /\ request'.ever = request.ever \cup Accessible(all, named)
          /\ request'.always = request.always \cap Accessible(all, named)
          /\ request'.alwaysAll = request.alwaysAll \cap all
      BY <2>0, <2>3 DEF ChangeAccess, Request
    <3>2. Shown' = Shown /\ Matching' = Matching
      BY <3>1 DEF Shown, Matching
    <3>3. getAll' = all /\ getNamed' = named
      BY <2>3 DEF ChangeAccess
    <3>4. Accessible(getAll, getNamed)' = Accessible(all, named)
      BY <3>3 DEF Accessible
    <3>. QED
      BY <3>1, <3>2, <3>3, <3>4 DEF AccessInv
  <2>4. CASE Receive
    <3>1. /\ request'.step = "permission" /\ request'.todo = <<>>
          /\ request'.canGetAll = [t \in Types |-> None]
          /\ request'.rows = [c \in Clusters |-> None]
          /\ request'.ever = Accessible(getAll, getNamed)
          /\ request'.always = Accessible(getAll, getNamed) /\ request'.alwaysAll = getAll
      BY <2>4 DEF Receive
    <3>2. \A c \in Clusters : TypeOf(c) \in Types
      BY DEF TypeOf, Types
    <3>3. None # TRUE /\ None # FALSE
      BY PageConstants
    <3>4. UNCHANGED <<getAll, getNamed>>
      BY <2>4 DEF Receive, world
    <3>. QED
      BY <3>1, <3>2, <3>3, <3>4 DEF AccessInv, Accessible
  <2>5. CASE Abort \/ Finish
    BY <2>5 DEF Abort, Finish, AccessInv
  <2>6. CASE CanGetProfile
    <3>1. request # None /\ request.step = "permission" /\ UNCHANGED world
      BY <2>6 DEF CanGetProfile, At
    <3>2. /\ request'.step = "read"
          /\ request'.canGetAll = request.canGetAll /\ request'.rows = request.rows
          /\ request'.ever = request.ever /\ request'.always = request.always
          /\ request'.alwaysAll = request.alwaysAll
      BY <2>0, <2>6, <3>1 DEF CanGetProfile, Request
    <3>. QED
      BY <3>1, <3>2 DEF AccessInv, world
  <2>7. CASE ReadProfile
    <3>. SUFFICES ASSUME request' # None PROVE AccessInv'
      BY DEF AccessInv
    <3>1. request # None /\ request.step = "read" /\ profile # None /\ UNCHANGED world
      BY <2>7 DEF ReadProfile, At
    <3>2. /\ request'.step = "access" /\ request'.copy = profile
          /\ request'.todo = profile.matching
          /\ request'.canGetAll = request.canGetAll /\ request'.rows = request.rows
          /\ request'.ever = request.ever /\ request'.always = request.always
          /\ request'.alwaysAll = request.alwaysAll
      BY <2>0, <2>7, <3>1 DEF ReadProfile, Request
    <3>3. profile \in Profiles /\ profile.matching \in Seq(Clusters)
      BY <3>1, PageConstants DEF PageTyping, TypeOK, Profile
    <3>4. DOMAIN profile.matching = 1..Len(profile.matching)
      BY <3>3, LenProperties
    <3>5. NoRepeats(profile.matching)
      BY <3>3, <3>4, PageConstants DEF NoRepeats
    <3>6. Shown' = {} /\ Matching' = Elements(profile.matching)
      BY <3>1, <3>2 DEF AccessInv, Shown, Matching, Elements
    <3>. QED
      BY <3>1, <3>2, <3>5, <3>6 DEF AccessInv, world
  <2>8. ASSUME NEW c \in Clusters, AskAll(c) PROVE AccessInv'
    <3>1. request # None /\ request.step = "access" /\ UNCHANGED world
      BY <2>8 DEF AskAll, Asking, At
    <3>2. /\ request'.step = "access" /\ request'.copy = request.copy
          /\ request'.todo = request.todo /\ request'.rows = request.rows
          /\ request'.ever = request.ever /\ request'.always = request.always
          /\ request'.alwaysAll = request.alwaysAll
          /\ request'.canGetAll = [request.canGetAll EXCEPT ![TypeOf(c)] = TypeOf(c) \in getAll]
      BY <2>0, <2>8, <3>1 DEF AskAll, Request
    <3>3. \A t \in Types : request'.canGetAll[t] = IF t = TypeOf(c) THEN TypeOf(c) \in getAll
                                                    ELSE request.canGetAll[t]
      BY <2>0, <3>1, <3>2 DEF Request
    <3>4. \A d \in Clusters : request'.canGetAll[TypeOf(d)] = TRUE => d \in request.ever
      <4>. SUFFICES ASSUME NEW d \in Clusters, request'.canGetAll[TypeOf(d)] = TRUE
                    PROVE  d \in request.ever
        OBVIOUS
      <4>1. TypeOf(d) \in Types
        BY DEF TypeOf, Types
      <4>2. CASE TypeOf(d) = TypeOf(c)
        <5>1. TypeOf(d) \in getAll
          BY <3>3, <4>1, <4>2
        <5>. QED
          BY <3>1, <5>1 DEF AccessInv, Accessible
      <4>3. CASE TypeOf(d) # TypeOf(c)
        <5>1. request.canGetAll[TypeOf(d)] = TRUE
          BY <3>3, <4>1, <4>3
        <5>. QED
          BY <3>1, <5>1 DEF AccessInv
      <4>. QED
        BY <4>2, <4>3
    <3>5. \A t \in Types : request'.canGetAll[t] = FALSE => t \notin request.alwaysAll
      <4>. SUFFICES ASSUME NEW t \in Types, request'.canGetAll[t] = FALSE
                    PROVE  t \notin request.alwaysAll
        OBVIOUS
      <4>1. CASE t = TypeOf(c)
        BY <3>1, <3>3, <4>1 DEF AccessInv
      <4>2. CASE t # TypeOf(c)
        BY <3>1, <3>3, <4>2 DEF AccessInv
      <4>. QED
        BY <4>1, <4>2
    <3>6. Shown' = Shown /\ Matching' = Matching
      BY <3>2 DEF Shown, Matching
    <3>. QED
      BY <3>1, <3>2, <3>4, <3>5, <3>6 DEF AccessInv, world
  <2>9. ASSUME NEW c \in Clusters, SkipReview(c) PROVE AccessInv'
    <3>1. request # None /\ request.step = "access" /\ UNCHANGED world
          /\ c = Head(request.todo) /\ c \in request.ever
      BY <2>9 DEF SkipReview, Asking, At, AccessInv
    <3>2. request' = [request EXCEPT !.reviews = request.reviews, !.step = "row"]
      BY <2>0, <2>9, <3>1 DEF SkipReview, Request
    <3>. QED
      BY <3>1, <3>2, StepKeepsAccess
  <2>10. ASSUME NEW c \in Clusters, AskOne(c), c \in Accessible(getAll, getNamed)
         PROVE AccessInv'
    <3>1. request # None /\ request.step = "access" /\ UNCHANGED world
          /\ c = Head(request.todo) /\ c \in request.ever
      BY <2>10 DEF AskOne, Asking, At, AccessInv
    <3>2. request' = [request EXCEPT !.reviews = request.reviews + 1, !.step = "row"]
      BY <2>10 DEF AskOne
    <3>. QED
      BY <3>1, <3>2, StepKeepsAccess
  <2>11. ASSUME NEW c \in Clusters, AskOne(c), c \notin Accessible(getAll, getNamed)
         PROVE AccessInv'
    <3>1. request # None /\ request.step = "access" /\ UNCHANGED world
          /\ c = Head(request.todo) /\ request.todo # <<>> /\ c \notin request.always
      BY <2>11 DEF AskOne, Asking, At, AccessInv
    <3>2. /\ request'.step = "access" /\ request'.copy = request.copy
          /\ request'.todo = Tail(request.todo) /\ request'.rows = request.rows
          /\ request'.canGetAll = request.canGetAll
          /\ request'.ever = request.ever /\ request'.always = request.always
          /\ request'.alwaysAll = request.alwaysAll
      BY <2>0, <2>11, <3>1 DEF AskOne, Request
    <3>3. Shown' = Shown /\ Matching' = Matching
      BY <3>2 DEF Shown, Matching
    <3>4. /\ Elements(request.todo) = {c} \cup Elements(Tail(request.todo))
          /\ NoRepeats(request.todo) => NoRepeats(Tail(request.todo))
      BY <2>0, <3>1, FirstGone DEF Request
    <3>. QED
      BY <3>1, <3>2, <3>3, <3>4 DEF AccessInv, world
  <2>12. ASSUME NEW c \in Clusters, AddRow(c) PROVE AccessInv'
    <3>1. request # None /\ request.step = "row" /\ UNCHANGED world
          /\ c = Head(request.todo) /\ request.todo # <<>> /\ c \in request.ever
      BY <2>12 DEF AddRow, At, AccessInv, PageTyping
    <3>2. /\ request'.step = "access" /\ request'.copy = request.copy
          /\ request'.todo = Tail(request.todo)
          /\ request'.rows = [request.rows EXCEPT ![c] = stateOf(request.copy, c, info[c])]
          /\ request'.canGetAll = request.canGetAll
          /\ request'.ever = request.ever /\ request'.always = request.always
          /\ request'.alwaysAll = request.alwaysAll
      BY <2>0, <2>12, <3>1 DEF AddRow, Request
    <3>3. \A d \in Clusters : d # c => request'.rows[d] = request.rows[d]
      BY <2>0, <3>1, <3>2 DEF Request
    <3>4. Shown' \cup {c} = Shown \cup {c} /\ Matching' = Matching
      BY <3>2, <3>3 DEF Shown, Matching
    <3>5. /\ Elements(request.todo) = {c} \cup Elements(Tail(request.todo))
          /\ NoRepeats(request.todo) => NoRepeats(Tail(request.todo))
      BY <2>0, <3>1, FirstGone DEF Request
    <3>6. c \in Shown'
      <4>1. request'.rows[c] = stateOf(request.copy, c, info[c])
        BY <2>0, <3>1, <3>2 DEF Request
      <4>. QED
        BY <4>1, StateIsSome DEF Shown
    <3>. QED
      BY <3>1, <3>2, <3>3, <3>4, <3>5, <3>6 DEF AccessInv, world
  <2>13. CASE Send
    <3>1. request # None /\ request.step = "access" /\ UNCHANGED world /\ request.todo = <<>>
      BY <2>13 DEF Send, At
    <3>2. request' = [request EXCEPT !.reviews = request.reviews, !.step = "sent"]
      BY <2>0, <2>13, <3>1 DEF Send, Request
    <3>. QED
      BY <3>1, <3>2, StepKeepsAccess
  <2>14. CASE UNCHANGED vars
    BY <2>14, AccessKept DEF vars, world
  <2>. QED
    BY <2>1, <2>2, <2>3, <2>4, <2>5, <2>6, <2>7, <2>8, <2>9, <2>10, <2>11, <2>12, <2>13, <2>14
       DEF Next
<1>. QED
  BY <1>1, <1>2, PageTypes, PTL DEF Spec

\* A page shows all that the user could get all along, and only what he could get at some
\* moment of the request.
THEOREM AccessIsRespected == Spec => []AccessRespected
<1>1. PageTyping /\ AccessInv => AccessRespected
  <2>. SUFFICES ASSUME PageTyping, AccessInv, At("sent") PROVE AccessRespected
    BY DEF AccessRespected
  <2>1. Elements(request.todo) = {}
    BY EmptySeq DEF AccessInv, At, Elements
  <2>. QED
    BY <2>1 DEF AccessInv, At, AccessRespected, Shown
<1>. QED
  BY <1>1, PageTypes, AccessHolds, PTL

-----------------------------------------------------------------------------
(* Reviews                                                                 *)

\* The types asked about, and the clusters that may have been asked about by name.
Asked == {t \in Types : request.canGetAll[t] # None}
Spent ==
  {c \in Clusters :
     /\ TypeOf(c) \notin request.alwaysAll
     /\ c \notin Elements(request.todo) \/ (request.step = "row" /\ c = Head(request.todo))}

\* Each review is accounted for by one of them.
ReviewsInv ==
  request # None =>
    /\ request.step \in {"permission", "read"} => request.reviews = 0
    /\ request.step \in {"access", "row", "sent"} =>
         request.reviews <= Cardinality(Asked) + Cardinality(Spent)

\* There are finitely many of both.
LEMMA FiniteAccount ==
  ASSUME NEW T \in SUBSET Types, NEW C \in SUBSET Clusters
  PROVE  /\ IsFiniteSet(T) /\ Cardinality(T) \in Nat
         /\ IsFiniteSet(C) /\ Cardinality(C) \in Nat
<1>1. IsFiniteSet({"Sveltos"}) /\ {"Sveltos"} \cup {"Capi"} = Types
  BY FS_Singleton DEF Types
<1>2. IsFiniteSet(Types)
  BY <1>1, FS_AddElement
<1>3. IsFiniteSet(Clusters)
  BY PageConstants
<1>4. IsFiniteSet(T) /\ IsFiniteSet(C)
  BY <1>2, <1>3, FS_Subset
<1>. QED
  BY <1>4, FS_CardinalityType

\* The account grows by what a review adds to it, and does not shrink.
LEMMA AccountGrows ==
  ASSUME PageTyping, ReviewsInv, request # None,
         request.step \in {"access", "row", "sent"},
         request'.step \in {"access", "row", "sent"},
         Asked \subseteq Asked', Spent \subseteq Spent',
         \/ request'.reviews = request.reviews
         \/ request'.reviews = request.reviews + 1 /\ (Asked # Asked' \/ Spent # Spent')
  PROVE  ReviewsInv'
<1>1. Asked \in SUBSET Types /\ Spent \in SUBSET Clusters
      /\ Asked' \in SUBSET Types /\ Spent' \in SUBSET Clusters
  BY DEF Asked, Spent
<1>2. /\ IsFiniteSet(Asked') /\ Cardinality(Asked') \in Nat /\ Cardinality(Asked) \in Nat
      /\ IsFiniteSet(Spent') /\ Cardinality(Spent') \in Nat /\ Cardinality(Spent) \in Nat
  BY <1>1, FiniteAccount
<1>3. /\ Cardinality(Asked) <= Cardinality(Asked')
      /\ Asked # Asked' => Cardinality(Asked) # Cardinality(Asked')
  BY <1>2, FS_Subset
<1>4. /\ Cardinality(Spent) <= Cardinality(Spent')
      /\ Spent # Spent' => Cardinality(Spent) # Cardinality(Spent')
  BY <1>2, FS_Subset
<1>5. request.reviews \in Nat
  BY DEF PageTyping, TypeOK, Request
<1>6. request.reviews <= Cardinality(Asked) + Cardinality(Spent)
  BY DEF ReviewsInv
<1>7. request'.reviews <= Cardinality(Asked') + Cardinality(Spent')
  <2>1. CASE request'.reviews = request.reviews
    BY <1>2, <1>3, <1>4, <1>5, <1>6, <2>1
  <2>2. CASE request'.reviews = request.reviews + 1 /\ Asked # Asked'
    BY <1>2, <1>3, <1>4, <1>5, <1>6, <2>2
  <2>3. CASE request'.reviews = request.reviews + 1 /\ Spent # Spent'
    BY <1>2, <1>3, <1>4, <1>5, <1>6, <2>3
  <2>. QED
    BY <2>1, <2>2, <2>3
<1>. QED
  BY <1>7 DEF ReviewsInv

\* Beyond one review per type, one is only spent on a cluster of a type the user could not get
\* all of, and only one for each.
THEOREM ReviewsAreFew == Spec => []FewReviews
<1>1. Init => ReviewsInv
  BY DEF Init, ReviewsInv
<1>2. PageTyping /\ AccessInv /\ ReviewsInv /\ [Next]_vars => ReviewsInv'
  <2>. SUFFICES ASSUME PageTyping, AccessInv, ReviewsInv, [Next]_vars PROVE ReviewsInv'
    OBVIOUS
  <2>0. request # None => request \in Request
    BY DEF PageTyping, TypeOK
  <2>1. CASE UNCHANGED request
    BY <2>1 DEF ReviewsInv, Asked, Spent
  <2>2. ASSUME NEW all \in SUBSET Types, NEW named \in SUBSET Clusters, ChangeAccess(all, named)
        PROVE ReviewsInv'
    <3>. SUFFICES ASSUME request # None PROVE ReviewsInv'
      BY <2>2 DEF ChangeAccess, ReviewsInv
    <3>1. /\ request'.step = request.step /\ request'.reviews = request.reviews
          /\ request'.todo = request.todo /\ request'.canGetAll = request.canGetAll
          /\ request'.alwaysAll = request.alwaysAll \cap all
      BY <2>0, <2>2 DEF ChangeAccess, Request
    <3>2. Asked \subseteq Asked' /\ Spent \subseteq Spent'
      BY <3>1 DEF Asked, Spent
    <3>3. request.step \in Steps
      BY <2>0 DEF Request
    <3>4. CASE request.step \in {"permission", "read"}
      BY <3>1, <3>4 DEF ReviewsInv
    <3>5. CASE request.step \in {"access", "row", "sent"}
      BY <3>1, <3>2, <3>5, AccountGrows
    <3>. QED
      BY <3>3, <3>4, <3>5 DEF Steps
  <2>3. CASE Receive
    <3>1. request'.step = "permission" /\ request'.reviews = 0
      BY <2>3 DEF Receive
    <3>. QED
      BY <3>1 DEF ReviewsInv
  <2>4. CASE Abort \/ Finish
    BY <2>4 DEF Abort, Finish, ReviewsInv
  <2>5. CASE CanGetProfile
    <3>1. request'.step = "read" /\ request'.reviews = request.reviews
          /\ request.step = "permission" /\ request # None
      BY <2>0, <2>5 DEF CanGetProfile, At, Request
    <3>. QED
      BY <3>1 DEF ReviewsInv
  <2>6. CASE ReadProfile
    <3>. SUFFICES ASSUME request' # None PROVE ReviewsInv'
      BY DEF ReviewsInv
    <3>1. /\ request # None /\ request.step = "read" /\ request.reviews = 0
          /\ request'.step = "access" /\ request'.reviews = request.reviews
      BY <2>0, <2>6 DEF ReadProfile, At, Request, ReviewsInv
    <3>2. Asked' \in SUBSET Types /\ Spent' \in SUBSET Clusters
      BY DEF Asked, Spent
    <3>3. Cardinality(Asked') \in Nat /\ Cardinality(Spent') \in Nat
      BY <3>2, FiniteAccount
    <3>4. request'.reviews <= Cardinality(Asked') + Cardinality(Spent')
      BY <3>1, <3>3
    <3>. QED
      BY <3>1, <3>4 DEF ReviewsInv
  <2>7. ASSUME NEW c \in Clusters, AskAll(c) PROVE ReviewsInv'
    <3>1. /\ request # None /\ request.step = "access" /\ request.canGetAll[TypeOf(c)] = None
          /\ request'.step = "access" /\ request'.reviews = request.reviews + 1
          /\ request'.todo = request.todo /\ request'.alwaysAll = request.alwaysAll
          /\ request'.canGetAll = [request.canGetAll EXCEPT ![TypeOf(c)] = TypeOf(c) \in getAll]
      BY <2>0, <2>7 DEF AskAll, Asking, At, Request
    <3>2. \A t \in Types : t # TypeOf(c) => request'.canGetAll[t] = request.canGetAll[t]
      BY <2>0, <3>1 DEF Request
    <3>3. TypeOf(c) \in Types
      BY DEF TypeOf, Types
    <3>4. request'.canGetAll[TypeOf(c)] = (TypeOf(c) \in getAll)
      BY <2>0, <3>1, <3>3 DEF Request
    <3>5. request'.canGetAll[TypeOf(c)] # None
      <4>1. None # TRUE /\ None # FALSE
        BY PageConstants
      <4>2. CASE TypeOf(c) \in getAll
        <5>1. (TypeOf(c) \in getAll) = TRUE
          BY <4>2
        <5>. QED
          BY <3>4, <4>1, <5>1
      <4>3. CASE TypeOf(c) \notin getAll
        <5>1. (TypeOf(c) \in getAll) = FALSE
          BY <4>3
        <5>. QED
          BY <3>4, <4>1, <5>1
      <4>. QED
        BY <4>2, <4>3
    <3>6. TypeOf(c) \in Asked' /\ TypeOf(c) \notin Asked /\ Asked \subseteq Asked'
      BY <3>1, <3>2, <3>3, <3>5 DEF Asked
    <3>7. Spent' = Spent
      BY <3>1 DEF Spent
    <3>. QED
      BY <3>1, <3>6, <3>7, AccountGrows
  <2>8. ASSUME NEW c \in Clusters, SkipReview(c) PROVE ReviewsInv'
    <3>1. /\ request # None /\ request.step = "access"
          /\ request'.step = "row" /\ request'.reviews = request.reviews
          /\ request'.todo = request.todo /\ request'.alwaysAll = request.alwaysAll
          /\ request'.canGetAll = request.canGetAll
      BY <2>0, <2>8 DEF SkipReview, Asking, At, Request
    <3>2. Asked \subseteq Asked' /\ Spent \subseteq Spent'
      BY <3>1 DEF Asked, Spent
    <3>. QED
      BY <3>1, <3>2, AccountGrows
  <2>9. ASSUME NEW c \in Clusters, AskOne(c) PROVE ReviewsInv'
    <3>1. /\ request # None /\ request.step = "access" /\ request.canGetAll[TypeOf(c)] = FALSE
          /\ c = Head(request.todo) /\ request.todo # <<>>
      BY <2>9 DEF AskOne, Asking, At
    <3>2. /\ request'.reviews = request.reviews + 1 /\ request'.alwaysAll = request.alwaysAll
          /\ request'.canGetAll = request.canGetAll
          /\ \/ request'.step = "row" /\ request'.todo = request.todo
             \/ request'.step = "access" /\ request'.todo = Tail(request.todo)
      BY <2>0, <2>9, <3>1 DEF AskOne, Request
    <3>3. /\ Elements(request.todo) = {c} \cup Elements(Tail(request.todo))
          /\ c \notin Elements(Tail(request.todo))
      BY <2>0, <3>1, FirstGone DEF Request, AccessInv
    <3>4. TypeOf(c) \notin request.alwaysAll
      BY <3>1 DEF AccessInv, TypeOf, Types
    <3>5. c \in Spent' /\ c \notin Spent /\ Spent \subseteq Spent'
      BY <3>1, <3>2, <3>3, <3>4 DEF Spent
    <3>6. Asked' = Asked
      BY <3>2 DEF Asked
    <3>. QED
      BY <3>1, <3>2, <3>5, <3>6, AccountGrows
  <2>10. ASSUME NEW c \in Clusters, AddRow(c) PROVE ReviewsInv'
    <3>1. /\ request # None /\ request.step = "row"
          /\ c = Head(request.todo) /\ request.todo # <<>>
          /\ request'.step = "access" /\ request'.reviews = request.reviews
          /\ request'.todo = Tail(request.todo) /\ request'.alwaysAll = request.alwaysAll
          /\ request'.canGetAll = request.canGetAll
      BY <2>0, <2>10 DEF AddRow, At, Request, PageTyping
    <3>2. /\ Elements(request.todo) = {c} \cup Elements(Tail(request.todo))
          /\ c \notin Elements(Tail(request.todo))
      BY <2>0, <3>1, FirstGone DEF Request, AccessInv
    <3>3. Asked' = Asked /\ Spent \subseteq Spent'
      BY <3>1, <3>2 DEF Asked, Spent
    <3>. QED
      BY <3>1, <3>3, AccountGrows
  <2>11. CASE Send
    <3>1. /\ request # None /\ request.step = "access"
          /\ request'.step = "sent" /\ request'.reviews = request.reviews
          /\ request'.todo = request.todo /\ request'.alwaysAll = request.alwaysAll
          /\ request'.canGetAll = request.canGetAll
      BY <2>0, <2>11 DEF Send, At, Request
    <3>2. Asked \subseteq Asked' /\ Spent \subseteq Spent'
      BY <3>1 DEF Asked, Spent
    <3>. QED
      BY <3>1, <3>2, AccountGrows
  <2>. QED
    BY <2>1, <2>2, <2>3, <2>4, <2>5, <2>6, <2>7, <2>8, <2>9, <2>10, <2>11
       DEF Next, vars, ChangeProfile, ChangeInfo
<1>3. PageTyping /\ ReviewsInv => FewReviews
  <2>. SUFFICES ASSUME PageTyping, ReviewsInv, request # None PROVE FewReviews
    BY DEF FewReviews
  <2>. DEFINE unlisted == {c \in Clusters : TypeOf(c) \notin request.alwaysAll}
  <2>1. request.reviews \in Nat /\ request.step \in Steps
    BY DEF PageTyping, TypeOK, Request
  <2>2. Asked \in SUBSET Types /\ Spent \in SUBSET Clusters /\ unlisted \in SUBSET Clusters
        /\ Spent \in SUBSET unlisted
    BY DEF Asked, Spent
  <2>3. /\ Cardinality(Asked) \in Nat /\ Cardinality(Spent) \in Nat
        /\ Cardinality(unlisted) \in Nat /\ IsFiniteSet(unlisted)
    BY <2>2, FiniteAccount
  <2>4. Cardinality(Spent) <= Cardinality(unlisted)
    BY <2>2, <2>3, FS_Subset
  <2>5. request.reviews <= Cardinality(Asked) + Cardinality(unlisted)
    <3>1. CASE request.step \in {"permission", "read"}
      BY <2>1, <2>3, <3>1 DEF ReviewsInv
    <3>2. CASE request.step \in {"access", "row", "sent"}
      <4>1. request.reviews <= Cardinality(Asked) + Cardinality(Spent)
        BY <3>2 DEF ReviewsInv
      <4>. QED
        BY <2>1, <2>3, <2>4, <4>1
    <3>. QED
      BY <2>1, <3>1, <3>2 DEF Steps
  <2>. QED
    BY <2>5 DEF FewReviews, Asked
<1>. QED
  BY <1>1, <1>2, <1>3, PageTypes, AccessHolds, PTL DEF Spec

-----------------------------------------------------------------------------
(* How many clusters are updated at a time                                 *)

\* A percentage of the matching clusters is rounded up, and to no more than that: a
\* rollout with a percentage above zero, and a cluster to update, is never held at zero,
\* and one of at most a hundred percent never exceeds the matching clusters.
THEOREM PercentageRoundsUp ==
  ASSUME NEW p \in Profile, p.maxUpdate # None, p.maxUpdate.percent
  PROVE  /\ getMaxUpdate(p) \in Nat
         /\ 100 * getMaxUpdate(p) >= p.maxUpdate.value * Len(p.matching)
         /\ 100 * getMaxUpdate(p) < p.maxUpdate.value * Len(p.matching) + 100
         /\ p.maxUpdate.value > 0 /\ p.matching # <<>> => getMaxUpdate(p) > 0
         /\ p.maxUpdate.value <= 100 => getMaxUpdate(p) <= Len(p.matching)
<1>. DEFINE v == p.maxUpdate.value
            n == Len(p.matching)
            m == v * n
<1>1. v \in Nat /\ n \in Nat /\ p.matching \in Seq(Clusters)
  BY LenProperties DEF Profile, MaxUpdate
<1>2. getMaxUpdate(p) = (m + 99) \div 100
  BY DEF getMaxUpdate
<1>3. m \in Nat
  <2>. HIDE DEF v, n
  <2>. QED
    BY <1>1
<1>4. v > 0 /\ p.matching # <<>> => m > 0
  <2>1. p.matching # <<>> => n > 0
    BY <1>1, EmptySeq
  <2>. HIDE DEF v, n
  <2>. QED
    BY <1>1, <2>1
<1>5. v <= 100 => m <= 100 * n
  <2>. HIDE DEF v, n
  <2>. QED
    BY <1>1
<1>. HIDE DEF v, n, m
<1>6. /\ getMaxUpdate(p) \in Nat /\ 100 * getMaxUpdate(p) >= m /\ 100 * getMaxUpdate(p) < m + 100
  BY <1>2, <1>3
<1>. QED
  BY <1>1, <1>3, <1>4, <1>5, <1>6 DEF v, n, m

-----------------------------------------------------------------------------
(* What the summary counts                                                 *)

\* What a row may say of a cluster in the rollout of p.
RowStates(p) == IF isPending(p) THEN RolloutStates ELSE {"", "paused"}

LEMMA StateOfRow ==
  ASSUME NEW p, NEW c, NEW entry
  PROVE  stateOf(p, c, entry) \in RowStates(p)
BY DEF stateOf, RowStates, RolloutStates

\* There is no row before the profile is read; a row says what it may of that profile.
RowsInv ==
  request # None =>
    \A c \in Clusters :
      request.rows[c] # None =>
        /\ request.step \notin {"permission", "read"}
        /\ request.rows[c] \in RowStates(request.copy)

LEMMA RowsHold == Spec => []RowsInv
<1>1. Init => RowsInv
  BY DEF Init, RowsInv
<1>2. PageTyping /\ RowsInv /\ [Next]_vars => RowsInv'
  <2>. SUFFICES ASSUME PageTyping, RowsInv, [Next]_vars PROVE RowsInv'
    OBVIOUS
  <2>0. request # None => request \in Request
    BY DEF PageTyping, TypeOK
  <2>. DEFINE Same == /\ request # None /\ request' # None
                      /\ request'.rows = request.rows /\ request'.copy = request.copy
                      /\ \/ request'.step = request.step
                         \/ request'.step \notin {"permission", "read"}
                         \/ request.step \in {"permission", "read"}
  <2>1. Same => RowsInv'
    BY DEF RowsInv, RowStates, isPending
  <2>2. CASE request' = request
    BY <2>2 DEF RowsInv, RowStates, isPending
  <2>3. CASE request' = None
    BY <2>3 DEF RowsInv
  <2>4. ASSUME NEW all \in SUBSET Types, NEW named \in SUBSET Clusters, ChangeAccess(all, named)
        PROVE RowsInv'
    <3>1. request # None => Same \/ request' = None
      BY <2>0, <2>4 DEF ChangeAccess, Request
    <3>. QED
      BY <2>1, <2>3, <2>4, <3>1 DEF ChangeAccess
  <2>5. CASE Receive
    <3>1. \A c \in Clusters : request'.rows[c] = None
      BY <2>5 DEF Receive
    <3>. QED
      BY <3>1 DEF RowsInv
  <2>6. CASE CanGetProfile \/ Send
    <3>1. Same \/ request' = None
      BY <2>0, <2>6 DEF CanGetProfile, Send, At, Request
    <3>. QED
      BY <2>1, <2>3, <3>1
  <2>7. CASE ReadProfile
    <3>1. request # None /\ request.step = "read"
      BY <2>7 DEF ReadProfile, At
    <3>2. \A c \in Clusters : request.rows[c] = None
      BY <3>1 DEF RowsInv
    <3>3. request' # None => request'.rows = request.rows
      BY <2>0, <2>7, <3>1 DEF ReadProfile, Request
    <3>. QED
      BY <3>2, <3>3 DEF RowsInv
  <2>8. ASSUME NEW c \in Clusters, AskAll(c) \/ SkipReview(c) \/ AskOne(c) PROVE RowsInv'
    <3>1. request # None /\ request.step = "access"
      BY <2>8 DEF AskAll, SkipReview, AskOne, Asking, At
    <3>2. request' # None => Same
      BY <2>0, <2>8, <3>1 DEF AskAll, SkipReview, AskOne, Request
    <3>. QED
      BY <2>1, <2>3, <3>2
  <2>9. ASSUME NEW c \in Clusters, AddRow(c) PROVE RowsInv'
    <3>1. /\ request # None /\ request.step = "row"
          /\ request'.step = "access" /\ request'.copy = request.copy
          /\ request'.rows = [request.rows EXCEPT ![c] = stateOf(request.copy, c, info[c])]
      BY <2>0, <2>9 DEF AddRow, At, Request
    <3>2. stateOf(request.copy, c, info[c]) \in RowStates(request.copy)
      BY StateOfRow
    <3>3. /\ request'.rows[c] = stateOf(request.copy, c, info[c])
          /\ \A d \in Clusters : d # c => request'.rows[d] = request.rows[d]
      BY <2>0, <3>1 DEF Request
    <3>4. RowStates(request'.copy) = RowStates(request.copy)
      BY <3>1
    <3>5. \A d \in Clusters :
            request'.rows[d] # None => request'.rows[d] \in RowStates(request.copy)
      BY <3>1, <3>2, <3>3 DEF RowsInv
    <3>. HIDE DEF RowStates
    <3>. QED
      BY <3>1, <3>4, <3>5 DEF RowsInv
  <2>. QED
    BY <2>2, <2>3, <2>4, <2>5, <2>6, <2>7, <2>8, <2>9
       DEF Next, vars, ChangeProfile, ChangeInfo, Abort, Finish
<1>. QED
  BY <1>1, <1>2, PageTypes, PTL DEF Spec

\* Two sets of clusters without a common one have the clusters of both.
LEMMA CountBoth ==
  ASSUME NEW S \in SUBSET Clusters, NEW T \in SUBSET Clusters, S \cap T = {}
  PROVE  /\ Cardinality(S) \in Nat /\ Cardinality(T) \in Nat
         /\ Cardinality(S \cup T) = Cardinality(S) + Cardinality(T)
<1>1. IsFiniteSet(Clusters)
  BY PageConstants
<1>2. IsFiniteSet(S) /\ IsFiniteSet(T)
  BY <1>1, FS_Subset
<1>3. Cardinality(S) \in Nat /\ Cardinality(T) \in Nat
  BY <1>2, FS_CardinalityType
<1>4. Cardinality(S \cap T) = 0
  BY FS_EmptySet
<1>5. Cardinality(S \cup T) = Cardinality(S) + Cardinality(T) - Cardinality(S \cap T)
  BY <1>2, FS_Union
<1>. QED
  BY <1>3, <1>4, <1>5

\* The summary of a page accounts for each of its rows once, for any clusters and however
\* the rollout goes on while the page is built.
THEOREM SummaryIsComplete == Spec => []SummaryCountsRows
<1>1. PageTyping /\ RowsInv => SummaryCountsRows
  <2>. SUFFICES ASSUME PageTyping, RowsInv, At("sent") PROVE SummaryCountsRows
    BY DEF SummaryCountsRows
  <2>. DEFINE p == request.copy
              In(s) == {c \in Clusters : request.rows[c] = s}
  <2>1. request # None
    BY DEF At
  <2>2. \A c \in Shown : request.rows[c] \in RowStates(p)
    BY <2>1 DEF RowsInv, Shown
  <2>3. CASE ~isPending(p)
    <3>1. summarize(p, request.rows) = None
      BY <2>3 DEF summarize
    <3>2. \A c \in Shown : request.rows[c] \in {"", "paused"}
      BY <2>2, <2>3 DEF RowStates
    <3>. QED
      BY <3>1, <3>2 DEF SummaryCountsRows
  <2>4. CASE isPending(p)
    <3>. DEFINE U == In("updated") \cup In("updating")
                V == U \cup In("waiting")
                W == V \cup In("paused")
                n == [s \in RolloutStates |-> Cardinality(In(s))]
    <3>1. \A s \in RolloutStates : s # None
      BY PageConstants
    <3>2. \A c \in Shown : request.rows[c] \in RolloutStates
      BY <2>2, <2>4 DEF RowStates
    <3>3. Shown = W \cup In("notReady")
      BY <3>1, <3>2 DEF RolloutStates, Shown
    <3>4. /\ Cardinality(In("updated")) \in Nat /\ Cardinality(In("updating")) \in Nat
          /\ Cardinality(U) = Cardinality(In("updated")) + Cardinality(In("updating"))
      <4>1. In("updated") \cap In("updating") = {}
        OBVIOUS
      <4>. HIDE DEF In
      <4>2. In("updated") \in SUBSET Clusters /\ In("updating") \in SUBSET Clusters
        BY DEF In
      <4>. QED
        BY <4>1, <4>2, CountBoth
    <3>5. /\ Cardinality(In("waiting")) \in Nat
          /\ Cardinality(V) = Cardinality(U) + Cardinality(In("waiting"))
      <4>1. U \cap In("waiting") = {} /\ U \in SUBSET Clusters /\ In("waiting") \in SUBSET Clusters
        OBVIOUS
      <4>. HIDE DEF In, U
      <4>. QED
        BY <4>1, CountBoth
    <3>6. /\ Cardinality(In("paused")) \in Nat
          /\ Cardinality(W) = Cardinality(V) + Cardinality(In("paused"))
      <4>1. V \cap In("paused") = {} /\ V \in SUBSET Clusters /\ In("paused") \in SUBSET Clusters
        OBVIOUS
      <4>. HIDE DEF In, V
      <4>. QED
        BY <4>1, CountBoth
    <3>7. /\ Cardinality(In("notReady")) \in Nat
          /\ Cardinality(Shown) = Cardinality(W) + Cardinality(In("notReady"))
      <4>1. W \cap In("notReady") = {} /\ W \in SUBSET Clusters /\ In("notReady") \in SUBSET Clusters
        OBVIOUS
      <4>. HIDE DEF In, W
      <4>. QED
        BY <3>3, <4>1, CountBoth
    <3>8. /\ n["updated"] = Cardinality(In("updated")) /\ n["updating"] = Cardinality(In("updating"))
          /\ n["waiting"] = Cardinality(In("waiting")) /\ n["paused"] = Cardinality(In("paused"))
          /\ n["notReady"] = Cardinality(In("notReady"))
      <4>. HIDE DEF In
      <4>. QED
        BY DEF RolloutStates
    <3>9. n["updated"] + n["updating"] + n["waiting"] + n["paused"] + n["notReady"]
            = Cardinality(Shown)
      <4>. HIDE DEF In, U, V, W, n
      <4>. QED
        BY <3>4, <3>5, <3>6, <3>7, <3>8
    <3>10. summarize(p, request.rows) = [maxUpdate |-> getMaxUpdate(p), count |-> n]
      BY <2>4 DEF summarize
    <3>11. getMaxUpdate(p) \in Nat
      <4>1. p \in Profile /\ (p.maxUpdate = None \/ p.maxUpdate \in [percent : BOOLEAN, value : Nat])
        BY <2>1 DEF PageTyping, TypeOK, At, Request, Profile, MaxUpdate
      <4>. HIDE DEF p
      <4>2. CASE p.maxUpdate = None
        BY <4>2 DEF getMaxUpdate
      <4>3. CASE p.maxUpdate # None /\ p.maxUpdate.percent
        BY <4>1, <4>3, PercentageRoundsUp
      <4>4. CASE p.maxUpdate # None /\ ~p.maxUpdate.percent
        BY <4>1, <4>4 DEF getMaxUpdate
      <4>. QED
        BY <4>2, <4>3, <4>4
    <3>12. n \in [RolloutStates -> Nat]
      <4>1. n["updated"] \in Nat /\ n["updating"] \in Nat /\ n["waiting"] \in Nat
            /\ n["paused"] \in Nat /\ n["notReady"] \in Nat
        <5>. HIDE DEF In, U, V, W, n
        <5>. QED
          BY <3>4, <3>5, <3>6, <3>7, <3>8
      <4>. HIDE DEF In
      <4>. QED
        BY <4>1 DEF RolloutStates
    <3>13. /\ summarize(p, request.rows) # None
           /\ summarize(p, request.rows).count = n
      <4>. HIDE DEF n, p
      <4>1. summarize(p, request.rows) \in [maxUpdate : Nat, count : [RolloutStates -> Nat]]
        BY <3>10, <3>11, <3>12
      <4>2. None \notin [maxUpdate : Nat, count : [RolloutStates -> Nat]]
        BY PageConstants
      <4>. QED
        BY <3>10, <4>1, <4>2
    <3>. HIDE DEF n, p
    <3>. QED
      BY <3>9, <3>13 DEF SummaryCountsRows, p
  <2>. QED
    BY <2>3, <2>4
<1>. QED
  BY <1>1, PageTypes, RowsHold, PTL

===============================================================================
