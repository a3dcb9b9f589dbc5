---------------------------- MODULE RequestsProofs ----------------------------
(***************************************************************************)
(* TLAPS proofs about Requests: for any objects, users, queries and number *)
(* of changes during a request.  What the handlers have in common is the   *)
(* assumption HandlerTable, which has no constant in it and is decided by  *)
(* TLC.                                                                    *)
(***************************************************************************)
EXTENDS Requests, FiniteSetTheorems, SequenceTheorems, TLAPS

(* The window of a page, for every width of the integers                   *)

\* The sum of two numbers that are no negative ints wraps to a negative one or not at all.
LEMMA WrapSum ==
  ASSUME NEW a \in 0..MaxInt, NEW b \in 0..MaxInt
  PROVE  /\ Wrap(a + b) \in Int
         /\ a + b <= MaxInt => Wrap(a + b) = a + b
         /\ a + b > MaxInt => Wrap(a + b) < 0
  BY PagingConstants, SMT DEF Wrap

\* A page is never the wrong part of a list: whatever limit (here count) and skip
\* (here start) are, getSliceInRange and getClustersInRange give the window that was asked
\* for, or none at all; and none only for a negative number or when skip + limit does not
\* fit in an int.
THEOREM WindowExact ==
  ASSUME NEW len \in 0..MaxInt, NEW count \in Ints, NEW start \in Ints
  PROVE  /\ getSliceInRange(len, count, start).result = "ok"
              => getSliceInRange(len, count, start) = Window(len, count, start)
         /\ start >= 0 /\ count >= 0 /\ start + count <= MaxInt
              => getSliceInRange(len, count, start).result = "ok"
         /\ getClustersInRange(len, count, start).result = "ok"
              => \/ getClustersInRange(len, count, start) = Window(len, count, start)
                 \/ len = 0
<1>1. CASE start < 0 \/ count < 0
  BY <1>1, PagingConstants, SMT
     DEF getSliceInRange, getClustersInRange, Refused, Slice, Ints
<1>2. CASE start >= 0 /\ count >= 0 /\ start >= len
  BY <1>2, PagingConstants, SMT
     DEF getSliceInRange, getClustersInRange, Slice, Window, Ints
<1>3. CASE start >= 0 /\ count >= 0 /\ start < len
  <2>. DEFINE adjusted == IF Wrap(start + count) > len THEN len - start ELSE count
  <2>1. getSliceInRange(len, count, start) = SliceOf(len, start, Wrap(start + adjusted))
    BY <1>3, PagingConstants, SMT DEF getSliceInRange, Ints
  <2>2. start \in 0..MaxInt /\ count \in 0..MaxInt /\ len - start \in 0..MaxInt
    BY <1>3, PagingConstants, SMT DEF Ints
  <2>3. CASE start + count > MaxInt
    <3>1. adjusted = count /\ Wrap(start + adjusted) \in Int /\ Wrap(start + adjusted) < 0
      BY <2>2, <2>3, WrapSum, PagingConstants, SMT
    <3>2. getSliceInRange(len, count, start) = Panic
      BY <2>1, <3>1, <2>2, PagingConstants, SMT DEF SliceOf
    <3>. QED
      BY <1>3, <2>2, <2>3, <3>2, PagingConstants, SMT DEF Panic, getClustersInRange
  <2>4. CASE start + count <= MaxInt
    <3>1. Wrap(start + count) = start + count
      BY <2>2, <2>4, WrapSum, SMT
    <3>2. adjusted = IF start + count > len THEN len - start ELSE count
      BY <3>1
    <3>3. Wrap(start + adjusted) = IF start + count > len THEN len ELSE start + count
      BY <2>2, <2>4, <3>1, <3>2, WrapSum, SMT
    <3>4. getSliceInRange(len, count, start) = Window(len, count, start)
      BY <1>3, <2>1, <2>2, <3>3, SMT DEF SliceOf, Window
    <3>5. Window(len, count, start).result = "ok"
      BY SMT DEF Window, Slice
    <3>. QED
      BY <1>3, <3>4, <3>5, SMT DEF getClustersInRange
  <2>. QED
    BY <2>2, <2>3, <2>4, PagingConstants, SMT
<1>. QED
  BY <1>1, <1>2, <1>3, PagingConstants, SMT DEF Ints

\* A page is inside its list.
LEMMA WindowInside ==
  ASSUME NEW len \in Nat, NEW count \in Ints, NEW start \in Ints
  PROVE  /\ getSliceInRange(len, count, start).result = "ok" =>
              /\ getSliceInRange(len, count, start).from \in Nat
              /\ getSliceInRange(len, count, start).to \in 0..len
         /\ getClustersInRange(len, count, start).result = "ok" =>
              /\ getClustersInRange(len, count, start).from \in Nat
              /\ getClustersInRange(len, count, start).to \in 0..len
         /\ getSliceInRange(len, count, start) # [result |-> "none", from |-> 0, to |-> 0]
BY PagingConstants, SMT
   DEF getClustersInRange, getSliceInRange, SliceOf, Slice, Refused, Panic, Ints, Wrap

(* Where a handler is                                                      *)

Place ==
  /\ path \in Paths /\ handler = Handler[path]
  /\ pc \in 1..End

\* What the table says of the handler at work.
LEMMA Table ==
  ASSUME Place
  PROVE  /\ handler \in Seq([do : STRING, arg : STRING, fail : Nat])
         /\ Len(handler) \in Nat /\ Len(handler) > 0
         /\ DOMAIN handler = 1..Len(handler)
         /\ handler[Len(handler)] = Answer
         /\ \E i \in DOMAIN handler : handler[i] = Token
         /\ pc \in Nat /\ pc > 0 /\ End = Len(handler) + 1
         /\ Done => pc \notin DOMAIN handler
         /\ pc \in DOMAIN handler => ~Done /\ pc + 1 \in 1..End
<1>1. /\ handler \in Seq([do : STRING, arg : STRING, fail : Nat])
      /\ handler # <<>> /\ handler[Len(handler)] = Answer
      /\ \E i \in DOMAIN handler : handler[i] = Token
  BY HandlerTable DEF Place, WellFormed
<1>2. Len(handler) \in Nat /\ DOMAIN handler = 1..Len(handler) /\ Len(handler) > 0
  BY <1>1
<1>. QED
  BY <1>1, <1>2 DEF Place, End, Done

\* What it says of one of its stages.
LEMMA StageTable ==
  ASSUME Place, NEW i \in DOMAIN handler
  PROVE  /\ handler[i].do \notin {"cacheHas", "answer"} => handler[i].fail \in {400, 401, 500}
         /\ handler[i].do = "answer" => i = Len(handler)
         /\ handler[i].do = "page" => i + 1 = Len(handler)
         /\ handler[i].do = "installed" =>
              /\ i = 1
              /\ \A j \in DOMAIN handler :
                   /\ handler[j].do \notin {"mayGet", "mayGetUnlessAll"}
                   /\ handler[j].do = "list" => handler[j].arg = "Capi"
         /\ handler[i].do = "list" =>
              /\ handler[i].arg \in ReviewedKinds
              /\ handler[i].arg \in ListKinds =>
                   \E j \in 1..(i - 1) : handler[j].do = "mayAll" /\ handler[j].arg = handler[i].arg
              /\ handler[i].arg \in ProfileKinds => \E j \in 1..(i - 1) : handler[j].do = "copy"
         /\ handler[i].do = "read" => handler[i].arg \notin ReviewedKinds
         /\ handler[i].do \in {"mayGet", "mayGetUnlessAll"} =>
              /\ handler[i].arg \in {"cluster", "profile", "trigger", "classifier"}
              /\ \E j \in 1..(i - 1) : /\ handler[j].do \in {"query", "check", "require"}
                                       /\ handler[j].arg = handler[i].arg
         /\ handler[i].do = "mayGetUnlessAll" => handler[i].arg \in {"trigger", "classifier"}
         /\ handler[i].do = "returnIfBad" =>
              \E j \in 1..(i - 1) : handler[j].do = "query" /\ handler[j].arg = handler[i].arg
         /\ handler[i].do \in {"query", "check", "require", "ask"} =>
              \A j \in 1..(i - 1) : handler[j].do # "cacheHas"
<1>1. WellFormed(handler)
  BY HandlerTable DEF Place
<1>2. ReviewedKinds = {"Sveltos", "Capi", "ClusterSummary", "ClusterProfile", "Profile",
                       "EventTrigger", "Classifier", "MCC"}
  BY DEF ReviewedKinds, CachedKinds, ListKinds, ProfileKinds, LiveKinds
<1>3. ListKinds = {"Sveltos", "Capi", "ClusterSummary"}
      /\ ProfileKinds = {"ClusterProfile", "Profile"}
  BY DEF ListKinds, ProfileKinds
<1>4. handler[i].do = "list" =>
        /\ handler[i].arg \in ReviewedKinds
        /\ handler[i].arg \in ListKinds =>
             \E j \in 1..(i - 1) : handler[j].do = "mayAll" /\ handler[j].arg = handler[i].arg
        /\ handler[i].arg \in ProfileKinds => \E j \in 1..(i - 1) : handler[j].do = "copy"
  BY <1>1, <1>2, <1>3 DEF WellFormed
<1>5. /\ handler[i].do = "installed" =>
           /\ i = 1
           /\ \A j \in DOMAIN handler : handler[j].do \notin {"mayGet", "mayGetUnlessAll"}
      /\ handler[i].do = "installed" =>
           \A j \in DOMAIN handler : handler[j].do = "list" => handler[j].arg = "Capi"
  BY <1>1 DEF WellFormed
<1>6. /\ handler[i].do \notin {"cacheHas", "answer"} => handler[i].fail \in {400, 401, 500}
      /\ handler[i].do = "answer" => i = Len(handler)
      /\ handler[i].do = "page" => i + 1 = Len(handler)
      /\ handler[i].do = "read" => handler[i].arg \notin ReviewedKinds
      /\ handler[i].do = "mayGetUnlessAll" => handler[i].arg \in {"trigger", "classifier"}
  BY <1>1, <1>2 DEF WellFormed
<1>7. /\ handler[i].do \in {"mayGet", "mayGetUnlessAll"} =>
           /\ handler[i].arg \in {"cluster", "profile", "trigger", "classifier"}
           /\ \E j \in 1..(i - 1) : /\ handler[j].do \in {"query", "check", "require"}
                                    /\ handler[j].arg = handler[i].arg
      /\ handler[i].do = "returnIfBad" =>
           \E j \in 1..(i - 1) : handler[j].do = "query" /\ handler[j].arg = handler[i].arg
      /\ handler[i].do \in {"query", "check", "require", "ask"} =>
           \A j \in 1..(i - 1) : handler[j].do # "cacheHas"
  BY <1>1 DEF WellFormed
<1>. QED
  BY <1>4, <1>5, <1>6, <1>7

-----------------------------------------------------------------------------
(* How a stage ends                                                        *)

Continues == pc' \in {pc, pc + 1} /\ UNCHANGED reply
Refuses(codes) ==
  /\ pc' = End /\ UNCHANGED answered /\ bodies' \in {bodies, bodies + 1}
  /\ \E code \in codes : Write(code)
Answers == pc' = End /\ WriteData

\* The stages that find nothing malformed and ask nothing.
Ordinary ==
  \/ ParseWell \/ TokenStage \/ InstalledStage \/ MayAllStage \/ MayGetStage \/ MayGetNotNeeded
  \/ CopyStage \/ ListFails \/ ListWhole \/ ListSome \/ (\E o \in todo : Review(o))
  \/ FilterStage \/ ReadStage \/ GetStage \/ PageStage \/ AnswerStage

Malformed == QueryBad \/ CheckBad \/ RequireBad

AskMcp == Connect \/ ListTools \/ CallTool

\* What an ordinary stage leaves alone, and how it ends.
LEMMA OrdinaryStep ==
  ASSUME Place, Ordinary
  PROVE  /\ pc \in DOMAIN handler
         /\ UNCHANGED <<world, request, session, watched, met, missed, got>>
         /\ stage.do \notin {"ask", "cacheHas", "returnIfBad"}
         /\ stage.do = "query" => stage.arg \notin bad
         /\ stage.do = "answer" => Answers
         /\ Continues \/ Refuses({400, 401, 404, 500}) \/ Answers
<1>0. pc \in DOMAIN handler /\ stage.do \notin {"cacheHas", "answer"} =>
        stage.fail \in {400, 401, 500}
  BY StageTable DEF stage
<1>. USE <1>0 DEF At, Go, Abort, Continues, Refuses, Answers, reply
<1>1. CASE ParseWell
  BY <1>1 DEF ParseWell
<1>2. CASE TokenStage
  BY <1>2 DEF TokenStage, WriteText
<1>3. CASE InstalledStage
  BY <1>3 DEF InstalledStage
<1>4. CASE MayAllStage
  BY <1>4 DEF MayAllStage
<1>5. CASE MayGetStage \/ MayGetNotNeeded
  BY <1>5 DEF MayGetStage, MayGetNotNeeded
<1>6. CASE CopyStage \/ ListFails
  BY <1>6 DEF CopyStage, ListFails
<1>7. CASE ListWhole \/ ListSome
  BY <1>7 DEF ListWhole, ListSome
<1>8. CASE \E o \in todo : Review(o)
  BY <1>8 DEF Review
<1>9. CASE FilterStage \/ ReadStage
  BY <1>9 DEF FilterStage, ReadStage
<1>10. CASE GetStage
  BY <1>10 DEF GetStage
<1>11. CASE PageStage
  BY <1>11 DEF PageStage
<1>12. CASE AnswerStage
  BY <1>12 DEF AnswerStage
<1>. QED
  BY <1>1, <1>2, <1>3, <1>4, <1>5, <1>6, <1>7, <1>8, <1>9, <1>10, <1>11, <1>12 DEF Ordinary

\* The stages that find a part of the query malformed.
LEMMA MalformedStep ==
  ASSUME Place, Malformed
  PROVE  /\ pc \in DOMAIN handler /\ met'
         /\ stage.do \in {"query", "check", "require"}
         /\ UNCHANGED <<world, request, lists, window, session, watched, missed, got>>
         /\ Write(400) /\ pc' \in {pc + 1, End} /\ UNCHANGED answered
BY DEF Malformed, QueryBad, CheckBad, RequireBad, At, Abort, AbortAndGo, WriteText

\* Questions to the MCP server.
LEMMA AskStep ==
  ASSUME Place, AskMcp
  PROVE  /\ pc \in DOMAIN handler /\ stage.do = "ask"
         /\ UNCHANGED <<world, request, bounds, lists, window, watched, met, missed, got>>
         /\ Continues \/ Refuses({503}) \/ Refuses({400, 401, 500})
<1>1. pc \in DOMAIN handler /\ stage.do = "ask" => stage.fail \in {400, 401, 500}
  BY StageTable DEF stage
<1>. QED
  BY <1>1 DEF AskMcp, Connect, ListTools, CallTool, At, Go, Abort, Continues, Refuses, reply

\* Between two stages, the world changes and the request does not.
LEMMA ChangeStep ==
  ASSUME Change
  PROVE  UNCHANGED process /\ Watch
BY DEF Change, EditObject, CatchUp, ChangeRights, ChangeToken, ChangeInstalled, ChangeServer

\* The steps of a request, as the proofs tell them apart.
LEMMA Steps ==
  ASSUME [Next]_vars
  PROVE  \/ Ordinary \/ Malformed \/ ReturnIfBadStage \/ CacheHasStage \/ AskMcp
         \/ Change \/ Again \/ UNCHANGED vars
BY DEF Next, Handle, Ordinary, Malformed, AskMcp

-----------------------------------------------------------------------------

\* A handler never leaves its table, and never changes it.
LEMMA Placing == Spec => []Place
<1>1. Init => Place
  <2>. SUFFICES ASSUME Init PROVE Place
    OBVIOUS
  <2>1. WellFormed(handler)
    BY HandlerTable DEF Init
  <2>2. Len(handler) \in Nat
    BY <2>1 DEF WellFormed
  <2>. QED
    BY <2>2 DEF Init, Place, End
<1>2. Place /\ [Next]_vars => Place'
  <2>. SUFFICES ASSUME Place, [Next]_vars PROVE Place'
    OBVIOUS
  <2>. USE DEF Place, End, request
  <2>1. CASE Ordinary
    BY <2>1, Table, OrdinaryStep DEF Continues, Refuses, Answers
  <2>2. CASE Malformed
    BY <2>2, Table, MalformedStep
  <2>3. CASE ReturnIfBadStage
    BY <2>3, Table DEF ReturnIfBadStage, At, Go
  <2>4. CASE CacheHasStage
    BY <2>4, Table DEF CacheHasStage, At, Go
  <2>5. CASE AskMcp
    BY <2>5, Table, AskStep DEF Continues, Refuses
  <2>6. CASE Change
    BY <2>6, ChangeStep DEF process
  <2>7. CASE Again
    BY <2>7, Table DEF Again
  <2>8. CASE UNCHANGED vars
    BY <2>8 DEF vars
  <2>. QED
    BY <2>1, <2>2, <2>3, <2>4, <2>5, <2>6, <2>7, <2>8, Steps
<1>. QED
  BY <1>1, <1>2, PTL DEF Spec

-----------------------------------------------------------------------------
(* Sessions of the MCP server                                              *)

\* Only the handler that waits for the MCP server has a session in use.
SessionsInv ==
  /\ SessionsAccounted
  /\ sessions \in Nat /\ unlisted \in Nat
  /\ mcp \in {"open", "ready"} => At("ask")

LEMMA OpenedTyping == Spec => [](opened \in BOOLEAN)
<1>1. Init => opened \in BOOLEAN
  <2>1. Init => opened = FALSE
    BY DEF Init
  <2>. QED
    BY <2>1
<1>2. Place /\ [Next]_vars => opened' = opened \/ opened' = TRUE \/ opened' = FALSE
  <2>. SUFFICES ASSUME Place, [Next]_vars
                PROVE  opened' = opened \/ opened' = TRUE \/ opened' = FALSE
    OBVIOUS
  <2>1. CASE Ordinary \/ Malformed \/ UNCHANGED vars
    BY <2>1, OrdinaryStep, MalformedStep DEF vars, session
  <2>2. CASE ReturnIfBadStage \/ CacheHasStage
    BY <2>2 DEF ReturnIfBadStage, CacheHasStage, session
  <2>3. CASE AskMcp
    BY <2>3 DEF AskMcp, Connect, ListTools, CallTool
  <2>4. CASE Change
    BY <2>4, ChangeStep DEF process, session
  <2>5. CASE Again
    BY <2>5 DEF Again
  <2>. QED
    BY <2>1, <2>2, <2>3, <2>4, <2>5, Steps
<1>3. Place /\ opened \in BOOLEAN /\ [Next]_vars => (opened \in BOOLEAN)'
  BY <1>2
<1>. QED
  BY <1>1, <1>3, Placing, PTL DEF Spec

LEMMA SessionsKept == Spec => []SessionsInv
<1>1. Init => SessionsInv
  BY DEF Init, SessionsInv, SessionsAccounted
<1>2. Place /\ SessionsInv /\ [Next]_vars => SessionsInv'
  <2>. SUFFICES ASSUME Place, SessionsInv, [Next]_vars PROVE SessionsInv'
    OBVIOUS
  <2>. USE DEF SessionsInv, SessionsAccounted, session, request
  <2>1. CASE Ordinary
    BY <2>1, OrdinaryStep DEF At
  <2>2. CASE Malformed
    BY <2>2, MalformedStep DEF At
  <2>3. CASE ReturnIfBadStage \/ CacheHasStage
    BY <2>3 DEF ReturnIfBadStage, CacheHasStage, At
  <2>4. CASE Connect
    BY <2>4 DEF Connect, At, Abort, stage
  <2>5. CASE ListTools
    BY <2>5 DEF ListTools, At, Abort, stage
  <2>6. CASE CallTool
    BY <2>6 DEF CallTool
  <2>7. CASE Change
    BY <2>7, ChangeStep DEF process, At, stage
  <2>8. CASE Again
    BY <2>8, Table DEF Again, At
  <2>9. CASE UNCHANGED vars
    BY <2>9 DEF vars, At, stage
  <2>. QED
    BY <2>1, <2>2, <2>3, <2>4, <2>5, <2>6, <2>7, <2>8, <2>9, Steps DEF AskMcp
<1>. QED
  BY <1>1, <1>2, Placing, PTL DEF Spec

\* The sessions that stay open are exactly those whose tools could not be listed, whatever
\* else fails, and however often the server is asked.
THEOREM SessionsCounted == Spec => []SessionsAccounted
<1>1. SessionsInv => SessionsAccounted
  BY DEF SessionsInv
<1>. QED
  BY <1>1, SessionsKept, PTL

-----------------------------------------------------------------------------
(* Malformed requests                                                      *)

\* Before anything malformed is met, nothing is written, but for a profile that the map
\* does not have; and a handler that looks for one has parsed its query.
MalformedInv ==
  /\ status \in Nat
  /\ met => status = 400
  /\ ~Done /\ ~missed => status \in {0, 400}
  /\ ~Done /\ missed => \E i \in 1..(pc - 1) : handler[i].do = "cacheHas"

\* What was written for a malformed part stays the status of the answer.
LEMMA MalformedKept == Spec => []MalformedInv
<1>1. Init => MalformedInv
  BY DEF Init, MalformedInv
<1>2. Place /\ MalformedInv /\ [Next]_vars => MalformedInv'
  <2>. SUFFICES ASSUME Place, MalformedInv, [Next]_vars PROVE MalformedInv'
    OBVIOUS
  <2>0. /\ pc \in Nat
        /\ pc \in DOMAIN handler => ~Done /\ pc \in 1..(pc + 1 - 1)
        /\ handler' = handler => End' = End
        /\ \A i : i \in 1..(pc - 1) => i \in 1..(pc + 1 - 1)
    BY Table DEF End
  <2>. USE <2>0 DEF MalformedInv, request, reply, Done, Write
  <2>1. CASE Ordinary
    <3>1. UNCHANGED <<met, missed, handler>> /\ ~Done
      BY <2>1, OrdinaryStep
    <3>2. CASE Continues
      BY <3>1, <3>2 DEF Continues
    <3>3. CASE Refuses({400, 401, 404, 500}) \/ Answers
      BY <3>1, <3>3 DEF Refuses, Answers, WriteData
    <3>. QED
      BY <2>1, <3>2, <3>3, OrdinaryStep
  <2>2. CASE Malformed
    <3>1. ~missed
      BY <2>2, MalformedStep, StageTable DEF stage
    <3>. QED
      BY <3>1, <2>2, MalformedStep
  <2>3. CASE ReturnIfBadStage
    BY <2>3 DEF ReturnIfBadStage, At, Go
  <2>4. CASE CacheHasStage
    <3>1. /\ pc \in DOMAIN handler /\ handler[pc].do = "cacheHas"
          /\ UNCHANGED <<met, handler>> /\ pc' = pc + 1
      BY <2>4 DEF CacheHasStage, At, Go, WriteText, stage
    <3>2. missed' => \E i \in 1..(pc' - 1) : handler'[i].do = "cacheHas"
      BY <3>1
    <3>. QED
      BY <2>4, <3>1, <3>2 DEF CacheHasStage, Go, WriteText
  <2>5. CASE AskMcp
    BY <2>5, AskStep DEF Continues, Refuses
  <2>6. CASE Change
    BY <2>6, ChangeStep DEF process
  <2>7. CASE Again
    BY <2>7 DEF Again
  <2>8. CASE UNCHANGED vars
    BY <2>8 DEF vars
  <2>. QED
    BY <2>1, <2>2, <2>3, <2>4, <2>5, <2>6, <2>7, <2>8, Steps
<1>. QED
  BY <1>1, <1>2, Placing, PTL DEF Spec

\* A request with a malformed part is answered with 400, whatever the handler does next.
THEOREM MalformedAnswered == Spec => []MalformedIs400
<1>1. MalformedInv => MalformedIs400
  BY DEF MalformedInv, MalformedIs400
<1>. QED
  BY <1>1, MalformedKept, PTL

-----------------------------------------------------------------------------
(* Rows                                                                    *)

\* The rows of a list, and what may become one.
RowsInv ==
  /\ DOMAIN objects \subseteq Objects
  /\ todo \subseteq Objects
  /\ rows \subseteq Objects

\* A change of the world brings no new objects.
LEMMA ChangeDomain ==
  ASSUME Change
  PROVE  DOMAIN objects' = DOMAIN objects
BY DEF Change, EditObject, CatchUp, ChangeRights, ChangeToken, ChangeInstalled, ChangeServer

\* The rows of an answer are objects, and the objects a request looks at stay the same ones.
THEOREM RowsAreObjects == Spec => []RowsInv
<1>1. Init => RowsInv
  BY DEF Init, RowsInv, Relevant, OfKind
<1>2. Place /\ RowsInv /\ [Next]_vars => RowsInv'
  <2>. SUFFICES ASSUME Place, RowsInv, [Next]_vars PROVE RowsInv'
    OBVIOUS
  <2>. USE DEF RowsInv, lists, world
  <2>1. CASE Ordinary
    <3>0. UNCHANGED objects
      BY <2>1, OrdinaryStep
    <3>1. CASE ListWhole
      BY <3>0, <3>1 DEF ListWhole, Everything, Candidates, Looked, OfKind
    <3>2. CASE ListSome
      BY <3>0, <3>2 DEF ListSome, Candidates, Looked
    <3>3. CASE \E o \in todo : Review(o)
      BY <3>0, <3>3 DEF Review
    <3>4. CASE FilterStage \/ ReadStage
      BY <3>0, <3>4 DEF FilterStage, ReadStage, Looked
    <3>5. CASE ParseWell \/ TokenStage \/ InstalledStage \/ MayAllStage \/ MayGetStage
                 \/ MayGetNotNeeded \/ CopyStage \/ ListFails \/ GetStage \/ PageStage
                 \/ AnswerStage
      BY <3>0, <3>5 DEF ParseWell, TokenStage, InstalledStage, MayAllStage, MayGetStage,
           MayGetNotNeeded, CopyStage, ListFails, GetStage, PageStage, AnswerStage
    <3>. QED
      BY <2>1, <3>1, <3>2, <3>3, <3>4, <3>5 DEF Ordinary
  <2>2. CASE Malformed
    BY <2>2, MalformedStep
  <2>3. CASE ReturnIfBadStage \/ CacheHasStage
    BY <2>3 DEF ReturnIfBadStage, CacheHasStage
  <2>4. CASE AskMcp
    BY <2>4, AskStep
  <2>5. CASE Change
    BY <2>5, ChangeStep, ChangeDomain DEF process
  <2>6. CASE Again
    BY <2>6 DEF Again
  <2>7. CASE UNCHANGED vars
    BY <2>7 DEF vars
  <2>. QED
    BY <2>1, <2>2, <2>3, <2>4, <2>5, <2>6, <2>7, Steps
<1>. QED
  BY <1>1, <1>2, Placing, PTL DEF Spec

-----------------------------------------------------------------------------
(* Pages                                                                   *)

\* A page is cut out of the rows just before the answer, so that neither the rows nor the
\* bounds change after it; what the client has got fits in an int.
WindowInv ==
  /\ WindowRight
  /\ sliced # NotSliced => Done \/ At("answer")
  /\ limit \in Ints /\ skip \in Ints
  /\ page \in Seq(Objects) /\ got \in Seq(Objects) /\ Len(got) <= MaxInt

\* There are no more rows than an int counts.
LEMMA RowsFit ==
  ASSUME RowsInv
  PROVE  /\ IsFiniteSet(rows) /\ Cardinality(rows) \in 0..MaxInt
         /\ Cardinality(rows) = 0 => rows = {}
<1>1. IsFiniteSet(rows) /\ Cardinality(rows) <= Cardinality(Objects)
  BY RequestConstants, FS_Subset DEF RowsInv
<1>. QED
  BY <1>1, RequestConstants, PagingConstants, FS_CardinalityType, FS_EmptySet

\* What a query or a walk through the pages asks for is an int.
LEMMA BoundsAreInts ==
  ASSUME WindowInv, ParseBounds
  PROVE  limit' \in Ints /\ skip' \in Ints
<1>1. \A b \in Bounds \cup {<<maxItems, 0>>} : b[1] \in Ints /\ b[2] \in Ints
  BY RequestConstants, PagingConstants DEF Ints
<1>2. Len(got) \in Ints
  BY PagingConstants DEF WindowInv, Ints
<1>. QED
  BY <1>1, <1>2 DEF ParseBounds, WindowInv, bounds

\* The page of a list is right when it is cut.
LEMMA CutRight ==
  ASSUME Place, RowsInv, WindowInv, PageStage
  PROVE  WindowInv'
<1>. DEFINE n == Cardinality(rows)
<1>1. /\ pc \in DOMAIN handler /\ UNCHANGED <<handler, limit, skip, rows, got>>
      /\ sliced' \in {getClustersInRange(n, limit, skip), getSliceInRange(n, limit, skip)}
  BY DEF PageStage, At, InRange, lists, bounds, request
<1>2. n \in 0..MaxInt /\ (n = 0 => rows = {})
  BY RowsFit
<1>3. WindowRight'
  <2>1. /\ getSliceInRange(n, limit, skip).result = "ok"
              => getSliceInRange(n, limit, skip) = Window(n, limit, skip)
        /\ getClustersInRange(n, limit, skip).result = "ok"
              => getClustersInRange(n, limit, skip) = Window(n, limit, skip) \/ rows = {}
        /\ skip >= 0 /\ limit >= 0 /\ skip + limit <= MaxInt
              => /\ getSliceInRange(n, limit, skip).result = "ok"
                 /\ getClustersInRange(n, limit, skip).result = "ok"
    <3>1. limit \in Ints /\ skip \in Ints
      BY DEF WindowInv
    <3>2. Slice(0, 0).result = "ok"
      BY DEF Slice
    <3>. QED
      BY <1>2, <3>1, <3>2, WindowExact DEF getClustersInRange
  <2>. HIDE DEF n
  <2>2. sliced'.result = "ok" => sliced' = Window(n, limit, skip) \/ rows = {}
    BY <1>1, <2>1
  <2>3. skip >= 0 /\ limit >= 0 /\ skip + limit <= MaxInt => sliced'.result = "ok"
    BY <1>1, <2>1
  <2>4. Cardinality(rows)' = n
    BY <1>1 DEF n
  <2>. QED
    BY <1>1, <2>2, <2>3, <2>4 DEF WindowRight
<1>4. Done' \/ At("answer")'
  <2>1. pc' \in {pc + 1, End}
    BY DEF PageStage, Go, Abort
  <2>2. pc + 1 = Len(handler)
    BY <1>1, StageTable DEF PageStage, At, stage
  <2>. QED
    BY <1>1, <2>1, <2>2, Table DEF Done, At, stage, Answer, Stage, End
<1>5. page' \in Seq(Objects)
  <2>1. CASE sliced'.result = "ok"
    <3>1. sliced'.from \in Nat /\ sliced'.to \in 0..n
      BY <1>1, <1>2, <2>1, WindowInside DEF WindowInv
    <3>2. \A s \in [1..n -> rows] : SubSeq(s, sliced'.from + 1, sliced'.to) \in Seq(Objects)
      <4>. TAKE s \in [1..n -> rows]
      <4>1. \A i \in (sliced'.from + 1)..(sliced'.to) : s[i] \in Objects
        BY <1>2, <3>1 DEF RowsInv
      <4>. QED
        BY <3>1, <4>1, SubSeqProperties
    <3>. QED
      BY <2>1, <3>2 DEF PageStage, Orders, WindowInv
  <2>2. CASE sliced'.result # "ok"
    BY <2>2 DEF PageStage, WindowInv
  <2>. QED
    BY <2>1, <2>2
<1>. QED
  BY <1>1, <1>3, <1>4, <1>5 DEF WindowInv

LEMMA WindowKept == Spec => []WindowInv
<1>1. Init => WindowInv
  BY PagingConstants DEF Init, WindowInv, WindowRight, Ints, NotSliced
<1>2. Place /\ RowsInv /\ WindowInv /\ [Next]_vars => WindowInv'
  <2>. SUFFICES ASSUME Place, RowsInv, WindowInv, [Next]_vars PROVE WindowInv'
    OBVIOUS
  <2>0. ASSUME pc \in DOMAIN handler, stage.do # "answer", UNCHANGED window,
               UNCHANGED got, limit' \in Ints, skip' \in Ints
        PROVE  WindowInv'
    BY <2>0, Table DEF WindowInv, WindowRight, window, At
  <2>1. CASE PageStage
    BY <2>1, CutRight
  <2>2. CASE AnswerStage
    BY <2>2 DEF AnswerStage, WindowInv, WindowRight, Done, End, lists, bounds, window, request
  <2>3. CASE ParseWell
    BY <2>0, <2>3, BoundsAreInts DEF ParseWell, At
  <2>4. CASE \/ TokenStage \/ InstalledStage \/ MayAllStage \/ MayGetStage \/ MayGetNotNeeded
             \/ CopyStage \/ ListFails \/ GetStage
    BY <2>0, <2>4 DEF TokenStage, InstalledStage, MayAllStage, MayGetStage, MayGetNotNeeded,
         CopyStage, ListFails, GetStage, At, bounds, WindowInv
  <2>5. CASE ListWhole \/ ListSome \/ (\E o \in todo : Review(o)) \/ FilterStage \/ ReadStage
    BY <2>0, <2>5 DEF ListWhole, ListSome, Review, FilterStage, ReadStage, At, bounds, WindowInv
  <2>6. CASE Malformed
    <3>1. limit' \in Ints /\ skip' \in Ints
      <4>1. AtoiErrors \subseteq Ints /\ maxItems \in Ints /\ \A b \in Bounds : b[1] \in Ints
        BY RequestConstants, PagingConstants DEF AtoiErrors, Ints
      <4>. QED
        BY <2>6, <4>1 DEF Malformed, QueryBad, CheckBad, RequireBad, bounds, WindowInv
    <3>. QED
      BY <2>0, <2>6, <3>1, MalformedStep
  <2>7. CASE ReturnIfBadStage \/ CacheHasStage
    BY <2>0, <2>7 DEF ReturnIfBadStage, CacheHasStage, At, bounds, WindowInv
  <2>8. CASE AskMcp
    BY <2>0, <2>8, AskStep DEF bounds, WindowInv
  <2>9. CASE Change
    BY <2>9, ChangeStep
       DEF process, WindowInv, WindowRight, Done, End, At, stage, lists, bounds, window, request
  <2>10. CASE Again
    <3>1. got' \in Seq(Objects) /\ Len(got') <= MaxInt
      <4>1. CASE got' = got \o page /\ Len(got) + Len(page) < Cardinality(rows)
        <5>1. Len(got) \in Nat /\ Len(page) \in Nat
          BY DEF WindowInv
        <5>2. got' \in Seq(Objects) /\ Len(got') = Len(got) + Len(page)
          BY <4>1, ConcatProperties DEF WindowInv
        <5>3. Cardinality(rows) \in 0..MaxInt
          BY RowsFit
        <5>. QED
          BY <4>1, <5>1, <5>2, <5>3, PagingConstants
      <4>2. CASE UNCHANGED got
        BY <4>2 DEF WindowInv
      <4>. QED
        BY <2>10, <4>1, <4>2 DEF Again
    <3>. QED
      BY <2>10, <3>1 DEF Again, WindowInv, WindowRight, NotSliced, bounds
  <2>11. CASE UNCHANGED vars
    BY <2>11 DEF vars, WindowInv, WindowRight, Done, End, At, stage, lists, bounds, window,
                 request
  <2>. QED
    BY <2>1, <2>2, <2>3, <2>4, <2>5, <2>6, <2>7, <2>8, <2>9, <2>10, <2>11, Steps DEF Ordinary
<1>. QED
  BY <1>1, <1>2, Placing, RowsAreObjects, PTL DEF Spec

\* A page is the window that limit and skip ask for, for any list and any int.
THEOREM WindowsRight == Spec => []WindowRight
<1>1. WindowInv => WindowRight
  BY DEF WindowInv
<1>. QED
  BY <1>1, WindowKept, PTL

-----------------------------------------------------------------------------
(* Types                                                                   *)

WorldTypeOK ==
  /\ objects \in [DOMAIN objects -> {"absent", "present", "deleting"}]
  /\ cached \subseteq Objects /\ rights \in Users
  /\ token \in BOOLEAN /\ installed \in BOOLEAN /\ up \in BOOLEAN
  /\ changes \in Nat

QueryTypeOK ==
  /\ bad \subseteq Parsed /\ wanted \subseteq Objects
  /\ target \in [DOMAIN target -> Objects]

HandlerTypeOK ==
  /\ all \subseteq Kinds /\ copy \subseteq Objects
  /\ sliced.result \in {"none", "ok", "refused", "panic"}
  /\ mcp \in {"unused", "open", "ready", "closed"}

ReplyTypeOK ==
  /\ status \in {0, 200, 400, 401, 404, 500, 503}
  /\ bodies \in Nat /\ answered \in BOOLEAN

\* A review that says yes to a whole kind says it of a kind that there is.
LEMMA AllOfAKind ==
  ASSUME WorldTypeOK, NEW kind, CanAll(kind)
  PROVE  kind \in Kinds
BY RequestConstants DEF WorldTypeOK, CanAll

LEMMA WorldTyping == Spec => [](RowsInv /\ WorldTypeOK)
<1>1. Init => WorldTypeOK
  <2>. SUFFICES ASSUME Init PROVE WorldTypeOK
    OBVIOUS
  <2>1. /\ rights \in Users /\ token \in BOOLEAN /\ up \in BOOLEAN /\ installed \in BOOLEAN
        /\ changes = MaxChanges[path] /\ path \in Paths
    BY DEF Init
  <2>2. changes \in Nat
    BY <2>1, RequestConstants
  <2>3. objects \in [DOMAIN objects -> {"absent", "present", "deleting"}]
    BY DEF Init
  <2>4. cached \subseteq Objects
    BY DEF Init, Looked, Relevant, OfKind
  <2>. QED
    BY <2>1, <2>2, <2>3, <2>4 DEF WorldTypeOK
<1>2. Place /\ RowsInv /\ WorldTypeOK /\ [Next]_vars => WorldTypeOK'
  <2>. SUFFICES ASSUME Place, RowsInv, WorldTypeOK, [Next]_vars PROVE WorldTypeOK'
    OBVIOUS
  <2>. USE DEF WorldTypeOK
  <2>1. CASE UNCHANGED world
    BY <2>1 DEF world
  <2>2. CASE \E o \in DOMAIN objects : EditObject(o)
    BY <2>2 DEF EditObject, Changes
  <2>3. CASE \E o \in DOMAIN objects : CatchUp(o)
    BY <2>3 DEF CatchUp, RowsInv
  <2>4. CASE ChangeRights \/ ChangeToken \/ ChangeServer
    <3>1. UNCHANGED <<objects, cached, installed>> /\ changes' = changes - 1 /\ changes > 0
      BY <2>4 DEF ChangeRights, ChangeToken, ChangeServer, Changes
    <3>2. rights' \in Users
      BY <2>4 DEF ChangeRights, ChangeToken, ChangeServer
    <3>3. token' \in BOOLEAN /\ up' \in BOOLEAN
      BY <2>4 DEF ChangeRights, ChangeToken, ChangeServer
    <3>. QED
      BY <3>1, <3>2, <3>3
  <2>5. CASE ChangeInstalled
    BY <2>5 DEF ChangeInstalled, Changes
  <2>6. UNCHANGED world \/ Change
    BY Steps, OrdinaryStep, MalformedStep, AskStep
       DEF ReturnIfBadStage, CacheHasStage, Again, vars
  <2>. QED
    BY <2>1, <2>2, <2>3, <2>4, <2>5, <2>6 DEF Change
<1>. QED
  BY <1>1, <1>2, Placing, RowsAreObjects, PTL DEF Spec

LEMMA QueryTyping == Spec => []QueryTypeOK
<1>1. Init => QueryTypeOK
  <2>. SUFFICES ASSUME Init PROVE QueryTypeOK
    OBVIOUS
  <2>1. wanted \subseteq Objects
    BY RequestConstants DEF Init
  <2>2. target \in [Parts(path) -> Objects]
    BY RequestConstants DEF Init
  <2>. QED
    BY <2>1, <2>2 DEF Init, QueryTypeOK
<1>2. Place /\ QueryTypeOK /\ [Next]_vars => QueryTypeOK'
  <2>. SUFFICES ASSUME Place, QueryTypeOK, [Next]_vars PROVE QueryTypeOK'
    OBVIOUS
  <2>1. UNCHANGED request
    BY Steps, OrdinaryStep, MalformedStep, AskStep, ChangeStep
       DEF ReturnIfBadStage, CacheHasStage, Again, vars, process
  <2>. QED
    BY <2>1 DEF request, QueryTypeOK, Parsed, Has
<1>. QED
  BY <1>1, <1>2, Placing, PTL DEF Spec

LEMMA HandlerTyping == Spec => []HandlerTypeOK
<1>1. Init => HandlerTypeOK
  BY DEF Init, HandlerTypeOK, NotSliced
<1>2. Place /\ WorldTypeOK /\ RowsInv /\ HandlerTypeOK /\ [Next]_vars => HandlerTypeOK'
  <2>. SUFFICES ASSUME Place, WorldTypeOK, RowsInv, HandlerTypeOK, [Next]_vars
                PROVE  HandlerTypeOK'
    OBVIOUS
  <2>. USE DEF HandlerTypeOK
  <2>1. CASE UNCHANGED <<all, copy, sliced, mcp>>
    BY <2>1
  <2>2. CASE MayAllStage
    <3>1. all' = all \cup {k \in {KindOfArg(stage.arg)} : CanAll(k)} \/ all' = all
      BY <2>2 DEF MayAllStage
    <3>. QED
      BY <2>2, <3>1, AllOfAKind DEF MayAllStage, window, session
  <2>3. CASE CopyStage
    BY <2>3 DEF CopyStage, OfKind, window, session
  <2>4. CASE PageStage
    <3>1. \A len, l, s : /\ getSliceInRange(len, l, s).result \in {"ok", "refused", "panic"}
                         /\ getClustersInRange(len, l, s).result \in {"ok", "refused", "panic"}
      BY DEF getClustersInRange, getSliceInRange, SliceOf, Slice, Refused, Panic
    <3>2. sliced'.result \in {"ok", "refused", "panic"}
      BY <2>4, <3>1 DEF PageStage, InRange
    <3>. QED
      BY <2>4, <3>2 DEF PageStage, lists, session
  <2>5. CASE AskMcp
    BY <2>5 DEF AskMcp, Connect, ListTools, CallTool, lists, window
  <2>6. CASE Again
    BY <2>6 DEF Again, NotSliced
  <2>7. CASE \/ ParseWell \/ TokenStage \/ InstalledStage \/ MayGetStage \/ MayGetNotNeeded
             \/ ListFails \/ GetStage \/ AnswerStage
    BY <2>1, <2>7 DEF ParseWell, TokenStage, InstalledStage, MayGetStage, MayGetNotNeeded,
         ListFails, GetStage, AnswerStage, lists, window, session
  <2>8. CASE ListWhole \/ ListSome \/ (\E o \in todo : Review(o)) \/ FilterStage \/ ReadStage
    BY <2>1, <2>8 DEF ListWhole, ListSome, Review, FilterStage, ReadStage, window, session
  <2>9. CASE Malformed
    BY <2>1, <2>9, MalformedStep DEF lists, window, session
  <2>10. CASE ReturnIfBadStage \/ CacheHasStage
    BY <2>1, <2>10 DEF ReturnIfBadStage, CacheHasStage, lists, window, session
  <2>11. CASE Change \/ UNCHANGED vars
    BY <2>1, <2>11, ChangeStep DEF process, vars, lists, window, session
  <2>. QED
    BY <2>2, <2>3, <2>4, <2>5, <2>6, <2>7, <2>8, <2>9, <2>10, <2>11, Steps DEF Ordinary
<1>. QED
  BY <1>1, <1>2, Placing, WorldTyping, PTL DEF Spec

LEMMA ReplyTyping == Spec => []ReplyTypeOK
<1>1. Init => ReplyTypeOK
  <2>1. Init => status = 0 /\ bodies = 0 /\ answered = FALSE
    BY DEF Init
  <2>2. Init => status \in {0, 200, 400, 401, 404, 500, 503} /\ bodies \in Nat
    BY <2>1
  <2>3. Init => answered \in BOOLEAN
    BY <2>1
  <2>. QED
    BY <2>2, <2>3 DEF ReplyTypeOK
<1>2. Place /\ ReplyTypeOK /\ [Next]_vars => ReplyTypeOK'
  <2>. SUFFICES ASSUME Place, ReplyTypeOK, [Next]_vars PROVE ReplyTypeOK'
    OBVIOUS
  <2>. USE DEF ReplyTypeOK, reply, Write
  <2>1. CASE Ordinary \/ AskMcp
    <3>1. Continues \/ Refuses({400, 401, 404, 500, 503}) \/ Answers
      BY <2>1, OrdinaryStep, AskStep DEF Refuses
    <3>2. CASE Continues \/ Answers
      <4>1. status' \in {0, 200, 400, 401, 404, 500, 503} /\ bodies' \in Nat
        BY <3>2 DEF Continues, Answers, WriteData
      <4>2. answered' \in BOOLEAN
        BY <3>2 DEF Continues, Answers, WriteData
      <4>. QED
        BY <4>1, <4>2
    <3>3. CASE Refuses({400, 401, 404, 500, 503})
      BY <3>3 DEF Refuses
    <3>. QED
      BY <3>1, <3>2, <3>3
  <2>2. CASE Malformed
    BY <2>2 DEF Malformed, QueryBad, CheckBad, RequireBad, WriteText, Abort, AbortAndGo
  <2>3. CASE ReturnIfBadStage \/ CacheHasStage
    BY <2>3 DEF ReturnIfBadStage, CacheHasStage, Go, WriteText
  <2>4. CASE Change \/ UNCHANGED vars
    BY <2>4, ChangeStep DEF process, vars
  <2>5. CASE Again
    BY <2>5 DEF Again
  <2>. QED
    BY <2>1, <2>2, <2>3, <2>4, <2>5, Steps
<1>. QED
  BY <1>1, <1>2, Placing, PTL DEF Spec

\* Whatever the query, the rights and the changes during a request, the variables keep their
\* types: no status is sent that no handler has, no row is anything but an object.
THEOREM Typing == Spec => []TypeOK
<1>1. /\ Place /\ RowsInv /\ WorldTypeOK /\ QueryTypeOK /\ HandlerTypeOK /\ ReplyTypeOK
      /\ WindowInv /\ SessionsInv /\ opened \in BOOLEAN
      => TypeOK
  BY DEF Place, RowsInv, WorldTypeOK, QueryTypeOK, HandlerTypeOK, ReplyTypeOK, WindowInv,
         SessionsInv, TypeOK
<1>. QED
  BY <1>1, Placing, WorldTyping, QueryTyping, HandlerTyping, ReplyTyping, WindowKept,
     SessionsKept, OpenedTyping, PTL

-----------------------------------------------------------------------------
(* Rights                                                                  *)

\* The parts of the query name objects of their kinds.
TargetInv ==
  /\ DOMAIN target = Parts(path)
  /\ \A part \in DOMAIN target :
       target[part] \in Objects /\ KindOf[target[part]] \in PartKinds[part]

\* History has seen the rights and the token of now.
SeenInv == Gettable \subseteq allowedGet /\ Listable \subseteq allowedAll /\ (token => trusted)

\* Whoever may list a kind might list all of it, and get it if the review was for get.
MayAllInv ==
  \A k \in all : /\ OfKind({k}) \subseteq allowedAll
                 /\ k \notin ListKinds => OfKind({k}) \subseteq allowedGet

RowsReviewed == rows \cap OfKind(ReviewedKinds) \subseteq allowedGet \cup allowedAll

\* What a stage that was passed shows.
Passed(i) ==
  /\ handler[i] = Token => trusted
  /\ handler[i].do \in {"mayGet", "mayGetUnlessAll"} /\ handler[i].arg \notin bad =>
       target[handler[i].arg] \in allowedGet

AnswerReviewed ==
  /\ trusted \/ rows \cup Subjects(path) = {}
  /\ \A part \in Subjects(path) \ bad : target[part] \in allowedGet

\* A handler has passed all the stages before the one at work; that the list of the clusters
\* of ClusterAPI is answered early is no answer about anything.
AllowedInv ==
  /\ TargetInv /\ SeenInv /\ MayAllInv /\ RowsReviewed
  /\ ~Done => \A i \in 1..(pc - 1) : Passed(i)
  /\ answered => Done /\ AnswerReviewed
  /\ At("installed") => rows = {}

\* A stage that answers nothing keeps the invariant if what it lists and what it lets pass
\* was reviewed.
LEMMA StageKeeps ==
  ASSUME Place, AllowedInv, pc \in DOMAIN handler,
         UNCHANGED <<world, request, watched, answered>>,
         pc' \in {pc, pc + 1, End}, pc' = pc + 1 /\ pc' # End => Passed(pc),
         stage.do = "installed" => pc' # pc,
         MayAllInv', RowsReviewed'
  PROVE  AllowedInv'
<1>0. UNCHANGED <<handler, path, target, bad, End>> /\ pc \in Nat /\ ~Done
  BY Table DEF request, End
<1>1. TargetInv'
  BY <1>0 DEF AllowedInv, TargetInv
<1>2. SeenInv'
  BY DEF AllowedInv, SeenInv, Gettable, Listable, CanGet, CanAll, world, watched
<1>3. \A i : Passed(i)' <=> Passed(i)
  BY <1>0 DEF Passed, watched
<1>4. ~Done' => \A i \in 1..(pc' - 1) : Passed(i)'
  <2>1. CASE pc' = pc + 1
    BY <1>0, <1>3, <2>1 DEF AllowedInv, Done
  <2>2. CASE pc' = pc
    BY <1>0, <1>3, <2>2 DEF AllowedInv
  <2>3. CASE pc' = End
    BY <1>0, <2>3 DEF Done
  <2>. QED
    BY <2>1, <2>2, <2>3
<1>5. ~answered'
  BY <1>0 DEF AllowedInv
<1>6. ~At("installed")'
  <2>. SUFFICES ASSUME pc' \in DOMAIN handler, handler[pc'].do = "installed" PROVE FALSE
    BY <1>0 DEF At, stage
  <2>1. pc' = 1
    BY StageTable
  <2>. QED
    BY <1>0, <2>1, Table DEF stage
<1>. QED
  BY <1>1, <1>2, <1>4, <1>5, <1>6 DEF AllowedInv

\* A stage that lists nothing and reviews nothing but what it lets pass.
LEMMA StagePasses ==
  ASSUME Place, AllowedInv, pc \in DOMAIN handler,
         UNCHANGED <<world, request, watched, answered, all, rows>>,
         pc' \in {pc, pc + 1, End}, pc' = pc + 1 /\ pc' # End => Passed(pc),
         stage.do = "installed" => pc' # pc
  PROVE  AllowedInv'
<1>1. MayAllInv' /\ RowsReviewed'
  BY DEF AllowedInv, MayAllInv, RowsReviewed, watched
<1>. QED
  BY <1>1, StageKeeps

\* The object that a review names is one.
LEMMA ReviewNames ==
  ASSUME Place, AllowedInv, At("mayGet") \/ At("mayGetUnlessAll")
  PROVE  /\ stage.arg \in DOMAIN target
         /\ target[stage.arg] \in Objects
         /\ KindOf[target[stage.arg]] \in PartKinds[stage.arg]
         /\ At("mayGetUnlessAll") => PartKinds[stage.arg] \cap ListKinds = {}
<1>1. pc \in DOMAIN handler
  BY DEF At
<1>2. PICK j \in 1..(pc - 1) : /\ handler[j].do \in {"query", "check", "require"}
                               /\ handler[j].arg = stage.arg
  BY <1>1, StageTable DEF At, stage
<1>3. j \in DOMAIN handler
  BY <1>1, <1>2, Table
<1>4. stage.arg \in {"cluster", "profile", "trigger", "classifier"}
  BY <1>1, StageTable DEF At, stage
<1>5. stage.arg \in Parts(path)
  BY <1>2, <1>3, <1>4 DEF Parts, Args, PartKinds, Place
<1>6. At("mayGetUnlessAll") => stage.arg \in {"trigger", "classifier"}
  BY <1>1, StageTable DEF At, stage
<1>7. /\ stage.arg \in DOMAIN target
      /\ target[stage.arg] \in Objects
      /\ KindOf[target[stage.arg]] \in PartKinds[stage.arg]
  BY <1>5 DEF AllowedInv, TargetInv
<1>8. /\ PartKinds["trigger"] = {"EventTrigger"}
      /\ PartKinds["classifier"] = {"Classifier", "MCC"}
  BY DEF PartKinds
<1>. QED
  BY <1>6, <1>7, <1>8 DEF ListKinds

\* Nothing is answered but what was reviewed.
LEMMA AnswerWasReviewed ==
  ASSUME Place, AllowedInv, At("answer")
  PROVE  AnswerReviewed
<1>1. /\ pc = Len(handler) /\ pc \in Nat /\ ~Done /\ DOMAIN handler = 1..Len(handler)
      /\ handler[Len(handler)] = Answer
  BY StageTable, Table DEF At, stage
<1>2. \A i \in DOMAIN handler :
        handler[i] = Token \/ handler[i].do \in {"mayGet", "mayGetUnlessAll"} => Passed(i)
  <2>1. Answer # Token /\ Answer.do \notin {"mayGet", "mayGetUnlessAll"}
    BY DEF Answer, Token, Stage
  <2>. QED
    BY <1>1, <2>1 DEF AllowedInv
<1>3. trusted
  BY <1>2, Table DEF Passed
<1>4. ASSUME NEW part \in Subjects(path), part \notin bad
      PROVE  target[part] \in allowedGet
  <2>1. PICK i \in DOMAIN handler : handler[i] \in {MayGet(part), MayGetUnlessAll(part)}
    BY SubjectsReviewed DEF Place
  <2>. QED
    BY <1>2, <1>4, <2>1 DEF Passed, MayGet, MayGetUnlessAll, Stage
<1>. QED
  BY <1>3, <1>4 DEF AnswerReviewed

\* An answer keeps the invariant if what it is about was reviewed.
LEMMA AnswerKeeps ==
  ASSUME Place, AllowedInv, pc \in DOMAIN handler, AnswerReviewed, pc' = End,
         UNCHANGED <<world, request, watched, all, rows>>
  PROVE  AllowedInv'
<1>1. UNCHANGED <<handler, path, target, bad, End>>
  BY DEF request, End
<1>2. TargetInv' /\ MayAllInv' /\ RowsReviewed'
  BY <1>1 DEF AllowedInv, TargetInv, MayAllInv, RowsReviewed, watched
<1>3. SeenInv'
  BY DEF AllowedInv, SeenInv, Gettable, Listable, CanGet, CanAll, world, watched
<1>4. AnswerReviewed'
  BY <1>1 DEF AnswerReviewed, watched
<1>5. Done' /\ ~At("installed")'
  BY <1>1, Table DEF Done, At
<1>. QED
  BY <1>2, <1>3, <1>4, <1>5 DEF AllowedInv

\* The rows that a list adds were reviewed.
LEMMA ListedReviewed ==
  ASSUME Place, AllowedInv, ListWhole \/ (\E o \in todo : Review(o)) \/ FilterStage \/ ReadStage
  PROVE  RowsReviewed'
<1>. USE DEF RowsReviewed, AllowedInv
<1>1. UNCHANGED <<allowedGet, allowedAll>>
  BY DEF ListWhole, Review, FilterStage, ReadStage, watched
<1>2. CASE ListWhole
  <2>1. Everything(stage.arg) \cap OfKind(ReviewedKinds) \subseteq OfKind({stage.arg})
    BY DEF Everything, Candidates, Looked, OfKind
  <2>2. stage.arg \in all
    BY <1>2 DEF ListWhole, Whole
  <2>. QED
    BY <1>1, <1>2, <2>1, <2>2 DEF ListWhole, MayAllInv
<1>3. ASSUME NEW o \in todo, Review(o)
      PROVE  RowsReviewed'
  BY <1>1, <1>3 DEF Review, SeenInv, Gettable, OfKind
<1>4. CASE FilterStage
  BY <1>1, <1>4 DEF FilterStage
<1>5. CASE ReadStage
  <2>1. stage.arg \notin ReviewedKinds
    BY <1>5, StageTable DEF ReadStage, At, stage
  <2>2. Looked({stage.arg}) \cap OfKind(ReviewedKinds) = {}
    BY <2>1 DEF Looked, OfKind
  <2>. QED
    BY <1>1, <1>5, <2>2 DEF ReadStage
<1>. QED
  BY <1>2, <1>3, <1>4, <1>5

LEMMA AllowedKept == Spec => []AllowedInv
<1>1. Init => AllowedInv
  <2>. SUFFICES ASSUME Init PROVE AllowedInv
    OBVIOUS
  <2>1. TargetInv
    BY RequestConstants DEF Init, TargetInv
  <2>. QED
    BY <2>1 DEF Init, AllowedInv, SeenInv, MayAllInv, RowsReviewed
<1>2. Place /\ AllowedInv /\ [Next]_vars => AllowedInv'
  <2>. SUFFICES ASSUME Place, AllowedInv, [Next]_vars PROVE AllowedInv'
    OBVIOUS
  <2>0. pc \in Nat /\ Token.do = "token"
    BY Table DEF Token, Stage
  <2>1. CASE ParseWell \/ CopyStage \/ ListFails \/ ListSome \/ GetStage \/ PageStage
    BY <2>0, <2>1, StagePasses
       DEF ParseWell, CopyStage, ListFails, ListSome, GetStage, PageStage, At, Go, Abort, Passed,
           reply, lists, stage
  <2>2. CASE TokenStage
    <3>1. pc' = pc + 1 /\ pc' # End => Passed(pc)
      BY <2>0, <2>2 DEF TokenStage, At, stage, Passed, AllowedInv, SeenInv, Abort, Go
    <3>. QED
      BY <2>0, <2>2, <3>1, StagePasses DEF TokenStage, At, WriteText, Abort, Go, reply, lists
  <2>3. CASE InstalledStage
    <3>1. rows = {} /\ Subjects(path) = {}
      <4>1. \A i \in DOMAIN handler : handler[i].do \notin {"mayGet", "mayGetUnlessAll"}
        BY <2>3, StageTable DEF InstalledStage, At, stage
      <4>. QED
        BY <2>3, <4>1, SubjectsReviewed
           DEF AllowedInv, InstalledStage, Place, MayGet, MayGetUnlessAll, Stage
    <3>2. CASE WriteData /\ pc' = End
      BY <2>3, <3>1, <3>2, AnswerKeeps DEF InstalledStage, At, AnswerReviewed, lists
    <3>3. CASE Abort(stage.fail) \/ Go
      BY <2>0, <2>3, <3>3, StagePasses, Table
         DEF InstalledStage, At, stage, Abort, Go, Passed, reply, lists
    <3>. QED
      BY <2>3, <3>2, <3>3 DEF InstalledStage
  <2>4. CASE MayAllStage
    <3>1. MayAllInv' /\ RowsReviewed'
      BY <2>4 DEF MayAllStage, Go, Abort, AllowedInv, MayAllInv, RowsReviewed, SeenInv,
           Gettable, Listable, CanAll, CanGet, OfKind, watched
    <3>. QED
      BY <2>0, <2>4, <3>1, StageKeeps DEF MayAllStage, At, stage, Abort, Go, Passed, reply
  <2>5. CASE MayGetStage
    <3>1. pc' = pc + 1 /\ pc' # End => Passed(pc)
      BY <2>0, <2>5, ReviewNames
         DEF MayGetStage, At, stage, Passed, AllowedInv, SeenInv, Gettable, Abort, Go
    <3>. QED
      BY <2>0, <2>5, <3>1, StagePasses DEF MayGetStage, At, Abort, Go, reply, lists
  <2>6. CASE MayGetNotNeeded
    <3>1. Passed(pc)
      BY <2>0, <2>6, ReviewNames
         DEF MayGetNotNeeded, At, stage, Passed, AllowedInv, MayAllInv, KindOfArg, OfKind
    <3>. QED
      BY <2>0, <2>6, <3>1, StagePasses DEF MayGetNotNeeded, At, Go, reply, lists
  <2>7. CASE ListWhole \/ (\E o \in todo : Review(o)) \/ FilterStage \/ ReadStage
    <3>1. RowsReviewed' /\ MayAllInv'
      BY <2>7, ListedReviewed
         DEF ListWhole, Review, FilterStage, ReadStage, AllowedInv, MayAllInv, watched
    <3>. QED
      BY <2>0, <2>7, <3>1, StageKeeps
         DEF ListWhole, Review, FilterStage, ReadStage, At, stage, Abort, Go, Passed, reply
  <2>8. CASE AnswerStage
    BY <2>8, AnswerWasReviewed, AnswerKeeps DEF AnswerStage, At, lists
  <2>9. CASE Malformed \/ ReturnIfBadStage \/ CacheHasStage \/ AskMcp
    <3>1. /\ pc \in DOMAIN handler
          /\ stage.do \in {"query", "check", "require", "returnIfBad", "cacheHas", "ask"}
          /\ UNCHANGED <<world, request, watched, answered, all, rows>>
          /\ pc' \in {pc, pc + 1, End}
      BY <2>9, MalformedStep, AskStep
         DEF ReturnIfBadStage, CacheHasStage, At, Go, WriteText, Continues, Refuses, reply, lists
    <3>. QED
      BY <2>0, <3>1, StagePasses DEF Passed, stage
  <2>10. CASE Change
    <3>1. UNCHANGED process /\ Watch
      BY <2>10, ChangeStep
    <3>2. SeenInv' /\ MayAllInv' /\ RowsReviewed' /\ TargetInv'
      BY <3>1 DEF AllowedInv, SeenInv, MayAllInv, RowsReviewed, TargetInv, Watch, process,
           request, lists
    <3>3. \A i : Passed(i) => Passed(i)'
      BY <3>1 DEF Passed, Watch, process, request
    <3>4. AnswerReviewed => AnswerReviewed'
      BY <3>1 DEF AnswerReviewed, Watch, process, request, lists
    <3>. QED
      BY <3>1, <3>2, <3>3, <3>4
         DEF AllowedInv, process, request, lists, reply, Done, End, At, stage
  <2>11. CASE Again
    BY <2>11 DEF Again, AllowedInv, TargetInv, SeenInv, MayAllInv, RowsReviewed, Gettable,
         Listable, CanGet, CanAll, world, request
  <2>12. CASE UNCHANGED vars
    BY <2>12 DEF vars, world, request, lists, reply, watched, AllowedInv, TargetInv, SeenInv,
         MayAllInv, RowsReviewed, AnswerReviewed, Passed, Gettable, Listable, CanGet, CanAll,
         Done, End, At, stage
  <2>. QED
    BY <2>1, <2>2, <2>3, <2>4, <2>5, <2>6, <2>7, <2>8, <2>9, <2>10, <2>11, <2>12, Steps
       DEF Ordinary
<1>. QED
  BY <1>1, <1>2, Placing, PTL DEF Spec

\* Data is only sent about what the user might get, or list, at some time during the request.
THEOREM ReviewedFirst == Spec => []ShownWasAllowed
<1>1. AllowedInv => ShownWasAllowed
  BY DEF AllowedInv, AnswerReviewed, RowsReviewed, ShownWasAllowed
<1>. QED
  BY <1>1, AllowedKept, PTL

-----------------------------------------------------------------------------
(* Answers                                                                 *)

\* Nothing is written before the stage that ends the handler, and nothing malformed was
\* passed unnoticed.
AnswerInv ==
  /\ OneAnswer
  /\ ~Done /\ ~met /\ ~missed => status = 0 /\ bodies = 0 /\ answered = FALSE
  /\ ~Done /\ ~met =>
       \A i \in 1..(pc - 1) : handler[i].do = "query" => handler[i].arg \notin bad

\* The last stage of a handler is its answer.
LEMMA NotLast ==
  ASSUME Place, pc \in DOMAIN handler, stage.do # "answer"
  PROVE  pc + 1 # End
BY Table DEF Answer, Stage, stage

\* A well-formed request has no status before its last step, and one body after it.
LEMMA AnswerKept == Spec => []AnswerInv
<1>1. Place /\ Init => AnswerInv
  BY Table DEF Init, AnswerInv, OneAnswer, Done
<1>2. Place /\ AnswerInv /\ [Next]_vars => AnswerInv'
  <2>. SUFFICES ASSUME Place, AnswerInv, [Next]_vars PROVE AnswerInv'
    OBVIOUS
  <2>0. /\ pc \in Nat
        /\ pc \in DOMAIN handler => ~Done
        /\ handler' = handler => End' = End
    BY Table DEF End
  \* A stage that goes on and has noticed what is malformed.
  <2>a. ASSUME pc \in DOMAIN handler, stage.do # "answer", UNCHANGED <<reply, handler, bad>>,
               pc' \in {pc, pc + 1}, stage.do = "query" => stage.arg \notin bad,
               UNCHANGED <<met, missed>>
        PROVE  AnswerInv'
    <3>1. ~Done /\ ~Done'
      BY <2>0, <2>a, NotLast DEF Done
    <3>2. ~met => \A i \in 1..(pc' - 1) : handler[i].do = "query" => handler[i].arg \notin bad
      BY <2>0, <2>a, <3>1 DEF AnswerInv, stage
    <3>. QED
      BY <2>a, <3>1, <3>2 DEF AnswerInv, OneAnswer, reply
  \* A stage that ends the handler with a refusal.
  <2>b. ASSUME pc \in DOMAIN handler, UNCHANGED <<handler, met, missed>>,
               Refuses({400, 401, 404, 500, 503})
        PROVE  AnswerInv'
    BY <2>0, <2>b DEF AnswerInv, OneAnswer, Refuses, Write, Done
  <2>1. CASE Ordinary
    <3>. USE OrdinaryStep DEF request
    <3>1. CASE Answers
      BY <2>0, <2>1, <3>1 DEF AnswerInv, OneAnswer, Answers, WriteData, Write, Done
    <3>2. CASE Refuses({400, 401, 404, 500})
      BY <2>b, <2>1, <3>2 DEF Refuses
    <3>3. CASE Continues /\ ~Answers
      BY <2>a, <2>1, <3>3 DEF Continues
    <3>. QED
      BY <2>1, <3>1, <3>2, <3>3
  <2>2. CASE Malformed
    BY <2>2, MalformedStep DEF AnswerInv, OneAnswer
  <2>3. CASE ReturnIfBadStage
    <3>1. CASE stage.arg \in bad
      <4>1. met
        BY <2>0, <2>3, <3>1, StageTable DEF ReturnIfBadStage, At, stage, AnswerInv
      <4>. QED
        BY <2>3, <4>1 DEF ReturnIfBadStage, AnswerInv, OneAnswer
    <3>2. CASE stage.arg \notin bad
      BY <2>a, <2>3, <3>2 DEF ReturnIfBadStage, At, Go, request
    <3>. QED
      BY <3>1, <3>2
  <2>4. CASE CacheHasStage
    <3>1. CASE missed'
      <4>1. pc \in DOMAIN handler /\ pc' = pc + 1 /\ stage.do = "cacheHas"
            /\ UNCHANGED <<handler, bad, met>>
        BY <2>4 DEF CacheHasStage, At, Go, request
      <4>2. ~met /\ ~Done' =>
              \A i \in 1..(pc' - 1) : handler[i].do = "query" => handler[i].arg \notin bad
        BY <2>0, <4>1 DEF AnswerInv, stage
      <4>. QED
        BY <3>1, <4>1, <4>2 DEF AnswerInv, OneAnswer
    <3>2. CASE ~missed'
      BY <2>a, <2>4, <3>2 DEF CacheHasStage, At, Go, request
    <3>. QED
      BY <3>1, <3>2
  <2>5. CASE AskMcp
    <3>. USE AskStep DEF request
    <3>1. CASE Continues
      BY <2>a, <2>5, <3>1 DEF Continues
    <3>2. CASE Refuses({503}) \/ Refuses({400, 401, 500})
      BY <2>b, <2>5, <3>2 DEF Refuses
    <3>. QED
      BY <2>5, <3>1, <3>2
  <2>6. CASE Change
    BY <2>6, ChangeStep DEF process, request, reply, AnswerInv, OneAnswer, Done, End
  <2>7. CASE Again
    BY <2>7, Table DEF Again, AnswerInv, OneAnswer, request, Done, End
  <2>8. CASE UNCHANGED vars
    BY <2>8 DEF vars, request, reply, AnswerInv, OneAnswer, Done, End
  <2>. QED
    BY <2>1, <2>2, <2>3, <2>4, <2>5, <2>6, <2>7, <2>8, Steps
<1>. QED
  BY <1>1, <1>2, Placing, PTL DEF Spec

\* Every well-formed request is answered once, and with data exactly when it says so.
THEOREM AnsweredOnce == Spec => []OneAnswer
<1>1. AnswerInv => OneAnswer
  BY DEF AnswerInv
<1>. QED
  BY <1>1, AnswerKept, PTL

\* Only a request that could not open a session has been told so; a session needs a server
\* that was up.
UnavailableInv ==
  /\ up => wasUp
  /\ opened => wasUp
  /\ mcp = "unused" => ~opened
  /\ mcp \in {"unused", "open", "ready", "closed"}
  /\ mcp \in {"open", "ready"} => opened
  /\ mcp # "unused" /\ ~met => (status = 503 <=> ~opened)

\* 503 is said exactly when there was no session with the MCP server, and so whenever it was
\* down all along.
THEOREM UnavailableSaid == Spec => []UnavailableIsSaid
<1>1. Init => UnavailableInv
  <2>. SUFFICES ASSUME Init PROVE UnavailableInv
    OBVIOUS
  <2>1. (up => wasUp) /\ ~opened
    BY Zenon DEF Init
  <2>2. mcp = "unused"
    BY DEF Init
  <2>. QED
    BY <2>1, <2>2 DEF UnavailableInv
<1>2. /\ Place /\ AnswerInv /\ MalformedInv /\ UnavailableInv
      /\ [Next]_vars
      => UnavailableInv'
  <2>. SUFFICES ASSUME Place, AnswerInv, MalformedInv, UnavailableInv, [Next]_vars
                PROVE  UnavailableInv'
    OBVIOUS
  <2>. USE DEF UnavailableInv, watched, session, reply, world
  <2>1. CASE Ordinary
    <3>1. UNCHANGED <<up, wasUp, opened, mcp, met>>
      BY <2>1, OrdinaryStep
    <3>2. /\ status = 503 => status' = 503
          /\ status' = 503 => status = 503
      <4>1. CASE Continues
        BY <4>1 DEF Continues
      <4>2. CASE Refuses({400, 401, 404, 500})
        BY <4>2 DEF Refuses, Write
      <4>3. CASE Answers
        BY <4>3 DEF Answers, WriteData, Write
      <4>. QED
        BY <2>1, <4>1, <4>2, <4>3, OrdinaryStep
    <3>. QED
      BY <3>1, <3>2
  <2>2. CASE Malformed
    BY <2>2, MalformedStep DEF Write
  <2>3. CASE ReturnIfBadStage \/ CacheHasStage
    BY <2>3 DEF ReturnIfBadStage, CacheHasStage, Go, WriteText, Write
  <2>4. CASE Connect
    <3>1. ~Done /\ ~missed
      BY <2>4, Table, StageTable DEF Connect, At, stage, MalformedInv
    <3>2. ~met => status = 0
      BY <3>1 DEF AnswerInv
    <3>. QED
      BY <2>4, <3>2 DEF Connect, Abort, Write
  <2>5. CASE ListTools \/ CallTool
    <3>1. stage.fail # 503
      BY <2>5, StageTable DEF ListTools, CallTool, At, stage
    <3>. QED
      BY <2>5, <3>1 DEF ListTools, CallTool, Abort, Write, Go
  <2>6. CASE Change
    <3>1. UNCHANGED <<mcp, opened, met, status>>
      BY <2>6, ChangeStep DEF process
    <3>2. (wasUp \/ up' => wasUp')
      BY <2>6, ChangeStep, Zenon DEF Watch
    <3>. QED
      BY <3>1, <3>2
  <2>7. CASE Again
    <3>1. (up' => wasUp') /\ ~opened'
      BY <2>7, Zenon DEF Again
    <3>2. mcp' = "unused"
      BY <2>7 DEF Again
    <3>. QED
      BY <3>1, <3>2
  <2>8. CASE UNCHANGED vars
    BY <2>8 DEF vars
  <2>. QED
    BY <2>1, <2>2, <2>3, <2>4, <2>5, <2>6, <2>7, <2>8, Steps DEF AskMcp
<1>3. UnavailableInv => UnavailableIsSaid
  BY DEF UnavailableInv, UnavailableIsSaid
<1>. QED
  BY <1>1, <1>2, <1>3, Placing, AnswerKept, MalformedKept, PTL DEF Spec

-----------------------------------------------------------------------------
(* Completeness                                                            *)

Steady == steadyGet \cup steadyAll

\* History has seen what the user lost and what went away.
SteadyInv ==
  /\ steadyGet \subseteq Gettable \cap Settled
  /\ steadyAll \subseteq Listable \cap Settled
  /\ ~installed => \A o \in DOMAIN objects : KindOf[o] = "Capi" => objects[o] # "present"

\* What of a kind must be in the list, once that kind was listed.
Due(kind) == (Steady \cap OfKind({kind}) \cap wanted) \ skipped

\* What a stage that was passed has seen to: whoever may list a kind all along is known to;
\* the copy has the profiles that were there all along; the rows have what is due.
SeenTo(i) ==
  /\ handler[i].do = "mayAll" /\ handler[i].arg \in ListKinds =>
       steadyAll \cap OfKind({handler[i].arg}) = {} \/ handler[i].arg \in all
  /\ handler[i].do = "copy" => Steady \cap OfKind(ProfileKinds) \subseteq copy
  /\ handler[i].do = "list" => Due(handler[i].arg) \subseteq rows

\* What is left to review makes up for the rows that are missing.
CompleteInv ==
  /\ SteadyInv
  /\ ~Done => \A i \in 1..(pc - 1) : SeenTo(i)
  /\ todo # {} /\ ~Done =>
       At("list") /\ ~Whole(stage.arg) /\ Due(stage.arg) \subseteq rows \cup todo
  /\ answered => Done /\ \A kind \in Listed : Due(kind) \subseteq rows

\* What was there all along is there now, and is what the lists look for.
LEMMA SteadyIsThere ==
  ASSUME SteadyInv, NEW o \in Steady
  PROVE  /\ o \in Objects /\ o \in DOMAIN objects /\ objects[o] = "present"
         /\ KindOf[o] \in CachedKinds => o \in cached
         /\ o \in steadyAll => CanAll(KindOf[o])
         /\ CanGet(o) \/ (o \in steadyAll /\ KindOf[o] \in ListKinds)
<1>1. /\ o \in Settled /\ o \in Objects
      /\ CanGet(o) \/ (o \in steadyAll /\ CanAll(KindOf[o]))
      /\ o \in steadyAll => CanAll(KindOf[o])
  BY DEF SteadyInv, Steady, Gettable, Listable
<1>2. CanAll(KindOf[o]) => CanGet(o) \/ KindOf[o] \in ListKinds
  BY DEF CanAll, CanGet
<1>. QED
  BY <1>1, <1>2 DEF Settled, There

\* A stage leaves the history alone; a change of the world only takes from it.
LEMMA SteadyStep ==
  ASSUME SteadyInv, [Next]_vars
  PROVE  SteadyInv'
<1>1. CASE UNCHANGED <<world, watched>>
  BY <1>1 DEF world, watched, SteadyInv, Gettable, Listable, Settled, There, CanGet, CanAll
<1>2. CASE Change
  <2>1. Watch
    BY <1>2, ChangeStep
  <2>2. /\ steadyGet' \subseteq Gettable' \cap Settled'
        /\ steadyAll' \subseteq Listable' \cap Settled'
    BY <2>1 DEF Watch
  <2>3. ~installed' => \A o \in DOMAIN objects' : KindOf[o] = "Capi" => objects'[o] # "present"
    <3>1. CASE \E o \in DOMAIN objects : EditObject(o)
      BY <3>1 DEF EditObject, SteadyInv
    <3>2. CASE ChangeInstalled
      BY <3>2 DEF ChangeInstalled
    <3>. QED
      BY <1>2, <3>1, <3>2
         DEF Change, CatchUp, ChangeRights, ChangeToken, ChangeServer, SteadyInv
  <2>. QED
    BY <2>2, <2>3 DEF SteadyInv
<1>3. CASE Again
  BY <1>3 DEF Again, world, SteadyInv, Gettable, Listable, Settled, There, CanGet, CanAll
<1>4. CASE Handle \/ UNCHANGED vars
  BY <1>1, <1>4 DEF Handle, vars, ParseWell, QueryBad, CheckBad, RequireBad, ReturnIfBadStage,
       TokenStage, InstalledStage, MayAllStage, MayGetStage, MayGetNotNeeded, CopyStage, ListFails,
       ListWhole, ListSome, Review, FilterStage, ReadStage, GetStage, CacheHasStage, PageStage,
       AnswerStage, Connect, ListTools, CallTool
<1>. QED
  BY <1>2, <1>3, <1>4 DEF Next

\* A stage that answers nothing keeps the invariant if it loses nothing, and sees to what
\* it is for.
LEMMA StageCompletes ==
  ASSUME Place, CompleteInv, SteadyInv', pc \in DOMAIN handler,
         UNCHANGED <<world, request, watched, answered>>,
         all \subseteq all',
         Steady \cap OfKind(ProfileKinds) \subseteq copy =>
           Steady \cap OfKind(ProfileKinds) \subseteq copy',
         \A kind : Due(kind) \subseteq rows => Due(kind)' \subseteq rows',
         pc' \in {pc, pc + 1, End}, pc' = pc + 1 /\ pc' # End => \A i \in {pc} : SeenTo(i)',
         todo' # {} /\ pc' # End =>
           /\ pc' = pc /\ all' = all /\ At("list") /\ ~Whole(stage.arg)
           /\ Due(stage.arg)' \subseteq rows' \cup todo'
  PROVE  CompleteInv'
<1>1. UNCHANGED <<handler, End, Steady>> /\ pc \in Nat /\ ~Done /\ ~answered'
  BY Table DEF request, End, watched, Steady, CompleteInv
<1>2. \A i \in 1..(pc - 1) : SeenTo(i)
  BY <1>1 DEF CompleteInv
<1>3. ASSUME NEW i \in 1..(pc - 1) PROVE SeenTo(i)'
  <2>1. \A kind : handler[i].do = "list" /\ kind = handler[i].arg => Due(kind)' \subseteq rows'
    BY <1>2 DEF SeenTo
  <2>2. /\ handler[i].do = "mayAll" /\ handler[i].arg \in ListKinds =>
             steadyAll \cap OfKind({handler[i].arg}) = {} \/ handler[i].arg \in all
        /\ handler[i].do = "copy" => Steady \cap OfKind(ProfileKinds) \subseteq copy
    BY <1>2 DEF SeenTo
  <2>3. (handler[i].do = "list" => Due(handler[i].arg) \subseteq rows)'
    BY <1>1, <2>1
  <2>. QED
    BY <1>1, <2>2, <2>3 DEF SeenTo, watched
<1>4. ~Done' => \A i \in 1..(pc' - 1) : SeenTo(i)'
  <2>1. CASE pc' = pc + 1
    <3>1. \A i \in 1..(pc' - 1) : i \in 1..(pc - 1) \/ i = pc
      BY <1>1, <2>1
    <3>. QED
      BY <1>1, <1>3, <2>1, <3>1 DEF Done
  <2>2. CASE pc' = pc
    BY <1>3, <2>2
  <2>3. CASE pc' = End
    BY <1>1, <2>3 DEF Done
  <2>. QED
    BY <2>1, <2>2, <2>3
<1>5. todo' # {} /\ ~Done' =>
        At("list")' /\ ~Whole(stage.arg)' /\ Due(stage.arg)' \subseteq rows' \cup todo'
  BY <1>1 DEF Done, At, stage, Whole, Due
<1>. QED
  BY <1>1, <1>4, <1>5 DEF CompleteInv

\* A stage that has nothing to do with lists.
LEMMA StagePlain ==
  ASSUME Place, CompleteInv, SteadyInv', pc \in DOMAIN handler,
         UNCHANGED <<world, request, watched, answered, lists>>,
         pc' \in {pc, pc + 1, End},
         stage.do \notin {"mayAll", "copy", "list"} \/ (pc' = End /\ todo = {})
  PROVE  CompleteInv'
<1>1. UNCHANGED <<all, copy, todo, rows, skipped, handler>> /\ ~Done
  BY Table DEF lists, request
<1>2. todo = {}
  BY <1>1 DEF CompleteInv, At, stage
<1>3. \A kind : Due(kind)' = Due(kind)
  BY <1>1 DEF Due, Steady, watched, request
<1>4. pc' = pc + 1 /\ pc' # End => \A i \in {pc} : SeenTo(i)'
  BY <1>1 DEF SeenTo, stage
<1>. QED
  BY <1>1, <1>2, <1>3, <1>4, StageCompletes

\* What a stage that lists, or prepares to, has before it.
LEMMA ListPrepared ==
  ASSUME Place, CompleteInv, At("list")
  PROVE  /\ pc \in DOMAIN handler /\ ~Done /\ stage.arg \in ReviewedKinds
         /\ stage.arg \in ListKinds =>
              steadyAll \cap OfKind({stage.arg}) = {} \/ stage.arg \in all
         /\ stage.arg \in ProfileKinds => Steady \cap OfKind({stage.arg}) \subseteq copy
<1>1. pc \in DOMAIN handler /\ ~Done /\ \A i \in 1..(pc - 1) : SeenTo(i)
  BY Table DEF At, CompleteInv
<1>2. stage.arg \in ReviewedKinds
  BY <1>1, StageTable DEF At, stage
<1>3. ASSUME stage.arg \in ListKinds
      PROVE  steadyAll \cap OfKind({stage.arg}) = {} \/ stage.arg \in all
  <2>1. PICK j \in 1..(pc - 1) : handler[j].do = "mayAll" /\ handler[j].arg = stage.arg
    BY <1>1, <1>3, StageTable DEF At, stage
  <2>. QED
    BY <1>1, <1>3, <2>1 DEF SeenTo
<1>4. ASSUME stage.arg \in ProfileKinds
      PROVE  Steady \cap OfKind({stage.arg}) \subseteq copy
  <2>1. PICK j \in 1..(pc - 1) : handler[j].do = "copy"
    BY <1>1, <1>4, StageTable DEF At, stage
  <2>2. Steady \cap OfKind(ProfileKinds) \subseteq copy
    BY <1>1, <2>1 DEF SeenTo
  <2>. QED
    BY <1>4, <2>2 DEF OfKind
<1>. QED
  BY <1>1, <1>2, <1>3, <1>4

\* The whole list has everything that is due.
LEMMA WholeCompletes ==
  ASSUME Place, CompleteInv, SteadyInv', ListWhole
  PROVE  CompleteInv'
<1>1. /\ At("list") /\ Whole(stage.arg) /\ pc \in DOMAIN handler
      /\ UNCHANGED <<world, request, watched, answered, all, copy, todo, skipped>>
      /\ rows' = rows \cup Everything(stage.arg) /\ pc' = pc + 1
  BY DEF ListWhole, At, Go, reply
<1>2. todo = {}
  BY <1>1, ListPrepared DEF CompleteInv
<1>3. ASSUME NEW o \in Steady \cap OfKind({stage.arg}) PROVE o \in Everything(stage.arg)
  <2>1. /\ o \in DOMAIN objects /\ objects[o] = "present" /\ KindOf[o] = stage.arg
        /\ o \in OfKind({stage.arg})
        /\ KindOf[o] \in CachedKinds => o \in cached
    BY <1>3, SteadyIsThere DEF CompleteInv, OfKind
  <2>2. stage.arg \in CachedKinds \/ stage.arg \in LiveKinds
    BY <1>1, ListPrepared DEF ReviewedKinds
  <2>3. stage.arg \in ProfileKinds => o \in copy
    BY <1>1, <1>3, ListPrepared
  <2>. QED
    BY <2>1, <2>2, <2>3 DEF Everything, Candidates, Looked
<1>4. \A kind : Due(kind)' = Due(kind)
  BY <1>1 DEF Due, Steady, watched, request
<1>5. \A i \in {pc} : SeenTo(i)'
  <2>1. \A kind : kind = stage.arg => Due(kind)' \subseteq rows'
    BY <1>1, <1>3, <1>4 DEF Due
  <2>2. ASSUME NEW i \in {pc} PROVE (handler[i].do = "list" => Due(handler[i].arg) \subseteq rows)'
    BY <1>1, <2>1 DEF stage, request
  <2>. QED
    BY <1>1, <2>2 DEF SeenTo, request, At, stage
<1>. QED
  BY <1>1, <1>2, <1>4, <1>5, StageCompletes

\* What is due is among the objects that will be reviewed.
LEMMA SomeCompletes ==
  ASSUME Place, CompleteInv, SteadyInv', ListSome
  PROVE  CompleteInv'
<1>1. /\ At("list") /\ ~Whole(stage.arg) /\ pc \in DOMAIN handler /\ todo = {}
      /\ UNCHANGED <<world, request, watched, answered, all, copy, rows, skipped>>
      /\ todo' = Candidates(stage.arg) /\ pc' \in {pc, pc + 1}
      /\ pc' = pc <=> todo' # {}
  <2>1. pc \in Nat
    BY Table
  <2>. QED
    BY <2>1 DEF ListSome, At, Go, reply
<1>2. Steady \cap OfKind({stage.arg}) \subseteq todo'
  BY <1>1, SteadyIsThere DEF CompleteInv, Candidates, Looked, OfKind
<1>3. \A kind : Due(kind)' = Due(kind)
  BY <1>1 DEF Due, Steady, watched, request
<1>4. UNCHANGED stage \/ pc' # pc
  BY <1>1 DEF stage, request
<1>5. pc' = pc + 1 => \A i \in {pc} : SeenTo(i)'
  <2>1. pc' = pc + 1 => todo' = {}
    BY <1>1, Table
  <2>2. \A kind : kind = stage.arg /\ pc' = pc + 1 => Due(kind)' \subseteq rows'
    BY <1>2, <1>3, <2>1 DEF Due
  <2>3. ASSUME NEW i \in {pc}, pc' = pc + 1
        PROVE (handler[i].do = "list" => Due(handler[i].arg) \subseteq rows)'
    BY <1>1, <2>2, <2>3 DEF stage, request
  <2>. QED
    BY <1>1, <2>3 DEF SeenTo, request, At, stage
<1>6. pc' = pc => Due(stage.arg)' \subseteq rows' \cup todo'
  <2>1. \A kind : kind = stage.arg => Due(kind)' \subseteq rows' \cup todo'
    BY <1>2, <1>3 DEF Due
  <2>. QED
    BY <1>4, <2>1
<1>. QED
  BY <1>1, <1>3, <1>5, <1>6, StageCompletes

\* A review that does not fail finds what was there all along.
LEMMA ReviewCompletes ==
  ASSUME Place, CompleteInv, SteadyInv', NEW o \in todo, Review(o)
  PROVE  CompleteInv'
<1>1. /\ At("list") /\ pc \in DOMAIN handler
      /\ UNCHANGED <<world, request, watched, answered, all, copy>>
      /\ todo' = todo \ {o} /\ pc' \in {pc, pc + 1}
      /\ pc' = pc <=> todo' # {}
  <2>1. pc \in Nat
    BY Table
  <2>. QED
    BY <2>1 DEF Review, At, Go, reply
<1>2. ~Whole(stage.arg) /\ Due(stage.arg) \subseteq rows \cup todo
  BY <1>1, ListPrepared DEF CompleteInv
<1>3. rows \subseteq rows' /\ skipped \subseteq skipped'
  BY DEF Review
<1>4. o \in Due(stage.arg) => o \in rows' \/ o \in skipped'
  <2>. SUFFICES ASSUME o \in Due(stage.arg) PROVE o \in rows' \/ o \in skipped'
    OBVIOUS
  <2>1. o \in Steady /\ KindOf[o] = stage.arg /\ o \in OfKind({stage.arg})
    BY DEF Due, OfKind
  <2>2. stage.arg \in ListKinds => stage.arg \notin all
    <3>1. ListKinds \cap ProfileKinds = {}
      BY DEF ListKinds, ProfileKinds
    <3>. QED
      BY <1>2, <3>1 DEF Whole
  <2>3. CanGet(o)
    BY <1>1, <2>1, <2>2, SteadyIsThere, ListPrepared DEF CompleteInv
  <2>4. stage.arg \in ProfileKinds => o \in copy
    BY <1>1, <2>1, ListPrepared
  <2>. QED
    BY <2>3, <2>4 DEF Review
<1>5. \A kind : Due(kind)' \subseteq Due(kind) \ skipped'
  BY <1>1, <1>3 DEF Due, Steady, watched, request
<1>6. \A kind : kind = stage.arg => Due(kind)' \subseteq rows' \cup todo'
  BY <1>1, <1>2, <1>3, <1>4, <1>5
<1>7. UNCHANGED stage \/ pc' # pc
  BY <1>1 DEF stage, request
<1>8. pc' = pc + 1 => \A i \in {pc} : SeenTo(i)'
  <2>1. pc' = pc + 1 => todo' = {}
    BY <1>1, Table
  <2>2. \A kind : kind = stage.arg /\ pc' = pc + 1 => Due(kind)' \subseteq rows'
    BY <1>6, <2>1
  <2>3. ASSUME NEW i \in {pc}, pc' = pc + 1
        PROVE (handler[i].do = "list" => Due(handler[i].arg) \subseteq rows)'
    BY <1>1, <2>2, <2>3 DEF stage, request
  <2>. QED
    BY <1>1, <2>3 DEF SeenTo, request, At, stage
<1>9. pc' = pc => Due(stage.arg)' \subseteq rows' \cup todo'
  BY <1>6, <1>7
<1>10. \A kind : Due(kind) \subseteq rows => Due(kind)' \subseteq rows'
  BY <1>3, <1>5
<1>. QED
  BY <1>1, <1>2, <1>8, <1>9, <1>10, StageCompletes

\* What the handler remembers of the rights, of the profiles, and what it adds to or takes
\* from the rows.
LEMMA PreparationCompletes ==
  ASSUME Place, TargetInv, CompleteInv, SteadyInv', MayAllStage \/ CopyStage \/ FilterStage \/ ReadStage
  PROVE  CompleteInv'
<1>1. /\ pc \in DOMAIN handler /\ stage.do \in {"mayAll", "copy", "filter", "read"}
      /\ UNCHANGED <<world, request, watched, answered, todo, skipped>>
      /\ pc' \in {pc + 1, End} /\ all \subseteq all'
  BY DEF MayAllStage, CopyStage, FilterStage, ReadStage, At, Go, Abort, reply
<1>2. todo' = {}
  BY <1>1, Table DEF CompleteInv, At
<1>3. \A kind : Due(kind)' = Due(kind)
  BY <1>1 DEF Due, Steady, watched, request
<1>4. \A kind : Due(kind) \subseteq rows => Due(kind)' \subseteq rows'
  <2>1. UNCHANGED rows \/ rows \subseteq rows' \/ rows' = rows \cap wanted
    BY DEF MayAllStage, CopyStage, FilterStage, ReadStage
  <2>. QED
    BY <1>3, <2>1 DEF Due
<1>5. Steady \cap OfKind(ProfileKinds) \subseteq copy' \/ UNCHANGED copy
  <2>1. CASE CopyStage
    BY <2>1, SteadyIsThere DEF CopyStage, CompleteInv, OfKind, CachedKinds
  <2>. QED
    BY <2>1 DEF MayAllStage, FilterStage, ReadStage
<1>6. pc' = pc + 1 /\ pc' # End => \A i \in {pc} : SeenTo(i)'
  <2>1. CASE MayAllStage
    <3>1. ASSUME stage.arg \in ListKinds, pc' # End
          PROVE  steadyAll \cap OfKind({stage.arg}) = {} \/ stage.arg \in all'
      <4>1. KindOfArg(stage.arg) = stage.arg
        <5>1. DOMAIN PartKinds \cap ListKinds = {}
          BY DEF PartKinds, ListKinds
        <5>. QED
          BY <3>1, <5>1 DEF KindOfArg, TargetInv, Parts
      <4>2. all' = all \cup {k \in {stage.arg} : CanAll(k)}
        BY <2>1, <3>1, <4>1 DEF MayAllStage, Abort
      <4>3. ASSUME NEW o \in steadyAll, KindOf[o] = stage.arg PROVE CanAll(stage.arg)
        BY <4>3 DEF CompleteInv, SteadyInv, Listable
      <4>. QED
        BY <4>2, <4>3 DEF OfKind
    <3>. QED
      BY <1>1, <2>1, <3>1 DEF MayAllStage, SeenTo, At, stage, request, watched
  <2>2. CASE CopyStage
    <3>1. Steady \cap OfKind(ProfileKinds) \subseteq copy'
      BY <2>2, SteadyIsThere DEF CopyStage, CompleteInv, OfKind, CachedKinds
    <3>. QED
      BY <1>1, <2>2, <3>1 DEF CopyStage, SeenTo, At, stage, request, watched, Steady
  <2>3. CASE FilterStage \/ ReadStage
    BY <1>1, <2>3 DEF FilterStage, ReadStage, SeenTo, At, stage, request
  <2>. QED
    BY <2>1, <2>2, <2>3
<1>. QED
  BY <1>1, <1>2, <1>3, <1>4, <1>5, <1>6, StageCompletes

\* An answer is given when all that was to be listed is.
LEMMA AnswerCompletes ==
  ASSUME Place, CompleteInv, SteadyInv',
         AnswerStage \/ (InstalledStage /\ ~installed /\ WriteData /\ pc' = End)
  PROVE  CompleteInv'
<1>1. /\ UNCHANGED <<world, request, watched, lists>> /\ pc \in DOMAIN handler
      /\ pc' = End /\ answered'
  BY DEF AnswerStage, InstalledStage, WriteData, At
<1>2. /\ UNCHANGED <<handler, End, rows, Listed>> /\ Done'
      /\ \A kind : Due(kind)' = Due(kind)
  BY <1>1 DEF request, lists, watched, End, Done, Listed, Has, Due, Steady
<1>3. ASSUME NEW kind \in Listed PROVE Due(kind) \subseteq rows
  <2>1. PICK i \in DOMAIN handler : handler[i].do = "list" /\ handler[i].arg = kind
    BY DEF Listed, Has
  <2>2. CASE AnswerStage
    <3>1. pc = Len(handler) /\ ~Done /\ stage.do = "answer" /\ i \in 1..Len(handler)
      BY <1>1, <2>2, Table, StageTable DEF AnswerStage, At, stage
    <3>2. i \in 1..(pc - 1)
      BY <2>1, <3>1, Table DEF stage
    <3>. QED
      BY <2>1, <3>1, <3>2 DEF CompleteInv, SeenTo
  <2>3. CASE InstalledStage /\ ~installed
    <3>1. kind = "Capi"
      BY <2>1, <2>3, StageTable DEF InstalledStage, At, stage
    <3>. QED
      BY <2>3, <3>1, SteadyIsThere DEF CompleteInv, SteadyInv, Due, OfKind
  <2>. QED
    BY <2>2, <2>3
<1>. QED
  BY <1>1, <1>2, <1>3 DEF CompleteInv

\* While the request waits, whatever the world does, no more is due.
LEMMA WaitingCompletes ==
  ASSUME CompleteInv, SteadyInv', UNCHANGED process,
         steadyGet' \subseteq steadyGet, steadyAll' \subseteq steadyAll
  PROVE  CompleteInv'
<1>1. UNCHANGED <<handler, pc, all, copy, todo, rows, skipped, answered, wanted, stage, Listed, End>>
  BY DEF process, request, lists, reply, stage, Listed, Has, End
<1>2. Steady' \subseteq Steady /\ steadyAll' \subseteq steadyAll
  BY DEF Steady
<1>3. \A kind : Due(kind)' \subseteq Due(kind)
  BY <1>1, <1>2 DEF Due
<1>4. ASSUME NEW i, SeenTo(i) PROVE SeenTo(i)'
  <2>1. (handler[i].do = "list" => Due(handler[i].arg) \subseteq rows)'
    <3>1. Due(handler[i].arg)' \subseteq Due(handler[i].arg)
      BY <1>1, <1>2 DEF Due
    <3>. QED
      BY <1>1, <1>4, <3>1 DEF SeenTo
  <2>. QED
    BY <1>1, <1>2, <1>4, <2>1 DEF SeenTo
<1>5. Due(stage.arg)' \subseteq Due(stage.arg)
  BY <1>1, <1>2 DEF Due
<1>. QED
  BY <1>1, <1>3, <1>4, <1>5 DEF CompleteInv, Done, At, Whole

\* A new request is before everything.
LEMMA AgainCompletes ==
  ASSUME Place, CompleteInv, SteadyInv', Again
  PROVE  CompleteInv'
BY Table DEF Again, CompleteInv

LEMMA CompleteKept == Spec => []CompleteInv
<1>1. Init => CompleteInv
  <2>. SUFFICES ASSUME Init PROVE CompleteInv
    OBVIOUS
  <2>1. steadyGet \subseteq Gettable \cap Settled /\ steadyAll \subseteq Listable \cap Settled
    BY DEF Init
  <2>2. ~installed => \A o \in DOMAIN objects : KindOf[o] = "Capi" => objects[o] # "present"
    BY DEF Init
  <2>. QED
    BY <2>1, <2>2 DEF Init, CompleteInv, SteadyInv
<1>2. Place /\ AllowedInv /\ CompleteInv /\ [Next]_vars => CompleteInv'
  <2>. SUFFICES ASSUME Place, AllowedInv, CompleteInv, [Next]_vars PROVE CompleteInv'
    OBVIOUS
  <2>0. SteadyInv' /\ TargetInv
    BY SteadyStep DEF CompleteInv, AllowedInv
  <2>1. CASE ParseWell \/ TokenStage \/ MayGetStage \/ MayGetNotNeeded \/ ListFails \/ GetStage
             \/ PageStage
    BY <2>0, <2>1, StagePlain
       DEF ParseWell, TokenStage, MayGetStage, MayGetNotNeeded, ListFails, GetStage, PageStage,
           At, Go, Abort, WriteText, reply
  <2>2. CASE InstalledStage
    <3>1. CASE Abort(stage.fail) \/ Go
      BY <2>0, <2>2, <3>1, StagePlain DEF InstalledStage, At, Go, Abort, reply
    <3>. QED
      BY <2>0, <2>2, <3>1, AnswerCompletes DEF InstalledStage
  <2>3. CASE MayAllStage \/ CopyStage \/ FilterStage \/ ReadStage
    BY <2>0, <2>3, PreparationCompletes
  <2>4. CASE ListWhole
    BY <2>0, <2>4, WholeCompletes
  <2>5. CASE ListSome
    BY <2>0, <2>5, SomeCompletes
  <2>6. CASE \E o \in todo : Review(o)
    BY <2>0, <2>6, ReviewCompletes
  <2>7. CASE AnswerStage
    BY <2>0, <2>7, AnswerCompletes
  <2>8. CASE Malformed \/ ReturnIfBadStage \/ CacheHasStage \/ AskMcp
    <3>1. /\ pc \in DOMAIN handler
          /\ stage.do \in {"query", "check", "require", "returnIfBad", "cacheHas", "ask"}
          /\ UNCHANGED <<world, request, watched, answered, lists>>
          /\ pc' \in {pc, pc + 1, End}
      BY <2>8, MalformedStep, AskStep
         DEF ReturnIfBadStage, CacheHasStage, At, Go, WriteText, Continues, Refuses, reply
    <3>. QED
      BY <2>0, <3>1, StagePlain
  <2>9. CASE Change
    <3>1. UNCHANGED process /\ steadyGet' \subseteq steadyGet /\ steadyAll' \subseteq steadyAll
      BY <2>9, ChangeStep DEF Watch
    <3>. QED
      BY <2>0, <3>1, WaitingCompletes
  <2>10. CASE Again
    BY <2>0, <2>10, AgainCompletes
  <2>11. CASE UNCHANGED vars
    <3>1. UNCHANGED process /\ steadyGet' \subseteq steadyGet /\ steadyAll' \subseteq steadyAll
      BY <2>11 DEF vars, process, watched
    <3>. QED
      BY <2>0, <3>1, WaitingCompletes
  <2>. QED
    BY <2>1, <2>2, <2>3, <2>4, <2>5, <2>6, <2>7, <2>8, <2>9, <2>10, <2>11, Steps DEF Ordinary
<1>. QED
  BY <1>1, <1>2, Placing, AllowedKept, PTL DEF Spec

\* What was there all along, for a user who might get or list it all along, is in the list
\* unless its own review failed, whatever else changes or fails during the request.
THEOREM NothingLeftOut == Spec => []ListIsComplete
<1>1. CompleteInv => ListIsComplete
  BY DEF CompleteInv, ListIsComplete, Due, Steady, OfKind
<1>. QED
  BY <1>1, CompleteKept, PTL

-----------------------------------------------------------------------------
(* The pages of a list: the rows that the world and the request make        *)

\* While nothing changes, what the stages before i found out, and what stage i adds to the
\* rows when none of its reviews fails.
AllAt(i) ==
  {k \in {KindOfArg(handler[j].arg) : j \in {n \in 1..(i - 1) : handler[n].do = "mayAll"}} : CanAll(k)}
CopyAt(i) ==
  {o \in cached \cap OfKind(ProfileKinds) : \E j \in 1..(i - 1) : handler[j].do = "copy"}
WholeAt(i) ==
  IF handler[i].arg \in ProfileKinds THEN ProfileKinds \subseteq AllAt(i)
  ELSE handler[i].arg \in AllAt(i)
Adds(i, o) ==
  \/ /\ handler[i].do = "list" /\ WholeAt(i)
     /\ o \in IF handler[i].arg \in LiveKinds THEN Candidates(handler[i].arg)
              ELSE IF handler[i].arg \in ProfileKinds THEN CopyAt(i) \cap OfKind({handler[i].arg})
              ELSE cached \cap OfKind({handler[i].arg})
  \/ /\ handler[i].do = "list" /\ ~WholeAt(i)
     /\ o \in Candidates(handler[i].arg) /\ CanGet(o)
     /\ handler[i].arg \in ProfileKinds => o \in CopyAt(i)
  \/ /\ handler[i].do = "read"
     /\ o \in Looked({handler[i].arg}) /\ "cluster" \notin bad /\ objects[o] = "present"

\* The rows that stage i finds: what was added before it, but for what a filter took out.
RowsAt(i) ==
  {o \in Objects : \E j \in 1..(i - 1) :
     /\ Adds(j, o)
     /\ \A f \in (j + 1)..(i - 1) : handler[f].do = "filter" => o \in wanted}
Reviewed == {o \in Objects \ todo : todo # {} /\ Adds(pc, o)}

\* While nothing changes the handler finds out what it must, and only a review that fails
\* can make its rows differ.
ListedInv ==
  quiet /\ ~Done =>
    /\ all = AllAt(pc) /\ copy = CopyAt(pc)
    /\ todo # {} => todo \subseteq Candidates(stage.arg)
    /\ skipped = {} => rows = RowsAt(pc) \cup Reviewed

\* All of it follows from the world and the request.
LEMMA SameRows ==
  ASSUME UNCHANGED <<world, request>>
  PROVE  /\ \A i : AllAt(i)' = AllAt(i) /\ CopyAt(i)' = CopyAt(i) /\ (WholeAt(i)' <=> WholeAt(i))
         /\ \A i, o : Adds(i, o)' <=> Adds(i, o)
         /\ \A i : RowsAt(i)' = RowsAt(i)
<1>1. \A i : AllAt(i)' = AllAt(i) /\ CopyAt(i)' = CopyAt(i)
  BY DEF world, request, AllAt, CopyAt, KindOfArg, CanAll
<1>2. \A i : WholeAt(i)' <=> WholeAt(i)
  BY <1>1 DEF WholeAt, request
<1>3. \A i, o : Adds(i, o)' <=> Adds(i, o)
  BY <1>1, <1>2 DEF world, request, Adds, Candidates, Looked, CanGet
<1>4. \A i : RowsAt(i)' = RowsAt(i)
  BY <1>3 DEF RowsAt, request
<1>. QED
  BY <1>1, <1>2, <1>3, <1>4

\* How it goes on with each stage.
LEMMA RowsOnward ==
  ASSUME NEW i \in Nat, i > 0
  PROVE  /\ handler[i].do # "mayAll" => AllAt(i + 1) = AllAt(i)
         /\ handler[i].do = "mayAll" =>
              AllAt(i + 1) = AllAt(i) \cup {k \in {KindOfArg(handler[i].arg)} : CanAll(k)}
         /\ handler[i].do # "copy" => CopyAt(i + 1) = CopyAt(i)
         /\ handler[i].do = "copy" => CopyAt(i + 1) = cached \cap OfKind(ProfileKinds)
         /\ handler[i].do \notin {"filter", "list", "read"} => RowsAt(i + 1) = RowsAt(i)
         /\ handler[i].do = "filter" => RowsAt(i + 1) = RowsAt(i) \cap wanted
         /\ handler[i].do \in {"list", "read"} =>
              RowsAt(i + 1) = RowsAt(i) \cup {o \in Objects : Adds(i, o)}
<1>0. 1..(i + 1 - 1) = 1..(i - 1) \cup {i}
  OBVIOUS
<1>1. /\ handler[i].do # "mayAll" => AllAt(i + 1) = AllAt(i)
      /\ handler[i].do = "mayAll" =>
           AllAt(i + 1) = AllAt(i) \cup {k \in {KindOfArg(handler[i].arg)} : CanAll(k)}
  BY <1>0 DEF AllAt
<1>2. /\ handler[i].do # "copy" => CopyAt(i + 1) = CopyAt(i)
      /\ handler[i].do = "copy" => CopyAt(i + 1) = cached \cap OfKind(ProfileKinds)
  BY <1>0 DEF CopyAt
<1>3. ASSUME NEW o \in Objects
      PROVE  o \in RowsAt(i + 1) <=> \/ o \in RowsAt(i) /\ (handler[i].do = "filter" => o \in wanted)
                                     \/ Adds(i, o)
  <2>1. \A j \in 1..(i - 1) : (j + 1)..(i + 1 - 1) = (j + 1)..(i - 1) \cup {i}
    OBVIOUS
  <2>2. (i + 1)..(i + 1 - 1) = {}
    OBVIOUS
  <2>. QED
    BY <1>0, <2>1, <2>2 DEF RowsAt
<1>4. RowsAt(i) \subseteq Objects /\ RowsAt(i + 1) \subseteq Objects
  BY DEF RowsAt
<1>5. \A o : Adds(i, o) => handler[i].do \in {"list", "read"}
  BY DEF Adds
<1>6. handler[i].do \notin {"filter", "list", "read"} => RowsAt(i + 1) = RowsAt(i)
  BY <1>3, <1>4, <1>5
<1>7. handler[i].do = "filter" => RowsAt(i + 1) = RowsAt(i) \cap wanted
  BY <1>3, <1>4, <1>5
<1>8. handler[i].do \in {"list", "read"} =>
        RowsAt(i + 1) = RowsAt(i) \cup {o \in Objects : Adds(i, o)}
  BY <1>3, <1>4
<1>. QED
  BY <1>1, <1>2, <1>6, <1>7, <1>8

-----------------------------------------------------------------------------
(* Orders *)

NoTies(set) == \A o, p \in set : Rank[o] = Rank[p] => o = p

\* An order has each element once; without ties its ranks grow.
LEMMA OrderIsWhole ==
  ASSUME NEW F \in SUBSET Objects, NEW s \in Orders(F)
  PROVE  /\ IsFiniteSet(F) /\ Cardinality(F) \in Nat
         /\ DOMAIN s = 1..Cardinality(F)
         /\ \A i \in DOMAIN s : s[i] \in F
         /\ \A o \in F : \E i \in DOMAIN s : s[i] = o
         /\ NoTies(F) => \A i, j \in DOMAIN s : i < j => Rank[s[i]] < Rank[s[j]]
<1>. DEFINE n == Cardinality(F)
<1>1. IsFiniteSet(F) /\ n \in Nat
  BY RequestConstants, FS_Subset, FS_CardinalityType
<1>2. s \in [1..n -> F] /\ DOMAIN s = 1..n
  BY DEF Orders
<1>3. \A i, j \in 1..n : i < j => s[i] # s[j] /\ Rank[s[i]] <= Rank[s[j]]
  BY <1>2 DEF Orders
<1>4. IsFiniteSet(1..n) /\ Cardinality(1..n) = n
  BY <1>1, FS_Interval
<1>. HIDE DEF n
<1>5. s \in Injection(1..n, F)
  BY <1>1, <1>2, <1>3 DEF Injection, IsInjective
<1>6. s \in Surjection(1..n, F)
  BY <1>1, <1>4, <1>5, FS_Injection DEF n
<1>7. ASSUME NoTies(F), NEW i \in 1..n, NEW j \in 1..n, i < j PROVE Rank[s[i]] < Rank[s[j]]
  <2>1. s[i] # s[j] /\ Rank[s[i]] <= Rank[s[j]] /\ s[i] \in F /\ s[j] \in F
    BY <1>2, <1>3, <1>7
  <2>2. Rank[s[i]] # Rank[s[j]]
    BY <1>7, <2>1 DEF NoTies
  <2>3. Rank[s[i]] \in Nat /\ Rank[s[j]] \in Nat
    BY <2>1, RequestConstants
  <2>. QED
    BY <2>1, <2>2, <2>3
<1>. QED
  BY <1>1, <1>2, <1>6, <1>7 DEF n, Surjection

\* The place of an element is how many rank no higher.
LEMMA PlaceInOrder ==
  ASSUME NEW F \in SUBSET Objects, NoTies(F), NEW s \in Orders(F), NEW i \in DOMAIN s
  PROVE  Cardinality({p \in F : Rank[p] <= Rank[s[i]]}) = i
<1>. DEFINE lower == {p \in F : Rank[p] <= Rank[s[i]]}
            f == [k \in 1..i |-> s[k]]
            n == Cardinality(F)
<1>1. /\ n \in Nat /\ DOMAIN s = 1..n /\ \A k \in 1..n : s[k] \in F
      /\ \A o \in F : \E k \in 1..n : s[k] = o
      /\ \A k, j \in 1..n : k < j => Rank[s[k]] < Rank[s[j]]
  BY OrderIsWhole
<1>2. i \in 1..n /\ 1..i \subseteq 1..n /\ i \in Nat
  BY <1>1
<1>3. \A k \in 1..n : Rank[s[k]] \in Nat
  BY <1>1, RequestConstants
<1>. HIDE DEF n
<1>4. \A k \in 1..n : Rank[s[k]] <= Rank[s[i]] <=> k <= i
  <2>. TAKE k \in 1..n
  <2>1. CASE k < i
    BY <1>1, <1>2, <1>3, <2>1
  <2>2. CASE k = i
    BY <1>2, <1>3, <2>2
  <2>3. CASE i < k
    BY <1>1, <1>2, <1>3, <2>3
  <2>. QED
    BY <1>1, <1>2, <2>1, <2>2, <2>3
<1>5. f \in Surjection(1..i, lower)
  <2>1. f \in [1..i -> lower]
    BY <1>1, <1>2, <1>4
  <2>2. \A o \in lower : \E k \in 1..i : f[k] = o
    <3>. TAKE o \in lower
    <3>1. PICK k \in 1..n : s[k] = o
      BY <1>1
    <3>2. k <= i /\ k \in 1..i
      BY <1>1, <1>2, <1>4, <3>1
    <3>. QED
      BY <3>1, <3>2
  <2>. QED
    BY <2>1, <2>2 DEF Surjection
<1>6. f \in Injection(1..i, lower)
  <2>1. \A k, j \in 1..i : k < j => s[k] # s[j]
    <3>1. \A k, j \in 1..n : k < j => s[k] # s[j]
      BY <1>1, <1>3
    <3>. QED
      BY <1>2, <3>1
  <2>2. \A k, j \in 1..i : f[k] = f[j] => k = j
    BY <1>2, <2>1
  <2>. QED
    BY <1>5, <2>2 DEF Surjection, Injection, IsInjective
<1>7. IsFiniteSet(1..i) /\ Cardinality(1..i) = i
  BY <1>2, FS_Interval
<1>. HIDE DEF f, lower
<1>8. Cardinality(lower) = Cardinality(1..i)
  BY <1>5, <1>6, <1>7, FS_Surjection
<1>. QED
  BY <1>7, <1>8 DEF lower

\* So a list without ties has one order.
LEMMA OneOrder ==
  ASSUME NEW F \in SUBSET Objects, NoTies(F), NEW s \in Orders(F), NEW t \in Orders(F)
  PROVE  s = t
<1>1. DOMAIN s = 1..Cardinality(F) /\ DOMAIN t = 1..Cardinality(F)
  BY OrderIsWhole
<1>2. ASSUME NEW i \in DOMAIN s PROVE s[i] = t[i]
  <2>1. PICK j \in DOMAIN t : t[j] = s[i]
    BY OrderIsWhole
  <2>2. Cardinality({p \in F : Rank[p] <= Rank[s[i]]}) = i
    BY PlaceInOrder
  <2>3. Cardinality({p \in F : Rank[p] <= Rank[t[j]]}) = j
    BY PlaceInOrder
  <2>. QED
    BY <2>1, <2>2, <2>3
<1>3. /\ s = [i \in 1..Cardinality(F) |-> s[i]]
      /\ t = [i \in 1..Cardinality(F) |-> t[i]]
  BY DEF Orders
<1>. QED
  BY <1>1, <1>2, <1>3, Zenon

-----------------------------------------------------------------------------
(* Rows while nothing changes *)

\* A stage keeps the invariant if it finds out what the next one needs to know.
LEMMA StageLists ==
  ASSUME Place, ListedInv, pc \in DOMAIN handler, UNCHANGED <<world, request, watched>>,
         pc' \in {pc, pc + 1, End},
         quiet /\ pc' # End =>
           /\ all' = AllAt(pc') /\ copy' = CopyAt(pc')
           /\ todo' # {} => todo' \subseteq Candidates(handler[pc'].arg)
           /\ skipped' = {} =>
                rows' = RowsAt(pc') \cup {o \in Objects \ todo' : todo' # {} /\ Adds(pc', o)}
  PROVE  ListedInv'
<1>1. UNCHANGED <<handler, End, quiet>>
  BY DEF request, End, watched
<1>2. /\ AllAt(pc)' = AllAt(pc') /\ CopyAt(pc)' = CopyAt(pc') /\ RowsAt(pc)' = RowsAt(pc')
      /\ \A o : Adds(pc, o)' <=> Adds(pc', o)
  BY SameRows
<1>3. \A kind : Candidates(kind)' = Candidates(kind)
  BY DEF Candidates, Looked, world
<1>. QED
  BY <1>1, <1>2, <1>3 DEF ListedInv, Done, Reviewed, stage

\* A stage that has nothing to do with lists.
LEMMA StageIdle ==
  ASSUME Place, CompleteInv, ListedInv, pc \in DOMAIN handler,
         UNCHANGED <<world, request, watched, lists>>, pc' \in {pc, pc + 1, End},
         stage.do \notin {"mayAll", "copy", "list", "filter", "read"} \/ pc' = End
  PROVE  ListedInv'
<1>1. UNCHANGED <<all, copy, todo, rows, skipped>> /\ ~Done /\ pc \in Nat /\ pc > 0
  BY Table DEF lists
<1>2. CASE pc' = End
  BY <1>2, StageLists
<1>3. CASE pc' # End
  <2>1. todo = {}
    BY <1>1, <1>3 DEF CompleteInv, At, stage
  <2>2. quiet => all = AllAt(pc) /\ copy = CopyAt(pc) /\ (skipped = {} => rows = RowsAt(pc))
    BY <1>1, <2>1 DEF ListedInv, Reviewed
  <2>3. AllAt(pc + 1) = AllAt(pc) /\ CopyAt(pc + 1) = CopyAt(pc) /\ RowsAt(pc + 1) = RowsAt(pc)
    BY <1>1, <1>3, RowsOnward DEF stage
  <2>4. quiet => all = AllAt(pc') /\ copy = CopyAt(pc') /\ (skipped = {} => rows = RowsAt(pc'))
    BY <1>3, <2>2, <2>3
  <2>. QED
    BY <1>1, <2>1, <2>4, StageLists
<1>. QED
  BY <1>2, <1>3

\* The stages that a list needs before it, and those that come after it.
LEMMA StagePrepares ==
  ASSUME Place, RowsInv, CompleteInv, ListedInv,
         MayAllStage \/ CopyStage \/ FilterStage \/ ReadStage
  PROVE  ListedInv'
<1>1. /\ pc \in DOMAIN handler /\ stage = handler[pc] /\ ~Done /\ pc \in Nat /\ pc > 0
      /\ UNCHANGED <<world, request, watched, todo, skipped>> /\ pc' \in {pc + 1, End}
      /\ stage.do \in {"mayAll", "copy", "filter", "read"}
  BY Table DEF stage, MayAllStage, CopyStage, FilterStage, ReadStage, At, Go, Abort, request
<1>2. todo = {}
  BY <1>1 DEF CompleteInv, At
<1>3. quiet => all = AllAt(pc) /\ copy = CopyAt(pc) /\ (skipped = {} => rows = RowsAt(pc))
  BY <1>1, <1>2 DEF ListedInv, Reviewed
<1>4. CASE pc' = End
  BY <1>1, <1>4, StageLists
<1>5. CASE pc' # End
  <2>0. pc' = pc + 1
    BY <1>1, <1>5
  <2>1. SUFFICES quiet => /\ all' = AllAt(pc + 1) /\ copy' = CopyAt(pc + 1)
                          /\ skipped = {} => rows' = RowsAt(pc + 1)
    BY <1>1, <1>2, <2>0, StageLists
  <2>2. CASE MayAllStage
    <3>1. stage.do = "mayAll" /\ UNCHANGED <<copy, rows>>
          /\ all' = all \cup {k \in {KindOfArg(stage.arg)} : CanAll(k)}
      BY <1>5, <2>2 DEF MayAllStage, At, Abort
    <3>. QED
      BY <1>1, <1>3, <3>1, RowsOnward
  <2>3. CASE CopyStage
    <3>1. stage.do = "copy" /\ UNCHANGED <<all, rows>>
          /\ copy' = cached \cap OfKind(ProfileKinds)
      BY <2>3 DEF CopyStage, At
    <3>. QED
      BY <1>1, <1>3, <3>1, RowsOnward
  <2>4. CASE FilterStage
    <3>1. stage.do = "filter" /\ UNCHANGED <<all, copy>> /\ rows' = rows \cap wanted
      BY <2>4 DEF FilterStage, At
    <3>. QED
      BY <1>1, <1>3, <3>1, RowsOnward
  <2>5. CASE ReadStage
    <3>1. stage.do = "read" /\ UNCHANGED <<all, copy>>
          /\ rows' = rows \cup {o \in Looked({stage.arg}) :
                                  "cluster" \notin bad /\ objects[o] = "present"}
      BY <1>5, <2>5 DEF ReadStage, At, Abort
    <3>2. Looked({stage.arg}) \subseteq Objects
      BY DEF RowsInv, Looked
    <3>3. {o \in Objects : Adds(pc, o)} =
            {o \in Looked({stage.arg}) : "cluster" \notin bad /\ objects[o] = "present"}
      BY <1>1, <3>1, <3>2 DEF Adds
    <3>. QED
      BY <1>1, <1>3, <3>1, <3>3, RowsOnward
  <2>. QED
    BY <2>2, <2>3, <2>4, <2>5
<1>. QED
  BY <1>4, <1>5

\* At a list, whole or not, what was found out says what there is to add.
LEMMA ListAdds ==
  ASSUME Place, RowsInv, WorldTypeOK, ListedInv, quiet, At("list")
  PROVE  /\ pc \in DOMAIN handler /\ stage = handler[pc] /\ stage.do = "list"
         /\ ~Done /\ pc \in Nat /\ pc > 0
         /\ AllAt(pc) = all /\ AllAt(pc + 1) = all /\ CopyAt(pc) = copy /\ CopyAt(pc + 1) = copy
         /\ RowsAt(pc + 1) = RowsAt(pc) \cup {o \in Objects : Adds(pc, o)}
         /\ Candidates(stage.arg) \subseteq Objects
         /\ Whole(stage.arg) => {o \in Objects : Adds(pc, o)} = Everything(stage.arg)
         /\ ~Whole(stage.arg) =>
              {o \in Objects : Adds(pc, o)} =
                {o \in Candidates(stage.arg) :
                   CanGet(o) /\ (stage.arg \in ProfileKinds => o \in copy)}
<1>1. /\ pc \in DOMAIN handler /\ stage = handler[pc] /\ stage.do = "list"
      /\ ~Done /\ pc \in Nat /\ pc > 0
  BY Table DEF At, stage
<1>2. AllAt(pc) = all /\ CopyAt(pc) = copy
  BY <1>1 DEF ListedInv
<1>3. /\ AllAt(pc + 1) = all /\ CopyAt(pc + 1) = copy
      /\ RowsAt(pc + 1) = RowsAt(pc) \cup {o \in Objects : Adds(pc, o)}
  BY <1>1, <1>2, RowsOnward
<1>4. WholeAt(pc) <=> Whole(stage.arg)
  BY <1>1, <1>2 DEF WholeAt, Whole
<1>5. /\ Candidates(stage.arg) \subseteq Objects
      /\ cached \cap OfKind({stage.arg}) \subseteq Objects
      /\ copy \cap OfKind({stage.arg}) \subseteq Objects
  BY DEF Candidates, Looked, RowsInv, WorldTypeOK, OfKind
<1>6. Whole(stage.arg) => {o \in Objects : Adds(pc, o)} = Everything(stage.arg)
  BY <1>1, <1>2, <1>4, <1>5 DEF Adds, Everything
<1>7. ~Whole(stage.arg) =>
        {o \in Objects : Adds(pc, o)} =
          {o \in Candidates(stage.arg) :
             CanGet(o) /\ (stage.arg \in ProfileKinds => o \in copy)}
  BY <1>1, <1>2, <1>4, <1>5 DEF Adds
<1>. QED
  BY <1>1, <1>2, <1>3, <1>5, <1>6, <1>7

\* A list that is read as a whole.
LEMMA WholeLists ==
  ASSUME Place, RowsInv, WorldTypeOK, CompleteInv, ListedInv, ListWhole
  PROVE  ListedInv'
<1>1. /\ At("list") /\ Whole(stage.arg) /\ pc' = pc + 1 /\ rows' = rows \cup Everything(stage.arg)
      /\ UNCHANGED <<world, request, watched, all, copy, todo, skipped>>
  BY DEF ListWhole, Go
<1>2. todo = {} /\ pc \in DOMAIN handler
  BY <1>1, Table DEF CompleteInv, At
<1>3. quiet => /\ all' = AllAt(pc') /\ copy' = CopyAt(pc')
               /\ skipped' = {} => rows' = RowsAt(pc')
  <2>. SUFFICES ASSUME quiet
                PROVE  /\ all' = AllAt(pc + 1) /\ copy' = CopyAt(pc + 1)
                       /\ skipped = {} => rows' = RowsAt(pc + 1)
    BY <1>1
  <2>1. skipped = {} => rows = RowsAt(pc)
    BY <1>1, <1>2, ListAdds DEF ListedInv, Reviewed
  <2>. QED
    BY <1>1, <2>1, ListAdds
<1>. QED
  BY <1>1, <1>2, <1>3, StageLists

\* A list that must be reviewed, object by object.
LEMMA SomeLists ==
  ASSUME Place, RowsInv, WorldTypeOK, CompleteInv, ListedInv, ListSome
  PROVE  ListedInv'
<1>1. /\ At("list") /\ ~Whole(stage.arg) /\ todo = {} /\ todo' = Candidates(stage.arg)
      /\ UNCHANGED <<world, request, watched, all, copy, rows, skipped>>
      /\ pc' = IF todo' = {} THEN pc + 1 ELSE pc
  BY DEF ListSome, Go
<1>2. pc \in DOMAIN handler /\ pc' \in {pc, pc + 1}
  BY <1>1 DEF At
<1>3. ASSUME quiet
      PROVE  /\ all' = AllAt(pc') /\ copy' = CopyAt(pc')
             /\ todo' # {} => todo' \subseteq Candidates(handler[pc'].arg)
             /\ skipped' = {} =>
                  rows' = RowsAt(pc') \cup {o \in Objects \ todo' : todo' # {} /\ Adds(pc', o)}
  <2>1. skipped = {} => rows = RowsAt(pc)
    BY <1>1, <1>3, ListAdds DEF ListedInv, Reviewed
  <2>2. {o \in Objects : Adds(pc, o)} \subseteq todo'
    BY <1>1, <1>3, ListAdds
  <2>3. CASE todo' = {}
    <3>1. RowsAt(pc + 1) = RowsAt(pc)
      BY <1>1, <1>3, <2>2, <2>3, ListAdds
    <3>. QED
      BY <1>1, <1>3, <2>1, <2>3, <3>1, ListAdds
  <2>4. CASE todo' # {}
    <3>1. {o \in Objects \ todo' : Adds(pc, o)} = {}
      BY <2>2
    <3>. QED
      BY <1>1, <1>3, <2>1, <2>4, <3>1, ListAdds
  <2>. QED
    BY <2>3, <2>4
<1>. QED
  BY <1>1, <1>2, <1>3, StageLists

\* A review that does not fail adds its object if it is to be added.
LEMMA ReviewLists ==
  ASSUME Place, RowsInv, WorldTypeOK, CompleteInv, ListedInv, NEW o \in todo, Review(o)
  PROVE  ListedInv'
<1>1. /\ At("list") /\ todo' = todo \ {o} /\ skipped \subseteq skipped'
      /\ UNCHANGED <<world, request, watched, all, copy>>
      /\ pc' = IF todo' = {} THEN pc + 1 ELSE pc
      /\ skipped' = {} =>
           rows' = IF CanGet(o) /\ (stage.arg \in ProfileKinds => o \in copy)
                     THEN rows \cup {o} ELSE rows
  BY DEF Review, Go
<1>2. /\ pc \in DOMAIN handler /\ pc' \in {pc, pc + 1}
      /\ ~Done /\ ~Whole(stage.arg)
  BY <1>1, Table DEF At, CompleteInv
<1>3. ASSUME quiet
      PROVE  /\ all' = AllAt(pc') /\ copy' = CopyAt(pc')
             /\ todo' # {} => todo' \subseteq Candidates(handler[pc'].arg)
             /\ skipped' = {} =>
                  rows' = RowsAt(pc') \cup {p \in Objects \ todo' : todo' # {} /\ Adds(pc', p)}
  <2>1. /\ todo \subseteq Candidates(stage.arg)
        /\ skipped = {} => rows = RowsAt(pc) \cup {p \in Objects \ todo : Adds(pc, p)}
    BY <1>2, <1>3 DEF ListedInv, Reviewed
  <2>2. /\ o \in Objects
        /\ Adds(pc, o) <=> CanGet(o) /\ (stage.arg \in ProfileKinds => o \in copy)
    BY <1>1, <1>2, <1>3, <2>1, ListAdds
  <2>3. skipped' = {} => rows' = RowsAt(pc) \cup {p \in Objects \ todo' : Adds(pc, p)}
    BY <1>1, <2>1, <2>2
  <2>4. CASE todo' = {}
    BY <1>1, <1>3, <2>3, <2>4, ListAdds
  <2>5. CASE todo' # {}
    BY <1>1, <1>3, <2>1, <2>3, <2>5, ListAdds
  <2>. QED
    BY <2>4, <2>5
<1>. QED
  BY <1>1, <1>2, <1>3, StageLists

\* Before the first stage nothing is found out.
LEMMA AtFirst == AllAt(1) = {} /\ CopyAt(1) = {} /\ RowsAt(1) = {}
BY DEF AllAt, CopyAt, RowsAt

LEMMA ListedKept == Spec => []ListedInv
<1>1. Init => ListedInv
  BY AtFirst DEF Init, ListedInv, Reviewed
<1>2. /\ Place /\ RowsInv /\ WorldTypeOK /\ CompleteInv /\ ListedInv /\ [Next]_vars
      => ListedInv'
  <2>. SUFFICES ASSUME Place, RowsInv, WorldTypeOK, CompleteInv, ListedInv, [Next]_vars
                PROVE  ListedInv'
    OBVIOUS
  <2>1. CASE ParseWell \/ TokenStage \/ InstalledStage \/ MayGetStage \/ MayGetNotNeeded
             \/ ListFails \/ GetStage \/ PageStage \/ AnswerStage
    <3>1. /\ pc \in DOMAIN handler /\ UNCHANGED <<world, request, watched, lists>>
          /\ pc' \in {pc, pc + 1, End}
      BY <2>1 DEF ParseWell, TokenStage, InstalledStage, MayGetStage, MayGetNotNeeded, ListFails,
           GetStage, PageStage, AnswerStage, At, Go, Abort
    <3>2. stage.do \notin {"mayAll", "copy", "list", "filter", "read"} \/ pc' = End
      BY <2>1 DEF ParseWell, TokenStage, InstalledStage, MayGetStage, MayGetNotNeeded, ListFails,
           GetStage, PageStage, AnswerStage, At, Abort
    <3>. QED
      BY <3>1, <3>2, StageIdle
  <2>2. CASE MayAllStage \/ CopyStage \/ FilterStage \/ ReadStage
    BY <2>2, StagePrepares
  <2>3. CASE ListWhole
    BY <2>3, WholeLists
  <2>4. CASE ListSome
    BY <2>4, SomeLists
  <2>5. CASE \E o \in todo : Review(o)
    BY <2>5, ReviewLists
  <2>6. CASE Malformed \/ ReturnIfBadStage \/ CacheHasStage \/ AskMcp
    <3>1. /\ pc \in DOMAIN handler /\ pc' \in {pc, pc + 1, End}
          /\ UNCHANGED <<world, request, watched, lists>>
          /\ stage.do \in {"query", "check", "require", "returnIfBad", "cacheHas", "ask"}
      BY <2>6, MalformedStep, AskStep
         DEF ReturnIfBadStage, CacheHasStage, At, Go, WriteText, Continues, Refuses
    <3>2. stage.do \notin {"mayAll", "copy", "list", "filter", "read"}
      BY <3>1
    <3>. QED
      BY <3>1, <3>2, StageIdle
  <2>7. CASE Change
    BY <2>7, ChangeStep DEF Watch, ListedInv
  <2>8. CASE Again
    <3>1. /\ UNCHANGED <<world, request>> /\ pc' = 1
          /\ all' = {} /\ copy' = {} /\ todo' = {} /\ rows' = {}
      BY <2>8 DEF Again
    <3>2. AllAt(pc)' = {} /\ CopyAt(pc)' = {} /\ RowsAt(pc)' = {}
      BY <3>1, SameRows, AtFirst
    <3>. QED
      BY <3>1, <3>2 DEF ListedInv, Reviewed
  <2>9. CASE UNCHANGED vars
    <3>1. UNCHANGED <<world, request, pc, all, copy, todo, rows, skipped, quiet>>
      BY <2>9 DEF vars, lists, watched
    <3>2. /\ AllAt(pc)' = AllAt(pc) /\ CopyAt(pc)' = CopyAt(pc) /\ RowsAt(pc)' = RowsAt(pc)
          /\ \A o : Adds(pc, o)' <=> Adds(pc, o)
      BY <3>1, SameRows
    <3>3. \A kind : Candidates(kind)' = Candidates(kind)
      BY <3>1 DEF Candidates, Looked, world
    <3>. QED
      BY <3>1, <3>2, <3>3 DEF ListedInv, Reviewed, Done, End, stage, request
  <2>. QED
    BY <2>1, <2>2, <2>3, <2>4, <2>5, <2>6, <2>7, <2>8, <2>9, Steps DEF Ordinary
<1>. QED
  BY <1>1, <1>2, Placing, WorldTyping, CompleteKept, PTL DEF Spec

-----------------------------------------------------------------------------
(* One page after the other *)

\* The rows of the last stage, which the page is cut from.
Final == RowsAt(Len(handler))

\* A page is a part of an order of the rows, and while nothing changes these are the final ones.
PageInv ==
  /\ sliced = NotSliced => page = <<>>
  /\ page # <<>> =>
       /\ sliced.result = "ok"
       /\ \E s \in Orders(rows) : page = SubSeq(s, sliced.from + 1, sliced.to)
       /\ quiet /\ skipped = {} => rows = Final

LEMMA PageKept == Spec => []PageInv
<1>1. Init => PageInv
  BY DEF Init, PageInv
<1>2. /\ Place /\ WindowInv /\ CompleteInv /\ ListedInv /\ PageInv /\ [Next]_vars
      => PageInv'
  <2>. SUFFICES ASSUME Place, WindowInv, CompleteInv, ListedInv, PageInv, [Next]_vars
                PROVE  PageInv'
    OBVIOUS
  <2>0. ASSUME pc \in DOMAIN handler, stage.do # "answer", UNCHANGED window
        PROVE  PageInv'
    BY <2>0, Table DEF WindowInv, PageInv, window, At
  <2>1. CASE PageStage
    <3>1. /\ pc \in DOMAIN handler /\ stage = handler[pc] /\ stage.do = "page" /\ pc \in Nat
          /\ ~Done /\ pc > 0 /\ pc + 1 = Len(handler)
          /\ UNCHANGED <<world, request, lists, watched>>
      BY <2>1, Table, StageTable DEF PageStage, At, stage
    <3>2. sliced = NotSliced /\ page = <<>>
      BY <3>1 DEF WindowInv, PageInv, At
    <3>3. quiet /\ skipped = {} => rows = Final
      <4>1. todo = {}
        BY <3>1 DEF CompleteInv, At
      <4>2. quiet /\ skipped = {} => rows = RowsAt(pc)
        BY <3>1, <4>1 DEF ListedInv, Reviewed
      <4>3. RowsAt(pc + 1) = RowsAt(pc)
        BY <3>1, RowsOnward
      <4>. QED
        BY <3>1, <4>2, <4>3 DEF Final
    <3>4. Final' = Final
      BY <3>1, SameRows DEF Final, request
    <3>5. quiet' /\ skipped' = {} => rows' = Final'
      BY <3>1, <3>3, <3>4 DEF lists, watched
    <3>6. sliced' # NotSliced \/ UNCHANGED page
      BY <2>1 DEF PageStage, NotSliced
    <3>7. \/ UNCHANGED page
          \/ /\ sliced'.result = "ok"
             /\ \E s \in Orders(rows) : page' = SubSeq(s, sliced'.from + 1, sliced'.to)
      BY <2>1 DEF PageStage
    <3>8. Orders(rows)' = Orders(rows)
      BY <3>1 DEF lists, Orders
    <3>. QED
      BY <3>2, <3>5, <3>6, <3>7, <3>8 DEF PageInv
  <2>2. CASE AnswerStage
    <3>1. UNCHANGED <<world, request, rows, skipped, sliced, page, quiet>>
      BY <2>2 DEF AnswerStage, lists, window, watched
    <3>2. Final' = Final
      BY <3>1, SameRows DEF Final, request
    <3>. QED
      BY <3>1, <3>2 DEF PageInv, Orders
  <2>3. CASE \/ ParseWell \/ TokenStage \/ InstalledStage \/ MayAllStage \/ MayGetStage
             \/ MayGetNotNeeded \/ CopyStage \/ ListFails \/ GetStage
    BY <2>0, <2>3 DEF ParseWell, TokenStage, InstalledStage, MayAllStage, MayGetStage,
         MayGetNotNeeded, CopyStage, ListFails, GetStage, At
  <2>4. CASE ListWhole \/ ListSome \/ (\E o \in todo : Review(o)) \/ FilterStage \/ ReadStage
    BY <2>0, <2>4 DEF ListWhole, ListSome, Review, FilterStage, ReadStage, At
  <2>5. CASE Malformed \/ AskMcp
    BY <2>0, <2>5, MalformedStep, AskStep
  <2>6. CASE ReturnIfBadStage \/ CacheHasStage
    BY <2>0, <2>6 DEF ReturnIfBadStage, CacheHasStage, At
  <2>7. CASE Change
    BY <2>7, ChangeStep DEF process, lists, window, Watch, PageInv, Orders
  <2>8. CASE Again
    BY <2>8 DEF Again, PageInv
  <2>9. CASE UNCHANGED vars
    <3>1. UNCHANGED <<world, request, rows, skipped, sliced, page, quiet>>
      BY <2>9 DEF vars, lists, window, watched
    <3>2. Final' = Final
      BY <3>1, SameRows DEF Final, request
    <3>. QED
      BY <3>1, <3>2 DEF PageInv, Orders
  <2>. QED
    BY <2>1, <2>2, <2>3, <2>4, <2>5, <2>6, <2>7, <2>8, <2>9, Steps DEF Ordinary
<1>. QED
  BY <1>1, <1>2, Placing, WindowKept, CompleteKept, ListedKept, PTL DEF Spec

\* While nothing changes, and no two rows tie, what a walk got is how the list begins.
Begins(seq) ==
  \A s \in Orders(Final) :
    /\ Len(seq) <= Cardinality(Final)
    /\ \A i \in 1..Len(seq) : seq[i] = s[i]
WalkInv == quiet /\ NoTies(Final) => Begins(got)

\* The next page goes on where the last one ended.
LEMMA PageGoesOn ==
  ASSUME RowsInv, WindowInv, PageInv, WalkInv, NoTies(rows), quiet, skipped = {}, page # <<>>,
         skip = Len(got), skip + Len(page) <= Cardinality(rows)
  PROVE  /\ rows = Final /\ Orders(Final) # {} /\ Begins(got \o page)
         /\ got \o page \in Seq(Objects) /\ Len(got \o page) = skip + Len(page)
<1>. DEFINE n == Cardinality(rows)
<1>1. /\ rows = Final /\ sliced.result = "ok"
      /\ rows \in SUBSET Objects /\ IsFiniteSet(rows) /\ n \in Nat
  BY RowsFit DEF PageInv, RowsInv
<1>2. PICK t \in Orders(rows) : page = SubSeq(t, sliced.from + 1, sliced.to)
  BY DEF PageInv
<1>3. /\ got \in Seq(Objects) /\ page \in Seq(Objects)
      /\ Len(got) \in Nat /\ Len(page) \in Nat /\ Len(page) > 0
  <2>1. got \in Seq(Objects) /\ page \in Seq(Objects)
    BY DEF WindowInv
  <2>. QED
    BY <2>1
<1>4. /\ got \o page \in Seq(Objects) /\ Len(got \o page) = Len(got) + Len(page)
      /\ \A i \in 1..(Len(got) + Len(page)) :
           (got \o page)[i] = IF i <= Len(got) THEN got[i] ELSE page[i - Len(got)]
  BY <1>3, ConcatProperties
<1>5. /\ sliced.from = skip /\ sliced.to \in Int /\ sliced.to <= n
  <2>1. sliced # NotSliced /\ limit \in Int
    BY <1>1 DEF NotSliced, WindowInv, Ints
  <2>2. sliced = Window(n, limit, skip) \/ rows = {}
    BY <1>1, <2>1 DEF WindowInv, WindowRight
  <2>3. skip < n /\ skip \in Nat
    BY <1>1, <1>3
  <2>4. rows # {}
    <3>1. rows = {} => n = 0
      BY FS_EmptySet
    <3>. QED
      BY <2>3, <3>1
  <2>5. sliced = Slice(skip, IF skip + limit > n THEN n ELSE skip + limit)
    BY <1>1, <2>2, <2>3, <2>4 DEF Window
  <2>6. sliced.from = skip /\ sliced.to = IF skip + limit > n THEN n ELSE skip + limit
    BY <2>5 DEF Slice
  <2>. QED
    BY <1>1, <2>1, <2>3, <2>6
<1>6. /\ t \in [1..n -> Objects] /\ \A s \in Orders(rows) : s = t
  <2>1. \A s \in Orders(rows) : s = t
    BY <1>1, OneOrder
  <2>. QED
    BY <1>1, <2>1 DEF Orders
<1>7. \A i \in 1..Len(page) : page[i] = t[skip + i]
  <2>1. \A i \in (skip + 1)..(sliced.to) : t[i] \in Objects
    BY <1>1, <1>3, <1>5, <1>6
  <2>2. /\ Len(page) = IF skip + 1 <= sliced.to THEN sliced.to - (skip + 1) + 1 ELSE 0
        /\ \A i \in 1..(sliced.to - (skip + 1) + 1) : page[i] = t[skip + 1 + i - 1]
    BY <1>2, <1>3, <1>5, <2>1, SubSeqProperties
  <2>. QED
    BY <1>3, <1>5, <2>2
<1>8. \A i \in 1..Len(got) : got[i] = t[i]
  BY <1>1, <1>2 DEF WalkInv, Begins
<1>9. \A i \in 1..Len(got \o page) : (got \o page)[i] = t[i]
  <2>. SUFFICES ASSUME NEW i \in 1..(Len(got) + Len(page)) PROVE (got \o page)[i] = t[i]
    BY <1>4
  <2>1. CASE i <= Len(got)
    BY <1>3, <1>4, <1>8, <2>1
  <2>2. CASE i > Len(got)
    <3>1. i - Len(got) \in 1..Len(page) /\ skip + (i - Len(got)) = i
      BY <1>3, <2>2
    <3>2. (got \o page)[i] = page[i - Len(got)]
      BY <1>3, <1>4, <2>2
    <3>. QED
      BY <1>7, <3>1, <3>2
  <2>. QED
    BY <1>3, <2>1, <2>2
<1>. QED
  BY <1>1, <1>2, <1>3, <1>4, <1>6, <1>9 DEF Begins

LEMMA WalkKept == Spec => []WalkInv
<1>1. Init => WalkInv
  <2>. SUFFICES ASSUME Init PROVE WalkInv
    OBVIOUS
  <2>1. Final \in SUBSET Objects /\ got = <<>>
    BY DEF Final, RowsAt, Init
  <2>2. Cardinality(Final) \in Nat
    BY <2>1, RequestConstants, FS_Subset, FS_CardinalityType
  <2>. QED
    BY <2>1, <2>2 DEF WalkInv, Begins
<1>2. Place /\ RowsInv /\ WindowInv /\ PageInv /\ WalkInv /\ [Next]_vars => WalkInv'
  <2>. SUFFICES ASSUME Place, RowsInv, WindowInv, PageInv, WalkInv, [Next]_vars PROVE WalkInv'
    OBVIOUS
  <2>0. ASSUME UNCHANGED <<world, request, watched>> PROVE Final' = Final /\ quiet' = quiet
    BY <2>0, SameRows DEF Final, request, watched
  <2>1. ASSUME UNCHANGED <<world, request, watched, got>> PROVE WalkInv'
    BY <2>0, <2>1 DEF WalkInv, Begins, NoTies, Orders
  <2>2. CASE Ordinary \/ Malformed \/ AskMcp
    BY <2>1, <2>2, OrdinaryStep, MalformedStep, AskStep
  <2>3. CASE ReturnIfBadStage \/ CacheHasStage
    BY <2>1, <2>3 DEF ReturnIfBadStage, CacheHasStage
  <2>4. CASE Change
    BY <2>4, ChangeStep DEF Watch, WalkInv
  <2>5. CASE Again
    <3>1. UNCHANGED <<world, request, quiet>>
      BY <2>5 DEF Again
    <3>2. Final' = Final
      BY <3>1, SameRows DEF Final, request
    <3>3. SUFFICES ASSUME quiet, NoTies(Final) PROVE Begins(got')
      BY <3>1, <3>2 DEF WalkInv, Begins, NoTies, Orders
    <3>4. CASE UNCHANGED got
      BY <3>3, <3>4 DEF WalkInv
    <3>5. CASE ~UNCHANGED got
      <4>1. /\ page # <<>> /\ skip = Len(got) /\ skipped = {} /\ got' = got \o page
            /\ skip + Len(page) < Cardinality(rows)
        BY <2>5, <3>5 DEF Again
      <4>2. Len(page) \in Nat /\ Len(got) \in Nat /\ Cardinality(rows) \in Nat
        BY RowsFit DEF WindowInv
      <4>3. NoTies(rows)
        BY <3>3, <4>1 DEF PageInv
      <4>. QED
        BY <3>3, <4>1, <4>2, <4>3, PageGoesOn
    <3>. QED
      BY <3>4, <3>5
  <2>6. CASE UNCHANGED vars
    BY <2>1, <2>6 DEF vars
  <2>. QED
    BY <2>2, <2>3, <2>4, <2>5, <2>6, Steps
<1>. QED
  BY <1>1, <1>2, Placing, RowsAreObjects, WindowKept, PageKept, PTL DEF Spec

\* Whoever asks for page after page while nothing changes gets each row once and in order, for
\* any number of rows and any sizes of the pages, as long as no two rows tie and no review
\* fails.
THEOREM PagesAreTheList == Spec => []PagesMakeTheList
<1>1. RowsInv /\ WindowInv /\ PageInv /\ WalkInv => PagesMakeTheList
  <2>. SUFFICES ASSUME RowsInv, WindowInv, PageInv, WalkInv,
                       quiet, skipped = {}, page # <<>>,
                       skip = Len(got), skip + Len(page) = Cardinality(rows), NoTies(rows)
                PROVE  /\ {(got \o page)[i] : i \in DOMAIN (got \o page)} = rows
                       /\ \A i, j \in DOMAIN (got \o page) :
                            i < j => Rank[(got \o page)[i]] < Rank[(got \o page)[j]]
    BY DEF PagesMakeTheList, NoTies
  <2>. DEFINE n == Cardinality(rows)
  <2>0. n \in Nat
    BY RowsFit
  <2>1. /\ rows = Final /\ Orders(rows) # {} /\ Begins(got \o page)
        /\ got \o page \in Seq(Objects) /\ Len(got \o page) = n
    BY <2>0, PageGoesOn
  <2>2. DOMAIN (got \o page) = 1..n
    BY <2>1
  <2>3. PICK s \in Orders(rows) : \A i \in 1..n : (got \o page)[i] = s[i]
    BY <2>1 DEF Begins
  <2>4. /\ DOMAIN s = 1..n /\ \A i \in 1..n : s[i] \in rows
        /\ \A o \in rows : \E i \in 1..n : s[i] = o
        /\ \A i, j \in 1..n : i < j => Rank[s[i]] < Rank[s[j]]
    BY <2>0, OrderIsWhole DEF RowsInv
  <2>. HIDE DEF n
  <2>5. {(got \o page)[i] : i \in DOMAIN (got \o page)} = rows
    BY <2>2, <2>3, <2>4
  <2>. QED
    BY <2>2, <2>3, <2>4, <2>5
<1>. QED
  BY <1>1, RowsAreObjects, WindowKept, PageKept, WalkKept, PTL

===============================================================================
