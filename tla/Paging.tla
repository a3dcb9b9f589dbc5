-------------------------------- MODULE Paging --------------------------------
(***************************************************************************)
(* The window of a list that a page shows: limit and skip as the handlers  *)
(* of the server apply them, with the integers of the program, which wrap  *)
(* around past MaxInt.                                                     *)
(***************************************************************************)
EXTENDS Integers

CONSTANTS
  MaxInt,      \* the largest int
  maxItems     \* the limit of a request that names none

ASSUME PagingConstants == MaxInt \in Nat /\ maxItems \in 0..MaxInt

Ints == (-MaxInt - 1)..MaxInt

\* What n becomes in an int, for an n that is the sum of two.
Wrap(n) ==
  IF n > MaxInt THEN n - 2 * (MaxInt + 1)
  ELSE IF n < -MaxInt - 1 THEN n + 2 * (MaxInt + 1)
  ELSE n

\* The elements after from and up to to; a refusal; an index out of range.
Slice(from, to) == [result |-> "ok", from |-> from, to |-> to]
Refused == [result |-> "refused", from |-> 0, to |-> 0]
Panic == [result |-> "panic", from |-> 0, to |-> 0]

\* items[from:to] of len items
SliceOf(len, from, to) ==
  IF 0 <= from /\ from <= to /\ to <= len THEN Slice(from, to) ELSE Panic

\* Faulty: the end is never drawn back to the end of the list.
getSliceUnadjusted(len, limit, skip) ==
  IF skip < 0 \/ limit < 0 THEN Refused
  ELSE IF skip >= len THEN Slice(0, 0)
  ELSE SliceOf(len, skip, Wrap(skip + limit))

\* Faulty: a page ends at limit, wherever it starts.
getSliceToLimit(len, limit, skip) ==
  IF skip < 0 \/ limit < 0 THEN Refused
  ELSE IF skip >= len THEN Slice(0, 0)
  ELSE SliceOf(len, skip, IF limit > len THEN len ELSE IF limit < skip THEN skip ELSE limit)

\* Faulty: one element too many.
getSliceInclusive(len, limit, skip) ==
  IF skip < 0 \/ limit < 0 THEN Refused
  ELSE IF skip >= len THEN Slice(0, 0)
  ELSE LET adjustedLimit == IF Wrap(skip + limit) >= len THEN len - skip ELSE limit + 1 IN
         SliceOf(len, skip, Wrap(skip + adjustedLimit))

getSliceInRange(len, limit, skip) ==
  IF skip < 0 \/ limit < 0 THEN Refused
  ELSE IF skip >= len THEN Slice(0, 0)
  ELSE LET adjustedLimit == IF Wrap(skip + limit) > len THEN len - skip ELSE limit IN
         SliceOf(len, skip, Wrap(skip + adjustedLimit))

\* The lists of clusters have a function of their own: an empty one is never refused.
getClustersInRange(len, limit, skip) ==
  IF len = 0 THEN Slice(0, 0) ELSE getSliceInRange(len, limit, skip)

-----------------------------------------------------------------------------

\* The window as a reader of the API expects it, with numbers that do not wrap.
Window(len, limit, skip) ==
  IF skip >= len THEN Slice(0, 0)
  ELSE Slice(skip, IF skip + limit > len THEN len ELSE skip + limit)

===============================================================================
