---------------------------- MODULE ProfileStore ----------------------------
(***************************************************************************)
(* What POST, PUT and DELETE /profile promise about the profiles, without  *)
(* saying how: a request changes its own profile at most once, at one      *)
(* moment between its arrival and its answer, and the answer is true of    *)
(* that change.  Whoever is told "created" made the profile while there    *)
(* was none; "invalid" and "unauthorized" come at once and "conflict" to   *)
(* creates only, and nothing was written; nor was it by a create that is   *)
(* told "forbidden" or "notFound"; after "ok" the spec is the one that was *)
(* sent, and after "noContent" the profile was on its way out, or gone;    *)
(* only "error" tells nothing.  ProfileWrites implements it with several   *)
(* calls per request, each of which may fail.                              *)
(***************************************************************************)

CONSTANTS Requests, Ids, Contents, None

VARIABLES profiles,   \* [Ids -> [refs, deleting] or None]
          clients     \* [Requests -> [op, id, refs, outcome] or None]

vars == <<profiles, clients>>

\* "pending" until the profile is changed, "applied" from then on, then the answer.
Is(client, op, outcome) == client # None /\ client.op = op /\ client.outcome = outcome

Pending(q, op) == Is(clients[q], op, "pending")
Applied(q, op) == Is(clients[q], op, "applied")

Outcome(q, outcomes) ==
  \E outcome \in outcomes : clients' = [clients EXCEPT ![q] = [@ EXCEPT !.outcome = outcome]]

\* What the request says of its profile.
ProfileOf(q) == profiles[clients[q].id]
SetProfile(q, profile) == profiles' = [profiles EXCEPT ![clients[q].id] = profile]

Init ==
  /\ profiles = [i \in Ids |-> None]
  /\ clients = [q \in Requests |-> None]

Request == [op : {"create", "update", "delete"}, id : Ids, refs : SUBSET Contents,
            outcome : {"pending", "invalid", "unauthorized"}]

\* A request that is malformed, or nobody's, is answered as it comes.
Receive(q) ==
  /\ clients[q] = None
  /\ clients'[q] \in Request
  /\ clients' = [clients EXCEPT ![q] = clients'[q]]
  /\ UNCHANGED profiles

Create(q) ==
  /\ Pending(q, "create")
  /\ \/ /\ ProfileOf(q) = None
        /\ SetProfile(q, [refs |-> clients[q].refs, deleting |-> FALSE])
        /\ Outcome(q, {"created", "error"})
     \/ Outcome(q, {"conflict", "forbidden", "notFound", "error"}) /\ UNCHANGED profiles

\* The spec is replaced and nothing else: a profile on its way out stays so.
Update(q) ==
  /\ Pending(q, "update")
  /\ \/ /\ ProfileOf(q) # None
        /\ SetProfile(q, [ProfileOf(q) EXCEPT !.refs = clients[q].refs])
        /\ Outcome(q, {"applied", "ok", "error"})
     \/ ProfileOf(q) = None /\ Outcome(q, {"notFound"}) /\ UNCHANGED profiles
     \/ Outcome(q, {"forbidden", "error"}) /\ UNCHANGED profiles

\* The contents follow: one that is missing is answered as a missing profile is.
FinishUpdate(q) ==
  /\ Applied(q, "update")
  /\ Outcome(q, {"ok", "notFound", "forbidden", "error"})
  /\ UNCHANGED profiles

Delete(q) ==
  /\ Pending(q, "delete")
  /\ \/ /\ ProfileOf(q) # None
        /\ SetProfile(q, [ProfileOf(q) EXCEPT !.deleting = TRUE])
        /\ Outcome(q, {"applied", "noContent", "error"})
     \/ /\ ProfileOf(q) = None
        /\ Outcome(q, {"applied", "noContent"})
        /\ UNCHANGED profiles
     \/ Outcome(q, {"forbidden", "error"}) /\ UNCHANGED profiles

FinishDelete(q) ==
  /\ Applied(q, "delete")
  /\ Outcome(q, {"noContent", "forbidden", "error"})
  /\ UNCHANGED profiles

\* The controllers let go of a profile that is on its way out, and of no other.
Finalize(i) ==
  /\ profiles[i] # None /\ profiles[i].deleting
  /\ profiles' = [profiles EXCEPT ![i] = None]
  /\ UNCHANGED clients

Next ==
  \/ \E q \in Requests :
       \/ Receive(q)
       \/ Create(q)
       \/ Update(q) \/ FinishUpdate(q)
       \/ Delete(q) \/ FinishDelete(q)
  \/ \E i \in Ids : Finalize(i)

Spec == Init /\ [][Next]_vars

=============================================================================
