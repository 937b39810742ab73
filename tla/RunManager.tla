----------------------------- MODULE RunManager -----------------------------
(***************************************************************************)
(* Admission of hosted runs (mjj/server.py: RunManager).  Every POST is a  *)
(* handler thread; `create` takes the manager's lock twice, opening the    *)
(* session between the two, and a reservation stands for the run in        *)
(* between.  The producer thread marks the run done, and it and the        *)
(* handler threads both release it afterwards.  What the run does is in    *)
(* RunStream; here it ends at some point or never.                         *)
(***************************************************************************)
EXTENDS Integers, FiniteSets

CONSTANTS
  Runs,      \* requests; a run takes the name of the request it came from
  Users,     \* accounts (user keys)
  Owner,     \* the account that authenticated the request
  MaxRuns    \* config.max_runs_per_user, at least 1

ASSUME ManagerAssumption ==
  /\ IsFiniteSet(Runs) /\ Owner \in [Runs -> Users] /\ MaxRuns \in Nat \ {0}

VARIABLES
  pc,            \* where the thread that serves a request stands
  runs,          \* RunManager._runs
  done,          \* runs whose done event is set
  reservations   \* RunManager._reservations, 0 for an absent key

vars == <<pc, runs, done, reservations>>

Stages == {"waiting", "refused", "reserved", "failed", "registered",
           "running", "stranded", "done"}

\* Runs of an account that stand at one of the given stages.
At(u, stages) == {r \in Runs : Owner[r] = u /\ pc[r] \in stages}

\* A request holds a slot from its reservation to its done event.
Holding == {"reserved", "registered", "running", "stranded"}

-----------------------------------------------------------------------------

Init ==
  /\ pc = [r \in Runs |-> "waiting"]
  /\ runs = {} /\ done = {}
  /\ reservations = [u \in Users |-> 0]

\* `active` of create: registered runs that are not done, plus reservations.
Active(u) ==
  Cardinality({r \in runs \ done : Owner[r] = u}) + reservations[u]

\* Mutant: the limit is compared before the reservations are added.
ReserveUncounted(r) ==
  /\ pc[r] = "waiting"
  /\ Cardinality({q \in runs \ done : Owner[q] = Owner[r]}) < MaxRuns
  /\ reservations' = [reservations EXCEPT ![Owner[r]] = @ + 1]
  /\ pc' = [pc EXCEPT ![r] = "reserved"]
  /\ UNCHANGED <<runs, done>>

\* create, first critical section: the slot is counted and reserved.
Reserve(r) ==
  /\ pc[r] = "waiting" /\ Active(Owner[r]) < MaxRuns
  /\ reservations' = [reservations EXCEPT ![Owner[r]] = @ + 1]
  /\ pc' = [pc EXCEPT ![r] = "reserved"]
  /\ UNCHANGED <<runs, done>>

\* ... or the request is answered 429.
Refuse(r) ==
  /\ pc[r] = "waiting" /\ Active(Owner[r]) >= MaxRuns
  /\ pc' = [pc EXCEPT ![r] = "refused"]
  /\ UNCHANGED <<runs, done, reservations>>

\* _unreserve: the last reservation of an account removes its key.
Unreserve(u) ==
  reservations' =
    [reservations EXCEPT ![u] = IF @ - 1 > 0 THEN @ - 1 ELSE 0]

\* Mutant: a failing session factory leaves its reservation behind.
FactoryLeaks(r) ==
  /\ pc[r] = "reserved"
  /\ pc' = [pc EXCEPT ![r] = "failed"]
  /\ UNCHANGED <<runs, done, reservations>>

\* The session factory raises: unknown session, disk full.
FactoryFails(r) ==
  /\ pc[r] = "reserved"
  /\ Unreserve(Owner[r])
  /\ pc' = [pc EXCEPT ![r] = "failed"]
  /\ UNCHANGED <<runs, done>>

\* Mutant: the reservation is kept when the run is entered in the table.
RegisterTwice(r) ==
  /\ pc[r] = "reserved"
  /\ runs' = runs \cup {r}
  /\ pc' = [pc EXCEPT ![r] = "registered"]
  /\ UNCHANGED <<done, reservations>>

\* create, second critical section: the reservation becomes a run.
Register(r) ==
  /\ pc[r] = "reserved"
  /\ Unreserve(Owner[r])
  /\ runs' = runs \cup {r}
  /\ pc' = [pc EXCEPT ![r] = "registered"]
  /\ UNCHANGED done

\* thread.start(), or its failure, which nothing undoes.
StartThread(r) ==
  /\ pc[r] = "registered"
  /\ \/ pc' = [pc EXCEPT ![r] = "running"]
     \/ pc' = [pc EXCEPT ![r] = "stranded"]
  /\ UNCHANGED <<runs, done, reservations>>

\* RunState.finish, called once by the producer.
Finish(r) ==
  /\ pc[r] = "running"
  /\ done' = done \cup {r}
  /\ pc' = [pc EXCEPT ![r] = "done"]
  /\ UNCHANGED <<runs, reservations>>

\* Mutant: a handler that leaves early drops a run that still works.
ReleaseEarly(r) ==
  /\ r \in runs
  /\ runs' = runs \ {r}
  /\ UNCHANGED <<pc, done, reservations>>

\* release, by the producer or by a leaving handler; a no-op before done and
\* when the other side was first.
release(r) ==
  /\ r \in done /\ r \in runs
  /\ runs' = runs \ {r}
  /\ UNCHANGED <<pc, done, reservations>>

Next == \E r \in Runs :
  \/ Reserve(r) \/ Refuse(r) \/ FactoryFails(r) \/ Register(r)
  \/ StartThread(r) \/ Finish(r) \/ release(r)

Spec == Init /\ [][Next]_vars

-----------------------------------------------------------------------------
(* Properties. *)

TypeOK ==
  /\ pc \in [Runs -> Stages]
  /\ runs \subseteq Runs /\ done \subseteq Runs
  /\ reservations \in [Users -> Nat]

(* A reservation stands for exactly one request between the two critical   *)
(* sections of create, whether the session opened or not: no path leaks a  *)
(* slot and none gives one back twice.                                     *)
ReservationsExact ==
  \A u \in Users : reservations[u] = Cardinality(At(u, {"reserved"}))

(* The table holds every run from registration until it is done, so that   *)
(* interrupt and steer find a run for as long as it works, and a run that  *)
(* is not done still counts - also one whose thread could not be started,  *)
(* which is never done and keeps its slot (server.py:525).                 *)
TableExact ==
  /\ \A r \in Runs : pc[r] \in {"registered", "running", "stranded"} =>
                       r \in runs \ done
  /\ runs \ done \subseteq
       {r \in Runs : pc[r] \in {"registered", "running", "stranded"}}

(* docs/server.md, MJJ_MAX_RUNS_PER_USER: an account never has more working*)
(* runs than its cap, however many requests arrive while sessions open.    *)
LiveCap ==
  \A u \in Users : Cardinality(At(u, {"running"})) <= MaxRuns

(* A request is refused only when as many other requests of the account    *)
(* hold a slot as the cap allows.                                          *)
RefusedOnlyWhenFull ==
  [][\A r \in Runs : pc[r] = "waiting" /\ pc'[r] = "refused" =>
       Cardinality(At(Owner[r], Holding)) >= MaxRuns]_vars

(* RunManager implements the slots of RunSlots: a slot is taken by a       *)
(* reservation and given back by a failed session or the end of a run, and *)
(* no other step, in whatever order the threads run, moves one.            *)
Slots == INSTANCE RunSlots WITH
  used <- [u \in Users |-> Cardinality(At(u, Holding))]
SlotsSpec == Slots!Spec
=============================================================================
