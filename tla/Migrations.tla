----------------------------- MODULE Migrations -----------------------------
(***************************************************************************)
(* Forward-only migrations (db/migrate.ts): every deploy that starts, the  *)
(* worker's one-shot service or another, applies the files it was built    *)
(* with, under one advisory lock of a session.  A process may die at any   *)
(* step; its reserved session may break while its other connections live,  *)
(* and the lock goes with the session.                                     *)
(***************************************************************************)
EXTENDS Naturals, FiniteSets

CONSTANTS
    None,
    Deploys,    \* processes that apply migrations
    Files,      \* versions, in their order
    Has,        \* the files a deploy was built with
    MaxFaults   \* bound: crashes, broken sessions and files that fail

ASSUME MigrationsAssumption ==
    /\ Files \subseteq Nat /\ IsFiniteSet(Files)
    /\ Has \in [Deploys -> SUBSET Files]
    /\ MaxFaults \in Nat /\ None \notin Deploys

VARIABLES
    holder,     \* who holds the advisory lock
    recorded,   \* schema_migrations
    runs,       \* how often the statements of a file took effect
    pc,         \* "idle", "waiting", "locked", "applying", "running", "done", "failed"
    done,       \* the versions a deploy read as applied
    left,       \* the files it has not looked at yet
    faults

shared == <<holder, recorded, runs>>
vars == <<shared, pc, done, left, faults>>

\* The mutant: the files are taken in the order of a directory.
BugNth(p) == CHOOSE f \in left[p] : \A g \in left[p] : f >= g

Nth(p) == CHOOSE f \in left[p] : \A g \in left[p] : f =< g

Init ==
    /\ holder = None /\ recorded = {} /\ runs = [f \in Files |-> 0]
    /\ pc = [p \in Deploys |-> "idle"]
    /\ done = [p \in Deploys |-> {}] /\ left = [p \in Deploys |-> {}]
    /\ faults = 0

Release(p) == holder' = IF holder = p THEN None ELSE holder

Start(p) ==
    /\ pc[p] = "idle"
    /\ pc' = [pc EXCEPT ![p] = "waiting"]
    /\ left' = [left EXCEPT ![p] = Has[p]]
    /\ UNCHANGED <<shared, done, faults>>

Lock(p) ==
    /\ pc[p] = "waiting" /\ holder = None
    /\ holder' = p
    /\ pc' = [pc EXCEPT ![p] = "locked"]
    /\ UNCHANGED <<recorded, runs, done, left, faults>>

ReadDone(p) ==
    /\ pc[p] = "locked"
    /\ done' = [done EXCEPT ![p] = recorded]
    /\ pc' = [pc EXCEPT ![p] = "applying"]
    /\ UNCHANGED <<shared, left, faults>>

Skip(p) ==
    /\ pc[p] = "applying" /\ left[p] # {} /\ Nth(p) \in done[p]
    /\ left' = [left EXCEPT ![p] = @ \ {Nth(p)}]
    /\ UNCHANGED <<shared, pc, done, faults>>

\* A transaction runs the statements of the file.
Run(p) ==
    /\ pc[p] = "applying" /\ left[p] # {} /\ Nth(p) \notin done[p]
    /\ pc' = [pc EXCEPT ![p] = "running"]
    /\ UNCHANGED <<shared, done, left, faults>>

\* The mutant: the version is recorded after the transaction.
BugCommit(p) ==
    /\ pc[p] = "running"
    /\ runs' = [runs EXCEPT ![Nth(p)] = @ + 1]
    /\ \/ recorded' = recorded \cup {Nth(p)}
       \/ faults < MaxFaults /\ recorded' = recorded
    /\ left' = [left EXCEPT ![p] = @ \ {Nth(p)}]
    /\ pc' = [pc EXCEPT ![p] = "applying"]
    /\ UNCHANGED <<holder, done, faults>>

\* The version is recorded in the same transaction; one that is recorded by
\* another deploy meanwhile undoes it, and the deploy fails.
Commit(p) ==
    /\ pc[p] = "running"
    /\ IF Nth(p) \in recorded
         THEN /\ pc' = [pc EXCEPT ![p] = "failed"]
              /\ Release(p)
              /\ UNCHANGED <<recorded, runs, left>>
         ELSE /\ recorded' = recorded \cup {Nth(p)}
              /\ runs' = [runs EXCEPT ![Nth(p)] = @ + 1]
              /\ left' = [left EXCEPT ![p] = @ \ {Nth(p)}]
              /\ pc' = [pc EXCEPT ![p] = "applying"]
              /\ UNCHANGED holder
    /\ UNCHANGED <<done, faults>>

\* A statement fails: the transaction is undone, and the deploy fails.
StatementFails(p) ==
    /\ pc[p] = "running" /\ faults < MaxFaults
    /\ pc' = [pc EXCEPT ![p] = "failed"]
    /\ Release(p) /\ faults' = faults + 1
    /\ UNCHANGED <<recorded, runs, done, left>>

Finish(p) ==
    /\ pc[p] = "applying" /\ left[p] = {}
    /\ pc' = [pc EXCEPT ![p] = "done"]
    /\ Release(p)
    /\ UNCHANGED <<recorded, runs, done, left, faults>>

\* A failed deploy is started again.
Again(p) ==
    /\ pc[p] = "failed"
    /\ pc' = [pc EXCEPT ![p] = "idle"]
    /\ UNCHANGED <<shared, done, left, faults>>

Crash(p) ==
    /\ pc[p] \notin {"idle", "done"} /\ faults < MaxFaults
    /\ pc' = [pc EXCEPT ![p] = "failed"]
    /\ Release(p) /\ faults' = faults + 1
    /\ UNCHANGED <<recorded, runs, done, left>>

\* The reserved session breaks: the deploy goes on without the lock.
SessionBreaks(p) ==
    /\ holder = p /\ faults < MaxFaults
    /\ holder' = None /\ faults' = faults + 1
    /\ UNCHANGED <<recorded, runs, pc, done, left>>

Step(p) == Lock(p) \/ ReadDone(p) \/ Skip(p) \/ Run(p) \/ Commit(p) \/ Finish(p) \/ Again(p) \/ Start(p)

Next == \E p \in Deploys : Step(p) \/ StatementFails(p) \/ Crash(p) \/ SessionBreaks(p)

\* The database grants the lock to those that wait in turn.
Spec == Init /\ [][Next]_vars /\ \A p \in Deploys : WF_vars(Step(p)) /\ SF_vars(Lock(p))
-----------------------------------------------------------------------------
\* A file takes effect once, and exactly when it is recorded, even where the
\* lock was lost between two deploys (migrate.ts:1, 109-113).
EveryFileOnce == \A f \in Files : runs[f] = (IF f \in recorded THEN 1 ELSE 0)

\* A deploy that ends has every file of its own applied (migrate.ts:86).
DoneIsApplied == \A p \in Deploys : pc[p] = "done" => Has[p] \subseteq recorded

\* A file is applied after every earlier one its deploy was built with
\* (migrate.ts:86).
InVersionOrder ==
    [][\A f \in recorded' \ recorded :
        \E p \in Deploys : pc[p] = "running" /\ {g \in Has[p] : g < f} \subseteq recorded]_vars

\* While no session breaks, no two deploys are among their files at once
\* (migrate.ts:2-3).
OneAtATime ==
    faults = 0 => \A p, q \in Deploys :
        pc[p] \in {"applying", "running"} /\ pc[q] \in {"applying", "running"} => p = q

\* Whatever deploys start together and whatever sessions break, a file takes effect
\* once, and a deploy that ends well has all of its files applied (migrate.ts:86).
MigrationsKept == EveryFileOnce /\ DoneIsApplied /\ OneAtATime

Owed == {p \in Deploys : pc[p] # "done"}

\* Every deploy comes to its end (migrate.ts:86).
DeploysEnd == \A p \in Deploys : p \in Owed ~> p \notin Owed
=============================================================================
