------------------------------ MODULE Backfill ------------------------------
(***************************************************************************)
(* The legacy Meta credentials of a client, moved into a connection when   *)
(* workers start (startup/backfill-legacy.ts), while the owner may connect *)
(* Meta in the dashboard.  One client: each has a lock of its own.         *)
(***************************************************************************)
EXTENDS Naturals, FiniteSets, Sequences

CONSTANTS
    None,
    Workers,    \* worker processes that start
    MaxGrants,  \* bound: how often the owner connects Meta
    MaxBoots    \* bound: how often workers start

BackfillAssumption == MaxGrants \in Nat /\ MaxBoots \in Nat /\ None \notin Workers

VARIABLES
    connections,    \* provider_connections of the client for Meta: their kinds, by age
    page,           \* the connection its account belongs to, or 0
    secret,         \* the legacy token: "good", "unreadable" or "none"
    lock,           \* the advisory lock of a client
    pc,             \* "off", "scanned", "checking", "creating", "ready"
    boots

vars == <<connections, page, secret, lock, pc, boots>>

Init ==
    /\ connections = <<>> /\ page = 0 /\ secret \in {"good", "unreadable", "none"}
    /\ lock = None /\ pc = [w \in Workers |-> "off"] /\ boots = 0

\* A worker starts and lists the clients with a legacy token.
Boot(w) ==
    /\ pc[w] \in {"off", "ready"} /\ boots < MaxBoots
    /\ boots' = boots + 1
    /\ pc' = [pc EXCEPT ![w] = IF secret = "none" THEN "ready" ELSE "scanned"]
    /\ UNCHANGED <<connections, page, secret, lock>>

\* The mutant: no lock.
BugLock(w) ==
    /\ pc[w] = "scanned"
    /\ pc' = [pc EXCEPT ![w] = "checking"]
    /\ UNCHANGED <<connections, page, secret, lock, boots>>

Lock(w) ==
    /\ pc[w] = "scanned" /\ lock = None
    /\ lock' = w
    /\ pc' = [pc EXCEPT ![w] = "checking"]
    /\ UNCHANGED <<connections, page, secret, boots>>

\* A client with a connection is skipped; so is one whose token cannot be
\* decrypted, an error that is logged.
Check(w) ==
    /\ pc[w] = "checking"
    /\ IF connections # <<>> \/ secret = "unreadable"
         THEN pc' = [pc EXCEPT ![w] = "ready"] /\ lock' = None
         ELSE pc' = [pc EXCEPT ![w] = "creating"] /\ UNCHANGED lock
    /\ UNCHANGED <<connections, page, secret, boots>>

\* The connection, and the accounts of the client moved to it, in one commit.
Create(w) ==
    /\ pc[w] = "creating"
    /\ connections' = Append(connections, "legacy")
    /\ page' = Len(connections')
    /\ pc' = [pc EXCEPT ![w] = "ready"]
    /\ lock' = None
    /\ UNCHANGED <<secret, boots>>

\* The worker dies: its transaction is undone and its lock given up.
Crash(w) ==
    /\ pc[w] \in {"scanned", "checking", "creating"}
    /\ pc' = [pc EXCEPT ![w] = "off"]
    /\ lock' = IF lock = w THEN None ELSE lock
    /\ UNCHANGED <<connections, page, secret, boots>>

\* The owner connects Meta: a connection, and its accounts (see Connections).
Grant ==
    /\ Cardinality({i \in DOMAIN connections : connections[i] = "oauth"}) < MaxGrants
    /\ connections' = Append(connections, "oauth")
    /\ page' = Len(connections')
    /\ UNCHANGED <<secret, lock, pc, boots>>

Next == Grant \/ \E w \in Workers : Boot(w) \/ Lock(w) \/ Check(w) \/ Create(w) \/ Crash(w)

Spec == Init /\ [][Next]_vars /\ \A w \in Workers : WF_vars(Check(w) \/ Create(w)) /\ SF_vars(Lock(w))
-----------------------------------------------------------------------------
\* Workers that start together, or again, make one connection of the legacy
\* token (backfill-legacy.ts:4-5).
OneLegacy == Cardinality({i \in DOMAIN connections : connections[i] = "legacy"}) =< 1

\* A client that already has a connection is skipped: its account stays with
\* the token its owner granted (backfill-legacy.ts:4-5).
GrantKeepsAccount ==
    [][page # 0 /\ connections[page] = "oauth" => page' # 0 /\ connections'[page'] = "oauth"]_vars

Owed == {w \in Workers : pc[w] # "off" /\ secret = "good" /\ connections = <<>>}

\* A client whose token can be read comes to have a connection, once its
\* workers are up (index.ts:50).
Moved == \A w \in Workers : w \in Owed ~> w \notin Owed

-----------------------------------------------------------------------------
(* What the proofs need beside the properties: the inductive invariant.    *)

BackfillTypes ==
    /\ connections \in Seq({"legacy", "oauth"})
    /\ pc \in [Workers -> {"off", "scanned", "checking", "creating", "ready"}]

\* Whoever looks for a connection, and makes one of the token, has the lock.
LockIsHeld == \A w \in Workers : pc[w] \in {"checking", "creating"} => lock = w

\* Nothing was made of the token when a worker is about to.
NothingYet ==
    (\E w \in Workers : pc[w] = "creating") => \A i \in DOMAIN connections : connections[i] = "oauth"

OfTheToken ==
    \A i, j \in DOMAIN connections : connections[i] = "legacy" /\ connections[j] = "legacy" => i = j

BackfillInv == BackfillTypes /\ LockIsHeld /\ NothingYet /\ OfTheToken
=============================================================================
