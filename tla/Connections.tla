------------------------------- MODULE Connections -------------------------------
(***************************************************************************)
(* The Meta connections of one client: OAuth round trips create them and   *)
(* move the accounts, jobs and the daily health check park them when the   *)
(* provider refuses a grant, Meta's callbacks take them away.  Every       *)
(* round trip inserts a connection row of its own, so a connection stands  *)
(* for the grant it was created with.                                      *)
(***************************************************************************)
EXTENDS Naturals, FiniteSets

CONSTANTS
    Accounts,    \* external ids: the page, the Instagram account
    States,      \* OAuth states
    Requests,    \* callback requests in flight
    Jobs,        \* worker handlers in flight
    None,
    DashboardPool, \* the login of the dashboard: "tenant" (sm_app: rows of the
                   \* client set in the transaction) or "owner" (no policies)
    MaxConns,    \* bound: connections created
    MaxDeaths,   \* bound: grants the provider stops honouring
    MaxDenials,  \* bound: living grants of which it denies a call
    MaxCrashes   \* bound: handlers that die

ConnectionsAssumption ==
    /\ None \notin Accounts \cup States
    /\ DashboardPool \in {"tenant", "owner"}
    /\ MaxConns \in Nat \ {0} /\ MaxDeaths \in Nat /\ MaxDenials \in Nat /\ MaxCrashes \in Nat

VARIABLES
    conns,    \* provider_connections: id -> status and whether a secret is kept
    account,  \* social_accounts: external id -> connection (0: none) and status
    last,     \* the newest connection id
    states,   \* oauth_states
    request,  \* the state each callback request has redeemed
    job,      \* each handler: its step, its account, the connection it loaded,
              \* the connection the health check is about (0: a plain job)
    told,     \* connections whose owner was sent an alert
    dead,     \* the provider: grants it refuses
    denied,   \* history: connections of which it denied a call for want of a permission
    removed,  \* Meta's deauthorize call: its step
    before,   \* history: connections that existed when the user removed the app
    granted,  \* history: connections each state led to
    crashes

store == <<conns, account, last>>
oauth == <<states, request, granted>>
meta == <<dead, denied, removed, before>>
vars == <<store, oauth, meta, job, told, crashes>>

-----------------------------------------------------------------------------
ConnIds == 1..MaxConns
Idle == [pc |-> "idle", acct |-> None, conn |-> 0, about |-> 0]
Absent == [conn |-> 0, status |-> "active"]

Init ==
    /\ conns = [c \in {} |-> 0] /\ last = 0
    /\ account = [a \in Accounts |-> Absent]
    /\ states = [s \in States |-> "unborn"] /\ request = [r \in Requests |-> None]
    /\ granted = [s \in States |-> 0]
    /\ job = [j \in Jobs |-> Idle] /\ told = {}
    /\ dead = {} /\ denied = {} /\ removed = "no" /\ before = {} /\ crashes = 0

Exists(c) == c \in DOMAIN conns
AccountsOf(c) == {a \in Accounts : account[a].conn = c}
\* getAccountContext: the account joined with its connection.
Usable(a) == /\ account[a].conn # 0 /\ account[a].status = "active"
             /\ conns[account[a].conn].status = "active"

-----------------------------------------------------------------------------
(* The OAuth round trip                                                    *)

\* GET start: createOAuthState.
Start(s) ==
    /\ states[s] = "unborn"
    /\ states' = [states EXCEPT ![s] = "open"]
    /\ UNCHANGED <<store, request, granted, meta, job, told, crashes>>

\* expires_at passes.
ExpireState(s) ==
    /\ states[s] = "open"
    /\ states' = [states EXCEPT ![s] = "expired"]
    /\ UNCHANGED <<store, request, granted, meta, job, told, crashes>>

\* consumeOAuthState: used_at IS NULL AND expires_at > now().
Redeemable(s) == states[s] = "open"

\* GET callback: the state is spent even if the provider reports an error or sends
\* no code; otherwise the request goes on to the exchange.
Redeem(r, s) ==
    /\ request[r] = None /\ Redeemable(s)
    /\ states' = [states EXCEPT ![s] = "used"]
    /\ request' \in {request, [request EXCEPT ![r] = s]}
    /\ UNCHANGED <<store, granted, meta, job, told, crashes>>

\* exchangeAndDiscover throws, or finds no account.
ExchangeFails(r) ==
    /\ request[r] # None
    /\ request' = [request EXCEPT ![r] = None]
    /\ UNCHANGED <<store, states, granted, meta, job, told, crashes>>

\* upsertAccounts: found accounts move to the connection and are active again.
Moved(found, c) ==
    [a \in Accounts |-> IF a \in found THEN [conn |-> c, status |-> "active"] ELSE account[a]]

\* The rows that survive the reconnect: the new one and those that kept an account.
Kept(c, owners) == {c} \cup {o \in DOMAIN conns : \E a \in Accounts : owners[a].conn = o}

BugReuseRow(c) == IF last = 0 THEN 1 ELSE last
\* createConnection inserts.
RowFor(c) == c

\* persistConnection, one transaction; deleting a connection deletes its accounts.
Persist(r, found) ==
    /\ request[r] # None /\ found # {} /\ last < MaxConns
    /\ LET c == RowFor(last + 1)
           owners == Moved(found, c)
           kept == Kept(c, owners)
       IN /\ conns' = [o \in kept |->
                          IF o = c THEN [status |-> "active", secret |-> TRUE] ELSE conns[o]]
          /\ account' = [a \in Accounts |-> IF owners[a].conn \in kept THEN owners[a] ELSE Absent]
          /\ last' = c
          /\ dead' = dead \ {c} /\ denied' = denied \ {c}
    /\ request' = [request EXCEPT ![r] = None]
    /\ granted' = [granted EXCEPT ![request[r]] = @ + 1]
    /\ UNCHANGED <<states, removed, before, job, told, crashes>>

-----------------------------------------------------------------------------
(* The provider                                                            *)

\* A grant ends: a changed password, an expired or withdrawn permission.
GrantDies(c) ==
    /\ Exists(c) /\ c \notin dead /\ Cardinality(dead) < MaxDeaths
    /\ dead' = dead \cup {c}
    /\ UNCHANGED <<store, oauth, denied, removed, before, job, told, crashes>>

\* The rows a statement of the dashboard's pool sees outside a tenant transaction.
Visible == IF DashboardPool = "owner" THEN DOMAIN conns ELSE {}

\* The user removes the app: every grant is dead and Meta calls deauthorize.
RemoveApp ==
    /\ removed = "no" /\ last > 0
    /\ removed' = "called" /\ dead' = 1..last /\ before' = DOMAIN conns
    /\ UNCHANGED <<store, oauth, denied, job, told, crashes>>

BugKeepSecret(c) == [status |-> "revoked", secret |-> conns[c].secret]
\* The row that POST deauthorize leaves.
RevokedRow(c) == [status |-> "revoked", secret |-> FALSE]

\* POST deauthorize, first statement.
RevokeConnections ==
    /\ removed = "called" /\ removed' = "half"
    /\ conns' = [c \in DOMAIN conns |-> IF c \in Visible THEN RevokedRow(c) ELSE conns[c]]
    /\ UNCHANGED <<account, last, oauth, dead, denied, before, job, told, crashes>>

\* Its second statement takes every account whose connection names that user.
RevokeAccounts ==
    /\ removed = "half" /\ removed' = "answered"
    /\ account' = [a \in Accounts |->
           IF account[a].conn \in Visible THEN [account[a] EXCEPT !.status = "revoked"] ELSE account[a]]
    /\ UNCHANGED <<conns, last, oauth, dead, denied, before, job, told, crashes>>

\* POST data-deletion: the rows and, by cascade, the accounts go.  (A tenant login
\* may not write data_deletion_requests: its request fails and deletes nothing.)
DeleteUser ==
    /\ removed = "answered" /\ Visible # {}
    /\ conns' = [c \in {} |-> 0] /\ account' = [a \in Accounts |-> Absent]
    /\ UNCHANGED <<last, oauth, meta, job, told, crashes>>

-----------------------------------------------------------------------------
(* Jobs and the health check                                               *)

Set(j, value) == job' = [job EXCEPT ![j] = value]
At(j, step) == job[j].pc = step
Then(j, step) == Set(j, [job[j] EXCEPT !.pc = step])
handler == <<last, oauth, meta>>

\* loadProviderHandle: a parked or revoked connection or account throws.
Load(j, a) ==
    /\ At(j, "idle") /\ Usable(a)
    /\ Set(j, [pc |-> "call", acct |-> a, conn |-> account[a].conn, about |-> 0])
    /\ UNCHANGED <<conns, account, handler, told, crashes>>

\* connections.health: an active connection about to expire; without a usable account
\* it is parked, otherwise its accounts are tried.
Check(j, c) ==
    /\ At(j, "idle") /\ Exists(c) /\ conns[c].status = "active"
    /\ Set(j, [pc |-> IF \E a \in AccountsOf(c) : account[a].status = "active" THEN "next" ELSE "park",
               acct |-> None, conn |-> c, about |-> c])
    /\ UNCHANGED <<conns, account, handler, told, crashes>>

\* The next account of the list read by Check, wherever it belongs by now.
TryAccount(j, a) ==
    /\ At(j, "next") /\ Usable(a)
    /\ Set(j, [job[j] EXCEPT !.pc = "call", !.acct = a, !.conn = account[a].conn])
    /\ UNCHANGED <<conns, account, handler, told, crashes>>

\* No account is left, or the rest cannot be loaded.
NoneLeft(j) ==
    /\ At(j, "next") /\ Set(j, Idle)
    /\ UNCHANGED <<conns, account, handler, told, crashes>>

\* The provider accepts the grant (or fails for another reason).
Accepted(j) ==
    /\ At(j, "call") /\ job[j].conn \notin dead
    /\ IF job[j].about # 0 THEN Then(j, "restore") ELSE Set(j, Idle)
    /\ UNCHANGED <<conns, account, handler, told, crashes>>

\* It refuses it: isReauthError.
Refused(j) ==
    /\ At(j, "call") /\ job[j].conn \in dead
    /\ Then(j, "park")
    /\ UNCHANGED <<conns, account, handler, told, crashes>>

\* It honours the grant and denies this call (a post or a comment out of reach):
\* isReauthError takes any missing permission for a grant that ended.
Denied(j) ==
    /\ At(j, "call") /\ job[j].conn \notin dead
    /\ job[j].conn \in denied \/ Cardinality(denied) < MaxDenials
    /\ denied' = denied \cup {job[j].conn}
    /\ Then(j, "park")
    /\ UNCHANGED <<conns, account, last, oauth, dead, removed, before, told, crashes>>

\* setConnectionStatus by id, whatever the row says; a deleted row is no row.
SetConnectionStatus(c, status) ==
    conns' = [o \in DOMAIN conns |-> IF o = c THEN [conns[o] EXCEPT !.status = status] ELSE conns[o]]

\* healthy: setConnectionStatus(connection.id, 'active').
Restore(j) ==
    /\ At(j, "restore")
    /\ SetConnectionStatus(job[j].about, "active")
    /\ Set(j, Idle)
    /\ UNCHANGED <<account, handler, told, crashes>>

\* markNeedsReauth: the connection, then the account, then the alert.
ParkConnection(j) ==
    /\ At(j, "park")
    /\ SetConnectionStatus(job[j].conn, "needs_reauth")
    /\ Then(j, IF job[j].acct = None THEN "tell" ELSE "park_account")
    /\ UNCHANGED <<account, handler, told, crashes>>

\* setAccountStatus by id, wherever the account belongs by now.
ParkAccount(j) ==
    /\ At(j, "park_account")
    /\ account' = [a \in Accounts |-> IF a = job[j].acct /\ account[a].conn # 0
                                      THEN [account[a] EXCEPT !.status = "needs_reauth"] ELSE account[a]]
    /\ Then(j, "tell")
    /\ UNCHANGED <<conns, handler, told, crashes>>

\* notify.telegram finds the connection, or sends nothing.
Alerted(j) == told \cup ({job[j].conn} \cap DOMAIN conns)

Tell(j) ==
    /\ At(j, "tell")
    /\ told' = Alerted(j)
    /\ IF job[j].about # 0 /\ job[j].acct # None THEN Then(j, "next") ELSE Set(j, Idle)
    /\ UNCHANGED <<conns, account, handler, crashes>>

\* The process dies; the retry finds the connection parked and tells nobody.
Crash(j) ==
    /\ ~At(j, "idle") /\ crashes < MaxCrashes
    /\ crashes' = crashes + 1 /\ Set(j, Idle)
    /\ UNCHANGED <<conns, account, handler, told>>

-----------------------------------------------------------------------------
RoundTrip ==
    \/ \E s \in States : Start(s) \/ ExpireState(s) \/ (\E r \in Requests : Redeem(r, s))
    \/ \E r \in Requests : ExchangeFails(r) \/ (\E found \in SUBSET Accounts : Persist(r, found))
Meta == \/ \E c \in ConnIds : GrantDies(c)
        \/ RemoveApp \/ RevokeConnections \/ RevokeAccounts \/ DeleteUser
Park(j) == ParkConnection(j) \/ ParkAccount(j) \/ Tell(j)
Handler(j) ==
    \/ \E a \in Accounts : Load(j, a) \/ TryAccount(j, a)
    \/ \E c \in ConnIds : Check(j, c)
    \/ NoneLeft(j) \/ Accepted(j) \/ Refused(j) \/ Denied(j) \/ Restore(j) \/ Park(j)

Next == RoundTrip \/ Meta \/ \E j \in Jobs : Handler(j) \/ Crash(j)

Spec == Init /\ [][Next]_vars

\* A handler that began to park goes on.
FairSpec == Spec /\ \A j \in Jobs : WF_vars(Park(j))

-----------------------------------------------------------------------------
TypeOK ==
    /\ DOMAIN conns \subseteq ConnIds
    /\ \A c \in DOMAIN conns : conns[c].status \in {"active", "needs_reauth", "revoked"}
                               /\ conns[c].secret \in BOOLEAN
    /\ \A a \in Accounts : account[a].conn \in 0..MaxConns
                           /\ account[a].status \in {"active", "needs_reauth", "revoked"}
    /\ last \in 0..MaxConns
    /\ request \in [Requests -> States \cup {None}]

\* However often its callback is requested, one OAuth state leads to one connection.
OneGrantPerState == \A s \in States : granted[s] <= 1

\* A reconnect removes emptied connections only: no account it did not find is lost
\* by the cascade.
ReconnectKeepsAccounts ==
    last' # last => \A a \in Accounts : account[a].conn # 0 => account'[a].conn # 0

\* A connection is parked because the provider refused its own grant or denied a call
\* of it, or because it has no usable account; a failure that arrives late never parks
\* a newer grant.
ParkedWasRefused ==
    \A c \in DOMAIN conns \cap DOMAIN conns' :
        conns[c].status = "active" /\ conns'[c].status = "needs_reauth"
        => c \in dead \cup denied \/ \E j \in Jobs : At(j, "park") /\ job[j].acct = None /\ job[j].conn = c

\* Deauthorize drops the secrets of every connection the user had, and no status
\* write brings one back.
SecretsStayDropped ==
    removed \in {"half", "answered"} /\ DashboardPool = "owner" =>
        \A c \in before \cap DOMAIN conns : ~conns[c].secret

\* deauthorize/route.ts: "Their tokens are dead, so the connection is marked revoked
\* and its secrets dropped."
DeauthorizeDropsSecrets ==
    removed = "answered" => \A c \in before \cap DOMAIN conns : ~conns[c].secret

\* The same, about the status: no later write takes it back.
RevokedStaysRevoked ==
    removed = "answered" => \A c \in before \cap DOMAIN conns : conns[c].status = "revoked"

\* provider-context.ts: "Credentials stopped working: park the connection and its
\* accounts": an account is parked only on a connection whose grant is dead.
AccountParkedOnDeadGrant ==
    \A a \in Accounts : account[a].status = "needs_reauth" /\ account[a].conn # 0
                        => account[a].conn \in dead

Owed == {c \in DOMAIN conns : conns[c].status = "needs_reauth" /\ c \notin told}

\* "... and tell the client once": the owner hears of a connection that is parked.
ParkedIsTold == \A c \in ConnIds : c \in Owed ~> c \notin Owed
===============================================================================
