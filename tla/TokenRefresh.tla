------------------------------ MODULE TokenRefresh ------------------------------
(***************************************************************************)
(* The rotation of one connection's refresh token by concurrent workers.   *)
(* Buffer: before the adapter is called, inside the row lock.  Bluesky: in *)
(* the adapter, which only takes the lock to write the new pair back.      *)
(* Tokens are numbered in the order the provider issues them; presenting   *)
(* one spends it.                                                          *)
(***************************************************************************)
EXTENDS Naturals

CONSTANTS
    Workers, None,
    Provider,    \* "buffer" or "bluesky"
    Outcomes,    \* what may happen to a call of the token endpoint here
    MaxTokens,   \* bound: tokens issued
    MaxReplays,  \* bound: spent tokens presented
    MaxFaults    \* bound: workers that die, calls that never arrive

AllOutcomes == {"rotated",      \* the new pair arrives
                "incomplete",   \* an access token without a new refresh token
                "lost",         \* the pair was issued, the answer is lost
                "unreachable"}  \* the provider never saw the call
ASSUME RefreshAssumption ==
    /\ None \notin Workers /\ Provider \in {"buffer", "bluesky"}
    /\ Outcomes \subseteq AllOutcomes
    /\ MaxTokens \in Nat \ {0} /\ MaxReplays \in Nat /\ MaxFaults \in Nat

VARIABLES
    stored,   \* provider_connections.credentials_enc: the refresh token
    due,      \* its access token has expired, or does within the margin
    connStatus,   \* provider_connections.status
    lock,     \* the worker that holds the row lock (SELECT ... FOR UPDATE)
    pc,       \* each worker: its next step
    known,    \* the refresh token in the worker's context
    got,      \* the token it was given and has not written yet
    issued,   \* the provider: the newest token
    spent,    \* the provider: tokens that were presented
    replays,  \* history: spent tokens presented again
    mishaps,  \* history: tokens spent whose successor did not reach the row
    faults

rowVars == <<stored, due, connStatus, lock>>
workerVars == <<pc, known, got>>
providerVars == <<issued, spent, replays, mishaps>>
vars == <<rowVars, workerVars, providerVars, faults>>

-----------------------------------------------------------------------------
Tokens == 0..MaxTokens
Steps == {"idle", "lock", "call", "present", "login", "commit"}

Init ==
    /\ stored = 0 /\ due = FALSE /\ connStatus = "active" /\ lock = None
    /\ pc = [w \in Workers |-> "idle"]
    /\ known = [w \in Workers |-> 0] /\ got = [w \in Workers |-> 0]
    /\ issued = 0 /\ spent = {} /\ replays = 0 /\ mishaps = 0 /\ faults = 0

Goto(w, step) == pc' = [pc EXCEPT ![w] = step]
\* Commit or rollback ends the transaction of the worker that holds the row.
Release(w) == lock' = IF lock = w THEN None ELSE lock

\* Time passes: expiresSoon of the stored pair becomes true.
Expire ==
    /\ ~due /\ issued < MaxTokens /\ due' = TRUE
    /\ UNCHANGED <<stored, connStatus, lock, workerVars, providerVars, faults>>

-----------------------------------------------------------------------------
(* Loading a handle                                                        *)

\* loadProviderHandle: a parked connection throws; a Buffer pair that is about
\* to expire is rotated first.
Load(w) ==
    /\ pc[w] = "idle" /\ connStatus = "active"
    /\ known' = [known EXCEPT ![w] = stored]
    /\ Goto(w, IF Provider = "buffer" /\ due THEN "lock" ELSE "call")
    /\ UNCHANGED <<rowVars, got, providerVars, faults>>

BugNoReread(w) == [due |-> TRUE, token |-> known[w]]
\* Re-read under the lock: another worker may have refreshed meanwhile.
Reread(w) == [due |-> due, token |-> stored]

\* lockConnectionForRefresh waits for the row.
Lock(w) ==
    /\ pc[w] = "lock" /\ lock = None
    /\ known' = [known EXCEPT ![w] = Reread(w).token]
    /\ IF Reread(w).due THEN Goto(w, "present") /\ lock' = w
                      ELSE Goto(w, "call") /\ UNCHANGED lock
    /\ UNCHANGED <<stored, due, connStatus, got, providerVars, faults>>

-----------------------------------------------------------------------------
(* The token endpoint                                                      *)

Spend(w) == spent' = spent \cup {known[w]}
\* A call that failed: Buffer's transaction rolls back and the error reaches the
\* job with no handle, so nobody parks the connection; Bluesky signs in instead.
GiveUp(w) ==
    IF Provider = "buffer" THEN Goto(w, "idle") /\ Release(w)
                           ELSE Goto(w, "login") /\ UNCHANGED lock

\* requestTokens answers with a new pair.
PresentRotated(w) ==
    /\ pc[w] = "present" /\ "rotated" \in Outcomes
    /\ known[w] \notin spent /\ issued < MaxTokens
    /\ Spend(w) /\ issued' = issued + 1
    /\ got' = [got EXCEPT ![w] = issued + 1]
    /\ Goto(w, "commit")
    /\ UNCHANGED <<rowVars, known, replays, mishaps, faults>>

\* The pair is incomplete (Buffer throws) or its answer is lost: the token is
\* spent and stays in the row.
PresentSpoiled(w) ==
    /\ pc[w] = "present"
    /\ \/ "incomplete" \in Outcomes /\ Provider = "buffer"
       \/ "lost" \in Outcomes
    /\ known[w] \notin spent
    /\ Spend(w) /\ mishaps' = mishaps + 1
    /\ GiveUp(w)
    /\ UNCHANGED <<stored, due, connStatus, known, got, issued, replays, faults>>

PresentUnreachable(w) ==
    /\ pc[w] = "present" /\ "unreachable" \in Outcomes /\ faults < MaxFaults
    /\ faults' = faults + 1
    /\ GiveUp(w)
    /\ UNCHANGED <<stored, due, connStatus, known, got, providerVars>>

\* invalid_grant: the token was spent before.
PresentSpent(w) ==
    /\ pc[w] = "present" /\ known[w] \in spent /\ replays < MaxReplays
    /\ replays' = replays + 1
    /\ GiveUp(w)
    /\ UNCHANGED <<stored, due, connStatus, known, got, issued, spent, mishaps, faults>>

\* The pair that updateConnectionCredentials writes.
NewPair(w) == [stored |-> got[w], due |-> FALSE]

\* updateConnectionCredentials: the pair, status active, whatever the row said;
\* Buffer's worker holds the row, Bluesky's waits for it.
Commit(w) ==
    /\ pc[w] = "commit" /\ lock \in {w, None}
    /\ stored' = NewPair(w).stored /\ due' = NewPair(w).due /\ connStatus' = "active"
    /\ Release(w) /\ Goto(w, "call")
    /\ known' = [known EXCEPT ![w] = got[w]]
    /\ UNCHANGED <<got, providerVars, faults>>

-----------------------------------------------------------------------------
(* The adapter's call                                                      *)

\* The access token of the worker's context has expired.
Expired(w) == due \/ known[w] # stored

\* The call goes through.
Call(w) ==
    /\ pc[w] = "call"
    /\ Provider = "bluesky" => ~Expired(w)
    /\ Goto(w, "idle")
    /\ UNCHANGED <<rowVars, known, got, providerVars, faults>>

\* Buffer refuses the access token: handleProviderFailure parks the connection.
CallRefused(w) ==
    /\ pc[w] = "call" /\ Provider = "buffer" /\ Expired(w)
    /\ connStatus' = "needs_reauth"
    /\ Goto(w, "idle")
    /\ UNCHANGED <<stored, due, lock, known, got, providerVars, faults>>

\* withSession: a rejected session is refreshed with the token the worker loaded.
CallExpired(w) ==
    /\ pc[w] = "call" /\ Provider = "bluesky" /\ Expired(w)
    /\ Goto(w, "present")
    /\ UNCHANGED <<rowVars, known, got, providerVars, faults>>

\* login: the app password opens a new session.
Login(w) ==
    /\ pc[w] = "login" /\ issued < MaxTokens
    /\ issued' = issued + 1
    /\ got' = [got EXCEPT ![w] = issued + 1]
    /\ Goto(w, "commit")
    /\ UNCHANGED <<rowVars, known, spent, replays, mishaps, faults>>

\* The app password is refused: classifyAndReport parks the connection.
LoginRefused(w) ==
    /\ pc[w] = "login"
    /\ connStatus' = "needs_reauth"
    /\ Goto(w, "idle")
    /\ UNCHANGED <<stored, due, lock, known, got, providerVars, faults>>

\* The process dies: its transaction rolls back, a pair not written is gone.
Crash(w) ==
    /\ pc[w] # "idle" /\ faults < MaxFaults
    /\ faults' = faults + 1
    /\ mishaps' = IF pc[w] = "commit" THEN mishaps + 1 ELSE mishaps
    /\ Release(w) /\ Goto(w, "idle")
    /\ UNCHANGED <<stored, due, connStatus, known, got, issued, spent, replays>>

-----------------------------------------------------------------------------
Present(w) == PresentRotated(w) \/ PresentSpoiled(w) \/ PresentUnreachable(w) \/ PresentSpent(w)
Step(w) == Load(w) \/ Lock(w) \/ Present(w) \/ Commit(w) \/ Call(w) \/ CallRefused(w) \/ CallExpired(w)
           \/ Login(w) \/ LoginRefused(w)

Next == Expire \/ \E w \in Workers : Step(w) \/ Crash(w)

Spec == Init /\ [][Next]_vars

\* Jobs keep coming (the poll's cron), row locks are granted in order.
Fairness == \A w \in Workers : WF_vars(Load(w) \/ Present(w) \/ Commit(w) \/ Call(w) \/ CallRefused(w))
                               /\ SF_vars(Lock(w))
FairSpec == Spec /\ Fairness

-----------------------------------------------------------------------------
TypeOK ==
    /\ stored \in Nat /\ due \in BOOLEAN /\ connStatus \in {"active", "needs_reauth"}
    /\ lock \in Workers \cup {None}
    /\ pc \in [Workers -> Steps]
    /\ known \in [Workers -> Nat] /\ got \in [Workers -> Nat]
    /\ issued \in Tokens /\ spent \subseteq Nat
    /\ replays \in Nat /\ mishaps \in Nat /\ faults \in 0..MaxFaults

\* The row holds a token that can still be used, unless a worker is about to write
\* its successor or the successor was lost.
StoredIsFresh ==
    (mishaps = 0 /\ \A w \in Workers : pc[w] # "commit") => stored \notin spent

\* Buffer: however many workers find the token due, none presents it a second time
\* (reuse revokes the whole connection), unless a successor was lost.
NoReplay == Provider = "buffer" /\ mishaps = 0 => replays = 0

\* A rotation under the lock of the row leaves its successor there, and no worker
\* presents a spent Buffer token (provider-context.ts:69, :115).
RefreshKept == TypeOK /\ StoredIsFresh /\ NoReplay

Overdue == due /\ mishaps = 0 /\ connStatus = "active"

\* A pair that is due is rotated, unless a successor was lost or the connection is
\* parked: no worker keeps the row locked and an unreachable endpoint is asked again.
DueIsRefreshed == Overdue ~> ~Overdue

\* provider-context.ts: "the lock is what stops two workers from burning the same
\* refresh token"; its test: "never persists or reuses a spent token when rotation
\* is incomplete".
NeverReplayed == replays = 0
===============================================================================
