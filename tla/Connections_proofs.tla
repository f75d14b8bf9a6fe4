--------------------------- MODULE Connections_proofs ---------------------------
(***************************************************************************)
(* The connections, proved.  First the rotation of one token, for any      *)
(* number of workers, tokens and faults: no spent token is presented again *)
(* at Buffer, and the row ends with one that can be used, at Buffer and at *)
(* Bluesky, unless a successor was lost.  Then the rows of the Meta        *)
(* connections, for any number of accounts, requests and handlers: what a  *)
(* callback redeems, what the cascade takes, whom a refusal parks and what *)
(* deauthorize drops.  The two share no state.                             *)
(***************************************************************************)
EXTENDS TokenRefresh, TLAPS

CONSTANTS Accounts, States, Requests, Jobs, DashboardPool, MaxConns, MaxDeaths, MaxDenials, MaxCrashes

VARIABLES conns, account, last, states, request, job, told, dead, denied, removed, before, granted, crashes

Grants == INSTANCE Connections

-----------------------------------------------------------------------------
(* The rotation of a token.  The invariant tells new tokens from old ones: *)
(* one that a worker is about to write is known to nobody else and to no   *)
(* row.                                                                    *)

\* Nothing is newer than what the provider issued last.
Bounds ==
    /\ stored =< issued
    /\ \A t \in spent : t =< issued
    /\ \A w \in Workers : known[w] =< issued

\* What a worker is about to write is new.
NewIsNew ==
    \A w \in Workers : pc[w] = "commit" =>
        /\ got[w] \notin spent /\ got[w] # stored /\ got[w] =< issued
        /\ \A v \in Workers : known[v] # got[w]
        /\ \A v \in Workers \ {w} : pc[v] = "commit" => got[v] # got[w]

\* At Buffer a token is presented and written by the worker that holds the row.
HolderPresents ==
    Provider = "buffer" => \A w \in Workers :
        /\ pc[w] \in {"present", "commit"} => lock = w
        /\ pc[w] = "present" => known[w] = stored
        /\ pc[w] # "login"

IInv == TypeOK /\ Bounds /\ NewIsNew /\ HolderPresents /\ StoredIsFresh /\ NoReplay

LEMMA InitInv == Init => IInv
<1> SUFFICES ASSUME Init PROVE IInv
  OBVIOUS
<1> USE RefreshAssumption DEF Init
<1>1. TypeOK
  <2>1. 0 \in Tokens /\ 0 \in 0..MaxFaults
    BY DEF Tokens
  <2> QED
    BY <2>1 DEF TypeOK, Steps
<1>2. Bounds /\ NewIsNew /\ HolderPresents
  BY DEF Bounds, NewIsNew, HolderPresents
<1>3. StoredIsFresh /\ NoReplay
  BY DEF StoredIsFresh, NoReplay
<1> QED
  BY <1>1, <1>2, <1>3 DEF IInv

\* A step of a worker that gets and writes nothing new keeps what is known of
\* the tokens, if nobody lets go of a token that is not written.
LEMMA QuietStep ==
    ASSUME IInv, NEW w \in Workers, NEW step \in Steps \ {"commit", "login", "present"},
           pc' = [pc EXCEPT ![w] = step], pc[w] # "commit" \/ mishaps' > 0,
           mishaps' \in Nat, mishaps' >= mishaps,
           replays' = replays \/ (mishaps' > 0 /\ replays' \in Nat),
           known' = known \/ known' = [known EXCEPT ![w] = stored],
           \/ lock' = lock
           \/ lock' = IF lock = w THEN None ELSE lock,
           faults' \in 0..MaxFaults, connStatus' \in {"active", "needs_reauth"},
           UNCHANGED <<stored, due, got, issued>>,
           spent' = spent \/ (spent' = spent \cup {known[w]} /\ mishaps' > 0 /\ known' = known)
    PROVE  IInv'
<1> USE RefreshAssumption DEF IInv, TypeOK, Bounds
<1>1. TypeOK'
  BY DEF Steps
<1>2. Bounds'
  OBVIOUS
<1>3. NewIsNew'
  BY DEF NewIsNew
<1>4. HolderPresents'
  BY DEF HolderPresents
<1>5. StoredIsFresh'
  BY DEF StoredIsFresh
<1>6. NoReplay'
  BY DEF NoReplay
<1> QED
  BY <1>1, <1>2, <1>3, <1>4, <1>5, <1>6

\* At Bluesky a refused refresh leads to a sign-in, and an expired session to
\* a refresh: no row, and no lock, is touched.
LEMMA BlueskyStep ==
    ASSUME IInv, Provider = "bluesky", NEW w \in Workers, NEW step \in {"login", "present"},
           pc' = [pc EXCEPT ![w] = step], pc[w] # "commit",
           mishaps' \in Nat, mishaps' >= mishaps, replays' \in Nat, faults' \in 0..MaxFaults,
           UNCHANGED <<stored, due, connStatus, lock, known, got, issued>>,
           spent' = spent \/ (spent' = spent \cup {known[w]} /\ mishaps' > 0)
    PROVE  IInv'
<1> USE RefreshAssumption DEF IInv, TypeOK, Bounds
<1>1. TypeOK'
  BY DEF Steps
<1>2. Bounds'
  OBVIOUS
<1>3. NewIsNew'
  BY DEF NewIsNew
<1>4. HolderPresents' /\ NoReplay'
  BY DEF HolderPresents, NoReplay
<1>5. StoredIsFresh'
  BY DEF StoredIsFresh
<1> QED
  BY <1>1, <1>2, <1>3, <1>4, <1>5

\* A call of the token endpoint that brought nothing: Buffer's worker gives up,
\* Bluesky's signs in.
LEMMA GiveUpStep ==
    ASSUME IInv, NEW w \in Workers, pc[w] = "present", GiveUp(w),
           mishaps' \in Nat, mishaps' >= mishaps, replays' \in Nat, faults' \in 0..MaxFaults,
           replays' = replays \/ mishaps' > 0 \/ Provider = "bluesky",
           UNCHANGED <<stored, due, connStatus, known, got, issued>>,
           spent' = spent \/ (spent' = spent \cup {known[w]} /\ mishaps' > 0)
    PROVE  IInv'
<1>1. connStatus' \in {"active", "needs_reauth"}
  BY DEF IInv, TypeOK
<1>2. CASE Provider = "buffer"
  <2>1. pc' = [pc EXCEPT ![w] = "idle"] /\ lock' = IF lock = w THEN None ELSE lock
    BY <1>2 DEF GiveUp, Goto, Release
  <2>2. "idle" \in Steps \ {"commit", "login", "present"} /\ pc[w] # "commit"
    BY DEF Steps
  <2>3. replays' = replays \/ (mishaps' > 0 /\ replays' \in Nat)
    BY <1>2
  <2> QED
    BY <1>1, <2>1, <2>2, <2>3, QuietStep
<1>3. CASE Provider = "bluesky"
  <2>1. pc' = [pc EXCEPT ![w] = "login"] /\ UNCHANGED lock
    BY <1>3 DEF GiveUp, Goto
  <2> QED
    BY <1>3, <2>1, BlueskyStep
<1> QED
  BY <1>2, <1>3, RefreshAssumption

LEMMA StepInv == IInv /\ [Next]_vars => IInv'
<1> SUFFICES ASSUME IInv, [Next]_vars PROVE IInv'
  OBVIOUS
<1> USE RefreshAssumption
<1>1. CASE Expire
  BY <1>1 DEF Expire, IInv, TypeOK, Bounds, NewIsNew, HolderPresents, StoredIsFresh, NoReplay,
     workerVars, providerVars
<1>2. ASSUME NEW w \in Workers, Load(w) PROVE IInv'
  <2>1. PICK step \in {"lock", "call"} : pc' = [pc EXCEPT ![w] = step]
    BY <1>2 DEF Load, Goto
  <2>2. /\ pc[w] # "commit" /\ known' = [known EXCEPT ![w] = stored]
        /\ UNCHANGED <<lock, stored, due, connStatus, got, issued, spent, replays, mishaps, faults>>
    BY <1>2 DEF Load, rowVars, providerVars
  <2>3. mishaps' \in Nat /\ mishaps' >= mishaps /\ faults' \in 0..MaxFaults
        /\ connStatus' \in {"active", "needs_reauth"}
    BY <2>2 DEF IInv, TypeOK
  <2>4. step \in Steps \ {"commit", "login", "present"}
    BY <2>1 DEF Steps
  <2> QED
    BY <2>1, <2>2, <2>3, <2>4, QuietStep
<1>3. ASSUME NEW w \in Workers, Lock(w) PROVE IInv'
  <2> USE <1>3 DEF Lock, Goto, Reread, providerVars
  <2>1. CASE ~due
    <3>1. /\ pc' = [pc EXCEPT ![w] = "call"] /\ known' = [known EXCEPT ![w] = stored]
          /\ UNCHANGED <<lock, stored, due, connStatus, got, issued, spent, replays, mishaps, faults>>
      BY <2>1
    <3>2. mishaps' \in Nat /\ mishaps' >= mishaps /\ faults' \in 0..MaxFaults
          /\ connStatus' \in {"active", "needs_reauth"}
      BY <3>1 DEF IInv, TypeOK
    <3>3. "call" \in Steps \ {"commit", "login", "present"} /\ pc[w] # "commit"
      BY DEF Steps
    <3> QED
      BY <3>1, <3>2, <3>3, QuietStep
  <2>2. CASE due
    <3>1. /\ pc' = [pc EXCEPT ![w] = "present"] /\ known' = [known EXCEPT ![w] = stored]
          /\ lock' = w /\ lock = None
          /\ UNCHANGED <<stored, due, connStatus, got, issued, spent, replays, mishaps, faults>>
      BY <2>2
    <3> QED
      BY <3>1 DEF IInv, TypeOK, Bounds, NewIsNew, HolderPresents, StoredIsFresh, NoReplay, Steps
  <2> QED
    BY <2>1, <2>2 DEF IInv, TypeOK
<1>4. ASSUME NEW w \in Workers, PresentRotated(w) PROVE IInv'
  <2>1. /\ pc[w] = "present" /\ known[w] \notin spent /\ issued < MaxTokens
        /\ spent' = spent \cup {known[w]} /\ issued' = issued + 1
        /\ got' = [got EXCEPT ![w] = issued + 1] /\ pc' = [pc EXCEPT ![w] = "commit"]
        /\ UNCHANGED <<stored, due, connStatus, lock, known, replays, mishaps, faults>>
    BY <1>4 DEF PresentRotated, Spend, Goto, rowVars
  <2> USE <2>1 DEF IInv, TypeOK, Bounds
  <2>2. TypeOK'
    <3>1. issued + 1 \in Tokens /\ issued + 1 \in Nat
      BY DEF Tokens
    <3>2. pc' \in [Workers -> Steps] /\ got' \in [Workers -> Nat]
      BY <3>1 DEF Steps
    <3>3. spent' \subseteq Nat
      OBVIOUS
    <3> QED
      BY <3>1, <3>2, <3>3
  <2>3. Bounds'
    BY DEF Tokens
  <2>4. NewIsNew'
    <3>1. pc'[w] = "commit" /\ got'[w] = issued + 1
      OBVIOUS
    <3>2. issued + 1 \notin spent' /\ issued + 1 # stored /\ \A v \in Workers : known[v] # issued + 1
      BY DEF Tokens
    <3>3. \A v \in Workers \ {w} : pc'[v] = pc[v] /\ got'[v] = got[v]
      OBVIOUS
    <3>4. \A v \in Workers : pc[v] = "commit" => got[v] # issued + 1 /\ got[v] \notin spent'
                                                 /\ got[v] # stored /\ got[v] =< issued + 1
      BY DEF NewIsNew, Tokens
    <3> QED
      BY <3>1, <3>2, <3>3, <3>4 DEF NewIsNew, Tokens
  <2>5. HolderPresents'
    BY DEF HolderPresents
  <2>6. StoredIsFresh'
    BY DEF StoredIsFresh
  <2>7. NoReplay'
    BY DEF NoReplay
  <2> QED
    BY <2>2, <2>3, <2>4, <2>5, <2>6, <2>7
<1>5. ASSUME NEW w \in Workers, PresentSpoiled(w) \/ PresentUnreachable(w) PROVE IInv'
  <2>1. /\ pc[w] = "present" /\ GiveUp(w) /\ replays' = replays
        /\ UNCHANGED <<stored, due, connStatus, known, got, issued>>
    BY <1>5 DEF PresentSpoiled, PresentUnreachable, providerVars
  <2>2. /\ mishaps' \in Nat /\ mishaps' >= mishaps /\ replays' \in Nat /\ faults' \in 0..MaxFaults
        /\ spent' = spent \/ (spent' = spent \cup {known[w]} /\ mishaps' > 0)
    BY <1>5 DEF PresentSpoiled, PresentUnreachable, providerVars, Spend, IInv, TypeOK
  <2> QED
    BY <2>1, <2>2, GiveUpStep
<1>6. ASSUME NEW w \in Workers, PresentSpent(w) PROVE IInv'
  <2>1. /\ pc[w] = "present" /\ GiveUp(w) /\ known[w] \in spent /\ replays' = replays + 1
        /\ UNCHANGED <<stored, due, connStatus, known, got, issued, spent, mishaps, faults>>
    BY <1>6 DEF PresentSpent
  <2>2. mishaps' > 0 \/ Provider = "bluesky"
    <3>1. SUFFICES ASSUME Provider = "buffer", mishaps = 0 PROVE FALSE
      BY <2>1 DEF IInv, TypeOK
    <3>2. lock = w /\ known[w] = stored
      BY <2>1, <3>1 DEF IInv, HolderPresents
    <3>3. \A v \in Workers : pc[v] # "commit"
      BY <2>1, <3>1, <3>2 DEF IInv, HolderPresents
    <3> QED
      BY <2>1, <3>1, <3>2, <3>3 DEF IInv, StoredIsFresh
  <2>3. mishaps' \in Nat /\ mishaps' >= mishaps /\ replays' \in Nat /\ faults' \in 0..MaxFaults
    BY <2>1 DEF IInv, TypeOK
  <2> QED
    BY <2>1, <2>2, <2>3, GiveUpStep
<1>7. ASSUME NEW w \in Workers, Commit(w) PROVE IInv'
  <2>1. /\ pc[w] = "commit" /\ stored' = got[w] /\ due' = FALSE /\ connStatus' = "active"
        /\ lock' = (IF lock = w THEN None ELSE lock) /\ pc' = [pc EXCEPT ![w] = "call"]
        /\ known' = [known EXCEPT ![w] = got[w]]
        /\ UNCHANGED <<got, issued, spent, replays, mishaps, faults>>
    BY <1>7 DEF Commit, NewPair, Release, Goto, providerVars
  <2>2. /\ got[w] \notin spent /\ got[w] =< issued /\ \A v \in Workers : known[v] # got[w]
        /\ \A v \in Workers \ {w} : pc[v] = "commit" => got[v] # got[w]
    BY <2>1 DEF IInv, NewIsNew
  <2> USE <2>1, <2>2 DEF IInv, TypeOK, Bounds
  <2>3. TypeOK'
    BY DEF Steps
  <2>4. Bounds'
    OBVIOUS
  <2>5. NewIsNew'
    BY DEF NewIsNew
  <2>6. HolderPresents'
    <3>1. SUFFICES ASSUME Provider = "buffer", NEW v \in Workers, v # w
                   PROVE pc[v] # "present" /\ pc[v] # "commit" /\ pc[v] # "login"
      BY DEF HolderPresents
    <3>2. lock = w
      BY <3>1 DEF HolderPresents
    <3> QED
      BY <3>1, <3>2 DEF HolderPresents
  <2>7. StoredIsFresh' /\ NoReplay'
    BY DEF StoredIsFresh, NoReplay
  <2> QED
    BY <2>3, <2>4, <2>5, <2>6, <2>7
<1>8. ASSUME NEW w \in Workers, Call(w) \/ CallRefused(w) PROVE IInv'
  <2>1. /\ pc[w] = "call" /\ pc' = [pc EXCEPT ![w] = "idle"] /\ connStatus' \in {"active", "needs_reauth"}
        /\ UNCHANGED <<stored, due, lock, known, got, issued, spent, replays, mishaps, faults>>
    BY <1>8 DEF Call, CallRefused, Goto, rowVars, providerVars, IInv, TypeOK
  <2>2. mishaps' \in Nat /\ mishaps' >= mishaps /\ faults' \in 0..MaxFaults /\ pc[w] # "commit"
    BY <2>1 DEF IInv, TypeOK
  <2>3. "idle" \in Steps \ {"commit", "login", "present"}
    BY DEF Steps
  <2> QED
    BY <2>1, <2>2, <2>3, QuietStep
<1>9. ASSUME NEW w \in Workers, CallExpired(w) PROVE IInv'
  <2>1. /\ Provider = "bluesky" /\ pc[w] = "call" /\ pc' = [pc EXCEPT ![w] = "present"]
        /\ UNCHANGED <<stored, due, connStatus, lock, known, got, issued, spent, replays, mishaps, faults>>
    BY <1>9 DEF CallExpired, Goto, rowVars, providerVars
  <2>2. mishaps' \in Nat /\ mishaps' >= mishaps /\ replays' \in Nat /\ faults' \in 0..MaxFaults
    BY <2>1 DEF IInv, TypeOK
  <2> QED
    BY <2>1, <2>2, BlueskyStep
<1>10. ASSUME NEW w \in Workers, Login(w) PROVE IInv'
  <2>1. /\ pc[w] = "login" /\ issued < MaxTokens /\ issued' = issued + 1
        /\ got' = [got EXCEPT ![w] = issued + 1] /\ pc' = [pc EXCEPT ![w] = "commit"]
        /\ UNCHANGED <<stored, due, connStatus, lock, known, spent, replays, mishaps, faults>>
    BY <1>10 DEF Login, Goto, rowVars
  <2> USE <2>1 DEF IInv, TypeOK, Bounds
  <2>2. TypeOK'
    <3>1. issued + 1 \in Tokens /\ issued + 1 \in Nat
      BY DEF Tokens
    <3>2. pc' \in [Workers -> Steps] /\ got' \in [Workers -> Nat]
      BY <3>1 DEF Steps
    <3> QED
      BY <3>1, <3>2
  <2>3. Bounds'
    BY DEF Tokens
  <2>4. NewIsNew'
    <3>1. pc'[w] = "commit" /\ got'[w] = issued + 1
      OBVIOUS
    <3>2. issued + 1 \notin spent /\ issued + 1 # stored /\ \A v \in Workers : known[v] # issued + 1
      BY DEF Tokens
    <3>3. \A v \in Workers \ {w} : pc'[v] = pc[v] /\ got'[v] = got[v]
      OBVIOUS
    <3>4. \A v \in Workers : pc[v] = "commit" => got[v] # issued + 1 /\ got[v] =< issued + 1
      BY DEF NewIsNew, Tokens
    <3> QED
      BY <3>1, <3>2, <3>3, <3>4 DEF NewIsNew, Tokens
  <2>5. HolderPresents'
    BY DEF HolderPresents
  <2>6. StoredIsFresh' /\ NoReplay'
    BY DEF StoredIsFresh, NoReplay
  <2> QED
    BY <2>2, <2>3, <2>4, <2>5, <2>6
<1>11. ASSUME NEW w \in Workers, LoginRefused(w) PROVE IInv'
  <2>1. /\ pc[w] = "login" /\ pc' = [pc EXCEPT ![w] = "idle"] /\ connStatus' \in {"active", "needs_reauth"}
        /\ UNCHANGED <<stored, due, lock, known, got, issued, spent, replays, mishaps, faults>>
    BY <1>11 DEF LoginRefused, Goto, providerVars
  <2>2. mishaps' \in Nat /\ mishaps' >= mishaps /\ faults' \in 0..MaxFaults /\ pc[w] # "commit"
    BY <2>1 DEF IInv, TypeOK
  <2>3. "idle" \in Steps \ {"commit", "login", "present"}
    BY DEF Steps
  <2> QED
    BY <2>1, <2>2, <2>3, QuietStep
<1>12. ASSUME NEW w \in Workers, Crash(w) PROVE IInv'
  <2>1. /\ pc' = [pc EXCEPT ![w] = "idle"] /\ lock' = (IF lock = w THEN None ELSE lock)
        /\ faults < MaxFaults /\ faults' = faults + 1
        /\ mishaps' = (IF pc[w] = "commit" THEN mishaps + 1 ELSE mishaps)
        /\ UNCHANGED <<stored, due, connStatus, known, got, issued, spent, replays>>
    BY <1>12 DEF Crash, Release, Goto
  <2>2. /\ mishaps' \in Nat /\ mishaps' >= mishaps /\ faults' \in 0..MaxFaults
        /\ pc[w] # "commit" \/ mishaps' > 0
        /\ connStatus' \in {"active", "needs_reauth"}
    BY <2>1 DEF IInv, TypeOK
  <2>3. "idle" \in Steps \ {"commit", "login", "present"}
    BY DEF Steps
  <2> QED
    BY <2>1, <2>2, <2>3, QuietStep
<1>13. CASE UNCHANGED vars
  BY <1>13 DEF vars, rowVars, workerVars, providerVars, IInv, TypeOK, Bounds, NewIsNew,
     HolderPresents, StoredIsFresh, NoReplay
<1> QED
  BY <1>1, <1>2, <1>3, <1>4, <1>5, <1>6, <1>7, <1>8, <1>9, <1>10, <1>11, <1>12, <1>13
     DEF Next, Step, Present

LEMMA Invariant == Spec => []IInv
<1>1. Init => IInv
  BY InitInv
<1>2. IInv /\ [Next]_vars => IInv'
  BY StepInv
<1> QED
  BY <1>1, <1>2, PTL DEF Spec

\* Rows, workers and the provider keep their types (provider-context.ts:101).
THEOREM TypeCorrect == Spec => []TypeOK
<1>1. IInv => TypeOK
  BY DEF IInv
<1> QED
  BY <1>1, Invariant, PTL

\* The row holds a token that can still be used, unless a worker is about to
\* write its successor or the successor was lost (provider-context.ts:120).
THEOREM RowIsFresh == Spec => []StoredIsFresh
<1>1. IInv => StoredIsFresh
  BY DEF IInv
<1> QED
  BY <1>1, Invariant, PTL

\* The lock is what stops two workers from burning the same refresh token
\* (provider-context.ts:9).
THEOREM NobodyReplays == Spec => []NoReplay
<1>1. IInv => NoReplay
  BY DEF IInv
<1> QED
  BY <1>1, Invariant, PTL

\* The three together, as a run checks them.
THEOREM RefreshIsKept == Spec => []RefreshKept
<1> QED
  BY TypeCorrect, RowIsFresh, NobodyReplays, PTL DEF RefreshKept

-----------------------------------------------------------------------------
(* The rows of the Meta connections.                                       *)

Statuses == {"active", "needs_reauth", "revoked"}
JobSteps == {"idle", "call", "next", "park", "park_account", "tell", "restore"}

\* Rows have the ids that were given out, and an account names a row that is
\* there: the cascade takes it with its connection.
Rows ==
    /\ last \in 0..MaxConns /\ DOMAIN conns \subseteq 1..last
    /\ conns \in [DOMAIN conns -> [status : Statuses, secret : BOOLEAN]]
    /\ account \in [Accounts -> [conn : 0..last, status : Statuses]]
    /\ \A a \in Accounts : account[a].conn # 0 => account[a].conn \in DOMAIN conns

\* What the provider knows is about ids that were given out.
Known ==
    /\ dead \subseteq 1..last /\ denied \subseteq 0..last /\ before \subseteq 1..last
    /\ removed \in {"no", "called", "half", "answered"}

\* A handler that is about to park saw the refusal, or found no account.
Handlers ==
    /\ job \in [Jobs -> [pc : JobSteps, acct : Accounts \cup {None}, conn : 0..last, about : 0..last]]
    /\ \A j \in Jobs : job[j].pc = "park" => job[j].acct = None \/ job[j].conn \in dead \cup denied

\* A request holds a state that is used, alone, and that led to no connection yet.
Redeemed ==
    /\ states \in [States -> {"unborn", "open", "expired", "used"}]
    /\ request \in [Requests -> States \cup {None}]
    /\ granted \in [States -> 0..1]
    /\ \A s \in States : states[s] # "used" => granted[s] = 0
    /\ \A r \in Requests : request[r] # None =>
          /\ states[request[r]] = "used" /\ granted[request[r]] = 0
          /\ \A q \in Requests : request[q] = request[r] => q = r

ConnectionsInv == Rows /\ Known /\ Handlers /\ Redeemed /\ Grants!SecretsStayDropped

LEMMA GrantsStart == ASSUME Grants!ConnectionsAssumption, Grants!Init PROVE ConnectionsInv
BY DEF Grants!ConnectionsAssumption, Grants!Init, ConnectionsInv, Rows, Known, Handlers, Redeemed,
   Grants!SecretsStayDropped, Grants!Absent, Grants!Idle, Statuses, JobSteps

-----------------------------------------------------------------------------
(* The round trip: the other parts are left alone until Persist.           *)

LEMMA RedeemedStep ==
    ASSUME Grants!ConnectionsAssumption, Redeemed, [Grants!Next]_(Grants!vars)
    PROVE  Redeemed'
<1> USE DEF Redeemed
<1>0. None \notin States
  BY DEF Grants!ConnectionsAssumption
<1>1. ASSUME NEW s \in States, Grants!Start(s) PROVE Redeemed'
  BY <1>0, <1>1 DEF Grants!Start
<1>2. ASSUME NEW s \in States, Grants!ExpireState(s) PROVE Redeemed'
  BY <1>0, <1>2 DEF Grants!ExpireState
<1>3. ASSUME NEW s \in States, NEW r \in Requests, Grants!Redeem(r, s) PROVE Redeemed'
  BY <1>0, <1>3 DEF Grants!Redeem, Grants!Redeemable
<1>4. ASSUME NEW r \in Requests, Grants!ExchangeFails(r) PROVE Redeemed'
  BY <1>0, <1>4 DEF Grants!ExchangeFails
<1>5. ASSUME NEW r \in Requests, NEW found \in SUBSET Accounts, Grants!Persist(r, found) PROVE Redeemed'
  <2>1. /\ request[r] # None /\ request[r] \in States
        /\ request' = [request EXCEPT ![r] = None]
        /\ granted' = [granted EXCEPT ![request[r]] = @ + 1] /\ states' = states
    BY <1>5 DEF Grants!Persist
  <2>2. granted[request[r]] = 0
    BY <2>1
  <2>3. granted' = [granted EXCEPT ![request[r]] = 1]
    BY <2>1, <2>2
  <2> QED
    BY <1>0, <2>1, <2>3
<1>6. CASE Grants!Meta \/ (\E j \in Jobs : Grants!Handler(j) \/ Grants!Crash(j)) \/ UNCHANGED Grants!vars
  <2>1. UNCHANGED Grants!oauth
    BY <1>6 DEF Grants!Meta, Grants!GrantDies, Grants!RemoveApp, Grants!RevokeConnections,
       Grants!RevokeAccounts, Grants!DeleteUser, Grants!Handler, Grants!Load, Grants!TryAccount,
       Grants!Check, Grants!NoneLeft, Grants!Accepted, Grants!Refused, Grants!Denied, Grants!Restore, Grants!Park,
       Grants!ParkConnection, Grants!ParkAccount, Grants!Tell, Grants!Crash, Grants!handler,
       Grants!vars
  <2> QED
    BY <2>1 DEF Grants!oauth
<1> QED
  BY <1>1, <1>2, <1>3, <1>4, <1>5, <1>6 DEF Grants!Next, Grants!RoundTrip

\* What persistConnection leaves: the accounts it did not find keep their rows.
LEMMA Persisted ==
    ASSUME Grants!ConnectionsAssumption, Rows, Known, NEW r \in Requests, NEW found \in SUBSET Accounts,
           Grants!Persist(r, found)
    PROVE  /\ Rows' /\ Known' /\ last' = last + 1 /\ dead \subseteq dead' /\ denied \subseteq denied'
           /\ \A c \in DOMAIN conns' : c = last' \/ (c \in DOMAIN conns /\ conns'[c] = conns[c])
           /\ \A a \in Accounts : account[a].conn # 0 => account'[a].conn # 0
           /\ UNCHANGED <<job, before, removed>>
<1> DEFINE c == last + 1
           owners == [a \in Accounts |->
                         IF a \in found THEN [conn |-> c, status |-> "active"] ELSE account[a]]
           kept == {c} \cup {o \in DOMAIN conns : \E a \in Accounts : owners[a].conn = o}
<1>1. /\ conns' = [o \in kept |->
                     IF o = c THEN [status |-> "active", secret |-> TRUE] ELSE conns[o]]
      /\ account' = [a \in Accounts |-> IF owners[a].conn \in kept THEN owners[a] ELSE Grants!Absent]
      /\ last' = c /\ dead' = dead \ {c} /\ denied' = denied \ {c} /\ last < MaxConns
      /\ UNCHANGED <<job, before, removed>>
  BY DEF Grants!Persist, Grants!Moved, Grants!Kept, Grants!RowFor
<1>2. /\ last \in Nat /\ c \in 1..MaxConns /\ c \notin DOMAIN conns /\ c \notin dead /\ c \notin denied /\ c # 0
      /\ 0 \notin DOMAIN conns
  BY <1>1 DEF Rows, Known, Grants!ConnectionsAssumption
<1>3. \A a \in Accounts : owners[a] \in [conn : 0..c, status : Statuses]
                          /\ (owners[a].conn # 0 => owners[a].conn \in kept)
                          /\ (account[a].conn # 0 => owners[a].conn # 0)
  BY <1>2 DEF Rows, Statuses
<1>4. kept \subseteq 1..c /\ kept \subseteq DOMAIN conns \cup {c} /\ DOMAIN conns' = kept
  BY <1>1, <1>2 DEF Rows
<1>5. \A a \in Accounts : account'[a] = owners[a] \/ (owners[a].conn = 0 /\ account'[a] = Grants!Absent)
  BY <1>1, <1>3
<1>6. Grants!Absent \in [conn : 0..c, status : Statuses] /\ Grants!Absent.conn = 0
  BY <1>2 DEF Grants!Absent, Statuses
<1>7. \A o \in kept : conns'[o] \in [status : Statuses, secret : BOOLEAN]
  BY <1>1, <1>4 DEF Rows, Statuses
<1>8. conns' \in [DOMAIN conns' -> [status : Statuses, secret : BOOLEAN]]
  BY <1>1, <1>4, <1>7
<1>9. account' \in [Accounts -> [conn : 0..c, status : Statuses]]
  BY <1>1, <1>3, <1>5, <1>6
<1>10. Rows'
  <2>1. last' \in 0..MaxConns /\ DOMAIN conns' \subseteq 1..last'
    BY <1>1, <1>2, <1>4
  <2>2. \A a \in Accounts : account'[a].conn # 0 => account'[a].conn \in DOMAIN conns'
    BY <1>3, <1>4, <1>5, <1>6
  <2> QED
    BY <1>1, <1>8, <1>9, <2>1, <2>2 DEF Rows
<1>11. Known' /\ dead \subseteq dead' /\ denied \subseteq denied'
  <2>1. dead' = dead /\ denied' = denied
    BY <1>1, <1>2
  <2>2. 1..last \subseteq 1..last' /\ 0..last \subseteq 0..last'
    BY <1>1, <1>2
  <2> QED
    BY <1>1, <2>1, <2>2 DEF Known
<1>12. \A o \in DOMAIN conns' : o = last' \/ (o \in DOMAIN conns /\ conns'[o] = conns[o])
  BY <1>1, <1>4
<1>13. \A a \in Accounts : account[a].conn # 0 => account'[a].conn # 0
  BY <1>3, <1>5
<1> QED
  BY <1>1, <1>10, <1>11, <1>12, <1>13

-----------------------------------------------------------------------------
(* The other statements change the status or the secret of rows that are   *)
(* there, or take them all.                                                *)

\* A status write, by id.
LEMMA StatusWritten ==
    ASSUME Grants!ConnectionsAssumption, Rows, NEW c, NEW s \in Statuses, Grants!SetConnectionStatus(c, s),
           UNCHANGED <<account, last>>
    PROVE  /\ Rows' /\ DOMAIN conns' = DOMAIN conns
           /\ \A o \in DOMAIN conns : conns'[o].secret = conns[o].secret
                                      /\ conns'[o].status = IF o = c THEN s ELSE conns[o].status
<1>1. conns' = [o \in DOMAIN conns |-> IF o = c THEN [conns[o] EXCEPT !.status = s] ELSE conns[o]]
  BY DEF Grants!SetConnectionStatus
<1>2. \A o \in DOMAIN conns : conns[o] \in [status : Statuses, secret : BOOLEAN]
  BY DEF Rows
<1>3. DOMAIN conns' = DOMAIN conns
  BY <1>1
<1>4. \A o \in DOMAIN conns : conns'[o] \in [status : Statuses, secret : BOOLEAN]
                              /\ conns'[o].secret = conns[o].secret
                              /\ conns'[o].status = IF o = c THEN s ELSE conns[o].status
  BY <1>1, <1>2
<1>5. conns' \in [DOMAIN conns' -> [status : Statuses, secret : BOOLEAN]]
  BY <1>1, <1>3, <1>4
<1> QED
  BY <1>3, <1>4, <1>5 DEF Rows

\* What a step that is no reconnect does to the rows.
RowsOnly ==
    /\ Rows' /\ last' = last /\ DOMAIN conns' \subseteq DOMAIN conns
    /\ \A c \in DOMAIN conns' : ~conns[c].secret => ~conns'[c].secret

LEMMA HandlerRows ==
    ASSUME Grants!ConnectionsAssumption, Rows, Handlers, NEW j \in Jobs, Grants!Handler(j) \/ Grants!Crash(j)
    PROVE  /\ RowsOnly /\ Handlers' /\ Grants!ParkedWasRefused
           /\ UNCHANGED <<dead, removed, before>> /\ denied' \subseteq denied \cup 0..last
<1> DEFINE Job == [pc : JobSteps, acct : Accounts \cup {None}, conn : 0..last, about : 0..last]
<1>0. job[j] \in Job /\ last \in Nat
  BY DEF Handlers, Rows, Grants!ConnectionsAssumption
<1>1. ASSUME NEW v \in Job, Grants!Set(j, v), v.pc = "park" => v.acct = None \/ v.conn \in dead \cup denied,
             UNCHANGED Grants!handler
      PROVE  Handlers' /\ UNCHANGED <<last, dead, denied, removed, before>>
  BY <1>1 DEF Grants!Set, Handlers, Grants!handler, Grants!meta
<1>2. ASSUME UNCHANGED <<conns, account, last>> PROVE RowsOnly /\ Grants!ParkedWasRefused
  BY <1>2 DEF RowsOnly, Rows, Grants!ParkedWasRefused
<1>3. ASSUME NEW a \in Accounts, Grants!Load(j, a) \/ Grants!TryAccount(j, a)
      PROVE  RowsOnly /\ Handlers' /\ Grants!ParkedWasRefused /\ UNCHANGED <<dead, denied, removed, before>>
  <2>1. account[a].conn \in 0..last
    BY DEF Rows
  <2>2. CASE Grants!Load(j, a)
    <3> DEFINE v == [pc |-> "call", acct |-> a, conn |-> account[a].conn, about |-> 0]
    <3>1. Grants!Set(j, v) /\ v \in Job /\ v.pc # "park" /\ UNCHANGED <<conns, account, Grants!handler>>
      BY <1>0, <2>1, <2>2 DEF Grants!Load, JobSteps
    <3> QED
      BY <1>1, <1>2, <3>1
  <2>3. CASE Grants!TryAccount(j, a)
    <3> DEFINE v == [job[j] EXCEPT !.pc = "call", !.acct = a, !.conn = account[a].conn]
    <3>1. Grants!Set(j, v) /\ v \in Job /\ v.pc # "park" /\ UNCHANGED <<conns, account, Grants!handler>>
      BY <1>0, <2>1, <2>3 DEF Grants!TryAccount, JobSteps
    <3> QED
      BY <1>1, <1>2, <3>1
  <2> QED
    BY <1>3, <2>2, <2>3
<1>4. ASSUME NEW c \in Grants!ConnIds, Grants!Check(j, c)
      PROVE  RowsOnly /\ Handlers' /\ Grants!ParkedWasRefused /\ UNCHANGED <<dead, denied, removed, before>>
  <2>1. PICK step \in {"next", "park"} :
            Grants!Set(j, [pc |-> step, acct |-> None, conn |-> c, about |-> c])
    BY <1>4 DEF Grants!Check
  <2>2. c \in 0..last /\ UNCHANGED <<conns, account, Grants!handler>>
    BY <1>4, <1>0 DEF Grants!Check, Grants!Exists, Rows
  <2>3. [pc |-> step, acct |-> None, conn |-> c, about |-> c] \in Job
    BY <2>2 DEF JobSteps
  <2> QED
    BY <1>1, <1>2, <2>1, <2>2, <2>3
<1>5. CASE Grants!NoneLeft(j) \/ Grants!Accepted(j) \/ Grants!Refused(j) \/ Grants!Tell(j) \/ Grants!Crash(j)
  <2>1. Grants!Idle \in Job /\ Grants!Idle.pc # "park"
    BY <1>0 DEF Grants!Idle, JobSteps
  <2>2. \A s \in JobSteps : [job[j] EXCEPT !.pc = s] \in Job
    BY <1>0
  <2>3. UNCHANGED <<conns, account, Grants!handler>>
    BY <1>5 DEF Grants!NoneLeft, Grants!Accepted, Grants!Refused, Grants!Tell, Grants!Crash
  <2>4. \/ Grants!Set(j, Grants!Idle)
        \/ Grants!Set(j, [job[j] EXCEPT !.pc = "restore"]) \/ Grants!Set(j, [job[j] EXCEPT !.pc = "next"])
        \/ Grants!Set(j, [job[j] EXCEPT !.pc = "park"]) /\ job[j].conn \in dead
    BY <1>5 DEF Grants!NoneLeft, Grants!Accepted, Grants!Refused, Grants!Tell, Grants!Crash,
       Grants!Then
  <2>5. Handlers' /\ UNCHANGED <<last, dead, denied, removed, before>>
    <3>1. {"restore", "next", "park"} \subseteq JobSteps
      BY DEF JobSteps
    <3>2. CASE Grants!Set(j, Grants!Idle)
      BY <1>1, <2>1, <2>3, <3>2
    <3>3. CASE Grants!Set(j, [job[j] EXCEPT !.pc = "restore"])
      BY <1>0, <1>1, <2>2, <2>3, <3>1, <3>3
    <3>4. CASE Grants!Set(j, [job[j] EXCEPT !.pc = "next"])
      BY <1>0, <1>1, <2>2, <2>3, <3>1, <3>4
    <3>5. CASE Grants!Set(j, [job[j] EXCEPT !.pc = "park"]) /\ job[j].conn \in dead
      BY <1>0, <1>1, <2>2, <2>3, <3>1, <3>5
    <3> QED
      BY <2>4, <3>2, <3>3, <3>4, <3>5
  <2> QED
    BY <1>2, <2>3, <2>5
<1>6. CASE Grants!Restore(j)
  <2>1. Grants!SetConnectionStatus(job[j].about, "active") /\ Grants!Set(j,
  Grants!Idle) /\ UNCHANGED <<account, Grants!handler>>
    BY <1>6 DEF Grants!Restore
  <2>2. Grants!Idle \in Job /\ Grants!Idle.pc # "park"
    BY <1>0 DEF Grants!Idle, JobSteps
  <2>3. Handlers' /\ UNCHANGED <<last, dead, denied, removed, before>>
    BY <1>1, <2>1, <2>2
  <2>4. /\ Rows' /\ DOMAIN conns' = DOMAIN conns
        /\ \A o \in DOMAIN conns : conns'[o].secret = conns[o].secret
              /\ conns'[o].status = IF o = job[j].about THEN "active" ELSE conns[o].status
    BY <2>1, <2>3, StatusWritten DEF Statuses
  <2> QED
    BY <2>3, <2>4 DEF RowsOnly, Grants!ParkedWasRefused
<1>7. CASE Grants!ParkConnection(j)
  <2>1. /\ job[j].pc = "park" /\ Grants!SetConnectionStatus(job[j].conn, "needs_reauth")
        /\ UNCHANGED <<account, Grants!handler>>
    BY <1>7 DEF Grants!ParkConnection, Grants!At
  <2>2. PICK s \in {"tell", "park_account"} : Grants!Set(j, [job[j] EXCEPT !.pc = s])
    BY <1>7 DEF Grants!ParkConnection, Grants!Then
  <2>3. [job[j] EXCEPT !.pc = s] \in Job /\ [job[j] EXCEPT !.pc = s].pc # "park"
    BY <1>0 DEF JobSteps
  <2>4. Handlers' /\ UNCHANGED <<last, dead, denied, removed, before>>
    BY <1>1, <2>1, <2>2, <2>3
  <2>5. /\ Rows' /\ DOMAIN conns' = DOMAIN conns
        /\ \A o \in DOMAIN conns : conns'[o].secret = conns[o].secret
              /\ conns'[o].status = IF o = job[j].conn THEN "needs_reauth" ELSE conns[o].status
    BY <2>1, <2>4, StatusWritten DEF Statuses
  <2>6. job[j].acct = None \/ job[j].conn \in dead \cup denied
    BY <2>1 DEF Handlers
  <2>7. Grants!ParkedWasRefused
    BY <2>1, <2>5, <2>6 DEF Grants!ParkedWasRefused, Grants!At
  <2> QED
    BY <2>4, <2>5, <2>7 DEF RowsOnly
<1>8. CASE Grants!ParkAccount(j)
  <2>1. /\ account' = [a \in Accounts |-> IF a = job[j].acct /\ account[a].conn # 0
                          THEN [account[a] EXCEPT !.status = "needs_reauth"] ELSE account[a]]
        /\ Grants!Set(j, [job[j] EXCEPT !.pc = "tell"]) /\ UNCHANGED <<conns, Grants!handler>>
    BY <1>8 DEF Grants!ParkAccount, Grants!Then
  <2>2. [job[j] EXCEPT !.pc = "tell"] \in Job /\ [job[j] EXCEPT !.pc = "tell"].pc # "park"
    BY <1>0 DEF JobSteps
  <2>3. Handlers' /\ UNCHANGED <<last, dead, denied, removed, before>>
    BY <1>1, <2>1, <2>2
  <2>4. \A a \in Accounts : account'[a] \in [conn : 0..last, status : Statuses]
                            /\ account'[a].conn = account[a].conn
    BY <2>1 DEF Rows, Statuses
  <2>5. account' \in [Accounts -> [conn : 0..last, status : Statuses]]
    BY <2>1, <2>4
  <2> QED
    BY <2>1, <2>3, <2>4, <2>5 DEF RowsOnly, Rows, Grants!ParkedWasRefused
<1>9. CASE Grants!Denied(j)
  <2>1. /\ denied' = denied \cup {job[j].conn} /\ job' = [job EXCEPT ![j] = [job[j] EXCEPT !.pc = "park"]]
        /\ UNCHANGED <<conns, account, last, dead, removed, before>>
    BY <1>9 DEF Grants!Denied, Grants!Then, Grants!Set
  <2>2. [job[j] EXCEPT !.pc = "park"] \in Job /\ [job[j] EXCEPT !.pc = "park"].conn = job[j].conn
    BY <1>0 DEF JobSteps
  <2>3. Handlers'
    BY <2>1, <2>2 DEF Handlers
  <2> QED
    BY <1>0, <1>2, <2>1, <2>3
<1> QED
  BY <1>3, <1>4, <1>5, <1>6, <1>7, <1>8, <1>9 DEF Grants!Handler, Grants!Park

LEMMA MetaRows ==
    ASSUME Grants!ConnectionsAssumption, Rows, Known, Handlers, Grants!SecretsStayDropped, Grants!Meta
    PROVE  /\ RowsOnly /\ Known' /\ Handlers' /\ Grants!ParkedWasRefused
           /\ Grants!SecretsStayDropped'
<1>0. last \in Nat
  BY DEF Rows, Grants!ConnectionsAssumption
<1>1. ASSUME NEW c \in Grants!ConnIds, Grants!GrantDies(c)
      PROVE  RowsOnly /\ Known' /\ Handlers' /\ Grants!ParkedWasRefused /\ Grants!SecretsStayDropped'
  <2>1. /\ c \in DOMAIN conns /\ dead' = dead \cup {c}
        /\ UNCHANGED <<conns, account, last, denied, removed, before, job>>
    BY <1>1 DEF Grants!GrantDies, Grants!Exists, Grants!store
  <2> QED
    BY <2>1 DEF RowsOnly, Rows, Known, Handlers, Grants!ParkedWasRefused, Grants!SecretsStayDropped
<1>2. CASE Grants!RemoveApp
  <2>1. /\ removed' = "called" /\ dead' = 1..last /\ before' = DOMAIN conns
        /\ UNCHANGED <<conns, account, last, denied, job>>
    BY <1>2 DEF Grants!RemoveApp, Grants!store
  <2> QED
    BY <2>1 DEF RowsOnly, Rows, Known, Handlers, Grants!ParkedWasRefused, Grants!SecretsStayDropped
<1>3. CASE Grants!RevokeConnections
  <2>1. /\ conns' = [c \in DOMAIN conns |-> IF c \in Grants!Visible THEN Grants!RevokedRow(c) ELSE conns[c]]
        /\ removed' = "half" /\ UNCHANGED <<account, last, dead, denied, before, job>>
    BY <1>3 DEF Grants!RevokeConnections
  <2>2. DOMAIN conns' = DOMAIN conns
    BY <2>1
  <2>3. \A c \in DOMAIN conns : /\ conns'[c] \in [status : Statuses, secret : BOOLEAN]
                                /\ c \in Grants!Visible => ~conns'[c].secret /\ conns'[c].status = "revoked"
                                /\ c \notin Grants!Visible => conns'[c] = conns[c]
    BY <2>1 DEF Rows, Grants!RevokedRow, Statuses
  <2>4. conns' \in [DOMAIN conns' -> [status : Statuses, secret : BOOLEAN]]
    BY <2>1, <2>2, <2>3
  <2>5. RowsOnly
    BY <2>1, <2>2, <2>3, <2>4 DEF RowsOnly, Rows
  <2>6. Known' /\ Handlers'
    BY <2>1 DEF Known, Handlers
  <2>7. Grants!ParkedWasRefused
    BY <2>2, <2>3 DEF Grants!ParkedWasRefused
  <2>8. Grants!SecretsStayDropped'
    BY <2>2, <2>3 DEF Grants!SecretsStayDropped, Grants!Visible
  <2> QED
    BY <2>5, <2>6, <2>7, <2>8
<1>4. CASE Grants!RevokeAccounts
  <2>1. /\ account' = [a \in Accounts |->
              IF account[a].conn \in Grants!Visible THEN [account[a] EXCEPT !.status = "revoked"] ELSE account[a]]
        /\ removed = "half" /\ removed' = "answered" /\ UNCHANGED <<conns, last, dead, denied, before, job>>
    BY <1>4 DEF Grants!RevokeAccounts
  <2>2. \A a \in Accounts : account'[a] \in [conn : 0..last, status : Statuses]
                            /\ account'[a].conn = account[a].conn
    BY <2>1 DEF Rows, Statuses
  <2>3. account' \in [Accounts -> [conn : 0..last, status : Statuses]]
    BY <2>1, <2>2
  <2>4. RowsOnly
    BY <2>1, <2>2, <2>3 DEF RowsOnly, Rows
  <2> QED
    BY <2>1, <2>4 DEF Known, Handlers, Grants!ParkedWasRefused, Grants!SecretsStayDropped
<1>5. CASE Grants!DeleteUser
  <2>1. /\ conns' = [c \in {} |-> 0] /\ account' = [a \in Accounts |-> Grants!Absent]
        /\ UNCHANGED <<last, dead, denied, removed, before, job>>
    BY <1>5 DEF Grants!DeleteUser, Grants!meta
  <2>2. Grants!Absent \in [conn : 0..last, status : Statuses] /\ Grants!Absent.conn = 0
    BY <1>0 DEF Grants!Absent, Statuses
  <2>3. /\ DOMAIN conns' = {} /\ conns' \in [DOMAIN conns' -> [status : Statuses, secret : BOOLEAN]]
        /\ account' \in [Accounts -> [conn : 0..last, status : Statuses]]
        /\ \A a \in Accounts : account'[a].conn = 0
    BY <2>1, <2>2
  <2>4. RowsOnly
    BY <2>1, <2>3 DEF RowsOnly, Rows
  <2> QED
    BY <2>1, <2>3, <2>4 DEF Known, Handlers, Grants!ParkedWasRefused, Grants!SecretsStayDropped
<1> QED
  BY <1>1, <1>2, <1>3, <1>4, <1>5 DEF Grants!Meta

-----------------------------------------------------------------------------

LEMMA GrantsStep ==
    ASSUME Grants!ConnectionsAssumption, ConnectionsInv, [Grants!Next]_(Grants!vars)
    PROVE  ConnectionsInv' /\ Grants!ReconnectKeepsAccounts /\ Grants!ParkedWasRefused
<1> USE DEF ConnectionsInv
<1>0. Redeemed'
  BY RedeemedStep
<1>1. ASSUME NEW r \in Requests, NEW found \in SUBSET Accounts, Grants!Persist(r, found)
      PROVE  ConnectionsInv' /\ Grants!ReconnectKeepsAccounts /\ Grants!ParkedWasRefused
  <2>1. /\ Rows' /\ Known' /\ last' = last + 1 /\ dead \subseteq dead' /\ denied \subseteq denied'
        /\ \A c \in DOMAIN conns' : c = last' \/ (c \in DOMAIN conns /\ conns'[c] = conns[c])
        /\ \A a \in Accounts : account[a].conn # 0 => account'[a].conn # 0
        /\ UNCHANGED <<job, before, removed>>
    BY <1>1, Persisted
  <2>2. last \in Nat /\ last' \notin before /\ last' \notin DOMAIN conns
        /\ 0..last \subseteq 0..last'
    BY <2>1 DEF Rows, Known, Grants!ConnectionsAssumption
  <2>3. Handlers'
    BY <2>1, <2>2 DEF Handlers
  <2>4. Grants!SecretsStayDropped'
    BY <2>1, <2>2 DEF Grants!SecretsStayDropped
  <2>5. Grants!ReconnectKeepsAccounts
    BY <2>1 DEF Grants!ReconnectKeepsAccounts
  <2>6. Grants!ParkedWasRefused
    BY <2>1, <2>2 DEF Grants!ParkedWasRefused
  <2> QED
    BY <1>0, <2>1, <2>3, <2>4, <2>5, <2>6
<1>2. ASSUME NEW j \in Jobs, Grants!Handler(j) \/ Grants!Crash(j)
      PROVE  ConnectionsInv' /\ Grants!ReconnectKeepsAccounts /\ Grants!ParkedWasRefused
  <2>1. RowsOnly /\ Handlers' /\ Grants!ParkedWasRefused /\ UNCHANGED <<dead, removed, before>>
        /\ denied' \subseteq denied \cup 0..last
    BY <1>2, HandlerRows
  <2>2. Known' /\ Grants!SecretsStayDropped' /\ Grants!ReconnectKeepsAccounts
    BY <2>1 DEF Known, RowsOnly, Grants!SecretsStayDropped, Grants!ReconnectKeepsAccounts
  <2> QED
    BY <1>0, <2>1, <2>2 DEF RowsOnly
<1>3. CASE Grants!Meta
  <2>1. RowsOnly /\ Known' /\ Handlers' /\ Grants!ParkedWasRefused /\ Grants!SecretsStayDropped'
    BY <1>3, MetaRows
  <2> QED
    BY <1>0, <2>1 DEF RowsOnly, Grants!ReconnectKeepsAccounts
<1>4. CASE \/ UNCHANGED Grants!vars
           \/ \E s \in States : Grants!Start(s) \/ Grants!ExpireState(s) \/ (\E r \in Requests : Grants!Redeem(r, s))
           \/ \E r \in Requests : Grants!ExchangeFails(r)
  <2>1. UNCHANGED <<conns, account, last, dead, denied, removed, before, job>>
    BY <1>4 DEF Grants!Start, Grants!ExpireState, Grants!Redeem, Grants!ExchangeFails, Grants!vars,
       Grants!store, Grants!meta
  <2> QED
    BY <1>0, <2>1 DEF Rows, Known, Handlers, Grants!SecretsStayDropped,
       Grants!ReconnectKeepsAccounts, Grants!ParkedWasRefused
<1> QED
  BY <1>1, <1>2, <1>3, <1>4 DEF Grants!Next, Grants!RoundTrip

LEMMA GrantsInvariant == ASSUME Grants!ConnectionsAssumption PROVE Grants!Spec => []ConnectionsInv
<1>1. Grants!Init => ConnectionsInv
  BY GrantsStart
<1>2. ConnectionsInv /\ [Grants!Next]_(Grants!vars) => ConnectionsInv'
  BY GrantsStep
<1> QED
  BY <1>1, <1>2, PTL DEF Grants!Spec

LEMMA RowsTypes == ASSUME Grants!ConnectionsAssumption, ConnectionsInv PROVE Grants!TypeOK
<1>1. last \in 0..MaxConns /\ 1..last \subseteq Grants!ConnIds /\ 0..last \subseteq 0..MaxConns
  BY DEF Grants!ConnectionsAssumption, ConnectionsInv, Rows, Grants!ConnIds
<1> QED
  BY <1>1 DEF ConnectionsInv, Rows, Redeemed, Grants!TypeOK, Statuses

LEMMA GrantedOnce == ASSUME ConnectionsInv PROVE Grants!OneGrantPerState
BY DEF ConnectionsInv, Redeemed, Grants!OneGrantPerState

\* However often the callback of a state is requested, in whatever order the
\* requests redeem, fail and persist, it leads to one connection
\* (accounts.ts:194).
THEOREM StateGrantsOnce == ASSUME Grants!ConnectionsAssumption PROVE Grants!Spec => []Grants!OneGrantPerState
<1>1. ConnectionsInv => Grants!OneGrantPerState
  BY GrantedOnce
<1> QED
  BY <1>1, GrantsInvariant, PTL

\* No write of a handler that loaded the row before brings back a secret that
\* deauthorize dropped (deauthorize/route.ts:27).
THEOREM SecretsAreGone == ASSUME Grants!ConnectionsAssumption PROVE Grants!Spec => []Grants!SecretsStayDropped
<1>1. ConnectionsInv => Grants!SecretsStayDropped
  BY DEF ConnectionsInv
<1> QED
  BY <1>1, GrantsInvariant, PTL

\* A reconnect that finds some of the accounts leaves the others where they are
\* (accounts.ts:120).
THEOREM AccountsSurvive == ASSUME Grants!ConnectionsAssumption PROVE Grants!Spec => [][Grants!ReconnectKeepsAccounts]_(Grants!vars)
<1>1. ConnectionsInv /\ [Grants!Next]_(Grants!vars) => Grants!ReconnectKeepsAccounts
  BY GrantsStep
<1> QED
  BY <1>1, GrantsInvariant, PTL DEF Grants!Spec

\* A failure that arrives late never parks a newer grant (provider-context.ts:190).
THEOREM GrantsParkThemselves == ASSUME Grants!ConnectionsAssumption PROVE Grants!Spec => [][Grants!ParkedWasRefused]_(Grants!vars)
<1>1. ConnectionsInv /\ [Grants!Next]_(Grants!vars) => Grants!ParkedWasRefused
  BY GrantsStep
<1> QED
  BY <1>1, GrantsInvariant, PTL DEF Grants!Spec
================================================================================
