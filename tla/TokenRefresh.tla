---------------------------- MODULE TokenRefresh ----------------------------
(***************************************************************************)
(* OAuth access tokens of one subscription: how requests and quota         *)
(* refreshes renew them (claudeCredentialsForRequest,                      *)
(* codexCredentialsForRequest and grokCredentialsForRequest have the same  *)
(* control), how the proxy retries after an upstream 401, and who else     *)
(* writes the credentials: the Grok quota refresh, which stores the user   *)
(* id it looked up, and the admin PUT, whose body is stored as it is: what *)
(* an edit form read earlier (the page sends its form back on every save), *)
(* what an admin pasted after a login elsewhere, either with or without a  *)
(* refresh token.                                                          *)
(*                                                                         *)
(* Tokens are numbered by the grant that issued them, 0 is no refresh      *)
(* token.  A provider that rotates refresh tokens withdraws the one it is  *)
(* given.  Whatever calls the database or the provider may fail, by itself *)
(* or because the client has gone under whose context it runs.  Expiry is  *)
(* the number of the grant whose expiry time is stored; "due" is the       *)
(* largest number whose expiry is nearer than oauthRefreshSkew.  The       *)
(* provider and the clock are the environment; everything else is the      *)
(* code.                                                                   *)
(***************************************************************************)
EXTENDS Naturals, FiniteSets

CONSTANTS
    Requests,      \* goroutines that need the credentials once
    QuotaWorkers,  \* those of them that run refreshGrokQuota
    Admins,        \* admin handlers
    Mutexes,       \* heap identities for the per-subscription mutex
    MaxGrants,     \* bound: tokens the provider issues
    AdminOps       \* what the admins do: a subset of {"put", "delete"}

ASSUME MaxGrantsAssumption == MaxGrants \in Nat \ {0}
ASSUME RequestsAssumption == QuotaWorkers \subseteq Requests

NoMutex == "nil"
NoToken == 0
Nobody == "nobody"

ASSUME NilAssumption == NoMutex \notin Mutexes /\ Nobody \notin Requests

VARIABLES
    exists,     \* is there a subscriptions row?
    row,        \* its credentials: access and refresh token, expiry, user id known
    locks,      \* grokRefreshLocks / oauthRefreshLocks entry of the subscription
    made,       \* mutexes allocated so far
    owner,      \* who holds a mutex
    pc,         \* where a goroutine is
    mutex,      \* the mutex it loaded
    cred,       \* the credentials it works with
    token,      \* the answer of the token endpoint, with what it does not replace
    snapExp,    \* account.TokenExpiresAt as resolved, never refreshed
    forced,     \* has it already been through the forced refresh?
    live,       \* provider: refresh tokens that no rotation has withdrawn
    issued,     \* provider: number of grants so far
    due,        \* clock: every expiry up to this one is near
    adminPc,    \* where an admin handler is
    form,       \* the credentials in its edit form
    adminExp,   \* token_expires_at an admin PUT read before it writes
    renewed,    \* history: access tokens renewed since they last came into the row
    orphans,    \* history: refresh tokens whose successor never reached the row
    putBack,    \* history: has the row got its credentials by being written back?
    misdated    \* history: was ever an expiry stored with credentials not its own?

rowVars == <<exists, row>>
lockVars == <<locks, made, owner>>
reqVars == <<pc, mutex, cred, token, snapExp, forced>>
provVars == <<live, issued, due>>
adminVars == <<adminPc, form, adminExp>>
history == <<renewed, orphans, putBack, misdated>>
vars == <<rowVars, lockVars, reqVars, provVars, adminVars, history>>

Grants == 0..MaxGrants

Credentials == [at : Grants \ {0}, rt : Grants, exp : Grants, user : BOOLEAN]

Refreshing == {r \in Requests : pc[r] \in {"refreshing", "granted"}}
Locked == {"locked", "refreshing", "granted"}
Ended == {"done", "failed"}

Due(e) == e <= due

(* leave credentialsForRequest for state p; the unlock is deferred *)
UnlockTo(r, p) ==
    /\ owner' = [owner EXCEPT ![mutex[r]] = Nobody]
    /\ pc' = [pc EXCEPT ![r] = p]

(* Credentials read earlier are written over those in the row, with expiry e:
   if they are others, they may be renewed (and fail to be) once more.       *)
WriteBack(c, e) ==
    /\ row' = [c EXCEPT !.exp = e]
    /\ renewed' = IF c.at # row.at THEN renewed \ {c.at} ELSE renewed
    /\ putBack' = (putBack \/ c.at # row.at \/ c.rt # row.rt)
    /\ misdated' = (misdated \/ e # c.exp)

(* where valid credentials are used next *)
AfterCredentials(r, c) ==
    IF r \in QuotaWorkers /\ ~c.user /\ ~forced[r] THEN "profile" ELSE "use"

-----------------------------------------------------------------------------
(* The row as the handler resolves it, and the check before the lock. *)
Resolve(r) ==
    /\ pc[r] = "start"
    /\ exists
    /\ cred' = [cred EXCEPT ![r] = row]
    /\ snapExp' = [snapExp EXCEPT ![r] = row.exp]
    /\ pc' = [pc EXCEPT ![r] = IF Due(row.exp) THEN "locking" ELSE AfterCredentials(r, row)]
    /\ UNCHANGED <<rowVars, lockVars, mutex, token, forced, provVars, adminVars, history>>

(* Mutant of LoadMutex: Store instead of LoadOrStore. *)
StoreMutex(r) ==
    /\ pc[r] = "locking"
    /\ \E x \in Mutexes \ made :
          /\ locks' = x
          /\ made' = made \union {x}
          /\ mutex' = [mutex EXCEPT ![r] = x]
    /\ pc' = [pc EXCEPT ![r] = "blocked"]
    /\ UNCHANGED <<rowVars, owner, cred, token, snapExp, forced, provVars, adminVars, history>>

(* LoadOrStore of the mutex; it is locked in a step of its own *)
LoadMutex(r) ==
    /\ pc[r] = "locking"
    /\ \/ /\ locks # NoMutex
          /\ mutex' = [mutex EXCEPT ![r] = locks]
          /\ UNCHANGED <<locks, made>>
       \/ /\ locks = NoMutex
          /\ \E x \in Mutexes \ made :
                /\ locks' = x
                /\ made' = made \union {x}
                /\ mutex' = [mutex EXCEPT ![r] = x]
    /\ pc' = [pc EXCEPT ![r] = "blocked"]
    /\ UNCHANGED <<rowVars, owner, cred, token, snapExp, forced, provVars, adminVars, history>>

(* Mutant of Lock: no mutual exclusion. *)
LockFree(r) ==
    /\ pc[r] = "blocked"
    /\ owner' = [owner EXCEPT ![mutex[r]] = r]
    /\ pc' = [pc EXCEPT ![r] = "locked"]
    /\ UNCHANGED <<rowVars, locks, made, mutex, cred, token, snapExp, forced, provVars,
                   adminVars, history>>

Lock(r) ==
    /\ pc[r] = "blocked"
    /\ owner[mutex[r]] = Nobody
    /\ owner' = [owner EXCEPT ![mutex[r]] = r]
    /\ pc' = [pc EXCEPT ![r] = "locked"]
    /\ UNCHANGED <<rowVars, locks, made, mutex, cred, token, snapExp, forced, provVars,
                   adminVars, history>>

(* Mutant of Fresh: the double check looks at the expiry resolved before. *)
FreshBySnapshot(r) == IF forced[r] THEN row.at # cred[r].at ELSE ~Due(snapExp[r])

(* The double check under the lock: what another goroutine stored meanwhile
   is used if it differs (forced) or is not due (not forced).               *)
Fresh(r) == IF forced[r] THEN row.at # cred[r].at ELSE ~Due(row.exp)

Reread(r) ==
    /\ pc[r] = "locked"
    /\ \/ /\ UnlockTo(r, "failed")    \* no row, no refresh token, or a query fails
          /\ UNCHANGED cred
       \/ /\ exists
          /\ Fresh(r)
          /\ cred' = [cred EXCEPT ![r] = row]
          /\ UnlockTo(r, AfterCredentials(r, row))
       \/ /\ exists
          /\ ~Fresh(r)
          /\ row.rt # NoToken
          /\ cred' = [cred EXCEPT ![r] = row]
          /\ pc' = [pc EXCEPT ![r] = "refreshing"]
          /\ UNCHANGED owner
    /\ UNCHANGED <<rowVars, locks, made, mutex, token, snapExp, forced, provVars, adminVars,
                   history>>

(* provider: a live refresh token buys a new access token, and a new refresh
   token if the provider rotates them                                        *)
Redeem(rt) ==
    /\ rt \in live
    /\ issued < MaxGrants
    /\ issued' = issued + 1
    /\ live' \in {live, (live \ {rt}) \union {issued'}}

Grant(r) ==
    /\ pc[r] = "refreshing"
    /\ Redeem(cred[r].rt)
    /\ token' = [token EXCEPT ![r] =
                    [cred[r] EXCEPT !.at = issued', !.exp = issued',
                                    !.rt = IF live' = live THEN @ ELSE issued']]
    /\ pc' = [pc EXCEPT ![r] = "granted"]
    /\ renewed' = renewed \union {cred[r].at}
    /\ UNCHANGED <<rowVars, lockVars, mutex, cred, snapExp, forced, due, adminVars, orphans,
                   putBack, misdated>>

(* provider: it has redeemed the token, but the answer is lost on its way, is
   no JSON, or its client has gone                                           *)
LoseAnswer(r) ==
    /\ pc[r] = "refreshing"
    /\ Redeem(cred[r].rt)
    /\ UnlockTo(r, "failed")
    /\ orphans' = IF live' = live THEN orphans ELSE orphans \union {cred[r].rt}
    /\ UNCHANGED <<rowVars, locks, made, mutex, cred, token, snapExp, forced, due, adminVars,
                   renewed, putBack, misdated>>

(* Mutant of Refuse: the early return leaves the mutex locked. *)
RefuseKeepsLock(r) ==
    /\ pc[r] = "refreshing"
    /\ pc' = [pc EXCEPT ![r] = "failed"]
    /\ UNCHANGED <<rowVars, lockVars, mutex, cred, token, snapExp, forced, provVars, adminVars,
                   history>>

(* provider: invalid_grant, a server error, or it is not reached at all *)
Refuse(r) ==
    /\ pc[r] = "refreshing"
    /\ UnlockTo(r, "failed")
    /\ UNCHANGED <<rowVars, locks, made, mutex, cred, token, snapExp, forced, provVars,
                   adminVars, history>>

(* The UPDATE fails, finds no row, or the client has gone: the grant is lost. *)
StoreFails(r) ==
    /\ UnlockTo(r, "failed")
    /\ renewed' = renewed \ {cred[r].at}
    /\ orphans' = IF cred[r].rt \in live THEN orphans ELSE orphans \union {cred[r].rt}
    /\ UNCHANGED <<row, cred, putBack>>

(* Mutant of Store: the rotated refresh token is not written. *)
StoreAccessOnly(r) ==
    /\ pc[r] = "granted"
    /\ \/ /\ exists
          /\ row' = [token[r] EXCEPT !.rt = row.rt]
          /\ cred' = [cred EXCEPT ![r] = token[r]]
          /\ putBack' = FALSE
          /\ UnlockTo(r, AfterCredentials(r, token[r]))
          /\ UNCHANGED <<renewed, orphans>>
       \/ StoreFails(r)
    /\ UNCHANGED <<exists, locks, made, mutex, token, snapExp, forced, provVars, adminVars,
                   misdated>>

(* UpdateSubscriptionCredentials under the lock *)
Store(r) ==
    /\ pc[r] = "granted"
    /\ \/ /\ exists
          /\ row' = token[r]
          /\ cred' = [cred EXCEPT ![r] = token[r]]
          /\ putBack' = FALSE
          /\ UnlockTo(r, AfterCredentials(r, token[r]))
          /\ UNCHANGED <<renewed, orphans>>
       \/ StoreFails(r)
    /\ UNCHANGED <<exists, locks, made, mutex, token, snapExp, forced, provVars, adminVars,
                   misdated>>

-----------------------------------------------------------------------------
(* The upstream call.  A token that is not the newest one or whose expiry is
   near may be answered 401; the first 401 forces a refresh (of a quota
   refresh only if there is a refresh token), a second one is relayed.       *)
UseToken(r) ==
    /\ pc[r] = "use"
    /\ \/ /\ pc' = [pc EXCEPT ![r] = "done"]
          /\ UNCHANGED forced
       \/ /\ cred[r].at < issued \/ Due(cred[r].at)
          /\ ~forced[r]
          /\ r \in QuotaWorkers => cred[r].rt # NoToken
          /\ forced' = [forced EXCEPT ![r] = TRUE]
          /\ pc' = [pc EXCEPT ![r] = "locking"]
    /\ UNCHANGED <<rowVars, lockVars, mutex, cred, token, snapExp, provVars, adminVars, history>>

(* refreshGrokQuota: ask for the user id, if the credentials have none ... *)
FetchProfile(r) ==
    /\ pc[r] = "profile"
    /\ \/ /\ cred' = [cred EXCEPT ![r].user = TRUE]
          /\ pc' = [pc EXCEPT ![r] = "write"]
       \/ /\ pc' = [pc EXCEPT ![r] = "use"]    \* user id from the token itself
          /\ UNCHANGED cred
       \/ /\ pc' = [pc EXCEPT ![r] = "failed"]
          /\ UNCHANGED cred
    /\ UNCHANGED <<rowVars, lockVars, mutex, token, snapExp, forced, provVars, adminVars,
                   history>>

(* ... and store it, with the credentials at hand and account.TokenExpiresAt,
   without the mutex                                                         *)
WriteProfile(r) ==
    /\ pc[r] = "write"
    /\ \/ /\ exists
          /\ WriteBack(cred[r], snapExp[r])
          /\ pc' = [pc EXCEPT ![r] = "use"]
       \/ /\ pc' = [pc EXCEPT ![r] = "failed"]    \* no row, or the UPDATE fails
          /\ UNCHANGED <<row, renewed, putBack, misdated>>
    /\ UNCHANGED <<exists, lockVars, mutex, cred, token, snapExp, forced, provVars, adminVars,
                   orphans>>

-----------------------------------------------------------------------------
(* The page opens its edit form with the credentials of the row. *)
OpenForm(m) ==
    /\ "put" \in AdminOps
    /\ adminPc[m] = "idle"
    /\ exists
    /\ form' = [form EXCEPT ![m] = row]
    /\ adminPc' = [adminPc EXCEPT ![m] = "editing"]
    /\ UNCHANGED <<rowVars, lockVars, reqVars, provVars, adminExp, history>>

(* updateSubscription: the settings are committed and the row is read back,
   then the credentials of the body are written with the expiry read.  The
   body is the form as it was opened, or something pasted.                   *)
BeginPut(m) ==
    /\ "put" \in AdminOps
    /\ adminPc[m] \in {"idle", "editing"}
    /\ exists
    /\ adminExp' = [adminExp EXCEPT ![m] = row.exp]
    /\ adminPc' = [adminPc EXCEPT ![m] = IF @ = "editing" THEN "saving" ELSE "pasting"]
    /\ UNCHANGED <<rowVars, lockVars, reqVars, provVars, form, history>>

(* The form comes back, or an admin has taken its refresh token out. *)
SaveForm(m) ==
    /\ adminPc[m] = "saving"
    /\ \E rt \in {form[m].rt, NoToken} :
          WriteBack([form[m] EXCEPT !.rt = rt], adminExp[m])
    /\ UNCHANGED <<live, issued>>

(* Credentials of a login made elsewhere, with or without a refresh token *)
PasteLogin(m) ==
    /\ adminPc[m] = "pasting"
    /\ issued < MaxGrants
    /\ issued' = issued + 1
    /\ live' = live \union {issued'}
    /\ \E u \in BOOLEAN, rt \in {issued', NoToken} :
          row' = [at |-> issued', rt |-> rt, exp |-> adminExp[m], user |-> u]
    /\ putBack' = FALSE
    /\ misdated' = (misdated \/ adminExp[m] # issued')
    /\ UNCHANGED renewed

PutCredentials(m) ==
    /\ adminPc[m] \in {"saving", "pasting"}
    /\ \/ exists /\ (SaveForm(m) \/ PasteLogin(m))
       \/ UNCHANGED <<row, live, issued, renewed, putBack, misdated>>    \* 400, no row, error
    /\ adminPc' = [adminPc EXCEPT ![m] = "done"]
    /\ UNCHANGED <<exists, lockVars, reqVars, due, form, adminExp, orphans>>

DeleteRow(m) ==
    /\ "delete" \in AdminOps
    /\ adminPc[m] = "idle"
    /\ exists
    /\ exists' = FALSE
    /\ adminPc' = [adminPc EXCEPT ![m] = "deleted"]
    /\ UNCHANGED <<row, lockVars, reqVars, provVars, form, adminExp, history>>

(* forgetSubscriptionRuntime drops the entry, whoever holds the mutex *)
ForgetLocks(m) ==
    /\ adminPc[m] = "deleted"
    /\ locks' = NoMutex
    /\ adminPc' = [adminPc EXCEPT ![m] = "done"]
    /\ UNCHANGED <<rowVars, made, owner, reqVars, provVars, form, adminExp, history>>

(* clock: everything issued so far comes near its expiry (as long as the
   bound leaves the provider a grant to answer with)                         *)
TimePasses ==
    /\ due < issued
    /\ issued < MaxGrants
    /\ due' = issued
    /\ UNCHANGED <<rowVars, lockVars, reqVars, live, issued, adminVars, history>>

-----------------------------------------------------------------------------
Init ==
    /\ exists = TRUE
    /\ \E u \in BOOLEAN, rt \in {1, NoToken} :
          row = [at |-> 1, rt |-> rt, exp |-> 1, user |-> u]
    /\ locks = NoMutex
    /\ made = {}
    /\ owner = [x \in Mutexes |-> Nobody]
    /\ pc = [r \in Requests |-> "start"]
    /\ mutex = [r \in Requests |-> NoMutex]
    /\ cred = [r \in Requests |-> row]
    /\ token = [r \in Requests |-> row]
    /\ snapExp = [r \in Requests |-> 0]
    /\ forced = [r \in Requests |-> FALSE]
    /\ live = {1}
    /\ issued = 1
    /\ due \in {0, 1}
    /\ adminPc = [m \in Admins |-> "idle"]
    /\ form = [m \in Admins |-> row]
    /\ adminExp = [m \in Admins |-> 0]
    /\ renewed = {}
    /\ orphans = {}
    /\ putBack = FALSE
    /\ misdated = FALSE

CodeStep(r) ==
    \/ Resolve(r) \/ LoadMutex(r) \/ Reread(r) \/ Store(r)
    \/ UseToken(r) \/ FetchProfile(r) \/ WriteProfile(r)

ProviderStep(r) == Grant(r) \/ LoseAnswer(r) \/ Refuse(r)

Next ==
    \/ \E r \in Requests : CodeStep(r) \/ Lock(r) \/ ProviderStep(r)
    \/ \E m \in Admins :
          OpenForm(m) \/ BeginPut(m) \/ PutCredentials(m) \/ DeleteRow(m) \/ ForgetLocks(m)
    \/ TimePasses

Spec == Init /\ [][Next]_vars

(* Goroutines run, the provider answers or is given up, and a blocked Lock is granted in the
   end (sync.Mutex hands over to a starved waiter after a millisecond).      *)
Fairness ==
    /\ \A r \in Requests : WF_vars(CodeStep(r)) /\ WF_vars(ProviderStep(r))
    /\ \A r \in Requests : SF_vars(Lock(r))

FairSpec == Spec /\ Fairness

-----------------------------------------------------------------------------
TypeOK ==
    /\ exists \in BOOLEAN
    /\ row \in Credentials
    /\ locks \in Mutexes \union {NoMutex}
    /\ made \subseteq Mutexes
    /\ owner \in [Mutexes -> Requests \union {Nobody}]
    /\ pc \in [Requests -> {"start", "locking", "blocked", "profile", "write", "use"}
                           \union Locked \union Ended]
    /\ mutex \in [Requests -> Mutexes \union {NoMutex}]
    /\ cred \in [Requests -> Credentials]
    /\ token \in [Requests -> Credentials]
    /\ snapExp \in [Requests -> Grants]
    /\ forced \in [Requests -> BOOLEAN]
    /\ live \subseteq Grants
    /\ issued \in Grants
    /\ due \in Grants
    /\ adminPc \in [Admins -> {"idle", "editing", "saving", "pasting", "deleted", "done"}]
    /\ form \in [Admins -> Credentials]
    /\ adminExp \in [Admins -> Grants]
    /\ renewed \subseteq Grants
    /\ orphans \subseteq Grants
    /\ putBack \in BOOLEAN
    /\ misdated \in BOOLEAN

(* SUBSCRIPTION_API_PLAN.md:511, one refresh of an account at a time, also
   while the account is being deleted and its mutex dropped from the map.    *)
SingleFlight == \A r, q \in Refreshing : r = q

(* However many requests find the same token due or answered 401, it is
   renewed once and the others use what the first one stored.  A second
   renewal of a token means that it was written back over others, or that
   what the first one bought never reached the row.                          *)
RenewedOnce == \A r \in Requests : pc[r] = "refreshing" => cred[r].at \notin renewed

(* SUBSCRIPTION_API_PLAN.md:514, a rotated refresh token is stored atomically,
   so that what has once been stored is not undone: unless a refresh is under
   way, or the successor was lost before it could be stored, the refresh token
   in the row, if there is one, is not a withdrawn one.                      *)
RotationKept ==
    exists /\ Refreshing = {} => row.rt \in live \union orphans \union {NoToken}

(* A rotation that was stored is undone for one reason only: the credentials
   of before it were written back by who had read them (a quota refresh, the
   edit form).  Overlapping renewals, 401s, failures and deletions are none,
   and the next renewal or login that is stored makes up for it.             *)
WithdrawnForCause == putBack \/ RotationKept

(* README.md:112, 144: without a 401 a token is renewed only when it is
   itself about to expire, unless an expiry was stored with a token it does
   not belong to.                                                            *)
RenewedWhenDue ==
    \/ misdated
    \/ \A r \in Requests : pc[r] = "refreshing" => forced[r] \/ cred[r].at <= due

(* No request hangs on the mutex or loops in the 401 retry. *)
EveryRequestEnds == \A r \in Requests : pc[r] \notin {"start"} ~> pc[r] \in Ended

=============================================================================
