------------------------- MODULE TokenRefreshProofs -------------------------
(***************************************************************************)
(* Proofs for any number of requests, quota refreshes, admins and grants.  *)
(* Refreshes of a subscription never overlap, whatever fails, and although *)
(* deleting the subscription drops its mutex from the map while goroutines *)
(* hold or await it.  From that it follows that a token in the row is      *)
(* renewed once, and that a rotation that was stored is undone only by     *)
(* writing back what was read before it.                                   *)
(***************************************************************************)
EXTENDS TokenRefresh, TLAPS

(* The part of the state the argument is about. *)
LockTypes ==
    /\ exists \in BOOLEAN
    /\ locks \in Mutexes \union {NoMutex}
    /\ owner \in [Mutexes -> Requests \union {Nobody}]
    /\ pc \in [Requests -> {"start", "locking", "blocked", "profile", "write", "use"}
                           \union Locked \union Ended]
    /\ mutex \in [Requests -> Mutexes \union {NoMutex}]
    /\ adminPc \in [Admins -> {"idle", "editing", "saving", "pasting", "deleted", "done"}]
    /\ \A m \in Admins : adminPc[m] = "deleted" => ~exists

(* Whoever is past Lock owns the mutex it loaded. *)
OwnMutex ==
    \A r \in Requests :
        /\ pc[r] \in Locked \union {"blocked"} => mutex[r] \in Mutexes
        /\ pc[r] \in Locked => owner[mutex[r]] = r

(* While the row exists nothing is dropped, so everybody has the same mutex. *)
SameMutex ==
    exists => \A r \in Requests : pc[r] \in Locked \union {"blocked"} => mutex[r] = locks

IInv == LockTypes /\ OwnMutex /\ SameMutex /\ SingleFlight

USE RequestsAssumption, NilAssumption

LEMMA InitIInv == Init => IInv
BY DEF Init, IInv, LockTypes, OwnMutex, SameMutex, SingleFlight, Refreshing, Locked, Ended

LEMMA NextIInv == IInv /\ [Next]_vars => IInv'
<1> SUFFICES ASSUME IInv, [Next]_vars PROVE IInv'
  OBVIOUS
<1> USE DEF IInv, LockTypes, OwnMutex, SameMutex, SingleFlight, Refreshing, Locked, Ended,
            rowVars, lockVars, reqVars, provVars, adminVars
<1>1. ASSUME NEW r \in Requests, Resolve(r) PROVE IInv'
  BY <1>1 DEF Resolve, AfterCredentials
<1>2. ASSUME NEW r \in Requests, LoadMutex(r) PROVE IInv'
  BY <1>2 DEF LoadMutex
<1>3. ASSUME NEW r \in Requests, Lock(r) PROVE IInv'
  BY <1>3 DEF Lock
<1>4. ASSUME NEW r \in Requests, Reread(r) PROVE IInv'
  <2>1. CASE pc'[r] = "refreshing"
    <3>1. exists /\ pc[r] = "locked" /\ pc' = [pc EXCEPT ![r] = "refreshing"]
          /\ UNCHANGED <<exists, locks, owner, mutex, adminPc>>
      BY <1>4, <2>1 DEF Reread, UnlockTo, AfterCredentials
    <3>2. Refreshing = {}
      <4> SUFFICES ASSUME NEW q \in Requests, pc[q] \in {"refreshing", "granted"}
                   PROVE  FALSE
        OBVIOUS
      <4>1. mutex[q] = mutex[r]
        BY <3>1
      <4>2. owner[mutex[q]] = q /\ owner[mutex[r]] = r
        BY <3>1
      <4> QED BY <3>1, <4>1, <4>2
    <3>3. SingleFlight'
      BY <3>1, <3>2
    <3> QED BY <3>1, <3>3
  <2>2. CASE pc'[r] # "refreshing"
    BY <1>4, <2>2 DEF Reread, UnlockTo, AfterCredentials
  <2> QED BY <2>1, <2>2
<1>5. ASSUME NEW r \in Requests, Grant(r) PROVE IInv'
  BY <1>5 DEF Grant
<1>6. ASSUME NEW r \in Requests, LoseAnswer(r) \/ Refuse(r) PROVE IInv'
  BY <1>6 DEF LoseAnswer, Refuse, UnlockTo
<1>7. ASSUME NEW r \in Requests, Store(r) PROVE IInv'
  BY <1>7 DEF Store, StoreFails, UnlockTo, AfterCredentials
<1>8. ASSUME NEW r \in Requests, UseToken(r) \/ FetchProfile(r) \/ WriteProfile(r)
      PROVE  IInv'
  BY <1>8 DEF UseToken, FetchProfile, WriteProfile
<1>9. ASSUME NEW m \in Admins,
             OpenForm(m) \/ BeginPut(m) \/ PutCredentials(m) \/ DeleteRow(m) \/ ForgetLocks(m)
      PROVE  IInv'
  <2>0. CASE OpenForm(m)
    BY <2>0 DEF OpenForm
  <2>1. CASE BeginPut(m)
    BY <2>1 DEF BeginPut
  <2>2. CASE PutCredentials(m)
    BY <2>2 DEF PutCredentials
  <2>3. CASE DeleteRow(m)
    BY <2>3 DEF DeleteRow
  <2>4. CASE ForgetLocks(m)
    BY <2>4 DEF ForgetLocks
  <2> QED BY <1>9, <2>0, <2>1, <2>2, <2>3, <2>4
<1>10. CASE TimePasses \/ UNCHANGED vars
  BY <1>10 DEF TimePasses, vars
<1> QED
  BY <1>1, <1>2, <1>3, <1>4, <1>5, <1>6, <1>7, <1>8, <1>9, <1>10
  DEF Next, CodeStep, ProviderStep

(* At most one refresh of a subscription is under way. *)
THEOREM RefreshesNeverOverlap == Spec => []SingleFlight
<1>1. IInv => SingleFlight
  BY DEF IInv
<1> QED BY InitIInv, NextIInv, <1>1, PTL DEF Spec
-----------------------------------------------------------------------------
CredentialTypes ==
    /\ row \in Credentials
    /\ cred \in [Requests -> Credentials]
    /\ token \in [Requests -> Credentials]
    /\ form \in [Admins -> Credentials]
    /\ snapExp \in [Requests -> Grants]
    /\ adminExp \in [Admins -> Grants]
    /\ issued \in Grants

(* The access tokens around are those of grants made. *)
Numbered ==
    /\ row.at <= issued
    /\ \A r \in Requests : cred[r].at <= issued /\ token[r].at <= issued
    /\ \A m \in Admins : form[m].at <= issued
    /\ renewed \subseteq 1..issued

(* The token in the row has not been renewed since it came there, unless its
   successor is in the hands of a goroutine that is about to store it.       *)
Unrenewed ==
    /\ \A r \in Requests : pc[r] = "refreshing" => cred[r].at \notin renewed
    /\ \A r \in Requests :
          pc[r] = "granted" => token[r].at \notin renewed /\ token[r].rt \in live
    /\ \/ ~exists \/ row.at \notin renewed
       \/ \E r \in Requests : pc[r] = "granted" /\ cred[r].at = row.at

(* Likewise its refresh token has not been withdrawn, unless it was written
   back or its successor lost.                                               *)
Kept ==
    \/ ~exists \/ putBack \/ row.rt \in live \union orphans \union {NoToken}
    \/ \E r \in Requests : pc[r] = "granted" /\ cred[r].rt = row.rt

TokenInv == CredentialTypes /\ Numbered /\ Unrenewed /\ Kept

LEMMA InitTokenInv == Init => TokenInv
BY MaxGrantsAssumption DEF Init, TokenInv, CredentialTypes, Numbered, Unrenewed, Kept,
   Credentials, Grants, NoToken

(* Only the goroutine r moves, and neither within the refresh nor into it:
   what it works with is what it had or what the row has.                    *)
Outside(r) ==
    /\ UNCHANGED <<exists, row, token, live, issued, form, adminExp, renewed, orphans, putBack>>
    /\ snapExp' \in [Requests -> Grants]
    /\ cred' \in [Requests -> Credentials]
    /\ \A q \in Requests \ {r} : pc'[q] = pc[q] /\ cred'[q] = cred[q]
    /\ cred'[r].at \in {cred[r].at, row.at}
    /\ pc[r] # "granted" /\ pc'[r] \notin {"refreshing", "granted"}

LEMMA OutsideKeeps ==
    ASSUME TokenInv, NEW r \in Requests, Outside(r) PROVE TokenInv'
<1> USE DEF Outside, TokenInv
<1>1. CredentialTypes'
  BY DEF CredentialTypes
<1>2. Numbered'
  <2>1. \A q \in Requests : cred'[q].at <= issued
    BY DEF Numbered
  <2> QED BY <2>1 DEF Numbered
<1>3. \A q \in Requests :
         /\ pc'[q] = "granted" <=> pc[q] = "granted"
         /\ pc'[q] \in {"refreshing", "granted"} => pc[q] = pc'[q] /\ cred'[q] = cred[q]
  OBVIOUS
<1>4. Unrenewed'
  BY <1>3 DEF Unrenewed
<1>5. Kept'
  BY <1>3 DEF Kept
<1> QED BY <1>1, <1>2, <1>4, <1>5

(* Credentials written back are noted as such if they differ, and may then be
   renewed again.                                                            *)
LEMMA WriteBackKeeps ==
    ASSUME TokenInv, NEW c \in Credentials, NEW e \in Grants, c.at <= issued,
           WriteBack(c, e),
           UNCHANGED <<exists, cred, token, live, issued, form, snapExp, adminExp, orphans>>,
           \A q \in Requests : \/ pc'[q] = pc[q]
                               \/ /\ pc[q] \notin {"refreshing", "granted"}
                                  /\ pc'[q] \notin {"refreshing", "granted"}
    PROVE  TokenInv'
<1> USE DEF TokenInv
<1>1. /\ row' \in Credentials /\ row'.at = c.at /\ row'.rt = c.rt
      /\ renewed' \subseteq renewed
      /\ c.at # row.at => c.at \notin renewed'
      /\ putBack => putBack'
      /\ putBack' \/ (c.at = row.at /\ c.rt = row.rt)
  BY DEF WriteBack, Credentials
<1>2. CredentialTypes' /\ Numbered'
  BY <1>1 DEF CredentialTypes, Numbered
<1>3. \A q \in Requests :
         /\ pc'[q] = "granted" <=> pc[q] = "granted"
         /\ pc'[q] = "refreshing" <=> pc[q] = "refreshing"
  OBVIOUS
<1>4. Unrenewed'
  <2>1. \A q \in Requests : pc'[q] = "refreshing" => cred'[q].at \notin renewed'
    BY <1>1, <1>3 DEF Unrenewed
  <2>2. \A q \in Requests :
           pc'[q] = "granted" => token'[q].at \notin renewed' /\ token'[q].rt \in live'
    BY <1>1, <1>3 DEF Unrenewed
  <2>3. \/ ~exists' \/ row'.at \notin renewed'
        \/ \E q \in Requests : pc'[q] = "granted" /\ cred'[q].at = row'.at
    BY <1>1, <1>3 DEF Unrenewed
  <2> QED BY <2>1, <2>2, <2>3 DEF Unrenewed
<1>5. Kept'
  BY <1>1, <1>3 DEF Kept
<1> QED BY <1>2, <1>4, <1>5

LEMMA NextTokenInv == IInv /\ TokenInv /\ [Next]_vars => TokenInv'
<1> SUFFICES ASSUME IInv, TokenInv, [Next]_vars PROVE TokenInv'
  OBVIOUS
<1> USE DEF rowVars, lockVars, reqVars, provVars, adminVars, history
<1>0. /\ IInv' /\ MaxGrants \in Nat \ {0}
      /\ CredentialTypes /\ Numbered /\ Unrenewed /\ Kept
      /\ pc \in [Requests -> {"start", "locking", "blocked", "profile", "write", "use"}
                             \union Locked \union Ended]
  BY NextIInv, MaxGrantsAssumption DEF IInv, LockTypes, TokenInv
<1>a. \A p, q \in Requests :
         pc[p] \in {"refreshing", "granted"} /\ pc[q] \in {"refreshing", "granted"} => p = q
  BY DEF IInv, SingleFlight, Refreshing
<1>b. issued \in Nat /\ \A q \in Requests : cred[q].at \in Nat \ {0} /\ cred[q].rt \in Grants
  BY <1>0 DEF CredentialTypes, Credentials, Grants
<1>1. ASSUME NEW r \in Requests, Resolve(r) PROVE TokenInv'
  <2>1. Outside(r)
    BY <1>0, <1>1 DEF Resolve, Outside, AfterCredentials, CredentialTypes, Credentials
  <2> QED BY <2>1, OutsideKeeps
<1>2. ASSUME NEW r \in Requests, LoadMutex(r) \/ Lock(r) PROVE TokenInv'
  <2>1. Outside(r)
    BY <1>0, <1>2 DEF LoadMutex, Lock, Outside, CredentialTypes
  <2> QED BY <2>1, OutsideKeeps
<1>3. ASSUME NEW r \in Requests, UseToken(r) \/ Refuse(r) PROVE TokenInv'
  <2>1. Outside(r)
    BY <1>0, <1>3 DEF UseToken, Refuse, UnlockTo, Outside, CredentialTypes
  <2> QED BY <2>1, OutsideKeeps
<1>4. ASSUME NEW r \in Requests, FetchProfile(r) PROVE TokenInv'
  <2>1. cred' \in [Requests -> Credentials]
    <3>1. [cred[r] EXCEPT !.user = TRUE] \in Credentials
      BY <1>0 DEF CredentialTypes, Credentials
    <3>2. cred' = cred \/ cred' = [cred EXCEPT ![r] = [cred[r] EXCEPT !.user = TRUE]]
      BY <1>4 DEF FetchProfile
    <3> QED BY <1>0, <3>1, <3>2 DEF CredentialTypes
  <2>2. Outside(r)
    BY <1>0, <1>4, <2>1 DEF FetchProfile, Outside, CredentialTypes, Credentials
  <2> QED BY <2>2, OutsideKeeps
<1>5. ASSUME NEW r \in Requests, Reread(r) PROVE TokenInv'
  <2>1. CASE pc'[r] # "refreshing"
    <3>1. Outside(r)
      BY <1>0, <1>5, <2>1 DEF Reread, UnlockTo, AfterCredentials, Outside, CredentialTypes
    <3> QED BY <3>1, OutsideKeeps
  <2>2. CASE pc'[r] = "refreshing"
    <3>1. /\ UNCHANGED <<exists, row, token, live, issued, form, adminExp, snapExp>>
          /\ UNCHANGED <<renewed, orphans, putBack>>
          /\ exists /\ pc[r] = "locked"
          /\ cred' = [cred EXCEPT ![r] = row]
          /\ pc' = [pc EXCEPT ![r] = "refreshing"]
      BY <1>0, <1>5, <2>2 DEF Reread, UnlockTo, AfterCredentials
    <3>2. CredentialTypes'
      BY <1>0, <3>1 DEF CredentialTypes
    <3>3. Numbered'
      BY <1>0, <3>1 DEF Numbered, CredentialTypes
    <3>4. \A q \in Requests : pc[q] \notin {"refreshing", "granted"}
      <4>1. r \in Refreshing'
        BY <2>2 DEF Refreshing
      <4>2. \A q \in Requests : pc'[q] \in {"refreshing", "granted"} => q = r
        BY <1>0, <4>1 DEF IInv, SingleFlight, Refreshing
      <4> QED BY <1>0, <3>1, <4>2
    <3>5. row.at \notin renewed /\ (putBack \/ row.rt \in live \union orphans \union {NoToken})
      BY <1>0, <3>1, <3>4 DEF Unrenewed, Kept
    <3>6. \A q \in Requests :
             pc'[q] # "granted" /\ (pc'[q] = "refreshing" => cred'[q] = row)
      BY <1>0, <3>1, <3>4 DEF CredentialTypes
    <3>7. Unrenewed' /\ Kept'
      BY <3>1, <3>5, <3>6 DEF Unrenewed, Kept
    <3> QED BY <3>2, <3>3, <3>7 DEF TokenInv
  <2> QED BY <2>1, <2>2
<1>6. ASSUME NEW r \in Requests, Grant(r) PROVE TokenInv'
  <2>1. /\ UNCHANGED <<exists, row, cred, form, adminExp, snapExp, orphans, putBack>>
        /\ pc[r] = "refreshing" /\ pc' = [pc EXCEPT ![r] = "granted"]
        /\ issued < MaxGrants /\ issued' = issued + 1
        /\ renewed' = renewed \union {cred[r].at}
        /\ cred[r].rt \in live
        /\ live' = live \/ live' = (live \ {cred[r].rt}) \union {issued'}
    BY <1>6 DEF Grant, Redeem
  <2>2. issued' \in Grants \ {0} /\ issued' > issued
    BY <1>0, <1>b, <2>1 DEF Grants
  <2>3. /\ token' \in [Requests -> Credentials]
        /\ \A q \in Requests \ {r} : token'[q] = token[q]
        /\ token'[r].at = issued' /\ token'[r].rt \in live'
    <3>1. cred[r] \in Credentials
      BY <1>0 DEF CredentialTypes
    <3>2. PICK c \in Credentials :
             /\ token' = [token EXCEPT ![r] = c]
             /\ c.at = issued' /\ c.rt \in live'
      <4> DEFINE c == [cred[r] EXCEPT !.at = issued', !.exp = issued',
                                      !.rt = IF live' = live THEN @ ELSE issued']
      <4>1. c \in Credentials /\ c.at = issued' /\ c.rt \in live'
        BY <2>1, <2>2, <3>1 DEF Credentials
      <4>2. token' = [token EXCEPT ![r] = c]
        BY <1>6 DEF Grant
      <4> QED BY <4>1, <4>2
    <3> QED BY <1>0, <3>2 DEF CredentialTypes
  <2>4. CredentialTypes'
    BY <1>0, <2>1, <2>2, <2>3 DEF CredentialTypes
  <2>5. Numbered'
    <3>1. /\ row.at \in Nat
          /\ \A q \in Requests : cred[q].at \in Nat /\ token[q].at \in Nat
          /\ \A m \in Admins : form[m].at \in Nat
      BY <1>0 DEF CredentialTypes, Credentials, Grants
    <3>2. /\ row.at <= issued'
          /\ \A q \in Requests : cred[q].at <= issued'
          /\ \A m \in Admins : form[m].at <= issued'
      BY <1>0, <1>b, <2>1, <3>1 DEF Numbered
    <3>3. \A q \in Requests : token'[q].at <= issued'
      BY <1>0, <1>b, <2>1, <2>3, <3>1 DEF Numbered
    <3>4. renewed' \subseteq 1..issued'
      <4>1. cred[r].at \in 1..issued'
        BY <1>b, <2>1, <3>2
      <4>2. renewed \subseteq 1..issued'
        BY <1>0, <1>b, <2>1 DEF Numbered
      <4> QED BY <2>1, <4>1, <4>2
    <3> QED BY <2>1, <3>2, <3>3, <3>4 DEF Numbered
  <2>6. \A q \in Requests : pc'[q] \in {"refreshing", "granted"} => q = r
    BY <1>0, <1>a, <2>1
  <2>7. pc'[r] = "granted"
    BY <1>0, <2>1
  <2>8. issued' \notin renewed'
    BY <1>0, <1>b, <2>1, <2>2 DEF Numbered
  <2>9. \A q \in Requests : pc[q] # "granted"
    BY <1>a, <2>1
  <2>10. Unrenewed'
    <3>1. ~exists \/ row.at \notin renewed
      BY <1>0, <2>9 DEF Unrenewed
    <3>2. ~exists \/ row.at \notin renewed' \/ cred[r].at = row.at
      BY <2>1, <3>1
    <3> QED BY <2>1, <2>3, <2>6, <2>7, <2>8, <3>2 DEF Unrenewed
  <2>11. Kept'
    <3>1. ~exists \/ putBack \/ row.rt \in live \union orphans \union {NoToken}
      BY <1>0, <2>9 DEF Kept
    <3>2. \/ ~exists \/ putBack \/ row.rt \in live' \union orphans \union {NoToken}
          \/ cred[r].rt = row.rt
      BY <2>1, <3>1
    <3> QED BY <2>1, <2>7, <3>2 DEF Kept
  <2> QED BY <2>4, <2>5, <2>10, <2>11 DEF TokenInv
<1>7. ASSUME NEW r \in Requests, LoseAnswer(r) PROVE TokenInv'
  <2>1. /\ UNCHANGED <<exists, row, cred, token, form, adminExp, snapExp, renewed, putBack>>
        /\ pc[r] = "refreshing" /\ pc' = [pc EXCEPT ![r] = "failed"]
        /\ issued < MaxGrants /\ issued' = issued + 1
        /\ \/ live' = live /\ orphans' = orphans
           \/ /\ live' = (live \ {cred[r].rt}) \union {issued'}
              /\ orphans' = orphans \union {cred[r].rt}
    BY <1>7 DEF LoseAnswer, Redeem, UnlockTo
  <2>2. issued' \in Grants /\ issued' > issued
    BY <1>0, <1>b, <2>1 DEF Grants
  <2>3. CredentialTypes'
    BY <1>0, <2>1, <2>2 DEF CredentialTypes
  <2>4. Numbered'
    <3>1. /\ row.at \in Nat
          /\ \A q \in Requests : cred[q].at \in Nat /\ token[q].at \in Nat
          /\ \A m \in Admins : form[m].at \in Nat
      BY <1>0 DEF CredentialTypes, Credentials, Grants
    <3>2. renewed \subseteq 1..issued'
      BY <1>0, <1>b, <2>1 DEF Numbered
    <3> QED BY <1>0, <1>b, <2>1, <3>1, <3>2 DEF Numbered
  <2>5. \A q \in Requests : pc[q] # "granted" /\ pc'[q] \notin {"refreshing", "granted"}
    BY <1>0, <1>a, <2>1
  <2>6. Unrenewed'
    BY <1>0, <2>1, <2>5 DEF Unrenewed
  <2>7. Kept'
    BY <1>0, <2>1, <2>5 DEF Kept
  <2> QED BY <2>3, <2>4, <2>6, <2>7 DEF TokenInv
<1>8. ASSUME NEW r \in Requests, Store(r) PROVE TokenInv'
  <2>1. /\ UNCHANGED <<exists, token, live, issued, form, adminExp, snapExp>>
        /\ pc[r] = "granted"
        /\ \A q \in Requests \ {r} : pc'[q] = pc[q]
        /\ pc'[r] \notin {"refreshing", "granted"}
    BY <1>0, <1>8 DEF Store, StoreFails, UnlockTo, AfterCredentials
  <2>2. \A q \in Requests : pc'[q] \notin {"refreshing", "granted"}
    BY <1>a, <2>1
  <2>3. \A q \in Requests : pc[q] = "granted" => q = r
    BY <1>a, <2>1
  <2>4. CASE /\ exists /\ row' = token[r] /\ cred' = [cred EXCEPT ![r] = token[r]]
             /\ UNCHANGED <<renewed, orphans>>
    <3>1. CredentialTypes' /\ Numbered'
      BY <1>0, <2>1, <2>4 DEF CredentialTypes, Numbered
    <3>2. row'.at \notin renewed' /\ row'.rt \in live'
      BY <1>0, <2>1, <2>4 DEF Unrenewed
    <3> QED BY <2>2, <3>1, <3>2 DEF TokenInv, Unrenewed, Kept
  <2>5. CASE StoreFails(r)
    <3>1. /\ UNCHANGED <<row, cred, putBack>>
          /\ renewed' = renewed \ {cred[r].at}
          /\ orphans \subseteq orphans' /\ cred[r].rt \in live \union orphans'
      BY <2>5 DEF StoreFails
    <3>2. CredentialTypes' /\ Numbered'
      BY <1>0, <2>1, <3>1 DEF CredentialTypes, Numbered
    <3>3. ~exists \/ row.at \notin renewed'
      BY <1>0, <2>3, <3>1 DEF Unrenewed
    <3>4. ~exists \/ putBack \/ row.rt \in live \union orphans' \union {NoToken}
      BY <1>0, <2>3, <3>1 DEF Kept
    <3> QED BY <2>1, <2>2, <3>1, <3>2, <3>3, <3>4 DEF TokenInv, Unrenewed, Kept
  <2> QED BY <1>8, <2>4, <2>5 DEF Store
<1>9. ASSUME NEW r \in Requests, WriteProfile(r) PROVE TokenInv'
  <2>1. /\ UNCHANGED <<exists, cred, token, live, issued, form, snapExp, adminExp, orphans>>
        /\ \A q \in Requests : \/ pc'[q] = pc[q]
                               \/ /\ pc[q] \notin {"refreshing", "granted"}
                                  /\ pc'[q] \notin {"refreshing", "granted"}
    BY <1>0, <1>9 DEF WriteProfile
  <2>2. CASE WriteBack(cred[r], snapExp[r])
    <3>1. cred[r] \in Credentials /\ snapExp[r] \in Grants /\ cred[r].at <= issued
      BY <1>0 DEF CredentialTypes, Numbered
    <3> QED BY <2>1, <2>2, <3>1, WriteBackKeeps
  <2>3. CASE UNCHANGED <<row, renewed, putBack>>
    BY <1>0, <2>1, <2>3 DEF TokenInv, CredentialTypes, Numbered, Unrenewed, Kept
  <2> QED BY <1>9, <2>2, <2>3 DEF WriteProfile
<1>10. ASSUME NEW m \in Admins,
              OpenForm(m) \/ BeginPut(m) \/ DeleteRow(m) \/ ForgetLocks(m)
       PROVE  TokenInv'
  <2>1. /\ UNCHANGED <<row, pc, live, issued, snapExp, cred, token, renewed, orphans, putBack>>
        /\ exists' => exists
        /\ adminExp' \in [Admins -> Grants]
        /\ form' = form \/ form' = [form EXCEPT ![m] = row]
    BY <1>0, <1>10 DEF OpenForm, BeginPut, DeleteRow, ForgetLocks, CredentialTypes, Credentials,
                       IInv, LockTypes
  <2>2. CredentialTypes'
    BY <1>0, <2>1 DEF CredentialTypes
  <2>3. Numbered'
    BY <1>0, <2>1 DEF Numbered, CredentialTypes
  <2>4. Unrenewed' /\ Kept'
    BY <1>0, <2>1 DEF Unrenewed, Kept
  <2> QED BY <2>2, <2>3, <2>4 DEF TokenInv
<1>11. ASSUME NEW m \in Admins, PutCredentials(m) PROVE TokenInv'
  <2>1. UNCHANGED <<exists, pc, cred, token, form, snapExp, adminExp, orphans>>
    BY <1>11 DEF PutCredentials
  <2>2. CASE UNCHANGED <<row, live, issued, renewed, putBack>>
    BY <1>0, <2>1, <2>2 DEF TokenInv, CredentialTypes, Numbered, Unrenewed, Kept
  <2>3. CASE SaveForm(m)
    <3>1. PICK c : /\ \E rt \in {form[m].rt, NoToken} : c = [form[m] EXCEPT !.rt = rt]
                   /\ WriteBack(c, adminExp[m])
      BY <2>3 DEF SaveForm
    <3>2. form[m] \in Credentials /\ form[m].at <= issued /\ adminExp[m] \in Grants
      BY <1>0 DEF CredentialTypes, Numbered
    <3>3. c \in Credentials /\ c.at <= issued
      BY <1>0, <3>1, <3>2 DEF Credentials, Grants, NoToken
    <3> QED BY <2>1, <2>3, <3>1, <3>2, <3>3, WriteBackKeeps DEF SaveForm
  <2>4. CASE exists /\ PasteLogin(m)
    <3>1. /\ issued < MaxGrants /\ issued' = issued + 1
          /\ live' = live \union {issued'} /\ renewed' = renewed
          /\ row' \in Credentials /\ row'.at = issued' /\ row'.rt \in {issued', NoToken}
          /\ issued' \in Grants
      BY <1>0, <1>b, <2>4 DEF PasteLogin, CredentialTypes, Credentials, Grants, NoToken
    <3>2. CredentialTypes'
      BY <1>0, <2>1, <3>1 DEF CredentialTypes
    <3>3. Numbered'
      <4>1. /\ \A q \in Requests : cred[q].at \in Nat /\ token[q].at \in Nat
            /\ \A k \in Admins : form[k].at \in Nat
        BY <1>0 DEF CredentialTypes, Credentials, Grants
      <4>2. renewed \subseteq 1..issued'
        BY <1>0, <1>b, <3>1 DEF Numbered
      <4> QED BY <1>0, <1>b, <2>1, <3>1, <4>1, <4>2 DEF Numbered, Grants
    <3>4. issued' \notin renewed
      BY <1>0, <1>b, <3>1 DEF Numbered
    <3>5. Unrenewed' /\ Kept'
      BY <1>0, <2>1, <3>1, <3>4 DEF Unrenewed, Kept
    <3> QED BY <3>2, <3>3, <3>5 DEF TokenInv
  <2> QED BY <1>11, <2>2, <2>3, <2>4 DEF PutCredentials
<1>12. CASE TimePasses \/ UNCHANGED vars
  <2>1. /\ UNCHANGED <<exists, row, pc, live, issued, snapExp, cred, token, form, adminExp>>
        /\ UNCHANGED <<renewed, orphans, putBack>>
    BY <1>12 DEF TimePasses, vars
  <2> QED BY <1>0, <2>1 DEF TokenInv, CredentialTypes, Numbered, Unrenewed, Kept
<1> QED BY <1>1, <1>2, <1>3, <1>4, <1>5, <1>6, <1>7, <1>8, <1>9, <1>10, <1>11, <1>12
        DEF Next, CodeStep, ProviderStep

(* A rotation that was stored is undone only by writing back credentials read
   before it.                                                                *)
THEOREM RotationUndoneForCause == Spec => []WithdrawnForCause
<1>1. TokenInv => WithdrawnForCause
  BY DEF TokenInv, Kept, WithdrawnForCause, RotationKept, Refreshing
<1> QED BY InitIInv, NextIInv, InitTokenInv, NextTokenInv, <1>1, PTL DEF Spec

(* No access token is renewed again, unless it was written back since or its
   successor never reached the row.                                          *)
THEOREM RenewedAtMostOnce == Spec => []RenewedOnce
<1>1. TokenInv => RenewedOnce
  BY DEF TokenInv, Unrenewed, RenewedOnce
<1> QED BY InitIInv, NextIInv, InitTokenInv, NextTokenInv, <1>1, PTL DEF Spec

-----------------------------------------------------------------------------
(* What TypeOK says beyond LockTypes and CredentialTypes. *)
RestTypes ==
    /\ made \subseteq Mutexes
    /\ forced \in [Requests -> BOOLEAN]
    /\ live \subseteq Grants
    /\ due \in Grants
    /\ orphans \subseteq Grants
    /\ putBack \in BOOLEAN
    /\ misdated \in BOOLEAN

LEMMA InitRest == Init => RestTypes
<1> SUFFICES ASSUME Init PROVE RestTypes
  OBVIOUS
<1>1. live = {1} /\ due \in {0, 1} /\ 0 \in Grants /\ 1 \in Grants
  BY MaxGrantsAssumption DEF Init, Grants
<1>2. made = {} /\ forced = [r \in Requests |-> FALSE] /\ orphans = {}
      /\ putBack = FALSE /\ misdated = FALSE
  BY DEF Init
<1> QED BY <1>1, <1>2 DEF RestTypes

LEMMA NextRest == IInv /\ TokenInv /\ RestTypes /\ [Next]_vars => RestTypes'
<1> SUFFICES ASSUME IInv, TokenInv, RestTypes, [Next]_vars PROVE RestTypes'
  OBVIOUS
<1> USE MaxGrantsAssumption
    DEF RestTypes, Grants, UnlockTo, rowVars, lockVars, reqVars, provVars, adminVars, history
<1>0. issued \in Grants /\ \A r \in Requests : cred[r].rt \in Grants
  BY DEF TokenInv, CredentialTypes, Credentials
<1>1. ASSUME NEW r \in Requests, Resolve(r) \/ LoadMutex(r) \/ Lock(r) \/ Reread(r)
      PROVE  RestTypes'
  BY <1>1 DEF Resolve, LoadMutex, Lock, Reread
<1>2. ASSUME NEW r \in Requests, Grant(r) \/ LoseAnswer(r) PROVE RestTypes'
  <2>1. issued' \in Grants /\ live' \subseteq live \union {issued'}
    BY <1>0, <1>2 DEF Grant, LoseAnswer, Redeem
  <2>2. orphans' \subseteq orphans \union {cred[r].rt}
    BY <1>2 DEF Grant, LoseAnswer
  <2>3. UNCHANGED <<made, forced, due, putBack, misdated>>
    BY <1>2 DEF Grant, LoseAnswer
  <2> QED BY <1>0, <2>1, <2>2, <2>3
<1>3. ASSUME NEW r \in Requests, Refuse(r) \/ Store(r) PROVE RestTypes'
  BY <1>0, <1>3 DEF Refuse, Store, StoreFails
<1>4. ASSUME NEW r \in Requests, UseToken(r) \/ FetchProfile(r) PROVE RestTypes'
  BY <1>4 DEF UseToken, FetchProfile
<1>5. ASSUME NEW r \in Requests, WriteProfile(r) PROVE RestTypes'
  BY <1>5 DEF WriteProfile, WriteBack
<1>6. ASSUME NEW m \in Admins, OpenForm(m) \/ BeginPut(m) \/ DeleteRow(m) \/ ForgetLocks(m)
      PROVE  RestTypes'
  BY <1>6 DEF OpenForm, BeginPut, DeleteRow, ForgetLocks
<1>7. ASSUME NEW m \in Admins, PutCredentials(m) PROVE RestTypes'
  <2>1. UNCHANGED <<made, forced, due, orphans>>
    BY <1>7 DEF PutCredentials
  <2>2. live' = live \/ (issued' \in Grants /\ live' = live \union {issued'})
    BY <1>0, <1>7 DEF PutCredentials, SaveForm, PasteLogin
  <2>3. putBack' \in BOOLEAN /\ misdated' \in BOOLEAN
    BY <1>7 DEF PutCredentials, SaveForm, PasteLogin, WriteBack
  <2> QED BY <2>1, <2>2, <2>3
<1>8. CASE TimePasses \/ UNCHANGED vars
  BY <1>0, <1>8 DEF TimePasses, vars
<1> QED BY <1>1, <1>2, <1>3, <1>4, <1>5, <1>6, <1>7, <1>8 DEF Next, CodeStep, ProviderStep

(* Credentials are made of grants, and each goroutine is between two of its
   steps.                                                                    *)
THEOREM TypeCorrect == Spec => []TypeOK
<1>1. IInv /\ TokenInv /\ RestTypes => TypeOK
  <2>1. ASSUME TokenInv PROVE renewed \subseteq Grants
    BY <2>1, MaxGrantsAssumption DEF TokenInv, CredentialTypes, Numbered, Grants
  <2> QED BY <2>1 DEF IInv, LockTypes, TokenInv, CredentialTypes, RestTypes, TypeOK
<1> QED BY InitIInv, NextIInv, InitTokenInv, NextTokenInv, InitRest, NextRest, <1>1, PTL
        DEF Spec

-----------------------------------------------------------------------------
(* Until an expiry is stored with a token it does not belong to, every token
   is dated by its own expiry, so that a refresh nobody has forced renews a
   token that is due.                                                        *)
Dated ==
    ~misdated =>
        /\ row.exp = row.at
        /\ \A r \in Requests : cred[r].exp = cred[r].at
        /\ \A r \in Requests : pc[r] = "granted" => token[r].exp = token[r].at
        /\ \A m \in Admins : form[m].exp = form[m].at
        /\ \A r \in Requests : pc[r] = "refreshing" => forced[r] \/ cred[r].at <= due

LEMMA InitDated == Init => Dated
BY DEF Init, Dated

LEMMA NextDated == TokenInv /\ RestTypes /\ LockTypes /\ Dated /\ [Next]_vars => Dated'
<1> SUFFICES ASSUME TokenInv, RestTypes, LockTypes, Dated, [Next]_vars, ~misdated'
             PROVE  Dated'
  BY DEF Dated
<1> USE DEF Dated, rowVars, lockVars, reqVars, provVars, adminVars, history
<1>0. /\ pc \in [Requests -> {"start", "locking", "blocked", "profile", "write", "use"}
                             \union Locked \union Ended]
      /\ CredentialTypes
      /\ forced \in [Requests -> BOOLEAN]
      /\ misdated \in BOOLEAN
  BY DEF LockTypes, TokenInv, RestTypes
<1>1. ASSUME NEW r \in Requests, Resolve(r) \/ LoadMutex(r) \/ Lock(r) PROVE Dated'
  BY <1>0, <1>1 DEF Resolve, AfterCredentials, LoadMutex, Lock, CredentialTypes
<1>2. ASSUME NEW r \in Requests, Reread(r) PROVE Dated'
  <2>1. /\ UNCHANGED <<row, token, form, forced, due, misdated>>
        /\ cred' = cred \/ cred' = [cred EXCEPT ![r] = row]
        /\ \A q \in Requests \ {r} : pc'[q] = pc[q]
        /\ pc'[r] # "granted"
        /\ pc'[r] = "refreshing" =>
              cred' = [cred EXCEPT ![r] = row] /\ (forced[r] \/ row.exp <= due)
    BY <1>0, <1>2 DEF Reread, UnlockTo, AfterCredentials, Fresh, Due
  <2> QED BY <1>0, <2>1 DEF CredentialTypes
<1>3. ASSUME NEW r \in Requests, Grant(r) PROVE Dated'
  <2>1. /\ UNCHANGED <<row, cred, form, forced, due, misdated>>
        /\ \A q \in Requests \ {r} : pc'[q] = pc[q] /\ token'[q] = token[q]
        /\ pc'[r] = "granted"
    BY <1>0, <1>3 DEF Grant, CredentialTypes
  <2>2. token'[r].exp = token'[r].at
    BY <1>0, <1>3 DEF Grant, CredentialTypes, Credentials
  <2> QED BY <2>1, <2>2
<1>4. ASSUME NEW r \in Requests, LoseAnswer(r) \/ Refuse(r) PROVE Dated'
  <2>1. /\ UNCHANGED <<row, cred, token, form, forced, due, misdated>>
        /\ \A q \in Requests \ {r} : pc'[q] = pc[q]
        /\ pc'[r] = "failed"
    BY <1>0, <1>4 DEF LoseAnswer, Refuse, UnlockTo
  <2> QED BY <2>1
<1>5. ASSUME NEW r \in Requests, Store(r) PROVE Dated'
  <2>1. /\ UNCHANGED <<token, form, forced, due, misdated>>
        /\ pc[r] = "granted"
        /\ \A q \in Requests \ {r} : pc'[q] = pc[q] /\ cred'[q] = cred[q]
        /\ row' = row \/ row' = token[r]
        /\ cred'[r] \in {cred[r], token[r]}
        /\ pc'[r] \notin {"refreshing", "granted"}
    BY <1>0, <1>5 DEF Store, StoreFails, UnlockTo, AfterCredentials, CredentialTypes
  <2> QED BY <2>1
<1>6. ASSUME NEW r \in Requests, UseToken(r) PROVE Dated'
  <2>1. /\ UNCHANGED <<row, cred, token, form, due, misdated>>
        /\ \A q \in Requests \ {r} : pc'[q] = pc[q] /\ forced'[q] = forced[q]
        /\ pc'[r] \notin {"refreshing", "granted"}
    BY <1>0, <1>6 DEF UseToken
  <2> QED BY <2>1
<1>7. ASSUME NEW r \in Requests, FetchProfile(r) PROVE Dated'
  <2>1. /\ UNCHANGED <<row, token, form, forced, due, misdated>>
        /\ \A q \in Requests \ {r} : pc'[q] = pc[q] /\ cred'[q] = cred[q]
        /\ pc'[r] \notin {"refreshing", "granted"}
        /\ cred'[r].exp = cred[r].exp /\ cred'[r].at = cred[r].at
    BY <1>0, <1>7 DEF FetchProfile, CredentialTypes, Credentials
  <2> QED BY <2>1
<1>8. ASSUME NEW r \in Requests, WriteProfile(r) PROVE Dated'
  <2>1. /\ UNCHANGED <<cred, token, form, forced, due>>
        /\ \A q \in Requests \ {r} : pc'[q] = pc[q]
        /\ pc'[r] \notin {"refreshing", "granted"}
    BY <1>0, <1>8 DEF WriteProfile
  <2>2. /\ ~misdated
        /\ \/ row' = row
           \/ row' = [cred[r] EXCEPT !.exp = snapExp[r]] /\ snapExp[r] = cred[r].exp
    BY <1>0, <1>8 DEF WriteProfile, WriteBack
  <2>3. cred[r] \in Credentials
    BY <1>0 DEF CredentialTypes
  <2> QED BY <2>1, <2>2, <2>3 DEF Credentials
<1>9. ASSUME NEW m \in Admins, OpenForm(m) PROVE Dated'
  BY <1>0, <1>9 DEF OpenForm, CredentialTypes
<1>10. ASSUME NEW m \in Admins, BeginPut(m) \/ DeleteRow(m) \/ ForgetLocks(m)
       PROVE  Dated'
  BY <1>10 DEF BeginPut, DeleteRow, ForgetLocks
<1>11. ASSUME NEW m \in Admins, PutCredentials(m) PROVE Dated'
  <2>1. UNCHANGED <<pc, cred, token, form, forced, due>>
    BY <1>11 DEF PutCredentials
  <2>2. CASE UNCHANGED <<row, misdated>>
    BY <2>1, <2>2
  <2>3. CASE SaveForm(m)
    <3>1. PICK rt \in {form[m].rt, NoToken} :
             WriteBack([form[m] EXCEPT !.rt = rt], adminExp[m])
      BY <2>3 DEF SaveForm
    <3>2. form[m] \in Credentials
      BY <1>0 DEF CredentialTypes
    <3>3. ~misdated /\ row'.at = form[m].at /\ row'.exp = adminExp[m]
          /\ adminExp[m] = form[m].exp
      BY <1>0, <3>1, <3>2 DEF WriteBack, Credentials
    <3> QED BY <2>1, <3>3
  <2>4. CASE PasteLogin(m)
    <3>1. PICK rt \in {issued', NoToken}, u \in BOOLEAN :
             row' = [at |-> issued', rt |-> rt, exp |-> adminExp[m], user |-> u]
      BY <2>4 DEF PasteLogin
    <3>2. ~misdated /\ adminExp[m] = issued'
      BY <1>0, <2>4 DEF PasteLogin
    <3>3. row'.exp = row'.at
      BY <3>1, <3>2
    <3> QED BY <2>1, <3>2, <3>3
  <2> QED BY <1>11, <2>2, <2>3, <2>4 DEF PutCredentials
<1>12. CASE TimePasses
  <2>1. /\ UNCHANGED <<row, pc, cred, token, form, forced, misdated>>
        /\ due' > due
    BY <1>12 DEF TimePasses
  <2>2. \A r \in Requests : cred[r].at \in Nat
    BY <1>0 DEF CredentialTypes, Credentials, Grants
  <2>3. due \in Nat /\ due' \in Nat
    BY <1>0, <1>12 DEF TimePasses, RestTypes, CredentialTypes, Grants
  <2> QED BY <2>1, <2>2, <2>3
<1>13. CASE UNCHANGED vars
  BY <1>13 DEF vars
<1> QED BY <1>1, <1>2, <1>3, <1>4, <1>5, <1>6, <1>7, <1>8, <1>9, <1>10, <1>11, <1>12, <1>13
        DEF Next, CodeStep, ProviderStep

(* A refresh nobody has forced renews a token that is itself due. *)
THEOREM RenewedInTime == Spec => []RenewedWhenDue
<1>1. IInv => LockTypes
  BY DEF IInv
<1>2. Dated => RenewedWhenDue
  BY DEF Dated, RenewedWhenDue
<1> QED BY InitIInv, NextIInv, InitTokenInv, NextTokenInv, InitRest, NextRest, InitDated,
           NextDated, <1>1, <1>2, PTL DEF Spec
=============================================================================
