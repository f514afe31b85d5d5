----------------------------- MODULE QuotaStore -----------------------------
(***************************************************************************)
(* The quota of one subscription: quota_json, quota_checked_at and         *)
(* quota_error of its row.  Proxied requests merge what the rate limit     *)
(* headers say into the quota they read when the key was resolved          *)
(* (proxy.go, quota_headers.go); an admin's usage refresh asks the         *)
(* provider's usage endpoint and merges its body into the quota it read    *)
(* when it began (claude_usage.go, codex_usage.go, grok_usage.go).  Both   *)
(* write the whole column; nothing is locked between the read and the      *)
(* write, and a call to the provider lies in between.                      *)
(*                                                                         *)
(* A quota maps each field to the time of the provider's report it holds,  *)
(* 0 if there has been none; a report may also be that a window is gone.   *)
(***************************************************************************)
EXTENDS Naturals

CONSTANTS
    Requests,     \* goroutines that serve proxied requests
    Refreshers,   \* goroutines that serve usage refreshes
    Windows,      \* names of usage windows
    RateLimits,   \* request_quota and token_quota
    Providers,    \* the kinds of account to consider
    MaxClock      \* bound: reports of the provider

ASSUME ActorsAssumption == Requests \intersect Refreshers = {}
ASSUME ClockAssumption == MaxClock \in Nat
ASSUME ProviderAssumption == Providers \subseteq {"claude", "codex", "grok"}
ASSUME FieldAssumption == (Windows \union RateLimits) \intersect {"tier", "credit"} = {}

Actors == Requests \union Refreshers
Fields == Windows \union RateLimits \union {"tier", "credit"}
Unknown == [f \in Fields |-> 0]

VARIABLES
    provider,           \* the account's
    clock,              \* counts the provider's reports
    quota, checked, failed, \* the row: quota_json, quota_checked_at, quota_error
    pc,                 \* where an actor is: idle, asked, answered
    held,               \* its account.Quota, then what it will store
    time,               \* its checkedAt
    behind,             \* history: actors under way since before the last store
    latest,             \* history: the newest report stored so far, by field
    raced,              \* history: has an actor stored while behind?
    blank               \* history: Codex answers with nothing in them were taken in

rowVars == <<quota, checked, failed>>
localVars == <<pc, held, time>>
historyVars == <<behind, latest, raced>>
vars == <<provider, clock, rowVars, localVars, historyVars, blank>>

Larger(a, b) == IF a > b THEN a ELSE b

-----------------------------------------------------------------------------
(* Mutant of MergeHeaders: the windows the response does not mention go. *)
MergeOver(q, seen, t) ==
    [f \in Fields |-> IF f \in seen THEN t
                      ELSE IF f \in Windows /\ seen \intersect Windows # {} THEN 0
                      ELSE q[f]]

(* quotaFromResponseHeaders and mergeQuotaWindows: a field is replaced when
   the headers have it, windows one by one by their name.                    *)
MergeHeaders(q, seen, t) == [f \in Fields |-> IF f \in seen THEN t ELSE q[f]]

(* normalizeClaudeUsage, normalizeCodexUsage, normalizeGrokBilling: the list
   of windows is replaced as a whole, the others when the body has them.     *)
MergeBody(q, seen, t) ==
    LET reported == IF seen \intersect Windows = {} THEN seen ELSE seen \union Windows
    IN  [f \in Fields |-> IF f \in reported THEN t ELSE q[f]]

(* quotaWithGrokTier: the profile's tier counts when no other is known *)
WithTier(q, t) == [q EXCEPT !["tier"] = IF @ = 0 THEN t ELSE @]

(* What a body of each provider may hold, and must hold to be recognized. *)
ClaudeBody(seen) == seen \subseteq Windows \union {"credit"} /\ seen \intersect Windows # {}

(* bare: the body has a credits object without a usable balance *)
CodexBody(seen, bare) == IF bare THEN "credit" \notin seen ELSE seen \ {"tier"} # {}

(* the one window of the billing period *)
GrokBody(seen) == seen # {} /\ \A v, w \in seen \intersect Windows : v = w

Recognized(seen, bare) ==
    \/ provider = "claude" /\ ~bare /\ ClaudeBody(seen)
    \/ provider = "codex" /\ CodexBody(seen, bare)
    \/ provider = "grok" /\ ~bare /\ GrokBody(seen)

Begin(a) ==
    /\ pc[a] = "idle"
    /\ pc' = [pc EXCEPT ![a] = "asked"]
    /\ held' = [held EXCEPT ![a] = quota]
    /\ behind' = behind \ {a}

(* ResolveAPIKey: the row is read, the request goes to the provider *)
Resolve(r) ==
    /\ Begin(r)
    /\ UNCHANGED <<provider, clock, rowVars, time, latest, raced, blank>>

(* refreshClaudeQuota and its like: checkedAt is taken before the call *)
BeginRefresh(a) ==
    /\ Begin(a)
    /\ time' = [time EXCEPT ![a] = clock]
    /\ UNCHANGED <<provider, clock, rowVars, latest, raced, blank>>

(* The handler is through; its locals are gone. *)
End(a) ==
    /\ pc' = [pc EXCEPT ![a] = "idle"]
    /\ held' = [held EXCEPT ![a] = Unknown]
    /\ time' = [time EXCEPT ![a] = 0]

(* The response of a proxied request: its rate limit headers are merged,
   and nothing is stored if there are none.                                  *)
Headers(r, seen) ==
    /\ pc[r] = "asked" /\ clock < MaxClock
    /\ clock' = clock + 1
    /\ IF seen = {}
       THEN End(r)
       ELSE /\ pc' = [pc EXCEPT ![r] = "answered"]
            /\ held' = [held EXCEPT ![r] = MergeHeaders(@, seen, clock + 1)]
            /\ time' = [time EXCEPT ![r] = clock + 1]
    /\ UNCHANGED <<provider, rowVars, historyVars, blank>>

(* The body of a usage refresh, after a retry with new credentials if need
   be; profile: the tier of a Grok user profile fetched on the way.          *)
Body(a, seen, bare, profile) ==
    /\ pc[a] = "asked" /\ clock < MaxClock
    /\ Recognized(seen, bare)
    /\ profile => provider = "grok"
    /\ clock' = clock + 1
    /\ pc' = [pc EXCEPT ![a] = "answered"]
    /\ held' = [held EXCEPT ![a] = LET q == MergeBody(@, seen, clock + 1)
                                   IN  IF profile THEN WithTier(q, clock + 1) ELSE q]
    /\ blank' = (blank \/ seen = {})
    /\ UNCHANGED <<provider, rowVars, time, historyVars>>

(* UpdateSubscriptionQuota: one UPDATE of the three columns *)
Store(a) ==
    /\ pc[a] = "answered"
    /\ quota' = held[a]
    /\ checked' = time[a]
    /\ failed' = FALSE
    /\ End(a)
    /\ latest' = [f \in Fields |-> Larger(latest[f], held[a][f])]
    /\ raced' = (raced \/ a \in behind)
    /\ behind' = {b \in Actors : b # a /\ pc[b] # "idle"}
    /\ UNCHANGED <<provider, clock, blank>>

(* The provider cannot be reached, or the client is gone before the store. *)
GiveUp(a) ==
    /\ pc[a] # "idle"
    /\ End(a)
    /\ UNCHANGED <<provider, clock, rowVars, historyVars, blank>>

(* Mutant of StoreQuotaError: the failed check counts as a check. *)
StoreErrorAsCheck(a) ==
    /\ pc[a] = "asked"
    /\ failed' = TRUE
    /\ checked' = clock
    /\ End(a)
    /\ UNCHANGED <<provider, clock, quota, historyVars, blank>>

(* storeQuotaError: no credentials, no answer, another status than 2xx, or a
   body that is not recognized; only the error is written                    *)
StoreQuotaError(a) ==
    /\ pc[a] = "asked"
    /\ failed' = TRUE
    /\ End(a)
    /\ UNCHANGED <<provider, clock, quota, checked, historyVars, blank>>

-----------------------------------------------------------------------------
Init ==
    /\ provider \in Providers
    /\ clock = 0
    /\ quota = Unknown /\ checked = 0 /\ failed = FALSE
    /\ pc = [a \in Actors |-> "idle"]
    /\ held = [a \in Actors |-> Unknown]
    /\ time = [a \in Actors |-> 0]
    /\ behind = {} /\ latest = Unknown /\ raced = FALSE /\ blank = FALSE

RequestStep(r) ==
    \/ Resolve(r)
    \/ \E seen \in SUBSET (Windows \union RateLimits) : Headers(r, seen)

RefreshStep(a) ==
    \/ BeginRefresh(a)
    \/ \E seen \in SUBSET (Fields \ RateLimits), bare, profile \in BOOLEAN :
          Body(a, seen, bare, profile)
    \/ StoreQuotaError(a)

Next ==
    \/ \E r \in Requests : RequestStep(r)
    \/ \E a \in Refreshers : RefreshStep(a)
    \/ \E a \in Actors : Store(a) \/ GiveUp(a)

Spec == Init /\ [][Next]_vars

-----------------------------------------------------------------------------
Times == 0..clock

(* Types of the row and of the goroutines' locals: no time of a report and
   no quota_checked_at lies in the future.                                   *)
TypeOK ==
    /\ provider \in Providers
    /\ clock \in 0..MaxClock
    /\ quota \in [Fields -> Times] /\ checked \in Times /\ failed \in BOOLEAN
    /\ pc \in [Actors -> {"idle", "asked", "answered"}]
    /\ held \in [Actors -> [Fields -> Times]]
    /\ time \in [Actors -> Times]
    /\ behind \subseteq Actors /\ latest \in [Fields -> Times]
    /\ raced \in BOOLEAN /\ blank \in BOOLEAN

(* docs/database.md:120: quota_json is the most recent quota data.  Of every
   field the row has the newest report that any write has stored.            *)
LatestKept == quota = latest

(* Reports are lost only by a write whose quota was read before another
   write: without that, merging keeps the newest report of every field.      *)
LatestUnlessRaced == raced \/ LatestKept

(* What subscriptionUsageResponse calls fresh is so: quota_checked_at is not
   later than the newest report in the row, however writes and failed
   refreshes interleave, unless a Codex answer without content was stored.   *)
NeverClaimsFresher == blank \/ \E f \in Fields : quota[f] >= checked

=============================================================================
