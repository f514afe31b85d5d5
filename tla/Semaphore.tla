----------------------------- MODULE Semaphore -----------------------------
(***************************************************************************)
(* What the concurrency limiter promises its callers: each account has a   *)
(* counting semaphore.  An account whose settings have been left alone     *)
(* admits as many holders as its limit; once an admin has touched them the *)
(* limiter may be made anew beside its former holders and the number is no *)
(* longer promised, but holders still come and go one by one.              *)
(***************************************************************************)
EXTENDS Naturals

CONSTANTS Accounts, Requests, Limits

VARIABLES
    holding,   \* the requests that hold a slot of each account
    taken,     \* how many they are
    settings,  \* every limit an account has had
    rebuilt    \* how often its limiter was dropped

slotVars == <<holding, taken, settings, rebuilt>>

Room(a) ==
    \A l \in Limits :
        settings[a] = {l} /\ rebuilt[a] = 0 => taken[a] < l

Enter(a, r) ==
    /\ \A b \in Accounts : r \notin holding[b]
    /\ Room(a)
    /\ holding' = [holding EXCEPT ![a] = @ \union {r}]
    /\ taken' = [taken EXCEPT ![a] = @ + 1]
    /\ UNCHANGED <<settings, rebuilt>>

Leave(a, r) ==
    /\ r \in holding[a]
    /\ holding' = [holding EXCEPT ![a] = @ \ {r}]
    /\ taken' = [taken EXCEPT ![a] = @ - 1]
    /\ UNCHANGED <<settings, rebuilt>>

Touch(a) ==
    /\ \E S \in SUBSET Limits, n \in {rebuilt[a], rebuilt[a] + 1} :
          /\ settings[a] \subseteq S
          /\ settings' = [settings EXCEPT ![a] = S]
          /\ rebuilt' = [rebuilt EXCEPT ![a] = n]
    /\ UNCHANGED <<holding, taken>>

Init ==
    /\ holding = [a \in Accounts |-> {}]
    /\ taken = [a \in Accounts |-> 0]
    /\ \E limit \in [Accounts -> Limits] : settings = [a \in Accounts |-> {limit[a]}]
    /\ rebuilt = [a \in Accounts |-> 0]

Next == \E a \in Accounts : Touch(a) \/ \E r \in Requests : Enter(a, r) \/ Leave(a, r)

Spec == Init /\ [][Next]_slotVars
=============================================================================
