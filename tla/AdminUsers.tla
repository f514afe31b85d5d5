----------------------------- MODULE AdminUsers -----------------------------
(***************************************************************************)
(* User administration (src/internal/server/users.go and the users part of *)
(* src/internal/repository/repository.go).  Every handler runs several SQL *)
(* statements without a transaction: requireAdmin reads the acting user,   *)
(* GetUser reads the target, ensureRemainingAdmin counts the other enabled *)
(* admins, and only then the row is written.  Handlers interleave between  *)
(* any two statements; a restart drops them all and bootstraps.            *)
(***************************************************************************)
EXTENDS Naturals, FiniteSets

CONSTANTS
    Users,      \* user ids
    Root,       \* the id BootstrapAdmin creates
    Handlers,   \* concurrent admin requests
    MaxOps      \* bound: number of requests served

ASSUME RootAssumption == Root \in Users
ASSUME OpsAssumption == MaxOps \in Nat

Roles == {"admin", "user"}
NoUser == [role |-> "none", enabled |-> FALSE]
Records == [role : Roles, enabled : BOOLEAN]

(* what the request asks for: delete the target, or set role and enabled *)
DeleteOp == [kind |-> "delete", to |-> NoUser]
UpdateOps == [kind : {"update"}, to : Records]

VARIABLES
    users,     \* the users table
    stage,     \* where a handler is
    target,    \* the user it works on
    op,        \* what it does
    ops,       \* requests served so far
    overlapped \* history: were two handlers ever between read and write together?

userVars == <<users, stage, target, op, ops, overlapped>>

EnabledAdmins == {u \in Users : users[u] = [role |-> "admin", enabled |-> TRUE]}

Busy == {h \in Handlers : stage[h] \in {"count", "write"}}

(* does the change take an admin away? (the condition before the count) *)
Removes(o, record) ==
    record.role = "admin" /\ (o.kind = "delete" \/ o.to.role # "admin" \/ ~o.to.enabled)

-----------------------------------------------------------------------------
(* requireAdmin and requireRole, then the handler's own checks: nobody
   deletes himself, though he may demote or disable himself.                 *)
Authorize(h, actor, t, o) ==
    /\ stage[h] = "idle"
    /\ ops < MaxOps
    /\ actor \in EnabledAdmins
    /\ ~(o.kind = "delete" /\ t = actor)
    /\ target' = [target EXCEPT ![h] = t]
    /\ op' = [op EXCEPT ![h] = o]
    /\ ops' = ops + 1
    /\ stage' = [stage EXCEPT ![h] = "read"]
    /\ UNCHANGED <<users, overlapped>>

(* createUser: one INSERT, the user is enabled *)
CreateUser(actor, t, role) ==
    /\ ops < MaxOps
    /\ actor \in EnabledAdmins
    /\ users[t] = NoUser
    /\ users' = [users EXCEPT ![t] = [role |-> role, enabled |-> TRUE]]
    /\ ops' = ops + 1
    /\ UNCHANGED <<stage, target, op, overlapped>>

ReadTarget(h) ==
    /\ stage[h] = "read"
    /\ LET record == users[target[h]]
           next == IF record = NoUser THEN "idle"      \* 404
                   ELSE IF Removes(op[h], record) THEN "count" ELSE "write"
       IN  /\ stage' = [stage EXCEPT ![h] = next]
           /\ overlapped' = (overlapped \/ (next # "idle" /\ Busy # {}))
    /\ UNCHANGED <<users, target, op, ops>>

(* Mutant of CountAdmins: the target itself is counted. *)
CountAllAdmins(h) ==
    /\ stage[h] = "count"
    /\ stage' = [stage EXCEPT ![h] = IF EnabledAdmins = {} THEN "idle" ELSE "write"]
    /\ UNCHANGED <<users, target, op, ops, overlapped>>

(* ensureRemainingAdmin *)
CountAdmins(h) ==
    /\ stage[h] = "count"
    /\ stage' = [stage EXCEPT ![h] = IF EnabledAdmins \ {target[h]} = {}
                               THEN "idle"             \* 409 last_admin
                               ELSE "write"]
    /\ UNCHANGED <<users, target, op, ops, overlapped>>

(* UPDATE or DELETE ... WHERE id = ?, which affects no row that is gone *)
Write(h) ==
    /\ stage[h] = "write"
    /\ users' = [users EXCEPT ![target[h]] = IF @ = NoUser THEN @ ELSE op[h].to]
    /\ stage' = [stage EXCEPT ![h] = "idle"]
    /\ UNCHANGED <<target, op, ops, overlapped>>

(* The process dies between any two statements; BootstrapAdmin at start-up
   creates the configured admin only if the table is empty.                  *)
RestartServer ==
    /\ stage' = [h \in Handlers |-> "idle"]
    /\ users' = IF \A u \in Users : users[u] = NoUser
                THEN [users EXCEPT ![Root] = [role |-> "admin", enabled |-> TRUE]]
                ELSE users
    /\ UNCHANGED <<target, op, ops, overlapped>>

-----------------------------------------------------------------------------
(* any table the program leaves behind with an admin in it *)
UsersInit ==
    /\ users \in [Users -> Records \union {NoUser}]
    /\ EnabledAdmins # {}
    /\ stage = [h \in Handlers |-> "idle"]
    /\ target = [h \in Handlers |-> Root]
    /\ op = [h \in Handlers |-> DeleteOp]
    /\ ops = 0
    /\ overlapped = FALSE

UsersNext ==
    \/ \E h \in Handlers, a, t \in Users, o \in UpdateOps \union {DeleteOp} :
          Authorize(h, a, t, o)
    \/ \E a, t \in Users, role \in Roles : CreateUser(a, t, role)
    \/ \E h \in Handlers : ReadTarget(h) \/ CountAdmins(h) \/ Write(h)
    \/ RestartServer

UsersSpec == UsersInit /\ [][UsersNext]_userVars

-----------------------------------------------------------------------------
UsersTypeOK ==
    /\ users \in [Users -> Records \union {NoUser}]
    /\ stage \in [Handlers -> {"idle", "read", "count", "write"}]
    /\ target \in [Handlers -> Users]
    /\ op \in [Handlers -> UpdateOps \union {DeleteOp}]
    /\ ops \in 0..MaxOps
    /\ overlapped \in BOOLEAN

(* docs/api.md:283 and 289, ErrLastAdmin: the last enabled admin can be
   neither demoted, nor disabled, nor deleted.                               *)
SomeAdminRemains == EnabledAdmins # {}

(* The check is sound as long as no two changes are between their read and
   their write at the same time: what the missing transaction would give.    *)
SafeUnlessOverlapped == overlapped \/ SomeAdminRemains

=============================================================================
