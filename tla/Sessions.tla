------------------------------ MODULE Sessions ------------------------------
(***************************************************************************)
(* Refresh tokens of one account: register, login, refresh, logout, and    *)
(* the account changes that race with them (role, soft delete, restore).   *)
(* rotateRefreshToken is the one transaction: its SELECT ... FOR UPDATE    *)
(* joins users, so it locks the token's row and then the account's row.    *)
(* Everything else is a series of statements that commit by themselves.    *)
(*                                                                         *)
(* A request runs once.  Any token whose request was answered may be       *)
(* presented again at any time: by a second tab, by a client that lost the *)
(* answer, or by somebody who copied it.                                   *)
(***************************************************************************)
EXTENDS Integers, Sequences, FiniteSets, SequencesExt

CONSTANTS
  Request,   \* HTTP requests about the account
  Expiries,  \* bound: tokens whose expires_at passes
  Faults     \* bound: statements that throw inside a transaction or a logout

ASSUME SessionsAssumption == Expiries \in Nat /\ Faults \in Nat

VARIABLES
  account,   \* the users row
  tokens,    \* the refresh_tokens rows, in the order of their ids
  audit,     \* the role_change rows of audit_log
  req,       \* req[r]: where request r is and what it has read
  expiries,  \* bound: expiries so far
  faults,    \* bound: throws so far
  shut,      \* history: families revoked by a reuse, a logout or an expiry
  roles      \* history: roles the account had since r began

table        == <<account, tokens, audit>>
sessionsVars == <<account, tokens, audit, req, expiries, faults, shut, roles>>

Role  == {"user", "admin"}
Ids   == 1 .. Len(tokens)
Users == 0  \* the account's row, among the row locks; tokens are their ids

\* A request on its way: where it is, the token it presented, the role it read.
Begun(pc, token, role) ==
  [pc |-> pc, token |-> token, role |-> role, scanned |-> 0, fit |-> FALSE,
   used |-> FALSE, late |-> FALSE]

Fresh == Begun("fresh", 0, "user")

Live(i) == ~tokens[i].rotated /\ ~tokens[i].revoked

Family(f) == {i \in Ids : tokens[i].family = f}

Token(family, role) == [family |-> family, role |-> role, rotated |-> FALSE,
                        revoked |-> FALSE, expired |-> FALSE]

Revoke(rows) ==
  tokens' = [i \in Ids |-> [tokens[i] EXCEPT !.revoked = @ \/ i \in rows]]

SessionsTypeOK ==
  /\ account \in [state : {"absent", "active", "deleted"}, password : BOOLEAN,
                  role : Role]
  /\ tokens \in Seq([family : Ids, role : Role, rotated : BOOLEAN,
                     revoked : BOOLEAN, expired : BOOLEAN])
  /\ audit \in Seq([by : Request, before : Role, after : Role])
  /\ req \in [Request -> [pc : {"fresh", "reread", "created", "insert",
                                "lockToken", "lockUser", "tx", "logout",
                                "setRole", "audit", "closed"},
                          token : 0 .. Len(tokens), role : Role,
                          scanned : 0 .. Len(tokens), fit : BOOLEAN,
                          used : BOOLEAN, late : BOOLEAN]]
  /\ shut \subseteq Ids
  /\ roles \in [Request -> SUBSET Role]

SessionsInit ==
  /\ account \in [state : {"absent"}, password : {FALSE}, role : {"user"}]
       \union [state : {"active"}, password : {TRUE}, role : {"user"}]
  /\ tokens = << >>
  /\ audit = << >>
  /\ req = [r \in Request |-> Fresh]
  /\ expiries = 0 /\ faults = 0
  /\ shut = {}
  /\ roles = [r \in Request |-> {}]

-----------------------------------------------------------------------------
(* Row locks of InnoDB.                                                     *)

\* Injected bug: SELECT without FOR UPDATE.
HoldsUnlocked(r) == IF req[r].pc = "logout" THEN 1 .. req[r].scanned ELSE {}

Holds(r) ==
  CASE req[r].pc = "lockUser" -> {req[r].token}
    [] req[r].pc = "tx"       -> {Users, req[r].token}
    [] req[r].pc = "logout"   -> 1 .. req[r].scanned
    [] OTHER                  -> {}

Wants(r) ==
  CASE req[r].pc = "lockToken" -> {req[r].token}
    [] req[r].pc \in {"lockUser", "insert", "setRole"} -> {Users}
    [] req[r].pc = "tx" /\ req[r].fit /\ req[r].used ->
         Family(tokens[req[r].token].family)
    [] req[r].pc = "logout"    -> {req[r].scanned + 1} \cap Ids
    [] OTHER                   -> {}

Blocks(q, r)     == q # r /\ Wants(r) \cap Holds(q) # {}
Unlocked(r)      == \A q \in Request : ~Blocks(q, r)
UsersUnlocked(r) == \A q \in Request \ {r} : Users \notin Holds(q)

\* The wait-for cycles the server breaks by rolling a member back.
Deadlocked(r) ==
  \E ring \in SUBSET Request :
    /\ r \in ring
    /\ \A q \in ring : /\ \E p \in ring : Blocks(p, q)
                       /\ \E p \in ring : Blocks(q, p)

-----------------------------------------------------------------------------
(* Requests.                                                                *)

At(r, pc) == req[r].pc = pc
Goto(r, pc) == req' = [req EXCEPT ![r].pc = pc] /\ UNCHANGED roles

Closed == Begun("closed", 0, "user")

\* Request r starts: what it read first, and the role it may have seen.
Start(r, first) ==
  /\ At(r, "fresh")
  /\ req' = [req EXCEPT ![r] = first]
  /\ roles' = [roles EXCEPT ![r] = IF first = Closed THEN {} ELSE {account.role}]

\* Request r is answered.
Close(r) ==
  /\ req' = [req EXCEPT ![r] = Closed]
  /\ roles' = [roles EXCEPT ![r] = {}]

History == UNCHANGED <<expiries, faults>>

\* The e-mail is unique, also against a soft-deleted account's.
InsertUser(password) ==
  /\ account.state = "absent"
  /\ account' = [state |-> "active", password |-> password, role |-> "user"]

\* register, and create by an admin, without a password; a duplicate is a 409.
Register(r, password) ==
  /\ \/ /\ InsertUser(password)
        /\ Start(r, Begun(IF password THEN "reread" ELSE "created", 0, "user"))
     \/ account.state # "absent" /\ Start(r, Closed) /\ UNCHANGED account
  /\ History /\ UNCHANGED <<tokens, audit, shut>>

\* findByEmail and findById leave a deleted account out.
Visible == account.state = "active"

\* Both read the row back; register goes on to issue tokens.
Reread(r) ==
  /\ req[r].pc \in {"reread", "created"}
  /\ IF At(r, "reread") /\ Visible
       THEN /\ req' = [req EXCEPT ![r] = Begun("insert", 0, account.role)]
            /\ UNCHANGED roles
       ELSE Close(r)
  /\ History /\ UNCHANGED <<table, shut>>

Login(r) ==
  /\ Start(r, IF Visible /\ account.password
                THEN Begun("insert", 0, account.role)
                ELSE Closed)
  /\ History /\ UNCHANGED <<table, shut>>

\* saveRefreshToken; the foreign key takes a shared lock on the account.
SaveToken(r) ==
  /\ At(r, "insert") /\ Unlocked(r)
  /\ tokens' = Append(tokens, Token(Len(tokens) + 1, req[r].role))
  /\ Close(r)
  /\ History /\ UNCHANGED <<account, audit, shut>>

\* verifyToken: the signature holds, exp may have passed.
Verified(t) == ~tokens[t].expired

\* findRefreshToken joins the account; a rotated or revoked token is found too.
Found(t) == t \in Ids /\ account.state = "active"

\* Injected bug: the role is taken from the claims of the presented token.
FindTokenByClaims(r, t) ==
  /\ Start(r, IF Verified(t) /\ Found(t)
                THEN Begun("lockToken", t, tokens[t].role)
                ELSE Closed)
  /\ History /\ UNCHANGED <<table, shut>>

\* refresh: the next pair is signed with the role found here.
FindToken(r, t) ==
  /\ Start(r, IF Verified(t) /\ Found(t)
                THEN Begun("lockToken", t, account.role)
                ELSE Closed)
  /\ History /\ UNCHANGED <<table, shut>>

LockToken(r) ==
  /\ At(r, "lockToken") /\ Unlocked(r)
  /\ Goto(r, "lockUser")
  /\ History /\ UNCHANGED <<table, shut>>

\* The row the transaction then decides on.
LockUser(r) ==
  /\ At(r, "lockUser") /\ Unlocked(r)
  /\ LET token == tokens[req[r].token] IN
     req' = [req EXCEPT ![r] = [pc |-> "tx", token |-> @.token, role |-> @.role,
               scanned |-> 0, fit |-> account.state = "active",
               used |-> token.rotated \/ token.revoked, late |-> token.expired]]
  /\ History /\ UNCHANGED <<table, shut, roles>>

NotFound(r) ==
  /\ At(r, "tx") /\ ~req[r].fit
  /\ Close(r)
  /\ History /\ UNCHANGED <<table, shut>>

\* A token already rotated or revoked: the whole family is revoked.
RevokeFamily(r) ==
  LET family == tokens[req[r].token].family IN
  /\ At(r, "tx") /\ req[r].fit /\ req[r].used /\ Unlocked(r)
  /\ Revoke(Family(family))
  /\ shut' = shut \union {family}
  /\ Close(r)
  /\ History /\ UNCHANGED <<account, audit>>

RefuseExpired(r) ==
  /\ At(r, "tx") /\ req[r].fit /\ ~req[r].used /\ req[r].late
  /\ Revoke({req[r].token})
  /\ shut' = shut \union {tokens[req[r].token].family}
  /\ Close(r)
  /\ History /\ UNCHANGED <<account, audit>>

\* Two statements of one transaction: rotated_at, and the next token's row.
Rotation(t, role) ==
  tokens' = Append([tokens EXCEPT ![t].rotated = TRUE],
                   Token(tokens[t].family, role))

Rotate(r) ==
  /\ At(r, "tx") /\ req[r].fit /\ ~req[r].used /\ ~req[r].late
  /\ Rotation(req[r].token, req[r].role)
  /\ Close(r)
  /\ History /\ UNCHANGED <<account, audit, shut>>

\* logout: an access token is enough, also that of a deleted account.
Logout(r) ==
  /\ tokens # << >>
  /\ Start(r, Begun("logout", 0, "user"))
  /\ History /\ UNCHANGED <<table, shut>>

\* The UPDATE walks the user's index and locks every row it passes.
ScanToken(r) ==
  /\ At(r, "logout") /\ req[r].scanned < Len(tokens) /\ Unlocked(r)
  /\ req' = [req EXCEPT ![r].scanned = @ + 1]
  /\ History /\ UNCHANGED <<table, shut, roles>>

RevokeAll(r) ==
  /\ At(r, "logout") /\ req[r].scanned = Len(tokens)
  /\ Revoke(Ids)
  /\ shut' = shut \union {tokens[i].family : i \in Ids}
  /\ Close(r)
  /\ History /\ UNCHANGED <<account, audit>>

-----------------------------------------------------------------------------
(* Changes of the account.                                                  *)

\* updateRole: SELECT, UPDATE ... WHERE deleted_at IS NULL, INSERT audit_log;
\* the rows the UPDATE affected are not looked at.
ReadRole(r) ==
  /\ Start(r, IF account.state = "active"
                THEN Begun("setRole", 0, account.role)
                ELSE Closed)
  /\ History /\ UNCHANGED <<table, shut>>

NewRole(r) == CHOOSE role \in Role : role # req[r].role

SetRole(r) ==
  /\ At(r, "setRole") /\ Unlocked(r)
  /\ IF account.state = "active"
       THEN /\ account' = [account EXCEPT !.role = NewRole(r)]
            /\ roles' = [q \in Request |-> IF roles[q] = {} THEN {}
                                          ELSE roles[q] \union {NewRole(r)}]
       ELSE UNCHANGED <<account, roles>>
  /\ req' = [req EXCEPT ![r].pc = "audit"]
  /\ UNCHANGED <<tokens, audit, shut, expiries, faults>>

AppendAudit(r) ==
  /\ At(r, "audit")
  /\ audit' = Append(audit, [by |-> r, before |-> req[r].role,
                             after |-> NewRole(r)])
  /\ Close(r)
  /\ History /\ UNCHANGED <<account, tokens, shut>>

\* UPDATE users SET deleted_at ... WHERE deleted_at IS NULL, and its opposite; a
\* row that was not affected is a 404 and changes nothing.
MarkDeleted   == Visible /\ account' = [account EXCEPT !.state = "deleted"]
MarkUndeleted ==
  account.state = "deleted" /\ account' = [account EXCEPT !.state = "active"]

SoftDelete(r) ==
  /\ UsersUnlocked(r) /\ MarkDeleted
  /\ Start(r, Closed)
  /\ History /\ UNCHANGED <<tokens, audit, shut>>

RestoreUser(r) ==
  /\ UsersUnlocked(r) /\ MarkUndeleted
  /\ Start(r, Closed)
  /\ History /\ UNCHANGED <<tokens, audit, shut>>

-----------------------------------------------------------------------------
\* A deadlock victim, or a statement that throws: rollback, and a 500.
RollBack(r) ==
  /\ req[r].pc \in {"lockToken", "lockUser", "tx", "logout", "insert", "setRole",
                    "audit"}
  /\ \/ Deadlocked(r) /\ UNCHANGED faults
     \/ faults < Faults /\ faults' = faults + 1
  /\ Close(r)
  /\ UNCHANGED <<table, expiries, shut>>

Expire(t) ==
  /\ expiries < Expiries /\ ~tokens[t].expired
  /\ tokens' = [tokens EXCEPT ![t].expired = TRUE]
  /\ expiries' = expiries + 1
  /\ UNCHANGED <<account, audit, req, faults, shut, roles>>

\* What UsersController changes, besides create: name and avatar seed left out.
AccountRequest(r) ==
  \/ ReadRole(r) \/ SetRole(r) \/ AppendAudit(r)
  \/ SoftDelete(r) \/ RestoreUser(r)

AllClosed == (\A r \in Request : At(r, "closed")) /\ UNCHANGED sessionsVars

SessionsNext ==
  \/ \E r \in Request :
       \/ \E password \in BOOLEAN : Register(r, password)
       \/ Reread(r) \/ Login(r) \/ SaveToken(r)
       \/ \E t \in Ids : FindToken(r, t)
       \/ LockToken(r) \/ LockUser(r)
       \/ NotFound(r) \/ RevokeFamily(r) \/ RefuseExpired(r) \/ Rotate(r)
       \/ Logout(r) \/ ScanToken(r) \/ RevokeAll(r)
       \/ AccountRequest(r) \/ RollBack(r)
  \/ \E t \in Ids : Expire(t)
  \/ AllClosed

SessionsSpec == SessionsInit /\ [][SessionsNext]_sessionsVars

-----------------------------------------------------------------------------
(* Properties.                                                              *)

\* However refreshes, repeats, logins and logouts interleave, a family has one
\* token that can be rotated until a reuse, a logout or an expiry shuts it, and
\* then none, not even the one a rotation was about to insert: two would be two
\* sessions out of one login, none too early would lock the client out.
OneLiveToken ==
  \A f \in {tokens[i].family : i \in Ids} :
    Cardinality({i \in Family(f) : Live(i)}) = IF f \in shut THEN 0 ELSE 1

\* A token carries, and an audit row names as the role before, a role the
\* account really had while the request ran.
RoleWasInForce ==
  \A r \in Request : req[r].pc \in {"insert", "tx", "audit"} =>
                       req[r].role \in roles[r]

\* A refresh does not renew the session of a deleted account, also when the
\* account is deleted in the middle of it.
DeletedNotRefreshed ==
  [][(\E i \in Ids : tokens'[i].rotated # tokens[i].rotated) =>
        account.state = "active"]_sessionsVars

-----------------------------------------------------------------------------
(* The inductive invariant.  TLC checks it on a small instance,             *)
(* ServicesProofs proves it for every one.                                  *)

\* Two requests never hold the lock of one row.
LocksExclusive ==
  \A q, r \in Request : q # r => Holds(q) \cap Holds(r) = {}

\* A request that rotates or scans works on rows that there are, and what its
\* transaction read under its two locks is still true when it writes.
DecisionCurrent ==
  \A r \in Request :
    /\ req[r].pc \in {"lockToken", "lockUser", "tx"} => req[r].token \in Ids
    /\ req[r].pc = "tx" =>
         /\ req[r].used = ~Live(req[r].token)
         /\ req[r].fit => account.state = "active"

\* Each family that is not shut has one live token, a shut one has none.
Sound ==
  /\ \A i, j \in Ids :
       Live(i) /\ Live(j) /\ tokens[i].family = tokens[j].family => i = j
  /\ \A i \in Ids :
       tokens[i].family \notin shut <=> \E j \in Family(tokens[i].family) : Live(j)

\* While a request runs its history holds the role of now and the one it read.
RolesFollow ==
  /\ account.state = "absent" => account.role = "user"
  /\ \A r \in Request :
       /\ req[r].pc \notin {"fresh", "closed"} => account.role \in roles[r]
       /\ req[r].pc \in {"insert", "lockToken", "lockUser", "tx", "setRole", "audit"}
            => req[r].role \in roles[r]

SessionsInv ==
  SessionsTypeOK /\ LocksExclusive /\ DecisionCurrent /\ Sound /\ RolesFollow
=============================================================================
