--------------------------- MODULE ServicesProofs ---------------------------
(***************************************************************************)
(* Proofs about Sessions, MapCache, Media and RateLimit for every set of   *)
(* requests and every bound.  The four share no variable; each has a       *)
(* section, and the last section composes them as MCServices does.         *)
(***************************************************************************)
EXTENDS MCServices, SequenceTheorems, FiniteSetTheorems, TLAPS

-----------------------------------------------------------------------------

(* Sessions: the rows.                                                     *)

TokenRow == [family : Nat, role : Role, rotated : BOOLEAN, revoked : BOOLEAN,
             expired : BOOLEAN]

LEMMA TokenTypes ==
  ASSUME SessionsTypeOK
  PROVE  /\ tokens \in Seq(TokenRow) /\ Len(tokens) \in Nat
         /\ \A i \in Ids : /\ tokens[i] \in TokenRow /\ tokens[i].family \in Ids
                           /\ tokens[i].rotated \in BOOLEAN
                           /\ tokens[i].revoked \in BOOLEAN
                           /\ tokens[i].expired \in BOOLEAN
<1> DEFINE Narrow == [family : Ids, role : Role, rotated : BOOLEAN,
                      revoked : BOOLEAN, expired : BOOLEAN]
<1>1. tokens \in Seq(Narrow)
  BY DEF SessionsTypeOK
<1> HIDE DEF Narrow
<1>2. Len(tokens) \in Nat /\ \A i \in Ids : tokens[i] \in Narrow
  BY <1>1 DEF Ids
<1>3. Narrow \subseteq TokenRow
  BY <1>2 DEF TokenRow, Ids, Narrow
<1>4. tokens \in Seq(TokenRow)
  BY <1>1, <1>3, SeqMonotonic
<1> QED
  BY <1>2, <1>3, <1>4 DEF TokenRow, Narrow

\* The three ways in which the table of tokens changes.
LEMMA RevokedRows ==
  ASSUME SessionsTypeOK, NEW rows, Revoke(rows)
  PROVE  /\ tokens' \in Seq(TokenRow) /\ Ids' = Ids /\ Len(tokens') = Len(tokens)
         /\ \A i \in Ids : /\ tokens'[i].family = tokens[i].family
                           /\ tokens'[i].rotated = tokens[i].rotated
                           /\ Live(i)' <=> Live(i) /\ i \notin rows
<1> DEFINE row(i) == [tokens[i] EXCEPT !.revoked = @ \/ i \in rows]
<1>1. \A i \in Ids : /\ row(i) \in TokenRow
                     /\ row(i).family = tokens[i].family
                     /\ row(i).rotated = tokens[i].rotated
                     /\ row(i).revoked = (tokens[i].revoked \/ i \in rows)
  <2> SUFFICES ASSUME NEW i \in Ids
               PROVE  /\ row(i) \in TokenRow
                      /\ row(i).family = tokens[i].family
                      /\ row(i).rotated = tokens[i].rotated
                      /\ row(i).revoked = (tokens[i].revoked \/ i \in rows)
    OBVIOUS
  <2>1. tokens[i] \in TokenRow
    BY TokenTypes
  <2>2. row(i).revoked = (tokens[i].revoked \/ i \in rows)
    BY <2>1 DEF TokenRow
  <2>3. row(i).revoked \in BOOLEAN
    BY <2>2
  <2> QED
    BY <2>1, <2>2 DEF TokenRow
<1>2. tokens' = [i \in 1 .. Len(tokens) |-> row(i)]
  BY DEF Revoke, Ids
<1> HIDE DEF row
<1>3. /\ tokens' \in Seq(TokenRow) /\ Len(tokens') = Len(tokens)
      /\ \A i \in Ids : tokens'[i] = row(i)
  BY <1>1, <1>2, TokenTypes DEF Ids
<1> QED
  BY <1>1, <1>3 DEF Ids, Live

LEMMA AddedRow ==
  ASSUME NEW seq \in Seq(TokenRow), NEW family \in Nat, NEW role \in Role
  PROVE  LET new == Append(seq, Token(family, role)) IN
         /\ new \in Seq(TokenRow) /\ Len(new) = Len(seq) + 1
         /\ \A i \in 1 .. Len(seq) : new[i] = seq[i]
         /\ new[Len(seq) + 1] = Token(family, role)
<1>1. Token(family, role) \in TokenRow
  BY DEF Token, TokenRow
<1> QED
  BY <1>1

LEMMA RotatedRow ==
  ASSUME SessionsTypeOK, NEW t \in Ids, NEW role \in Role, Rotation(t, role)
  PROVE  /\ tokens' \in Seq(TokenRow) /\ Len(tokens') = Len(tokens) + 1
         /\ \A i \in Ids : i # t => tokens'[i] = tokens[i]
         /\ tokens'[t].family = tokens[t].family /\ tokens'[t].rotated = TRUE
         /\ tokens'[Len(tokens) + 1] = Token(tokens[t].family, role)
<1> DEFINE row == [tokens[t] EXCEPT !.rotated = TRUE]
           mid == [tokens EXCEPT ![t] = row]
<1>1. /\ row \in TokenRow /\ row.family = tokens[t].family /\ row.rotated = TRUE
      /\ tokens[t].family \in Nat
  <2>1. tokens[t] \in TokenRow
    BY TokenTypes
  <2> QED
    BY <2>1 DEF TokenRow
<1>2. tokens' = Append(mid, Token(tokens[t].family, role))
  BY DEF Rotation
<1> HIDE DEF row
<1>3. /\ mid \in Seq(TokenRow) /\ Len(mid) = Len(tokens) /\ mid[t] = row
      /\ \A i \in Ids : i # t => mid[i] = tokens[i]
  BY <1>1, TokenTypes DEF Ids
<1> HIDE DEF mid
<1>4. /\ tokens' \in Seq(TokenRow) /\ Len(tokens') = Len(mid) + 1
      /\ \A i \in 1 .. Len(mid) : tokens'[i] = mid[i]
      /\ tokens'[Len(mid) + 1] = Token(tokens[t].family, role)
  BY <1>1, <1>2, <1>3, AddedRow
<1> QED
  BY <1>1, <1>3, <1>4 DEF Ids

LEMMA ExpiredRow ==
  ASSUME SessionsTypeOK, NEW t \in Ids, Expire(t)
  PROVE  /\ tokens' \in Seq(TokenRow) /\ Len(tokens') = Len(tokens)
         /\ \A i \in Ids : /\ tokens'[i].family = tokens[i].family
                           /\ tokens'[i].rotated = tokens[i].rotated
                           /\ tokens'[i].revoked = tokens[i].revoked
<1> DEFINE row == [tokens[t] EXCEPT !.expired = TRUE]
<1>1. /\ row \in TokenRow /\ row.family = tokens[t].family
      /\ row.rotated = tokens[t].rotated /\ row.revoked = tokens[t].revoked
  <2>1. tokens[t] \in TokenRow
    BY TokenTypes
  <2> QED
    BY <2>1 DEF TokenRow
<1>2. tokens' = [tokens EXCEPT ![t] = row]
  BY DEF Expire
<1> HIDE DEF row
<1> QED
  BY <1>1, <1>2, TokenTypes DEF Ids

-----------------------------------------------------------------------------
(* Sessions: the requests.                                                 *)

RequestRow == [pc : {"fresh", "reread", "created", "insert", "lockToken",
                     "lockUser", "tx", "logout", "setRole", "audit", "closed"},
               token : Nat, role : Role, scanned : Nat, fit : BOOLEAN,
               used : BOOLEAN, late : BOOLEAN]

\* What a request does, by itself or rolled back.
RequestStep(r) ==
  \/ \E password \in BOOLEAN : Register(r, password)
  \/ Reread(r) \/ Login(r) \/ SaveToken(r)
  \/ \E t \in Ids : FindToken(r, t)
  \/ LockToken(r) \/ LockUser(r)
  \/ NotFound(r) \/ RevokeFamily(r) \/ RefuseExpired(r) \/ Rotate(r)
  \/ Logout(r) \/ ScanToken(r) \/ RevokeAll(r)
  \/ AccountRequest(r) \/ RollBack(r)

LEMMA RequestTypes ==
  ASSUME SessionsTypeOK
  PROVE  /\ req \in [Request -> RequestRow]
         /\ \A r \in Request : /\ req[r] \in RequestRow
                               /\ req[r].token \in 0 .. Len(tokens)
                               /\ req[r].scanned \in 0 .. Len(tokens)
<1>1. Len(tokens) \in Nat
  BY TokenTypes
<1>2. \A r \in Request : /\ req[r] \in RequestRow
                         /\ req[r].token \in 0 .. Len(tokens)
                         /\ req[r].scanned \in 0 .. Len(tokens)
  BY <1>1 DEF SessionsTypeOK, RequestRow
<1> QED
  BY <1>2 DEF SessionsTypeOK

LEMMA Started ==
  ASSUME SessionsTypeOK, NEW r \in Request, NEW first, Start(r, first)
  PROVE  /\ req[r].pc = "fresh" /\ req'[r] = first
         /\ \A q \in Request : q # r => req'[q] = req[q] /\ roles'[q] = roles[q]
         /\ roles'[r] = IF first = Closed THEN {} ELSE {account.role}
BY DEF Start, At, SessionsTypeOK

LEMMA Ended ==
  ASSUME SessionsTypeOK, NEW r \in Request, Close(r)
  PROVE  /\ req'[r] = Closed /\ roles'[r] = {}
         /\ \A q \in Request : q # r => req'[q] = req[q] /\ roles'[q] = roles[q]
BY DEF Close, SessionsTypeOK

\* The rows of requests that the actions write.
LEMMA BegunRow ==
  ASSUME NEW pc, NEW token \in Nat, NEW role \in Role,
         pc \in {"fresh", "reread", "created", "insert", "lockToken", "logout",
                "setRole", "closed"}
  PROVE  LET row == Begun(pc, token, role) IN
         /\ row \in RequestRow /\ row.pc = pc /\ row.token = token
         /\ row.role = role /\ row.scanned = 0
BY DEF Begun, RequestRow

LEMMA Rows ==
  /\ Fresh \in RequestRow /\ Closed \in RequestRow
  /\ Closed.pc = "closed" /\ Closed.token = 0 /\ Closed.scanned = 0
  /\ Fresh.token = 0 /\ Fresh.scanned = 0
BY DEF Begun, Fresh, Closed, RequestRow, Role

\* Which requests a step moves, and what locks it takes.
LEMMA OneMoves ==
  ASSUME SessionsTypeOK, NEW r \in Request, RequestStep(r)
  PROVE  \E row : req' = [req EXCEPT ![r] = row]
<1>1. ASSUME NEW first, Start(r, first)
      PROVE  \E row : req' = [req EXCEPT ![r] = row]
  BY <1>1 DEF Start
<1>2. ASSUME Close(r) PROVE \E row : req' = [req EXCEPT ![r] = row]
  BY <1>2 DEF Close
<1>3. ASSUME NEW pc, Goto(r, pc)
      PROVE  \E row : req' = [req EXCEPT ![r] = row]
  BY <1>3 DEF Goto
<1>4. CASE \/ \E password \in BOOLEAN : Register(r, password)
           \/ Login(r) \/ \E t \in Ids : FindToken(r, t)
           \/ Logout(r) \/ ReadRole(r) \/ SoftDelete(r) \/ RestoreUser(r)
  BY <1>1, <1>4 DEF Register, Login, FindToken, Logout, ReadRole, SoftDelete,
     RestoreUser
<1>5. CASE \/ SaveToken(r) \/ NotFound(r) \/ RevokeFamily(r) \/ RefuseExpired(r)
           \/ Rotate(r) \/ RevokeAll(r) \/ AppendAudit(r) \/ RollBack(r)
  BY <1>2, <1>5 DEF SaveToken, NotFound, RevokeFamily, RefuseExpired, Rotate,
     RevokeAll, AppendAudit, RollBack
<1>6. CASE LockToken(r)
  BY <1>3, <1>6 DEF LockToken
<1>7. CASE Reread(r)
  BY <1>2, <1>7 DEF Reread
<1>8. CASE LockUser(r)
  <2> DEFINE row == [pc |-> "tx", token |-> req[r].token, role |-> req[r].role,
                     scanned |-> 0, fit |-> account.state = "active",
                     used |-> \/ tokens[req[r].token].rotated
                              \/ tokens[req[r].token].revoked,
                     late |-> tokens[req[r].token].expired]
  <2>1. req' = [req EXCEPT ![r] = row]
    BY <1>8 DEF LockUser
  <2> HIDE DEF row
  <2> QED
    BY <2>1
<1>9. CASE ScanToken(r)
  BY <1>9 DEF ScanToken
<1>10. CASE SetRole(r)
  BY <1>10 DEF SetRole
<1> QED
  BY <1>4, <1>5, <1>6, <1>7, <1>8, <1>9, <1>10
     DEF RequestStep, AccountRequest

LEMMA OthersStay ==
  ASSUME SessionsTypeOK, NEW r \in Request, RequestStep(r)
  PROVE  /\ \A q \in Request : q # r => req'[q] = req[q]
         /\ req'[r] \in RequestRow => req' \in [Request -> RequestRow]
BY OneMoves, RequestTypes

\* The rows of r that two locking steps leave.
LEMMA LockedRows ==
  ASSUME SessionsTypeOK, NEW r \in Request
  PROVE  /\ LockToken(r) =>
              /\ req'[r].pc = "lockUser" /\ req'[r].token = req[r].token
              /\ req'[r].role = req[r].role /\ req'[r].scanned = req[r].scanned
              /\ req'[r] \in RequestRow
         /\ LockUser(r) =>
              /\ req'[r].pc = "tx" /\ req'[r].token = req[r].token
              /\ req'[r].role = req[r].role
              /\ req'[r].fit = (account.state = "active")
              /\ req[r].token \in Ids =>
                   req'[r] \in RequestRow /\ req'[r].used = ~Live(req[r].token)
              /\ req'[r].scanned = 0
         /\ ScanToken(r) =>
              /\ req'[r].pc = "logout" /\ req'[r].scanned = req[r].scanned + 1
              /\ req'[r].role = req[r].role /\ req'[r].token = req[r].token
              /\ req'[r] \in RequestRow
         /\ SetRole(r) =>
              /\ req'[r].pc = "audit" /\ req'[r].role = req[r].role
              /\ req'[r].scanned = req[r].scanned /\ req'[r].token = req[r].token
              /\ req'[r] \in RequestRow
<1>1. req \in [Request -> RequestRow] /\ req[r] \in RequestRow
  BY RequestTypes
<1> DEFINE to(pc) == [req[r] EXCEPT !.pc = pc]
<1>2. \A pc : /\ to(pc).pc = pc /\ to(pc).token = req[r].token
              /\ to(pc).role = req[r].role /\ to(pc).scanned = req[r].scanned
  BY <1>1 DEF RequestRow
<1>3. to("lockUser") \in RequestRow /\ to("audit") \in RequestRow
  BY <1>1 DEF RequestRow
<1>4. LockToken(r) => req' = [req EXCEPT ![r] = to("lockUser")]
  BY DEF LockToken, Goto
<1>5. SetRole(r) => req' = [req EXCEPT ![r] = to("audit")]
  BY DEF SetRole
<1> DEFINE further == [req[r] EXCEPT !.scanned = @ + 1]
<1>6. /\ further.pc = req[r].pc /\ further.token = req[r].token
      /\ further.role = req[r].role /\ further.scanned = req[r].scanned + 1
      /\ further \in RequestRow
  BY <1>1 DEF RequestRow
<1>7. ScanToken(r) => req[r].pc = "logout" /\ req' = [req EXCEPT ![r] = further]
  BY DEF ScanToken, At
<1>8. LockUser(r) =>
        /\ req'[r].pc = "tx" /\ req'[r].token = req[r].token
        /\ req'[r].role = req[r].role
        /\ req'[r].fit = (account.state = "active")
        /\ req[r].token \in Ids =>
             req'[r] \in RequestRow /\ req'[r].used = ~Live(req[r].token)
        /\ req'[r].scanned = 0
  <2> DEFINE fit  == account.state = "active"
             used == tokens[req[r].token].rotated \/ tokens[req[r].token].revoked
             late == tokens[req[r].token].expired
             row(a, b, c) == [pc |-> "tx", token |-> req[r].token,
                              role |-> req[r].role, scanned |-> 0, fit |-> a,
                              used |-> b, late |-> c]
  <2>1. \A a, b, c : /\ row(a, b, c).pc = "tx" /\ row(a, b, c).token = req[r].token
                     /\ row(a, b, c).role = req[r].role
                     /\ row(a, b, c).scanned = 0
                     /\ row(a, b, c).fit = a /\ row(a, b, c).used = b
    OBVIOUS
  <2>2. LockUser(r) => req' = [req EXCEPT ![r] = row(fit, used, late)]
    BY DEF LockUser
  <2>3. \A a, b, c \in BOOLEAN : row(a, b, c) \in RequestRow
    BY <1>1 DEF RequestRow
  <2>4. fit \in BOOLEAN /\ used \in BOOLEAN
    OBVIOUS
  <2>5. req[r].token \in Ids => late \in BOOLEAN /\ used = ~Live(req[r].token)
    BY TokenTypes DEF Live
  <2> HIDE DEF row, fit, used, late
  <2>6. LockUser(r) =>
          /\ req'[r] = row(fit, used, late)
          /\ req'[r].pc = "tx" /\ req'[r].token = req[r].token
          /\ req'[r].role = req[r].role /\ req'[r].scanned = 0
          /\ req'[r].fit = fit /\ req'[r].used = used
    BY <1>1, <2>1, <2>2
  <2> QED
    BY <2>3, <2>4, <2>5, <2>6 DEF fit
<1> HIDE DEF to, further
<1>9. /\ LockToken(r) => req'[r] = to("lockUser")
      /\ SetRole(r) => req'[r] = to("audit")
      /\ ScanToken(r) => req[r].pc = "logout" /\ req'[r] = further
  BY <1>1, <1>4, <1>5, <1>7
<1> QED
  BY <1>2, <1>3, <1>6, <1>8, <1>9

\* The first step of a request.
Begins(r) ==
  \/ \E password \in BOOLEAN : Register(r, password)
  \/ Login(r) \/ \E t \in Ids : FindToken(r, t)
  \/ Logout(r) \/ ReadRole(r) \/ SoftDelete(r) \/ RestoreUser(r)

LEMMA FirstRows ==
  ASSUME SessionsTypeOK, NEW r \in Request, Begins(r)
  PROVE  \/ req'[r] = Closed
         \/ \E pc \in {"reread", "created", "insert", "lockToken", "logout",
                       "setRole"}, t \in Ids \cup {0}, role \in Role :
              req'[r] = Begun(pc, t, role)
<1>1. account.role \in Role /\ "user" \in Role
  BY DEF SessionsTypeOK, Role
<1> QED
  BY <1>1, Started DEF Begins, Register, Login, FindToken, Logout, ReadRole,
     SoftDelete, RestoreUser

\* Every request's row keeps its type, and refers to tokens that there are.
LEMMA RequestsStep ==
  ASSUME SessionsInv, NEW r \in Request, RequestStep(r),
         Len(tokens') \in Nat, Len(tokens') >= Len(tokens)
  PROVE  /\ req' \in [Request -> RequestRow]
         /\ \A q \in Request : /\ req'[q].token \in 0 .. Len(tokens')
                               /\ req'[q].scanned \in 0 .. Len(tokens')
<1>1. /\ SessionsTypeOK /\ Len(tokens) \in Nat
      /\ req \in [Request -> RequestRow] /\ account.role \in Role
      /\ "user" \in Role
  BY TokenTypes, RequestTypes DEF SessionsInv, SessionsTypeOK, Role
<1> DEFINE Typed(row) == /\ row \in RequestRow /\ row.token \in 0 .. Len(tokens')
                         /\ row.scanned \in 0 .. Len(tokens')
<1>2. \A q \in Request : Typed(req[q])
  BY <1>1, RequestTypes
<1>3. ASSUME NEW pc, NEW t \in Ids \cup {0}, NEW role \in Role,
             pc \in {"fresh", "reread", "created", "insert", "lockToken",
                     "logout", "setRole", "closed"}
      PROVE  Typed(Begun(pc, t, role))
  BY <1>1, <1>3, BegunRow DEF Ids
<1>4. Typed(Closed)
  BY <1>1, <1>3 DEF Closed
<1> SUFFICES Typed(req'[r])
  BY <1>1, <1>2, OthersStay
<1> HIDE DEF Typed
<1>5. CASE Begins(r)
  <2>1. req'[r] = Closed
        \/ \E pc \in {"reread", "created", "insert", "lockToken", "logout",
                      "setRole"}, t \in Ids \cup {0}, role \in Role :
             req'[r] = Begun(pc, t, role)
    BY <1>1, <1>5, FirstRows
  <2> QED
    BY <1>3, <1>4, <2>1
<1>6. CASE \/ SaveToken(r) \/ NotFound(r) \/ RevokeFamily(r) \/ RefuseExpired(r)
           \/ Rotate(r) \/ RevokeAll(r) \/ AppendAudit(r) \/ RollBack(r)
  <2>1. req'[r] = Closed
    BY <1>1, <1>6, Ended DEF SaveToken, NotFound, RevokeFamily, RefuseExpired,
       Rotate, RevokeAll, AppendAudit, RollBack
  <2> QED
    BY <1>4, <2>1
<1>7. CASE Reread(r)
  <2>1. req'[r] = Closed \/ req'[r] = Begun("insert", 0, account.role)
    BY <1>1, <1>7, Ended DEF Reread
  <2> QED
    BY <1>1, <1>3, <1>4, <2>1
<1>8. CASE LockToken(r) \/ LockUser(r) \/ ScanToken(r) \/ SetRole(r)
  <2>1. /\ req'[r] \in RequestRow /\ req'[r].token = req[r].token
        /\ req'[r].scanned \in {0, req[r].scanned, req[r].scanned + 1}
        /\ ScanToken(r) \/ req'[r].scanned \in {0, req[r].scanned}
    BY <1>1, <1>8, LockedRows DEF SessionsInv, DecisionCurrent, LockUser, At
  <2>2. ScanToken(r) => req[r].scanned < Len(tokens)
    BY DEF ScanToken
  <2> QED
    BY <1>1, <1>2, <2>1, <2>2 DEF Typed
<1> QED
  BY <1>5, <1>6, <1>7, <1>8 DEF RequestStep, AccountRequest, Begins

\* The steps of Next, told apart by what they write.
LEMMA SessionsSteps ==
  ASSUME [SessionsNext]_sessionsVars
  PROVE  \/ \E r \in Request : RequestStep(r)
         \/ \E t \in Ids : Expire(t)
         \/ UNCHANGED sessionsVars
BY DEF SessionsNext, RequestStep, AllClosed

LEMMA TableChanges ==
  ASSUME NEW r \in Request, RequestStep(r)
  PROVE  \/ UNCHANGED <<tokens, shut>>
         \/ /\ UNCHANGED account
            /\ \/ SaveToken(r) \/ RevokeFamily(r) \/ RefuseExpired(r)
               \/ Rotate(r) \/ RevokeAll(r)
BY DEF RequestStep, AccountRequest, Register, Reread, Login, SaveToken,
   FindToken, LockToken, LockUser, NotFound, RevokeFamily, RefuseExpired,
   Rotate, Logout, ScanToken, RevokeAll, ReadRole, SetRole, AppendAudit,
   SoftDelete, RestoreUser, RollBack, table

LEMMA TokensStep ==
  ASSUME SessionsInv, [SessionsNext]_sessionsVars
  PROVE  /\ tokens' \in Seq(TokenRow)
         /\ Len(tokens') \in Nat /\ Len(tokens') >= Len(tokens)
         /\ \A i \in Ids : tokens'[i].family = tokens[i].family
         /\ \A i \in Ids' : tokens'[i].family \in Ids'
         /\ shut' \subseteq Ids'
<1>1. /\ SessionsTypeOK /\ tokens \in Seq(TokenRow) /\ Len(tokens) \in Nat
      /\ \A i \in Ids : tokens[i].family \in Ids /\ tokens[i].family \in Nat
      /\ shut \subseteq Ids
  BY TokenTypes DEF SessionsInv, SessionsTypeOK, Ids
<1>2. CASE UNCHANGED <<tokens, shut>>
  BY <1>1, <1>2 DEF Ids
<1>3. ASSUME NEW t \in Ids, Expire(t)
      PROVE  /\ tokens' \in Seq(TokenRow) /\ Len(tokens') = Len(tokens)
             /\ \A i \in Ids : tokens'[i].family = tokens[i].family
             /\ shut' = shut
  BY <1>1, <1>3, ExpiredRow DEF Expire
<1>4. ASSUME NEW rows, Revoke(rows), shut' \subseteq Ids
      PROVE  /\ tokens' \in Seq(TokenRow) /\ Len(tokens') = Len(tokens)
             /\ \A i \in Ids : tokens'[i].family = tokens[i].family
             /\ shut' \subseteq Ids
  BY <1>1, <1>4, RevokedRows
<1>5. ASSUME NEW r \in Request, RevokeFamily(r) \/ RefuseExpired(r) \/ RevokeAll(r)
      PROVE  /\ tokens' \in Seq(TokenRow) /\ Len(tokens') = Len(tokens)
             /\ \A i \in Ids : tokens'[i].family = tokens[i].family
             /\ shut' \subseteq Ids
  <2>1. \E rows : Revoke(rows)
    BY <1>5 DEF RevokeFamily, RefuseExpired, RevokeAll
  <2>2. shut' \subseteq Ids
    <3>1. RevokeFamily(r) \/ RefuseExpired(r) =>
            tokens[req[r].token].family \in Ids
      BY <1>1 DEF RevokeFamily, RefuseExpired, At, SessionsInv, DecisionCurrent
    <3> QED
      BY <1>1, <1>5, <3>1 DEF RevokeFamily, RefuseExpired, RevokeAll
  <2> QED
    BY <1>4, <2>1, <2>2
<1>6. ASSUME NEW r \in Request, SaveToken(r)
      PROVE  /\ tokens' \in Seq(TokenRow) /\ Len(tokens') = Len(tokens) + 1
             /\ \A i \in Ids : tokens'[i] = tokens[i]
             /\ tokens'[Len(tokens) + 1].family = Len(tokens) + 1
             /\ shut' = shut
  <2>1. /\ tokens' = Append(tokens, Token(Len(tokens) + 1, req[r].role))
        /\ req[r].role \in Role /\ Len(tokens) + 1 \in Nat /\ shut' = shut
    BY <1>1, <1>6, RequestTypes DEF SaveToken, RequestRow
  <2> QED
    BY <1>1, <2>1, AddedRow DEF Token, Ids
<1>7. ASSUME NEW r \in Request, Rotate(r)
      PROVE  /\ tokens' \in Seq(TokenRow) /\ Len(tokens') = Len(tokens) + 1
             /\ \A i \in Ids : tokens'[i].family = tokens[i].family
             /\ tokens'[Len(tokens) + 1].family \in Ids
             /\ shut' = shut
  <2>1. /\ req[r].token \in Ids /\ req[r].role \in Role
        /\ Rotation(req[r].token, req[r].role) /\ shut' = shut
    BY <1>1, <1>7, RequestTypes
       DEF Rotate, At, SessionsInv, DecisionCurrent, RequestRow
  <2>2. /\ tokens' \in Seq(TokenRow) /\ Len(tokens') = Len(tokens) + 1
        /\ \A i \in Ids : tokens'[i].family = tokens[i].family
        /\ tokens'[Len(tokens) + 1] =
             Token(tokens[req[r].token].family, req[r].role)
    BY <1>1, <2>1, RotatedRow
  <2> QED
    BY <1>1, <2>1, <2>2 DEF Token
<1> DEFINE Grown == /\ tokens' \in Seq(TokenRow)
                    /\ Len(tokens') \in {Len(tokens), Len(tokens) + 1}
                    /\ \A i \in Ids : tokens'[i].family = tokens[i].family
                    /\ Len(tokens') > Len(tokens) =>
                         tokens'[Len(tokens) + 1].family \in 1 .. Len(tokens) + 1
                    /\ shut' \subseteq Ids
<1>8. CASE \E t \in Ids : Expire(t)
  <2>1. Grown
    BY <1>1, <1>3, <1>8
  <2> QED
    BY <1>1, <2>1 DEF Ids
<1>9. ASSUME NEW r \in Request,
             \/ SaveToken(r) \/ RevokeFamily(r) \/ RefuseExpired(r) \/ Rotate(r)
             \/ RevokeAll(r)
      PROVE  Grown
  BY <1>1, <1>5, <1>6, <1>7, <1>9 DEF Ids
<1>10. Grown => Ids \subseteq Ids' /\ \A i \in Ids' : tokens'[i].family \in Ids'
  BY <1>1 DEF Ids
<1> QED
  BY <1>1, <1>2, <1>8, <1>9, <1>10, SessionsSteps, TableChanges DEF sessionsVars

\* Locks: a step keeps the locks it has, takes free ones, or lets all go.
LEMMA LocksStep ==
  ASSUME SessionsInv, [SessionsNext]_sessionsVars
  PROVE  LocksExclusive'
<1> USE DEF SessionsInv
<1>1. \A q \in Request : req'[q] = req[q] => Holds(q)' = Holds(q)
  BY DEF Holds
<1>2. ASSUME NEW r \in Request, RequestStep(r),
             \/ Holds(r)' \subseteq Holds(r)
             \/ Holds(r)' \subseteq Holds(r) \cup Wants(r) /\ Unlocked(r)
      PROVE  LocksExclusive'
  <2>1. \A q \in Request \ {r} : Holds(q)' = Holds(q)
    BY <1>1, <1>2, OthersStay
  <2>2. \A q \in Request \ {r} : Holds(r)' \cap Holds(q) = {}
    BY <1>2 DEF LocksExclusive, Unlocked, Blocks
  <2> QED
    BY <2>1, <2>2 DEF LocksExclusive
<1>3. ASSUME NEW r \in Request, RequestStep(r)
      PROVE  \/ Holds(r)' \subseteq Holds(r)
             \/ Holds(r)' \subseteq Holds(r) \cup Wants(r) /\ Unlocked(r)
  <2> USE DEF SessionsTypeOK
  <2>1. CASE Begins(r)
    <3>1. /\ req'[r].pc \notin {"lockUser", "tx"}
          /\ req'[r].pc = "logout" => req'[r].scanned = 0
      <4>1. Ids \cup {0} \subseteq Nat
        BY DEF Ids
      <4>2. CASE req'[r] = Closed
        BY <4>2, Rows
      <4>3. CASE \E pc \in {"reread", "created", "insert", "lockToken", "logout",
                           "setRole"}, t \in Ids \cup {0}, role \in Role :
                   req'[r] = Begun(pc, t, role)
        BY <4>1, <4>3, BegunRow
      <4> QED
        BY <2>1, <4>2, <4>3, FirstRows
    <3> QED
      BY <3>1 DEF Holds
  <2>2. CASE \/ SaveToken(r) \/ NotFound(r) \/ RevokeFamily(r) \/ RefuseExpired(r)
             \/ Rotate(r) \/ RevokeAll(r) \/ AppendAudit(r) \/ RollBack(r)
    <3>1. req'[r].pc = "closed"
      BY <2>2, Ended, Rows DEF SaveToken, NotFound, RevokeFamily, RefuseExpired,
         Rotate, RevokeAll, AppendAudit, RollBack
    <3> QED
      BY <3>1 DEF Holds
  <2>3. CASE Reread(r)
    <3>1. req'[r].pc \in {"closed", "insert"}
      BY <2>3, Ended, Rows DEF Reread, Begun
    <3> QED
      BY <3>1 DEF Holds
  <2>4. CASE SetRole(r)
    <3>1. req'[r].pc = "audit"
      BY <2>4, LockedRows
    <3> QED
      BY <3>1 DEF Holds
  <2>5. CASE LockToken(r)
    <3>1. /\ req[r].pc = "lockToken" /\ Unlocked(r)
          /\ req'[r].pc = "lockUser" /\ req'[r].token = req[r].token
      BY <2>5, LockedRows DEF LockToken, At
    <3>2. Holds(r)' = {req[r].token} /\ Wants(r) = {req[r].token}
      BY <3>1 DEF Holds, Wants
    <3> QED
      BY <3>1, <3>2
  <2>6. CASE LockUser(r)
    <3>1. /\ req[r].pc = "lockUser" /\ Unlocked(r)
          /\ req'[r].pc = "tx" /\ req'[r].token = req[r].token
      BY <2>6, LockedRows DEF LockUser, At
    <3>2. /\ Holds(r)' = {Users, req[r].token} /\ Holds(r) = {req[r].token}
          /\ Wants(r) = {Users}
      BY <3>1 DEF Holds, Wants
    <3> QED
      BY <3>1, <3>2
  <2>7. CASE ScanToken(r)
    <3>1. /\ req[r].pc = "logout" /\ Unlocked(r)
          /\ req[r].scanned < Len(tokens) /\ req[r].scanned \in Nat
          /\ Len(tokens) \in Nat
          /\ req'[r].pc = "logout" /\ req'[r].scanned = req[r].scanned + 1
      BY <2>7, LockedRows, TokenTypes, RequestTypes DEF ScanToken, At
    <3>2. /\ Holds(r)' = 1 .. (req[r].scanned + 1)
          /\ Holds(r) = 1 .. req[r].scanned
          /\ Wants(r) = {req[r].scanned + 1} \cap Ids
      BY <3>1 DEF Holds, Wants
    <3>3. req[r].scanned + 1 \in Ids
      BY <3>1 DEF Ids
    <3> QED
      BY <3>1, <3>2, <3>3
  <2> QED
    BY <1>3, <2>1, <2>2, <2>3, <2>4, <2>5, <2>6, <2>7
       DEF RequestStep, AccountRequest, Begins
<1>4. ASSUME UNCHANGED req PROVE LocksExclusive'
  <2>1. \A q \in Request : Holds(q)' = Holds(q)
    BY <1>1, <1>4
  <2> QED
    BY <2>1 DEF LocksExclusive
<1> QED
  BY <1>2, <1>3, <1>4, SessionsSteps DEF Expire, sessionsVars

\* The decision of a transaction outlives the steps of the others: they change
\* neither the token whose lock it holds nor, before it ends, the account.
LEMMA AccountKept ==
  ASSUME SessionsInv, [SessionsNext]_sessionsVars, account.state = "active",
         \E r \in Request : Users \in Holds(r)
  PROVE  account'.state = "active"
<1>1. ASSUME NEW r \in Request, RequestStep(r) PROVE account'.state = "active"
  <2>1. ~ SoftDelete(r)
    <3> SUFFICES ASSUME SoftDelete(r) PROVE FALSE
      OBVIOUS
    <3>1. PICK q \in Request : Users \in Holds(q)
      OBVIOUS
    <3>2. q = r /\ req[r].pc = "fresh"
      BY <3>1 DEF SoftDelete, UsersUnlocked, Start, At
    <3> QED
      BY <3>1, <3>2 DEF Holds
  <2>2. CASE UNCHANGED account
    BY <2>2
  <2>3. CASE SetRole(r)
    BY <2>3 DEF SetRole, SessionsInv, SessionsTypeOK
  <2> QED
    BY <1>1, <2>1, <2>2, <2>3
       DEF RequestStep, AccountRequest, Register, InsertUser, Reread, Login,
       SaveToken, FindToken, LockToken, LockUser, NotFound, RevokeFamily,
       RefuseExpired, Rotate, Logout, ScanToken, RevokeAll, ReadRole,
       AppendAudit, RestoreUser, MarkUndeleted, RollBack, table
<1> QED
  BY <1>1, SessionsSteps DEF Expire, sessionsVars

LEMMA TokenKept ==
  ASSUME SessionsInv, NEW r \in Request, NEW t \in Ids, t \in Holds(r),
         NEW q \in Request, q # r, RequestStep(q)
  PROVE  Live(t)' <=> Live(t)
<1>1. /\ SessionsTypeOK /\ t \notin Holds(q) /\ t \in 1 .. Len(tokens)
      /\ Len(tokens) \in Nat
  BY TokenTypes DEF SessionsInv, LocksExclusive, Ids
<1>2. ASSUME NEW rows, Revoke(rows), t \notin rows PROVE Live(t)' <=> Live(t)
  BY <1>1, <1>2, RevokedRows
<1>3. CASE UNCHANGED tokens
  BY <1>3 DEF Live
<1>4. CASE SaveToken(q)
  <2>1. /\ tokens' = Append(tokens, Token(Len(tokens) + 1, req[q].role))
        /\ tokens \in Seq(TokenRow)
        /\ req[q].role \in Role /\ Len(tokens) + 1 \in Nat
    BY <1>1, <1>4, TokenTypes, RequestTypes DEF SaveToken, RequestRow
  <2>2. tokens'[t] = tokens[t]
    BY <1>1, <2>1, AddedRow
  <2> QED
    BY <2>2 DEF Live
<1>5. CASE RevokeFamily(q)
  <2>1. /\ Revoke(Family(tokens[req[q].token].family)) /\ Unlocked(q)
        /\ Wants(q) = Family(tokens[req[q].token].family)
    BY <1>5 DEF RevokeFamily, At, Wants
  <2>2. t \notin Family(tokens[req[q].token].family)
    BY <2>1 DEF Unlocked, Blocks
  <2> QED
    BY <1>2, <2>1, <2>2
<1>6. CASE RefuseExpired(q)
  <2>1. Revoke({req[q].token}) /\ req[q].token \in Holds(q)
    BY <1>6 DEF RefuseExpired, At, Holds
  <2> QED
    BY <1>1, <1>2, <2>1
<1>7. CASE Rotate(q)
  <2>1. /\ req[q].token \in Ids /\ req[q].role \in Role
        /\ Rotation(req[q].token, req[q].role) /\ req[q].token \in Holds(q)
    BY <1>1, <1>7, RequestTypes
       DEF Rotate, At, SessionsInv, DecisionCurrent, RequestRow, Holds
  <2>2. tokens'[t] = tokens[t]
    BY <1>1, <2>1, RotatedRow
  <2> QED
    BY <2>2 DEF Live
<1>8. CASE RevokeAll(q)
  <2>1. Ids = Holds(q)
    BY <1>8 DEF RevokeAll, At, Holds, Ids
  <2> QED
    BY <1>1, <2>1
<1> QED
  BY <1>3, <1>4, <1>5, <1>6, <1>7, <1>8, TableChanges

LEMMA DecisionStep ==
  ASSUME SessionsInv, [SessionsNext]_sessionsVars
  PROVE  DecisionCurrent'
<1>1. SessionsTypeOK /\ Ids \subseteq Ids'
  BY TokensStep, TokenTypes DEF SessionsInv, Ids
\* A request that stands still.
<1>2. ASSUME NEW r \in Request, req'[r] = req[r],
             req[r].pc \in {"lockToken", "lockUser", "tx"},
             \/ \E q \in Request \ {r} : RequestStep(q)
             \/ \E t \in Ids : Expire(t)
             \/ UNCHANGED sessionsVars
      PROVE  /\ req'[r].token \in Ids'
             /\ req'[r].pc = "tx" =>
                  /\ req'[r].used = ~Live(req[r].token)'
                  /\ req'[r].fit => account'.state = "active"
  <2>1. PICK t \in Ids : t = req[r].token
    BY <1>2 DEF SessionsInv, DecisionCurrent
  <2>2. CASE req[r].pc # "tx"
    BY <1>1, <1>2, <2>1, <2>2
  <2>3. CASE req[r].pc = "tx"
    <3>1. t \in Holds(r) /\ Users \in Holds(r)
      BY <2>1, <2>3 DEF Holds
    <3>2. Live(t)' <=> Live(t)
      <4>1. ASSUME NEW q \in Request \ {r}, RequestStep(q)
            PROVE  Live(t)' <=> Live(t)
        BY <3>1, <4>1, TokenKept
      <4>2. ASSUME NEW u \in Ids, Expire(u) PROVE Live(t)' <=> Live(t)
        BY <1>1, <4>2, ExpiredRow DEF Live
      <4>3. UNCHANGED sessionsVars => (Live(t)' <=> Live(t))
        BY DEF sessionsVars, Live
      <4> QED
        BY <1>2, <4>1, <4>2, <4>3
    <3>3. req[r].fit => account'.state = "active"
      BY <2>3, <3>1, AccountKept DEF SessionsInv, DecisionCurrent
    <3>4. req[r].used = ~Live(t)
      BY <2>1, <2>3 DEF SessionsInv, DecisionCurrent
    <3>5. (req[r].used = ~Live(t)')
      BY <3>2, <3>4
    <3> QED
      BY <1>1, <1>2, <2>1, <3>3, <3>5 DEF Live
  <2> QED
    BY <2>2, <2>3
\* The request that moves.
<1>3. ASSUME NEW r \in Request, RequestStep(r),
             req'[r].pc \in {"lockToken", "lockUser", "tx"}
      PROVE  /\ req'[r].token \in Ids'
             /\ req'[r].pc = "tx" =>
                  /\ req'[r].used = ~Live(req[r].token)'
                  /\ req'[r].fit => account'.state = "active"
  <2>1. ASSUME Begins(r) PROVE req'[r].pc = "lockToken" /\ req'[r].token \in Ids
    <3>1. ASSUME NEW t \in Ids, FindToken(r, t)
          PROVE  req'[r].pc = "lockToken" /\ req'[r].token \in Ids
      <4>1. req'[r] = Begun("lockToken", t, account.role) \/ req'[r] = Closed
        BY <1>1, <3>1, Started DEF FindToken
      <4>2. account.role \in Role /\ t \in Nat
        BY <1>1 DEF SessionsTypeOK, Ids
      <4> QED
        BY <1>3, <4>1, <4>2, BegunRow, Rows
    <3>2. ASSUME ~ \E t \in Ids : FindToken(r, t) PROVE FALSE
      <4>1. req'[r] = Closed
            \/ \E pc \in {"reread", "created", "insert", "logout", "setRole"},
                  role \in Role : req'[r] = Begun(pc, 0, role)
        <5>1. account.role \in Role /\ "user" \in Role
          BY <1>1 DEF SessionsTypeOK, Role
        <5> QED
          BY <1>1, <2>1, <3>2, <5>1, Started DEF Begins, Register, Login, Logout,
             ReadRole, SoftDelete, RestoreUser
      <4> QED
        BY <1>3, <4>1, BegunRow, Rows
    <3> QED
      BY <3>1, <3>2
  <2>2. ASSUME ~ Begins(r), ~ LockToken(r), ~ LockUser(r) PROVE FALSE
    <3>1. CASE Reread(r)
      <4>1. req'[r] = Closed \/ req'[r] = Begun("insert", 0, account.role)
        BY <1>1, <3>1, Ended, RequestTypes DEF Reread
      <4>2. account.role \in Role
        BY <1>1 DEF SessionsTypeOK
      <4> QED
        BY <1>3, <4>1, <4>2, BegunRow, Rows
    <3>2. CASE ~ Reread(r)
      <4>1. req'[r] = Closed \/ ScanToken(r) \/ SetRole(r)
        BY <1>1, <1>3, <2>2, <3>2, Ended DEF RequestStep, AccountRequest, Begins,
           SaveToken, NotFound, RevokeFamily, RefuseExpired, Rotate, RevokeAll,
           AppendAudit, RollBack
      <4> QED
        BY <1>1, <1>3, <4>1, Rows, LockedRows
    <3> QED
      BY <3>1, <3>2
  <2>3. CASE LockToken(r)
    <3>1. req[r].token \in Ids
      BY <2>3 DEF LockToken, At, SessionsInv, DecisionCurrent
    <3> QED
      BY <1>1, <2>3, <3>1, LockedRows
  <2>4. CASE LockUser(r)
    <3>1. req[r].token \in Ids /\ UNCHANGED <<tokens, account>>
      BY <2>4 DEF LockUser, At, SessionsInv, DecisionCurrent, table
    <3>2. /\ req'[r].token = req[r].token
          /\ req'[r].fit = (account.state = "active")
          /\ req'[r].used = ~Live(req[r].token)
      BY <1>1, <2>4, <3>1, LockedRows
    <3> QED
      BY <1>1, <3>1, <3>2 DEF Live
  <2>5. Begins(r) => req'[r].pc # "tx"
    BY <2>1
  <2> QED
    BY <1>1, <2>1, <2>2, <2>3, <2>4
<1>4. ASSUME NEW r \in Request,
             req'[r].pc \in {"lockToken", "lockUser", "tx"}
      PROVE  /\ req'[r].token \in Ids'
             /\ req'[r].pc = "tx" =>
                  /\ req'[r].used = ~Live(req[r].token)'
                  /\ req'[r].fit => account'.state = "active"
  <2>1. CASE RequestStep(r)
    BY <1>3, <1>4, <2>1
  <2>2. CASE ~ RequestStep(r)
    <3>1. req'[r] = req[r]
      BY <1>1, <2>2, OthersStay, SessionsSteps DEF Expire, sessionsVars
    <3> QED
      BY <1>2, <1>4, <2>2, <3>1, SessionsSteps
  <2> QED
    BY <2>1, <2>2
<1> QED
  BY <1>4 DEF DecisionCurrent

\* Families: what each change of the table does to the live tokens.
LEMMA SoundStep ==
  ASSUME SessionsInv, [SessionsNext]_sessionsVars
  PROVE  Sound'
<1>1. /\ SessionsTypeOK /\ Len(tokens) \in Nat /\ shut \subseteq Ids /\ Sound
      /\ \A i \in Ids : tokens[i].family \in Ids
  BY TokenTypes DEF SessionsInv, SessionsTypeOK
\* The same rows, of which some are not live any more.
<1>2. ASSUME Ids' = Ids,
             \A i \in Ids : tokens'[i].family = tokens[i].family,
             NEW dead, \A i \in Ids : Live(i)' <=> Live(i) /\ i \notin dead,
             shut \subseteq shut',
             \A i \in Ids \cap dead : Live(i) => tokens[i].family \in shut',
             \A i \in Ids : tokens[i].family \in shut' \ shut =>
               \A j \in Family(tokens[i].family) : j \in dead \/ ~Live(j)
      PROVE  Sound'
  <2>1. \A f : Family(f)' = Family(f)
    BY <1>2 DEF Family
  <2>2. ASSUME NEW i \in Ids
        PROVE  tokens[i].family \notin shut' <=>
                 \E j \in Family(tokens[i].family) : Live(j) /\ j \notin dead
    <3>1. CASE tokens[i].family \in shut
      <4>1. \A j \in Family(tokens[i].family) : ~Live(j)
        BY <1>1, <3>1 DEF Sound
      <4> QED
        BY <1>2, <3>1, <4>1
    <3>2. CASE tokens[i].family \in shut' \ shut
      BY <1>2, <3>2
    <3>3. CASE tokens[i].family \notin shut'
      <4>1. PICK j \in Family(tokens[i].family) : Live(j)
        BY <1>1, <1>2, <3>3 DEF Sound
      <4>2. j \in Ids /\ tokens[j].family = tokens[i].family
        BY DEF Family
      <4> QED
        BY <1>2, <3>3, <4>1, <4>2
    <3> QED
      BY <3>1, <3>2, <3>3
  <2>3. \A i \in Ids : \A j \in Family(tokens[i].family) :
          j \in Ids /\ (Live(j)' <=> Live(j) /\ j \notin dead)
    BY <1>2 DEF Family
  <2>4. \A i \in Ids' :
          tokens'[i].family \notin shut' <=>
            \E j \in Family(tokens[i].family) : Live(j)'
    BY <1>2, <2>2, <2>3
  <2>5. \A i \in Ids' : Family(tokens[i].family)' = Family(tokens[i].family)
    BY <1>2, <2>1 DEF Family
  <2> QED
    BY <1>1, <1>2, <2>4, <2>5 DEF Sound
<1>3. ASSUME Ids' = Ids, shut' = shut,
             \A i \in Ids : tokens'[i].family = tokens[i].family,
             \A i \in Ids : Live(i)' <=> Live(i)
      PROVE  Sound'
  <2> DEFINE dead == {}
  <2>1. \A i \in Ids : (Live(i)' <=> Live(i) /\ i \notin dead) /\ i \notin dead
    BY <1>3
  <2> HIDE DEF dead
  <2>2. \A i \in Ids \cap dead : Live(i) => tokens[i].family \in shut'
    BY <2>1
  <2> QED
    BY <1>2, <1>3, <2>1, <2>2
<1>4. ASSUME NEW t \in Ids, Expire(t) PROVE Sound'
  <2>1. /\ Ids' = Ids /\ shut' = shut
        /\ \A i \in Ids : tokens'[i].family = tokens[i].family
        /\ \A i \in Ids : Live(i)' <=> Live(i)
    BY <1>1, <1>4, ExpiredRow DEF Expire, Ids, Live
  <2> QED
    BY <1>3, <2>1
<1>5. ASSUME NEW r \in Request, RevokeFamily(r) PROVE Sound'
  <2> DEFINE family == tokens[req[r].token].family
             dead   == Family(family)
  <2>1. Revoke(dead) /\ shut' = shut \cup {family}
    BY <1>5 DEF RevokeFamily
  <2>2. \A i \in dead : i \in Ids /\ tokens[i].family = family
    BY DEF Family
  <2> HIDE DEF family
  <2>3. /\ Ids' = Ids
        /\ \A i \in Ids : tokens'[i].family = tokens[i].family
        /\ \A i \in Ids : Live(i)' <=> Live(i) /\ i \notin dead
    BY <1>1, <2>1, RevokedRows
  <2>4. \A i \in Ids : tokens[i].family \in shut' \ shut =>
          \A j \in Family(tokens[i].family) : j \in dead
    BY <2>1
  <2> QED
    BY <1>2, <2>1, <2>2, <2>3, <2>4
<1>6. ASSUME NEW r \in Request, RefuseExpired(r) PROVE Sound'
  <2>1. PICK t \in Ids : t = req[r].token /\ Live(t)
    BY <1>6 DEF RefuseExpired, At, SessionsInv, DecisionCurrent
  <2>2. Revoke({t}) /\ shut' = shut \cup {tokens[t].family}
    BY <1>6, <2>1 DEF RefuseExpired
  <2>3. /\ Ids' = Ids
        /\ \A i \in Ids : tokens'[i].family = tokens[i].family
        /\ \A i \in Ids : Live(i)' <=> Live(i) /\ i \notin {t}
    BY <1>1, <2>2, RevokedRows
  <2>4. \A i \in Ids : tokens[i].family \in shut' \ shut =>
          \A j \in Family(tokens[i].family) : j \in {t} \/ ~Live(j)
    BY <1>1, <2>1, <2>2 DEF Sound, Family
  <2> QED
    BY <1>2, <2>2, <2>3, <2>4
<1>7. ASSUME NEW r \in Request, RevokeAll(r) PROVE Sound'
  <2>1. Revoke(Ids) /\ shut' = shut \cup {tokens[i].family : i \in Ids}
    BY <1>7 DEF RevokeAll
  <2>2. /\ Ids' = Ids
        /\ \A i \in Ids : tokens'[i].family = tokens[i].family
        /\ \A i \in Ids : Live(i)' <=> Live(i) /\ i \notin Ids
    BY <1>1, <2>1, RevokedRows
  <2>3. \A f : \A j \in Family(f) : j \in Ids
    BY DEF Family
  <2> QED
    BY <1>2, <2>1, <2>2, <2>3
\* A new row, alone in its family.
<1>8. ASSUME NEW r \in Request, SaveToken(r) PROVE Sound'
  <2> PICK n \in Nat : n = Len(tokens) + 1
    BY <1>1
  <2>1. /\ tokens' = Append(tokens, Token(n, req[r].role))
        /\ req[r].role \in Role /\ shut' = shut
        /\ tokens \in Seq(TokenRow)
    BY <1>1, <1>8, RequestTypes, TokenTypes DEF SaveToken, RequestRow
  <2>2. /\ \A i \in Ids : tokens'[i] = tokens[i]
        /\ tokens'[n] = Token(n, req[r].role) /\ Ids' = Ids \cup {n}
        /\ n \notin Ids
    BY <1>1, <2>1, AddedRow DEF Ids
  <2>3. tokens'[n].family = n /\ Live(n)'
    BY <2>2 DEF Token, Live
  <2>4. /\ \A i \in Ids : /\ Live(i)' <=> Live(i) /\ tokens[i].family # n
                          /\ tokens'[i].family = tokens[i].family
        /\ n \notin shut
    BY <1>1, <2>2 DEF Live
  <2>5. /\ \A g : g # n => Family(g)' = Family(g)
        /\ n \in Family(n)'
    BY <2>2, <2>3, <2>4 DEF Family
  <2>6. \A i, j \in Ids' : Live(i)' /\ Live(j)' /\ tokens'[i].family = tokens'[j].family
                            => i = j
    BY <1>1, <2>2, <2>3, <2>4 DEF Sound
  <2>7. ASSUME NEW i \in Ids
        PROVE  tokens'[i].family \notin shut' <=>
                 \E j \in Family(tokens[i].family)' : Live(j)'
    <3> PICK g \in Ids : g = tokens[i].family
      BY <1>1
    <3>1. Family(g)' = Family(g)
      BY <2>2, <2>5
    <3>2. \A j \in Family(g) : Live(j)' <=> Live(j)
      BY <2>2, <2>4 DEF Family
    <3>3. g \notin shut <=> \E j \in Family(g) : Live(j)
      BY <1>1 DEF Sound
    <3>4. tokens'[i].family = g
      BY <2>4
    <3> QED
      BY <2>1, <3>1, <3>2, <3>3, <3>4
  <2>8. n \notin shut' /\ \E j \in Family(n)' : Live(j)'
    BY <2>1, <2>3, <2>4, <2>5
  <2> QED
    BY <2>2, <2>3, <2>6, <2>7, <2>8 DEF Sound
\* A new row in the place of the rotated one.
<1>9. ASSUME NEW r \in Request, Rotate(r) PROVE Sound'
  <2>1. PICK t \in Ids : t = req[r].token /\ Live(t)
    BY <1>9 DEF Rotate, At, SessionsInv, DecisionCurrent
  <2> PICK f \in Ids : f = tokens[t].family
    BY <1>1
  <2> PICK n \in Nat : n = Len(tokens) + 1
    BY <1>1
  <2>2. /\ Rotation(t, req[r].role) /\ req[r].role \in Role /\ shut' = shut
    BY <1>1, <1>9, <2>1, RequestTypes DEF Rotate, RequestRow
  <2>3. /\ \A i \in Ids \ {t} : tokens'[i] = tokens[i]
        /\ tokens'[t].family = f /\ tokens'[t].rotated = TRUE
        /\ tokens'[n] = Token(f, req[r].role) /\ Ids' = Ids \cup {n}
        /\ n \notin Ids
    <3>1. /\ Len(tokens') = n /\ \A i \in Ids : i # t => tokens'[i] = tokens[i]
          /\ tokens'[t].family = f /\ tokens'[t].rotated = TRUE
          /\ tokens'[n] = Token(f, req[r].role)
      BY <1>1, <2>2, RotatedRow
    <3> QED
      BY <1>1, <3>1 DEF Ids
  <2>4. tokens'[n].family = f /\ Live(n)' /\ ~Live(t)'
    BY <2>3 DEF Token, Live
  <2>5. \A i \in Ids : /\ i # t => (Live(i)' <=> Live(i))
                       /\ tokens'[i].family = tokens[i].family
    BY <2>3 DEF Live
  <2>6. \A g : Family(g)' = Family(g) \cup (IF g = f THEN {n} ELSE {})
    BY <2>3, <2>4, <2>5 DEF Family
  <2>7. f \notin shut /\ \A i \in Ids : Live(i) /\ tokens[i].family = f => i = t
    BY <1>1, <2>1 DEF Sound, Family
  <2>8. \A i, j \in Ids' : Live(i)' /\ Live(j)' /\ tokens'[i].family = tokens'[j].family
                            => i = j
    BY <1>1, <2>3, <2>4, <2>5, <2>7 DEF Sound
  <2>9. ASSUME NEW i \in Ids
        PROVE  tokens'[i].family \notin shut' <=>
                 \E j \in Family(tokens[i].family)' : Live(j)'
    <3> PICK g \in Ids : g = tokens[i].family
      BY <1>1
    <3>1. CASE g = f
      BY <2>2, <2>4, <2>5, <2>6, <2>7, <3>1
    <3>2. CASE g # f
      <4>1. \A j \in Family(g) : Live(j)' <=> Live(j)
        BY <2>5, <3>2 DEF Family
      <4>2. Family(g)' = Family(g)
        BY <2>6, <3>2
      <4>3. g \notin shut <=> \E j \in Family(g) : Live(j)
        BY <1>1 DEF Sound
      <4> QED
        BY <2>2, <2>5, <4>1, <4>2, <4>3
    <3> QED
      BY <3>1, <3>2
  <2>10. tokens'[n].family \notin shut' /\ \E j \in Family(f)' : Live(j)'
    BY <2>2, <2>4, <2>6, <2>7
  <2> QED
    BY <2>3, <2>4, <2>8, <2>9, <2>10 DEF Sound
<1>10. CASE UNCHANGED <<tokens, shut>>
  BY <1>3, <1>10 DEF Ids, Live
<1> QED
  BY <1>4, <1>5, <1>6, <1>7, <1>8, <1>9, <1>10, SessionsSteps, TableChanges
     DEF sessionsVars

\* The account: its role changes in SetRole alone.
AccountRow == [state : {"absent", "active", "deleted"}, password : BOOLEAN,
               role : Role]

LEMMA AccountStep ==
  ASSUME SessionsInv, [SessionsNext]_sessionsVars
  PROVE  /\ account' \in AccountRow
         /\ account'.state = "absent" => account'.role = "user"
         /\ account'.role = account.role \/ \E r \in Request : SetRole(r)
         /\ \A r \in Request :
              RequestStep(r) => account'.role = account.role \/ SetRole(r)
<1>1. /\ account \in AccountRow /\ (account.state = "absent" => account.role = "user")
      /\ "user" \in Role
  BY DEF SessionsInv, SessionsTypeOK, RolesFollow, Role,
     AccountRow
<1>2. CASE UNCHANGED account
  BY <1>1, <1>2
<1>3. ASSUME NEW password \in BOOLEAN, InsertUser(password)
      PROVE  account' \in AccountRow /\ account'.state = "active" /\ account'.role = account.role
  BY <1>1, <1>3 DEF InsertUser, AccountRow
<1>4. ASSUME MarkDeleted \/ MarkUndeleted
      PROVE  /\ account' \in AccountRow /\ account'.state # "absent"
             /\ account'.role = account.role
  BY <1>1, <1>4 DEF MarkDeleted, MarkUndeleted, AccountRow
<1>5. ASSUME NEW r \in Request, SetRole(r)
      PROVE  account' \in AccountRow /\ (account'.state = "absent" => account'.role = "user")
  <2>1. NewRole(r) \in Role
    BY DEF NewRole, Role
  <2> QED
    BY <1>1, <1>5, <2>1 DEF SetRole, AccountRow
<1>6. ASSUME NEW r \in Request, RequestStep(r)
      PROVE  \/ UNCHANGED account \/ SetRole(r) \/ MarkDeleted \/ MarkUndeleted
             \/ \E password \in BOOLEAN : InsertUser(password)
  BY <1>6
     DEF RequestStep, AccountRequest, Register, Reread, Login, SaveToken,
     FindToken, LockToken, LockUser, NotFound, RevokeFamily, RefuseExpired,
     Rotate, Logout, ScanToken, RevokeAll, ReadRole, AppendAudit, SoftDelete,
     RestoreUser, RollBack, table
<1> QED
  BY <1>2, <1>3, <1>4, <1>5, <1>6, SessionsSteps DEF Expire, sessionsVars

\* The role that SetRole writes is noted for everybody who runs.
LEMMA RoleNoted ==
  ASSUME SessionsInv, NEW r \in Request, SetRole(r), NEW q \in Request,
         account.role \in roles[q]
  PROVE  roles[q] \subseteq roles'[q] /\ account'.role \in roles'[q]
<1>1. account \in AccountRow /\ roles \in [Request -> SUBSET Role]
  BY DEF SessionsInv, SessionsTypeOK, AccountRow
<1>2. CASE UNCHANGED <<account, roles>>
  BY <1>2
<1>3. CASE /\ account' = [account EXCEPT !.role = NewRole(r)]
           /\ roles' = [p \in Request |-> IF roles[p] = {} THEN {}
                                          ELSE roles[p] \union {NewRole(r)}]
  <2>1. account'.role = NewRole(r)
    BY <1>1, <1>3 DEF AccountRow
  <2>2. roles'[q] = roles[q] \union {NewRole(r)}
    BY <1>3
  <2> QED
    BY <2>1, <2>2
<1> QED
  BY <1>2, <1>3 DEF SetRole

\* The history of roles while another request, or nobody, moves.
LEMMA HistoryKept ==
  ASSUME SessionsInv, [SessionsNext]_sessionsVars, NEW q \in Request,
         ~ RequestStep(q), roles[q] # {}, account.role \in roles[q]
  PROVE  roles[q] \subseteq roles'[q] /\ account'.role \in roles'[q]
<1>1. SessionsTypeOK /\ account.role \in Role
  BY DEF SessionsInv, SessionsTypeOK
<1>2. CASE UNCHANGED roles /\ ~ \E r \in Request : SetRole(r)
  BY <1>2, AccountStep
<1>3. ASSUME NEW r \in Request, SetRole(r)
      PROVE  roles[q] \subseteq roles'[q] /\ account'.role \in roles'[q]
  BY <1>3, RoleNoted
<1>4. ASSUME NEW r \in Request, RequestStep(r), ~ SetRole(r)
      PROVE  roles'[q] = roles[q] /\ r # q
  <2>1. r # q
    BY <1>4
  <2>2. (\E first : Start(r, first)) \/ Close(r) \/ UNCHANGED roles
    BY <1>4
       DEF RequestStep, AccountRequest, Register, Reread, Login, SaveToken,
       FindToken, LockToken, LockUser, NotFound, RevokeFamily, RefuseExpired,
       Rotate, Logout, ScanToken, RevokeAll, ReadRole, AppendAudit, SoftDelete,
       RestoreUser, RollBack, Goto
  <2> QED
    BY <1>1, <2>1, <2>2, Started, Ended
<1>5. ASSUME NEW r \in Request, RequestStep(r), ~ \E p \in Request : SetRole(p)
      PROVE  roles[q] \subseteq roles'[q] /\ account'.role \in roles'[q]
  BY <1>4, <1>5, AccountStep
<1>6. (\E t \in Ids : Expire(t)) \/ UNCHANGED sessionsVars =>
        UNCHANGED <<roles, account>>
  BY DEF Expire, sessionsVars
<1> QED
  BY <1>3, <1>5, <1>6, SessionsSteps

\* What each request has read is in its history, also when the role changes.
LEMMA RolesStep ==
  ASSUME SessionsInv, [SessionsNext]_sessionsVars
  PROVE  RolesFollow'
<1> DEFINE Reading == {"insert", "lockToken", "lockUser", "tx", "setRole", "audit"}
<1>1. SessionsTypeOK /\ account.role \in Role /\ "user" \in Role
  BY DEF SessionsInv, SessionsTypeOK, Role
<1>2. ASSUME NEW q \in Request, ~ RequestStep(q)
      PROVE  /\ req'[q].pc \notin {"fresh", "closed"} => account'.role \in roles'[q]
             /\ req'[q].pc \in Reading => req'[q].role \in roles'[q]
  <2>1. req'[q] = req[q]
    BY <1>1, <1>2, OthersStay, SessionsSteps DEF Expire, sessionsVars
  <2>2. ASSUME req[q].pc \notin {"fresh", "closed"}
        PROVE  account.role \in roles[q] /\ roles[q] # {}
    BY <2>2 DEF SessionsInv, RolesFollow
  <2> QED
    BY <1>2, <2>1, <2>2, HistoryKept DEF SessionsInv, RolesFollow
<1>3. ASSUME NEW q \in Request, RequestStep(q)
      PROVE  /\ req'[q].pc \notin {"fresh", "closed"} => account'.role \in roles'[q]
             /\ req'[q].pc \in Reading => req'[q].role \in roles'[q]
  <2>1. CASE req'[q] = Closed
    BY <2>1, Rows
  <2>2. ASSUME NEW pc, NEW t \in Nat, NEW role \in Role, Start(q, Begun(pc, t, role)),
               pc \in {"reread", "created", "insert", "lockToken", "logout", "setRole"},
               account'.role = account.role,
               role = account.role \/ pc \in {"reread", "created", "logout"}
        PROVE  /\ req'[q].pc \notin {"fresh", "closed"} => account'.role \in roles'[q]
               /\ req'[q].pc \in Reading => req'[q].role \in roles'[q]
    <3>1. Begun(pc, t, role).pc = pc /\ Begun(pc, t, role).role = role
      BY <2>2, BegunRow
    <3>2. Begun(pc, t, role) # Closed
      BY <2>2, <3>1, Rows
    <3>3. req'[q] = Begun(pc, t, role) /\ roles'[q] = {account.role}
      BY <1>1, <2>2, <3>2, Started
    <3> QED
      BY <2>2, <3>1, <3>3
  <2>3. CASE Begins(q) /\ req'[q] # Closed
    <3>1. \A t \in Ids \cup {0} : t \in Nat
      BY <1>1, TokenTypes DEF Ids
    <3>2. ASSUME NEW first, Start(q, first) PROVE first # Closed
      BY <1>1, <2>3, <3>2, Started
    <3>3. account'.role = account.role
      <4>1. req[q].pc = "fresh"
        BY <2>3 DEF Begins, Register, Login, FindToken, Logout, ReadRole,
           SoftDelete, RestoreUser, Start, At
      <4> QED
        BY <1>3, <4>1, AccountStep DEF SetRole, At
    <3> QED
      BY <1>1, <2>2, <2>3, <3>1, <3>2, <3>3
         DEF Begins, Register, Login, FindToken, Logout, ReadRole, SoftDelete,
         RestoreUser
  <2>4. CASE Reread(q) /\ req'[q] # Closed
    <3>1. /\ req'[q] = Begun("insert", 0, account.role) /\ UNCHANGED <<roles, account>>
          /\ req[q].pc \in {"reread", "created"}
      BY <1>1, <2>4, Ended, RequestTypes DEF Reread, table
    <3>2. Begun("insert", 0, account.role).role = account.role
      BY <1>1, BegunRow
    <3> QED
      BY <3>1, <3>2 DEF SessionsInv, RolesFollow
  <2>5. CASE LockToken(q) \/ LockUser(q) \/ ScanToken(q)
    <3>1. /\ req'[q].role = req[q].role /\ UNCHANGED <<roles, account>>
          /\ req[q].pc \notin {"fresh", "closed"}
          /\ req[q].pc \in Reading \/ req'[q].pc = "logout"
      BY <1>1, <2>5, LockedRows DEF LockToken, LockUser, ScanToken, At, Goto, table
    <3> QED
      BY <3>1 DEF SessionsInv, RolesFollow
  <2>6. CASE SetRole(q)
    <3>1. /\ req'[q].role = req[q].role /\ req[q].pc = "setRole"
      BY <1>1, <2>6, LockedRows DEF SetRole, At
    <3>2. account.role \in roles[q] /\ req[q].role \in roles[q]
      BY <3>1 DEF SessionsInv, RolesFollow
    <3>3. roles[q] \subseteq roles'[q] /\ account'.role \in roles'[q]
      BY <2>6, <3>2, RoleNoted
    <3> QED
      BY <3>1, <3>2, <3>3
  <2> QED
    BY <1>1, <1>3, <2>1, <2>3, <2>4, <2>5, <2>6, Ended
       DEF RequestStep, AccountRequest, Begins, SaveToken, NotFound,
       RevokeFamily, RefuseExpired, Rotate, RevokeAll, AppendAudit, RollBack
<1> QED
  BY <1>2, <1>3, AccountStep DEF RolesFollow

\* The types, once the parts above are kept.
LEMMA TypesStep ==
  ASSUME SessionsInv, [SessionsNext]_sessionsVars
  PROVE  SessionsTypeOK'
<1> DEFINE Entry == [by : Request, before : Role, after : Role]
<1>1. /\ SessionsTypeOK /\ account.role \in Role
      /\ audit \in Seq(Entry) /\ roles \in [Request -> SUBSET Role]
  BY DEF SessionsInv, SessionsTypeOK
<1>2. \A r \in Request : NewRole(r) \in Role
  BY DEF NewRole, Role
<1>3. roles' \in [Request -> SUBSET Role]
  <2>1. ASSUME NEW r \in Request, RequestStep(r)
        PROVE  (\E first : Start(r, first)) \/ Close(r) \/ SetRole(r) \/ UNCHANGED roles
    BY <2>1
       DEF RequestStep, AccountRequest, Register, Reread, Login, SaveToken,
       FindToken, LockToken, LockUser, NotFound, RevokeFamily, RefuseExpired,
       Rotate, Logout, ScanToken, RevokeAll, ReadRole, AppendAudit, SoftDelete,
       RestoreUser, RollBack, Goto
  <2>2. ASSUME NEW r \in Request, SetRole(r) PROVE roles' \in [Request -> SUBSET Role]
    BY <1>1, <1>2, <2>2 DEF SetRole
  <2>3. ASSUME NEW r \in Request, NEW first, Start(r, first)
        PROVE  roles' \in [Request -> SUBSET Role]
    BY <1>1, <2>3 DEF Start
  <2>4. ASSUME NEW r \in Request, Close(r) PROVE roles' \in [Request -> SUBSET Role]
    BY <1>1, <2>4 DEF Close
  <2> QED
    BY <1>1, <2>1, <2>2, <2>3, <2>4, SessionsSteps DEF Expire, sessionsVars
<1>4. audit' \in Seq(Entry)
  <2>1. ASSUME NEW r \in Request, AppendAudit(r) PROVE audit' \in Seq(Entry)
    <3>1. [by |-> r, before |-> req[r].role, after |-> NewRole(r)] \in Entry
      BY <1>1, <1>2, RequestTypes DEF RequestRow
    <3> HIDE DEF Entry
    <3> QED
      BY <1>1, <2>1, <3>1 DEF AppendAudit
  <2>2. ASSUME NEW r \in Request, RequestStep(r), ~ AppendAudit(r)
        PROVE  UNCHANGED audit
    BY <2>2
       DEF RequestStep, AccountRequest, Register, Reread, Login, SaveToken,
       FindToken, LockToken, LockUser, NotFound, RevokeFamily, RefuseExpired,
       Rotate, Logout, ScanToken, RevokeAll, ReadRole, SetRole, SoftDelete,
       RestoreUser, RollBack, table
  <2> QED
    BY <1>1, <2>1, <2>2, SessionsSteps DEF Expire, sessionsVars
<1>5. /\ req' \in [Request -> RequestRow]
      /\ \A q \in Request : /\ req'[q].token \in 0 .. Len(tokens')
                            /\ req'[q].scanned \in 0 .. Len(tokens')
  <2>1. CASE \E r \in Request : RequestStep(r)
    BY <2>1, RequestsStep, TokensStep
  <2>2. CASE req' = req
    <3>1. Len(tokens) \in Nat /\ Len(tokens') \in Nat /\ Len(tokens') >= Len(tokens)
      BY <1>1, TokensStep, TokenTypes
    <3> QED
      BY <1>1, <2>2, <3>1, RequestTypes
  <2> QED
    BY <2>1, <2>2, SessionsSteps DEF Expire, sessionsVars
<1>6. req' \in [Request -> [pc : {"fresh", "reread", "created", "insert",
                                  "lockToken", "lockUser", "tx", "logout",
                                  "setRole", "audit", "closed"},
                            token : 0 .. Len(tokens'), role : Role,
                            scanned : 0 .. Len(tokens'), fit : BOOLEAN,
                            used : BOOLEAN, late : BOOLEAN]]
  BY <1>5 DEF RequestRow
<1>7. tokens' \in Seq([family : Ids', role : Role, rotated : BOOLEAN,
                       revoked : BOOLEAN, expired : BOOLEAN])
  <2> DEFINE Narrow == [family : Ids', role : Role, rotated : BOOLEAN,
                        revoked : BOOLEAN, expired : BOOLEAN]
  <2>1. tokens' \in Seq(TokenRow) /\ \A i \in Ids' : tokens'[i].family \in Ids'
    BY TokensStep
  <2>2. ASSUME NEW i \in 1 .. Len(tokens') PROVE tokens'[i] \in Narrow
    <3>1. tokens'[i] \in TokenRow
      BY <2>1
    <3>2. tokens'[i].family \in Ids'
      BY <2>1 DEF Ids
    <3> QED
      BY <3>1, <3>2 DEF TokenRow
  <2> HIDE DEF Narrow
  <2>3. tokens' \in Seq(Narrow)
    BY <2>1, <2>2
  <2> QED
    BY <2>3 DEF Narrow
<1> QED
  BY <1>3, <1>4, <1>6, <1>7, AccountStep, TokensStep DEF SessionsTypeOK, AccountRow

LEMMA InitSessions ==
  ASSUME SessionsInit
  PROVE  SessionsInv
<1>1. Len(tokens) = 0 /\ Ids = {}
  BY DEF SessionsInit, Ids
<1>2. \A r \in Request : req[r] = Fresh /\ Fresh.pc = "fresh"
  BY DEF SessionsInit, Fresh, Begun
<1>3. SessionsTypeOK
  <2>1. Fresh \in [pc : {"fresh", "reread", "created", "insert",
                         "lockToken", "lockUser", "tx", "logout",
                         "setRole", "audit", "closed"},
                   token : 0 .. Len(tokens), role : Role,
                   scanned : 0 .. Len(tokens), fit : BOOLEAN,
                   used : BOOLEAN, late : BOOLEAN]
    BY <1>1 DEF Fresh, Begun, Role
  <2>2. account \in [state : {"absent", "active", "deleted"}, password : BOOLEAN,
                     role : Role]
    BY DEF SessionsInit, Role
  <2> QED
    BY <2>1, <2>2 DEF SessionsInit, SessionsTypeOK
<1>4. LocksExclusive
  BY <1>2 DEF LocksExclusive, Holds
<1>5. DecisionCurrent
  BY <1>2 DEF DecisionCurrent
<1>6. Sound
  BY <1>1 DEF Sound
<1>7. RolesFollow
  BY <1>2 DEF RolesFollow, SessionsInit
<1> QED
  BY <1>3, <1>4, <1>5, <1>6, <1>7 DEF SessionsInv

\* Whatever the requests do to one account in whatever order: the transaction of
\* auth.repository.ts decides on rows that stay as it read them, and each family
\* of tokens that is not shut has one live token.
THEOREM SessionsInvariance == SessionsSpec => []SessionsInv
<1>1. SessionsInit => SessionsInv
  BY InitSessions
<1>2. SessionsInv /\ [SessionsNext]_sessionsVars => SessionsInv'
  BY TypesStep, LocksStep, DecisionStep, SoundStep, RolesStep DEF SessionsInv
<1> QED
  BY <1>1, <1>2, PTL DEF SessionsSpec

\* rotateRefreshToken, logout and login leave each login one token to go on with,
\* or none once the family was revoked.
THEOREM OneSessionPerLogin == SessionsSpec => []OneLiveToken
<1>1. SessionsInv => OneLiveToken
  <2> SUFFICES ASSUME SessionsInv, NEW i \in Ids
               PROVE  LET f == tokens[i].family IN
                      Cardinality({j \in Family(f) : Live(j)}) =
                        IF f \in shut THEN 0 ELSE 1
    BY DEF OneLiveToken
  <2> DEFINE f    == tokens[i].family
             live == {j \in Family(f) : Live(j)}
  <2>1. f \in shut => live = {}
    BY DEF SessionsInv, Sound
  <2>2. ASSUME f \notin shut PROVE \E j : live = {j}
    <3>1. PICK j \in Family(f) : Live(j)
      BY <2>2 DEF SessionsInv, Sound
    <3>2. \A k \in live : k = j
      BY <3>1 DEF SessionsInv, Sound, Family
    <3> QED
      BY <3>1, <3>2
  <2> HIDE DEF live
  <2>3. f \notin shut => Cardinality(live) = 1
    BY <2>2, FS_Singleton
  <2> QED
    BY <2>1, <2>3, FS_EmptySet DEF live
<1> QED
  BY <1>1, SessionsInvariance, PTL

\* The pair a refresh signs, and the row an audit names, carry a role that was
\* the account's while the request ran, not one out of an old claim.
THEOREM RolesInForce == SessionsSpec => []RoleWasInForce
<1>1. SessionsInv => RoleWasInForce
  BY DEF SessionsInv, RolesFollow, RoleWasInForce
<1> QED
  BY <1>1, SessionsInvariance, PTL

\* Only rotateRefreshToken sets rotated_at, under the lock of the users row on
\* which it saw deleted_at IS NULL.
THEOREM DeletedStayOut == SessionsSpec => DeletedNotRefreshed
<1>1. ASSUME SessionsInv, [SessionsNext]_sessionsVars,
             NEW i \in Ids, tokens'[i].rotated # tokens[i].rotated
      PROVE  account.state = "active"
  <2>1. SessionsTypeOK
    BY <1>1 DEF SessionsInv
  <2>2. ASSUME NEW rows, Revoke(rows) PROVE FALSE
    BY <1>1, <2>1, <2>2, RevokedRows
  <2>3. ASSUME NEW t \in Ids, Expire(t) PROVE FALSE
    BY <1>1, <2>1, <2>3, ExpiredRow
  <2>4. ASSUME NEW r \in Request, SaveToken(r) PROVE FALSE
    <3>1. /\ tokens' = Append(tokens, Token(Len(tokens) + 1, req[r].role))
          /\ tokens \in Seq(TokenRow)
          /\ req[r].role \in Role /\ Len(tokens) + 1 \in Nat
      BY <2>1, <2>4, TokenTypes, RequestTypes DEF SaveToken, RequestRow
    <3>2. tokens'[i] = tokens[i]
      BY <3>1, AddedRow DEF Ids
    <3> QED
      BY <1>1, <3>2
  <2>5. ASSUME NEW r \in Request, Rotate(r) PROVE account.state = "active"
    BY <1>1, <2>5 DEF Rotate, At, SessionsInv, DecisionCurrent
  <2>6. tokens' # tokens
    BY <1>1
  <2> QED
    BY <1>1, <2>2, <2>3, <2>4, <2>5, <2>6, SessionsSteps, TableChanges
       DEF RevokeFamily, RefuseExpired, RevokeAll, sessionsVars
<1>2. SessionsInv /\ [SessionsNext]_sessionsVars =>
        [(\E i \in Ids : tokens'[i].rotated # tokens[i].rotated) =>
            account.state = "active"]_sessionsVars
  BY <1>1
<1> QED
  BY <1>2, SessionsInvariance, PTL DEF SessionsSpec, DeletedNotRefreshed

-----------------------------------------------------------------------------
(* MapCache: the rows of calls.                                            *)

CallPc == {"new", "get", "select", "set", "write", "delMap", "keys", "delRoutes",
           "audit", "end"}
Stage  == {"read", "before", "after", "delete", "restore"}

CallRow == [pc : CallPc, key : CacheKey, val : Nat, before : Nat, stage : Stage,
            dels : SUBSET RouteKey]

\* Versions that there are, of a call and of an entry.
Dated(me) == me.val <= Len(owners) /\ me.before <= Len(owners)

LEMMA MapTypes ==
  ASSUME MapCacheTypeOK
  PROVE  /\ Len(owners) \in Nat /\ \A v \in 1 .. Len(owners) : owners[v] \in Owner
         /\ call \in [Call -> CallRow]
         /\ \A c \in Call : call[c] \in CallRow /\ Dated(call[c])
         /\ \A k \in CacheKey : cache[k] \in Nat \cup {None}
         /\ \A k \in CacheKey : cache[k] # None => cache[k] <= Len(owners)
<1>1. Len(owners) \in Nat /\ \A v \in 1 .. Len(owners) : owners[v] \in Owner
  BY DEF MapCacheTypeOK
<1>2. \A c \in Call : call[c] \in CallRow /\ Dated(call[c])
  BY <1>1 DEF MapCacheTypeOK, CallRow, CallPc, Stage, Version, Dated
<1>3. call \in [Call -> CallRow]
  BY <1>2 DEF MapCacheTypeOK
<1>4. \A k \in CacheKey : /\ cache[k] \in Nat \cup {None}
                          /\ cache[k] # None => cache[k] <= Len(owners)
  BY <1>1 DEF MapCacheTypeOK, Version, None
<1> QED
  BY <1>1, <1>2, <1>3, <1>4

LEMMA MapTypesAgain ==
  ASSUME owners' \in Seq(Owner), deleted' \in BOOLEAN,
         cache' \in [CacheKey -> Nat \cup {None}],
         \A k \in CacheKey : cache'[k] # None => cache'[k] <= Len(owners'),
         trail' \in Seq([before : Owner, after : Owner]),
         call' \in [Call -> CallRow], \A c \in Call : Dated(call[c])',
         tainted' \subseteq CacheKey, calm' \in BOOLEAN
  PROVE  MapCacheTypeOK'
<1>1. Len(owners') \in Nat
  OBVIOUS
<1>2. cache' \in [CacheKey -> 0 .. Len(owners') \cup {None}]
  BY <1>1
<1> DEFINE Dates == [pc : CallPc, key : CacheKey, val : 0 .. Len(owners'),
                     before : 0 .. Len(owners'), stage : Stage,
                     dels : SUBSET RouteKey]
<1>3. \A c \in Call : call'[c] \in Dates
  <2> SUFFICES ASSUME NEW c \in Call PROVE call'[c] \in Dates
    OBVIOUS
  <2>1. call'[c] \in CallRow /\ Dated(call[c])'
    OBVIOUS
  <2> QED
    BY <1>1, <2>1 DEF CallRow, Dated
<1>4. call' \in [Call -> Dates]
  BY <1>3
<1> QED
  BY <1>2, <1>4 DEF MapCacheTypeOK, CallPc, Stage, Version

\* The rows that the steps write.
LEMMA BeginRow ==
  ASSUME NEW pc \in CallPc, NEW k \in CacheKey, NEW stage \in Stage
  PROVE  LET me == Begin(pc, k, stage) IN
         /\ me \in CallRow /\ me.pc = pc /\ me.key = k /\ me.stage = stage
         /\ me.val = 0 /\ me.before = 0 /\ me.dels = {}
BY DEF Begin, CallRow

\* The updates of a row that the steps make, each with a name.
Moved(me, pc)    == [me EXCEPT !.pc = pc]
Answered(me, v)  == [me EXCEPT !.pc = "set", !.val = v]
Compared(me, v)  == [me EXCEPT !.pc = "audit", !.val = v]
Prepared(me, v)  == [me EXCEPT !.pc = "write", !.before = v]
Reloaded(me)     == [me EXCEPT !.pc = "get", !.stage = "after"]
Listed(me, ks)   == [me EXCEPT !.pc = "delRoutes", !.dels = ks]
Without(me, k)   == [me EXCEPT !.dels = @ \ {k}]

LEMMA MovedRow ==
  ASSUME NEW me \in CallRow, NEW pc \in CallPc
  PROVE  LET new == Moved(me, pc) IN
         /\ new \in CallRow /\ new.pc = pc /\ new.key = me.key
         /\ new.stage = me.stage /\ new.val = me.val /\ new.before = me.before
         /\ new.dels = me.dels
BY DEF Moved, CallRow

LEMMA WithoutRow ==
  ASSUME NEW me \in CallRow, NEW k
  PROVE  LET new == Without(me, k) IN
         /\ new \in CallRow /\ new.pc = me.pc /\ new.key = me.key
         /\ new.stage = me.stage /\ new.val = me.val /\ new.before = me.before
         /\ new.dels = me.dels \ {k}
BY DEF Without, CallRow

LEMMA AnsweredRow ==
  ASSUME NEW me \in CallRow, NEW v \in Nat
  PROVE  LET new == Answered(me, v) IN
         /\ new \in CallRow /\ new.pc = "set" /\ new.key = me.key
         /\ new.stage = me.stage /\ new.val = v /\ new.before = me.before
         /\ new.dels = me.dels
<1> DEFINE mid == Moved(me, "set")
           new == [mid EXCEPT !.val = v]
<1>1. /\ mid \in CallRow /\ mid.pc = "set" /\ mid.key = me.key
      /\ mid.stage = me.stage /\ mid.before = me.before
      /\ mid.dels = me.dels
  BY MovedRow DEF CallPc
<1>2. new = Answered(me, v)
  BY DEF Moved, Answered
<1> HIDE DEF mid
<1>3. /\ new \in CallRow /\ new.pc = "set" /\ new.key = me.key
      /\ new.stage = me.stage /\ new.val = v /\ new.before = me.before
      /\ new.dels = me.dels
  BY <1>1 DEF CallRow
<1> HIDE DEF new
<1> QED
  BY <1>2, <1>3

LEMMA ComparedRow ==
  ASSUME NEW me \in CallRow, NEW v \in Nat
  PROVE  LET new == Compared(me, v) IN
         /\ new \in CallRow /\ new.pc = "audit" /\ new.key = me.key
         /\ new.stage = me.stage /\ new.val = v /\ new.before = me.before
         /\ new.dels = me.dels
<1> DEFINE mid == Moved(me, "audit")
           new == [mid EXCEPT !.val = v]
<1>1. /\ mid \in CallRow /\ mid.pc = "audit" /\ mid.key = me.key
      /\ mid.stage = me.stage /\ mid.before = me.before
      /\ mid.dels = me.dels
  BY MovedRow DEF CallPc
<1>2. new = Compared(me, v)
  BY DEF Moved, Compared
<1> HIDE DEF mid
<1>3. /\ new \in CallRow /\ new.pc = "audit" /\ new.key = me.key
      /\ new.stage = me.stage /\ new.val = v /\ new.before = me.before
      /\ new.dels = me.dels
  BY <1>1 DEF CallRow
<1> HIDE DEF new
<1> QED
  BY <1>2, <1>3

LEMMA PreparedRow ==
  ASSUME NEW me \in CallRow, NEW v \in Nat
  PROVE  LET new == Prepared(me, v) IN
         /\ new \in CallRow /\ new.pc = "write" /\ new.key = me.key
         /\ new.stage = me.stage /\ new.val = me.val /\ new.before = v
         /\ new.dels = me.dels
<1> DEFINE mid == Moved(me, "write")
           new == [mid EXCEPT !.before = v]
<1>1. /\ mid \in CallRow /\ mid.pc = "write" /\ mid.key = me.key
      /\ mid.stage = me.stage /\ mid.val = me.val
      /\ mid.dels = me.dels
  BY MovedRow DEF CallPc
<1>2. new = Prepared(me, v)
  BY DEF Moved, Prepared
<1> HIDE DEF mid
<1>3. /\ new \in CallRow /\ new.pc = "write" /\ new.key = me.key
      /\ new.stage = me.stage /\ new.val = me.val /\ new.before = v
      /\ new.dels = me.dels
  BY <1>1 DEF CallRow
<1> HIDE DEF new
<1> QED
  BY <1>2, <1>3

LEMMA ReloadedRow ==
  ASSUME NEW me \in CallRow
  PROVE  LET new == Reloaded(me) IN
         /\ new \in CallRow /\ new.pc = "get" /\ new.key = me.key
         /\ new.stage = "after" /\ new.val = me.val /\ new.before = me.before
         /\ new.dels = me.dels
<1> DEFINE mid == Moved(me, "get")
           new == [mid EXCEPT !.stage = "after"]
<1>1. /\ mid \in CallRow /\ mid.pc = "get" /\ mid.key = me.key
      /\ mid.val = me.val /\ mid.before = me.before
      /\ mid.dels = me.dels
  BY MovedRow DEF CallPc
<1>2. new = Reloaded(me)
  BY DEF Moved, Reloaded
<1> HIDE DEF mid
<1>3. /\ new \in CallRow /\ new.pc = "get" /\ new.key = me.key
      /\ new.stage = "after" /\ new.val = me.val /\ new.before = me.before
      /\ new.dels = me.dels
  BY <1>1 DEF CallRow, Stage
<1> HIDE DEF new
<1> QED
  BY <1>2, <1>3

LEMMA ListedRow ==
  ASSUME NEW me \in CallRow, NEW ks \in SUBSET RouteKey
  PROVE  LET new == Listed(me, ks) IN
         /\ new \in CallRow /\ new.pc = "delRoutes" /\ new.key = me.key
         /\ new.stage = me.stage /\ new.val = me.val /\ new.before = me.before
         /\ new.dels = ks
<1> DEFINE mid == Moved(me, "delRoutes")
           new == [mid EXCEPT !.dels = ks]
<1>1. /\ mid \in CallRow /\ mid.pc = "delRoutes" /\ mid.key = me.key
      /\ mid.stage = me.stage /\ mid.val = me.val
      /\ mid.before = me.before
  BY MovedRow DEF CallPc
<1>2. new = Listed(me, ks)
  BY DEF Moved, Listed
<1> HIDE DEF mid
<1>3. /\ new \in CallRow /\ new.pc = "delRoutes" /\ new.key = me.key
      /\ new.stage = me.stage /\ new.val = me.val /\ new.before = me.before
      /\ new.dels = ks
  BY <1>1 DEF CallRow
<1> HIDE DEF new
<1> QED
  BY <1>2, <1>3

\* Where a call goes from a read that answered version v.
LEMMA WentRow ==
  ASSUME MapCacheTypeOK, NEW c \in Call, Shaped(call[c]),
         call[c].pc \in {"get", "select", "set"},
         NEW v \in Nat, v <= Len(owners)
  PROVE  LET new == Went(c, v) IN
         /\ new \in CallRow /\ Dated(new) /\ Shaped(new)
         /\ new.pc \in {"end", "write", "audit"} /\ new.dels = {}
         /\ call[c].stage = "read" => new = Over
         /\ call[c].stage = "before" =>
              /\ new.pc = "write" /\ new.stage = "before" /\ new.before = v
         /\ call[c].stage \in {"before", "after", "read"}
         /\ call[c].stage = "after" =>
              IF call[c].before # 0 /\ v # 0 /\ owners[call[c].before] # owners[v]
                THEN /\ new.pc = "audit" /\ new.stage = "after"
                     /\ new.before = call[c].before /\ new.val = v
                ELSE new = Over
<1> PICK me \in CallRow : me = call[c] /\ Dated(me)
  BY MapTypes
<1>1. me \in CallRow /\ Dated(me)
  OBVIOUS
<1>2. /\ me.stage \in {"read", "before", "after"} /\ me.dels = {}
      /\ me.stage # "read" => me.key = "map"
  BY <1>1 DEF Shaped, CallRow, Stage
<1>3. /\ Over \in CallRow /\ Over.pc = "end" /\ Over.val = 0 /\ Over.before = 0
      /\ Over.stage = "read" /\ Over.dels = {} /\ Over.key = "map"
  BY BeginRow DEF Over, CallPc, Stage, CacheKey
<1>4. Dated(Over) /\ Shaped(Over)
  BY <1>3, MapTypes DEF Dated, Shaped
<1>5. CASE me.stage = "read"
  BY <1>3, <1>4, <1>5 DEF Went
<1>6. CASE me.stage = "before"
  <2> DEFINE new == Prepared(me, v)
  <2>1. Went(c, v) = new
    BY <1>6 DEF Went, Prepared
  <2>2. /\ new \in CallRow /\ new.pc = "write" /\ new.key = me.key
        /\ new.stage = me.stage /\ new.val = me.val /\ new.before = v
        /\ new.dels = me.dels
    BY PreparedRow
  <2> HIDE DEF new
  <2> QED
    BY <1>1, <1>2, <1>6, <2>1, <2>2 DEF Dated, Shaped
<1>7. CASE me.stage = "after"
  <2>1. CASE me.before # 0 /\ v # 0 /\ owners[me.before] # owners[v]
    <3> DEFINE new == Compared(me, v)
    <3>1. Went(c, v) = new
      BY <1>7, <2>1 DEF Went, Compared
    <3>2. /\ new \in CallRow /\ new.pc = "audit" /\ new.key = me.key
          /\ new.stage = me.stage /\ new.val = v /\ new.before = me.before
          /\ new.dels = me.dels
      BY ComparedRow
    <3> HIDE DEF new
    <3> QED
      BY <1>1, <1>2, <1>7, <2>1, <3>1, <3>2 DEF Dated, Shaped
  <2>2. CASE ~(me.before # 0 /\ v # 0 /\ owners[me.before] # owners[v])
    BY <1>3, <1>4, <1>7, <2>2 DEF Went
  <2> QED
    BY <2>1, <2>2
<1> QED
  BY <1>2, <1>5, <1>6, <1>7

-----------------------------------------------------------------------------
(* MapCache: what a step has to show.                                      *)

\* WillDrop, Writing and the version that waits for its audit, by the row.
Drops(me, k) ==
  IF k = "map" THEN me.pc = "delMap"
  ELSE \/ k \in me.dels
       \/ me.pc = "keys"
       \/ me.pc = "delMap" /\ me.stage # "restore"

Writer(me)  == me.pc \notin {"new", "end"} /\ me.stage # "read"
Pending(me) == me.before # 0 /\ me.before = Len(owners) - 1

LEMMA InvAgain ==
  ASSUME MapCacheInv, NEW c \in Call, NEW row \in CallRow,
         call' = [call EXCEPT ![c] = row], Shaped(row), Dated(row)',
         owners' \in Seq(Owner), Len(owners') >= Len(owners),
         deleted' \in BOOLEAN, trail' \in Seq([before : Owner, after : Owner]),
         tainted' \subseteq CacheKey, calm' \in BOOLEAN,
         cache' \in [CacheKey -> Nat \cup {None}],
         \A k \in CacheKey : cache'[k] # None => cache'[k] <= Len(owners'),
         cache'["map"] # 0,
         \A k \in CacheKey :
           \/ k \in tainted' \/ cache'[k] \in {None, View(k)'} \/ Drops(row, k)
           \/ /\ k \notin tainted /\ cache'[k] = cache[k] /\ View(k)' = View(k)
              /\ Drops(call[c], k) => Drops(row, k),
         calm' => Undisturbed'
  PROVE  MapCacheInv'
<1>1. /\ call \in [Call -> CallRow] /\ Len(owners) \in Nat
      /\ \A d \in Call : Dated(call[d]) /\ call[d] \in CallRow
      /\ \A d \in Call : Shaped(call[d])
      /\ Len(owners') \in Nat
  BY MapTypes DEF MapCacheInv
<1>2. call'[c] = row /\ \A d \in Call : d # c => call'[d] = call[d]
  BY <1>1
<1>3. \A d \in Call : Dated(call[d])'
  <2>1. ASSUME NEW d \in Call, d # c PROVE Dated(call[d])'
    <3>1. /\ call[d].val \in Nat /\ call[d].before \in Nat
          /\ call[d].val <= Len(owners) /\ call[d].before <= Len(owners)
      BY <1>1 DEF Dated, CallRow
    <3>2. call'[d] = call[d]
      BY <1>2, <2>1
    <3> QED
      BY <1>1, <3>1, <3>2 DEF Dated
  <2>2. Dated(call[c])'
    BY <1>2 DEF Dated
  <2> QED
    BY <2>1, <2>2
<1>4. call' \in [Call -> CallRow] /\ \A d \in Call : Shaped(call'[d])
  BY <1>1, <1>2
<1>5. MapCacheTypeOK'
  BY <1>3, <1>4, MapTypesAgain
<1>6. StaleExplained'
  <2> SUFFICES ASSUME NEW k \in CacheKey, k \notin tainted'
               PROVE  \/ cache'[k] \in {None, View(k)'}
                      \/ \E d \in Call : WillDrop(d, k)'
    BY DEF StaleExplained, CacheKey
  <2>1. \A d \in Call : /\ WillDrop(d, k) <=> Drops(call[d], k)
                        /\ WillDrop(d, k)' <=> Drops(call'[d], k)
    BY DEF WillDrop, Drops
  <2>2. CASE Drops(row, k)
    BY <1>2, <2>1, <2>2
  <2>3. CASE /\ k \notin tainted /\ cache'[k] = cache[k] /\ View(k)' = View(k)
             /\ Drops(call[c], k) => Drops(row, k)
    BY <1>2, <2>1, <2>3 DEF MapCacheInv, StaleExplained
  <2> QED
    BY <2>2, <2>3
<1> QED
  BY <1>4, <1>5, <1>6 DEF MapCacheInv

\* Nobody else is a writer beside a writer, and none has read a version.
LEMMA OthersAtRest ==
  ASSUME MapCacheInv, calm, NEW c \in Call, NEW d \in Call, d # c,
         Writer(call[c]) \/ Writer(call[d]) => Writer(call[c])
  PROVE  ~Writer(call[d]) /\ call[d].before = 0 /\ call[d].pc # "write"
<1>1. Undisturbed /\ Shaped(call[d]) /\ Paced(call[d])
  BY DEF MapCacheInv, Undisturbed
<1>2. ~Writer(call[d])
  BY <1>1 DEF Undisturbed, Writing, Writer
<1>3. call[d].stage = "read"
  BY <1>1, <1>2 DEF Writer, Shaped
<1> QED
  BY <1>1, <1>2, <1>3 DEF Paced, Shaped

\* A version that waits for its audit belongs to a writer.
LEMMA PendingWrites ==
  ASSUME MapCacheInv, calm, NEW c \in Call, call[c].before # 0
  PROVE  Writer(call[c]) /\ call[c].stage \in {"before", "after"}
<1>1. Shaped(call[c]) /\ Paced(call[c]) /\ call[c] \in CallRow
  BY MapTypes DEF MapCacheInv, Undisturbed
<1> QED
  BY <1>1 DEF Shaped, Paced, Writer, CallRow, Stage

LEMMA SettledIs ==
  ASSUME MapCacheInv, calm, NEW c \in Call,
         Writer(call[c]) \/ \A d \in Call : ~Writer(call[d])
  PROVE  Settled = IF Pending(call[c]) THEN Len(owners) - 1 ELSE Len(owners)
<1>1. \A d \in Call : d # c => call[d].before = 0
  BY OthersAtRest
<1> QED
  BY <1>1 DEF Settled, Pending

LEMMA ChangesOf ==
  ASSUME NEW n \in Nat, n > 0
  PROVE  /\ Changes(n) = IF n > 1 /\ owners[n - 1] # owners[n]
                           THEN Changes(n - 1) \cup {n - 1} ELSE Changes(n - 1)
         /\ IsFiniteSet(Changes(n - 1)) /\ n - 1 \notin Changes(n - 1)
<1>1. IsFiniteSet(Changes(n - 1))
  <2>1. IsFiniteSet(1 .. n - 1 - 1) /\ Changes(n - 1) \subseteq 1 .. n - 1 - 1
    BY FS_Interval DEF Changes
  <2> QED
    BY <2>1, FS_Subset
<1>2. n - 1 \notin Changes(n - 1)
  BY DEF Changes
<1>3. Changes(n) = {v \in 1 .. n - 1 : owners[v] # owners[v + 1]}
  BY DEF Changes
<1>4. Changes(n - 1) = {v \in 1 .. n - 2 : owners[v] # owners[v + 1]}
  BY DEF Changes
<1>5. n - 1 + 1 = n
  OBVIOUS
<1>6. CASE n = 1
  <2>1. \A v \in 1 .. n - 1 : FALSE
    BY <1>6
  <2>2. \A v \in 1 .. n - 2 : FALSE
    BY <1>6
  <2>3. Changes(n) = {} /\ Changes(n - 1) = {}
    BY <1>3, <1>4, <2>1, <2>2
  <2> QED
    BY <1>1, <1>2, <1>6, <2>3
<1>7. CASE n > 1
  <2>1. \A v : v \in 1 .. n - 1 <=> v \in 1 .. n - 2 \/ v = n - 1
    BY <1>7
  <2>2. \A v : v \in Changes(n) <=>
                \/ v \in Changes(n - 1)
                \/ v = n - 1 /\ owners[n - 1] # owners[n]
    BY <1>3, <1>4, <1>5, <2>1
  <2> QED
    BY <1>1, <1>2, <1>7, <2>2
<1> QED
  BY <1>1, <1>2, <1>6, <1>7

LEMMA UndisturbedKept ==
  ASSUME MapCacheInv, calm, UNCHANGED stored, NEW c \in Call, NEW row \in CallRow,
         call' = [call EXCEPT ![c] = row], Paced(row), "map" \notin tainted',
         Writer(row) => Writer(call[c]) \/ \A d \in Call : ~Writer(call[d]),
         Pending(row) => Pending(call[c]),
         Pending(call[c]) /\ ~Pending(row) =>
           owners[call[c].before] = owners[Len(owners)]
  PROVE  Undisturbed'
<1>1. /\ Undisturbed /\ call \in [Call -> CallRow] /\ Len(owners) \in Nat
      /\ owners' = owners /\ deleted' = deleted /\ trail' = trail
  BY MapTypes DEF MapCacheInv, stored
<1>2. call'[c] = row /\ \A d \in Call : d # c => call'[d] = call[d]
  BY <1>1
<1>3. \A d \in Call : /\ Writing(d) <=> Writer(call[d])
                      /\ Writing(d)' <=> Writer(call'[d])
  BY DEF Writing, Writer
<1>4. \A d, e \in Call : Writing(d)' /\ Writing(e)' => d = e
  <2>1. \A d \in Call : d # c => (Writing(d)' <=> Writer(call[d]))
    BY <1>2, <1>3
  <2>2. \A d, e \in Call : Writer(call[d]) /\ Writer(call[e]) => d = e
    BY <1>1, <1>3 DEF Undisturbed
  <2>3. Writing(c)' <=> Writer(row)
    BY <1>2, <1>3
  <2> QED
    BY <2>1, <2>2, <2>3
<1>5. ASSUME NEW d \in Call PROVE Paced(call[d])'
  <2> PICK me : me = call'[d]
    OBVIOUS
  <2>1. Paced(me)
    BY <1>1, <1>2 DEF Undisturbed
  <2> QED
    BY <1>1, <2>1 DEF Paced, View
<1>6. CASE Pending(call[c]) /\ ~Pending(row)
  <2>1. Writer(call[c])
    BY <1>6, PendingWrites DEF Pending
  <2>2. \A d \in Call : d # c => call[d].before = 0
    BY <2>1, OthersAtRest
  <2>3. Settled = Len(owners) - 1 /\ Settled' = Len(owners)
    BY <1>1, <1>2, <1>6, <2>2 DEF Settled, Pending
  <2>4. /\ call[c].before = Len(owners) - 1 /\ call[c].before # 0
        /\ call[c].before \in Nat
    BY <1>1, <1>6 DEF Pending, CallRow
  <2>5. /\ Len(owners) \in Nat /\ Len(owners) > 0
        /\ owners[Len(owners) - 1] = owners[Len(owners)]
    BY <1>1, <1>6, <2>4
  <2>6. Changes(Len(owners)) = Changes(Len(owners) - 1)
    BY <2>5, ChangesOf
  <2>7. \A n : Changes(n)' = Changes(n)
    BY <1>1 DEF Changes
  <2> QED
    BY <1>1, <1>4, <1>5, <2>3, <2>5, <2>6, <2>7 DEF Undisturbed
<1>7. CASE Pending(call[c]) <=> Pending(row)
  <2>1. \A d \in Call : Pending(call[d]) <=> Pending(call'[d])
    BY <1>2, <1>7
  <2>2. Settled' = Settled
    BY <1>1, <2>1 DEF Settled, Pending
  <2>3. \A n : Changes(n)' = Changes(n)
    BY <1>1 DEF Changes
  <2> QED
    BY <1>1, <1>4, <1>5, <2>2, <2>3 DEF Undisturbed
<1> QED
  BY <1>6, <1>7

LEMMA QuietStep ==
  ASSUME MapCacheInv, NEW c \in Call, NEW row \in CallRow,
         call' = [call EXCEPT ![c] = row], Shaped(row), Dated(row),
         UNCHANGED stored,
         cache' \in [CacheKey -> Nat \cup {None}],
         \A k \in CacheKey : cache'[k] \in {cache[k], None},
         tainted' \subseteq CacheKey, calm' \in BOOLEAN, calm' => calm,
         \A k \in CacheKey :
           \/ k \in tainted' \/ cache'[k] = None
           \/ k \notin tainted /\ (Drops(call[c], k) => Drops(row, k)),
         calm' =>
           /\ Paced(row) /\ "map" \notin tainted'
           /\ Writer(row) => Writer(call[c]) \/ \A d \in Call : ~Writer(call[d])
           /\ Pending(row) => Pending(call[c])
           /\ Pending(call[c]) /\ ~Pending(row) =>
                owners[call[c].before] = owners[Len(owners)]
  PROVE  MapCacheInv'
<1>1. /\ Len(owners) \in Nat /\ owners' = owners /\ deleted' = deleted
      /\ trail' = trail /\ owners \in Seq(Owner) /\ deleted \in BOOLEAN
      /\ trail \in Seq([before : Owner, after : Owner]) /\ cache["map"] # 0
      /\ "map" \in CacheKey /\ None # 0
  BY MapTypes DEF MapCacheInv, MapCacheTypeOK, stored, CacheKey, None
<1>2. Dated(row)'
  BY <1>1 DEF Dated
<1>3. \A k \in CacheKey : cache'[k] # None => cache'[k] <= Len(owners')
  BY <1>1, MapTypes DEF MapCacheInv
<1>4. \A k : View(k)' = View(k)
  BY <1>1 DEF View
<1>5. calm' => Undisturbed'
  BY UndisturbedKept
<1>6. \A k \in CacheKey :
        \/ k \in tainted' \/ cache'[k] \in {None, View(k)'} \/ Drops(row, k)
        \/ /\ k \notin tainted /\ cache'[k] = cache[k] /\ View(k)' = View(k)
           /\ Drops(call[c], k) => Drops(row, k)
  BY <1>4
<1>7. cache'["map"] # 0
  BY <1>1
<1>8. /\ owners' \in Seq(Owner) /\ Len(owners') >= Len(owners)
      /\ deleted' \in BOOLEAN
      /\ trail' \in Seq([before : Owner, after : Owner])
  BY <1>1
<1> QED
  BY <1>2, <1>3, <1>5, <1>6, <1>7, <1>8, InvAgain

\* A writer reads the version that there is, out of the cache too.
LEMMA CachedIsView ==
  ASSUME MapCacheInv, calm, NEW c \in Call, Writer(call[c]), call[c].pc # "delMap",
         cache["map"] # None
  PROVE  cache["map"] = View("map")
<1>1. "map" \in CacheKey \ tainted
  BY DEF MapCacheInv, Undisturbed, CacheKey
<1>2. ASSUME NEW d \in Call, WillDrop(d, "map") PROVE FALSE
  <2>1. call[d].pc = "delMap" /\ Shaped(call[d])
    BY <1>2 DEF WillDrop, MapCacheInv
  <2>2. Writer(call[d])
    BY <2>1 DEF Shaped, Writer
  <2> QED
    BY <2>1, <2>2, OthersAtRest
<1> QED
  BY <1>1, <1>2 DEF MapCacheInv, StaleExplained

\* An undisturbed writer goes on from the version that there is.
LEMMA WentCalm ==
  ASSUME MapCacheInv, calm, NEW c \in Call, NEW v \in Nat, v <= Len(owners),
         call[c].pc \in {"get", "select", "set"},
         Writer(call[c]) => v = View("map")
  PROVE  /\ Paced(Went(c, v)) /\ (Writer(Went(c, v)) => Writer(call[c]))
         /\ Pending(Went(c, v)) => Pending(call[c])
         /\ Pending(call[c]) /\ ~Pending(Went(c, v)) =>
              owners[call[c].before] = owners[Len(owners)]
<1> DEFINE me  == call[c]
           new == Went(c, v)
<1>1. /\ Shaped(me) /\ Paced(me) /\ me \in CallRow /\ Len(owners) \in Nat
      /\ MapCacheTypeOK
  BY MapTypes DEF MapCacheInv, Undisturbed
<1>2. /\ me.stage = "read" => new = Over
      /\ me.stage = "before" => new.pc = "write" /\ new.stage = "before" /\ new.before = v
      /\ me.stage \in {"before", "after", "read"}
      /\ me.stage = "after" =>
           IF me.before # 0 /\ v # 0 /\ owners[me.before] # owners[v]
             THEN /\ new.pc = "audit" /\ new.stage = "after"
                  /\ new.before = me.before /\ new.val = v
             ELSE new = Over
  BY <1>1, WentRow
<1>3. Over.pc = "end" /\ Over.before = 0 /\ Over.stage = "read"
  BY DEF Over, Begin
<1>4. Paced(Over) /\ ~Writer(Over) /\ ~Pending(Over)
  BY <1>3 DEF Paced, Writer, Pending
<1>5. me.stage \in {"before", "after"} => v = View("map") /\ Writer(me)
  BY <1>1 DEF Writer
<1>6. CASE me.stage = "read"
  <2>1. ~Pending(me)
    BY <1>1, <1>6 DEF Paced, Pending
  <2> QED
    BY <1>2, <1>4, <1>6, <2>1
<1>7. CASE me.stage = "before"
  <2>1. ~Pending(me)
    BY <1>1, <1>7 DEF Paced, Pending
  <2>2. v = View("map") /\ (v = 0 \/ v = Len(owners))
    BY <1>5, <1>7 DEF View
  <2>3. Paced(new) /\ ~Pending(new)
    BY <1>1, <1>2, <1>7, <2>2 DEF Paced, Pending
  <2> QED
    BY <1>5, <1>7, <2>1, <2>3
<1>8. CASE me.stage = "after"
  <2>1. /\ v = View("map") /\ me.before \in Nat
        /\ me.before # 0 => /\ me.before \in {Len(owners) - 1, Len(owners)}
                            /\ View("map") = Len(owners)
    BY <1>1, <1>5, <1>8 DEF Paced, CallRow
  <2>2. CASE me.before # 0 /\ v # 0 /\ owners[me.before] # owners[v]
    <3>1. v = Len(owners) /\ me.before = Len(owners) - 1
      BY <2>1, <2>2
    <3>2. Paced(new) /\ (Pending(new) <=> Pending(me))
      BY <1>1, <1>2, <1>8, <2>1, <2>2, <3>1 DEF Paced, Pending
    <3> QED
      BY <1>5, <1>8, <3>2
  <2>3. CASE ~(me.before # 0 /\ v # 0 /\ owners[me.before] # owners[v])
    <3>1. Pending(me) => owners[me.before] = owners[Len(owners)]
      BY <1>1, <2>1, <2>3 DEF Pending
    <3> QED
      BY <1>2, <1>4, <1>8, <2>3, <3>1
  <2> QED
    BY <2>2, <2>3
<1> QED
  BY <1>2, <1>6, <1>7, <1>8

-----------------------------------------------------------------------------
(* MapCache: the steps.                                                    *)

\* The row of a call that has not begun.
LEMMA NewRow ==
  ASSUME MapCacheInv, NEW c \in Call, call[c].pc = "new"
  PROVE  /\ call[c].stage = "read" /\ ~Writer(call[c])
         /\ \A k \in CacheKey : ~Drops(call[c], k)
         /\ calm => ~Pending(call[c]) /\ call[c].before = 0
<1>1. Shaped(call[c]) /\ (calm => Paced(call[c]))
  BY DEF MapCacheInv, Undisturbed
<1>2. call[c].dels = {} /\ call[c].stage = "read"
  BY <1>1 DEF Shaped
<1> QED
  BY <1>1, <1>2 DEF Writer, Drops, Paced, Pending

LEMMA BeginStep ==
  ASSUME MapCacheInv, NEW c \in Call,
         ReadMap(c) \/ RouteQuery(c) \/ UpdateMap(c)
  PROVE  MapCacheInv'
<1>1. /\ MapCacheTypeOK /\ tainted \subseteq CacheKey /\ calm \in BOOLEAN
      /\ cache \in [CacheKey -> Nat \cup {None}] /\ Len(owners) \in Nat
  BY MapTypes DEF MapCacheInv, MapCacheTypeOK
<1>2. PICK k \in CacheKey, stage \in {"read", "before"} :
        /\ Open(c, stage = "before", Begin("get", k, stage))
        /\ stage = "before" => k = "map"
        /\ UNCHANGED <<owners, deleted, tainted>>
  BY DEF ReadMap, RouteQuery, UpdateMap, CacheKey
<1> DEFINE row == Begin("get", k, stage)
<1>3. /\ row \in CallRow /\ row.pc = "get" /\ row.key = k /\ row.stage = stage
      /\ row.val = 0 /\ row.before = 0 /\ row.dels = {}
  BY BeginRow DEF CallPc, Stage
<1>4. Shaped(row) /\ Dated(row) /\ Paced(row) /\ ~Pending(row)
  BY <1>1, <1>2, <1>3 DEF Shaped, Dated, Paced, Pending
<1>5. Writer(row) => stage = "before"
  BY <1>3 DEF Writer
<1>6. /\ call[c].pc = "new" /\ call' = [call EXCEPT ![c] = row]
      /\ UNCHANGED <<cache, trail>> /\ calm' \in BOOLEAN /\ (calm' => calm)
      /\ calm' /\ stage = "before" => \A d \in Call : ~Writer(call[d])
  BY <1>1, <1>2 DEF Open, Writing, Writer
<1> HIDE DEF row
<1>7. /\ \A j \in CacheKey : ~Drops(call[c], j)
      /\ calm => ~Pending(call[c]) /\ "map" \notin tainted
  BY <1>6, NewRow DEF MapCacheInv, Undisturbed
<1>8. \A j \in CacheKey :
        \/ j \in tainted' \/ cache'[j] = None
        \/ j \notin tainted /\ (Drops(call[c], j) => Drops(row, j))
  BY <1>2, <1>7
<1> QED
  BY <1>1, <1>2, <1>3, <1>4, <1>5, <1>6, <1>7, <1>8, QuietStep DEF stored

\* Call c goes on with another row, and as a writer it keeps its pace.
Follows(c, row) ==
  /\ row \in CallRow /\ call' = [call EXCEPT ![c] = row]
  /\ Shaped(row) /\ Dated(row)
  /\ calm' =>
       /\ Paced(row) /\ (Writer(row) => Writer(call[c]))
       /\ Pending(row) => Pending(call[c])
       /\ Pending(call[c]) /\ ~Pending(row) =>
            owners[call[c].before] = owners[Len(owners)]

LEMMA GoesOn ==
  ASSUME MapCacheInv, NEW c \in Call, NEW row, Follows(c, row), UNCHANGED stored,
         cache' \in [CacheKey -> Nat \cup {None}],
         \A k \in CacheKey : cache'[k] \in {cache[k], None},
         tainted' \subseteq CacheKey, calm' \in BOOLEAN, calm' => calm,
         calm' => "map" \notin tainted',
         \A k \in CacheKey :
           \/ k \in tainted' \/ cache'[k] = None
           \/ k \notin tainted /\ (Drops(call[c], k) => Drops(row, k))
  PROVE  MapCacheInv'
BY QuietStep DEF Follows

LEMMA GoesOnCalm ==
  ASSUME MapCacheInv, NEW c \in Call, NEW row, Follows(c, row),
         UNCHANGED <<stored, cache, tainted, calm>>,
         \A k \in CacheKey : cache[k] # None /\ Drops(call[c], k) => Drops(row, k)
  PROVE  MapCacheInv'
<1>1. /\ cache \in [CacheKey -> Nat \cup {None}] /\ calm \in BOOLEAN
      /\ tainted \subseteq CacheKey /\ (calm => "map" \notin tainted)
  BY MapTypes DEF MapCacheInv, MapCacheTypeOK, Undisturbed
<1>2. \A k \in CacheKey :
        \/ k \in tainted' \/ cache'[k] = None
        \/ k \notin tainted /\ (Drops(call[c], k) => Drops(row, k))
  OBVIOUS
<1> QED
  BY <1>1, <1>2, GoesOn

\* What is known of a call that is on its way.
LEMMA RowFacts ==
  ASSUME MapCacheInv, NEW c \in Call
  PROVE  /\ call[c] \in CallRow /\ Shaped(call[c]) /\ Dated(call[c])
         /\ call[c].before \in Nat /\ call[c].val \in Nat
         /\ calm => Paced(call[c])
         /\ MapCacheTypeOK /\ Len(owners) \in Nat
         /\ cache \in [CacheKey -> Nat \cup {None}]
         /\ Over \in CallRow /\ Over.pc = "end" /\ Over.before = 0 /\ Over.val = 0
         /\ Over.stage = "read" /\ Over.dels = {} /\ Over.key = "map"
         /\ Shaped(Over) /\ Dated(Over) /\ Paced(Over) /\ ~Pending(Over)
         /\ ~Writer(Over)
<1>1. /\ call[c] \in CallRow /\ Shaped(call[c]) /\ Dated(call[c])
      /\ calm => Paced(call[c])
      /\ MapCacheTypeOK /\ Len(owners) \in Nat
      /\ cache \in [CacheKey -> Nat \cup {None}]
  BY MapTypes DEF MapCacheInv, MapCacheTypeOK, Undisturbed
<1>2. call[c].before \in Nat /\ call[c].val \in Nat
  BY <1>1 DEF CallRow
<1>3. /\ Over \in CallRow /\ Over.pc = "end" /\ Over.before = 0 /\ Over.val = 0
      /\ Over.stage = "read" /\ Over.dels = {} /\ Over.key = "map"
  BY BeginRow DEF Over, CallPc, Stage, CacheKey
<1>4. /\ Shaped(Over) /\ Dated(Over) /\ Paced(Over) /\ ~Pending(Over)
      /\ ~Writer(Over)
  BY <1>1, <1>3 DEF Shaped, Dated, Paced, Pending, Writer
<1> QED
  BY <1>1, <1>2, <1>3, <1>4

LEMMA ReadingDropsNothing ==
  ASSUME MapCacheInv, NEW c \in Call,
         call[c].pc \in {"get", "select", "set", "write", "audit"}
  PROVE  \A k \in CacheKey : ~Drops(call[c], k)
BY RowFacts DEF Shaped, Drops

\* A step that ends with Went, for a version that there is.
LEMMA WentFollows ==
  ASSUME MapCacheInv, NEW c \in Call, NEW v \in Nat, v <= Len(owners),
         call[c].pc \in {"get", "select", "set"},
         call' = [call EXCEPT ![c] = Went(c, v)],
         calm' => calm /\ (Writer(call[c]) => v = View("map"))
  PROVE  Follows(c, Went(c, v))
<1>1. /\ Went(c, v) \in CallRow /\ Dated(Went(c, v)) /\ Shaped(Went(c, v))
  BY RowFacts, WentRow
<1> QED
  BY <1>1, WentCalm DEF Follows

LEMMA GetStep ==
  ASSUME MapCacheInv, NEW c \in Call, Get(c)
  PROVE  MapCacheInv'
<1> PICK me \in CallRow : me = call[c]
  BY RowFacts
<1>1. me.pc = "get" /\ UNCHANGED <<stored, cache, mishaps, tainted, calm>>
  BY DEF Get
<1>2. CASE cache[me.key] = None
  <2> DEFINE row == Moved(me, "select")
  <2>1. /\ row \in CallRow /\ row.pc = "select" /\ row.key = me.key
        /\ row.stage = me.stage /\ row.val = me.val /\ row.before = me.before
        /\ row.dels = me.dels
    BY MovedRow DEF CallPc
  <2>2. call' = [call EXCEPT ![c] = row]
    BY <1>2 DEF Get, Moved
  <2> HIDE DEF row
  <2>3. Follows(c, row)
    BY <1>1, <2>1, <2>2, RowFacts DEF Follows, Shaped, Dated, Paced, Writer, Pending
  <2> QED
    BY <1>1, <2>3, GoesOnCalm, ReadingDropsNothing
<1>3. CASE cache[me.key] # None
  <2> PICK v \in Nat : v = cache[me.key] /\ v <= Len(owners)
    BY <1>3, MapTypes, RowFacts DEF CallRow
  <2>1. call' = [call EXCEPT ![c] = Went(c, v)]
    BY <1>3 DEF Get
  <2>2. calm /\ Writer(me) => v = View("map")
    <3>1. Writer(me) => me.key = "map"
      BY RowFacts DEF Writer, Shaped
    <3> QED
      BY <1>1, <1>3, <3>1, CachedIsView
  <2>3. Follows(c, Went(c, v))
    BY <1>1, <2>1, <2>2, WentFollows
  <2> QED
    BY <1>1, <2>3, GoesOnCalm, ReadingDropsNothing
<1> QED
  BY <1>2, <1>3

LEMMA SelectStep ==
  ASSUME MapCacheInv, NEW c \in Call, Select(c)
  PROVE  MapCacheInv'
<1> PICK me \in CallRow : me = call[c]
  BY RowFacts
<1>1. me.pc = "select" /\ UNCHANGED <<stored, cache, mishaps, tainted, calm>>
  BY DEF Select
<1> PICK v \in Nat : v = View(me.key) /\ v <= Len(owners)
  BY RowFacts DEF View
<1>2. Writer(me) => me.key = "map"
  BY RowFacts DEF Writer, Shaped
<1>3. CASE v = 0 /\ me.key = "map"
  <2>1. call' = [call EXCEPT ![c] = Went(c, v)]
    BY <1>3 DEF Select
  <2>2. Follows(c, Went(c, v))
    BY <1>1, <1>2, <2>1, WentFollows
  <2> QED
    BY <1>1, <2>2, GoesOnCalm, ReadingDropsNothing
<1>4. CASE ~(v = 0 /\ me.key = "map")
  <2> DEFINE row == Answered(me, v)
  <2>1. /\ row \in CallRow /\ row.pc = "set" /\ row.key = me.key
        /\ row.stage = me.stage /\ row.val = v /\ row.before = me.before
        /\ row.dels = me.dels
    BY AnsweredRow
  <2>2. call' = [call EXCEPT ![c] = row]
    BY <1>4 DEF Select, Answered
  <2> HIDE DEF row
  <2>3. Follows(c, row)
    BY <1>1, <1>4, <2>1, <2>2, RowFacts
       DEF Follows, Shaped, Dated, Paced, Writer, Pending
  <2> QED
    BY <1>1, <2>3, GoesOnCalm, ReadingDropsNothing
<1> QED
  BY <1>3, <1>4

LEMMA StoredStep ==
  ASSUME MapCacheInv, NEW c \in Call, NEW row, Follows(c, row), UNCHANGED stored,
         NEW k \in CacheKey, NEW v \in Nat, v <= Len(owners), k = "map" => v # 0,
         cache' = [cache EXCEPT ![k] = v],
         tainted' = IF v = View(k) THEN tainted \ {k} ELSE tainted \union {k},
         calm' = (calm /\ v = View(k)), \A j \in CacheKey : ~Drops(call[c], j)
  PROVE  MapCacheInv'
<1>1. /\ owners' = owners /\ deleted' = deleted /\ trail' = trail
      /\ row \in CallRow /\ Shaped(row) /\ call' = [call EXCEPT ![c] = row]
  BY DEF stored, Follows
<1>2. /\ cache \in [CacheKey -> Nat \cup {None}] /\ calm \in BOOLEAN
      /\ tainted \subseteq CacheKey /\ (calm => "map" \notin tainted)
      /\ owners \in Seq(Owner) /\ deleted \in BOOLEAN /\ cache["map"] # 0
      /\ trail \in Seq([before : Owner, after : Owner]) /\ Len(owners) \in Nat
      /\ \A j \in CacheKey : cache[j] # None => cache[j] <= Len(owners)
  BY MapTypes DEF MapCacheInv, MapCacheTypeOK, Undisturbed
<1>3. \A j : View(j)' = View(j)
  BY <1>1 DEF View
<1>4. \A j \in CacheKey :
        \/ j \in tainted' \/ cache'[j] \in {None, View(j)'} \/ Drops(row, j)
        \/ /\ j \notin tainted /\ cache'[j] = cache[j] /\ View(j)' = View(j)
           /\ Drops(call[c], j) => Drops(row, j)
  BY <1>2, <1>3
<1>5. calm' => Undisturbed'
  BY <1>1, <1>2, UndisturbedKept DEF Follows
<1>6. /\ cache' \in [CacheKey -> Nat \cup {None}] /\ tainted' \subseteq CacheKey
      /\ \A j \in CacheKey : cache'[j] # None => cache'[j] <= Len(owners')
      /\ calm' \in BOOLEAN /\ cache'["map"] # 0
      /\ owners' \in Seq(Owner) /\ Len(owners') >= Len(owners)
      /\ deleted' \in BOOLEAN /\ trail' \in Seq([before : Owner, after : Owner])
  BY <1>1, <1>2
<1>7. Dated(row)'
  BY <1>1 DEF Follows, Dated
<1> QED
  BY <1>1, <1>4, <1>5, <1>6, <1>7, InvAgain

LEMMA SetKeyStep ==
  ASSUME MapCacheInv, NEW c \in Call, SetKey(c)
  PROVE  MapCacheInv'
<1>1. PICK me \in CallRow : me = call[c]
  BY RowFacts
<1>2. PICK k \in CacheKey : k = me.key
  BY <1>1 DEF CallRow
<1>3. PICK v \in Nat : v = me.val /\ v <= Len(owners)
  BY <1>1, RowFacts DEF Dated
<1>4. /\ me.pc = "set" /\ cache' = [cache EXCEPT ![k] = v]
      /\ tainted' = IF v = View(k) THEN tainted \ {k} ELSE tainted \union {k}
      /\ calm' = (calm /\ v = View(k))
      /\ call' = [call EXCEPT ![c] = Went(c, v)] /\ UNCHANGED stored
  BY <1>1, <1>2, <1>3 DEF SetKey
<1>5. Follows(c, Went(c, v))
  <2>1. Writer(me) => k = "map"
    BY <1>1, <1>2, RowFacts DEF Writer, Shaped
  <2> QED
    BY <1>1, <1>3, <1>4, <2>1, WentFollows
<1>6. k = "map" => v # 0
  BY <1>1, <1>2, <1>3, <1>4, RowFacts DEF Shaped
<1>7. \A j \in CacheKey : ~Drops(call[c], j)
  BY <1>1, <1>4, ReadingDropsNothing
<1> QED
  BY <1>2, <1>3, <1>4, <1>5, <1>6, <1>7, StoredStep

LEMMA NoFieldsStep ==
  ASSUME MapCacheInv, NEW c \in Call, NoFields(c)
  PROVE  MapCacheInv'
<1> PICK me \in CallRow : me = call[c]
  BY RowFacts
<1> DEFINE row == Reloaded(me)
<1>1. me.pc = "write" /\ UNCHANGED <<stored, cache, mishaps, tainted, calm>>
  BY DEF NoFields
<1>2. /\ row \in CallRow /\ row.pc = "get" /\ row.key = me.key
      /\ row.stage = "after" /\ row.val = me.val /\ row.before = me.before
      /\ row.dels = me.dels
  BY ReloadedRow
<1>3. call' = [call EXCEPT ![c] = row]
  BY DEF NoFields, Reload, Reloaded
<1> HIDE DEF row
<1>4. me.stage = "before"
  BY <1>1, RowFacts DEF Shaped
<1>5. Follows(c, row)
  BY <1>1, <1>2, <1>3, <1>4, RowFacts
     DEF Follows, Shaped, Dated, Paced, Writer, Pending
<1> QED
  BY <1>1, <1>5, GoesOnCalm, ReadingDropsNothing

\* What follows the DEL of the map's own key, done or lost.
LEMMA AfterMapFollows ==
  ASSUME MapCacheInv, NEW c \in Call, call[c].pc = "delMap", AfterMap(c),
         calm' => calm
  PROVE  \E row : /\ Follows(c, row)
                  /\ \A k \in CacheKey :
                       k = "map" \/ (Drops(call[c], k) => Drops(row, k))
<1> PICK me \in CallRow : me = call[c]
  BY RowFacts
<1>1. Shaped(me) /\ me.dels = {}
  BY RowFacts DEF Shaped
<1>2. CASE me.stage = "restore"
  <2>1. call' = [call EXCEPT ![c] = Over]
    BY <1>2 DEF AfterMap, End
  <2>2. calm => ~Pending(me)
    BY <1>2, RowFacts DEF Paced, Pending
  <2>3. Follows(c, Over)
    BY <2>1, <2>2, RowFacts DEF Follows
  <2>4. \A k \in CacheKey : k = "map" \/ ~Drops(me, k)
    BY <1>1, <1>2 DEF Drops
  <2> QED
    BY <2>3, <2>4
<1>3. CASE me.stage # "restore"
  <2> DEFINE row == Moved(me, "keys")
  <2>1. /\ row \in CallRow /\ row.pc = "keys" /\ row.key = me.key
        /\ row.stage = me.stage /\ row.val = me.val /\ row.before = me.before
        /\ row.dels = me.dels
    BY MovedRow DEF CallPc
  <2>2. call' = [call EXCEPT ![c] = row]
    BY <1>3 DEF AfterMap, Go, Moved
  <2> HIDE DEF row
  <2>3. Follows(c, row)
    BY <1>1, <2>1, <2>2, RowFacts DEF Follows, Shaped, Dated, Paced, Writer, Pending
  <2>4. \A k \in CacheKey : k = "map" \/ Drops(row, k)
    BY <2>1 DEF Drops
  <2> QED
    BY <2>3, <2>4
<1> QED
  BY <1>2, <1>3

LEMMA DropMapStep ==
  ASSUME MapCacheInv, NEW c \in Call, DropMap(c)
  PROVE  MapCacheInv'
<1>1. /\ cache' = [cache EXCEPT !["map"] = None] /\ tainted' = tainted \ {"map"}
      /\ UNCHANGED <<stored, mishaps, calm>> /\ AfterMap(c) /\ call[c].pc = "delMap"
  BY DEF DropMap
<1>2. PICK row : /\ Follows(c, row)
                 /\ \A k \in CacheKey :
                      k = "map" \/ (Drops(call[c], k) => Drops(row, k))
  BY <1>1, AfterMapFollows
<1>3. /\ cache \in [CacheKey -> Nat \cup {None}] /\ "map" \in CacheKey
      /\ tainted \subseteq CacheKey /\ calm \in BOOLEAN
  BY RowFacts DEF MapCacheTypeOK, CacheKey
<1>4. /\ cache' \in [CacheKey -> Nat \cup {None}]
      /\ \A k \in CacheKey : cache'[k] \in {cache[k], None}
      /\ \A k \in CacheKey :
           \/ k \in tainted' \/ cache'[k] = None
           \/ k \notin tainted /\ (Drops(call[c], k) => Drops(row, k))
  BY <1>1, <1>2, <1>3
<1> QED
  BY <1>1, <1>2, <1>3, <1>4, GoesOn

LEMMA KeysStep ==
  ASSUME MapCacheInv, NEW c \in Call, Keys(c)
  PROVE  MapCacheInv'
<1> PICK me \in CallRow : me = call[c]
  BY RowFacts
<1> DEFINE ks  == {k \in RouteKey : cache[k] # None}
           row == Listed(me, ks)
<1>1. me.pc = "keys" /\ UNCHANGED <<stored, cache, mishaps, tainted, calm>>
  BY DEF Keys
<1>2. /\ row \in CallRow /\ row.pc = "delRoutes" /\ row.key = me.key
      /\ row.stage = me.stage /\ row.val = me.val /\ row.before = me.before
      /\ row.dels = ks
  BY ListedRow
<1>3. call' = [call EXCEPT ![c] = row]
  BY DEF Keys, Listed
<1> HIDE DEF row
<1>4. Follows(c, row)
  BY <1>1, <1>2, <1>3, RowFacts DEF Follows, Shaped, Dated, Paced, Writer, Pending
<1>5. \A k \in CacheKey : cache[k] # None /\ Drops(me, k) => Drops(row, k)
  BY <1>1, <1>2 DEF Drops, CacheKey
<1> QED
  BY <1>1, <1>4, <1>5, GoesOnCalm

\* One DEL of a route's key, done or lost.
LEMMA WithoutFollows ==
  ASSUME MapCacheInv, NEW c \in Call, call[c].pc = "delRoutes", NEW k,
         call' = [call EXCEPT ![c].dels = @ \ {k}], calm' => calm
  PROVE  \E row : /\ Follows(c, row)
                  /\ \A j \in CacheKey :
                       j = k \/ (Drops(call[c], j) => Drops(row, j))
<1> PICK me \in CallRow : me = call[c]
  BY RowFacts
<1> DEFINE row == Without(me, k)
<1>1. /\ row \in CallRow /\ row.pc = me.pc /\ row.key = me.key
      /\ row.stage = me.stage /\ row.val = me.val /\ row.before = me.before
      /\ row.dels = me.dels \ {k}
  BY WithoutRow
<1>2. call' = [call EXCEPT ![c] = row]
  BY DEF Without
<1> HIDE DEF row
<1>3. Follows(c, row)
  BY <1>1, <1>2, RowFacts DEF Follows, Shaped, Dated, Paced, Writer, Pending
<1>4. \A j \in CacheKey : j = k \/ (Drops(me, j) => Drops(row, j))
  BY <1>1 DEF Drops
<1> QED
  BY <1>3, <1>4

LEMMA DropRouteStep ==
  ASSUME MapCacheInv, NEW c \in Call, DropRoute(c)
  PROVE  MapCacheInv'
<1>1. PICK k \in call[c].dels : /\ cache' = [cache EXCEPT ![k] = None]
                                /\ tainted' = tainted \ {k}
                                /\ call' = [call EXCEPT ![c].dels = @ \ {k}]
  BY DEF DropRoute
<1>2. call[c].pc = "delRoutes" /\ UNCHANGED <<stored, mishaps, calm>>
  BY DEF DropRoute
<1>3. PICK row : /\ Follows(c, row)
                 /\ \A j \in CacheKey :
                      j = k \/ (Drops(call[c], j) => Drops(row, j))
  BY <1>1, <1>2, WithoutFollows
<1>4. /\ cache \in [CacheKey -> Nat \cup {None}] /\ calm \in BOOLEAN
      /\ tainted \subseteq CacheKey /\ (calm => "map" \notin tainted)
  BY RowFacts DEF MapCacheTypeOK, MapCacheInv, Undisturbed
<1>5. /\ cache' \in [CacheKey -> Nat \cup {None}]
      /\ \A j \in CacheKey : cache'[j] \in {cache[j], None}
      /\ \A j \in CacheKey :
           \/ j \in tainted' \/ cache'[j] = None
           \/ j \notin tainted /\ (Drops(call[c], j) => Drops(row, j))
  BY <1>1, <1>3, <1>4
<1> QED
  BY <1>1, <1>2, <1>3, <1>4, <1>5, GoesOn

LEMMA DroppedStep ==
  ASSUME MapCacheInv, NEW c \in Call, Dropped(c)
  PROVE  MapCacheInv'
<1> PICK me \in CallRow : me = call[c]
  BY RowFacts
<1>1. /\ me.pc = "delRoutes" /\ me.dels = {}
      /\ UNCHANGED <<stored, cache, mishaps, tainted, calm>>
  BY DEF Dropped
<1>2. \A k \in CacheKey : ~Drops(me, k)
  BY <1>1 DEF Drops
<1>3. CASE me.stage = "delete"
  <2>1. call' = [call EXCEPT ![c] = Over]
    BY <1>3 DEF Dropped, End
  <2>2. calm => ~Pending(me)
    BY <1>3, RowFacts DEF Paced, Pending
  <2>3. Follows(c, Over)
    BY <1>1, <2>1, <2>2, RowFacts DEF Follows
  <2> QED
    BY <1>1, <1>2, <2>3, GoesOnCalm
<1>4. CASE me.stage # "delete"
  <2> DEFINE row == Reloaded(me)
  <2>1. /\ row \in CallRow /\ row.pc = "get" /\ row.key = me.key
        /\ row.stage = "after" /\ row.val = me.val /\ row.before = me.before
        /\ row.dels = me.dels
    BY ReloadedRow
  <2>2. call' = [call EXCEPT ![c] = row]
    BY <1>4 DEF Dropped, Reload, Reloaded
  <2> HIDE DEF row
  <2>3. Follows(c, row)
    BY <1>1, <2>1, <2>2, RowFacts
       DEF Follows, Shaped, Dated, Paced, Writer, Pending
  <2> QED
    BY <1>1, <1>2, <2>3, GoesOnCalm
<1> QED
  BY <1>3, <1>4

LEMMA CommandFailsStep ==
  ASSUME MapCacheInv, NEW c \in Call, CommandFails(c)
  PROVE  MapCacheInv'
<1> PICK me \in CallRow : me = call[c]
  BY RowFacts
<1>1. calm' = FALSE /\ UNCHANGED stored /\ UNCHANGED cache
  BY DEF CommandFails
<1>2. /\ cache \in [CacheKey -> Nat \cup {None}]
      /\ tainted \subseteq CacheKey /\ "map" \in CacheKey /\ RouteKey \subseteq CacheKey
  BY RowFacts DEF MapCacheTypeOK, CacheKey
<1>3. ASSUME NEW row, Follows(c, row), tainted \subseteq tainted',
             tainted' \subseteq CacheKey,
             \A k \in CacheKey : k \in tainted' \/ (Drops(me, k) => Drops(row, k))
      PROVE  MapCacheInv'
  <2>1. \A k \in CacheKey :
          \/ k \in tainted' \/ cache'[k] = None
          \/ k \notin tainted /\ (Drops(call[c], k) => Drops(row, k))
    BY <1>3
  <2> QED
    BY <1>1, <1>2, <1>3, <2>1, GoesOn
<1>4. ASSUME NEW pc \in {"select", "delRoutes"}, Go(c, pc),
             pc = "select" => me.pc = "get", pc = "delRoutes" => me.pc = "keys"
      PROVE  Follows(c, Moved(me, pc))
  <2> DEFINE row == Moved(me, pc)
  <2>1. /\ row \in CallRow /\ row.pc = pc /\ row.key = me.key
        /\ row.stage = me.stage /\ row.val = me.val /\ row.before = me.before
        /\ row.dels = me.dels
    BY MovedRow DEF CallPc
  <2>2. call' = [call EXCEPT ![c] = row]
    BY <1>4 DEF Go, Moved
  <2> HIDE DEF row
  <2>3. Follows(c, row)
    BY <1>1, <1>4, <2>1, <2>2, RowFacts DEF Follows, Shaped, Dated
  <2> QED
    BY <2>3 DEF row
<1>5. CASE me.pc = "get" /\ Go(c, "select") /\ UNCHANGED tainted
  <2>1. \A k \in CacheKey : ~Drops(me, k)
    BY <1>5, ReadingDropsNothing
  <2> QED
    BY <1>2, <1>3, <1>4, <1>5, <2>1
<1>6. CASE /\ me.pc = "set" /\ call' = [call EXCEPT ![c] = Went(c, me.val)]
           /\ UNCHANGED tainted
  <2>1. \A k \in CacheKey : ~Drops(me, k)
    BY <1>6, ReadingDropsNothing
  <2>2. me.val \in Nat /\ me.val <= Len(owners)
    BY RowFacts DEF Dated
  <2>3. Follows(c, Went(c, me.val))
    BY <1>1, <1>6, <2>2, WentFollows
  <2> QED
    BY <1>2, <1>3, <1>6, <2>1, <2>3
<1>7. CASE /\ me.pc = "delMap" /\ AfterMap(c) /\ tainted' = tainted \union {"map"}
  <2>1. PICK row : /\ Follows(c, row)
                   /\ \A k \in CacheKey : k = "map" \/ (Drops(me, k) => Drops(row, k))
    BY <1>1, <1>7, AfterMapFollows
  <2> QED
    BY <1>2, <1>3, <1>7, <2>1
<1>8. CASE me.pc = "keys" /\ Go(c, "delRoutes") /\ tainted' = tainted \union RouteKey
  <2>1. \A k \in CacheKey : k \in RouteKey \/ ~Drops(me, k)
    BY <1>8 DEF Drops, CacheKey
  <2> QED
    BY <1>2, <1>3, <1>4, <1>8, <2>1
<1>9. ASSUME me.pc = "delRoutes", NEW k \in me.dels,
             call' = [call EXCEPT ![c].dels = @ \ {k}],
             tainted' = tainted \union {k}
      PROVE  MapCacheInv'
  <2>1. PICK row : /\ Follows(c, row)
                   /\ \A j \in CacheKey : j = k \/ (Drops(me, j) => Drops(row, j))
    BY <1>1, <1>9, WithoutFollows
  <2>2. k \in CacheKey
    BY <1>2 DEF CallRow
  <2> QED
    BY <1>2, <1>3, <1>9, <2>1, <2>2
<1> QED
  BY <1>5, <1>6, <1>7, <1>8, <1>9 DEF CommandFails

LEMMA DieStep ==
  ASSUME MapCacheInv, NEW c \in Call, Die(c)
  PROVE  MapCacheInv'
<1> PICK me \in CallRow : me = call[c]
  BY RowFacts
<1>1. /\ calm' = FALSE /\ UNCHANGED <<stored, cache>>
      /\ tainted' = IF Writing(c) THEN CacheKey ELSE tainted
      /\ call' = [call EXCEPT ![c] = Over]
      /\ me.pc \notin {"new", "end"}
  BY DEF Die, End
<1>2. /\ cache \in [CacheKey -> Nat \cup {None}] /\ tainted \subseteq CacheKey
  BY RowFacts DEF MapCacheTypeOK
<1>3. Follows(c, Over)
  BY <1>1, RowFacts DEF Follows
<1>4. ~Writing(c) => \A k \in CacheKey : ~Drops(me, k)
  <2>1. ~Writing(c) => me.pc \in {"get", "select", "set"}
    BY <1>1, RowFacts DEF Writing, Shaped
  <2> QED
    BY <2>1, ReadingDropsNothing
<1>5. \A k \in CacheKey :
        \/ k \in tainted' \/ cache'[k] = None
        \/ k \notin tainted /\ (Drops(call[c], k) => Drops(Over, k))
  BY <1>1, <1>4
<1> QED
  BY <1>1, <1>2, <1>3, <1>5, GoesOn

\* A call begins, with a write of its own, where nobody writes.
LEMMA OpenedCalm ==
  ASSUME MapCacheInv, calm, \A d \in Call : ~Writer(call[d]),
         NEW c \in Call, NEW row \in CallRow, call' = [call EXCEPT ![c] = row],
         row.before = 0, row.pc \in {"get", "delMap"}, "map" \notin tainted',
         trail' = trail,
         \/ owners' = owners
         \/ owners = << >> /\ Len(owners') = 1
  PROVE  Undisturbed'
<1>1. /\ Undisturbed /\ call \in [Call -> CallRow] /\ Len(owners) \in Nat
      /\ trail \in Seq([before : Owner, after : Owner])
  BY MapTypes DEF MapCacheInv, MapCacheTypeOK
<1>2. ASSUME NEW d \in Call
      PROVE  call[d].before = 0 /\ call[d].stage = "read"
             /\ call[d].pc \notin {"write", "audit"}
  <2>1. Shaped(call[d]) /\ Paced(call[d])
    BY <1>1 DEF MapCacheInv, Undisturbed
  <2> QED
    BY <2>1 DEF Shaped, Paced, Writer
<1>3. call'[c] = row /\ \A d \in Call : d # c => call'[d] = call[d]
  BY <1>1
<1>4. \A d, e \in Call : Writing(d)' /\ Writing(e)' => d = e
  <2>1. \A d \in Call : d # c => ~Writing(d)'
    BY <1>2, <1>3 DEF Writing
  <2> QED
    BY <2>1
<1>5. \A d \in Call : call'[d].before = 0 /\ call'[d].pc \notin {"write", "audit"}
  BY <1>2, <1>3
<1>6. \A d \in Call : Paced(call[d])'
  BY <1>5 DEF Paced
<1>7. Settled = Len(owners) /\ Settled' = Len(owners')
  BY <1>2, <1>5 DEF Settled
<1>8. CASE owners' = owners
  <2>1. \A n : Changes(n)' = Changes(n)
    BY <1>8 DEF Changes
  <2> QED
    BY <1>1, <1>4, <1>6, <1>7, <1>8, <2>1 DEF Undisturbed
<1>9. CASE owners = << >> /\ Len(owners') = 1
  <2>1. Changes(0) = {} /\ Changes(1)' = {}
    <3>1. (\A v \in 1 .. 0 - 1 : FALSE) /\ (\A v \in 1 .. 1 - 1 : FALSE)
      OBVIOUS
    <3> QED
      BY <3>1 DEF Changes
  <2>2. Len(owners) = 0
    BY <1>9
  <2>3. Len(trail) = 0
    BY <1>1, <1>7, <2>1, <2>2, FS_EmptySet DEF Undisturbed
  <2>4. trail = << >>
    BY <1>1, <2>3
  <2>5. Len(trail') = Cardinality(Changes(Settled))'
    <3> PICK n \in Nat : n = 1
      OBVIOUS
    <3>1. Changes(n)' = {} /\ Settled' = n
      BY <1>7, <1>9, <2>1
    <3>2. Cardinality(Changes(n)') = 0
      BY <3>1, FS_EmptySet
    <3> QED
      BY <2>3, <3>1, <3>2
  <2>6. \A i \in 1 .. Len(trail') - 1 : FALSE
    BY <2>3
  <2> QED
    BY <1>4, <1>6, <2>4, <2>5, <2>6 DEF Undisturbed
<1> QED
  BY <1>8, <1>9

LEMMA CreateStep ==
  ASSUME MapCacheInv, NEW c \in Call, CreateMap(c)
  PROVE  MapCacheInv'
<1> DEFINE row == Begin("get", "map", "read")
<1>1. PICK o \in Owner : owners = << >> /\ owners' = <<o>>
  BY DEF CreateMap
<1>2. /\ call[c].pc = "new" /\ call' = [call EXCEPT ![c] = row]
      /\ tainted' = tainted \union {k \in RouteKey : cache[k] # None}
      /\ cache' = cache /\ trail' = trail /\ deleted' = deleted
      /\ calm' = (calm /\ \A d \in Call : ~Writing(d))
  BY DEF CreateMap, Open
<1>3. /\ row \in CallRow /\ row.pc = "get" /\ row.key = "map"
      /\ row.stage = "read" /\ row.val = 0 /\ row.before = 0 /\ row.dels = {}
  BY BeginRow DEF CallPc, Stage, CacheKey
<1> HIDE DEF row
<1>4. /\ cache \in [CacheKey -> Nat \cup {None}] /\ tainted \subseteq CacheKey
      /\ calm \in BOOLEAN /\ deleted \in BOOLEAN /\ cache["map"] # 0
      /\ trail \in Seq([before : Owner, after : Owner])
      /\ (calm => "map" \notin tainted) /\ "map" \notin RouteKey
      /\ Len(owners) = 0 /\ RouteKey \subseteq CacheKey
      /\ \A k \in CacheKey : cache[k] # None => cache[k] <= Len(owners)
  BY <1>1, MapTypes, MapCacheAssumption
     DEF MapCacheInv, MapCacheTypeOK, Undisturbed, CacheKey
<1>5. owners' \in Seq(Owner) /\ Len(owners') = 1
  BY <1>1
<1>6. Shaped(row) /\ Dated(row)'
  BY <1>3, <1>5 DEF Shaped, Dated
<1>7. cache["map"] = None
  BY <1>4 DEF CacheKey
<1>8. \A k \in CacheKey :
        \/ k \in tainted' \/ cache'[k] \in {None, View(k)'} \/ Drops(row, k)
        \/ /\ k \notin tainted /\ cache'[k] = cache[k] /\ View(k)' = View(k)
           /\ Drops(call[c], k) => Drops(row, k)
  BY <1>2, <1>7 DEF CacheKey
<1>9. calm' => Undisturbed'
  <2>1. calm' => calm /\ \A d \in Call : ~Writer(call[d])
    BY <1>2 DEF Writing, Writer
  <2> QED
    BY <1>1, <1>2, <1>3, <1>4, <1>5, <2>1, OpenedCalm
<1>10. /\ cache' \in [CacheKey -> Nat \cup {None}] /\ tainted' \subseteq CacheKey
       /\ \A k \in CacheKey : cache'[k] # None => cache'[k] <= Len(owners')
       /\ calm' \in BOOLEAN /\ cache'["map"] # 0 /\ deleted' \in BOOLEAN
       /\ Len(owners') >= Len(owners)
       /\ trail' \in Seq([before : Owner, after : Owner])
  BY <1>2, <1>4, <1>5
<1> QED
  BY <1>2, <1>3, <1>5, <1>6, <1>8, <1>9, <1>10, InvAgain

LEMMA HideStep ==
  ASSUME MapCacheInv, NEW c \in Call, DeleteMap(c) \/ RestoreMap(c)
  PROVE  MapCacheInv'
<1>1. PICK stage \in {"delete", "restore"} :
        /\ Open(c, TRUE, Begin("delMap", "map", stage))
        /\ deleted' \in BOOLEAN /\ UNCHANGED <<owners, tainted>>
  BY DEF DeleteMap, RestoreMap
<1> DEFINE row == Begin("delMap", "map", stage)
<1>2. /\ call[c].pc = "new" /\ call' = [call EXCEPT ![c] = row]
      /\ cache' = cache /\ trail' = trail /\ owners' = owners /\ tainted' = tainted
      /\ calm' = (calm /\ \A d \in Call : ~Writing(d)) /\ deleted' \in BOOLEAN
  BY <1>1 DEF Open
<1>3. /\ row \in CallRow /\ row.pc = "delMap" /\ row.key = "map"
      /\ row.stage = stage /\ row.val = 0 /\ row.before = 0 /\ row.dels = {}
  BY BeginRow DEF CallPc, Stage, CacheKey
<1> HIDE DEF row
<1>4. /\ cache \in [CacheKey -> Nat \cup {None}] /\ tainted \subseteq CacheKey
      /\ calm \in BOOLEAN /\ cache["map"] # 0 /\ owners \in Seq(Owner)
      /\ trail \in Seq([before : Owner, after : Owner])
      /\ (calm => "map" \notin tainted) /\ Len(owners) \in Nat
      /\ \A k \in CacheKey : cache[k] # None => cache[k] <= Len(owners)
  BY MapTypes DEF MapCacheInv, MapCacheTypeOK, Undisturbed
<1>5. Shaped(row) /\ Dated(row)'
  BY <1>2, <1>3, <1>4 DEF Shaped, Dated
<1>6. \A k \in CacheKey : \/ k = "map"
                          \/ View(k)' = View(k) /\ ~Drops(call[c], k)
  BY <1>2, NewRow DEF View
<1>7. \A k \in CacheKey :
        \/ k \in tainted' \/ cache'[k] \in {None, View(k)'} \/ Drops(row, k)
        \/ /\ k \notin tainted /\ cache'[k] = cache[k] /\ View(k)' = View(k)
           /\ Drops(call[c], k) => Drops(row, k)
  BY <1>2, <1>3, <1>6 DEF Drops
<1>8. calm' => Undisturbed'
  <2>1. calm' => calm /\ \A d \in Call : ~Writer(call[d])
    BY <1>2 DEF Writing, Writer
  <2> QED
    BY <1>2, <1>3, <1>4, <2>1, OpenedCalm
<1>9. /\ cache' \in [CacheKey -> Nat \cup {None}] /\ tainted' \subseteq CacheKey
      /\ \A k \in CacheKey : cache'[k] # None => cache'[k] <= Len(owners')
      /\ calm' \in BOOLEAN /\ cache'["map"] # 0 /\ owners' \in Seq(Owner)
      /\ Len(owners') >= Len(owners)
      /\ trail' \in Seq([before : Owner, after : Owner])
  BY <1>2, <1>4
<1> QED
  BY <1>2, <1>3, <1>5, <1>7, <1>8, <1>9, InvAgain

LEMMA WriteStep ==
  ASSUME MapCacheInv, NEW c \in Call, Write(c)
  PROVE  MapCacheInv'
<1> PICK me \in CallRow : me = call[c]
  BY RowFacts
<1> DEFINE row == Moved(me, "delMap")
<1>1. /\ me.pc = "write" /\ cache' = cache /\ trail' = trail /\ deleted' = deleted
      /\ tainted' = tainted /\ calm' = calm
  BY DEF Write
<1>2. /\ row \in CallRow /\ row.pc = "delMap" /\ row.key = me.key
      /\ row.stage = me.stage /\ row.val = me.val /\ row.before = me.before
      /\ row.dels = me.dels
  BY MovedRow DEF CallPc
<1>3. call' = [call EXCEPT ![c] = row]
  BY DEF Write, Go, Moved
<1> HIDE DEF row
<1>4. me.stage = "before" /\ me.dels = {} /\ Shaped(row)
  BY <1>1, <1>2, RowFacts DEF Shaped
<1>5. \A k \in CacheKey : Drops(row, k)
  BY <1>2, <1>4 DEF Drops
<1>6. CASE View("map") = 0
  <2>1. owners' = owners
    BY <1>6 DEF Write
  <2>2. Follows(c, row)
    BY <1>1, <1>2, <1>3, <1>4, <1>6, RowFacts
       DEF Follows, Dated, Paced, Writer, Pending
  <2> QED
    BY <1>1, <1>5, <2>1, <2>2, GoesOnCalm DEF stored
<1>7. CASE View("map") # 0
  <2>1. PICK o \in Owner : owners' = Append(owners, o)
    BY <1>7 DEF Write
  <2> PICK n \in Nat : n = Len(owners)
    BY RowFacts
  <2>2. /\ cache \in [CacheKey -> Nat \cup {None}] /\ tainted \subseteq CacheKey
        /\ calm \in BOOLEAN /\ cache["map"] # 0 /\ owners \in Seq(Owner)
        /\ trail \in Seq([before : Owner, after : Owner]) /\ deleted \in BOOLEAN
        /\ \A k \in CacheKey : cache[k] # None => cache[k] <= n
    BY MapTypes DEF MapCacheInv, MapCacheTypeOK
  <2>3. /\ owners' \in Seq(Owner) /\ Len(owners') = n + 1
        /\ \A v \in 1 .. n : owners'[v] = owners[v]
    BY <2>1, <2>2
  <2>4. deleted = FALSE /\ View("map") = n /\ n > 0 /\ View("map")' = n + 1
    BY <1>1, <1>7, <2>2, <2>3 DEF View
  <2>5. Dated(row)'
    BY <1>2, <2>3, RowFacts DEF Dated
  <2>6. ASSUME calm PROVE Undisturbed'
    <3>1. Undisturbed /\ Paced(me) /\ me.before = n /\ Writer(me)
      BY <1>1, <1>4, <2>4, <2>6 DEF MapCacheInv, Undisturbed, Paced, Writer
    <3>2. \A d \in Call : d # c => ~Writer(call[d]) /\ call[d].before = 0
                                   /\ call[d].pc # "write"
      BY <2>6, <3>1, OthersAtRest
    <3>3. call'[c] = row /\ \A d \in Call : d # c => call'[d] = call[d]
      BY <1>3, MapTypes DEF MapCacheInv
    <3>4. \A d, e \in Call : Writing(d)' /\ Writing(e)' => d = e
      BY <3>2, <3>3 DEF Writing, Writer
    <3>5. ASSUME NEW d \in Call PROVE Paced(call[d])'
      <4>1. CASE d = c
        BY <1>2, <1>4, <2>3, <2>4, <3>1, <3>3, <4>1 DEF Paced
      <4>2. CASE d # c
        <5>1. call'[d].before = 0 /\ call'[d].pc \notin {"write", "audit"}
          <6>1. Shaped(call[d])
            BY DEF MapCacheInv
          <6> QED
            BY <3>2, <3>3, <4>2, <6>1 DEF Shaped, Writer
        <5> QED
          BY <5>1 DEF Paced
      <4> QED
        BY <4>1, <4>2
    <3>6. Settled = n
      BY <3>1, <3>2 DEF Settled
    <3>7. Settled' = n
      BY <1>2, <2>3, <2>4, <3>1, <3>2, <3>3 DEF Settled
    <3>8. Changes(n)' = Changes(n)
      BY <2>3 DEF Changes
    <3>9. owners'[n] = owners[n]
      BY <2>3, <2>4
    <3> QED
      BY <1>1, <3>1, <3>4, <3>5, <3>6, <3>7, <3>8, <3>9 DEF Undisturbed
  <2>7. /\ cache' \in [CacheKey -> Nat \cup {None}] /\ tainted' \subseteq CacheKey
        /\ \A k \in CacheKey : cache'[k] # None => cache'[k] <= Len(owners')
        /\ calm' \in BOOLEAN /\ cache'["map"] # 0 /\ deleted' \in BOOLEAN
        /\ Len(owners') >= Len(owners)
        /\ trail' \in Seq([before : Owner, after : Owner])
    BY <1>1, <2>2, <2>3
  <2> QED
    BY <1>1, <1>2, <1>3, <1>4, <1>5, <2>3, <2>5, <2>6, <2>7, InvAgain
<1> QED
  BY <1>6, <1>7

LEMMA AppendTrailStep ==
  ASSUME MapCacheInv, NEW c \in Call, AppendTrail(c)
  PROVE  MapCacheInv'
<1> PICK me \in CallRow : me = call[c]
  BY RowFacts
<1> DEFINE Entry == [before : Owner, after : Owner]
           entry == [before |-> owners[me.before], after |-> owners[me.val]]
<1>1. /\ me.pc = "audit" /\ trail' = Append(trail, entry)
      /\ call' = [call EXCEPT ![c] = Over]
      /\ cache' = cache /\ owners' = owners /\ deleted' = deleted
      /\ tainted' = tainted /\ calm' = calm
  BY DEF AppendTrail, End
<1> PICK n \in Nat : n = Len(owners)
  BY RowFacts
<1>2. /\ cache \in [CacheKey -> Nat \cup {None}] /\ tainted \subseteq CacheKey
      /\ calm \in BOOLEAN /\ cache["map"] # 0 /\ owners \in Seq(Owner)
      /\ trail \in Seq(Entry) /\ deleted \in BOOLEAN
      /\ \A k \in CacheKey : cache[k] # None => cache[k] <= n
      /\ \A v \in 1 .. n : owners[v] \in Owner
  BY MapTypes DEF MapCacheInv, MapCacheTypeOK
<1>3. me.before \in 1 .. n /\ me.val \in 1 .. n
  BY <1>1, RowFacts DEF Shaped, Dated
<1>4. entry \in Entry /\ entry.before = owners[me.before] /\ entry.after = owners[me.val]
  BY <1>2, <1>3
<1> HIDE DEF entry, Entry
<1>5. /\ trail' \in Seq(Entry) /\ Len(trail') = Len(trail) + 1 /\ Len(trail) \in Nat
      /\ \A i \in 1 .. Len(trail) : trail'[i] = trail[i]
      /\ trail'[Len(trail) + 1] = entry
  BY <1>1, <1>2, <1>4
<1>6. ASSUME calm PROVE Undisturbed'
  <2>1. /\ Undisturbed /\ Paced(me) /\ Writer(me)
        /\ me.before = n - 1 /\ me.val = n /\ owners[n - 1] # owners[n]
    BY <1>1, <1>6, RowFacts DEF MapCacheInv, Undisturbed, Paced, Writer, Shaped
  <2>2. \A d \in Call : d # c => ~Writer(call[d]) /\ call[d].before = 0
    BY <1>6, <2>1, OthersAtRest
  <2>3. call'[c] = Over /\ \A d \in Call : d # c => call'[d] = call[d]
    BY <1>1, MapTypes DEF MapCacheInv
  <2>4. \A d, e \in Call : Writing(d)' /\ Writing(e)' => d = e
    BY <2>2, <2>3, RowFacts DEF Writing, Writer
  <2>5. ASSUME NEW d \in Call PROVE Paced(call[d])'
    <3> PICK it : it = call'[d]
      OBVIOUS
    <3>1. Paced(it)
      BY <2>1, <2>3, RowFacts DEF Undisturbed
    <3> QED
      BY <1>1, <3>1 DEF Paced, View
  <2>6. Settled = n - 1
    BY <1>3, <2>1 DEF Settled
  <2>7. Settled' = n
    BY <1>1, <2>2, <2>3, RowFacts DEF Settled
  <2>8. /\ Changes(n)' = Changes(n - 1) \cup {n - 1}
        /\ IsFiniteSet(Changes(n - 1)) /\ n - 1 \notin Changes(n - 1)
    <3>1. Changes(n)' = Changes(n)
      BY <1>1 DEF Changes
    <3> QED
      BY <1>3, <2>1, <3>1, ChangesOf
  <2>9. Len(trail') = Cardinality(Changes(Settled))'
    <3>1. Cardinality(Changes(n)') = Cardinality(Changes(n - 1)) + 1
      BY <2>8, FS_AddElement
    <3>2. Len(trail) = Cardinality(Changes(n - 1))
      BY <2>1, <2>6 DEF Undisturbed
    <3> QED
      BY <1>5, <2>7, <3>1, <3>2
  <2>10. \A i \in 1 .. Len(trail') - 1 : trail'[i].after = trail'[i + 1].before
    <3> SUFFICES ASSUME NEW i \in 1 .. Len(trail)
                 PROVE  trail'[i].after = trail'[i + 1].before
      BY <1>5
    <3>1. CASE i < Len(trail)
      <4>1. i + 1 \in 1 .. Len(trail) /\ i \in 1 .. Len(trail) - 1
        BY <1>5, <3>1
      <4> QED
        BY <1>5, <2>1, <4>1 DEF Undisturbed
    <3>2. CASE i = Len(trail)
      <4>1. trail # << >>
        BY <1>5, <3>2
      <4>2. trail[Len(trail)].after = owners[n - 1]
        BY <2>1, <2>6, <4>1 DEF Undisturbed
      <4> QED
        BY <1>4, <1>5, <2>1, <3>2, <4>2
    <3> QED
      BY <1>5, <3>1, <3>2
  <2>11. trail'[Len(trail')].after = owners'[n]
    BY <1>1, <1>4, <1>5, <2>1
  <2> QED
    BY <1>1, <2>1, <2>4, <2>5, <2>7, <2>9, <2>10, <2>11 DEF Undisturbed
<1>7. \A k \in CacheKey : ~Drops(me, k)
  BY <1>1, ReadingDropsNothing
<1>8. \A k : View(k)' = View(k)
  BY <1>1 DEF View
<1> PICK row \in CallRow : row = Over
  BY RowFacts
<1>9. StaleExplained' /\ Shaped(row) /\ Dated(row)'
  <2>1. Shaped(row) /\ Dated(row) /\ Dated(row)'
    BY <1>1, RowFacts DEF Dated
  <2>2. \A d \in Call, k \in CacheKey : WillDrop(d, k) => WillDrop(d, k)'
    <3>1. \A d \in Call : d # c => call'[d] = call[d]
      BY <1>1, MapTypes DEF MapCacheInv
    <3>2. \A k \in CacheKey : ~WillDrop(c, k)
      BY <1>7 DEF WillDrop, Drops
    <3> QED
      BY <3>1, <3>2 DEF WillDrop
  <2> QED
    BY <1>1, <1>8, <2>1, <2>2 DEF MapCacheInv, StaleExplained
<1>10. \A k \in CacheKey :
         \/ k \in tainted' \/ cache'[k] \in {None, View(k)'} \/ Drops(row, k)
         \/ /\ k \notin tainted /\ cache'[k] = cache[k] /\ View(k)' = View(k)
            /\ Drops(call[c], k) => Drops(row, k)
  BY <1>1, <1>7, <1>8
<1>11. /\ cache' \in [CacheKey -> Nat \cup {None}] /\ tainted' \subseteq CacheKey
       /\ \A k \in CacheKey : cache'[k] # None => cache'[k] <= Len(owners')
       /\ calm' \in BOOLEAN /\ cache'["map"] # 0 /\ deleted' \in BOOLEAN
       /\ owners' \in Seq(Owner) /\ Len(owners') >= Len(owners)
       /\ trail' \in Seq([before : Owner, after : Owner])
       /\ call' = [call EXCEPT ![c] = row]
  BY <1>1, <1>2, <1>5 DEF Entry
<1>12. calm' => Undisturbed'
  BY <1>1, <1>6
<1> QED
  BY <1>9, <1>10, <1>11, <1>12, InvAgain

LEMMA LapseStep ==
  ASSUME MapCacheInv, NEW k \in CacheKey, Lapse(k)
  PROVE  MapCacheInv'
<1>1. /\ cache' = [cache EXCEPT ![k] = None] /\ tainted' = tainted \ {k}
      /\ owners' = owners /\ deleted' = deleted /\ trail' = trail
      /\ call' = call /\ calm' = calm
  BY DEF Lapse, stored
<1>2. /\ cache \in [CacheKey -> Nat \cup {None}] /\ MapCacheTypeOK
      /\ cache["map"] # 0 /\ "map" \in CacheKey /\ None # 0
  BY MapTypes DEF MapCacheInv, MapCacheTypeOK, Version, CacheKey, None
<1>3. cache' \in [CacheKey -> Version \cup {None}] /\ cache'["map"] # 0
  BY <1>1, <1>2 DEF MapCacheTypeOK
<1>4. MapCacheTypeOK'
  BY <1>1, <1>2, <1>3 DEF MapCacheTypeOK, Version
<1>5. StaleExplained'
  <2>1. /\ \A j : View(j)' = View(j)
        /\ \A c \in Call, j \in CacheKey : WillDrop(c, j)' <=> WillDrop(c, j)
    BY <1>1 DEF View, WillDrop
  <2> QED
    BY <1>1, <1>2, <2>1 DEF MapCacheInv, StaleExplained
<1>6. calm' => Undisturbed'
  <2>1. /\ \A n : Changes(n)' = Changes(n)
        /\ \A c \in Call : Writing(c)' <=> Writing(c)
        /\ Settled' = Settled
    BY <1>1 DEF Changes, Writing, Settled
  <2>2. ASSUME calm, NEW c \in Call PROVE Paced(call[c])'
    <3>1. Paced(call[c])
      BY <2>2 DEF MapCacheInv, Undisturbed
    <3> QED
      BY <1>1, <3>1 DEF Paced, View
  <2> QED
    BY <1>1, <2>1, <2>2 DEF MapCacheInv, Undisturbed
<1> QED
  BY <1>1, <1>3, <1>4, <1>5, <1>6 DEF MapCacheInv, Shaped

LEMMA InitMaps ==
  ASSUME MapCacheInit
  PROVE  MapCacheInv
<1>1. /\ Idle \in CallRow /\ Idle.pc = "new" /\ Idle.key = "map"
      /\ Idle.stage = "read" /\ Idle.val = 0 /\ Idle.before = 0 /\ Idle.dels = {}
  BY BeginRow DEF Idle, CallPc, Stage, CacheKey
<1>2. /\ owners \in Seq(Owner) /\ Len(owners) \in {0, 1} /\ trail = << >>
      /\ deleted = FALSE /\ tainted = {}
      /\ \A k \in CacheKey : cache[k] = None
      /\ \A c \in Call : call[c] = Idle
  <2>1. CASE owners = << >>
    BY <2>1 DEF MapCacheInit
  <2>2. CASE owners = <<1>>
    BY <2>2 DEF MapCacheInit, Owner
  <2> QED
    BY <2>1, <2>2 DEF MapCacheInit
<1>3. MapCacheTypeOK
  <2>1. Idle \in [pc : CallPc, key : CacheKey, val : Version, before : Version,
                  stage : Stage, dels : SUBSET RouteKey]
    BY <1>1, <1>2 DEF CallRow, Version
  <2>2. trail \in Seq([before : Owner, after : Owner])
    BY <1>2
  <2>3. cache \in [CacheKey -> Version \cup {None}]
    BY DEF MapCacheInit
  <2>4. call \in [Call -> [pc : CallPc, key : CacheKey, val : Version,
                           before : Version, stage : Stage, dels : SUBSET RouteKey]]
    BY <2>1 DEF MapCacheInit
  <2> QED
    BY <1>2, <2>2, <2>3, <2>4 DEF MapCacheInit, MapCacheTypeOK, CallPc, Stage
<1>4. \A c \in Call : Shaped(call[c])
  BY <1>1, <1>2 DEF Shaped
<1>5. cache["map"] # 0 /\ StaleExplained
  BY <1>2 DEF StaleExplained, CacheKey, None
<1>6. Undisturbed
  <2>1. \A c \in Call : ~Writing(c) /\ Paced(call[c])
    BY <1>1, <1>2 DEF Writing, Paced
  <2>2. Settled = Len(owners)
    BY <1>1, <1>2 DEF Settled
  <2>3. Changes(Settled) = {}
    <3>1. \A v \in 1 .. Len(owners) - 1 : FALSE
      <4>1. CASE Len(owners) = 0
        BY <4>1
      <4>2. CASE Len(owners) = 1
        BY <4>2
      <4> QED
        BY <1>2, <4>1, <4>2
    <3> QED
      BY <2>2, <3>1 DEF Changes
  <2>4. Len(trail) = 0 /\ \A i \in 1 .. Len(trail) - 1 : FALSE
    BY <1>2
  <2> QED
    BY <1>2, <2>1, <2>3, <2>4, FS_EmptySet DEF Undisturbed
<1> QED
  BY <1>3, <1>4, <1>5, <1>6 DEF MapCacheInv

\* Whatever reads, writes and failures of Redis meet: the cache-aside of
\* maps.service.ts keeps its invariant.
THEOREM MapCacheInvariance == MapCacheSpec => []MapCacheInv
<1>1. MapCacheInit => MapCacheInv
  BY InitMaps
<1>2. MapCacheInv /\ [MapCacheNext]_mapVars => MapCacheInv'
  <2> SUFFICES ASSUME MapCacheInv, [MapCacheNext]_mapVars PROVE MapCacheInv'
    OBVIOUS
  <2>1. CASE UNCHANGED mapVars
    BY <2>1 DEF mapVars, MapCacheInv, MapCacheTypeOK, Version, Shaped, Paced,
       StaleExplained, WillDrop, View, Undisturbed, Writing, Changes, Settled
  <2>2. ASSUME NEW c \in Call, Step(c) PROVE MapCacheInv'
    BY <2>2, GetStep, SelectStep, SetKeyStep, WriteStep, NoFieldsStep,
       DropMapStep, KeysStep, DropRouteStep, DroppedStep, AppendTrailStep
       DEF Step
  <2> QED
    BY <2>1, <2>2, BeginStep, CreateStep, HideStep, CommandFailsStep, DieStep,
       LapseStep DEF MapCacheNext
<1> QED
  BY <1>1, <1>2, PTL DEF MapCacheSpec

\* update, remove and restore drop every key that they make stale: an entry is
\* older than the row only for a reason that StaleExplained names.
THEOREM StaleForAReason == MapCacheSpec => []StaleExplained
<1>1. MapCacheInv => StaleExplained
  BY DEF MapCacheInv
<1> QED
  BY <1>1, MapCacheInvariance, PTL

\* The rows that MapsService.update appends to audit_log are the changes of the
\* owner, one for one and in their order, while nothing disturbs the writers.
THEOREM OwnersAudited == MapCacheSpec => []OwnershipAudited
<1>1. MapCacheInv => OwnershipAudited
  <2> SUFFICES ASSUME MapCacheInv, calm, \A c \in Call : ~Writing(c)
               PROVE  /\ Len(trail) = Cardinality(Changes(Len(owners)))
                      /\ \A i \in 1 .. Len(trail) - 1 :
                           trail[i].after = trail[i + 1].before
    BY DEF OwnershipAudited
  <2>1. ASSUME NEW c \in Call PROVE call[c].before = 0
    <3>1. Shaped(call[c]) /\ Paced(call[c])
      BY DEF MapCacheInv, Undisturbed
    <3> QED
      BY <3>1 DEF Shaped, Paced, Writing
  <2>2. Settled = Len(owners)
    BY <2>1 DEF Settled
  <2> QED
    BY <2>2 DEF MapCacheInv, Undisturbed
<1> QED
  BY <1>1, MapCacheInvariance, PTL

-----------------------------------------------------------------------------
(* Media.                                                                  *)

GenPc  == {"new", "find", "save", "insert", "reread", "event", "answered",
           "failed"}
GenRow == [pc : GenPc, tries : 0 .. PutAttempts - 1]

LEMMA MediaTypes ==
  ASSUME MediaInv
  PROVE  /\ assets \in Seq(Generation) /\ Len(assets) \in Nat
         /\ DOMAIN assets = 1 .. Len(assets)
         /\ \A i \in DOMAIN assets : assets[i] \in Generation
         /\ mediaEvents \in Seq(1 .. Len(assets)) /\ Len(mediaEvents) \in Nat
         /\ DOMAIN mediaEvents = 1 .. Len(mediaEvents)
         /\ \A j \in DOMAIN mediaEvents : mediaEvents[j] \in DOMAIN assets
         /\ gen \in [Generation -> GenRow]
         /\ \A g \in Generation : gen[g] \in GenRow /\ gen[g].pc \in GenPc
         /\ objects \in [Generation -> {"none", "partial", "whole"}]
         /\ mode \in Mode /\ owner \in BOOLEAN
         /\ failures \in 0 .. Failures /\ failures \in Nat /\ Failures \in Nat
<1>1. /\ assets \in Seq(Generation) /\ mediaEvents \in Seq(1 .. Len(assets))
      /\ gen \in [Generation -> GenRow]
      /\ objects \in [Generation -> {"none", "partial", "whole"}]
      /\ mode \in Mode /\ owner \in BOOLEAN
      /\ failures \in 0 .. Failures /\ Failures \in Nat
  BY MediaAssumption DEF MediaInv, MediaTypeOK, GenRow, GenPc
<1>2. \A g \in Generation : gen[g] \in GenRow /\ gen[g].pc \in GenPc
  BY <1>1 DEF GenRow
<1>3. /\ Len(assets) \in Nat /\ DOMAIN assets = 1 .. Len(assets)
      /\ \A i \in DOMAIN assets : assets[i] \in Generation
  BY <1>1
<1>4. /\ Len(mediaEvents) \in Nat /\ DOMAIN mediaEvents = 1 .. Len(mediaEvents)
      /\ \A j \in DOMAIN mediaEvents : mediaEvents[j] \in DOMAIN assets
  BY <1>1, <1>3
<1> QED
  BY <1>1, <1>2, <1>3, <1>4

\* The row of a generation that goes from one place to the next.
LEMMA GenMoved ==
  ASSUME MediaInv, NEW g \in Generation, NEW to \in GenPc,
         gen' = [gen EXCEPT ![g].pc = to]
  PROVE  /\ gen' \in [Generation -> GenRow] /\ gen'[g].pc = to
         /\ \A h \in Generation : h # g => gen'[h] = gen[h]
<1> DEFINE row == [gen[g] EXCEPT !.pc = to]
<1>1. row \in GenRow /\ row.pc = to
  BY MediaTypes DEF GenRow
<1>2. gen' = [gen EXCEPT ![g] = row]
  OBVIOUS
<1> HIDE DEF row
<1> QED
  BY <1>1, <1>2, MediaTypes

\* An orphan more costs a failure.
LEMMA OrphansCounted ==
  ASSUME MediaInv, NEW g \in Generation, Orphans' \subseteq Orphans \cup {g},
         \/ failures' = failures + 1
         \/ failures' = failures /\ Orphans' \subseteq Orphans
  PROVE  IsFiniteSet(Orphans)' /\ Cardinality(Orphans)' <= failures'
<1> DEFINE old == Orphans
<1> PICK new : new = Orphans'
  OBVIOUS
<1>1. IsFiniteSet(old) /\ Cardinality(old) <= failures /\ failures \in Nat
  BY MediaTypes DEF MediaInv
<1> HIDE DEF old
<1>2. /\ IsFiniteSet(old \cup {g}) /\ Cardinality(old) \in Nat
      /\ Cardinality(old \cup {g}) \in Nat
      /\ Cardinality(old \cup {g}) <= Cardinality(old) + 1
  <2>1. Cardinality(old) \in Nat
    BY <1>1, FS_CardinalityType
  <2>2. /\ IsFiniteSet(old \cup {g})
        /\ Cardinality(old \cup {g})
             = IF g \in old THEN Cardinality(old) ELSE Cardinality(old) + 1
    BY <1>1, FS_AddElement, Zenon
  <2> QED
    BY <2>1, <2>2
<1>3. ASSUME NEW bound, IsFiniteSet(bound), new \subseteq bound
      PROVE  /\ IsFiniteSet(new) /\ Cardinality(new) <= Cardinality(bound)
             /\ Cardinality(new) \in Nat
  BY <1>3, FS_Subset, FS_CardinalityType
<1>4. IsFiniteSet(new) /\ Cardinality(new) <= failures'
  <2>1. CASE failures' = failures + 1
    <3>1. new \subseteq old \cup {g}
      BY DEF old
    <3>2. /\ IsFiniteSet(new) /\ Cardinality(new) <= Cardinality(old \cup {g})
          /\ Cardinality(new) \in Nat
      BY <1>2, <1>3, <3>1
    <3> QED
      BY <1>1, <1>2, <2>1, <3>2
  <2>2. CASE failures' = failures /\ new \subseteq old
    <3>1. /\ IsFiniteSet(new) /\ Cardinality(new) <= Cardinality(old)
          /\ Cardinality(new) \in Nat
      BY <1>1, <1>3, <2>2
    <3> QED
      BY <1>1, <1>2, <2>2, <3>1
  <2> QED
    BY <2>1, <2>2 DEF old
<1> QED
  BY <1>4

\* A step of g before and between its rows.
LEMMA GenerationStep ==
  ASSUME MediaInv, NEW g \in Generation, UNCHANGED <<mode, owner, assets, mediaEvents>>,
         gen' \in [Generation -> GenRow],
         objects' \in [Generation -> {"none", "partial", "whole"}],
         \A h \in Generation : h # g => gen'[h] = gen[h] /\ objects'[h] = objects[h],
         Staged(g)',
         InTable(g) =>
           /\ gen[g].pc \in {"reread", "event"}
           /\ gen'[g].pc \in {"event", "failed"},
         failures' \in 0 .. Failures,
         \/ failures' = failures + 1
         \/ failures' = failures /\ (g \in Orphans' => g \in Orphans)
  PROVE  MediaInv'
<1>1. /\ \A i : OfRow(i)' = OfRow(i)
      /\ \A h : InTable(h)' <=> InTable(h)
  BY DEF OfRow, InTable
<1>2. MediaTypeOK'
  BY MediaTypes DEF MediaTypeOK, GenRow, GenPc
<1>3. \A h \in Generation : Staged(h)'
  BY <1>1 DEF MediaInv, Staged, HasContent
<1>4. ASSUME NEW i \in DOMAIN assets PROVE Announced(i)'
  <2>1. assets[i] \in Generation /\ Announced(i) /\ InTable(assets[i])
    BY MediaTypes DEF MediaInv, InTable
  <2> QED
    BY <1>1, <2>1 DEF Announced
<1>5. Orphans' \subseteq Orphans \cup {g}
  BY <1>1 DEF Orphans
<1>6. IsFiniteSet(Orphans)' /\ Cardinality(Orphans)' <= failures'
  BY <1>5, OrphansCounted
<1> QED
  BY <1>2, <1>3, <1>4, <1>6 DEF MediaInv

\* createAsset: one row for g, which nothing announces yet.
LEMMA RowAdded ==
  ASSUME MediaInv, NEW g \in Generation, gen[g].pc = "insert",
         NEW to \in {"reread", "failed"}, gen' = [gen EXCEPT ![g].pc = to],
         assets' = Append(assets, g),
         UNCHANGED <<mode, owner, objects, mediaEvents>>,
         failures' \in 0 .. Failures, failures' = failures \/ failures' = failures + 1
  PROVE  MediaInv'
<1> PICK n \in Nat : n = Len(assets)
  BY MediaTypes
<1>1. /\ assets' \in Seq(Generation) /\ Len(assets') = n + 1
      /\ DOMAIN assets' = 1 .. n + 1 /\ DOMAIN assets = 1 .. n
      /\ \A i \in 1 .. n : assets'[i] = assets[i]
      /\ assets'[n + 1] = g
  BY MediaTypes
<1>2. /\ gen' \in [Generation -> GenRow] /\ gen'[g].pc = to
      /\ \A h \in Generation : h # g => gen'[h] = gen[h]
  BY GenMoved DEF GenPc
<1>3. ~InTable(g) /\ HasContent(g)
  BY DEF MediaInv, Staged
<1>4. \A h \in Generation : InTable(h)' <=> InTable(h) \/ h = g
  BY <1>1 DEF InTable
<1>5. MediaTypeOK'
  <2>1. mediaEvents \in Seq(1 .. n + 1)
    <3>1. 1 .. n \subseteq 1 .. n + 1
      OBVIOUS
    <3> QED
      BY <3>1, MediaTypes, SeqMonotonic
  <2> QED
    BY <1>1, <1>2, <2>1, MediaTypes DEF MediaTypeOK, GenRow, GenPc
<1>6. \A h \in Generation : Staged(h)'
  BY <1>2, <1>3, <1>4 DEF MediaInv, Staged, HasContent
<1>7. \A i, j \in DOMAIN assets' : assets'[i] = assets'[j] => i = j
  BY <1>1, <1>3 DEF MediaInv, InTable
<1>8. ASSUME NEW i \in DOMAIN assets' PROVE Announced(i)'
  <2>1. \A k : OfRow(k)' = OfRow(k)
    BY DEF OfRow
  <2>2. CASE i \in 1 .. n
    <3>1. assets'[i] = assets[i] /\ assets[i] \in Generation /\ assets[i] # g
      BY <1>1, <1>3, <2>2, MediaTypes DEF InTable
    <3>2. Announced(i)
      BY <1>1, <2>2 DEF MediaInv
    <3> QED
      BY <1>2, <2>1, <3>1, <3>2 DEF Announced
  <2>3. CASE i = n + 1
    <3>1. OfRow(n + 1) = {}
      BY <1>1, MediaTypes DEF OfRow
    <3> QED
      BY <1>1, <1>2, <2>1, <2>3, <3>1 DEF Announced
  <2> QED
    BY <1>1, <2>2, <2>3
<1>9. Orphans' \subseteq Orphans
  BY <1>2, <1>4 DEF Orphans
<1>10. IsFiniteSet(Orphans)' /\ Cardinality(Orphans)' <= failures'
  BY <1>9, OrphansCounted
<1> QED
  BY <1>5, <1>6, <1>7, <1>8, <1>10 DEF MediaInv

\* DomainEventOutboxWriter.append: the event of the row that g inserted.
LEMMA EventAdded ==
  ASSUME MediaInv, NEW g \in Generation, gen[g].pc = "event",
         NEW to \in {"answered", "failed"}, gen' = [gen EXCEPT ![g].pc = to],
         mediaEvents' = Append(mediaEvents, RowOf(g)),
         UNCHANGED <<mode, owner, objects, assets>>,
         failures' \in 0 .. Failures, failures' = failures \/ failures' = failures + 1
  PROVE  MediaInv'
<1>1. PICK i \in DOMAIN assets : i = RowOf(g) /\ assets[i] = g
  BY DEF MediaInv, Staged, InTable, RowOf
<1> PICK n \in Nat : n = Len(mediaEvents)
  BY MediaTypes
<1>2. /\ mediaEvents' \in Seq(1 .. Len(assets)) /\ Len(mediaEvents') = n + 1
      /\ DOMAIN mediaEvents' = 1 .. n + 1 /\ DOMAIN mediaEvents = 1 .. n
      /\ \A j \in 1 .. n : mediaEvents'[j] = mediaEvents[j]
      /\ mediaEvents'[n + 1] = i
  BY <1>1, MediaTypes
<1>3. /\ gen' \in [Generation -> GenRow] /\ gen'[g].pc = to
      /\ \A h \in Generation : h # g => gen'[h] = gen[h]
  BY GenMoved DEF GenPc
<1>4. OfRow(i) = {}
  BY <1>1 DEF MediaInv, Announced
<1>5. \A j \in 1 .. n : mediaEvents[j] # i
  BY <1>2, <1>4 DEF OfRow
<1>6. \A h : InTable(h)' <=> InTable(h)
  BY DEF InTable
<1>7. MediaTypeOK'
  BY <1>2, <1>3, MediaTypes DEF MediaTypeOK, GenRow, GenPc
<1>8. \A h \in Generation : Staged(h)'
  BY <1>3, <1>6 DEF MediaInv, Staged, HasContent
<1>9. \A j, k \in DOMAIN mediaEvents' : mediaEvents'[j] = mediaEvents'[k] => j = k
  BY <1>2, <1>5 DEF MediaInv
<1>10. ASSUME NEW k \in DOMAIN assets PROVE Announced(k)'
  <2>1. CASE k = i
    <3>1. n + 1 \in OfRow(i)'
      BY <1>2 DEF OfRow
    <3> QED
      BY <1>1, <1>3, <2>1, <3>1 DEF Announced
  <2>2. CASE k # i
    <3>1. OfRow(k)' = OfRow(k)
      BY <1>2, <2>2 DEF OfRow
    <3>2. assets[k] \in Generation /\ assets[k] # g /\ Announced(k)
      BY <1>1, <2>2, MediaTypes DEF MediaInv
    <3> QED
      BY <1>3, <3>1, <3>2 DEF Announced
  <2> QED
    BY <2>1, <2>2
<1>11. Orphans' \subseteq Orphans
  <2>1. InTable(g)
    BY DEF MediaInv, Staged
  <2> QED
    BY <1>3, <1>6, <2>1 DEF Orphans
<1>12. IsFiniteSet(Orphans)' /\ Cardinality(Orphans)' <= failures'
  BY <1>11, OrphansCounted
<1> QED
  BY <1>7, <1>8, <1>9, <1>10, <1>12 DEF MediaInv

LEMMA GenerateStep ==
  ASSUME MediaInv, NEW g \in Generation, Generate(g)
  PROVE  MediaInv'
<1> USE DEF Kept
<1>1. /\ Staged(g) /\ failures \in 0 .. Failures
      /\ objects \in [Generation -> {"none", "partial", "whole"}]
  BY MediaTypes DEF MediaInv
<1>2. \A to \in GenPc :
        gen' = [gen EXCEPT ![g].pc = to] =>
          /\ gen' \in [Generation -> GenRow] /\ gen'[g].pc = to
          /\ \A h \in Generation : h # g => gen'[h] = gen[h]
  BY GenMoved
<1>3. assets' = assets => (InTable(g)' <=> InTable(g))
  BY DEF InTable
<1>4. CASE FindOwner(g)
  <2>1. /\ gen[g].pc = "new" /\ gen'[g].pc \in {"find", "answered"}
        /\ gen' \in [Generation -> GenRow]
        /\ \A h \in Generation : h # g => gen'[h] = gen[h]
    BY <1>2, <1>4 DEF FindOwner, Move, GenPc
  <2>2. Staged(g)' /\ g \notin Orphans' /\ ~InTable(g)
    BY <1>1, <1>3, <1>4, <2>1 DEF FindOwner, Staged, Orphans, HasContent
  <2> QED
    BY <1>1, <1>4, <2>1, <2>2, GenerationStep DEF FindOwner
<1>5. CASE FindExisting(g)
  <2>1. /\ gen[g].pc = "find" /\ gen'[g].pc \in {"save", "answered"}
        /\ gen' \in [Generation -> GenRow]
        /\ \A h \in Generation : h # g => gen'[h] = gen[h]
    BY <1>2, <1>5 DEF FindExisting, Move, GenPc
  <2>2. Staged(g)' /\ g \notin Orphans' /\ ~InTable(g)
    BY <1>1, <1>3, <1>5, <2>1 DEF FindExisting, Staged, Orphans, HasContent
  <2> QED
    BY <1>1, <1>5, <2>1, <2>2, GenerationStep DEF FindExisting
<1>6. CASE SaveInRow(g) \/ PutObject(g)
  <2>1. /\ gen[g].pc = "save" /\ gen'[g].pc = "insert"
        /\ gen' \in [Generation -> GenRow]
        /\ \A h \in Generation : h # g => gen'[h] = gen[h]
    BY <1>2, <1>6 DEF SaveInRow, PutObject, Move, GenPc
  <2>2. /\ objects' \in [Generation -> {"none", "partial", "whole"}]
        /\ \A h \in Generation : h # g => objects'[h] = objects[h]
        /\ mode = "database" \/ objects'[g] = "whole"
        /\ UNCHANGED <<mode, owner, failures, assets, mediaEvents>>
    BY <1>1, <1>6 DEF SaveInRow, PutObject
  <2>3. Staged(g)' /\ g \notin Orphans' /\ ~InTable(g)
    BY <1>1, <1>3, <2>1, <2>2 DEF Staged, Orphans, HasContent
  <2> QED
    BY <1>1, <2>1, <2>2, <2>3, GenerationStep
<1>7. CASE WriteFile(g)
  <2>1. /\ gen[g].pc = "save" /\ gen'[g].pc \in {"save", "insert"}
        /\ objects[g] # "none" \/ gen'[g].pc = "save"
        /\ gen' \in [Generation -> GenRow]
        /\ \A h \in Generation : h # g => gen'[h] = gen[h]
    <3>1. CASE objects[g] = "none"
      BY <1>7, <3>1, MediaTypes DEF WriteFile
    <3>2. CASE objects[g] # "none"
      BY <1>2, <1>7, <3>2 DEF WriteFile, Move, GenPc
    <3> QED
      BY <3>1, <3>2
  <2>2. /\ objects' \in [Generation -> {"none", "partial", "whole"}]
        /\ \A h \in Generation : h # g => objects'[h] = objects[h]
        /\ objects[g] # "none" => objects'[g] = "whole"
        /\ UNCHANGED <<mode, owner, failures, assets, mediaEvents>>
    BY <1>1, <1>7 DEF WriteFile
  <2>3. Staged(g)' /\ g \notin Orphans' /\ ~InTable(g)
    BY <1>1, <1>3, <2>1, <2>2 DEF Staged, Orphans, HasContent
  <2> QED
    BY <1>1, <2>1, <2>2, <2>3, GenerationStep
<1>8. CASE PutFails(g)
  <2>1. /\ gen[g].pc = "save" /\ gen'[g].pc \in {"save", "failed"}
        /\ gen' \in [Generation -> GenRow]
        /\ \A h \in Generation : h # g => gen'[h] = gen[h]
    <3>1. CASE gen' = [gen EXCEPT ![g].pc = "failed"]
      BY <1>2, <1>8, <3>1 DEF PutFails, GenPc
    <3>2. CASE MayTryAgain(g) /\ gen' = [gen EXCEPT ![g].tries = @ + 1]
      <4> DEFINE row == [gen[g] EXCEPT !.tries = gen[g].tries + 1]
      <4>1. gen[g] \in GenRow /\ PutAttempts \in Nat
        BY MediaTypes, MediaAssumption
      <4>2. row \in GenRow /\ row.pc = gen[g].pc
        BY <3>2, <4>1 DEF GenRow, MayTryAgain
      <4>3. gen' = [gen EXCEPT ![g] = row]
        BY <3>2
      <4> HIDE DEF row
      <4> QED
        BY <1>8, <4>2, <4>3, MediaTypes DEF PutFails
    <3> QED
      BY <1>8, <3>1, <3>2 DEF PutFails
  <2>2. /\ objects' \in [Generation -> {"none", "partial", "whole"}]
        /\ \A h \in Generation : h # g => objects'[h] = objects[h]
        /\ UNCHANGED <<mode, owner, assets, mediaEvents>>
        /\ failures' = failures + 1 /\ failures' \in 0 .. Failures
    BY <1>1, <1>8, MediaTypes DEF PutFails, Fails
  <2>3. Staged(g)' /\ ~InTable(g)
    BY <1>1, <1>3, <2>1, <2>2 DEF Staged, HasContent
  <2> QED
    BY <2>1, <2>2, <2>3, GenerationStep
<1>9. CASE InsertAsset(g)
  BY <1>1, <1>9, RowAdded DEF InsertAsset, Move
<1>10. CASE RereadAsset(g)
  <2>1. /\ gen[g].pc = "reread" /\ gen'[g].pc = "event"
        /\ gen' \in [Generation -> GenRow]
        /\ \A h \in Generation : h # g => gen'[h] = gen[h]
    BY <1>2, <1>10 DEF RereadAsset, Move, GenPc
  <2>2. Staged(g)' /\ (g \in Orphans' => g \in Orphans)
    BY <1>1, <1>3, <1>10, <2>1 DEF RereadAsset, Staged, Orphans, HasContent
  <2> QED
    BY <1>1, <1>10, <2>1, <2>2, GenerationStep DEF RereadAsset
<1>11. CASE AppendEvent(g)
  BY <1>1, <1>11, EventAdded DEF AppendEvent, Move
<1> QED
  BY <1>4, <1>5, <1>6, <1>7, <1>8, <1>9, <1>10, <1>11 DEF Generate

LEMMA GenerationFailsStep ==
  ASSUME MediaInv, NEW g \in Generation, GenerationFails(g)
  PROVE  MediaInv'
<1>1. /\ failures' = failures + 1 /\ failures' \in 0 .. Failures
      /\ gen' = [gen EXCEPT ![g].pc = "failed"] /\ UNCHANGED <<mode, owner, objects>>
      /\ gen[g].pc \in {"find", "save", "insert", "reread", "event"}
  BY MediaTypes DEF GenerationFails, Fails
<1>2. CASE UNCHANGED <<assets, mediaEvents>>
  <2>1. /\ gen'[g].pc = "failed" /\ gen' \in [Generation -> GenRow]
        /\ \A h \in Generation : h # g => gen'[h] = gen[h]
    BY <1>1, GenMoved DEF GenPc
  <2>2. InTable(g) => gen[g].pc \in {"reread", "event"}
    BY <1>1 DEF MediaInv, Staged
  <2>3. Staged(g)'
    BY <1>1, <1>2, <2>1 DEF MediaInv, Staged, HasContent, InTable
  <2> QED
    BY <1>1, <1>2, <2>1, <2>2, <2>3, GenerationStep, MediaTypes
<1>3. CASE gen[g].pc = "insert" /\ assets' = Append(assets, g) /\ UNCHANGED mediaEvents
  BY <1>1, <1>3, RowAdded
<1>4. CASE /\ gen[g].pc = "event" /\ mediaEvents' = Append(mediaEvents, RowOf(g))
           /\ UNCHANGED assets
  BY <1>1, <1>4, EventAdded
<1> QED
  BY <1>2, <1>3, <1>4 DEF GenerationFails

LEMMA InitMedia ==
  ASSUME MediaInit
  PROVE  MediaInv
<1>1. /\ assets = << >> /\ mediaEvents = << >> /\ DOMAIN assets = {}
      /\ DOMAIN mediaEvents = {} /\ Len(assets) = 0 /\ failures = 0
      /\ \A g \in Generation : gen[g].pc = "new" /\ objects[g] = "none"
  BY DEF MediaInit
<1>2. MediaTypeOK
  BY <1>1, MediaAssumption DEF MediaInit, MediaTypeOK
<1>3. \A g \in Generation : Staged(g)
  BY <1>1 DEF Staged, InTable
<1>4. Orphans = {}
  BY <1>1 DEF Orphans
<1> QED
  BY <1>1, <1>2, <1>3, <1>4, FS_EmptySet DEF MediaInv

\* Whatever step of whichever generation fails: object, row and event of
\* media.service.ts and media-storage.service.ts keep to the invariant.
THEOREM MediaInvariance == MediaSpec => []MediaInv
<1>1. MediaInit => MediaInv
  BY InitMedia
<1>2. MediaInv /\ [MediaNext]_mediaVars => MediaInv'
  <2> SUFFICES ASSUME MediaInv, [MediaNext]_mediaVars PROVE MediaInv'
    OBVIOUS
  <2>1. ASSUME UNCHANGED <<mode, objects, assets, mediaEvents, gen, failures>>,
               owner' \in BOOLEAN
        PROVE  MediaInv'
    <3>1. /\ \A i : OfRow(i)' = OfRow(i) /\ (Announced(i)' <=> Announced(i))
          /\ \A h : /\ InTable(h)' <=> InTable(h)
                    /\ Staged(h)' <=> Staged(h)
          /\ Orphans' = Orphans
      BY <2>1 DEF OfRow, InTable, Orphans, Announced, Staged, HasContent
    <3> QED
      BY <2>1, <3>1 DEF MediaInv, MediaTypeOK
  <2>2. CASE OwnerChanges
    BY <2>1, <2>2, MediaTypes DEF OwnerChanges
  <2>3. CASE UNCHANGED mediaVars
    BY <2>1, <2>3, MediaTypes DEF mediaVars
  <2> QED
    BY <2>2, <2>3, GenerateStep, GenerationFailsStep DEF MediaNext
<1> QED
  BY <1>1, <1>2, PTL DEF MediaSpec

\* No row of media_assets is without its content, no asset is announced twice,
\* and each object without a row is the debt of one failure.
THEOREM StoredRecordedAnnounced == MediaSpec => []MediaConsistent
<1>1. MediaInv => MediaConsistent
  <2> SUFFICES ASSUME MediaInv PROVE RowHasContent /\ EventPerAsset
    BY DEF MediaConsistent
  <2>1. RowHasContent
    <3>1. \A i \in DOMAIN assets : assets[i] \in Generation /\ InTable(assets[i])
      BY MediaTypes DEF InTable
    <3> QED
      BY <3>1 DEF MediaInv, RowHasContent, Staged
  <2>2. ASSUME NEW i \in DOMAIN assets, OfRow(i) # {}
        PROVE  Cardinality(OfRow(i)) = 1
    <3>1. PICK j : j \in OfRow(i)
      BY <2>2
    <3>2. OfRow(i) = {j}
      BY <3>1 DEF MediaInv, OfRow
    <3> QED
      BY <3>2, FS_Singleton
  <2> QED
    BY <2>1, <2>2 DEF MediaInv, EventPerAsset, Announced
<1> QED
  BY <1>1, MediaInvariance, PTL

-----------------------------------------------------------------------------
(* RateLimit.                                                              *)

HitRow == [age : 0 .. Window - 1, turn : Nat, by : Counting, lost : BOOLEAN,
           admitted : BOOLEAN]

LEMMA LimitTypes ==
  ASSUME RateLimitInv
  PROVE  /\ Limit \in Nat /\ Limit >= 1 /\ Window \in Nat /\ Window >= 1
         /\ MaxRecent \in Nat
         /\ \A by \in Counting : /\ WindowOf(by) \in Counter
                                 /\ WindowOf(by).count \in Nat
                                 /\ WindowOf(by).left \in 0 .. Window
         /\ \A hit \in recent : /\ hit \in HitRow /\ hit.age \in Nat
                                /\ hit.age < Window /\ hit.turn \in Nat
                                /\ hit.by \in Counting
BY RateLimitAssumption
   DEF RateLimitInv, RateLimitTypeOK, WindowOf, Counter, Counting, HitRow

\* A set of requests is finite, and no larger than one that contains it.
LEMMA PartOf ==
  ASSUME NEW S, IsFiniteSet(S), NEW T, T \subseteq S
  PROVE  /\ IsFiniteSet(T) /\ Cardinality(T) \in Nat /\ Cardinality(S) \in Nat
         /\ Cardinality(T) <= Cardinality(S)
BY FS_Subset, FS_CardinalityType

LEMMA OneMore ==
  ASSUME NEW S, IsFiniteSet(S), NEW x, x \notin S
  PROVE  /\ IsFiniteSet(S \cup {x}) /\ Cardinality(S) \in Nat
         /\ Cardinality(S \cup {x}) = Cardinality(S) + 1
<1>1. Cardinality(S) \in Nat
  BY FS_CardinalityType
<1>2. /\ IsFiniteSet(S \cup {x})
      /\ Cardinality(S \cup {x}) = IF x \in S THEN Cardinality(S) ELSE Cardinality(S) + 1
  BY FS_AddElement, Zenon
<1> QED
  BY <1>1, <1>2

LEMMA HitsFinite ==
  ASSUME RateLimitInv, NEW S, S \subseteq recent
  PROVE  IsFiniteSet(S) /\ Cardinality(S) \in Nat /\ Cardinality(S) <= Cardinality(recent)
BY PartOf DEF RateLimitInv

\* The request that arrives is none of those before it.
LEMMA HitIsNew ==
  ASSUME RateLimitInv, NEW hit, hit.age = 0, hit.turn = Cardinality(ThisTick)
  PROVE  hit \notin recent
<1>1. ThisTick \subseteq recent
  BY DEF ThisTick
<1>2. Cardinality(ThisTick) \in Nat
  BY <1>1, HitsFinite
<1> QED
  BY <1>2 DEF RateLimitInv, ThisTick

\* A counter that does not count the request.
LEMMA WindowUntouched ==
  ASSUME RateLimitInv, NEW by \in Counting, NEW hit, recent' = recent \cup {hit},
         ~(hit.by = by \/ (by = "redis" /\ hit.lost)),
         WindowOf(by)' = WindowOf(by)
  PROVE  WindowKept(by)'
<1>1. CountedBy(by)' = CountedBy(by) /\ AdmittedBy(by)' = AdmittedBy(by)
  BY DEF CountedBy, AdmittedBy
<1>2. Current(by)' = Current(by)
  BY <1>1 DEF Current
<1>3. WindowKept(by)
  BY DEF RateLimitInv
<1>4. (ThisTick \cap CountedBy(by))' \subseteq ThisTick \cap CountedBy(by)
  BY <1>1 DEF ThisTick, CountedBy
<1> QED
  BY <1>1, <1>2, <1>3, <1>4 DEF WindowKept

\* A counter that counts it, in the window that is open or in a new one.
LEMMA WindowCounts ==
  ASSUME RateLimitInv, NEW by \in Counting, NEW hit, recent' = recent \cup {hit},
         hit \notin recent, hit.age = 0,
         hit.by = by \/ (by = "redis" /\ hit.lost),
         WindowOf(by)' = Counted(WindowOf(by)),
         hit.by = by /\ hit.admitted => Counted(WindowOf(by)).count <= Limit
  PROVE  WindowKept(by)' /\ Counted(WindowOf(by)).count = Cardinality(Current(by)) + 1
<1> DEFINE cur == Current(by)
           adm == AdmittedBy(by)
           w   == WindowOf(by)
           old == AdmittedBy(by) \ Current(by)
           in  == AdmittedBy(by) \cap Current(by)
<1> PICK curN, admN, wN : curN = Current(by)' /\ admN = AdmittedBy(by)' /\ wN = WindowOf(by)'
  OBVIOUS
<1>1. /\ Limit \in Nat /\ Limit >= 1 /\ Window \in Nat /\ Window >= 1
      /\ w \in Counter /\ w.count \in Nat /\ w.left \in 0 .. Window
  BY LimitTypes
<1>2. /\ w.count = Cardinality(cur)
      /\ Cardinality(old) < Limit
      /\ w.left > 0 => \E first \in cur : /\ first.age = Window - w.left
                                          /\ Cardinality(in \cup {first}) <= Limit
  BY DEF RateLimitInv, WindowKept
<1>3. cur \subseteq recent /\ adm \subseteq recent /\ old \subseteq recent
  BY DEF Current, CountedBy, AdmittedBy
<1>4. /\ IsFiniteSet(cur) /\ Cardinality(cur) \in Nat /\ IsFiniteSet(old)
      /\ Cardinality(old) \in Nat /\ hit \notin cur /\ hit \notin adm
  BY <1>3, HitsFinite
<1>5. /\ IsFiniteSet(cur \cup {hit})
      /\ Cardinality(cur \cup {hit}) = Cardinality(cur) + 1
  BY <1>4, OneMore
<1>6. /\ admN \subseteq adm \cup {hit} /\ adm \subseteq admN
      /\ hit \in admN => hit.by = by /\ hit.admitted
  BY DEF AdmittedBy
<1>7. CASE w.left > 0
  <2>1. wN.count = w.count + 1 /\ wN.left = w.left
    BY <1>1, <1>7 DEF Counted, Counter
  <2>2. curN = cur \cup {hit}
    BY <1>1, <1>7, <2>1 DEF Current, CountedBy
  <2>3. PICK first \in cur : /\ first.age = Window - w.left
                             /\ Cardinality(in \cup {first}) <= Limit
    BY <1>2, <1>7
  <2>4. admN \ curN \subseteq old
    BY <1>6, <2>2
  <2>5. Cardinality(admN \ curN) < Limit
    BY <1>1, <1>2, <1>4, <2>4, PartOf
  <2>6. Cardinality((admN \cap curN) \cup {first}) <= Limit
    <3>1. CASE hit \in admN
      <4>1. (admN \cap curN) \cup {first} \subseteq cur \cup {hit}
        BY <1>6, <2>2
      <4>2. Cardinality(cur \cup {hit}) <= Limit
        BY <1>2, <1>5, <1>6, <2>1, <3>1
      <4> QED
        BY <1>1, <1>5, <4>1, <4>2, PartOf
    <3>2. CASE hit \notin admN
      <4>1. (admN \cap curN) \cup {first} = in \cup {first}
        BY <1>4, <1>6, <2>2, <3>2
      <4> QED
        BY <2>3, <4>1
    <3> QED
      BY <3>1, <3>2
  <2>7. wN.count = Cardinality(curN)
    BY <1>2, <1>5, <2>1, <2>2
  <2>8. first \in curN /\ first.age = Window - wN.left
    BY <2>1, <2>2, <2>3
  <2>9. (ThisTick \cap CountedBy(by))' \subseteq curN
    BY <2>2 DEF RateLimitInv, WindowKept, ThisTick, CountedBy
  <2> QED
    BY <1>2, <1>5, <2>1, <2>5, <2>6, <2>7, <2>8, <2>9 DEF WindowKept
<1>8. CASE w.left = 0
  <2>1. wN.count = 1 /\ wN.left = Window
    BY <1>1, <1>8 DEF Counted
  <2>2. cur = {}
    BY <1>1, <1>8 DEF Current
  <2>3. \A h \in CountedBy(by) : h.age # 0
    BY <2>2 DEF RateLimitInv, WindowKept, ThisTick, CountedBy
  <2>4. curN = {hit}
    BY <1>1, <1>8, <2>1, <2>3, LimitTypes DEF Current, CountedBy
  <2>5. /\ (admN \cap curN) \cup {hit} = {hit} /\ hit.age = Window - wN.left
        /\ Cardinality({hit}) = 1
    BY <1>1, <2>1, <2>4, FS_Singleton
  <2>6. admN \ curN \subseteq old
    BY <1>6, <2>2, <2>4
  <2>7. Cardinality(admN \ curN) < Limit
    BY <1>1, <1>2, <1>4, <2>6, PartOf
  <2>8. (ThisTick \cap CountedBy(by))' \subseteq curN
    BY <2>3, <2>4 DEF ThisTick, CountedBy
  <2>9. Cardinality(cur) = 0 /\ Counted(w).count = 1
    BY <1>8, <2>2, FS_EmptySet, <1>1 DEF Counted
  <2> QED
    BY <1>1, <2>1, <2>4, <2>5, <2>7, <2>8, <2>9 DEF WindowKept
<1> QED
  BY <1>1, <1>7, <1>8


\* As time passes the requests are a tick older, and the oldest are forgotten.
Lasting == {hit \in recent : hit.age + 1 < Window}

LEMMA OlderHit ==
  ASSUME RateLimitInv, NEW hit \in recent
  PROVE  /\ Older(hit).age = hit.age + 1 /\ Older(hit).turn = hit.turn
         /\ Older(hit).by = hit.by /\ Older(hit).lost = hit.lost
         /\ Older(hit).admitted = hit.admitted
         /\ hit.age + 1 < Window => Older(hit) \in HitRow
         /\ \A h \in recent : Older(h) = Older(hit) => h = hit
<1>1. hit \in HitRow /\ hit.age \in Nat /\ Window \in Nat
  BY LimitTypes
<1>2. ASSUME NEW h \in recent, Older(h) = Older(hit) PROVE h = hit
  <2>1. h \in HitRow /\ h.age \in Nat
    BY LimitTypes
  <2> QED
    BY <1>1, <1>2, <2>1 DEF Older, HitRow
<1> QED
  BY <1>1, <1>2 DEF Older, HitRow

LEMMA OlderCounted ==
  ASSUME RateLimitInv, NEW S, S \subseteq recent
  PROVE  LET T == {Older(h) : h \in S}
         IN  /\ IsFiniteSet(T) /\ Cardinality(T) \in Nat
             /\ Cardinality(T) = Cardinality(S)
<1> DEFINE T == {Older(h) : h \in S}
           f == [h \in S |-> Older(h)]
<1>1. f \in Bijection(S, T)
  <2>1. f \in [S -> T] /\ \A t \in T : \E h \in S : f[h] = t
    OBVIOUS
  <2>2. \A g, h \in S : f[g] = f[h] => g = h
    BY OlderHit
  <2> QED
    BY <2>1, <2>2 DEF Bijection, Injection, Surjection, IsInjective
<1>2. IsFiniteSet(S)
  BY HitsFinite
<1>3. IsFiniteSet(T) /\ Cardinality(T) = Cardinality(S)
  BY <1>1, <1>2, FS_Bijection DEF ExistsBijection
<1> QED
  BY <1>3, FS_CardinalityType

LEMMA WindowAges ==
  ASSUME RateLimitInv, NEW by \in Counting,
         recent' = {Older(hit) : hit \in Lasting},
         WindowOf(by)' = Aged(WindowOf(by))
  PROVE  WindowKept(by)'
<1> DEFINE cur == Current(by)
           adm == AdmittedBy(by)
           w   == WindowOf(by)
           old == AdmittedBy(by) \ Current(by)
           in  == AdmittedBy(by) \cap Current(by)
           aged(S) == {Older(h) : h \in S}
<1> PICK curN, admN, wN : curN = Current(by)' /\ admN = AdmittedBy(by)' /\ wN = WindowOf(by)'
  OBVIOUS
<1>1. /\ Limit \in Nat /\ Limit >= 1 /\ Window \in Nat /\ Window >= 1
      /\ w \in Counter /\ w.count \in Nat /\ w.left \in 0 .. Window
  BY LimitTypes
<1>2. /\ w.count = Cardinality(cur)
      /\ Cardinality(old) < Limit
      /\ w.left > 0 => \E first \in cur : /\ first.age = Window - w.left
                                          /\ Cardinality(in \cup {first}) <= Limit
  BY DEF RateLimitInv, WindowKept
<1>3. cur \subseteq recent /\ adm \subseteq recent /\ old \subseteq recent
      /\ in \subseteq recent /\ Lasting \subseteq recent
  BY DEF Current, CountedBy, AdmittedBy, Lasting
<1>4. /\ IsFiniteSet(cur) /\ Cardinality(cur) \in Nat /\ IsFiniteSet(old)
      /\ Cardinality(old) \in Nat /\ IsFiniteSet(adm)
  BY <1>3, HitsFinite
<1>5. /\ admN = aged(adm \cap Lasting)
      /\ CountedBy(by)' = aged(CountedBy(by) \cap Lasting)
  BY <1>3, OlderHit DEF AdmittedBy, CountedBy
<1>6. (ThisTick \cap CountedBy(by))' = {}
  BY <1>3, OlderHit, LimitTypes DEF ThisTick
<1>7. CASE w.left > 1
  <2>1. wN.count = w.count /\ wN.left = w.left - 1
    BY <1>1, <1>7 DEF Aged, Counter
  <2>2. cur \subseteq Lasting
    BY <1>1, <1>3, <1>7, LimitTypes DEF Current, Lasting
  <2>3. curN = aged(cur)
    <3>1. ASSUME NEW h \in CountedBy(by) \cap Lasting
          PROVE  Older(h).age <= Window - wN.left <=> h \in cur
      BY <1>1, <1>3, <1>7, <2>1, OlderHit, LimitTypes DEF Current
    <3>2. curN = {h \in aged(CountedBy(by) \cap Lasting) : h.age <= Window - wN.left}
      BY <1>1, <1>5, <1>7, <2>1 DEF Current
    <3>3. cur \subseteq CountedBy(by)
      BY DEF Current
    <3> QED
      BY <2>2, <3>1, <3>2, <3>3
  <2>4. PICK first \in cur : /\ first.age = Window - w.left
                             /\ Cardinality(in \cup {first}) <= Limit
    <3>1. w.left > 0
      BY <1>1, <1>7
    <3> QED
      BY <1>2, <3>1
  <2>5. wN.count = Cardinality(curN)
    BY <1>2, <1>3, <2>1, <2>3, OlderCounted
  <2>6. /\ Older(first) \in curN /\ Older(first).age = Window - wN.left
    BY <1>1, <1>3, <1>7, <2>1, <2>3, <2>4, OlderHit
  <2>7. Cardinality((admN \cap curN) \cup {Older(first)}) <= Limit
    <3>1. admN \cap curN = aged(in)
      BY <1>3, <1>5, <2>2, <2>3, OlderHit
    <3>2. (admN \cap curN) \cup {Older(first)} = aged(in \cup {first})
      BY <3>1
    <3>3. in \cup {first} \subseteq recent
      BY <1>3
    <3> QED
      BY <2>4, <3>2, <3>3, OlderCounted
  <2>8. Cardinality(admN \ curN) < Limit
    <3>1. admN \ curN = aged(old \cap Lasting)
      BY <1>3, <1>5, <2>2, <2>3, OlderHit
    <3>2. Cardinality(old \cap Lasting) < Limit /\ old \cap Lasting \subseteq recent
      BY <1>1, <1>2, <1>3, <1>4, PartOf
    <3> QED
      BY <3>1, <3>2, OlderCounted
  <2> QED
    BY <1>6, <2>5, <2>6, <2>7, <2>8 DEF WindowKept
<1>8. CASE w.left <= 1
  <2>1. wN.count = 0 /\ wN.left = 0
    BY <1>8 DEF Aged, Unused
  <2>2. curN = {}
    BY <2>1 DEF Current
  <2>3. Cardinality(adm \cap Lasting) < Limit
    <3>1. CASE w.left = 0
      <4>1. adm \cap Lasting \subseteq old
        BY <3>1 DEF Current
      <4> QED
        BY <1>1, <1>2, <1>4, <4>1, PartOf
    <3>2. CASE w.left = 1
      <4>1. PICK first \in cur : /\ first.age = Window - 1
                                 /\ Cardinality(in \cup {first}) <= Limit
        BY <1>2, <3>2
      <4>2. adm \cap Lasting \subseteq in /\ first \notin adm \cap Lasting
        BY <1>1, <1>3, <3>2, <4>1, LimitTypes DEF Current, Lasting, AdmittedBy, CountedBy
      <4>3. IsFiniteSet(adm \cap Lasting)
        BY <1>4, PartOf
      <4>4. Cardinality((adm \cap Lasting) \cup {first}) = Cardinality(adm \cap Lasting) + 1
            /\ Cardinality(adm \cap Lasting) \in Nat
        BY <4>2, <4>3, OneMore
      <4>5. in \cup {first} \subseteq recent
        BY <1>3
      <4>6. IsFiniteSet(in \cup {first})
        BY <4>5, HitsFinite
      <4>7. (adm \cap Lasting) \cup {first} \subseteq in \cup {first}
        BY <4>2
      <4>8. /\ Cardinality((adm \cap Lasting) \cup {first}) <= Cardinality(in \cup {first})
            /\ Cardinality(in \cup {first}) \in Nat
        BY <4>6, <4>7, PartOf
      <4> QED
        BY <1>1, <4>1, <4>4, <4>8
    <3> QED
      BY <1>1, <1>8, <3>1, <3>2
  <2>4. Cardinality(admN) < Limit
    <3>1. adm \cap Lasting \subseteq recent
      BY <1>3
    <3> QED
      BY <1>5, <2>3, <3>1, OlderCounted
  <2>5. admN \ curN = admN /\ Cardinality(curN) = 0
    BY <2>2, FS_EmptySet
  <2> QED
    BY <1>6, <2>1, <2>4, <2>5 DEF WindowKept
<1> QED
  BY <1>1, <1>7, <1>8

\* What a request looks like when it has been counted.
LEMMA HitFacts ==
  ASSUME RateLimitInv, NEW by \in Counting, NEW lost \in BOOLEAN, NEW count \in Nat
  PROVE  LET hit == Hit(by, count, lost)
         IN  /\ hit \in HitRow /\ hit.age = 0 /\ hit.turn = Cardinality(ThisTick)
             /\ hit.by = by /\ hit.lost = lost
             /\ hit.admitted <=> count <= Limit
             /\ hit \notin recent
<1> DEFINE hit == Hit(by, count, lost)
           turn == Cardinality(ThisTick)
           passes == count <= Limit
<1>1. turn \in Nat /\ 0 \in 0 .. Window - 1
  <2>1. ThisTick \subseteq recent
    BY DEF ThisTick
  <2> QED
    BY <2>1, HitsFinite, LimitTypes
<1>2. passes \in BOOLEAN /\ hit = [age |-> 0, turn |-> turn, by |-> by, lost |-> lost,
                                   admitted |-> passes]
  BY LimitTypes DEF Hit
<1>3. hit.turn = Cardinality(ThisTick)
  BY <1>2
<1> HIDE DEF hit, turn, passes
<1>4. /\ hit \in HitRow /\ hit.age = 0 /\ hit.turn = turn /\ hit.by = by
      /\ hit.lost = lost /\ hit.admitted = passes
  BY <1>1, <1>2 DEF HitRow
<1>5. hit \notin recent
  BY <1>3, <1>4, HitIsNew
<1> QED
  BY <1>3, <1>4, <1>5 DEF hit, passes

\* One request arrives and each counter that it counts for is one further.
LEMMA HitArrives ==
  ASSUME RateLimitInv, NEW by \in Counting, NEW lost \in BOOLEAN,
         lost => by # "redis",
         Decide(by, Counted(WindowOf(by)).count, lost),
         \A c \in Counting :
           WindowOf(c)' = IF c = by \/ (c = "redis" /\ lost)
                            THEN Counted(WindowOf(c)) ELSE WindowOf(c)
  PROVE  /\ recent' \subseteq HitRow
         /\ IsFiniteSet(recent)' /\ Cardinality(recent)' <= MaxRecent
         /\ \A c \in Counting : WindowKept(c)' /\ WindowOf(c)' \in Counter
         /\ \A hit \in ThisTick' : hit.turn < Cardinality(ThisTick)'
         /\ \A hit \in ThisTick' : ~hit.admitted => Cardinality(Ahead(hit)') >= Limit
<1> DEFINE count == Counted(WindowOf(by)).count
           hit   == Hit(by, count, lost)
<1>1. count \in Nat
  BY LimitTypes DEF Counted, Counter
<1>2. /\ hit \in HitRow /\ hit.age = 0 /\ hit.turn = Cardinality(ThisTick)
      /\ hit.by = by /\ hit.lost = lost
      /\ hit.admitted <=> count <= Limit
      /\ hit \notin recent
  BY <1>1, HitFacts
<1>3. Cardinality(recent) < MaxRecent /\ recent' = recent \cup {hit}
  BY DEF Decide
<1>4. IsFiniteSet(recent) /\ recent \subseteq HitRow /\ Cardinality(recent) \in Nat
  BY HitsFinite, LimitTypes DEF RateLimitInv
<1> HIDE DEF hit, count
<1>5. /\ IsFiniteSet(recent') /\ Cardinality(recent') = Cardinality(recent) + 1
      /\ recent' \subseteq HitRow /\ MaxRecent \in Nat
  BY <1>2, <1>3, <1>4, OneMore, LimitTypes
<1>6. ASSUME NEW c \in Counting PROVE WindowKept(c)' /\ WindowOf(c)' \in Counter
  <2>1. CASE c = by \/ (c = "redis" /\ lost)
    <3>1. WindowOf(c)' = Counted(WindowOf(c))
      BY <2>1
    <3>2. hit.by = c /\ hit.admitted => Counted(WindowOf(c)).count <= Limit
      BY <1>2 DEF count
    <3>3. WindowKept(c)' /\ Counted(WindowOf(c)).count = Cardinality(Current(c)) + 1
      BY <1>2, <1>3, <2>1, <3>1, <3>2, WindowCounts
    <3>4. Cardinality(Current(c)) \in Nat /\ Cardinality(Current(c)) <= Cardinality(recent)
      BY HitsFinite DEF Current, CountedBy
    <3>5. /\ WindowOf(c) \in Counter /\ WindowOf(c).left \in 0 .. Window
          /\ Window \in Nat
      BY LimitTypes
    <3>6. Counted(WindowOf(c)) \in [count : Nat, left : 0 .. Window]
      BY <3>5 DEF Counted, Counter
    <3>7. Counted(WindowOf(c)).count \in 0 .. MaxRecent
      BY <1>3, <1>4, <1>5, <3>3, <3>4
    <3> QED
      BY <3>1, <3>3, <3>6, <3>7 DEF Counter
  <2>2. CASE ~(c = by \/ (c = "redis" /\ lost))
    <3>1. WindowOf(c)' = WindowOf(c)
      BY <2>2
    <3>2. ~(hit.by = c \/ (c = "redis" /\ hit.lost))
      BY <1>2, <2>2
    <3>3. WindowKept(c)'
      BY <1>3, <3>1, <3>2, WindowUntouched
    <3> QED
      BY <3>1, <3>3, LimitTypes
  <2> QED
    BY <2>1, <2>2
<1>7. /\ ThisTick' = ThisTick \cup {hit} /\ hit \notin ThisTick
      /\ IsFiniteSet(ThisTick) /\ Cardinality(ThisTick) \in Nat
      /\ Cardinality(ThisTick') = Cardinality(ThisTick) + 1
  <2>1. ThisTick' = ThisTick \cup {hit} /\ ThisTick \subseteq recent
    BY <1>2, <1>3 DEF ThisTick
  <2> QED
    BY <1>2, <2>1, HitsFinite, OneMore
<1>8. \A h \in ThisTick : /\ h.turn < Cardinality(ThisTick) /\ h.turn \in Nat
                          /\ h \in recent
                          /\ ~h.admitted => Cardinality(Ahead(h)) >= Limit
  BY LimitTypes DEF RateLimitInv, ThisTick
<1>9. \A h \in ThisTick' : h.turn < Cardinality(ThisTick')
  BY <1>2, <1>7, <1>8
<1>10. ASSUME NEW h \in ThisTick', ~h.admitted
       PROVE  Cardinality(Ahead(h)') >= Limit
  <2>1. CASE h \in ThisTick
    <3>1. Ahead(h)' = Ahead(h)
      <4>1. hit.turn \in Nat /\ h.turn \in Nat /\ h.turn < hit.turn
        BY <1>2, <1>7, <1>8, <2>1
      <4> QED
        BY <1>2, <1>3, <4>1 DEF Ahead, CountedBy
    <3> QED
      BY <1>8, <1>10, <2>1, <3>1
  <2>2. CASE h = hit
    <3>1. Cardinality(Current(by)) + 1 > Limit
      <4>1. count > Limit
        BY <1>1, <1>2, <1>10, <2>2, LimitTypes
      <4>2. hit.by = by /\ hit.admitted => Counted(WindowOf(by)).count <= Limit
        BY <1>2 DEF count
      <4>3. count = Cardinality(Current(by)) + 1
        BY <1>2, <1>3, <4>2, WindowCounts DEF count
      <4> QED
        BY <4>1, <4>3
    <3>2. Current(by) \subseteq Ahead(h)'
      <4>1. ASSUME NEW g \in Current(by) PROVE g \in Ahead(h)'
        <5>1. /\ g \in CountedBy(by) /\ g \in recent /\ g.age \in Nat
          BY LimitTypes DEF Current, CountedBy
        <5>2. g \in CountedBy(by)' /\ by = h.by
          BY <1>2, <1>3, <2>2, <5>1 DEF CountedBy
        <5>3. g.age > 0 \/ g.turn < h.turn
          BY <1>2, <1>8, <2>2, <5>1 DEF ThisTick
        <5> QED
          BY <5>2, <5>3 DEF Ahead
      <4> QED
        BY <4>1
    <3>3. Ahead(h)' \subseteq recent'
      BY DEF Ahead, CountedBy
    <3>4. IsFiniteSet(Ahead(h)')
      BY <1>5, <3>3, PartOf
    <3>5. /\ Cardinality(Current(by)) <= Cardinality(Ahead(h)')
          /\ Cardinality(Current(by)) \in Nat /\ Cardinality(Ahead(h)') \in Nat
      BY <3>2, <3>4, PartOf
    <3> QED
      BY <3>1, <3>5, LimitTypes
  <2> QED
    BY <1>7, <2>1, <2>2
<1> QED
  BY <1>3, <1>4, <1>5, <1>6, <1>9, <1>10

LEMMA WindowsOf ==
  ASSUME RateLimitInv
  PROVE  /\ WindowOf("redis") = shared /\ shared \in Counter
         /\ "redis" \in Counting /\ "redis" \notin Instance
         /\ windows \in [Instance -> Counter]
         /\ \A i \in Instance : i \in Counting /\ WindowOf(i) = windows[i]
BY RateLimitAssumption DEF RateLimitInv, RateLimitTypeOK, WindowOf, Counting

LEMMA ByRedisStep ==
  ASSUME RateLimitInv, ByRedis
  PROVE  RateLimitInv'
<1>1. Decide("redis", Counted(WindowOf("redis")).count, FALSE)
  BY WindowsOf DEF ByRedis, Decide, Hit
<1>2. \A c \in Counting :
        WindowOf(c)' = IF c = "redis" THEN Counted(WindowOf(c)) ELSE WindowOf(c)
  BY WindowsOf DEF ByRedis, WindowOf, Counting
<1>3. /\ recent' \subseteq HitRow
      /\ IsFiniteSet(recent)' /\ Cardinality(recent)' <= MaxRecent
      /\ \A c \in Counting : WindowKept(c)' /\ WindowOf(c)' \in Counter
      /\ \A hit \in ThisTick' : hit.turn < Cardinality(ThisTick)'
      /\ \A hit \in ThisTick' : ~hit.admitted => Cardinality(Ahead(hit)') >= Limit
  BY <1>1, <1>2, WindowsOf, HitArrives
<1>4. RateLimitTypeOK'
  BY <1>3, WindowsOf DEF RateLimitTypeOK, RateLimitInv, ByRedis, WindowOf, HitRow
<1> QED
  BY <1>3, <1>4 DEF RateLimitInv

LEMMA ByInstanceStep ==
  ASSUME RateLimitInv, NEW i \in Instance, ByInstance(i)
  PROVE  RateLimitInv'
<1>1. /\ windows' = [windows EXCEPT ![i] = Counted(@)]
      /\ enabled' = enabled /\ outages' \in 0 .. Outages
  <2>1. outages \in Nat /\ Outages \in Nat
    BY RateLimitAssumption DEF RateLimitInv, RateLimitTypeOK
  <2> QED
    BY <2>1 DEF ByInstance
<1>2. windows'[i] = Counted(WindowOf(i))
  BY <1>1, WindowsOf
<1>3. PICK lost \in BOOLEAN :
        /\ Decide(i, Counted(WindowOf(i)).count, lost)
        /\ shared' = IF lost THEN Counted(shared) ELSE shared
  BY <1>2 DEF ByInstance
<1>4. \A c \in Counting :
        WindowOf(c)' = IF c = i \/ (c = "redis" /\ lost)
                         THEN Counted(WindowOf(c)) ELSE WindowOf(c)
  BY <1>1, <1>3, WindowsOf DEF WindowOf, Counting
<1>5. i # "redis" /\ i \in Counting
  BY WindowsOf
<1>6. /\ recent' \subseteq HitRow
      /\ IsFiniteSet(recent)' /\ Cardinality(recent)' <= MaxRecent
      /\ \A c \in Counting : WindowKept(c)' /\ WindowOf(c)' \in Counter
      /\ \A hit \in ThisTick' : hit.turn < Cardinality(ThisTick)'
      /\ \A hit \in ThisTick' : ~hit.admitted => Cardinality(Ahead(hit)') >= Limit
  BY <1>3, <1>4, <1>5, HitArrives
<1>7. RateLimitTypeOK'
  <2>1. shared' \in Counter
    BY <1>6, WindowsOf DEF WindowOf
  <2>2. windows' \in [Instance -> Counter]
    <3>1. windows'[i] \in Counter
      BY <1>2, <1>4, <1>5, <1>6
    <3> QED
      BY <1>1, <3>1, WindowsOf
  <2> QED
    BY <1>1, <1>6, <2>1, <2>2 DEF RateLimitTypeOK, RateLimitInv, HitRow
<1> QED
  BY <1>6, <1>7 DEF RateLimitInv

LEMMA PassStep ==
  ASSUME RateLimitInv, Pass
  PROVE  RateLimitInv'
<1>1. /\ recent' = {Older(hit) : hit \in Lasting} /\ Lasting \subseteq recent
      /\ shared' = Aged(shared)
      /\ windows' = [i \in Instance |-> Aged(windows[i])]
      /\ enabled' = enabled /\ outages' = outages
  BY DEF Pass, Lasting
<1>2. \A c \in Counting : WindowOf(c)' = Aged(WindowOf(c))
  BY <1>1, WindowsOf DEF WindowOf, Counting
<1>3. \A c \in Counting : WindowKept(c)'
  BY <1>1, <1>2, WindowAges
<1>4. /\ IsFiniteSet(recent') /\ Cardinality(recent') = Cardinality(Lasting)
      /\ Cardinality(Lasting) <= Cardinality(recent)
      /\ Cardinality(Lasting) \in Nat /\ Cardinality(recent) \in Nat
      /\ Cardinality(recent) <= MaxRecent /\ MaxRecent \in Nat
  BY <1>1, OlderCounted, HitsFinite, LimitTypes DEF RateLimitInv
<1>5. recent' \subseteq HitRow /\ ThisTick' = {}
  BY <1>1, OlderHit, LimitTypes DEF Lasting, ThisTick
<1>6. ASSUME NEW w \in Counter PROVE Aged(w) \in Counter
  BY <1>4, LimitTypes DEF Aged, Unused, Counter
<1>7. RateLimitTypeOK'
  BY <1>1, <1>5, <1>6, WindowsOf DEF RateLimitTypeOK, RateLimitInv, HitRow
<1> QED
  BY <1>3, <1>4, <1>5, <1>7 DEF RateLimitInv

LEMMA InitRateLimit == RateLimitInit => RateLimitInv
<1> SUFFICES ASSUME RateLimitInit PROVE RateLimitInv
  OBVIOUS
<1>1. /\ Limit \in Nat /\ Limit >= 1 /\ Window \in Nat /\ MaxRecent \in Nat
      /\ Outages \in Nat
  BY RateLimitAssumption
<1>2. recent = {} /\ ThisTick = {} /\ Cardinality({}) = 0 /\ IsFiniteSet({})
  BY FS_EmptySet DEF RateLimitInit, ThisTick
<1>3. RateLimitTypeOK
  BY <1>1 DEF RateLimitInit, RateLimitTypeOK, Counter, Unused
<1>4. ASSUME NEW by \in Counting PROVE WindowKept(by)
  <2>1. /\ Current(by) = {} /\ AdmittedBy(by) = {} /\ CountedBy(by) = {}
        /\ AdmittedBy(by) \ Current(by) = {}
    BY <1>2 DEF Current, AdmittedBy, CountedBy
  <2>2. WindowOf(by) = Unused
    BY <1>4 DEF WindowOf, RateLimitInit, Counting
  <2> QED
    BY <1>1, <1>2, <2>1, <2>2 DEF WindowKept, Unused
<1> QED
  BY <1>1, <1>2, <1>3, <1>4 DEF RateLimitInv

\* Every counter of the rate limit counts the requests of the window it has open,
\* and what is left of the window before lacks the request that opened it: the
\* invariant holds whatever the limit, the window and the number of instances.
THEOREM RateLimitInvariance == RateLimitSpec => []RateLimitInv
<1>1. RateLimitInit => RateLimitInv
  BY InitRateLimit
<1>2. RateLimitInv /\ [RateLimitNext]_limitVars => RateLimitInv'
  <2> SUFFICES ASSUME RateLimitInv, [RateLimitNext]_limitVars PROVE RateLimitInv'
    OBVIOUS
  <2>1. CASE ByRedis
    BY <2>1, ByRedisStep
  <2>2. CASE Pass
    BY <2>2, PassStep
  <2>3. ASSUME NEW i \in Instance, ByInstance(i) PROVE RateLimitInv'
    BY <2>3, ByInstanceStep
  <2>4. CASE UNCHANGED limitVars
    <3>1. /\ shared' = shared /\ windows' = windows /\ enabled' = enabled
          /\ outages' = outages /\ recent' = recent
      BY <2>4 DEF limitVars
    <3>2. /\ ThisTick' = ThisTick
          /\ \A c \in Counting : /\ WindowOf(c)' = WindowOf(c)
                                 /\ CountedBy(c)' = CountedBy(c)
                                 /\ AdmittedBy(c)' = AdmittedBy(c)
      BY <3>1 DEF ThisTick, WindowOf, CountedBy, AdmittedBy
    <3>3. \A c \in Counting : Current(c)' = Current(c)
      BY <3>2 DEF Current
    <3>4. \A hit \in ThisTick : Ahead(hit)' = Ahead(hit)
      BY <3>1 DEF Ahead, CountedBy
    <3>5. RateLimitTypeOK' /\ \A c \in Counting : WindowKept(c)'
      BY <3>1, <3>2, <3>3 DEF RateLimitInv, RateLimitTypeOK, WindowKept
    <3> QED
      BY <3>1, <3>2, <3>4, <3>5 DEF RateLimitInv
  <2> QED
    BY <2>1, <2>2, <2>3, <2>4 DEF RateLimitNext
<1> QED
  BY <1>1, <1>2, PTL DEF RateLimitSpec

\* No counter of RateLimitGuard lets more than 2 * Limit - 1 requests pass in a
\* span of one window, across the border of its windows, when Redis fails and when
\* an EVAL is executed whose answer is lost; and no one is refused who had not
\* sent Limit requests within the length of a window.
THEOREM LimitIsKept == RateLimitSpec => []LimitKept
<1>1. RateLimitInv => LimitKept
  <2> SUFFICES ASSUME RateLimitInv PROVE LimitKept
    OBVIOUS
  <2>1. ASSUME NEW by \in Counting PROVE Cardinality(AdmittedBy(by)) <= 2 * Limit - 1
    <3> DEFINE adm == AdmittedBy(by)
               cur == Current(by)
    <3>1. WindowKept(by) /\ Limit \in Nat /\ WindowOf(by).left \in Nat
      BY LimitTypes DEF RateLimitInv
    <3>2. /\ IsFiniteSet(adm \cap cur) /\ IsFiniteSet(adm \ cur)
          /\ Cardinality(adm \cap cur) \in Nat /\ Cardinality(adm \ cur) \in Nat
          /\ IsFiniteSet(adm) /\ Cardinality(adm) \in Nat
          /\ IsFiniteSet(cur)
      BY HitsFinite DEF AdmittedBy, Current, CountedBy
    <3>3. Cardinality(adm \cap cur) <= Limit
      <4>1. CASE WindowOf(by).left > 0
        <5>1. PICK first \in cur : Cardinality((adm \cap cur) \cup {first}) <= Limit
          BY <3>1, <4>1 DEF WindowKept
        <5>2. (adm \cap cur) \cup {first} \subseteq recent
          BY DEF Current, CountedBy
        <5>3. /\ Cardinality(adm \cap cur) <= Cardinality((adm \cap cur) \cup {first})
              /\ Cardinality((adm \cap cur) \cup {first}) \in Nat
          BY <5>2, HitsFinite, PartOf
        <5> QED
          BY <3>1, <3>2, <5>1, <5>3
      <4>2. CASE ~(WindowOf(by).left > 0)
        <5>1. adm \cap cur = {}
          BY <4>2 DEF Current
        <5> QED
          BY <3>1, <5>1, FS_EmptySet
      <4> QED
        BY <4>1, <4>2
    <3>4. Cardinality(adm \ cur) = Cardinality(adm) - Cardinality(adm \cap cur)
      BY <3>2, FS_Difference
    <3>5. Cardinality(adm \ cur) < Limit
      BY <3>1 DEF WindowKept
    <3> QED
      BY <3>1, <3>2, <3>3, <3>4, <3>5
  <2> QED
    BY <2>1 DEF LimitKept, RateLimitInv
<1> QED
  BY <1>1, RateLimitInvariance, PTL

-----------------------------------------------------------------------------
(* The composition that TLC runs: four components, one of which moves.     *)

(* Each step of the composition is a step of each component or leaves its  *)
(* variables alone, so every run of it is a run of all four: what is true  *)
(* of a component alone is true of it in the composition.                  *)
THEOREM ServicesAreTheirParts ==
  ServicesSpec => SessionsSpec /\ MapCacheSpec /\ MediaSpec /\ RateLimitSpec
<1> DEFINE vars == <<sessionsVars, mapVars, mediaVars, limitVars, moving>>
<1>1. ServicesInit =>
        SessionsInit /\ MapCacheInit /\ MediaInit /\ RateLimitInit
  BY DEF ServicesInit
<1>2. [ServicesNext]_vars => [SessionsNext]_sessionsVars
  BY DEF ServicesNext
<1>3. [ServicesNext]_vars => [MapCacheNext]_mapVars
  BY DEF ServicesNext
<1>4. [ServicesNext]_vars => [MediaNext]_mediaVars
  BY DEF ServicesNext
<1>5. [ServicesNext]_vars => [RateLimitNext]_limitVars
  BY DEF ServicesNext
<1> QED
  BY <1>1, <1>2, <1>3, <1>4, <1>5, PTL
  DEF ServicesSpec, SessionsSpec, MapCacheSpec, MediaSpec, RateLimitSpec

(* The invariant of the composition, that TLC checks on the small          *)
(* instance, for every instance: the inductive invariant of whichever      *)
(* component moves.                                                        *)
THEOREM ServicesInvariance == ServicesSpec => []ServicesInv
<1>1. SessionsInv /\ MapCacheInv /\ MediaInv /\ RateLimitInv => ServicesInv
  BY DEF ServicesInv
<1> QED
  BY <1>1, ServicesAreTheirParts, SessionsInvariance, MapCacheInvariance,
     MediaInvariance, RateLimitInvariance, PTL
=============================================================================
