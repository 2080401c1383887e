----------------------- MODULE IdentityAccountProofs -----------------------
(***************************************************************************)
(* Proofs about IdentityAccount, for any number of requests, codes and     *)
(* tokens, and any lock tiers.                                             *)
(***************************************************************************)
EXTENDS IdentityAccount, FiniteSetTheorems, TLAPS

HoldsRow(p) == Doing(p, "deleting") \/ Doing(p, "erasing")

\* What the row locks are for: one transaction at a time has the account row, and
\* one a token that is being exchanged, which is live until then.
LocksOK ==
  /\ \A p, q \in Requests : HoldsRow(p) /\ HoldsRow(q) => p = q
  /\ \A p \in Requests : Doing(p, "rotating") =>
       /\ tokens[request[p].token] = "live"
       /\ \A q \in Requests : Doing(q, "rotating") /\ request[q].token = request[p].token => p = q

\* What a request under way knows of the account: no login can commit while a
\* deletion has the row, an erasure settles tokens that exist, and a password was
\* only tried on an active account.
ReadsOK == \A p \in Requests :
  /\ Doing(p, "erasing") =>
       account.status = "deleted" /\ \A t \in Tokens : t \in request[p].seen => tokens[t] # "none"
  /\ Doing(p, "failing") => account.status # "pending"
  /\ Doing(p, "deleting") => \A t \in LoggedIn : tokens[t] = "live" => t \in request[p].seen

\* A code that is not used has verified nothing.
CodesOK == \A c \in Codes : codes[c] \in {"none", "unused"} => activated[c] = 0

IInv ==
  /\ TypeOK
  /\ OneLiveTokenPerLogin
  /\ OnlyRotationOutlivesDeletion
  /\ CodeVerifiesOnce
  /\ LocksOK /\ ReadsOK /\ CodesOK

-----------------------------------------------------------------------------
(***************************************************************************)
(* Lemmas about requests, tokens and locks.                                *)
(***************************************************************************)

\* What a request has read goes with what it is doing.
LEMMA RequestFields ==
  ASSUME NEW r \in RequestStates
  PROVE  /\ r.doing = "verifying" => r.code \in Codes
         /\ r.doing \in {"refreshing", "rotating"} => r.token \in Tokens
         /\ r.doing \in {"delete", "deleting"} => r.copy \in Rows
         /\ r.doing \in {"deleting", "erasing"} => r.seen \in SUBSET Tokens
BY DEF RequestStates

\* A step of one request leaves the others as they are.
LEMMA OneRequestGoes ==
  ASSUME request \in [Requests -> RequestStates],
         NEW p \in Requests, NEW from, NEW what \in RequestStates,
         Goes(p, from, what)
  PROVE  /\ request' \in [Requests -> RequestStates]
         /\ request'[p] = what
         /\ \A q \in Requests \ {p} : request'[q] = request[q]
BY DEF Goes

\* A lock tier is one of the tiers, or none.
LEMMA LockTierType ==
  ASSUME NEW n
  PROVE  LockTier(n) \in 0..Cardinality(LockTiers)
<1>. DEFINE reached == {k \in LockTiers : k <= n}
<1>1. IsFiniteSet(LockTiers)
  BY IdentityAssumption
<1>2. reached \subseteq LockTiers
  OBVIOUS
<1>3. /\ IsFiniteSet(reached)
      /\ Cardinality(reached) <= Cardinality(LockTiers)
  BY <1>1, <1>2, FS_Subset
<1>4. Cardinality(reached) \in Nat /\ Cardinality(LockTiers) \in Nat
  BY <1>1, <1>3, FS_CardinalityType
<1>5. LockTier(n) = Cardinality(reached)
  BY DEF LockTier
<1>. QED  BY <1>3, <1>4, <1>5

\* An account without failures is a row.
LEMMA RegisteredType ==
  ASSUME NEW status \in Statuses
  PROVE  Registered(status) \in Rows
<1>1. Cardinality(LockTiers) \in Nat
  BY IdentityAssumption, FS_CardinalityType
<1>. QED  BY <1>1, IdentityAssumption DEF Registered, Rows

\* Initially nothing has been read, issued or verified.
LEMMA InvariantInitially == Init => IInv
<1>. SUFFICES ASSUME Init PROVE IInv
  OBVIOUS
<1>1. PICK status \in {"pending", "active"} :
        /\ account = Registered(status)
        /\ \E c \in Codes : codes = [x \in Codes |->
             IF x = c /\ status = "pending" THEN "unused" ELSE "none"]
  BY DEF Init
<1>2. account \in Rows
  BY <1>1, RegisteredType DEF Statuses
<1>3. request \in [Requests -> RequestStates]
  BY DEF Init, Idle, RequestStates
<1>4. TypeOK
  BY <1>1, <1>2, <1>3 DEF Init, TypeOK, Registered
<1>5. /\ OneLiveTokenPerLogin /\ OnlyRotationOutlivesDeletion
      /\ CodeVerifiesOnce /\ CodesOK
  BY <1>1 DEF Init, OneLiveTokenPerLogin, OnlyRotationOutlivesDeletion, CodeVerifiesOnce,
              CodesOK, LoggedIn, Registered
<1>6. LocksOK /\ ReadsOK
  BY DEF Init, LocksOK, ReadsOK, HoldsRow, Doing, Idle
<1>. QED  BY <1>4, <1>5, <1>6 DEF IInv

-----------------------------------------------------------------------------
(***************************************************************************)
(* Steps that only read. They change no row, so what is left to show is    *)
(* that what they have read is kept as it was.                             *)
(***************************************************************************)
rows == <<account, codes, tokens, parent, activated>>

\* A request may start or go on to anything that claims no lock and nothing of the
\* account beyond what is so.
LEMMA ReadsKeepInvariant ==
  ASSUME IInv, UNCHANGED rows,
         NEW p \in Requests, NEW from, NEW what \in RequestStates,
         Goes(p, from, what),
         what.doing \notin {"rotating", "deleting", "erasing"},
         what.doing = "failing" => account.status # "pending"
  PROVE  IInv'
<1>1. /\ request' \in [Requests -> RequestStates]
      /\ request'[p] = what
      /\ \A q \in Requests \ {p} : request'[q] = request[q]
  BY OneRequestGoes DEF IInv, TypeOK
<1>2. TypeOK'
  BY <1>1 DEF IInv, TypeOK, rows
<1>3. /\ OneLiveTokenPerLogin' /\ OnlyRotationOutlivesDeletion'
      /\ CodeVerifiesOnce' /\ CodesOK'
  BY DEF IInv, OneLiveTokenPerLogin, OnlyRotationOutlivesDeletion, CodeVerifiesOnce,
         CodesOK, LoggedIn, rows
<1>4. LocksOK'
  BY <1>1 DEF IInv, LocksOK, HoldsRow, Doing, rows
<1>5. ReadsOK'
  BY <1>1 DEF IInv, ReadsOK, Doing, LoggedIn, rows
<1>. QED  BY <1>2, <1>3, <1>4, <1>5 DEF IInv

\* Starting a request, and dropping one, changes no row.
LEMMA BeginKeepsInvariant ==
  ASSUME IInv, NEW p \in Requests, Begin(p), ~ EraseWrite(p)
  PROVE  IInv'
<1>1. CASE \E c \in Codes : VerifyRead(p, c)
  <2>1. PICK c \in Codes : VerifyRead(p, c)
    BY <1>1
  <2>2. [doing |-> "verifying", code |-> c] \in RequestStates
    BY DEF RequestStates
  <2>. QED  BY <2>1, <2>2, ReadsKeepInvariant DEF VerifyRead, Starts, Goes, rows
<1>2. CASE ResendRead(p)
  <2>1. [doing |-> "resending"] \in RequestStates
    BY DEF RequestStates
  <2>. QED  BY <1>2, <2>1, ReadsKeepInvariant DEF ResendRead, Starts, Goes, rows
<1>3. CASE \E right \in BOOLEAN : LoginRead(p, right)
  <2>1. PICK right \in BOOLEAN : LoginRead(p, right)
    BY <1>3
  <2>2. PICK doing \in {"logging_in", "failing"} : Starts(p, [doing |-> doing])
    BY <2>1 DEF LoginRead
  <2>3. [doing |-> doing] \in RequestStates
    BY DEF RequestStates
  <2>. QED  BY <2>1, <2>2, <2>3, ReadsKeepInvariant DEF LoginRead, CanLogin, Starts, Goes, rows
<1>4. CASE \E t \in Tokens : RefreshRead(p, t)
  <2>1. PICK t \in Tokens : RefreshRead(p, t)
    BY <1>4
  <2>2. [doing |-> "refreshing", token |-> t] \in RequestStates
    BY DEF RequestStates
  <2>. QED  BY <2>1, <2>2, ReadsKeepInvariant DEF RefreshRead, Starts, Goes, rows
<1>5. CASE DeleteRead(p)
  <2>1. [doing |-> "delete", copy |-> account] \in RequestStates
    BY DEF RequestStates, IInv, TypeOK
  <2>. QED  BY <1>5, <2>1, ReadsKeepInvariant DEF DeleteRead, Starts, Goes, rows
<1>. QED  BY <1>1, <1>2, <1>3, <1>4, <1>5 DEF Begin

LEMMA DropKeepsInvariant ==
  ASSUME IInv, NEW p \in Requests, Drop(p)
  PROVE  IInv'
<1>1. Idle \in RequestStates
  BY DEF Idle, RequestStates
<1>2. Goes(p, request[p].doing, Idle)
  BY DEF Drop, Goes, Doing
<1>3. UNCHANGED rows
  BY DEF Drop, rows
<1>. QED  BY <1>1, <1>2, <1>3, ReadsKeepInvariant DEF Idle

\* A transaction that takes the account row is the only one that has it, and
\* whatever is live then is among what it settles.
LEMMA RowLockKeepsInvariant ==
  ASSUME IInv, NEW p \in Requests, DeleteWrite(p) \/ EraseWrite(p)
  PROVE  IInv'
<1>1. PICK from \in {"delete", "nothing"}, what \in RequestStates :
        /\ Goes(p, from, what)
        /\ \/ what.doing = "deleting" /\ what.seen = {t \in Tokens : tokens[t] = "live"}
           \/ /\ what.doing = "erasing" /\ account.status = "deleted"
              /\ \A t \in Tokens : t \in what.seen => tokens[t] # "none"
  <2>1. CASE DeleteWrite(p)
    <3>. DEFINE what == [doing |-> "deleting", copy |-> request[p].copy,
                         seen |-> {t \in Tokens : tokens[t] = "live"}]
    <3>1. request[p].copy \in Rows
      BY <2>1, RequestFields DEF DeleteWrite, Doing, IInv, TypeOK
    <3>2. what \in RequestStates
      BY <3>1 DEF RequestStates
    <3>3. Goes(p, "delete", what)
      BY <2>1 DEF DeleteWrite
    <3>4. what.doing = "deleting" /\ what.seen = {t \in Tokens : tokens[t] = "live"}
      OBVIOUS
    <3>. HIDE DEF what
    <3>. QED  BY <3>2, <3>3, <3>4
  <2>2. CASE EraseWrite(p)
    <3>. DEFINE what == [doing |-> "erasing", seen |-> {t \in Tokens : tokens[t] # "none"}]
    <3>1. what \in RequestStates
      BY DEF RequestStates
    <3>2. Goes(p, "nothing", what)
      BY <2>2 DEF EraseWrite, Starts, Goes
    <3>3. what.doing = "erasing" /\ \A t \in Tokens : t \in what.seen => tokens[t] # "none"
      OBVIOUS
    <3>4. account.status = "deleted"
      BY <2>2 DEF EraseWrite
    <3>. HIDE DEF what
    <3>. QED  BY <3>1, <3>2, <3>3, <3>4
  <2>. QED  BY <2>1, <2>2
<1>2. /\ request' \in [Requests -> RequestStates]
      /\ request'[p] = what
      /\ \A q \in Requests \ {p} : request'[q] = request[q]
  BY <1>1, OneRequestGoes DEF IInv, TypeOK
<1>3. UNCHANGED rows /\ RowFree
  BY DEF DeleteWrite, EraseWrite, rows
<1>4. TypeOK'
  BY <1>2, <1>3 DEF IInv, TypeOK, rows
<1>5. /\ OneLiveTokenPerLogin' /\ OnlyRotationOutlivesDeletion'
      /\ CodeVerifiesOnce' /\ CodesOK'
  BY <1>3 DEF IInv, OneLiveTokenPerLogin, OnlyRotationOutlivesDeletion, CodeVerifiesOnce,
              CodesOK, LoggedIn, rows
<1>6. LocksOK'
  BY <1>1, <1>2, <1>3 DEF IInv, LocksOK, HoldsRow, RowFree, Doing, rows
<1>7. ReadsOK'
  BY <1>1, <1>2, <1>3 DEF IInv, ReadsOK, Doing, LoggedIn, rows
<1>. QED  BY <1>4, <1>5, <1>6, <1>7 DEF IInv

-----------------------------------------------------------------------------
(***************************************************************************)
(* Steps that write.                                                       *)
(***************************************************************************)

\* A request that ends holds no lock and knows nothing any more.
LEMMA RequestEnds ==
  ASSUME IInv, NEW p \in Requests, NEW what, Ends(p, what)
  PROVE  /\ request' \in [Requests -> RequestStates]
         /\ request'[p].doing = "nothing"
         /\ \A q \in Requests \ {p} : request'[q] = request[q]
<1>1. Idle \in RequestStates
  BY DEF Idle, RequestStates
<1>2. Goes(p, what, Idle)
  BY DEF Ends
<1>. QED  BY <1>1, <1>2, OneRequestGoes DEF IInv, TypeOK, Idle

\* What is issued is live and new; but for the token it may be exchanged for, all
\* others stay as they are.
LEMMA IssueShape ==
  ASSUME TypeOK, NEW old, NEW ofOld \in {"none", "revoked"}, NEW since \in Tokens \cup {None},
         Issue(old, ofOld, since),
         \A t \in Tokens : t = old => tokens[t] = "live" /\ ofOld = "revoked"
  PROVE  \E t \in Tokens :
           /\ tokens[t] = "none" /\ t # old
           /\ tokens' \in [Tokens -> {"none", "live", "revoked", "deleted"}]
           /\ parent' \in [Tokens -> Tokens \cup {None}]
           /\ tokens'[t] = "live" /\ parent'[t] = since
           /\ \A x \in Tokens \ {t} : parent'[x] = parent[x]
           /\ \A x \in Tokens \ {t} : tokens'[x] = IF x = old THEN "revoked" ELSE tokens[x]
<1>1. PICK t \in Tokens :
        /\ tokens[t] = "none"
        /\ tokens' = [x \in Tokens |->
             IF x = t THEN "live" ELSE IF x = old THEN ofOld ELSE tokens[x]]
        /\ parent' = [parent EXCEPT ![t] = since]
  BY DEF Issue
<1>2. t # old
  BY <1>1
<1>3. tokens' \in [Tokens -> {"none", "live", "revoked", "deleted"}]
  BY <1>1 DEF TypeOK
<1>4. parent' \in [Tokens -> Tokens \cup {None}]
  BY <1>1 DEF TypeOK
<1>5. tokens'[t] = "live" /\ parent'[t] = since
  BY <1>1 DEF TypeOK
<1>6. \A x \in Tokens \ {t} : parent'[x] = parent[x]
  BY <1>1 DEF TypeOK
<1>7. \A x \in Tokens \ {t} : tokens'[x] = IF x = old THEN "revoked" ELSE tokens[x]
  BY <1>1
<1>. QED  BY <1>1, <1>2, <1>3, <1>4, <1>5, <1>6, <1>7

LEMMA VerifyWriteKeepsInvariant ==
  ASSUME IInv, NEW p \in Requests, VerifyWrite(p)
  PROVE  IInv'
<1>. DEFINE c == request[p].code
<1>1. c \in Codes
  BY RequestFields DEF VerifyWrite, Ends, Goes, Doing, IInv, TypeOK
<1>2. /\ request' \in [Requests -> RequestStates]
      /\ request'[p].doing = "nothing"
      /\ \A q \in Requests \ {p} : request'[q] = request[q]
  BY RequestEnds DEF VerifyWrite
<1>3. /\ codes[c] = "unused" /\ codes' = [codes EXCEPT ![c] = "used"]
      /\ activated' = [activated EXCEPT ![c] = @ + 1]
      /\ account' = Registered("active")
      /\ UNCHANGED <<tokens, parent>> /\ RowFree
  BY DEF VerifyWrite, MarkAsUsed
<1>. HIDE DEF c
<1>4. account' \in Rows /\ account'.status = "active" /\ ~ account'.erased
  BY <1>3, RegisteredType DEF Statuses, Registered
<1>5. codes' \in [Codes -> {"none", "unused", "used", "deleted"}]
  BY <1>3 DEF IInv, TypeOK
<1>6. activated' \in [Codes -> Nat]
  BY <1>1, <1>3 DEF IInv, TypeOK
<1>7. TypeOK'
  BY <1>2, <1>3, <1>4, <1>5, <1>6 DEF IInv, TypeOK
<1>8. OneLiveTokenPerLogin' /\ OnlyRotationOutlivesDeletion'
  BY <1>3, <1>4 DEF IInv, OneLiveTokenPerLogin, OnlyRotationOutlivesDeletion
<1>9. activated[c] = 0
  BY <1>1, <1>3 DEF IInv, CodesOK
<1>10. CodeVerifiesOnce' /\ CodesOK'
  BY <1>1, <1>3, <1>9 DEF IInv, TypeOK, CodeVerifiesOnce, CodesOK
<1>11. LocksOK'
  BY <1>2, <1>3 DEF IInv, LocksOK, HoldsRow, Doing
<1>12. ReadsOK'
  BY <1>2, <1>3, <1>4 DEF IInv, ReadsOK, RowFree, Doing
<1>. QED  BY <1>7, <1>8, <1>10, <1>11, <1>12 DEF IInv

LEMMA ResendWriteKeepsInvariant ==
  ASSUME IInv, NEW p \in Requests, ResendWrite(p)
  PROVE  IInv'
<1>1. /\ request' \in [Requests -> RequestStates]
      /\ request'[p].doing = "nothing"
      /\ \A q \in Requests \ {p} : request'[q] = request[q]
  BY RequestEnds DEF ResendWrite
<1>2. PICK c \in Codes : codes[c] = "none" /\ codes' = [codes EXCEPT ![c] = "unused"]
  BY DEF ResendWrite
<1>3. UNCHANGED <<account, tokens, parent, activated>>
  BY DEF ResendWrite
<1>4. TypeOK'
  BY <1>1, <1>2, <1>3 DEF IInv, TypeOK
<1>5. OneLiveTokenPerLogin' /\ OnlyRotationOutlivesDeletion' /\ CodeVerifiesOnce'
  BY <1>3 DEF IInv, OneLiveTokenPerLogin, OnlyRotationOutlivesDeletion, CodeVerifiesOnce, LoggedIn
<1>6. CodesOK'
  BY <1>2, <1>3 DEF IInv, TypeOK, CodesOK
<1>7. LocksOK' /\ ReadsOK'
  BY <1>1, <1>3 DEF IInv, LocksOK, ReadsOK, HoldsRow, Doing, LoggedIn
<1>. QED  BY <1>4, <1>5, <1>6, <1>7 DEF IInv

LEMMA LoginWriteKeepsInvariant ==
  ASSUME IInv, NEW p \in Requests, LoginWrite(p)
  PROVE  IInv'
<1>1. /\ request' \in [Requests -> RequestStates]
      /\ request'[p].doing = "nothing"
      /\ \A q \in Requests \ {p} : request'[q] = request[q]
  BY RequestEnds DEF LoginWrite
<1>2. PICK t \in Tokens :
        /\ tokens[t] = "none" /\ t # None
        /\ tokens' \in [Tokens -> {"none", "live", "revoked", "deleted"}]
        /\ parent' \in [Tokens -> Tokens \cup {None}]
        /\ tokens'[t] = "live" /\ parent'[t] = None
        /\ \A x \in Tokens \ {t} : parent'[x] = parent[x]
        /\ \A x \in Tokens \ {t} : tokens'[x] = IF x = None THEN "revoked" ELSE tokens[x]
  BY IssueShape, IdentityAssumption DEF LoginWrite, IInv
<1>3. \A x \in Tokens \ {t} : tokens'[x] = tokens[x]
  BY <1>2, IdentityAssumption
<1>4. /\ account' = [account EXCEPT !.failed = 0, !.lock = 0]
      /\ UNCHANGED <<codes, activated>> /\ RowFree /\ account.status = "active"
  BY DEF LoginWrite, CanLogin
<1>5. /\ account' \in Rows /\ account'.status = "active"
      /\ account'.erased = account.erased
  <2>1. Cardinality(LockTiers) \in Nat
    BY FS_CardinalityType, IdentityAssumption
  <2>2. 0 \in 0..Cardinality(LockTiers) /\ 0 \in 0..maxCountedFailedLogins
    BY <2>1, IdentityAssumption
  <2>. QED  BY <1>4, <2>2 DEF IInv, TypeOK, Rows
<1>6. TypeOK'
  BY <1>1, <1>2, <1>3, <1>4, <1>5 DEF IInv, TypeOK
<1>7. OneLiveTokenPerLogin'
  BY <1>2, <1>3 DEF IInv, TypeOK, OneLiveTokenPerLogin
<1>8. OnlyRotationOutlivesDeletion' /\ CodeVerifiesOnce' /\ CodesOK'
  BY <1>4, <1>5 DEF IInv, OnlyRotationOutlivesDeletion, CodeVerifiesOnce, CodesOK
<1>9. \A q \in Requests : Doing(q, "rotating") => request[q].token \in Tokens \ {t}
  BY <1>2, RequestFields DEF IInv, TypeOK, LocksOK, Doing
<1>10. LocksOK'
  BY <1>1, <1>3, <1>9 DEF IInv, LocksOK, HoldsRow, Doing
<1>11. ReadsOK'
  BY <1>1, <1>4, <1>5 DEF IInv, ReadsOK, RowFree, Doing
<1>. QED  BY <1>6, <1>7, <1>8, <1>10, <1>11 DEF IInv

LEMMA RecordFailedKeepsInvariant ==
  ASSUME IInv, NEW p \in Requests, recordFailedLogin(p)
  PROVE  IInv'
<1>. DEFINE n == CountFailed(account.failed)
<1>1. /\ request' \in [Requests -> RequestStates]
      /\ request'[p].doing = "nothing"
      /\ \A q \in Requests \ {p} : request'[q] = request[q]
  BY RequestEnds DEF recordFailedLogin
<1>2. /\ account' = [account EXCEPT !.failed = n, !.lock = LockTier(n)]
      /\ UNCHANGED <<codes, tokens, parent, activated>>
      /\ Doing(p, "failing")
  BY DEF recordFailedLogin, Ends, Goes
<1>3. n \in 0..maxCountedFailedLogins
  BY IdentityAssumption DEF CountFailed, IInv, TypeOK, Rows
<1>4. LockTier(n) \in 0..Cardinality(LockTiers)
  BY LockTierType
<1>. HIDE DEF n
<1>5. /\ account' \in Rows /\ account'.status = account.status
      /\ account'.erased = account.erased
  BY <1>2, <1>3, <1>4 DEF IInv, TypeOK, Rows
<1>6. account.status # "pending"
  BY <1>2 DEF IInv, ReadsOK
<1>7. TypeOK'
  BY <1>1, <1>2, <1>5, <1>6 DEF IInv, TypeOK
<1>8. /\ OneLiveTokenPerLogin' /\ OnlyRotationOutlivesDeletion'
      /\ CodeVerifiesOnce' /\ CodesOK'
  BY <1>2, <1>5 DEF IInv, OneLiveTokenPerLogin, OnlyRotationOutlivesDeletion, CodeVerifiesOnce,
                    CodesOK, LoggedIn
<1>9. LocksOK' /\ ReadsOK'
  BY <1>1, <1>2, <1>5 DEF IInv, LocksOK, ReadsOK, HoldsRow, Doing, LoggedIn
<1>. QED  BY <1>7, <1>8, <1>9 DEF IInv

\* Of a copy only the lock changes, so every request knows what it knew.
LEMMA LockExpiresKeepsInvariant ==
  ASSUME IInv, LockExpires
  PROVE  IInv'
<1>1. /\ account' = [account EXCEPT !.lock = 0]
      /\ UNCHANGED <<codes, tokens, parent, activated>>
      /\ request' = [p \in Requests |->
           IF Doing(p, "delete") \/ Doing(p, "deleting")
           THEN [request[p] EXCEPT !.copy.lock = 0] ELSE request[p]]
      /\ account.lock > 0
  BY DEF LockExpires
<1>2. 0 \in 0..Cardinality(LockTiers)
  BY FS_CardinalityType, IdentityAssumption
<1>3. /\ account' \in Rows /\ account'.status = account.status
      /\ account'.erased = account.erased
  BY <1>1, <1>2 DEF IInv, TypeOK, Rows
<1>4. ASSUME NEW q \in Requests
      PROVE  /\ request'[q] \in RequestStates
             /\ request'[q].doing = request[q].doing
             /\ Doing(q, "rotating") => request'[q].token = request[q].token
             /\ Doing(q, "deleting") => request'[q].seen = request[q].seen
  <2>1. request[q] \in RequestStates
    BY DEF IInv, TypeOK
  <2>2. CASE ~ Doing(q, "delete") /\ ~ Doing(q, "deleting")
    BY <1>1, <2>1, <2>2
  <2>3. CASE Doing(q, "delete")
    <3>1. request[q] \in [doing : {"delete"}, copy : Rows]
      BY <2>1, <2>3 DEF RequestStates, Doing
    <3>2. request'[q] = [request[q] EXCEPT !.copy.lock = 0]
      BY <1>1, <2>3
    <3>3. request'[q] \in [doing : {"delete"}, copy : Rows]
      BY <1>2, <3>1, <3>2 DEF Rows
    <3>. QED  BY <2>3, <3>1, <3>3 DEF RequestStates, Doing
  <2>4. CASE Doing(q, "deleting")
    <3>1. request[q] \in [doing : {"deleting"}, copy : Rows, seen : SUBSET Tokens]
      BY <2>1, <2>4 DEF RequestStates, Doing
    <3>2. request'[q] = [request[q] EXCEPT !.copy.lock = 0]
      BY <1>1, <2>4
    <3>3. /\ request'[q] \in [doing : {"deleting"}, copy : Rows, seen : SUBSET Tokens]
          /\ request'[q].seen = request[q].seen
      BY <1>2, <3>1, <3>2 DEF Rows
    <3>. QED  BY <2>4, <3>1, <3>3 DEF RequestStates, Doing
  <2>. QED  BY <2>2, <2>3, <2>4
<1>5. request' \in [Requests -> RequestStates]
  BY <1>1, <1>4
<1>6. account.status # "pending"
  BY <1>1 DEF IInv, TypeOK, Registered
<1>7. TypeOK'
  BY <1>1, <1>3, <1>5, <1>6 DEF IInv, TypeOK
<1>8. /\ OneLiveTokenPerLogin' /\ OnlyRotationOutlivesDeletion'
      /\ CodeVerifiesOnce' /\ CodesOK'
  BY <1>1, <1>3 DEF IInv, OneLiveTokenPerLogin, OnlyRotationOutlivesDeletion, CodeVerifiesOnce,
                    CodesOK, LoggedIn
<1>9. LocksOK'
  BY <1>1, <1>4 DEF IInv, LocksOK, HoldsRow, Doing
<1>10. ReadsOK'
  BY <1>1, <1>3, <1>4 DEF IInv, ReadsOK, Doing, LoggedIn
<1>. QED  BY <1>7, <1>8, <1>9, <1>10 DEF IInv

LEMMA RefreshRevokeKeepsInvariant ==
  ASSUME IInv, NEW p \in Requests, RefreshRevoke(p)
  PROVE  IInv'
<1>. DEFINE t == request[p].token
<1>. DEFINE what == [doing |-> "rotating", token |-> t]
<1>1. t \in Tokens
  BY RequestFields DEF RefreshRevoke, Doing, IInv, TypeOK
<1>2. what \in RequestStates
  BY <1>1 DEF RequestStates
<1>3. Goes(p, "refreshing", what)
  BY DEF RefreshRevoke
<1>4. /\ request' \in [Requests -> RequestStates]
      /\ request'[p] = what
      /\ \A q \in Requests \ {p} : request'[q] = request[q]
  BY <1>2, <1>3, OneRequestGoes DEF IInv, TypeOK
<1>5. UNCHANGED rows /\ tokens[t] = "live" /\ TokenFree(t)
  BY DEF RefreshRevoke, Revocable, rows
<1>6. TypeOK'
  BY <1>4, <1>5 DEF IInv, TypeOK, rows
<1>7. /\ OneLiveTokenPerLogin' /\ OnlyRotationOutlivesDeletion'
      /\ CodeVerifiesOnce' /\ CodesOK'
  BY <1>5 DEF IInv, OneLiveTokenPerLogin, OnlyRotationOutlivesDeletion, CodeVerifiesOnce,
              CodesOK, LoggedIn, rows
<1>8. request'[p].doing = "rotating" /\ request'[p].token = t
  BY <1>4
<1>. HIDE DEF t, what
<1>9. LocksOK'
  BY <1>4, <1>5, <1>8 DEF IInv, LocksOK, HoldsRow, TokenFree, Doing, rows
<1>10. ReadsOK'
  BY <1>4, <1>5, <1>8 DEF IInv, ReadsOK, Doing, LoggedIn, rows
<1>. QED  BY <1>6, <1>7, <1>9, <1>10 DEF IInv

\* The token exchanged was live until now, so nothing was exchanged for it before.
LEMMA RefreshCommitKeepsInvariant ==
  ASSUME IInv, NEW p \in Requests, RefreshCommit(p)
  PROVE  IInv'
<1>. DEFINE old == request[p].token
<1>1. /\ request' \in [Requests -> RequestStates]
      /\ request'[p].doing = "nothing"
      /\ \A q \in Requests \ {p} : request'[q] = request[q]
  BY RequestEnds DEF RefreshCommit
<1>2. Doing(p, "rotating") /\ Issue(old, "revoked", old)
      /\ UNCHANGED <<account, codes, activated>>
  BY DEF RefreshCommit, Ends, Goes
<1>3. old \in Tokens /\ tokens[old] = "live"
  BY <1>2, RequestFields DEF IInv, TypeOK, LocksOK, Doing
<1>4. \A q \in Requests \ {p} : Doing(q, "rotating") =>
        request[q].token \in Tokens \ {old} /\ tokens[request[q].token] = "live"
  BY <1>2, RequestFields DEF IInv, TypeOK, LocksOK, Doing
<1>. HIDE DEF old
<1>5. PICK t \in Tokens :
        /\ tokens[t] = "none" /\ t # old
        /\ tokens' \in [Tokens -> {"none", "live", "revoked", "deleted"}]
        /\ parent' \in [Tokens -> Tokens \cup {None}]
        /\ tokens'[t] = "live" /\ parent'[t] = old
        /\ \A x \in Tokens \ {t} : parent'[x] = parent[x]
        /\ \A x \in Tokens \ {t} : tokens'[x] = IF x = old THEN "revoked" ELSE tokens[x]
  BY <1>2, <1>3, IssueShape DEF IInv
<1>6. TypeOK'
  BY <1>1, <1>2, <1>3, <1>5 DEF IInv, TypeOK
<1>7. \A s \in Tokens : parent[s] # old /\ parent[s] # t
  BY <1>3, <1>5, IdentityAssumption DEF IInv, OneLiveTokenPerLogin
<1>8. old # None
  BY <1>3, IdentityAssumption
<1>9. OneLiveTokenPerLogin'
  <2>1. ASSUME NEW x \in Tokens, parent'[x] # None
        PROVE  /\ tokens'[parent'[x]] \in {"revoked", "deleted"}
               /\ \A s \in Tokens \ {x} : parent'[s] # parent'[x]
    <3>1. CASE x = t
      BY <1>3, <1>5, <1>7, <3>1
    <3>2. CASE x # t
      <4>1. parent'[x] = parent[x] /\ parent[x] \in Tokens
        BY <1>5, <2>1, <3>2 DEF IInv, TypeOK
      <4>. QED  BY <1>5, <1>7, <2>1, <3>2, <4>1 DEF IInv, OneLiveTokenPerLogin
    <3>. QED  BY <3>1, <3>2
  <2>. QED  BY <2>1 DEF OneLiveTokenPerLogin
<1>10. \A x \in LoggedIn' : x \in LoggedIn /\ (tokens'[x] = "live" => tokens[x] = "live")
  BY <1>3, <1>5, <1>8 DEF LoggedIn
<1>11. OnlyRotationOutlivesDeletion' /\ CodeVerifiesOnce' /\ CodesOK'
  BY <1>2, <1>10 DEF IInv, OnlyRotationOutlivesDeletion, CodeVerifiesOnce, CodesOK
<1>12. LocksOK'
  BY <1>1, <1>4, <1>5 DEF IInv, LocksOK, HoldsRow, Doing
<1>13. \A x \in Tokens : tokens'[x] = "none" => tokens[x] = "none"
  BY <1>5
<1>14. ReadsOK'
  BY <1>1, <1>2, <1>10, <1>13 DEF IInv, ReadsOK, Doing
<1>. QED  BY <1>6, <1>9, <1>11, <1>12, <1>14 DEF IInv

LEMMA LogoutKeepsInvariant ==
  ASSUME IInv, NEW t \in Tokens, Logout(t)
  PROVE  IInv'
<1>1. /\ tokens[t] = "live" /\ TokenFree(t)
      /\ tokens' = [tokens EXCEPT ![t] = "revoked"]
      /\ UNCHANGED <<account, codes, parent, request, activated>>
  BY DEF Logout, Revocable
<1>2. TypeOK'
  BY <1>1 DEF IInv, TypeOK
<1>3. OneLiveTokenPerLogin'
  BY <1>1 DEF IInv, TypeOK, OneLiveTokenPerLogin
<1>4. \A x \in LoggedIn' : x \in LoggedIn /\ (tokens'[x] = "live" => tokens[x] = "live")
  BY <1>1 DEF LoggedIn, IInv, TypeOK
<1>5. OnlyRotationOutlivesDeletion' /\ CodeVerifiesOnce' /\ CodesOK'
  BY <1>1, <1>4 DEF IInv, OnlyRotationOutlivesDeletion, CodeVerifiesOnce, CodesOK
<1>6. LocksOK'
  BY <1>1 DEF IInv, TypeOK, LocksOK, HoldsRow, TokenFree, Doing
<1>7. ReadsOK'
  BY <1>1, <1>4 DEF IInv, ReadsOK, Doing
<1>. QED  BY <1>2, <1>3, <1>5, <1>6, <1>7 DEF IInv

\* Every login's token that is live was live when RevokeAll started, since no login
\* commits while the row is locked.
LEMMA DeleteCommitKeepsInvariant ==
  ASSUME IInv, NEW p \in Requests, DeleteCommit(p)
  PROVE  IInv'
<1>. DEFINE seen == request[p].seen
<1>1. /\ request' \in [Requests -> RequestStates]
      /\ request'[p].doing = "nothing"
      /\ \A q \in Requests \ {p} : request'[q] = request[q]
  BY RequestEnds DEF DeleteCommit
<1>2. /\ Doing(p, "deleting")
      /\ \A t \in seen : TokenFree(t)
      /\ account' = [request[p].copy EXCEPT !.status = "deleted"]
      /\ tokens' = [t \in Tokens |->
           IF t \in seen /\ tokens[t] = "live" THEN "revoked" ELSE tokens[t]]
      /\ UNCHANGED <<codes, parent, activated>>
  BY DEF DeleteCommit, Ends, Goes
<1>3. request[p].copy \in Rows
  BY <1>2, RequestFields DEF IInv, TypeOK, Doing
<1>4. \A t \in LoggedIn : tokens[t] = "live" => t \in seen
  BY <1>2 DEF IInv, ReadsOK
<1>. HIDE DEF seen
<1>5. account' \in Rows /\ account'.status = "deleted"
  BY <1>2, <1>3 DEF Rows, Statuses
<1>6. tokens' \in [Tokens -> {"none", "live", "revoked", "deleted"}]
  BY <1>2 DEF IInv, TypeOK
<1>7. \A t \in Tokens : /\ tokens'[t] = "none" <=> tokens[t] = "none"
                        /\ tokens[t] \in {"revoked", "deleted"} => tokens'[t] = tokens[t]
  BY <1>2
<1>8. TypeOK'
  BY <1>1, <1>2, <1>5, <1>6, <1>7 DEF IInv, TypeOK
<1>9. OneLiveTokenPerLogin'
  BY <1>2, <1>7 DEF IInv, TypeOK, OneLiveTokenPerLogin
<1>10. \A t \in LoggedIn' : tokens'[t] # "live"
  BY <1>2, <1>4 DEF LoggedIn
<1>11. OnlyRotationOutlivesDeletion' /\ CodeVerifiesOnce' /\ CodesOK'
  BY <1>2, <1>10 DEF IInv, OnlyRotationOutlivesDeletion, CodeVerifiesOnce, CodesOK
<1>12. \A q \in Requests \ {p} : Doing(q, "rotating") =>
         request[q].token \in Tokens \ seen
  BY <1>2, RequestFields DEF IInv, TypeOK, TokenFree, Doing
<1>13. LocksOK'
  BY <1>1, <1>2, <1>12 DEF IInv, LocksOK, HoldsRow, Doing
<1>14. ReadsOK'
  BY <1>1, <1>5, <1>7, <1>10 DEF IInv, ReadsOK, Doing
<1>. QED  BY <1>8, <1>9, <1>11, <1>13, <1>14 DEF IInv

LEMMA EraseCommitKeepsInvariant ==
  ASSUME IInv, NEW p \in Requests, EraseCommit(p)
  PROVE  IInv'
<1>. DEFINE seen == request[p].seen
<1>1. /\ request' \in [Requests -> RequestStates]
      /\ request'[p].doing = "nothing"
      /\ \A q \in Requests \ {p} : request'[q] = request[q]
  BY RequestEnds DEF EraseCommit
<1>2. /\ Doing(p, "erasing")
      /\ \A t \in seen : TokenFree(t)
      /\ account' = [account EXCEPT !.erased = TRUE]
      /\ tokens' = [t \in Tokens |-> IF t \in seen THEN "deleted" ELSE tokens[t]]
      /\ codes' = [c \in Codes |-> IF codes[c] = "none" THEN "none" ELSE "deleted"]
      /\ UNCHANGED <<parent, activated>>
  BY DEF EraseCommit, Ends, Goes
<1>3. account.status = "deleted"
  BY <1>2 DEF IInv, ReadsOK
<1>4. account' \in Rows /\ account'.status = "deleted"
  BY <1>2, <1>3 DEF IInv, TypeOK, Rows
<1>. HIDE DEF seen
<1>5. /\ tokens' \in [Tokens -> {"none", "live", "revoked", "deleted"}]
      /\ codes' \in [Codes -> {"none", "unused", "used", "deleted"}]
  BY <1>2 DEF IInv, TypeOK
<1>6. \A t \in Tokens : tokens'[t] \in {tokens[t], "deleted"}
  BY <1>2
<1>7. TypeOK'
  BY <1>1, <1>2, <1>4, <1>5, <1>6 DEF IInv, TypeOK
<1>8. OneLiveTokenPerLogin'
  BY <1>2, <1>6 DEF IInv, TypeOK, OneLiveTokenPerLogin
<1>9. \A t \in LoggedIn' : tokens'[t] # "live"
  BY <1>2, <1>3 DEF LoggedIn, IInv, OnlyRotationOutlivesDeletion
<1>10. OnlyRotationOutlivesDeletion' /\ CodeVerifiesOnce' /\ CodesOK'
  BY <1>2, <1>9 DEF IInv, OnlyRotationOutlivesDeletion, CodeVerifiesOnce, CodesOK
<1>11. \A q \in Requests \ {p} : Doing(q, "rotating") =>
         request[q].token \in Tokens \ seen
  BY <1>2, RequestFields DEF IInv, TypeOK, TokenFree, Doing
<1>12. LocksOK'
  BY <1>1, <1>2, <1>11 DEF IInv, LocksOK, HoldsRow, Doing
<1>13. ReadsOK'
  BY <1>1, <1>4, <1>6, <1>9 DEF IInv, ReadsOK, Doing
<1>. QED  BY <1>7, <1>8, <1>10, <1>12, <1>13 DEF IInv

-----------------------------------------------------------------------------
(***************************************************************************)
(* The invariant, and what follows from it.                                *)
(***************************************************************************)

\* No step of any request breaks the invariant.
LEMMA InvariantIsKept == IInv /\ [Next]_vars => IInv'
<1>. SUFFICES ASSUME IInv, [Next]_vars PROVE IInv'
  OBVIOUS
<1>1. CASE \E p \in Requests : Begin(p)
  BY <1>1, BeginKeepsInvariant, RowLockKeepsInvariant
<1>2. CASE \E p \in Requests : Continue(p)
  <2>1. PICK p \in Requests : Continue(p)
    BY <1>2
  <2>2. CASE VerifyWrite(p) \/ ResendWrite(p)
    BY <2>2, VerifyWriteKeepsInvariant, ResendWriteKeepsInvariant
  <2>3. CASE LoginWrite(p) \/ recordFailedLogin(p)
    BY <2>3, LoginWriteKeepsInvariant, RecordFailedKeepsInvariant
  <2>4. CASE RefreshRevoke(p) \/ RefreshCommit(p)
    BY <2>4, RefreshRevokeKeepsInvariant, RefreshCommitKeepsInvariant
  <2>5. CASE DeleteWrite(p) \/ DeleteCommit(p) \/ EraseCommit(p)
    BY <2>5, RowLockKeepsInvariant, DeleteCommitKeepsInvariant, EraseCommitKeepsInvariant
  <2>6. CASE Drop(p)
    BY <2>6, DropKeepsInvariant
  <2>. QED  BY <2>1, <2>2, <2>3, <2>4, <2>5, <2>6 DEF Continue
<1>3. CASE \E t \in Tokens : Logout(t)
  BY <1>3, LogoutKeepsInvariant
<1>4. CASE LockExpires
  BY <1>4, LockExpiresKeepsInvariant
<1>5. CASE UNCHANGED vars
  BY <1>5 DEF vars, IInv, TypeOK, OneLiveTokenPerLogin, OnlyRotationOutlivesDeletion,
              CodeVerifiesOnce, LocksOK, ReadsOK, CodesOK, LoggedIn, HoldsRow, Doing
<1>. QED  BY <1>1, <1>2, <1>3, <1>4, <1>5 DEF Next

\* The inductive invariant holds in every state.
THEOREM InvariantHolds == Spec => []IInv
BY InvariantInitially, InvariantIsKept, PTL DEF Spec

\* The rows and requests of IdentityAccount keep their types, and nobody counts
\* failures against an account that was never verified.
THEOREM TypeCorrect == Spec => []TypeOK
<1>1. IInv => TypeOK
  BY DEF IInv
<1>. QED  BY <1>1, InvariantHolds, PTL

\* RefreshToken: a token is exchanged at most once, for any number of requests that
\* race with it, and is worth nothing afterwards.
THEOREM TokensRotateOnce == Spec => []OneLiveTokenPerLogin
<1>1. IInv => OneLiveTokenPerLogin
  BY DEF IInv
<1>. QED  BY <1>1, InvariantHolds, PTL

\* DeleteAccount: no login outlives the deletion, but for what a refresh under way
\* makes of it.
THEOREM DeletionLogsOut == Spec => []OnlyRotationOutlivesDeletion
<1>1. IInv => OnlyRotationOutlivesDeletion
  BY DEF IInv
<1>. QED  BY <1>1, InvariantHolds, PTL

\* VerifyAccount: a code verifies the account at most once.
THEOREM CodesVerifyOnce == Spec => []CodeVerifiesOnce
<1>1. IInv => CodeVerifiesOnce
  BY DEF IInv
<1>. QED  BY <1>1, InvariantHolds, PTL

-----------------------------------------------------------------------------
(***************************************************************************)
(* The lockout.                                                            *)
(***************************************************************************)

\* Failures are counted in integers.
LEMMA RowCounts ==
  ASSUME IInv
  PROVE  account.failed \in Int /\ account.lock \in Int
BY DEF IInv, TypeOK, Rows

\* A step that issues no token to a login, and leaves the lock and the failures
\* of the account alone or counts one more while it is not locked, keeps the lockout.
LEMMA LockoutKeptBy ==
  ASSUME IInv, LoggedIn' = LoggedIn,
         account'.lock \in {0, account.lock} \/ account.lock = 0,
         ~ (account'.failed < account.failed)
  PROVE  LockoutKept
BY RowCounts DEF LockoutKept

LEMMA StepsKeepLockout == IInv /\ [Next]_vars => LockoutKept
<1>. SUFFICES ASSUME IInv, [Next]_vars PROVE LockoutKept
  OBVIOUS
<1>1. account.failed \in Int /\ account.lock \in Int
  BY RowCounts
<1>2. CASE UNCHANGED rows
  BY <1>1, <1>2, LockoutKeptBy DEF rows, LoggedIn
<1>3. ASSUME NEW p \in Requests, Begin(p) PROVE UNCHANGED rows
  BY <1>3 DEF Begin, VerifyRead, ResendRead, LoginRead, RefreshRead, DeleteRead, EraseWrite, rows
<1>4. ASSUME NEW p \in Requests, Continue(p) PROVE LockoutKept
  <2>1. CASE VerifyWrite(p)
    <3>1. request[p].code \in Codes
      BY <2>1, RequestFields DEF VerifyWrite, Ends, Goes, Doing, IInv, TypeOK
    <3>2. /\ codes[request[p].code] = "unused" /\ codes'[request[p].code] = "used"
          /\ LoggedIn' = LoggedIn /\ account'.lock = 0
      BY <2>1, <3>1 DEF VerifyWrite, MarkAsUsed, Registered, LoggedIn, IInv, TypeOK
    <3>. QED  BY <1>1, <3>1, <3>2 DEF LockoutKept
  <2>2. CASE ResendWrite(p)
    BY <1>1, <2>2, LockoutKeptBy DEF ResendWrite, LoggedIn
  <2>3. CASE LoginWrite(p)
    <3>1. account.lock = 0
      BY <2>3 DEF LoginWrite, CanLogin
    <3>2. PICK t \in Tokens :
            /\ tokens[t] = "none" /\ tokens'[t] = "live" /\ parent'[t] = None
      BY <2>3, IssueShape, IdentityAssumption DEF LoginWrite, IInv
    <3>3. t \in LoggedIn' /\ t \notin LoggedIn
      BY <3>2 DEF LoggedIn
    <3>. QED  BY <3>1, <3>3 DEF LockoutKept
  <2>4. CASE recordFailedLogin(p)
    <3>1. account.lock = 0 /\ UNCHANGED <<tokens, parent>>
      BY <2>4 DEF recordFailedLogin, CountsAgainst
    <3>2. account'.failed = CountFailed(account.failed)
      BY <2>4 DEF recordFailedLogin, IInv, TypeOK, Rows
    <3>3. ~ (account'.failed < account.failed)
      BY <1>1, <3>2 DEF CountFailed
    <3>. QED  BY <3>1, <3>3, LockoutKeptBy DEF LoggedIn
  <2>5. CASE RefreshRevoke(p) \/ DeleteWrite(p) \/ Drop(p)
    BY <1>2, <2>5 DEF RefreshRevoke, DeleteWrite, Drop, rows
  <2>6. CASE RefreshCommit(p)
    <3>. DEFINE old == request[p].token
    <3>1. Doing(p, "rotating") /\ Issue(old, "revoked", old) /\ UNCHANGED account
      BY <2>6 DEF RefreshCommit, Ends, Goes
    <3>2. old \in Tokens /\ tokens[old] = "live"
      BY <3>1, RequestFields DEF IInv, TypeOK, LocksOK, Doing
    <3>. HIDE DEF old
    <3>3. PICK t \in Tokens :
            /\ tokens[t] = "none" /\ parent'[t] = old
            /\ \A x \in Tokens \ {t} : parent'[x] = parent[x]
            /\ \A x \in Tokens \ {t} : tokens'[x] = IF x = old THEN "revoked" ELSE tokens[x]
      BY <3>1, <3>2, IssueShape DEF IInv
    <3>4. LoggedIn' = LoggedIn
      BY <3>2, <3>3, IdentityAssumption DEF LoggedIn
    <3>. QED  BY <1>1, <3>1, <3>4, LockoutKeptBy
  <2>7. CASE DeleteCommit(p)
    <3>1. LoggedIn' = LoggedIn
      BY <2>7 DEF DeleteCommit, LoggedIn
    <3>2. request[p].copy \in Rows
      BY <2>7, RequestFields DEF DeleteCommit, Ends, Goes, Doing, IInv, TypeOK
    <3>3. account'.status = "deleted"
      BY <2>7, <3>2 DEF DeleteCommit, Rows
    <3>. QED  BY <3>1, <3>3 DEF LockoutKept
  <2>8. CASE EraseCommit(p)
    <3>1. LoggedIn' = LoggedIn
      <4>1. \A t \in Tokens : t \in request[p].seen => tokens[t] # "none"
        BY <2>8 DEF EraseCommit, Ends, Goes, IInv, ReadsOK
      <4>. QED  BY <2>8, <4>1 DEF EraseCommit, LoggedIn
    <3>2. account'.lock = account.lock /\ account'.failed = account.failed
      BY <2>8 DEF EraseCommit, IInv, TypeOK, Rows
    <3>. QED  BY <1>1, <3>1, <3>2, LockoutKeptBy
  <2>. QED  BY <1>4, <2>1, <2>2, <2>3, <2>4, <2>5, <2>6, <2>7, <2>8 DEF Continue
<1>5. ASSUME NEW t \in Tokens, Logout(t) PROVE LockoutKept
  BY <1>1, <1>5, LockoutKeptBy DEF Logout, Revocable, LoggedIn
<1>6. CASE LockExpires
  <2>1. account'.lock = 0 /\ account'.failed = account.failed /\ UNCHANGED <<tokens, parent>>
    BY <1>6 DEF LockExpires, IInv, TypeOK, Rows
  <2>. QED  BY <1>1, <2>1, LockoutKeptBy DEF LoggedIn
<1>7. CASE UNCHANGED vars
  BY <1>2, <1>7 DEF vars, rows
<1>. QED  BY <1>2, <1>3, <1>4, <1>5, <1>6, <1>7 DEF Next

\* Login and recordFailedLogin: a lock keeps everybody out for as long as it was set.
THEOREM LockoutAlwaysHolds == Spec => LockoutHolds
BY InvariantHolds, StepsKeepLockout, PTL DEF LockoutHolds, Spec
=============================================================================
