--------------------------- MODULE IdentityAccount ---------------------------
(***************************************************************************)
(* One account of the identity service, from its registration to its       *)
(* erasure, under requests that overlap: identity's Service and the erase  *)
(* job, with the rows they read and write under READ COMMITTED.            *)
(*                                                                         *)
(* Login and recordFailedLogin decide on the account row they have locked. *)
(* VerifyAccount and DeleteAccount read it without a lock and write all of *)
(* it back. Codes and refresh tokens are settled by conditional updates.   *)
(***************************************************************************)
EXTENDS Integers, FiniteSets

CONSTANTS
  Requests,   \* bound: how many requests may be under way at a time
  Codes,      \* bound: verification codes ever sent
  Tokens,     \* bound: refresh tokens ever issued
  LockTiers,  \* failedLoginLockTiers: the failed logins each tier starts at
  maxCountedFailedLogins,
  None        \* no token

ASSUME IdentityAssumption ==
  /\ IsFiniteSet(Requests) /\ IsFiniteSet(Codes) /\ IsFiniteSet(Tokens)
  /\ IsFiniteSet(LockTiers) /\ LockTiers \subseteq Nat \ {0}
  /\ maxCountedFailedLogins \in Nat
  /\ None \notin Tokens

VARIABLES
  account,    \* the row: status, failed (failed_login_attempts), lock (the tier
              \*   of a locked_until that has not passed, 0: none), erased
  codes,      \* codes[c]: "none", "unused", "used" or "deleted"
  tokens,     \* tokens[t]: "none", "live", "revoked" or "deleted"
  parent,     \* parent[t]: the token t was exchanged for, None for a login's
  request,    \* request[p]: what p is doing, and what it has read
  activated   \* activated[c]: the account.verified events raised for c

vars == <<account, codes, tokens, parent, request, activated>>

Statuses == {"pending", "active", "deleted"}

Registered(status) == [status |-> status, failed |-> 0, lock |-> 0, erased |-> FALSE]
Idle == [doing |-> "nothing"]

Rows == [status : Statuses, failed : 0..maxCountedFailedLogins,
         lock : 0..Cardinality(LockTiers), erased : BOOLEAN]

RequestStates ==
  [doing : {"nothing", "resending", "logging_in", "failing"}]
    \cup [doing : {"verifying"}, code : Codes]
    \cup [doing : {"refreshing", "rotating"}, token : Tokens]
    \cup [doing : {"delete"}, copy : Rows]
    \cup [doing : {"deleting"}, copy : Rows, seen : SUBSET Tokens]
    \cup [doing : {"erasing"}, seen : SUBSET Tokens]

TypeOK ==
  /\ account \in Rows
  /\ codes \in [Codes -> {"none", "unused", "used", "deleted"}]
  /\ tokens \in [Tokens -> {"none", "live", "revoked", "deleted"}]
  /\ parent \in [Tokens -> Tokens \cup {None}]
  /\ request \in [Requests -> RequestStates]
  /\ activated \in [Codes -> Nat]
  /\ \A t \in Tokens : tokens[t] = "none" => parent[t] = None
  /\ account.erased => account.status = "deleted"
  /\ account.status = "pending" => account = Registered("pending")

\* Register, with the account's first code - or active at once and without one,
\* where verification is switched off.
Init ==
  /\ \E status \in {"pending", "active"} :
       /\ account = Registered(status)
       /\ \E c \in Codes : codes = [x \in Codes |->
            IF x = c /\ status = "pending" THEN "unused" ELSE "none"]
  /\ tokens = [t \in Tokens |-> "none"]
  /\ parent = [t \in Tokens |-> None]
  /\ request = [p \in Requests |-> Idle]
  /\ activated = [c \in Codes |-> 0]

-----------------------------------------------------------------------------
(***************************************************************************)
(* Rows and locks.                                                         *)
(***************************************************************************)
Doing(p, what) == request[p].doing = what

Starts(p, what) == Doing(p, "nothing") /\ request' = [request EXCEPT ![p] = what]
Goes(p, from, what) == Doing(p, from) /\ request' = [request EXCEPT ![p] = what]
Ends(p, what) == Goes(p, what, Idle)

\* Somebody's unfinished transaction has written the account row.
RowFree == \A p \in Requests : ~ Doing(p, "deleting") /\ ~ Doing(p, "erasing")

\* No unfinished transaction has revoked the token.
TokenFree(t) == \A p \in Requests : Doing(p, "rotating") => request[p].token # t

CanLogin(a) == a.lock = 0 /\ a.status = "active"

\* The tier the n-th failed login in a row locks for, 0 for not yet.
LockTier(n) == Cardinality({k \in LockTiers : k <= n})

\* A new row in refresh_tokens.
Issue(old, ofOld, since) == \E t \in Tokens :
  /\ tokens[t] = "none"
  /\ tokens' = [x \in Tokens |-> IF x = t THEN "live" ELSE IF x = old THEN ofOld ELSE tokens[x]]
  /\ parent' = [parent EXCEPT ![t] = since]

-----------------------------------------------------------------------------
(***************************************************************************)
(* Verification. The code and the account are read together; only the code *)
(* is looked at again when it is marked.                                   *)
(***************************************************************************)
VerifyRead(p, c) ==
  /\ codes[c] = "unused" /\ account.status = "pending"
  /\ Starts(p, [doing |-> "verifying", code |-> c])
  /\ UNCHANGED <<account, codes, tokens, parent, activated>>

\* Faulty variant: the update does not ask for used_at IS NULL.
MarkAsUsedAgain(c) == codes[c] \in {"unused", "used"} /\ codes' = [codes EXCEPT ![c] = "used"]

MarkAsUsed(c) == codes[c] = "unused" /\ codes' = [codes EXCEPT ![c] = "used"]

\* UpdateAccount writes the copy that was read pending, with nothing failed.
VerifyWrite(p) ==
  /\ Ends(p, "verifying")
  /\ RowFree
  /\ MarkAsUsed(request[p].code)
  /\ account' = Registered("active")
  /\ activated' = [activated EXCEPT ![request[p].code] = @ + 1]
  /\ UNCHANGED <<tokens, parent>>

ResendRead(p) ==
  /\ account.status = "pending"
  /\ Starts(p, [doing |-> "resending"])
  /\ UNCHANGED <<account, codes, tokens, parent, activated>>

ResendWrite(p) ==
  /\ Ends(p, "resending")
  /\ \E c \in Codes : codes[c] = "none" /\ codes' = [codes EXCEPT ![c] = "unused"]
  /\ UNCHANGED <<account, tokens, parent, activated>>

-----------------------------------------------------------------------------
(***************************************************************************)
(* Login. The password is compared between the two reads of the account.   *)
(***************************************************************************)
LoginRead(p, right) ==
  /\ CanLogin(account)
  /\ Starts(p, [doing |-> IF right THEN "logging_in" ELSE "failing"])
  /\ UNCHANGED <<account, codes, tokens, parent, activated>>

\* Faulty variant: the locked account is not checked again.
LoginWriteUnchecked(p) ==
  /\ Ends(p, "logging_in")
  /\ RowFree
  /\ account' = [account EXCEPT !.failed = 0, !.lock = 0]
  /\ Issue(None, "none", None)
  /\ UNCHANGED <<codes, activated>>

LoginWrite(p) ==
  /\ Ends(p, "logging_in")
  /\ RowFree /\ CanLogin(account)
  /\ account' = [account EXCEPT !.failed = 0, !.lock = 0]
  /\ Issue(None, "none", None)
  /\ UNCHANGED <<codes, activated>>

\* Faulty variant: the count goes on behind the longest tier.
CountFailedForever(n) == n + 1

CountFailed(n) == IF n < maxCountedFailedLogins THEN n + 1 ELSE n

\* Faulty variant: they count.
CountsAlways(a) == a = account

\* Of requests that fail at the same time, those after the one that locks count nothing.
CountsAgainst(a) == a.lock = 0

recordFailedLogin(p) ==
  /\ Ends(p, "failing")
  /\ RowFree /\ CountsAgainst(account)
  /\ LET n == CountFailed(account.failed)
     IN account' = [account EXCEPT !.failed = n, !.lock = LockTier(n)]
  /\ UNCHANGED <<codes, tokens, parent, activated>>

\* locked_until passes, in the row and in the copies. (A copy that has another
\* lock than the row is written to a deleted row only, where no lock counts.)
LockExpires ==
  /\ account.lock > 0
  /\ account' = [account EXCEPT !.lock = 0]
  /\ request' = [p \in Requests |->
       IF Doing(p, "delete") \/ Doing(p, "deleting")
       THEN [request[p] EXCEPT !.copy.lock = 0] ELSE request[p]]
  /\ UNCHANGED <<codes, tokens, parent, activated>>

-----------------------------------------------------------------------------
(***************************************************************************)
(* Refresh tokens. The status of the account is never looked at.           *)
(***************************************************************************)
RefreshRead(p, t) ==
  /\ tokens[t] = "live"
  /\ Starts(p, [doing |-> "refreshing", token |-> t])
  /\ UNCHANGED <<account, codes, tokens, parent, activated>>

\* Faulty variant: the update does not ask for revoked_at IS NULL.
RevocableAgain(t) == tokens[t] \in {"live", "revoked"} /\ TokenFree(t)

\* The update finds the row unless it is revoked or deleted by now.
Revocable(t) == tokens[t] = "live" /\ TokenFree(t)

RefreshRevoke(p) ==
  /\ Doing(p, "refreshing") /\ Revocable(request[p].token)
  /\ Goes(p, "refreshing", [doing |-> "rotating", token |-> request[p].token])
  /\ UNCHANGED <<account, codes, tokens, parent, activated>>

RefreshCommit(p) ==
  /\ Ends(p, "rotating")
  /\ Issue(request[p].token, "revoked", request[p].token)
  /\ UNCHANGED <<account, codes, activated>>

\* Revoked at once, since the update does not run in Logout's transaction.
Logout(t) ==
  /\ Revocable(t)
  /\ tokens' = [tokens EXCEPT ![t] = "revoked"]
  /\ UNCHANGED <<account, codes, parent, request, activated>>

-----------------------------------------------------------------------------
(***************************************************************************)
(* Deletion and erasure. Statements that settle all tokens of the account  *)
(* settle the rows committed when they start, and wait for those that an   *)
(* unfinished refresh has revoked.                                         *)
(***************************************************************************)
DeleteRead(p) ==
  /\ account.status = "active"
  /\ Starts(p, [doing |-> "delete", copy |-> account])
  /\ UNCHANGED <<account, codes, tokens, parent, activated>>

\* UpdateAccount, and RevokeAll starts.
DeleteWrite(p) ==
  /\ Doing(p, "delete") /\ RowFree
  /\ Goes(p, "delete", [doing |-> "deleting", copy |-> request[p].copy,
                        seen |-> {t \in Tokens : tokens[t] = "live"}])
  /\ UNCHANGED <<account, codes, tokens, parent, activated>>

DeleteCommit(p) ==
  /\ Ends(p, "deleting")
  /\ \A t \in request[p].seen : TokenFree(t)
  /\ account' = [request[p].copy EXCEPT !.status = "deleted"]
  /\ tokens' = [t \in Tokens |->
       IF t \in request[p].seen /\ tokens[t] = "live" THEN "revoked" ELSE tokens[t]]
  /\ UNCHANGED <<codes, parent, activated>>

\* The grace period has passed; it may be zero. A locked row is skipped.
EraseWrite(p) ==
  /\ account.status = "deleted" /\ ~ account.erased /\ RowFree
  /\ Starts(p, [doing |-> "erasing", seen |-> {t \in Tokens : tokens[t] # "none"}])
  /\ UNCHANGED <<account, codes, tokens, parent, activated>>

EraseCommit(p) ==
  /\ Ends(p, "erasing")
  /\ \A t \in request[p].seen : TokenFree(t)
  /\ account' = [account EXCEPT !.erased = TRUE]
  /\ tokens' = [t \in Tokens |-> IF t \in request[p].seen THEN "deleted" ELSE tokens[t]]
  /\ codes' = [c \in Codes |-> IF codes[c] = "none" THEN "none" ELSE "deleted"]
  /\ UNCHANGED <<parent, activated>>

\* p is refused by one of its checks, fails or is lost, and rolled back.
Drop(p) ==
  /\ ~ Doing(p, "nothing")
  /\ request' = [request EXCEPT ![p] = Idle]
  /\ UNCHANGED <<account, codes, tokens, parent, activated>>

-----------------------------------------------------------------------------
Begin(p) ==
  \/ \E c \in Codes : VerifyRead(p, c)
  \/ ResendRead(p)
  \/ \E right \in BOOLEAN : LoginRead(p, right)
  \/ \E t \in Tokens : RefreshRead(p, t)
  \/ DeleteRead(p)
  \/ EraseWrite(p)

Continue(p) ==
  \/ VerifyWrite(p) \/ ResendWrite(p)
  \/ LoginWrite(p) \/ recordFailedLogin(p)
  \/ RefreshRevoke(p) \/ RefreshCommit(p)
  \/ DeleteWrite(p) \/ DeleteCommit(p)
  \/ EraseCommit(p)
  \/ Drop(p)

Next ==
  \/ \E p \in Requests : Begin(p) \/ Continue(p)
  \/ \E t \in Tokens : Logout(t)
  \/ LockExpires

Spec == Init /\ [][Next]_vars

-----------------------------------------------------------------------------
(***************************************************************************)
(* Properties.                                                             *)
(***************************************************************************)
LoggedIn == {t \in Tokens : tokens[t] # "none" /\ parent[t] = None}

\* A refresh token is exchanged for at most one other and is worth nothing from
\* then on, whatever else reads it at the same time: of everything that goes back
\* to one login at most one token is live (RefreshToken, Logout, DeleteAccount).
OneLiveTokenPerLogin == \A t \in Tokens : parent[t] # None =>
  /\ tokens[parent[t]] \in {"revoked", "deleted"}
  /\ \A s \in Tokens \ {t} : parent[s] # parent[t]

\* DeleteAccount logs everybody out, also a login whose password was right before
\* the deletion - but for a refresh that was under way, which leaves a token, and
\* the tokens that one is exchanged for.
OnlyRotationOutlivesDeletion ==
  account.status = "deleted" => \A t \in LoggedIn : tokens[t] # "live"

\* account-profile creates a profile on account.verified: a code verifies the
\* account once, no matter how many requests bring it (VerifyAccount).
CodeVerifiesOnce == \A c \in Codes : activated[c] <= 1

\* A lock keeps everybody out, those included who knew the password before it, and
\* lasts as it is: failures that raced the one that locked add nothing to it. What
\* was counted is forgotten for a login, a code or with the account (Login,
\* recordFailedLogin).
LockoutKept ==
  /\ account.lock > 0 => \/ account'.lock \in {0, account.lock}
                         \/ account'.status = "deleted"
  /\ LoggedIn' # LoggedIn => account.lock = 0
  /\ account'.failed < account.failed =>
       \/ LoggedIn' # LoggedIn
       \/ \E c \in Codes : codes[c] = "unused" /\ codes'[c] = "used"
       \/ account'.status = "deleted"

LockoutHolds == [][LockoutKept]_vars
=============================================================================
