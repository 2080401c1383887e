--------------------------- MODULE AccountErasure ---------------------------
(***************************************************************************)
(* The erasure of deleted accounts across the services: identity erases    *)
(* the account at the end of its grace period and announces it, every      *)
(* context erases its data and confirms, identity records who has          *)
(* confirmed (ErasureService, accountErasureService, AccountLifecycleService*)
(* and their handlers).                                                    *)
(*                                                                         *)
(* Account-profile is modelled in detail (AccountProfile); of the other    *)
(* contexts only that they hold data of an account.  Messages wait in owed *)
(* from the commit that writes them to the outbox until a handler's ack    *)
(* reaches the broker; they are handled in any order, several times when   *)
(* the ack is lost, and by two handlers at once.                           *)
(***************************************************************************)
EXTENDS AccountProfile

CONSTANTS
  Others,  \* the other contexts that hold data of accounts
  Batch    \* accounts erased in one transaction

ASSUME ErasureAssumption ==
  /\ "account_profile" \notin Others /\ "identity" \notin Others
  /\ Batch \in Nat \ {0}

VARIABLES
  status,     \* status[a] in identity: "active", "deleted" or "erased"
  holds,      \* holds[c]: the accounts c has data of
  erasedIn,   \* erasedIn[c]: the accounts in c's erased_account
  owed,       \* messages the broker or an outbox still has to hand over
  confirmed   \* identity.account_erasure: <<context, account>>

vars == <<profileVars, status, holds, erasedIn, owed, confirmed>>
others == <<status, holds, erasedIn, confirmed>>

Contexts == Others \cup {"account_profile"}

Msg(to, about, a) == [to |-> to, about |-> about, account |-> a]

Verified(a) == Msg("account_profile", "verified", a)
Erased(c, a) == Msg(c, "erased", a)
Confirmation(c, a) == Msg("identity", c, a)

\* A handler is done with m, having raised more; its ack may be lost.
Acked(m, more) ==
  \/ owed' = (owed \ {m}) \cup more
  \/ owed' = owed \cup more

Init ==
  /\ ProfileInit
  /\ status = [a \in Accounts |-> "active"]
  /\ holds = [c \in Others |-> Accounts]
  /\ erasedIn = [c \in Others |-> {}]
  /\ owed = {Verified(a) : a \in Accounts}
  /\ confirmed = {}

-----------------------------------------------------------------------------
(***************************************************************************)
(* Identity.                                                               *)
(***************************************************************************)

DeleteAccount(a) ==
  /\ status[a] = "active"
  /\ status' = [status EXCEPT ![a] = "deleted"]
  /\ UNCHANGED <<profileVars, holds, erasedIn, owed, confirmed>>

\* A batch of the deleted accounts; when the grace period is over is left open.
ListDueForErasure ==
  {due \in SUBSET Accounts : Cardinality(due) <= Batch /\ \A a \in due : status[a] = "deleted"}

\* EraseDueAccounts: the batch, with the event of each in the same transaction.
EraseDueAccounts(due) ==
  /\ due # {}
  /\ status' = [a \in Accounts |-> IF a \in due THEN "erased" ELSE status[a]]
  /\ owed' = owed \cup {Erased(c, a) : c \in Contexts, a \in due}
  /\ UNCHANGED <<profileVars, holds, erasedIn, confirmed>>

\* Batch by batch; what fails is tried again by the next run.
RunOnce == \E due \in ListDueForErasure : EraseDueAccounts(due)

\* RecordCompleted, by the handler of <context>.account.erased.
RecordContextErasure(c, a) ==
  /\ Confirmation(c, a) \in owed
  /\ confirmed' = confirmed \cup {<<c, a>>}
  /\ Acked(Confirmation(c, a), {})
  /\ UNCHANGED <<profileVars, status, holds, erasedIn>>

\* CountIncomplete, for every account erased so far.
Incomplete ==
  {a \in Accounts : status[a] = "erased" /\ \E c \in Contexts : <<c, a>> \notin confirmed}

-----------------------------------------------------------------------------
(***************************************************************************)
(* Account-profile.                                                        *)
(***************************************************************************)

HandleVerified(h) ==
  \/ \E a \in Accounts :
       /\ Verified(a) \in owed
       /\ VerifiedRead(h, a)
       /\ UNCHANGED <<owed, others>>
  \/ /\ VerifiedCommit(h)
     /\ Acked(Verified(txn[h].account), {})
     /\ UNCHANGED others

\* An event of an account erased before is acked, and creates nothing.
DropVerified(a) ==
  /\ Verified(a) \in owed
  /\ ~MayCreate(a)
  /\ Acked(Verified(a), {})
  /\ UNCHANGED <<profileVars, others>>

\* Faulty variant: an account without a profile is not worth a confirmation.
ConfirmsProfiles(a) == a \in profiles

\* The first erasure confirms, whether there was anything to erase or not.
Confirms(a) == a \notin erasedAccount

HandleErased(a) ==
  /\ Erased("account_profile", a) \in owed
  /\ Acked(Erased("account_profile", a),
           IF Confirms(a) THEN {Confirmation("account_profile", a)} ELSE {})
  /\ \/ EraseAccount(a)
     \/ a \in erasedAccount /\ UNCHANGED profileVars
  /\ UNCHANGED others

-----------------------------------------------------------------------------
(***************************************************************************)
(* The other contexts.                                                     *)
(***************************************************************************)

\* Erase of c's account states: the marker and, the first time, the data.
Erase(c, a) ==
  /\ erasedIn' = [erasedIn EXCEPT ![c] = @ \cup {a}]
  /\ holds' = [holds EXCEPT ![c] = IF a \in erasedIn[c] THEN @ ELSE @ \ {a}]

\* The erasure that is the first for its context confirms it.
FirstErasure(c, a) == IF a \notin erasedIn[c] THEN {Confirmation(c, a)} ELSE {}

\* EraseAccount of activity and of notifications.
ContextErases(c, a) ==
  /\ Erased(c, a) \in owed
  /\ Acked(Erased(c, a), FirstErasure(c, a))
  /\ Erase(c, a)
  /\ UNCHANGED <<profileVars, status, confirmed>>

Next ==
  \/ \E a \in Accounts : DeleteAccount(a) \/ DropVerified(a) \/ HandleErased(a)
  \/ RunOnce
  \/ \E c \in Contexts, a \in Accounts : RecordContextErasure(c, a)
  \/ \E c \in Others, a \in Accounts : ContextErases(c, a)
  \/ \E h \in Handlers : HandleVerified(h)
  \/ ProfileRequest /\ UNCHANGED <<owed, others>>

Spec == Init /\ [][Next]_vars

-----------------------------------------------------------------------------
(***************************************************************************)
(* Properties.                                                             *)
(***************************************************************************)

Messages ==
  {Verified(a) : a \in Accounts}
  \cup {Erased(c, a) : c \in Contexts, a \in Accounts}
  \cup {Confirmation(c, a) : c \in Contexts, a \in Accounts}

\* Every variable has its type.
TypeOK ==
  /\ ProfileTypeOK
  /\ status \in [Accounts -> {"active", "deleted", "erased"}]
  /\ holds \in [Others -> SUBSET Accounts]
  /\ erasedIn \in [Others -> SUBSET Accounts]
  /\ owed \subseteq Messages
  /\ confirmed \subseteq Contexts \X Accounts

\* The accounts c has erased.
Done(c) == IF c = "account_profile" THEN erasedAccount ELSE erasedIn[c]

\* An erasure identity counts as incomplete is never stuck: the context that
\* has not confirmed yet is still going to get the event, or has erased the
\* account and its confirmation is still on the way - and no context has
\* confirmed an account it did not erase.  This is what the gauge of
\* incomplete erasures relies on (RunOnce, EraseAccount of every context).
ErasureNotForgotten ==
  /\ \A a \in Incomplete : \A c \in Contexts :
       \/ <<c, a>> \in confirmed
       \/ a \notin Done(c) /\ Erased(c, a) \in owed
       \/ a \in Done(c) /\ Confirmation(c, a) \in owed
  /\ \A c \in Contexts, a \in Accounts :
       <<c, a>> \in confirmed => status[a] = "erased" /\ a \in Done(c)

\* Every context holds what it can hold, and account-profile nothing of the
\* erased.
ProfilesOK == TypeOK /\ GoneUnlessRaced
=============================================================================
