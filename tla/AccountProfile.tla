--------------------------- MODULE AccountProfile ---------------------------
(***************************************************************************)
(* The account-profile service: the profile with its interests, and the    *)
(* versioned settings, of an account (service.UpdateProfile,               *)
(* accountSettingsService, accountErasureService and the handler of        *)
(* identity.account.verified).                                             *)
(*                                                                         *)
(* Transactions run at READ COMMITTED and none of them locks what it reads, *)
(* so each is a read step and a write step, the latter with the conditions *)
(* and the constraints of its SQL.  A profile is the set of its fields that *)
(* hold something; a request sets some of them and empties others.         *)
(***************************************************************************)
EXTENDS Integers, FiniteSets

CONSTANTS
  Accounts,    \* the accounts
  Keys,        \* the keys of the settings registry
  Requests,    \* profile requests, [set, clear : SUBSET Fields]
  Handlers,    \* transactions that may be open at a time
  MaxVersion   \* bound: versions of an account's settings

\* Name and date of birth; bio and location; picture; interests.
Fields == {"name", "bio", "picture", "interests"}

ASSUME ProfileAssumption ==
  /\ IsFiniteSet(Accounts)
  /\ Requests \subseteq {r \in [set : SUBSET Fields, clear : SUBSET Fields] :
                           r.set \cap r.clear = {}}
  /\ MaxVersion \in Nat \ {0}

VARIABLES
  profiles,       \* the accounts with a row in profiles
  content,        \* content[a]: the fields of a's profile, its interests among them
  settings,       \* settings[a]: the value of each key
  version,        \* version[a] of account_settings_meta, 0 without a row
  erasedAccount,  \* the accounts recorded in erased_account
  txn,            \* txn[h]: the open transaction of h, with what it has read
  lastSet,        \* lastSet[a][k]: the last value the owner was told is saved
  raced           \* accounts written again by who had found them not yet erased

profileVars == <<profiles, content, settings, version, erasedAccount, txn, lastSet, raced>>
rows == <<profiles, content, settings, version, erasedAccount, lastSet, raced>>

Idle == [op |-> "idle"]

\* GetDefaultSettings.
Values == {"default", "changed"}
DefaultSettings == [k \in Keys |-> "default"]

ProfileInit ==
  /\ profiles = {}
  /\ content = [a \in Accounts |-> {}]
  /\ settings = [a \in Accounts |-> DefaultSettings]
  /\ version = [a \in Accounts |-> 0]
  /\ erasedAccount = {}
  /\ txn = [h \in Handlers |-> Idle]
  /\ lastSet = [a \in Accounts |-> DefaultSettings]
  /\ raced = {}

Begin(h, t) == txn[h] = Idle /\ txn' = [txn EXCEPT ![h] = t]
End(h) == txn' = [txn EXCEPT ![h] = Idle]

-----------------------------------------------------------------------------
(***************************************************************************)
(* identity.account.verified                                               *)
(***************************************************************************)

\* Faulty variant: a late event is not looked at twice.
MayCreateAlways(a) == TRUE

\* IsErased.
MayCreate(a) == a \notin erasedAccount

VerifiedRead(h, a) ==
  /\ MayCreate(a)
  /\ Begin(h, [op |-> "verified", account |-> a, late |-> a \in erasedAccount])
  /\ UNCHANGED rows

\* CreateAccountProfile: a row that is there is left alone.
CreateProfile(a) == profiles' = profiles \cup {a}

\* Faulty variant: the defaults are written whatever is there.
CreateSettingsAnew(a) ==
  /\ version' = [version EXCEPT ![a] = 1]
  /\ settings' = [settings EXCEPT ![a] = DefaultSettings]

\* CreateSettings: ON CONFLICT DO NOTHING, for the values and for their version.
CreateSettings(a) ==
  /\ version' = [version EXCEPT ![a] = IF @ = 0 THEN 1 ELSE @]
  /\ UNCHANGED settings

VerifiedCommit(h) ==
  /\ txn[h].op = "verified"
  /\ CreateProfile(txn[h].account)
  /\ CreateSettings(txn[h].account)
  /\ raced' = IF txn[h].account \in erasedAccount /\ ~txn[h].late
              THEN raced \cup {txn[h].account} ELSE raced
  /\ End(h)
  /\ UNCHANGED <<content, erasedAccount, lastSet>>

-----------------------------------------------------------------------------
(***************************************************************************)
(* The owner's requests.                                                   *)
(***************************************************************************)

\* UpdateProfileRequestToParams: an empty list of interests is not passed on.
Params(req) == [req EXCEPT !.clear = @ \ {"interests"}]

\* What is not sent stays; a name or date of birth sent empty stays, too.
SetDetails(row, p) == (row \ (p.clear \cap {"bio"})) \cup (p.set \cap {"name", "bio"})

\* The picture goes unless it is sent again.
SetProfilePicture(row, p) == (row \ {"picture"}) \cup (p.set \cap {"picture"})

UpdateActivityInterests(row, p) == row \cup (p.set \cap {"interests"})

UpdateProfile(row, p) ==
  UpdateActivityInterests(SetProfilePicture(SetDetails(row, p), p), p)

FindBy(a) == content[a]

UpdateProfileRead(h, a, req) ==
  /\ a \in profiles
  /\ Begin(h, [op |-> "profile", account |-> a, row |-> UpdateProfile(FindBy(a), Params(req))])
  /\ UNCHANGED rows

\* The whole row is written, whatever it holds by now, if it is still there.
UpdatedProfile(a, row) == IF a \in profiles THEN [content EXCEPT ![a] = row] ELSE content

\* All interests are written again, which their foreign key forbids without the row.
InterestsReplaced(a, row) == "interests" \in row => a \in profiles

\* The transaction writes the row, then the interests, or fails with them.
UpdateAccountProfile(h) ==
  LET a == txn[h].account IN
  /\ txn[h].op = "profile"
  /\ content' = IF InterestsReplaced(a, txn[h].row) THEN UpdatedProfile(a, txn[h].row) ELSE content
  /\ End(h)
  /\ UNCHANGED <<profiles, settings, version, erasedAccount, lastSet, raced>>

\* An account without settings gets an error.
GetSettings(a) == version[a] > 0

\* A value that is not new changes nothing and is not saved.
Changes(a, k, v) == settings[a][k] # v

UpdateSettingsRead(h, a, k, v) ==
  /\ GetSettings(a) /\ version[a] < MaxVersion
  /\ Changes(a, k, v)
  /\ Begin(h, [op |-> "settings", account |-> a, key |-> k,
               seen |-> version[a], all |-> [settings[a] EXCEPT ![k] = v]])
  /\ UNCHANGED rows

\* Faulty variant: the version is counted, but not compared.
AnyVersion(a, seen) == version[a] > 0

\* WHERE version = $4.
SameVersion(a, seen) == version[a] = seen

\* All values are replaced under one version; on a conflict the owner gets an
\* error and nothing is saved.
UpdateSettings(h) ==
  LET a == txn[h].account IN
  /\ txn[h].op = "settings"
  /\ \/ /\ SameVersion(a, txn[h].seen)
        /\ version' = [version EXCEPT ![a] = txn[h].seen + 1]
        /\ settings' = [settings EXCEPT ![a] = txn[h].all]
        /\ lastSet' = [lastSet EXCEPT ![a][txn[h].key] = txn[h].all[txn[h].key]]
     \/ ~SameVersion(a, txn[h].seen) /\ UNCHANGED <<version, settings, lastSet>>
  /\ End(h)
  /\ UNCHANGED <<profiles, content, erasedAccount, raced>>

-----------------------------------------------------------------------------
(***************************************************************************)
(* identity.account.erased                                                 *)
(***************************************************************************)

\* EraseAccount, for an account it has not erased before.
EraseAccount(a) ==
  /\ a \notin erasedAccount
  /\ erasedAccount' = erasedAccount \cup {a}
  /\ profiles' = profiles \ {a}
  /\ content' = [content EXCEPT ![a] = {}]
  /\ settings' = [settings EXCEPT ![a] = DefaultSettings]
  /\ version' = [version EXCEPT ![a] = 0]
  /\ lastSet' = [lastSet EXCEPT ![a] = DefaultSettings]
  /\ UNCHANGED <<txn, raced>>

ProfileRequest ==
  \E h \in Handlers :
    \/ \E a \in Accounts :
         \/ \E req \in Requests : UpdateProfileRead(h, a, req)
         \/ \E k \in Keys, v \in Values : UpdateSettingsRead(h, a, k, v)
    \/ UpdateAccountProfile(h)
    \/ UpdateSettings(h)

-----------------------------------------------------------------------------
(***************************************************************************)
(* Properties.                                                             *)
(***************************************************************************)

ProfileTypeOK ==
  /\ profiles \subseteq Accounts /\ erasedAccount \subseteq Accounts /\ raced \subseteq Accounts
  /\ content \in [Accounts -> SUBSET Fields]
  /\ settings \in [Accounts -> [Keys -> Values]]
  /\ version \in [Accounts -> 0 .. MaxVersion]
  /\ lastSet \in [Accounts -> [Keys -> Values]]
  /\ \A a \in Accounts : a \notin profiles => content[a] = {} /\ version[a] = 0
  /\ \A h \in Handlers : txn[h].op \in {"idle", "verified", "profile", "settings"}

\* A setting the owner was told is saved stays as it is until the owner saves
\* that setting again: neither an update that read the settings before (their
\* version), nor a redelivered identity.account.verified (CreateSettings keeps
\* what is there) puts an older value back.  Only for an account created again
\* after its erasure the versions repeat, and one compares equal too many.
SettingsKept == \A a \in Accounts \ raced : settings[a] = lastSet[a]

\* An erased account has neither profile nor settings, whatever arrives late -
\* unless the handler of identity.account.verified had looked for the erasure
\* before it was committed (createProfileEventHandler.Handle).
GoneUnlessRaced ==
  \A a \in erasedAccount : a \in profiles \/ version[a] > 0 => a \in raced
=============================================================================
