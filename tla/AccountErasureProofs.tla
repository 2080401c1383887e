------------------------ MODULE AccountErasureProofs ------------------------
(***************************************************************************)
(* Proofs about AccountErasure and the AccountProfile it extends, for any  *)
(* accounts, contexts, settings, requests and open transactions.           *)
(***************************************************************************)
EXTENDS AccountErasure, TLAPS

-----------------------------------------------------------------------------
(***************************************************************************)
(* Account-profile: its invariant.                                         *)
(***************************************************************************)

\* The open transactions: nobody creates what they found erased, and settings
\* are changed only where there are some.
Transactions ==
  {Idle}
  \cup [op : {"verified"}, account : Accounts, late : {FALSE}]
  \cup [op : {"profile"}, account : Accounts, row : SUBSET Fields]
  \cup [op : {"settings"}, account : Accounts, key : Keys,
        seen : 1 .. (MaxVersion - 1), all : [Keys -> Values]]

Updating(h, a) == txn[h].op = "settings" /\ txn[h].account = a

\* Before an erasure versions only go up, so nobody has seen a later one.
NoneSeenAhead ==
  \A h \in Handlers : \A a \in Accounts \ erasedAccount :
    Updating(h, a) => txn[h].seen <= version[a]

\* Who would pass the comparison of versions has read the settings as they are.
SeenIsCurrent ==
  \A h \in Handlers : \A a \in Accounts \ raced :
    Updating(h, a) /\ SameVersion(a, txn[h].seen) =>
      txn[h].all = [settings[a] EXCEPT ![txn[h].key] = txn[h].all[txn[h].key]]

ProfileIInv ==
  /\ ProfileTypeOK
  /\ txn \in [Handlers -> Transactions]
  /\ GoneUnlessRaced
  /\ SettingsKept
  /\ NoneSeenAhead
  /\ SeenIsCurrent

\* What a transaction has read, by what it does.
LEMMA OpenTransaction ==
  ASSUME NEW t \in Transactions
  PROVE  /\ t.op \in {"idle", "verified", "profile", "settings"}
         /\ t.op = "verified" => t.account \in Accounts /\ t.late = FALSE
         /\ t.op = "profile" => t.account \in Accounts /\ t.row \in SUBSET Fields
         /\ t.op = "settings" =>
              /\ t.account \in Accounts /\ t.key \in Keys
              /\ t.seen \in 1 .. (MaxVersion - 1) /\ t.all \in [Keys -> Values]
<1>1. CASE t = Idle
  <2>1. t.op = "idle"
    BY <1>1 DEF Idle
  <2>. QED  BY <2>1
<1>2. CASE t \in [op : {"verified"}, account : Accounts, late : {FALSE}]
  BY <1>2
<1>3. CASE t \in [op : {"profile"}, account : Accounts, row : SUBSET Fields]
  BY <1>3
<1>4. CASE t \in [op : {"settings"}, account : Accounts, key : Keys,
                  seen : 1 .. (MaxVersion - 1), all : [Keys -> Values]]
  BY <1>4
<1>. QED  BY <1>1, <1>2, <1>3, <1>4 DEF Transactions

\* A transaction begins: it is no update of settings, or one that read them now.
LEMMA BeginKeepsProfileIInv ==
  ASSUME ProfileIInv, NEW h \in Handlers, NEW t \in Transactions, Begin(h, t), UNCHANGED rows,
         t.op = "settings" =>
           /\ t.seen = version[t.account]
           /\ t.all = [settings[t.account] EXCEPT ![t.key] = t.all[t.key]]
  PROVE  ProfileIInv'
<1>1. UNCHANGED <<profiles, content, settings, version, erasedAccount, lastSet, raced>>
  BY DEF rows
<1>2. /\ txn' \in [Handlers -> Transactions] /\ txn'[h] = t
      /\ \A g \in Handlers : g # h => txn'[g] = txn[g]
  BY DEF Begin, ProfileIInv
<1>3. \A g \in Handlers : txn'[g].op \in {"idle", "verified", "profile", "settings"}
  BY <1>2, OpenTransaction
<1>4. ProfileTypeOK'
  BY <1>1, <1>3 DEF ProfileIInv, ProfileTypeOK
<1>5. GoneUnlessRaced' /\ SettingsKept'
  BY <1>1 DEF ProfileIInv, GoneUnlessRaced, SettingsKept
<1>6. NoneSeenAhead'
  <2>1. version[t.account] <= version[t.account] \/ t.account \notin Accounts
    BY DEF ProfileIInv, ProfileTypeOK
  <2>. QED  BY <1>1, <1>2, <2>1 DEF ProfileIInv, NoneSeenAhead, Updating
<1>7. SeenIsCurrent'
  BY <1>1, <1>2 DEF ProfileIInv, SeenIsCurrent, Updating, SameVersion
<1>. QED  BY <1>2, <1>4, <1>5, <1>6, <1>7 DEF ProfileIInv

\* The handler of identity.account.verified commits: it can meet an erased
\* account only as one it raced with, and one that is there already it leaves
\* as it is.
LEMMA VerifiedKeepsProfileIInv ==
  ASSUME ProfileIInv, NEW h \in Handlers, VerifiedCommit(h)
  PROVE  ProfileIInv'
<1> DEFINE a == txn[h].account
<1>. USE DEF ProfileIInv
<1>1. /\ a \in Accounts /\ txn[h].late = FALSE
      /\ txn' \in [Handlers -> Transactions] /\ txn'[h] = Idle
      /\ \A g \in Handlers : g # h => txn'[g] = txn[g]
  BY OpenTransaction DEF VerifiedCommit, End, Transactions
<1>. HIDE DEF a
<1>2. UNCHANGED <<content, settings, erasedAccount, lastSet>>
  BY DEF VerifiedCommit, CreateSettings
<1>3. /\ profiles' = profiles \cup {a} /\ raced' \subseteq Accounts /\ raced \subseteq raced'
      /\ a \in erasedAccount => a \in raced'
      /\ raced' \subseteq raced \cup {a}
  BY <1>1 DEF VerifiedCommit, CreateProfile, ProfileTypeOK, a
<1>4. /\ version' \in [Accounts -> 0 .. MaxVersion] /\ version'[a] > 0
      /\ \A b \in Accounts : b # a \/ version[a] # 0 => version'[b] = version[b]
      /\ version[a] = 0 => version'[a] = 1
  BY <1>1, ProfileAssumption DEF VerifiedCommit, CreateSettings, ProfileTypeOK, a
<1>5. \A g \in Handlers, b \in Accounts :
        /\ Updating(g, b)' <=> Updating(g, b)
        /\ Updating(g, b) => txn'[g] = txn[g] /\ txn[g].seen \in 1 .. (MaxVersion - 1)
  <2>1. \A b \in Accounts : ~Updating(h, b) /\ ~Updating(h, b)'
    BY <1>1 DEF VerifiedCommit, Updating, Idle
  <2>2. ASSUME NEW g \in Handlers, g # h, NEW b \in Accounts
        PROVE  /\ Updating(g, b)' <=> Updating(g, b)
               /\ Updating(g, b) => txn'[g] = txn[g] /\ txn[g].seen \in 1 .. (MaxVersion - 1)
    BY <1>1, <2>2, OpenTransaction DEF Updating
  <2>. QED  BY <2>1, <2>2
<1>6. ProfileTypeOK'
  BY <1>1, <1>2, <1>3, <1>4, OpenTransaction DEF ProfileTypeOK
<1>7. GoneUnlessRaced'
  BY <1>2, <1>3, <1>4 DEF GoneUnlessRaced, ProfileTypeOK
<1>8. SettingsKept'
  BY <1>2, <1>3 DEF SettingsKept
<1>9. NoneSeenAhead'
  BY <1>2, <1>4, <1>5 DEF NoneSeenAhead, ProfileTypeOK
<1>10. SeenIsCurrent'
  <2>. SUFFICES ASSUME NEW g \in Handlers, NEW b \in Accounts, b \notin raced', Updating(g, b),
                       txn[g].seen = version'[b]
                PROVE  txn[g].all = [settings[b] EXCEPT ![txn[g].key] = txn[g].all[txn[g].key]]
    BY <1>2, <1>5 DEF SeenIsCurrent, SameVersion
  <2>1. CASE b # a \/ version[a] # 0
    BY <1>3, <1>4, <2>1 DEF SeenIsCurrent, SameVersion
  <2>2. CASE b = a /\ version[a] = 0
    <3>1. a \notin erasedAccount /\ txn[g].seen \in Int /\ txn[g].seen >= 1
      BY <1>3, <1>5, <2>2
    <3>. QED  BY <2>2, <3>1 DEF NoneSeenAhead
  <2>. QED  BY <2>1, <2>2
<1>. QED  BY <1>1, <1>6, <1>7, <1>8, <1>9, <1>10

\* The end of a transaction that leaves the settings and their versions alone.
LEMMA EndLeavesUpdates ==
  ASSUME ProfileIInv, NEW h \in Handlers, End(h)
  PROVE  /\ txn' \in [Handlers -> Transactions]
         /\ \A g \in Handlers : txn'[g].op \in {"idle", "verified", "profile", "settings"}
         /\ \A g \in Handlers, b \in Accounts :
              Updating(g, b)' => /\ g # h /\ Updating(g, b) /\ txn'[g] = txn[g]
                                 /\ txn[g].seen \in 1 .. (MaxVersion - 1)
<1>1. txn' \in [Handlers -> Transactions] /\ txn'[h] = Idle
  BY DEF End, Transactions, ProfileIInv
<1>2. \A g \in Handlers : g # h => txn'[g] = txn[g] /\ txn[g] \in Transactions
  BY DEF End, ProfileIInv
<1>3. \A b \in Accounts : ~Updating(h, b)'
  BY <1>1 DEF Updating, Idle
<1>4. \A g \in Handlers : txn'[g].op \in {"idle", "verified", "profile", "settings"}
  BY <1>1, OpenTransaction
<1>5. ASSUME NEW g \in Handlers, NEW b \in Accounts, Updating(g, b)'
      PROVE  /\ g # h /\ Updating(g, b) /\ txn'[g] = txn[g]
             /\ txn[g].seen \in 1 .. (MaxVersion - 1)
  <2>1. g # h /\ txn'[g] = txn[g] /\ txn[g] \in Transactions
    BY <1>2, <1>3, <1>5
  <2>. QED  BY <1>5, <2>1, OpenTransaction DEF Updating
<1>. QED  BY <1>1, <1>4, <1>5

\* The row of a profile is written, or not.
LEMMA ProfileWriteKeepsProfileIInv ==
  ASSUME ProfileIInv, NEW h \in Handlers, UpdateAccountProfile(h)
  PROVE  ProfileIInv'
<1>1. UNCHANGED <<profiles, settings, version, erasedAccount, lastSet, raced>> /\ End(h)
  BY DEF UpdateAccountProfile
<1>2. /\ content' \in [Accounts -> SUBSET Fields]
      /\ \A a \in Accounts : a \notin profiles => content'[a] = {}
  <2>1. txn[h].account \in Accounts /\ txn[h].row \in SUBSET Fields
    BY OpenTransaction DEF UpdateAccountProfile, ProfileIInv
  <2>2. \/ content' = content
        \/ /\ txn[h].account \in profiles
           /\ content' = [content EXCEPT ![txn[h].account] = txn[h].row]
    BY DEF UpdateAccountProfile, UpdatedProfile
  <2>. QED  BY <2>1, <2>2 DEF ProfileIInv, ProfileTypeOK
<1>3. ProfileTypeOK'
  BY <1>1, <1>2, EndLeavesUpdates DEF ProfileIInv, ProfileTypeOK
<1>4. GoneUnlessRaced' /\ SettingsKept'
  BY <1>1 DEF ProfileIInv, GoneUnlessRaced, SettingsKept
<1>5. NoneSeenAhead' /\ SeenIsCurrent'
  BY <1>1, EndLeavesUpdates DEF ProfileIInv, NoneSeenAhead, SeenIsCurrent, SameVersion
<1>. QED  BY <1>1, <1>3, <1>4, <1>5, EndLeavesUpdates DEF ProfileIInv

\* Settings are saved over the version they were read at, one key at a time.
LEMMA SettingsWriteKeepsProfileIInv ==
  ASSUME ProfileIInv, NEW h \in Handlers, UpdateSettings(h)
  PROVE  ProfileIInv'
<1> DEFINE t == txn[h]
           a == txn[h].account
<1>. USE DEF ProfileIInv
<1>1. /\ UNCHANGED <<profiles, content, erasedAccount, raced>> /\ End(h) /\ Updating(h, a)
      /\ a \in Accounts /\ t.key \in Keys /\ t.seen \in 1 .. (MaxVersion - 1)
      /\ t.all \in [Keys -> Values]
  BY OpenTransaction DEF UpdateSettings, Updating
<1>2. CASE UNCHANGED <<version, settings, lastSet>>
  <2>1. ProfileTypeOK'
    BY <1>1, <1>2, EndLeavesUpdates DEF ProfileTypeOK
  <2>2. GoneUnlessRaced' /\ SettingsKept'
    BY <1>1, <1>2 DEF GoneUnlessRaced, SettingsKept
  <2>3. NoneSeenAhead' /\ SeenIsCurrent'
    BY <1>1, <1>2, EndLeavesUpdates DEF NoneSeenAhead, SeenIsCurrent, SameVersion
  <2>. QED  BY <1>1, <2>1, <2>2, <2>3, EndLeavesUpdates
<1>3. CASE /\ SameVersion(a, t.seen)
           /\ version' = [version EXCEPT ![a] = t.seen + 1]
           /\ settings' = [settings EXCEPT ![a] = t.all]
           /\ lastSet' = [lastSet EXCEPT ![a][t.key] = t.all[t.key]]
  <2>. HIDE DEF t, a
  <2>1. /\ version[a] = t.seen /\ version[a] > 0 /\ version' \in [Accounts -> 0 .. MaxVersion]
        /\ version'[a] = version[a] + 1 /\ version[a] \in Nat
        /\ \A b \in Accounts : b # a => version'[b] = version[b]
    BY <1>1, <1>3, ProfileAssumption DEF SameVersion, ProfileTypeOK
  <2>2. /\ settings' \in [Accounts -> [Keys -> Values]] /\ settings'[a] = t.all
        /\ \A b \in Accounts : b # a => settings'[b] = settings[b]
    BY <1>1, <1>3 DEF ProfileTypeOK
  <2>3. /\ lastSet' \in [Accounts -> [Keys -> Values]]
        /\ lastSet'[a] = [lastSet[a] EXCEPT ![t.key] = t.all[t.key]]
        /\ \A b \in Accounts : b # a => lastSet'[b] = lastSet[b]
    BY <1>1, <1>3 DEF ProfileTypeOK
  <2>4. a \notin erasedAccount \/ a \in raced
    BY <1>1, <2>1 DEF GoneUnlessRaced
  <2>5. ProfileTypeOK'
    BY <1>1, <2>1, <2>2, <2>3, EndLeavesUpdates DEF ProfileTypeOK
  <2>6. GoneUnlessRaced'
    BY <1>1, <2>1, <2>4 DEF GoneUnlessRaced, ProfileTypeOK
  <2>7. SettingsKept'
    <3>1. ASSUME a \notin raced PROVE settings'[a] = lastSet'[a]
      <4>1. t.all = [settings[a] EXCEPT ![t.key] = t.all[t.key]]
        BY <1>1, <1>3, <3>1 DEF SeenIsCurrent, t
      <4>2. settings[a] = lastSet[a]
        BY <1>1, <3>1 DEF SettingsKept
      <4>. QED  BY <2>2, <2>3, <4>1, <4>2
    <3>. QED  BY <1>1, <2>2, <2>3, <3>1 DEF SettingsKept
  <2>8. NoneSeenAhead'
    <3>1. ASSUME NEW g \in Handlers, NEW b \in Accounts \ erasedAccount, Updating(g, b)'
          PROVE  txn'[g].seen <= version'[b]
      <4>1. txn'[g] = txn[g] /\ txn[g].seen \in Int /\ txn[g].seen <= version[b]
        BY <1>1, <3>1, EndLeavesUpdates DEF NoneSeenAhead
      <4>. QED  BY <2>1, <4>1
    <3>. QED  BY <1>1, <3>1 DEF NoneSeenAhead
  <2>9. SeenIsCurrent'
    <3>1. ASSUME NEW g \in Handlers, NEW b \in Accounts \ raced, Updating(g, b)',
                 txn'[g].seen = version'[b]
          PROVE  txn'[g].all = [settings'[b] EXCEPT ![txn'[g].key] = txn'[g].all[txn'[g].key]]
      <4>1. txn'[g] = txn[g] /\ txn[g].seen \in Int /\ Updating(g, b)
        BY <1>1, <3>1, EndLeavesUpdates
      <4>2. CASE b # a
        BY <2>1, <2>2, <3>1, <4>1, <4>2 DEF SeenIsCurrent, SameVersion
      <4>3. CASE b = a
        BY <2>1, <2>4, <3>1, <4>1, <4>3 DEF NoneSeenAhead
      <4>. QED  BY <4>2, <4>3
    <3>. QED  BY <1>1, <3>1 DEF SeenIsCurrent, SameVersion
  <2>. QED  BY <1>1, <2>5, <2>6, <2>7, <2>8, <2>9, EndLeavesUpdates
<1>. QED  BY <1>2, <1>3 DEF UpdateSettings

\* An erasure leaves no version for an open update to compare equal with.
LEMMA EraseKeepsProfileIInv ==
  ASSUME ProfileIInv, NEW a \in Accounts, EraseAccount(a)
  PROVE  ProfileIInv'
<1>. USE DEF ProfileIInv
<1>1. /\ UNCHANGED <<txn, raced>> /\ erasedAccount' = erasedAccount \cup {a}
      /\ profiles' = profiles \ {a}
      /\ \A g \in Handlers, b \in Accounts : Updating(g, b)' <=> Updating(g, b)
  BY DEF EraseAccount, Updating
<1>2. DefaultSettings \in [Keys -> Values]
  BY DEF DefaultSettings, Values
<1>3. /\ content' = [content EXCEPT ![a] = {}] /\ version' = [version EXCEPT ![a] = 0]
      /\ settings' = [settings EXCEPT ![a] = DefaultSettings]
      /\ lastSet' = [lastSet EXCEPT ![a] = DefaultSettings]
  BY DEF EraseAccount
<1>4. ProfileTypeOK'
  BY <1>1, <1>2, <1>3, ProfileAssumption DEF ProfileTypeOK
<1>5. GoneUnlessRaced' /\ SettingsKept' /\ NoneSeenAhead'
  BY <1>1, <1>3 DEF GoneUnlessRaced, SettingsKept, NoneSeenAhead, ProfileTypeOK
<1>6. SeenIsCurrent'
  <2>. SUFFICES ASSUME NEW g \in Handlers, NEW b \in Accounts \ raced, Updating(g, b),
                       txn[g].seen = version'[b]
                PROVE  txn[g].all = [settings'[b] EXCEPT ![txn[g].key] = txn[g].all[txn[g].key]]
    BY <1>1 DEF SeenIsCurrent, SameVersion
  <2>1. b # a
    <3>1. txn[g] \in Transactions /\ txn[g].op = "settings"
      BY DEF Updating
    <3>2. txn[g].seen \in 1 .. (MaxVersion - 1)
      BY <3>1, OpenTransaction
    <3>. QED  BY <1>3, <3>2 DEF ProfileTypeOK
  <2>. QED  BY <1>3, <2>1 DEF SeenIsCurrent, SameVersion, ProfileTypeOK
<1>. QED  BY <1>1, <1>4, <1>5, <1>6

\* The owner's requests, and all that the handlers do to account-profile.
LEMMA ReadsKeepProfileIInv ==
  ASSUME ProfileIInv, NEW h \in Handlers, NEW a \in Accounts,
         \/ VerifiedRead(h, a)
         \/ \E req \in Requests : UpdateProfileRead(h, a, req)
         \/ \E k \in Keys, v \in Values : UpdateSettingsRead(h, a, k, v)
  PROVE  ProfileIInv'
<1>1. CASE VerifiedRead(h, a)
  <2> DEFINE t == [op |-> "verified", account |-> a, late |-> a \in erasedAccount]
  <2>1. t = [op |-> "verified", account |-> a, late |-> FALSE]
    <3>1. a \notin erasedAccount
      BY <1>1 DEF VerifiedRead, MayCreate
    <3>2. (a \in erasedAccount) = FALSE
      BY <3>1
    <3>. QED  BY <3>2
  <2>2. t \in Transactions /\ t.op # "settings"
    BY <2>1 DEF Transactions
  <2>. QED  BY <1>1, <2>2, BeginKeepsProfileIInv DEF VerifiedRead
<1>2. ASSUME NEW req \in Requests, UpdateProfileRead(h, a, req)
      PROVE  ProfileIInv'
  <2> DEFINE row == UpdateProfile(FindBy(a), Params(req))
             t == [op |-> "profile", account |-> a, row |-> row]
  <2>1. row \in SUBSET Fields
    <3>1. content[a] \subseteq Fields
      BY DEF ProfileIInv, ProfileTypeOK
    <3>. QED  BY <3>1 DEF UpdateProfile, UpdateActivityInterests, SetProfilePicture, SetDetails,
                          FindBy, Fields
  <2>. HIDE DEF row
  <2>2. t \in Transactions /\ t.op # "settings"
    BY <2>1 DEF Transactions
  <2>. QED  BY <1>2, <2>2, BeginKeepsProfileIInv DEF UpdateProfileRead, row
<1>3. ASSUME NEW k \in Keys, NEW v \in Values, UpdateSettingsRead(h, a, k, v)
      PROVE  ProfileIInv'
  <2> DEFINE t == [op |-> "settings", account |-> a, key |-> k,
                   seen |-> version[a], all |-> [settings[a] EXCEPT ![k] = v]]
  <2>1. version[a] \in 1 .. (MaxVersion - 1)
    BY <1>3, ProfileAssumption DEF UpdateSettingsRead, GetSettings, ProfileIInv, ProfileTypeOK
  <2>2. /\ [settings[a] EXCEPT ![k] = v] \in [Keys -> Values]
        /\ t.all = [settings[a] EXCEPT ![k] = t.all[k]]
    BY DEF ProfileIInv, ProfileTypeOK
  <2>3. t \in Transactions
    BY <2>1, <2>2 DEF Transactions
  <2>. QED  BY <1>3, <2>2, <2>3, BeginKeepsProfileIInv DEF UpdateSettingsRead
<1>. QED  BY <1>1, <1>2, <1>3

LEMMA RequestsKeepProfileIInv ==
  ASSUME ProfileIInv, ProfileRequest
  PROVE  ProfileIInv'
BY ReadsKeepProfileIInv, ProfileWriteKeepsProfileIInv, SettingsWriteKeepsProfileIInv DEF ProfileRequest

-----------------------------------------------------------------------------
(***************************************************************************)
(* The erasure across the contexts: its invariant.                         *)
(***************************************************************************)

\* Where the erasure of a is, as c sees it.
Settled(c, a) ==
  \/ <<c, a>> \in confirmed
  \/ a \notin Done(c) /\ Erased(c, a) \in owed
  \/ a \in Done(c) /\ Confirmation(c, a) \in owed

\* What identity has not erased no context has heard of, and no context
\* confirms what it has not erased.
Followed ==
  \A c \in Contexts, a \in Accounts :
    /\ status[a] = "erased" => Settled(c, a)
    /\ a \in Done(c) \/ Erased(c, a) \in owed => status[a] = "erased"
    /\ <<c, a>> \in confirmed \/ Confirmation(c, a) \in owed => a \in Done(c)

IInv ==
  /\ TypeOK
  /\ ProfileIInv
  /\ Followed

\* No two messages are the same.
LEMMA MessagesDiffer ==
  ASSUME NEW c \in Contexts, NEW d \in Contexts, NEW a \in Accounts, NEW b \in Accounts
  PROVE  /\ Verified(a) # Erased(d, b) /\ Verified(a) # Confirmation(d, b)
         /\ Erased(c, a) # Confirmation(d, b)
         /\ Erased(c, a) = Erased(d, b) => c = d /\ a = b
         /\ Confirmation(c, a) = Confirmation(d, b) => c = d /\ a = b
BY ErasureAssumption DEF Contexts, Verified, Erased, Confirmation, Msg

LEMMA ProfileUnchanged ==
  ASSUME ProfileIInv, UNCHANGED profileVars
  PROVE  ProfileIInv'
BY DEF profileVars, ProfileIInv, ProfileTypeOK, GoneUnlessRaced, SettingsKept, NoneSeenAhead,
       SeenIsCurrent, Updating, SameVersion

\* Messages to identity and about the verification of an account are handled,
\* and nothing that Followed tells apart is raised.
LEMMA DeliveryKeepsFollowed ==
  ASSUME IInv, UNCHANGED <<status, erasedAccount, erasedIn, confirmed>>,
         \/ owed' = owed
         \/ \E a \in Accounts : Acked(Verified(a), {})
  PROVE  Followed' /\ owed' \subseteq Messages
<1>1. \A c \in Contexts : Done(c)' = Done(c)
  BY DEF Done
<1>2. \A c \in Contexts, a \in Accounts :
        /\ Erased(c, a) \in owed' <=> Erased(c, a) \in owed
        /\ Confirmation(c, a) \in owed' <=> Confirmation(c, a) \in owed
  BY MessagesDiffer DEF Acked
<1>3. owed' \subseteq owed
  BY DEF Acked
<1>4. Followed'
  BY <1>1, <1>2 DEF IInv, Followed, Settled, Erased, Confirmation
<1>. QED  BY <1>3, <1>4 DEF IInv, TypeOK

\* Whether the account is deleted says nothing yet about its erasure.
LEMMA DeleteKeepsIInv ==
  ASSUME IInv, NEW a \in Accounts, DeleteAccount(a)
  PROVE  IInv'
<1>1. /\ UNCHANGED <<profileVars, holds, erasedIn, owed, confirmed>>
      /\ status' \in [Accounts -> {"active", "deleted", "erased"}]
      /\ \A b \in Accounts : status'[b] = "erased" <=> status[b] = "erased"
  BY DEF DeleteAccount, IInv, TypeOK
<1>2. ProfileIInv'
  BY <1>1, ProfileUnchanged DEF IInv
<1>3. TypeOK'
  BY <1>1, <1>2 DEF IInv, TypeOK, ProfileIInv
<1>4. Followed'
  BY <1>1 DEF IInv, Followed, Settled, Done, profileVars, Erased, Confirmation
<1>. QED  BY <1>2, <1>3, <1>4 DEF IInv

\* The accounts of a batch are unknown to the contexts until their events are
\* in the outbox, one for every context.
LEMMA EraseDueKeepsIInv ==
  ASSUME IInv, RunOnce
  PROVE  IInv'
<1>1. PICK due \in SUBSET Accounts :
        (\A a \in due : status[a] = "deleted") /\ EraseDueAccounts(due)
  BY DEF RunOnce, ListDueForErasure
<1>2. /\ UNCHANGED <<profileVars, holds, erasedIn, confirmed>>
      /\ status' = [a \in Accounts |-> IF a \in due THEN "erased" ELSE status[a]]
      /\ owed' = owed \cup {Erased(c, a) : c \in Contexts, a \in due}
  BY <1>1 DEF EraseDueAccounts
<1>3. ProfileIInv'
  BY <1>2, ProfileUnchanged DEF IInv
<1>4. TypeOK'
  BY <1>2, <1>3 DEF IInv, TypeOK, ProfileIInv, Messages, Contexts, Erased, Confirmation, Verified
<1>5. \A c \in Contexts : Done(c)' = Done(c)
  BY <1>2 DEF Done, profileVars
<1>6. ASSUME NEW c \in Contexts, NEW a \in Accounts
      PROVE  /\ Confirmation(c, a) \in owed' <=> Confirmation(c, a) \in owed
             /\ Erased(c, a) \in owed' <=> Erased(c, a) \in owed \/ a \in due
  BY <1>2, MessagesDiffer
<1>7. Followed'
  <2>. SUFFICES ASSUME NEW c \in Contexts, NEW a \in Accounts
       PROVE  /\ status'[a] = "erased" =>
                   \/ <<c, a>> \in confirmed'
                   \/ a \notin Done(c)' /\ Erased(c, a) \in owed'
                   \/ a \in Done(c)' /\ Confirmation(c, a) \in owed'
              /\ a \in Done(c)' \/ Erased(c, a) \in owed' => status'[a] = "erased"
              /\ <<c, a>> \in confirmed' \/ Confirmation(c, a) \in owed' => a \in Done(c)'
    BY DEF Followed, Settled, Erased, Confirmation
  <2>1. CASE a \in due
    <3>1. status[a] # "erased" /\ a \notin Done(c)
      BY <1>1, <2>1 DEF IInv, Followed
    <3>2. <<c, a>> \notin confirmed /\ Confirmation(c, a) \notin owed
      BY <3>1 DEF IInv, Followed
    <3>. QED  BY <1>2, <1>5, <1>6, <2>1, <3>1, <3>2
  <2>2. CASE a \notin due
    BY <1>2, <1>5, <1>6, <2>2 DEF IInv, Followed, Settled
  <2>. QED  BY <2>1, <2>2
<1>. QED  BY <1>3, <1>4, <1>7 DEF IInv

\* A confirmation is recorded before it is acknowledged.
LEMMA RecordKeepsIInv ==
  ASSUME IInv, NEW c \in Contexts, NEW a \in Accounts, RecordContextErasure(c, a)
  PROVE  IInv'
<1>1. /\ UNCHANGED <<profileVars, status, holds, erasedIn>>
      /\ confirmed' = confirmed \cup {<<c, a>>} /\ Confirmation(c, a) \in owed
      /\ owed' \in {owed, owed \ {Confirmation(c, a)}}
  BY DEF RecordContextErasure, Acked
<1>2. ProfileIInv'
  BY <1>1, ProfileUnchanged DEF IInv
<1>3. TypeOK'
  BY <1>1, <1>2 DEF IInv, TypeOK, ProfileIInv, Messages
<1>4. \A d \in Contexts : Done(d)' = Done(d)
  BY <1>1 DEF Done, profileVars
<1>5. ASSUME NEW d \in Contexts, NEW b \in Accounts
      PROVE  /\ Erased(d, b) \in owed' <=> Erased(d, b) \in owed
             /\ Confirmation(d, b) \in owed' => Confirmation(d, b) \in owed
             /\ <<d, b>> # <<c, a>> => (Confirmation(d, b) \in owed' <=> Confirmation(d, b) \in owed)
  BY <1>1, MessagesDiffer
<1>6. ASSUME NEW d \in Contexts, NEW b \in Accounts
      PROVE  /\ status'[b] = "erased" =>
                  \/ <<d, b>> \in confirmed'
                  \/ b \notin Done(d)' /\ Erased(d, b) \in owed'
                  \/ b \in Done(d)' /\ Confirmation(d, b) \in owed'
             /\ b \in Done(d)' \/ Erased(d, b) \in owed' => status'[b] = "erased"
             /\ <<d, b>> \in confirmed' \/ Confirmation(d, b) \in owed' => b \in Done(d)'
  <2>1. CASE <<d, b>> = <<c, a>>
    BY <1>1, <1>4, <1>5, <2>1 DEF IInv, Followed
  <2>2. CASE <<d, b>> # <<c, a>>
    BY <1>1, <1>4, <1>5, <2>2 DEF IInv, Followed, Settled
  <2>. QED  BY <2>1, <2>2
<1>7. Followed'
  BY <1>6 DEF Followed, Settled, Erased, Confirmation
<1>. QED  BY <1>2, <1>3, <1>7 DEF IInv

\* Messages about the verification of an account, and requests of its owner.
LEMMA ProfileWorkKeepsIInv ==
  ASSUME IInv,
         \/ \E h \in Handlers : HandleVerified(h)
         \/ \E a \in Accounts : DropVerified(a)
         \/ ProfileRequest /\ UNCHANGED <<owed, others>>
  PROVE  IInv'
<1>1. UNCHANGED <<status, holds, erasedIn, confirmed, erasedAccount>>
  BY DEF HandleVerified, VerifiedRead, VerifiedCommit, DropVerified, ProfileRequest, profileVars,
         UpdateProfileRead, UpdateSettingsRead, UpdateAccountProfile, UpdateSettings, others, rows
<1>2. owed' = owed \/ \E a \in Accounts : Acked(Verified(a), {})
  <2>1. ASSUME NEW h \in Handlers, VerifiedCommit(h)
        PROVE  txn[h].account \in Accounts
    BY <2>1, OpenTransaction DEF VerifiedCommit, IInv, ProfileIInv
  <2>. QED  BY <2>1 DEF HandleVerified, DropVerified
<1>3. ProfileIInv'
  <2>1. CASE UNCHANGED profileVars
    BY <2>1, ProfileUnchanged DEF IInv
  <2>2. CASE ProfileRequest
    BY <2>2, RequestsKeepProfileIInv DEF IInv
  <2>3. ASSUME NEW h \in Handlers, HandleVerified(h)
        PROVE  ProfileIInv'
    BY <2>3, ReadsKeepProfileIInv, VerifiedKeepsProfileIInv DEF HandleVerified, IInv
  <2>. QED  BY <2>1, <2>2, <2>3 DEF DropVerified
<1>4. Followed' /\ owed' \subseteq Messages
  BY <1>1, <1>2, DeliveryKeepsFollowed
<1>5. TypeOK'
  BY <1>1, <1>3, <1>4 DEF IInv, TypeOK, ProfileIInv, Messages, Contexts, Verified, Erased, Confirmation
<1>. QED  BY <1>3, <1>4, <1>5 DEF IInv

\* A context erases the account and, the first time, confirms it.
LEMMA ErasureIsFollowed ==
  ASSUME IInv, NEW c \in Contexts, NEW a \in Accounts, Erased(c, a) \in owed,
         UNCHANGED <<status, confirmed>>,
         Done(c)' = Done(c) \cup {a}, \A d \in Contexts : d # c => Done(d)' = Done(d),
         Acked(Erased(c, a), IF a \notin Done(c) THEN {Confirmation(c, a)} ELSE {})
  PROVE  Followed' /\ owed' \subseteq Messages
<1>1. /\ status[a] = "erased"
      /\ a \notin Done(c) => <<c, a>> \notin confirmed /\ Confirmation(c, a) \notin owed
  BY DEF IInv, Followed
<1>2. /\ a \notin Done(c) => Confirmation(c, a) \in owed'
      /\ owed' \subseteq owed \cup {Confirmation(c, a)}
  BY DEF Acked
<1>3. ASSUME NEW d \in Contexts, NEW b \in Accounts
      PROVE  /\ Erased(d, b) \in owed' => Erased(d, b) \in owed
             /\ <<d, b>> # <<c, a>> =>
                  /\ Erased(d, b) \in owed' <=> Erased(d, b) \in owed
                  /\ Confirmation(d, b) \in owed' <=> Confirmation(d, b) \in owed
             /\ a \in Done(c) => (Confirmation(d, b) \in owed' <=> Confirmation(d, b) \in owed)
  BY MessagesDiffer DEF Acked
<1>4. ASSUME NEW d \in Contexts, NEW b \in Accounts
      PROVE  /\ status'[b] = "erased" =>
                  \/ <<d, b>> \in confirmed'
                  \/ b \notin Done(d)' /\ Erased(d, b) \in owed'
                  \/ b \in Done(d)' /\ Confirmation(d, b) \in owed'
             /\ b \in Done(d)' \/ Erased(d, b) \in owed' => status'[b] = "erased"
             /\ <<d, b>> \in confirmed' \/ Confirmation(d, b) \in owed' => b \in Done(d)'
  <2>1. CASE <<d, b>> = <<c, a>>
    BY <1>1, <1>2, <1>3, <2>1 DEF IInv, Followed, Settled
  <2>2. CASE <<d, b>> # <<c, a>>
    <3>1. b \in Done(d)' <=> b \in Done(d)
      BY <2>2
    <3>. QED  BY <1>3, <2>2, <3>1 DEF IInv, Followed, Settled
  <2>. QED  BY <2>1, <2>2
<1>5. owed' \subseteq Messages
  BY <1>2 DEF IInv, TypeOK, Messages
<1>. QED  BY <1>4, <1>5 DEF Followed, Settled, Erased, Confirmation

LEMMA HandleErasedKeepsIInv ==
  ASSUME IInv, NEW a \in Accounts, HandleErased(a)
  PROVE  IInv'
<1> DEFINE c == "account_profile"
<1>1. c \in Contexts /\ \A d \in Contexts : d # c => d \in Others
  BY DEF Contexts
<1>2. /\ Erased(c, a) \in owed /\ UNCHANGED <<status, holds, erasedIn, confirmed>>
      /\ erasedAccount' = erasedAccount \cup {a}
  BY DEF HandleErased, others, EraseAccount, profileVars
<1>3. Done(c) = erasedAccount /\ Done(c)' = Done(c) \cup {a}
      /\ \A d \in Contexts : d # c => Done(d)' = Done(d)
  BY <1>2 DEF Done
<1>4. Acked(Erased(c, a), IF a \notin Done(c) THEN {Confirmation(c, a)} ELSE {})
  BY <1>3 DEF HandleErased, Confirms
<1>5. Followed' /\ owed' \subseteq Messages
  BY <1>1, <1>2, <1>3, <1>4, ErasureIsFollowed
<1>6. ProfileIInv'
  BY EraseKeepsProfileIInv, ProfileUnchanged DEF HandleErased, IInv
<1>7. TypeOK'
  BY <1>2, <1>5, <1>6 DEF IInv, TypeOK, ProfileIInv, Messages, Contexts, Verified, Erased, Confirmation
<1>. QED  BY <1>5, <1>6, <1>7 DEF IInv

LEMMA ContextErasesKeepsIInv ==
  ASSUME IInv, NEW c \in Others, NEW a \in Accounts, ContextErases(c, a)
  PROVE  IInv'
<1>1. c \in Contexts /\ c # "account_profile"
  BY ErasureAssumption DEF Contexts
<1>2. /\ Erased(c, a) \in owed /\ UNCHANGED <<profileVars, status, confirmed>>
      /\ erasedIn' = [erasedIn EXCEPT ![c] = @ \cup {a}]
      /\ holds' = [holds EXCEPT ![c] = IF a \in erasedIn[c] THEN @ ELSE @ \ {a}]
  BY DEF ContextErases, Erase
<1>3. /\ erasedIn' \in [Others -> SUBSET Accounts] /\ holds' \in [Others -> SUBSET Accounts]
      /\ erasedIn'[c] = erasedIn[c] \cup {a}
      /\ \A d \in Others : d # c => erasedIn'[d] = erasedIn[d]
  BY <1>2 DEF IInv, TypeOK
<1>4. /\ Done(c) = erasedIn[c] /\ Done(c)' = Done(c) \cup {a}
      /\ \A d \in Contexts : d # c => Done(d)' = Done(d)
  BY <1>1, <1>2, <1>3 DEF Done, Contexts, profileVars
<1>5. Acked(Erased(c, a), IF a \notin Done(c) THEN {Confirmation(c, a)} ELSE {})
  BY <1>4 DEF ContextErases, FirstErasure
<1>6. Followed' /\ owed' \subseteq Messages
  BY <1>1, <1>2, <1>4, <1>5, ErasureIsFollowed
<1>7. ProfileIInv'
  BY <1>2, ProfileUnchanged DEF IInv
<1>8. TypeOK'
  BY <1>2, <1>3, <1>6, <1>7 DEF IInv, TypeOK, ProfileIInv, Messages, Contexts, Verified, Erased, Confirmation
<1>. QED  BY <1>6, <1>7, <1>8 DEF IInv

LEMMA InvariantHolds == Spec => []IInv
<1>1. Init => IInv
  <2>. SUFFICES ASSUME Init PROVE IInv
    OBVIOUS
  <2>1. DefaultSettings \in [Keys -> Values] /\ MaxVersion \in Nat
    BY ProfileAssumption DEF DefaultSettings, Values
  <2>2. \A h \in Handlers : txn[h] = Idle /\ txn[h].op = "idle"
    BY DEF Init, ProfileInit, Idle
  <2>3. ProfileIInv
    BY <2>1, <2>2 DEF Init, ProfileInit, ProfileIInv, ProfileTypeOK, Transactions, GoneUnlessRaced,
                      SettingsKept, NoneSeenAhead, SeenIsCurrent, Updating
  <2>4. TypeOK
    BY <2>3 DEF Init, TypeOK, ProfileIInv, Messages
  <2>5. \A c \in Contexts : Done(c) = {}
    BY DEF Init, ProfileInit, Done, Contexts
  <2>6. \A c \in Contexts, a \in Accounts : Erased(c, a) \notin owed /\ Confirmation(c, a) \notin owed
    BY MessagesDiffer DEF Init
  <2>7. Followed
    BY <2>5, <2>6 DEF Init, Followed
  <2>. QED  BY <2>3, <2>4, <2>7 DEF IInv
<1>2. IInv /\ [Next]_vars => IInv'
  <2>. SUFFICES ASSUME IInv, [Next]_vars PROVE IInv'
    OBVIOUS
  <2>1. CASE UNCHANGED vars
    <3>1. UNCHANGED <<profileVars, status, holds, erasedIn, owed, confirmed, erasedAccount>>
      BY <2>1 DEF vars, profileVars
    <3>2. ProfileIInv'
      BY <3>1, ProfileUnchanged DEF IInv
    <3>3. Followed' /\ owed' \subseteq Messages
      BY <3>1, DeliveryKeepsFollowed
    <3>4. TypeOK'
      BY <3>1, <3>2, <3>3 DEF IInv, TypeOK, ProfileIInv, Messages, Contexts, Verified, Erased, Confirmation
    <3>. QED  BY <3>2, <3>3, <3>4 DEF IInv
  <2>2. CASE Next
    BY <2>2, DeleteKeepsIInv, EraseDueKeepsIInv, RecordKeepsIInv, ProfileWorkKeepsIInv,
       HandleErasedKeepsIInv, ContextErasesKeepsIInv DEF Next
  <2>. QED  BY <2>1, <2>2
<1>. QED  BY <1>1, <1>2, PTL DEF Spec

-----------------------------------------------------------------------------
(***************************************************************************)
(* What follows.                                                           *)
(***************************************************************************)

\* Every variable keeps its type, an account without a profile has neither
\* contents nor settings, and an erased one has no profile unless its creation
\* raced the erasure.
THEOREM ProfilesCorrect == Spec => []ProfilesOK
<1>1. IInv => ProfilesOK
  BY DEF IInv, ProfileIInv, ProfilesOK
<1>. QED  BY <1>1, InvariantHolds, PTL

\* A setting its owner was told is saved stays, however updates, redelivered
\* verifications and erasures overlap: the version is compared where it is
\* raised.  For accounts not created again after their erasure.
THEOREM SettingsAreKept == Spec => []SettingsKept
<1>1. IInv => SettingsKept
  BY DEF IInv, ProfileIInv
<1>. QED  BY <1>1, InvariantHolds, PTL

\* As long as identity waits for a context's confirmation, the event or the
\* confirmation is still under way; and no context confirms what it has not
\* erased.  With acknowledgements lost and messages handled again, in any order.
THEOREM ErasuresAreFollowed == Spec => []ErasureNotForgotten
<1>1. IInv => ErasureNotForgotten
  <2>. SUFFICES ASSUME IInv PROVE ErasureNotForgotten
    OBVIOUS
  <2>1. ASSUME NEW a \in Incomplete, NEW c \in Contexts
        PROVE  \/ <<c, a>> \in confirmed
               \/ a \notin Done(c) /\ Erased(c, a) \in owed
               \/ a \in Done(c) /\ Confirmation(c, a) \in owed
    BY DEF IInv, Followed, Settled, Incomplete
  <2>2. ASSUME NEW c \in Contexts, NEW a \in Accounts, <<c, a>> \in confirmed
        PROVE  status[a] = "erased" /\ a \in Done(c)
    BY <2>2 DEF IInv, Followed
  <2>. QED  BY <2>1, <2>2 DEF ErasureNotForgotten
<1>. QED  BY <1>1, InvariantHolds, PTL
=============================================================================
