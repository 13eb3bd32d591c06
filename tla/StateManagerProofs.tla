------------------------- MODULE StateManagerProofs -------------------------
(***************************************************************************)
(* Theorems about the state manager, for every set of addresses, keys,     *)
(* words and account records.                                              *)
(***************************************************************************)
EXTENDS StateManager, TLAPS

----------------------------------------------------------------------------
(* Keys.                                                                   *)

\* The two ways the code spells an account's key agree, and both kinds of key
\* are keys of the world state.
LEMMA KeyForms ==
  ASSUME NEW a \in Address
  PROVE  /\ acctKey(a) = EncodeToString(a)
         /\ EncodeToString(a) = <<"lower", a, NoKey>>
         /\ EncodeToString(a) \in WorldKey
         /\ \A k \in Key : /\ compKey(a, k) = <<"lower", a, k>>
                           /\ compKey(a, k) \in WorldKey
BY DEF acctKey, EncodeToString, compKey, ToLower, String, WorldKey

LEMMA NoReplyType == NoReply \in Replies /\ NoReply.op = "none"
<1>1. (CHOOSE a \in Address : TRUE) \in Address
  BY ConstantsAssumption
<1>2. EncodeToString(CHOOSE a \in Address : TRUE) \in WorldKey
  BY <1>1, KeyForms
<1> QED
  BY <1>2 DEF NoReply, Reply, Replies

LEMMA ReplyType ==
  ASSUME NEW op \in {"GetAccount", "GetStorage", "UpdateAccount", "RemoveAccount", "SetStorage"},
         NEW key \in WorldKey, NEW val \in Value \cup {Zero, Absent}, NEW ok \in BOOLEAN
  PROVE  Reply(op, key, val, ok) \in Replies
BY DEF Reply, Replies

----------------------------------------------------------------------------
(* Type correctness.                                                       *)

LEMMA InitTypeOK == Init => TypeOK
BY NoReplyType DEF Init, TypeOK, NoWrites, EmptyCache

LEMMA NextTypeOK == TypeOK /\ [Next]_vars => TypeOK'
<1> SUFFICES ASSUME TypeOK, [Next]_vars PROVE TypeOK'
  OBVIOUS
<1>1. CASE NewStateManager
  BY <1>1, NoReplyType DEF NewStateManager, TypeOK, NoWrites, EmptyCache
<1>2. ASSUME NEW a \in Address, GetAccount(a) PROVE TypeOK'
  <2>1. acctKey(a) \in WorldKey
    BY KeyForms
  <2>2. GetState(acctKey(a)) \in Value \cup {Absent}
    BY <2>1 DEF GetState, TypeOK
  <2>3. ret' \in Replies
    BY <1>2, <2>1, <2>2, ReplyType DEF GetAccount, Failed
  <2> QED
    BY <1>2, <2>1, <2>3 DEF GetAccount, Failed, TypeOK
<1>3. ASSUME NEW a \in Address, NEW k \in Key, GetStorage(a, k) PROVE TypeOK'
  <2>1. compKey(a, k) \in WorldKey
    BY KeyForms
  <2>2. /\ LeftPadWord256(GetState(compKey(a, k))) \in Value \cup {Zero, Absent}
        /\ cache[compKey(a, k)] # Unset => cache[compKey(a, k)] \in Value \cup {Zero, Absent}
    BY <2>1 DEF GetState, LeftPadWord256, TypeOK, Value
  <2>3. ret' \in Replies
    BY <1>3, <2>1, <2>2, ReplyType DEF GetStorage, Failed
  <2> QED
    BY <1>3, <2>1, <2>3 DEF GetStorage, Failed, TypeOK
<1>4. ASSUME NEW a \in Address, NEW acc \in Acct, UpdateAccount(a, acc) PROVE TypeOK'
  <2>1. EncodeToString(a) \in WorldKey /\ acc \in Value
    BY KeyForms DEF Value
  <2>2. ret' \in Replies
    BY <1>4, <2>1, ReplyType DEF UpdateAccount, Failed
  <2> QED
    BY <1>4, <2>1, <2>2 DEF UpdateAccount, PutState, Failed, TypeOK
<1>5. ASSUME NEW a \in Address, RemoveAccount(a) PROVE TypeOK'
  <2>1. acctKey(a) \in WorldKey
    BY KeyForms
  <2>2. ret' \in Replies
    BY <1>5, <2>1, ReplyType DEF RemoveAccount, Failed
  <2> QED
    BY <1>5, <2>1, <2>2 DEF RemoveAccount, DelState, Failed, TypeOK
<1>6. ASSUME NEW a \in Address, NEW k \in Key, NEW v \in Word \cup {Zero}, SetStorage(a, k, v)
      PROVE  TypeOK'
  <2>1. compKey(a, k) \in WorldKey /\ v \in Value \cup {Zero}
    BY KeyForms DEF Value
  <2>2. ret' \in Replies
    BY <1>6, <2>1, ReplyType DEF SetStorage, Failed
  <2> QED
    BY <1>6, <2>1, <2>2 DEF SetStorage, PutState, DelState, Failed, TypeOK
<1>7. CASE Commit
  BY <1>7 DEF Commit, Applied, NoWrites, TypeOK
<1>8. CASE Discard
  BY <1>8 DEF Discard, NoWrites, TypeOK
<1>9. CASE UNCHANGED vars
  BY <1>9 DEF vars, TypeOK
<1> QED
  BY <1>1, <1>2, <1>3, <1>4, <1>5, <1>6, <1>7, <1>8, <1>9 DEF Next

\* The state manager's variables keep their types.
THEOREM TypeCorrect == Spec => []TypeOK
BY InitTypeOK, NextTypeOK, PTL DEF Spec

----------------------------------------------------------------------------
(* The cache.                                                              *)

CacheInv == CacheFromOwnWrites /\ WordsAreCached

\* Words, deletions and misses are told apart.
LEMMA Distinct ==
  /\ Absent \notin Word /\ Unset \notin Word /\ Zero \notin Word
  /\ Absent # Unset /\ Zero # Unset /\ Zero # Absent
BY ConstantsAssumption

LEMMA NextCacheInv == TypeOK /\ CacheInv /\ [Next]_vars => CacheInv'
<1> SUFFICES ASSUME TypeOK, CacheInv, [Next]_vars PROVE CacheInv'
  OBVIOUS
<1> USE DEF CacheInv, CacheFromOwnWrites, WordsAreCached
<1>1. CASE NewStateManager
  BY <1>1, Distinct DEF NewStateManager, EmptyCache, NoWrites
<1>2. ASSUME NEW a \in Address, GetAccount(a) PROVE CacheInv'
  BY <1>2 DEF GetAccount, Failed
<1>3. ASSUME NEW a \in Address, NEW k \in Key, GetStorage(a, k) PROVE CacheInv'
  BY <1>3 DEF GetStorage, Failed
<1>4. ASSUME NEW a \in Address, NEW acc \in Acct, UpdateAccount(a, acc) PROVE CacheInv'
  <2>1. EncodeToString(a) \in WorldKey /\ EncodeToString(a)[3] = NoKey
    BY KeyForms
  <2> QED
    BY <1>4, <2>1 DEF UpdateAccount, PutState, Failed, TypeOK
<1>5. ASSUME NEW a \in Address, RemoveAccount(a) PROVE CacheInv'
  <2>1. acctKey(a) \in WorldKey /\ acctKey(a)[3] = NoKey
    BY KeyForms
  <2> QED
    BY <1>5, <2>1 DEF RemoveAccount, DelState, Failed, TypeOK
<1>6. ASSUME NEW a \in Address, NEW k \in Key, NEW v \in Word \cup {Zero}, SetStorage(a, k, v)
      PROVE  CacheInv'
  <2> DEFINE key == compKey(a, k)
  <2>1. key \in WorldKey /\ key[3] # NoKey
    BY KeyForms, ConstantsAssumption
  <2> HIDE DEF key
  <2>2. CASE v = Zero /\ writes' = [writes EXCEPT ![key] = Absent] /\ UNCHANGED <<open, cache>>
    BY <2>1, <2>2, Distinct DEF TypeOK
  <2>3. CASE v # Zero /\ writes' = [writes EXCEPT ![key] = v]
             /\ cache' = [cache EXCEPT ![key] = v] /\ UNCHANGED open
    BY <2>1, <2>3, Distinct DEF TypeOK
  <2>4. CASE UNCHANGED <<open, writes, cache>>
    BY <2>4
  <2> QED
    BY <1>6, <2>2, <2>3, <2>4 DEF SetStorage, PutState, DelState, Failed, key
<1>7. CASE Commit
  BY <1>7 DEF Commit
<1>8. CASE Discard
  BY <1>8 DEF Discard
<1>9. CASE UNCHANGED vars
  BY <1>9 DEF vars
<1> QED
  BY <1>1, <1>2, <1>3, <1>4, <1>5, <1>6, <1>7, <1>8, <1>9 DEF Next

\* The cache of an open transaction never serves a word that the transaction
\* did not write itself, and serves each nonzero word it did write.
THEOREM CacheSound == Spec => []CacheFromOwnWrites /\ []WordsAreCached
<1>1. Init => CacheInv
  BY DEF Init, CacheInv, CacheFromOwnWrites, WordsAreCached
<1>2. CacheInv => CacheFromOwnWrites /\ WordsAreCached
  BY DEF CacheInv
<1> QED
  BY <1>1, <1>2, NextCacheInv, TypeCorrect, PTL DEF Spec

\* In particular a word that SetStorage has put is served from the cache for
\* the rest of the transaction: the ledger, which lacks it, is not asked.
THEOREM WordsCached == Spec => []WordsAreCached
BY CacheSound, PTL

----------------------------------------------------------------------------
(* Reads.                                                                  *)

LEMMA NextReadsExplained ==
  TypeOK /\ CacheInv /\ ReadsExplained /\ [Next]_vars => ReadsExplained'
<1> SUFFICES ASSUME TypeOK, CacheInv, ReadsExplained, [Next]_vars PROVE ReadsExplained'
  OBVIOUS
<1>1. CASE NewStateManager
  BY <1>1, NoReplyType DEF NewStateManager, ReadsExplained
<1>2. ASSUME NEW a \in Address, GetAccount(a) PROVE ReadsExplained'
  BY <1>2 DEF GetAccount, GetState, Reply, Failed, ReadsExplained
<1>3. ASSUME NEW a \in Address, NEW k \in Key, GetStorage(a, k) PROVE ReadsExplained'
  <2> DEFINE key == compKey(a, k)
  <2>1. key \in WorldKey /\ key[3] # NoKey
    BY KeyForms, ConstantsAssumption
  <2> HIDE DEF key
  <2>2. CASE cache[key] # Unset /\ ret' = Reply("GetStorage", key, cache[key], TRUE)
             /\ UNCHANGED <<ledger, open, reads, writes, cache>>
    BY <1>3, <2>1, <2>2, Distinct
       DEF GetStorage, CacheInv, CacheFromOwnWrites, WordsAreCached, Reply, ReadsExplained
  <2>3. CASE cache[key] = Unset /\ reads' = reads \cup {key}
             /\ ret' = Reply("GetStorage", key, LeftPadWord256(GetState(key)), TRUE)
             /\ UNCHANGED <<ledger, open, writes, cache>>
    BY <1>3, <2>1, <2>3, Distinct
       DEF GetStorage, CacheInv, WordsAreCached, GetState, Reply, ReadsExplained
  <2>4. CASE Failed("GetStorage", key, Zero)
    BY <2>4 DEF Failed, Reply, ReadsExplained
  <2> QED
    BY <1>3, <2>2, <2>3, <2>4 DEF GetStorage, key
<1>4. ASSUME NEW a \in Address, NEW acc \in Acct, UpdateAccount(a, acc) PROVE ReadsExplained'
  BY <1>4 DEF UpdateAccount, Reply, Failed, ReadsExplained
<1>5. ASSUME NEW a \in Address, RemoveAccount(a) PROVE ReadsExplained'
  BY <1>5 DEF RemoveAccount, Reply, Failed, ReadsExplained
<1>6. ASSUME NEW a \in Address, NEW k \in Key, NEW v \in Word \cup {Zero}, SetStorage(a, k, v)
      PROVE  ReadsExplained'
  BY <1>6 DEF SetStorage, Reply, Failed, ReadsExplained
<1>7. CASE Commit
  BY <1>7 DEF Commit, ReadsExplained
<1>8. CASE Discard
  BY <1>8 DEF Discard, ReadsExplained
<1>9. CASE UNCHANGED vars
  BY <1>9 DEF vars, ReadsExplained, LeftPadWord256
<1> QED
  BY <1>1, <1>2, <1>3, <1>4, <1>5, <1>6, <1>7, <1>8, <1>9 DEF Next

\* Every successful read of the state manager is the transaction's own nonzero
\* write, or a committed value whose key validation will check, unless the
\* transaction has deleted the key (or rewritten the account) itself.
THEOREM ReadsSound == Spec => []ReadsExplained
<1>1. Init => CacheInv /\ ReadsExplained
  BY DEF Init, CacheInv, CacheFromOwnWrites, WordsAreCached, ReadsExplained
<1> QED
  BY <1>1, NextCacheInv, NextReadsExplained, TypeCorrect, PTL DEF Spec

----------------------------------------------------------------------------
(* Canonical form.                                                         *)

\* The write set is canonical in the same sense: what Commit needs so that
\* the ledger stays so.
WritesCanonical ==
  \A key \in WorldKey : writes[key] \notin {Absent, Unset} =>
    /\ key[1] = "lower"
    /\ writes[key] \in (IF key[3] = NoKey THEN Acct ELSE Word)

CanonicalInv == Canonical /\ WritesCanonical

LEMMA NextCanonical == TypeOK /\ CanonicalInv /\ [Next]_vars => CanonicalInv'
<1> SUFFICES ASSUME TypeOK, CanonicalInv, [Next]_vars PROVE CanonicalInv'
  OBVIOUS
<1> USE DEF CanonicalInv, Canonical, WritesCanonical
<1>1. CASE NewStateManager
  BY <1>1 DEF NewStateManager, NoWrites
<1>2. ASSUME NEW a \in Address, GetAccount(a) PROVE CanonicalInv'
  BY <1>2 DEF GetAccount, Failed
<1>3. ASSUME NEW a \in Address, NEW k \in Key, GetStorage(a, k) PROVE CanonicalInv'
  BY <1>3 DEF GetStorage, Failed
<1>4. ASSUME NEW a \in Address, NEW acc \in Acct, UpdateAccount(a, acc) PROVE CanonicalInv'
  <2> DEFINE key == EncodeToString(a)
  <2>1. key \in WorldKey /\ key[1] = "lower" /\ key[3] = NoKey
    BY KeyForms
  <2> HIDE DEF key
  <2>2. CASE writes' = [writes EXCEPT ![key] = acc] /\ UNCHANGED ledger
    BY <2>1, <2>2 DEF TypeOK
  <2>3. CASE UNCHANGED <<ledger, writes>>
    BY <2>3
  <2> QED
    BY <1>4, <2>2, <2>3 DEF UpdateAccount, PutState, Failed, key
<1>5. ASSUME NEW a \in Address, RemoveAccount(a) PROVE CanonicalInv'
  <2>1. acctKey(a) \in WorldKey
    BY KeyForms
  <2> QED
    BY <1>5, <2>1 DEF RemoveAccount, DelState, Failed, TypeOK
<1>6. ASSUME NEW a \in Address, NEW k \in Key, NEW v \in Word \cup {Zero}, SetStorage(a, k, v)
      PROVE  CanonicalInv'
  <2> DEFINE key == compKey(a, k)
  <2>1. key \in WorldKey /\ key[1] = "lower" /\ key[3] # NoKey
    BY KeyForms, ConstantsAssumption
  <2> HIDE DEF key
  <2>2. CASE writes' = [writes EXCEPT ![key] = Absent] /\ UNCHANGED ledger
    BY <2>1, <2>2 DEF TypeOK
  <2>3. CASE v # Zero /\ writes' = [writes EXCEPT ![key] = v] /\ UNCHANGED ledger
    BY <2>1, <2>3 DEF TypeOK
  <2>4. CASE UNCHANGED <<ledger, writes>>
    BY <2>4
  <2> QED
    BY <1>6, <2>2, <2>3, <2>4 DEF SetStorage, PutState, DelState, Failed, key
<1>7. CASE Commit
  BY <1>7 DEF Commit, Applied, NoWrites
<1>8. CASE Discard
  BY <1>8 DEF Discard, NoWrites
<1>9. CASE UNCHANGED vars
  BY <1>9 DEF vars
<1> QED
  BY <1>1, <1>2, <1>3, <1>4, <1>5, <1>6, <1>7, <1>8, <1>9 DEF Next

\* Committed state has one spelling of every key and never a stored zero.
THEOREM LedgerCanonical == Spec => []Canonical
<1>1. Init => CanonicalInv
  BY DEF Init, CanonicalInv, Canonical, WritesCanonical, NoWrites
<1>2. CanonicalInv => Canonical
  BY DEF CanonicalInv
<1> QED
  BY <1>1, <1>2, NextCanonical, TypeCorrect, PTL DEF Spec

----------------------------------------------------------------------------
(* The state manager implements the abstract store.                        *)

\* A write to one key changes the prospective state under that key only.
LEMMA AppliedUpdate ==
  ASSUME TypeOK, NEW key \in WorldKey, NEW val, val # Unset,
         writes' = [writes EXCEPT ![key] = val], ledger' = ledger
  PROVE  Applied(writes)' = [Applied(writes) EXCEPT ![key] = val]
BY DEF Applied, TypeOK

\* A write under a slot's key changes that slot and nothing else.
LEMMA SlotUpdate ==
  ASSUME TypeOK, NEW a \in Address, NEW k \in Key, NEW val, val # Unset,
         writes' = [writes EXCEPT ![compKey(a, k)] = val], ledger' = ledger
  PROVE  /\ AcctsOf(Applied(writes))' = AcctsOf(Applied(writes))
         /\ SlotsOf(Applied(writes))' =
              [SlotsOf(Applied(writes)) EXCEPT ![a] = [@ EXCEPT ![k] = LeftPadWord256(val)]]
<1> DEFINE w == Applied(writes)
<1>0. w' = [w EXCEPT ![compKey(a, k)] = val] /\ DOMAIN w = WorldKey
  BY KeyForms, AppliedUpdate DEF Applied
<1> HIDE DEF w
<1>1. \A b \in Address : w'[EncodeToString(b)] = w[EncodeToString(b)]
  BY <1>0, KeyForms, ConstantsAssumption
<1>2. \A b \in Address, j \in Key :
        w'[<<"lower", b, j>>] = IF b = a /\ j = k THEN val ELSE w[<<"lower", b, j>>]
  BY <1>0, KeyForms
<1>3. AcctsOf(w)' = AcctsOf(w)
  BY ONLY <1>1 DEF AcctsOf, EncodeToString
<1>4. SlotsOf(w)' = [SlotsOf(w) EXCEPT ![a] = [@ EXCEPT ![k] = LeftPadWord256(val)]]
  <2>1. \A b \in Address, j \in Key :
          LeftPadWord256(w[<<"lower", b, j>>])' =
            IF b = a /\ j = k THEN LeftPadWord256(val) ELSE LeftPadWord256(w[<<"lower", b, j>>])
    BY ONLY <1>2 DEF LeftPadWord256
  <2> DEFINE new(b, j) == LeftPadWord256(w[<<"lower", b, j>>])'
             old(b, j) == LeftPadWord256(w[<<"lower", b, j>>])
  <2>2. /\ SlotsOf(w)' = [b \in Address |-> [j \in Key |-> new(b, j)]]
        /\ SlotsOf(w) = [b \in Address |-> [j \in Key |-> old(b, j)]]
    BY DEF SlotsOf
  <2>3. \A b \in Address, j \in Key :
          new(b, j) = IF b = a /\ j = k THEN LeftPadWord256(val) ELSE old(b, j)
    BY <2>1
  <2> HIDE DEF new, old
  <2> DEFINE newRow(b) == [j \in Key |-> new(b, j)]
             oldRow(b) == [j \in Key |-> old(b, j)]
  <2>4. \A b \in Address : b # a => newRow(b) = oldRow(b)
    BY ONLY <2>3
  <2>5. newRow(a) = [oldRow(a) EXCEPT ![k] = LeftPadWord256(val)]
    BY ONLY <2>3, a \in Address, k \in Key
  <2>6. /\ SlotsOf(w)' = [b \in Address |-> newRow(b)]
        /\ SlotsOf(w) = [b \in Address |-> oldRow(b)]
    BY ONLY <2>2
  <2> HIDE DEF newRow, oldRow
  <2> QED
    BY ONLY <2>4, <2>5, <2>6, a \in Address
<1> QED
  BY <1>3, <1>4 DEF w

\* A write under an account's key changes that account's record and nothing else.
LEMMA AcctUpdate ==
  ASSUME TypeOK, NEW a \in Address, NEW val, val # Unset,
         writes' = [writes EXCEPT ![EncodeToString(a)] = val], ledger' = ledger
  PROVE  /\ AcctsOf(Applied(writes))' = [AcctsOf(Applied(writes)) EXCEPT ![a] = val]
         /\ SlotsOf(Applied(writes))' = SlotsOf(Applied(writes))
<1> DEFINE w == Applied(writes)
<1>0. w' = [w EXCEPT ![EncodeToString(a)] = val] /\ DOMAIN w = WorldKey
  BY KeyForms, AppliedUpdate DEF Applied
<1> HIDE DEF w
<1>1. \A b \in Address : w'[EncodeToString(b)] = IF b = a THEN val ELSE w[EncodeToString(b)]
  BY <1>0, KeyForms
<1>2. \A b \in Address, j \in Key : w'[<<"lower", b, j>>] = w[<<"lower", b, j>>]
  BY <1>0, KeyForms, ConstantsAssumption
<1>3. AcctsOf(w)' = [AcctsOf(w) EXCEPT ![a] = val]
  BY ONLY <1>1, a \in Address DEF AcctsOf, EncodeToString
<1>4. SlotsOf(w)' = SlotsOf(w)
  BY ONLY <1>2 DEF SlotsOf, LeftPadWord256
<1> QED
  BY <1>3, <1>4 DEF w

\* Between transactions nothing is pending.
ClosedInv == ~open => writes = NoWrites

LEMMA NextClosed == ClosedInv /\ [Next]_vars => ClosedInv'
BY DEF ClosedInv, Next, vars, NewStateManager, GetAccount, GetStorage, UpdateAccount,
       RemoveAccount, SetStorage, Commit, Discard, Failed, PutState, DelState

\* What an outside observer of the store sees of one call.
LEMMA AckRead ==
  ASSUME NEW op \in {"none", "GetAccount", "GetStorage"}, NEW key, NEW val, NEW ok,
         ret' = Reply(op, key, val, ok)
  PROVE  Acknowledged' = Store!NoUpdate
BY DEF Acknowledged, Store!NoUpdate, Reply

LEMMA AckFailed ==
  ASSUME NEW op, NEW key, NEW val, ret' = Reply(op, key, val, FALSE)
  PROVE  Acknowledged' = Store!NoUpdate
BY DEF Acknowledged, Store!NoUpdate, Reply

LEMMA AckUpdate ==
  ASSUME NEW op \in {"UpdateAccount", "RemoveAccount", "SetStorage"},
         NEW a, NEW k, NEW val, ret' = Reply(op, <<"lower", a, k>>, val, TRUE)
  PROVE  Acknowledged' = Store!Update(a, k, val)
BY DEF Acknowledged, Store!Update, Reply

\* A call that reads, or that the stub refuses, does not change the store.
LEMMA OtherStep ==
  ASSUME UNCHANGED <<ledger, writes>>, Acknowledged' = Store!NoUpdate
  PROVE  Store!Next
<1>1. Applied(writes)' = Applied(writes)
  BY DEF Applied
<1> QED
  BY <1>1 DEF Store!Next, Store!Other, AcctsOf, SlotsOf, LeftPadWord256

LEMMA RefinementStep == TypeOK /\ ClosedInv /\ [Next]_vars => [Store!Next]_(Store!vars)
<1> SUFFICES ASSUME TypeOK, ClosedInv, [Next]_vars PROVE Store!Next \/ UNCHANGED Store!vars
  OBVIOUS
<1> DEFINE view == Applied(writes)
<1>0. DOMAIN view = WorldKey /\ DOMAIN ledger = WorldKey
  BY DEF Applied, TypeOK
<1>1. CASE NewStateManager
  <2>1. UNCHANGED <<ledger, writes>> /\ ret' = NoReply
    BY <1>1 DEF NewStateManager, ClosedInv
  <2>2. Acknowledged' = Store!NoUpdate
    BY <2>1, NoReplyType DEF Acknowledged, Store!NoUpdate
  <2> QED
    BY <2>1, <2>2, OtherStep
<1>2. ASSUME NEW a \in Address, GetAccount(a) PROVE Store!Next
  BY <1>2, AckRead, OtherStep DEF GetAccount, Failed
<1>3. ASSUME NEW a \in Address, NEW k \in Key, GetStorage(a, k) PROVE Store!Next
  BY <1>3, AckRead, OtherStep DEF GetStorage, Failed
<1>4. ASSUME NEW a \in Address, NEW acc \in Acct, UpdateAccount(a, acc) PROVE Store!Next
  <2>1. CASE /\ PutState(EncodeToString(a), acc)
             /\ ret' = Reply("UpdateAccount", EncodeToString(a), acc, TRUE)
             /\ UNCHANGED ledger
    <3>1. /\ AcctsOf(view)' = [AcctsOf(view) EXCEPT ![a] = acc]
          /\ SlotsOf(view)' = SlotsOf(view)
      BY <2>1, AcctUpdate, ConstantsAssumption DEF PutState, DelState
    <3>2. Acknowledged' = Store!Update(a, NoKey, acc)
      BY <2>1, KeyForms, AckUpdate
    <3>3. Store!SetAcct(a, acc)
      BY <3>1, <3>2, <2>1 DEF Store!SetAcct, AcctsOf, SlotsOf, LeftPadWord256
    <3> QED
      BY <3>3 DEF Store!Next
  <2>2. CASE Failed("UpdateAccount", EncodeToString(a), acc)
    BY <2>2, AckFailed, OtherStep DEF Failed
  <2> QED
    BY <1>4, <2>1, <2>2 DEF UpdateAccount
<1>5. ASSUME NEW a \in Address, RemoveAccount(a) PROVE Store!Next
  <2>0. acctKey(a) = EncodeToString(a)
    BY KeyForms
  <2>1. CASE /\ DelState(EncodeToString(a))
             /\ ret' = Reply("RemoveAccount", EncodeToString(a), Absent, TRUE)
             /\ UNCHANGED ledger
    <3>1. /\ AcctsOf(view)' = [AcctsOf(view) EXCEPT ![a] = Absent]
          /\ SlotsOf(view)' = SlotsOf(view)
      BY <2>1, AcctUpdate, ConstantsAssumption DEF PutState, DelState
    <3>2. Acknowledged' = Store!Update(a, NoKey, Absent)
      BY <2>1, KeyForms, AckUpdate
    <3>3. Store!SetAcct(a, Absent)
      BY <3>1, <3>2, <2>1 DEF Store!SetAcct, AcctsOf, SlotsOf, LeftPadWord256
    <3> QED
      BY <3>3 DEF Store!Next
  <2>2. CASE Failed("RemoveAccount", acctKey(a), Absent)
    BY <2>2, AckFailed, OtherStep DEF Failed
  <2> QED
    BY <1>5, <2>0, <2>1, <2>2 DEF RemoveAccount
<1>6. ASSUME NEW a \in Address, NEW k \in Key, NEW v \in Word \cup {Zero}, SetStorage(a, k, v)
      PROVE  Store!Next
  <2> DEFINE val == IF v = Zero THEN Absent ELSE v
  <2>0. val # Unset /\ LeftPadWord256(val) = v
    BY ConstantsAssumption DEF LeftPadWord256
  <2>1. CASE /\ writes' = [writes EXCEPT ![compKey(a, k)] = val]
             /\ ret' = Reply("SetStorage", compKey(a, k), v, TRUE)
             /\ UNCHANGED ledger
    <3> HIDE DEF val
    <3>1. /\ AcctsOf(view)' = AcctsOf(view)
          /\ SlotsOf(view)' = [SlotsOf(view) EXCEPT ![a] = [@ EXCEPT ![k] = v]]
      <4>1. /\ AcctsOf(view)' = AcctsOf(view)
            /\ SlotsOf(view)' =
                 [SlotsOf(view) EXCEPT ![a] = [@ EXCEPT ![k] = LeftPadWord256(val)]]
        BY <2>0, <2>1, SlotUpdate
      <4> QED
        BY <4>1, <2>0
    <3>2. Acknowledged' = Store!Update(a, k, v)
      BY <2>1, KeyForms, AckUpdate
    <3>3. Store!SetSlot(a, k, v)
      BY <3>1, <3>2, <2>1 DEF Store!SetSlot, AcctsOf, SlotsOf, LeftPadWord256
    <3> QED
      BY <3>3 DEF Store!Next
  <2>2. CASE Failed("SetStorage", compKey(a, k), v)
    BY <2>2, AckFailed, OtherStep DEF Failed
  <2> QED
    BY <1>6, <2>1, <2>2 DEF SetStorage, PutState, DelState
<1>7. CASE Commit
  <2>1. ledger' = view /\ view' = view
    BY <1>7, <1>0 DEF Commit, Applied, NoWrites
  <2>2. Acknowledged' = Acknowledged
    BY <1>7 DEF Commit, Acknowledged
  <2>3. Store!Commit
    BY <2>1, <2>2 DEF Store!Commit, AcctsOf, SlotsOf, LeftPadWord256
  <2> QED
    BY <2>3 DEF Store!Next
<1>8. CASE Discard
  <2>1. ledger' = ledger /\ view' = ledger
    BY <1>8, <1>0 DEF Discard, Applied, NoWrites, TypeOK
  <2>2. Acknowledged' = Acknowledged
    BY <1>8 DEF Discard, Acknowledged
  <2>3. Store!Discard
    BY <2>1, <2>2 DEF Store!Discard, AcctsOf, SlotsOf, LeftPadWord256
  <2> QED
    BY <2>3 DEF Store!Next
<1>9. CASE UNCHANGED vars
  BY <1>9 DEF vars, Store!vars, Applied, AcctsOf, SlotsOf, LeftPadWord256, Acknowledged
<1> QED
  BY <1>1, <1>2, <1>3, <1>4, <1>5, <1>6, <1>7, <1>8, <1>9 DEF Next

\* The state manager, over any addresses, keys, words and account records,
\* implements the transactional store of accounts and slots.
THEOREM Refinement == Spec => ImplementsContractStore
<1>1. Init => Store!Init
  <2> SUFFICES ASSUME Init PROVE Store!Init
    OBVIOUS
  <2>1. Applied(writes) = ledger
    BY DEF Init, Applied, NoWrites
  <2>2. Acknowledged = Store!NoUpdate
    BY NoReplyType DEF Init, Acknowledged, Store!NoUpdate
  <2>3. AcctsOf(ledger) = [a \in Address |-> Absent]
    BY KeyForms DEF Init, AcctsOf
  <2>4. SlotsOf(ledger) = [a \in Address |-> [k \in Key |-> Zero]]
    BY DEF Init, SlotsOf, LeftPadWord256, WorldKey
  <2> QED
    BY <2>1, <2>2, <2>3, <2>4 DEF Store!Init
<1>2. Init => ClosedInv
  BY DEF Init, ClosedInv
<1> QED
  BY <1>1, <1>2, NextClosed, RefinementStep, TypeCorrect, PTL
     DEF Spec, ImplementsContractStore, Store!Spec
=============================================================================
