---------------------------- MODULE StateManager ----------------------------
(***************************************************************************)
(* evmcc/statemanager: the bridge between the EVM's accounts and words and *)
(* the key-value pairs of a Fabric transaction simulation.  The shim stub  *)
(* is external: GetState reads the committed ledger (never the             *)
(* transaction's own write set) and records the key in the read set;       *)
(* PutState and DelState fill the write set, the last write to a key wins. *)
(*                                                                         *)
(* A world-state key is <<case, address, k>>: the hexadecimal digits of an *)
(* address, in the case they were printed in, followed by the digits of a  *)
(* storage key, or by nothing (NoKey) for the account record itself.       *)
(***************************************************************************)
CONSTANTS
  Address,  \* account addresses
  Key,      \* storage keys of a contract
  Word,     \* the nonzero 256-bit words
  Zero,     \* binary.Zero256
  Acct,     \* encoded account records
  NoKey,    \* the empty suffix of an account's world-state key
  Absent,   \* no value under a key: nil bytes from GetState, a deletion in a write set
  Unset     \* no entry: a key the transaction did not write, a cache miss

ASSUME ConstantsAssumption ==
  /\ Address # {}
  /\ Zero \notin Word
  /\ Absent \notin Word \cup {Zero} \cup Acct
  /\ Unset \notin Word \cup {Zero, Absent} \cup Acct
  /\ NoKey \notin Key

VARIABLES
  ledger,   \* committed world state
  open,     \* a transaction is being simulated
  reads,    \* its read set: the keys whose committed version it depends on
  writes,   \* its write set
  cache,    \* stateManager.cache
  ret       \* outcome of the last call: [op, key, val, ok]

vars == <<ledger, open, reads, writes, cache, ret>>

----------------------------------------------------------------------------
(* Keys and values.                                                        *)

WorldKey == {"lower", "upper"} \X Address \X (Key \cup {NoKey})
Value == Word \cup Acct  \* what the ledger stores

\* crypto.Address.String prints upper-case digits, hex.EncodeToString lower-case ones.
String(a) == <<"upper", a, NoKey>>
ToLower(s) == <<"lower", s[2], s[3]>>
EncodeToString(a) == <<"lower", a, NoKey>>

acctKey(a) == ToLower(String(a))
compKey(a, k) == <<ToLower(String(a))[1], a, k>>

\* binary.LeftPadWord256: the nil bytes of an absent key pad to the zero word.
LeftPadWord256(val) == IF val = Absent THEN Zero ELSE val

----------------------------------------------------------------------------
(* The stub.                                                               *)

GetState(key) == ledger[key]

PutState(key, val) == writes' = [writes EXCEPT ![key] = val]
DelState(key) == writes' = [writes EXCEPT ![key] = Absent]

NoWrites == [key \in WorldKey |-> Unset]
EmptyCache == [key \in WorldKey |-> Unset]

\* What the ledger holds under a key once write set w is applied to it.
Applied(w) == [key \in WorldKey |-> IF w[key] = Unset THEN ledger[key] ELSE w[key]]

Reply(op, key, val, ok) == [op |-> op, key |-> key, val |-> val, ok |-> ok]
NoReply == Reply("none", EncodeToString(CHOOSE a \in Address : TRUE), Absent, TRUE)

\* A stub call that fails changes nothing; the method hands the error on.
Failed(op, key, val) ==
  /\ ret' = Reply(op, key, val, FALSE)
  /\ UNCHANGED <<ledger, open, reads, writes, cache>>

----------------------------------------------------------------------------
(* Faulty variants of the methods, used to show that the properties below  *)
(* can fail: each is a mistake that would be easy to make in the code.     *)

\* One stateManager shared by successive invocations.
NewStateManagerShared ==
  /\ ~open
  /\ open' = TRUE
  /\ UNCHANGED <<ledger, reads, writes, cache, ret>>

\* A read that bypasses the read set.
GetStorageUnrecorded(a, k) ==
  /\ open
  /\ ret' = Reply("GetStorage", compKey(a, k), LeftPadWord256(GetState(compKey(a, k))), TRUE)
  /\ UNCHANGED <<ledger, open, reads, writes, cache>>

\* The account record written under the address as String prints it.
UpdateAccountUpper(a, acc) ==
  /\ open
  /\ PutState(String(a), acc)
  /\ ret' = Reply("UpdateAccount", String(a), acc, TRUE)
  /\ UNCHANGED <<ledger, open, reads, cache>>

\* Zero put like any other word.
SetStorageKeepsZero(a, k, v) ==
  /\ open
  /\ PutState(compKey(a, k), v)
  /\ cache' = [cache EXCEPT ![compKey(a, k)] = IF v = Zero THEN @ ELSE v]
  /\ ret' = Reply("SetStorage", compKey(a, k), v, TRUE)
  /\ UNCHANGED <<ledger, open, reads>>

\* The cache filled only on the first write to a key.
SetStorageCachesOnce(a, k, v) ==
  /\ open
  /\ IF v = Zero THEN DelState(compKey(a, k)) ELSE PutState(compKey(a, k), v)
  /\ cache' = [cache EXCEPT ![compKey(a, k)] = IF @ = Unset /\ v # Zero THEN v ELSE @]
  /\ ret' = Reply("SetStorage", compKey(a, k), v, TRUE)
  /\ UNCHANGED <<ledger, open, reads>>

----------------------------------------------------------------------------
(* The methods.                                                            *)

Init ==
  /\ ledger = [key \in WorldKey |-> Absent]
  /\ open = FALSE
  /\ reads = {}
  /\ writes = NoWrites
  /\ cache = EmptyCache
  /\ ret = NoReply

\* One stateManager, with an empty cache, per Invoke.
NewStateManager ==
  /\ ~open
  /\ open' = TRUE
  /\ reads' = {}
  /\ writes' = NoWrites
  /\ cache' = EmptyCache
  /\ ret' = NoReply
  /\ UNCHANGED ledger

GetAccount(a) ==
  LET key == acctKey(a) IN
  /\ open
  /\ \/ /\ reads' = reads \cup {key}
        /\ ret' = Reply("GetAccount", key, GetState(key), TRUE)
        /\ UNCHANGED <<ledger, open, writes, cache>>
     \/ Failed("GetAccount", key, Absent)

GetStorage(a, k) ==
  LET key == compKey(a, k) IN
  /\ open
  /\ \/ /\ cache[key] # Unset
        /\ ret' = Reply("GetStorage", key, cache[key], TRUE)
        /\ UNCHANGED <<ledger, open, reads, writes, cache>>
     \/ /\ cache[key] = Unset
        /\ reads' = reads \cup {key}
        /\ ret' = Reply("GetStorage", key, LeftPadWord256(GetState(key)), TRUE)
        /\ UNCHANGED <<ledger, open, writes, cache>>
     \/ /\ cache[key] = Unset
        /\ Failed("GetStorage", key, Zero)

UpdateAccount(a, acc) ==
  LET key == EncodeToString(a) IN
  /\ open
  /\ \/ /\ PutState(key, acc)
        /\ ret' = Reply("UpdateAccount", key, acc, TRUE)
        /\ UNCHANGED <<ledger, open, reads, cache>>
     \/ Failed("UpdateAccount", key, acc)

RemoveAccount(a) ==
  LET key == acctKey(a) IN
  /\ open
  /\ \/ /\ DelState(key)
        /\ ret' = Reply("RemoveAccount", key, Absent, TRUE)
        /\ UNCHANGED <<ledger, open, reads, cache>>
     \/ Failed("RemoveAccount", key, Absent)

\* A zero deletes the key and returns before the cache is touched.
SetStorage(a, k, v) ==
  LET key == compKey(a, k) IN
  /\ open
  /\ \/ /\ v = Zero
        /\ DelState(key)
        /\ ret' = Reply("SetStorage", key, v, TRUE)
        /\ UNCHANGED <<ledger, open, reads, cache>>
     \/ /\ v # Zero
        /\ PutState(key, v)
        /\ cache' = [cache EXCEPT ![key] = v]
        /\ ret' = Reply("SetStorage", key, v, TRUE)
        /\ UNCHANGED <<ledger, open, reads>>
     \/ Failed("SetStorage", key, v)

\* Fabric commits the write set of a valid transaction as a whole ...
Commit ==
  /\ open
  /\ ledger' = Applied(writes)
  /\ open' = FALSE
  /\ reads' = {}
  /\ writes' = NoWrites
  /\ UNCHANGED <<cache, ret>>

\* ... and drops that of one that failed, was never ordered or was invalidated.
Discard ==
  /\ open
  /\ open' = FALSE
  /\ reads' = {}
  /\ writes' = NoWrites
  /\ UNCHANGED <<ledger, cache, ret>>

Next ==
  \/ NewStateManager
  \/ \E a \in Address : GetAccount(a)
  \/ \E a \in Address, k \in Key : GetStorage(a, k)
  \/ \E a \in Address, acc \in Acct : UpdateAccount(a, acc)
  \/ \E a \in Address : RemoveAccount(a)
  \/ \E a \in Address, k \in Key, v \in Word \cup {Zero} : SetStorage(a, k, v)
  \/ Commit
  \/ Discard

Spec == Init /\ [][Next]_vars

----------------------------------------------------------------------------
(* Properties.                                                             *)

Replies ==
  [op : {"none", "GetAccount", "GetStorage", "UpdateAccount", "RemoveAccount", "SetStorage"},
   key : WorldKey, val : Value \cup {Zero, Absent}, ok : BOOLEAN]

\* Types of the ledger, the simulation and stateManager's cache.  Zero is a word
\* of the EVM, of arguments and replies, and never one of the world state, a
\* write set or the cache: SetStorage deletes instead.
TypeOK ==
  /\ ledger \in [WorldKey -> Value \cup {Absent}]
  /\ open \in BOOLEAN
  /\ reads \subseteq WorldKey
  /\ writes \in [WorldKey -> Value \cup {Absent, Unset}]
  /\ cache \in [WorldKey -> Word \cup {Unset}]
  /\ ret \in Replies

\* The cache of an open transaction holds only storage words this very transaction has
\* put under the key (nothing survives from an earlier Invoke), and its write
\* set still holds that word or the deletion by a later SetStorage(zero).
CacheFromOwnWrites ==
  open => \A key \in WorldKey :
            cache[key] # Unset => /\ key[3] # NoKey
                                  /\ writes[key] \in {cache[key], Absent}

\* Conversely every word put by SetStorage is served from the cache.
WordsAreCached ==
  open => \A key \in WorldKey :
            key[3] # NoKey /\ writes[key] \in Word => cache[key] = writes[key]

\* What a successful read returns.  A slot this transaction last set to a
\* nonzero word reads as that word.  A key it never wrote reads as committed,
\* and the key is in the read set, so that validation notices a concurrent
\* change.
ReadsExplained ==
  open /\ ret.ok /\ ret.op \in {"GetAccount", "GetStorage"} =>
    /\ ret.op = "GetStorage" /\ writes[ret.key] \in Word => ret.val = writes[ret.key]
    /\ writes[ret.key] = Unset =>
         /\ ret.key \in reads
         /\ ret.val = IF ret.op = "GetStorage" THEN LeftPadWord256(ledger[ret.key])
                                              ELSE ledger[ret.key]

\* Committed state is canonical: one spelling of every key, account records
\* only under account keys, and zero never stored but represented by absence.
Canonical ==
  \A key \in WorldKey : ledger[key] # Absent =>
    /\ key[1] = "lower"
    /\ ledger[key] \in (IF key[3] = NoKey THEN Acct ELSE Word)

\* statemanager_test.go, "when a GetStorage is called after an SetStorage on
\* the same key in the same tx": the read returns what was written.
ReadYourWrites ==
  open /\ ret.ok /\ ret.op = "GetStorage" =>
    ret.val = LeftPadWord256(Applied(writes)[ret.key])

----------------------------------------------------------------------------
(* The state manager implements ContractStore.                             *)

AcctsOf(w) == [a \in Address |-> w[EncodeToString(a)]]
SlotsOf(w) == [a \in Address |-> [k \in Key |-> LeftPadWord256(w[<<"lower", a, k>>])]]

Acknowledged ==
  IF ret.ok /\ ret.op \in {"UpdateAccount", "RemoveAccount", "SetStorage"}
    THEN [addr |-> ret.key[2], key |-> ret.key[3], val |-> ret.val]
    ELSE [addr |-> NoKey, key |-> NoKey, val |-> NoKey]

Store == INSTANCE ContractStore WITH
  accts <- AcctsOf(ledger), slots <- SlotsOf(ledger),
  viewAccts <- AcctsOf(Applied(writes)), viewSlots <- SlotsOf(Applied(writes)),
  done <- Acknowledged

\* Every step of the state manager is a step of the abstract store or leaves
\* it alone: accounts and slots never disturb each other, an acknowledged
\* update is exactly what a commit will make visible, a refused one has no
\* effect, and a transaction takes effect as a whole or not at all.
ImplementsContractStore == Store!Spec
=============================================================================
