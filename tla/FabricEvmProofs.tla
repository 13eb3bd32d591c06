-------------------------- MODULE FabricEvmProofs --------------------------
(***************************************************************************)
(* Proofs about FabricEvm: types, the truth of SendTransaction's answers,  *)
(* one update per version of a record, that conflicts have a cause, and    *)
(* that it implements SerialEvm: whatever is simulated side by side, on    *)
(* whichever peers, the valid transactions take effect one after another,  *)
(* each as if it had been executed right then.                             *)
(***************************************************************************)
EXTENDS FabricEvm, FiniteSetTheorems, WellFoundedInduction, TLAPS

----------------------------------------------------------------------------
(* The inductive invariant.                                                *)

\* The values a key can have: a record under NoKey, else a nonzero word.
ValuesAt(key) == IF key[2] = NoKey THEN {Record, Absent} ELSE Word \cup {Absent}

\* Exactly the keys without a value have no version.
Fits(key, e) ==
  /\ e \in Entries
  /\ e.val \in ValuesAt(key)
  /\ e.ver = NoVersion <=> e.val = Absent

States == {st \in [WorldKey -> Entries] : \A key \in WorldKey : Fits(key, st[key])}

\* Entries of committed states are older than the block in the making, and a
\* version is never given to two of them.
WorldsInv ==
  /\ worlds \in Seq(States) /\ worlds # <<>>
  /\ \A h \in DOMAIN worlds, key \in WorldKey :
       LET v == worlds[h][key].ver IN v = NoVersion \/ v[1] < Len(worlds)
  /\ \A g, h \in DOMAIN worlds, key \in WorldKey :
       worlds[g][key].ver = worlds[h][key].ver => worlds[g][key] = worlds[h][key]

\* Updates of the block in the making carry its number.
BatchInv ==
  /\ batch \in [WorldKey -> Entries \cup {Unset}]
  /\ \A key \in WorldKey : batch[key] # Unset =>
       /\ Fits(key, batch[key])
       /\ batch[key].ver = NoVersion \/ batch[key].ver[1] = Len(worlds)

\* Types of the rest.
RestInv ==
  /\ block \in Blocks \cup {<<>>} /\ flags \in Seq(BOOLEAN) /\ Len(flags) <= Len(block)
  /\ asked \in [Id -> Request \cup {NoRequest}]
  /\ txs = [id \in Id |-> txs[id]] /\ \A id \in Id : IsTx(txs[id])
  /\ pending \in [Id -> Nat] /\ outcome \in [Id -> {"none", "valid", "invalid"}]
  /\ sent \in [Id -> {"new", "order", "commit", "id", "rejected", "open"}]

InBlock(id) == \E n \in DOMAIN block : block[n] = id
Underway(id) == pending[id] > 0 \/ InBlock(id) \/ outcome[id] # "none"

\* The transaction is what evmcc made of the request in some committed state.
Endorsed(id) ==
  /\ asked[id] \in Request
  /\ \E h \in DOMAIN worlds :
       Succeeds(asked[id], id, View(worlds[h])) /\ txs[id] = Tx(asked[id], id, worlds[h])

\* Where SendTransaction is and where its transaction is.
SentInv ==
  \A id \in Id :
    /\ sent[id] = "new" => asked[id] = NoRequest
    /\ sent[id] \in {"new", "order"} => ~Underway(id)
    /\ sent[id] = "id" => outcome[id] = "valid"
    /\ sent[id] = "rejected" => outcome[id] = "invalid" \/ ~Underway(id)
    /\ sent[id] \in {"new", "rejected"} \/ Endorsed(id)
    /\ Underway(id) => Endorsed(id)

\* Only the first occurrence of an id can be flagged valid.
FlagsInv ==
  \A m \in DOMAIN flags : flags[m] =>
    outcome[block[m]] = "none" /\ \A l \in 1 .. m - 1 : block[l] # block[m]

IInv == WorldsInv /\ BatchInv /\ RestInv /\ SentInv /\ FlagsInv

\* An update in the batch is that of a transaction flagged valid, and a key's
\* version changes from block to block only by a valid transaction that writes it.
WrittenInv ==
  /\ \A key \in WorldKey : batch[key] # Unset =>
       \E m \in DOMAIN flags : flags[m] /\ key \in DOMAIN txs[block[m]].writes
  /\ \A g, h \in DOMAIN worlds, key \in WorldKey : worlds[g][key].ver # worlds[h][key].ver =>
       \E j \in Id : outcome[j] = "valid" /\ key \in DOMAIN txs[j].writes

Explained(i) == \E j \in Valid \ {i} : DOMAIN txs[j].writes \cap DOMAIN txs[i].reads # {}

\* The same for ids found invalid in the block in the making.
ExplainedInv ==
  \A m \in DOMAIN flags :
    ~flags[m] /\ outcome[block[m]] = "none" /\ (\A l \in 1 .. m - 1 : block[l] # block[m])
      => Explained(block[m])

\* The version of its record that a valid update has read is gone for good.
SupersededInv ==
  \A i \in Valid, c \in Contract : Updates(txs[i], c) =>
    LET v == txs[i].reads[<<c, NoKey>>] IN
    /\ v = NoVersion => NewContract[i] = c
    /\ v # NoVersion =>
         v[1] < Len(worlds) /\ (batch[<<c, NoKey>>] # Unset \/ Current[<<c, NoKey>>].ver # v)

----------------------------------------------------------------------------
(* World states and evmcc's effect on them.                                *)

\* The keys of a request are keys of the world state.
LEMMA Keys ==
  /\ \A c \in Contract : <<c, NoKey>> \in WorldKey
  /\ \A s \in Contract \X Slot : s \in WorldKey /\ s[1] \in Contract /\ s[2] \in Slot /\ s[2] # NoKey
  /\ \A key \in WorldKey : key[1] \in Contract /\ key = <<key[1], key[2]>>
                           /\ (key[2] = NoKey \/ key \in Contract \X Slot)
  BY FabricConstants DEF WorldKey

\* SetStorage and GetStorage: a word is read as it was put, also the zero word.
LEMMA PutWord ==
  ASSUME NEW w \in Word \cup {Zero}
  PROVE  Put(w) \in Word \cup {Absent} /\ LeftPadWord256(Put(w)) = w
  BY FabricConstants, SerialConstants DEF Put, LeftPadWord256

\* What the contracts of a state are.
LEMMA ViewOf ==
  ASSUME NEW st \in States
  PROVE  /\ View(st).live \subseteq Contract
         /\ \A c \in Contract : c \in View(st).live <=> st[<<c, NoKey>>].val # Absent
         /\ View(st).words \in [Contract \X Slot -> Word \cup {Zero}]
         /\ \A s \in Contract \X Slot : View(st).words[s] = LeftPadWord256(st[s].val)
<1>1. \A s \in Contract \X Slot : LeftPadWord256(st[s].val) \in Word \cup {Zero}
  BY Keys DEF States, Fits, ValuesAt, LeftPadWord256
<1> QED BY <1>1 DEF View

\* The words a request loads.
LEMMA LoadedWords ==
  ASSUME NEW q \in Request, NEW st \in States
  PROVE  /\ Loaded(q, View(st)) \in [q.rd -> Word \cup {Zero}]
         /\ \A s \in q.rd : Loaded(q, View(st))[s] = LeftPadWord256(st[s].val)
<1>1. q.rd \subseteq Contract \X Slot
  BY SerialConstants DEF IsRequest
<1> QED BY <1>1, ViewOf DEF Loaded

\* GetState is asked for keys of the world state only.
LEMMA ReadKeysAreKeys ==
  ASSUME NEW q \in Request, NEW id \in Id, NEW st
  PROVE  ReadKeys(q, id, st) \subseteq WorldKey
<1>1. IsRequest(q) /\ NewContract[id] \in Contract
  BY SerialConstants
<1>2. CASE q.to = ZeroAddress
  BY <1>1, <1>2, Keys DEF ReadKeys
<1>3. CASE q.to # ZeroAddress
  <2>1. Reached(q) \subseteq Contract
    BY <1>1, <1>3, Keys DEF IsRequest, Reached
  <2>2. q.rd \subseteq WorldKey
    BY <1>1, Keys DEF IsRequest
  <2> QED BY <1>1, <1>3, <2>1, <2>2, Keys DEF ReadKeys, IsRequest
<1> QED BY <1>2, <1>3

\* Sync writes records under NoKey and nonzero words under slots.
LEMMA WriteSetFits ==
  ASSUME NEW q \in Request, NEW id \in Id, NEW st \in States, Succeeds(q, id, View(st))
  PROVE  /\ DOMAIN WriteSet(q, id, st) \subseteq WorldKey
         /\ \A key \in DOMAIN WriteSet(q, id, st) : WriteSet(q, id, st)[key] \in ValuesAt(key)
<1>1. IsRequest(q) /\ NewContract[id] \in Contract
  BY SerialConstants
<1>2. CASE q.to = ZeroAddress
  <2> DEFINE D == {<<NewContract[id], s>> : s \in DOMAIN q.init \cup {NoKey}}
             f == [key \in D |-> IF key[2] = NoKey THEN Record ELSE Put(q.init[key[2]])]
  <2>1. WriteSet(q, id, st) = f
    BY <1>2 DEF WriteSet
  <2>2. D \subseteq WorldKey
    BY <1>1 DEF IsRequest, WorldKey
  <2>3. \A s \in DOMAIN q.init : Put(q.init[s]) \in Word \cup {Absent}
    BY <1>1, PutWord DEF IsRequest
  <2>4. \A key \in D : f[key] \in ValuesAt(key)
    BY <2>3 DEF ValuesAt
  <2> QED BY <2>1, <2>2, <2>4
<1>3. CASE q.to # ZeroAddress /\ Nothing(q, View(st))
  <2>1. WriteSet(q, id, st) = <<>>
    BY <1>3 DEF WriteSet
  <2> QED BY <2>1
<1>4. CASE q.to # ZeroAddress /\ ~Nothing(q, View(st))
  <2> DEFINE removed == IF q.heir = NoHeir THEN {} ELSE {q.to}
             kept == ({s[1] : s \in q.wr} \cup ({q.heir} \ {NoHeir})) \ removed
             seen == Loaded(q, View(st))
             D == {s \in q.rd \cup q.wr : s[1] \in kept} \cup {<<c, NoKey>> : c \in kept \cup removed}
             f == [key \in D |->
                     IF key[2] = NoKey THEN IF key[1] \in removed THEN Absent ELSE Record
                     ELSE Put(IF key \in q.wr THEN Stored(q, key, seen) ELSE seen[key])]
  <2>1. WriteSet(q, id, st) = f
    BY <1>4 DEF WriteSet
  <2>2. kept \cup removed \subseteq Contract
    BY <1>1, <1>4 DEF IsRequest
  <2>3. D \subseteq WorldKey
    BY <1>1, <2>2, Keys DEF IsRequest
  <2>4. seen \in [q.rd -> Word \cup {Zero}] /\ ~Reverts(q, seen)
    BY <1>4, LoadedWords DEF Succeeds, Completes
  <2>5. \A s \in q.wr : Stored(q, s, seen) \in Word \cup {Zero}
    BY <2>4, StoredAssumption
  <2>6. ASSUME NEW key \in D PROVE f[key] \in ValuesAt(key)
    <3>1. CASE key[2] = NoKey
      BY <3>1 DEF ValuesAt
    <3>2. CASE key[2] # NoKey
      <4>1. key \in q.rd \cup q.wr
        BY <3>2
      <4>2. (IF key \in q.wr THEN Stored(q, key, seen) ELSE seen[key]) \in Word \cup {Zero}
        BY <4>1, <2>4, <2>5
      <4>3. f[key] = Put(IF key \in q.wr THEN Stored(q, key, seen) ELSE seen[key])
        BY <3>2
      <4> QED BY <3>2, <4>2, <4>3, PutWord DEF ValuesAt
    <3> QED BY <3>1, <3>2
  <2> HIDE DEF f
  <2>7. DOMAIN f = D
    BY DEF f
  <2> QED BY <2>1, <2>3, <2>6, <2>7
<1> QED BY <1>2, <1>3, <1>4

\* A transaction that updates a contract also writes and has read its record;
\* when there was none it is the deployment of the contract.
LEMMA UpdatesRecord ==
  ASSUME NEW q \in Request, NEW id \in Id, NEW st \in States, Succeeds(q, id, View(st)),
         NEW c \in Contract, Updates(Tx(q, id, st), c)
  PROVE  /\ <<c, NoKey>> \in ReadKeys(q, id, st) /\ <<c, NoKey>> \in DOMAIN WriteSet(q, id, st)
         /\ st[<<c, NoKey>>].val = Absent => NewContract[id] = c
<1>1. IsRequest(q) /\ NewContract[id] \in Contract
  BY SerialConstants
<1>2. PICK key \in DOMAIN WriteSet(q, id, st) : key[1] = c
  BY DEF Updates, Tx
<1>3. CASE q.to = ZeroAddress
  <2>1. DOMAIN WriteSet(q, id, st) = {<<NewContract[id], s>> : s \in DOMAIN q.init \cup {NoKey}}
    BY <1>3 DEF WriteSet
  <2>2. c = NewContract[id]
    BY <1>2, <2>1
  <2> QED BY <1>3, <2>1, <2>2 DEF ReadKeys
<1>4. CASE q.to # ZeroAddress
  <2> DEFINE removed == IF q.heir = NoHeir THEN {} ELSE {q.to}
             kept == ({s[1] : s \in q.wr} \cup ({q.heir} \ {NoHeir})) \ removed
             D == {s \in q.rd \cup q.wr : s[1] \in kept} \cup {<<d, NoKey>> : d \in kept \cup removed}
  <2>1. ~Nothing(q, View(st)) 
    <3>1. Nothing(q, View(st)) => DOMAIN WriteSet(q, id, st) = {}
      BY <1>4 DEF WriteSet
    <3> QED BY <1>2, <3>1
  <2>2. DOMAIN WriteSet(q, id, st) = D
    BY <1>4, <2>1 DEF WriteSet
  <2>3. c \in kept \cup removed
    BY <1>2, <2>2
  <2>4. c \in Reached(q)
    BY <2>3, <1>1 DEF Reached, IsRequest
  <2>5. st[<<c, NoKey>>].val # Absent
    BY <1>4, <2>1, <2>4, ViewOf DEF Succeeds, Completes
  <2>6. <<c, NoKey>> \in ReadKeys(q, id, st)
    BY <1>4, <2>1, <2>4 DEF ReadKeys
  <2> QED BY <2>2, <2>3, <2>5, <2>6
<1> QED BY <1>3, <1>4

----------------------------------------------------------------------------
(* The invariant is inductive.                                             *)

\* The copies of an envelope in a block are counted.
LEMMA CopiesCount ==
  ASSUME NEW s \in Blocks, NEW id \in Id
  PROVE  Copies(s, id) \in Nat /\ ((\E n \in DOMAIN s : s[n] = id) => Copies(s, id) > 0)
<1> DEFINE D == {n \in DOMAIN s : s[n] = id}
<1>1. PICK k \in 1 .. MaxBlock : s \in [1 .. k -> Id]
  BY DEF Blocks
<1>2. IsFiniteSet(1 .. k)
  BY <1>1, FabricConstants, FS_Interval
<1>3. IsFiniteSet(D)
  BY <1>1, <1>2, FS_Subset
<1>4. Cardinality(D) \in Nat /\ (Cardinality(D) = 0 <=> D = {})
  BY <1>3, FS_CardinalityType, FS_EmptySet
<1> QED BY <1>4 DEF Copies

\* The genesis block's state is a state.
LEMMA GenesisFits == GenesisState \in States
<1>1. ASSUME NEW key \in WorldKey PROVE GenesisState[key] \in Entries /\ Fits(key, GenesisState[key])
  <2>1. <<0, 0>> \in Versions /\ NoVersion \in Versions /\ <<0, 0>> # NoVersion
    BY MarkerAssumption DEF Versions
  <2>2. CASE key[2] = NoKey
    BY <2>1, <2>2, FabricConstants DEF GenesisState, NoEntry, Entry, Entries, Values, Fits, ValuesAt
  <2>3. CASE key[2] # NoKey
    <3>1. Genesis.words[key] \in Word \cup {Zero}
      BY <2>3, Keys, SerialConstants
    <3> QED BY <2>1, <2>3, <3>1, FabricConstants
         DEF GenesisState, NoEntry, Entry, Entries, Values, Fits, ValuesAt
  <2> QED BY <2>2, <2>3
<1>2. GenesisState \in [WorldKey -> Entries]
  BY <1>1 DEF GenesisState
<1> QED BY <1>1, <1>2 DEF States

\* It holds before any transaction.
LEMMA InitInv == Init => IInv
<1> SUFFICES ASSUME Init PROVE IInv
  OBVIOUS
<1>1. WorldsInv
  <2>1. worlds = <<GenesisState>> /\ worlds \in Seq(States) /\ Len(worlds) = 1 /\ DOMAIN worlds = {1}
        /\ worlds[1] = GenesisState
    BY GenesisFits DEF Init
  <2>2. \A key \in WorldKey : GenesisState[key].ver \in {NoVersion, <<0, 0>>}
    BY DEF GenesisState, NoEntry, Entry
  <2> QED BY <2>1, <2>2 DEF WorldsInv
<1>2. BatchInv
  BY DEF Init, BatchInv, NoUpdates
<1>3. RestInv
  <2>1. IsTx(NoTx)
    BY DEF IsTx, NoTx
  <2> QED BY <2>1 DEF Init, RestInv
<1>4. SentInv
  BY DEF Init, SentInv, Underway, InBlock
<1>5. FlagsInv
  BY DEF Init, FlagsInv
<1> QED BY <1>1, <1>2, <1>3, <1>4, <1>5 DEF IInv

\* The states peers may be in are committed states.
LEMMA RecentStates ==
  ASSUME WorldsInv, NEW st \in Recent
  PROVE  st \in States /\ \E h \in DOMAIN worlds : st = worlds[h]
  BY DEF WorldsInv, Recent

\* evmcc's transaction reads and writes keys of the world state.
LEMMA TxIsTx ==
  ASSUME NEW q \in Request, NEW id \in Id, NEW st \in States, Succeeds(q, id, View(st))
  PROVE  IsTx(Tx(q, id, st))
  BY ReadKeysAreKeys, WriteSetFits DEF IsTx, Tx

\* SendTransaction's endorsement preserves the invariant.
LEMMA SendTransactionInv ==
  ASSUME IInv, NEW id \in Id, NEW q \in Asks[id], SendTransaction(id, q)
  PROVE  IInv'
<1> USE DEF IInv
<1>1. q \in Request
  BY FabricConstants
<1>2. WorldsInv' /\ BatchInv' /\ FlagsInv'
  BY DEF SendTransaction, peers, WorldsInv, BatchInv, FlagsInv
<1>3. /\ asked' = [asked EXCEPT ![id] = q]
      /\ sent' = [sent EXCEPT ![id] = sent'[id]]
      /\ txs' = [txs EXCEPT ![id] = txs'[id]]
      /\ \/ sent'[id] = "order" /\ \E st \in Recent : Succeeds(q, id, View(st)) /\ txs'[id] = Tx(q, id, st)
         \/ sent'[id] = "rejected" /\ txs'[id] = txs[id]
  BY DEF SendTransaction, Become, RestInv
<1>4. RestInv'
  <2>1. IsTx(txs'[id])
    BY <1>1, <1>3, RecentStates, TxIsTx DEF RestInv
  <2>2. txs' = [i \in Id |-> txs'[i]] /\ \A i \in Id : IsTx(txs'[i])
    BY <1>3, <2>1 DEF RestInv
  <2>3. asked' \in [Id -> Request \cup {NoRequest}]
    BY <1>1, <1>3 DEF RestInv
  <2>4. sent' \in [Id -> {"new", "order", "commit", "id", "rejected", "open"}]
    BY <1>3 DEF RestInv
  <2> QED BY <2>2, <2>3, <2>4 DEF SendTransaction, peers, RestInv
<1>5. SentInv'
  <2>1. ASSUME NEW i \in Id PROVE Underway(i)' <=> Underway(i)
    BY DEF Underway, InBlock, SendTransaction, peers
  <2>2. ~Underway(id)
    BY DEF SentInv, SendTransaction
  <2>3. sent'[id] = "order" => Endorsed(id)'
    BY <1>1, <1>3, RecentStates DEF Endorsed, SendTransaction, peers, RestInv
  <2>4. ASSUME NEW i \in Id \ {id} PROVE /\ Endorsed(i) => Endorsed(i)'
                                         /\ sent'[i] = sent[i] /\ asked'[i] = asked[i] /\ outcome' = outcome
    BY <1>3 DEF Endorsed, SendTransaction, peers, RestInv
  <2> QED BY <1>3, <2>1, <2>2, <2>3, <2>4 DEF SentInv, RestInv
<1> QED BY <1>2, <1>4, <1>5

\* Broadcast, commit event and time-out preserve the invariant.
LEMMA SendingInv ==
  ASSUME IInv, NEW id \in Id, Sending(id)
  PROVE  IInv'
<1> USE DEF IInv
<1>1. UNCHANGED <<worlds, batch, block, flags, outcome, asked, txs>>
  BY DEF Sending, Broadcast, CommitEvent, Timeout, peers
<1>2. WorldsInv' /\ BatchInv' /\ FlagsInv'
  BY <1>1 DEF WorldsInv, BatchInv, FlagsInv
<1>3. ASSUME NEW i \in Id PROVE Endorsed(i)' <=> Endorsed(i)
  BY <1>1 DEF Endorsed
<1>4. CASE Broadcast(id)
  <2>1. PICK n \in 0 .. MaxCopies[id] :
          /\ pending' = [pending EXCEPT ![id] = n]
          /\ \/ n > 0 /\ Become(id, "commit")
             \/ n < MaxCopies[id] /\ Become(id, "open")
    BY <1>4 DEF Broadcast
  <2>2. n \in Nat
    BY FabricConstants
  <2>3. sent' = [sent EXCEPT ![id] = sent'[id]] /\ sent'[id] \in {"commit", "open"}
    BY <2>1 DEF Become, RestInv
  <2>4. RestInv'
    BY <1>1, <2>1, <2>2, <2>3 DEF RestInv
  <2>5. Endorsed(id)
    BY <1>4 DEF Broadcast, SentInv
  <2>6. ASSUME NEW i \in Id \ {id} PROVE (Underway(i)' <=> Underway(i)) /\ sent'[i] = sent[i]
    BY <1>1, <2>1, <2>3 DEF Underway, InBlock, RestInv
  <2>7. SentInv'
    BY <1>1, <1>3, <2>3, <2>5, <2>6 DEF SentInv
  <2> QED BY <1>2, <2>4, <2>7
<1>5. CASE CommitEvent(id) \/ Timeout(id)
  <2>1. /\ sent[id] = "commit" /\ sent' = [sent EXCEPT ![id] = sent'[id]] /\ pending' = pending
        /\ \/ sent'[id] = "id" /\ outcome[id] = "valid"
           \/ sent'[id] = "rejected" /\ outcome[id] = "invalid"
           \/ sent'[id] = "open"
    BY <1>5 DEF CommitEvent, Timeout, Become, RestInv
  <2>2. RestInv'
    BY <1>1, <2>1 DEF RestInv
  <2>3. ASSUME NEW i \in Id PROVE Underway(i)' <=> Underway(i)
    BY <1>1, <2>1 DEF Underway, InBlock
  <2>4. Endorsed(id)
    BY <2>1 DEF SentInv
  <2>5. ASSUME NEW i \in Id \ {id} PROVE sent'[i] = sent[i]
    BY <2>1 DEF RestInv
  <2>6. SentInv'
    BY <1>1, <1>3, <2>1, <2>3, <2>4, <2>5 DEF SentInv
  <2> QED BY <1>2, <2>2, <2>6
<1> QED BY <1>4, <1>5 DEF Sending

\* A block of accepted envelopes preserves the invariant.
LEMMA CutBlockInv ==
  ASSUME IInv, NEW s \in Blocks, CutBlock(s)
  PROVE  IInv'
<1> USE DEF IInv
<1>1. UNCHANGED <<worlds, batch, flags, outcome, asked, txs, sent>>
  BY DEF CutBlock
<1>2. WorldsInv' /\ BatchInv'
  BY <1>1 DEF WorldsInv, BatchInv
<1>3. flags = <<>> /\ Len(flags) = 0 /\ DOMAIN flags = {}
  BY DEF RestInv, CutBlock
<1>4. FlagsInv'
  BY <1>1, <1>3 DEF FlagsInv
<1>5. PICK k \in 1 .. MaxBlock : s \in [1 .. k -> Id]
  BY DEF Blocks
<1>6. \A i \in Id : /\ Copies(s, i) \in Nat /\ Copies(s, i) <= pending[i] /\ pending[i] \in Nat
                    /\ pending'[i] = pending[i] - Copies(s, i)
                    /\ (\E n \in DOMAIN s : s[n] = i) => Copies(s, i) > 0
  BY CopiesCount DEF CutBlock, RestInv
<1>7. RestInv'
  <2>1. pending' \in [Id -> Nat]
    BY <1>6 DEF CutBlock
  <2>2. block' \in Blocks \cup {<<>>} /\ Len(block') \in Nat
    BY <1>5, FabricConstants DEF CutBlock
  <2> QED BY <1>1, <1>3, <2>1, <2>2 DEF RestInv
<1>8. SentInv'
  <2>1. ASSUME NEW i \in Id PROVE Underway(i)' => Underway(i)
    BY <1>1, <1>6 DEF Underway, InBlock, CutBlock
  <2>2. ASSUME NEW i \in Id PROVE Endorsed(i)' <=> Endorsed(i)
    BY <1>1 DEF Endorsed
  <2> QED BY <1>1, <2>1, <2>2 DEF SentInv
<1> QED BY <1>2, <1>4, <1>7, <1>8

\* A block is a sequence of ids.
LEMMA BlockIds ==
  ASSUME RestInv
  PROVE  /\ block \in Seq(Id) /\ Len(block) \in Nat /\ DOMAIN block = 1 .. Len(block)
         /\ \A n \in 1 .. Len(block) : block[n] \in Id
         /\ Len(flags) \in Nat /\ DOMAIN flags = 1 .. Len(flags) /\ DOMAIN flags \subseteq DOMAIN block
<1>1. CASE block \in Blocks
  <2>1. PICK k \in 1 .. MaxBlock : block \in [1 .. k -> Id]
    BY <1>1 DEF Blocks
  <2>2. k \in Nat
    BY FabricConstants
  <2>3. block \in Seq(Id)
    BY <2>1, <2>2
  <2> QED BY <2>3 DEF RestInv
<1>2. CASE block = <<>>
  BY <1>2 DEF RestInv
<1> QED BY <1>1, <1>2 DEF RestInv

\* What is in a block has been endorsed: its transaction's sets fit the ledger.
LEMMA BlockEndorsed ==
  ASSUME IInv, NEW n \in 1 .. Len(block)
  PROVE  LET id == block[n] IN
         /\ id \in Id /\ asked[id] \in Request
         /\ \E h \in DOMAIN worlds :
              /\ worlds[h] \in States /\ Succeeds(asked[id], id, View(worlds[h]))
              /\ txs[id] = Tx(asked[id], id, worlds[h])
         /\ DOMAIN txs[id].writes \subseteq WorldKey
         /\ \A key \in DOMAIN txs[id].writes : txs[id].writes[key] \in ValuesAt(key)
<1> DEFINE id == block[n]
<1>1. id \in Id /\ InBlock(id)
  BY BlockIds DEF IInv, InBlock
<1>2. Endorsed(id)
  BY <1>1 DEF IInv, SentInv, Underway
<1>3. PICK h \in DOMAIN worlds : Succeeds(asked[id], id, View(worlds[h])) /\ txs[id] = Tx(asked[id], id, worlds[h])
  BY <1>2 DEF Endorsed
<1>4. worlds[h] \in States
  BY DEF IInv, WorldsInv
<1>5. asked[id] \in Request
  BY <1>2 DEF Endorsed
<1>6. txs[id].writes = WriteSet(asked[id], id, worlds[h])
  BY <1>3 DEF Tx
<1>7. /\ DOMAIN WriteSet(asked[id], id, worlds[h]) \subseteq WorldKey
      /\ \A key \in DOMAIN WriteSet(asked[id], id, worlds[h]) :
            WriteSet(asked[id], id, worlds[h])[key] \in ValuesAt(key)
  BY <1>1, <1>3, <1>4, <1>5, WriteSetFits
<1> QED BY <1>1, <1>3, <1>4, <1>5, <1>6, <1>7

\* What a peer makes of a valid transaction's write.
Update(key, w, n) == IF w = Absent THEN NoEntry ELSE Entry(w, <<Len(worlds), n>>)

LEMMA UpdateFits ==
  ASSUME WorldsInv, NEW key \in WorldKey, NEW w \in ValuesAt(key), NEW n \in Nat
  PROVE  /\ Fits(key, Update(key, w, n)) /\ Update(key, w, n) # Unset
         /\ Update(key, w, n).val = w
         /\ Update(key, w, n).ver = NoVersion \/ Update(key, w, n).ver[1] = Len(worlds)
<1>1. Len(worlds) \in Nat
  BY DEF WorldsInv
<1>2. <<Len(worlds), n>> \in Versions /\ NoVersion \in Versions /\ <<Len(worlds), n>> # NoVersion
  BY <1>1, MarkerAssumption DEF Versions
<1>3. w \in Values
  BY DEF ValuesAt, Values
<1>4. Update(key, w, n) \in Entries
  BY <1>2, <1>3 DEF Update, Entry, NoEntry, Entries, Values
<1>5. Update(key, w, n).val = w /\ (Update(key, w, n).ver = NoVersion <=> w = Absent)
      /\ (Update(key, w, n).ver = NoVersion \/ Update(key, w, n).ver[1] = Len(worlds))
  BY <1>2 DEF Update, Entry, NoEntry
<1> QED BY <1>4, <1>5, MarkerAssumption DEF Fits

\* Validation preserves the invariant.
LEMMA ValidateInv ==
  ASSUME IInv, Validate
  PROVE  IInv'
<1> DEFINE n == Len(flags) + 1
           tx == txs[block[n]]
           ok == ~Duplicate(n) /\ Fresh(tx)
<1>1. n \in 1 .. Len(block) /\ n \in Nat
  BY BlockIds DEF IInv, Validate
<1>2. UNCHANGED <<worlds, block, outcome, asked, txs, pending, sent>>
  BY DEF Validate
<1>3. flags' = Append(flags, ok) /\ ok \in BOOLEAN
  BY DEF Validate, Duplicate, Fresh
<1>4. flags' \in Seq(BOOLEAN) /\ Len(flags') = n /\ DOMAIN flags' = 1 .. n /\ flags'[n] = ok
      /\ \A m \in 1 .. Len(flags) : flags'[m] = flags[m]
  BY <1>3 DEF IInv, RestInv
<1>5. WorldsInv'
  BY <1>2 DEF IInv, WorldsInv
<1>6. BatchInv'
  <2>1. CASE ok
    <3>1. DOMAIN tx.writes \subseteq WorldKey /\ \A key \in DOMAIN tx.writes : tx.writes[key] \in ValuesAt(key)
      BY <1>1, BlockEndorsed
    <3>2. batch' = [key \in WorldKey |-> IF key \in DOMAIN tx.writes THEN Update(key, tx.writes[key], n)
                                         ELSE batch[key]]
      BY <2>1 DEF Validate, Update
    <3>3. ASSUME NEW key \in WorldKey
          PROVE  /\ batch'[key] \in Entries \cup {Unset}
                 /\ batch'[key] # Unset =>
                      /\ Fits(key, batch'[key])
                      /\ batch'[key].ver = NoVersion \/ batch'[key].ver[1] = Len(worlds)
      <4>1. CASE key \in DOMAIN tx.writes
        <5>1. batch'[key] = Update(key, tx.writes[key], n) /\ tx.writes[key] \in ValuesAt(key)
          BY <3>1, <3>2, <4>1
        <5> QED BY <5>1, <1>1, UpdateFits DEF IInv, Fits
      <4>2. CASE key \notin DOMAIN tx.writes
        <5>1. batch'[key] = batch[key]
          BY <3>2, <4>2
        <5> QED BY <5>1 DEF IInv, BatchInv
      <4> QED BY <4>1, <4>2
    <3>4. batch' \in [WorldKey -> Entries \cup {Unset}]
      <4>1. batch' = [key \in WorldKey |-> batch'[key]]
        BY <3>2
      <4> QED BY <3>3, <4>1
    <3> QED BY <1>2, <3>3, <3>4 DEF BatchInv
  <2>2. CASE ~ok
    <3>1. batch' = batch
      BY <2>2 DEF Validate
    <3> QED BY <1>2, <3>1 DEF IInv, BatchInv
  <2> QED BY <2>1, <2>2
<1>7. RestInv'
  BY <1>1, <1>2, <1>4 DEF IInv, RestInv
<1>8. SentInv'
  <2>1. ASSUME NEW i \in Id PROVE (Underway(i)' <=> Underway(i)) /\ (Endorsed(i)' <=> Endorsed(i))
    BY <1>2 DEF Underway, InBlock, Endorsed
  <2> QED BY <1>2, <2>1 DEF IInv, SentInv
<1>9. FlagsInv'
  <2>1. ok => outcome[block[n]] = "none" /\ \A l \in 1 .. n - 1 : block[l] # block[n]
    BY DEF Duplicate
  <2> SUFFICES ASSUME NEW m \in 1 .. n, flags'[m]
               PROVE  outcome[block[m]] = "none" /\ \A l \in 1 .. m - 1 : block[l] # block[m]
    BY <1>2, <1>4 DEF FlagsInv
  <2>2. CASE m = n
    BY <1>4, <2>1, <2>2
  <2>3. CASE m # n
    <3>1. m \in 1 .. Len(flags) /\ flags[m]
      BY <1>1, <1>4, <2>3, BlockIds DEF IInv
    <3> QED BY <3>1, BlockIds DEF IInv, FlagsInv
  <2> QED BY <2>2, <2>3
<1> QED BY <1>5, <1>6, <1>7, <1>8, <1>9 DEF IInv

\* A state with the updates of a block is a state.
LEMMA OverlayFits ==
  ASSUME WorldsInv, BatchInv
  PROVE  /\ Current \in States /\ Overlay(Current, batch) \in States
         /\ \A key \in WorldKey : Overlay(Current, batch)[key] =
                                    IF batch[key] = Unset THEN Current[key] ELSE batch[key]
<1>1. Len(worlds) \in DOMAIN worlds /\ Current \in States
  BY DEF WorldsInv, Current
<1>2. \A key \in WorldKey : Overlay(Current, batch)[key] =
                              IF batch[key] = Unset THEN Current[key] ELSE batch[key]
  BY DEF Overlay
<1>3. ASSUME NEW key \in WorldKey
      PROVE  Overlay(Current, batch)[key] \in Entries /\ Fits(key, Overlay(Current, batch)[key])
  BY <1>1, <1>2 DEF BatchInv, States, Fits
<1>4. Overlay(Current, batch) \in [WorldKey -> Entries]
  BY <1>3 DEF Overlay
<1> QED BY <1>1, <1>2, <1>3, <1>4 DEF States

\* The first occurrence of an id in a block.
LEMMA FirstOccurrence ==
  ASSUME RestInv, NEW id, InBlock(id)
  PROVE  \E m \in DOMAIN block : block[m] = id /\ \A l \in DOMAIN block : block[l] = id => m <= l
<1> DEFINE D == {m \in DOMAIN block : block[m] = id}
           R == {ss \in Nat \X Nat : ss[1] < ss[2]}
<1>1. D \subseteq Nat /\ D # {}
  BY BlockIds DEF InBlock
<1>2. IsWellFoundedOn(R, Nat)
  BY NatLessThanWellFounded DEF OpToRel
<1>3. PICK m \in D : \A l \in D : <<l, m>> \notin R
  BY <1>1, <1>2, WFMin
<1>4. ASSUME NEW l \in D PROVE m <= l
  <2>1. <<l, m>> \in Nat \X Nat /\ ~(l < m)
    BY <1>1, <1>3
  <2> QED BY <2>1
<1> QED BY <1>3, <1>4

\* The index of ids: what it has of earlier blocks stays, what is new in this
\* block is known by its first occurrence.
LEMMA IndexedOutcome ==
  ASSUME IInv, NEW id \in Id, Len(flags) = Len(block)
  PROVE  /\ outcome[id] # "none" \/ ~InBlock(id) => Indexed[id] = outcome[id]
         /\ outcome[id] = "none" /\ InBlock(id) =>
              \E m \in DOMAIN block :
                /\ block[m] = id /\ \A l \in 1 .. m - 1 : block[l] # id
                /\ m \in DOMAIN flags
                /\ Indexed[id] = IF flags[m] THEN "valid" ELSE "invalid"
<1>1. CASE outcome[id] # "none" \/ ~InBlock(id)
  BY <1>1 DEF Indexed, InBlock
<1>2. CASE outcome[id] = "none" /\ InBlock(id)
  <2> DEFINE m == CHOOSE m \in DOMAIN block : block[m] = id /\ \A l \in DOMAIN block : block[l] = id => m <= l
  <2>1. m \in DOMAIN block /\ block[m] = id /\ \A l \in DOMAIN block : block[l] = id => m <= l
    BY <1>2, FirstOccurrence DEF IInv
  <2>2. Indexed[id] = IF flags[m] THEN "valid" ELSE "invalid"
    BY <1>2 DEF Indexed, InBlock
  <2> HIDE DEF m
  <2>3. m \in DOMAIN flags /\ \A l \in 1 .. m - 1 : block[l] # id
    BY <2>1, BlockIds DEF IInv
  <2> QED BY <1>2, <2>1, <2>2, <2>3
<1> QED BY <1>1, <1>2

\* The commit of a block preserves the invariant.
LEMMA CommitBlockInv ==
  ASSUME IInv, CommitBlock
  PROVE  IInv'
<1> DEFINE new == Overlay(Current, batch)
           N == Len(worlds)
<1>1. new \in States /\ \A key \in WorldKey : new[key] = IF batch[key] = Unset THEN Current[key] ELSE batch[key]
  BY OverlayFits DEF IInv
<1> HIDE DEF new
<1>2. /\ worlds' = Append(worlds, new) /\ outcome' = Indexed
      /\ batch' = NoUpdates /\ block' = <<>> /\ flags' = <<>>
      /\ UNCHANGED <<asked, txs, pending, sent>> /\ Len(flags) = Len(block)
  BY DEF CommitBlock, new
<1>3. /\ worlds' \in Seq(States) /\ N \in Nat /\ N > 0 /\ Len(worlds') = N + 1 /\ DOMAIN worlds = 1 .. N
      /\ DOMAIN worlds' = 1 .. N + 1 /\ worlds'[N + 1] = new
      /\ \A h \in 1 .. N : worlds'[h] = worlds[h]
  BY <1>1, <1>2 DEF IInv, WorldsInv
<1>4. Current = worlds[N] /\ N \in DOMAIN worlds
  BY <1>3 DEF Current
<1>5. WorldsInv'
  <2>1. worlds' # <<>>
    BY <1>3
  <2>2. ASSUME NEW key \in WorldKey
        PROVE  LET v == new[key].ver IN
               /\ v = NoVersion \/ v[1] < N + 1
               /\ \A h \in 1 .. N : worlds[h][key].ver = v => worlds[h][key] = new[key]
    <3>1. CASE batch[key] = Unset
      <4>1. new[key] = worlds[N][key] /\ (new[key].ver = NoVersion \/ new[key].ver[1] < N)
        BY <1>1, <1>4, <3>1 DEF IInv, WorldsInv
      <4>2. new[key].ver # NoVersion => new[key].ver[1] \in Nat
        BY <1>1 DEF States, Entries, Versions
      <4>3. new[key].ver = NoVersion \/ new[key].ver[1] < N + 1
        BY <1>3, <4>1, <4>2
      <4> QED BY <1>3, <1>4, <4>1, <4>3 DEF IInv, WorldsInv
    <3>2. CASE batch[key] # Unset
      <4>1. new[key] = batch[key] /\ Fits(key, new[key])
            /\ (new[key].ver = NoVersion \/ new[key].ver[1] = N)
        BY <1>1, <3>2 DEF IInv, BatchInv
      <4>2. ASSUME NEW h \in 1 .. N, worlds[h][key].ver = new[key].ver
            PROVE  worlds[h][key] = new[key]
        <5>1. worlds[h] \in States /\ (worlds[h][key].ver = NoVersion \/ worlds[h][key].ver[1] < N)
          BY <1>3 DEF IInv, WorldsInv
        <5>2. new[key].ver = NoVersion /\ worlds[h][key].ver = NoVersion
          BY <1>3, <4>1, <4>2, <5>1
        <5>3. worlds[h][key] \in Entries /\ worlds[h][key].val = Absent
          BY <5>1, <5>2 DEF States, Fits
        <5>4. new[key] \in Entries /\ new[key].val = Absent
          BY <4>1, <5>2 DEF Fits
        <5> QED BY <5>2, <5>3, <5>4 DEF Entries
      <4>3. new[key].ver = NoVersion \/ new[key].ver[1] < N + 1
        BY <1>3, <4>1
      <4> QED BY <4>2, <4>3
    <3> QED BY <3>1, <3>2
  <2>3. ASSUME NEW h \in 1 .. N + 1, NEW key \in WorldKey
        PROVE  LET v == worlds'[h][key].ver IN v = NoVersion \/ v[1] < N + 1
    <3>1. CASE h = N + 1
      BY <1>3, <2>2, <3>1
    <3>2. CASE h \in 1 .. N
      <4>1. worlds'[h][key].ver = NoVersion \/ worlds'[h][key].ver[1] < N
        BY <1>3, <3>2 DEF IInv, WorldsInv
      <4>2. worlds[h][key].ver # NoVersion => worlds[h][key].ver[1] \in Nat
        BY <1>3, <3>2 DEF IInv, WorldsInv, States, Entries, Versions
      <4> QED BY <1>3, <3>2, <4>1, <4>2
    <3> QED BY <1>3, <3>1, <3>2
  <2>4. ASSUME NEW g \in 1 .. N + 1, NEW h \in 1 .. N + 1, NEW key \in WorldKey,
               worlds'[g][key].ver = worlds'[h][key].ver
        PROVE  worlds'[g][key] = worlds'[h][key]
    <3>1. CASE g \in 1 .. N /\ h \in 1 .. N
      BY <1>3, <2>4, <3>1 DEF IInv, WorldsInv
    <3>2. CASE g = N + 1 /\ h \in 1 .. N
      BY <1>3, <2>2, <2>4, <3>2
    <3>3. CASE h = N + 1 /\ g \in 1 .. N
      BY <1>3, <2>2, <2>4, <3>3
    <3>4. CASE g = N + 1 /\ h = N + 1
      BY <3>4
    <3> QED BY <1>3, <3>1, <3>2, <3>3, <3>4
  <2> QED BY <1>3, <2>1, <2>3, <2>4 DEF WorldsInv
<1>6. BatchInv'
  BY <1>2 DEF BatchInv, NoUpdates
<1>7. RestInv'
  <2>1. ASSUME NEW i \in Id PROVE Indexed[i] \in {"none", "valid", "invalid"}
    BY <1>2, IndexedOutcome DEF IInv, RestInv
  <2>2. Indexed \in [Id -> {"none", "valid", "invalid"}]
    BY <2>1 DEF Indexed
  <2> QED BY <1>2, <2>2 DEF IInv, RestInv
<1>8. SentInv'
  <2>1. ASSUME NEW i \in Id PROVE (Underway(i)' => Underway(i)) /\ (outcome[i] # "none" => outcome'[i] = outcome[i])
    <3>1. outcome[i] # "none" \/ ~InBlock(i) => outcome'[i] = outcome[i]
      BY <1>2, IndexedOutcome
    <3> QED BY <1>2, <3>1 DEF Underway, InBlock
  <2>2. ASSUME NEW i \in Id PROVE Endorsed(i) => Endorsed(i)'
    <3> SUFFICES ASSUME Endorsed(i) PROVE Endorsed(i)'
      OBVIOUS
    <3>1. PICK h \in DOMAIN worlds : Succeeds(asked[i], i, View(worlds[h])) /\ txs[i] = Tx(asked[i], i, worlds[h])
      BY DEF Endorsed
    <3>2. h \in DOMAIN worlds' /\ worlds'[h] = worlds[h]
      BY <1>3
    <3> QED BY <1>2, <3>1, <3>2 DEF Endorsed
  <2>3. ASSUME NEW i \in Id, sent[i] = "rejected" PROVE outcome'[i] = "invalid" \/ ~Underway(i)'
    BY <2>1, <2>3 DEF IInv, SentInv
  <2> QED BY <1>2, <2>1, <2>2, <2>3 DEF IInv, SentInv
<1>9. FlagsInv'
  BY <1>2 DEF FlagsInv
<1> QED BY <1>5, <1>6, <1>7, <1>8, <1>9 DEF IInv

\* Every step of the clients, fab3, the orderer and the peers preserves the invariant.
LEMMA NextInv == IInv /\ [Next]_vars => IInv'
<1> SUFFICES ASSUME IInv, [Next]_vars PROVE IInv'
  OBVIOUS
<1>1. CASE \E id \in Id : \E q \in Asks[id] : SendTransaction(id, q)
  BY <1>1, SendTransactionInv
<1>2. CASE \E id \in Id : Sending(id)
  BY <1>2, SendingInv
<1>3. CASE \E s \in Blocks : CutBlock(s)
  BY <1>3, CutBlockInv
<1>4. CASE Validate
  BY <1>4, ValidateInv
<1>5. CASE CommitBlock
  BY <1>5, CommitBlockInv
<1>6. CASE Idle \/ UNCHANGED vars
  <2>1. UNCHANGED <<worlds, batch, block, flags, outcome, asked, txs, pending, sent>>
    BY <1>6 DEF Idle, vars, peers
  <2>2. WorldsInv' /\ BatchInv' /\ RestInv' /\ FlagsInv'
    BY <2>1 DEF IInv, WorldsInv, BatchInv, RestInv, FlagsInv
  <2>3. \A i \in Id : (Underway(i)' <=> Underway(i)) /\ (Endorsed(i)' <=> Endorsed(i))
    BY <2>1 DEF Underway, InBlock, Endorsed
  <2>4. SentInv'
    BY <2>1, <2>3 DEF IInv, SentInv
  <2> QED BY <2>2, <2>4 DEF IInv
<1> QED BY <1>1, <1>2, <1>3, <1>4, <1>5, <1>6 DEF Next

\* The invariant that the other theorems rest on holds throughout.
THEOREM LedgerInvariant == Spec => []IInv
  BY InitInv, NextInv, PTL DEF Spec

\* The peers', the orderer's and fab3's state has its types: in particular a
\* word on the ledger is never the zero word, which SetStorage deletes.
THEOREM FabricTypes == Spec => []TypeOK
<1>1. IInv => TypeOK
  <2> SUFFICES ASSUME IInv PROVE TypeOK
    OBVIOUS
  <2>1. \A h \in DOMAIN worlds, key \in WorldKey : worlds[h][key].val \in Values
    BY DEF IInv, WorldsInv, States, Entries
  <2>2. \A key \in WorldKey : batch[key] # Unset => batch[key].val \in Values
    BY DEF IInv, BatchInv, Entries
  <2> QED BY <2>1, <2>2 DEF IInv, RestInv, TypeOK
<1> QED BY <1>1, LedgerInvariant, PTL

\* eth_sendTransaction's answers are true for good: an id only of a valid
\* transaction, a refusal only of one that never takes effect, whatever the
\* orderers, the block cutting, second copies and time-outs do.
THEOREM AnswersAreTrue == Spec => []ToldTruth
<1>1. IInv => ToldTruth
  <2> SUFFICES ASSUME IInv PROVE ToldTruth
    OBVIOUS
  <2>1. ASSUME NEW id \in Id, sent[id] = "rejected" PROVE id \notin Valid
    <3>1. outcome[id] = "invalid" \/ ~Underway(id)
      BY <2>1 DEF IInv, SentInv
    <3>2. outcome[id] # "valid"
      BY <3>1 DEF Underway
    <3>3. ASSUME NEW m \in DOMAIN flags, flags[m], block[m] = id PROVE FALSE
      <4>1. m \in DOMAIN block
        BY BlockIds DEF IInv
      <4>2. outcome[id] = "none"
        BY <3>3 DEF IInv, FlagsInv
      <4> QED BY <3>1, <3>3, <4>1, <4>2 DEF Underway, InBlock
    <3> QED BY <3>2, <3>3 DEF Valid
  <2> QED BY <2>1 DEF ToldTruth, IInv, SentInv
<1> QED BY <1>1, LedgerInvariant, PTL

----------------------------------------------------------------------------
(* Valid transactions, step by step.                                       *)

\* A transaction that is valid is under way, so that it is the endorsed one.
LEMMA ValidUnderway ==
  ASSUME IInv, NEW i \in Valid
  PROVE  i \in Id /\ Underway(i)
  BY BlockIds DEF IInv, Valid, Underway, InBlock

\* What is under way keeps its request and its read and write sets.
LEMMA TxsKept ==
  ASSUME IInv, [Next]_vars, NEW i \in Id, Underway(i)
  PROVE  txs'[i] = txs[i] /\ asked'[i] = asked[i]
<1>1. CASE \E id \in Id : \E q \in Asks[id] : SendTransaction(id, q)
  <2>1. PICK id \in Id : \E q \in Asks[id] : SendTransaction(id, q)
    BY <1>1
  <2>2. i # id
    BY <2>1 DEF SendTransaction, IInv, SentInv
  <2> QED BY <2>1, <2>2 DEF SendTransaction, IInv, RestInv
<1>2. CASE UNCHANGED <<asked, txs>>
  BY <1>2
<1> QED BY <1>1, <1>2 DEF Next, vars, Sending, Broadcast, CommitEvent, Timeout, CutBlock, Validate,
                          CommitBlock, Idle

\* Validation makes at most the transaction it looks at valid, and only one
\* that was not valid before.
LEMMA ValidateValid ==
  ASSUME IInv, Validate
  PROVE  LET n == Len(flags) + 1
             ok == ~Duplicate(n) /\ Fresh(txs[block[n]]) IN
         Valid' = (IF ok THEN Valid \cup {block[n]} ELSE Valid) /\ (ok => block[n] \notin Valid)
<1> DEFINE n == Len(flags) + 1
           ok == ~Duplicate(n) /\ Fresh(txs[block[n]])
<1>1. n \in 1 .. Len(block) /\ n \in Nat /\ DOMAIN flags = 1 .. n - 1
  BY BlockIds DEF IInv, Validate
<1>2. UNCHANGED <<block, outcome>> /\ flags' = Append(flags, ok) /\ ok \in BOOLEAN
  BY DEF Validate, Duplicate, Fresh
<1> HIDE DEF ok
<1>3. DOMAIN flags' = 1 .. n /\ flags'[n] = ok /\ \A m \in 1 .. n - 1 : flags'[m] = flags[m]
  BY <1>1, <1>2 DEF IInv, RestInv
<1> HIDE DEF n
<1>4. {block'[k] : k \in {m \in DOMAIN flags' : flags'[m]}} =
        {block[k] : k \in {m \in DOMAIN flags : flags[m]}} \cup (IF ok THEN {block[n]} ELSE {})
  <2>1. {m \in DOMAIN flags' : flags'[m]} = {m \in DOMAIN flags : flags[m]} \cup (IF ok THEN {n} ELSE {})
    BY <1>1, <1>2, <1>3
  <2> QED BY <1>2, <2>1
<1>5. Valid' = IF ok THEN Valid \cup {block[n]} ELSE Valid
  BY <1>2, <1>4 DEF Valid
<1>6. ok => block[n] \notin Valid
  <2> SUFFICES ASSUME ok PROVE block[n] \notin Valid
    OBVIOUS
  <2>1. outcome[block[n]] = "none" /\ \A m \in 1 .. n - 1 : block[m] # block[n]
    BY DEF ok, Duplicate
  <2> QED BY <1>1, <2>1 DEF Valid
<1> QED BY <1>5, <1>6 DEF ok, n

\* The commit of a block makes what it found valid final, no more and no less.
LEMMA CommitBlockValid ==
  ASSUME IInv, CommitBlock
  PROVE  Valid' = Valid
<1>1. outcome' = Indexed /\ flags' = <<>> /\ Len(flags) = Len(block)
  BY DEF CommitBlock
<1>2. Valid' = {i \in Id : Indexed[i] = "valid"}
  BY <1>1 DEF Valid
<1>3. ASSUME NEW i \in Id, Indexed[i] = "valid" PROVE i \in Valid
  BY <1>1, <1>3, IndexedOutcome DEF Valid
<1>4. ASSUME NEW i \in Valid PROVE i \in Id /\ Indexed[i] = "valid"
  <2>1. i \in Id
    BY ValidUnderway
  <2>2. CASE outcome[i] = "valid"
    BY <1>1, <2>1, <2>2, IndexedOutcome
  <2>3. CASE outcome[i] # "valid"
    <3>1. PICK m \in DOMAIN flags : flags[m] /\ block[m] = i
      BY <2>3 DEF Valid
    <3>2. m \in DOMAIN block /\ outcome[i] = "none" /\ \A l \in 1 .. m - 1 : block[l] # i
      BY <3>1, BlockIds DEF IInv, FlagsInv
    <3>3. PICK k \in DOMAIN block : /\ block[k] = i /\ \A l \in 1 .. k - 1 : block[l] # i
                                    /\ Indexed[i] = IF flags[k] THEN "valid" ELSE "invalid"
      BY <1>1, <2>1, <3>1, <3>2, IndexedOutcome DEF InBlock
    <3>4. k = m
      BY <3>1, <3>2, <3>3, BlockIds DEF IInv
    <3> QED BY <2>1, <3>1, <3>3, <3>4
  <2> QED BY <2>2, <2>3
<1> QED BY <1>2, <1>3, <1>4

\* Whoever is valid before a step is valid after it.
LEMMA OthersValid ==
  ASSUME IInv, [Next]_vars, ~Validate, ~CommitBlock
  PROVE  /\ Valid' = Valid /\ UNCHANGED <<worlds, batch, flags, outcome>>
         /\ \A m \in DOMAIN flags : block'[m] = block[m]
<1>1. CASE \E s \in Blocks : CutBlock(s)
  <2>1. DOMAIN flags = {} /\ UNCHANGED <<worlds, batch, flags, outcome>>
    BY <1>1 DEF IInv, RestInv, CutBlock
  <2> QED BY <2>1 DEF Valid
<1>2. CASE UNCHANGED peers
  <2>1. UNCHANGED <<worlds, batch, block, flags, outcome>>
    BY <1>2 DEF peers
  <2> QED BY <2>1 DEF Valid
<1> QED BY <1>1, <1>2 DEF Next, vars, SendTransaction, Sending, Broadcast, CommitEvent, Timeout, Idle

----------------------------------------------------------------------------
(* Conflicts have a cause.                                                 *)

CInv == WrittenInv /\ ExplainedInv /\ ConflictsExplained

LEMMA InitConflicts == Init => CInv
<1> SUFFICES ASSUME Init PROVE CInv
  OBVIOUS
<1>1. DOMAIN worlds = {1} /\ DOMAIN flags = {}
  BY DEF Init
<1>2. WrittenInv
  BY <1>1 DEF Init, WrittenInv, NoUpdates
<1>3. ExplainedInv
  BY <1>1 DEF ExplainedInv
<1>4. ConflictsExplained
  BY DEF Init, ConflictsExplained
<1> QED BY <1>2, <1>3, <1>4 DEF CInv

\* A cause stays a cause.
LEMMA ExplainedKept ==
  ASSUME IInv, [Next]_vars, Valid \subseteq Valid', NEW i \in Id, Underway(i), Explained(i)
  PROVE  Explained(i)'
<1>1. PICK j \in Valid \ {i} : DOMAIN txs[j].writes \cap DOMAIN txs[i].reads # {}
  BY DEF Explained
<1>2. txs'[j] = txs[j] /\ txs'[i] = txs[i]
  BY ValidUnderway, TxsKept
<1> QED BY <1>1, <1>2 DEF Explained

\* A transaction that is not fresh has read what a valid one has written since.
LEMMA StaleExplained ==
  ASSUME IInv, WrittenInv, NEW n \in 1 .. Len(block), DOMAIN flags = 1 .. n - 1,
         ~Duplicate(n), ~Fresh(txs[block[n]])
  PROVE  Explained(block[n])
<1> DEFINE id == block[n]
<1>1. PICK key \in DOMAIN txs[id].reads : batch[key] # Unset \/ txs[id].reads[key] # Current[key].ver
  BY DEF Fresh
<1>2. PICK h \in DOMAIN worlds : worlds[h] \in States /\ txs[id] = Tx(asked[id], id, worlds[h])
  BY BlockEndorsed
<1>3. id \in Id /\ IsTx(txs[id])
  BY BlockIds DEF IInv, RestInv
<1>4. key \in WorldKey /\ txs[id].reads[key] = worlds[h][key].ver
  BY <1>2, <1>3 DEF IsTx, Tx
<1>5. outcome[id] = "none" /\ \A m \in 1 .. n - 1 : block[m] # id
  BY DEF Duplicate
<1>6. CASE batch[key] # Unset
  <2>1. PICK m \in DOMAIN flags : flags[m] /\ key \in DOMAIN txs[block[m]].writes
    BY <1>4, <1>6 DEF WrittenInv
  <2>2. block[m] \in Valid \ {id}
    BY <1>5, <2>1 DEF Valid
  <2> QED BY <1>1, <2>1, <2>2 DEF Explained
<1>7. CASE worlds[h][key].ver # Current[key].ver
  <2>1. Len(worlds) \in DOMAIN worlds
    BY DEF IInv, WorldsInv
  <2>2. PICK j \in Id : outcome[j] = "valid" /\ key \in DOMAIN txs[j].writes
    BY <1>2, <1>4, <1>7, <2>1 DEF WrittenInv, Current
  <2>3. j \in Valid \ {id}
    BY <1>5, <2>2 DEF Valid
  <2> QED BY <1>1, <2>2, <2>3 DEF Explained
<1> QED BY <1>1, <1>4, <1>6, <1>7

LEMMA NextConflicts == IInv /\ IInv' /\ CInv /\ [Next]_vars => CInv'
<1> SUFFICES ASSUME IInv, IInv', CInv, [Next]_vars PROVE CInv'
  OBVIOUS
<1>1. CASE Validate
  <2> DEFINE n == Len(flags) + 1
             tx == txs[block[n]]
             ok == ~Duplicate(n) /\ Fresh(tx)
  <2>1. n \in 1 .. Len(block) /\ DOMAIN flags = 1 .. n - 1 /\ n \in Nat
    BY <1>1, BlockIds DEF IInv, Validate
  <2>2. UNCHANGED <<worlds, block, outcome, asked, txs, pending, sent>>
    BY <1>1 DEF Validate
  <2>3. flags' = Append(flags, ok) /\ ok \in BOOLEAN
    BY <1>1 DEF Validate, Duplicate, Fresh
  <2>4. DOMAIN flags' = 1 .. n /\ flags'[n] = ok /\ \A m \in 1 .. n - 1 : flags'[m] = flags[m]
    BY <2>1, <2>3 DEF IInv, RestInv
  <2>5. Valid \subseteq Valid'
    BY <1>1, ValidateValid
  <2>6. WrittenInv'
    <3>1. ASSUME NEW key \in WorldKey, batch'[key] # Unset
          PROVE  \E m \in DOMAIN flags' : flags'[m] /\ key \in DOMAIN txs[block[m]].writes
      <4>1. CASE ok /\ key \in DOMAIN tx.writes
        <5>1. n \in DOMAIN flags' /\ flags'[n]
          <6>1. n \in DOMAIN flags' /\ flags'[n] = ok
            BY <2>1, <2>4
          <6> QED BY <4>1, <6>1, Zenon
        <5>2. key \in DOMAIN txs[block[n]].writes
          BY <4>1
        <5> HIDE DEF n
        <5> QED BY <5>1, <5>2
      <4>2. CASE ~(ok /\ key \in DOMAIN tx.writes)
        <5>1. batch'[key] = batch[key]
          BY <1>1, <4>2 DEF Validate
        <5>2. PICK m \in DOMAIN flags : flags[m] /\ key \in DOMAIN txs[block[m]].writes
          BY <3>1, <5>1 DEF CInv, WrittenInv
        <5> QED BY <2>1, <2>4, <5>2
      <4> QED BY <4>1, <4>2
    <3> QED BY <2>2, <3>1 DEF CInv, WrittenInv
  <2>7. ASSUME NEW i \in Id, Explained(i) PROVE Explained(i)'
    BY <2>2, <2>5, <2>7 DEF Explained
  <2>8. ExplainedInv'
    <3> SUFFICES ASSUME NEW m \in 1 .. n, ~flags'[m], outcome[block[m]] = "none",
                        \A l \in 1 .. m - 1 : block[l] # block[m], NEW i, i = block[m]
                 PROVE  Explained(i)'
      BY <2>2, <2>4 DEF ExplainedInv
    <3>1. m \in 1 .. Len(block) /\ i \in Id
      BY <2>1, BlockIds DEF IInv
    <3>2. CASE m = n
      <4>1. ~Duplicate(n) /\ ~Fresh(tx)
        BY <2>4, <3>2 DEF Duplicate
      <4>2. Explained(block[n])
        BY <2>1, <4>1, StaleExplained DEF CInv
      <4> QED BY <2>7, <3>1, <3>2, <4>2
    <3>3. CASE m # n
      <4>1. m \in DOMAIN flags /\ ~flags[m]
        BY <2>1, <2>4, <3>3
      <4>2. Explained(block[m])
        BY <4>1 DEF CInv, ExplainedInv
      <4> QED BY <2>7, <3>1, <4>2
    <3> QED BY <3>2, <3>3
  <2>9. ConflictsExplained'
    BY <2>2, <2>7 DEF CInv, ConflictsExplained, Explained
  <2> QED BY <2>6, <2>8, <2>9 DEF CInv
<1>2. CASE CommitBlock
  <2> DEFINE new == Overlay(Current, batch)
             N == Len(worlds)
  <2>1. /\ worlds' = Append(worlds, new) /\ outcome' = Indexed
        /\ batch' = NoUpdates /\ block' = <<>> /\ flags' = <<>>
        /\ UNCHANGED <<asked, txs, pending, sent>> /\ Len(flags) = Len(block)
    BY <1>2 DEF CommitBlock
  <2>2. \A key \in WorldKey : new[key] = IF batch[key] = Unset THEN Current[key] ELSE batch[key]
    BY DEF Overlay
  <2>3. Valid' = Valid
    BY <1>2, CommitBlockValid
  <2> HIDE DEF new
  <2>4. /\ N \in Nat /\ N > 0 /\ DOMAIN worlds = 1 .. N
        /\ DOMAIN worlds' = 1 .. N + 1 /\ worlds'[N + 1] = new /\ Current = worlds[N]
        /\ \A h \in 1 .. N : worlds'[h] = worlds[h]
    BY <2>1 DEF IInv, WorldsInv, Current
  <2>5. ASSUME NEW i \in Valid PROVE i \in Id /\ outcome'[i] = "valid"
    BY <2>1, <2>3 DEF Valid
  <2>6. ASSUME NEW h \in 1 .. N, NEW key \in WorldKey, worlds[h][key].ver # new[key].ver
        PROVE  \E j \in Id : outcome'[j] = "valid" /\ key \in DOMAIN txs[j].writes
    <3>1. CASE batch[key] # Unset
      <4>1. PICK m \in DOMAIN flags : flags[m] /\ key \in DOMAIN txs[block[m]].writes
        BY <3>1 DEF CInv, WrittenInv
      <4>2. block[m] \in Valid
        BY <4>1 DEF Valid
      <4> QED BY <2>5, <4>1, <4>2
    <3>2. CASE batch[key] = Unset
      <4>1. worlds[h][key].ver # worlds[N][key].ver
        BY <2>2, <2>4, <2>6, <3>2
      <4>2. PICK j \in Id : outcome[j] = "valid" /\ key \in DOMAIN txs[j].writes
        BY <2>4, <4>1 DEF CInv, WrittenInv
      <4>3. j \in Valid
        BY <4>2 DEF Valid
      <4> QED BY <2>5, <4>2, <4>3
    <3> QED BY <3>1, <3>2
  <2>7. ASSUME NEW g \in 1 .. N + 1, NEW h \in 1 .. N + 1, NEW key \in WorldKey,
               worlds'[g][key].ver # worlds'[h][key].ver
        PROVE  \E j \in Id : outcome'[j] = "valid" /\ key \in DOMAIN txs[j].writes
    <3>1. CASE g \in 1 .. N /\ h \in 1 .. N
      <4>1. PICK j \in Id : outcome[j] = "valid" /\ key \in DOMAIN txs[j].writes
        BY <2>4, <2>7, <3>1 DEF CInv, WrittenInv
      <4>2. j \in Valid
        BY <4>1 DEF Valid
      <4> QED BY <2>5, <4>1, <4>2
    <3>2. CASE g = N + 1 /\ h \in 1 .. N
      BY <2>4, <2>6, <2>7, <3>2
    <3>3. CASE h = N + 1 /\ g \in 1 .. N
      BY <2>4, <2>6, <2>7, <3>3
    <3>4. CASE g = N + 1 /\ h = N + 1
      BY <2>7, <3>4
    <3> QED BY <2>4, <3>1, <3>2, <3>3, <3>4
  <2>8. WrittenInv'
    BY <2>1, <2>4, <2>7 DEF WrittenInv, NoUpdates
  <2>9. ExplainedInv'
    BY <2>1 DEF ExplainedInv
  <2>10. ConflictsExplained'
    <3> SUFFICES ASSUME NEW i \in Id, Indexed[i] = "invalid" PROVE Explained(i)
      BY <2>1, <2>3 DEF ConflictsExplained, Explained
    <3>1. CASE outcome[i] = "invalid"
      BY <3>1 DEF CInv, ConflictsExplained, Explained
    <3>2. CASE outcome[i] # "invalid"
      <4>1. outcome[i] = "none" /\ InBlock(i)
        BY <2>1, <3>2, IndexedOutcome
      <4>2. PICK m \in DOMAIN block : /\ block[m] = i /\ m \in DOMAIN flags
                                      /\ \A l \in 1 .. m - 1 : block[l] # i
                                      /\ Indexed[i] = IF flags[m] THEN "valid" ELSE "invalid"
        BY <2>1, <4>1, IndexedOutcome
      <4> QED BY <4>1, <4>2 DEF CInv, ExplainedInv
    <3> QED BY <3>1, <3>2
  <2> QED BY <2>8, <2>9, <2>10 DEF CInv
<1>3. CASE ~Validate /\ ~CommitBlock
  <2>1. /\ Valid' = Valid /\ UNCHANGED <<worlds, batch, flags, outcome>>
        /\ \A m \in DOMAIN flags : block'[m] = block[m]
    BY <1>3, OthersValid
  <2>2. ASSUME NEW m \in DOMAIN flags PROVE txs'[block[m]] = txs[block[m]] /\ block[m] \in Id /\ Underway(block[m])
    <3>1. block[m] \in Id /\ InBlock(block[m])
      BY BlockIds DEF IInv, InBlock
    <3> QED BY <3>1, TxsKept DEF Underway
  <2>3. ASSUME NEW i \in Id, outcome[i] # "none" PROVE txs'[i] = txs[i] /\ Underway(i)
    BY <2>3, TxsKept DEF Underway
  <2>4. WrittenInv'
    BY <2>1, <2>2, <2>3 DEF CInv, WrittenInv
  <2>5. ExplainedInv'
    <3> SUFFICES ASSUME NEW m \in DOMAIN flags, ~flags[m], outcome[block[m]] = "none",
                        \A l \in 1 .. m - 1 : block[l] # block[m]
                 PROVE  Explained(block[m])'
      BY <2>1, BlockIds DEF ExplainedInv, IInv
    <3>1. Explained(block[m])
      BY DEF CInv, ExplainedInv
    <3> QED BY <2>1, <2>2, <3>1, ExplainedKept
  <2>6. ConflictsExplained'
    <3> SUFFICES ASSUME NEW i \in Id, outcome[i] = "invalid" PROVE Explained(i)'
      BY <2>1 DEF ConflictsExplained, Explained
    <3>1. Explained(i)
      BY DEF CInv, ConflictsExplained, Explained
    <3> QED BY <2>1, <2>3, <3>1, ExplainedKept
  <2> QED BY <2>4, <2>5, <2>6 DEF CInv
<1> QED BY <1>1, <1>2, <1>3

\* A transaction is found invalid only when another one, valid, has written
\* what it had read: whatever is sent and however blocks are cut, one of two
\* calls in conflict takes effect, and no second copy invalidates the first.
THEOREM ConflictsHaveCauses == Spec => []ConflictsExplained
<1>1. Spec => []CInv
  BY InitConflicts, NextConflicts, LedgerInvariant, PTL DEF Spec
<1>2. CInv => ConflictsExplained
  BY DEF CInv
<1> QED BY <1>1, <1>2, PTL

----------------------------------------------------------------------------
(* One update per version of a record.                                     *)

UInv == SupersededInv /\ OneUpdatePerVersion

\* A transaction that updates a contract has read and writes its record.
LEMMA ReadsRecord ==
  ASSUME IInv, NEW i \in Id, Underway(i), NEW c \in Contract, Updates(txs[i], c)
  PROVE  LET v == txs[i].reads[<<c, NoKey>>] IN
         /\ <<c, NoKey>> \in DOMAIN txs[i].reads /\ <<c, NoKey>> \in DOMAIN txs[i].writes
         /\ v = NoVersion => NewContract[i] = c
         /\ v # NoVersion => v[1] \in Nat /\ v[1] < Len(worlds)
<1>1. Endorsed(i)
  BY DEF IInv, SentInv
<1>2. PICK h \in DOMAIN worlds : Succeeds(asked[i], i, View(worlds[h])) /\ txs[i] = Tx(asked[i], i, worlds[h])
  BY <1>1 DEF Endorsed
<1>3. worlds[h] \in States /\ asked[i] \in Request
  BY <1>1 DEF IInv, WorldsInv, Endorsed
<1>4. /\ <<c, NoKey>> \in ReadKeys(asked[i], i, worlds[h])
      /\ <<c, NoKey>> \in DOMAIN WriteSet(asked[i], i, worlds[h])
      /\ worlds[h][<<c, NoKey>>].val = Absent => NewContract[i] = c
  BY <1>2, <1>3, UpdatesRecord
<1>5. txs[i].reads[<<c, NoKey>>] = worlds[h][<<c, NoKey>>].ver
  BY <1>2, <1>4 DEF Tx
<1>6. <<c, NoKey>> \in DOMAIN txs[i].reads /\ <<c, NoKey>> \in DOMAIN txs[i].writes
  BY <1>2, <1>4 DEF Tx
<1>7. worlds[h][<<c, NoKey>>].ver = NoVersion => worlds[h][<<c, NoKey>>].val = Absent
  BY <1>3, Keys DEF States, Fits
<1>8. worlds[h][<<c, NoKey>>].ver # NoVersion =>
        worlds[h][<<c, NoKey>>].ver[1] \in Nat /\ worlds[h][<<c, NoKey>>].ver[1] < Len(worlds)
  BY <1>3, Keys DEF States, Entries, Versions, IInv, WorldsInv
<1> QED BY <1>4, <1>5, <1>6, <1>7, <1>8

LEMMA InitUpdates == Init => UInv
<1> SUFFICES ASSUME Init PROVE UInv
  OBVIOUS
<1>1. Valid = {}
  BY DEF Init, Valid
<1> QED BY <1>1 DEF UInv, SupersededInv, OneUpdatePerVersion

LEMMA NextUpdates == IInv /\ UInv /\ [Next]_vars => UInv'
<1> SUFFICES ASSUME IInv, UInv, [Next]_vars PROVE UInv'
  OBVIOUS
<1> DEFINE R(c) == <<c, NoKey>>
<1>1. CASE Validate
  <2> DEFINE n == Len(flags) + 1
             id == block[n]
             tx == txs[id]
             ok == ~Duplicate(n) /\ Fresh(tx)
  <2>1. n \in 1 .. Len(block) /\ n \in Nat
    BY <1>1, BlockIds DEF IInv, Validate
  <2>2. UNCHANGED <<worlds, block, outcome, asked, txs, pending, sent>> /\ Current' = Current
    BY <1>1 DEF Validate, Current
  <2>3. Valid' = IF ok THEN Valid \cup {id} ELSE Valid
    BY <1>1, ValidateValid
  <2>4. id \in Id /\ Underway(id)
    BY <2>1, BlockIds DEF IInv, Underway, InBlock
  <2>5. CASE ok
    <3>1. DOMAIN tx.writes \subseteq WorldKey /\ \A key \in DOMAIN tx.writes : tx.writes[key] \in ValuesAt(key)
      BY <2>1, BlockEndorsed
    <3>2. batch' = [key \in WorldKey |-> IF key \in DOMAIN tx.writes THEN Update(key, tx.writes[key], n)
                                         ELSE batch[key]]
      BY <1>1, <2>5 DEF Validate, Update
    <3>3. ASSUME NEW key \in WorldKey
          PROVE  /\ key \in DOMAIN tx.writes => batch'[key] # Unset
                 /\ batch[key] # Unset => batch'[key] # Unset
      BY <2>1, <3>1, <3>2, UpdateFits DEF IInv
    <3>4. SupersededInv'
      <4> SUFFICES ASSUME NEW i \in Valid', NEW c \in Contract, Updates(txs[i], c)
                   PROVE  LET v == txs[i].reads[R(c)] IN
                          /\ v = NoVersion => NewContract[i] = c
                          /\ v # NoVersion =>
                               v[1] < Len(worlds) /\ (batch'[R(c)] # Unset \/ Current[R(c)].ver # v)
        BY <2>2 DEF SupersededInv, Updates
      <4>1. CASE i \in Valid
        BY <3>3, <4>1, Keys DEF UInv, SupersededInv
      <4>2. CASE i = id
        BY <2>4, <3>3, <4>2, Keys, ReadsRecord
      <4> QED BY <2>3, <4>1, <4>2
    <3>5. ASSUME NEW j \in Valid, NEW c \in Contract, j # id, Updates(tx, c), Updates(txs[j], c)
          PROVE  tx.reads[R(c)] # txs[j].reads[R(c)]
      <4>1. R(c) \in DOMAIN tx.reads /\ (tx.reads[R(c)] = NoVersion => NewContract[id] = c)
        BY <2>4, <3>5, ReadsRecord
      <4>2. batch[R(c)] = Unset /\ tx.reads[R(c)] = Current[R(c)].ver
        BY <2>5, <4>1 DEF Fresh
      <4>3. LET v == txs[j].reads[R(c)] IN
            /\ v = NoVersion => NewContract[j] = c
            /\ v # NoVersion => batch[R(c)] # Unset \/ Current[R(c)].ver # v
        BY <3>5 DEF UInv, SupersededInv
      <4>4. j \in Id
        BY ValidUnderway
      <4>5. NewContract[id] = c /\ NewContract[j] = c => FALSE
        BY <2>4, <3>5, <4>4, SerialConstants
      <4> QED BY <4>1, <4>2, <4>3, <4>5
    <3>6. OneUpdatePerVersion'
      <4> SUFFICES ASSUME NEW i \in Valid', NEW j \in Valid', NEW c \in Contract,
                          i # j, Updates(txs[i], c), Updates(txs[j], c)
                   PROVE  txs[i].reads[R(c)] # txs[j].reads[R(c)]
        BY <2>2 DEF OneUpdatePerVersion, Updates
      <4>1. CASE i \in Valid /\ j \in Valid
        BY <4>1 DEF UInv, OneUpdatePerVersion
      <4>2. CASE i = id /\ j \in Valid
        BY <3>5, <4>2
      <4>3. CASE j = id /\ i \in Valid
        BY <3>5, <4>3
      <4> QED BY <2>3, <4>1, <4>2, <4>3
    <3> QED BY <3>4, <3>6 DEF UInv
  <2>6. CASE ~ok
    <3>1. batch' = batch /\ Valid' = Valid
      BY <1>1, <2>3, <2>6 DEF Validate
    <3> QED BY <2>2, <3>1 DEF UInv, SupersededInv, OneUpdatePerVersion, Updates
  <2> QED BY <2>5, <2>6
<1>2. CASE CommitBlock
  <2> DEFINE new == Overlay(Current, batch)
             N == Len(worlds)
  <2>1. worlds' = Append(worlds, new) /\ batch' = NoUpdates /\ txs' = txs
    BY <1>2 DEF CommitBlock
  <2>2. \A key \in WorldKey : new[key] = IF batch[key] = Unset THEN Current[key] ELSE batch[key]
    BY DEF Overlay
  <2>3. Valid' = Valid
    BY <1>2, CommitBlockValid
  <2> HIDE DEF new
  <2>4. N \in Nat /\ Len(worlds') = N + 1 /\ Current' = new
    BY <2>1 DEF IInv, WorldsInv, Current
  <2>5. ASSUME NEW i \in Valid, NEW c \in Contract, Updates(txs[i], c)
        PROVE  LET v == txs[i].reads[R(c)] IN
               /\ v = NoVersion => NewContract[i] = c
               /\ v # NoVersion => v[1] < N + 1 /\ new[R(c)].ver # v
    <3> DEFINE v == txs[i].reads[R(c)]
    <3>1. v = NoVersion => NewContract[i] = c
      BY <2>5 DEF UInv, SupersededInv
    <3>2. ASSUME v # NoVersion PROVE v[1] \in Nat /\ v[1] < N
      BY <2>5, <3>2, ValidUnderway, ReadsRecord
    <3>3. ASSUME v # NoVersion PROVE new[R(c)].ver # v
      <4>1. CASE batch[R(c)] = Unset
        BY <2>2, <2>5, <3>3, <4>1, Keys DEF UInv, SupersededInv
      <4>2. CASE batch[R(c)] # Unset
        <5>1. new[R(c)].ver = NoVersion \/ new[R(c)].ver[1] = N
          BY <2>2, <4>2, Keys DEF IInv, BatchInv
        <5> QED BY <2>4, <3>2, <3>3, <5>1
      <4> QED BY <4>1, <4>2
    <3> QED BY <2>4, <3>1, <3>2, <3>3
  <2>6. SupersededInv'
    BY <2>1, <2>3, <2>4, <2>5 DEF SupersededInv, Updates
  <2>7. OneUpdatePerVersion'
    BY <2>1, <2>3 DEF UInv, OneUpdatePerVersion, Updates
  <2> QED BY <2>6, <2>7 DEF UInv
<1>3. CASE ~Validate /\ ~CommitBlock
  <2>1. Valid' = Valid /\ UNCHANGED <<worlds, batch, Current>>
    BY <1>3, OthersValid DEF Current
  <2>2. \A i \in Valid : txs'[i] = txs[i]
    BY ValidUnderway, TxsKept
  <2> QED BY <2>1, <2>2 DEF UInv, SupersededInv, OneUpdatePerVersion, Updates
<1> QED BY <1>1, <1>2, <1>3

\* Of all calls that update a contract and were simulated on the same version
\* of its record, at most one is ever valid, whichever slots they touch: Sync
\* writes the record with every update.
THEOREM OneUpdateEach == Spec => []OneUpdatePerVersion
<1>1. Spec => []UInv
  BY InitUpdates, NextUpdates, LedgerInvariant, PTL DEF Spec
<1>2. UInv => OneUpdatePerVersion
  BY DEF UInv
<1> QED BY <1>1, <1>2, PTL

----------------------------------------------------------------------------
(* A transaction's effect depends on what it has read, and on nothing else. *)

\* Where the keys that evmcc reads have the same values, it ends the same way
\* and writes the same.
LEMMA SameReadsSameWrites ==
  ASSUME NEW q \in Request, NEW id \in Id, NEW st \in States, NEW cu \in States,
         Succeeds(q, id, View(st)),
         \A key \in ReadKeys(q, id, st) : st[key].val = cu[key].val
  PROVE  Succeeds(q, id, View(cu)) /\ WriteSet(q, id, cu) = WriteSet(q, id, st)
<1>1. IsRequest(q) /\ NewContract[id] \in Contract
  BY SerialConstants
<1>2. CASE q.to = ZeroAddress
  <2>1. st[<<NewContract[id], NoKey>>].val = cu[<<NewContract[id], NoKey>>].val
    BY <1>2 DEF ReadKeys
  <2>2. Succeeds(q, id, View(cu))
    BY <1>1, <1>2, <2>1, ViewOf DEF Succeeds
  <2>3. WriteSet(q, id, cu) = WriteSet(q, id, st)
    BY <1>2 DEF WriteSet
  <2> QED BY <2>2, <2>3
<1>3. CASE q.to # ZeroAddress /\ Nothing(q, View(st))
  <2>1. q.to \in Contract /\ st[<<q.to, NoKey>>].val = cu[<<q.to, NoKey>>].val
    BY <1>1, <1>3 DEF ReadKeys, IsRequest
  <2>2. Nothing(q, View(cu))
    BY <1>3, <2>1, ViewOf DEF Nothing
  <2> QED BY <1>3, <2>2 DEF Succeeds, WriteSet
<1>4. CASE q.to # ZeroAddress /\ ~Nothing(q, View(st))
  <2>1. Reached(q) \subseteq Contract /\ q.to \in Reached(q) /\ q.rd \subseteq Contract \X Slot
    BY <1>1, <1>4, Keys DEF IsRequest, Reached
  <2>2. \A c \in Reached(q) : st[<<c, NoKey>>].val = cu[<<c, NoKey>>].val
    BY <1>4 DEF ReadKeys
  <2>3. \A s \in q.rd : st[s].val = cu[s].val
    BY <1>4 DEF ReadKeys
  <2>4. Loaded(q, View(cu)) = Loaded(q, View(st))
    <3>1. \A s \in q.rd : Loaded(q, View(cu))[s] = Loaded(q, View(st))[s]
      BY <2>3, LoadedWords
    <3> QED BY <3>1, LoadedWords
  <2>5. Completes(q, View(st))
    BY <1>4 DEF Succeeds
  <2>6. Completes(q, View(cu))
    <3>1. ASSUME NEW c \in Reached(q) PROVE c \in View(cu).live
      <4>1. c \in Contract /\ c \in View(st).live
        BY <2>1, <2>5 DEF Completes
      <4> QED BY <2>2, <4>1, ViewOf
    <3> QED BY <2>4, <2>5, <3>1 DEF Completes
  <2>7. ~Nothing(q, View(cu))
    BY <2>1, <2>6 DEF Nothing, Completes
  <2> QED BY <1>4, <2>4, <2>6, <2>7 DEF Succeeds, WriteSet
<1> QED BY <1>2, <1>3, <1>4

\* Writing what Sync writes is executing the request: the record and the words
\* that Sync puts without their having changed do not matter.
LEMMA WritesAreTheEffect ==
  ASSUME NEW q \in Request, NEW id \in Id, NEW cu \in States, NEW nw \in States,
         Succeeds(q, id, View(cu)),
         \A key \in WorldKey : nw[key].val =
           IF key \in DOMAIN WriteSet(q, id, cu) THEN WriteSet(q, id, cu)[key] ELSE cu[key].val
  PROVE  View(nw) = After(q, id, View(cu))
<1> DEFINE w == View(cu)
<1>1. IsRequest(q) /\ NewContract[id] \in Contract
  BY SerialConstants
<1>2. ASSUME NEW live, NEW words,
             \A c \in Contract : c \in live <=> nw[<<c, NoKey>>].val # Absent,
             live \subseteq Contract,
             \A s \in Contract \X Slot : words[s] = LeftPadWord256(nw[s].val),
             words = [s \in Contract \X Slot |-> words[s]]
      PROVE  View(nw) = [live |-> live, words |-> words]
  BY <1>2 DEF View
<1>3. CASE q.to = ZeroAddress
  <2> DEFINE new == NewContract[id]
             D == {<<new, s>> : s \in DOMAIN q.init \cup {NoKey}}
             live == w.live \cup {new}
             words == [s \in Contract \X Slot |->
                         IF s[1] = new /\ s[2] \in DOMAIN q.init THEN q.init[s[2]] ELSE w.words[s]]
  <2>1. /\ DOMAIN WriteSet(q, id, cu) = D
        /\ \A key \in D : WriteSet(q, id, cu)[key] = IF key[2] = NoKey THEN Record ELSE Put(q.init[key[2]])
    BY <1>3 DEF WriteSet
  <2>2. ASSUME NEW c \in Contract PROVE c \in live <=> nw[<<c, NoKey>>].val # Absent
    <3>1. <<c, NoKey>> \in D <=> c = new
      OBVIOUS
    <3>2. nw[<<c, NoKey>>].val = IF c = new THEN Record ELSE cu[<<c, NoKey>>].val
      BY <2>1, <3>1, Keys
    <3> QED BY <3>2, ViewOf, FabricConstants
  <2>3. ASSUME NEW s \in Contract \X Slot PROVE words[s] = LeftPadWord256(nw[s].val)
    <3>1. CASE s[1] = new /\ s[2] \in DOMAIN q.init
      <4>1. s \in D /\ s[2] # NoKey
        BY <3>1, Keys
      <4>2. nw[s].val = Put(q.init[s[2]]) /\ q.init[s[2]] \in Word \cup {Zero}
        BY <1>1, <2>1, <3>1, <4>1, Keys DEF IsRequest
      <4> QED BY <3>1, <4>2, PutWord
    <3>2. CASE ~(s[1] = new /\ s[2] \in DOMAIN q.init)
      <4>1. s \notin D
        BY <3>2, Keys
      <4>2. nw[s].val = cu[s].val
        BY <2>1, <4>1, Keys
      <4> QED BY <3>2, <4>2, ViewOf
    <3> QED BY <3>1, <3>2
  <2>4. live \subseteq Contract
    BY <1>1, ViewOf
  <2>5. After(q, id, w) = [live |-> live, words |-> words]
    BY <1>3 DEF After, Nothing
  <2>6. words = [s \in Contract \X Slot |-> words[s]]
    OBVIOUS
  <2> HIDE DEF live, words
  <2>7. View(nw) = [live |-> live, words |-> words]
    BY <1>2, <2>2, <2>3, <2>4, <2>6
  <2> QED BY <2>5, <2>7
<1>4. CASE q.to # ZeroAddress /\ Nothing(q, w)
  <2>1. DOMAIN WriteSet(q, id, cu) = {}
    BY <1>4 DEF WriteSet
  <2>2. \A key \in WorldKey : nw[key].val = cu[key].val
    BY <2>1
  <2>3. View(nw) = View(cu)
    <3>1. \A c \in Contract : nw[<<c, NoKey>>].val = cu[<<c, NoKey>>].val
      BY <2>2, Keys
    <3>2. \A s \in Contract \X Slot : nw[s].val = cu[s].val
      BY <2>2, Keys
    <3> QED BY <3>1, <3>2 DEF View
  <2> QED BY <1>4, <2>3 DEF After
<1>5. CASE q.to # ZeroAddress /\ ~Nothing(q, w)
  <2> DEFINE removed == IF q.heir = NoHeir THEN {} ELSE {q.to}
             kept == ({s[1] : s \in q.wr} \cup ({q.heir} \ {NoHeir})) \ removed
             seen == Loaded(q, w)
             D == {s \in q.rd \cup q.wr : s[1] \in kept} \cup {<<c, NoKey>> : c \in kept \cup removed}
             live == IF q.heir = NoHeir THEN w.live ELSE w.live \ {q.to}
             words == [s \in Contract \X Slot |->
                         IF s \in q.wr /\ ~(q.heir # NoHeir /\ s[1] = q.to)
                         THEN Stored(q, s, seen) ELSE w.words[s]]
  <2>1. /\ DOMAIN WriteSet(q, id, cu) = D
        /\ \A key \in D : WriteSet(q, id, cu)[key] =
             IF key[2] = NoKey THEN IF key[1] \in removed THEN Absent ELSE Record
             ELSE Put(IF key \in q.wr THEN Stored(q, key, seen) ELSE seen[key])
    BY <1>5 DEF WriteSet
  <2>2. q.rd \subseteq Contract \X Slot /\ q.wr \subseteq Contract \X Slot
    BY <1>1 DEF IsRequest
  <2>3. Completes(q, w)
    BY <1>5 DEF Succeeds
  <2>4. kept \subseteq w.live
    <3>1. kept \subseteq Reached(q)
      BY DEF Reached
    <3> QED BY <2>3, <3>1 DEF Completes
  <2>5. seen \in [q.rd -> Word \cup {Zero}] /\ ~Reverts(q, seen)
        /\ \A s \in q.rd : seen[s] = LeftPadWord256(cu[s].val)
    BY <2>3, LoadedWords DEF Completes
  <2>6. \A s \in q.wr : Stored(q, s, seen) \in Word \cup {Zero}
    BY <2>5, StoredAssumption
  <2>7. ASSUME NEW c \in Contract PROVE c \in live <=> nw[<<c, NoKey>>].val # Absent
    <3>1. <<c, NoKey>> \in D <=> c \in kept \cup removed
      BY <2>2, Keys
    <3>2. CASE c \in removed
      <4>1. nw[<<c, NoKey>>].val = Absent
        BY <2>1, <3>1, <3>2, Keys
      <4> QED BY <3>2, <4>1
    <3>3. CASE c \notin removed /\ c \in kept
      <4>1. nw[<<c, NoKey>>].val = Record
        BY <2>1, <3>1, <3>3, Keys
      <4>2. c \in live
        BY <2>4, <3>3
      <4> QED BY <4>1, <4>2, FabricConstants
    <3>4. CASE c \notin removed /\ c \notin kept
      <4>1. nw[<<c, NoKey>>].val = cu[<<c, NoKey>>].val
        BY <2>1, <3>1, <3>4, Keys
      <4> QED BY <3>4, <4>1, ViewOf
    <3> QED BY <3>2, <3>3, <3>4
  <2>8. ASSUME NEW s \in Contract \X Slot PROVE words[s] = LeftPadWord256(nw[s].val)
    <3>1. s[2] # NoKey /\ s \in WorldKey /\ (s \in D <=> s \in q.rd \cup q.wr /\ s[1] \in kept)
      BY Keys
    <3>2. CASE s \in q.wr /\ s[1] \notin removed
      <4>1. s \in D
        BY <3>1, <3>2
      <4>2. nw[s].val = Put(Stored(q, s, seen))
        BY <2>1, <3>1, <3>2, <4>1
      <4>3. words[s] = Stored(q, s, seen)
        BY <3>2
      <4> QED BY <2>6, <3>2, <4>2, <4>3, PutWord
    <3>3. CASE s \notin q.wr /\ s \in D
      <4>1. s \in q.rd /\ seen[s] \in Word \cup {Zero} /\ seen[s] = w.words[s]
        BY <2>5, <3>1, <3>3, ViewOf
      <4>2. nw[s].val = Put(seen[s])
        BY <2>1, <3>1, <3>3
      <4>3. words[s] = w.words[s]
        BY <3>3
      <4> QED BY <4>1, <4>2, <4>3, PutWord
    <3>4. CASE s \notin D
      <4>1. nw[s].val = cu[s].val
        BY <2>1, <3>1, <3>4
      <4>2. ~(s \in q.wr /\ s[1] \notin removed)
        BY <3>1, <3>4
      <4>3. words[s] = w.words[s]
        BY <4>2
      <4> QED BY <4>1, <4>3, ViewOf
    <3> QED BY <3>1, <3>2, <3>3, <3>4
  <2>9. live \subseteq Contract
    BY ViewOf
  <2>10. After(q, id, w) = [live |-> live, words |-> words]
    BY <1>5 DEF After
  <2>11. words = [s \in Contract \X Slot |-> words[s]]
    OBVIOUS
  <2> HIDE DEF live, words
  <2>12. View(nw) = [live |-> live, words |-> words]
    BY <1>2, <2>7, <2>8, <2>9, <2>11
  <2> QED BY <2>10, <2>12
<1> QED BY <1>3, <1>4, <1>5

----------------------------------------------------------------------------
(* The refinement.                                                         *)

\* SerialEvm's operators are those of EvmRequest.
LEMMA SerialOperators ==
  ASSUME NEW q, NEW id, NEW w
  PROVE  Serial!After(q, id, w) = After(q, id, w) /\ (Serial!Succeeds(q, id, w) <=> Succeeds(q, id, w))
<1>1. Serial!After(q, id, w) = After(q, id, w)
  BY DEF Serial!After, After, Serial!Nothing, Nothing, Serial!Loaded, Loaded
<1>2. Serial!Succeeds(q, id, w) <=> Succeeds(q, id, w)
  BY DEF Serial!Succeeds, Succeeds, Serial!Nothing, Nothing, Serial!Completes, Completes,
         Serial!Loaded, Loaded, Serial!Reached, Reached
<1> QED BY <1>1, <1>2

\* The world that clients see.
World == View(Overlay(Current, batch))

\* The channel begins as the abstract world does.
LEMMA InitRefines == Init => Serial!Init
<1> SUFFICES ASSUME Init PROVE Serial!Init
  OBVIOUS
<1>1. Current = GenesisState /\ Valid = {}
  BY DEF Init, Current, Valid
<1>2. Overlay(Current, batch) = GenesisState
  BY <1>1 DEF Init, Overlay, NoUpdates, GenesisState
<1>3. World = Genesis
  <2>1. \A c \in Contract : GenesisState[<<c, NoKey>>].val # Absent <=> c \in Genesis.live
    BY Keys, FabricConstants DEF GenesisState, Entry, NoEntry
  <2>2. ASSUME NEW s \in Contract \X Slot PROVE LeftPadWord256(GenesisState[s].val) = Genesis.words[s]
    <3>1. s \in WorldKey /\ s[2] # NoKey /\ Genesis.words[s] \in Word \cup {Zero}
      BY Keys, SerialConstants
    <3> QED BY <3>1, FabricConstants DEF GenesisState, Entry, NoEntry, LeftPadWord256
  <2>3. /\ Genesis.live \subseteq Contract
        /\ Genesis.words = [s \in Contract \X Slot |-> Genesis.words[s]]
        /\ Genesis = [live |-> Genesis.live, words |-> Genesis.words]
    BY SerialConstants
  <2>4. {c \in Contract : GenesisState[<<c, NoKey>>].val # Absent} = Genesis.live
    BY <2>1, <2>3
  <2>5. [s \in Contract \X Slot |-> LeftPadWord256(GenesisState[s].val)] = Genesis.words
    BY <2>2, <2>3
  <2> QED BY <1>2, <2>3, <2>4, <2>5 DEF World, View
<1> QED BY <1>1, <1>3 DEF Init, Serial!Init, World

\* A transaction that is valid takes effect as if executed now: what it had
\* read is still what the ledger holds, as no version is given twice.
LEMMA ValidApplies ==
  ASSUME IInv, NEW n \in 1 .. Len(block), Fresh(txs[block[n]]), NEW nb,
         LET tx == txs[block[n]] IN
         nb = [key \in WorldKey |-> IF key \in DOMAIN tx.writes THEN Update(key, tx.writes[key], n)
                                    ELSE batch[key]]
  PROVE  LET id == block[n] IN
         Succeeds(asked[id], id, World) /\ View(Overlay(Current, nb)) = After(asked[id], id, World)
<1> DEFINE id == block[n]
           q == asked[id]
           tx == txs[id]
           cu == Overlay(Current, batch)
           nw == Overlay(Current, nb)
<1>1. PICK h \in DOMAIN worlds : worlds[h] \in States /\ Succeeds(q, id, View(worlds[h]))
                                 /\ tx = Tx(q, id, worlds[h])
  BY BlockEndorsed
<1>2. id \in Id /\ q \in Request /\ DOMAIN tx.writes \subseteq WorldKey
      /\ \A key \in DOMAIN tx.writes : tx.writes[key] \in ValuesAt(key)
  BY BlockEndorsed
<1>3. /\ Current \in States /\ cu \in States
      /\ \A key \in WorldKey : cu[key] = IF batch[key] = Unset THEN Current[key] ELSE batch[key]
  BY OverlayFits DEF IInv
<1>4. Len(worlds) \in DOMAIN worlds /\ n \in Nat
  BY BlockIds DEF IInv, WorldsInv
<1> HIDE DEF cu
<1>5. ASSUME NEW key \in ReadKeys(q, id, worlds[h]) PROVE worlds[h][key].val = cu[key].val
  <2>1. key \in WorldKey /\ key \in DOMAIN tx.reads /\ tx.reads[key] = worlds[h][key].ver
    BY <1>1, <1>2, ReadKeysAreKeys DEF Tx
  <2>2. batch[key] = Unset /\ worlds[h][key].ver = Current[key].ver
    BY <2>1 DEF Fresh
  <2>3. worlds[h][key] = Current[key]
    BY <1>4, <2>1, <2>2 DEF IInv, WorldsInv, Current
  <2> QED BY <1>3, <2>1, <2>2, <2>3
<1>6. Succeeds(q, id, View(cu)) /\ WriteSet(q, id, cu) = WriteSet(q, id, worlds[h])
  BY <1>1, <1>2, <1>3, <1>5, SameReadsSameWrites
<1>7. tx.writes = WriteSet(q, id, cu)
  BY <1>1, <1>6 DEF Tx
<1>8. \A key \in WorldKey : nw[key] = IF key \in DOMAIN tx.writes THEN Update(key, tx.writes[key], n)
                                      ELSE cu[key]
  <2> SUFFICES ASSUME NEW key \in WorldKey
               PROVE  nw[key] = IF key \in DOMAIN tx.writes THEN Update(key, tx.writes[key], n) ELSE cu[key]
    OBVIOUS
  <2>1. nw[key] = IF nb[key] = Unset THEN Current[key] ELSE nb[key]
    BY DEF Overlay
  <2>2. CASE key \in DOMAIN tx.writes
    <3>1. nb[key] = Update(key, tx.writes[key], n) /\ nb[key] # Unset
      BY <1>2, <1>4, <2>2, UpdateFits DEF IInv
    <3> QED BY <2>1, <2>2, <3>1
  <2>3. CASE key \notin DOMAIN tx.writes
    <3>1. nb[key] = batch[key]
      BY <2>3
    <3> QED BY <1>3, <2>1, <2>3, <3>1
  <2> QED BY <2>2, <2>3
<1>9. nw \in States
  <2>1. ASSUME NEW key \in WorldKey PROVE nw[key] \in Entries /\ Fits(key, nw[key])
    <3>1. CASE key \in DOMAIN tx.writes
      BY <1>2, <1>4, <1>8, <3>1, UpdateFits DEF IInv, Fits
    <3>2. CASE key \notin DOMAIN tx.writes
      BY <1>3, <1>8, <3>2 DEF States, Fits
    <3> QED BY <3>1, <3>2
  <2>2. nw = [key \in WorldKey |-> nw[key]]
    BY DEF Overlay
  <2> HIDE DEF nw
  <2>3. nw \in [WorldKey -> Entries]
    BY <2>1, <2>2
  <2> QED BY <2>1, <2>3 DEF States
<1> HIDE DEF nw
<1>10. \A key \in WorldKey : nw[key].val = IF key \in DOMAIN tx.writes THEN tx.writes[key] ELSE cu[key].val
  BY <1>2, <1>4, <1>8, UpdateFits DEF IInv
<1>11. View(nw) = After(q, id, View(cu))
  BY <1>2, <1>3, <1>6, <1>7, <1>9, <1>10, WritesAreTheEffect
<1> QED BY <1>6, <1>11 DEF World, cu, nw

\* Every step of the channel is one of the abstract world or leaves it as it is.
LEMMA NextRefines == IInv /\ [Next]_vars => [Serial!Next]_Serial!vars
<1> SUFFICES ASSUME IInv, [Next]_vars PROVE [Serial!Next]_Serial!vars
  OBVIOUS
<1>1. CASE \E id \in Id : \E q \in Asks[id] : SendTransaction(id, q)
  <2>0. PICK id \in Id : \E q \in Asks[id] : SendTransaction(id, q)
    BY <1>1
  <2>1. PICK q \in Asks[id] : SendTransaction(id, q)
    BY <2>0
  <2>2. q \in Request
    BY FabricConstants
  <2>3. asked[id] = NoRequest /\ asked' = [asked EXCEPT ![id] = q]
    BY <2>1 DEF SendTransaction, IInv, SentInv
  <2>4. UNCHANGED <<World, Valid>>
    BY <2>1 DEF SendTransaction, peers, World, Current, Valid
  <2>5. Serial!Ask(id, q)
    BY <2>3, <2>4 DEF Serial!Ask, World
  <2> QED BY <2>2, <2>5 DEF Serial!Next
<1>2. CASE Validate
  <2> DEFINE n == Len(flags) + 1
             id == block[n]
             tx == txs[id]
             ok == ~Duplicate(n) /\ Fresh(tx)
  <2>1. n \in 1 .. Len(block) /\ id \in Id
    BY <1>2, BlockIds DEF IInv, Validate
  <2>2. UNCHANGED <<worlds, Current, asked>>
    BY <1>2 DEF Validate, Current
  <2>3. Valid' = (IF ok THEN Valid \cup {id} ELSE Valid) /\ (ok => id \notin Valid)
    BY <1>2, ValidateValid
  <2>4. CASE ok
    <3>1. batch' = [key \in WorldKey |-> IF key \in DOMAIN tx.writes THEN Update(key, tx.writes[key], n)
                                         ELSE batch[key]]
      BY <1>2, <2>4 DEF Validate, Update
    <3>2. Fresh(tx)
      BY <2>4
    <3> HIDE DEF n
    <3>3. Succeeds(asked[id], id, World) /\ View(Overlay(Current, batch')) = After(asked[id], id, World)
      BY <2>1, <3>1, <3>2, ValidApplies
    <3>4. World' = After(asked[id], id, World)
      BY <2>2, <3>3 DEF World, Overlay
    <3>5. asked[id] # NoRequest
      BY <2>1, BlockEndorsed, SerialConstants
    <3>6. Serial!Apply(id)
      BY <2>2, <2>3, <2>4, <3>3, <3>4, <3>5, SerialOperators DEF Serial!Apply, World
    <3> QED BY <2>1, <3>6 DEF Serial!Next
  <2>5. CASE ~ok
    <3>1. batch' = batch /\ Valid' = Valid
      BY <1>2, <2>3, <2>5 DEF Validate
    <3> QED BY <2>2, <3>1 DEF Serial!vars, Overlay
  <2> QED BY <2>4, <2>5
<1>3. CASE CommitBlock
  <2>1. Valid' = Valid /\ asked' = asked
    BY <1>3, CommitBlockValid DEF CommitBlock
  <2>2. Current' = Overlay(Current, batch) /\ batch' = NoUpdates
    BY <1>3 DEF CommitBlock, Current, IInv, WorldsInv
  <2>3. Overlay(Current, batch)' = Overlay(Current, batch)
    BY <2>2 DEF Overlay, NoUpdates
  <2> QED BY <2>1, <2>3 DEF Serial!vars, View
<1>4. CASE UNCHANGED asked /\ ~Validate /\ ~CommitBlock
  <2>1. Valid' = Valid /\ UNCHANGED <<worlds, batch>>
    BY <1>4, OthersValid
  <2> QED BY <1>4, <2>1 DEF Serial!vars, Current
<1> QED BY <1>1, <1>2, <1>3, <1>4
     DEF Next, vars, Sending, Broadcast, CommitEvent, Timeout, CutBlock, Idle

\* Serializability, for every set of contracts, requests and ids, every length
\* of block, every lag of the peers and every number of second copies: the
\* valid transactions are applied one after another, each at most once and
\* each as evmcc would have executed it at that moment.
THEOREM Serializable == Spec => ImplementsSerialEvm
<1>1. Spec => Serial!Init /\ [][Serial!Next]_Serial!vars
  BY InitRefines, NextRefines, LedgerInvariant, PTL DEF Spec
<1> QED BY <1>1 DEF ImplementsSerialEvm, Serial!Spec
=============================================================================
