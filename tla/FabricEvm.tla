----------------------------- MODULE FabricEvm -----------------------------
(***************************************************************************)
(* Clients, fab3, evmcc and the channel together.  fab3's SendTransaction  *)
(* hands a request to the SDK's Execute: endorsing peers, each on its own  *)
(* last block, simulate evmcc; an orderer puts the transactions that were  *)
(* endorsed alike into blocks; the peers validate each by the versions it  *)
(* read; fab3 is told by the commit event, or gives up before it comes.    *)
(*                                                                         *)
(* SDK, peers and orderer are external.  A simulation is one step here:    *)
(* StateManager and EvmChaincode show what goes on inside it.              *)
(***************************************************************************)
EXTENDS EvmRequest, Naturals, Sequences, FiniteSets

CONSTANTS
  Asks,       \* by id, the requests that may be sent under it
  NoKey,      \* the key suffix of an account's record
  Record,     \* an encoded account record
  Absent,     \* no value
  NoVersion,  \* the version of a key without value
  Unset,      \* no entry
  MaxTx,      \* transactions per run: Id is 1 .. MaxTx
  MaxBlock,   \* transactions per block
  MaxCopies,  \* by id, how often the orderers accept its envelope
  Lag         \* how many blocks a peer may be behind

ASSUME FabricConstants ==
  /\ MaxTx \in Nat /\ MaxBlock \in Nat \ {0} /\ Lag \in Nat
  /\ Id = 1 .. MaxTx /\ MaxCopies \in [Id -> Nat \ {0}] /\ Asks \in [Id -> SUBSET Request]
  /\ NoKey \notin Slot /\ Record # Absent /\ Absent \notin Word \cup {Zero}
  /\ \A id \in Id : NewContract[id] \notin Genesis.live

\* A key's version is the block and the transaction that wrote it last.
Values == Word \cup {Record, Absent}
Versions == (Nat \X Nat) \cup {NoVersion}
Entries == [val : Values, ver : Versions]

ASSUME MarkerAssumption == NoVersion \notin Nat \X Nat /\ Unset \notin Entries

VARIABLES
  worlds,   \* committed world states, by block: key -> value and version
  batch,    \* the updates of the block being validated
  block,    \* the ids in that block
  flags,    \* whether they are valid, as far as validated
  asked,    \* by id, its request
  txs,      \* by id, the endorsed transaction: versions read, values written
  pending,  \* by id, the envelopes accepted and not yet in a block
  outcome,  \* by id, "none" or what the ledger's index says: "valid", "invalid"
  sent      \* by id, where SendTransaction is: "new", "order" (endorsed), "commit"
            \* (waiting for its event), or its reply: the "id", an error as the
            \* transaction was "rejected", or one that leaves its fate "open"

peers == <<worlds, batch, block, flags, outcome>>
vars == <<peers, asked, txs, pending, sent>>

----------------------------------------------------------------------------
(* World states.                                                           *)

WorldKey == Contract \X (Slot \cup {NoKey})
Entry(val, ver) == [val |-> val, ver |-> ver]
NoEntry == Entry(Absent, NoVersion)

\* The versions are those of block 0.
GenesisState ==
  [key \in WorldKey |->
     IF key[2] = NoKey THEN IF key[1] \in Genesis.live THEN Entry(Record, <<0, 0>>) ELSE NoEntry
     ELSE IF Genesis.words[key] = Zero THEN NoEntry ELSE Entry(Genesis.words[key], <<0, 0>>)]

LeftPadWord256(val) == IF val = Absent THEN Zero ELSE val

\* The world of contracts in a state.
View(st) ==
  [live  |-> {c \in Contract : st[<<c, NoKey>>].val # Absent},
   words |-> [s \in Contract \X Slot |-> LeftPadWord256(st[s].val)]]

Current == worlds[Len(worlds)]
Overlay(st, b) == [key \in WorldKey |-> IF b[key] = Unset THEN st[key] ELSE b[key]]
NoUpdates == [key \in WorldKey |-> Unset]

\* The states peers may be in.
Recent == {worlds[h] : h \in {i \in DOMAIN worlds : i + Lag >= Len(worlds)}}

----------------------------------------------------------------------------
(* evmcc on a peer in state st.                                            *)

\* The keys GetState is asked for.
ReadKeys(q, id, st) ==
  IF q.to = ZeroAddress THEN {<<NewContract[id], NoKey>>}
  ELSE IF Nothing(q, View(st)) THEN {<<q.to, NoKey>>}
  ELSE q.rd \cup {<<c, NoKey>> : c \in Reached(q)}

\* Faulty: a zero word is put like any other.
PutZero(word) == word

\* SetStorage: a zero word deletes the key.
Put(word) == IF word = Zero THEN Absent ELSE word

\* Faulty: Sync writes the words a call has changed, and not the record of their account.
WriteSetNoRecord(q, id, st) ==
  IF Nothing(q, View(st)) THEN <<>>
  ELSE [key \in IF q.to = ZeroAddress THEN {<<NewContract[id], NoKey>>} ELSE q.wr |->
          IF key[2] = NoKey THEN Record ELSE Put(Stored(q, key, Loaded(q, View(st))))]

\* What Sync makes of the outermost cache: for an account that was updated the
\* record and every cached word, also those only read; for a removed account
\* nothing but the removal.
WriteSet(q, id, st) ==
  LET new == NewContract[id]
      updated == {s[1] : s \in q.wr} \cup ({q.heir} \ {NoHeir})
      removed == IF q.heir = NoHeir THEN {} ELSE {q.to}
      kept == updated \ removed
      cached == {s \in q.rd \cup q.wr : s[1] \in kept}
      seen == Loaded(q, View(st))
  IN
  IF q.to = ZeroAddress
  THEN [key \in {<<new, s>> : s \in DOMAIN q.init \cup {NoKey}} |->
          IF key[2] = NoKey THEN Record ELSE Put(q.init[key[2]])]
  ELSE IF Nothing(q, View(st)) THEN <<>>
  ELSE [key \in cached \cup {<<c, NoKey>> : c \in kept \cup removed} |->
          IF key[2] = NoKey THEN IF key[1] \in removed THEN Absent ELSE Record
          ELSE Put(IF key \in q.wr THEN Stored(q, key, seen) ELSE seen[key])]

Tx(q, id, st) ==
  [reads  |-> [key \in ReadKeys(q, id, st) |-> st[key].ver],
   writes |-> WriteSet(q, id, st)]
NoTx == [reads |-> <<>>, writes |-> <<>>]

----------------------------------------------------------------------------
(* fab3 and the SDK.                                                       *)

Init ==
  /\ worlds = <<GenesisState>> /\ batch = NoUpdates /\ block = <<>> /\ flags = <<>>
  /\ asked = [id \in Id |-> NoRequest]
  /\ txs = [id \in Id |-> NoTx]
  /\ pending = [id \in Id |-> 0]
  /\ outcome = [id \in Id |-> "none"]
  /\ sent = [id \in Id |-> "new"]

Become(id, st) == sent' = [sent EXCEPT ![id] = st]

\* SendTransaction calls Execute, which draws a new id and has two peers
\* simulate: both must be reached and succeed, with the same read and write
\* sets.  A client that retries sends the same request again, for another id.
SendTransaction(id, q) ==
  /\ sent[id] = "new" /\ \A i \in 1 .. id - 1 : sent[i] # "new"
  /\ asked' = [asked EXCEPT ![id] = q]
  /\ \/ \E s, t \in Recent :
          /\ Succeeds(q, id, View(s)) /\ Succeeds(q, id, View(t))
          /\ Tx(q, id, s) = Tx(q, id, t)
          /\ txs' = [txs EXCEPT ![id] = Tx(q, id, s)]
          /\ Become(id, "order")
     \/ Become(id, "rejected") /\ UNCHANGED txs
  /\ UNCHANGED <<peers, pending>>

\* The SDK tries one orderer after another: one that took the envelope may seem
\* to have failed.  When all seem to have failed Execute returns an error.
Broadcast(id) ==
  /\ sent[id] = "order"
  /\ \E n \in 0 .. MaxCopies[id] :
       /\ pending' = [pending EXCEPT ![id] = n]
       /\ \/ n > 0 /\ Become(id, "commit")
          \/ n < MaxCopies[id] /\ Become(id, "open")
  /\ UNCHANGED <<peers, asked, txs>>

\* Faulty: the id is returned whatever the event says.
CommitEventAnyFlag(id) ==
  /\ sent[id] = "commit" /\ outcome[id] # "none"
  /\ Become(id, "id")
  /\ UNCHANGED <<peers, asked, txs, pending>>

\* The commit event of the transaction's first occurrence.
CommitEvent(id) ==
  /\ sent[id] = "commit" /\ outcome[id] # "none"
  /\ Become(id, IF outcome[id] = "valid" THEN "id" ELSE "rejected")
  /\ UNCHANGED <<peers, asked, txs, pending>>

\* Execute gives up waiting; the transaction goes its way.
Timeout(id) ==
  /\ sent[id] = "commit"
  /\ Become(id, "open")
  /\ UNCHANGED <<peers, asked, txs, pending>>

----------------------------------------------------------------------------
(* Orderer and peers.                                                      *)

Copies(s, id) == Cardinality({i \in DOMAIN s : s[i] = id})

\* Any envelopes accepted so far, in any order.
CutBlock(s) ==
  /\ block = <<>>
  /\ \A id \in Id : Copies(s, id) <= pending[id]
  /\ block' = s
  /\ pending' = [id \in Id |-> pending[id] - Copies(s, id)]
  /\ UNCHANGED <<worlds, batch, flags, outcome, asked, txs, sent>>

Duplicate(n) == outcome[block[n]] # "none" \/ \E m \in 1 .. n - 1 : block[m] = block[n]

\* Faulty: versions are compared with the last block's only, not with the updates
\* of the transactions before this one in the block.
FreshBeforeBlock(tx) == \A key \in DOMAIN tx.reads : tx.reads[key] = Current[key].ver

\* Every key read has the version it was read at, and no transaction before
\* this one in the block has written it.
Fresh(tx) ==
  \A key \in DOMAIN tx.reads : batch[key] = Unset /\ tx.reads[key] = Current[key].ver

Validate ==
  LET n == Len(flags) + 1
      tx == txs[block[n]]
      ok == ~Duplicate(n) /\ Fresh(tx) IN
  /\ n <= Len(block)
  /\ flags' = Append(flags, ok)
  /\ batch' = IF ok
              THEN [key \in WorldKey |->
                      IF key \in DOMAIN tx.writes
                      THEN IF tx.writes[key] = Absent THEN NoEntry
                           ELSE Entry(tx.writes[key], <<Len(worlds), n>>)
                      ELSE batch[key]]
              ELSE batch
  /\ UNCHANGED <<worlds, block, outcome, asked, txs, pending, sent>>

\* Faulty: the index of ids keeps the last occurrence.
IndexedLast ==
  [id \in Id |->
     IF \A n \in DOMAIN block : block[n] # id THEN outcome[id]
     ELSE LET n == CHOOSE m \in DOMAIN block :
                     block[m] = id /\ \A l \in DOMAIN block : block[l] = id => l <= m
          IN IF flags[n] THEN "valid" ELSE "invalid"]

\* The index of ids keeps the first occurrence of each.
Indexed ==
  [id \in Id |->
     IF outcome[id] # "none" \/ \A n \in DOMAIN block : block[n] # id THEN outcome[id]
     ELSE LET n == CHOOSE m \in DOMAIN block :
                     block[m] = id /\ \A l \in DOMAIN block : block[l] = id => m <= l
          IN IF flags[n] THEN "valid" ELSE "invalid"]

CommitBlock ==
  /\ block # <<>> /\ Len(flags) = Len(block)
  /\ worlds' = Append(worlds, Overlay(Current, batch))
  /\ outcome' = Indexed
  /\ batch' = NoUpdates /\ block' = <<>> /\ flags' = <<>>
  /\ UNCHANGED <<asked, txs, pending, sent>>

Blocks == UNION {[1 .. n -> Id] : n \in 1 .. MaxBlock}

\* Nothing is under way, and no client sends anything.
Idle ==
  /\ \A id \in Id : sent[id] \notin {"order", "commit"} /\ pending[id] = 0
  /\ block = <<>>
  /\ UNCHANGED vars

\* Faulty: Execute waits for a valid commit, however long.
SendingUntilValid(id) == Broadcast(id) \/ (outcome[id] = "valid" /\ CommitEvent(id))

\* Execute after the endorsement.
Sending(id) == Broadcast(id) \/ CommitEvent(id) \/ Timeout(id)

Next ==
  \/ \E id \in Id : \E q \in Asks[id] : SendTransaction(id, q)
  \/ \E id \in Id : Sending(id)
  \/ \E s \in Blocks : CutBlock(s)
  \/ Validate
  \/ CommitBlock
  \/ Idle

Spec == Init /\ [][Next]_vars

\* The SDK goes on with what it has begun, at the latest when its time-outs
\* strike.  Orderer and peers may stop: nothing is assumed of them.
FairSpec == Spec /\ \A id \in Id : WF_vars(Sending(id))

----------------------------------------------------------------------------
(* Properties.                                                             *)

IsTx(tx) == DOMAIN tx.reads \subseteq WorldKey /\ DOMAIN tx.writes \subseteq WorldKey

\* Types of the peers', the orderer's and fab3's state.
TypeOK ==
  /\ \A h \in DOMAIN worlds, key \in WorldKey : worlds[h][key].val \in Values
  /\ \A key \in WorldKey : batch[key] # Unset => batch[key].val \in Values
  /\ block \in Blocks \cup {<<>>} /\ flags \in Seq(BOOLEAN) /\ Len(flags) <= Len(block)
  /\ asked \in [Id -> Request \cup {NoRequest}] /\ \A id \in Id : IsTx(txs[id])
  /\ pending \in [Id -> Nat] /\ outcome \in [Id -> {"none", "valid", "invalid"}]
  /\ sent \in [Id -> {"new", "order", "commit", "id", "rejected", "open"}]

Valid == {id \in Id : outcome[id] = "valid"} \cup {block[n] : n \in {m \in DOMAIN flags : flags[m]}}

Serial == INSTANCE SerialEvm WITH
  world <- View(Overlay(Current, batch)),
  applied <- Valid

\* Serializability: though transactions are simulated side by side, on peers
\* that are behind, and write back words they have only read, every valid one
\* changes the world exactly as evmcc would at the moment of its commit, and
\* at most once for an id, however often its envelope was delivered.
ImplementsSerialEvm == Serial!Spec

\* SendTransaction's answers are true for good: an id stands for a transaction
\* that is valid on the ledger; a transaction reported as refused or invalid
\* never takes effect.  After a time-out or a failed broadcast either may be.
ToldTruth ==
  /\ \A id \in Id : sent[id] = "id" => outcome[id] = "valid"
  /\ \A id \in Id : sent[id] = "rejected" => id \notin Valid

Updates(tx, c) == \E key \in DOMAIN tx.writes : key[1] = c

\* Each version of a contract's record is replaced by at most one valid
\* transaction: of the calls that update one contract, simulated on the same
\* state, only one can be valid, whichever slots they touch.
OneUpdatePerVersion ==
  \A i, j \in Valid, c \in Contract :
    i # j /\ Updates(txs[i], c) /\ Updates(txs[j], c) =>
      txs[i].reads[<<c, NoKey>>] # txs[j].reads[<<c, NoKey>>]

\* A transaction is only ever invalid because another one, valid, wrote
\* something it had read: never on account of its own second copy, and never
\* in such a way that everybody fails.
ConflictsExplained ==
  \A i \in Id : outcome[i] = "invalid" =>
    \E j \in Valid \ {i} : DOMAIN txs[j].writes \cap DOMAIN txs[i].reads # {}

\* Every eth_sendTransaction is answered, also when its transaction never
\* makes it into a block.
SendAnswered ==
  \A id \in Id : (sent[id] # "new") ~> (sent[id] \in {"id", "rejected", "open"})
=============================================================================
