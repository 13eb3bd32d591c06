# fabric-chaincode-evm: a TLA+ model

fabric-chaincode-evm runs Ethereum contracts on Hyperledger Fabric. **evmcc** is a
chaincode that embeds the Burrow EVM and keeps contract accounts and their storage in
Fabric's world state; **fab3** is a proxy that answers Ethereum JSON-RPC requests from a
Fabric channel. The modules here model the two, TLC checks them on small instances, and
TLAPS proves every safety property and every refinement the runs check for all instances:
of the state manager, the EVM's caches, the filter registry, the ledger readers, the
submission of transactions and fab3's life cycle. Liveness is model-checked.

`PROJECT.json` lists the components, the runs, the line of code behind every definition,
the findings, the hazards and the theorems.

## The system

| Part | State | Operations | Hard because |
|---|---|---|---|
| State manager (`evmcc/statemanager`) | a cache of words written by the transaction; the stub's read and write sets | GetAccount, GetStorage, UpdateAccount, RemoveAccount, SetStorage | GetState does not see the write set, zero means deletion, four places spell the same key, what is read decides what validation protects |
| EVM chaincode (`evmcc/evmcc.go`) | none between transactions | Invoke: deploy, call, getCode, account | several fallible steps, of which only a complete success may be committed |
| Burrow caches (`acmstate`, `evm.State`) | one write-back cache per call frame, with removed and updated marks | load, update, remove, store, Sync into the frame below | nested failure, accounts removed and made again, read-only frames |
| Event manager (`evmcc/eventmanager`) | logs collected so far | Log, Flush | shared by all frames, outside their roll-back |
| Filter registry (`fab3/ethservice.go`) | filterSeq, filterMap, a mutex | NewFilter, UninstallFilter | one goroutine per request |
| Ledger readers (`fab3/ethservice.go`, `types.go`) | none; the channel's ledger | GetLogs, GetTransactionReceipt, GetTransactionByHash, GetBlockByNumber, BlockNumber | each makes several queries, between which the chain grows, answered by peers that may lag |
| Submission (`fab3/ethservice.go`) | none; the channel's | SendTransaction, Call, GetCode, Accounts | transactions are simulated side by side on peers that lag, delivered twice or late, and a time-out does not tell whether the transaction will be committed |
| fab3 server (`fab3.go`, `cmd/main.go`, `codec.go`) | SDK, listener, errChan, signalChan, connections | checkFlags, runFab3, Start, Shutdown, Method | main, the server's goroutine, one goroutine per request and signals race |
| Constant replies, address converter | none | | pure functions |

A client's request reaches fab3, which either queries the ledger (readers) or has the
channel execute or query evmcc. evmcc's Invoke makes a state manager over the stub, an EVM
state over the state manager and an event manager over the stub, runs one message call,
flushes the logs as the transaction's event and syncs the EVM's outermost cache into the
state manager. Fabric commits the write set and the event of a valid transaction as a
whole. fab3 finds the events again in the blocks: the readers and the event manager meet
only there.

## Modules

| Module | What it is | Code |
|---|---|---|
| `ContractStore` | abstract: accounts and slots that change by whole transactions | what the EVM expects of the state manager |
| `StateManager` | the five methods over the stub, commit and discard; refines `ContractStore` | `statemanager.go` |
| `StateManagerProofs` | theorems | |
| `NestedTx` | abstract: a stack of calls, each running, returned or failed, with a world of accounts of its own | what a message call promises |
| `EvmChaincode` | Invoke, the call stack with its caches, the instructions that touch state, Flush, Sync; instantiates `StateManager`; refines `NestedTx` | `evmcc.go`, `eventmanager.go`, Burrow's `vm.go`, `state.go`, `state_cache.go` |
| `SequenceLemmas` | lemmas: least elements, induction, `FlattenSeq` | |
| `EvmChaincodeProofs` | theorems: the caches, Sync, what a transaction may change | |
| `EvmNestedProofs` | theorem: the refinement of `NestedTx` | |
| `FilterStore` | abstract: a registry with atomic Install and Remove | what filter methods promise |
| `FilterRegistry` | both methods, one step per access to shared state; refines `FilterStore` | `ethservice.go` 530-555 |
| `FilterRegistryProofs` | theorems | |
| `LedgerReader` | the read methods, one step per ledger query, against a growing chain | `ethservice.go`, `types.go` |
| `LedgerReaderProofs` | theorems: the handler, ranges, listings, logs and receipts | |
| `EvmRequest` | a client's request and its effect on a world of contracts | `evmcc.go`, `EthArgs` |
| `SerialEvm` | abstract: requests take effect one after another, each at most once | what clients of the channel may rely on |
| `FabricEvm` | SendTransaction, endorsement, ordering, validation and commit of several requests; refines `SerialEvm` | `ethservice.go` 136-152, `evmcc.go`, `state_cache.go`; Fabric external |
| `FabricEvmProofs` | theorems | |
| `Fab3Server` | runFab3, the HTTP server, its connections and the codec | `main.go`, `fab3.go`, `codec.go`, handlers of `ethservice.go` and `netservice.go` |
| `Fab3ServerProofs` | theorems | |
| `MC*` | instances for TLC | |

Definitions whose comment starts with *Faulty:* are variants of the definition that follows
them with a mistake that would be easy to make; no specification uses them. Each shows that
one of the properties fails when the code is wrong in that way.

### How state and actions correspond to the code

*StateManager.* `ledger`, `reads`, `writes` are the committed world state and the
simulation's sets, `cache` is `stateManager.cache`, `ret` the result of the last call. A key
is a triple of the letter case it is spelled in, the address and the storage key, so that
the two spellings in the code (`strings.ToLower(address.String())` and
`hex.EncodeToString`) are different functions that must be shown to agree. Every stub call
may fail. `Commit` and `Discard` are Fabric's. `Failed` abstracts the errors of encoding
and decoding an account with those of the stub.

*EvmChaincode.* `phase` is the place in Invoke. A frame is an `evm.State` with its cache;
`AcctIn` and `WordIn` look through the frames as nested cache misses do, `Load` and
`LoadWord` are what these misses leave behind, and only a miss in all of them calls the state
manager. `Synced` is `Cache.Sync` into the frame below, `SyncCalls` the calls the outermost
Sync makes on the state manager, `SyncStep` one of them. A contract may execute any
sequence of SLOAD, SSTORE, LOG, the call family, CREATE, CREATE2, RETURN, STOP, REVERT and
SELFDESTRUCT; arithmetic, memory and jumps only determine the sequence, so it is left open.
`Revert` also stands for every other failure (gas, stack, jumps, a failed read), which may
strike at any time. Balances are always 0: there is no source of value, a transfer of 0 is a
no-op and one of more fails like any other instruction. The read of Burrow's global
permissions account, which never exists, is left out. An address from a nonce comes up once;
CREATE2's may come up again. Native contracts are left out; BLOCKHASH always fails, as the
block height is 0, before it gets to the function that would panic. Users have no account:
an address where nothing was deployed stands for them, too. `Limits` are bounds: a behaviour
keeps to one of them. For the refinement, `CallStack` reads a stack of `NestedTx` off the frames:
each call with its callee, whether it is a creation, the world its cache shows, and how it stands
(`Status`): failed if its `evm.State` has an error, returned once the EVM is left, else
running. The length of the call data, which matters only for the event's name, is
chosen at `Flush`: 1 to 7 digits may or may not panic, since Go bounds a slice expression by
the capacity.

*FilterRegistry.* `pc`, `arg`, `index` and `removed` are the locals of each handler;
`granted`, `removals` and `accepted` are history.

*LedgerReader.* One handler suffices, as readers share nothing but the ledger. A block
is a sequence of transactions with type, id, validity, arguments and events; a hexadecimal string is
its value and its letter case. Of a transaction's arguments it matters whether
`getTransactionInformation` can make anything of them and their sender (`Unparsable`), and if so whether
`GetTransactionReceipt` can take the first for an address (`NoReceipt`): both may fail for
transactions of other chaincodes. `Heights` are the heights a queried peer may have: a query can
only be answered by a peer that has the block, or fails. The fields of a reply the properties do not mention
(from, to, input, parent hash) are left out.

*FabricEvm.* A request says which words the code it reaches loads and stores and whether it
ends in SELFDESTRUCT or deploys; what it stores is a function of what it loaded, so that a
transaction built on stale words is seen. Its simulation is one step, from the state of a
peer (`Recent`) to the versions it read (`ReadKeys`) and the values it writes (`WriteSet`):
the state manager's and the caches' contribution, shown in detail by the two modules
above. Of these, `WriteSet` keeps what matters here: Sync writes the record of every updated
account and each of its cached words, also those only read. `SendTransaction` is fab3's
call of Execute up to the endorsement by two peers that must agree; `Broadcast`, `CommitEvent`
and `Timeout` are its further ways. `sent` tells fab3's three kinds of answer
apart: an id, an error of a transaction that cannot take effect, and one that leaves it
open. `worlds` are the committed states by block, `batch` and `flags` the block
under validation.

*Fab3Server.* `pc` is the place in runFab3, `start` the goroutine of `proxy.Start()`,
`errChan` and `signalChan` the channels (whether their one place is taken). A
connection is accepted, reads a request's header, then its body, and runs its handler, which either
uses the SDK or does not; the readers, the filters and SendTransaction have
modules of their own. A panic of the codec ends the request and its connection only. net/http is taken
at its documentation: Shutdown closes the listener, waits for requests under way and closes
idle connections; after it ListenAndServe refuses to start.

## Runs

Passing runs:

* **state_manager** (1 address, 2 keys, 2 words, 1 account record; all reachable states).
  Two keys let a write disturb another key, two words let a second write differ from the
  first. `CacheFromOwnWrites` and `WordsAreCached`: the cache holds only and all of the
  transaction's own words; nothing survives an Invoke. `ReadsExplained`: what a read may
  return, and that an unwritten key that was read is in the read set. `Canonical`: one
  spelling per key, zero is absence. `ImplementsContractStore`: refinement.
* **filters** (2 handlers, 2 filters, 2 creations, ids to 2, malformed ids). `DistinctIds`,
  `RemovedOnce`, `GrantedStaysInstalled`, `ImplementsFilterStore` (requests take effect one at
  a time) and `EveryRequestAnswered`. Two handlers are what a race takes; the proofs cover any
  number. Liveness assumes that a handler's goroutine runs on and that `sync.Mutex` starves
  nobody, which its hand-over to waiters after one millisecond guarantees: weak fairness of a
  handler's steps, strong fairness of its locking.
* **evm** (3 addresses: two that can come from a nonce, one from CREATE2; 1 key, 1 word, 1
  code; either 3 transactions of 2 instructions with 2 frames, or 2 transactions of 4
  instructions with 3 frames and one address from a nonce). Three transactions are what it takes to
  deploy, remove and make again; three frames what it takes for a call inside a STATICCALL, and
  for a merge into a frame that is itself merged.
  `ImplementsNestedTx`: `NestedTx` drops a call exactly if it has failed and hands the world of one
  that has not to its caller, with the account itself as it was but for a new account's code or
  a self-destruction, or fails the caller if an account is missing; only an outermost call
  that has returned is committed. `StaticCallPure`: at every depth.
  `EvmReadsOwnWrites`: the finding below about zero
  writes is out of the EVM's reach, because every read comes before the first write.
  `RecordsImmutable`: a contract's record can disappear but never change. `SlotsNeedAccount`.
* **ledger_reader** (chains of up to 4 blocks drawn from 6 contents: configuration, duplicate ids in
  a block, an invalid before a valid transaction, no event, a foreign event, foreign arguments; 12 parameter sets; peers
  1 block behind). `LogsExact`, `LatestIsFresh`, `SameNameNoInversion`, `ReceiptTruthful`.
  `ListedHaveReceipts`: asked for the id of a listed transaction, then or later,
  eth_getTransactionReceipt answers with status 1 and the same block and index. Transactions fab3
  cannot decode are excepted: eth_getBlockByNumber lists them by id, but they have no
  receipt.
* **fabric** (3 transactions, blocks of up to 2, peers up to 1 block behind; the first may be
  ordered twice; 2 contracts with 2 slots, and one that may be deployed). The requests are a transfer
  between two contracts that may revert, a call that loads one slot and stores another, one
  that removes its contract, one to a contract that may or may not exist yet, and a
  deployment; the third repeats the first, as a client's retry. Three are what it takes for one
  transaction to invalidate another that a retry follows. `ImplementsSerialEvm`:
  valid transactions change the world as if executed one after another at their commit, each
  at most once. `ToldTruth`: an id that was returned is valid, a refusal final.
  `OneUpdatePerVersion`: of the calls that update one contract, simulated on one state, a
  single one can be valid, even if they touch different slots. `ConflictsExplained`: a
  transaction is invalid only on account of another, valid one (it is about the model of Fabric's
  validation more than about evmcc). `SendAnswered` assumes that the SDK goes on with
  what it has begun (its time-outs see to that); no fairness is assumed of the time-out
  against the event, of clients, or of orderer and peers, which may stop.
* **fab3_server** (3 connections, 2 signals: one to be taken and one to go unheard).
  `SdkOutlivesRequests`, `CleanExit`: requests are over when the SDK is closed, and every exit
  closes it. `SignalEnds`, `FailureEnds` assume that goroutines run on, that
  Serve returns when its listener is closed, and that SDK calls end (time-outs). Nothing is
  assumed of clients: one that never sends the end of its request keeps Shutdown waiting for
  ever, since the server has no time limits, and the properties say so.

Deadlock is checked in all of them. In `FabricEvm`, `Idle` is enabled only when nothing is under
way, so that a transaction stuck half-way would be found.

Runs that show a disagreement between the code and what the repository says of it:

| Run | What the code does | What is said |
|---|---|---|
| state_manager_ryw | GetStorage after SetStorage(zero) returns the old word | `statemanager_test.go:129` |
| evm_revert_logs | logs of reverted sub-calls stay in the event | `release_notes/v0.2.0.md:10` |
| evm_event_name | empty call data ends in a panic | `evmcc.go:161-162` |
| topic_case | topics in upper case match nothing | `release_notes/v0.4.0.md:22-23` |
| foreign_event | another chaincode's transaction or event fails eth_getLogs | `ethservice.go:423` |
| config_block | full eth_getBlockByNumber fails on configuration blocks | `Fab3_Instructions.md:180-182` |

The first is latent: `EvmReadsOwnWrites` shows that evmcc as it is cannot run into it.

Two more consequences of the code are in the model without a run of their own: a contract made by
CREATE or CREATE2 gets no permissions, so its own calls fail (`Creating`, `CALL`), and a
contract that calls a user's address fails, since users have no account (`CALL`).

## Proofs

`StateManagerProofs`, for every set of addresses, keys, words and records
(`ConstantsAssumption`: the sentinels differ from the values and there is an address):

* `TypeCorrect`.
* `CacheSound`, `WordsCached`: `CacheFromOwnWrites` and `WordsAreCached` together are inductive;
  neither is alone, as a cached word may be overwritten by a deletion and then by a word again.
* `ReadsSound`: `ReadsExplained` needs the cache invariant, for a read served from the cache.
* `LedgerCanonical`: the invariant is `Canonical` for the ledger and its counterpart for the write
  set, by `KeyForms` (the spellings of a key agree).
* `Refinement`: initial states map to initial states and each step to a step of
  `ContractStore`, by lemmas on how one entry of the write set changes the views; a closed
  transaction has an empty write set.

`FilterRegistryProofs`, for any number of handlers, filters and requests:

* `TypeCorrect`, with the fact that a handler's request is of the kind its method takes.
* `RegInv`: a handler is between Lock and Unlock exactly if it holds the mutex (`Mutex`), and
  what the holder has read of counter and map is still true (`MapInv`). `Refinement` follows:
  NewInsert is Install, DelDelete is Remove, every other step stutters.
* `IdsDistinct`, `RemovalOnce`, `GrantKept`: `GrantInv`, `RemovalInv` and `HoldInv` extend the
  statements about answered requests to those about to be answered.

`Fab3ServerProofs`, for any number of connections and signals:

* `TypeCorrect`.
* `SdkLast` and `ExitClean` from `LifeInv`: where the SDK is at each place of runFab3 (`SdkInv`);
  that an error reaching the select is the listener's own (`StartInv`), so that without such a failure the
  only way to the closing of the SDK is through Shutdown (`SignalInv`), after which nobody is
  connected (`ConnInv`).

`EvmChaincodeProofs`, for any addresses, keys, words, codes and limits, so for any number and
depth of calls. `CachesConsistent` is the inductive invariant `EInv`:

* `FramesInv` is about the caches. An account in a cache is in all caches below it, and an
  updated one exists (`LoadedDown`); without that, a merge could mark an account of the caller
  as updated that the caller has never loaded. A read-only cache holds what the caches below
  it would answer (`StaticFrames`). A record of the ledger is cached as it is, unless a cache
  further down has it removed (`RecordFrames`), and what is under creation is not on the
  ledger, unless a cache further down has it removed (`CreateFrames`).
* `SyncInv` is about the way from the outermost cache to the ledger: before Sync nothing is
  written; during Sync every key has its final value, `Target`, or has none and a call for it
  is still to be made; after it the write set is `Target`.
* `LedgerInv`, `WritesInv`, `ReadsInv`: values are of the kind their keys call for; a read
  comes before all writes.

From it: `EvmTypes`, `EvmReads` (`EvmReadsOwnWrites`), `StaticCalls` (`StaticCallPure`: equal lookups at
each level, one level at a time), `RecordsStay` (`RecordsImmutable`) and `SlotsHaveAccounts`
(`SlotsNeedAccount`), the last two from what `Target` is for the only frame left at the end. Each
operation on the caches (load, update, remove, store, push, pop, merge) has a lemma that it keeps
`Good`, and what the caches below answer; every instruction is put together from these.

`EvmNestedProofs` has one theorem, `Nesting` (`ImplementsNestedTx`), under the same assumptions.
Two invariants are added to `EInv`:

* `Clean`: what a cache holds of an account that it has neither removed nor updated is what the
  caches below it would answer. `EInv` says so of read-only caches and of records of the ledger only.
  Without it the refinement would fail where a cache is left: Cache.Sync passes over entries that are
  not marked, so an unmarked difference would be seen during the call and lost after it.
* `Ended`: after the EVM the outermost call's frame is the only one left, and it has no error when
  Flush and Sync begin and when a transaction has succeeded. So only a returned call is committed.

`Shown(fs, p, a)` is what the frames up to p show of account a, so one entry of the abstract stack.
Each operation on the caches has a second lemma (`LoadTidy`, `UpdateTidy`, `StoreTidy`, ...,
`SyncedTidy`): it keeps caches clean, and what it does to `Shown` is one of four things: it touches one
account of the innermost world (`Touches`), pushes a copy (`Pushes`), drops the innermost (`Drops`) or
hands it down (`HandsDown`). These compose: a touch after a push is a push that differs in that
account, which is what CREATE does; a touch before a return is a return that differs in it, which is what
SELFDESTRUCT and the return of a CREATE do, and only because both touch the callee's own account. They are
the abstract Work, Call, Failing and Succeed (`NestedWork`, ...). `Touches`, `Drops` and
`HandsDown` also say whose error is set: a dropped frame had failed, or its caller fails
(FailCaller); one handed down had not. What a call leaves of its own account (`Leaving`) needs a third
kind of lemma, which says what an operation makes of that account where it does not fail
(`UpdateShows`, `CreateShows`, `InitCodeShows`, `RemoveShows`): a creation starts where there was no
account and ends with nothing but the code changed. For Commit, `NestedCommit` shows that
`Target` of the only frame, applied to the ledger, is the world that frame showed: marked entries by
what `Target` is, the others because the frame is clean. Every other step stutters.

`LedgerReaderProofs`, for chains of any length, blocks of any transactions,
any filters and any lag of the peers:

* `ReaderTypes`, `LatestFresh` (`LatestIsFresh`) and `NoInversion` (`SameNameNoInversion`) from `HInv`: what the handler
  knows at each point. A resolved `latest` was the end of the chain no earlier than `MaxLag` before
  the request (`Recent`), and with equal names there is one number only, since the second
  resolution is skipped.
* `ListedAreFound` (`ListedHaveReceipts`): the first valid transaction of an id stays the first when the chain
  grows, so the receipt of a listed transaction (`ReceiptOf`) is and stays its own, with status 1.
* `GetLogsExact` (`LogsExact`): after each block scanned, `txLogs` is exactly the matching logs of the blocks
  from `from` to there (`ScannedInv`). A loop that appends is exact if every pass is and later passes
  append later logs (`FlattenExact`), applied to a transaction's events, then to a block's.
* `ReceiptsTruthful` (`ReceiptTruthful`).

`FabricEvmProofs`, for any contracts, requests, block size, lag, duplication:

* `LedgerInvariant`: `IInv` says that a version is never given to two entries (`WorldsInv`, `BatchInv`), that what is
  under way was endorsed in some committed state (`SentInv`), and that an id that was refused
  never was, or is invalid. From it `FabricTypes` and `AnswersAreTrue` (`ToldTruth`).
* `ConflictsHaveCauses` (`ConflictsExplained`): a key's version changes only by a valid transaction that writes it (`WrittenInv`).
* `OneUpdateEach` (`OneUpdatePerVersion`): the version of its record that a valid update has read is gone for good
  (`SupersededInv`).
* `Serializable` (`ImplementsSerialEvm`): states that agree on a key's version agree on its value; a request's
  effect depends only on the keys it reads (`SameReadsSameWrites`); so what was simulated on an old state is
  what execution on the current one would do (`WritesAreTheEffect`). Validation of a transaction in a block is
  the abstract step; cutting and committing stutter.

Assumptions on constants: markers (`Absent`, `Unset`, `NoCode`, ...) differ from the values they stand beside,
as nil, false and zero do in the code; addresses from CREATE and from CREATE2 never coincide
(hashes of differently built texts); the blocks and queries are of the types the protocol buffers
and JSON give them. TLC evaluates each of them in the runs.

`SequenceLemmas` has what the others keep needing. The library's induction theorems take an operator
as a parameter, which the provers cannot instantiate. `Induction` says it of a set of numbers
instead: of the naturals up to n that have a property. With it `Flattened` finds every element of
`FlattenSeq(seqs)` in one of `seqs`, in order.

Only model-checked: liveness (`EveryRequestAnswered`, `SendAnswered`, `SignalEnds`,
`FailureEnds`), which is beyond the prover under fairness.

## Not modelled

Gas accounting, arithmetic, memory and native contracts of the EVM: which instruction comes
next is a free choice. The JSON and protobuf forms, the sources of fab3's settings and the
conversion of an identity to an address: sequential text and hash functions, whose failures are
error paths of the model. Mocks, examples and integration tests. Fabric itself appears only
as far as the code relies on it: one endorsement policy (two peers), no configuration updates, no
retries configured in the SDK (fab3 asks for none). eth_call and eth_getCode are answered by
one peer from its last block; nothing validates the answer, and the repository promises
nothing about its freshness, so there is no property of it.

## Plan

1. The events of the blocks `FabricEvm` commits, as `LedgerReader` finds them.
2. Gas as a counter with the 63/64 rule of nested calls, if it can be kept small.
