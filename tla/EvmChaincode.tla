---------------------------- MODULE EvmChaincode ----------------------------
(***************************************************************************)
(* evmcc's Invoke: one Fabric transaction runs one EVM message call on top *)
(* of the state manager.  Burrow's EVM keeps one write-back cache per call *)
(* frame; a sub-call that succeeds is synced into its caller's cache, one  *)
(* that fails is dropped, and only when the outermost call has succeeded   *)
(* are the collected logs set as the transaction's event and the outermost *)
(* cache synced, write by write, into the state manager.                   *)
(*                                                                         *)
(* The byte code is abstracted to the instructions that touch state; a     *)
(* contract may execute any of them.  Gas is a bound on their number.      *)
(***************************************************************************)
EXTENDS SequencesExt

CONSTANTS
  AddrOrder,    \* the addresses, in the order Sync visits them
  KeyOrder,     \* the storage keys, in that order
  Word, Code,   \* nonzero words; nonempty byte codes
  NewAddr,      \* addresses that hash from a creator and a nonce: each comes up once
  Create2Addr,  \* by creator, the address CREATE2 computes from it, its code and a salt
  Limits,       \* the bounds to explore; a behaviour keeps to one of them:
                \* ops, instructions per transaction (in the code: gas = 10000);
                \* depth, nested calls; txs, transactions; spent, addresses
                \* whose nonces earlier, failed transactions have used
  Zero, NoKey, Absent, Unset, NoCode

Address == {AddrOrder[i] : i \in DOMAIN AddrOrder}
Key == {KeyOrder[i] : i \in DOMAIN KeyOrder}

\* acm.Account, without the balance, which is always 0: the code and whether
\* ContractPermFlags (Call, Send, CreateContract) are set.  No account ever
\* gets the CreateAccount permission.
Acct == [code : Code \cup {NoCode}, perms : BOOLEAN]

ASSUME EvmConstants ==
  /\ Limits \subseteq [ops : Nat, depth : Nat \ {0}, txs : Nat, spent : SUBSET NewAddr]
  /\ NewAddr \subseteq Address
  /\ \A a \in DOMAIN Create2Addr : /\ a \in Address /\ Create2Addr[a] \in Address
                                   /\ Create2Addr[a] \notin NewAddr \cup {a}
  /\ \A a, b \in DOMAIN Create2Addr : Create2Addr[a] = Create2Addr[b] => a = b
  /\ AddrOrder \in Seq(Address) /\ AddrOrder # <<>> /\ KeyOrder \in Seq(Key)

\* Words, codes, records and keys are none of the markers.
ASSUME MarkerAssumption ==
  /\ Zero \notin Word /\ NoCode \notin Code /\ NoKey \notin Key
  /\ Absent \notin Word \cup {Zero, NoCode} \cup Code \cup Acct
  /\ Unset \notin Word \cup {Zero, Absent} \cup Acct

VARIABLES
  ledger, open, reads, writes, cache, ret,   \* the state manager and its stub
  phase,    \* where Invoke is: "idle", "start", "evm", "flush", "sync" or "done"
  kind,     \* "deploy", "invoke", "getCode" or "account"
  frames,   \* the EVM's call stack, outermost first
  rtCode,   \* what the outermost call returned
  logs,     \* EventManager.EventCache: the logging contracts; live is history,
            \* FALSE once the call that logged has failed
  event,    \* the transaction's event, or Absent
  todo,     \* state manager calls Sync has still to make
  resp,     \* "none", "ok", "error" or "panic"
  ops,      \* instructions executed
  minted,   \* addresses computed so far from a nonce
  txs,      \* transactions so far
  limit     \* the member of Limits this behaviour keeps to

sm == <<ledger, open, reads, writes, cache, ret>>
invoke == <<phase, kind, rtCode, logs, event, todo, resp>>
vars == <<sm, invoke, frames, ops, minted, txs, limit>>

SM == INSTANCE StateManager

----------------------------------------------------------------------------
(* Burrow's caches.  A frame is an evm.State with its acmstate.Cache.      *)

NotLoaded == [loaded |-> FALSE]
Info(acc) == [loaded |-> TRUE, account |-> acc, storage |-> [k \in Key |-> Unset],
              removed |-> FALSE, updated |-> FALSE]

\* callee: the account whose storage the frame works on; create: the frame
\* runs the init code of a CREATE; readonly: inside a STATICCALL; mark: the
\* logs there were when the call began.
Frame(callee, create, readonly) ==
  [callee |-> callee, create |-> create, readonly |-> readonly, err |-> FALSE,
   mark |-> Len(logs),
   accounts |-> [a \in Address |-> NotLoaded]]

Top == frames[Len(frames)]
Max0(S) == CHOOSE m \in S \cup {0} : \A n \in S : n <= m

\* The innermost frame that has the account, or the word; 0 for the ledger.
AcctLevel(fs, a) == Max0({i \in DOMAIN fs : fs[i].accounts[a].loaded})
WordLevel(fs, a, k) ==
  Max0({i \in DOMAIN fs : /\ fs[i].accounts[a].loaded
                          /\ fs[i].accounts[a].storage[k] # Unset})

\* Cache.GetAccount as seen from the innermost frame.
AcctIn(fs, a) ==
  LET i == AcctLevel(fs, a) IN
  IF i = 0 THEN ledger[SM!acctKey(a)]
  ELSE IF fs[i].accounts[a].removed THEN Absent
  ELSE fs[i].accounts[a].account

\* Cache.GetStorage as seen from there: it does not look at removed.
WordIn(fs, a, k) ==
  LET i == WordLevel(fs, a, k) IN
  IF i = 0 THEN SM!LeftPadWord256(ledger[SM!compKey(a, k)])
  ELSE fs[i].accounts[a].storage[k]

Exists(fs, a) == AcctIn(fs, a) # Absent

\* Cache.get: a miss goes through every frame below and fills each of them.
Load(fs, a) ==
  [i \in DOMAIN fs |->
     IF i <= AcctLevel(fs, a) THEN fs[i]
     ELSE [fs[i] EXCEPT !.accounts[a] = Info(AcctIn(fs, a))]]

\* Cache.GetStorage: likewise for the word.
LoadWord(fs, a, k) ==
  LET gs == Load(fs, a) IN
  [i \in DOMAIN gs |->
     IF i <= WordLevel(fs, a, k) THEN gs[i]
     ELSE [gs[i] EXCEPT !.accounts[a].storage[k] = WordIn(fs, a, k)]]

\* The part of a miss that reaches the state manager.
Fetch(fs, a) ==
  IF AcctLevel(fs, a) = 0 THEN SM!GetAccount(a) /\ ret'.ok ELSE UNCHANGED sm
FetchWord(fs, a, k) ==
  IF WordLevel(fs, a, k) = 0 THEN SM!GetStorage(a, k) /\ ret'.ok ELSE UNCHANGED sm

SetTop(fs, f) == [i \in DOMAIN fs |-> IF i = Len(fs) THEN f ELSE fs[i]]
Fail(fs) == SetTop(fs, [fs[Len(fs)] EXCEPT !.err = TRUE])

\* Cache.UpdateAccount, RemoveAccount and SetStorage on the innermost frame;
\* the account is loaded.  Each refuses a read-only cache and a removed
\* account, SetStorage also an account that does not exist.
Writable(fs, a) == LET f == fs[Len(fs)] IN ~f.readonly /\ ~f.accounts[a].removed
Update(fs, a, acc) ==
  IF Writable(fs, a)
  THEN SetTop(fs, [fs[Len(fs)] EXCEPT !.accounts[a].account = acc, !.accounts[a].updated = TRUE])
  ELSE Fail(fs)
RemoveAccount(fs, a) ==
  IF Writable(fs, a) THEN SetTop(fs, [fs[Len(fs)] EXCEPT !.accounts[a].removed = TRUE])
  ELSE Fail(fs)
Store(fs, a, k, v) ==
  IF Writable(fs, a) /\ fs[Len(fs)].accounts[a].account # Absent
  THEN SetTop(fs, [fs[Len(fs)] EXCEPT !.accounts[a].storage[k] = v, !.accounts[a].updated = TRUE])
  ELSE Fail(fs)

\* Faulty: an account that exists is made again.
CreateAccountAnyway(fs, a) == Update(fs, a, [code |-> NoCode, perms |-> FALSE])

\* State.CreateAccount
CreateAccount(fs, a) ==
  IF Exists(fs, a) THEN Fail(fs) ELSE Update(fs, a, [code |-> NoCode, perms |-> FALSE])

\* State.InitCode
InitCode(fs, a, code) ==
  LET acc == AcctIn(fs, a) IN
  IF acc = Absent \/ acc.code # NoCode THEN Fail(fs)
  ELSE Update(fs, a, [acc EXCEPT !.code = code])

\* Cache.Sync of the innermost frame into the one below.  An account made
\* again in the inner frame after the outer one removed it stops the outer one.
Synced(fs) ==
  LET child == fs[Len(fs)]
      outer == SubSeq(fs, 1, Len(fs) - 1)
      changed == {a \in Address : child.accounts[a].loaded /\
                                  (child.accounts[a].removed \/ child.accounts[a].updated)}
      merge(old, new) ==
        IF new.removed THEN [old EXCEPT !.removed = TRUE]
        ELSE [old EXCEPT !.account = new.account, !.updated = TRUE,
                         !.storage = [k \in Key |-> IF new.storage[k] = Unset THEN @[k]
                                                    ELSE new.storage[k]]]
      parent == outer[Len(outer)]
  IN IF child.err THEN Fail(outer)
     ELSE IF child.readonly THEN outer
     ELSE IF \E a \in changed : ~Writable(outer, a) THEN Fail(outer)
     ELSE SetTop(outer, [parent EXCEPT !.accounts =
            [a \in Address |-> IF a \in changed THEN merge(@[a], child.accounts[a]) ELSE @[a]]])

----------------------------------------------------------------------------
(* Invoke, up to the call of the EVM.                                      *)

Init ==
  /\ SM!Init
  /\ phase = "idle" /\ kind = "invoke"
  /\ frames = <<>> /\ rtCode = Absent
  /\ logs = <<>> /\ event = Absent /\ todo = <<>> /\ resp = "none"
  /\ limit \in Limits
  /\ ops = 0 /\ minted = limit.spent /\ txs = 0

Respond(r) == phase' = "done" /\ resp' = r

\* A transaction whose arguments parse.
Invoke(kd) ==
  /\ phase = "idle" /\ txs < limit.txs
  /\ SM!NewStateManager
  /\ phase' = "start" /\ kind' = kd
  /\ ops' = 0 /\ txs' = txs + 1
  /\ UNCHANGED <<frames, rtCode, logs, event, todo, resp, minted, limit>>

\* A wrong number of arguments, bad hexadecimal digits, a bad identity.  The
\* message for no arguments at all quotes the first: a run-time panic.
InvokeRefused ==
  /\ phase = "idle" /\ txs < limit.txs
  /\ SM!NewStateManager
  /\ Respond("error") \/ Respond("panic")
  /\ txs' = txs + 1
  /\ UNCHANGED <<kind, frames, rtCode, logs, event, todo, ops, minted, limit>>

\* getCode reads the account record straight from the stub.
InvokeGetCode(a) ==
  /\ phase = "start" /\ kind = "getCode"
  /\ SM!GetAccount(a)
  /\ Respond(IF ret'.ok THEN "ok" ELSE "error")
  /\ UNCHANGED <<kind, frames, rtCode, logs, event, todo, ops, minted, txs, limit>>

\* account answers with the caller's address: it reads no state.
InvokeAccount ==
  /\ phase = "start" /\ kind = "account"
  /\ Respond("ok")
  /\ UNCHANGED <<sm, kind, frames, rtCode, logs, event, todo, ops, minted, txs, limit>>

\* A stub read, or the caller's identity, fails before the EVM runs.
StartFails ==
  /\ phase = "start" /\ kind # "getCode"
  /\ Respond("error")
  /\ UNCHANGED <<sm, kind, frames, rtCode, logs, event, todo, ops, minted, txs, limit>>

\* CreateAccount, SetPermission, then the init code runs.
Deploy(a) ==
  LET fs == <<Frame(a, FALSE, FALSE)>>
      gs == CreateAccount(Load(fs, a), a)
  IN
  /\ phase = "start" /\ kind = "deploy" /\ a \notin minted
  /\ Fetch(fs, a)
  /\ minted' = minted \cup {a}
  /\ IF gs[1].err THEN Respond("error") /\ UNCHANGED frames
     ELSE /\ phase' = "evm" /\ UNCHANGED resp
          /\ frames' = Update(gs, a, [code |-> NoCode, perms |-> TRUE])
  /\ UNCHANGED <<kind, rtCode, logs, event, todo, ops, txs, limit>>

\* A callee without code returns at once, successfully.
CallContract(a) ==
  LET fs == <<Frame(a, FALSE, FALSE)>>
      acc == AcctIn(fs, a)
  IN
  /\ phase = "start" /\ kind = "invoke"
  /\ Fetch(fs, a)
  /\ frames' = Load(fs, a)
  /\ phase' = IF acc = Absent \/ acc.code = NoCode THEN "flush" ELSE "evm"
  /\ UNCHANGED <<kind, rtCode, logs, event, todo, resp, ops, minted, txs, limit>>

----------------------------------------------------------------------------
(* The EVM's instructions.                                                 *)

\* Faulty: gas is charged, and what is left is not looked at.
StepUncharged == phase = "evm" /\ ~Top.err /\ ops' = ops + 1

Step == phase = "evm" /\ ~Top.err /\ ops < limit.ops /\ ops' = ops + 1
Permitted == Exists(frames, Top.callee) /\ AcctIn(frames, Top.callee).perms
EvmUnchanged == UNCHANGED <<kind, event, todo, txs, limit>>

SLOAD(k) ==
  /\ Step
  /\ FetchWord(frames, Top.callee, k)
  /\ frames' = LoadWord(frames, Top.callee, k)
  /\ EvmUnchanged /\ UNCHANGED <<phase, rtCode, logs, resp, minted>>

\* Faulty: the word goes straight to the state manager.
SSTOREThrough(k, v) ==
  /\ Step
  /\ SM!SetStorage(Top.callee, k, v) /\ ret'.ok
  /\ EvmUnchanged /\ UNCHANGED <<frames, phase, rtCode, logs, resp, minted>>

SSTORE(k, v) ==
  /\ Step
  /\ Fetch(frames, Top.callee)
  /\ frames' = Store(Load(frames, Top.callee), Top.callee, k, v)
  /\ EvmUnchanged /\ UNCHANGED <<phase, rtCode, logs, resp, minted>>

\* EventManager.Log; the log-free sink of a STATICCALL refuses.
LOG ==
  /\ Step
  /\ IF Top.readonly THEN frames' = Fail(frames) /\ UNCHANGED logs
     ELSE logs' = Append(logs, [addr |-> Top.callee, live |-> TRUE]) /\ UNCHANGED frames
  /\ EvmUnchanged /\ UNCHANGED <<sm, phase, rtCode, resp, minted>>

\* Faulty: a call made inside a STATICCALL may write.
CALLForgetsStatic(op, t) ==
  LET fs == Load(frames, t) IN
  /\ Step
  /\ Len(frames) < limit.depth
  /\ Permitted /\ Exists(fs, t) /\ AcctIn(fs, t).code # NoCode
  /\ Fetch(frames, t)
  /\ frames' = Append(fs, Frame(IF op = "DELEGATECALL" THEN Top.callee ELSE t, FALSE,
                                op = "STATICCALL"))
  /\ EvmUnchanged /\ UNCHANGED <<phase, rtCode, logs, resp, minted>>

\* op: CALL, DELEGATECALL (CALLCODE, without values, is the same) or STATICCALL.
\* The caller needs the Call permission; a target that does not exist is an
\* error for every kind: CALL tries to create it, which needs a permission
\* nobody has.  A target without code returns at once.
CALL(op, t) ==
  LET fs == Load(frames, t)
      acc == AcctIn(fs, t)
      child == Frame(IF op = "DELEGATECALL" THEN Top.callee ELSE t, FALSE,
                     Top.readonly \/ op = "STATICCALL")
  IN
  /\ Step
  /\ Len(frames) < limit.depth
  /\ IF Permitted THEN Fetch(frames, t) ELSE UNCHANGED sm
  /\ frames' = IF ~Permitted THEN Fail(frames)
               ELSE IF acc = Absent THEN Fail(fs)
               ELSE IF acc.code = NoCode THEN fs
               ELSE Append(fs, child)
  /\ EvmUnchanged /\ UNCHANGED <<phase, rtCode, logs, resp, minted>>

\* The new account gets no permissions.  If the address is taken the frame
\* starts with an error and is dropped.
Creating(a) ==
  LET gs == Append(frames, Frame(a, TRUE, Top.readonly)) IN
  /\ Step
  /\ Len(frames) < limit.depth
  /\ IF Permitted THEN Fetch(gs, a) ELSE UNCHANGED sm
  /\ frames' = IF Permitted THEN CreateAccount(Load(gs, a), a) ELSE Fail(frames)
  /\ EvmUnchanged /\ UNCHANGED <<phase, rtCode, logs, resp>>

CREATE(a) == a \notin minted /\ minted' = minted \cup {a} /\ Creating(a)
CREATE2 ==
  /\ frames # <<>> /\ Top.callee \in DOMAIN Create2Addr
  /\ UNCHANGED minted
  /\ Creating(Create2Addr[Top.callee])

\* The innermost call returns out: a code, NoCode for zero bytes, or Absent for nil.
\* A CREATE stores it as the new account's code; a deployment needs it.
Returning(fs, out) ==
  LET coded == IF fs[Len(fs)].create
                 THEN InitCode(fs, fs[Len(fs)].callee, IF out = Absent THEN NoCode ELSE out)
                 ELSE fs
      deployed == IF out = Absent THEN Fail(fs) ELSE InitCode(fs, fs[1].callee, out)
  IN \/ /\ Len(fs) > 1
        /\ frames' = Synced(coded)
        /\ UNCHANGED <<phase, rtCode, resp>>
     \/ /\ Len(fs) = 1 /\ kind = "deploy"
        /\ frames' = deployed
        /\ rtCode' = out
        /\ IF deployed[1].err THEN Respond("error") ELSE phase' = "flush" /\ UNCHANGED resp
     \/ /\ Len(fs) = 1 /\ kind = "invoke"
        /\ frames' = fs
        /\ rtCode' = out
        /\ phase' = "flush" /\ UNCHANGED resp

RETURN(c) ==
  /\ phase = "evm" /\ ~Top.err
  /\ Returning(frames, c)
  /\ EvmUnchanged /\ UNCHANGED <<sm, logs, ops, minted>>

STOP ==
  /\ phase = "evm" /\ ~Top.err
  /\ Returning(frames, Absent)
  /\ EvmUnchanged /\ UNCHANGED <<sm, logs, ops, minted>>

\* The receiver must exist; its record counts as updated (AddToBalance 0).
SELFDESTRUCT(r) ==
  LET fs == Load(Load(frames, r), Top.callee)
      paid == Update(fs, r, AcctIn(fs, r))
      gone == IF Exists(paid, Top.callee) THEN RemoveAccount(paid, Top.callee) ELSE Fail(paid)
  IN
  /\ Step
  /\ Fetch(frames, r)
  /\ IF Exists(fs, r) /\ ~gone[Len(gone)].err THEN Returning(gone, Absent)
     ELSE frames' = Fail(fs) /\ UNCHANGED <<phase, rtCode, resp>>
  /\ EvmUnchanged /\ UNCHANGED <<logs, minted>>

\* REVERT, INVALID, and every other way an instruction fails: no gas, a bad
\* jump, an empty stack, a stub read that fails.
Revert ==
  /\ phase = "evm" /\ ~Top.err
  /\ frames' = Fail(frames)
  /\ EvmUnchanged /\ UNCHANGED <<sm, phase, rtCode, logs, resp, ops, minted>>

\* Faulty: a failed frame is synced into its caller before it is dropped.
UnwindSyncs ==
  /\ phase = "evm" /\ Top.err
  /\ \/ /\ Len(frames) > 1
        /\ frames' = Synced(SetTop(frames, [Top EXCEPT !.err = FALSE]))
        /\ UNCHANGED <<phase, resp>>
     \/ /\ Len(frames) = 1
        /\ Respond("error")
        /\ UNCHANGED frames
  /\ logs' = [i \in DOMAIN logs |-> IF i > Top.mark THEN [logs[i] EXCEPT !.live = FALSE]
                                                   ELSE logs[i]]
  /\ EvmUnchanged /\ UNCHANGED <<sm, rtCode, ops, minted>>

\* A failed frame is dropped and its caller goes on; its logs stay in the event
\* cache.  A failed outermost call is the transaction's error.
Unwind ==
  /\ phase = "evm" /\ Top.err
  /\ \/ /\ Len(frames) > 1
        /\ frames' = SubSeq(frames, 1, Len(frames) - 1)
        /\ UNCHANGED <<phase, resp>>
     \/ /\ Len(frames) = 1
        /\ Respond("error")
        /\ UNCHANGED frames
  /\ logs' = [i \in DOMAIN logs |-> IF i > Top.mark THEN [logs[i] EXCEPT !.live = FALSE]
                                                   ELSE logs[i]]
  /\ EvmUnchanged /\ UNCHANGED <<sm, rtCode, ops, minted>>

----------------------------------------------------------------------------
(* After the EVM: Flush, then Sync.                                        *)

\* The calls Cache.Sync makes on the state manager, for one account and for all.
SetCalls(f, a) ==
  LET word(k) == f.accounts[a].storage[k]
      call(k) == [op |-> "SetStorage", a |-> a, k |-> k, v |-> word(k)]
  IN FlattenSeq([i \in DOMAIN KeyOrder |->
                   IF word(KeyOrder[i]) = Unset THEN <<>> ELSE <<call(KeyOrder[i])>>])

\* Faulty: the words of a removed account are written all the same.
AccountCallsOrphans(f, a) ==
  LET i == f.accounts[a] IN
  IF ~i.loaded \/ ~(i.removed \/ i.updated) THEN <<>>
  ELSE <<[op |-> IF i.removed THEN "RemoveAccount" ELSE "UpdateAccount",
          a |-> a, k |-> NoKey, v |-> i.account]>> \o SetCalls(f, a)

AccountCalls(f, a) ==
  LET i == f.accounts[a] IN
  IF ~i.loaded THEN <<>>
  ELSE IF i.removed THEN <<[op |-> "RemoveAccount", a |-> a, k |-> NoKey, v |-> Absent]>>
  ELSE IF i.updated
    THEN <<[op |-> "UpdateAccount", a |-> a, k |-> NoKey, v |-> i.account]>> \o SetCalls(f, a)
  ELSE <<>>

SyncCalls(f) == FlattenSeq([i \in DOMAIN AddrOrder |-> AccountCalls(f, AddrOrder[i])])

\* The event's name is args[1][0:8] for a call, with or without logs: a run-time
\* panic when the slice has no room for 8 bytes, which is certain when it is empty.
\* data, the length of args[1], matters nowhere else and is chosen here.
Flush(data) ==
  /\ phase = "flush"
  /\ \/ /\ kind = "invoke" /\ data # "full"
        /\ Respond("panic")
        /\ UNCHANGED <<event, todo>>
     \/ /\ ~(kind = "invoke" /\ data = "empty") /\ logs # <<>>
        /\ Respond("error")                       \* SetEvent fails
        /\ UNCHANGED <<event, todo>>
     \/ /\ ~(kind = "invoke" /\ data = "empty")
        /\ event' = IF logs = <<>> THEN Absent ELSE logs
        /\ todo' = SyncCalls(frames[1])
        /\ phase' = "sync" /\ UNCHANGED resp
  /\ UNCHANGED <<sm, kind, frames, rtCode, logs, ops, minted, txs, limit>>

SyncStep ==
  LET c == Head(todo) IN
  /\ phase = "sync" /\ todo # <<>>
  /\ CASE c.op = "UpdateAccount" -> SM!UpdateAccount(c.a, c.v)
       [] c.op = "RemoveAccount" -> SM!RemoveAccount(c.a)
       [] c.op = "SetStorage"    -> SM!SetStorage(c.a, c.k, c.v)
  /\ IF ret'.ok THEN todo' = Tail(todo) /\ UNCHANGED <<phase, resp>>
     ELSE Respond("error") /\ UNCHANGED todo
  /\ UNCHANGED <<kind, frames, rtCode, logs, event, ops, minted, txs, limit>>

SyncDone ==
  /\ phase = "sync" /\ todo = <<>>
  /\ Respond("ok")
  /\ UNCHANGED <<sm, kind, frames, rtCode, logs, event, todo, ops, minted, txs, limit>>

\* Fabric: only a successful response can be endorsed, ordered and committed.
EndTx ==
  /\ phase = "done"
  /\ (resp = "ok" /\ SM!Commit) \/ SM!Discard
  /\ phase' = "idle" /\ kind' = "invoke"
  /\ frames' = <<>> /\ rtCode' = Absent
  /\ logs' = <<>> /\ event' = Absent /\ todo' = <<>> /\ resp' = "none"
  /\ ops' = 0
  /\ UNCHANGED <<minted, txs, limit>>

\* No client sends anything.
Idle == phase = "idle" /\ UNCHANGED vars

Evm ==
  \/ \E k \in Key : SLOAD(k)
  \/ \E k \in Key, v \in Word \cup {Zero} : SSTORE(k, v)
  \/ LOG
  \/ \E op \in {"CALL", "DELEGATECALL", "STATICCALL"}, t \in Address : CALL(op, t)
  \/ \E a \in NewAddr : CREATE(a)
  \/ CREATE2
  \/ \E c \in Code \cup {NoCode} : RETURN(c)
  \/ STOP
  \/ \E r \in Address : SELFDESTRUCT(r)
  \/ Revert
  \/ Unwind

Next ==
  \/ \E kd \in {"deploy", "invoke", "getCode", "account"} : Invoke(kd)
  \/ InvokeRefused
  \/ \E a \in Address : InvokeGetCode(a)
  \/ InvokeAccount
  \/ StartFails
  \/ \E a \in NewAddr : Deploy(a)
  \/ \E a \in Address : CallContract(a)
  \/ Evm
  \/ \E data \in {"empty", "short", "full"} : Flush(data)
  \/ SyncStep
  \/ SyncDone
  \/ EndTx
  \/ Idle

Spec == Init /\ [][Next]_vars

----------------------------------------------------------------------------
(* Properties.                                                             *)

\* Types of the state manager under the EVM and of Invoke's own state.
TypeOK ==
  /\ SM!TypeOK
  /\ phase \in {"idle", "start", "evm", "flush", "sync", "done"}
  /\ resp \in {"none", "ok", "error", "panic"}
  /\ limit \in Limits
  /\ Len(frames) <= limit.depth /\ ops <= limit.ops /\ txs <= limit.txs
  /\ minted \subseteq NewAddr
  /\ \A i \in DOMAIN frames, a \in Address :
       LET info == frames[i].accounts[a] IN
       info.loaded => /\ info.account \in Acct \cup {Absent}
                      /\ info.storage \in [Key -> Word \cup {Zero, Unset}]

\* The world as the innermost of the frames fs sees it.
NoAccount == [acct |-> Absent, slots |-> [k \in Key |-> Zero]]
View(fs) ==
  [a \in Address |->
     IF Exists(fs, a) THEN [acct |-> AcctIn(fs, a), slots |-> [k \in Key |-> WordIn(fs, a, k)]]
     ELSE NoAccount]

\* How the call of frame f stands.
Status(f) ==
  IF f.err THEN "failed" ELSE IF phase \in {"flush", "sync", "done"} THEN "returned" ELSE "running"

\* The calls in progress, each with the world as it sees it.
CallStack ==
  [i \in DOMAIN frames |->
     [callee |-> frames[i].callee, create |-> frames[i].create,
      status |-> Status(frames[i]), world |-> View(SubSeq(frames, 1, i))]]

Nested == INSTANCE NestedTx WITH
  EmptyAccount <- NoAccount, Code <- Code \cup {NoCode},
  committed <- View(<<>>), stack <- CallStack

\* Through the caches of the nested calls, their merging, Sync and the state
\* manager, a transaction is a nested transaction on the world of contracts:
\* a call that has failed leaves no trace in its caller's world, one that
\* succeeds leaves exactly its own (a creation with its code, a self-destruction
\* without its account) or fails its caller, and only what an outermost call that
\* returned ended with becomes the world of the ledger, whole.
ImplementsNestedTx == Nested!Spec

\* The state manager's stale reads (after a slot is set to zero its cache or
\* the ledger still answers) are out of the EVM's reach: every read comes
\* before Sync's first write, so it returns what the transaction would commit.
EvmReadsOwnWrites == SM!ReadYourWrites

\* An account record on the ledger is never rewritten with another code or
\* other permissions: it can only disappear.  CREATE2 and the receiver of a
\* SELFDESTRUCT update existing accounts' records.
RecordsImmutable ==
  [][\A a \in Address :
       LET key == SM!acctKey(a) IN
       ledger[key] # Absent => ledger'[key] \in {ledger[key], Absent}]_vars

\* A committed change of a slot comes with its account: no transaction writes
\* words for an account that is not there when it ends.
SlotsNeedAccount ==
  [][\A a \in Address, k \in Key :
       ledger'[SM!compKey(a, k)] # ledger[SM!compKey(a, k)] =>
         ledger'[SM!acctKey(a)] # Absent]_vars

\* Nothing that happens inside a STATICCALL, at whatever depth, is seen in the
\* world of its caller or in the logs.
StaticCallPure ==
  \A i \in DOMAIN frames : frames[i].readonly =>
    /\ Len(logs) = frames[i].mark
    /\ \A j \in i .. Len(frames) :
         View(SubSeq(frames, 1, j)) = View(SubSeq(frames, 1, i - 1))

----------------------------------------------------------------------------
(* What the repository says and the code does not do.                      *)

\* release_notes/v0.2.0.md: "completed support for `REVERT`".  A reverted
\* call's logs are not part of the transaction's event.
EventWithoutReverted ==
  event # Absent => \A i \in DOMAIN event : event[i].live

\* evmcc.go: "The function hash is the first 8 bytes of the Input argument".
\* A call that reached a contract is always answered.
NoPanic == frames # <<>> => resp # "panic"
=============================================================================
