----------------------------- MODULE EvmRequest -----------------------------
(***************************************************************************)
(* A client's request to evmcc, as the code of the contracts it reaches    *)
(* determines it, and its effect on a world of contracts.                  *)
(***************************************************************************)
CONSTANTS
  Contract,          \* contract addresses
  Slot,              \* the storage keys of a contract
  Word, Zero,        \* nonzero words; the zero word
  Id,                \* transaction ids
  NewContract,       \* by transaction id, the address a deployment's contract gets
  Request,           \* what clients ask for, see below
  Stored(_, _, _),   \* the word a contract's code stores: by request, slot and words it loaded
  Reverts(_, _),     \* whether the code fails: by request and words it loaded
  ZeroAddress, NoHeir, NoRequest,
  Genesis            \* the world at the beginning

\* A request: the callee (ZeroAddress deploys), the words its code loads and
\* stores, in the callee and in contracts it calls, the receiver if it ends
\* with SELFDESTRUCT, and the words a deployment's init code stores.
IsRequest(q) ==
  /\ q.to \in Contract \cup {ZeroAddress}
  /\ q.rd \subseteq Contract \X Slot /\ q.wr \subseteq Contract \X Slot
  /\ q.heir \in Contract \cup {NoHeir}
  /\ DOMAIN q.init \subseteq Slot
  /\ \A s \in DOMAIN q.init : q.init[s] \in Word \cup {Zero}

ASSUME SerialConstants ==
  /\ Zero \notin Word
  /\ ZeroAddress \notin Contract /\ NoHeir \notin Contract /\ NoRequest \notin Request
  /\ NewContract \in [Id -> Contract]
  /\ \A i, j \in Id : NewContract[i] = NewContract[j] => i = j
  /\ \A q \in Request : IsRequest(q)
  /\ Genesis \in [live : SUBSET Contract, words : [Contract \X Slot -> Word \cup {Zero}]]

\* The words a contract's code stores are words: nothing else is on the EVM's stack.
ASSUME StoredAssumption ==
  \A q \in Request : \A s \in q.wr, seen \in [q.rd -> Word \cup {Zero}] :
    ~Reverts(q, seen) => Stored(q, s, seen) \in Word \cup {Zero}

----------------------------------------------------------------------------
(* One request, executed on the world w.                                   *)

Reached(q) == {q.to} \cup {s[1] : s \in q.rd \cup q.wr} \cup ({q.heir} \ {NoHeir})

Loaded(q, w) == [s \in q.rd |-> w.words[s]]

\* Calling an address without code does nothing, and succeeds.
Nothing(q, w) == q.to # ZeroAddress /\ q.to \notin w.live

\* The code runs to its end: every contract it reaches exists, and it does not revert.
Completes(q, w) == Reached(q) \subseteq w.live /\ ~Reverts(q, Loaded(q, w))

\* CreateAccount refuses an address that is taken.
Succeeds(q, id, w) ==
  IF q.to = ZeroAddress THEN NewContract[id] \notin w.live
  ELSE Nothing(q, w) \/ Completes(q, w)

\* SELFDESTRUCT drops the words its transaction stored in the contract and
\* leaves the older ones.
After(q, id, w) ==
  IF Nothing(q, w) THEN w
  ELSE IF q.to = ZeroAddress
  THEN [live  |-> w.live \cup {NewContract[id]},
        words |-> [s \in Contract \X Slot |->
                     IF s[1] = NewContract[id] /\ s[2] \in DOMAIN q.init
                     THEN q.init[s[2]] ELSE w.words[s]]]
  ELSE [live  |-> IF q.heir = NoHeir THEN w.live ELSE w.live \ {q.to},
        words |-> [s \in Contract \X Slot |->
                     IF s \in q.wr /\ ~(q.heir # NoHeir /\ s[1] = q.to)
                     THEN Stored(q, s, Loaded(q, w)) ELSE w.words[s]]]
=============================================================================
