--------------------------- MODULE MCEvmChaincode ---------------------------
(* Model-checking instances of EvmChaincode.                               *)
EXTENDS EvmChaincode

CONSTANTS c1, c2, c3, k1, w1, code1

MCAddrOrder == <<c1, c2, c3>>
MCKeyOrder == <<k1>>

\* One of the contracts uses CREATE2, always with one salt.
MCCreate2Addr == [a \in {c1} |-> c3]

\* Three short transactions over two contracts made from nonces.
Wide == [ops |-> 2, depth |-> 2, txs |-> 3, spent |-> {}]

\* Two long transactions, calls three deep, one address left to make.
Deep == [ops |-> 4, depth |-> 3, txs |-> 2, spent |-> {c2}]

\* Two short transactions.
Short == [ops |-> 2, depth |-> 2, txs |-> 2, spent |-> {}]

WideAndDeep == {Wide, Deep}
OnlyShort == {Short}
=============================================================================
