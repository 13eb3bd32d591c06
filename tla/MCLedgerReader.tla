--------------------------- MODULE MCLedgerReader ---------------------------
(* Model-checking instances of LedgerReader.                               *)
EXTENDS LedgerReader

CONSTANTS t1, t2, a1, a2, x1, x2

Low(v) == <<"lower", v>>
Mixed(v) == <<"mixed", v>>

Log1 == [address |-> Low(a1), topics |-> <<Low(x1), Low(x2)>>]
Log2 == [address |-> Low(a2), topics |-> <<Low(x2)>>]

Foreign(id, args, events) ==
  [kind |-> "endorser", id |-> id, valid |-> TRUE, args |-> args, events |-> events]
Tx(id, valid, events) == [Foreign(id, "plain", events) EXCEPT !.valid = valid]
Config == [kind |-> "config", id |-> None, valid |-> TRUE, args |-> "opaque", events |-> None]
Empty == [kind |-> "nil", id |-> None, valid |-> FALSE, args |-> "opaque", events |-> None]

\* A configuration block; two logs and a duplicate; an invalidated
\* transaction before a valid one; no event; another chaincode's event;
\* other chaincodes' arguments.
MCBlocks ==
  { <<Config>>,
    <<Tx(t1, TRUE, <<Log1, Log2>>), Tx(t1, FALSE, <<Log1, Log2>>)>>,
    <<Empty, Tx(t1, FALSE, <<Log1>>), Tx(t2, TRUE, <<Log2, Log1>>)>>,
    <<Tx(t1, TRUE, None), Tx(t2, FALSE, <<Log2>>)>>,
    <<Tx(t2, TRUE, Bad)>>,
    <<Foreign(t1, "name", None), Foreign(t2, "opaque", None)>> }

Query(hash, f, t, address, topics) ==
  [blockHash |-> hash, fromBlock |-> f, toBlock |-> t, address |-> address, topics |-> topics]

MCQueries ==
  { Query(None, None, None, {}, <<>>),
    Query(None, Earliest, None, {}, <<>>),
    Query(None, Earliest, Latest, {Mixed(a1), None}, <<>>),
    Query(None, Earliest, Latest, {}, <<{Low(x1), Mixed(x2)}>>),
    Query(None, Number(1), Latest, {}, <<{None}, {Low(x2)}>>),
    Query(None, Number(1), Number(2), {Low(a2), Low(a1)}, <<{}, {}>>),
    Query(None, Latest, Number(1), {}, <<>>),
    Query(None, Latest, Pending, {}, <<>>),
    Query(None, Bad, Latest, {}, <<>>),
    Query(1, None, None, {}, <<{Low(x2)}>>),
    Query(1, Latest, None, {}, <<>>),
    Query(None, None, None, {Bad}, <<>>) }
=============================================================================
