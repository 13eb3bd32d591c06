---------------------------- MODULE LedgerReader ----------------------------
(***************************************************************************)
(* The read methods of fab3's ethService: eth_getLogs, _getTransactionBy-  *)
(* Hash, _getTransactionReceipt, _getBlockByNumber and _blockNumber.  Each *)
(* is answered from several ledger queries, between which the chain grows, *)
(* and each query may be answered by another, lagging peer.  Handlers share *)
(* nothing but the ledger, so one request at a time is enough.             *)
(*                                                                         *)
(* A string of hexadecimal digits is <<case, value>>; evmcc emits lower    *)
(* case only.  The optional 0x, which every method strips, is left out.    *)
(***************************************************************************)
EXTENDS SequencesExt

CONSTANTS
  Blocks,     \* block contents the orderer may cut: sequences of transactions
  Queries,    \* eth_getLogs parameters, as sent
  TxId,       \* transaction ids
  HexValue,   \* the numbers that addresses and topics stand for
  MaxHeight,  \* bound on the length of the chain
  MaxLag,     \* how many blocks a queried peer may be behind
  None,       \* an absent parameter or event; JSON's null
  Bad,        \* a malformed parameter; the event of another chaincode
  Wildcard    \* the empty string in a topic filter

ASSUME ReaderConstants == MaxHeight \in Nat \ {0} /\ MaxLag \in Nat

\* A block parameter is a name or a number.
Latest == <<"latest", 0>>
Earliest == <<"earliest", 0>>
Pending == <<"pending", 0>>
Number(n) == <<"number", n>>
BlockArgs == {Latest, Earliest, Pending, Bad} \cup {Number(n) : n \in 0 .. MaxHeight}

Lower == {"lower"} \X HexValue
Hex == {"lower", "mixed"} \X HexValue

\* Parameters that JSON can carry.
ASSUME QueriesAssumption ==
  /\ Wildcard \notin Hex \cup {None, Bad} /\ None \notin Hex /\ Bad # Latest
  /\ \A q \in Queries :
       q \in [blockHash : {None, Bad} \cup 0 .. MaxHeight,
              fromBlock : {None} \cup BlockArgs, toBlock : {None} \cup BlockArgs,
              address : SUBSET (Hex \cup {None, Bad}), topics : Seq(SUBSET (Hex \cup {None, Bad}))]

\* A transaction; kind "nil" has no data, and the id of a configuration is
\* empty; events are evmcc's logs, of another chaincode, or none.  The arguments
\* are "plain", as evmcc's; two, the first no hexadecimal address but a "name", as
\* another chaincode may have; or "opaque": not there, malformed, or two and
\* sent by an identity that is no certificate.
Log == [address : Lower, topics : Seq(Lower)]
Transaction ==
  [kind : {"endorser"}, id : TxId, valid : BOOLEAN, args : {"plain", "name", "opaque"},
   events : {None, Bad} \cup Seq(Log)]
    \cup [kind : {"config", "nil"}, id : {None}, valid : BOOLEAN, args : {"opaque"}, events : {None}]

ASSUME BlocksAssumption == Blocks \subseteq Seq(Transaction) /\ None \notin TxId

VARIABLES
  chain,      \* the blocks; block number n is chain[n + 1]
  pc,         \* what the handler does next
  req,        \* the request
  from, to,   \* GetLogs' range; from is also the block GetBlockByNumber asks for
  next,       \* GetLogs: the block to scan next
  txLogs,     \* GetLogs: what has been found
  reply,      \* [err, val]; err = "none" for a result
  born        \* history: the chain's height when the request came in

vars == <<chain, pc, req, from, to, next, txLogs, reply, born>>
locals == <<from, to, next, txLogs>>

Height == Len(chain)
Block(n) == chain[n + 1]
NoReply == [err |-> "pending", val |-> None]

\* What a peer may say its height is.
Heights == {h \in 1 .. Height : h + MaxLag >= Height}

----------------------------------------------------------------------------
(* Parameters.                                                             *)

ToLower(s) == <<"lower", s[2]>>

\* GetLogsArgs.UnmarshalJSON: blockHash excludes the range; an address or a topic
\* must have its length.  Addresses are lower-cased, topics are not; null in
\* the place of a topic becomes the empty string, in an address list it is skipped.
WellFormed(q) ==
  /\ q.blockHash # None => q.fromBlock = None /\ q.toBlock = None
  /\ Bad \notin q.address
  /\ \A i \in DOMAIN q.topics : Bad \notin q.topics[i]
NewAddressFilter(A) == {ToLower(a) : a \in A \ {None}}
NewTopicFilter(T) == {IF t = None THEN Wildcard ELSE t : t \in T}
UnmarshalJSON(q) ==
  [q EXCEPT !.address = NewAddressFilter(@),
            !.topics = [i \in DOMAIN @ |-> NewTopicFilter(@[i])]]

\* Faulty: one block too far back.
parseBlockNumTwoBack(input, h) == IF input = Latest THEN h - 2 ELSE input[2]
parseBlockNumStale(input, h) == IF input # Latest THEN input[2] ELSE IF h < 2 THEN 0 ELSE h - 2

\* parseBlockNum, given the height QueryInfo reports; only "latest" asks for it.
BadNumber(input) == input \in {Pending, Bad}
parseBlockNum(input, h) == IF input = Latest THEN h - 1 ELSE input[2]

----------------------------------------------------------------------------
(* Transactions and their logs.                                            *)

\* The filtering of fabricEventToEVMLogs.
Matches(log, af, tf) ==
  /\ af = {} \/ log.address \in af
  /\ Len(tf) <= Len(log.topics)
  /\ \A i \in DOMAIN tf : tf[i] = {} \/ Wildcard \in tf[i] \/ log.topics[i] \in tf[i]

\* fabricEventToEVMLogs: the logs of transaction i (from 0) of block n that match,
\* each with its place among all the logs of the event.
fabricEventToEVMLogs(n, i, af, tf) ==
  LET tx == Block(n)[i + 1]
      log(j) == [blockNumber |-> n, txIndex |-> i, txHash |-> tx.id, index |-> j - 1,
                 address |-> tx.events[j].address, topics |-> tx.events[j].topics]
  IN IF tx.events = None THEN <<>>
     ELSE FlattenSeq([j \in DOMAIN tx.events |->
                        IF Matches(tx.events[j], af, tf) THEN <<log(j)>> ELSE <<>>])

\* Faulty: the transactions filter is not looked at.
ProcessedUnfiltered(tx) == tx.kind = "endorser"

\* The transactions GetLogs looks into.
Processed(tx) == tx.valid /\ tx.kind = "endorser"

\* One pass of GetLogs' outer loop.
BlockLogs(n, q) ==
  FlattenSeq([i \in DOMAIN Block(n) |->
                IF Processed(Block(n)[i])
                THEN fabricEventToEVMLogs(n, i - 1, q.address, q.topics) ELSE <<>>])

\* getTransactionInformation fails, as on a configuration, which holds no action.
Unparsable(tx) == tx.args = "opaque"

\* GetTransactionReceipt also fails where the first of two arguments is no
\* address and where fabricEventToEVMLogs cannot decode the event.
NoReceipt(tx) == Unparsable(tx) \/ tx.args = "name" \/ tx.events = Bad

\* findTransaction: the first transaction of block n with the id, from 0.
Least(S) == CHOOSE m \in S : \A x \in S : m <= x
Places(n, id) == {i \in 0 .. Len(Block(n)) - 1 : Block(n)[i + 1].kind # "nil" /\ Block(n)[i + 1].id = id}

\* Faulty: the last one.
findLastTransaction(n, id) == CHOOSE m \in Places(n, id) : \A x \in Places(n, id) : m >= x
findTransaction(n, id) == Least(Places(n, id))

\* The ledger's index of transaction ids keeps a transaction's first block.
BlocksWith(id) == {n \in 0 .. Height - 1 : Places(n, id) # {}}

----------------------------------------------------------------------------

Init ==
  /\ \E b \in Blocks : chain = <<b>> /\ \A i \in DOMAIN b : b[i].kind = "config"
  /\ pc = "idle" /\ req = [method |-> "none"]
  /\ from = 0 /\ to = 0 /\ next = 0 /\ txLogs = <<>>
  /\ reply = NoReply /\ born = 1

\* Fabric commits a block.  A transaction whose id was used before is invalid.
AddBlock(b) ==
  /\ Height < MaxHeight
  /\ \A i \in DOMAIN b : b[i].valid /\ b[i].kind = "endorser" =>
       /\ BlocksWith(b[i].id) = {}
       /\ \A j \in 1 .. i - 1 : b[j].id # b[i].id
  /\ chain' = Append(chain, b)
  /\ UNCHANGED <<pc, req, locals, reply, born>>

Reply(err, val) == pc' = "idle" /\ reply' = [err |-> err, val |-> val]

Receive(r, at) ==
  /\ pc = "idle"
  /\ req' = r /\ pc' = at
  /\ from' = 0 /\ to' = 0 /\ next' = 0 /\ txLogs' = <<>>
  /\ reply' = NoReply /\ born' = Height
  /\ UNCHANGED chain

Refuse(r) ==
  /\ pc = "idle"
  /\ req' = r
  /\ Reply("input", None)
  /\ born' = Height
  /\ UNCHANGED <<chain, locals>>

\* Any ledger query may fail: a timeout, no peer, an unknown block or transaction.
Querying ==
  \/ pc \in {"hash", "scan", "tx", "block"}
  \/ pc = "from" /\ req.fromBlock = Latest
  \/ pc = "to" /\ req.toBlock = Latest /\ req.fromBlock # Latest
  \/ pc = "number" /\ req.number = Latest
QueryFails ==
  /\ Querying
  /\ Reply("ledger", None)
  /\ UNCHANGED <<chain, req, locals, born>>

(* GetLogs *)

\* A missing end of the range is the latest block.
OrLatest(input) == IF input = None THEN Latest ELSE input

AcceptGetLogs(q) ==
  LET a == UnmarshalJSON(q) IN
  IF ~WellFormed(q) \/ q.blockHash = Bad \/ BadNumber(q.fromBlock)
  THEN Refuse([method |-> "GetLogs", sent |-> q])
  ELSE Receive([method |-> "GetLogs", sent |-> q, blockHash |-> a.blockHash,
                fromBlock |-> OrLatest(a.fromBlock), toBlock |-> OrLatest(a.toBlock),
                address |-> a.address, topics |-> a.topics],
               IF q.blockHash = None THEN "from" ELSE "hash")

\* A block hash stands for the number of its block.
ByHash(h) ==
  /\ pc = "hash" /\ req.blockHash < h
  /\ from' = req.blockHash /\ to' = req.blockHash /\ next' = req.blockHash
  /\ pc' = "scan"
  /\ UNCHANGED <<chain, req, txLogs, reply, born>>

ResolveFrom(h) ==
  /\ pc = "from"
  /\ from' = parseBlockNum(req.fromBlock, h)
  /\ pc' = "to"
  /\ UNCHANGED <<chain, req, to, next, txLogs, reply, born>>

\* Faulty: the ledger is asked again for the same name.
ResolveToAgain(h) ==
  /\ pc = "to"
  /\ ~BadNumber(req.toBlock)
  /\ to' = parseBlockNum(req.toBlock, h)
  /\ pc' = "range"
  /\ UNCHANGED <<chain, req, from, next, txLogs, reply, born>>

\* The same name is not looked up twice.
ResolveTo(h) ==
  /\ pc = "to"
  /\ IF BadNumber(req.toBlock) THEN Reply("input", None) /\ UNCHANGED to
     ELSE /\ to' = IF req.toBlock = req.fromBlock THEN from ELSE parseBlockNum(req.toBlock, h)
          /\ pc' = "range" /\ UNCHANGED reply
  /\ UNCHANGED <<chain, req, from, next, txLogs, born>>

CheckRange ==
  /\ pc = "range"
  /\ IF from > to THEN Reply("range", None) /\ UNCHANGED next
     ELSE pc' = "scan" /\ next' = from /\ UNCHANGED reply
  /\ UNCHANGED <<chain, req, from, to, txLogs, born>>

\* One block of the range, from a peer that has it.  A transaction or an event
\* that does not decode, as another chaincode's, ends the request.
ScanBlock(h) ==
  /\ pc = "scan" /\ next < h
  /\ IF \E i \in DOMAIN Block(next) :
          LET tx == Block(next)[i] IN Processed(tx) /\ (Unparsable(tx) \/ tx.events = Bad)
     THEN Reply("decode", None) /\ UNCHANGED <<next, txLogs>>
     ELSE /\ next' = next + 1
          /\ txLogs' = txLogs \o BlockLogs(next, req)
          /\ IF next >= to THEN Reply("none", txLogs') ELSE UNCHANGED <<pc, reply>>
  /\ UNCHANGED <<chain, req, from, to, born>>

(* GetTransactionReceipt and GetTransactionByHash *)

AcceptTransaction(m, id) == Receive([method |-> m, id |-> id], "tx")

\* QueryBlockByTxID at a peer that has the block, then findTransaction: the
\* transaction is looked up among all the block's, valid or not.
Found(m, h, n) ==
  /\ pc = "tx" /\ req.method = m
  /\ BlocksWith(req.id) # {} /\ n = Least(BlocksWith(req.id)) /\ n < h

\* What GetTransactionReceipt makes of block n, the one the index has for id.
ReceiptOf(id, n) ==
  LET i == findTransaction(n, id)
      tx == Block(n)[i + 1]
  IN IF NoReceipt(tx) THEN [err |-> "decode", val |-> None]
     ELSE [err |-> "none",
           val |-> [blockNumber |-> n, txIndex |-> i, status |-> IF tx.valid THEN 1 ELSE 0,
                    logs |-> fabricEventToEVMLogs(n, i, {}, <<>>)]]

GetTransactionReceipt(h) ==
  \E n \in 0 .. h - 1 :
    LET answer == ReceiptOf(req.id, n) IN
    /\ Found("GetTransactionReceipt", h, n)
    /\ Reply(answer.err, answer.val)
    /\ UNCHANGED <<chain, req, locals, born>>

GetTransactionByHash(h) ==
  \E n \in 0 .. h - 1 :
    LET i == findTransaction(n, req.id) IN
    /\ Found("GetTransactionByHash", h, n)
    /\ IF Unparsable(Block(n)[i + 1]) THEN Reply("decode", None)
       ELSE Reply("none", [blockNumber |-> n, txIndex |-> i])
    /\ UNCHANGED <<chain, req, locals, born>>

(* GetBlockByNumber and BlockNumber *)

AcceptGetBlock(input, full) ==
  LET r == [method |-> "GetBlockByNumber", number |-> input, full |-> full] IN
  IF BadNumber(input) THEN Refuse(r) ELSE Receive(r, "number")
AcceptBlockNumber ==
  Receive([method |-> "BlockNumber", number |-> Latest, full |-> FALSE], "number")

ResolveNumber(h) ==
  LET n == parseBlockNum(req.number, h) IN
  /\ pc = "number"
  /\ from' = n
  /\ IF req.method = "BlockNumber" THEN Reply("none", n)
     ELSE pc' = "block" /\ UNCHANGED reply
  /\ UNCHANGED <<chain, req, to, next, txLogs, born>>

\* Faulty: the invalid ones too.
FetchBlockUnfiltered(h) ==
  /\ pc = "block" /\ from < h
  /\ Reply("none", {[hash |-> Block(from)[i].id, txIndex |-> i - 1] : i \in DOMAIN Block(from)})
  /\ UNCHANGED <<chain, req, locals, born>>

\* The valid transactions, with their index in the block; in full, each must
\* parse as an endorsed one.
FetchBlock(h) ==
  LET b == Block(from)
      listed == {i \in DOMAIN b : b[i].valid /\ b[i].kind # "nil"}
  IN
  /\ pc = "block" /\ from < h
  /\ IF req.full /\ \E i \in listed : Unparsable(b[i]) THEN Reply("decode", None)
     ELSE Reply("none", {[hash |-> b[i].id, txIndex |-> i - 1] : i \in listed})
  /\ UNCHANGED <<chain, req, locals, born>>

----------------------------------------------------------------------------

Next ==
  \/ \E b \in Blocks : AddBlock(b)
  \/ \E q \in Queries : AcceptGetLogs(q)
  \/ \E id \in TxId, m \in {"GetTransactionReceipt", "GetTransactionByHash"} : AcceptTransaction(m, id)
  \/ \E n \in BlockArgs, full \in BOOLEAN : AcceptGetBlock(n, full)
  \/ AcceptBlockNumber
  \/ QueryFails
  \/ CheckRange
  \/ \E h \in Heights : ByHash(h)
  \/ \E h \in Heights : ResolveFrom(h)
  \/ \E h \in Heights : ResolveTo(h)
  \/ \E h \in Heights : ScanBlock(h)
  \/ \E h \in Heights : GetTransactionReceipt(h)
  \/ \E h \in Heights : GetTransactionByHash(h)
  \/ \E h \in Heights : ResolveNumber(h)
  \/ \E h \in Heights : FetchBlock(h)

Spec == Init /\ [][Next]_vars

----------------------------------------------------------------------------
(* Properties.                                                             *)

Answered(m) == pc = "idle" /\ req.method = m /\ reply.err = "none"

\* Places of the chain a log can be found at: block, transaction, position.
TxAt(p) == Block(p[1])[p[2] + 1]
TxPlaces == UNION {{n} \X (0 .. Len(Block(n)) - 1) : n \in 0 .. Height - 1}
LogPlaces ==
  UNION {{<<p[1], p[2], j - 1>> : j \in DOMAIN TxAt(p).events} :
           p \in {x \in TxPlaces : TxAt(x).events \notin {None, Bad}}}
LogAt(p) == TxAt(p).events[p[3] + 1]
PlaceOf(log) == <<log.blockNumber, log.txIndex, log.index>>
Before(p, r) ==
  \/ p[1] < r[1]
  \/ p[1] = r[1] /\ p[2] < r[2]
  \/ p[1] = r[1] /\ p[2] = r[2] /\ p[3] < r[3]

\* The filters as sent are what counts, letter case aside for addresses:
\* an address listed, and at each filtered position a topic listed or null.
Wanted(log, q) ==
  /\ q.address \ {None} = {} \/ \E a \in q.address \ {None} : ToLower(a) = log.address
  /\ \A i \in DOMAIN q.topics :
       /\ i \in DOMAIN log.topics
       /\ q.topics[i] = {} \/ None \in q.topics[i] \/ log.topics[i] \in q.topics[i]

\* The handler's control state and range.
TypeOK ==
  /\ pc \in {"idle", "hash", "from", "to", "range", "scan", "tx", "number", "block"}
  /\ Height \in 1 .. MaxHeight /\ born \in 1 .. Height
  /\ {from, to} \subseteq 0 .. MaxHeight /\ next \in 0 .. MaxHeight + 1
  /\ reply.err \in {"pending", "none", "input", "range", "ledger", "decode"}

\* However the chain grew meanwhile, an answer to eth_getLogs has every wanted log of
\* the valid transactions of its range, nothing else, in chain order and each
\* once, and every log's block, transaction and log index lead back to it.
LogsExact ==
  Answered("GetLogs") =>
    LET logs == reply.val
        wanted == {p \in LogPlaces : /\ p[1] \in from .. to
                                     /\ TxAt(p).valid /\ TxAt(p).kind = "endorser"
                                     /\ Wanted(LogAt(p), req.sent)}
    IN /\ {PlaceOf(logs[k]) : k \in DOMAIN logs} = wanted
       /\ \A k \in DOMAIN logs : /\ k > 1 => Before(PlaceOf(logs[k - 1]), PlaceOf(logs[k]))
                                 /\ logs[k].txHash = TxAt(PlaceOf(logs[k])).id
                                 /\ logs[k].address = LogAt(PlaceOf(logs[k])).address

\* "latest" reaches at least as far as the chain did when the request came in,
\* but for the lag of the peer asked, and never past the chain's end.
LatestIsFresh ==
  Answered("GetLogs") /\ req.blockHash = None /\ req.toBlock = Latest =>
    to < Height /\ to + 1 + MaxLag >= born

\* A request whose two ends have the same name (both default to "latest") is
\* never refused as an inverted range, though blocks arrive and peers disagree.
SameNameNoInversion ==
  pc = "idle" /\ req.method = "GetLogs" /\ reply.err = "range" => req.fromBlock # req.toBlock

\* A receipt says 1 exactly if the chain has a valid transaction of that id,
\* even if the id was sent again later and found invalid, and its logs are
\* the ones eth_getLogs gives for that transaction.
ReceiptTruthful ==
  Answered("GetTransactionReceipt") =>
    LET valid == {p \in TxPlaces : TxAt(p).valid /\ TxAt(p).id = req.id}
        rec == reply.val
    IN /\ rec.status = 1 <=> valid # {}
       /\ rec.status = 1 =>
            /\ valid = {<<rec.blockNumber, rec.txIndex>>}
            /\ {PlaceOf(rec.logs[k]) : k \in DOMAIN rec.logs} =
                 {p \in LogPlaces : p[1] = rec.blockNumber /\ p[2] = rec.txIndex}

\* What eth_getBlockByNumber lists has a receipt: asked for the id of a listed
\* transaction, now or when more blocks have come, eth_getTransactionReceipt
\* answers with status 1, this block and this index, whatever else was sent
\* under the id.  Configurations and what other chaincodes were sent or emitted
\* that fab3 cannot decode are excepted: they are listed, and have no receipt.
ListedHaveReceipts ==
  Answered("GetBlockByNumber") =>
    \A e \in reply.val :
      LET tx == Block(from)[e.txIndex + 1]
          answer == ReceiptOf(e.hash, Least(BlocksWith(e.hash)))
      IN tx.kind = "endorser" /\ ~NoReceipt(tx) =>
           /\ answer.err = "none" /\ answer.val.status = 1
           /\ answer.val.blockNumber = from /\ answer.val.txIndex = e.txIndex

----------------------------------------------------------------------------
(* What the repository says and the code does not do.                      *)

\* release_notes/v0.4.0.md: "Filters containing HexEncoded numbers are now all
\* converted to lower case upon entry".  The case of a topic filter does not matter.
TopicCaseIgnored ==
  Answered("GetLogs") =>
    \A p \in LogPlaces :
      /\ p[1] \in from .. to /\ TxAt(p).valid
      /\ req.sent.address = {}
      /\ \A i \in DOMAIN req.sent.topics :
           /\ i \in DOMAIN LogAt(p).topics
           /\ \E t \in req.sent.topics[i] \ {None} : ToLower(t) = LogAt(p).topics[i]
      => \E k \in DOMAIN reply.val : PlaceOf(reply.val[k]) = p

\* ethservice.go: "GetLogs returns matching logs in range FromBlock to ToBlock."
\* With sound parameters and every ledger query answered, it does.
GetLogsAnswers ==
  pc = "idle" /\ req.method = "GetLogs" => reply.err # "decode"

\* Fab3_Instructions.md: eth_getBlockByNumber accepts "`earliest`" and a boolean for
\* full transactions.  With every ledger query answered, it returns the block.
GetBlockAnswers ==
  pc = "idle" /\ req.method = "GetBlockByNumber" => reply.err # "decode"
=============================================================================
