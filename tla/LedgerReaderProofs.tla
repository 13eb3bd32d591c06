------------------------- MODULE LedgerReaderProofs -------------------------
(***************************************************************************)
(* Proofs about LedgerReader: the range of eth_getLogs, what "latest"      *)
(* means, that what is listed is on the chain, that eth_getLogs is exact    *)
(* and that receipts are truthful.                                         *)
(***************************************************************************)
EXTENDS LedgerReader, SequenceLemmas

----------------------------------------------------------------------------
(* The handler.                                                            *)

Recent(n) == n < Height /\ n + 1 + MaxLag >= born

ChainInv ==
  /\ chain \in Seq(Blocks) /\ Height \in 1 .. MaxHeight /\ born \in 1 .. Height

\* What the handler knows of its request at each point.
RequestInv ==
  /\ pc \in {"idle", "hash", "from", "to", "range", "scan", "tx", "number", "block"}
  /\ pc \in {"hash", "from", "to", "range", "scan"} =>
       /\ req.method = "GetLogs"
       /\ {req.fromBlock, req.toBlock} \subseteq BlockArgs /\ ~BadNumber(req.fromBlock)
  /\ pc = "hash" => req.blockHash \in 0 .. MaxHeight /\ req.blockHash # None
  /\ pc \in {"tx", "number", "block"} => req.method # "GetLogs"
  /\ pc = "number" => req.number \in BlockArgs /\ ~BadNumber(req.number)

\* The range: "latest" is recent, and one name stands for one number.
RangeInv ==
  /\ {from, to} \subseteq 0 .. MaxHeight /\ next \in 0 .. MaxHeight + 1
  /\ pc = "to" /\ req.fromBlock = Latest => Recent(from)
  /\ pc = "range" /\ req.fromBlock = req.toBlock => from = to
  /\ pc \in {"range", "scan"} \/ Answered("GetLogs") =>
       (req.blockHash = None /\ req.toBlock = Latest => Recent(to))
  /\ pc = "scan" => from <= next /\ next <= to

ReplyInv ==
  /\ reply.err \in {"pending", "none", "input", "range", "ledger", "decode"}
  /\ SameNameNoInversion

HInv == ChainInv /\ RequestInv /\ RangeInv /\ ReplyInv

\* parseBlockNum gives a block's number, a recent one for "latest".
LEMMA ParsedNumber ==
  ASSUME ChainInv, NEW h \in Heights, NEW input \in BlockArgs, ~BadNumber(input)
  PROVE  /\ parseBlockNum(input, h) \in 0 .. MaxHeight
         /\ input = Latest => Recent(parseBlockNum(input, h))
<1>1. h \in 1 .. Height /\ h + MaxLag >= Height /\ Height \in 1 .. MaxHeight /\ born \in 1 .. Height
      /\ MaxHeight \in Nat /\ MaxLag \in Nat
  BY ReaderConstants DEF Heights, ChainInv
<1>2. CASE input = Latest
  <2>1. parseBlockNum(input, h) = h - 1
    BY <1>2 DEF parseBlockNum
  <2> QED BY <1>1, <2>1 DEF Recent
<1>3. CASE input # Latest
  <2>1. input = Earliest \/ \E n \in 0 .. MaxHeight : input = Number(n)
    BY <1>3 DEF BlockArgs, BadNumber
  <2>2. input[2] \in 0 .. MaxHeight
    BY <1>1, <2>1 DEF Earliest, Number
  <2> QED BY <1>3, <2>2 DEF parseBlockNum
<1> QED BY <1>2, <1>3

LEMMA InitHandler == Init => HInv
<1> SUFFICES ASSUME Init PROVE HInv
  OBVIOUS
<1>1. ChainInv
  BY ReaderConstants DEF Init, ChainInv, Height
<1>2. RequestInv /\ RangeInv /\ ReplyInv
  BY ReaderConstants DEF Init, RequestInv, RangeInv, ReplyInv, NoReply, Answered, SameNameNoInversion
<1> QED BY <1>1, <1>2 DEF HInv

\* A block that is committed meanwhile changes nothing for the handler.
LEMMA AddBlockHandler ==
  ASSUME HInv, NEW b \in Blocks, AddBlock(b)
  PROVE  HInv'
<1> USE DEF HInv
<1>1. chain' \in Seq(Blocks) /\ Height' = Height + 1 /\ Height \in Nat
  BY DEF ChainInv, AddBlock, Height
<1>2. UNCHANGED <<pc, req, from, to, next, txLogs, reply, born>>
  BY DEF AddBlock, locals
<1>3. ChainInv'
  BY <1>1, <1>2, ReaderConstants DEF ChainInv, AddBlock
<1>4. \A n \in Nat : Recent(n) => Recent(n)'
  BY <1>1, <1>2 DEF Recent
<1>5. from \in Nat /\ to \in Nat
  BY ReaderConstants DEF RangeInv
<1>6. RequestInv' /\ RangeInv' /\ ReplyInv'
  BY <1>2, <1>4, <1>5 DEF RequestInv, RangeInv, ReplyInv, Answered, SameNameNoInversion
<1> QED BY <1>3, <1>6

\* A request comes in.
LEMMA AcceptHandler ==
  ASSUME HInv, NEW q \in Queries, AcceptGetLogs(q)
  PROVE  HInv'
<1> USE DEF HInv
<1>1. /\ q.blockHash \in {None, Bad} \cup 0 .. MaxHeight
      /\ {q.fromBlock, q.toBlock} \subseteq {None} \cup BlockArgs
      /\ DOMAIN q = {"blockHash", "fromBlock", "toBlock", "address", "topics"}
  BY QueriesAssumption
<1>2. Latest \in BlockArgs /\ ~BadNumber(Latest)
  BY QueriesAssumption DEF BlockArgs, BadNumber, Latest, Pending
<1>3. born' = Height /\ chain' = chain /\ pc = "idle" /\ req'.method = "GetLogs"
  BY DEF AcceptGetLogs, Refuse, Receive, locals
<1>4. ChainInv'
  BY <1>3 DEF ChainInv, Height
<1>5. CASE Refuse([method |-> "GetLogs", sent |-> q])
  BY <1>3, <1>4, <1>5 DEF Refuse, Reply, locals, RequestInv, RangeInv, ReplyInv, Answered, SameNameNoInversion
<1>6. CASE ~Refuse([method |-> "GetLogs", sent |-> q])
  <2> DEFINE a == UnmarshalJSON(q)
             at == IF q.blockHash = None THEN "from" ELSE "hash"
             r == [method |-> "GetLogs", sent |-> q, blockHash |-> a.blockHash,
                   fromBlock |-> OrLatest(a.fromBlock), toBlock |-> OrLatest(a.toBlock),
                   address |-> a.address, topics |-> a.topics]
  <2>1. Receive(r, at) /\ WellFormed(q) /\ q.blockHash # Bad /\ ~BadNumber(q.fromBlock)
    BY <1>6 DEF AcceptGetLogs
  <2>2. a.blockHash = q.blockHash /\ a.fromBlock = q.fromBlock /\ a.toBlock = q.toBlock
    BY <1>1 DEF UnmarshalJSON
  <2>3. r.fromBlock \in BlockArgs /\ r.toBlock \in BlockArgs /\ ~BadNumber(r.fromBlock)
    BY <1>1, <1>2, <2>1, <2>2 DEF OrLatest
  <2>4. r.method = "GetLogs" /\ r.blockHash = q.blockHash
    BY <2>2
  <2> HIDE DEF r
  <2>5. at = "hash" => r.blockHash \in 0 .. MaxHeight /\ r.blockHash # None
    BY <1>1, <2>1, <2>4
  <2>6. req' = r /\ pc' = at /\ reply' = NoReply /\ from' = 0 /\ to' = 0 /\ next' = 0
    BY <2>1 DEF Receive
  <2>7. RequestInv'
    BY <2>3, <2>4, <2>5, <2>6 DEF RequestInv
  <2>8. RangeInv' /\ ReplyInv'
    BY <2>6, ReaderConstants DEF RangeInv, ReplyInv, Answered, SameNameNoInversion, NoReply
  <2> QED BY <1>4, <2>7, <2>8
<1> QED BY <1>5, <1>6

LEMMA AcceptOtherHandler ==
  ASSUME HInv,
         \/ \E id \in TxId, m \in {"GetTransactionReceipt", "GetTransactionByHash"} : AcceptTransaction(m, id)
         \/ \E n \in BlockArgs, full \in BOOLEAN : AcceptGetBlock(n, full)
         \/ AcceptBlockNumber
  PROVE  HInv'
<1> USE DEF HInv
<1>1. Latest \in BlockArgs /\ ~BadNumber(Latest)
  BY QueriesAssumption DEF BlockArgs, BadNumber, Latest, Pending
<1>2. born' = Height /\ chain' = chain /\ pc = "idle" /\ req'.method # "GetLogs"
  BY DEF AcceptTransaction, AcceptGetBlock, AcceptBlockNumber, Refuse, Receive, locals
<1>3. ChainInv'
  BY <1>2 DEF ChainInv, Height
<1>4. /\ pc' \in {"idle", "tx", "number"} /\ reply'.err \in {"pending", "input"}
      /\ pc' = "number" => req'.number \in BlockArgs /\ ~BadNumber(req'.number)
  BY <1>1 DEF AcceptTransaction, AcceptGetBlock, AcceptBlockNumber, Refuse, Receive, Reply, NoReply
<1>5. {from', to'} \subseteq 0 .. MaxHeight /\ next' \in 0 .. MaxHeight + 1
  BY ReaderConstants
     DEF AcceptTransaction, AcceptGetBlock, AcceptBlockNumber, Refuse, Receive, locals, RangeInv
<1>6. RequestInv'
  BY <1>2, <1>4 DEF RequestInv
<1>7. RangeInv' /\ ReplyInv'
  BY <1>2, <1>4, <1>5 DEF RangeInv, ReplyInv, Answered, SameNameNoInversion
<1> QED BY <1>3, <1>6, <1>7

\* The range is found out.
LEMMA RangeHandler ==
  ASSUME HInv, NEW h \in Heights,
         ByHash(h) \/ ResolveFrom(h) \/ ResolveTo(h) \/ CheckRange
  PROVE  HInv'
<1> USE DEF HInv
<1>1. UNCHANGED <<chain, req, born>> /\ Recent(from)' = Recent(from') /\ Recent(to)' = Recent(to')
  BY DEF ByHash, ResolveFrom, ResolveTo, CheckRange, Recent, Height
<1>2. ChainInv'
  BY <1>1 DEF ChainInv, Height
<1>3. CASE ByHash(h)
  <2>1. req.blockHash \in 0 .. MaxHeight /\ req.blockHash # None
    BY <1>3 DEF ByHash, RequestInv
  <2> QED BY <1>1, <1>2, <1>3, <2>1, ReaderConstants
       DEF ByHash, RequestInv, RangeInv, ReplyInv, Answered, SameNameNoInversion
<1>4. CASE ResolveFrom(h)
  <2>1. from' \in 0 .. MaxHeight /\ (req.fromBlock = Latest => Recent(from'))
    BY <1>4, ParsedNumber DEF ResolveFrom, RequestInv
  <2> QED BY <1>1, <1>2, <1>4, <2>1
       DEF ResolveFrom, RequestInv, RangeInv, ReplyInv, Answered, SameNameNoInversion
<1>5. CASE ResolveTo(h)
  <2>1. CASE BadNumber(req.toBlock)
    BY <1>1, <1>2, <1>5, <2>1
       DEF ResolveTo, Reply, RequestInv, RangeInv, ReplyInv, Answered, SameNameNoInversion
  <2>2. CASE ~BadNumber(req.toBlock)
    <3>1. pc = "to" /\ req.toBlock \in BlockArgs
      BY <1>5 DEF ResolveTo, RequestInv
    <3>2. to' \in 0 .. MaxHeight /\ (req.toBlock = Latest => Recent(to'))
      BY <1>5, <2>2, <3>1, ParsedNumber DEF ResolveTo, RangeInv
    <3>3. req.toBlock = req.fromBlock => to' = from
      BY <1>5, <2>2 DEF ResolveTo
    <3> QED BY <1>1, <1>2, <1>5, <2>2, <3>2, <3>3
         DEF ResolveTo, RequestInv, RangeInv, ReplyInv, Answered, SameNameNoInversion
  <2> QED BY <2>1, <2>2
<1>6. CASE CheckRange
  <2>1. from \in Nat /\ to \in Nat /\ (req.fromBlock = req.toBlock => from = to) /\ pc = "range"
    BY <1>6, ReaderConstants DEF CheckRange, RangeInv
  <2>2. CASE from > to
    BY <1>1, <1>2, <1>6, <2>1, <2>2
       DEF CheckRange, Reply, RequestInv, RangeInv, ReplyInv, Answered, SameNameNoInversion
  <2>3. CASE ~(from > to)
    <3>1. pc' = "scan" /\ next' = from /\ UNCHANGED <<from, to, reply>>
      BY <1>6, <2>3 DEF CheckRange
    <3>2. from \in 0 .. MaxHeight + 1 /\ from <= to
      BY <2>1, <2>3, ReaderConstants DEF RangeInv
    <3> QED BY <1>1, <1>2, <2>1, <3>1, <3>2
         DEF RequestInv, RangeInv, ReplyInv, Answered, SameNameNoInversion
  <2> QED BY <2>2, <2>3
<1> QED BY <1>3, <1>4, <1>5, <1>6

\* One block of the range is scanned.
LEMMA ScanHandler ==
  ASSUME HInv, NEW h \in Heights, ScanBlock(h)
  PROVE  HInv'
<1> USE DEF HInv
<1>1. UNCHANGED <<chain, req, from, to, born>> /\ pc = "scan" /\ next < h /\ Recent(to)' = Recent(to)
  BY DEF ScanBlock, Recent, Height
<1>2. ChainInv'
  BY <1>1 DEF ChainInv, Height
<1>3. next \in Nat /\ to \in Nat /\ from <= next /\ next <= to /\ h \in 1 .. MaxHeight /\ from \in Nat
  BY <1>1, ReaderConstants DEF RangeInv, Heights, ChainInv
<1>4. req.blockHash = None /\ req.toBlock = Latest => Recent(to)
  BY <1>1 DEF RangeInv
<1>5. \/ pc' = "idle" /\ reply'.err = "decode" /\ next' = next
      \/ pc' = "idle" /\ reply'.err = "none" /\ next' = next + 1
      \/ pc' = "scan" /\ reply' = reply /\ next' = next + 1 /\ ~(next >= to)
  BY <1>1 DEF ScanBlock, Reply
<1>6. next' \in 0 .. MaxHeight + 1 /\ (pc' = "scan" => from <= next' /\ next' <= to)
  BY <1>1, <1>3, <1>5, ReaderConstants
<1>7. RequestInv' /\ ReplyInv'
  BY <1>1, <1>5 DEF RequestInv, ReplyInv, SameNameNoInversion
<1>8. RangeInv'
  BY <1>1, <1>4, <1>5, <1>6 DEF RangeInv
<1> QED BY <1>2, <1>7, <1>8

\* A failed query ends any request.
LEMMA QueryFailsHandler ==
  ASSUME HInv, QueryFails
  PROVE  HInv'
<1> USE DEF HInv
<1>1. UNCHANGED <<chain, req, from, to, next, born>> /\ pc' = "idle" /\ reply'.err = "ledger"
  BY DEF QueryFails, Reply, locals
<1>2. ChainInv'
  BY <1>1 DEF ChainInv, Height
<1>3. RequestInv' /\ RangeInv' /\ ReplyInv'
  BY <1>1 DEF RequestInv, RangeInv, ReplyInv, Answered, SameNameNoInversion
<1> QED BY <1>2, <1>3

\* The other methods' answers.
LEMMA OtherHandler ==
  ASSUME HInv, NEW h \in Heights,
         GetTransactionReceipt(h) \/ GetTransactionByHash(h) \/ ResolveNumber(h) \/ FetchBlock(h)
  PROVE  HInv'
<1> USE DEF HInv
<1>1. UNCHANGED <<chain, req, to, next, born>> /\ pc \in {"tx", "number", "block"}
      /\ pc' \in {"idle", "block"} /\ (pc' = "idle" => reply'.err \in {"none", "decode"})
      /\ (pc' # "idle" => reply' = reply)
  BY DEF GetTransactionReceipt, ReceiptOf, GetTransactionByHash, ResolveNumber, FetchBlock, Found, Reply, locals
<1>2. ChainInv'
  BY <1>1 DEF ChainInv, Height
<1>3. req.method # "GetLogs"
  BY <1>1 DEF RequestInv
<1>4. from' \in 0 .. MaxHeight
  BY ParsedNumber DEF GetTransactionReceipt, GetTransactionByHash, ResolveNumber, FetchBlock, locals,
                      RangeInv, RequestInv
<1>5. RequestInv' /\ ReplyInv'
  BY <1>1, <1>3 DEF RequestInv, ReplyInv, SameNameNoInversion
<1>6. RangeInv'
  BY <1>1, <1>3, <1>4 DEF RangeInv, Answered
<1> QED BY <1>2, <1>5, <1>6

LEMMA NextHandler == HInv /\ [Next]_vars => HInv'
<1> SUFFICES ASSUME HInv, [Next]_vars PROVE HInv'
  OBVIOUS
<1>1. CASE UNCHANGED vars
  BY <1>1 DEF vars, HInv, ChainInv, Height, RequestInv, RangeInv, ReplyInv, Recent, Answered, SameNameNoInversion
<1>2. CASE CheckRange
  <2>1. Height \in Heights
    BY ReaderConstants DEF HInv, ChainInv, Heights
  <2> QED BY <1>2, <2>1, RangeHandler
<1> QED BY <1>1, <1>2, AddBlockHandler, AcceptHandler, AcceptOtherHandler, RangeHandler, ScanHandler,
           QueryFailsHandler, OtherHandler DEF Next

THEOREM HandlerInvariant == Spec => []HInv
  BY InitHandler, NextHandler, PTL DEF Spec

\* The handler's control state and range, whatever is asked.
THEOREM ReaderTypes == Spec => []TypeOK
<1>1. HInv => TypeOK
  BY DEF HInv, ChainInv, RequestInv, RangeInv, ReplyInv, TypeOK
<1> QED BY <1>1, HandlerInvariant, PTL

\* eth_getLogs never refuses as inverted a range with one name at both ends:
\* "latest" is asked of the ledger once, and blocks that arrive later or
\* peers that lag cannot come between.
THEOREM NoInversion == Spec => []SameNameNoInversion
<1>1. HInv => SameNameNoInversion
  BY DEF HInv, ReplyInv
<1> QED BY <1>1, HandlerInvariant, PTL

\* "latest" is never past the chain's end, and never before the chain's
\* height at the request's arrival by more than the lag of the peer asked.
THEOREM LatestFresh == Spec => []LatestIsFresh
<1>1. HInv => LatestIsFresh
  BY DEF HInv, RangeInv, LatestIsFresh, Recent
<1> QED BY <1>1, HandlerInvariant, PTL

----------------------------------------------------------------------------
(* The chain and its index of transaction ids.                             *)

\* The least element of a set of numbers.
LEMMA LeastOf ==
  ASSUME NEW S \in SUBSET Nat, S # {}
  PROVE  Least(S) \in S /\ \A x \in S : Least(S) <= x
  BY LeastElement DEF Least

LEMMA LeastIs ==
  ASSUME NEW S \in SUBSET Nat, NEW m \in S, \A x \in S : m <= x
  PROVE  Least(S) = m
<1>1. Least(S) \in S /\ Least(S) <= m
  BY LeastOf
<1>2. m <= Least(S) /\ m \in Nat /\ Least(S) \in Nat
  BY <1>1
<1> QED BY <1>1, <1>2

\* The blocks are sequences of transactions.
LEMMA BlockTypes ==
  ASSUME ChainInv, NEW n \in 0 .. Height - 1
  PROVE  /\ n \in Nat /\ n + 1 \in DOMAIN chain /\ Block(n) \in Seq(Transaction)
         /\ Len(Block(n)) \in Nat /\ DOMAIN Block(n) = 1 .. Len(Block(n))
         /\ \A i \in DOMAIN Block(n) : Block(n)[i] \in Transaction
<1>1. n \in Nat /\ n + 1 \in DOMAIN chain
  BY DEF ChainInv, Height
<1>2. Block(n) \in Seq(Transaction)
  BY <1>1, BlocksAssumption DEF ChainInv, Block
<1> QED BY <1>1, <1>2

\* The chain only grows.
LEMMA ChainGrows ==
  ASSUME ChainInv, NEW b \in Blocks, AddBlock(b)
  PROVE  /\ Height \in Nat /\ Height' = Height + 1
         /\ \A n \in Nat : n = Height => Block(n)' = b
         /\ \A n \in 0 .. Height - 1 : Block(n)' = Block(n)
         /\ \A n \in 0 .. Height - 1 : \A id : Places(n, id)' = Places(n, id)
<1>1. Height \in Nat /\ Height' = Height + 1 /\ chain'[Height + 1] = b
      /\ \A n \in 0 .. Height - 1 : chain'[n + 1] = chain[n + 1]
  BY DEF AddBlock, ChainInv, Height
<1>2. \A n \in 0 .. Height - 1 : Block(n)' = Block(n)
  BY <1>1 DEF Block
<1>3. \A n \in Nat : n = Height => Block(n)' = b
  BY <1>1 DEF Block
<1>4. \A n \in 0 .. Height - 1 : \A id : Places(n, id)' = Places(n, id)
  BY <1>2 DEF Places
<1> QED BY <1>1, <1>2, <1>3, <1>4

\* A valid transaction is the first one of its id: ids are not used twice.
FirstInv ==
  \A n \in 0 .. Height - 1 : \A i \in DOMAIN Block(n) :
    LET tx == Block(n)[i] IN
    tx.valid /\ tx.kind = "endorser" =>
      /\ \A m \in 0 .. n - 1 : Places(m, tx.id) = {}
      /\ \A j \in 1 .. i - 1 : Block(n)[j].id # tx.id

LEMMA InitFirst == Init => FirstInv
  BY DEF Init, FirstInv, Height, Block

LEMMA NextFirst == HInv /\ FirstInv /\ [Next]_vars => FirstInv'
<1> SUFFICES ASSUME HInv, FirstInv, [Next]_vars PROVE FirstInv'
  OBVIOUS
<1>1. CASE \E b \in Blocks : AddBlock(b)
  <2>1. PICK b \in Blocks : AddBlock(b)
    BY <1>1
  <2>2. /\ Height \in Nat /\ Height' = Height + 1
        /\ \A n \in Nat : n = Height => Block(n)' = b
        /\ \A n \in 0 .. Height - 1 : Block(n)' = Block(n)
        /\ \A n \in 0 .. Height - 1 : \A id : Places(n, id)' = Places(n, id)
    BY <2>1, ChainGrows DEF HInv
  <2> SUFFICES ASSUME NEW n \in 0 .. Height, NEW i \in DOMAIN Block(n)', NEW tx, tx = (Block(n)')[i],
                      tx.valid, tx.kind = "endorser"
               PROVE  /\ \A m \in 0 .. n - 1 : Places(m, tx.id)' = {}
                      /\ \A j \in 1 .. i - 1 : (Block(n)')[j].id # tx.id
    BY <2>2 DEF FirstInv
  <2>3. CASE n \in 0 .. Height - 1
    <3>1. Block(n)' = Block(n) /\ \A m \in 0 .. n - 1 : Places(m, tx.id)' = Places(m, tx.id)
      BY <2>2, <2>3
    <3> QED BY <2>3, <3>1 DEF FirstInv
  <2>4. CASE n = Height
    <3>1. n \in Nat /\ Block(n)' = b
      BY <2>2, <2>4
    <3>2. BlocksWith(tx.id) = {} /\ \A j \in 1 .. i - 1 : b[j].id # tx.id
      BY <2>1, <3>1 DEF AddBlock
    <3>3. \A m \in 0 .. n - 1 : Places(m, tx.id)' = Places(m, tx.id)
      BY <2>2, <2>4
    <3> QED BY <2>4, <3>1, <3>2, <3>3 DEF BlocksWith
  <2> QED BY <2>2, <2>3, <2>4
<1>2. CASE UNCHANGED chain
  <2>1. Height' = Height /\ \A n : Block(n)' = Block(n)
    BY <1>2 DEF Height, Block
  <2>2. \A n, id : Places(n, id)' = Places(n, id)
    BY <2>1 DEF Places
  <2> QED BY <2>1, <2>2 DEF FirstInv
<1> QED BY <1>1, <1>2
     DEF Next, vars, AcceptGetLogs, AcceptTransaction, AcceptGetBlock, AcceptBlockNumber, Receive, Refuse,
         QueryFails, CheckRange, ByHash, ResolveFrom, ResolveTo, ScanBlock, GetTransactionReceipt,
         GetTransactionByHash, ResolveNumber, FetchBlock

\* So the index leads from its id to it.
LEMMA ValidIsFound ==
  ASSUME ChainInv, FirstInv, NEW n \in 0 .. Height - 1, NEW i \in DOMAIN Block(n),
         Block(n)[i].valid, Block(n)[i].kind = "endorser"
  PROVE  LET id == Block(n)[i].id IN
         /\ BlocksWith(id) # {} /\ Least(BlocksWith(id)) = n
         /\ findTransaction(n, id) = i - 1
<1> DEFINE id == Block(n)[i].id
<1>1. n \in Nat /\ Len(Block(n)) \in Nat /\ DOMAIN Block(n) = 1 .. Len(Block(n)) /\ Height \in Nat
  BY BlockTypes DEF ChainInv
<1>2. i - 1 \in Places(n, id)
  BY <1>1 DEF Places
<1>3. /\ \A m \in 0 .. n - 1 : Places(m, id) = {}
      /\ \A j \in 1 .. i - 1 : Block(n)[j].id # id
  BY DEF FirstInv
<1>4. n \in BlocksWith(id) /\ BlocksWith(id) \subseteq Nat
  BY <1>1, <1>2 DEF BlocksWith
<1>5. \A m \in BlocksWith(id) : n <= m
  BY <1>1, <1>3 DEF BlocksWith
<1>6. Least(BlocksWith(id)) = n
  BY <1>4, <1>5, LeastIs
<1>7. Places(n, id) \subseteq Nat /\ \A k \in Places(n, id) : i - 1 <= k
  BY <1>1, <1>3 DEF Places
<1>8. findTransaction(n, id) = i - 1
  BY <1>2, <1>7, LeastIs DEF findTransaction
<1> QED BY <1>4, <1>6, <1>8

\* The reply to eth_getBlockByNumber lists valid transactions of the block.
ListedInv ==
  Answered("GetBlockByNumber") =>
    /\ from \in 0 .. Height - 1
    /\ \A e \in reply.val : \E i \in DOMAIN Block(from) :
         Block(from)[i].valid /\ e = [hash |-> Block(from)[i].id, txIndex |-> i - 1]

LEMMA NextListed == HInv /\ ListedInv /\ [Next]_vars => ListedInv'
<1> SUFFICES ASSUME HInv, ListedInv, [Next]_vars, Answered("GetBlockByNumber")'
             PROVE  /\ from' \in 0 .. Height' - 1
                    /\ \A e \in reply'.val : \E i \in DOMAIN Block(from)' :
                         (Block(from)')[i].valid /\ e = [hash |-> (Block(from)')[i].id, txIndex |-> i - 1]
  BY DEF ListedInv
<1>1. CASE \E b \in Blocks : AddBlock(b)
  <2>1. PICK b \in Blocks : AddBlock(b)
    BY <1>1
  <2>2. UNCHANGED <<pc, req, from, reply>>
    BY <2>1 DEF AddBlock, locals
  <2>3. Height \in Nat /\ Height' = Height + 1 /\ \A n \in 0 .. Height - 1 : Block(n)' = Block(n)
    BY <2>1, ChainGrows DEF HInv
  <2>4. from \in 0 .. Height - 1 /\ Answered("GetBlockByNumber")
    BY <2>2 DEF Answered, ListedInv
  <2>5. Block(from)' = Block(from)
    BY <2>2, <2>3, <2>4 DEF Block
  <2> QED BY <2>2, <2>3, <2>4, <2>5 DEF ListedInv
<1>2. CASE \E h \in Heights : FetchBlock(h)
  <2>1. PICK h \in Heights : FetchBlock(h)
    BY <1>2
  <2>2. UNCHANGED <<chain, from>> /\ from < h /\ h \in 1 .. Height /\ from \in Nat /\ Height \in Nat
    BY <2>1, ReaderConstants DEF FetchBlock, locals, Heights, HInv, RangeInv, ChainInv
  <2>3. reply'.val = {[hash |-> Block(from)[i].id, txIndex |-> i - 1] :
                       i \in {j \in DOMAIN Block(from) : Block(from)[j].valid /\ Block(from)[j].kind # "nil"}}
    BY <2>1 DEF FetchBlock, Reply, Answered
  <2>4. Block(from)' = Block(from) /\ Height' = Height
    BY <2>2 DEF Block, Height
  <2> QED BY <2>2, <2>3, <2>4
<1>3. CASE UNCHANGED vars
  <2>1. Block(from)' = Block(from) /\ Height' = Height /\ UNCHANGED <<from, reply>> /\ Answered("GetBlockByNumber")
    BY <1>3 DEF vars, Block, Height, Answered
  <2> QED BY <2>1 DEF ListedInv
<1>4. CASE ~(\E b \in Blocks : AddBlock(b)) /\ ~(\E h \in Heights : FetchBlock(h)) /\ ~UNCHANGED vars
  <2>1. pc' = "idle" /\ req'.method = "GetBlockByNumber" /\ reply'.err = "none"
    BY DEF Answered
  <2>2. \A h \in Heights : ~ScanBlock(h)
    BY <2>1 DEF ScanBlock, HInv, RequestInv
  <2>3. \A h \in Heights : ~GetTransactionReceipt(h) /\ ~GetTransactionByHash(h) /\ ~ResolveNumber(h)
    BY <2>1 DEF GetTransactionReceipt, GetTransactionByHash, ResolveNumber, Found
  <2>4. \A h \in Heights : ~ByHash(h) /\ ~ResolveFrom(h) /\ ~ResolveTo(h)
    BY <2>1 DEF ByHash, ResolveFrom, ResolveTo, Reply
  <2>5. ~QueryFails /\ ~CheckRange
    BY <2>1 DEF QueryFails, CheckRange, Reply
  <2>6. \A q \in Queries : ~AcceptGetLogs(q)
    BY <2>1 DEF AcceptGetLogs, Refuse, Receive, Reply
  <2>7. /\ ~AcceptBlockNumber
        /\ \A id \in TxId, m \in {"GetTransactionReceipt", "GetTransactionByHash"} : ~AcceptTransaction(m, id)
        /\ \A n \in BlockArgs, full \in BOOLEAN : ~AcceptGetBlock(n, full)
    BY <2>1 DEF AcceptBlockNumber, AcceptTransaction, AcceptGetBlock, Refuse, Receive, Reply
  <2> QED BY <1>4, <2>2, <2>3, <2>4, <2>5, <2>6, <2>7 DEF Next
<1> QED BY <1>1, <1>2, <1>3, <1>4

\* Every transaction that eth_getBlockByNumber lists, and that fab3 can decode,
\* has a receipt of status 1 at its place, however the chain goes on: the
\* ledger's index and findTransaction lead from its id to it and no other.
THEOREM ListedAreFound == Spec => []ListedHaveReceipts
<1>1. Spec => []FirstInv
  BY InitFirst, NextFirst, HandlerInvariant, PTL DEF Spec
<1>2. Init => ListedInv
  BY DEF Init, ListedInv, Answered
<1>3. Spec => []ListedInv
  BY <1>2, NextListed, HandlerInvariant, PTL DEF Spec
<1>4. HInv /\ FirstInv /\ ListedInv => ListedHaveReceipts
  <2> SUFFICES ASSUME HInv, FirstInv, ListedInv, Answered("GetBlockByNumber"), NEW e \in reply.val,
                      Block(from)[e.txIndex + 1].kind = "endorser", ~NoReceipt(Block(from)[e.txIndex + 1])
               PROVE  LET answer == ReceiptOf(e.hash, Least(BlocksWith(e.hash)))
                      IN /\ answer.err = "none" /\ answer.val.status = 1
                         /\ answer.val.blockNumber = from /\ answer.val.txIndex = e.txIndex
    BY DEF ListedHaveReceipts
  <2>1. from \in 0 .. Height - 1
    BY DEF ListedInv
  <2>2. PICK i \in DOMAIN Block(from) : Block(from)[i].valid /\ e = [hash |-> Block(from)[i].id, txIndex |-> i - 1]
    BY DEF ListedInv
  <2>3. e.hash = Block(from)[i].id /\ e.txIndex = i - 1 /\ e.txIndex + 1 = i
    BY <2>1, <2>2, BlockTypes DEF HInv
  <2>4. Least(BlocksWith(e.hash)) = from /\ findTransaction(from, e.hash) = e.txIndex
    BY <2>1, <2>2, <2>3, ValidIsFound DEF HInv
  <2>5. ReceiptOf(e.hash, from) =
          [err |-> "none",
           val |-> [blockNumber |-> from, txIndex |-> e.txIndex, status |-> 1,
                    logs |-> fabricEventToEVMLogs(from, e.txIndex, {}, <<>>)]]
    BY <2>2, <2>3, <2>4 DEF ReceiptOf
  <2> QED BY <2>4, <2>5
<1> QED BY <1>1, <1>3, <1>4, HandlerInvariant, PTL

----------------------------------------------------------------------------
(* Sequences of logs and the places they come from.                        *)

LogRecords == [blockNumber : Nat, txIndex : Nat, txHash : TxId, index : Nat,
               address : Lower, topics : Seq(Lower)]

\* A log's indices lead back to what it says.
LeadsBack(log) ==
  log.txHash = TxAt(PlaceOf(log)).id /\ log.address = LogAt(PlaceOf(log)).address

\* The logs of exactly the places P, in chain order.
IsExact(logs, P) ==
  /\ \A k \in 1 .. Len(logs) : PlaceOf(logs[k]) \in P /\ LeadsBack(logs[k])
  /\ \A p \in P : \E k \in 1 .. Len(logs) : PlaceOf(logs[k]) = p
  /\ \A k \in 1 .. Len(logs), l \in 1 .. Len(logs) : k < l => Before(PlaceOf(logs[k]), PlaceOf(logs[l]))

\* What the loops append is exact if every pass is, and later passes append later logs.
LEMMA FlattenExact ==
  ASSUME NEW seqs \in Seq(Seq(LogRecords)), NEW P,
         \A a \in 1 .. Len(seqs) : IsExact(seqs[a], P[a]),
         \A a \in 1 .. Len(seqs), b \in 1 .. Len(seqs) : a < b =>
           \A p \in P[a], r \in P[b] : Before(p, r)
  PROVE  /\ FlattenSeq(seqs) \in Seq(LogRecords)
         /\ IsExact(FlattenSeq(seqs), UNION {P[a] : a \in 1 .. Len(seqs)})
<1> DEFINE f == FlattenSeq(seqs)
           N == Len(seqs)
           U == UNION {P[a] : a \in 1 .. N}
<1>1. f \in Seq(LogRecords) /\ FlatOf(f, seqs, N)
  BY Flattened
<1> HIDE DEF f
<1>2. ASSUME NEW k \in 1 .. Len(f) PROVE PlaceOf(f[k]) \in U /\ LeadsBack(f[k])
  <2>1. PICK a \in 1 .. N : \E i \in 1 .. Len(seqs[a]) : f[k] = seqs[a][i]
    BY <1>1 DEF FlatOf
  <2>2. PICK i \in 1 .. Len(seqs[a]) : f[k] = seqs[a][i]
    BY <2>1
  <2>3. PlaceOf(seqs[a][i]) \in P[a] /\ LeadsBack(seqs[a][i])
    BY DEF IsExact
  <2> QED BY <2>2, <2>3
<1>3. ASSUME NEW p \in U PROVE \E k \in 1 .. Len(f) : PlaceOf(f[k]) = p
  <2>1. PICK a \in 1 .. N : p \in P[a]
    OBVIOUS
  <2>2. PICK i \in 1 .. Len(seqs[a]) : PlaceOf(seqs[a][i]) = p
    BY <2>1 DEF IsExact
  <2>3. PICK k \in 1 .. Len(f) : f[k] = seqs[a][i]
    BY <1>1 DEF FlatOf
  <2> QED BY <2>2, <2>3
<1>4. ASSUME NEW k \in 1 .. Len(f), NEW l \in 1 .. Len(f), k < l
      PROVE  Before(PlaceOf(f[k]), PlaceOf(f[l]))
  <2>1. PICK a \in 1 .. N, b \in 1 .. N : \E i \in 1 .. Len(seqs[a]), j \in 1 .. Len(seqs[b]) :
          f[k] = seqs[a][i] /\ f[l] = seqs[b][j] /\ Earlier(a, i, b, j)
    BY <1>1, <1>4 DEF FlatOf
  <2>2. PICK i \in 1 .. Len(seqs[a]), j \in 1 .. Len(seqs[b]) :
          f[k] = seqs[a][i] /\ f[l] = seqs[b][j] /\ Earlier(a, i, b, j)
    BY <2>1
  <2>3. PlaceOf(seqs[a][i]) \in P[a] /\ PlaceOf(seqs[b][j]) \in P[b]
    BY DEF IsExact
  <2>4. CASE a < b
    BY <2>2, <2>3, <2>4
  <2>5. CASE a = b /\ i < j
    BY <2>2, <2>5 DEF IsExact
  <2> QED BY <2>2, <2>4, <2>5 DEF Earlier
<1>5. IsExact(f, U)
  BY <1>2, <1>3, <1>4 DEF IsExact
<1> QED BY <1>1, <1>5 DEF f

\* The same for one more pass.
LEMMA ConcatExact ==
  ASSUME NEW s \in Seq(LogRecords), NEW t \in Seq(LogRecords), NEW P, NEW Q,
         IsExact(s, P), IsExact(t, Q), \A p \in P, r \in Q : Before(p, r)
  PROVE  s \o t \in Seq(LogRecords) /\ IsExact(s \o t, P \cup Q)
<1> DEFINE f == s \o t
<1>1. /\ f \in Seq(LogRecords) /\ Len(f) = Len(s) + Len(t) /\ Len(s) \in Nat /\ Len(t) \in Nat
      /\ \A k \in 1 .. Len(f) :
           \/ k \in 1 .. Len(s) /\ f[k] = s[k]
           \/ k - Len(s) \in 1 .. Len(t) /\ f[k] = t[k - Len(s)]
      /\ \A k \in 1 .. Len(s) : f[k] = s[k]
      /\ \A k \in 1 .. Len(t) : f[Len(s) + k] = t[k]
  BY ConcatAt
<1> HIDE DEF f
<1>2. ASSUME NEW k \in 1 .. Len(f) PROVE PlaceOf(f[k]) \in P \cup Q /\ LeadsBack(f[k])
  BY <1>1 DEF IsExact
<1>3. ASSUME NEW p \in P \cup Q PROVE \E k \in 1 .. Len(f) : PlaceOf(f[k]) = p
  <2>1. CASE p \in P
    <3>1. PICK k \in 1 .. Len(s) : PlaceOf(s[k]) = p
      BY <2>1 DEF IsExact
    <3>2. k \in 1 .. Len(f) /\ f[k] = s[k]
      BY <1>1
    <3> QED BY <3>1, <3>2
  <2>2. CASE p \in Q
    <3>1. PICK k \in 1 .. Len(t) : PlaceOf(t[k]) = p
      BY <2>2 DEF IsExact
    <3>2. Len(s) + k \in 1 .. Len(f) /\ f[Len(s) + k] = t[k]
      BY <1>1
    <3> QED BY <3>1, <3>2
  <2> QED BY <2>1, <2>2
<1>4. ASSUME NEW k \in 1 .. Len(f), NEW l \in 1 .. Len(f), k < l
      PROVE  Before(PlaceOf(f[k]), PlaceOf(f[l]))
  <2>1. CASE l \in 1 .. Len(s) /\ f[l] = s[l]
    <3>1. k \in 1 .. Len(s)
      BY <1>1, <1>4, <2>1
    <3> QED BY <1>1, <1>4, <2>1, <3>1 DEF IsExact
  <2>2. CASE l - Len(s) \in 1 .. Len(t) /\ f[l] = t[l - Len(s)]
    <3>1. CASE k \in 1 .. Len(s) /\ f[k] = s[k]
      BY <2>2, <3>1 DEF IsExact
    <3>2. CASE k - Len(s) \in 1 .. Len(t) /\ f[k] = t[k - Len(s)]
      <4>1. k - Len(s) < l - Len(s)
        BY <1>1, <1>4
      <4> QED BY <2>2, <3>2, <4>1 DEF IsExact
    <3> QED BY <1>1, <3>1, <3>2
  <2> QED BY <1>1, <2>1, <2>2
<1>5. IsExact(f, P \cup Q)
  BY <1>2, <1>3, <1>4 DEF IsExact
<1> QED BY <1>1, <1>5 DEF f

----------------------------------------------------------------------------
(* Logs of a transaction and of a block.                                   *)

\* The places of the chain's logs, spelled out.
LEMMA LogPlaceIs ==
  ASSUME NEW p
  PROVE  p \in LogPlaces <=>
           \E n \in 0 .. Height - 1 : \E i \in 0 .. Len(Block(n)) - 1 :
             /\ Block(n)[i + 1].events \notin {None, Bad}
             /\ \E j \in DOMAIN Block(n)[i + 1].events : p = <<n, i, j - 1>>
<1>1. ASSUME p \in LogPlaces
      PROVE  \E n \in 0 .. Height - 1 : \E i \in 0 .. Len(Block(n)) - 1 :
               /\ Block(n)[i + 1].events \notin {None, Bad}
               /\ \E j \in DOMAIN Block(n)[i + 1].events : p = <<n, i, j - 1>>
  <2>1. PICK x \in TxPlaces : /\ TxAt(x).events \notin {None, Bad}
                              /\ \E j \in DOMAIN TxAt(x).events : p = <<x[1], x[2], j - 1>>
    BY <1>1 DEF LogPlaces
  <2>2. PICK n \in 0 .. Height - 1 : x \in {n} \X (0 .. Len(Block(n)) - 1)
    BY <2>1 DEF TxPlaces
  <2>3. x[1] = n /\ x[2] \in 0 .. Len(Block(n)) - 1
    BY <2>2
  <2> QED BY <2>1, <2>3 DEF TxAt
<1>2. ASSUME NEW n \in 0 .. Height - 1, NEW i \in 0 .. Len(Block(n)) - 1,
             Block(n)[i + 1].events \notin {None, Bad},
             NEW j \in DOMAIN Block(n)[i + 1].events, p = <<n, i, j - 1>>
      PROVE  p \in LogPlaces
  <2> DEFINE x == <<n, i>>
  <2>1. x \in {n} \X (0 .. Len(Block(n)) - 1) /\ TxAt(x) = Block(n)[i + 1] /\ x[1] = n /\ x[2] = i
    BY DEF TxAt
  <2>2. x \in TxPlaces
    BY <2>1 DEF TxPlaces
  <2>3. p \in {<<x[1], x[2], k - 1>> : k \in DOMAIN TxAt(x).events}
    BY <1>2, <2>1
  <2>4. x \in {y \in TxPlaces : TxAt(y).events \notin {None, Bad}}
    BY <1>2, <2>1, <2>2
  <2> HIDE DEF x
  <2> QED BY <2>3, <2>4 DEF LogPlaces
<1> QED BY <1>1, <1>2

\* The filters that UnmarshalJSON makes of a request select what the request
\* wants: case and null are dealt with.
LEMMA MatchesWanted ==
  ASSUME NEW q \in Queries, WellFormed(q), NEW log \in Log
  PROVE  Matches(log, UnmarshalJSON(q).address, UnmarshalJSON(q).topics) <=> Wanted(log, q)
<1> DEFINE af == {ToLower(a) : a \in q.address \ {None}}
           tf == [i \in DOMAIN q.topics |-> NewTopicFilter(q.topics[i])]
<1>1. /\ DOMAIN q = {"blockHash", "fromBlock", "toBlock", "address", "topics"}
      /\ q.topics \in Seq(SUBSET (Hex \cup {None, Bad}))
      /\ log.address \in Lower /\ log.topics \in Seq(Lower)
  BY QueriesAssumption DEF Log
<1>2. UnmarshalJSON(q).address = af /\ UnmarshalJSON(q).topics = tf
  BY <1>1 DEF UnmarshalJSON, NewAddressFilter
<1>3. (af = {} \/ log.address \in af) <=>
        (q.address \ {None} = {} \/ \E a \in q.address \ {None} : ToLower(a) = log.address)
  OBVIOUS
<1>4. /\ Len(q.topics) \in Nat /\ DOMAIN q.topics = 1 .. Len(q.topics)
      /\ Len(log.topics) \in Nat /\ DOMAIN log.topics = 1 .. Len(log.topics)
  BY <1>1
<1>5. DOMAIN tf = 1 .. Len(q.topics) /\ Len(tf) = Len(q.topics)
  BY <1>4
<1>6. Len(tf) <= Len(log.topics) <=> \A i \in DOMAIN q.topics : i \in DOMAIN log.topics
  <2>1. ASSUME \A i \in DOMAIN q.topics : i \in DOMAIN log.topics PROVE Len(q.topics) <= Len(log.topics)
    <3>1. CASE Len(q.topics) = 0
      BY <1>4, <3>1
    <3>2. CASE Len(q.topics) # 0
      <4>1. Len(q.topics) \in DOMAIN q.topics
        BY <1>4, <3>2
      <4> QED BY <1>4, <2>1, <4>1
    <3> QED BY <3>1, <3>2
  <2>2. ASSUME Len(q.topics) <= Len(log.topics) PROVE \A i \in DOMAIN q.topics : i \in DOMAIN log.topics
    BY <1>4, <2>2
  <2> QED BY <1>5, <2>1, <2>2
<1>7. ASSUME NEW i \in DOMAIN q.topics, i \in DOMAIN log.topics
      PROVE  (tf[i] = {} \/ Wildcard \in tf[i] \/ log.topics[i] \in tf[i]) <=>
               (q.topics[i] = {} \/ None \in q.topics[i] \/ log.topics[i] \in q.topics[i])
  <2>1. tf[i] = {IF t = None THEN Wildcard ELSE t : t \in q.topics[i]}
    BY DEF NewTopicFilter
  <2>2. q.topics[i] \subseteq Hex \cup {None, Bad}
    BY <1>1
  <2>3. log.topics[i] \in Hex
    BY <1>1, <1>7 DEF Lower, Hex
  <2>4. Wildcard \notin Hex \cup {None, Bad} /\ None \notin Hex
    BY QueriesAssumption
  <2>5. tf[i] = {} <=> q.topics[i] = {}
    BY <2>1
  <2>6. Wildcard \in tf[i] <=> None \in q.topics[i]
    BY <2>1, <2>2, <2>4
  <2>7. log.topics[i] \in tf[i] <=> log.topics[i] \in q.topics[i]
    BY <2>1, <2>3, <2>4
  <2> QED BY <2>5, <2>6, <2>7
<1> HIDE DEF af, tf
<1>8. Matches(log, af, tf) <=>
        /\ af = {} \/ log.address \in af
        /\ Len(tf) <= Len(log.topics)
        /\ \A i \in DOMAIN q.topics : tf[i] = {} \/ Wildcard \in tf[i] \/ log.topics[i] \in tf[i]
  BY <1>4, <1>5 DEF Matches
<1> QED BY <1>2, <1>3, <1>6, <1>7, <1>8 DEF Wanted

\* The places of transaction i (from 0) of block n whose logs match the filters.
Selected(n, i, af, tf) ==
  {<<n, i, j - 1>> : j \in {k \in DOMAIN Block(n)[i + 1].events : Matches(Block(n)[i + 1].events[k], af, tf)}}

\* fabricEventToEVMLogs is exact.
LEMMA EventLogsExact ==
  ASSUME ChainInv, NEW n \in 0 .. Height - 1, NEW i \in 0 .. Len(Block(n)) - 1, NEW af, NEW tf,
         Block(n)[i + 1].events \notin {None, Bad}
  PROVE  /\ fabricEventToEVMLogs(n, i, af, tf) \in Seq(LogRecords)
         /\ IsExact(fabricEventToEVMLogs(n, i, af, tf), Selected(n, i, af, tf))
<1> DEFINE tx == Block(n)[i + 1]
           ev == tx.events
           log(j) == [blockNumber |-> n, txIndex |-> i, txHash |-> tx.id, index |-> j - 1,
                      address |-> ev[j].address, topics |-> ev[j].topics]
           seqs == [j \in DOMAIN ev |-> IF Matches(ev[j], af, tf) THEN <<log(j)>> ELSE <<>>]
           P == [j \in DOMAIN ev |-> IF Matches(ev[j], af, tf) THEN {<<n, i, j - 1>>} ELSE {}]
<1>1. n \in Nat /\ i \in Nat /\ tx \in Transaction
  BY BlockTypes
<1>2. ev \in Seq(Log) /\ tx.id \in TxId
  BY <1>1 DEF Transaction
<1>3. Len(ev) \in Nat /\ DOMAIN ev = 1 .. Len(ev) /\ \A j \in 1 .. Len(ev) : ev[j] \in Log
  BY <1>2
<1>4. ASSUME NEW j \in 1 .. Len(ev)
      PROVE  log(j) \in LogRecords /\ PlaceOf(log(j)) = <<n, i, j - 1>> /\ LeadsBack(log(j))
  <2>1. ev[j].address \in Lower /\ ev[j].topics \in Seq(Lower) /\ j - 1 \in Nat /\ j - 1 + 1 = j
    BY <1>3 DEF Log
  <2>2. log(j) \in LogRecords
    BY <1>1, <1>2, <2>1 DEF LogRecords
  <2>3. PlaceOf(log(j)) = <<n, i, j - 1>>
    BY DEF PlaceOf
  <2>4. TxAt(<<n, i, j - 1>>) = tx /\ LogAt(<<n, i, j - 1>>) = ev[j]
    BY <2>1 DEF TxAt, LogAt
  <2> QED BY <2>2, <2>3, <2>4 DEF LeadsBack
<1>5. fabricEventToEVMLogs(n, i, af, tf) = FlattenSeq(seqs)
  BY DEF fabricEventToEVMLogs
<1> HIDE DEF log
<1>6. ASSUME NEW j \in 1 .. Len(ev) PROVE seqs[j] \in Seq(LogRecords) /\ IsExact(seqs[j], P[j])
  <2>1. CASE Matches(ev[j], af, tf)
    <3>1. seqs[j] = <<log(j)>> /\ P[j] = {<<n, i, j - 1>>}
      BY <1>3, <2>1
    <3>2. Len(<<log(j)>>) = 1 /\ <<log(j)>>[1] = log(j) /\ <<log(j)>> \in Seq(LogRecords)
      BY <1>4
    <3>3. IsExact(<<log(j)>>, {<<n, i, j - 1>>})
      BY <1>4, <3>2 DEF IsExact
    <3> QED BY <3>1, <3>2, <3>3
  <2>2. CASE ~Matches(ev[j], af, tf)
    <3>1. seqs[j] = <<>> /\ P[j] = {}
      BY <1>3, <2>2
    <3> QED BY <3>1 DEF IsExact
  <2> QED BY <2>1, <2>2
<1>7. seqs \in Seq(Seq(LogRecords)) /\ Len(seqs) = Len(ev)
  <2>1. seqs = [j \in 1 .. Len(ev) |-> seqs[j]]
    BY <1>3
  <2> HIDE DEF seqs
  <2>2. \A j \in 1 .. Len(ev) : seqs[j] \in Seq(LogRecords)
    BY <1>6
  <2> HIDE DEF ev
  <2> QED BY <1>3, <2>1, <2>2, FunctionIsSeq
<1>8. ASSUME NEW a \in 1 .. Len(ev), NEW b \in 1 .. Len(ev), a < b, NEW p \in P[a], NEW r \in P[b]
      PROVE  Before(p, r)
  <2>1. p = <<n, i, a - 1>> /\ r = <<n, i, b - 1>>
    BY <1>3
  <2> QED BY <1>3, <1>8, <2>1 DEF Before
<1>9. UNION {P[a] : a \in 1 .. Len(ev)} = Selected(n, i, af, tf)
  <2>1. \A p : p \in UNION {P[a] : a \in 1 .. Len(ev)} <=>
               \E j \in DOMAIN ev : Matches(ev[j], af, tf) /\ p = <<n, i, j - 1>>
    BY <1>3
  <2>2. \A p : p \in Selected(n, i, af, tf) <=>
               \E j \in DOMAIN ev : Matches(ev[j], af, tf) /\ p = <<n, i, j - 1>>
    BY DEF Selected
  <2> QED BY <2>1, <2>2
<1> HIDE DEF seqs, P
<1>10. FlattenSeq(seqs) \in Seq(LogRecords) /\ IsExact(FlattenSeq(seqs), UNION {P[a] : a \in 1 .. Len(seqs)})
  BY <1>6, <1>7, <1>8, FlattenExact
<1> QED BY <1>5, <1>7, <1>9, <1>10

\* The places of block n's valid logs that match the filters.
Matching(n, af, tf) ==
  {p \in LogPlaces : /\ p[1] = n /\ TxAt(p).valid /\ TxAt(p).kind = "endorser"
                     /\ Matches(LogAt(p), af, tf)}

\* One pass of GetLogs' outer loop is exact, unless an event does not decode.
LEMMA BlockLogsExact ==
  ASSUME ChainInv, NEW n \in 0 .. Height - 1, NEW q,
         \A i \in DOMAIN Block(n) : Processed(Block(n)[i]) => Block(n)[i].events # Bad
  PROVE  /\ BlockLogs(n, q) \in Seq(LogRecords)
         /\ IsExact(BlockLogs(n, q), Matching(n, q.address, q.topics))
<1> DEFINE b == Block(n)
           N == Len(b)
           af == q.address
           tf == q.topics
           Has(i) == Processed(b[i]) /\ b[i].events # None
           seqs == [i \in DOMAIN b |-> IF Processed(b[i]) THEN fabricEventToEVMLogs(n, i - 1, af, tf) ELSE <<>>]
           P == [i \in DOMAIN b |-> IF Has(i) THEN Selected(n, i - 1, af, tf) ELSE {}]
<1>1. n \in Nat /\ N \in Nat /\ DOMAIN b = 1 .. N
  BY BlockTypes
<1>2. BlockLogs(n, q) = FlattenSeq(seqs)
  BY DEF BlockLogs
<1>3. ASSUME NEW i \in 1 .. N PROVE seqs[i] \in Seq(LogRecords) /\ IsExact(seqs[i], P[i])
  <2>1. i - 1 \in 0 .. Len(Block(n)) - 1 /\ i - 1 + 1 = i
    BY <1>1
  <2>2. CASE Has(i)
    <3>1. Block(n)[i - 1 + 1].events \notin {None, Bad}
      BY <1>1, <2>1, <2>2
    <3>2. seqs[i] = fabricEventToEVMLogs(n, i - 1, af, tf) /\ P[i] = Selected(n, i - 1, af, tf)
      BY <1>1, <2>2
    <3> DEFINE k == i - 1
    <3>3. k \in 0 .. Len(Block(n)) - 1 /\ Block(n)[k + 1].events \notin {None, Bad}
      BY <2>1, <3>1
    <3>4. seqs[i] = fabricEventToEVMLogs(n, k, af, tf) /\ P[i] = Selected(n, k, af, tf)
      BY <3>2
    <3> HIDE DEF seqs, P, k, af, tf
    <3>5. /\ fabricEventToEVMLogs(n, k, af, tf) \in Seq(LogRecords)
          /\ IsExact(fabricEventToEVMLogs(n, k, af, tf), Selected(n, k, af, tf))
      BY <3>3, EventLogsExact
    <3> QED BY <3>4, <3>5
  <2>3. CASE ~Has(i)
    <3>1. seqs[i] = <<>> /\ P[i] = {}
      BY <1>1, <2>1, <2>3 DEF fabricEventToEVMLogs
    <3>2. <<>> \in Seq(LogRecords) /\ IsExact(<<>>, {})
      BY DEF IsExact
    <3> HIDE DEF seqs, P
    <3> QED BY <3>1, <3>2
  <2> QED BY <2>2, <2>3
<1>4. seqs \in Seq(Seq(LogRecords)) /\ Len(seqs) = N
  <2>1. seqs = [i \in 1 .. N |-> seqs[i]]
    BY <1>1
  <2> HIDE DEF seqs
  <2>2. \A i \in 1 .. N : seqs[i] \in Seq(LogRecords)
    BY <1>3
  <2> HIDE DEF N
  <2> QED BY <1>1, <2>1, <2>2, FunctionIsSeq
<1>5. \A a \in 1 .. N : P[a] = IF Has(a) THEN Selected(n, a - 1, af, tf) ELSE {}
  BY <1>1
<1>6. ASSUME NEW a \in 1 .. N, NEW c \in 1 .. N, a < c, NEW p \in P[a], NEW r \in P[c]
      PROVE  Before(p, r)
  <2>1. p \in Selected(n, a - 1, af, tf) /\ r \in Selected(n, c - 1, af, tf)
    BY <1>5
  <2>2. p[1] = n /\ p[2] = a - 1 /\ r[1] = n /\ r[2] = c - 1
    BY <2>1 DEF Selected
  <2>3. a - 1 < c - 1
    BY <1>1, <1>6
  <2> QED BY <2>2, <2>3 DEF Before
<1> HIDE DEF seqs, P
<1>7. \A p : p \in UNION {P[a] : a \in 1 .. N} <=>
             \E i \in 1 .. N : /\ Has(i)
                               /\ \E j \in DOMAIN b[i].events : Matches(b[i].events[j], af, tf) /\ p = <<n, i - 1, j - 1>>
  <2>1. ASSUME NEW i \in 1 .. N, NEW p
        PROVE  p \in Selected(n, i - 1, af, tf) <=>
                 \E j \in DOMAIN b[i].events : Matches(b[i].events[j], af, tf) /\ p = <<n, i - 1, j - 1>>
    <3>1. i - 1 + 1 = i
      BY <1>1
    <3> QED BY <3>1 DEF Selected
  <2> QED BY <1>5, <2>1
<1>8. ASSUME NEW p
      PROVE  p \in Matching(n, af, tf) <=>
             \E i \in 1 .. N : /\ Has(i)
                               /\ \E j \in DOMAIN b[i].events : Matches(b[i].events[j], af, tf) /\ p = <<n, i - 1, j - 1>>
  <2>0. ASSUME NEW i \in 1 .. N, Has(i), NEW j \in DOMAIN b[i].events
        PROVE  /\ i - 1 \in 0 .. Len(Block(n)) - 1 /\ i - 1 + 1 = i
               /\ b[i].events \notin {None, Bad}
               /\ TxAt(<<n, i - 1, j - 1>>) = b[i] /\ LogAt(<<n, i - 1, j - 1>>) = b[i].events[j]
    <3>1. i - 1 \in 0 .. Len(Block(n)) - 1 /\ i - 1 + 1 = i /\ b[i].events \notin {None, Bad}
      BY <1>1, <2>0
    <3>2. b[i] \in Transaction
      BY <1>1, BlockTypes
    <3>3. j \in Nat
      BY <3>1, <3>2 DEF Transaction
    <3>4. TxAt(<<n, i - 1, j - 1>>) = b[i]
      BY <3>1 DEF TxAt
    <3>5. j - 1 + 1 = j
      BY <3>3
    <3> QED BY <3>1, <3>4, <3>5 DEF LogAt
  <2>1. ASSUME NEW i \in 1 .. N, Has(i), NEW j \in DOMAIN b[i].events, Matches(b[i].events[j], af, tf),
               p = <<n, i - 1, j - 1>>
        PROVE  p \in Matching(n, af, tf)
    <3>1. p \in LogPlaces
      <4> DEFINE k == i - 1
      <4>1. k \in 0 .. Len(Block(n)) - 1 /\ Block(n)[k + 1] = b[i] /\ b[i].events \notin {None, Bad}
        BY <2>0, <2>1
      <4> HIDE DEF k
      <4>2. p = <<n, k, j - 1>>
        BY <2>1 DEF k
      <4> QED BY <2>1, <4>1, <4>2, LogPlaceIs
    <3>2. TxAt(p) = b[i] /\ LogAt(p) = b[i].events[j] /\ p[1] = n
      BY <2>0, <2>1
    <3> QED BY <2>1, <3>1, <3>2 DEF Matching, Processed
  <2>2. ASSUME p \in Matching(n, af, tf)
        PROVE  \E i \in 1 .. N : /\ Has(i)
                 /\ \E j \in DOMAIN b[i].events : Matches(b[i].events[j], af, tf) /\ p = <<n, i - 1, j - 1>>
    <3>1. p \in LogPlaces /\ p[1] = n /\ TxAt(p).valid /\ TxAt(p).kind = "endorser" /\ Matches(LogAt(p), af, tf)
      BY <2>2 DEF Matching
    <3>2. PICK m \in 0 .. Height - 1 : \E k \in 0 .. Len(Block(m)) - 1 :
             /\ Block(m)[k + 1].events \notin {None, Bad}
             /\ \E j \in DOMAIN Block(m)[k + 1].events : p = <<m, k, j - 1>>
      BY <3>1, LogPlaceIs
    <3>3. PICK k \in 0 .. Len(Block(m)) - 1 :
             /\ Block(m)[k + 1].events \notin {None, Bad}
             /\ \E j \in DOMAIN Block(m)[k + 1].events : p = <<m, k, j - 1>>
      BY <3>2
    <3>4. PICK j \in DOMAIN Block(m)[k + 1].events : p = <<m, k, j - 1>>
      BY <3>3
    <3>5. m = n /\ p[2] = k /\ p[3] = j - 1
      BY <3>1, <3>4
    <3> DEFINE i == k + 1
    <3>6. i \in 1 .. N /\ i - 1 = k
      BY <1>1, <3>5
    <3>7. TxAt(p) = b[i]
      BY <3>1, <3>5 DEF TxAt
    <3>8. Has(i)
      BY <3>1, <3>3, <3>5, <3>7 DEF Processed
    <3>9. j \in DOMAIN b[i].events
      BY <3>4, <3>5
    <3> HIDE DEF i
    <3>10. LogAt(p) = b[i].events[j]
      BY <2>0, <3>4, <3>5, <3>6, <3>8, <3>9
    <3> QED BY <3>1, <3>4, <3>5, <3>6, <3>8, <3>9, <3>10
  <2> QED BY <2>1, <2>2
<1>9. UNION {P[a] : a \in 1 .. N} = Matching(n, af, tf)
  BY <1>7, <1>8
<1>10. FlattenSeq(seqs) \in Seq(LogRecords) /\ IsExact(FlattenSeq(seqs), UNION {P[a] : a \in 1 .. Len(seqs)})
  BY <1>3, <1>4, <1>6, FlattenExact
<1> QED BY <1>2, <1>4, <1>9, <1>10

----------------------------------------------------------------------------
(* The chain grows while a request is served.                              *)

PlacesSpelled ==
  \A p : p \in LogPlaces <=>
           \E n \in 0 .. Height - 1 : \E i \in 0 .. Len(Block(n)) - 1 :
             /\ Block(n)[i + 1].events \notin {None, Bad}
             /\ \E j \in DOMAIN Block(n)[i + 1].events : p = <<n, i, j - 1>>

LEMMA LogPlacesAre == PlacesSpelled
  BY LogPlaceIs DEF PlacesSpelled

LEMMA LogPlacesWillBe == PlacesSpelled'
  BY LogPlacesAre, PTL

\* A place keeps its log, and a place in an old block is an old place.
LEMMA PlacesKept ==
  ASSUME ChainInv, NEW b \in Blocks, AddBlock(b), NEW p
  PROVE  /\ p \in LogPlaces => /\ p[1] \in 0 .. Height - 1 /\ p \in LogPlaces'
                               /\ TxAt(p)' = TxAt(p) /\ LogAt(p)' = LogAt(p)
         /\ p \in LogPlaces' => p[1] \in Nat /\ (p[1] < Height => p \in LogPlaces)
<1>1. Height \in Nat /\ Height' = Height + 1 /\ \A n \in 0 .. Height - 1 : Block(n)' = Block(n)
  BY ChainGrows
<1>2. PlacesSpelled /\ PlacesSpelled'
  BY LogPlacesAre, LogPlacesWillBe
<1>3. ASSUME p \in LogPlaces
      PROVE  p[1] \in 0 .. Height - 1 /\ p \in LogPlaces' /\ TxAt(p)' = TxAt(p) /\ LogAt(p)' = LogAt(p)
  <2>1. PICK n \in 0 .. Height - 1 : \E i \in 0 .. Len(Block(n)) - 1 :
             /\ Block(n)[i + 1].events \notin {None, Bad}
             /\ \E j \in DOMAIN Block(n)[i + 1].events : p = <<n, i, j - 1>>
    BY <1>2, <1>3 DEF PlacesSpelled
  <2>2. p[1] = n /\ n \in 0 .. Height' - 1 /\ Block(n)' = Block(n)
    BY <1>1, <2>1
  <2>3. p \in LogPlaces'
    BY <1>2, <2>1, <2>2 DEF PlacesSpelled
  <2>4. TxAt(p)' = TxAt(p)
    BY <2>2 DEF TxAt, Block
  <2> QED BY <2>2, <2>3, <2>4 DEF LogAt
<1>4. ASSUME p \in LogPlaces' PROVE p[1] \in Nat /\ (p[1] < Height => p \in LogPlaces)
  <2>1. PICK n \in 0 .. Height' - 1 : \E i \in 0 .. Len(Block(n)') - 1 :
             /\ (Block(n)')[i + 1].events \notin {None, Bad}
             /\ \E j \in DOMAIN (Block(n)')[i + 1].events : p = <<n, i, j - 1>>
    BY <1>2, <1>4 DEF PlacesSpelled
  <2>2. p[1] = n /\ n \in Nat
    BY <1>1, <2>1
  <2>3. ASSUME n < Height PROVE p \in LogPlaces
    <3>1. n \in 0 .. Height - 1 /\ Block(n)' = Block(n)
      BY <1>1, <2>2, <2>3
    <3> QED BY <1>2, <2>1, <3>1 DEF PlacesSpelled
  <2> QED BY <2>2, <2>3
<1> QED BY <1>3, <1>4

\* What eth_getLogs is asked for: the wanted valid logs of blocks n to m.
WantedRange(n, m, q) ==
  {p \in LogPlaces : /\ p[1] \in n .. m /\ TxAt(p).valid /\ TxAt(p).kind = "endorser"
                     /\ Wanted(LogAt(p), q)}

\* Logs that are exact stay exact.
LEMMA ExactKept ==
  ASSUME ChainInv, NEW b \in Blocks, AddBlock(b), NEW q, NEW logs,
         NEW n \in Nat, NEW m \in Int, \A k \in n .. m : k < Height,
         IsExact(logs, WantedRange(n, m, q))
  PROVE  IsExact(logs, WantedRange(n, m, q))'
<1>1. WantedRange(n, m, q)' = WantedRange(n, m, q)
  <2>1. ASSUME NEW p \in WantedRange(n, m, q) PROVE p \in WantedRange(n, m, q)'
    BY PlacesKept DEF WantedRange, Wanted
  <2>2. ASSUME NEW p \in WantedRange(n, m, q)' PROVE p \in WantedRange(n, m, q)
    <3>1. p \in LogPlaces' /\ p[1] \in n .. m
      BY DEF WantedRange
    <3>2. p \in LogPlaces
      BY <3>1, PlacesKept
    <3>3. TxAt(p)' = TxAt(p) /\ LogAt(p)' = LogAt(p)
      BY <3>2, PlacesKept
    <3> QED BY <3>2, <3>3 DEF WantedRange, Wanted
  <2> QED BY <2>1, <2>2
<1>2. ASSUME NEW k \in 1 .. Len(logs) PROVE LeadsBack(logs[k])'
  <2> DEFINE p == PlaceOf(logs[k])
  <2>1. p \in LogPlaces /\ LeadsBack(logs[k])
    BY DEF IsExact, WantedRange
  <2>2. TxAt(p)' = TxAt(p) /\ LogAt(p)' = LogAt(p)
    BY <2>1, PlacesKept
  <2> QED BY <2>1, <2>2 DEF LeadsBack
<1> QED BY <1>1, <1>2 DEF IsExact

----------------------------------------------------------------------------
(* eth_getLogs.                                                            *)

\* The filters of the request are the ones sent.
FiltersInv ==
  /\ pc \in {"hash", "from", "to", "range", "scan"} =>
       /\ req.sent \in Queries /\ WellFormed(req.sent)
       /\ req.address = UnmarshalJSON(req.sent).address /\ req.topics = UnmarshalJSON(req.sent).topics
  /\ pc \in {"hash", "from", "to", "range"} => txLogs = <<>>

\* The blocks scanned are on the chain, and what they gave is exact.
ScannedInv ==
  pc = "scan" => /\ next = from \/ next <= Height
                 /\ txLogs \in Seq(LogRecords)
                 /\ IsExact(txLogs, WantedRange(from, next - 1, req.sent))

AnswerInv ==
  Answered("GetLogs") => /\ to < Height
                         /\ reply.val \in Seq(LogRecords)
                         /\ IsExact(reply.val, WantedRange(from, to, req.sent))

LogsInv == FiltersInv /\ ScannedInv /\ AnswerInv

\* Steps that leave the chain alone leave exact logs exact.
LEMMA ExactSame ==
  ASSUME UNCHANGED chain, NEW q, NEW logs, NEW n, NEW m, IsExact(logs, WantedRange(n, m, q))
  PROVE  IsExact(logs, WantedRange(n, m, q))'
<1>1. \A p : TxAt(p)' = TxAt(p) /\ LogAt(p)' = LogAt(p)
  BY DEF TxAt, LogAt, Block
<1>2. LogPlaces' = LogPlaces
  BY <1>1 DEF LogPlaces, TxPlaces, Height, Block
<1>3. WantedRange(n, m, q)' = WantedRange(n, m, q)
  BY <1>1, <1>2 DEF WantedRange, Wanted
<1>4. \A log : LeadsBack(log)' = LeadsBack(log)
  BY <1>1 DEF LeadsBack
<1> QED BY <1>3, <1>4 DEF IsExact

\* No block, no logs.
LEMMA ExactEmpty ==
  ASSUME NEW n \in Nat, NEW q
  PROVE  IsExact(<<>>, WantedRange(n, n - 1, q))'
<1>1. WantedRange(n, n - 1, q)' = {}
  BY DEF WantedRange
<1> QED BY <1>1 DEF IsExact

\* What matches the request's filters in one block is what is wanted of it.
LEMMA MatchingWanted ==
  ASSUME ChainInv, NEW n \in Nat, NEW q \in Queries, WellFormed(q)
  PROVE  Matching(n, UnmarshalJSON(q).address, UnmarshalJSON(q).topics) = WantedRange(n, n, q)
<1>1. ASSUME NEW p \in LogPlaces PROVE LogAt(p) \in Log
  <2>1. PICK m \in 0 .. Height - 1 : \E i \in 0 .. Len(Block(m)) - 1 :
             /\ Block(m)[i + 1].events \notin {None, Bad}
             /\ \E j \in DOMAIN Block(m)[i + 1].events : p = <<m, i, j - 1>>
    BY LogPlaceIs
  <2>2. PICK i \in 0 .. Len(Block(m)) - 1 :
             /\ Block(m)[i + 1].events \notin {None, Bad}
             /\ \E j \in DOMAIN Block(m)[i + 1].events : p = <<m, i, j - 1>>
    BY <2>1
  <2> DEFINE tx == Block(m)[i + 1]
  <2>3. PICK j \in DOMAIN tx.events : p = <<m, i, j - 1>>
    BY <2>2
  <2>4. tx \in Transaction
    BY BlockTypes
  <2>5. tx.events \in Seq(Log)
    BY <2>2, <2>4 DEF Transaction
  <2>6. j \in Nat /\ tx.events[j] \in Log
    BY <2>5
  <2>7. p[1] = m /\ p[2] = i /\ p[3] + 1 = j
    BY <2>3, <2>6
  <2>8. LogAt(p) = tx.events[j]
    BY <2>7 DEF LogAt, TxAt
  <2> QED BY <2>6, <2>8
<1>2. \A p \in LogPlaces : Matches(LogAt(p), UnmarshalJSON(q).address, UnmarshalJSON(q).topics) <=> Wanted(LogAt(p), q)
  BY <1>1, MatchesWanted
<1>3. \A x : x \in n .. n <=> x = n
  OBVIOUS
<1> QED BY <1>2, <1>3 DEF Matching, WantedRange

\* A block is scanned.
LEMMA ScanLogs ==
  ASSUME HInv, LogsInv, NEW h \in Heights, ScanBlock(h)
  PROVE  LogsInv'
<1>1. /\ UNCHANGED <<chain, req, from, to>> /\ pc = "scan" /\ next < h /\ h \in 1 .. Height
      /\ next \in Nat /\ from \in Nat /\ to \in Nat /\ from <= next /\ next <= to /\ Height \in Nat
  BY ReaderConstants DEF ScanBlock, Heights, HInv, RangeInv, ChainInv
<1>2. CASE pc' = "idle" /\ reply'.err = "decode"
  BY <1>2 DEF LogsInv, FiltersInv, ScannedInv, AnswerInv, Answered
<1>3. CASE ~(pc' = "idle" /\ reply'.err = "decode")
  <2>1. /\ \A i \in DOMAIN Block(next) : Processed(Block(next)[i]) => Block(next)[i].events # Bad
        /\ next' = next + 1 /\ txLogs' = txLogs \o BlockLogs(next, req)
        /\ IF next >= to THEN Reply("none", txLogs') ELSE UNCHANGED <<pc, reply>>
    BY <1>3 DEF ScanBlock, Reply
  <2>2. /\ req.sent \in Queries /\ WellFormed(req.sent) /\ req.address = UnmarshalJSON(req.sent).address
        /\ req.topics = UnmarshalJSON(req.sent).topics
        /\ txLogs \in Seq(LogRecords) /\ IsExact(txLogs, WantedRange(from, next - 1, req.sent))
    BY <1>1 DEF LogsInv, FiltersInv, ScannedInv
  <2>3. next \in 0 .. Height - 1 /\ next < Height
    BY <1>1
  <2>4. /\ BlockLogs(next, req) \in Seq(LogRecords)
        /\ IsExact(BlockLogs(next, req), WantedRange(next, next, req.sent))
    <3>1. Matching(next, req.address, req.topics) = WantedRange(next, next, req.sent)
      BY <1>1, <2>2, MatchingWanted DEF HInv
    <3>2. /\ BlockLogs(next, req) \in Seq(LogRecords)
          /\ IsExact(BlockLogs(next, req), Matching(next, req.address, req.topics))
      BY <2>1, <2>3, BlockLogsExact DEF HInv
    <3> QED BY <3>1, <3>2
  <2>5. ASSUME NEW p \in WantedRange(from, next - 1, req.sent), NEW r \in WantedRange(next, next, req.sent)
        PROVE  Before(p, r)
    <3>1. p[1] \in from .. next - 1 /\ r[1] \in next .. next
      BY DEF WantedRange
    <3> QED BY <1>1, <3>1 DEF Before
  <2>6. WantedRange(from, next - 1, req.sent) \cup WantedRange(next, next, req.sent) =
          WantedRange(from, next, req.sent)
    <3>1. \A x : x \in from .. next <=> x \in from .. next - 1 \/ x \in next .. next
      BY <1>1
    <3> QED BY <3>1 DEF WantedRange
  <2>7. txLogs' \in Seq(LogRecords) /\ IsExact(txLogs', WantedRange(from, next, req.sent))
    BY <2>1, <2>2, <2>4, <2>5, <2>6, ConcatExact
  <2>8. ASSUME NEW logs, logs = txLogs', NEW f, f = from, NEW n, n = next, NEW q, q = req.sent
        PROVE  IsExact(logs, WantedRange(f, n, q))'
    BY <1>1, <2>7, <2>8, ExactSame
  <2>9. CASE next >= to
    <3>1. pc' = "idle" /\ reply'.val = txLogs' /\ next = to
      BY <1>1, <2>1, <2>9 DEF Reply
    <3>2. IsExact(reply.val, WantedRange(from, to, req.sent))'
      BY <1>1, <2>8, <3>1
    <3>3. Height' = Height
      BY <1>1 DEF Height
    <3> QED BY <1>1, <2>3, <2>7, <3>1, <3>2, <3>3 DEF LogsInv, FiltersInv, ScannedInv, AnswerInv
  <2>10. CASE ~(next >= to)
    <3>1. UNCHANGED <<pc, reply>> /\ next' - 1 = next /\ next' <= Height
      BY <1>1, <2>1, <2>3, <2>10
    <3>2. IsExact(txLogs, WantedRange(from, next - 1, req.sent))'
      BY <1>1, <2>8, <3>1
    <3>3. Height' = Height
      BY <1>1 DEF Height
    <3>4. FiltersInv'
      BY <1>1, <2>2, <3>1 DEF FiltersInv
    <3> QED BY <1>1, <2>7, <3>1, <3>2, <3>3, <3>4 DEF LogsInv, ScannedInv, AnswerInv, Answered
  <2> QED BY <2>9, <2>10
<1> QED BY <1>2, <1>3

\* A block arrives.
LEMMA AddBlockLogs ==
  ASSUME HInv, LogsInv, NEW b \in Blocks, AddBlock(b)
  PROVE  LogsInv'
<1>1. UNCHANGED <<pc, req, from, to, next, txLogs, reply>>
  BY DEF AddBlock, locals
<1>2. /\ Height \in Nat /\ Height' = Height + 1 /\ from \in Nat /\ to \in Nat /\ next \in Nat
  BY ChainGrows, ReaderConstants DEF HInv, RangeInv
<1>3. FiltersInv'
  BY <1>1 DEF LogsInv, FiltersInv
<1>4. ScannedInv'
  <2> SUFFICES ASSUME pc = "scan" PROVE ScannedInv'
    BY <1>1 DEF ScannedInv
  <2>1. (next = from \/ next <= Height) /\ txLogs \in Seq(LogRecords)
        /\ IsExact(txLogs, WantedRange(from, next - 1, req.sent))
    BY DEF LogsInv, ScannedInv
  <2>2. \A k \in from .. next - 1 : k < Height
    BY <1>2, <2>1
  <2>3. ASSUME NEW logs, logs = txLogs, NEW f, f = from, NEW n, n = next - 1, NEW q, q = req.sent
        PROVE  IsExact(logs, WantedRange(f, n, q))'
    <3>1. f \in Nat /\ n \in Int /\ (\A k \in f .. n : k < Height) /\ IsExact(logs, WantedRange(f, n, q))
      BY <1>2, <2>1, <2>2, <2>3
    <3> QED BY <3>1, ExactKept DEF HInv
  <2>4. IsExact(txLogs, WantedRange(from, next - 1, req.sent))'
    BY <1>1, <2>3
  <2> QED BY <1>1, <1>2, <2>1, <2>4 DEF ScannedInv
<1>5. AnswerInv'
  <2> SUFFICES ASSUME Answered("GetLogs") PROVE AnswerInv'
    BY <1>1 DEF AnswerInv, Answered
  <2>1. to < Height /\ reply.val \in Seq(LogRecords) /\ IsExact(reply.val, WantedRange(from, to, req.sent))
    BY DEF LogsInv, AnswerInv
  <2>2. \A k \in from .. to : k < Height
    BY <1>2, <2>1
  <2>3. ASSUME NEW logs, logs = reply.val, NEW f, f = from, NEW n, n = to, NEW q, q = req.sent
        PROVE  IsExact(logs, WantedRange(f, n, q))'
    <3>1. f \in Nat /\ n \in Int /\ (\A k \in f .. n : k < Height) /\ IsExact(logs, WantedRange(f, n, q))
      BY <1>2, <2>1, <2>2, <2>3
    <3> QED BY <3>1, ExactKept DEF HInv
  <2>4. IsExact(reply.val, WantedRange(from, to, req.sent))'
    BY <1>1, <2>3
  <2> QED BY <1>1, <1>2, <2>1, <2>4 DEF AnswerInv
<1> QED BY <1>3, <1>4, <1>5 DEF LogsInv

\* The filters are read and the range is found out.
LEMMA AcceptLogs ==
  ASSUME HInv, NEW q \in Queries, AcceptGetLogs(q)
  PROVE  LogsInv'
<1>1. CASE Refuse([method |-> "GetLogs", sent |-> q])
  BY <1>1 DEF Refuse, Reply, LogsInv, FiltersInv, ScannedInv, AnswerInv, Answered
<1>2. CASE ~Refuse([method |-> "GetLogs", sent |-> q])
  <2> DEFINE a == UnmarshalJSON(q)
             at == IF q.blockHash = None THEN "from" ELSE "hash"
             r == [method |-> "GetLogs", sent |-> q, blockHash |-> a.blockHash,
                   fromBlock |-> OrLatest(a.fromBlock), toBlock |-> OrLatest(a.toBlock),
                   address |-> a.address, topics |-> a.topics]
  <2>1. Receive(r, at) /\ WellFormed(q)
    BY <1>2 DEF AcceptGetLogs
  <2>2. r.sent = q /\ r.address = a.address /\ r.topics = a.topics
    OBVIOUS
  <2> HIDE DEF a, r
  <2>3. req' = r /\ pc' \in {"from", "hash"} /\ txLogs' = <<>>
    BY <2>1 DEF Receive
  <2>4. FiltersInv'
    BY <2>1, <2>2, <2>3 DEF FiltersInv, a
  <2> QED BY <2>3, <2>4 DEF LogsInv, ScannedInv, AnswerInv, Answered
<1> QED BY <1>1, <1>2

LEMMA RangeLogs ==
  ASSUME HInv, LogsInv, NEW h \in Heights,
         ByHash(h) \/ ResolveFrom(h) \/ ResolveTo(h) \/ CheckRange
  PROVE  LogsInv'
<1>1. /\ pc \in {"hash", "from", "to", "range"} /\ UNCHANGED <<chain, req, txLogs>>
      /\ \/ pc' \in {"to", "range"}
         \/ pc' = "scan" /\ next' = from'
         \/ pc' = "idle" /\ reply'.err # "none"
  BY DEF ByHash, ResolveFrom, ResolveTo, CheckRange, Reply
<1>2. FiltersInv' /\ txLogs' = <<>>
  BY <1>1 DEF LogsInv, FiltersInv
<1>3. from' \in Nat
  BY RangeHandler, ReaderConstants DEF HInv, RangeInv
<1>4. ASSUME NEW f, f = from', NEW q, q = req'.sent PROVE IsExact(<<>>, WantedRange(f, f - 1, q))'
  BY <1>3, <1>4, ExactEmpty
<1>5. pc' = "scan" => IsExact(txLogs, WantedRange(from, next - 1, req.sent))'
  BY <1>1, <1>2, <1>4
<1>6. <<>> \in Seq(LogRecords)
  OBVIOUS
<1>7. ScannedInv' /\ AnswerInv'
  BY <1>1, <1>2, <1>5, <1>6 DEF ScannedInv, AnswerInv, Answered
<1> QED BY <1>2, <1>7 DEF LogsInv

\* The other steps are not eth_getLogs', or end it without an answer.
LEMMA NextLogs == HInv /\ LogsInv /\ [Next]_vars => LogsInv'
<1> SUFFICES ASSUME HInv, LogsInv, [Next]_vars PROVE LogsInv'
  OBVIOUS
<1>1. CASE UNCHANGED vars
  <2>1. UNCHANGED <<chain, pc, req, from, to, next, txLogs, reply>> /\ Height' = Height
    BY <1>1 DEF vars, Height
  <2>2. ASSUME NEW logs, NEW f, NEW n, NEW q, IsExact(logs, WantedRange(f, n, q))
        PROVE  IsExact(logs, WantedRange(f, n, q))'
    BY <2>1, <2>2, ExactSame
  <2>3. ScannedInv'
    BY <2>1, <2>2 DEF LogsInv, ScannedInv
  <2>4. AnswerInv'
    BY <2>1, <2>2 DEF LogsInv, AnswerInv, Answered
  <2> QED BY <2>1, <2>3, <2>4 DEF LogsInv, FiltersInv
<1>2. CASE CheckRange
  <2>1. Height \in Heights
    BY ReaderConstants DEF HInv, ChainInv, Heights
  <2> QED BY <1>2, <2>1, RangeLogs
<1>3. ASSUME pc' \notin {"hash", "from", "to", "range", "scan"}, ~Answered("GetLogs")' PROVE LogsInv'
  BY <1>3 DEF LogsInv, FiltersInv, ScannedInv, AnswerInv
<1>4. ASSUME QueryFails PROVE LogsInv'
  BY <1>3, <1>4 DEF QueryFails, Reply, Answered
<1>5. ASSUME \/ \E id \in TxId, m \in {"GetTransactionReceipt", "GetTransactionByHash"} : AcceptTransaction(m, id)
             \/ \E n \in BlockArgs, full \in BOOLEAN : AcceptGetBlock(n, full)
             \/ AcceptBlockNumber
      PROVE  LogsInv'
  BY <1>3, <1>5 DEF AcceptTransaction, AcceptGetBlock, AcceptBlockNumber, Refuse, Receive, Reply, Answered
<1>6. ASSUME NEW h \in Heights,
             GetTransactionReceipt(h) \/ GetTransactionByHash(h) \/ ResolveNumber(h) \/ FetchBlock(h)
      PROVE  LogsInv'
  <2>1. pc \in {"tx", "number", "block"} /\ pc' \in {"idle", "block"} /\ req' = req
    BY <1>6 DEF GetTransactionReceipt, GetTransactionByHash, ResolveNumber, FetchBlock, Found, Reply
  <2>2. req.method # "GetLogs"
    BY <2>1 DEF HInv, RequestInv
  <2> QED BY <1>3, <2>1, <2>2 DEF Answered
<1> QED BY <1>1, <1>2, <1>4, <1>5, <1>6, AddBlockLogs, AcceptLogs, RangeLogs, ScanLogs DEF Next

\* An answer to eth_getLogs has every wanted log of the valid transactions of
\* its range and nothing else, in chain order, each leading back to its place,
\* for every chain, filter, range and number of blocks that arrive meanwhile.
THEOREM GetLogsExact == Spec => []LogsExact
<1>1. Init => LogsInv
  BY DEF Init, LogsInv, FiltersInv, ScannedInv, AnswerInv, Answered
<1>2. LogsInv => LogsExact
  <2> SUFFICES ASSUME AnswerInv, Answered("GetLogs") PROVE LogsExact
    BY DEF LogsInv, LogsExact
  <2> DEFINE logs == reply.val
             W == WantedRange(from, to, req.sent)
  <2>1. logs \in Seq(LogRecords) /\ IsExact(logs, W)
    BY DEF AnswerInv
  <2> HIDE DEF logs, W
  <2>2. DOMAIN logs = 1 .. Len(logs) /\ Len(logs) \in Nat
    BY <2>1
  <2>3. {PlaceOf(logs[k]) : k \in DOMAIN logs} = W
    BY <2>1, <2>2 DEF IsExact
  <2>4. ASSUME NEW k \in DOMAIN logs
        PROVE  /\ k > 1 => Before(PlaceOf(logs[k - 1]), PlaceOf(logs[k]))
               /\ logs[k].txHash = TxAt(PlaceOf(logs[k])).id
               /\ logs[k].address = LogAt(PlaceOf(logs[k])).address
    <3>1. LeadsBack(logs[k])
      BY <2>1, <2>2 DEF IsExact
    <3>2. ASSUME k > 1 PROVE Before(PlaceOf(logs[k - 1]), PlaceOf(logs[k]))
      <4>1. k - 1 \in 1 .. Len(logs) /\ k \in 1 .. Len(logs) /\ k - 1 < k
        BY <2>2, <3>2
      <4> QED BY <2>1, <4>1 DEF IsExact
    <3> QED BY <3>1, <3>2 DEF LeadsBack
  <2> QED BY <2>3, <2>4 DEF LogsExact, WantedRange, logs, W
<1> QED BY <1>1, <1>2, NextLogs, HandlerInvariant, PTL DEF Spec

----------------------------------------------------------------------------
(* Receipts.                                                               *)

\* A receipt is about the first transaction of its id, and has its logs.
TruthAbout(id, rec) ==
  LET n == rec.blockNumber
      i == rec.txIndex
  IN /\ id \in TxId
     /\ n \in BlocksWith(id) /\ n = Least(BlocksWith(id))
     /\ i \in Places(n, id) /\ i = findTransaction(n, id)
     /\ rec.status = IF Block(n)[i + 1].valid THEN 1 ELSE 0
     /\ {PlaceOf(rec.logs[k]) : k \in DOMAIN rec.logs} = {p \in LogPlaces : p[1] = n /\ p[2] = i}

ReceiptInv ==
  /\ pc = "tx" => req.id \in TxId
  /\ pc \in {"number", "block"} => req.method # "GetTransactionReceipt"
  /\ Answered("GetTransactionReceipt") => TruthAbout(req.id, reply.val)

\* The index's answer does not change when blocks arrive.
LEMMA TruthKept ==
  ASSUME ChainInv, NEW b \in Blocks, AddBlock(b), NEW id, NEW rec, TruthAbout(id, rec)
  PROVE  TruthAbout(id, rec)'
<1> DEFINE n == rec.blockNumber
           i == rec.txIndex
<1>1. /\ Height \in Nat /\ Height' = Height + 1
      /\ \A m \in 0 .. Height - 1 : Block(m)' = Block(m)
      /\ \A m \in 0 .. Height - 1 : Places(m, id)' = Places(m, id)
  BY ChainGrows
<1>2. /\ n \in BlocksWith(id) /\ n = Least(BlocksWith(id)) /\ n \in 0 .. Height - 1 /\ id \in TxId
      /\ i \in Places(n, id) /\ i = Least(Places(n, id))
      /\ rec.status = IF Block(n)[i + 1].valid THEN 1 ELSE 0
      /\ {PlaceOf(rec.logs[k]) : k \in DOMAIN rec.logs} = {p \in LogPlaces : p[1] = n /\ p[2] = i}
  BY DEF TruthAbout, BlocksWith, findTransaction
<1> HIDE DEF n, i
<1>3. \A x \in BlocksWith(id) : n <= x
  <2>1. BlocksWith(id) \subseteq Nat
    BY <1>1 DEF BlocksWith
  <2> QED BY <1>2, <2>1, LeastOf
<1>4. n \in BlocksWith(id)' /\ BlocksWith(id)' \subseteq Nat
  <2>1. n \in 0 .. Height' - 1
    BY <1>1, <1>2
  <2>2. Places(n, id) # {}
    BY <1>2
  <2>3. Places(n, id)' # {}
    BY <1>1, <1>2, <2>2
  <2>4. BlocksWith(id)' = {m \in 0 .. Height' - 1 : Places(m, id)' # {}}
    BY DEF BlocksWith
  <2> QED BY <1>1, <2>1, <2>3, <2>4
<1>5. ASSUME NEW x \in BlocksWith(id)' PROVE n <= x
  <2>1. x \in 0 .. Height' - 1 /\ Places(x, id)' # {}
    BY DEF BlocksWith
  <2>2. CASE x \in 0 .. Height - 1
    BY <1>1, <1>3, <2>1, <2>2 DEF BlocksWith
  <2>3. CASE x = Height
    BY <1>1, <1>2, <2>3
  <2> QED BY <1>1, <2>1, <2>2, <2>3
<1>6. n = Least(BlocksWith(id)')
  BY <1>4, <1>5, LeastIs
<1>7. Block(n)' = Block(n) /\ Places(n, id)' = Places(n, id)
  BY <1>1, <1>2
<1>8. {p \in LogPlaces : p[1] = n /\ p[2] = i}' = {p \in LogPlaces : p[1] = n /\ p[2] = i}
  <2>1. ASSUME NEW p, p[1] = n PROVE p \in LogPlaces' <=> p \in LogPlaces
    BY <1>1, <1>2, <2>1, PlacesKept
  <2> QED BY <2>1
<1> QED BY <1>2, <1>4, <1>6, <1>7, <1>8 DEF TruthAbout, findTransaction, n, i

LEMMA TruthSame ==
  ASSUME UNCHANGED chain, NEW id, NEW rec, TruthAbout(id, rec)
  PROVE  TruthAbout(id, rec)'
<1>1. Height' = Height /\ \A n : Block(n)' = Block(n)
  BY DEF Height, Block
<1>2. LogPlaces' = LogPlaces /\ \A n : Places(n, id)' = Places(n, id)
  BY <1>1 DEF LogPlaces, TxPlaces, TxAt, Places
<1>3. BlocksWith(id)' = BlocksWith(id)
  BY <1>1, <1>2 DEF BlocksWith
<1> QED BY <1>1, <1>2, <1>3 DEF TruthAbout, findTransaction

\* The receipt's logs are all the logs of the transaction.
LEMMA ReceiptLogs ==
  ASSUME ChainInv, NEW n \in 0 .. Height - 1, NEW i \in 0 .. Len(Block(n)) - 1, Block(n)[i + 1].events # Bad
  PROVE  LET logs == fabricEventToEVMLogs(n, i, {}, <<>>) IN
         {PlaceOf(logs[k]) : k \in DOMAIN logs} = {p \in LogPlaces : p[1] = n /\ p[2] = i}
<1> DEFINE tx == Block(n)[i + 1]
           logs == fabricEventToEVMLogs(n, i, {}, <<>>)
           Q == {p \in LogPlaces : p[1] = n /\ p[2] = i}
<1>0. \A p \in Q : tx.events # None /\ \E j \in DOMAIN tx.events : p = <<n, i, j - 1>>
  <2> SUFFICES ASSUME NEW p \in Q PROVE tx.events # None /\ \E j \in DOMAIN tx.events : p = <<n, i, j - 1>>
    OBVIOUS
  <2>1. PICK m \in 0 .. Height - 1 : \E k \in 0 .. Len(Block(m)) - 1 :
             /\ Block(m)[k + 1].events \notin {None, Bad}
             /\ \E j \in DOMAIN Block(m)[k + 1].events : p = <<m, k, j - 1>>
    BY LogPlaceIs
  <2>2. PICK k \in 0 .. Len(Block(m)) - 1 :
             /\ Block(m)[k + 1].events \notin {None, Bad}
             /\ \E j \in DOMAIN Block(m)[k + 1].events : p = <<m, k, j - 1>>
    BY <2>1
  <2>3. m = n /\ k = i
    BY <2>2
  <2> QED BY <2>2, <2>3
<1>1. CASE tx.events = None
  <2>1. logs = <<>>
    BY <1>1 DEF fabricEventToEVMLogs
  <2>2. Q = {}
    BY <1>0, <1>1
  <2> QED BY <2>1, <2>2
<1>2. CASE tx.events # None
  <2>1. logs \in Seq(LogRecords) /\ IsExact(logs, Selected(n, i, {}, <<>>))
    BY <1>2, EventLogsExact
  <2>2. tx \in Transaction
    BY BlockTypes
  <2>3. tx.events \in Seq(Log)
    BY <1>2, <2>2 DEF Transaction
  <2>4. ASSUME NEW j \in DOMAIN tx.events PROVE Matches(tx.events[j], {}, <<>>)
    <3>1. Len(tx.events[j].topics) \in Nat
      BY <2>3 DEF Log
    <3> QED BY <3>1 DEF Matches
  <2>5. \A p : p \in Selected(n, i, {}, <<>>) <=> \E j \in DOMAIN tx.events : p = <<n, i, j - 1>>
    BY <2>4 DEF Selected
  <2>6. ASSUME NEW j \in DOMAIN tx.events, NEW p, p = <<n, i, j - 1>> PROVE p \in Q
    <3>1. p \in LogPlaces
      BY <1>2, <2>6, LogPlaceIs
    <3> QED BY <2>6, <3>1
  <2> HIDE DEF logs, Q
  <2>7. \A p : p \in Selected(n, i, {}, <<>>) <=> p \in Q
    BY <1>0, <2>5, <2>6
  <2>8. DOMAIN logs = 1 .. Len(logs)
    BY <2>1
  <2>9. {PlaceOf(logs[k]) : k \in DOMAIN logs} = Q
    BY <2>1, <2>7, <2>8 DEF IsExact
  <2> QED BY <2>9 DEF logs, Q
<1> QED BY <1>1, <1>2

LEMMA AnswerReceipt ==
  ASSUME HInv, ReceiptInv, NEW h \in Heights, GetTransactionReceipt(h)
  PROVE  ReceiptInv'
<1>1. CASE reply'.err # "none"
  BY <1>1 DEF GetTransactionReceipt, Reply, ReceiptInv, Answered
<1>2. CASE reply'.err = "none"
  <2>0. PICK n \in 0 .. h - 1 :
          /\ Found("GetTransactionReceipt", h, n)
          /\ Reply(ReceiptOf(req.id, n).err, ReceiptOf(req.id, n).val)
          /\ UNCHANGED <<chain, req, locals, born>>
    BY DEF GetTransactionReceipt
  <2> DEFINE id == req.id
             i == findTransaction(n, id)
             tx == Block(n)[i + 1]
             rec == [blockNumber |-> n, txIndex |-> i, status |-> IF tx.valid THEN 1 ELSE 0,
                     logs |-> fabricEventToEVMLogs(n, i, {}, <<>>)]
  <2>1. /\ pc = "tx" /\ BlocksWith(id) # {} /\ n = Least(BlocksWith(id))
        /\ tx.events # Bad /\ pc' = "idle" /\ reply'.val = rec /\ UNCHANGED <<chain, req>>
    BY <1>2, <2>0 DEF Found, Reply, ReceiptOf, NoReceipt
  <2>2. id \in TxId
    BY <2>1 DEF ReceiptInv
  <2>3. BlocksWith(id) \subseteq Nat
    BY DEF HInv, ChainInv, BlocksWith
  <2>4. n \in BlocksWith(id) /\ n \in 0 .. Height - 1 /\ Places(n, id) # {}
    BY <2>1, <2>3, LeastOf DEF BlocksWith
  <2>5. Places(n, id) \subseteq Nat
    BY <2>4, BlockTypes DEF HInv, Places
  <2>6. i \in Places(n, id) /\ i \in 0 .. Len(Block(n)) - 1
    BY <2>4, <2>5, LeastOf DEF findTransaction, Places
  <2>7. /\ rec.blockNumber = n /\ rec.txIndex = i /\ rec.status = IF tx.valid THEN 1 ELSE 0
        /\ rec.logs = fabricEventToEVMLogs(n, i, {}, <<>>)
    OBVIOUS
  <2> HIDE DEF rec
  <2>8. {PlaceOf(rec.logs[k]) : k \in DOMAIN rec.logs} = {p \in LogPlaces : p[1] = n /\ p[2] = i}
    <3> HIDE DEF i
    <3>1. Block(n)[i + 1].events # Bad
      BY <2>1
    <3> QED BY <2>4, <2>6, <2>7, <3>1, ReceiptLogs DEF HInv
  <2>9. TruthAbout(id, rec)
    BY <2>1, <2>2, <2>4, <2>6, <2>7, <2>8 DEF TruthAbout
  <2>10. ASSUME NEW d, d = id, NEW r, r = rec PROVE TruthAbout(d, r)'
    BY <2>1, <2>9, <2>10, TruthSame
  <2>11. TruthAbout(req.id, reply.val)'
    BY <2>1, <2>10
  <2> QED BY <2>1, <2>11 DEF ReceiptInv
<1> QED BY <1>1, <1>2

LEMMA NextReceipt == HInv /\ ReceiptInv /\ [Next]_vars => ReceiptInv'
<1> SUFFICES ASSUME HInv, ReceiptInv, [Next]_vars PROVE ReceiptInv'
  OBVIOUS
<1>1. CASE \E b \in Blocks : AddBlock(b)
  <2>1. PICK b \in Blocks : AddBlock(b)
    BY <1>1
  <2>2. UNCHANGED <<pc, req, reply>>
    BY <2>1 DEF AddBlock
  <2>3. ASSUME NEW id, NEW rec, TruthAbout(id, rec) PROVE TruthAbout(id, rec)'
    BY <2>1, <2>3, TruthKept DEF HInv
  <2> QED BY <2>2, <2>3 DEF ReceiptInv, Answered
<1>2. CASE UNCHANGED vars
  <2>1. UNCHANGED <<chain, pc, req, reply>>
    BY <1>2 DEF vars
  <2>2. ASSUME NEW id, NEW rec, TruthAbout(id, rec) PROVE TruthAbout(id, rec)'
    BY <2>1, <2>2, TruthSame
  <2> QED BY <2>1, <2>2 DEF ReceiptInv, Answered
<1>3. ASSUME NEW h \in Heights, ResolveNumber(h) \/ FetchBlock(h) PROVE ReceiptInv'
  <2>1. pc \in {"number", "block"} /\ pc' \in {"idle", "block"} /\ req' = req
    BY <1>3 DEF ResolveNumber, FetchBlock, Reply
  <2> QED BY <2>1 DEF ReceiptInv, Answered
<1>4. ASSUME NEW h \in Heights, GetTransactionByHash(h) PROVE ReceiptInv'
  BY <1>4 DEF GetTransactionByHash, Found, Reply, ReceiptInv, Answered
<1>5. ASSUME NEW h \in Heights, ByHash(h) \/ ResolveFrom(h) \/ ResolveTo(h) \/ ScanBlock(h) \/ CheckRange
      PROVE  ReceiptInv'
  <2>1. pc \in {"hash", "from", "to", "range", "scan"} /\ pc' \in {"idle", "to", "range", "scan"} /\ req' = req
    BY <1>5 DEF ByHash, ResolveFrom, ResolveTo, ScanBlock, CheckRange, Reply
  <2>2. req.method = "GetLogs"
    BY <2>1 DEF HInv, RequestInv
  <2> QED BY <2>1, <2>2 DEF ReceiptInv, Answered
<1>6. ASSUME QueryFails PROVE ReceiptInv'
  BY <1>6 DEF QueryFails, Reply, ReceiptInv, Answered
<1>7. ASSUME NEW q \in Queries, AcceptGetLogs(q) PROVE ReceiptInv'
  BY <1>7 DEF AcceptGetLogs, Refuse, Receive, Reply, ReceiptInv, Answered
<1>8. ASSUME NEW id \in TxId, NEW m \in {"GetTransactionReceipt", "GetTransactionByHash"}, AcceptTransaction(m, id)
      PROVE  ReceiptInv'
  BY <1>8 DEF AcceptTransaction, Receive, NoReply, ReceiptInv, Answered
<1>9. ASSUME NEW n \in BlockArgs, NEW full \in BOOLEAN, AcceptGetBlock(n, full) PROVE ReceiptInv'
  BY <1>9 DEF AcceptGetBlock, Refuse, Receive, Reply, ReceiptInv, Answered
<1>10. ASSUME AcceptBlockNumber PROVE ReceiptInv'
  BY <1>10 DEF AcceptBlockNumber, Receive, ReceiptInv, Answered
<1>11. Height \in Heights
  BY ReaderConstants DEF HInv, ChainInv, Heights
<1> QED BY <1>1, <1>2, <1>3, <1>4, <1>5, <1>6, <1>7, <1>8, <1>9, <1>10, <1>11, AnswerReceipt DEF Next

\* A receipt says 1 exactly if the chain has a valid transaction of that id,
\* though the id may be sent again and found invalid, in the same block or in
\* later ones, and its logs are all the logs of that transaction.
THEOREM ReceiptsTruthful == Spec => []ReceiptTruthful
<1>1. Init => ReceiptInv
  BY DEF Init, ReceiptInv, Answered
<1>2. Spec => []ReceiptInv
  BY <1>1, NextReceipt, HandlerInvariant, PTL DEF Spec
<1>3. Spec => []FirstInv
  BY InitFirst, NextFirst, HandlerInvariant, PTL DEF Spec
<1>4. HInv /\ FirstInv /\ ReceiptInv => ReceiptTruthful
  <2> SUFFICES ASSUME HInv, FirstInv, TruthAbout(req.id, reply.val) PROVE ReceiptTruthful
    BY DEF ReceiptInv, ReceiptTruthful
  <2> DEFINE id == req.id
             rec == reply.val
             n == rec.blockNumber
             i == rec.txIndex
             valid == {p \in TxPlaces : TxAt(p).valid /\ TxAt(p).id = id}
  <2>1. /\ id \in TxId /\ n \in BlocksWith(id) /\ n = Least(BlocksWith(id))
        /\ i \in Places(n, id) /\ i = findTransaction(n, id)
        /\ rec.status = IF Block(n)[i + 1].valid THEN 1 ELSE 0
        /\ {PlaceOf(rec.logs[k]) : k \in DOMAIN rec.logs} = {p \in LogPlaces : p[1] = n /\ p[2] = i}
    BY DEF TruthAbout
  <2> HIDE DEF id, rec, n, i
  <2>2. n \in 0 .. Height - 1 /\ i \in 0 .. Len(Block(n)) - 1 /\ Block(n)[i + 1].id = id
    BY <2>1 DEF BlocksWith, Places
  <2>3. ASSUME NEW p \in valid PROVE p = <<n, i>>
    <3>1. PICK m \in 0 .. Height - 1 : p \in {m} \X (0 .. Len(Block(m)) - 1)
      BY DEF TxPlaces
    <3>2. p = <<m, p[2]>> /\ p[1] = m /\ p[2] \in 0 .. Len(Block(m)) - 1
      BY <3>1
    <3> DEFINE j == p[2] + 1
    <3>3. j \in DOMAIN Block(m) /\ j - 1 = p[2] /\ Block(m)[j] \in Transaction
      BY <3>2, BlockTypes DEF HInv
    <3> HIDE DEF j
    <3>4. Block(m)[j].valid /\ Block(m)[j].id = id
      BY <3>2 DEF TxAt, j
    <3>5. Block(m)[j].kind = "endorser"
      BY <2>1, <3>3, <3>4, BlocksAssumption DEF Transaction
    <3>6. Least(BlocksWith(id)) = m /\ findTransaction(m, id) = j - 1
      BY <3>3, <3>4, <3>5, ValidIsFound DEF HInv
    <3> QED BY <2>1, <3>2, <3>3, <3>6
  <2>4. <<n, i>> \in TxPlaces /\ TxAt(<<n, i>>) = Block(n)[i + 1]
    <3>1. <<n, i>> \in {n} \X (0 .. Len(Block(n)) - 1)
      BY <2>2
    <3> QED BY <2>2, <3>1 DEF TxPlaces, TxAt
  <2>5. rec.status = 1 <=> Block(n)[i + 1].valid
    BY <2>1
  <2>6. valid # {} => Block(n)[i + 1].valid
    BY <2>3, <2>4
  <2>7. Block(n)[i + 1].valid => <<n, i>> \in valid
    BY <2>2, <2>4
  <2> HIDE DEF valid
  <2>8. rec.status = 1 <=> valid # {}
    BY <2>5, <2>6, <2>7
  <2>9. rec.status = 1 => valid = {<<n, i>>}
    BY <2>3, <2>5, <2>7
  <2> QED BY <2>1, <2>8, <2>9 DEF ReceiptTruthful, id, rec, n, i, valid
<1> QED BY <1>2, <1>3, <1>4, HandlerInvariant, PTL
=============================================================================
