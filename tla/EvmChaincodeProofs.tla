------------------------- MODULE EvmChaincodeProofs -------------------------
(***************************************************************************)
(* Proofs about EvmChaincode, for any contracts, keys, words, codes and    *)
(* any number and depth of calls.                                          *)
(***************************************************************************)
EXTENDS EvmChaincode, SequenceLemmas

----------------------------------------------------------------------------
(* Types of the caches.                                                    *)

Infos ==
  [loaded : {TRUE}, account : Acct \cup {Absent}, storage : [Key -> Word \cup {Zero, Unset}],
   removed : BOOLEAN, updated : BOOLEAN]
FrameType ==
  [callee : Address, create : BOOLEAN, readonly : BOOLEAN, err : BOOLEAN, mark : Nat,
   accounts : [Address -> Infos \cup {NotLoaded}]]

\* What the frames up to p make of an account and a word.
AcctAt(fs, p, a) == AcctIn(SubSeq(fs, 1, p), a)
WordAt(fs, p, a, k) == WordIn(SubSeq(fs, 1, p), a, k)

RemovedBelow(fs, i, a) ==
  \E j \in 1 .. i - 1 : fs[j].accounts[a].loaded /\ fs[j].accounts[a].removed

\* An account in a cache is in every cache below, and an updated one exists.
LoadedDown(fs) ==
  \A i \in 1 .. Len(fs) : \A a \in Address : fs[i].accounts[a].loaded =>
    /\ \A j \in 1 .. i : fs[j].accounts[a].loaded
    /\ fs[i].accounts[a].updated => fs[i].accounts[a].account # Absent

\* A read-only cache has what the caches below have; L is the number of logs.
StaticFrames(fs, L) ==
  \A i \in 1 .. Len(fs) : fs[i].readonly =>
    /\ fs[i].mark = L
    /\ \A j \in i .. Len(fs) : fs[j].readonly
    /\ \A a \in Address : fs[i].accounts[a].loaded =>
         /\ ~fs[i].accounts[a].removed
         /\ fs[i].accounts[a].account = AcctAt(fs, i - 1, a)
         /\ \A k \in Key : fs[i].accounts[a].storage[k] # Unset =>
              fs[i].accounts[a].storage[k] = WordAt(fs, i - 1, a, k)

\* A record of the ledger is cached as it is, or was removed further down.
RecordFrames(fs) ==
  \A i \in 1 .. Len(fs) : \A a \in Address :
    /\ fs[i].accounts[a].loaded /\ ~fs[i].accounts[a].removed
    /\ ledger[SM!acctKey(a)] # Absent
    => fs[i].accounts[a].account = ledger[SM!acctKey(a)] \/ RemovedBelow(fs, i, a)

\* What is being created is not on the ledger, or was removed further down.
CreateFrames(fs) ==
  \A i \in 1 .. Len(fs) : fs[i].create /\ ~fs[i].err =>
    /\ fs[i].accounts[fs[i].callee].loaded
    /\ ledger[SM!acctKey(fs[i].callee)] = Absent \/ RemovedBelow(fs, i, fs[i].callee)

Good(fs, L) ==
  /\ fs \in Seq(FrameType) /\ LoadedDown(fs) /\ StaticFrames(fs, L) /\ RecordFrames(fs)

----------------------------------------------------------------------------
(* What Sync writes.                                                       *)

\* The write set that an outermost cache f amounts to.
Target(f) ==
  [key \in SM!WorldKey |->
     LET info == f.accounts[key[2]] IN
     IF key[1] # "lower" \/ ~info.loaded THEN Unset
     ELSE IF key[3] = NoKey THEN IF info.removed THEN Absent ELSE IF info.updated THEN info.account ELSE Unset
     ELSE IF info.removed \/ ~info.updated THEN Unset
     ELSE IF info.storage[key[3]] = Zero THEN Absent ELSE info.storage[key[3]]]

Calls ==
  [op : {"UpdateAccount"}, a : Address, k : {NoKey}, v : Acct]
    \cup [op : {"RemoveAccount"}, a : Address, k : {NoKey}, v : {Absent}]
    \cup [op : {"SetStorage"}, a : Address, k : Key, v : Word \cup {Zero}]

KeyOf(c) == <<"lower", c.a, c.k>>
ValueOf(c) == IF c.op = "SetStorage" /\ c.v = Zero THEN Absent ELSE c.v

LedgerInv ==
  /\ SM!TypeOK
  /\ \A a \in Address : /\ ledger[SM!acctKey(a)] \in Acct \cup {Absent}
                        /\ \A k \in Key : ledger[SM!compKey(a, k)] \in Word \cup {Absent}

\* The words and records in the write set are where they belong.
WritesInv ==
  \A a \in Address : /\ writes[SM!acctKey(a)] \in Acct \cup {Absent, Unset}
                     /\ \A k \in Key : writes[SM!compKey(a, k)] \in Word \cup {Absent, Unset}

InvokeInv ==
  /\ phase \in {"idle", "start", "evm", "flush", "sync", "done"}
  /\ resp \in {"none", "ok", "error", "panic"}
  /\ limit \in Limits
  /\ Len(frames) <= limit.depth /\ ops \in Nat /\ ops <= limit.ops /\ txs \in Nat /\ txs <= limit.txs
  /\ minted \subseteq NewAddr
  /\ logs \in Seq([addr : Address, live : BOOLEAN])

FramesInv ==
  /\ Good(frames, Len(logs)) /\ CreateFrames(frames)
  /\ phase \in {"idle", "start"} => frames = <<>>
  /\ phase \in {"evm", "flush", "sync"} => frames # <<>>
  /\ phase = "evm" /\ kind = "deploy" =>
       /\ frames[1].accounts[frames[1].callee].loaded
       /\ ledger[SM!acctKey(frames[1].callee)] = Absent

\* Nothing is written before Sync, and then what the outermost cache amounts to.
SyncInv ==
  /\ phase = "idle" <=> ~open
  /\ phase \in {"start", "evm", "flush"} => writes = SM!NoWrites /\ cache = SM!EmptyCache
  /\ phase = "sync" =>
       /\ todo \in Seq(Calls)
       /\ \A j \in 1 .. Len(todo) : Target(frames[1])[KeyOf(todo[j])] = ValueOf(todo[j])
       /\ \A key \in SM!WorldKey :
            \/ writes[key] = Target(frames[1])[key]
            \/ writes[key] = Unset /\ \E j \in 1 .. Len(todo) : KeyOf(todo[j]) = key
  /\ phase = "done" /\ resp = "ok" =>
       writes = IF frames = <<>> THEN SM!NoWrites ELSE Target(frames[1])

\* A read comes before all writes.
ReadsInv ==
  open /\ ret.op = "GetStorage" =>
    writes = SM!NoWrites /\ (ret.ok => ret.val = SM!LeftPadWord256(ledger[ret.key]))

EInv == LedgerInv /\ WritesInv /\ InvokeInv /\ FramesInv /\ SyncInv /\ ReadsInv

----------------------------------------------------------------------------
(* Looking up through the caches.                                          *)

LEMMA MaxOf ==
  ASSUME NEW n \in Nat, NEW S \in SUBSET (1 .. n)
  PROVE  Max0(S) \in S \cup {0} /\ Max0(S) \in 0 .. n /\ \A x \in S : x <= Max0(S)
<1>0. \A x \in S : x \in 1 .. n
  OBVIOUS
<1>1. \E m \in S \cup {0} : \A x \in S : x <= m
  <2>1. CASE S = {}
    BY <2>1
  <2>2. CASE S # {}
    <3> DEFINE T == {n - x : x \in S}
    <3>0. \A x \in S : n - x \in Nat
      BY <1>0
    <3>1. T \in SUBSET Nat /\ T # {}
      BY <2>2, <3>0
    <3> HIDE DEF T
    <3>2. PICK t \in T : \A y \in T : t <= y
      BY <3>1, LeastElement
    <3>3. PICK m \in S : t = n - m
      BY DEF T
    <3>4. \A x \in S : n - m <= n - x
      BY <3>2, <3>3 DEF T
    <3>5. \A x \in S : x <= m
      BY <1>0, <3>4
    <3> QED BY <3>5
  <2> QED BY <2>1, <2>2
<1>2. Max0(S) \in S \cup {0} /\ \A x \in S : x <= Max0(S)
  BY <1>1 DEF Max0
<1>3. \A x \in S \cup {0} : x \in 0 .. n
  BY <1>0
<1> QED BY <1>2, <1>3

LEMMA MaxIs ==
  ASSUME NEW n \in Nat, NEW S \in SUBSET (1 .. n), NEW m \in S \cup {0}, \A x \in S : x <= m
  PROVE  Max0(S) = m
<1>1. Max0(S) \in S \cup {0} /\ \A x \in S : x <= Max0(S)
  BY MaxOf
<1>2. Max0(S) \in Nat /\ m \in Nat
  <2>1. \A x \in S \cup {0} : x \in Nat
    OBVIOUS
  <2> QED BY <1>1, <2>1
<1>3. Max0(S) <= m /\ m <= Max0(S)
  BY <1>1, <1>2
<1> QED BY <1>2, <1>3

\* A frame's parts.
LEMMA FrameParts ==
  ASSUME NEW fs \in Seq(FrameType), NEW i \in 1 .. Len(fs)
  PROVE  /\ fs[i] \in FrameType /\ Len(fs) \in Nat /\ DOMAIN fs = 1 .. Len(fs)
         /\ fs[i].callee \in Address /\ fs[i].mark \in Nat
         /\ fs[i].accounts \in [Address -> Infos \cup {NotLoaded}]
         /\ \A a \in Address : fs[i].accounts[a] \in Infos \cup {NotLoaded}
         /\ \A a \in Address : fs[i].accounts[a].loaded => fs[i].accounts[a] \in Infos
<1>1. fs[i] \in FrameType /\ Len(fs) \in Nat /\ DOMAIN fs = 1 .. Len(fs)
  OBVIOUS
<1>2. /\ fs[i].callee \in Address /\ fs[i].mark \in Nat
      /\ fs[i].accounts \in [Address -> Infos \cup {NotLoaded}]
  BY <1>1 DEF FrameType
<1>3. \A a \in Address : fs[i].accounts[a] \in Infos \cup {NotLoaded}
  BY <1>2
<1>4. ~NotLoaded.loaded
  BY DEF NotLoaded
<1> QED BY <1>1, <1>2, <1>3, <1>4

LEMMA Prefix ==
  ASSUME NEW fs \in Seq(FrameType), NEW p \in 0 .. Len(fs)
  PROVE  /\ SubSeq(fs, 1, p) \in Seq(FrameType) /\ Len(SubSeq(fs, 1, p)) = p
         /\ DOMAIN SubSeq(fs, 1, p) = 1 .. p
         /\ \A i \in 1 .. p : SubSeq(fs, 1, p)[i] = fs[i]
  OBVIOUS

\* The level at which a prefix finds an account.
Having(fs, p, a) == {i \in 1 .. p : fs[i].accounts[a].loaded}
HavingWord(fs, p, a, k) == {i \in 1 .. p : fs[i].accounts[a].loaded /\ fs[i].accounts[a].storage[k] # Unset}

LEMMA LevelIn ==
  ASSUME NEW fs, NEW p \in Nat, NEW a, NEW k
  PROVE  Max0(Having(fs, p, a)) \in 0 .. p /\ Max0(HavingWord(fs, p, a, k)) \in 0 .. p
<1>1. Having(fs, p, a) \in SUBSET (1 .. p) /\ HavingWord(fs, p, a, k) \in SUBSET (1 .. p)
  BY DEF Having, HavingWord
<1> QED BY <1>1, MaxOf

AcctFrom(fs, i, a) ==
  IF i = 0 THEN ledger[SM!acctKey(a)]
  ELSE IF fs[i].accounts[a].removed THEN Absent ELSE fs[i].accounts[a].account
WordFrom(fs, i, a, k) ==
  IF i = 0 THEN SM!LeftPadWord256(ledger[SM!compKey(a, k)]) ELSE fs[i].accounts[a].storage[k]

LEMMA AcctAtIs ==
  ASSUME NEW fs \in Seq(FrameType), NEW p \in 0 .. Len(fs), NEW a
  PROVE  AcctAt(fs, p, a) = AcctFrom(fs, Max0(Having(fs, p, a)), a)
<1> DEFINE gs == SubSeq(fs, 1, p)
<1>1. DOMAIN gs = 1 .. p /\ (\A i \in 1 .. p : gs[i] = fs[i]) /\ p \in Nat
  BY Prefix
<1> HIDE DEF gs
<1>2. {i \in DOMAIN gs : gs[i].accounts[a].loaded} = Having(fs, p, a)
  BY <1>1 DEF Having
<1>3. AcctLevel(gs, a) = Max0(Having(fs, p, a))
  BY <1>2 DEF AcctLevel
<1> DEFINE m == Max0(Having(fs, p, a))
<1>4. m \in 0 .. p
  BY <1>1, LevelIn
<1>5. AcctIn(gs, a) = IF m = 0 THEN ledger[SM!acctKey(a)]
                      ELSE IF gs[m].accounts[a].removed THEN Absent ELSE gs[m].accounts[a].account
  BY <1>3 DEF AcctIn
<1> HIDE DEF m
<1>6. m # 0 => gs[m] = fs[m]
  BY <1>1, <1>4
<1>7. AcctIn(gs, a) = AcctFrom(fs, m, a)
  BY <1>5, <1>6 DEF AcctFrom
<1> QED BY <1>7 DEF AcctAt, gs, m

LEMMA WordAtIs ==
  ASSUME NEW fs \in Seq(FrameType), NEW p \in 0 .. Len(fs), NEW a, NEW k
  PROVE  WordAt(fs, p, a, k) = WordFrom(fs, Max0(HavingWord(fs, p, a, k)), a, k)
<1> DEFINE gs == SubSeq(fs, 1, p)
<1>1. DOMAIN gs = 1 .. p /\ (\A i \in 1 .. p : gs[i] = fs[i]) /\ p \in Nat
  BY Prefix
<1> HIDE DEF gs
<1>2. {i \in DOMAIN gs : gs[i].accounts[a].loaded /\ gs[i].accounts[a].storage[k] # Unset} = HavingWord(fs, p, a, k)
  BY <1>1 DEF HavingWord
<1>3. WordLevel(gs, a, k) = Max0(HavingWord(fs, p, a, k))
  BY <1>2 DEF WordLevel
<1> DEFINE m == Max0(HavingWord(fs, p, a, k))
<1>4. m \in 0 .. p
  BY <1>1, LevelIn
<1>5. WordIn(gs, a, k) = IF m = 0 THEN SM!LeftPadWord256(ledger[SM!compKey(a, k)]) ELSE gs[m].accounts[a].storage[k]
  BY <1>3 DEF WordIn
<1> HIDE DEF m
<1>6. m # 0 => gs[m] = fs[m]
  BY <1>1, <1>4
<1>7. WordIn(gs, a, k) = WordFrom(fs, m, a, k)
  BY <1>5, <1>6 DEF WordFrom
<1> QED BY <1>7 DEF WordAt, gs, m

\* All frames are a prefix.
LEMMA AtTop ==
  ASSUME NEW fs \in Seq(FrameType), NEW a, NEW k
  PROVE  AcctIn(fs, a) = AcctAt(fs, Len(fs), a) /\ WordIn(fs, a, k) = WordAt(fs, Len(fs), a, k)
<1>1. SubSeq(fs, 1, Len(fs)) = fs
  OBVIOUS
<1> QED BY <1>1 DEF AcctAt, WordAt

\* One frame more: it answers if it can.
LEMMA AtStep ==
  ASSUME NEW fs \in Seq(FrameType), NEW a \in Address, NEW k
  PROVE  /\ AcctAt(fs, 0, a) = ledger[SM!acctKey(a)]
         /\ WordAt(fs, 0, a, k) = SM!LeftPadWord256(ledger[SM!compKey(a, k)])
         /\ \A p \in 1 .. Len(fs) :
              /\ AcctAt(fs, p, a) = IF ~fs[p].accounts[a].loaded THEN AcctAt(fs, p - 1, a)
                                    ELSE IF fs[p].accounts[a].removed THEN Absent
                                    ELSE fs[p].accounts[a].account
              /\ WordAt(fs, p, a, k) = IF fs[p].accounts[a].loaded /\ fs[p].accounts[a].storage[k] # Unset
                                       THEN fs[p].accounts[a].storage[k] ELSE WordAt(fs, p - 1, a, k)
<1>0. 0 \in 0 .. Len(fs) /\ Len(fs) \in Nat
  OBVIOUS
<1>1. AcctAt(fs, 0, a) = ledger[SM!acctKey(a)] /\ WordAt(fs, 0, a, k) = SM!LeftPadWord256(ledger[SM!compKey(a, k)])
  <2>1. Having(fs, 0, a) = {} /\ HavingWord(fs, 0, a, k) = {}
    BY DEF Having, HavingWord
  <2>2. Max0({}) = 0
    BY DEF Max0
  <2>3. AcctAt(fs, 0, a) = AcctFrom(fs, 0, a)
    BY <1>0, <2>1, <2>2, AcctAtIs
  <2>4. WordAt(fs, 0, a, k) = WordFrom(fs, 0, a, k)
    <3>1. WordAt(fs, 0, a, k) = WordFrom(fs, Max0(HavingWord(fs, 0, a, k)), a, k)
      BY <1>0, WordAtIs
    <3> QED BY <2>1, <2>2, <3>1
  <2> QED BY <2>3, <2>4 DEF AcctFrom, WordFrom
<1>2. ASSUME NEW p \in 1 .. Len(fs)
      PROVE  AcctAt(fs, p, a) = IF ~fs[p].accounts[a].loaded THEN AcctAt(fs, p - 1, a)
                                ELSE IF fs[p].accounts[a].removed THEN Absent
                                ELSE fs[p].accounts[a].account
  <2>1. p \in 0 .. Len(fs) /\ p - 1 \in 0 .. Len(fs) /\ p \in Nat
    BY <1>0
  <2>2. CASE fs[p].accounts[a].loaded
    <3>1. p \in Having(fs, p, a) /\ Having(fs, p, a) \in SUBSET (1 .. p) /\ p # 0
      BY <2>1, <2>2 DEF Having
    <3>2. \A x \in Having(fs, p, a) : x <= p
      BY <3>1
    <3>3. Max0(Having(fs, p, a)) = p
      BY <2>1, <3>1, <3>2, MaxIs
    <3>4. AcctAt(fs, p, a) = AcctFrom(fs, p, a)
      BY <2>1, <3>3, AcctAtIs
    <3> QED BY <2>2, <3>1, <3>4 DEF AcctFrom
  <2>3. CASE ~fs[p].accounts[a].loaded
    <3>1. Having(fs, p, a) = Having(fs, p - 1, a)
      BY <2>1, <2>3 DEF Having
    <3>2. AcctAt(fs, p, a) = AcctAt(fs, p - 1, a)
      BY <2>1, <3>1, AcctAtIs
    <3> QED BY <2>3, <3>2
  <2> QED BY <2>2, <2>3
<1>3. ASSUME NEW p \in 1 .. Len(fs)
      PROVE  WordAt(fs, p, a, k) = IF fs[p].accounts[a].loaded /\ fs[p].accounts[a].storage[k] # Unset
                                   THEN fs[p].accounts[a].storage[k] ELSE WordAt(fs, p - 1, a, k)
  <2>1. p \in 0 .. Len(fs) /\ p - 1 \in 0 .. Len(fs) /\ p \in Nat
    BY <1>0
  <2>2. CASE fs[p].accounts[a].loaded /\ fs[p].accounts[a].storage[k] # Unset
    <3>1. p \in HavingWord(fs, p, a, k) /\ HavingWord(fs, p, a, k) \in SUBSET (1 .. p) /\ p # 0
      BY <2>1, <2>2 DEF HavingWord
    <3>2. \A x \in HavingWord(fs, p, a, k) : x <= p
      BY <3>1
    <3>3. Max0(HavingWord(fs, p, a, k)) = p
      BY <2>1, <3>1, <3>2, MaxIs
    <3>4. WordAt(fs, p, a, k) = WordFrom(fs, p, a, k)
      BY <2>1, <3>3, WordAtIs
    <3> QED BY <2>2, <3>1, <3>4 DEF WordFrom
  <2>3. CASE ~(fs[p].accounts[a].loaded /\ fs[p].accounts[a].storage[k] # Unset)
    <3>1. HavingWord(fs, p, a, k) = HavingWord(fs, p - 1, a, k)
      BY <2>1, <2>3 DEF HavingWord
    <3>2. WordAt(fs, p, a, k) = WordAt(fs, p - 1, a, k)
      BY <2>1, <3>1, WordAtIs
    <3> QED BY <2>3, <3>2
  <2> QED BY <2>2, <2>3
<1> QED BY <1>1, <1>2, <1>3

\* Only the prefix matters, and of it only the account.
LEMMA AtLocal ==
  ASSUME NEW fs \in Seq(FrameType), NEW gs \in Seq(FrameType), NEW a, NEW k,
         NEW p \in 0 .. Len(fs), p <= Len(gs),
         \A i \in 1 .. p : gs[i].accounts[a] = fs[i].accounts[a]
  PROVE  AcctAt(gs, p, a) = AcctAt(fs, p, a) /\ WordAt(gs, p, a, k) = WordAt(fs, p, a, k)
<1>1. p \in 0 .. Len(gs) /\ p \in Nat
  OBVIOUS
<1>2. Having(gs, p, a) = Having(fs, p, a) /\ HavingWord(gs, p, a, k) = HavingWord(fs, p, a, k)
  BY DEF Having, HavingWord
<1> DEFINE i == Max0(Having(fs, p, a))
           j == Max0(HavingWord(fs, p, a, k))
<1>3. i \in 0 .. p /\ j \in 0 .. p
  BY <1>1, LevelIn
<1>4. (i # 0 => gs[i].accounts[a] = fs[i].accounts[a]) /\ (j # 0 => gs[j].accounts[a] = fs[j].accounts[a])
  BY <1>1, <1>3
<1>5. AcctAt(fs, p, a) = AcctFrom(fs, i, a) /\ WordAt(fs, p, a, k) = WordFrom(fs, j, a, k)
  BY AcctAtIs, WordAtIs
<1>6. AcctAt(gs, p, a) = AcctFrom(gs, i, a) /\ WordAt(gs, p, a, k) = WordFrom(gs, j, a, k)
  BY <1>1, <1>2, AcctAtIs, WordAtIs
<1> HIDE DEF i, j
<1> QED BY <1>4, <1>5, <1>6 DEF AcctFrom, WordFrom

----------------------------------------------------------------------------
(* What the caches' operations keep.                                       *)

\* gs are the frames fs, with more accounts, failures and removals in them.
Grows(fs, gs) ==
  /\ Len(gs) = Len(fs)
  /\ \A i \in 1 .. Len(fs) :
       /\ gs[i].callee = fs[i].callee /\ gs[i].create = fs[i].create
       /\ gs[i].readonly = fs[i].readonly /\ gs[i].mark = fs[i].mark
       /\ fs[i].err => gs[i].err
       /\ \A a \in Address : fs[i].accounts[a].loaded =>
            /\ gs[i].accounts[a].loaded
            /\ fs[i].accounts[a].removed => gs[i].accounts[a].removed

LEMMA GrowsCreates ==
  ASSUME NEW fs \in Seq(FrameType), NEW gs, Grows(fs, gs), CreateFrames(fs)
  PROVE  CreateFrames(gs)
<1> SUFFICES ASSUME NEW i \in 1 .. Len(gs), gs[i].create /\ ~gs[i].err
             PROVE  /\ gs[i].accounts[gs[i].callee].loaded
                    /\ ledger[SM!acctKey(gs[i].callee)] = Absent \/ RemovedBelow(gs, i, gs[i].callee)
  BY DEF CreateFrames
<1>1. i \in 1 .. Len(fs) /\ fs[i].create /\ ~fs[i].err /\ gs[i].callee = fs[i].callee
  BY DEF Grows
<1>2. fs[i].callee \in Address /\ Len(fs) \in Nat
  BY <1>1, FrameParts
<1>3. fs[i].accounts[fs[i].callee].loaded
  BY <1>1 DEF CreateFrames
<1>4. gs[i].accounts[fs[i].callee].loaded
  BY <1>1, <1>2, <1>3 DEF Grows
<1>5. ASSUME RemovedBelow(fs, i, fs[i].callee) PROVE RemovedBelow(gs, i, fs[i].callee)
  <2>1. PICK j \in 1 .. i - 1 : fs[j].accounts[fs[i].callee].loaded /\ fs[j].accounts[fs[i].callee].removed
    BY <1>5 DEF RemovedBelow
  <2>2. j \in 1 .. Len(fs)
    BY <1>1, <1>2
  <2>3. gs[j].accounts[fs[i].callee].loaded /\ gs[j].accounts[fs[i].callee].removed
    BY <1>2, <2>1, <2>2 DEF Grows
  <2> QED BY <2>1, <2>3 DEF RemovedBelow
<1> QED BY <1>1, <1>4, <1>5 DEF CreateFrames

LEMMA GrowsTwice ==
  ASSUME NEW fs, NEW gs, NEW hs, Grows(fs, gs), Grows(gs, hs)
  PROVE  Grows(fs, hs)
  BY DEF Grows

\* The top frame with some of its accounts replaced.
TopOf(fs, g, L) ==
  LET n == Len(fs)
      f == fs[n]
  IN /\ g \in FrameType
     /\ g.callee = f.callee /\ g.create = f.create /\ g.readonly = f.readonly /\ g.mark = f.mark
     /\ f.err => g.err
     /\ \A a \in Address :
          \/ g.accounts[a] = f.accounts[a]
          \/ /\ ~f.readonly
             /\ f.accounts[a].loaded /\ g.accounts[a].loaded
             /\ f.accounts[a].removed => g.accounts[a].removed
             /\ g.accounts[a].updated => g.accounts[a].account # Absent
             /\ ~g.accounts[a].removed /\ ledger[SM!acctKey(a)] # Absent =>
                  g.accounts[a].account = ledger[SM!acctKey(a)] \/ RemovedBelow(fs, n, a)

LEMMA SetTopIs ==
  ASSUME NEW fs \in Seq(FrameType), fs # <<>>, NEW g \in FrameType
  PROVE  /\ SetTop(fs, g) \in Seq(FrameType) /\ Len(SetTop(fs, g)) = Len(fs)
         /\ Len(fs) \in Nat /\ Len(fs) \in 1 .. Len(fs)
         /\ SetTop(fs, g)[Len(fs)] = g
         /\ \A i \in 1 .. Len(fs) - 1 : SetTop(fs, g)[i] = fs[i]
<1>1. Len(fs) \in Nat /\ Len(fs) \in 1 .. Len(fs) /\ DOMAIN fs = 1 .. Len(fs)
  OBVIOUS
<1> DEFINE n == Len(fs)
           gs == SetTop(fs, g)
<1>2. gs = [i \in 1 .. n |-> IF i = n THEN g ELSE fs[i]]
  BY <1>1 DEF SetTop
<1>3. \A i \in 1 .. n : gs[i] = IF i = n THEN g ELSE fs[i]
  BY <1>2
<1>4. \A i \in 1 .. n : fs[i] \in FrameType
  OBVIOUS
<1>5. gs = [i \in 1 .. n |-> gs[i]] /\ \A i \in 1 .. n : gs[i] \in FrameType
  BY <1>2, <1>3, <1>4
<1> HIDE DEF gs
<1>6. gs \in Seq(FrameType) /\ Len(gs) = n
  BY <1>1, <1>5, FunctionIsSeq
<1>7. \A m \in Nat : \A i \in 1 .. m - 1 : i \in 1 .. m /\ i # m
  OBVIOUS
<1> QED BY <1>1, <1>3, <1>6, <1>7 DEF gs

LEMMA TopChange ==
  ASSUME NEW fs, NEW L, Good(fs, L), fs # <<>>, NEW g, TopOf(fs, g, L)
  PROVE  Good(SetTop(fs, g), L) /\ Grows(fs, SetTop(fs, g))
<1> DEFINE gs == SetTop(fs, g)
           n == Len(fs)
           f == fs[n]
<1>0. fs \in Seq(FrameType) /\ g \in FrameType
  BY DEF Good, TopOf
<1>1. /\ gs \in Seq(FrameType) /\ Len(gs) = n /\ n \in Nat /\ n \in 1 .. n
      /\ gs[n] = g /\ \A i \in 1 .. n - 1 : gs[i] = fs[i]
  BY <1>0, SetTopIs
<1>2. \A i \in 1 .. n : i = n \/ i \in 1 .. n - 1
  BY <1>1
<1>3. /\ g.callee = f.callee /\ g.create = f.create /\ g.readonly = f.readonly /\ g.mark = f.mark
      /\ f.err => g.err
  BY DEF TopOf
<1>4. \A a \in Address :
        \/ g.accounts[a] = f.accounts[a]
        \/ /\ ~f.readonly
           /\ f.accounts[a].loaded /\ g.accounts[a].loaded
           /\ f.accounts[a].removed => g.accounts[a].removed
           /\ g.accounts[a].updated => g.accounts[a].account # Absent
           /\ ~g.accounts[a].removed /\ ledger[SM!acctKey(a)] # Absent =>
                g.accounts[a].account = ledger[SM!acctKey(a)] \/ RemovedBelow(fs, n, a)
  BY DEF TopOf
<1> HIDE DEF gs, f
<1>5. Grows(fs, gs)
  <2> SUFFICES ASSUME NEW i \in 1 .. n
               PROVE  /\ gs[i].callee = fs[i].callee /\ gs[i].create = fs[i].create
                      /\ gs[i].readonly = fs[i].readonly /\ gs[i].mark = fs[i].mark
                      /\ fs[i].err => gs[i].err
                      /\ \A a \in Address : fs[i].accounts[a].loaded =>
                           /\ gs[i].accounts[a].loaded
                           /\ fs[i].accounts[a].removed => gs[i].accounts[a].removed
    BY <1>1 DEF Grows
  <2>1. CASE i = n
    BY <1>1, <1>3, <1>4, <2>1 DEF f
  <2>2. CASE i # n
    BY <1>1, <1>2, <2>2
  <2> QED BY <2>1, <2>2
<1>6. \A i \in 1 .. n, a \in Address : RemovedBelow(gs, i, a) <=> RemovedBelow(fs, i, a)
  <2> SUFFICES ASSUME NEW i \in 1 .. n, NEW a \in Address
               PROVE  RemovedBelow(gs, i, a) <=> RemovedBelow(fs, i, a)
    OBVIOUS
  <2>1. \A j \in 1 .. i - 1 : gs[j] = fs[j]
    BY <1>1
  <2> QED BY <2>1 DEF RemovedBelow
<1>7. LoadedDown(gs)
  <2>0. \A i \in 1 .. n, a \in Address : gs[i].accounts[a].loaded <=> fs[i].accounts[a].loaded
    BY <1>1, <1>2, <1>4 DEF f
  <2> SUFFICES ASSUME NEW i \in 1 .. n, NEW a \in Address, gs[i].accounts[a].loaded
               PROVE  /\ \A j \in 1 .. i : gs[j].accounts[a].loaded
                      /\ gs[i].accounts[a].updated => gs[i].accounts[a].account # Absent
    BY <1>1 DEF LoadedDown
  <2>1. fs[i].accounts[a].loaded
    BY <2>0
  <2>2. /\ \A j \in 1 .. i : fs[j].accounts[a].loaded
        /\ fs[i].accounts[a].updated => fs[i].accounts[a].account # Absent
    BY <2>1 DEF Good, LoadedDown
  <2>3. \A j \in 1 .. i : j \in 1 .. n
    BY <1>1
  <2>4. gs[i].accounts[a].updated => gs[i].accounts[a].account # Absent
    BY <1>1, <1>2, <1>4, <2>2 DEF f
  <2> QED BY <2>0, <2>2, <2>3, <2>4
<1>8. StaticFrames(gs, L)
  <2> SUFFICES ASSUME NEW i \in 1 .. n, gs[i].readonly
               PROVE  /\ gs[i].mark = L
                      /\ \A j \in i .. n : gs[j].readonly
                      /\ \A a \in Address : gs[i].accounts[a].loaded =>
                           /\ ~gs[i].accounts[a].removed
                           /\ gs[i].accounts[a].account = AcctAt(gs, i - 1, a)
                           /\ \A k \in Key : gs[i].accounts[a].storage[k] # Unset =>
                                gs[i].accounts[a].storage[k] = WordAt(gs, i - 1, a, k)
    BY <1>1 DEF StaticFrames
  <2>1. \A j \in 1 .. n : gs[j].readonly = fs[j].readonly /\ gs[j].mark = fs[j].mark
    BY <1>5 DEF Grows
  <2>2. /\ fs[i].mark = L
        /\ \A j \in i .. n : fs[j].readonly
        /\ \A a \in Address : fs[i].accounts[a].loaded =>
             /\ ~fs[i].accounts[a].removed
             /\ fs[i].accounts[a].account = AcctAt(fs, i - 1, a)
             /\ \A k \in Key : fs[i].accounts[a].storage[k] # Unset =>
                  fs[i].accounts[a].storage[k] = WordAt(fs, i - 1, a, k)
    BY <2>1 DEF Good, StaticFrames
  <2>3. \A j \in i .. n : j \in 1 .. n
    BY <1>1
  <2>4. f.readonly
    BY <1>1, <2>2 DEF f
  <2>5. \A a \in Address : gs[i].accounts[a] = fs[i].accounts[a]
    BY <1>1, <1>2, <1>4, <2>4 DEF f
  <2> DEFINE p == i - 1
  <2>6. p \in 0 .. n /\ p <= Len(gs) /\ \A j \in 1 .. p : gs[j] = fs[j]
    BY <1>1
  <2> HIDE DEF p
  <2>7. ASSUME NEW a \in Address, NEW k
        PROVE  AcctAt(gs, p, a) = AcctAt(fs, p, a) /\ WordAt(gs, p, a, k) = WordAt(fs, p, a, k)
    <3>1. \A j \in 1 .. p : gs[j].accounts[a] = fs[j].accounts[a]
      BY <2>6
    <3> QED BY <1>0, <1>1, <2>6, <3>1, AtLocal
  <2>8. \A a \in Address : gs[i].accounts[a].loaded =>
          /\ ~gs[i].accounts[a].removed
          /\ gs[i].accounts[a].account = AcctAt(gs, p, a)
          /\ \A k \in Key : gs[i].accounts[a].storage[k] # Unset =>
               gs[i].accounts[a].storage[k] = WordAt(gs, p, a, k)
    BY <2>2, <2>5, <2>7 DEF p
  <2> QED BY <2>1, <2>2, <2>3, <2>8 DEF p
<1>9. RecordFrames(gs)
  <2> SUFFICES ASSUME NEW i \in 1 .. n, NEW a \in Address,
                      gs[i].accounts[a].loaded, ~gs[i].accounts[a].removed,
                      ledger[SM!acctKey(a)] # Absent
               PROVE  gs[i].accounts[a].account = ledger[SM!acctKey(a)] \/ RemovedBelow(gs, i, a)
    BY <1>1 DEF RecordFrames
  <2>1. CASE gs[i].accounts[a] = fs[i].accounts[a]
    BY <1>6, <2>1 DEF Good, RecordFrames
  <2>2. CASE gs[i].accounts[a] # fs[i].accounts[a]
    BY <1>1, <1>2, <1>4, <1>6, <2>2 DEF f
  <2> QED BY <2>1, <2>2
<1> QED BY <1>1, <1>5, <1>7, <1>8, <1>9 DEF Good, gs

\* Changing one account of a frame.
SetInfo(f, a, i) == [f EXCEPT !.accounts = [f.accounts EXCEPT ![a] = i]]

LEMMA InfoChanged ==
  ASSUME NEW f \in FrameType, NEW a \in Address, NEW i \in Infos
  PROVE  /\ SetInfo(f, a, i) \in FrameType
         /\ SetInfo(f, a, i).callee = f.callee /\ SetInfo(f, a, i).create = f.create
         /\ SetInfo(f, a, i).readonly = f.readonly
         /\ SetInfo(f, a, i).mark = f.mark /\ SetInfo(f, a, i).err = f.err
         /\ SetInfo(f, a, i).accounts[a] = i
         /\ \A b \in Address : b # a => SetInfo(f, a, i).accounts[b] = f.accounts[b]
<1>1. f.accounts \in [Address -> Infos \cup {NotLoaded}]
  BY DEF FrameType
<1> DEFINE acs == [f.accounts EXCEPT ![a] = i]
           g == SetInfo(f, a, i)
<1>2. acs \in [Address -> Infos \cup {NotLoaded}] /\ acs[a] = i /\ \A b \in Address : b # a => acs[b] = f.accounts[b]
  BY <1>1
<1> HIDE DEF acs, g
<1>3. g = [f EXCEPT !.accounts = acs]
  BY DEF acs, g, SetInfo
<1>4. g.accounts = acs
  BY <1>3 DEF FrameType
<1>5. g \in FrameType
  BY <1>2, <1>3 DEF FrameType
<1>6. /\ g.callee = f.callee /\ g.create = f.create /\ g.readonly = f.readonly
      /\ g.mark = f.mark /\ g.err = f.err
  BY <1>3 DEF FrameType
<1> QED BY <1>2, <1>4, <1>5, <1>6 DEF g

\* What a change to account a of the top frame must respect.
LEMMA PutGood ==
  ASSUME NEW fs, NEW L, Good(fs, L), fs # <<>>, NEW a \in Address,
         Writable(fs, a), fs[Len(fs)].accounts[a].loaded,
         NEW i \in Infos, i.updated => i.account # Absent,
         ~i.removed /\ ledger[SM!acctKey(a)] # Absent =>
           i.account = ledger[SM!acctKey(a)] \/ RemovedBelow(fs, Len(fs), a)
  PROVE  LET gs == SetTop(fs, SetInfo(fs[Len(fs)], a, i)) IN Good(gs, L) /\ Grows(fs, gs)
<1>1. fs \in Seq(FrameType) /\ Len(fs) \in 1 .. Len(fs)
  BY DEF Good
<1> DEFINE f == fs[Len(fs)]
           g == SetInfo(f, a, i)
<1>2. f \in FrameType
  BY <1>1, FrameParts
<1> HIDE DEF f
<1>3. /\ g \in FrameType
      /\ g.callee = f.callee /\ g.create = f.create /\ g.readonly = f.readonly
      /\ g.mark = f.mark /\ g.err = f.err
      /\ g.accounts[a] = i
      /\ \A b \in Address : b # a => g.accounts[b] = f.accounts[b]
  BY <1>2, InfoChanged
<1>4. i.loaded
  BY DEF Infos
<1>5. ~f.readonly /\ ~f.accounts[a].removed /\ f.accounts[a].loaded
  BY DEF Writable, f
<1> HIDE DEF g
<1>6. TopOf(fs, g, L)
  BY <1>3, <1>4, <1>5 DEF TopOf, f
<1>7. Good(SetTop(fs, g), L) /\ Grows(fs, SetTop(fs, g))
  BY <1>6, TopChange
<1> QED BY <1>7 DEF g, f

LEMMA FailGood ==
  ASSUME NEW fs, NEW L, Good(fs, L), fs # <<>>
  PROVE  Good(Fail(fs), L) /\ Grows(fs, Fail(fs)) /\ Fail(fs)[Len(fs)].err
<1>1. fs \in Seq(FrameType) /\ Len(fs) \in 1 .. Len(fs)
  BY DEF Good
<1> DEFINE f == fs[Len(fs)]
           g == [f EXCEPT !.err = TRUE]
<1>2. f \in FrameType
  BY <1>1, FrameParts
<1>3. /\ g \in FrameType /\ g.err
      /\ g.callee = f.callee /\ g.create = f.create /\ g.readonly = f.readonly
      /\ g.mark = f.mark /\ g.accounts = f.accounts
  BY <1>2 DEF FrameType
<1>4. Fail(fs) = SetTop(fs, g)
  BY DEF Fail
<1> HIDE DEF g, f
<1>5. TopOf(fs, g, L)
  BY <1>3 DEF TopOf, f
<1>6. SetTop(fs, g)[Len(fs)] = g
  BY <1>1, <1>3, SetTopIs
<1> QED BY <1>3, <1>4, <1>5, <1>6, TopChange

\* A frame's account, as the whole stack sees it.
LEMMA TopHas ==
  ASSUME NEW fs \in Seq(FrameType), fs # <<>>, NEW a \in Address, fs[Len(fs)].accounts[a].loaded
  PROVE  AcctIn(fs, a) = IF fs[Len(fs)].accounts[a].removed THEN Absent ELSE fs[Len(fs)].accounts[a].account
<1>1. Len(fs) \in 1 .. Len(fs)
  OBVIOUS
<1> DEFINE p == Len(fs)
<1>3. SubSeq(fs, 1, p) = fs
  OBVIOUS
<1>4. p \in 0 .. Len(fs) /\ p \in Nat /\ p # 0
  BY <1>1
<1>5. p \in Having(fs, p, a) /\ Having(fs, p, a) \in SUBSET (1 .. p)
  BY <1>1 DEF Having
<1>6. \A x \in Having(fs, p, a) : x <= p
  BY <1>5
<1>7. Max0(Having(fs, p, a)) = p
  BY <1>4, <1>5, <1>6, MaxIs
<1>8. AcctAt(fs, p, a) = AcctFrom(fs, p, a)
  BY <1>4, <1>7, AcctAtIs
<1> QED BY <1>3, <1>4, <1>8 DEF AcctFrom, AcctAt

LEMMA UpdateGood ==
  ASSUME NEW fs, NEW L, Good(fs, L), fs # <<>>, NEW a \in Address,
         fs[Len(fs)].accounts[a].loaded, NEW acc \in Acct,
         ~fs[Len(fs)].accounts[a].removed /\ ledger[SM!acctKey(a)] # Absent =>
           acc = ledger[SM!acctKey(a)] \/ RemovedBelow(fs, Len(fs), a)
  PROVE  Good(Update(fs, a, acc), L) /\ Grows(fs, Update(fs, a, acc))
<1>0. fs \in Seq(FrameType) /\ Len(fs) \in 1 .. Len(fs)
  BY DEF Good
<1> DEFINE f == fs[Len(fs)]
           o == f.accounts[a]
           i == [o EXCEPT !.account = acc, !.updated = TRUE]
           g == SetInfo(f, a, i)
<1>1. f \in FrameType /\ o \in Infos
  BY <1>0, FrameParts
<1>2. i \in Infos /\ i.account = acc /\ i.removed = o.removed
  BY <1>1 DEF Infos
<1>3. acc # Absent
  BY MarkerAssumption
<1>4. CASE Writable(fs, a)
  <2>1. Update(fs, a, acc) = SetTop(fs, g)
    <3>1. [f EXCEPT !.accounts[a].account = acc, !.accounts[a].updated = TRUE] = g
      BY <1>1 DEF FrameType, Infos, SetInfo
    <3> QED BY <1>4, <3>1 DEF Update
  <2> HIDE DEF i
  <2>2. ~i.removed /\ ledger[SM!acctKey(a)] # Absent =>
           i.account = ledger[SM!acctKey(a)] \/ RemovedBelow(fs, Len(fs), a)
    BY <1>2
  <2>3. i.account # Absent
    BY <1>2, <1>3
  <2>4. Good(SetTop(fs, g), L) /\ Grows(fs, SetTop(fs, g))
    BY <1>2, <1>4, <2>2, <2>3, PutGood
  <2> QED BY <2>1, <2>4
<1>5. CASE ~Writable(fs, a)
  BY <1>5, FailGood DEF Update
<1> QED BY <1>4, <1>5

LEMMA RemoveGood ==
  ASSUME NEW fs, NEW L, Good(fs, L), fs # <<>>, NEW a \in Address,
         fs[Len(fs)].accounts[a].loaded
  PROVE  Good(RemoveAccount(fs, a), L) /\ Grows(fs, RemoveAccount(fs, a))
<1>0. fs \in Seq(FrameType) /\ Len(fs) \in 1 .. Len(fs)
  BY DEF Good
<1> DEFINE f == fs[Len(fs)]
           o == f.accounts[a]
           i == [o EXCEPT !.removed = TRUE]
           g == SetInfo(f, a, i)
<1>1. f \in FrameType /\ o \in Infos
  BY <1>0, FrameParts
<1>2. i \in Infos /\ i.account = o.account /\ i.removed /\ i.updated = o.updated
  BY <1>1 DEF Infos
<1>3. o.updated => o.account # Absent
  BY <1>0 DEF Good, LoadedDown
<1>4. CASE Writable(fs, a)
  <2>1. RemoveAccount(fs, a) = SetTop(fs, g)
    <3>1. [f EXCEPT !.accounts[a].removed = TRUE] = g
      BY <1>1 DEF FrameType, Infos, SetInfo
    <3> QED BY <1>4, <3>1 DEF RemoveAccount
  <2> HIDE DEF i
  <2>2. ~i.removed /\ ledger[SM!acctKey(a)] # Absent =>
           i.account = ledger[SM!acctKey(a)] \/ RemovedBelow(fs, Len(fs), a)
    BY <1>2
  <2>3. i.updated => i.account # Absent
    BY <1>2, <1>3
  <2>4. Good(SetTop(fs, g), L) /\ Grows(fs, SetTop(fs, g))
    BY <1>2, <1>4, <2>2, <2>3, PutGood
  <2> QED BY <2>1, <2>4
<1>5. CASE ~Writable(fs, a)
  BY <1>5, FailGood DEF RemoveAccount
<1> QED BY <1>4, <1>5

LEMMA StoreGood ==
  ASSUME NEW fs, NEW L, Good(fs, L), fs # <<>>, NEW a \in Address,
         fs[Len(fs)].accounts[a].loaded, NEW k \in Key, NEW v \in Word \cup {Zero}
  PROVE  Good(Store(fs, a, k, v), L) /\ Grows(fs, Store(fs, a, k, v))
<1>0. fs \in Seq(FrameType) /\ Len(fs) \in 1 .. Len(fs)
  BY DEF Good
<1> DEFINE f == fs[Len(fs)]
           o == f.accounts[a]
           st == [o.storage EXCEPT ![k] = v]
           i == [o EXCEPT !.storage = st, !.updated = TRUE]
           g == SetInfo(f, a, i)
<1>1. f \in FrameType /\ o \in Infos /\ o.storage \in [Key -> Word \cup {Zero, Unset}]
  BY <1>0, FrameParts DEF Infos
<1>2. st \in [Key -> Word \cup {Zero, Unset}]
  BY <1>1
<1>3. i \in Infos /\ i.account = o.account /\ i.removed = o.removed
  <2> HIDE DEF st, o
  <2> QED BY <1>1, <1>2 DEF Infos
<1>4. CASE Writable(fs, a) /\ o.account # Absent
  <2>1. Store(fs, a, k, v) = SetTop(fs, g)
    <3>1. [f EXCEPT !.accounts[a].storage[k] = v, !.accounts[a].updated = TRUE] = g
      BY <1>1 DEF FrameType, Infos, SetInfo
    <3> QED BY <1>4, <3>1 DEF Store
  <2> HIDE DEF i
  <2>2. ~i.removed /\ ledger[SM!acctKey(a)] # Absent =>
           i.account = ledger[SM!acctKey(a)] \/ RemovedBelow(fs, Len(fs), a)
    BY <1>0, <1>3 DEF Good, RecordFrames
  <2>3. i.account # Absent
    BY <1>3, <1>4
  <2>4. Good(SetTop(fs, g), L) /\ Grows(fs, SetTop(fs, g))
    BY <1>3, <1>4, <2>2, <2>3, PutGood
  <2> QED BY <2>1, <2>4
<1>5. CASE ~(Writable(fs, a) /\ o.account # Absent)
  BY <1>5, FailGood DEF Store
<1> QED BY <1>4, <1>5

\* State.CreateAccount on a loaded account: one that exists makes the frame fail.
LEMMA CreateGood ==
  ASSUME NEW fs, NEW L, Good(fs, L), fs # <<>>, NEW a \in Address,
         fs[Len(fs)].accounts[a].loaded
  PROVE  /\ Good(CreateAccount(fs, a), L) /\ Grows(fs, CreateAccount(fs, a))
         /\ \/ CreateAccount(fs, a)[Len(fs)].err
            \/ /\ ~fs[Len(fs)].accounts[a].removed
               /\ ledger[SM!acctKey(a)] = Absent \/ RemovedBelow(fs, Len(fs), a)
<1>0. fs \in Seq(FrameType) /\ Len(fs) \in 1 .. Len(fs)
  BY DEF Good
<1>1. AcctIn(fs, a) = IF fs[Len(fs)].accounts[a].removed THEN Absent ELSE fs[Len(fs)].accounts[a].account
  BY <1>0, TopHas
<1>2. CASE Exists(fs, a)
  BY <1>2, FailGood DEF CreateAccount
<1>3. CASE ~Exists(fs, a)
  <2> DEFINE acc == [code |-> NoCode, perms |-> FALSE]
  <2>1. acc \in Acct
    BY DEF Acct
  <2>2. AcctIn(fs, a) = Absent
    BY <1>3 DEF Exists
  <2>3. ~fs[Len(fs)].accounts[a].removed /\ ledger[SM!acctKey(a)] # Absent =>
          RemovedBelow(fs, Len(fs), a)
    BY <1>0, <1>1, <2>2 DEF Good, RecordFrames
  <2>4. CreateAccount(fs, a) = Update(fs, a, acc)
    BY <1>3 DEF CreateAccount
  <2> HIDE DEF acc
  <2>5. Good(Update(fs, a, acc), L) /\ Grows(fs, Update(fs, a, acc))
    BY <2>1, <2>3, UpdateGood
  <2>6. CASE fs[Len(fs)].accounts[a].removed
    <3>1. Update(fs, a, acc) = Fail(fs)
      BY <2>6 DEF Update, Writable
    <3> QED BY <2>4, <2>5, <3>1, FailGood
  <2> QED BY <2>3, <2>4, <2>5, <2>6
<1> QED BY <1>2, <1>3

\* State.InitCode on a loaded account that is being created.
LEMMA InitCodeGood ==
  ASSUME NEW fs, NEW L, Good(fs, L), fs # <<>>, NEW a \in Address,
         fs[Len(fs)].accounts[a].loaded, NEW c \in Code \cup {NoCode},
         ledger[SM!acctKey(a)] = Absent \/ RemovedBelow(fs, Len(fs), a)
  PROVE  Good(InitCode(fs, a, c), L) /\ Grows(fs, InitCode(fs, a, c))
<1>0. fs \in Seq(FrameType) /\ Len(fs) \in 1 .. Len(fs)
  BY DEF Good
<1>1. AcctIn(fs, a) = IF fs[Len(fs)].accounts[a].removed THEN Absent ELSE fs[Len(fs)].accounts[a].account
  BY <1>0, TopHas
<1>2. AcctIn(fs, a) \in Acct \cup {Absent}
  <2>1. fs[Len(fs)].accounts[a] \in Infos
    BY <1>0, FrameParts
  <2> QED BY <1>1, <2>1 DEF Infos
<1>3. CASE AcctIn(fs, a) = Absent \/ AcctIn(fs, a).code # NoCode
  BY <1>3, FailGood DEF InitCode
<1>4. CASE ~(AcctIn(fs, a) = Absent \/ AcctIn(fs, a).code # NoCode)
  <2> DEFINE acc == [AcctIn(fs, a) EXCEPT !.code = c]
  <2>1. acc \in Acct
    BY <1>2, <1>4 DEF Acct
  <2>2. InitCode(fs, a, c) = Update(fs, a, acc)
    BY <1>4 DEF InitCode
  <2> HIDE DEF acc
  <2> QED BY <2>1, <2>2, UpdateGood
<1> QED BY <1>3, <1>4

\* What the caches answer has the type of the ledger's answers.
LEMMA AnswerTypes ==
  ASSUME NEW fs \in Seq(FrameType), LedgerInv, NEW p \in 0 .. Len(fs), NEW a \in Address, NEW k \in Key
  PROVE  AcctAt(fs, p, a) \in Acct \cup {Absent} /\ WordAt(fs, p, a, k) \in Word \cup {Zero}
<1> DEFINE i == Max0(Having(fs, p, a))
           j == Max0(HavingWord(fs, p, a, k))
<1>0. p \in Nat /\ Len(fs) \in Nat
  OBVIOUS
<1>1. Having(fs, p, a) \in SUBSET (1 .. p) /\ HavingWord(fs, p, a, k) \in SUBSET (1 .. p)
  BY DEF Having, HavingWord
<1>2. i \in Having(fs, p, a) \cup {0} /\ j \in HavingWord(fs, p, a, k) \cup {0}
  BY <1>0, <1>1, MaxOf
<1>3. AcctAt(fs, p, a) = AcctFrom(fs, i, a) /\ WordAt(fs, p, a, k) = WordFrom(fs, j, a, k)
  BY AcctAtIs, WordAtIs
<1> HIDE DEF i, j
<1>4. ledger[SM!acctKey(a)] \in Acct \cup {Absent} /\ ledger[SM!compKey(a, k)] \in Word \cup {Absent}
  BY DEF LedgerInv
<1>5. i # 0 => i \in 1 .. Len(fs) /\ fs[i].accounts[a].loaded
  BY <1>0, <1>2 DEF Having
<1>6. j # 0 => j \in 1 .. Len(fs) /\ fs[j].accounts[a].loaded /\ fs[j].accounts[a].storage[k] # Unset
  BY <1>0, <1>2 DEF HavingWord
<1>7. i # 0 => fs[i].accounts[a] \in Infos
  BY <1>5, FrameParts
<1>8. j # 0 => fs[j].accounts[a] \in Infos
  BY <1>6, FrameParts
<1>9. AcctFrom(fs, i, a) \in Acct \cup {Absent}
  BY <1>4, <1>7 DEF AcctFrom, Infos
<1>10. j # 0 => fs[j].accounts[a].storage \in [Key -> Word \cup {Zero, Unset}]
  BY <1>8 DEF Infos
<1>11. WordFrom(fs, j, a, k) \in Word \cup {Zero}
  BY <1>4, <1>6, <1>10 DEF WordFrom, SM!LeftPadWord256
<1> QED BY <1>3, <1>9, <1>11

----------------------------------------------------------------------------
(* Cache misses.                                                           *)

\* A miss leaves what every prefix of the stack sees as it is.
SameViews(fs, gs) ==
  \A p \in 0 .. Len(fs) : \A a \in Address :
    AcctAt(gs, p, a) = AcctAt(fs, p, a) /\ \A k \in Key : WordAt(gs, p, a, k) = WordAt(fs, p, a, k)

\* Beyond the level where it is found an account is in no frame, below it in all.
LEMMA LoadLevel ==
  ASSUME NEW fs, fs \in Seq(FrameType), LoadedDown(fs), NEW a \in Address
  PROVE  /\ AcctLevel(fs, a) = Max0(Having(fs, Len(fs), a))
         /\ AcctLevel(fs, a) \in 0 .. Len(fs)
         /\ \A i \in 1 .. Len(fs) : fs[i].accounts[a].loaded <=> i <= AcctLevel(fs, a)
         /\ \A p \in 0 .. Len(fs) : p >= AcctLevel(fs, a) =>
              AcctAt(fs, p, a) = AcctFrom(fs, AcctLevel(fs, a), a)
         /\ AcctIn(fs, a) = AcctFrom(fs, AcctLevel(fs, a), a)
<1> DEFINE n == Len(fs)
           m == AcctLevel(fs, a)
<1>0. n \in Nat /\ DOMAIN fs = 1 .. n
  OBVIOUS
<1>1. m = Max0(Having(fs, n, a))
  BY <1>0 DEF AcctLevel, Having
<1>2. Having(fs, n, a) \in SUBSET (1 .. n)
  BY DEF Having
<1>3. m \in Having(fs, n, a) \cup {0} /\ m \in 0 .. n /\ \A x \in Having(fs, n, a) : x <= m
  BY <1>0, <1>1, <1>2, MaxOf
<1> HIDE DEF m
<1>4. ASSUME NEW i \in 1 .. n PROVE fs[i].accounts[a].loaded <=> i <= m
  <2>1. ASSUME fs[i].accounts[a].loaded PROVE i <= m
    BY <1>3, <2>1 DEF Having
  <2>2. ASSUME i <= m PROVE fs[i].accounts[a].loaded
    <3>1. m \in Having(fs, n, a) /\ i \in 1 .. m
      BY <1>0, <1>3, <2>2
    <3>2. m \in 1 .. n /\ fs[m].accounts[a].loaded
      BY <3>1 DEF Having
    <3> QED BY <3>1, <3>2 DEF LoadedDown
  <2> QED BY <2>1, <2>2
<1>5. ASSUME NEW p \in 0 .. n, p >= m PROVE AcctAt(fs, p, a) = AcctFrom(fs, m, a)
  <2>1. Having(fs, p, a) = Having(fs, n, a)
    <3>1. \A i \in 1 .. p : i \in 1 .. n
      BY <1>0
    <3>2. \A i \in 1 .. n : fs[i].accounts[a].loaded => i \in 1 .. p
      BY <1>0, <1>3, <1>4, <1>5
    <3> QED BY <3>1, <3>2 DEF Having
  <2> QED BY <1>1, <2>1, AcctAtIs
<1>6. AcctIn(fs, a) = AcctFrom(fs, m, a)
  <2>1. SubSeq(fs, 1, n) = fs /\ n \in 0 .. n /\ n >= m
    BY <1>0, <1>3
  <2>2. AcctAt(fs, n, a) = AcctFrom(fs, m, a)
    BY <1>5, <2>1
  <2> QED BY <2>1, <2>2 DEF AcctAt
<1> QED BY <1>1, <1>3, <1>4, <1>5, <1>6 DEF m

LEMMA LoadIs ==
  ASSUME NEW fs, NEW L, Good(fs, L), LedgerInv, NEW a \in Address
  PROVE  /\ AcctIn(fs, a) \in Acct \cup {Absent}
         /\ Load(fs, a) \in Seq(FrameType) /\ Len(Load(fs, a)) = Len(fs)
         /\ \A i \in 1 .. Len(fs) :
              /\ i <= AcctLevel(fs, a) => Load(fs, a)[i] = fs[i]
              /\ i > AcctLevel(fs, a) =>
                   Load(fs, a)[i] = SetInfo(fs[i], a, Info(AcctIn(fs, a)))
         /\ Info(AcctIn(fs, a)) \in Infos
<1> DEFINE n == Len(fs)
           m == AcctLevel(fs, a)
           gs == Load(fs, a)
           info == Info(AcctIn(fs, a))
<1>0. fs \in Seq(FrameType) /\ n \in Nat /\ n \in 0 .. n /\ DOMAIN fs = 1 .. n /\ LoadedDown(fs)
  BY DEF Good
<1>1. AcctIn(fs, a) = AcctFrom(fs, m, a) /\ m \in 0 .. n
      /\ \A i \in 1 .. Len(fs) : fs[i].accounts[a].loaded <=> i <= m
  BY <1>0, LoadLevel
<1>2. AcctIn(fs, a) \in Acct \cup {Absent}
  <2>1. ledger[SM!acctKey(a)] \in Acct \cup {Absent}
    BY DEF LedgerInv
  <2> HIDE DEF m
  <2>2. m # 0 => m \in 1 .. n /\ m <= m
    BY <1>0, <1>1
  <2>3. m # 0 => fs[m].accounts[a] \in Infos
    BY <1>0, <1>1, <2>2, FrameParts
  <2> QED BY <1>1, <2>1, <2>3 DEF AcctFrom, Infos
<1>3. info \in Infos
  BY <1>2 DEF Info, Infos
<1> HIDE DEF info, m
<1>4. gs = [i \in 1 .. n |-> IF i <= m THEN fs[i] ELSE [fs[i] EXCEPT !.accounts[a] = info]]
  BY <1>0 DEF Load, m, info
<1>5. \A i \in 1 .. n : gs[i] = IF i <= m THEN fs[i] ELSE [fs[i] EXCEPT !.accounts[a] = info]
  BY <1>4
<1>6. ASSUME NEW i \in 1 .. n
      PROVE  /\ [fs[i] EXCEPT !.accounts[a] = info] = SetInfo(fs[i], a, info)
             /\ SetInfo(fs[i], a, info) \in FrameType
             /\ fs[i] \in FrameType
  <2>1. PICK f \in FrameType : f = fs[i]
    BY <1>0, FrameParts
  <2>2. SetInfo(f, a, info) \in FrameType
    BY <1>3, InfoChanged
  <2>3. [f EXCEPT !.accounts[a] = info] = SetInfo(f, a, info)
    BY DEF FrameType, SetInfo
  <2> QED BY <2>1, <2>2, <2>3
<1>7. gs = [i \in 1 .. n |-> gs[i]] /\ \A i \in 1 .. n : gs[i] \in FrameType
  BY <1>4, <1>5, <1>6
<1> HIDE DEF gs
<1>8. gs \in Seq(FrameType) /\ Len(gs) = n
  BY <1>0, <1>7, FunctionIsSeq
<1>9. \A i \in 1 .. n : i > m => ~(i <= m)
  BY <1>0, <1>1
<1> QED BY <1>2, <1>3, <1>5, <1>6, <1>8, <1>9 DEF gs, info, m

\* The frames after a miss, account by account.
LEMMA LoadParts ==
  ASSUME NEW fs, NEW L, Good(fs, L), LedgerInv, NEW a \in Address, NEW i \in 1 .. Len(fs)
  PROVE  LET gs == Load(fs, a) IN
         /\ gs[i].callee = fs[i].callee /\ gs[i].create = fs[i].create
         /\ gs[i].readonly = fs[i].readonly /\ gs[i].mark = fs[i].mark /\ gs[i].err = fs[i].err
         /\ \A b \in Address : b # a => gs[i].accounts[b] = fs[i].accounts[b]
         /\ i <= AcctLevel(fs, a) => gs[i].accounts[a] = fs[i].accounts[a]
         /\ i > AcctLevel(fs, a) => gs[i].accounts[a] = Info(AcctIn(fs, a))
<1> DEFINE gs == Load(fs, a)
           m == AcctLevel(fs, a)
           info == Info(AcctIn(fs, a))
<1>0. fs \in Seq(FrameType) /\ Len(fs) \in Nat /\ LoadedDown(fs)
  BY DEF Good
<1>1. fs[i] \in FrameType
  BY <1>0, FrameParts
<1>2. (i <= m => gs[i] = fs[i]) /\ (i > m => gs[i] = SetInfo(fs[i], a, info)) /\ info \in Infos
  BY LoadIs
<1>3. m \in 0 .. Len(fs)
  BY <1>0, LoadLevel
<1> HIDE DEF gs, m, info
<1>4. CASE i <= m
  <2>1. ~(i > m)
    BY <1>0, <1>3, <1>4
  <2> QED BY <1>2, <1>4, <2>1 DEF gs, m, info
<1>5. CASE i > m
  <2>1. ~(i <= m)
    BY <1>0, <1>3, <1>5
  <2>2. PICK f \in FrameType : f = fs[i]
    BY <1>1
  <2>3. gs[i] = SetInfo(f, a, info)
    BY <1>2, <1>5, <2>2
  <2>4. /\ gs[i].callee = f.callee /\ gs[i].create = f.create
        /\ gs[i].readonly = f.readonly /\ gs[i].mark = f.mark /\ gs[i].err = f.err
        /\ \A b \in Address : b # a => gs[i].accounts[b] = f.accounts[b]
        /\ gs[i].accounts[a] = info
    BY <1>2, <2>3, InfoChanged
  <2> QED BY <2>1, <2>2, <2>4 DEF gs, m, info
<1>6. i <= m \/ i > m
  BY <1>0, <1>3
<1> QED BY <1>4, <1>5, <1>6

LEMMA InfoFields ==
  ASSUME NEW acc
  PROVE  /\ Info(acc).loaded /\ ~Info(acc).removed /\ ~Info(acc).updated /\ Info(acc).account = acc
         /\ \A k \in Key : Info(acc).storage[k] = Unset
  BY DEF Info

LEMMA LoadViews ==
  ASSUME NEW fs, NEW L, Good(fs, L), LedgerInv, NEW a \in Address
  PROVE  SameViews(fs, Load(fs, a))
<1> DEFINE gs == Load(fs, a)
           m == AcctLevel(fs, a)
           acc == AcctIn(fs, a)
           n == Len(fs)
<1>0. fs \in Seq(FrameType) /\ n \in Nat /\ LoadedDown(fs)
  BY DEF Good
<1>1. gs \in Seq(FrameType) /\ Len(gs) = n
  BY LoadIs
<1>2. /\ m \in 0 .. n
      /\ \A i \in 1 .. n : fs[i].accounts[a].loaded <=> i <= m
      /\ \A p \in 0 .. n : p >= m => AcctAt(fs, p, a) = acc
  BY <1>0, LoadLevel
<1>3. \A i \in 1 .. n :
        /\ \A b \in Address : b # a => gs[i].accounts[b] = fs[i].accounts[b]
        /\ i <= m => gs[i].accounts[a] = fs[i].accounts[a]
        /\ i > m => gs[i].accounts[a] = Info(acc)
  BY LoadParts
<1> HIDE DEF gs, m, acc, n
<1>a. n = Len(fs) /\ Len(gs) = Len(fs)
  BY <1>1 DEF n
<1>4. ASSUME NEW p \in 0 .. n, NEW b \in Address, b # a, NEW k
      PROVE  AcctAt(gs, p, b) = AcctAt(fs, p, b) /\ WordAt(gs, p, b, k) = WordAt(fs, p, b, k)
  <2>1. \A i \in 1 .. p : gs[i].accounts[b] = fs[i].accounts[b]
    BY <1>0, <1>3, <1>4
  <2>2. p <= Len(gs) /\ p \in 0 .. Len(fs)
    BY <1>0, <1>a
  <2> QED BY <1>0, <1>1, <2>1, <2>2, AtLocal
<1>5. ASSUME NEW p \in 0 .. n PROVE AcctAt(gs, p, a) = AcctAt(fs, p, a)
  <2>1. CASE p <= m
    <3>1. \A i \in 1 .. p : i \in 1 .. n /\ i <= m
      BY <1>0, <1>2, <2>1
    <3>2. \A i \in 1 .. p : gs[i].accounts[a] = fs[i].accounts[a]
      BY <1>3, <3>1
    <3>3. p <= Len(gs) /\ p \in 0 .. Len(fs)
      BY <1>0, <1>a
    <3> QED BY <1>0, <1>1, <3>2, <3>3, AtLocal
  <2>2. CASE p > m
    <3>1. p \in 1 .. n /\ p >= m /\ p \in Nat
      BY <1>0, <1>2, <2>2
    <3>2. gs[p].accounts[a] = Info(acc)
      BY <1>3, <2>2, <3>1
    <3>3. gs[p].accounts[a].loaded /\ ~gs[p].accounts[a].removed /\ gs[p].accounts[a].account = acc
      BY <3>2, InfoFields
    <3>4. p \in Having(gs, p, a) /\ Having(gs, p, a) \in SUBSET (1 .. p) /\ p # 0
      BY <3>1, <3>3 DEF Having
    <3>5. \A x \in Having(gs, p, a) : x <= p
      BY <3>4
    <3>6. Max0(Having(gs, p, a)) = p
      BY <3>1, <3>4, <3>5, MaxIs
    <3>7. AcctAt(gs, p, a) = AcctFrom(gs, p, a)
      BY <1>a, <1>1, <3>6, AcctAtIs
    <3>8. AcctAt(gs, p, a) = acc
      BY <3>3, <3>4, <3>7 DEF AcctFrom
    <3> QED BY <1>2, <3>1, <3>8
  <2> QED BY <1>0, <1>2, <2>1, <2>2
<1>6. ASSUME NEW p \in 0 .. n, NEW k \in Key PROVE WordAt(gs, p, a, k) = WordAt(fs, p, a, k)
  <2>0. \A i \in 1 .. p : i \in 1 .. n /\ (i <= m \/ i > m)
    BY <1>0, <1>2
  <2>1. \A i \in 1 .. p : gs[i].accounts[a] = fs[i].accounts[a]
           \/ (gs[i].accounts[a].storage[k] = Unset /\ ~fs[i].accounts[a].loaded)
    <3>1. ASSUME NEW i \in 1 .. p, i > m PROVE gs[i].accounts[a].storage[k] = Unset /\ ~fs[i].accounts[a].loaded
      <4>1. i \in 1 .. n /\ ~(i <= m)
        BY <1>0, <1>2, <3>1
      <4> QED BY <1>2, <1>3, <3>1, <4>1, InfoFields
    <3> QED BY <1>3, <2>0, <3>1
  <2>2. HavingWord(gs, p, a, k) = HavingWord(fs, p, a, k)
    BY <2>1 DEF HavingWord
  <2> DEFINE j == Max0(HavingWord(fs, p, a, k))
  <2>3. HavingWord(fs, p, a, k) \in SUBSET (1 .. p) /\ p \in Nat
    BY <1>0 DEF HavingWord
  <2>4. j \in HavingWord(fs, p, a, k) \cup {0}
    BY <2>3, MaxOf
  <2>5. WordAt(fs, p, a, k) = WordFrom(fs, j, a, k) /\ WordAt(gs, p, a, k) = WordFrom(gs, j, a, k)
    BY <1>a, <1>0, <1>1, <2>2, WordAtIs
  <2> HIDE DEF j
  <2>6. j # 0 => gs[j].accounts[a] = fs[j].accounts[a]
    BY <2>1, <2>4 DEF HavingWord
  <2> QED BY <2>5, <2>6 DEF WordFrom
<1> QED BY <1>a, <1>4, <1>5, <1>6 DEF SameViews, gs

\* A miss keeps the invariant, and leaves the account in every frame.
LEMMA LoadGood ==
  ASSUME NEW fs, NEW L, Good(fs, L), LedgerInv, NEW a \in Address
  PROVE  /\ Good(Load(fs, a), L) /\ Grows(fs, Load(fs, a))
         /\ \A i \in 1 .. Len(fs) : Load(fs, a)[i].accounts[a].loaded
         /\ \A i \in 1 .. Len(fs) : Load(fs, a)[i].err = fs[i].err
<1> DEFINE gs == Load(fs, a)
           m == AcctLevel(fs, a)
           acc == AcctIn(fs, a)
           n == Len(fs)
<1>0. fs \in Seq(FrameType) /\ n \in Nat /\ LoadedDown(fs) /\ StaticFrames(fs, L) /\ RecordFrames(fs)
  BY DEF Good
<1>1. gs \in Seq(FrameType) /\ Len(gs) = n
  BY LoadIs
<1>2. /\ m \in 0 .. n
      /\ \A i \in 1 .. n : fs[i].accounts[a].loaded <=> i <= m
      /\ \A p \in 0 .. n : p >= m => AcctAt(fs, p, a) = AcctFrom(fs, m, a)
      /\ acc = AcctFrom(fs, m, a)
  BY <1>0, LoadLevel
<1>3. \A i \in 1 .. n :
        /\ gs[i].callee = fs[i].callee /\ gs[i].create = fs[i].create
        /\ gs[i].readonly = fs[i].readonly /\ gs[i].mark = fs[i].mark /\ gs[i].err = fs[i].err
        /\ \A b \in Address : b # a => gs[i].accounts[b] = fs[i].accounts[b]
        /\ i <= m => gs[i].accounts[a] = fs[i].accounts[a]
        /\ i > m => gs[i].accounts[a] = Info(acc)
  BY LoadParts
<1>4. SameViews(fs, gs)
  BY LoadViews
<1> HIDE DEF gs, m, acc, n
<1>5. \A i \in 1 .. n : i <= m \/ i > m
  BY <1>0, <1>2
<1>6. ASSUME NEW i \in 1 .. n, NEW b \in Address
      PROVE  \/ gs[i].accounts[b] = fs[i].accounts[b] /\ (b = a => i <= m /\ fs[i].accounts[a].loaded)
             \/ b = a /\ i > m /\ ~fs[i].accounts[a].loaded /\ gs[i].accounts[b] = Info(acc)
  <2>1. i > m => ~(i <= m)
    BY <1>0, <1>2
  <2> QED BY <1>2, <1>3, <1>5, <2>1
<1>7. \A i \in 1 .. n, b \in Address : fs[i].accounts[b].loaded => gs[i].accounts[b] = fs[i].accounts[b]
  BY <1>6
<1>8. \A i \in 1 .. n : gs[i].accounts[a].loaded
  BY <1>6, InfoFields
<1>9. Grows(fs, gs)
  <2>1. \A i \in 1 .. n, b \in Address : fs[i].accounts[b].loaded =>
          gs[i].accounts[b].loaded /\ (fs[i].accounts[b].removed => gs[i].accounts[b].removed)
    BY <1>7
  <2> QED BY <1>1, <1>3, <2>1 DEF Grows, n
<1>10. LoadedDown(gs)
  <2> SUFFICES ASSUME NEW i \in 1 .. n, NEW b \in Address, gs[i].accounts[b].loaded
               PROVE  /\ \A j \in 1 .. i : gs[j].accounts[b].loaded
                      /\ gs[i].accounts[b].updated => gs[i].accounts[b].account # Absent
    BY <1>1 DEF LoadedDown
  <2>0. \A j \in 1 .. i : j \in 1 .. n
    BY <1>0
  <2>1. CASE b = a /\ gs[i].accounts[b] = Info(acc)
    BY <1>8, <2>0, <2>1, InfoFields
  <2>2. CASE gs[i].accounts[b] = fs[i].accounts[b]
    <3>1. /\ \A j \in 1 .. i : fs[j].accounts[b].loaded
          /\ fs[i].accounts[b].updated => fs[i].accounts[b].account # Absent
      BY <1>0, <2>2 DEF LoadedDown, n
    <3> QED BY <1>7, <2>0, <2>2, <3>1
  <2> QED BY <1>6, <2>1, <2>2
<1>11. StaticFrames(gs, L)
  <2> SUFFICES ASSUME NEW i \in 1 .. n, gs[i].readonly
               PROVE  /\ gs[i].mark = L
                      /\ \A j \in i .. n : gs[j].readonly
                      /\ \A b \in Address : gs[i].accounts[b].loaded =>
                           /\ ~gs[i].accounts[b].removed
                           /\ gs[i].accounts[b].account = AcctAt(gs, i - 1, b)
                           /\ \A k \in Key : gs[i].accounts[b].storage[k] # Unset =>
                                gs[i].accounts[b].storage[k] = WordAt(gs, i - 1, b, k)
    BY <1>1 DEF StaticFrames
  <2> DEFINE p == i - 1
  <2>1. p \in 0 .. n /\ (i > m => p >= m)
    BY <1>0, <1>2
  <2>2. /\ fs[i].mark = L
        /\ \A j \in i .. n : fs[j].readonly
        /\ \A b \in Address : fs[i].accounts[b].loaded =>
             /\ ~fs[i].accounts[b].removed
             /\ fs[i].accounts[b].account = AcctAt(fs, p, b)
             /\ \A k \in Key : fs[i].accounts[b].storage[k] # Unset =>
                  fs[i].accounts[b].storage[k] = WordAt(fs, p, b, k)
    BY <1>0, <1>3 DEF StaticFrames, n
  <2> HIDE DEF p
  <2>3. \A b \in Address : AcctAt(gs, p, b) = AcctAt(fs, p, b) /\ \A k \in Key : WordAt(gs, p, b, k) = WordAt(fs, p, b, k)
    BY <1>4, <2>1 DEF SameViews, n
  <2>4. \A j \in i .. n : j \in 1 .. n
    BY <1>0
  <2>5. ASSUME NEW b \in Address, gs[i].accounts[b].loaded
        PROVE  /\ ~gs[i].accounts[b].removed
               /\ gs[i].accounts[b].account = AcctAt(gs, p, b)
               /\ \A k \in Key : gs[i].accounts[b].storage[k] # Unset =>
                    gs[i].accounts[b].storage[k] = WordAt(gs, p, b, k)
    <3>1. CASE gs[i].accounts[b] = fs[i].accounts[b]
      BY <2>2, <2>3, <2>5, <3>1
    <3>2. CASE b = a /\ i > m /\ gs[i].accounts[b] = Info(acc)
      <4>1. AcctAt(fs, p, a) = acc
        BY <1>2, <2>1, <3>2
      <4> QED BY <2>3, <3>2, <4>1, InfoFields
    <3> QED BY <1>6, <3>1, <3>2
  <2> QED BY <1>3, <2>2, <2>4, <2>5 DEF p
<1>12. RecordFrames(gs)
  <2>0. ASSUME NEW i \in 1 .. n, NEW b \in Address, RemovedBelow(fs, i, b) PROVE RemovedBelow(gs, i, b)
    <3>1. PICK j \in 1 .. i - 1 : fs[j].accounts[b].loaded /\ fs[j].accounts[b].removed
      BY <2>0 DEF RemovedBelow
    <3>2. j \in 1 .. n
      BY <1>0
    <3>3. gs[j].accounts[b] = fs[j].accounts[b]
      BY <1>7, <3>1, <3>2
    <3> QED BY <3>1, <3>3 DEF RemovedBelow
  <2> SUFFICES ASSUME NEW i \in 1 .. n, NEW b \in Address,
                      gs[i].accounts[b].loaded, ~gs[i].accounts[b].removed,
                      ledger[SM!acctKey(b)] # Absent
               PROVE  gs[i].accounts[b].account = ledger[SM!acctKey(b)] \/ RemovedBelow(gs, i, b)
    BY <1>1 DEF RecordFrames
  <2>1. CASE gs[i].accounts[b] = fs[i].accounts[b]
    BY <1>0, <2>0, <2>1 DEF RecordFrames, n
  <2>2. CASE b = a /\ i > m /\ gs[i].accounts[b] = Info(acc)
    <3>1. gs[i].accounts[b].account = AcctFrom(fs, m, a)
      BY <1>2, <2>2, InfoFields
    <3>2. CASE m = 0
      BY <2>2, <3>1, <3>2 DEF AcctFrom
    <3>3. CASE m # 0
      <4>1. m \in 1 .. n /\ m \in 1 .. i - 1 /\ m <= m
        BY <1>0, <1>2, <2>2, <3>3
      <4>2. fs[m].accounts[a].loaded
        BY <1>2, <4>1
      <4>3. CASE fs[m].accounts[a].removed
        <5>1. RemovedBelow(fs, i, a)
          BY <4>1, <4>2, <4>3 DEF RemovedBelow
        <5> QED BY <2>0, <2>2, <5>1
      <4>4. CASE ~fs[m].accounts[a].removed
        <5>1. AcctFrom(fs, m, a) = fs[m].accounts[a].account
          BY <3>3, <4>4 DEF AcctFrom
        <5>2. fs[m].accounts[a].account = ledger[SM!acctKey(a)] \/ RemovedBelow(fs, m, a)
          BY <1>0, <2>2, <4>1, <4>2, <4>4 DEF RecordFrames, n
        <5>3. ASSUME RemovedBelow(fs, m, a) PROVE RemovedBelow(fs, i, a)
          <6>1. \A j \in 1 .. m - 1 : j \in 1 .. i - 1
            BY <1>0, <4>1
          <6> QED BY <5>3, <6>1 DEF RemovedBelow
        <5> QED BY <2>0, <2>2, <3>1, <5>1, <5>2, <5>3
      <4> QED BY <4>3, <4>4
    <3> QED BY <3>2, <3>3
  <2> QED BY <1>6, <2>1, <2>2
<1>13. \A i \in 1 .. Len(fs) : gs[i].err = fs[i].err
  BY <1>3 DEF n
<1> QED BY <1>1, <1>8, <1>9, <1>10, <1>11, <1>12, <1>13 DEF Good, gs, n

\* The level of a word does not move when the account is loaded.
LEMMA WordLevelKept ==
  ASSUME NEW fs, NEW L, Good(fs, L), LedgerInv, NEW a \in Address, NEW k \in Key
  PROVE  /\ WordLevel(fs, a, k) = Max0(HavingWord(Load(fs, a), Len(fs), a, k))
         /\ WordIn(fs, a, k) = WordAt(Load(fs, a), Len(fs), a, k)
<1> DEFINE gs == Load(fs, a)
           m == AcctLevel(fs, a)
           n == Len(fs)
<1>0. fs \in Seq(FrameType) /\ n \in Nat /\ LoadedDown(fs) /\ DOMAIN fs = 1 .. n /\ n \in 0 .. n
  BY DEF Good
<1>1. m \in 0 .. n /\ \A i \in 1 .. n : fs[i].accounts[a].loaded <=> i <= m
  BY <1>0, LoadLevel
<1>2. \A i \in 1 .. n :
        /\ i <= m => gs[i].accounts[a] = fs[i].accounts[a]
        /\ i > m => gs[i].accounts[a] = Info(AcctIn(fs, a))
  BY LoadParts
<1>3. SameViews(fs, gs)
  BY LoadViews
<1> HIDE DEF gs, m
<1>4. HavingWord(gs, n, a, k) = HavingWord(fs, n, a, k)
  <2>1. ASSUME NEW i \in 1 .. n
        PROVE \/ gs[i].accounts[a] = fs[i].accounts[a]
              \/ gs[i].accounts[a].storage[k] = Unset /\ ~fs[i].accounts[a].loaded
    <3>1. CASE i <= m
      BY <1>2, <3>1
    <3>2. CASE i > m
      <4>1. ~(i <= m)
        BY <1>0, <1>1, <3>2
      <4> QED BY <1>1, <1>2, <3>2, <4>1, InfoFields
    <3> QED BY <1>0, <1>1, <3>1, <3>2
  <2> QED BY <2>1 DEF HavingWord
<1>5. WordLevel(fs, a, k) = Max0(HavingWord(fs, n, a, k))
  BY <1>0 DEF WordLevel, HavingWord
<1>6. WordIn(fs, a, k) = WordAt(fs, n, a, k)
  BY <1>0, AtTop
<1>7. WordAt(gs, n, a, k) = WordAt(fs, n, a, k)
  BY <1>0, <1>3 DEF SameViews
<1> QED BY <1>4, <1>5, <1>6, <1>7 DEF gs

\* An account's cache with one more word.
SetWord(i, k, v) == [i EXCEPT !.storage = [i.storage EXCEPT ![k] = v]]

LEMMA WordChanged ==
  ASSUME NEW i \in Infos, NEW k \in Key, NEW v \in Word \cup {Zero}
  PROVE  /\ SetWord(i, k, v) \in Infos /\ SetWord(i, k, v).loaded
         /\ SetWord(i, k, v).account = i.account /\ SetWord(i, k, v).removed = i.removed
         /\ SetWord(i, k, v).updated = i.updated
         /\ SetWord(i, k, v).storage[k] = v
         /\ \A q \in Key : q # k => SetWord(i, k, v).storage[q] = i.storage[q]
<1>1. i.storage \in [Key -> Word \cup {Zero, Unset}]
  BY DEF Infos
<1> DEFINE st == [i.storage EXCEPT ![k] = v]
           j == SetWord(i, k, v)
<1>2. st \in [Key -> Word \cup {Zero, Unset}] /\ st[k] = v /\ \A q \in Key : q # k => st[q] = i.storage[q]
  BY <1>1
<1> HIDE DEF st, j
<1>3. j = [i EXCEPT !.storage = st]
  BY DEF st, j, SetWord
<1>4. j \in Infos /\ j.loaded /\ j.account = i.account /\ j.removed = i.removed
      /\ j.updated = i.updated /\ j.storage = st
  BY <1>2, <1>3 DEF Infos
<1> QED BY <1>2, <1>4 DEF j

\* The frames gs, with word v of account a in the ones above level w.
Filled(gs, a, k, w, v) ==
  [i \in DOMAIN gs |-> IF i <= w THEN gs[i] ELSE [gs[i] EXCEPT !.accounts[a].storage[k] = v]]

LEMMA FilledIs ==
  ASSUME NEW gs \in Seq(FrameType), NEW a \in Address, NEW k \in Key, NEW v \in Word \cup {Zero},
         NEW w \in 0 .. Len(gs), \A i \in 1 .. Len(gs) : gs[i].accounts[a].loaded
  PROVE  LET hs == Filled(gs, a, k, w, v) IN
         /\ hs \in Seq(FrameType) /\ Len(hs) = Len(gs)
         /\ \A i \in 1 .. Len(gs) :
              /\ hs[i].callee = gs[i].callee /\ hs[i].create = gs[i].create
              /\ hs[i].readonly = gs[i].readonly /\ hs[i].mark = gs[i].mark /\ hs[i].err = gs[i].err
              /\ \A b \in Address : b # a => hs[i].accounts[b] = gs[i].accounts[b]
              /\ hs[i].accounts[a] = IF i <= w THEN gs[i].accounts[a] ELSE SetWord(gs[i].accounts[a], k, v)
              /\ gs[i].accounts[a] \in Infos
<1> DEFINE hs == Filled(gs, a, k, w, v)
           n == Len(gs)
<1>0. n \in Nat /\ DOMAIN gs = 1 .. n
  OBVIOUS
<1>1. hs = [i \in 1 .. n |-> IF i <= w THEN gs[i] ELSE [gs[i] EXCEPT !.accounts[a].storage[k] = v]]
  BY <1>0 DEF Filled
<1>2. \A i \in 1 .. n : hs[i] = IF i <= w THEN gs[i] ELSE [gs[i] EXCEPT !.accounts[a].storage[k] = v]
  BY <1>1
<1>3. hs = [i \in 1 .. n |-> hs[i]]
  BY <1>1
<1> HIDE DEF hs
<1>4. ASSUME NEW i \in 1 .. n
      PROVE  /\ hs[i] \in FrameType
             /\ hs[i].callee = gs[i].callee /\ hs[i].create = gs[i].create
             /\ hs[i].readonly = gs[i].readonly /\ hs[i].mark = gs[i].mark /\ hs[i].err = gs[i].err
             /\ \A b \in Address : b # a => hs[i].accounts[b] = gs[i].accounts[b]
             /\ hs[i].accounts[a] = IF i <= w THEN gs[i].accounts[a] ELSE SetWord(gs[i].accounts[a], k, v)
             /\ gs[i].accounts[a] \in Infos
  <2>1. gs[i].accounts[a] \in Infos /\ gs[i] \in FrameType
    BY FrameParts
  <2>2. PICK f \in FrameType : f = gs[i]
    BY <2>1
  <2>3. PICK o \in Infos : o = f.accounts[a]
    BY <2>1, <2>2
  <2>4. SetWord(o, k, v) \in Infos
    BY WordChanged
  <2>5. [f EXCEPT !.accounts[a].storage[k] = v] = SetInfo(f, a, SetWord(o, k, v))
    BY <2>3 DEF SetInfo, SetWord, FrameType, Infos
  <2>6. CASE i <= w
    BY <1>2, <2>1, <2>6
  <2>7. CASE ~(i <= w)
    <3>1. hs[i] = SetInfo(f, a, SetWord(o, k, v))
      BY <1>2, <2>2, <2>5, <2>7
    <3> DEFINE c == SetWord(o, k, v)
    <3>2. c \in Infos
      BY <2>4
    <3> HIDE DEF c
    <3>3. /\ hs[i] \in FrameType
          /\ hs[i].callee = f.callee /\ hs[i].create = f.create
          /\ hs[i].readonly = f.readonly /\ hs[i].mark = f.mark /\ hs[i].err = f.err
          /\ \A b \in Address : b # a => hs[i].accounts[b] = f.accounts[b]
          /\ hs[i].accounts[a] = c
      BY <3>1, <3>2, InfoChanged DEF c
    <3> QED BY <2>1, <2>2, <2>3, <2>7, <3>3 DEF c
  <2> QED BY <2>6, <2>7
<1>5. hs \in Seq(FrameType) /\ Len(hs) = n
  BY <1>0, <1>3, <1>4, FunctionIsSeq
<1> QED BY <1>4, <1>5 DEF hs

LEMMA FilledGood ==
  ASSUME NEW gs, NEW L, Good(gs, L), LedgerInv, NEW a \in Address, NEW k \in Key,
         \A i \in 1 .. Len(gs) : gs[i].accounts[a].loaded,
         NEW w, w = Max0(HavingWord(gs, Len(gs), a, k)), NEW v, v = WordAt(gs, Len(gs), a, k)
  PROVE  /\ Good(Filled(gs, a, k, w, v), L) /\ Grows(gs, Filled(gs, a, k, w, v))
         /\ \A i \in 1 .. Len(gs) : Filled(gs, a, k, w, v)[i].err = gs[i].err
         /\ SameViews(gs, Filled(gs, a, k, w, v))
<1> DEFINE hs == Filled(gs, a, k, w, v)
           n == Len(gs)
<1>0. gs \in Seq(FrameType) /\ n \in Nat /\ n \in 0 .. n /\ LoadedDown(gs) /\ StaticFrames(gs, L) /\ RecordFrames(gs)
  BY DEF Good
<1>1. HavingWord(gs, n, a, k) \in SUBSET (1 .. n)
  BY DEF HavingWord
<1>2. w \in 0 .. n /\ w \in HavingWord(gs, n, a, k) \cup {0} /\ \A x \in HavingWord(gs, n, a, k) : x <= w
  BY <1>0, <1>1, MaxOf
<1>3. v \in Word \cup {Zero}
  BY <1>0, AnswerTypes
<1>4. /\ hs \in Seq(FrameType) /\ Len(hs) = n
      /\ \A i \in 1 .. n :
              /\ hs[i].callee = gs[i].callee /\ hs[i].create = gs[i].create
              /\ hs[i].readonly = gs[i].readonly /\ hs[i].mark = gs[i].mark /\ hs[i].err = gs[i].err
              /\ \A b \in Address : b # a => hs[i].accounts[b] = gs[i].accounts[b]
              /\ hs[i].accounts[a] = IF i <= w THEN gs[i].accounts[a] ELSE SetWord(gs[i].accounts[a], k, v)
              /\ gs[i].accounts[a] \in Infos
  BY <1>0, <1>2, <1>3, FilledIs
<1> HIDE DEF hs
<1>5. ASSUME NEW i \in 1 .. n, NEW b \in Address
      PROVE  /\ hs[i].accounts[b].loaded <=> gs[i].accounts[b].loaded
             /\ gs[i].accounts[b].loaded =>
                  /\ hs[i].accounts[b].account = gs[i].accounts[b].account
                  /\ hs[i].accounts[b].removed = gs[i].accounts[b].removed
                  /\ hs[i].accounts[b].updated = gs[i].accounts[b].updated
                  /\ \A q \in Key : b # a \/ q # k => hs[i].accounts[b].storage[q] = gs[i].accounts[b].storage[q]
  <2>1. CASE b # a
    BY <1>4, <2>1
  <2>2. CASE b = a
    <3>1. gs[i].accounts[a] \in Infos /\ gs[i].accounts[a].loaded
      BY <1>4
    <3>2. CASE i <= w
      BY <1>4, <2>2, <3>2
    <3>3. CASE ~(i <= w)
      <4>1. hs[i].accounts[a] = SetWord(gs[i].accounts[a], k, v)
        BY <1>4, <3>3
      <4> QED BY <1>3, <2>2, <3>1, <4>1, WordChanged
    <3> QED BY <3>2, <3>3
  <2> QED BY <2>1, <2>2
<1>6. \A i \in 1 .. n : /\ i <= w => hs[i].accounts[a] = gs[i].accounts[a]
                        /\ ~(i <= w) => /\ hs[i].accounts[a].storage[k] = v
                                        /\ gs[i].accounts[a].storage[k] = Unset
  <2> SUFFICES ASSUME NEW i \in 1 .. n, ~(i <= w)
               PROVE  hs[i].accounts[a].storage[k] = v /\ gs[i].accounts[a].storage[k] = Unset
    BY <1>4
  <2>1. hs[i].accounts[a] = SetWord(gs[i].accounts[a], k, v)
    BY <1>4
  <2>2. hs[i].accounts[a].storage[k] = v
    BY <1>3, <1>4, <2>1, WordChanged
  <2>3. i \notin HavingWord(gs, n, a, k)
    BY <1>2
  <2> QED BY <2>2, <2>3 DEF HavingWord
<1>a. v # Unset
  BY <1>3, MarkerAssumption
<1>7. SameViews(gs, hs)
  <2>1. ASSUME NEW p \in 0 .. n, NEW b \in Address PROVE AcctAt(hs, p, b) = AcctAt(gs, p, b)
    <3>0. \A i \in 1 .. p : i \in 1 .. n
      BY <1>0
    <3>1. Having(hs, p, b) = Having(gs, p, b)
      BY <1>5, <3>0 DEF Having
    <3> DEFINE m == Max0(Having(gs, p, b))
    <3>2. Having(gs, p, b) \in SUBSET (1 .. p) /\ p \in Nat
      BY <1>0 DEF Having
    <3>3. m \in Having(gs, p, b) \cup {0}
      BY <3>2, MaxOf
    <3>4. AcctAt(gs, p, b) = AcctFrom(gs, m, b) /\ AcctAt(hs, p, b) = AcctFrom(hs, m, b)
      BY <1>0, <1>4, <3>1, AcctAtIs
    <3> HIDE DEF m
    <3>5. m # 0 => hs[m].accounts[b].account = gs[m].accounts[b].account
                   /\ hs[m].accounts[b].removed = gs[m].accounts[b].removed
      BY <1>5, <3>0, <3>3 DEF Having
    <3> QED BY <3>4, <3>5 DEF AcctFrom
  <2>2. ASSUME NEW p \in 0 .. n, NEW b \in Address, NEW q \in Key, b # a \/ q # k
        PROVE  WordAt(hs, p, b, q) = WordAt(gs, p, b, q)
    <3>0. \A i \in 1 .. p : i \in 1 .. n
      BY <1>0
    <3>1. HavingWord(hs, p, b, q) = HavingWord(gs, p, b, q)
      BY <1>5, <2>2, <3>0 DEF HavingWord
    <3> DEFINE m == Max0(HavingWord(gs, p, b, q))
    <3>2. HavingWord(gs, p, b, q) \in SUBSET (1 .. p) /\ p \in Nat
      BY <1>0 DEF HavingWord
    <3>3. m \in HavingWord(gs, p, b, q) \cup {0}
      BY <3>2, MaxOf
    <3>4. WordAt(gs, p, b, q) = WordFrom(gs, m, b, q) /\ WordAt(hs, p, b, q) = WordFrom(hs, m, b, q)
      BY <1>0, <1>4, <3>1, WordAtIs
    <3> HIDE DEF m
    <3>5. m # 0 => hs[m].accounts[b].storage[q] = gs[m].accounts[b].storage[q]
      BY <1>5, <2>2, <3>0, <3>3 DEF HavingWord
    <3> QED BY <3>4, <3>5 DEF WordFrom
  <2>3. ASSUME NEW p \in 0 .. n, p <= w PROVE WordAt(hs, p, a, k) = WordAt(gs, p, a, k)
    <3>1. \A i \in 1 .. p : i \in 1 .. n /\ i <= w
      BY <1>0, <1>2, <2>3
    <3>2. \A i \in 1 .. p : hs[i].accounts[a] = gs[i].accounts[a]
      BY <1>6, <3>1
    <3>3. p \in 0 .. Len(gs) /\ p <= Len(hs)
      BY <1>0, <1>4
    <3> QED BY <1>0, <1>4, <3>2, <3>3, AtLocal
  <2>4. ASSUME NEW p \in 0 .. n, ~(p <= w) PROVE WordAt(hs, p, a, k) = v
    <3>1. p \in 1 .. n /\ p \in Nat /\ p # 0
      BY <1>0, <1>2, <2>4
    <3>2. hs[p].accounts[a].storage[k] = v /\ hs[p].accounts[a].loaded
      BY <1>5, <1>6, <2>4, <3>1
    <3>3. p \in HavingWord(hs, p, a, k) /\ HavingWord(hs, p, a, k) \in SUBSET (1 .. p)
      BY <1>a, <3>1, <3>2 DEF HavingWord
    <3>4. \A x \in HavingWord(hs, p, a, k) : x <= p
      BY <3>3
    <3>5. Max0(HavingWord(hs, p, a, k)) = p
      BY <3>1, <3>3, <3>4, MaxIs
    <3>6. WordAt(hs, p, a, k) = WordFrom(hs, p, a, k)
      BY <1>4, <3>5, WordAtIs
    <3> QED BY <3>1, <3>2, <3>6 DEF WordFrom
  <2>5. ASSUME NEW p \in 0 .. n, ~(p <= w) PROVE WordAt(gs, p, a, k) = v
    <3>1. \A i \in 1 .. p : i \in 1 .. n
      BY <1>0
    <3>2. \A x \in HavingWord(gs, n, a, k) : x \in 1 .. p
      BY <1>0, <1>1, <1>2, <2>5
    <3>3. HavingWord(gs, p, a, k) = HavingWord(gs, n, a, k)
      BY <3>1, <3>2 DEF HavingWord
    <3>4. WordAt(gs, p, a, k) = WordFrom(gs, w, a, k) /\ WordAt(gs, n, a, k) = WordFrom(gs, w, a, k)
      BY <1>0, <3>3, WordAtIs
    <3> QED BY <3>4
  <2>6. \A p \in 0 .. n : \A b \in Address : \A q \in Key : WordAt(hs, p, b, q) = WordAt(gs, p, b, q)
    BY <2>2, <2>3, <2>4, <2>5
  <2> QED BY <2>1, <2>6 DEF SameViews
<1>8. Grows(gs, hs)
  BY <1>4, <1>5 DEF Grows
<1>9. LoadedDown(hs)
  <2> SUFFICES ASSUME NEW i \in 1 .. n, NEW b \in Address, hs[i].accounts[b].loaded
               PROVE  /\ \A j \in 1 .. i : hs[j].accounts[b].loaded
                      /\ hs[i].accounts[b].updated => hs[i].accounts[b].account # Absent
    BY <1>4 DEF LoadedDown
  <2>1. \A j \in 1 .. i : j \in 1 .. n
    BY <1>0
  <2>2. /\ \A j \in 1 .. i : gs[j].accounts[b].loaded
        /\ gs[i].accounts[b].updated => gs[i].accounts[b].account # Absent
    BY <1>0, <1>5 DEF LoadedDown
  <2> QED BY <1>5, <2>1, <2>2
<1>10. StaticFrames(hs, L)
  <2> SUFFICES ASSUME NEW i \in 1 .. n, hs[i].readonly
               PROVE  /\ hs[i].mark = L
                      /\ \A j \in i .. n : hs[j].readonly
                      /\ \A b \in Address : hs[i].accounts[b].loaded =>
                           /\ ~hs[i].accounts[b].removed
                           /\ hs[i].accounts[b].account = AcctAt(hs, i - 1, b)
                           /\ \A q \in Key : hs[i].accounts[b].storage[q] # Unset =>
                                hs[i].accounts[b].storage[q] = WordAt(hs, i - 1, b, q)
    BY <1>4 DEF StaticFrames
  <2> DEFINE p == i - 1
  <2>1. p \in 0 .. n /\ (~(i <= w) => p >= w) /\ p \in Nat
    BY <1>0, <1>2
  <2>2. /\ gs[i].mark = L
        /\ \A j \in i .. n : gs[j].readonly
        /\ \A b \in Address : gs[i].accounts[b].loaded =>
             /\ ~gs[i].accounts[b].removed
             /\ gs[i].accounts[b].account = AcctAt(gs, p, b)
             /\ \A q \in Key : gs[i].accounts[b].storage[q] # Unset =>
                  gs[i].accounts[b].storage[q] = WordAt(gs, p, b, q)
    BY <1>0, <1>4 DEF StaticFrames
  <2> HIDE DEF p
  <2>3. \A b \in Address : AcctAt(hs, p, b) = AcctAt(gs, p, b) /\ \A q \in Key : WordAt(hs, p, b, q) = WordAt(gs, p, b, q)
    BY <1>7, <2>1 DEF SameViews
  <2>4. \A j \in i .. n : j \in 1 .. n
    BY <1>0
  <2>5. ASSUME ~(i <= w) PROVE WordAt(gs, p, a, k) = v
    <3>1. \A j \in 1 .. p : j \in 1 .. n
      BY <1>0, <2>1
    <3>2. \A x \in HavingWord(gs, n, a, k) : x \in 1 .. p
      BY <1>0, <1>1, <1>2, <2>1, <2>5
    <3>3. HavingWord(gs, p, a, k) = HavingWord(gs, n, a, k)
      BY <3>1, <3>2 DEF HavingWord
    <3>4. WordAt(gs, p, a, k) = WordFrom(gs, w, a, k) /\ WordAt(gs, n, a, k) = WordFrom(gs, w, a, k)
      BY <1>0, <2>1, <3>3, WordAtIs
    <3> QED BY <3>4
  <2>6. ASSUME NEW b \in Address, hs[i].accounts[b].loaded
        PROVE  /\ ~hs[i].accounts[b].removed
               /\ hs[i].accounts[b].account = AcctAt(hs, p, b)
               /\ \A q \in Key : hs[i].accounts[b].storage[q] # Unset =>
                    hs[i].accounts[b].storage[q] = WordAt(hs, p, b, q)
    <3>1. gs[i].accounts[b].loaded
      BY <1>5, <2>6
    <3>2. ~hs[i].accounts[b].removed /\ hs[i].accounts[b].account = AcctAt(hs, p, b)
      BY <1>5, <2>2, <2>3, <3>1
    <3>3. ASSUME NEW q \in Key, hs[i].accounts[b].storage[q] # Unset
          PROVE  hs[i].accounts[b].storage[q] = WordAt(hs, p, b, q)
      <4>1. CASE b = a /\ q = k /\ ~(i <= w)
        BY <1>6, <2>3, <2>5, <4>1
      <4>2. CASE b = a /\ i <= w
        BY <1>6, <2>2, <2>3, <3>1, <3>3, <4>2
      <4>3. CASE b # a \/ q # k
        BY <1>5, <2>2, <2>3, <3>1, <3>3, <4>3
      <4> QED BY <4>1, <4>2, <4>3
    <3> QED BY <3>2, <3>3
  <2> QED BY <1>4, <2>2, <2>4, <2>6 DEF p
<1>11. RecordFrames(hs)
  <2> SUFFICES ASSUME NEW i \in 1 .. n, NEW b \in Address,
                      hs[i].accounts[b].loaded, ~hs[i].accounts[b].removed,
                      ledger[SM!acctKey(b)] # Absent
               PROVE  hs[i].accounts[b].account = ledger[SM!acctKey(b)] \/ RemovedBelow(hs, i, b)
    BY <1>4 DEF RecordFrames
  <2>1. gs[i].accounts[b].loaded /\ ~gs[i].accounts[b].removed
    BY <1>5
  <2>2. gs[i].accounts[b].account = ledger[SM!acctKey(b)] \/ RemovedBelow(gs, i, b)
    BY <1>0, <2>1 DEF RecordFrames
  <2>3. ASSUME RemovedBelow(gs, i, b) PROVE RemovedBelow(hs, i, b)
    <3>1. \A j \in 1 .. i - 1 : j \in 1 .. n
      BY <1>0
    <3> QED BY <1>5, <2>3, <3>1 DEF RemovedBelow
  <2> QED BY <1>5, <2>1, <2>2, <2>3
<1>12. \A i \in 1 .. Len(gs) : hs[i].err = gs[i].err
  BY <1>4
<1> QED BY <1>4, <1>7, <1>8, <1>9, <1>10, <1>11, <1>12 DEF Good, hs

LEMMA LoadWordGood ==
  ASSUME NEW fs, NEW L, Good(fs, L), LedgerInv, NEW a \in Address, NEW k \in Key
  PROVE  Good(LoadWord(fs, a, k), L) /\ Grows(fs, LoadWord(fs, a, k))
<1> DEFINE gs == Load(fs, a)
<1>1. Good(gs, L) /\ Grows(fs, gs) /\ \A i \in 1 .. Len(fs) : gs[i].accounts[a].loaded
  BY LoadGood
<1>2. Len(gs) = Len(fs)
  BY <1>1 DEF Grows
<1>3. /\ WordLevel(fs, a, k) = Max0(HavingWord(gs, Len(fs), a, k))
      /\ WordIn(fs, a, k) = WordAt(gs, Len(fs), a, k)
  BY WordLevelKept
<1>4. LoadWord(fs, a, k) = Filled(gs, a, k, WordLevel(fs, a, k), WordIn(fs, a, k))
  BY DEF LoadWord, Filled
<1> HIDE DEF gs
<1>5. Good(Filled(gs, a, k, WordLevel(fs, a, k), WordIn(fs, a, k)), L)
      /\ Grows(gs, Filled(gs, a, k, WordLevel(fs, a, k), WordIn(fs, a, k)))
  BY <1>1, <1>2, <1>3, FilledGood
<1>6. Grows(fs, Filled(gs, a, k, WordLevel(fs, a, k), WordIn(fs, a, k)))
  BY <1>1, <1>5, GrowsTwice
<1> QED BY <1>4, <1>5, <1>6

----------------------------------------------------------------------------
(* Calls and returns.                                                      *)

\* A log outside of every static call.
LEMMA LogGood ==
  ASSUME NEW fs, NEW L, Good(fs, L), fs # <<>>, ~fs[Len(fs)].readonly, NEW M
  PROVE  Good(fs, M)
<1>1. fs \in Seq(FrameType) /\ Len(fs) \in Nat /\ StaticFrames(fs, L)
  BY DEF Good
<1>2. \A i \in 1 .. Len(fs) : Len(fs) \in i .. Len(fs)
  BY <1>1
<1>3. \A i \in 1 .. Len(fs) : ~fs[i].readonly
  BY <1>1, <1>2 DEF StaticFrames
<1>4. StaticFrames(fs, M)
  BY <1>3 DEF StaticFrames
<1> QED BY <1>4 DEF Good

LEMMA PopGood ==
  ASSUME NEW fs, NEW L, Good(fs, L), NEW n \in 0 .. Len(fs)
  PROVE  Good(SubSeq(fs, 1, n), L) /\ (CreateFrames(fs) => CreateFrames(SubSeq(fs, 1, n)))
<1> DEFINE gs == SubSeq(fs, 1, n)
<1>0. fs \in Seq(FrameType) /\ Len(fs) \in Nat /\ n \in Nat /\ LoadedDown(fs) /\ StaticFrames(fs, L) /\ RecordFrames(fs)
  BY DEF Good
<1>1. gs \in Seq(FrameType) /\ Len(gs) = n /\ \A i \in 1 .. n : gs[i] = fs[i]
  BY <1>0, Prefix
<1> HIDE DEF gs
<1>2. \A i \in 1 .. n : i \in 1 .. Len(fs)
  BY <1>0
<1>3. ASSUME NEW i \in 1 .. n, NEW a PROVE RemovedBelow(gs, i, a) <=> RemovedBelow(fs, i, a)
  <2>1. \A j \in 1 .. i - 1 : gs[j] = fs[j]
    BY <1>0, <1>1
  <2> QED BY <2>1 DEF RemovedBelow
<1>4. LoadedDown(gs)
  <2> SUFFICES ASSUME NEW i \in 1 .. n, NEW a \in Address, gs[i].accounts[a].loaded
               PROVE  /\ \A j \in 1 .. i : gs[j].accounts[a].loaded
                      /\ gs[i].accounts[a].updated => gs[i].accounts[a].account # Absent
    BY <1>1 DEF LoadedDown
  <2>1. \A j \in 1 .. i : j \in 1 .. n
    BY <1>0
  <2> QED BY <1>0, <1>1, <1>2, <2>1 DEF LoadedDown
<1>5. StaticFrames(gs, L)
  <2> SUFFICES ASSUME NEW i \in 1 .. n, gs[i].readonly
               PROVE  /\ gs[i].mark = L
                      /\ \A j \in i .. n : gs[j].readonly
                      /\ \A a \in Address : gs[i].accounts[a].loaded =>
                           /\ ~gs[i].accounts[a].removed
                           /\ gs[i].accounts[a].account = AcctAt(gs, i - 1, a)
                           /\ \A k \in Key : gs[i].accounts[a].storage[k] # Unset =>
                                gs[i].accounts[a].storage[k] = WordAt(gs, i - 1, a, k)
    BY <1>1 DEF StaticFrames
  <2> DEFINE p == i - 1
  <2>1. /\ fs[i].mark = L
        /\ \A j \in i .. Len(fs) : fs[j].readonly
        /\ \A a \in Address : fs[i].accounts[a].loaded =>
             /\ ~fs[i].accounts[a].removed
             /\ fs[i].accounts[a].account = AcctAt(fs, p, a)
             /\ \A k \in Key : fs[i].accounts[a].storage[k] # Unset =>
                  fs[i].accounts[a].storage[k] = WordAt(fs, p, a, k)
    BY <1>0, <1>1, <1>2 DEF StaticFrames
  <2>2. p \in 0 .. Len(fs) /\ p <= Len(gs) /\ \A j \in 1 .. p : gs[j] = fs[j]
    BY <1>0, <1>1
  <2> HIDE DEF p
  <2>3. ASSUME NEW a \in Address, NEW k
        PROVE  AcctAt(gs, p, a) = AcctAt(fs, p, a) /\ WordAt(gs, p, a, k) = WordAt(fs, p, a, k)
    <3>1. \A j \in 1 .. p : gs[j].accounts[a] = fs[j].accounts[a]
      BY <2>2
    <3> QED BY <1>0, <1>1, <2>2, <3>1, AtLocal
  <2>4. \A j \in i .. n : j \in 1 .. n /\ j \in i .. Len(fs)
    BY <1>0
  <2>5. \A a \in Address : gs[i].accounts[a].loaded =>
             /\ ~gs[i].accounts[a].removed
             /\ gs[i].accounts[a].account = AcctAt(gs, p, a)
             /\ \A k \in Key : gs[i].accounts[a].storage[k] # Unset =>
                  gs[i].accounts[a].storage[k] = WordAt(gs, p, a, k)
    BY <1>1, <2>1, <2>3
  <2> QED BY <1>1, <2>1, <2>4, <2>5 DEF p
<1>6. RecordFrames(gs)
  BY <1>0, <1>1, <1>2, <1>3 DEF RecordFrames
<1>7. CreateFrames(fs) => CreateFrames(gs)
  BY <1>1, <1>2, <1>3 DEF CreateFrames
<1> QED BY <1>1, <1>4, <1>5, <1>6, <1>7 DEF Good, gs

\* A new frame of the call stack has an empty cache.
LEMMA FrameIs ==
  ASSUME NEW c \in Address, NEW cr \in BOOLEAN, NEW ro \in BOOLEAN, Len(logs) \in Nat
  PROVE  /\ Frame(c, cr, ro) \in FrameType
         /\ Frame(c, cr, ro).callee = c /\ Frame(c, cr, ro).create = cr /\ Frame(c, cr, ro).readonly = ro
         /\ ~Frame(c, cr, ro).err /\ Frame(c, cr, ro).mark = Len(logs)
         /\ \A a \in Address : ~Frame(c, cr, ro).accounts[a].loaded
<1>1. ~NotLoaded.loaded
  BY DEF NotLoaded
<1> HIDE DEF NotLoaded
<1>2. [a \in Address |-> NotLoaded] \in [Address -> Infos \cup {NotLoaded}]
  OBVIOUS
<1>3. Frame(c, cr, ro) \in FrameType
  BY <1>2 DEF Frame, FrameType
<1>4. \A a \in Address : Frame(c, cr, ro).accounts[a] = NotLoaded
  BY DEF Frame
<1>5. /\ Frame(c, cr, ro).callee = c /\ Frame(c, cr, ro).create = cr /\ Frame(c, cr, ro).readonly = ro
      /\ ~Frame(c, cr, ro).err /\ Frame(c, cr, ro).mark = Len(logs)
  BY DEF Frame
<1> QED BY <1>1, <1>3, <1>4, <1>5

LEMMA PushGood ==
  ASSUME NEW fs, NEW L, Good(fs, L), NEW f \in FrameType, f.mark = L,
         \A a \in Address : ~f.accounts[a].loaded,
         fs # <<>> /\ fs[Len(fs)].readonly => f.readonly
  PROVE  Good(Append(fs, f), L)
<1> DEFINE gs == Append(fs, f)
           n == Len(fs)
           m == n + 1
<1>0. fs \in Seq(FrameType) /\ n \in Nat /\ LoadedDown(fs) /\ StaticFrames(fs, L) /\ RecordFrames(fs)
  BY DEF Good
<1>1. /\ gs \in Seq(FrameType) /\ Len(gs) = m /\ m \in Nat /\ gs[m] = f
      /\ \A i \in 1 .. n : gs[i] = fs[i]
  BY <1>0
<1> HIDE DEF gs
<1>2. \A i \in 1 .. m : i \in 1 .. n \/ i = m
  BY <1>0
<1>3. ASSUME NEW i \in 1 .. n, NEW a PROVE RemovedBelow(gs, i, a) <=> RemovedBelow(fs, i, a)
  <2>1. \A j \in 1 .. i - 1 : gs[j] = fs[j]
    BY <1>0, <1>1
  <2> QED BY <2>1 DEF RemovedBelow
<1> HIDE DEF m
<1>4. LoadedDown(gs)
  <2> SUFFICES ASSUME NEW i \in 1 .. m, NEW a \in Address, gs[i].accounts[a].loaded
               PROVE  /\ \A j \in 1 .. i : gs[j].accounts[a].loaded
                      /\ gs[i].accounts[a].updated => gs[i].accounts[a].account # Absent
    BY <1>1 DEF LoadedDown
  <2>1. i \in 1 .. n
    BY <1>1, <1>2
  <2>2. \A j \in 1 .. i : j \in 1 .. n
    BY <1>0, <2>1
  <2> QED BY <1>0, <1>1, <2>1, <2>2 DEF LoadedDown
<1>5. StaticFrames(gs, L)
  <2> SUFFICES ASSUME NEW i \in 1 .. m, gs[i].readonly
               PROVE  /\ gs[i].mark = L
                      /\ \A j \in i .. m : gs[j].readonly
                      /\ \A a \in Address : gs[i].accounts[a].loaded =>
                           /\ ~gs[i].accounts[a].removed
                           /\ gs[i].accounts[a].account = AcctAt(gs, i - 1, a)
                           /\ \A k \in Key : gs[i].accounts[a].storage[k] # Unset =>
                                gs[i].accounts[a].storage[k] = WordAt(gs, i - 1, a, k)
    BY <1>1 DEF StaticFrames
  <2>0. CASE i = m
    <3>1. \A j \in i .. m : j = m
      BY <1>1, <2>0
    <3> QED BY <1>1, <2>0, <3>1
  <2>9. CASE i \in 1 .. n
    <3> DEFINE p == i - 1
    <3>1. /\ fs[i].mark = L
          /\ \A j \in i .. n : fs[j].readonly
          /\ \A a \in Address : fs[i].accounts[a].loaded =>
               /\ ~fs[i].accounts[a].removed
               /\ fs[i].accounts[a].account = AcctAt(fs, p, a)
               /\ \A k \in Key : fs[i].accounts[a].storage[k] # Unset =>
                    fs[i].accounts[a].storage[k] = WordAt(fs, p, a, k)
      BY <1>0, <1>1, <2>9 DEF StaticFrames
    <3>2. p \in 0 .. Len(fs) /\ p <= Len(gs) /\ \A j \in 1 .. p : gs[j] = fs[j]
      BY <1>0, <1>1, <2>9 DEF m
    <3> HIDE DEF p
    <3>3. ASSUME NEW a \in Address, NEW k
          PROVE  AcctAt(gs, p, a) = AcctAt(fs, p, a) /\ WordAt(gs, p, a, k) = WordAt(fs, p, a, k)
      <4>1. \A j \in 1 .. p : gs[j].accounts[a] = fs[j].accounts[a]
        BY <3>2
      <4> QED BY <1>0, <1>1, <3>2, <4>1, AtLocal
    <3>4. \A j \in i .. m : (j \in i .. n /\ j \in 1 .. n) \/ j = m
      BY <1>0, <2>9 DEF m
    <3>5. n \in i .. n /\ n # 0
      BY <1>0, <2>9
    <3>6. f.readonly
      BY <1>0, <3>1, <3>5
    <3>7. \A a \in Address : gs[i].accounts[a].loaded =>
               /\ ~gs[i].accounts[a].removed
               /\ gs[i].accounts[a].account = AcctAt(gs, p, a)
               /\ \A k \in Key : gs[i].accounts[a].storage[k] # Unset =>
                    gs[i].accounts[a].storage[k] = WordAt(gs, p, a, k)
      BY <1>1, <2>9, <3>1, <3>3
    <3>8. \A j \in i .. m : gs[j].readonly
      BY <1>1, <3>1, <3>4, <3>6
    <3> QED BY <1>1, <2>9, <3>1, <3>7, <3>8 DEF p
  <2> QED BY <1>2, <2>0, <2>9
<1>6. RecordFrames(gs)
  BY <1>0, <1>1, <1>2, <1>3 DEF RecordFrames
<1> QED BY <1>1, <1>4, <1>5, <1>6 DEF Good, gs

\* Cache.Sync of a cache into the one below.
Changed(c) ==
  {a \in Address : c.accounts[a].loaded /\ (c.accounts[a].removed \/ c.accounts[a].updated)}
Merged(old, new) ==
  IF new.removed THEN [old EXCEPT !.removed = TRUE]
  ELSE [old EXCEPT !.account = new.account, !.updated = TRUE,
                   !.storage = [k \in Key |-> IF new.storage[k] = Unset THEN old.storage[k]
                                              ELSE new.storage[k]]]
MergedFrame(f, c) ==
  [f EXCEPT !.accounts =
     [a \in Address |-> IF a \in Changed(c) THEN Merged(f.accounts[a], c.accounts[a]) ELSE f.accounts[a]]]

LEMMA MergedIs ==
  ASSUME NEW old \in Infos, NEW new \in Infos
  PROVE  /\ Merged(old, new) \in Infos /\ Merged(old, new).loaded
         /\ new.removed => Merged(old, new).removed /\ Merged(old, new).updated = old.updated
                           /\ Merged(old, new).account = old.account
         /\ ~new.removed => /\ Merged(old, new).removed = old.removed
                            /\ Merged(old, new).account = new.account
<1>1. old.storage \in [Key -> Word \cup {Zero, Unset}] /\ new.storage \in [Key -> Word \cup {Zero, Unset}]
  BY DEF Infos
<1> DEFINE st == [k \in Key |-> IF new.storage[k] = Unset THEN old.storage[k] ELSE new.storage[k]]
<1>2. st \in [Key -> Word \cup {Zero, Unset}]
  BY <1>1
<1>3. Merged(old, new) = IF new.removed THEN [old EXCEPT !.removed = TRUE]
                         ELSE [old EXCEPT !.account = new.account, !.updated = TRUE, !.storage = st]
  BY DEF Merged
<1> HIDE DEF st
<1>4. new.account \in Acct \cup {Absent}
  BY DEF Infos
<1>5. CASE new.removed
  BY <1>3, <1>5 DEF Infos
<1>6. CASE ~new.removed
  <2>1. Merged(old, new) = [old EXCEPT !.account = new.account, !.updated = TRUE, !.storage = st]
    BY <1>3, <1>6
  <2>2. PICK na \in Acct \cup {Absent} : na = new.account
    BY <1>4
  <2>3. Merged(old, new) = [old EXCEPT !.account = na, !.updated = TRUE, !.storage = st]
    BY <2>1, <2>2
  <2>4. Merged(old, new) \in Infos /\ Merged(old, new).loaded
        /\ Merged(old, new).removed = old.removed /\ Merged(old, new).account = na
    BY <1>2, <2>3 DEF Infos
  <2> QED BY <1>6, <2>2, <2>4
<1> QED BY <1>5, <1>6

LEMMA SyncedGood ==
  ASSUME NEW fs, NEW L, Good(fs, L), Len(fs) > 1
  PROVE  Good(Synced(fs), L) /\ Grows(SubSeq(fs, 1, Len(fs) - 1), Synced(fs))
<1> DEFINE n == Len(fs)
           m == n - 1
           outer == SubSeq(fs, 1, m)
           c == fs[n]
           f == fs[m]
           g == MergedFrame(f, c)
<1>0. fs \in Seq(FrameType) /\ n \in Nat /\ n \in 1 .. n /\ m \in 1 .. n /\ m \in 1 .. m /\ m \in 0 .. n /\ m \in 1 .. n - 1
      /\ LoadedDown(fs) /\ RecordFrames(fs)
  BY DEF Good
<1>1. /\ outer \in Seq(FrameType) /\ Len(outer) = m /\ \A i \in 1 .. m : outer[i] = fs[i]
  BY <1>0, Prefix
<1>2. Good(outer, L)
  BY <1>0, PopGood
<1>3. outer # <<>> /\ outer[m] = f
  <2>0. Len(<<>>) = 0
    OBVIOUS
  <2>a. \A k \in Nat : \A x \in 1 .. k : x # 0
    OBVIOUS
  <2>1. m # 0
    <3> HIDE DEF m
    <3> QED BY <1>0, <2>a
  <2>2. outer[m] = fs[m]
    BY <1>0, <1>1
  <2> QED BY <1>1, <2>0, <2>1, <2>2
<1>4. c \in FrameType /\ f \in FrameType
      /\ (\A a \in Address : f.accounts[a].loaded => f.accounts[a] \in Infos)
      /\ \A a \in Address : c.accounts[a].loaded => c.accounts[a] \in Infos
  BY <1>0, FrameParts
<1>5. \A a \in Address : c.accounts[a].loaded =>
        f.accounts[a].loaded /\ (c.accounts[a].updated => c.accounts[a].account # Absent)
  <2>1. m \in 1 .. n
    BY <1>0
  <2> QED BY <1>0, <2>1 DEF LoadedDown
<1>6. Synced(fs) = IF c.err THEN Fail(outer) ELSE IF c.readonly THEN outer
                   ELSE IF \E a \in Changed(c) : ~Writable(outer, a) THEN Fail(outer)
                   ELSE SetTop(outer, g)
  <2>1. outer[Len(outer)] = f
    BY <1>1, <1>3
  <2> QED BY <2>1 DEF Synced, Changed, MergedFrame, Merged
<1> HIDE DEF g, c, f, outer
<1>7. Good(Fail(outer), L) /\ Grows(outer, Fail(outer))
  BY <1>2, <1>3, FailGood
<1>8. Grows(outer, outer)
  BY DEF Grows
<1>9. ASSUME \A a \in Changed(c) : Writable(outer, a)
      PROVE  Good(SetTop(outer, g), L) /\ Grows(outer, SetTop(outer, g))
  <2>1. ASSUME NEW a \in Changed(c)
        PROVE  /\ ~f.readonly /\ ~f.accounts[a].removed /\ a \in Address
               /\ f.accounts[a].loaded /\ f.accounts[a] \in Infos
               /\ c.accounts[a].loaded /\ c.accounts[a] \in Infos
               /\ c.accounts[a].removed \/ c.accounts[a].updated
    <3>1. a \in Address /\ c.accounts[a].loaded /\ (c.accounts[a].removed \/ c.accounts[a].updated)
      BY DEF Changed
    <3>2. Writable(outer, a)
      BY <1>9
    <3>3. ~f.readonly /\ ~f.accounts[a].removed
      BY <1>1, <1>3, <3>2 DEF Writable
    <3> QED BY <1>4, <1>5, <3>1, <3>3
  <2> DEFINE acs == [a \in Address |-> IF a \in Changed(c) THEN Merged(f.accounts[a], c.accounts[a]) ELSE f.accounts[a]]
  <2>2. \A a \in Address : /\ a \in Changed(c) => acs[a] = Merged(f.accounts[a], c.accounts[a])
                           /\ a \notin Changed(c) => acs[a] = f.accounts[a]
    OBVIOUS
  <2>3. f.accounts \in [Address -> Infos \cup {NotLoaded}]
    BY <1>4 DEF FrameType
  <2>4. \A a \in Address : acs[a] \in Infos \cup {NotLoaded}
    BY <2>1, <2>2, <2>3, MergedIs
  <2>5. acs \in [Address -> Infos \cup {NotLoaded}]
    BY <2>4
  <2>6. g = [f EXCEPT !.accounts = acs]
    BY DEF g, MergedFrame
  <2> HIDE DEF acs
  <2>7. /\ g \in FrameType /\ g.accounts = acs /\ g.err = f.err
        /\ g.callee = f.callee /\ g.create = f.create /\ g.readonly = f.readonly /\ g.mark = f.mark
    BY <1>4, <2>5, <2>6 DEF FrameType
  <2>8. ASSUME NEW a \in Changed(c)
        PROVE  /\ g.accounts[a].loaded
               /\ g.accounts[a].updated => g.accounts[a].account # Absent
               /\ ~g.accounts[a].removed /\ ledger[SM!acctKey(a)] # Absent =>
                    g.accounts[a].account = ledger[SM!acctKey(a)] \/ RemovedBelow(outer, m, a)
    <3>1. PICK old \in Infos : old = f.accounts[a]
      BY <2>1
    <3>2. PICK new \in Infos : new = c.accounts[a]
      BY <2>1
    <3>3. g.accounts[a] = Merged(old, new) /\ a \in Address
      BY <2>1, <2>2, <2>7, <3>1, <3>2
    <3>4. old.updated => old.account # Absent
      <4>1. f.accounts[a].updated => f.accounts[a].account # Absent
        BY <1>0, <2>1 DEF LoadedDown, f
      <4> QED BY <3>1, <4>1
    <3>5. CASE new.removed
      BY <3>3, <3>4, <3>5, MergedIs
    <3>6. CASE ~new.removed
      <4>1. g.accounts[a].account = new.account /\ g.accounts[a].loaded
        BY <3>3, <3>6, MergedIs
      <4>2. new.account # Absent
        BY <1>5, <2>1, <3>2, <3>3, <3>6
      <4>3. ASSUME ledger[SM!acctKey(a)] # Absent
            PROVE  new.account = ledger[SM!acctKey(a)] \/ RemovedBelow(outer, m, a)
        <5>1. c.accounts[a].account = ledger[SM!acctKey(a)] \/ RemovedBelow(fs, n, a)
          BY <1>0, <2>1, <3>2, <3>3, <3>6, <4>3 DEF RecordFrames, c
        <5>2. ASSUME RemovedBelow(fs, n, a) PROVE RemovedBelow(outer, m, a)
          <6>1. PICK j \in 1 .. n - 1 : fs[j].accounts[a].loaded /\ fs[j].accounts[a].removed
            BY <5>2 DEF RemovedBelow
          <6>2. j # m
            BY <2>1, <6>1 DEF f
          <6>3. j \in 1 .. m - 1 /\ j \in 1 .. m
            BY <1>0, <6>2
          <6> QED BY <1>1, <6>1, <6>3 DEF RemovedBelow
        <5> QED BY <3>2, <5>1, <5>2
      <4> QED BY <4>1, <4>2, <4>3
    <3> QED BY <3>5, <3>6
  <2>9. TopOf(outer, g, L)
    <3>1. ASSUME NEW a \in Address, a \notin Changed(c) PROVE g.accounts[a] = f.accounts[a]
      BY <2>2, <2>7, <3>1
    <3>2. ASSUME NEW a \in Changed(c)
          PROVE  /\ ~f.readonly /\ ~f.accounts[a].removed /\ f.accounts[a].loaded /\ g.accounts[a].loaded
                 /\ g.accounts[a].updated => g.accounts[a].account # Absent
                 /\ ~g.accounts[a].removed /\ ledger[SM!acctKey(a)] # Absent =>
                      g.accounts[a].account = ledger[SM!acctKey(a)] \/ RemovedBelow(outer, m, a)
      BY <2>1, <2>8
    <3> HIDE DEF m
    <3> QED BY <1>1, <1>3, <2>7, <3>1, <3>2 DEF TopOf
  <2> QED BY <1>2, <1>3, <2>9, TopChange
<1>10. Good(Synced(fs), L) /\ Grows(outer, Synced(fs))
  BY <1>2, <1>6, <1>7, <1>8, <1>9
<1> QED BY <1>10 DEF outer

----------------------------------------------------------------------------
(* Steps that leave the ledger alone.                                      *)

\* The caches are judged by the ledger they were filled from.
LEMMA FramesStep ==
  ASSUME ledger' = ledger, NEW gs, gs = frames', NEW L, L = Len(logs'), Good(gs, L), CreateFrames(gs)
  PROVE  Good(frames, Len(logs))' /\ CreateFrames(frames)'
<1>1. LoadedDown(frames)' /\ (frames \in Seq(FrameType))'
  BY DEF Good, LoadedDown
<1>2. RecordFrames(frames)'
  BY DEF Good, RecordFrames, RemovedBelow
<1>3. CreateFrames(frames)'
  BY DEF CreateFrames, RemovedBelow
<1>4. ASSUME NEW p, NEW a
      PROVE  AcctAt(frames, p, a)' = AcctAt(gs, p, a) /\ \A k \in Key : WordAt(frames, p, a, k)' = WordAt(gs, p, a, k)
  BY DEF AcctAt, AcctIn, WordAt, WordIn, SM!LeftPadWord256
<1>5. StaticFrames(frames, Len(logs))'
  <2> SUFFICES ASSUME NEW i \in 1 .. Len(gs), gs[i].readonly
               PROVE  /\ gs[i].mark = L
                      /\ \A j \in i .. Len(gs) : gs[j].readonly
                      /\ \A a \in Address : gs[i].accounts[a].loaded =>
                           /\ ~gs[i].accounts[a].removed
                           /\ gs[i].accounts[a].account = AcctAt(frames, i - 1, a)'
                           /\ \A k \in Key : gs[i].accounts[a].storage[k] # Unset =>
                                gs[i].accounts[a].storage[k] = WordAt(frames, i - 1, a, k)'
    BY DEF StaticFrames
  <2>1. PICK p : p = i - 1
    OBVIOUS
  <2>2. /\ gs[i].mark = L
        /\ \A j \in i .. Len(gs) : gs[j].readonly
        /\ \A a \in Address : gs[i].accounts[a].loaded =>
             /\ ~gs[i].accounts[a].removed
             /\ gs[i].accounts[a].account = AcctAt(gs, p, a)
             /\ \A k \in Key : gs[i].accounts[a].storage[k] # Unset =>
                  gs[i].accounts[a].storage[k] = WordAt(gs, p, a, k)
    BY <2>1 DEF Good, StaticFrames
  <2> QED BY <1>4, <2>1, <2>2
<1> QED BY <1>1, <1>2, <1>3, <1>5 DEF Good

\* A step of the state manager that only reads.
SmRead ==
  /\ UNCHANGED <<ledger, open, writes, cache>>
  /\ reads' \subseteq SM!WorldKey
  /\ ret' \in SM!Replies
  /\ \/ ret' = ret
     \/ ret'.op # "GetStorage"
     \/ ret'.ok => ret'.val = SM!LeftPadWord256(ledger[ret'.key])

LEMMA Reading ==
  ASSUME EInv, SmRead, writes = SM!NoWrites
  PROVE  LedgerInv' /\ WritesInv' /\ ReadsInv'
<1>1. LedgerInv'
  BY DEF EInv, LedgerInv, SmRead, SM!TypeOK
<1>2. WritesInv'
  BY DEF EInv, WritesInv, SmRead
<1>3. ReadsInv'
  BY DEF EInv, ReadsInv, SmRead, SM!LeftPadWord256
<1> QED BY <1>1, <1>2, <1>3

LEMMA KeysIn ==
  ASSUME NEW a \in Address, NEW k \in Key
  PROVE  SM!acctKey(a) \in SM!WorldKey /\ SM!compKey(a, k) \in SM!WorldKey
  BY DEF SM!acctKey, SM!compKey, SM!ToLower, SM!String, SM!WorldKey

LEMMA GetAccountReads ==
  ASSUME EInv, NEW a \in Address, SM!GetAccount(a)
  PROVE  SmRead
<1>0. SM!TypeOK /\ ledger[SM!acctKey(a)] \in Acct \cup {Absent}
  BY DEF EInv, LedgerInv
<1>1. SM!acctKey(a) \in SM!WorldKey
  BY DEF SM!acctKey, SM!ToLower, SM!String, SM!WorldKey
<1>2. UNCHANGED <<ledger, open, writes, cache>>
  BY DEF SM!GetAccount, SM!Failed
<1>3. reads' \subseteq SM!WorldKey
  BY <1>0, <1>1 DEF SM!GetAccount, SM!Failed, SM!TypeOK
<1>4. PICK v \in Acct \cup {Absent}, ok \in BOOLEAN : ret' = SM!Reply("GetAccount", SM!acctKey(a), v, ok)
  BY <1>0 DEF SM!GetAccount, SM!Failed, SM!GetState
<1>5. ret' \in SM!Replies /\ ret'.op = "GetAccount"
  BY <1>1, <1>4 DEF SM!Reply, SM!Replies, SM!Value
<1> QED BY <1>2, <1>3, <1>5 DEF SmRead

\* Without the state manager.
LEMMA NoRead ==
  ASSUME EInv, UNCHANGED sm
  PROVE  SmRead
  BY DEF EInv, LedgerInv, SmRead, sm, SM!TypeOK

LEMMA FetchReads ==
  ASSUME EInv, NEW fs, NEW a \in Address, Fetch(fs, a)
  PROVE  SmRead
  BY GetAccountReads, NoRead DEF Fetch

LEMMA FetchWordReads ==
  ASSUME EInv, cache = SM!EmptyCache, NEW fs, NEW a \in Address, NEW k \in Key, FetchWord(fs, a, k)
  PROVE  SmRead
<1>0. SM!TypeOK /\ ledger[SM!compKey(a, k)] \in Word \cup {Absent}
  BY DEF EInv, LedgerInv
<1>1. SM!compKey(a, k) \in SM!WorldKey
  BY KeysIn
<1>2. CASE UNCHANGED sm
  BY <1>0, <1>2 DEF SmRead, sm, SM!TypeOK
<1>3. CASE SM!GetStorage(a, k) /\ ret'.ok
  <2>0. cache[SM!compKey(a, k)] = Unset
    BY <1>1 DEF SM!EmptyCache
  <2>1. UNCHANGED <<ledger, open, writes, cache>>
    BY <1>3 DEF SM!GetStorage, SM!Failed
  <2>2. reads' \subseteq SM!WorldKey
    BY <1>0, <1>1, <1>3 DEF SM!GetStorage, SM!Failed, SM!TypeOK
  <2>3. ret' = SM!Reply("GetStorage", SM!compKey(a, k), SM!LeftPadWord256(ledger[SM!compKey(a, k)]), TRUE)
    <3>1. ~SM!Reply("GetStorage", SM!compKey(a, k), Zero, FALSE).ok
      BY DEF SM!Reply
    <3> QED BY <1>3, <2>0, <3>1 DEF SM!GetStorage, SM!Failed, SM!GetState
  <2>4. ret' \in SM!Replies
    BY <1>0, <1>1, <2>3 DEF SM!Reply, SM!Replies, SM!Value, SM!LeftPadWord256
  <2>5. ret'.val = SM!LeftPadWord256(ledger[ret'.key])
    BY <2>3 DEF SM!Reply
  <2> QED BY <2>1, <2>2, <2>4, <2>5 DEF SmRead
<1> QED BY <1>2, <1>3 DEF FetchWord

\* A step of the EVM, or from start into it, with the frames it leads to.
LEMMA EvmCloses ==
  ASSUME EInv, phase \in {"start", "evm"}, SmRead,
         phase' \in {"evm", "flush", "done"}, resp' \in {"none", "ok", "error", "panic"},
         kind' = kind, limit' = limit, txs' = txs, minted' \subseteq NewAddr,
         ops' = ops \/ (ops < limit.ops /\ ops' = ops + 1),
         logs' \in Seq([addr : Address, live : BOOLEAN]),
         NEW gs, gs = frames', NEW L, L = Len(logs'), Good(gs, L), CreateFrames(gs),
         Len(gs) <= limit.depth,
         phase' \in {"evm", "flush"} => gs # <<>>,
         phase' = "evm" /\ kind = "deploy" =>
           gs[1].accounts[gs[1].callee].loaded /\ ledger[SM!acctKey(gs[1].callee)] = Absent,
         phase' = "done" /\ resp' = "ok" => gs = <<>>
  PROVE  EInv'
<1>1. writes = SM!NoWrites /\ cache = SM!EmptyCache /\ open
  BY DEF EInv, SyncInv
<1>2. LedgerInv' /\ WritesInv' /\ ReadsInv'
  BY <1>1, Reading
<1>3. ledger' = ledger
  BY DEF SmRead
<1>4. Good(frames, Len(logs))' /\ CreateFrames(frames)'
  BY <1>3, FramesStep
<1>5. FramesInv'
  BY <1>3, <1>4 DEF FramesInv, SM!acctKey, SM!ToLower, SM!String
<1>6. InvokeInv'
  <2>1. limit.ops \in Nat
    BY EvmConstants DEF EInv, InvokeInv
  <2>2. ops' \in Nat /\ ops' <= limit.ops
    BY <2>1 DEF EInv, InvokeInv
  <2> QED BY <2>2 DEF EInv, InvokeInv
<1>7. SyncInv'
  BY <1>1 DEF SyncInv, SmRead, SM!NoWrites, SM!EmptyCache, SM!WorldKey
<1> QED BY <1>2, <1>5, <1>6, <1>7 DEF EInv

\* What holds while the EVM runs.
LEMMA EvmFacts ==
  ASSUME EInv, phase = "evm"
  PROVE  /\ LedgerInv /\ writes = SM!NoWrites /\ cache = SM!EmptyCache
         /\ Good(frames, Len(logs)) /\ CreateFrames(frames)
         /\ frames \in Seq(FrameType) /\ frames # <<>> /\ Len(frames) \in Nat
         /\ Len(frames) \in 1 .. Len(frames) /\ 1 \in 1 .. Len(frames)
         /\ Len(frames) <= limit.depth
         /\ Top = frames[Len(frames)] /\ Top.callee \in Address
         /\ \A i \in 1 .. Len(frames) : frames[i].callee \in Address
         /\ logs \in Seq([addr : Address, live : BOOLEAN]) /\ Len(logs) \in Nat
         /\ minted \subseteq NewAddr
         /\ limit.depth \in Nat
         /\ resp \in {"none", "ok", "error", "panic"}
         /\ kind = "deploy" => /\ frames[1].accounts[frames[1].callee].loaded
                               /\ ledger[SM!acctKey(frames[1].callee)] = Absent
<1>1. Good(frames, Len(logs)) /\ CreateFrames(frames) /\ frames # <<>>
  BY DEF EInv, FramesInv
<1>2. frames \in Seq(FrameType)
  BY <1>1 DEF Good
<1>3. Len(frames) \in Nat /\ Len(frames) \in 1 .. Len(frames) /\ 1 \in 1 .. Len(frames)
  BY <1>1, <1>2
<1>4. \A i \in 1 .. Len(frames) : frames[i].callee \in Address
  BY <1>2, FrameParts
<1>5. limit.depth \in Nat
  BY EvmConstants DEF EInv, InvokeInv
<1>6. logs \in Seq([addr : Address, live : BOOLEAN]) /\ Len(logs) \in Nat
  BY DEF EInv, InvokeInv
<1>7. Top = frames[Len(frames)] /\ Top.callee \in Address
  BY <1>3, <1>4 DEF Top
<1> QED BY <1>1, <1>2, <1>3, <1>4, <1>5, <1>6, <1>7 DEF EInv, FramesInv, SyncInv, InvokeInv

\* A step of the EVM within the frames that are there.
LEMMA EvmGrows ==
  ASSUME EInv, phase = "evm", SmRead,
         phase' \in {"evm", "flush", "done"}, resp' \in {"none", "ok", "error", "panic"},
         phase' = "done" => resp' # "ok",
         kind' = kind, limit' = limit, txs' = txs, minted' \subseteq NewAddr,
         ops' = ops \/ (ops < limit.ops /\ ops' = ops + 1), logs' = logs,
         NEW gs, gs = frames', Good(gs, Len(logs)), Grows(frames, gs)
  PROVE  EInv'
<1> DEFINE L == Len(logs)
<1>0. /\ Good(frames, L) /\ CreateFrames(frames)
      /\ frames \in Seq(FrameType) /\ frames # <<>> /\ Len(frames) \in Nat
      /\ Len(frames) \in 1 .. Len(frames) /\ 1 \in 1 .. Len(frames)
      /\ Len(frames) <= limit.depth
      /\ \A i \in 1 .. Len(frames) : frames[i].callee \in Address
      /\ logs \in Seq([addr : Address, live : BOOLEAN])
      /\ kind = "deploy" => /\ frames[1].accounts[frames[1].callee].loaded
                            /\ ledger[SM!acctKey(frames[1].callee)] = Absent
  BY EvmFacts
<1>1. CreateFrames(gs)
  BY <1>0, GrowsCreates
<1>2. Len(gs) = Len(frames) /\ gs # <<>>
  <2>1. Len(gs) = Len(frames)
    BY DEF Grows
  <2>2. Len(<<>>) = 0
    OBVIOUS
  <2>3. Len(frames) # 0
    BY <1>0
  <2> QED BY <2>1, <2>2, <2>3
<1>3. kind = "deploy" => gs[1].accounts[gs[1].callee].loaded /\ ledger[SM!acctKey(gs[1].callee)] = Absent
  <2>1. gs[1].callee = frames[1].callee
        /\ \A a \in Address : frames[1].accounts[a].loaded => gs[1].accounts[a].loaded
    BY <1>0 DEF Grows
  <2> QED BY <1>0, <2>1
<1>4. L = Len(logs') /\ Good(gs, L)
  OBVIOUS
<1>5. logs' \in Seq([addr : Address, live : BOOLEAN])
  BY <1>0
<1>6. phase \in {"start", "evm"} /\ Len(gs) <= limit.depth
  BY <1>0, <1>2
<1> HIDE DEF L
<1> QED BY <1>1, <1>2, <1>3, <1>4, <1>5, <1>6, EvmCloses

----------------------------------------------------------------------------
(* The EVM's instructions keep the invariant.                              *)

LEMMA SeqParts ==
  ASSUME NEW S, NEW s \in Seq(S)
  PROVE  DOMAIN s = 1 .. Len(s) /\ \A i \in 1 .. Len(s) : s[i] \in S
  OBVIOUS

LEMMA EmptyLen == Len(<<>>) = 0
  OBVIOUS

LEMMA SLOADKeeps ==
  ASSUME EInv, NEW k \in Key, SLOAD(k)
  PROVE  EInv'
<1>1. phase = "evm" /\ ops < limit.ops /\ ops' = ops + 1
  BY DEF SLOAD, Step
<1>2. /\ FetchWord(frames, Top.callee, k) /\ frames' = LoadWord(frames, Top.callee, k)
      /\ kind' = kind /\ txs' = txs /\ limit' = limit /\ minted' = minted
      /\ phase' = phase /\ logs' = logs /\ resp' = resp
  BY DEF SLOAD, EvmUnchanged
<1>3. /\ Good(frames, Len(logs)) /\ LedgerInv /\ Top.callee \in Address
      /\ cache = SM!EmptyCache /\ minted \subseteq NewAddr /\ resp \in {"none", "ok", "error", "panic"}
  BY <1>1, EvmFacts
<1>4. SmRead
  BY <1>2, <1>3, FetchWordReads
<1> DEFINE gs == LoadWord(frames, Top.callee, k)
<1>5. Good(gs, Len(logs)) /\ Grows(frames, gs)
  BY <1>3, LoadWordGood
<1> HIDE DEF gs
<1>6. gs = frames'
  BY <1>2 DEF gs
<1> QED BY <1>1, <1>2, <1>3, <1>4, <1>5, <1>6, EvmGrows

LEMMA SSTOREKeeps ==
  ASSUME EInv, NEW k \in Key, NEW v \in Word \cup {Zero}, SSTORE(k, v)
  PROVE  EInv'
<1> DEFINE a == Top.callee
           fs == Load(frames, a)
           gs == Store(fs, a, k, v)
<1>1. phase = "evm" /\ ops < limit.ops /\ ops' = ops + 1
  BY DEF SSTORE, Step
<1>2. /\ Fetch(frames, a) /\ frames' = gs
      /\ kind' = kind /\ txs' = txs /\ limit' = limit /\ minted' = minted
      /\ phase' = phase /\ logs' = logs /\ resp' = resp
  BY DEF SSTORE, EvmUnchanged
<1>3. /\ Good(frames, Len(logs)) /\ LedgerInv /\ a \in Address /\ frames # <<>>
      /\ Len(frames) \in 1 .. Len(frames)
      /\ minted \subseteq NewAddr /\ resp \in {"none", "ok", "error", "panic"}
  BY <1>1, EvmFacts
<1> HIDE DEF a
<1>4. SmRead
  BY <1>2, <1>3, FetchReads
<1>5. Good(fs, Len(logs)) /\ Grows(frames, fs) /\ fs[Len(frames)].accounts[a].loaded
  BY <1>3, LoadGood
<1>6. Len(fs) = Len(frames)
  BY <1>5 DEF Grows
<1>7. fs # <<>>
  <2>1. Len(<<>>) = 0 /\ Len(frames) # 0
    BY <1>3
  <2> QED BY <1>6, <2>1
<1> HIDE DEF fs
<1>8. Good(gs, Len(logs)) /\ Grows(fs, gs)
  BY <1>3, <1>5, <1>6, <1>7, StoreGood
<1>9. Grows(frames, gs)
  BY <1>5, <1>8, GrowsTwice
<1> HIDE DEF gs
<1> QED BY <1>1, <1>2, <1>3, <1>4, <1>8, <1>9, EvmGrows

LEMMA LOGKeeps ==
  ASSUME EInv, LOG
  PROVE  EInv'
<1>1. phase = "evm" /\ ops < limit.ops /\ ops' = ops + 1
  BY DEF LOG, Step
<1>2. /\ UNCHANGED sm
      /\ kind' = kind /\ txs' = txs /\ limit' = limit /\ minted' = minted
      /\ phase' = phase /\ resp' = resp
  BY DEF LOG, EvmUnchanged
<1>3. /\ Good(frames, Len(logs)) /\ CreateFrames(frames) /\ frames # <<>>
      /\ Top = frames[Len(frames)] /\ Top.callee \in Address
      /\ minted \subseteq NewAddr /\ resp \in {"none", "ok", "error", "panic"}
      /\ Len(frames) <= limit.depth
      /\ logs \in Seq([addr : Address, live : BOOLEAN]) /\ Len(logs) \in Nat
      /\ kind = "deploy" => /\ frames[1].accounts[frames[1].callee].loaded
                            /\ ledger[SM!acctKey(frames[1].callee)] = Absent
  BY <1>1, EvmFacts
<1>4. SmRead
  BY <1>2, NoRead
<1>5. CASE Top.readonly
  <2>1. frames' = Fail(frames) /\ logs' = logs
    BY <1>5 DEF LOG
  <2> DEFINE gs == Fail(frames)
  <2>2. Good(gs, Len(logs)) /\ Grows(frames, gs)
    BY <1>3, FailGood
  <2>3. gs = frames'
    BY <2>1
  <2> HIDE DEF gs
  <2> QED BY <1>1, <1>2, <1>3, <1>4, <2>1, <2>2, <2>3, EvmGrows
<1>6. CASE ~Top.readonly
  <2>1. logs' = Append(logs, [addr |-> Top.callee, live |-> TRUE]) /\ frames' = frames
    BY <1>6 DEF LOG
  <2>2. logs' \in Seq([addr : Address, live : BOOLEAN])
    <3>1. [addr |-> Top.callee, live |-> TRUE] \in [addr : Address, live : BOOLEAN]
      BY <1>3
    <3> HIDE DEF Top
    <3> QED BY <1>3, <2>1, <3>1
  <2>3. PICK L : L = Len(logs')
    OBVIOUS
  <2>4. Good(frames, L)
    BY <1>3, <1>6, LogGood
  <2>5. frames = frames' /\ phase \in {"start", "evm"}
    BY <1>1, <2>1
  <2> QED BY <1>1, <1>2, <1>3, <1>4, <2>2, <2>3, <2>4, <2>5, EvmCloses
<1> QED BY <1>5, <1>6

LEMMA RevertKeeps ==
  ASSUME EInv, Revert
  PROVE  EInv'
<1>1. /\ phase = "evm" /\ frames' = Fail(frames)
      /\ UNCHANGED sm /\ ops' = ops /\ logs' = logs
      /\ kind' = kind /\ txs' = txs /\ limit' = limit /\ minted' = minted
      /\ phase' = phase /\ resp' = resp
  BY DEF Revert, EvmUnchanged
<1>2. /\ Good(frames, Len(logs)) /\ frames # <<>>
      /\ minted \subseteq NewAddr /\ resp \in {"none", "ok", "error", "panic"}
  BY <1>1, EvmFacts
<1>3. SmRead
  BY <1>1, NoRead
<1> DEFINE gs == Fail(frames)
<1>4. Good(gs, Len(logs)) /\ Grows(frames, gs)
  BY <1>2, FailGood
<1>5. gs = frames'
  BY <1>1
<1> HIDE DEF gs
<1> QED BY <1>1, <1>2, <1>3, <1>4, <1>5, EvmGrows

LEMMA UnwindKeeps ==
  ASSUME EInv, Unwind
  PROVE  EInv'
<1>1. /\ phase = "evm"
      /\ UNCHANGED sm /\ ops' = ops
      /\ kind' = kind /\ txs' = txs /\ limit' = limit /\ minted' = minted
      /\ logs' = [i \in DOMAIN logs |-> IF i > Top.mark THEN [logs[i] EXCEPT !.live = FALSE] ELSE logs[i]]
  BY DEF Unwind, EvmUnchanged
<1>2. /\ Good(frames, Len(logs)) /\ CreateFrames(frames) /\ frames # <<>> /\ frames \in Seq(FrameType)
      /\ Len(frames) \in Nat /\ limit.depth \in Nat
      /\ minted \subseteq NewAddr /\ resp \in {"none", "ok", "error", "panic"}
      /\ Len(frames) <= limit.depth
      /\ logs \in Seq([addr : Address, live : BOOLEAN]) /\ Len(logs) \in Nat
      /\ kind = "deploy" => /\ frames[1].accounts[frames[1].callee].loaded
                            /\ ledger[SM!acctKey(frames[1].callee)] = Absent
  BY <1>1, EvmFacts
<1>3. SmRead
  BY <1>1, NoRead
<1>4. logs' \in Seq([addr : Address, live : BOOLEAN]) /\ Len(logs') = Len(logs)
  <2>1. DOMAIN logs = 1 .. Len(logs) /\ \A i \in 1 .. Len(logs) : logs[i] \in [addr : Address, live : BOOLEAN]
    BY <1>2, SeqParts
  <2> DEFINE row(i) == IF i > Top.mark THEN [logs[i] EXCEPT !.live = FALSE] ELSE logs[i]
  <2>2. \A i \in 1 .. Len(logs) : row(i) \in [addr : Address, live : BOOLEAN]
    BY <2>1
  <2>3. logs' = [i \in 1 .. Len(logs) |-> row(i)]
    BY <1>1, <2>1
  <2> HIDE DEF row
  <2>4. logs' = [i \in 1 .. Len(logs) |-> logs'[i]] /\ \A i \in 1 .. Len(logs) : logs'[i] \in [addr : Address, live : BOOLEAN]
    BY <2>2, <2>3
  <2> QED BY <1>2, <2>4, FunctionIsSeq
<1>5. PICK L : L = Len(logs') /\ L = Len(logs)
  BY <1>4
<1>6. CASE Len(frames) > 1 /\ frames' = SubSeq(frames, 1, Len(frames) - 1) /\ UNCHANGED <<phase, resp>>
  <2> DEFINE n == Len(frames) - 1
             gs == SubSeq(frames, 1, n)
  <2>1. n \in 0 .. Len(frames) /\ n \in Nat /\ 1 \in 1 .. n /\ n <= Len(frames)
    BY <1>2, <1>6
  <2>2. Good(gs, L) /\ CreateFrames(gs)
    BY <1>2, <1>5, <2>1, PopGood
  <2>3. Len(gs) = n /\ gs[1] = frames[1]
    BY <1>2, <2>1, Prefix
  <2>4. gs # <<>>
    <3>1. \A q \in Nat : 1 \in 1 .. q => q # 0
      OBVIOUS
    <3> HIDE DEF gs, n
    <3> QED BY <2>1, <2>3, <3>1, EmptyLen
  <2>5. Len(gs) <= limit.depth
    <3> HIDE DEF gs
    <3> QED BY <1>2, <2>1, <2>3
  <2>6. gs = frames' /\ phase \in {"start", "evm"} /\ phase' = "evm" /\ resp' = resp
    BY <1>1, <1>6
  <2>7. kind = "deploy" => gs[1].accounts[gs[1].callee].loaded /\ ledger[SM!acctKey(gs[1].callee)] = Absent
    BY <1>2, <2>3
  <2> HIDE DEF gs
  <2> QED BY <1>1, <1>2, <1>3, <1>4, <1>5, <2>2, <2>4, <2>5, <2>6, <2>7, EvmCloses
<1>7. CASE Len(frames) = 1 /\ Respond("error") /\ UNCHANGED frames
  <2>1. frames = frames' /\ phase \in {"start", "evm"} /\ phase' = "done" /\ resp' = "error"
    BY <1>1, <1>7 DEF Respond
  <2> QED BY <1>1, <1>2, <1>3, <1>4, <1>5, <2>1, EvmCloses
<1> QED BY <1>6, <1>7 DEF Unwind

\* A call or a creation puts a frame on top.
LEMMA PushCloses ==
  ASSUME EInv, phase = "evm", SmRead,
         phase' = phase, resp' = resp, kind' = kind, limit' = limit, txs' = txs,
         minted' \subseteq NewAddr, ops < limit.ops, ops' = ops + 1, logs' = logs,
         Len(frames) < limit.depth,
         NEW gs, gs = frames', Good(gs, Len(logs)), CreateFrames(gs), Len(gs) = Len(frames) + 1,
         gs[1].callee = frames[1].callee,
         \A a \in Address : frames[1].accounts[a].loaded => gs[1].accounts[a].loaded
  PROVE  EInv'
<1>1. /\ frames # <<>> /\ Len(frames) \in Nat /\ 1 \in 1 .. Len(frames)
      /\ \A i \in 1 .. Len(frames) : frames[i].callee \in Address
      /\ logs \in Seq([addr : Address, live : BOOLEAN]) /\ limit.depth \in Nat
      /\ resp \in {"none", "ok", "error", "panic"}
      /\ kind = "deploy" => /\ frames[1].accounts[frames[1].callee].loaded
                            /\ ledger[SM!acctKey(frames[1].callee)] = Absent
  BY EvmFacts
<1>2. Len(gs) <= limit.depth /\ Len(gs) # 0
  BY <1>1
<1>3. gs # <<>>
  BY <1>2, EmptyLen
<1>4. kind = "deploy" => gs[1].accounts[gs[1].callee].loaded /\ ledger[SM!acctKey(gs[1].callee)] = Absent
  BY <1>1
<1>5. PICK L : L = Len(logs') /\ L = Len(logs)
  OBVIOUS
<1>6. phase \in {"start", "evm"} /\ phase' = "evm" /\ logs' \in Seq([addr : Address, live : BOOLEAN])
  BY <1>1
<1> QED BY <1>1, <1>2, <1>3, <1>4, <1>5, <1>6, EvmCloses

LEMMA CALLKeeps ==
  ASSUME EInv, NEW op \in {"CALL", "DELEGATECALL", "STATICCALL"}, NEW t \in Address, CALL(op, t)
  PROVE  EInv'
<1> DEFINE fs == Load(frames, t)
           acc == AcctIn(fs, t)
           callee == IF op = "DELEGATECALL" THEN Top.callee ELSE t
           ro == Top.readonly \/ op = "STATICCALL"
           L == Len(logs)
<1>1. /\ phase = "evm" /\ ops < limit.ops /\ ops' = ops + 1
      /\ Len(frames) < limit.depth
      /\ IF Permitted THEN Fetch(frames, t) ELSE UNCHANGED sm
      /\ kind' = kind /\ txs' = txs /\ limit' = limit /\ minted' = minted
      /\ phase' = phase /\ logs' = logs /\ resp' = resp
  BY DEF CALL, EvmUnchanged, Step
<1>2. frames' = IF ~Permitted THEN Fail(frames)
                ELSE IF acc = Absent THEN Fail(fs)
                ELSE IF acc.code = NoCode THEN fs
                ELSE Append(fs, Frame(callee, FALSE, ro))
  BY DEF CALL
<1>3. /\ Good(frames, L) /\ CreateFrames(frames) /\ LedgerInv /\ frames # <<>> /\ frames \in Seq(FrameType)
      /\ Len(frames) \in Nat /\ Len(frames) \in 1 .. Len(frames) /\ 1 \in 1 .. Len(frames)
      /\ Top = frames[Len(frames)] /\ Top.callee \in Address
      /\ L \in Nat /\ minted \subseteq NewAddr /\ resp \in {"none", "ok", "error", "panic"}
  BY <1>1, EvmFacts
<1>4. SmRead
  BY <1>1, FetchReads, NoRead
<1>5. Good(fs, L) /\ Grows(frames, fs)
  BY <1>3, LoadGood
<1>6. Len(fs) = Len(frames) /\ fs \in Seq(FrameType)
      /\ fs[Len(frames)].readonly = Top.readonly /\ fs[1].callee = frames[1].callee
      /\ \A a \in Address : frames[1].accounts[a].loaded => fs[1].accounts[a].loaded
  BY <1>3, <1>5 DEF Grows, Good
<1>7. fs # <<>>
  <2>1. Len(frames) # 0
    BY <1>3
  <2> QED BY <1>6, <2>1, EmptyLen
<1> HIDE DEF fs
<1>8. CASE frames' = Fail(frames)
  <2>1. Good(Fail(frames), L) /\ Grows(frames, Fail(frames))
    BY <1>3, FailGood
  <2> QED BY <1>1, <1>3, <1>4, <1>8, <2>1, EvmGrows
<1>9. CASE frames' = Fail(fs)
  <2>1. Good(Fail(fs), L) /\ Grows(fs, Fail(fs))
    BY <1>5, <1>7, FailGood
  <2>2. Grows(frames, Fail(fs))
    BY <1>5, <2>1, GrowsTwice
  <2> QED BY <1>1, <1>3, <1>4, <1>9, <2>1, <2>2, EvmGrows
<1>10. CASE frames' = fs
  BY <1>1, <1>3, <1>4, <1>5, <1>10, EvmGrows
<1>11. CASE frames' = Append(fs, Frame(callee, FALSE, ro))
  <2>1. callee \in Address
    BY <1>3
  <2>2. ro = TRUE \/ ro = FALSE
    <3>1. frames[Len(frames)] \in FrameType
      BY <1>3, FrameParts
    <3>2. Top.readonly \in BOOLEAN
      BY <1>3, <3>1 DEF FrameType
    <3> QED BY <3>2
  <2>3. Top.readonly => ro
    OBVIOUS
  <2> HIDE DEF callee, ro
  <2>4. /\ Frame(callee, FALSE, ro) \in FrameType
        /\ Frame(callee, FALSE, ro).create = FALSE /\ Frame(callee, FALSE, ro).readonly = ro
        /\ Frame(callee, FALSE, ro).mark = L
        /\ \A a \in Address : ~Frame(callee, FALSE, ro).accounts[a].loaded
    BY <1>3, <2>1, <2>2, FrameIs
  <2> DEFINE f == Frame(callee, FALSE, ro)
             gs == Append(fs, f)
  <2> HIDE DEF f
  <2>5. Good(gs, L)
    BY <1>5, <1>6, <2>3, <2>4, PushGood DEF f
  <2>6. /\ Len(gs) = Len(frames) + 1 /\ gs[Len(frames) + 1] = f
        /\ \A i \in 1 .. Len(frames) : gs[i] = fs[i]
    <3>1. f \in FrameType
      BY <2>4 DEF f
    <3> QED BY <1>3, <1>6, <3>1
  <2> HIDE DEF gs
  <2>7. CreateFrames(gs)
    <3>1. CreateFrames(fs)
      BY <1>3, <1>5, GrowsCreates
    <3> SUFFICES ASSUME NEW i \in 1 .. Len(gs), gs[i].create /\ ~gs[i].err
                 PROVE  /\ gs[i].accounts[gs[i].callee].loaded
                        /\ ledger[SM!acctKey(gs[i].callee)] = Absent \/ RemovedBelow(gs, i, gs[i].callee)
      BY DEF CreateFrames
    <3>2. i # Len(frames) + 1
      BY <2>4, <2>6 DEF f
    <3>3. i \in 1 .. Len(frames)
      BY <1>3, <2>6, <3>2
    <3>4. \A j \in 1 .. i - 1 : gs[j] = fs[j]
      BY <1>3, <2>6, <3>3
    <3> QED BY <1>6, <2>6, <3>1, <3>3, <3>4 DEF CreateFrames, RemovedBelow
  <2>8. gs[1] = fs[1]
    BY <1>3, <2>6
  <2>9. gs = frames'
    BY <1>11 DEF gs, f
  <2> QED BY <1>1, <1>3, <1>4, <1>6, <2>5, <2>6, <2>7, <2>8, <2>9, PushCloses
<1> QED BY <1>2, <1>8, <1>9, <1>10, <1>11

LEMMA CreatingKeeps ==
  ASSUME EInv, NEW a \in Address, Creating(a), minted' \subseteq NewAddr
  PROVE  EInv'
<1> DEFINE f == Frame(a, TRUE, Top.readonly)
           ps == Append(frames, f)
           fs == Load(ps, a)
           gs == CreateAccount(fs, a)
           n == Len(frames)
           L == Len(logs)
<1>1. /\ phase = "evm" /\ ops < limit.ops /\ ops' = ops + 1
      /\ n < limit.depth
      /\ IF Permitted THEN Fetch(ps, a) ELSE UNCHANGED sm
      /\ kind' = kind /\ txs' = txs /\ limit' = limit
      /\ phase' = phase /\ logs' = logs /\ resp' = resp
      /\ frames' = IF Permitted THEN gs ELSE Fail(frames)
  BY DEF Creating, EvmUnchanged, Step
<1>2. /\ Good(frames, L) /\ CreateFrames(frames) /\ LedgerInv /\ frames # <<>> /\ frames \in Seq(FrameType)
      /\ n \in Nat /\ n \in 1 .. n /\ 1 \in 1 .. n
      /\ Top = frames[n] /\ Top.callee \in Address
      /\ L \in Nat /\ resp \in {"none", "ok", "error", "panic"}
  BY <1>1, EvmFacts
<1>3. SmRead
  BY <1>1, FetchReads, NoRead
<1>4. Top.readonly \in BOOLEAN
  <2>1. frames[n] \in FrameType
    BY <1>2, FrameParts
  <2> QED BY <1>2, <2>1 DEF FrameType
<1>5. f \in FrameType /\ f.mark = L /\ f.create /\ f.callee = a /\ f.readonly = Top.readonly
      /\ \A b \in Address : ~f.accounts[b].loaded
  BY <1>2, <1>4, FrameIs
<1> HIDE DEF f, gs
<1>6. Good(ps, L)
  BY <1>2, <1>5, PushGood
<1>7. /\ Len(ps) = n + 1 /\ ps[n + 1] = f /\ \A i \in 1 .. n : ps[i] = frames[i]
  BY <1>2, <1>5
<1> HIDE DEF ps, fs
<1>8. Good(fs, L) /\ Grows(ps, fs) /\ \A i \in 1 .. Len(ps) : fs[i].accounts[a].loaded
  BY <1>2, <1>6, LoadGood DEF fs
<1> DEFINE m == n + 1
<1>9. m \in 1 .. m /\ m \in Nat /\ 1 \in 1 .. m /\ m # 0 /\ (\A i \in 1 .. m : i \in 1 .. n \/ i = m) /\ \A i \in 1 .. n : i \in 1 .. m
  BY <1>2
<1>10. Len(ps) = m /\ ps[m] = f
  BY <1>7
<1> HIDE DEF m
<1>11. Len(fs) = m /\ fs # <<>> /\ fs[m].accounts[a].loaded
  BY <1>8, <1>9, <1>10, EmptyLen DEF Grows
<1>12. /\ Good(gs, L) /\ Grows(fs, gs)
       /\ \/ gs[m].err
          \/ ledger[SM!acctKey(a)] = Absent \/ RemovedBelow(fs, m, a)
  BY <1>8, <1>11, CreateGood DEF gs
<1>13. Grows(ps, gs)
  BY <1>8, <1>12, GrowsTwice
<1>14. ps \in Seq(FrameType)
  BY <1>6 DEF Good
<1>15. CreateFrames(gs)
  <2> SUFFICES ASSUME NEW i \in 1 .. Len(gs), gs[i].create /\ ~gs[i].err
               PROVE  /\ gs[i].accounts[gs[i].callee].loaded
                      /\ ledger[SM!acctKey(gs[i].callee)] = Absent \/ RemovedBelow(gs, i, gs[i].callee)
    BY DEF CreateFrames
  <2>1. i \in 1 .. m
    BY <1>10, <1>13 DEF Grows
  <2>2. CASE i = m
    <3>1. gs[m].callee = a
      BY <1>5, <1>9, <1>10, <1>13 DEF Grows
    <3>2. gs[m].accounts[a].loaded
      BY <1>9, <1>11, <1>12 DEF Grows
    <3>3. ASSUME RemovedBelow(fs, m, a) PROVE RemovedBelow(gs, m, a)
      <4>1. PICK j \in 1 .. m - 1 : fs[j].accounts[a].loaded /\ fs[j].accounts[a].removed
        BY <3>3 DEF RemovedBelow
      <4>2. j \in 1 .. m
        BY <1>9
      <4>3. gs[j].accounts[a].loaded /\ gs[j].accounts[a].removed
        BY <1>11, <1>12, <4>1, <4>2 DEF Grows
      <4> QED BY <4>1, <4>3 DEF RemovedBelow
    <3> QED BY <1>12, <2>2, <3>1, <3>2, <3>3
  <2>3. CASE i \in 1 .. n
    <3> DEFINE b == frames[i].callee
    <3>0. /\ gs[i].callee = ps[i].callee /\ gs[i].create = ps[i].create
          /\ ps[i].err => gs[i].err
      BY <1>10, <1>13, <2>1 DEF Grows
    <3>1. gs[i].callee = b /\ frames[i].create /\ ~frames[i].err
      BY <1>7, <2>3, <3>0
    <3>2. b \in Address
      BY <1>2, <2>3, FrameParts
    <3>3. frames[i].accounts[b].loaded /\ (ledger[SM!acctKey(b)] = Absent \/ RemovedBelow(frames, i, b))
      BY <1>2, <2>3, <3>1 DEF CreateFrames
    <3> HIDE DEF b
    <3>4. gs[i].accounts[b].loaded
      BY <1>7, <1>10, <1>13, <2>1, <2>3, <3>2, <3>3 DEF Grows
    <3>5. ASSUME RemovedBelow(frames, i, b) PROVE RemovedBelow(gs, i, b)
      <4>1. PICK j \in 1 .. i - 1 : frames[j].accounts[b].loaded /\ frames[j].accounts[b].removed
        BY <3>5 DEF RemovedBelow
      <4>2. j \in 1 .. n
        BY <1>2, <2>3
      <4>3. j \in 1 .. m /\ ps[j] = frames[j]
        BY <1>7, <1>9, <4>2
      <4>4. gs[j].accounts[b].loaded /\ gs[j].accounts[b].removed
        BY <1>10, <1>13, <3>2, <4>1, <4>3 DEF Grows
      <4> QED BY <4>1, <4>4 DEF RemovedBelow
    <3> QED BY <3>1, <3>3, <3>4, <3>5
  <2> QED BY <1>9, <2>1, <2>2, <2>3
<1>16. CASE Permitted
  <2>1. gs = frames'
    BY <1>1, <1>16
  <2>2. Len(gs) = n + 1
    BY <1>7, <1>13 DEF Grows
  <2>3. gs[1].callee = frames[1].callee /\ \A b \in Address : frames[1].accounts[b].loaded => gs[1].accounts[b].loaded
    BY <1>2, <1>7, <1>9, <1>10, <1>13 DEF Grows
  <2> QED BY <1>1, <1>2, <1>3, <1>12, <1>15, <2>1, <2>2, <2>3, PushCloses
<1>17. CASE ~Permitted
  <2>1. Good(Fail(frames), L) /\ Grows(frames, Fail(frames)) /\ frames' = Fail(frames)
    BY <1>1, <1>2, <1>17, FailGood
  <2> QED BY <1>1, <1>2, <1>3, <2>1, EvmGrows
<1> QED BY <1>16, <1>17

LEMMA CREATEKeeps ==
  ASSUME EInv, NEW a \in NewAddr, CREATE(a)
  PROVE  EInv'
<1>1. minted' \subseteq NewAddr /\ a \in Address
  BY EvmConstants DEF CREATE, EInv, InvokeInv
<1> QED BY <1>1, CreatingKeeps DEF CREATE

LEMMA CREATE2Keeps ==
  ASSUME EInv, CREATE2
  PROVE  EInv'
<1>1. minted' \subseteq NewAddr /\ Create2Addr[Top.callee] \in Address
  BY EvmConstants DEF CREATE2, EInv, InvokeInv
<1> QED BY <1>1, CreatingKeeps DEF CREATE2

\* The innermost call returns from frames that a step may have grown.
LEMMA ReturningKeeps ==
  ASSUME EInv, phase = "evm", SmRead,
         kind' = kind, limit' = limit, txs' = txs, minted' = minted, logs' = logs,
         ops' = ops \/ (ops < limit.ops /\ ops' = ops + 1),
         NEW fs, Good(fs, Len(logs)), Grows(frames, fs), ~fs[Len(fs)].err,
         NEW out \in Code \cup {NoCode, Absent}, Returning(fs, out)
  PROVE  EInv'
<1> DEFINE L == Len(logs)
           n == Len(fs)
           c == fs[n].callee
           word == IF out = Absent THEN NoCode ELSE out
           coded == IF fs[n].create THEN InitCode(fs, c, word) ELSE fs
           deployed == IF out = Absent THEN Fail(fs) ELSE InitCode(fs, fs[1].callee, out)
<1>0. /\ CreateFrames(frames) /\ frames # <<>> /\ frames \in Seq(FrameType)
      /\ Len(frames) \in Nat /\ Len(frames) \in 1 .. Len(frames) /\ 1 \in 1 .. Len(frames)
      /\ Len(frames) <= limit.depth /\ limit.depth \in Nat
      /\ minted \subseteq NewAddr /\ resp \in {"none", "ok", "error", "panic"}
      /\ logs \in Seq([addr : Address, live : BOOLEAN])
      /\ \A i \in 1 .. Len(frames) : frames[i].callee \in Address
      /\ kind = "deploy" => /\ frames[1].accounts[frames[1].callee].loaded
                            /\ ledger[SM!acctKey(frames[1].callee)] = Absent
  BY EvmFacts
<1>1. n = Len(frames) /\ fs \in Seq(FrameType) /\ CreateFrames(fs)
  BY <1>0, GrowsCreates DEF Grows, Good
<1>2. fs # <<>> /\ n \in Nat /\ n \in 1 .. n /\ 1 \in 1 .. n /\ n <= limit.depth
  <2>1. Len(frames) # 0
    BY <1>0
  <2> HIDE DEF n
  <2>2. fs # <<>>
    <3>1. Len(fs) = n
      BY DEF n
    <3> QED BY <1>1, <2>1, <3>1, EmptyLen
  <2> QED BY <1>0, <1>1, <2>2
<1>3. (\/ /\ n > 1 /\ frames' = Synced(coded) /\ UNCHANGED <<phase, rtCode, resp>>
       \/ /\ n = 1 /\ kind = "deploy" /\ frames' = deployed
          /\ IF deployed[1].err THEN Respond("error") ELSE phase' = "flush" /\ UNCHANGED resp
       \/ /\ n = 1 /\ kind = "invoke" /\ frames' = fs /\ phase' = "flush" /\ UNCHANGED resp)
  BY DEF Returning
<1>4. word \in Code \cup {NoCode} /\ c \in Address
  BY <1>1, <1>2, FrameParts
<1> HIDE DEF word, c, n, coded, deployed
<1>5. Good(coded, L) /\ Grows(fs, coded)
  <2>1. CASE fs[n].create
    <3>1. fs[n].accounts[c].loaded /\ (ledger[SM!acctKey(c)] = Absent \/ RemovedBelow(fs, n, c))
      BY <1>1, <1>2, <2>1 DEF CreateFrames, c, n
    <3>2. Good(InitCode(fs, c, word), L) /\ Grows(fs, InitCode(fs, c, word))
      BY <1>2, <1>4, <3>1, InitCodeGood DEF n
    <3> QED BY <2>1, <3>2 DEF coded
  <2>2. CASE ~fs[n].create
    <3>1. Grows(fs, fs)
      BY DEF Grows
    <3> QED BY <2>2, <3>1 DEF coded
  <2> QED BY <2>1, <2>2
<1>6. CASE n > 1 /\ frames' = Synced(coded) /\ UNCHANGED <<phase, rtCode, resp>>
  <2>1. Len(coded) = n /\ coded \in Seq(FrameType)
    BY <1>5 DEF Grows, Good, n
  <2> DEFINE m == n - 1
             outer == SubSeq(coded, 1, m)
             gs == Synced(coded)
  <2>2. m \in Nat /\ m \in 0 .. n /\ 1 \in 1 .. m /\ m # 0 /\ m <= limit.depth /\ \A i \in 1 .. m : i \in 1 .. n
    BY <1>0, <1>2, <1>6
  <2>3. CreateFrames(coded)
    BY <1>1, <1>5, GrowsCreates
  <2>4. Good(outer, L) /\ CreateFrames(outer)
    BY <1>5, <2>1, <2>2, <2>3, PopGood
  <2>5. Len(outer) = m /\ outer[1] = coded[1] /\ outer \in Seq(FrameType)
    BY <2>1, <2>2, Prefix
  <2>6. Good(gs, L) /\ Grows(outer, gs)
    BY <1>5, <1>6, <2>1, SyncedGood
  <2> HIDE DEF outer, gs, m
  <2>7. CreateFrames(gs)
    BY <2>4, <2>5, <2>6, GrowsCreates
  <2>8. Len(gs) = m /\ gs # <<>>
    BY <2>2, <2>5, <2>6, EmptyLen DEF Grows
  <2>9. Grows(frames, coded)
    BY <1>5, GrowsTwice
  <2>10. /\ gs[1].callee = frames[1].callee
         /\ \A b \in Address : frames[1].accounts[b].loaded => gs[1].accounts[b].loaded
    <3>1. /\ coded[1].callee = frames[1].callee
          /\ \A b \in Address : frames[1].accounts[b].loaded => coded[1].accounts[b].loaded
      BY <1>0, <2>9 DEF Grows
    <3>2. 1 \in 1 .. Len(outer)
      BY <2>2, <2>5
    <3>3. /\ gs[1].callee = outer[1].callee
          /\ \A b \in Address : outer[1].accounts[b].loaded => gs[1].accounts[b].loaded
      BY <2>6, <3>2 DEF Grows
    <3> QED BY <2>5, <3>1, <3>3
  <2>11. kind = "deploy" => gs[1].accounts[gs[1].callee].loaded /\ ledger[SM!acctKey(gs[1].callee)] = Absent
    BY <1>0, <2>10
  <2>12. gs = frames' /\ phase' = "evm" /\ resp' = resp /\ phase \in {"start", "evm"}
    BY <1>6 DEF gs
  <2>13. PICK q : q = Len(logs') /\ q = L
    OBVIOUS
  <2>14. Len(gs) <= limit.depth
    BY <2>2, <2>8
  <2>15. logs' \in Seq([addr : Address, live : BOOLEAN]) /\ Good(gs, q)
    BY <1>0, <2>6, <2>13
  <2> QED BY <1>0, <2>7, <2>8, <2>11, <2>12, <2>13, <2>14, <2>15, EvmCloses
<1>7. CASE /\ n = 1 /\ kind = "deploy" /\ frames' = deployed
           /\ IF deployed[1].err THEN Respond("error") ELSE phase' = "flush" /\ UNCHANGED resp
  <2>1. fs[1].callee = frames[1].callee /\ fs[1].accounts[fs[1].callee].loaded
    BY <1>0, <1>7 DEF Grows
  <2>2. fs[1].callee \in Address /\ ledger[SM!acctKey(fs[1].callee)] = Absent
    BY <1>0, <1>7, <2>1
  <2>3. Good(deployed, L) /\ Grows(fs, deployed)
    <3>1. CASE out = Absent
      BY <1>2, <3>1, FailGood DEF deployed
    <3>2. CASE out # Absent
      <4>1. out \in Code \cup {NoCode} /\ Len(fs) = 1
        BY <1>7, <3>2 DEF n
      <4>2. Good(InitCode(fs, fs[1].callee, out), L) /\ Grows(fs, InitCode(fs, fs[1].callee, out))
        BY <1>2, <2>1, <2>2, <4>1, InitCodeGood
      <4> QED BY <3>2, <4>2 DEF deployed
    <3> QED BY <3>1, <3>2
  <2>4. Grows(frames, deployed)
    BY <2>3, GrowsTwice
  <2>5. phase' \in {"evm", "flush", "done"} /\ resp' \in {"none", "ok", "error", "panic"} /\ (phase' = "done" => resp' # "ok")
    BY <1>0, <1>7 DEF Respond
  <2> QED BY <1>0, <1>7, <2>3, <2>4, <2>5, EvmGrows
<1>8. CASE n = 1 /\ kind = "invoke" /\ frames' = fs /\ phase' = "flush" /\ UNCHANGED resp
  BY <1>0, <1>8, EvmGrows
<1> QED BY <1>3, <1>6, <1>7, <1>8

LEMMA GrowsSelf ==
  ASSUME NEW fs
  PROVE  Grows(fs, fs)
  BY DEF Grows

LEMMA RETURNKeeps ==
  ASSUME EInv, NEW c \in Code \cup {NoCode, Absent},
         phase = "evm", ~Top.err, Returning(frames, c), EvmUnchanged, UNCHANGED <<sm, logs, ops, minted>>
  PROVE  EInv'
<1>1. Good(frames, Len(logs)) /\ Top = frames[Len(frames)]
  BY EvmFacts
<1>2. SmRead
  BY NoRead
<1>3. Grows(frames, frames)
  BY GrowsSelf
<1> QED BY <1>1, <1>2, <1>3, ReturningKeeps DEF EvmUnchanged

LEMMA SELFDESTRUCTKeeps ==
  ASSUME EInv, NEW r \in Address, SELFDESTRUCT(r)
  PROVE  EInv'
<1> DEFINE c == Top.callee
           es == Load(frames, r)
           fs == Load(es, c)
           paid == Update(fs, r, AcctIn(fs, r))
           gone == IF Exists(paid, c) THEN RemoveAccount(paid, c) ELSE Fail(paid)
           L == Len(logs)
           n == Len(frames)
<1>1. /\ phase = "evm" /\ ops < limit.ops /\ ops' = ops + 1
      /\ Fetch(frames, r)
      /\ IF Exists(fs, r) /\ ~gone[Len(gone)].err THEN Returning(gone, Absent)
         ELSE frames' = Fail(fs) /\ UNCHANGED <<phase, rtCode, resp>>
      /\ kind' = kind /\ txs' = txs /\ limit' = limit /\ minted' = minted /\ logs' = logs
  BY DEF SELFDESTRUCT, EvmUnchanged, Step
<1>2. /\ Good(frames, L) /\ LedgerInv /\ c \in Address /\ frames # <<>>
      /\ n \in Nat /\ n \in 1 .. n
      /\ minted \subseteq NewAddr /\ resp \in {"none", "ok", "error", "panic"}
  BY <1>1, EvmFacts
<1> HIDE DEF c
<1>3. SmRead
  BY <1>1, <1>2, FetchReads
<1>4. Good(es, L) /\ Grows(frames, es) /\ es[n].accounts[r].loaded
  BY <1>2, LoadGood
<1> HIDE DEF es
<1>5. Good(fs, L) /\ Grows(es, fs) /\ \A i \in 1 .. Len(es) : fs[i].accounts[c].loaded
  BY <1>2, <1>4, LoadGood
<1> HIDE DEF fs
<1>6. Grows(frames, fs) /\ fs \in Seq(FrameType)
  BY <1>4, <1>5, GrowsTwice DEF Good
<1>7. Len(fs) = n /\ Len(es) = n
  BY <1>4, <1>5 DEF Grows
<1>8. fs[n].accounts[r].loaded /\ fs[n].accounts[c].loaded
  BY <1>2, <1>4, <1>5, <1>7 DEF Grows
<1>9. fs # <<>>
  <2>1. n # 0
    BY <1>2
  <2> QED BY <1>7, <2>1, EmptyLen
<1>10. CASE Exists(fs, r) /\ ~gone[Len(gone)].err
  <2> DEFINE acc == AcctIn(fs, r)
  <2>1. acc = IF fs[n].accounts[r].removed THEN Absent ELSE fs[n].accounts[r].account
    BY <1>6, <1>7, <1>8, <1>9, TopHas
  <2>2. acc # Absent
    BY <1>10 DEF Exists
  <2>3. ~fs[n].accounts[r].removed /\ acc = fs[n].accounts[r].account
    BY <2>1, <2>2
  <2>4. fs[n].accounts[r] \in Infos
    BY <1>2, <1>6, <1>7, <1>8, FrameParts
  <2>5. acc \in Acct
    BY <2>2, <2>3, <2>4 DEF Infos
  <2>6. ledger[SM!acctKey(r)] # Absent => acc = ledger[SM!acctKey(r)] \/ RemovedBelow(fs, n, r)
    BY <1>2, <1>5, <1>7, <1>8, <2>3 DEF Good, RecordFrames
  <2> HIDE DEF acc, n
  <2>7. Good(Update(fs, r, acc), L) /\ Grows(fs, Update(fs, r, acc))
    BY <1>5, <1>7, <1>8, <1>9, <2>5, <2>6, UpdateGood
  <2>8. Good(paid, L) /\ Grows(fs, paid)
    BY <2>7 DEF acc
  <2> HIDE DEF paid
  <2>9. Len(paid) = n /\ paid[n].accounts[c].loaded /\ n \in 1 .. n
    BY <1>2, <1>7, <1>8, <2>8 DEF Grows, n
  <2>10. paid # <<>>
    <3>1. n # 0
      BY <1>2 DEF n
    <3> QED BY <2>9, <3>1, EmptyLen
  <2>11. Good(RemoveAccount(paid, c), L) /\ Grows(paid, RemoveAccount(paid, c))
    BY <1>2, <2>8, <2>9, <2>10, RemoveGood
  <2>12. Good(Fail(paid), L) /\ Grows(paid, Fail(paid))
    BY <2>8, <2>10, FailGood
  <2>13. Good(gone, L) /\ Grows(paid, gone)
    BY <2>11, <2>12
  <2>14. ~gone[Len(gone)].err /\ Returning(gone, Absent)
    BY <1>1, <1>10 DEF paid
  <2> HIDE DEF gone
  <2>15. Grows(frames, gone)
    BY <1>6, <2>8, <2>13, GrowsTwice
  <2>16. Absent \in Code \cup {NoCode, Absent}
    OBVIOUS
  <2> QED BY <1>1, <1>3, <2>13, <2>14, <2>15, <2>16, ReturningKeeps
<1>11. CASE ~(Exists(fs, r) /\ ~gone[Len(gone)].err)
  <2>1. frames' = Fail(fs) /\ phase' = phase /\ resp' = resp
    BY <1>1, <1>11
  <2>2. Good(Fail(fs), L) /\ Grows(fs, Fail(fs))
    BY <1>5, <1>9, FailGood
  <2>3. Grows(frames, Fail(fs))
    BY <1>6, <2>2, GrowsTwice
  <2> QED BY <1>1, <1>2, <1>3, <2>1, <2>2, <2>3, EvmGrows
<1> QED BY <1>10, <1>11

----------------------------------------------------------------------------
(* Before the EVM and after it.                                            *)

LEMMA StartFacts ==
  ASSUME EInv, phase = "start"
  PROVE  /\ LedgerInv /\ frames = <<>> /\ Good(frames, Len(logs)) /\ CreateFrames(frames)
         /\ logs \in Seq([addr : Address, live : BOOLEAN]) /\ Len(logs) \in Nat
         /\ minted \subseteq NewAddr /\ limit.depth \in Nat /\ 1 <= limit.depth /\ 0 <= limit.depth
         /\ resp \in {"none", "ok", "error", "panic"}
<1>1. limit.depth \in Nat /\ 1 <= limit.depth /\ 0 <= limit.depth
  BY EvmConstants DEF EInv, InvokeInv
<1>2. logs \in Seq([addr : Address, live : BOOLEAN]) /\ Len(logs) \in Nat
  BY DEF EInv, InvokeInv
<1> QED BY <1>1, <1>2 DEF EInv, FramesInv, InvokeInv

\* An answer without the EVM.
LEMMA AnswerKeeps ==
  ASSUME EInv, phase = "start", SmRead, phase' = "done", resp' \in {"ok", "error"},
         UNCHANGED <<kind, frames, logs, ops, minted, txs, limit>>
  PROVE  EInv'
<1>1. /\ frames = <<>> /\ Good(frames, Len(logs)) /\ CreateFrames(frames)
      /\ logs \in Seq([addr : Address, live : BOOLEAN])
      /\ minted \subseteq NewAddr /\ 0 <= limit.depth
  BY StartFacts
<1>2. PICK L : L = Len(logs') /\ L = Len(logs)
  OBVIOUS
<1>3. Len(frames) <= limit.depth
  BY <1>1, EmptyLen
<1> QED BY <1>1, <1>2, <1>3, EvmCloses

LEMMA InvokeGetCodeKeeps ==
  ASSUME EInv, NEW a \in Address, InvokeGetCode(a)
  PROVE  EInv'
<1>1. SmRead
  BY GetAccountReads DEF InvokeGetCode
<1> QED BY <1>1, AnswerKeeps DEF InvokeGetCode, Respond

LEMMA InvokeAccountKeeps ==
  ASSUME EInv, InvokeAccount \/ StartFails
  PROVE  EInv'
<1>1. SmRead
  BY NoRead DEF InvokeAccount, StartFails
<1> QED BY <1>1, AnswerKeeps DEF InvokeAccount, StartFails, Respond

\* The outermost frame.
LEMMA FirstFrame ==
  ASSUME EInv, phase = "start", NEW a \in Address
  PROVE  LET fs == <<Frame(a, FALSE, FALSE)>> IN
         /\ Good(fs, Len(logs)) /\ fs # <<>> /\ Len(fs) = 1 /\ fs[1].callee = a /\ ~fs[1].create
<1> DEFINE f == Frame(a, FALSE, FALSE)
<1>1. frames = <<>> /\ Good(frames, Len(logs)) /\ Len(logs) \in Nat
  BY StartFacts
<1>2. /\ f \in FrameType /\ f.callee = a /\ ~f.create /\ f.mark = Len(logs)
      /\ \A b \in Address : ~f.accounts[b].loaded
  BY <1>1, FrameIs
<1> HIDE DEF f
<1>3. Good(Append(frames, f), Len(logs))
  BY <1>1, <1>2, PushGood
<1>4. Append(frames, f) = <<f>>
  BY <1>1, <1>2
<1> QED BY <1>2, <1>3, <1>4 DEF f

LEMMA FirstGrows ==
  ASSUME NEW fs, NEW gs, Grows(fs, gs), Len(fs) = 1, ~fs[1].create
  PROVE  /\ CreateFrames(gs) /\ Len(gs) = 1 /\ gs # <<>> /\ gs[1].callee = fs[1].callee /\ ~gs[1].create
         /\ \A a \in Address : fs[1].accounts[a].loaded => gs[1].accounts[a].loaded
<1>1. Len(gs) = 1 /\ gs[1].callee = fs[1].callee /\ ~gs[1].create
      /\ \A a \in Address : fs[1].accounts[a].loaded => gs[1].accounts[a].loaded
  BY DEF Grows
<1>2. CreateFrames(gs)
  BY <1>1 DEF CreateFrames
<1> QED BY <1>1, <1>2, EmptyLen

LEMMA DeployKeeps ==
  ASSUME EInv, NEW a \in NewAddr, Deploy(a)
  PROVE  EInv'
<1> DEFINE fs == <<Frame(a, FALSE, FALSE)>>
           es == Load(fs, a)
           gs == CreateAccount(es, a)
           acc == [code |-> NoCode, perms |-> TRUE]
           hs == Update(gs, a, acc)
           L == Len(logs)
<1>1. /\ phase = "start" /\ kind = "deploy" /\ Fetch(fs, a) /\ minted' = minted \cup {a}
      /\ IF gs[1].err THEN Respond("error") /\ UNCHANGED frames
         ELSE phase' = "evm" /\ UNCHANGED resp /\ frames' = hs
      /\ UNCHANGED <<kind, logs, ops, txs, limit>>
  BY DEF Deploy
<1>2. /\ frames = <<>> /\ Good(frames, L) /\ CreateFrames(frames) /\ LedgerInv
      /\ logs \in Seq([addr : Address, live : BOOLEAN])
      /\ 1 <= limit.depth /\ 0 <= limit.depth /\ resp \in {"none", "ok", "error", "panic"}
  BY <1>1, StartFacts
<1>3. a \in Address /\ minted' \subseteq NewAddr
  BY <1>1, StartFacts, EvmConstants
<1>4. SmRead
  BY <1>1, <1>3, FetchReads
<1>5. Good(fs, L) /\ fs # <<>> /\ Len(fs) = 1 /\ fs[1].callee = a /\ ~fs[1].create
  BY <1>1, <1>3, FirstFrame
<1> HIDE DEF fs
<1>6. Good(es, L) /\ Grows(fs, es) /\ es[1].accounts[a].loaded
  <2>1. Good(es, L) /\ Grows(fs, es) /\ \A i \in 1 .. Len(fs) : es[i].accounts[a].loaded
    BY <1>2, <1>3, <1>5, LoadGood
  <2>2. 1 \in 1 .. Len(fs)
    BY <1>5
  <2> QED BY <2>1, <2>2
<1>7. Len(es) = 1 /\ es # <<>> /\ es[1].callee = a /\ ~es[1].create
  BY <1>5, <1>6, FirstGrows
<1> HIDE DEF es
<1>8. /\ Good(gs, L) /\ Grows(es, gs)
      /\ gs[1].err \/ ledger[SM!acctKey(a)] = Absent
  <2>1. ~RemovedBelow(es, 1, a)
    BY DEF RemovedBelow
  <2> QED BY <1>3, <1>6, <1>7, <2>1, CreateGood
<1>9. Len(gs) = 1 /\ gs # <<>> /\ gs[1].callee = a /\ ~gs[1].create /\ gs[1].accounts[a].loaded
  BY <1>3, <1>6, <1>7, <1>8, FirstGrows
<1> HIDE DEF gs
<1>10. PICK q : q = Len(logs') /\ q = L
  BY <1>1
<1>11. CASE gs[1].err
  <2>1. phase' = "done" /\ resp' = "error" /\ frames' = frames
    BY <1>1, <1>11 DEF Respond
  <2>2. Len(frames) <= limit.depth
    BY <1>2, EmptyLen
  <2> QED BY <1>1, <1>2, <1>3, <1>4, <1>10, <2>1, <2>2, EvmCloses
<1>12. CASE ~gs[1].err
  <2>1. acc \in Acct
    BY DEF Acct
  <2> HIDE DEF acc
  <2>2. Good(hs, L) /\ Grows(gs, hs)
    BY <1>3, <1>8, <1>9, <1>12, <2>1, UpdateGood
  <2>3. /\ CreateFrames(hs) /\ Len(hs) = 1 /\ hs # <<>> /\ hs[1].callee = a /\ hs[1].accounts[a].loaded
    BY <1>3, <1>9, <2>2, FirstGrows
  <2>4. phase' = "evm" /\ resp' = resp /\ frames' = hs /\ ledger[SM!acctKey(a)] = Absent
    BY <1>1, <1>8, <1>12
  <2> HIDE DEF hs
  <2>5. Len(hs) <= limit.depth
    BY <1>2, <2>3
  <2> QED BY <1>1, <1>2, <1>3, <1>4, <1>10, <2>2, <2>3, <2>4, <2>5, EvmCloses
<1> QED BY <1>11, <1>12

LEMMA CallContractKeeps ==
  ASSUME EInv, NEW a \in Address, CallContract(a)
  PROVE  EInv'
<1> DEFINE fs == <<Frame(a, FALSE, FALSE)>>
           gs == Load(fs, a)
           L == Len(logs)
<1>1. /\ phase = "start" /\ kind = "invoke" /\ Fetch(fs, a) /\ frames' = gs
      /\ phase' \in {"evm", "flush"}
      /\ UNCHANGED <<kind, logs, resp, ops, minted, txs, limit>>
  BY DEF CallContract
<1>2. /\ LedgerInv /\ minted \subseteq NewAddr
      /\ logs \in Seq([addr : Address, live : BOOLEAN])
      /\ 1 <= limit.depth /\ resp \in {"none", "ok", "error", "panic"}
  BY <1>1, StartFacts
<1>3. SmRead
  BY <1>1, FetchReads
<1>4. Good(fs, L) /\ fs # <<>> /\ Len(fs) = 1 /\ ~fs[1].create
  BY <1>1, FirstFrame
<1> HIDE DEF fs
<1>5. Good(gs, L) /\ Grows(fs, gs)
  BY <1>2, <1>4, LoadGood
<1>6. CreateFrames(gs) /\ Len(gs) = 1 /\ gs # <<>>
  BY <1>4, <1>5, FirstGrows
<1> HIDE DEF gs
<1>7. Len(gs) <= limit.depth
  BY <1>2, <1>6
<1>8. PICK q : q = Len(logs') /\ q = L
  BY <1>1
<1> QED BY <1>1, <1>2, <1>3, <1>5, <1>6, <1>7, <1>8, EvmCloses

LEMMA EmptyGood ==
  ASSUME NEW L
  PROVE  Good(<<>>, L) /\ CreateFrames(<<>>)
<1>1. <<>> \in Seq(FrameType) /\ Len(<<>>) = 0 /\ 1 .. 0 = {}
  OBVIOUS
<1> QED BY <1>1 DEF Good, CreateFrames, LoadedDown, StaticFrames, RecordFrames

LEMMA InvokeKeeps ==
  ASSUME EInv, InvokeRefused \/ \E kd \in {"deploy", "invoke", "getCode", "account"} : Invoke(kd)
  PROVE  EInv'
<1>1. /\ phase = "idle" /\ txs < limit.txs /\ txs' = txs + 1 /\ SM!NewStateManager
      /\ UNCHANGED <<frames, logs, minted, limit>>
      /\ \/ phase' = "start" /\ ops' = 0 /\ resp' = resp
         \/ phase' = "done" /\ resp' \in {"error", "panic"} /\ ops' = ops
  BY DEF Invoke, InvokeRefused, Respond
<1>2. LedgerInv'
  <2>1. SM!NoReply \in SM!Replies
    <3>1. \E a \in Address : TRUE
      <4>1. Len(AddrOrder) \in 1 .. Len(AddrOrder) /\ DOMAIN AddrOrder = 1 .. Len(AddrOrder)
        BY EvmConstants
      <4> QED BY <4>1 DEF Address
    <3>2. (CHOOSE a \in Address : TRUE) \in Address
      BY <3>1
    <3> QED BY <3>2 DEF SM!NoReply, SM!Replies, SM!Reply, SM!EncodeToString, SM!WorldKey, SM!Value
  <2>2. SM!TypeOK'
    BY <1>1, <2>1 DEF EInv, LedgerInv, SM!TypeOK, SM!NewStateManager, SM!NoWrites, SM!EmptyCache
  <2> QED BY <1>1, <2>2 DEF EInv, LedgerInv, SM!NewStateManager
<1>3. WritesInv'
  <2>1. writes' = SM!NoWrites
    BY <1>1 DEF SM!NewStateManager
  <2>2. \A a \in Address : SM!acctKey(a) \in SM!WorldKey /\ \A k \in Key : SM!compKey(a, k) \in SM!WorldKey
    BY DEF SM!acctKey, SM!compKey, SM!ToLower, SM!String, SM!WorldKey
  <2>3. \A key \in SM!WorldKey : writes'[key] = Unset
    BY <2>1 DEF SM!NoWrites
  <2> QED BY <2>2, <2>3 DEF WritesInv
<1>4. InvokeInv'
  <2>1. txs' \in Nat /\ txs' <= limit.txs /\ limit.txs \in Nat /\ limit.ops \in Nat
    BY <1>1, EvmConstants DEF EInv, InvokeInv
  <2>2. ops' \in Nat /\ ops' <= limit.ops
    BY <1>1, <2>1 DEF EInv, InvokeInv
  <2> QED BY <1>1, <2>1, <2>2 DEF EInv, InvokeInv
<1>5. FramesInv'
  <2>1. frames = <<>> /\ ledger' = ledger
    BY <1>1 DEF EInv, FramesInv, SM!NewStateManager
  <2>2. PICK gs : gs = frames' /\ gs = <<>>
    BY <1>1, <2>1
  <2>3. PICK L : L = Len(logs')
    OBVIOUS
  <2>4. Good(frames, Len(logs))' /\ CreateFrames(frames)'
    BY <2>1, <2>2, <2>3, EmptyGood, FramesStep
  <2> QED BY <1>1, <2>1, <2>4 DEF FramesInv
<1>6. SyncInv'
  BY <1>1 DEF SyncInv, SM!NewStateManager, SM!NoWrites, SM!EmptyCache
<1>7. ReadsInv'
  BY <1>1 DEF ReadsInv, SM!NewStateManager, SM!NoReply, SM!Reply
<1> QED BY <1>2, <1>3, <1>4, <1>5, <1>6, <1>7 DEF EInv

----------------------------------------------------------------------------
(* Sync writes what the outermost cache amounts to.                        *)

IsIn(x, s) == \E i \in 1 .. Len(s) : s[i] = x

LEMMA FlatIn ==
  ASSUME NEW S, NEW seqs \in Seq(Seq(S))
  PROVE  /\ FlattenSeq(seqs) \in Seq(S)
         /\ \A x : IsIn(x, FlattenSeq(seqs)) <=> \E n \in 1 .. Len(seqs) : IsIn(x, seqs[n])
<1>1. FlattenSeq(seqs) \in Seq(S) /\ FlatOf(FlattenSeq(seqs), seqs, Len(seqs))
  BY Flattened
<1> DEFINE f == FlattenSeq(seqs)
<1> HIDE DEF f
<1>2. /\ \A a \in 1 .. Len(seqs) : \A i \in 1 .. Len(seqs[a]) : \E k \in 1 .. Len(f) : f[k] = seqs[a][i]
      /\ \A k \in 1 .. Len(f) : \E a \in 1 .. Len(seqs) : \E i \in 1 .. Len(seqs[a]) : f[k] = seqs[a][i]
  BY <1>1 DEF FlatOf, f
<1>3. ASSUME NEW x, IsIn(x, f) PROVE \E n \in 1 .. Len(seqs) : IsIn(x, seqs[n])
  <2>1. PICK k \in 1 .. Len(f) : f[k] = x
    BY <1>3 DEF IsIn
  <2>2. PICK n \in 1 .. Len(seqs) : \E i \in 1 .. Len(seqs[n]) : f[k] = seqs[n][i]
    BY <1>2
  <2>3. IsIn(x, seqs[n])
    BY <2>1, <2>2 DEF IsIn
  <2> QED BY <2>3
<1>4. ASSUME NEW x, NEW n \in 1 .. Len(seqs), IsIn(x, seqs[n]) PROVE IsIn(x, f)
  <2>1. PICK i \in 1 .. Len(seqs[n]) : seqs[n][i] = x
    BY <1>4 DEF IsIn
  <2>2. \E k \in 1 .. Len(f) : f[k] = seqs[n][i]
    BY <1>2
  <2> QED BY <2>1, <2>2 DEF IsIn
<1> QED BY <1>1, <1>3, <1>4 DEF f

SetCall(a, k, v) == [op |-> "SetStorage", a |-> a, k |-> k, v |-> v]

LEMMA SetCallsIn ==
  ASSUME NEW f, NEW a \in Address, f.accounts[a] \in Infos
  PROVE  /\ SetCalls(f, a) \in Seq(Calls)
         /\ \A c : IsIn(c, SetCalls(f, a)) <=>
              \E k \in Key : f.accounts[a].storage[k] # Unset /\ c = SetCall(a, k, f.accounts[a].storage[k])
<1> DEFINE word(k) == f.accounts[a].storage[k]
           m == Len(KeyOrder)
           piece(k) == IF word(k) = Unset THEN <<>> ELSE <<SetCall(a, k, word(k))>>
           seqs == [i \in 1 .. m |-> piece(KeyOrder[i])]
<1>1. m \in Nat /\ DOMAIN KeyOrder = 1 .. m
  BY EvmConstants
<1>2. \A k \in Key : word(k) \in Word \cup {Zero, Unset}
  BY DEF Infos
<1>3. \A i \in 1 .. m : KeyOrder[i] \in Key
  BY <1>1 DEF Key
<1>4. \A k \in Key : \E i \in 1 .. m : KeyOrder[i] = k
  BY <1>1 DEF Key
<1>5. SetCalls(f, a) = FlattenSeq(seqs)
  BY <1>1 DEF SetCalls, SetCall
<1> HIDE DEF word, m
<1>6. ASSUME NEW k \in Key
      PROVE  /\ piece(k) \in Seq(Calls)
             /\ \A c : IsIn(c, piece(k)) <=> word(k) # Unset /\ c = SetCall(a, k, word(k))
  <2>1. CASE word(k) = Unset
    <3>1. piece(k) = <<>>
      BY <2>1
    <3>2. <<>> \in Seq(Calls) /\ 1 .. 0 = {}
      OBVIOUS
    <3> QED BY <2>1, <3>1, <3>2, EmptyLen DEF IsIn
  <2>2. CASE word(k) # Unset
    <3> DEFINE s == SetCall(a, k, word(k))
    <3>1. s \in Calls
      BY <1>2, <2>2 DEF SetCall, Calls
    <3>2. piece(k) = <<s>>
      BY <2>2
    <3> HIDE DEF s, piece
    <3>3. <<s>> \in Seq(Calls) /\ \A c : IsIn(c, <<s>>) <=> c = s
      BY <3>1 DEF IsIn
    <3> QED BY <2>2, <3>2, <3>3 DEF s
  <2> QED BY <2>1, <2>2
<1> HIDE DEF piece
<1>7. seqs \in Seq(Seq(Calls)) /\ Len(seqs) = m /\ \A i \in 1 .. m : seqs[i] = piece(KeyOrder[i])
  <2>1. \A i \in 1 .. m : seqs[i] = piece(KeyOrder[i])
    OBVIOUS
  <2>2. seqs = [i \in 1 .. m |-> seqs[i]] /\ \A i \in 1 .. m : seqs[i] \in Seq(Calls)
    BY <1>3, <1>6, <2>1
  <2> HIDE DEF seqs
  <2> QED BY <1>1, <2>1, <2>2, FunctionIsSeq
<1> HIDE DEF seqs
<1>8. FlattenSeq(seqs) \in Seq(Calls) /\ \A c : IsIn(c, FlattenSeq(seqs)) <=> \E n \in 1 .. Len(seqs) : IsIn(c, seqs[n])
  BY <1>7, FlatIn
<1>9. ASSUME NEW c
      PROVE  (\E n \in 1 .. m : IsIn(c, seqs[n])) <=> \E k \in Key : word(k) # Unset /\ c = SetCall(a, k, word(k))
  <2> DEFINE is(k) == word(k) # Unset /\ c = SetCall(a, k, word(k))
  <2>1. \A k \in Key : IsIn(c, piece(k)) <=> is(k)
    BY <1>6
  <2> HIDE DEF is
  <2>2. \A n \in 1 .. m : IsIn(c, seqs[n]) <=> is(KeyOrder[n])
    BY <1>3, <1>7, <2>1
  <2>3. (\E n \in 1 .. m : IsIn(c, seqs[n])) <=> \E k \in Key : is(k)
    BY <1>3, <1>4, <2>2
  <2> QED BY <2>3 DEF is
<1> QED BY <1>5, <1>7, <1>8, <1>9 DEF word

AcctCall(op, a, v) == [op |-> op, a |-> a, k |-> NoKey, v |-> v]

\* The calls for an account.
CallOf(f, a, c) ==
  LET i == f.accounts[a] IN
  /\ i.loaded
  /\ \/ i.removed /\ c = AcctCall("RemoveAccount", a, Absent)
     \/ /\ ~i.removed /\ i.updated
        /\ \/ c = AcctCall("UpdateAccount", a, i.account)
           \/ \E k \in Key : i.storage[k] # Unset /\ c = SetCall(a, k, i.storage[k])

LEMMA ConsIn ==
  ASSUME NEW S, NEW x \in S, NEW s \in Seq(S)
  PROVE  <<x>> \o s \in Seq(S) /\ \A c : IsIn(c, <<x>> \o s) <=> c = x \/ IsIn(c, s)
<1> DEFINE t == <<x>> \o s
<1>1. <<x>> \in Seq(S) /\ Len(<<x>>) = 1 /\ <<x>>[1] = x
  OBVIOUS
<1>2. /\ t \in Seq(S) /\ Len(t) = 1 + Len(s) /\ Len(s) \in Nat
      /\ t[1] = x /\ \A k \in 1 .. Len(s) : t[1 + k] = s[k]
  OBVIOUS
<1> HIDE DEF t
<1>3. ASSUME NEW c, IsIn(c, t) PROVE c = x \/ IsIn(c, s)
  <2>1. PICK i \in 1 .. Len(t) : t[i] = c
    BY <1>3 DEF IsIn
  <2>2. CASE i = 1
    BY <1>2, <2>1, <2>2
  <2>3. CASE i # 1
    <3>1. PICK k \in 1 .. Len(s) : i = 1 + k
      <4>1. i - 1 \in 1 .. Len(s) /\ i = 1 + (i - 1)
        BY <1>2, <2>3
      <4> QED BY <4>1
    <3> QED BY <1>2, <2>1, <3>1 DEF IsIn
  <2> QED BY <2>2, <2>3
<1>4. ASSUME NEW c, IsIn(c, s) PROVE IsIn(c, t)
  <2>1. PICK k \in 1 .. Len(s) : s[k] = c
    BY <1>4 DEF IsIn
  <2>2. 1 + k \in 1 .. Len(t)
    BY <1>2
  <2> QED BY <1>2, <2>1, <2>2 DEF IsIn
<1>5. IsIn(x, t)
  <2>1. 1 \in 1 .. Len(t)
    BY <1>2
  <2> QED BY <1>2, <2>1 DEF IsIn
<1> QED BY <1>2, <1>3, <1>4, <1>5 DEF t

LEMMA AccountCallsIn ==
  ASSUME NEW f \in FrameType, NEW a \in Address,
         f.accounts[a].loaded /\ f.accounts[a].updated => f.accounts[a].account # Absent
  PROVE  AccountCalls(f, a) \in Seq(Calls) /\ \A c : IsIn(c, AccountCalls(f, a)) <=> CallOf(f, a, c)
<1> DEFINE i == f.accounts[a]
<1>1. i.loaded => i \in Infos
  <2>1. i \in Infos \cup {NotLoaded}
    BY DEF FrameType
  <2> QED BY <2>1 DEF NotLoaded
<1>2. AccountCalls(f, a) = IF ~i.loaded THEN <<>>
                           ELSE IF i.removed THEN <<AcctCall("RemoveAccount", a, Absent)>>
                           ELSE IF i.updated THEN <<AcctCall("UpdateAccount", a, i.account)>> \o SetCalls(f, a)
                           ELSE <<>>
  BY DEF AccountCalls, AcctCall
<1>3. <<>> \in Seq(Calls) /\ \A c : ~IsIn(c, <<>>)
  <2>1. 1 .. 0 = {} /\ <<>> \in Seq(Calls)
    OBVIOUS
  <2> QED BY <2>1, EmptyLen DEF IsIn
<1>4. CASE ~i.loaded
  BY <1>2, <1>3, <1>4 DEF CallOf
<1>5. CASE i.loaded /\ i.removed
  <2> DEFINE s == AcctCall("RemoveAccount", a, Absent)
  <2>1. s \in Calls
    BY DEF AcctCall, Calls
  <2>2. AccountCalls(f, a) = <<s>>
    BY <1>2, <1>5
  <2> HIDE DEF s
  <2>3. <<s>> \in Seq(Calls) /\ \A c : IsIn(c, <<s>>) <=> c = s
    BY <2>1 DEF IsIn
  <2> QED BY <1>5, <2>2, <2>3 DEF CallOf, s
<1>6. CASE i.loaded /\ ~i.removed /\ i.updated
  <2> DEFINE s == AcctCall("UpdateAccount", a, i.account)
  <2>0. i \in Infos /\ i.account \in Acct
    BY <1>1, <1>6 DEF Infos
  <2>1. s \in Calls
    BY <2>0 DEF AcctCall, Calls
  <2>2. AccountCalls(f, a) = <<s>> \o SetCalls(f, a)
    BY <1>2, <1>6
  <2>3. /\ SetCalls(f, a) \in Seq(Calls)
        /\ \A c : IsIn(c, SetCalls(f, a)) <=> \E k \in Key : i.storage[k] # Unset /\ c = SetCall(a, k, i.storage[k])
    BY <2>0, SetCallsIn
  <2> HIDE DEF s
  <2>4. <<s>> \o SetCalls(f, a) \in Seq(Calls) /\ \A c : IsIn(c, <<s>> \o SetCalls(f, a)) <=> c = s \/ IsIn(c, SetCalls(f, a))
    BY <2>1, <2>3, ConsIn
  <2> QED BY <1>6, <2>2, <2>3, <2>4 DEF CallOf, s
<1>7. CASE i.loaded /\ ~i.removed /\ ~i.updated
  BY <1>2, <1>3, <1>7 DEF CallOf
<1> QED BY <1>4, <1>5, <1>6, <1>7

LEMMA SyncCallsIn ==
  ASSUME NEW f \in FrameType,
         \A a \in Address : f.accounts[a].loaded /\ f.accounts[a].updated => f.accounts[a].account # Absent
  PROVE  /\ SyncCalls(f) \in Seq(Calls)
         /\ \A c : IsIn(c, SyncCalls(f)) <=> \E a \in Address : CallOf(f, a, c)
<1> DEFINE m == Len(AddrOrder)
           seqs == [i \in 1 .. m |-> AccountCalls(f, AddrOrder[i])]
<1>1. m \in Nat /\ DOMAIN AddrOrder = 1 .. m
  BY EvmConstants
<1>2. (\A i \in 1 .. m : AddrOrder[i] \in Address) /\ \A a \in Address : \E i \in 1 .. m : AddrOrder[i] = a
  BY <1>1 DEF Address
<1>3. SyncCalls(f) = FlattenSeq(seqs)
  BY <1>1 DEF SyncCalls
<1> HIDE DEF m
<1>4. seqs \in Seq(Seq(Calls)) /\ Len(seqs) = m /\ \A i \in 1 .. m : seqs[i] = AccountCalls(f, AddrOrder[i])
  <2>1. \A i \in 1 .. m : seqs[i] = AccountCalls(f, AddrOrder[i])
    OBVIOUS
  <2>2. seqs = [i \in 1 .. m |-> seqs[i]] /\ \A i \in 1 .. m : seqs[i] \in Seq(Calls)
    BY <1>2, <2>1, AccountCallsIn
  <2> HIDE DEF seqs
  <2> QED BY <1>1, <2>1, <2>2, FunctionIsSeq
<1> HIDE DEF seqs
<1>5. FlattenSeq(seqs) \in Seq(Calls) /\ \A c : IsIn(c, FlattenSeq(seqs)) <=> \E n \in 1 .. Len(seqs) : IsIn(c, seqs[n])
  BY <1>4, FlatIn
<1>6. ASSUME NEW c
      PROVE (\E n \in 1 .. m : IsIn(c, seqs[n])) <=> \E a \in Address : CallOf(f, a, c)
  BY <1>2, <1>4, AccountCallsIn
<1> QED BY <1>3, <1>4, <1>5, <1>6

\* The calls for a cache write what the cache amounts to, and all of it.
LEMMA TargetCalls ==
  ASSUME NEW f \in FrameType,
         \A a \in Address : f.accounts[a].loaded /\ f.accounts[a].updated => f.accounts[a].account # Absent
  PROVE  /\ \A c : IsIn(c, SyncCalls(f)) => c \in Calls /\ Target(f)[KeyOf(c)] = ValueOf(c)
         /\ \A key \in SM!WorldKey :
              Target(f)[key] = Unset \/ \E c : IsIn(c, SyncCalls(f)) /\ KeyOf(c) = key
<1>0. \A c : IsIn(c, SyncCalls(f)) <=> \E a \in Address : CallOf(f, a, c)
  BY SyncCallsIn
<1>1. \A a \in Address : f.accounts[a].loaded => f.accounts[a] \in Infos
  <2>1. \A a \in Address : f.accounts[a] \in Infos \cup {NotLoaded}
    BY DEF FrameType
  <2> QED BY <2>1 DEF NotLoaded
<1>2. ASSUME NEW a \in Address, NEW c, CallOf(f, a, c)
      PROVE  c \in Calls /\ Target(f)[KeyOf(c)] = ValueOf(c)
  <2> DEFINE i == f.accounts[a]
             key == <<"lower", a, NoKey>>
  <2>1. /\ key \in SM!WorldKey /\ key[1] = "lower" /\ key[2] = a /\ key[3] = NoKey
        /\ \A k \in Key : /\ <<"lower", a, k>> \in SM!WorldKey
                          /\ <<"lower", a, k>>[1] = "lower" /\ <<"lower", a, k>>[2] = a /\ <<"lower", a, k>>[3] = k
    BY DEF SM!WorldKey
  <2>2. i.loaded /\ i \in Infos
    BY <1>1, <1>2 DEF CallOf
  <2>3. Target(f)[key] = IF i.removed THEN Absent ELSE IF i.updated THEN i.account ELSE Unset
    BY <2>1, <2>2 DEF Target
  <2>4. \A k \in Key : Target(f)[<<"lower", a, k>>] =
          IF i.removed \/ ~i.updated THEN Unset
          ELSE IF i.storage[k] = Zero THEN Absent ELSE i.storage[k]
    BY <2>1, <2>2, MarkerAssumption DEF Target
  <2>5. CASE i.removed /\ c = AcctCall("RemoveAccount", a, Absent)
    <3>1. c \in Calls /\ KeyOf(c) = key /\ ValueOf(c) = Absent
      BY <2>5 DEF AcctCall, Calls, KeyOf, ValueOf
    <3> QED BY <2>3, <2>5, <3>1
  <2>6. CASE ~i.removed /\ i.updated /\ c = AcctCall("UpdateAccount", a, i.account)
    <3>0. i.account \in Acct
      BY <2>2, <2>6 DEF Infos
    <3>1. c \in Calls /\ KeyOf(c) = key /\ ValueOf(c) = i.account
      BY <2>6, <3>0 DEF AcctCall, Calls, KeyOf, ValueOf
    <3> QED BY <2>3, <2>6, <3>1
  <2>7. ASSUME ~i.removed, i.updated, NEW k \in Key, i.storage[k] # Unset, c = SetCall(a, k, i.storage[k])
        PROVE  c \in Calls /\ Target(f)[KeyOf(c)] = ValueOf(c)
    <3>0. i.storage[k] \in Word \cup {Zero}
      BY <2>2, <2>7 DEF Infos
    <3>1. c \in Calls /\ KeyOf(c) = <<"lower", a, k>>
          /\ ValueOf(c) = IF i.storage[k] = Zero THEN Absent ELSE i.storage[k]
      BY <2>7, <3>0 DEF SetCall, Calls, KeyOf, ValueOf
    <3> QED BY <2>4, <2>7, <3>1
  <2> QED BY <1>2, <2>5, <2>6, <2>7 DEF CallOf
<1>3. ASSUME NEW key \in SM!WorldKey, Target(f)[key] # Unset
      PROVE  \E a \in Address : \E c : CallOf(f, a, c) /\ KeyOf(c) = key
  <2>1. PICK cs \in {"lower", "upper"} : \E a \in Address : \E k \in Key \cup {NoKey} : key = <<cs, a, k>>
    BY DEF SM!WorldKey
  <2>2. PICK a \in Address : \E k \in Key \cup {NoKey} : key = <<cs, a, k>>
    BY <2>1
  <2>3. PICK k \in Key \cup {NoKey} : key = <<cs, a, k>>
    BY <2>2
  <2>4. key[1] = cs /\ key[2] = a /\ key[3] = k
    BY <2>3
  <2> DEFINE i == f.accounts[a]
  <2>5. Target(f)[key] = IF cs # "lower" \/ ~i.loaded THEN Unset
                         ELSE IF k = NoKey THEN IF i.removed THEN Absent ELSE IF i.updated THEN i.account ELSE Unset
                         ELSE IF i.removed \/ ~i.updated THEN Unset
                         ELSE IF i.storage[k] = Zero THEN Absent ELSE i.storage[k]
    BY <2>4 DEF Target
  <2>6. cs = "lower" /\ i.loaded
    BY <1>3, <2>5
  <2>7. CASE k = NoKey
    <3>1. i.removed \/ (~i.removed /\ i.updated)
      BY <1>3, <2>5, <2>7
    <3>2. \A op, v : KeyOf(AcctCall(op, a, v)) = key
      BY <2>3, <2>6, <2>7 DEF KeyOf, AcctCall
    <3> QED BY <2>6, <3>1, <3>2 DEF CallOf
  <2>8. CASE k # NoKey
    <3>1. k \in Key /\ ~i.removed /\ i.updated /\ i.storage[k] # Unset
      <4>1. Zero # Unset
        BY MarkerAssumption
      <4> QED BY <1>3, <2>5, <2>6, <2>8, <4>1
    <3>2. \A v : KeyOf(SetCall(a, k, v)) = key
      BY <2>3, <2>6 DEF KeyOf, SetCall
    <3> QED BY <2>6, <3>1, <3>2 DEF CallOf
  <2> QED BY <2>7, <2>8
<1>4. ASSUME NEW key \in SM!WorldKey, Target(f)[key] # Unset
      PROVE  \E c : IsIn(c, SyncCalls(f)) /\ KeyOf(c) = key
  BY <1>0, <1>3, <1>4
<1> QED BY <1>0, <1>2, <1>4

\* The outermost frame, while there is one.
LEMMA Outermost ==
  ASSUME EInv, frames # <<>>
  PROVE  /\ frames[1] \in FrameType /\ 1 \in 1 .. Len(frames)
         /\ \A a \in Address : frames[1].accounts[a].loaded /\ frames[1].accounts[a].updated =>
              frames[1].accounts[a].account # Absent
<1>1. frames \in Seq(FrameType) /\ LoadedDown(frames)
  BY DEF EInv, FramesInv, Good
<1>2. Len(frames) \in Nat /\ Len(frames) # 0
  BY <1>1
<1>3. 1 \in 1 .. Len(frames)
  BY <1>2
<1> QED BY <1>1, <1>3 DEF LoadedDown

\* An action after the EVM keeps what the EVM has left.
LEMMA FramesKept ==
  ASSUME EInv, ledger' = ledger, frames' = frames, logs' = logs, frames # <<>>, phase' \in {"sync", "done"}
  PROVE  FramesInv'
<1>1. PICK gs : gs = frames' /\ gs = frames
  OBVIOUS
<1>2. PICK L : L = Len(logs') /\ L = Len(logs)
  OBVIOUS
<1>3. Good(gs, L) /\ CreateFrames(gs)
  BY <1>1, <1>2 DEF EInv, FramesInv
<1>4. Good(frames, Len(logs))' /\ CreateFrames(frames)'
  BY <1>1, <1>2, <1>3, FramesStep
<1> QED BY <1>4 DEF FramesInv

LEMMA FlushKeeps ==
  ASSUME EInv, NEW data \in {"empty", "short", "full"}, Flush(data)
  PROVE  EInv'
<1>1. /\ phase = "flush" /\ UNCHANGED <<sm, kind, frames, rtCode, logs, ops, minted, txs, limit>>
      /\ \/ phase' = "done" /\ resp' \in {"error", "panic"} /\ todo' = todo
         \/ phase' = "sync" /\ resp' = resp /\ todo' = SyncCalls(frames[1])
  BY DEF Flush, Respond
<1>2. UNCHANGED <<ledger, open, reads, writes, cache, ret>>
  BY <1>1 DEF sm
<1>3. LedgerInv' /\ WritesInv' /\ ReadsInv'
  BY <1>2 DEF EInv, LedgerInv, SM!TypeOK, WritesInv, ReadsInv
<1>4. InvokeInv'
  BY <1>1 DEF EInv, InvokeInv
<1>5. frames # <<>>
  BY <1>1 DEF EInv, FramesInv
<1>6. FramesInv'
  BY <1>1, <1>2, <1>5, FramesKept
<1>7. SyncInv'
  <2>1. open' /\ writes' = SM!NoWrites
    BY <1>1, <1>2 DEF EInv, SyncInv
  <2>2. CASE phase' = "done"
    BY <1>1, <2>1, <2>2 DEF SyncInv
  <2>3. CASE phase' = "sync"
    <3> DEFINE f == frames[1]
    <3>1. /\ f \in FrameType
          /\ \A a \in Address : f.accounts[a].loaded /\ f.accounts[a].updated => f.accounts[a].account # Absent
      BY <1>5, Outermost
    <3>2. PICK s : s = SyncCalls(f) /\ s = todo'
      BY <1>1, <2>3
    <3>3. s \in Seq(Calls)
      BY <3>1, <3>2, SyncCallsIn
    <3>4. /\ \A c : IsIn(c, s) => c \in Calls /\ Target(f)[KeyOf(c)] = ValueOf(c)
          /\ \A key \in SM!WorldKey : Target(f)[key] = Unset \/ \E c : IsIn(c, s) /\ KeyOf(c) = key
      BY <3>1, <3>2, TargetCalls
    <3>5. Target(frames[1])' = Target(f)
      BY <1>1 DEF Target
    <3> HIDE DEF f
    <3>6. \A j \in 1 .. Len(s) : Target(f)[KeyOf(s[j])] = ValueOf(s[j])
      BY <3>4 DEF IsIn
    <3>7. \A key \in SM!WorldKey : writes'[key] = Unset
      BY <2>1 DEF SM!NoWrites
    <3>8. \A key \in SM!WorldKey :
            \/ writes'[key] = Target(f)[key]
            \/ writes'[key] = Unset /\ \E j \in 1 .. Len(s) : KeyOf(s[j]) = key
      BY <3>4, <3>7 DEF IsIn
    <3>9. /\ todo' \in Seq(Calls)
          /\ \A j \in 1 .. Len(todo') : Target(frames[1])'[KeyOf(todo'[j])] = ValueOf(todo'[j])
          /\ \A key \in SM!WorldKey :
               \/ writes'[key] = Target(frames[1])'[key]
               \/ writes'[key] = Unset /\ \E j \in 1 .. Len(todo') : KeyOf(todo'[j]) = key
      BY <3>2, <3>3, <3>5, <3>6, <3>8
    <3> QED BY <1>1, <2>1, <2>3, <3>9 DEF SyncInv, KeyOf, ValueOf
  <2> QED BY <1>1, <2>2, <2>3
<1> QED BY <1>3, <1>4, <1>6, <1>7 DEF EInv

\* One call of Sync on the state manager.
SyncCall(c) ==
  CASE c.op = "UpdateAccount" -> SM!UpdateAccount(c.a, c.v)
    [] c.op = "RemoveAccount" -> SM!RemoveAccount(c.a)
    [] c.op = "SetStorage"    -> SM!SetStorage(c.a, c.k, c.v)

LEMMA CallParts ==
  ASSUME NEW c \in Calls
  PROVE  /\ c.a \in Address /\ KeyOf(c) = <<"lower", c.a, c.k>> /\ KeyOf(c) \in SM!WorldKey
         /\ \/ /\ c.op = "UpdateAccount" /\ c.k = NoKey /\ c.v \in Acct /\ ValueOf(c) = c.v
            \/ /\ c.op = "RemoveAccount" /\ c.k = NoKey /\ c.v = Absent /\ ValueOf(c) = Absent
            \/ /\ c.op = "SetStorage" /\ c.k \in Key /\ c.v \in Word \cup {Zero}
               /\ ValueOf(c) = IF c.v = Zero THEN Absent ELSE c.v
               /\ ValueOf(c) \in Word \cup {Absent}
<1>1. c.a \in Address /\ c.k \in Key \cup {NoKey}
  BY DEF Calls
<1>2. KeyOf(c) = <<"lower", c.a, c.k>> /\ KeyOf(c) \in SM!WorldKey
  BY <1>1 DEF KeyOf, SM!WorldKey
<1> QED BY <1>1, <1>2 DEF Calls, ValueOf

LEMMA CallWrites ==
  ASSUME EInv, NEW c \in Calls, SyncCall(c)
  PROVE  /\ UNCHANGED <<ledger, open, reads>>
         /\ ret' \in SM!Replies /\ ret'.op # "GetStorage"
         /\ cache' \in [SM!WorldKey -> Word \cup {Unset}]
         /\ \/ ret'.ok /\ writes' = [writes EXCEPT ![KeyOf(c)] = ValueOf(c)]
            \/ ~ret'.ok /\ writes' = writes
<1> DEFINE key == KeyOf(c)
<1>1. /\ c.a \in Address /\ key = <<"lower", c.a, c.k>> /\ key \in SM!WorldKey
      /\ \/ /\ c.op = "UpdateAccount" /\ c.k = NoKey /\ c.v \in Acct /\ ValueOf(c) = c.v
         \/ /\ c.op = "RemoveAccount" /\ c.k = NoKey /\ c.v = Absent /\ ValueOf(c) = Absent
         \/ /\ c.op = "SetStorage" /\ c.k \in Key /\ c.v \in Word \cup {Zero}
            /\ ValueOf(c) = IF c.v = Zero THEN Absent ELSE c.v
            /\ ValueOf(c) \in Word \cup {Absent}
  BY CallParts
<1>2. /\ SM!EncodeToString(c.a) = <<"lower", c.a, NoKey>> /\ SM!acctKey(c.a) = <<"lower", c.a, NoKey>>
      /\ SM!compKey(c.a, c.k) = <<"lower", c.a, c.k>>
  BY DEF SM!EncodeToString, SM!acctKey, SM!compKey, SM!ToLower, SM!String
<1>3. cache \in [SM!WorldKey -> Word \cup {Unset}] /\ Zero \notin Word
  BY MarkerAssumption DEF EInv, LedgerInv, SM!TypeOK
<1> HIDE DEF key
\* What each of the three calls may answer.
<1>4. ASSUME NEW op \in {"UpdateAccount", "RemoveAccount", "SetStorage"}, NEW ok \in BOOLEAN,
             ret' = SM!Reply(op, key, c.v, ok)
      PROVE  ret' \in SM!Replies /\ ret'.op # "GetStorage" /\ ret'.ok = ok
  <2>1. c.v \in SM!Value \cup {Zero, Absent}
    BY <1>1 DEF SM!Value
  <2> QED BY <1>1, <1>4, <2>1 DEF SM!Reply, SM!Replies
<1>5. CASE c.op = "UpdateAccount"
  <2>1. SM!UpdateAccount(c.a, c.v) /\ key = SM!EncodeToString(c.a) /\ ValueOf(c) = c.v
    BY <1>1, <1>2, <1>5 DEF SyncCall
  <2>2. /\ UNCHANGED <<ledger, open, reads, cache>>
        /\ \/ ret' = SM!Reply("UpdateAccount", key, c.v, TRUE) /\ writes' = [writes EXCEPT ![key] = ValueOf(c)]
           \/ ret' = SM!Reply("UpdateAccount", key, c.v, FALSE) /\ writes' = writes
    BY <2>1 DEF SM!UpdateAccount, SM!PutState, SM!Failed
  <2> QED BY <1>3, <1>4, <2>2 DEF key
<1>6. CASE c.op = "RemoveAccount"
  <2>1. SM!RemoveAccount(c.a) /\ key = SM!acctKey(c.a) /\ ValueOf(c) = Absent /\ c.v = Absent
    BY <1>1, <1>2, <1>6 DEF SyncCall
  <2>2. /\ UNCHANGED <<ledger, open, reads, cache>>
        /\ \/ ret' = SM!Reply("RemoveAccount", key, c.v, TRUE) /\ writes' = [writes EXCEPT ![key] = ValueOf(c)]
           \/ ret' = SM!Reply("RemoveAccount", key, c.v, FALSE) /\ writes' = writes
    BY <2>1 DEF SM!RemoveAccount, SM!DelState, SM!Failed
  <2> QED BY <1>3, <1>4, <2>2 DEF key
<1>7. CASE c.op = "SetStorage"
  <2>1. SM!SetStorage(c.a, c.k, c.v) /\ key = SM!compKey(c.a, c.k)
        /\ c.v \in Word \cup {Zero} /\ ValueOf(c) = IF c.v = Zero THEN Absent ELSE c.v
    BY <1>1, <1>2, <1>7 DEF SyncCall
  <2>2. /\ UNCHANGED <<ledger, open, reads>>
        /\ cache' = cache \/ (c.v # Zero /\ cache' = [cache EXCEPT ![key] = c.v])
        /\ \/ ret' = SM!Reply("SetStorage", key, c.v, TRUE) /\ writes' = [writes EXCEPT ![key] = ValueOf(c)]
           \/ ret' = SM!Reply("SetStorage", key, c.v, FALSE) /\ writes' = writes
    BY <2>1 DEF SM!SetStorage, SM!PutState, SM!DelState, SM!Failed
  <2>3. cache' \in [SM!WorldKey -> Word \cup {Unset}]
    BY <1>3, <2>1, <2>2
  <2> QED BY <1>4, <2>2, <2>3 DEF key
<1> QED BY <1>1, <1>5, <1>6, <1>7

\* The write set stays well-typed.
LEMMA CallKeepsWrites ==
  ASSUME EInv, NEW c \in Calls, NEW w, w = [writes EXCEPT ![KeyOf(c)] = ValueOf(c)]
  PROVE  /\ w \in [SM!WorldKey -> SM!Value \cup {Absent, Unset}]
         /\ \A key \in SM!WorldKey : w[key] = IF key = KeyOf(c) THEN ValueOf(c) ELSE writes[key]
         /\ \A a \in Address : /\ w[SM!acctKey(a)] \in Acct \cup {Absent, Unset}
                               /\ \A k \in Key : w[SM!compKey(a, k)] \in Word \cup {Absent, Unset}
<1>1. /\ c.a \in Address /\ KeyOf(c) = <<"lower", c.a, c.k>> /\ KeyOf(c) \in SM!WorldKey
      /\ \/ c.k = NoKey /\ ValueOf(c) \in Acct \cup {Absent}
         \/ c.k \in Key /\ ValueOf(c) \in Word \cup {Absent}
  BY CallParts
<1>2. writes \in [SM!WorldKey -> SM!Value \cup {Absent, Unset}]
  BY DEF EInv, LedgerInv, SM!TypeOK
<1>3. \A key \in SM!WorldKey : w[key] = IF key = KeyOf(c) THEN ValueOf(c) ELSE writes[key]
  BY <1>1, <1>2
<1>4. w \in [SM!WorldKey -> SM!Value \cup {Absent, Unset}]
  <2>1. ValueOf(c) \in SM!Value \cup {Absent, Unset}
    BY <1>1 DEF SM!Value
  <2> QED BY <1>1, <1>2, <2>1
<1>5. ASSUME NEW a \in Address PROVE w[SM!acctKey(a)] \in Acct \cup {Absent, Unset}
  <2>1. SM!acctKey(a) = <<"lower", a, NoKey>> /\ SM!acctKey(a) \in SM!WorldKey
    BY DEF SM!acctKey, SM!ToLower, SM!String, SM!WorldKey
  <2>2. writes[SM!acctKey(a)] \in Acct \cup {Absent, Unset}
    BY DEF EInv, WritesInv
  <2>3. SM!acctKey(a) = KeyOf(c) => c.k = NoKey
    BY <1>1, <2>1
  <2> QED BY <1>1, <1>3, <2>1, <2>2, <2>3, MarkerAssumption
<1>6. ASSUME NEW a \in Address, NEW k \in Key PROVE w[SM!compKey(a, k)] \in Word \cup {Absent, Unset}
  <2>1. SM!compKey(a, k) = <<"lower", a, k>> /\ SM!compKey(a, k) \in SM!WorldKey
    BY DEF SM!compKey, SM!ToLower, SM!String, SM!WorldKey
  <2>2. writes[SM!compKey(a, k)] \in Word \cup {Absent, Unset}
    BY DEF EInv, WritesInv
  <2>3. SM!compKey(a, k) = KeyOf(c) => c.k = k
    BY <1>1, <2>1
  <2> QED BY <1>1, <1>3, <2>1, <2>2, <2>3, MarkerAssumption
<1> QED BY <1>3, <1>4, <1>5, <1>6

LEMMA SyncStepKeeps ==
  ASSUME EInv, SyncStep
  PROVE  EInv'
<1> DEFINE f == frames[1]
<1>1. /\ phase = "sync" /\ todo # <<>> /\ UNCHANGED <<kind, frames, rtCode, logs, event, ops, minted, txs, limit>>
      /\ \/ ret'.ok /\ todo' = Tail(todo) /\ phase' = phase /\ resp' = resp
         \/ ~ret'.ok /\ phase' = "done" /\ resp' = "error" /\ todo' = todo
      /\ SyncCall(Head(todo))
  BY DEF SyncStep, Respond, SyncCall
<1>2. PICK s : s = todo /\ s \in Seq(Calls) /\ s # <<>>
  BY <1>1 DEF EInv, SyncInv
<1>3. PICK c : c = s[1] /\ c = Head(s)
  BY <1>2
<1>4. /\ Len(s) \in Nat /\ 1 \in 1 .. Len(s) /\ c \in Calls /\ Tail(s) \in Seq(Calls)
      /\ Len(Tail(s)) = Len(s) - 1 /\ \A j \in 1 .. Len(s) - 1 : Tail(s)[j] = s[j + 1]
  BY <1>2, <1>3
<1>5. SyncCall(c)
  BY <1>1, <1>2, <1>3
<1>6. /\ UNCHANGED <<ledger, open, reads>>
      /\ ret' \in SM!Replies /\ ret'.op # "GetStorage"
      /\ cache' \in [SM!WorldKey -> Word \cup {Unset}]
      /\ \/ ret'.ok /\ writes' = [writes EXCEPT ![KeyOf(c)] = ValueOf(c)]
         \/ ~ret'.ok /\ writes' = writes
  BY <1>4, <1>5, CallWrites
<1>7. PICK w : w = [writes EXCEPT ![KeyOf(c)] = ValueOf(c)]
  OBVIOUS
<1>8. /\ w \in [SM!WorldKey -> SM!Value \cup {Absent, Unset}]
      /\ \A key \in SM!WorldKey : w[key] = IF key = KeyOf(c) THEN ValueOf(c) ELSE writes[key]
      /\ \A a \in Address : /\ w[SM!acctKey(a)] \in Acct \cup {Absent, Unset}
                            /\ \A k \in Key : w[SM!compKey(a, k)] \in Word \cup {Absent, Unset}
  BY <1>4, <1>7, CallKeepsWrites
<1>9. LedgerInv'
  BY <1>6, <1>7, <1>8 DEF EInv, LedgerInv, SM!TypeOK
<1>10. WritesInv'
  BY <1>6, <1>7, <1>8 DEF EInv, WritesInv
<1>11. InvokeInv'
  BY <1>1 DEF EInv, InvokeInv
<1>12. frames # <<>>
  BY <1>1 DEF EInv, FramesInv
<1>13. FramesInv'
  BY <1>1, <1>6, <1>12, FramesKept
<1>14. ReadsInv'
  BY <1>6 DEF ReadsInv
<1>15. SyncInv'
  <2>1. open'
    BY <1>1, <1>6 DEF EInv, SyncInv
  <2>2. CASE ~ret'.ok
    BY <1>1, <2>1, <2>2 DEF SyncInv
  <2>3. CASE ret'.ok
    <3>1. phase' = "sync" /\ writes' = w
      BY <1>1, <1>6, <1>7, <2>3
    <3>2. PICK t : t = Tail(s) /\ t = todo'
      BY <1>1, <1>2, <2>3
    <3>3. /\ \A j \in 1 .. Len(s) : Target(f)[KeyOf(s[j])] = ValueOf(s[j])
          /\ \A key \in SM!WorldKey :
               \/ writes[key] = Target(f)[key]
               \/ writes[key] = Unset /\ \E j \in 1 .. Len(s) : KeyOf(s[j]) = key
      BY <1>1, <1>2 DEF EInv, SyncInv
    <3>4. Target(frames[1])' = Target(f)
      BY <1>1 DEF Target
    <3> HIDE DEF f
    <3>5. t \in Seq(Calls) /\ Len(t) = Len(s) - 1 /\ \A j \in 1 .. Len(t) : t[j] = s[j + 1] /\ j + 1 \in 1 .. Len(s)
      BY <1>4, <3>2
    <3>6. \A j \in 1 .. Len(t) : Target(f)[KeyOf(t[j])] = ValueOf(t[j])
      BY <3>3, <3>5
    <3>7. ASSUME NEW key \in SM!WorldKey
          PROVE  \/ w[key] = Target(f)[key]
                 \/ w[key] = Unset /\ \E j \in 1 .. Len(t) : KeyOf(t[j]) = key
      <4>1. CASE key = KeyOf(c)
        BY <1>3, <1>4, <1>8, <3>3, <4>1
      <4>2. CASE key # KeyOf(c)
        <5>1. w[key] = writes[key]
          BY <1>8, <4>2
        <5>2. CASE writes[key] = Target(f)[key]
          BY <5>1, <5>2
        <5>3. ASSUME writes[key] = Unset, NEW j \in 1 .. Len(s), KeyOf(s[j]) = key
              PROVE  \E m \in 1 .. Len(t) : KeyOf(t[m]) = key
          <6>1. j # 1
            BY <1>3, <4>2, <5>3
          <6>2. j - 1 \in 1 .. Len(t) /\ (j - 1) + 1 = j
            BY <1>4, <3>5, <6>1
          <6>3. t[j - 1] = s[j]
            BY <3>5, <6>2
          <6> QED BY <5>3, <6>2, <6>3
        <5> QED BY <3>3, <5>1, <5>2, <5>3
      <4> QED BY <4>1, <4>2
    <3>8. /\ todo' \in Seq(Calls)
          /\ \A j \in 1 .. Len(todo') : Target(frames[1])'[KeyOf(todo'[j])] = ValueOf(todo'[j])
          /\ \A key \in SM!WorldKey :
               \/ writes'[key] = Target(frames[1])'[key]
               \/ writes'[key] = Unset /\ \E j \in 1 .. Len(todo') : KeyOf(todo'[j]) = key
      BY <3>1, <3>2, <3>4, <3>5, <3>6, <3>7
    <3> QED BY <2>1, <3>1, <3>8 DEF SyncInv, KeyOf, ValueOf
  <2> QED BY <2>2, <2>3
<1> QED BY <1>9, <1>10, <1>11, <1>13, <1>14, <1>15 DEF EInv

LEMMA SyncDoneKeeps ==
  ASSUME EInv, SyncDone
  PROVE  EInv'
<1>1. /\ phase = "sync" /\ todo = <<>> /\ phase' = "done" /\ resp' = "ok"
      /\ UNCHANGED <<sm, kind, frames, rtCode, logs, event, todo, ops, minted, txs, limit>>
  BY DEF SyncDone, Respond
<1>2. UNCHANGED <<ledger, open, reads, writes, cache, ret>>
  BY <1>1 DEF sm
<1>3. LedgerInv' /\ WritesInv' /\ ReadsInv'
  BY <1>2 DEF EInv, LedgerInv, SM!TypeOK, WritesInv, ReadsInv
<1>4. InvokeInv'
  BY <1>1 DEF EInv, InvokeInv
<1>5. frames # <<>>
  BY <1>1 DEF EInv, FramesInv
<1>6. FramesInv'
  BY <1>1, <1>2, <1>5, FramesKept
<1>7. SyncInv'
  <2> DEFINE T == Target(frames[1])
  <2>1. 1 .. Len(todo) = {}
    BY <1>1, EmptyLen
  <2>2. \A key \in SM!WorldKey : writes[key] = T[key]
    BY <1>1, <2>1 DEF EInv, SyncInv
  <2>3. writes = [key \in SM!WorldKey |-> writes[key]] /\ T = [key \in SM!WorldKey |-> T[key]]
    BY DEF EInv, LedgerInv, SM!TypeOK, Target
  <2>4. writes = T
    <3> HIDE DEF T
    <3> QED BY <2>2, <2>3
  <2>5. Target(frames[1])' = T
    BY <1>1 DEF Target
  <2>6. frames' # <<>> /\ writes' = writes /\ open' = open
    BY <1>1, <1>2, <1>5
  <2>7. open
    BY <1>1 DEF EInv, SyncInv
  <2> HIDE DEF T
  <2> QED BY <1>1, <2>4, <2>5, <2>6, <2>7 DEF SyncInv
<1> QED BY <1>3, <1>4, <1>6, <1>7 DEF EInv

\* A commit applies the write set.
LEMMA CommitLedger ==
  ASSUME EInv, NEW l, l = SM!Applied(writes)
  PROVE  /\ l \in [SM!WorldKey -> SM!Value \cup {Absent}]
         /\ \A a \in Address : /\ l[SM!acctKey(a)] \in Acct \cup {Absent}
                               /\ \A k \in Key : l[SM!compKey(a, k)] \in Word \cup {Absent}
<1>1. \A key \in SM!WorldKey : l[key] = IF writes[key] = Unset THEN ledger[key] ELSE writes[key]
  BY DEF SM!Applied
<1>2. /\ ledger \in [SM!WorldKey -> SM!Value \cup {Absent}]
      /\ writes \in [SM!WorldKey -> SM!Value \cup {Absent, Unset}]
  BY DEF EInv, LedgerInv, SM!TypeOK
<1>3. l \in [SM!WorldKey -> SM!Value \cup {Absent}]
  <2>1. \A key \in SM!WorldKey : l[key] \in SM!Value \cup {Absent}
    BY <1>1, <1>2
  <2>2. l = [key \in SM!WorldKey |-> l[key]]
    BY DEF SM!Applied
  <2> QED BY <2>1, <2>2
<1>4. ASSUME NEW a \in Address PROVE l[SM!acctKey(a)] \in Acct \cup {Absent}
  <2>1. SM!acctKey(a) \in SM!WorldKey
    BY DEF SM!acctKey, SM!ToLower, SM!String, SM!WorldKey
  <2>2. ledger[SM!acctKey(a)] \in Acct \cup {Absent} /\ writes[SM!acctKey(a)] \in Acct \cup {Absent, Unset}
    BY DEF EInv, LedgerInv, WritesInv
  <2> QED BY <1>1, <2>1, <2>2
<1>5. ASSUME NEW a \in Address, NEW k \in Key PROVE l[SM!compKey(a, k)] \in Word \cup {Absent}
  <2>1. SM!compKey(a, k) \in SM!WorldKey
    BY KeysIn
  <2>2. ledger[SM!compKey(a, k)] \in Word \cup {Absent} /\ writes[SM!compKey(a, k)] \in Word \cup {Absent, Unset}
    BY DEF EInv, LedgerInv, WritesInv
  <2> QED BY <1>1, <2>1, <2>2
<1> QED BY <1>3, <1>4, <1>5

LEMMA NoWritesTyped ==
  /\ SM!NoWrites \in [SM!WorldKey -> SM!Value \cup {Absent, Unset}]
  /\ \A a \in Address : /\ SM!NoWrites[SM!acctKey(a)] = Unset
                        /\ \A k \in Key : SM!NoWrites[SM!compKey(a, k)] = Unset
<1>1. \A a \in Address : SM!acctKey(a) \in SM!WorldKey /\ \A k \in Key : SM!compKey(a, k) \in SM!WorldKey
  BY DEF SM!acctKey, SM!compKey, SM!ToLower, SM!String, SM!WorldKey
<1>2. \A key \in SM!WorldKey : SM!NoWrites[key] = Unset
  BY DEF SM!NoWrites
<1>3. SM!NoWrites \in [SM!WorldKey -> SM!Value \cup {Absent, Unset}]
  BY DEF SM!NoWrites
<1> QED BY <1>1, <1>2, <1>3

LEMMA EndTxKeeps ==
  ASSUME EInv, EndTx
  PROVE  EInv'
<1>1. /\ (resp = "ok" /\ SM!Commit) \/ SM!Discard
      /\ phase' = "idle" /\ frames' = <<>> /\ logs' = <<>> /\ todo' = <<>> /\ resp' = "none"
      /\ ops' = 0 /\ UNCHANGED <<minted, txs, limit>>
  BY DEF EndTx
<1>2. /\ ledger' = ledger \/ ledger' = SM!Applied(writes)
      /\ ~open' /\ open' \in BOOLEAN /\ reads' = {} /\ writes' = SM!NoWrites /\ cache' = cache /\ ret' = ret
  BY <1>1 DEF SM!Commit, SM!Discard
<1>3. /\ ledger' \in [SM!WorldKey -> SM!Value \cup {Absent}]
      /\ \A a \in Address : /\ ledger'[SM!acctKey(a)] \in Acct \cup {Absent}
                            /\ \A k \in Key : ledger'[SM!compKey(a, k)] \in Word \cup {Absent}
  <2>1. CASE ledger' = ledger
    <3>1. /\ ledger \in [SM!WorldKey -> SM!Value \cup {Absent}]
          /\ \A a \in Address : /\ ledger[SM!acctKey(a)] \in Acct \cup {Absent}
                                /\ \A k \in Key : ledger[SM!compKey(a, k)] \in Word \cup {Absent}
      BY DEF EInv, LedgerInv, SM!TypeOK
    <3> QED BY <2>1, <3>1
  <2>2. CASE ledger' = SM!Applied(writes)
    <3>1. PICK l : l = ledger' /\ l = SM!Applied(writes)
      BY <2>2
    <3> QED BY <3>1, CommitLedger
  <2> QED BY <1>2, <2>1, <2>2
<1>4. LedgerInv'
  BY <1>2, <1>3, NoWritesTyped DEF EInv, LedgerInv, SM!TypeOK, SM!acctKey, SM!compKey, SM!ToLower, SM!String
<1>5. WritesInv'
  BY <1>2, NoWritesTyped DEF WritesInv
<1>6. InvokeInv'
  <2>1. limit' \in Limits /\ limit.depth \in Nat /\ limit.ops \in Nat /\ limit' = limit
    BY <1>1, EvmConstants DEF EInv, InvokeInv
  <2>2. Len(frames') = 0 /\ 0 <= limit.depth /\ 0 <= limit.ops /\ logs' \in Seq([addr : Address, live : BOOLEAN])
    BY <1>1, <2>1
  <2> QED BY <1>1, <2>1, <2>2 DEF EInv, InvokeInv
<1>7. FramesInv'
  <2>1. frames' \in Seq(FrameType) /\ 1 .. Len(frames') = {}
    BY <1>1, EmptyLen
  <2>2. Good(frames, Len(logs))' /\ CreateFrames(frames)'
    BY <2>1 DEF Good, CreateFrames, LoadedDown, StaticFrames, RecordFrames
  <2> QED BY <1>1, <2>2 DEF FramesInv
<1>8. SyncInv'
  BY <1>1, <1>2 DEF SyncInv
<1>9. ReadsInv'
  BY <1>2 DEF ReadsInv
<1> QED BY <1>4, <1>5, <1>6, <1>7, <1>8, <1>9 DEF EInv

LEMMA StutterKeeps ==
  ASSUME EInv, UNCHANGED vars
  PROVE  EInv'
<1>1. /\ UNCHANGED <<ledger, open, reads, writes, cache, ret>>
      /\ UNCHANGED <<phase, kind, rtCode, logs, event, todo, resp>>
      /\ UNCHANGED <<frames, ops, minted, txs, limit>>
  BY DEF vars, sm, invoke
<1>2. LedgerInv' /\ WritesInv' /\ InvokeInv' /\ ReadsInv'
  BY <1>1 DEF EInv, LedgerInv, SM!TypeOK, WritesInv, InvokeInv, ReadsInv
<1>3. FramesInv'
  <2>1. PICK gs : gs = frames' /\ gs = frames
    BY <1>1
  <2>2. PICK L : L = Len(logs') /\ L = Len(logs)
    BY <1>1
  <2>3. Good(gs, L) /\ CreateFrames(gs)
    BY <2>1, <2>2 DEF EInv, FramesInv
  <2>4. Good(frames, Len(logs))' /\ CreateFrames(frames)'
    BY <1>1, <2>1, <2>2, <2>3, FramesStep
  <2> QED BY <1>1, <2>4 DEF EInv, FramesInv
<1>4. SyncInv'
  <2>1. Target(frames[1])' = Target(frames[1])
    BY <1>1 DEF Target
  <2> QED BY <1>1, <2>1 DEF EInv, SyncInv, KeyOf, ValueOf
<1> QED BY <1>2, <1>3, <1>4 DEF EInv

----------------------------------------------------------------------------
(* The invariant.                                                          *)

LEMMA InitEInv == Init => EInv
<1> SUFFICES ASSUME Init PROVE EInv
  OBVIOUS
<1>1. /\ SM!Init /\ phase = "idle" /\ frames = <<>> /\ logs = <<>> /\ resp = "none"
      /\ limit \in Limits /\ ops = 0 /\ minted = limit.spent /\ txs = 0
  BY DEF Init
<1>2. /\ ledger = [key \in SM!WorldKey |-> Absent] /\ open = FALSE /\ reads = {}
      /\ writes = SM!NoWrites /\ cache = SM!EmptyCache /\ ret = SM!NoReply
  BY <1>1 DEF SM!Init
<1>3. LedgerInv
  <2>1. SM!NoReply \in SM!Replies
    <3>1. \E a \in Address : TRUE
      <4>1. Len(AddrOrder) \in 1 .. Len(AddrOrder) /\ DOMAIN AddrOrder = 1 .. Len(AddrOrder)
        BY EvmConstants
      <4> QED BY <4>1 DEF Address
    <3>2. (CHOOSE a \in Address : TRUE) \in Address
      BY <3>1
    <3> QED BY <3>2 DEF SM!NoReply, SM!Replies, SM!Reply, SM!EncodeToString, SM!WorldKey, SM!Value
  <2>2. SM!TypeOK
    BY <1>2, <2>1 DEF SM!TypeOK, SM!NoWrites, SM!EmptyCache
  <2>3. \A a \in Address : SM!acctKey(a) \in SM!WorldKey /\ \A k \in Key : SM!compKey(a, k) \in SM!WorldKey
    BY DEF SM!acctKey, SM!compKey, SM!ToLower, SM!String, SM!WorldKey
  <2>4. \A key \in SM!WorldKey : ledger[key] = Absent
    BY <1>2
  <2> QED BY <2>2, <2>3, <2>4 DEF LedgerInv
<1>4. WritesInv
  BY <1>2, NoWritesTyped DEF WritesInv
<1>5. InvokeInv
  <2>1. limit.depth \in Nat /\ limit.ops \in Nat /\ limit.txs \in Nat /\ limit.spent \subseteq NewAddr
    BY <1>1, EvmConstants
  <2>2. Len(frames) = 0 /\ 0 <= limit.depth /\ 0 <= limit.ops /\ 0 <= limit.txs
        /\ logs \in Seq([addr : Address, live : BOOLEAN])
    BY <1>1, <2>1
  <2> QED BY <1>1, <2>1, <2>2 DEF InvokeInv
<1>6. FramesInv
  BY <1>1, EmptyGood DEF FramesInv
<1>7. SyncInv
  BY <1>1, <1>2 DEF SyncInv
<1>8. ReadsInv
  BY <1>2 DEF ReadsInv
<1> QED BY <1>3, <1>4, <1>5, <1>6, <1>7, <1>8 DEF EInv

LEMMA EvmKeeps ==
  ASSUME EInv, Evm
  PROVE  EInv'
<1>1. CASE \E k \in Key : SLOAD(k)
  BY <1>1, SLOADKeeps
<1>2. CASE \E k \in Key, v \in Word \cup {Zero} : SSTORE(k, v)
  BY <1>2, SSTOREKeeps
<1>3. CASE LOG
  BY <1>3, LOGKeeps
<1>4. CASE \E op \in {"CALL", "DELEGATECALL", "STATICCALL"}, t \in Address : CALL(op, t)
  BY <1>4, CALLKeeps
<1>5. CASE \E a \in NewAddr : CREATE(a)
  BY <1>5, CREATEKeeps
<1>6. CASE CREATE2
  BY <1>6, CREATE2Keeps
<1>7. CASE (\E c \in Code \cup {NoCode} : RETURN(c)) \/ STOP
  <2>1. PICK c \in Code \cup {NoCode, Absent} : RETURN(c) \/ (c = Absent /\ STOP)
    BY <1>7
  <2>2. /\ phase = "evm" /\ ~Top.err /\ Returning(frames, c)
        /\ EvmUnchanged /\ UNCHANGED <<sm, logs, ops, minted>>
    BY <2>1 DEF RETURN, STOP
  <2> QED BY <2>2, RETURNKeeps
<1>8. CASE \E r \in Address : SELFDESTRUCT(r)
  BY <1>8, SELFDESTRUCTKeeps
<1>9. CASE Revert
  BY <1>9, RevertKeeps
<1>10. CASE Unwind
  BY <1>10, UnwindKeeps
<1> QED BY <1>1, <1>2, <1>3, <1>4, <1>5, <1>6, <1>7, <1>8, <1>9, <1>10 DEF Evm

LEMMA NextEInv == EInv /\ [Next]_vars => EInv'
<1> SUFFICES ASSUME EInv, [Next]_vars PROVE EInv'
  OBVIOUS
<1>1. CASE InvokeRefused \/ \E kd \in {"deploy", "invoke", "getCode", "account"} : Invoke(kd)
  BY <1>1, InvokeKeeps
<1>2. CASE \E a \in Address : InvokeGetCode(a)
  BY <1>2, InvokeGetCodeKeeps
<1>3. CASE InvokeAccount \/ StartFails
  BY <1>3, InvokeAccountKeeps
<1>4. CASE \E a \in NewAddr : Deploy(a)
  BY <1>4, DeployKeeps
<1>5. CASE \E a \in Address : CallContract(a)
  BY <1>5, CallContractKeeps
<1>6. CASE Evm
  BY <1>6, EvmKeeps
<1>7. CASE \E data \in {"empty", "short", "full"} : Flush(data)
  BY <1>7, FlushKeeps
<1>8. CASE SyncStep
  BY <1>8, SyncStepKeeps
<1>9. CASE SyncDone
  BY <1>9, SyncDoneKeeps
<1>10. CASE EndTx
  BY <1>10, EndTxKeeps
<1>11. CASE Idle \/ UNCHANGED vars
  BY <1>11, StutterKeeps DEF Idle
<1> QED BY <1>1, <1>2, <1>3, <1>4, <1>5, <1>6, <1>7, <1>8, <1>9, <1>10, <1>11 DEF Next

\* EInv is the inductive invariant of evmcc's Invoke: what the stack of caches,
\* the ledger, the write set and the calls Sync has still to make have to do
\* with one another at every step of a transaction.
THEOREM CachesConsistent == Spec => []EInv
BY InitEInv, NextEInv, PTL DEF Spec

\* TypeOK: the state manager's and Invoke's state, and every cached account and
\* word, are of their types; Invoke keeps to the limits of gas and depth.
THEOREM EvmTypes == Spec => []TypeOK
<1>1. ASSUME EInv PROVE TypeOK
  <2>1. frames \in Seq(FrameType)
    BY <1>1 DEF EInv, FramesInv, Good
  <2>2. ASSUME NEW i \in DOMAIN frames, NEW a \in Address, frames[i].accounts[a].loaded
        PROVE  /\ frames[i].accounts[a].account \in Acct \cup {Absent}
               /\ frames[i].accounts[a].storage \in [Key -> Word \cup {Zero, Unset}]
    <3>1. i \in 1 .. Len(frames)
      BY <2>1
    <3>2. frames[i].accounts[a] \in Infos
      BY <2>1, <2>2, <3>1, FrameParts
    <3> QED BY <3>2 DEF Infos
  <2> QED BY <1>1, <2>2 DEF EInv, LedgerInv, InvokeInv, TypeOK
<1> QED BY <1>1, CachesConsistent, PTL

\* EvmReadsOwnWrites: what the EVM reads of a contract's storage is what the
\* transaction would commit, since Sync, with the first write, comes after the
\* last read.  It fails of the state manager alone.
THEOREM EvmReads == Spec => []EvmReadsOwnWrites
<1>1. ASSUME EInv PROVE EvmReadsOwnWrites
  <2> SUFFICES ASSUME open, ret.ok, ret.op = "GetStorage"
               PROVE  ret.val = SM!LeftPadWord256(SM!Applied(writes)[ret.key])
    BY DEF EvmReadsOwnWrites, SM!ReadYourWrites
  <2>1. writes = SM!NoWrites /\ ret.val = SM!LeftPadWord256(ledger[ret.key])
    BY <1>1 DEF EInv, ReadsInv
  <2>2. ret.key \in SM!WorldKey
    BY <1>1 DEF EInv, LedgerInv, SM!TypeOK, SM!Replies
  <2>3. SM!Applied(writes)[ret.key] = ledger[ret.key]
    BY <2>1, <2>2 DEF SM!Applied, SM!NoWrites
  <2> QED BY <2>1, <2>3
<1> QED BY <1>1, CachesConsistent, PTL

LEMMA AcctStep ==
  ASSUME NEW fs \in Seq(FrameType), NEW a \in Address, NEW p \in 1 .. Len(fs)
  PROVE  AcctAt(fs, p, a) = IF ~fs[p].accounts[a].loaded THEN AcctAt(fs, p - 1, a)
                            ELSE IF fs[p].accounts[a].removed THEN Absent
                            ELSE fs[p].accounts[a].account
<1>1. PICK k : k = NoKey
  OBVIOUS
<1> QED BY AtStep

\* StaticCallPure: a STATICCALL, and every call made inside it, sees the world
\* of its caller and logs nothing, because readonly is handed on to every
\* frame above and a read-only cache refuses to be written.
THEOREM StaticCalls == Spec => []StaticCallPure
<1>1. ASSUME EInv PROVE StaticCallPure
  <2>1. frames \in Seq(FrameType) /\ StaticFrames(frames, Len(logs))
    BY <1>1 DEF EInv, FramesInv, Good
  <2>2. Len(frames) \in Nat /\ DOMAIN frames = 1 .. Len(frames)
    BY <2>1
  <2>3. ASSUME NEW i \in 1 .. Len(frames), frames[i].readonly
        PROVE  /\ Len(logs) = frames[i].mark
               /\ \A j \in i .. Len(frames) : View(SubSeq(frames, 1, j)) = View(SubSeq(frames, 1, i - 1))
    <3>1. frames[i].mark = Len(logs) /\ \A j \in i .. Len(frames) : frames[j].readonly
      BY <2>1, <2>3 DEF StaticFrames
    <3> DEFINE same(j) == \A a \in Address : /\ AcctAt(frames, j, a) = AcctAt(frames, i - 1, a)
                                             /\ \A k \in Key : WordAt(frames, j, a, k) = WordAt(frames, i - 1, a, k)
               S == {d \in Nat : i - 1 + d <= Len(frames) => same(i - 1 + d)}
    <3>2. 0 \in S
      <4>1. i - 1 + 0 = i - 1
        BY <2>2
      <4> QED BY <4>1
    <3>3. ASSUME NEW d \in S PROVE d + 1 \in S
      <4>0. d \in Nat /\ (i - 1 + d <= Len(frames) => same(i - 1 + d))
        BY <3>3
      <4> SUFFICES ASSUME i - 1 + (d + 1) <= Len(frames) PROVE same(i - 1 + (d + 1))
        BY <4>0
      <4>1. PICK j : j = i - 1 + (d + 1)
        OBVIOUS
      <4>2. j \in i .. Len(frames) /\ j \in 1 .. Len(frames) /\ j - 1 = i - 1 + d /\ i - 1 + d <= Len(frames)
        BY <2>2, <4>0, <4>1
      <4>3. same(j - 1)
        BY <4>0, <4>2
      <4>4. frames[j].readonly
        BY <3>1, <4>2
      <4>5. ASSUME NEW a \in Address
            PROVE  /\ AcctAt(frames, j, a) = AcctAt(frames, j - 1, a)
                   /\ \A k \in Key : WordAt(frames, j, a, k) = WordAt(frames, j - 1, a, k)
        <5>1. frames[j].accounts[a].loaded =>
                /\ ~frames[j].accounts[a].removed
                /\ frames[j].accounts[a].account = AcctAt(frames, j - 1, a)
                /\ \A k \in Key : frames[j].accounts[a].storage[k] # Unset =>
                     frames[j].accounts[a].storage[k] = WordAt(frames, j - 1, a, k)
          BY <2>1, <4>2, <4>4 DEF StaticFrames
        <5>2. \A k \in Key : 
                /\ AcctAt(frames, j, a) = IF ~frames[j].accounts[a].loaded THEN AcctAt(frames, j - 1, a)
                                          ELSE IF frames[j].accounts[a].removed THEN Absent
                                          ELSE frames[j].accounts[a].account
                /\ WordAt(frames, j, a, k) =
                     IF frames[j].accounts[a].loaded /\ frames[j].accounts[a].storage[k] # Unset
                     THEN frames[j].accounts[a].storage[k] ELSE WordAt(frames, j - 1, a, k)
          BY <2>1, <4>2, AtStep
        <5>3. AcctAt(frames, j, a) = IF ~frames[j].accounts[a].loaded THEN AcctAt(frames, j - 1, a)
                                     ELSE IF frames[j].accounts[a].removed THEN Absent
                                     ELSE frames[j].accounts[a].account
          BY <2>1, <4>2, AcctStep
        <5> QED BY <5>1, <5>2, <5>3
      <4>6. same(j)
        BY <4>3, <4>5
      <4> QED BY <4>1, <4>6
    <3>6. S \in SUBSET Nat
      OBVIOUS
    <3> HIDE DEF S
    <3>4. \A d \in Nat : d \in S
      BY <3>2, <3>3, <3>6, Induction
    <3>5. ASSUME NEW j \in i .. Len(frames)
          PROVE  View(SubSeq(frames, 1, j)) = View(SubSeq(frames, 1, i - 1))
      <4>1. PICK d \in Nat : j = i - 1 + d
        <5>1. j - (i - 1) \in Nat /\ j = i - 1 + (j - (i - 1))
          BY <2>2
        <5> QED BY <5>1
      <4>2. d \in S /\ i - 1 + d <= Len(frames)
        BY <2>2, <3>4, <4>1
      <4>3. same(j)
        BY <4>1, <4>2 DEF S
      <4> HIDE DEF same
      <4>4. \A a \in Address : /\ AcctIn(SubSeq(frames, 1, j), a) = AcctIn(SubSeq(frames, 1, i - 1), a)
                               /\ \A k \in Key : WordIn(SubSeq(frames, 1, j), a, k) = WordIn(SubSeq(frames, 1, i - 1), a, k)
        BY <4>3 DEF same, AcctAt, WordAt
      <4> QED BY <4>4 DEF View, Exists
    <3> QED BY <3>1, <3>5
  <2> QED BY <2>2, <2>3 DEF StaticCallPure
<1> QED BY <1>1, CachesConsistent, PTL

----------------------------------------------------------------------------
(* What a step makes of the ledger.                                        *)

\* Only the commit of a successful transaction changes the ledger.
LEMMA LedgerStep ==
  ASSUME EInv, [Next]_vars
  PROVE  \/ ledger' = ledger
         \/ phase = "done" /\ resp = "ok" /\ ledger' = SM!Applied(writes)
<1>1. CASE InvokeRefused \/ \E kd \in {"deploy", "invoke", "getCode", "account"} : Invoke(kd)
  BY <1>1 DEF InvokeRefused, Invoke, SM!NewStateManager
<1>2. CASE \E a \in Address : InvokeGetCode(a)
  BY <1>2 DEF InvokeGetCode, SM!GetAccount, SM!Failed
<1>3. CASE InvokeAccount \/ StartFails \/ SyncDone \/ Idle \/ UNCHANGED vars
  BY <1>3 DEF InvokeAccount, StartFails, SyncDone, Idle, vars, sm
<1>4. ASSUME NEW fs, NEW a \in Address, Fetch(fs, a) PROVE ledger' = ledger
  BY <1>4 DEF Fetch, SM!GetAccount, SM!Failed, sm
<1>5. CASE \E a \in NewAddr : Deploy(a)
  <2>1. PICK a \in NewAddr : Deploy(a)
    BY <1>5
  <2>2. a \in Address /\ Fetch(<<Frame(a, FALSE, FALSE)>>, a)
    BY <2>1, EvmConstants DEF Deploy
  <2> QED BY <1>4, <2>2
<1>6. CASE \E a \in Address : CallContract(a)
  <2>1. PICK a \in Address : CallContract(a)
    BY <1>6
  <2>2. Fetch(<<Frame(a, FALSE, FALSE)>>, a)
    BY <2>1 DEF CallContract
  <2> QED BY <1>4, <2>2
<1>7. CASE Evm
  <2>0. UNCHANGED sm => ledger' = ledger
    BY DEF sm
  <2>1. CASE \E k \in Key : SLOAD(k)
    <3>1. PICK k \in Key : FetchWord(frames, Top.callee, k)
      BY <2>1 DEF SLOAD
    <3> QED BY <2>0, <3>1 DEF FetchWord, SM!GetStorage, SM!Failed
  <2>2. CASE \E k \in Key, v \in Word \cup {Zero} : SSTORE(k, v)
    <3>1. Fetch(frames, Top.callee)
      BY <2>2 DEF SSTORE
    <3> QED BY <2>0, <3>1 DEF Fetch, SM!GetAccount, SM!Failed
  <2>3. CASE LOG \/ Revert \/ Unwind \/ STOP \/ \E c \in Code \cup {NoCode} : RETURN(c)
    BY <2>0, <2>3 DEF LOG, Revert, Unwind, STOP, RETURN
  <2>4. CASE \E op \in {"CALL", "DELEGATECALL", "STATICCALL"}, t \in Address : CALL(op, t)
    <3>1. PICK t \in Address : IF Permitted THEN Fetch(frames, t) ELSE UNCHANGED sm
      BY <2>4 DEF CALL
    <3> QED BY <1>4, <2>0, <3>1
  <2>5. CASE CREATE2 \/ \E a \in NewAddr : CREATE(a)
    <3>1. PICK a : Creating(a)
      BY <2>5 DEF CREATE, CREATE2
    <3>2. PICK gs : Fetch(gs, a) \/ UNCHANGED sm
      BY <3>1 DEF Creating
    <3> QED BY <2>0, <3>2 DEF Fetch, SM!GetAccount, SM!Failed
  <2>6. CASE \E r \in Address : SELFDESTRUCT(r)
    <3>1. PICK r \in Address : Fetch(frames, r)
      BY <2>6 DEF SELFDESTRUCT
    <3> QED BY <1>4, <3>1
  <2> QED BY <1>7, <2>1, <2>2, <2>3, <2>4, <2>5, <2>6 DEF Evm
<1>8. CASE \E data \in {"empty", "short", "full"} : Flush(data)
  BY <1>8 DEF Flush, sm
<1>9. CASE SyncStep
  <2>1. PICK c : c = Head(todo) /\ c \in Calls /\ SyncCall(c)
    <3>1. phase = "sync" /\ todo # <<>> /\ SyncCall(Head(todo))
      BY <1>9 DEF SyncStep, SyncCall
    <3>2. PICK s : s = todo /\ s \in Seq(Calls) /\ s # <<>>
      BY <3>1 DEF EInv, SyncInv
    <3> QED BY <3>1, <3>2
  <2> QED BY <2>1, CallWrites
<1>10. CASE EndTx
  <2>1. phase = "done" /\ ((resp = "ok" /\ SM!Commit) \/ SM!Discard)
    BY <1>10 DEF EndTx
  <2> QED BY <2>1 DEF SM!Commit, SM!Discard
<1> QED BY <1>1, <1>2, <1>3, <1>5, <1>6, <1>7, <1>8, <1>9, <1>10 DEF Next

\* What a successful transaction writes of an account.
LEMMA Committed ==
  ASSUME EInv, phase = "done", resp = "ok", NEW l, l = SM!Applied(writes), NEW a \in Address
  PROVE  /\ ledger[SM!acctKey(a)] # Absent => l[SM!acctKey(a)] \in {ledger[SM!acctKey(a)], Absent}
         /\ \A k \in Key : l[SM!compKey(a, k)] # ledger[SM!compKey(a, k)] => l[SM!acctKey(a)] # Absent
<1> DEFINE key == SM!acctKey(a)
           f == frames[1]
           i == f.accounts[a]
<1>0. /\ key = <<"lower", a, NoKey>> /\ key \in SM!WorldKey
      /\ \A k \in Key : SM!compKey(a, k) = <<"lower", a, k>> /\ SM!compKey(a, k) \in SM!WorldKey
  BY DEF SM!acctKey, SM!compKey, SM!ToLower, SM!String, SM!WorldKey
<1>1. \A x \in SM!WorldKey : l[x] = IF writes[x] = Unset THEN ledger[x] ELSE writes[x]
  BY DEF SM!Applied
<1>2. CASE frames = <<>>
  <2>1. \A x \in SM!WorldKey : writes[x] = Unset
    BY <1>2 DEF EInv, SyncInv, SM!NoWrites
  <2> QED BY <1>0, <1>1, <2>1
<1>3. CASE frames # <<>>
  <2>1. /\ f \in FrameType /\ 1 \in 1 .. Len(frames)
        /\ i.loaded /\ i.updated => i.account # Absent
    BY <1>3, Outermost
  <2>2. writes = Target(f)
    BY <1>3 DEF EInv, SyncInv
  <2>3. writes[key] = IF ~i.loaded THEN Unset ELSE IF i.removed THEN Absent
                      ELSE IF i.updated THEN i.account ELSE Unset
    <3>1. key[1] = "lower" /\ key[2] = a /\ key[3] = NoKey
      BY <1>0
    <3> HIDE DEF key
    <3> QED BY <1>0, <2>2, <3>1 DEF Target
  <2>4. \A k \in Key : writes[SM!compKey(a, k)] # Unset => i.loaded /\ ~i.removed /\ i.updated
    <3>1. ASSUME NEW k \in Key
          PROVE  /\ SM!compKey(a, k) \in SM!WorldKey /\ SM!compKey(a, k)[1] = "lower"
                 /\ SM!compKey(a, k)[2] = a /\ SM!compKey(a, k)[3] # NoKey
      BY <1>0, MarkerAssumption
    <3> QED BY <2>2, <3>1 DEF Target
  <2>5. i.loaded /\ ~i.removed /\ ledger[key] # Absent => i.account = ledger[key]
    <3>1. ~RemovedBelow(frames, 1, a)
      <4>1. 1 .. 1 - 1 = {}
        OBVIOUS
      <4> QED BY <4>1 DEF RemovedBelow
    <3> QED BY <2>1, <3>1 DEF EInv, FramesInv, Good, RecordFrames
  <2>6. ledger[key] # Absent => l[key] \in {ledger[key], Absent}
    BY <1>0, <1>1, <2>3, <2>5
  <2>7. i.loaded /\ ~i.removed /\ i.updated => l[key] # Absent
    <3>1. i.loaded => i \in Infos
      <4>1. i \in Infos \cup {NotLoaded}
        BY <2>1 DEF FrameType
      <4> QED BY <4>1 DEF NotLoaded
    <3>2. i.loaded => i.account \in Acct \cup {Absent}
      BY <3>1 DEF Infos
    <3> QED BY <1>0, <1>1, <2>1, <2>3, <3>2, MarkerAssumption
  <2>8. \A k \in Key : l[SM!compKey(a, k)] # ledger[SM!compKey(a, k)] => writes[SM!compKey(a, k)] # Unset
    BY <1>0, <1>1
  <2> QED BY <2>4, <2>6, <2>7, <2>8
<1> QED BY <1>2, <1>3

\* RecordsImmutable: no transaction gives an account of the ledger another code
\* or other permissions.  Code is set only for accounts just created, and an
\* account can be created only where there is none; that a transaction may
\* remove an account and create another in its place needs RemovedBelow.
THEOREM RecordsStay == Spec => RecordsImmutable
<1>1. ASSUME EInv, [Next]_vars
      PROVE  [\A a \in Address :
                LET key == SM!acctKey(a) IN
                ledger[key] # Absent => ledger'[key] \in {ledger[key], Absent}]_vars
  <2>1. CASE ledger' = ledger
    BY <2>1
  <2>2. CASE phase = "done" /\ resp = "ok" /\ ledger' = SM!Applied(writes)
    <3>1. PICK l : l = ledger' /\ l = SM!Applied(writes)
      BY <2>2
    <3>2. \A a \in Address :
            ledger[SM!acctKey(a)] # Absent => l[SM!acctKey(a)] \in {ledger[SM!acctKey(a)], Absent}
      BY <1>1, <2>2, <3>1, Committed
    <3> QED BY <3>1, <3>2
  <2> QED BY <1>1, <2>1, <2>2, LedgerStep
<1>2. Spec => [][Next]_vars
  BY DEF Spec
<1> QED BY <1>1, <1>2, CachesConsistent, PTL DEF RecordsImmutable

\* SlotsNeedAccount: a committed change of a word comes with its account.  The
\* outermost cache writes words only of accounts it has updated and not
\* removed, and an updated account exists.
THEOREM SlotsHaveAccounts == Spec => SlotsNeedAccount
<1>1. ASSUME EInv, [Next]_vars
      PROVE  [\A a \in Address, k \in Key :
                ledger'[SM!compKey(a, k)] # ledger[SM!compKey(a, k)] =>
                  ledger'[SM!acctKey(a)] # Absent]_vars
  <2>1. CASE ledger' = ledger
    BY <2>1
  <2>2. CASE phase = "done" /\ resp = "ok" /\ ledger' = SM!Applied(writes)
    <3>1. PICK l : l = ledger' /\ l = SM!Applied(writes)
      BY <2>2
    <3>2. \A a \in Address, k \in Key :
            l[SM!compKey(a, k)] # ledger[SM!compKey(a, k)] => l[SM!acctKey(a)] # Absent
      BY <1>1, <2>2, <3>1, Committed
    <3> QED BY <3>1, <3>2
  <2> QED BY <1>1, <2>1, <2>2, LedgerStep
<1>2. Spec => [][Next]_vars
  BY DEF Spec
<1> QED BY <1>1, <1>2, CachesConsistent, PTL DEF SlotsNeedAccount
=============================================================================
