--------------------------- MODULE EvmNestedProofs ---------------------------
(***************************************************************************)
(* EvmChaincode implements NestedTx: the stack of caches is a stack of      *)
(* worlds, each instruction changes one account of the innermost, a call    *)
(* pushes a copy, Cache.Sync hands a copy down or drops it, and a commit    *)
(* makes of the ledger the world the outermost call ended with.             *)
(***************************************************************************)
EXTENDS EvmChaincodeProofs

----------------------------------------------------------------------------
(* Worlds.                                                                 *)

\* The account a in the world that the frames up to p see.
Shown(fs, p, a) == View(SubSeq(fs, 1, p))[a]

\* What a cache holds and has not changed is what the caches below hold.
Clean(fs) ==
  \A i \in 1 .. Len(fs) : \A a \in Address :
    /\ fs[i].accounts[a].loaded /\ ~fs[i].accounts[a].removed /\ ~fs[i].accounts[a].updated
    => /\ fs[i].accounts[a].account = AcctAt(fs, i - 1, a)
       /\ \A k \in Key : fs[i].accounts[a].storage[k] # Unset =>
            fs[i].accounts[a].storage[k] = WordAt(fs, i - 1, a, k)

\* After the EVM there is one frame; if the call has returned it has not failed.
Ended ==
  /\ phase \in {"flush", "sync", "done"} => Len(frames) <= 1
  /\ phase \in {"flush", "sync"} \/ (phase = "done" /\ resp = "ok") => frames = <<>> \/ ~frames[1].err

SameLabel(f, g) == g.callee = f.callee /\ g.create = f.create
SameCalls(fs, gs, m) == \A i \in 1 .. m : SameLabel(fs[i], gs[i]) /\ gs[i].err = fs[i].err

\* gs show what fs show, but for account c in the innermost frame, which may fail.
Touches(fs, gs, c) ==
  /\ Len(gs) = Len(fs)
  /\ SameCalls(fs, gs, Len(fs) - 1) /\ (fs # <<>> => SameLabel(fs[Len(fs)], gs[Len(fs)]))
  /\ \A p \in 0 .. Len(fs) : \A a \in Address :
       p < Len(fs) \/ a # c => Shown(gs, p, a) = Shown(fs, p, a)

\* gs have one frame more, which differs from the one below in account c only.
Pushes(fs, gs, c) ==
  /\ Len(gs) = Len(fs) + 1
  /\ SameCalls(fs, gs, Len(fs))
  /\ \A a \in Address : /\ \A p \in 0 .. Len(fs) : Shown(gs, p, a) = Shown(fs, p, a)
                        /\ a # c => Shown(gs, Len(fs) + 1, a) = Shown(fs, Len(fs), a)

\* gs have one frame less: the innermost is dropped, or handed down.
Drops(fs, gs) ==
  /\ Len(gs) = Len(fs) - 1
  /\ SameCalls(fs, gs, Len(fs) - 2) /\ SameLabel(fs[Len(fs) - 1], gs[Len(fs) - 1])
  /\ \A a \in Address : \A p \in 0 .. Len(fs) - 1 : Shown(gs, p, a) = Shown(fs, p, a)
HandsDown(fs, gs, c) ==
  /\ Len(gs) = Len(fs) - 1
  /\ SameCalls(fs, gs, Len(fs) - 1)
  /\ \A a \in Address : /\ \A p \in 0 .. Len(fs) - 2 : Shown(gs, p, a) = Shown(fs, p, a)
                        /\ a # c => Shown(gs, Len(fs) - 1, a) = Shown(fs, Len(fs), a)

LEMMA ShownIs ==
  ASSUME NEW fs, NEW p, NEW a \in Address
  PROVE  Shown(fs, p, a) = IF AcctAt(fs, p, a) = Absent THEN NoAccount
                           ELSE [acct |-> AcctAt(fs, p, a), slots |-> [k \in Key |-> WordAt(fs, p, a, k)]]
BY DEF Shown, View, Exists, AcctAt, WordAt

\* Two accounts look alike when they answer alike, or do not exist.
LEMMA ShownSame ==
  ASSUME NEW fs, NEW gs, NEW p, NEW q, NEW a \in Address,
         AcctAt(gs, q, a) = AcctAt(fs, p, a),
         AcctAt(fs, p, a) = Absent \/ \A k \in Key : WordAt(gs, q, a, k) = WordAt(fs, p, a, k)
  PROVE  Shown(gs, q, a) = Shown(fs, p, a)
BY ShownIs

LEMMA WordStep ==
  ASSUME NEW fs \in Seq(FrameType), NEW a \in Address, NEW k, NEW p \in 1 .. Len(fs)
  PROVE  WordAt(fs, p, a, k) = IF fs[p].accounts[a].loaded /\ fs[p].accounts[a].storage[k] # Unset
                               THEN fs[p].accounts[a].storage[k] ELSE WordAt(fs, p - 1, a, k)
BY AtStep

LEMMA TouchesTwice ==
  ASSUME NEW fs \in Seq(FrameType), NEW gs \in Seq(FrameType), NEW hs, NEW c,
         Touches(fs, gs, c), Touches(gs, hs, c)
  PROVE  Touches(fs, hs, c)
<1>1. Len(gs) = Len(fs) /\ (fs # <<>> => gs # <<>>)
  <2>1. fs # <<>> => Len(fs) # 0
    OBVIOUS
  <2> QED BY <2>1, EmptyLen DEF Touches
<1> QED BY <1>1 DEF Touches, SameCalls, SameLabel

LEMMA SameTouches ==
  ASSUME NEW fs, Len(fs) \in Nat, fs # <<>> => Len(fs) # 0, NEW gs, Len(gs) = Len(fs), SameViews(fs, gs),
         SameCalls(fs, gs, Len(fs)), NEW c
  PROVE  Touches(fs, gs, c)
<1>1. /\ \A i \in 1 .. Len(fs) - 1 : i \in 1 .. Len(fs)
      /\ fs # <<>> => Len(fs) \in 1 .. Len(fs)
  OBVIOUS
<1>2. SameCalls(fs, gs, Len(fs) - 1) /\ (fs # <<>> => SameLabel(fs[Len(fs)], gs[Len(fs)]))
  BY <1>1 DEF SameCalls
<1> QED BY <1>2, ShownSame DEF SameViews, Touches

LEMMA PushTouches ==
  ASSUME NEW fs, Len(fs) \in Nat, NEW gs, NEW hs, NEW c, Pushes(fs, gs, c), Touches(gs, hs, c)
  PROVE  Pushes(fs, hs, c) /\ SameLabel(gs[Len(fs) + 1], hs[Len(fs) + 1])
<1>1. \A p \in 0 .. Len(fs) : p \in 0 .. Len(fs) + 1 /\ p < Len(fs) + 1
  OBVIOUS
<1>2. Len(fs) + 1 \in 0 .. Len(fs) + 1
  OBVIOUS
<1>3. Len(gs) = Len(fs) + 1 /\ Len(gs) - 1 = Len(fs) /\ gs # <<>>
  <2>1. Len(gs) = Len(fs) + 1
    BY DEF Pushes
  <2> QED BY <2>1, EmptyLen
<1>4. SameCalls(fs, hs, Len(fs)) /\ SameLabel(gs[Len(fs) + 1], hs[Len(fs) + 1])
  BY <1>3 DEF Pushes, Touches, SameCalls, SameLabel
<1> QED BY <1>1, <1>2, <1>3, <1>4 DEF Pushes, Touches

----------------------------------------------------------------------------
(* The caches' operations leave caches clean and touch one account.        *)

\* A top frame whose accounts are as they were, or changed.
TopMay(fs, g) ==
  \A a \in Address : \/ g.accounts[a] = fs[Len(fs)].accounts[a]
                     \/ g.accounts[a].removed \/ g.accounts[a].updated

LEMMA TopClean ==
  ASSUME NEW fs \in Seq(FrameType), fs # <<>>, Clean(fs), NEW g \in FrameType, TopMay(fs, g)
  PROVE  /\ Clean(SetTop(fs, g))
         /\ \A p \in 0 .. Len(fs) - 1 : \A a \in Address :
              /\ AcctAt(SetTop(fs, g), p, a) = AcctAt(fs, p, a)
              /\ \A k \in Key : WordAt(SetTop(fs, g), p, a, k) = WordAt(fs, p, a, k)
              /\ Shown(SetTop(fs, g), p, a) = Shown(fs, p, a)
<1> DEFINE gs == SetTop(fs, g)
           n == Len(fs)
<1>1. /\ gs \in Seq(FrameType) /\ Len(gs) = n /\ n \in Nat /\ n \in 1 .. n /\ gs[n] = g
      /\ \A i \in 1 .. n - 1 : gs[i] = fs[i]
  BY SetTopIs
<1> HIDE DEF gs
<1>2. ASSUME NEW p \in 0 .. n - 1, NEW a \in Address
      PROVE  AcctAt(gs, p, a) = AcctAt(fs, p, a) /\ \A k \in Key : WordAt(gs, p, a, k) = WordAt(fs, p, a, k)
  <2>1. p \in 0 .. Len(fs) /\ p <= Len(gs) /\ \A i \in 1 .. p : i \in 1 .. n - 1
    BY <1>1
  <2>2. \A i \in 1 .. p : gs[i].accounts[a] = fs[i].accounts[a]
    BY <1>1, <2>1
  <2>3. \A k : AcctAt(gs, p, a) = AcctAt(fs, p, a) /\ WordAt(gs, p, a, k) = WordAt(fs, p, a, k)
    BY <1>1, <2>1, <2>2, AtLocal
  <2> QED BY <2>3
<1>3. \A p \in 0 .. n - 1 : \A a \in Address : Shown(gs, p, a) = Shown(fs, p, a)
  BY <1>2, ShownSame
<1>4. Clean(gs)
  <2> SUFFICES ASSUME NEW i \in 1 .. n, NEW a \in Address,
                      gs[i].accounts[a].loaded, ~gs[i].accounts[a].removed, ~gs[i].accounts[a].updated
               PROVE  /\ gs[i].accounts[a].account = AcctAt(gs, i - 1, a)
                      /\ \A k \in Key : gs[i].accounts[a].storage[k] # Unset =>
                           gs[i].accounts[a].storage[k] = WordAt(gs, i - 1, a, k)
    BY <1>1 DEF Clean
  <2>1. gs[i].accounts[a] = fs[i].accounts[a]
    <3>1. i = n \/ i \in 1 .. n - 1
      BY <1>1
    <3> QED BY <1>1, <3>1 DEF TopMay
  <2>2. i - 1 \in 0 .. n - 1
    BY <1>1
  <2>3. /\ fs[i].accounts[a].account = AcctAt(fs, i - 1, a)
        /\ \A k \in Key : fs[i].accounts[a].storage[k] # Unset =>
             fs[i].accounts[a].storage[k] = WordAt(fs, i - 1, a, k)
    BY <2>1 DEF Clean
  <2>4. AcctAt(gs, i - 1, a) = AcctAt(fs, i - 1, a) /\ \A k \in Key : WordAt(gs, i - 1, a, k) = WordAt(fs, i - 1, a, k)
    BY <1>2, <2>2
  <2> QED BY <2>1, <2>3, <2>4
<1> QED BY <1>2, <1>3, <1>4 DEF gs

\* The same but for the record of its changes.
Alike(i, j) ==
  i = j \/ (i.loaded /\ j.loaded /\ i.removed = j.removed /\ i.account = j.account /\ i.storage = j.storage)

LEMMA TopTouches ==
  ASSUME NEW fs \in Seq(FrameType), fs # <<>>, Clean(fs), NEW g \in FrameType, TopMay(fs, g),
         NEW c, \A a \in Address : a # c => Alike(g.accounts[a], fs[Len(fs)].accounts[a]),
         SameLabel(fs[Len(fs)], g)
  PROVE  Clean(SetTop(fs, g)) /\ Touches(fs, SetTop(fs, g), c)
<1> DEFINE gs == SetTop(fs, g)
           n == Len(fs)
<1>1. /\ gs \in Seq(FrameType) /\ Len(gs) = n /\ n \in Nat /\ n \in 1 .. n /\ gs[n] = g
      /\ \A i \in 1 .. n - 1 : gs[i] = fs[i]
  BY SetTopIs
<1>2. /\ Clean(gs)
      /\ \A p \in 0 .. n - 1 : \A a \in Address :
              /\ AcctAt(gs, p, a) = AcctAt(fs, p, a)
              /\ \A k \in Key : WordAt(gs, p, a, k) = WordAt(fs, p, a, k)
              /\ Shown(gs, p, a) = Shown(fs, p, a)
  BY TopClean
<1> HIDE DEF gs
<1>3. ASSUME NEW a \in Address, a # c PROVE Shown(gs, n, a) = Shown(fs, n, a)
  <2>1. Alike(g.accounts[a], fs[n].accounts[a])
    BY <1>3
  <2>2. n - 1 \in 0 .. n - 1 /\ n \in 1 .. Len(gs)
    BY <1>1
  <2>3. AcctAt(gs, n - 1, a) = AcctAt(fs, n - 1, a) /\ \A k \in Key : WordAt(gs, n - 1, a, k) = WordAt(fs, n - 1, a, k)
    BY <1>2, <2>2
  <2>4. /\ AcctAt(gs, n, a) = IF ~g.accounts[a].loaded THEN AcctAt(gs, n - 1, a)
                              ELSE IF g.accounts[a].removed THEN Absent ELSE g.accounts[a].account
        /\ AcctAt(fs, n, a) = IF ~fs[n].accounts[a].loaded THEN AcctAt(fs, n - 1, a)
                              ELSE IF fs[n].accounts[a].removed THEN Absent ELSE fs[n].accounts[a].account
    BY <1>1, <2>2, AcctStep
  <2>5. ASSUME NEW k \in Key
        PROVE  /\ WordAt(gs, n, a, k) = IF g.accounts[a].loaded /\ g.accounts[a].storage[k] # Unset
                                        THEN g.accounts[a].storage[k] ELSE WordAt(gs, n - 1, a, k)
               /\ WordAt(fs, n, a, k) = IF fs[n].accounts[a].loaded /\ fs[n].accounts[a].storage[k] # Unset
                                        THEN fs[n].accounts[a].storage[k] ELSE WordAt(fs, n - 1, a, k)
    BY <1>1, <2>2, WordStep
  <2>6. AcctAt(gs, n, a) = AcctAt(fs, n, a)
    BY <2>1, <2>3, <2>4 DEF Alike
  <2>7. \A k \in Key : WordAt(gs, n, a, k) = WordAt(fs, n, a, k)
    BY <2>1, <2>3, <2>5 DEF Alike
  <2> QED BY <2>6, <2>7, ShownSame
<1>4. Touches(fs, gs, c)
  <2>1. \A p \in 0 .. n : p \in 0 .. n - 1 \/ p = n
    BY <1>1
  <2>2. SameCalls(fs, gs, n - 1) /\ SameLabel(fs[n], gs[n])
    BY <1>1 DEF SameCalls, SameLabel
  <2> QED BY <1>1, <1>2, <1>3, <2>1, <2>2 DEF Touches
<1> QED BY <1>2, <1>4 DEF gs

LEMMA FailTidy ==
  ASSUME NEW fs \in Seq(FrameType), fs # <<>>, Clean(fs), NEW c
  PROVE  Clean(Fail(fs)) /\ Touches(fs, Fail(fs), c)
<1>1. Len(fs) \in 1 .. Len(fs)
  OBVIOUS
<1> DEFINE f == fs[Len(fs)]
           g == [f EXCEPT !.err = TRUE]
<1>2. f \in FrameType
  BY <1>1, FrameParts
<1>3. g \in FrameType /\ g.accounts = f.accounts /\ SameLabel(f, g)
  BY <1>2 DEF FrameType, SameLabel
<1>4. Fail(fs) = SetTop(fs, g)
  BY DEF Fail
<1> HIDE DEF g
<1>5. /\ TopMay(fs, g) /\ \A a \in Address : a # c => Alike(g.accounts[a], fs[Len(fs)].accounts[a])
      /\ SameLabel(fs[Len(fs)], g)
  BY <1>3 DEF TopMay, Alike
<1>6. Clean(SetTop(fs, g)) /\ Touches(fs, SetTop(fs, g), c)
  BY <1>3, <1>5, TopTouches
<1> QED BY <1>4, <1>6

\* One account of the top frame changed.
LEMMA PutTidy ==
  ASSUME NEW fs \in Seq(FrameType), fs # <<>>, Clean(fs), NEW a \in Address, NEW i \in Infos,
         i.removed \/ i.updated, NEW c, a = c \/ Alike(i, fs[Len(fs)].accounts[a])
  PROVE  LET gs == SetTop(fs, SetInfo(fs[Len(fs)], a, i)) IN Clean(gs) /\ Touches(fs, gs, c)
<1>1. Len(fs) \in 1 .. Len(fs)
  OBVIOUS
<1> DEFINE f == fs[Len(fs)]
           g == SetInfo(f, a, i)
<1>2. f \in FrameType
  BY <1>1, FrameParts
<1>3. /\ g \in FrameType /\ g.accounts[a] = i /\ \A b \in Address : b # a => g.accounts[b] = f.accounts[b]
      /\ SameLabel(f, g)
  BY <1>2, InfoChanged DEF SameLabel
<1> HIDE DEF g
<1>4. TopMay(fs, g) /\ SameLabel(fs[Len(fs)], g)
  BY <1>3 DEF TopMay
<1>5. \A b \in Address : b # c => Alike(g.accounts[b], fs[Len(fs)].accounts[b])
  BY <1>3 DEF Alike
<1>6. Clean(SetTop(fs, g)) /\ Touches(fs, SetTop(fs, g), c)
  BY <1>3, <1>4, <1>5, TopTouches
<1> QED BY <1>6 DEF g

LEMMA UpdateTidy ==
  ASSUME NEW fs \in Seq(FrameType), fs # <<>>, Clean(fs), NEW a \in Address,
         fs[Len(fs)].accounts[a].loaded, NEW acc \in Acct,
         NEW c, a = c \/ acc = AcctIn(fs, a)
  PROVE  Clean(Update(fs, a, acc)) /\ Touches(fs, Update(fs, a, acc), c)
<1>0. Len(fs) \in 1 .. Len(fs)
  OBVIOUS
<1> DEFINE f == fs[Len(fs)]
           o == f.accounts[a]
           i == [o EXCEPT !.account = acc, !.updated = TRUE]
           g == SetInfo(f, a, i)
<1>1. f \in FrameType /\ o \in Infos
  BY <1>0, FrameParts
<1>2. i \in Infos /\ i.loaded /\ i.account = acc /\ i.removed = o.removed /\ i.updated /\ i.storage = o.storage
  BY <1>1 DEF Infos
<1>4. CASE Writable(fs, a)
  <2>1. Update(fs, a, acc) = SetTop(fs, g)
    <3>1. [f EXCEPT !.accounts[a].account = acc, !.accounts[a].updated = TRUE] = g
      BY <1>1 DEF FrameType, Infos, SetInfo
    <3> QED BY <1>4, <3>1 DEF Update
  <2>2. ~o.removed
    BY <1>4 DEF Writable
  <2>3. AcctIn(fs, a) = o.account
    BY <2>2, TopHas
  <2> HIDE DEF i
  <2>4. a = c \/ Alike(i, o)
    BY <1>2, <2>3 DEF Alike
  <2>5. Clean(SetTop(fs, g)) /\ Touches(fs, SetTop(fs, g), c)
    BY <1>2, <2>4, PutTidy
  <2> QED BY <2>1, <2>5
<1>5. CASE ~Writable(fs, a)
  BY <1>5, FailTidy DEF Update
<1> QED BY <1>4, <1>5

LEMMA RemoveTidy ==
  ASSUME NEW fs \in Seq(FrameType), fs # <<>>, Clean(fs), NEW a \in Address,
         fs[Len(fs)].accounts[a].loaded
  PROVE  Clean(RemoveAccount(fs, a)) /\ Touches(fs, RemoveAccount(fs, a), a)
<1>0. Len(fs) \in 1 .. Len(fs)
  OBVIOUS
<1> DEFINE f == fs[Len(fs)]
           o == f.accounts[a]
           i == [o EXCEPT !.removed = TRUE]
           g == SetInfo(f, a, i)
<1>1. f \in FrameType /\ o \in Infos
  BY <1>0, FrameParts
<1>2. i \in Infos /\ i.removed
  BY <1>1 DEF Infos
<1>4. CASE Writable(fs, a)
  <2>1. RemoveAccount(fs, a) = SetTop(fs, g)
    <3>1. [f EXCEPT !.accounts[a].removed = TRUE] = g
      BY <1>1 DEF FrameType, Infos, SetInfo
    <3> QED BY <1>4, <3>1 DEF RemoveAccount
  <2> HIDE DEF i
  <2>5. Clean(SetTop(fs, g)) /\ Touches(fs, SetTop(fs, g), a)
    BY <1>2, PutTidy
  <2> QED BY <2>1, <2>5
<1>5. CASE ~Writable(fs, a)
  BY <1>5, FailTidy DEF RemoveAccount
<1> QED BY <1>4, <1>5

LEMMA StoreTidy ==
  ASSUME NEW fs \in Seq(FrameType), fs # <<>>, Clean(fs), NEW a \in Address,
         fs[Len(fs)].accounts[a].loaded, NEW k \in Key, NEW v \in Word \cup {Zero}
  PROVE  Clean(Store(fs, a, k, v)) /\ Touches(fs, Store(fs, a, k, v), a)
<1>0. Len(fs) \in 1 .. Len(fs)
  OBVIOUS
<1> DEFINE f == fs[Len(fs)]
           o == f.accounts[a]
           st == [o.storage EXCEPT ![k] = v]
           i == [o EXCEPT !.storage = st, !.updated = TRUE]
           g == SetInfo(f, a, i)
<1>1. f \in FrameType /\ o \in Infos /\ o.storage \in [Key -> Word \cup {Zero, Unset}]
  BY <1>0, FrameParts DEF Infos
<1>2. st \in [Key -> Word \cup {Zero, Unset}]
  BY <1>1
<1>3. i \in Infos /\ i.updated
  <2> HIDE DEF st, o
  <2> QED BY <1>1, <1>2 DEF Infos
<1>4. CASE Writable(fs, a) /\ o.account # Absent
  <2>1. Store(fs, a, k, v) = SetTop(fs, g)
    <3>1. [f EXCEPT !.accounts[a].storage[k] = v, !.accounts[a].updated = TRUE] = g
      BY <1>1 DEF FrameType, Infos, SetInfo
    <3> QED BY <1>4, <3>1 DEF Store
  <2> HIDE DEF i
  <2>5. Clean(SetTop(fs, g)) /\ Touches(fs, SetTop(fs, g), a)
    BY <1>3, PutTidy
  <2> QED BY <2>1, <2>5
<1>5. CASE ~(Writable(fs, a) /\ o.account # Absent)
  BY <1>5, FailTidy DEF Store
<1> QED BY <1>4, <1>5

LEMMA CreateTidy ==
  ASSUME NEW fs \in Seq(FrameType), fs # <<>>, Clean(fs), NEW a \in Address,
         fs[Len(fs)].accounts[a].loaded
  PROVE  Clean(CreateAccount(fs, a)) /\ Touches(fs, CreateAccount(fs, a), a)
<1>1. [code |-> NoCode, perms |-> FALSE] \in Acct
  BY DEF Acct
<1>2. CreateAccount(fs, a) = Fail(fs) \/ CreateAccount(fs, a) = Update(fs, a, [code |-> NoCode, perms |-> FALSE])
  BY DEF CreateAccount
<1> QED BY <1>1, <1>2, FailTidy, UpdateTidy

LEMMA InitCodeTidy ==
  ASSUME NEW fs \in Seq(FrameType), fs # <<>>, Clean(fs), NEW a \in Address,
         fs[Len(fs)].accounts[a].loaded, NEW x \in Code \cup {NoCode}
  PROVE  Clean(InitCode(fs, a, x)) /\ Touches(fs, InitCode(fs, a, x), a)
<1>0. Len(fs) \in 1 .. Len(fs)
  OBVIOUS
<1>1. AcctIn(fs, a) \in Acct \cup {Absent}
  <2>1. fs[Len(fs)].accounts[a] \in Infos
    BY <1>0, FrameParts
  <2> QED BY <2>1, TopHas DEF Infos
<1>3. CASE AcctIn(fs, a) = Absent \/ AcctIn(fs, a).code # NoCode
  BY <1>3, FailTidy DEF InitCode
<1>4. CASE ~(AcctIn(fs, a) = Absent \/ AcctIn(fs, a).code # NoCode)
  <2> DEFINE acc == [AcctIn(fs, a) EXCEPT !.code = x]
  <2>1. acc \in Acct
    BY <1>1, <1>4 DEF Acct
  <2>2. InitCode(fs, a, x) = Update(fs, a, acc)
    BY <1>4 DEF InitCode
  <2> HIDE DEF acc
  <2> QED BY <2>1, <2>2, UpdateTidy
<1> QED BY <1>3, <1>4

\* A load changes no view, and what it caches is what is below.
LEMMA LoadTidy ==
  ASSUME NEW fs, NEW L, Good(fs, L), LedgerInv, Clean(fs), NEW a \in Address
  PROVE  /\ Clean(Load(fs, a)) /\ SameViews(fs, Load(fs, a))
         /\ \A c : Touches(fs, Load(fs, a), c)
<1> DEFINE gs == Load(fs, a)
           n == Len(fs)
           m == AcctLevel(fs, a)
<1>0. fs \in Seq(FrameType) /\ n \in Nat /\ LoadedDown(fs)
  BY DEF Good
<1>1. gs \in Seq(FrameType) /\ Len(gs) = n
  BY LoadIs
<1>2. SameViews(fs, gs)
  BY LoadViews
<1>3. m \in 0 .. n /\ \A p \in 0 .. n : p >= m => AcctAt(fs, p, a) = AcctIn(fs, a)
  BY <1>0, LoadLevel
<1>4. \A i \in 1 .. n :
        /\ \A b \in Address : b # a => gs[i].accounts[b] = fs[i].accounts[b]
        /\ i <= m => gs[i].accounts[a] = fs[i].accounts[a]
        /\ i > m => gs[i].accounts[a] = Info(AcctIn(fs, a))
  BY LoadParts
<1> HIDE DEF gs, m
<1>5. ASSUME NEW i \in 1 .. n, NEW b \in Address,
             gs[i].accounts[b].loaded, ~gs[i].accounts[b].removed, ~gs[i].accounts[b].updated
      PROVE  /\ gs[i].accounts[b].account = AcctAt(gs, i - 1, b)
             /\ \A k \in Key : gs[i].accounts[b].storage[k] # Unset =>
                  gs[i].accounts[b].storage[k] = WordAt(gs, i - 1, b, k)
  <2>1. i - 1 \in 0 .. n /\ (i > m => i - 1 >= m) /\ (i <= m \/ i > m)
    BY <1>0, <1>3
  <2>2. AcctAt(gs, i - 1, b) = AcctAt(fs, i - 1, b) /\ \A k \in Key : WordAt(gs, i - 1, b, k) = WordAt(fs, i - 1, b, k)
    BY <1>2, <2>1 DEF SameViews
  <2>3. CASE gs[i].accounts[b] = fs[i].accounts[b]
    <3>1. /\ fs[i].accounts[b].account = AcctAt(fs, i - 1, b)
          /\ \A k \in Key : fs[i].accounts[b].storage[k] # Unset =>
               fs[i].accounts[b].storage[k] = WordAt(fs, i - 1, b, k)
      BY <1>5, <2>3 DEF Clean
    <3> QED BY <2>2, <2>3, <3>1
  <2>4. CASE b = a /\ i > m
    <3>1. gs[i].accounts[a] = Info(AcctIn(fs, a))
      BY <1>4, <2>4
    <3>2. AcctAt(fs, i - 1, a) = AcctIn(fs, a)
      BY <1>3, <2>1, <2>4
    <3> QED BY <2>2, <2>4, <3>1, <3>2, InfoFields
  <2> QED BY <1>4, <2>1, <2>3, <2>4
<1>6. Clean(gs)
  BY <1>1, <1>5 DEF Clean
<1>7. SameCalls(fs, gs, n)
  BY LoadParts DEF gs, SameCalls, SameLabel
<1>8. \A c : Touches(fs, gs, c)
  BY <1>0, <1>1, <1>2, <1>7, SameTouches
<1> QED BY <1>2, <1>6, <1>8 DEF gs

LEMMA FilledTidy ==
  ASSUME NEW gs, NEW L, Good(gs, L), LedgerInv, Clean(gs), NEW a \in Address, NEW k \in Key,
         \A i \in 1 .. Len(gs) : gs[i].accounts[a].loaded,
         NEW w, w = Max0(HavingWord(gs, Len(gs), a, k)), NEW v, v = WordAt(gs, Len(gs), a, k)
  PROVE  Clean(Filled(gs, a, k, w, v)) /\ \A c : Touches(gs, Filled(gs, a, k, w, v), c)
<1> DEFINE hs == Filled(gs, a, k, w, v)
           n == Len(gs)
<1>0. gs \in Seq(FrameType) /\ n \in Nat /\ n \in 0 .. n
  BY DEF Good
<1>1. HavingWord(gs, n, a, k) \in SUBSET (1 .. n)
  BY DEF HavingWord
<1>2. w \in 0 .. n /\ \A x \in HavingWord(gs, n, a, k) : x <= w
  BY <1>0, <1>1, MaxOf
<1>3. v \in Word \cup {Zero}
  BY <1>0, AnswerTypes
<1>4. /\ Len(hs) = n
      /\ \A i \in 1 .. n :
              /\ \A b \in Address : b # a => hs[i].accounts[b] = gs[i].accounts[b]
              /\ hs[i].accounts[a] = IF i <= w THEN gs[i].accounts[a] ELSE SetWord(gs[i].accounts[a], k, v)
              /\ gs[i].accounts[a] \in Infos
      /\ SameCalls(gs, hs, n)
  BY <1>0, <1>2, <1>3, FilledIs DEF SameCalls, SameLabel
<1>5. SameViews(gs, hs)
  BY FilledGood
<1> HIDE DEF hs
<1>6. ASSUME NEW p \in 0 .. n, p >= w PROVE WordAt(gs, p, a, k) = v
  <2>1. \A i \in 1 .. p : i \in 1 .. n
    BY <1>0
  <2>2. \A x \in HavingWord(gs, n, a, k) : x \in 1 .. p
    BY <1>0, <1>1, <1>2, <1>6
  <2>3. HavingWord(gs, p, a, k) = HavingWord(gs, n, a, k)
    BY <2>1, <2>2 DEF HavingWord
  <2>4. WordAt(gs, p, a, k) = WordFrom(gs, w, a, k) /\ WordAt(gs, n, a, k) = WordFrom(gs, w, a, k)
    BY <1>0, <2>3, WordAtIs
  <2> QED BY <2>4
<1>7. ASSUME NEW i \in 1 .. n, NEW b \in Address,
             hs[i].accounts[b].loaded, ~hs[i].accounts[b].removed, ~hs[i].accounts[b].updated
      PROVE  /\ hs[i].accounts[b].account = AcctAt(hs, i - 1, b)
             /\ \A q \in Key : hs[i].accounts[b].storage[q] # Unset =>
                  hs[i].accounts[b].storage[q] = WordAt(hs, i - 1, b, q)
  <2>1. i - 1 \in 0 .. n /\ (~(i <= w) => i - 1 >= w)
    BY <1>0, <1>2
  <2>2. AcctAt(hs, i - 1, b) = AcctAt(gs, i - 1, b) /\ \A q \in Key : WordAt(hs, i - 1, b, q) = WordAt(gs, i - 1, b, q)
    BY <1>5, <2>1 DEF SameViews
  <2>3. CASE hs[i].accounts[b] = gs[i].accounts[b]
    <3>1. /\ gs[i].accounts[b].account = AcctAt(gs, i - 1, b)
          /\ \A q \in Key : gs[i].accounts[b].storage[q] # Unset =>
               gs[i].accounts[b].storage[q] = WordAt(gs, i - 1, b, q)
      BY <1>7, <2>3 DEF Clean
    <3> QED BY <2>2, <2>3, <3>1
  <2>4. CASE b = a /\ ~(i <= w)
    <3> DEFINE o == gs[i].accounts[a]
    <3>1. hs[i].accounts[a] = SetWord(o, k, v) /\ o \in Infos /\ o.loaded
      BY <1>4, <2>4
    <3> HIDE DEF o
    <3>2. /\ SetWord(o, k, v).account = o.account /\ SetWord(o, k, v).removed = o.removed
          /\ SetWord(o, k, v).updated = o.updated /\ SetWord(o, k, v).storage[k] = v
          /\ \A q \in Key : q # k => SetWord(o, k, v).storage[q] = o.storage[q]
      BY <1>3, <3>1, WordChanged
    <3>3. ~o.removed /\ ~o.updated
      BY <1>7, <2>4, <3>1, <3>2
    <3>4. /\ o.account = AcctAt(gs, i - 1, a)
          /\ \A q \in Key : o.storage[q] # Unset => o.storage[q] = WordAt(gs, i - 1, a, q)
      BY <3>1, <3>3 DEF Clean, o
    <3>5. WordAt(gs, i - 1, a, k) = v
      BY <1>6, <2>1, <2>4
    <3> QED BY <2>2, <2>4, <3>1, <3>2, <3>4, <3>5
  <2> QED BY <1>4, <2>3, <2>4
<1>8. Clean(hs)
  BY <1>4, <1>7 DEF Clean
<1>9. \A c : Touches(gs, hs, c)
  BY <1>0, <1>4, <1>5, SameTouches
<1> QED BY <1>8, <1>9 DEF hs

LEMMA LoadWordTidy ==
  ASSUME NEW fs, NEW L, Good(fs, L), LedgerInv, Clean(fs), NEW a \in Address, NEW k \in Key, NEW c
  PROVE  Clean(LoadWord(fs, a, k)) /\ Touches(fs, LoadWord(fs, a, k), c)
<1> DEFINE gs == Load(fs, a)
<1>1. Good(gs, L) /\ Grows(fs, gs) /\ \A i \in 1 .. Len(fs) : gs[i].accounts[a].loaded
  BY LoadGood
<1>2. Len(gs) = Len(fs) /\ fs \in Seq(FrameType) /\ gs \in Seq(FrameType)
  BY <1>1 DEF Grows, Good
<1>3. /\ WordLevel(fs, a, k) = Max0(HavingWord(gs, Len(fs), a, k))
      /\ WordIn(fs, a, k) = WordAt(gs, Len(fs), a, k)
  BY WordLevelKept
<1>4. LoadWord(fs, a, k) = Filled(gs, a, k, WordLevel(fs, a, k), WordIn(fs, a, k))
  BY DEF LoadWord, Filled
<1>5. Clean(gs) /\ Touches(fs, gs, c)
  BY LoadTidy
<1> HIDE DEF gs
<1>6. /\ Clean(Filled(gs, a, k, WordLevel(fs, a, k), WordIn(fs, a, k)))
      /\ Touches(gs, Filled(gs, a, k, WordLevel(fs, a, k), WordIn(fs, a, k)), c)
  BY <1>1, <1>2, <1>3, <1>5, FilledTidy
<1> QED BY <1>2, <1>4, <1>5, <1>6, TouchesTwice

----------------------------------------------------------------------------
(* Calls and returns.                                                      *)

\* The view of a prefix is the view of the frames.
LEMMA ShownPrefix ==
  ASSUME NEW fs \in Seq(FrameType), NEW gs \in Seq(FrameType), NEW p \in 0 .. Len(fs), p <= Len(gs),
         \A i \in 1 .. p : gs[i] = fs[i]
  PROVE  \A a \in Address : /\ AcctAt(gs, p, a) = AcctAt(fs, p, a)
                            /\ \A k \in Key : WordAt(gs, p, a, k) = WordAt(fs, p, a, k)
                            /\ Shown(gs, p, a) = Shown(fs, p, a)
<1> SUFFICES ASSUME NEW a \in Address
             PROVE  /\ AcctAt(gs, p, a) = AcctAt(fs, p, a)
                    /\ \A k \in Key : WordAt(gs, p, a, k) = WordAt(fs, p, a, k)
                    /\ Shown(gs, p, a) = Shown(fs, p, a)
  OBVIOUS
<1>1. \A i \in 1 .. p : gs[i].accounts[a] = fs[i].accounts[a]
  OBVIOUS
<1>2. \A k : AcctAt(gs, p, a) = AcctAt(fs, p, a) /\ WordAt(gs, p, a, k) = WordAt(fs, p, a, k)
  BY <1>1, AtLocal
<1>3. Shown(gs, p, a) = Shown(fs, p, a)
  BY <1>2, ShownSame
<1> QED BY <1>2, <1>3

LEMMA PopTidy ==
  ASSUME NEW fs \in Seq(FrameType), Clean(fs), NEW m \in 0 .. Len(fs)
  PROVE  /\ Clean(SubSeq(fs, 1, m))
         /\ \A p \in 0 .. m : \A a \in Address : Shown(SubSeq(fs, 1, m), p, a) = Shown(fs, p, a)
<1> DEFINE gs == SubSeq(fs, 1, m)
<1>1. gs \in Seq(FrameType) /\ Len(gs) = m /\ (\A i \in 1 .. m : gs[i] = fs[i]) /\ m \in Nat /\ Len(fs) \in Nat
  BY Prefix
<1> HIDE DEF gs
<1>2. ASSUME NEW p \in 0 .. m
      PROVE  \A a \in Address : /\ AcctAt(gs, p, a) = AcctAt(fs, p, a)
                                /\ \A k \in Key : WordAt(gs, p, a, k) = WordAt(fs, p, a, k)
                                /\ Shown(gs, p, a) = Shown(fs, p, a)
  <2>1. p \in 0 .. Len(fs) /\ p <= Len(gs) /\ \A i \in 1 .. p : gs[i] = fs[i]
    BY <1>1
  <2> QED BY <1>1, <2>1, ShownPrefix
<1>3. \A i \in 1 .. m : i \in 1 .. Len(fs) /\ i - 1 \in 0 .. m
  BY <1>1
<1>4. Clean(gs)
  BY <1>1, <1>2, <1>3 DEF Clean
<1> QED BY <1>2, <1>4 DEF gs

LEMMA PushTidy ==
  ASSUME NEW fs \in Seq(FrameType), Clean(fs), NEW f \in FrameType, \A a \in Address : ~f.accounts[a].loaded
  PROVE  Clean(Append(fs, f)) /\ \A c : Pushes(fs, Append(fs, f), c)
<1> DEFINE gs == Append(fs, f)
           n == Len(fs)
           m == n + 1
<1>1. /\ gs \in Seq(FrameType) /\ Len(gs) = m /\ n \in Nat /\ m \in Nat /\ gs[m] = f /\ m \in 1 .. m /\ m - 1 = n
      /\ \A i \in 1 .. n : gs[i] = fs[i]
  OBVIOUS
<1> HIDE DEF gs
<1>2. ASSUME NEW p \in 0 .. n
      PROVE  \A a \in Address : /\ AcctAt(gs, p, a) = AcctAt(fs, p, a)
                                /\ \A k \in Key : WordAt(gs, p, a, k) = WordAt(fs, p, a, k)
                                /\ Shown(gs, p, a) = Shown(fs, p, a)
  <2>1. p <= Len(gs) /\ \A i \in 1 .. p : gs[i] = fs[i]
    BY <1>1
  <2> QED BY <1>1, <2>1, ShownPrefix
<1>3. \A i \in 1 .. m : i = m \/ (i \in 1 .. n /\ i - 1 \in 0 .. n)
  BY <1>1
<1> HIDE DEF m
<1>4. Clean(gs)
  BY <1>1, <1>2, <1>3 DEF Clean
<1>5. ASSUME NEW a \in Address PROVE Shown(gs, m, a) = Shown(fs, n, a)
  <2>1. AcctAt(gs, m, a) = AcctAt(gs, n, a)
    BY <1>1, AcctStep
  <2>2. \A k \in Key : WordAt(gs, m, a, k) = WordAt(gs, n, a, k)
    BY <1>1, WordStep
  <2>3. n \in 0 .. n
    BY <1>1
  <2>4. Shown(gs, m, a) = Shown(gs, n, a)
    BY <2>1, <2>2, ShownSame
  <2> QED BY <1>2, <2>3, <2>4
<1>6. \A c : Pushes(fs, gs, c)
  <2>1. SameCalls(fs, gs, n)
    BY <1>1 DEF SameCalls, SameLabel
  <2> QED BY <1>1, <1>2, <1>5, <2>1 DEF Pushes, m
<1> QED BY <1>4, <1>6 DEF gs

LEMMA MergedChanges ==
  ASSUME NEW old \in Infos, NEW new \in Infos
  PROVE  /\ new.removed => Merged(old, new).removed
         /\ ~new.removed =>
              /\ Merged(old, new).updated
              /\ \A k \in Key : Merged(old, new).storage[k] = IF new.storage[k] = Unset THEN old.storage[k]
                                                             ELSE new.storage[k]
<1> DEFINE st == [k \in Key |-> IF new.storage[k] = Unset THEN old.storage[k] ELSE new.storage[k]]
<1>1. \A k \in Key : st[k] = IF new.storage[k] = Unset THEN old.storage[k] ELSE new.storage[k]
  OBVIOUS
<1>2. Merged(old, new) = IF new.removed THEN [old EXCEPT !.removed = TRUE]
                         ELSE [old EXCEPT !.account = new.account, !.updated = TRUE, !.storage = st]
  BY DEF Merged
<1> HIDE DEF st
<1>3. CASE new.removed
  BY <1>2, <1>3 DEF Infos
<1>4. CASE ~new.removed
  <2>1. PICK na : na = new.account
    OBVIOUS
  <2>2. Merged(old, new) = [old EXCEPT !.account = na, !.updated = TRUE, !.storage = st]
    BY <1>2, <1>4, <2>1
  <2>3. Merged(old, new).updated /\ Merged(old, new).storage = st
    BY <2>2 DEF Infos
  <2> QED BY <1>1, <1>4, <2>3
<1> QED BY <1>3, <1>4

\* The frame below, with the changes of the innermost, shows what that showed.
LEMMA MergedShows ==
  ASSUME NEW fs, NEW L, Good(fs, L), Clean(fs), NEW m \in Nat, Len(fs) = m + 1, m # 0,
         NEW c, c = fs[m + 1], NEW f, f = fs[m], NEW g \in FrameType, g = MergedFrame(f, c),
         \A a \in Changed(c) : ~f.accounts[a].removed,
         NEW hs \in Seq(FrameType), Len(hs) = m, hs[m] = g, \A i \in 1 .. m - 1 : hs[i] = fs[i],
         NEW a \in Address
  PROVE  Shown(hs, m, a) = Shown(fs, m + 1, a)
<1>0. fs \in Seq(FrameType) /\ LoadedDown(fs) /\ m \in 1 .. Len(fs) /\ m + 1 \in 1 .. Len(fs) /\ (m + 1) - 1 = m
      /\ m \in 1 .. m + 1 /\ m \in 1 .. Len(hs) /\ m - 1 \in 0 .. Len(fs) /\ m - 1 <= Len(hs)
  BY DEF Good
<1>1. c \in FrameType /\ f \in FrameType
      /\ (f.accounts[a].loaded => f.accounts[a] \in Infos)
      /\ (c.accounts[a].loaded => c.accounts[a] \in Infos)
      /\ (c.accounts[a].loaded => f.accounts[a].loaded)
  <2>1. c \in FrameType /\ (c.accounts[a].loaded => c.accounts[a] \in Infos)
    BY <1>0, FrameParts
  <2>2. f \in FrameType /\ (f.accounts[a].loaded => f.accounts[a] \in Infos)
    BY <1>0, FrameParts
  <2>3. c.accounts[a].loaded => f.accounts[a].loaded
    BY <1>0 DEF LoadedDown
  <2> QED BY <2>1, <2>2, <2>3
<1>2. /\ AcctAt(fs, m + 1, a) = IF ~c.accounts[a].loaded THEN AcctAt(fs, m, a)
                                ELSE IF c.accounts[a].removed THEN Absent ELSE c.accounts[a].account
      /\ AcctAt(fs, m, a) = IF ~f.accounts[a].loaded THEN AcctAt(fs, m - 1, a)
                            ELSE IF f.accounts[a].removed THEN Absent ELSE f.accounts[a].account
      /\ AcctAt(hs, m, a) = IF ~g.accounts[a].loaded THEN AcctAt(hs, m - 1, a)
                            ELSE IF g.accounts[a].removed THEN Absent ELSE g.accounts[a].account
  <2>1. AcctAt(fs, m + 1, a) = IF ~c.accounts[a].loaded THEN AcctAt(fs, (m + 1) - 1, a)
                                ELSE IF c.accounts[a].removed THEN Absent ELSE c.accounts[a].account
    BY <1>0, AcctStep
  <2> QED BY <1>0, <2>1, AcctStep
<1>3. ASSUME NEW k \in Key
      PROVE  /\ WordAt(fs, m + 1, a, k) = IF c.accounts[a].loaded /\ c.accounts[a].storage[k] # Unset
                                          THEN c.accounts[a].storage[k] ELSE WordAt(fs, m, a, k)
             /\ WordAt(fs, m, a, k) = IF f.accounts[a].loaded /\ f.accounts[a].storage[k] # Unset
                                      THEN f.accounts[a].storage[k] ELSE WordAt(fs, m - 1, a, k)
             /\ WordAt(hs, m, a, k) = IF g.accounts[a].loaded /\ g.accounts[a].storage[k] # Unset
                                      THEN g.accounts[a].storage[k] ELSE WordAt(hs, m - 1, a, k)
  <2>1. WordAt(fs, m + 1, a, k) = IF c.accounts[a].loaded /\ c.accounts[a].storage[k] # Unset
                                  THEN c.accounts[a].storage[k] ELSE WordAt(fs, (m + 1) - 1, a, k)
    BY <1>0, WordStep
  <2> QED BY <1>0, <2>1, WordStep
<1>4. AcctAt(hs, m - 1, a) = AcctAt(fs, m - 1, a) /\ \A k \in Key : WordAt(hs, m - 1, a, k) = WordAt(fs, m - 1, a, k)
  BY <1>0, ShownPrefix
<1>5. g.accounts[a] = IF a \in Changed(c) THEN Merged(f.accounts[a], c.accounts[a]) ELSE f.accounts[a]
  <2> DEFINE acs == [b \in Address |-> IF b \in Changed(c) THEN Merged(f.accounts[b], c.accounts[b]) ELSE f.accounts[b]]
  <2>1. acs[a] = IF a \in Changed(c) THEN Merged(f.accounts[a], c.accounts[a]) ELSE f.accounts[a]
    OBVIOUS
  <2>2. g = [f EXCEPT !.accounts = acs]
    BY DEF MergedFrame
  <2> HIDE DEF acs
  <2>3. g.accounts = acs
    BY <1>1, <2>2 DEF FrameType
  <2> QED BY <2>1, <2>3
<1> HIDE DEF MergedFrame
<1>6. CASE a \notin Changed(c)
  <2>1. g.accounts[a] = f.accounts[a]
    BY <1>5, <1>6
  <2>2. AcctAt(hs, m, a) = AcctAt(fs, m, a) /\ \A k \in Key : WordAt(hs, m, a, k) = WordAt(fs, m, a, k)
    BY <1>2, <1>3, <1>4, <2>1
  <2>3. c.accounts[a].loaded => ~c.accounts[a].removed /\ ~c.accounts[a].updated
    BY <1>6 DEF Changed
  <2>4. c.accounts[a].loaded =>
          /\ c.accounts[a].account = AcctAt(fs, m, a)
          /\ \A k \in Key : c.accounts[a].storage[k] # Unset => c.accounts[a].storage[k] = WordAt(fs, m, a, k)
    BY <1>0, <2>3 DEF Clean
  <2>5. AcctAt(fs, m + 1, a) = AcctAt(fs, m, a)
    BY <1>2, <2>3, <2>4
  <2>6. \A k \in Key : WordAt(fs, m + 1, a, k) = WordAt(fs, m, a, k)
    BY <1>3, <2>4
  <2> QED BY <2>2, <2>5, <2>6, ShownSame
<1>7. CASE a \in Changed(c)
  <2>1. c.accounts[a].loaded /\ (c.accounts[a].removed \/ c.accounts[a].updated) /\ f.accounts[a].loaded
    BY <1>1, <1>7 DEF Changed
  <2>2. PICK old \in Infos : old = f.accounts[a]
    BY <1>1, <2>1
  <2>3. PICK new \in Infos : new = c.accounts[a]
    BY <1>1, <2>1
  <2>4. g.accounts[a] = Merged(old, new) /\ ~old.removed /\ old.loaded /\ new.loaded
    BY <1>5, <1>7, <2>1, <2>2, <2>3
  <2>5. Merged(old, new).loaded
    BY MergedIs
  <2>6. CASE new.removed
    <3>1. Merged(old, new).removed
      BY <2>6, MergedChanges
    <3>2. AcctAt(hs, m, a) = Absent /\ AcctAt(fs, m + 1, a) = Absent
      BY <1>2, <2>3, <2>4, <2>5, <2>6, <3>1
    <3> QED BY <3>2, ShownSame
  <2>7. CASE ~new.removed
    <3>1. ~Merged(old, new).removed /\ Merged(old, new).account = new.account
      BY <2>4, <2>7, MergedIs
    <3>2. \A k \in Key : Merged(old, new).storage[k] = IF new.storage[k] = Unset THEN old.storage[k]
                                                       ELSE new.storage[k]
      BY <2>7, MergedChanges
    <3>3. AcctAt(hs, m, a) = AcctAt(fs, m + 1, a)
      BY <1>2, <2>3, <2>4, <2>5, <2>7, <3>1
    <3>4. ASSUME NEW k \in Key PROVE WordAt(hs, m, a, k) = WordAt(fs, m + 1, a, k)
      <4>1. WordAt(fs, m + 1, a, k) = IF new.storage[k] # Unset THEN new.storage[k]
                                      ELSE IF old.storage[k] # Unset THEN old.storage[k] ELSE WordAt(fs, m - 1, a, k)
        BY <1>3, <2>2, <2>3, <2>4
      <4>2. WordAt(hs, m, a, k) = IF Merged(old, new).storage[k] # Unset
                                  THEN Merged(old, new).storage[k] ELSE WordAt(fs, m - 1, a, k)
        BY <1>3, <1>4, <2>4, <2>5
      <4> QED BY <3>2, <4>1, <4>2
    <3> QED BY <3>3, <3>4, ShownSame
  <2> QED BY <2>6, <2>7
<1> QED BY <1>6, <1>7

\* A read-only frame shows what the frame below shows.
LEMMA StaticShows ==
  ASSUME NEW fs, NEW L, Good(fs, L), NEW n \in 1 .. Len(fs), fs[n].readonly, NEW a \in Address
  PROVE  Shown(fs, n, a) = Shown(fs, n - 1, a)
<1>1. fs \in Seq(FrameType) /\ StaticFrames(fs, L)
  BY DEF Good
<1>2. fs[n].accounts[a].loaded =>
        /\ ~fs[n].accounts[a].removed
        /\ fs[n].accounts[a].account = AcctAt(fs, n - 1, a)
        /\ \A k \in Key : fs[n].accounts[a].storage[k] # Unset =>
             fs[n].accounts[a].storage[k] = WordAt(fs, n - 1, a, k)
  BY <1>1 DEF StaticFrames
<1>3. AcctAt(fs, n, a) = AcctAt(fs, n - 1, a)
  BY <1>1, <1>2, AcctStep
<1>4. \A k \in Key : WordAt(fs, n, a, k) = WordAt(fs, n - 1, a, k)
  BY <1>1, <1>2, WordStep
<1> QED BY <1>3, <1>4, ShownSame

\* Cache.Sync hands the world of the innermost frame down, as it is; or the
\* frame below fails, because the innermost has or it has lost an account.
LEMMA SyncedTidy ==
  ASSUME NEW fs, NEW L, Good(fs, L), Clean(fs), Len(fs) > 1
  PROVE  /\ Clean(Synced(fs))
         /\ \/ ~fs[Len(fs)].err /\ \A c : HandsDown(fs, Synced(fs), c)
            \/ /\ Drops(fs, Synced(fs)) /\ Synced(fs)[Len(fs) - 1].err
               /\ fs[Len(fs)].err \/ \E a \in Address : Shown(fs, Len(fs) - 1, a) = NoAccount
<1> DEFINE n == Len(fs)
           m == n - 1
           outer == SubSeq(fs, 1, m)
           c == fs[n]
           f == fs[m]
           g == MergedFrame(f, c)
<1>0. fs \in Seq(FrameType) /\ n \in Nat /\ n \in 1 .. n /\ m \in 1 .. n /\ m \in 1 .. m /\ m \in 0 .. n /\ m \in Nat /\ m # 0
      /\ n = m + 1 /\ LoadedDown(fs)
  <2>1. fs \in Seq(FrameType) /\ LoadedDown(fs)
    BY DEF Good
  <2>2. n \in Nat /\ n > 1
    BY <2>1
  <2> HIDE DEF n
  <2> QED BY <2>1, <2>2
<1>1. /\ outer \in Seq(FrameType) /\ Len(outer) = m /\ \A i \in 1 .. m : outer[i] = fs[i]
  BY <1>0, Prefix
<1>2. Clean(outer) /\ \A p \in 0 .. m : \A a \in Address : Shown(outer, p, a) = Shown(fs, p, a)
  BY <1>0, PopTidy
<1>3. outer # <<>> /\ outer[m] = f
  BY <1>0, <1>1, EmptyLen
<1>4. c \in FrameType /\ f \in FrameType
  BY <1>0, FrameParts
<1>5. Synced(fs) = IF c.err THEN Fail(outer) ELSE IF c.readonly THEN outer
                   ELSE IF \E a \in Changed(c) : ~Writable(outer, a) THEN Fail(outer)
                   ELSE SetTop(outer, g)
  <2>1. outer[Len(outer)] = f
    BY <1>1, <1>3
  <2> QED BY <2>1 DEF Synced, Changed, MergedFrame, Merged
<1> HIDE DEF g, c, f, outer, m, n
<1>6. /\ \A i \in 1 .. m - 1 : i \in 1 .. m
      /\ n - 2 = m - 1 /\ n - 1 = m
  BY <1>0 DEF m
<1>7. Clean(Fail(outer)) /\ Drops(fs, Fail(outer)) /\ Fail(outer)[m].err
  <2> DEFINE hs == Fail(outer)
  <2>1. \A x : Clean(hs) /\ Touches(outer, hs, x)
    BY <1>1, <1>2, <1>3, FailTidy
  <2>2. Good(outer, L)
    BY <1>0, <1>1, PopGood DEF outer, m, n
  <2>3. hs[m].err
    BY <1>1, <1>3, <2>2, FailGood
  <2> HIDE DEF hs
  <2>4. Len(hs) = m /\ SameCalls(outer, hs, m - 1) /\ SameLabel(outer[m], hs[m])
    BY <1>1, <1>3, <2>1 DEF Touches
  <2>5. SameCalls(fs, hs, n - 2) /\ SameLabel(fs[n - 1], hs[n - 1])
    BY <1>0, <1>1, <1>6, <2>4 DEF SameCalls, SameLabel
  <2>6. \A a \in Address : \A p \in 0 .. m : Shown(hs, p, a) = Shown(fs, p, a)
    <3> SUFFICES ASSUME NEW a \in Address, NEW p \in 0 .. m PROVE Shown(hs, p, a) = Shown(fs, p, a)
      OBVIOUS
    <3>1. PICK x : x # a
      <4>1. TRUE # a \/ FALSE # a
        OBVIOUS
      <4> QED BY <4>1
    <3>2. Touches(outer, hs, x)
      BY <2>1
    <3>3. Shown(hs, p, a) = Shown(outer, p, a)
      BY <1>1, <3>1, <3>2 DEF Touches
    <3> QED BY <1>2, <3>3
  <2> QED BY <1>6, <2>1, <2>3, <2>4, <2>5, <2>6 DEF Drops, n, hs
<1>8. ASSUME c.readonly PROVE Clean(outer) /\ \A x : HandsDown(fs, outer, x)
  <2>1. SameCalls(fs, outer, m)
    BY <1>1 DEF SameCalls, SameLabel
  <2>2. \A a \in Address : Shown(fs, n, a) = Shown(fs, n - 1, a)
    BY <1>0, <1>8, StaticShows DEF c, n
  <2>3. \A a \in Address : \A p \in 0 .. n - 2 : Shown(outer, p, a) = Shown(fs, p, a)
    <3>1. \A p \in 0 .. n - 2 : p \in 0 .. m
      BY <1>0, <1>6
    <3> QED BY <1>2, <3>1
  <2>4. \A a \in Address : Shown(outer, n - 1, a) = Shown(fs, n, a)
    <3>1. m \in 0 .. m
      BY <1>0
    <3> QED BY <1>2, <1>6, <2>2, <3>1
  <2> QED BY <1>1, <1>2, <1>6, <2>1, <2>3, <2>4 DEF HandsDown, n
<1>9. ASSUME \A a \in Changed(c) : Writable(outer, a)
      PROVE  Clean(SetTop(outer, g)) /\ \A x : HandsDown(fs, SetTop(outer, g), x)
  <2>1. \A a \in Changed(c) : ~f.accounts[a].removed
    BY <1>1, <1>3, <1>9 DEF Writable
  <2>2. \A a \in Changed(c) : /\ a \in Address /\ c.accounts[a].loaded /\ f.accounts[a].loaded
                              /\ c.accounts[a].removed \/ c.accounts[a].updated
    <3>1. \A a \in Address : c.accounts[a].loaded => f.accounts[a].loaded
      BY <1>0 DEF LoadedDown, c, f, n
    <3> QED BY <3>1 DEF Changed
  <2>3. \A a \in Changed(c) : f.accounts[a] \in Infos /\ c.accounts[a] \in Infos
    <3>1. \A a \in Address : c.accounts[a].loaded => c.accounts[a] \in Infos
      BY <1>0, FrameParts DEF c, n
    <3>2. \A a \in Address : f.accounts[a].loaded => f.accounts[a] \in Infos
      BY <1>0, FrameParts DEF f, n
    <3> QED BY <2>2, <3>1, <3>2
  <2> DEFINE acs == [a \in Address |-> IF a \in Changed(c) THEN Merged(f.accounts[a], c.accounts[a]) ELSE f.accounts[a]]
  <2>4. \A a \in Address : /\ a \in Changed(c) => acs[a] = Merged(f.accounts[a], c.accounts[a])
                           /\ a \notin Changed(c) => acs[a] = f.accounts[a]
    OBVIOUS
  <2>5. f.accounts \in [Address -> Infos \cup {NotLoaded}]
    BY <1>4 DEF FrameType
  <2>6. \A a \in Address : acs[a] \in Infos \cup {NotLoaded}
    BY <2>3, <2>4, <2>5, MergedIs
  <2>7. acs \in [Address -> Infos \cup {NotLoaded}]
    BY <2>6
  <2>8. g = [f EXCEPT !.accounts = acs]
    BY DEF g, MergedFrame
  <2> HIDE DEF acs
  <2>9. g \in FrameType /\ g.accounts = acs
    BY <1>4, <2>7, <2>8 DEF FrameType
  <2>10. TopMay(outer, g)
    <3>1. \A a \in Changed(c) : g.accounts[a].removed \/ g.accounts[a].updated
      BY <2>2, <2>3, <2>4, <2>9, MergedChanges
    <3>2. \A a \in Address : a \notin Changed(c) => g.accounts[a] = outer[Len(outer)].accounts[a]
      BY <1>1, <1>3, <2>4, <2>9
    <3> QED BY <3>1, <3>2 DEF TopMay
  <2> DEFINE hs == SetTop(outer, g)
  <2>11. /\ Clean(hs)
         /\ \A p \in 0 .. m - 1 : \A a \in Address : Shown(hs, p, a) = Shown(outer, p, a)
    BY <1>1, <1>2, <1>3, <2>9, <2>10, TopClean
  <2>12. /\ hs \in Seq(FrameType) /\ Len(hs) = m /\ hs[m] = g
         /\ \A i \in 1 .. m - 1 : hs[i] = outer[i]
    BY <1>1, <1>3, <2>9, SetTopIs
  <2> HIDE DEF hs
  <2>13. (\A p \in 0 .. m - 1 : p \in 0 .. m) /\ (\A i \in 1 .. m - 1 : i \in 1 .. m) /\ m - 1 = n - 2 /\ m = n - 1
    BY <1>0 DEF m
  <2>14. \A i \in 1 .. m - 1 : hs[i] = fs[i]
    BY <1>1, <2>12, <2>13
  <2>15. c = fs[m + 1] /\ f = fs[m] /\ g = MergedFrame(f, c) /\ Len(fs) = m + 1
    BY <1>0 DEF c, f, g, n
  <2>16. \A a \in Address : Shown(hs, m, a) = Shown(fs, m + 1, a)
    BY <1>0, <2>1, <2>9, <2>12, <2>14, <2>15, MergedShows
  <2>17. \A x : HandsDown(fs, hs, x)
    <3>1. \A a \in Address : \A p \in 0 .. n - 2 : Shown(hs, p, a) = Shown(fs, p, a)
      BY <1>2, <2>11, <2>13
    <3>2. \A a \in Address : Shown(hs, n - 1, a) = Shown(fs, n, a)
      BY <1>0, <2>13, <2>16
    <3>3. SameCalls(fs, hs, n - 1)
      <4>1. \A i \in 1 .. m : i \in 1 .. m - 1 \/ i = m
        BY <1>0
      <4>2. SameLabel(f, g) /\ g.err = f.err
        BY <1>4, <2>8 DEF FrameType, SameLabel
      <4>3. \A i \in 1 .. m : SameLabel(fs[i], hs[i]) /\ hs[i].err = fs[i].err
        BY <2>12, <2>14, <2>15, <4>1, <4>2 DEF SameLabel
      <4> QED BY <2>13, <4>3 DEF SameCalls
    <3> QED BY <2>12, <2>13, <3>1, <3>2, <3>3 DEF HandsDown, n
  <2> QED BY <2>11, <2>17 DEF hs
<1>10. ASSUME ~c.readonly, \E a \in Changed(c) : ~Writable(outer, a)
       PROVE  \E a \in Address : Shown(fs, m, a) = NoAccount
  <2>1. PICK a \in Changed(c) : ~Writable(outer, a)
    BY <1>10
  <2>2. a \in Address /\ c.accounts[a].loaded
    BY <2>1 DEF Changed
  <2>3. f.accounts[a].loaded
    BY <1>0, <2>2 DEF LoadedDown, c, f, n
  <2>4. ~f.readonly
    <3>1. f.readonly => \A j \in m .. n : fs[j].readonly
      BY <1>0 DEF Good, StaticFrames, f, n
    <3>2. n \in m .. n
      BY <1>0
    <3> QED BY <1>10, <3>1, <3>2 DEF c
  <2>5. f.accounts[a].removed
    BY <1>1, <1>3, <2>1, <2>4 DEF Writable
  <2>6. AcctAt(fs, m, a) = Absent
    BY <1>0, <2>2, <2>3, <2>5, AcctStep DEF f, n
  <2>7. Shown(fs, m, a) = NoAccount
    BY <2>2, <2>6, ShownIs
  <2> QED BY <2>2, <2>7
<1> QED
  <2>1. CASE c.err
    BY <1>5, <1>6, <1>7, <2>1 DEF c, n
  <2>2. CASE ~c.err /\ c.readonly
    BY <1>5, <1>8, <2>2 DEF c, n
  <2>3. CASE ~c.err /\ ~c.readonly /\ \E a \in Changed(c) : ~Writable(outer, a)
    <3>1. \E a \in Address : Shown(fs, n - 1, a) = NoAccount
      BY <1>6, <1>10, <2>3
    <3>2. Synced(fs) = Fail(outer)
      BY <1>5, <2>3
    <3> QED BY <1>6, <1>7, <3>1, <3>2 DEF n
  <2>4. CASE ~c.err /\ ~c.readonly /\ \A a \in Changed(c) : Writable(outer, a)
    BY <1>5, <1>9, <2>4 DEF c, n
  <2> QED BY <2>1, <2>2, <2>3, <2>4

\* What happens before the innermost frame returns touches one account.
LEMMA TouchReturn ==
  ASSUME NEW fs, Len(fs) \in Nat, Len(fs) > 1, NEW gs, NEW hs, NEW c, Touches(fs, gs, c)
  PROVE  /\ Drops(gs, hs) => Drops(fs, hs)
         /\ (\A x : HandsDown(gs, hs, x)) => HandsDown(fs, hs, c)
<1>1. /\ \A p \in 0 .. Len(fs) - 1 : p \in 0 .. Len(fs) /\ p < Len(fs)
      /\ \A p \in 0 .. Len(fs) - 2 : p \in 0 .. Len(fs) /\ p < Len(fs)
      /\ Len(fs) \in 0 .. Len(fs) /\ Len(gs) = Len(fs)
      /\ \A i \in 1 .. Len(fs) - 2 : i \in 1 .. Len(fs) - 1
      /\ Len(fs) - 1 \in 1 .. Len(fs) - 1
  BY DEF Touches
<1>2. SameCalls(fs, gs, Len(fs) - 1)
  BY DEF Touches
<1>3. ASSUME Drops(gs, hs) PROVE Drops(fs, hs)
  <2>1. SameCalls(fs, hs, Len(fs) - 2) /\ SameLabel(fs[Len(fs) - 1], hs[Len(fs) - 1])
    BY <1>1, <1>2, <1>3 DEF Drops, SameCalls, SameLabel
  <2> QED BY <1>1, <1>3, <2>1 DEF Drops, Touches
<1>4. ASSUME HandsDown(gs, hs, c) PROVE HandsDown(fs, hs, c)
  <2>1. SameCalls(fs, hs, Len(fs) - 1)
    BY <1>1, <1>2, <1>4 DEF HandsDown, SameCalls, SameLabel
  <2> QED BY <1>1, <1>4, <2>1 DEF HandsDown, Touches
<1> QED BY <1>3, <1>4

----------------------------------------------------------------------------
(* What the caches' operations show of the account they change.            *)

LEMMA FailErr ==
  ASSUME NEW fs \in Seq(FrameType), fs # <<>>
  PROVE  Fail(fs)[Len(fs)].err
<1>1. Len(fs) \in 1 .. Len(fs)
  OBVIOUS
<1> DEFINE f == fs[Len(fs)]
           g == [f EXCEPT !.err = TRUE]
<1>2. f \in FrameType
  BY <1>1, FrameParts
<1>3. g \in FrameType /\ g.err
  BY <1>2 DEF FrameType
<1>4. Fail(fs) = SetTop(fs, g)
  BY DEF Fail
<1> HIDE DEF g
<1>5. Fail(fs)[Len(fs)] = g
  BY <1>3, <1>4, SetTopIs
<1> QED BY <1>3, <1>5

LEMMA UpdateShows ==
  ASSUME NEW fs \in Seq(FrameType), fs # <<>>, NEW a \in Address,
         fs[Len(fs)].accounts[a].loaded, NEW acc \in Acct, Writable(fs, a)
  PROVE  LET gs == Update(fs, a, acc)
             n == Len(fs)
         IN  /\ gs \in Seq(FrameType) /\ gs[n].err = fs[n].err
             /\ AcctAt(gs, n, a) = acc /\ \A k \in Key : WordAt(gs, n, a, k) = WordAt(fs, n, a, k)
<1> DEFINE f == fs[Len(fs)]
           o == f.accounts[a]
           i == [o EXCEPT !.account = acc, !.updated = TRUE]
           g == SetInfo(f, a, i)
           gs == SetTop(fs, g)
           n == Len(fs)
<1>0. n \in 1 .. n /\ n \in Nat /\ n - 1 \in 0 .. n /\ n - 1 <= n /\ (\A j \in 1 .. n - 1 : j \in 1 .. n)
  OBVIOUS
<1>1. f \in FrameType /\ o \in Infos
  BY <1>0, FrameParts
<1>2. i \in Infos /\ i.loaded /\ i.account = acc /\ i.removed = o.removed /\ i.storage = o.storage
  BY <1>1 DEF Infos
<1>3. Update(fs, a, acc) = gs
  <2>1. [f EXCEPT !.accounts[a].account = acc, !.accounts[a].updated = TRUE] = g
    BY <1>1 DEF FrameType, Infos, SetInfo
  <2> QED BY <2>1 DEF Update
<1>4. ~o.removed
  BY DEF Writable
<1> HIDE DEF i
<1>5. g \in FrameType /\ g.accounts[a] = i /\ g.err = f.err
  BY <1>1, <1>2, InfoChanged
<1> HIDE DEF g
<1>6. gs \in Seq(FrameType) /\ Len(gs) = n /\ gs[n] = g /\ \A j \in 1 .. n - 1 : gs[j] = fs[j]
  BY <1>5, SetTopIs
<1> HIDE DEF gs
<1>7. AcctAt(gs, n, a) = acc
  <2>1. n \in 1 .. Len(gs)
    BY <1>0, <1>6
  <2>2. AcctAt(gs, n, a) = IF ~gs[n].accounts[a].loaded THEN AcctAt(gs, n - 1, a)
                           ELSE IF gs[n].accounts[a].removed THEN Absent
                           ELSE gs[n].accounts[a].account
    BY <1>6, <2>1, AcctStep
  <2> QED BY <1>2, <1>4, <1>5, <1>6, <2>2
<1>8. \A k \in Key : WordAt(gs, n - 1, a, k) = WordAt(fs, n - 1, a, k)
  BY <1>0, <1>6, ShownPrefix
<1>9. ASSUME NEW k \in Key PROVE WordAt(gs, n, a, k) = WordAt(fs, n, a, k)
  <2>1. n \in 1 .. Len(gs)
    BY <1>0, <1>6
  <2>2. /\ WordAt(gs, n, a, k) = IF gs[n].accounts[a].loaded /\ gs[n].accounts[a].storage[k] # Unset
                                 THEN gs[n].accounts[a].storage[k] ELSE WordAt(gs, n - 1, a, k)
        /\ WordAt(fs, n, a, k) = IF o.loaded /\ o.storage[k] # Unset
                                 THEN o.storage[k] ELSE WordAt(fs, n - 1, a, k)
    BY <1>0, <1>6, <2>1, WordStep
  <2> QED BY <1>2, <1>5, <1>6, <1>8, <2>2
<1> QED BY <1>3, <1>5, <1>6, <1>7, <1>9

LEMMA NoAccountIs ==
  ASSUME NEW fs, NEW p, NEW a \in Address
  PROVE  Shown(fs, p, a) = NoAccount <=> AcctAt(fs, p, a) = Absent
<1>1. NoAccount.acct = Absent
  BY DEF NoAccount
<1>2. AcctAt(fs, p, a) # Absent => Shown(fs, p, a).acct = AcctAt(fs, p, a)
  BY ShownIs
<1>3. AcctAt(fs, p, a) = Absent => Shown(fs, p, a) = NoAccount
  BY ShownIs
<1> QED BY <1>1, <1>2, <1>3

\* A failure shows what was there.
LEMMA FailShows ==
  ASSUME NEW fs \in Seq(FrameType), fs # <<>>, Clean(fs), NEW a \in Address
  PROVE  Shown(Fail(fs), Len(fs), a) = Shown(fs, Len(fs), a)
<1>1. PICK x : x # a
  <2>1. TRUE # a \/ FALSE # a
    OBVIOUS
  <2> QED BY <2>1
<1>2. Touches(fs, Fail(fs), x)
  BY FailTidy
<1>3. Len(fs) \in 0 .. Len(fs)
  OBVIOUS
<1> QED BY <1>1, <1>2, <1>3 DEF Touches

\* An account is made where there was none, or the frame fails.
LEMMA CreateShows ==
  ASSUME NEW fs \in Seq(FrameType), fs # <<>>, Clean(fs), NEW a \in Address,
         fs[Len(fs)].accounts[a].loaded, ~fs[Len(fs)].err
  PROVE  LET gs == CreateAccount(fs, a)
             n == Len(fs)
         IN  \/ gs[n].err /\ Shown(gs, n, a) = Shown(fs, n, a)
             \/ ~gs[n].err /\ Shown(fs, n, a) = NoAccount /\ Shown(gs, n, a) # NoAccount
<1> DEFINE acc == [code |-> NoCode, perms |-> FALSE]
<1>1. acc \in Acct /\ acc # Absent
  <2>1. acc \in Acct
    BY DEF Acct
  <2> QED BY <2>1, MarkerAssumption
<1> HIDE DEF acc
<1>2. CASE Exists(fs, a) \/ ~Writable(fs, a)
  <2>1. CreateAccount(fs, a) = Fail(fs)
    BY <1>2 DEF CreateAccount, Update
  <2> QED BY <2>1, FailErr, FailShows
<1>3. CASE ~Exists(fs, a) /\ Writable(fs, a)
  <2>1. CreateAccount(fs, a) = Update(fs, a, acc)
    BY <1>3 DEF CreateAccount, acc
  <2> DEFINE gs == Update(fs, a, acc)
  <2>2. gs[Len(fs)].err = fs[Len(fs)].err /\ AcctAt(gs, Len(fs), a) = acc
    BY <1>1, <1>3, UpdateShows
  <2> HIDE DEF gs
  <2>3. Shown(gs, Len(fs), a) # NoAccount
    BY <1>1, <2>2, NoAccountIs
  <2>4. Shown(fs, Len(fs), a) = NoAccount
    BY <1>3, AtTop, NoAccountIs DEF Exists
  <2>5. ~gs[Len(fs)].err
    BY <2>2
  <2> QED BY <2>1, <2>3, <2>4, <2>5 DEF gs
<1> QED BY <1>2, <1>3

\* The code is stored in an account that exists, or the frame fails.
LEMMA InitCodeShows ==
  ASSUME NEW fs \in Seq(FrameType), fs # <<>>, NEW a \in Address,
         fs[Len(fs)].accounts[a].loaded, NEW x \in Code \cup {NoCode},
         ~InitCode(fs, a, x)[Len(fs)].err
  PROVE  /\ Shown(fs, Len(fs), a) # NoAccount
         /\ Shown(InitCode(fs, a, x), Len(fs), a) = [Shown(fs, Len(fs), a) EXCEPT !.acct.code = x]
<1> DEFINE n == Len(fs)
           old == AcctIn(fs, a)
           new == [old EXCEPT !.code = x]
<1>0. n \in 1 .. n
  OBVIOUS
<1>1. old # Absent /\ Writable(fs, a) /\ InitCode(fs, a, x) = Update(fs, a, new)
  BY FailErr DEF InitCode, Update
<1>2. old \in Acct
  <2>1. fs[n].accounts[a] \in Infos
    BY <1>0, FrameParts
  <2>2. old \in Acct \cup {Absent}
    BY <2>1, TopHas DEF Infos
  <2> QED BY <1>1, <2>2
<1>3. new \in Acct /\ new # Absent
  <2>1. new \in Acct
    BY <1>2 DEF Acct
  <2> QED BY <2>1, MarkerAssumption
<1>4. AcctAt(fs, n, a) = old
  BY AtTop
<1> DEFINE gs == Update(fs, a, new)
<1> HIDE DEF old
<1>5. PICK na \in Acct : na = new
  BY <1>3
<1>6. AcctAt(gs, n, a) = na /\ \A k \in Key : WordAt(gs, n, a, k) = WordAt(fs, n, a, k)
  <2>1. /\ AcctAt(Update(fs, a, na), n, a) = na
        /\ \A k \in Key : WordAt(Update(fs, a, na), n, a, k) = WordAt(fs, n, a, k)
    BY <1>1, UpdateShows
  <2> QED BY <1>5, <2>1
<1> HIDE DEF gs
<1>7. PICK sl : sl = [k \in Key |-> WordAt(fs, n, a, k)]
  OBVIOUS
<1>8. Shown(fs, n, a) = [acct |-> old, slots |-> sl]
  BY <1>1, <1>4, <1>7, ShownIs
<1>9. Shown(gs, n, a) = [acct |-> na, slots |-> sl]
  <2>1. [k \in Key |-> WordAt(gs, n, a, k)] = sl
    BY <1>6, <1>7
  <2>2. na # Absent
    BY <1>3, <1>5
  <2> QED BY <1>6, <2>1, <2>2, ShownIs
<1>10. [Shown(fs, n, a) EXCEPT !.acct.code = x] = [acct |-> na, slots |-> sl]
  BY <1>5, <1>8
<1>11. Shown(fs, n, a) # NoAccount
  BY <1>1, <1>4, NoAccountIs
<1> QED BY <1>1, <1>9, <1>10, <1>11 DEF gs

\* An account that is removed is not there, or the frame fails.
LEMMA RemoveShows ==
  ASSUME NEW fs \in Seq(FrameType), fs # <<>>, NEW a \in Address,
         fs[Len(fs)].accounts[a].loaded, ~RemoveAccount(fs, a)[Len(fs)].err
  PROVE  Shown(RemoveAccount(fs, a), Len(fs), a) = NoAccount
<1>0. Len(fs) \in 1 .. Len(fs)
  OBVIOUS
<1> DEFINE n == Len(fs)
           f == fs[n]
           o == f.accounts[a]
           i == [o EXCEPT !.removed = TRUE]
           g == SetInfo(f, a, i)
           gs == SetTop(fs, g)
<1>1. f \in FrameType /\ o \in Infos
  BY <1>0, FrameParts
<1>2. i \in Infos /\ i.removed /\ i.loaded
  BY <1>1 DEF Infos
<1>3. RemoveAccount(fs, a) = gs
  <2>1. [f EXCEPT !.accounts[a].removed = TRUE] = g
    BY <1>1 DEF FrameType, Infos, SetInfo
  <2> QED BY <2>1, FailErr DEF RemoveAccount
<1> HIDE DEF i
<1>4. g \in FrameType /\ g.accounts[a] = i
  BY <1>1, <1>2, InfoChanged
<1> HIDE DEF g
<1>5. gs \in Seq(FrameType) /\ Len(gs) = n /\ gs[n] = g
  BY <1>4, SetTopIs
<1> HIDE DEF gs
<1>6. n \in 1 .. Len(gs)
  BY <1>0, <1>5
<1>7. AcctAt(gs, n, a) = IF ~gs[n].accounts[a].loaded THEN AcctAt(gs, n - 1, a)
                         ELSE IF gs[n].accounts[a].removed THEN Absent
                         ELSE gs[n].accounts[a].account
  BY <1>5, <1>6, AcctStep
<1>8. AcctAt(gs, n, a) = Absent
  BY <1>2, <1>4, <1>5, <1>7
<1> QED BY <1>3, <1>8, NoAccountIs

----------------------------------------------------------------------------
(* Steps of the nested transaction.                                        *)

\* How the call of frame f stands in phase ph, and the calls of frames fs.
Mark(f, ph) ==
  IF f.err THEN "failed" ELSE IF ph \in {"flush", "sync", "done"} THEN "returned" ELSE "running"
Stack(fs, ph) ==
  [i \in DOMAIN fs |-> [callee |-> fs[i].callee, create |-> fs[i].create,
                        status |-> Mark(fs[i], ph), world |-> View(SubSeq(fs, 1, i))]]

LEMMA ViewAt ==
  ASSUME NEW fs, NEW gs, \A a \in Address : View(fs)[a] = View(gs)[a]
  PROVE  View(fs) = View(gs)
BY DEF View

\* Entry by entry, s is the stack of frames fs in phase ph.
Lists(s, fs, ph) ==
  /\ Len(s) = Len(fs)
  /\ \A i \in 1 .. Len(fs) :
       /\ s[i].callee = fs[i].callee /\ s[i].create = fs[i].create
       /\ s[i].status = Mark(fs[i], ph)
       /\ \A a \in Address : s[i].world[a] = Shown(fs, i, a)

LEMMA StackIs ==
  ASSUME NEW fs \in Seq(FrameType), NEW ph
  PROVE  /\ Lists(Stack(fs, ph), fs, ph)
         /\ \A i \in 1 .. Len(fs) :
              Stack(fs, ph)[i] = [callee |-> fs[i].callee, create |-> fs[i].create,
                                  status |-> Mark(fs[i], ph), world |-> View(SubSeq(fs, 1, i))]
<1> DEFINE n == Len(fs)
           s == Stack(fs, ph)
           entry(i) == [callee |-> fs[i].callee, create |-> fs[i].create,
                        status |-> Mark(fs[i], ph), world |-> View(SubSeq(fs, 1, i))]
<1>1. n \in Nat /\ DOMAIN fs = 1 .. n
  OBVIOUS
<1>2. s = [i \in 1 .. n |-> entry(i)]
  BY <1>1 DEF Stack
<1>3. \A i : /\ entry(i).callee = fs[i].callee /\ entry(i).create = fs[i].create
             /\ entry(i).status = Mark(fs[i], ph) /\ entry(i).world = View(SubSeq(fs, 1, i))
  OBVIOUS
<1>4. \A i \in 1 .. n : s[i] = entry(i)
  BY <1>2
<1>5. s = [i \in 1 .. n |-> s[i]] /\ \A i \in 1 .. n : s[i] \in {s[j] : j \in 1 .. n}
  BY <1>2, <1>4
<1> HIDE DEF s
<1>6. s \in Seq({s[j] : j \in 1 .. n}) /\ Len(s) = n
  BY <1>1, <1>5, FunctionIsSeq
<1> QED BY <1>3, <1>4, <1>6 DEF s, Shown, Lists

LEMMA StackSeq ==
  ASSUME NEW fs \in Seq(FrameType), NEW ph
  PROVE  Stack(fs, ph) = [i \in 1 .. Len(fs) |-> Stack(fs, ph)[i]]
<1>1. DOMAIN fs = 1 .. Len(fs)
  OBVIOUS
<1> QED BY <1>1 DEF Stack

\* A call whose frame shows what it showed is the same call.
LEMMA EntryKept ==
  ASSUME NEW fs \in Seq(FrameType), NEW gs \in Seq(FrameType), NEW ph, NEW i, i \in 1 .. Len(fs),
         i \in 1 .. Len(gs), SameLabel(fs[i], gs[i]), gs[i].err = fs[i].err,
         \A a \in Address : Shown(gs, i, a) = Shown(fs, i, a)
  PROVE  Stack(gs, ph)[i] = Stack(fs, ph)[i]
<1>1. View(SubSeq(gs, 1, i)) = View(SubSeq(fs, 1, i))
  BY ViewAt DEF Shown
<1>2. Mark(gs[i], ph) = Mark(fs[i], ph)
  BY DEF Mark
<1>3. gs[i].callee = fs[i].callee /\ gs[i].create = fs[i].create
  BY DEF SameLabel
<1>4. /\ Stack(fs, ph)[i] = [callee |-> fs[i].callee, create |-> fs[i].create,
                             status |-> Mark(fs[i], ph), world |-> View(SubSeq(fs, 1, i))]
      /\ Stack(gs, ph)[i] = [callee |-> gs[i].callee, create |-> gs[i].create,
                             status |-> Mark(gs[i], ph), world |-> View(SubSeq(gs, 1, i))]
  BY StackIs
<1> QED BY <1>1, <1>2, <1>3, <1>4

\* A step that leaves the ledger alone: the worlds are judged by the same ledger.
LEMMA StackStep ==
  ASSUME ledger' = ledger, NEW gs, gs = frames', NEW q, q = phase'
  PROVE  Stack(frames, phase)' = Stack(gs, q) /\ View(<<>>)' = View(<<>>)
<1>1. ASSUME NEW i, NEW a
      PROVE  /\ AcctIn(SubSeq(frames, 1, i), a)' = AcctIn(SubSeq(gs, 1, i), a)
             /\ \A k \in Key : WordIn(SubSeq(frames, 1, i), a, k)' = WordIn(SubSeq(gs, 1, i), a, k)
  BY DEF AcctIn, WordIn, SM!LeftPadWord256
<1>2. ASSUME NEW a
      PROVE  /\ AcctIn(<<>>, a)' = AcctIn(<<>>, a)
             /\ \A k \in Key : WordIn(<<>>, a, k)' = WordIn(<<>>, a, k)
  BY DEF AcctIn, WordIn, SM!LeftPadWord256
<1>3. ASSUME NEW i PROVE View(SubSeq(frames, 1, i))' = View(SubSeq(gs, 1, i))
  BY <1>1 DEF View, Exists
<1>4. View(<<>>)' = View(<<>>)
  BY <1>2 DEF View, Exists
<1>5. ASSUME NEW i PROVE Mark(frames[i], phase)' = Mark(gs[i], q)
  BY DEF Mark
<1> QED BY <1>3, <1>4, <1>5 DEF Stack

\* NestedTx's stack is that of the frames.
LEMMA NestedStack == CallStack = Stack(frames, phase) /\ CallStack' = Stack(frames, phase)'
BY DEF CallStack, Stack, Mark, Status

LEMMA NestedWork ==
  ASSUME ledger' = ledger, phase = "evm", frames \in Seq(FrameType), frames # <<>>, ~Top.err,
         NEW gs \in Seq(FrameType), gs = frames', Touches(frames, gs, Top.callee),
         NEW q \in {"evm", "flush", "done"}, q = phase', q = "evm" \/ Len(frames) <= 1
  PROVE  Nested!Work
<1>1. PICK s : s = Stack(frames, "evm")
  OBVIOUS
<1>2. PICK t : t = Stack(gs, q)
  OBVIOUS
<1> DEFINE n == Len(frames)
<1>3. n \in Nat /\ n > 0 /\ n \in 0 .. n /\ Len(gs) = n /\ n \in 1 .. n /\ Top = frames[n]
  BY DEF Touches, Top
<1>4. /\ Len(s) = n
      /\ \A i \in 1 .. n : /\ s[i].callee = frames[i].callee /\ s[i].create = frames[i].create
                           /\ s[i].status = Mark(frames[i], "evm")
                           /\ \A a \in Address : s[i].world[a] = Shown(frames, i, a)
  <2>1. Lists(s, frames, "evm")
    BY <1>1, StackIs
  <2> QED BY <2>1 DEF Lists
<1>5. /\ Len(t) = n
      /\ \A i \in 1 .. n : /\ t[i].callee = gs[i].callee /\ t[i].create = gs[i].create
                           /\ t[i].status = Mark(gs[i], q)
                           /\ \A a \in Address : t[i].world[a] = Shown(gs, i, a)
  <2>1. Lists(t, gs, q)
    BY <1>2, StackIs
  <2> QED BY <1>3, <2>1 DEF Lists
<1> HIDE DEF n
<1>6. ASSUME NEW i \in 1 .. n - 1 PROVE t[i] = s[i]
  <2>1. i \in 1 .. n /\ i \in 0 .. n /\ i < n /\ q = "evm"
    BY <1>3 DEF n
  <2>2. \A a \in Address : Shown(gs, i, a) = Shown(frames, i, a)
    BY <2>1 DEF Touches, n
  <2>3. SameLabel(frames[i], gs[i]) /\ gs[i].err = frames[i].err
    BY DEF Touches, SameCalls, n
  <2>4. Stack(gs, "evm")[i] = Stack(frames, "evm")[i]
    BY <1>3, <2>1, <2>2, <2>3, EntryKept DEF n
  <2> QED BY <1>1, <1>2, <2>1, <2>4
<1>7. /\ s[n].status = "running" /\ s[n].callee = Top.callee
      /\ t[n].callee = s[n].callee /\ t[n].create = s[n].create
      /\ t[n].status \in {"running", "failed"} \cup (IF n = 1 THEN {"returned"} ELSE {})
  <2>1. SameLabel(frames[n], gs[n])
    BY DEF Touches, n
  <2>2. s[n].status = "running"
    BY <1>3, <1>4 DEF Mark
  <2>3. t[n].status \in {"running", "failed"} \cup (IF n = 1 THEN {"returned"} ELSE {})
    <3>1. CASE q = "evm"
      BY <1>3, <1>5, <3>1 DEF Mark
    <3>2. CASE q # "evm"
      <4>1. n = 1
        BY <1>3, <3>2 DEF n
      <4> QED BY <1>3, <1>5, <4>1 DEF Mark
    <3> QED BY <3>1, <3>2
  <2> QED BY <1>3, <1>4, <1>5, <2>1, <2>2, <2>3 DEF SameLabel
<1>8. \A a \in Address : a # s[n].callee => t[n].world[a] = s[n].world[a]
  <2>1. \A a \in Address : a # Top.callee => Shown(gs, n, a) = Shown(frames, n, a)
    BY <1>3 DEF Touches, n
  <2> QED BY <1>3, <1>4, <1>5, <1>7, <2>1
<1>9. Stack(frames, phase)' = t /\ View(<<>>)' = View(<<>>) /\ Stack(frames, phase) = s
  BY <1>1, <1>2, StackStep
<1>10. /\ Len(s) = n /\ Len(t) = n /\ n > 0
       /\ \A i \in 1 .. n - 1 : t[i] = s[i]
  BY <1>3, <1>4, <1>5, <1>6
<1> QED BY <1>7, <1>8, <1>9, <1>10, NestedStack
        DEF Nested!Work, Nested!n, Nested!Top, Nested!Kept, Nested!SameCall, Nested!Only

\* The calls below the innermost stay as they are.
LEMMA BelowKept ==
  ASSUME NEW fs \in Seq(FrameType), NEW gs \in Seq(FrameType), NEW m \in Nat, m <= Len(fs), m <= Len(gs),
         SameCalls(fs, gs, m),
         \A i \in 1 .. m : \A a \in Address : Shown(gs, i, a) = Shown(fs, i, a)
  PROVE  \A i \in 1 .. m : Stack(gs, "evm")[i] = Stack(fs, "evm")[i]
<1> SUFFICES ASSUME NEW i \in 1 .. m PROVE Stack(gs, "evm")[i] = Stack(fs, "evm")[i]
  OBVIOUS
<1>1. i \in 1 .. Len(fs) /\ i \in 1 .. Len(gs)
  OBVIOUS
<1>2. SameLabel(fs[i], gs[i]) /\ gs[i].err = fs[i].err
  BY DEF SameCalls
<1> QED BY <1>1, <1>2, EntryKept

LEMMA NestedCall ==
  ASSUME ledger' = ledger, phase = "evm", phase' = "evm", frames \in Seq(FrameType), frames # <<>>, ~Top.err,
         NEW gs \in Seq(FrameType), gs = frames', NEW c, Pushes(frames, gs, c),
         NEW g, g = gs[Len(frames) + 1],
         \/ ~g.create /\ ~g.err /\ Shown(gs, Len(frames) + 1, c) = Shown(frames, Len(frames), c)
         \/ /\ g.create /\ ~g.err /\ g.callee = c
            /\ Shown(frames, Len(frames), c) = NoAccount /\ Shown(gs, Len(frames) + 1, c) # NoAccount
         \/ g.create /\ g.err /\ Shown(gs, Len(frames) + 1, c) = Shown(frames, Len(frames), c),
         c \in Address
  PROVE  Nested!Call
<1>1. PICK s : s = Stack(frames, "evm")
  OBVIOUS
<1>2. PICK t : t = Stack(gs, "evm")
  OBVIOUS
<1> DEFINE n == Len(frames)
           m == n + 1
<1>3. n \in Nat /\ n > 0 /\ Len(gs) = m
  BY DEF Pushes
<1>4. Lists(s, frames, "evm") /\ Lists(t, gs, "evm")
  BY <1>1, <1>2, StackIs
<1>5. n \in 1 .. n /\ m \in 1 .. m /\ (\A i \in 1 .. n : i \in 0 .. n) /\ n <= m
  <2> HIDE DEF n
  <2> QED BY <1>3
<1>6. Top = frames[n]
  BY DEF Top
<1> HIDE DEF n, m
<1>7. Len(s) = n /\ Len(t) = m /\ n > 0 /\ \A i \in 1 .. n : t[i] = s[i]
  <2>1. SameCalls(frames, gs, n)
    BY DEF Pushes, n
  <2>2. \A i \in 1 .. n : \A a \in Address : Shown(gs, i, a) = Shown(frames, i, a)
    BY <1>5 DEF Pushes, n
  <2>3. n <= Len(frames) /\ n <= Len(gs)
    BY <1>3, <1>5 DEF n
  <2>4. \A i \in 1 .. n : t[i] = s[i]
    BY <1>1, <1>2, <1>3, <2>1, <2>2, <2>3, BelowKept
  <2> QED BY <1>3, <1>4, <2>4 DEF Lists, n
<1>8. s[n].status = "running" /\ \A a \in Address : s[n].world[a] = Shown(frames, n, a)
  BY <1>4, <1>5, <1>6 DEF Lists, Mark, n
<1>9. /\ t[m].callee = g.callee /\ t[m].create = g.create
      /\ t[m].status = IF g.err THEN "failed" ELSE "running"
      /\ \A a \in Address : t[m].world[a] = Shown(gs, m, a)
  <2>1. g = gs[m]
    BY DEF m, n
  <2> QED BY <1>3, <1>4, <1>5, <2>1 DEF Lists, Mark
<1>10. \A a \in Address : a # c => t[m].world[a] = s[n].world[a]
  <2>1. \A a \in Address : a # c => Shown(gs, m, a) = Shown(frames, n, a)
    BY DEF Pushes, m, n
  <2> QED BY <1>8, <1>9, <2>1
<1>11. \/ ~t[m].create /\ t[m].status = "running" /\ t[m].world[c] = s[n].world[c]
       \/ /\ t[m].create /\ t[m].status = "running" /\ t[m].callee = c
          /\ s[n].world[c] = NoAccount /\ t[m].world[c] # NoAccount
       \/ t[m].create /\ t[m].status = "failed" /\ t[m].world[c] = s[n].world[c]
  <2>1. /\ Shown(gs, Len(frames) + 1, c) = t[m].world[c]
        /\ Shown(frames, Len(frames), c) = s[n].world[c]
    BY <1>8, <1>9 DEF m, n
  <2> QED BY <1>9, <2>1
<1>12. Stack(frames, phase)' = t /\ View(<<>>)' = View(<<>>) /\ Stack(frames, phase) = s
  BY <1>1, <1>2, StackStep
<1>13. \/ ~t[m].create /\ t[m].status = "running" /\ Nested!Same(s[n].world, t[m].world)
       \/ t[m].create /\ t[m].status = "running" /\ Nested!Makes(s[n].world, t[m].world, t[m].callee)
       \/ t[m].create /\ t[m].status = "failed" /\ Nested!Same(s[n].world, t[m].world)
  BY <1>10, <1>11 DEF Nested!Same, Nested!Makes, Nested!Only
<1> QED BY <1>7, <1>8, <1>12, <1>13, NestedStack DEF Nested!Call, Nested!n, Nested!Top, Nested!Kept, m

LEMMA StackNone ==
  ASSUME NEW ph
  PROVE  Stack(<<>>, ph) = <<>>
BY DEF Stack

LEMMA NestedBegin ==
  ASSUME ledger' = ledger, frames = <<>>,
         NEW gs \in Seq(FrameType), gs = frames', NEW c \in Address, Pushes(<<>>, gs, c),
         NEW q \in {"evm", "flush"}, q = phase', ~gs[1].create, ~gs[1].err,
         \/ /\ q = "evm" /\ gs[1].callee = c
            /\ Shown(<<>>, 0, c) = NoAccount /\ Shown(gs, 1, c) # NoAccount
         \/ Shown(gs, 1, c) = Shown(<<>>, 0, c)
  PROVE  Nested!Begin
<1>1. PICK t : t = Stack(gs, q)
  OBVIOUS
<1>2. Len(gs) = 1 /\ \A a \in Address : a # c => Shown(gs, 1, a) = Shown(<<>>, 0, a)
  BY EmptyLen DEF Pushes
<1>3. /\ Len(t) = 1 /\ ~t[1].create /\ t[1].callee = gs[1].callee
      /\ t[1].status = IF q = "evm" THEN "running" ELSE "returned"
      /\ \A a \in Address : t[1].world[a] = Shown(gs, 1, a)
  <2>1. 1 \in 1 .. 1
    OBVIOUS
  <2>2. Lists(t, gs, q)
    BY <1>1, StackIs
  <2>3. /\ Len(t) = 1 /\ ~t[1].create /\ t[1].callee = gs[1].callee /\ t[1].status = Mark(gs[1], q)
        /\ \A a \in Address : t[1].world[a] = Shown(gs, 1, a)
    BY <1>2, <2>1, <2>2 DEF Lists
  <2> QED BY <2>3 DEF Mark
<1>4. \A a \in Address : Shown(<<>>, 0, a) = View(<<>>)[a]
  <2>1. SubSeq(<<>>, 1, 0) = <<>>
    OBVIOUS
  <2> QED BY <2>1 DEF Shown
<1>5. PICK w : w = View(<<>>)
  OBVIOUS
<1>6. \A a \in Address : a # c => t[1].world[a] = w[a]
  BY <1>2, <1>3, <1>4, <1>5
<1>7. \/ /\ t[1].status = "running" /\ t[1].callee = c /\ w[c] = NoAccount /\ t[1].world[c] # NoAccount
      \/ t[1].status \in {"running", "returned"} /\ t[1].world[c] = w[c]
  BY <1>3, <1>4, <1>5
<1>8. \/ t[1].status = "running" /\ Nested!Makes(w, t[1].world, t[1].callee)
      \/ t[1].status \in {"running", "returned"} /\ Nested!Same(w, t[1].world)
  BY <1>6, <1>7 DEF Nested!Makes, Nested!Same, Nested!Only
<1>9. Stack(frames, phase)' = t /\ View(<<>>)' = View(<<>>)
  BY <1>1, StackStep
<1>10. Stack(frames, phase) = <<>>
  BY StackNone
<1> QED BY <1>3, <1>5, <1>8, <1>9, <1>10, NestedStack DEF Nested!Begin

LEMMA NestedFailing ==
  ASSUME ledger' = ledger, phase = "evm", phase' = "evm", frames \in Seq(FrameType), Len(frames) > 1, Top.err,
         NEW gs \in Seq(FrameType), gs = frames', Len(gs) = Len(frames) - 1,
         \A i \in 1 .. Len(frames) - 1 : gs[i] = frames[i],
         \A i \in 1 .. Len(frames) - 1 : \A a \in Address : Shown(gs, i, a) = Shown(frames, i, a)
  PROVE  Nested!Failing
<1>1. PICK s : s = Stack(frames, "evm")
  OBVIOUS
<1>2. PICK t : t = Stack(gs, "evm")
  OBVIOUS
<1> DEFINE n == Len(frames)
           m == n - 1
<1>3. n \in Nat /\ n > 1 /\ Len(gs) = m
  OBVIOUS
<1>4. Lists(s, frames, "evm") /\ Lists(t, gs, "evm")
  BY <1>1, <1>2, StackIs
<1>5. m \in Nat /\ n \in 1 .. n /\ m <= n /\ 1 .. m \subseteq 1 .. n
  <2> HIDE DEF n
  <2> QED BY <1>3
<1>6. Top = frames[n]
  BY DEF Top
<1>7. SameCalls(frames, gs, m)
  BY DEF SameCalls, SameLabel
<1> HIDE DEF n
<1>8. \A i \in 1 .. m : t[i] = s[i]
  <2>1. \A i \in 1 .. m : \A a \in Address : Shown(gs, i, a) = Shown(frames, i, a)
    BY DEF n
  <2> HIDE DEF m
  <2>2. m <= Len(frames) /\ m <= Len(gs)
    BY <1>3, <1>5 DEF n
  <2> QED BY <1>1, <1>2, <1>5, <1>7, <2>1, <2>2, BelowKept
<1>9. Len(s) = n /\ s[n].status = "failed"
  BY <1>4, <1>5, <1>6 DEF Lists, Mark, n
<1>10. t = SubSeq(s, 1, m)
  <2>1. t = [i \in 1 .. m |-> t[i]]
    BY <1>2, <1>3, StackSeq
  <2>2. SubSeq(s, 1, m) = [i \in 1 .. m |-> s[i]]
    <3>1. s = [i \in 1 .. n |-> s[i]] /\ \A i \in 1 .. n : s[i] \in {s[j] : j \in 1 .. n}
      BY <1>1, StackSeq DEF n
    <3>2. s \in Seq({s[j] : j \in 1 .. n})
      BY <1>3, <3>1, FunctionIsSeq
    <3> QED BY <1>3, <1>5, <1>9, <3>2
  <2> HIDE DEF m
  <2> QED BY <1>8, <2>1, <2>2
<1>11. Stack(frames, phase)' = t /\ View(<<>>)' = View(<<>>) /\ Stack(frames, phase) = s
  BY <1>1, <1>2, StackStep
<1> QED BY <1>3, <1>9, <1>10, <1>11, NestedStack DEF Nested!Failing, Nested!n, Nested!Top

\* What a call leaves of its own account: as NestedTx has it.
Leaving(create, old, new) ==
  \/ ~create /\ new \in {old, NoAccount}
  \/ create /\ old # NoAccount /\ \E x \in Code \cup {NoCode} : new = [old EXCEPT !.acct.code = x]

LEMMA NestedSucceed ==
  ASSUME ledger' = ledger, phase = "evm", phase' = "evm", frames \in Seq(FrameType), Len(frames) > 1, ~Top.err,
         NEW gs \in Seq(FrameType), gs = frames', NEW c \in Address, c = Top.callee, HandsDown(frames, gs, c),
         Leaving(Top.create, Shown(frames, Len(frames), c), Shown(gs, Len(frames) - 1, c))
  PROVE  Nested!Succeed
<1>1. PICK s : s = Stack(frames, "evm")
  OBVIOUS
<1>2. PICK t : t = Stack(gs, "evm")
  OBVIOUS
<1> DEFINE n == Len(frames)
           m == n - 1
<1>3. n \in Nat /\ n > 1 /\ Len(gs) = m
  BY DEF HandsDown
<1>4. Lists(s, frames, "evm") /\ Lists(t, gs, "evm")
  BY <1>1, <1>2, StackIs
<1>5. /\ m \in Nat /\ n \in 1 .. n /\ m \in 1 .. n /\ m \in 1 .. m /\ m <= n
      /\ n - 2 \in Nat /\ n - 2 <= n /\ n - 2 <= m /\ \A i \in 1 .. n - 2 : i \in 0 .. n - 2 /\ i \in 1 .. m
  <2> HIDE DEF n
  <2> QED BY <1>3
<1>6. Top = frames[n]
  BY DEF Top
<1> HIDE DEF n, m
<1>7. \A i \in 1 .. n - 2 : t[i] = s[i]
  <2>1. SameCalls(frames, gs, n - 2)
    BY <1>5 DEF HandsDown, SameCalls, n, m
  <2>2. \A i \in 1 .. n - 2 : \A a \in Address : Shown(gs, i, a) = Shown(frames, i, a)
    BY <1>5 DEF HandsDown, n
  <2>3. n - 2 <= Len(frames) /\ n - 2 <= Len(gs)
    BY <1>3, <1>5 DEF n
  <2> QED BY <1>1, <1>2, <1>5, <2>1, <2>2, <2>3, BelowKept
<1>8. /\ Len(s) = n /\ n > 1 /\ s[n].status = "running"
      /\ s[n].callee = c /\ s[n].create = Top.create
      /\ \A a \in Address : s[n].world[a] = Shown(frames, n, a)
  BY <1>3, <1>4, <1>5, <1>6 DEF Lists, Mark, n
<1>9. Len(t) = m /\ \A a \in Address : t[m].world[a] = Shown(gs, m, a)
  BY <1>3, <1>4, <1>5 DEF Lists
<1>10. t[m].callee = s[m].callee /\ t[m].create = s[m].create /\ t[m].status = s[m].status
  <2>1. SameLabel(frames[m], gs[m]) /\ gs[m].err = frames[m].err
    BY <1>5 DEF HandsDown, SameCalls, n, m
  <2>2. /\ t[m].callee = gs[m].callee /\ t[m].create = gs[m].create /\ t[m].status = Mark(gs[m], "evm")
        /\ s[m].callee = frames[m].callee /\ s[m].create = frames[m].create /\ s[m].status = Mark(frames[m], "evm")
    BY <1>3, <1>4, <1>5 DEF Lists, n
  <2> QED BY <2>1, <2>2 DEF SameLabel, Mark
<1>11. \A a \in Address : a # s[n].callee => t[m].world[a] = s[n].world[a]
  <2>1. \A a \in Address : a # c => Shown(gs, m, a) = Shown(frames, n, a)
    BY DEF HandsDown, m, n
  <2> QED BY <1>8, <1>9, <2>1
<1>12. Leaving(s[n].create, s[n].world[s[n].callee], t[m].world[s[n].callee])
  BY <1>8, <1>9 DEF m, n
<1>13. Nested!Leaves(s[n], t[m].world)
  BY <1>11, <1>12 DEF Nested!Leaves, Nested!Only, Leaving
<1>14. Stack(frames, phase)' = t /\ View(<<>>)' = View(<<>>) /\ Stack(frames, phase) = s
  BY <1>1, <1>2, StackStep
<1> QED BY <1>7, <1>8, <1>9, <1>10, <1>13, <1>14, NestedStack
        DEF Nested!Succeed, Nested!n, Nested!Top, Nested!Kept, Nested!SameCall, m

LEMMA NestedFailCaller ==
  ASSUME ledger' = ledger, phase = "evm", phase' = "evm", frames \in Seq(FrameType), Len(frames) > 1, ~Top.err,
         NEW gs \in Seq(FrameType), gs = frames', Drops(frames, gs), gs[Len(frames) - 1].err,
         Top.create \/ \E a \in Address : Shown(frames, Len(frames) - 1, a) = NoAccount
  PROVE  Nested!FailCaller
<1>1. PICK s : s = Stack(frames, "evm")
  OBVIOUS
<1>2. PICK t : t = Stack(gs, "evm")
  OBVIOUS
<1> DEFINE n == Len(frames)
           m == n - 1
<1>3. n \in Nat /\ n > 1 /\ Len(gs) = m
  BY DEF Drops
<1>4. Lists(s, frames, "evm") /\ Lists(t, gs, "evm")
  BY <1>1, <1>2, StackIs
<1>5. /\ m \in Nat /\ n \in 1 .. n /\ m \in 1 .. n /\ m \in 1 .. m /\ m \in 0 .. m
      /\ n - 2 \in Nat /\ n - 2 <= n /\ n - 2 <= m /\ \A i \in 1 .. n - 2 : i \in 0 .. m
  <2> HIDE DEF n
  <2> QED BY <1>3
<1>6. Top = frames[n]
  BY DEF Top
<1> HIDE DEF n, m
<1>7. \A i \in 1 .. n - 2 : t[i] = s[i]
  <2>1. SameCalls(frames, gs, n - 2)
    BY DEF Drops, n
  <2>2. \A i \in 1 .. n - 2 : \A a \in Address : Shown(gs, i, a) = Shown(frames, i, a)
    BY <1>5 DEF Drops, n, m
  <2>3. n - 2 <= Len(frames) /\ n - 2 <= Len(gs)
    BY <1>3, <1>5 DEF n
  <2> QED BY <1>1, <1>2, <1>5, <2>1, <2>2, <2>3, BelowKept
<1>8. Len(s) = n /\ n > 1 /\ s[n].status = "running" /\ s[n].create = Top.create
  BY <1>3, <1>4, <1>5, <1>6 DEF Lists, Mark, n
<1>9. /\ Len(t) = m /\ t[m].status = "failed"
      /\ t[m].callee = s[m].callee /\ t[m].create = s[m].create
  <2>1. SameLabel(frames[m], gs[m]) /\ gs[m].err
    BY DEF Drops, n, m
  <2> QED BY <1>3, <1>4, <1>5, <2>1 DEF Lists, Mark, SameLabel, n
<1>10. \A a \in Address : t[m].world[a] = Shown(frames, m, a) /\ s[m].world[a] = Shown(frames, m, a)
  <2>1. \A a \in Address : Shown(gs, m, a) = Shown(frames, m, a)
    BY <1>5 DEF Drops, n, m
  <2> QED BY <1>3, <1>4, <1>5, <2>1 DEF Lists, n
<1>11. s[n].create \/ \E a \in Address : s[m].world[a] = NoAccount
  <2>1. CASE Top.create
    BY <1>8, <2>1
  <2>2. CASE \E a \in Address : Shown(frames, m, a) = NoAccount
    BY <1>10, <2>2
  <2> QED BY <2>1, <2>2 DEF m, n
<1>12. Stack(frames, phase)' = t /\ View(<<>>)' = View(<<>>) /\ Stack(frames, phase) = s
  BY <1>1, <1>2, StackStep
<1> QED BY <1>7, <1>8, <1>9, <1>10, <1>11, <1>12, NestedStack
        DEF Nested!FailCaller, Nested!n, Nested!Top, Nested!Kept, Nested!SameCall, Nested!Same, m

\* A step that shows nothing.
LEMMA NestedStill ==
  ASSUME ledger' = ledger, frames' = frames, NEW q, q = phase',
         \A i \in DOMAIN frames : Mark(frames[i], q) = Mark(frames[i], phase)
  PROVE  UNCHANGED Nested!vars
<1>1. PICK gs : gs = frames' /\ gs = frames
  OBVIOUS
<1>2. Stack(frames, phase)' = Stack(gs, q) /\ View(<<>>)' = View(<<>>)
  BY <1>1, StackStep
<1>3. Stack(gs, q) = Stack(frames, phase)
  BY <1>1 DEF Stack
<1> QED BY <1>2, <1>3, NestedStack DEF Nested!vars

\* The stack of one frame.
LEMMA StackOne ==
  ASSUME frames \in Seq(FrameType), Len(frames) = 1
  PROVE  /\ Len(Stack(frames, phase)) = 1
         /\ Stack(frames, phase)[1].status = Mark(frames[1], phase)
         /\ Stack(frames, phase)[1].world = View(SubSeq(frames, 1, 1))
<1>1. PICK ph : ph = phase
  OBVIOUS
<1>2. PICK s : s = Stack(frames, ph)
  OBVIOUS
<1>3. 1 \in 1 .. 1
  OBVIOUS
<1>4. Lists(s, frames, ph) /\ s[1] = [callee |-> frames[1].callee, create |-> frames[1].create,
                                      status |-> Mark(frames[1], ph), world |-> View(SubSeq(frames, 1, 1))]
  BY <1>2, <1>3, StackIs
<1>5. Len(s) = 1 /\ s[1].status = Mark(frames[1], ph) /\ s[1].world = View(SubSeq(frames, 1, 1))
  BY <1>4 DEF Lists
<1> QED BY <1>1, <1>2, <1>5

LEMMA NoStack ==
  ASSUME frames' = <<>>
  PROVE  Stack(frames, phase)' = <<>>
BY DEF Stack

LEMMA NestedAbort ==
  ASSUME ledger' = ledger, phase = "done", frames \in Seq(FrameType), Len(frames) = 1, frames' = <<>>
  PROVE  Nested!Abort
<1>1. PICK gs : gs = frames' /\ gs = <<>>
  OBVIOUS
<1>2. PICK q : q = phase'
  OBVIOUS
<1>3. View(<<>>)' = View(<<>>)
  BY <1>1, <1>2, StackStep
<1>4. Stack(frames, phase)' = <<>>
  BY NoStack
<1>5. Len(Stack(frames, phase)) = 1 /\ Stack(frames, phase)[1].status # "running"
  BY StackOne DEF Mark
<1> QED BY <1>3, <1>4, <1>5, NestedStack DEF Nested!Abort, Nested!n, Nested!Top

\* Without frames, the world is the ledger's.
LEMMA NoLevels ==
  ASSUME NEW a, NEW k
  PROVE  AcctLevel(<<>>, a) = 0 /\ WordLevel(<<>>, a, k) = 0
<1>1. {} \in SUBSET (1 .. 0) /\ 0 \in Nat
  OBVIOUS
<1>2. Max0({}) = 0
  BY <1>1, MaxOf
<1>3. DOMAIN <<>> = {}
  OBVIOUS
<1> QED BY <1>2, <1>3 DEF AcctLevel, WordLevel

\* What Sync has written is the world the outermost call ended with.
LEMMA NestedCommit ==
  ASSUME EInv, Clean(frames), Len(frames) <= 1, frames # <<>>, phase = "done", ~frames[1].err,
         writes = Target(frames[1]),
         ledger' = SM!Applied(writes), frames' = <<>>
  PROVE  Nested!Commit
<1>1. PICK l : l = ledger' /\ l = SM!Applied(writes)
  OBVIOUS
<1>2. PICK s : s = Stack(frames, phase)
  OBVIOUS
<1>3. frames \in Seq(FrameType) /\ Len(frames) = 1 /\ 1 \in 1 .. 1 /\ 1 - 1 = 0
  <2>1. frames \in Seq(FrameType)
    BY DEF EInv, FramesInv, Good
  <2>2. Len(frames) # 0 /\ Len(frames) \in Nat
    BY <2>1, EmptyLen
  <2>3. Len(frames) = 1
    <3> DEFINE len == Len(frames)
    <3>1. len \in Nat /\ len # 0 /\ len <= 1
      BY <2>2
    <3> HIDE DEF len
    <3>2. len = 1
      BY <3>1
    <3> QED BY <3>2 DEF len
  <2>4. 1 \in 1 .. 1 /\ 1 - 1 = 0
    OBVIOUS
  <2> QED BY <2>1, <2>3, <2>4
<1> DEFINE f == frames[1]
<1>4. Len(s) = 1 /\ s[1].status = "returned" /\ s[1].world = View(SubSeq(frames, 1, 1))
  BY <1>2, <1>3, StackOne DEF Mark
<1>5. \A x \in SM!WorldKey : l[x] = IF writes[x] = Unset THEN ledger[x] ELSE writes[x]
  BY <1>1 DEF SM!Applied
<1>6. ASSUME NEW a \in Address
      PROVE  /\ AcctAt(frames, 1, a) = l[SM!acctKey(a)]
             /\ \/ l[SM!acctKey(a)] = Absent
                \/ \A k \in Key : WordAt(frames, 1, a, k) = SM!LeftPadWord256(l[SM!compKey(a, k)])
  <2> DEFINE i == f.accounts[a]
             key == SM!acctKey(a)
  <2>1. /\ key \in SM!WorldKey /\ key[1] = "lower" /\ key[2] = a /\ key[3] = NoKey
        /\ \A k \in Key : /\ SM!compKey(a, k) \in SM!WorldKey /\ SM!compKey(a, k)[1] = "lower"
                          /\ SM!compKey(a, k)[2] = a /\ SM!compKey(a, k)[3] = k /\ k # NoKey
    BY MarkerAssumption DEF SM!acctKey, SM!compKey, SM!ToLower, SM!String, SM!WorldKey
  <2>2. i.loaded => i \in Infos
    BY <1>3, FrameParts
  <2>3. /\ AcctAt(frames, 1, a) = IF ~i.loaded THEN AcctAt(frames, 0, a)
                                  ELSE IF i.removed THEN Absent ELSE i.account
        /\ AcctAt(frames, 0, a) = ledger[key]
    <3>1. AcctAt(frames, 1, a) = IF ~i.loaded THEN AcctAt(frames, 1 - 1, a)
                                  ELSE IF i.removed THEN Absent ELSE i.account
      BY <1>3, AcctStep
    <3>2. PICK k : k = NoKey
      OBVIOUS
    <3>3. AcctAt(frames, 0, a) = ledger[key]
      BY <1>3, AtStep
    <3> QED BY <1>3, <3>1, <3>3
  <2>4. ASSUME NEW k \in Key
        PROVE  /\ WordAt(frames, 1, a, k) = IF i.loaded /\ i.storage[k] # Unset THEN i.storage[k]
                                            ELSE WordAt(frames, 0, a, k)
               /\ WordAt(frames, 0, a, k) = SM!LeftPadWord256(ledger[SM!compKey(a, k)])
    <3>1. WordAt(frames, 1, a, k) = IF i.loaded /\ i.storage[k] # Unset THEN i.storage[k]
                                    ELSE WordAt(frames, 1 - 1, a, k)
      BY <1>3, WordStep
    <3>2. WordAt(frames, 0, a, k) = SM!LeftPadWord256(ledger[SM!compKey(a, k)])
      BY <1>3, AtStep
    <3> QED BY <1>3, <3>1, <3>2
  <2>5. writes[key] = IF ~i.loaded THEN Unset ELSE IF i.removed THEN Absent
                      ELSE IF i.updated THEN i.account ELSE Unset
    <3> HIDE DEF key
    <3> QED BY <2>1 DEF Target
  <2>6. ASSUME NEW k \in Key
        PROVE  writes[SM!compKey(a, k)] = IF ~i.loaded THEN Unset
                                          ELSE IF i.removed \/ ~i.updated THEN Unset
                                          ELSE IF i.storage[k] = Zero THEN Absent ELSE i.storage[k]
    <3>1. PICK x \in SM!WorldKey : x = SM!compKey(a, k)
      BY <2>1
    <3>2. x[1] = "lower" /\ x[2] = a /\ x[3] = k /\ k # NoKey
      BY <2>1, <3>1
    <3> QED BY <3>1, <3>2 DEF Target
  <2>7. i.loaded /\ ~i.removed /\ ~i.updated =>
          /\ i.account = ledger[key]
          /\ \A k \in Key : i.storage[k] # Unset => i.storage[k] = SM!LeftPadWord256(ledger[SM!compKey(a, k)])
    <3> SUFFICES ASSUME i.loaded /\ ~i.removed /\ ~i.updated
                 PROVE  /\ i.account = ledger[key]
                        /\ \A k \in Key : i.storage[k] # Unset =>
                             i.storage[k] = SM!LeftPadWord256(ledger[SM!compKey(a, k)])
      OBVIOUS
    <3>1. /\ i.account = AcctAt(frames, 1 - 1, a)
          /\ \A k \in Key : i.storage[k] # Unset => i.storage[k] = WordAt(frames, 1 - 1, a, k)
      BY <1>3 DEF Clean
    <3> QED BY <1>3, <2>3, <2>4, <3>1
  <2>8. i.loaded => /\ i.account \in Acct \cup {Absent} /\ i.account # Unset
                    /\ \A k \in Key : i.storage[k] \in Word \cup {Zero, Unset}
    BY <2>2, MarkerAssumption DEF Infos
  <2>9. Absent # Unset
    BY MarkerAssumption
  <2> HIDE DEF i
  <2>10. AcctAt(frames, 1, a) = l[key]
    <3>1. l[key] = IF writes[key] = Unset THEN ledger[key] ELSE writes[key]
      BY <1>5, <2>1
    <3> HIDE DEF key
    <3> QED BY <2>3, <2>5, <2>7, <2>8, <2>9, <3>1
  <2>11. ASSUME NEW k \in Key, l[key] # Absent
         PROVE  WordAt(frames, 1, a, k) = SM!LeftPadWord256(l[SM!compKey(a, k)])
    <3> DEFINE y == SM!compKey(a, k)
    <3>1. l[y] = IF writes[y] = Unset THEN ledger[y] ELSE writes[y]
      BY <1>5, <2>1
    <3>2. ~(i.loaded /\ i.removed)
      BY <2>3, <2>10, <2>11
    <3>3. SM!LeftPadWord256(Absent) = Zero /\ \A v \in Word : SM!LeftPadWord256(v) = v
      BY MarkerAssumption DEF SM!LeftPadWord256
    <3>4. writes[y] = IF ~i.loaded THEN Unset ELSE IF ~i.updated THEN Unset
                      ELSE IF i.storage[k] = Zero THEN Absent ELSE i.storage[k]
      BY <2>6, <3>2
    <3> HIDE DEF y
    <3>5. CASE ~i.loaded \/ i.storage[k] = Unset
      <4>1. writes[y] = Unset
        BY <3>4, <3>5, MarkerAssumption
      <4> QED BY <2>4, <3>1, <3>5, <4>1 DEF y
    <3>6. CASE i.loaded /\ i.storage[k] # Unset /\ ~i.updated
      <4>1. i.storage[k] = SM!LeftPadWord256(ledger[y])
        BY <2>7, <3>2, <3>6 DEF y
      <4> QED BY <2>4, <3>1, <3>4, <3>6, <4>1 DEF y
    <3>7. CASE i.loaded /\ i.storage[k] # Unset /\ i.updated
      <4>1. i.storage[k] \in Word \cup {Zero}
        BY <2>8, <3>7
      <4>2. WordAt(frames, 1, a, k) = i.storage[k]
        BY <2>4, <3>7
      <4>3. l[y] = IF i.storage[k] = Zero THEN Absent ELSE i.storage[k]
        BY <2>9, <3>1, <3>4, <3>7
      <4> QED BY <3>3, <4>1, <4>2, <4>3 DEF y
    <3> QED BY <3>5, <3>6, <3>7
  <2> QED BY <2>10, <2>11
<1>7. \A a, k : AcctLevel(<<>>, a) = 0 /\ WordLevel(<<>>, a, k) = 0
  BY NoLevels
<1>8. ASSUME NEW a
      PROVE  /\ AcctIn(<<>>, a)' = l[SM!acctKey(a)]
             /\ \A k \in Key : WordIn(<<>>, a, k)' = SM!LeftPadWord256(l[SM!compKey(a, k)])
  BY <1>1, <1>7 DEF AcctIn, WordIn, SM!LeftPadWord256
<1>9. View(<<>>)' = View(SubSeq(frames, 1, 1))
  <2>1. View(<<>>)' = [a \in Address |->
          IF l[SM!acctKey(a)] # Absent
          THEN [acct |-> l[SM!acctKey(a)], slots |-> [k \in Key |-> SM!LeftPadWord256(l[SM!compKey(a, k)])]]
          ELSE NoAccount]
    BY <1>8 DEF View, Exists, NoAccount
  <2>2. View(SubSeq(frames, 1, 1)) = [a \in Address |->
          IF AcctAt(frames, 1, a) # Absent
          THEN [acct |-> AcctAt(frames, 1, a), slots |-> [k \in Key |-> WordAt(frames, 1, a, k)]]
          ELSE NoAccount]
    BY DEF View, Exists, AcctAt, WordAt
  <2>3. ASSUME NEW a \in Address, l[SM!acctKey(a)] # Absent
        PROVE  [k \in Key |-> WordAt(frames, 1, a, k)] = [k \in Key |-> SM!LeftPadWord256(l[SM!compKey(a, k)])]
    BY <1>6, <2>3
  <2> QED BY <1>6, <2>1, <2>2, <2>3
<1>10. Stack(frames, phase)' = <<>>
  BY NoStack
<1> QED BY <1>2, <1>4, <1>9, <1>10, NestedStack DEF Nested!Commit, Nested!n, Nested!Top

----------------------------------------------------------------------------
(* Every step of Invoke is a step of the nested transaction, or none.      *)

Follows == Clean(frames)' /\ Ended' /\ [Nested!Next]_(Nested!vars)

LEMMA CleanStep ==
  ASSUME ledger' = ledger, NEW gs, gs = frames', Clean(gs)
  PROVE  Clean(frames)'
<1>1. ASSUME NEW p, NEW a
      PROVE AcctAt(frames, p, a)' = AcctAt(gs, p, a) /\ \A k \in Key : WordAt(frames, p, a, k)' = WordAt(gs, p, a, k)
  BY DEF AcctAt, AcctIn, WordAt, WordIn, SM!LeftPadWord256
<1> QED BY <1>1 DEF Clean

\* Steps in the EVM, which leave phase as it is or end the outermost call.
LEMMA WorkFollows ==
  ASSUME ledger' = ledger, phase = "evm", frames \in Seq(FrameType), frames # <<>>, ~Top.err,
         NEW gs \in Seq(FrameType), gs = frames', Touches(frames, gs, Top.callee), Clean(gs),
         \/ phase' = "evm"
         \/ /\ Len(frames) <= 1
            /\ (phase' = "flush" /\ ~gs[1].err) \/ (phase' = "done" /\ resp' # "ok")
  PROVE  Follows
<1>1. PICK q \in {"evm", "flush", "done"} : q = phase'
  OBVIOUS
<1>2. Nested!Work
  BY <1>1, NestedWork
<1>3. Clean(frames)'
  BY CleanStep
<1>4. Ended'
  BY DEF Ended, Touches
<1> QED BY <1>2, <1>3, <1>4 DEF Follows, Nested!Next

LEMMA CallFollows ==
  ASSUME ledger' = ledger, phase = "evm", phase' = "evm", frames \in Seq(FrameType), frames # <<>>, ~Top.err,
         NEW gs \in Seq(FrameType), gs = frames', NEW c \in Address, Pushes(frames, gs, c), Clean(gs),
         NEW g, g = gs[Len(frames) + 1],
         \/ ~g.create /\ ~g.err /\ Shown(gs, Len(frames) + 1, c) = Shown(frames, Len(frames), c)
         \/ /\ g.create /\ ~g.err /\ g.callee = c
            /\ Shown(frames, Len(frames), c) = NoAccount /\ Shown(gs, Len(frames) + 1, c) # NoAccount
         \/ g.create /\ g.err /\ Shown(gs, Len(frames) + 1, c) = Shown(frames, Len(frames), c)
  PROVE  Follows
<1>1. Nested!Call
  BY NestedCall
<1>2. Clean(frames)'
  BY CleanStep
<1>3. Ended'
  BY DEF Ended
<1> QED BY <1>1, <1>2, <1>3 DEF Follows, Nested!Next

LEMMA BeginFollows ==
  ASSUME ledger' = ledger, frames = <<>>,
         NEW gs \in Seq(FrameType), gs = frames', NEW c \in Address, Pushes(<<>>, gs, c), Clean(gs),
         NEW q \in {"evm", "flush"}, q = phase', ~gs[1].create, ~gs[1].err,
         \/ /\ q = "evm" /\ gs[1].callee = c
            /\ Shown(<<>>, 0, c) = NoAccount /\ Shown(gs, 1, c) # NoAccount
         \/ Shown(gs, 1, c) = Shown(<<>>, 0, c)
  PROVE  Follows
<1>1. Nested!Begin
  BY NestedBegin
<1>2. Clean(frames)'
  BY CleanStep
<1>3. Len(gs) <= 1
  BY EmptyLen DEF Pushes
<1>4. Ended'
  BY <1>3 DEF Ended
<1> QED BY <1>1, <1>2, <1>4 DEF Follows, Nested!Next

LEMMA StillFollows ==
  ASSUME Clean(frames), ledger' = ledger, frames' = frames, Ended', NEW q, q = phase',
         \A i \in DOMAIN frames : Mark(frames[i], q) = Mark(frames[i], phase)
  PROVE  Follows
<1>1. UNCHANGED Nested!vars
  BY NestedStill
<1>2. PICK gs : gs = frames' /\ gs = frames
  OBVIOUS
<1>3. Clean(gs)
  BY <1>2
<1>4. Clean(frames)'
  BY <1>2, <1>3, CleanStep
<1> QED BY <1>1, <1>4 DEF Follows

LEMMA SLOADFollows ==
  ASSUME EInv, Clean(frames), ledger' = ledger, NEW k \in Key, SLOAD(k)
  PROVE  Follows
<1>1. phase = "evm" /\ ~Top.err /\ phase' = phase /\ frames' = LoadWord(frames, Top.callee, k)
  BY DEF SLOAD, Step
<1>2. /\ LedgerInv /\ Good(frames, Len(logs)) /\ Top.callee \in Address
      /\ frames \in Seq(FrameType) /\ frames # <<>>
  BY <1>1, EvmFacts
<1>3. PICK gs : gs = frames' /\ gs = LoadWord(frames, Top.callee, k)
  BY <1>1
<1>4. Good(gs, Len(logs))
  BY <1>2, <1>3, LoadWordGood
<1>5. gs \in Seq(FrameType)
  BY <1>4 DEF Good
<1>6. Clean(gs) /\ Touches(frames, gs, Top.callee)
  BY <1>2, <1>3, LoadWordTidy
<1> QED BY <1>1, <1>2, <1>3, <1>5, <1>6, WorkFollows

LEMMA SSTOREFollows ==
  ASSUME EInv, Clean(frames), ledger' = ledger, NEW k \in Key, NEW v \in Word \cup {Zero}, SSTORE(k, v)
  PROVE  Follows
<1> DEFINE a == Top.callee
           L == Len(logs)
           fs == Load(frames, a)
<1>1. phase = "evm" /\ ~Top.err /\ phase' = phase /\ frames' = Store(fs, a, k, v)
  BY DEF SSTORE, Step
<1>2. /\ LedgerInv /\ Good(frames, L) /\ a \in Address
      /\ frames \in Seq(FrameType) /\ frames # <<>> /\ Len(frames) \in 1 .. Len(frames)
  BY <1>1, EvmFacts
<1> HIDE DEF a, L
<1>3. Good(fs, L) /\ Grows(frames, fs) /\ \A i \in 1 .. Len(frames) : fs[i].accounts[a].loaded
  BY <1>2, LoadGood
<1>4. Clean(fs) /\ Touches(frames, fs, a)
  BY <1>2, LoadTidy
<1> HIDE DEF fs
<1>5. Len(fs) = Len(frames) /\ fs \in Seq(FrameType) /\ fs # <<>> /\ fs[Len(fs)].accounts[a].loaded
  <2>1. Len(fs) = Len(frames) /\ fs \in Seq(FrameType)
    BY <1>3 DEF Grows, Good
  <2>2. Len(fs) # 0
    BY <1>2, <2>1
  <2> QED BY <1>2, <1>3, <2>1, <2>2, EmptyLen
<1>6. PICK gs : gs = frames' /\ gs = Store(fs, a, k, v)
  BY <1>1
<1>7. Good(gs, L)
  BY <1>2, <1>3, <1>5, <1>6, StoreGood
<1>8. gs \in Seq(FrameType)
  BY <1>7 DEF Good
<1>9. Clean(gs) /\ Touches(fs, gs, a)
  BY <1>2, <1>4, <1>5, <1>6, StoreTidy
<1>10. Touches(frames, gs, a)
  BY <1>2, <1>4, <1>5, <1>9, TouchesTwice
<1> QED BY <1>1, <1>2, <1>6, <1>8, <1>9, <1>10, WorkFollows DEF a

\* The innermost frame fails; nothing else happens to the frames.
LEMMA FailFollows ==
  ASSUME EInv, Clean(frames), ledger' = ledger, phase = "evm", ~Top.err, phase' = phase, frames' = Fail(frames)
  PROVE  Follows
<1>1. Good(frames, Len(logs)) /\ frames \in Seq(FrameType) /\ frames # <<>>
  BY EvmFacts
<1>2. PICK gs : gs = frames' /\ gs = Fail(frames)
  OBVIOUS
<1>3. Good(gs, Len(logs))
  BY <1>1, <1>2, FailGood
<1>4. gs \in Seq(FrameType)
  BY <1>3 DEF Good
<1>5. Clean(gs) /\ Touches(frames, gs, Top.callee)
  BY <1>1, <1>2, FailTidy
<1> QED BY <1>1, <1>2, <1>4, <1>5, WorkFollows

LEMMA LOGFollows ==
  ASSUME EInv, Clean(frames), ledger' = ledger, LOG
  PROVE  Follows
<1>1. phase = "evm" /\ ~Top.err /\ phase' = phase /\ (frames' = Fail(frames) \/ frames' = frames)
  BY DEF LOG, Step
<1>2. CASE frames' = frames
  <2>1. PICK q : q = phase' /\ q = phase
    BY <1>1
  <2>2. Ended'
    BY <1>1 DEF Ended
  <2> QED BY <1>2, <2>1, <2>2, StillFollows
<1> QED BY <1>1, <1>2, FailFollows

LEMMA RevertFollows ==
  ASSUME EInv, Clean(frames), ledger' = ledger, Revert
  PROVE  Follows
BY FailFollows DEF Revert

LEMMA UnwindFollows ==
  ASSUME EInv, Clean(frames), ledger' = ledger, Unwind
  PROVE  Follows
<1>1. phase = "evm" /\ Top.err
  BY DEF Unwind
<1>2. Good(frames, Len(logs)) /\ frames \in Seq(FrameType) /\ Len(frames) \in Nat
  BY <1>1, EvmFacts
<1>3. CASE Len(frames) > 1 /\ frames' = SubSeq(frames, 1, Len(frames) - 1) /\ phase' = phase
  <2> DEFINE m == Len(frames) - 1
  <2>1. m \in 0 .. Len(frames) /\ m \in Nat /\ \A i \in 1 .. m : i \in 0 .. m
    BY <1>2, <1>3
  <2>2. PICK gs : gs = frames' /\ gs = SubSeq(frames, 1, m)
    BY <1>3
  <2>3. gs \in Seq(FrameType) /\ Len(gs) = m /\ \A i \in 1 .. m : gs[i] = frames[i]
    BY <1>2, <2>1, <2>2, Prefix
  <2>4. Clean(gs) /\ \A p \in 0 .. m : \A a \in Address : Shown(gs, p, a) = Shown(frames, p, a)
    BY <1>2, <2>1, <2>2, PopTidy
  <2>5. \A i \in 1 .. m : \A a \in Address : Shown(gs, i, a) = Shown(frames, i, a)
    BY <2>1, <2>4
  <2>6. Nested!Failing
    BY <1>1, <1>2, <1>3, <2>2, <2>3, <2>5, NestedFailing
  <2>7. Clean(frames)'
    BY <2>2, <2>4, CleanStep
  <2>8. Ended'
    BY <1>1, <1>3 DEF Ended
  <2> QED BY <2>6, <2>7, <2>8 DEF Follows, Nested!Next
<1>4. CASE Len(frames) = 1 /\ phase' = "done" /\ resp' = "error" /\ frames' = frames
  <2>1. Ended'
    <3>1. Len(frames') <= 1
      <4>1. Len(frames') = Len(frames) /\ Len(frames) = 1
        BY <1>4, Zenon
      <4>2. 1 <= 1
        OBVIOUS
      <4> QED BY <4>1, <4>2
    <3>2. phase' \notin {"flush", "sync"} /\ ~(phase' = "done" /\ resp' = "ok")
      BY <1>4
    <3> QED BY <3>1, <3>2 DEF Ended
  <2>2. DOMAIN frames = 1 .. 1 /\ frames[1].err
    BY <1>1, <1>2, <1>4 DEF Top
  <2>3. PICK q : q = phase'
    OBVIOUS
  <2>4. \A i \in DOMAIN frames : Mark(frames[i], q) = Mark(frames[i], phase)
    <3>1. \A i \in 1 .. 1 : i = 1
      OBVIOUS
    <3> QED BY <2>2, <3>1 DEF Mark
  <2> QED BY <1>4, <2>1, <2>3, <2>4, StillFollows
<1> QED BY <1>3, <1>4 DEF Unwind, Respond

\* What holds for every account but one, whichever it is, holds for all.
LEMMA PushesSame ==
  ASSUME NEW fs, NEW gs, \A c : Pushes(fs, gs, c), NEW a \in Address
  PROVE  Shown(gs, Len(fs) + 1, a) = Shown(fs, Len(fs), a)
<1>1. PICK x : x # a
  <2>1. TRUE # a \/ FALSE # a
    OBVIOUS
  <2> QED BY <2>1
<1> QED BY <1>1 DEF Pushes

\* A call: the target is loaded, then the child's frame is pushed.
LEMMA LoadPush ==
  ASSUME NEW fs, NEW L, Good(fs, L), LedgerInv, Clean(fs), NEW t \in Address,
         NEW f \in FrameType, \A a \in Address : ~f.accounts[a].loaded
  PROVE  /\ Clean(Append(Load(fs, t), f)) /\ \A c : Pushes(fs, Append(Load(fs, t), f), c)
         /\ Append(Load(fs, t), f)[Len(fs) + 1] = f
<1> DEFINE hs == Load(fs, t)
<1>1. Clean(hs) /\ SameViews(fs, hs)
  BY LoadTidy
<1>2. hs \in Seq(FrameType) /\ Len(hs) = Len(fs) /\ Len(fs) \in Nat
  <2>1. Good(hs, L) /\ Grows(fs, hs)
    BY LoadGood
  <2> QED BY <2>1 DEF Good, Grows
<1>3. SameCalls(fs, hs, Len(fs))
  BY LoadParts DEF SameCalls, SameLabel
<1> HIDE DEF hs
<1>4. \A p \in 0 .. Len(fs) : \A a \in Address : Shown(hs, p, a) = Shown(fs, p, a)
  BY <1>1, ShownSame DEF SameViews
<1>5. Clean(Append(hs, f)) /\ \A c : Pushes(hs, Append(hs, f), c)
  BY <1>1, <1>2, PushTidy
<1>6. Len(fs) \in 0 .. Len(fs)
  BY <1>2
<1>7. \A c : Pushes(fs, Append(hs, f), c)
  <2> DEFINE gs == Append(hs, f)
  <2> HIDE DEF gs
  <2>1. \A c : Pushes(hs, gs, c)
    BY <1>5 DEF gs
  <2>2. SameCalls(fs, gs, Len(fs))
    BY <1>2, <1>3, <2>1 DEF Pushes, SameCalls, SameLabel
  <2>3. \A c : Pushes(fs, gs, c)
    BY <1>2, <1>4, <1>6, <2>1, <2>2 DEF Pushes
  <2> QED BY <2>3 DEF gs
<1>8. Append(hs, f)[Len(fs) + 1] = f
  BY <1>2
<1> QED BY <1>5, <1>7, <1>8 DEF hs

LEMMA CALLFollows ==
  ASSUME EInv, Clean(frames), ledger' = ledger,
         NEW op \in {"CALL", "DELEGATECALL", "STATICCALL"}, NEW t \in Address, CALL(op, t)
  PROVE  Follows
<1> DEFINE fs == Load(frames, t)
           acc == AcctIn(fs, t)
           callee == IF op = "DELEGATECALL" THEN Top.callee ELSE t
           ro == Top.readonly \/ op = "STATICCALL"
           f == Frame(callee, FALSE, ro)
           L == Len(logs)
<1>1. phase = "evm" /\ ~Top.err /\ phase' = phase
  BY DEF CALL, Step
<1>2. frames' = IF ~Permitted THEN Fail(frames)
                ELSE IF acc = Absent THEN Fail(fs)
                ELSE IF acc.code = NoCode THEN fs
                ELSE Append(fs, f)
  BY DEF CALL
<1>3. /\ Good(frames, L) /\ LedgerInv /\ frames # <<>> /\ frames \in Seq(FrameType)
      /\ Len(frames) \in 1 .. Len(frames) /\ Len(frames) \in Nat
      /\ Top = frames[Len(frames)] /\ Top.callee \in Address /\ L \in Nat
  BY <1>1, EvmFacts
<1>4. Good(fs, L) /\ Grows(frames, fs)
  BY <1>3, LoadGood
<1>5. PICK c \in Address : c = Top.callee
  BY <1>3
<1>6. Clean(fs) /\ Touches(frames, fs, c)
  BY <1>3, LoadTidy
<1>7. f \in FrameType /\ ~f.create /\ ~f.err /\ \A a \in Address : ~f.accounts[a].loaded
  <2>1. callee \in Address
    BY <1>3
  <2>2. ro \in BOOLEAN
    <3>1. frames[Len(frames)] \in FrameType
      BY <1>3, FrameParts
    <3>2. Top.readonly \in BOOLEAN
      BY <1>3, <3>1 DEF FrameType
    <3> QED BY <3>2
  <2> HIDE DEF callee, ro, L
  <2> QED BY <1>3, <2>1, <2>2, FrameIs DEF L
<1> HIDE DEF f
<1>8. /\ Clean(Append(fs, f)) /\ Append(fs, f)[Len(frames) + 1] = f
      /\ \A x : Pushes(frames, Append(fs, f), x)
  BY <1>3, <1>7, LoadPush
<1>9. fs \in Seq(FrameType) /\ Append(fs, f) \in Seq(FrameType)
  BY <1>4, <1>7 DEF Good
<1>10. fs # <<>>
  <2>1. Len(fs) = Len(frames) /\ Len(frames) # 0
    BY <1>3, <1>4 DEF Grows
  <2> HIDE DEF fs
  <2> QED BY <2>1, EmptyLen
<1> HIDE DEF fs
<1>11. CASE frames' = Fail(frames)
  BY <1>1, <1>11, FailFollows
<1>12. CASE frames' = Fail(fs)
  <2>1. PICK gs : gs = frames' /\ gs = Fail(fs)
    BY <1>12
  <2>2. Good(gs, L)
    BY <1>4, <1>10, <2>1, FailGood
  <2>3. gs \in Seq(FrameType)
    BY <2>2 DEF Good
  <2>4. Clean(gs) /\ Touches(fs, gs, c)
    BY <1>6, <1>9, <1>10, <2>1, FailTidy
  <2>5. Touches(frames, gs, c)
    BY <1>3, <1>6, <1>9, <2>4, TouchesTwice
  <2> QED BY <1>1, <1>3, <1>5, <2>1, <2>3, <2>4, <2>5, WorkFollows
<1>13. CASE frames' = fs
  <2>1. PICK gs : gs = frames' /\ gs = fs
    BY <1>13
  <2> QED BY <1>1, <1>3, <1>5, <1>6, <1>9, <2>1, WorkFollows
<1>14. CASE frames' = Append(fs, f)
  <2>1. PICK gs : gs = frames' /\ gs = Append(fs, f)
    BY <1>14
  <2>2. Shown(gs, Len(frames) + 1, c) = Shown(frames, Len(frames), c)
    BY <1>8, <2>1, PushesSame
  <2>3. gs \in Seq(FrameType) /\ Clean(gs) /\ Pushes(frames, gs, c) /\ f = gs[Len(frames) + 1]
    BY <1>8, <1>9, <2>1
  <2> QED BY <1>1, <1>3, <1>7, <2>1, <2>2, <2>3, CallFollows
<1> QED BY <1>2, <1>11, <1>12, <1>13, <1>14

\* A new account in the innermost frame, which fails if there is one.
LEMMA NewTidy ==
  ASSUME NEW ps, NEW L, Good(ps, L), LedgerInv, Clean(ps), ps # <<>>, ~ps[Len(ps)].err, NEW a \in Address
  PROVE  LET gs == CreateAccount(Load(ps, a), a)
             n == Len(ps)
         IN  /\ Good(gs, L) /\ Clean(gs) /\ Touches(ps, gs, a) /\ Grows(ps, gs)
             /\ gs \in Seq(FrameType) /\ gs # <<>> /\ Len(gs) = n
             /\ gs[n].accounts[a].loaded
             /\ \/ gs[n].err /\ Shown(gs, n, a) = Shown(ps, n, a)
                \/ ~gs[n].err /\ Shown(ps, n, a) = NoAccount /\ Shown(gs, n, a) # NoAccount
<1> DEFINE fs == Load(ps, a)
           gs == CreateAccount(fs, a)
           n == Len(ps)
<1>1. n \in 1 .. n /\ n \in 0 .. n /\ ps \in Seq(FrameType)
  <2>1. ps \in Seq(FrameType)
    BY DEF Good
  <2> QED BY <2>1
<1>2. Good(fs, L) /\ Grows(ps, fs) /\ \A i \in 1 .. n : fs[i].accounts[a].loaded
  BY LoadGood
<1>3. Clean(fs) /\ Touches(ps, fs, a) /\ SameViews(ps, fs)
  BY LoadTidy
<1>4. ~fs[n].err
  BY <1>1, LoadParts
<1> HIDE DEF fs
<1>5. Len(fs) = n /\ fs \in Seq(FrameType) /\ Shown(fs, n, a) = Shown(ps, n, a)
  BY <1>1, <1>2, <1>3, ShownSame DEF Grows, Good, SameViews
<1>6. n # 0
  BY <1>1
<1> HIDE DEF n
<1>7. fs # <<>> /\ fs[n].accounts[a].loaded
  BY <1>1, <1>2, <1>5, <1>6, EmptyLen
<1>8. Good(gs, L) /\ Grows(fs, gs)
  BY <1>2, <1>5, <1>7, CreateGood
<1>9. Clean(gs) /\ Touches(fs, gs, a)
  BY <1>3, <1>5, <1>7, CreateTidy
<1>10. Touches(ps, gs, a) /\ Grows(ps, gs)
  BY <1>1, <1>2, <1>3, <1>5, <1>8, <1>9, TouchesTwice, GrowsTwice
<1>11. \/ gs[n].err /\ Shown(gs, n, a) = Shown(ps, n, a)
       \/ ~gs[n].err /\ Shown(ps, n, a) = NoAccount /\ Shown(gs, n, a) # NoAccount
  <2>1. ~fs[Len(fs)].err /\ fs[Len(fs)].accounts[a].loaded
    BY <1>4, <1>5, <1>7
  <2>2. \/ gs[Len(fs)].err /\ Shown(gs, Len(fs), a) = Shown(fs, Len(fs), a)
        \/ ~gs[Len(fs)].err /\ Shown(fs, Len(fs), a) = NoAccount /\ Shown(gs, Len(fs), a) # NoAccount
    BY <1>3, <1>5, <1>7, <2>1, CreateShows
  <2> HIDE DEF gs
  <2> QED BY <1>5, <2>2
<1> HIDE DEF gs
<1>12. Len(gs) = n /\ gs \in Seq(FrameType) /\ gs[n].accounts[a].loaded
  BY <1>1, <1>5, <1>7, <1>8 DEF Grows, Good
<1>13. gs # <<>>
  BY <1>6, <1>12, EmptyLen
<1> QED BY <1>8, <1>9, <1>10, <1>11, <1>12, <1>13 DEF gs, fs, n

LEMMA CreatingFollows ==
  ASSUME EInv, Clean(frames), ledger' = ledger, NEW a \in Address, Creating(a)
  PROVE  Follows
<1> DEFINE f == Frame(a, TRUE, Top.readonly)
           ps == Append(frames, f)
           hs == CreateAccount(Load(ps, a), a)
           L == Len(logs)
           n == Len(frames)
           m == n + 1
<1>1. phase = "evm" /\ ~Top.err /\ phase' = phase /\ frames' = IF Permitted THEN hs ELSE Fail(frames)
  BY DEF Creating, Step
<1>2. /\ Good(frames, L) /\ LedgerInv /\ frames # <<>> /\ frames \in Seq(FrameType)
      /\ n \in 1 .. n /\ n \in Nat
      /\ Top = frames[n] /\ L \in Nat
  BY <1>1, EvmFacts
<1>3. Top.readonly \in BOOLEAN
  <2>1. frames[n] \in FrameType
    BY <1>2, FrameParts
  <2> QED BY <1>2, <2>1 DEF FrameType
<1>4. /\ f \in FrameType /\ f.mark = L /\ f.readonly = Top.readonly /\ f.create /\ ~f.err /\ f.callee = a
      /\ \A b \in Address : ~f.accounts[b].loaded
  BY <1>2, <1>3, FrameIs
<1> HIDE DEF f
<1>5. Good(ps, L)
  BY <1>2, <1>4, PushGood
<1>6. Clean(ps) /\ \A x : Pushes(frames, ps, x)
  BY <1>2, <1>4, PushTidy
<1>7. ps # <<>> /\ Len(ps) = m /\ ps[m] = f /\ m \in 1 .. m
  BY <1>2, <1>4
<1> HIDE DEF ps
<1>8. /\ Clean(hs) /\ Touches(ps, hs, a) /\ hs \in Seq(FrameType)
      /\ \/ hs[m].err /\ Shown(hs, m, a) = Shown(ps, m, a)
         \/ ~hs[m].err /\ Shown(ps, m, a) = NoAccount /\ Shown(hs, m, a) # NoAccount
  <2>1. ~ps[Len(ps)].err
    BY <1>4, <1>7
  <2>2. /\ Clean(hs) /\ Touches(ps, hs, a) /\ hs \in Seq(FrameType)
        /\ \/ hs[Len(ps)].err /\ Shown(hs, Len(ps), a) = Shown(ps, Len(ps), a)
           \/ ~hs[Len(ps)].err /\ Shown(ps, Len(ps), a) = NoAccount /\ Shown(hs, Len(ps), a) # NoAccount
    BY <1>2, <1>5, <1>6, <1>7, <2>1, NewTidy
  <2> HIDE DEF hs
  <2> QED BY <1>7, <2>2
<1> HIDE DEF hs
<1>9. Pushes(frames, hs, a) /\ hs[m].create /\ hs[m].callee = a
  <2>1. Pushes(frames, hs, a) /\ SameLabel(ps[m], hs[m])
    BY <1>2, <1>6, <1>8, PushTouches
  <2> QED BY <1>4, <1>7, <2>1 DEF SameLabel
<1>10. Shown(ps, m, a) = Shown(frames, n, a)
  BY <1>6, PushesSame
<1>11. CASE Permitted
  <2>1. hs = frames' /\ phase' = "evm"
    BY <1>1, <1>11
  <2>2. PICK g : g = hs[Len(frames) + 1]
    OBVIOUS
  <2>3. \/ ~g.create /\ ~g.err /\ Shown(hs, Len(frames) + 1, a) = Shown(frames, Len(frames), a)
        \/ /\ g.create /\ ~g.err /\ g.callee = a
           /\ Shown(frames, Len(frames), a) = NoAccount /\ Shown(hs, Len(frames) + 1, a) # NoAccount
        \/ g.create /\ g.err /\ Shown(hs, Len(frames) + 1, a) = Shown(frames, Len(frames), a)
    BY <1>8, <1>9, <1>10, <2>2
  <2> HIDE DEF n
  <2> QED BY <1>1, <1>2, <1>8, <1>9, <2>1, <2>2, <2>3, CallFollows
<1>12. CASE ~Permitted
  <2>1. frames' = Fail(frames)
    BY <1>1, <1>12
  <2> QED BY <1>1, <2>1, FailFollows
<1> QED BY <1>11, <1>12

LEMMA CREATEFollows ==
  ASSUME EInv, Clean(frames), ledger' = ledger, NEW a \in NewAddr, CREATE(a)
  PROVE  Follows
<1>1. a \in Address
  BY EvmConstants
<1> QED BY <1>1, CreatingFollows DEF CREATE

LEMMA CREATE2Follows ==
  ASSUME EInv, Clean(frames), ledger' = ledger, CREATE2
  PROVE  Follows
<1>1. Create2Addr[Top.callee] \in Address
  BY EvmConstants DEF CREATE2
<1> QED BY <1>1, CreatingFollows DEF CREATE2

\* The innermost call returns from frames that its last instruction may have
\* changed, in the account of its own, by removing it.
LEMMA ReturningFollows ==
  ASSUME EInv, Clean(frames), ledger' = ledger, phase = "evm", ~Top.err,
         NEW fs, Good(fs, Len(logs)), Grows(frames, fs), Clean(fs), ~fs[Len(fs)].err,
         Touches(frames, fs, Top.callee),
         Shown(fs, Len(fs), Top.callee) \in {Shown(frames, Len(frames), Top.callee), NoAccount},
         NEW out \in Code \cup {NoCode, Absent}, Returning(fs, out)
  PROVE  Follows
<1> DEFINE L == Len(logs)
           n == Len(fs)
           c == Top.callee
           word == IF out = Absent THEN NoCode ELSE out
           coded == IF fs[n].create THEN InitCode(fs, fs[n].callee, word) ELSE fs
           deployed == IF out = Absent THEN Fail(fs) ELSE InitCode(fs, fs[1].callee, out)
<1>0. /\ CreateFrames(frames) /\ frames # <<>> /\ frames \in Seq(FrameType)
      /\ Len(frames) \in Nat /\ Len(frames) \in 1 .. Len(frames) /\ 1 \in 1 .. Len(frames)
      /\ Top = frames[Len(frames)] /\ c \in Address /\ frames[1].callee \in Address
      /\ kind = "deploy" => /\ frames[1].accounts[frames[1].callee].loaded
                            /\ ledger[SM!acctKey(frames[1].callee)] = Absent
  BY EvmFacts
<1>1. n = Len(frames) /\ fs \in Seq(FrameType) /\ CreateFrames(fs) /\ fs[n].callee = c
  BY <1>0, GrowsCreates DEF Grows, Good
<1>2. fs # <<>> /\ n \in Nat /\ n \in 1 .. n /\ 1 \in 1 .. n
  <2>1. Len(frames) # 0
    BY <1>0
  <2> HIDE DEF n
  <2>2. fs # <<>>
    <3>1. Len(fs) = n
      BY DEF n
    <3> QED BY <1>1, <2>1, <3>1, EmptyLen
  <2> QED BY <1>0, <1>1, <2>2
<1>3. \/ /\ n > 1 /\ frames' = Synced(coded) /\ UNCHANGED <<phase, rtCode, resp>>
      \/ /\ n = 1 /\ kind = "deploy" /\ frames' = deployed
         /\ IF deployed[1].err THEN phase' = "done" /\ resp' = "error" ELSE phase' = "flush"
      \/ /\ n = 1 /\ kind = "invoke" /\ frames' = fs /\ phase' = "flush"
  BY DEF Returning, Respond
<1>4. word \in Code \cup {NoCode}
  OBVIOUS
<1>5. /\ Touches(frames, fs, c) /\ ~fs[n].err /\ fs[n].create = Top.create
      /\ Shown(fs, n, c) \in {Shown(frames, n, c), NoAccount}
  BY <1>0, <1>1 DEF Grows
<1> HIDE DEF word, c, n, deployed
<1>6. Good(coded, L) /\ Grows(fs, coded) /\ Clean(coded) /\ Touches(frames, coded, c)
  <2>1. CASE fs[n].create
    <3>1. fs[n].accounts[c].loaded /\ (ledger[SM!acctKey(c)] = Absent \/ RemovedBelow(fs, n, c))
      BY <1>1, <1>2, <2>1 DEF CreateFrames, n
    <3>2. Good(InitCode(fs, c, word), L) /\ Grows(fs, InitCode(fs, c, word))
      BY <1>0, <1>2, <1>4, <3>1, InitCodeGood DEF n
    <3>3. Clean(InitCode(fs, c, word)) /\ Touches(fs, InitCode(fs, c, word), c)
      BY <1>0, <1>1, <1>2, <1>4, <3>1, InitCodeTidy DEF n
    <3>4. coded = InitCode(fs, c, word)
      BY <1>1, <2>1
    <3> QED BY <1>0, <1>1, <1>5, <3>2, <3>3, <3>4, TouchesTwice
  <2>2. CASE ~fs[n].create
    <3>1. coded = fs /\ Grows(fs, fs)
      BY <2>2, GrowsSelf
    <3> QED BY <1>5, <3>1
  <2> QED BY <2>1, <2>2
<1>7. /\ ~fs[n].create => coded = fs
      /\ fs[n].create /\ ~coded[n].err =>
           /\ Shown(frames, n, c) # NoAccount
           /\ \E x \in Code \cup {NoCode} : Shown(coded, n, c) = [Shown(frames, n, c) EXCEPT !.acct.code = x]
  <2>1. ASSUME fs[n].create, ~coded[n].err
        PROVE  /\ Shown(frames, n, c) # NoAccount
               /\ Shown(coded, n, c) = [Shown(frames, n, c) EXCEPT !.acct.code = word]
    <3>1. coded = InitCode(fs, c, word)
      BY <1>1, <2>1
    <3>2. fs[n].accounts[c].loaded
      BY <1>1, <1>2, <1>5, <2>1 DEF CreateFrames, n
    <3>3. ~InitCode(fs, c, word)[Len(fs)].err
      BY <2>1, <3>1 DEF n
    <3>4. /\ Shown(fs, n, c) # NoAccount
          /\ Shown(InitCode(fs, c, word), n, c) = [Shown(fs, n, c) EXCEPT !.acct.code = word]
      BY <1>0, <1>1, <1>2, <1>4, <3>2, <3>3, InitCodeShows DEF n
    <3>5. Shown(fs, n, c) = Shown(frames, n, c)
      BY <1>5, <3>4
    <3> HIDE DEF coded
    <3> QED BY <3>1, <3>4, <3>5
  <2> QED BY <1>4, <2>1
<1> HIDE DEF coded
<1>8. CASE n > 1 /\ frames' = Synced(coded) /\ UNCHANGED <<phase, rtCode, resp>>
  <2>1. Len(coded) = n /\ n - 1 \in 0 .. n /\ n - 1 < n /\ Len(frames) > 1
    BY <1>1, <1>2, <1>6, <1>8 DEF Grows, n
  <2>2. PICK gs : gs = frames' /\ gs = Synced(coded)
    BY <1>8
  <2>3. /\ Clean(gs)
        /\ \/ ~coded[n].err /\ \A x : HandsDown(coded, gs, x)
           \/ /\ Drops(coded, gs) /\ gs[n - 1].err
              /\ coded[n].err \/ \E a \in Address : Shown(coded, n - 1, a) = NoAccount
    <3>1. /\ Clean(Synced(coded))
          /\ \/ ~coded[Len(coded)].err /\ \A x : HandsDown(coded, Synced(coded), x)
             \/ /\ Drops(coded, Synced(coded)) /\ Synced(coded)[Len(coded) - 1].err
                /\ coded[Len(coded)].err \/ \E a \in Address : Shown(coded, Len(coded) - 1, a) = NoAccount
      BY <1>6, <1>8, <2>1, SyncedTidy
    <3> QED BY <2>1, <2>2, <3>1
  <2>4. Good(gs, L)
    BY <1>6, <1>8, <2>1, <2>2, SyncedGood
  <2>5. gs \in Seq(FrameType)
    BY <2>4 DEF Good
  <2>6. ASSUME ~coded[n].err /\ \A x : HandsDown(coded, gs, x) PROVE Nested!Next
    <3>1. HandsDown(frames, gs, c)
      BY <1>0, <1>6, <2>1, <2>6, TouchReturn
    <3>2. Shown(gs, n - 1, c) = Shown(coded, n, c)
      <4>1. PICK x : x # c
        <5>1. TRUE # c \/ FALSE # c
          OBVIOUS
        <5> QED BY <5>1
      <4>2. HandsDown(coded, gs, x)
        BY <2>6
      <4> QED BY <1>0, <2>1, <4>1, <4>2 DEF HandsDown
    <3>6. Leaving(Top.create, Shown(frames, n, c), Shown(coded, n, c))
      <4>1. CASE Top.create
        BY <1>5, <1>7, <2>6, <4>1 DEF Leaving
      <4>2. CASE ~Top.create
        BY <1>5, <1>7, <4>2 DEF Leaving
      <4> QED BY <4>1, <4>2
    <3>7. c = Top.callee /\ phase' = "evm" /\ Leaving(Top.create, Shown(frames, Len(frames), c), Shown(gs, Len(frames) - 1, c))
      BY <1>1, <1>8, <3>2, <3>6 DEF c
    <3>8. Nested!Succeed
      BY <1>0, <2>1, <2>2, <2>5, <3>1, <3>7, NestedSucceed
    <3> QED BY <3>8 DEF Nested!Next
  <2>7. ASSUME /\ Drops(coded, gs) /\ gs[n - 1].err
               /\ coded[n].err \/ \E a \in Address : Shown(coded, n - 1, a) = NoAccount
        PROVE  Nested!Next
    <3>1. Drops(frames, gs)
      BY <1>0, <1>6, <2>1, <2>7, TouchReturn
    <3>2. coded[n].err => Top.create
      BY <1>5, <1>7
    <3>3. \A a \in Address : Shown(coded, n - 1, a) = Shown(frames, n - 1, a)
      BY <1>1, <1>6, <2>1 DEF Touches
    <3>4. Top.create \/ \E a \in Address : Shown(frames, Len(frames) - 1, a) = NoAccount
      BY <1>1, <2>7, <3>2, <3>3
    <3>5. gs[Len(frames) - 1].err /\ phase' = "evm"
      BY <1>1, <1>8, <2>7
    <3>6. Nested!FailCaller
      BY <1>0, <2>1, <2>2, <2>5, <3>1, <3>4, <3>5, NestedFailCaller
    <3> QED BY <3>6 DEF Nested!Next
  <2>8. Clean(frames)'
    BY <2>2, <2>3, CleanStep
  <2>9. Ended'
    BY <1>8 DEF Ended
  <2>10. Nested!Next
    BY <2>3, <2>6, <2>7
  <2> QED BY <2>8, <2>9, <2>10 DEF Follows
<1>9. CASE /\ n = 1 /\ kind = "deploy" /\ frames' = deployed
           /\ IF deployed[1].err THEN phase' = "done" /\ resp' = "error" ELSE phase' = "flush"
  <2>1. fs[1].callee = c /\ fs[1].accounts[c].loaded /\ Len(fs) = 1 /\ frames[1].callee = c
    <3>1. fs[1].callee = frames[1].callee /\ fs[1].accounts[frames[1].callee].loaded
      BY <1>0, <1>9 DEF Grows
    <3> QED BY <1>1, <1>9, <3>1 DEF n
  <2>2. PICK gs : gs = frames' /\ gs = deployed
    BY <1>9
  <2>3. Good(gs, L) /\ Clean(gs) /\ Touches(fs, gs, c)
    <3>1. CASE out = Absent
      <4>1. gs = Fail(fs)
        BY <2>2, <3>1 DEF deployed
      <4> QED BY <1>1, <1>2, <4>1, FailGood, FailTidy
    <3>2. CASE out # Absent
      <4>1. gs = InitCode(fs, c, out) /\ out \in Code \cup {NoCode}
        BY <2>1, <2>2, <3>2 DEF deployed
      <4>2. ledger[SM!acctKey(c)] = Absent
        BY <1>0, <1>9, <2>1
      <4> QED BY <1>0, <1>1, <1>2, <2>1, <4>1, <4>2, InitCodeGood, InitCodeTidy
    <3> QED BY <3>1, <3>2
  <2>4. gs \in Seq(FrameType) /\ Len(frames) <= 1
    BY <1>1, <1>9, <2>3 DEF Good
  <2>5. Touches(frames, gs, c)
    BY <1>0, <1>1, <1>5, <2>3, TouchesTwice
  <2>6. (phase' = "done" /\ resp' # "ok") \/ (phase' = "flush" /\ ~gs[1].err)
    BY <1>9, <2>2
  <2> QED BY <1>0, <2>2, <2>3, <2>4, <2>5, <2>6, WorkFollows DEF c
<1>10. CASE n = 1 /\ kind = "invoke" /\ frames' = fs /\ phase' = "flush"
  <2>1. PICK gs : gs = frames' /\ gs = fs
    BY <1>10
  <2>2. Len(frames) <= 1
    BY <1>1, <1>10
  <2>3. phase' = "flush" /\ ~gs[1].err
    BY <1>5, <1>10, <2>1
  <2> QED BY <1>0, <1>1, <1>5, <2>1, <2>2, <2>3, WorkFollows DEF c
<1> QED BY <1>3, <1>8, <1>9, <1>10

LEMMA RETURNFollows ==
  ASSUME EInv, Clean(frames), ledger' = ledger, phase = "evm", ~Top.err,
         NEW c \in Code \cup {NoCode, Absent}, Returning(frames, c)
  PROVE  Follows
<1>1. Good(frames, Len(logs)) /\ Top = frames[Len(frames)]
  BY EvmFacts
<1>2. Grows(frames, frames) /\ Touches(frames, frames, Top.callee)
  BY GrowsSelf DEF Touches, SameCalls, SameLabel
<1>3. Shown(frames, Len(frames), Top.callee) \in {Shown(frames, Len(frames), Top.callee), NoAccount}
  OBVIOUS
<1>4. ~frames[Len(frames)].err
  BY <1>1
<1> QED BY <1>1, <1>2, <1>3, <1>4, ReturningFollows

LEMMA SELFDESTRUCTFollows ==
  ASSUME EInv, Clean(frames), ledger' = ledger, NEW r \in Address, SELFDESTRUCT(r)
  PROVE  Follows
<1> DEFINE c == Top.callee
           es == Load(frames, r)
           fs == Load(es, c)
           paid == Update(fs, r, AcctIn(fs, r))
           gone == IF Exists(paid, c) THEN RemoveAccount(paid, c) ELSE Fail(paid)
           L == Len(logs)
           n == Len(frames)
<1>1. /\ phase = "evm" /\ ~Top.err
      /\ IF Exists(fs, r) /\ ~gone[Len(gone)].err THEN Returning(gone, Absent)
         ELSE frames' = Fail(fs) /\ UNCHANGED <<phase, rtCode, resp>>
  BY DEF SELFDESTRUCT, Step
<1>2. /\ Good(frames, L) /\ LedgerInv /\ c \in Address /\ frames # <<>> /\ frames \in Seq(FrameType)
      /\ n \in Nat /\ n \in 1 .. n
  BY <1>1, EvmFacts
<1>3. PICK d : d = c
  OBVIOUS
<1> HIDE DEF c
<1>4. Good(es, L) /\ Grows(frames, es) /\ es[n].accounts[r].loaded
  BY <1>2, LoadGood
<1>5. Clean(es) /\ Touches(frames, es, c)
  BY <1>2, LoadTidy
<1> HIDE DEF es
<1>6. Good(fs, L) /\ Grows(es, fs) /\ \A i \in 1 .. Len(es) : fs[i].accounts[c].loaded
  BY <1>2, <1>4, LoadGood
<1>7. Clean(fs) /\ Touches(es, fs, c)
  BY <1>2, <1>4, <1>5, LoadTidy
<1> HIDE DEF fs
<1>8. Grows(frames, fs) /\ fs \in Seq(FrameType) /\ Touches(frames, fs, c)
  <2>1. es \in Seq(FrameType) /\ fs \in Seq(FrameType)
    BY <1>4, <1>6 DEF Good
  <2>2. Grows(frames, fs)
    BY <1>4, <1>6, GrowsTwice
  <2>3. Touches(frames, fs, c)
    BY <1>2, <1>5, <1>7, <2>1, TouchesTwice
  <2> QED BY <2>1, <2>2, <2>3
<1>9. Len(fs) = n /\ Len(es) = n
  BY <1>4, <1>6 DEF Grows
<1>10. fs[n].accounts[r].loaded /\ fs[n].accounts[c].loaded
  BY <1>2, <1>4, <1>6, <1>9 DEF Grows
<1>11. fs # <<>>
  <2>1. n # 0
    BY <1>2
  <2> QED BY <1>9, <2>1, EmptyLen
<1>12. CASE Exists(fs, r) /\ ~gone[Len(gone)].err
  <2> DEFINE acc == AcctIn(fs, r)
  <2>1. acc = IF fs[n].accounts[r].removed THEN Absent ELSE fs[n].accounts[r].account
    BY <1>8, <1>9, <1>10, <1>11, TopHas
  <2>2. acc # Absent
    BY <1>12 DEF Exists
  <2>3. ~fs[n].accounts[r].removed /\ acc = fs[n].accounts[r].account
    BY <2>1, <2>2
  <2>4. fs[n].accounts[r] \in Infos
    BY <1>2, <1>8, <1>9, <1>10, FrameParts
  <2>5. acc \in Acct
    BY <2>2, <2>3, <2>4 DEF Infos
  <2>6. ledger[SM!acctKey(r)] # Absent => acc = ledger[SM!acctKey(r)] \/ RemovedBelow(fs, n, r)
    BY <1>2, <1>6, <1>9, <1>10, <2>3 DEF Good, RecordFrames
  <2>7. acc = AcctIn(fs, r)
    OBVIOUS
  <2> HIDE DEF acc, n
  <2>8. Good(Update(fs, r, acc), L) /\ Grows(fs, Update(fs, r, acc))
    BY <1>6, <1>9, <1>10, <1>11, <2>5, <2>6, UpdateGood
  <2>9. Clean(Update(fs, r, acc)) /\ Touches(fs, Update(fs, r, acc), c)
    BY <1>7, <1>8, <1>9, <1>10, <1>11, <2>5, <2>7, UpdateTidy
  <2>10. Good(paid, L) /\ Grows(fs, paid) /\ Clean(paid) /\ Touches(fs, paid, c)
    BY <2>8, <2>9 DEF acc
  <2> HIDE DEF paid
  <2>11. Len(paid) = n /\ paid[n].accounts[c].loaded /\ n \in 1 .. n
    BY <1>2, <1>9, <1>10, <2>10 DEF Grows, n
  <2>12. paid # <<>> /\ paid \in Seq(FrameType)
    <3>1. n # 0
      BY <1>2 DEF n
    <3> QED BY <2>10, <2>11, <3>1, EmptyLen DEF Good
  <2>13. /\ Good(RemoveAccount(paid, c), L) /\ Grows(paid, RemoveAccount(paid, c))
         /\ Clean(RemoveAccount(paid, c)) /\ Touches(paid, RemoveAccount(paid, c), c)
    BY <1>2, <2>10, <2>11, <2>12, RemoveGood, RemoveTidy
  <2>14. Good(Fail(paid), L) /\ Grows(paid, Fail(paid)) /\ Clean(Fail(paid)) /\ Touches(paid, Fail(paid), c)
    BY <2>10, <2>12, FailGood, FailTidy
  <2>15. Good(gone, L) /\ Grows(paid, gone) /\ Clean(gone) /\ Touches(paid, gone, c)
    BY <2>13, <2>14
  <2>16. ~gone[Len(gone)].err /\ Returning(gone, Absent)
    BY <1>1, <1>12 DEF paid
  <2>17. Len(gone) = n
    BY <2>11, <2>15 DEF Grows
  <2>18. Shown(gone, Len(gone), c) = NoAccount
    <3>1. Exists(paid, c)
      BY <2>11, <2>12, <2>16, <2>17, FailErr
    <3>2. gone = RemoveAccount(paid, c)
      BY <3>1
    <3> HIDE DEF gone
    <3>3. ~RemoveAccount(paid, c)[Len(paid)].err
      BY <2>11, <2>16, <2>17, <3>2
    <3>4. Shown(RemoveAccount(paid, c), Len(paid), c) = NoAccount
      BY <1>2, <2>11, <2>12, <3>3, RemoveShows
    <3> QED BY <2>11, <2>17, <3>2, <3>4
  <2> HIDE DEF gone
  <2>19. Grows(frames, gone)
    BY <1>8, <2>10, <2>15, GrowsTwice
  <2>20. Touches(frames, gone, c)
    <3>1. Touches(frames, paid, c)
      BY <1>2, <1>8, <2>10, TouchesTwice
    <3> QED BY <1>2, <2>12, <2>15, <3>1, TouchesTwice
  <2>21. Absent \in Code \cup {NoCode, Absent}
    OBVIOUS
  <2>22. Shown(gone, Len(gone), Top.callee) \in {Shown(frames, Len(frames), Top.callee), NoAccount}
    BY <2>18 DEF c
  <2> QED BY <1>1, <2>15, <2>16, <2>19, <2>20, <2>21, <2>22, ReturningFollows DEF c
<1>13. CASE ~(Exists(fs, r) /\ ~gone[Len(gone)].err)
  <2>1. PICK gs : gs = frames' /\ gs = Fail(fs)
    BY <1>1, <1>13
  <2>2. phase' = phase
    BY <1>1, <1>13
  <2>3. Good(gs, L)
    BY <1>6, <1>11, <2>1, FailGood
  <2>4. Clean(gs) /\ Touches(fs, gs, c)
    BY <1>7, <1>8, <1>11, <2>1, FailTidy
  <2>5. gs \in Seq(FrameType)
    BY <2>3 DEF Good
  <2>6. Touches(frames, gs, c)
    BY <1>2, <1>8, <2>4, TouchesTwice
  <2> QED BY <1>1, <1>2, <2>1, <2>2, <2>4, <2>5, <2>6, WorkFollows DEF c
<1> QED BY <1>12, <1>13

\* The outermost call.
LEMMA FirstTidy ==
  ASSUME EInv, phase = "start", NEW a \in Address
  PROVE  LET ps == <<Frame(a, FALSE, FALSE)>>
         IN  /\ Good(ps, Len(logs)) /\ Clean(ps) /\ ps # <<>> /\ Len(ps) = 1 /\ \A c : Pushes(<<>>, ps, c)
             /\ ps[1].callee = a /\ ~ps[1].create /\ ~ps[1].err /\ ~ps[1].readonly
<1> DEFINE f == Frame(a, FALSE, FALSE)
<1>1. /\ f \in FrameType /\ \A b \in Address : ~f.accounts[b].loaded
      /\ f.callee = a /\ ~f.create /\ ~f.err /\ ~f.readonly
  BY FrameIs, StartFacts
<1>2. Good(<<f>>, Len(logs)) /\ <<f>> # <<>>
  BY FirstFrame
<1> HIDE DEF f
<1>3. Append(<<>>, f) = <<f>> /\ <<>> \in Seq(FrameType) /\ Len(<<f>>) = 1 /\ <<f>>[1] = f
  BY <1>1
<1>4. Clean(<<>>)
  BY EmptyLen DEF Clean
<1>5. Clean(Append(<<>>, f)) /\ \A c : Pushes(<<>>, Append(<<>>, f), c)
  BY <1>1, <1>3, <1>4, PushTidy
<1> QED BY <1>1, <1>2, <1>3, <1>5 DEF f

LEMMA DeployFollows ==
  ASSUME EInv, Clean(frames), ledger' = ledger, NEW a \in NewAddr, Deploy(a)
  PROVE  Follows
<1> DEFINE ps == <<Frame(a, FALSE, FALSE)>>
           gs == CreateAccount(Load(ps, a), a)
           acc == [code |-> NoCode, perms |-> TRUE]
           hs == Update(gs, a, acc)
<1>1. /\ phase = "start"
      /\ IF gs[1].err THEN Respond("error") /\ UNCHANGED frames ELSE phase' = "evm" /\ frames' = hs
  BY DEF Deploy
<1>2. a \in Address /\ frames = <<>> /\ LedgerInv
  BY <1>1, StartFacts, EvmConstants
<1>3. CASE gs[1].err
  <2>1. frames' = frames /\ phase' = "done" /\ resp' = "error"
    BY <1>1, <1>3 DEF Respond
  <2>2. Ended'
    BY <1>2, <2>1, EmptyLen DEF Ended
  <2>3. PICK q : q = phase'
    OBVIOUS
  <2>4. \A i \in DOMAIN frames : Mark(frames[i], q) = Mark(frames[i], phase)
    BY <1>2
  <2> QED BY <2>1, <2>2, <2>3, <2>4, StillFollows
<1>4. CASE ~gs[1].err
  <2>1. /\ Good(ps, Len(logs)) /\ Clean(ps) /\ ps # <<>> /\ Len(ps) = 1 /\ \A c : Pushes(<<>>, ps, c)
        /\ ps[1].callee = a /\ ~ps[1].create /\ ~ps[1].err /\ ~ps[1].readonly
    BY <1>1, <1>2, FirstTidy
  <2> HIDE DEF ps
  <2>2. /\ Clean(gs) /\ Touches(ps, gs, a) /\ Grows(ps, gs) /\ gs \in Seq(FrameType) /\ gs # <<>>
        /\ Len(gs) = 1 /\ gs[1].accounts[a].loaded
        /\ Shown(ps, 1, a) = NoAccount /\ Shown(gs, 1, a) # NoAccount
    <3>1. ~ps[Len(ps)].err
      BY <2>1
    <3>2. /\ Clean(gs) /\ Touches(ps, gs, a) /\ Grows(ps, gs)
          /\ gs \in Seq(FrameType) /\ gs # <<>> /\ Len(gs) = Len(ps)
          /\ gs[Len(ps)].accounts[a].loaded
          /\ \/ gs[Len(ps)].err /\ Shown(gs, Len(ps), a) = Shown(ps, Len(ps), a)
             \/ ~gs[Len(ps)].err /\ Shown(ps, Len(ps), a) = NoAccount /\ Shown(gs, Len(ps), a) # NoAccount
      BY <1>2, <2>1, <3>1, NewTidy
    <3> HIDE DEF gs
    <3> QED BY <1>4, <2>1, <3>2
  <2> HIDE DEF gs
  <2>3. acc \in Acct /\ acc # Absent
    <3>1. acc \in Acct
      BY DEF Acct
    <3> HIDE DEF acc
    <3> QED BY <3>1, MarkerAssumption
  <2> HIDE DEF acc
  <2>4. 1 \in 1 .. Len(gs) /\ 1 \in 1 .. Len(ps) /\ gs[Len(gs)] = gs[1] /\ Len(<<>>) = 0 /\ 0 + 1 = 1 /\ 0 \in Nat
    BY <2>1, <2>2, EmptyLen
  <2>5. Writable(gs, a)
    <3>1. ~gs[1].readonly
      BY <2>1, <2>2, <2>4 DEF Grows
    <3>2. ~gs[1].accounts[a].removed
      <4>1. AcctAt(gs, 1, a) # Absent
        BY <1>2, <2>2, NoAccountIs
      <4>2. AcctAt(gs, 1, a) = IF ~gs[1].accounts[a].loaded THEN AcctAt(gs, 1 - 1, a)
                               ELSE IF gs[1].accounts[a].removed THEN Absent
                               ELSE gs[1].accounts[a].account
        BY <1>2, <2>2, <2>4, AcctStep
      <4> QED BY <2>2, <4>1, <4>2
    <3> QED BY <2>4, <3>1, <3>2 DEF Writable
  <2>6. hs \in Seq(FrameType) /\ hs[1].err = gs[1].err /\ AcctAt(hs, 1, a) = acc
    <3>1. gs[Len(gs)].accounts[a].loaded
      BY <2>2, <2>4
    <3>2. /\ Update(gs, a, acc) \in Seq(FrameType) /\ Update(gs, a, acc)[Len(gs)].err = gs[Len(gs)].err
          /\ AcctAt(Update(gs, a, acc), Len(gs), a) = acc
      BY <1>2, <2>2, <2>3, <2>5, <3>1, UpdateShows
    <3> HIDE DEF hs
    <3>3. hs = Update(gs, a, acc)
      BY DEF hs
    <3> QED BY <2>2, <2>4, <3>2, <3>3
  <2>7. Clean(hs) /\ Touches(gs, hs, a)
    <3>1. gs[Len(gs)].accounts[a].loaded
      BY <2>2, <2>4
    <3> QED BY <1>2, <2>2, <2>3, <3>1, UpdateTidy
  <2> HIDE DEF hs
  <2>8. Shown(hs, 1, a) # NoAccount
    BY <1>2, <2>3, <2>6, NoAccountIs
  <2>9. Shown(<<>>, 0, a) = NoAccount
    <3>1. Shown(ps, Len(<<>>) + 1, a) = Shown(<<>>, Len(<<>>), a)
      BY <1>2, <2>1, PushesSame
    <3> QED BY <2>2, <2>4, <3>1
  <2>10. Pushes(<<>>, hs, a) /\ hs[1].callee = a /\ ~hs[1].create
    <3>1. Len(<<>>) \in Nat /\ Len(<<>>) + 1 = 1
      BY <2>4
    <3>2. Pushes(<<>>, ps, a)
      BY <2>1
    <3>3. Pushes(<<>>, gs, a) /\ SameLabel(ps[Len(<<>>) + 1], gs[Len(<<>>) + 1])
      BY <2>2, <3>1, <3>2, PushTouches
    <3>4. Pushes(<<>>, hs, a) /\ SameLabel(gs[Len(<<>>) + 1], hs[Len(<<>>) + 1])
      BY <2>7, <3>1, <3>3, PushTouches
    <3>5. SameLabel(ps[1], gs[1]) /\ SameLabel(gs[1], hs[1])
      BY <3>1, <3>3, <3>4
    <3> QED BY <2>1, <3>4, <3>5 DEF SameLabel
  <2>11. PICK us : us = frames' /\ us = hs
    BY <1>1, <1>4 DEF hs
  <2>12. PICK q \in {"evm", "flush"} : q = phase' /\ q = "evm"
    BY <1>1, <1>4
  <2>13. ~us[1].err
    BY <1>4, <2>6, <2>11
  <2> QED BY <1>2, <2>6, <2>7, <2>8, <2>9, <2>10, <2>11, <2>12, <2>13, BeginFollows
<1> QED BY <1>3, <1>4

LEMMA CallContractFollows ==
  ASSUME EInv, Clean(frames), ledger' = ledger, NEW a \in Address, CallContract(a)
  PROVE  Follows
<1> DEFINE ps == <<Frame(a, FALSE, FALSE)>>
           gs == Load(ps, a)
           L == Len(logs)
<1>1. phase = "start" /\ frames' = gs /\ phase' \in {"evm", "flush"}
  BY DEF CallContract
<1>2. frames = <<>> /\ LedgerInv
  BY <1>1, StartFacts
<1>3. /\ Good(ps, L) /\ Clean(ps) /\ Len(ps) = 1 /\ \A c : Pushes(<<>>, ps, c)
      /\ ~ps[1].create /\ ~ps[1].err
  BY <1>1, FirstTidy
<1> HIDE DEF ps
<1>4. Clean(gs) /\ (\A c : Touches(ps, gs, c)) /\ Good(gs, L)
  BY <1>2, <1>3, LoadTidy, LoadGood
<1>5. Len(<<>>) = 0 /\ Len(<<>>) \in Nat /\ 0 + 1 = 1 /\ 1 \in 1 .. Len(ps)
  BY <1>3, EmptyLen
<1>6. gs[1].create = ps[1].create /\ gs[1].err = ps[1].err
  BY <1>2, <1>3, <1>5, LoadParts
<1> HIDE DEF gs
<1>7. \A c : Pushes(<<>>, gs, c)
  <2>1. ASSUME NEW c PROVE Pushes(<<>>, gs, c)
    <3>1. Pushes(<<>>, ps, c) /\ Touches(ps, gs, c)
      BY <1>3, <1>4
    <3> QED BY <1>5, <3>1, PushTouches
  <2> QED BY <2>1
<1>8. Shown(gs, 1, a) = Shown(<<>>, 0, a)
  <2>1. Shown(gs, Len(<<>>) + 1, a) = Shown(<<>>, Len(<<>>), a)
    BY <1>7, PushesSame
  <2> QED BY <1>5, <2>1
<1>9. PICK us : us = frames' /\ us = gs
  BY <1>1
<1>10. us \in Seq(FrameType) /\ Clean(us) /\ Pushes(<<>>, us, a)
  BY <1>4, <1>7, <1>9 DEF Good
<1>11. ~us[1].create /\ ~us[1].err /\ Shown(us, 1, a) = Shown(<<>>, 0, a)
  BY <1>3, <1>6, <1>8, <1>9
<1>12. PICK q \in {"evm", "flush"} : q = phase'
  BY <1>1
<1> QED BY <1>2, <1>9, <1>10, <1>11, <1>12, BeginFollows

\* The other steps before and after the EVM keep the frames.
LEMMA AroundFollows ==
  ASSUME EInv, Clean(frames), Ended, ledger' = ledger,
         \/ \E kd \in {"deploy", "invoke", "getCode", "account"} : Invoke(kd)
         \/ InvokeRefused \/ (\E a \in Address : InvokeGetCode(a)) \/ InvokeAccount \/ StartFails
         \/ (\E data \in {"empty", "short", "full"} : Flush(data))
         \/ SyncStep \/ SyncDone \/ UNCHANGED vars
  PROVE  Follows
<1>0. PICK q : q = phase'
  OBVIOUS
<1>1. CASE UNCHANGED vars
  <2>1. frames' = frames /\ phase' = phase /\ resp' = resp
    BY <1>1 DEF vars, invoke
  <2>2. Ended'
    BY <2>1 DEF Ended
  <2>3. \A i \in DOMAIN frames : Mark(frames[i], q) = Mark(frames[i], phase)
    BY <1>0, <2>1
  <2> QED BY <1>0, <2>1, <2>2, <2>3, StillFollows
<1>2. CASE \/ InvokeRefused \/ \E kd \in {"deploy", "invoke", "getCode", "account"} : Invoke(kd)
           \/ InvokeAccount \/ StartFails \/ \E a \in Address : InvokeGetCode(a)
  <2>1. frames' = frames /\ phase \in {"idle", "start"}
    BY <1>2 DEF Invoke, InvokeRefused, InvokeAccount, StartFails, InvokeGetCode
  <2>2. frames = <<>> /\ Len(frames) <= 1
    BY <2>1, EmptyLen DEF EInv, FramesInv
  <2>3. Ended'
    BY <2>1, <2>2 DEF Ended
  <2>4. \A i \in DOMAIN frames : Mark(frames[i], q) = Mark(frames[i], phase)
    BY <2>2
  <2> QED BY <1>0, <2>1, <2>3, <2>4, StillFollows
<1>3. CASE SyncStep \/ SyncDone \/ \E data \in {"empty", "short", "full"} : Flush(data)
  <2>1. frames' = frames /\ phase \in {"flush", "sync"}
    BY <1>3 DEF SyncStep, SyncDone, Flush
  <2>2. phase' \in {"flush", "sync", "done"}
    BY <1>3 DEF SyncStep, SyncDone, Flush, Respond
  <2>3. Ended'
    BY <2>1 DEF Ended
  <2>4. \A i \in DOMAIN frames : Mark(frames[i], q) = Mark(frames[i], phase)
    BY <1>0, <2>1, <2>2 DEF Mark
  <2> QED BY <1>0, <2>1, <2>3, <2>4, StillFollows
<1> QED BY <1>1, <1>2, <1>3

LEMMA EvmFollows ==
  ASSUME EInv, Clean(frames), ledger' = ledger, Evm
  PROVE  Follows
<1>1. CASE \E k \in Key : SLOAD(k)
  BY <1>1, SLOADFollows
<1>2. CASE \E k \in Key, v \in Word \cup {Zero} : SSTORE(k, v)
  BY <1>2, SSTOREFollows
<1>3. CASE LOG
  BY <1>3, LOGFollows
<1>4. CASE \E op \in {"CALL", "DELEGATECALL", "STATICCALL"}, t \in Address : CALL(op, t)
  BY <1>4, CALLFollows
<1>5. CASE (\E a \in NewAddr : CREATE(a)) \/ CREATE2
  BY <1>5, CREATEFollows, CREATE2Follows
<1>6. CASE \E c \in Code \cup {NoCode} : RETURN(c)
  <2>1. PICK c \in Code \cup {NoCode} : RETURN(c)
    BY <1>6
  <2>2. c \in Code \cup {NoCode, Absent} /\ phase = "evm" /\ ~Top.err /\ Returning(frames, c)
    BY <2>1 DEF RETURN
  <2> QED BY <2>2, RETURNFollows
<1>7. CASE STOP
  <2>1. Absent \in Code \cup {NoCode, Absent} /\ phase = "evm" /\ ~Top.err /\ Returning(frames, Absent)
    BY <1>7 DEF STOP
  <2> QED BY <2>1, RETURNFollows
<1>8. CASE \E r \in Address : SELFDESTRUCT(r)
  BY <1>8, SELFDESTRUCTFollows
<1>9. CASE Revert \/ Unwind
  BY <1>9, RevertFollows, UnwindFollows
<1> QED BY <1>1, <1>2, <1>3, <1>4, <1>5, <1>6, <1>7, <1>8, <1>9 DEF Evm

\* The end of a transaction: what it has written is committed, or nothing is.
LEMMA EndTxFollows ==
  ASSUME EInv, Clean(frames), Ended, EndTx
  PROVE  Follows
<1>1. /\ phase = "done" /\ ((resp = "ok" /\ SM!Commit) \/ SM!Discard)
      /\ phase' = "idle" /\ frames' = <<>>
  BY DEF EndTx
<1>2. PICK gs : gs = frames' /\ gs = <<>>
  BY <1>1
<1>3. Clean(frames)'
  BY <1>1, EmptyLen DEF Clean
<1>4. Ended'
  BY <1>1 DEF Ended
<1>5. CASE ledger' = ledger /\ frames = <<>>
  <2>1. PICK q : q = phase'
    OBVIOUS
  <2>2. frames' = frames /\ \A i \in DOMAIN frames : Mark(frames[i], q) = Mark(frames[i], phase)
    BY <1>1, <1>5
  <2> QED BY <1>4, <1>5, <2>1, <2>2, StillFollows
<1>6. CASE ledger' = ledger /\ frames # <<>>
  <2>1. frames \in Seq(FrameType)
    BY DEF EInv, FramesInv, Good
  <2>2. Len(frames) = 1
    <3>1. Len(frames) \in Nat /\ Len(frames) # 0
      BY <1>6, <2>1
    <3>2. Len(frames) <= 1
      BY <1>1 DEF Ended
    <3>3. PICK n : n = Len(frames)
      OBVIOUS
    <3>4. n \in Nat /\ n # 0 /\ n <= 1
      BY <3>1, <3>2, <3>3
    <3>5. n = 1
      BY <3>4
    <3> QED BY <3>3, <3>5
  <2>3. Nested!Abort
    BY <1>1, <1>6, <2>1, <2>2, NestedAbort
  <2> QED BY <1>3, <1>4, <2>3 DEF Follows, Nested!Next
<1>7. CASE ledger' # ledger
  <2>1. resp = "ok" /\ ledger' = SM!Applied(writes)
    BY <1>1, <1>7 DEF SM!Commit, SM!Discard
  <2>2. frames # <<>>
    <3>1. SUFFICES ASSUME frames = <<>> PROVE FALSE
      OBVIOUS
    <3>2. writes = SM!NoWrites
      BY <1>1, <2>1, <3>1 DEF EInv, SyncInv
    <3>3. ledger \in [SM!WorldKey -> SM!Value \cup {Absent}]
      BY DEF EInv, LedgerInv, SM!TypeOK
    <3>4. SM!Applied(writes) = ledger
      BY <3>2, <3>3 DEF SM!Applied, SM!NoWrites
    <3> QED BY <1>7, <2>1, <3>4
  <2>3. writes = Target(frames[1])
    BY <1>1, <2>1, <2>2 DEF EInv, SyncInv
  <2>4. Len(frames) <= 1 /\ ~frames[1].err
    BY <1>1, <2>1, <2>2 DEF Ended
  <2>5. Nested!Commit
    BY <1>1, <2>1, <2>2, <2>3, <2>4, NestedCommit
  <2> QED BY <1>3, <1>4, <2>5 DEF Follows, Nested!Next
<1> QED BY <1>5, <1>6, <1>7

LEMMA NextFollows == EInv /\ Clean(frames) /\ Ended /\ [Next]_vars => Follows
<1> SUFFICES ASSUME EInv, Clean(frames), Ended, [Next]_vars PROVE Follows
  OBVIOUS
<1>1. CASE EndTx
  BY <1>1, EndTxFollows
<1>2. CASE ~EndTx
  <2>1. ledger' = ledger
    <3>1. ledger' = ledger \/ (phase = "done" /\ resp = "ok")
      BY LedgerStep
    <3>2. CASE phase = "done"
      <4>1. UNCHANGED vars
        BY <1>2, <3>2 DEF Next, Invoke, InvokeRefused, InvokeGetCode, InvokeAccount, StartFails, Deploy,
                          CallContract, Evm, Step, SLOAD, SSTORE, LOG, CALL, CREATE, CREATE2, Creating, RETURN,
                          STOP, SELFDESTRUCT, Revert, Unwind, Flush, SyncStep, SyncDone, Idle
      <4> QED BY <4>1 DEF vars, sm
    <3> QED BY <3>1, <3>2
  <2>2. CASE \E a \in NewAddr : Deploy(a)
    BY <2>1, <2>2, DeployFollows
  <2>3. CASE \E a \in Address : CallContract(a)
    BY <2>1, <2>3, CallContractFollows
  <2>4. CASE Evm
    BY <2>1, <2>4, EvmFollows
  <2>5. CASE \/ \E kd \in {"deploy", "invoke", "getCode", "account"} : Invoke(kd)
             \/ InvokeRefused \/ (\E a \in Address : InvokeGetCode(a)) \/ InvokeAccount \/ StartFails
             \/ (\E data \in {"empty", "short", "full"} : Flush(data))
             \/ SyncStep \/ SyncDone \/ UNCHANGED vars
    BY <2>1, <2>5, AroundFollows
  <2> QED BY <1>2, <2>2, <2>3, <2>4, <2>5 DEF Next, Idle
<1> QED BY <1>1, <1>2

LEMMA InitNested == Init => Nested!Init /\ Clean(frames) /\ Ended
<1> SUFFICES ASSUME Init PROVE Nested!Init /\ Clean(frames) /\ Ended
  OBVIOUS
<1>1. SM!Init /\ phase = "idle" /\ frames = <<>>
  BY DEF Init
<1>2. ledger = [key \in SM!WorldKey |-> Absent]
  BY <1>1 DEF SM!Init
<1>3. Clean(frames) /\ Ended
  BY <1>1, EmptyLen DEF Clean, Ended
<1>4. View(<<>>) = [a \in Address |-> NoAccount]
  <2>1. ASSUME NEW a \in Address PROVE AcctIn(<<>>, a) = Absent
    <3>1. SM!acctKey(a) \in SM!WorldKey
      BY DEF SM!acctKey, SM!ToLower, SM!String, SM!WorldKey
    <3> QED BY <1>2, <3>1, NoLevels DEF AcctIn
  <2> QED BY <2>1 DEF View, Exists
<1>5. CallStack = <<>>
  BY <1>1, StackNone, NestedStack
<1> QED BY <1>3, <1>4, <1>5 DEF Nested!Init

\* ImplementsNestedTx: every behaviour of Invoke is one of nested transactions on
\* the world of contracts.  Through the stack of caches, their merging and the
\* writes of Sync: a call that has failed (its cache's error) is dropped and
\* leaves its caller's world as it was; one that has not failed leaves exactly
\* its own world, but for the code a creation installs in the account it made
\* and the account a SELFDESTRUCT removes, or its caller fails; an instruction
\* changes one account of the innermost world; and only the world of an
\* outermost call that has returned without failing is committed, whole.  The
\* caches must be clean for it: an entry that is not marked as changed is what
\* the caches below hold, so that leaving it out of Cache.Sync loses nothing.
THEOREM Nesting == Spec => ImplementsNestedTx
<1> DEFINE NInv == EInv /\ Clean(frames) /\ Ended
<1>1. Init => NInv /\ Nested!Init
  BY InitEInv, InitNested
<1>2. NInv /\ [Next]_vars => NInv' /\ [Nested!Next]_(Nested!vars)
  BY NextEInv, NextFollows DEF Follows
<1> HIDE DEF NInv
<1> QED BY <1>1, <1>2, PTL DEF Spec, ImplementsNestedTx, Nested!Spec

=============================================================================
