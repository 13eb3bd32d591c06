------------------------ MODULE FilterRegistryProofs ------------------------
(***************************************************************************)
(* Theorems about the filter registry, for every number of concurrent      *)
(* requests and of filters.                                                *)
(***************************************************************************)
EXTENDS FilterRegistry, SequenceTheorems, TLAPS

----------------------------------------------------------------------------
(* Type correctness.                                                       *)

\* What each handler's request is at each point of its method.
RequestOK ==
  /\ \A h \in Handler : pc[h] \in NewPCs => arg[h] \in Args
  /\ \A h \in Handler : pc[h] = "delParse" => arg[h] \in IdStrings

LEMMA ParseStripped ==
  ASSUME NEW s \in IdStrings, ParseUint(strip0x(s)) # Bad
  PROVE  ParseUint(strip0x(s)) \in Nat
<1>1. s[2] \in (0 .. MaxId) \cup {Bad}
  BY DEF IdStrings
<1>2. ParseUint(strip0x(s)) = s[2]
  BY DEF ParseUint, strip0x
<1> QED
  BY <1>1, <1>2, FilterConstants

\* A client reads back from the reply the number NewFilter has formatted.
LEMMA FormatParse == \A n \in Nat : ParseUint(strip0x(FormatUint(n))) = n
BY DEF ParseUint, strip0x, FormatUint

LEMMA NextTypeOK == TypeOK /\ RequestOK /\ [Next]_vars => TypeOK' /\ RequestOK'
<1> SUFFICES ASSUME TypeOK, RequestOK, [Next]_vars PROVE TypeOK' /\ RequestOK'
  OBVIOUS
<1> USE DEF TypeOK, RequestOK, Goto, NewPCs, DelPCs
<1>1. ASSUME NEW h \in Handler, NEW f \in Args, AcceptNew(h, f) PROVE TypeOK' /\ RequestOK'
  BY <1>1, FilterConstants DEF AcceptNew
<1>2. ASSUME NEW h \in Handler, NewLock(h) PROVE TypeOK' /\ RequestOK'
  BY <1>2 DEF NewLock, Lock, history
<1>3. ASSUME NEW h \in Handler, NewIncr(h) PROVE TypeOK' /\ RequestOK'
  BY <1>3 DEF NewIncr, history
<1>4. ASSUME NEW h \in Handler, NewIndex(h) PROVE TypeOK' /\ RequestOK'
  BY <1>4 DEF NewIndex, history
<1>5. ASSUME NEW h \in Handler, NewInsert(h) PROVE TypeOK' /\ RequestOK'
  BY <1>5 DEF NewInsert, history
<1>6. ASSUME NEW h \in Handler, NewUnlock(h) PROVE TypeOK' /\ RequestOK'
  BY <1>6 DEF NewUnlock, Unlock, history
<1>7. ASSUME NEW h \in Handler, NewReply(h) PROVE TypeOK' /\ RequestOK'
  <2>1. ParseUint(strip0x(FormatUint(index[h]))) = index[h] /\ index[h] \in Nat
    BY FormatParse
  <2>2. granted' = Append(granted, [id |-> index[h], filter |-> arg[h]])
    BY <1>7, <2>1 DEF NewReply
  <2>3. [id |-> index[h], filter |-> arg[h]] \in [id : Nat, filter : Args]
    BY <1>7, <2>1 DEF NewReply
  <2>4. granted' \in Seq([id : Nat, filter : Args])
    BY <2>2, <2>3
  <2> QED
    BY <1>7, <2>4 DEF NewReply
<1>8. ASSUME NEW h \in Handler, NEW s \in IdStrings, AcceptUninstall(h, s)
      PROVE  TypeOK' /\ RequestOK'
  BY <1>8 DEF AcceptUninstall, history
<1>9. ASSUME NEW h \in Handler, DelParse(h) PROVE TypeOK' /\ RequestOK'
  <2>1. arg[h] \in IdStrings
    BY <1>9 DEF DelParse
  <2> QED
    BY <1>9, <2>1, ParseStripped DEF DelParse, history
<1>10. ASSUME NEW h \in Handler, DelLock(h) PROVE TypeOK' /\ RequestOK'
  BY <1>10 DEF DelLock, Lock, history
<1>11. ASSUME NEW h \in Handler, DelLookup(h) PROVE TypeOK' /\ RequestOK'
  BY <1>11 DEF DelLookup, history
<1>12. ASSUME NEW h \in Handler, DelDelete(h) PROVE TypeOK' /\ RequestOK'
  BY <1>12 DEF DelDelete, history
<1>13. ASSUME NEW h \in Handler, DelUnlock(h) PROVE TypeOK' /\ RequestOK'
  BY <1>13 DEF DelUnlock, Unlock, history
<1>14. ASSUME NEW h \in Handler, DelReply(h) PROVE TypeOK' /\ RequestOK'
  BY <1>14 DEF DelReply
<1>15. CASE UNCHANGED vars
  BY <1>15 DEF vars
<1> QED
  BY <1>1, <1>2, <1>3, <1>4, <1>5, <1>6, <1>7, <1>8, <1>9, <1>10, <1>11, <1>12, <1>13, <1>14, <1>15
     DEF Next, Serve

\* The registry's variables keep their types.
THEOREM TypeCorrect == Spec => [](TypeOK /\ RequestOK)
<1>1. Init => TypeOK /\ RequestOK
  BY FilterConstants DEF Init, TypeOK, RequestOK, NewPCs, DelPCs
<1> QED
  BY <1>1, NextTypeOK, PTL DEF Spec

----------------------------------------------------------------------------
(* The lock, the counter and the map.                                      *)

\* A handler is between Lock and Unlock exactly while it holds the mutex.
Mutex == \A h \in Handler : pc[h] \in LockedPCs <=> filterMapLock = h

\* The map holds ids below the counter; an id just taken from the counter is
\* not in the map and is the one its handler has read back; an id found by
\* DelLookup is still there when DelDelete comes.
MapInv ==
  /\ DOMAIN filterMap \subseteq 1 .. filterSeq
  /\ \A h \in Handler : pc[h] \in {"newIndex", "newInsert"} =>
       filterSeq # 0 /\ filterSeq \notin DOMAIN filterMap
  /\ \A h \in Handler : pc[h] = "newInsert" => index[h] = filterSeq
  /\ \A h \in Handler : pc[h] = "delDelete" => index[h] \in DOMAIN filterMap

LEMMA NextMutex == TypeOK /\ Mutex /\ [Next]_vars => Mutex'
<1> SUFFICES ASSUME TypeOK, Mutex, [Next]_vars PROVE Mutex'
  OBVIOUS
<1> USE FilterConstants DEF TypeOK, Mutex, LockedPCs, Goto
<1>1. ASSUME NEW h \in Handler, NEW f \in Args, AcceptNew(h, f) PROVE Mutex'
  BY <1>1 DEF AcceptNew
<1>2. ASSUME NEW h \in Handler, NewLock(h) \/ DelLock(h) PROVE Mutex'
  BY <1>2 DEF NewLock, DelLock, Lock
<1>3. ASSUME NEW h \in Handler, NewIncr(h) \/ NewIndex(h) \/ NewInsert(h) PROVE Mutex'
  BY <1>3 DEF NewIncr, NewIndex, NewInsert
<1>4. ASSUME NEW h \in Handler, NewUnlock(h) \/ DelUnlock(h) PROVE Mutex'
  BY <1>4 DEF NewUnlock, DelUnlock, Unlock
<1>5. ASSUME NEW h \in Handler, NewReply(h) \/ DelReply(h) PROVE Mutex'
  BY <1>5 DEF NewReply, DelReply
<1>6. ASSUME NEW h \in Handler, NEW s \in IdStrings, AcceptUninstall(h, s) PROVE Mutex'
  BY <1>6 DEF AcceptUninstall
<1>7. ASSUME NEW h \in Handler, DelParse(h) PROVE Mutex'
  BY <1>7 DEF DelParse
<1>8. ASSUME NEW h \in Handler, DelLookup(h) \/ DelDelete(h) PROVE Mutex'
  BY <1>8 DEF DelLookup, DelDelete
<1>9. CASE UNCHANGED vars
  BY <1>9 DEF vars
<1> QED
  BY <1>1, <1>2, <1>3, <1>4, <1>5, <1>6, <1>7, <1>8, <1>9 DEF Next, Serve

LEMMA NextMapInv == TypeOK /\ Mutex /\ MapInv /\ [Next]_vars => MapInv'
<1> SUFFICES ASSUME TypeOK, Mutex, MapInv, [Next]_vars PROVE MapInv'
  OBVIOUS
<1> USE DEF TypeOK, Mutex, LockedPCs, MapInv, Goto
<1>1. ASSUME NEW h \in Handler, NEW f \in Args, AcceptNew(h, f) PROVE MapInv'
  BY <1>1 DEF AcceptNew
<1>2. ASSUME NEW h \in Handler, NewLock(h) \/ DelLock(h) PROVE MapInv'
  BY <1>2 DEF NewLock, DelLock
<1>3. ASSUME NEW h \in Handler, NewIncr(h) PROVE MapInv'
  BY <1>3 DEF NewIncr
<1>4. ASSUME NEW h \in Handler, NewIndex(h) PROVE MapInv'
  BY <1>4 DEF NewIndex
<1>5. ASSUME NEW h \in Handler, NewInsert(h) PROVE MapInv'
  BY <1>5 DEF NewInsert
<1>6. ASSUME NEW h \in Handler, NewUnlock(h) \/ DelUnlock(h) PROVE MapInv'
  BY <1>6 DEF NewUnlock, DelUnlock
<1>7. ASSUME NEW h \in Handler, NewReply(h) \/ DelReply(h) PROVE MapInv'
  BY <1>7 DEF NewReply, DelReply
<1>8. ASSUME NEW h \in Handler, NEW s \in IdStrings, AcceptUninstall(h, s) PROVE MapInv'
  BY <1>8 DEF AcceptUninstall
<1>9. ASSUME NEW h \in Handler, DelParse(h) PROVE MapInv'
  BY <1>9 DEF DelParse
<1>10. ASSUME NEW h \in Handler, DelLookup(h) PROVE MapInv'
  BY <1>10 DEF DelLookup
<1>11. ASSUME NEW h \in Handler, DelDelete(h) PROVE MapInv'
  BY <1>11 DEF DelDelete
<1>12. CASE UNCHANGED vars
  BY <1>12 DEF vars
<1> QED
  BY <1>1, <1>2, <1>3, <1>4, <1>5, <1>6, <1>7, <1>8, <1>9, <1>10, <1>11, <1>12 DEF Next, Serve

\* Everything the theorems below need to know of a reachable state.
RegInv == TypeOK /\ RequestOK /\ Mutex /\ MapInv

LEMMA RegInvAlways == Spec => []RegInv
<1>1. Init => Mutex /\ MapInv
  BY FilterConstants DEF Init, Mutex, MapInv, LockedPCs
<1> QED
  BY <1>1, NextMutex, NextMapInv, TypeCorrect, PTL DEF Spec, RegInv

----------------------------------------------------------------------------
(* Concurrent requests take effect one at a time.                          *)

LEMMA RefinementStep == RegInv /\ [Next]_vars => [Store!Next]_(Store!vars)
<1> SUFFICES ASSUME RegInv, [Next]_vars PROVE Store!Next \/ UNCHANGED Store!vars
  OBVIOUS
<1> USE DEF RegInv, TypeOK, Goto
<1> DEFINE used == IF Pending THEN filterSeq - 1 ELSE filterSeq
<1>1. ASSUME NEW h \in Handler, NEW f \in Args, AcceptNew(h, f) PROVE UNCHANGED Store!vars
  BY <1>1 DEF AcceptNew, Pending, Store!vars
<1>2. ASSUME NEW h \in Handler,
             NewLock(h) \/ NewUnlock(h) \/ DelLock(h) \/ DelLookup(h) \/ DelUnlock(h)
      PROVE  UNCHANGED Store!vars
  BY <1>2 DEF NewLock, NewUnlock, DelLock, DelLookup, DelUnlock, Pending, Store!vars
<1>3. ASSUME NEW h \in Handler, NewReply(h) \/ DelReply(h) PROVE UNCHANGED Store!vars
  BY <1>3 DEF NewReply, DelReply, Pending, Store!vars
<1>4. ASSUME NEW h \in Handler, NEW s \in IdStrings, AcceptUninstall(h, s)
      PROVE  UNCHANGED Store!vars
  BY <1>4 DEF AcceptUninstall, Pending, Store!vars
<1>5. ASSUME NEW h \in Handler, DelParse(h) PROVE UNCHANGED Store!vars
  BY <1>5 DEF DelParse, Pending, Store!vars
<1>6. ASSUME NEW h \in Handler, NewIncr(h) PROVE UNCHANGED Store!vars
  <2>1. ~Pending /\ Pending'
    BY <1>6 DEF NewIncr, Pending, Mutex, LockedPCs
  <2> QED
    BY <1>6, <2>1 DEF NewIncr, Store!vars
<1>7. ASSUME NEW h \in Handler, NewIndex(h) PROVE UNCHANGED Store!vars
  <2>1. Pending /\ Pending'
    BY <1>7 DEF NewIndex, Pending
  <2> QED
    BY <1>7, <2>1 DEF NewIndex, Store!vars
<1>8. ASSUME NEW h \in Handler, NewInsert(h) PROVE Store!Next
  <2>1. Pending /\ ~Pending'
    BY <1>8 DEF NewInsert, Pending, Mutex, LockedPCs
  <2>2. arg[h] \in Args /\ index[h] = filterSeq
    BY <1>8 DEF NewInsert, RequestOK, NewPCs, MapInv
  <2>3. used' = used + 1 /\ index[h] = used + 1
    BY <1>8, <2>1, <2>2 DEF NewInsert
  <2>4. Store!Install(arg[h])
    BY <1>8, <2>3 DEF NewInsert, Store!Install
  <2> QED
    BY <2>2, <2>4 DEF Store!Next
<1>9. ASSUME NEW h \in Handler, DelDelete(h) PROVE Store!Next
  <2>1. Pending' = Pending /\ index[h] \in DOMAIN filterMap
    BY <1>9 DEF DelDelete, Pending, MapInv
  <2>2. Store!Remove(index[h])
    BY <1>9, <2>1 DEF DelDelete, Store!Remove
  <2> QED
    BY <2>1, <2>2 DEF Store!Next
<1>10. CASE UNCHANGED vars
  BY <1>10 DEF vars, Pending, Store!vars
<1> QED
  BY <1>1, <1>2, <1>3, <1>4, <1>5, <1>6, <1>7, <1>8, <1>9, <1>10 DEF Next, Serve

\* However many requests run at once, the registry implements FilterStore:
\* NewFilter installs a filter under the next unused id in one indivisible
\* step, UninstallFilter removes one in one indivisible step.
THEOREM Refinement == Spec => ImplementsFilterStore
<1>1. Init => Store!Init
  BY DEF Init, Pending, Store!Init
<1> QED
  BY <1>1, RegInvAlways, RefinementStep, PTL DEF Spec, ImplementsFilterStore, Store!Spec

----------------------------------------------------------------------------
(* What clients are told.                                                  *)

\* Removals: an id reported removed, or about to be, was given out once, is no
\* longer in the map and belongs to one request only.
RemovalInv ==
  /\ \A h \in Handler : removed[h] => pc[h] \in {"delUnlock", "delReply"}
  /\ \A id \in Nat : Removed(id) => id \in 1 .. filterSeq /\ id \notin DOMAIN filterMap
  /\ RemovedOnce
  /\ \A h \in Handler : removed[h] => \A n \in DOMAIN removals : removals[n] # index[h]
  /\ \A g, h \in Handler : g # h /\ removed[g] /\ removed[h] => index[g] # index[h]
  /\ \A h \in Handler : pc[h] \in {"newIndex", "newInsert"} => ~Removed(filterSeq)

LEMMA NextRemovalInv == RegInv /\ RemovalInv /\ [Next]_vars => RemovalInv'
<1> SUFFICES ASSUME RegInv, RemovalInv, [Next]_vars PROVE RemovalInv'
  OBVIOUS
<1> USE DEF RegInv, TypeOK, RemovalInv, RemovedOnce, Removed, Goto
<1>1. ASSUME NEW h \in Handler, NEW f \in Args, AcceptNew(h, f) PROVE RemovalInv'
  BY <1>1 DEF AcceptNew
<1>2. ASSUME NEW h \in Handler, NewLock(h) \/ DelLock(h) PROVE RemovalInv'
  BY <1>2 DEF NewLock, DelLock, history
<1>3. ASSUME NEW h \in Handler, NewIncr(h) PROVE RemovalInv'
  BY <1>3 DEF NewIncr, history
<1>4. ASSUME NEW h \in Handler, NewIndex(h) PROVE RemovalInv'
  BY <1>4 DEF NewIndex, history
<1>5. ASSUME NEW h \in Handler, NewInsert(h) PROVE RemovalInv'
  BY <1>5 DEF NewInsert, MapInv, history
<1>6. ASSUME NEW h \in Handler, NewUnlock(h) \/ DelUnlock(h) PROVE RemovalInv'
  BY <1>6 DEF NewUnlock, DelUnlock, history
<1>7. ASSUME NEW h \in Handler, NewReply(h) PROVE RemovalInv'
  BY <1>7 DEF NewReply
<1>8. ASSUME NEW h \in Handler, NEW s \in IdStrings, AcceptUninstall(h, s) PROVE RemovalInv'
  BY <1>8 DEF AcceptUninstall, history
<1>9. ASSUME NEW h \in Handler, DelParse(h) PROVE RemovalInv'
  BY <1>9 DEF DelParse, history
<1>10. ASSUME NEW h \in Handler, DelLookup(h) PROVE RemovalInv'
  BY <1>10 DEF DelLookup, history
<1>11. ASSUME NEW h \in Handler, DelDelete(h) PROVE RemovalInv'
  BY <1>11 DEF DelDelete, MapInv, Mutex, LockedPCs, history
<1>12. ASSUME NEW h \in Handler, DelReply(h) PROVE RemovalInv'
  BY <1>12 DEF DelReply
<1>13. CASE UNCHANGED vars
  BY <1>13 DEF vars
<1> QED
  BY <1>1, <1>2, <1>3, <1>4, <1>5, <1>6, <1>7, <1>8, <1>9, <1>10, <1>11, <1>12, <1>13 DEF Next, Serve

\* A request between its insertion and its answer.
Inserted(h) == pc[h] \in {"newUnlock", "newReply"}

\* Grants: the ids of answered requests, of requests about to be answered and
\* the one just taken from the counter are all different.
GrantInv ==
  /\ DistinctIds
  /\ \A n \in DOMAIN granted : granted[n].id \in 1 .. filterSeq
  /\ \A h \in Handler : Inserted(h) =>
       /\ index[h] \in 1 .. filterSeq
       /\ \A n \in DOMAIN granted : granted[n].id # index[h]
  /\ \A g, h \in Handler : g # h /\ Inserted(g) /\ Inserted(h) => index[g] # index[h]
  /\ \A h \in Handler : pc[h] \in {"newIndex", "newInsert"} =>
       /\ \A n \in DOMAIN granted : granted[n].id # filterSeq
       /\ \A g \in Handler : Inserted(g) => index[g] # filterSeq

\* What Append does to the list of grants.
LEMMA Granting ==
  ASSUME TypeOK, NEW id \in Nat, NEW f \in Args,
         granted' = Append(granted, [id |-> id, filter |-> f])
  PROVE  LET n == Len(granted) + 1 IN
         /\ DOMAIN granted' = DOMAIN granted \cup {n}
         /\ n \notin DOMAIN granted
         /\ granted'[n].id = id /\ granted'[n].filter = f
         /\ \A m \in DOMAIN granted : granted'[m] = granted[m]
<1>1. granted \in Seq([id : Nat, filter : Args]) /\ [id |-> id, filter |-> f] \in [id : Nat, filter : Args]
  BY DEF TypeOK
<1> QED
  BY <1>1

LEMMA NextGrantInv == RegInv /\ GrantInv /\ [Next]_vars => GrantInv'
<1> SUFFICES ASSUME RegInv, GrantInv, [Next]_vars PROVE GrantInv'
  OBVIOUS
<1> USE DEF RegInv, GrantInv, DistinctIds, Inserted, Goto
<1>1. ASSUME NEW h \in Handler, NEW f \in Args, AcceptNew(h, f) PROVE GrantInv'
  BY <1>1 DEF AcceptNew, TypeOK
<1>2. ASSUME NEW h \in Handler, NewLock(h) \/ DelLock(h) PROVE GrantInv'
  BY <1>2 DEF NewLock, DelLock, TypeOK, history
<1>3. ASSUME NEW h \in Handler, NewIncr(h) PROVE GrantInv'
  BY <1>3 DEF NewIncr, TypeOK, history
<1>4. ASSUME NEW h \in Handler, NewIndex(h) PROVE GrantInv'
  BY <1>4 DEF NewIndex, TypeOK, history
<1>5. ASSUME NEW h \in Handler, NewInsert(h) PROVE GrantInv'
  <2>1. index[h] = filterSeq /\ filterSeq # 0
    BY <1>5 DEF NewInsert, MapInv
  <2> QED
    BY <1>5, <2>1 DEF NewInsert, Mutex, LockedPCs, TypeOK, history
<1>6. ASSUME NEW h \in Handler, NewUnlock(h) \/ DelUnlock(h) PROVE GrantInv'
  BY <1>6 DEF NewUnlock, DelUnlock, TypeOK, history
<1>7. ASSUME NEW h \in Handler, NewReply(h) PROVE GrantInv'
  <2> DEFINE n == Len(granted) + 1
  <2>1. index[h] \in Nat /\ arg[h] \in Args /\ Inserted(h)
    BY <1>7 DEF NewReply, RequestOK, NewPCs, TypeOK
  <2>2. granted' = Append(granted, [id |-> index[h], filter |-> arg[h]])
    BY <1>7, <2>1, FormatParse DEF NewReply
  <2>3. /\ DOMAIN granted' = DOMAIN granted \cup {n}
        /\ n \notin DOMAIN granted
        /\ granted'[n].id = index[h]
        /\ \A m \in DOMAIN granted : granted'[m] = granted[m]
    BY <2>1, <2>2, Granting
  <2> HIDE DEF n
  <2>4. \A g \in Handler : Inserted(g)' => g # h /\ Inserted(g) /\ index'[g] = index[g]
    BY <1>7 DEF NewReply, TypeOK
  <2>5. DistinctIds'
    BY <2>1, <2>3
  <2>6. \A m \in DOMAIN granted' : granted'[m].id \in 1 .. filterSeq
    BY <2>1, <2>3
  <2>7. \A g \in Handler : Inserted(g)' =>
          /\ index'[g] \in 1 .. filterSeq
          /\ \A m \in DOMAIN granted' : granted'[m].id # index'[g]
    BY <2>1, <2>3, <2>4
  <2>8. \A g \in Handler : pc'[g] \in {"newIndex", "newInsert"} =>
          /\ \A m \in DOMAIN granted' : granted'[m].id # filterSeq
          /\ \A k \in Handler : Inserted(k)' => index'[k] # filterSeq
    BY <1>7, <2>1, <2>3, <2>4 DEF NewReply, TypeOK
  <2>9. UNCHANGED filterSeq
    BY <1>7 DEF NewReply
  <2> QED
    BY <2>4, <2>5, <2>6, <2>7, <2>8, <2>9
<1>8. ASSUME NEW h \in Handler, NEW s \in IdStrings, AcceptUninstall(h, s) PROVE GrantInv'
  BY <1>8 DEF AcceptUninstall, TypeOK, history
<1>9. ASSUME NEW h \in Handler, DelParse(h) PROVE GrantInv'
  BY <1>9 DEF DelParse, TypeOK, history
<1>10. ASSUME NEW h \in Handler, DelLookup(h) \/ DelDelete(h) PROVE GrantInv'
  BY <1>10 DEF DelLookup, DelDelete, TypeOK, history
<1>11. ASSUME NEW h \in Handler, DelReply(h) PROVE GrantInv'
  BY <1>11 DEF DelReply, TypeOK
<1>12. CASE UNCHANGED vars
  BY <1>12 DEF vars
<1> QED
  BY <1>1, <1>2, <1>3, <1>4, <1>5, <1>6, <1>7, <1>8, <1>9, <1>10, <1>11, <1>12 DEF Next, Serve

\* A client has been told, or is about to be told, that id is its filter f.
Told(id, f) ==
  \/ \E n \in DOMAIN granted : granted[n].id = id /\ granted[n].filter = f
  \/ \E h \in Handler : Inserted(h) /\ index[h] = id /\ arg[h] = f

\* The filter f is in the map under id, or id has been removed.
Holds(id, f) ==
  IF Removed(id) THEN id \notin DOMAIN filterMap
  ELSE id \in DOMAIN filterMap /\ filterMap[id] = f

HoldInv == \A id \in Nat, f \in Args : Told(id, f) => Holds(id, f)

\* Removed depends on the removals and on the locals of UninstallFilter only.
LEMMA RemovedFrame ==
  ASSUME RemovalInv, NEW h \in Handler, ~removed[h],
         UNCHANGED <<removed, removals>>, \A g \in Handler \ {h} : index'[g] = index[g]
  PROVE  \A id : Removed(id)' <=> Removed(id)
BY DEF Removed

LEMMA HoldsFrame ==
  ASSUME filterMap' = filterMap, \A id : Removed(id)' <=> Removed(id)
  PROVE  \A id, f : Holds(id, f)' <=> Holds(id, f)
BY DEF Holds

LEMMA NextHoldInv ==
  RegInv /\ RemovalInv /\ GrantInv /\ HoldInv /\ [Next]_vars => HoldInv'
<1> SUFFICES ASSUME RegInv, RemovalInv, GrantInv, HoldInv, [Next]_vars,
                    NEW id \in Nat, NEW f \in Args, Told(id, f)'
             PROVE  Holds(id, f)'
  BY DEF HoldInv
<1> USE DEF RegInv, Goto
<1>1. ASSUME NEW h \in Handler, UNCHANGED <<filterMap, removed, removals>>, ~removed[h],
             \A g \in Handler \ {h} : index'[g] = index[g],
             Told(id, f)
      PROVE  Holds(id, f)'
  BY <1>1, RemovedFrame, HoldsFrame DEF HoldInv
<1>2. ASSUME NEW h \in Handler, NEW e \in Args, AcceptNew(h, e) PROVE Holds(id, f)'
  BY <1>2, <1>1 DEF AcceptNew, Told, Inserted, TypeOK, RemovalInv
<1>3. ASSUME NEW h \in Handler, NewLock(h) \/ DelLock(h) PROVE Holds(id, f)'
  BY <1>3, <1>1 DEF NewLock, DelLock, Told, Inserted, TypeOK, RemovalInv, history
<1>4. ASSUME NEW h \in Handler, NewIncr(h) \/ NewIndex(h) PROVE Holds(id, f)'
  BY <1>4, <1>1 DEF NewIncr, NewIndex, Told, Inserted, TypeOK, RemovalInv, history
<1>5. ASSUME NEW h \in Handler, NewInsert(h) PROVE Holds(id, f)'
  <2>1. index[h] = filterSeq /\ ~Removed(filterSeq)
    BY <1>5 DEF NewInsert, MapInv, RemovalInv
  <2>2. Removed(id)' <=> Removed(id)
    BY <1>5 DEF NewInsert, Removed, history
  <2>3. (id = filterSeq /\ arg[h] = f) \/ (id # filterSeq /\ Told(id, f))
    BY <1>5, <2>1 DEF NewInsert, Told, Inserted, TypeOK, GrantInv, history
  <2>4. CASE id = filterSeq /\ arg[h] = f
    BY <1>5, <2>1, <2>2, <2>4 DEF NewInsert, Holds
  <2>5. CASE id # filterSeq /\ Told(id, f)
    BY <1>5, <2>1, <2>2, <2>5 DEF NewInsert, Holds, HoldInv
  <2> QED
    BY <2>3, <2>4, <2>5
<1>6. ASSUME NEW h \in Handler, NewUnlock(h) PROVE Holds(id, f)'
  BY <1>6, <1>1 DEF NewUnlock, Told, Inserted, TypeOK, RemovalInv, history
<1>7. ASSUME NEW h \in Handler, NewReply(h) PROVE Holds(id, f)'
  <2> DEFINE n == Len(granted) + 1
  <2>1. index[h] \in Nat /\ arg[h] \in Args /\ Inserted(h) /\ ~removed[h]
    BY <1>7 DEF NewReply, RequestOK, NewPCs, Inserted, TypeOK, RemovalInv
  <2>2. granted' = Append(granted, [id |-> index[h], filter |-> arg[h]])
    BY <1>7, <2>1, FormatParse DEF NewReply
  <2>3. /\ DOMAIN granted' = DOMAIN granted \cup {n}
        /\ granted'[n].id = index[h] /\ granted'[n].filter = arg[h]
        /\ \A m \in DOMAIN granted : granted'[m] = granted[m]
    BY <2>1, <2>2, Granting
  <2> HIDE DEF n
  <2>4. \A g \in Handler : Inserted(g)' =>
          Inserted(g) /\ index'[g] = index[g] /\ arg'[g] = arg[g]
    BY <1>7 DEF NewReply, Inserted, TypeOK
  <2>5. Told(id, f)
    BY <2>1, <2>3, <2>4 DEF Told
  <2> QED
    BY <1>7, <1>1, <2>1, <2>5 DEF NewReply, TypeOK
<1>8. ASSUME NEW h \in Handler, NEW s \in IdStrings, AcceptUninstall(h, s) PROVE Holds(id, f)'
  BY <1>8, <1>1 DEF AcceptUninstall, Told, Inserted, TypeOK, RemovalInv, history
<1>9. ASSUME NEW h \in Handler, DelParse(h) PROVE Holds(id, f)'
  BY <1>9, <1>1 DEF DelParse, Told, Inserted, TypeOK, RemovalInv, history
<1>10. ASSUME NEW h \in Handler, DelLookup(h) PROVE Holds(id, f)'
  BY <1>10, <1>1 DEF DelLookup, Told, Inserted, TypeOK, RemovalInv, history
<1>11. ASSUME NEW h \in Handler, DelDelete(h) PROVE Holds(id, f)'
  <2>1. ~removed[h] /\ Told(id, f)
    BY <1>11 DEF DelDelete, RemovalInv, Told, Inserted, TypeOK, history
  <2>2. Removed(id)' <=> (Removed(id) \/ id = index[h])
    BY <1>11, <2>1 DEF DelDelete, Removed, TypeOK, history
  <2> QED
    BY <1>11, <2>1, <2>2 DEF DelDelete, Holds, HoldInv
<1>12. ASSUME NEW h \in Handler, DelUnlock(h) PROVE Holds(id, f)'
  <2>1. Told(id, f) /\ (Removed(id)' <=> Removed(id)) /\ UNCHANGED filterMap
    BY <1>12 DEF DelUnlock, Told, Inserted, Removed, TypeOK, history
  <2> QED
    BY <2>1 DEF Holds, HoldInv
<1>13. ASSUME NEW h \in Handler, DelReply(h) PROVE Holds(id, f)'
  <2>1. Told(id, f) /\ UNCHANGED filterMap
    BY <1>13 DEF DelReply, Told, Inserted, TypeOK
  <2>2. CASE ~removed[h]
    <3>1. UNCHANGED removals /\ \A g \in Handler : removed'[g] <=> removed[g]
      BY <1>13, <2>2 DEF DelReply, TypeOK
    <3>2. Removed(id)' <=> Removed(id)
      BY <1>13, <2>2, <3>1 DEF DelReply, Removed, TypeOK
    <3> QED
      BY <2>1, <3>2 DEF Holds, HoldInv
  <2>3. CASE removed[h]
    <3> DEFINE m == Len(removals) + 1
    <3>1. /\ DOMAIN removals' = DOMAIN removals \cup {m}
          /\ removals'[m] = index[h]
          /\ \A k \in DOMAIN removals : removals'[k] = removals[k]
      BY <1>13, <2>3 DEF DelReply, TypeOK
    <3> HIDE DEF m
    <3>2. \A g \in Handler : removed'[g] <=> (g # h /\ removed[g])
      BY <1>13 DEF DelReply, TypeOK
    <3>3. \A g \in Handler : g # h => index'[g] = index[g]
      BY <1>13 DEF DelReply, TypeOK
    <3>4. Removed(id)' <=> Removed(id)
      BY <2>3, <3>1, <3>2, <3>3 DEF Removed
    <3> QED
      BY <2>1, <3>4 DEF Holds, HoldInv
  <2> QED
    BY <2>2, <2>3
<1>14. CASE UNCHANGED vars
  BY <1>14 DEF vars, HoldInv, Holds, Told, Inserted, Removed
<1> QED
  BY <1>2, <1>3, <1>4, <1>5, <1>6, <1>7, <1>8, <1>9, <1>10, <1>11, <1>12, <1>13, <1>14 DEF Next, Serve

LEMMA HistoryInvAlways == Spec => [](TypeOK /\ RemovalInv /\ GrantInv /\ HoldInv)
<1>1. Init => RemovalInv /\ GrantInv /\ HoldInv
  BY DEF Init, RemovalInv, Removed, RemovedOnce, GrantInv, DistinctIds, Inserted, HoldInv, Told
<1>2. RegInv => TypeOK
  BY DEF RegInv
<1> QED
  BY <1>1, <1>2, RegInvAlways, NextRemovalInv, NextGrantInv, NextHoldInv, PTL DEF Spec

\* No two eth_newFilter requests, however they interleave, get the same id.
THEOREM IdsDistinct == Spec => []DistinctIds
<1>1. GrantInv => DistinctIds
  BY DEF GrantInv
<1> QED
  BY <1>1, HistoryInvAlways, PTL

\* No id is reported removed twice.
THEOREM RemovalOnce == Spec => []RemovedOnce
<1>1. RemovalInv => RemovedOnce
  BY DEF RemovalInv
<1> QED
  BY <1>1, HistoryInvAlways, PTL

\* A client's filter is kept, unchanged, until its id is removed, and is gone
\* from then on.
THEOREM GrantKept == Spec => []GrantedStaysInstalled
<1>1. TypeOK /\ HoldInv => GrantedStaysInstalled
  <2> SUFFICES ASSUME TypeOK, HoldInv, NEW n \in DOMAIN granted
               PROVE  Holds(granted[n].id, granted[n].filter)
    BY DEF GrantedStaysInstalled, Holds
  <2>0. granted \in Seq([id : Nat, filter : Args]) /\ n \in 1 .. Len(granted)
    BY DEF TypeOK
  <2>1. granted[n].id \in Nat /\ granted[n].filter \in Args
    <3>1. granted[n] \in [id : Nat, filter : Args]
      BY <2>0, ElementOfSeq
    <3> QED
      BY <3>1
  <2>2. Told(granted[n].id, granted[n].filter)
    BY DEF Told
  <2> QED
    BY <2>1, <2>2 DEF HoldInv
<1> QED
  BY <1>1, HistoryInvAlways, PTL
=============================================================================
