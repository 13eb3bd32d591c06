--------------------------- MODULE FilterRegistry ---------------------------
(***************************************************************************)
(* eth_newFilter and eth_uninstallFilter of fab3's ethService.  net/http   *)
(* runs every request in a goroutine of its own; here a Handler serves one *)
(* request after another.  Accesses to filterSeq and filterMap are single  *)
(* steps, so that what filterMapLock is for can be seen.                   *)
(***************************************************************************)
EXTENDS Naturals, Sequences

CONSTANTS
  Handler,   \* goroutines serving requests
  Args,      \* filter arguments (types.GetLogsArgs)
  MaxSeq,    \* bound on the NewFilter requests of one run (the code's is 2^64)
  MaxId,     \* bound on the ids clients ask to uninstall
  Free, None, Bad

ASSUME FilterConstants ==
  /\ MaxSeq \in Nat /\ MaxId \in Nat
  /\ Free \notin Handler
  /\ None \notin Args
  /\ Bad \notin Nat

VARIABLES
  filterMapLock,  \* the handler that holds the mutex, or Free
  filterSeq,
  filterMap,
  pc,             \* what each handler does next
  arg,            \* its request: a filter, or an id string
  index,          \* the local variable index of NewFilter, id of UninstallFilter
  removed,        \* UninstallFilter's result
  granted,        \* history: the ids NewFilter has answered with, and for which filter
  removals,       \* history: the ids UninstallFilter has reported removed
  accepted        \* history: how many NewFilter requests have come in

vars == <<filterMapLock, filterSeq, filterMap, pc, arg, index, removed, granted, removals, accepted>>
history == <<granted, removals, accepted>>

----------------------------------------------------------------------------
(* Ids as clients see them: an optional 0x and digits.                     *)

FormatUint(n) == <<"0x", n>>
strip0x(s) == <<"", s[2]>>
ParseUint(s) == IF s[1] = "" THEN s[2] ELSE Bad   \* a number, or Bad
IdStrings == {"0x", ""} \X ((0 .. MaxId) \cup {Bad})

----------------------------------------------------------------------------

Init ==
  /\ filterMapLock = Free
  /\ filterSeq = 0
  /\ filterMap = [i \in {} |-> i]
  /\ pc = [h \in Handler |-> "idle"]
  /\ arg = [h \in Handler |-> None]
  /\ index = [h \in Handler |-> 0]
  /\ removed = [h \in Handler |-> FALSE]
  /\ granted = <<>>
  /\ removals = <<>>
  /\ accepted = 0

Goto(h, from, to) == pc[h] = from /\ pc' = [pc EXCEPT ![h] = to]

\* Faulty: a mutex that does not exclude.
LockAlways(h) == filterMapLock' = h

Lock(h) == filterMapLock = Free /\ filterMapLock' = h
Unlock(h) == filterMapLock' = Free

(* NewFilter *)

AcceptNew(h, f) ==
  /\ accepted < MaxSeq
  /\ Goto(h, "idle", "newLock")
  /\ arg' = [arg EXCEPT ![h] = f]
  /\ accepted' = accepted + 1
  /\ UNCHANGED <<filterMapLock, filterSeq, filterMap, index, removed, granted, removals>>

NewLock(h) ==
  /\ Goto(h, "newLock", "newIncr")
  /\ Lock(h)
  /\ UNCHANGED <<filterSeq, filterMap, arg, index, removed, history>>

NewIncr(h) ==
  /\ Goto(h, "newIncr", "newIndex")
  /\ filterSeq' = filterSeq + 1
  /\ UNCHANGED <<filterMapLock, filterMap, arg, index, removed, history>>

NewIndex(h) ==
  /\ Goto(h, "newIndex", "newInsert")
  /\ index' = [index EXCEPT ![h] = filterSeq]
  /\ UNCHANGED <<filterMapLock, filterSeq, filterMap, arg, removed, history>>

NewInsert(h) ==
  /\ Goto(h, "newInsert", "newUnlock")
  /\ filterMap' = [i \in DOMAIN filterMap \cup {index[h]} |->
                     IF i = index[h] THEN arg[h] ELSE filterMap[i]]
  /\ UNCHANGED <<filterMapLock, filterSeq, arg, index, removed, history>>

NewUnlock(h) ==
  /\ Goto(h, "newUnlock", "newReply")
  /\ Unlock(h)
  /\ UNCHANGED <<filterSeq, filterMap, arg, index, removed, history>>

\* Faulty: the result taken from the counter instead of the local index.
NewReplyCounter(h) ==
  /\ Goto(h, "newReply", "idle")
  /\ granted' = Append(granted, [id |-> filterSeq, filter |-> arg[h]])
  /\ arg' = [arg EXCEPT ![h] = None]
  /\ index' = [index EXCEPT ![h] = 0]
  /\ UNCHANGED <<filterMapLock, filterSeq, filterMap, removed, removals, accepted>>

\* The result is formatted after the unlock, from the local index.
NewReply(h) ==
  LET id == ParseUint(strip0x(FormatUint(index[h]))) IN   \* as the client reads it
  /\ Goto(h, "newReply", "idle")
  /\ granted' = Append(granted, [id |-> id, filter |-> arg[h]])
  /\ arg' = [arg EXCEPT ![h] = None]
  /\ index' = [index EXCEPT ![h] = 0]
  /\ UNCHANGED <<filterMapLock, filterSeq, filterMap, removed, removals, accepted>>

(* UninstallFilter *)

AcceptUninstall(h, s) ==
  /\ Goto(h, "idle", "delParse")
  /\ arg' = [arg EXCEPT ![h] = s]
  /\ UNCHANGED <<filterMapLock, filterSeq, filterMap, index, removed, history>>

\* Faulty: an id that does not parse is looked up all the same.
DelParseUnchecked(h) ==
  /\ Goto(h, "delParse", "delLock")
  /\ arg' = [arg EXCEPT ![h] = None]
  /\ index' = [index EXCEPT ![h] = ParseUint(strip0x(arg[h]))]
  /\ UNCHANGED <<filterMapLock, filterSeq, filterMap, removed, history>>

\* The id is parsed before the lock is taken; an id that does not parse is an
\* error reply and touches nothing.
DelParse(h) ==
  LET id == ParseUint(strip0x(arg[h])) IN
  /\ Goto(h, "delParse", IF id = Bad THEN "idle" ELSE "delLock")
  /\ arg' = [arg EXCEPT ![h] = None]
  /\ index' = [index EXCEPT ![h] = IF id = Bad THEN 0 ELSE id]
  /\ UNCHANGED <<filterMapLock, filterSeq, filterMap, removed, history>>

DelLock(h) ==
  /\ Goto(h, "delLock", "delLookup")
  /\ Lock(h)
  /\ UNCHANGED <<filterSeq, filterMap, arg, index, removed, history>>

\* Faulty: a return between Lock and Unlock without the deferred unlock.
DelLookupLeaky(h) ==
  /\ Goto(h, "delLookup", IF index[h] \in DOMAIN filterMap THEN "delDelete" ELSE "delReply")
  /\ UNCHANGED <<filterMapLock, filterSeq, filterMap, arg, index, removed, history>>

DelLookup(h) ==
  /\ Goto(h, "delLookup", IF index[h] \in DOMAIN filterMap THEN "delDelete" ELSE "delUnlock")
  /\ UNCHANGED <<filterMapLock, filterSeq, filterMap, arg, index, removed, history>>

DelDelete(h) ==
  /\ Goto(h, "delDelete", "delUnlock")
  /\ filterMap' = [i \in DOMAIN filterMap \ {index[h]} |-> filterMap[i]]
  /\ removed' = [removed EXCEPT ![h] = TRUE]
  /\ UNCHANGED <<filterMapLock, filterSeq, arg, index, history>>

DelUnlock(h) ==
  /\ Goto(h, "delUnlock", "delReply")
  /\ Unlock(h)
  /\ UNCHANGED <<filterSeq, filterMap, arg, index, removed, history>>

DelReply(h) ==
  /\ Goto(h, "delReply", "idle")
  /\ removals' = IF removed[h] THEN Append(removals, index[h]) ELSE removals
  /\ index' = [index EXCEPT ![h] = 0]
  /\ removed' = [removed EXCEPT ![h] = FALSE]
  /\ UNCHANGED <<filterMapLock, filterSeq, filterMap, arg, granted, accepted>>

----------------------------------------------------------------------------

Serve(h) ==
  \/ NewLock(h) \/ NewIncr(h) \/ NewIndex(h) \/ NewInsert(h) \/ NewUnlock(h) \/ NewReply(h)
  \/ DelParse(h) \/ DelLock(h) \/ DelLookup(h) \/ DelDelete(h) \/ DelUnlock(h) \/ DelReply(h)

Next ==
  \E h \in Handler :
    \/ \E f \in Args : AcceptNew(h, f)
    \/ \E s \in IdStrings : AcceptUninstall(h, s)
    \/ Serve(h)

\* A handler runs on, and sync.Mutex (which turns to first-in-first-out
\* hand-over once a waiter has waited for a millisecond) starves no waiter.
Fairness == \A h \in Handler : WF_vars(Serve(h)) /\ SF_vars(NewLock(h)) /\ SF_vars(DelLock(h))

Spec == Init /\ [][Next]_vars
FairSpec == Spec /\ Fairness

----------------------------------------------------------------------------
(* Properties.                                                             *)

NewPCs == {"newLock", "newIncr", "newIndex", "newInsert", "newUnlock", "newReply"}
DelPCs == {"delParse", "delLock", "delLookup", "delDelete", "delUnlock", "delReply"}
LockedPCs == {"newIncr", "newIndex", "newInsert", "newUnlock", "delLookup", "delDelete", "delUnlock"}

\* Types of the service's fields, the handlers' locals and the history.
TypeOK ==
  /\ filterMapLock \in Handler \cup {Free}
  /\ filterSeq \in Nat
  /\ DOMAIN filterMap \subseteq Nat
  /\ \A i \in DOMAIN filterMap : filterMap[i] \in Args
  /\ pc \in [Handler -> {"idle"} \cup NewPCs \cup DelPCs]
  /\ arg \in [Handler -> Args \cup IdStrings \cup {None}]
  /\ index \in [Handler -> Nat]
  /\ removed \in [Handler -> BOOLEAN]
  /\ granted \in Seq([id : Nat, filter : Args])
  /\ removals \in Seq(Nat)
  /\ accepted \in 0 .. MaxSeq

\* No two eth_newFilter requests are answered with the same id.
DistinctIds ==
  \A m, n \in DOMAIN granted : m # n => granted[m].id # granted[n].id

\* An id is reported removed to one eth_uninstallFilter request at most.
RemovedOnce ==
  \A m, n \in DOMAIN removals : m # n => removals[m] # removals[n]

\* id is reported removed, or about to be.
Removed(id) ==
  \/ \E n \in DOMAIN removals : removals[n] = id
  \/ \E h \in Handler : removed[h] /\ index[h] = id

\* A client's filter stays registered under the id it was told, with the
\* client's own arguments, until some request has removed that id; it is gone
\* from then on.
GrantedStaysInstalled ==
  \A n \in DOMAIN granted :
    LET id == granted[n].id IN
    IF Removed(id) THEN id \notin DOMAIN filterMap
    ELSE id \in DOMAIN filterMap /\ filterMap[id] = granted[n].filter

\* Every request is answered.
EveryRequestAnswered == \A h \in Handler : pc[h] # "idle" ~> pc[h] = "idle"

----------------------------------------------------------------------------
(* The registry implements FilterStore: NewInsert is the step at which a   *)
(* filter comes to exist, DelDelete the one at which it ceases to.         *)

\* An id taken from the counter whose filter is not in the map yet.
Pending == \E h \in Handler : pc[h] \in {"newIndex", "newInsert"}

Store == INSTANCE FilterStore WITH
  used <- IF Pending THEN filterSeq - 1 ELSE filterSeq,
  installed <- filterMap

\* Concurrent requests take effect one at a time, as in FilterStore.
ImplementsFilterStore == Store!Spec
=============================================================================
