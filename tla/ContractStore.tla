--------------------------- MODULE ContractStore ---------------------------
(***************************************************************************)
(* What the state manager promises the EVM: a store of contract accounts   *)
(* and of their storage slots that changes only by whole transactions.     *)
(* accts and slots are committed; viewAccts and viewSlots are what the      *)
(* open transaction will leave behind if it commits.  A slot that was       *)
(* never set, and a slot set to zero, are the same thing.  done is the      *)
(* update the store has just acknowledged: an acknowledged update is in     *)
(* the view, and a call that was refused has changed nothing.              *)
(***************************************************************************)
CONSTANTS Address, Key, Word, Acct, Zero, Absent, NoKey

VARIABLES accts, slots, viewAccts, viewSlots, done

vars == <<accts, slots, viewAccts, viewSlots, done>>

Update(a, k, v) == [addr |-> a, key |-> k, val |-> v]
NoUpdate == [addr |-> NoKey, key |-> NoKey, val |-> NoKey]

Init ==
  /\ accts = [a \in Address |-> Absent]
  /\ slots = [a \in Address |-> [k \in Key |-> Zero]]
  /\ viewAccts = accts
  /\ viewSlots = slots
  /\ done = NoUpdate

\* Replace or remove (acc = Absent) the record of one account; its slots stay.
SetAcct(a, acc) ==
  /\ viewAccts' = [viewAccts EXCEPT ![a] = acc]
  /\ done' = Update(a, NoKey, acc)
  /\ UNCHANGED <<accts, slots, viewSlots>>

SetSlot(a, k, v) ==
  /\ viewSlots' = [viewSlots EXCEPT ![a] = [@ EXCEPT ![k] = v]]
  /\ done' = Update(a, k, v)
  /\ UNCHANGED <<accts, slots, viewAccts>>

Commit ==
  /\ accts' = viewAccts
  /\ slots' = viewSlots
  /\ UNCHANGED <<viewAccts, viewSlots, done>>

Discard ==
  /\ viewAccts' = accts
  /\ viewSlots' = slots
  /\ UNCHANGED <<accts, slots, done>>

\* A read, a refused call or the start of a transaction.
Other ==
  /\ done' = NoUpdate
  /\ UNCHANGED <<accts, slots, viewAccts, viewSlots>>

Next ==
  \/ \E a \in Address, acc \in Acct \cup {Absent} : SetAcct(a, acc)
  \/ \E a \in Address, k \in Key, v \in Word \cup {Zero} : SetSlot(a, k, v)
  \/ Commit
  \/ Discard
  \/ Other

Spec == Init /\ [][Next]_vars
=============================================================================
