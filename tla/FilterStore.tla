---------------------------- MODULE FilterStore ----------------------------
(***************************************************************************)
(* What the filter methods promise their clients: a registry in which each *)
(* new filter gets an id never used before, and a filter that was removed   *)
(* is gone for good.  Each operation takes effect in one step.             *)
(***************************************************************************)
EXTENDS Naturals

CONSTANT Args

VARIABLES
  used,       \* how many ids have been given out: the ids are 1 .. used
  installed   \* the filters, by id

vars == <<used, installed>>

Init ==
  /\ used = 0
  /\ installed = [i \in {} |-> i]

Install(f) ==
  /\ used' = used + 1
  /\ installed' = [i \in DOMAIN installed \cup {used + 1} |->
                     IF i = used + 1 THEN f ELSE installed[i]]

Remove(id) ==
  /\ id \in DOMAIN installed
  /\ installed' = [i \in DOMAIN installed \ {id} |-> installed[i]]
  /\ UNCHANGED used

Next ==
  \/ \E f \in Args : Install(f)
  \/ \E id \in DOMAIN installed : Remove(id)

Spec == Init /\ [][Next]_vars
=============================================================================
