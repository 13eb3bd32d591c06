----------------------------- MODULE SerialEvm -----------------------------
(***************************************************************************)
(* What clients of the channel may rely on: a world of contracts in which  *)
(* transactions take effect one after another, each at most once and each  *)
(* as if it had been executed right then.                                 *)
(***************************************************************************)
EXTENDS EvmRequest

VARIABLES
  world,     \* live: the contracts that exist; words: their slots
  asked,     \* by id, the request it stands for
  applied    \* ids that have taken effect

vars == <<world, asked, applied>>

Init ==
  /\ world = Genesis
  /\ asked = [id \in Id |-> NoRequest]
  /\ applied = {}

Ask(id, q) ==
  /\ asked[id] = NoRequest
  /\ asked' = [asked EXCEPT ![id] = q]
  /\ UNCHANGED <<world, applied>>

Apply(id) ==
  /\ asked[id] # NoRequest /\ id \notin applied
  /\ Succeeds(asked[id], id, world)
  /\ world' = After(asked[id], id, world)
  /\ applied' = applied \cup {id}
  /\ UNCHANGED asked

Next ==
  \/ \E id \in Id, q \in Request : Ask(id, q)
  \/ \E id \in Id : Apply(id)

Spec == Init /\ [][Next]_vars
=============================================================================
