---------------------------- MODULE MCFabricEvm ----------------------------
(* A model-checking instance of FabricEvm.                                 *)
EXTENDS FabricEvm

CONSTANTS a, b, n1, n2, n3, s, t

MCNewContract == [i \in Id |-> <<n1, n2, n3>>[i]]
MCGenesis ==
  [live  |-> {a, b},
   words |-> [x \in Contract \X Slot |-> IF x = <<a, s>> THEN 1 ELSE 0]]

Req(to, rd, wr, heir) == [to |-> to, rd |-> rd, wr |-> wr, heir |-> heir, init |-> <<>>]

\* Moves a unit from a's slot s to b's: a calls b, and reverts when it has none.
Move == Req(a, {<<a, s>>, <<b, s>>}, {<<a, s>>, <<b, s>>}, NoHeir)
\* Loads one slot of a and stores another.
Note == Req(a, {<<a, s>>}, {<<a, t>>}, NoHeir)
\* a stores a word and removes itself.
Destroy == Req(a, {}, {<<a, t>>}, b)
\* Calls the contract the first transaction may deploy.
UseNew == Req(n1, {<<n1, s>>}, {<<n1, s>>}, NoHeir)
Deploy == [Req(ZeroAddress, {}, {}, NoHeir) EXCEPT !.init = [x \in {s} |-> 1]]

\* The first transaction's envelope may be accepted twice; the third may retry it.
MCAsks == <<{Move, Deploy}, {Note, Destroy, UseNew}, {Move}>>
MCMaxCopies == <<2, 1, 1>>
MCRequest == {Move, Note, Destroy, UseNew, Deploy}

MCStored(q, x, seen) ==
  CASE q = Move -> IF x[1] = a THEN seen[<<a, s>>] - 1 ELSE (seen[<<b, s>>] + 1) % 3
    [] q = Note -> seen[<<a, s>>]
    [] q = UseNew -> (seen[x] + 1) % 3
    [] OTHER -> 2
MCReverts(q, seen) == q = Move /\ seen[<<a, s>>] = 0
=============================================================================
