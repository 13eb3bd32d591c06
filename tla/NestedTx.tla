------------------------------ MODULE NestedTx ------------------------------
(***************************************************************************)
(* What an EVM transaction promises: nested transactions on a world of     *)
(* contract accounts.  Each call works on its own copy of its caller's      *)
(* world.  A call that succeeds makes its copy the caller's; one that has   *)
(* failed is forgotten; and the outermost copy is committed as a whole, if  *)
(* the outermost call has returned, or not at all.                         *)
(***************************************************************************)
EXTENDS Naturals, Sequences

CONSTANTS Address, EmptyAccount, Code

VARIABLES
  committed,   \* the world as committed: by address, an account
  stack        \* the calls in progress, outermost first: the account each works
               \* for, whether it makes that account, how it stands, its world

vars == <<committed, stack>>

n == Len(stack)
Top == stack[n]

\* Two worlds differ in account a only, and not at all.
Only(w1, w2, a) == \A b \in Address : b # a => w2[b] = w1[b]
Same(w1, w2) == \A b \in Address : w2[b] = w1[b]
Makes(w1, w2, a) == Only(w1, w2, a) /\ w1[a] = EmptyAccount /\ w2[a] # EmptyAccount

\* The first m calls are as they were.
Kept(m) == \A i \in 1 .. m : stack'[i] = stack[i]

\* c and d are one call, whose world may change.
SameCall(c, d) == d.callee = c.callee /\ d.create = c.create

Init ==
  /\ committed = [a \in Address |-> EmptyAccount]
  /\ stack = <<>>

\* A call of an account, made for the purpose or as it is; one without code
\* returns at once.
Begin ==
  /\ stack = <<>>
  /\ Len(stack') = 1
  /\ LET c == stack'[1] IN
     /\ ~c.create
     /\ \/ c.status = "running" /\ Makes(committed, c.world, c.callee)
        \/ c.status \in {"running", "returned"} /\ Same(committed, c.world)
  /\ UNCHANGED committed

\* The innermost call changes its own account, and may fail; the outermost may
\* return.
Work ==
  /\ n > 0 /\ Top.status = "running"
  /\ Len(stack') = n
  /\ Kept(n - 1)
  /\ SameCall(Top, stack'[n])
  /\ stack'[n].status \in {"running", "failed"} \cup (IF n = 1 THEN {"returned"} ELSE {})
  /\ Only(Top.world, stack'[n].world, Top.callee)
  /\ UNCHANGED committed

\* A call starts from its caller's world; a creation makes its account in it, or
\* has failed before it starts.
Call ==
  /\ n > 0 /\ Top.status = "running"
  /\ Len(stack') = n + 1
  /\ Kept(n)
  /\ LET c == stack'[n + 1] IN
     \/ ~c.create /\ c.status = "running" /\ Same(Top.world, c.world)
     \/ c.create /\ c.status = "running" /\ Makes(Top.world, c.world, c.callee)
     \/ c.create /\ c.status = "failed" /\ Same(Top.world, c.world)
  /\ UNCHANGED committed

\* What call c leaves: its world, with the new account's code if it makes one,
\* without its account if it destroyed itself.
Leaves(c, w) ==
  /\ Only(c.world, w, c.callee)
  /\ \/ ~c.create /\ w[c.callee] \in {c.world[c.callee], EmptyAccount}
     \/ /\ c.create /\ c.world[c.callee] # EmptyAccount
        /\ \E x \in Code : w[c.callee] = [c.world[c.callee] EXCEPT !.acct.code = x]

\* A call that has not failed ends: its caller goes on with what it leaves.
Succeed ==
  /\ n > 1 /\ Top.status = "running"
  /\ Len(stack') = n - 1
  /\ Kept(n - 2)
  /\ SameCall(stack[n - 1], stack'[n - 1])
  /\ stack'[n - 1].status = stack[n - 1].status
  /\ Leaves(Top, stack'[n - 1].world)
  /\ UNCHANGED committed

\* It may not be able to: a creation that has lost its account, a caller that
\* has lost an account the call uses.  Then the caller has failed.
FailCaller ==
  /\ n > 1 /\ Top.status = "running"
  /\ Top.create \/ \E a \in Address : stack[n - 1].world[a] = EmptyAccount
  /\ Len(stack') = n - 1
  /\ Kept(n - 2)
  /\ SameCall(stack[n - 1], stack'[n - 1])
  /\ stack'[n - 1].status = "failed"
  /\ Same(stack[n - 1].world, stack'[n - 1].world)
  /\ UNCHANGED committed

\* A failed call leaves no trace.
Failing ==
  /\ n > 1 /\ Top.status = "failed"
  /\ stack' = SubSeq(stack, 1, n - 1)
  /\ UNCHANGED committed

Commit ==
  /\ n = 1 /\ Top.status = "returned"
  /\ committed' = Top.world
  /\ stack' = <<>>

Abort ==
  /\ n = 1 /\ Top.status # "running"
  /\ stack' = <<>>
  /\ UNCHANGED committed

Next == Begin \/ Work \/ Call \/ Succeed \/ FailCaller \/ Failing \/ Commit \/ Abort

Spec == Init /\ [][Next]_vars
=============================================================================
