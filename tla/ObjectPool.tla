----------------------------- MODULE ObjectPool -----------------------------
(***************************************************************************)
(* lib/object-pool: a stack of reusable objects that discards what a whole *)
(* maintenance window did not need.                                        *)
(*                                                                         *)
(* Which objects the stack holds decides nothing, so the vector is its     *)
(* length.  The pool moves the objects it is given: that no two owners     *)
(* have one of them is the language's promise and not modelled.            *)
(***************************************************************************)
EXTENDS Integers

CONSTANT MaxAvailable  \* bound on the objects returned, none in the code

ASSUME PoolAssumption == MaxAvailable \in Nat

VARIABLES
  available,      \* the length of the pool's vector
  min_available,
  low             \* history: the fewest objects available in this window

vars == <<available, min_available, low>>

Smaller(a, b) == IF a < b THEN a ELSE b

Init == available = 0 /\ min_available = 0 /\ low = 0

\* Variant: the minimum is taken before the checkout.
mut_try_take ==
  /\ available' = IF available = 0 THEN 0 ELSE available - 1
  /\ min_available' = Smaller(min_available, available)

(* try_take, and take_or_else, which creates its object outside the pool   *)
(* when it is empty.                                                       *)
try_take ==
  /\ available' = IF available = 0 THEN 0 ELSE available - 1
  /\ min_available' = Smaller(min_available, available')

(* An object comes back, or a new one is contributed. *)
put ==
  /\ available < MaxAvailable
  /\ available' = available + 1
  /\ UNCHANGED min_available

(* Vec::truncate shortens the vector before it drops the tail, so a        *)
(* destructor that panics changes nothing here.                            *)
reclaim_unused ==
  LET retain == available - min_available IN
  /\ min_available' = retain
  /\ available' = retain

(* The owner's own observation: the fewest objects it saw in this window. *)
Observe == low' = Smaller(low, available')
NewWindow == low' = available'

Next == \/ try_take /\ Observe
        \/ put /\ Observe
        \/ reclaim_unused /\ NewWindow

Spec == Init /\ [][Next]_vars

-----------------------------------------------------------------------------
(* The counter is the fewest objects that were available at any moment of  *)
(* the window, dips between two maintenance calls included.  So a reclaim  *)
(* never subtracts more than the pool holds, and drops exactly as many     *)
(* objects as no checkout of the whole window would have missed.           *)
SurplusIsUnused == min_available = low /\ min_available \in 0..available
=============================================================================
