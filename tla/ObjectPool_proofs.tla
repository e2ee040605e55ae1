-------------------------- MODULE ObjectPool_proofs --------------------------
(* Proofs about ObjectPool, for any bound on the objects returned. *)
EXTENDS ObjectPool, TLAPS

(* The reclaim's subtraction needs the counter to be at most the pool's    *)
(* length, and that in turn that every decrease lowers the counter.        *)
IInv == available \in Nat /\ low \in Nat /\ SurplusIsUnused

LEMMA InitEstablishes == Init => IInv
  BY DEF Init, IInv, SurplusIsUnused

(* A checkout is seen by the counter and by the owner at the same length. *)
LEMMA TakePreserves == ASSUME IInv, try_take, Observe PROVE IInv'
  BY DEF IInv, SurplusIsUnused, try_take, Observe, Smaller

(* A return raises the length and leaves the window's low point. *)
LEMMA PutPreserves == ASSUME IInv, put, Observe PROVE IInv'
  BY DEF IInv, SurplusIsUnused, put, Observe, Smaller

(* What is retained is there, and is the low point of the next window. *)
LEMMA ReclaimPreserves == ASSUME IInv, reclaim_unused, NewWindow PROVE IInv'
  BY DEF IInv, SurplusIsUnused, reclaim_unused, NewWindow

(* reclaim_unused never subtracts more than the pool holds and drops just  *)
(* as many objects as the whole window could have done without, for any    *)
(* sequence of checkouts, returns and maintenance calls.                   *)
THEOREM SurplusUnused == Spec => []SurplusIsUnused
<1>1. IInv /\ [Next]_vars => IInv'
  <2> SUFFICES ASSUME IInv, [Next]_vars PROVE IInv'
    OBVIOUS
  <2>1. CASE try_take /\ Observe
    BY <2>1, TakePreserves
  <2>2. CASE put /\ Observe
    BY <2>2, PutPreserves
  <2>3. CASE reclaim_unused /\ NewWindow
    BY <2>3, ReclaimPreserves
  <2>4. CASE UNCHANGED vars
    BY <2>4 DEF vars, IInv, SurplusIsUnused
  <2> QED BY <2>1, <2>2, <2>3, <2>4 DEF Next
<1>2. IInv => SurplusIsUnused
  BY DEF IInv
<1> QED BY InitEstablishes, <1>1, <1>2, PTL DEF Spec
=============================================================================
