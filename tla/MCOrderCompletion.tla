-------------------------- MODULE MCOrderCompletion --------------------------
(* OrderCompletion with the carts TLC uses: every order wants one ring.     *)
EXTENDS OrderCompletion, TLC

CONSTANT RingQty   \* rings in stock before the first order

MCRows == {"ring"}
MCCart == [o \in Orders |-> <<[row |-> "ring", qty |-> 1]>>]
MCInitialQty == [r \in MCRows |-> RingQty]

ProcSymmetry == Permutations(Procs)
=============================================================================
