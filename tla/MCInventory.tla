---------------------------- MODULE MCInventory ----------------------------
(* Inventory with the carts TLC uses: one online order of two rows, other   *)
(* online orders that want its first row, and cash sales that want both.    *)
EXTENDS Inventory, TLC

Ring(n) == [row |-> "ring", qty |-> n]
Chain == [row |-> "chain", qty |-> 1]

MCCart == [o \in Orders |->
             IF o \in CodOrders THEN <<Chain, Ring(1)>>
             ELSE IF o = CHOOSE x \in Orders \ CodOrders : TRUE
             THEN <<Ring(2), Chain>> ELSE <<Ring(1)>>]
MCRows == {"ring", "chain"}
MCInitialQty == [r \in MCRows |-> IF r = "ring" THEN 2 ELSE 1]

ProcSymmetry == Permutations(Procs)

(* The first online order meets either the other online order or the cash   *)
(* sale; without the sale one call of each kind suffices.                   *)
Idle(o) == progress'[o] = "new"
MCNext ==
  /\ Next
  /\ \A o \in CodOrders : Idle(o) => \A x \in Orders : calls'[x] <= 1
  /\ \/ \A o \in CodOrders : Idle(o)
     \/ /\ \A o \in Orders \ CodOrders : MCCart[o] = <<Ring(1)>> => Idle(o)
        /\ crashes' = 0

MCSpec == Init /\ [][MCNext]_invVars
=============================================================================
