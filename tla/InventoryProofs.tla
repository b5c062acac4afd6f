--------------------------- MODULE InventoryProofs ---------------------------
(***************************************************************************)
(* Proofs about Inventory, for every set of orders, rows and processes and *)
(* every bound.                                                            *)
(***************************************************************************)
EXTENDS Inventory, SequenceTheorems, FiniteSetTheorems, TLAPS

-----------------------------------------------------------------------------
(* The inductive invariant. *)

Working == Labels \ {"idle", "ok", "failed"}
LineLabels == {"read", "lock", "check", "incr", "unlock", "unlock_short",
               "load", "claim", "take", "decr", "zap", "restock"}

\* A running method works on an order, and its line index is inside the cart.
InRange(p) ==
  /\ op[p].at \in Working => op[p].order \in Orders
  /\ op[p].at \in LineLabels =>
       op[p].i \in 1 .. op[p].n /\ op[p].n <= Len(Cart[op[p].order])

OpOK == op \in [Procs -> OpType] /\ \A p \in Procs : InRange(p)

-----------------------------------------------------------------------------
(* What the helpers that move a program counter preserve. *)

LEMMA CartLine ==
  ASSUME NEW o \in Orders, NEW i \in 1 .. Len(Cart[o])
  PROVE  Cart[o][i].row \in Rows /\ Cart[o][i].qty \in Nat \ {0}
<1>1. Cart[o] \in Seq([row : Rows, qty : Nat \ {0}])
  BY CartAssumption
<1>2. Cart[o][i] \in [row : Rows, qty : Nat \ {0}]
  BY <1>1, ElementOfSeq, Zenon
<1>3. QED
  BY <1>2

LEMMA CartLength ==
  ASSUME NEW o \in Orders
  PROVE  Len(Cart[o]) \in Nat \ {0}
  BY CartAssumption

LEMMA LineInCart ==
  ASSUME OpOK, NEW p \in Procs, op[p].at \in LineLabels
  PROVE  /\ op[p].order \in Orders
         /\ op[p].i \in 1 .. Len(Cart[op[p].order])
         /\ Line(p).row \in Rows
         /\ Line(p).qty \in Nat \ {0}
<1>1. op[p].order \in Orders
  BY DEF OpOK, InRange, LineLabels, Working, Labels
<1>2. op[p].i \in 1 .. Len(Cart[op[p].order])
  BY <1>1, CartLength DEF OpOK, OpType, InRange
<1>3. QED
  BY <1>1, <1>2, CartLine DEF Line

LEMMA CallOK ==
  ASSUME OpOK, NEW p \in Procs, NEW o \in Orders,
         NEW kind \in Kinds \ {"none"}, Call(p, kind, o)
  PROVE  OpOK'
<1>1. First(kind) \in Labels /\ First(kind) \in LineLabels
  BY DEF First, Kinds, Labels, LineLabels
<1>2. Len(Cart[o]) \in Nat /\ 1 \in 1 .. Len(Cart[o])
  BY CartLength
<1>3. op' \in [Procs -> OpType]
  BY <1>1, <1>2 DEF OpOK, OpType, Call, Kinds
<1>4. ASSUME NEW q \in Procs PROVE InRange(q)'
  <2>1. CASE q = p
    BY <2>1, <1>1, <1>2 DEF OpOK, InRange, Call
  <2>2. CASE q # p
    BY <2>2 DEF OpOK, InRange, Call
  <2>3. QED
    BY <2>1, <2>2
<1>5. QED
  BY <1>3, <1>4 DEF OpOK

LEMMA ReturnOK ==
  ASSUME OpOK, NEW p \in Procs, NEW outcome \in {"idle", "ok", "failed"},
         Return(p, outcome)
  PROVE  OpOK'
<1>1. op' \in [Procs -> OpType]
  BY DEF OpOK, OpType, Return, Ended, Kinds, Labels
<1>2. ASSUME NEW q \in Procs PROVE InRange(q)'
  <2>1. CASE q = p
    BY <2>1 DEF OpOK, InRange, Return, Ended, Working, LineLabels
  <2>2. CASE q # p
    BY <2>2 DEF OpOK, InRange, Return
  <2>3. QED
    BY <2>1, <2>2
<1>3. QED
  BY <1>1, <1>2 DEF OpOK

LEMMA GotoOK ==
  ASSUME OpOK, NEW p \in Procs, NEW label \in Working, Goto(p, label),
         op[p].at \in Working,
         label \in LineLabels => op[p].at \in LineLabels
  PROVE  OpOK'
<1>1. op' \in [Procs -> OpType]
  BY DEF OpOK, OpType, Goto, Working
<1>2. ASSUME NEW q \in Procs PROVE InRange(q)'
  <2>1. CASE q = p
    BY <2>1 DEF OpOK, OpType, InRange, Goto
  <2>2. CASE q # p
    BY <2>2 DEF OpOK, OpType, InRange, Goto
  <2>3. QED
    BY <2>1, <2>2
<1>3. QED
  BY <1>1, <1>2 DEF OpOK

LEMMA NextLineOK ==
  ASSUME OpOK, NEW p \in Procs, NEW label \in LineLabels, NEW past \in Working,
         NextLineOr(p, label, past), op[p].at \in LineLabels
  PROVE  OpOK'
<1>1. /\ op[p] \in OpType /\ op[p].i \in 1 .. op[p].n
      /\ op[p].n <= Len(Cart[op[p].order])
  BY DEF OpOK, InRange
<1>2. label \in Labels /\ past \in Labels /\ op[p].at \in Working
  BY DEF LineLabels, Working, Labels
<1>3. CASE op[p].i < op[p].n
  <2>1. op' = [op EXCEPT ![p].i = @ + 1, ![p].at = label]
    BY <1>3 DEF NextLineOr
  <2>. op[p].i + 1 \in Nat
    BY <1>1 DEF OpType
  <2>a. [op[p] EXCEPT !.i = op[p].i + 1, !.at = label] \in OpType
    BY <1>1, <1>2 DEF OpType
  <2>b. op' = [op EXCEPT ![p] = [op[p] EXCEPT !.i = op[p].i + 1, !.at = label]]
    BY <2>1 DEF OpOK
  <2>2. op' \in [Procs -> OpType]
    BY <2>a, <2>b DEF OpOK
  <2>3. ASSUME NEW q \in Procs PROVE InRange(q)'
    <3>1. CASE q = p
      BY <3>1, <2>1, <1>1, <1>2, <1>3 DEF OpOK, OpType, InRange
    <3>2. CASE q # p
      BY <3>2, <2>1 DEF OpOK, OpType, InRange
    <3>3. QED
      BY <3>1, <3>2
  <2>4. QED
    BY <2>2, <2>3 DEF OpOK
<1>4. CASE ~(op[p].i < op[p].n)
  <2>1. op' = [op EXCEPT ![p].i = 1, ![p].at = past]
    BY <1>4 DEF NextLineOr
  <2>a. [op[p] EXCEPT !.i = 1, !.at = past] \in OpType
    BY <1>1, <1>2 DEF OpType
  <2>b. op' = [op EXCEPT ![p] = [op[p] EXCEPT !.i = 1, !.at = past]]
    BY <2>1 DEF OpOK
  <2>. 1 \in 1 .. op[p].n /\ op[p].order \in Orders
    BY <1>1, <1>2 DEF OpOK, InRange, OpType
  <2>2. op' \in [Procs -> OpType]
    BY <2>a, <2>b DEF OpOK
  <2>3. ASSUME NEW q \in Procs PROVE InRange(q)'
    <3>1. CASE q = p
      BY <3>1, <2>1, <1>1, <1>2 DEF OpOK, OpType, InRange
    <3>2. CASE q # p
      BY <3>2, <2>1 DEF OpOK, OpType, InRange
    <3>3. QED
      BY <3>1, <3>2
  <2>4. QED
    BY <2>2, <2>3 DEF OpOK
<1>5. QED
  BY <1>3, <1>4

LEMMA UndoOK ==
  ASSUME OpOK, NEW p \in Procs, NEW n \in Nat, Undo(p, n),
         op[p].at \in Working, n <= Len(Cart[op[p].order])
  PROVE  OpOK'
<1>1. op' \in [Procs -> OpType]
  <2>. DEFINE at == IF n = 0 THEN "delkey" ELSE "decr"
  <2>1. [op[p] EXCEPT !.i = 1, !.n = n, !.at = at] \in OpType
    BY DEF OpOK, OpType, Labels
  <2>2. op' = [op EXCEPT ![p] = [op[p] EXCEPT !.i = 1, !.n = n, !.at = at]]
    BY DEF OpOK, Undo
  <2>3. QED
    BY <2>1, <2>2 DEF OpOK
<1>2. ASSUME NEW q \in Procs PROVE InRange(q)'
  <2>1. CASE q = p
    <3>1. CASE n = 0
      BY <2>1, <3>1 DEF OpOK, OpType, InRange, Undo, Working, LineLabels
    <3>2. CASE n # 0
      <4>1. 1 \in 1 .. n
        BY <3>2
      <4>2. op'[p] = [op[p] EXCEPT !.i = 1, !.n = n, !.at = "decr"]
        BY <3>2 DEF Undo, OpOK
      <4>3. op[p].order \in Orders
        BY DEF OpOK, InRange
      <4>4. QED
        BY <2>1, <4>1, <4>2, <4>3 DEF OpOK, OpType, InRange
    <3>3. QED
      BY <3>1, <3>2
  <2>2. CASE q # p
    BY <2>2 DEF OpOK, OpType, InRange, Undo
  <2>3. QED
    BY <2>1, <2>2
<1>3. QED
  BY <1>1, <1>2 DEF OpOK

-----------------------------------------------------------------------------
(* The inductive invariant and its preservation by one command. *)

\* The variables of the service keep their types.
DataOK ==
  /\ stock \in [Rows -> Nat]
  /\ pending \in [Rows -> Int]
  /\ lock \in [Rows -> BOOLEAN]
  /\ resKey \in [Orders -> BOOLEAN]
  /\ mirror \in [Orders -> MirrorStatus]
  /\ hold \in [Orders -> SUBSET Nat]
  /\ taken \in [Orders -> Int]

LEMMA StepKeepsOp ==
  ASSUME OpOK, DataOK, NEW p \in Procs, Step(p)
  PROVE  OpOK'
<1>. op[p] \in OpType /\ op[p].order \in Orders \cup {NoOrder}
  BY DEF OpOK, OpType
<1>1. ASSUME ReadEntry(p) PROVE OpOK'
  <2>. op[p].at \in LineLabels /\ op[p].at \in Working
    BY <1>1 DEF ReadEntry, At, LineLabels, Working, Labels
  <2>1. stock[Line(p).row] \in Nat
    BY LineInCart DEF DataOK
  <2>2. op' = [op EXCEPT ![p] = [op[p] EXCEPT !.seen = stock[Line(p).row],
                                              !.at = "lock"]]
    BY <1>1 DEF ReadEntry, OpOK
  <2>3. op' \in [Procs -> OpType]
    BY <2>1, <2>2 DEF OpOK, OpType, Labels
  <2>4. ASSUME NEW q \in Procs PROVE InRange(q)'
    <3>1. CASE q = p
      BY <3>1, <2>2 DEF OpOK, OpType, InRange
    <3>2. CASE q # p
      BY <3>2, <2>2 DEF OpOK, OpType, InRange
    <3>3. QED
      BY <3>1, <3>2
  <2>5. QED
    BY <2>3, <2>4 DEF OpOK
<1>2. ASSUME AcquireProductLock(p) PROVE OpOK'
  <2>1. op[p].at \in LineLabels /\ op[p].at \in Working
    BY <1>2 DEF AcquireProductLock, At, LineLabels, Working, Labels
  <2>2. CASE Goto(p, "check")
    BY <2>1, <2>2, GotoOK DEF Working, Labels
  <2>3. CASE Undo(p, op[p].i - 1)
    <3>1. op[p].i - 1 \in Nat /\ op[p].i - 1 <= Len(Cart[op[p].order])
      BY <2>1, LineInCart, CartLength
    <3>2. QED
      BY <2>1, <2>3, <3>1, UndoOK
  <2>4. QED
    BY <1>2, <2>2, <2>3 DEF AcquireProductLock
<1>3. ASSUME CheckPending(p) PROVE OpOK'
  BY <1>3, GotoOK DEF CheckPending, At, Working, Labels, LineLabels
<1>4. ASSUME IncrPending(p) PROVE OpOK'
  BY <1>4, GotoOK DEF IncrPending, At, Working, Labels, LineLabels
<1>5. ASSUME ReleaseProductLock(p) PROVE OpOK'
  <2>1. op[p].at \in LineLabels /\ op[p].at \in Working
    BY <1>5 DEF ReleaseProductLock, At, LineLabels, Working, Labels
  <2>2. CASE NextLineOr(p, "read", "setex")
    BY <2>1, <2>2, NextLineOK DEF LineLabels, Working, Labels
  <2>3. CASE Undo(p, op[p].i - 1)
    <3>1. op[p].i - 1 \in Nat /\ op[p].i - 1 <= Len(Cart[op[p].order])
      BY <2>1, LineInCart, CartLength
    <3>2. QED
      BY <2>1, <2>3, <3>1, UndoOK
  <2>4. QED
    BY <1>5, <2>2, <2>3 DEF ReleaseProductLock
<1>6. ASSUME WriteReservationKey(p) PROVE OpOK'
  BY <1>6, GotoOK DEF WriteReservationKey, At, Working, Labels, LineLabels
<1>7. ASSUME WriteMirror(p) PROVE OpOK'
  BY <1>7, ReturnOK DEF WriteMirror
<1>8. ASSUME WriteFails(p) PROVE OpOK'
  <2>1. op[p].at \in Working
    BY <1>8 DEF WriteFails, Working, Labels
  <2>2. op[p].order \in Orders
    BY <2>1 DEF OpOK, InRange
  <2>3. /\ Len(Cart[op[p].order]) \in Nat
        /\ Len(Cart[op[p].order]) <= Len(Cart[op[p].order])
    BY <2>2, CartLength
  <2>4. Undo(p, Len(Cart[op[p].order]))
    BY <1>8 DEF WriteFails
  <2>5. QED
    BY <2>1, <2>3, <2>4, UndoOK
<1>9. ASSUME DecrPending(p) PROVE OpOK'
  BY <1>9, GotoOK, NextLineOK
     DEF DecrPending, AfterLine, At, Working, Labels, LineLabels
<1>10. ASSUME DeletePending(p) PROVE OpOK'
  BY <1>10, NextLineOK
     DEF DeletePending, AfterLine, At, Working, Labels, LineLabels
<1>11. ASSUME LoadReservation(p) PROVE OpOK'
  <2>1. op[p].at \in LineLabels /\ op[p].at \in Working
    BY <1>11 DEF LoadReservation, At, LineLabels, Working, Labels
  <2>2. Work(p) \in LineLabels /\ Work(p) \in Labels
    BY DEF Work, LineLabels, Labels
  <2>3. CASE resKey[op[p].order]
    <3>1. op' = [op EXCEPT ![p] = [op[p] EXCEPT !.from = "redis",
                                                !.at = Work(p)]]
      BY <1>11, <2>3 DEF LoadReservation, OpOK
    <3>2. op' \in [Procs -> OpType]
      BY <3>1, <2>2 DEF OpOK, OpType
    <3>3. ASSUME NEW q \in Procs PROVE InRange(q)'
      <4>1. CASE q = p
        BY <4>1, <3>1, <2>1 DEF OpOK, OpType, InRange
      <4>2. CASE q # p
        BY <4>2, <3>1 DEF OpOK, OpType, InRange
      <4>3. QED
        BY <4>1, <4>2
    <3>4. QED
      BY <3>2, <3>3 DEF OpOK
  <2>4. CASE ~resKey[op[p].order]
    BY <1>11, <2>4, <2>1, GotoOK DEF LoadReservation, LineLabels, Working, Labels
  <2>5. QED
    BY <2>3, <2>4
<1>12. ASSUME ClaimMirror(p) PROVE OpOK'
  <2>1. op[p].at \in LineLabels /\ op[p].at \in Working
    BY <1>12 DEF ClaimMirror, At, LineLabels, Working, Labels
  <2>2. Work(p) \in LineLabels /\ Work(p) \in Labels
    BY DEF Work, LineLabels, Labels
  <2>3. CASE mirror[op[p].order] = "reserved"
    <3>1. op' = [op EXCEPT ![p] = [op[p] EXCEPT !.from = "mirror",
                                                !.at = Work(p)]]
      BY <1>12, <2>3 DEF ClaimMirror, OpOK
    <3>2. op' \in [Procs -> OpType]
      BY <3>1, <2>2 DEF OpOK, OpType
    <3>3. ASSUME NEW q \in Procs PROVE InRange(q)'
      <4>1. CASE q = p
        BY <4>1, <3>1, <2>1 DEF OpOK, OpType, InRange
      <4>2. CASE q # p
        BY <4>2, <3>1 DEF OpOK, OpType, InRange
      <4>3. QED
        BY <4>1, <4>2
    <3>4. QED
      BY <3>2, <3>3 DEF OpOK
  <2>4. CASE mirror[op[p].order] # "reserved"
    BY <1>12, <2>4, ReturnOK DEF ClaimMirror
  <2>5. QED
    BY <2>3, <2>4
<1>13. ASSUME TakeStock(p) PROVE OpOK'
  BY <1>13, ReturnOK, NextLineOK
     DEF TakeStock, AfterTaking, At, Working, Labels, LineLabels
<1>14. ASSUME DeleteReservationKey(p) PROVE OpOK'
  <2>1. op[p].from \in {"none", "redis", "mirror"} /\ op[p].at \in Working
    BY <1>14 DEF DeleteReservationKey, At, OpType, Working, Labels
  <2>2. \/ Goto(p, "resolve") \/ Return(p, "ok") \/ Return(p, "failed")
    BY <1>14, <2>1 DEF DeleteReservationKey
  <2>3. QED
    BY <2>1, <2>2, GotoOK, ReturnOK DEF Working, Labels, LineLabels
<1>15. ASSUME ResolveAfterwards(p) PROVE OpOK'
  BY <1>15, ReturnOK DEF ResolveAfterwards
<1>16. ASSUME Restock(p) PROVE OpOK'
  <2>1. op[p].at \in LineLabels /\ op[p].at \in Working
    BY <1>16 DEF Restock, At, LineLabels, Working, Labels
  <2>2. CASE op[p].i < op[p].n
    <3>1. op' = [op EXCEPT ![p].i = @ + 1, ![p].at = "restock"]
      BY <1>16, <2>2 DEF Restock, NextLineOr
    <3>2. NextLineOr(p, "restock", "restock")
      BY <3>1, <2>2 DEF NextLineOr
    <3>3. QED
      BY <3>2, <2>1, NextLineOK DEF LineLabels, Working, Labels
  <2>3. CASE ~(op[p].i < op[p].n)
    BY <1>16, <2>3, ReturnOK DEF Restock
  <2>4. QED
    BY <2>2, <2>3
<1>17. QED
  BY <1>1, <1>2, <1>3, <1>4, <1>5, <1>6, <1>7, <1>8, <1>9, <1>10, <1>11, <1>12,
     <1>13, <1>14, <1>15, <1>16 DEF Step

LEMMA StepKeepsData ==
  ASSUME OpOK, DataOK, NEW p \in Procs, Step(p)
  PROVE  DataOK'
<1>1. CASE UNCHANGED <<shared, history>>
  BY <1>1 DEF DataOK, shared, history
<1>2. ASSUME AcquireProductLock(p) PROVE DataOK'
  BY <1>2 DEF AcquireProductLock, DataOK, history
<1>3. ASSUME IncrPending(p) PROVE DataOK'
  <2>1. Line(p).qty \in Nat /\ Line(p).row \in Rows
    BY <1>3, LineInCart DEF IncrPending, At, LineLabels
  <2>2. pending' \in [Rows -> Int]
    BY <1>3, <2>1 DEF IncrPending, DataOK
  <2>3. hold' \in [Orders -> SUBSET Nat]
    BY <1>3 DEF IncrPending, DataOK, OpOK, OpType
  <2>4. QED
    BY <1>3, <2>2, <2>3 DEF IncrPending, DataOK
<1>4. ASSUME ReleaseProductLock(p) PROVE DataOK'
  BY <1>4 DEF ReleaseProductLock, DataOK, history
<1>5. ASSUME WriteReservationKey(p) PROVE DataOK'
  BY <1>5 DEF WriteReservationKey, DataOK, history
<1>6. ASSUME WriteMirror(p) PROVE DataOK'
  BY <1>6 DEF WriteMirror, DataOK, history, MirrorStatus
<1>7. ASSUME WriteFails(p) PROVE DataOK'
  BY <1>7 DEF WriteFails, DataOK, history, MirrorStatus
<1>8. ASSUME DecrPending(p) PROVE DataOK'
  <2>1. Line(p).qty \in Nat /\ Line(p).row \in Rows
    BY <1>8, LineInCart DEF DecrPending, At, LineLabels
  <2>2. pending' \in [Rows -> Int]
    BY <1>8, <2>1 DEF DecrPending, DataOK
  <2>3. hold' \in [Orders -> SUBSET Nat]
    BY <1>8 DEF DecrPending, DataOK
  <2>4. QED
    BY <1>8, <2>2, <2>3 DEF DecrPending, DataOK
<1>9. ASSUME DeletePending(p) PROVE DataOK'
  <2>1. pending' = [pending EXCEPT ![Line(p).row] = 0]
    BY <1>9 DEF DeletePending
  <2>. Line(p).row \in Rows /\ 0 \in Int
    BY <1>9, LineInCart DEF DeletePending, At, LineLabels
  <2>2. pending' \in [Rows -> Int]
    BY <2>1 DEF DataOK
  <2>3. QED
    BY <1>9, <2>2 DEF DeletePending, DataOK, history
<1>10. ASSUME ClaimMirror(p) PROVE DataOK'
  BY <1>10 DEF ClaimMirror, ResolveMirror, Resolution, DataOK, history,
               MirrorStatus
<1>11. ASSUME TakeStock(p) PROVE DataOK'
  <2>1. Line(p).qty \in Nat /\ Line(p).row \in Rows
    BY <1>11, LineInCart DEF TakeStock, At, LineLabels
  <2>2. stock' \in [Rows -> Nat]
    BY <1>11, <2>1 DEF TakeStock, Sufficient, DataOK
  <2>3. taken' \in [Orders -> Int]
    BY <1>11 DEF TakeStock, DataOK
  <2>4. QED
    BY <1>11, <2>2, <2>3 DEF TakeStock, DataOK
<1>12. ASSUME DeleteReservationKey(p) PROVE DataOK'
  BY <1>12 DEF DeleteReservationKey, DataOK, history
<1>13. ASSUME ResolveAfterwards(p) PROVE DataOK'
  BY <1>13 DEF ResolveAfterwards, ResolveMirror, Resolution, DataOK, history,
               MirrorStatus
<1>14. ASSUME Restock(p) PROVE DataOK'
  <2>1. Line(p).qty \in Nat /\ Line(p).row \in Rows
    BY <1>14, LineInCart DEF Restock, At, LineLabels
  <2>2. op[p].order \in Orders
    BY <1>14, LineInCart DEF Restock, At, LineLabels
  <2>3. stock' \in [Rows -> Nat]
    BY <1>14, <2>1 DEF Restock, DataOK
  <2>4. taken' \in [Orders -> Int]
    BY <1>14, <2>2 DEF Restock, DataOK
  <2>5. QED
    BY <1>14, <2>3, <2>4 DEF Restock, DataOK
<1>15. QED
  BY <1>1, <1>2, <1>3, <1>4, <1>5, <1>6, <1>7, <1>8, <1>9, <1>10, <1>11, <1>12,
     <1>13, <1>14 DEF Step, ReadEntry, CheckPending, LoadReservation

-----------------------------------------------------------------------------
(* TypeOK *)

EnvOK ==
  /\ age \in [Orders -> 0 .. 2]
  /\ progress \in [Orders -> Progress]
  /\ calls \in [Orders -> 0 .. MaxCalls]
  /\ crashes \in 0 .. MaxCrashes

TypeInv == OpOK /\ DataOK /\ EnvOK

LEMMA TypeInvImpliesTypeOK == TypeInv => TypeOK
  BY DEF TypeInv, OpOK, DataOK, EnvOK, TypeOK

LEMMA TypeInit == Init => TypeInv
<1>. SUFFICES ASSUME Init PROVE TypeInv
  OBVIOUS
<1>1. OpOK
  BY DEF Init, OpOK, OpType, InRange, Ended, Kinds, Labels, Working, LineLabels
<1>2. DataOK
  BY QtyAssumption DEF Init, DataOK, MirrorStatus
<1>3. EnvOK
  BY BoundAssumption DEF Init, EnvOK, Progress
<1>4. QED
  BY <1>1, <1>2, <1>3 DEF TypeInv

LEMMA TypeNext == TypeInv /\ [Next]_invVars => TypeInv'
<1>. SUFFICES ASSUME TypeInv, [Next]_invVars PROVE TypeInv'
  OBVIOUS
<1>. USE DEF TypeInv
<1>1. ASSUME NEW p \in Procs, MethodStep(p) PROVE TypeInv'
  <2>1. OpOK' /\ DataOK'
    BY <1>1, StepKeepsOp, StepKeepsData DEF MethodStep
  <2>2. EnvOK'
    BY <1>1 DEF MethodStep, Answer, EnvOK, Progress
  <2>3. QED
    BY <2>1, <2>2
<1>2. ASSUME NEW p \in Procs, Crash(p) PROVE TypeInv'
  <2>1. OpOK'
    BY <1>2, ReturnOK DEF Crash
  <2>2. crashes' \in 0 .. MaxCrashes
    BY <1>2, BoundAssumption DEF Crash, EnvOK
  <2>3. QED
    BY <1>2, <2>1, <2>2 DEF Crash, shared, history, DataOK, EnvOK
<1>3. ASSUME NEW p \in Procs, NEW o \in Orders, Begin(p, o) PROVE TypeInv'
  <2>1. OpOK'
    BY <1>3, CallOK DEF Begin, Kinds
  <2>2. QED
    BY <1>3, <2>1 DEF Begin, shared, history, DataOK, EnvOK, Progress
<1>4. ASSUME NEW p \in Procs, NEW o \in Orders, InsertFailed(p, o)
      PROVE  TypeInv'
  <2>1. OpOK'
    BY <1>4, CallOK DEF InsertFailed, Kinds
  <2>2. QED
    BY <1>4, <2>1 DEF InsertFailed, shared, history, DataOK, EnvOK, Progress
<1>5. ASSUME NEW p \in Procs, NEW o \in Orders,
             NEW kind \in {"commit", "release"}, Finish(p, o, kind)
      PROVE  TypeInv'
  <2>1. OpOK'
    BY <1>5, CallOK DEF Finish, Kinds
  <2>2. calls' \in [Orders -> 0 .. MaxCalls]
    BY <1>5, BoundAssumption DEF Finish, EnvOK
  <2>3. QED
    BY <1>5, <2>1, <2>2 DEF Finish, shared, history, DataOK, EnvOK
<1>6. ASSUME NEW p \in Procs, NEW o \in Orders, Sweep(p, o) PROVE TypeInv'
  <2>1. OpOK'
    BY <1>6, CallOK DEF Sweep, Kinds
  <2>2. QED
    BY <1>6, <2>1 DEF Sweep, shared, history, DataOK, EnvOK
<1>7. ASSUME NEW r \in Rows, LockExpires(r) PROVE TypeInv'
  BY <1>7 DEF LockExpires, history, OpOK, InRange, DataOK, EnvOK
<1>8. ASSUME NEW o \in Orders, Tick(o) PROVE TypeInv'
  <2>1. resKey' \in [Orders -> BOOLEAN]
    <3>1. resKey' = [resKey EXCEPT ![o] = resKey[o] /\ age[o] = 0]
      BY <1>8 DEF Tick
    <3>2. (resKey[o] /\ age[o] = 0) \in BOOLEAN
      OBVIOUS
    <3>3. QED
      BY <3>1, <3>2, Zenon DEF DataOK
  <2>2. age' \in [Orders -> 0 .. 2]
    BY <1>8 DEF Tick, EnvOK
  <2>3. QED
    BY <1>8, <2>1, <2>2 DEF Tick, history, OpOK, InRange, DataOK, EnvOK
<1>9. CASE UNCHANGED invVars
  BY <1>9 DEF invVars, OpOK, InRange, DataOK, EnvOK
<1>10. QED
  BY <1>1, <1>2, <1>3, <1>4, <1>5, <1>6, <1>7, <1>8, <1>9 DEF Next

\* No sequence of reservations, commits, releases, sweeps, direct sales, faults
\* and crashes leaves the types; stock never goes below zero.
THEOREM TypeCorrect == Spec => []TypeOK
<1>1. Init => TypeInv
  BY TypeInit
<1>2. TypeInv /\ [Next]_invVars => TypeInv'
  BY TypeNext
<1>3. TypeInv => TypeOK
  BY TypeInvImpliesTypeOK
<1>4. QED
  BY <1>1, <1>2, <1>3, PTL DEF Spec

-----------------------------------------------------------------------------
(* The lock of a row and the claim of the mirror. *)

\* What the helpers do to the record of the process and of the others.
Same(p) == /\ op'[p].kind = op[p].kind /\ op'[p].order = op[p].order
           /\ op'[p].from = op[p].from

LEMMA GotoMoves ==
  ASSUME op \in [Procs -> OpType], NEW p \in Procs, NEW label, Goto(p, label)
  PROVE  /\ op'[p].at = label /\ op'[p].i = op[p].i /\ Same(p)
         /\ \A q \in Procs : q # p => op'[q] = op[q]
  BY DEF Goto, Same, OpType

LEMMA ReturnMoves ==
  ASSUME op \in [Procs -> OpType], NEW p \in Procs, NEW outcome,
         Return(p, outcome)
  PROVE  /\ op'[p].at = outcome /\ op'[p].from = "none"
         /\ \A q \in Procs : q # p => op'[q] = op[q]
  BY DEF Return, Ended

LEMMA NextLineMoves ==
  ASSUME op \in [Procs -> OpType], NEW p \in Procs, NEW label, NEW past,
         NextLineOr(p, label, past)
  PROVE  /\ op'[p].at \in {label, past} /\ Same(p)
         /\ \A q \in Procs : q # p => op'[q] = op[q]
<1>1. CASE op' = [op EXCEPT ![p].i = @ + 1, ![p].at = label]
  BY <1>1 DEF Same, OpType
<1>2. CASE op' = [op EXCEPT ![p].i = 1, ![p].at = past]
  BY <1>2 DEF Same, OpType
<1>3. QED
  BY <1>1, <1>2 DEF NextLineOr

LEMMA UndoMoves ==
  ASSUME op \in [Procs -> OpType], NEW p \in Procs, NEW n, Undo(p, n)
  PROVE  /\ op'[p].at \in {"delkey", "decr"} /\ Same(p)
         /\ \A q \in Procs : q # p => op'[q] = op[q]
  BY DEF Undo, Same, OpType

LEMMA WorkMoves ==
  ASSUME op \in [Procs -> OpType], NEW p \in Procs, NEW x,
         op' = [op EXCEPT ![p].from = x, ![p].at = Work(p)]
  PROVE  /\ op'[p].at \in {"take", "decr"} /\ op'[p].from = x
         /\ op'[p].order = op[p].order
<1>1. Work(p) \in {"take", "decr"}
  BY DEF Work
<1>2. op'[p] = [op[p] EXCEPT !.from = x, !.at = Work(p)]
  OBVIOUS
<1>3. QED
  BY <1>1, <1>2 DEF OpType

LEMMA CallMoves ==
  ASSUME op \in [Procs -> OpType], NEW p \in Procs, NEW kind, NEW o,
         Call(p, kind, o)
  PROVE  /\ op'[p].at = First(kind) /\ op'[p].from = "none"
         /\ \A q \in Procs : q # p => op'[q] = op[q]
  BY DEF Call

LEMMA StepMovesOne ==
  ASSUME op \in [Procs -> OpType], NEW p \in Procs, Step(p)
  PROVE  \A q \in Procs : q # p => op'[q] = op[q]
<1>1. CASE \/ CheckPending(p) \/ IncrPending(p) \/ WriteReservationKey(p)
           \/ DeletePending(p) \/ DecrPending(p)
  BY <1>1, GotoMoves, NextLineMoves
     DEF CheckPending, IncrPending, WriteReservationKey, DeletePending,
         DecrPending, AfterLine
<1>2. CASE WriteMirror(p) \/ ResolveAfterwards(p)
  BY <1>2, ReturnMoves DEF WriteMirror, ResolveAfterwards
<1>3. CASE AcquireProductLock(p) \/ ReleaseProductLock(p) \/ WriteFails(p)
  BY <1>3, GotoMoves, UndoMoves, NextLineMoves
     DEF AcquireProductLock, ReleaseProductLock, WriteFails
<1>4. CASE ReadEntry(p)
  BY <1>4 DEF ReadEntry
<1>5. CASE LoadReservation(p)
  BY <1>5, GotoMoves DEF LoadReservation
<1>6. CASE ClaimMirror(p)
  BY <1>6, ReturnMoves DEF ClaimMirror
<1>7. CASE TakeStock(p) \/ Restock(p)
  BY <1>7, ReturnMoves, NextLineMoves DEF TakeStock, Restock, AfterTaking
<1>8. CASE DeleteReservationKey(p)
  <2>1. op[p].from \in {"none", "redis", "mirror"}
    BY DEF OpType
  <2>2. QED
    BY <1>8, <2>1, GotoMoves, ReturnMoves DEF DeleteReservationKey
<1>9. QED
  BY <1>1, <1>2, <1>3, <1>4, <1>5, <1>6, <1>7, <1>8 DEF Step

Holding == {"check", "incr", "unlock", "unlock_short"}

\* The lock key exists while its holder is between SET and DEL.
HolderHasLock ==
  ~SlowHolders => \A p \in Procs, r \in Rows : Holds(p, r) => lock[r]

LEMMA LockKept ==
  ASSUME TypeInv, HolderHasLock, LockExclusive, ~SlowHolders,
         NEW p \in Procs, Step(p)
  PROVE  HolderHasLock' /\ LockExclusive'
<1>. op \in [Procs -> OpType]
  BY DEF TypeInv, OpOK
<1>1. \A q \in Procs, r \in Rows : q # p => (Holds(q, r)' <=> Holds(q, r))
  BY StepMovesOne DEF Holds, Line
<1>2. CASE lock' = lock /\ op'[p].at \notin Holding
  <2>1. \A r \in Rows : ~Holds(p, r)'
    BY <1>2 DEF Holds, Holding
  <2>2. QED
    BY <1>1, <1>2, <2>1 DEF HolderHasLock, LockExclusive
<1>3. CASE /\ lock' = lock
           /\ op[p].at \in Holding
           /\ op'[p].order = op[p].order /\ op'[p].i = op[p].i
  <2>1. \A r \in Rows : Holds(p, r)' => Holds(p, r)
    BY <1>3 DEF Holds, Holding, Line
  <2>2. QED
    BY <1>1, <1>3, <2>1 DEF HolderHasLock, LockExclusive
<1>4. ASSUME AcquireProductLock(p) PROVE HolderHasLock' /\ LockExclusive'
  <2>1. CASE ~lock[Line(p).row] /\ Goto(p, "check")
    <3>1. Line(p)' = Line(p)
      BY <2>1 DEF Line, Goto
    <3>2. lock' = [lock EXCEPT ![Line(p).row] = TRUE]
      BY <1>4, <2>1 DEF AcquireProductLock, Goto, Undo
    <3>3. \A r \in Rows : Holds(p, r)' => r = Line(p).row
      BY <3>1 DEF Holds
    <3>4. \A q \in Procs : q # p => ~Holds(q, Line(p).row)
      BY <2>1, <1>4, LineInCart
         DEF HolderHasLock, AcquireProductLock, At, LineLabels, TypeInv
    <3>5. QED
      BY <1>1, <3>2, <3>3, <3>4 DEF HolderHasLock, LockExclusive, TypeInv, DataOK
  <2>2. CASE lock' = lock /\ Undo(p, op[p].i - 1)
    BY <1>2, <2>2 DEF Undo, Holding
  <2>3. QED
    BY <1>4, <2>1, <2>2 DEF AcquireProductLock
<1>5. ASSUME ReleaseProductLock(p) PROVE HolderHasLock' /\ LockExclusive'
  <2>1. lock' = [lock EXCEPT ![Line(p).row] = FALSE]
    BY <1>5 DEF ReleaseProductLock
  <2>2. \A r \in Rows : ~Holds(p, r)'
    BY <1>5, NextLineMoves, UndoMoves DEF ReleaseProductLock, Holds
  <2>3. Line(p).row \in Rows /\ Holds(p, Line(p).row)
    BY <1>5, LineInCart
       DEF ReleaseProductLock, Holds, LineLabels, TypeInv
  <2>4. \A q \in Procs : q # p => ~Holds(q, Line(p).row)
    BY <2>3 DEF LockExclusive
  <2>5. QED
    BY <1>1, <2>1, <2>2, <2>4 DEF HolderHasLock, LockExclusive, TypeInv, DataOK
<1>6. ASSUME \/ ReadEntry(p) \/ WriteReservationKey(p) \/ WriteMirror(p)
             \/ WriteFails(p) \/ DecrPending(p) \/ DeletePending(p)
             \/ LoadReservation(p) \/ ClaimMirror(p) \/ TakeStock(p)
             \/ DeleteReservationKey(p) \/ ResolveAfterwards(p) \/ Restock(p)
      PROVE  HolderHasLock' /\ LockExclusive'
  <2>1. lock' = lock
    BY <1>6 DEF ReadEntry, WriteReservationKey, WriteMirror, WriteFails,
         DecrPending, DeletePending, LoadReservation, ClaimMirror, TakeStock,
         DeleteReservationKey, ResolveAfterwards, Restock, shared
  <2>2. op'[p].at \notin Holding
    <3>1. CASE ReadEntry(p)
      BY <3>1 DEF ReadEntry, Holding
    <3>2. CASE WriteReservationKey(p) \/ WriteMirror(p) \/ WriteFails(p)
      BY <3>2, GotoMoves, ReturnMoves, UndoMoves
         DEF WriteReservationKey, WriteMirror, WriteFails, Holding
    <3>3. CASE DecrPending(p) \/ DeletePending(p)
      BY <3>3, GotoMoves, NextLineMoves
         DEF DecrPending, DeletePending, AfterLine, Holding
    <3>4. CASE LoadReservation(p) \/ ClaimMirror(p)
      <4>1. CASE op' = [op EXCEPT ![p].from = "redis", ![p].at = Work(p)]
        BY <4>1, WorkMoves DEF Holding
      <4>2. CASE op' = [op EXCEPT ![p].from = "mirror", ![p].at = Work(p)]
        BY <4>2, WorkMoves DEF Holding
      <4>3. CASE Goto(p, "claim") \/ Return(p, "ok")
        BY <4>3, GotoMoves, ReturnMoves DEF Holding
      <4>4. QED
        BY <3>4, <4>1, <4>2, <4>3 DEF LoadReservation, ClaimMirror
    <3>5. CASE TakeStock(p) \/ Restock(p)
      BY <3>5, NextLineMoves, ReturnMoves
         DEF TakeStock, Restock, AfterTaking, Holding
    <3>6. CASE DeleteReservationKey(p) \/ ResolveAfterwards(p)
      <4>1. op[p].from \in {"none", "redis", "mirror"}
        BY DEF OpType
      <4>2. op'[p].at \in {"resolve", "ok", "failed"}
        BY <3>6, <4>1, GotoMoves, ReturnMoves
           DEF DeleteReservationKey, ResolveAfterwards
      <4>3. QED
        BY <4>2 DEF Holding
    <3>7. QED
      BY <1>6, <3>1, <3>2, <3>3, <3>4, <3>5, <3>6
  <2>3. QED
    BY <1>2, <2>1, <2>2
<1>7. ASSUME CheckPending(p) \/ IncrPending(p)
      PROVE  HolderHasLock' /\ LockExclusive'
  <2>1. lock' = lock /\ op[p].at \in Holding
    BY <1>7 DEF CheckPending, IncrPending, At, Holding, shared
  <2>2. op'[p].order = op[p].order /\ op'[p].i = op[p].i
    BY <1>7, GotoMoves DEF CheckPending, IncrPending, Same
  <2>3. QED
    BY <1>3, <2>1, <2>2
<1>8. QED
  BY <1>4, <1>5, <1>6, <1>7 DEF Step

LockInv == ~SlowHolders => HolderHasLock /\ LockExclusive

LEMMA OthersHold ==
  ASSUME op \in [Procs -> OpType], NEW p \in Procs, op'[p].at \notin Holding,
         \A q \in Procs : q # p => op'[q] = op[q], lock' = lock, LockInv
  PROVE  LockInv'
<1>1. \A q \in Procs, r \in Rows : Holds(q, r)' => Holds(q, r)
  BY DEF Holds, Holding, Line
<1>2. QED
  BY <1>1 DEF LockInv, HolderHasLock, LockExclusive

LEMMA LockNext == TypeInv /\ LockInv /\ [Next]_invVars => LockInv'
<1>. SUFFICES ASSUME TypeInv, LockInv, [Next]_invVars, ~SlowHolders
              PROVE  LockInv'
  BY DEF LockInv
<1>. op \in [Procs -> OpType]
  BY DEF TypeInv, OpOK
<1>1. ASSUME NEW p \in Procs, MethodStep(p) PROVE LockInv'
  BY <1>1, LockKept DEF MethodStep, LockInv
<1>2. ASSUME NEW p \in Procs, Crash(p) PROVE LockInv'
  BY <1>2, ReturnMoves, OthersHold DEF Crash, Holding, shared
<1>3. ASSUME NEW p \in Procs, NEW kind \in Kinds \ {"none"}, NEW o \in Orders,
             Call(p, kind, o), lock' = lock
      PROVE  LockInv'
  <2>1. First(kind) \notin Holding
    BY DEF First, Kinds, Holding
  <2>2. QED
    BY <1>3, <2>1, CallMoves, OthersHold
<1>4. ASSUME NEW p \in Procs, NEW o \in Orders,
             \/ Begin(p, o) \/ InsertFailed(p, o) \/ Sweep(p, o)
             \/ \E kind \in {"commit", "release"} : Finish(p, o, kind)
      PROVE  LockInv'
  BY <1>3, <1>4 DEF Begin, InsertFailed, Sweep, Finish, shared, Kinds
<1>5. ASSUME NEW r \in Rows, LockExpires(r) PROVE LockInv'
  <2>1. \A q \in Procs, x \in Rows : Holds(q, x)' <=> Holds(q, x)
    BY <1>5 DEF LockExpires, Holds, Line
  <2>2. \A q \in Procs : ~Holds(q, r)
    BY <1>5 DEF LockExpires
  <2>3. QED
    BY <1>5, <2>1, <2>2
       DEF LockExpires, LockInv, HolderHasLock, LockExclusive, TypeInv, DataOK
<1>6. ASSUME UNCHANGED <<op, lock>> PROVE LockInv'
  BY <1>6 DEF LockInv, HolderHasLock, LockExclusive, Holds, Line
<1>7. QED
  BY <1>1, <1>2, <1>4, <1>5, <1>6 DEF Next, Tick, invVars

\* Two reserves are never inside the critical section of one row together,
\* unless a holder outlives the lock's TTL: SET NX and the unconditional DEL
\* suffice as long as the TTL does.
THEOREM LockIsExclusive == Spec => []LockExclusive
<1>1. Init => LockInv
  BY DEF Init, LockInv, HolderHasLock, LockExclusive, Holds, Ended
<1>2. TypeInv /\ LockInv => LockExclusive
  BY DEF LockInv, LockExclusive
<1>3. QED
  BY <1>1, <1>2, TypeInit, TypeNext, LockNext, PTL DEF Spec

-----------------------------------------------------------------------------
(* The mirror *)

LEMMA MirrorMoves ==
  ASSUME TypeInv, [Next]_invVars, NEW o \in Orders,
         mirror[o] \in {"committed", "released"}
  PROVE  mirror'[o] = mirror[o]
<1>. mirror \in [Orders -> MirrorStatus]
  BY DEF TypeInv, DataOK
<1>1. ASSUME NEW p \in Procs, Step(p) PROVE mirror'[o] = mirror[o]
  <2>1. CASE ClaimMirror(p) \/ ResolveAfterwards(p)
    BY <2>1 DEF ClaimMirror, ResolveAfterwards, ResolveMirror
  <2>2. CASE WriteMirror(p) \/ WriteFails(p)
    BY <2>2 DEF WriteMirror, WriteFails
  <2>3. QED
    BY <1>1, <2>1, <2>2
       DEF Step, ReadEntry, AcquireProductLock, CheckPending, IncrPending,
           ReleaseProductLock, WriteReservationKey, DecrPending, DeletePending,
           LoadReservation, TakeStock, DeleteReservationKey, Restock, shared
<1>2. CASE UNCHANGED mirror
  BY <1>2
<1>3. QED
  BY <1>1, <1>2 DEF Next, MethodStep, Crash, Begin, InsertFailed, Sweep, Finish,
     LockExpires, Tick, invVars, shared

\* A resolved reservation is never resolved again or reopened, by any
\* interleaving of commits, releases, sweeps and late reserves.
THEOREM MirrorIsFinal == Spec => MirrorFinal
<1>1. TypeInv /\ [Next]_invVars
        => [\A o \in Orders :
              mirror[o] \in {"committed", "released"}
                => mirror'[o] = mirror[o]]_invVars
  BY MirrorMoves
<1>2. QED
  BY <1>1, TypeInit, TypeNext, PTL DEF Spec, MirrorFinal

-----------------------------------------------------------------------------
(* Working from the mirror takes the claim. *)

\* The first conjunct of MirrorClaimedOnce, process by process.
Claimed(p) ==
  op[p].from = "mirror" =>
    /\ op[p].order \in Orders
    /\ mirror[op[p].order] \in {"committed", "released"}

MirrorInv ==
  /\ \A p \in Procs : Claimed(p)
  /\ \A p, q \in Procs :
       /\ op[p].from = "mirror" /\ op[q].from = "mirror"
       /\ op[p].order = op[q].order
       => p = q

\* A step that lets at most one process give up a claim.
LEMMA NoNewClaim ==
  ASSUME TypeInv, MirrorInv, [Next]_invVars, NEW p \in Procs,
         \A q \in Procs : q # p => op'[q] = op[q],
         op'[p].from # "mirror" \/ (op'[p].from = op[p].from
                                    /\ op'[p].order = op[p].order)
  PROVE  MirrorInv'
<1>. \A q \in Procs : op[q].from = "mirror" => op[q].order \in Orders
  BY DEF MirrorInv, Claimed
<1>1. \A q \in Procs : op'[q].from = "mirror" =>
          op[q].from = "mirror" /\ op'[q].order = op[q].order
  OBVIOUS
<1>2. \A q \in Procs : Claimed(q)'
  BY <1>1, MirrorMoves DEF MirrorInv, Claimed
<1>3. QED
  BY <1>1, <1>2 DEF MirrorInv

LEMMA MirrorStep ==
  ASSUME TypeInv, MirrorInv, [Next]_invVars, NEW p \in Procs, Step(p)
  PROVE  MirrorInv'
<1>. op \in [Procs -> OpType] /\ op[p].from \in {"none", "redis", "mirror"}
  BY DEF TypeInv, OpOK, OpType
<1>1. CASE op'[p].from # "mirror" \/ Same(p)
  BY <1>1, StepMovesOne, NoNewClaim DEF Same
<1>2. CASE ClaimMirror(p) /\ mirror[op[p].order] = "reserved"
  <2>. DEFINE o == op[p].order
  <2>1. o \in Orders
    BY <1>2, LineInCart DEF ClaimMirror, At, LineLabels, TypeInv
  <2>2. op'[p].order = o /\ \A q \in Procs : q # p => op'[q] = op[q]
    BY <1>2, WorkMoves, StepMovesOne DEF ClaimMirror
  <2>3. mirror'[o] \in {"committed", "released"}
    BY <1>2, <2>1
       DEF ClaimMirror, ResolveMirror, Resolution, TypeInv, DataOK
  <2>4. \A q \in Procs : op[q].from = "mirror" => op[q].order # o
    BY <1>2 DEF MirrorInv, Claimed
  <2>5. \A q \in Procs : Claimed(q)'
    <3>1. TAKE q \in Procs
    <3>2. CASE q = p
      BY <3>2, <2>1, <2>2, <2>3 DEF Claimed
    <3>3. CASE q # p
      BY <3>3, <2>2, MirrorMoves DEF Claimed, MirrorInv
    <3>4. QED
      BY <3>2, <3>3
  <2>6. QED
    BY <2>2, <2>4, <2>5 DEF MirrorInv
<1>3. CASE \/ AcquireProductLock(p) \/ CheckPending(p) \/ IncrPending(p)
           \/ ReleaseProductLock(p) \/ WriteReservationKey(p)
           \/ WriteFails(p) \/ DecrPending(p) \/ DeletePending(p)
  BY <1>3, <1>1, GotoMoves, UndoMoves, NextLineMoves
     DEF AcquireProductLock, CheckPending, IncrPending, ReleaseProductLock,
         WriteReservationKey, WriteFails, DecrPending, DeletePending, AfterLine
<1>4. CASE WriteMirror(p) \/ ResolveAfterwards(p)
  BY <1>4, <1>1, ReturnMoves DEF WriteMirror, ResolveAfterwards
<1>5. CASE ReadEntry(p)
  <2>1. op'[p] = [op[p] EXCEPT !.seen = stock[Line(p).row], !.at = "lock"]
    BY <1>5 DEF ReadEntry
  <2>2. QED
    BY <1>1, <2>1 DEF Same, OpType
<1>6. CASE LoadReservation(p)
  BY <1>6, <1>1, WorkMoves, GotoMoves DEF LoadReservation
<1>7. CASE ClaimMirror(p) /\ mirror[op[p].order] # "reserved"
  BY <1>7, <1>1, ReturnMoves DEF ClaimMirror
<1>8. CASE TakeStock(p) \/ Restock(p)
  BY <1>8, <1>1, ReturnMoves, NextLineMoves DEF TakeStock, Restock, AfterTaking
<1>9. CASE DeleteReservationKey(p)
  <2>1. Goto(p, "resolve") \/ Return(p, "ok") \/ Return(p, "failed")
    BY <1>9 DEF DeleteReservationKey
  <2>2. QED
    BY <2>1, <1>1, GotoMoves, ReturnMoves
<1>10. QED
  BY <1>2, <1>3, <1>4, <1>5, <1>6, <1>7, <1>8, <1>9 DEF Step

LEMMA MirrorNext == TypeInv /\ MirrorInv /\ [Next]_invVars => MirrorInv'
<1>. SUFFICES ASSUME TypeInv, MirrorInv, [Next]_invVars PROVE MirrorInv'
  OBVIOUS
<1>. op \in [Procs -> OpType]
  BY DEF TypeInv, OpOK
<1>1. ASSUME NEW p \in Procs, MethodStep(p) PROVE MirrorInv'
  BY <1>1, MirrorStep DEF MethodStep
<1>2. ASSUME NEW p \in Procs, Crash(p) PROVE MirrorInv'
  BY <1>2, ReturnMoves, NoNewClaim DEF Crash
<1>3. ASSUME NEW p \in Procs, NEW o \in Orders,
             \/ Begin(p, o) \/ InsertFailed(p, o) \/ Sweep(p, o)
             \/ \E kind \in {"commit", "release"} : Finish(p, o, kind)
      PROVE  MirrorInv'
  BY <1>3, CallMoves, NoNewClaim DEF Begin, InsertFailed, Sweep, Finish
<1>4. ASSUME UNCHANGED <<op, mirror>> PROVE MirrorInv'
  BY <1>4 DEF MirrorInv, Claimed
<1>5. QED
  BY <1>1, <1>2, <1>3, <1>4 DEF Next, LockExpires, Tick, invVars

\* Whatever commits, releases and sweeps race on an order whose Redis key is
\* gone, and whoever crashes, at most one of them works from its mirror.
THEOREM MirrorIsClaimedOnce == Spec => []MirrorClaimedOnce
<1>1. Init => MirrorInv
  BY DEF Init, MirrorInv, Claimed, Ended
<1>2. MirrorInv => MirrorClaimedOnce
  BY DEF MirrorInv, Claimed, MirrorClaimedOnce
<1>3. QED
  BY <1>1, <1>2, TypeInit, TypeNext, MirrorNext, PTL DEF Spec

-----------------------------------------------------------------------------
(* The life of an order in the inventory: which methods may work on it at  *)
(* one time, what they still hold, and what was taken for it.              *)

Reserving == {"read", "lock", "check", "incr", "unlock", "unlock_short", "setex", "mirror"}
GivingBack == {"decr", "zap", "delkey"}

\* How far a method of each kind can be.
Stage(p) ==
  /\ op[p].kind = "none" <=> op[p].order = NoOrder
  /\ op[p].kind = "reserve" =>
       /\ op[p].at \in Reserving \cup GivingBack /\ op[p].from = "none"
       /\ op[p].at \in Reserving => op[p].n = Len(Cart[op[p].order])
  /\ op[p].kind \in {"commit", "release"} =>
       /\ op[p].n = Len(Cart[op[p].order])
       /\ op[p].from = "none" => op[p].at \in {"load", "claim"} /\ op[p].i = 1
       /\ op[p].from # "none" => op[p].at \in GivingBack \cup {"take", "resolve"}
       /\ op[p].at = "take" => op[p].kind = "commit"
  /\ op[p].kind = "sell" => op[p].at = "take" /\ op[p].n = Len(Cart[op[p].order])
  /\ op[p].kind = "restock" => op[p].at = "restock" /\ op[p].n = Len(Cart[op[p].order])

\* A reserve holds the lines before its own; who gives back, at most its own
\* line and the later ones.
Pass(p) ==
  /\ op[p].at \in {"read", "lock", "check", "incr", "unlock_short"} =>
       hold[op[p].order] \subseteq 1 .. op[p].i - 1
  /\ op[p].at = "unlock" => hold[op[p].order] \subseteq 1 .. op[p].i
  /\ op[p].at = "decr" => hold[op[p].order] \subseteq op[p].i .. op[p].n
  /\ op[p].at = "zap" => hold[op[p].order] \subseteq op[p].i + 1 .. op[p].n
  /\ op[p].at \in {"delkey", "resolve"} => hold[op[p].order] = {}

\* What the order looks like to the method at work.
Sees(p) ==
  LET o == op[p].order IN
  /\ op[p].kind = "reserve" =>
       /\ o \notin CodOrders /\ progress[o] = "asked" /\ age[o] = 0
       /\ op[p].at \in Reserving => mirror[o] = "none"
  /\ op[p].kind \in {"commit", "release"} => o \notin CodOrders
  /\ op[p].kind = "sell" => o \in CodOrders /\ progress[o] = "asked" /\ taken[o] = op[p].i - 1
  /\ op[p].kind = "restock" =>
       o \in CodOrders /\ progress[o] = "unsold" /\ taken[o] = Len(Cart[o]) - op[p].i + 1

Alone(p) ==
  op[p].kind \in {"reserve", "sell", "restock"} =>
    \A q \in Procs : op[q].order = op[p].order => q = p

Own(p) == Stage(p) /\ Pass(p) /\ Sees(p)

Unattended(o) == \A p \in Procs : op[p].order # o
Record(o) ==
  /\ hold[o] \subseteq Lines(o)
  /\ progress[o] = "new" =>
       Unattended(o) /\ ~resKey[o] /\ mirror[o] = "none" /\ age[o] = 0 /\ hold[o] = {} /\ taken[o] = 0
  /\ progress[o] \in {"sold", "refused", "unsold"} => o \in CodOrders
  /\ o \in CodOrders =>
       /\ ~resKey[o] /\ mirror[o] = "none" /\ progress[o] # "reserved" /\ hold[o] = {}
       /\ progress[o] = "sold" => Unattended(o) /\ taken[o] = Len(Cart[o])
       /\ progress[o] = "refused" => Unattended(o) /\ taken[o] \in 0 .. Len(Cart[o]) - 1

\* A hold nobody gives back belongs to a reservation or to its commit.
Covers(p) == op[p].kind = "reserve" \/ (op[p].kind = "release" /\ op[p].from # "none")
Settled(o) ==
  /\ \/ hold[o] = {} \/ mirror[o] \in {"reserved", "committed"}
     \/ \E p \in Procs : op[p].order = o /\ Covers(p)
  /\ o \in CodOrders /\ Unattended(o) =>
       progress[o] # "asked" /\ (progress[o] = "unsold" => taken[o] = 0)

LifeInv ==
  /\ \A p \in Procs : Own(p) /\ Alone(p)
  /\ \A o \in Orders : Record(o)
  /\ crashes = 0 => \A o \in Orders : Settled(o)

-----------------------------------------------------------------------------
(* What the helpers do to every field of the record.                       *)

OthersAsWere(p) == \A q \in Procs : q # p => op'[q] = op[q]
Moved(p, at, i, n) ==
  /\ op'[p].kind = op[p].kind /\ op'[p].order = op[p].order /\ op'[p].from = op[p].from
  /\ op'[p].at = at /\ op'[p].i = i /\ op'[p].n = n
  /\ OthersAsWere(p)
Over(p) == op'[p].kind = "none" /\ op'[p].order = NoOrder /\ op'[p].at \in {"idle", "ok", "failed"} /\ OthersAsWere(p)

LEMMA GotoDoes ==
  ASSUME op \in [Procs -> OpType], NEW p \in Procs, NEW label, Goto(p, label)
  PROVE  Moved(p, label, op[p].i, op[p].n)
  BY DEF Goto, Moved, OthersAsWere, OpType

LEMMA NextLineDoes ==
  ASSUME op \in [Procs -> OpType], NEW p \in Procs, NEW label, NEW past, NextLineOr(p, label, past)
  PROVE  /\ op[p].i < op[p].n => Moved(p, label, op[p].i + 1, op[p].n)
         /\ ~(op[p].i < op[p].n) => Moved(p, past, 1, op[p].n)
<1>1. CASE op[p].i < op[p].n
  <2>1. op' = [op EXCEPT ![p].i = @ + 1, ![p].at = label]
    BY <1>1 DEF NextLineOr
  <2>2. QED
    BY <1>1, <2>1 DEF Moved, OthersAsWere, OpType
<1>2. CASE ~(op[p].i < op[p].n)
  <2>1. op' = [op EXCEPT ![p].i = 1, ![p].at = past]
    BY <1>2 DEF NextLineOr
  <2>2. QED
    BY <1>2, <2>1 DEF Moved, OthersAsWere, OpType
<1>3. QED
  BY <1>1, <1>2

LEMMA UndoDoes ==
  ASSUME op \in [Procs -> OpType], NEW p \in Procs, NEW n, Undo(p, n)
  PROVE  /\ n = 0 => Moved(p, "delkey", 1, n)
         /\ n # 0 => Moved(p, "decr", 1, n)
  BY DEF Undo, Moved, OthersAsWere, OpType

LEMMA ReturnDoes ==
  ASSUME op \in [Procs -> OpType], NEW p \in Procs, NEW outcome \in {"idle", "ok", "failed"},
         Return(p, outcome)
  PROVE  Over(p) /\ op'[p].at = outcome
  BY DEF Return, Ended, Over, OthersAsWere

\* The kinds of method that can be at a label.
LEMMA KindsAt ==
  ASSUME TypeInv, NEW p \in Procs, Stage(p), op[p].at \in Working
  PROVE  /\ op[p].order \in Orders /\ op[p].kind # "none"
         /\ op[p].at \in Reserving => op[p].kind = "reserve"
         /\ op[p].at \in GivingBack => op[p].kind \in {"reserve", "commit", "release"}
         /\ op[p].at \in {"load", "claim", "resolve"} => op[p].kind \in {"commit", "release"}
         /\ op[p].at = "take" => op[p].kind \in {"commit", "sell"}
         /\ op[p].at = "restock" => op[p].kind = "restock"
<1>1. op[p].order \in Orders /\ op[p].kind \in Kinds /\ op[p].order # NoOrder
  BY OrdersAssumption DEF TypeInv, OpOK, OpType, InRange
<1>2. op[p].kind \in {"reserve", "commit", "release", "sell", "restock"}
  BY <1>1 DEF Stage, Kinds
<1>3. op[p].from = "none" \/ op[p].from # "none"
  OBVIOUS
<1>4. QED
  BY <1>1, <1>2, <1>3 DEF Stage, Reserving, GivingBack

-----------------------------------------------------------------------------
(* A method's command touches the records of its own order only.           *)

ElsewhereAsWas(o) ==
  \A x \in Orders \ {o} : /\ hold'[x] = hold[x] /\ taken'[x] = taken[x] /\ resKey'[x] = resKey[x]
                          /\ mirror'[x] = mirror[x] /\ progress'[x] = progress[x] /\ age'[x] = age[x]

LEMMA Assemble ==
  ASSUME TypeInv, LifeInv, NEW p \in Procs, NEW o \in Orders, op[p].order = o, op[p].kind # "none",
         OthersAsWere(p), ElsewhereAsWas(o),
         \/ op'[p].kind = op[p].kind /\ op'[p].order = o
         \/ op'[p].kind = "none" /\ op'[p].order = NoOrder,
         hold'[o] \subseteq hold[o] \/ op[p].kind = "reserve",
         Own(p)', Record(o)', crashes' = 0 => crashes = 0 /\ Settled(o)'
  PROVE  LifeInv'
<1>1. \A q \in Procs : op[q].order \in Orders \cup {NoOrder}
  BY DEF TypeInv, OpOK, OpType
<1>2. NoOrder \notin Orders
  BY OrdersAssumption
<1>3. ASSUME NEW q \in Procs PROVE Own(q)'
  <2>1. CASE q = p
    BY <2>1
  <2>2. CASE q # p
    <3>1. Own(q) /\ op'[q] = op[q] /\ Stage(q)'
      BY <2>2 DEF LifeInv, OthersAsWere, Own, Stage
    <3>2. CASE op[q].order = o
      <4>1. op[q].kind \in {"commit", "release"} /\ op[p].kind # "reserve"
        <5>1. op[p].kind \notin {"reserve", "sell", "restock"} /\ op[q].kind \notin {"reserve", "sell", "restock"}
          BY <2>2, <3>2 DEF LifeInv, Alone
        <5>2. op[q].kind \in Kinds /\ op[q].kind # "none"
          BY <1>2, <3>1, <3>2 DEF TypeInv, OpOK, OpType, Own, Stage
        <5>3. QED
          BY <5>1, <5>2 DEF Kinds
      <4>2. op[q].at \notin {"read", "lock", "check", "incr", "unlock_short", "unlock"}
        BY <3>1, <4>1 DEF Own, Stage, GivingBack
      <4>3. Pass(q)'
        BY <3>1, <3>2, <4>1, <4>2 DEF Own, Pass
      <4>4. Sees(q)'
        BY <3>1, <4>1 DEF Own, Sees
      <4>5. QED
        BY <3>1, <4>3, <4>4 DEF Own
    <3>3. CASE op[q].order \in Orders \ {o}
      BY <3>1, <3>3 DEF Own, Pass, Sees, ElsewhereAsWas
    <3>4. CASE op[q].order = NoOrder
      <4>1. op[q].kind = "none" /\ op[q].at \notin Working
        BY <1>2, <3>1, <3>4 DEF Own, Stage, TypeInv, OpOK, InRange
      <4>2. Pass(q)' /\ Sees(q)'
        BY <3>1, <4>1 DEF Pass, Sees, Working, Labels
      <4>3. QED
        BY <3>1, <4>2 DEF Own
    <3>5. QED
      BY <1>1, <3>2, <3>3, <3>4
  <2>3. QED
    BY <2>1, <2>2
<1>4. ASSUME NEW q \in Procs PROVE Alone(q)'
  <2>1. ASSUME NEW r \in Procs, op'[q].kind \in {"reserve", "sell", "restock"}, op'[r].order = op'[q].order
        PROVE  r = q
    <3>1. op'[q].kind = op[q].kind /\ op'[q].order = op[q].order
      BY <2>1 DEF OthersAsWere
    <3>2. op[q].order \in Orders
      BY <1>1, <2>1, <3>1 DEF LifeInv, Own, Stage
    <3>3. op[r].order = op[q].order
      BY <1>2, <2>1, <3>1, <3>2 DEF OthersAsWere
    <3>4. QED
      BY <2>1, <3>1, <3>3 DEF LifeInv, Alone
  <2>2. QED
    BY <2>1 DEF Alone
<1>5. ASSUME NEW x \in Orders, x # o PROVE \A q \in Procs : op'[q].order = x <=> op[q].order = x
  BY <1>2, <1>5 DEF OthersAsWere
<1>6. ASSUME NEW x \in Orders PROVE Record(x)'
  <2>1. CASE x # o
    <3>1. Unattended(x)' <=> Unattended(x)
      BY <1>5, <2>1 DEF Unattended
    <3>2. QED
      BY <2>1, <3>1 DEF LifeInv, Record, ElsewhereAsWas, Lines
  <2>2. QED
    BY <2>1
<1>7. ASSUME NEW x \in Orders, crashes' = 0 PROVE Settled(x)'
  <2>1. CASE x # o
    <3>1. (Unattended(x)' <=> Unattended(x)) /\ Settled(x)
      BY <1>5, <1>7, <2>1 DEF Unattended, LifeInv
    <3>2. ASSUME NEW q \in Procs, op[q].order = x, Covers(q) PROVE op'[q].order = x /\ Covers(q)'
      BY <2>1, <3>2 DEF OthersAsWere, Covers
    <3>3. QED
      BY <2>1, <3>1, <3>2 DEF Settled, ElsewhereAsWas
  <2>2. QED
    BY <1>7, <2>1
<1>8. QED
  BY <1>3, <1>4, <1>6, <1>7 DEF LifeInv

\* What every step of p can start from.
LEMMA Before ==
  ASSUME TypeInv, LifeInv, NEW p \in Procs, op[p].at \in Working
  PROVE  /\ op \in [Procs -> OpType] /\ op[p] \in OpType /\ op[p].i \in Nat /\ op[p].n \in Nat
         /\ op[p].order \in Orders /\ op[p].kind # "none" /\ Len(Cart[op[p].order]) \in Nat \ {0}
         /\ Stage(p) /\ Pass(p) /\ Sees(p) /\ Record(op[p].order) /\ ~Unattended(op[p].order)
         /\ hold[op[p].order] \subseteq 1 .. Len(Cart[op[p].order])
         /\ op[p].at \in LineLabels => op[p].i \in 1 .. op[p].n /\ op[p].n <= Len(Cart[op[p].order])
<1>1. op \in [Procs -> OpType] /\ op[p] \in OpType /\ InRange(p)
  BY DEF TypeInv, OpOK
<1>2. op[p].i \in Nat /\ op[p].n \in Nat
  BY <1>1 DEF OpType
<1>3. Stage(p) /\ Pass(p) /\ Sees(p)
  BY DEF LifeInv, Own
<1>4. op[p].order \in Orders /\ op[p].kind # "none"
  BY <1>3, KindsAt
<1>5. Len(Cart[op[p].order]) \in Nat \ {0}
  BY <1>4, CartLength
<1>6. Record(op[p].order) /\ hold[op[p].order] \subseteq 1 .. Len(Cart[op[p].order])
  BY <1>4 DEF LifeInv, Record, Lines
<1>7. ~Unattended(op[p].order)
  BY DEF Unattended
<1>8. QED
  BY <1>1, <1>2, <1>3, <1>4, <1>5, <1>6, <1>7 DEF InRange

\* The method goes on: what it holds shrinks, or it reserves.
LEMMA GoesOn ==
  ASSUME TypeInv, LifeInv, NEW p \in Procs, NEW o \in Orders, op[p].order = o, op[p].at \in Working,
         op[p].kind \in {"reserve", "commit", "release"},
         NEW at, NEW i, NEW n, Moved(p, at, i, n),
         ElsewhereAsWas(o), UNCHANGED <<progress, age, crashes>>,
         hold'[o] \subseteq hold[o] \/ op[p].kind = "reserve", hold'[o] \subseteq Lines(o),
         mirror'[o] = mirror[o] \/ (mirror'[o] = "reserved" /\ at \notin Reserving),
         at \in Reserving => op[p].at \in Reserving,
         Stage(p)', Pass(p)'
  PROVE  LifeInv'
<1>1. /\ OthersAsWere(p) /\ op'[p].kind = op[p].kind /\ op'[p].order = o /\ op'[p].at = at
      /\ op'[p].from = op[p].from
  BY DEF Moved
<1>2. /\ Sees(p) /\ Record(o) /\ ~Unattended(o) /\ op[p].kind # "none" /\ o \notin CodOrders
      /\ progress[o] # "new"
  BY Before DEF Sees, Record
<1>3. Sees(p)'
  BY <1>1, <1>2 DEF Sees
<1>4. Record(o)'
  BY <1>2 DEF Record, Lines
<1>5. ASSUME crashes = 0 PROVE Settled(o)'
  <2>1. Settled(o)
    BY <1>5 DEF LifeInv
  <2>2. CASE op[p].kind = "reserve"
    BY <1>1, <1>2, <2>2 DEF Settled, Covers
  <2>3. CASE hold'[o] \subseteq hold[o] /\ op[p].kind # "reserve"
    <3>1. CASE \E q \in Procs : op[q].order = o /\ Covers(q)
      <4>1. PICK q \in Procs : op[q].order = o /\ Covers(q)
        BY <3>1
      <4>2. op'[q].order = o /\ Covers(q)'
        BY <1>1, <4>1 DEF OthersAsWere, Covers
      <4>3. QED
        BY <1>2, <4>2 DEF Settled
    <3>2. CASE ~\E q \in Procs : op[q].order = o /\ Covers(q)
      BY <1>2, <2>1, <2>3, <3>2 DEF Settled
    <3>3. QED
      BY <3>1, <3>2
  <2>4. QED
    BY <2>2, <2>3
<1>6. QED
  BY <1>1, <1>2, <1>3, <1>4, <1>5, Assemble DEF Own

LEMMA Ends ==
  ASSUME TypeInv, LifeInv, NEW p \in Procs, NEW o \in Orders, op[p].order = o, op[p].kind # "none",
         Over(p), ElsewhereAsWas(o), hold' = hold,
         Record(o)', crashes' = 0 => crashes = 0 /\ Settled(o)'
  PROVE  LifeInv'
<1>1. Own(p)'
  BY DEF Over, Own, Stage, Pass, Sees, Reserving, GivingBack
<1>2. QED
  BY <1>1, Assemble DEF Over

-----------------------------------------------------------------------------
(* One command of a method, action by action. *)

LEMMA MethodKeeps ==
  ASSUME TypeInv, NEW p \in Procs, MethodStep(p)
  PROVE  /\ UNCHANGED <<age, calls, crashes>>
         /\ op'[p].at \notin {"ok", "failed"} => progress' = progress
         /\ op[p].kind # "sell" /\ op'[p].at # "ok" => progress' = progress
         /\ op[p].kind \notin {"reserve", "sell"} => progress' = progress
         /\ progress \in [Orders -> Progress] /\ hold \in [Orders -> SUBSET Nat]
         /\ mirror \in [Orders -> MirrorStatus] /\ resKey \in [Orders -> BOOLEAN]
         /\ taken \in [Orders -> Int]
  BY DEF MethodStep, Answer, TypeInv, DataOK, EnvOK

\* A reserve goes on, or begins to give back.
LEMMA ReserveGoesOn ==
  ASSUME TypeInv, LifeInv, NEW p \in Procs, NEW o \in Orders, op[p].order = o, MethodStep(p),
         op[p].at \in Reserving, op[p].at \in Working,
         NEW at \in Reserving \cup GivingBack, NEW i, NEW n, Moved(p, at, i, n),
         at \in Reserving => n = op[p].n,
         UNCHANGED taken, hold'[o] \subseteq Lines(o),
         \A x \in Orders \ {o} : hold'[x] = hold[x] /\ resKey'[x] = resKey[x] /\ mirror'[x] = mirror[x],
         mirror'[o] = mirror[o] \/ (mirror'[o] = "reserved" /\ at \notin Reserving),
         Pass(p)'
  PROVE  LifeInv'
<1>1. op[p].kind = "reserve" /\ op[p].from = "none" /\ op[p].n = Len(Cart[o])
  BY KindsAt, Before DEF Stage
<1>2. at \notin {"ok", "failed"}
  BY DEF Reserving, GivingBack
<1>3. UNCHANGED <<progress, age, taken, crashes>>
  BY <1>2, MethodKeeps DEF Moved
<1>4. ElsewhereAsWas(o)
  BY <1>3 DEF ElsewhereAsWas
<1>5. Stage(p)'
  BY <1>1, OrdersAssumption DEF Stage, Moved
<1>6. QED
  BY <1>1, <1>3, <1>4, <1>5, GoesOn

LEMMA LifeRead ==
  ASSUME TypeInv, LifeInv, NEW p \in Procs, MethodStep(p), ReadEntry(p)
  PROVE  LifeInv'
<1>. DEFINE o == op[p].order
<1>1. op[p].at = "read" /\ op[p].at \in Working /\ op[p].at \in Reserving /\ UNCHANGED <<shared, history>>
  BY DEF ReadEntry, At, Working, Labels, Reserving
<1>2. Moved(p, "lock", op[p].i, op[p].n)
  <2>1. op[p] \in OpType /\ op \in [Procs -> OpType]
    BY <1>1, Before
  <2>2. op' = [op EXCEPT ![p] = [op[p] EXCEPT !.seen = stock[Line(p).row], !.at = "lock"]]
    BY <2>1 DEF ReadEntry
  <2>3. QED
    BY <2>1, <2>2 DEF Moved, OthersAsWere, OpType
<1>3. Pass(p)'
  BY <1>1, <1>2, Before DEF Pass, Moved, history
<1>4. QED
  BY <1>1, <1>2, <1>3, Before, ReserveGoesOn DEF shared, history, Lines, Reserving

LEMMA UndoPasses ==
  ASSUME TypeInv, LifeInv, NEW p \in Procs, op[p].at \in Working, NEW n \in Nat,
         Undo(p, n), hold' = hold, hold[op[p].order] \subseteq 1 .. n
  PROVE  Pass(p)' /\ \E at \in GivingBack : Moved(p, at, 1, n)
<1>1. op \in [Procs -> OpType]
  BY Before
<1>2. CASE n = 0
  BY <1>1, <1>2, UndoDoes DEF Pass, Moved, GivingBack
<1>3. CASE n # 0
  BY <1>1, <1>3, UndoDoes DEF Pass, Moved, GivingBack
<1>4. QED
  BY <1>2, <1>3

LEMMA LifeAcquire ==
  ASSUME TypeInv, LifeInv, NEW p \in Procs, MethodStep(p), AcquireProductLock(p)
  PROVE  LifeInv'
<1>1. /\ op[p].at = "lock" /\ op[p].at \in Working /\ op[p].at \in Reserving
      /\ op[p].at \in LineLabels
      /\ UNCHANGED <<stock, pending, resKey, mirror, history>>
  BY DEF AcquireProductLock, At, Working, Labels, Reserving, LineLabels
<1>2. CASE Goto(p, "check")
  <2>1. Moved(p, "check", op[p].i, op[p].n)
    BY <1>1, <1>2, Before, GotoDoes
  <2>2. Pass(p)'
    BY <1>1, <2>1, Before DEF Pass, Moved, history
  <2>3. QED
    BY <1>1, <2>1, <2>2, Before, ReserveGoesOn DEF history, Lines, Reserving
<1>3. CASE Undo(p, op[p].i - 1)
  <2>1. op[p].i - 1 \in Nat /\ hold[op[p].order] \subseteq 1 .. op[p].i - 1
    BY <1>1, Before DEF Pass
  <2>2. Pass(p)' /\ \E at \in GivingBack : Moved(p, at, 1, op[p].i - 1)
    BY <1>1, <1>3, <2>1, UndoPasses DEF history
  <2>3. PICK at \in GivingBack : Moved(p, at, 1, op[p].i - 1)
    BY <2>2
  <2>4. at \notin Reserving
    BY DEF Reserving, GivingBack
  <2>5. QED
    BY <1>1, <2>2, <2>3, <2>4, Before, ReserveGoesOn DEF history, Lines
<1>4. QED
  BY <1>2, <1>3 DEF AcquireProductLock

LEMMA LifeCheck ==
  ASSUME TypeInv, LifeInv, NEW p \in Procs, MethodStep(p), CheckPending(p)
  PROVE  LifeInv'
<1>1. /\ op[p].at = "check" /\ op[p].at \in Working /\ op[p].at \in Reserving
      /\ UNCHANGED <<shared, history>>
  BY DEF CheckPending, At, Working, Labels, Reserving
<1>2. PICK at \in {"unlock_short", "incr"} : Goto(p, at)
  BY DEF CheckPending
<1>3. Moved(p, at, op[p].i, op[p].n)
  BY <1>1, <1>2, Before, GotoDoes
<1>4. Pass(p)'
  BY <1>1, <1>3, Before DEF Pass, Moved, history
<1>5. QED
  BY <1>1, <1>3, <1>4, Before, ReserveGoesOn DEF shared, history, Lines, Reserving

LEMMA LifeIncr ==
  ASSUME TypeInv, LifeInv, NEW p \in Procs, MethodStep(p), IncrPending(p)
  PROVE  LifeInv'
<1>1. /\ op[p].at = "incr" /\ op[p].at \in Working /\ op[p].at \in Reserving
      /\ op[p].at \in LineLabels
      /\ UNCHANGED <<stock, lock, resKey, mirror, taken>>
  BY DEF IncrPending, At, Working, Labels, Reserving, LineLabels
<1>. DEFINE o == op[p].order
<1>2. Moved(p, "unlock", op[p].i, op[p].n)
  BY <1>1, Before, GotoDoes DEF IncrPending
<1>3. o \in Orders /\ hold'[o] = hold[o] \cup {op[p].i} /\ \A x \in Orders \ {o} : hold'[x] = hold[x]
  BY <1>1, Before, MethodKeeps DEF IncrPending
<1>4. hold[o] \subseteq 1 .. op[p].i - 1 /\ op[p].i \in 1 .. Len(Cart[o])
  BY <1>1, Before DEF Pass
<1>5. hold'[o] \subseteq 1 .. op[p].i /\ hold'[o] \subseteq Lines(o)
  BY <1>1, <1>3, <1>4, Before DEF Lines
<1>6. Pass(p)'
  BY <1>2, <1>5 DEF Pass, Moved
<1>7. QED
  BY <1>1, <1>2, <1>3, <1>5, <1>6, ReserveGoesOn DEF Reserving

LEMMA LifeUnlock ==
  ASSUME TypeInv, LifeInv, NEW p \in Procs, MethodStep(p), ReleaseProductLock(p)
  PROVE  LifeInv'
<1>1. /\ op[p].at \in {"unlock", "unlock_short"} /\ op[p].at \in Working /\ op[p].at \in Reserving
      /\ op[p].at \in LineLabels
      /\ UNCHANGED <<stock, pending, resKey, mirror, history>>
  BY DEF ReleaseProductLock, At, Working, Labels, Reserving, LineLabels
<1>2. op[p].i \in Nat /\ op[p].i >= 1 /\ op[p].n \in Nat
  BY <1>1, Before
<1>3. CASE op[p].at = "unlock" /\ NextLineOr(p, "read", "setex")
  <2>1. hold[op[p].order] \subseteq 1 .. op[p].i
    BY <1>1, <1>3, Before DEF Pass
  <2>2. CASE op[p].i < op[p].n
    <3>1. Moved(p, "read", op[p].i + 1, op[p].n)
      BY <1>1, <1>3, <2>2, Before, NextLineDoes
    <3>2. (op[p].i + 1) - 1 = op[p].i
      BY <1>2
    <3>3. Pass(p)'
      BY <1>1, <2>1, <3>1, <3>2 DEF Pass, Moved, history
    <3>4. QED
      BY <1>1, <3>1, <3>3, Before, ReserveGoesOn DEF history, Lines, Reserving
  <2>3. CASE ~(op[p].i < op[p].n)
    <3>1. Moved(p, "setex", 1, op[p].n)
      BY <1>1, <1>3, <2>3, Before, NextLineDoes
    <3>2. Pass(p)'
      BY <3>1 DEF Pass, Moved
    <3>3. QED
      BY <1>1, <3>1, <3>2, Before, ReserveGoesOn DEF history, Lines, Reserving
  <2>4. QED
    BY <2>2, <2>3
<1>4. CASE op[p].at = "unlock_short" /\ Undo(p, op[p].i - 1)
  <2>1. op[p].i - 1 \in Nat /\ hold[op[p].order] \subseteq 1 .. op[p].i - 1
    BY <1>1, <1>2, <1>4, Before DEF Pass
  <2>2. Pass(p)' /\ \E at \in GivingBack : Moved(p, at, 1, op[p].i - 1)
    BY <1>1, <1>4, <2>1, UndoPasses DEF history
  <2>3. PICK at \in GivingBack : Moved(p, at, 1, op[p].i - 1)
    BY <2>2
  <2>4. at \notin Reserving
    BY DEF Reserving, GivingBack
  <2>5. QED
    BY <1>1, <2>2, <2>3, <2>4, Before, ReserveGoesOn DEF history, Lines
<1>5. QED
  BY <1>3, <1>4 DEF ReleaseProductLock, At

LEMMA LifeWriteKey ==
  ASSUME TypeInv, LifeInv, NEW p \in Procs, MethodStep(p), WriteReservationKey(p)
  PROVE  LifeInv'
<1>1. /\ op[p].at = "setex" /\ op[p].at \in Working /\ op[p].at \in Reserving
      /\ UNCHANGED <<stock, pending, lock, mirror, history>>
  BY DEF WriteReservationKey, At, Working, Labels, Reserving
<1>2. Moved(p, "mirror", op[p].i, op[p].n)
  BY <1>1, Before, GotoDoes DEF WriteReservationKey
<1>3. \A x \in Orders \ {op[p].order} : resKey'[x] = resKey[x]
  BY MethodKeeps DEF WriteReservationKey
<1>4. Pass(p)'
  BY <1>2 DEF Pass, Moved
<1>5. QED
  BY <1>1, <1>2, <1>3, <1>4, Before, ReserveGoesOn DEF history, Lines, Reserving

LEMMA LifeWriteFails ==
  ASSUME TypeInv, LifeInv, NEW p \in Procs, MethodStep(p), WriteFails(p)
  PROVE  LifeInv'
<1>. DEFINE o == op[p].order
<1>1. /\ op[p].at \in {"setex", "mirror"} /\ op[p].at \in Working /\ op[p].at \in Reserving
      /\ UNCHANGED <<stock, pending, lock, history>>
      /\ Undo(p, Len(Cart[o]))
  BY DEF WriteFails, Working, Labels, Reserving
<1>2. \A x \in Orders \ {o} : resKey'[x] = resKey[x] /\ mirror'[x] = mirror[x]
  BY MethodKeeps DEF WriteFails
<1>3. mirror'[o] = mirror[o] \/ mirror'[o] = "reserved"
  BY <1>1, Before, MethodKeeps DEF WriteFails
<1>4. Pass(p)' /\ \E at \in GivingBack : Moved(p, at, 1, Len(Cart[o]))
  BY <1>1, Before, UndoPasses DEF history
<1>5. PICK at \in GivingBack : Moved(p, at, 1, Len(Cart[o]))
  BY <1>4
<1>6. at \notin Reserving
  BY DEF Reserving, GivingBack
<1>7. QED
  BY <1>1, <1>2, <1>3, <1>4, <1>5, <1>6, Before, ReserveGoesOn DEF history, Lines

\* A return of units goes on.
LEMMA GiveBackGoesOn ==
  ASSUME TypeInv, LifeInv, NEW p \in Procs, NEW o \in Orders, op[p].order = o, MethodStep(p),
         op[p].at \in {"decr", "zap"}, NEW at \in GivingBack, NEW i, Moved(p, at, i, op[p].n),
         UNCHANGED <<resKey, mirror, taken>>, hold'[o] \subseteq hold[o],
         \A x \in Orders \ {o} : hold'[x] = hold[x], Pass(p)'
  PROVE  LifeInv'
<1>1. op[p].at \in Working /\ op[p].at \in GivingBack /\ op[p].at \notin {"load", "claim"}
  BY DEF Working, Labels, GivingBack
<1>2. op[p].kind \in {"reserve", "commit", "release"} /\ Stage(p) /\ op[p].kind # "none"
  BY <1>1, KindsAt, Before
<1>3. at \notin {"ok", "failed"} /\ at \notin Reserving
  BY DEF Reserving, GivingBack
<1>4. UNCHANGED <<progress, age, crashes>>
  BY <1>3, MethodKeeps DEF Moved
<1>5. ElsewhereAsWas(o)
  BY <1>4 DEF ElsewhereAsWas
<1>6. Stage(p)'
  BY <1>1, <1>2, <1>3, OrdersAssumption DEF Stage, Moved, GivingBack, Reserving
<1>7. hold'[o] \subseteq Lines(o)
  BY <1>1, Before DEF Lines
<1>8. QED
  BY <1>1, <1>2, <1>3, <1>4, <1>5, <1>6, <1>7, GoesOn

LEMMA AfterLinePasses ==
  ASSUME TypeInv, LifeInv, NEW p \in Procs, op[p].at \in {"decr", "zap"}, AfterLine(p),
         hold'[op[p].order] \subseteq op[p].i + 1 .. op[p].n
  PROVE  Pass(p)' /\ \E at \in GivingBack, i \in Nat : Moved(p, at, i, op[p].n)
<1>1. op[p].at \in Working /\ op[p].at \in LineLabels
  BY DEF Working, Labels, LineLabels
<1>2. op \in [Procs -> OpType] /\ op[p].i \in Nat /\ op[p].n \in Nat /\ NextLineOr(p, "decr", "delkey")
  BY <1>1, Before DEF AfterLine
<1>3. CASE op[p].i < op[p].n
  <2>1. Moved(p, "decr", op[p].i + 1, op[p].n)
    BY <1>2, <1>3, NextLineDoes
  <2>2. Pass(p)'
    BY <2>1 DEF Pass, Moved
  <2>3. op[p].i + 1 \in Nat
    BY <1>2
  <2>4. QED
    BY <2>1, <2>2, <2>3 DEF GivingBack
<1>4. CASE ~(op[p].i < op[p].n)
  <2>1. Moved(p, "delkey", 1, op[p].n)
    BY <1>2, <1>4, NextLineDoes
  <2>2. hold'[op[p].order] = {}
    BY <1>2, <1>4
  <2>3. Pass(p)'
    BY <2>1, <2>2 DEF Pass, Moved
  <2>4. QED
    BY <2>1, <2>3 DEF GivingBack
<1>5. QED
  BY <1>3, <1>4

LEMMA LifeDecr ==
  ASSUME TypeInv, LifeInv, NEW p \in Procs, MethodStep(p), DecrPending(p)
  PROVE  LifeInv'
<1>. DEFINE o == op[p].order
<1>1. /\ op[p].at = "decr" /\ op[p].at \in Working /\ op[p].at \in LineLabels
      /\ UNCHANGED <<stock, lock, resKey, mirror, taken>>
  BY DEF DecrPending, At, Working, Labels, LineLabels
<1>2. o \in Orders /\ hold'[o] = hold[o] \ {op[p].i} /\ \A x \in Orders \ {o} : hold'[x] = hold[x]
  BY <1>1, Before, MethodKeeps DEF DecrPending
<1>3. hold[o] \subseteq op[p].i .. op[p].n /\ op[p].i \in Nat /\ op[p].n \in Nat
  BY <1>1, Before DEF Pass
<1>4. hold'[o] \subseteq op[p].i + 1 .. op[p].n
  BY <1>2, <1>3
<1>5. CASE Goto(p, "zap")
  <2>1. Moved(p, "zap", op[p].i, op[p].n)
    BY <1>1, <1>5, Before, GotoDoes
  <2>2. Pass(p)'
    BY <1>4, <2>1 DEF Pass, Moved
  <2>3. QED
    BY <1>1, <1>2, <2>1, <2>2, GiveBackGoesOn DEF GivingBack
<1>6. CASE AfterLine(p)
  BY <1>1, <1>2, <1>4, <1>6, AfterLinePasses, GiveBackGoesOn
<1>7. QED
  BY <1>5, <1>6 DEF DecrPending

LEMMA LifeZap ==
  ASSUME TypeInv, LifeInv, NEW p \in Procs, MethodStep(p), DeletePending(p)
  PROVE  LifeInv'
<1>. DEFINE o == op[p].order
<1>1. /\ op[p].at = "zap" /\ op[p].at \in Working /\ op[p].at \in LineLabels
      /\ UNCHANGED <<stock, lock, resKey, mirror, history>> /\ AfterLine(p)
  BY DEF DeletePending, At, Working, Labels, LineLabels
<1>2. hold' = hold /\ taken' = taken /\ o \in Orders
  BY <1>1, Before DEF history
<1>3. hold'[o] \subseteq op[p].i + 1 .. op[p].n
  BY <1>1, <1>2, Before DEF Pass
<1>4. QED
  BY <1>1, <1>2, <1>3, AfterLinePasses, GiveBackGoesOn

\* A reserve, commit or release ends; what it leaves is recorded or covered.
LEMMA EndsPast ==
  ASSUME TypeInv, LifeInv, NEW p \in Procs, NEW o \in Orders, op[p].order = o, op[p].at \in Working,
         op[p].kind \in {"reserve", "commit", "release"}, Over(p), hold' = hold,
         ElsewhereAsWas(o), UNCHANGED <<age, crashes>>,
         progress'[o] = progress[o] \/ progress'[o] = "reserved",
         \/ hold[o] = {} \/ mirror'[o] \in {"reserved", "committed"}
         \/ ~Covers(p) /\ mirror'[o] = mirror[o]
  PROVE  LifeInv'
<1>1. /\ Record(o) /\ o \notin CodOrders /\ op[p].kind # "none"
      /\ progress'[o] \notin {"new", "sold", "refused", "unsold"}
  BY Before DEF Sees, Record
<1>2. Record(o)'
  BY <1>1 DEF Record, Lines
<1>3. ASSUME crashes = 0 PROVE Settled(o)'
  <2>1. CASE hold[o] = {} \/ mirror'[o] \in {"reserved", "committed"}
    BY <1>1, <2>1 DEF Settled
  <2>2. CASE ~Covers(p) /\ mirror'[o] = mirror[o] /\ hold[o] # {} /\ mirror[o] \notin {"reserved", "committed"}
    <3>1. PICK q \in Procs : op[q].order = o /\ Covers(q)
      BY <1>3, <2>2 DEF LifeInv, Settled
    <3>2. op'[q] = op[q]
      BY <2>2, <3>1 DEF Over, OthersAsWere
    <3>3. QED
      BY <1>1, <3>1, <3>2 DEF Settled, Covers
  <2>3. QED
    BY <2>1, <2>2
<1>4. QED
  BY <1>1, <1>2, <1>3, Ends

LEMMA LifeDelKey ==
  ASSUME TypeInv, LifeInv, NEW p \in Procs, MethodStep(p), DeleteReservationKey(p)
  PROVE  LifeInv'
<1>. DEFINE o == op[p].order
<1>1. /\ op[p].at = "delkey" /\ op[p].at \in Working /\ op[p].at \in GivingBack
      /\ UNCHANGED <<stock, pending, lock, mirror, history>>
  BY DEF DeleteReservationKey, At, Working, Labels, GivingBack
<1>2. /\ o \in Orders /\ hold[o] = {} /\ op[p].kind \in {"reserve", "commit", "release"} /\ Stage(p)
      /\ op[p].from \in {"none", "redis", "mirror"} /\ op \in [Procs -> OpType] /\ progress[o] # "new"
  BY <1>1, Before, KindsAt DEF Pass, OpType, Record
<1>3. \A x \in Orders \ {o} : hold'[x] = hold[x] /\ taken'[x] = taken[x] /\ resKey'[x] = resKey[x]
  BY <1>1, MethodKeeps DEF DeleteReservationKey, history
<1>4. CASE op[p].from = "redis"
  <2>1. Moved(p, "resolve", op[p].i, op[p].n)
    BY <1>2, <1>4, GotoDoes DEF DeleteReservationKey
  <2>2. UNCHANGED <<progress, age, crashes>>
    BY <2>1, MethodKeeps DEF Moved
  <2>3. op[p].kind \in {"commit", "release"} /\ op[p].n = Len(Cart[o])
    BY <1>2, <1>4 DEF Stage
  <2>4. Stage(p)' /\ Pass(p)'
    BY <1>1, <1>2, <1>4, <2>1, <2>3, OrdersAssumption DEF Stage, Pass, Moved, history
  <2>5. ElsewhereAsWas(o)
    BY <1>1, <1>3, <2>2 DEF ElsewhereAsWas
  <2>6. QED
    BY <1>1, <1>2, <2>1, <2>2, <2>3, <2>4, <2>5, GoesOn DEF Lines, history, Reserving
<1>5. CASE op[p].from # "redis"
  <2>1. /\ Return(p, "ok") \/ Return(p, "failed")
        /\ op[p].from = "none" => Return(p, "failed")
    BY <1>2, <1>5 DEF DeleteReservationKey
  <2>2. Over(p) /\ (op[p].from = "none" => op'[p].at = "failed")
    BY <1>2, <2>1, ReturnDoes
  <2>3. UNCHANGED <<progress, age, crashes>>
    BY <1>2, <1>5, <2>2, MethodKeeps DEF Stage
  <2>4. ElsewhereAsWas(o)
    BY <1>1, <1>3, <2>3 DEF ElsewhereAsWas
  <2>5. QED
    BY <1>1, <1>2, <2>2, <2>3, <2>4, EndsPast DEF history
<1>6. QED
  BY <1>4, <1>5

LEMMA LifeResolve ==
  ASSUME TypeInv, LifeInv, NEW p \in Procs, MethodStep(p), ResolveAfterwards(p)
  PROVE  LifeInv'
<1>. DEFINE o == op[p].order
<1>1. /\ op[p].at = "resolve" /\ op[p].at \in Working
      /\ UNCHANGED <<stock, pending, lock, resKey, history>>
  BY DEF ResolveAfterwards, At, Working, Labels
<1>2. /\ o \in Orders /\ hold[o] = {} /\ op[p].kind \in {"commit", "release"}
      /\ op \in [Procs -> OpType] /\ progress[o] # "new"
  BY <1>1, Before, KindsAt DEF Pass, Record
<1>3. \A x \in Orders \ {o} : mirror'[x] = mirror[x]
  BY MethodKeeps DEF ResolveAfterwards, ResolveMirror
<1>4. Over(p)
  BY <1>2, ReturnDoes DEF ResolveAfterwards
<1>5. UNCHANGED <<progress, age, crashes>>
  BY <1>2, MethodKeeps
<1>6. ElsewhereAsWas(o)
  BY <1>1, <1>3, <1>5 DEF ElsewhereAsWas, history
<1>7. QED
  BY <1>1, <1>2, <1>4, <1>5, <1>6, EndsPast DEF history

LEMMA LifeWriteMirror ==
  ASSUME TypeInv, LifeInv, NEW p \in Procs, MethodStep(p), WriteMirror(p)
  PROVE  LifeInv'
<1>. DEFINE o == op[p].order
<1>1. /\ op[p].at = "mirror" /\ op[p].at \in Working /\ op[p].at \in Reserving
      /\ UNCHANGED <<stock, pending, lock, resKey, history>>
  BY DEF WriteMirror, At, Working, Labels, Reserving
<1>2. /\ o \in Orders /\ op[p].kind = "reserve" /\ mirror[o] = "none" /\ op \in [Procs -> OpType]
  BY <1>1, Before, KindsAt DEF Sees
<1>3. mirror'[o] = "reserved" /\ \A x \in Orders \ {o} : mirror'[x] = mirror[x]
  BY <1>2, MethodKeeps DEF WriteMirror
<1>4. Over(p) /\ op'[p].at = "ok"
  BY <1>2, ReturnDoes DEF WriteMirror
<1>5. progress' = [progress EXCEPT ![o] = "reserved"] /\ UNCHANGED <<age, crashes>>
  BY <1>2, <1>4 DEF MethodStep, Answer
<1>6. progress'[o] = "reserved" /\ \A x \in Orders \ {o} : progress'[x] = progress[x]
  BY <1>2, <1>5, MethodKeeps
<1>7. ElsewhereAsWas(o)
  BY <1>1, <1>3, <1>5, <1>6 DEF ElsewhereAsWas, history
<1>8. QED
  BY <1>1, <1>2, <1>3, <1>4, <1>5, <1>6, <1>7, EndsPast DEF history

\* A commit or release starts its work, from the key or from the mirror.
LEMMA WorkStarts ==
  ASSUME TypeInv, LifeInv, NEW p \in Procs, NEW o \in Orders, op[p].order = o, MethodStep(p),
         op[p].at \in {"load", "claim"}, NEW x \in {"redis", "mirror"},
         op' = [op EXCEPT ![p].from = x, ![p].at = Work(p)],
         UNCHANGED <<resKey, hold, taken>>,
         \A y \in Orders \ {o} : mirror'[y] = mirror[y],
         mirror'[o] = mirror[o] \/ op[p].kind = "release" \/ mirror'[o] = "committed"
  PROVE  LifeInv'
<1>1. op[p].at \in Working /\ op[p].at \notin GivingBack \cup {"take", "resolve"}
  BY DEF Working, Labels, GivingBack
<1>2. /\ op[p].kind \in {"commit", "release"} /\ op \in [Procs -> OpType] /\ op[p] \in OpType
      /\ Stage(p) /\ Sees(p) /\ Record(o) /\ ~Unattended(o)
  BY <1>1, Before, KindsAt
<1>3. op[p].from = "none" /\ op[p].i = 1 /\ op[p].n = Len(Cart[o])
  BY <1>1, <1>2 DEF Stage
<1>5. op'[p] = [op[p] EXCEPT !.from = x, !.at = Work(p)] /\ OthersAsWere(p)
  BY <1>2 DEF OthersAsWere
<1>6. /\ op'[p].kind = op[p].kind /\ op'[p].order = o /\ op'[p].from = x /\ op'[p].at = Work(p)
      /\ op'[p].i = 1 /\ op'[p].n = Len(Cart[o])
  BY <1>2, <1>3, <1>5 DEF OpType
<1>7. Work(p) = IF op[p].kind = "commit" THEN "take" ELSE "decr"
  BY DEF Work
<1>8. UNCHANGED <<progress, age, crashes>>
  BY <1>2, MethodKeeps
<1>9. ElsewhereAsWas(o)
  BY <1>8 DEF ElsewhereAsWas
<1>10. hold[o] \subseteq 1 .. Len(Cart[o])
  BY <1>2 DEF Record, Lines
<1>11. Own(p)'
  <2>1. Stage(p)'
    BY <1>2, <1>6, <1>7, OrdersAssumption DEF Stage, GivingBack
  <2>2. Pass(p)'
    BY <1>6, <1>7, <1>10 DEF Pass
  <2>3. Sees(p)'
    BY <1>2, <1>6 DEF Sees
  <2>4. QED
    BY <2>1, <2>2, <2>3 DEF Own
<1>12. o \notin CodOrders /\ progress[o] # "new"
  BY <1>2 DEF Sees, Record
<1>13. Record(o)'
  BY <1>2, <1>8, <1>12 DEF Record, Lines
<1>14. ASSUME crashes = 0 PROVE Settled(o)'
  <2>1. CASE op[p].kind = "release"
    BY <1>6, <1>12, <2>1 DEF Settled, Covers
  <2>2. CASE op[p].kind = "commit" /\ mirror'[o] = "committed"
    BY <1>12, <2>2 DEF Settled
  <2>3. CASE op[p].kind = "commit" /\ mirror'[o] = mirror[o]
    <3>1. Settled(o) /\ ~Covers(p)
      BY <1>14, <2>3 DEF LifeInv, Covers
    <3>2. CASE \E q \in Procs : op[q].order = o /\ Covers(q)
      <4>1. PICK q \in Procs : op[q].order = o /\ Covers(q)
        BY <3>2
      <4>2. op'[q] = op[q]
        BY <1>5, <3>1, <4>1 DEF OthersAsWere
      <4>3. QED
        BY <1>12, <4>1, <4>2 DEF Settled, Covers
    <3>3. CASE ~\E q \in Procs : op[q].order = o /\ Covers(q)
      BY <1>12, <2>3, <3>1, <3>3 DEF Settled
    <3>4. QED
      BY <3>2, <3>3
  <2>4. QED
    BY <1>2, <2>1, <2>2, <2>3
<1>15. QED
  BY <1>2, <1>5, <1>6, <1>8, <1>9, <1>11, <1>13, <1>14, Assemble

LEMMA LifeLoad ==
  ASSUME TypeInv, LifeInv, NEW p \in Procs, MethodStep(p), LoadReservation(p)
  PROVE  LifeInv'
<1>. DEFINE o == op[p].order
<1>1. /\ op[p].at = "load" /\ op[p].at \in Working /\ op[p].at \in LineLabels
      /\ UNCHANGED <<shared, history>>
  BY DEF LoadReservation, At, Working, Labels, LineLabels
<1>2. /\ o \in Orders /\ op[p].kind \in {"commit", "release"} /\ Stage(p)
      /\ op \in [Procs -> OpType]
  BY <1>1, Before, KindsAt
<1>3. CASE resKey[o]
  BY <1>1, <1>2, <1>3, WorkStarts DEF LoadReservation, shared, history
<1>4. CASE ~resKey[o]
  <2>1. Moved(p, "claim", op[p].i, op[p].n)
    BY <1>2, <1>4, GotoDoes DEF LoadReservation
  <2>2. UNCHANGED <<progress, age, crashes>>
    BY <1>2, MethodKeeps
  <2>3. ElsewhereAsWas(o)
    BY <1>1, <2>2 DEF ElsewhereAsWas, shared, history
  <2>4. Stage(p)' /\ Pass(p)'
    BY <1>1, <1>2, <2>1, OrdersAssumption DEF Stage, Pass, Moved, GivingBack
  <2>5. hold'[o] \subseteq Lines(o)
    BY <1>1, Before DEF Lines, history
  <2>6. QED
    BY <1>1, <1>2, <2>1, <2>2, <2>3, <2>4, <2>5, GoesOn DEF shared, history, Reserving
<1>5. QED
  BY <1>3, <1>4

LEMMA LifeClaim ==
  ASSUME TypeInv, LifeInv, NEW p \in Procs, MethodStep(p), ClaimMirror(p)
  PROVE  LifeInv'
<1>. DEFINE o == op[p].order
<1>1. /\ op[p].at = "claim" /\ op[p].at \in Working
      /\ UNCHANGED <<stock, pending, lock, resKey, history>>
      /\ mirror' = ResolveMirror(mirror, o, Resolution(p))
  BY DEF ClaimMirror, At, Working, Labels
<1>2. /\ o \in Orders /\ op[p].kind \in {"commit", "release"} /\ Stage(p) /\ progress[o] # "new"
      /\ op \in [Procs -> OpType] /\ mirror \in [Orders -> MirrorStatus]
  BY <1>1, Before, KindsAt, MethodKeeps DEF Record
<1>3. \A y \in Orders \ {o} : mirror'[y] = mirror[y]
  BY <1>1, <1>2 DEF ResolveMirror
<1>4. CASE mirror[o] = "reserved"
  <2>1. mirror'[o] = "committed" \/ op[p].kind = "release"
    BY <1>1, <1>2, <1>4 DEF ResolveMirror, Resolution
  <2>2. op' = [op EXCEPT ![p].from = "mirror", ![p].at = Work(p)]
    BY <1>4 DEF ClaimMirror
  <2>3. QED
    BY <1>1, <1>2, <1>3, <2>1, <2>2, WorkStarts DEF history
<1>5. CASE mirror[o] # "reserved"
  <2>1. Return(p, "ok")
    BY <1>5 DEF ClaimMirror
  <2>2. Over(p)
    BY <1>2, <2>1, ReturnDoes
  <2>3. mirror' = mirror
    BY <1>1, <1>5 DEF ResolveMirror
  <2>4. op[p].from = "none"
    BY <1>1, <1>2 DEF Stage, GivingBack
  <2>5. ~Covers(p)
    BY <1>2, <2>4 DEF Covers
  <2>6. UNCHANGED <<progress, age, crashes>>
    BY <1>2, MethodKeeps
  <2>7. ElsewhereAsWas(o)
    BY <1>1, <2>3, <2>6 DEF ElsewhereAsWas, history
  <2>8. QED
    BY <1>1, <1>2, <2>2, <2>3, <2>5, <2>6, <2>7, EndsPast DEF history
<1>6. QED
  BY <1>4, <1>5

\* A step of the only method at work on a cash order.
LEMMA CashGoesOn ==
  ASSUME TypeInv, LifeInv, NEW p \in Procs, NEW o \in CodOrders, op[p].order = o, MethodStep(p),
         op[p].at \in {"take", "restock"}, op[p].kind \in {"sell", "restock"},
         Moved(p, op[p].at, op[p].i + 1, op[p].n),
         UNCHANGED <<resKey, mirror, hold>>, \A y \in Orders \ {o} : taken'[y] = taken[y],
         Sees(p)'
  PROVE  LifeInv'
<1>1. op[p].at \in Working /\ o \in Orders
  BY OrdersAssumption DEF Working, Labels
<1>2. /\ op \in [Procs -> OpType] /\ op[p].i \in Nat /\ op[p].n \in Nat
      /\ Stage(p) /\ Sees(p) /\ Record(o) /\ ~Unattended(o)
  BY <1>1, Before
<1>3. /\ OthersAsWere(p) /\ op'[p].kind = op[p].kind /\ op'[p].order = o /\ op'[p].at = op[p].at
      /\ op'[p].from = op[p].from /\ op'[p].n = op[p].n
  BY DEF Moved
<1>4. UNCHANGED <<progress, age, crashes>>
  BY <1>3, MethodKeeps
<1>5. ElsewhereAsWas(o)
  BY <1>4 DEF ElsewhereAsWas
<1>6. Own(p)'
  <2>1. Stage(p)'
    BY <1>2, <1>3, OrdersAssumption DEF Stage
  <2>2. Pass(p)'
    BY <1>3 DEF Pass
  <2>3. QED
    BY <2>1, <2>2 DEF Own
<1>7. hold[o] = {} /\ progress[o] \in {"asked", "unsold"}
  BY <1>2 DEF Record, Sees
<1>8. Record(o)'
  BY <1>2, <1>4, <1>7 DEF Record, Lines
<1>9. Settled(o)'
  BY <1>3, <1>7 DEF Settled, Unattended
<1>10. QED
  BY <1>1, <1>3, <1>4, <1>5, <1>6, <1>8, <1>9, Assemble

\* The only method at work on a cash order ends.
LEMMA CashEnds ==
  ASSUME TypeInv, LifeInv, NEW p \in Procs, NEW o \in CodOrders, op[p].order = o,
         op[p].at \in {"take", "restock"}, op[p].kind \in {"sell", "restock"}, Over(p),
         UNCHANGED <<resKey, mirror, hold, age, crashes>>,
         \A y \in Orders \ {o} : taken'[y] = taken[y] /\ progress'[y] = progress[y],
         \/ progress'[o] = "refused" /\ taken'[o] \in 0 .. Len(Cart[o]) - 1
         \/ progress'[o] = "sold" /\ taken'[o] = Len(Cart[o])
         \/ progress'[o] = "unsold" /\ taken'[o] = 0
  PROVE  LifeInv'
<1>1. op[p].at \in Working /\ o \in Orders
  BY OrdersAssumption DEF Working, Labels
<1>2. Record(o) /\ hold[o] = {} /\ op[p].kind # "none" /\ Alone(p)
  BY <1>1, Before DEF Record, LifeInv
<1>3. Unattended(o)'
  BY <1>1, <1>2, OrdersAssumption DEF Unattended, Over, OthersAsWere, Alone
<1>4. Record(o)'
  BY <1>2, <1>3 DEF Record, Lines
<1>5. Settled(o)'
  BY <1>2 DEF Settled
<1>6. ElsewhereAsWas(o)
  BY DEF ElsewhereAsWas
<1>7. QED
  BY <1>1, <1>2, <1>4, <1>5, <1>6, Ends

LEMMA LifeTake ==
  ASSUME TypeInv, LifeInv, NEW p \in Procs, MethodStep(p), TakeStock(p)
  PROVE  LifeInv'
<1>. DEFINE o == op[p].order
<1>1. /\ op[p].at = "take" /\ op[p].at \in Working /\ op[p].at \in LineLabels
      /\ op[p].at \notin {"load", "claim"}
      /\ UNCHANGED <<pending, lock, resKey, mirror, hold>>
  BY DEF TakeStock, At, Working, Labels, LineLabels
<1>2. /\ o \in Orders /\ op[p].kind \in {"commit", "sell"} /\ Stage(p) /\ Sees(p) /\ progress[o] # "new"
      /\ op \in [Procs -> OpType] /\ taken \in [Orders -> Int] /\ progress \in [Orders -> Progress]
      /\ op[p].n = Len(Cart[o])
  BY <1>1, Before, KindsAt, MethodKeeps DEF Record, Stage
<1>3. op[p].i \in 1 .. op[p].n /\ op[p].n \in Nat /\ op[p].i \in Nat
  BY <1>1, Before
<1>4. \A y \in Orders \ {o} : taken'[y] = taken[y]
  BY <1>2 DEF TakeStock
<1>5. UNCHANGED <<age, crashes>>
  BY MethodKeeps
<1>6. CASE op[p].kind = "commit"
  <2>1. progress' = progress
    BY <1>6, MethodKeeps
  <2>2. ElsewhereAsWas(o)
    BY <1>1, <1>4, <1>5, <2>1 DEF ElsewhereAsWas
  <2>3. CASE NextLineOr(p, "take", "decr")
    <3>1. PICK at \in {"take", "decr"}, i \in Nat :
             Moved(p, at, i, op[p].n) /\ (at = "decr" => i = 1)
      BY <1>2, <1>3, <2>3, NextLineDoes
    <3>2. Stage(p)'
      BY <1>1, <1>2, <1>6, <3>1, OrdersAssumption DEF Stage, Moved, GivingBack
    <3>3. hold'[o] \subseteq 1 .. op[p].n /\ hold'[o] \subseteq Lines(o)
      BY <1>1, <1>2, Before DEF Lines
    <3>4. Pass(p)'
      BY <1>1, <3>1, <3>3 DEF Pass, Moved
    <3>5. QED
      BY <1>1, <1>2, <1>5, <1>6, <2>1, <2>2, <3>1, <3>2, <3>3, <3>4, GoesOn DEF Reserving
  <2>4. CASE Return(p, "failed")
    <3>1. Over(p) /\ ~Covers(p)
      BY <1>2, <1>6, <2>4, ReturnDoes DEF Covers
    <3>2. QED
      BY <1>1, <1>2, <1>5, <1>6, <2>1, <2>2, <3>1, EndsPast
  <2>5. QED
    BY <1>6, <2>3, <2>4 DEF TakeStock, AfterTaking
<1>7. CASE op[p].kind = "sell"
  <2>1. o \in CodOrders /\ progress[o] = "asked" /\ taken[o] = op[p].i - 1
    BY <1>2, <1>7 DEF Sees
  <2>2. CASE taken' = [taken EXCEPT ![o] = @ + 1] /\ op[p].i # op[p].n /\ NextLineOr(p, "take", "decr")
    <3>1. op[p].i < op[p].n
      BY <1>3, <2>2
    <3>2. Moved(p, op[p].at, op[p].i + 1, op[p].n)
      BY <1>1, <1>2, <2>2, <3>1, NextLineDoes
    <3>3. taken'[o] = (op[p].i + 1) - 1
      BY <1>2, <1>3, <2>1, <2>2
    <3>4. progress' = progress
      BY <1>1, <3>2, MethodKeeps DEF Moved
    <3>5. Sees(p)'
      BY <1>7, <2>1, <3>2, <3>3, <3>4 DEF Sees, Moved
    <3>6. QED
      BY <1>1, <1>4, <1>7, <2>1, <3>2, <3>5, CashGoesOn
  <2>3. CASE taken' = [taken EXCEPT ![o] = @ + 1] /\ op[p].i = op[p].n /\ Return(p, "ok")
    <3>1. Over(p) /\ op'[p].at = "ok"
      BY <1>2, <2>3, ReturnDoes
    <3>2. progress' = [progress EXCEPT ![o] = "sold"]
      BY <1>7, <3>1 DEF MethodStep, Answer
    <3>3. progress'[o] = "sold" /\ \A y \in Orders \ {o} : progress'[y] = progress[y]
      BY <1>2, <3>2
    <3>4. taken'[o] = Len(Cart[o])
      BY <1>2, <1>3, <2>1, <2>3
    <3>5. QED
      BY <1>1, <1>4, <1>5, <1>7, <2>1, <3>1, <3>3, <3>4, CashEnds
  <2>4. CASE taken' = taken /\ Return(p, "failed")
    <3>1. Over(p) /\ op'[p].at = "failed"
      BY <1>2, <2>4, ReturnDoes
    <3>2. progress' = [progress EXCEPT ![o] = "refused"]
      BY <1>7, <3>1 DEF MethodStep, Answer
    <3>3. progress'[o] = "refused" /\ \A y \in Orders \ {o} : progress'[y] = progress[y]
      BY <1>2, <3>2
    <3>4. taken'[o] \in 0 .. Len(Cart[o]) - 1
      BY <1>2, <1>3, <2>1, <2>4
    <3>5. QED
      BY <1>1, <1>4, <1>5, <1>7, <2>1, <3>1, <3>3, <3>4, CashEnds
  <2>5. QED
    BY <1>7, <2>2, <2>3, <2>4 DEF TakeStock, AfterTaking
<1>8. QED
  BY <1>2, <1>6, <1>7

LEMMA LifeRestock ==
  ASSUME TypeInv, LifeInv, NEW p \in Procs, MethodStep(p), Restock(p)
  PROVE  LifeInv'
<1>. DEFINE o == op[p].order
<1>1. /\ op[p].at = "restock" /\ op[p].at \in Working /\ op[p].at \in LineLabels
      /\ UNCHANGED <<pending, lock, resKey, mirror, hold>>
      /\ taken' = [taken EXCEPT ![o] = @ - 1]
  BY DEF Restock, At, Working, Labels, LineLabels
<1>2. /\ o \in Orders /\ op[p].kind = "restock" /\ Stage(p) /\ Sees(p)
      /\ op \in [Procs -> OpType] /\ taken \in [Orders -> Int]
      /\ op[p].n = Len(Cart[o])
  BY <1>1, Before, KindsAt, MethodKeeps DEF Stage
<1>3. op[p].i \in 1 .. op[p].n /\ op[p].n \in Nat /\ op[p].i \in Nat
  BY <1>1, Before
<1>4. o \in CodOrders /\ progress[o] = "unsold" /\ taken[o] = Len(Cart[o]) - op[p].i + 1
  BY <1>2 DEF Sees
<1>5. UNCHANGED <<age, crashes, progress>>
  BY <1>2, MethodKeeps
<1>6. taken'[o] = Len(Cart[o]) - op[p].i /\ \A y \in Orders \ {o} : taken'[y] = taken[y]
  BY <1>1, <1>2, <1>3, <1>4
<1>7. CASE op[p].i < op[p].n
  <2>1. NextLineOr(p, "restock", "ok")
    BY <1>7 DEF Restock
  <2>2. Moved(p, op[p].at, op[p].i + 1, op[p].n)
    BY <1>1, <1>2, <1>7, <2>1, NextLineDoes
  <2>3. taken'[o] = Len(Cart[o]) - (op[p].i + 1) + 1
    BY <1>2, <1>3, <1>6
  <2>4. Sees(p)'
    BY <1>2, <1>4, <1>5, <2>2, <2>3 DEF Sees, Moved
  <2>5. QED
    BY <1>1, <1>2, <1>4, <1>6, <2>2, <2>4, CashGoesOn
<1>8. CASE ~(op[p].i < op[p].n)
  <2>1. Over(p)
    BY <1>2, <1>8, ReturnDoes DEF Restock
  <2>2. taken'[o] = 0
    BY <1>2, <1>3, <1>6, <1>8
  <2>3. QED
    BY <1>1, <1>2, <1>4, <1>5, <1>6, <2>1, <2>2, CashEnds
<1>9. QED
  BY <1>7, <1>8

LEMMA LifeStep ==
  ASSUME TypeInv, LifeInv, NEW p \in Procs, MethodStep(p)
  PROVE  LifeInv'
<1>1. Step(p)
  BY DEF MethodStep
<1>2. QED
  BY <1>1, LifeRead, LifeAcquire, LifeCheck, LifeIncr, LifeUnlock, LifeWriteKey, LifeWriteMirror,
     LifeWriteFails, LifeDecr, LifeZap, LifeLoad, LifeClaim, LifeTake, LifeDelKey, LifeResolve,
     LifeRestock DEF Step

-----------------------------------------------------------------------------
(* Calls, crashes and the clock. *)

\* A call starts a method on an order.
LEMMA CallBegins ==
  ASSUME TypeInv, LifeInv, NEW p \in Procs, NEW o \in Orders, Free(p),
         NEW kind \in Kinds \ {"none"}, Call(p, kind, o),
         UNCHANGED <<hold, taken, resKey, mirror, age, crashes>>,
         \A y \in Orders \ {o} : progress'[y] = progress[y],
         \/ Unattended(o)
         \/ /\ kind \in {"commit", "release"} /\ progress' = progress
            /\ \A q \in Procs : op[q].order = o => op[q].kind \notin {"reserve", "sell", "restock"},
         kind = "reserve" => hold[o] = {}, Sees(p)', Record(o)'
  PROVE  LifeInv'
<1>1. /\ op \in [Procs -> OpType] /\ NoOrder \notin Orders
      /\ \A q \in Procs : op[q].order \in Orders \cup {NoOrder} /\ Own(q) /\ InRange(q) /\ Alone(q)
  BY OrdersAssumption DEF TypeInv, OpOK, OpType, LifeInv
<1>2. /\ op'[p].kind = kind /\ op'[p].order = o /\ op'[p].at = First(kind) /\ op'[p].i = 1
      /\ op'[p].n = Len(Cart[o]) /\ op'[p].from = "none" /\ OthersAsWere(p)
  BY <1>1 DEF Call, OthersAsWere
<1>3. op[p].kind = "none" /\ op[p].order = NoOrder
  BY <1>1 DEF Free, Own, Stage
<1>4. First(kind) = IF kind = "reserve" THEN "read" ELSE IF kind \in {"commit", "release"} THEN "load"
                    ELSE IF kind = "sell" THEN "take" ELSE "restock"
  BY DEF First, Kinds
<1>5. Own(p)'
  <2>1. Stage(p)'
    BY <1>1, <1>2, <1>4 DEF Stage, Kinds, Reserving, GivingBack
  <2>2. Pass(p)'
    BY <1>2, <1>4 DEF Pass
  <2>3. QED
    BY <2>1, <2>2 DEF Own
<1>6. ASSUME NEW q \in Procs, q # p PROVE Own(q)'
  <2>1. op'[q] = op[q] /\ Own(q) /\ Stage(q)'
    BY <1>1, <1>2, <1>6 DEF OthersAsWere, Own, Stage
  <2>2. CASE op[q].order = NoOrder
    <3>1. op[q].kind = "none" /\ op[q].at \notin Working
      BY <1>1, <2>1, <2>2 DEF Own, Stage, InRange
    <3>2. Pass(q)' /\ Sees(q)'
      BY <2>1, <3>1 DEF Pass, Sees, Working, Labels
    <3>3. QED
      BY <2>1, <3>2 DEF Own
  <2>3. CASE op[q].order = o
    <3>1. progress' = progress
      BY <2>3 DEF Unattended
    <3>2. QED
      BY <2>1, <2>3, <3>1 DEF Own, Pass, Sees
  <2>4. CASE op[q].order \in Orders \ {o}
    BY <2>1, <2>4 DEF Own, Pass, Sees
  <2>5. QED
    BY <1>1, <2>2, <2>3, <2>4
<1>7. ASSUME NEW q \in Procs PROVE Alone(q)'
  <2>1. ASSUME NEW r \in Procs, op'[q].kind \in {"reserve", "sell", "restock"}, op'[r].order = op'[q].order
        PROVE  r = q
    <3>1. CASE q = p
      BY <1>2, <2>1, <3>1 DEF OthersAsWere, Unattended
    <3>2. CASE q # p /\ r = p
      BY <1>2, <2>1, <3>2 DEF OthersAsWere, Unattended
    <3>3. CASE q # p /\ r # p
      BY <1>1, <1>2, <2>1, <3>3 DEF OthersAsWere, Alone
    <3>4. QED
      BY <3>1, <3>2, <3>3
  <2>2. QED
    BY <2>1 DEF Alone
<1>8. ASSUME NEW x \in Orders, x # o PROVE Unattended(x)' <=> Unattended(x)
  BY <1>1, <1>2, <1>3, <1>8 DEF OthersAsWere, Unattended
<1>9. ASSUME NEW x \in Orders PROVE Record(x)'
  BY <1>8, <1>9 DEF LifeInv, Record, Lines
<1>10. ASSUME NEW x \in Orders, crashes' = 0 PROVE Settled(x)'
  <2>1. Settled(x)
    BY <1>10 DEF LifeInv
  <2>2. ASSUME NEW q \in Procs, op[q].order = x, Covers(q) PROVE op'[q].order = x /\ Covers(q)'
    BY <1>2, <1>3, <2>2 DEF OthersAsWere, Covers
  <2>3. \/ hold[x] = {} \/ mirror[x] \in {"reserved", "committed"}
        \/ \E q \in Procs : op'[q].order = x /\ Covers(q)'
    BY <2>1, <2>2 DEF Settled
  <2>4. CASE x = o
    BY <1>2, <2>3, <2>4 DEF Settled, Unattended
  <2>5. CASE x # o
    BY <1>8, <1>10, <2>1, <2>3, <2>5 DEF Settled
  <2>6. QED
    BY <2>4, <2>5
<1>11. QED
  BY <1>5, <1>6, <1>7, <1>9, <1>10 DEF LifeInv

LEMMA LifeBegin ==
  ASSUME TypeInv, LifeInv, NEW p \in Procs, NEW o \in Orders, Begin(p, o)
  PROVE  LifeInv'
<1>1. /\ Free(p) /\ progress[o] = "new" /\ progress' = [progress EXCEPT ![o] = "asked"]
      /\ UNCHANGED <<hold, taken, resKey, mirror, age, crashes>>
  BY DEF Begin, shared, history
<1>2. progress'[o] = "asked" /\ \A y \in Orders \ {o} : progress'[y] = progress[y]
  BY <1>1 DEF TypeInv, EnvOK
<1>3. Record(o)
  BY DEF LifeInv
<1>4. /\ Unattended(o) /\ ~resKey[o] /\ mirror[o] = "none" /\ age[o] = 0 /\ hold[o] = {} /\ taken[o] = 0
  BY <1>1, <1>3 DEF Record
<1>5. Record(o)'
  BY <1>1, <1>2, <1>4 DEF Record
<1>. DEFINE kind == IF o \in CodOrders THEN "sell" ELSE "reserve"
<1>6. Call(p, kind, o) /\ kind \in Kinds \ {"none"}
  BY DEF Begin, Kinds
<1>7. op \in [Procs -> OpType]
  BY DEF TypeInv, OpOK
<1>8. op'[p].kind = kind /\ op'[p].order = o /\ op'[p].i = 1
  BY <1>6, <1>7 DEF Call
<1>9. Sees(p)'
  BY <1>1, <1>2, <1>4, <1>8 DEF Sees
<1>. HIDE DEF kind
<1>10. QED
  BY <1>1, <1>2, <1>4, <1>5, <1>6, <1>9, CallBegins

LEMMA LifeInsertFailed ==
  ASSUME TypeInv, LifeInv, NEW p \in Procs, NEW o \in Orders, InsertFailed(p, o)
  PROVE  LifeInv'
<1>1. /\ Free(p) /\ progress[o] = "sold" /\ progress' = [progress EXCEPT ![o] = "unsold"]
      /\ UNCHANGED <<hold, taken, resKey, mirror, age, crashes>> /\ Call(p, "restock", o)
  BY DEF InsertFailed, shared, history
<1>2. progress'[o] = "unsold" /\ \A y \in Orders \ {o} : progress'[y] = progress[y]
  BY <1>1 DEF TypeInv, EnvOK
<1>3. Record(o)
  BY DEF LifeInv
<1>4. /\ Unattended(o) /\ o \in CodOrders /\ ~resKey[o] /\ mirror[o] = "none" /\ hold[o] = {}
      /\ taken[o] = Len(Cart[o])
  BY <1>1, <1>3 DEF Record
<1>5. Record(o)'
  BY <1>1, <1>2, <1>4 DEF Record
<1>6. op \in [Procs -> OpType] /\ "restock" \in Kinds \ {"none"} /\ Len(Cart[o]) \in Nat
  BY CartLength DEF TypeInv, OpOK, Kinds
<1>7. op'[p].kind = "restock" /\ op'[p].order = o /\ op'[p].i = 1
  BY <1>1, <1>6 DEF Call
<1>8. taken'[o] = Len(Cart[o]) - 1 + 1
  BY <1>1, <1>4, <1>6
<1>9. Sees(p)'
  BY <1>2, <1>4, <1>7, <1>8 DEF Sees
<1>10. QED
  BY <1>1, <1>2, <1>4, <1>5, <1>6, <1>9, CallBegins

LEMMA LifeResolver ==
  ASSUME TypeInv, LifeInv, NEW p \in Procs, NEW o \in Orders, NEW kind \in {"commit", "release"},
         Free(p), Call(p, kind, o),
         UNCHANGED <<hold, taken, resKey, mirror, age, crashes, progress>>,
         \/ progress[o] = "reserved"
         \/ resKey[o] /\ age[o] >= 1
         \/ mirror[o] = "reserved" /\ age[o] = 2
  PROVE  LifeInv'
<1>1. Record(o) /\ age[o] \in 0 .. 2
  BY DEF LifeInv, TypeInv, EnvOK
<1>2. o \notin CodOrders /\ progress[o] # "new" /\ (progress[o] = "reserved" \/ age[o] # 0)
  BY <1>1 DEF Record
<1>3. ASSUME NEW q \in Procs, op[q].order = o PROVE op[q].kind \notin {"reserve", "sell", "restock"}
  <2>1. Sees(q)
    BY DEF LifeInv, Own
  <2>2. QED
    BY <1>2, <1>3, <2>1 DEF Sees
<1>4. op \in [Procs -> OpType] /\ kind \in Kinds \ {"none"}
  BY DEF TypeInv, OpOK, Kinds
<1>5. op'[p].kind = kind /\ op'[p].order = o
  BY <1>4 DEF Call
<1>6. Sees(p)' /\ Record(o)'
  BY <1>1, <1>2, <1>5 DEF Sees, Record, Lines
<1>7. QED
  BY <1>3, <1>4, <1>6, CallBegins

LEMMA LifeCrash ==
  ASSUME TypeInv, LifeInv, NEW p \in Procs, Crash(p)
  PROVE  LifeInv'
<1>1. /\ op \in [Procs -> OpType] /\ op[p].kind # "none" /\ crashes \in Nat /\ crashes' = crashes + 1
      /\ UNCHANGED <<hold, taken, resKey, mirror, age, progress>>
  BY BoundAssumption DEF TypeInv, OpOK, EnvOK, Crash, Free, shared, history
<1>2. Over(p)
  BY <1>1, ReturnDoes DEF Crash
<1>3. PICK o \in Orders : op[p].order = o
  BY <1>1 DEF LifeInv, Own, Stage, OpType
<1>4. Record(o) /\ ~Unattended(o)
  BY <1>3 DEF LifeInv, Unattended
<1>5. Record(o)'
  BY <1>1, <1>4 DEF Record, Lines
<1>6. crashes' # 0
  BY <1>1
<1>7. ElsewhereAsWas(o)
  BY <1>1 DEF ElsewhereAsWas
<1>8. QED
  BY <1>1, <1>2, <1>3, <1>5, <1>6, <1>7, Ends

LEMMA LifeTick ==
  ASSUME TypeInv, LifeInv, NEW o \in Orders, Tick(o)
  PROVE  LifeInv'
<1>1. /\ resKey[o] \/ mirror[o] = "reserved"
      /\ \A p \in Procs : ~(op[p].order = o /\ op[p].kind = "reserve")
      /\ UNCHANGED <<hold, taken, mirror, progress, crashes, op>>
      /\ \A x \in Orders \ {o} : resKey'[x] = resKey[x] /\ age'[x] = age[x]
  BY DEF Tick, history, TypeInv, DataOK, EnvOK
<1>2. ASSUME NEW p \in Procs PROVE Own(p)' /\ Alone(p)'
  <2>1. Own(p) /\ Alone(p) /\ op[p].order \in Orders \cup {NoOrder}
    BY DEF LifeInv, TypeInv, OpOK, OpType
  <2>2. op[p].kind = "reserve" => op[p].order \in Orders \ {o}
    BY <1>1, <2>1 DEF Own, Stage
  <2>3. Sees(p)'
    BY <1>1, <2>1, <2>2 DEF Own, Sees
  <2>4. QED
    BY <1>1, <2>1, <2>3 DEF Own, Alone, Stage, Pass
<1>3. ASSUME NEW x \in Orders PROVE Record(x)'
  <2>1. Record(x) /\ Record(o)
    BY DEF LifeInv
  <2>2. progress[o] # "new" /\ o \notin CodOrders
    BY <1>1, <2>1 DEF Record
  <2>3. CASE x = o
    BY <1>1, <2>1, <2>2, <2>3 DEF Record, Lines
  <2>4. CASE x # o
    BY <1>1, <2>1, <2>4 DEF Record, Lines, Unattended
  <2>5. QED
    BY <2>3, <2>4
<1>4. ASSUME NEW x \in Orders, crashes' = 0 PROVE Settled(x)'
  <2>1. Settled(x)
    BY <1>1, <1>4 DEF LifeInv
  <2>2. QED
    BY <1>1, <2>1 DEF Settled, Unattended, Covers
<1>5. QED
  BY <1>2, <1>3, <1>4 DEF LifeInv

LEMMA LifeNext == TypeInv /\ LifeInv /\ [Next]_invVars => LifeInv'
<1>. SUFFICES ASSUME TypeInv, LifeInv, [Next]_invVars PROVE LifeInv'
  OBVIOUS
<1>1. ASSUME NEW p \in Procs, NEW o \in Orders, Sweep(p, o) PROVE LifeInv'
  BY <1>1, LifeResolver DEF Sweep, shared, history
<1>2. ASSUME NEW p \in Procs, NEW o \in Orders, NEW kind \in {"commit", "release"}, Finish(p, o, kind)
      PROVE  LifeInv'
  BY <1>2, LifeResolver DEF Finish, shared, history
<1>3. ASSUME UNCHANGED <<hold, taken, resKey, mirror, age, progress, crashes, op>> PROVE LifeInv'
  BY <1>3 DEF LifeInv, Own, Stage, Pass, Sees, Alone, Record, Lines, Unattended, Settled, Covers
<1>4. ASSUME NEW r \in Rows, LockExpires(r) PROVE LifeInv'
  BY <1>3, <1>4 DEF LockExpires, history
<1>5. CASE UNCHANGED invVars
  BY <1>3, <1>5 DEF invVars
<1>6. QED
  BY <1>1, <1>2, <1>4, <1>5, LifeStep, LifeCrash, LifeBegin, LifeInsertFailed, LifeTick DEF Next

LEMMA LifeInit ==
  ASSUME Init
  PROVE  LifeInv
<1>1. ASSUME NEW p \in Procs PROVE Own(p) /\ Alone(p)
  BY <1>1, OrdersAssumption DEF Init, Ended, Own, Stage, Pass, Sees, Alone, Reserving, GivingBack
<1>2. ASSUME NEW o \in Orders PROVE Record(o) /\ Settled(o)
  BY <1>2, OrdersAssumption DEF Init, Ended, Record, Settled, Unattended
<1>3. QED
  BY <1>1, <1>2 DEF LifeInv

\* The invariant the next two theorems rest on: at every step of every
\* interleaving, how far each method is, what its order still holds and what
\* was taken for it agree.
THEOREM LifeInvHolds == Spec => []LifeInv
<1>1. Init => LifeInv
  BY LifeInit
<1>2. QED
  BY <1>1, TypeInit, TypeNext, LifeNext, PTL DEF Spec

\* A cash sale that was accepted took every line of its cart once, a refused
\* one the lines before the short one and never all; without a crash one that
\* was reversed took nothing: for any number of concurrent sales, reservations,
\* commits, releases and sweeps on the same rows.
THEOREM SaleIsAccountedHolds == Spec => []SaleIsAccounted
<1>1. LifeInv => SaleIsAccounted
  BY OrdersAssumption DEF LifeInv, Record, Settled, SaleIsAccounted, Busy, Unattended
<1>2. QED
  BY <1>1, LifeInvHolds, PTL

\* Without a crash, units counted in pending outlive the methods at work on
\* their order only while the mirror records the order or a commit claimed it.
THEOREM NoLeakedHoldHolds == Spec => []NoLeakedHold
<1>1. LifeInv => NoLeakedHold
  BY DEF LifeInv, Settled, NoLeakedHold, Busy
<1>2. QED
  BY <1>1, LifeInvHolds, PTL

-----------------------------------------------------------------------------
(* The units counted in inv:pending. *)

\* inv:pending counts at most the units held.
Counted == \A r \in Rows : IsFiniteSet(HeldUnits(r)) /\ pending[r] <= Outstanding(r)

LEMMA UnitsOfLine ==
  ASSUME NEW o \in Orders, NEW i \in 1 .. Len(Cart[o])
  PROVE  /\ IsFiniteSet(Units(<<o, i>>))
         /\ Cardinality(Units(<<o, i>>)) = Cart[o][i].qty
<1>. DEFINE n == Cart[o][i].qty
<1>1. n \in Nat \ {0} /\ 1 \in Int /\ n \in Int
  BY CartLine
<1>. HIDE DEF n
<1>2. IsFiniteSet(1 .. n) /\ Cardinality(1 .. n) = IF 1 > n THEN 0 ELSE n - 1 + 1
  BY <1>1, FS_Interval
<1>3. Cardinality(1 .. n) = n
  BY <1>1, <1>2
<1>4. IsFiniteSet({<<o, i>>}) /\ Cardinality({<<o, i>>}) = 1
  BY FS_Singleton
<1>5. /\ IsFiniteSet({<<o, i>>} \X (1 .. n))
      /\ Cardinality({<<o, i>>} \X (1 .. n)) = Cardinality({<<o, i>>}) * Cardinality(1 .. n)
  BY <1>2, <1>4, FS_Product
<1>6. Cardinality({<<o, i>>} \X (1 .. n)) = n
  BY <1>1, <1>3, <1>4, <1>5
<1>7. Units(<<o, i>>) = {<<o, i>>} \X (1 .. n)
  BY DEF Units, n
<1>8. QED
  BY <1>5, <1>6, <1>7 DEF n

\* A unit names its line.
LEMMA UnitOfOneLine == ASSUME NEW x, NEW y, NEW u \in Units(x), u \in Units(y) PROVE x = y
  BY DEF Units

LEMMA HeldLine ==
  ASSUME NEW r, NEW o \in Orders, NEW i
  PROVE  <<o, i>> \in HeldLines(r) <=> i \in hold[o] /\ Cart[o][i].row = r
<1>1. <<o, i>> \in UNION {{x} \X hold[x] : x \in Orders} <=> i \in hold[o]
  OBVIOUS
<1>2. <<o, i>>[1] = o /\ <<o, i>>[2] = i
  OBVIOUS
<1>3. QED
  BY <1>1, <1>2 DEF HeldLines

\* One more line held.
LEMMA HoldGrows ==
  ASSUME TypeInv, NEW o \in Orders, NEW i, i \notin hold[o], hold' = [hold EXCEPT ![o] = @ \cup {i}],
         NEW r \in Rows
  PROVE  IF Cart[o][i].row = r
         THEN /\ HeldUnits(r)' = HeldUnits(r) \cup Units(<<o, i>>)
              /\ HeldUnits(r) \cap Units(<<o, i>>) = {}
         ELSE HeldUnits(r)' = HeldUnits(r)
<1>. hold \in [Orders -> SUBSET Nat]
  BY DEF TypeInv, DataOK
<1>1. \A x : x \in HeldLines(r)' <=> x \in HeldLines(r) \/ (x = <<o, i>> /\ Cart[o][i].row = r)
  <2>1. \A x : x \in UNION {{y} \X hold'[y] : y \in Orders}
                 <=> x \in UNION {{y} \X hold[y] : y \in Orders} \/ x = <<o, i>>
    OBVIOUS
  <2>2. QED
    BY <2>1 DEF HeldLines
<1>2. <<o, i>> \notin HeldLines(r)
  BY HeldLine
<1>3. \A u : u \in HeldUnits(r)' <=> \E x \in HeldLines(r)' : u \in Units(x)
  BY DEF HeldUnits, Units
<1>4. \A u : u \in HeldUnits(r) <=> \E x \in HeldLines(r) : u \in Units(x)
  BY DEF HeldUnits
<1>5. ASSUME Cart[o][i].row = r
      PROVE  /\ HeldUnits(r)' = HeldUnits(r) \cup Units(<<o, i>>)
             /\ HeldUnits(r) \cap Units(<<o, i>>) = {}
  <2>1. HeldUnits(r)' = HeldUnits(r) \cup Units(<<o, i>>)
    BY <1>1, <1>3, <1>4, <1>5
  <2>2. HeldUnits(r) \cap Units(<<o, i>>) = {}
    BY <1>2, <1>4, UnitOfOneLine
  <2>3. QED
    BY <2>1, <2>2
<1>6. ASSUME Cart[o][i].row # r PROVE HeldUnits(r)' = HeldUnits(r)
  BY <1>1, <1>3, <1>4, <1>6
<1>7. QED
  BY <1>5, <1>6

\* One line given back.
LEMMA HoldShrinks ==
  ASSUME TypeInv, NEW o \in Orders, NEW i, hold' = [hold EXCEPT ![o] = @ \ {i}],
         NEW r \in Rows
  PROVE  HeldUnits(r)' = IF Cart[o][i].row = r THEN HeldUnits(r) \ Units(<<o, i>>) ELSE HeldUnits(r)
<1>. hold \in [Orders -> SUBSET Nat]
  BY DEF TypeInv, DataOK
<1>1. \A x : x \in HeldLines(r)' <=> x \in HeldLines(r) /\ x # <<o, i>>
  <2>1. \A x : x \in UNION {{y} \X hold'[y] : y \in Orders}
                 <=> x \in UNION {{y} \X hold[y] : y \in Orders} /\ x # <<o, i>>
    OBVIOUS
  <2>2. QED
    BY <2>1 DEF HeldLines
<1>2. \A u : u \in HeldUnits(r)' <=> \E x \in HeldLines(r)' : u \in Units(x)
  BY DEF HeldUnits, Units
<1>3. \A u : u \in HeldUnits(r) <=> \E x \in HeldLines(r) : u \in Units(x)
  BY DEF HeldUnits
<1>4. ASSUME Cart[o][i].row = r PROVE HeldUnits(r)' = HeldUnits(r) \ Units(<<o, i>>)
  BY <1>1, <1>2, <1>3, <1>4, UnitOfOneLine
<1>5. ASSUME Cart[o][i].row # r PROVE HeldUnits(r)' = HeldUnits(r)
  <2>1. <<o, i>> \notin HeldLines(r)
    BY <1>5, HeldLine
  <2>2. QED
    BY <1>1, <1>2, <1>3, <2>1
<1>6. QED
  BY <1>4, <1>5

LEMMA CountUp ==
  ASSUME NEW H, NEW U, IsFiniteSet(H), IsFiniteSet(U), H \cap U = {},
         NEW n \in Int, n <= Cardinality(H)
  PROVE  IsFiniteSet(H \cup U) /\ n + Cardinality(U) <= Cardinality(H \cup U)
<1>1. /\ IsFiniteSet(H \cup U)
      /\ Cardinality(H \cup U) = Cardinality(H) + Cardinality(U) - Cardinality(H \cap U)
  BY FS_Union
<1>2. Cardinality(H \cap U) = 0 /\ Cardinality(H) \in Nat /\ Cardinality(U) \in Nat
  BY FS_EmptySet, FS_CardinalityType
<1>3. QED
  BY <1>1, <1>2

LEMMA CountDown ==
  ASSUME NEW H, NEW U, IsFiniteSet(H), IsFiniteSet(U), NEW n \in Int, n <= Cardinality(H)
  PROVE  IsFiniteSet(H \ U) /\ n - Cardinality(U) <= Cardinality(H \ U)
<1>1. IsFiniteSet(H \ U) /\ Cardinality(H \ U) = Cardinality(H) - Cardinality(H \cap U)
  BY FS_Difference
<1>2. IsFiniteSet(H \cap U) /\ Cardinality(H \cap U) <= Cardinality(U)
  BY FS_Subset
<1>3. Cardinality(H \cap U) \in Nat /\ Cardinality(H) \in Nat /\ Cardinality(U) \in Nat
  BY <1>2, FS_CardinalityType
<1>4. QED
  BY <1>1, <1>2, <1>3

LEMMA CountedIncr ==
  ASSUME TypeInv, LifeInv, Counted, NEW p \in Procs, IncrPending(p)
  PROVE  Counted'
<1>1. PICK o \in Orders, i \in Nat : o = op[p].order /\ i = op[p].i /\ i \in 1 .. Len(Cart[o]) /\ i \notin hold[o]
  <2>1. op[p].at = "incr" /\ op[p].at \in Working /\ op[p].at \in LineLabels
    BY DEF IncrPending, At, Working, Labels, LineLabels
  <2>2. /\ op[p].order \in Orders /\ op[p].i \in 1 .. Len(Cart[op[p].order]) /\ op[p].i \in Nat
        /\ hold[op[p].order] \subseteq 1 .. op[p].i - 1
    BY <2>1, Before DEF Pass
  <2>3. op[p].i \notin hold[op[p].order]
    BY <2>2
  <2>4. QED
    BY <2>2, <2>3
<1>. DEFINE U == Units(<<o, i>>)
<1>2. PICK row \in Rows, qty \in Nat : /\ row = Cart[o][i].row /\ qty = Cart[o][i].qty
                                     /\ IsFiniteSet(U) /\ Cardinality(U) = qty
  BY <1>1, CartLine, UnitsOfLine
<1>3. /\ pending \in [Rows -> Int] /\ pending' = [pending EXCEPT ![row] = pending[row] + qty]
      /\ hold' = [hold EXCEPT ![o] = @ \cup {i}]
  BY <1>1, <1>2 DEF IncrPending, Line, TypeInv, DataOK
<1>4. ASSUME NEW r \in Rows PROVE IsFiniteSet(HeldUnits(r)') /\ pending'[r] <= Cardinality(HeldUnits(r)')
  <2>1. IsFiniteSet(HeldUnits(r)) /\ pending[r] <= Cardinality(HeldUnits(r)) /\ pending[r] \in Int
    BY <1>3 DEF Counted, Outstanding
  <2>0. IF Cart[o][i].row = r
        THEN /\ HeldUnits(r)' = HeldUnits(r) \cup Units(<<o, i>>)
             /\ HeldUnits(r) \cap Units(<<o, i>>) = {}
        ELSE HeldUnits(r)' = HeldUnits(r)
    <3>1. i \notin hold[o] /\ hold' = [hold EXCEPT ![o] = @ \cup {i}]
      BY <1>1, <1>3
    <3>2. QED
      BY <3>1, HoldGrows, Zenon
  <2>2. CASE row = r
    <3>1. HeldUnits(r)' = HeldUnits(r) \cup U /\ HeldUnits(r) \cap U = {}
      BY <1>2, <2>0, <2>2
    <3>2. pending'[r] = pending[r] + qty
      BY <1>3, <2>2
    <3>. HIDE DEF U
    <3>3. QED
      BY <1>2, <2>1, <3>1, <3>2, CountUp
  <2>3. CASE row # r
    <3>1. HeldUnits(r)' = HeldUnits(r)
      BY <1>2, <2>0, <2>3
    <3>2. pending'[r] = pending[r]
      BY <1>3, <2>3
    <3>3. QED
      BY <2>1, <3>1, <3>2
  <2>4. QED
    BY <2>2, <2>3
<1>5. QED
  BY <1>4 DEF Counted, Outstanding

LEMMA CountedDecr ==
  ASSUME TypeInv, LifeInv, Counted, NEW p \in Procs, DecrPending(p)
  PROVE  Counted'
<1>1. PICK o \in Orders, i \in Nat : o = op[p].order /\ i = op[p].i /\ i \in 1 .. Len(Cart[o])
  <2>1. op[p].at = "decr" /\ op[p].at \in Working /\ op[p].at \in LineLabels
    BY DEF DecrPending, At, Working, Labels, LineLabels
  <2>2. op[p].order \in Orders /\ op[p].i \in 1 .. Len(Cart[op[p].order]) /\ op[p].i \in Nat
    BY <2>1, Before
  <2>3. QED
    BY <2>2
<1>. DEFINE U == Units(<<o, i>>)
<1>2. PICK row \in Rows, qty \in Nat : /\ row = Cart[o][i].row /\ qty = Cart[o][i].qty
                                     /\ IsFiniteSet(U) /\ Cardinality(U) = qty
  BY <1>1, CartLine, UnitsOfLine
<1>3. /\ pending \in [Rows -> Int] /\ pending' = [pending EXCEPT ![row] = pending[row] - qty]
      /\ hold' = [hold EXCEPT ![o] = @ \ {i}]
  BY <1>1, <1>2 DEF DecrPending, Line, TypeInv, DataOK
<1>4. ASSUME NEW r \in Rows PROVE IsFiniteSet(HeldUnits(r)') /\ pending'[r] <= Cardinality(HeldUnits(r)')
  <2>1. IsFiniteSet(HeldUnits(r)) /\ pending[r] <= Cardinality(HeldUnits(r)) /\ pending[r] \in Int
    BY <1>3 DEF Counted, Outstanding
  <2>0. HeldUnits(r)' = IF Cart[o][i].row = r THEN HeldUnits(r) \ Units(<<o, i>>) ELSE HeldUnits(r)
    <3>1. hold' = [hold EXCEPT ![o] = @ \ {i}]
      BY <1>3
    <3>2. QED
      BY <3>1, HoldShrinks, Zenon
  <2>2. CASE row = r
    <3>1. HeldUnits(r)' = HeldUnits(r) \ U
      BY <1>2, <2>0, <2>2
    <3>2. pending'[r] = pending[r] - qty
      BY <1>3, <2>2
    <3>. HIDE DEF U
    <3>3. QED
      BY <1>2, <2>1, <3>1, <3>2, CountDown
  <2>3. CASE row # r
    <3>1. HeldUnits(r)' = HeldUnits(r)
      BY <1>2, <2>0, <2>3
    <3>2. pending'[r] = pending[r]
      BY <1>3, <2>3
    <3>3. QED
      BY <2>1, <3>1, <3>2
  <2>4. QED
    BY <2>2, <2>3
<1>5. QED
  BY <1>4 DEF Counted, Outstanding

LEMMA CountedKept ==
  ASSUME TypeInv, Counted, hold' = hold, \A r \in Rows : pending'[r] = pending[r] \/ pending'[r] = 0
  PROVE  Counted'
<1>1. ASSUME NEW r \in Rows PROVE IsFiniteSet(HeldUnits(r)') /\ pending'[r] <= Cardinality(HeldUnits(r)')
  <2>1. HeldUnits(r)' = HeldUnits(r)
    BY DEF HeldUnits, HeldLines, Units
  <2>2. IsFiniteSet(HeldUnits(r)) /\ pending[r] <= Cardinality(HeldUnits(r))
    BY DEF Counted, Outstanding
  <2>3. Cardinality(HeldUnits(r)) \in Nat
    BY <2>2, FS_CardinalityType
  <2>4. QED
    BY <2>1, <2>2, <2>3
<1>2. QED
  BY <1>1 DEF Counted, Outstanding

LEMMA CountedNext == TypeInv /\ LifeInv /\ Counted /\ [Next]_invVars => Counted'
<1>. SUFFICES ASSUME TypeInv, LifeInv, Counted, [Next]_invVars PROVE Counted'
  OBVIOUS
<1>1. ASSUME UNCHANGED <<hold, pending>> PROVE Counted'
  BY <1>1, CountedKept
<1>2. ASSUME NEW p \in Procs, DeletePending(p) PROVE Counted'
  <2>1. Line(p).row \in Rows /\ pending \in [Rows -> Int]
    BY <1>2, LineInCart DEF DeletePending, At, LineLabels, TypeInv, DataOK
  <2>2. \A r \in Rows : pending'[r] = pending[r] \/ pending'[r] = 0
    BY <1>2, <2>1 DEF DeletePending
  <2>3. QED
    BY <1>2, <2>2, CountedKept DEF DeletePending, history
<1>3. ASSUME NEW p \in Procs, Step(p) PROVE Counted'
  BY <1>1, <1>2, <1>3, CountedIncr, CountedDecr
     DEF Step, ReadEntry, AcquireProductLock, CheckPending, ReleaseProductLock, WriteReservationKey,
         WriteMirror, WriteFails, LoadReservation, ClaimMirror, TakeStock, DeleteReservationKey,
         ResolveAfterwards, Restock, shared, history
<1>4. QED
  BY <1>1, <1>3 DEF Next, MethodStep, Crash, Begin, InsertFailed, Sweep, Finish, LockExpires, Tick,
     shared, history, invVars

LEMMA CountedInit ==
  ASSUME Init
  PROVE  Counted
<1>1. ASSUME NEW r \in Rows
      PROVE  IsFiniteSet(HeldUnits(r)) /\ pending[r] <= Cardinality(HeldUnits(r))
  <2>1. HeldUnits(r) = {}
    BY DEF Init, HeldUnits, HeldLines
  <2>2. QED
    BY <2>1, FS_EmptySet DEF Init
<1>2. QED
  BY <1>1 DEF Counted, Outstanding

\* However returns of different orders interleave with each other, with
\* reserves, faults and crashes, inv:pending never counts more units of a row
\* than the lines still held: no stock stays blocked by nobody.
THEOREM PendingNeverOverstatesHolds == Spec => []PendingNeverOverstates
<1>1. Init => Counted
  BY CountedInit
<1>2. Counted => PendingNeverOverstates
  BY DEF Counted, PendingNeverOverstates
<1>3. QED
  BY <1>1, <1>2, TypeInit, TypeNext, LifeNext, LifeInvHolds, CountedNext, PTL DEF Spec
=============================================================================
