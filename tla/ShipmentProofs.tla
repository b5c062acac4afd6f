--------------------------- MODULE ShipmentProofs ---------------------------
(***************************************************************************)
(* Proofs about Shipment, for every set of processes, every vocabulary of  *)
(* the courier and every number of faults.                                 *)
(***************************************************************************)
EXTENDS Shipment, SequenceTheorems, TLAPS

-----------------------------------------------------------------------------
(* The inductive invariants. *)

Late == {"assign", "saveawb", "pickup", "savepickup", "shipped", "push"}
Later == {"pickup", "savepickup", "shipped", "push"}
ShipLabels == Late \cup {"read", "create", "saveparcel", "unlock"}

\* Which labels a method can be at, and that it works on a parcel by then.
Shape(o) ==
  /\ o.kind = "none" <=> o.at = "idle"
  /\ o.kind = "ship" => o.at \in ShipLabels
  /\ o.kind = "cancel" => o.at \in {"cancel", "savecancel", "push"}
  /\ o.kind = "update" => o.at \in {"savestatus", "push", "sync"}
  /\ o.kind = "cancel" \/ (o.kind = "ship" /\ o.at \in Late \cup {"saveparcel"})
       => o.parcel # 0

\* A process record that is typed when there are n parcels.
Fits(o, n) == o \in OpType /\ o.parcel <= n /\ o.code <= n /\ Shape(o)

TypeInv == ShipTypeOK /\ \A p \in Procs : Fits(op[p], Len(parcels))

\* While no ship_order outlasts the lock, there is one at most, and the lock is
\* set while it runs.
LockInv ==
  ~SlowShippers =>
    \A p \in Procs : Shipping(p) =>
      shipLock /\ \A q \in Procs : Shipping(q) => q = p

Saving == \E p \in Procs : op[p].kind = "ship" /\ op[p].at = "saveparcel"

\* Each parcel is paid for by a fault, except the one in the document or on its
\* way there.
CountInv ==
  ~SlowShippers =>
    /\ Len(parcels) <= faults + IF parcel # 0 \/ Saving THEN 1 ELSE 0
    /\ \A p \in Procs :
         op[p].kind = "ship" /\ op[p].at \in {"create", "saveparcel"} =>
           parcel = 0

\* What ship_order knows by each label is in the document too.
AwbInv ==
  /\ \A p \in Procs : op[p].kind = "ship" =>
       /\ op[p].at \in Late => parcel # 0
       /\ op[p].at \in Later \cup {"saveawb"} => op[p].code # 0
       /\ op[p].code # 0 /\ op[p].at \notin {"saveawb", "unlock"} => awb # 0
  /\ fulfilment = "shipped" => parcel # 0 /\ awb # 0

\* While no ship_order outlasts the lock, only the parcel in the document leaves
\* the state "new", and every method means that one.
OneParcelInv ==
  ~SlowShippers =>
    /\ \A k \in DOMAIN parcels : parcels[k] # "new" => k = parcel
    /\ awb # 0 => awb = parcel
    /\ \A p \in Procs :
         /\ op[p].kind = "cancel" => op[p].parcel = parcel
         /\ op[p].kind = "ship" /\ op[p].at \in Late => op[p].parcel = parcel
         /\ op[p].code # 0 => op[p].code = parcel

\* Without a fault, a status is in the history or its writer is about to put it
\* there.
Noted(s) ==
  \/ s \in recorded \cup {"pending"}
  \/ \E p \in Procs : op[p].at = "push" /\ op[p].next = s

HistoryInv ==
  faults = 0 =>
    /\ Noted(shipStatus)
    /\ \A p \in Procs : op[p].at = "savestatus" => Noted(op[p].seen)

\* A terminal shipment has a parcel that is no longer new; who read one does
\* not assign a code, and an update writes it again or nothing.
TerminalInv ==
  ~SlowShippers =>
    /\ Terminal(shipStatus) => parcel # 0 /\ parcels[parcel] # "new"
    /\ \A p \in Procs :
         /\ op[p].kind = "ship" /\ Terminal(op[p].seen) =>
              /\ op[p].at # "saveawb"
              /\ parcel # 0 /\ parcels[parcel] # "new"
              /\ op[p].at # "savepickup"
         /\ op[p].kind = "cancel" => ~Terminal(op[p].seen)
         /\ op[p].kind = "cancel" /\ op[p].at # "cancel" =>
              parcel # 0 /\ parcels[parcel] # "new"
         /\ op[p].kind = "update" =>
              /\ Terminal(op[p].seen) => op[p].next = op[p].seen
              /\ parcel # 0 /\ parcels[parcel] # "new"

-----------------------------------------------------------------------------
(* The parcels, and the methods. *)

LEMMA ParcelsType ==
  ASSUME parcels \in Seq({"new", "awb", "cancelled"})
  PROVE  Len(parcels) \in Nat /\ DOMAIN parcels = 1 .. Len(parcels)
  BY LenProperties

LEMMA Created ==
  ASSUME parcels \in Seq({"new", "awb", "cancelled"})
  PROVE  LET created == Append(parcels, "new") IN
         /\ created \in Seq({"new", "awb", "cancelled"})
         /\ Len(created) = Len(parcels) + 1
         /\ DOMAIN created = 1 .. Len(parcels) + 1
         /\ created[Len(parcels) + 1] = "new"
         /\ \A k \in DOMAIN parcels : created[k] = parcels[k]
<1>1. Append(parcels, "new") \in Seq({"new", "awb", "cancelled"})
  OBVIOUS
<1>2. QED
  BY <1>1, LenProperties

LEMMA Moved ==
  ASSUME parcels \in Seq({"new", "awb", "cancelled"}),
         NEW k \in 1 .. Len(parcels), NEW s \in {"new", "awb", "cancelled"}
  PROVE  LET moved == [parcels EXCEPT ![k] = s] IN
         /\ moved \in Seq({"new", "awb", "cancelled"})
         /\ Len(moved) = Len(parcels)
         /\ DOMAIN moved = DOMAIN parcels
         /\ moved[k] = s
         /\ \A j \in DOMAIN parcels : j # k => moved[j] = parcels[j]
<1>1. [parcels EXCEPT ![k] = s] \in Seq({"new", "awb", "cancelled"})
  BY ExceptSeq
<1>2. QED
  BY <1>1, ExceptSeq, LenProperties

\* A step gives p another record, and the number of parcels may grow.
LEMMA MoveOK ==
  ASSUME TypeInv, NEW p \in Procs, NEW o,
         Len(parcels') \in Nat, Len(parcels') >= Len(parcels),
         Fits(o, Len(parcels')), op' = [op EXCEPT ![p] = o]
  PROVE  /\ op' \in [Procs -> OpType]
         /\ \A q \in Procs : Fits(op'[q], Len(parcels'))
<1>1. op \in [Procs -> OpType] /\ Len(parcels) \in Nat
  BY ParcelsType DEF TypeInv, ShipTypeOK
<1>2. op' \in [Procs -> OpType]
  BY <1>1 DEF Fits
<1>3. ASSUME NEW q \in Procs PROVE Fits(op'[q], Len(parcels'))
  <2>1. CASE q = p
    BY <2>1, <1>1
  <2>2. CASE q # p
    <3>1. op'[q] = op[q] /\ op[q] \in OpType
      BY <2>2, <1>1
    <3>2. op[q].parcel <= Len(parcels) /\ op[q].code <= Len(parcels)
          /\ Shape(op[q])
      BY DEF TypeInv, Fits
    <3>3. QED
      BY <3>1, <3>2, <1>1 DEF OpType, Fits
  <2>3. QED
    BY <2>1, <2>2
<1>4. QED
  BY <1>2, <1>3

LEMMA OpFacts ==
  ASSUME TypeInv, NEW p \in Procs
  PROVE  /\ op[p] \in OpType /\ Shape(op[p])
         /\ op[p].parcel \in 0 .. Len(parcels)
         /\ op[p].code \in 0 .. Len(parcels)
         /\ Len(parcels) \in Nat /\ DOMAIN parcels = 1 .. Len(parcels)
  BY ParcelsType DEF TypeInv, ShipTypeOK, Fits, OpType

LEMMA IdleOK ==
  /\ Idle \in OpType /\ Shape(Idle) /\ Idle.parcel = 0 /\ Idle.code = 0
  /\ \A n \in Nat : Fits(Idle, n)
  BY DEF Idle, OpType, Statuses, OrderTypes, Labels, Shape, Late, ShipLabels,
         Fits

-----------------------------------------------------------------------------
(* Types *)

DocOK ==
  /\ shipStatus \in Statuses
  /\ fulfilment \in {"pending", "packed", "shipped"}
  /\ orderType \in OrderTypes /\ recorded \subseteq Statuses
  /\ shipLock \in BOOLEAN

\* A step that leaves the parcels alone and gives p another record.
LEMMA StepOK ==
  ASSUME TypeInv, NEW p \in Procs, NEW o,
         parcels' = parcels, faults' \in 0 .. MaxFaults, DocOK',
         parcel' \in 0 .. Len(parcels), awb' \in 0 .. Len(parcels),
         Fits(o, Len(parcels)), op' = [op EXCEPT ![p] = o]
  PROVE  TypeInv'
<1>1. Len(parcels) \in Nat /\ parcels \in Seq({"new", "awb", "cancelled"})
  BY ParcelsType DEF TypeInv, ShipTypeOK
<1>. /\ Len(parcels') \in Nat /\ Len(parcels') >= Len(parcels)
     /\ Fits(o, Len(parcels'))
  BY <1>1
<1>2. /\ op' \in [Procs -> OpType]
      /\ \A q \in Procs : Fits(op'[q], Len(parcels'))
  BY MoveOK, Zenon
<1>3. \A q \in Procs : /\ op'[q].parcel <= Len(parcels')
                       /\ op'[q].code <= Len(parcels')
  BY <1>2 DEF Fits
<1>4. ShipTypeOK'
  BY <1>1, <1>2, <1>3 DEF ShipTypeOK, DocOK
<1>5. QED
  BY <1>2, <1>4 DEF TypeInv

LEMMA Starts ==
  ASSUME NEW kind \in {"ship", "cancel", "update"}, NEW label \in Labels
  PROVE  LET r == [Idle EXCEPT !.kind = kind, !.at = label] IN
         /\ r \in OpType /\ r.kind = kind /\ r.at = label
         /\ r.parcel = 0 /\ r.code = 0
  BY IdleOK DEF OpType

LEMMA AtChanges ==
  ASSUME NEW r \in OpType, NEW label \in Labels
  PROVE  LET w == [r EXCEPT !.at = label] IN
         /\ w \in OpType /\ w.kind = r.kind /\ w.at = label
         /\ w.parcel = r.parcel /\ w.code = r.code
  BY DEF OpType

\* Where a method can go next, as far as its shape is concerned.
CanGo(r, label) ==
  \/ r.kind = "ship" /\ label \in {"read", "create", "unlock"}
  \/ r.kind = "ship" /\ r.parcel # 0 /\ label \in ShipLabels
  \/ r.kind = "cancel" /\ label \in {"savecancel", "push"}
  \/ r.kind = "update" /\ label \in {"push", "sync"}

LEMMA GoesFits ==
  ASSUME TypeInv, NEW p \in Procs, NEW label, CanGo(op[p], label),
         NEW n \in Nat, n >= Len(parcels)
  PROVE  Fits([op[p] EXCEPT !.at = label], n)
<1>. DEFINE w == [op[p] EXCEPT !.at = label]
<1>1. /\ op[p] \in OpType /\ Shape(op[p])
      /\ op[p].parcel \in 0 .. Len(parcels) /\ op[p].code \in 0 .. Len(parcels)
      /\ Len(parcels) \in Nat
  BY OpFacts
<1>2. label \in Labels
  BY DEF CanGo, ShipLabels, Late, Labels
<1>3. /\ w \in OpType /\ w.kind = op[p].kind /\ w.at = label
      /\ w.parcel = op[p].parcel /\ w.code = op[p].code
  BY <1>1, <1>2, AtChanges
<1>. HIDE DEF w
<1>4. Shape(w)
  BY <1>1, <1>3 DEF Shape, CanGo, ShipLabels, Late
<1>5. Fits(w, n)
  BY <1>1, <1>3, <1>4 DEF Fits
<1>6. QED
  BY <1>5 DEF w

\* The usual step: p goes to another label of its method.
LEMMA GotoOK ==
  ASSUME TypeInv, NEW p \in Procs, NEW label, Goto(p, label),
         parcels' = parcels, faults' \in 0 .. MaxFaults, DocOK',
         parcel' \in 0 .. Len(parcels), awb' \in 0 .. Len(parcels),
         CanGo(op[p], label)
  PROVE  TypeInv'
<1>. DEFINE w == [op[p] EXCEPT !.at = label]
<1>1. Fits(w, Len(parcels))
  <2>. Len(parcels) \in Nat /\ Len(parcels) >= Len(parcels)
    BY OpFacts
  <2>. QED
    BY GoesFits, Zenon
<1>2. op' = [op EXCEPT ![p] = w]
  BY DEF Goto
<1>. HIDE DEF w
<1>3. QED
  BY <1>1, <1>2, StepOK

LEMMA TypeShip ==
  ASSUME TypeInv, NEW p \in Procs,
         \/ StartShip(p) \/ ReadToShip(p) \/ SaveParcel(p) \/ SaveAwb(p)
         \/ RequestPickup(p) \/ SavePickup(p) \/ MarkShipped(p) \/ Unlock(p)
  PROVE  TypeInv'
<1>1. /\ op[p] \in OpType /\ Shape(op[p])
      /\ op[p].parcel \in 0 .. Len(parcels) /\ op[p].code \in 0 .. Len(parcels)
      /\ Len(parcels) \in Nat
  BY OpFacts
<1>2. /\ DocOK /\ faults \in 0 .. MaxFaults
      /\ parcel \in 0 .. Len(parcels) /\ awb \in 0 .. Len(parcels)
      /\ op \in [Procs -> OpType]
  BY DEF TypeInv, ShipTypeOK, DocOK
<1>3. CASE StartShip(p)
  <2>. DEFINE o == [Idle EXCEPT !.kind = "ship", !.at = "read"]
  <2>1. o \in OpType /\ o.kind = "ship" /\ o.at = "read" /\ o.parcel = 0 /\ o.code = 0
    BY Starts DEF Labels
  <2>2. op' = [op EXCEPT ![p] = o]
    BY <1>3 DEF StartShip
  <2>. HIDE DEF o
  <2>3. Fits(o, Len(parcels))
    BY <2>1, <1>1 DEF Fits, Shape, ShipLabels, Late
  <2>4. QED
    BY <1>2, <1>3, <2>2, <2>3, StepOK DEF StartShip, DocOK, docVars
<1>4. CASE ReadToShip(p)
  <2>. DEFINE label == IF parcel = 0 THEN "create"
                       ELSE IF awb = 0 THEN "assign" ELSE "pickup"
              o == [op[p] EXCEPT !.seen = shipStatus, !.parcel = parcel,
                                 !.code = awb, !.at = label]
  <2>1. op' = [op EXCEPT ![p] = o]
    BY <1>4 DEF ReadToShip
  <2>2. \/ label = "create"
        \/ parcel # 0 /\ label = "assign"
        \/ parcel # 0 /\ label = "pickup"
    BY Zenon
  <2>. HIDE DEF label
  <2>3. label \in Labels
    <3>. label \in {"create", "assign", "pickup"}
      BY <2>2, Zenon
    <3>. QED
      BY DEF Labels
  <2>4. o = [op[p] EXCEPT !.seen = shipStatus, !.parcel = parcel,
                          !.code = awb, !.at = label]
    OBVIOUS
  <2>. HIDE DEF o
  <2>5. o \in OpType /\ o.kind = op[p].kind /\ o.at = label /\ o.parcel = parcel /\ o.code = awb
    <3>. shipStatus \in Statuses /\ parcel \in Nat /\ awb \in Nat
      BY <1>1, <1>2 DEF DocOK
    <3>. QED
      BY <1>1, <2>3, <2>4 DEF OpType
  <2>6. Fits(o, Len(parcels))
    BY <1>1, <1>2, <1>4, <2>2, <2>5 DEF ReadToShip, At, Fits, Shape, ShipLabels, Late, OpType
  <2>7. QED
    BY <1>2, <1>4, <2>1, <2>6, StepOK DEF ReadToShip, DocOK, docVars
<1>5. CASE SaveParcel(p)
  <2>. DEFINE label == IF op[p].code = 0 THEN "assign" ELSE "pickup"
  <2>1. Goto(p, label)
    BY <1>5 DEF SaveParcel
  <2>2. CanGo(op[p], label)
    BY <1>1, <1>5 DEF SaveParcel, At, Shape, OpType, ShipLabels, Late, CanGo
  <2>. HIDE DEF label
  <2>3. QED
    BY <1>1, <1>2, <1>5, <2>1, <2>2, GotoOK DEF SaveParcel, DocOK
<1>6. CASE SaveAwb(p) \/ SavePickup(p)
  <2>1. PICK s \in {"awb_assigned", "pickup_scheduled"} :
          op' = [op EXCEPT ![p] = [@ EXCEPT !.seen = s, !.next = s, !.at = "push"]]
    BY <1>6 DEF SaveAwb, SavePickup
  <2>. DEFINE o == [op[p] EXCEPT !.seen = s, !.next = s, !.at = "push"]
  <2>2. o = [op[p] EXCEPT !.seen = s, !.next = s, !.at = "push"]
    OBVIOUS
  <2>3. op' = [op EXCEPT ![p] = o]
    BY <2>1
  <2>. HIDE DEF o
  <2>4. o \in OpType /\ o.kind = op[p].kind /\ o.at = "push"
        /\ o.parcel = op[p].parcel /\ o.code = op[p].code
    <3>. s \in Statuses /\ "push" \in Labels
      BY DEF Statuses, Labels
    <3>. QED
      BY <1>1, <2>2 DEF OpType
  <2>5. Fits(o, Len(parcels))
    BY <1>1, <1>6, <2>4 DEF SaveAwb, SavePickup, At, Fits, Shape, ShipLabels, Late, OpType
  <2>6. shipStatus' \in Statuses /\ awb' \in {awb, op[p].code}
    BY <1>6 DEF SaveAwb, SavePickup, Statuses
  <2>7. QED
    BY <1>1, <1>2, <1>6, <2>3, <2>5, <2>6, StepOK DEF SaveAwb, SavePickup, DocOK
<1>7. CASE RequestPickup(p)
  <2>1. PICK label \in {"savepickup", "shipped"} : Goto(p, label)
    BY <1>7 DEF RequestPickup
  <2>2. CanGo(op[p], label)
    BY <1>1, <1>7 DEF RequestPickup, At, Shape, OpType, ShipLabels, Late, CanGo
  <2>3. QED
    BY <1>1, <1>2, <1>7, <2>1, <2>2, GotoOK
       DEF RequestPickup, DocOK, docVars
<1>8. CASE MarkShipped(p)
  <2>1. CanGo(op[p], "unlock")
    BY <1>1, <1>8 DEF MarkShipped, At, Shape, OpType, CanGo
  <2>2. Goto(p, "unlock")
    BY <1>8 DEF MarkShipped
  <2>3. QED
    BY <1>1, <1>2, <1>8, <2>1, <2>2, GotoOK DEF MarkShipped, DocOK
<1>9. CASE Unlock(p)
  <2>1. Fits(Idle, Len(parcels)) /\ op' = [op EXCEPT ![p] = Idle]
    BY <1>1, <1>9, IdleOK DEF Unlock, Finish
  <2>2. QED
    BY <1>1, <1>2, <1>9, <2>1, StepOK DEF Unlock, DocOK, docVars
<1>10. QED
  BY <1>3, <1>4, <1>5, <1>6, <1>7, <1>8, <1>9

\* A step at Shiprocket, where a parcel is created or moves on.
LEMMA GrowOK ==
  ASSUME TypeInv, NEW p \in Procs, NEW o,
         parcels' \in Seq({"new", "awb", "cancelled"}),
         Len(parcels') \in Nat, Len(parcels') >= Len(parcels),
         UNCHANGED <<docVars, shipLock>>, faults' \in 0 .. MaxFaults,
         Fits(o, Len(parcels')), op' = [op EXCEPT ![p] = o]
  PROVE  TypeInv'
<1>1. Len(parcels) \in Nat
  BY ParcelsType DEF TypeInv, ShipTypeOK
<1>2. /\ op' \in [Procs -> OpType]
      /\ \A q \in Procs : Fits(op'[q], Len(parcels'))
  BY MoveOK, Zenon
<1>3. \A q \in Procs : /\ op'[q].parcel <= Len(parcels')
                       /\ op'[q].code <= Len(parcels')
  BY <1>2 DEF Fits
<1>4. ShipTypeOK'
  BY <1>1, <1>2, <1>3 DEF TypeInv, ShipTypeOK, docVars
<1>5. QED
  BY <1>2, <1>4 DEF TypeInv

LEMMA TypeOthers ==
  ASSUME TypeInv, NEW p \in Procs,
         \/ CreateParcel(p) \/ AssignAwb(p) \/ StartCancel(p) \/ CancelParcel(p)
         \/ SaveCancelled(p) \/ SaveStatus(p) \/ PushHistory(p)
         \/ SyncOrderStatus(p) \/ Fail(p)
         \/ \E raw \in Reported, code \in {0} \cup DOMAIN parcels :
              StartUpdate(p, raw, code)
  PROVE  TypeInv'
<1>1. /\ op[p] \in OpType /\ Shape(op[p])
      /\ op[p].parcel \in 0 .. Len(parcels) /\ op[p].code \in 0 .. Len(parcels)
      /\ Len(parcels) \in Nat /\ DOMAIN parcels = 1 .. Len(parcels)
  BY OpFacts
<1>2. /\ DocOK /\ faults \in 0 .. MaxFaults
      /\ parcel \in 0 .. Len(parcels) /\ awb \in 0 .. Len(parcels)
      /\ op \in [Procs -> OpType]
      /\ parcels \in Seq({"new", "awb", "cancelled"})
  BY DEF TypeInv, ShipTypeOK, DocOK
<1>3. CASE StartCancel(p)
  <2>. DEFINE k == IF awb # 0 THEN awb ELSE parcel
              o == [Idle EXCEPT !.kind = "cancel", !.at = "cancel",
                                !.seen = shipStatus, !.parcel = k]
  <2>1. k # 0 /\ k \in 1 .. Len(parcels)
    BY <1>1, <1>2, <1>3 DEF StartCancel
  <2>2. op' = [op EXCEPT ![p] = o]
    BY <1>3 DEF StartCancel
  <2>. HIDE DEF k
  <2>3. o = [Idle EXCEPT !.kind = "cancel", !.at = "cancel",
                         !.seen = shipStatus, !.parcel = k]
    OBVIOUS
  <2>. HIDE DEF o
  <2>4. /\ o \in OpType /\ o.kind = "cancel" /\ o.at = "cancel"
        /\ o.parcel = k /\ o.code = 0
    <3>. shipStatus \in Statuses /\ k \in Nat /\ "cancel" \in Labels
      BY <1>1, <1>2, <2>1 DEF DocOK, Labels
    <3>. QED
      BY <2>3, IdleOK DEF OpType
  <2>5. Fits(o, Len(parcels))
    BY <1>1, <2>1, <2>4 DEF Fits, Shape
  <2>6. QED
    BY <1>2, <1>3, <2>2, <2>5, StepOK DEF StartCancel, DocOK, docVars
<1>4. CASE SaveCancelled(p)
  <2>1. PICK o : /\ op' = [op EXCEPT ![p] = o]
                 /\ o = [op[p] EXCEPT !.next = "cancelled", !.at = "push"]
    BY <1>4 DEF SaveCancelled
  <2>2. /\ o \in OpType /\ o.kind = op[p].kind /\ o.at = "push"
        /\ o.parcel = op[p].parcel /\ o.code = op[p].code
    <3>. "cancelled" \in Statuses /\ "push" \in Labels
      BY DEF Statuses, Labels
    <3>. QED
      BY <1>1, <2>1 DEF OpType
  <2>3. Fits(o, Len(parcels))
    BY <1>1, <1>4, <2>2 DEF SaveCancelled, At, Fits, Shape, ShipLabels, Late, OpType
  <2>4. shipStatus' \in Statuses
    BY <1>4 DEF SaveCancelled, Statuses
  <2>5. QED
    BY <1>2, <1>4, <2>1, <2>3, <2>4, StepOK DEF SaveCancelled, DocOK
<1>5. CASE CreateParcel(p)
  <2>. DEFINE created == Append(parcels, "new")
  <2>1. /\ created \in Seq({"new", "awb", "cancelled"})
        /\ Len(created) = Len(parcels) + 1
    BY <1>2, Created
  <2>2. op[p].kind = "ship"
    BY <1>1, <1>5 DEF CreateParcel, At, Shape, OpType
  <2>3. \A n \in Nat : n >= Len(parcels) =>
          Fits(op[p], n) /\ Fits([op[p] EXCEPT !.at = "unlock"], n)
    <3>1. CanGo(op[p], "unlock")
      BY <2>2 DEF CanGo
    <3>2. ASSUME NEW n \in Nat, n >= Len(parcels) PROVE Fits(op[p], n)
      BY <1>1, <3>2 DEF Fits
    <3>3. QED
      BY <3>1, <3>2, GoesFits
  <2>. UNCHANGED <<docVars, shipLock>>
    BY <1>5 DEF CreateParcel
  <2>4. CASE op' = [op EXCEPT ![p] = [@ EXCEPT !.parcel = Len(parcels) + 1,
                                               !.at = "saveparcel"]]
             /\ parcels' = created /\ UNCHANGED faults
    <3>1. PICK o : /\ op' = [op EXCEPT ![p] = o]
                   /\ o = [op[p] EXCEPT !.parcel = Len(parcels) + 1,
                                       !.at = "saveparcel"]
      BY <2>4
    <3>2. /\ o \in OpType /\ o.kind = op[p].kind /\ o.at = "saveparcel"
          /\ o.parcel = Len(parcels) + 1 /\ o.code = op[p].code
      <4>. "saveparcel" \in Labels /\ Len(parcels) + 1 \in Nat
        BY <1>1 DEF Labels
      <4>. QED
        BY <1>1, <3>1 DEF OpType
    <3>3. Fits(o, Len(created))
      BY <1>1, <2>1, <2>2, <3>2 DEF Fits, Shape, ShipLabels, Late
    <3>. /\ parcels' \in Seq({"new", "awb", "cancelled"})
         /\ Len(parcels') \in Nat /\ Len(parcels') >= Len(parcels)
         /\ Fits(o, Len(parcels')) /\ faults' \in 0 .. MaxFaults
      BY <1>1, <1>2, <2>1, <2>4, <3>3
    <3>4. QED
      BY <3>1, GrowOK, Zenon
  <2>5. CASE Goto(p, "unlock") /\ parcels' \in {parcels, created}
             /\ faults' \in 0 .. MaxFaults
    <3>. DEFINE o == [op[p] EXCEPT !.at = "unlock"]
    <3>1. op' = [op EXCEPT ![p] = o]
      BY <2>5 DEF Goto
    <3>2. Fits(o, Len(parcels')) /\ Len(parcels') \in Nat
          /\ Len(parcels') >= Len(parcels)
      BY <1>1, <2>1, <2>3, <2>5
    <3>. HIDE DEF created, o
    <3>3. QED
      BY <1>2, <1>5, <2>1, <2>5, <3>1, <3>2, GrowOK DEF CreateParcel
  <2>6. CASE op' = op /\ parcels' = created /\ faults' \in 0 .. MaxFaults
    <3>1. op' = [op EXCEPT ![p] = op[p]]
      BY <1>2, <2>6
    <3>2. Fits(op[p], Len(parcels')) /\ Len(parcels') \in Nat
          /\ Len(parcels') >= Len(parcels)
      BY <1>1, <2>1, <2>3, <2>6
    <3>. HIDE DEF created
    <3>3. QED
      BY <1>2, <1>5, <2>1, <2>6, <3>1, <3>2, GrowOK DEF CreateParcel
  <2>7. faults' \in 0 .. MaxFaults
    BY <1>2, <1>5, FaultsAssumption DEF CreateParcel
  <2>8. QED
    BY <1>5, <2>4, <2>5, <2>6, <2>7 DEF CreateParcel
<1>6. CASE AssignAwb(p)
  <2>1. op[p].kind = "ship" /\ op[p].parcel # 0 /\ op[p].parcel \in 1 .. Len(parcels)
    BY <1>1, <1>6 DEF AssignAwb, At, Shape, OpType, Late
  <2>2. /\ parcels' \in Seq({"new", "awb", "cancelled"})
        /\ Len(parcels') = Len(parcels)
    BY <1>2, <1>6, <2>1, Moved DEF AssignAwb
  <2>3. PICK o : op' = [op EXCEPT ![p] = o] /\ Fits(o, Len(parcels))
    <3>1. CASE Goto(p, "unlock")
      <4>1. Fits([op[p] EXCEPT !.at = "unlock"], Len(parcels))
        <5>. CanGo(op[p], "unlock")
          BY <2>1 DEF CanGo
        <5>. QED
          BY <1>1, GoesFits
      <4>2. QED
        BY <3>1, <4>1 DEF Goto
    <3>2. CASE op' = [op EXCEPT ![p] = [@ EXCEPT !.code = op[p].parcel,
                                                 !.at = "saveawb"]]
      <4>1. PICK o : /\ op' = [op EXCEPT ![p] = o]
                     /\ o = [op[p] EXCEPT !.code = op[p].parcel, !.at = "saveawb"]
        BY <3>2
      <4>2. /\ o \in OpType /\ o.kind = op[p].kind /\ o.at = "saveawb"
            /\ o.parcel = op[p].parcel /\ o.code = op[p].parcel
        <5>. "saveawb" \in Labels /\ op[p].parcel \in Nat
          BY <1>1 DEF Labels
        <5>. QED
          BY <1>1, <4>1 DEF OpType
      <4>3. Fits(o, Len(parcels))
        BY <1>1, <2>1, <4>2 DEF Fits, Shape, ShipLabels, Late
      <4>4. QED
        BY <4>1, <4>3
    <3>3. QED
      BY <1>6, <3>1, <3>2 DEF AssignAwb
  <2>4. QED
    <3>. /\ Len(parcels') \in Nat /\ Len(parcels') >= Len(parcels)
         /\ Fits(o, Len(parcels')) /\ faults' \in 0 .. MaxFaults
         /\ UNCHANGED <<docVars, shipLock>>
      BY <1>1, <1>2, <1>6, <2>2, <2>3 DEF AssignAwb
    <3>. QED
      BY <2>2, <2>3, GrowOK, Zenon
<1>7. CASE CancelParcel(p)
  <2>1. op[p].kind = "cancel" /\ op[p].parcel # 0 /\ op[p].parcel \in 1 .. Len(parcels)
    BY <1>1, <1>7 DEF CancelParcel, At, Shape, OpType, ShipLabels, Late
  <2>2. /\ parcels' \in Seq({"new", "awb", "cancelled"})
        /\ Len(parcels') = Len(parcels)
    BY <1>2, <1>7, <2>1, Moved DEF CancelParcel
  <2>3. PICK o : op' = [op EXCEPT ![p] = o] /\ Fits(o, Len(parcels))
    <3>1. Fits([op[p] EXCEPT !.at = "savecancel"], Len(parcels))
      <4>. CanGo(op[p], "savecancel")
        BY <2>1 DEF CanGo
      <4>. Len(parcels) \in Nat /\ Len(parcels) >= Len(parcels)
        BY <1>1
      <4>. QED
        BY GoesFits, Zenon
    <3>2. QED
      BY <1>1, <1>7, <3>1, IdleOK DEF CancelParcel, Goto, Finish
  <2>4. QED
    <3>. /\ Len(parcels') \in Nat /\ Len(parcels') >= Len(parcels)
         /\ Fits(o, Len(parcels')) /\ faults' \in 0 .. MaxFaults
         /\ UNCHANGED <<docVars, shipLock>>
      BY <1>1, <1>2, <1>7, <2>2, <2>3 DEF CancelParcel
    <3>. QED
      BY <2>2, <2>3, GrowOK, Zenon
<1>8. CASE SaveStatus(p)
  <2>1. op[p].kind = "update" /\ op[p].next \in Statuses
    BY <1>1, <1>8 DEF SaveStatus, At, Shape, OpType, ShipLabels, Late
  <2>2. PICK o : op' = [op EXCEPT ![p] = o] /\ Fits(o, Len(parcels))
    <3>1. Fits([op[p] EXCEPT !.at = "push"], Len(parcels))
      <4>. CanGo(op[p], "push")
        BY <2>1 DEF CanGo
      <4>. Len(parcels) \in Nat /\ Len(parcels) >= Len(parcels)
        BY <1>1
      <4>. QED
        BY GoesFits, Zenon
    <3>2. QED
      BY <1>1, <1>8, <3>1, IdleOK DEF SaveStatus, Goto, Finish
  <2>3. awb' \in 0 .. Len(parcels) /\ shipStatus' \in Statuses
    BY <1>1, <1>2, <1>8, <2>1 DEF SaveStatus
  <2>4. QED
    BY <1>2, <1>8, <2>2, <2>3, StepOK DEF SaveStatus, DocOK
<1>9. CASE PushHistory(p)
  <2>1. op[p].next \in Statuses /\ op[p].at = "push"
    BY <1>1, <1>9 DEF PushHistory, At, OpType
  <2>2. PICK o : op' = [op EXCEPT ![p] = o] /\ Fits(o, Len(parcels))
    <3>1. CASE op[p].kind = "ship"
      <4>1. PICK label \in {"pickup", "shipped"} : Goto(p, label)
        BY <1>9, <3>1 DEF PushHistory
      <4>2. CanGo(op[p], label)
        BY <1>1, <2>1, <3>1 DEF Shape, Late, ShipLabels, CanGo
      <4>3. Fits([op[p] EXCEPT !.at = label], Len(parcels))
        <5>. Len(parcels) \in Nat /\ Len(parcels) >= Len(parcels)
          BY <1>1
        <5>. QED
          BY <4>2, GoesFits, Zenon
      <4>4. QED
        BY <4>1, <4>3 DEF Goto
    <3>2. CASE op[p].kind = "update"
      <4>1. Fits([op[p] EXCEPT !.at = "sync"], Len(parcels))
        <5>. CanGo(op[p], "sync")
          BY <3>2 DEF CanGo
        <5>. QED
          BY <1>1, GoesFits
      <4>2. QED
        BY <1>9, <3>2, <4>1 DEF PushHistory, Goto
    <3>3. CASE op[p].kind = "cancel"
      BY <1>1, <1>9, <3>3, IdleOK DEF PushHistory, Finish
    <3>4. QED
      BY <1>1, <2>1, <3>1, <3>2, <3>3 DEF Shape, OpType
  <2>3. QED
    BY <1>2, <1>9, <2>1, <2>2, StepOK DEF PushHistory, DocOK
<1>10. CASE SyncOrderStatus(p)
  <2>1. Fits(Idle, Len(parcels)) /\ op' = [op EXCEPT ![p] = Idle]
    BY <1>1, <1>10, IdleOK DEF SyncOrderStatus, Finish
  <2>2. orderType' \in OrderTypes
    BY <1>2, <1>10 DEF SyncOrderStatus, DocOK, OrderTypes
  <2>3. QED
    BY <1>2, <1>10, <2>1, <2>2, StepOK DEF SyncOrderStatus, DocOK
<1>11. CASE Fail(p)
  <2>1. faults' \in 0 .. MaxFaults
    BY <1>2, <1>11, FaultsAssumption DEF Fail
  <2>2. PICK o : op' = [op EXCEPT ![p] = o] /\ Fits(o, Len(parcels))
    <3>1. op[p].kind = "ship" => Fits([op[p] EXCEPT !.at = "unlock"], Len(parcels))
      <4>. op[p].kind = "ship" => CanGo(op[p], "unlock")
        BY DEF CanGo
      <4>. QED
        BY <1>1, GoesFits
    <3>2. QED
      BY <1>1, <1>11, <3>1, IdleOK DEF Fail, Shipping, Goto, Finish
  <2>3. QED
    BY <1>2, <1>11, <2>1, <2>2, StepOK DEF Fail, DocOK, docVars
<1>12. CASE \E raw \in Reported, code \in {0} \cup DOMAIN parcels :
              StartUpdate(p, raw, code)
  <2>1. PICK raw \in Reported, code \in {0} \cup DOMAIN parcels :
          StartUpdate(p, raw, code)
    BY <1>12
  <2>. DEFINE c == IF awb = 0 THEN code ELSE 0
              s == Mapped(raw, shipStatus)
  <2>2. c \in 0 .. Len(parcels) /\ c \in Nat
    BY <1>1, <1>2
  <2>3. s \in Statuses
    BY <1>2, <2>1, ReportedAssumption DEF StartUpdate, Applies, Mapped, DocOK
  <2>4. PICK o :
          /\ op' = [op EXCEPT ![p] = o]
          /\ o = [Idle EXCEPT !.kind = "update", !.at = "savestatus",
                             !.seen = shipStatus, !.type = orderType,
                             !.code = c, !.next = s]
    BY <2>1 DEF StartUpdate
  <2>. HIDE DEF c, s
  <2>5. /\ o \in OpType /\ o.kind = "update" /\ o.at = "savestatus"
        /\ o.parcel = 0 /\ o.code = c
    <3>. shipStatus \in Statuses /\ orderType \in OrderTypes
         /\ "savestatus" \in Labels
      BY <1>2 DEF DocOK, Labels
    <3>. QED
      BY <2>2, <2>3, <2>4, IdleOK DEF OpType
  <2>6. Fits(o, Len(parcels))
    BY <1>1, <2>2, <2>5 DEF Fits, Shape
  <2>7. UNCHANGED <<docVars, shipLock, parcels, faults>>
    BY <2>1 DEF StartUpdate
  <2>8. QED
    BY <1>2, <2>4, <2>6, <2>7, StepOK DEF DocOK, docVars
<1>13. QED
  BY <1>3, <1>4, <1>5, <1>6, <1>7, <1>8, <1>9, <1>10, <1>11, <1>12

LEMMA TypeInit == ShipInit => TypeInv
<1>. SUFFICES ASSUME ShipInit PROVE TypeInv
  OBVIOUS
<1>1. /\ parcels \in Seq({"new", "awb", "cancelled"}) /\ Len(parcels) = 0
      /\ faults \in 0 .. MaxFaults
  BY EmptySeq, FaultsAssumption DEF ShipInit
<1>2. op \in [Procs -> OpType] /\ \A p \in Procs : op[p] = Idle
  BY IdleOK DEF ShipInit
<1>3. \A p \in Procs : Fits(op[p], Len(parcels))
  BY <1>1, <1>2, IdleOK
<1>4. \A p \in Procs : op[p].parcel <= Len(parcels) /\ op[p].code <= Len(parcels)
  BY <1>3 DEF Fits
<1>5. /\ shipStatus \in Statuses /\ orderType \in OrderTypes
      /\ fulfilment \in {"pending", "packed", "shipped"}
      /\ recorded \subseteq Statuses /\ shipLock \in BOOLEAN
  BY DEF ShipInit, Statuses, OrderTypes
<1>6. parcel \in 0 .. Len(parcels) /\ awb \in 0 .. Len(parcels)
  BY <1>1 DEF ShipInit
<1>7. QED
  BY <1>1, <1>2, <1>3, <1>4, <1>5, <1>6 DEF TypeInv, ShipTypeOK

LEMMA TypeNext == TypeInv /\ [ShipNext]_shipVars => TypeInv'
<1>. SUFFICES ASSUME TypeInv, [ShipNext]_shipVars PROVE TypeInv'
  OBVIOUS
<1>1. ASSUME UNCHANGED <<parcels, op, faults, parcel, awb>>, DocOK'
      PROVE  TypeInv'
  BY <1>1 DEF TypeInv, ShipTypeOK, DocOK
<1>2. DocOK
  BY DEF TypeInv, ShipTypeOK, DocOK
<1>3. CASE Pack \/ UpdateStatus \/ LockExpires \/ UNCHANGED shipVars
  <2>1. DocOK'
    BY <1>2, <1>3
       DEF Pack, UpdateStatus, LockExpires, DocOK, docVars, shipVars,
           OrderTypes, Rejections
  <2>2. QED
    BY <1>1, <1>3, <2>1 DEF Pack, UpdateStatus, LockExpires, docVars, shipVars
<1>4. CASE ~(Pack \/ UpdateStatus \/ LockExpires \/ UNCHANGED shipVars)
  BY <1>4, TypeShip, TypeOthers DEF ShipNext, ShipStep
<1>5. QED
  BY <1>3, <1>4

\* Every variable keeps its type, and the order and the methods name parcels that
\* Shiprocket knows, however many calls overlap, fail or outlast the lock.
THEOREM ShipTypeCorrect == ShipSpec => []ShipTypeOK
<1>1. TypeInv => ShipTypeOK
  BY DEF TypeInv
<1>2. QED
  BY <1>1, TypeInit, TypeNext, PTL DEF ShipSpec

-----------------------------------------------------------------------------
(* What each step does to the records of the processes. *)

Became(p, kind, label, seen, k, code, next) ==
  /\ op'[p].kind = kind /\ op'[p].at = label /\ op'[p].seen = seen
  /\ op'[p].parcel = k /\ op'[p].code = code /\ op'[p].next = next
  /\ \A q \in Procs : q # p => op'[q] = op[q]

Goes(p, label) ==
  Became(p, op[p].kind, label, op[p].seen, op[p].parcel, op[p].code, op[p].next)

Ends(p) == Became(p, "none", "idle", "pending", 0, 0, "pending")

LEMMA GotoGoes ==
  ASSUME TypeInv, NEW p \in Procs, NEW label, Goto(p, label)
  PROVE  Goes(p, label)
<1>1. op \in [Procs -> OpType] /\ op[p] \in OpType
  BY DEF TypeInv, ShipTypeOK
<1>2. op'[p] = [op[p] EXCEPT !.at = label] /\ \A q \in Procs : q # p => op'[q] = op[q]
  BY <1>1 DEF Goto
<1>3. QED
  BY <1>1, <1>2 DEF Goes, Became, OpType

LEMMA FinishEnds ==
  ASSUME TypeInv, NEW p \in Procs, Finish(p)
  PROVE  Ends(p)
<1>1. op'[p] = Idle /\ \A q \in Procs : q # p => op'[q] = op[q]
  BY DEF TypeInv, ShipTypeOK, Finish
<1>2. QED
  BY <1>1 DEF Ends, Became, Idle

LEMMA Effects ==
  ASSUME TypeInv, NEW p \in Procs
  PROVE  /\ StartShip(p) => Became(p, "ship", "read", "pending", 0, 0, "pending")
         /\ ReadToShip(p) =>
              Became(p, op[p].kind, IF parcel = 0 THEN "create"
                                    ELSE IF awb = 0 THEN "assign" ELSE "pickup",
                     shipStatus, parcel, awb, op[p].next)
         /\ CreateParcel(p) =>
              \/ /\ Became(p, op[p].kind, "saveparcel", op[p].seen,
                           Len(parcels) + 1, op[p].code, op[p].next)
                 /\ parcels' = Append(parcels, "new") /\ faults' = faults
              \/ Goes(p, "unlock") \/ op' = op
         /\ AssignAwb(p) =>
              \/ /\ Became(p, op[p].kind, "saveawb", op[p].seen, op[p].parcel,
                           op[p].parcel, op[p].next)
                 /\ parcels[op[p].parcel] = "new"
              \/ Goes(p, "unlock")
         /\ SaveAwb(p) =>
              Became(p, op[p].kind, "push", "awb_assigned", op[p].parcel,
                     op[p].code, "awb_assigned")
         /\ SavePickup(p) =>
              Became(p, op[p].kind, "push", "pickup_scheduled", op[p].parcel,
                     op[p].code, "pickup_scheduled")
         /\ StartCancel(p) =>
              Became(p, "cancel", "cancel", shipStatus,
                     IF awb # 0 THEN awb ELSE parcel, 0, "pending")
         /\ SaveCancelled(p) =>
              Became(p, op[p].kind, "push", op[p].seen, op[p].parcel,
                     op[p].code, "cancelled")
         /\ \A raw, code : StartUpdate(p, raw, code) =>
              Became(p, "update", "savestatus", shipStatus, 0,
                     IF awb = 0 THEN code ELSE 0, Mapped(raw, shipStatus))
<1>1. op \in [Procs -> OpType] /\ op[p] \in OpType
  BY DEF TypeInv, ShipTypeOK
<1>2. ASSUME StartShip(p)
      PROVE  Became(p, "ship", "read", "pending", 0, 0, "pending")
  <2>1. op'[p] = [Idle EXCEPT !.kind = "ship", !.at = "read"]
        /\ \A q \in Procs : q # p => op'[q] = op[q]
    BY <1>1, <1>2 DEF StartShip
  <2>2. QED
    BY <2>1, IdleOK DEF Became, OpType, Idle
<1>3. ASSUME ReadToShip(p)
      PROVE  Became(p, op[p].kind, IF parcel = 0 THEN "create"
                                   ELSE IF awb = 0 THEN "assign" ELSE "pickup",
                    shipStatus, parcel, awb, op[p].next)
  <2>. DEFINE label == IF parcel = 0 THEN "create"
                       ELSE IF awb = 0 THEN "assign" ELSE "pickup"
  <2>1. /\ op'[p] = [op[p] EXCEPT !.seen = shipStatus, !.parcel = parcel,
                                  !.code = awb, !.at = label]
        /\ \A q \in Procs : q # p => op'[q] = op[q]
    BY <1>1, <1>3 DEF ReadToShip
  <2>. HIDE DEF label
  <2>2. Became(p, op[p].kind, label, shipStatus, parcel, awb, op[p].next)
    BY <1>1, <2>1 DEF Became, OpType
  <2>3. QED
    BY <2>2 DEF label
<1>4. ASSUME CreateParcel(p)
      PROVE  \/ /\ Became(p, op[p].kind, "saveparcel", op[p].seen,
                          Len(parcels) + 1, op[p].code, op[p].next)
                /\ parcels' = Append(parcels, "new") /\ faults' = faults
             \/ Goes(p, "unlock") \/ op' = op
  <2>1. CASE /\ op' = [op EXCEPT ![p] = [@ EXCEPT !.parcel = Len(parcels) + 1,
                                                  !.at = "saveparcel"]]
             /\ parcels' = Append(parcels, "new") /\ faults' = faults
    <3>1. /\ op'[p] = [op[p] EXCEPT !.parcel = Len(parcels) + 1,
                                    !.at = "saveparcel"]
          /\ \A q \in Procs : q # p => op'[q] = op[q]
      BY <1>1, <2>1
    <3>2. Became(p, op[p].kind, "saveparcel", op[p].seen,
                 Len(parcels) + 1, op[p].code, op[p].next)
      BY <1>1, <3>1 DEF Became, OpType
    <3>3. QED
      BY <2>1, <3>2
  <2>2. CASE Goto(p, "unlock") \/ op' = op
    BY <2>2, GotoGoes
  <2>3. QED
    BY <1>4, <2>1, <2>2 DEF CreateParcel
<1>5. ASSUME AssignAwb(p)
      PROVE  \/ /\ Became(p, op[p].kind, "saveawb", op[p].seen, op[p].parcel,
                          op[p].parcel, op[p].next)
                /\ parcels[op[p].parcel] = "new"
             \/ Goes(p, "unlock")
  <2>1. CASE /\ op' = [op EXCEPT ![p] = [@ EXCEPT !.code = op[p].parcel,
                                                  !.at = "saveawb"]]
             /\ parcels[op[p].parcel] = "new"
    <3>1. /\ op'[p] = [op[p] EXCEPT !.code = op[p].parcel, !.at = "saveawb"]
          /\ \A q \in Procs : q # p => op'[q] = op[q]
      BY <1>1, <2>1
    <3>2. Became(p, op[p].kind, "saveawb", op[p].seen, op[p].parcel,
                 op[p].parcel, op[p].next)
      BY <1>1, <3>1 DEF Became, OpType
    <3>3. QED
      BY <2>1, <3>2
  <2>2. CASE Goto(p, "unlock")
    BY <2>2, GotoGoes
  <2>3. QED
    BY <1>5, <2>1, <2>2 DEF AssignAwb
<1>6. ASSUME SaveAwb(p)
      PROVE  Became(p, op[p].kind, "push", "awb_assigned", op[p].parcel,
                    op[p].code, "awb_assigned")
  <2>1. op'[p] = [op[p] EXCEPT !.seen = "awb_assigned",
                               !.next = "awb_assigned", !.at = "push"]
        /\ \A q \in Procs : q # p => op'[q] = op[q]
    BY <1>1, <1>6 DEF SaveAwb
  <2>2. QED
    BY <1>1, <2>1 DEF Became, OpType
<1>7. ASSUME SavePickup(p)
      PROVE  Became(p, op[p].kind, "push", "pickup_scheduled",
                    op[p].parcel, op[p].code, "pickup_scheduled")
  <2>1. op'[p] = [op[p] EXCEPT !.seen = "pickup_scheduled",
                               !.next = "pickup_scheduled", !.at = "push"]
        /\ \A q \in Procs : q # p => op'[q] = op[q]
    BY <1>1, <1>7 DEF SavePickup
  <2>2. QED
    BY <1>1, <2>1 DEF Became, OpType
<1>8. ASSUME StartCancel(p)
      PROVE  Became(p, "cancel", "cancel", shipStatus,
                    IF awb # 0 THEN awb ELSE parcel, 0, "pending")
  <2>. DEFINE k == IF awb # 0 THEN awb ELSE parcel
  <2>1. op'[p] = [Idle EXCEPT !.kind = "cancel", !.at = "cancel",
                              !.seen = shipStatus, !.parcel = k]
        /\ \A q \in Procs : q # p => op'[q] = op[q]
    BY <1>1, <1>8 DEF StartCancel
  <2>. HIDE DEF k
  <2>2. Became(p, "cancel", "cancel", shipStatus, k, 0, "pending")
    BY <2>1, IdleOK DEF Became, OpType, Idle
  <2>3. QED
    BY <2>2 DEF k
<1>9. ASSUME SaveCancelled(p)
      PROVE  Became(p, op[p].kind, "push", op[p].seen, op[p].parcel,
                    op[p].code, "cancelled")
  <2>1. op'[p] = [op[p] EXCEPT !.next = "cancelled", !.at = "push"]
        /\ \A q \in Procs : q # p => op'[q] = op[q]
    BY <1>1, <1>9 DEF SaveCancelled
  <2>2. QED
    BY <1>1, <2>1 DEF Became, OpType
<1>10. ASSUME NEW raw, NEW code, StartUpdate(p, raw, code)
       PROVE  Became(p, "update", "savestatus", shipStatus, 0,
                     IF awb = 0 THEN code ELSE 0, Mapped(raw, shipStatus))
  <2>. DEFINE c == IF awb = 0 THEN code ELSE 0
              s == Mapped(raw, shipStatus)
  <2>1. op'[p] = [Idle EXCEPT !.kind = "update", !.at = "savestatus",
                              !.seen = shipStatus, !.type = orderType,
                              !.code = c, !.next = s]
        /\ \A q \in Procs : q # p => op'[q] = op[q]
    BY <1>1, <1>10 DEF StartUpdate
  <2>. HIDE DEF c, s
  <2>2. Became(p, "update", "savestatus", shipStatus, 0, c, s)
    BY <2>1, IdleOK DEF Became, OpType, Idle
  <2>3. QED
    BY <2>2 DEF c, s
<1>11. QED
  BY <1>2, <1>3, <1>4, <1>5, <1>6, <1>7, <1>8, <1>9, <1>10

\* What Goto and Finish leave of a record, and what stays of the others.
LEMMA Simple ==
  ASSUME TypeInv, NEW p \in Procs
  PROVE  /\ RequestPickup(p) => Goes(p, "savepickup") \/ Goes(p, "shipped")
         /\ SaveParcel(p) =>
              Goes(p, IF op[p].code = 0 THEN "assign" ELSE "pickup")
         /\ MarkShipped(p) => Goes(p, "unlock")
         /\ Unlock(p) => Ends(p)
         /\ CancelParcel(p) => Goes(p, "savecancel") \/ Ends(p)
         /\ SaveStatus(p) =>
              IF op[p].next # op[p].seen THEN Goes(p, "push") ELSE Ends(p)
         /\ PushHistory(p) =>
              \/ op[p].kind = "ship" /\ (Goes(p, "pickup") \/ Goes(p, "shipped"))
              \/ op[p].kind = "update" /\ Goes(p, "sync")
              \/ op[p].kind = "cancel" /\ Ends(p)
         /\ SyncOrderStatus(p) => Ends(p)
         /\ Fail(p) => Ends(p) \/ (Shipping(p) /\ Goes(p, "unlock"))
<1>1. ASSUME PushHistory(p)
      PROVE  \/ op[p].kind = "ship" /\ (Goes(p, "pickup") \/ Goes(p, "shipped"))
             \/ op[p].kind = "update" /\ Goes(p, "sync")
             \/ op[p].kind = "cancel" /\ Ends(p)
  <2>1. op[p].kind \in {"ship", "update", "cancel"}
    BY <1>1, OpFacts DEF PushHistory, At, Shape, OpType
  <2>2. QED
    BY <1>1, <2>1, GotoGoes, FinishEnds DEF PushHistory
<1>2. QED
  BY <1>1, GotoGoes, FinishEnds
     DEF RequestPickup, SaveParcel, MarkShipped, Unlock, CancelParcel,
         SaveStatus, SyncOrderStatus, Fail

\* A step of the administrators, of the lock's clock, or none.
Elsewhere == Pack \/ UpdateStatus \/ LockExpires \/ UNCHANGED shipVars

LEMMA ElsewhereKeeps == Elsewhere => UNCHANGED <<op, parcels, faults, shipStatus,
                                                parcel, awb, recorded>>
  BY DEF Elsewhere, Pack, UpdateStatus, LockExpires, shipVars, docVars

-----------------------------------------------------------------------------
(* The lock *)

LEMMA NobodyStartsToShip ==
  ASSUME TypeInv, NEW p \in Procs,
         \/ ShipStep(p) \/ StartCancel(p) \/ Fail(p)
         \/ \E raw \in Reported, code \in {0} \cup DOMAIN parcels :
              StartUpdate(p, raw, code)
  PROVE  \A q \in Procs : Shipping(q)' => Shipping(q)
<1>1. op'[p].kind = "ship" => op[p].kind = "ship"
  BY Effects, Simple DEF ShipStep, Became, Goes, Ends
<1>2. \A q \in Procs : q # p => op'[q] = op[q]
  BY Effects, Simple DEF ShipStep, Became, Goes, Ends
<1>3. QED
  BY <1>1, <1>2 DEF Shipping

LEMMA LockNext == TypeInv /\ LockInv /\ [ShipNext]_shipVars => LockInv'
<1>. SUFFICES ASSUME TypeInv, LockInv, [ShipNext]_shipVars, ~SlowShippers
              PROVE  LockInv'
  BY DEF LockInv
<1>1. CASE Elsewhere
  BY <1>1, ElsewhereKeeps
     DEF Elsewhere, LockInv, Shipping, Pack, UpdateStatus, LockExpires, shipVars
<1>2. ASSUME NEW p \in Procs, StartShip(p) PROVE LockInv'
  BY <1>2, Effects DEF LockInv, Shipping, StartShip, Became
<1>3. ASSUME NEW p \in Procs, Unlock(p) PROVE LockInv'
  <2>1. Shipping(p)
    BY <1>3, OpFacts DEF Unlock, At, Shape, OpType, Shipping
  <2>2. QED
    BY <1>3, <2>1, Simple DEF LockInv, Shipping, Ends, Became
<1>4. ASSUME NEW p \in Procs,
             \/ ShipStep(p) /\ ~Unlock(p)
             \/ StartCancel(p) \/ Fail(p)
             \/ \E raw \in Reported, code \in {0} \cup DOMAIN parcels :
                  StartUpdate(p, raw, code)
      PROVE  LockInv'
  <2>1. shipLock' = shipLock
    BY <1>4
       DEF ShipStep, StartCancel, Fail, StartUpdate, ReadToShip, CreateParcel,
           SaveParcel, AssignAwb, SaveAwb, RequestPickup, SavePickup,
           MarkShipped, CancelParcel, SaveCancelled, SaveStatus, PushHistory,
           SyncOrderStatus
  <2>2. QED
    BY <1>4, <2>1, NobodyStartsToShip DEF LockInv
<1>5. QED
  BY <1>1, <1>2, <1>3, <1>4 DEF ShipNext, ShipStep, Elsewhere

-----------------------------------------------------------------------------
(* Parcels are paid for by faults *)

\* Only ship_order saves a parcel number, and nobody clears it.
LEMMA ParcelStays ==
  ASSUME TypeInv, [ShipNext]_shipVars
  PROVE  /\ parcel # 0 => parcel' # 0
         /\ parcel' # parcel =>
              \E p \in Procs : SaveParcel(p) /\ Shipping(p) /\ op[p].parcel # 0
<1>1. ASSUME NEW p \in Procs, SaveParcel(p)
      PROVE  Shipping(p) /\ op[p].parcel # 0 /\ parcel' # 0
  BY <1>1, OpFacts DEF SaveParcel, At, Shape, OpType, Shipping, ShipLabels, Late
<1>2. CASE \A p \in Procs : ~SaveParcel(p)
  <2>1. parcel' = parcel
    BY <1>2, ElsewhereKeeps
       DEF ShipNext, ShipStep, Elsewhere, StartShip, StartCancel, Fail,
           StartUpdate, ReadToShip, CreateParcel, AssignAwb, SaveAwb,
           RequestPickup, SavePickup, MarkShipped, Unlock, CancelParcel,
           SaveCancelled, SaveStatus, PushHistory, SyncOrderStatus, docVars
  <2>2. QED
    BY <2>1
<1>3. QED
  BY <1>1, <1>2

LEMMA CountNext ==
  TypeInv /\ LockInv /\ CountInv /\ [ShipNext]_shipVars => CountInv'
<1>. SUFFICES ASSUME TypeInv, LockInv, CountInv, [ShipNext]_shipVars,
                     ~SlowShippers
              PROVE  CountInv'
  BY DEF CountInv
<1>. /\ Len(parcels) \in Nat /\ faults \in Nat /\ parcel \in Nat
     /\ parcels \in Seq({"new", "awb", "cancelled"})
  BY ParcelsType, FaultsAssumption DEF TypeInv, ShipTypeOK
<1>0. /\ \A p \in Procs : op[p].kind = "ship" /\ op[p].at \in {"create", "saveparcel"}
                          => parcel = 0
      /\ Len(parcels) <= faults + IF parcel # 0 \/ Saving THEN 1 ELSE 0
      /\ \A p, q \in Procs : op[p].kind = "ship" /\ op[q].kind = "ship" => p = q
  BY DEF CountInv, LockInv, Shipping
\* Nobody leaves or reaches the two labels, and no parcel is made.
<1>1. ASSUME UNCHANGED <<Len(parcels), parcel>>, faults' \in Nat,
             faults' >= faults, Saving => Saving' \/ faults' = faults + 1,
             \A q \in Procs :
               op'[q].kind = "ship" /\ op'[q].at \in {"create", "saveparcel"} =>
                 \/ op[q].kind = "ship" /\ op[q].at \in {"create", "saveparcel"}
                 \/ parcel = 0
      PROVE  CountInv'
  BY <1>0, <1>1 DEF CountInv
<1>2. CASE Elsewhere
  BY <1>2, <1>1, ElsewhereKeeps DEF Saving
<1>3. ASSUME NEW p \in Procs, ReadToShip(p) PROVE CountInv'
  <2>1. ~(op[p].at = "saveparcel") /\ UNCHANGED <<parcels, parcel, faults>>
    BY <1>3 DEF ReadToShip, At, docVars
  <2>2. /\ op'[p].at \in {"create", "saveparcel"} => parcel = 0
        /\ \A q \in Procs : q # p => op'[q] = op[q]
    BY <1>3, Effects DEF Became
  <2>3. Saving => Saving'
    BY <2>1, <2>2 DEF Saving
  <2>4. QED
    BY <1>1, <2>1, <2>2, <2>3
<1>4. ASSUME NEW p \in Procs, CreateParcel(p) PROVE CountInv'
  <2>1. op[p].kind = "ship" /\ op[p].at = "create" /\ parcel = 0 /\ parcel' = 0
    BY <1>0, <1>4, OpFacts DEF CreateParcel, At, Shape, OpType, docVars
  <2>2. ~Saving
    BY <1>0, <2>1 DEF Saving
  <2>3. Len(parcels) <= faults
    BY <1>0, <2>1, <2>2
  <2>4. Len(parcels') \in {Len(parcels), Len(parcels) + 1}
    BY <1>4, Created DEF CreateParcel
  <2>5. \/ Len(parcels') <= faults' /\ faults' \in Nat
        \/ Len(parcels') <= faults' + 1 /\ faults' \in Nat /\ Saving'
    <3>1. CASE faults' = faults + 1 \/ parcels' = parcels
      BY <1>4, <2>3, <2>4, <3>1 DEF CreateParcel
    <3>2. CASE ~(faults' = faults + 1 \/ parcels' = parcels)
      <4>1. /\ op' = [op EXCEPT ![p] = [@ EXCEPT !.parcel = Len(parcels) + 1,
                                                 !.at = "saveparcel"]]
            /\ faults' = faults
        BY <1>4, <3>2 DEF CreateParcel
      <4>2. op'[p].kind = "ship" /\ op'[p].at = "saveparcel"
        BY <2>1, <4>1 DEF TypeInv, ShipTypeOK, OpType
      <4>3. QED
        BY <2>3, <2>4, <4>1, <4>2 DEF Saving
    <3>3. QED
      BY <3>1, <3>2
  <2>6. QED
    BY <2>1, <2>4, <2>5 DEF CountInv
<1>5. ASSUME NEW p \in Procs, SaveParcel(p) PROVE CountInv'
  <2>1. /\ parcel' # 0 /\ op[p].kind = "ship"
        /\ UNCHANGED <<parcels, faults>> /\ Goes(p, IF op[p].code = 0 THEN "assign" ELSE "pickup")
    BY <1>5, OpFacts, Simple
       DEF SaveParcel, At, Shape, OpType, ShipLabels, Late
  <2>2. \A q \in Procs : ~(op'[q].kind = "ship" /\ op'[q].at \in {"create", "saveparcel"})
    BY <1>0, <2>1 DEF Goes, Became
  <2>3. QED
    BY <1>0, <2>1, <2>2 DEF CountInv
<1>6. ASSUME NEW p \in Procs, Fail(p) PROVE CountInv'
  <2>1. faults' = faults + 1 /\ UNCHANGED <<parcels, parcel>>
    BY <1>6 DEF Fail, docVars
  <2>2. \A q \in Procs : op'[q].at \in {"create", "saveparcel"} => op'[q] = op[q]
    BY <1>6, Simple DEF Goes, Ends, Became
  <2>3. QED
    BY <1>1, <2>1, <2>2
<1>7. ASSUME NEW p \in Procs,
             \/ ShipStep(p) /\ ~ReadToShip(p) /\ ~CreateParcel(p) /\ ~SaveParcel(p)
             \/ StartShip(p) \/ StartCancel(p)
             \/ \E raw \in Reported, code \in {0} \cup DOMAIN parcels :
                  StartUpdate(p, raw, code)
      PROVE  CountInv'
  <2>1. UNCHANGED <<parcel, faults>>
    BY <1>7
       DEF ShipStep, StartShip, StartCancel, StartUpdate, AssignAwb, SaveAwb,
           RequestPickup, SavePickup, MarkShipped, Unlock, CancelParcel,
           SaveCancelled, SaveStatus, PushHistory, SyncOrderStatus, docVars
  <2>2. Len(parcels') = Len(parcels)
    <3>1. CASE AssignAwb(p) \/ CancelParcel(p)
      <4>1. op[p].parcel \in 1 .. Len(parcels)
        BY <3>1, OpFacts
           DEF AssignAwb, CancelParcel, At, Shape, OpType, Late, ShipLabels
      <4>2. QED
        BY <3>1, <4>1, Moved DEF AssignAwb, CancelParcel
    <3>2. CASE ~(AssignAwb(p) \/ CancelParcel(p))
      BY <1>7, <3>2
         DEF ShipStep, StartShip, StartCancel, StartUpdate, SaveAwb,
             RequestPickup, SavePickup, MarkShipped, Unlock, SaveCancelled,
             SaveStatus, PushHistory, SyncOrderStatus
    <3>3. QED
      BY <3>1, <3>2
  <2>3. op[p].at # "saveparcel"
    BY <1>7, OpFacts
       DEF ShipStep, StartShip, StartCancel, StartUpdate, AssignAwb, SaveAwb,
           RequestPickup, SavePickup, MarkShipped, Unlock, CancelParcel,
           SaveCancelled, SaveStatus, PushHistory, SyncOrderStatus, At, Free,
           Shape
  <2>4. /\ op'[p].at \notin {"create", "saveparcel"}
        /\ \A q \in Procs : q # p => op'[q] = op[q]
    BY <1>7, Effects, Simple DEF ShipStep, Became, Goes, Ends
  <2>5. Saving => Saving'
    BY <2>3, <2>4 DEF Saving
  <2>6. QED
    BY <1>1, <2>1, <2>2, <2>4, <2>5
<1>8. QED
  BY <1>2, <1>3, <1>4, <1>5, <1>6, <1>7 DEF ShipNext, ShipStep, Elsewhere

\* While no ship_order outlasts the lock, an order has one parcel and one more
\* per crash, failing write or lost answer, whatever was clicked or retried.
THEOREM ExtraParcelsAreFaultsHolds == ShipSpec => []ExtraParcelsAreFaults
<1>1. ShipInit => LockInv /\ CountInv
  BY EmptySeq, FaultsAssumption DEF ShipInit, LockInv, CountInv, Shipping, Idle
<1>2. TypeInv /\ CountInv => ExtraParcelsAreFaults
  BY ParcelsType, FaultsAssumption
     DEF TypeInv, ShipTypeOK, CountInv, ExtraParcelsAreFaults
<1>3. QED
  BY <1>1, <1>2, TypeInit, TypeNext, LockNext, CountNext, PTL DEF ShipSpec

-----------------------------------------------------------------------------
(* What is shipped has a parcel with a code *)

\* The steps that touch neither the document nor Shiprocket.
Quiet(p) ==
  StartShip(p) \/ ReadToShip(p) \/ RequestPickup(p) \/ Unlock(p)
  \/ StartCancel(p) \/ Fail(p)
  \/ \E raw \in Reported, code \in {0} \cup DOMAIN parcels :
       StartUpdate(p, raw, code)

LEMMA QuietKeeps ==
  ASSUME NEW p \in Procs, Quiet(p)
  PROVE  UNCHANGED <<docVars, parcels>>
  BY DEF Quiet, StartShip, ReadToShip, RequestPickup, Unlock, StartCancel, Fail,
         StartUpdate

LEMMA Actions ==
  ASSUME [ShipNext]_shipVars
  PROVE  \/ Elsewhere
         \/ \E p \in Procs :
              \/ Quiet(p) \/ CreateParcel(p) \/ SaveParcel(p) \/ AssignAwb(p)
              \/ SaveAwb(p) \/ SavePickup(p) \/ MarkShipped(p)
              \/ CancelParcel(p) \/ SaveCancelled(p) \/ SaveStatus(p)
              \/ PushHistory(p) \/ SyncOrderStatus(p)
  BY DEF ShipNext, ShipStep, Quiet, Elsewhere

\* A process at a label of ship_order is a ship_order.
LEMMA ShipLabel ==
  ASSUME TypeInv, NEW p \in Procs
  PROVE  /\ op[p].at \in ShipLabels \ {"push"} => op[p].kind = "ship"
         /\ op[p].at \in {"cancel", "savecancel"} => op[p].kind = "cancel"
         /\ op[p].at \in {"savestatus", "sync"} => op[p].kind = "update"
         /\ op[p].kind = "ship" => op[p].at \in ShipLabels
         /\ op[p].kind = "cancel" => op[p].at \in {"cancel", "savecancel", "push"}
         /\ op[p].kind = "update" => op[p].at \in {"savestatus", "push", "sync"}
         /\ op[p].kind = "cancel" => op[p].parcel # 0
         /\ op[p].at \in (Late \cup {"saveparcel"}) \ {"push"} => op[p].parcel # 0
         /\ op[p].kind = "ship" /\ op[p].at = "push" => op[p].parcel # 0
         /\ op[p].parcel \in 0 .. Len(parcels) /\ op[p].code \in 0 .. Len(parcels)
         /\ op[p].kind \in {"none", "ship", "cancel", "update"}
  BY OpFacts DEF Shape, OpType, ShipLabels, Late

\* What AwbInv says of one record, and that it is about.
Known(r, k, code) ==
  r.kind = "ship" =>
    /\ r.at \in Late => k # 0
    /\ r.at \in Later \cup {"saveawb"} => r.code # 0
    /\ r.code # 0 /\ r.at \notin {"saveawb", "unlock"} => code # 0

LEMMA AwbIsKnown ==
  AwbInv <=> /\ \A p \in Procs : Known(op[p], parcel, awb)
             /\ fulfilment = "shipped" => parcel # 0 /\ awb # 0
  BY DEF AwbInv, Known

LEMMA AwbStep ==
  ASSUME TypeInv, AwbInv, NEW p \in Procs, parcel # 0 => parcel' # 0,
         awb # 0 => awb' # 0, \A q \in Procs : q # p => op'[q] = op[q],
         Known(op'[p], parcel', awb'),
         fulfilment' = "shipped" => fulfilment = "shipped" \/ (parcel # 0 /\ awb # 0)
  PROVE  AwbInv'
<1>1. \A q \in Procs : Known(op'[q], parcel', awb')
  BY AwbIsKnown DEF Known
<1>2. fulfilment' = "shipped" => parcel' # 0 /\ awb' # 0
  BY DEF AwbInv
<1>3. QED
  BY <1>1, <1>2 DEF AwbInv, Known

LEMMA AwbNext == TypeInv /\ AwbInv /\ [ShipNext]_shipVars => AwbInv'
<1>. SUFFICES ASSUME TypeInv, AwbInv, [ShipNext]_shipVars PROVE AwbInv'
  OBVIOUS
<1>1. CASE Elsewhere
  <2>1. fulfilment' \in {fulfilment, "packed"}
    BY <1>1 DEF Elsewhere, Pack, UpdateStatus, LockExpires, shipVars, docVars
  <2>2. QED
    BY <1>1, <2>1, ElsewhereKeeps DEF AwbInv
<1>2. ASSUME NEW p \in Procs, Quiet(p) PROVE AwbInv'
  <2>1. UNCHANGED <<parcel, awb, fulfilment>>
    BY <1>2, QuietKeeps DEF docVars
  <2>2. \A q \in Procs : q # p => op'[q] = op[q]
    BY <1>2, Effects, Simple DEF Quiet, Goes, Ends, Became
  <2>3. Known(op'[p], parcel, awb)
    <3>1. CASE StartShip(p) \/ Unlock(p) \/ StartCancel(p)
               \/ \E raw \in Reported, code \in {0} \cup DOMAIN parcels :
                    StartUpdate(p, raw, code)
      BY <3>1, Effects, Simple DEF Ends, Became, Known, Late, Later
    <3>2. CASE ReadToShip(p)
      <4>1. PICK label \in {"create", "assign", "pickup"} :
              /\ Became(p, op[p].kind, label, shipStatus, parcel, awb, op[p].next)
              /\ label = "assign" => parcel # 0
              /\ label = "pickup" => parcel # 0 /\ awb # 0
        BY <3>2, Effects, Zenon
      <4>2. QED
        BY <4>1 DEF Became, Known, Late, Later
    <3>3. CASE RequestPickup(p)
      <4>1. op[p].kind = "ship" /\ op[p].at = "pickup"
        BY <3>3, ShipLabel DEF RequestPickup, At, ShipLabels, Late
      <4>2. parcel # 0 /\ op[p].code # 0 /\ awb # 0
        BY <4>1 DEF AwbInv, Late, Later
      <4>3. QED
        BY <3>3, <4>2, Simple DEF Goes, Became, Known
    <3>4. CASE Fail(p)
      BY <3>4, Simple DEF Goes, Ends, Became, Known, Late, Later
    <3>5. QED
      BY <1>2, <3>1, <3>2, <3>3, <3>4 DEF Quiet
  <2>4. QED
    BY <2>1, <2>2, <2>3, AwbStep
<1>3. ASSUME NEW p \in Procs, CreateParcel(p) PROVE AwbInv'
  <2>1. UNCHANGED <<parcel, awb, fulfilment>>
    BY <1>3 DEF CreateParcel, docVars
  <2>2. op[p].kind = "ship" /\ op[p].at = "create"
    BY <1>3, ShipLabel DEF CreateParcel, At, ShipLabels
  <2>3. op[p].code # 0 => awb # 0
    BY <2>2 DEF AwbInv
  <2>4. Known(op'[p], parcel, awb)
    BY <1>3, <2>2, <2>3, Effects, AwbIsKnown DEF Became, Goes, Known, Late, Later
  <2>5. \A q \in Procs : q # p => op'[q] = op[q]
    BY <1>3, Effects DEF Became, Goes
  <2>6. QED
    BY <2>1, <2>4, <2>5, AwbStep
<1>4. ASSUME NEW p \in Procs, SaveParcel(p) PROVE AwbInv'
  <2>1. UNCHANGED <<awb, fulfilment>> /\ parcel' = op[p].parcel
    BY <1>4 DEF SaveParcel
  <2>2. op[p].kind = "ship" /\ op[p].at = "saveparcel" /\ op[p].parcel # 0
    BY <1>4, ShipLabel DEF SaveParcel, At, ShipLabels
  <2>3. op[p].code # 0 => awb # 0
    BY <2>2 DEF AwbInv
  <2>4. PICK label \in {"assign", "pickup"} :
          Goes(p, label) /\ (label = "pickup" => op[p].code # 0)
    BY <1>4, Simple, Zenon
  <2>5. Known(op'[p], parcel', awb')
    BY <2>1, <2>2, <2>3, <2>4 DEF Goes, Became, Known, Late, Later
  <2>6. QED
    BY <2>1, <2>2, <2>4, <2>5, AwbStep DEF Goes, Became
<1>5. ASSUME NEW p \in Procs, AssignAwb(p) PROVE AwbInv'
  <2>1. UNCHANGED <<parcel, awb, fulfilment>>
    BY <1>5 DEF AssignAwb, docVars
  <2>2. op[p].kind = "ship" /\ op[p].at = "assign" /\ op[p].parcel # 0
    BY <1>5, ShipLabel DEF AssignAwb, At, ShipLabels, Late
  <2>3. parcel # 0
    BY <2>2 DEF AwbInv, Late
  <2>4. Known(op'[p], parcel, awb)
    BY <1>5, <2>2, <2>3, Effects DEF Became, Goes, Known, Late, Later
  <2>5. QED
    BY <1>5, <2>1, <2>4, Effects, AwbStep DEF Became, Goes
<1>6. ASSUME NEW p \in Procs, SaveAwb(p) PROVE AwbInv'
  <2>1. UNCHANGED <<parcel, fulfilment>> /\ awb' = op[p].code
    BY <1>6 DEF SaveAwb
  <2>2. op[p].kind = "ship" /\ op[p].at = "saveawb"
    BY <1>6, ShipLabel DEF SaveAwb, At, ShipLabels, Late
  <2>3. parcel # 0 /\ op[p].code # 0
    BY <2>2 DEF AwbInv, Late
  <2>4. Known(op'[p], parcel', awb')
    BY <1>6, <2>1, <2>2, <2>3, Effects DEF Became, Known
  <2>5. QED
    BY <1>6, <2>1, <2>3, <2>4, Effects, AwbStep DEF Became
<1>7. ASSUME NEW p \in Procs, SavePickup(p) PROVE AwbInv'
  <2>1. UNCHANGED <<parcel, awb, fulfilment>>
    BY <1>7 DEF SavePickup
  <2>2. op[p].kind = "ship" /\ op[p].at = "savepickup"
    BY <1>7, ShipLabel DEF SavePickup, At, ShipLabels, Late
  <2>3. parcel # 0 /\ op[p].code # 0 /\ awb # 0
    BY <2>2 DEF AwbInv, Late, Later
  <2>4. Known(op'[p], parcel, awb)
    BY <1>7, <2>3, Effects DEF Became, Known
  <2>5. QED
    BY <1>7, <2>1, <2>4, Effects, AwbStep DEF Became
<1>8. ASSUME NEW p \in Procs, MarkShipped(p) PROVE AwbInv'
  <2>1. UNCHANGED <<parcel, awb>>
    BY <1>8 DEF MarkShipped
  <2>2. op[p].kind = "ship" /\ op[p].at = "shipped"
    BY <1>8, ShipLabel DEF MarkShipped, At, ShipLabels, Late
  <2>3. parcel # 0 /\ op[p].code # 0 /\ awb # 0
    BY <2>2 DEF AwbInv, Late, Later
  <2>4. Known(op'[p], parcel, awb)
    BY <1>8, <2>3, Simple DEF Goes, Became, Known
  <2>5. QED
    BY <1>8, <2>1, <2>3, <2>4, Simple, AwbStep DEF Goes, Became
<1>9. ASSUME NEW p \in Procs,
             \/ CancelParcel(p) \/ SaveCancelled(p) \/ SaveStatus(p)
             \/ SyncOrderStatus(p)
      PROVE  AwbInv'
  <2>1. UNCHANGED <<parcel, fulfilment>> /\ (awb # 0 => awb' # 0)
    BY <1>9 DEF CancelParcel, SaveCancelled, SaveStatus, SyncOrderStatus, docVars
  <2>2. op[p].kind # "ship"
    BY <1>9, ShipLabel
       DEF CancelParcel, SaveCancelled, SaveStatus, SyncOrderStatus, At
  <2>3. op'[p].kind # "ship" /\ \A q \in Procs : q # p => op'[q] = op[q]
    BY <1>9, <2>2, Effects, Simple DEF Goes, Ends, Became
  <2>4. QED
    BY <2>1, <2>3, AwbStep DEF Known
<1>10. ASSUME NEW p \in Procs, PushHistory(p) PROVE AwbInv'
  <2>1. UNCHANGED <<parcel, awb, fulfilment>>
    BY <1>10 DEF PushHistory
  <2>2. op[p].at = "push"
    BY <1>10 DEF PushHistory, At
  <2>3. op[p].kind = "ship" => parcel # 0 /\ op[p].code # 0 /\ awb # 0
    BY <2>2 DEF AwbInv, Late, Later
  <2>4. Known(op'[p], parcel, awb)
    BY <1>10, <2>3, Simple DEF Goes, Ends, Became, Known
  <2>5. \A q \in Procs : q # p => op'[q] = op[q]
    BY <1>10, Simple DEF Goes, Ends, Became
  <2>6. QED
    BY <2>1, <2>4, <2>5, AwbStep
<1>11. QED
  BY <1>1, <1>2, <1>3, <1>4, <1>5, <1>6, <1>7, <1>8, <1>9, <1>10, Actions

\* What OneParcelInv says of one record.
Means(r, k) ==
  /\ r.kind = "cancel" => r.parcel = k
  /\ r.kind = "ship" /\ r.at \in Late => r.parcel = k
  /\ r.code # 0 => r.code = k

OnlyOne == \A k \in DOMAIN parcels : parcels[k] # "new" => k = parcel

LEMMA OneStep ==
  ASSUME OneParcelInv, ~SlowShippers, NEW p \in Procs, parcel' = parcel,
         \A q \in Procs : q # p => op'[q] = op[q],
         Means(op'[p], parcel), awb' # 0 => awb' = parcel, OnlyOne'
  PROVE  OneParcelInv'
<1>1. \A q \in Procs : Means(op'[q], parcel)
  BY DEF OneParcelInv, Means
<1>2. QED
  BY <1>1 DEF OneParcelInv, Means, OnlyOne

LEMMA OneParcelNext ==
  TypeInv /\ LockInv /\ CountInv /\ OneParcelInv /\ [ShipNext]_shipVars
  => OneParcelInv'
<1>. SUFFICES ASSUME TypeInv, LockInv, CountInv, OneParcelInv,
                     [ShipNext]_shipVars, ~SlowShippers
              PROVE  OneParcelInv'
  BY DEF OneParcelInv
<1>1. /\ OnlyOne /\ (awb # 0 => awb = parcel)
      /\ \A p \in Procs : Means(op[p], parcel)
      /\ \A p \in Procs : op[p].kind = "ship" /\ op[p].at \in {"create", "saveparcel"}
                           => parcel = 0
      /\ parcels \in Seq({"new", "awb", "cancelled"})
      /\ DOMAIN parcels = 1 .. Len(parcels) /\ Len(parcels) \in Nat
  BY ParcelsType DEF OneParcelInv, OnlyOne, Means, CountInv, TypeInv, ShipTypeOK
<1>2. CASE Elsewhere
  BY <1>2, ElsewhereKeeps DEF OneParcelInv
<1>3. ASSUME NEW p \in Procs, Quiet(p) PROVE OneParcelInv'
  <2>1. UNCHANGED <<parcel, awb, parcels>>
    BY <1>3, QuietKeeps DEF docVars
  <2>2. \A q \in Procs : q # p => op'[q] = op[q]
    BY <1>3, Effects, Simple DEF Quiet, Goes, Ends, Became
  <2>3. Means(op'[p], parcel)
    <3>1. CASE StartShip(p) \/ Unlock(p)
      BY <3>1, Effects, Simple DEF Ends, Became, Means, Late
    <3>2. CASE StartCancel(p)
      BY <1>1, <3>2, Effects DEF Became, Means
    <3>3. CASE \E raw \in Reported, code \in {0} \cup DOMAIN parcels :
                 StartUpdate(p, raw, code)
      <4>1. PICK raw \in Reported, code \in {0} \cup DOMAIN parcels :
              StartUpdate(p, raw, code)
        BY <3>3
      <4>2. code # 0 => code = parcel
        BY <1>1, <4>1 DEF StartUpdate, OnlyOne
      <4>3. QED
        BY <4>1, <4>2, Effects DEF Became, Means
    <3>4. CASE ReadToShip(p)
      <4>1. op[p].kind = "ship"
        BY <3>4, ShipLabel DEF ReadToShip, At, ShipLabels, Late
      <4>2. QED
        BY <1>1, <3>4, <4>1, Effects DEF Became, Means
    <3>5. CASE RequestPickup(p) \/ Fail(p)
      <4>1. RequestPickup(p) => op[p].kind = "ship" /\ op[p].at = "pickup"
        BY ShipLabel DEF RequestPickup, At, ShipLabels, Late
      <4>2. QED
        BY <1>1, <3>5, <4>1, Simple DEF Goes, Ends, Became, Means, Shipping, Late
    <3>6. QED
      BY <1>3, <3>1, <3>2, <3>3, <3>4, <3>5 DEF Quiet
  <2>4. QED
    BY <1>1, <2>1, <2>2, <2>3, OneStep DEF OnlyOne
<1>4. ASSUME NEW p \in Procs, CreateParcel(p) PROVE OneParcelInv'
  <2>1. UNCHANGED <<parcel, awb>>
    BY <1>4 DEF CreateParcel, docVars
  <2>2. op[p].kind = "ship" /\ op[p].at = "create"
    BY <1>4, ShipLabel DEF CreateParcel, At, ShipLabels
  <2>3. Means(op'[p], parcel)
    BY <1>1, <1>4, <2>2, Effects DEF Became, Goes, Means, Late
  <2>4. OnlyOne'
    BY <1>1, <1>4, <2>1, Created DEF OnlyOne, CreateParcel
  <2>5. \A q \in Procs : q # p => op'[q] = op[q]
    BY <1>4, Effects DEF Became, Goes
  <2>6. QED
    BY <1>1, <2>1, <2>3, <2>4, <2>5, OneStep
<1>5. ASSUME NEW p \in Procs, SaveParcel(p) PROVE OneParcelInv'
  <2>1. UNCHANGED <<awb, parcels>> /\ parcel' = op[p].parcel
    BY <1>5 DEF SaveParcel
  <2>2. op[p].kind = "ship" /\ op[p].at = "saveparcel"
    BY <1>5, ShipLabel DEF SaveParcel, At, ShipLabels
  <2>3. parcel = 0 /\ awb = 0 /\ \A k \in DOMAIN parcels : parcels[k] = "new"
    BY <1>1, <2>2 DEF OnlyOne
  <2>4. \A q \in Procs : op[q].code = 0 /\ op[q].kind # "cancel"
    BY <1>1, <2>3, ShipLabel DEF Means
  <2>5. \A q \in Procs : q # p => op[q].kind # "ship"
    BY <2>2 DEF LockInv, Shipping
  <2>6. /\ op'[p].kind = "ship" /\ op'[p].parcel = op[p].parcel /\ op'[p].code = 0
        /\ \A q \in Procs : q # p => op'[q] = op[q]
    BY <1>5, <2>2, <2>4, Simple DEF Goes, Became
  <2>7. QED
    BY <2>1, <2>3, <2>4, <2>5, <2>6 DEF OneParcelInv
<1>6. ASSUME NEW p \in Procs, AssignAwb(p) \/ CancelParcel(p) PROVE OneParcelInv'
  <2>1. UNCHANGED <<parcel, awb>>
    BY <1>6 DEF AssignAwb, CancelParcel, docVars
  <2>2. \/ op[p].kind = "ship" /\ op[p].at = "assign"
        \/ op[p].kind = "cancel" /\ op[p].at = "cancel"
    BY <1>6, ShipLabel DEF AssignAwb, CancelParcel, At, ShipLabels, Late
  <2>3. op[p].parcel = parcel /\ op[p].parcel \in 1 .. Len(parcels)
    BY <1>1, <2>2, ShipLabel DEF Means, Late
  <2>4. Means(op'[p], parcel) /\ \A q \in Procs : q # p => op'[q] = op[q]
    BY <1>1, <1>6, <2>2, <2>3, Effects, Simple DEF Became, Goes, Ends, Means, Late
  <2>5. OnlyOne'
    BY <1>1, <1>6, <2>1, <2>3, Moved DEF OnlyOne, AssignAwb, CancelParcel
  <2>6. QED
    BY <1>1, <2>1, <2>4, <2>5, OneStep
<1>7. ASSUME NEW p \in Procs,
             \/ SaveAwb(p) \/ SavePickup(p) \/ MarkShipped(p)
             \/ SaveCancelled(p) \/ SaveStatus(p) \/ PushHistory(p)
             \/ SyncOrderStatus(p)
      PROVE  OneParcelInv'
  <2>1. UNCHANGED <<parcel, parcels>> /\ awb' \in {awb, op[p].code}
    BY <1>7 DEF SaveAwb, SavePickup, MarkShipped, SaveCancelled, SaveStatus,
                PushHistory, SyncOrderStatus
  <2>2. /\ op[p].at \in {"saveawb", "savepickup", "shipped", "savecancel",
                          "savestatus", "push", "sync"}
        /\ op[p].at \in {"saveawb", "savepickup"} => op[p].kind = "ship"
        /\ op[p].at = "savecancel" => op[p].kind = "cancel"
    BY <1>7, ShipLabel
       DEF SaveAwb, SavePickup, MarkShipped, SaveCancelled, SaveStatus,
           PushHistory, SyncOrderStatus, At, ShipLabels, Late
  <2>3. \A q \in Procs : q # p => op'[q] = op[q]
    BY <1>7, Effects, Simple DEF Goes, Ends, Became
  <2>4. \/ Ends(p)
        \/ /\ op'[p].kind = op[p].kind /\ op'[p].parcel = op[p].parcel
           /\ op'[p].code = op[p].code
    <3>1. CASE SaveAwb(p) \/ SavePickup(p) \/ SaveCancelled(p)
      BY <3>1, Effects DEF Became
    <3>2. CASE SaveStatus(p)
      BY <3>2, Simple DEF Goes, Became
    <3>3. CASE MarkShipped(p) \/ PushHistory(p) \/ SyncOrderStatus(p)
      BY <3>3, Simple DEF Goes, Became
    <3>4. QED
      BY <1>7, <3>1, <3>2, <3>3
  <2>5. Means(op'[p], parcel)
    <3>1. op[p].kind = "ship" => op[p].at \in Late
      BY <2>2, ShipLabel DEF Late, ShipLabels
    <3>2. QED
      BY <1>1, <2>4, <3>1 DEF Means, Ends, Became
  <2>6. OnlyOne' /\ (awb' # 0 => awb' = parcel)
    BY <1>1, <2>1 DEF OnlyOne, Means
  <2>7. QED
    BY <2>1, <2>3, <2>5, <2>6, OneStep
<1>8. QED
  BY <1>2, <1>3, <1>4, <1>5, <1>6, <1>7, Actions

\* An order that says "shipped" has a parcel with a code, and while no ship_order
\* outlasts the lock it is the code of that parcel.
THEOREM ShippedHasParcelHolds == ShipSpec => []ShippedHasParcel
<1>1. ShipInit => LockInv /\ CountInv /\ AwbInv /\ OneParcelInv
  BY EmptySeq, FaultsAssumption
     DEF ShipInit, LockInv, CountInv, AwbInv, OneParcelInv, Shipping, Idle
<1>2. AwbInv /\ OneParcelInv => ShippedHasParcel
  BY DEF AwbInv, OneParcelInv, ShippedHasParcel
<1>3. QED
  BY <1>1, <1>2, TypeInit, TypeNext, LockNext, CountNext, AwbNext,
     OneParcelNext, PTL DEF ShipSpec

-----------------------------------------------------------------------------
(* The history *)

\* A note is never lost: a status stays noted unless its writer fails.
LEMMA NotedStays ==
  ASSUME TypeInv, [ShipNext]_shipVars, faults' = 0, NEW s, Noted(s)
  PROVE  Noted(s)'
<1>1. CASE Elsewhere
  BY <1>1, ElsewhereKeeps DEF Noted
<1>2. CASE s \in recorded \cup {"pending"}
  <2>1. recorded \subseteq recorded'
    BY Actions, ElsewhereKeeps, QuietKeeps
       DEF CreateParcel, SaveParcel, AssignAwb, SaveAwb, SavePickup,
           MarkShipped, CancelParcel, SaveCancelled, SaveStatus, PushHistory,
           SyncOrderStatus, docVars
  <2>2. QED
    BY <1>2, <2>1 DEF Noted
<1>3. ASSUME ~Elsewhere, NEW q \in Procs, op[q].at = "push", op[q].next = s
      PROVE  Noted(s)'
  <2>1. PICK p \in Procs :
          \/ Quiet(p) \/ CreateParcel(p) \/ SaveParcel(p) \/ AssignAwb(p)
          \/ SaveAwb(p) \/ SavePickup(p) \/ MarkShipped(p)
          \/ CancelParcel(p) \/ SaveCancelled(p) \/ SaveStatus(p)
          \/ PushHistory(p) \/ SyncOrderStatus(p)
    BY <1>3, Actions
  <2>2. ~Fail(p)
    BY FaultsAssumption DEF Fail, TypeInv, ShipTypeOK
  <2>3. CASE PushHistory(p) /\ p = q
    BY <1>3, <2>3 DEF PushHistory, Noted
  <2>4. CASE ~(PushHistory(p) /\ p = q)
    <3>1. op'[q] = op[q]
      <4>1. CASE p # q
        BY <2>1, <4>1, Effects, Simple DEF Quiet, Goes, Ends, Became
      <4>2. CASE p = q
        <5>1. /\ ~(CreateParcel(p) \/ SaveParcel(p) \/ AssignAwb(p) \/ SaveAwb(p))
              /\ ~(SavePickup(p) \/ MarkShipped(p) \/ CancelParcel(p))
              /\ ~(SaveCancelled(p) \/ SaveStatus(p) \/ SyncOrderStatus(p))
          BY <1>3, <4>2
             DEF CreateParcel, SaveParcel, AssignAwb, SaveAwb, SavePickup,
                 MarkShipped, CancelParcel, SaveCancelled, SaveStatus,
                 SyncOrderStatus, At
        <5>2. ~Quiet(p)
          BY <1>3, <2>2, <4>2, OpFacts
             DEF Quiet, StartShip, ReadToShip, RequestPickup, Unlock,
                 StartCancel, StartUpdate, At, Free, Shape
        <5>3. QED
          BY <2>1, <2>4, <4>2, <5>1, <5>2
      <4>3. QED
        BY <4>1, <4>2
    <3>2. QED
      BY <1>3, <3>1 DEF Noted
  <2>5. QED
    BY <2>3, <2>4
<1>4. QED
  BY <1>1, <1>2, <1>3 DEF Noted

LEMMA HistoryNext == TypeInv /\ HistoryInv /\ [ShipNext]_shipVars => HistoryInv'
<1>. SUFFICES ASSUME TypeInv, HistoryInv, [ShipNext]_shipVars, faults' = 0
              PROVE  HistoryInv'
  BY DEF HistoryInv
<1>1. faults = 0
  <2>1. faults \in Nat
    BY FaultsAssumption DEF TypeInv, ShipTypeOK
  <2>2. CASE Elsewhere
    BY <2>2, ElsewhereKeeps
  <2>3. ASSUME NEW p \in Procs, Quiet(p) \/ CreateParcel(p)
        PROVE  faults' \in {faults, faults + 1}
    BY <2>3
       DEF Quiet, StartShip, ReadToShip, RequestPickup, Unlock, StartCancel,
           Fail, StartUpdate, CreateParcel
  <2>4. ASSUME NEW p \in Procs,
               \/ SaveParcel(p) \/ AssignAwb(p) \/ SaveAwb(p) \/ SavePickup(p)
               \/ MarkShipped(p) \/ CancelParcel(p) \/ SaveCancelled(p)
               \/ SaveStatus(p) \/ PushHistory(p) \/ SyncOrderStatus(p)
        PROVE  faults' = faults
    BY <2>4
       DEF SaveParcel, AssignAwb, SaveAwb, SavePickup, MarkShipped,
           CancelParcel, SaveCancelled, SaveStatus, PushHistory,
           SyncOrderStatus
  <2>5. faults' \in {faults, faults + 1}
    BY <2>2, <2>3, <2>4, Actions
  <2>6. QED
    BY <2>1, <2>5
<1>2. /\ Noted(shipStatus)
      /\ \A p \in Procs : op[p].at = "savestatus" => Noted(op[p].seen)
  BY <1>1 DEF HistoryInv
<1>3. CASE Elsewhere
  BY <1>2, <1>3, ElsewhereKeeps DEF HistoryInv, Noted
<1>4. ASSUME NEW p \in Procs,
             \/ Quiet(p) \/ CreateParcel(p) \/ SaveParcel(p) \/ AssignAwb(p)
             \/ MarkShipped(p) \/ CancelParcel(p) \/ PushHistory(p)
             \/ SyncOrderStatus(p)
      PROVE  HistoryInv'
  <2>1. shipStatus' = shipStatus
    BY <1>4, QuietKeeps
       DEF CreateParcel, SaveParcel, AssignAwb, MarkShipped, CancelParcel,
           PushHistory, SyncOrderStatus, docVars
  <2>2. \A q \in Procs : op'[q].at = "savestatus" =>
          op'[q] = op[q] \/ op'[q].seen = shipStatus
    BY <1>4, Effects, Simple DEF Quiet, Goes, Ends, Became
  <2>3. QED
    BY <1>2, <2>1, <2>2, NotedStays DEF HistoryInv
<1>5. ASSUME NEW p \in Procs,
             SaveAwb(p) \/ SavePickup(p) \/ SaveCancelled(p) \/ SaveStatus(p)
      PROVE  HistoryInv'
  <2>1. \A q \in Procs : op'[q].at = "savestatus" => op'[q] = op[q]
    BY <1>5, Effects, Simple DEF Goes, Ends, Became
  <2>2. Noted(shipStatus)'
    <3>1. CASE SaveStatus(p) /\ op[p].next = op[p].seen
      BY <1>2, <3>1, NotedStays DEF SaveStatus, At
    <3>2. CASE ~(SaveStatus(p) /\ op[p].next = op[p].seen)
      <4>1. op'[p].at = "push" /\ op'[p].next = shipStatus'
        BY <1>5, <3>2, Effects, Simple
           DEF Goes, Became, SaveAwb, SavePickup, SaveCancelled, SaveStatus
      <4>2. QED
        BY <4>1 DEF Noted
    <3>3. QED
      BY <3>1, <3>2
  <2>3. QED
    BY <1>2, <2>1, <2>2, NotedStays DEF HistoryInv
<1>6. QED
  BY <1>3, <1>4, <1>5, Actions

\* Without crashes and failing writes, once nobody is in the middle of a method
\* the status customers see is in the history, whoever wrote it.
THEOREM StatusInHistoryHolds == ShipSpec => []StatusInHistory
<1>1. ShipInit => HistoryInv
  BY DEF ShipInit, HistoryInv, Noted, Idle
<1>2. TypeInv /\ HistoryInv => StatusInHistory
  <2>. SUFFICES ASSUME TypeInv, HistoryInv, faults = 0,
                       \A p \in Procs : Free(p)
                PROVE  shipStatus \in recorded \cup {"pending"}
    BY DEF StatusInHistory
  <2>1. \A p \in Procs : op[p].at # "push"
    BY OpFacts DEF Free, Shape
  <2>2. QED
    BY <2>1 DEF HistoryInv, Noted
<1>3. QED
  BY <1>1, <1>2, TypeInit, TypeNext, HistoryNext, PTL DEF ShipSpec

-----------------------------------------------------------------------------
(* Terminal states *)

\* The parcel in the document is no longer new.
Handed == parcel # 0 /\ parcels[parcel] # "new"

\* What TerminalInv says of one record.
Obeys(r, handed) ==
  /\ r.kind = "ship" /\ Terminal(r.seen) =>
       handed /\ r.at \notin {"saveawb", "savepickup"}
  /\ r.kind = "cancel" =>
       ~Terminal(r.seen) /\ (r.at # "cancel" => handed)
  /\ r.kind = "update" =>
       handed /\ (Terminal(r.seen) => r.next = r.seen)

LEMMA TerminalIsObeyed ==
  ~SlowShippers =>
    (TerminalInv <=> /\ Terminal(shipStatus) => Handed
                     /\ \A p \in Procs : Obeys(op[p], Handed))
  BY DEF TerminalInv, Obeys, Handed

LEMMA ObeyStep ==
  ASSUME TerminalInv, ~SlowShippers, NEW p \in Procs, Handed => Handed',
         \A q \in Procs : q # p => op'[q] = op[q], Obeys(op'[p], Handed'),
         Terminal(shipStatus') => Handed'
  PROVE  TerminalInv'
<1>1. \A q \in Procs : Obeys(op[q], Handed)
  BY TerminalIsObeyed
<1>2. \A q \in Procs : Obeys(op'[q], Handed')
  BY <1>1 DEF Obeys
<1>3. QED
  BY <1>2 DEF TerminalInv, Obeys, Handed

LEMMA HandedStays ==
  ASSUME TypeInv, CountInv, [ShipNext]_shipVars, ~SlowShippers, Handed
  PROVE  Handed'
<1>1. /\ parcel \in 1 .. Len(parcels) /\ DOMAIN parcels = 1 .. Len(parcels)
      /\ parcels \in Seq({"new", "awb", "cancelled"})
  BY ParcelsType DEF TypeInv, ShipTypeOK, Handed
<1>2. parcel' = parcel
  <2>1. ASSUME NEW p \in Procs, SaveParcel(p) PROVE FALSE
    BY <2>1, ShipLabel DEF SaveParcel, At, ShipLabels, CountInv, Handed
  <2>2. QED
    BY <2>1, ParcelStays
<1>3. CASE Elsewhere
  BY <1>2, <1>3, ElsewhereKeeps DEF Handed
<1>4. ASSUME NEW p \in Procs,
             \/ Quiet(p) \/ SaveParcel(p) \/ SaveAwb(p) \/ SavePickup(p)
             \/ MarkShipped(p) \/ SaveCancelled(p) \/ SaveStatus(p)
             \/ PushHistory(p) \/ SyncOrderStatus(p)
      PROVE  Handed'
  <2>1. parcels' = parcels
    BY <1>4, QuietKeeps
       DEF SaveParcel, SaveAwb, SavePickup, MarkShipped, SaveCancelled,
           SaveStatus, PushHistory, SyncOrderStatus
  <2>2. QED
    BY <1>2, <2>1 DEF Handed
<1>5. ASSUME NEW p \in Procs, CreateParcel(p) PROVE Handed'
  BY <1>1, <1>2, <1>5, Created DEF CreateParcel, Handed
<1>6. ASSUME NEW p \in Procs, AssignAwb(p) \/ CancelParcel(p) PROVE Handed'
  <2>1. op[p].parcel \in 1 .. Len(parcels)
    BY <1>6, ShipLabel DEF AssignAwb, CancelParcel, At, Late
  <2>2. QED
    BY <1>1, <1>2, <1>6, <2>1, Moved DEF AssignAwb, CancelParcel, Handed
<1>7. QED
  BY <1>3, <1>4, <1>5, <1>6, Actions

LEMMA TerminalNext ==
  TypeInv /\ LockInv /\ CountInv /\ OneParcelInv /\ TerminalInv
  /\ [ShipNext]_shipVars => TerminalInv'
<1>. SUFFICES ASSUME TypeInv, LockInv, CountInv, OneParcelInv, TerminalInv,
                     [ShipNext]_shipVars, ~SlowShippers
              PROVE  TerminalInv'
  BY DEF TerminalInv
<1>1. /\ Terminal(shipStatus) => Handed
      /\ \A p \in Procs : Obeys(op[p], Handed)
      /\ Handed => Handed'
  BY TerminalIsObeyed, HandedStays
<1>2. CASE Elsewhere
  BY <1>2, ElsewhereKeeps DEF TerminalInv
<1>3. ASSUME NEW p \in Procs, Quiet(p) PROVE TerminalInv'
  <2>1. shipStatus' = shipStatus
    BY <1>3, QuietKeeps DEF docVars
  <2>2. \A q \in Procs : q # p => op'[q] = op[q]
    BY <1>3, Effects, Simple DEF Quiet, Goes, Ends, Became
  <2>3. Obeys(op'[p], Handed')
    <3>1. CASE StartShip(p) \/ Unlock(p)
      BY <3>1, Effects, Simple DEF Ends, Became, Obeys, Terminal
    <3>2. CASE StartCancel(p)
      BY <3>2, Effects DEF StartCancel, Became, Obeys
    <3>3. CASE \E raw \in Reported, code \in {0} \cup DOMAIN parcels :
                 StartUpdate(p, raw, code)
      <4>1. PICK raw \in Reported, code \in {0} \cup DOMAIN parcels :
              StartUpdate(p, raw, code)
        BY <3>3
      <4>2. Handed
        BY <4>1 DEF StartUpdate, OneParcelInv, Handed, TypeInv, ShipTypeOK
      <4>3. Terminal(shipStatus) => Mapped(raw, shipStatus) = shipStatus
        BY <4>1 DEF StartUpdate, Applies
      <4>4. QED
        BY <1>1, <4>1, <4>2, <4>3, Effects DEF Became, Obeys
    <3>4. CASE ReadToShip(p)
      <4>1. op[p].kind = "ship"
        BY <3>4, ShipLabel DEF ReadToShip, At, ShipLabels, Late
      <4>2. op'[p].kind = "ship" /\ op'[p].seen = shipStatus
            /\ op'[p].at \notin {"saveawb", "savepickup"}
        BY <3>4, <4>1, Effects DEF Became
      <4>3. QED
        BY <1>1, <4>2 DEF Obeys
    <3>5. CASE RequestPickup(p)
      <4>1. op[p].kind = "ship"
        BY <3>5, ShipLabel DEF RequestPickup, At, ShipLabels, Late
      <4>2. /\ op'[p].kind = "ship" /\ op'[p].seen = op[p].seen
            /\ op'[p].at \in {"savepickup", "shipped"}
        BY <3>5, <4>1, Simple DEF Goes, Became
      <4>3. op'[p].at = "savepickup" => op[p].seen = "awb_assigned"
        <5>1. CASE op[p].seen = "awb_assigned"
          BY <5>1
        <5>2. CASE op[p].seen # "awb_assigned"
          BY <3>5, <5>2, GotoGoes DEF RequestPickup, Goes, Became
        <5>3. QED
          BY <5>1, <5>2
      <4>4. QED
        BY <1>1, <4>1, <4>2, <4>3 DEF Obeys, Terminal
    <3>6. CASE Fail(p)
      BY <1>1, <3>6, Simple DEF Goes, Ends, Became, Obeys, Shipping
    <3>7. QED
      BY <1>3, <3>1, <3>2, <3>3, <3>4, <3>5, <3>6 DEF Quiet
  <2>4. QED
    BY <1>1, <2>1, <2>2, <2>3, ObeyStep
<1>4. ASSUME NEW p \in Procs,
             \/ CreateParcel(p) \/ SaveParcel(p) \/ AssignAwb(p) \/ SaveAwb(p)
             \/ SavePickup(p) \/ MarkShipped(p)
      PROVE  TerminalInv'
  <2>1. op[p].kind = "ship"
    BY <1>4, ShipLabel
       DEF CreateParcel, SaveParcel, AssignAwb, SaveAwb, SavePickup,
           MarkShipped, At, ShipLabels, Late
  <2>2. shipStatus' = shipStatus \/ ~Terminal(shipStatus')
    BY <1>4 DEF CreateParcel, SaveParcel, AssignAwb, SaveAwb, SavePickup,
                MarkShipped, docVars, Terminal
  <2>3. \A q \in Procs : q # p => op'[q] = op[q]
    BY <1>4, Effects, Simple DEF Goes, Became
  <2>4. /\ op'[p].kind = "ship"
        /\ op'[p].seen = op[p].seen \/ ~Terminal(op'[p].seen)
        /\ op'[p].at # "savepickup" \/ op' = op
    BY <1>4, <2>1, Effects, Simple DEF Goes, Became, Terminal
  <2>5. op'[p].at = "saveawb" => ~Terminal(op'[p].seen)
    <3>1. CASE AssignAwb(p)
      <4>1. op[p].at = "assign" /\ op[p].parcel = parcel /\ op[p].parcel # 0
        BY <2>1, <3>1, ShipLabel DEF AssignAwb, At, OneParcelInv, Late
      <4>2. CASE parcels[op[p].parcel] = "new"
        BY <1>1, <2>1, <2>4, <4>1, <4>2 DEF Obeys, Handed
      <4>3. CASE parcels[op[p].parcel] # "new"
        BY <3>1, <4>3, Effects DEF Goes, Became
      <4>4. QED
        BY <4>2, <4>3
    <3>2. CASE ~AssignAwb(p)
      BY <1>1, <1>4, <2>1, <3>2, Effects, Simple DEF Goes, Became, Obeys
    <3>3. QED
      BY <3>1, <3>2
  <2>6. Obeys(op'[p], Handed')
    BY <1>1, <2>1, <2>4, <2>5 DEF Obeys
  <2>7. QED
    BY <1>1, <2>2, <2>3, <2>6, ObeyStep
<1>5. ASSUME NEW p \in Procs,
             CancelParcel(p) \/ SaveCancelled(p)
      PROVE  TerminalInv'
  <2>1. op[p].kind = "cancel" /\ op[p].at \in {"cancel", "savecancel"}
    BY <1>5, ShipLabel DEF CancelParcel, SaveCancelled, At
  <2>2. \A q \in Procs : q # p => op'[q] = op[q]
    BY <1>5, Effects, Simple DEF Goes, Ends, Became
  <2>3. CASE Ends(p) /\ shipStatus' = shipStatus
    BY <1>1, <2>2, <2>3, ObeyStep DEF Ends, Became, Obeys
  <2>4. CASE ~(Ends(p) /\ shipStatus' = shipStatus)
    <3>1. op'[p].kind = "cancel" /\ op'[p].seen = op[p].seen
      BY <1>5, <2>1, <2>4, Effects, Simple
         DEF Goes, Became, CancelParcel, docVars
    <3>2. Handed'
      <4>1. CASE CancelParcel(p)
        <5>1. /\ op[p].parcel = parcel /\ op[p].parcel \in 1 .. Len(parcels)
              /\ parcels \in Seq({"new", "awb", "cancelled"})
          BY <2>1, ShipLabel DEF OneParcelInv, TypeInv, ShipTypeOK
        <5>2. /\ parcels' = [parcels EXCEPT ![op[p].parcel] = "cancelled"]
              /\ parcel' = parcel
          BY <2>4, <4>1, FinishEnds DEF CancelParcel, docVars
        <5>3. QED
          BY <5>1, <5>2, Moved DEF Handed
      <4>2. CASE SaveCancelled(p)
        BY <1>1, <2>1, <4>2 DEF Obeys, SaveCancelled, At
      <4>3. QED
        BY <1>5, <4>1, <4>2
    <3>3. Obeys(op'[p], Handed')
      BY <1>1, <2>1, <3>1, <3>2 DEF Obeys
    <3>4. QED
      BY <2>2, <3>2, <3>3, ObeyStep
  <2>5. QED
    BY <2>3, <2>4
<1>6. ASSUME NEW p \in Procs,
             SaveStatus(p) \/ PushHistory(p) \/ SyncOrderStatus(p)
      PROVE  TerminalInv'
  <2>1. \A q \in Procs : q # p => op'[q] = op[q]
    BY <1>6, Simple DEF Goes, Ends, Became
  <2>2. \/ op'[p].kind = "none"
        \/ /\ op'[p].kind = op[p].kind /\ op'[p].seen = op[p].seen
           /\ op'[p].next = op[p].next
           /\ op'[p].at \in {"push", "sync", "pickup", "shipped"}
           /\ op[p].at # "cancel"
    BY <1>6, Simple DEF Goes, Ends, Became, SaveStatus, PushHistory, At
  <2>3. Obeys(op'[p], Handed')
    BY <1>1, <2>2 DEF Obeys
  <2>4. Terminal(shipStatus') => Handed'
    <3>1. CASE SaveStatus(p)
      BY <1>1, <3>1, ShipLabel DEF SaveStatus, At, Obeys
    <3>2. CASE ~SaveStatus(p)
      BY <1>1, <1>6, <3>2 DEF PushHistory, SyncOrderStatus
    <3>3. QED
      BY <3>1, <3>2
  <2>5. QED
    BY <1>1, <2>1, <2>3, <2>4, ObeyStep
<1>7. QED
  BY <1>2, <1>3, <1>4, <1>5, <1>6, Actions

\* Whoever read a terminal shipment leaves the status alone or writes the one it
\* read again, and whoever read a rejected order keeps the rejection, while no
\* ship_order outlasts the lock.
THEOREM TerminalReadersObeyHolds ==
  ASSUME ~SlowShippers
  PROVE  ShipSpec => TerminalReadersObey
<1>. DEFINE Obey == \A p \in Procs : op'[p] # op[p] =>
       /\ Terminal(op[p].seen) => shipStatus' \in {shipStatus, op[p].seen}
       /\ op[p].type \in Rejections => orderType' = orderType
<1>1. ShipInit => LockInv /\ CountInv /\ OneParcelInv /\ TerminalInv
  BY EmptySeq, FaultsAssumption
     DEF ShipInit, LockInv, CountInv, OneParcelInv, TerminalInv, Shipping, Idle,
         Terminal
<1>2. TypeInv /\ TerminalInv /\ [ShipNext]_shipVars => [Obey]_shipVars
  <2>. SUFFICES ASSUME TypeInv, TerminalInv, [ShipNext]_shipVars,
                       NEW q \in Procs, op'[q] # op[q]
                PROVE  /\ Terminal(op[q].seen) =>
                             shipStatus' \in {shipStatus, op[q].seen}
                       /\ op[q].type \in Rejections => orderType' = orderType
    OBVIOUS
  <2>1. Obeys(op[q], Handed)
    BY TerminalIsObeyed
  <2>2. PICK p \in Procs :
          \/ Quiet(p) \/ CreateParcel(p) \/ SaveParcel(p) \/ AssignAwb(p)
          \/ SaveAwb(p) \/ SavePickup(p) \/ MarkShipped(p)
          \/ CancelParcel(p) \/ SaveCancelled(p) \/ SaveStatus(p)
          \/ PushHistory(p) \/ SyncOrderStatus(p)
    BY Actions, ElsewhereKeeps
  <2>3. p = q
    BY <2>2, Effects, Simple DEF Quiet, Goes, Ends, Became
  <2>4. op[q].type \in Rejections => orderType' = orderType
    <3>1. CASE SyncOrderStatus(p)
      BY <2>3, <3>1 DEF SyncOrderStatus
    <3>2. CASE ~SyncOrderStatus(p)
      BY <2>2, <3>2, QuietKeeps
         DEF CreateParcel, SaveParcel, AssignAwb, SaveAwb, SavePickup,
             MarkShipped, CancelParcel, SaveCancelled, SaveStatus, PushHistory,
             docVars
    <3>3. QED
      BY <3>1, <3>2
  <2>5. Terminal(op[q].seen) => shipStatus' \in {shipStatus, op[q].seen}
    <3>1. CASE SaveAwb(p) \/ SavePickup(p)
      BY <2>1, <2>3, <3>1, ShipLabel
         DEF SaveAwb, SavePickup, At, Obeys, ShipLabels, Late
    <3>2. CASE SaveCancelled(p) \/ SaveStatus(p)
      BY <2>1, <2>3, <3>2, ShipLabel DEF SaveCancelled, SaveStatus, At, Obeys
    <3>3. CASE ~(SaveAwb(p) \/ SavePickup(p) \/ SaveCancelled(p) \/ SaveStatus(p))
      BY <2>2, <3>3, QuietKeeps
         DEF CreateParcel, SaveParcel, AssignAwb, MarkShipped, CancelParcel,
             PushHistory, SyncOrderStatus, docVars
    <3>4. QED
      BY <3>1, <3>2, <3>3
  <2>6. QED
    BY <2>4, <2>5
<1>3. QED
  BY <1>1, <1>2, TypeInit, TypeNext, LockNext, CountNext, OneParcelNext,
     TerminalNext, PTL DEF ShipSpec, TerminalReadersObey
=============================================================================
