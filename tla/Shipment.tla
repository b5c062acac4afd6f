------------------------------ MODULE Shipment ------------------------------
(***************************************************************************)
(* The shipment of one order: ShiprocketService.ship_order, cancel_shipment, *)
(* track and handle_webhook (src/src/services/shiprocket_service.py) over  *)
(* the order's document, the ship lock in Redis and the parcels Shiprocket *)
(* knows for the order.  No method touches two orders.                     *)
(*                                                                         *)
(* A process is a coroutine that runs one of the methods; its steps are    *)
(* the awaits that read or write shared state.  Left out: labels, invoices *)
(* and quotes (soft failures nobody reads), the scan log, and texts.       *)
(***************************************************************************)
EXTENDS Integers, Sequences

CONSTANTS
  Procs,        \* coroutines of the API and the worker
  Reported,     \* what a courier update can say, see Mapped
  MaxFaults,    \* bound on crashes, failing writes and lost answers
  SlowShippers  \* may a live ship_order outlast the 120 s of its lock?

Statuses == {"pending", "awb_assigned", "pickup_scheduled", "picked_up",
             "in_transit", "out_for_delivery", "delivered", "rto_initiated",
             "rto_delivered", "cancellation_requested", "cancelled", "failed"}

ASSUME ReportedAssumption ==
  Reported \subseteq Statuses \cup {"unrecognized", "none"}
ASSUME FaultsAssumption == MaxFaults \in Nat /\ SlowShippers \in BOOLEAN

VARIABLES
  shipStatus,  \* orders.shipment_status
  parcel,      \* orders.shiprocket_order_id: its number in parcels, 0 if none
  awb,         \* orders.awb_code: the parcel it belongs to, 0 if none
  fulfilment,  \* orders.fulfillment_status
  orderType,   \* orders.status.type
  recorded,    \* the statuses in orders.shipment_status_history
  shipLock,    \* does Redis have shiprocket:ship_lock:<order>?
  parcels,     \* Shiprocket's side: the parcels created for the order
  op,          \* the method each process runs
  faults       \* counts towards MaxFaults

docVars == <<shipStatus, parcel, awb, fulfilment, orderType, recorded>>
shipVars == <<docVars, shipLock, parcels, op, faults>>

Idle == [kind |-> "none", at |-> "idle", seen |-> "pending", type |-> "accepted",
         parcel |-> 0, code |-> 0, next |-> "pending"]

Free(p) == op[p].kind = "none"
At(p, label) == op[p].at = label
Goto(p, label) == op' = [op EXCEPT ![p].at = label]
Finish(p) == op' = [op EXCEPT ![p] = Idle]
Shipping(p) == op[p].kind = "ship"

\* _is_terminal_shipment_status
Terminal(s) == s \in {"cancelled", "delivered", "rto_delivered", "failed"}

-----------------------------------------------------------------------------
(* ship_order: the lock, then _ship_order_impl, then the lock again *)

\* Mutant of StartShip: no lock.
StartShipUnlocked(p) ==
  /\ Free(p)
  /\ shipLock' = TRUE
  /\ op' = [op EXCEPT ![p] = [Idle EXCEPT !.kind = "ship", !.at = "read"]]
  /\ UNCHANGED <<docVars, parcels, faults>>

\* SET NX EX 120; without the lock the method raises.
StartShip(p) ==
  /\ Free(p) /\ ~shipLock
  /\ shipLock' = TRUE
  /\ op' = [op EXCEPT ![p] = [Idle EXCEPT !.kind = "ship", !.at = "read"]]
  /\ UNCHANGED <<docVars, parcels, faults>>

\* The document every later decision of this call is taken on.
ReadToShip(p) ==
  /\ At(p, "read")
  /\ op' = [op EXCEPT ![p] =
              [@ EXCEPT !.seen = shipStatus, !.parcel = parcel, !.code = awb,
                        !.at = IF parcel = 0 THEN "create"
                               ELSE IF awb = 0 THEN "assign" ELSE "pickup"]]
  /\ UNCHANGED <<docVars, shipLock, parcels, faults>>

\* Mutant of CreateParcel: an answer without ids is taken for one.
CreateParcelUnchecked(p) ==
  /\ At(p, "create")
  /\ \/ parcels' = Append(parcels, "new")
     \/ UNCHANGED parcels
  /\ op' = [op EXCEPT ![p] = [@ EXCEPT !.parcel = Len(parcels) + 1,
                                       !.at = "saveparcel"]]
  /\ UNCHANGED <<docVars, shipLock, faults>>

\* create_order answers, fails, or takes effect although its answer is lost:
\* then call_guarded repeats it or gives up.
CreateParcel(p) ==
  /\ At(p, "create")
  /\ \/ /\ parcels' = Append(parcels, "new")
        /\ op' = [op EXCEPT ![p] = [@ EXCEPT !.parcel = Len(parcels) + 1,
                                             !.at = "saveparcel"]]
        /\ UNCHANGED faults
     \/ Goto(p, "unlock") /\ UNCHANGED <<parcels, faults>>
     \/ /\ faults < MaxFaults /\ faults' = faults + 1
        /\ parcels' = Append(parcels, "new")
        /\ UNCHANGED op \/ Goto(p, "unlock")
  /\ UNCHANGED <<docVars, shipLock>>

SaveParcel(p) ==
  /\ At(p, "saveparcel")
  /\ parcel' = op[p].parcel
  /\ Goto(p, IF op[p].code = 0 THEN "assign" ELSE "pickup")
  /\ UNCHANGED <<shipStatus, awb, fulfilment, orderType, recorded, shipLock,
                 parcels, faults>>

\* Mutant of AssignAwb: an answer without a code is not an error.
AssignAwbUnchecked(p) ==
  /\ At(p, "assign")
  /\ \/ /\ parcels[op[p].parcel] = "new"
        /\ parcels' = [parcels EXCEPT ![op[p].parcel] = "awb"]
     \/ UNCHANGED parcels
  /\ Goto(p, "pickup")
  /\ UNCHANGED <<docVars, shipLock, faults>>

\* assign_awb, once per parcel ("Cannot reassign courier for this shipment"):
\* a code, "still processing" or a lost answer, or an error.
AssignAwb(p) ==
  LET k == op[p].parcel IN
  /\ At(p, "assign")
  /\ \/ /\ parcels[k] = "new"
        /\ parcels' = [parcels EXCEPT ![k] = "awb"]
        /\ \/ op' = [op EXCEPT ![p] = [@ EXCEPT !.code = k, !.at = "saveawb"]]
           \/ Goto(p, "unlock")
     \/ Goto(p, "unlock") /\ UNCHANGED parcels
  /\ UNCHANGED <<docVars, shipLock, faults>>

SaveAwb(p) ==
  /\ At(p, "saveawb")
  /\ awb' = op[p].code /\ shipStatus' = "awb_assigned"
  /\ op' = [op EXCEPT ![p] = [@ EXCEPT !.seen = "awb_assigned",
                                       !.next = "awb_assigned", !.at = "push"]]
  /\ UNCHANGED <<parcel, fulfilment, orderType, recorded, shipLock, parcels,
                 faults>>

\* generate_pickup fails softly, always so for a cancelled parcel.
RequestPickup(p) ==
  /\ At(p, "pickup")
  /\ \/ /\ op[p].seen = "awb_assigned" /\ parcels[op[p].parcel] = "awb"
        /\ Goto(p, "savepickup")
     \/ Goto(p, "shipped")
  /\ UNCHANGED <<docVars, shipLock, parcels, faults>>

SavePickup(p) ==
  /\ At(p, "savepickup")
  /\ shipStatus' = "pickup_scheduled"
  /\ op' = [op EXCEPT ![p] = [@ EXCEPT !.seen = "pickup_scheduled",
                                       !.next = "pickup_scheduled",
                                       !.at = "push"]]
  /\ UNCHANGED <<parcel, awb, fulfilment, orderType, recorded, shipLock,
                 parcels, faults>>

MarkShipped(p) ==
  /\ At(p, "shipped")
  /\ fulfilment' = "shipped"
  /\ Goto(p, "unlock")
  /\ UNCHANGED <<shipStatus, parcel, awb, orderType, recorded, shipLock,
                 parcels, faults>>

\* finally: DEL, whoever holds the lock by now.
Unlock(p) ==
  /\ At(p, "unlock")
  /\ shipLock' = FALSE
  /\ Finish(p)
  /\ UNCHANGED <<docVars, parcels, faults>>

-----------------------------------------------------------------------------
(* cancel_shipment *)

\* A terminal shipment, or none at all, ends the method here.
StartCancel(p) ==
  /\ Free(p) /\ ~Terminal(shipStatus) /\ (awb # 0 \/ parcel # 0)
  /\ op' = [op EXCEPT ![p] =
              [Idle EXCEPT !.kind = "cancel", !.at = "cancel",
                           !.seen = shipStatus,
                           !.parcel = IF awb # 0 THEN awb ELSE parcel]]
  /\ UNCHANGED <<docVars, shipLock, parcels, faults>>

\* The call is accepted, or raises with or without effect.
CancelParcel(p) ==
  /\ At(p, "cancel")
  /\ \/ /\ parcels' = [parcels EXCEPT ![op[p].parcel] = "cancelled"]
        /\ Goto(p, "savecancel") \/ Finish(p)
     \/ UNCHANGED parcels /\ Finish(p)
  /\ UNCHANGED <<docVars, shipLock, faults>>

SaveCancelled(p) ==
  /\ At(p, "savecancel")
  /\ shipStatus' = "cancelled"
  /\ op' = [op EXCEPT ![p] = [@ EXCEPT !.next = "cancelled", !.at = "push"]]
  /\ UNCHANGED <<parcel, awb, fulfilment, orderType, recorded, shipLock,
                 parcels, faults>>

-----------------------------------------------------------------------------
(* handle_webhook and track: _apply_status_update *)

\* _map_status of what the courier said; no status at all keeps the old one.
Mapped(raw, previous) == IF raw = "none" THEN previous ELSE raw

\* Mutant of Applies: no look at the previous status.
AppliesAlways(raw, previous) == raw # "unrecognized"

\* Unrecognized statuses, and news about a terminal shipment, change nothing.
Applies(raw, previous) ==
  /\ raw # "unrecognized"
  /\ Terminal(previous) => Mapped(raw, previous) = previous

\* An update for a parcel Shiprocket has handed to a courier or cancelled, in
\* any order and any number of times; a webhook may name the AWB.
StartUpdate(p, raw, code) ==
  /\ Free(p)
  /\ \E k \in DOMAIN parcels : parcels[k] # "new" /\ code \in {0, k}
  /\ code # 0 => parcels[code] # "new"
  /\ Applies(raw, shipStatus)
  /\ op' = [op EXCEPT ![p] =
              [Idle EXCEPT !.kind = "update", !.at = "savestatus",
                           !.seen = shipStatus, !.type = orderType,
                           !.code = IF awb = 0 THEN code ELSE 0,
                           !.next = Mapped(raw, shipStatus)]]
  /\ UNCHANGED <<docVars, shipLock, parcels, faults>>

\* Mutant of SaveStatus: the history is forgotten.
SaveStatusOnly(p) ==
  /\ At(p, "savestatus")
  /\ shipStatus' = op[p].next
  /\ awb' = IF op[p].code # 0 THEN op[p].code ELSE awb
  /\ Goto(p, "sync")
  /\ UNCHANGED <<parcel, fulfilment, orderType, recorded, shipLock, parcels,
                 faults>>

\* Not filtered on the status that was read.
SaveStatus(p) ==
  /\ At(p, "savestatus")
  /\ shipStatus' = op[p].next
  /\ awb' = IF op[p].code # 0 THEN op[p].code ELSE awb
  /\ IF op[p].next # op[p].seen THEN Goto(p, "push") ELSE Finish(p)
  /\ UNCHANGED <<parcel, fulfilment, orderType, recorded, shipLock, parcels,
                 faults>>

\* _append_status_history, of all three methods.
PushHistory(p) ==
  /\ At(p, "push")
  /\ recorded' = recorded \cup {op[p].next}
  /\ CASE op[p].kind = "ship" /\ op[p].next = "awb_assigned" -> Goto(p, "pickup")
       [] op[p].kind = "ship" /\ op[p].next # "awb_assigned" -> Goto(p, "shipped")
       [] op[p].kind = "update" -> Goto(p, "sync")
       [] op[p].kind = "cancel" -> Finish(p)
  /\ UNCHANGED <<shipStatus, parcel, awb, fulfilment, orderType, shipLock,
                 parcels, faults>>

Rejections == {"rejected", "rejected_by_user"}

\* _sync_order_status_type, decided on the document read at the start.
SyncOrderStatus(p) ==
  /\ At(p, "sync")
  /\ orderType' = IF /\ op[p].next \in {"out_for_delivery", "delivered"}
                     /\ op[p].type \notin {op[p].next} \cup Rejections
                  THEN op[p].next ELSE orderType
  /\ Finish(p)
  /\ UNCHANGED <<shipStatus, parcel, awb, fulfilment, recorded, shipLock,
                 parcels, faults>>

-----------------------------------------------------------------------------
(* The administrators' other writes, failures and time. *)

\* POST /api/admin/orders/{id}/pack
Pack ==
  /\ fulfilment' = "packed"
  /\ UNCHANGED <<shipStatus, parcel, awb, orderType, recorded, shipLock,
                 parcels, op, faults>>

\* OrderService.update_status, here to reject the order or to accept it again.
UpdateStatus ==
  /\ \E t \in {"accepted", "rejected"} : orderType' = t
  /\ UNCHANGED <<shipStatus, parcel, awb, fulfilment, recorded, shipLock,
                 parcels, op, faults>>

\* The process dies, or a command raises and ship_order's finally runs.
Fail(p) ==
  /\ ~Free(p) /\ faults < MaxFaults
  /\ faults' = faults + 1
  /\ Finish(p) \/ (Shipping(p) /\ Goto(p, "unlock"))
  /\ UNCHANGED <<docVars, shipLock, parcels>>

LockExpires ==
  /\ shipLock
  /\ SlowShippers \/ \A p \in Procs : ~Shipping(p)
  /\ shipLock' = FALSE
  /\ UNCHANGED <<docVars, parcels, op, faults>>

-----------------------------------------------------------------------------
ShipInit ==
  /\ shipStatus = "pending" /\ parcel = 0 /\ awb = 0
  /\ fulfilment = "pending" /\ orderType = "accepted" /\ recorded = {}
  /\ shipLock = FALSE /\ parcels = <<>> /\ faults = 0
  /\ op = [p \in Procs |-> Idle]

\* One await of a running method.
ShipStep(p) ==
  \/ ReadToShip(p) \/ CreateParcel(p) \/ SaveParcel(p) \/ AssignAwb(p)
  \/ SaveAwb(p) \/ RequestPickup(p) \/ SavePickup(p) \/ MarkShipped(p)
  \/ Unlock(p) \/ CancelParcel(p) \/ SaveCancelled(p) \/ SaveStatus(p)
  \/ PushHistory(p) \/ SyncOrderStatus(p)

ShipNext ==
  \/ \E p \in Procs :
       \/ ShipStep(p) \/ StartShip(p) \/ StartCancel(p) \/ Fail(p)
       \/ \E raw \in Reported, code \in {0} \cup DOMAIN parcels :
            StartUpdate(p, raw, code)
  \/ Pack \/ UpdateStatus \/ LockExpires

ShipSpec == ShipInit /\ [][ShipNext]_shipVars

-----------------------------------------------------------------------------
(* Properties *)

Labels == {"idle", "read", "create", "saveparcel", "assign", "saveawb",
           "pickup", "savepickup", "shipped", "unlock", "cancel", "savecancel",
           "savestatus", "push", "sync"}
OrderTypes == {"accepted", "out_for_delivery", "delivered"} \cup Rejections
OpType == [kind : {"none", "ship", "cancel", "update"}, at : Labels,
           seen : Statuses, type : OrderTypes, parcel : Nat, code : Nat,
           next : Statuses]

\* Every variable keeps its type, and the document names parcels that exist.
ShipTypeOK ==
  /\ shipStatus \in Statuses
  /\ parcel \in 0 .. Len(parcels) /\ awb \in 0 .. Len(parcels)
  /\ fulfilment \in {"pending", "packed", "shipped"}
  /\ orderType \in OrderTypes /\ recorded \subseteq Statuses
  /\ shipLock \in BOOLEAN
  /\ parcels \in Seq({"new", "awb", "cancelled"})
  /\ op \in [Procs -> OpType]
  /\ \A p \in Procs : op[p].parcel <= Len(parcels) /\ op[p].code <= Len(parcels)
  /\ faults \in 0 .. MaxFaults

\* While no ship_order outlasts its lock, the parcels of an order are one and
\* one more per crash, failing write or lost answer: neither double clicks nor
\* retries after a failed step create another one.
ExtraParcelsAreFaults ==
  ~SlowShippers => Len(parcels) <= 1 + faults

\* An order that says "shipped" has a parcel with a code, of that very parcel
\* while no ship_order outlasts its lock.
ShippedHasParcel ==
  /\ fulfilment = "shipped" => parcel # 0 /\ awb # 0
  /\ ~SlowShippers /\ parcel # 0 /\ awb # 0 => awb = parcel

\* Without faults and with nobody in the middle, the status customers see is in
\* the history, whichever of the three methods wrote it last.
StatusInHistory ==
  faults = 0 /\ (\A p \in Procs : Free(p)) =>
    shipStatus \in recorded \cup {"pending"}

\* Whoever read a terminal shipment leaves the status as it is or writes the one
\* it read again, ship_order included, which does not look; and whoever read a
\* rejected order does not override the rejection.
TerminalReadersObey ==
  [][\A p \in Procs : op'[p] # op[p] =>
       /\ Terminal(op[p].seen) => shipStatus' \in {shipStatus, op[p].seen}
       /\ op[p].type \in Rejections => orderType' = orderType]_shipVars

\* shiprocket_service.py:170-174: "A terminal state (cancelled/delivered/etc)
\* must not be clobbered by a stale, out-of-order courier update arriving after
\* the fact (e.g. a delayed "in transit" webhook landing after an admin
\* cancellation)".
TerminalStays ==
  [][\A p \in Procs :
       op[p].kind = "update" /\ op'[p] # op[p] /\ Terminal(shipStatus)
       => shipStatus' = shipStatus]_shipVars

=============================================================================
