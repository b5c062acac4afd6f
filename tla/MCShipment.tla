----------------------------- MODULE MCShipment -----------------------------
(* What the worker and the administrators do with an order once it exists,  *)
(* in parts that share no state: its parcel, the reconciliation of its      *)
(* payment, the alerts about it, its entries at the desk, and the small     *)
(* records checked before they are written.  A behaviour follows one part,  *)
(* the others stand still.                                                  *)
EXTENDS Shipment, Reconciliation, Alerts, Records, Desk, TLC

CONSTANTS Foci  \* the parts that are followed
VARIABLE focus

(* A shop with SMS can fail to send one, so it does all a shop without does. *)
MCChannels == {{"sms"}, {"sms", "telegram"}}

ParcelInit ==
  /\ focus \in Foci
  /\ ShipInit /\ ReconInit /\ RecordsInit /\ DeskInit
  /\ AlertInit /\ channels \in (IF focus = "alerts" THEN MCChannels ELSE {{}})

ParcelNext ==
  /\ UNCHANGED focus
  /\ \/ /\ focus = "parcel" /\ ShipNext
        /\ UNCHANGED <<reconVars, alertingVars, recordVars, deskVars>>
     \/ /\ focus = "payments" /\ ReconNext
        /\ UNCHANGED <<shipVars, alertingVars, recordVars, deskVars>>
     \/ /\ focus = "alerts" /\ AlertNext
        /\ UNCHANGED <<shipVars, reconVars, recordVars, deskVars>>
     \/ /\ focus = "desk" /\ DeskNext
        /\ UNCHANGED <<shipVars, reconVars, alertingVars, recordVars>>
     \/ /\ \/ focus = "addresses" /\ AddressNext
           \/ focus = "ratings" /\ RatingNext
           \/ focus = "letters" /\ LetterNext
           \/ focus = "coupons" /\ CouponNext
        /\ UNCHANGED <<shipVars, reconVars, alertingVars, deskVars>>

parcelVars == <<focus, shipVars, reconVars, alertingVars, recordVars, deskVars>>
ParcelSpec == ParcelInit /\ [][ParcelNext]_parcelVars

(* Coroutines, requests, workers and administrators are interchangeable.    *)
ParcelSymmetry == Permutations(Procs)
=============================================================================
