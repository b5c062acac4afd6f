------------------------------ MODULE Fulfilment ------------------------------
(* What complete_pending_order promises about an order, whoever calls it    *)
(* and whatever dies on the way: only a captured payment makes an order;    *)
(* its status goes forward; each of its records is tried once and not       *)
(* written again unless its finisher was given up for dead; "done" is last. *)
CONSTANTS Orders,
          Duties   \* the alert and the ledger entries of an order

VARIABLES paid,     \* orders whose payment was captured
          status,   \* post_processing_status
          notes,    \* what became of each record
          settled,  \* orders whose payment attempt is no longer pending
          retaken   \* orders whose claim was taken over

fulfilVars == <<paid, status, notes, settled, retaken>>

FulfilInit ==
  /\ paid = [o \in Orders |-> FALSE]
  /\ status = [o \in Orders |-> "absent"]
  /\ notes = [o \in Orders |-> [d \in Duties |-> "none"]]
  /\ settled = [o \in Orders |-> FALSE]
  /\ retaken = [o \in Orders |-> FALSE]

\* What a step changes of order o.
Becomes(o, p, s, n, t, r) ==
  /\ paid'[o] = p /\ status'[o] = s /\ notes'[o] = n
  /\ settled'[o] = t /\ retaken'[o] = r

Capture(o) == ~paid[o] /\ Becomes(o, TRUE, status[o], notes[o], settled[o], retaken[o])

Settle(o) == Becomes(o, paid[o], status[o], notes[o], TRUE, retaken[o])

Create(o) ==
  /\ paid[o] /\ status[o] = "absent"
  /\ Becomes(o, paid[o], "pending", notes[o], settled[o], retaken[o])

Take(o) ==
  /\ status[o] = "pending"
  /\ Becomes(o, paid[o], "in_progress", notes[o], settled[o], retaken[o])

Retake(o) ==
  /\ status[o] = "in_progress"
  /\ Becomes(o, paid[o], status[o], notes[o], settled[o], TRUE)

\* A first try succeeds or fails; only a second finisher writes again.
Note(o) ==
  \E d \in Duties, n \in {"missed", "written", "again"} :
    /\ \/ status[o] = "in_progress" /\ notes[o][d] = "none" /\ n # "again"
       \/ /\ status[o] \in {"in_progress", "done"} /\ retaken[o]
          /\ <<notes[o][d], n>> \in {<<"missed", "written">>, <<"written", "again">>}
    /\ Becomes(o, paid[o], status[o], [notes[o] EXCEPT ![d] = n], settled[o], retaken[o])

Finish(o) ==
  /\ status[o] = "in_progress" /\ settled[o]
  /\ \A d \in Duties : notes[o][d] # "none"
  /\ Becomes(o, paid[o], "done", notes[o], settled[o], retaken[o])

Rest(o) == Becomes(o, paid[o], status[o], notes[o], settled[o], retaken[o])

OrderMoves(o) ==
  \/ Capture(o) \/ Settle(o) \/ Create(o) \/ Take(o) \/ Retake(o) \/ Note(o)
  \/ Finish(o) \/ Rest(o)

\* The orders go their ways independently.
FulfilNext == \A o \in Orders : OrderMoves(o)

FulfilSpec == FulfilInit /\ [][FulfilNext]_fulfilVars
=============================================================================
