------------------------ MODULE OrderCompletionProofs ------------------------
(***************************************************************************)
(* Proofs about the claim protocol of OrderCompletion, for every set of    *)
(* orders and processes, every bound, and slow claimers as well.           *)
(*                                                                         *)
(* The argument: only a caller whose claim matched is between the claim    *)
(* and "done" of an order (ClaimInv), so everything that hangs on the      *)
(* claim happens once.  No step of the inventory touches the claim.        *)
(*                                                                         *)
(* What the order takes from the inventory is proved last: each flow is    *)
(* tied to the method it runs (TieInv), so every step of the composition   *)
(* is one of the methods, a call of one or a death, and what was proved of *)
(* the methods alone (LifeInv, Counted) holds here, too (Known).  The      *)
(* claim makes a commit the only one of its order, so what it has taken is *)
(* what its place in the method says (SaleInv).                            *)
(***************************************************************************)
EXTENDS OrderCompletion, InventoryProofs

USE DEF takeovers

-----------------------------------------------------------------------------
(* Types of the records the argument needs. *)

FlowsOK ==
  /\ flow \in [Procs -> FlowType]
  /\ \A c \in Procs : flow[c].at # "idle" => flow[c].order \in Orders

RecordsOK ==
  /\ doc \in [Orders -> {"absent", "pending", "in_progress", "done"}]
  /\ claimFresh \in [Orders -> BOOLEAN]
  /\ attempt \in [Orders -> {"none", "pending", "resolved", "abandoned"}]
  /\ event \in [Orders -> {"none", "queued", "lost", "acked"}]
  /\ notes \in [Orders -> [Duties -> {"none", "missed", "written", "again"}]]
  /\ reclaimed \in [Orders -> BOOLEAN]

TypesInv == FlowsOK /\ RecordsOK

\* What a step of the flow of c does to the flows: c goes to one of labels.
FlowMoves(c, labels) ==
  /\ FlowsOK'
  /\ flow'[c].at \in labels
  /\ flow'[c].at # "idle" => flow'[c].order = flow[c].order
  /\ \A d \in Procs \ {c} : flow'[d] = flow[d]

\* ... and to the webhook entries: only that of its own order moves.
EventMoves(c) ==
  /\ event' \in [Orders -> {"none", "queued", "lost", "acked"}]
  /\ \A o \in Orders : event'[o] # event[o] => o = flow[c].order

LEMMA UpdateOK ==
  ASSUME FlowsOK, NEW c \in Procs, NEW f \in FlowType,
         f.at # "idle" => f.order \in Orders /\ f.order = flow[c].order,
         flow' = [flow EXCEPT ![c] = f]
  PROVE  FlowMoves(c, {f.at})
BY DEF FlowsOK, FlowMoves

LEMMA EnterOK ==
  ASSUME FlowsOK, NEW c \in Procs, flow[c].at # "idle",
         NEW label \in FlowLabels, Enter(c, label)
  PROVE  FlowMoves(c, {label})
<1> DEFINE f == [flow[c] EXCEPT !.at = label]
<1>1. flow[c] \in FlowType /\ flow[c].order \in Orders
  BY DEF FlowsOK
<1>2. f \in FlowType /\ f.at = label /\ f.order = flow[c].order
  BY <1>1 DEF FlowType
<1>3. flow' = [flow EXCEPT ![c] = f]
  BY DEF Enter
<1> HIDE DEF f
<1>4. FlowMoves(c, {f.at})
  BY <1>1, <1>2, <1>3, UpdateOK
<1>5. QED
  BY <1>2, <1>4

LEMMA EndFlowOK ==
  ASSUME FlowsOK, NEW c \in Procs, EndFlow(c)
  PROVE  FlowMoves(c, {"idle"})
<1>1. NoFlow \in FlowType /\ NoFlow.at = "idle"
  BY DEF NoFlow, FlowType, FlowLabels
<1>2. FlowMoves(c, {NoFlow.at})
  BY <1>1, UpdateOK DEF EndFlow
<1>3. QED
  BY <1>1, <1>2

\* A new flow, of some order.
LEMMA StartFlowOK ==
  ASSUME FlowsOK, NEW c \in Procs, NEW f \in FlowType, f.order \in Orders,
         flow' = [flow EXCEPT ![c] = f]
  PROVE  /\ FlowsOK' /\ flow'[c] = f
         /\ \A d \in Procs \ {c} : flow'[d] = flow[d]
BY DEF FlowsOK

-----------------------------------------------------------------------------
(* What the ends of the methods do to flow and event. *)

LEMMA ReturnStatusOK ==
  ASSUME TypesInv, NEW c \in Procs, flow[c].at # "idle", ReturnStatus(c)
  PROVE  FlowMoves(c, {"idle", "already"}) /\ EventMoves(c)
<1>1. EventMoves(c)
  BY DEF ReturnStatus, FlowOrder, TypesInv, RecordsOK, EventMoves
<1>2. CASE Enter(c, "already")
  BY <1>1, <1>2, EnterOK DEF TypesInv, FlowLabels, FlowMoves
<1>3. CASE EndFlow(c)
  BY <1>1, <1>3, EndFlowOK DEF TypesInv, FlowMoves
<1>4. QED
  BY <1>2, <1>3 DEF ReturnStatus

LEMMA RaiseOK ==
  ASSUME TypesInv, NEW c \in Procs, Raise(c)
  PROVE  FlowMoves(c, {"idle"}) /\ EventMoves(c)
<1>1. EventMoves(c)
  BY DEF Raise, FlowOrder, TypesInv, RecordsOK, EventMoves
<1>2. QED
  BY <1>1, EndFlowOK DEF Raise, TypesInv

LEMMA ProceedOK ==
  ASSUME TypesInv, NEW c \in Procs, flow[c].at # "idle", Proceed(c)
  PROVE  FlowMoves(c, {"idle", "already", "clearing"}) /\ EventMoves(c)
<1>1. CASE flow[c].late
  BY <1>1, ReturnStatusOK DEF Proceed, FlowMoves
<1>2. CASE ~flow[c].late
  <2>1. Enter(c, "clearing") /\ event' = event
    BY <1>2 DEF Proceed
  <2>2. FlowMoves(c, {"clearing"})
    BY <2>1, EnterOK DEF TypesInv, FlowLabels
  <2>3. EventMoves(c)
    BY <2>1 DEF TypesInv, RecordsOK, EventMoves
  <2>4. QED
    BY <2>2, <2>3 DEF FlowMoves
<1>3. QED
  BY <1>1, <1>2

-----------------------------------------------------------------------------
(* One step of a flow.                                                      *)

\* The labels of complete_pending_order.
Completing == {"find", "getkey", "refind", "snapshot", "verify", "upsert",
               "claim", "committing", "alert", "created", "captured",
               "resolve", "done", "clearing"}

AttemptForward ==
  \A o \in Orders :
    attempt'[o] # attempt[o] =>
      \/ attempt[o] = "none" /\ attempt'[o] = "pending"
      \/ attempt'[o] \in {"resolved", "abandoned"}

\* What is common to the steps of flow c: it stays with its order, inside or
\* outside complete_pending_order, and the attempt moves forward.
StepOf(c) ==
  /\ TypesInv'
  /\ \A d \in Procs \ {c} : flow'[d] = flow[d]
  /\ flow'[c].at # "idle" => flow'[c].order = flow[c].order
  /\ flow'[c].at \in Completing => flow[c].at \in Completing
  /\ \A o \in Orders :
       event'[o] # event[o] => o = flow[c].order /\ flow[c].at \in Completing
  /\ AttemptForward

\* A step that leaves the claim alone: it enters no label of Finishing.
QuietStep(c) ==
  /\ StepOf(c)
  /\ flow'[c].at \notin Finishing
  /\ UNCHANGED <<doc, claimFresh, notes, reclaimed>>

\* A step of the reservation methods' callers: FlowMoves with event unchanged.
LEMMA PlainStepOK ==
  ASSUME TypesInv, NEW c \in Procs, flow[c].at # "idle",
         NEW labels, FlowMoves(c, labels),
         labels \cap Completing # {} => flow[c].at \in Completing,
         labels \cap Finishing = {},
         UNCHANGED <<doc, claimFresh, notes, reclaimed, attempt>>,
         EventMoves(c), UNCHANGED event \/ flow[c].at \in Completing
  PROVE  QuietStep(c)
<1>1. TypesInv'
  BY DEF TypesInv, FlowMoves, RecordsOK, EventMoves
<1>2. AttemptForward
  BY DEF AttemptForward
<1>3. flow'[c].at \in Completing => flow[c].at \in Completing
  BY DEF FlowMoves
<1>4. QED
  BY <1>1, <1>2, <1>3 DEF FlowMoves, EventMoves, QuietStep, StepOf

LEMMA InitiateStepsOK ==
  ASSUME TypesInv, NEW c \in Procs,
         WritePendingOrder(c) \/ CreateRazorpayOrder(c)
  PROVE  QuietStep(c)
<1>1. /\ flow[c].at \in {"reserving", "razorpay", "keepttl"}
      /\ Enter(c, "razorpay") \/ EndFlow(c) \/ Enter(c, "attempt")
           \/ Enter(c, "keepttl")
      /\ UNCHANGED <<doc, claimFresh, notes, reclaimed, attempt, event>>
  BY DEF WritePendingOrder, CreateRazorpayOrder, In
<1>2. FlowMoves(c, {"razorpay", "idle", "attempt", "keepttl"})
  <2>1. FlowsOK
    BY DEF TypesInv
  <2>2. \A l \in {"razorpay", "attempt", "keepttl"} :
          Enter(c, l) => FlowMoves(c, {l})
    BY <1>1, <2>1, EnterOK DEF FlowLabels
  <2>3. EndFlow(c) => FlowMoves(c, {"idle"})
    BY <2>1, EndFlowOK
  <2>4. QED
    BY <1>1, <2>2, <2>3 DEF FlowMoves
<1>3. EventMoves(c)
  BY <1>1 DEF EventMoves, TypesInv, RecordsOK
<1>4. QED
  BY <1>1, <1>2, <1>3, PlainStepOK DEF Completing, Finishing

LEMMA AttemptStepsOK ==
  ASSUME TypesInv, NEW c \in Procs,
         RecordAttempt(c) \/ AlreadyProcessed(c) \/ AbandonAttempt(c)
  PROVE  QuietStep(c)
<1>1. /\ flow[c].at \in {"attempt", "already", "abandon"}
      /\ EndFlow(c)
      /\ UNCHANGED <<doc, claimFresh, notes, reclaimed, event>>
  BY DEF RecordAttempt, AlreadyProcessed, AbandonAttempt, In
<1>2. FlowMoves(c, {"idle"})
  BY <1>1, EndFlowOK DEF TypesInv
<1>3. /\ AttemptForward
      /\ attempt' \in [Orders -> {"none", "pending", "resolved", "abandoned"}]
  BY DEF RecordAttempt, AlreadyProcessed, AbandonAttempt, Resolved,
         AttemptForward, TypesInv, RecordsOK
<1>4. QED
  BY <1>1, <1>2, <1>3
  DEF QuietStep, StepOf, TypesInv, FlowMoves, RecordsOK, FlowsOK, Completing,
      Finishing

LEMMA PostProcessOK ==
  ASSUME TypesInv, NEW c \in Procs, flow[c].at # "idle", PostProcess(c)
  PROVE  /\ FlowMoves(c, {"claim", "idle", "already", "clearing"})
         /\ EventMoves(c)
<1>1. CASE Enter(c, "claim") /\ event' = event
  <2>1. FlowMoves(c, {"claim"})
    BY <1>1, EnterOK DEF TypesInv, FlowLabels
  <2>2. QED
    BY <1>1, <2>1 DEF FlowMoves, EventMoves, TypesInv, RecordsOK
<1>2. CASE Proceed(c)
  BY <1>2, ProceedOK DEF FlowMoves
<1>3. QED
  BY <1>1, <1>2 DEF PostProcess

LEMMA LookStepsOK ==
  ASSUME TypesInv, NEW c \in Procs,
         \/ FindOrder(c) \/ GetPendingOrder(c) \/ LoadSnapshot(c)
         \/ AmountMatches(c) \/ LookupRaises(c) \/ DeletePendingOrder(c)
  PROVE  QuietStep(c)
<1> DEFINE labels == {"getkey", "verify", "refind", "upsert", "claim", "idle",
                      "already", "clearing", "snapshot"}
<1>1. /\ flow[c].at \in {"find", "getkey", "snapshot", "verify", "clearing"}
      /\ UNCHANGED <<doc, claimFresh, notes, reclaimed, attempt>>
  BY DEF FindOrder, GetPendingOrder, LoadSnapshot, AmountMatches, LookupRaises,
         DeletePendingOrder, In
<1>2. \/ PostProcess(c) \/ ReturnStatus(c) \/ Raise(c)
      \/ /\ Enter(c, "getkey") \/ Enter(c, "verify") \/ Enter(c, "refind")
              \/ Enter(c, "upsert")
         /\ UNCHANGED event
  BY DEF FindOrder, GetPendingOrder, LoadSnapshot, AmountMatches, LookupRaises,
         DeletePendingOrder
<1>3. FlowMoves(c, labels) /\ EventMoves(c)
  <2>1. CASE PostProcess(c)
    BY <1>1, <2>1, PostProcessOK DEF FlowMoves
  <2>2. CASE ReturnStatus(c)
    BY <1>1, <2>2, ReturnStatusOK DEF FlowMoves
  <2>3. CASE Raise(c)
    BY <2>3, RaiseOK DEF FlowMoves
  <2>4. CASE /\ Enter(c, "getkey") \/ Enter(c, "verify") \/ Enter(c, "refind")
                  \/ Enter(c, "upsert")
             /\ UNCHANGED event
    <3>1. \A l \in {"getkey", "verify", "refind", "upsert"} :
            Enter(c, l) => FlowMoves(c, {l})
      BY <1>1, EnterOK DEF FlowLabels, TypesInv
    <3>2. EventMoves(c)
      BY <2>4 DEF EventMoves, TypesInv, RecordsOK
    <3>3. QED
      BY <2>4, <3>1, <3>2 DEF FlowMoves
  <2>5. QED
    BY <1>2, <2>1, <2>2, <2>3, <2>4
<1>4. labels \cap Finishing = {} /\ flow[c].at \in Completing
  BY <1>1 DEF Finishing, Completing
<1> HIDE DEF labels
<1>5. QED
  BY <1>1, <1>3, <1>4, PlainStepOK DEF Completing

LEMMA FindAgainOK ==
  ASSUME TypesInv, NEW c \in Procs, FindOrderAgain(c)
  PROVE  QuietStep(c)
<1>1. /\ flow[c].at = "refind"
      /\ UNCHANGED <<doc, claimFresh, notes, reclaimed, attempt>>
  BY DEF FindOrderAgain, In
<1>2. FlowMoves(c, {"snapshot", "idle", "already", "claim"}) /\ EventMoves(c)
  <2>1. CASE Enter(c, "snapshot") /\ UNCHANGED event
    <3>1. FlowMoves(c, {"snapshot"})
      BY <1>1, <2>1, EnterOK DEF FlowLabels, TypesInv
    <3>2. QED
      BY <2>1, <3>1 DEF FlowMoves, EventMoves, TypesInv, RecordsOK
  <2>2. CASE ReturnStatus(c)
    BY <1>1, <2>2, ReturnStatusOK DEF FlowMoves
  <2>3. CASE /\ flow' = [flow EXCEPT ![c].late = TRUE, ![c].at = "claim"]
             /\ UNCHANGED event
    <3> DEFINE f == [flow[c] EXCEPT !.late = TRUE, !.at = "claim"]
    <3>1. flow[c] \in FlowType /\ flow[c].order \in Orders
      BY <1>1 DEF TypesInv, FlowsOK
    <3>2. f \in FlowType /\ f.at = "claim" /\ f.order = flow[c].order
      BY <3>1 DEF FlowType, FlowLabels
    <3>3. flow' = [flow EXCEPT ![c] = f]
      BY <2>3, <3>1 DEF TypesInv, FlowsOK, FlowType
    <3> HIDE DEF f
    <3>4. FlowMoves(c, {f.at})
      BY <3>1, <3>2, <3>3, UpdateOK DEF TypesInv
    <3>5. QED
      BY <2>3, <3>2, <3>4 DEF FlowMoves, EventMoves, TypesInv, RecordsOK
  <2>4. QED
    BY <2>1, <2>2, <2>3 DEF FindOrderAgain
<1>3. QED
  BY <1>1, <1>2, PlainStepOK DEF Completing, Finishing

-----------------------------------------------------------------------------
(* The steps that do touch the claim, each with what it does to the records *)
(* of its order.                                                            *)

LEMMA UpsertOK ==
  ASSUME TypesInv, NEW c \in Procs, UpsertOrder(c)
  PROVE  /\ StepOf(c) /\ flow[c].at = "upsert" /\ flow'[c].at = "claim"
         /\ doc' = [doc EXCEPT ![flow[c].order] =
                      IF @ = "absent" THEN "pending" ELSE @]
         /\ UNCHANGED <<claimFresh, notes, reclaimed, attempt, event>>
<1> DEFINE made == doc[flow[c].order] = "absent" /\ flow[c].source = "reconcile"
           f == [flow[c] EXCEPT !.at = "claim", !.created = made]
<1>1. /\ flow[c].at = "upsert"
      /\ doc' = [doc EXCEPT ![flow[c].order] =
                   IF @ = "absent" THEN "pending" ELSE @]
      /\ flow' = [flow EXCEPT ![c].at = "claim", ![c].created = made]
      /\ UNCHANGED <<claimFresh, notes, reclaimed, attempt, event>>
  BY DEF UpsertOrder, In, FlowOrder
<1>2. flow[c] \in FlowType /\ flow[c].order \in Orders
  BY <1>1 DEF TypesInv, FlowsOK
<1>3. made \in BOOLEAN
  OBVIOUS
<1> HIDE DEF made
<1>4. f \in FlowType /\ f.at = "claim" /\ f.order = flow[c].order
  BY <1>2, <1>3 DEF FlowType, FlowLabels
<1>5. flow' = [flow EXCEPT ![c] = f]
  BY <1>1, <1>2 DEF TypesInv, FlowsOK, FlowType
<1> HIDE DEF f
<1>6. FlowMoves(c, {f.at})
  BY <1>2, <1>4, <1>5, UpdateOK DEF TypesInv
<1>7. RecordsOK'
  BY <1>1 DEF TypesInv, RecordsOK
<1>8. StepOf(c)
  BY <1>1, <1>4, <1>6, <1>7
  DEF StepOf, TypesInv, FlowMoves, AttemptForward, Completing
<1>9. QED
  BY <1>1, <1>4, <1>6, <1>8 DEF FlowMoves

LEMMA ClaimOK ==
  ASSUME TypesInv, NEW c \in Procs, Claim(c)
  PROVE  \/ QuietStep(c)
         \/ /\ StepOf(c) /\ flow[c].at = "claim" /\ flow'[c].at = "committing"
            /\ Claimable(flow[c].order)
            /\ doc' = [doc EXCEPT ![flow[c].order] = "in_progress"]
            /\ claimFresh' = [claimFresh EXCEPT ![flow[c].order] = TRUE]
            /\ reclaimed' = [reclaimed EXCEPT ![flow[c].order] =
                               @ \/ doc[flow[c].order] = "in_progress"]
            /\ UNCHANGED <<notes, attempt, event>>
<1>1. flow[c].at = "claim" /\ UNCHANGED <<attempt, notes>>
  BY DEF Claim, In
<1>2. CASE Claimable(flow[c].order)
  <2>1. /\ doc' = [doc EXCEPT ![flow[c].order] = "in_progress"]
        /\ claimFresh' = [claimFresh EXCEPT ![flow[c].order] = TRUE]
        /\ reclaimed' = [reclaimed EXCEPT ![flow[c].order] =
                           @ \/ doc[flow[c].order] = "in_progress"]
        /\ Enter(c, "committing") /\ UNCHANGED event
    BY <1>2 DEF Claim, FlowOrder
  <2>2. FlowMoves(c, {"committing"})
    BY <1>1, <2>1, EnterOK DEF TypesInv, FlowLabels
  <2>3. RecordsOK'
    BY <1>1, <2>1 DEF TypesInv, RecordsOK
  <2>4. StepOf(c)
    BY <1>1, <2>1, <2>2, <2>3
    DEF StepOf, TypesInv, FlowMoves, AttemptForward, Completing
  <2>5. QED
    BY <1>1, <1>2, <2>1, <2>2, <2>4 DEF FlowMoves
<1>3. CASE ~Claimable(flow[c].order)
  <2>1. Proceed(c) /\ UNCHANGED <<doc, claimFresh, reclaimed>>
    BY <1>3 DEF Claim, FlowOrder
  <2>2. /\ FlowMoves(c, {"idle", "already", "clearing"})
        /\ EventMoves(c)
    BY <1>1, <2>1, ProceedOK
  <2>3. QED
    BY <1>1, <2>1, <2>2, PlainStepOK DEF Completing, Finishing
<1>4. QED
  BY <1>2, <1>3

LEMMA CommitReturnedOK ==
  ASSUME TypesInv, NEW c \in Procs, CommitReturned(c)
  PROVE  \/ QuietStep(c)
         \/ /\ StepOf(c)
            /\ flow[c].at = "committing" /\ flow'[c].at = "alert"
            /\ UNCHANGED <<doc, claimFresh, notes, reclaimed, attempt, event>>
<1>1. /\ flow[c].at = "committing"
      /\ UNCHANGED <<doc, claimFresh, notes, reclaimed, attempt>>
  BY DEF CommitReturned, In
<1>2. CASE Enter(c, "alert") /\ UNCHANGED event
  <2>1. FlowMoves(c, {"alert"})
    BY <1>1, <1>2, EnterOK DEF TypesInv, FlowLabels
  <2>2. StepOf(c)
    BY <1>1, <1>2, <2>1
    DEF StepOf, TypesInv, FlowMoves, AttemptForward, Completing, RecordsOK
  <2>3. QED
    BY <1>1, <1>2, <2>1, <2>2 DEF FlowMoves
<1>3. CASE Raise(c)
  BY <1>1, <1>3, RaiseOK, PlainStepOK DEF Completing, Finishing
<1>4. QED
  BY <1>2, <1>3 DEF CommitReturned

\* What the write of record d of order o may leave: n, and the rest as it was.
Noted(o, d, n) ==
  /\ notes' = [notes EXCEPT ![o][d] = n]
  /\ \/ notes[o][d] = "none" /\ n \in {"missed", "written"}
     \/ notes[o][d] = "missed" /\ n \in {"missed", "written"}
     \/ notes[o][d] \in {"written", "again"} /\ n \in {notes[o][d], "again"}

LEMMA NotedTypes ==
  ASSUME TypesInv, NEW o \in Orders, NEW d \in Duties, NEW n, Noted(o, d, n)
  PROVE  /\ n \in {"missed", "written", "again"}
         /\ notes' \in [Orders -> [Duties -> {"none", "missed", "written", "again"}]]
         /\ notes' = [notes EXCEPT ![o] = [notes[o] EXCEPT ![d] = n]]
<1>1. notes \in [Orders -> [Duties -> {"none", "missed", "written", "again"}]]
  BY DEF TypesInv, RecordsOK
<1>2. n \in {"missed", "written", "again"}
  BY <1>1 DEF Noted
<1>3. notes' = [notes EXCEPT ![o] = [notes[o] EXCEPT ![d] = n]]
  BY <1>1 DEF Noted
<1>4. QED
  BY <1>1, <1>2, <1>3

LEMMA NotedKeeps ==
  ASSUME TypesInv, NEW o \in Orders, NEW d \in Duties, NEW n, Noted(o, d, n)
  PROVE  /\ notes'[o][d] = n /\ n # "none"
         /\ \A e \in Duties \ {d} : notes'[o][e] = notes[o][e]
         /\ \A p \in Orders \ {o} : notes'[p] = notes[p]
<1>1. notes \in [Orders -> [Duties -> {"none", "missed", "written", "again"}]]
  BY DEF TypesInv, RecordsOK
<1>2. /\ n \in {"missed", "written", "again"}
      /\ notes' = [notes EXCEPT ![o] = [notes[o] EXCEPT ![d] = n]]
  BY NotedTypes
<1>3. QED
  BY <1>1, <1>2

LEMMA AnnounceOK ==
  ASSUME TypesInv, NEW c \in Procs, Announce(c)
  PROVE  /\ StepOf(c) /\ flow[c].order \in Orders
         /\ flow[c].at \in {"alert", "created", "captured"}
         /\ flow'[c].at \in {"created", "captured", "resolve"}
         /\ \E d \in Duties, n \in {"missed", "written", "again"} :
              /\ flow[c].at = d /\ flow'[c].at = NextDuty(d)
              /\ Noted(flow[c].order, d, n)
         /\ UNCHANGED <<doc, claimFresh, reclaimed, attempt, event>>
<1> DEFINE o == flow[c].order
<1>1. /\ flow[c].at \in Duties
      /\ UNCHANGED <<doc, claimFresh, reclaimed, attempt, event>>
  BY DEF Announce, In, takeovers
<1>2. o \in Orders
  BY <1>1 DEF TypesInv, FlowsOK, Duties
<1>3. PICK d \in Duties, n \in {"missed", "written", "again"} :
        flow[c].at = d /\ Enter(c, NextDuty(d)) /\ Noted(o, d, n)
  <2>1. PICK d \in Duties :
          /\ flow[c].at = d /\ Enter(c, NextDuty(d))
          /\ \/ notes' = [notes EXCEPT ![o][d] =
                           IF @ \in {"none", "missed"} THEN "written" ELSE "again"]
             \/ notes' = [notes EXCEPT ![o][d] = IF @ = "none" THEN "missed" ELSE @]
    BY DEF Announce, In, FlowOrder
  <2>2. notes[o] \in [Duties -> {"none", "missed", "written", "again"}]
    BY <1>2 DEF TypesInv, RecordsOK
  <2>3. notes[o][d] \in {"none", "missed", "written", "again"}
    BY <2>2
  <2>4. CASE notes' = [notes EXCEPT ![o][d] =
                         IF @ \in {"none", "missed"} THEN "written" ELSE "again"]
    <3>1. PICK n : n = IF notes[o][d] \in {"none", "missed"} THEN "written" ELSE "again"
      OBVIOUS
    <3>2. Noted(o, d, n)
      BY <2>3, <2>4, <3>1 DEF Noted
    <3>3. QED
      BY <2>1, <3>1, <3>2
  <2>5. CASE notes' = [notes EXCEPT ![o][d] = IF @ = "none" THEN "missed" ELSE @]
    <3>1. PICK n : n = IF notes[o][d] = "none" THEN "missed" ELSE notes[o][d]
      OBVIOUS
    <3>2. Noted(o, d, n) /\ n \in {"missed", "written", "again"}
      BY <2>3, <2>5, <3>1 DEF Noted
    <3>3. QED
      BY <2>1, <3>2
  <2>6. QED
    BY <2>1, <2>4, <2>5
<1>4. NextDuty(d) \in {"created", "captured", "resolve"}
  BY DEF NextDuty, Duties
<1>5. FlowMoves(c, {NextDuty(d)})
  BY <1>1, <1>3, <1>4, EnterOK DEF TypesInv, FlowLabels, Duties
<1>6. RecordsOK'
  BY <1>1, <1>2, <1>3, NotedTypes DEF TypesInv, RecordsOK
<1>7. StepOf(c)
  BY <1>1, <1>4, <1>5, <1>6
  DEF StepOf, TypesInv, FlowMoves, AttemptForward, Completing, Duties
<1>8. flow'[c].at = NextDuty(d)
  BY <1>5 DEF FlowMoves
<1>9. QED
  BY <1>1, <1>2, <1>3, <1>4, <1>7, <1>8 DEF Duties

LEMMA MarkResolvedOK ==
  ASSUME TypesInv, NEW c \in Procs, MarkResolved(c)
  PROVE  /\ StepOf(c) /\ flow[c].at = "resolve" /\ flow'[c].at = "done"
         /\ attempt' = Resolved(attempt, flow[c].order)
         /\ UNCHANGED <<doc, claimFresh, notes, reclaimed, event>>
<1>1. /\ flow[c].at = "resolve" /\ Enter(c, "done")
      /\ attempt' = Resolved(attempt, flow[c].order)
      /\ UNCHANGED <<doc, claimFresh, notes, reclaimed, event>>
  BY DEF MarkResolved, In, FlowOrder
<1>2. FlowMoves(c, {"done"})
  BY <1>1, EnterOK DEF TypesInv, FlowLabels
<1>3. RecordsOK' /\ AttemptForward
  BY <1>1 DEF TypesInv, RecordsOK, Resolved, AttemptForward
<1>4. QED
  BY <1>1, <1>2, <1>3 DEF StepOf, TypesInv, FlowMoves, Completing

LEMMA MarkDoneOK ==
  ASSUME TypesInv, NEW c \in Procs, MarkDone(c)
  PROVE  /\ StepOf(c) /\ flow[c].at = "done" /\ flow'[c].at \notin Finishing
         /\ doc' = [doc EXCEPT ![flow[c].order] = "done"]
         /\ UNCHANGED <<claimFresh, notes, reclaimed, attempt>>
<1>1. /\ flow[c].at = "done" /\ Proceed(c)
      /\ doc' = [doc EXCEPT ![flow[c].order] = "done"]
      /\ UNCHANGED <<claimFresh, notes, reclaimed, attempt>>
  BY DEF MarkDone, In, FlowOrder
<1>2. FlowMoves(c, {"idle", "already", "clearing"}) /\ EventMoves(c)
  BY <1>1, ProceedOK
<1>3. RecordsOK'
  BY <1>1, <1>2 DEF TypesInv, RecordsOK, EventMoves
<1>4. StepOf(c)
  BY <1>1, <1>2, <1>3
  DEF StepOf, TypesInv, FlowMoves, EventMoves, AttemptForward, Completing
<1>5. QED
  BY <1>1, <1>2, <1>4 DEF FlowMoves, Finishing

-----------------------------------------------------------------------------
(* The steps that are not a step of a flow. *)

LEMMA CrashOK ==
  ASSUME TypesInv, NEW c \in Procs, FlowCrash(c)
  PROVE  QuietStep(c)
<1>1. /\ EndFlow(c)
      /\ UNCHANGED <<doc, claimFresh, notes, reclaimed, attempt, event>>
  BY DEF FlowCrash
<1>2. FlowMoves(c, {"idle"})
  BY <1>1, EndFlowOK DEF TypesInv
<1>3. QED
  BY <1>1, <1>2
  DEF QuietStep, StepOf, TypesInv, RecordsOK, FlowMoves, AttemptForward,
      Finishing, Completing

\* A flow starts outside the claimed section, complete_pending_order only for
\* a payment that was captured.
StartOf(c) ==
  /\ TypesInv'
  /\ \A d \in Procs \ {c} : flow'[d] = flow[d]
  /\ flow'[c].at \notin Finishing
  /\ flow'[c].at \in Completing => Paid(flow'[c].order)
  /\ flow'[c].order \in Orders
  /\ UNCHANGED <<doc, claimFresh, notes, reclaimed, attempt, event>>

LEMMA StartOK ==
  ASSUME TypesInv, NEW c \in Procs, NEW o \in Orders, NEW source \in Sources,
         \/ StartInitiate(c, o) \/ LookUpPayment(c, o)
         \/ StartComplete(c, o, source)
  PROVE  StartOf(c)
<1>1. CASE StartInitiate(c, o)
  <2> DEFINE f == [NoFlow EXCEPT !.order = o, !.at = "reserving"]
  <2>1. /\ flow' = [flow EXCEPT ![c] = f]
        /\ UNCHANGED <<doc, claimFresh, notes, reclaimed, attempt, event>>
    BY <1>1 DEF StartInitiate
  <2>2. f \in FlowType /\ f.order = o /\ f.at = "reserving"
    BY DEF NoFlow, FlowType, FlowLabels
  <2> HIDE DEF f
  <2>3. QED
    BY <2>1, <2>2, StartFlowOK
    DEF StartOf, TypesInv, RecordsOK, Finishing, Completing
<1>2. CASE LookUpPayment(c, o)
  <2> DEFINE f == [NoFlow EXCEPT !.order = o, !.at = "abandon"]
  <2>1. /\ flow' = [flow EXCEPT ![c] = f]
        /\ UNCHANGED <<doc, claimFresh, notes, reclaimed, attempt, event>>
    BY <1>2 DEF LookUpPayment
  <2>2. f \in FlowType /\ f.order = o /\ f.at = "abandon"
    BY DEF NoFlow, FlowType, FlowLabels
  <2> HIDE DEF f
  <2>3. QED
    BY <2>1, <2>2, StartFlowOK
    DEF StartOf, TypesInv, RecordsOK, Finishing, Completing
<1>3. CASE StartComplete(c, o, source)
  <2> DEFINE s == IF source = "scan" THEN "client_verify" ELSE source
             f == [NoFlow EXCEPT !.order = o, !.at = "find", !.source = s]
  <2>1. /\ Paid(o) /\ flow' = [flow EXCEPT ![c] = f]
        /\ UNCHANGED <<doc, claimFresh, notes, reclaimed, attempt, event>>
    BY <1>3 DEF StartComplete
  <2>2. s \in Sources
    BY DEF Sources
  <2> HIDE DEF s
  <2>3. f \in FlowType /\ f.order = o /\ f.at = "find"
    BY <2>2 DEF NoFlow, FlowType, FlowLabels
  <2> HIDE DEF f
  <2>4. QED
    BY <2>1, <2>3, StartFlowOK DEF StartOf, TypesInv, RecordsOK, Finishing
<1>4. QED
  BY <1>1, <1>2, <1>3

LEMMA PayOK ==
  ASSUME TypesInv, NEW o \in Orders, Pay(o)
  PROVE  /\ TypesInv' /\ attempt[o] # "none"
         /\ \A p \in Orders : p # o => event'[p] = event[p]
         /\ UNCHANGED <<doc, claimFresh, notes, reclaimed, attempt, flow>>
BY DEF Pay, TypesInv, RecordsOK, FlowsOK

LEMMA StaleOK ==
  ASSUME TypesInv, NEW o \in Orders, ClaimGoesStale(o)
  PROVE  /\ TypesInv'
         /\ \/ SlowClaimers
            \/ \A c \in Procs : ~(flow[c].order = o /\ flow[c].at \in Finishing)
         /\ \A p \in Orders : p # o => claimFresh'[p] = claimFresh[p]
         /\ UNCHANGED <<doc, notes, reclaimed, attempt, event, flow>>
BY DEF ClaimGoesStale, TypesInv, RecordsOK, FlowsOK, FlowOrder

\* Everything else stutters for this argument.
ClaimVars == <<doc, claimFresh, attempt, event, flow, notes, reclaimed>>

\* A way to say what OrderNext is to this argument: every step is one of these.
LEMMA StepCases ==
  ASSUME TypesInv, [OrderNext]_allVars
  PROVE  \/ \E c \in Procs :
              \/ QuietStep(c) \/ StartOf(c)
              \/ UpsertOrder(c) \/ Claim(c) \/ CommitReturned(c)
              \/ Announce(c) \/ MarkResolved(c) \/ MarkDone(c)
         \/ \E o \in Orders : Pay(o) \/ ClaimGoesStale(o)
         \/ UNCHANGED ClaimVars
<1>1. CASE UNCHANGED allVars
  BY <1>1 DEF allVars, orderVars, ClaimVars
<1>2. ASSUME NEW c \in Procs, FlowStep(c)
      PROVE  \/ QuietStep(c)
             \/ UpsertOrder(c) \/ Claim(c) \/ CommitReturned(c)
             \/ Announce(c) \/ MarkResolved(c) \/ MarkDone(c)
  BY <1>2, InitiateStepsOK, AttemptStepsOK, LookStepsOK, FindAgainOK
  DEF FlowStep
<1>3. ASSUME NEW p \in Procs, InventoryStep(p)
      PROVE  UNCHANGED ClaimVars
  BY <1>3 DEF InventoryStep, orderVars, ClaimVars
<1>4. ASSUME NEW p \in Procs, NEW o \in Orders, SweepStep(p, o) \/ CodStep(p, o)
      PROVE  UNCHANGED ClaimVars
  BY <1>4 DEF SweepStep, CodStep, orderVars, ClaimVars
<1>5. ASSUME NEW o \in Orders, TimeStep(o) \/ ExpirePendingOrder(o)
      PROVE  UNCHANGED ClaimVars
  BY <1>5 DEF TimeStep, ExpirePendingOrder, orderVars, ClaimVars
<1>6. ASSUME NEW r \in Rows, LockStep(r)
      PROVE  UNCHANGED ClaimVars
  BY <1>6 DEF LockStep, orderVars, ClaimVars
<1>7. ASSUME NEW p \in Procs, NEW o \in Orders,
             StartInitiate(p, o) \/ LookUpPayment(p, o)
      PROVE  StartOf(p)
  BY <1>7, StartOK DEF Sources
<1>8. ASSUME NEW p \in Procs, NEW o \in Orders, NEW source \in Sources,
             StartComplete(p, o, source)
      PROVE  StartOf(p)
  BY <1>8, StartOK
<1>9. QED
  BY <1>1, <1>2, <1>3, <1>4, <1>5, <1>6, <1>7, <1>8, CrashOK DEF OrderNext

LEMMA FlowStepOf ==
  ASSUME TypesInv, NEW c \in Procs, FlowStep(c)
  PROVE  StepOf(c)
BY InitiateStepsOK, AttemptStepsOK, LookStepsOK, FindAgainOK, UpsertOK,
   ClaimOK, CommitReturnedOK, AnnounceOK, MarkResolvedOK, MarkDoneOK
DEF FlowStep, QuietStep

LEMMA ClaimVarsKeepTypes ==
  ASSUME TypesInv, UNCHANGED ClaimVars
  PROVE  TypesInv'
BY DEF ClaimVars, TypesInv, FlowsOK, RecordsOK

LEMMA TypesStep ==
  ASSUME TypesInv, [OrderNext]_allVars
  PROVE  TypesInv'
BY StepCases, UpsertOK, ClaimOK, CommitReturnedOK, AnnounceOK, MarkResolvedOK,
   MarkDoneOK, PayOK, StaleOK, ClaimVarsKeepTypes
DEF QuietStep, StepOf, StartOf

LEMMA TypesInit ==
  ASSUME OrderInit
  PROVE  TypesInv
BY DEF OrderInit, TypesInv, FlowsOK, RecordsOK, FlowType, NoFlow, FlowLabels

-----------------------------------------------------------------------------
(* The claim: whoever is in Finishing has claimed the order. *)

Finisher(c, o) == flow[c].at \in Finishing /\ flow[c].order = o

\* Somebody finishes an order only from "in_progress" on; and as long as no
\* stale claim was taken over he is alone, and no record is tried before its
\* label is behind him.
Blank(n) == \A d \in Duties : n[d] = "none"
Ahead(at, n) ==
  /\ at \in {"committing", "alert"} => n["alert"] = "none"
  /\ at \in {"committing", "alert", "created"} => n["created"] = "none"
  /\ at \in {"committing", "alert", "created", "captured"} => n["captured"] = "none"

OrderClaim(o) ==
  /\ \A c \in Procs : Finisher(c, o) => doc[o] \in {"in_progress", "done"}
  /\ ~reclaimed[o] =>
       /\ doc[o] \in {"absent", "pending"} => Blank(notes[o])
       /\ \A c \in Procs : Finisher(c, o) => doc[o] = "in_progress"
       /\ \A c, d \in Procs : Finisher(c, o) /\ Finisher(d, o) => c = d
       /\ \A c \in Procs : Finisher(c, o) => Ahead(flow[c].at, notes[o])
       /\ \A d \in Duties : notes[o][d] # "again"

ClaimInv == \A o \in Orders : OrderClaim(o)

\* While live claimers are in time, a finisher's claim is fresh, and he is
\* alone even after a take-over.
FreshInv ==
  ~SlowClaimers =>
    \A o \in Orders :
      /\ \A c \in Procs :
           Finisher(c, o) => doc[o] = "in_progress" /\ claimFresh[o]
      /\ \A c, d \in Procs : Finisher(c, o) /\ Finisher(d, o) => c = d

\* After a quiet step or a start, whoever is a finisher was one before, at the
\* same label.
LEMMA QuietFinishers ==
  ASSUME TypesInv, NEW c \in Procs, QuietStep(c) \/ StartOf(c)
  PROVE  /\ \A d \in Procs : flow'[d].at \in Finishing => flow'[d] = flow[d]
         /\ UNCHANGED <<doc, claimFresh, notes, reclaimed>>
BY DEF QuietStep, StepOf, StartOf

\* A step from one label of a flow to another makes a finisher of nobody else.
LEMMA FinishersOf ==
  ASSUME TypesInv, NEW c \in Procs, StepOf(c)
  PROVE  /\ \A d \in Procs \ {c} : flow'[d] = flow[d]
         /\ flow'[c].at \in Finishing => flow'[c].order = flow[c].order
         /\ flow[c].at # "idle" => flow[c].order \in Orders
BY DEF StepOf, Finishing, TypesInv, FlowsOK

LEMMA ClaimInvInit ==
  ASSUME OrderInit
  PROVE  ClaimInv /\ FreshInv
BY DEF OrderInit, ClaimInv, OrderClaim, FreshInv, Finisher, NoFlow, Finishing, Blank

LEMMA ClaimInvStep ==
  ASSUME TypesInv, ClaimInv, [OrderNext]_allVars
  PROVE  ClaimInv'
<1>1. ASSUME NEW c \in Procs, QuietStep(c) \/ StartOf(c)
      PROVE  ClaimInv'
  <2>1. /\ \A d \in Procs : flow'[d].at \in Finishing => flow'[d] = flow[d]
        /\ UNCHANGED <<doc, notes, reclaimed>>
    BY <1>1, QuietFinishers
  <2>2. QED
    BY <2>1 DEF ClaimInv, OrderClaim, Finisher
<1>2. ASSUME NEW c \in Procs, UpsertOrder(c)
      PROVE  ClaimInv'
  <2>1. /\ \A d \in Procs \ {c} : flow'[d] = flow[d]
        /\ flow'[c].at \notin Finishing
    BY <1>2, UpsertOK, FinishersOf DEF Finishing
  <2>2. UNCHANGED <<notes, reclaimed>>
    BY <1>2, UpsertOK
  <2>3. \A o \in Orders :
          doc'[o] = doc[o] \/ (doc[o] = "absent" /\ doc'[o] = "pending")
    BY <1>2, UpsertOK DEF TypesInv, RecordsOK
  <2>4. QED
    BY <2>1, <2>2, <2>3 DEF ClaimInv, OrderClaim, Finisher
<1>3. ASSUME NEW c \in Procs, Claim(c), ~QuietStep(c)
      PROVE  ClaimInv'
  <2>0. PICK o \in Orders : o = flow[c].order
    BY <1>3, ClaimOK, FinishersOf
  <2>1. /\ \A d \in Procs \ {c} : flow'[d] = flow[d]
        /\ flow'[c].at = "committing" /\ flow'[c].order = o
        /\ flow[c].order = o /\ notes' = notes
        /\ flow[c].at \notin Finishing
    BY <1>3, <2>0, ClaimOK, FinishersOf DEF Finishing
  <2>2. /\ Claimable(o) /\ doc'[o] = "in_progress"
        /\ reclaimed'[o] = (reclaimed[o] \/ doc[o] = "in_progress")
        /\ \A p \in Orders \ {o} : doc'[p] = doc[p]
                                   /\ reclaimed'[p] = reclaimed[p]
    BY <1>3, <2>1, ClaimOK DEF TypesInv, RecordsOK
  <2>3. ASSUME NEW p \in Orders, p # o
        PROVE  \A d \in Procs : Finisher(d, p)' <=> Finisher(d, p) /\ d # c
    BY <2>1, <2>3 DEF Finisher, Finishing
  <2>4. \A d \in Procs \ {c} : Finisher(d, o)' <=> Finisher(d, o)
    BY <2>1 DEF Finisher
  <2>5. ~reclaimed'[o] =>
          /\ Blank(notes[o])
          /\ \A d \in Procs : ~Finisher(d, o)
    BY <2>1, <2>2 DEF ClaimInv, OrderClaim, Claimable
  <2>6. QED
    <3> SUFFICES ASSUME NEW p \in Orders
                 PROVE  OrderClaim(p)'
      BY DEF ClaimInv
    <3>1. CASE p = o
      <4>1. \A d \in Procs : Finisher(d, o)' => Finisher(d, o) \/ d = c
        BY <2>4
      <4>2. ~reclaimed'[o] => \A d \in Procs : Finisher(d, o)' => d = c
        BY <2>5, <4>1
      <4>3. reclaimed'[o] \/ Blank(notes'[o])
        BY <2>1, <2>5
      <4>4. reclaimed'[o] \/ \A at : Ahead(at, notes'[o])
        BY <4>3 DEF Ahead, Blank, Duties
      <4>5. reclaimed'[o] \/ \A d \in Duties : notes'[o][d] # "again"
        BY <4>3 DEF Blank
      <4>6. QED
        BY <3>1, <2>1, <2>2, <4>2, <4>3, <4>4, <4>5 DEF OrderClaim
    <3>2. CASE p # o
      <4>1. /\ doc'[p] = doc[p] /\ reclaimed'[p] = reclaimed[p]
            /\ notes'[p] = notes[p]
            /\ \A d \in Procs : Finisher(d, p)' => Finisher(d, p) /\ d # c
            /\ \A d \in Procs \ {c} : flow'[d] = flow[d]
        BY <3>2, <2>1, <2>2, <2>3
      <4>2. OrderClaim(p)
        BY DEF ClaimInv
      <4>3. QED
        BY <4>1, <4>2 DEF OrderClaim
    <3>3. QED
      BY <3>1, <3>2
<1>4. ASSUME NEW c \in Procs, CommitReturned(c), ~QuietStep(c)
      PROVE  ClaimInv'
  <2>1. /\ \A d \in Procs \ {c} : flow'[d] = flow[d]
        /\ flow'[c].order = flow[c].order
        /\ flow[c].at = "committing" /\ flow'[c].at = "alert"
        /\ UNCHANGED <<doc, notes, reclaimed>>
    BY <1>4, CommitReturnedOK, FinishersOf DEF Finishing
  <2>2. \A n : Ahead("committing", n) => Ahead("alert", n)
    BY DEF Ahead
  <2>3. QED
    BY <2>1, <2>2 DEF ClaimInv, OrderClaim, Finisher, Finishing
<1>5. ASSUME NEW c \in Procs, Announce(c)
      PROVE  ClaimInv'
  <2>0. PICK o \in Orders : o = flow[c].order
    BY <1>5, AnnounceOK
  <2>1. /\ \A d \in Procs \ {c} : flow'[d] = flow[d]
        /\ flow'[c].order = o /\ flow[c].order = o
        /\ flow[c].at \in {"alert", "created", "captured"}
        /\ flow'[c].at \in {"created", "captured", "resolve"}
        /\ UNCHANGED <<doc, reclaimed>>
    BY <1>5, <2>0, AnnounceOK, FinishersOf DEF Finishing
  <2>2. PICK d \in Duties, n \in {"missed", "written", "again"} :
          flow[c].at = d /\ flow'[c].at = NextDuty(d) /\ Noted(o, d, n)
    BY <1>5, <2>0, AnnounceOK
  <2>3. Finisher(c, o)
    BY <2>1 DEF Finisher, Finishing
  <2>4. \A e \in Procs, p \in Orders : Finisher(e, p)' <=> Finisher(e, p)
    BY <2>1 DEF Finisher, Finishing
  <2>5. /\ notes'[o][d] = n
        /\ \A e \in Duties \ {d} : notes'[o][e] = notes[o][e]
        /\ \A p \in Orders \ {o} : notes'[p] = notes[p]
    BY <2>0, <2>2, NotedKeeps
  <2>6. ~reclaimed[o] =>
          /\ doc[o] = "in_progress" /\ Ahead(d, notes[o])
          /\ \A e \in Duties : notes[o][e] # "again"
          /\ \A e \in Procs : Finisher(e, o) => e = c
    BY <2>1, <2>2, <2>3 DEF ClaimInv, OrderClaim
  <2>7. ~reclaimed[o] => Ahead(NextDuty(d), notes'[o])
    BY <2>5, <2>6 DEF Ahead, NextDuty, Duties
  <2>8. ~reclaimed[o] => \A e \in Duties : notes'[o][e] # "again"
    <3>1. Ahead(d, notes[o]) => notes[o][d] = "none"
      BY DEF Ahead, Duties
    <3>2. notes[o][d] = "none" => n # "again"
      BY <2>2 DEF Noted
    <3>3. QED
      BY <2>5, <2>6, <3>1, <3>2
  <2>9. OrderClaim(o)'
    BY <2>1, <2>2, <2>4, <2>6, <2>7, <2>8 DEF ClaimInv, OrderClaim
  <2>10. ASSUME NEW p \in Orders, p # o
         PROVE  OrderClaim(p)'
    <3>1. OrderClaim(p)
      BY DEF ClaimInv
    <3>2. \A e \in Procs : Finisher(e, p) => flow'[e] = flow[e]
      BY <2>1, <2>10 DEF Finisher
    <3>3. QED
      BY <2>1, <2>4, <2>5, <2>10, <3>1, <3>2 DEF OrderClaim
  <2>11. QED
    BY <2>9, <2>10 DEF ClaimInv
<1>6. ASSUME NEW c \in Procs, MarkResolved(c)
      PROVE  ClaimInv'
  <2>1. /\ \A d \in Procs \ {c} : flow'[d] = flow[d]
        /\ flow'[c].order = flow[c].order
        /\ flow[c].at = "resolve" /\ flow'[c].at = "done"
        /\ UNCHANGED <<doc, notes, reclaimed>>
    BY <1>6, MarkResolvedOK, FinishersOf DEF Finishing
  <2>2. \A n : Ahead("done", n)
    BY DEF Ahead
  <2>3. QED
    BY <2>1, <2>2 DEF ClaimInv, OrderClaim, Finisher, Finishing
<1>7. ASSUME NEW c \in Procs, MarkDone(c)
      PROVE  ClaimInv'
  <2> DEFINE o == flow[c].order
  <2>1. /\ \A d \in Procs \ {c} : flow'[d] = flow[d]
        /\ o \in Orders /\ flow[c].at = "done" /\ flow'[c].at \notin Finishing
        /\ UNCHANGED <<notes, reclaimed>>
    BY <1>7, MarkDoneOK, FinishersOf
  <2>2. doc'[o] = "done" /\ \A p \in Orders \ {o} : doc'[p] = doc[p]
    BY <1>7, <2>1, MarkDoneOK DEF TypesInv, RecordsOK
  <2>3. Finisher(c, o)
    BY <2>1 DEF Finisher, Finishing
  <2>4. \A d \in Procs, p \in Orders : Finisher(d, p)' => Finisher(d, p) /\ d # c
    BY <2>1 DEF Finisher
  <2>5. QED
    BY <2>1, <2>2, <2>3, <2>4 DEF ClaimInv, OrderClaim
<1>8. ASSUME NEW o \in Orders, Pay(o) \/ ClaimGoesStale(o)
      PROVE  ClaimInv'
  BY <1>8, PayOK, StaleOK DEF ClaimInv, OrderClaim, Finisher
<1>9. CASE UNCHANGED ClaimVars
  BY <1>9 DEF ClaimVars, ClaimInv, OrderClaim, Finisher
<1>10. QED
  BY <1>1, <1>2, <1>3, <1>4, <1>5, <1>6, <1>7, <1>8, <1>9, StepCases

\* No alert and no ledger entry of an order is written twice, unless a stale
\* claim was taken over (order_service.py:132-205): for any number of callers,
\* crashes and retries.
THEOREM LedgerOnceHolds == OrderSpec => []LedgerOnce
<1>1. OrderInit => TypesInv /\ ClaimInv
  BY TypesInit, ClaimInvInit
<1>2. TypesInv /\ ClaimInv /\ [OrderNext]_allVars => (TypesInv /\ ClaimInv)'
  BY TypesStep, ClaimInvStep
<1>3. TypesInv /\ ClaimInv => LedgerOnce
  BY DEF ClaimInv, OrderClaim, LedgerOnce
<1>4. QED
  BY <1>1, <1>2, <1>3, PTL DEF OrderSpec

LEMMA FreshInvStep ==
  ASSUME TypesInv, FreshInv, [OrderNext]_allVars
  PROVE  FreshInv'
<1> SUFFICES ASSUME ~SlowClaimers
             PROVE  FreshInv'
  BY DEF FreshInv
<1>1. ASSUME NEW c \in Procs, QuietStep(c) \/ StartOf(c)
      PROVE  FreshInv'
  <2>1. /\ \A d \in Procs : flow'[d].at \in Finishing => flow'[d] = flow[d]
        /\ UNCHANGED <<doc, claimFresh>>
    BY <1>1, QuietFinishers
  <2>2. QED
    BY <2>1 DEF FreshInv, Finisher
<1>2. ASSUME NEW c \in Procs, UpsertOrder(c)
      PROVE  FreshInv'
  <2>1. /\ \A d \in Procs \ {c} : flow'[d] = flow[d]
        /\ flow'[c].at \notin Finishing /\ claimFresh' = claimFresh
    BY <1>2, UpsertOK, FinishersOf DEF Finishing
  <2>2. \A o \in Orders :
          doc'[o] = doc[o] \/ (doc[o] = "absent" /\ doc'[o] = "pending")
    BY <1>2, UpsertOK DEF TypesInv, RecordsOK
  <2>3. QED
    BY <2>1, <2>2 DEF FreshInv, Finisher
<1>3. ASSUME NEW c \in Procs, Claim(c), ~QuietStep(c)
      PROVE  FreshInv'
  <2>0. PICK o \in Orders : o = flow[c].order
    BY <1>3, ClaimOK, FinishersOf
  <2>1. /\ \A d \in Procs \ {c} : flow'[d] = flow[d]
        /\ flow'[c].order = o
    BY <1>3, <2>0, ClaimOK, FinishersOf DEF Finishing
  <2>2. /\ Claimable(o) /\ doc'[o] = "in_progress" /\ claimFresh'[o]
        /\ \A p \in Orders \ {o} : doc'[p] = doc[p]
                                   /\ claimFresh'[p] = claimFresh[p]
    BY <1>3, <2>0, ClaimOK DEF TypesInv, RecordsOK
  <2>3. \A d \in Procs : ~Finisher(d, o)
    BY <2>2 DEF FreshInv, Claimable
  <2>4. \A d \in Procs : Finisher(d, o)' => d = c
    BY <2>1, <2>3 DEF Finisher
  <2>5. \A p \in Orders \ {o}, d \in Procs : Finisher(d, p)' => Finisher(d, p)
    BY <2>1 DEF Finisher
  <2>6. QED
    BY <2>2, <2>4, <2>5 DEF FreshInv
<1>4. ASSUME NEW c \in Procs,
             \/ CommitReturned(c) /\ ~QuietStep(c)
             \/ Announce(c) \/ MarkResolved(c)
      PROVE  FreshInv'
  <2>1. /\ \A d \in Procs \ {c} : flow'[d] = flow[d]
        /\ flow'[c].order = flow[c].order /\ flow[c].at \in Finishing
        /\ UNCHANGED <<doc, claimFresh>>
    BY <1>4, CommitReturnedOK, AnnounceOK, MarkResolvedOK, FinishersOf
    DEF Finishing
  <2>2. QED
    BY <2>1 DEF FreshInv, Finisher
<1>5. ASSUME NEW c \in Procs, MarkDone(c)
      PROVE  FreshInv'
  <2>0. PICK o \in Orders : o = flow[c].order
    BY <1>5, MarkDoneOK, FinishersOf
  <2>1. /\ \A d \in Procs \ {c} : flow'[d] = flow[d]
        /\ flow[c].at = "done" /\ flow'[c].at \notin Finishing
        /\ claimFresh' = claimFresh
        /\ \A p \in Orders \ {o} : doc'[p] = doc[p]
    BY <1>5, <2>0, MarkDoneOK, FinishersOf DEF TypesInv, RecordsOK
  <2>2. Finisher(c, o)
    BY <2>0, <2>1 DEF Finisher, Finishing
  <2>3. \A d \in Procs, p \in Orders :
          Finisher(d, p)' => Finisher(d, p) /\ d # c
    BY <2>1 DEF Finisher
  <2>4. \A d \in Procs : ~Finisher(d, o)'
    BY <2>2, <2>3 DEF FreshInv
  <2>5. QED
    BY <2>1, <2>3, <2>4 DEF FreshInv
<1>6. ASSUME NEW o \in Orders, Pay(o) \/ ClaimGoesStale(o)
      PROVE  FreshInv'
  <2>1. CASE Pay(o)
    BY <2>1, PayOK DEF FreshInv, Finisher
  <2>2. CASE ClaimGoesStale(o)
    BY <2>2, StaleOK DEF FreshInv, Finisher
  <2>3. QED
    BY <1>6, <2>1, <2>2
<1>7. CASE UNCHANGED ClaimVars
  BY <1>7 DEF ClaimVars, FreshInv, Finisher
<1>8. QED
  BY <1>1, <1>2, <1>3, <1>4, <1>5, <1>6, <1>7, StepCases

\* While live claimers are in time, one call at most is between winning the
\* claim of an order and writing "done" (order_service.py:138-160), however
\* many claims went stale.
THEOREM OneFinisherHolds == OrderSpec => []OneFinisher
<1>1. OrderInit => TypesInv /\ FreshInv
  BY TypesInit, ClaimInvInit
<1>2. TypesInv /\ FreshInv /\ [OrderNext]_allVars => (TypesInv /\ FreshInv)'
  BY TypesStep, FreshInvStep
<1>3. TypesInv /\ FreshInv => OneFinisher
  BY DEF FreshInv, OneFinisher, Finisher, FlowOrder, TypesInv, FlowsOK,
         Finishing
<1>4. QED
  BY <1>1, <1>2, <1>3, PTL DEF OrderSpec

-----------------------------------------------------------------------------
(* The status only moves forward. *)

Forward ==
  \A o \in Orders :
    doc'[o] # doc[o] =>
      <<doc[o], doc'[o]>> \in {<<"absent", "pending">>,
                               <<"pending", "in_progress">>,
                               <<"in_progress", "done">>}

LEMMA ForwardStep ==
  ASSUME TypesInv, ClaimInv, [OrderNext]_allVars
  PROVE  Forward
<1>1. ASSUME NEW c \in Procs, UpsertOrder(c)
      PROVE  Forward
  BY <1>1, UpsertOK DEF TypesInv, RecordsOK, Forward
<1>2. ASSUME NEW c \in Procs, Claim(c), ~QuietStep(c)
      PROVE  Forward
  <2>1. PICK o \in Orders :
          /\ Claimable(o) /\ doc' = [doc EXCEPT ![o] = "in_progress"]
    BY <1>2, ClaimOK, FinishersOf
  <2>2. QED
    BY <2>1 DEF TypesInv, RecordsOK, Forward, Claimable
<1>3. ASSUME NEW c \in Procs, MarkDone(c)
      PROVE  Forward
  <2>1. PICK o \in Orders :
          /\ o = flow[c].order /\ doc' = [doc EXCEPT ![o] = "done"]
    BY <1>3, MarkDoneOK, FinishersOf
  <2>2. Finisher(c, o)
    BY <1>3, <2>1, MarkDoneOK DEF Finisher, Finishing
  <2>3. doc[o] \in {"in_progress", "done"}
    BY <2>2 DEF ClaimInv, OrderClaim
  <2>4. QED
    BY <2>1, <2>3 DEF TypesInv, RecordsOK, Forward
<1>4. UNCHANGED doc => Forward
  BY DEF Forward
<1>5. QED
  BY <1>1, <1>2, <1>3, <1>4, StepCases, CommitReturnedOK, AnnounceOK,
     MarkResolvedOK, PayOK, StaleOK
  DEF QuietStep, StartOf, ClaimVars

\* post_processing_status goes from pending over in_progress to done and never
\* back, whichever caller writes it (order_service.py:138-205).
THEOREM StatusForwardHolds == OrderSpec => StatusForward
<1>1. OrderInit => TypesInv /\ ClaimInv
  BY TypesInit, ClaimInvInit
<1>2. TypesInv /\ ClaimInv /\ [OrderNext]_allVars => (TypesInv /\ ClaimInv)'
  BY TypesStep, ClaimInvStep
<1>3. TypesInv /\ ClaimInv /\ [OrderNext]_allVars => [Forward]_allVars
  BY ForwardStep
<1>4. QED
  BY <1>1, <1>2, <1>3, PTL DEF OrderSpec, StatusForward, Forward

-----------------------------------------------------------------------------
(* What an order that says "done" has behind it. *)

Concluded(a) == a \in {"resolved", "abandoned"}

Tried(n) == \A d \in Duties : n[d] # "none"

\* What a finisher has behind him at each of his labels.
Behind(at, n) ==
  /\ at \in {"created", "captured", "resolve", "done"} => n["alert"] # "none"
  /\ at \in {"captured", "resolve", "done"} => n["created"] # "none"
  /\ at \in {"resolve", "done"} => n["captured"] # "none"

\* Nobody completes an order, nor was it paid, without an attempt; a finisher
\* has the records before his label and, in the end, the resolution behind him.
RecordInv ==
  /\ \A o \in Orders :
       /\ event[o] # "none" => attempt[o] # "none"
       /\ doc[o] = "done" => Tried(notes[o]) /\ Concluded(attempt[o])
  /\ \A c \in Procs :
       LET o == flow[c].order IN
       /\ flow[c].at \in Completing => attempt[o] # "none"
       /\ flow[c].at \in Completing => Behind(flow[c].at, notes[o])
       /\ flow[c].at = "done" => Concluded(attempt[o])

\* A step keeps what RecordInv says of everything it does not enter.
RecordsKept ==
  /\ \A o \in Orders :
       /\ \A d \in Duties : notes[o][d] # "none" => notes'[o][d] # "none"
       /\ attempt[o] # "none" => attempt'[o] # "none"
       /\ Concluded(attempt[o]) => Concluded(attempt'[o])

LEMMA RecordsKeptStep ==
  ASSUME TypesInv, [OrderNext]_allVars
  PROVE  RecordsKept
<1> USE DEF RecordsKept, Concluded
<1>2. AttemptForward /\ UNCHANGED notes => RecordsKept
  BY DEF AttemptForward
<1>3. ASSUME NEW c \in Procs, Announce(c)
      PROVE  RecordsKept
  <2>0. PICK o \in Orders : o = flow[c].order
    BY <1>3, AnnounceOK
  <2>1. PICK d \in Duties : \E n : Noted(o, d, n)
    BY <1>3, <2>0, AnnounceOK
  <2>2. PICK n : Noted(o, d, n)
    BY <2>1
  <2>3. /\ notes'[o][d] # "none"
        /\ \A e \in Duties \ {d} : notes'[o][e] = notes[o][e]
        /\ \A p \in Orders \ {o} : notes'[p] = notes[p]
    BY <2>0, <2>2, NotedKeeps
  <2>4. attempt' = attempt
    BY <1>3, AnnounceOK
  <2>5. QED
    BY <2>0, <2>3, <2>4
<1>4. UNCHANGED <<notes, attempt>> => RecordsKept
  OBVIOUS
<1>5. QED
  BY <1>2, <1>3, <1>4, StepCases, UpsertOK, ClaimOK, CommitReturnedOK,
     MarkResolvedOK, MarkDoneOK, PayOK, StaleOK
  DEF QuietStep, StepOf, StartOf, ClaimVars

LEMMA RecordInvInit ==
  ASSUME OrderInit
  PROVE  RecordInv
BY DEF OrderInit, RecordInv, NoFlow, Completing

\* The rest of a step: which entry moves and where its flow arrives.
LEMMA RecordInvKept ==
  ASSUME TypesInv, RecordInv, RecordsKept, TypesInv',
         NEW c \in Procs, \A d \in Procs \ {c} : flow'[d] = flow[d],
         \A o \in Orders :
           event'[o] # event[o] => o = flow[c].order /\ flow[c].at \in Completing,
         \A o \in Orders :
           doc'[o] = "done" =>
             \/ doc[o] = "done"
             \/ o = flow[c].order /\ flow[c].at = "done",
         LET o == flow'[c].order IN
         /\ flow'[c].at \in Completing => attempt'[o] # "none"
         /\ flow'[c].at \in Completing => Behind(flow'[c].at, notes'[o])
         /\ flow'[c].at = "done" => Concluded(attempt'[o])
  PROVE  RecordInv'
<1>1. \A o \in Orders :
        /\ Tried(notes[o]) => Tried(notes'[o])
        /\ \A at : Behind(at, notes[o]) => Behind(at, notes'[o])
  BY DEF RecordsKept, Tried, Behind, Duties
<1>2. \A d \in Procs : flow[d].at \in Completing => flow[d].order \in Orders
  BY DEF TypesInv, FlowsOK, Completing
<1>3. ASSUME NEW o \in Orders
      PROVE  /\ event'[o] # "none" => attempt'[o] # "none"
             /\ doc'[o] = "done" => Tried(notes'[o]) /\ Concluded(attempt'[o])
  <2>1. event'[o] # "none" => attempt[o] # "none"
    BY DEF RecordInv
  <2>2. doc'[o] = "done" => Tried(notes[o]) /\ Concluded(attempt[o])
    <3>1. \A at \in {"done"} : \A n : Behind(at, n) => Tried(n)
      BY DEF Behind, Tried, Duties
    <3>2. QED
      BY <3>1 DEF RecordInv, Completing
  <2>3. QED
    BY <1>1, <2>1, <2>2 DEF RecordsKept
<1>4. ASSUME NEW d \in Procs
      PROVE  LET o == flow'[d].order IN
             /\ flow'[d].at \in Completing => attempt'[o] # "none"
             /\ flow'[d].at \in Completing => Behind(flow'[d].at, notes'[o])
             /\ flow'[d].at = "done" => Concluded(attempt'[o])
  <2>1. CASE d = c
    BY <2>1
  <2>2. CASE d # c
    <3>1. flow'[d] = flow[d]
      BY <2>2
    <3>2. flow[d].at = "done" => flow[d].at \in Completing
      BY DEF Completing
    <3>3. QED
      BY <1>1, <1>2, <3>1, <3>2 DEF RecordInv, RecordsKept
  <2>3. QED
    BY <2>1, <2>2
<1>5. QED
  BY <1>3, <1>4 DEF RecordInv

LEMMA RecordInvStep ==
  ASSUME TypesInv, RecordInv, [OrderNext]_allVars
  PROVE  RecordInv'
<1>1. TypesInv' /\ RecordsKept
  BY TypesStep, RecordsKeptStep
<1>2. ASSUME NEW c \in Procs, StepOf(c),
             \A o \in Orders :
               doc'[o] = "done" =>
                 \/ doc[o] = "done"
                 \/ o = flow[c].order /\ flow[c].at = "done",
             flow'[c].at \in Finishing =>
               Behind(flow'[c].at, notes'[flow[c].order]),
             flow'[c].at = "done" => Concluded(attempt'[flow[c].order])
      PROVE  RecordInv'
  <2>1. flow'[c].at \in Completing =>
          /\ flow'[c].order = flow[c].order /\ flow[c].order \in Orders
          /\ attempt'[flow[c].order] # "none"
    BY <1>1, <1>2
    DEF StepOf, TypesInv, FlowsOK, Completing, RecordInv, RecordsKept
  <2>2. flow'[c].at \in Finishing => flow'[c].at \in Completing
    BY DEF Completing, Finishing
  <2>3. flow'[c].at \notin Finishing => \A n : Behind(flow'[c].at, n)
    BY DEF Behind, Finishing
  <2>4. flow'[c].at = "done" => flow'[c].at \in Finishing
    BY DEF Finishing
  <2>5. QED
    BY <1>1, <1>2, <2>1, <2>2, <2>3, <2>4, RecordInvKept DEF StepOf
<1>3. ASSUME NEW c \in Procs, QuietStep(c)
      PROVE  RecordInv'
  BY <1>2, <1>3 DEF QuietStep, Finishing
<1>4. ASSUME NEW c \in Procs, StartOf(c)
      PROVE  RecordInv'
  <2>1. flow'[c].at \in Completing => attempt'[flow'[c].order] # "none"
    BY <1>4 DEF StartOf, Paid, RecordInv
  <2>2. flow'[c].at \notin Finishing => \A n : Behind(flow'[c].at, n)
    BY DEF Behind, Finishing
  <2>3. QED
    BY <1>1, <1>4, <2>1, <2>2, RecordInvKept DEF StartOf, Finishing
<1>5. ASSUME NEW c \in Procs, UpsertOrder(c)
      PROVE  RecordInv'
  <2>1. \A o \in Orders : doc'[o] = "done" => doc[o] = "done"
    BY <1>5, UpsertOK DEF TypesInv, RecordsOK
  <2>2. StepOf(c) /\ flow'[c].at = "claim"
    BY <1>5, UpsertOK
  <2>3. QED
    BY <1>2, <2>1, <2>2 DEF Finishing
<1>6. ASSUME NEW c \in Procs, Claim(c), ~QuietStep(c)
      PROVE  RecordInv'
  <2>1. \A o \in Orders : doc'[o] = "done" => doc[o] = "done"
    BY <1>6, ClaimOK DEF TypesInv, RecordsOK
  <2>2. StepOf(c) /\ flow'[c].at = "committing"
    BY <1>6, ClaimOK
  <2>3. QED
    BY <1>2, <2>1, <2>2 DEF Behind
<1>7. ASSUME NEW c \in Procs, CommitReturned(c), ~QuietStep(c)
      PROVE  RecordInv'
  <2>1. StepOf(c) /\ flow'[c].at = "alert" /\ doc' = doc
    BY <1>7, CommitReturnedOK
  <2>2. QED
    BY <1>2, <2>1 DEF Behind
<1>8. ASSUME NEW c \in Procs, Announce(c)
      PROVE  RecordInv'
  <2>0. PICK o \in Orders : o = flow[c].order
    BY <1>8, AnnounceOK
  <2>1. /\ StepOf(c) /\ doc' = doc
        /\ flow[c].at \in {"alert", "created", "captured"}
        /\ flow'[c].at \in {"created", "captured", "resolve"}
    BY <1>8, AnnounceOK
  <2>2. PICK d \in Duties :
          \E n : flow[c].at = d /\ flow'[c].at = NextDuty(d) /\ Noted(o, d, n)
    BY <1>8, <2>0, AnnounceOK
  <2>3. PICK n : flow'[c].at = NextDuty(d) /\ flow[c].at = d /\ Noted(o, d, n)
    BY <2>2
  <2>4. /\ notes'[o][d] # "none"
        /\ \A e \in Duties \ {d} : notes'[o][e] = notes[o][e]
    BY <2>0, <2>3, NotedKeeps
  <2>5. Behind(d, notes[o])
    BY <2>0, <2>1, <2>3 DEF RecordInv, Completing
  <2>6. Behind(NextDuty(d), notes'[o])
    BY <2>4, <2>5 DEF Behind, NextDuty, Duties
  <2>7. QED
    BY <1>2, <2>0, <2>1, <2>3, <2>6
<1>9. ASSUME NEW c \in Procs, MarkResolved(c)
      PROVE  RecordInv'
  <2>1. /\ StepOf(c) /\ flow[c].at = "resolve" /\ flow'[c].at = "done"
        /\ flow[c].order \in Orders
        /\ attempt' = Resolved(attempt, flow[c].order)
        /\ UNCHANGED <<doc, notes>>
    BY <1>9, MarkResolvedOK, FinishersOf
  <2>2. /\ Behind("done", notes[flow[c].order])
        /\ attempt[flow[c].order] # "none"
    BY <2>1 DEF RecordInv, Completing, Behind
  <2>3. Concluded(attempt'[flow[c].order])
    BY <2>1, <2>2 DEF Resolved, Concluded, TypesInv, RecordsOK
  <2>4. QED
    BY <1>2, <2>1, <2>2, <2>3
<1>10. ASSUME NEW c \in Procs, MarkDone(c)
       PROVE  RecordInv'
  <2>1. /\ StepOf(c) /\ flow[c].at = "done" /\ flow'[c].at \notin Finishing
        /\ flow[c].order \in Orders
        /\ doc' = [doc EXCEPT ![flow[c].order] = "done"]
    BY <1>10, MarkDoneOK, FinishersOf
  <2>2. \A o \in Orders :
          doc'[o] = "done" => doc[o] = "done" \/ o = flow[c].order
    BY <2>1 DEF TypesInv, RecordsOK
  <2>3. QED
    BY <1>2, <2>1, <2>2 DEF Finishing
<1>11. ASSUME NEW o \in Orders, Pay(o)
       PROVE  RecordInv'
  <2>1. /\ attempt[o] # "none"
        /\ \A p \in Orders : p # o => event'[p] = event[p]
        /\ UNCHANGED <<doc, notes, attempt, flow>>
    BY <1>11, PayOK
  <2>2. QED
    BY <2>1 DEF RecordInv
<1>12. ASSUME NEW o \in Orders, ClaimGoesStale(o)
       PROVE  RecordInv'
  BY <1>12, StaleOK DEF RecordInv
<1>13. CASE UNCHANGED ClaimVars
  BY <1>13 DEF ClaimVars, RecordInv
<1>14. QED
  BY <1>3, <1>4, <1>5, <1>6, <1>7, <1>8, <1>9, <1>10, <1>11, <1>12, <1>13,
     StepCases

\* An order that says "done" had its alert and its two ledger entries tried,
\* each written unless its own write failed and was swallowed, and its payment
\* attempt is no longer pending, whatever crashed on the way
\* (order_service.py:206-228 write "done" last).
THEOREM DoneMeansRecordedHolds == OrderSpec => []DoneMeansRecorded
<1>1. OrderInit => TypesInv /\ RecordInv
  BY TypesInit, RecordInvInit
<1>2. TypesInv /\ RecordInv /\ [OrderNext]_allVars => (TypesInv /\ RecordInv)'
  BY TypesStep, RecordInvStep
<1>3. TypesInv /\ RecordInv => DoneMeansRecorded
  BY DEF RecordInv, DoneMeansRecorded, Concluded, Tried
<1>4. QED
  BY <1>1, <1>2, <1>3, PTL DEF OrderSpec

-----------------------------------------------------------------------------
(* The refinement of Fulfilment. *)

\* Only a captured payment is completed.
PaidInv == \A c \in Procs : flow[c].at \in Completing => Paid(flow[c].order)

\* A captured payment stays captured: its event is acked or lost.
EventForward == \A o \in Orders : event[o] # "none" => event'[o] # "none"

LEMMA EventForwardStep ==
  ASSUME TypesInv, [OrderNext]_allVars
  PROVE  EventForward
<1>1. UNCHANGED event => EventForward
  BY DEF EventForward
<1>2. ASSUME NEW c \in Procs, ReturnStatus(c) \/ Raise(c)
      PROVE  EventForward
  <2>1. ASSUME NEW o, NEW e, e # "none", event' = [event EXCEPT ![o] = e]
        PROVE  EventForward
    BY <2>1 DEF EventForward, TypesInv, RecordsOK
  <2>2. QED
    BY <1>1, <1>2, <2>1 DEF ReturnStatus, Raise
<1>3. ASSUME NEW c \in Procs, Proceed(c) \/ PostProcess(c)
      PROVE  EventForward
  BY <1>1, <1>2, <1>3 DEF Proceed, PostProcess
<1>4. ASSUME NEW c \in Procs, FlowStep(c)
      PROVE  EventForward
  <2>1. CASE WritePendingOrder(c) \/ CreateRazorpayOrder(c) \/ RecordAttempt(c)
             \/ GetPendingOrder(c) \/ AmountMatches(c) \/ UpsertOrder(c)
             \/ Announce(c) \/ MarkResolved(c) \/ AlreadyProcessed(c)
             \/ AbandonAttempt(c)
    BY <1>1, <2>1
    DEF WritePendingOrder, CreateRazorpayOrder, RecordAttempt, GetPendingOrder,
        AmountMatches, UpsertOrder, Announce, MarkResolved, AlreadyProcessed,
        AbandonAttempt
  <2>2. CASE FindOrder(c) \/ FindOrderAgain(c) \/ LoadSnapshot(c) \/ LookupRaises(c)
    BY <1>1, <1>2, <1>3, <2>2
    DEF FindOrder, FindOrderAgain, LoadSnapshot, LookupRaises
  <2>3. CASE Claim(c) \/ CommitReturned(c) \/ MarkDone(c) \/ DeletePendingOrder(c)
    BY <1>1, <1>2, <1>3, <2>3
    DEF Claim, CommitReturned, MarkDone, DeletePendingOrder
  <2>4. QED
    BY <1>4, <2>1, <2>2, <2>3 DEF FlowStep
<1>5. ASSUME NEW c \in Procs, InventoryStep(c) \/ FlowCrash(c)
      PROVE  EventForward
  BY <1>1, <1>5 DEF InventoryStep, FlowCrash, orderVars
<1>6. ASSUME NEW c \in Procs, NEW o \in Orders,
             \/ StartInitiate(c, o) \/ LookUpPayment(c, o)
             \/ SweepStep(c, o) \/ CodStep(c, o)
             \/ \E source \in Sources : StartComplete(c, o, source)
      PROVE  EventForward
  BY <1>1, <1>6
  DEF StartInitiate, LookUpPayment, SweepStep, CodStep, StartComplete, orderVars
<1>7. ASSUME NEW o \in Orders, Pay(o)
      PROVE  EventForward
  BY <1>7 DEF Pay, EventForward, TypesInv, RecordsOK
<1>8. ASSUME NEW o \in Orders,
             ClaimGoesStale(o) \/ ExpirePendingOrder(o) \/ TimeStep(o)
      PROVE  EventForward
  BY <1>1, <1>8 DEF ClaimGoesStale, ExpirePendingOrder, TimeStep, orderVars
<1>9. ASSUME NEW r \in Rows, LockStep(r)
      PROVE  EventForward
  BY <1>1, <1>9 DEF LockStep, orderVars
<1>10. CASE UNCHANGED allVars
  BY <1>1, <1>10 DEF allVars, orderVars
<1>11. QED
  BY <1>4, <1>5, <1>6, <1>7, <1>8, <1>9, <1>10 DEF OrderNext

LEMMA PaidInvStep ==
  ASSUME TypesInv, PaidInv, [OrderNext]_allVars
  PROVE  PaidInv'
<1>1. TypesInv' /\ EventForward
  BY TypesStep, EventForwardStep
<1>2. ASSUME NEW d \in Procs, flow'[d] = flow[d]
      PROVE  flow'[d].at \in Completing => event'[flow'[d].order] # "none"
  BY <1>1, <1>2 DEF PaidInv, Paid, EventForward, TypesInv, FlowsOK, Completing
<1>3. ASSUME NEW c \in Procs, StepOf(c)
      PROVE  PaidInv'
  <2>1. flow'[c].at \in Completing =>
          /\ flow'[c].order = flow[c].order /\ flow[c].order \in Orders
          /\ Paid(flow[c].order)
    BY <1>3 DEF StepOf, Completing, PaidInv, TypesInv, FlowsOK
  <2>2. flow'[c].at \in Completing => event'[flow'[c].order] # "none"
    BY <1>1, <2>1 DEF Paid, EventForward
  <2>3. QED
    BY <1>2, <1>3, <2>2 DEF StepOf, PaidInv, Paid
<1>4. ASSUME NEW c \in Procs, StartOf(c)
      PROVE  PaidInv'
  BY <1>2, <1>4 DEF StartOf, PaidInv, Paid
<1>5. UNCHANGED flow => PaidInv'
  BY <1>2 DEF PaidInv, Paid
<1>6. QED
  BY <1>3, <1>4, <1>5, StepCases, UpsertOK, ClaimOK, CommitReturnedOK,
     AnnounceOK, MarkResolvedOK, MarkDoneOK, PayOK, StaleOK
  DEF QuietStep, ClaimVars

FulfilInv == TypesInv /\ ClaimInv /\ RecordInv /\ PaidInv

LEMMA FulfilInvInit ==
  ASSUME OrderInit
  PROVE  FulfilInv
<1>1. PaidInv
  BY DEF OrderInit, PaidInv, NoFlow, Completing
<1>2. QED
  BY <1>1, TypesInit, ClaimInvInit, RecordInvInit DEF FulfilInv

LEMMA FulfilInvStep ==
  ASSUME FulfilInv, [OrderNext]_allVars
  PROVE  FulfilInv'
BY TypesStep, ClaimInvStep, RecordInvStep, PaidInvStep DEF FulfilInv

-----------------------------------------------------------------------------
(* A captured payment stays within reach of the reconciliation. *)

\* Where a flow only is once the order of its call exists.
Persisted == {"claim", "committing", "alert", "created", "captured", "resolve",
              "done", "clearing", "already"}

\* An attempt is only resolved for an order that exists, and a flow that will
\* resolve it is behind the place where it saw or wrote the order.
ReachInv ==
  /\ \A o \in Orders : attempt[o] = "resolved" => doc[o] # "absent"
  /\ \A c \in Procs : flow[c].at \in Persisted => doc[flow[c].order] # "absent"

LEMMA ReachInvInit ==
  ASSUME OrderInit
  PROVE  ReachInv
BY DEF OrderInit, ReachInv, NoFlow, Persisted

LEMMA EntersOK ==
  ASSUME TypesInv, NEW c \in Procs, flow[c].at # "idle"
  PROVE  /\ \A l \in FlowLabels : Enter(c, l) => flow'[c].at = l
         /\ EndFlow(c) => flow'[c].at = "idle"
<1>1. ASSUME NEW l \in FlowLabels, Enter(c, l)
      PROVE  flow'[c].at = l
  BY <1>1, EnterOK DEF TypesInv, FlowMoves
<1>2. ASSUME EndFlow(c)
      PROVE  flow'[c].at = "idle"
  BY <1>2, EndFlowOK DEF TypesInv, FlowMoves
<1>3. QED
  BY <1>1, <1>2

\* A step of a flow reaches these labels from one of them or with an order:
\* what LoadSnapshot returns without one is of no concern, a call that was
\* started has its attempt.
LEMMA FlowStepPersisted ==
  ASSUME TypesInv, RecordInv, NEW c \in Procs, FlowStep(c),
         flow[c].at \notin Persisted, flow'[c].at \in Persisted
  PROVE  doc'[flow[c].order] # "absent"
<1>1. \A l \in FlowLabels : flow[c].at # "idle" /\ Enter(c, l) => flow'[c].at = l
  BY EntersOK
<1>2. flow[c].at # "idle" /\ EndFlow(c) => flow'[c].at = "idle"
  BY EntersOK
<1>3. /\ "idle" \notin Persisted
      /\ \A l \in {"razorpay", "keepttl", "attempt", "getkey", "verify",
                   "refind", "snapshot", "upsert"} :
           l \in FlowLabels /\ l \notin Persisted
  BY DEF Persisted, FlowLabels
<1>4. CASE WritePendingOrder(c) \/ CreateRazorpayOrder(c) \/ RecordAttempt(c)
  BY <1>1, <1>2, <1>3, <1>4
  DEF WritePendingOrder, CreateRazorpayOrder, RecordAttempt, In
<1>5. CASE GetPendingOrder(c) \/ AmountMatches(c)
  BY <1>1, <1>3, <1>5 DEF GetPendingOrder, AmountMatches, In
<1>6. CASE LookupRaises(c) \/ AbandonAttempt(c)
  BY <1>2, <1>3, <1>6 DEF LookupRaises, AbandonAttempt, Raise, In
<1>7. CASE LoadSnapshot(c)
  <2>1. flow[c].at = "snapshot" /\ attempt[flow[c].order] # "none"
    BY <1>7 DEF LoadSnapshot, In, RecordInv, Completing
  <2>2. Enter(c, "verify")
    BY <1>7, <2>1 DEF LoadSnapshot, FlowOrder
  <2>3. QED
    BY <1>1, <1>3, <2>1, <2>2
<1>8. CASE FindOrder(c) \/ FindOrderAgain(c)
  BY <1>1, <1>3, <1>8 DEF FindOrder, FindOrderAgain, FlowOrder, In
<1>9. CASE UpsertOrder(c)
  <2>1. doc' = [doc EXCEPT ![flow[c].order] =
                  IF @ = "absent" THEN "pending" ELSE @]
    BY <1>9, UpsertOK
  <2>2. flow[c].order \in Orders
    BY <1>9 DEF UpsertOrder, In, TypesInv, FlowsOK
  <2>3. QED
    BY <2>1, <2>2 DEF TypesInv, RecordsOK
<1>10. CASE Claim(c) \/ CommitReturned(c) \/ MarkResolved(c)
            \/ MarkDone(c) \/ DeletePendingOrder(c) \/ AlreadyProcessed(c)
  <2>1. flow[c].at \in {"claim", "committing", "resolve", "done", "clearing", "already"}
    BY <1>10
    DEF Claim, CommitReturned, MarkResolved, MarkDone, DeletePendingOrder, AlreadyProcessed, In
  <2>2. QED
    BY <2>1 DEF Persisted
<1>10a. CASE Announce(c)
  <2>1. PICK d \in Duties : In(c, d)
    BY <1>10a DEF Announce
  <2>2. QED
    BY <2>1 DEF In, Duties, Persisted
<1>11. QED
  BY <1>4, <1>5, <1>6, <1>7, <1>8, <1>9, <1>10, <1>10a DEF FlowStep

\* Only those labels resolve an attempt.
LEMMA FlowStepResolves ==
  ASSUME TypesInv, NEW c \in Procs, FlowStep(c), NEW o \in Orders,
         attempt'[o] = "resolved", attempt[o] # "resolved"
  PROVE  o = flow[c].order /\ flow[c].at \in Persisted
<1>1. CASE UNCHANGED attempt
  BY <1>1
<1>2. CASE RecordAttempt(c) \/ AbandonAttempt(c)
  BY <1>2 DEF RecordAttempt, AbandonAttempt, TypesInv, RecordsOK
<1>3. CASE MarkResolved(c) \/ AlreadyProcessed(c)
  BY <1>3
  DEF MarkResolved, AlreadyProcessed, Resolved, FlowOrder, In, Persisted,
      TypesInv, RecordsOK
<1>4. QED
  BY <1>1, <1>2, <1>3
  DEF FlowStep, WritePendingOrder, CreateRazorpayOrder, FindOrder,
      GetPendingOrder, FindOrderAgain, LoadSnapshot, AmountMatches,
      LookupRaises, UpsertOrder, Claim, CommitReturned, Announce, MarkDone,
      DeletePendingOrder

\* What else can happen starts no flow behind the order and resolves nothing.
LEMMA OtherStepsReach ==
  ASSUME TypesInv, [OrderNext]_allVars, \A c \in Procs : ~FlowStep(c)
  PROVE  /\ UNCHANGED attempt
         /\ \A c \in Procs : \/ flow'[c] = flow[c]
                             \/ flow'[c].at \notin Persisted
<1>1. ASSUME NEW c \in Procs, NEW o \in Orders, NEW source \in Sources,
             \/ StartInitiate(c, o) \/ LookUpPayment(c, o)
             \/ StartComplete(c, o, source)
      PROVE  /\ UNCHANGED attempt
             /\ \A d \in Procs : \/ flow'[d] = flow[d]
                                 \/ flow'[d].at \notin Persisted
  <2>1. PICK f : flow' = [flow EXCEPT ![c] = f] /\ f.at \notin Persisted
    <3> DEFINE s == IF source = "scan" THEN "client_verify" ELSE source
               reserve == [NoFlow EXCEPT !.order = o, !.at = "reserving"]
               look == [NoFlow EXCEPT !.order = o, !.at = "abandon"]
               complete == [NoFlow EXCEPT !.order = o, !.at = "find",
                                          !.source = s]
    <3>0. \A f \in {reserve, look, complete} : f.at \notin Persisted
      BY DEF NoFlow, Persisted
    <3>1. CASE StartInitiate(c, o)
      <4>1. flow' = [flow EXCEPT ![c] = reserve]
        BY <3>1 DEF StartInitiate
      <4>2. QED
        BY <3>0, <4>1
    <3>2. CASE LookUpPayment(c, o)
      <4>1. flow' = [flow EXCEPT ![c] = look]
        BY <3>2 DEF LookUpPayment
      <4>2. QED
        BY <3>0, <4>1
    <3>3. CASE StartComplete(c, o, source)
      <4>1. flow' = [flow EXCEPT ![c] = complete]
        BY <3>3 DEF StartComplete
      <4>2. QED
        BY <3>0, <4>1
    <3>4. QED
      BY <1>1, <3>1, <3>2, <3>3
  <2>2. UNCHANGED attempt
    BY <1>1 DEF StartInitiate, LookUpPayment, StartComplete
  <2>3. QED
    BY <2>1, <2>2 DEF TypesInv, FlowsOK
<1>2. ASSUME NEW c \in Procs, FlowCrash(c)
      PROVE  /\ UNCHANGED attempt
             /\ \A d \in Procs : \/ flow'[d] = flow[d]
                                 \/ flow'[d].at \notin Persisted
  BY <1>2 DEF FlowCrash, EndFlow, NoFlow, Persisted, TypesInv, FlowsOK
<1>3. ASSUME NEW c \in Procs, NEW o \in Orders, SweepStep(c, o) \/ CodStep(c, o)
      PROVE  UNCHANGED <<attempt, flow>>
  BY <1>3 DEF SweepStep, CodStep, orderVars
<1>4. ASSUME NEW o \in Orders,
             \/ Pay(o) \/ ClaimGoesStale(o) \/ ExpirePendingOrder(o)
             \/ TimeStep(o)
      PROVE  UNCHANGED <<attempt, flow>>
  BY <1>4 DEF Pay, ClaimGoesStale, ExpirePendingOrder, TimeStep, orderVars
<1>5. ASSUME NEW r \in Rows, LockStep(r)
      PROVE  UNCHANGED <<attempt, flow>>
  BY <1>5 DEF LockStep, orderVars
<1>6. ASSUME NEW c \in Procs, InventoryStep(c)
      PROVE  UNCHANGED <<attempt, flow>>
  BY <1>6 DEF InventoryStep, orderVars
<1>7. CASE UNCHANGED allVars
  BY <1>7 DEF allVars, orderVars
<1>8. "webhook" \in Sources
  BY DEF Sources
<1>9. QED
  BY <1>1, <1>2, <1>3, <1>4, <1>5, <1>6, <1>7, <1>8 DEF OrderNext

LEMMA ReachInvStep ==
  ASSUME FulfilInv, ReachInv, [OrderNext]_allVars
  PROVE  ReachInv'
<1>1. TypesInv /\ TypesInv' /\ Forward
  BY TypesStep, ForwardStep DEF FulfilInv
<1>2. \A o \in Orders : doc[o] # "absent" => doc'[o] # "absent"
  BY <1>1 DEF Forward
<1>3. /\ \A d \in Procs : flow[d].at \in Persisted => flow[d].order \in Orders
      /\ \A d \in Procs : flow'[d].at \in Persisted => flow'[d].at # "idle"
  BY <1>1 DEF TypesInv, FlowsOK, Persisted
<1>4. ASSUME NEW c \in Procs, FlowStep(c)
      PROVE  ReachInv'
  <2>1. StepOf(c)
    BY <1>1, <1>4, FlowStepOf
  <2>2. ASSUME NEW o \in Orders, attempt'[o] = "resolved"
        PROVE  doc'[o] # "absent"
    BY <1>1, <1>2, <1>4, <2>2, FlowStepResolves DEF ReachInv
  <2>3. ASSUME NEW d \in Procs, flow'[d].at \in Persisted
        PROVE  doc'[flow'[d].order] # "absent"
    <3>1. CASE d # c
      BY <1>2, <1>3, <2>1, <2>3, <3>1 DEF StepOf, ReachInv
    <3>2. CASE d = c /\ flow[c].at \in Persisted
      BY <1>2, <1>3, <2>1, <2>3, <3>2 DEF StepOf, ReachInv
    <3>3. CASE d = c /\ flow[c].at \notin Persisted
      BY <1>3, <1>4, <2>1, <2>3, <3>3, FlowStepPersisted DEF StepOf, FulfilInv
    <3>4. QED
      BY <3>1, <3>2, <3>3
  <2>4. QED
    BY <2>2, <2>3 DEF ReachInv
<1>5. CASE \A c \in Procs : ~FlowStep(c)
  <2>1. /\ UNCHANGED attempt
        /\ \A c \in Procs : \/ flow'[c] = flow[c]
                            \/ flow'[c].at \notin Persisted
    BY <1>1, <1>5, OtherStepsReach
  <2>2. QED
    BY <1>2, <1>3, <2>1 DEF ReachInv
<1>6. QED
  BY <1>4, <1>5

\* A captured payment without an order has a pending attempt, or the
\* reconciliation has given it up: complete_pending_order and the callers that
\* resolve attempts (order_service.py:161-205 and the reconciliation's
\* "already_processed") never do so before the order document exists.
THEOREM PaidIsInReachHolds == OrderSpec => []PaidIsInReach
<1>1. OrderInit => FulfilInv /\ ReachInv
  BY FulfilInvInit, ReachInvInit
<1>2. FulfilInv /\ ReachInv /\ [OrderNext]_allVars => (FulfilInv /\ ReachInv)'
  BY FulfilInvStep, ReachInvStep
<1>3. FulfilInv /\ ReachInv => PaidIsInReach
  BY DEF FulfilInv, RecordInv, ReachInv, PaidIsInReach, GivenUp, Paid,
         TypesInv, RecordsOK
<1>4. QED
  BY <1>1, <1>2, <1>3, PTL DEF OrderSpec

-----------------------------------------------------------------------------
(* The steps of Fulfilment. *)

\* A step of Fulfilment for order o, in terms of the mapped variables.
Maps(o) == Promise!OrderMoves(o)

\* What no step of a flow but those of the claim changes of an order.
LEMMA PaidStays ==
  ASSUME FulfilInv, FulfilInv', [OrderNext]_allVars, NEW c \in Procs,
         \A o \in Orders :
           event'[o] # event[o] => o = flow[c].order /\ flow[c].at \in Completing
  PROVE  \A o \in Orders : (event'[o] # "none") = (event[o] # "none")
<1>1. EventForward
  BY EventForwardStep DEF FulfilInv
<1>2. QED
  BY <1>1 DEF EventForward, FulfilInv, PaidInv, Paid

LEMMA QuietMaps ==
  ASSUME FulfilInv, NEW o \in Orders,
         (event'[o] # "none") = (event[o] # "none"), AttemptForward,
         UNCHANGED <<doc, notes, reclaimed>>
  PROVE  Maps(o)
<1> DEFINE s == attempt[o] \in {"resolved", "abandoned"}
           s1 == attempt'[o] \in {"resolved", "abandoned"}
<1>1. s1 = s \/ s1 = TRUE
  BY DEF AttemptForward
<1>2. /\ [q \in Orders |-> Paid(q)]'[o] = (event'[o] # "none")
      /\ [q \in Orders |-> Paid(q)][o] = (event[o] # "none")
      /\ [q \in Orders |-> attempt[q] \in {"resolved", "abandoned"}]'[o] = s1
      /\ [q \in Orders |-> attempt[q] \in {"resolved", "abandoned"}][o] = s
  BY DEF Paid
<1>3. Promise!Rest(o) \/ Promise!Settle(o)
  BY <1>1, <1>2 DEF Promise!Rest, Promise!Settle, Promise!Becomes
<1>4. QED
  BY <1>3 DEF Maps, Promise!OrderMoves

\* The steps that change the order itself: paid and settled stand still.
LEMMA ChangeMaps ==
  ASSUME FulfilInv, NEW o \in Orders,
         (event'[o] # "none") = (event[o] # "none"), attempt'[o] = attempt[o],
         \/ UNCHANGED <<notes, reclaimed>> /\ doc[o] = "absent" /\ doc'[o] = "pending"
              /\ event[o] # "none"
         \/ notes' = notes /\ doc[o] = "pending" /\ doc'[o] = "in_progress"
              /\ reclaimed'[o] = reclaimed[o]
         \/ notes' = notes /\ doc[o] = "in_progress" /\ doc'[o] = "in_progress"
              /\ reclaimed'[o] = TRUE
         \/ UNCHANGED <<notes, reclaimed>> /\ doc[o] = "in_progress" /\ doc'[o] = "done"
              /\ Tried(notes[o]) /\ Concluded(attempt[o])
         \/ /\ doc'[o] = doc[o] /\ notes'[o] = notes[o]
            /\ reclaimed'[o] = reclaimed[o]
  PROVE  Maps(o)
<1> DEFINE s == attempt[o] \in {"resolved", "abandoned"}
<1>1. /\ [q \in Orders |-> Paid(q)]'[o] = (event[o] # "none")
      /\ [q \in Orders |-> Paid(q)][o] = (event[o] # "none")
      /\ [q \in Orders |-> attempt[q] \in {"resolved", "abandoned"}]'[o] = s
      /\ [q \in Orders |-> attempt[q] \in {"resolved", "abandoned"}][o] = s
  BY DEF Paid
<1>2. \/ Promise!Create(o) \/ Promise!Take(o) \/ Promise!Retake(o)
      \/ Promise!Finish(o) \/ Promise!Rest(o)
  BY <1>1
  DEF Promise!Create, Promise!Take, Promise!Retake, Promise!Finish,
      Promise!Rest, Promise!Becomes, Concluded, Tried
<1>3. QED
  BY <1>2 DEF Maps, Promise!OrderMoves

\* The write of a record.
LEMMA NoteMaps ==
  ASSUME FulfilInv, NEW o \in Orders, NEW d \in Duties,
         NEW n \in {"missed", "written", "again"},
         event'[o] = event[o], attempt'[o] = attempt[o],
         doc'[o] = doc[o], reclaimed'[o] = reclaimed[o],
         notes'[o] = [notes[o] EXCEPT ![d] = n],
         \/ doc[o] = "in_progress" /\ notes[o][d] = "none" /\ n # "again"
         \/ /\ doc[o] \in {"in_progress", "done"} /\ reclaimed[o]
            /\ <<notes[o][d], n>> \in {<<"missed", "written">>, <<"written", "again">>}
  PROVE  Maps(o)
<1> DEFINE s == attempt[o] \in {"resolved", "abandoned"}
<1>1. /\ [q \in Orders |-> Paid(q)]'[o] = (event[o] # "none")
      /\ [q \in Orders |-> Paid(q)][o] = (event[o] # "none")
      /\ [q \in Orders |-> attempt[q] \in {"resolved", "abandoned"}]'[o] = s
      /\ [q \in Orders |-> attempt[q] \in {"resolved", "abandoned"}][o] = s
  BY DEF Paid
<1>2. Promise!Becomes(o, [q \in Orders |-> Paid(q)][o], doc[o],
                      [notes[o] EXCEPT ![d] = n],
                      [q \in Orders |-> attempt[q] \in {"resolved", "abandoned"}][o],
                      reclaimed[o])
  BY <1>1 DEF Promise!Becomes
<1>3. Promise!Note(o)
  BY <1>2 DEF Promise!Note
<1>4. QED
  BY <1>3 DEF Maps, Promise!OrderMoves

LEMMA PayMaps ==
  ASSUME TypesInv, NEW p \in Orders, Pay(p), NEW o \in Orders
  PROVE  Maps(o)
<1>1. /\ event[p] = "none"
      /\ \E e \in {"queued", "lost"} : event' = [event EXCEPT ![p] = e]
      /\ UNCHANGED <<doc, notes, attempt, reclaimed>>
  BY DEF Pay, Paid
<1>2. /\ [q \in Orders |-> Paid(q)]'[o] = (event'[o] # "none")
      /\ [q \in Orders |-> Paid(q)][o] = (event[o] # "none")
  BY DEF Paid
<1>3. event'[o] = event[o] \/ (o = p /\ event'[o] # "none")
  BY <1>1 DEF TypesInv, RecordsOK
<1>4. Promise!Capture(o) \/ Promise!Rest(o)
  BY <1>1, <1>2, <1>3 DEF Promise!Capture, Promise!Rest, Promise!Becomes
<1>5. QED
  BY <1>4 DEF Maps, Promise!OrderMoves

LEMMA StepMaps ==
  ASSUME FulfilInv, FulfilInv', [OrderNext]_allVars, NEW o \in Orders
  PROVE  Maps(o)
<1> DEFINE paidStays == (event'[o] # "none") = (event[o] # "none")
<1>0. TypesInv
  BY DEF FulfilInv
<1>1. ASSUME NEW c \in Procs, StepOf(c)
      PROVE  paidStays
  BY <1>1, PaidStays DEF StepOf
<1>2. ASSUME NEW c \in Procs, QuietStep(c)
      PROVE  Maps(o)
  BY <1>1, <1>2, QuietMaps DEF QuietStep, StepOf
<1>3. ASSUME NEW c \in Procs, StartOf(c)
      PROVE  Maps(o)
  BY <1>3, QuietMaps DEF StartOf, AttemptForward
<1>4. ASSUME NEW c \in Procs, UpsertOrder(c)
      PROVE  Maps(o)
  <2>1. /\ StepOf(c) /\ flow[c].at = "upsert"
        /\ doc' = [doc EXCEPT ![flow[c].order] =
                     IF @ = "absent" THEN "pending" ELSE @]
        /\ UNCHANGED <<notes, reclaimed, attempt>>
    BY <1>0, <1>4, UpsertOK
  <2>2. event[flow[c].order] # "none"
    BY <2>1 DEF FulfilInv, PaidInv, Paid, Completing
  <2>3. \/ doc'[o] = doc[o]
        \/ doc[o] = "absent" /\ doc'[o] = "pending" /\ event[o] # "none"
    BY <1>0, <2>1, <2>2 DEF TypesInv, RecordsOK
  <2>4. QED
    BY <1>1, <2>1, <2>3, ChangeMaps
<1>5. ASSUME NEW c \in Procs, Claim(c), ~QuietStep(c)
      PROVE  Maps(o)
  <2>1. PICK p \in Orders :
          /\ Claimable(p) /\ StepOf(c)
          /\ doc' = [doc EXCEPT ![p] = "in_progress"]
          /\ reclaimed' = [reclaimed EXCEPT ![p] = @ \/ doc[p] = "in_progress"]
          /\ UNCHANGED <<notes, attempt>>
    BY <1>0, <1>5, ClaimOK, FinishersOf
  <2>2. CASE o = p /\ doc[p] = "pending"
    <3>1. doc'[o] = "in_progress" /\ reclaimed'[o] = reclaimed[o]
      BY <1>0, <2>1, <2>2 DEF TypesInv, RecordsOK
    <3>2. QED
      BY <1>1, <2>1, <2>2, <3>1, ChangeMaps
  <2>3. CASE o = p /\ doc[p] = "in_progress"
    <3>1. doc'[o] = "in_progress" /\ reclaimed'[o] = TRUE
      BY <1>0, <2>1, <2>3 DEF TypesInv, RecordsOK
    <3>2. QED
      BY <1>1, <2>1, <2>3, <3>1, ChangeMaps
  <2>4. CASE o # p
    <3>1. doc'[o] = doc[o] /\ reclaimed'[o] = reclaimed[o]
      BY <1>0, <2>1, <2>4 DEF TypesInv, RecordsOK
    <3>2. QED
      BY <1>1, <2>1, <3>1, ChangeMaps
  <2>5. QED
    BY <2>1, <2>2, <2>3, <2>4 DEF Claimable
<1>6. ASSUME NEW c \in Procs, CommitReturned(c)
      PROVE  Maps(o)
  <2>1. CASE QuietStep(c)
    BY <1>2, <2>1
  <2>2. CASE ~QuietStep(c)
    BY <1>0, <1>6, <2>2, CommitReturnedOK, ChangeMaps
  <2>3. QED
    BY <2>1, <2>2
<1>7. ASSUME NEW c \in Procs, Announce(c)
      PROVE  Maps(o)
  <2>0. PICK p \in Orders : p = flow[c].order
    BY <1>0, <1>7, AnnounceOK
  <2>1. /\ flow[c].at \in {"alert", "created", "captured"}
        /\ UNCHANGED <<doc, reclaimed, attempt, event>>
    BY <1>0, <1>7, AnnounceOK
  <2>2. PICK d \in Duties, n \in {"missed", "written", "again"} :
          flow[c].at = d /\ Noted(p, d, n)
    BY <1>0, <1>7, <2>0, AnnounceOK
  <2>3. /\ notes' = [notes EXCEPT ![p] = [notes[p] EXCEPT ![d] = n]]
        /\ notes \in [Orders -> [Duties -> {"none", "missed", "written", "again"}]]
    BY <1>0, <2>0, <2>2, NotedTypes DEF TypesInv, RecordsOK
  <2>4. CASE o # p
    <3>1. notes'[o] = notes[o]
      BY <2>0, <2>3, <2>4
    <3>2. QED
      BY <2>1, <3>1, ChangeMaps
  <2>5. CASE o = p
    <3>1. notes'[o] = [notes[o] EXCEPT ![d] = n]
      BY <2>3, <2>5
    <3>2. notes[o] \in [Duties -> {"none", "missed", "written", "again"}]
      BY <2>3
    <3>3. CASE n = notes[o][d]
      <4>1. notes'[o] = notes[o]
        BY <3>1, <3>2, <3>3
      <4>2. QED
        BY <2>1, <4>1, ChangeMaps
    <3>4. CASE n # notes[o][d]
      <4>1. Finisher(c, o)
        BY <2>0, <2>1, <2>5 DEF Finisher, Finishing
      <4>2. /\ doc[o] \in {"in_progress", "done"}
            /\ doc[o] = "done" => notes[o][d] # "none"
            /\ ~reclaimed[o] => doc[o] = "in_progress" /\ notes[o][d] = "none"
        BY <2>2, <4>1 DEF FulfilInv, ClaimInv, OrderClaim, RecordInv, Tried, Ahead, Duties
      <4>3. \/ doc[o] = "in_progress" /\ notes[o][d] = "none" /\ n # "again"
            \/ /\ doc[o] \in {"in_progress", "done"} /\ reclaimed[o]
               /\ <<notes[o][d], n>> \in {<<"missed", "written">>, <<"written", "again">>}
        <5>1. CASE notes[o][d] = "none"
          BY <2>2, <2>5, <4>2, <5>1 DEF Noted
        <5>2. CASE notes[o][d] # "none"
          BY <2>2, <2>5, <3>4, <4>2, <5>2 DEF Noted
        <5>3. QED
          BY <5>1, <5>2
      <4>4. QED
        BY <2>1, <2>2, <3>1, <4>3, NoteMaps
    <3>5. QED
      BY <3>3, <3>4
  <2>6. QED
    BY <2>4, <2>5
<1>8. ASSUME NEW c \in Procs, MarkResolved(c)
      PROVE  Maps(o)
  BY <1>0, <1>8, <1>1, MarkResolvedOK, QuietMaps DEF StepOf
<1>9. ASSUME NEW c \in Procs, MarkDone(c)
      PROVE  Maps(o)
  <2>1. PICK p \in Orders :
          /\ p = flow[c].order /\ flow[c].at = "done" /\ StepOf(c)
          /\ doc' = [doc EXCEPT ![p] = "done"]
          /\ UNCHANGED <<notes, reclaimed, attempt>>
    BY <1>0, <1>9, MarkDoneOK, FinishersOf
  <2>2. doc[p] \in {"in_progress", "done"}
    BY <2>1 DEF FulfilInv, ClaimInv, OrderClaim, Finisher, Finishing
  <2>3. Concluded(attempt[p]) /\ Tried(notes[p])
    BY <2>1 DEF FulfilInv, RecordInv, Completing, Behind, Tried, Duties
  <2>4. doc'[o] = doc[o] \/ (o = p /\ doc[o] = "in_progress" /\ doc'[o] = "done")
    BY <1>0, <2>1, <2>2 DEF TypesInv, RecordsOK
  <2>5. CASE doc'[o] = doc[o]
    BY <1>1, <2>1, <2>5, ChangeMaps
  <2>6. CASE o = p /\ doc[o] = "in_progress" /\ doc'[o] = "done"
    BY <1>1, <2>1, <2>3, <2>6, ChangeMaps
  <2>7. QED
    BY <2>4, <2>5, <2>6
<1>10. ASSUME NEW p \in Orders, Pay(p)
       PROVE  Maps(o)
  BY <1>0, <1>10, PayMaps
<1>11. ASSUME NEW p \in Orders, ClaimGoesStale(p)
       PROVE  Maps(o)
  BY <1>0, <1>11, StaleOK, ChangeMaps
<1>12. CASE UNCHANGED ClaimVars
  BY <1>12, ChangeMaps DEF ClaimVars
<1>13. QED
  BY <1>0, <1>2, <1>3, <1>4, <1>5, <1>6, <1>7, <1>8, <1>9, <1>10, <1>11, <1>12,
     StepCases

LEMMA InitMaps ==
  ASSUME OrderInit
  PROVE  Promise!FulfilInit
<1>1. \A o \in Orders : Paid(o) = FALSE
  BY DEF OrderInit, Paid
<1>2. \A o \in Orders : (attempt[o] \in {"resolved", "abandoned"}) = FALSE
  BY DEF OrderInit
<1>3. [o \in Orders |-> Paid(o)] = [o \in Orders |-> FALSE]
  BY <1>1, Zenon
<1>4. [o \in Orders |-> attempt[o] \in {"resolved", "abandoned"}] = [o \in Orders |-> FALSE]
  BY <1>2, Zenon
<1>5. QED
  BY <1>3, <1>4 DEF OrderInit, Promise!FulfilInit

\* complete_pending_order keeps what Fulfilment promises of every order: for
\* any number of callers, orders, crashes, lost webhooks and slow claimers.
THEOREM FulfilsPromiseHolds == OrderSpec => FulfilsPromise
<1>1. OrderInit => FulfilInv /\ Promise!FulfilInit
  BY FulfilInvInit, InitMaps
<1>2. FulfilInv /\ [OrderNext]_allVars => FulfilInv'
  BY FulfilInvStep
<1>3. FulfilInv /\ FulfilInv' /\ [OrderNext]_allVars => [Promise!FulfilNext]_(Promise!fulfilVars)
  BY StepMaps DEF Maps, Promise!FulfilNext
<1>4. QED
  BY <1>1, <1>2, <1>3, PTL DEF OrderSpec, FulfilsPromise, Promise!FulfilSpec

-----------------------------------------------------------------------------
(* Flows and the methods they run: what a step of the whole does to the     *)
(* inventory.                                                               *)

Calling == {"reserving", "committing", "clearing"}
CalledAt(label) == IF label = "reserving" THEN "reserve"
                   ELSE IF label = "committing" THEN "commit" ELSE "release"

\* A process runs a method for its flow, or its flow is between two methods.
Tie(c) ==
  /\ flow[c].at = "idle" => op[c].kind \notin {"reserve", "commit"}
  /\ flow[c].at \notin Calling \cup {"idle"} => Free(c)
  /\ flow[c].at \in Calling =>
       Free(c) \/ (op[c].kind = CalledAt(flow[c].at) /\ op[c].order = flow[c].order)
  /\ flow[c].at = "reserving" /\ At(c, "ok") => progress[flow[c].order] = "reserved"

\* The labels behind the reservation, and the one behind its attempt.
Reserved == {"razorpay", "keepttl", "attempt", "abandon"}

\* Whoever deals with a payment of an order finds its reservation made.
Early ==
  /\ \A c \in Procs :
       flow[c].at \in Reserved => progress[flow[c].order] = "reserved"
  /\ \A o \in Orders :
       /\ attempt[o] # "none" \/ doc[o] # "absent" => progress[o] = "reserved"
       /\ progress[o] = "reserved" => mirror[o] # "none"

TieInv == (\A c \in Procs : Tie(c)) /\ Early

\* All that is known of the composition.
Known == TypesInv /\ ClaimInv /\ RecordInv /\ TypeInv /\ LifeInv /\ TieInv

\* The inventory as it was, or a call to it.
InventoryRests == UNCHANGED <<shared, history, age, calls, crashes, progress>>

LEMMA RunningIsWorking ==
  ASSUME TypeInv, LifeInv, NEW c \in Procs
  PROVE  /\ Free(c) \/ op[c].at \in Working
         /\ op[c].kind = "none" => op[c].order = NoOrder
         /\ op[c].kind # "none" => op[c].order \in Orders
<1>1. Stage(c) /\ op[c] \in OpType
  BY DEF LifeInv, Own, TypeInv, OpOK
<1>2. op[c].kind \in Kinds
  BY <1>1 DEF OpType
<1>3. op[c].kind # "none" => op[c].at \in Working
  BY <1>1, <1>2 DEF Stage, Kinds, OpType, Reserving, GivingBack, Working, Labels
<1>4. QED
  BY <1>1, <1>3 DEF Stage, Free, OpType

\* A flow takes a step of its own only between methods.
LEMMA FlowIsFree ==
  ASSUME TypeInv, LifeInv, NEW c \in Procs, Tie(c), FlowStep(c)
  PROVE  Free(c) /\ flow[c].at # "idle"
<1>1. At(c, "ok") \/ At(c, "failed") => Free(c)
  BY RunningIsWorking DEF At, Working
<1>2. CASE WritePendingOrder(c)
  BY <1>1, <1>2 DEF WritePendingOrder, In, Tie, Calling
<1>3. CASE CommitReturned(c) \/ DeletePendingOrder(c)
  BY <1>3 DEF CommitReturned, DeletePendingOrder, In
<1>4. CASE \/ CreateRazorpayOrder(c) \/ RecordAttempt(c)
           \/ FindOrder(c) \/ GetPendingOrder(c) \/ FindOrderAgain(c)
           \/ LoadSnapshot(c) \/ AmountMatches(c) \/ LookupRaises(c) \/ UpsertOrder(c)
           \/ Claim(c) \/ Announce(c) \/ MarkResolved(c)
           \/ MarkDone(c) \/ AlreadyProcessed(c) \/ AbandonAttempt(c)
  <2>1. flow[c].at \notin Calling \cup {"idle"}
    BY <1>4 DEF CreateRazorpayOrder, RecordAttempt, FindOrder, GetPendingOrder, FindOrderAgain,
       LoadSnapshot, AmountMatches, LookupRaises, UpsertOrder, Claim, Announce, MarkResolved,
       MarkDone, AlreadyProcessed, AbandonAttempt, In, Calling, Duties
  <2>2. QED
    BY <2>1 DEF Tie
<1>5. QED
  BY <1>2, <1>3, <1>4 DEF FlowStep

\* ... and calls at most one method, for its order.
Calls(c, at, kind, label) ==
  /\ flow[c].at \in at /\ flow'[c].at = label
  /\ flow'[c].order = flow[c].order /\ Call(c, kind, flow[c].order)

LEMMA ProceedCalls ==
  ASSUME TypesInv, NEW c \in Procs, Proceed(c), NEW at, flow[c].at \in at, "idle" \notin at
  PROVE  \/ op' = op /\ flow'[c].at \notin Calling
         \/ Calls(c, at, "release", "clearing")
<1>1. CASE flow[c].late
  <2>1. ReturnStatus(c) /\ op' = op
    BY <1>1 DEF Proceed
  <2>2. flow'[c].at \in {"idle", "already"}
    BY <2>1, ReturnStatusOK DEF FlowMoves
  <2>3. QED
    BY <2>1, <2>2 DEF Calling
<1>2. CASE ~flow[c].late
  <2>1. Enter(c, "clearing") /\ Call(c, "release", flow[c].order)
    BY <1>2 DEF Proceed, FlowOrder
  <2>2. FlowMoves(c, {"clearing"})
    BY <2>1, EnterOK DEF TypesInv, FlowLabels
  <2>3. QED
    BY <2>1, <2>2 DEF FlowMoves, Calls
<1>3. QED
  BY <1>1, <1>2

LEMMA FlowStepCalls ==
  ASSUME TypesInv, NEW c \in Procs, FlowStep(c)
  PROVE  /\ InventoryRests
         /\ \/ op' = op /\ flow'[c].at \notin Calling
            \/ Calls(c, {"find", "claim", "done"}, "release", "clearing")
            \/ Claim(c) /\ Claimable(flow[c].order) /\ Calls(c, {"claim"}, "commit", "committing")
<1> USE DEF InventoryRests, envUnchanged
<1>1. flow \in [Procs -> FlowType]
  BY DEF TypesInv, FlowsOK
<1>2. ASSUME flow[c].at # "idle", NEW label \in FlowLabels, Enter(c, label)
      PROVE  flow'[c].at = label /\ flow'[c].order = flow[c].order
  BY <1>1, <1>2 DEF Enter, FlowType
<1>3. ASSUME EndFlow(c) PROVE flow'[c].at = "idle"
  BY <1>1, <1>3 DEF EndFlow, NoFlow
<1>4. ASSUME flow[c].at # "idle", ReturnStatus(c) PROVE flow'[c].at \in {"idle", "already"}
  BY <1>4, ReturnStatusOK DEF FlowMoves
<1>5. CASE \/ WritePendingOrder(c) \/ CreateRazorpayOrder(c) \/ RecordAttempt(c)
  BY <1>2, <1>3, <1>5 DEF WritePendingOrder, CreateRazorpayOrder, RecordAttempt, In, Calling, FlowLabels
<1>6. CASE \/ GetPendingOrder(c) \/ AmountMatches(c) \/ Announce(c) \/ MarkResolved(c)
  <2>1. /\ UNCHANGED <<shared, history, age, calls, crashes, progress, op>> /\ flow[c].at # "idle"
        /\ \/ Enter(c, "verify") \/ Enter(c, "refind") \/ Enter(c, "upsert") \/ Enter(c, "resolve")
           \/ Enter(c, "done") \/ Enter(c, "created") \/ Enter(c, "captured")
    BY <1>6 DEF GetPendingOrder, AmountMatches, Announce, MarkResolved, In, Duties, NextDuty
  <2>2. QED
    BY <1>2, <2>1 DEF Calling, FlowLabels
<1>7. CASE LookupRaises(c) \/ AlreadyProcessed(c) \/ AbandonAttempt(c)
  BY <1>3, <1>7 DEF LookupRaises, Raise, AlreadyProcessed, AbandonAttempt, Calling
<1>8. CASE LoadSnapshot(c) \/ DeletePendingOrder(c)
  BY <1>2, <1>4, <1>8 DEF LoadSnapshot, DeletePendingOrder, In, Calling, FlowLabels
<1>9. CASE FindOrderAgain(c)
  <2>1. /\ UNCHANGED <<shared, history, age, calls, crashes, progress, op>> /\ flow[c].at # "idle"
        /\ Enter(c, "snapshot") \/ ReturnStatus(c)
           \/ flow' = [flow EXCEPT ![c].late = TRUE, ![c].at = "claim"]
    BY <1>9 DEF FindOrderAgain, In
  <2>2. CASE flow' = [flow EXCEPT ![c].late = TRUE, ![c].at = "claim"]
    BY <1>1, <2>1, <2>2 DEF Calling, FlowType
  <2>3. QED
    BY <1>2, <1>4, <2>1, <2>2 DEF Calling, FlowLabels
<1>10. CASE UpsertOrder(c)
  BY <1>1, <1>10 DEF UpsertOrder, Calling, FlowType
<1>11. CASE CommitReturned(c)
  BY <1>2, <1>3, <1>11 DEF CommitReturned, Raise, In, Calling, FlowLabels
<1>12. CASE FindOrder(c)
  <2>1. /\ UNCHANGED <<shared, history, age, calls, crashes, progress>> /\ flow[c].at = "find"
        /\ (Enter(c, "getkey") /\ op' = op) \/ (Enter(c, "claim") /\ op' = op) \/ Proceed(c)
    BY <1>12 DEF FindOrder, PostProcess, In
  <2>2. CASE Proceed(c)
    BY <2>1, <2>2, ProceedCalls
  <2>3. QED
    BY <1>2, <2>1, <2>2 DEF Calling, FlowLabels
<1>13. CASE MarkDone(c)
  <2>1. UNCHANGED <<shared, history, age, calls, crashes, progress>> /\ flow[c].at = "done" /\ Proceed(c)
    BY <1>13 DEF MarkDone, In
  <2>2. QED
    BY <2>1, ProceedCalls
<1>14. CASE Claim(c)
  <2>1. UNCHANGED <<shared, history, age, calls, crashes, progress>> /\ flow[c].at = "claim"
    BY <1>14 DEF Claim, In
  <2>2. CASE Claimable(flow[c].order)
    <3>1. Enter(c, "committing") /\ Call(c, "commit", flow[c].order)
      BY <1>14, <2>2 DEF Claim, FlowOrder
    <3>2. Calls(c, {"claim"}, "commit", "committing")
      BY <1>2, <2>1, <3>1 DEF Calls, FlowLabels
    <3>3. QED
      BY <1>14, <2>1, <2>2, <3>2
  <2>3. CASE ~Claimable(flow[c].order)
    <3>1. Proceed(c)
      BY <1>14, <2>3 DEF Claim, FlowOrder
    <3>2. QED
      BY <2>1, <3>1, ProceedCalls
  <2>4. QED
    BY <2>2, <2>3
<1>15. QED
  BY <1>5, <1>6, <1>7, <1>8, <1>9, <1>10, <1>11, <1>12, <1>13, <1>14 DEF FlowStep

\* No flow gets behind the reservation, nor an order its attempt or document,
\* without it.
LEMMA FlowStepEarly ==
  ASSUME TypesInv, NEW c \in Procs, FlowStep(c)
  PROVE  /\ flow'[c].at \in Reserved =>
              \/ flow[c].at \in Reserved
              \/ flow[c].at = "reserving" /\ At(c, "ok")
         /\ \A o \in Orders :
              attempt'[o] # "none" \/ doc'[o] # "absent" =>
                \/ attempt[o] # "none" \/ doc[o] # "absent"
                \/ o = flow[c].order /\ flow[c].at \in Completing \cup Reserved
<1> DEFINE early == \/ flow[c].at \in Reserved
                    \/ flow[c].at = "reserving" /\ At(c, "ok")
           made == \A o \in Orders :
                     attempt'[o] # "none" \/ doc'[o] # "absent" =>
                       \/ attempt[o] # "none" \/ doc[o] # "absent"
                       \/ o = flow[c].order /\ flow[c].at \in Completing \cup Reserved
<1>1. flow \in [Procs -> FlowType]
  BY DEF TypesInv, FlowsOK
<1>2. ASSUME NEW label, Enter(c, label) PROVE flow'[c].at = label
  BY <1>1, <1>2 DEF Enter, FlowType
<1>3. EndFlow(c) \/ ReturnStatus(c) \/ Raise(c) \/ Proceed(c) => flow'[c].at \notin Reserved
  <2>1. EndFlow(c) => flow'[c].at \notin Reserved
    BY <1>1 DEF EndFlow, NoFlow, Reserved
  <2>2. Enter(c, "already") \/ Enter(c, "clearing") => flow'[c].at \notin Reserved
    BY <1>2 DEF Reserved
  <2>3. QED
    BY <2>1, <2>2 DEF ReturnStatus, Raise, Proceed
<1>4. UNCHANGED <<attempt, doc>> => made
  OBVIOUS
<1> HIDE DEF made
<1>5. CASE WritePendingOrder(c) \/ CreateRazorpayOrder(c)
  <2>1. UNCHANGED <<attempt, doc>>
    BY <1>5 DEF WritePendingOrder, CreateRazorpayOrder
  <2>2. EndFlow(c) \/ early
    BY <1>5 DEF WritePendingOrder, CreateRazorpayOrder, In, Reserved
  <2>3. QED
    BY <1>3, <1>4, <2>1, <2>2 DEF made
<1>6. CASE RecordAttempt(c) \/ AbandonAttempt(c) \/ AlreadyProcessed(c)
  <2>1. flow'[c].at \notin Reserved /\ doc' = doc
    BY <1>3, <1>6 DEF RecordAttempt, AbandonAttempt, AlreadyProcessed
  <2>2. CASE RecordAttempt(c) \/ AbandonAttempt(c)
    <3>1. flow[c].at \in Reserved /\ \E a : attempt' = [attempt EXCEPT ![flow[c].order] = a]
      BY <2>2 DEF RecordAttempt, AbandonAttempt, In, FlowOrder, Reserved
    <3>2. made
      BY <2>1, <3>1 DEF made, TypesInv, RecordsOK
    <3>3. QED
      BY <2>1, <3>2 DEF made
  <2>3. CASE AlreadyProcessed(c)
    <3>1. attempt' = Resolved(attempt, flow[c].order)
      BY <2>3 DEF AlreadyProcessed, FlowOrder
    <3>2. made
      BY <2>1, <3>1 DEF made, TypesInv, RecordsOK, Resolved
    <3>3. QED
      BY <2>1, <3>2 DEF made
  <2>4. QED
    BY <1>6, <2>2, <2>3
<1>7. CASE \/ FindOrder(c) \/ GetPendingOrder(c) \/ LoadSnapshot(c)
           \/ AmountMatches(c) \/ LookupRaises(c) \/ DeletePendingOrder(c) \/ Announce(c)
           \/ CommitReturned(c)
  <2>1. UNCHANGED <<attempt, doc>>
    BY <1>7 DEF FindOrder, GetPendingOrder, LoadSnapshot, AmountMatches, LookupRaises,
       DeletePendingOrder, Announce, CommitReturned
  <2>2. \/ ReturnStatus(c) \/ Raise(c) \/ Proceed(c)
        \/ Enter(c, "claim") \/ Enter(c, "getkey") \/ Enter(c, "verify") \/ Enter(c, "refind")
        \/ Enter(c, "upsert") \/ Enter(c, "created") \/ Enter(c, "captured")
        \/ Enter(c, "resolve") \/ Enter(c, "alert")
    BY <1>7 DEF FindOrder, GetPendingOrder, LoadSnapshot, AmountMatches, LookupRaises,
       DeletePendingOrder, Announce, CommitReturned, PostProcess, Duties, NextDuty
  <2>3. flow'[c].at \notin Reserved
    BY <1>2, <1>3, <2>2 DEF Reserved
  <2>4. QED
    BY <1>4, <2>1, <2>3 DEF made
<1>8. CASE FindOrderAgain(c)
  <2>1. UNCHANGED <<attempt, doc>>
    BY <1>8 DEF FindOrderAgain
  <2>2. \/ ReturnStatus(c) \/ Enter(c, "snapshot")
        \/ flow' = [flow EXCEPT ![c].late = TRUE, ![c].at = "claim"]
    BY <1>8 DEF FindOrderAgain
  <2>3. flow'[c].at \notin Reserved
    <3>1. CASE flow' = [flow EXCEPT ![c].late = TRUE, ![c].at = "claim"]
      BY <1>1, <3>1 DEF Reserved, FlowType
    <3>2. QED
      BY <1>2, <1>3, <2>2, <3>1 DEF Reserved
  <2>4. QED
    BY <1>4, <2>1, <2>3 DEF made
<1>9. CASE UpsertOrder(c) \/ MarkDone(c) \/ MarkResolved(c)
  <2>1. CASE UpsertOrder(c)
    <3>1. /\ flow'[c].at = "claim" /\ flow[c].at = "upsert" /\ attempt' = attempt
          /\ doc' = [doc EXCEPT ![flow[c].order] = IF @ = "absent" THEN "pending" ELSE @]
      BY <2>1, UpsertOK
    <3>2. made
      BY <3>1 DEF made, TypesInv, RecordsOK, Completing
    <3>3. QED
      BY <3>1, <3>2 DEF made, Reserved
  <2>2. CASE MarkDone(c)
    <3>1. /\ Proceed(c) /\ flow[c].at = "done" /\ attempt' = attempt
          /\ doc' = [doc EXCEPT ![flow[c].order] = "done"]
      BY <2>2 DEF MarkDone, In, FlowOrder
    <3>2. made
      BY <3>1 DEF made, TypesInv, RecordsOK, Completing
    <3>3. QED
      BY <1>3, <3>1, <3>2 DEF made
  <2>3. CASE MarkResolved(c)
    <3>1. /\ flow'[c].at = "done" /\ doc' = doc /\ attempt' = Resolved(attempt, flow[c].order)
      BY <2>3, MarkResolvedOK
    <3>2. made
      BY <3>1 DEF made, TypesInv, RecordsOK, Resolved
    <3>3. QED
      BY <3>1, <3>2 DEF made, Reserved
  <2>4. QED
    BY <1>9, <2>1, <2>2, <2>3
<1>10. CASE Claim(c)
  <2>1. /\ flow[c].at = "claim" /\ attempt' = attempt
        /\ Proceed(c) \/ Enter(c, "committing")
        /\ \/ doc' = doc
           \/ doc' = [doc EXCEPT ![flow[c].order] = "in_progress"]
    BY <1>10 DEF Claim, In, FlowOrder
  <2>2. made
    BY <2>1 DEF made, TypesInv, RecordsOK, Completing
  <2>3. QED
    BY <1>2, <1>3, <2>1, <2>2 DEF made, Reserved
<1>11. QED
  BY <1>5, <1>6, <1>7, <1>8, <1>9, <1>10 DEF FlowStep

-----------------------------------------------------------------------------
(* What a command of a method does to the method and to the orders.        *)

\* A command keeps its method at work, or ends it.
LEMMA MethodMoves ==
  ASSUME TypeInv, LifeInv, NEW p \in Procs, Step(p)
  PROVE  /\ OthersAsWere(p) /\ op[p].at \in Working /\ ~Free(p)
         /\ \/ op'[p].kind = op[p].kind /\ op'[p].order = op[p].order
            \/ Over(p) /\ op'[p].at \in {"ok", "failed"}
<1>1. op \in [Procs -> OpType] /\ op[p].from \in {"none", "redis", "mirror"}
  BY DEF TypeInv, OpOK, OpType
<1>2. OthersAsWere(p)
  BY <1>1, StepMovesOne DEF OthersAsWere
<1>3. op[p].at \in Working
  BY DEF Step, ReadEntry, AcquireProductLock, CheckPending, IncrPending, ReleaseProductLock,
     WriteReservationKey, WriteMirror, WriteFails, DecrPending, DeletePending, LoadReservation,
     ClaimMirror, TakeStock, DeleteReservationKey, ResolveAfterwards, Restock, At, Working, Labels
<1>4. ~Free(p)
  BY <1>3, Before DEF Free
<1>5. ASSUME Same(p) PROVE op'[p].kind = op[p].kind /\ op'[p].order = op[p].order
  BY <1>5 DEF Same
<1>6. ASSUME NEW x, op' = [op EXCEPT ![p].from = x, ![p].at = Work(p)]
      PROVE  op'[p].kind = op[p].kind /\ op'[p].order = op[p].order
  BY <1>1, <1>6 DEF OpType
<1>7. ASSUME Return(p, "ok") \/ Return(p, "failed")
      PROVE  Over(p) /\ op'[p].at \in {"ok", "failed"}
  BY <1>1, <1>7, ReturnDoes
<1>8. CASE \/ AcquireProductLock(p) \/ CheckPending(p) \/ IncrPending(p)
           \/ ReleaseProductLock(p) \/ WriteReservationKey(p)
           \/ WriteFails(p) \/ DecrPending(p) \/ DeletePending(p)
  <2>1. Same(p)
    BY <1>1, <1>8, GotoMoves, UndoMoves, NextLineMoves
       DEF AcquireProductLock, CheckPending, IncrPending, ReleaseProductLock,
           WriteReservationKey, WriteFails, DecrPending, DeletePending, AfterLine
  <2>2. QED
    BY <1>2, <1>3, <1>4, <1>5, <2>1
<1>9. CASE ReadEntry(p)
  <2>1. op'[p].kind = op[p].kind /\ op'[p].order = op[p].order
    BY <1>1, <1>9 DEF ReadEntry, OpType
  <2>2. QED
    BY <1>2, <1>3, <1>4, <2>1
<1>10. CASE WriteMirror(p) \/ ResolveAfterwards(p) \/ LoadReservation(p) \/ ClaimMirror(p)
  <2>1. \/ Return(p, "ok") \/ Goto(p, "claim")
        \/ \E x : op' = [op EXCEPT ![p].from = x, ![p].at = Work(p)]
    BY <1>10 DEF WriteMirror, ResolveAfterwards, LoadReservation, ClaimMirror
  <2>2. QED
    BY <1>1, <1>2, <1>3, <1>4, <1>5, <1>6, <1>7, <2>1, GotoMoves
<1>11. CASE TakeStock(p) \/ Restock(p) \/ DeleteReservationKey(p)
  <2>1. \/ Return(p, "ok") \/ Return(p, "failed") \/ Goto(p, "resolve")
        \/ NextLineOr(p, "take", "decr") \/ NextLineOr(p, "restock", "ok")
    BY <1>1, <1>11 DEF TakeStock, AfterTaking, Restock, DeleteReservationKey
  <2>2. QED
    BY <1>1, <1>2, <1>3, <1>4, <1>5, <1>7, <2>1, GotoMoves, NextLineMoves
<1>12. QED
  BY <1>8, <1>9, <1>10, <1>11 DEF Step

\* What a reserve, a commit and a release may do to their order.
LEMMA MethodTouches ==
  ASSUME TypeInv, LifeInv, NEW p \in Procs, MethodStep(p), NEW x \in Orders
  PROVE  /\ op[p].order # x => /\ hold'[x] = hold[x] /\ taken'[x] = taken[x]
                               /\ mirror'[x] = mirror[x] /\ progress'[x] = progress[x]
         /\ op[p].order = x /\ op[p].kind = "reserve" =>
              /\ taken'[x] = taken[x] /\ progress[x] = "asked"
              /\ \/ mirror'[x] = mirror[x]
                 \/ mirror[x] = "none" /\ mirror'[x] = "reserved"
              /\ \/ progress'[x] = progress[x]
                 \/ progress'[x] = "reserved" /\ mirror'[x] # "none"
         /\ op[p].order = x /\ op[p].kind = "release" =>
              /\ taken'[x] = taken[x] /\ hold'[x] \subseteq hold[x] /\ progress'[x] = progress[x]
              /\ \/ mirror'[x] = mirror[x]
                 \/ mirror[x] = "reserved" /\ mirror'[x] = "released"
         /\ op[p].order = x /\ op[p].kind = "commit" => progress'[x] = progress[x]
         /\ op[p].order = x /\ op[p].kind \in {"sell", "restock"} => x \in CodOrders
<1> DEFINE o == op[p].order
           Data == /\ o # x => hold'[x] = hold[x] /\ taken'[x] = taken[x] /\ mirror'[x] = mirror[x]
                   /\ o = x /\ op[p].kind = "reserve" =>
                        /\ taken'[x] = taken[x]
                        /\ \/ mirror'[x] = mirror[x]
                           \/ mirror[x] = "none" /\ mirror'[x] = "reserved"
                   /\ o = x /\ op[p].kind = "release" =>
                        /\ taken'[x] = taken[x] /\ hold'[x] \subseteq hold[x]
                        /\ \/ mirror'[x] = mirror[x]
                           \/ mirror[x] = "reserved" /\ mirror'[x] = "released"
           Ending == op[p].kind = "reserve" /\ op'[p].at = "ok" => mirror'[o] # "none"
<1>1. /\ op \in [Procs -> OpType] /\ op[p] \in OpType /\ o \in Orders /\ Stage(p) /\ Sees(p)
      /\ op[p].at \in Working
      /\ op[p].at \in Reserving => op[p].kind = "reserve"
      /\ op[p].at \in GivingBack => op[p].kind \in {"reserve", "commit", "release"}
      /\ op[p].at \in {"load", "claim", "resolve"} => op[p].kind \in {"commit", "release"}
      /\ op[p].at = "take" => op[p].kind \in {"commit", "sell"}
      /\ op[p].at = "restock" => op[p].kind = "restock"
  <2>1. op[p].at \in Working
    BY MethodMoves DEF MethodStep
  <2>2. QED
    BY <2>1, Before, KindsAt
<1>2. /\ progress \in [Orders -> Progress] /\ hold \in [Orders -> SUBSET Nat]
      /\ mirror \in [Orders -> MirrorStatus] /\ taken \in [Orders -> Int]
  BY MethodKeeps
<1>3. Step(p)
  BY DEF MethodStep
<1> HIDE DEF o
<1>4. Data /\ Ending
  <2>1. CASE \/ ReadEntry(p) \/ AcquireProductLock(p) \/ CheckPending(p) \/ ReleaseProductLock(p)
             \/ WriteReservationKey(p) \/ DeletePending(p) \/ LoadReservation(p)
    <3>1. hold' = hold /\ taken' = taken /\ mirror' = mirror
      BY <2>1 DEF ReadEntry, AcquireProductLock, CheckPending, ReleaseProductLock,
         WriteReservationKey, DeletePending, LoadReservation, shared, history
    <3>2. op[p].kind = "reserve" => op'[p].at # "ok"
      <4>1. CASE \/ AcquireProductLock(p) \/ CheckPending(p) \/ ReleaseProductLock(p)
                 \/ WriteReservationKey(p) \/ DeletePending(p)
        BY <1>1, <4>1, GotoMoves, UndoMoves, NextLineMoves
           DEF AcquireProductLock, CheckPending, ReleaseProductLock, WriteReservationKey,
               DeletePending, AfterLine
      <4>2. CASE ReadEntry(p)
        BY <1>1, <4>2 DEF ReadEntry, OpType
      <4>3. CASE LoadReservation(p)
        BY <1>1, <4>3 DEF LoadReservation, At
      <4>4. QED
        BY <2>1, <4>1, <4>2, <4>3
    <3>3. QED
      BY <3>1, <3>2
  <2>2. CASE DeleteReservationKey(p)
    <3>1. hold' = hold /\ taken' = taken /\ mirror' = mirror
      BY <2>2 DEF DeleteReservationKey, history
    <3>2. op[p].kind = "reserve" => Return(p, "failed")
      BY <1>1, <2>2 DEF DeleteReservationKey, Stage
    <3>3. QED
      BY <1>1, <3>1, <3>2, ReturnMoves
  <2>3. CASE IncrPending(p)
    <3>1. /\ op[p].kind = "reserve" /\ Goto(p, "unlock") /\ taken' = taken /\ mirror' = mirror
          /\ hold' = [hold EXCEPT ![o] = @ \cup {op[p].i}]
      BY <1>1, <2>3 DEF IncrPending, At, Reserving, o
    <3>2. QED
      BY <1>1, <1>2, <3>1, GotoMoves
  <2>4. CASE WriteMirror(p) \/ WriteFails(p)
    <3>1. op[p].kind = "reserve" /\ hold' = hold /\ taken' = taken
      BY <1>1, <2>4 DEF WriteMirror, WriteFails, At, Reserving, history
    <3>2. \/ mirror' = mirror /\ ~WriteMirror(p)
          \/ mirror' = [mirror EXCEPT ![o] = IF @ = "none" THEN "reserved" ELSE @]
      BY <2>4 DEF WriteMirror, WriteFails, At, o
    <3>3. ~WriteMirror(p) => op'[p].at # "ok"
      BY <1>1, <2>4, UndoMoves DEF WriteFails
    <3>4. WriteMirror(p) => mirror'[o] # "none"
      BY <1>1, <1>2, <3>2
    <3>5. QED
      BY <1>2, <3>1, <3>2, <3>3, <3>4
  <2>5. CASE DecrPending(p)
    <3>1. /\ taken' = taken /\ mirror' = mirror
          /\ hold' = [hold EXCEPT ![o] = @ \ {op[p].i}]
          /\ Goto(p, "zap") \/ NextLineOr(p, "decr", "delkey")
      BY <2>5 DEF DecrPending, o, AfterLine
    <3>2. QED
      BY <1>1, <1>2, <3>1, GotoMoves, NextLineMoves
  <2>6. CASE ClaimMirror(p) \/ ResolveAfterwards(p)
    <3>1. /\ op[p].kind \in {"commit", "release"} /\ hold' = hold /\ taken' = taken
          /\ mirror' = ResolveMirror(mirror, o, Resolution(p))
      BY <1>1, <2>6 DEF ClaimMirror, ResolveAfterwards, At, history, o
    <3>2. op[p].kind = "release" => Resolution(p) = "released"
      BY DEF Resolution
    <3>3. QED
      BY <1>2, <3>1, <3>2 DEF ResolveMirror
  <2>7. CASE TakeStock(p)
    <3>1. /\ op[p].kind \in {"commit", "sell"} /\ hold' = hold /\ mirror' = mirror
          /\ taken' = taken \/ taken' = [taken EXCEPT ![o] = @ + 1]
      BY <1>1, <2>7 DEF TakeStock, At, o
    <3>2. QED
      BY <1>2, <3>1
  <2>8. CASE Restock(p)
    <3>1. /\ op[p].kind = "restock" /\ hold' = hold /\ mirror' = mirror
          /\ taken' = [taken EXCEPT ![o] = @ - 1]
      BY <1>1, <2>8 DEF Restock, At, o
    <3>2. QED
      BY <1>2, <3>1
  <2>9. QED
    BY <1>3, <2>1, <2>2, <2>3, <2>4, <2>5, <2>6, <2>7, <2>8 DEF Step
<1>5. /\ o # x => progress'[x] = progress[x]
      /\ op[p].kind \in {"commit", "release"} => progress'[x] = progress[x]
      /\ o = x /\ op[p].kind = "reserve" =>
           progress'[x] = progress[x] \/ (progress'[x] = "reserved" /\ op'[p].at = "ok")
  BY <1>1, <1>2 DEF MethodStep, Answer, o
<1> HIDE DEF Data, Ending
<1>6. /\ op[p].kind = "reserve" => progress[o] = "asked"
      /\ op[p].kind \in {"sell", "restock"} => o \in CodOrders
  BY <1>1 DEF Sees, o
<1>7. QED
  BY <1>4, <1>5, <1>6 DEF Data, Ending, o

-----------------------------------------------------------------------------
(* The inventory under the flows: a step of the whole is a step of          *)
(* Inventory, a call for a reservation that was made, or the death of a     *)
(* process between two methods.                                            *)

CallStep(c, o, kind) ==
  /\ Free(c) /\ progress[o] = "reserved" /\ Call(c, kind, o) /\ InventoryRests

DeathStep(c) ==
  /\ Free(c) /\ Return(c, "idle") /\ crashes < MaxCrashes /\ crashes' = crashes + 1
  /\ UNCHANGED <<shared, history, age, calls, progress>>

\* Who completes an order has its reservation behind him.
LEMMA CompletersReserved ==
  ASSUME Known, NEW c \in Procs, flow[c].at \in Completing \cup Reserved
  PROVE  flow[c].order \in Orders /\ progress[flow[c].order] = "reserved"
<1>1. flow[c].order \in Orders
  BY DEF Known, TypesInv, FlowsOK, Completing, Reserved
<1>2. CASE flow[c].at \in Completing
  <2>1. attempt[flow[c].order] # "none"
    BY <1>2 DEF Known, RecordInv
  <2>2. QED
    BY <1>1, <2>1 DEF Known, TieInv, Early
<1>3. CASE flow[c].at \in Reserved
  BY <1>1, <1>3 DEF Known, TieInv, Early
<1>4. QED
  BY <1>2, <1>3

LEMMA FlowStepRests ==
  ASSUME Known, NEW c \in Procs, FlowStep(c)
  PROVE  \/ UNCHANGED invVars
         \/ \E o \in Orders, kind \in {"commit", "release"} : CallStep(c, o, kind)
<1>1. TypesInv /\ TypeInv /\ LifeInv /\ Tie(c)
  BY DEF Known, TieInv
<1>2. Free(c) /\ InventoryRests
  BY <1>1, FlowIsFree, FlowStepCalls
<1>3. CASE op' = op
  BY <1>2, <1>3 DEF InventoryRests, invVars, shared, history
<1>4. ASSUME NEW kind \in {"commit", "release"}, NEW label, Calls(c, {"find", "claim", "done"}, kind, label)
      PROVE  \E o \in Orders : CallStep(c, o, kind)
  <2>1. flow[c].at \in Completing \cup Reserved
    BY <1>4 DEF Calls, Completing
  <2>2. flow[c].order \in Orders /\ progress[flow[c].order] = "reserved"
    BY <2>1, CompletersReserved
  <2>3. CallStep(c, flow[c].order, kind)
    BY <1>2, <1>4, <2>2 DEF Calls, CallStep
  <2>4. QED
    BY <2>2, <2>3
<1>5. Calls(c, {"claim"}, "commit", "committing") => Calls(c, {"find", "claim", "done"}, "commit", "committing")
  BY DEF Calls
<1>6. \/ op' = op
      \/ Calls(c, {"find", "claim", "done"}, "release", "clearing")
      \/ Calls(c, {"claim"}, "commit", "committing")
  BY <1>1, FlowStepCalls
<1>7. QED
  BY <1>3, <1>4, <1>5, <1>6

LEMMA InventoryCases ==
  ASSUME Known, [OrderNext]_allVars
  PROVE  \/ [Next]_invVars
         \/ \E c \in Procs, o \in Orders, kind \in {"commit", "release"} : CallStep(c, o, kind)
         \/ \E c \in Procs : DeathStep(c)
<1>1. ASSUME NEW c \in Procs, NEW o \in Orders, StartInitiate(c, o) PROVE Next
  <2>1. Begin(c, o)
    BY <1>1 DEF StartInitiate, Begin, NoFlowOf, OnlineOrders, envUnchanged
  <2>2. QED
    BY <2>1 DEF Next
<1>2. ASSUME NEW c \in Procs, FlowCrash(c) PROVE Next \/ DeathStep(c)
  <2>1. Free(c) => DeathStep(c)
    BY <1>2 DEF FlowCrash, DeathStep
  <2>2. ~Free(c) => Crash(c)
    BY <1>2 DEF FlowCrash, Crash
  <2>3. QED
    BY <2>1, <2>2 DEF Next
<1>3. ASSUME NEW c \in Procs, InventoryStep(c) PROVE Next
  BY <1>3 DEF InventoryStep, Next
<1>4. ASSUME NEW c \in Procs, NEW o \in Orders, SweepStep(c, o) \/ CodStep(c, o) PROVE Next
  BY <1>4 DEF SweepStep, CodStep, Next
<1>5. ASSUME NEW c \in Procs, NEW o \in Orders,
             LookUpPayment(c, o) \/ \E source \in Sources : StartComplete(c, o, source)
      PROVE  UNCHANGED invVars
  BY <1>5 DEF LookUpPayment, StartComplete, envUnchanged, shared, history, invVars
<1>6. ASSUME NEW o \in Orders, Pay(o) \/ ClaimGoesStale(o) \/ ExpirePendingOrder(o)
      PROVE  UNCHANGED invVars
  BY <1>6 DEF Pay, ClaimGoesStale, ExpirePendingOrder
<1>7. ASSUME NEW o \in Orders, TimeStep(o) PROVE Next
  BY <1>7 DEF TimeStep, Next
<1>8. ASSUME NEW r \in Rows, LockStep(r) PROVE Next
  BY <1>8 DEF LockStep, Next
<1>9. CASE UNCHANGED allVars
  BY <1>9 DEF allVars
<1>10. QED
  BY <1>1, <1>2, <1>3, <1>4, <1>5, <1>6, <1>7, <1>8, <1>9, FlowStepRests DEF OrderNext

LEMMA InventoryKept ==
  ASSUME Known, [OrderNext]_allVars
  PROVE  TypeInv' /\ LifeInv' /\ (Counted => Counted')
<1>1. TypeInv /\ LifeInv
  BY DEF Known
<1>2. CASE [Next]_invVars
  BY <1>1, <1>2, TypeNext, LifeNext, CountedNext
<1>3. ASSUME NEW c \in Procs, NEW o \in Orders, NEW kind \in {"commit", "release"}, CallStep(c, o, kind)
      PROVE  TypeInv' /\ LifeInv' /\ (Counted => Counted')
  <2>1. /\ Free(c) /\ Call(c, kind, o) /\ progress[o] = "reserved"
        /\ UNCHANGED <<stock, pending, lock, resKey, mirror, hold, taken, age, calls, crashes, progress>>
    BY <1>3 DEF CallStep, InventoryRests, shared, history
  <2>2. LifeInv'
    BY <1>1, <2>1, LifeResolver
  <2>3. OpOK'
    BY <1>1, <2>1, CallOK DEF TypeInv, Kinds
  <2>4. TypeInv'
    BY <1>1, <2>1, <2>3 DEF TypeInv, DataOK, EnvOK
  <2>5. Counted => Counted'
    BY <1>1, <2>1, CountedKept
  <2>6. QED
    BY <2>2, <2>4, <2>5
<1>4. ASSUME NEW c \in Procs, DeathStep(c)
      PROVE  TypeInv' /\ LifeInv' /\ (Counted => Counted')
  <2>1. /\ Free(c) /\ Return(c, "idle") /\ crashes < MaxCrashes /\ crashes' = crashes + 1
        /\ UNCHANGED <<stock, pending, lock, resKey, mirror, hold, taken, age, calls, progress>>
    BY <1>4 DEF DeathStep, shared, history
  <2>2. crashes \in Nat /\ crashes' \in 0 .. MaxCrashes
    BY <1>1, <2>1, BoundAssumption DEF TypeInv, EnvOK
  <2>3. OpOK'
    BY <1>1, <2>1, ReturnOK DEF TypeInv
  <2>4. TypeInv'
    BY <1>1, <2>1, <2>2, <2>3 DEF TypeInv, DataOK, EnvOK
  <2>5. Counted => Counted'
    BY <1>1, <2>1, CountedKept
  <2>6. op \in [Procs -> OpType] /\ Own(c) /\ op[c].kind = "none" /\ op[c].order = NoOrder
    BY <1>1, <2>1 DEF TypeInv, OpOK, LifeInv, Own, Stage, Free
  <2>7. Over(c)
    BY <2>1, <2>6, ReturnDoes
  <2>8. ASSUME NEW p \in Procs PROVE Own(p)' /\ Alone(p)'
    <3>1. op'[p].order = op[p].order
      BY <2>6, <2>7 DEF Over, OthersAsWere
    <3>2. \A q \in Procs : op'[q].order = op[q].order /\ op'[q].kind = op[q].kind
      BY <2>6, <2>7 DEF Over, OthersAsWere
    <3>3. Alone(p)'
      BY <1>1, <3>2 DEF LifeInv, Alone
    <3>4. CASE p = c
      BY <2>7, <3>3, <3>4 DEF Over, Own, Stage, Pass, Sees, Reserving, GivingBack
    <3>5. CASE p # c
      <4>1. op'[p] = op[p] /\ Own(p)
        BY <1>1, <2>7, <3>5 DEF Over, OthersAsWere, LifeInv
      <4>2. QED
        BY <2>1, <3>3, <4>1 DEF Own, Stage, Pass, Sees
    <3>6. QED
      BY <3>4, <3>5
  <2>9. ASSUME NEW x \in Orders PROVE Record(x)'
    <3>1. Unattended(x)' <=> Unattended(x)
      BY <2>6, <2>7 DEF Over, OthersAsWere, Unattended
    <3>2. Record(x)
      BY <1>1 DEF LifeInv
    <3>3. QED
      BY <2>1, <3>1, <3>2 DEF Record, Lines
  <2>10. crashes' # 0
    BY <2>1, <2>2
  <2>11. LifeInv'
    BY <2>8, <2>9, <2>10 DEF LifeInv
  <2>12. QED
    BY <2>4, <2>5, <2>11
<1>5. QED
  BY <1>2, <1>3, <1>4, InventoryCases

-----------------------------------------------------------------------------
(* A reservation that was made stays made, and in the mirror.               *)

LEMMA MirrorStays ==
  ASSUME TypeInv, NEW p \in Procs, Step(p), NEW o \in Orders, mirror[o] # "none"
  PROVE  mirror'[o] # "none"
<1>1. mirror \in [Orders -> MirrorStatus]
  BY DEF TypeInv, DataOK
<1>2. CASE ClaimMirror(p) \/ ResolveAfterwards(p)
  BY <1>1, <1>2 DEF ClaimMirror, ResolveAfterwards, ResolveMirror, Resolution
<1>3. CASE WriteMirror(p) \/ WriteFails(p)
  BY <1>1, <1>3 DEF WriteMirror, WriteFails
<1>4. QED
  BY <1>2, <1>3
     DEF Step, ReadEntry, AcquireProductLock, CheckPending, IncrPending,
         ReleaseProductLock, WriteReservationKey, DecrPending, DeletePending,
         LoadReservation, TakeStock, DeleteReservationKey, Restock, shared

ReservedStays ==
  \A o \in Orders :
    /\ progress[o] = "reserved" => progress'[o] = "reserved"
    /\ progress'[o] = "reserved" => mirror'[o] # "none"

LEMMA ReservedStaysStep ==
  ASSUME Known, [OrderNext]_allVars
  PROVE  ReservedStays
<1>1. /\ TypeInv /\ LifeInv /\ TypeInv' /\ LifeInv'
      /\ \A o \in Orders : progress[o] = "reserved" => mirror[o] # "none"
  BY InventoryKept DEF Known, TieInv, Early
<1>2. UNCHANGED <<progress, mirror>> => ReservedStays
  BY <1>1 DEF ReservedStays
<1>3. ASSUME NEW p \in Procs, MethodStep(p) PROVE ReservedStays
  <2>1. ASSUME NEW o \in Orders
        PROVE  /\ progress[o] = "reserved" => progress'[o] = "reserved"
               /\ progress'[o] = "reserved" => mirror'[o] # "none"
    <3>1. mirror[o] # "none" => mirror'[o] # "none"
      BY <1>1, <1>3, MirrorStays DEF MethodStep
    <3>2. Record(o) /\ Record(o)'
      BY <1>1 DEF LifeInv
    <3>3. o \in CodOrders => progress[o] # "reserved" /\ progress'[o] # "reserved"
      BY <3>2 DEF Record
    <3>4. op[p].kind \in {"reserve", "release", "commit", "sell", "restock"}
      BY <1>1, <1>3, MethodMoves DEF MethodStep, Free, TypeInv, OpOK, OpType, Kinds
    <3>5. op[p].order = o => \/ progress'[o] = progress[o]
                             \/ op[p].kind = "reserve" /\ progress[o] = "asked" /\ mirror'[o] # "none"
                             \/ o \in CodOrders
      BY <1>1, <1>3, <3>4, MethodTouches
    <3>6. op[p].order # o => progress'[o] = progress[o]
      BY <1>1, <1>3, MethodTouches
    <3>7. QED
      BY <1>1, <3>1, <3>3, <3>5, <3>6
  <2>2. QED
    BY <2>1 DEF ReservedStays
<1>4. ASSUME NEW p \in Procs, NEW o \in Orders, Begin(p, o) \/ InsertFailed(p, o)
      PROVE  ReservedStays
  <2>1. /\ progress[o] \in {"new", "sold"} /\ mirror' = mirror
        /\ \/ progress' = [progress EXCEPT ![o] = "asked"]
           \/ progress' = [progress EXCEPT ![o] = "unsold"]
    BY <1>4 DEF Begin, InsertFailed, shared
  <2>2. QED
    BY <1>1, <2>1 DEF ReservedStays, TypeInv, EnvOK
<1>5. QED
  BY <1>2, <1>3, <1>4, InventoryCases
  DEF Next, Crash, Sweep, Finish, LockExpires, Tick, invVars, CallStep, DeathStep, InventoryRests, shared

-----------------------------------------------------------------------------
(* The tie between flows and methods is kept.                               *)

LEMMA TieKept ==
  ASSUME Known, ReservedStays, NEW c \in Procs, flow'[c] = flow[c], op'[c] = op[c]
  PROVE  Tie(c)'
<1>1. Tie(c) /\ (flow[c].at = "reserving" => flow[c].order \in Orders)
  BY DEF Known, TieInv, TypesInv, FlowsOK
<1>2. QED
  BY <1>1 DEF Tie, Free, At, ReservedStays

LEMMA TieMethodStep ==
  ASSUME Known, ReservedStays, NEW p \in Procs, MethodStep(p), flow' = flow
  PROVE  \A c \in Procs : Tie(c)'
<1>1. TypeInv /\ LifeInv /\ Tie(p) /\ Step(p)
  BY DEF Known, TieInv, MethodStep
<1>2. /\ OthersAsWere(p) /\ ~Free(p)
      /\ \/ op'[p].kind = op[p].kind /\ op'[p].order = op[p].order
         \/ Over(p)
  BY <1>1, MethodMoves
<1>3. Tie(p)'
  <2>1. flow[p].at = "reserving" /\ At(p, "ok")' => progress'[flow[p].order] = "reserved"
    <3>1. SUFFICES ASSUME flow[p].at = "reserving", op'[p].at = "ok"
                   PROVE  progress'[flow[p].order] = "reserved"
      BY DEF At
    <3>2. op[p].kind = "reserve" /\ op[p].order = flow[p].order /\ flow[p].order \in Orders
      BY <1>1, <1>2, <3>1 DEF Tie, Calling, CalledAt, Known, TypesInv, FlowsOK
    <3>3. progress' = [progress EXCEPT ![flow[p].order] = "reserved"]
      BY <3>1, <3>2 DEF MethodStep, Answer
    <3>4. QED
      BY <1>1, <3>2, <3>3 DEF TypeInv, EnvOK
  <2>2. flow[p].at \in Calling \cup {"idle"}
    BY <1>1, <1>2 DEF Tie
  <2>3. flow[p].at = "idle" => op'[p].kind \notin {"reserve", "commit"}
    BY <1>1, <1>2 DEF Tie, Over
  <2>4. flow[p].at \in Calling =>
          op'[p].kind = "none" \/ (op'[p].kind = CalledAt(flow[p].at) /\ op'[p].order = flow[p].order)
    BY <1>1, <1>2 DEF Tie, Over, Free
  <2>5. QED
    BY <2>1, <2>2, <2>3, <2>4 DEF Tie, Free
<1>4. ASSUME NEW c \in Procs, c # p PROVE Tie(c)'
  BY <1>2, <1>4, TieKept DEF OthersAsWere
<1>5. QED
  BY <1>3, <1>4

LEMMA TieFlowStep ==
  ASSUME Known, ReservedStays, NEW c \in Procs, FlowStep(c)
  PROVE  \A d \in Procs : Tie(d)'
<1>1. TypesInv /\ TypeInv /\ LifeInv /\ Tie(c) /\ op \in [Procs -> OpType]
  BY DEF Known, TieInv, TypeInv, OpOK
<1>2. Free(c) /\ flow[c].at # "idle" /\ (\A d \in Procs \ {c} : flow'[d] = flow[d])
  BY <1>1, FlowIsFree, FlowStepOf DEF StepOf
<1>3. CASE op' = op /\ flow'[c].at \notin Calling
  <2>1. Tie(c)'
    BY <1>2, <1>3 DEF Tie, Free, Calling
  <2>2. QED
    BY <1>2, <1>3, <2>1, TieKept
<1>4. ASSUME NEW kind, NEW label, NEW at, Calls(c, at, kind, label),
             \/ kind = "release" /\ label = "clearing"
             \/ kind = "commit" /\ label = "committing"
      PROVE  \A d \in Procs : Tie(d)'
  <2>1. /\ op'[c].kind = kind /\ op'[c].order = flow[c].order /\ flow'[c].order = flow[c].order
        /\ flow'[c].at = label /\ OthersAsWere(c)
    BY <1>1, <1>4 DEF Calls, Call, OthersAsWere
  <2>2. Tie(c)'
    BY <1>4, <2>1 DEF Tie, Free, Calling, CalledAt
  <2>3. QED
    BY <1>2, <2>1, <2>2, TieKept DEF OthersAsWere
<1>5. QED
  BY <1>1, <1>3, <1>4, FlowStepCalls

LEMMA TieStartStep ==
  ASSUME Known, ReservedStays, NEW c \in Procs, NEW o \in Orders,
         \/ StartInitiate(c, o) \/ LookUpPayment(c, o)
         \/ \E source \in Sources : StartComplete(c, o, source)
  PROVE  \A d \in Procs : Tie(d)'
<1>1. /\ flow \in [Procs -> FlowType] /\ op \in [Procs -> OpType] /\ Free(c)
  BY DEF Known, TypesInv, FlowsOK, TypeInv, OpOK, StartInitiate, LookUpPayment, StartComplete, NoFlowOf
<1>2. CASE StartInitiate(c, o)
  <2>1. /\ flow'[c].at = "reserving" /\ flow'[c].order = o
        /\ op'[c].kind = "reserve" /\ op'[c].order = o /\ op'[c].at = "read"
        /\ \A d \in Procs \ {c} : flow'[d] = flow[d] /\ op'[d] = op[d]
    BY <1>1, <1>2 DEF StartInitiate, Call, NoFlow, First
  <2>2. Tie(c)'
    BY <2>1 DEF Tie, Calling, CalledAt, At
  <2>3. QED
    BY <2>1, <2>2, TieKept
<1>3. CASE LookUpPayment(c, o) \/ \E source \in Sources : StartComplete(c, o, source)
  <2>1. op' = op /\ flow'[c].at \in {"abandon", "find"} /\ \A d \in Procs \ {c} : flow'[d] = flow[d]
    BY <1>1, <1>3 DEF LookUpPayment, StartComplete, NoFlow
  <2>2. Tie(c)'
    BY <1>1, <2>1 DEF Tie, Calling, Free
  <2>3. QED
    BY <2>1, <2>2, TieKept
<1>4. QED
  BY <1>2, <1>3

\* Calls outside the flows, and the death of a process.
LEMMA TieOutside ==
  ASSUME Known, ReservedStays, NEW p \in Procs, op'[p].kind \notin {"reserve", "commit"},
         flow'[p].at = "idle", OthersAsWere(p), \A d \in Procs \ {p} : flow'[d] = flow[d]
  PROVE  \A d \in Procs : Tie(d)'
<1>1. Tie(p)'
  BY DEF Tie, Calling
<1>2. QED
  BY <1>1, TieKept DEF OthersAsWere

LEMMA TieStep ==
  ASSUME Known, [OrderNext]_allVars
  PROVE  \A d \in Procs : Tie(d)'
<1>1. ReservedStays
  BY ReservedStaysStep
<1>2. op \in [Procs -> OpType] /\ flow \in [Procs -> FlowType]
  BY DEF Known, TypesInv, FlowsOK, TypeInv, OpOK
<1>3. ASSUME NEW p \in Procs, InventoryStep(p) PROVE \A d \in Procs : Tie(d)'
  BY <1>1, <1>3, TieMethodStep DEF InventoryStep, orderVars
<1>4. ASSUME NEW p \in Procs, FlowCrash(p) PROVE \A d \in Procs : Tie(d)'
  <2>1. op'[p].kind = "none" /\ OthersAsWere(p)
    BY <1>2, <1>4 DEF FlowCrash, Return, Ended, OthersAsWere
  <2>2. flow'[p].at = "idle" /\ \A d \in Procs \ {p} : flow'[d] = flow[d]
    BY <1>2, <1>4 DEF FlowCrash, EndFlow, NoFlow
  <2>3. QED
    BY <1>1, <2>1, <2>2, TieOutside
<1>5. ASSUME NEW p \in Procs, NEW o \in Orders, SweepStep(p, o) \/ CodStep(p, o)
      PROVE  \A d \in Procs : Tie(d)'
  <2>1. flow' = flow /\ flow[p].at = "idle"
    BY <1>5 DEF SweepStep, CodStep, NoFlowOf, orderVars
  <2>2. \E kind \in {"release", "sell", "restock"} : Call(p, kind, o)
    BY <1>5 DEF SweepStep, CodStep, Sweep, Begin, InsertFailed
  <2>3. op'[p].kind \notin {"reserve", "commit"} /\ OthersAsWere(p)
    BY <1>2, <2>2 DEF Call, OthersAsWere
  <2>4. QED
    BY <1>1, <2>1, <2>3, TieOutside
<1>6. UNCHANGED <<op, flow>> => \A d \in Procs : Tie(d)'
  BY <1>1, TieKept
<1>7. ASSUME NEW o \in Orders, Pay(o) \/ ClaimGoesStale(o) \/ ExpirePendingOrder(o) \/ TimeStep(o)
      PROVE  UNCHANGED <<op, flow>>
  BY <1>7 DEF Pay, ClaimGoesStale, ExpirePendingOrder, TimeStep, Tick, invVars, orderVars
<1>8. ASSUME NEW r \in Rows, LockStep(r) PROVE UNCHANGED <<op, flow>>
  BY <1>8 DEF LockStep, LockExpires, orderVars
<1>9. CASE UNCHANGED allVars
  BY <1>6, <1>9 DEF allVars, invVars, orderVars
<1>10. ASSUME NEW c \in Procs, FlowStep(c) PROVE \A d \in Procs : Tie(d)'
  BY <1>1, <1>10, TieFlowStep
<1>11. ASSUME NEW c \in Procs, NEW o \in Orders,
              \/ StartInitiate(c, o) \/ LookUpPayment(c, o)
              \/ \E source \in Sources : StartComplete(c, o, source)
       PROVE  \A d \in Procs : Tie(d)'
  BY <1>1, <1>11, TieStartStep
<1>12. QED
  BY <1>3, <1>4, <1>5, <1>6, <1>7, <1>8, <1>9, <1>10, <1>11 DEF OrderNext

LEMMA EarlyStep ==
  ASSUME Known, [OrderNext]_allVars
  PROVE  Early'
<1>1. ReservedStays /\ TypesInv
  BY ReservedStaysStep DEF Known
<1>2. Early
  BY DEF Known, TieInv
<1>3. ASSUME NEW c \in Procs, flow'[c] = flow[c]
      PROVE  flow'[c].at \in Reserved => progress'[flow'[c].order] = "reserved"
  <2>1. flow[c].at \in Reserved => flow[c].order \in Orders
    BY <1>1 DEF TypesInv, FlowsOK, Reserved
  <2>2. QED
    BY <1>1, <1>2, <1>3, <2>1 DEF Early, ReservedStays
<1>4. ASSUME NEW o \in Orders,
             attempt'[o] # "none" \/ doc'[o] # "absent" => attempt[o] # "none" \/ doc[o] # "absent"
      PROVE  attempt'[o] # "none" \/ doc'[o] # "absent" => progress'[o] = "reserved"
  BY <1>1, <1>2, <1>4 DEF Early, ReservedStays
<1>5. ASSUME UNCHANGED <<flow, attempt, doc>> PROVE Early'
  BY <1>1, <1>3, <1>4, <1>5 DEF Early, ReservedStays
<1>6. ASSUME NEW c \in Procs, FlowStep(c) PROVE Early'
  <2>1. /\ \A d \in Procs \ {c} : flow'[d] = flow[d]
        /\ flow'[c].at # "idle" => flow'[c].order = flow[c].order
    BY <1>1, <1>6, FlowStepOf DEF StepOf
  <2>2. flow'[c].at \in Reserved =>
          \/ flow[c].at \in Reserved
          \/ flow[c].at = "reserving" /\ At(c, "ok")
    BY <1>1, <1>6, FlowStepEarly
  <2>3. \A o \in Orders :
          attempt'[o] # "none" \/ doc'[o] # "absent" =>
            \/ attempt[o] # "none" \/ doc[o] # "absent"
            \/ o = flow[c].order /\ flow[c].at \in Completing \cup Reserved
    BY <1>1, <1>6, FlowStepEarly
  <2>4. flow[c].at \in Completing \cup Reserved =>
          flow[c].order \in Orders /\ progress[flow[c].order] = "reserved"
    BY CompletersReserved
  <2>5. flow[c].at = "reserving" /\ At(c, "ok") =>
          flow[c].order \in Orders /\ progress[flow[c].order] = "reserved"
    BY DEF Known, TieInv, Tie, TypesInv, FlowsOK
  <2>6. flow'[c].at \in Reserved => progress'[flow'[c].order] = "reserved"
    <3>1. flow'[c].at \in Reserved => flow'[c].at # "idle"
      BY DEF Reserved
    <3>2. QED
      BY <1>1, <2>1, <2>2, <2>4, <2>5, <3>1 DEF ReservedStays
  <2>7. ASSUME NEW o \in Orders
        PROVE  attempt'[o] # "none" \/ doc'[o] # "absent" => progress'[o] = "reserved"
    BY <1>1, <1>2, <2>3, <2>4 DEF Early, ReservedStays
  <2>8. QED
    BY <1>1, <1>3, <2>1, <2>6, <2>7 DEF Early, ReservedStays
<1>7. ASSUME NEW c \in Procs, NEW o \in Orders,
             \/ StartInitiate(c, o) \/ LookUpPayment(c, o)
             \/ \E source \in Sources : StartComplete(c, o, source)
      PROVE  Early'
  <2>1. /\ UNCHANGED <<attempt, doc>>
        /\ \A d \in Procs \ {c} : flow'[d] = flow[d]
    BY <1>1, <1>7 DEF StartInitiate, LookUpPayment, StartComplete, TypesInv, FlowsOK
  <2>2. flow'[c].at \in Reserved => flow'[c].order = o /\ attempt[o] # "none"
    BY <1>1, <1>7 DEF StartInitiate, LookUpPayment, StartComplete, TypesInv, FlowsOK, NoFlow, Reserved
  <2>3. flow'[c].at \in Reserved => progress'[flow'[c].order] = "reserved"
    BY <1>1, <1>2, <2>2 DEF Early, ReservedStays
  <2>4. QED
    BY <1>1, <1>3, <1>4, <2>1, <2>3 DEF Early, ReservedStays
<1>8. ASSUME NEW c \in Procs, FlowCrash(c) PROVE Early'
  <2>1. /\ UNCHANGED <<attempt, doc>> /\ flow'[c].at \notin Reserved
        /\ \A d \in Procs \ {c} : flow'[d] = flow[d]
    BY <1>1, <1>8 DEF FlowCrash, EndFlow, NoFlow, Reserved, TypesInv, FlowsOK
  <2>2. QED
    BY <1>1, <1>3, <1>4, <2>1 DEF Early, ReservedStays
<1>9. ASSUME NEW p \in Procs, NEW o \in Orders, InventoryStep(p) \/ SweepStep(p, o) \/ CodStep(p, o)
      PROVE  UNCHANGED <<flow, attempt, doc>>
  BY <1>9 DEF InventoryStep, SweepStep, CodStep, orderVars
<1>10. ASSUME NEW o \in Orders, Pay(o) \/ ClaimGoesStale(o) \/ ExpirePendingOrder(o) \/ TimeStep(o)
       PROVE  UNCHANGED <<flow, attempt, doc>>
  BY <1>10 DEF Pay, ClaimGoesStale, ExpirePendingOrder, TimeStep, orderVars
<1>11. ASSUME NEW r \in Rows, LockStep(r) PROVE UNCHANGED <<flow, attempt, doc>>
  BY <1>11 DEF LockStep, orderVars
<1>12. ASSUME NEW p \in Procs, InventoryStep(p) PROVE UNCHANGED <<flow, attempt, doc>>
  BY <1>12 DEF InventoryStep, orderVars
<1>13. CASE UNCHANGED allVars
  BY <1>5, <1>13 DEF allVars, orderVars
<1>14. QED
  BY <1>5, <1>6, <1>7, <1>8, <1>9, <1>10, <1>11, <1>12, <1>13 DEF OrderNext

LEMMA KnownStep ==
  ASSUME Known, [OrderNext]_allVars
  PROVE  Known'
<1>1. TypesInv /\ ClaimInv /\ RecordInv
  BY DEF Known
<1>2. TypesInv' /\ ClaimInv' /\ RecordInv'
  BY <1>1, TypesStep, ClaimInvStep, RecordInvStep
<1>3. QED
  BY <1>2, InventoryKept, TieStep, EarlyStep DEF Known, TieInv

LEMMA KnownInit ==
  ASSUME OrderInit
  PROVE  Known
<1>1. Init /\ TypesInv /\ ClaimInv /\ RecordInv
  BY TypesInit, ClaimInvInit, RecordInvInit DEF OrderInit
<1>2. TypeInv /\ LifeInv
  BY <1>1, TypeInit, LifeInit
<1>3. TieInv
  BY DEF OrderInit, Init, TieInv, Tie, Early, NoFlow, Calling, Free, Ended, Reserved
<1>4. QED
  BY <1>1, <1>2, <1>3 DEF Known

-----------------------------------------------------------------------------
(* What was taken for an order that is being finished.                     *)

Commits(p, o) == op[p].kind = "commit" /\ op[p].order = o

\* How much the commit of o at p has taken, and what the mirror says meanwhile.
Through(p, o) ==
  /\ op[p].at \in {"load", "claim"} => taken[o] = 0 /\ mirror[o] # "committed"
  /\ op[p].at = "take" => taken[o] = op[p].i - 1
  /\ op[p].at \in {"decr", "zap", "delkey", "resolve"} => taken[o] = Len(Cart[o])
  /\ op[p].from = "redis" => mirror[o] # "committed"
  /\ op[p].from = "mirror" => mirror[o] = "committed"

\* The commit of o returned to c, and "done" is not written yet.
Committed(c, o) ==
  /\ flow[c].order = o
  /\ \/ flow[c].at \in {"alert", "created", "captured", "resolve", "done"}
     \/ flow[c].at = "committing" /\ At(c, "ok")

Sold(o) ==
  /\ mirror[o] \in {"committed", "released"}
  /\ mirror[o] = "committed" => hold[o] = {} /\ taken[o] = Len(Cart[o])

Sale(o) ==
  ~reclaimed[o] =>
    /\ taken[o] <= Len(Cart[o])
    /\ doc[o] \in {"absent", "pending"} => taken[o] = 0 /\ mirror[o] # "committed"
    /\ \A p \in Procs : Commits(p, o) => Through(p, o)
    /\ doc[o] = "done" \/ (\E c \in Procs : Committed(c, o)) => Sold(o)

SaleInv == \A o \in OnlineOrders : Sale(o)

\* A commit is that of the claimer.
LEMMA CommitterFinishes ==
  ASSUME Known, NEW p \in Procs, NEW o \in Orders, Commits(p, o)
  PROVE  Finisher(p, o) /\ flow[p].at = "committing"
<1>1. Tie(p) /\ ~Free(p) /\ op[p].kind = "commit" /\ op[p].order = o
  BY DEF Known, TieInv, Commits, Free
<1>2. flow[p].at \in Calling /\ CalledAt(flow[p].at) = "commit" /\ flow[p].order = o
  BY <1>1 DEF Tie
<1>3. flow[p].at = "committing"
  BY <1>2 DEF Calling, CalledAt
<1>4. QED
  BY <1>2, <1>3 DEF Finisher, Finishing

\* As long as no claim was taken over, nobody else is finishing meanwhile.
LEMMA CommitterAlone ==
  ASSUME Known, NEW p \in Procs, NEW o \in Orders, Commits(p, o), ~reclaimed[o]
  PROVE  /\ doc[o] = "in_progress" /\ progress[o] = "reserved" /\ mirror[o] # "none"
         /\ \A c \in Procs : ~Committed(c, o)
         /\ \A q \in Procs : Commits(q, o) => q = p
<1>1. Finisher(p, o) /\ flow[p].at = "committing" /\ flow[p].order = o
  BY CommitterFinishes DEF Finisher
<1>2. OrderClaim(o)
  BY DEF Known, ClaimInv
<1>3. doc[o] = "in_progress" /\ \A c \in Procs : Finisher(c, o) => c = p
  BY <1>1, <1>2 DEF OrderClaim
<1>4. progress[o] = "reserved" /\ mirror[o] # "none"
  BY <1>3 DEF Known, TieInv, Early
<1>5. op[p].at \in Working
  BY RunningIsWorking DEF Known, Commits, Free
<1>6. ASSUME NEW c \in Procs, Committed(c, o) PROVE FALSE
  <2>1. Finisher(c, o)
    BY <1>6 DEF Committed, Finisher, Finishing
  <2>2. c = p
    BY <1>3, <2>1
  <2>3. QED
    BY <1>1, <1>5, <1>6, <2>2 DEF Committed, At, Working
<1>7. \A q \in Procs : Commits(q, o) => q = p
  BY <1>3, CommitterFinishes
<1>8. QED
  BY <1>3, <1>4, <1>6, <1>7

\* Who committed is a finisher.
LEMMA CommittedFinishes ==
  ASSUME Known, NEW c \in Procs, NEW o \in Orders, Committed(c, o)
  PROVE  /\ Finisher(c, o) /\ progress[o] = "reserved" /\ doc[o] \in {"in_progress", "done"}
<1>1. Finisher(c, o)
  BY DEF Committed, Finisher, Finishing
<1>2. doc[o] \in {"in_progress", "done"}
  BY <1>1 DEF Known, ClaimInv, OrderClaim
<1>3. QED
  BY <1>1, <1>2 DEF Known, TieInv, Early

\* Steps of others: the mirror is reserved or released, lines are given back,
\* the order is created or finished.
LEMMA SaleKept ==
  ASSUME Known, Known', NEW o \in Orders, Sale(o),
         ~reclaimed'[o] => ~reclaimed[o],
         taken'[o] = taken[o], hold'[o] \subseteq hold[o] \/ progress[o] # "reserved",
         \/ mirror'[o] = mirror[o]
         \/ mirror[o] = "reserved" /\ mirror'[o] = "released"
         \/ mirror[o] = "none" /\ mirror'[o] = "reserved",
         \/ doc'[o] = doc[o]
         \/ doc[o] = "absent" /\ doc'[o] = "pending"
         \/ doc'[o] = "done" /\ \E c \in Procs : Committed(c, o),
         \A p \in Procs : Commits(p, o)' => Commits(p, o) /\ op'[p] = op[p],
         \A c \in Procs : Committed(c, o)' => Committed(c, o)
  PROVE  Sale(o)'
<1> SUFFICES ASSUME ~reclaimed'[o] PROVE Sale(o)'
  BY DEF Sale
<1>1. /\ ~reclaimed[o] /\ taken[o] <= Len(Cart[o])
      /\ doc[o] \in {"absent", "pending"} => taken[o] = 0 /\ mirror[o] # "committed"
      /\ \A p \in Procs : Commits(p, o) => Through(p, o)
      /\ doc[o] = "done" \/ (\E c \in Procs : Committed(c, o)) => Sold(o)
  BY DEF Sale
<1>2. taken'[o] <= Len(Cart[o])
  BY <1>1
<1>3. doc'[o] \in {"absent", "pending"} => taken'[o] = 0 /\ mirror'[o] # "committed"
  BY <1>1
<1>4. ASSUME NEW p \in Procs, Commits(p, o)' PROVE Through(p, o)'
  <2>1. Commits(p, o) /\ op'[p] = op[p] /\ Through(p, o)
    BY <1>1, <1>4
  <2>2. QED
    BY <2>1 DEF Through
<1>5. ASSUME doc'[o] = "done" \/ (\E c \in Procs : Committed(c, o)') PROVE Sold(o)'
  <2>1. doc[o] = "done" \/ \E c \in Procs : Committed(c, o)
    BY <1>5
  <2>2. Sold(o)
    BY <1>1, <2>1
  <2>3. progress[o] = "reserved"
    BY <2>1, CommittedFinishes DEF Known, TieInv, Early
  <2>4. QED
    BY <2>2, <2>3 DEF Sold
<1>6. QED
  BY <1>2, <1>3, <1>4, <1>5 DEF Sale

\* What the next command of a commit has to establish.
Advances(p, o) ==
  /\ taken'[o] <= Len(Cart[o])
  /\ op'[p].kind = "commit" => Through(p, o)'
  /\ op'[p].at = "ok" => Sold(o)'

LEMMA CommitStep ==
  ASSUME Known, NEW p \in Procs, NEW o \in Orders, Commits(p, o), Through(p, o), MethodStep(p),
         taken[o] <= Len(Cart[o]), mirror[o] # "none"
  PROVE  Advances(p, o)
<1>1. /\ TypeInv /\ LifeInv /\ Step(p) /\ op[p].kind = "commit" /\ op[p].order = o
      /\ op[p].at \in Working
  BY MethodMoves DEF Known, MethodStep, Commits
<1>2. /\ op \in [Procs -> OpType] /\ op[p] \in OpType /\ op[p].i \in Nat /\ op[p].n = Len(Cart[o])
      /\ op[p].n \in Nat /\ op[p].from \in {"none", "redis", "mirror"}
      /\ op[p].from = "none" => op[p].at \in {"load", "claim"} /\ op[p].i = 1
      /\ op[p].from # "none" => op[p].at \in GivingBack \cup {"take", "resolve"}
      /\ op[p].at = "take" => op[p].i \in 1 .. op[p].n
      /\ op[p].at \in {"delkey", "resolve"} => hold[o] = {}
      /\ Len(Cart[o]) \in Nat
  BY <1>1, Before DEF Stage, Pass, LineLabels, OpType
<1>3. /\ hold \in [Orders -> SUBSET Nat] /\ mirror \in [Orders -> MirrorStatus]
      /\ taken \in [Orders -> Int] /\ Work(p) = "take" /\ Resolution(p) = "committed"
  BY <1>1, MethodKeeps DEF Work, Resolution
<1>4. CASE LoadReservation(p)
  <2>1. /\ op[p].at = "load" /\ op[p].from = "none" /\ taken' = taken /\ mirror' = mirror
        /\ \/ op' = [op EXCEPT ![p].from = "redis", ![p].at = "take"]
           \/ Goto(p, "claim")
    BY <1>2, <1>3, <1>4 DEF LoadReservation, At, shared, history, GivingBack
  <2>2. taken[o] = 0 /\ mirror[o] # "committed" /\ op[p].i = 1
    BY <1>2, <2>1 DEF Through
  <2>3. CASE op' = [op EXCEPT ![p].from = "redis", ![p].at = "take"]
    <3>1. op'[p].at = "take" /\ op'[p].from = "redis" /\ op'[p].i = 1
      BY <1>2, <2>2, <2>3 DEF OpType
    <3>2. QED
      BY <1>2, <2>1, <2>2, <3>1 DEF Advances, Through
  <2>4. CASE Goto(p, "claim")
    <3>1. op'[p].at = "claim" /\ op'[p].from = "none"
      BY <1>2, <2>1, <2>4 DEF Goto, OpType
    <3>2. QED
      BY <1>2, <2>1, <2>2, <3>1 DEF Advances, Through
  <2>5. QED
    BY <2>1, <2>3, <2>4
<1>5. CASE ClaimMirror(p)
  <2>1. /\ op[p].at = "claim" /\ op[p].from = "none" /\ taken' = taken
        /\ mirror' = ResolveMirror(mirror, o, "committed")
        /\ IF mirror[o] = "reserved"
           THEN op' = [op EXCEPT ![p].from = "mirror", ![p].at = "take"]
           ELSE Return(p, "ok")
    BY <1>1, <1>2, <1>3, <1>5 DEF ClaimMirror, At, history, GivingBack
  <2>2. taken[o] = 0 /\ mirror[o] # "committed" /\ op[p].i = 1
    BY <1>2, <2>1 DEF Through
  <2>3. CASE mirror[o] = "reserved"
    <3>1. op'[p].at = "take" /\ op'[p].from = "mirror" /\ op'[p].i = 1
      BY <1>2, <2>1, <2>2, <2>3 DEF OpType
    <3>2. mirror'[o] = "committed"
      BY <1>3, <2>1, <2>3 DEF ResolveMirror
    <3>3. QED
      BY <1>2, <2>1, <2>2, <3>1, <3>2 DEF Advances, Through
  <2>4. CASE mirror[o] # "reserved"
    <3>1. op'[p].kind = "none" /\ mirror'[o] = "released"
      BY <1>2, <1>3, <2>1, <2>2, <2>4 DEF Return, Ended, ResolveMirror, MirrorStatus
    <3>2. QED
      BY <1>2, <2>1, <2>2, <3>1 DEF Advances, Sold
  <2>5. QED
    BY <2>3, <2>4
<1>6. CASE TakeStock(p)
  <2>1. op[p].at = "take" /\ taken[o] = op[p].i - 1 /\ mirror' = mirror /\ op[p].i \in 1 .. op[p].n
    BY <1>2, <1>6 DEF TakeStock, At, Through
  <2>2. CASE Return(p, "failed") /\ taken' = taken
    <3>1. op'[p].kind = "none" /\ op'[p].at = "failed"
      BY <1>2, <2>2 DEF Return, Ended
    <3>2. QED
      BY <2>2, <3>1 DEF Advances
  <2>3. CASE NextLineOr(p, "take", "decr") /\ taken' = [taken EXCEPT ![o] = @ + 1]
    <3>1. taken'[o] = op[p].i
      BY <1>2, <1>3, <2>1, <2>3
    <3>2. op'[p].from = op[p].from
      BY <1>2, <2>3, NextLineMoves DEF Same
    <3>3. \/ op'[p].at = "take" /\ op'[p].i = op[p].i + 1
          \/ op'[p].at = "decr" /\ ~(op[p].i < op[p].n)
      BY <1>2, <2>3, NextLineDoes DEF Moved
    <3>4. op'[p].at = "decr" => taken'[o] = Len(Cart[o])
      BY <1>2, <2>1, <3>1, <3>3
    <3>5. op'[p].at = "take" => taken'[o] = op'[p].i - 1
      BY <1>2, <3>1, <3>3
    <3>6. taken'[o] <= Len(Cart[o])
      BY <1>2, <2>1, <3>1
    <3>7. QED
      BY <2>1, <3>2, <3>3, <3>4, <3>5, <3>6 DEF Advances, Through
  <2>4. QED
    BY <1>1, <1>6, <2>2, <2>3 DEF TakeStock, AfterTaking
<1>7. CASE DecrPending(p) \/ DeletePending(p)
  <2>1. /\ op[p].at \in {"decr", "zap"} /\ taken' = taken /\ mirror' = mirror
        /\ Goto(p, "zap") \/ NextLineOr(p, "decr", "delkey")
    BY <1>7 DEF DecrPending, DeletePending, At, AfterLine, history
  <2>2. op'[p].at \in {"zap", "decr", "delkey"} /\ op'[p].from = op[p].from
    BY <1>2, <2>1, GotoMoves, NextLineMoves DEF Same
  <2>3. taken[o] = Len(Cart[o])
    BY <2>1 DEF Through
  <2>4. Through(p, o)'
    BY <2>1, <2>2, <2>3 DEF Through
  <2>5. QED
    BY <2>1, <2>2, <2>4 DEF Advances
<1>8. CASE DeleteReservationKey(p)
  <2>1. /\ op[p].at = "delkey" /\ taken' = taken /\ mirror' = mirror /\ hold' = hold
        /\ op[p].from # "none"
    BY <1>2, <1>8 DEF DeleteReservationKey, At, history
  <2>2. taken[o] = Len(Cart[o]) /\ hold[o] = {}
    BY <1>2, <2>1 DEF Through
  <2>3. CASE op[p].from = "redis"
    <3>1. Goto(p, "resolve")
      BY <1>8, <2>3 DEF DeleteReservationKey
    <3>2. op'[p].at = "resolve" /\ op'[p].from = op[p].from
      BY <1>2, <3>1, GotoMoves DEF Same
    <3>3. QED
      BY <2>1, <2>2, <3>2 DEF Advances, Through
  <2>4. CASE op[p].from = "mirror"
    <3>1. Return(p, "ok")
      BY <1>8, <2>4 DEF DeleteReservationKey
    <3>2. op'[p].kind = "none" /\ mirror[o] = "committed"
      BY <1>2, <2>4, <3>1 DEF Return, Ended, Through
    <3>3. QED
      BY <2>1, <2>2, <3>2 DEF Advances, Sold
  <2>5. QED
    BY <1>2, <2>1, <2>3, <2>4
<1>9. CASE ResolveAfterwards(p)
  <2>1. /\ op[p].at = "resolve" /\ taken' = taken /\ hold' = hold
        /\ mirror' = ResolveMirror(mirror, o, "committed") /\ Return(p, "ok")
    BY <1>1, <1>3, <1>9 DEF ResolveAfterwards, At, history
  <2>2. taken[o] = Len(Cart[o]) /\ hold[o] = {}
    BY <1>2, <2>1 DEF Through
  <2>3. mirror'[o] \in {"committed", "released"}
    BY <1>3, <2>1 DEF ResolveMirror, MirrorStatus
  <2>4. op'[p].kind = "none"
    BY <1>2, <2>1 DEF Return, Ended
  <2>5. QED
    BY <2>1, <2>2, <2>3, <2>4 DEF Advances, Sold
<1>10. /\ ~ReadEntry(p) /\ ~AcquireProductLock(p) /\ ~CheckPending(p) /\ ~IncrPending(p)
       /\ ~ReleaseProductLock(p) /\ ~WriteReservationKey(p) /\ ~WriteMirror(p) /\ ~WriteFails(p)
       /\ ~Restock(p)
  BY <1>2 DEF ReadEntry, AcquireProductLock, CheckPending, IncrPending, ReleaseProductLock,
     WriteReservationKey, WriteMirror, WriteFails, Restock, At, GivingBack
<1>11. QED
  BY <1>1, <1>4, <1>5, <1>6, <1>7, <1>8, <1>9, <1>10 DEF Step

LEMMA SaleCommitStep ==
  ASSUME Known, NEW p \in Procs, NEW o \in Orders, Commits(p, o), MethodStep(p),
         UNCHANGED orderVars, Sale(o)
  PROVE  Sale(o)'
<1> SUFFICES ASSUME ~reclaimed[o] PROVE Sale(o)'
  BY DEF Sale, orderVars
<1>1. doc' = doc /\ flow' = flow /\ OthersAsWere(p) /\ TypeInv /\ LifeInv
  BY MethodMoves DEF orderVars, Known, MethodStep
<1>2. /\ doc[o] = "in_progress" /\ mirror[o] # "none"
      /\ \A c \in Procs : ~Committed(c, o)
      /\ \A q \in Procs : Commits(q, o) => q = p
  BY CommitterAlone
<1>3. Advances(p, o)
  BY <1>2, CommitStep DEF Sale
<1>4. ASSUME NEW q \in Procs, Commits(q, o)' PROVE Through(q, o)'
  <2>1. q = p
    BY <1>1, <1>2, <1>4 DEF OthersAsWere, Commits
  <2>2. QED
    BY <1>3, <1>4, <2>1 DEF Advances, Commits
<1>5. ASSUME NEW c \in Procs, Committed(c, o)' PROVE Sold(o)'
  <2>1. flow[c].order = o /\ flow[c].at = "committing" /\ op'[c].at = "ok"
    BY <1>1, <1>2, <1>5 DEF Committed, At
  <2>2. c = p
    BY <1>1, <1>2, <1>5, <2>1 DEF Committed, At, OthersAsWere
  <2>3. QED
    BY <1>3, <2>1, <2>2 DEF Advances
<1>6. QED
  BY <1>1, <1>2, <1>3, <1>4, <1>5 DEF Sale, Advances

LEMMA SaleMethodStep ==
  ASSUME Known, Known', NEW p \in Procs, NEW o \in OnlineOrders, MethodStep(p),
         UNCHANGED orderVars, Sale(o)
  PROVE  Sale(o)'
<1>1. /\ o \in Orders /\ o \notin CodOrders /\ TypeInv /\ LifeInv /\ Step(p) /\ Tie(p)
      /\ flow' = flow /\ doc' = doc /\ reclaimed' = reclaimed
  BY DEF OnlineOrders, Known, TieInv, MethodStep, orderVars
<1>2. CASE Commits(p, o)
  BY <1>1, <1>2, SaleCommitStep
<1>3. CASE ~Commits(p, o)
  <2>1. /\ OthersAsWere(p) /\ ~Free(p)
        /\ \/ op'[p].kind = op[p].kind /\ op'[p].order = op[p].order
           \/ op'[p].kind = "none"
    BY <1>1, MethodMoves DEF Over
  <2>2. op[p].kind \in {"reserve", "release", "commit", "sell", "restock"}
    BY <1>1, <2>1 DEF Free, TypeInv, OpOK, OpType, Kinds
  <2>3. op[p].order # o => hold'[o] = hold[o] /\ taken'[o] = taken[o] /\ mirror'[o] = mirror[o]
    BY <1>1, MethodTouches
  <2>4. op[p].order = o => op[p].kind \in {"reserve", "release"}
    BY <1>1, <1>3, <2>2, MethodTouches DEF Commits
  <2>5. op[p].order = o /\ op[p].kind = "reserve" =>
          /\ taken'[o] = taken[o] /\ progress[o] = "asked"
          /\ \/ mirror'[o] = mirror[o]
             \/ mirror[o] = "none" /\ mirror'[o] = "reserved"
    BY <1>1, MethodTouches
  <2>6. op[p].order = o /\ op[p].kind = "release" =>
          /\ taken'[o] = taken[o] /\ hold'[o] \subseteq hold[o]
          /\ \/ mirror'[o] = mirror[o]
             \/ mirror[o] = "reserved" /\ mirror'[o] = "released"
    BY <1>1, MethodTouches
  <2>7. ASSUME NEW q \in Procs, Commits(q, o)' PROVE Commits(q, o) /\ op'[q] = op[q]
    BY <1>3, <2>1, <2>7 DEF Commits, OthersAsWere
  <2>8. ASSUME NEW c \in Procs, Committed(c, o)' PROVE Committed(c, o)
    <3>1. CASE c # p
      BY <1>1, <2>1, <2>8, <3>1 DEF Committed, At, OthersAsWere
    <3>2. CASE c = p
      <4>1. flow[p].at # "committing" \/ flow[p].order # o
        BY <1>1, <1>3, <2>1 DEF Tie, Calling, CalledAt, Commits
      <4>2. QED
        BY <1>1, <2>8, <3>2, <4>1 DEF Committed
    <3>3. QED
      BY <3>1, <3>2
  <2>9. /\ hold'[o] \subseteq hold[o] \/ progress[o] # "reserved"
        /\ \/ mirror'[o] = mirror[o]
           \/ mirror[o] = "reserved" /\ mirror'[o] = "released"
           \/ mirror[o] = "none" /\ mirror'[o] = "reserved"
    BY <2>3, <2>4, <2>5, <2>6
  <2>10. taken'[o] = taken[o]
    BY <2>3, <2>4, <2>5, <2>6
  <2>11. QED
    BY <1>1, <2>7, <2>8, <2>9, <2>10, SaleKept
<1>4. QED
  BY <1>2, <1>3

\* Calls that are no commits, starts of flows, and the death of a process.
LEMMA SaleOutside ==
  ASSUME Known, Known', NEW p \in Procs, op'[p].kind # "commit", OthersAsWere(p),
         flow'[p].at \notin Finishing, \A d \in Procs \ {p} : flow'[d] = flow[d],
         UNCHANGED <<hold, taken, mirror, doc, reclaimed>>, NEW o \in Orders, Sale(o)
  PROVE  Sale(o)'
<1>1. \A q \in Procs : Commits(q, o)' => Commits(q, o) /\ op'[q] = op[q]
  BY DEF Commits, OthersAsWere
<1>2. \A c \in Procs : Committed(c, o)' => Committed(c, o)
  BY DEF Committed, At, OthersAsWere, Finishing
<1>3. QED
  BY <1>1, <1>2, SaleKept

\* What the flows do to the documents besides the claim.
LEMMA FlowStepDoc ==
  ASSUME TypesInv, NEW c \in Procs, FlowStep(c), ~(Claim(c) /\ Claimable(flow[c].order)), NEW o \in Orders
  PROVE  /\ reclaimed' = reclaimed
         /\ \/ doc'[o] = doc[o]
            \/ doc[o] = "absent" /\ doc'[o] = "pending"
            \/ doc'[o] = "done" /\ flow[c].at = "done" /\ flow[c].order = o
         /\ flow'[c].at \in {"alert", "created", "captured", "resolve", "done"} =>
              \/ flow[c].at \in {"alert", "created", "captured", "resolve", "done"}
              \/ flow[c].at = "committing" /\ At(c, "ok")
<1>1. CASE QuietStep(c)
  BY <1>1 DEF QuietStep, Finishing
<1>2. CASE UpsertOrder(c)
  BY <1>2, UpsertOK DEF TypesInv, RecordsOK
<1>3. CASE MarkDone(c)
  <2>1. /\ flow[c].at = "done" /\ flow'[c].at \notin Finishing /\ reclaimed' = reclaimed
        /\ doc' = [doc EXCEPT ![flow[c].order] = "done"]
    BY <1>3, MarkDoneOK
  <2>2. QED
    BY <2>1 DEF TypesInv, RecordsOK, Finishing
<1>4. CASE Announce(c) \/ MarkResolved(c)
  BY <1>4, AnnounceOK, MarkResolvedOK
<1>5. CASE CommitReturned(c) /\ ~QuietStep(c)
  <2>1. /\ flow[c].at = "committing" /\ flow'[c].at = "alert"
        /\ UNCHANGED <<doc, reclaimed>>
    BY <1>5, CommitReturnedOK
  <2>2. At(c, "ok")
    BY <1>5, <2>1, RaiseOK DEF CommitReturned, FlowMoves
  <2>3. QED
    BY <2>1, <2>2
<1>6. CASE Claim(c) /\ ~QuietStep(c)
  BY <1>6, ClaimOK
<1>7. QED
  BY <1>1, <1>2, <1>3, <1>4, <1>5, <1>6, InitiateStepsOK, AttemptStepsOK, LookStepsOK, FindAgainOK
  DEF FlowStep

LEMMA SaleFlowStep ==
  ASSUME Known, Known', NEW c \in Procs, FlowStep(c), ~(Claim(c) /\ Claimable(flow[c].order)),
         NEW o \in Orders, Sale(o)
  PROVE  Sale(o)'
<1>1. TypesInv /\ op \in [Procs -> OpType] /\ InventoryRests /\ (\A d \in Procs \ {c} : flow'[d] = flow[d])
  BY FlowStepCalls, FlowStepOf DEF Known, TypeInv, OpOK, StepOf
<1>2. /\ reclaimed' = reclaimed
      /\ \/ doc'[o] = doc[o]
         \/ doc[o] = "absent" /\ doc'[o] = "pending"
         \/ doc'[o] = "done" /\ flow[c].at = "done" /\ flow[c].order = o
      /\ flow'[c].at \in {"alert", "created", "captured", "resolve", "done"} =>
           \/ flow[c].at \in {"alert", "created", "captured", "resolve", "done"}
           \/ flow[c].at = "committing" /\ At(c, "ok")
  BY <1>1, FlowStepDoc
<1>3. \/ op' = op /\ flow'[c].at \notin Calling
      \/ Calls(c, {"find", "claim", "done"}, "release", "clearing")
  BY <1>1, FlowStepCalls
<1>4. OthersAsWere(c) /\ flow'[c].at # "committing"
  BY <1>1, <1>3 DEF Calls, Call, OthersAsWere, Calling
<1>5. ASSUME NEW q \in Procs, Commits(q, o)' PROVE Commits(q, o) /\ op'[q] = op[q]
  <2>1. op' = op \/ op'[c].kind = "release"
    BY <1>1, <1>3 DEF Calls, Call
  <2>2. QED
    BY <1>4, <1>5, <2>1 DEF Commits, OthersAsWere
<1>6. ASSUME NEW d \in Procs, Committed(d, o)' PROVE Committed(d, o)
  <2>1. CASE d # c
    BY <1>1, <1>4, <1>6, <2>1 DEF Committed, At, OthersAsWere
  <2>2. CASE d = c
    <3>1. flow'[c].order = o /\ flow'[c].at \in {"alert", "created", "captured", "resolve", "done"}
      BY <1>4, <1>6, <2>2 DEF Committed
    <3>2. flow'[c].order = flow[c].order
      BY <1>1, <3>1, FlowStepOf DEF StepOf
    <3>3. QED
      BY <1>2, <2>2, <3>1, <3>2 DEF Committed
  <2>3. QED
    BY <2>1, <2>2
<1>7. \/ doc'[o] = doc[o]
      \/ doc[o] = "absent" /\ doc'[o] = "pending"
      \/ doc'[o] = "done" /\ \E d \in Procs : Committed(d, o)
  BY <1>2 DEF Committed
<1>8. UNCHANGED <<hold, taken, mirror>>
  BY <1>1 DEF InventoryRests, shared, history
<1>9. QED
  BY <1>2, <1>5, <1>6, <1>7, <1>8, SaleKept

LEMMA SaleClaim ==
  ASSUME Known, Known', NEW c \in Procs, Claim(c), Claimable(flow[c].order), FlowStep(c),
         NEW o \in Orders, Sale(o)
  PROVE  Sale(o)'
<1>1. PICK x \in Orders : x = flow[c].order
  BY ClaimOK, FinishersOf DEF Known, TypesInv, FlowsOK, Claim, In
<1>2. /\ TypesInv /\ op \in [Procs -> OpType] /\ InventoryRests /\ flow[c].at = "claim"
      /\ \A d \in Procs \ {c} : flow'[d] = flow[d]
      /\ Enter(c, "committing") /\ Call(c, "commit", x)
      /\ doc' = [doc EXCEPT ![x] = "in_progress"]
      /\ reclaimed' = [reclaimed EXCEPT ![x] = @ \/ doc[x] = "in_progress"]
  BY <1>1, FlowStepCalls, FlowStepOf DEF Known, TypeInv, OpOK, StepOf, Claim, In, FlowOrder
<1>3. /\ flow'[c].at = "committing" /\ flow'[c].order = x
      /\ op'[c].kind = "commit" /\ op'[c].order = x /\ op'[c].at = "load" /\ op'[c].from = "none"
      /\ OthersAsWere(c) /\ UNCHANGED <<hold, taken, mirror>>
  <2>1. flow'[c].at = "committing" /\ flow'[c].order = x
    BY <1>1, <1>2 DEF Enter, TypesInv, FlowsOK, FlowType
  <2>2. First("commit") = "load"
    BY DEF First
  <2>3. /\ op'[c].kind = "commit" /\ op'[c].order = x /\ op'[c].at = "load" /\ op'[c].from = "none"
        /\ OthersAsWere(c)
    BY <1>2, <2>2 DEF Call, OthersAsWere
  <2>4. QED
    BY <1>2, <2>1, <2>3 DEF InventoryRests, shared, history
<1>4. CASE o # x
  <2>1. doc'[o] = doc[o] /\ reclaimed'[o] = reclaimed[o]
    BY <1>2, <1>4 DEF TypesInv, RecordsOK
  <2>2. \A q \in Procs : Commits(q, o)' => Commits(q, o) /\ op'[q] = op[q]
    BY <1>3, <1>4 DEF Commits, OthersAsWere
  <2>3. \A d \in Procs : Committed(d, o)' => Committed(d, o)
    BY <1>2, <1>3, <1>4 DEF Committed, At, OthersAsWere
  <2>4. QED
    BY <1>3, <2>1, <2>2, <2>3, SaleKept
<1>5. CASE o = x
  <2> SUFFICES ASSUME ~reclaimed'[o] PROVE Sale(o)'
    BY DEF Sale
  <2>1. ~reclaimed[o] /\ doc[o] = "pending" /\ doc'[o] = "in_progress"
    BY <1>1, <1>2, <1>5 DEF TypesInv, RecordsOK, Claimable
  <2>2. taken[o] = 0 /\ mirror[o] # "committed" /\ taken[o] <= Len(Cart[o])
    BY <2>1 DEF Sale
  <2>3. \A d \in Procs : ~Finisher(d, o)
    BY <2>1 DEF Known, ClaimInv, OrderClaim
  <2>4. ASSUME NEW q \in Procs, Commits(q, o)' PROVE Through(q, o)'
    <3>1. CASE q = c
      BY <1>3, <2>2, <3>1 DEF Through
    <3>2. CASE q # c
      BY <1>3, <2>3, <2>4, <3>2, CommitterFinishes DEF Commits, OthersAsWere
    <3>3. QED
      BY <3>1, <3>2
  <2>5. ASSUME NEW d \in Procs, Committed(d, o)' PROVE FALSE
    <3>1. CASE d = c
      BY <1>3, <2>5, <3>1 DEF Committed, At
    <3>2. CASE d # c
      <4>1. Finisher(d, o)
        BY <1>2, <2>5, <3>2 DEF Committed, Finisher, Finishing
      <4>2. QED
        BY <2>3, <4>1
    <3>3. QED
      BY <3>1, <3>2
  <2>6. QED
    BY <1>3, <2>1, <2>2, <2>4, <2>5 DEF Sale
<1>6. QED
  BY <1>4, <1>5

LEMMA SaleInvInit ==
  ASSUME OrderInit
  PROVE  SaleInv
<1> SUFFICES ASSUME NEW o \in OnlineOrders PROVE Sale(o)
  BY DEF SaleInv
<1>1. o \in Orders /\ 0 <= Len(Cart[o])
  BY CartLength DEF OnlineOrders
<1>2. taken[o] = 0 /\ mirror[o] = "none" /\ doc[o] = "absent"
  BY <1>1 DEF OrderInit, Init
<1>3. ASSUME NEW p \in Procs PROVE ~Commits(p, o) /\ ~Committed(p, o)
  BY <1>1 DEF OrderInit, Init, Ended, NoFlow, Commits, Committed
<1>4. QED
  BY <1>1, <1>2, <1>3 DEF Sale

LEMMA SaleInvStep ==
  ASSUME Known, SaleInv, [OrderNext]_allVars
  PROVE  SaleInv'
<1> SUFFICES ASSUME NEW o \in OnlineOrders PROVE Sale(o)'
  BY DEF SaleInv
<1>1. /\ Known' /\ o \in Orders /\ Sale(o)
      /\ op \in [Procs -> OpType] /\ flow \in [Procs -> FlowType]
  BY KnownStep DEF Known, TypeInv, OpOK, TypesInv, FlowsOK, SaleInv, OnlineOrders
<1>2. ASSUME UNCHANGED <<op, flow, hold, taken, mirror, doc, reclaimed>>
      PROVE  Sale(o)'
  <2>1. \A p \in Procs : Commits(p, o)' => Commits(p, o) /\ op'[p] = op[p]
    BY <1>2 DEF Commits
  <2>2. \A c \in Procs : Committed(c, o)' => Committed(c, o)
    BY <1>2 DEF Committed, At
  <2>3. QED
    BY <1>1, <1>2, <2>1, <2>2, SaleKept
<1>3. ASSUME NEW c \in Procs, FlowStep(c) PROVE Sale(o)'
  BY <1>1, <1>3, SaleClaim, SaleFlowStep
<1>4. ASSUME NEW p \in Procs, InventoryStep(p) PROVE Sale(o)'
  BY <1>1, <1>4, SaleMethodStep DEF InventoryStep
<1>5. ASSUME NEW p \in Procs, FlowCrash(p) PROVE Sale(o)'
  <2>1. op'[p].kind = "none" /\ OthersAsWere(p)
    BY <1>1, <1>5 DEF FlowCrash, Return, Ended, OthersAsWere
  <2>2. flow'[p].at \notin Finishing /\ \A d \in Procs \ {p} : flow'[d] = flow[d]
    BY <1>1, <1>5 DEF FlowCrash, EndFlow, NoFlow, Finishing
  <2>3. UNCHANGED <<hold, taken, mirror, doc, reclaimed>>
    BY <1>5 DEF FlowCrash, shared, history
  <2>4. QED
    BY <1>1, <2>1, <2>2, <2>3, SaleOutside
<1>6. ASSUME NEW c \in Procs, NEW x \in Orders, StartInitiate(c, x) PROVE Sale(o)'
  <2>1. op'[c].kind = "reserve" /\ OthersAsWere(c)
    BY <1>1, <1>6 DEF StartInitiate, Call, OthersAsWere
  <2>2. flow'[c].at \notin Finishing /\ \A d \in Procs \ {c} : flow'[d] = flow[d]
    BY <1>1, <1>6 DEF StartInitiate, NoFlow, Finishing
  <2>3. UNCHANGED <<hold, taken, mirror, doc, reclaimed>>
    BY <1>6 DEF StartInitiate, envUnchanged, shared, history
  <2>4. QED
    BY <1>1, <2>1, <2>2, <2>3, SaleOutside
<1>7. ASSUME NEW c \in Procs, NEW x \in Orders,
             LookUpPayment(c, x) \/ \E source \in Sources : StartComplete(c, x, source)
      PROVE  Sale(o)'
  <2>1. /\ op' = op /\ Free(c) /\ flow'[c].at \in {"abandon", "find"}
        /\ \A d \in Procs \ {c} : flow'[d] = flow[d]
    BY <1>1, <1>7 DEF LookUpPayment, StartComplete, NoFlowOf, NoFlow
  <2>2. op'[c].kind # "commit" /\ OthersAsWere(c) /\ flow'[c].at \notin Finishing
    BY <2>1 DEF Free, OthersAsWere, Finishing
  <2>3. UNCHANGED <<hold, taken, mirror, doc, reclaimed>>
    BY <1>7 DEF LookUpPayment, StartComplete, envUnchanged, shared, history
  <2>4. QED
    BY <1>1, <2>1, <2>2, <2>3, SaleOutside
<1>8. ASSUME NEW p \in Procs, NEW x \in Orders, SweepStep(p, x) \/ CodStep(p, x)
      PROVE  Sale(o)'
  <2>1. flow' = flow /\ flow[p].at = "idle" /\ UNCHANGED <<hold, taken, mirror, doc, reclaimed>>
    BY <1>8 DEF SweepStep, CodStep, NoFlowOf, orderVars, Sweep, Begin, InsertFailed, shared, history
  <2>2. \E kind \in {"release", "sell", "restock"} : Call(p, kind, x)
    BY <1>8 DEF SweepStep, CodStep, Sweep, Begin, InsertFailed
  <2>3. op'[p].kind # "commit" /\ OthersAsWere(p)
    BY <1>1, <2>2 DEF Call, OthersAsWere
  <2>4. flow'[p].at \notin Finishing /\ \A d \in Procs \ {p} : flow'[d] = flow[d]
    BY <2>1 DEF Finishing
  <2>5. QED
    BY <1>1, <2>1, <2>3, <2>4, SaleOutside
<1>9. ASSUME NEW x \in Orders, Pay(x) \/ ClaimGoesStale(x) \/ ExpirePendingOrder(x) \/ TimeStep(x)
      PROVE  Sale(o)'
  BY <1>2, <1>9 DEF Pay, ClaimGoesStale, ExpirePendingOrder, TimeStep, Tick, invVars, history, orderVars
<1>10. ASSUME NEW r \in Rows, LockStep(r) PROVE Sale(o)'
  BY <1>2, <1>10 DEF LockStep, LockExpires, history, orderVars
<1>11. CASE UNCHANGED allVars
  BY <1>2, <1>11 DEF allVars, invVars, history, orderVars
<1>12. QED
  BY <1>3, <1>4, <1>5, <1>6, <1>7, <1>8, <1>9, <1>10, <1>11 DEF OrderNext

-----------------------------------------------------------------------------
(* What each claim takes, a take-over included.                            *)

BeforeOK == before \in [Orders -> Int]

\* While live claimers are in time: what the commit of o at p has taken since
\* its claim.
Since(p, o) ==
  /\ op[p].at \in {"load", "claim"} => taken[o] = before[o]
  /\ op[p].at = "take" => taken[o] = before[o] + op[p].i - 1

Taking(o) ==
  /\ before[o] >= 0 /\ taken[o] >= 0
  /\ ~SlowClaimers =>
       /\ taken[o] <= Len(Cart[o]) + before[o]
       /\ doc[o] \in {"absent", "pending"} => taken[o] = before[o]
       /\ \A p \in Procs : Commits(p, o) => Since(p, o)

TakingInv == BeforeOK /\ \A o \in OnlineOrders : Taking(o)

\* Steps that are no step of a commit of o and no claim of o.
LEMMA TakingKept ==
  ASSUME NEW o \in Orders, Taking(o), taken'[o] = taken[o], before'[o] = before[o],
         doc'[o] \in {"absent", "pending"} => doc[o] \in {"absent", "pending"},
         \A p \in Procs : Commits(p, o)' => Commits(p, o) /\ op'[p] = op[p]
  PROVE  Taking(o)'
<1>1. ASSUME NEW p \in Procs, Commits(p, o)', Commits(p, o) => Since(p, o)
      PROVE  Since(p, o)'
  BY <1>1 DEF Since
<1>2. QED
  BY <1>1 DEF Taking

\* What a step of a commit takes, and where it goes.
CommitMoves(p, o) ==
  \/ /\ op[p].at \in {"load", "claim"} /\ taken' = taken
     /\ op'[p].kind = "commit" =>
          op'[p].at = "claim" \/ (op'[p].at = "take" /\ op'[p].i = 1)
  \/ /\ op[p].at = "take" /\ taken' = taken /\ op'[p].kind = "none"
  \/ /\ op[p].at = "take" /\ taken' = [taken EXCEPT ![o] = @ + 1]
     /\ op[p].i \in 1 .. Len(Cart[o])
     /\ op'[p].at = "decr" \/ (op'[p].at = "take" /\ op'[p].i = op[p].i + 1)
  \/ /\ op[p].at \in {"decr", "zap", "delkey", "resolve"} /\ taken' = taken
     /\ op'[p].at \notin {"load", "claim", "take"}

LEMMA CommitTakes ==
  ASSUME Known, NEW p \in Procs, NEW o \in Orders, Commits(p, o), MethodStep(p)
  PROVE  CommitMoves(p, o)
<1>1. /\ TypeInv /\ LifeInv /\ Step(p) /\ op[p].kind = "commit" /\ op[p].order = o
      /\ op[p].at \in Working
  BY MethodMoves DEF Known, MethodStep, Commits
<1>2. /\ op \in [Procs -> OpType] /\ op[p] \in OpType /\ op[p].i \in Nat /\ op[p].n = Len(Cart[o])
      /\ op[p].n \in Nat /\ op[p].from \in {"none", "redis", "mirror"}
      /\ op[p].from = "none" => op[p].at \in {"load", "claim"} /\ op[p].i = 1
      /\ op[p].from # "none" => op[p].at \in GivingBack \cup {"take", "resolve"}
      /\ op[p].at = "take" => op[p].i \in 1 .. op[p].n
  BY <1>1, Before DEF Stage, Pass, LineLabels, OpType
<1>3. Work(p) = "take"
  BY <1>1 DEF Work
<1>4. CASE LoadReservation(p)
  <2>1. /\ op[p].at = "load" /\ taken' = taken /\ op[p].i = 1
        /\ \/ op' = [op EXCEPT ![p].from = "redis", ![p].at = "take"]
           \/ Goto(p, "claim")
    BY <1>2, <1>3, <1>4 DEF LoadReservation, At, shared, history, GivingBack
  <2>2. op'[p].at = "claim" \/ (op'[p].at = "take" /\ op'[p].i = 1)
    BY <1>2, <2>1 DEF Goto, OpType
  <2>3. QED
    BY <2>1, <2>2 DEF CommitMoves
<1>5. CASE ClaimMirror(p)
  <2>1. /\ op[p].at = "claim" /\ taken' = taken /\ op[p].i = 1
        /\ \/ op' = [op EXCEPT ![p].from = "mirror", ![p].at = "take"]
           \/ Return(p, "ok")
    BY <1>1, <1>2, <1>3, <1>5 DEF ClaimMirror, At, history, GivingBack
  <2>2. op'[p].kind = "commit" => op'[p].at = "take" /\ op'[p].i = 1
    BY <1>2, <2>1 DEF Return, Ended, OpType
  <2>3. QED
    BY <2>1, <2>2 DEF CommitMoves
<1>6. CASE TakeStock(p)
  <2>1. op[p].at = "take" /\ op[p].i \in 1 .. Len(Cart[o])
    BY <1>2, <1>6 DEF TakeStock, At
  <2>2. CASE Return(p, "failed") /\ taken' = taken
    <3>1. op'[p].kind = "none"
      BY <1>2, <2>2 DEF Return, Ended
    <3>2. QED
      BY <2>1, <2>2, <3>1 DEF CommitMoves
  <2>3. CASE NextLineOr(p, "take", "decr") /\ taken' = [taken EXCEPT ![o] = @ + 1]
    <3>1. op'[p].at = "decr" \/ (op'[p].at = "take" /\ op'[p].i = op[p].i + 1)
      BY <1>2, <2>3, NextLineDoes DEF Moved
    <3>2. QED
      BY <2>1, <2>3, <3>1 DEF CommitMoves
  <2>4. QED
    BY <1>1, <1>6, <2>2, <2>3 DEF TakeStock, AfterTaking
<1>7. CASE DecrPending(p) \/ DeletePending(p)
  <2>1. /\ op[p].at \in {"decr", "zap"} /\ taken' = taken
        /\ Goto(p, "zap") \/ NextLineOr(p, "decr", "delkey")
    BY <1>7 DEF DecrPending, DeletePending, At, AfterLine, history
  <2>2. op'[p].at \in {"zap", "decr", "delkey"}
    BY <1>2, <2>1, GotoMoves, NextLineMoves
  <2>3. QED
    BY <2>1, <2>2 DEF CommitMoves
<1>8. CASE DeleteReservationKey(p) \/ ResolveAfterwards(p)
  <2>0. /\ op[p].at \in {"delkey", "resolve"} /\ taken' = taken
        /\ \/ Return(p, "ok")
           \/ CASE op[p].from = "redis" -> Goto(p, "resolve")
                [] op[p].from = "mirror" -> Return(p, "ok")
                [] op[p].from = "none" -> Return(p, "failed")
    BY <1>8 DEF DeleteReservationKey, ResolveAfterwards, At, history
  <2>1. Goto(p, "resolve") \/ Return(p, "ok") \/ Return(p, "failed")
    BY <1>2, <2>0
  <2>2. op'[p].at \notin {"load", "claim", "take"}
    BY <1>2, <2>1 DEF Goto, Return, Ended, OpType
  <2>3. QED
    BY <2>0, <2>2 DEF CommitMoves
<1>9. /\ ~ReadEntry(p) /\ ~AcquireProductLock(p) /\ ~CheckPending(p) /\ ~IncrPending(p)
      /\ ~ReleaseProductLock(p) /\ ~WriteReservationKey(p) /\ ~WriteMirror(p) /\ ~WriteFails(p)
      /\ ~Restock(p)
  BY <1>2 DEF ReadEntry, AcquireProductLock, CheckPending, IncrPending, ReleaseProductLock,
     WriteReservationKey, WriteMirror, WriteFails, Restock, At, GivingBack
<1>10. QED
  BY <1>1, <1>4, <1>5, <1>6, <1>7, <1>8, <1>9 DEF Step

LEMMA TakingCommitStep ==
  ASSUME Known, FreshInv, BeforeOK, NEW p \in Procs, NEW o \in Orders, Commits(p, o), MethodStep(p),
         UNCHANGED orderVars, Taking(o)
  PROVE  Taking(o)'
<1>1. /\ doc' = doc /\ before' = before /\ OthersAsWere(p) /\ CommitMoves(p, o)
      /\ taken \in [Orders -> Int] /\ before[o] \in Int /\ Len(Cart[o]) \in Nat
      /\ op[p] \in OpType
  BY MethodMoves, CommitTakes, CartLength
  DEF orderVars, Known, MethodStep, TypeInv, DataOK, EnvOK, OpOK, BeforeOK
<1>2. taken[o] \in Int /\ op[p].i \in Nat
  BY <1>1 DEF OpType
<1>3. taken'[o] = taken[o] \/ taken'[o] = taken[o] + 1
  BY <1>1 DEF CommitMoves
<1>4. taken'[o] >= 0 /\ before'[o] >= 0
  BY <1>1, <1>2, <1>3 DEF Taking
<1>5. ASSUME ~SlowClaimers
      PROVE  /\ taken'[o] <= Len(Cart[o]) + before'[o]
             /\ doc'[o] \notin {"absent", "pending"}
             /\ \A q \in Procs : Commits(q, o)' => Since(q, o)'
  <2>1. /\ Since(p, o) /\ taken[o] <= Len(Cart[o]) + before[o]
    BY <1>5 DEF Taking
  <2>2. Finisher(p, o)
    BY CommitterFinishes
  <2>3. doc[o] = "in_progress" /\ \A q \in Procs : Commits(q, o) => q = p
    BY <1>5, <2>2, CommitterFinishes DEF FreshInv
  <2>4. taken'[o] <= Len(Cart[o]) + before[o]
    BY <1>1, <1>2, <2>1 DEF CommitMoves, Since
  <2>5. Commits(p, o)' => Since(p, o)'
    BY <1>1, <1>2, <2>1 DEF CommitMoves, Since, Commits
  <2>6. ASSUME NEW q \in Procs, Commits(q, o)' PROVE q = p
    BY <1>1, <2>3, <2>6 DEF OthersAsWere, Commits
  <2>7. QED
    BY <1>1, <2>3, <2>4, <2>5, <2>6
<1>6. QED
  BY <1>4, <1>5 DEF Taking

\* A claim of o that matched: a take-over counts anew from what was taken.
LEMMA TakingClaim ==
  ASSUME Known, FreshInv, BeforeOK, NEW c \in Procs, Claim(c), Claimable(flow[c].order), FlowStep(c),
         NEW o \in Orders, Taking(o)
  PROVE  Taking(o)'
<1>1. PICK x \in Orders : x = flow[c].order
  BY ClaimOK, FinishersOf DEF Known, TypesInv, FlowsOK, Claim, In
<1>2. /\ TypesInv /\ op \in [Procs -> OpType] /\ InventoryRests /\ taken \in [Orders -> Int]
      /\ Call(c, "commit", x)
      /\ doc' = [doc EXCEPT ![x] = "in_progress"]
      /\ before' = [before EXCEPT ![x] = IF doc[x] = "in_progress" THEN taken[x] ELSE @]
  BY <1>1, FlowStepCalls DEF Known, TypeInv, OpOK, DataOK, EnvOK, Claim, FlowOrder
<1>3. /\ op'[c].kind = "commit" /\ op'[c].order = x /\ op'[c].at = "load"
      /\ OthersAsWere(c) /\ taken' = taken
  <2>1. First("commit") = "load"
    BY DEF First
  <2>2. QED
    BY <1>2, <2>1 DEF Call, OthersAsWere, InventoryRests, history
<1>4. CASE o # x
  <2>1. doc'[o] = doc[o] /\ before'[o] = before[o]
    BY <1>2, <1>4 DEF TypesInv, RecordsOK, BeforeOK
  <2>2. \A q \in Procs : Commits(q, o)' => Commits(q, o) /\ op'[q] = op[q]
    BY <1>3, <1>4 DEF Commits, OthersAsWere
  <2>3. QED
    BY <1>3, <2>1, <2>2, TakingKept
<1>5. CASE o = x
  <2>1. /\ doc'[o] = "in_progress" /\ before[o] \in Int /\ taken[o] \in Int
        /\ before'[o] = IF doc[o] = "in_progress" THEN taken[o] ELSE before[o]
    BY <1>2, <1>5 DEF TypesInv, RecordsOK, BeforeOK
  <2>2. before'[o] >= 0 /\ taken'[o] >= 0
    BY <1>3, <2>1 DEF Taking
  <2>3. ASSUME ~SlowClaimers
        PROVE  /\ taken'[o] = before'[o]
               /\ \A q \in Procs : Commits(q, o)' => Since(q, o)'
    <3>1. taken'[o] = before'[o]
      BY <1>1, <1>3, <1>5, <2>1, <2>3 DEF Taking, Claimable
    <3>2. \A d \in Procs : ~Finisher(d, o)
      BY <1>1, <1>5, <2>3 DEF FreshInv, Claimable
    <3>3. ASSUME NEW q \in Procs, Commits(q, o)' PROVE Since(q, o)'
      <4>1. q = c
        BY <1>3, <3>2, <3>3, CommitterFinishes DEF Commits, OthersAsWere
      <4>2. QED
        BY <1>3, <3>1, <4>1 DEF Since
    <3>4. QED
      BY <3>1, <3>3
  <2>4. Len(Cart[o]) \in Nat
    BY CartLength
  <2>5. taken'[o] \in Int
    BY <1>3, <2>1
  <2>6. QED
    BY <2>1, <2>2, <2>3, <2>4, <2>5 DEF Taking
<1>6. QED
  BY <1>4, <1>5

LEMMA TakingFlowStep ==
  ASSUME Known, NEW c \in Procs, FlowStep(c), ~(Claim(c) /\ Claimable(flow[c].order)),
         NEW o \in Orders, Taking(o)
  PROVE  Taking(o)'
<1>1. TypesInv /\ op \in [Procs -> OpType] /\ InventoryRests
  BY FlowStepCalls DEF Known, TypeInv, OpOK
<1>2. doc'[o] \in {"absent", "pending"} => doc[o] \in {"absent", "pending"}
  BY <1>1, FlowStepDoc
<1>3. \/ op' = op
      \/ Calls(c, {"find", "claim", "done"}, "release", "clearing")
  BY <1>1, FlowStepCalls
<1>4. ASSUME NEW q \in Procs, Commits(q, o)' PROVE Commits(q, o) /\ op'[q] = op[q]
  BY <1>1, <1>3, <1>4 DEF Calls, Call, Commits
<1>5. before' = before
  BY DEF FlowStep, WritePendingOrder, CreateRazorpayOrder, RecordAttempt,
     FindOrder, GetPendingOrder, FindOrderAgain, LoadSnapshot, AmountMatches, LookupRaises,
     UpsertOrder, Claim, CommitReturned, Announce, MarkResolved, MarkDone, DeletePendingOrder,
     AlreadyProcessed, AbandonAttempt, FlowOrder
<1>6. taken' = taken
  BY <1>1 DEF InventoryRests, history
<1>7. QED
  BY <1>2, <1>4, <1>5, <1>6, TakingKept

LEMMA TakingMethodStep ==
  ASSUME Known, FreshInv, BeforeOK, NEW p \in Procs, NEW o \in OnlineOrders, MethodStep(p),
         UNCHANGED orderVars, Taking(o)
  PROVE  Taking(o)'
<1>1. /\ o \in Orders /\ o \notin CodOrders /\ TypeInv /\ LifeInv /\ Step(p)
      /\ doc' = doc /\ before' = before
  BY DEF OnlineOrders, Known, MethodStep, orderVars
<1>2. CASE Commits(p, o)
  BY <1>1, <1>2, TakingCommitStep
<1>3. CASE ~Commits(p, o)
  <2>1. /\ OthersAsWere(p) /\ ~Free(p)
        /\ \/ op'[p].kind = op[p].kind /\ op'[p].order = op[p].order
           \/ op'[p].kind = "none"
    BY <1>1, MethodMoves DEF Over
  <2>2. op[p].kind \in {"reserve", "release", "commit", "sell", "restock"}
    BY <1>1, <2>1 DEF Free, TypeInv, OpOK, OpType, Kinds
  <2>3. taken'[o] = taken[o]
    BY <1>1, <1>3, <2>2, MethodTouches DEF Commits
  <2>4. ASSUME NEW q \in Procs, Commits(q, o)' PROVE Commits(q, o) /\ op'[q] = op[q]
    BY <1>3, <2>1, <2>4 DEF Commits, OthersAsWere
  <2>5. QED
    BY <1>1, <2>3, <2>4, TakingKept
<1>4. QED
  BY <1>2, <1>3

\* Calls that are no commits, starts of flows, and the death of a process.
LEMMA TakingOutside ==
  ASSUME NEW p \in Procs, op'[p].kind # "commit", OthersAsWere(p),
         UNCHANGED <<taken, doc, before>>, NEW o \in Orders, Taking(o)
  PROVE  Taking(o)'
<1>1. \A q \in Procs : Commits(q, o)' => Commits(q, o) /\ op'[q] = op[q]
  BY DEF Commits, OthersAsWere
<1>2. QED
  BY <1>1, TakingKept

LEMMA TakingInvInit ==
  ASSUME OrderInit
  PROVE  TakingInv
<1>1. BeforeOK
  BY DEF OrderInit, BeforeOK
<1>2. ASSUME NEW o \in OnlineOrders PROVE Taking(o)
  <2>1. o \in Orders /\ Len(Cart[o]) \in Nat
    BY CartLength DEF OnlineOrders
  <2>2. taken[o] = 0 /\ before[o] = 0
    BY <2>1 DEF OrderInit, Init
  <2>3. ASSUME NEW p \in Procs PROVE ~Commits(p, o)
    BY DEF OrderInit, Init, Ended, Commits
  <2>4. QED
    BY <2>1, <2>2, <2>3 DEF Taking
<1>3. QED
  BY <1>1, <1>2 DEF TakingInv

LEMMA BeforeStep ==
  ASSUME Known, BeforeOK, [OrderNext]_allVars
  PROVE  BeforeOK'
<1>1. taken \in [Orders -> Int]
  BY DEF Known, TypeInv, DataOK, EnvOK
<1>2. ASSUME NEW c \in Procs, FlowStep(c) PROVE BeforeOK'
  <2>1. CASE Claim(c)
    BY <1>1, <2>1 DEF Claim, BeforeOK
  <2>2. CASE ~Claim(c)
    BY <1>2, <2>2 DEF FlowStep, WritePendingOrder, CreateRazorpayOrder, RecordAttempt,
     FindOrder, GetPendingOrder, FindOrderAgain, LoadSnapshot, AmountMatches, LookupRaises,
     UpsertOrder, CommitReturned, Announce, MarkResolved, MarkDone, DeletePendingOrder,
     AlreadyProcessed, AbandonAttempt, BeforeOK
  <2>3. QED
    BY <2>1, <2>2
<1>3. ASSUME NEW p \in Procs, InventoryStep(p) \/ FlowCrash(p) PROVE BeforeOK'
  BY <1>3 DEF BeforeOK, InventoryStep, FlowCrash, orderVars
<1>4. ASSUME NEW p \in Procs, NEW o \in Orders,
             \/ StartInitiate(p, o) \/ LookUpPayment(p, o)
             \/ \E source \in Sources : StartComplete(p, o, source)
             \/ SweepStep(p, o) \/ CodStep(p, o)
      PROVE  BeforeOK'
  BY <1>4 DEF BeforeOK, StartInitiate, LookUpPayment, StartComplete, SweepStep, CodStep, orderVars
<1>5. ASSUME NEW o \in Orders, Pay(o) \/ ClaimGoesStale(o) \/ ExpirePendingOrder(o) \/ TimeStep(o)
      PROVE  BeforeOK'
  BY <1>5 DEF BeforeOK, Pay, ClaimGoesStale, ExpirePendingOrder, TimeStep, orderVars
<1>6. ASSUME NEW r \in Rows, LockStep(r) PROVE BeforeOK'
  BY <1>6 DEF BeforeOK, LockStep, orderVars
<1>7. CASE UNCHANGED allVars
  BY <1>7 DEF BeforeOK, allVars, orderVars
<1>8. QED
  BY <1>2, <1>3, <1>4, <1>5, <1>6, <1>7 DEF OrderNext

LEMMA TakingInvStep ==
  ASSUME Known, FreshInv, TakingInv, [OrderNext]_allVars
  PROVE  TakingInv'
<1> SUFFICES ASSUME NEW o \in OnlineOrders PROVE Taking(o)'
  BY BeforeStep DEF TakingInv
<1>1. /\ BeforeOK /\ o \in Orders /\ Taking(o) /\ op \in [Procs -> OpType]
  BY DEF Known, TypeInv, OpOK, TakingInv, OnlineOrders
<1>2. ASSUME UNCHANGED <<op, taken, doc, before>> PROVE Taking(o)'
  <2>1. \A p \in Procs : Commits(p, o)' => Commits(p, o) /\ op'[p] = op[p]
    BY <1>2 DEF Commits
  <2>2. QED
    BY <1>1, <1>2, <2>1, TakingKept
<1>3. ASSUME NEW c \in Procs, FlowStep(c) PROVE Taking(o)'
  BY <1>1, <1>3, TakingClaim, TakingFlowStep
<1>4. ASSUME NEW p \in Procs, InventoryStep(p) PROVE Taking(o)'
  BY <1>1, <1>4, TakingMethodStep DEF InventoryStep
<1>5. ASSUME NEW p \in Procs, FlowCrash(p) PROVE Taking(o)'
  <2>1. op'[p].kind = "none" /\ OthersAsWere(p)
    BY <1>1, <1>5 DEF FlowCrash, Return, Ended, OthersAsWere
  <2>2. UNCHANGED <<taken, doc, before>>
    BY <1>5 DEF FlowCrash, history
  <2>3. QED
    BY <1>1, <2>1, <2>2, TakingOutside
<1>6. ASSUME NEW c \in Procs, NEW x \in Orders, StartInitiate(c, x) PROVE Taking(o)'
  <2>1. op'[c].kind = "reserve" /\ OthersAsWere(c)
    BY <1>1, <1>6 DEF StartInitiate, Call, OthersAsWere
  <2>2. UNCHANGED <<taken, doc, before>>
    BY <1>6 DEF StartInitiate, envUnchanged, history
  <2>3. QED
    BY <1>1, <2>1, <2>2, TakingOutside
<1>7. ASSUME NEW c \in Procs, NEW x \in Orders,
             LookUpPayment(c, x) \/ \E source \in Sources : StartComplete(c, x, source)
      PROVE  Taking(o)'
  BY <1>2, <1>7 DEF LookUpPayment, StartComplete, envUnchanged, history
<1>8. ASSUME NEW p \in Procs, NEW x \in Orders, SweepStep(p, x) \/ CodStep(p, x)
      PROVE  Taking(o)'
  <2>1. UNCHANGED <<taken, doc, before>>
    BY <1>8 DEF SweepStep, CodStep, orderVars, Sweep, Begin, InsertFailed, history
  <2>2. \E kind \in {"release", "sell", "restock"} : Call(p, kind, x)
    BY <1>8 DEF SweepStep, CodStep, Sweep, Begin, InsertFailed
  <2>3. op'[p].kind # "commit" /\ OthersAsWere(p)
    BY <1>1, <2>2 DEF Call, OthersAsWere
  <2>4. QED
    BY <1>1, <2>1, <2>3, TakingOutside
<1>9. ASSUME NEW x \in Orders, Pay(x) \/ ClaimGoesStale(x) \/ ExpirePendingOrder(x) \/ TimeStep(x)
      PROVE  Taking(o)'
  BY <1>2, <1>9 DEF Pay, ClaimGoesStale, ExpirePendingOrder, TimeStep, Tick, invVars, history, orderVars
<1>10. ASSUME NEW r \in Rows, LockStep(r) PROVE Taking(o)'
  BY <1>2, <1>10 DEF LockStep, LockExpires, history, orderVars
<1>11. CASE UNCHANGED allVars
  BY <1>2, <1>11 DEF allVars, invVars, history, orderVars
<1>12. QED
  BY <1>3, <1>4, <1>5, <1>6, <1>7, <1>8, <1>9, <1>10, <1>11 DEF OrderNext

\* The flows, with every method they call, keep all that was proved of the
\* methods alone, and what was taken for an order is what its sale says.
LEMMA CompositionHolds == OrderSpec => [](Known /\ Counted /\ SaleInv)
<1>1. OrderInit => Known /\ Counted /\ SaleInv
  BY KnownInit, SaleInvInit, CountedInit DEF OrderInit
<1>2. Known /\ Counted /\ SaleInv /\ [OrderNext]_allVars => (Known /\ Counted /\ SaleInv)'
  BY KnownStep, SaleInvStep, InventoryKept
<1>3. QED
  BY <1>1, <1>2, PTL DEF OrderSpec

\* While live claimers are in time, a claim takes every line of its order from
\* stock once at most, on top of what the owner it took over had taken; and
\* without a takeover an order finished by a commit took all its lines, once,
\* whoever else committed, released, swept or crashed: commit_reservation under
\* the claim of _finish_post_processing, for any orders, callers and crashes.
THEOREM SaleTakesStockOnceHolds == OrderSpec => []SaleTakesStockOnce
<1>1. OrderInit => FreshInv /\ TakingInv
  BY ClaimInvInit, TakingInvInit
<1>2. Known /\ FreshInv /\ TakingInv /\ [OrderNext]_allVars => (FreshInv /\ TakingInv)'
  BY FreshInvStep, TakingInvStep DEF Known
<1>3. Known /\ SaleInv /\ TakingInv => SaleTakesStockOnce
  <2> SUFFICES ASSUME Known, SaleInv, TakingInv, NEW o \in OnlineOrders
               PROVE  /\ ~SlowClaimers \/ ~reclaimed[o] => taken[o] <= Len(Cart[o]) + before[o]
                      /\ ~reclaimed[o] /\ doc[o] = "done" /\ mirror[o] = "committed" =>
                           taken[o] = Len(Cart[o])
    BY DEF SaleTakesStockOnce
  <2>1. /\ o \in Orders /\ Sale(o) /\ Taking(o) /\ before[o] \in Int /\ taken[o] \in Int
        /\ Len(Cart[o]) \in Nat
    BY CartLength DEF SaleInv, TakingInv, OnlineOrders, BeforeOK, Known, TypeInv, DataOK, EnvOK
  <2>2. QED
    BY <2>1 DEF Sale, Sold, Taking
<1>4. QED
  BY <1>1, <1>2, <1>3, CompositionHolds, PTL DEF OrderSpec

\* Without a crash, a finished order nobody works on holds nothing in
\* inv:pending: its commit gave back every line, or the sweep's release did.
THEOREM DoneOrderHoldsNothingHolds == OrderSpec => []DoneOrderHoldsNothing
<1>1. ASSUME Known, SaleInv, crashes = 0, NEW o \in Orders,
             doc[o] = "done", ~reclaimed[o], ~Busy(o)
      PROVE  hold[o] = {}
  <2>1. CASE o \in CodOrders
    BY <1>1, <2>1 DEF Known, LifeInv, Record
  <2>2. CASE o \in OnlineOrders
    <3>1. Sold(o)
      BY <1>1, <2>2 DEF SaleInv, Sale
    <3>2. hold[o] = {} \/ mirror[o] \in {"reserved", "committed"}
      BY <1>1 DEF Known, LifeInv, Settled, Busy
    <3>3. QED
      BY <3>1, <3>2 DEF Sold
  <2>3. QED
    BY <2>1, <2>2 DEF OnlineOrders
<1>2. Known /\ SaleInv => DoneOrderHoldsNothing
  BY <1>1 DEF DoneOrderHoldsNothing
<1>3. QED
  BY <1>2, CompositionHolds, PTL

-----------------------------------------------------------------------------
(* What was proved of the methods alone, of the composition.               *)

\* A call or a death outside the methods disturbs no lock and no claim.
LEMMA OutsideMethods ==
  ASSUME TypeInv, NEW c \in Procs,
         \/ \E o \in Orders, kind \in {"commit", "release"} : CallStep(c, o, kind)
         \/ DeathStep(c)
  PROVE  mirror' = mirror /\ (LockInv => LockInv') /\ (MirrorInv => MirrorInv')
<1>1. /\ mirror' = mirror /\ lock' = lock /\ OthersAsWere(c)
      /\ op'[c].from = "none" /\ op'[c].at \notin Holding
  <2>1. op \in [Procs -> OpType]
    BY DEF TypeInv, OpOK
  <2>2. ASSUME NEW o \in Orders, NEW kind \in {"commit", "release"}, CallStep(c, o, kind)
        PROVE  /\ mirror' = mirror /\ lock' = lock /\ OthersAsWere(c)
               /\ op'[c].from = "none" /\ op'[c].at \notin Holding
    BY <2>1, <2>2 DEF CallStep, InventoryRests, shared, Call, First, OthersAsWere, Holding
  <2>3. CASE DeathStep(c)
    BY <2>1, <2>3 DEF DeathStep, shared, Return, Ended, OthersAsWere, Holding
  <2>4. QED
    BY <2>2, <2>3
<1>2. LockInv => LockInv'
  BY <1>1, OthersHold DEF TypeInv, OpOK, OthersAsWere
<1>3. MirrorInv => MirrorInv'
  BY <1>1 DEF MirrorInv, Claimed, OthersAsWere
<1>4. QED
  BY <1>1, <1>2, <1>3

\* Under the whole order protocol, too, a row's critical section is exclusive,
\* a mirror is claimed once, a cash sale is accounted for, no hold is leaked and
\* inv:pending counts no unit nobody holds: the way complete_pending_order and
\* its callers use InventoryService is within what the service was proved for.
THEOREM MethodsKeepPromises ==
  OrderSpec => [](LockExclusive /\ MirrorClaimedOnce /\ SaleIsAccounted /\ NoLeakedHold
                    /\ PendingNeverOverstates)
<1>1. OrderInit => LockInv /\ MirrorInv
  BY DEF OrderInit, Init, LockInv, HolderHasLock, LockExclusive, Holds, Ended, MirrorInv, Claimed
<1>2. Known /\ [OrderNext]_allVars /\ LockInv /\ MirrorInv => (LockInv /\ MirrorInv)'
  BY InventoryCases, OutsideMethods, LockNext, MirrorNext DEF Known
<1>3. Known /\ Counted /\ LockInv /\ MirrorInv =>
        /\ LockExclusive /\ MirrorClaimedOnce /\ SaleIsAccounted /\ NoLeakedHold
        /\ PendingNeverOverstates
  <2>1. LockInv => LockExclusive
    BY DEF LockInv, LockExclusive
  <2>2. MirrorInv => MirrorClaimedOnce
    BY DEF MirrorInv, Claimed, MirrorClaimedOnce
  <2>3. LifeInv => SaleIsAccounted
    BY OrdersAssumption DEF LifeInv, Record, Settled, SaleIsAccounted, Busy, Unattended
  <2>4. LifeInv => NoLeakedHold
    BY DEF LifeInv, Settled, NoLeakedHold, Busy
  <2>5. Counted => PendingNeverOverstates
    BY DEF Counted, PendingNeverOverstates
  <2>6. QED
    BY <2>1, <2>2, <2>3, <2>4, <2>5 DEF Known
<1>4. QED
  BY <1>1, <1>2, <1>3, CompositionHolds, PTL DEF OrderSpec

\* A resolved mirror stays resolved under the whole order protocol.
THEOREM MirrorStaysFinal == OrderSpec => MirrorFinal
<1>1. Known /\ [OrderNext]_allVars
        => [\A o \in Orders :
              mirror[o] \in {"committed", "released"}
                => mirror'[o] = mirror[o]]_invVars
  BY InventoryCases, OutsideMethods, MirrorMoves DEF Known
<1>2. QED
  BY <1>1, CompositionHolds, PTL DEF OrderSpec, MirrorFinal

\* pending_order:<id> is absent, or written once or twice.
PendOrderOK == pendOrder \in [Orders -> {"none", "bare", "full"}]

LEMMA PendOrderStep ==
  ASSUME PendOrderOK, [OrderNext]_allVars
  PROVE  PendOrderOK'
<1>1. ASSUME NEW c \in Procs, FlowStep(c) PROVE PendOrderOK'
  BY <1>1 DEF PendOrderOK, FlowStep, WritePendingOrder, CreateRazorpayOrder, RecordAttempt,
     FindOrder, GetPendingOrder, FindOrderAgain, LoadSnapshot, AmountMatches, LookupRaises,
     UpsertOrder, Claim, CommitReturned, Announce, MarkResolved, MarkDone, DeletePendingOrder,
     AlreadyProcessed, AbandonAttempt
<1>2. ASSUME NEW p \in Procs, InventoryStep(p) \/ FlowCrash(p) PROVE PendOrderOK'
  BY <1>2 DEF PendOrderOK, InventoryStep, FlowCrash, orderVars
<1>3. ASSUME NEW p \in Procs, NEW o \in Orders,
             \/ StartInitiate(p, o) \/ LookUpPayment(p, o)
             \/ \E source \in Sources : StartComplete(p, o, source)
             \/ SweepStep(p, o) \/ CodStep(p, o)
      PROVE  PendOrderOK'
  BY <1>3 DEF PendOrderOK, StartInitiate, LookUpPayment, StartComplete, SweepStep, CodStep, orderVars
<1>4. ASSUME NEW o \in Orders, Pay(o) \/ ClaimGoesStale(o) \/ ExpirePendingOrder(o) \/ TimeStep(o)
      PROVE  PendOrderOK'
  BY <1>4 DEF PendOrderOK, Pay, ClaimGoesStale, ExpirePendingOrder, TimeStep, orderVars
<1>5. ASSUME NEW r \in Rows, LockStep(r) PROVE PendOrderOK'
  BY <1>5 DEF PendOrderOK, LockStep, orderVars
<1>6. CASE UNCHANGED allVars
  BY <1>6 DEF PendOrderOK, allVars, orderVars
<1>7. QED
  BY <1>1, <1>2, <1>3, <1>4, <1>5, <1>6 DEF OrderNext

\* Every variable of the composition keeps its type: the flows call the
\* methods of the inventory with the orders and in the states they expect.
THEOREM OrderTypeOKHolds == OrderSpec => []OrderTypeOK
<1>1. OrderInit => PendOrderOK /\ BeforeOK
  BY DEF OrderInit, PendOrderOK, BeforeOK
<1>2. Known /\ PendOrderOK /\ BeforeOK => OrderTypeOK
  BY TypeInvImpliesTypeOK
  DEF Known, TypesInv, FlowsOK, RecordsOK, PendOrderOK, BeforeOK, OrderTypeOK
<1>3. QED
  BY <1>1, <1>2, PendOrderStep, BeforeStep, CompositionHolds, PTL DEF OrderSpec
=============================================================================
