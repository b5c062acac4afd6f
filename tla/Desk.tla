-------------------------------- MODULE Desk --------------------------------
(* One order at the desk of the administrators: OrderService.               *)
(* create_from_admin and the writes that follow it, each with its entry in  *)
(* the order's ledger, next to the courier, who moves the status without    *)
(* one.  A write reads what was there before, writes whatever is there by   *)
(* now and appends its entry last, if it can.                               *)
EXTENDS Integers, Sequences, SequencesExt

CONSTANTS Admins,   \* administrators at work at the same time
          MaxEdits  \* bound: writes after the creation

ASSUME DeskAssumption == MaxEdits \in Nat

VARIABLES desk,     \* the order; its payment is "none" before it exists
          taken,    \* how often its items were taken from the stock
          ledger,   \* order_events of the order, oldest first
          task,     \* what each administrator, or the courier, is doing
          edits,
          lost,     \* history: an entry that could not be appended
          crossed,  \* history: two of them were at work at once
          courier   \* history: statuses the courier has written

deskVars == <<desk, taken, ledger, task, edits, lost, crossed, courier>>

Courier == "courier"
Actors == Admins \cup {Courier}
Fields == {"status", "custom_status", "payment", "fulfillment", "notes"}
Values == [status |-> {"accepted", "rejected", "delivered"}, custom_status |-> {"none", "refunded"},
           payment |-> {"completed"}, fulfillment |-> {"packed"}, notes |-> {"noted"}]
Blank == [status |-> "accepted", custom_status |-> "none", payment |-> "none",
          fulfillment |-> "pending", notes |-> "none"]
Rest == [at |-> "rest", field |-> "status", from |-> "none", to |-> "none"]
Exists == desk.payment # "none"
Engaged(a, at) == task[a].at = at
Resting(a) == Engaged(a, "rest")
On(a, at) == task' = [task EXCEPT ![a].at = at]
Off(a) == task' = [task EXCEPT ![a] = Rest]
Begin(a, job) ==
  /\ Resting(a) /\ task' = [task EXCEPT ![a] = job]
  /\ crossed' = (crossed \/ \E b \in Actors : ~Resting(b))

DeskInit ==
  /\ desk = Blank /\ taken = 0 /\ ledger = <<>>
  /\ task = [a \in Actors |-> Rest] /\ edits = 0
  /\ lost = FALSE /\ crossed = FALSE /\ courier = {}

-----------------------------------------------------------------------------
(* create_from_admin: validated, judged, paid for or not.                   *)

TakeOrder(a) ==
  /\ a \in Admins /\ ~Exists /\ edits = 0 /\ \A b \in Actors : Resting(b)
  /\ \E paid \in {"completed", "pending"} :
       Begin(a, [Rest EXCEPT !.at = IF paid = "completed" THEN "stock" ELSE "insert", !.to = paid])
  /\ edits' = 1 /\ UNCHANGED <<desk, taken, ledger, lost, courier>>

(* Only the stock of an order that is paid for is taken, now or never.      *)
TakeStock(a) ==
  /\ Engaged(a, "stock")
  /\ \/ On(a, "insert") /\ taken' = taken + 1
     \/ Off(a) /\ UNCHANGED taken
  /\ UNCHANGED <<desk, ledger, edits, lost, crossed, courier>>

(* An insert that raises gives the stock back, also when it took place.     *)
InsertOrder(a) ==
  LET inserted == [desk EXCEPT !.payment = task[a].to]
  IN /\ Engaged(a, "insert")
     /\ \/ desk' = inserted /\ On(a, "log") /\ UNCHANGED <<taken, lost>>
        \/ taken' = 0 /\ Off(a) /\ UNCHANGED <<desk, lost>>
        \/ taken' = 0 /\ Off(a) /\ desk' = inserted /\ lost' = TRUE
     /\ UNCHANGED <<ledger, edits, crossed, courier>>

(* order_logs is written outside of that: when it raises, the order exists  *)
(* and is neither announced nor entered.                                    *)
LogOrder(a) ==
  /\ Engaged(a, "log")
  /\ \/ On(a, "announce") /\ UNCHANGED lost
     \/ Off(a) /\ lost' = TRUE
  /\ UNCHANGED <<desk, taken, ledger, edits, crossed, courier>>

Entry(field, from, to) == [field |-> field, from |-> from, to |-> to]
AppendEvent(entry) ==
  \/ ledger' = Append(ledger, entry) /\ UNCHANGED lost
  \/ UNCHANGED ledger /\ lost' = TRUE
Announce(a) ==
  /\ Engaged(a, "announce") /\ Off(a) /\ AppendEvent(Entry("created", "none", task[a].to))
  /\ UNCHANGED <<desk, taken, edits, crossed, courier>>

-----------------------------------------------------------------------------
(* The writes: what was there before is read first, or not at all.          *)

Reads(field) == field \in {"status", "custom_status", "fulfillment"}
EditOrder(a, field) ==
  /\ a \in Admins /\ Exists /\ edits < MaxEdits /\ edits' = edits + 1
  /\ \E to \in Values[field] :
       Begin(a, [at |-> "write", field |-> field, to |-> to,
                 from |-> IF Reads(field) THEN desk[field] ELSE "unread"])
  /\ UNCHANGED <<desk, taken, ledger, lost, courier>>

ChangeStatus(a) == EditOrder(a, "status")
MarkPaymentCollected(a) == EditOrder(a, "payment")
SetCustomStatus(a) == EditOrder(a, "custom_status")
AddNote(a) == EditOrder(a, "notes")
PackOrder(a) == EditOrder(a, "fulfillment")

(* Mutant of WriteField: the entry's "from" is read after the write.        *)
WriteThenRead(a) ==
  /\ Engaged(a, "write") /\ a # Courier
  /\ desk' = [desk EXCEPT ![task[a].field] = task[a].to]
  /\ task' = [task EXCEPT ![a].at = "append",
                          ![a].from = IF Reads(task[a].field) THEN task[a].to ELSE @]
  /\ UNCHANGED <<taken, ledger, edits, lost, crossed, courier>>

WriteField(a) ==
  /\ Engaged(a, "write") /\ a # Courier
  /\ desk' = [desk EXCEPT ![task[a].field] = task[a].to] /\ On(a, "append")
  /\ UNCHANGED <<taken, ledger, edits, lost, crossed, courier>>

AppendField(a) ==
  /\ Engaged(a, "append") /\ Off(a)
  /\ AppendEvent(Entry(task[a].field, task[a].from, task[a].to))
  /\ UNCHANGED <<desk, taken, edits, crossed, courier>>

(* The courier's news, decided on the order that was read; a rejected one   *)
(* is left alone.                                                           *)
CourierReads ==
  /\ Exists /\ edits < MaxEdits /\ edits' = edits + 1
  /\ desk.status \notin {"rejected", "delivered"}
  /\ Begin(Courier, [Rest EXCEPT !.at = "write", !.to = "delivered"])
  /\ UNCHANGED <<desk, taken, ledger, lost, courier>>
CourierWrites ==
  /\ Engaged(Courier, "write") /\ Off(Courier)
  /\ desk' = [desk EXCEPT !.status = task[Courier].to] /\ courier' = courier \cup {task[Courier].to}
  /\ UNCHANGED <<taken, ledger, edits, lost, crossed>>

(* The process of an administrator dies.                                    *)
LeaveDesk(a) ==
  /\ ~Resting(a) /\ Off(a)
  /\ lost' = (lost \/ task[a].at \in {"append", "log", "announce"})
  /\ UNCHANGED <<desk, taken, ledger, edits, crossed, courier>>

DeskNext ==
  \/ \E a \in Admins :
       \/ TakeOrder(a) \/ TakeStock(a) \/ InsertOrder(a) \/ LogOrder(a) \/ Announce(a)
       \/ ChangeStatus(a) \/ MarkPaymentCollected(a) \/ SetCustomStatus(a) \/ AddNote(a)
       \/ PackOrder(a) \/ WriteField(a) \/ AppendField(a) \/ LeaveDesk(a)
  \/ CourierReads \/ CourierWrites

DeskSpec == DeskInit /\ [][DeskNext]_deskVars

-----------------------------------------------------------------------------
EntriesOf(field) == {i \in DOMAIN ledger : ledger[i].field = field}
Told(field) == {ledger[i].to : i \in EntriesOf(field)}

(* What the first n entries of the ledger leave in a field.                 *)
Said(field, n) ==
  LET entries == EntriesOf(field) \cap 1 .. n
  IN IF entries = {} THEN Blank[field] ELSE ledger[Max(entries)].to

(* When every entry got there and everybody is done, whatever an            *)
(* administrator or the courier has left in the order can be found in its   *)
(* ledger, or was the courier's, and stock was taken of exactly the orders  *)
(* that were paid for when they were entered.  As long as no two of them    *)
(* were at work at once, the entries of a field are its history: each       *)
(* starts where the one before it ended, the last one with what the order   *)
(* says.                                                                    *)
LedgerTellsHistory ==
  ~lost /\ Exists /\ (\A a \in Actors : Resting(a)) =>
    /\ desk.status \in {Blank.status} \cup Told("status") \cup courier
    /\ \A f \in Fields \ {"status", "payment"} : desk[f] \in {Blank[f]} \cup Told(f)
    /\ desk.payment \in Told("created") \cup Told("payment")
    /\ (taken = 1) = ("completed" \in Told("created"))
    /\ ~crossed /\ courier = {} => \A f \in {"status", "custom_status"} :
         /\ \A i \in EntriesOf(f) : ledger[i].from = Said(f, i - 1)
         /\ desk[f] = Said(f, Len(ledger))
=============================================================================
