------------------------------- MODULE Billing -------------------------------
(* What an order is billed: the discount taken at checkout, the lines of    *)
(* the invoice, and the invoice number, given once and for ever while       *)
(* administrators export, restore and wipe the orders.  Money is in paise.  *)
EXTENDS Integers, Sequences, FiniteSets, SequencesExt

CONSTANTS Sales,      \* order ids
          Clerks,     \* requests for an invoice that run at one time
          MaxNumbers, \* bound: numbers drawn from the counter
          MaxIds,     \* bound: _ids given to the document of an order
          Quotes      \* carts with a coupon: what is billed

ASSUME BillAssumption == MaxNumbers \in Nat /\ MaxIds \in Nat \ {0}

(* A percentage is at most 100, as CouponCreate validates (two edits of a   *)
(* coupon at one time can break that, see Records).                         *)
IsCart(q) ==
  /\ q.lines \in Seq(Nat) /\ q.mask \in [DOMAIN q.lines -> BOOLEAN]
  /\ q.percent \in BOOLEAN /\ q.amount \in Nat /\ (q.percent => q.amount <= 100)
  /\ q.shipping \in Nat /\ q.rate \in Nat
ASSUME QuotesAssumption == \A q \in Quotes : IsCart(q)

VARIABLES quote,     \* the cart of this run
          book,      \* the orders collection: _id and invoice_number
          seq,       \* counters.invoice_number_<year>
          file,      \* an exported backup, document by document
          draft,     \* the requests for an invoice
          restoring, \* what is left of a running restore
          told,      \* history: the numbers given out for an order
          reverted,  \* history: orders that lost their number to a restore
          dbLost     \* history: whether the database volume was wiped

billVars == <<quote, book, seq, file, draft, restoring, told, reverted, dbLost>>

NoDoc == [id |-> 0, number |-> 0]
NoDraft == [pc |-> "idle"]
NoRestore == [mode |-> "none", left |-> {}]

BillInit ==
  /\ quote \in Quotes
  /\ book = [o \in Sales |-> NoDoc]
  /\ seq = 0
  /\ file = [o \in Sales |-> NoDoc]
  /\ draft = [c \in Clerks |-> NoDraft]
  /\ restoring = NoRestore
  /\ told = [o \in Sales |-> {}]
  /\ reverted = {} /\ dbLost = FALSE

-----------------------------------------------------------------------------
(* Pricing.  A quotient rounded half up, as money() rounds.                 *)
Quotient(a, b) == (2 * a + b) \div (2 * b)
Sum(s) == FoldLeft(LAMBDA x, y : x + y, 0, s)
Least(a, b) == IF a <= b THEN a ELSE b
(* Amounts of the lines a PRODUCT coupon names, zero elsewhere.             *)
Eligible(lines, mask) == [i \in DOMAIN lines |-> IF mask[i] THEN lines[i] ELSE 0]

(* compute_discount                                                         *)
Discount(q) ==
  LET eligible == Sum(Eligible(q.lines, q.mask))
      computed == IF q.percent THEN Quotient(eligible * q.amount, 100)
                  ELSE Least(q.amount, eligible)
  IN Least(computed, Sum(q.lines))

Total(q) == Sum(q.lines) - Discount(q) + q.shipping

(* allocate_shares: every eligible line but the last bears its rounded      *)
(* part, the last one what remains.                                         *)
OwnPart(parts, cap, i) == parts[i]
RestOf(parts, cap, i) == cap - Sum(SubSeq(parts, 1, i - 1))

AllocateShares(lines, share, mask) ==
  LET amounts == Eligible(lines, mask)
      total == Sum(amounts)
      cap == Least(share, total)
      last(i) == \A j \in DOMAIN lines : mask[j] => j <= i
      parts == [i \in DOMAIN lines |-> IF total = 0 THEN 0
                                       ELSE Quotient(cap * amounts[i], total)]
  IN [i \in DOMAIN lines |-> IF cap > 0 /\ mask[i] /\ last(i)
                             THEN RestOf(parts, cap, i) ELSE parts[i]]

(* _tax_lines: the price includes the tax; what rounding leaves goes to the *)
(* tax, and of an odd tax the second half is the smaller one.               *)
TaxLine(net, rate) ==
  LET taxable == Quotient(net * 100, 100 + rate)
      half == Quotient(net - taxable, 2)
  IN [taxable |-> taxable, cgst |-> half, sgst |-> net - taxable - half]

InvoiceLines(q) ==
  LET shares == AllocateShares(q.lines, Discount(q), q.mask)
  IN [i \in DOMAIN q.lines |-> TaxLine(q.lines[i] - shares[i], q.rate)]

-----------------------------------------------------------------------------
(* get_or_assign_invoice_number                                             *)
Told(o, n) == told' = [told EXCEPT ![o] = @ \cup {n}]
EndDraft(c) == draft' = [draft EXCEPT ![c] = NoDraft]

PlaceSale(o) ==
  /\ book[o] = NoDoc /\ file[o] = NoDoc /\ told[o] = {} /\ o \notin reverted
  /\ book' = [book EXCEPT ![o] = [id |-> 1, number |-> 0]]
  /\ UNCHANGED <<quote, seq, file, draft, restoring, told, reverted, dbLost>>

OpenInvoice(c, o) ==
  /\ draft[c].pc = "idle" /\ book[o] # NoDoc
  /\ IF book[o].number # 0
     THEN Told(o, book[o].number) /\ UNCHANGED draft
     ELSE /\ draft' = [draft EXCEPT ![c] = [pc |-> "count", sale |-> o, number |-> 0]]
          /\ UNCHANGED told
  /\ UNCHANGED <<quote, book, seq, file, restoring, reverted, dbLost>>

CountInvoice(c) ==
  /\ draft[c].pc = "count" /\ seq < MaxNumbers
  /\ seq' = seq + 1
  /\ draft' = [draft EXCEPT ![c].pc = "claim", ![c].number = seq + 1]
  /\ UNCHANGED <<quote, book, file, restoring, told, reverted, dbLost>>

Exists(o) == book[o] # NoDoc
Unnumbered(o) == book[o] # NoDoc /\ book[o].number = 0

(* Only an order without a number takes this one.                           *)
ClaimNumber(c) ==
  LET o == draft[c].sale
  IN /\ draft[c].pc = "claim"
     /\ IF Unnumbered(o)
        THEN /\ book' = [book EXCEPT ![o].number = draft[c].number]
             /\ Told(o, draft[c].number)
             /\ EndDraft(c)
        ELSE draft' = [draft EXCEPT ![c].pc = "reread"] /\ UNCHANGED <<book, told>>
     /\ UNCHANGED <<quote, seq, file, restoring, reverted, dbLost>>

(* Without a document or a number left, the request fails.                  *)
Reread(c) ==
  LET o == draft[c].sale
  IN /\ draft[c].pc = "reread"
     /\ IF book[o].number # 0 THEN Told(o, book[o].number) ELSE UNCHANGED told
     /\ EndDraft(c)
     /\ UNCHANGED <<quote, book, seq, file, restoring, reverted, dbLost>>

-----------------------------------------------------------------------------
(* Backup and restore of the orders.  A cursor exports one document after   *)
(* the other; a restore writes one after the other and may break off.       *)
(* Bound: each document is exported once.                                   *)
Replace(o, doc) ==
  /\ book' = [book EXCEPT ![o] = doc]
  /\ reverted' = IF book[o].number \notin {0, doc.number} THEN reverted \cup {o} ELSE reverted

Export(o) ==
  /\ restoring = NoRestore /\ book[o] # NoDoc /\ file[o] = NoDoc
  /\ file' = [file EXCEPT ![o] = book[o]]
  /\ UNCHANGED <<quote, book, seq, draft, restoring, told, reverted, dbLost>>

StartRestore(mode) ==
  /\ restoring = NoRestore
  /\ restoring' = [mode |-> mode, left |-> {o \in Sales : file[o] # NoDoc}]
  /\ IF mode = "wipe"     \* delete_many
     THEN /\ book' = [o \in Sales |-> NoDoc]
          /\ reverted' = reverted \cup {o \in Sales : book[o].number # 0}
     ELSE UNCHANGED <<book, reverted>>
  /\ UNCHANGED <<quote, seq, file, draft, told, dbLost>>

(* The bundle upserts by order_id, leaving the _id or taking a new one; the *)
(* raw import upserts by _id, and the unique order_id refuses a second      *)
(* document of the order: the restore ends there.                           *)
RestoreDoc(o) ==
  LET left == restoring.left \ {o}
      refused == /\ restoring.mode # "bundle"
                 /\ book[o] # NoDoc /\ book[o].id # file[o].id
      id == IF restoring.mode # "bundle" THEN file[o].id
            ELSE IF book[o] # NoDoc THEN book[o].id
            ELSE IF file[o].id < MaxIds THEN file[o].id + 1 ELSE MaxIds
  IN /\ o \in restoring.left
     /\ IF refused
        THEN restoring' = NoRestore /\ UNCHANGED <<book, reverted>>
        ELSE /\ Replace(o, [file[o] EXCEPT !.id = id])
             /\ restoring' = IF left = {} THEN NoRestore ELSE [restoring EXCEPT !.left = left]
     /\ UNCHANGED <<quote, seq, file, draft, told, dbLost>>

BreakOffRestore ==
  /\ restoring # NoRestore
  /\ restoring' = NoRestore
  /\ UNCHANGED <<quote, book, seq, file, draft, told, reverted, dbLost>>

(* The volume is wiped, the counters with it; no backup carries them.       *)
LoseDatabase ==
  /\ ~dbLost /\ dbLost' = TRUE
  /\ book' = [o \in Sales |-> NoDoc]
  /\ reverted' = reverted \cup {o \in Sales : book[o].number # 0}
  /\ seq' = 0
  /\ draft' = [c \in Clerks |-> NoDraft] /\ restoring' = NoRestore
  /\ UNCHANGED <<quote, file, told>>

BillNext ==
  \/ \E o \in Sales :
       \/ PlaceSale(o) \/ Export(o) \/ RestoreDoc(o)
       \/ \E c \in Clerks : OpenInvoice(c, o)
  \/ \E c \in Clerks : CountInvoice(c) \/ ClaimNumber(c) \/ Reread(c)
  \/ \E mode \in {"bundle", "merge", "wipe"} : StartRestore(mode)
  \/ BreakOffRestore \/ LoseDatabase

BillSpec == BillInit /\ [][BillNext]_billVars

-----------------------------------------------------------------------------
BillTypeOK ==
  /\ \A o \in Sales : book[o].number \in 0 .. MaxNumbers /\ book[o].id \in 0 .. MaxIds
  /\ seq \in 0 .. MaxNumbers
  /\ restoring.left \subseteq Sales

(* An order is given one invoice number, unless a restore took its number   *)
(* away, and no two orders the same one, unless the counters were lost,     *)
(* whatever requests, restores and wipes interleave.                        *)
InvoicesNumberedOnce ==
  /\ \A o \in Sales \ reverted : Cardinality(told[o]) <= 1
  /\ ~dbLost => \A o, p \in Sales : o # p => told[o] \cap told[p] = {}

(* The lines of the invoice, tax included, add up to what the customer was  *)
(* charged for the goods, to the paisa; the discount lies on the lines the  *)
(* coupon names, and the rounding moves at most half a paisa per line.      *)
InvoiceAddsUp ==
  LET q == quote
      lines == InvoiceLines(q)
      shares == AllocateShares(q.lines, Discount(q), q.mask)
      eligible == Sum(Eligible(q.lines, q.mask))
  IN /\ Sum([i \in DOMAIN lines |-> lines[i].taxable + lines[i].cgst + lines[i].sgst])
          + q.shipping = Total(q)
     /\ \A i \in DOMAIN lines :
          /\ ~q.mask[i] => shares[i] = 0
          /\ lines[i].cgst - lines[i].sgst \in {0, 1}
          /\ LET off == 2 * (shares[i] * eligible - Discount(q) * q.lines[i])
             IN q.mask[i] => /\ off <= Len(lines) * eligible
                             /\ -off <= Len(lines) * eligible
=============================================================================
