------------------------------- MODULE Sales -------------------------------
(***************************************************************************)
(* From lead to receipt: backend/app/modules/sales (service.py,            *)
(* invoicing.py, repository.py) with the postings it makes through         *)
(* accounting/service.py.                                                  *)
(*                                                                         *)
(* One organisation.  A request is one step: its reads, checks, postings   *)
(* and row updates commit together or not at all.  Requests that overlap   *)
(* are not covered; nothing here locks the rows it reads.  Every date      *)
(* falls in an open period (modules Posting and Books have the calendar),  *)
(* numbers, names, notes and audit rows are left out, and a deleted row    *)
(* keeps its index.                                                        *)
(*                                                                         *)
(* A journal entry is the signed amount it puts on each account, debits    *)
(* positive.                                                               *)
(*                                                                         *)
(* An operator named Mut_... is a plausible mistake in the operator after  *)
(* it; nothing here uses it.                                               *)
(***************************************************************************)
EXTENDS Gst

CONSTANTS
    Operations,         \* the endpoints that clients use
    SellerState,        \* the organisation's own state code, 0: none
    CustomerForms,      \* [state, country, exempt] a customer may have
    Documents,          \* the line lists clients send
    Amounts,            \* the amounts customers pay and clerks allocate
    DepositAccounts,    \* where receipts land: cash, bank or an account chosen
    MaxRows,            \* by table
    MaxRequests

VARIABLES customers, leads, quotations, orders, invoices, payments, entries, served

tables == <<customers, leads, quotations, orders, invoices, payments, entries>>
vars == <<tables, served>>

LineAccounts == UNION {{d[k].account : k \in DOMAIN d} : d \in Documents}
Accounts == {"receivable", "gst_output", "rounding"} \cup DepositAccounts \cup LineAccounts

SalesLineInput == [quantity: Nat, unit_price: Nat, tax_rate: Nat, discount_percent: 0 .. 100,
                   discount_amount: Nat \cup {None}, account: LineAccounts]

ASSUME SalesAssumption ==
    /\ Documents \subseteq Seq(SalesLineInput)
    /\ IsFiniteSet(Accounts)
    /\ Amounts \subseteq Nat \ {0}
    /\ {MaxRows.invoices, MaxRequests} \subseteq Nat

Serve(op) == op \in Operations /\ served < MaxRequests /\ served' = served + 1
Room(rows, table) == Len(rows) < MaxRows[table]

----------------------------------------------------------------------------
(* The ledger.                                                             *)

JournalEntry(amounts) == [amounts |-> amounts, reversed |-> FALSE]
On(account, a, amount) == IF a = account THEN amount ELSE 0

\* create_entry with post=True refuses lines that do not balance.
Balanced(amounts) == SumOf(LAMBDA a : amounts[a], Accounts) = 0
create_entry(amounts) ==
    /\ Balanced(amounts)
    /\ entries' = Append(entries, JournalEntry(amounts))

\* Both entries stay and sum to zero, so a reversal only marks its original.
reverse_entry(e) ==
    /\ ~entries[e].reversed
    /\ entries' = [entries EXCEPT ![e].reversed = TRUE]

Balance(a) ==
    SumOf(LAMBDA e : IF entries[e].reversed THEN 0 ELSE entries[e].amounts[a],
          DOMAIN entries)

----------------------------------------------------------------------------
(* Customers and leads.                                                    *)

Customer(form) == [form |-> form, active |-> TRUE, deleted |-> FALSE]
Lead == [status |-> "new", customer |-> 0]
LeadStatus == {"new", "contacted", "lost"}

_customer(c) == customers[c].active /\ ~customers[c].deleted
_treatment(c) == resolve_treatment(SellerState, customers[c].form)

create_customer ==
    /\ Serve("create_customer") /\ Room(customers, "customers")
    /\ \E form \in CustomerForms : customers' = Append(customers, Customer(form))
    /\ UNCHANGED <<leads, quotations, orders, invoices, payments, entries>>

update_customer(c) ==
    /\ Serve("update_customer") /\ ~customers[c].deleted
    /\ \E form \in CustomerForms, active \in BOOLEAN :
        customers' = [customers EXCEPT ![c].form = form, ![c].active = active]
    /\ UNCHANGED <<leads, quotations, orders, invoices, payments, entries>>

delete_customer(c) ==
    /\ Serve("delete_customer") /\ ~customers[c].deleted
    /\ \A i \in DOMAIN invoices : invoices[i].customer = c => invoices[i].deleted
    /\ customers' = [customers EXCEPT ![c].deleted = TRUE]
    /\ UNCHANGED <<leads, quotations, orders, invoices, payments, entries>>

create_lead ==
    /\ Serve("create_lead") /\ Room(leads, "leads")
    /\ leads' = Append(leads, Lead)
    /\ UNCHANGED <<customers, quotations, orders, invoices, payments, entries>>

update_lead(l) ==
    /\ Serve("update_lead")
    /\ \E status \in LeadStatus : leads' = [leads EXCEPT ![l].status = status]
    /\ UNCHANGED <<customers, quotations, orders, invoices, payments, entries>>

convert_lead(l) ==
    /\ Serve("convert_lead") /\ Room(customers, "customers")
    /\ leads[l].customer = 0
    /\ \E form \in CustomerForms : customers' = Append(customers, Customer(form))
    /\ leads' = [leads EXCEPT ![l] = [status |-> "won", customer |-> Len(customers) + 1]]
    /\ UNCHANGED <<quotations, orders, invoices, payments, entries>>

----------------------------------------------------------------------------
(* Quotations.                                                             *)

\* LineBuilder: the lines as sent, computed under the customer's treatment.
Computed(doc, c) == [k \in DOMAIN doc |-> compute_line(doc[k], _treatment(c))]
Totals(doc, c, whole) == compute_document(Computed(doc, c), whole)

Quotation(c, doc, whole) ==
    [customer |-> c, doc |-> doc, round_off |-> Totals(doc, c, whole).round_off,
     grand |-> Totals(doc, c, whole).grand, status |-> "draft"]

create_quotation(c, doc, whole) ==
    /\ Serve("create_quotation") /\ Room(quotations, "quotations") /\ _customer(c)
    /\ quotations' = Append(quotations, Quotation(c, doc, whole))
    /\ UNCHANGED <<customers, leads, orders, invoices, payments, entries>>

update_quotation(q, doc, whole) ==
    LET row == quotations[q]
    IN  /\ Serve("update_quotation") /\ _customer(row.customer)
        /\ row.status \notin {"converted", "accepted"}
        /\ quotations' = [quotations EXCEPT ![q] =
                [Quotation(row.customer, doc, whole \/ row.round_off # 0)
                    EXCEPT !.status = row.status]]
        /\ UNCHANGED <<customers, leads, orders, invoices, payments, entries>>

mark_sent(q) ==
    /\ Serve("mark_sent") /\ quotations[q].status = "draft"
    /\ quotations' = [quotations EXCEPT ![q].status = "sent"]
    /\ UNCHANGED <<customers, leads, orders, invoices, payments, entries>>

respond(q) ==
    /\ Serve("respond") /\ quotations[q].status \in {"draft", "sent"}
    /\ \E answer \in {"accepted", "rejected"} :
        quotations' = [quotations EXCEPT ![q].status = answer]
    /\ UNCHANGED <<customers, leads, orders, invoices, payments, entries>>

----------------------------------------------------------------------------
(* Orders.                                                                 *)

SalesOrder(c, doc, whole) ==
    [customer |-> c, grand |-> Totals(doc, c, whole).grand, invoiced |-> 0,
     status |-> "draft"]

create_order(c, doc, whole) ==
    /\ Serve("create_order") /\ Room(orders, "orders") /\ _customer(c)
    /\ orders' = Append(orders, SalesOrder(c, doc, whole))
    /\ UNCHANGED <<customers, leads, quotations, invoices, payments, entries>>

\* The lines are copied without their discount amounts.
Carried(doc) == [k \in DOMAIN doc |-> [doc[k] EXCEPT !.discount_amount = None]]

from_quotation(q) ==
    LET row == quotations[q]
    IN  /\ Serve("from_quotation") /\ Room(orders, "orders") /\ _customer(row.customer)
        /\ row.status \notin {"converted", "rejected"}
        /\ orders' = Append(orders,
                SalesOrder(row.customer, Carried(row.doc), row.round_off # 0))
        /\ quotations' = [quotations EXCEPT ![q].status = "converted"]
        /\ UNCHANGED <<customers, leads, invoices, payments, entries>>

confirm_order(o) ==
    /\ Serve("confirm_order") /\ orders[o].status = "draft"
    /\ orders' = [orders EXCEPT ![o].status = "confirmed"]
    /\ UNCHANGED <<customers, leads, quotations, invoices, payments, entries>>

cancel_order(o) ==
    /\ Serve("cancel_order") /\ orders[o].invoiced = 0
    /\ orders' = [orders EXCEPT ![o].status = "cancelled"]
    /\ UNCHANGED <<customers, leads, quotations, invoices, payments, entries>>

\* post rolls the order forward, cancel rolls it back.
RollForward(o, grand) ==
    LET total == orders[o].invoiced + grand
    IN  [orders EXCEPT ![o].invoiced = total,
            ![o].status = IF total >= orders[o].grand THEN "invoiced"
                          ELSE "partially_invoiced"]
Mut_RollBack(o, grand) == [orders EXCEPT ![o].invoiced = 0, ![o].status = "confirmed"]
RollBack(o, grand) ==
    LET total == IF orders[o].invoiced > grand THEN orders[o].invoiced - grand ELSE 0
    IN  [orders EXCEPT ![o].invoiced = total,
            ![o].status = IF total = 0 THEN "confirmed" ELSE "partially_invoiced"]

----------------------------------------------------------------------------
(* Invoices.                                                               *)

Priced(c, doc, whole) == [lines |-> Computed(doc, c), totals |-> Totals(doc, c, whole)]
Invoice(c, o, doc, whole) ==
    [customer |-> c, order |-> o, price |-> Priced(c, doc, whole), status |-> "draft",
     paid |-> 0, entry |-> 0, deleted |-> FALSE]

grand_total(i) == invoices[i].price.totals.grand
outstanding(i) == grand_total(i) - invoices[i].paid
is_posted(i) == invoices[i].status \in {"posted", "partially_paid", "paid"}
is_editable(i) == invoices[i].status = "draft"
get_invoice(i) == ~invoices[i].deleted

\* The check constraint on invoice: only a draft has no journal entry.
posted_has_journal_entry(row) == (row.status = "draft") <=> (row.entry = 0)

\* Debit the customer; credit revenue by account, the taxes and the rounding.
Revenue(lines, a) ==
    SumOf(LAMBDA k : lines[k].taxable, {k \in DOMAIN lines : lines[k].account = a})
Mut_OneSidedRounding(price) ==
    LET t == price.totals
    IN  [a \in Accounts |->
            On("receivable", a, t.grand) - Revenue(price.lines, a)
                - On("gst_output", a, t.cgst + t.sgst + t.igst)
                - On("rounding", a, IF t.round_off > 0 THEN t.round_off ELSE 0)]
_build_posting_lines(price) ==
    LET t == price.totals
    IN  [a \in Accounts |->
            On("receivable", a, t.grand) - Revenue(price.lines, a)
                - On("gst_output", a, t.cgst + t.sgst + t.igst)
                - On("rounding", a, t.round_off)]

\* What post does to an invoice that is, or is about to be, row i.
Posted(row, i) ==
    /\ row.price.totals.grand > 0
    /\ create_entry(_build_posting_lines(row.price))
    /\ invoices' = [k \in DOMAIN invoices \cup {i} |->
            IF k = i THEN [row EXCEPT !.status = "posted", !.entry = Len(entries) + 1]
            ELSE invoices[k]]
    /\ orders' = IF row.order = 0 THEN orders
                 ELSE RollForward(row.order, row.price.totals.grand)

create_invoice(c, o, doc, whole, post) ==
    LET row == Invoice(c, o, doc, whole)
    IN  /\ Serve("create_invoice") /\ Room(invoices, "invoices") /\ _customer(c)
        /\ IF post THEN Posted(row, Len(invoices) + 1)
           ELSE invoices' = Append(invoices, row) /\ UNCHANGED <<orders, entries>>
        /\ UNCHANGED <<customers, leads, quotations, payments>>

update_invoice(i, doc, whole) ==
    LET row == invoices[i]
    IN  /\ Serve("update_invoice") /\ get_invoice(i) /\ is_editable(i)
        /\ _customer(row.customer)
        /\ invoices' = [invoices EXCEPT ![i].price =
                Priced(row.customer, doc, whole \/ row.price.totals.round_off # 0)]
        /\ UNCHANGED <<customers, leads, quotations, orders, payments, entries>>

post_invoice(i) ==
    /\ Serve("post_invoice") /\ get_invoice(i)
    /\ ~is_posted(i) /\ invoices[i].status # "cancelled"
    /\ Posted(invoices[i], i)
    /\ UNCHANGED <<customers, leads, quotations, payments>>

\* For a draft the row written breaks the check constraint, so nothing changes.
Mut_Unpaid(i) == TRUE
Unpaid(i) == invoices[i].paid = 0
cancel_invoice(i) ==
    LET row == [invoices[i] EXCEPT !.status = "cancelled"]
    IN  /\ Serve("cancel_invoice") /\ get_invoice(i)
        /\ invoices[i].status # "cancelled" /\ Unpaid(i)
        /\ posted_has_journal_entry(row)
        /\ reverse_entry(row.entry)
        /\ invoices' = [invoices EXCEPT ![i] = row]
        /\ orders' = IF row.order = 0 THEN orders ELSE RollBack(row.order, grand_total(i))
        /\ UNCHANGED <<customers, leads, quotations, payments>>

delete_draft(i) ==
    /\ Serve("delete_draft") /\ get_invoice(i) /\ invoices[i].status = "draft"
    /\ invoices' = [invoices EXCEPT ![i].deleted = TRUE]
    /\ UNCHANGED <<customers, leads, quotations, orders, payments, entries>>

----------------------------------------------------------------------------
(* Payments.                                                               *)

\* allocations: by invoice, the amount settled (the payment_allocation rows).
Payment(c, amount) == [customer |-> c, amount |-> amount, unallocated |-> amount,
                       allocations |-> [i \in 1 .. MaxRows.invoices |-> 0]]

_post_receipt(account, amount) ==
    [a \in Accounts |-> On(account, a, amount) - On("receivable", a, amount)]

\* The requests a client can send: invoices to amounts, each invoice once.
Plans == UNION {[s -> Amounts] : s \in (SUBSET DOMAIN invoices) \ {{}}}
PlanTotal(plan) == SumOf(LAMBDA i : plan[i], DOMAIN plan)

\* _apply, of a plan to a payment that is, or is about to be, row p.
CanApply(row, plan) ==
    /\ PlanTotal(plan) <= row.unallocated
    /\ \A i \in DOMAIN plan :
        /\ get_invoice(i) /\ invoices[i].customer = row.customer
        /\ is_posted(i) /\ plan[i] <= outstanding(i)
Settle(plan) ==
    invoices' = [i \in DOMAIN invoices |->
        IF i \in DOMAIN plan
        THEN [invoices[i] EXCEPT !.paid = @ + plan[i],
                !.status = IF invoices[i].paid + plan[i] >= grand_total(i) THEN "paid"
                           ELSE "partially_paid"]
        ELSE invoices[i]]
Spent(row, plan) ==
    [row EXCEPT !.unallocated = @ - PlanTotal(plan),
                !.allocations = [i \in DOMAIN @ |->
                    IF i \in DOMAIN plan THEN @[i] + plan[i] ELSE @[i]]]

NoPlan == <<>>
record_payment(c, account, amount, plan) ==
    LET row == Payment(c, amount)
    IN  /\ Serve("record_payment") /\ Room(payments, "payments") /\ _customer(c)
        /\ create_entry(_post_receipt(account, amount))
        /\ CanApply(row, plan) /\ Settle(plan)
        /\ payments' = Append(payments, Spent(row, plan))
        /\ UNCHANGED <<customers, leads, quotations, orders>>

Apply(p, plan) ==
    /\ CanApply(payments[p], plan) /\ Settle(plan)
    /\ payments' = [payments EXCEPT ![p] = Spent(@, plan)]
    /\ UNCHANGED <<customers, leads, quotations, orders, entries>>

allocate(p, plan) == Serve("allocate") /\ Apply(p, plan)

\* Oldest first: each invoice takes what those before it have left over.
outstanding_for_customer(c) ==
    {i \in DOMAIN invoices : get_invoice(i) /\ invoices[i].customer = c
        /\ invoices[i].status \in {"posted", "partially_paid"} /\ outstanding(i) > 0}
auto_allocate(p) ==
    LET open == outstanding_for_customer(payments[p].customer)
        left(i) == payments[p].unallocated
                    - SumOf(outstanding, {j \in open : j < i})
        taken == {i \in open : left(i) > 0}
    IN  /\ Serve("auto_allocate")
        /\ taken # {}
        /\ Apply(p, [i \in taken |->
                        IF left(i) < outstanding(i) THEN left(i) ELSE outstanding(i)])

----------------------------------------------------------------------------

Init ==
    /\ customers = <<>> /\ leads = <<>> /\ quotations = <<>> /\ orders = <<>>
    /\ invoices = <<>> /\ payments = <<>> /\ entries = <<>> /\ served = 0

Next ==
    \/ create_customer \/ create_lead
    \/ \E l \in DOMAIN leads : update_lead(l) \/ convert_lead(l)
    \/ \E c \in DOMAIN customers :
        \/ update_customer(c) \/ delete_customer(c)
        \/ \E doc \in Documents, whole \in BOOLEAN :
            \/ create_quotation(c, doc, whole) \/ create_order(c, doc, whole)
            \/ \E o \in {0} \cup DOMAIN orders, post \in BOOLEAN :
                create_invoice(c, o, doc, whole, post)
        \/ \E account \in DepositAccounts, amount \in Amounts, plan \in {NoPlan} \cup Plans :
            record_payment(c, account, amount, plan)
    \/ \E q \in DOMAIN quotations :
        \/ mark_sent(q) \/ respond(q) \/ from_quotation(q)
        \/ \E doc \in Documents, whole \in BOOLEAN : update_quotation(q, doc, whole)
    \/ \E o \in DOMAIN orders : confirm_order(o) \/ cancel_order(o)
    \/ \E i \in DOMAIN invoices :
        \/ post_invoice(i) \/ cancel_invoice(i) \/ delete_draft(i)
        \/ \E doc \in Documents, whole \in BOOLEAN : update_invoice(i, doc, whole)
    \/ \E p \in DOMAIN payments : auto_allocate(p) \/ \E plan \in Plans : allocate(p, plan)

Spec == Init /\ [][Next]_vars

----------------------------------------------------------------------------
(* Properties.                                                             *)

Live == {i \in DOMAIN invoices : is_posted(i)}

(***************************************************************************)
(* The receivable account and the documents behind it are kept by          *)
(* different code in different tables: the balance is what posted invoices *)
(* have outstanding less what receipts have not yet been allocated.  The   *)
(* stored paid_amount and unallocated_amount stay the sums of the          *)
(* allocation rows, whatever is allocated, automatically allocated and     *)
(* cancelled, and no invoice that does not stand holds a customer's money. *)
(***************************************************************************)
ReceivablesAgree ==
    /\ Balance("receivable") =
        SumOf(outstanding, Live)
            - SumOf(LAMBDA p : payments[p].unallocated, DOMAIN payments)
    /\ \A p \in DOMAIN payments :
        LET row == payments[p]
        IN  row.amount = row.unallocated
                + SumOf(LAMBDA i : row.allocations[i], DOMAIN row.allocations)
            /\ row.unallocated >= 0
    /\ \A i \in DOMAIN invoices :
        /\ invoices[i].paid = SumOf(LAMBDA p : payments[p].allocations[i], DOMAIN payments)
        /\ outstanding(i) >= 0
        /\ invoices[i].paid > 0 => is_posted(i) /\ ~invoices[i].deleted

(***************************************************************************)
(* An order's invoiced_total is the total of its invoices that stand, and  *)
(* the order shows as invoiced, in part or whole, exactly when there is    *)
(* one: after posting, cancelling and posting again.                       *)
(***************************************************************************)
OrderTracksInvoices ==
    \A o \in DOMAIN orders :
        /\ orders[o].invoiced = SumOf(grand_total, {i \in Live : invoices[i].order = o})
        /\ orders[o].invoiced > 0 <=> orders[o].status \in {"partially_invoiced", "invoiced"}

(***************************************************************************)
(* "Without a home for it the entry would not balance and could not be     *)
(* posted": whatever the lines, discounts, tax split and rounding, the     *)
(* journal lines built for an invoice balance, so a draft with a positive  *)
(* total can always be posted.                                             *)
(***************************************************************************)
DraftsCanBePosted ==
    \A i \in DOMAIN invoices : Balanced(_build_posting_lines(invoices[i].price))
=============================================================================
