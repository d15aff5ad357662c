----------------------------- MODULE Purchasing -----------------------------
(***************************************************************************)
(* From purchase order to supplier payment, and the stock between:         *)
(* backend/app/modules/purchasing (service.py, receiving.py, stock.py,     *)
(* valuation.py) with the postings it makes.                               *)
(*                                                                         *)
(* One organisation.  A request is one step, as in module Sales; requests  *)
(* that overlap are not covered.  Codes, barcodes, numbers, dates, notes,  *)
(* overrides of the cost-of-sales account and audit rows are left out.     *)
(* issue_for_sale is left out too: nothing calls it.                       *)
(*                                                                         *)
(* Money is in units of 0.0001, unit costs in units of 0.000001 and        *)
(* quantities whole.  A journal entry is the signed amount it puts on each *)
(* account, debits positive.                                               *)
(*                                                                         *)
(* An operator named Mut_... is a plausible mistake in the operator after  *)
(* it; nothing here uses it.                                               *)
(***************************************************************************)
EXTENDS Gst

CONSTANTS
    Operations,         \* the endpoints that clients use
    OwnState,           \* the organisation's own state code, 0: none
    SupplierForms,      \* [state, country] of a supplier
    ProductForms,       \* [kind, inventory, purchase_price] of a product
    OpeningSuppliers,   \* the catalogue the organisation starts with
    OpeningProducts,
    Deliveries,         \* the line lists of goods receipts
    Documents,          \* the line lists of orders and bills
    InvoiceNumbers,     \* the suppliers' own numbers, 0: none given
    Deltas, Costs,      \* what stock-takes find, and at which cost
    Amounts,            \* what is paid and allocated
    SourceAccounts,     \* the accounts payments are made from
    MaxRows,            \* by table
    MaxRequests

VARIABLES suppliers, products, warehouses, stock, orders, receipts, bills, payments,
          entries, served

catalogue == <<suppliers, products>>
buying == <<orders, bills, payments>>
vars == <<catalogue, warehouses, stock, receipts, buying, entries, served>>

InventoryAccounts == {"inventory"} \cup {f.inventory : f \in ProductForms}
                        \cup {OpeningProducts[p].inventory : p \in DOMAIN OpeningProducts}
NoAccount == "none"
LineAccounts == UNION {{d[k].account : k \in DOMAIN d} : d \in Documents}
Accounts == {"payable", "grni", "gst_input", "rounding", "cogs"} \cup SourceAccounts
                \cup InventoryAccounts \cup LineAccounts

ProductCreate == [kind: {"stocked", "service", "consumable"}, inventory: InventoryAccounts,
                  purchase_price: Nat]
PurchaseLineInput == [product: Nat, quantity: Nat, unit_price: Nat, tax_rate: Nat,
                      discount_percent: 0 .. 100, discount_amount: Nat \cup {None},
                      account: LineAccounts]
GoodsReceiptLineInput ==
    {line \in [product: Nat, quantity: Nat, rejected: Nat, cost: Nat] :
        line.rejected <= line.quantity}

ASSUME PurchasingAssumption ==
    /\ ProductForms \subseteq ProductCreate /\ OpeningProducts \in Seq(ProductCreate)
    /\ Documents \subseteq Seq(PurchaseLineInput)
    /\ Deliveries \subseteq Seq(GoodsReceiptLineInput)
    /\ Amounts \subseteq Nat \ {0} /\ Deltas \subseteq Int \ {0} /\ Costs \subseteq Nat
    /\ {MaxRows.products, MaxRows.warehouses, MaxRows.bills, MaxRequests} \subseteq Nat
    /\ Len(OpeningProducts) <= MaxRows.products

Serve(op) == op \in Operations /\ served < MaxRequests /\ served' = served + 1
Room(rows, table) == Len(rows) < MaxRows[table]

----------------------------------------------------------------------------
(* The ledger.                                                             *)

JournalEntry(amounts) == [amounts |-> amounts, reversed |-> FALSE]
Pair(debit, credit, amount) ==
    [a \in Accounts |-> (IF a = debit THEN amount ELSE 0) - (IF a = credit THEN amount ELSE 0)]

\* create_entry with post=True refuses lines that do not balance.
Balanced(amounts) == SumOf(LAMBDA a : amounts[a], Accounts) = 0
create_entry(amounts) ==
    /\ Balanced(amounts)
    /\ entries' = Append(entries, JournalEntry(amounts))
_post_pair(debit, credit, amount) ==
    IF amount > 0 THEN create_entry(Pair(debit, credit, amount)) ELSE UNCHANGED entries

reverse_entry(e) ==
    /\ ~entries[e].reversed
    /\ entries' = [entries EXCEPT ![e].reversed = TRUE]

Balance(a) ==
    SumOf(LAMBDA e : IF entries[e].reversed THEN 0 ELSE entries[e].amounts[a],
          DOMAIN entries)

----------------------------------------------------------------------------
(* Valuation.                                                              *)

ValuationState(quantity, value) == [quantity |-> quantity, value |-> value]
round_value(cost) == HalfUp(cost, 100)
average_cost(s) == IF s.quantity = 0 THEN 0 ELSE HalfUp(100 * s.value, s.quantity)

apply_receipt(s, quantity, cost) ==
    ValuationState(s.quantity + quantity, s.value + round_value(quantity * cost))

\* Proportional to the value on hand; the last unit takes what is left.
cost_of_goods_sold(s, quantity) ==
    IF quantity = s.quantity THEN s.value ELSE HalfUp(s.value * quantity, s.quantity)
apply_issue(s, quantity) ==
    ValuationState(s.quantity - quantity, s.value - cost_of_goods_sold(s, quantity))

\* The value the receipt brought, or a proportional share where that is too much.
Mut_reverse(s, quantity, cost) ==
    ValuationState(s.quantity - quantity, s.value - round_value(quantity * cost))
reverse_receipt(s, quantity, cost) ==
    LET left == s.quantity - quantity
        value == s.value - round_value(quantity * cost)
    IN  ValuationState(left,
            IF left = 0 THEN 0
            ELSE IF value <= 0 THEN HalfUp(s.value * left, s.quantity) ELSE value)

----------------------------------------------------------------------------
(* Stock: by product and warehouse its position, and the movements.        *)

StockLevel == [p \in 1 .. MaxRows.products |->
                [w \in 1 .. MaxRows.warehouses |-> ValuationState(0, 0)]]
StockMovement(p, w, quantity, cost, total, balance) ==
    [product |-> p, warehouse |-> w, quantity |-> quantity, cost |-> cost,
     total |-> total, balance |-> balance]

tracks_stock(p) == products[p].kind = "stocked"
increases_stock(kind) == kind \in {"receipt", "adjustment", "transfer_in"}

\* The cost given, else the average, else what the product is bought for.
UnitCost(s, p, cost) ==
    LET given == IF cost = None THEN average_cost(s) ELSE cost
    IN  IF given = 0 THEN 100 * products[p].purchase_price ELSE given

\* What one movement does to a position: the new one, its unit cost and total.
Movement(s, p, kind, quantity, cost) ==
    IF increases_stock(kind)
    THEN LET unit == UnitCost(s, p, cost)
         IN  [to |-> apply_receipt(s, quantity, unit), cost |-> unit, signed |-> quantity,
              total |-> round_value(quantity * unit)]
    ELSE IF kind = "reversal"
    THEN [to |-> reverse_receipt(s, quantity, cost), cost |-> cost, signed |-> -quantity,
          total |-> round_value(quantity * cost)]
    ELSE [to |-> apply_issue(s, quantity), cost |-> average_cost(s), signed |-> -quantity,
          total |-> cost_of_goods_sold(s, quantity)]

\* The only path that moves stock.  A request refused midway is undone whole.
Refused == [levels |-> <<>>, movements |-> <<>>]
record(st, p, w, kind, quantity, cost) ==
    IF st = Refused \/ ~tracks_stock(p) THEN Refused
    ELSE LET s == st.levels[p][w]
             m == Movement(s, p, kind, quantity, cost)
         IN  IF ~increases_stock(kind) /\ quantity > s.quantity THEN Refused
             ELSE [levels |-> [st.levels EXCEPT ![p][w] = m.to],
                   movements |-> Append(st.movements, StockMovement(p, w, m.signed, m.cost,
                                                        m.total, m.to.quantity))]
Moved(st) == st # Refused /\ stock' = st
LastMovement(st) == st.movements[Len(st.movements)]

_inventory_account_id(p) == products[p].inventory

----------------------------------------------------------------------------
(* Suppliers, products and warehouses.                                     *)

Supplier(form) == [form |-> form, active |-> TRUE]
Product(form) == form
Warehouse(code, default) == [code |-> code, default |-> default]

_supplier(s) == suppliers[s].active
_treatment(s) ==
    resolve_treatment(suppliers[s].form.state,
        [state |-> OwnState, country |-> suppliers[s].form.country, exempt |-> FALSE])

create_supplier ==
    /\ Serve("create_supplier") /\ Room(suppliers, "suppliers")
    /\ \E form \in SupplierForms : suppliers' = Append(suppliers, Supplier(form))
    /\ UNCHANGED <<products, warehouses, stock, receipts, buying, entries>>

\* An inactive supplier is not found, so it is never made active again.
update_supplier(s) ==
    /\ Serve("update_supplier") /\ _supplier(s)
    /\ \E form \in SupplierForms, active \in BOOLEAN :
        suppliers' = [suppliers EXCEPT ![s] = [form |-> form, active |-> active]]
    /\ UNCHANGED <<products, warehouses, stock, receipts, buying, entries>>

create_product ==
    /\ Serve("create_product") /\ Room(products, "products")
    /\ \E form \in ProductForms : products' = Append(products, Product(form))
    /\ UNCHANGED <<suppliers, warehouses, stock, receipts, buying, entries>>

\* kind is not among the fields of a ProductUpdate.
update_product(p) ==
    /\ Serve("update_product")
    /\ \E form \in ProductForms :
        products' = [products EXCEPT ![p] = [form EXCEPT !.kind = products[p].kind]]
    /\ UNCHANGED <<suppliers, warehouses, stock, receipts, buying, entries>>

Codes == {"MAIN", "SECOND"}
uq_warehouse_org_code(code) == \A w \in DOMAIN warehouses : warehouses[w].code # code

create_warehouse ==
    /\ Serve("create_warehouse") /\ Room(warehouses, "warehouses")
    /\ \E code \in Codes, default \in BOOLEAN :
        /\ uq_warehouse_org_code(code)
        /\ warehouses' = Append([w \in DOMAIN warehouses |->
                [warehouses[w] EXCEPT !.default = @ /\ ~default]], Warehouse(code, default))
    /\ UNCHANGED <<catalogue, stock, receipts, buying, entries>>

\* The warehouse named, 0 for none; the default one is created on demand.
default_warehouse == {w \in DOMAIN warehouses : warehouses[w].default}
get_warehouse(w) ==
    IF w # 0 THEN w
    ELSE IF default_warehouse # {} THEN CHOOSE d \in default_warehouse : TRUE
    ELSE Len(warehouses) + 1
WarehouseOnDemand(w) ==
    IF get_warehouse(w) \in DOMAIN warehouses THEN UNCHANGED warehouses
    ELSE /\ Room(warehouses, "warehouses") /\ uq_warehouse_org_code("MAIN")
         /\ warehouses' = Append(warehouses, Warehouse("MAIN", TRUE))

----------------------------------------------------------------------------
(* Stock-takes and transfers.                                              *)

adjust(p, w, delta, cost) ==
    LET up == delta > 0
        to == record(stock, p, get_warehouse(w), IF up THEN "adjustment" ELSE "issue",
                     IF up THEN delta ELSE -delta, cost)
        own == _inventory_account_id(p)
    IN  /\ Serve("adjust") /\ WarehouseOnDemand(w)
        /\ Moved(to)
        /\ _post_pair(IF up THEN own ELSE "cogs", IF up THEN "cogs" ELSE own,
                      LastMovement(to).total)
        /\ UNCHANGED <<catalogue, receipts, buying>>

\* Posts nothing.  The inbound movement carries the outbound one's unit cost.
transfer(p, from, into, quantity) ==
    LET out == record(stock, p, from, "transfer_out", quantity, None)
        to == IF out = Refused THEN Refused
              ELSE record(out, p, into, "transfer_in", quantity, LastMovement(out).cost)
    IN  /\ Serve("transfer") /\ from # into
        /\ Moved(to)
        /\ UNCHANGED <<catalogue, warehouses, receipts, buying, entries>>

----------------------------------------------------------------------------
(* Purchase orders.                                                        *)

PurchaseOrderLine(quantity) == [quantity |-> quantity, received |-> 0]
PurchaseOrder(s, doc) ==
    [supplier |-> s, lines |-> [k \in DOMAIN doc |-> PurchaseOrderLine(doc[k].quantity)],
     status |-> "draft"]
is_fully_received(line) == line.received >= line.quantity

create_order(s, doc) ==
    /\ Serve("create_order") /\ Room(orders, "orders") /\ _supplier(s)
    /\ orders' = Append(orders, PurchaseOrder(s, doc))
    /\ UNCHANGED <<catalogue, warehouses, stock, receipts, bills, payments, entries>>

approve_order(o) ==
    /\ Serve("approve_order") /\ orders[o].status = "draft"
    /\ orders' = [orders EXCEPT ![o].status = "approved"]
    /\ UNCHANGED <<catalogue, warehouses, stock, receipts, bills, payments, entries>>

cancel_order(o) ==
    /\ Serve("cancel_order")
    /\ \A k \in DOMAIN orders[o].lines : orders[o].lines[k].received = 0
    /\ orders' = [orders EXCEPT ![o].status = "cancelled"]
    /\ UNCHANGED <<catalogue, warehouses, stock, receipts, bills, payments, entries>>

\* Only a receipt that is posted calls this, with the order its header names.
_refresh_order_status(rows, o) ==
    IF o = 0 \/ rows[o].status = "cancelled" THEN rows
    ELSE LET lines == rows[o].lines
         IN  [rows EXCEPT ![o].status =
                IF \A k \in DOMAIN lines : is_fully_received(lines[k]) THEN "received"
                ELSE IF \E k \in DOMAIN lines : lines[k].received > 0
                THEN "partially_received" ELSE @]

----------------------------------------------------------------------------
(* Goods receipts.                                                         *)

\* order is the one the header names, link the one whose lines are delivered.
GoodsReceipt(s, w, order, link, lines) ==
    [supplier |-> s, warehouse |-> w, order |-> order, link |-> link, lines |-> lines,
     status |-> "draft", entry |-> 0]
GoodsReceiptLine(p, quantity, rejected, cost) ==
    [product |-> p, quantity |-> quantity, rejected |-> rejected, cost |-> cost]
accepted_quantity(line) == line.quantity - line.rejected

\* Line by line; one with nothing accepted moves nothing.
MovedBy(st, r, kind, line) ==
    IF accepted_quantity(line) <= 0 THEN st
    ELSE record(st, line.product, r.warehouse, kind, accepted_quantity(line), line.cost)
StockAfter(r, kind) ==
    LET after[k \in 0 .. Len(r.lines)] ==
            IF k = 0 THEN stock ELSE MovedBy(after[k - 1], r, kind, r.lines[k])
    IN  after[Len(r.lines)]
Mut_PostedValue(r) ==
    SumOf(LAMBDA k : round_value(r.lines[k].quantity * r.lines[k].cost), DOMAIN r.lines)
PostedValue(r) ==
    SumOf(LAMBDA k : round_value(accepted_quantity(r.lines[k]) * r.lines[k].cost),
          DOMAIN r.lines)

\* What line k of the linked order received with r.  Line k of a receipt is for
\* line k of one order here; in the code it may name any line of any order.
Delivered(r, o, k) ==
    IF o = r.link /\ k \in DOMAIN r.lines THEN accepted_quantity(r.lines[k]) ELSE 0
OrdersWith(f(_, _)) ==
    [o \in DOMAIN orders |-> [orders[o] EXCEPT !.lines =
        [k \in DOMAIN @ |-> [@[k] EXCEPT !.received = f(o, k)]]]]
RolledBack(r) ==
    OrdersWith(LAMBDA o, k :
        LET left == orders[o].lines[k].received - Delivered(r, o, k)
        IN  IF left > 0 THEN left ELSE 0)
RolledForward(r) ==
    OrdersWith(LAMBDA o, k : orders[o].lines[k].received + Delivered(r, o, k))

\* What post does to a receipt that is, or is about to be, row i.
PostReceipt(r, i) ==
    /\ Moved(StockAfter(r, "receipt"))
    /\ _post_pair("inventory", "grni", PostedValue(r))
    /\ receipts' = [k \in DOMAIN receipts \cup {i} |->
            IF k # i THEN receipts[k]
            ELSE [r EXCEPT !.status = "posted",
                    !.entry = IF PostedValue(r) > 0 THEN Len(entries) + 1 ELSE 0]]
    /\ orders' = _refresh_order_status(RolledForward(r), r.order)

create_receipt(s, w, order, link, lines, post) ==
    LET r == GoodsReceipt(s, get_warehouse(w), order, link, lines)
    IN  /\ Serve("create_receipt") /\ Room(receipts, "receipts") /\ _supplier(s)
        /\ WarehouseOnDemand(w)
        /\ \A k \in DOMAIN lines :
            lines[k].product \in DOMAIN products /\ tracks_stock(lines[k].product)
        /\ IF post THEN PostReceipt(r, Len(receipts) + 1)
           ELSE receipts' = Append(receipts, r) /\ UNCHANGED <<stock, orders, entries>>
        /\ UNCHANGED <<catalogue, bills, payments>>

post_receipt(i) ==
    /\ Serve("post_receipt") /\ receipts[i].status = "draft"
    /\ PostReceipt(receipts[i], i)
    /\ UNCHANGED <<catalogue, warehouses, bills, payments>>

\* The order's status is left as it is.
cancel_receipt(i) ==
    LET r == receipts[i]
    IN  /\ Serve("cancel_receipt") /\ r.status # "cancelled"
        /\ \A b \in DOMAIN bills : bills[b].receipt # i
        /\ IF r.status = "draft" THEN UNCHANGED <<stock, orders, entries>>
           ELSE /\ Moved(StockAfter(r, "reversal"))
                /\ orders' = RolledBack(r)
                /\ IF r.entry = 0 THEN UNCHANGED entries ELSE reverse_entry(r.entry)
        /\ receipts' = [receipts EXCEPT ![i].status = "cancelled"]
        /\ UNCHANGED <<catalogue, warehouses, bills, payments>>

----------------------------------------------------------------------------
(* Bills.                                                                  *)

Priced(s, doc, whole) ==
    LET lines == [k \in DOMAIN doc |-> compute_line(doc[k], _treatment(s))]
    IN  [lines |-> lines, totals |-> compute_document(lines, whole)]
Bill(s, number, receipt, doc, whole) ==
    [supplier |-> s, number |-> number, receipt |-> receipt, doc |-> doc,
     price |-> Priced(s, doc, whole), status |-> "draft", paid |-> 0, entry |-> 0]

grand_total(b) == bills[b].price.totals.grand
outstanding(b) == grand_total(b) - bills[b].paid
is_posted(b) == bills[b].status \in {"posted", "partially_paid", "paid"}

\* A cancelled bill keeps its number.
uq_bill_supplier_invoice(s, number) ==
    number = 0 \/ \A b \in DOMAIN bills : <<bills[b].supplier, bills[b].number>> # <<s, number>>

_line_debit_account(line) ==
    IF line.account # NoAccount THEN line.account
    ELSE IF line.product # 0 /\ tracks_stock(line.product) THEN _inventory_account_id(line.product)
    ELSE "cogs"

\* A bill that follows a receipt clears the accrual the receipt raised.
BillPosting(bill) ==
    LET t == bill.price.totals
        cost(a) ==
            IF bill.receipt # 0 THEN IF a = "grni" THEN t.taxable ELSE 0
            ELSE SumOf(LAMBDA k : bill.price.lines[k].taxable,
                       {k \in DOMAIN bill.doc : _line_debit_account(bill.doc[k]) = a})
    IN  [a \in Accounts |->
            cost(a) + CASE a = "payable" -> -t.grand
                        [] a = "gst_input" -> t.cgst + t.sgst + t.igst
                        [] a = "rounding" -> t.round_off
                        [] OTHER -> 0]

PostBill(bill, i) ==
    /\ bill.price.totals.grand > 0
    /\ create_entry(BillPosting(bill))
    /\ bills' = [k \in DOMAIN bills \cup {i} |->
            IF k = i THEN [bill EXCEPT !.status = "posted", !.entry = Len(entries) + 1]
            ELSE bills[k]]

create_bill(s, number, receipt, doc, whole, post) ==
    LET bill == Bill(s, number, receipt, doc, whole)
    IN  /\ Serve("create_bill") /\ Room(bills, "bills") /\ _supplier(s)
        /\ uq_bill_supplier_invoice(s, number)
        /\ \A k \in DOMAIN doc : doc[k].product \in {0} \cup DOMAIN products
        /\ IF post THEN PostBill(bill, Len(bills) + 1)
           ELSE bills' = Append(bills, bill) /\ UNCHANGED entries
        /\ UNCHANGED <<catalogue, warehouses, stock, receipts, orders, payments>>

post_bill(b) ==
    /\ Serve("post_bill") /\ bills[b].status = "draft"
    /\ PostBill(bills[b], b)
    /\ UNCHANGED <<catalogue, warehouses, stock, receipts, orders, payments>>

Unpaid(b) == bills[b].paid = 0
cancel_bill(b) ==
    /\ Serve("cancel_bill") /\ bills[b].status # "cancelled" /\ Unpaid(b)
    /\ IF is_posted(b) THEN reverse_entry(bills[b].entry) ELSE UNCHANGED entries
    /\ bills' = [bills EXCEPT ![b].status = "cancelled"]
    /\ UNCHANGED <<catalogue, warehouses, stock, receipts, orders, payments>>

----------------------------------------------------------------------------
(* Supplier payments.                                                      *)

\* allocations: by bill, the amount settled (supplier_payment_allocation rows).
SupplierPayment(s, amount) == [supplier |-> s, amount |-> amount, unallocated |-> amount,
                               allocations |-> [b \in 1 .. MaxRows.bills |-> 0]]

\* The requests a client can send: bills to amounts, each bill once.
Plans == UNION {[s -> Amounts] : s \in (SUBSET DOMAIN bills) \ {{}}}
NoPlan == <<>>
PlanTotal(plan) == SumOf(LAMBDA b : plan[b], DOMAIN plan)

\* _apply, of a plan to a payment that is, or is about to be, some row.
CanApply(row, plan) ==
    /\ PlanTotal(plan) <= row.unallocated
    /\ \A b \in DOMAIN plan :
        bills[b].supplier = row.supplier /\ is_posted(b) /\ plan[b] <= outstanding(b)
Mut_Settle(plan) ==
    bills' = [b \in DOMAIN bills |->
        IF b \in DOMAIN plan
        THEN [bills[b] EXCEPT !.paid = plan[b],
                !.status = IF plan[b] >= grand_total(b) THEN "paid" ELSE "partially_paid"]
        ELSE bills[b]]
Settle(plan) ==
    bills' = [b \in DOMAIN bills |->
        IF b \in DOMAIN plan
        THEN [bills[b] EXCEPT !.paid = @ + plan[b],
                !.status = IF bills[b].paid + plan[b] >= grand_total(b) THEN "paid"
                           ELSE "partially_paid"]
        ELSE bills[b]]
Spent(row, plan) ==
    [row EXCEPT !.unallocated = @ - PlanTotal(plan),
                !.allocations = [b \in DOMAIN @ |->
                    IF b \in DOMAIN plan THEN @[b] + plan[b] ELSE @[b]]]

pay(s, source, amount, plan) ==
    LET row == SupplierPayment(s, amount)
    IN  /\ Serve("pay") /\ Room(payments, "payments") /\ _supplier(s)
        /\ create_entry(Pair("payable", source, amount))
        /\ CanApply(row, plan) /\ Settle(plan)
        /\ payments' = Append(payments, Spent(row, plan))
        /\ UNCHANGED <<catalogue, warehouses, stock, receipts, orders>>

allocate(p, plan) ==
    /\ Serve("allocate")
    /\ CanApply(payments[p], plan) /\ Settle(plan)
    /\ payments' = [payments EXCEPT ![p] = Spent(@, plan)]
    /\ UNCHANGED <<catalogue, warehouses, stock, receipts, orders, entries>>

----------------------------------------------------------------------------

Init ==
    /\ suppliers = OpeningSuppliers /\ products = OpeningProducts /\ warehouses = <<>>
    /\ stock = [levels |-> StockLevel, movements |-> <<>>]
    /\ orders = <<>> /\ receipts = <<>> /\ bills = <<>> /\ payments = <<>>
    /\ entries = <<>> /\ served = 0

Next ==
    \/ create_supplier \/ create_product \/ create_warehouse
    \/ \E p \in DOMAIN products :
        \/ update_product(p)
        \/ \E w \in {0} \cup DOMAIN warehouses, delta \in Deltas, cost \in {None} \cup Costs :
            adjust(p, w, delta, cost)
        \/ \E from, into \in DOMAIN warehouses, quantity \in Deltas \cap Nat :
            transfer(p, from, into, quantity)
    \/ \E s \in DOMAIN suppliers :
        \/ update_supplier(s)
        \/ \E doc \in Documents :
            \/ create_order(s, doc)
            \/ \E number \in InvoiceNumbers, receipt \in {0} \cup DOMAIN receipts,
                  whole, post \in BOOLEAN :
                create_bill(s, number, receipt, doc, whole, post)
        \/ \E w \in {0} \cup DOMAIN warehouses, order, link \in {0} \cup DOMAIN orders,
              lines \in Deliveries, post \in BOOLEAN :
            create_receipt(s, w, order, link, lines, post)
        \/ \E source \in SourceAccounts, amount \in Amounts, plan \in {NoPlan} \cup Plans :
            pay(s, source, amount, plan)
    \/ \E o \in DOMAIN orders : approve_order(o) \/ cancel_order(o)
    \/ \E i \in DOMAIN receipts : post_receipt(i) \/ cancel_receipt(i)
    \/ \E b \in DOMAIN bills : post_bill(b) \/ cancel_bill(b)
    \/ \E p \in DOMAIN payments, plan \in Plans : allocate(p, plan)

Spec == Init /\ [][Next]_vars

----------------------------------------------------------------------------
(* Properties.                                                             *)

Live == {b \in DOMAIN bills : is_posted(b)}

(***************************************************************************)
(* The payable account and the bills behind it are kept by different code: *)
(* the balance owed is what posted bills have outstanding less what        *)
(* payments have not yet been allocated.  The stored paid_amount and       *)
(* unallocated_amount stay the sums of the allocation rows, and no bill    *)
(* that does not stand holds money.                                        *)
(***************************************************************************)
PayablesAgree ==
    /\ Balance("payable") =
        SumOf(LAMBDA p : payments[p].unallocated, DOMAIN payments) - SumOf(outstanding, Live)
    /\ \A p \in DOMAIN payments :
        LET row == payments[p]
        IN  row.amount = row.unallocated
                + SumOf(LAMBDA b : row.allocations[b], DOMAIN row.allocations)
    /\ \A b \in DOMAIN bills :
        /\ bills[b].paid = SumOf(LAMBDA p : payments[p].allocations[b], DOMAIN payments)
        /\ outstanding(b) >= 0
        /\ bills[b].paid > 0 => is_posted(b)

(***************************************************************************)
(* "value is authoritative": through receipts, stock-takes, transfers and  *)
(* cancellations in any order, no position goes below zero in quantity or  *)
(* in value, none keeps a residue of value on zero units, and the stock    *)
(* card adds up to the quantity it ends in.  (Its totals need not add up   *)
(* to the value: a cancelled receipt leaves at another average.)           *)
(***************************************************************************)
StockWellFormed ==
    \A p \in DOMAIN stock.levels : \A w \in DOMAIN stock.levels[p] :
        LET level == stock.levels[p][w]
            card == {m \in DOMAIN stock.movements :
                        stock.movements[m].product = p /\ stock.movements[m].warehouse = w}
        IN  /\ level.quantity >= 0 /\ level.value >= 0
            /\ level.quantity = 0 => level.value = 0
            /\ level.quantity = SumOf(LAMBDA m : stock.movements[m].quantity, card)
            /\ \A m \in card : (\A n \in card : n <= m)
                => stock.movements[m].balance = level.quantity

\* An order line has received what the posted receipts linked to it accepted.
OrderTracksReceipts ==
    \A o \in DOMAIN orders : \A k \in DOMAIN orders[o].lines :
        orders[o].lines[k].received =
            SumOf(LAMBDA i : Delivered(receipts[i], o, k),
                  {i \in DOMAIN receipts : receipts[i].status = "posted"})

\* Both together: stock, stock card and order lines tell the same deliveries.
StockAddsUp == StockWellFormed /\ OrderTracksReceipts

\* What the Inventory accounts show beyond the stock report.
StockValue == SumOf(LAMBDA p : SumOf(LAMBDA w : stock.levels[p][w].value,
                        DOMAIN stock.levels[p]), DOMAIN stock.levels)
Gap == SumOf(Balance, InventoryAccounts) - StockValue

(***************************************************************************)
(* "value only ever changes by the amount actually posted to the ledger":  *)
(* a step that moves stock and posts an entry changes both by the same     *)
(* amount, whatever was rejected and however the lines round.  Receipts    *)
(* with a line at no cost are excepted: their stock enters at the purchase *)
(* price and their entry leaves it out.                                    *)
(***************************************************************************)
PostedNow(i) == receipts'[i].status = "posted"
                /\ (i \in DOMAIN receipts => receipts[i].status = "draft")
FreeGoods(i) ==
    \E k \in DOMAIN receipts'[i].lines :
        receipts'[i].lines[k].cost = 0 /\ accepted_quantity(receipts'[i].lines[k]) > 0
StockFollowsLedger ==
    [][stock' # stock /\ Len(entries') > Len(entries)
        => Gap' = Gap \/ \E i \in DOMAIN receipts' : PostedNow(i) /\ FreeGoods(i)]_vars
=============================================================================
