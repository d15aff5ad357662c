--------------------------- MODULE PurchasingProofs -------------------------
(***************************************************************************)
(* Proofs about purchasing, for any documents, suppliers, products,        *)
(* deliveries and amounts, tables of any size and any number of requests.  *)
(*                                                                         *)
(* The payable account moves with bills and payments only: the entries of  *)
(* receipts and stock-takes leave it alone, and so does their reversal.    *)
(* The rest is as in SalesProofs: every stored figure is a sum with one    *)
(* term for each row, of which a request changes one, or, for an           *)
(* allocation, those its plan names.  The second half is about stock: its  *)
(* positions and cards, the orders it was received on, and the inventory   *)
(* accounts that its value is posted to.                                   *)
(***************************************************************************)
EXTENDS Purchasing, Sums

----------------------------------------------------------------------------
(* The invariant.                                                          *)

Standing == {"posted", "partially_paid", "paid"}

\* No line, product or payment is booked to the payable account itself.
ControlAccountKept == "payable" \notin SourceAccounts \cup LineAccounts \cup InventoryAccounts

\* What a row contributes to a sum.
Due(e) == IF e.reversed THEN 0 ELSE e.amounts["payable"]
Open(r) == IF r.status \in Standing THEN r.price.totals.grand - r.paid ELSE 0

\* The sums: over a table with rows T, of what its rows contribute.
Dues(T) == SumFunctionOnSet([e \in 1 .. Len(T) |-> Due(T[e])], 1 .. Len(T))
Opens(T) == SumFunctionOnSet([i \in 1 .. Len(T) |-> Open(T[i])], 1 .. Len(T))
Unspents(T) == SumFunctionOnSet([p \in 1 .. Len(T) |-> T[p].unallocated], 1 .. Len(T))
Settled(T, i) == SumFunctionOnSet([p \in 1 .. Len(T) |-> T[p].allocations[i]], 1 .. Len(T))

\* Rows.
EntryOK(e) ==
    e \in [amounts: {e.amounts}, reversed: BOOLEAN] /\ e.amounts["payable"] \in Int
PaymentOK(r) ==
    /\ r \in [supplier: {r.supplier}, amount: Nat, unallocated: Nat,
              allocations: [1 .. MaxRows.bills -> Nat]]
    /\ r.amount = r.unallocated + SumFunctionOnSet(r.allocations, 1 .. MaxRows.bills)
ReceiptOK(r) ==
    r \in [supplier: {r.supplier}, warehouse: {r.warehouse}, order: {r.order}, link: {r.link},
           lines: {r.lines}, status: {r.status}, entry: Nat]
BillOK(r) ==
    /\ r \in [supplier: {r.supplier}, number: {r.number}, receipt: {r.receipt}, doc: Documents,
              price: {r.price}, status: Standing \cup {"draft", "cancelled"}, paid: Nat,
              entry: Nat]
    /\ r.price.totals.grand \in Nat
    /\ r.paid <= r.price.totals.grand /\ (r.paid > 0 => r.status \in Standing)

\* The entry of a bill that stands is the one it posted, that of a receipt is not
\* on the payable account.
Entered(r, T) ==
    r.status \in Standing =>
        /\ r.entry \in 1 .. Len(T)
        /\ T[r.entry].amounts["payable"] = 0 - r.price.totals.grand
Booked(r, T) ==
    r.entry # 0 => r.entry \in 1 .. Len(T) /\ T[r.entry].amounts["payable"] = 0

ProductsInv == products \in Seq(ProductCreate)
EntriesInv == Table(entries) /\ \A e \in 1 .. Len(entries) : EntryOK(entries[e])
PaymentsInv == Table(payments) /\ \A p \in 1 .. Len(payments) : PaymentOK(payments[p])
ReceiptsInv ==
    /\ Table(receipts)
    /\ \A i \in 1 .. Len(receipts) : ReceiptOK(receipts[i]) /\ Booked(receipts[i], entries)
\* create_bill() looks the products up.
Known(doc) == \A k \in DOMAIN doc : doc[k].product \in 0 .. Len(products)
BillsInv ==
    /\ Table(bills) /\ Len(bills) <= MaxRows.bills
    /\ \A i \in 1 .. Len(bills) :
        /\ BillOK(bills[i]) /\ Entered(bills[i], entries)
        /\ Known(bills[i].doc)

\* No allocation goes to a bill that is not there.
Paid ==
    /\ \A i \in 1 .. Len(bills) : bills[i].paid = Settled(payments, i)
    /\ \A p \in 1 .. Len(payments), i \in 1 .. MaxRows.bills :
            i > Len(bills) => payments[p].allocations[i] = 0
Agrees == Dues(entries) = Unspents(payments) - Opens(bills)

IInv ==
    /\ ControlAccountKept /\ ProductsInv /\ EntriesInv /\ PaymentsInv /\ ReceiptsInv
    /\ BillsInv /\ Paid /\ Agrees

----------------------------------------------------------------------------
(* A row written.                                                          *)

\* An entry written: the balance moves by the difference.
LEMMA DuesWrote ==
    ASSUME NEW A, NEW B, NEW i, Wrote(A, B, i), EntryOK(B[i]),
           \A e \in 1 .. Len(A) : EntryOK(A[e])
    PROVE  /\ Dues(B) = Dues(A) - (IF i <= Len(A) THEN Due(A[i]) ELSE 0)
                + Due(B[i])
           /\ Dues(A) \in Int
<1>1. PICK g, h : /\ g = [e \in 1 .. Len(A) |-> Due(A[e])]
                  /\ h = [e \in 1 .. Len(B) |-> Due(B[e])]
  OBVIOUS
<1>2. \A e : EntryOK(e) => Due(e) \in Int
  BY DEF EntryOK, Due
<1>3. i \in 1 .. Len(B) /\ \A k \in 1 .. Len(A) : k \in 1 .. Len(B) /\ (k # i => B[k] = A[k])
  BY WroteRow DEF Wrote
<1>4. IntOn(g, 1 .. Len(A))
  BY <1>1, <1>2 DEF IntOn
<1>5. h[i] = Due(B[i]) /\ h[i] \in Int
  BY <1>1, <1>2, <1>3
<1>6. \A k \in 1 .. Len(A) : k # i => h[k] = g[k]
  BY <1>1, <1>3
<1>7. /\ SumFunctionOnSet(h, 1 .. Len(B)) =
            SumFunctionOnSet(g, 1 .. Len(A)) - (IF i <= Len(A) THEN g[i] ELSE 0) + h[i]
      /\ SumFunctionOnSet(g, 1 .. Len(A)) \in Int
  BY <1>4, <1>5, <1>6, SumWrote
<1>8. Dues(A) = SumFunctionOnSet(g, 1 .. Len(A))
      /\ Dues(B) = SumFunctionOnSet(h, 1 .. Len(B))
  BY <1>1 DEF Dues
<1>9. i <= Len(A) => g[i] = Due(A[i])
  BY <1>1, WroteRow
<1>. QED  BY <1>5, <1>7, <1>8, <1>9

\* A bill written: what is outstanding moves by the difference.
LEMMA OpensWrote ==
    ASSUME NEW A, NEW B, NEW i, Wrote(A, B, i), BillOK(B[i]),
           \A e \in 1 .. Len(A) : BillOK(A[e])
    PROVE  /\ Opens(B) = Opens(A) - (IF i <= Len(A) THEN Open(A[i]) ELSE 0)
                + Open(B[i])
           /\ Opens(A) \in Int
<1>1. PICK g, h : /\ g = [e \in 1 .. Len(A) |-> Open(A[e])]
                  /\ h = [e \in 1 .. Len(B) |-> Open(B[e])]
  OBVIOUS
<1>2. \A e : BillOK(e) => Open(e) \in Int
  BY DEF BillOK, Open
<1>3. i \in 1 .. Len(B) /\ \A k \in 1 .. Len(A) : k \in 1 .. Len(B) /\ (k # i => B[k] = A[k])
  BY WroteRow DEF Wrote
<1>4. IntOn(g, 1 .. Len(A))
  BY <1>1, <1>2 DEF IntOn
<1>5. h[i] = Open(B[i]) /\ h[i] \in Int
  BY <1>1, <1>2, <1>3
<1>6. \A k \in 1 .. Len(A) : k # i => h[k] = g[k]
  BY <1>1, <1>3
<1>7. /\ SumFunctionOnSet(h, 1 .. Len(B)) =
            SumFunctionOnSet(g, 1 .. Len(A)) - (IF i <= Len(A) THEN g[i] ELSE 0) + h[i]
      /\ SumFunctionOnSet(g, 1 .. Len(A)) \in Int
  BY <1>4, <1>5, <1>6, SumWrote
<1>8. Opens(A) = SumFunctionOnSet(g, 1 .. Len(A))
      /\ Opens(B) = SumFunctionOnSet(h, 1 .. Len(B))
  BY <1>1 DEF Opens
<1>9. i <= Len(A) => g[i] = Open(A[i])
  BY <1>1, WroteRow
<1>. QED  BY <1>5, <1>7, <1>8, <1>9

\* A payment written: what is unallocated moves by the difference.
LEMMA UnspentsWrote ==
    ASSUME NEW A, NEW B, NEW i, Wrote(A, B, i), PaymentOK(B[i]),
           \A e \in 1 .. Len(A) : PaymentOK(A[e])
    PROVE  /\ Unspents(B) = Unspents(A) - (IF i <= Len(A) THEN A[i].unallocated ELSE 0)
                + B[i].unallocated
           /\ Unspents(A) \in Int
<1>1. PICK g, h : /\ g = [e \in 1 .. Len(A) |-> A[e].unallocated]
                  /\ h = [e \in 1 .. Len(B) |-> B[e].unallocated]
  OBVIOUS
<1>2. \A e : PaymentOK(e) => e.unallocated \in Int
  BY DEF PaymentOK
<1>3. i \in 1 .. Len(B) /\ \A k \in 1 .. Len(A) : k \in 1 .. Len(B) /\ (k # i => B[k] = A[k])
  BY WroteRow DEF Wrote
<1>4. IntOn(g, 1 .. Len(A))
  BY <1>1, <1>2 DEF IntOn
<1>5. h[i] = B[i].unallocated /\ h[i] \in Int
  BY <1>1, <1>2, <1>3
<1>6. \A k \in 1 .. Len(A) : k # i => h[k] = g[k]
  BY <1>1, <1>3
<1>7. /\ SumFunctionOnSet(h, 1 .. Len(B)) =
            SumFunctionOnSet(g, 1 .. Len(A)) - (IF i <= Len(A) THEN g[i] ELSE 0) + h[i]
      /\ SumFunctionOnSet(g, 1 .. Len(A)) \in Int
  BY <1>4, <1>5, <1>6, SumWrote
<1>8. Unspents(A) = SumFunctionOnSet(g, 1 .. Len(A))
      /\ Unspents(B) = SumFunctionOnSet(h, 1 .. Len(B))
  BY <1>1 DEF Unspents
<1>9. i <= Len(A) => g[i] = A[i].unallocated
  BY <1>1, WroteRow
<1>. QED  BY <1>5, <1>7, <1>8, <1>9

\* A payment written: so does what each bill was paid.
LEMMA SettledWrote ==
    ASSUME NEW A, NEW B, NEW i, NEW j \in 1 .. MaxRows.bills, Wrote(A, B, i), PaymentOK(B[i]),
           \A e \in 1 .. Len(A) : PaymentOK(A[e])
    PROVE  /\ Settled(B, j) = Settled(A, j) - (IF i <= Len(A) THEN A[i].allocations[j] ELSE 0)
                                + B[i].allocations[j]
           /\ Settled(A, j) \in Int
<1>1. PICK g, h : /\ g = [e \in 1 .. Len(A) |-> A[e].allocations[j]]
                  /\ h = [e \in 1 .. Len(B) |-> B[e].allocations[j]]
  OBVIOUS
<1>2. ASSUME NEW e, PaymentOK(e) PROVE e.allocations[j] \in Int
  <2>1. PICK M : M = 1 .. MaxRows.bills
    OBVIOUS
  <2>2. e.allocations \in [M -> Nat] /\ j \in M
    BY <1>2, <2>1 DEF PaymentOK
  <2>. QED  BY <2>2
<1>3. i \in 1 .. Len(B) /\ \A k \in 1 .. Len(A) : k \in 1 .. Len(B) /\ (k # i => B[k] = A[k])
  BY WroteRow DEF Wrote
<1>4. IntOn(g, 1 .. Len(A))
  BY <1>1, <1>2 DEF IntOn
<1>5. h[i] = B[i].allocations[j] /\ h[i] \in Int
  BY <1>1, <1>2, <1>3
<1>6. \A k \in 1 .. Len(A) : k # i => h[k] = g[k]
  BY <1>1, <1>3
<1>7. /\ SumFunctionOnSet(h, 1 .. Len(B)) =
            SumFunctionOnSet(g, 1 .. Len(A)) - (IF i <= Len(A) THEN g[i] ELSE 0) + h[i]
      /\ SumFunctionOnSet(g, 1 .. Len(A)) \in Int
  BY <1>4, <1>5, <1>6, SumWrote
<1>8. Settled(A, j) = SumFunctionOnSet(g, 1 .. Len(A))
      /\ Settled(B, j) = SumFunctionOnSet(h, 1 .. Len(B))
  BY <1>1 DEF Settled
<1>9. i <= Len(A) => g[i] = A[i].allocations[j]
  BY <1>1, WroteRow
<1>. QED  BY <1>5, <1>7, <1>8, <1>9

\* A bill that is not there has no allocations.
LEMMA NothingSettled ==
    ASSUME PaymentsInv, Paid, NEW i \in 1 .. MaxRows.bills, i > Len(bills)
    PROVE  Settled(payments, i) = 0
<1>1. PICK S, g : S = 1 .. Len(payments) /\ g = [p \in S |-> payments[p].allocations[i]]
  OBVIOUS
<1>2. IsFiniteSet(S)
  BY <1>1, Upto DEF PaymentsInv, Table
<1>3. \A p \in S : g[p] = 0
  BY <1>1 DEF Paid
<1>4. SumFunctionOnSet(g, S) = 0
  BY <1>2, <1>3, SumZero
<1>. QED  BY <1>1, <1>4 DEF Settled

\* What is unallocated is a number.
LEMMA UnspentsInt ==
    ASSUME PaymentsInv PROVE Unspents(payments) \in Int
<1>1. PICK S, g : S = 1 .. Len(payments) /\ g = [p \in S |-> payments[p].unallocated]
  OBVIOUS
<1>2. IsFiniteSet(S)
  BY <1>1, Upto DEF PaymentsInv, Table
<1>3. IntOn(g, S)
  BY <1>1 DEF PaymentsInv, PaymentOK, IntOn
<1>4. SumFunctionOnSet(g, S) \in Int
  BY <1>2, <1>3, SumInt
<1>. QED  BY <1>1, <1>4 DEF Unspents

\* The balance is a number.
LEMMA DuesInt ==
    ASSUME EntriesInv PROVE Dues(entries) \in Int
<1>1. PICK S, g : S = 1 .. Len(entries) /\ g = [e \in S |-> Due(entries[e])]
  OBVIOUS
<1>2. IsFiniteSet(S)
  BY <1>1, Upto DEF EntriesInv, Table
<1>3. IntOn(g, S)
  BY <1>1 DEF EntriesInv, EntryOK, Due, IntOn
<1>4. SumFunctionOnSet(g, S) \in Int
  BY <1>2, <1>3, SumInt
<1>. QED  BY <1>1, <1>4 DEF Dues

----------------------------------------------------------------------------
(* Kinds of steps.                                                         *)

\* A request that leaves the bills and the payments alone, and of the ledger at
\* most what is owed: products and receipts may grow.
LEMMA OtherStep ==
    ASSUME IInv, ProductsInv', Len(products') >= Len(products), EntriesInv', ReceiptsInv',
           UNCHANGED <<bills, payments>>, Dues(entries') = Dues(entries),
           \A r : Entered(r, entries) => Entered(r, entries')
    PROVE  IInv'
<1>1. PaymentsInv' /\ Paid' /\ Agrees' /\ ControlAccountKept'
  BY DEF IInv, PaymentsInv, Paid, Agrees, ControlAccountKept
<1>2. \A k \in 0 .. Len(products) : k \in 0 .. Len(products')
  BY DEF IInv, ProductsInv
<1>3. \A doc : Known(doc) => Known(doc)'
  BY <1>2 DEF Known
<1>4. BillsInv'
  BY <1>3 DEF IInv, BillsInv
<1>. QED  BY <1>1, <1>4 DEF IInv

\* A row of bills is written, and the ledger follows.
LEMMA BillStep ==
    ASSUME IInv, NEW i, Wrote(bills, bills', i), BillOK(bills'[i]),
           Len(bills') <= MaxRows.bills, UNCHANGED <<products, receipts, payments>>,
           Entered(bills'[i], entries'), Known(bills'[i].doc),
           bills'[i].paid = (IF i <= Len(bills) THEN bills[i].paid ELSE 0),
           \A k \in 1 .. Len(bills) : k # i => Entered(bills[k], entries'),
           EntriesInv', \A r : Booked(r, entries) => Booked(r, entries'),
           Dues(entries') = Dues(entries) - Open(bills'[i])
                + (IF i <= Len(bills) THEN Open(bills[i]) ELSE 0)
    PROVE  IInv'
<1>1. PICK n \in Nat, m \in Nat : n = Len(bills) /\ m = Len(bills')
  BY WroteRow
<1>2. /\ i \in Nat /\ ((m = n /\ i \in 1 .. n) \/ (m = n + 1 /\ i = n + 1))
      /\ \A k \in 1 .. m : k = i \/ (k \in 1 .. n /\ bills'[k] = bills[k])
  BY <1>1, WroteRow
<1>3. \A k \in 1 .. n : BillOK(bills[k])
  BY <1>1 DEF IInv, BillsInv
<1>4. PaymentsInv' /\ ProductsInv' /\ ReceiptsInv' /\ ControlAccountKept'
  BY DEF IInv, PaymentsInv, ProductsInv, ReceiptsInv, ControlAccountKept
<1>5. BillsInv'
  <2>1. Table(bills') /\ m <= MaxRows.bills
    BY <1>1 DEF Wrote
  <2>2. ASSUME NEW k \in 1 .. m
        PROVE  /\ BillOK(bills'[k]) /\ Entered(bills'[k], entries')
               /\ Known(bills'[k].doc)
    <3>1. CASE k = i
      BY <3>1
    <3>2. CASE k # i
      <4>1. k \in 1 .. n /\ bills'[k] = bills[k]
        BY <1>2, <3>2
      <4>2. BillOK(bills[k]) /\ Known(bills[k].doc)
        BY <1>1, <4>1 DEF IInv, BillsInv
      <4>3. Entered(bills[k], entries')
        BY <1>1, <3>2, <4>1
      <4>. QED  BY <4>1, <4>2, <4>3
    <3>. QED  BY <3>1, <3>2
  <2>. QED  BY <1>1, <2>1, <2>2 DEF BillsInv, Known
<1>6. Paid'
  <2>1. ASSUME NEW k \in 1 .. m PROVE bills'[k].paid = Settled(payments, k)
    <3>1. CASE k \in 1 .. n
      <4>1. bills'[k].paid = bills[k].paid
        BY <1>1, <1>2, <3>1
      <4>. QED  BY <1>1, <3>1, <4>1 DEF IInv, Paid
    <3>2. CASE k \notin 1 .. n
      <4>1. k = i /\ i > n /\ bills'[k].paid = 0
        BY <1>1, <1>2, <3>2
      <4>2. MaxRows.bills \in Nat
        BY PurchasingAssumption
      <4>3. k \in 1 .. MaxRows.bills
        BY <1>1, <4>2
      <4>. QED  BY <1>1, <4>1, <4>3, NothingSettled DEF IInv
    <3>. QED  BY <3>1, <3>2
  <2>2. n <= m
    BY <1>2
  <2>3. ASSUME NEW p \in 1 .. Len(payments), NEW k \in 1 .. MaxRows.bills, k > m
        PROVE  payments[p].allocations[k] = 0
    <3>1. k > n
      BY <2>2, <2>3
    <3>. QED  BY <1>1, <3>1 DEF IInv, Paid
  <2>. QED  BY <1>1, <2>1, <2>3 DEF Paid
<1>8. Agrees'
  <2> SUFFICES Dues(entries') = Unspents(payments) - Opens(bills')
    BY DEF Agrees
  <2>1. /\ Opens(bills') = Opens(bills)
                - (IF i <= Len(bills) THEN Open(bills[i]) ELSE 0)
                + Open(bills'[i])
        /\ Opens(bills) \in Int
    BY <1>1, <1>3, OpensWrote
  <2>2. Dues(entries) = Unspents(payments) - Opens(bills)
    BY DEF IInv, Agrees
  <2>3. \A r : BillOK(r) => Open(r) \in Int
    BY DEF BillOK, Open
  <2>4. i <= n => Open(bills[i]) \in Int
    BY <1>2, <1>3, <2>3
  <2>5. Open(bills'[i]) \in Int
    BY <2>3
  <2>6. Unspents(payments) \in Int
    BY UnspentsInt DEF IInv
  <2>. QED  BY <1>1, <2>1, <2>2, <2>4, <2>5, <2>6
<1>. QED  BY <1>4, <1>5, <1>6, <1>8 DEF IInv

----------------------------------------------------------------------------
(* Allocations.                                                            *)

\* What a plan takes for a bill.
Takes(plan, i) == IF i \in DOMAIN plan THEN plan[i] ELSE 0
PlanOK(plan, n) == DOMAIN plan \subseteq 1 .. n /\ \A i \in DOMAIN plan : plan[i] \in Nat

\* Spread over all bills, a plan has the same total.
LEMMA PlanSum ==
    ASSUME NEW n \in Nat, NEW plan, PlanOK(plan, n), NEW f, \A i \in 1 .. n : f[i] = Takes(plan, i)
    PROVE  SumFunctionOnSet(f, 1 .. n) = PlanTotal(plan) /\ PlanTotal(plan) \in Nat
<1>1. PICK S, D, g : S = 1 .. n /\ D = DOMAIN plan /\ g = [i \in D |-> plan[i]]
  OBVIOUS
<1>2. D \in SUBSET S
  BY <1>1 DEF PlanOK
<1>3. IsFiniteSet(S) /\ IsFiniteSet(D)
  BY <1>1, <1>2, Upto, FS_Subset
<1>4. \A i \in D : f[i] = g[i] /\ g[i] \in Nat
  BY <1>1, <1>2 DEF PlanOK, Takes
<1>5. \A i \in S \ D : f[i] = 0
  BY <1>1 DEF Takes
<1>6. IntOn(f, S)
  BY <1>4, <1>5 DEF IntOn
<1>7. SumFunctionOnSet(f, S) = SumFunctionOnSet(f, D)
  BY <1>2, <1>3, <1>5, <1>6, SumPart
<1>8. IntOn(g, D) /\ \A i \in D : f[i] = g[i]
  BY <1>4 DEF IntOn
<1>9. SumFunctionOnSet(f, D) = SumFunctionOnSet(g, D)
  BY <1>3, <1>8, SumSame
<1>10. SumFunctionOnSet(g, D) \in Nat
  BY <1>3, <1>4, SumNat
<1>11. PlanTotal(plan) = SumFunctionOnSet(g, D)
  BY <1>1 DEF PlanTotal, SumOf
<1>. QED  BY <1>1, <1>7, <1>9, <1>10, <1>11

\* The payment's side.
LEMMA SpentRow ==
    ASSUME NEW row, PaymentOK(row), NEW plan, PlanOK(plan, MaxRows.bills),
           PlanTotal(plan) <= row.unallocated
    PROVE  LET r == Spent(row, plan)
           IN  /\ PaymentOK(r) /\ r.unallocated = row.unallocated - PlanTotal(plan)
               /\ \A j \in 1 .. MaxRows.bills :
                    r.allocations[j] = row.allocations[j] + Takes(plan, j)
<1>1. PICK m, S : m \in Nat /\ m = MaxRows.bills /\ S = 1 .. m
  BY PurchasingAssumption
<1>2. PICK f, r, a, pt : /\ f = [i \in S |-> Takes(plan, i)] /\ r = Spent(row, plan)
                         /\ a = row.allocations /\ pt = PlanTotal(plan)
  OBVIOUS
<1>3. /\ row \in [supplier: {row.supplier}, amount: Nat, unallocated: Nat, allocations: [S -> Nat]]
      /\ row.amount = row.unallocated + SumFunctionOnSet(a, S)
  BY <1>1, <1>2 DEF PaymentOK
<1>4. a \in [S -> Nat]
  BY <1>2, <1>3
<1>5. \A i \in S : f[i] = Takes(plan, i) /\ f[i] \in Nat
  BY <1>1, <1>2 DEF PlanOK, Takes
<1>6. PICK b : b = [i \in S |-> a[i] + f[i]]
  OBVIOUS
<1>7. b \in [S -> Nat] /\ \A i \in S : b[i] = a[i] + f[i]
  BY <1>4, <1>5, <1>6
<1>8. b = [i \in DOMAIN a |-> IF i \in DOMAIN plan THEN a[i] + plan[i] ELSE a[i]]
  <2>1. DOMAIN a = S
    BY <1>4
  <2>2. \A i \in S : a[i] + f[i] = IF i \in DOMAIN plan THEN a[i] + plan[i] ELSE a[i]
    BY <1>4, <1>5 DEF Takes
  <2>. QED  BY <1>6, <2>1, <2>2
<1>9. r = [row EXCEPT !.unallocated = row.unallocated - pt, !.allocations = b]
  BY <1>2, <1>8 DEF Spent
<1>10. SumFunctionOnSet(f, S) = pt /\ pt \in Nat /\ pt <= row.unallocated
  BY <1>1, <1>2, <1>5, PlanSum
<1>11. IsFiniteSet(S) /\ IntOn(a, S) /\ IntOn(f, S)
  BY <1>1, <1>4, <1>5, Upto DEF IntOn
<1>12. SumFunctionOnSet(b, S) = SumFunctionOnSet(a, S) + SumFunctionOnSet(f, S)
  BY <1>7, <1>11, SumAdd
<1>13. SumFunctionOnSet(a, S) \in Int
  BY <1>11, SumInt
<1>14. /\ r.supplier = row.supplier /\ r.amount = row.amount /\ r.allocations = b
       /\ r.unallocated = row.unallocated - pt
       /\ r \in [supplier: {r.supplier}, amount: Nat, unallocated: Nat, allocations: [S -> Nat]]
  <2>1. PICK u \in Nat : u = row.unallocated - pt
    BY <1>3, <1>10
  <2>2. PICK F : F = [S -> Nat]
    OBVIOUS
  <2>3. row \in [supplier: {row.supplier}, amount: Nat, unallocated: Nat, allocations: F]
    BY <1>3, <2>2
  <2>4. b \in F /\ r = [row EXCEPT !.unallocated = u, !.allocations = b]
    BY <1>7, <1>9, <2>1, <2>2
  <2>5. /\ r.supplier = row.supplier /\ r.amount = row.amount /\ r.allocations = b
        /\ r.unallocated = u
        /\ r \in [supplier: {r.supplier}, amount: Nat, unallocated: Nat, allocations: F]
    BY <2>3, <2>4
  <2>. QED  BY <2>1, <2>2, <2>5
<1>15. r.amount = r.unallocated + SumFunctionOnSet(r.allocations, S)
  BY <1>3, <1>10, <1>12, <1>13, <1>14
<1>16. PaymentOK(r)
  BY <1>1, <1>14, <1>15 DEF PaymentOK
<1>17. \A j \in S : r.allocations[j] = a[j] + Takes(plan, j)
  BY <1>5, <1>7, <1>14
<1>. QED  BY <1>1, <1>2, <1>14, <1>16, <1>17

\* The bills' side.
LEMMA SettledRows ==
    ASSUME BillsInv, NEW row, NEW plan, PlanOK(plan, Len(bills)), CanApply(row, plan),
           Settle(plan)
    PROVE  /\ Table(bills') /\ Len(bills') = Len(bills)
           /\ \A i \in 1 .. Len(bills) :
                LET r == bills'[i]
                IN  /\ BillOK(r) /\ r.doc = bills[i].doc
                    /\ r.paid = bills[i].paid + Takes(plan, i)
                    /\ Open(bills[i]) = Open(r) + Takes(plan, i)
                    /\ Open(r) \in Int /\ Takes(plan, i) \in Int
                    /\ \A T : Entered(bills[i], T) => Entered(r, T)
<1>1. PICK n \in Nat : n = Len(bills)
  BY DEF BillsInv, Table
<1>2. bills = [k \in 1 .. n |-> bills[k]] /\ DOMAIN bills = 1 .. n
  BY <1>1 DEF BillsInv, Table
<1>3. bills' = [k \in 1 .. n |-> bills'[k]]
  BY <1>2 DEF Settle
<1>4. Len(bills') = n
  BY <1>3, AppendRow
<1>5. ASSUME NEW i \in 1 .. n
      PROVE  LET r == bills'[i]
             IN  /\ BillOK(r) /\ r.doc = bills[i].doc
                 /\ r.paid = bills[i].paid + Takes(plan, i)
                 /\ Open(bills[i]) = Open(r) + Takes(plan, i)
                 /\ Open(r) \in Int /\ Takes(plan, i) \in Int
                 /\ \A T : Entered(bills[i], T) => Entered(r, T)
  <2>1. PICK r, w : r = bills'[i] /\ w = bills[i]
    OBVIOUS
  <2>2. BillOK(w)
    BY <1>1, <2>1 DEF BillsInv
  <2>3. w.price.totals.grand \in Nat /\ w.paid \in Nat
    BY <2>2 DEF BillOK
  <2>4. CASE i \notin DOMAIN plan
    <3>1. r = w
      BY <1>2, <2>1, <2>4 DEF Settle
    <3>2. Takes(plan, i) = 0
      BY <2>4 DEF Takes
    <3>3. Open(w) \in Int
      BY <2>3 DEF Open
    <3>. QED  BY <2>1, <2>2, <2>3, <3>1, <3>2, <3>3
  <2>5. CASE i \in DOMAIN plan
    <3>1. PICK x \in Nat : x = plan[i]
      BY <2>5 DEF PlanOK
    <3>2. Takes(plan, i) = x
      BY <2>5, <3>1 DEF Takes
    <3>3. w.status \in Standing /\ x <= w.price.totals.grand - w.paid
      BY <2>1, <2>5, <3>1 DEF CanApply, is_posted, outstanding, grand_total, Standing
    <3>4. PICK s \in Standing : r = [w EXCEPT !.paid = w.paid + x, !.status = s]
      BY <1>2, <2>1, <2>5, <3>1 DEF Settle, Standing
    <3>5. /\ r \in [supplier: {r.supplier}, number: {r.number}, receipt: {r.receipt},
                    doc: Documents, price: {r.price},
                    status: Standing \cup {"draft", "cancelled"}, paid: Nat, entry: Nat]
          /\ r.status \in Standing /\ r.paid = w.paid + x /\ r.price = w.price
          /\ r.doc = w.doc /\ r.entry = w.entry
      <4>1. PICK y \in Nat : y = w.paid + x
        BY <2>3
      <4>2. PICK Status : Status = Standing \cup {"draft", "cancelled"}
        OBVIOUS
      <4>3. w \in [supplier: {w.supplier}, number: {w.number}, receipt: {w.receipt},
                   doc: Documents, price: {w.price}, status: Status, paid: Nat, entry: Nat]
        BY <2>2, <4>2 DEF BillOK
      <4>4. s \in Status /\ r = [w EXCEPT !.paid = y, !.status = s]
        BY <3>4, <4>1, <4>2
      <4>5. r \in [supplier: {r.supplier}, number: {r.number}, receipt: {r.receipt},
                   doc: Documents, price: {r.price}, status: Status, paid: Nat, entry: Nat]
        BY <4>3, <4>4
      <4>6. /\ r.status = s /\ r.paid = y /\ r.price = w.price
            /\ r.doc = w.doc /\ r.entry = w.entry
        BY <4>3, <4>4
      <4>. QED  BY <4>1, <4>2, <4>5, <4>6
    <3>6. BillOK(r)
      <4>1. r.paid <= r.price.totals.grand /\ r.price.totals.grand \in Nat
        BY <2>3, <3>3, <3>5
      <4>. QED  BY <3>5, <4>1 DEF BillOK
    <3>7. Open(r) = w.price.totals.grand - (w.paid + x) /\ Open(w) = w.price.totals.grand - w.paid
      BY <3>3, <3>5 DEF Open
    <3>8. \A T : Entered(w, T) => Entered(r, T)
      BY <3>3, <3>5 DEF Entered
    <3>9. Open(w) = Open(r) + x /\ Open(r) \in Int
      BY <2>3, <3>7
    <3>. QED  BY <2>1, <3>1, <3>2, <3>5, <3>6, <3>8, <3>9
  <2>. QED  BY <2>4, <2>5
<1>. QED  BY <1>1, <1>3, <1>4, <1>5 DEF Table

\* A plan is applied to a payment that is, or is about to be, row p.
LEMMA ApplyStep ==
    ASSUME IInv, NEW p, NEW row, NEW plan, PlanOK(plan, Len(bills)), PaymentOK(row),
           IF p <= Len(payments) THEN row = payments[p]
           ELSE \A i \in 1 .. MaxRows.bills : row.allocations[i] = 0,
           Wrote(payments, payments', p), payments'[p] = Spent(row, plan),
           CanApply(row, plan), Settle(plan), UNCHANGED <<products, receipts>>,
           EntriesInv', \A r : Booked(r, entries) => Booked(r, entries'),
           \A i \in 1 .. Len(bills) : Entered(bills[i], entries'),
           Dues(entries') = Dues(entries) + (IF p <= Len(payments) THEN 0 ELSE row.unallocated)
    PROVE  IInv'
<1>1. PICK n \in Nat : n = Len(bills)
  BY DEF IInv, BillsInv, Table
<1>2. PICK m \in Nat : m = MaxRows.bills
  BY PurchasingAssumption
<1>3. n <= m
  BY <1>1, <1>2 DEF IInv, BillsInv
<1>4. PlanOK(plan, MaxRows.bills)
  BY <1>1, <1>2, <1>3 DEF PlanOK
<1>5. PICK new, pt : new = payments'[p] /\ pt = PlanTotal(plan)
  OBVIOUS
<1>6. pt <= row.unallocated
  BY <1>5 DEF CanApply
<1>7. /\ PaymentOK(new) /\ new.unallocated = row.unallocated - pt
      /\ \A j \in 1 .. m : new.allocations[j] = row.allocations[j] + Takes(plan, j)
  BY <1>2, <1>4, <1>5, <1>6, SpentRow
<1>8. /\ Table(bills') /\ Len(bills') = n
      /\ \A i \in 1 .. n :
            /\ BillOK(bills'[i]) /\ bills'[i].doc = bills[i].doc
            /\ bills'[i].paid = bills[i].paid + Takes(plan, i)
            /\ Open(bills[i]) = Open(bills'[i]) + Takes(plan, i)
            /\ Open(bills'[i]) \in Int /\ Takes(plan, i) \in Int
            /\ \A T : Entered(bills[i], T) => Entered(bills'[i], T)
  BY <1>1, SettledRows DEF IInv
<1>9. PICK k \in Nat : k = Len(payments)
  BY WroteRow
<1>10. PICK l \in Nat : l = Len(payments')
  BY WroteRow
<1>11. /\ p \in Nat /\ ((l = k /\ p \in 1 .. k) \/ (l = k + 1 /\ p = k + 1))
       /\ \A q \in 1 .. l : q = p \/ (q \in 1 .. k /\ payments'[q] = payments[q])
  BY <1>9, <1>10, WroteRow
<1>12. \A q \in 1 .. k : PaymentOK(payments[q])
  BY <1>9 DEF IInv, PaymentsInv
<1>13. PaymentsInv'
  <2>1. \A q \in 1 .. l : PaymentOK(payments'[q])
    BY <1>5, <1>7, <1>11, <1>12
  <2>. QED  BY <1>10, <2>1 DEF PaymentsInv, Wrote
<1>14. ProductsInv' /\ ReceiptsInv' /\ ControlAccountKept'
  BY DEF IInv, ProductsInv, ReceiptsInv, ControlAccountKept
<1>15. BillsInv'
  <2>1. \A i \in 1 .. n : Known(bills[i].doc)
    BY <1>1 DEF IInv, BillsInv
  <2>2. \A i \in 1 .. n : /\ BillOK(bills'[i]) /\ Entered(bills'[i], entries')
                          /\ Known(bills'[i].doc)
    BY <1>1, <1>8, <2>1
  <2>. QED  BY <1>1, <1>2, <1>3, <1>8, <2>2 DEF BillsInv, Known
<1>16. \A j \in 1 .. m : (IF p <= k THEN payments[p].allocations[j] ELSE 0) = row.allocations[j]
  BY <1>2, <1>9
<1>17. Paid'
  <2>1. ASSUME NEW i \in 1 .. n PROVE bills'[i].paid = Settled(payments', i)
    <3>1. i \in 1 .. MaxRows.bills
      BY <1>2, <1>3
    <3>2. /\ Settled(payments', i) = Settled(payments, i)
                - (IF p <= Len(payments) THEN payments[p].allocations[i] ELSE 0)
                + payments'[p].allocations[i]
          /\ Settled(payments, i) \in Int
      BY <1>5, <1>7, <1>9, <1>12, <3>1, SettledWrote
    <3>3. bills[i].paid = Settled(payments, i)
      BY <1>1 DEF IInv, Paid
    <3>4. new.allocations[i] = row.allocations[i] + Takes(plan, i)
      BY <1>2, <1>7, <3>1
    <3>5. row.allocations[i] \in Int
      <4>1. PICK M : M = 1 .. MaxRows.bills
        OBVIOUS
      <4>2. row.allocations \in [M -> Nat]
        BY <4>1 DEF PaymentOK
      <4>3. i \in M
        BY <3>1, <4>1
      <4>4. PICK a : a = row.allocations
        OBVIOUS
      <4>5. a \in [M -> Nat]
        BY <4>2, <4>4
      <4>6. a[i] \in Nat
        BY <4>3, <4>5
      <4>. QED  BY <4>4, <4>6
    <3>6. Settled(payments', i) = Settled(payments, i) - row.allocations[i] + new.allocations[i]
      BY <1>2, <1>5, <1>9, <1>16, <3>1, <3>2
    <3>7. Takes(plan, i) \in Int /\ bills'[i].paid = bills[i].paid + Takes(plan, i)
      BY <1>8
    <3>. QED  BY <3>2, <3>3, <3>4, <3>5, <3>6, <3>7
  <2>2. ASSUME NEW q \in 1 .. l, NEW j \in 1 .. m, j > n PROVE payments'[q].allocations[j] = 0
    <3>1. CASE q # p
      <4>1. q \in 1 .. k /\ payments'[q] = payments[q]
        BY <1>11, <3>1
      <4>. QED  BY <1>1, <1>2, <1>9, <2>2, <4>1 DEF IInv, Paid
    <3>2. CASE q = p
      <4>1. Takes(plan, j) = 0
        BY <1>1, <2>2 DEF Takes, PlanOK
      <4>2. row.allocations[j] = 0
        <5>1. CASE p <= k
          <6>1. p \in 1 .. k /\ row = payments[p]
            BY <1>9, <1>11, <5>1
          <6>. QED  BY <1>1, <1>2, <1>9, <2>2, <6>1 DEF IInv, Paid
        <5>2. CASE ~(p <= k)
          BY <1>2, <1>9, <5>2
        <5>. QED  BY <5>1, <5>2
      <4>3. new.allocations[j] = row.allocations[j] + Takes(plan, j)
        BY <1>7
      <4>. QED  BY <1>5, <3>2, <4>1, <4>2, <4>3
    <3>. QED  BY <3>1, <3>2
  <2>. QED  BY <1>2, <1>8, <1>10, <2>1, <2>2 DEF Paid
<1>18. Opens(bills) = Opens(bills') + pt /\ Opens(bills') \in Int /\ pt \in Nat
  <2>1. PICK f, g, h, S : /\ f = [i \in 1 .. n |-> Takes(plan, i)] /\ S = 1 .. n
                          /\ g = [i \in 1 .. n |-> Open(bills[i])]
                          /\ h = [i \in 1 .. n |-> Open(bills'[i])]
    OBVIOUS
  <2>2. IsFiniteSet(S) /\ IntOn(h, S) /\ IntOn(f, S) /\ \A i \in S : g[i] = h[i] + f[i]
    BY <1>8, <2>1, Upto DEF IntOn
  <2>3. SumFunctionOnSet(g, S) = SumFunctionOnSet(h, S) + SumFunctionOnSet(f, S)
    BY <2>2, SumAdd
  <2>4. \A i \in 1 .. n : f[i] = Takes(plan, i)
    BY <2>1
  <2>5. SumFunctionOnSet(f, 1 .. n) = pt /\ pt \in Nat
    BY <1>1, <1>5, <2>4, PlanSum
  <2>6. SumFunctionOnSet(h, S) \in Int
    BY <2>2, SumInt
  <2>7. Opens(bills) = SumFunctionOnSet(g, S) /\ Opens(bills') = SumFunctionOnSet(h, S)
    BY <1>1, <1>8, <2>1 DEF Opens
  <2>. QED  BY <2>1, <2>3, <2>5, <2>6, <2>7
<1>19. Agrees'
  <2> SUFFICES Dues(entries') = Unspents(payments') - Opens(bills')
    BY DEF Agrees
  <2>1. /\ Unspents(payments') = Unspents(payments)
                - (IF p <= Len(payments) THEN payments[p].unallocated ELSE 0)
                + payments'[p].unallocated
        /\ Unspents(payments) \in Int
    BY <1>5, <1>7, <1>9, <1>12, UnspentsWrote
  <2>2. Dues(entries) = Unspents(payments) - Opens(bills)
    BY DEF IInv, Agrees
  <2>3. row.unallocated \in Nat
    BY DEF PaymentOK
  <2>4. CASE p <= k
    <3>1. Unspents(payments') = Unspents(payments) - pt
      BY <1>5, <1>7, <1>9, <1>18, <2>1, <2>3, <2>4
    <3>2. Dues(entries') = Dues(entries) + 0
      BY <1>9, <2>4
    <3>. QED  BY <1>18, <2>1, <2>2, <3>1, <3>2
  <2>5. CASE ~(p <= k)
    <3>1. Unspents(payments') = Unspents(payments) + row.unallocated - pt
      BY <1>5, <1>7, <1>9, <1>18, <2>1, <2>3, <2>5
    <3>2. Dues(entries') = Dues(entries) + row.unallocated
      BY <1>9, <2>5
    <3>. QED  BY <1>18, <2>1, <2>2, <2>3, <3>1, <3>2
  <2>. QED  BY <2>4, <2>5
<1>. QED  BY <1>13, <1>14, <1>15, <1>17, <1>19 DEF IInv

----------------------------------------------------------------------------
(* The ledger.                                                             *)

\* create_entry().
LEMMA EntryAdded ==
    ASSUME IInv, NEW amounts, amounts["payable"] \in Int,
           create_entry(amounts)
    PROVE  /\ EntriesInv' /\ Len(entries') = Len(entries) + 1
           /\ Len(entries) + 1 \in Nat \ {0}
           /\ entries'[Len(entries) + 1].amounts = amounts
           /\ Dues(entries') = Dues(entries) + amounts["payable"]
           /\ \A r : Entered(r, entries) => Entered(r, entries')
           /\ \A r : Booked(r, entries) => Booked(r, entries')
           /\ Dues(entries) \in Int
<1>1. PICK n \in Nat : n = Len(entries)
  BY DEF IInv, EntriesInv, Table
<1>2. PICK e, r : e = JournalEntry(amounts) /\ r = entries'
  OBVIOUS
<1>3. Table(entries) /\ r = Append(entries, e)
  BY <1>2 DEF IInv, EntriesInv, create_entry
<1>4. Wrote(entries, r, n + 1) /\ r[n + 1] = e /\ Len(r) = n + 1
  BY <1>1, <1>3, WroteAppend
<1>5. EntryOK(e) /\ e.amounts = amounts /\ Due(e) = amounts["payable"]
  BY <1>2 DEF JournalEntry, EntryOK, Due
<1>6. \A k \in 1 .. n : EntryOK(entries[k])
  BY <1>1 DEF IInv, EntriesInv
<1>7. \A k \in 1 .. n : r[k] = entries[k]
  BY <1>1, <1>4 DEF Wrote
<1>8. EntriesInv'
  <2>1. \A k \in 1 .. n + 1 : EntryOK(r[k])
    BY <1>4, <1>5, <1>6, <1>7
  <2>. QED  BY <1>2, <1>4, <2>1 DEF EntriesInv, Wrote
<1>9. /\ Dues(r) = Dues(entries) - (IF n + 1 <= Len(entries) THEN Due(entries[n + 1]) ELSE 0)
                    + Due(r[n + 1])
      /\ Dues(entries) \in Int
  BY <1>1, <1>4, <1>5, <1>6, DuesWrote
<1>10. Dues(r) = Dues(entries) + amounts["payable"]
  BY <1>1, <1>4, <1>5, <1>9
<1>11. ASSUME NEW w, Entered(w, entries) PROVE Entered(w, r)
  <2>1. \A k \in 1 .. n : k \in 1 .. n + 1
    OBVIOUS
  <2>. QED  BY <1>1, <1>4, <1>7, <1>11, <2>1 DEF Entered
<1>12. ASSUME NEW w, Booked(w, entries) PROVE Booked(w, r)
  <2>1. \A k \in 1 .. n : k \in 1 .. n + 1
    OBVIOUS
  <2>. QED  BY <1>1, <1>4, <1>7, <1>12, <2>1 DEF Booked
<1>. QED  BY <1>1, <1>2, <1>4, <1>5, <1>8, <1>9, <1>10, <1>11, <1>12

\* reverse_entry().
LEMMA EntryReversed ==
    ASSUME IInv, NEW e \in 1 .. Len(entries), reverse_entry(e)
    PROVE  /\ EntriesInv' /\ Dues(entries') = Dues(entries) - entries[e].amounts["payable"]
           /\ \A r : Entered(r, entries) => Entered(r, entries')
           /\ \A r : Booked(r, entries) => Booked(r, entries')
           /\ entries[e].amounts["payable"] \in Int /\ Dues(entries) \in Int
<1>1. PICK n \in Nat : n = Len(entries)
  BY DEF IInv, EntriesInv, Table
<1>2. PICK row, T : row = [entries[e] EXCEPT !.reversed = TRUE] /\ T = entries'
  OBVIOUS
<1>3. EntryOK(entries[e]) /\ ~entries[e].reversed
  BY DEF IInv, EntriesInv, reverse_entry
<1>4. EntryOK(row) /\ row.reversed /\ row.amounts = entries[e].amounts
  BY <1>2, <1>3 DEF EntryOK
<1>5. T = [entries EXCEPT ![e] = row]
  BY <1>2 DEF reverse_entry
<1>6. Wrote(entries, T, e) /\ T[e] = row /\ Len(T) = n
  <2>1. Table(entries)
    BY DEF IInv, EntriesInv
  <2>2. entries' = [entries EXCEPT ![e] = row]
    BY <1>2, <1>5
  <2>3. Wrote(entries, entries', e)
    BY <2>1, <2>2, WroteExcept
  <2>4. Len(entries') = Len(entries)
    BY <2>1, <2>2, WroteExcept
  <2>5. entries'[e] = row
    BY <2>1, <2>2, WroteExcept
  <2>. QED  BY <1>1, <1>2, <2>3, <2>4, <2>5
<1>7. \A k \in 1 .. n : EntryOK(entries[k])
  BY <1>1 DEF IInv, EntriesInv
<1>8. \A k \in 1 .. n : EntryOK(T[k]) /\ T[k].amounts = entries[k].amounts
  BY <1>1, <1>4, <1>6, <1>7 DEF Wrote
<1>9. EntriesInv'
  BY <1>2, <1>6, <1>8 DEF EntriesInv, Wrote
<1>10. /\ Dues(T) = Dues(entries) - (IF e <= Len(entries) THEN Due(entries[e]) ELSE 0) + Due(T[e])
       /\ Dues(entries) \in Int
  BY <1>1, <1>4, <1>6, <1>7, DuesWrote
<1>11. /\ Due(T[e]) = 0 /\ Due(entries[e]) = entries[e].amounts["payable"]
       /\ entries[e].amounts["payable"] \in Int
  BY <1>3, <1>4, <1>6 DEF Due, EntryOK
<1>12. Dues(T) = Dues(entries) - entries[e].amounts["payable"]
  BY <1>10, <1>11
<1>13. ASSUME NEW w, Entered(w, entries) PROVE Entered(w, T)
  BY <1>1, <1>6, <1>8, <1>13 DEF Entered
<1>14. ASSUME NEW w, Booked(w, entries) PROVE Booked(w, T)
  BY <1>1, <1>6, <1>8, <1>14 DEF Booked
<1>. QED  BY <1>2, <1>9, <1>10, <1>11, <1>12, <1>13, <1>14

\* _post_pair(): the ledger, after an entry for amount or none.
LEMMA PairPosted ==
    ASSUME IInv, NEW debit, NEW credit, NEW amount, "payable" \notin {debit, credit},
           _post_pair(debit, credit, amount)
    PROVE  /\ EntriesInv' /\ Dues(entries') = Dues(entries)
           /\ \A r : Entered(r, entries) => Entered(r, entries')
           /\ \A r : Booked(r, entries) => Booked(r, entries')
           /\ Len(entries) \in Nat
           /\ amount > 0 =>
                /\ Len(entries') = Len(entries) + 1
                /\ entries'[Len(entries) + 1].amounts["payable"] = 0
<1>1. PICK amounts : amounts = Pair(debit, credit, amount)
  OBVIOUS
<1>2. amounts["payable"] = 0
  BY <1>1 DEF Pair, Accounts
<1>3. Dues(entries) \in Int /\ Len(entries) \in Nat
  BY DuesInt DEF IInv, EntriesInv, Table
<1>4. CASE amount > 0
  <2>1. create_entry(amounts)
    BY <1>1, <1>4 DEF _post_pair
  <2>2. amounts["payable"] \in Int
    BY <1>2
  <2>3. /\ EntriesInv' /\ Len(entries') = Len(entries) + 1
        /\ entries'[Len(entries) + 1].amounts = amounts
        /\ Dues(entries') = Dues(entries) + amounts["payable"]
        /\ \A r : Entered(r, entries) => Entered(r, entries')
        /\ \A r : Booked(r, entries) => Booked(r, entries')
    BY <2>1, <2>2, EntryAdded
  <2>. QED  BY <1>2, <1>3, <1>4, <2>3
<1>5. CASE ~(amount > 0)
  <2>1. entries' = entries
    BY <1>5 DEF _post_pair
  <2>. QED  BY <1>3, <1>5, <2>1 DEF IInv, EntriesInv
<1>. QED  BY <1>4, <1>5

----------------------------------------------------------------------------
(* Requests about products and stock.                                      *)

\* An account of a product is not the payable account.
LEMMA ProductAccount ==
    ASSUME IInv, NEW p \in DOMAIN products
    PROVE  _inventory_account_id(p) # "payable"
<1>1. products[p] \in ProductCreate
  BY DEF IInv, ProductsInv
<1>2. products[p].inventory \in InventoryAccounts
  BY <1>1 DEF ProductCreate
<1>. QED  BY <1>2 DEF IInv, ControlAccountKept, _inventory_account_id

\* Requests that touch none of the tables of the invariant.
LEMMA QuietStep ==
    ASSUME IInv, UNCHANGED <<products, receipts, bills, payments, entries>> PROVE IInv'
BY DEF IInv, ControlAccountKept, ProductsInv, EntriesInv, PaymentsInv, ReceiptsInv, BillsInv,
       Known, Paid, Agrees

\* Requests that write a product.
LEMMA ProductWritten ==
    ASSUME IInv, ProductsInv', Len(products') >= Len(products),
           UNCHANGED <<receipts, bills, payments, entries>>
    PROVE  IInv'
<1>1. EntriesInv' /\ ReceiptsInv' /\ Dues(entries') = Dues(entries)
  BY DEF IInv, EntriesInv, ReceiptsInv
<1>2. \A r : Entered(r, entries) => Entered(r, entries')
  OBVIOUS
<1>. QED  BY <1>1, <1>2, OtherStep

\* create_product() and update_product().
LEMMA ProductSteps ==
    ASSUME IInv, create_product \/ \E p \in DOMAIN products : update_product(p)
    PROVE  IInv'
<1>1. products \in Seq(ProductCreate) /\ Len(products) \in Nat
  BY DEF IInv, ProductsInv
<1>2. CASE create_product
  <2>1. PICK form \in ProductCreate : products' = Append(products, form)
    BY <1>2, PurchasingAssumption DEF create_product, Product
  <2>2. products' \in Seq(ProductCreate) /\ Len(products') = Len(products) + 1
    BY <1>1, <2>1
  <2>3. UNCHANGED <<receipts, bills, payments, entries>>
    BY <1>2 DEF create_product, buying
  <2>. QED  BY <1>1, <2>2, <2>3, ProductWritten DEF ProductsInv
<1>3. ASSUME NEW p \in DOMAIN products, update_product(p) PROVE IInv'
  <2>1. PICK form \in ProductForms :
            products' = [products EXCEPT ![p] = [form EXCEPT !.kind = products[p].kind]]
    BY <1>3 DEF update_product
  <2>2. form \in ProductCreate /\ products[p] \in ProductCreate
    BY <1>1, PurchasingAssumption
  <2>3. PICK r : r = [form EXCEPT !.kind = products[p].kind]
    OBVIOUS
  <2>4. r \in ProductCreate
    BY <2>2, <2>3 DEF ProductCreate
  <2>5. products' \in Seq(ProductCreate) /\ Len(products') = Len(products)
    BY <1>1, <2>1, <2>3, <2>4
  <2>6. UNCHANGED <<receipts, bills, payments, entries>>
    BY <1>3 DEF update_product, buying
  <2>. QED  BY <1>1, <2>5, <2>6, ProductWritten DEF ProductsInv
<1>. QED  BY <1>2, <1>3

\* adjust().
LEMMA StockAdjusted ==
    ASSUME IInv, NEW p \in DOMAIN products, NEW w, NEW delta, NEW cost, adjust(p, w, delta, cost)
    PROVE  IInv'
<1>1. PICK debit, credit, amount :
        /\ debit \in {_inventory_account_id(p), "cogs"}
        /\ credit \in {_inventory_account_id(p), "cogs"}
        /\ _post_pair(debit, credit, amount)
  BY DEF adjust
<1>2. "payable" \notin {debit, credit}
  BY <1>1, ProductAccount
<1>3. /\ EntriesInv' /\ Dues(entries') = Dues(entries)
      /\ \A r : Entered(r, entries) => Entered(r, entries')
      /\ \A r : Booked(r, entries) => Booked(r, entries')
  BY <1>1, <1>2, PairPosted
<1>4. UNCHANGED <<products, receipts, bills, payments>>
  BY DEF adjust, catalogue, buying
<1>5. ReceiptsInv'
  BY <1>3, <1>4 DEF IInv, ReceiptsInv
<1>6. ProductsInv' /\ Len(products') >= Len(products)
  BY <1>4 DEF IInv, ProductsInv
<1>. QED  BY <1>3, <1>4, <1>5, <1>6, OtherStep

----------------------------------------------------------------------------
(* Requests about receipts.                                                *)

\* A row of receipts is written; the bills, the payments and what is owed stay.
LEMMA ReceiptStep ==
    ASSUME IInv, NEW i, Wrote(receipts, receipts', i), ReceiptOK(receipts'[i]),
           Booked(receipts'[i], entries'), EntriesInv', Dues(entries') = Dues(entries),
           \A r : Entered(r, entries) => Entered(r, entries'),
           \A r : Booked(r, entries) => Booked(r, entries'),
           UNCHANGED <<products, bills, payments>>
    PROVE  IInv'
<1>1. PICK n \in Nat : n = Len(receipts)
  BY WroteRow
<1>2. PICK m \in Nat : m = Len(receipts')
  BY WroteRow
<1>3. \A k \in 1 .. m : k = i \/ (k \in 1 .. n /\ receipts'[k] = receipts[k])
  BY <1>1, <1>2, WroteRow
<1>4. \A k \in 1 .. n : ReceiptOK(receipts[k]) /\ Booked(receipts[k], entries)
  BY <1>1 DEF IInv, ReceiptsInv
<1>5. \A k \in 1 .. m : ReceiptOK(receipts'[k]) /\ Booked(receipts'[k], entries')
  BY <1>3, <1>4
<1>6. ReceiptsInv'
  BY <1>2, <1>5 DEF ReceiptsInv, Wrote
<1>7. ProductsInv' /\ Len(products') >= Len(products)
  BY DEF IInv, ProductsInv
<1>. QED  BY <1>6, <1>7, OtherStep

\* A receipt written that leaves the ledger alone.
LEMMA ReceiptQuiet ==
    ASSUME IInv, NEW i, Wrote(receipts, receipts', i), ReceiptOK(receipts'[i]),
           Booked(receipts'[i], entries), UNCHANGED <<products, bills, payments, entries>>
    PROVE  IInv'
<1>1. EntriesInv' /\ Dues(entries') = Dues(entries)
  BY DEF IInv, EntriesInv
<1>2. /\ \A r : Entered(r, entries) => Entered(r, entries')
      /\ \A r : Booked(r, entries) => Booked(r, entries')
      /\ Booked(receipts'[i], entries')
  OBVIOUS
<1>. QED  BY <1>1, <1>2, ReceiptStep

\* The row that posting writes.
LEMMA PostedRow ==
    ASSUME Table(receipts), NEW r, NEW i \in Nat,
           i \in 1 .. Len(receipts) \/ i = Len(receipts) + 1, PostReceipt(r, i)
    PROVE  /\ Wrote(receipts, receipts', i)
           /\ receipts'[i] = [r EXCEPT !.status = "posted",
                                !.entry = IF PostedValue(r) > 0 THEN Len(entries) + 1 ELSE 0]
<1>1. PICK w : w = [r EXCEPT !.status = "posted",
                        !.entry = IF PostedValue(r) > 0 THEN Len(entries) + 1 ELSE 0]
  OBVIOUS
<1>2. receipts' = [k \in DOMAIN receipts \cup {i} |-> IF k # i THEN receipts[k] ELSE w]
  BY <1>1 DEF PostReceipt
<1>3. receipts' = [k \in DOMAIN receipts \cup {i} |-> IF k = i THEN w ELSE receipts[k]]
  BY <1>2
<1>4. PICK B : B = receipts'
  OBVIOUS
<1>5. Wrote(receipts, B, i) /\ B[i] = w
  BY <1>3, <1>4, WroteAt
<1>. QED  BY <1>1, <1>4, <1>5

\* Posting: a receipt that is there, or one that the request has just made.
LEMMA ReceiptPosted ==
    ASSUME IInv, NEW r, ReceiptOK(r), NEW i \in Nat,
           i \in 1 .. Len(receipts) \/ i = Len(receipts) + 1,
           PostReceipt(r, i), UNCHANGED <<products, bills, payments>>
    PROVE  IInv'
<1>1. PICK l \in Nat : l = IF PostedValue(r) > 0 THEN Len(entries) + 1 ELSE 0
  BY DEF IInv, EntriesInv, Table
<1>2. PICK w : w = [r EXCEPT !.status = "posted", !.entry = l]
  OBVIOUS
<1>3. Table(receipts)
  BY DEF IInv, ReceiptsInv
<1>4. Wrote(receipts, receipts', i)
  BY <1>3, PostedRow
<1>5. receipts'[i] = [r EXCEPT !.status = "posted",
                        !.entry = IF PostedValue(r) > 0 THEN Len(entries) + 1 ELSE 0]
  BY <1>3, PostedRow
<1>6. receipts'[i] = w
  BY <1>1, <1>2, <1>5
<1>7. ReceiptOK(w) /\ w.entry = l
  BY <1>2 DEF ReceiptOK
<1>8. PICK amount : amount = PostedValue(r) /\ _post_pair("inventory", "grni", amount)
  BY DEF PostReceipt
<1>9. "payable" \notin {"inventory", "grni"}
  OBVIOUS
<1>10. /\ EntriesInv' /\ Dues(entries') = Dues(entries)
       /\ \A v : Entered(v, entries) => Entered(v, entries')
       /\ \A v : Booked(v, entries) => Booked(v, entries')
       /\ Len(entries) \in Nat
       /\ amount > 0 =>
            /\ Len(entries') = Len(entries) + 1
            /\ entries'[Len(entries) + 1].amounts["payable"] = 0
  BY <1>8, <1>9, PairPosted
<1>11. Booked(w, entries')
  <2>1. CASE amount > 0
    <3>1. l = Len(entries) + 1
      BY <1>1, <1>8, <2>1
    <3>2. l \in 1 .. Len(entries') /\ entries'[l].amounts["payable"] = 0
      BY <1>10, <2>1, <3>1
    <3>. QED  BY <1>7, <3>2 DEF Booked
  <2>2. CASE ~(amount > 0)
    <3>1. l = 0
      BY <1>1, <1>8, <2>2
    <3>. QED  BY <1>7, <3>1 DEF Booked
  <2>. QED  BY <2>1, <2>2
<1>. QED  BY <1>4, <1>6, <1>7, <1>10, <1>11, ReceiptStep

\* create_receipt(), posting or not.
LEMMA ReceiptCreated ==
    ASSUME IInv, NEW s, NEW w, NEW order, NEW link, NEW lines, NEW post,
           create_receipt(s, w, order, link, lines, post)
    PROVE  IInv'
<1>1. PICK v, r : v = get_warehouse(w) /\ r = GoodsReceipt(s, v, order, link, lines)
  OBVIOUS
<1>2. ReceiptOK(r) /\ r.entry = 0
  BY <1>1 DEF GoodsReceipt, ReceiptOK
<1>3. UNCHANGED <<products, bills, payments>>
  BY DEF create_receipt, catalogue
<1>4. PICK n \in Nat : n = Len(receipts)
  BY DEF IInv, ReceiptsInv, Table
<1>5. CASE post
  <2>1. PICK i \in Nat : i = Len(receipts) + 1
    BY <1>4
  <2>2. PostReceipt(r, i)
    BY <1>1, <1>5, <2>1 DEF create_receipt
  <2>. QED  BY <1>2, <1>3, <2>1, <2>2, ReceiptPosted
<1>6. CASE ~post
  <2>1. receipts' = Append(receipts, r) /\ entries' = entries
    BY <1>1, <1>6 DEF create_receipt
  <2>2. Table(receipts)
    BY DEF IInv, ReceiptsInv
  <2>3. Wrote(receipts, receipts', n + 1) /\ receipts'[n + 1] = r
    BY <1>4, <2>1, <2>2, WroteAppend
  <2>4. Booked(r, entries)
    BY <1>2 DEF Booked
  <2>. QED  BY <1>2, <1>3, <2>1, <2>3, <2>4, ReceiptQuiet
<1>. QED  BY <1>5, <1>6

\* post_receipt().
LEMMA ReceiptPosts ==
    ASSUME IInv, NEW i \in DOMAIN receipts, post_receipt(i)
    PROVE  IInv'
<1>1. PICK r : r = receipts[i]
  OBVIOUS
<1>2. i \in 1 .. Len(receipts) /\ ReceiptOK(r) /\ i \in Nat
  BY <1>1 DEF IInv, ReceiptsInv, Table
<1>3. PostReceipt(r, i) /\ UNCHANGED <<products, bills, payments>>
  BY <1>1 DEF post_receipt, catalogue
<1>. QED  BY <1>2, <1>3, ReceiptPosted

\* cancel_receipt().
LEMMA ReceiptCancelled ==
    ASSUME IInv, NEW i \in DOMAIN receipts, cancel_receipt(i)
    PROVE  IInv'
<1>1. PICK w, r : w = receipts[i] /\ r = [w EXCEPT !.status = "cancelled"]
  OBVIOUS
<1>2. /\ i \in 1 .. Len(receipts) /\ ReceiptOK(w) /\ Booked(w, entries) /\ Table(receipts)
  BY <1>1 DEF IInv, ReceiptsInv, Table
<1>3. ReceiptOK(r) /\ r.entry = w.entry
  BY <1>1, <1>2 DEF ReceiptOK
<1>4. receipts' = [receipts EXCEPT ![i] = r] /\ UNCHANGED <<products, bills, payments>>
  BY <1>1 DEF cancel_receipt, catalogue
<1>5. Wrote(receipts, receipts', i)
  BY <1>2, <1>4, WroteExcept
<1>6. receipts'[i] = r
  BY <1>4
<1>7. Booked(r, entries)
  BY <1>2, <1>3 DEF Booked
<1>8. CASE entries' = entries
  BY <1>3, <1>4, <1>5, <1>6, <1>7, <1>8, ReceiptQuiet
<1>9. CASE entries' # entries
  <2>1. w.entry # 0 /\ reverse_entry(w.entry)
    BY <1>1, <1>9 DEF cancel_receipt
  <2>2. PICK e : e = w.entry
    OBVIOUS
  <2>3. e \in 1 .. Len(entries) /\ entries[e].amounts["payable"] = 0
    BY <1>2, <2>1, <2>2 DEF Booked
  <2>4. /\ EntriesInv' /\ Dues(entries') = Dues(entries) - entries[e].amounts["payable"]
        /\ \A v : Entered(v, entries) => Entered(v, entries')
        /\ \A v : Booked(v, entries) => Booked(v, entries')
        /\ Dues(entries) \in Int
    BY <2>1, <2>2, <2>3, EntryReversed
  <2>5. Dues(entries') = Dues(entries)
    BY <2>3, <2>4
  <2>6. Booked(receipts'[i], entries')
    BY <1>6, <1>7, <2>4
  <2>. QED  BY <1>3, <1>4, <1>5, <1>6, <2>4, <2>5, <2>6, ReceiptStep
<1>. QED  BY <1>8, <1>9

----------------------------------------------------------------------------
(* Requests about bills.                                                   *)

\* compute_document() on the lines of a request: a bill has totals.
LEMMA BillPriced ==
    ASSUME NEW doc \in Documents, NEW s, NEW whole
    PROVE  LET p == Priced(s, doc, whole)
           IN  /\ p.totals.grand \in Nat /\ IsFiniteSet(DOMAIN doc)
               /\ \A k \in DOMAIN doc : p.lines[k].taxable \in Nat
               /\ p.totals \in [taxable: Nat, cgst: Nat, sgst: Nat, igst: Nat, round_off: Int,
                                grand: Nat]
<1>1. doc \in Seq(PurchaseLineInput)
  BY PurchasingAssumption
<1>2. IsFiniteSet(DOMAIN doc) /\ \A k \in DOMAIN doc : doc[k] \in PurchaseLineInput
  BY <1>1, Upto
<1>3. PICK lines : lines = [k \in DOMAIN doc |-> compute_line(doc[k], _treatment(s))]
  OBVIOUS
<1>4. DOMAIN lines = DOMAIN doc
  BY <1>3
<1>5. ASSUME NEW k \in DOMAIN lines
      PROVE  /\ lines[k].taxable \in Nat /\ lines[k].cgst \in Nat
             /\ lines[k].sgst \in Nat /\ lines[k].igst \in Nat
  <2>1. PICK l \in PurchaseLineInput : l = doc[k]
    BY <1>2, <1>4
  <2>2. LineOK(l)
    BY DEF PurchaseLineInput, LineOK
  <2>3. PICK t : lines[k] = compute_line(l, t)
    BY <1>3, <1>4, <2>1
  <2>4. compute_line(l, t) \in [account: {l.account}, taxable: Nat, cgst: Nat, sgst: Nat, igst: Nat]
    BY <2>2, LinePriced
  <2>. QED  BY <2>3, <2>4
<1>6. TotalsOK(lines, compute_document(lines, whole))
  BY <1>2, <1>4, <1>5, DocumentTotals
<1>7. PICK p : p = Priced(s, doc, whole)
  OBVIOUS
<1>8. p.totals = compute_document(lines, whole) /\ p.lines = lines
  BY <1>3, <1>7 DEF Priced
<1>9. /\ p.totals \in [taxable: Nat, cgst: Nat, sgst: Nat, igst: Nat, round_off: Int, grand: Nat]
      /\ p.totals.grand \in Nat
  BY <1>6, <1>8 DEF TotalsOK
<1>10. \A k \in DOMAIN doc : p.lines[k].taxable \in Nat
  BY <1>4, <1>5, <1>8
<1>. QED  BY <1>2, <1>7, <1>9, <1>10

\* What a bill posts to the payable account is its total, whatever its lines debit.
LEMMA BillOwes ==
    ASSUME IInv, NEW bill, BillOK(bill), Known(bill.doc)
    PROVE  BillPosting(bill)["payable"] = 0 - bill.price.totals.grand
<1>1. PICK grand \in Nat : grand = bill.price.totals.grand
  BY DEF BillOK
<1>2. PICK doc \in Seq(PurchaseLineInput) : doc = bill.doc
  BY PurchasingAssumption DEF BillOK
<1>3. ASSUME NEW k \in DOMAIN doc PROVE _line_debit_account(doc[k]) # "payable"
  <2>1. PICK line \in PurchaseLineInput : line = doc[k]
    OBVIOUS
  <2>2. line.account # "payable"
    BY DEF PurchaseLineInput, IInv, ControlAccountKept
  <2>3. line.product \in 0 .. Len(products)
    BY <1>2, <2>1 DEF Known
  <2>4. line.product # 0 => line.product \in DOMAIN products
    BY <2>3 DEF IInv, ProductsInv
  <2>5. line.product # 0 => _inventory_account_id(line.product) # "payable"
    BY <2>4, ProductAccount
  <2>6. _line_debit_account(line) # "payable"
    BY <2>2, <2>5 DEF _line_debit_account
  <2>. QED  BY <2>1, <2>6
<1>4. {k \in DOMAIN bill.doc : _line_debit_account(bill.doc[k]) = "payable"} = {}
  BY <1>2, <1>3
<1>5. SumOf(LAMBDA k : bill.price.lines[k].taxable, {}) = 0
  BY SumEmpty DEF SumOf
<1>6. SumOf(LAMBDA k : bill.price.lines[k].taxable,
            {k \in DOMAIN bill.doc : _line_debit_account(bill.doc[k]) = "payable"}) = 0
  BY <1>4, <1>5
<1>7. "payable" \in Accounts
  BY DEF Accounts
<1>8. BillPosting(bill)["payable"] = 0 + (-grand)
  BY <1>1, <1>6, <1>7 DEF BillPosting
<1>. QED  BY <1>1, <1>8

\* A draft is written where there was nothing or a draft.
LEMMA DraftWritten ==
    ASSUME IInv, NEW i, Wrote(bills, bills', i), BillOK(bills'[i]),
           bills'[i].status = "draft", Known(bills'[i].doc),
           Len(bills') <= MaxRows.bills,
           i <= Len(bills) => bills[i].status = "draft",
           UNCHANGED <<products, receipts, payments, entries>>
    PROVE  IInv'
<1>1. i \in Nat /\ (i <= Len(bills) => i \in 1 .. Len(bills))
  BY WroteRow
<1>2. i <= Len(bills) => BillOK(bills[i])
  BY <1>1 DEF IInv, BillsInv
<1>3. ASSUME NEW r, BillOK(r), r.status = "draft"
      PROVE  /\ r.paid = 0 /\ Open(r) = 0
             /\ \A T : Entered(r, T)
  <2>1. r.status \notin Standing
    BY <1>3 DEF Standing
  <2>2. r.paid = 0
    BY <1>3, <2>1 DEF BillOK
  <2>. QED  BY <2>1, <2>2 DEF Open, Entered
<1>4. bills'[i].paid = (IF i <= Len(bills) THEN bills[i].paid ELSE 0)
  BY <1>2, <1>3
<1>5. \A k \in 1 .. Len(bills) : k # i => Entered(bills[k], entries')
  BY DEF IInv, BillsInv
<1>6. Entered(bills'[i], entries')
  BY <1>3
<1>7. EntriesInv' /\ \A r : Booked(r, entries) => Booked(r, entries')
  BY DEF IInv, EntriesInv
<1>8. Dues(entries') = Dues(entries) - Open(bills'[i])
                    + (IF i <= Len(bills) THEN Open(bills[i]) ELSE 0)
  <2>1. Open(bills'[i]) = 0
    BY <1>3
  <2>2. (IF i <= Len(bills) THEN Open(bills[i]) ELSE 0) = 0
    BY <1>2, <1>3
  <2>3. Dues(entries) \in Int
    BY DuesInt DEF IInv
  <2>. QED  BY <2>1, <2>2, <2>3
<1>. QED  BY <1>4, <1>5, <1>6, <1>7, <1>8, BillStep

\* The row that a request makes.
LEMMA NewBillRow ==
    ASSUME NEW s, NEW number, NEW receipt, NEW doc \in Documents, NEW whole
    PROVE  LET r == Bill(s, number, receipt, doc, whole)
           IN  BillOK(r) /\ r.status = "draft" /\ r.doc = doc /\ r.paid = 0
<1>1. PICK r, price : r = Bill(s, number, receipt, doc, whole) /\ price = Priced(s, doc, whole)
  OBVIOUS
<1>2. r = [supplier |-> s, number |-> number, receipt |-> receipt, doc |-> doc,
           price |-> price, status |-> "draft", paid |-> 0, entry |-> 0]
  BY <1>1 DEF Bill
<1>3. price.totals.grand \in Nat
  BY <1>1, BillPriced
<1>. QED  BY <1>1, <1>2, <1>3 DEF BillOK, Standing

\* Posting: a draft that is there, or one that the request has just made.
LEMMA BillPosted ==
    ASSUME IInv, NEW row, BillOK(row), row.status = "draft", Known(row.doc), NEW i \in Nat,
           (i \in 1 .. Len(bills) /\ row = bills[i])
                \/ (i = Len(bills) + 1 /\ i <= MaxRows.bills),
           PostBill(row, i), UNCHANGED <<products, receipts, payments>>
    PROVE  IInv'
<1>1. PICK n \in Nat : n = Len(bills)
  BY DEF IInv, BillsInv, Table
<1>2. PICK m \in Nat : m = IF i <= n THEN n ELSE i
  OBVIOUS
<1>3. /\ Table(bills) /\ DOMAIN bills = 1 .. n /\ n <= MaxRows.bills
      /\ MaxRows.bills \in Nat
  BY <1>1, PurchasingAssumption DEF IInv, BillsInv, Table
<1>4. (m = n /\ i \in 1 .. n /\ row = bills[i])
            \/ (m = n + 1 /\ i = m /\ m <= MaxRows.bills)
  BY <1>1, <1>2
<1>5. DOMAIN bills \cup {i} = 1 .. m
  BY <1>3, <1>4
<1>6. PICK l \in Nat : l = Len(entries) + 1
  BY DEF IInv, EntriesInv, Table
<1>7. PICK r : r = [row EXCEPT !.status = "posted", !.entry = l]
  OBVIOUS
<1>8. bills' = [k \in DOMAIN bills \cup {i} |-> IF k = i THEN r ELSE bills[k]]
  BY <1>6, <1>7 DEF PostBill
<1>9. PICK B : B = bills'
  OBVIOUS
<1>10. Wrote(bills, B, i) /\ B[i] = r
  <2>1. i \in 1 .. Len(bills) \/ i = Len(bills) + 1
    BY <1>1, <1>4
  <2>2. B = [k \in DOMAIN bills \cup {i} |-> IF k = i THEN r ELSE bills[k]]
    BY <1>8, <1>9
  <2>3. Table(bills)
    BY <1>3
  <2>. QED  BY <2>1, <2>2, <2>3, WroteAt, Zenon
<1>11. bills'[i] = r /\ \A k \in 1 .. n : k # i => bills'[k] = bills[k]
  BY <1>1, <1>9, <1>10 DEF Wrote
<1>12. Wrote(bills, bills', i) /\ Len(bills') = m
  BY <1>1, <1>4, <1>9, <1>10, WroteRow
<1>13. Len(bills') <= MaxRows.bills
  BY <1>3, <1>4, <1>12
<1>14. PICK grand \in Nat : grand = row.price.totals.grand
  BY DEF BillOK
<1>15. grand > 0
  BY <1>14 DEF PostBill
<1>16. /\ r \in [supplier: {r.supplier}, number: {r.number}, receipt: {r.receipt},
                 doc: Documents, price: {r.price},
                 status: Standing \cup {"draft", "cancelled"}, paid: Nat, entry: Nat]
       /\ r.status = "posted" /\ r.entry = l /\ r.price = row.price /\ r.paid = row.paid
       /\ r.doc = row.doc
  BY <1>6, <1>7 DEF BillOK, Standing
<1>17. row.paid = 0 /\ row.status \notin Standing /\ r.status \in Standing
  BY <1>16 DEF BillOK, Standing
<1>18. BillOK(r)
  BY <1>14, <1>15, <1>16, <1>17 DEF BillOK
<1>19. PICK amounts : amounts = BillPosting(row) /\ amounts["payable"] = 0 - grand
  BY <1>14, BillOwes
<1>20. create_entry(amounts)
  BY <1>19 DEF PostBill
<1>21. /\ EntriesInv' /\ Len(entries') = l /\ entries'[l].amounts = amounts
       /\ Dues(entries') = Dues(entries) + amounts["payable"]
       /\ \A w : Entered(w, entries) => Entered(w, entries')
       /\ \A w : Booked(w, entries) => Booked(w, entries')
       /\ Dues(entries) \in Int
  <2>1. amounts["payable"] \in Int
    BY <1>19
  <2>. QED  BY <1>6, <1>20, <2>1, EntryAdded
<1>22. Entered(r, entries')
  <2>1. l \in 1 .. l
    BY <1>6 DEF IInv, EntriesInv, Table
  <2>. QED  BY <1>14, <1>16, <1>19, <1>21, <2>1 DEF Entered
<1>23. \A k \in 1 .. Len(bills) : k # i => Entered(bills[k], entries')
  BY <1>21 DEF IInv, BillsInv
<1>24. (IF i <= Len(bills) THEN bills[i].paid ELSE 0) = 0
  BY <1>1, <1>4, <1>17
<1>25. (IF i <= Len(bills) THEN Open(bills[i]) ELSE 0) = 0
  BY <1>1, <1>4, <1>17 DEF Open
<1>26. Open(r) = grand
  BY <1>14, <1>16, <1>17 DEF Open
<1>27. Dues(entries') = Dues(entries) - Open(bills'[i])
                    + (IF i <= Len(bills) THEN Open(bills[i]) ELSE 0)
  BY <1>11, <1>19, <1>21, <1>25, <1>26
<1>28. /\ BillOK(bills'[i]) /\ Entered(bills'[i], entries') /\ Known(bills'[i].doc)
       /\ bills'[i].paid = (IF i <= Len(bills) THEN bills[i].paid ELSE 0)
  BY <1>11, <1>16, <1>17, <1>18, <1>22, <1>24
<1>. QED  BY <1>12, <1>13, <1>21, <1>23, <1>27, <1>28, BillStep

\* cancel_bill().
LEMMA BillCancelled ==
    ASSUME IInv, NEW i \in DOMAIN bills, cancel_bill(i)
    PROVE  IInv'
<1>1. PICK w, r : w = bills[i] /\ r = [w EXCEPT !.status = "cancelled"]
  OBVIOUS
<1>2. i \in 1 .. Len(bills) /\ BillOK(w) /\ Entered(w, entries) /\ Known(w.doc)
  BY <1>1 DEF IInv, BillsInv, Table
<1>3. PICK grand \in Nat : grand = w.price.totals.grand
  BY <1>2 DEF BillOK
<1>4. /\ r \in [supplier: {r.supplier}, number: {r.number}, receipt: {r.receipt},
                doc: Documents, price: {r.price},
                status: Standing \cup {"draft", "cancelled"}, paid: Nat, entry: Nat]
      /\ r.status = "cancelled" /\ r.entry = w.entry /\ r.price = w.price /\ r.paid = w.paid
      /\ r.doc = w.doc
  BY <1>1, <1>2 DEF BillOK
<1>5. w.paid = 0
  BY <1>1 DEF cancel_bill, Unpaid
<1>6. r.status \notin Standing
  BY <1>4 DEF Standing
<1>7. BillOK(r)
  BY <1>2, <1>3, <1>4, <1>5, <1>6 DEF BillOK
<1>8. /\ EntriesInv' /\ Dues(entries') = Dues(entries) + Open(w)
      /\ \A v : Entered(v, entries) => Entered(v, entries')
      /\ \A v : Booked(v, entries) => Booked(v, entries')
      /\ Dues(entries) \in Int
  <2>1. CASE w.status \in Standing
    <3>1. PICK e : e = w.entry
      OBVIOUS
    <3>2. e \in 1 .. Len(entries) /\ entries[e].amounts["payable"] = 0 - grand
      BY <1>2, <1>3, <2>1, <3>1 DEF Entered
    <3>3. reverse_entry(e)
      BY <1>1, <2>1, <3>1 DEF cancel_bill, is_posted, Standing
    <3>4. /\ EntriesInv' /\ Dues(entries') = Dues(entries) - entries[e].amounts["payable"]
          /\ \A v : Entered(v, entries) => Entered(v, entries')
          /\ \A v : Booked(v, entries) => Booked(v, entries')
          /\ Dues(entries) \in Int
      BY <3>2, <3>3, EntryReversed
    <3>5. Open(w) = grand
      BY <1>3, <1>5, <2>1 DEF Open
    <3>. QED  BY <3>2, <3>4, <3>5
  <2>2. CASE w.status \notin Standing
    <3>1. entries' = entries
      BY <1>1, <2>2 DEF cancel_bill, is_posted, Standing
    <3>2. Open(w) = 0 /\ Dues(entries) \in Int
      BY <2>2, DuesInt DEF Open, IInv
    <3>. QED  BY <3>1, <3>2 DEF IInv, EntriesInv
  <2>. QED  BY <2>1, <2>2
<1>9. bills' = [bills EXCEPT ![i] = r] /\ UNCHANGED <<products, receipts, payments>>
  BY <1>1 DEF cancel_bill, catalogue
<1>10. Table(bills) /\ Len(bills) <= MaxRows.bills
  BY DEF IInv, BillsInv
<1>11. Wrote(bills, bills', i)
  BY <1>2, <1>9, <1>10, WroteExcept
<1>12. Len(bills') = Len(bills)
  BY <1>2, <1>9, <1>10, WroteExcept
<1>13. bills'[i] = r
  BY <1>9
<1>14. Entered(r, entries')
  BY <1>6 DEF Entered
<1>15. \A k \in 1 .. Len(bills) : k # i => Entered(bills[k], entries')
  BY <1>8 DEF IInv, BillsInv
<1>16. Dues(entries') = Dues(entries) - Open(bills'[i])
                    + (IF i <= Len(bills) THEN Open(bills[i]) ELSE 0)
  <2>1. i <= Len(bills)
    BY <1>2
  <2>2. Open(r) = 0
    BY <1>6 DEF Open
  <2>. QED  BY <1>1, <1>8, <1>13, <2>1, <2>2
<1>17. /\ BillOK(bills'[i]) /\ Entered(bills'[i], entries') /\ Known(bills'[i].doc)
       /\ bills'[i].paid = (IF i <= Len(bills) THEN bills[i].paid ELSE 0)
  BY <1>1, <1>2, <1>4, <1>7, <1>13, <1>14
<1>. QED  BY <1>8, <1>9, <1>10, <1>11, <1>12, <1>15, <1>16, <1>17, BillStep

\* create_bill(), posting or not.
LEMMA BillCreated ==
    ASSUME IInv, NEW s, NEW number, NEW receipt, NEW doc \in Documents, NEW whole, NEW post,
           create_bill(s, number, receipt, doc, whole, post)
    PROVE  IInv'
<1>1. PICK row : row = Bill(s, number, receipt, doc, whole)
  OBVIOUS
<1>2. BillOK(row) /\ row.status = "draft" /\ row.doc = doc /\ row.paid = 0
  BY <1>1, NewBillRow
<1>3. PICK n \in Nat : n = Len(bills)
  BY DEF IInv, BillsInv, Table
<1>4. MaxRows.bills \in Nat /\ n < MaxRows.bills
  BY <1>3, PurchasingAssumption DEF create_bill, Room
<1>5. UNCHANGED <<products, receipts, payments>>
  BY DEF create_bill, catalogue
<1>6. Known(row.doc)
  BY <1>2 DEF create_bill, Known, IInv, ProductsInv
<1>7. CASE post
  <2>1. PICK i \in Nat : i = Len(bills) + 1
    BY <1>3
  <2>2. PostBill(row, i)
    BY <1>1, <1>7, <2>1 DEF create_bill
  <2>3. i <= MaxRows.bills
    BY <1>3, <1>4, <2>1
  <2>. QED  BY <1>2, <1>5, <1>6, <2>1, <2>2, <2>3, BillPosted
<1>8. CASE ~post
  <2>1. bills' = Append(bills, row) /\ entries' = entries /\ Table(bills)
    BY <1>1, <1>8 DEF create_bill, IInv, BillsInv
  <2>2. Wrote(bills, bills', n + 1) /\ bills'[n + 1] = row /\ Len(bills') = n + 1
    BY <1>3, <2>1, WroteAppend
  <2>3. Len(bills') <= MaxRows.bills
    BY <1>4, <2>2
  <2>4. n + 1 <= Len(bills) => bills[n + 1].status = "draft"
    BY <1>3
  <2>. QED  BY <1>2, <1>5, <1>6, <2>1, <2>2, <2>3, <2>4, DraftWritten
<1>. QED  BY <1>7, <1>8

\* post_bill().
LEMMA BillPosts ==
    ASSUME IInv, NEW i \in DOMAIN bills, post_bill(i)
    PROVE  IInv'
<1>1. PICK row : row = bills[i]
  OBVIOUS
<1>2. i \in 1 .. Len(bills) /\ BillOK(row) /\ Known(row.doc) /\ i \in Nat
  BY <1>1 DEF IInv, BillsInv, Table
<1>3. row.status = "draft"
  BY <1>1 DEF post_bill
<1>4. PostBill(row, i) /\ UNCHANGED <<products, receipts, payments>>
  BY <1>1 DEF post_bill, catalogue
<1>. QED  BY <1>1, <1>2, <1>3, <1>4, BillPosted

----------------------------------------------------------------------------
(* Requests about payments.                                                *)

\* What a client may ask to be allocated.
LEMMA PlansAreOK ==
    ASSUME IInv, NEW plan \in {NoPlan} \cup Plans
    PROVE  PlanOK(plan, Len(bills))
<1>1. DOMAIN bills = 1 .. Len(bills)
  BY DEF IInv, BillsInv, Table
<1>2. CASE plan = NoPlan
  BY <1>2 DEF NoPlan, PlanOK
<1>3. CASE plan \in Plans
  <2>1. PICK s \in SUBSET DOMAIN bills : plan \in [s -> Amounts]
    BY <1>3 DEF Plans
  <2>2. DOMAIN plan = s /\ \A i \in s : plan[i] \in Amounts
    BY <2>1
  <2>. QED  BY <1>1, <2>1, <2>2, PurchasingAssumption DEF PlanOK
<1>. QED  BY <1>2, <1>3

\* pay().
LEMMA PaymentRecorded ==
    ASSUME IInv, NEW s, NEW source \in SourceAccounts, NEW amount \in Amounts,
           NEW plan \in {NoPlan} \cup Plans, pay(s, source, amount, plan)
    PROVE  IInv'
<1>1. PICK row, p : row = SupplierPayment(s, amount) /\ p = Len(payments) + 1
  OBVIOUS
<1>2. PICK m \in Nat : m = MaxRows.bills
  BY PurchasingAssumption
<1>3. PICK z : z = [i \in 1 .. m |-> 0]
  OBVIOUS
<1>4. z \in [1 .. m -> Nat] /\ \A i \in 1 .. m : z[i] = 0
  BY <1>3
<1>5. SumFunctionOnSet(z, 1 .. m) = 0
  BY <1>4, Upto, SumZero
<1>6. amount \in Nat
  BY PurchasingAssumption
<1>7. row = [supplier |-> s, amount |-> amount, unallocated |-> amount, allocations |-> z]
  BY <1>1, <1>2, <1>3 DEF SupplierPayment
<1>8. PaymentOK(row) /\ row.unallocated = amount /\ row.allocations = z
  <2>1. PICK F : F = [1 .. m -> Nat]
    OBVIOUS
  <2>2. row \in [supplier: {row.supplier}, amount: Nat, unallocated: Nat, allocations: F]
    BY <1>4, <1>6, <1>7, <2>1
  <2>3. row.amount = row.unallocated + SumFunctionOnSet(row.allocations, 1 .. m)
    BY <1>5, <1>6, <1>7
  <2>. QED  BY <1>2, <1>7, <2>1, <2>2, <2>3 DEF PaymentOK
<1>9. PICK n \in Nat : n = Len(payments)
  BY DEF IInv, PaymentsInv, Table
<1>10. payments' = Append(payments, Spent(row, plan)) /\ Table(payments)
  BY <1>1 DEF pay, IInv, PaymentsInv
<1>11. Wrote(payments, payments', p) /\ payments'[p] = Spent(row, plan)
  BY <1>1, <1>10, WroteAppend
<1>12. ~(p <= Len(payments))
  BY <1>1, <1>9
<1>13. IF p <= Len(payments) THEN row = payments[p]
       ELSE \A i \in 1 .. MaxRows.bills : row.allocations[i] = 0
  BY <1>2, <1>4, <1>8, <1>12
<1>14. PICK amounts : amounts = Pair("payable", source, amount) /\ amounts["payable"] = amount
  <2>1. source # "payable" /\ "payable" \in Accounts
    BY DEF IInv, ControlAccountKept, Accounts
  <2>2. Pair("payable", source, amount)["payable"] = amount - 0
    BY <2>1 DEF Pair
  <2>. QED  BY <1>6, <2>2
<1>15. create_entry(amounts)
  BY <1>14 DEF pay
<1>16. /\ EntriesInv' /\ Dues(entries') = Dues(entries) + amounts["payable"]
       /\ \A r : Entered(r, entries) => Entered(r, entries')
       /\ \A r : Booked(r, entries) => Booked(r, entries')
       /\ Dues(entries) \in Int
  <2>1. amounts["payable"] \in Int
    BY <1>6, <1>14
  <2>. QED  BY <1>15, <2>1, EntryAdded
<1>17. \A i \in 1 .. Len(bills) : Entered(bills[i], entries')
  BY <1>16 DEF IInv, BillsInv
<1>18. Dues(entries') = Dues(entries) + (IF p <= Len(payments) THEN 0 ELSE row.unallocated)
  BY <1>6, <1>8, <1>12, <1>14, <1>16
<1>19. CanApply(row, plan) /\ Settle(plan) /\ UNCHANGED <<products, receipts>>
  BY <1>1 DEF pay, catalogue
<1>20. PlanOK(plan, Len(bills))
  BY PlansAreOK
<1>. QED  BY <1>8, <1>11, <1>13, <1>16, <1>17, <1>18, <1>19, <1>20, ApplyStep

\* allocate().
LEMMA PaymentApplied ==
    ASSUME IInv, NEW p \in DOMAIN payments, NEW plan \in Plans, allocate(p, plan)
    PROVE  IInv'
<1>1. PICK row : row = payments[p]
  OBVIOUS
<1>2. Table(payments) /\ p \in 1 .. Len(payments) /\ PaymentOK(row)
  BY <1>1 DEF IInv, PaymentsInv, Table
<1>3. payments' = [payments EXCEPT ![p] = Spent(row, plan)]
  BY <1>1 DEF allocate
<1>4. Wrote(payments, payments', p)
  BY <1>2, <1>3, WroteExcept
<1>5. payments'[p] = Spent(row, plan)
  BY <1>3
<1>6. p <= Len(payments)
  BY <1>2
<1>7. IF p <= Len(payments) THEN row = payments[p]
      ELSE \A i \in 1 .. MaxRows.bills : row.allocations[i] = 0
  BY <1>1, <1>6
<1>8. /\ CanApply(row, plan) /\ Settle(plan) /\ entries' = entries
      /\ UNCHANGED <<products, receipts>>
  BY <1>1 DEF allocate, catalogue
<1>9. EntriesInv' /\ \A r : Booked(r, entries) => Booked(r, entries')
  BY <1>8 DEF IInv, EntriesInv
<1>10. \A i \in 1 .. Len(bills) : Entered(bills[i], entries')
  BY <1>8 DEF IInv, BillsInv
<1>11. Dues(entries') = Dues(entries) + (IF p <= Len(payments) THEN 0 ELSE row.unallocated)
  <2>1. Dues(entries) \in Int
    BY DuesInt DEF IInv
  <2>. QED  BY <1>6, <1>8, <2>1
<1>12. PlanOK(plan, Len(bills))
  BY PlansAreOK
<1>. QED  BY <1>2, <1>4, <1>5, <1>7, <1>8, <1>9, <1>10, <1>11, <1>12, ApplyStep

----------------------------------------------------------------------------
(* The theorem.                                                            *)

\* An organisation without documents.
LEMMA InitInv == ASSUME ControlAccountKept, Init PROVE IInv
<1>1. bills = <<>> /\ payments = <<>> /\ entries = <<>> /\ receipts = <<>>
  BY DEF Init
<1>2. /\ Table(bills) /\ Len(bills) = 0 /\ Table(payments) /\ Len(payments) = 0
      /\ Table(entries) /\ Len(entries) = 0 /\ Table(receipts) /\ Len(receipts) = 0
  BY <1>1 DEF Table
<1>3. 1 .. 0 = {}
  OBVIOUS
<1>4. EntriesInv /\ ReceiptsInv /\ PaymentsInv
  BY <1>2 DEF EntriesInv, ReceiptsInv, PaymentsInv
<1>5. ProductsInv
  BY PurchasingAssumption DEF Init, ProductsInv
<1>6. BillsInv
  <2>1. 0 <= MaxRows.bills
    BY PurchasingAssumption
  <2>. QED  BY <1>2, <2>1 DEF BillsInv
<1>7. Paid
  BY <1>2 DEF Paid
<1>8. Agrees
  <2>1. \A g : SumFunctionOnSet(g, 1 .. 0) = 0
    BY <1>3, SumEmpty
  <2>2. Dues(entries) = 0 /\ Opens(bills) = 0 /\ Unspents(payments) = 0
    BY <1>2, <2>1 DEF Dues, Opens, Unspents
  <2>. QED  BY <2>2 DEF Agrees
<1>. QED  BY <1>4, <1>5, <1>6, <1>7, <1>8 DEF IInv

\* Every request keeps the invariant.
LEMMA NextInv == IInv /\ [Next]_vars => IInv'
<1> SUFFICES ASSUME IInv, [Next]_vars PROVE IInv'
  OBVIOUS
<1>1. CASE UNCHANGED vars
  BY <1>1, QuietStep DEF vars, catalogue, buying
<1>2. CASE create_supplier \/ create_warehouse
  BY <1>2, QuietStep DEF create_supplier, create_warehouse, catalogue, buying
<1>3. CASE create_product
  BY <1>3, ProductSteps
<1>4. ASSUME NEW p \in DOMAIN products, update_product(p) PROVE IInv'
  BY <1>4, ProductSteps
<1>5. ASSUME NEW p \in DOMAIN products, NEW w, NEW delta, NEW cost, adjust(p, w, delta, cost)
      PROVE  IInv'
  BY <1>5, StockAdjusted
<1>6. ASSUME NEW p, NEW from, NEW into, NEW quantity, transfer(p, from, into, quantity)
      PROVE  IInv'
  BY <1>6, QuietStep DEF transfer, catalogue, buying
<1>7. ASSUME NEW s, update_supplier(s) PROVE IInv'
  BY <1>7, QuietStep DEF update_supplier, buying
<1>8. ASSUME NEW s, NEW doc, create_order(s, doc) PROVE IInv'
  BY <1>8, QuietStep DEF create_order, catalogue
<1>9. ASSUME NEW s, NEW number, NEW receipt, NEW doc \in Documents, NEW whole, NEW post,
             create_bill(s, number, receipt, doc, whole, post)
      PROVE  IInv'
  BY <1>9, BillCreated
<1>10. ASSUME NEW s, NEW w, NEW order, NEW link, NEW lines, NEW post,
              create_receipt(s, w, order, link, lines, post)
       PROVE  IInv'
  BY <1>10, ReceiptCreated
<1>11. ASSUME NEW s, NEW source \in SourceAccounts, NEW amount \in Amounts,
              NEW plan \in {NoPlan} \cup Plans, pay(s, source, amount, plan)
       PROVE  IInv'
  BY <1>11, PaymentRecorded
<1>12. ASSUME NEW o, approve_order(o) \/ cancel_order(o) PROVE IInv'
  BY <1>12, QuietStep DEF approve_order, cancel_order, catalogue
<1>13. ASSUME NEW i \in DOMAIN receipts, post_receipt(i) \/ cancel_receipt(i) PROVE IInv'
  BY <1>13, ReceiptPosts, ReceiptCancelled
<1>14. ASSUME NEW b \in DOMAIN bills, post_bill(b) \/ cancel_bill(b) PROVE IInv'
  BY <1>14, BillPosts, BillCancelled
<1>15. ASSUME NEW p \in DOMAIN payments, NEW plan \in Plans, allocate(p, plan) PROVE IInv'
  BY <1>15, PaymentApplied
<1>. QED
  BY <1>1, <1>2, <1>3, <1>4, <1>5, <1>6, <1>7, <1>8, <1>9, <1>10, <1>11, <1>12, <1>13, <1>14,
     <1>15 DEF Next

\* The invariant of purchasing: rows are well formed, a bill that stands has its
\* entry, no receipt's entry is on the payable account, and every stored figure is
\* the sum it stands for.
THEOREM Invariance == ASSUME ControlAccountKept PROVE Spec => []IInv
BY InitInv, NextInv, PTL DEF Spec

\* The sum of a column over the bills that stand is the sum over all of them of
\* what they contribute.
LEMMA LiveSum ==
    ASSUME IInv, NEW T \in SUBSET (1 .. Len(bills)), NEW f, NEW g,
           \A i \in 1 .. Len(bills) : g[i] \in Int /\ (i \notin T => g[i] = 0),
           \A i \in T : f[i] = g[i]
    PROVE  SumFunctionOnSet(f, T) = SumFunctionOnSet(g, 1 .. Len(bills))
<1>1. PICK n \in Nat : n = Len(bills)
  BY DEF IInv, BillsInv, Table
<1>. QED  BY <1>1, CountedRows

\* The payable account agrees with the documents behind it, when no line, product or
\* payment is itself booked to that account: its balance is what payments have not
\* allocated less what posted bills have outstanding, through receipts, stock-takes
\* and cancellations in any order, and the stored paid and unallocated amounts are
\* the sums of the allocation rows.
THEOREM PayablesAlwaysAgree == ASSUME ControlAccountKept PROVE Spec => []PayablesAgree
<1>1. IInv => PayablesAgree
  <2> SUFFICES ASSUME IInv PROVE PayablesAgree
    OBVIOUS
  <2>1. /\ DOMAIN bills = 1 .. Len(bills) /\ DOMAIN payments = 1 .. Len(payments)
        /\ DOMAIN entries = 1 .. Len(entries)
    BY DEF IInv, EntriesInv, PaymentsInv, BillsInv, Table
  <2>2. Balance("payable") = Dues(entries)
    BY <2>1 DEF Balance, SumOf, Dues, Due
  <2>3. SumOf(LAMBDA p : payments[p].unallocated, DOMAIN payments) = Unspents(payments)
    BY <2>1 DEF SumOf, Unspents
  <2>4. SumOf(outstanding, Live) = Opens(bills)
    <3>1. PICK T, f, g : /\ T = Live /\ f = [i \in T |-> outstanding(i)]
                         /\ g = [i \in 1 .. Len(bills) |-> Open(bills[i])]
      OBVIOUS
    <3>2. T \in SUBSET (1 .. Len(bills))
      BY <2>1, <3>1 DEF Live
    <3>3. \A i \in 1 .. Len(bills) : g[i] \in Int
      BY <3>1 DEF IInv, BillsInv, BillOK, Open
    <3>4. \A i \in 1 .. Len(bills) : i \in T <=> bills[i].status \in Standing
      BY <2>1, <3>1 DEF Live, is_posted, Standing
    <3>5. \A i \in 1 .. Len(bills) : g[i] \in Int /\ (i \notin T => g[i] = 0)
      BY <3>1, <3>3, <3>4 DEF Open
    <3>6. \A i \in T : f[i] = g[i]
      BY <3>1, <3>2, <3>4 DEF Open, outstanding, grand_total
    <3>7. SumFunctionOnSet(f, T) = SumFunctionOnSet(g, 1 .. Len(bills))
      BY <3>2, <3>5, <3>6, LiveSum
    <3>. QED  BY <3>1, <3>7 DEF SumOf, Opens
  <2>5. Balance("payable") =
          SumOf(LAMBDA p : payments[p].unallocated, DOMAIN payments) - SumOf(outstanding, Live)
    BY <2>2, <2>3, <2>4 DEF IInv, Agrees
  <2>6. ASSUME NEW p \in DOMAIN payments
        PROVE  payments[p].amount = payments[p].unallocated
                    + SumOf(LAMBDA i : payments[p].allocations[i], DOMAIN payments[p].allocations)
    <3>1. PICK row, a, S : row = payments[p] /\ a = row.allocations /\ S = 1 .. MaxRows.bills
      OBVIOUS
    <3>2. /\ a \in [S -> Nat] /\ row.amount = row.unallocated + SumFunctionOnSet(a, S)
          /\ row.unallocated \in Nat
      BY <2>1, <3>1 DEF IInv, PaymentsInv, PaymentOK
    <3>3. DOMAIN a = S /\ [i \in S |-> a[i]] = a
      BY <3>2
    <3>4. SumOf(LAMBDA i : payments[p].allocations[i], DOMAIN payments[p].allocations) =
            SumFunctionOnSet(a, S)
      BY <3>1, <3>3 DEF SumOf
    <3>. QED  BY <3>1, <3>2, <3>4
  <2>7. ASSUME NEW i \in DOMAIN bills
        PROVE  /\ bills[i].paid = SumOf(LAMBDA p : payments[p].allocations[i], DOMAIN payments)
               /\ outstanding(i) >= 0
               /\ bills[i].paid > 0 => is_posted(i)
    <3>1. bills[i].paid = Settled(payments, i) /\ BillOK(bills[i])
      BY <2>1 DEF IInv, Paid, BillsInv
    <3>2. Settled(payments, i) = SumOf(LAMBDA p : payments[p].allocations[i], DOMAIN payments)
      BY <2>1 DEF SumOf, Settled
    <3>3. outstanding(i) >= 0
      BY <3>1 DEF BillOK, outstanding, grand_total
    <3>4. bills[i].paid > 0 => is_posted(i)
      BY <3>1 DEF BillOK, is_posted, Standing
    <3>. QED  BY <3>1, <3>2, <3>3, <3>4
  <2>. QED  BY <2>5, <2>6, <2>7 DEF PayablesAgree
<1>. QED  BY <1>1, Invariance, PTL

----------------------------------------------------------------------------
(* Stock.                                                                  *)

\* A position, and the card behind it: the movements of a product in a warehouse.
LevelOK(s) == s \in [quantity: Nat, value: Nat] /\ (s.quantity = 0 => s.value = 0)
On(m, p, w) == m.product = p /\ m.warehouse = w
Change(m, p, w) == IF On(m, p, w) THEN m.quantity ELSE 0
Changes(T, p, w) == SumFunctionOnSet([m \in 1 .. Len(T) |-> Change(T[m], p, w)], 1 .. Len(T))
Latest(T, p, w, m) == On(T[m], p, w) /\ \A n \in 1 .. Len(T) : On(T[n], p, w) => n <= m
CardOK(T, s, p, w) ==
    /\ s.quantity = Changes(T, p, w)
    /\ \A m \in 1 .. Len(T) : Latest(T, p, w, m) => T[m].balance = s.quantity

ProductRows == 1 .. MaxRows.products
WarehouseRows == 1 .. MaxRows.warehouses
LevelsOK(levels) == levels \in [ProductRows -> [WarehouseRows -> [quantity: Nat, value: Nat]]]
MovementsOK(T) == Table(T) /\ \A m \in 1 .. Len(T) : T[m].quantity \in Int
StockOK(st) ==
    /\ LevelsOK(st.levels) /\ MovementsOK(st.movements)
    /\ \A p \in ProductRows, w \in WarehouseRows :
        LevelOK(st.levels[p][w]) /\ CardOK(st.movements, st.levels[p][w], p, w)

\* A rounded share of a value is no more than the value.
LEMMA ShareBounded ==
    ASSUME NEW v \in Nat, NEW q \in Nat, NEW n \in Nat, n > 0, q <= n
    PROVE  HalfUp(v * q, n) \in 0 .. v
<1>1. PICK x : x = v * q
  OBVIOUS
<1>2. PICK y : y = v * n
  OBVIOUS
<1>3. x \in Nat /\ y \in Nat /\ x <= y
  BY <1>1, <1>2
<1>4. PICK d : d = (2 * x + n) \div (2 * n)
  OBVIOUS
<1>5. d \in Nat /\ (2 * n) * d <= 2 * x + n
  BY <1>3, <1>4
<1>6. d <= v
  <2> SUFFICES ASSUME d >= v + 1 PROVE FALSE
    BY <1>5
  <2>1. n * d >= n * (v + 1)
    BY <1>5
  <2>2. n * (v + 1) = y + n
    BY <1>2
  <2>3. PICK e : e = n * d
    OBVIOUS
  <2>4. e \in Nat /\ 2 * e <= 2 * x + n
    BY <1>5, <2>3
  <2>. QED  BY <1>3, <2>1, <2>2, <2>3, <2>4
<1>7. HalfUp(v * q, n) = d
  BY <1>1, <1>4 DEF HalfUp
<1>. QED  BY <1>5, <1>6, <1>7

\* Rounding what is not negative.
LEMMA RoundNat ==
    ASSUME NEW x \in Nat, NEW n \in Nat, n > 0
    PROVE  HalfUp(x, n) \in Nat
BY DEF HalfUp

\* What a movement does to a position: apply_receipt(), apply_issue() and
\* reverse_receipt() never leave less than nothing, or a value on no units.
LEMMA PositionMoved ==
    ASSUME ProductsInv, NEW p \in DOMAIN products, NEW s, LevelOK(s), NEW kind,
           NEW q \in Nat \ {0}, NEW cost \in Nat \cup {None},
           increases_stock(kind) \/ q <= s.quantity, kind = "reversal" => cost \in Nat
    PROVE  LET m == Movement(s, p, kind, q, cost)
           IN  /\ LevelOK(m.to) /\ m.signed \in Int /\ m.to.quantity = s.quantity + m.signed
               /\ m.cost \in Nat /\ m.total \in Nat
               /\ kind # "reversal" =>
                    m.to.value = IF increases_stock(kind) THEN s.value + m.total
                                                          ELSE s.value - m.total
<1>1. PICK n \in Nat, v \in Nat : n = s.quantity /\ v = s.value /\ (n = 0 => v = 0)
  BY DEF LevelOK
<1>2. average_cost(s) \in Nat
  <2>1. CASE n = 0
    BY <1>1, <2>1 DEF average_cost
  <2>2. CASE n # 0
    <3>1. HalfUp(100 * v, n) \in Nat
      BY <2>2, RoundNat
    <3>. QED  BY <1>1, <2>2, <3>1 DEF average_cost
  <2>. QED  BY <2>1, <2>2
<1>3. PICK m : m = Movement(s, p, kind, q, cost)
  OBVIOUS
<1>4. CASE increases_stock(kind)
  <2>1. products[p].purchase_price \in Nat
    <3>1. products[p] \in ProductCreate
      BY DEF ProductsInv
    <3>. QED  BY <3>1 DEF ProductCreate
  <2>2. PICK u : u = UnitCost(s, p, cost)
    OBVIOUS
  <2>3. u \in Nat
    BY <1>2, <2>1, <2>2 DEF UnitCost
  <2>4. q * u \in Nat
    BY <2>3
  <2>5. PICK a \in Nat : a = round_value(q * u)
    BY <2>4, RoundNat DEF round_value
  <2>6. m.to = [quantity |-> n + q, value |-> v + a] /\ m.signed = q /\ m.cost = u
      /\ m.total = a
    BY <1>1, <1>3, <1>4, <2>2, <2>5 DEF Movement, apply_receipt, ValuationState
  <2>7. n + q \in Nat /\ v + a \in Nat /\ n + q # 0
    BY <2>5
  <2>8. LevelOK(m.to) /\ m.signed \in Int /\ m.to.quantity = s.quantity + m.signed /\ m.cost \in Nat
    BY <1>1, <2>3, <2>6, <2>7 DEF LevelOK
  <2>9. m.total \in Nat /\ m.to.value = s.value + m.total
    BY <1>1, <2>5, <2>6
  <2>. QED  BY <1>3, <1>4, <2>8, <2>9
<1>5. CASE ~increases_stock(kind)
  <2>1. PICK l \in Nat : l = n - q /\ l < n /\ l <= n /\ q <= n /\ n > 0
    BY <1>1, <1>5
  <2>2. CASE kind = "reversal"
    <3>1. PICK c \in Nat : c = cost
      BY <2>2
    <3>2. q * c \in Nat
      OBVIOUS
    <3>3. PICK a \in Nat : a = round_value(q * c)
      BY <3>2, RoundNat DEF round_value
    <3>4. PICK z : z = IF l = 0 THEN 0 ELSE IF v - a <= 0 THEN HalfUp(v * l, n) ELSE v - a
      OBVIOUS
    <3>5. HalfUp(v * l, n) \in 0 .. v
      BY <2>1, ShareBounded, Zenon
    <3>6. z \in Nat /\ (l = 0 => z = 0)
      BY <3>4, <3>5
    <3>7. m.to = [quantity |-> l, value |-> z] /\ m.signed = -q /\ m.cost = c
          /\ m.total = a
      BY <1>1, <1>3, <1>5, <2>1, <2>2, <3>1, <3>3, <3>4
         DEF Movement, reverse_receipt, ValuationState
    <3>8. LevelOK(m.to) /\ m.signed \in Int /\ m.to.quantity = s.quantity + m.signed /\ m.cost \in Nat
      BY <1>1, <2>1, <3>6, <3>7 DEF LevelOK
    <3>. QED  BY <1>3, <2>2, <3>3, <3>7, <3>8
  <2>3. CASE kind # "reversal"
    <3>1. HalfUp(v * q, n) \in 0 .. v
      BY <2>1, ShareBounded, Zenon
    <3>2. PICK z : z = IF q = n THEN v ELSE HalfUp(v * q, n)
      OBVIOUS
    <3>3. PICK a : a = v - z
      OBVIOUS
    <3>4. a \in Nat /\ (l = 0 => a = 0)
      BY <2>1, <3>1, <3>2, <3>3
    <3>5. m.to = [quantity |-> l, value |-> a] /\ m.signed = -q /\ m.cost = average_cost(s)
          /\ m.total = z
      BY <1>1, <1>3, <1>5, <2>1, <2>3, <3>2, <3>3
         DEF Movement, apply_issue, cost_of_goods_sold, ValuationState
    <3>6. LevelOK(m.to) /\ m.signed \in Int /\ m.to.quantity = s.quantity + m.signed /\ m.cost \in Nat
      BY <1>1, <1>2, <2>1, <3>4, <3>5 DEF LevelOK
    <3>7. z \in Nat /\ m.to.value = s.value - m.total
      BY <1>1, <3>1, <3>2, <3>3, <3>5
    <3>. QED  BY <1>3, <1>5, <3>5, <3>6, <3>7
  <2>. QED  BY <2>2, <2>3
<1>. QED  BY <1>4, <1>5

\* A movement written on the cards: only its own card changes.
LEMMA ChangesWrote ==
    ASSUME NEW T, MovementsOK(T), NEW U, NEW i, Wrote(T, U, i), ~(i <= Len(T)),
           U[i].quantity \in Int, NEW p, NEW w
    PROVE  Changes(U, p, w) = Changes(T, p, w) + Change(U[i], p, w) /\ Changes(T, p, w) \in Int
<1>2. i \in 1 .. Len(U) /\ \A k \in 1 .. Len(T) : k \in 1 .. Len(U) /\ (k # i => U[k] = T[k])
  BY WroteRow DEF Wrote
<1>3. PICK g, h : /\ g = [k \in 1 .. Len(T) |-> Change(T[k], p, w)]
                  /\ h = [k \in 1 .. Len(U) |-> Change(U[k], p, w)]
  OBVIOUS
<1>4. IntOn(g, 1 .. Len(T))
  BY <1>3 DEF IntOn, Change, MovementsOK
<1>5. h[i] = Change(U[i], p, w) /\ h[i] \in Int
  BY <1>2, <1>3 DEF Change
<1>6. \A k \in 1 .. Len(T) : k # i => h[k] = g[k]
  BY <1>2, <1>3
<1>7. /\ SumFunctionOnSet(h, 1 .. Len(U)) =
            SumFunctionOnSet(g, 1 .. Len(T)) - (IF i <= Len(T) THEN g[i] ELSE 0) + h[i]
      /\ SumFunctionOnSet(g, 1 .. Len(T)) \in Int
  BY <1>4, <1>5, <1>6, SumWrote
<1>8. /\ Changes(T, p, w) = SumFunctionOnSet(g, 1 .. Len(T))
      /\ Changes(U, p, w) = SumFunctionOnSet(h, 1 .. Len(U))
  BY <1>3 DEF Changes
<1>. QED  BY <1>5, <1>7, <1>8

\* The card that the movement is written on, and another one.
LEMMA CardWritten ==
    ASSUME NEW T, MovementsOK(T), NEW U, NEW i, Wrote(T, U, i), i = Len(T) + 1,
           U[i].quantity \in Int, NEW p, NEW w, NEW s, NEW t, s.quantity \in Int,
           CardOK(T, s, p, w),
           IF On(U[i], p, w)
           THEN t.quantity = s.quantity + U[i].quantity /\ U[i].balance = t.quantity
           ELSE t = s
    PROVE  CardOK(U, t, p, w)
<1>1. PICK n \in Nat : n = Len(T)
  BY DEF MovementsOK, Table
<1>2. Len(U) = i /\ i = n + 1 /\ i \in Nat /\ \A k \in 1 .. n : U[k] = T[k]
  BY <1>1, WroteRow DEF Wrote
<1>3. ~(i <= Len(T))
  BY <1>1
<1>4. Changes(U, p, w) = Changes(T, p, w) + Change(U[i], p, w)
  BY <1>3, ChangesWrote
<1>5. t.quantity = Changes(U, p, w)
  <2>0. Changes(T, p, w) = s.quantity
    BY DEF CardOK
  <2>1. CASE On(U[i], p, w)
    BY <1>4, <2>0, <2>1 DEF Change
  <2>2. CASE ~On(U[i], p, w)
    BY <1>4, <2>0, <2>2 DEF Change
  <2>. QED  BY <2>1, <2>2
<1>6. ASSUME NEW k \in 1 .. i, Latest(U, p, w, k) PROVE U[k].balance = t.quantity
  <2>1. CASE On(U[i], p, w)
    <3>1. i \in 1 .. Len(U)
      BY <1>2
    <3>2. i <= k
      BY <1>6, <2>1, <3>1 DEF Latest
    <3>3. k = i
      BY <1>2, <3>2
    <3>. QED  BY <2>1, <3>3
  <2>2. CASE ~On(U[i], p, w)
    <3>1. On(U[k], p, w) /\ k # i
      BY <1>6, <2>2 DEF Latest
    <3>2. k \in 1 .. n
      BY <1>2, <3>1
    <3>3. \A j \in 1 .. n : j \in 1 .. Len(U) /\ U[j] = T[j]
      BY <1>2
    <3>4. Latest(T, p, w, k)
      BY <1>1, <1>6, <3>1, <3>2, <3>3 DEF Latest
    <3>. QED  BY <1>1, <2>2, <3>2, <3>3, <3>4 DEF CardOK
  <2>. QED  BY <2>1, <2>2
<1>. QED  BY <1>2, <1>5, <1>6 DEF CardOK

\* record(): the position and the card move together.
LEMMA StockRecorded ==
    ASSUME ProductsInv, NEW p \in DOMAIN products, p \in ProductRows, NEW w \in WarehouseRows,
           NEW st, StockOK(st), NEW kind, NEW q \in Nat \ {0}, NEW cost \in Nat \cup {None},
           kind = "reversal" => cost \in Nat, NEW to, to = record(st, p, w, kind, q, cost),
           to # Refused
    PROVE  StockOK(to) /\ LastMovement(to).cost \in Nat
<1>1. PICK s, m : s = st.levels[p][w] /\ m = Movement(s, p, kind, q, cost)
  OBVIOUS
<1>2. increases_stock(kind) \/ ~(q > s.quantity)
  BY <1>1 DEF record
<1>3. PICK e : e = StockMovement(p, w, m.signed, m.cost, m.total, m.to.quantity)
  OBVIOUS
<1>4. to = [levels |-> [st.levels EXCEPT ![p][w] = m.to], movements |-> Append(st.movements, e)]
  BY <1>1, <1>3 DEF record
<1>5. LevelOK(s)
  BY <1>1 DEF StockOK
<1>6. increases_stock(kind) \/ q <= s.quantity
  BY <1>2, <1>5 DEF LevelOK
<1>7. LevelOK(m.to) /\ m.signed \in Int /\ m.to.quantity = s.quantity + m.signed /\ m.cost \in Nat
  <2>1. LevelOK(m.to)
    BY <1>1, <1>5, <1>6, PositionMoved
  <2>2. m.signed \in Int /\ m.cost \in Nat
    BY <1>1, <1>5, <1>6, PositionMoved
  <2>3. m.to.quantity = s.quantity + m.signed
    BY <1>1, <1>5, <1>6, PositionMoved
  <2>. QED  BY <2>1, <2>2, <2>3
<1>8. PICK T, U, L, M : /\ T = st.movements /\ U = Append(T, e)
                        /\ L = st.levels /\ M = [L EXCEPT ![p][w] = m.to]
  OBVIOUS
<1>9. to.levels = M /\ to.movements = U
  BY <1>4, <1>8
<1>10. MovementsOK(T) /\ LevelsOK(L)
  BY <1>8 DEF StockOK
<1>11. e.quantity = m.signed /\ e.balance = m.to.quantity /\ e.product = p /\ e.warehouse = w
       /\ e.cost = m.cost
  BY <1>3 DEF StockMovement
<1>12. PICK n \in Nat : n = Len(T)
  BY <1>10 DEF MovementsOK, Table
<1>a. PICK i \in Nat : i = n + 1
  OBVIOUS
<1>13. Wrote(T, U, i) /\ U[i] = e /\ Len(U) = i
  <2>1. Table(T) /\ U = Append(T, e)
    BY <1>8, <1>10 DEF MovementsOK
  <2>2. Wrote(T, U, Len(T) + 1) /\ U[Len(T) + 1] = e /\ Len(U) = Len(T) + 1
    BY <2>1, WroteAppend, Zenon
  <2>. QED  BY <1>12, <1>a, <2>2, Zenon
<1>14. MovementsOK(U)
  <2>1. \A k \in 1 .. n : U[k] = T[k] /\ T[k].quantity \in Int
    BY <1>10, <1>12, <1>a, <1>13 DEF Wrote, MovementsOK
  <2>2. \A k \in 1 .. i : U[k].quantity \in Int
    BY <1>7, <1>11, <1>a, <1>13, <2>1
  <2>. QED  BY <1>13, <2>2 DEF MovementsOK, Wrote
<1>15. PICK V : V = [quantity: Nat, value: Nat]
  OBVIOUS
<1>16. m.to \in V /\ L \in [ProductRows -> [WarehouseRows -> V]]
  BY <1>7, <1>10, <1>15 DEF LevelOK, LevelsOK
<1>17. /\ M \in [ProductRows -> [WarehouseRows -> V]] /\ M[p][w] = m.to
       /\ \A a \in ProductRows, b \in WarehouseRows : <<a, b>> # <<p, w>> => M[a][b] = L[a][b]
  BY <1>8, <1>16
<1>18. LevelsOK(M)
  BY <1>15, <1>17 DEF LevelsOK
<1>19. ASSUME NEW a \in ProductRows, NEW b \in WarehouseRows
       PROVE  LevelOK(M[a][b]) /\ CardOK(U, M[a][b], a, b)
  <2>1. PICK x, y : x = L[a][b] /\ y = M[a][b]
    OBVIOUS
  <2>2. LevelOK(x) /\ CardOK(T, x, a, b) /\ x.quantity \in Int
    BY <1>8, <2>1 DEF StockOK, LevelOK
  <2>3. LevelOK(y)
    <3>1. CASE a = p /\ b = w
      BY <1>7, <1>17, <2>1, <3>1
    <3>2. CASE ~(a = p /\ b = w)
      BY <1>17, <2>1, <2>2, <3>2
    <3>. QED  BY <3>1, <3>2
  <2>4. IF On(e, a, b) THEN y.quantity = x.quantity + e.quantity /\ e.balance = y.quantity
                       ELSE y = x
    <3>1. CASE a = p /\ b = w
      BY <1>1, <1>7, <1>8, <1>11, <1>17, <2>1, <3>1 DEF On
    <3>2. CASE ~(a = p /\ b = w)
      BY <1>11, <1>17, <2>1, <3>2 DEF On
    <3>. QED  BY <3>1, <3>2
  <2>5. U[i].quantity \in Int /\ i = Len(T) + 1 /\ Wrote(T, U, i)
    BY <1>7, <1>11, <1>12, <1>a, <1>13
  <2>6. IF On(U[i], a, b) THEN y.quantity = x.quantity + U[i].quantity /\ U[i].balance = y.quantity
                          ELSE y = x
    BY <1>13, <2>4
  <2>7. CardOK(U, y, a, b)
    BY <1>10, <2>2, <2>5, <2>6, CardWritten
  <2>. QED  BY <2>1, <2>3, <2>7
<1>20. StockOK(to)
  BY <1>9, <1>14, <1>18, <1>19 DEF StockOK
<1>21. LastMovement(to).cost = m.cost
  BY <1>9, <1>11, <1>13 DEF LastMovement
<1>. QED  BY <1>7, <1>20, <1>21

\* g is the stock after each of the first n lines of a receipt.
Steps(g, r, kind, n) ==
    g = [k \in 0 .. n |-> IF k = 0 THEN stock ELSE MovedBy(g[k - 1], r, kind, r.lines[k])]

\* The lines can be gone through one by one, however many there are.
LEMMA StepsExist ==
    ASSUME NEW r, NEW kind, NEW n \in Nat
    PROVE  \E g : Steps(g, r, kind, n)
<1> DEFINE C == {k \in Nat : ~\E g : Steps(g, r, kind, k)}
<1>1. C = {}
  <2> SUFFICES ASSUME C # {} PROVE FALSE
    OBVIOUS
  <2>1. PICK k \in C : \A j \in C : ~(j < k)
    BY SmallestNumber
  <2>2. k \in Nat /\ ~\E g : Steps(g, r, kind, k)
    OBVIOUS
  <2>3. CASE k = 0
    <3>1. PICK g : g = [j \in 0 .. 0 |-> stock]
      OBVIOUS
    <3>2. g = [j \in 0 .. 0 |-> IF j = 0 THEN stock ELSE MovedBy(g[j - 1], r, kind, r.lines[j])]
      BY <3>1
    <3>3. Steps(g, r, kind, 0)
      BY <3>2 DEF Steps
    <3>. QED  BY <2>2, <2>3, <3>3
  <2>4. CASE k # 0
    <3>1. PICK l \in Nat : k = l + 1
      BY <2>2, <2>4
    <3>2. l < k
      BY <3>1
    <3>3. l \notin C
      BY <2>1, <3>2
    <3>4. PICK f : Steps(f, r, kind, l)
      BY <3>3
    <3>5. PICK v : v = MovedBy(f[l], r, kind, r.lines[k])
      OBVIOUS
    <3>6. PICK g : g = [j \in 0 .. k |-> IF j = k THEN v ELSE f[j]]
      OBVIOUS
    <3>7. \A j \in 0 .. k : g[j] = IF j = 0 THEN stock ELSE MovedBy(g[j - 1], r, kind, r.lines[j])
      <4> SUFFICES ASSUME NEW j \in 0 .. k
                   PROVE  g[j] = IF j = 0 THEN stock ELSE MovedBy(g[j - 1], r, kind, r.lines[j])
        OBVIOUS
      <4>1. CASE j = 0
        <5>1. g[0] = f[0] /\ 0 \in 0 .. l
          BY <2>4, <3>1, <3>6
        <5>2. f[0] = stock
          BY <3>4, <5>1 DEF Steps
        <5>. QED  BY <4>1, <5>1, <5>2
      <4>2. CASE j = k
        <5>1. g[k] = v /\ k - 1 = l /\ g[l] = f[l] /\ k \in 0 .. k
          BY <3>1, <3>6
        <5>. QED  BY <2>4, <3>5, <4>2, <5>1
      <4>3. CASE j # 0 /\ j # k
        <5>1. j \in 0 .. l /\ g[j] = f[j] /\ j - 1 \in 0 .. k /\ j - 1 # k
          BY <3>1, <3>6, <4>3
        <5>2. f[j] = MovedBy(f[j - 1], r, kind, r.lines[j])
          BY <3>4, <4>3, <5>1 DEF Steps
        <5>3. g[j - 1] = f[j - 1]
          BY <3>6, <5>1
        <5>. QED  BY <4>3, <5>1, <5>2, <5>3
      <4>. QED  BY <4>1, <4>2, <4>3
    <3>8. g = [j \in 0 .. k |-> g[j]]
      BY <3>6
    <3>9. Steps(g, r, kind, k)
      BY <3>7, <3>8 DEF Steps
    <3>. QED  BY <2>2, <3>9
  <2>. QED  BY <2>3, <2>4
<1>. QED  BY <1>1

\* A receipt whose lines can be gone through.
Fits(r) ==
    /\ r.warehouse \in WarehouseRows /\ r.lines \in Deliveries
    /\ \A k \in DOMAIN r.lines : r.lines[k].product \in DOMAIN products
CatalogueInv == ProductsInv /\ Len(products) <= MaxRows.products

\* What a receipt accepts of a line.
LEMMA AcceptedNat ==
    ASSUME NEW lines \in Deliveries, NEW k \in DOMAIN lines
    PROVE  accepted_quantity(lines[k]) \in Nat /\ lines[k].cost \in Nat
<1>1. lines \in Seq(GoodsReceiptLineInput)
  BY PurchasingAssumption
<1>2. lines[k] \in GoodsReceiptLineInput
  BY <1>1
<1>. QED  BY <1>2 DEF GoodsReceiptLineInput, accepted_quantity

\* A product of the catalogue has a row of positions.
LEMMA ProductPlaced ==
    ASSUME CatalogueInv, NEW p \in DOMAIN products
    PROVE  p \in ProductRows
BY PurchasingAssumption DEF CatalogueInv, ProductsInv, ProductRows

\* One line.
LEMMA LineMoved ==
    ASSUME CatalogueInv, NEW r, Fits(r), NEW k \in DOMAIN r.lines, NEW kind, NEW st,
           st = Refused \/ StockOK(st)
    PROVE  LET to == MovedBy(st, r, kind, r.lines[k]) IN to = Refused \/ StockOK(to)
<1>1. PICK to, line : line = r.lines[k] /\ to = MovedBy(st, r, kind, line)
  OBVIOUS
<1>2. PICK q \in Nat, c \in Nat : q = accepted_quantity(line) /\ c = line.cost
  BY <1>1, AcceptedNat DEF Fits
<1>3. PICK p \in DOMAIN products : p = line.product
  BY <1>1 DEF Fits
<1>4. CASE q <= 0
  BY <1>1, <1>2, <1>4 DEF MovedBy
<1>5. CASE ~(q <= 0)
  <2>1. to = record(st, p, r.warehouse, kind, q, c)
    BY <1>1, <1>2, <1>3, <1>5 DEF MovedBy
  <2>2. CASE to = Refused
    BY <1>1, <2>2
  <2>3. CASE to # Refused
    <3>1. st # Refused
      BY <2>1, <2>3 DEF record
    <3>2. PICK w \in WarehouseRows : w = r.warehouse
      BY DEF Fits
    <3>3. q \in Nat \ {0} /\ c \in Nat \cup {None} /\ p \in ProductRows /\ ProductsInv
      BY <1>5, ProductPlaced DEF CatalogueInv
    <3>4. to = record(st, p, w, kind, q, c)
      BY <2>1, <3>2
    <3>5. StockOK(to)
      BY <2>3, <3>1, <3>3, <3>4, StockRecorded
    <3>. QED  BY <1>1, <3>5
  <2>. QED  BY <2>2, <2>3
<1>. QED  BY <1>4, <1>5

\* All the lines of a receipt, posted or taken back.
LEMMA LinesMoved ==
    ASSUME CatalogueInv, StockOK(stock), NEW r, Fits(r), NEW kind, Moved(StockAfter(r, kind))
    PROVE  StockOK(stock')
<1>1. r.lines \in Seq(GoodsReceiptLineInput)
  BY PurchasingAssumption DEF Fits
<1>2. PICK n \in Nat : n = Len(r.lines) /\ DOMAIN r.lines = 1 .. n
  BY <1>1
<1>3. PICK g : g = CHOOSE h : Steps(h, r, kind, n)
  OBVIOUS
<1>4. Steps(g, r, kind, n)
  BY <1>3, StepsExist
<1>5. StockAfter(r, kind) = g[n]
  BY <1>2, <1>3 DEF StockAfter, Steps
<1> DEFINE C == {k \in 0 .. n : ~(g[k] = Refused \/ StockOK(g[k]))}
<1>6. C = {}
  <2> SUFFICES ASSUME C # {} PROVE FALSE
    OBVIOUS
  <2>1. C \in SUBSET Nat
    OBVIOUS
  <2>2. PICK k \in C : \A j \in C : ~(j < k)
    BY <2>1, SmallestNumber
  <2>3. k \in 0 .. n /\ ~(g[k] = Refused \/ StockOK(g[k]))
    OBVIOUS
  <2>4. k # 0
    BY <1>4, <2>3 DEF Steps
  <2>5. k - 1 \in 0 .. n /\ k - 1 < k /\ k \in DOMAIN r.lines
    BY <1>2, <2>3, <2>4
  <2>6. g[k - 1] = Refused \/ StockOK(g[k - 1])
    BY <2>2, <2>5
  <2>7. g[k] = MovedBy(g[k - 1], r, kind, r.lines[k])
    BY <1>4, <2>3, <2>4 DEF Steps
  <2>8. PICK st : st = g[k - 1]
    OBVIOUS
  <2>9. g[k] = Refused \/ StockOK(g[k])
    BY <2>5, <2>6, <2>7, <2>8, LineMoved
  <2>. QED  BY <2>3, <2>9
<1>7. g[n] = Refused \/ StockOK(g[n])
  BY <1>6
<1>. QED  BY <1>5, <1>7 DEF Moved

\* transfer(): what leaves one warehouse enters the other at its cost.
LEMMA StockTransferred ==
    ASSUME CatalogueInv, StockOK(stock), NEW p \in DOMAIN products, NEW from \in WarehouseRows,
           NEW into \in WarehouseRows, NEW quantity \in Nat \ {0},
           transfer(p, from, into, quantity)
    PROVE  StockOK(stock')
<1>1. p \in ProductRows /\ ProductsInv
  BY ProductPlaced DEF CatalogueInv
<1>2. PICK out : out = record(stock, p, from, "transfer_out", quantity, None)
  OBVIOUS
<1>3. PICK to : to = record(out, p, into, "transfer_in", quantity, LastMovement(out).cost)
  OBVIOUS
<1>4. out # Refused /\ to # Refused /\ stock' = to
  BY <1>2, <1>3 DEF transfer, Moved
<1>5. None \in Nat \cup {None} /\ "transfer_out" # "reversal" /\ "transfer_in" # "reversal"
  OBVIOUS
<1>6. StockOK(out) /\ LastMovement(out).cost \in Nat
  BY <1>1, <1>2, <1>4, <1>5, StockRecorded
<1>7. PICK c \in Nat \cup {None} : c = LastMovement(out).cost
  BY <1>6
<1>8. to = record(out, p, into, "transfer_in", quantity, c)
  BY <1>3, <1>7
<1>9. StockOK(to)
  BY <1>1, <1>4, <1>5, <1>6, <1>8, StockRecorded
<1>. QED  BY <1>4, <1>9

----------------------------------------------------------------------------
(* Stock, receipts and orders: the invariant.                              *)

\* What receipt r has delivered on line k of order o, if it stands, and what a table
\* of receipts has.
Got(r, o, k) == IF r.status = "posted" THEN Delivered(r, o, k) ELSE 0
Gots(T, o, k) == SumFunctionOnSet([i \in 1 .. Len(T) |-> Got(T[i], o, k)], 1 .. Len(T))

OrderOK(r) ==
    /\ r \in [supplier: {r.supplier}, lines: {r.lines}, status: {r.status}]
    /\ \A k \in DOMAIN r.lines :
        r.lines[k] \in [quantity: {r.lines[k].quantity}, received: Nat]
DeliveryOK(r) ==
    /\ r \in [supplier: {r.supplier}, warehouse: {r.warehouse}, order: {r.order},
              link: {r.link}, lines: {r.lines}, status: {"draft", "posted", "cancelled"},
              entry: {r.entry}]
    /\ r.lines \in Deliveries
\* With p products, w warehouses and o orders.
Placed(r, p, w, o) ==
    /\ r.warehouse \in 1 .. w /\ r.link \in 0 .. o
    /\ \A k \in DOMAIN r.lines : r.lines[k].product \in 1 .. p

WarehousesInv == Table(warehouses) /\ Len(warehouses) <= MaxRows.warehouses
OrdersInv == Table(orders) /\ \A o \in 1 .. Len(orders) : OrderOK(orders[o])
DeliveriesInv ==
    /\ Table(receipts)
    /\ \A i \in 1 .. Len(receipts) :
        /\ DeliveryOK(receipts[i])
        /\ Placed(receipts[i], Len(products), Len(warehouses), Len(orders))
Tracks ==
    \A o \in 1 .. Len(orders) : \A k \in DOMAIN orders[o].lines :
        orders[o].lines[k].received = Gots(receipts, o, k)

StockInv ==
    /\ CatalogueInv /\ WarehousesInv /\ StockOK(stock) /\ OrdersInv /\ DeliveriesInv /\ Tracks

\* A delivery is a number of units.
LEMMA GotNat ==
    ASSUME NEW r, DeliveryOK(r), NEW o, NEW k
    PROVE  Got(r, o, k) \in Nat
<1>1. Delivered(r, o, k) \in Nat
  BY AcceptedNat DEF DeliveryOK, Delivered
<1>. QED  BY <1>1 DEF Got

\* A receipt written: what an order line should have received moves by the difference.
LEMMA GotsWrote ==
    ASSUME NEW A, NEW B, NEW i, Wrote(A, B, i), DeliveryOK(B[i]),
           \A e \in 1 .. Len(A) : DeliveryOK(A[e]), NEW o, NEW j
    PROVE  /\ Gots(B, o, j) = Gots(A, o, j) - (IF i <= Len(A) THEN Got(A[i], o, j) ELSE 0)
                                + Got(B[i], o, j)
           /\ Gots(A, o, j) \in Int
<1>1. PICK g, h : /\ g = [e \in 1 .. Len(A) |-> Got(A[e], o, j)]
                  /\ h = [e \in 1 .. Len(B) |-> Got(B[e], o, j)]
  OBVIOUS
<1>2. ASSUME NEW e, DeliveryOK(e) PROVE Got(e, o, j) \in Int
  <2>1. Got(e, o, j) \in Nat
    BY <1>2, GotNat
  <2>. QED  BY <2>1
<1>3. i \in 1 .. Len(B) /\ \A k \in 1 .. Len(A) : k \in 1 .. Len(B) /\ (k # i => B[k] = A[k])
  BY WroteRow DEF Wrote
<1>4. IntOn(g, 1 .. Len(A))
  BY <1>1, <1>2 DEF IntOn
<1>5. h[i] = Got(B[i], o, j) /\ h[i] \in Int
  BY <1>1, <1>2, <1>3
<1>6. \A k \in 1 .. Len(A) : k # i => h[k] = g[k]
  BY <1>1, <1>3
<1>7. /\ SumFunctionOnSet(h, 1 .. Len(B)) =
            SumFunctionOnSet(g, 1 .. Len(A)) - (IF i <= Len(A) THEN g[i] ELSE 0) + h[i]
      /\ SumFunctionOnSet(g, 1 .. Len(A)) \in Int
  BY <1>4, <1>5, <1>6, SumWrote
<1>8. /\ Gots(A, o, j) = SumFunctionOnSet(g, 1 .. Len(A))
      /\ Gots(B, o, j) = SumFunctionOnSet(h, 1 .. Len(B))
  BY <1>1 DEF Gots
<1>9. i <= Len(A) => g[i] = Got(A[i], o, j)
  BY <1>1, WroteRow
<1>. QED  BY <1>5, <1>7, <1>8, <1>9

\* No delivery is more than what all of them come to.
LEMMA GotBounded ==
    ASSUME DeliveriesInv, NEW i \in 1 .. Len(receipts), NEW o, NEW k
    PROVE  Got(receipts[i], o, k) <= Gots(receipts, o, k) /\ Gots(receipts, o, k) \in Nat
<1>1. PICK S, g : S = 1 .. Len(receipts) /\ g = [e \in S |-> Got(receipts[e], o, k)]
  OBVIOUS
<1>2. IsFiniteSet(S) /\ i \in S
  BY <1>1, Upto DEF DeliveriesInv, Table
<1>3. \A e \in S : g[e] \in Nat
  BY <1>1, GotNat DEF DeliveriesInv
<1>4. PICK T : T = S \ {i}
  OBVIOUS
<1>5. IsFiniteSet(T) /\ \A e \in T : g[e] \in Nat
  BY <1>2, <1>3, <1>4, FS_Subset
<1>6. SumFunctionOnSet(g, S) = g[i] + SumFunctionOnSet(g, S \ {i})
  <2>1. IntOn(g, S)
    BY <1>3 DEF IntOn
  <2>. QED  BY <1>2, <2>1, SumTake
<1>7. PICK a \in Nat : a = SumFunctionOnSet(g, T)
  BY <1>5, SumNat
<1>8. SumFunctionOnSet(g, S) = g[i] + a
  BY <1>4, <1>6, <1>7, Zenon
<1>9. g[i] \in Nat /\ g[i] = Got(receipts[i], o, k)
  BY <1>1, <1>2, <1>3
<1>10. Gots(receipts, o, k) = g[i] + a
  BY <1>1, <1>8 DEF Gots
<1>. QED  BY <1>9, <1>10

\* An order that is not there has no deliveries.
LEMMA NothingDelivered ==
    ASSUME DeliveriesInv, NEW o, ~(o \in 0 .. Len(orders)), NEW k
    PROVE  Gots(receipts, o, k) = 0
<1>1. PICK S, g : S = 1 .. Len(receipts) /\ g = [i \in S |-> Got(receipts[i], o, k)]
  OBVIOUS
<1>2. IsFiniteSet(S)
  BY <1>1, Upto DEF DeliveriesInv, Table
<1>3. \A i \in S : g[i] = 0
  BY <1>1 DEF DeliveriesInv, Placed, Got, Delivered
<1>4. SumFunctionOnSet(g, S) = 0
  BY <1>2, <1>3, SumZero
<1>. QED  BY <1>1, <1>4 DEF Gots

\* Tables only grow, so a receipt stays placed.
LEMMA StaysPlaced ==
    ASSUME CatalogueInv, WarehousesInv, OrdersInv, CatalogueInv', WarehousesInv', OrdersInv',
           Len(products') >= Len(products), Len(warehouses') >= Len(warehouses),
           Len(orders') >= Len(orders), NEW r,
           Placed(r, Len(products), Len(warehouses), Len(orders))
    PROVE  Placed(r, Len(products'), Len(warehouses'), Len(orders'))
<1>1. /\ Len(products) \in Nat /\ Len(products') \in Nat /\ Len(warehouses) \in Nat
      /\ Len(warehouses') \in Nat /\ Len(orders) \in Nat /\ Len(orders') \in Nat
  BY DEF CatalogueInv, ProductsInv, WarehousesInv, OrdersInv, Table
<1>. QED  BY <1>1 DEF Placed

\* A request that leaves receipts and orders alone.
LEMMA StockStep ==
    ASSUME StockInv, CatalogueInv', WarehousesInv', StockOK(stock'),
           Len(products') >= Len(products), Len(warehouses') >= Len(warehouses),
           UNCHANGED <<orders, receipts>>
    PROVE  StockInv'
<1>1. OrdersInv' /\ Tracks' /\ Len(orders') >= Len(orders)
  BY DEF StockInv, OrdersInv, Tracks, Table
<1>2. ASSUME NEW i \in 1 .. Len(receipts)
      PROVE  /\ DeliveryOK(receipts[i])
             /\ Placed(receipts[i], Len(products'), Len(warehouses'), Len(orders'))
  <2>1. DeliveryOK(receipts[i]) /\ Placed(receipts[i], Len(products), Len(warehouses), Len(orders))
    BY DEF StockInv, DeliveriesInv
  <2>2. CatalogueInv /\ WarehousesInv /\ OrdersInv
    BY DEF StockInv
  <2>. QED  BY <1>1, <2>1, <2>2, StaysPlaced
<1>3. DeliveriesInv'
  BY <1>2 DEF StockInv, DeliveriesInv
<1>. QED  BY <1>1, <1>3 DEF StockInv

\* A row of receipts is written, and the order lines move by what that delivers.
LEMMA DeliveryStep ==
    ASSUME StockInv, WarehousesInv', StockOK(stock'), OrdersInv', products' = products,
           Len(warehouses') >= Len(warehouses), Len(orders') = Len(orders),
           NEW i, Wrote(receipts, receipts', i), DeliveryOK(receipts'[i]),
           Placed(receipts'[i], Len(products'), Len(warehouses'), Len(orders')),
           \A o \in 1 .. Len(orders) : \A k \in DOMAIN orders'[o].lines :
                /\ k \in DOMAIN orders[o].lines
                /\ orders'[o].lines[k].received = orders[o].lines[k].received
                        - (IF i <= Len(receipts) THEN Got(receipts[i], o, k) ELSE 0)
                        + Got(receipts'[i], o, k)
    PROVE  StockInv'
<1>1. CatalogueInv' /\ Len(products') >= Len(products) /\ Len(orders') >= Len(orders)
  BY DEF StockInv, CatalogueInv, ProductsInv, OrdersInv, Table
<1>2. \A k \in 1 .. Len(receipts) :
        /\ DeliveryOK(receipts[k])
        /\ Placed(receipts[k], Len(products), Len(warehouses), Len(orders))
  BY DEF StockInv, DeliveriesInv
<1>3. \A k \in 1 .. Len(receipts') : k = i \/ (k \in 1 .. Len(receipts) /\ receipts'[k] = receipts[k])
  BY WroteRow
<1>4. ASSUME NEW k \in 1 .. Len(receipts')
      PROVE  /\ DeliveryOK(receipts'[k])
             /\ Placed(receipts'[k], Len(products'), Len(warehouses'), Len(orders'))
  <2>1. CASE k = i
    BY <2>1
  <2>2. CASE k # i
    <3>1. k \in 1 .. Len(receipts) /\ receipts'[k] = receipts[k]
      BY <1>3, <2>2
    <3>2. DeliveryOK(receipts[k]) /\ Placed(receipts[k], Len(products), Len(warehouses), Len(orders))
      BY <1>2, <3>1
    <3>3. CatalogueInv /\ WarehousesInv /\ OrdersInv
      BY DEF StockInv
    <3>4. Placed(receipts[k], Len(products'), Len(warehouses'), Len(orders'))
      BY <1>1, <3>2, <3>3, StaysPlaced
    <3>. QED  BY <3>1, <3>2, <3>4
  <2>. QED  BY <2>1, <2>2
<1>5. DeliveriesInv'
  BY <1>4 DEF DeliveriesInv, Wrote
<1>6. ASSUME NEW o \in 1 .. Len(orders), NEW k \in DOMAIN orders'[o].lines
      PROVE  orders'[o].lines[k].received = Gots(receipts', o, k)
  <2>1. Gots(receipts', o, k) =
            Gots(receipts, o, k) - (IF i <= Len(receipts) THEN Got(receipts[i], o, k) ELSE 0)
                + Got(receipts'[i], o, k)
    BY <1>2, GotsWrote
  <2>2. k \in DOMAIN orders[o].lines
    BY <1>6
  <2>3. orders[o].lines[k].received = Gots(receipts, o, k)
    BY <2>2 DEF StockInv, Tracks
  <2>4. orders'[o].lines[k].received = orders[o].lines[k].received
                        - (IF i <= Len(receipts) THEN Got(receipts[i], o, k) ELSE 0)
                        + Got(receipts'[i], o, k)
    BY <1>6
  <2>. QED  BY <2>1, <2>3, <2>4, Zenon
<1>7. Tracks'
  BY <1>6 DEF Tracks
<1>. QED  BY <1>1, <1>5, <1>7 DEF StockInv

\* An order is written: a new one has received nothing, another one what it had.
LEMMA OrderStep ==
    ASSUME StockInv, UNCHANGED <<products, warehouses, stock, receipts>>,
           NEW j, Wrote(orders, orders', j), OrderOK(orders'[j]),
           IF j <= Len(orders) THEN orders'[j].lines = orders[j].lines
           ELSE \A k \in DOMAIN orders'[j].lines : orders'[j].lines[k].received = 0
    PROVE  StockInv'
<1>1. PICK n \in Nat, m \in Nat : n = Len(orders) /\ m = Len(orders')
  BY WroteRow
<1>2. j \in Nat /\ ((m = n /\ j \in 1 .. n) \/ (m = n + 1 /\ j = n + 1))
  BY <1>1, WroteRow
<1>3. \A o \in 1 .. m : o = j \/ (o \in 1 .. n /\ orders'[o] = orders[o])
  BY <1>1, WroteRow
<1>4. \A o \in 1 .. m : OrderOK(orders'[o])
  BY <1>1, <1>3 DEF StockInv, OrdersInv
<1>5. OrdersInv'
  BY <1>1, <1>4 DEF OrdersInv, Wrote
<1>6. CatalogueInv' /\ WarehousesInv' /\ StockOK(stock')
  BY DEF StockInv, CatalogueInv, ProductsInv, WarehousesInv
<1>7. /\ Len(products') >= Len(products) /\ Len(warehouses') >= Len(warehouses)
      /\ Len(orders') >= Len(orders)
  BY <1>1, <1>2 DEF StockInv, CatalogueInv, ProductsInv, WarehousesInv, Table
<1>8. ASSUME NEW i \in 1 .. Len(receipts)
      PROVE  /\ DeliveryOK(receipts[i])
             /\ Placed(receipts[i], Len(products'), Len(warehouses'), Len(orders'))
  <2>1. DeliveryOK(receipts[i]) /\ Placed(receipts[i], Len(products), Len(warehouses), Len(orders))
    BY DEF StockInv, DeliveriesInv
  <2>2. CatalogueInv /\ WarehousesInv /\ OrdersInv
    BY DEF StockInv
  <2>. QED  BY <1>5, <1>6, <1>7, <2>1, <2>2, StaysPlaced
<1>9. DeliveriesInv'
  BY <1>8 DEF StockInv, DeliveriesInv
<1>10. ASSUME NEW o \in 1 .. m, NEW k \in DOMAIN orders'[o].lines
       PROVE  orders'[o].lines[k].received = Gots(receipts, o, k)
  <2>1. CASE o \in 1 .. n
    <3>1. orders'[o].lines = orders[o].lines
      <4>1. CASE o = j
        <5>1. j <= Len(orders)
          BY <1>1, <2>1, <4>1
        <5>. QED  BY <4>1, <5>1
      <4>2. CASE o # j
        BY <1>3, <4>2
      <4>. QED  BY <4>1, <4>2
    <3>2. k \in DOMAIN orders[o].lines /\ o \in 1 .. Len(orders)
      BY <1>1, <2>1, <3>1
    <3>3. orders[o].lines[k].received = Gots(receipts, o, k)
      BY <3>2 DEF StockInv, Tracks
    <3>. QED  BY <3>1, <3>3
  <2>2. CASE ~(o \in 1 .. n)
    <3>1. o = j /\ ~(j <= Len(orders)) /\ ~(o \in 0 .. Len(orders))
      BY <1>1, <1>2, <1>3, <2>2
    <3>2. Gots(receipts, o, k) = 0
      BY <3>1, NothingDelivered DEF StockInv
    <3>3. orders'[o].lines[k].received = 0
      BY <3>1
    <3>. QED  BY <3>2, <3>3
  <2>. QED  BY <2>1, <2>2
<1>11. Tracks'
  BY <1>1, <1>10 DEF Tracks
<1>. QED  BY <1>5, <1>6, <1>9, <1>11 DEF StockInv

\* Rows whose orders are those of orders with other figures received.
Refigured(rows) ==
    /\ Table(rows) /\ Len(rows) = Len(orders)
    /\ \A o \in 1 .. Len(rows) : OrderOK(rows[o]) /\ DOMAIN rows[o].lines = DOMAIN orders[o].lines

\* One order with other figures received.
LEMMA OrderRefigured ==
    ASSUME NEW r, OrderOK(r), NEW f, \A k \in DOMAIN r.lines : f[k] \in Nat, NEW v,
           v = [r EXCEPT !.lines = [k \in DOMAIN @ |-> [@[k] EXCEPT !.received = f[k]]]]
    PROVE  /\ OrderOK(v) /\ DOMAIN v.lines = DOMAIN r.lines
           /\ \A k \in DOMAIN r.lines : v.lines[k].received = f[k]
<1>1. PICK L : L = [k \in DOMAIN r.lines |-> [r.lines[k] EXCEPT !.received = f[k]]]
  OBVIOUS
<1>2. v = [r EXCEPT !.lines = L]
  BY <1>1
<1>3. v.lines = L /\ v \in [supplier: {v.supplier}, lines: {v.lines}, status: {v.status}]
  BY <1>2 DEF OrderOK
<1>4. ASSUME NEW k \in DOMAIN L
      PROVE  L[k] \in [quantity: {L[k].quantity}, received: Nat] /\ L[k].received = f[k]
  <2>1. PICK l : l = r.lines[k]
    OBVIOUS
  <2>2. l \in [quantity: {l.quantity}, received: Nat] /\ f[k] \in Nat
    BY <1>1, <2>1 DEF OrderOK
  <2>3. L[k] = [l EXCEPT !.received = f[k]]
    BY <1>1, <2>1
  <2>. QED  BY <2>2, <2>3
<1>5. DOMAIN L = DOMAIN r.lines
  BY <1>1
<1>6. OrderOK(v)
  BY <1>3, <1>4 DEF OrderOK
<1>. QED  BY <1>3, <1>4, <1>5, <1>6

\* _refresh_order_status() changes no line.
LEMMA StatusRefreshed ==
    ASSUME NEW rows, Refigured(rows), NEW j
    PROVE  LET now == _refresh_order_status(rows, j)
           IN  Refigured(now) /\ \A o \in 1 .. Len(rows) : now[o].lines = rows[o].lines
<1>1. PICK now : now = _refresh_order_status(rows, j)
  OBVIOUS
<1>2. now = rows \/ \E x : now = [rows EXCEPT ![j].status = x]
  BY <1>1 DEF _refresh_order_status
<1>3. CASE now = rows
  BY <1>1, <1>3
<1>4. CASE now # rows
  <2>1. PICK x : now = [rows EXCEPT ![j].status = x]
    BY <1>2, <1>4
  <2>2. PICK n \in Nat : n = Len(rows)
    BY DEF Refigured, Table
  <2>3. rows = [k \in 1 .. n |-> rows[k]] /\ \A o \in 1 .. n : OrderOK(rows[o])
    BY <2>2 DEF Refigured, Table
  <2>4. now = [k \in 1 .. n |-> IF k = j THEN [rows[k] EXCEPT !.status = x] ELSE rows[k]]
    BY <2>1, <2>3
  <2>5. now = [k \in 1 .. n |-> now[k]]
    BY <2>4
  <2>6. Len(now) = n
    BY <2>5, AppendRow
  <2>7. ASSUME NEW o \in 1 .. n PROVE OrderOK(now[o]) /\ now[o].lines = rows[o].lines
    <3>1. PICK r : r = rows[o]
      OBVIOUS
    <3>2. OrderOK(r)
      BY <2>3, <3>1
    <3>3. CASE now[o] = r
      BY <3>1, <3>2, <3>3
    <3>4. CASE now[o] # r
      <4>1. now[o] = [r EXCEPT !.status = x]
        BY <2>4, <3>1, <3>4
      <4>2. PICK v : v = now[o]
        OBVIOUS
      <4>3. v.lines = r.lines /\ v \in [supplier: {v.supplier}, lines: {v.lines}, status: {v.status}]
        BY <3>2, <4>1, <4>2 DEF OrderOK
      <4>4. OrderOK(v)
        BY <3>2, <4>3 DEF OrderOK
      <4>. QED  BY <3>1, <4>2, <4>3, <4>4
    <3>. QED  BY <3>3, <3>4
  <2>8. Refigured(now)
    BY <2>2, <2>5, <2>6, <2>7 DEF Refigured, Table
  <2>. QED  BY <1>1, <2>2, <2>7, <2>8
<1>. QED  BY <1>3, <1>4

\* Posting moves the lines of the linked order forward by what is accepted.
LEMMA LinesForward ==
    ASSUME OrdersInv, NEW r, DeliveryOK(r)
    PROVE  LET rows == RolledForward(r)
           IN  /\ Refigured(rows)
               /\ \A o \in 1 .. Len(orders) : \A k \in DOMAIN orders[o].lines :
                    rows[o].lines[k].received =
                        orders[o].lines[k].received + Delivered(r, o, k)
<1>1. PICK rows : rows = RolledForward(r)
  OBVIOUS
<1>2. PICK n \in Nat : n = Len(orders)
  BY DEF OrdersInv, Table
<1>3. DOMAIN orders = 1 .. n
  BY <1>2 DEF OrdersInv, Table
<1>4. ASSUME NEW o \in 1 .. n
      PROVE  /\ OrderOK(rows[o]) /\ DOMAIN rows[o].lines = DOMAIN orders[o].lines
             /\ \A k \in DOMAIN orders[o].lines :
                    rows[o].lines[k].received =
                        orders[o].lines[k].received + Delivered(r, o, k)
  <2>1. PICK w, v : w = orders[o] /\ v = rows[o]
    OBVIOUS
  <2>2. OrderOK(w)
    BY <1>2, <2>1 DEF OrdersInv
  <2>3. PICK f : f = [k \in DOMAIN w.lines |-> w.lines[k].received + Delivered(r, o, k)]
    OBVIOUS
  <2>4. \A k \in DOMAIN w.lines : f[k] \in Nat
    <3>1. \A k : Delivered(r, o, k) \in Nat
      BY AcceptedNat DEF DeliveryOK, Delivered
    <3>. QED  BY <2>2, <2>3, <3>1 DEF OrderOK
  <2>5. v = [w EXCEPT !.lines = [k \in DOMAIN @ |-> [@[k] EXCEPT !.received = f[k]]]]
    BY <1>1, <1>3, <2>1, <2>3 DEF RolledForward, OrdersWith
  <2>6. OrderOK(v)
    BY <2>2, <2>4, <2>5, OrderRefigured
  <2>7. DOMAIN v.lines = DOMAIN w.lines
    BY <2>2, <2>4, <2>5, OrderRefigured
  <2>8. \A k \in DOMAIN w.lines : v.lines[k].received = f[k]
    BY <2>2, <2>4, <2>5, OrderRefigured
  <2>. QED  BY <2>1, <2>3, <2>6, <2>7, <2>8
<1>5. rows = [o \in 1 .. n |-> rows[o]]
  BY <1>1, <1>3 DEF RolledForward, OrdersWith
<1>6. Len(rows) = n
  BY <1>5, AppendRow
<1>7. Refigured(rows)
  BY <1>2, <1>4, <1>5, <1>6 DEF Refigured, Table
<1>. QED  BY <1>1, <1>2, <1>4, <1>7

\* Cancelling takes back what posting moved: a line never has less than that.
LEMMA LinesBack ==
    ASSUME OrdersInv, DeliveriesInv, Tracks, NEW i \in 1 .. Len(receipts), NEW r,
           r = receipts[i], r.status = "posted"
    PROVE  LET rows == RolledBack(r)
           IN  /\ Refigured(rows)
               /\ \A o \in 1 .. Len(orders) : \A k \in DOMAIN orders[o].lines :
                    rows[o].lines[k].received =
                        orders[o].lines[k].received - Delivered(r, o, k)
<1>1. PICK rows : rows = RolledBack(r)
  OBVIOUS
<1>2. PICK n \in Nat : n = Len(orders)
  BY DEF OrdersInv, Table
<1>3. DOMAIN orders = 1 .. n
  BY <1>2 DEF OrdersInv, Table
<1>4. ASSUME NEW o \in 1 .. n
      PROVE  /\ OrderOK(rows[o]) /\ DOMAIN rows[o].lines = DOMAIN orders[o].lines
             /\ \A k \in DOMAIN orders[o].lines :
                    rows[o].lines[k].received =
                        orders[o].lines[k].received - Delivered(r, o, k)
  <2>1. PICK w, v : w = orders[o] /\ v = rows[o]
    OBVIOUS
  <2>2. OrderOK(w)
    BY <1>2, <2>1 DEF OrdersInv
  <2>3. PICK f : f = [k \in DOMAIN w.lines |->
                        LET left == w.lines[k].received - Delivered(r, o, k)
                        IN  IF left > 0 THEN left ELSE 0]
    OBVIOUS
  <2>4. ASSUME NEW k \in DOMAIN w.lines
        PROVE  f[k] \in Nat /\ f[k] = w.lines[k].received - Delivered(r, o, k)
    <3>1. PICK a, b : a = Got(r, o, k) /\ b = Gots(receipts, o, k)
      OBVIOUS
    <3>2. a <= b /\ b \in Nat
      BY <3>1, GotBounded
    <3>3. a \in Nat
      BY <3>1, GotNat DEF DeliveriesInv
    <3>4. a = Delivered(r, o, k)
      BY <3>1 DEF Got
    <3>5. b = w.lines[k].received
      BY <1>2, <2>1, <3>1 DEF Tracks
    <3>6. f[k] = IF b - a > 0 THEN b - a ELSE 0
      BY <2>3, <3>4, <3>5
    <3>7. f[k] \in Nat /\ f[k] = b - a
      BY <3>2, <3>3, <3>6
    <3>. QED  BY <3>4, <3>5, <3>7
  <2>5. v = [w EXCEPT !.lines = [k \in DOMAIN @ |-> [@[k] EXCEPT !.received = f[k]]]]
    BY <1>1, <1>3, <2>1, <2>3 DEF RolledBack, OrdersWith
  <2>a. \A k \in DOMAIN w.lines : f[k] \in Nat
    BY <2>4
  <2>6. OrderOK(v)
    BY <2>2, <2>a, <2>5, OrderRefigured
  <2>7. DOMAIN v.lines = DOMAIN w.lines
    BY <2>2, <2>a, <2>5, OrderRefigured
  <2>8. \A k \in DOMAIN w.lines : v.lines[k].received = f[k]
    BY <2>2, <2>a, <2>5, OrderRefigured
  <2>. QED  BY <2>1, <2>4, <2>6, <2>7, <2>8
<1>5. rows = [o \in 1 .. n |-> rows[o]]
  BY <1>1, <1>3 DEF RolledBack, OrdersWith
<1>6. Len(rows) = n
  BY <1>5, AppendRow
<1>7. Refigured(rows)
  BY <1>2, <1>4, <1>5, <1>6 DEF Refigured, Table
<1>. QED  BY <1>1, <1>2, <1>4, <1>7

----------------------------------------------------------------------------
(* Stock, receipts and orders: the requests.                               *)

\* The warehouse of a request is there when the request is done.
LEMMA WarehouseFound ==
    ASSUME WarehousesInv, NEW w \in {0} \cup DOMAIN warehouses, WarehouseOnDemand(w)
    PROVE  /\ WarehousesInv' /\ Len(warehouses') >= Len(warehouses)
           /\ get_warehouse(w) \in 1 .. Len(warehouses') /\ get_warehouse(w) \in WarehouseRows
<1>1. PICK n \in Nat, m \in Nat : n = Len(warehouses) /\ m = MaxRows.warehouses /\ n <= m
  BY PurchasingAssumption DEF WarehousesInv, Table
<1>2. DOMAIN warehouses = 1 .. n
  BY <1>1 DEF WarehousesInv, Table
<1>3. CASE get_warehouse(w) \in DOMAIN warehouses
  <2>1. warehouses' = warehouses
    BY <1>3 DEF WarehouseOnDemand
  <2>2. get_warehouse(w) \in 1 .. n /\ get_warehouse(w) \in 1 .. m
    BY <1>1, <1>2, <1>3
  <2>. QED  BY <1>1, <2>1, <2>2 DEF WarehousesInv, WarehouseRows
<1>4. CASE get_warehouse(w) \notin DOMAIN warehouses
  <2>1. get_warehouse(w) = n + 1
    BY <1>1, <1>2, <1>4 DEF get_warehouse, default_warehouse
  <2>2. PICK v : warehouses' = Append(warehouses, v)
    BY <1>4 DEF WarehouseOnDemand
  <2>3. n < m
    BY <1>1, <1>4 DEF WarehouseOnDemand, Room
  <2>4. Wrote(warehouses, warehouses', n + 1) /\ Len(warehouses') = n + 1
    BY <1>1, <2>2, WroteAppend DEF WarehousesInv
  <2>5. WarehousesInv'
    BY <1>1, <2>3, <2>4 DEF WarehousesInv, Wrote
  <2>. QED  BY <1>1, <2>1, <2>3, <2>4, <2>5 DEF WarehouseRows
<1>. QED  BY <1>3, <1>4

\* adjust().
LEMMA StockTaken ==
    ASSUME StockInv, NEW p \in DOMAIN products, NEW w \in {0} \cup DOMAIN warehouses,
           NEW delta \in Deltas, NEW cost \in {None} \cup Costs, adjust(p, w, delta, cost)
    PROVE  StockInv'
<1>1. /\ WarehousesInv' /\ Len(warehouses') >= Len(warehouses)
      /\ get_warehouse(w) \in WarehouseRows
  BY WarehouseFound DEF adjust, StockInv
<1>2. delta \in Int \ {0} /\ cost \in Nat \cup {None}
  BY PurchasingAssumption
<1>3. PICK q \in Nat \ {0} : q = IF delta > 0 THEN delta ELSE -delta
  BY <1>2
<1>4. PICK kind, v, to :
        /\ kind = (IF delta > 0 THEN "adjustment" ELSE "issue") /\ v = get_warehouse(w)
        /\ to = record(stock, p, v, kind, q, cost)
  OBVIOUS
<1>5. to # Refused /\ stock' = to
  BY <1>3, <1>4 DEF adjust, Moved
<1>6. kind # "reversal" /\ v \in WarehouseRows
  BY <1>1, <1>4
<1>7. p \in ProductRows /\ ProductsInv /\ StockOK(stock)
  BY ProductPlaced DEF StockInv, CatalogueInv
<1>8. StockOK(to)
  BY <1>2, <1>4, <1>5, <1>6, <1>7, StockRecorded
<1>9. UNCHANGED <<products, orders, receipts>>
  BY DEF adjust, catalogue, buying
<1>10. CatalogueInv' /\ Len(products') >= Len(products)
  BY <1>9 DEF StockInv, CatalogueInv, ProductsInv
<1>. QED  BY <1>1, <1>5, <1>8, <1>9, <1>10, StockStep

\* transfer().
LEMMA Transferred ==
    ASSUME StockInv, NEW p \in DOMAIN products, NEW from \in DOMAIN warehouses,
           NEW into \in DOMAIN warehouses, NEW quantity \in Deltas \cap Nat,
           transfer(p, from, into, quantity)
    PROVE  StockInv'
<1>1. DOMAIN warehouses = 1 .. Len(warehouses) /\ Len(warehouses) \in Nat
      /\ Len(warehouses) <= MaxRows.warehouses
  BY DEF StockInv, WarehousesInv, Table
<1>2. from \in WarehouseRows /\ into \in WarehouseRows
  BY <1>1, PurchasingAssumption DEF WarehouseRows
<1>3. quantity \in Nat \ {0}
  BY PurchasingAssumption
<1>4. StockOK(stock')
  BY <1>2, <1>3, StockTransferred DEF StockInv
<1>5. UNCHANGED <<products, warehouses, orders, receipts>>
  BY DEF transfer, catalogue, buying
<1>6. /\ CatalogueInv' /\ WarehousesInv' /\ Len(products') >= Len(products)
      /\ Len(warehouses') >= Len(warehouses)
  BY <1>1, <1>5 DEF StockInv, CatalogueInv, ProductsInv, WarehousesInv
<1>. QED  BY <1>4, <1>5, <1>6, StockStep

\* A placed receipt can be gone through.
LEMMA PlacedFits ==
    ASSUME CatalogueInv, NEW r, DeliveryOK(r), NEW w \in Nat, w <= MaxRows.warehouses, NEW o,
           Placed(r, Len(products), w, o)
    PROVE  Fits(r)
<1>1. DOMAIN products = 1 .. Len(products)
  BY DEF CatalogueInv, ProductsInv
<1>2. r.warehouse \in WarehouseRows
  BY PurchasingAssumption DEF Placed, WarehouseRows
<1>. QED  BY <1>1, <1>2 DEF Fits, DeliveryOK, Placed

\* Posting: stock, card and order lines take what the receipt accepts.
LEMMA DeliveryPosted ==
    ASSUME StockInv, WarehousesInv', Len(warehouses') >= Len(warehouses), products' = products,
           NEW r, DeliveryOK(r), r.status = "draft",
           Placed(r, Len(products), Len(warehouses'), Len(orders)), NEW i \in Nat,
           (i \in 1 .. Len(receipts) /\ r = receipts[i]) \/ i = Len(receipts) + 1,
           PostReceipt(r, i)
    PROVE  StockInv'
<1>1. Table(receipts) /\ OrdersInv /\ CatalogueInv /\ StockOK(stock)
  BY DEF StockInv, DeliveriesInv
<1>2. i \in 1 .. Len(receipts) \/ i = Len(receipts) + 1
  OBVIOUS
<1>3. PICK l : l = IF PostedValue(r) > 0 THEN Len(entries) + 1 ELSE 0
  OBVIOUS
<1>4. PICK v : v = [r EXCEPT !.status = "posted", !.entry = l]
  OBVIOUS
<1>5. Wrote(receipts, receipts', i)
  BY <1>1, <1>2, PostedRow
<1>6. receipts'[i] = [r EXCEPT !.status = "posted",
                        !.entry = IF PostedValue(r) > 0 THEN Len(entries) + 1 ELSE 0]
  BY <1>1, <1>2, PostedRow
<1>7. receipts'[i] = v
  BY <1>3, <1>4, <1>6
<1>8. /\ DeliveryOK(v) /\ v.status = "posted" /\ v.warehouse = r.warehouse /\ v.link = r.link
      /\ v.lines = r.lines
  BY <1>4 DEF DeliveryOK
<1>9. PICK m \in Nat : m = Len(warehouses') /\ m <= MaxRows.warehouses
  BY DEF WarehousesInv, Table
<1>10. Fits(r)
  BY <1>1, <1>9, PlacedFits
<1>11. StockOK(stock')
  BY <1>1, <1>10, LinesMoved DEF PostReceipt
<1>12. PICK rows : rows = RolledForward(r)
  OBVIOUS
<1>13. Refigured(rows) /\ \A o \in 1 .. Len(orders) : \A k \in DOMAIN orders[o].lines :
            rows[o].lines[k].received = orders[o].lines[k].received + Delivered(r, o, k)
  BY <1>1, <1>12, LinesForward
<1>14. orders' = _refresh_order_status(rows, r.order)
  BY <1>12 DEF PostReceipt
<1>15. Refigured(orders') /\ \A o \in 1 .. Len(rows) : orders'[o].lines = rows[o].lines
  BY <1>13, <1>14, StatusRefreshed
<1>16. OrdersInv' /\ Len(orders') = Len(orders) /\ Len(rows) = Len(orders)
  BY <1>13, <1>15 DEF Refigured, OrdersInv
<1>17. ASSUME NEW o \in 1 .. Len(orders), NEW k \in DOMAIN orders'[o].lines
       PROVE  /\ k \in DOMAIN orders[o].lines
              /\ orders'[o].lines[k].received = orders[o].lines[k].received
                        - (IF i <= Len(receipts) THEN Got(receipts[i], o, k) ELSE 0)
                        + Got(receipts'[i], o, k)
  <2>1. orders'[o].lines = rows[o].lines /\ k \in DOMAIN orders[o].lines
    BY <1>13, <1>15, <1>16 DEF Refigured
  <2>2. PICK a, d : a = orders[o].lines[k].received /\ d = Delivered(r, o, k)
    OBVIOUS
  <2>3. orders'[o].lines[k].received = a + d
    BY <1>13, <2>1, <2>2
  <2>4. a \in Nat
    BY <1>1, <2>1, <2>2 DEF OrdersInv, OrderOK
  <2>5. Got(receipts'[i], o, k) = d /\ d \in Nat
    <3>1. Got(v, o, k) = d
      BY <1>8, <2>2 DEF Got, Delivered
    <3>2. Got(v, o, k) \in Nat
      BY <1>8, GotNat
    <3>. QED  BY <1>7, <3>1, <3>2
  <2>6. (IF i <= Len(receipts) THEN Got(receipts[i], o, k) ELSE 0) = 0
    <3>1. CASE i \in 1 .. Len(receipts) /\ r = receipts[i]
      BY <3>1 DEF Got
    <3>2. CASE i = Len(receipts) + 1
      <4>1. Len(receipts) \in Nat
        BY <1>1 DEF Table
      <4>. QED  BY <3>2, <4>1
    <3>. QED  BY <3>1, <3>2
  <2>7. a + d = a - 0 + d
    BY <2>4, <2>5
  <2>8. orders'[o].lines[k].received = a
            - (IF i <= Len(receipts) THEN Got(receipts[i], o, k) ELSE 0) + Got(receipts'[i], o, k)
    BY <2>3, <2>5, <2>6, <2>7, Zenon
  <2>. QED  BY <2>1, <2>2, <2>8
<1>18. Placed(v, Len(products'), Len(warehouses'), Len(orders'))
  BY <1>8, <1>16 DEF Placed
<1>19. /\ DeliveryOK(receipts'[i])
       /\ Placed(receipts'[i], Len(products'), Len(warehouses'), Len(orders'))
  BY <1>7, <1>8, <1>18
<1>. QED  BY <1>5, <1>11, <1>16, <1>17, <1>19, DeliveryStep

\* A receipt written that neither stood nor stands.
LEMMA DeliveryQuiet ==
    ASSUME StockInv, WarehousesInv', Len(warehouses') >= Len(warehouses),
           UNCHANGED <<products, stock, orders>>, NEW i, Wrote(receipts, receipts', i),
           i <= Len(receipts) => receipts[i].status # "posted",
           DeliveryOK(receipts'[i]), receipts'[i].status # "posted",
           Placed(receipts'[i], Len(products), Len(warehouses'), Len(orders))
    PROVE  StockInv'
<1>1. OrdersInv' /\ StockOK(stock') /\ Len(orders') = Len(orders)
  BY DEF StockInv, OrdersInv
<1>2. ASSUME NEW o \in 1 .. Len(orders), NEW k \in DOMAIN orders'[o].lines
      PROVE  /\ k \in DOMAIN orders[o].lines
             /\ orders'[o].lines[k].received = orders[o].lines[k].received
                        - (IF i <= Len(receipts) THEN Got(receipts[i], o, k) ELSE 0)
                        + Got(receipts'[i], o, k)
  <2>1. k \in DOMAIN orders[o].lines
    OBVIOUS
  <2>2. PICK a : a = orders[o].lines[k].received
    OBVIOUS
  <2>3. a \in Nat
    BY <2>1, <2>2 DEF StockInv, OrdersInv, OrderOK
  <2>4. (IF i <= Len(receipts) THEN Got(receipts[i], o, k) ELSE 0) = 0 /\ Got(receipts'[i], o, k) = 0
    BY DEF Got
  <2>5. a = a - 0 + 0
    BY <2>3
  <2>6. a = a - (IF i <= Len(receipts) THEN Got(receipts[i], o, k) ELSE 0) + Got(receipts'[i], o, k)
    BY <2>4, <2>5, Zenon
  <2>. QED  BY <2>1, <2>2, <2>6
<1>3. Placed(receipts'[i], Len(products'), Len(warehouses'), Len(orders'))
  OBVIOUS
<1>. QED  BY <1>1, <1>2, <1>3, DeliveryStep

\* create_receipt(), posting or not.
LEMMA DeliveryCreated ==
    ASSUME StockInv, NEW s, NEW w \in {0} \cup DOMAIN warehouses, NEW order,
           NEW link \in {0} \cup DOMAIN orders, NEW lines \in Deliveries, NEW post,
           create_receipt(s, w, order, link, lines, post)
    PROVE  StockInv'
<1>1. /\ WarehousesInv' /\ Len(warehouses') >= Len(warehouses)
      /\ get_warehouse(w) \in 1 .. Len(warehouses')
  BY WarehouseFound DEF create_receipt, StockInv
<1>2. PICK v, r : v = get_warehouse(w) /\ r = GoodsReceipt(s, v, order, link, lines)
  OBVIOUS
<1>3. /\ DeliveryOK(r) /\ r.status = "draft" /\ r.warehouse = v /\ r.link = link
      /\ r.lines = lines
  BY <1>2 DEF DeliveryOK, GoodsReceipt
<1>4. link \in 0 .. Len(orders)
  BY DEF StockInv, OrdersInv, Table
<1>5. \A k \in DOMAIN lines : lines[k].product \in 1 .. Len(products)
  BY DEF create_receipt, StockInv, CatalogueInv, ProductsInv
<1>6. Placed(r, Len(products), Len(warehouses'), Len(orders))
  BY <1>1, <1>2, <1>3, <1>4, <1>5 DEF Placed
<1>7. products' = products
  BY DEF create_receipt, catalogue
<1>8. Table(receipts)
  BY DEF StockInv, DeliveriesInv
<1>9. PICK i \in Nat : i = Len(receipts) + 1
  BY <1>8 DEF Table
<1>10. CASE post
  <2>1. PostReceipt(r, i)
    BY <1>2, <1>9, <1>10 DEF create_receipt
  <2>. QED  BY <1>1, <1>3, <1>6, <1>7, <1>9, <2>1, DeliveryPosted
<1>11. CASE ~post
  <2>1. receipts' = Append(receipts, r) /\ UNCHANGED <<stock, orders>>
    BY <1>2, <1>11 DEF create_receipt
  <2>2. Wrote(receipts, receipts', i) /\ receipts'[i] = r
    BY <1>8, <1>9, <2>1, WroteAppend
  <2>3. ~(i <= Len(receipts))
    BY <1>8, <1>9 DEF Table
  <2>4. receipts'[i].status # "posted"
    BY <1>3, <2>2
  <2>. QED  BY <1>1, <1>3, <1>6, <1>7, <2>1, <2>2, <2>3, <2>4, DeliveryQuiet
<1>. QED  BY <1>10, <1>11

\* post_receipt().
LEMMA DeliveryPosts ==
    ASSUME StockInv, NEW i \in DOMAIN receipts, post_receipt(i)
    PROVE  StockInv'
<1>1. PICK r : r = receipts[i]
  OBVIOUS
<1>2. i \in 1 .. Len(receipts) /\ i \in Nat
  BY DEF StockInv, DeliveriesInv, Table
<1>3. DeliveryOK(r) /\ Placed(r, Len(products), Len(warehouses), Len(orders))
  BY <1>1, <1>2 DEF StockInv, DeliveriesInv
<1>4. UNCHANGED <<products, warehouses>> /\ PostReceipt(r, i) /\ r.status = "draft"
  BY <1>1 DEF post_receipt, catalogue
<1>5. WarehousesInv' /\ Len(warehouses') >= Len(warehouses)
      /\ Placed(r, Len(products), Len(warehouses'), Len(orders))
  BY <1>3, <1>4 DEF StockInv, WarehousesInv, Table
<1>. QED  BY <1>1, <1>2, <1>3, <1>4, <1>5, DeliveryPosted

\* cancel_receipt().
LEMMA DeliveryCancelled ==
    ASSUME StockInv, NEW i \in DOMAIN receipts, cancel_receipt(i)
    PROVE  StockInv'
<1>1. PICK r, v : r = receipts[i] /\ v = [r EXCEPT !.status = "cancelled"]
  OBVIOUS
<1>2. i \in 1 .. Len(receipts) /\ i \in Nat /\ Table(receipts)
  BY DEF StockInv, DeliveriesInv, Table
<1>3. DeliveryOK(r) /\ Placed(r, Len(products), Len(warehouses), Len(orders))
  BY <1>1, <1>2 DEF StockInv, DeliveriesInv
<1>4. UNCHANGED <<products, warehouses>> /\ receipts' = [receipts EXCEPT ![i] = v]
  BY <1>1 DEF cancel_receipt, catalogue
<1>5. WarehousesInv' /\ Len(warehouses') >= Len(warehouses)
  BY <1>4 DEF StockInv, WarehousesInv, Table
<1>6. Wrote(receipts, receipts', i) /\ receipts'[i] = v
  BY <1>2, <1>4, WroteExcept
<1>7. /\ DeliveryOK(v) /\ v.status = "cancelled" /\ v.warehouse = r.warehouse /\ v.link = r.link
      /\ v.lines = r.lines
  BY <1>1, <1>3 DEF DeliveryOK
<1>8. Placed(v, Len(products), Len(warehouses'), Len(orders))
  BY <1>3, <1>4, <1>7 DEF Placed
<1>9. /\ DeliveryOK(receipts'[i]) /\ receipts'[i].status # "posted"
      /\ Placed(receipts'[i], Len(products), Len(warehouses'), Len(orders))
  BY <1>6, <1>7, <1>8
<1>10. r.status \in {"draft", "posted"}
  BY <1>1, <1>3 DEF cancel_receipt, DeliveryOK
<1>11. CASE r.status = "draft"
  <2>1. UNCHANGED <<stock, orders>>
    BY <1>1, <1>11 DEF cancel_receipt
  <2>2. receipts[i].status # "posted"
    BY <1>1, <1>11
  <2>. QED  BY <1>4, <1>5, <1>6, <1>9, <2>1, <2>2, DeliveryQuiet
<1>12. CASE r.status = "posted"
  <2>1. Moved(StockAfter(r, "reversal")) /\ orders' = RolledBack(r)
    BY <1>1, <1>12 DEF cancel_receipt
  <2>2. PICK m \in Nat : m = Len(warehouses) /\ m <= MaxRows.warehouses
    BY DEF StockInv, WarehousesInv, Table
  <2>3. CatalogueInv /\ StockOK(stock) /\ OrdersInv /\ DeliveriesInv /\ Tracks
    BY DEF StockInv
  <2>4. Fits(r)
    BY <1>3, <2>2, <2>3, PlacedFits
  <2>5. StockOK(stock')
    BY <2>1, <2>3, <2>4, LinesMoved
  <2>6. Refigured(orders') /\ \A o \in 1 .. Len(orders) : \A k \in DOMAIN orders[o].lines :
            orders'[o].lines[k].received = orders[o].lines[k].received - Delivered(r, o, k)
    BY <1>1, <1>2, <1>12, <2>1, <2>3, LinesBack
  <2>7. OrdersInv' /\ Len(orders') = Len(orders)
    BY <2>6 DEF Refigured, OrdersInv
  <2>8. ASSUME NEW o \in 1 .. Len(orders), NEW k \in DOMAIN orders'[o].lines
        PROVE  /\ k \in DOMAIN orders[o].lines
               /\ orders'[o].lines[k].received = orders[o].lines[k].received
                        - (IF i <= Len(receipts) THEN Got(receipts[i], o, k) ELSE 0)
                        + Got(receipts'[i], o, k)
    <3>1. k \in DOMAIN orders[o].lines
      BY <2>6, <2>7 DEF Refigured
    <3>2. PICK a, d : a = orders[o].lines[k].received /\ d = Delivered(r, o, k)
      OBVIOUS
    <3>3. orders'[o].lines[k].received = a - d
      BY <2>6, <3>1, <3>2
    <3>4. a \in Nat
      BY <2>3, <3>1, <3>2 DEF OrdersInv, OrderOK
    <3>5. Got(r, o, k) = d /\ Got(r, o, k) \in Nat /\ Got(v, o, k) = 0
      BY <1>3, <1>7, <1>12, <3>2, GotNat DEF Got
    <3>6. i <= Len(receipts)
      BY <1>2
    <3>7. (IF i <= Len(receipts) THEN Got(receipts[i], o, k) ELSE 0) = d /\ Got(receipts'[i], o, k) = 0
      BY <1>1, <1>6, <3>5, <3>6
    <3>8. a - d = a - d + 0
      BY <3>4, <3>5
    <3>9. a - d = a - (IF i <= Len(receipts) THEN Got(receipts[i], o, k) ELSE 0)
                    + Got(receipts'[i], o, k)
      BY <3>7, <3>8, Zenon
    <3>. QED  BY <3>1, <3>2, <3>3, <3>9
  <2>9. Placed(receipts'[i], Len(products'), Len(warehouses'), Len(orders'))
    BY <1>4, <1>9, <2>7
  <2>. QED  BY <1>4, <1>5, <1>6, <1>9, <2>5, <2>7, <2>8, <2>9, DeliveryStep
<1>. QED  BY <1>10, <1>11, <1>12

\* create_order(), approve_order() and cancel_order().
LEMMA OrderSteps ==
    ASSUME StockInv,
           \/ \E s : \E doc \in Documents : create_order(s, doc)
           \/ \E o \in DOMAIN orders : approve_order(o) \/ cancel_order(o)
    PROVE  StockInv'
<1>1. UNCHANGED <<products, warehouses, stock, receipts>> /\ Table(orders)
  BY DEF StockInv, OrdersInv, create_order, approve_order, cancel_order, catalogue
<1>2. PICK n \in Nat : n = Len(orders) /\ DOMAIN orders = 1 .. n
  BY <1>1 DEF Table
<1>3. ASSUME NEW s, NEW doc \in Documents, create_order(s, doc) PROVE StockInv'
  <2>1. PICK r : r = PurchaseOrder(s, doc) /\ orders' = Append(orders, r)
    BY <1>3 DEF create_order
  <2>2. PICK j \in Nat : j = n + 1
    OBVIOUS
  <2>3. Wrote(orders, orders', j) /\ orders'[j] = r
    BY <1>1, <1>2, <2>1, <2>2, WroteAppend
  <2>4. OrderOK(r) /\ \A k \in DOMAIN r.lines : r.lines[k].received = 0
    BY <2>1 DEF PurchaseOrder, PurchaseOrderLine, OrderOK
  <2>5. ~(j <= Len(orders))
    BY <1>2, <2>2
  <2>6. IF j <= Len(orders) THEN orders'[j].lines = orders[j].lines
        ELSE \A k \in DOMAIN orders'[j].lines : orders'[j].lines[k].received = 0
    BY <2>3, <2>4, <2>5
  <2>. QED  BY <1>1, <2>3, <2>4, <2>6, OrderStep
<1>4. ASSUME NEW o \in DOMAIN orders, approve_order(o) \/ cancel_order(o) PROVE StockInv'
  <2>1. PICK w, x, r : /\ w = orders[o] /\ r = [w EXCEPT !.status = x]
                       /\ orders' = [orders EXCEPT ![o] = r]
    BY <1>4 DEF approve_order, cancel_order
  <2>2. OrderOK(w) /\ o \in 1 .. Len(orders)
    BY <1>2, <2>1 DEF StockInv, OrdersInv
  <2>3. r.lines = w.lines /\ r \in [supplier: {r.supplier}, lines: {r.lines}, status: {r.status}]
    BY <2>1, <2>2 DEF OrderOK
  <2>4. OrderOK(r)
    BY <2>2, <2>3 DEF OrderOK
  <2>5. Wrote(orders, orders', o) /\ orders'[o] = r
    BY <1>1, <2>1, <2>2, WroteExcept
  <2>6. IF o <= Len(orders) THEN orders'[o].lines = orders[o].lines
        ELSE \A k \in DOMAIN orders'[o].lines : orders'[o].lines[k].received = 0
    BY <1>2, <2>1, <2>2, <2>3, <2>5
  <2>. QED  BY <1>1, <2>4, <2>5, <2>6, OrderStep
<1>. QED  BY <1>3, <1>4

\* create_product() and update_product().
LEMMA CatalogueSteps ==
    ASSUME StockInv, create_product \/ \E p \in DOMAIN products : update_product(p)
    PROVE  StockInv'
<1>1. UNCHANGED <<warehouses, stock, orders, receipts>>
  BY DEF create_product, update_product, buying
<1>2. products \in Seq(ProductCreate) /\ Len(products) <= MaxRows.products
      /\ Len(products) \in Nat /\ MaxRows.products \in Nat
  BY PurchasingAssumption DEF StockInv, CatalogueInv, ProductsInv
<1>3. ProductsInv' /\ Len(products') \in Len(products) .. MaxRows.products
  <2>1. CASE create_product
    <3>1. PICK form \in ProductForms : products' = Append(products, form)
      BY <2>1 DEF create_product, Product
    <3>2. form \in ProductCreate
      BY PurchasingAssumption
    <3>3. Len(products) < MaxRows.products
      BY <2>1 DEF create_product, Room
    <3>. QED  BY <1>2, <3>1, <3>2, <3>3 DEF ProductsInv
  <2>2. ASSUME NEW p \in DOMAIN products, update_product(p)
        PROVE  ProductsInv' /\ Len(products') \in Len(products) .. MaxRows.products
    <3>1. PICK form \in ProductForms :
            products' = [products EXCEPT ![p] = [form EXCEPT !.kind = products[p].kind]]
      BY <2>2 DEF update_product
    <3>2. form \in ProductCreate /\ products[p] \in ProductCreate
      BY <1>2, PurchasingAssumption
    <3>3. PICK f : f = [form EXCEPT !.kind = products[p].kind]
      OBVIOUS
    <3>4. f \in ProductCreate
      BY <3>2, <3>3 DEF ProductCreate
    <3>5. products' = [products EXCEPT ![p] = f]
      BY <3>1, <3>3
    <3>. QED  BY <1>2, <3>4, <3>5 DEF ProductsInv
  <2>. QED  BY <2>1, <2>2
<1>4. CatalogueInv' /\ Len(products') >= Len(products)
  BY <1>2, <1>3 DEF CatalogueInv
<1>5. WarehousesInv' /\ StockOK(stock') /\ Len(warehouses') >= Len(warehouses)
  BY <1>1 DEF StockInv, WarehousesInv, Table
<1>. QED  BY <1>1, <1>4, <1>5, StockStep

\* create_warehouse(): the new one may take the default over from another.
LEMMA WarehouseCreated ==
    ASSUME StockInv, create_warehouse PROVE StockInv'
<1>1. UNCHANGED <<products, stock, orders, receipts>>
  BY DEF create_warehouse, catalogue, buying
<1>2. PICK n \in Nat : n = Len(warehouses) /\ DOMAIN warehouses = 1 .. n
  BY DEF StockInv, WarehousesInv, Table
<1>3. PICK A, v : warehouses' = Append(A, v) /\ A = [w \in 1 .. n |-> A[w]]
  <2>1. PICK code, default : warehouses' = Append([w \in 1 .. n |->
                [warehouses[w] EXCEPT !.default = @ /\ ~default]], Warehouse(code, default))
    BY <1>2 DEF create_warehouse
  <2>2. PICK B : B = [w \in 1 .. n |-> [warehouses[w] EXCEPT !.default = @ /\ ~default]]
    OBVIOUS
  <2>3. B = [w \in 1 .. n |-> B[w]]
    BY <2>2
  <2>4. warehouses' = Append(B, Warehouse(code, default))
    BY <2>1, <2>2
  <2>. QED  BY <2>3, <2>4
<1>4. Len(A) = n
  BY <1>3, AppendRow
<1>5. Table(A)
  BY <1>3, <1>4 DEF Table
<1>6. Wrote(A, warehouses', Len(A) + 1) /\ Len(warehouses') = Len(A) + 1
  BY <1>3, <1>5, WroteAppend
<1>7. n < MaxRows.warehouses
  BY <1>2 DEF create_warehouse, Room
<1>8. WarehousesInv' /\ Len(warehouses') >= Len(warehouses)
  BY <1>2, <1>4, <1>6, <1>7, PurchasingAssumption DEF WarehousesInv, Wrote
<1>9. CatalogueInv' /\ Len(products') >= Len(products) /\ StockOK(stock')
  BY <1>1 DEF StockInv, CatalogueInv, ProductsInv
<1>. QED  BY <1>1, <1>8, <1>9, StockStep

\* Requests that touch neither stock, receipts nor orders.
LEMMA StockQuiet ==
    ASSUME StockInv, UNCHANGED <<products, warehouses, stock, orders, receipts>> PROVE StockInv'
BY DEF StockInv, CatalogueInv, ProductsInv, WarehousesInv, OrdersInv, DeliveriesInv, Tracks

\* At first there is no stock, and nothing on order.
LEMMA InitStock == Init => StockInv
<1> SUFFICES ASSUME Init PROVE StockInv
  OBVIOUS
<1>1. /\ orders = <<>> /\ receipts = <<>> /\ warehouses = <<>> /\ products = OpeningProducts
      /\ stock = [levels |-> StockLevel, movements |-> <<>>]
  BY DEF Init
<1>2. /\ Table(orders) /\ Len(orders) = 0 /\ Table(receipts) /\ Len(receipts) = 0
      /\ Table(warehouses) /\ Len(warehouses) = 0 /\ Table(<<>>) /\ Len(<<>>) = 0
  BY <1>1 DEF Table
<1>3. CatalogueInv
  BY <1>1, PurchasingAssumption DEF CatalogueInv, ProductsInv
<1>4. WarehousesInv
  BY <1>2, PurchasingAssumption DEF WarehousesInv
<1>5. OrdersInv /\ DeliveriesInv /\ Tracks
  BY <1>2 DEF OrdersInv, DeliveriesInv, Tracks
<1>6. StockOK(stock)
  <2>1. PICK z, T, L : z = ValuationState(0, 0) /\ T = stock.movements /\ L = stock.levels
    OBVIOUS
  <2>2. LevelOK(z) /\ z.quantity = 0
    BY <2>1 DEF LevelOK, ValuationState
  <2>3. L = [p \in ProductRows |-> [w \in WarehouseRows |-> z]] /\ T = <<>>
    BY <1>1, <2>1 DEF StockLevel, ProductRows, WarehouseRows
  <2>4. Len(T) = 0 /\ Table(T)
    BY <1>2, <2>3
  <2>5. LevelsOK(L)
    BY <2>2, <2>3 DEF LevelsOK, LevelOK
  <2>6. MovementsOK(T)
    BY <2>4 DEF MovementsOK
  <2>7. ASSUME NEW p \in ProductRows, NEW w \in WarehouseRows PROVE CardOK(T, z, p, w)
    <3>1. 1 .. 0 = {}
      OBVIOUS
    <3>2. \A g : SumFunctionOnSet(g, 1 .. 0) = 0
      BY <3>1, SumEmpty
    <3>3. Changes(T, p, w) = 0
      BY <2>4, <3>2 DEF Changes
    <3>. QED  BY <2>2, <2>4, <3>1, <3>3 DEF CardOK
  <2>8. \A p \in ProductRows, w \in WarehouseRows : L[p][w] = z
    BY <2>3
  <2>. QED  BY <2>1, <2>2, <2>5, <2>6, <2>7, <2>8 DEF StockOK
<1>. QED  BY <1>3, <1>4, <1>5, <1>6 DEF StockInv

\* Every request keeps the invariant of stock, receipts and orders.
LEMMA NextStock == StockInv /\ [Next]_vars => StockInv'
<1> SUFFICES ASSUME StockInv, [Next]_vars PROVE StockInv'
  OBVIOUS
<1>1. CASE UNCHANGED vars
  BY <1>1, StockQuiet DEF vars, catalogue, buying
<1>2. CASE create_supplier \/ \E s : update_supplier(s)
  BY <1>2, StockQuiet DEF create_supplier, update_supplier, buying
<1>3. CASE create_product \/ \E p \in DOMAIN products : update_product(p)
  BY <1>3, CatalogueSteps
<1>4. CASE create_warehouse
  BY <1>4, WarehouseCreated
<1>5. ASSUME NEW p \in DOMAIN products, NEW w \in {0} \cup DOMAIN warehouses, NEW delta \in Deltas,
             NEW cost \in {None} \cup Costs, adjust(p, w, delta, cost)
      PROVE  StockInv'
  BY <1>5, StockTaken
<1>6. ASSUME NEW p \in DOMAIN products, NEW from \in DOMAIN warehouses,
             NEW into \in DOMAIN warehouses, NEW quantity \in Deltas \cap Nat,
             transfer(p, from, into, quantity)
      PROVE  StockInv'
  BY <1>6, Transferred
<1>7. ASSUME NEW s, NEW doc \in Documents, create_order(s, doc) PROVE StockInv'
  BY <1>7, OrderSteps
<1>8. ASSUME NEW o \in DOMAIN orders, approve_order(o) \/ cancel_order(o) PROVE StockInv'
  BY <1>8, OrderSteps
<1>9. ASSUME NEW s, NEW number, NEW receipt, NEW doc, NEW whole, NEW post,
             create_bill(s, number, receipt, doc, whole, post)
      PROVE  StockInv'
  BY <1>9, StockQuiet DEF create_bill, catalogue
<1>10. ASSUME NEW s, NEW w \in {0} \cup DOMAIN warehouses, NEW order,
              NEW link \in {0} \cup DOMAIN orders, NEW lines \in Deliveries, NEW post,
              create_receipt(s, w, order, link, lines, post)
       PROVE  StockInv'
  BY <1>10, DeliveryCreated
<1>11. ASSUME NEW s, NEW source, NEW amount, NEW plan, pay(s, source, amount, plan) PROVE StockInv'
  BY <1>11, StockQuiet DEF pay, catalogue
<1>12. ASSUME NEW i \in DOMAIN receipts, post_receipt(i) \/ cancel_receipt(i) PROVE StockInv'
  BY <1>12, DeliveryPosts, DeliveryCancelled
<1>13. ASSUME NEW b, post_bill(b) \/ cancel_bill(b) PROVE StockInv'
  BY <1>13, StockQuiet DEF post_bill, cancel_bill, catalogue
<1>14. ASSUME NEW p, NEW plan, allocate(p, plan) PROVE StockInv'
  BY <1>14, StockQuiet DEF allocate, catalogue
<1>. QED
  BY <1>1, <1>2, <1>3, <1>4, <1>5, <1>6, <1>7, <1>8, <1>9, <1>10, <1>11, <1>12, <1>13, <1>14
     DEF Next

\* The invariant of stock, receipts and orders: rows are well formed, every position
\* is the sum of its card, and every order line has what standing receipts delivered.
THEOREM StockInvariance == Spec => []StockInv
BY InitStock, NextStock, PTL DEF Spec

\* The positions, from the invariant.
LEMMA PositionsAddUp == StockInv => StockWellFormed
<1> SUFFICES ASSUME StockInv PROVE StockWellFormed
  OBVIOUS
<1> DEFINE L == stock.levels
           M == stock.movements
<1>2. LevelsOK(L) /\ MovementsOK(M)
  BY DEF StockInv, StockOK
<1>3. PICK n \in Nat : n = Len(M) /\ DOMAIN M = 1 .. n
  BY <1>2 DEF MovementsOK, Table
<1>4. DOMAIN L = ProductRows /\ \A p \in ProductRows : DOMAIN L[p] = WarehouseRows
  BY <1>2 DEF LevelsOK
<1>5. ASSUME NEW p \in DOMAIN L, NEW w \in DOMAIN L[p]
      PROVE  LET level == L[p][w]
                 card == {m \in DOMAIN M : M[m].product = p /\ M[m].warehouse = w}
             IN  /\ level.quantity >= 0 /\ level.value >= 0
                 /\ level.quantity = 0 => level.value = 0
                 /\ level.quantity = SumOf(LAMBDA m : M[m].quantity, card)
                 /\ \A m \in card : (\A k \in card : k <= m) => M[m].balance = level.quantity
  <2>1. p \in ProductRows /\ w \in WarehouseRows
    BY <1>4, <1>5
  <2>2. PICK s, T : s = L[p][w] /\ T = {m \in DOMAIN M : M[m].product = p /\ M[m].warehouse = w}
    OBVIOUS
  <2>3. LevelOK(s) /\ CardOK(M, s, p, w)
    BY <2>1, <2>2 DEF StockInv, StockOK
  <2>4. T \in SUBSET (1 .. n) /\ \A m \in 1 .. n : m \in T <=> On(M[m], p, w)
    BY <1>3, <2>2 DEF On
  <2>5. PICK f, g : /\ f = [m \in T |-> M[m].quantity]
                    /\ g = [m \in 1 .. n |-> Change(M[m], p, w)]
    OBVIOUS
  <2>6. \A m \in 1 .. n : g[m] \in Int /\ (m \notin T => g[m] = 0)
    BY <1>2, <1>3, <2>4, <2>5 DEF Change, MovementsOK
  <2>7. \A m \in T : f[m] = g[m]
    BY <2>4, <2>5 DEF Change
  <2>8. SumFunctionOnSet(f, T) = SumFunctionOnSet(g, 1 .. n)
    BY <2>4, <2>6, <2>7, CountedRows
  <2>9. s.quantity = SumFunctionOnSet(g, 1 .. n)
    BY <1>3, <2>3, <2>5 DEF CardOK, Changes
  <2>10. s.quantity = SumOf(LAMBDA m : M[m].quantity, T)
    BY <2>5, <2>8, <2>9 DEF SumOf
  <2>11. ASSUME NEW m \in T, \A k \in T : k <= m PROVE M[m].balance = s.quantity
    <3>1. m \in 1 .. Len(M) /\ Latest(M, p, w, m)
      BY <1>3, <2>4, <2>11 DEF Latest
    <3>. QED  BY <2>3, <3>1 DEF CardOK
  <2>12. s.quantity >= 0 /\ s.value >= 0 /\ (s.quantity = 0 => s.value = 0)
    BY <2>3 DEF LevelOK
  <2>. QED  BY <2>2, <2>10, <2>11, <2>12
<1>. QED  BY <1>5 DEF StockWellFormed

\* The order lines, from the invariant.
LEMMA OrderLinesAddUp == StockInv => OrderTracksReceipts
<1> SUFFICES ASSUME StockInv, NEW o \in DOMAIN orders, NEW k \in DOMAIN orders[o].lines
             PROVE  orders[o].lines[k].received =
                        SumOf(LAMBDA i : Delivered(receipts[i], o, k),
                              {i \in DOMAIN receipts : receipts[i].status = "posted"})
  BY DEF OrderTracksReceipts
<1>1. o \in 1 .. Len(orders)
  BY DEF StockInv, OrdersInv, Table
<1>2. PICK n \in Nat : n = Len(receipts) /\ DOMAIN receipts = 1 .. n
  BY DEF StockInv, DeliveriesInv, Table
<1>3. PICK T : T = {i \in DOMAIN receipts : receipts[i].status = "posted"}
  OBVIOUS
<1>4. PICK f, g : /\ f = [i \in T |-> Delivered(receipts[i], o, k)]
                  /\ g = [i \in 1 .. n |-> Got(receipts[i], o, k)]
  OBVIOUS
<1>5. T \in SUBSET (1 .. n) /\ \A i \in T : f[i] = g[i]
  BY <1>2, <1>3, <1>4 DEF Got
<1>6. \A i \in 1 .. n : g[i] \in Int /\ (i \notin T => g[i] = 0)
  <2>1. \A i \in 1 .. n : Got(receipts[i], o, k) \in Nat
    BY <1>2, GotNat DEF StockInv, DeliveriesInv
  <2>. QED  BY <1>2, <1>3, <1>4, <2>1 DEF Got
<1>7. SumFunctionOnSet(f, T) = SumFunctionOnSet(g, 1 .. n)
  BY <1>5, <1>6, CountedRows
<1>8. orders[o].lines[k].received = SumFunctionOnSet(g, 1 .. n)
  BY <1>1, <1>2, <1>4 DEF StockInv, Tracks, Gots
<1>9. SumOf(LAMBDA i : Delivered(receipts[i], o, k), T) = SumFunctionOnSet(f, T)
  BY <1>4 DEF SumOf
<1>. QED  BY <1>3, <1>7, <1>8, <1>9

\* Stock, stock card and order lines tell the same deliveries: through receipts,
\* stock-takes, transfers and cancellations in any order, by record() and by the
\* posting and cancelling of receipts, no position is below zero in quantity or in
\* value, none keeps a value on no units, each quantity is the sum of the stock card
\* and the balance the card ends in, and an order line has received what the posted receipts
\* linked to it accepted.
THEOREM StockAlwaysAddsUp == Spec => []StockAddsUp
<1>1. StockInv => StockAddsUp
  BY PositionsAddUp, OrderLinesAddUp DEF StockAddsUp
<1>. QED  BY <1>1, StockInvariance, PTL

----------------------------------------------------------------------------
(* Stock and ledger.                                                       *)

\* No product's inventory account is the account the other side of its movements is
\* booked to.
InventoryKept == IsFiniteSet(InventoryAccounts) /\ {"cogs", "grni"} \cap InventoryAccounts = {}

\* The value of the stock, by product, and in all.
ShelfWorth(L, p) == SumFunctionOnSet([w \in WarehouseRows |-> L[p][w].value], WarehouseRows)
Worth(L) == SumFunctionOnSet([p \in ProductRows |-> ShelfWorth(L, p)], ProductRows)

\* There are finitely many positions.
LEMMA RowsFinite == IsFiniteSet(ProductRows) /\ IsFiniteSet(WarehouseRows)
BY PurchasingAssumption, Upto DEF ProductRows, WarehouseRows

\* A product's stock is worth a number.
LEMMA ShelfInt ==
    ASSUME NEW L, LevelsOK(L), NEW p \in ProductRows
    PROVE  ShelfWorth(L, p) \in Int
<1>1. PICK S, g : S = WarehouseRows /\ g = [w \in S |-> L[p][w].value]
  OBVIOUS
<1>2. IntOn(g, S)
  BY <1>1 DEF IntOn, LevelsOK
<1>3. SumFunctionOnSet(g, S) \in Int
  BY <1>1, <1>2, RowsFinite, SumInt
<1>. QED  BY <1>1, <1>3 DEF ShelfWorth

\* The worth of the stock is a number.
LEMMA WorthInt == ASSUME NEW L, LevelsOK(L) PROVE Worth(L) \in Int
<1>1. PICK S, g : S = ProductRows /\ g = [a \in S |-> ShelfWorth(L, a)]
  OBVIOUS
<1>2. IntOn(g, S) /\ IsFiniteSet(S)
  BY <1>1, ShelfInt, RowsFinite DEF IntOn
<1>3. SumFunctionOnSet(g, S) \in Int
  BY <1>2, SumInt
<1>. QED  BY <1>1, <1>3 DEF Worth

\* One position changes: the stock is worth what that position is worth more.
LEMMA WorthChanged ==
    ASSUME NEW L, LevelsOK(L), NEW M, LevelsOK(M), NEW p \in ProductRows, NEW w \in WarehouseRows,
           \A a \in ProductRows, b \in WarehouseRows : <<a, b>> # <<p, w>> => M[a][b] = L[a][b]
    PROVE  Worth(M) = Worth(L) + (M[p][w].value - L[p][w].value) /\ Worth(L) \in Int
<1>1. PICK S, g, h : /\ S = WarehouseRows /\ g = [b \in S |-> L[p][b].value]
                     /\ h = [b \in S |-> M[p][b].value]
  OBVIOUS
<1>2. IsFiniteSet(S) /\ w \in S /\ IntOn(g, S) /\ IntOn(h, S)
  BY <1>1, RowsFinite DEF IntOn, LevelsOK
<1>3. \A b \in S : b # w => h[b] = g[b]
  BY <1>1
<1>4. SumFunctionOnSet(h, S) + g[w] = SumFunctionOnSet(g, S) + h[w]
  BY <1>2, <1>3, SumChange
<1>5. ShelfWorth(M, p) + g[w] = ShelfWorth(L, p) + h[w]
  BY <1>1, <1>4 DEF ShelfWorth
<1>6. PICK T, e, f : /\ T = ProductRows /\ e = [a \in T |-> ShelfWorth(L, a)]
                     /\ f = [a \in T |-> ShelfWorth(M, a)]
  OBVIOUS
<1>7. IsFiniteSet(T) /\ p \in T /\ IntOn(e, T) /\ IntOn(f, T)
  BY <1>6, RowsFinite, ShelfInt DEF IntOn
<1>8. ASSUME NEW a \in T, a # p PROVE f[a] = e[a]
  <2>1. PICK x, y : x = [b \in S |-> L[a][b].value] /\ y = [b \in S |-> M[a][b].value]
    OBVIOUS
  <2>2. x = y
    BY <1>1, <1>6, <1>8, <2>1
  <2>. QED  BY <1>1, <1>6, <2>1, <2>2 DEF ShelfWorth
<1>9. SumFunctionOnSet(f, T) + e[p] = SumFunctionOnSet(e, T) + f[p]
  BY <1>7, <1>8, SumChange
<1>10. Worth(M) + ShelfWorth(L, p) = Worth(L) + ShelfWorth(M, p)
  BY <1>6, <1>9 DEF Worth
<1>11. Worth(L) \in Int /\ Worth(M) \in Int
  BY <1>6, <1>7, SumInt DEF Worth
<1>12. /\ ShelfWorth(L, p) \in Int /\ ShelfWorth(M, p) \in Int /\ g[w] \in Int /\ h[w] \in Int
       /\ g[w] = L[p][w].value /\ h[w] = M[p][w].value
  <2>1. ShelfWorth(L, p) \in Int /\ ShelfWorth(M, p) \in Int
    BY ShelfInt, Zenon
  <2>2. g[w] \in Int /\ h[w] \in Int
    BY <1>2 DEF IntOn
  <2>3. g[w] = L[p][w].value /\ h[w] = M[p][w].value
    BY <1>1
  <2>. QED  BY <2>1, <2>2, <2>3
<1>13. ShelfWorth(M, p) - ShelfWorth(L, p) = M[p][w].value - L[p][w].value
  BY <1>5, <1>12
<1>. QED  BY <1>10, <1>11, <1>12, <1>13

\* record(): the worth of the stock moves by the total of the movement.
LEMMA WorthRecorded ==
    ASSUME ProductsInv, NEW p \in DOMAIN products, p \in ProductRows, NEW w \in WarehouseRows,
           NEW st, StockOK(st), NEW kind, NEW q \in Nat \ {0}, NEW cost \in Nat \cup {None},
           kind # "reversal", NEW to, to = record(st, p, w, kind, q, cost), to # Refused
    PROVE  /\ LastMovement(to).total \in Nat /\ Worth(st.levels) \in Int
           /\ Worth(to.levels) = Worth(st.levels)
                + (IF increases_stock(kind) THEN LastMovement(to).total
                                            ELSE 0 - LastMovement(to).total)
           /\ increases_stock(kind) =>
                LastMovement(to).total = round_value(q * UnitCost(st.levels[p][w], p, cost))
<1>1. PICK s, m : s = st.levels[p][w] /\ m = Movement(s, p, kind, q, cost)
  OBVIOUS
<1>2. increases_stock(kind) \/ ~(q > s.quantity)
  BY <1>1 DEF record
<1>3. PICK e : e = StockMovement(p, w, m.signed, m.cost, m.total, m.to.quantity)
  OBVIOUS
<1>4. to = [levels |-> [st.levels EXCEPT ![p][w] = m.to], movements |-> Append(st.movements, e)]
  BY <1>1, <1>3 DEF record
<1>5. LevelOK(s)
  BY <1>1 DEF StockOK
<1>6. increases_stock(kind) \/ q <= s.quantity
  BY <1>2, <1>5 DEF LevelOK
<1>7. /\ m.total \in Nat
      /\ m.to.value = IF increases_stock(kind) THEN s.value + m.total ELSE s.value - m.total
  BY <1>1, <1>5, <1>6, PositionMoved
<1>8. PICK L, M : L = st.levels /\ M = [L EXCEPT ![p][w] = m.to]
  OBVIOUS
<1>9. StockOK(to)
  BY StockRecorded
<1>10. LevelsOK(L) /\ LevelsOK(M) /\ to.levels = M
  BY <1>4, <1>8, <1>9 DEF StockOK
<1>11. M[p][w] = m.to
  BY <1>8, <1>10 DEF LevelsOK
<1>12. \A a \in ProductRows, b \in WarehouseRows : <<a, b>> # <<p, w>> => M[a][b] = L[a][b]
  BY <1>8, <1>10 DEF LevelsOK
<1>13. Worth(M) = Worth(L) + (M[p][w].value - L[p][w].value) /\ Worth(L) \in Int
  BY <1>10, <1>12, WorthChanged
<1>14. LastMovement(to).total = m.total
  <2>1. PICK T : T = st.movements
    OBVIOUS
  <2>2. Table(T)
    BY <2>1 DEF StockOK, MovementsOK
  <2>3. PICK U : U = Append(T, e)
    OBVIOUS
  <2>4. Len(U) = Len(T) + 1 /\ U[Len(T) + 1] = e
    BY <2>2, <2>3, WroteAppend
  <2>5. LastMovement(to) = e
    BY <1>4, <2>1, <2>3, <2>4 DEF LastMovement
  <2>. QED  BY <1>3, <2>5 DEF StockMovement
<1>15. s.value \in Nat /\ L[p][w] = s
  BY <1>1, <1>5, <1>8 DEF LevelOK
<1>16. Worth(M) = Worth(L) + (IF increases_stock(kind) THEN m.total ELSE 0 - m.total)
  <2>1. CASE increases_stock(kind)
    BY <1>7, <1>11, <1>13, <1>15, <2>1
  <2>2. CASE ~increases_stock(kind)
    BY <1>7, <1>11, <1>13, <1>15, <2>2
  <2>. QED  BY <2>1, <2>2
<1>17. increases_stock(kind) => m.total = round_value(q * UnitCost(s, p, cost))
  BY <1>1 DEF Movement
<1>. QED  BY <1>1, <1>7, <1>8, <1>10, <1>13, <1>14, <1>16, <1>17, Zenon

\* The value that line k of a receipt is posted at.
LineValue(r) == [k \in 1 .. Len(r.lines) |->
                    round_value(accepted_quantity(r.lines[k]) * r.lines[k].cost)]
Priceless(r) == \E k \in DOMAIN r.lines :
                    r.lines[k].cost = 0 /\ accepted_quantity(r.lines[k]) > 0

\* One line that is not free.
LEMMA LineWorth ==
    ASSUME CatalogueInv, NEW r, Fits(r), ~Priceless(r), NEW k \in DOMAIN r.lines, NEW st,
           StockOK(st), NEW to, to = MovedBy(st, r, "receipt", r.lines[k]), to # Refused
    PROVE  /\ Worth(to.levels) = Worth(st.levels) + LineValue(r)[k] /\ LineValue(r)[k] \in Nat
           /\ Worth(st.levels) \in Int
<1>1. PICK line, w : line = r.lines[k] /\ w = r.warehouse
  OBVIOUS
<1>2. PICK q \in Nat, c \in Nat : q = accepted_quantity(line) /\ c = line.cost
  BY <1>1, AcceptedNat DEF Fits
<1>3. PICK p \in DOMAIN products : p = line.product
  BY <1>1 DEF Fits
<1>4. r.lines \in Seq(GoodsReceiptLineInput)
  BY PurchasingAssumption DEF Fits
<1>5. LineValue(r)[k] = round_value(q * c)
  BY <1>1, <1>2, <1>4 DEF LineValue
<1>6. CASE q <= 0
  <2>1. to = st
    BY <1>1, <1>2, <1>6 DEF MovedBy
  <2>2. q * c = 0
    BY <1>6
  <2>3. round_value(q * c) = 0
    BY <2>2 DEF round_value, HalfUp
  <2>4. Worth(st.levels) \in Int
    BY WorthInt DEF StockOK
  <2>. QED  BY <1>5, <2>1, <2>3, <2>4
<1>7. CASE ~(q <= 0)
  <2>1. to = record(st, p, w, "receipt", q, c)
    BY <1>1, <1>2, <1>3, <1>7 DEF MovedBy
  <2>2. /\ q \in Nat \ {0} /\ c \in Nat \cup {None} /\ p \in ProductRows /\ ProductsInv
        /\ w \in WarehouseRows /\ "receipt" # "reversal"
    BY <1>1, <1>7, ProductPlaced DEF CatalogueInv, Fits
  <2>3. increases_stock("receipt")
    BY DEF increases_stock
  <2>4. /\ LastMovement(to).total \in Nat /\ Worth(st.levels) \in Int
        /\ Worth(to.levels) = Worth(st.levels)
                + (IF increases_stock("receipt") THEN LastMovement(to).total
                                                 ELSE 0 - LastMovement(to).total)
        /\ increases_stock("receipt") =>
                LastMovement(to).total = round_value(q * UnitCost(st.levels[p][w], p, c))
    BY <2>1, <2>2, WorthRecorded
  <2>5. c # 0
    BY <1>1, <1>2, <1>7 DEF Priceless
  <2>6. UnitCost(st.levels[p][w], p, c) = c
    BY <2>5 DEF UnitCost, None
  <2>7. LastMovement(to).total = round_value(q * c)
    BY <2>3, <2>4, <2>6
  <2>. QED  BY <1>5, <2>3, <2>4, <2>7
<1>. QED  BY <1>6, <1>7

\* It is what the stock report adds up to.
LEMMA ReportedWorth == StockOK(stock) => StockValue = Worth(stock.levels)
<1> SUFFICES ASSUME StockOK(stock) PROVE StockValue = Worth(stock.levels)
  OBVIOUS
<1>1. /\ DOMAIN stock.levels = ProductRows
      /\ \A p \in ProductRows : DOMAIN stock.levels[p] = WarehouseRows
  BY DEF StockOK, LevelsOK
<1>2. \A p \in ProductRows : SumOf(LAMBDA w : stock.levels[p][w].value, DOMAIN stock.levels[p])
                                = ShelfWorth(stock.levels, p)
  BY <1>1 DEF SumOf, ShelfWorth
<1> DEFINE shelf(p) == SumOf(LAMBDA w : stock.levels[p][w].value, DOMAIN stock.levels[p])
<1>3. StockValue = SumFunctionOnSet([p \in ProductRows |-> shelf(p)], ProductRows)
  BY <1>1 DEF StockValue, SumOf
<1>4. [p \in ProductRows |-> shelf(p)] = [p \in ProductRows |-> ShelfWorth(stock.levels, p)]
  BY <1>2
<1>. QED  BY <1>3, <1>4 DEF Worth

\* What a line is posted at is a number, and so is their sum.
LEMMA LineInt ==
    ASSUME NEW r, r.lines \in Deliveries
    PROVE  (\A k \in DOMAIN r.lines : LineValue(r)[k] \in Nat) /\ PostedValue(r) \in Nat
<1>1. r.lines \in Seq(GoodsReceiptLineInput)
  BY PurchasingAssumption
<1>2. PICK n \in Nat : n = Len(r.lines) /\ DOMAIN r.lines = 1 .. n
  BY <1>1
<1>3. ASSUME NEW k \in 1 .. n PROVE LineValue(r)[k] \in Nat
  <2>1. PICK q \in Nat, c \in Nat : q = accepted_quantity(r.lines[k]) /\ c = r.lines[k].cost
    BY <1>2, AcceptedNat
  <2>2. q * c \in Nat
    BY <2>1
  <2>3. round_value(q * c) \in Nat
    BY <2>2, RoundNat DEF round_value
  <2>. QED  BY <1>2, <2>1, <2>3 DEF LineValue
<1>4. PICK v, S : v = LineValue(r) /\ S = 1 .. n
  OBVIOUS
<1>5. IsFiniteSet(S) /\ \A k \in S : v[k] \in Nat
  BY <1>3, <1>4, Upto
<1>6. SumFunctionOnSet(v, S) \in Nat
  BY <1>5, SumNat
<1>7. PostedValue(r) = SumFunctionOnSet(v, S)
  BY <1>2, <1>4 DEF PostedValue, SumOf, LineValue
<1>. QED  BY <1>2, <1>3, <1>6, <1>7

\* A receipt without free goods: the stock gains what the receipt posts.
LEMMA LinesWorth ==
    ASSUME CatalogueInv, StockOK(stock), NEW r, Fits(r), ~Priceless(r),
           Moved(StockAfter(r, "receipt"))
    PROVE  /\ Worth(stock'.levels) = Worth(stock.levels) + PostedValue(r)
           /\ Worth(stock.levels) \in Int
<1>1. r.lines \in Seq(GoodsReceiptLineInput)
  BY PurchasingAssumption DEF Fits
<1>2. PICK n \in Nat : n = Len(r.lines) /\ DOMAIN r.lines = 1 .. n
  BY <1>1
<1>3. PICK g : g = CHOOSE h : Steps(h, r, "receipt", n)
  OBVIOUS
<1>4. Steps(g, r, "receipt", n)
  BY <1>3, StepsExist
<1>5. StockAfter(r, "receipt") = g[n]
  BY <1>2, <1>3 DEF StockAfter, Steps
<1>6. PICK v : v = LineValue(r)
  OBVIOUS
<1>7. PICK base \in Int : base = Worth(stock.levels)
  BY WorthInt DEF StockOK
<1> DEFINE Good(k) == g[k] = Refused \/
                        /\ StockOK(g[k])
                        /\ Worth(g[k].levels) = base + SumFunctionOnSet(v, 1 .. k)
           C == {k \in 0 .. n : ~Good(k)}
<1>8. C = {}
  <2> SUFFICES ASSUME C # {} PROVE FALSE
    OBVIOUS
  <2>1. C \in SUBSET Nat
    OBVIOUS
  <2>2. PICK k \in C : \A j \in C : ~(j < k)
    BY <2>1, SmallestNumber
  <2>3. k \in 0 .. n /\ ~Good(k)
    OBVIOUS
  <2>4. CASE k = 0
    <3>1. g[0] = stock
      BY <1>4, <2>3, <2>4 DEF Steps
    <3>2. 1 .. 0 = {}
      OBVIOUS
    <3>3. SumFunctionOnSet(v, 1 .. 0) = 0
      BY <3>2, SumEmpty
    <3>4. Good(0)
      BY <1>7, <3>1, <3>3
    <3>. QED  BY <2>3, <2>4, <3>4
  <2>5. CASE k # 0
    <3>1. PICK l \in Nat : k = l + 1 /\ l < k /\ l \in 0 .. n /\ k \in Nat /\ k \in 1 .. n
      BY <2>3, <2>5
    <3>2. Good(l)
      BY <2>2, <3>1
    <3>3. g[k] = MovedBy(g[l], r, "receipt", r.lines[k])
      <4>1. k - 1 = l
        BY <3>1
      <4>. QED  BY <1>4, <2>3, <2>5, <4>1 DEF Steps
    <3>4. CASE g[k] = Refused
      BY <2>3, <3>4
    <3>5. CASE g[k] # Refused
      <4>1. PICK st, to : st = g[l] /\ to = g[k]
        BY Zenon
      <4>2. st # Refused
        BY <3>3, <3>5, <4>1, Zenon DEF MovedBy, record
      <4>3. StockOK(st) /\ Worth(st.levels) = base + SumFunctionOnSet(v, 1 .. l)
        BY <3>2, <4>1, <4>2
      <4>4. k \in DOMAIN r.lines /\ to = MovedBy(st, r, "receipt", r.lines[k]) /\ to # Refused
        BY <1>2, <3>1, <3>3, <3>5, <4>1
      <4>5. StockOK(to)
        BY <4>3, <4>4, LineMoved
      <4>6. Worth(to.levels) = Worth(st.levels) + v[k]
        BY <1>6, <4>3, <4>4, LineWorth
      <4>7. SumFunctionOnSet(v, 1 .. k) = SumFunctionOnSet(v, 1 .. l) + v[k]
            /\ SumFunctionOnSet(v, 1 .. l) \in Int /\ v[k] \in Int
        <5>1. \A j \in 1 .. n : v[j] \in Int
          BY <1>2, <1>6, LineInt DEF Fits
        <5>2. IntOn(v, 1 .. l) /\ v[k] \in Int
          BY <3>1, <5>1 DEF IntOn
        <5>3. SumFunctionOnSet(v, 1 .. k) =
                SumFunctionOnSet(v, 1 .. l) - (IF k <= l THEN v[k] ELSE 0) + v[k]
          BY <3>1, <5>2, SumRow
        <5>4. SumFunctionOnSet(v, 1 .. l) \in Int
          BY <3>1, <5>2, Upto, SumInt
        <5>. QED  BY <3>1, <5>2, <5>3, <5>4
      <4>8. Good(k)
        BY <4>1, <4>3, <4>5, <4>6, <4>7
      <4>. QED  BY <2>3, <4>8
    <3>. QED  BY <3>4, <3>5
  <2>. QED  BY <2>4, <2>5
<1>9. Good(n)
  BY <1>8
<1>10. g[n] # Refused /\ stock' = g[n]
  BY <1>5 DEF Moved
<1>11. PostedValue(r) = SumFunctionOnSet(v, 1 .. n)
  BY <1>2, <1>6 DEF PostedValue, SumOf, LineValue
<1>. QED  BY <1>7, <1>9, <1>10, <1>11

\* The balance of an account, and of the inventory accounts together.
Stands(e, a) == IF e.reversed THEN 0 ELSE e.amounts[a]
BalanceOf(T, a) == SumFunctionOnSet([e \in 1 .. Len(T) |-> Stands(T[e], a)], 1 .. Len(T))
Held(T) == SumFunctionOnSet([a \in InventoryAccounts |-> BalanceOf(T, a)], InventoryAccounts)

\* Entries and bills hold numbers.
Numbers(amounts) == \A a \in Accounts : amounts[a] \in Int
EntryRow(e) == e \in [amounts: {e.amounts}, reversed: BOOLEAN] /\ Numbers(e.amounts)
BillRow(r) ==
    /\ r \in [supplier: {r.supplier}, number: {r.number}, receipt: {r.receipt}, doc: {r.doc},
              price: {r.price}, status: {r.status}, paid: {r.paid}, entry: {r.entry}]
    /\ IsFiniteSet(DOMAIN r.doc) /\ \A k \in DOMAIN r.doc : r.price.lines[k].taxable \in Int
    /\ r.price.totals \in [taxable: Nat, cgst: Nat, sgst: Nat, igst: Nat, round_off: Int,
                           grand: Nat]
LedgerOK(T) == Table(T) /\ \A e \in 1 .. Len(T) : EntryRow(T[e])
BillRowsOK(T) == Table(T) /\ \A i \in 1 .. Len(T) : BillRow(T[i])
LedgerInv == LedgerOK(entries) /\ BillRowsOK(bills)

\* The balances of a ledger of numbers are numbers.
LEMMA BalanceInt ==
    ASSUME NEW T, LedgerOK(T), NEW a \in Accounts
    PROVE  BalanceOf(T, a) \in Int
<1>1. PICK S, g : S = 1 .. Len(T) /\ g = [e \in S |-> Stands(T[e], a)]
  OBVIOUS
<1>2. IsFiniteSet(S)
  BY <1>1, Upto DEF LedgerOK, Table
<1>3. IntOn(g, S)
  BY <1>1 DEF LedgerOK, EntryRow, Numbers, Stands, IntOn
<1>4. SumFunctionOnSet(g, S) \in Int
  BY <1>2, <1>3, SumInt
<1>. QED  BY <1>1, <1>4 DEF BalanceOf

\* So is what the inventory accounts hold together.
LEMMA HeldInt ==
    ASSUME InventoryKept, NEW T, LedgerOK(T)
    PROVE  Held(T) \in Int
<1>1. PICK S, g : S = InventoryAccounts /\ g = [a \in S |-> BalanceOf(T, a)]
  OBVIOUS
<1>2. \A a \in S : a \in Accounts
  BY <1>1 DEF Accounts
<1>3. IntOn(g, S)
  BY <1>1, <1>2, BalanceInt DEF IntOn
<1>4. IsFiniteSet(S)
  BY <1>1 DEF InventoryKept
<1>5. SumFunctionOnSet(g, S) \in Int
  BY <1>3, <1>4, SumInt
<1>. QED  BY <1>1, <1>5 DEF Held

\* What the property calls the gap.
LEMMA GapIs == StockInv /\ LedgerInv => Gap = Held(entries) - Worth(stock.levels)
<1> SUFFICES ASSUME StockInv, LedgerInv PROVE Gap = Held(entries) - Worth(stock.levels)
  OBVIOUS
<1>1. DOMAIN entries = 1 .. Len(entries)
  BY DEF LedgerInv, LedgerOK, Table
<1>2. \A a : Balance(a) = BalanceOf(entries, a)
  BY <1>1 DEF Balance, SumOf, BalanceOf, Stands
<1>3. [a \in InventoryAccounts |-> Balance(a)] = [a \in InventoryAccounts |-> BalanceOf(entries, a)]
  BY <1>2
<1>4. SumOf(Balance, InventoryAccounts) = Held(entries)
  BY <1>3 DEF SumOf, Held
<1>5. StockValue = Worth(stock.levels)
  BY ReportedWorth DEF StockInv
<1>. QED  BY <1>4, <1>5 DEF Gap

\* create_entry(): each balance moves by what the entry puts on the account.
LEMMA BalanceAdded ==
    ASSUME NEW T, NEW U, NEW i, Wrote(T, U, i), ~(i <= Len(T)), LedgerOK(T),
           NEW a \in Accounts, Stands(U[i], a) \in Int
    PROVE  BalanceOf(U, a) = BalanceOf(T, a) + Stands(U[i], a)
<1>1. PICK g, h : /\ g = [e \in 1 .. Len(T) |-> Stands(T[e], a)]
                  /\ h = [e \in 1 .. Len(U) |-> Stands(U[e], a)]
  OBVIOUS
<1>2. i \in 1 .. Len(U) /\ \A k \in 1 .. Len(T) : k \in 1 .. Len(U) /\ (k # i => U[k] = T[k])
  BY WroteRow DEF Wrote
<1>3. h[i] = Stands(U[i], a) /\ h[i] \in Int
  BY <1>1, <1>2
<1>4. IntOn(g, 1 .. Len(T))
  BY <1>1 DEF IntOn, LedgerOK, EntryRow, Numbers, Stands
<1>5. \A k \in 1 .. Len(T) : k # i => h[k] = g[k]
  BY <1>1, <1>2
<1>6. /\ SumFunctionOnSet(h, 1 .. Len(U)) =
            SumFunctionOnSet(g, 1 .. Len(T)) - (IF i <= Len(T) THEN g[i] ELSE 0) + h[i]
      /\ SumFunctionOnSet(g, 1 .. Len(T)) \in Int
  BY <1>3, <1>4, <1>5, SumWrote
<1>7. /\ BalanceOf(T, a) = SumFunctionOnSet(g, 1 .. Len(T))
      /\ BalanceOf(U, a) = SumFunctionOnSet(h, 1 .. Len(U))
  BY <1>1 DEF BalanceOf
<1>. QED  BY <1>3, <1>6, <1>7

\* So do all the inventory accounts together.
LEMMA HeldAdded ==
    ASSUME InventoryKept, NEW T, NEW U, NEW i, Wrote(T, U, i), ~(i <= Len(T)), LedgerOK(T),
           NEW amounts, Numbers(amounts), U[i] = JournalEntry(amounts)
    PROVE  Held(U) = Held(T) + SumFunctionOnSet([a \in InventoryAccounts |-> amounts[a]],
                                                InventoryAccounts)
<1>1. PICK S, f, g, h : /\ S = InventoryAccounts /\ f = [a \in S |-> BalanceOf(T, a)]
                        /\ g = [a \in S |-> amounts[a]] /\ h = [a \in S |-> BalanceOf(U, a)]
  OBVIOUS
<1>2. \A a \in S : a \in Accounts
  BY <1>1 DEF Accounts
<1>3. IsFiniteSet(S) /\ IntOn(f, S) /\ IntOn(g, S)
  BY <1>1, <1>2, BalanceInt DEF InventoryKept, IntOn, Numbers
<1>4. ASSUME NEW a \in S PROVE h[a] = f[a] + g[a]
  <2>1. Stands(U[i], a) = amounts[a] /\ amounts[a] \in Int
    BY <1>2 DEF JournalEntry, Stands, Numbers
  <2>2. BalanceOf(U, a) = BalanceOf(T, a) + Stands(U[i], a)
    BY <1>2, <2>1, BalanceAdded
  <2>. QED  BY <1>1, <2>1, <2>2
<1>5. SumFunctionOnSet(h, S) = SumFunctionOnSet(f, S) + SumFunctionOnSet(g, S)
  BY <1>3, <1>4, SumAdd
<1>. QED  BY <1>1, <1>5 DEF Held

\* A pair of which one side is an inventory account.
LEMMA PairHeld ==
    ASSUME InventoryKept, NEW own \in InventoryAccounts, NEW other, other \notin InventoryAccounts,
           NEW amount \in Int, NEW debit, NEW credit,
           (debit = own /\ credit = other) \/ (debit = other /\ credit = own),
           NEW amounts, amounts = Pair(debit, credit, amount)
    PROVE  SumFunctionOnSet([a \in InventoryAccounts |-> amounts[a]], InventoryAccounts)
            = IF debit = own THEN amount ELSE 0 - amount
<1>1. PICK S, g : S = InventoryAccounts /\ g = [a \in S |-> amounts[a]]
  OBVIOUS
<1>2. PICK x \in Int : x = IF debit = own THEN amount ELSE 0 - amount
  OBVIOUS
<1>3. \A a \in S : a \in Accounts
  BY <1>1 DEF Accounts
<1>4. \A a \in S : g[a] = (IF a = debit THEN amount ELSE 0) - (IF a = credit THEN amount ELSE 0)
  BY <1>1, <1>3 DEF Pair
<1>5. g[own] = x
  BY <1>1, <1>2, <1>4
<1>6. \A a \in S : a # own => g[a] = 0
  BY <1>1, <1>4
<1>7. IsFiniteSet(S) /\ own \in S /\ IntOn(g, S)
  BY <1>1, <1>5, <1>6 DEF InventoryKept, IntOn
<1>8. SumFunctionOnSet(g, S) = g[own] + SumFunctionOnSet(g, S \ {own})
  BY <1>7, SumTake
<1>9. SumFunctionOnSet(g, S \ {own}) = 0
  <2>1. PICK R : R = S \ {own}
    OBVIOUS
  <2>2. IsFiniteSet(R) /\ \A a \in R : g[a] = 0
    BY <1>6, <1>7, <2>1, FS_Subset
  <2>. QED  BY <2>1, <2>2, SumZero
<1>. QED  BY <1>1, <1>2, <1>5, <1>8, <1>9

----------------------------------------------------------------------------
(* Entries and bills hold numbers.                                         *)

\* create_entry().
LEMMA LedgerAdded ==
    ASSUME LedgerOK(entries), NEW amounts, Numbers(amounts), create_entry(amounts)
    PROVE  /\ LedgerOK(entries')
           /\ \E i : /\ Wrote(entries, entries', i) /\ ~(i <= Len(entries))
                     /\ entries'[i] = JournalEntry(amounts)
<1>1. PICK n \in Nat : n = Len(entries) /\ Table(entries)
  BY DEF LedgerOK, Table
<1>2. PICK e : e = JournalEntry(amounts)
  OBVIOUS
<1>3. entries' = Append(entries, e)
  BY <1>2 DEF create_entry
<1>4. Wrote(entries, entries', n + 1) /\ entries'[n + 1] = e
  BY <1>1, <1>3, WroteAppend
<1>5. PICK i : i = n + 1
  OBVIOUS
<1>6. Wrote(entries, entries', i) /\ entries'[i] = e /\ ~(i <= Len(entries))
  BY <1>1, <1>4, <1>5
<1>7. EntryRow(e)
  BY <1>2 DEF EntryRow, JournalEntry
<1>8. \A k \in 1 .. Len(entries') : EntryRow(entries'[k])
  BY <1>6, <1>7, WroteRow DEF LedgerOK
<1>9. LedgerOK(entries')
  BY <1>6, <1>8 DEF LedgerOK, Wrote
<1>. QED  BY <1>2, <1>6, <1>9

\* _post_pair().
LEMMA PairNumbers == ASSUME NEW debit, NEW credit, NEW amount \in Int
                     PROVE  Numbers(Pair(debit, credit, amount))
BY DEF Numbers, Pair

\* With or without an entry, the ledger stays one of numbers.
LEMMA PairAdded ==
    ASSUME LedgerOK(entries), NEW debit, NEW credit, NEW amount \in Int,
           _post_pair(debit, credit, amount)
    PROVE  LedgerOK(entries')
<1>1. PICK amounts : amounts = Pair(debit, credit, amount)
  OBVIOUS
<1>2. CASE amount > 0
  BY <1>1, <1>2, PairNumbers, LedgerAdded DEF _post_pair
<1>3. CASE ~(amount > 0)
  BY <1>3 DEF _post_pair
<1>. QED  BY <1>2, <1>3

\* reverse_entry().
LEMMA LedgerReversed ==
    ASSUME LedgerOK(entries), NEW i, reverse_entry(i)
    PROVE  LedgerOK(entries') /\ Len(entries') = Len(entries)
<1>1. PICK n \in Nat : n = Len(entries) /\ entries = [k \in 1 .. n |-> entries[k]]
  BY DEF LedgerOK, Table
<1>2. PICK T : T = entries'
  OBVIOUS
<1>3. T = [k \in 1 .. n |-> IF k = i THEN [entries[i] EXCEPT !.reversed = TRUE] ELSE entries[k]]
  BY <1>1, <1>2 DEF reverse_entry
<1>4. T = [k \in 1 .. n |-> T[k]]
  BY <1>3
<1>5. Len(T) = n
  BY <1>4, AppendRow
<1>6. ASSUME NEW k \in 1 .. n PROVE EntryRow(T[k])
  <2>1. EntryRow(entries[k])
    BY <1>1 DEF LedgerOK
  <2>2. T[k] = entries[k] \/ T[k] = [entries[k] EXCEPT !.reversed = TRUE]
    BY <1>3
  <2>. QED  BY <2>1, <2>2 DEF EntryRow
<1>. QED  BY <1>1, <1>2, <1>4, <1>5, <1>6 DEF LedgerOK, Table

\* What a bill posts.
LEMMA BillNumbers ==
    ASSUME NEW r, BillRow(r)
    PROVE  Numbers(BillPosting(r))
<1>1. PICK t : t = r.price.totals
  OBVIOUS
<1>2. /\ t.taxable \in Int /\ t.cgst \in Int /\ t.sgst \in Int /\ t.igst \in Int
      /\ t.round_off \in Int /\ t.grand \in Int
  BY <1>1 DEF BillRow
<1> DEFINE on(a) == {k \in DOMAIN r.doc : _line_debit_account(r.doc[k]) = a}
           lines(a) == SumOf(LAMBDA k : r.price.lines[k].taxable, on(a))
           cost(a) == IF r.receipt # 0 THEN IF a = "grni" THEN t.taxable ELSE 0 ELSE lines(a)
<1>3. ASSUME NEW a PROVE lines(a) \in Int
  <2>1. PICK S, g : S = on(a) /\ g = [k \in S |-> r.price.lines[k].taxable]
    OBVIOUS
  <2>2. S \in SUBSET DOMAIN r.doc
    BY <2>1
  <2>3. IsFiniteSet(S)
    BY <2>2, FS_Subset DEF BillRow
  <2>4. IntOn(g, S)
    BY <2>1, <2>2 DEF BillRow, IntOn
  <2>5. SumFunctionOnSet(g, S) \in Int
    BY <2>3, <2>4, SumInt
  <2>6. lines(a) = SumFunctionOnSet(g, S)
    BY <2>1 DEF SumOf
  <2>. QED  BY <2>5, <2>6
<1>4. ASSUME NEW a PROVE cost(a) \in Int
  <2> HIDE DEF lines
  <2>1. lines(a) \in Int
    BY <1>3
  <2>. QED  BY <1>2, <2>1
<1>5. BillPosting(r) = [a \in Accounts |-> cost(a) +
                            CASE a = "payable" -> -t.grand
                              [] a = "gst_input" -> t.cgst + t.sgst + t.igst
                              [] a = "rounding" -> t.round_off
                              [] OTHER -> 0]
  BY <1>1 DEF BillPosting
<1> HIDE DEF cost
<1>. QED  BY <1>2, <1>4, <1>5 DEF Numbers

\* A bill as it is made, posted, cancelled or paid.
LEMMA BillMade ==
    ASSUME NEW s, NEW number, NEW receipt, NEW doc \in Documents, NEW whole
    PROVE  BillRow(Bill(s, number, receipt, doc, whole))
<1>1. PICK r, p : r = Bill(s, number, receipt, doc, whole) /\ p = Priced(s, doc, whole)
  OBVIOUS
<1>2. r = [supplier |-> s, number |-> number, receipt |-> receipt, doc |-> doc,
           price |-> p, status |-> "draft", paid |-> 0, entry |-> 0]
  BY <1>1 DEF Bill
<1>3. /\ IsFiniteSet(DOMAIN doc) /\ \A k \in DOMAIN doc : p.lines[k].taxable \in Int
      /\ p.totals \in [taxable: Nat, cgst: Nat, sgst: Nat, igst: Nat, round_off: Int, grand: Nat]
  BY <1>1, BillPriced
<1>4. BillRow(r)
  BY <1>2, <1>3 DEF BillRow
<1>. QED  BY <1>1, <1>4

\* Status, entry and paid amount are no part of what it holds.
LEMMA BillMarked ==
    ASSUME NEW r, BillRow(r), NEW status, NEW entry, NEW paid
    PROVE  /\ BillRow([r EXCEPT !.status = status])
           /\ BillRow([r EXCEPT !.status = status, !.entry = entry])
           /\ BillRow([r EXCEPT !.paid = paid, !.status = status])
<1>1. BillRow([r EXCEPT !.status = status])
  BY DEF BillRow
<1>2. BillRow([r EXCEPT !.status = status, !.entry = entry])
  BY DEF BillRow
<1>3. BillRow([r EXCEPT !.paid = paid, !.status = status])
  BY DEF BillRow
<1>. QED  BY <1>1, <1>2, <1>3

\* A row of bills written.
LEMMA BillWritten ==
    ASSUME NEW T, BillRowsOK(T), NEW U, NEW i, Wrote(T, U, i), BillRow(U[i])
    PROVE  BillRowsOK(U)
<1>1. \A k \in 1 .. Len(U) : BillRow(U[k])
  BY WroteRow DEF BillRowsOK
<1>. QED  BY <1>1 DEF BillRowsOK, Wrote

\* Posting a bill.
LEMMA BillEntered ==
    ASSUME LedgerInv, NEW r, BillRow(r), NEW i \in Nat, i \in 1 .. Len(bills) \/ i = Len(bills) + 1,
           PostBill(r, i)
    PROVE  LedgerInv'
<1>1. Numbers(BillPosting(r)) /\ create_entry(BillPosting(r))
  BY BillNumbers DEF PostBill
<1>2. LedgerOK(entries')
  BY <1>1, LedgerAdded DEF LedgerInv
<1>3. PICK w, B : w = [r EXCEPT !.status = "posted", !.entry = Len(entries) + 1] /\ B = bills'
  OBVIOUS
<1>4. B = [k \in DOMAIN bills \cup {i} |-> IF k = i THEN w ELSE bills[k]]
  BY <1>3 DEF PostBill
<1>5. Table(bills)
  BY DEF LedgerInv, BillRowsOK
<1>6. Wrote(bills, B, i) /\ B[i] = w
  BY <1>4, <1>5, WroteAt
<1>7. BillRow(w)
  BY <1>3, BillMarked
<1>8. BillRowsOK(B)
  BY <1>6, <1>7, BillWritten DEF LedgerInv
<1>. QED  BY <1>2, <1>3, <1>8 DEF LedgerInv

\* Settling.
LEMMA BillsSettled ==
    ASSUME BillRowsOK(bills), NEW plan, Settle(plan)
    PROVE  BillRowsOK(bills')
<1>1. PICK n \in Nat : n = Len(bills) /\ DOMAIN bills = 1 .. n
  BY DEF BillRowsOK, Table
<1>2. PICK B : B = bills'
  OBVIOUS
<1>3. B = [b \in 1 .. n |-> B[b]]
  BY <1>1, <1>2 DEF Settle
<1>4. Len(B) = n
  BY <1>3, AppendRow
<1>5. ASSUME NEW b \in 1 .. n PROVE BillRow(B[b])
  <2>1. PICK paid, status :
            B[b] = bills[b] \/ B[b] = [bills[b] EXCEPT !.paid = paid, !.status = status]
    BY <1>1, <1>2 DEF Settle
  <2>2. BillRow(bills[b])
    BY <1>1 DEF BillRowsOK
  <2>3. PICK r : r = bills[b]
    OBVIOUS
  <2>4. BillRow([r EXCEPT !.paid = paid, !.status = status])
    BY <2>2, <2>3, BillMarked
  <2>. QED  BY <2>1, <2>2, <2>3, <2>4
<1>. QED  BY <1>2, <1>3, <1>4, <1>5 DEF BillRowsOK, Table

----------------------------------------------------------------------------
(* The requests.                                                           *)

\* Requests that write neither entries nor bills.
LEMMA LedgerQuiet == ASSUME LedgerInv, UNCHANGED <<entries, bills>> PROVE LedgerInv'
BY DEF LedgerInv

\* adjust(): the stock moves by the total of the movement, which is also posted.
LEMMA StockTakeWorth ==
    ASSUME StockInv, NEW p \in DOMAIN products, NEW w \in {0} \cup DOMAIN warehouses,
           NEW delta \in Deltas, NEW cost \in {None} \cup Costs, adjust(p, w, delta, cost)
    PROVE  \E total \in Nat, own \in InventoryAccounts :
              /\ Worth(stock.levels) \in Int
              /\ Worth(stock'.levels) = Worth(stock.levels)
                    + (IF delta > 0 THEN total ELSE 0 - total)
              /\ _post_pair(IF delta > 0 THEN own ELSE "cogs",
                            IF delta > 0 THEN "cogs" ELSE own, total)
<1>1. get_warehouse(w) \in WarehouseRows
  BY WarehouseFound DEF adjust, StockInv
<1>2. delta \in Int \ {0} /\ cost \in Nat \cup {None}
  BY PurchasingAssumption
<1>3. PICK q \in Nat \ {0} : q = IF delta > 0 THEN delta ELSE -delta
  BY <1>2
<1>4. PICK kind, v, to :
        /\ kind = (IF delta > 0 THEN "adjustment" ELSE "issue") /\ v = get_warehouse(w)
        /\ to = record(stock, p, v, kind, q, cost)
  OBVIOUS
<1>5. to # Refused /\ stock' = to
  BY <1>3, <1>4 DEF adjust, Moved
<1>6. kind # "reversal" /\ v \in WarehouseRows /\ (increases_stock(kind) <=> delta > 0)
  BY <1>1, <1>4 DEF increases_stock
<1>7. p \in ProductRows /\ ProductsInv /\ StockOK(stock)
  BY ProductPlaced DEF StockInv, CatalogueInv
<1>8. PICK total : total = LastMovement(to).total
  OBVIOUS
<1>9. /\ LastMovement(to).total \in Nat /\ Worth(stock.levels) \in Int
      /\ Worth(to.levels) = Worth(stock.levels)
            + (IF increases_stock(kind) THEN LastMovement(to).total
                                        ELSE 0 - LastMovement(to).total)
  BY <1>2, <1>4, <1>5, <1>6, <1>7, WorthRecorded
<1>10. PICK own : own = _inventory_account_id(p)
  OBVIOUS
<1>11. own \in InventoryAccounts
  <2>1. products[p] \in ProductCreate
    BY <1>7 DEF ProductsInv
  <2>. QED  BY <1>10, <2>1 DEF ProductCreate, _inventory_account_id
<1>12. _post_pair(IF delta > 0 THEN own ELSE "cogs", IF delta > 0 THEN "cogs" ELSE own, total)
  BY <1>3, <1>4, <1>8, <1>10 DEF adjust
<1>. QED  BY <1>5, <1>6, <1>8, <1>9, <1>11, <1>12

\* A receipt posted: its lines are a delivery, so what it posts is a number.
LEMMA ReceiptBooked ==
    ASSUME LedgerInv, NEW r, r.lines \in Deliveries, NEW i, PostReceipt(r, i)
    PROVE  LedgerOK(entries')
<1>1. PICK amount \in Int : amount = PostedValue(r)
  BY LineInt
<1>2. _post_pair("inventory", "grni", amount)
  BY <1>1 DEF PostReceipt
<1>. QED  BY <1>2, PairAdded DEF LedgerInv

\* create_bill(), post_bill() and cancel_bill().
LEMMA BillRequests ==
    ASSUME LedgerInv,
           \/ \E s, number, receipt, whole, post : \E doc \in Documents :
                create_bill(s, number, receipt, doc, whole, post)
           \/ \E b \in DOMAIN bills : post_bill(b) \/ cancel_bill(b)
    PROVE  LedgerInv'
<1>1. PICK n \in Nat : n = Len(bills) /\ DOMAIN bills = 1 .. n /\ Table(bills)
  BY DEF LedgerInv, BillRowsOK, Table
<1>2. ASSUME NEW s, NEW number, NEW receipt, NEW whole, NEW post, NEW doc \in Documents,
             create_bill(s, number, receipt, doc, whole, post)
      PROVE  LedgerInv'
  <2>1. PICK r : r = Bill(s, number, receipt, doc, whole)
    OBVIOUS
  <2>2. BillRow(r)
    BY <2>1, BillMade
  <2>3. PICK i \in Nat : i = n + 1
    OBVIOUS
  <2>4. CASE post
    <3>1. PostBill(r, i)
      BY <1>1, <1>2, <2>1, <2>3, <2>4 DEF create_bill
    <3>2. i = Len(bills) + 1
      BY <1>1, <2>3
    <3>. QED  BY <2>2, <3>1, <3>2, BillEntered
  <2>5. CASE ~post
    <3>1. PICK B : B = bills'
      OBVIOUS
    <3>2. B = Append(bills, r) /\ entries' = entries
      BY <1>2, <2>1, <2>5, <3>1 DEF create_bill
    <3>3. Wrote(bills, B, Len(bills) + 1) /\ B[Len(bills) + 1] = r
      BY <1>1, <3>2, WroteAppend
    <3>4. BillRowsOK(B)
      BY <2>2, <3>3, BillWritten DEF LedgerInv
    <3>. QED  BY <3>1, <3>2, <3>4 DEF LedgerInv
  <2>. QED  BY <2>4, <2>5
<1>3. ASSUME NEW b \in DOMAIN bills, post_bill(b) PROVE LedgerInv'
  <2>1. b \in Nat /\ b \in 1 .. Len(bills)
    BY <1>1
  <2>2. BillRow(bills[b])
    BY <2>1 DEF LedgerInv, BillRowsOK
  <2>3. PICK r : r = bills[b] /\ PostBill(r, b)
    BY <1>3 DEF post_bill
  <2>. QED  BY <2>1, <2>2, <2>3, BillEntered
<1>4. ASSUME NEW b \in DOMAIN bills, cancel_bill(b) PROVE LedgerInv'
  <2>1. LedgerOK(entries')
    BY <1>4, LedgerReversed DEF cancel_bill, LedgerInv
  <2>2. PICK r, w, B : r = bills[b] /\ w = [r EXCEPT !.status = "cancelled"] /\ B = bills'
    OBVIOUS
  <2>3. B = [bills EXCEPT ![b] = w]
    BY <1>4, <2>2 DEF cancel_bill
  <2>4. b \in 1 .. Len(bills)
    BY <1>1
  <2>5. Wrote(bills, B, b) /\ B[b] = w
    BY <1>1, <2>3, <2>4, WroteExcept
  <2>6. BillRow(w)
    BY <2>2, <2>4, BillMarked DEF LedgerInv, BillRowsOK
  <2>7. BillRowsOK(B)
    BY <2>5, <2>6, BillWritten DEF LedgerInv
  <2>. QED  BY <2>1, <2>2, <2>7 DEF LedgerInv
<1>. QED  BY <1>2, <1>3, <1>4

\* Every request.
LEMMA NextLedger == StockInv /\ LedgerInv /\ [Next]_vars => LedgerInv'
<1> SUFFICES ASSUME StockInv, LedgerInv, [Next]_vars PROVE LedgerInv'
  OBVIOUS
<1>1. CASE UNCHANGED vars
  BY <1>1, LedgerQuiet DEF vars, buying
<1>2. CASE create_supplier \/ create_product \/ create_warehouse
  BY <1>2, LedgerQuiet DEF create_supplier, create_product, create_warehouse, buying
<1>3. ASSUME NEW p, update_product(p) PROVE LedgerInv'
  BY <1>3, LedgerQuiet DEF update_product, buying
<1>4. ASSUME NEW p \in DOMAIN products, NEW w \in {0} \cup DOMAIN warehouses, NEW delta \in Deltas,
             NEW cost \in {None} \cup Costs, adjust(p, w, delta, cost)
      PROVE  LedgerInv'
  <2>1. PICK total \in Int : \E debit, credit : _post_pair(debit, credit, total)
    BY <1>4, StockTakeWorth
  <2>2. LedgerOK(entries')
    BY <2>1, PairAdded DEF LedgerInv
  <2>. QED  BY <1>4, <2>2 DEF adjust, buying, LedgerInv
<1>5. ASSUME NEW p, NEW from, NEW into, NEW quantity, transfer(p, from, into, quantity)
      PROVE  LedgerInv'
  BY <1>5, LedgerQuiet DEF transfer, buying
<1>6. ASSUME NEW s, update_supplier(s) PROVE LedgerInv'
  BY <1>6, LedgerQuiet DEF update_supplier, buying
<1>7. ASSUME NEW s, NEW doc, create_order(s, doc) PROVE LedgerInv'
  BY <1>7, LedgerQuiet DEF create_order
<1>8. ASSUME NEW s, NEW number, NEW receipt, NEW whole, NEW post, NEW doc \in Documents,
             create_bill(s, number, receipt, doc, whole, post)
      PROVE  LedgerInv'
  BY <1>8, BillRequests
<1>9. ASSUME NEW s, NEW w, NEW order, NEW link, NEW lines \in Deliveries, NEW post,
             create_receipt(s, w, order, link, lines, post)
      PROVE  LedgerInv'
  <2>1. PICK r : r = GoodsReceipt(s, get_warehouse(w), order, link, lines)
    OBVIOUS
  <2>2. PICK i : i = Len(receipts) + 1
    OBVIOUS
  <2>3. post => PostReceipt(r, i)
    BY <1>9, <2>1, <2>2 DEF create_receipt
  <2>4. post => LedgerOK(entries')
    BY <2>1, <2>3, ReceiptBooked DEF GoodsReceipt
  <2>5. ~post => entries' = entries
    BY <1>9 DEF create_receipt
  <2>6. bills' = bills
    BY <1>9 DEF create_receipt
  <2>. QED  BY <2>4, <2>5, <2>6 DEF LedgerInv
<1>10. ASSUME NEW s, NEW source, NEW amount \in Amounts, NEW plan, pay(s, source, amount, plan)
       PROVE  LedgerInv'
  <2>1. amount \in Int
    BY PurchasingAssumption
  <2>2. PICK amounts : amounts = Pair("payable", source, amount) /\ create_entry(amounts)
    BY <1>10 DEF pay
  <2>3. LedgerOK(entries')
    BY <2>1, <2>2, PairNumbers, LedgerAdded DEF LedgerInv
  <2>4. BillRowsOK(bills')
    BY <1>10, BillsSettled DEF pay, LedgerInv
  <2>. QED  BY <2>3, <2>4 DEF LedgerInv
<1>11. ASSUME NEW o, approve_order(o) \/ cancel_order(o) PROVE LedgerInv'
  BY <1>11, LedgerQuiet DEF approve_order, cancel_order
<1>12. ASSUME NEW i \in DOMAIN receipts, post_receipt(i) PROVE LedgerInv'
  <2>1. PICK r : r = receipts[i]
    OBVIOUS
  <2>2. r.lines \in Deliveries
    BY <2>1 DEF StockInv, DeliveriesInv, DeliveryOK, Table
  <2>3. PostReceipt(r, i) /\ bills' = bills
    BY <1>12, <2>1 DEF post_receipt
  <2>4. LedgerOK(entries')
    BY <2>2, <2>3, ReceiptBooked
  <2>. QED  BY <2>3, <2>4 DEF LedgerInv
<1>13. ASSUME NEW i, cancel_receipt(i) PROVE LedgerInv'
  BY <1>13, LedgerReversed DEF cancel_receipt, LedgerInv
<1>14. ASSUME NEW b \in DOMAIN bills, post_bill(b) \/ cancel_bill(b) PROVE LedgerInv'
  BY <1>14, BillRequests
<1>15. ASSUME NEW p, NEW plan, allocate(p, plan) PROVE LedgerInv'
  BY <1>15, BillsSettled DEF allocate, LedgerInv
<1>. QED  BY <1>1, <1>2, <1>3, <1>4, <1>5, <1>6, <1>7, <1>8, <1>9, <1>10, <1>11, <1>12, <1>13,
             <1>14, <1>15 DEF Next

----------------------------------------------------------------------------
(* Stock and ledger move together.                                         *)

\* A pair of an inventory account and another is posted: the inventory accounts
\* move by its amount.
LEMMA PairMoves ==
    ASSUME InventoryKept, LedgerInv, NEW own \in InventoryAccounts, NEW other,
           other \notin InventoryAccounts, NEW amount \in Int, NEW debit, NEW credit,
           (debit = own /\ credit = other) \/ (debit = other /\ credit = own),
           _post_pair(debit, credit, amount), Len(entries') > Len(entries)
    PROVE  Held(entries') = Held(entries) + IF debit = own THEN amount ELSE 0 - amount
<1>1. PICK n \in Nat : n = Len(entries)
  BY DEF LedgerInv, LedgerOK, Table
<1>2. amount > 0
  BY <1>1 DEF _post_pair
<1>3. PICK amounts : amounts = Pair(debit, credit, amount) /\ create_entry(amounts)
  BY <1>2 DEF _post_pair
<1>4. Numbers(amounts)
  BY <1>3, PairNumbers
<1>5. PICK T, U : T = entries /\ U = entries' /\ LedgerOK(T)
  BY DEF LedgerInv
<1>6. PICK i : Wrote(T, U, i) /\ ~(i <= Len(T)) /\ U[i] = JournalEntry(amounts)
  BY <1>3, <1>4, <1>5, LedgerAdded
<1>7. Held(U) = Held(T) + SumFunctionOnSet([a \in InventoryAccounts |-> amounts[a]],
                                           InventoryAccounts)
  BY <1>4, <1>5, <1>6, HeldAdded
<1>8. SumFunctionOnSet([a \in InventoryAccounts |-> amounts[a]], InventoryAccounts)
        = IF debit = own THEN amount ELSE 0 - amount
  BY <1>3, PairHeld
<1>. QED  BY <1>5, <1>7, <1>8

\* Posting a receipt without free goods.
LEMMA ReceiptMoves ==
    ASSUME InventoryKept, StockInv, LedgerInv, NEW r, Fits(r), ~Priceless(r), NEW i,
           PostReceipt(r, i), Len(entries') > Len(entries)
    PROVE  Held(entries') - Worth(stock'.levels) = Held(entries) - Worth(stock.levels)
<1>1. PICK amount \in Int : amount = PostedValue(r)
  BY LineInt DEF Fits
<1>2. Worth(stock'.levels) = Worth(stock.levels) + amount /\ Worth(stock.levels) \in Int
  BY <1>1, LinesWorth DEF PostReceipt, StockInv
<1>3. "inventory" \in InventoryAccounts /\ "grni" \notin InventoryAccounts
  BY DEF InventoryAccounts, InventoryKept
<1>4. PICK own, other : own = "inventory" /\ other = "grni"
  OBVIOUS
<1>5. _post_pair(own, other, amount)
  BY <1>1, <1>4 DEF PostReceipt
<1>6. Held(entries') = Held(entries) + IF own = own THEN amount ELSE 0 - amount
  BY <1>3, <1>4, <1>5, PairMoves
<1>7. Held(entries) \in Int
  BY HeldInt DEF LedgerInv
<1>. QED  BY <1>2, <1>6, <1>7

\* A receipt in hand is the one written, so its free goods are the ones excepted.
LEMMA ReceiptFollows ==
    ASSUME InventoryKept, StockInv, LedgerInv, NEW r, Fits(r), DeliveryOK(r), NEW i \in Nat,
           (i \in 1 .. Len(receipts) /\ r.status = "draft" /\ r = receipts[i])
                \/ i = Len(receipts) + 1,
           PostReceipt(r, i), Len(entries') > Len(entries)
    PROVE  \/ Held(entries') - Worth(stock'.levels) = Held(entries) - Worth(stock.levels)
           \/ \E j \in DOMAIN receipts' : PostedNow(j) /\ FreeGoods(j)
<1>1. CASE ~Priceless(r)
  BY <1>1, ReceiptMoves
<1>2. CASE Priceless(r)
  <2>1. Table(receipts) /\ (i \in 1 .. Len(receipts) \/ i = Len(receipts) + 1)
    BY DEF StockInv, DeliveriesInv
  <2>2. /\ Wrote(receipts, receipts', i)
        /\ \E e : receipts'[i] = [r EXCEPT !.status = "posted", !.entry = e]
    BY <2>1, PostedRow, Zenon
  <2>3. receipts'[i].status = "posted" /\ receipts'[i].lines = r.lines
    <3>1. PICK e, row : row = receipts'[i] /\ row = [r EXCEPT !.status = "posted", !.entry = e]
      BY <2>2, Zenon
    <3>2. row.status = "posted" /\ row.lines = r.lines
      BY <3>1 DEF DeliveryOK
    <3>. QED  BY <3>1, <3>2, Zenon
  <2>4. i \in DOMAIN receipts'
    BY <2>2, Zenon DEF Wrote, Table
  <2>5. i \in DOMAIN receipts => receipts[i].status = "draft"
    BY <2>1 DEF Table
  <2>6. FreeGoods(i)
    BY <1>2, <2>3 DEF Priceless, FreeGoods
  <2>7. PostedNow(i)
    BY <2>3, <2>5 DEF PostedNow
  <2>. QED  BY <2>4, <2>6, <2>7
<1>. QED  BY <1>1, <1>2

\* Every request that moves stock and posts.
LEMMA StockFollows ==
    ASSUME InventoryKept, StockInv, LedgerInv, [Next]_vars, stock' # stock,
           Len(entries') > Len(entries)
    PROVE  \/ Held(entries') - Worth(stock'.levels) = Held(entries) - Worth(stock.levels)
           \/ \E j \in DOMAIN receipts' : PostedNow(j) /\ FreeGoods(j)
<1> DEFINE Goal == \/ Held(entries') - Worth(stock'.levels) = Held(entries) - Worth(stock.levels)
                   \/ \E j \in DOMAIN receipts' : PostedNow(j) /\ FreeGoods(j)
<1>1. PICK n \in Nat : n = Len(entries)
  BY DEF LedgerInv, LedgerOK, Table
<1>2. entries' # entries
  BY <1>1
<1>3. ASSUME NEW p \in DOMAIN products, NEW w \in {0} \cup DOMAIN warehouses, NEW delta \in Deltas,
             NEW cost \in {None} \cup Costs, adjust(p, w, delta, cost)
      PROVE  Goal
  <2>1. PICK total \in Nat, own \in InventoryAccounts :
              /\ Worth(stock.levels) \in Int
              /\ Worth(stock'.levels) = Worth(stock.levels)
                    + (IF delta > 0 THEN total ELSE 0 - total)
              /\ _post_pair(IF delta > 0 THEN own ELSE "cogs",
                            IF delta > 0 THEN "cogs" ELSE own, total)
    BY <1>3, StockTakeWorth
  <2>2. PICK other, debit, credit :
            /\ other = "cogs" /\ debit = (IF delta > 0 THEN own ELSE other)
            /\ credit = IF delta > 0 THEN other ELSE own
    OBVIOUS
  <2>3. other \notin InventoryAccounts /\ other # own
    BY <2>2 DEF InventoryKept
  <2>4. _post_pair(debit, credit, total) /\ total \in Int
    BY <2>1, <2>2
  <2>5. (debit = own /\ credit = other) \/ (debit = other /\ credit = own)
    BY <2>2
  <2>6. Held(entries') = Held(entries) + IF debit = own THEN total ELSE 0 - total
    BY <2>3, <2>4, <2>5, PairMoves
  <2>7. Held(entries) \in Int
    BY HeldInt DEF LedgerInv
  <2>8. debit = own <=> delta > 0
    BY <2>2, <2>3
  <2>. QED  BY <2>1, <2>6, <2>7, <2>8
<1>4. ASSUME NEW s, NEW w \in {0} \cup DOMAIN warehouses, NEW order,
             NEW link \in {0} \cup DOMAIN orders, NEW lines \in Deliveries, NEW post,
             create_receipt(s, w, order, link, lines, post)
      PROVE  Goal
  <2>1. get_warehouse(w) \in WarehouseRows
    BY <1>4, WarehouseFound DEF create_receipt, StockInv
  <2>2. PICK v, r : v = get_warehouse(w) /\ r = GoodsReceipt(s, v, order, link, lines)
    OBVIOUS
  <2>3. DeliveryOK(r) /\ r.lines = lines /\ r.warehouse = v
    BY <2>2 DEF DeliveryOK, GoodsReceipt
  <2>4. \A k \in DOMAIN lines : lines[k].product \in DOMAIN products
    BY <1>4 DEF create_receipt
  <2>5. Fits(r)
    BY <2>1, <2>2, <2>3, <2>4 DEF Fits
  <2>6. PICK i \in Nat : i = Len(receipts) + 1
    BY DEF StockInv, DeliveriesInv, Table
  <2>7. PostReceipt(r, i)
    BY <1>2, <1>4, <2>2, <2>6 DEF create_receipt
  <2>. QED  BY <2>3, <2>5, <2>6, <2>7, ReceiptFollows
<1>5. ASSUME NEW i \in DOMAIN receipts, post_receipt(i) PROVE Goal
  <2>1. i \in 1 .. Len(receipts) /\ i \in Nat
    BY DEF StockInv, DeliveriesInv, Table
  <2>2. PICK r : r = receipts[i]
    OBVIOUS
  <2>3. DeliveryOK(r) /\ Placed(r, Len(products), Len(warehouses), Len(orders))
    BY <2>1, <2>2 DEF StockInv, DeliveriesInv
  <2>4. Len(warehouses) \in Nat /\ Len(warehouses) <= MaxRows.warehouses
    BY DEF StockInv, WarehousesInv, Table
  <2>5. Fits(r)
    BY <2>3, <2>4, PlacedFits DEF StockInv
  <2>6. PostReceipt(r, i) /\ r.status = "draft"
    BY <1>5, <2>2 DEF post_receipt
  <2>. QED  BY <2>1, <2>2, <2>3, <2>5, <2>6, ReceiptFollows
<1>6. ASSUME NEW i, cancel_receipt(i) PROVE FALSE
  <2>1. Len(entries') = Len(entries)
    BY <1>2, <1>6, LedgerReversed DEF cancel_receipt, LedgerInv
  <2>. QED  BY <1>1, <2>1
<1>7. ASSUME NEW p, NEW from, NEW into, NEW quantity, transfer(p, from, into, quantity) PROVE FALSE
  BY <1>2, <1>7 DEF transfer
<1>8. ASSUME create_supplier \/ create_product \/ create_warehouse PROVE FALSE
  BY <1>8 DEF create_supplier, create_product, create_warehouse
<1>9. ASSUME NEW p, update_product(p) \/ update_supplier(p) PROVE FALSE
  BY <1>9 DEF update_product, update_supplier
<1>10. ASSUME NEW s, NEW doc, create_order(s, doc) PROVE FALSE
  BY <1>10 DEF create_order
<1>11. ASSUME NEW o, approve_order(o) \/ cancel_order(o) PROVE FALSE
  BY <1>11 DEF approve_order, cancel_order
<1>12. ASSUME NEW s, NEW number, NEW receipt, NEW doc, NEW whole, NEW post,
              create_bill(s, number, receipt, doc, whole, post)
       PROVE  FALSE
  BY <1>12 DEF create_bill
<1>13. ASSUME NEW b, post_bill(b) \/ cancel_bill(b) PROVE FALSE
  BY <1>13 DEF post_bill, cancel_bill
<1>14. ASSUME NEW s, NEW source, NEW amount, NEW plan, pay(s, source, amount, plan) PROVE FALSE
  BY <1>14 DEF pay
<1>15. ASSUME NEW p, NEW plan, allocate(p, plan) PROVE FALSE
  BY <1>15 DEF allocate
<1>16. ~UNCHANGED vars
  BY <1>2 DEF vars
<1> HIDE DEF Goal
<1>17. Goal
  BY <1>3, <1>4, <1>5, <1>6, <1>7, <1>8, <1>9, <1>10, <1>11, <1>12, <1>13, <1>14, <1>15, <1>16
     DEF Next
<1>. QED  BY <1>17 DEF Goal

\* "value only ever changes by the amount actually posted to the ledger": whenever
\* record() moves stock and create_entry() posts in the same request, the value of
\* the stock and the balance of the inventory accounts move by the same amount,
\* whatever was rejected and however the lines round, free goods excepted.
THEOREM StockMovesWithLedger == ASSUME InventoryKept PROVE Spec => StockFollowsLedger
<1>1. Init => LedgerInv
  <2> SUFFICES ASSUME Init PROVE LedgerInv
    OBVIOUS
  <2>1. /\ Table(entries) /\ Len(entries) = 0 /\ Table(bills) /\ Len(bills) = 0
    BY DEF Init, Table
  <2>. QED  BY <2>1 DEF LedgerInv, LedgerOK, BillRowsOK
<1>2. StockInv /\ LedgerInv /\ StockInv' /\ LedgerInv' /\ [Next]_vars
        => [stock' # stock /\ Len(entries') > Len(entries)
                => Gap' = Gap \/ \E i \in DOMAIN receipts' : PostedNow(i) /\ FreeGoods(i)]_vars
  <2> SUFFICES ASSUME StockInv, LedgerInv, StockInv', LedgerInv', [Next]_vars, stock' # stock,
                      Len(entries') > Len(entries)
               PROVE  Gap' = Gap \/ \E i \in DOMAIN receipts' : PostedNow(i) /\ FreeGoods(i)
    OBVIOUS
  <2>1. Gap = Held(entries) - Worth(stock.levels)
    BY GapIs
  <2>2. (StockInv /\ LedgerInv)' => (Gap = Held(entries) - Worth(stock.levels))'
    BY GapIs, PTL
  <2>3. Gap' = Held(entries') - Worth(stock'.levels)
    BY <2>2 DEF Held, Worth, ShelfWorth, BalanceOf
  <2>4. \/ Held(entries') - Worth(stock'.levels) = Held(entries) - Worth(stock.levels)
        \/ \E j \in DOMAIN receipts' : PostedNow(j) /\ FreeGoods(j)
    BY StockFollows
  <2>. QED  BY <2>1, <2>3, <2>4
<1>. QED  BY <1>1, <1>2, NextLedger, StockInvariance, PTL DEF Spec, StockFollowsLedger
=============================================================================
