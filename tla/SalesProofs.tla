---------------------------- MODULE SalesProofs ----------------------------
(***************************************************************************)
(* Proofs about sales, for any documents, customers, accounts and amounts, *)
(* tables of any size and any number of requests.                          *)
(*                                                                         *)
(* Three tables and the ledger each keep their own running figures.  The   *)
(* induction states each figure as a sum over rows (Sums has the lemmas),  *)
(* with one term for every row, so that a request changes one term of each *)
(* sum, or, for an allocation, the terms its plan names.                   *)
(***************************************************************************)
EXTENDS Sales, Sums

----------------------------------------------------------------------------
(* Prices.                                                                 *)

PricedLine == [account: LineAccounts, taxable: Nat, cgst: Nat, sgst: Nat, igst: Nat]

\* What compute_line() and compute_document() promise of an invoice.
PriceOK(price) ==
    /\ IsFiniteSet(DOMAIN price.lines)
    /\ \A k \in DOMAIN price.lines : price.lines[k] \in PricedLine
    /\ TotalsOK(price.lines, price.totals)

\* compute_document() on the lines of a request.
LEMMA DocumentPriced ==
    ASSUME NEW doc \in Documents, NEW c, NEW whole
    PROVE  PriceOK(Priced(c, doc, whole))
<1>1. doc \in Seq(SalesLineInput)
  BY SalesAssumption
<1>2. IsFiniteSet(DOMAIN doc) /\ \A k \in DOMAIN doc : doc[k] \in SalesLineInput
  BY <1>1, Upto
<1>3. PICK lines : lines = Computed(doc, c)
  OBVIOUS
<1>4. DOMAIN lines = DOMAIN doc /\ \A k \in DOMAIN lines : lines[k] \in PricedLine
  <2>1. \A l \in SalesLineInput : LineOK(l) /\ l.account \in LineAccounts
    BY DEF SalesLineInput, LineOK
  <2>2. DOMAIN lines = DOMAIN doc
    BY <1>3 DEF Computed
  <2>3. ASSUME NEW k \in DOMAIN doc PROVE lines[k] \in PricedLine
    <3>1. PICK l \in SalesLineInput : l = doc[k]
      BY <1>2
    <3>2. PICK t : lines[k] = compute_line(l, t)
      BY <1>3, <3>1 DEF Computed
    <3>3. compute_line(l, t) \in [account: {l.account}, taxable: Nat, cgst: Nat, sgst: Nat, igst: Nat]
      BY <2>1, LinePriced
    <3>. QED  BY <2>1, <3>2, <3>3 DEF PricedLine
  <2>. QED  BY <2>2, <2>3
<1>5. \A k \in DOMAIN lines : /\ lines[k].taxable \in Nat /\ lines[k].cgst \in Nat
                              /\ lines[k].sgst \in Nat /\ lines[k].igst \in Nat
  BY <1>4 DEF PricedLine
<1>6. TotalsOK(lines, compute_document(lines, whole))
  BY <1>2, <1>4, <1>5, DocumentTotals
<1>7. Priced(c, doc, whole) = [lines |-> lines, totals |-> compute_document(lines, whole)]
  BY <1>3 DEF Priced, Totals
<1>. QED  BY <1>2, <1>4, <1>6, <1>7 DEF PriceOK

\* One amount on one account.
LEMMA SumOne ==
    ASSUME NEW T, IsFiniteSet(T), NEW x \in T, NEW n \in Int, NEW g,
           \A a \in T : g[a] = On(x, a, n)
    PROVE  SumFunctionOnSet(g, T) = n /\ IntOn(g, T)
<1>1. IntOn(g, T) /\ g[x] = n /\ \A a \in T \ {x} : g[a] = 0
  BY DEF IntOn, On
<1>2. IsFiniteSet(T \ {x})
  BY FS_Subset
<1>3. SumFunctionOnSet(g, T \ {x}) = 0
  BY <1>1, <1>2, SumZero
<1>4. SumFunctionOnSet(g, T) = g[x] + SumFunctionOnSet(g, T \ {x})
  BY <1>1, SumTake
<1>5. SumFunctionOnSet(g, T) = n
  BY <1>1, <1>3, <1>4
<1>. QED  BY <1>1, <1>5

\* No document and no receipt is booked to the receivable account itself.
ControlAccountKept == "receivable" \notin DepositAccounts \cup LineAccounts

\* _build_posting_lines(): an entry that balances, for any revenue accounts.
LEMMA PriceBalances ==
    ASSUME NEW price, PriceOK(price)
    PROVE  /\ Balanced(_build_posting_lines(price))
           /\ _build_posting_lines(price) \in [Accounts -> Int]
           /\ ControlAccountKept => _build_posting_lines(price)["receivable"] = price.totals.grand
<1>1. PICK lines, t, T, S : lines = price.lines /\ t = price.totals /\ T = Accounts
                            /\ S = DOMAIN lines
  OBVIOUS
<1>2. PICK tax, grand, off, x : /\ tax = t.cgst + t.sgst + t.igst /\ grand = t.grand
                                /\ off = t.round_off /\ x = t.taxable
  OBVIOUS
<1>3. tax \in Int /\ grand \in Int /\ off \in Int /\ x \in Int /\ grand = x + tax + off
  BY <1>1, <1>2 DEF PriceOK, TotalsOK
<1>4. IsFiniteSet(T) /\ IsFiniteSet(S)
  BY <1>1, SalesAssumption DEF PriceOK, TotalsOK
<1>5. PICK g, key : g = [k \in S |-> lines[k].taxable] /\ key = [k \in S |-> lines[k].account]
  OBVIOUS
<1>6. IntOn(g, S) /\ \A k \in S : key[k] \in T /\ key[k] \in LineAccounts /\ g[k] \in Int
  BY <1>1, <1>5 DEF PriceOK, TotalsOK, PricedLine, Accounts, IntOn
<1>7. x = SumFunctionOnSet(g, S)
  BY <1>1, <1>2, <1>5 DEF PriceOK, TotalsOK, Total, SumOf
<1>8. PICK v : v = [a \in T |-> Revenue(lines, a)]
  OBVIOUS
<1>9. ASSUME NEW a \in T
      PROVE  /\ v[a] = SumFunctionOnSet(g, {k \in S : key[k] = a})
             /\ v[a] \in Int
  <2>1. PICK V, h : V = {k \in S : key[k] = a} /\ h = [k \in V |-> lines[k].taxable]
    OBVIOUS
  <2>2. V = {k \in DOMAIN lines : lines[k].account = a} /\ V \in SUBSET S
    BY <1>1, <1>5, <2>1
  <2>3. v[a] = SumFunctionOnSet(h, V)
    BY <1>8, <2>1, <2>2 DEF Revenue, SumOf
  <2>4. IsFiniteSet(V) /\ IntOn(g, V) /\ \A k \in V : h[k] = g[k]
    BY <1>4, <1>5, <1>6, <2>1, <2>2, FS_Subset DEF IntOn
  <2>5. SumFunctionOnSet(h, V) = SumFunctionOnSet(g, V) /\ SumFunctionOnSet(g, V) \in Int
    BY <2>4, SumSame, SumInt
  <2>. QED  BY <2>1, <2>3, <2>5
<1>10. SumFunctionOnSet(v, T) = x
  <2>1. \A a \in T : v[a] = SumFunctionOnSet(g, {k \in S : key[k] = a})
    BY <1>9
  <2>2. \A k \in S : key[k] \in T
    BY <1>6
  <2>3. PICK part : part = [a \in T |-> {k \in S : key[k] = a}]
    OBVIOUS
  <2>4. \A a \in T : part[a] = {k \in S : key[k] = a}
    BY <2>3
  <2>5. \A a \in T : v[a] = SumFunctionOnSet(g, part[a])
    BY <2>1, <2>4, Zenon
  <2>6. IntOn(g, S)
    BY <1>6
  <2>7. SumFunctionOnSet(v, T) = SumFunctionOnSet(g, S)
    BY <1>4, <2>2, <2>4, <2>5, <2>6, SumByKey
  <2>. QED  BY <1>7, <2>7
<1>11. PICK r, p, q : /\ r = [a \in T |-> On("receivable", a, grand)]
                      /\ p = [a \in T |-> On("gst_output", a, tax)]
                      /\ q = [a \in T |-> On("rounding", a, off)]
  OBVIOUS
<1>12. "receivable" \in T /\ "gst_output" \in T /\ "rounding" \in T
  BY <1>1 DEF Accounts
<1>13. /\ SumFunctionOnSet(r, T) = grand /\ IntOn(r, T)
       /\ SumFunctionOnSet(p, T) = tax /\ IntOn(p, T)
       /\ SumFunctionOnSet(q, T) = off /\ IntOn(q, T)
  BY <1>3, <1>4, <1>11, <1>12, SumOne
<1>14. IntOn(v, T)
  BY <1>9 DEF IntOn
<1>15. PICK l : l = _build_posting_lines(price)
  OBVIOUS
<1>16. DOMAIN l = T /\ l = [a \in T |-> l[a]] /\ \A a \in T : l[a] = r[a] - v[a] - p[a] - q[a]
  BY <1>1, <1>2, <1>8, <1>11, <1>15 DEF _build_posting_lines
<1>17. \A a \in T : r[a] \in Int /\ v[a] \in Int /\ p[a] \in Int /\ q[a] \in Int
  BY <1>13, <1>14 DEF IntOn
<1>18. IntOn(l, T)
  BY <1>16, <1>17 DEF IntOn
<1>19. SumFunctionOnSet(l, T) = 0
  <2>1. PICK m, n : /\ m = [a \in T |-> v[a] + p[a]]
                    /\ n = [a \in T |-> m[a] + q[a]]
    OBVIOUS
  <2>2. /\ IntOn(m, T) /\ IntOn(n, T) /\ \A a \in T : m[a] = v[a] + p[a]
        /\ \A a \in T : n[a] = m[a] + q[a]
        /\ \A a \in T : r[a] = l[a] + n[a]
    BY <1>16, <1>17, <2>1 DEF IntOn
  <2>3. SumFunctionOnSet(m, T) = SumFunctionOnSet(v, T) + SumFunctionOnSet(p, T)
    BY <1>4, <1>13, <1>14, <2>2, SumAdd
  <2>4. SumFunctionOnSet(n, T) = SumFunctionOnSet(m, T) + SumFunctionOnSet(q, T)
    BY <1>4, <1>13, <2>2, SumAdd
  <2>5. SumFunctionOnSet(r, T) = SumFunctionOnSet(l, T) + SumFunctionOnSet(n, T)
    BY <1>4, <1>18, <2>2, SumAdd
  <2>6. SumFunctionOnSet(l, T) \in Int
    BY <1>4, <1>18, SumInt
  <2>. QED  BY <1>3, <1>10, <1>13, <2>3, <2>4, <2>5, <2>6
<1>20. Balanced(l)
  <2>1. [a \in Accounts |-> l[a]] = l
    BY <1>1, <1>16
  <2>2. SumFunctionOnSet([a \in Accounts |-> l[a]], Accounts) = 0
    BY <1>1, <1>19, <2>1
  <2>. QED  BY <2>2 DEF Balanced, SumOf
<1>21. l \in [Accounts -> Int]
  BY <1>1, <1>16, <1>18 DEF IntOn
<1>22. ASSUME ControlAccountKept PROVE l["receivable"] = grand
  <2>1. {k \in S : key[k] = "receivable"} = {}
    BY <1>6, <1>22 DEF ControlAccountKept
  <2>2. SumFunctionOnSet(g, {}) = 0
    BY SumEmpty
  <2>3. v["receivable"] = 0
    BY <1>9, <1>12, <2>1, <2>2
  <2>4. r["receivable"] = grand /\ p["receivable"] = 0 /\ q["receivable"] = 0
    BY <1>11, <1>12 DEF On
  <2>. QED  BY <1>3, <1>12, <1>16, <2>3, <2>4
<1>. QED  BY <1>1, <1>2, <1>15, <1>20, <1>21, <1>22

----------------------------------------------------------------------------
(* The invariant.                                                          *)

Standing == {"posted", "partially_paid", "paid"}
Tracked == {"partially_invoiced", "invoiced"}

\* What a row contributes to a sum.
Due(e) == IF e.reversed THEN 0 ELSE e.amounts["receivable"]
Open(r) == IF r.status \in Standing THEN r.price.totals.grand - r.paid ELSE 0
Billed(r, o) == IF r.status \in Standing /\ r.order = o THEN r.price.totals.grand ELSE 0

\* The sums: over a table with rows T, of what its rows contribute.
Dues(T) == SumFunctionOnSet([e \in 1 .. Len(T) |-> Due(T[e])], 1 .. Len(T))
Opens(T) == SumFunctionOnSet([i \in 1 .. Len(T) |-> Open(T[i])], 1 .. Len(T))
BilledTo(T, o) == SumFunctionOnSet([i \in 1 .. Len(T) |-> Billed(T[i], o)], 1 .. Len(T))
Unspents(T) == SumFunctionOnSet([p \in 1 .. Len(T) |-> T[p].unallocated], 1 .. Len(T))
Settled(T, i) == SumFunctionOnSet([p \in 1 .. Len(T) |-> T[p].allocations[i]], 1 .. Len(T))

\* Rows.
EntryOK(e) == e \in [amounts: [Accounts -> Int], reversed: BOOLEAN]
OrderOK(r) ==
    /\ r \in [customer: {r.customer}, grand: {r.grand}, invoiced: Nat, status: {r.status}]
    /\ r.invoiced > 0 <=> r.status \in Tracked
PaymentOK(r) ==
    /\ r \in [customer: {r.customer}, amount: Nat, unallocated: Nat,
              allocations: [1 .. MaxRows.invoices -> Nat]]
    /\ r.amount = r.unallocated + SumFunctionOnSet(r.allocations, 1 .. MaxRows.invoices)

InvoiceOK(r) ==
    /\ r \in [customer: {r.customer}, order: Nat, price: {r.price},
              status: Standing \cup {"draft", "cancelled"}, paid: Nat, entry: Nat,
              deleted: BOOLEAN]
    /\ PriceOK(r.price)
    /\ r.status = "draft" <=> r.entry = 0
    /\ r.paid <= r.price.totals.grand /\ (r.paid > 0 => r.status \in Standing)
    /\ r.status \in Standing => ~r.deleted /\ r.price.totals.grand > 0

\* The entry of an invoice that stands is the one it posted.
Entered(r, T) ==
    r.status \in Standing =>
        /\ r.entry \in 1 .. Len(T)
        /\ ControlAccountKept => T[r.entry].amounts["receivable"] = r.price.totals.grand

EntriesInv == Table(entries) /\ \A e \in 1 .. Len(entries) : EntryOK(entries[e])
OrdersInv == Table(orders) /\ \A o \in 1 .. Len(orders) : OrderOK(orders[o])
PaymentsInv == Table(payments) /\ \A p \in 1 .. Len(payments) : PaymentOK(payments[p])
InvoicesInv ==
    /\ Table(invoices) /\ Len(invoices) <= MaxRows.invoices
    /\ \A i \in 1 .. Len(invoices) :
        /\ InvoiceOK(invoices[i]) /\ Entered(invoices[i], entries)
        /\ invoices[i].order \in 0 .. Len(orders)

\* No allocation goes to an invoice that is not there.
Paid ==
    /\ \A i \in 1 .. Len(invoices) : invoices[i].paid = Settled(payments, i)
    /\ \A p \in 1 .. Len(payments), i \in 1 .. MaxRows.invoices :
            i > Len(invoices) => payments[p].allocations[i] = 0
Tracks == \A o \in 1 .. Len(orders) : orders[o].invoiced = BilledTo(invoices, o)
Agrees == ControlAccountKept => Dues(entries) = Opens(invoices) - Unspents(payments)

IInv == EntriesInv /\ OrdersInv /\ PaymentsInv /\ InvoicesInv /\ Paid /\ Tracks /\ Agrees

----------------------------------------------------------------------------
(* A row written.                                                          *)

\* An entry written: the balance moves by the difference.
LEMMA DuesWrote ==
    ASSUME NEW A, NEW B, NEW i, Wrote(A, B, i), EntryOK(B[i]),
           \A e \in 1 .. Len(A) : EntryOK(A[e])
    PROVE  /\ Dues(B) = Dues(A) - (IF i <= Len(A) THEN Due(A[i]) ELSE 0)
                + Due(B[i])
           /\ Dues(A) \in Int
<1>1. PICK g, h : /\ g = [e \in 1 .. Len(A) |-> Due(A[e])]
                  /\ h = [e \in 1 .. Len(B) |-> Due(B[e])]
  OBVIOUS
<1>2. \A e : EntryOK(e) => Due(e) \in Int
  BY DEF EntryOK, Due, Accounts
<1>3. i \in 1 .. Len(B) /\ \A k \in 1 .. Len(A) : k \in 1 .. Len(B) /\ (k # i => B[k] = A[k])
  BY WroteRow DEF Wrote
<1>4. IntOn(g, 1 .. Len(A))
  BY <1>1, <1>2 DEF IntOn
<1>5. h[i] = Due(B[i]) /\ h[i] \in Int
  BY <1>1, <1>2, <1>3
<1>6. \A k \in 1 .. Len(A) : k # i => h[k] = g[k]
  BY <1>1, <1>3
<1>7. /\ SumFunctionOnSet(h, 1 .. Len(B)) =
            SumFunctionOnSet(g, 1 .. Len(A)) - (IF i <= Len(A) THEN g[i] ELSE 0) + h[i]
      /\ SumFunctionOnSet(g, 1 .. Len(A)) \in Int
  BY <1>4, <1>5, <1>6, SumWrote
<1>8. Dues(A) = SumFunctionOnSet(g, 1 .. Len(A))
      /\ Dues(B) = SumFunctionOnSet(h, 1 .. Len(B))
  BY <1>1 DEF Dues
<1>9. i <= Len(A) => g[i] = Due(A[i])
  BY <1>1, WroteRow
<1>. QED  BY <1>5, <1>7, <1>8, <1>9

\* An invoice written: what is outstanding moves by the difference.
LEMMA OpensWrote ==
    ASSUME NEW A, NEW B, NEW i, Wrote(A, B, i), InvoiceOK(B[i]),
           \A e \in 1 .. Len(A) : InvoiceOK(A[e])
    PROVE  /\ Opens(B) = Opens(A) - (IF i <= Len(A) THEN Open(A[i]) ELSE 0)
                + Open(B[i])
           /\ Opens(A) \in Int
<1>1. PICK g, h : /\ g = [e \in 1 .. Len(A) |-> Open(A[e])]
                  /\ h = [e \in 1 .. Len(B) |-> Open(B[e])]
  OBVIOUS
<1>2. \A e : InvoiceOK(e) => Open(e) \in Int
  BY DEF InvoiceOK, Open, PriceOK, TotalsOK
<1>3. i \in 1 .. Len(B) /\ \A k \in 1 .. Len(A) : k \in 1 .. Len(B) /\ (k # i => B[k] = A[k])
  BY WroteRow DEF Wrote
<1>4. IntOn(g, 1 .. Len(A))
  BY <1>1, <1>2 DEF IntOn
<1>5. h[i] = Open(B[i]) /\ h[i] \in Int
  BY <1>1, <1>2, <1>3
<1>6. \A k \in 1 .. Len(A) : k # i => h[k] = g[k]
  BY <1>1, <1>3
<1>7. /\ SumFunctionOnSet(h, 1 .. Len(B)) =
            SumFunctionOnSet(g, 1 .. Len(A)) - (IF i <= Len(A) THEN g[i] ELSE 0) + h[i]
      /\ SumFunctionOnSet(g, 1 .. Len(A)) \in Int
  BY <1>4, <1>5, <1>6, SumWrote
<1>8. Opens(A) = SumFunctionOnSet(g, 1 .. Len(A))
      /\ Opens(B) = SumFunctionOnSet(h, 1 .. Len(B))
  BY <1>1 DEF Opens
<1>9. i <= Len(A) => g[i] = Open(A[i])
  BY <1>1, WroteRow
<1>. QED  BY <1>5, <1>7, <1>8, <1>9

\* An invoice written: so does what each order was billed.
LEMMA BilledWrote ==
    ASSUME NEW A, NEW B, NEW i, NEW o, Wrote(A, B, i), InvoiceOK(B[i]),
           \A e \in 1 .. Len(A) : InvoiceOK(A[e])
    PROVE  /\ BilledTo(B, o) = BilledTo(A, o) - (IF i <= Len(A) THEN Billed(A[i], o) ELSE 0)
                + Billed(B[i], o)
           /\ BilledTo(A, o) \in Int
<1>1. PICK g, h : /\ g = [e \in 1 .. Len(A) |-> Billed(A[e], o)]
                  /\ h = [e \in 1 .. Len(B) |-> Billed(B[e], o)]
  OBVIOUS
<1>2. \A e : InvoiceOK(e) => Billed(e, o) \in Int
  BY DEF InvoiceOK, Billed, PriceOK, TotalsOK
<1>3. i \in 1 .. Len(B) /\ \A k \in 1 .. Len(A) : k \in 1 .. Len(B) /\ (k # i => B[k] = A[k])
  BY WroteRow DEF Wrote
<1>4. IntOn(g, 1 .. Len(A))
  BY <1>1, <1>2 DEF IntOn
<1>5. h[i] = Billed(B[i], o) /\ h[i] \in Int
  BY <1>1, <1>2, <1>3
<1>6. \A k \in 1 .. Len(A) : k # i => h[k] = g[k]
  BY <1>1, <1>3
<1>7. /\ SumFunctionOnSet(h, 1 .. Len(B)) =
            SumFunctionOnSet(g, 1 .. Len(A)) - (IF i <= Len(A) THEN g[i] ELSE 0) + h[i]
      /\ SumFunctionOnSet(g, 1 .. Len(A)) \in Int
  BY <1>4, <1>5, <1>6, SumWrote
<1>8. BilledTo(A, o) = SumFunctionOnSet(g, 1 .. Len(A))
      /\ BilledTo(B, o) = SumFunctionOnSet(h, 1 .. Len(B))
  BY <1>1 DEF BilledTo
<1>9. i <= Len(A) => g[i] = Billed(A[i], o)
  BY <1>1, WroteRow
<1>. QED  BY <1>5, <1>7, <1>8, <1>9

\* A payment written: what is unallocated moves by the difference.
LEMMA UnspentsWrote ==
    ASSUME NEW A, NEW B, NEW i, Wrote(A, B, i), PaymentOK(B[i]),
           \A e \in 1 .. Len(A) : PaymentOK(A[e])
    PROVE  /\ Unspents(B) = Unspents(A) - (IF i <= Len(A) THEN A[i].unallocated ELSE 0)
                + B[i].unallocated
           /\ Unspents(A) \in Int
<1>1. PICK g, h : /\ g = [e \in 1 .. Len(A) |-> A[e].unallocated]
                  /\ h = [e \in 1 .. Len(B) |-> B[e].unallocated]
  OBVIOUS
<1>2. \A e : PaymentOK(e) => e.unallocated \in Int
  BY DEF PaymentOK
<1>3. i \in 1 .. Len(B) /\ \A k \in 1 .. Len(A) : k \in 1 .. Len(B) /\ (k # i => B[k] = A[k])
  BY WroteRow DEF Wrote
<1>4. IntOn(g, 1 .. Len(A))
  BY <1>1, <1>2 DEF IntOn
<1>5. h[i] = B[i].unallocated /\ h[i] \in Int
  BY <1>1, <1>2, <1>3
<1>6. \A k \in 1 .. Len(A) : k # i => h[k] = g[k]
  BY <1>1, <1>3
<1>7. /\ SumFunctionOnSet(h, 1 .. Len(B)) =
            SumFunctionOnSet(g, 1 .. Len(A)) - (IF i <= Len(A) THEN g[i] ELSE 0) + h[i]
      /\ SumFunctionOnSet(g, 1 .. Len(A)) \in Int
  BY <1>4, <1>5, <1>6, SumWrote
<1>8. Unspents(A) = SumFunctionOnSet(g, 1 .. Len(A))
      /\ Unspents(B) = SumFunctionOnSet(h, 1 .. Len(B))
  BY <1>1 DEF Unspents
<1>9. i <= Len(A) => g[i] = A[i].unallocated
  BY <1>1, WroteRow
<1>. QED  BY <1>5, <1>7, <1>8, <1>9

\* A payment written: so does what each invoice was paid.
LEMMA SettledWrote ==
    ASSUME NEW A, NEW B, NEW i, NEW j \in 1 .. MaxRows.invoices, Wrote(A, B, i), PaymentOK(B[i]),
           \A e \in 1 .. Len(A) : PaymentOK(A[e])
    PROVE  /\ Settled(B, j) = Settled(A, j) - (IF i <= Len(A) THEN A[i].allocations[j] ELSE 0)
                                + B[i].allocations[j]
           /\ Settled(A, j) \in Int
<1>1. PICK g, h : /\ g = [e \in 1 .. Len(A) |-> A[e].allocations[j]]
                  /\ h = [e \in 1 .. Len(B) |-> B[e].allocations[j]]
  OBVIOUS
<1>2. ASSUME NEW e, PaymentOK(e) PROVE e.allocations[j] \in Int
  <2>1. PICK M : M = 1 .. MaxRows.invoices
    OBVIOUS
  <2>2. e.allocations \in [M -> Nat] /\ j \in M
    BY <1>2, <2>1 DEF PaymentOK
  <2>. QED  BY <2>2
<1>3. i \in 1 .. Len(B) /\ \A k \in 1 .. Len(A) : k \in 1 .. Len(B) /\ (k # i => B[k] = A[k])
  BY WroteRow DEF Wrote
<1>4. IntOn(g, 1 .. Len(A))
  BY <1>1, <1>2 DEF IntOn
<1>5. h[i] = B[i].allocations[j] /\ h[i] \in Int
  BY <1>1, <1>2, <1>3
<1>6. \A k \in 1 .. Len(A) : k # i => h[k] = g[k]
  BY <1>1, <1>3
<1>7. /\ SumFunctionOnSet(h, 1 .. Len(B)) =
            SumFunctionOnSet(g, 1 .. Len(A)) - (IF i <= Len(A) THEN g[i] ELSE 0) + h[i]
      /\ SumFunctionOnSet(g, 1 .. Len(A)) \in Int
  BY <1>4, <1>5, <1>6, SumWrote
<1>8. Settled(A, j) = SumFunctionOnSet(g, 1 .. Len(A))
      /\ Settled(B, j) = SumFunctionOnSet(h, 1 .. Len(B))
  BY <1>1 DEF Settled
<1>9. i <= Len(A) => g[i] = A[i].allocations[j]
  BY <1>1, WroteRow
<1>. QED  BY <1>5, <1>7, <1>8, <1>9

----------------------------------------------------------------------------
(* Kinds of steps.                                                         *)

\* An order that is not there has no invoices.
LEMMA NothingBilled ==
    ASSUME InvoicesInv, NEW o \in Nat, o > Len(orders), Len(orders) \in Nat
    PROVE  BilledTo(invoices, o) = 0
<1>1. PICK S, g : S = 1 .. Len(invoices) /\ g = [i \in S |-> Billed(invoices[i], o)]
  OBVIOUS
<1>2. IsFiniteSet(S)
  BY <1>1, Upto DEF InvoicesInv, Table
<1>3. \A i \in S : g[i] = 0
  BY <1>1 DEF InvoicesInv, Billed
<1>4. SumFunctionOnSet(g, S) = 0
  BY <1>2, <1>3, SumZero
<1>. QED  BY <1>1, <1>4 DEF BilledTo

\* An invoice that is not there has no allocations.
LEMMA NothingSettled ==
    ASSUME PaymentsInv, Paid, NEW i \in 1 .. MaxRows.invoices, i > Len(invoices)
    PROVE  Settled(payments, i) = 0
<1>1. PICK S, g : S = 1 .. Len(payments) /\ g = [p \in S |-> payments[p].allocations[i]]
  OBVIOUS
<1>2. IsFiniteSet(S)
  BY <1>1, Upto DEF PaymentsInv, Table
<1>3. \A p \in S : g[p] = 0
  BY <1>1 DEF Paid
<1>4. SumFunctionOnSet(g, S) = 0
  BY <1>2, <1>3, SumZero
<1>. QED  BY <1>1, <1>4 DEF Settled

\* A row of orders is written, and what it says is invoiced stays.
LEMMA OrderStep ==
    ASSUME IInv, NEW o, Wrote(orders, orders', o), OrderOK(orders'[o]),
           orders'[o].invoiced = (IF o <= Len(orders) THEN orders[o].invoiced ELSE 0),
           UNCHANGED <<invoices, payments, entries>>
    PROVE  IInv'
<1>1. EntriesInv' /\ PaymentsInv' /\ Paid' /\ Agrees'
  BY DEF IInv, EntriesInv, PaymentsInv, Paid, Agrees
<1>2. PICK n \in Nat, m \in Nat : n = Len(orders) /\ m = Len(orders')
  BY WroteRow
<1>3. /\ o \in Nat /\ ((m = n /\ o \in 1 .. n) \/ (m = n + 1 /\ o = n + 1))
      /\ \A k \in 1 .. m : k = o \/ (k \in 1 .. n /\ orders'[k] = orders[k])
  BY <1>2, WroteRow
<1>4. OrdersInv'
  BY <1>2, <1>3 DEF IInv, OrdersInv, Wrote
<1>5. InvoicesInv'
  <2>1. n <= m
    BY <1>3
  <2>2. \A k \in 0 .. n : k \in 0 .. m
    BY <2>1
  <2>. QED  BY <1>2, <2>2 DEF IInv, InvoicesInv
<1>6. Tracks'
  <2> SUFFICES ASSUME NEW k \in 1 .. m PROVE orders'[k].invoiced = BilledTo(invoices, k)
    BY <1>2 DEF Tracks
  <2>1. CASE k \in 1 .. n
    <3>1. orders'[k].invoiced = orders[k].invoiced
      BY <1>2, <1>3, <2>1
    <3>. QED  BY <1>2, <2>1, <3>1 DEF IInv, Tracks
  <2>2. CASE k \notin 1 .. n
    <3>1. k = o /\ o > n /\ orders'[k].invoiced = 0
      BY <1>2, <1>3, <2>2
    <3>. QED  BY <1>2, <3>1, NothingBilled DEF IInv
  <2>. QED  BY <2>1, <2>2
<1>. QED  BY <1>1, <1>4, <1>5, <1>6 DEF IInv

\* What is unallocated is a number.
LEMMA UnspentsInt ==
    ASSUME PaymentsInv PROVE Unspents(payments) \in Int
<1>1. PICK S, g : S = 1 .. Len(payments) /\ g = [p \in S |-> payments[p].unallocated]
  OBVIOUS
<1>2. IsFiniteSet(S)
  BY <1>1, Upto DEF PaymentsInv, Table
<1>3. IntOn(g, S)
  BY <1>1 DEF PaymentsInv, PaymentOK, IntOn
<1>4. SumFunctionOnSet(g, S) \in Int
  BY <1>2, <1>3, SumInt
<1>. QED  BY <1>1, <1>4 DEF Unspents

\* A row of invoices is written, and the orders and the ledger follow.
LEMMA InvoiceStep ==
    ASSUME IInv, NEW i, Wrote(invoices, invoices', i), InvoiceOK(invoices'[i]),
           Len(invoices') <= MaxRows.invoices, Len(orders') = Len(orders),
           Entered(invoices'[i], entries'), invoices'[i].order \in 0 .. Len(orders),
           invoices'[i].paid = (IF i <= Len(invoices) THEN invoices[i].paid ELSE 0),
           \A k \in 1 .. Len(invoices) : k # i => Entered(invoices[k], entries'),
           EntriesInv', OrdersInv', payments' = payments,
           \A o \in 1 .. Len(orders) :
                orders'[o].invoiced = orders[o].invoiced + Billed(invoices'[i], o)
                    - (IF i <= Len(invoices) THEN Billed(invoices[i], o) ELSE 0),
           ControlAccountKept =>
                Dues(entries') = Dues(entries) + Open(invoices'[i])
                    - (IF i <= Len(invoices) THEN Open(invoices[i]) ELSE 0)
    PROVE  IInv'
<1>1. PICK n \in Nat, m \in Nat : n = Len(invoices) /\ m = Len(invoices')
  BY WroteRow
<1>2. /\ i \in Nat /\ ((m = n /\ i \in 1 .. n) \/ (m = n + 1 /\ i = n + 1))
      /\ \A k \in 1 .. m : k = i \/ (k \in 1 .. n /\ invoices'[k] = invoices[k])
  BY <1>1, WroteRow
<1>3. \A k \in 1 .. n : InvoiceOK(invoices[k])
  BY <1>1 DEF IInv, InvoicesInv
<1>4. PaymentsInv'
  BY DEF IInv, PaymentsInv
<1>5. InvoicesInv'
  <2>1. Table(invoices') /\ m <= MaxRows.invoices
    BY <1>1 DEF Wrote
  <2>2. ASSUME NEW k \in 1 .. m
        PROVE  /\ InvoiceOK(invoices'[k]) /\ Entered(invoices'[k], entries')
               /\ invoices'[k].order \in 0 .. Len(orders)
    <3>1. CASE k = i
      BY <3>1
    <3>2. CASE k # i
      <4>1. k \in 1 .. n /\ invoices'[k] = invoices[k]
        BY <1>2, <3>2
      <4>2. InvoiceOK(invoices[k]) /\ invoices[k].order \in 0 .. Len(orders)
        BY <1>1, <4>1 DEF IInv, InvoicesInv
      <4>3. Entered(invoices[k], entries')
        BY <1>1, <3>2, <4>1
      <4>. QED  BY <4>1, <4>2, <4>3
    <3>. QED  BY <3>1, <3>2
  <2>. QED  BY <1>1, <2>1, <2>2 DEF InvoicesInv
<1>6. Paid'
  <2>1. ASSUME NEW k \in 1 .. m PROVE invoices'[k].paid = Settled(payments, k)
    <3>1. CASE k \in 1 .. n
      <4>1. invoices'[k].paid = invoices[k].paid
        BY <1>1, <1>2, <3>1
      <4>. QED  BY <1>1, <3>1, <4>1 DEF IInv, Paid
    <3>2. CASE k \notin 1 .. n
      <4>1. k = i /\ i > n /\ invoices'[k].paid = 0
        BY <1>1, <1>2, <3>2
      <4>2. MaxRows.invoices \in Nat
        BY SalesAssumption
      <4>3. k \in 1 .. MaxRows.invoices
        BY <1>1, <4>2
      <4>. QED  BY <1>1, <4>1, <4>3, NothingSettled DEF IInv
    <3>. QED  BY <3>1, <3>2
  <2>2. n <= m
    BY <1>2
  <2>3. ASSUME NEW p \in 1 .. Len(payments), NEW k \in 1 .. MaxRows.invoices, k > m
        PROVE  payments[p].allocations[k] = 0
    <3>1. k > n
      BY <2>2, <2>3
    <3>. QED  BY <1>1, <3>1 DEF IInv, Paid
  <2>. QED  BY <1>1, <2>1, <2>3 DEF Paid
<1>7. Tracks'
  <2> SUFFICES ASSUME NEW o \in 1 .. Len(orders) PROVE orders'[o].invoiced = BilledTo(invoices', o)
    BY DEF Tracks
  <2>1. /\ BilledTo(invoices', o) = BilledTo(invoices, o)
                - (IF i <= Len(invoices) THEN Billed(invoices[i], o) ELSE 0)
                + Billed(invoices'[i], o)
        /\ BilledTo(invoices, o) \in Int
    BY <1>1, <1>3, BilledWrote
  <2>2. orders[o].invoiced = BilledTo(invoices, o)
    BY DEF IInv, Tracks
  <2>3. \A r : InvoiceOK(r) => Billed(r, o) \in Int
    BY DEF InvoiceOK, Billed, PriceOK, TotalsOK
  <2>4. i <= n => Billed(invoices[i], o) \in Int
    BY <1>2, <1>3, <2>3
  <2>5. Billed(invoices'[i], o) \in Int
    BY <2>3
  <2>. QED  BY <1>1, <2>1, <2>2, <2>4, <2>5
<1>8. Agrees'
  <2> SUFFICES ASSUME ControlAccountKept
               PROVE  Dues(entries') = Opens(invoices') - Unspents(payments)
    BY DEF Agrees
  <2>1. /\ Opens(invoices') = Opens(invoices)
                - (IF i <= Len(invoices) THEN Open(invoices[i]) ELSE 0)
                + Open(invoices'[i])
        /\ Opens(invoices) \in Int
    BY <1>1, <1>3, OpensWrote
  <2>2. Dues(entries) = Opens(invoices) - Unspents(payments)
    BY DEF IInv, Agrees
  <2>3. \A r : InvoiceOK(r) => Open(r) \in Int
    BY DEF InvoiceOK, Open, PriceOK, TotalsOK
  <2>4. i <= n => Open(invoices[i]) \in Int
    BY <1>2, <1>3, <2>3
  <2>5. Open(invoices'[i]) \in Int
    BY <2>3
  <2>6. Unspents(payments) \in Int
    BY UnspentsInt DEF IInv
  <2>. QED  BY <1>1, <2>1, <2>2, <2>4, <2>5, <2>6
<1>. QED  BY <1>4, <1>5, <1>6, <1>7, <1>8 DEF IInv

----------------------------------------------------------------------------
(* Allocations.                                                            *)

\* What a plan takes for an invoice.
Takes(plan, i) == IF i \in DOMAIN plan THEN plan[i] ELSE 0
PlanOK(plan, n) == DOMAIN plan \subseteq 1 .. n /\ \A i \in DOMAIN plan : plan[i] \in Nat

\* Spread over all invoices, a plan has the same total.
LEMMA PlanSum ==
    ASSUME NEW n \in Nat, NEW plan, PlanOK(plan, n), NEW f, \A i \in 1 .. n : f[i] = Takes(plan, i)
    PROVE  SumFunctionOnSet(f, 1 .. n) = PlanTotal(plan) /\ PlanTotal(plan) \in Nat
<1>1. PICK S, D, g : S = 1 .. n /\ D = DOMAIN plan /\ g = [i \in D |-> plan[i]]
  OBVIOUS
<1>2. D \in SUBSET S
  BY <1>1 DEF PlanOK
<1>3. IsFiniteSet(S) /\ IsFiniteSet(D)
  BY <1>1, <1>2, Upto, FS_Subset
<1>4. \A i \in D : f[i] = g[i] /\ g[i] \in Nat
  BY <1>1, <1>2 DEF PlanOK, Takes
<1>5. \A i \in S \ D : f[i] = 0
  BY <1>1 DEF Takes
<1>6. IntOn(f, S)
  BY <1>4, <1>5 DEF IntOn
<1>7. SumFunctionOnSet(f, S) = SumFunctionOnSet(f, D)
  BY <1>2, <1>3, <1>5, <1>6, SumPart
<1>8. IntOn(g, D) /\ \A i \in D : f[i] = g[i]
  BY <1>4 DEF IntOn
<1>9. SumFunctionOnSet(f, D) = SumFunctionOnSet(g, D)
  BY <1>3, <1>8, SumSame
<1>10. SumFunctionOnSet(g, D) \in Nat
  BY <1>3, <1>4, SumNat
<1>11. PlanTotal(plan) = SumFunctionOnSet(g, D)
  BY <1>1 DEF PlanTotal, SumOf
<1>. QED  BY <1>1, <1>7, <1>9, <1>10, <1>11

\* The payment's side.
LEMMA SpentRow ==
    ASSUME NEW row, PaymentOK(row), NEW plan, PlanOK(plan, MaxRows.invoices),
           PlanTotal(plan) <= row.unallocated
    PROVE  LET r == Spent(row, plan)
           IN  /\ PaymentOK(r) /\ r.unallocated = row.unallocated - PlanTotal(plan)
               /\ \A j \in 1 .. MaxRows.invoices :
                    r.allocations[j] = row.allocations[j] + Takes(plan, j)
<1>1. PICK m, S : m \in Nat /\ m = MaxRows.invoices /\ S = 1 .. m
  BY SalesAssumption
<1>2. PICK f, r, a, pt : /\ f = [i \in S |-> Takes(plan, i)] /\ r = Spent(row, plan)
                         /\ a = row.allocations /\ pt = PlanTotal(plan)
  OBVIOUS
<1>3. /\ row \in [customer: {row.customer}, amount: Nat, unallocated: Nat, allocations: [S -> Nat]]
      /\ row.amount = row.unallocated + SumFunctionOnSet(a, S)
  BY <1>1, <1>2 DEF PaymentOK
<1>4. a \in [S -> Nat]
  BY <1>2, <1>3
<1>5. \A i \in S : f[i] = Takes(plan, i) /\ f[i] \in Nat
  BY <1>1, <1>2 DEF PlanOK, Takes
<1>6. PICK b : b = [i \in S |-> a[i] + f[i]]
  OBVIOUS
<1>7. b \in [S -> Nat] /\ \A i \in S : b[i] = a[i] + f[i]
  BY <1>4, <1>5, <1>6
<1>8. b = [i \in DOMAIN a |-> IF i \in DOMAIN plan THEN a[i] + plan[i] ELSE a[i]]
  <2>1. DOMAIN a = S
    BY <1>4
  <2>2. \A i \in S : a[i] + f[i] = IF i \in DOMAIN plan THEN a[i] + plan[i] ELSE a[i]
    BY <1>4, <1>5 DEF Takes
  <2>. QED  BY <1>6, <2>1, <2>2
<1>9. r = [row EXCEPT !.unallocated = row.unallocated - pt, !.allocations = b]
  BY <1>2, <1>8 DEF Spent
<1>10. SumFunctionOnSet(f, S) = pt /\ pt \in Nat /\ pt <= row.unallocated
  BY <1>1, <1>2, <1>5, PlanSum
<1>11. IsFiniteSet(S) /\ IntOn(a, S) /\ IntOn(f, S)
  BY <1>1, <1>4, <1>5, Upto DEF IntOn
<1>12. SumFunctionOnSet(b, S) = SumFunctionOnSet(a, S) + SumFunctionOnSet(f, S)
  BY <1>7, <1>11, SumAdd
<1>13. SumFunctionOnSet(a, S) \in Int
  BY <1>11, SumInt
<1>14. /\ r.customer = row.customer /\ r.amount = row.amount /\ r.allocations = b
       /\ r.unallocated = row.unallocated - pt
       /\ r \in [customer: {r.customer}, amount: Nat, unallocated: Nat, allocations: [S -> Nat]]
  <2>1. PICK u \in Nat : u = row.unallocated - pt
    BY <1>3, <1>10
  <2>2. PICK F : F = [S -> Nat]
    OBVIOUS
  <2>3. row \in [customer: {row.customer}, amount: Nat, unallocated: Nat, allocations: F]
    BY <1>3, <2>2
  <2>4. b \in F /\ r = [row EXCEPT !.unallocated = u, !.allocations = b]
    BY <1>7, <1>9, <2>1, <2>2
  <2>5. /\ r.customer = row.customer /\ r.amount = row.amount /\ r.allocations = b
        /\ r.unallocated = u
        /\ r \in [customer: {r.customer}, amount: Nat, unallocated: Nat, allocations: F]
    BY <2>3, <2>4
  <2>. QED  BY <2>1, <2>2, <2>5
<1>15. r.amount = r.unallocated + SumFunctionOnSet(r.allocations, S)
  BY <1>3, <1>10, <1>12, <1>13, <1>14
<1>16. PaymentOK(r)
  BY <1>1, <1>14, <1>15 DEF PaymentOK
<1>17. \A j \in S : r.allocations[j] = a[j] + Takes(plan, j)
  BY <1>5, <1>7, <1>14
<1>. QED  BY <1>1, <1>2, <1>14, <1>16, <1>17

\* The invoices' side.
LEMMA SettledRows ==
    ASSUME InvoicesInv, NEW row, NEW plan, PlanOK(plan, Len(invoices)), CanApply(row, plan),
           Settle(plan)
    PROVE  /\ Table(invoices') /\ Len(invoices') = Len(invoices)
           /\ \A i \in 1 .. Len(invoices) :
                LET r == invoices'[i]
                IN  /\ InvoiceOK(r) /\ r.order = invoices[i].order
                    /\ r.paid = invoices[i].paid + Takes(plan, i)
                    /\ Open(invoices[i]) = Open(r) + Takes(plan, i)
                    /\ Open(r) \in Int /\ Takes(plan, i) \in Int
                    /\ \A o : Billed(r, o) = Billed(invoices[i], o)
                    /\ \A T : Entered(invoices[i], T) => Entered(r, T)
<1>1. PICK n \in Nat : n = Len(invoices)
  BY DEF InvoicesInv, Table
<1>2. invoices = [k \in 1 .. n |-> invoices[k]] /\ DOMAIN invoices = 1 .. n
  BY <1>1 DEF InvoicesInv, Table
<1>3. invoices' = [k \in 1 .. n |-> invoices'[k]]
  BY <1>2 DEF Settle
<1>4. Len(invoices') = n
  BY <1>3, AppendRow
<1>5. ASSUME NEW i \in 1 .. n
      PROVE  LET r == invoices'[i]
             IN  /\ InvoiceOK(r) /\ r.order = invoices[i].order
                 /\ r.paid = invoices[i].paid + Takes(plan, i)
                 /\ Open(invoices[i]) = Open(r) + Takes(plan, i)
                 /\ Open(r) \in Int /\ Takes(plan, i) \in Int
                 /\ \A o : Billed(r, o) = Billed(invoices[i], o)
                 /\ \A T : Entered(invoices[i], T) => Entered(r, T)
  <2>1. PICK r, w : r = invoices'[i] /\ w = invoices[i]
    OBVIOUS
  <2>2. InvoiceOK(w)
    BY <1>1, <2>1 DEF InvoicesInv
  <2>3. w.price.totals.grand \in Nat /\ w.paid \in Nat
    BY <2>2 DEF InvoiceOK, PriceOK, TotalsOK
  <2>4. CASE i \notin DOMAIN plan
    <3>1. r = w
      BY <1>2, <2>1, <2>4 DEF Settle
    <3>2. Takes(plan, i) = 0
      BY <2>4 DEF Takes
    <3>3. Open(w) \in Int
      BY <2>3 DEF Open
    <3>. QED  BY <2>1, <2>2, <2>3, <3>1, <3>2, <3>3
  <2>5. CASE i \in DOMAIN plan
    <3>1. PICK x \in Nat : x = plan[i]
      BY <2>5 DEF PlanOK
    <3>2. Takes(plan, i) = x
      BY <2>5, <3>1 DEF Takes
    <3>3. w.status \in Standing /\ x <= w.price.totals.grand - w.paid
      BY <2>1, <2>5, <3>1 DEF CanApply, is_posted, outstanding, grand_total, Standing
    <3>4. PICK s \in Standing : r = [w EXCEPT !.paid = w.paid + x, !.status = s]
      BY <1>2, <2>1, <2>5, <3>1 DEF Settle, Standing
    <3>5. /\ r \in [customer: {r.customer}, order: Nat, price: {r.price},
                    status: Standing \cup {"draft", "cancelled"}, paid: Nat, entry: Nat,
                    deleted: BOOLEAN]
          /\ r.status \in Standing /\ r.paid = w.paid + x /\ r.price = w.price
          /\ r.order = w.order /\ r.entry = w.entry /\ r.deleted = w.deleted
      <4>1. PICK y \in Nat : y = w.paid + x
        BY <2>3
      <4>2. PICK Status : Status = Standing \cup {"draft", "cancelled"}
        OBVIOUS
      <4>3. w \in [customer: {w.customer}, order: Nat, price: {w.price}, status: Status,
                   paid: Nat, entry: Nat, deleted: BOOLEAN]
        BY <2>2, <4>2 DEF InvoiceOK
      <4>4. s \in Status /\ r = [w EXCEPT !.paid = y, !.status = s]
        BY <3>4, <4>1, <4>2
      <4>5. r \in [customer: {r.customer}, order: Nat, price: {r.price}, status: Status,
                   paid: Nat, entry: Nat, deleted: BOOLEAN]
        BY <4>3, <4>4
      <4>6. /\ r.status = s /\ r.paid = y /\ r.price = w.price
            /\ r.order = w.order /\ r.entry = w.entry /\ r.deleted = w.deleted
        BY <4>3, <4>4
      <4>. QED  BY <4>1, <4>2, <4>5, <4>6
    <3>6. InvoiceOK(r)
      <4>1. r.status # "draft" /\ r.entry # 0
        BY <2>2, <3>3, <3>5 DEF InvoiceOK, Standing
      <4>2. r.paid <= r.price.totals.grand
        BY <2>3, <3>3, <3>5
      <4>3. PriceOK(r.price) /\ ~r.deleted /\ r.price.totals.grand > 0
        BY <2>2, <3>3, <3>5 DEF InvoiceOK
      <4>. QED  BY <3>5, <4>1, <4>2, <4>3 DEF InvoiceOK
    <3>7. Open(r) = w.price.totals.grand - (w.paid + x) /\ Open(w) = w.price.totals.grand - w.paid
      BY <3>3, <3>5 DEF Open
    <3>8. \A o : Billed(r, o) = Billed(w, o)
      BY <3>3, <3>5 DEF Billed
    <3>9. \A T : Entered(w, T) => Entered(r, T)
      BY <3>3, <3>5 DEF Entered
    <3>10. Open(w) = Open(r) + x /\ Open(r) \in Int
      BY <2>3, <3>7
    <3>. QED  BY <2>1, <3>1, <3>2, <3>5, <3>6, <3>8, <3>9, <3>10
  <2>. QED  BY <2>4, <2>5
<1>. QED  BY <1>1, <1>3, <1>4, <1>5 DEF Table

\* A plan is applied to a payment that is, or is about to be, row p.
LEMMA ApplyStep ==
    ASSUME IInv, NEW p, NEW row, NEW plan, PlanOK(plan, Len(invoices)), PaymentOK(row),
           IF p <= Len(payments) THEN row = payments[p]
           ELSE \A i \in 1 .. MaxRows.invoices : row.allocations[i] = 0,
           Wrote(payments, payments', p), payments'[p] = Spent(row, plan),
           CanApply(row, plan), Settle(plan), orders' = orders, EntriesInv',
           \A i \in 1 .. Len(invoices) : Entered(invoices[i], entries'),
           ControlAccountKept =>
                Dues(entries') = Dues(entries)
                                    - (IF p <= Len(payments) THEN 0 ELSE row.unallocated)
    PROVE  IInv'
<1>1. PICK n \in Nat : n = Len(invoices)
  BY DEF IInv, InvoicesInv, Table
<1>2. PICK m \in Nat : m = MaxRows.invoices
  BY SalesAssumption
<1>3. n <= m
  BY <1>1, <1>2 DEF IInv, InvoicesInv
<1>4. PlanOK(plan, MaxRows.invoices)
  BY <1>1, <1>2, <1>3 DEF PlanOK
<1>5. PICK new, pt : new = payments'[p] /\ pt = PlanTotal(plan)
  OBVIOUS
<1>6. pt <= row.unallocated
  BY <1>5 DEF CanApply
<1>7. /\ PaymentOK(new) /\ new.unallocated = row.unallocated - pt
      /\ \A j \in 1 .. m : new.allocations[j] = row.allocations[j] + Takes(plan, j)
  BY <1>2, <1>4, <1>5, <1>6, SpentRow
<1>8. /\ Table(invoices') /\ Len(invoices') = n
      /\ \A i \in 1 .. n :
            /\ InvoiceOK(invoices'[i]) /\ invoices'[i].order = invoices[i].order
            /\ invoices'[i].paid = invoices[i].paid + Takes(plan, i)
            /\ Open(invoices[i]) = Open(invoices'[i]) + Takes(plan, i)
            /\ Open(invoices'[i]) \in Int /\ Takes(plan, i) \in Int
            /\ \A o : Billed(invoices'[i], o) = Billed(invoices[i], o)
            /\ \A T : Entered(invoices[i], T) => Entered(invoices'[i], T)
  BY <1>1, SettledRows DEF IInv
<1>9. PICK k \in Nat : k = Len(payments)
  BY WroteRow
<1>10. PICK l \in Nat : l = Len(payments')
  BY WroteRow
<1>11. /\ p \in Nat /\ ((l = k /\ p \in 1 .. k) \/ (l = k + 1 /\ p = k + 1))
       /\ \A q \in 1 .. l : q = p \/ (q \in 1 .. k /\ payments'[q] = payments[q])
  BY <1>9, <1>10, WroteRow
<1>12. \A q \in 1 .. k : PaymentOK(payments[q])
  BY <1>9 DEF IInv, PaymentsInv
<1>13. PaymentsInv'
  <2>1. \A q \in 1 .. l : PaymentOK(payments'[q])
    BY <1>5, <1>7, <1>11, <1>12
  <2>. QED  BY <1>10, <2>1 DEF PaymentsInv, Wrote
<1>14. OrdersInv'
  BY DEF IInv, OrdersInv
<1>15. InvoicesInv'
  <2>1. \A i \in 1 .. n : invoices[i].order \in 0 .. Len(orders)
    BY <1>1 DEF IInv, InvoicesInv
  <2>2. \A i \in 1 .. n : /\ InvoiceOK(invoices'[i]) /\ Entered(invoices'[i], entries')
                          /\ invoices'[i].order \in 0 .. Len(orders)
    BY <1>1, <1>8, <2>1
  <2>. QED  BY <1>1, <1>2, <1>3, <1>8, <2>2 DEF InvoicesInv
<1>16. \A j \in 1 .. m : (IF p <= k THEN payments[p].allocations[j] ELSE 0) = row.allocations[j]
  BY <1>2, <1>9
<1>17. Paid'
  <2>1. ASSUME NEW i \in 1 .. n PROVE invoices'[i].paid = Settled(payments', i)
    <3>1. i \in 1 .. MaxRows.invoices
      BY <1>2, <1>3
    <3>2. /\ Settled(payments', i) = Settled(payments, i)
                - (IF p <= Len(payments) THEN payments[p].allocations[i] ELSE 0)
                + payments'[p].allocations[i]
          /\ Settled(payments, i) \in Int
      BY <1>5, <1>7, <1>9, <1>12, <3>1, SettledWrote
    <3>3. invoices[i].paid = Settled(payments, i)
      BY <1>1 DEF IInv, Paid
    <3>4. new.allocations[i] = row.allocations[i] + Takes(plan, i)
      BY <1>2, <1>7, <3>1
    <3>5. row.allocations[i] \in Int
      <4>1. PICK M : M = 1 .. MaxRows.invoices
        OBVIOUS
      <4>2. row.allocations \in [M -> Nat]
        BY <4>1 DEF PaymentOK
      <4>3. i \in M
        BY <3>1, <4>1
      <4>4. PICK a : a = row.allocations
        OBVIOUS
      <4>5. a \in [M -> Nat]
        BY <4>2, <4>4
      <4>6. a[i] \in Nat
        BY <4>3, <4>5
      <4>. QED  BY <4>4, <4>6
    <3>6. Settled(payments', i) = Settled(payments, i) - row.allocations[i] + new.allocations[i]
      BY <1>2, <1>5, <1>9, <1>16, <3>1, <3>2
    <3>7. Takes(plan, i) \in Int /\ invoices'[i].paid = invoices[i].paid + Takes(plan, i)
      BY <1>8
    <3>. QED  BY <3>2, <3>3, <3>4, <3>5, <3>6, <3>7
  <2>2. ASSUME NEW q \in 1 .. l, NEW j \in 1 .. m, j > n PROVE payments'[q].allocations[j] = 0
    <3>1. CASE q # p
      <4>1. q \in 1 .. k /\ payments'[q] = payments[q]
        BY <1>11, <3>1
      <4>. QED  BY <1>1, <1>2, <1>9, <2>2, <4>1 DEF IInv, Paid
    <3>2. CASE q = p
      <4>1. Takes(plan, j) = 0
        BY <1>1, <2>2 DEF Takes, PlanOK
      <4>2. row.allocations[j] = 0
        <5>1. CASE p <= k
          <6>1. p \in 1 .. k /\ row = payments[p]
            BY <1>9, <1>11, <5>1
          <6>. QED  BY <1>1, <1>2, <1>9, <2>2, <6>1 DEF IInv, Paid
        <5>2. CASE ~(p <= k)
          BY <1>2, <1>9, <5>2
        <5>. QED  BY <5>1, <5>2
      <4>3. new.allocations[j] = row.allocations[j] + Takes(plan, j)
        BY <1>7
      <4>. QED  BY <1>5, <3>2, <4>1, <4>2, <4>3
    <3>. QED  BY <3>1, <3>2
  <2>. QED  BY <1>2, <1>8, <1>10, <2>1, <2>2 DEF Paid
<1>18. Tracks'
  <2> SUFFICES ASSUME NEW o \in 1 .. Len(orders) PROVE orders[o].invoiced = BilledTo(invoices', o)
    BY DEF Tracks
  <2>1. [i \in 1 .. n |-> Billed(invoices'[i], o)] = [i \in 1 .. n |-> Billed(invoices[i], o)]
    BY <1>8
  <2>2. BilledTo(invoices', o) = BilledTo(invoices, o)
    BY <1>1, <1>8, <2>1 DEF BilledTo
  <2>. QED  BY <2>2 DEF IInv, Tracks
<1>19. Opens(invoices) = Opens(invoices') + pt /\ Opens(invoices') \in Int /\ pt \in Nat
  <2>1. PICK f, g, h, S : /\ f = [i \in 1 .. n |-> Takes(plan, i)] /\ S = 1 .. n
                          /\ g = [i \in 1 .. n |-> Open(invoices[i])]
                          /\ h = [i \in 1 .. n |-> Open(invoices'[i])]
    OBVIOUS
  <2>2. IsFiniteSet(S) /\ IntOn(h, S) /\ IntOn(f, S) /\ \A i \in S : g[i] = h[i] + f[i]
    BY <1>8, <2>1, Upto DEF IntOn
  <2>3. SumFunctionOnSet(g, S) = SumFunctionOnSet(h, S) + SumFunctionOnSet(f, S)
    BY <2>2, SumAdd
  <2>4. \A i \in 1 .. n : f[i] = Takes(plan, i)
    BY <2>1
  <2>5. SumFunctionOnSet(f, 1 .. n) = pt /\ pt \in Nat
    BY <1>1, <1>5, <2>4, PlanSum
  <2>6. SumFunctionOnSet(h, S) \in Int
    BY <2>2, SumInt
  <2>7. Opens(invoices) = SumFunctionOnSet(g, S) /\ Opens(invoices') = SumFunctionOnSet(h, S)
    BY <1>1, <1>8, <2>1 DEF Opens
  <2>. QED  BY <2>1, <2>3, <2>5, <2>6, <2>7
<1>20. Agrees'
  <2> SUFFICES ASSUME ControlAccountKept
               PROVE  Dues(entries') = Opens(invoices') - Unspents(payments')
    BY DEF Agrees
  <2>1. /\ Unspents(payments') = Unspents(payments)
                - (IF p <= Len(payments) THEN payments[p].unallocated ELSE 0)
                + payments'[p].unallocated
        /\ Unspents(payments) \in Int
    BY <1>5, <1>7, <1>9, <1>12, UnspentsWrote
  <2>2. Dues(entries) = Opens(invoices) - Unspents(payments)
    BY DEF IInv, Agrees
  <2>3. row.unallocated \in Nat
    BY DEF PaymentOK
  <2>4. CASE p <= k
    <3>1. Unspents(payments') = Unspents(payments) - pt
      BY <1>5, <1>7, <1>9, <1>19, <2>1, <2>3, <2>4
    <3>2. Dues(entries') = Dues(entries) - 0
      BY <1>9, <2>4
    <3>. QED  BY <1>19, <2>1, <2>2, <3>1, <3>2
  <2>5. CASE ~(p <= k)
    <3>1. Unspents(payments') = Unspents(payments) + row.unallocated - pt
      BY <1>5, <1>7, <1>9, <1>19, <2>1, <2>3, <2>5
    <3>2. Dues(entries') = Dues(entries) - row.unallocated
      BY <1>9, <2>5
    <3>. QED  BY <1>19, <2>1, <2>2, <2>3, <3>1, <3>2
  <2>. QED  BY <2>4, <2>5
<1>. QED  BY <1>13, <1>14, <1>15, <1>17, <1>18, <1>20 DEF IInv

----------------------------------------------------------------------------
(* The ledger.                                                             *)

\* create_entry().
LEMMA EntryAdded ==
    ASSUME IInv, NEW amounts \in [Accounts -> Int], create_entry(amounts)
    PROVE  /\ EntriesInv' /\ Len(entries') = Len(entries) + 1
           /\ Len(entries) + 1 \in Nat \ {0}
           /\ entries'[Len(entries) + 1].amounts = amounts
           /\ Dues(entries') = Dues(entries) + amounts["receivable"]
           /\ \A r : Entered(r, entries) => Entered(r, entries')
           /\ amounts["receivable"] \in Int /\ Dues(entries) \in Int
<1>1. PICK n \in Nat : n = Len(entries)
  BY DEF IInv, EntriesInv, Table
<1>2. PICK e, r : e = JournalEntry(amounts) /\ r = entries'
  OBVIOUS
<1>3. Table(entries) /\ r = Append(entries, e)
  BY <1>2 DEF IInv, EntriesInv, create_entry
<1>4. Wrote(entries, r, n + 1) /\ r[n + 1] = e /\ Len(r) = n + 1
  BY <1>1, <1>3, WroteAppend
<1>5. EntryOK(e) /\ e.amounts = amounts /\ Due(e) = amounts["receivable"]
  BY <1>2 DEF JournalEntry, EntryOK, Due
<1>6. \A k \in 1 .. n : EntryOK(entries[k])
  BY <1>1 DEF IInv, EntriesInv
<1>7. \A k \in 1 .. n : r[k] = entries[k]
  BY <1>1, <1>4 DEF Wrote
<1>8. EntriesInv'
  <2>1. \A k \in 1 .. n + 1 : EntryOK(r[k])
    BY <1>4, <1>5, <1>6, <1>7
  <2>. QED  BY <1>2, <1>4, <2>1 DEF EntriesInv, Wrote
<1>9. /\ Dues(r) = Dues(entries) - (IF n + 1 <= Len(entries) THEN Due(entries[n + 1]) ELSE 0)
                    + Due(r[n + 1])
      /\ Dues(entries) \in Int
  BY <1>1, <1>4, <1>5, <1>6, DuesWrote
<1>10. amounts["receivable"] \in Int
  BY DEF Accounts
<1>11. Dues(r) = Dues(entries) + amounts["receivable"]
  BY <1>1, <1>4, <1>5, <1>9, <1>10
<1>12. ASSUME NEW w, Entered(w, entries) PROVE Entered(w, r)
  <2>1. \A k \in 1 .. n : k \in 1 .. n + 1
    OBVIOUS
  <2>. QED  BY <1>1, <1>4, <1>7, <1>12, <2>1 DEF Entered
<1>. QED  BY <1>1, <1>2, <1>4, <1>5, <1>8, <1>9, <1>10, <1>11, <1>12

\* reverse_entry().
LEMMA EntryReversed ==
    ASSUME IInv, NEW e \in 1 .. Len(entries), reverse_entry(e)
    PROVE  /\ EntriesInv' /\ Dues(entries') = Dues(entries) - entries[e].amounts["receivable"]
           /\ \A r : Entered(r, entries) => Entered(r, entries')
           /\ entries[e].amounts["receivable"] \in Int /\ Dues(entries) \in Int
<1>1. PICK n \in Nat : n = Len(entries)
  BY DEF IInv, EntriesInv, Table
<1>2. PICK row, T : row = [entries[e] EXCEPT !.reversed = TRUE] /\ T = entries'
  OBVIOUS
<1>3. EntryOK(entries[e]) /\ ~entries[e].reversed
  BY DEF IInv, EntriesInv, reverse_entry
<1>4. EntryOK(row) /\ row.reversed /\ row.amounts = entries[e].amounts
  BY <1>2, <1>3 DEF EntryOK
<1>5. T = [entries EXCEPT ![e] = row]
  BY <1>2 DEF reverse_entry
<1>6. Wrote(entries, T, e) /\ T[e] = row /\ Len(T) = n
  <2>1. Table(entries)
    BY DEF IInv, EntriesInv
  <2>2. entries' = [entries EXCEPT ![e] = row]
    BY <1>2, <1>5
  <2>3. Wrote(entries, entries', e)
    BY <2>1, <2>2, WroteExcept
  <2>4. Len(entries') = Len(entries)
    BY <2>1, <2>2, WroteExcept
  <2>5. entries'[e] = row
    BY <2>1, <2>2, WroteExcept
  <2>. QED  BY <1>1, <1>2, <2>3, <2>4, <2>5
<1>7. \A k \in 1 .. n : EntryOK(entries[k])
  BY <1>1 DEF IInv, EntriesInv
<1>8. \A k \in 1 .. n : EntryOK(T[k]) /\ T[k].amounts = entries[k].amounts
  BY <1>1, <1>4, <1>6, <1>7 DEF Wrote
<1>9. EntriesInv'
  BY <1>2, <1>6, <1>8 DEF EntriesInv, Wrote
<1>10. /\ Dues(T) = Dues(entries) - (IF e <= Len(entries) THEN Due(entries[e]) ELSE 0) + Due(T[e])
       /\ Dues(entries) \in Int
  BY <1>1, <1>4, <1>6, <1>7, DuesWrote
<1>11. /\ Due(T[e]) = 0 /\ Due(entries[e]) = entries[e].amounts["receivable"]
       /\ entries[e].amounts["receivable"] \in Int
  BY <1>3, <1>4, <1>6 DEF Due, EntryOK, Accounts
<1>12. Dues(T) = Dues(entries) - entries[e].amounts["receivable"]
  BY <1>10, <1>11
<1>13. ASSUME NEW w, Entered(w, entries) PROVE Entered(w, T)
  BY <1>1, <1>6, <1>8, <1>13 DEF Entered
<1>. QED  BY <1>2, <1>9, <1>10, <1>11, <1>12, <1>13

\* _post_receipt().
LEMMA ReceiptPosted ==
    ASSUME NEW account \in DepositAccounts, NEW amount \in Nat
    PROVE  /\ _post_receipt(account, amount) \in [Accounts -> Int]
           /\ ControlAccountKept => _post_receipt(account, amount)["receivable"] = 0 - amount
BY DEF _post_receipt, On, Accounts, ControlAccountKept

----------------------------------------------------------------------------
(* Requests about orders.                                                  *)

\* create_order() and from_quotation().
LEMMA NewOrder ==
    ASSUME IInv, NEW c, NEW doc, NEW whole, orders' = Append(orders, SalesOrder(c, doc, whole)),
           UNCHANGED <<invoices, payments, entries>>
    PROVE  IInv'
<1>1. PICK r : r = SalesOrder(c, doc, whole)
  OBVIOUS
<1>2. OrderOK(r) /\ r.invoiced = 0
  BY <1>1 DEF SalesOrder, OrderOK, Tracked
<1>3. Table(orders) /\ orders' = Append(orders, r)
  BY <1>1 DEF IInv, OrdersInv
<1>4. PICK n \in Nat : n = Len(orders)
  BY <1>3 DEF Table
<1>5. Wrote(orders, orders', n + 1) /\ orders'[n + 1] = r
  BY <1>3, <1>4, WroteAppend
<1>6. ~(n + 1 <= n)
  OBVIOUS
<1>7. orders'[n + 1].invoiced = (IF n + 1 <= Len(orders) THEN orders[n + 1].invoiced ELSE 0)
  BY <1>2, <1>4, <1>5, <1>6
<1>. QED  BY <1>2, <1>5, <1>7, OrderStep

\* confirm_order() and cancel_order(), of an order with nothing invoiced.
LEMMA ChangedOrder ==
    ASSUME IInv, NEW o \in DOMAIN orders, confirm_order(o) \/ cancel_order(o)
    PROVE  IInv'
<1>1. PICK n \in Nat : n = Len(orders)
  BY DEF IInv, OrdersInv, Table
<1>2. Table(orders) /\ o \in 1 .. n /\ OrderOK(orders[o])
  BY <1>1 DEF IInv, OrdersInv, Table
<1>3. orders[o].invoiced = 0
  BY <1>2 DEF OrderOK, confirm_order, cancel_order, Tracked
<1>4. PICK s, r : s \in {"confirmed", "cancelled"} /\ r = [orders[o] EXCEPT !.status = s]
                  /\ orders' = [orders EXCEPT ![o] = r]
  <2>1. PICK s : s \in {"confirmed", "cancelled"} /\ orders' = [orders EXCEPT ![o].status = s]
    BY DEF confirm_order, cancel_order
  <2>. QED  BY <2>1
<1>5. OrderOK(r) /\ r.invoiced = 0
  BY <1>2, <1>3, <1>4 DEF OrderOK, Tracked
<1>6. Wrote(orders, orders', o) /\ orders'[o] = r
  BY <1>1, <1>2, <1>4, WroteExcept
<1>7. orders'[o].invoiced = (IF o <= Len(orders) THEN orders[o].invoiced ELSE 0)
  BY <1>3, <1>5, <1>6
<1>8. UNCHANGED <<invoices, payments, entries>>
  BY DEF confirm_order, cancel_order
<1>. QED  BY <1>5, <1>6, <1>7, <1>8, OrderStep

----------------------------------------------------------------------------
(* Requests about invoices.                                                *)

\* The balance is a number.
LEMMA DuesInt ==
    ASSUME EntriesInv PROVE Dues(entries) \in Int
<1>1. PICK S, g : S = 1 .. Len(entries) /\ g = [e \in S |-> Due(entries[e])]
  OBVIOUS
<1>2. IsFiniteSet(S)
  BY <1>1, Upto DEF EntriesInv, Table
<1>3. IntOn(g, S)
  BY <1>1 DEF EntriesInv, EntryOK, Due, Accounts, IntOn
<1>4. SumFunctionOnSet(g, S) \in Int
  BY <1>2, <1>3, SumInt
<1>. QED  BY <1>1, <1>4 DEF Dues

\* A draft is written where there was nothing or a draft.
LEMMA DraftWritten ==
    ASSUME IInv, NEW i, Wrote(invoices, invoices', i), InvoiceOK(invoices'[i]),
           invoices'[i].status = "draft", invoices'[i].order \in 0 .. Len(orders),
           Len(invoices') <= MaxRows.invoices,
           i <= Len(invoices) => invoices[i].status = "draft",
           UNCHANGED <<orders, payments, entries>>
    PROVE  IInv'
<1>1. i \in Nat /\ (i <= Len(invoices) => i \in 1 .. Len(invoices))
  BY WroteRow
<1>2. i <= Len(invoices) => InvoiceOK(invoices[i])
  BY <1>1 DEF IInv, InvoicesInv
<1>3. ASSUME NEW r, InvoiceOK(r), r.status = "draft"
      PROVE  /\ r.paid = 0 /\ Open(r) = 0 /\ \A o : Billed(r, o) = 0
             /\ \A T : Entered(r, T)
  <2>1. r.status \notin Standing
    BY <1>3 DEF Standing
  <2>2. r.paid = 0
    BY <1>3, <2>1 DEF InvoiceOK
  <2>. QED  BY <2>1, <2>2 DEF Open, Billed, Entered
<1>4. invoices'[i].paid = (IF i <= Len(invoices) THEN invoices[i].paid ELSE 0)
  BY <1>2, <1>3
<1>5. \A k \in 1 .. Len(invoices) : k # i => Entered(invoices[k], entries')
  BY DEF IInv, InvoicesInv
<1>6. Entered(invoices'[i], entries')
  BY <1>3
<1>7. EntriesInv' /\ OrdersInv'
  BY DEF IInv, EntriesInv, OrdersInv
<1>8. ASSUME NEW o \in 1 .. Len(orders)
      PROVE  orders'[o].invoiced = orders[o].invoiced + Billed(invoices'[i], o)
                    - (IF i <= Len(invoices) THEN Billed(invoices[i], o) ELSE 0)
  <2>1. Billed(invoices'[i], o) = 0
    BY <1>3
  <2>2. (IF i <= Len(invoices) THEN Billed(invoices[i], o) ELSE 0) = 0
    BY <1>2, <1>3
  <2>3. orders[o].invoiced \in Nat
    BY DEF IInv, OrdersInv, OrderOK
  <2>. QED  BY <2>1, <2>2, <2>3
<1>9. Dues(entries') = Dues(entries) + Open(invoices'[i])
                    - (IF i <= Len(invoices) THEN Open(invoices[i]) ELSE 0)
  <2>1. Open(invoices'[i]) = 0
    BY <1>3
  <2>2. (IF i <= Len(invoices) THEN Open(invoices[i]) ELSE 0) = 0
    BY <1>2, <1>3
  <2>3. Dues(entries) \in Int
    BY DuesInt DEF IInv
  <2>. QED  BY <2>1, <2>2, <2>3
<1>10. Len(orders') = Len(orders) /\ payments' = payments
  OBVIOUS
<1>. QED  BY <1>4, <1>5, <1>6, <1>7, <1>8, <1>9, <1>10, InvoiceStep

\* The row that a request makes, or makes anew.
LEMMA NewInvoiceRow ==
    ASSUME NEW c, NEW o \in Nat, NEW doc \in Documents, NEW whole
    PROVE  LET r == Invoice(c, o, doc, whole)
           IN  InvoiceOK(r) /\ r.status = "draft" /\ r.order = o /\ r.paid = 0 /\ ~r.deleted
<1>1. PICK r, price : r = Invoice(c, o, doc, whole) /\ price = Priced(c, doc, whole)
  OBVIOUS
<1>2. r = [customer |-> c, order |-> o, price |-> price, status |-> "draft",
           paid |-> 0, entry |-> 0, deleted |-> FALSE]
  BY <1>1 DEF Invoice
<1>3. PriceOK(price)
  BY <1>1, DocumentPriced
<1>4. price.totals.grand \in Nat
  BY <1>3 DEF PriceOK, TotalsOK
<1>. QED  BY <1>1, <1>2, <1>3, <1>4 DEF InvoiceOK, Standing

\* create_invoice() without posting.
LEMMA DraftCreated ==
    ASSUME IInv, NEW c, NEW o \in 0 .. Len(orders), NEW doc \in Documents, NEW whole,
           Room(invoices, "invoices"), invoices' = Append(invoices, Invoice(c, o, doc, whole)),
           UNCHANGED <<orders, payments, entries>>
    PROVE  IInv'
<1>1. PICK r, n : r = Invoice(c, o, doc, whole) /\ n = Len(invoices)
  OBVIOUS
<1>2. InvoiceOK(r) /\ r.status = "draft" /\ r.order = o
  BY <1>1, NewInvoiceRow
<1>3. Table(invoices) /\ n \in Nat
  BY <1>1 DEF IInv, InvoicesInv, Table
<1>4. invoices' = Append(invoices, r)
  BY <1>1
<1>5. Wrote(invoices, invoices', n + 1) /\ invoices'[n + 1] = r /\ Len(invoices') = n + 1
  BY <1>1, <1>3, <1>4, WroteAppend
<1>6. MaxRows.invoices \in Nat
  BY SalesAssumption
<1>7. Len(invoices') <= MaxRows.invoices
  BY <1>1, <1>3, <1>5, <1>6 DEF Room
<1>8. n + 1 <= Len(invoices) => invoices[n + 1].status = "draft"
  BY <1>1, <1>3
<1>. QED  BY <1>2, <1>5, <1>7, <1>8, DraftWritten

\* A draft overwritten.
LEMMA DraftChanged ==
    ASSUME IInv, NEW i \in 1 .. Len(invoices), invoices[i].status = "draft", NEW r, InvoiceOK(r),
           r.status = "draft", r.order = invoices[i].order,
           invoices' = [invoices EXCEPT ![i] = r], UNCHANGED <<orders, payments, entries>>
    PROVE  IInv'
<1>1. Table(invoices) /\ Len(invoices) <= MaxRows.invoices
  BY DEF IInv, InvoicesInv
<1>2. Wrote(invoices, invoices', i)
  BY <1>1, WroteExcept
<1>3. Len(invoices') = Len(invoices)
  BY <1>1, WroteExcept
<1>4. invoices'[i] = r
  BY <1>1, WroteExcept
<1>5. r.order \in 0 .. Len(orders)
  BY DEF IInv, InvoicesInv
<1>. QED  BY <1>1, <1>2, <1>3, <1>4, <1>5, DraftWritten

\* update_invoice().
LEMMA InvoiceUpdated ==
    ASSUME IInv, NEW i \in DOMAIN invoices, NEW doc \in Documents, NEW whole,
           update_invoice(i, doc, whole)
    PROVE  IInv'
<1>1. PICK w, price : w = invoices[i] /\ price =
        Priced(w.customer, doc, whole \/ w.price.totals.round_off # 0)
  OBVIOUS
<1>2. i \in 1 .. Len(invoices) /\ InvoiceOK(w)
  BY <1>1 DEF IInv, InvoicesInv, Table
<1>3. w.status = "draft"
  BY <1>1 DEF update_invoice, is_editable
<1>4. PICK r : r = [w EXCEPT !.price = price]
  OBVIOUS
<1>5. invoices' = [invoices EXCEPT ![i] = r]
  BY <1>1, <1>4 DEF update_invoice
<1>6. PriceOK(price)
  BY <1>1, DocumentPriced
<1>7. InvoiceOK(r) /\ r.status = "draft" /\ r.order = w.order
  <2>1. price.totals.grand \in Nat
    BY <1>6 DEF PriceOK, TotalsOK
  <2>2. w.status \notin Standing /\ w.paid = 0 /\ w.entry = 0
    BY <1>2, <1>3 DEF InvoiceOK, Standing
  <2>3. /\ r \in [customer: {r.customer}, order: Nat, price: {r.price},
                  status: Standing \cup {"draft", "cancelled"}, paid: Nat, entry: Nat,
                  deleted: BOOLEAN]
        /\ r.price = price /\ r.status = w.status /\ r.paid = w.paid /\ r.entry = w.entry
        /\ r.order = w.order
    BY <1>2, <1>4 DEF InvoiceOK
  <2>. QED  BY <1>3, <1>6, <2>1, <2>2, <2>3 DEF InvoiceOK
<1>8. UNCHANGED <<orders, payments, entries>>
  BY DEF update_invoice
<1>. QED  BY <1>1, <1>2, <1>3, <1>5, <1>7, <1>8, DraftChanged

\* delete_draft().
LEMMA DraftDeleted ==
    ASSUME IInv, NEW i \in DOMAIN invoices, delete_draft(i)
    PROVE  IInv'
<1>1. PICK w, r : w = invoices[i] /\ r = [w EXCEPT !.deleted = TRUE]
  OBVIOUS
<1>2. i \in 1 .. Len(invoices) /\ InvoiceOK(w)
  BY <1>1 DEF IInv, InvoicesInv, Table
<1>3. w.status = "draft" /\ w.status \notin Standing
  BY <1>1 DEF delete_draft, Standing
<1>4. invoices' = [invoices EXCEPT ![i] = r]
  BY <1>1 DEF delete_draft
<1>5. InvoiceOK(r) /\ r.status = "draft" /\ r.order = w.order
  <2>1. /\ r \in [customer: {r.customer}, order: Nat, price: {r.price},
                  status: Standing \cup {"draft", "cancelled"}, paid: Nat, entry: Nat,
                  deleted: BOOLEAN]
        /\ r.price = w.price /\ r.status = w.status /\ r.paid = w.paid /\ r.entry = w.entry
        /\ r.order = w.order
    BY <1>1, <1>2 DEF InvoiceOK
  <2>. QED  BY <1>2, <1>3, <2>1 DEF InvoiceOK
<1>6. UNCHANGED <<orders, payments, entries>>
  BY DEF delete_draft
<1>. QED  BY <1>1, <1>2, <1>3, <1>4, <1>5, <1>6, DraftChanged

\* An order's invoiced total and status are written together.
LEMMA OrderRolled ==
    ASSUME OrdersInv, NEW o \in 1 .. Len(orders), NEW x \in Nat, NEW s,
           x > 0 <=> s \in Tracked,
           orders' = [orders EXCEPT ![o].invoiced = x, ![o].status = s]
    PROVE  /\ OrdersInv' /\ Len(orders') = Len(orders) /\ orders'[o].invoiced = x
           /\ \A k \in 1 .. Len(orders) : k # o => orders'[k] = orders[k]
<1>1. PICK r : r = [orders[o] EXCEPT !.invoiced = x, !.status = s]
  OBVIOUS
<1>2. Table(orders) /\ OrderOK(orders[o])
  BY DEF OrdersInv
<1>3. orders' = [orders EXCEPT ![o] = r]
  BY <1>1, <1>2 DEF Table
<1>4. OrderOK(r) /\ r.invoiced = x
  BY <1>1, <1>2 DEF OrderOK
<1>5. Wrote(orders, orders', o)
  BY <1>2, <1>3, WroteExcept
<1>6. Len(orders') = Len(orders)
  BY <1>2, <1>3, WroteExcept
<1>7. orders'[o] = r
  <2>1. o \in DOMAIN orders
    BY <1>2 DEF Table
  <2>. QED  BY <1>3, <2>1
<1>8. \A k \in 1 .. Len(orders) : k # o => orders'[k] = orders[k]
  BY <1>5 DEF Wrote
<1>9. OrdersInv'
  BY <1>4, <1>5, <1>6, <1>7, <1>8 DEF OrdersInv, Wrote
<1>. QED  BY <1>4, <1>6, <1>7, <1>8, <1>9

\* Posting adds an invoice's total to its order.
LEMMA RolledForward ==
    ASSUME OrdersInv, NEW o \in 0 .. Len(orders), NEW grand \in Nat, grand > 0,
           orders' = IF o = 0 THEN orders ELSE RollForward(o, grand)
    PROVE  /\ OrdersInv' /\ Len(orders') = Len(orders)
           /\ \A k \in 1 .. Len(orders) :
                orders'[k].invoiced = orders[k].invoiced + (IF k = o THEN grand ELSE 0)
<1>1. \A k \in 1 .. Len(orders) : orders[k].invoiced \in Nat
  BY DEF OrdersInv, OrderOK
<1>2. CASE o = 0
  BY <1>1, <1>2 DEF OrdersInv
<1>3. CASE o # 0
  <2>1. o \in 1 .. Len(orders)
    BY <1>3
  <2>2. PICK x \in Nat : x = orders[o].invoiced + grand
    BY <1>1, <2>1
  <2>3. PICK s : s \in Tracked /\ orders' = [orders EXCEPT ![o].invoiced = x, ![o].status = s]
    BY <1>3, <2>2 DEF RollForward, Tracked
  <2>4. x > 0
    BY <1>1, <2>1, <2>2
  <2>5. x > 0 <=> s \in Tracked
    BY <2>3, <2>4
  <2>6. /\ OrdersInv' /\ Len(orders') = Len(orders) /\ orders'[o].invoiced = x
        /\ \A k \in 1 .. Len(orders) : k # o => orders'[k] = orders[k]
    BY <2>1, <2>3, <2>5, OrderRolled
  <2>. QED  BY <1>1, <2>2, <2>6
<1>. QED  BY <1>2, <1>3

\* Cancelling takes it off again; max(0, ...) never comes to bear.
LEMMA RolledBack ==
    ASSUME OrdersInv, NEW o \in 0 .. Len(orders), NEW grand \in Nat,
           o # 0 => grand <= orders[o].invoiced,
           orders' = IF o = 0 THEN orders ELSE RollBack(o, grand)
    PROVE  /\ OrdersInv' /\ Len(orders') = Len(orders)
           /\ \A k \in 1 .. Len(orders) :
                orders'[k].invoiced = orders[k].invoiced - (IF k = o THEN grand ELSE 0)
<1>1. \A k \in 1 .. Len(orders) : orders[k].invoiced \in Nat
  BY DEF OrdersInv, OrderOK
<1>2. CASE o = 0
  BY <1>1, <1>2 DEF OrdersInv
<1>3. CASE o # 0
  <2>1. o \in 1 .. Len(orders)
    BY <1>3
  <2>2. PICK x \in Nat : x = orders[o].invoiced - grand
    BY <1>1, <1>3, <2>1
  <2>3. x = IF orders[o].invoiced > grand THEN orders[o].invoiced - grand ELSE 0
    BY <1>1, <1>3, <2>1, <2>2
  <2>4. PICK s : /\ s = IF x = 0 THEN "confirmed" ELSE "partially_invoiced"
                 /\ orders' = [orders EXCEPT ![o].invoiced = x, ![o].status = s]
    BY <1>3, <2>3 DEF RollBack
  <2>5. x > 0 <=> s \in Tracked
    BY <2>4 DEF Tracked
  <2>6. orders' = [orders EXCEPT ![o].invoiced = x, ![o].status = s]
    BY <2>4
  <2>7. /\ OrdersInv' /\ Len(orders') = Len(orders) /\ orders'[o].invoiced = x
        /\ \A k \in 1 .. Len(orders) : k # o => orders'[k] = orders[k]
    BY <2>1, <2>5, <2>6, OrderRolled
  <2>. QED  BY <1>1, <2>2, <2>7
<1>. QED  BY <1>2, <1>3

\* Posting: a draft that is there, or one that the request has just made.
LEMMA InvoicePosted ==
    ASSUME IInv, NEW row, InvoiceOK(row), row.status = "draft", ~row.deleted,
           row.order \in 0 .. Len(orders), NEW i \in Nat,
           (i \in 1 .. Len(invoices) /\ row = invoices[i])
                \/ (i = Len(invoices) + 1 /\ i <= MaxRows.invoices),
           Posted(row, i), payments' = payments
    PROVE  IInv'
<1>1. PICK n \in Nat : n = Len(invoices)
  BY DEF IInv, InvoicesInv, Table
<1>2. PICK m \in Nat : m = IF i <= n THEN n ELSE i
  OBVIOUS
<1>3. /\ Table(invoices) /\ DOMAIN invoices = 1 .. n /\ n <= MaxRows.invoices
      /\ MaxRows.invoices \in Nat
  BY <1>1, SalesAssumption DEF IInv, InvoicesInv, Table
<1>4. (m = n /\ i \in 1 .. n /\ row = invoices[i])
            \/ (m = n + 1 /\ i = m /\ m <= MaxRows.invoices)
  BY <1>1, <1>2
<1>5. DOMAIN invoices \cup {i} = 1 .. m
  BY <1>3, <1>4
<1>6. PICK l \in Nat : l = Len(entries) + 1
  BY DEF IInv, EntriesInv, Table
<1>7. PICK r : r = [row EXCEPT !.status = "posted", !.entry = l]
  OBVIOUS
<1>8. invoices' = [k \in 1 .. m |-> IF k = i THEN r ELSE invoices[k]]
  BY <1>5, <1>6, <1>7 DEF Posted
<1>9. invoices' = [k \in 1 .. m |-> invoices'[k]]
  BY <1>8
<1>10. Len(invoices') = m
  BY <1>9, AppendRow
<1>11. invoices'[i] = r /\ \A k \in 1 .. n : k # i => invoices'[k] = invoices[k]
  BY <1>4, <1>8
<1>12. Wrote(invoices, invoices', i)
  <2>1. Table(invoices')
    BY <1>9, <1>10 DEF Table
  <2>2. i \in 1 .. m /\ (m = n \/ (m = n + 1 /\ i = m))
    BY <1>4
  <2>. QED  BY <1>1, <1>3, <1>10, <1>11, <2>1, <2>2 DEF Wrote
<1>13. Len(invoices') <= MaxRows.invoices
  BY <1>3, <1>4, <1>10
<1>14. PICK grand \in Nat : grand = row.price.totals.grand
  BY DEF InvoiceOK, PriceOK, TotalsOK
<1>15. grand > 0
  BY <1>14 DEF Posted
<1>16. /\ r \in [customer: {r.customer}, order: Nat, price: {r.price},
                 status: Standing \cup {"draft", "cancelled"}, paid: Nat, entry: Nat,
                 deleted: BOOLEAN]
       /\ r.status = "posted" /\ r.entry = l /\ r.price = row.price /\ r.paid = row.paid
       /\ r.order = row.order /\ r.deleted = row.deleted
  BY <1>6, <1>7 DEF InvoiceOK, Standing
<1>17. row.paid = 0 /\ row.status \notin Standing /\ r.status \in Standing
  BY <1>16 DEF InvoiceOK, Standing
<1>18. InvoiceOK(r)
  <2>1. l # 0
    BY <1>6 DEF IInv, EntriesInv, Table
  <2>. QED  BY <1>14, <1>15, <1>16, <1>17, <2>1 DEF InvoiceOK
<1>19. PICK amounts \in [Accounts -> Int] :
         /\ amounts = _build_posting_lines(row.price)
         /\ ControlAccountKept => amounts["receivable"] = grand
  BY <1>14, PriceBalances DEF InvoiceOK
<1>20. create_entry(amounts)
  BY <1>19 DEF Posted
<1>21. /\ EntriesInv' /\ Len(entries') = l /\ entries'[l].amounts = amounts
       /\ Dues(entries') = Dues(entries) + amounts["receivable"]
       /\ \A w : Entered(w, entries) => Entered(w, entries')
       /\ Dues(entries) \in Int
  BY <1>6, <1>20, EntryAdded
<1>22. Entered(r, entries')
  <2>1. l \in 1 .. l
    BY <1>6 DEF IInv, EntriesInv, Table
  <2>. QED  BY <1>14, <1>16, <1>19, <1>21, <2>1 DEF Entered
<1>23. \A k \in 1 .. Len(invoices) : k # i => Entered(invoices[k], entries')
  BY <1>21 DEF IInv, InvoicesInv
<1>24. (IF i <= Len(invoices) THEN invoices[i].paid ELSE 0) = 0
  BY <1>1, <1>4, <1>17
<1>25. (IF i <= Len(invoices) THEN Open(invoices[i]) ELSE 0) = 0
  BY <1>1, <1>4, <1>17 DEF Open
<1>26. Open(r) = grand
  BY <1>14, <1>16, <1>17 DEF Open
<1>27. /\ OrdersInv' /\ Len(orders') = Len(orders)
       /\ \A k \in 1 .. Len(orders) :
            orders'[k].invoiced = orders[k].invoiced + (IF k = row.order THEN grand ELSE 0)
  <2>1. orders' = IF row.order = 0 THEN orders ELSE RollForward(row.order, grand)
    BY <1>14 DEF Posted
  <2>. QED  BY <1>15, <2>1, RolledForward DEF IInv
<1>28. ASSUME NEW o \in 1 .. Len(orders)
       PROVE  orders'[o].invoiced = orders[o].invoiced + Billed(invoices'[i], o)
                    - (IF i <= Len(invoices) THEN Billed(invoices[i], o) ELSE 0)
  <2>1. (IF i <= Len(invoices) THEN Billed(invoices[i], o) ELSE 0) = 0
    BY <1>1, <1>4, <1>17 DEF Billed
  <2>2. Billed(r, o) = IF o = row.order THEN grand ELSE 0
    BY <1>14, <1>16, <1>17 DEF Billed
  <2>3. orders[o].invoiced \in Nat
    BY DEF IInv, OrdersInv, OrderOK
  <2>. QED  BY <1>11, <1>27, <2>1, <2>2, <2>3
<1>29. ControlAccountKept =>
         Dues(entries') = Dues(entries) + Open(invoices'[i])
                    - (IF i <= Len(invoices) THEN Open(invoices[i]) ELSE 0)
  BY <1>11, <1>19, <1>21, <1>25, <1>26
<1>30. /\ InvoiceOK(invoices'[i]) /\ Entered(invoices'[i], entries')
       /\ invoices'[i].order \in 0 .. Len(orders)
       /\ invoices'[i].paid = (IF i <= Len(invoices) THEN invoices[i].paid ELSE 0)
  BY <1>11, <1>16, <1>17, <1>18, <1>22, <1>24
<1>. QED  BY <1>12, <1>13, <1>21, <1>23, <1>27, <1>28, <1>29, <1>30, InvoiceStep

\* cancel_invoice().
LEMMA InvoiceCancelled ==
    ASSUME IInv, NEW i \in DOMAIN invoices, cancel_invoice(i)
    PROVE  IInv'
<1>1. PICK w, r : w = invoices[i] /\ r = [w EXCEPT !.status = "cancelled"]
  OBVIOUS
<1>2. /\ i \in 1 .. Len(invoices) /\ InvoiceOK(w) /\ Entered(w, entries)
      /\ w.order \in 0 .. Len(orders)
  BY <1>1 DEF IInv, InvoicesInv, Table
<1>3. PICK grand \in Nat : grand = w.price.totals.grand
  BY <1>2 DEF InvoiceOK, PriceOK, TotalsOK
<1>4. /\ r \in [customer: {r.customer}, order: Nat, price: {r.price},
                status: Standing \cup {"draft", "cancelled"}, paid: Nat, entry: Nat,
                deleted: BOOLEAN]
      /\ r.status = "cancelled" /\ r.entry = w.entry /\ r.price = w.price /\ r.paid = w.paid
      /\ r.order = w.order
  BY <1>1, <1>2 DEF InvoiceOK
<1>5. w.paid = 0 /\ w.status # "cancelled" /\ r.entry # 0
  BY <1>1, <1>4 DEF cancel_invoice, Unpaid, posted_has_journal_entry
<1>6. w.status \in Standing /\ r.status \notin Standing
  BY <1>2, <1>4, <1>5 DEF InvoiceOK, Standing
<1>7. InvoiceOK(r)
  BY <1>2, <1>3, <1>4, <1>5, <1>6 DEF InvoiceOK
<1>8. PICK e : e = w.entry
  OBVIOUS
<1>9. e \in 1 .. Len(entries)
  BY <1>2, <1>6, <1>8 DEF Entered
<1>10. ControlAccountKept => entries[e].amounts["receivable"] = grand
  BY <1>2, <1>3, <1>6, <1>8 DEF Entered
<1>11. reverse_entry(e)
  BY <1>1, <1>4, <1>8 DEF cancel_invoice
<1>12. /\ EntriesInv' /\ Dues(entries') = Dues(entries) - entries[e].amounts["receivable"]
       /\ \A v : Entered(v, entries) => Entered(v, entries')
       /\ Dues(entries) \in Int
  BY <1>9, <1>11, EntryReversed
<1>13. invoices' = [invoices EXCEPT ![i] = r] /\ payments' = payments
  BY <1>1 DEF cancel_invoice
<1>14. Table(invoices) /\ Len(invoices) <= MaxRows.invoices
  BY DEF IInv, InvoicesInv
<1>15. Wrote(invoices, invoices', i)
  BY <1>2, <1>13, <1>14, WroteExcept
<1>16. Len(invoices') = Len(invoices)
  BY <1>2, <1>13, <1>14, WroteExcept
<1>17. invoices'[i] = r
  BY <1>13
<1>18. Entered(r, entries')
  BY <1>6 DEF Entered
<1>19. \A k \in 1 .. Len(invoices) : k # i => Entered(invoices[k], entries')
  BY <1>12 DEF IInv, InvoicesInv
<1>20. Open(w) = grand /\ Open(r) = 0
  BY <1>3, <1>5, <1>6 DEF Open
<1>21. \A o : Billed(w, o) = (IF o = w.order THEN grand ELSE 0) /\ Billed(r, o) = 0
  BY <1>3, <1>6 DEF Billed
<1>22. w.order # 0 => grand <= orders[w.order].invoiced
  <2> SUFFICES ASSUME w.order # 0 PROVE grand <= orders[w.order].invoiced
    OBVIOUS
  <2>1. PICK o : o = w.order
    OBVIOUS
  <2>2. o \in 1 .. Len(orders)
    BY <1>2, <2>1
  <2>3. PICK S, g : S = 1 .. Len(invoices) /\ g = [k \in S |-> Billed(invoices[k], o)]
    OBVIOUS
  <2>4. IsFiniteSet(S) /\ i \in S
    BY <1>2, <2>3, Upto DEF IInv, InvoicesInv, Table
  <2>5. \A k \in S : g[k] \in Nat
    BY <2>3 DEF IInv, InvoicesInv, InvoiceOK, PriceOK, TotalsOK, Billed
  <2>6. g[i] = grand
    BY <1>1, <1>21, <2>1, <2>3, <2>4
  <2>7. IntOn(g, S)
    BY <2>5 DEF IntOn
  <2>8. SumFunctionOnSet(g, S) = g[i] + SumFunctionOnSet(g, S \ {i})
    BY <2>4, <2>7, SumTake
  <2>9. PICK V : V = S \ {i}
    OBVIOUS
  <2>10. IsFiniteSet(V) /\ \A k \in V : g[k] \in Nat
    BY <2>4, <2>5, <2>9, FS_Subset
  <2>11. SumFunctionOnSet(g, V) \in Nat
    BY <2>10, SumNat
  <2>12. orders[o].invoiced = SumFunctionOnSet(g, S)
    BY <2>2, <2>3 DEF IInv, Tracks, BilledTo
  <2>13. orders[o].invoiced = grand + SumFunctionOnSet(g, V)
    BY <2>6, <2>8, <2>9, <2>12, Zenon
  <2>. QED  BY <2>1, <2>11, <2>13
<1>23. /\ OrdersInv' /\ Len(orders') = Len(orders)
       /\ \A k \in 1 .. Len(orders) :
            orders'[k].invoiced = orders[k].invoiced - (IF k = w.order THEN grand ELSE 0)
  <2>1. PICK o \in 0 .. Len(orders) : o = w.order
    BY <1>2
  <2>2. orders' = IF o = 0 THEN orders ELSE RollBack(o, grand)
    BY <1>1, <1>3, <1>4, <2>1 DEF cancel_invoice, grand_total
  <2>3. o # 0 => grand <= orders[o].invoiced
    BY <1>22, <2>1
  <2>4. OrdersInv
    BY DEF IInv
  <2>5. /\ OrdersInv' /\ Len(orders') = Len(orders)
        /\ \A k \in 1 .. Len(orders) :
            orders'[k].invoiced = orders[k].invoiced - (IF k = o THEN grand ELSE 0)
    BY <2>2, <2>3, <2>4, RolledBack
  <2>. QED  BY <2>1, <2>5
<1>24. ASSUME NEW o \in 1 .. Len(orders)
       PROVE  orders'[o].invoiced = orders[o].invoiced + Billed(invoices'[i], o)
                    - (IF i <= Len(invoices) THEN Billed(invoices[i], o) ELSE 0)
  <2>1. orders[o].invoiced \in Nat
    BY DEF IInv, OrdersInv, OrderOK
  <2>2. i <= Len(invoices)
    BY <1>2
  <2>. QED  BY <1>1, <1>17, <1>21, <1>23, <2>1, <2>2
<1>25. ControlAccountKept =>
         Dues(entries') = Dues(entries) + Open(invoices'[i])
                    - (IF i <= Len(invoices) THEN Open(invoices[i]) ELSE 0)
  <2>1. i <= Len(invoices)
    BY <1>2
  <2>. QED  BY <1>1, <1>10, <1>12, <1>17, <1>20, <2>1
<1>26. /\ InvoiceOK(invoices'[i]) /\ Entered(invoices'[i], entries')
       /\ invoices'[i].order \in 0 .. Len(orders)
       /\ invoices'[i].paid = (IF i <= Len(invoices) THEN invoices[i].paid ELSE 0)
  BY <1>1, <1>2, <1>4, <1>7, <1>17, <1>18
<1>. QED  BY <1>12, <1>13, <1>14, <1>15, <1>16, <1>19, <1>23, <1>24, <1>25, <1>26, InvoiceStep

\* create_invoice(), posting or not.
LEMMA InvoiceCreated ==
    ASSUME IInv, NEW c, NEW o \in {0} \cup DOMAIN orders, NEW doc \in Documents, NEW whole,
           NEW post, create_invoice(c, o, doc, whole, post)
    PROVE  IInv'
<1>1. PICK row : row = Invoice(c, o, doc, whole)
  OBVIOUS
<1>2. o \in 0 .. Len(orders) /\ o \in Nat
  BY DEF IInv, OrdersInv, Table
<1>3. InvoiceOK(row) /\ row.status = "draft" /\ row.order = o /\ ~row.deleted
  BY <1>1, <1>2, NewInvoiceRow
<1>4. Room(invoices, "invoices") /\ payments' = payments
  BY DEF create_invoice
<1>5. CASE post
  <2>1. PICK i \in Nat : i = Len(invoices) + 1
    BY DEF IInv, InvoicesInv, Table
  <2>2. Posted(row, i)
    BY <1>1, <1>5, <2>1 DEF create_invoice
  <2>3. i <= MaxRows.invoices
    <3>1. Len(invoices) \in Nat /\ MaxRows.invoices \in Nat
      BY SalesAssumption DEF IInv, InvoicesInv, Table
    <3>. QED  BY <1>4, <2>1, <3>1 DEF Room
  <2>. QED  BY <1>2, <1>3, <1>4, <2>1, <2>2, <2>3, InvoicePosted
<1>6. CASE ~post
  <2>1. /\ invoices' = Append(invoices, Invoice(c, o, doc, whole))
        /\ UNCHANGED <<orders, payments, entries>>
    BY <1>6 DEF create_invoice
  <2>. QED  BY <1>2, <1>4, <2>1, DraftCreated
<1>. QED  BY <1>5, <1>6

\* post_invoice().
LEMMA InvoicePosts ==
    ASSUME IInv, NEW i \in DOMAIN invoices, post_invoice(i)
    PROVE  IInv'
<1>1. PICK row : row = invoices[i]
  OBVIOUS
<1>2. i \in 1 .. Len(invoices) /\ InvoiceOK(row) /\ row.order \in 0 .. Len(orders) /\ i \in Nat
  BY <1>1 DEF IInv, InvoicesInv, Table
<1>3. row.status = "draft" /\ ~row.deleted
  BY <1>1, <1>2 DEF post_invoice, get_invoice, is_posted, InvoiceOK, Standing
<1>4. Posted(row, i) /\ payments' = payments
  BY <1>1 DEF post_invoice
<1>. QED  BY <1>1, <1>2, <1>3, <1>4, InvoicePosted

----------------------------------------------------------------------------
(* Requests about payments.                                                *)

\* What a client may ask to be allocated.
LEMMA PlansAreOK ==
    ASSUME IInv, NEW plan \in {NoPlan} \cup Plans
    PROVE  PlanOK(plan, Len(invoices))
<1>1. DOMAIN invoices = 1 .. Len(invoices)
  BY DEF IInv, InvoicesInv, Table
<1>2. CASE plan = NoPlan
  BY <1>2 DEF NoPlan, PlanOK
<1>3. CASE plan \in Plans
  <2>1. PICK s \in SUBSET DOMAIN invoices : plan \in [s -> Amounts]
    BY <1>3 DEF Plans
  <2>2. DOMAIN plan = s /\ \A i \in s : plan[i] \in Amounts
    BY <2>1
  <2>. QED  BY <1>1, <2>1, <2>2, SalesAssumption DEF PlanOK
<1>. QED  BY <1>2, <1>3

\* record_payment().
LEMMA PaymentRecorded ==
    ASSUME IInv, NEW c, NEW account \in DepositAccounts, NEW amount \in Amounts,
           NEW plan \in {NoPlan} \cup Plans, record_payment(c, account, amount, plan)
    PROVE  IInv'
<1>1. PICK row, p : row = Payment(c, amount) /\ p = Len(payments) + 1
  OBVIOUS
<1>2. PICK m \in Nat : m = MaxRows.invoices
  BY SalesAssumption
<1>3. PICK z : z = [i \in 1 .. m |-> 0]
  OBVIOUS
<1>4. z \in [1 .. m -> Nat] /\ \A i \in 1 .. m : z[i] = 0
  BY <1>3
<1>5. SumFunctionOnSet(z, 1 .. m) = 0
  BY <1>4, Upto, SumZero
<1>6. amount \in Nat
  BY SalesAssumption
<1>7. row = [customer |-> c, amount |-> amount, unallocated |-> amount, allocations |-> z]
  BY <1>1, <1>2, <1>3 DEF Payment
<1>8. PaymentOK(row) /\ row.unallocated = amount /\ row.allocations = z
  <2>1. PICK F : F = [1 .. m -> Nat]
    OBVIOUS
  <2>2. row \in [customer: {row.customer}, amount: Nat, unallocated: Nat, allocations: F]
    BY <1>4, <1>6, <1>7, <2>1
  <2>3. row.amount = row.unallocated + SumFunctionOnSet(row.allocations, 1 .. m)
    BY <1>5, <1>6, <1>7
  <2>. QED  BY <1>2, <1>7, <2>1, <2>2, <2>3 DEF PaymentOK
<1>9. PICK n \in Nat : n = Len(payments)
  BY DEF IInv, PaymentsInv, Table
<1>10. payments' = Append(payments, Spent(row, plan)) /\ Table(payments)
  BY <1>1 DEF record_payment, IInv, PaymentsInv
<1>11. Wrote(payments, payments', p) /\ payments'[p] = Spent(row, plan)
  BY <1>1, <1>10, WroteAppend
<1>12. ~(p <= Len(payments))
  BY <1>1, <1>9
<1>13. IF p <= Len(payments) THEN row = payments[p]
       ELSE \A i \in 1 .. MaxRows.invoices : row.allocations[i] = 0
  BY <1>2, <1>4, <1>8, <1>12
<1>14. PICK amounts \in [Accounts -> Int] :
         /\ amounts = _post_receipt(account, amount)
         /\ ControlAccountKept => amounts["receivable"] = 0 - amount
  BY <1>6, ReceiptPosted
<1>15. create_entry(amounts)
  BY <1>14 DEF record_payment
<1>16. /\ EntriesInv' /\ Dues(entries') = Dues(entries) + amounts["receivable"]
       /\ \A r : Entered(r, entries) => Entered(r, entries')
       /\ Dues(entries) \in Int
  BY <1>15, EntryAdded
<1>17. \A i \in 1 .. Len(invoices) : Entered(invoices[i], entries')
  BY <1>16 DEF IInv, InvoicesInv
<1>18. ControlAccountKept =>
         Dues(entries') = Dues(entries) - (IF p <= Len(payments) THEN 0 ELSE row.unallocated)
  BY <1>6, <1>8, <1>12, <1>14, <1>16
<1>19. CanApply(row, plan) /\ Settle(plan) /\ orders' = orders
  BY <1>1 DEF record_payment
<1>20. PlanOK(plan, Len(invoices))
  BY PlansAreOK
<1>. QED  BY <1>8, <1>11, <1>13, <1>16, <1>17, <1>18, <1>19, <1>20, ApplyStep

\* _apply() to a payment that is there.
LEMMA PaymentApplied ==
    ASSUME IInv, NEW p \in DOMAIN payments, NEW plan, PlanOK(plan, Len(invoices)), Apply(p, plan)
    PROVE  IInv'
<1>1. PICK row : row = payments[p]
  OBVIOUS
<1>2. Table(payments) /\ p \in 1 .. Len(payments) /\ PaymentOK(row)
  BY <1>1 DEF IInv, PaymentsInv, Table
<1>3. payments' = [payments EXCEPT ![p] = Spent(row, plan)]
  BY <1>1 DEF Apply
<1>4. Wrote(payments, payments', p)
  BY <1>2, <1>3, WroteExcept
<1>5. payments'[p] = Spent(row, plan)
  BY <1>3
<1>6. p <= Len(payments)
  BY <1>2
<1>7. IF p <= Len(payments) THEN row = payments[p]
      ELSE \A i \in 1 .. MaxRows.invoices : row.allocations[i] = 0
  BY <1>1, <1>6
<1>8. CanApply(row, plan) /\ Settle(plan) /\ orders' = orders /\ entries' = entries
  BY <1>1 DEF Apply
<1>9. EntriesInv'
  BY <1>8 DEF IInv, EntriesInv
<1>10. \A i \in 1 .. Len(invoices) : Entered(invoices[i], entries')
  BY <1>8 DEF IInv, InvoicesInv
<1>11. Dues(entries') = Dues(entries) - (IF p <= Len(payments) THEN 0 ELSE row.unallocated)
  <2>1. Dues(entries) \in Int
    BY DuesInt DEF IInv
  <2>. QED  BY <1>6, <1>8, <2>1
<1>. QED  BY <1>2, <1>4, <1>5, <1>7, <1>8, <1>9, <1>10, <1>11, ApplyStep

\* auto_allocate() makes a plan of its own.
LEMMA PaymentAllocated ==
    ASSUME IInv, NEW p \in DOMAIN payments, auto_allocate(p)
    PROVE  IInv'
<1>1. PICK open : open = outstanding_for_customer(payments[p].customer)
  OBVIOUS
<1>2. DOMAIN invoices = 1 .. Len(invoices) /\ Len(invoices) \in Nat
  BY DEF IInv, InvoicesInv, Table
<1>3. PICK left : left = [i \in 1 .. Len(invoices) |->
         payments[p].unallocated - SumOf(outstanding, {j \in open : j < i})]
  OBVIOUS
<1>4. open \in SUBSET (1 .. Len(invoices)) /\ \A i \in open : outstanding(i) > 0
  BY <1>1, <1>2 DEF outstanding_for_customer
<1>5. \A i \in 1 .. Len(invoices) : outstanding(i) \in Int
  BY DEF IInv, InvoicesInv, InvoiceOK, PriceOK, TotalsOK, outstanding, grand_total
<1>6. ASSUME NEW i \in 1 .. Len(invoices) PROVE left[i] \in Int
  <2>1. PICK V, g : V = {j \in open : j < i} /\ g = [j \in V |-> outstanding(j)]
    OBVIOUS
  <2>2. V \in SUBSET (1 .. Len(invoices))
    BY <1>4, <2>1
  <2>3. IsFiniteSet(V)
    BY <1>2, <2>2, Upto, FS_Subset
  <2>4. IntOn(g, V)
    BY <1>5, <2>1, <2>2 DEF IntOn
  <2>5. SumFunctionOnSet(g, V) \in Int
    BY <2>3, <2>4, SumInt
  <2>6. SumOf(outstanding, {j \in open : j < i}) = SumFunctionOnSet(g, V)
    BY <2>1 DEF SumOf
  <2>7. payments[p].unallocated \in Nat
    BY DEF IInv, PaymentsInv, PaymentOK, Table
  <2>. QED  BY <1>3, <2>5, <2>6, <2>7
<1>7. PICK taken : taken = {i \in open : left[i] > 0}
  OBVIOUS
<1>8. PICK plan : plan = [i \in taken |->
                            IF left[i] < outstanding(i) THEN left[i] ELSE outstanding(i)]
  OBVIOUS
<1>9. PlanOK(plan, Len(invoices))
  <2>1. \A i \in taken : /\ i \in 1 .. Len(invoices) /\ left[i] > 0 /\ outstanding(i) > 0
                         /\ left[i] \in Int /\ outstanding(i) \in Int
    BY <1>4, <1>5, <1>6, <1>7
  <2>. QED  BY <1>8, <2>1 DEF PlanOK
<1>10. Apply(p, plan)
  <2>1. \A i \in open : left[i] = payments[p].unallocated - SumOf(outstanding, {j \in open : j < i})
    BY <1>3, <1>4
  <2>2. taken = {i \in open : payments[p].unallocated - SumOf(outstanding, {j \in open : j < i}) > 0}
    BY <1>7, <2>1
  <2>3. plan = [i \in taken |->
          IF payments[p].unallocated - SumOf(outstanding, {j \in open : j < i}) < outstanding(i)
          THEN payments[p].unallocated - SumOf(outstanding, {j \in open : j < i})
          ELSE outstanding(i)]
    BY <1>7, <1>8, <2>1
  <2>. QED  BY <1>1, <2>2, <2>3 DEF auto_allocate
<1>. QED  BY <1>9, <1>10, PaymentApplied

----------------------------------------------------------------------------
(* The theorems.                                                           *)

\* An organisation without documents.
LEMMA InitInv == Init => IInv
<1> SUFFICES ASSUME Init PROVE IInv
  OBVIOUS
<1>1. /\ invoices = <<>> /\ payments = <<>> /\ entries = <<>> /\ orders = <<>>
  BY DEF Init
<1>2. /\ Table(invoices) /\ Len(invoices) = 0 /\ Table(payments) /\ Len(payments) = 0
      /\ Table(entries) /\ Len(entries) = 0 /\ Table(orders) /\ Len(orders) = 0
  BY <1>1 DEF Table
<1>3. 1 .. 0 = {}
  OBVIOUS
<1>4. EntriesInv /\ OrdersInv /\ PaymentsInv
  BY <1>2 DEF EntriesInv, OrdersInv, PaymentsInv
<1>5. InvoicesInv
  <2>1. 0 <= MaxRows.invoices
    BY SalesAssumption
  <2>. QED  BY <1>2, <2>1 DEF InvoicesInv
<1>6. Paid /\ Tracks
  BY <1>2 DEF Paid, Tracks
<1>7. Agrees
  <2>1. \A g : SumFunctionOnSet(g, 1 .. 0) = 0
    BY <1>3, SumEmpty
  <2>2. Dues(entries) = 0 /\ Opens(invoices) = 0 /\ Unspents(payments) = 0
    BY <1>2, <2>1 DEF Dues, Opens, Unspents
  <2>. QED  BY <2>2 DEF Agrees
<1>. QED  BY <1>4, <1>5, <1>6, <1>7 DEF IInv

\* Requests that touch none of the four tables.
LEMMA QuietStep ==
    ASSUME IInv, UNCHANGED <<orders, invoices, payments, entries>> PROVE IInv'
BY DEF IInv, EntriesInv, OrdersInv, PaymentsInv, InvoicesInv, Paid, Tracks, Agrees

\* Every request keeps the invariant.
LEMMA NextInv == IInv /\ [Next]_vars => IInv'
<1> SUFFICES ASSUME IInv, [Next]_vars PROVE IInv'
  OBVIOUS
<1>1. CASE UNCHANGED vars
  BY <1>1, QuietStep DEF vars, tables
<1>2. CASE create_customer \/ create_lead
  BY <1>2, QuietStep DEF create_customer, create_lead
<1>3. ASSUME NEW l \in DOMAIN leads, update_lead(l) \/ convert_lead(l) PROVE IInv'
  BY <1>3, QuietStep DEF update_lead, convert_lead
<1>4. ASSUME NEW c \in DOMAIN customers, update_customer(c) \/ delete_customer(c) PROVE IInv'
  BY <1>4, QuietStep DEF update_customer, delete_customer
<1>5. ASSUME NEW c \in DOMAIN customers, NEW doc \in Documents, NEW whole \in BOOLEAN
      PROVE  /\ create_quotation(c, doc, whole) => IInv'
             /\ create_order(c, doc, whole) => IInv'
  <2>1. ASSUME create_quotation(c, doc, whole) PROVE IInv'
    BY <2>1, QuietStep DEF create_quotation
  <2>2. ASSUME create_order(c, doc, whole) PROVE IInv'
    BY <2>2, NewOrder DEF create_order
  <2>. QED  BY <2>1, <2>2
<1>6. ASSUME NEW c \in DOMAIN customers, NEW doc \in Documents, NEW whole \in BOOLEAN,
             NEW o \in {0} \cup DOMAIN orders, NEW post \in BOOLEAN,
             create_invoice(c, o, doc, whole, post)
      PROVE  IInv'
  BY <1>6, InvoiceCreated
<1>7. ASSUME NEW c \in DOMAIN customers, NEW account \in DepositAccounts, NEW amount \in Amounts,
             NEW plan \in {NoPlan} \cup Plans, record_payment(c, account, amount, plan)
      PROVE  IInv'
  BY <1>7, PaymentRecorded
<1>8. ASSUME NEW q \in DOMAIN quotations, mark_sent(q) \/ respond(q) PROVE IInv'
  BY <1>8, QuietStep DEF mark_sent, respond
<1>9. ASSUME NEW q \in DOMAIN quotations, from_quotation(q) PROVE IInv'
  BY <1>9, NewOrder DEF from_quotation
<1>10. ASSUME NEW q \in DOMAIN quotations, NEW doc \in Documents, NEW whole \in BOOLEAN,
              update_quotation(q, doc, whole)
       PROVE  IInv'
  BY <1>10, QuietStep DEF update_quotation
<1>11. ASSUME NEW o \in DOMAIN orders, confirm_order(o) \/ cancel_order(o) PROVE IInv'
  BY <1>11, ChangedOrder
<1>12. ASSUME NEW i \in DOMAIN invoices, post_invoice(i) \/ cancel_invoice(i) \/ delete_draft(i)
       PROVE  IInv'
  BY <1>12, InvoicePosts, InvoiceCancelled, DraftDeleted
<1>13. ASSUME NEW i \in DOMAIN invoices, NEW doc \in Documents, NEW whole \in BOOLEAN,
              update_invoice(i, doc, whole)
       PROVE  IInv'
  BY <1>13, InvoiceUpdated
<1>14. ASSUME NEW p \in DOMAIN payments, auto_allocate(p) PROVE IInv'
  BY <1>14, PaymentAllocated
<1>15. ASSUME NEW p \in DOMAIN payments, NEW plan \in Plans, allocate(p, plan) PROVE IInv'
  <2>1. PlanOK(plan, Len(invoices)) /\ Apply(p, plan)
    BY <1>15, PlansAreOK DEF allocate
  <2>. QED  BY <2>1, PaymentApplied
<1>. QED
  BY <1>1, <1>2, <1>3, <1>4, <1>5, <1>6, <1>7, <1>8, <1>9, <1>10, <1>11, <1>12, <1>13, <1>14,
     <1>15 DEF Next

\* The invariant of sales: rows are well formed, an invoice that stands has its
\* entry, and every stored figure is the sum it stands for.
THEOREM Invariance == Spec => []IInv
BY InitInv, NextInv, PTL DEF Spec

\* Whatever the lines, their discounts, the split of the tax and the rounding, the
\* lines that _build_posting_lines() makes of an invoice balance: for every list of
\* lines, every rate and every quantity.
THEOREM PostingLinesBalance == Spec => []DraftsCanBePosted
<1>1. IInv => DraftsCanBePosted
  <2> SUFFICES ASSUME IInv, NEW i \in DOMAIN invoices
               PROVE  Balanced(_build_posting_lines(invoices[i].price))
    BY DEF DraftsCanBePosted
  <2>1. PriceOK(invoices[i].price)
    BY DEF IInv, InvoicesInv, InvoiceOK, Table
  <2>. QED  BY <2>1, PriceBalances
<1>. QED  BY <1>1, Invariance, PTL

\* The sum of a column over the invoices that stand is the sum over all of them of
\* what they contribute.
LEMMA LiveSum ==
    ASSUME IInv, NEW T \in SUBSET (1 .. Len(invoices)), NEW f, NEW g,
           \A i \in 1 .. Len(invoices) : g[i] \in Int /\ (i \notin T => g[i] = 0),
           \A i \in T : f[i] = g[i]
    PROVE  SumFunctionOnSet(f, T) = SumFunctionOnSet(g, 1 .. Len(invoices))
<1>1. PICK n \in Nat : n = Len(invoices)
  BY DEF IInv, InvoicesInv, Table
<1>. QED  BY <1>1, CountedRows

\* An order's invoiced_total is the total of its invoices that stand, and it shows
\* as invoiced exactly when there is one, after any posting and cancelling.
THEOREM OrdersTrackInvoices == Spec => []OrderTracksInvoices
<1>1. IInv => OrderTracksInvoices
  <2> SUFFICES ASSUME IInv, NEW o \in DOMAIN orders
               PROVE  /\ orders[o].invoiced = SumOf(grand_total, {i \in Live : invoices[i].order = o})
                      /\ orders[o].invoiced > 0 <=> orders[o].status \in Tracked
    BY DEF OrderTracksInvoices, Tracked
  <2>1. o \in 1 .. Len(orders) /\ DOMAIN invoices = 1 .. Len(invoices)
    BY DEF IInv, OrdersInv, InvoicesInv, Table
  <2>2. orders[o].invoiced > 0 <=> orders[o].status \in Tracked
    BY <2>1 DEF IInv, OrdersInv, OrderOK
  <2>3. PICK T, f, g : /\ T = {i \in Live : invoices[i].order = o}
                       /\ f = [i \in T |-> grand_total(i)]
                       /\ g = [i \in 1 .. Len(invoices) |-> Billed(invoices[i], o)]
    OBVIOUS
  <2>4. T \in SUBSET (1 .. Len(invoices))
    BY <2>1, <2>3 DEF Live
  <2>5. \A i \in 1 .. Len(invoices) : g[i] \in Int
    BY <2>3 DEF IInv, InvoicesInv, InvoiceOK, PriceOK, TotalsOK, Billed
  <2>6. \A i \in 1 .. Len(invoices) : i \in T <=>
            invoices[i].status \in Standing /\ invoices[i].order = o
    BY <2>1, <2>3 DEF Live, is_posted, Standing
  <2>7. \A i \in 1 .. Len(invoices) : g[i] \in Int /\ (i \notin T => g[i] = 0)
    BY <2>3, <2>5, <2>6 DEF Billed
  <2>8. \A i \in T : f[i] = g[i]
    BY <2>3, <2>4, <2>6 DEF Billed, grand_total
  <2>9. SumFunctionOnSet(f, T) = SumFunctionOnSet(g, 1 .. Len(invoices))
    BY <2>4, <2>7, <2>8, LiveSum
  <2>10. SumOf(grand_total, {i \in Live : invoices[i].order = o}) = SumFunctionOnSet(f, T)
    BY <2>3 DEF SumOf
  <2>11. orders[o].invoiced = SumFunctionOnSet(g, 1 .. Len(invoices))
    BY <2>1, <2>3 DEF IInv, Tracks, BilledTo
  <2>. QED  BY <2>2, <2>9, <2>10, <2>11
<1>. QED  BY <1>1, Invariance, PTL

\* The receivable account agrees with the documents behind it, when no line and no
\* receipt is itself booked to that account: its balance is what posted invoices
\* have outstanding less what receipts have not allocated, and the stored paid and
\* unallocated amounts are the sums of the allocation rows.
THEOREM ReceivablesAlwaysAgree == ASSUME ControlAccountKept PROVE Spec => []ReceivablesAgree
<1>1. IInv => ReceivablesAgree
  <2> SUFFICES ASSUME IInv PROVE ReceivablesAgree
    OBVIOUS
  <2>1. /\ DOMAIN invoices = 1 .. Len(invoices) /\ DOMAIN payments = 1 .. Len(payments)
        /\ DOMAIN entries = 1 .. Len(entries)
    BY DEF IInv, EntriesInv, PaymentsInv, InvoicesInv, Table
  <2>2. Balance("receivable") = Dues(entries)
    BY <2>1 DEF Balance, SumOf, Dues, Due
  <2>3. SumOf(LAMBDA p : payments[p].unallocated, DOMAIN payments) = Unspents(payments)
    BY <2>1 DEF SumOf, Unspents
  <2>4. SumOf(outstanding, Live) = Opens(invoices)
    <3>1. PICK T, f, g : /\ T = Live /\ f = [i \in T |-> outstanding(i)]
                         /\ g = [i \in 1 .. Len(invoices) |-> Open(invoices[i])]
      OBVIOUS
    <3>2. T \in SUBSET (1 .. Len(invoices))
      BY <2>1, <3>1 DEF Live
    <3>3. \A i \in 1 .. Len(invoices) : g[i] \in Int
      BY <3>1 DEF IInv, InvoicesInv, InvoiceOK, PriceOK, TotalsOK, Open
    <3>4. \A i \in 1 .. Len(invoices) : i \in T <=> invoices[i].status \in Standing
      BY <2>1, <3>1 DEF Live, is_posted, Standing
    <3>5. \A i \in 1 .. Len(invoices) : g[i] \in Int /\ (i \notin T => g[i] = 0)
      BY <3>1, <3>3, <3>4 DEF Open
    <3>6. \A i \in T : f[i] = g[i]
      BY <3>1, <3>2, <3>4 DEF Open, outstanding, grand_total
    <3>7. SumFunctionOnSet(f, T) = SumFunctionOnSet(g, 1 .. Len(invoices))
      BY <3>2, <3>5, <3>6, LiveSum
    <3>. QED  BY <3>1, <3>7 DEF SumOf, Opens
  <2>5. Balance("receivable") =
          SumOf(outstanding, Live) - SumOf(LAMBDA p : payments[p].unallocated, DOMAIN payments)
    BY <2>2, <2>3, <2>4 DEF IInv, Agrees
  <2>6. ASSUME NEW p \in DOMAIN payments
        PROVE  /\ payments[p].amount = payments[p].unallocated
                    + SumOf(LAMBDA i : payments[p].allocations[i], DOMAIN payments[p].allocations)
               /\ payments[p].unallocated >= 0
    <3>1. PICK row, a, S : row = payments[p] /\ a = row.allocations /\ S = 1 .. MaxRows.invoices
      OBVIOUS
    <3>2. /\ a \in [S -> Nat] /\ row.amount = row.unallocated + SumFunctionOnSet(a, S)
          /\ row.unallocated \in Nat
      BY <2>1, <3>1 DEF IInv, PaymentsInv, PaymentOK
    <3>3. DOMAIN a = S /\ [i \in S |-> a[i]] = a
      BY <3>2
    <3>4. SumOf(LAMBDA i : payments[p].allocations[i], DOMAIN payments[p].allocations) =
            SumFunctionOnSet(a, S)
      BY <3>1, <3>3 DEF SumOf
    <3>. QED  BY <3>1, <3>2, <3>4
  <2>7. ASSUME NEW i \in DOMAIN invoices
        PROVE  /\ invoices[i].paid = SumOf(LAMBDA p : payments[p].allocations[i], DOMAIN payments)
               /\ outstanding(i) >= 0
               /\ invoices[i].paid > 0 => is_posted(i) /\ ~invoices[i].deleted
    <3>1. invoices[i].paid = Settled(payments, i) /\ InvoiceOK(invoices[i])
      BY <2>1 DEF IInv, Paid, InvoicesInv
    <3>2. Settled(payments, i) = SumOf(LAMBDA p : payments[p].allocations[i], DOMAIN payments)
      BY <2>1 DEF SumOf, Settled
    <3>3. outstanding(i) >= 0
      BY <3>1 DEF InvoiceOK, PriceOK, TotalsOK, outstanding, grand_total
    <3>4. invoices[i].paid > 0 => is_posted(i) /\ ~invoices[i].deleted
      BY <3>1 DEF InvoiceOK, is_posted, Standing
    <3>. QED  BY <3>1, <3>2, <3>3, <3>4
  <2>. QED  BY <2>5, <2>6, <2>7 DEF ReceivablesAgree
<1>. QED  BY <1>1, Invariance, PTL
=============================================================================
