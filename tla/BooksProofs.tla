---------------------------- MODULE BooksProofs ----------------------------
(***************************************************************************)
(* Proofs about the books, for any number of requests, accounts, cards and *)
(* entries, any names, any calendar.                                       *)
(*                                                                         *)
(* The screen reads an entry back through accounts that have had a life of *)
(* their own since.  The induction says what that life can be: a row is    *)
(* never taken away and its code, type, subtype and parent never change    *)
(* (Kept); a row with children is a heading; a heading and a deleted row   *)
(* have no entries; a debit card points at cash or a bank.                 *)
(***************************************************************************)
EXTENDS Books, Sums

\* An account row; its name and code are the users'.
AccountRow(r) ==
    r \in [code: {r.code}, name: {r.name}, type: AccountType, subtype: AccountSubtype,
           parent: Nat, group: BOOLEAN, system: BOOLEAN, active: BOOLEAN,
           deleted: BOOLEAN]

Chart(A) ==
    /\ A = [a \in 1 .. Len(A) |-> A[a]] /\ Len(A) \in Nat
    /\ \A a \in 1 .. Len(A) : AccountRow(A[a])

\* A row's parent is a row, and a heading.
Tree(A) == \A a \in 1 .. Len(A) : A[a].parent # 0 => /\ A[a].parent \in 1 .. Len(A)
                                                     /\ A[A[a].parent].group

\* The template's accounts are there; nobody may delete them.
Full(A) == \A k \in DOMAIN DEFAULT_CHART : \E a \in 1 .. Len(A) :
    A[a].code = DEFAULT_CHART[k].code /\ A[a].system /\ ~A[a].deleted

\* What a request does to the chart: rows are added, and archived, deleted or
\* made headings.
Kept(A, B) ==
    /\ Len(A) <= Len(B)
    /\ \A a \in 1 .. Len(A) : /\ B[a].code = A[a].code /\ B[a].type = A[a].type
                              /\ B[a].subtype = A[a].subtype /\ B[a].parent = A[a].parent

EntryRow(e) ==
    e \in [source: {"billing", "transfer"}, debit: 1 .. Len(accounts),
           credit: 1 .. Len(accounts), amount: Nat, day: {e.day}, reversed: BOOLEAN,
           reverses: Nat, asked: {e.asked}]

Journal ==
    /\ entries = [i \in 1 .. Len(entries) |-> entries[i]] /\ Len(entries) \in Nat
    /\ \A i \in 1 .. Len(entries) : EntryRow(entries[i])

CardInv ==
    \A c \in cards :
        /\ c \in [kind: CardKind, face: Faces, account: 1 .. Len(accounts), active: BOOLEAN]
        /\ c.kind = "debit" => is_cash_equivalent(accounts[c.account])

\* The inductive invariant.
ChartInv == Chart(accounts) /\ Tree(accounts) /\ (accounts = <<>> \/ Full(accounts))
IInv == ChartInv /\ Journal /\ CardInv /\ HistoryKeepsItsAccounts /\ DayBookReadsBack

----------------------------------------------------------------------------
(* The chart.                                                              *)

\* The template's rows are rows, and a parent's code is a heading before them.
LEMMA Template ==
    /\ DOMAIN DEFAULT_CHART = 1 .. 9
    /\ \A k \in 1 .. 9 : /\ AccountRow(DEFAULT_CHART[k]) /\ DEFAULT_CHART[k].system
                         /\ ~DEFAULT_CHART[k].deleted
    /\ \A j, k \in 1 .. 9 : DEFAULT_CHART[j].code = DEFAULT_CHART[k].code => j = k
    /\ \A k \in 1 .. 9 : DEFAULT_CHART[k].parent # 0 =>
            \E j \in 1 .. 9 : DEFAULT_CHART[j].code = DEFAULT_CHART[k].parent
                                /\ DEFAULT_CHART[j].group
<1> DEFINE Is(r, c, p) == /\ AccountRow(r) /\ ~r.deleted /\ r.system
                         /\ r.code = c /\ r.parent = p
<1>1. DOMAIN DEFAULT_CHART = 1 .. 9
  BY DEF DEFAULT_CHART
<1>2. Is(DEFAULT_CHART[1], 1100, 0) /\ DEFAULT_CHART[1].group
  <2>1. DEFAULT_CHART[1] = AccountSpec(1100, "asset", "other", 0, TRUE)
    BY DEF DEFAULT_CHART
  <2>. QED  BY <2>1 DEF AccountSpec, Account, AccountRow, AccountType, AccountSubtype
<1>3. Is(DEFAULT_CHART[2], 1110, 1100)
  <2>1. DEFAULT_CHART[2] = AccountSpec(1110, "asset", "cash", 1100, FALSE)
    BY DEF DEFAULT_CHART
  <2>. QED  BY <2>1 DEF AccountSpec, Account, AccountRow, AccountType, AccountSubtype
<1>4. Is(DEFAULT_CHART[3], 1120, 1100) /\ DEFAULT_CHART[3].group
  <2>1. DEFAULT_CHART[3] = AccountSpec(1120, "asset", "bank", 1100, TRUE)
    BY DEF DEFAULT_CHART
  <2>. QED  BY <2>1 DEF AccountSpec, Account, AccountRow, AccountType, AccountSubtype
<1>5. Is(DEFAULT_CHART[4], 1121, 1120)
  <2>1. DEFAULT_CHART[4] = AccountSpec(1121, "asset", "bank", 1120, FALSE)
    BY DEF DEFAULT_CHART
  <2>. QED  BY <2>1 DEF AccountSpec, Account, AccountRow, AccountType, AccountSubtype
<1>6. Is(DEFAULT_CHART[5], 2100, 0) /\ DEFAULT_CHART[5].group
  <2>1. DEFAULT_CHART[5] = AccountSpec(2100, "liability", "other", 0, TRUE)
    BY DEF DEFAULT_CHART
  <2>. QED  BY <2>1 DEF AccountSpec, Account, AccountRow, AccountType, AccountSubtype
<1>7. Is(DEFAULT_CHART[6], 4000, 0) /\ DEFAULT_CHART[6].group
  <2>1. DEFAULT_CHART[6] = AccountSpec(4000, "income", "other", 0, TRUE)
    BY DEF DEFAULT_CHART
  <2>. QED  BY <2>1 DEF AccountSpec, Account, AccountRow, AccountType, AccountSubtype
<1>8. Is(DEFAULT_CHART[7], 4100, 4000)
  <2>1. DEFAULT_CHART[7] = AccountSpec(4100, "income", "other", 4000, FALSE)
    BY DEF DEFAULT_CHART
  <2>. QED  BY <2>1 DEF AccountSpec, Account, AccountRow, AccountType, AccountSubtype
<1>9. Is(DEFAULT_CHART[8], 5200, 0) /\ DEFAULT_CHART[8].group
  <2>1. DEFAULT_CHART[8] = AccountSpec(5200, "expense", "other", 0, TRUE)
    BY DEF DEFAULT_CHART
  <2>. QED  BY <2>1 DEF AccountSpec, Account, AccountRow, AccountType, AccountSubtype
<1>10. Is(DEFAULT_CHART[9], 5250, 5200)
  <2>1. DEFAULT_CHART[9] = AccountSpec(5250, "expense", "other", 5200, FALSE)
    BY DEF DEFAULT_CHART
  <2>. QED  BY <2>1 DEF AccountSpec, Account, AccountRow, AccountType, AccountSubtype
<1>11. ASSUME NEW k \in 1 .. 9
       PROVE  k = 1 \/ k = 2 \/ k = 3 \/ k = 4 \/ k = 5 \/ k = 6 \/ k = 7 \/ k = 8 \/ k = 9
  OBVIOUS
<1> DEFINE code == <<1100, 1110, 1120, 1121, 2100, 4000, 4100, 5200, 5250>>
           parent == <<0, 1100, 1100, 1120, 0, 0, 4000, 0, 5200>>
<1> HIDE DEF Is
<1>12. \A k \in 1 .. 9 : Is(DEFAULT_CHART[k], code[k], parent[k])
  BY <1>2, <1>3, <1>4, <1>5, <1>6, <1>7, <1>8, <1>9, <1>10, <1>11
<1>13. \A j, k \in 1 .. 9 : code[j] = code[k] => j = k
  BY <1>11
<1>14. \A k \in 1 .. 9 : parent[k] # 0 =>
            \E j \in 1 .. 9 : code[j] = parent[k] /\ DEFAULT_CHART[j].group
  <2> SUFFICES ASSUME NEW k \in 1 .. 9, parent[k] # 0
               PROVE  \E j \in 1 .. 9 : code[j] = parent[k] /\ DEFAULT_CHART[j].group
    OBVIOUS
  <2>1. code[1] = 1100 /\ code[3] = 1120 /\ code[6] = 4000 /\ code[8] = 5200
    OBVIOUS
  <2>2. parent[k] \in {1100, 1120, 4000, 5200}
    BY <1>11
  <2> HIDE DEF code, parent
  <2>. QED  BY <1>2, <1>4, <1>7, <1>9, <2>1, <2>2
<1> HIDE DEF code, parent
<1>15. \A k \in 1 .. 9 : DEFAULT_CHART[k].code = code[k] /\ DEFAULT_CHART[k].parent = parent[k]
  BY <1>12 DEF Is
<1>16. \A k \in 1 .. 9 : /\ AccountRow(DEFAULT_CHART[k]) /\ DEFAULT_CHART[k].system
                         /\ ~DEFAULT_CHART[k].deleted
  BY <1>12 DEF Is
<1>17. \A j, k \in 1 .. 9 : DEFAULT_CHART[j].code = DEFAULT_CHART[k].code => j = k
  BY <1>13, <1>15, Zenon
<1>18. \A k \in 1 .. 9 : DEFAULT_CHART[k].parent # 0 =>
         \E j \in 1 .. 9 : /\ DEFAULT_CHART[j].code = DEFAULT_CHART[k].parent
                          /\ DEFAULT_CHART[j].group
  BY <1>14, <1>15
<1>. QED  BY <1>1, <1>16, <1>17, <1>18, Zenon

\* A chart that has the template is left as it is.
LEMMA SyncFull ==
    ASSUME NEW A, Chart(A), Full(A)
    PROVE  sync_template(A) = A
<1>1. Missing(A) = {}
  BY DEF Missing, Live, Full, Chart
<1>2. Cardinality(Missing(A)) = 0
  BY <1>1, FS_EmptySet
<1>3. Len(A) + Cardinality(Missing(A)) = Len(A)
  BY <1>2 DEF Chart
<1> DEFINE all == [a \in 1 .. Len(A) + Cardinality(Missing(A)) |->
                    IF a <= Len(A) THEN A[a] ELSE DEFAULT_CHART[SeededBy(A, a)]]
<1>4. all = A
  BY <1>3 DEF Chart
<1>5. DOMAIN all = 1 .. Len(A) /\ \A a \in 1 .. Len(A) : a <= Len(A)
  BY <1>3 DEF Chart
<1> HIDE DEF all
<1>6. [a \in DOMAIN all |-> IF a <= Len(A) \/ all[a].parent = 0 THEN all[a]
                           ELSE [all[a] EXCEPT !.parent = ByCode(all, all[a].parent)]] = A
  BY <1>4, <1>5 DEF Chart
<1>. QED  BY <1>6 DEF sync_template, all

\* An organisation without accounts gets the template.
LEMMA SyncEmpty ==
    LET A == sync_template(<<>>) IN Chart(A) /\ Tree(A) /\ Full(A)
<1> DEFINE none == <<>>
           D == DEFAULT_CHART
           all == [a \in 1 .. Len(none) + Cardinality(Missing(none)) |->
                    IF a <= Len(none) THEN none[a] ELSE D[SeededBy(none, a)]]
           A == sync_template(none)
<1>1. Missing(none) = 1 .. 9 /\ Len(none) = 0
  BY Template DEF Missing, Live
<1>2. Cardinality(1 .. 9) = 9
  BY Upto
<1>3. ASSUME NEW a \in 1 .. 9 PROVE SeededBy(none, a) = a
  <2>1. ASSUME NEW k \in 1 .. 9
        PROVE  Cardinality({j \in Missing(none) : j <= k}) = k
    <3>1. {j \in Missing(none) : j <= k} = 1 .. k
      BY <1>1
    <3>2. Cardinality(1 .. k) = k
      BY Upto
    <3>. QED  BY <3>1, <3>2, Zenon
  <2>2. a - Len(none) = a
    BY <1>1
  <2> HIDE DEF none
  <2>3. \A k \in Missing(none) : Cardinality({j \in Missing(none) : j <= k}) = a - Len(none)
                                    <=> k = a
    BY <1>1, <2>1, <2>2
  <2>. QED  BY <1>1, <2>3 DEF SeededBy
<1>4. all = [a \in 1 .. 9 |-> D[a]]
  <2>1. 1 .. Len(none) + Cardinality(Missing(none)) = 1 .. 9
    <3>1. Len(none) + Cardinality(Missing(none)) = 0 + 9
      BY <1>1, <1>2, Zenon
    <3>. QED  BY <3>1
  <2>2. \A a \in 1 .. 9 : ~(a <= Len(none))
    BY <1>1
  <2> HIDE DEF none, D
  <2>. QED  BY <1>3, <2>1, <2>2
<1> HIDE DEF D
<1>5. A = [a \in 1 .. 9 |-> IF all[a].parent = 0 THEN all[a]
                           ELSE [all[a] EXCEPT !.parent = ByCode(all, all[a].parent)]]
  <2>1. A = [a \in DOMAIN all |-> IF a <= Len(none) \/ all[a].parent = 0 THEN all[a]
                           ELSE [all[a] EXCEPT !.parent = ByCode(all, all[a].parent)]]
    BY DEF sync_template, D
  <2>2. DOMAIN all = 1 .. 9 /\ \A a \in 1 .. 9 : ~(a <= Len(none))
    BY <1>1, <1>4
  <2> HIDE DEF all, none, A
  <2>. QED  BY <2>1, <2>2
<1> HIDE DEF all, A
<1>6. ASSUME NEW a \in 1 .. 9, all[a].parent # 0
      PROVE  ByCode(all, all[a].parent) \in 1 .. 9 /\ all[ByCode(all, all[a].parent)].group
  <2>1. PICK j \in 1 .. 9 : all[j].code = all[a].parent /\ all[j].group
    BY <1>4, <1>6, Template DEF D
  <2>2. Live(all) = 1 .. 9
    BY <1>4, Template DEF Live, D
  <2>3. \A b \in 1 .. 9 : all[b].code = all[a].parent => b = j
    BY <1>4, <2>1, Template DEF D
  <2>4. ByCode(all, all[a].parent) = j
    BY <2>1, <2>2, <2>3 DEF ByCode
  <2>. QED  BY <2>1, <2>4
<1>7. ASSUME NEW a \in 1 .. 9
      PROVE  /\ AccountRow(A[a]) /\ A[a].code = D[a].code /\ A[a].system /\ ~A[a].deleted
             /\ A[a].group = D[a].group
             /\ A[a].parent # 0 => A[a].parent \in 1 .. 9 /\ A[A[a].parent].group
  <2>1. /\ all[a] = D[a] /\ AccountRow(D[a]) /\ D[a].system /\ ~D[a].deleted
    BY <1>4, Template DEF D
  <2>2. CASE all[a].parent = 0
    BY <2>1, <2>2, <1>5
  <2>3. CASE all[a].parent # 0
    <3>1. A[a] = [D[a] EXCEPT !.parent = ByCode(all, all[a].parent)]
      BY <2>1, <2>3, <1>5
    <3>2. ByCode(all, all[a].parent) \in 1 .. 9 /\ all[ByCode(all, all[a].parent)].group
      BY <2>3, <1>6
    <3>3. PICK j \in 1 .. 9 : j = ByCode(all, all[a].parent) /\ D[j].group
      BY <3>2, <1>4
    <3>4. /\ AccountRow(A[a]) /\ A[a].code = D[a].code /\ A[a].system /\ ~A[a].deleted
          /\ A[a].group = D[a].group /\ A[a].parent = j
      BY <2>1, <3>1, <3>3 DEF AccountRow
    <3>5. AccountRow(D[j]) /\ all[j] = D[j]
      BY <1>4, Template DEF D
    <3>6. A[j].group
      BY <1>5, <3>3, <3>5 DEF AccountRow
    <3>. QED  BY <3>4, <3>6
  <2>. QED  BY <2>2, <2>3
<1>8. Len(A) = 9 /\ A = [a \in 1 .. 9 |-> A[a]]
  <2>1. A = [a \in 1 .. 9 |-> A[a]]
    BY <1>5
  <2>. QED  BY <2>1, AppendRow
<1>9. Chart(A)
  BY <1>7, <1>8, 9 \in Nat DEF Chart
<1>10. Tree(A)
  BY <1>7, <1>8 DEF Tree
<1>11. Full(A)
  <2>1. ASSUME NEW k \in 1 .. 9 PROVE A[k].code = D[k].code /\ A[k].system /\ ~A[k].deleted
    BY <1>7
  <2>2. ASSUME NEW k \in 1 .. 9
        PROVE  \E a \in 1 .. Len(A) : A[a].code = D[k].code /\ A[a].system /\ ~A[a].deleted
    BY <2>1, <1>8
  <2>3. DOMAIN D = 1 .. 9
    BY Template DEF D
  <2>. QED  BY <2>2, <2>3, Zenon DEF Full, D
<1>. QED  BY <1>9, <1>10, <1>11 DEF A

----------------------------------------------------------------------------
(* What requests do to the chart.                                          *)

\* A chart with everything that accounts has, as it was.
Extends(A) ==
    /\ Chart(A) /\ Tree(A) /\ Full(A) /\ Len(accounts) <= Len(A)
    /\ \A a \in 1 .. Len(accounts) : A[a] = accounts[a]

\* A step that leaves the rows that entries name alone.
ChartStep ==
    /\ ChartInv' /\ Kept(accounts, accounts')
    /\ \A a \in 1 .. Len(accounts) :
        has_postings(a) => ~accounts'[a].deleted /\ ~accounts'[a].group

\* sync_template() keeps the rows there are and adds the template's.
LEMMA Synced ==
    ASSUME IInv PROVE Extends(sync_template(accounts))
<1>1. CASE accounts = <<>>
  <2>1. Len(accounts) = 0
    BY <1>1
  <2>2. PICK A : A = sync_template(accounts) /\ Chart(A) /\ Tree(A) /\ Full(A)
    BY <1>1, SyncEmpty
  <2>3. Extends(A)
    BY <2>1, <2>2 DEF Extends, Chart
  <2>. QED  BY <2>2, <2>3
<1>2. CASE Full(accounts)
  <2>1. sync_template(accounts) = accounts
    BY <1>2, SyncFull DEF IInv, ChartInv
  <2>2. Extends(accounts)
    BY <1>2 DEF Extends, IInv, ChartInv, Chart
  <2>. QED  BY <2>1, <2>2
<1>. QED  BY <1>1, <1>2 DEF IInv, ChartInv

\* What entries name is a row, in use.
LEMMA Posted ==
    ASSUME IInv, NEW a, has_postings(a)
    PROVE  a \in 1 .. Len(accounts) /\ ~accounts[a].deleted /\ ~accounts[a].group
  BY DEF IInv, has_postings, Lines, Journal, EntryRow, HistoryKeepsItsAccounts

\* sync_template() alone.
LEMMA SyncStep ==
    ASSUME IInv, accounts' = sync_template(accounts)
    PROVE  ChartStep
<1>1. Extends(accounts')
  BY Synced
<1>2. \A a \in 1 .. Len(accounts) : has_postings(a) => ~accounts'[a].deleted /\ ~accounts'[a].group
  BY <1>1, Posted DEF Extends
<1>. QED  BY <1>1, <1>2 DEF Extends, ChartStep, ChartInv, Kept

\* create_account(): the parent becomes a heading only if no entry names it.
LEMMA Inserted ==
    ASSUME IInv, NEW A, Extends(A), NEW row, AccountRow(row), row.parent \in 0 .. Len(A),
           Insert(A, row)
    PROVE  ChartStep
<1> DEFINE n == Len(A)
           B == [A EXCEPT ![row.parent].group = TRUE]
<1>1. n \in Nat /\ Chart(A) /\ Tree(A) /\ Full(A)
  BY DEF Extends, Chart
<1>2. B = [a \in 1 .. n |-> B[a]]
  BY <1>1 DEF Chart
<1>3. \A a \in 1 .. n : /\ AccountRow(B[a]) /\ B[a].code = A[a].code /\ B[a].type = A[a].type
                        /\ B[a].subtype = A[a].subtype /\ B[a].parent = A[a].parent
                        /\ B[a].system = A[a].system /\ B[a].deleted = A[a].deleted
                        /\ B[a].group = (A[a].group \/ a = row.parent)
  BY <1>1 DEF Chart, AccountRow
<1>4. accounts' = Append(B, row)
  BY DEF Insert
<1> HIDE DEF B
<1>5. accounts' = [a \in 1 .. n + 1 |-> IF a <= n THEN B[a] ELSE row]
  BY <1>1, <1>2, <1>4, AppendRow
<1> HIDE DEF n
<1>6. /\ accounts' = [a \in 1 .. n + 1 |-> accounts'[a]]
      /\ \A a \in 1 .. n : accounts'[a] = B[a]
      /\ accounts'[n + 1] = row /\ n + 1 \in 1 .. n + 1
      /\ \A a \in 1 .. n + 1 : a \in 1 .. n \/ a = n + 1
  BY <1>1, <1>5
<1>7. Len(accounts') = n + 1
  BY <1>1, <1>6, AppendRow
<1>8. Chart(accounts')
  <2>1. \A a \in 1 .. n + 1 : AccountRow(accounts'[a])
    BY <1>3, <1>6
  <2>. QED  BY <1>1, <1>6, <1>7, <2>1 DEF Chart
<1>9. Tree(accounts')
  <2> SUFFICES ASSUME NEW a \in 1 .. n + 1, accounts'[a].parent # 0
               PROVE  /\ accounts'[a].parent \in 1 .. n + 1
                      /\ accounts'[accounts'[a].parent].group
    BY <1>7 DEF Tree
  <2>1. CASE a \in 1 .. n
    <3>1. A[a].parent # 0 /\ A[a].parent \in 1 .. n /\ A[A[a].parent].group
      BY <1>1, <1>3, <1>6, <2>1 DEF Tree, n
    <3>2. B[A[a].parent].group
      BY <1>3, <3>1
    <3>. QED  BY <1>1, <1>3, <1>6, <2>1, <3>1, <3>2
  <2>2. CASE a = n + 1
    <3>1. row.parent \in 1 .. n /\ accounts'[a].parent = row.parent
      BY <1>1, <1>6, <2>2 DEF n, AccountRow
    <3>2. B[row.parent].group
      BY <1>3, <3>1
    <3>. QED  BY <1>1, <1>6, <3>1, <3>2
  <2>. QED  BY <1>6, <2>1, <2>2
<1>10. Full(accounts')
  <2> SUFFICES ASSUME NEW k \in DOMAIN DEFAULT_CHART
               PROVE  \E a \in 1 .. n + 1 : /\ accounts'[a].code = DEFAULT_CHART[k].code
                                            /\ accounts'[a].system /\ ~accounts'[a].deleted
    BY <1>7 DEF Full
  <2>1. PICK a \in 1 .. n : A[a].code = DEFAULT_CHART[k].code /\ A[a].system /\ ~A[a].deleted
    BY <1>1 DEF Full, n
  <2>2. a \in 1 .. n + 1
    BY <1>1
  <2>. QED  BY <1>3, <1>6, <2>1, <2>2
<1>11. Len(accounts) \in Nat /\ Len(accounts) <= n /\ \A a \in 1 .. Len(accounts) : a \in 1 .. n /\ A[a] = accounts[a]
  BY <1>1 DEF Extends, n, IInv, ChartInv, Chart
<1>12. Kept(accounts, accounts')
  BY <1>1, <1>3, <1>6, <1>7, <1>11 DEF Kept
<1>13. ASSUME NEW a \in 1 .. Len(accounts), has_postings(a)
       PROVE  ~accounts'[a].deleted /\ ~accounts'[a].group
  <2>1. ~A[a].deleted /\ ~A[a].group
    BY <1>11, <1>13, Posted
  <2>2. a # row.parent
    BY <1>13, <2>1 DEF Insert, MayBeParent
  <2>. QED  BY <1>3, <1>6, <1>11, <2>1, <2>2
<1>. QED  BY <1>8, <1>9, <1>10, <1>12, <1>13 DEF ChartStep, ChartInv

\* Archiving and deleting.
LEMMA RowStep ==
    ASSUME IInv, NEW a \in 1 .. Len(accounts), NEW active \in BOOLEAN,
           SetActive(a, active) \/ SoftDelete(a)
    PROVE  ChartStep
<1> DEFINE n == Len(accounts)
<1>1. n \in Nat /\ Chart(accounts) /\ Tree(accounts)
  BY DEF IInv, ChartInv, Chart
<1>2. /\ accounts' = [b \in 1 .. n |-> accounts'[b]]
      /\ \A b \in 1 .. n :
            /\ AccountRow(accounts'[b]) /\ accounts'[b].code = accounts[b].code
            /\ accounts'[b].type = accounts[b].type /\ accounts'[b].subtype = accounts[b].subtype
            /\ accounts'[b].parent = accounts[b].parent
            /\ accounts'[b].system = accounts[b].system
            /\ accounts'[b].group = accounts[b].group
            /\ accounts'[b].deleted => accounts[b].deleted \/ (~accounts[b].system /\ ~has_postings(b))
  <2>0. AccountRow(accounts[a]) /\ DOMAIN accounts = 1 .. n
    BY <1>1 DEF Chart
  <2>1. PICK r : /\ accounts' = [accounts EXCEPT ![a] = r] /\ AccountRow(r)
                 /\ r.code = accounts[a].code /\ r.type = accounts[a].type
                 /\ r.subtype = accounts[a].subtype /\ r.parent = accounts[a].parent
                 /\ r.system = accounts[a].system /\ r.group = accounts[a].group
                 /\ r.deleted => accounts[a].deleted \/ (~accounts[a].system /\ ~has_postings(a))
    <3>1. CASE SetActive(a, active)
      <4> DEFINE r == [accounts[a] EXCEPT !.active = active]
      <4>1. accounts' = [accounts EXCEPT ![a] = r]
        BY <3>1 DEF SetActive
      <4>2. /\ AccountRow(r) /\ r.code = accounts[a].code /\ r.type = accounts[a].type
            /\ r.subtype = accounts[a].subtype /\ r.parent = accounts[a].parent
            /\ r.system = accounts[a].system /\ r.group = accounts[a].group
            /\ r.deleted => accounts[a].deleted
        BY <2>0 DEF AccountRow
      <4> HIDE DEF r
      <4>. QED  BY <4>1, <4>2
    <3>2. CASE SoftDelete(a)
      <4> DEFINE r == [accounts[a] EXCEPT !.deleted = TRUE]
      <4>1. accounts' = [accounts EXCEPT ![a] = r] /\ ~accounts[a].system /\ ~has_postings(a)
        BY <3>2 DEF SoftDelete, Deletable
      <4>2. /\ AccountRow(r) /\ r.code = accounts[a].code /\ r.type = accounts[a].type
            /\ r.subtype = accounts[a].subtype /\ r.parent = accounts[a].parent
            /\ r.system = accounts[a].system /\ r.group = accounts[a].group
        BY <2>0 DEF AccountRow
      <4> HIDE DEF r
      <4>. QED  BY <4>1, <4>2
    <3>. QED  BY <3>1, <3>2
  <2>2. /\ accounts' = [b \in 1 .. n |-> accounts'[b]] /\ accounts'[a] = r
        /\ \A b \in 1 .. n : b # a => accounts'[b] = accounts[b] /\ AccountRow(accounts[b])
    BY <1>1, <2>0, <2>1 DEF Chart
  <2>3. ASSUME NEW b \in 1 .. n
        PROVE  /\ AccountRow(accounts'[b]) /\ accounts'[b].code = accounts[b].code
               /\ accounts'[b].type = accounts[b].type /\ accounts'[b].subtype = accounts[b].subtype
               /\ accounts'[b].parent = accounts[b].parent
               /\ accounts'[b].system = accounts[b].system
               /\ accounts'[b].group = accounts[b].group
               /\ accounts'[b].deleted => accounts[b].deleted \/ (~accounts[b].system /\ ~has_postings(b))
    <3>1. CASE b = a
      BY <2>1, <2>2, <3>1
    <3>2. CASE b # a
      BY <2>2, <3>2
    <3>. QED  BY <3>1, <3>2
  <2>. QED  BY <2>2, <2>3
<1>3. Len(accounts') = n
  BY <1>1, <1>2, AppendRow
<1>4. Chart(accounts') /\ Kept(accounts, accounts')
  BY <1>1, <1>2, <1>3 DEF Chart, Kept
<1>5. Tree(accounts')
  BY <1>1, <1>2, <1>3 DEF Tree
<1>6. Full(accounts')
  <2>1. Full(accounts)
    <3>1. accounts # <<>>
      BY <1>1
    <3>. QED  BY <3>1 DEF IInv, ChartInv
  <2>. QED  BY <1>2, <1>3, <2>1 DEF Full
<1>7. \A b \in 1 .. n : has_postings(b) => ~accounts'[b].deleted /\ ~accounts'[b].group
  BY <1>2, Posted
<1>. QED  BY <1>4, <1>5, <1>6, <1>7 DEF ChartStep, ChartInv

----------------------------------------------------------------------------
(* What requests do to what hangs on the chart.                            *)

\* A debit card's account stays cash or a bank.
LEMMA CardsKept ==
    ASSUME IInv, ChartStep, NEW c \in cards
    PROVE  /\ c \in [kind: CardKind, face: Faces, account: 1 .. Len(accounts'), active: BOOLEAN]
           /\ c.kind = "debit" => is_cash_equivalent(accounts'[c.account])
  BY DEF IInv, ChartStep, ChartInv, Chart, Kept, CardInv, is_cash_equivalent

\* An entry reads as it did.
LEMMA ReadsSame ==
    ASSUME IInv, ChartStep, NEW e, e.debit \in 1 .. Len(accounts), e.credit \in 1 .. Len(accounts)
    PROVE  (Readable(e) <=> Readable(e)') /\ _to_entry(e)' = _to_entry(e)
<1>1. /\ accounts'[e.debit].type = accounts[e.debit].type
      /\ accounts'[e.credit].type = accounts[e.credit].type
  BY DEF ChartStep, Kept
<1>2. (OnPL(e.debit) <=> OnPL(e.debit)') /\ (OnPL(e.credit) <=> OnPL(e.credit)')
  BY <1>1 DEF OnPL, is_profit_and_loss
<1>3. Readable(e) <=> Readable(e)'
  BY <1>1 DEF Readable, OnPL, is_profit_and_loss
<1>4. MoneyLine(e)' = MoneyLine(e) /\ CategoryLine(e)' = CategoryLine(e)
  BY <1>2 DEF MoneyLine, CategoryLine
<1>. QED  BY <1>3, <1>4 DEF _to_entry

\* The entries stand, on the changed chart.
LEMMA EntriesStand ==
    ASSUME IInv, ChartStep, NEW i \in 1 .. Len(entries), NEW e, e = entries[i]
    PROVE  /\ EntryRow(e)'
           /\ \A a \in Lines(e) : ~accounts'[a].deleted /\ ~accounts'[a].group
           /\ _entry_query(i) => Readable(e)' /\ _to_entry(e)' = e.asked
<1>1. EntryRow(e) /\ DOMAIN entries = 1 .. Len(entries)
  BY DEF IInv, Journal
<1>2. Len(accounts) \in Nat /\ Len(accounts') \in Nat /\ Len(accounts) <= Len(accounts')
  BY DEF IInv, ChartStep, ChartInv, Chart, Kept
<1>3. EntryRow(e)'
  BY <1>1, <1>2 DEF EntryRow
<1>4. \A a \in Lines(e) : a \in 1 .. Len(accounts) /\ has_postings(a)
  BY <1>1 DEF has_postings, Lines, EntryRow
<1>5. \A a \in Lines(e) : ~accounts'[a].deleted /\ ~accounts'[a].group
  BY <1>4 DEF ChartStep
<1>6. ASSUME _entry_query(i) PROVE Readable(e)' /\ _to_entry(e)' = e.asked
  <2>1. Readable(e) /\ _to_entry(e) = e.asked
    BY <1>1, <1>6 DEF IInv, DayBookReadsBack
  <2>2. e.debit \in 1 .. Len(accounts) /\ e.credit \in 1 .. Len(accounts)
    BY <1>1 DEF EntryRow
  <2>. QED  BY <2>1, <2>2, ReadsSame
<1>. QED  BY <1>3, <1>5, <1>6

\* A step that leaves the journal alone.
LEMMA ChangesChart ==
    ASSUME IInv, ChartStep, CardInv', entries' = entries
    PROVE  IInv'
<1>1. Len(entries) \in Nat /\ entries = [i \in 1 .. Len(entries) |-> entries[i]]
      /\ DOMAIN entries = 1 .. Len(entries)
  BY DEF IInv, Journal
<1>2. ASSUME NEW i \in 1 .. Len(entries)
      PROVE  /\ EntryRow(entries[i])'
             /\ \A a \in Lines(entries[i])' : ~accounts'[a].deleted /\ ~accounts'[a].group
             /\ _entry_query(i)' => /\ Readable(entries[i])'
                                    /\ _to_entry(entries[i])' = (entries[i].asked)'
  <2>1. PICK e : e = entries[i]
    OBVIOUS
  <2>2. /\ EntryRow(e)'
        /\ \A a \in Lines(e) : ~accounts'[a].deleted /\ ~accounts'[a].group
        /\ _entry_query(i) => Readable(e)' /\ _to_entry(e)' = e.asked
    BY <2>1, EntriesStand
  <2>3. entries'[i] = e
    BY <2>1
  <2>. QED  BY <2>1, <2>2, <2>3 DEF EntryRow, Lines, _entry_query, Readable, _to_entry, MoneyLine, CategoryLine, OnPL
<1>3. Journal'
  BY <1>1, <1>2 DEF Journal
<1>4. HistoryKeepsItsAccounts'
  BY <1>1, <1>2 DEF HistoryKeepsItsAccounts
<1>5. DayBookReadsBack'
  BY <1>1, <1>2 DEF DayBookReadsBack
<1>. QED  BY <1>3, <1>4, <1>5 DEF IInv, ChartStep

\* f differs from e at most in being reversed.
SameEntry(e, f) ==
    /\ f.source = e.source /\ f.debit = e.debit /\ f.credit = e.credit /\ f.amount = e.amount
    /\ f.day = e.day /\ f.reverses = e.reverses /\ f.asked = e.asked

\* A step that adds an entry, and may mark one reversed.
LEMMA AddsEntry ==
    ASSUME IInv, ChartStep, CardInv', NEW E, NEW e, entries' = Append(E, e),
           E = [i \in 1 .. Len(entries) |-> E[i]],
           \A i \in 1 .. Len(entries) : SameEntry(entries[i], E[i]) /\ EntryRow(E[i]),
           EntryRow(e)', \A a \in Lines(e) : ~accounts'[a].deleted /\ ~accounts'[a].group,
           e.source = "billing" /\ e.reverses = 0 => Readable(e)' /\ _to_entry(e)' = e.asked
    PROVE  IInv'
<1> DEFINE n == Len(entries)
<1>1. n \in Nat
  BY DEF IInv, Journal
<1> HIDE DEF n
<1>2. entries' = [i \in 1 .. n + 1 |-> IF i <= n THEN E[i] ELSE e]
  BY <1>1, AppendRow DEF n
<1>3. /\ entries' = [i \in 1 .. n + 1 |-> entries'[i]] /\ entries'[n + 1] = e
      /\ \A i \in 1 .. n : entries'[i] = E[i]
      /\ \A i \in 1 .. n + 1 : i \in 1 .. n \/ i = n + 1
  BY <1>1, <1>2
<1>4. Len(entries') = n + 1 /\ DOMAIN entries' = 1 .. n + 1
  BY <1>1, <1>3, AppendRow
<1>5. ASSUME NEW i \in 1 .. n + 1
      PROVE  /\ EntryRow(entries[i])'
             /\ \A a \in Lines(entries[i])' : ~accounts'[a].deleted /\ ~accounts'[a].group
             /\ _entry_query(i)' => /\ Readable(entries[i])'
                                    /\ _to_entry(entries[i])' = (entries[i].asked)'
  <2>1. CASE i \in 1 .. n
    <3>1. PICK f, g : f = entries[i] /\ g = E[i]
      OBVIOUS
    <3>2. /\ EntryRow(f)'
          /\ \A a \in Lines(f) : ~accounts'[a].deleted /\ ~accounts'[a].group
          /\ _entry_query(i) => Readable(f)' /\ _to_entry(f)' = f.asked
      BY <2>1, <3>1, EntriesStand DEF n
    <3>3. SameEntry(f, g) /\ EntryRow(g) /\ entries'[i] = g
      BY <1>3, <2>1, <3>1 DEF n
    <3>4. EntryRow(g)'
      BY <3>2, <3>3 DEF SameEntry, EntryRow
    <3>5. (Readable(g)' <=> Readable(f)') /\ _to_entry(g)' = _to_entry(f)'
      BY <3>3 DEF SameEntry, Readable, _to_entry, MoneyLine, CategoryLine, OnPL, is_profit_and_loss
    <3>6. _entry_query(i)' => _entry_query(i)
      BY <3>1, <3>3 DEF _entry_query, SameEntry
    <3>7. Lines(g) = Lines(f) /\ g.asked = f.asked
      BY <3>3 DEF Lines, SameEntry
    <3>8. /\ EntryRow(g)'
          /\ \A a \in Lines(g) : ~accounts'[a].deleted /\ ~accounts'[a].group
          /\ _entry_query(i)' => Readable(g)' /\ _to_entry(g)' = g.asked
      BY <3>2, <3>4, <3>5, <3>6, <3>7
    <3>. QED  BY <3>3, <3>8 DEF EntryRow, Lines, Readable, _to_entry, MoneyLine, CategoryLine, OnPL
  <2>2. CASE i = n + 1
    <3>1. entries'[i] = e
      BY <1>3, <2>2
    <3>2. _entry_query(i)' => Readable(e)' /\ _to_entry(e)' = e.asked
      BY <3>1 DEF _entry_query
    <3>. QED  BY <3>1, <3>2 DEF EntryRow, Lines, Readable, _to_entry, MoneyLine, CategoryLine, OnPL
  <2>. QED  BY <1>3, <2>1, <2>2
<1>6. Journal'
  <2>1. \A i \in 1 .. Len(entries') : EntryRow(entries[i])'
    BY <1>4, <1>5
  <2>2. entries' = [i \in 1 .. Len(entries') |-> entries'[i]] /\ Len(entries') \in Nat
    BY <1>1, <1>3, <1>4
  <2>. QED  BY <2>1, <2>2 DEF Journal
<1>7. HistoryKeepsItsAccounts'
  BY <1>4, <1>5 DEF HistoryKeepsItsAccounts
<1>8. DayBookReadsBack'
  BY <1>4, <1>5 DEF DayBookReadsBack
<1>. QED  BY <1>6, <1>7, <1>8 DEF IInv, ChartStep

----------------------------------------------------------------------------
(* The requests.                                                           *)

\* What a request adds to the chart is a row.
LEMMA NewRow ==
    ASSUME NEW code, NEW name, NEW type \in AccountType, NEW subtype \in AccountSubtype,
           NEW parent \in Nat
    PROVE  LET r == NewAccount(code, name, type, subtype, parent)
           IN  AccountRow(r) /\ r.parent = parent /\ r.code = code
  BY DEF NewAccount, Account, AccountRow

\* The accounts that the code names are found by their codes.
LEMMA Found ==
    ASSUME NEW A, Chart(A), Full(A), NEW code \in {1100, 1120, 2100, 4100, 5250}
    PROVE  ByCode(A, code) \in 1 .. Len(A) /\ AccountRow(A[ByCode(A, code)])
<1>1. \E k \in 1 .. 9 : DEFAULT_CHART[k].code = code
  <2>1. DEFAULT_CHART[1].code = 1100
    BY DEF DEFAULT_CHART, AccountSpec, Account
  <2>2. DEFAULT_CHART[3].code = 1120
    BY DEF DEFAULT_CHART, AccountSpec, Account
  <2>3. DEFAULT_CHART[5].code = 2100
    BY DEF DEFAULT_CHART, AccountSpec, Account
  <2>4. DEFAULT_CHART[7].code = 4100
    BY DEF DEFAULT_CHART, AccountSpec, Account
  <2>5. DEFAULT_CHART[9].code = 5250
    BY DEF DEFAULT_CHART, AccountSpec, Account
  <2>. QED  BY <2>1, <2>2, <2>3, <2>4, <2>5
<1>2. PICK a \in 1 .. Len(A) : A[a].code = code /\ ~A[a].deleted
  <2>1. PICK k \in 1 .. 9 : DEFAULT_CHART[k].code = code
    BY <1>1
  <2>2. k \in DOMAIN DEFAULT_CHART
    BY Template
  <2>. QED  BY <2>1, <2>2 DEF Full
<1>3. a \in Live(A) /\ Live(A) \subseteq 1 .. Len(A)
  BY <1>2 DEF Live, Chart
<1>4. ByCode(A, code) \in Live(A)
  BY <1>2, <1>3 DEF ByCode
<1>. QED  BY <1>3, <1>4 DEF Chart

\* create_account(), from the accounting screen.
LEMMA CreateAccountInv == ASSUME IInv, create_account PROVE ChartStep /\ IInv'
<1>1. PICK data \in AccountCreate, parent \in Live(accounts) :
        Insert(accounts, NewAccount(_next_code(accounts, data.parent), data.name,
                                       accounts[parent].type, data.subtype, parent))
  BY DEF create_account
<1> DEFINE row == NewAccount(_next_code(accounts, data.parent), data.name,
                                       accounts[parent].type, data.subtype, parent)
<1>2. /\ parent \in 1 .. Len(accounts) /\ Len(accounts) \in Nat /\ AccountRow(accounts[parent])
      /\ data.subtype \in AccountSubtype
  BY DEF IInv, ChartInv, Chart, Live, AccountCreate
<1>3. AccountRow(row) /\ row.parent \in 0 .. Len(accounts)
  BY <1>2, NewRow DEF AccountRow
<1>4. Extends(accounts)
  <2>1. accounts # <<>>
    BY <1>2
  <2>. QED  BY <1>2, <2>1 DEF IInv, ChartInv, Extends
<1> HIDE DEF row
<1>5. ChartStep
  BY <1>1, <1>3, <1>4, Inserted DEF row
<1>6. cards' = cards /\ entries' = entries
  BY DEF create_account
<1>7. CardInv'
  BY <1>5, <1>6, CardsKept DEF CardInv
<1>. QED  BY <1>5, <1>6, <1>7, ChangesChart

\* Archiving, restoring and deleting accounts, from either screen.
LEMMA RowsInv ==
    ASSUME IInv, update_account \/ delete_account \/ set_money_account_active \/ delete_money_account
    PROVE  ChartStep /\ IInv'
<1>1. PICK a \in Live(accounts), active \in BOOLEAN : SetActive(a, active) \/ SoftDelete(a)
  BY DEF update_account, delete_account, set_money_account_active, delete_money_account
<1>2. a \in 1 .. Len(accounts)
  BY DEF IInv, ChartInv, Chart, Live
<1>3. ChartStep
  BY <1>1, <1>2, RowStep
<1>4. cards' = cards /\ entries' = entries
  BY DEF update_account, delete_account, set_money_account_active, delete_money_account
<1>5. CardInv'
  BY <1>3, <1>4, CardsKept DEF CardInv
<1>. QED  BY <1>3, <1>4, <1>5, ChangesChart

\* Nothing happens to the chart.
LEMMA Same == ASSUME IInv, accounts' = accounts PROVE ChartStep
  BY Posted DEF IInv, ChartInv, ChartStep, Kept, Chart

\* Years and periods touch neither the chart nor the journal.
LEMMA CalendarInv ==
    ASSUME IInv, create_year \/ close_period \/ reopen_period \/ update_bank_details
    PROVE  ChartStep /\ IInv'
<1>1. accounts' = accounts /\ cards' = cards /\ entries' = entries
  BY DEF create_year, close_period, reopen_period, update_bank_details
<1>2. ChartStep
  BY <1>1, Same
<1>3. CardInv'
  BY <1>1, <1>2, CardsKept DEF CardInv
<1>. QED  BY <1>1, <1>2, <1>3, ChangesChart

\* create_category() files the account beside the default category.
LEMMA CategoryInv == ASSUME IInv, create_category PROVE ChartStep /\ IInv'
<1> DEFINE A == sync_template(accounts)
<1>1. PICK data \in CreateCategoryRequest :
        LET anchor == A[ByCode(A, DEFAULT_CODE(data.direction))]
        IN  Insert(A, NewAccount(_next_code(A, A[anchor.parent].code), data.name,
                                 category_type(data.direction), anchor.subtype, anchor.parent))
  BY DEF create_category
<1>2. Extends(A)
  BY Synced
<1> HIDE DEF A
<1> DEFINE b == ByCode(A, DEFAULT_CODE(data.direction))
           row == NewAccount(_next_code(A, A[A[b].parent].code), data.name,
                             category_type(data.direction), A[b].subtype, A[b].parent)
<1>3. b \in 1 .. Len(A) /\ AccountRow(A[b])
  <2>1. DEFAULT_CODE(data.direction) \in {1100, 1120, 2100, 4100, 5250}
    BY DEF DEFAULT_CODE
  <2>. QED  BY <1>2, <2>1, Found DEF Extends
<1>4. /\ A[b].subtype \in AccountSubtype /\ A[b].parent \in 0 .. Len(A) /\ A[b].parent \in Nat
      /\ category_type(data.direction) \in AccountType
  BY <1>2, <1>3 DEF Extends, Tree, Chart, AccountRow, category_type, AccountType
<1> HIDE DEF b
<1>5. AccountRow(row) /\ row.parent \in 0 .. Len(A)
  BY <1>4, NewRow
<1>6. Insert(A, row)
  BY <1>1 DEF b
<1> HIDE DEF row
<1>7. ChartStep
  BY <1>2, <1>5, <1>6, Inserted
<1>8. cards' = cards /\ entries' = entries
  BY DEF create_category
<1>9. CardInv'
  BY <1>7, <1>8, CardsKept DEF CardInv
<1>. QED  BY <1>7, <1>8, <1>9, ChangesChart

\* create_money_account() files a bank under the banks, if those are a heading.
LEMMA MoneyAccountInv == ASSUME IInv, create_money_account PROVE ChartStep /\ IInv'
<1> DEFINE A == sync_template(accounts)
<1>1. PICK data \in CreateMoneyAccountRequest :
        LET isBank == data.kind = "bank"
            banks == ByCode(A, 1120)
            parent == IF isBank /\ A[banks].group THEN banks ELSE ByCode(A, 1100)
            code == _next_code(A, IF isBank THEN 1120 ELSE 1110)
        IN  Insert(A, NewAccount(code, data.name, "asset", data.kind, parent))
  BY DEF create_money_account
<1>2. Extends(A)
  BY Synced
<1> HIDE DEF A
<1> DEFINE parent == IF data.kind = "bank" /\ A[ByCode(A, 1120)].group THEN ByCode(A, 1120)
                     ELSE ByCode(A, 1100)
           row == NewAccount(_next_code(A, IF data.kind = "bank" THEN 1120 ELSE 1110),
                             data.name, "asset", data.kind, parent)
<1>3. ByCode(A, 1120) \in 1 .. Len(A) /\ ByCode(A, 1100) \in 1 .. Len(A)
  BY <1>2, Found DEF Extends
<1>4. parent \in 0 .. Len(A) /\ parent \in Nat
  BY <1>2, <1>3 DEF Extends, Chart
<1>5. data.kind \in AccountSubtype /\ "asset" \in AccountType
  BY DEF CreateMoneyAccountRequest, AccountSubtype, AccountType
<1>6. Insert(A, row)
  BY <1>1
<1> HIDE DEF parent
<1>7. AccountRow(row) /\ row.parent \in 0 .. Len(A)
  BY <1>4, <1>5, NewRow
<1> HIDE DEF row
<1>8. ChartStep
  BY <1>2, <1>6, <1>7, Inserted
<1>9. cards' = cards /\ entries' = entries
  BY DEF create_money_account
<1>10. CardInv'
  BY <1>8, <1>9, CardsKept DEF CardInv
<1>. QED  BY <1>8, <1>9, <1>10, ChangesChart

\* create_card(): a credit card comes with an account, a debit card names one.
LEMMA CardInvCreate == ASSUME IInv, create_card PROVE ChartStep /\ IInv'
<1> DEFINE A == sync_template(accounts)
<1>1. PICK data \in AddCardRequest :
           \/ /\ data.kind = "credit"
              /\ _create_card_liability_account(A, data.face)
              /\ cards' = cards \cup {Card("credit", data.face, Len(A) + 1)}
           \/ /\ data.kind = "debit"
              /\ accounts' = A
              /\ \E a \in Postable(A) : /\ is_cash_equivalent(A[a])
                                        /\ cards' = cards \cup {Card("debit", data.face, a)}
  BY DEF create_card
<1>2. Extends(A)
  BY Synced
<1>3. entries' = entries /\ data.face \in Faces
  BY DEF create_card, AddCardRequest
<1>4. CASE /\ data.kind = "credit"
           /\ _create_card_liability_account(A, data.face)
           /\ cards' = cards \cup {Card("credit", data.face, Len(A) + 1)}
  <2> HIDE DEF A
  <2> DEFINE row == NewAccount(_next_code(A, 2100), data.face, "liability", "other", ByCode(A, 2100))
  <2>1. ByCode(A, 2100) \in 1 .. Len(A) /\ Len(A) \in Nat
    BY <1>2, Found DEF Extends, Chart
  <2>2. AccountRow(row) /\ row.parent \in 0 .. Len(A)
    BY <2>1, NewRow DEF AccountType, AccountSubtype
  <2>3. Insert(A, row)
    BY <1>4 DEF _create_card_liability_account
  <2> HIDE DEF row
  <2>4. ChartStep
    BY <1>2, <2>2, <2>3, Inserted
  <2>5. Len(accounts') = Len(A) + 1
    <3>1. PICK B : B = [A EXCEPT ![row.parent].group = TRUE]
      OBVIOUS
    <3>2. B = [a \in 1 .. Len(A) |-> B[a]] /\ accounts' = Append(B, row)
      BY <1>2, <2>3, <3>1 DEF Insert, Extends, Chart
    <3>3. accounts' = [a \in 1 .. Len(A) + 1 |-> IF a <= Len(A) THEN B[a] ELSE row]
      BY <2>1, <3>2, AppendRow
    <3>4. accounts' = [a \in 1 .. Len(A) + 1 |-> accounts'[a]]
      BY <3>3
    <3>. QED  BY <2>1, <3>4, AppendRow
  <2>6. CardInv'
    <3>1. ASSUME NEW c \in cards'
          PROVE  /\ c \in [kind: CardKind, face: Faces, account: 1 .. Len(accounts'), active: BOOLEAN]
                 /\ c.kind = "debit" => is_cash_equivalent(accounts'[c.account])
      <4>1. CASE c \in cards
        BY <2>4, <4>1, CardsKept
      <4>2. CASE c = Card("credit", data.face, Len(A) + 1)
        BY <1>3, <2>1, <2>5, <4>2 DEF Card, CardKind
      <4>. QED  BY <1>4, <4>1, <4>2
    <3>. QED  BY <3>1 DEF CardInv
  <2>. QED  BY <1>3, <2>4, <2>6, ChangesChart
<1>5. CASE /\ data.kind = "debit"
           /\ accounts' = A
           /\ \E a \in Postable(A) : /\ is_cash_equivalent(A[a])
                                     /\ cards' = cards \cup {Card("debit", data.face, a)}
  <2>1. ChartStep
    BY <1>5, SyncStep
  <2> HIDE DEF A
  <2>2. PICK a \in Postable(A) : /\ is_cash_equivalent(A[a])
                                 /\ cards' = cards \cup {Card("debit", data.face, a)}
    BY <1>5
  <2>3. a \in 1 .. Len(accounts')
    BY <1>2, <1>5 DEF Extends, Chart, Postable, list_for_org, Live
  <2>4. ASSUME NEW c \in cards'
        PROVE  /\ c \in [kind: CardKind, face: Faces, account: 1 .. Len(accounts'), active: BOOLEAN]
               /\ c.kind = "debit" => is_cash_equivalent(accounts'[c.account])
    <3>1. CASE c \in cards
      BY <2>1, <3>1, CardsKept
    <3>2. CASE c = Card("debit", data.face, a)
      BY <1>3, <1>5, <2>2, <2>3, <3>2 DEF Card, CardKind
    <3>. QED  BY <2>2, <3>1, <3>2
  <2>5. CardInv'
    BY <2>4 DEF CardInv
  <2>. QED  BY <1>3, <2>1, <2>5, ChangesChart
<1>. QED  BY <1>1, <1>4, <1>5

\* update_card() changes neither the kind of a card nor its account.
LEMMA CardInvUpdate == ASSUME IInv, update_card PROVE ChartStep /\ IInv'
<1>1. accounts' = accounts /\ entries' = entries
  BY DEF update_card
<1>2. ChartStep
  BY <1>1, Same
<1>3. PICK c \in cards :
           \/ \E face \in Faces : cards' = (cards \ {c}) \cup {[c EXCEPT !.face = face]}
           \/ \E active \in BOOLEAN : cards' = (cards \ {c}) \cup {[c EXCEPT !.active = active]}
  BY DEF update_card
<1>4. /\ c \in [kind: CardKind, face: Faces, account: 1 .. Len(accounts), active: BOOLEAN]
      /\ c.kind = "debit" => is_cash_equivalent(accounts[c.account])
  BY DEF IInv, CardInv
<1>5. PICK d : /\ cards' = (cards \ {c}) \cup {d}
               /\ d \in [kind: CardKind, face: Faces, account: 1 .. Len(accounts), active: BOOLEAN]
               /\ d.kind = c.kind /\ d.account = c.account
  <2>1. CASE \E face \in Faces : cards' = (cards \ {c}) \cup {[c EXCEPT !.face = face]}
    <3>1. PICK face \in Faces : cards' = (cards \ {c}) \cup {[c EXCEPT !.face = face]}
      BY <2>1
    <3> DEFINE d == [c EXCEPT !.face = face]
    <3>2. /\ d \in [kind: CardKind, face: Faces, account: 1 .. Len(accounts), active: BOOLEAN]
          /\ d.kind = c.kind /\ d.account = c.account
      BY <1>4
    <3>. QED  BY <3>1, <3>2
  <2>2. CASE \E active \in BOOLEAN : cards' = (cards \ {c}) \cup {[c EXCEPT !.active = active]}
    <3>1. PICK active \in BOOLEAN : cards' = (cards \ {c}) \cup {[c EXCEPT !.active = active]}
      BY <2>2
    <3> DEFINE d == [c EXCEPT !.active = active]
    <3>2. /\ d \in [kind: CardKind, face: Faces, account: 1 .. Len(accounts), active: BOOLEAN]
          /\ d.kind = c.kind /\ d.account = c.account
      BY <1>4
    <3>. QED  BY <3>1, <3>2
  <2>. QED  BY <1>3, <2>1, <2>2
<1>6. CardInv'
  BY <1>1, <1>4, <1>5 DEF CardInv, IInv
<1>. QED  BY <1>1, <1>2, <1>6, ChangesChart

\* delete_card() deletes a credit card's account, unless entries name it.
LEMMA CardInvDelete == ASSUME IInv, delete_card PROVE ChartStep /\ IInv'
<1>1. PICK c \in cards : /\ cards' = cards \ {c}
                         /\ \/ c.account \in Live(accounts) /\ SoftDelete(c.account)
                            \/ accounts' = accounts
  BY DEF delete_card
<1>2. entries' = entries
  BY DEF delete_card
<1>3. ChartStep
  <2>1. CASE c.account \in Live(accounts) /\ SoftDelete(c.account)
    BY <2>1, RowStep DEF IInv, CardInv
  <2>2. CASE accounts' = accounts
    BY <2>2, Same
  <2>. QED  BY <1>1, <2>1, <2>2
<1>4. CardInv'
  BY <1>1, <1>3, CardsKept DEF CardInv
<1>. QED  BY <1>2, <1>3, <1>4, ChangesChart

\* What a new entry names is postable.
LEMMA PostsEntry ==
    ASSUME IInv, NEW e, accounts' = sync_template(accounts), cards' = cards,
           Post(accounts', e),
           e \in [source: {"billing", "transfer"}, debit: {e.debit}, credit: {e.credit},
                  amount: Nat, day: {e.day}, reversed: BOOLEAN, reverses: Nat,
                  asked: {e.asked}],
           e.source = "billing" /\ e.reverses = 0 => Readable(e)' /\ _to_entry(e)' = e.asked
    PROVE  ChartStep /\ IInv'
<1>1. ChartStep
  BY SyncStep
<1>2. CardInv'
  BY <1>1, CardsKept DEF CardInv
<1>3. /\ e.debit \in 1 .. Len(accounts') /\ ~accounts'[e.debit].deleted
      /\ ~accounts'[e.debit].group
      /\ e.credit \in 1 .. Len(accounts') /\ ~accounts'[e.credit].deleted
      /\ ~accounts'[e.credit].group
  BY <1>1 DEF Post, Postable, list_for_org, Live, ChartStep, ChartInv, Chart
<1>4. EntryRow(e)'
  BY <1>3 DEF EntryRow
<1>5. \A a \in Lines(e) : ~accounts'[a].deleted /\ ~accounts'[a].group
  BY <1>3 DEF Lines
<1>6. /\ entries' = Append(entries, e) /\ entries = [i \in 1 .. Len(entries) |-> entries[i]]
      /\ \A i \in 1 .. Len(entries) : SameEntry(entries[i], entries[i]) /\ EntryRow(entries[i])
  BY DEF Post, IInv, Journal, SameEntry
<1>. QED  BY <1>1, <1>2, <1>4, <1>5, <1>6, AddsEntry

\* record(): the type of the category says which line is the money.
LEMMA RecordInv == ASSUME IInv, record PROVE ChartStep /\ IInv'
<1> DEFINE A == sync_template(accounts)
<1>0. PICK data \in RecordEntryRequest :
        \E category \in _resolve_category(A, data.direction),
           money \in _resolve_money_account(A) :
             LET lines == Sides(data.direction, category, money)
                 e == Entry("billing", lines.debit, lines.credit, data.amount, data.day,
                            <<data.direction, data.amount, category, money>>)
             IN  /\ ensure_books(data.day) /\ Post(A, e) /\ Readable(e)'
  BY DEF record
<1>1. PICK category \in _resolve_category(A, data.direction),
           money \in _resolve_money_account(A) :
             LET lines == Sides(data.direction, category, money)
                 e == Entry("billing", lines.debit, lines.credit, data.amount, data.day,
                            <<data.direction, data.amount, category, money>>)
             IN  /\ ensure_books(data.day) /\ Post(A, e) /\ Readable(e)'
  BY <1>0
<1>2. PICK lines, e :
        /\ lines = Sides(data.direction, category, money)
        /\ e = Entry("billing", lines.debit, lines.credit, data.amount,
                     data.day, <<data.direction, data.amount, category, money>>)
  OBVIOUS
<1>3. accounts' = A /\ cards' = cards
  BY <1>1 DEF ensure_books, record
<1>4. Post(A, e) /\ Readable(e)'
  BY <1>1, <1>2
<1>5. data.amount \in Nat /\ data.direction \in {"in", "out"}
  <2>1. data.amount \in Amounts /\ data.direction \in Direction
    BY DEF RecordEntryRequest
  <2>2. MaxAmount \in Nat
    BY BooksAssumption
  <2>. QED  BY <2>1, <2>2 DEF Amounts, Direction
<1>6. /\ e \in [source: {"billing", "transfer"}, debit: {e.debit}, credit: {e.credit},
                amount: Nat, day: {e.day}, reversed: BOOLEAN, reverses: Nat, asked: {e.asked}]
      /\ e.amount = data.amount /\ e.asked = <<data.direction, data.amount, category, money>>
      /\ e.debit = (IF data.direction = "out" THEN category ELSE money)
      /\ e.credit = (IF data.direction = "out" THEN money ELSE category)
  <2>1. /\ lines.debit = (IF data.direction = "out" THEN category ELSE money)
        /\ lines.credit = (IF data.direction = "out" THEN money ELSE category)
    BY <1>2 DEF Sides
  <2>. QED  BY <1>2, <1>5, <2>1 DEF Entry
<1>7. accounts'[category].type = category_type(data.direction)
  BY <1>3 DEF _resolve_category
<1>8. OnPL(category)'
  BY <1>7 DEF OnPL, is_profit_and_loss, category_type
<1>9. ~OnPL(money)' /\ money # category
  BY <1>4, <1>5, <1>6, <1>8 DEF Readable, OnPL, is_profit_and_loss
<1>10. _to_entry(e)' = e.asked
  <2>1. CASE data.direction = "out"
    <3>1. e.debit = category /\ e.credit = money
      BY <1>6, <2>1
    <3>2. MoneyLine(e)' = money /\ CategoryLine(e)' = category
      BY <1>8, <3>1 DEF MoneyLine, CategoryLine, OnPL
    <3>. QED  BY <1>6, <2>1, <3>1, <3>2 DEF _to_entry
  <2>2. CASE data.direction = "in"
    <3>1. e.debit = money /\ e.credit = category
      BY <1>6, <2>2
    <3>2. MoneyLine(e)' = money /\ CategoryLine(e)' = category
      BY <1>9, <3>1 DEF MoneyLine, CategoryLine, OnPL
    <3>. QED  BY <1>6, <1>9, <2>2, <3>1, <3>2 DEF _to_entry
  <2>. QED  BY <1>5, <2>1, <2>2
<1> HIDE DEF A
<1>11. accounts' = sync_template(accounts) /\ Post(accounts', e)
  BY <1>3, <1>4 DEF A
<1>. QED  BY <1>3, <1>4, <1>6, <1>10, <1>11, PostsEntry

\* transfer(): its entry is not part of the day book.
LEMMA TransferInv == ASSUME IInv, transfer PROVE ChartStep /\ IInv'
<1> DEFINE A == sync_template(accounts)
<1>1. PICK data \in TransferRequest, from \in _spendable_account_ids(A),
           to \in _spendable_account_ids(A) :
             /\ ensure_books(data.day)
             /\ Post(A, Entry("transfer", to, from, data.amount, data.day, <<>>))
  BY DEF transfer
<1>2. PICK e : e = Entry("transfer", to, from, data.amount, data.day, <<>>)
  OBVIOUS
<1>3. accounts' = A /\ cards' = cards /\ Post(A, e)
  BY <1>1, <1>2 DEF ensure_books, transfer
<1>4. data.amount \in Nat
  <2>1. data.amount \in Amounts
    BY DEF TransferRequest
  <2>2. MaxAmount \in Nat
    BY BooksAssumption
  <2>. QED  BY <2>1, <2>2 DEF Amounts
<1>5. /\ e \in [source: {"billing", "transfer"}, debit: {e.debit}, credit: {e.credit},
                amount: Nat, day: {e.day}, reversed: BOOLEAN, reverses: Nat, asked: {e.asked}]
      /\ e.source # "billing"
  BY <1>2, <1>4 DEF Entry
<1> HIDE DEF A
<1>6. accounts' = sync_template(accounts) /\ Post(accounts', e)
  BY <1>3 DEF A
<1>. QED  BY <1>3, <1>5, <1>6, PostsEntry

\* The mirror image of an entry is no entry of the day book.
LEMMA MirrorInv ==
    ASSUME IInv, NEW i \in 1 .. Len(entries), NEW day, Mirror(i, day),
           accounts' = accounts, cards' = cards
    PROVE  ChartStep /\ IInv'
<1> DEFINE n == Len(entries)
<1>1. n \in Nat /\ entries = [k \in 1 .. n |-> entries[k]] /\ \A k \in 1 .. n : EntryRow(entries[k])
  BY DEF IInv, Journal
<1>2. ChartStep
  BY Same
<1>3. CardInv'
  BY <1>2, CardsKept DEF CardInv
<1>4. PICK e : e = entries[i]
  OBVIOUS
<1>5. EntryRow(e) /\ Lines(e) \subseteq Postable(accounts)
  BY <1>1, <1>4 DEF Mirror
<1>6. PICK f, g, E : /\ f = [e EXCEPT !.debit = e.credit, !.credit = e.debit,
                                       !.day = day, !.reverses = i]
                     /\ g = [e EXCEPT !.reversed = TRUE]
                     /\ E = [entries EXCEPT ![i] = g]
  OBVIOUS
<1>7. entries' = Append(E, f)
  BY <1>4, <1>6 DEF Mirror
<1>8. SameEntry(e, g) /\ EntryRow(g)
  BY <1>5, <1>6 DEF SameEntry, EntryRow
<1>9. /\ E = [k \in 1 .. n |-> E[k]]
      /\ \A k \in 1 .. n : SameEntry(entries[k], E[k]) /\ EntryRow(E[k])
  BY <1>1, <1>4, <1>6, <1>8 DEF SameEntry
<1>10. EntryRow(f) /\ f.reverses = i /\ i # 0 /\ f.debit = e.credit /\ f.credit = e.debit
  <2>1. /\ f.source = e.source /\ f.debit = e.credit /\ f.credit = e.debit
        /\ f.amount = e.amount /\ f.day = day /\ f.reversed = e.reversed
        /\ f.reverses = i /\ f.asked = e.asked /\ DOMAIN f = DOMAIN e
        /\ f = [x \in DOMAIN f |-> f[x]]
    BY <1>5, <1>6 DEF EntryRow
  <2>2. /\ e.debit \in 1 .. Len(accounts) /\ e.credit \in 1 .. Len(accounts)
        /\ i \in Nat /\ i # 0
    BY <1>1, <1>5 DEF EntryRow
  <2>3. f \in [source: {"billing", "transfer"}, debit: 1 .. Len(accounts),
               credit: 1 .. Len(accounts), amount: Nat, day: {day}, reversed: BOOLEAN,
               reverses: Nat, asked: {e.asked}]
    BY <1>5, <2>1, <2>2 DEF EntryRow
  <2>. QED  BY <2>1, <2>2, <2>3 DEF EntryRow
<1>11. EntryRow(f)'
  BY <1>10 DEF EntryRow
<1>12. \A a \in Lines(f) : ~accounts'[a].deleted /\ ~accounts'[a].group
  BY <1>5, <1>10 DEF Lines, Postable, list_for_org, Live
<1>. QED  BY <1>2, <1>3, <1>7, <1>9, <1>10, <1>11, <1>12, AddsEntry

\* Cancelling from the day book, and reversing from the accounting screen.
LEMMA ReverseInv == ASSUME IInv, reverse \/ reverse_entry PROVE ChartStep /\ IInv'
<1>1. PICK i \in DOMAIN entries : \E d : Mirror(i, d)
  BY Zenon DEF reverse, reverse_entry
<1>2. i \in 1 .. Len(entries) /\ accounts' = accounts /\ cards' = cards
  BY DEF reverse, reverse_entry, IInv, Journal
<1>. QED  BY <1>1, <1>2, MirrorInv

----------------------------------------------------------------------------
(* The invariant, and what follows.                                        *)

\* It holds at first, with books or without.
LEMMA InitInv == Init => IInv
<1> SUFFICES ASSUME Init PROVE IInv
  OBVIOUS
<1>1. ChartInv
  <2>1. CASE accounts = <<>>
    BY <2>1 DEF ChartInv, Chart, Tree
  <2>2. CASE accounts = sync_template(<<>>)
    BY <2>2, SyncEmpty DEF ChartInv
  <2>. QED  BY <2>1, <2>2 DEF Init, provision_books
<1>2. entries = <<>> /\ cards = {}
  BY DEF Init
<1>. QED  BY <1>1, <1>2 DEF IInv, Journal, CardInv, HistoryKeepsItsAccounts, DayBookReadsBack

\* Every request preserves it.
LEMMA StepInv ==
    ASSUME IInv, [Next]_vars
    PROVE  ChartStep /\ IInv'
<1>1. CASE UNCHANGED vars
  <2>1. accounts' = accounts /\ cards' = cards /\ entries' = entries
    BY <1>1 DEF vars
  <2>2. ChartStep
    BY <2>1, Same
  <2>3. CardInv'
    BY <2>1, <2>2, CardsKept DEF CardInv
  <2>. QED  BY <2>1, <2>2, <2>3, ChangesChart
<1>2. CASE Request
  BY <1>2, CreateAccountInv, RowsInv, CalendarInv, CategoryInv, MoneyAccountInv,
     CardInvCreate, CardInvUpdate, CardInvDelete, RecordInv, TransferInv, ReverseInv
     DEF Request
<1>. QED  BY <1>1, <1>2 DEF Next

\* The invariant holds throughout.
THEOREM Invariance == Spec => []IInv
<1>1. IInv /\ [Next]_vars => IInv'
  BY StepInv
<1>. QED  BY InitInv, <1>1, PTL DEF Spec

\* create_account() and delete_account() look for postings before they make a
\* heading of a row or delete it: what an entry names stays an account.
THEOREM AccountsOutliveEntries == Spec => []HistoryKeepsItsAccounts
<1>1. IInv => HistoryKeepsItsAccounts
  BY DEF IInv
<1>. QED  BY Invariance, <1>1, PTL

\* _to_entry() reads every entry of the day book back as it was typed, after any
\* archiving, deleting, regrouping and reversing.
THEOREM DayBook == Spec => []DayBookReadsBack
<1>1. IInv => DayBookReadsBack
  BY DEF IInv
<1>. QED  BY Invariance, <1>1, PTL

\* money_accounts() offers what record() takes, but for an income or expense
\* account of a cash subtype, which is offered and refused; and the delete button
\* shows exactly where delete_money_account() will not refuse.
THEOREM OffersAreAccepted == Spec => []OfferedIsAccepted
<1>1. ASSUME IInv PROVE OfferedIsAccepted
  <2>1. ASSUME NEW direction \in Direction, NEW category \in categories(direction)
        PROVE  /\ category \in _resolve_category(accounts, direction)
               /\ {a \in _resolve_money_account(accounts) :
                      Readable(Sides(direction, category, a))}
                      = {a \in money_accounts : ~OnPL(a)}
    <3>1. \A c \in cards : c.kind \in {"credit", "debit"} /\
                           (c.kind = "debit" => is_cash_equivalent(accounts[c.account]))
      BY <1>1 DEF IInv, CardInv, CardKind
    <3>2. money_accounts = _resolve_money_account(accounts)
      BY <3>1 DEF money_accounts, _spendable_account_ids, _resolve_money_account
    <3>3. category \in _resolve_category(accounts, direction)
      BY DEF categories, _resolve_category
    <3>4. OnPL(category)
      BY DEF categories, category_type, OnPL, is_profit_and_loss
    <3>5. ASSUME NEW a PROVE Readable(Sides(direction, category, a)) <=> ~OnPL(a)
      <4>1. CASE direction = "out"
        BY <3>4, <4>1 DEF Readable, Sides, OnPL, is_profit_and_loss
      <4>2. CASE direction # "out"
        BY <3>4, <4>2 DEF Readable, Sides, OnPL, is_profit_and_loss
      <4>. QED  BY <4>1, <4>2
    <3>. QED  BY <3>2, <3>3, <3>5
  <2>2. ASSUME NEW a \in Live(accounts), IsMoney(a)
        PROVE  _why_not_deletable(a) = "none"
                   <=> Deletable(a) /\ \A c \in cards : c.account # a
    <3>1. ~has_children(accounts, a)
      BY <1>1, <2>2 DEF IInv, ChartInv, Chart, Tree, has_children, Live, IsMoney
    <3>. QED  BY <3>1 DEF _why_not_deletable, Deletable
  <2>. QED  BY <2>1, <2>2 DEF OfferedIsAccepted
<1>. QED  BY Invariance, <1>1, PTL

----------------------------------------------------------------------------
(* The summary.                                                            *)

\* What a request does to the journal.
LEMMA JournalStep ==
    ASSUME IInv, [Next]_vars
    PROVE  \/ entries' = entries
           \/ \E e : /\ entries' = Append(entries, e) /\ ~e.reversed /\ e.reverses = 0
                     /\ Len(entries) < MaxEntries
           \/ \E i \in 1 .. Len(entries) : \E d : Mirror(i, d)
<1>1. CASE UNCHANGED vars \/ create_account \/ update_account \/ delete_account \/ create_year
           \/ close_period \/ reopen_period \/ create_category \/ create_money_account
           \/ set_money_account_active \/ update_bank_details \/ delete_money_account
           \/ create_card \/ update_card \/ delete_card
  BY <1>1 DEF vars, create_account, update_account, delete_account, create_year,
       close_period, reopen_period, create_category, create_money_account,
       set_money_account_active, update_bank_details, delete_money_account,
       create_card, update_card, delete_card
<1>2. CASE record \/ transfer
  <2>1. PICK A, e : Post(A, e) /\ ~e.reversed /\ e.reverses = 0
    <3>1. \A s, d, c, m, y, k : /\ ~Entry(s, d, c, m, y, k).reversed
                                /\ Entry(s, d, c, m, y, k).reverses = 0
      BY DEF Entry
    <3>2. \E A, s, d, c, m, y, k : Post(A, Entry(s, d, c, m, y, k))
      <4>1. CASE record
        BY <4>1, Zenon DEF record
      <4>2. CASE transfer
        BY <4>2, Zenon DEF transfer
      <4>. QED  BY <1>2, <4>1, <4>2
    <3>. QED  BY <3>1, <3>2, Zenon
  <2>. QED  BY <2>1 DEF Post
<1>3. CASE reverse \/ reverse_entry
  <2>1. DOMAIN entries = 1 .. Len(entries)
    BY DEF IInv, Journal
  <2>. QED  BY <1>3, <2>1, Zenon DEF reverse, reverse_entry
<1>. QED  BY <1>1, <1>2, <1>3 DEF Next, Request

\* Nobody reversed a reversal.
MirrorsStand == \A i \in DOMAIN entries : entries[i].reversed => entries[i].reverses = 0

\* What the ledger counts and the screen does not: cancelled entries, and mirrors.
Unshown(from, to) ==
    [i \in DOMAIN entries |->
        IF /\ entries[i].source = "billing" /\ entries[Origin(i)].day \in from .. to
           /\ entries[i].reversed \/ entries[i].reverses # 0
        THEN Profit[i] ELSE 0]

\* They cancel out, where each counts on the day of the entry it belongs to.
PairsCancel ==
    /\ Len(entries) <= MaxEntries
    /\ \A i \in 1 .. Len(entries) : Origin(i) \in 1 .. Len(entries)
    /\ MirrorsStand => \A from, to \in Days :
                          SumFunctionOnSet(Unshown(from, to), 1 .. Len(entries)) = 0

\* The profit of an entry is its amount, one way or the other.
LEMMA ProfitIs ==
    ASSUME IInv, NEW i \in 1 .. Len(entries), NEW e, e = entries[i]
    PROVE  /\ Profit[i] = IF OnPL(e.credit) THEN e.amount ELSE -e.amount
           /\ Profit[i] \in Int /\ e.amount \in Nat
           /\ e.source = "billing" /\ e.reverses = 0 => (OnPL(e.debit) <=> ~OnPL(e.credit))
<1>1. EntryRow(e) /\ DOMAIN entries = 1 .. Len(entries)
  BY DEF IInv, Journal
<1>2. Profit[i] = IF OnPL(e.credit) THEN e.amount ELSE -e.amount
  BY <1>1 DEF Profit, OnPL
<1>3. e.amount \in Nat
  BY <1>1 DEF EntryRow
<1>4. ASSUME e.source = "billing", e.reverses = 0 PROVE OnPL(e.debit) <=> ~OnPL(e.credit)
  <2>1. Readable(e)
    BY <1>1, <1>4 DEF IInv, DayBookReadsBack, _entry_query
  <2>. QED  BY <2>1 DEF Readable, OnPL, is_profit_and_loss
<1>. QED  BY <1>2, <1>3, <1>4

\* A step does not change the profit of the entries there are.
LEMMA ProfitKept ==
    ASSUME IInv, ChartStep, IInv', NEW i \in 1 .. Len(entries), i \in 1 .. Len(entries'),
           SameEntry(entries[i], entries'[i])
    PROVE  Profit'[i] = Profit[i]
<1>1. PICK e, f : e = entries[i] /\ f = entries'[i]
  OBVIOUS
<1>2. EntryRow(e) /\ DOMAIN entries = 1 .. Len(entries) /\ DOMAIN entries' = 1 .. Len(entries')
  BY <1>1 DEF IInv, Journal
<1>3. f.credit = e.credit /\ f.amount = e.amount /\ e.credit \in 1 .. Len(accounts)
  BY <1>1, <1>2 DEF SameEntry, EntryRow
<1>4. accounts'[e.credit].type = accounts[e.credit].type
  BY <1>3 DEF ChartStep, Kept
<1>5. Profit[i] = IF is_profit_and_loss(accounts[e.credit]) THEN e.amount ELSE -e.amount
  BY <1>1, <1>2 DEF Profit
<1>6. Profit'[i] = IF is_profit_and_loss(accounts'[f.credit]) THEN f.amount ELSE -f.amount
  BY <1>1, <1>2 DEF Profit
<1>. QED  BY <1>3, <1>4, <1>5, <1>6 DEF is_profit_and_loss

\* The terms of the sum.
LEMMA UnshownTerm ==
    ASSUME IInv, NEW i \in 1 .. Len(entries), NEW from, NEW to
    PROVE  /\ Unshown(from, to)[i] \in Int
           /\ Unshown(from, to)[i] =
                IF /\ entries[i].source = "billing" /\ entries[Origin(i)].day \in from .. to
                   /\ entries[i].reversed \/ entries[i].reverses # 0
                THEN Profit[i] ELSE 0
<1>1. DOMAIN entries = 1 .. Len(entries)
  BY DEF IInv, Journal
<1>2. Profit[i] \in Int
  BY ProfitIs
<1>. QED  BY <1>1, <1>2 DEF Unshown

\* A step that leaves the journal alone leaves the sum alone.
LEMMA PairsSame ==
    ASSUME IInv, PairsCancel, ChartStep, IInv', entries' = entries
    PROVE  PairsCancel'
<1> SUFFICES ASSUME MirrorsStand', NEW from \in Days, NEW to \in Days
             PROVE  SumFunctionOnSet(Unshown(from, to)', 1 .. Len(entries')) = 0
  BY DEF PairsCancel, Days, Origin
<1> DEFINE S == 1 .. Len(entries)
           g == Unshown(from, to)
           h == Unshown(from, to)'
<1>1. IsFiniteSet(S) /\ S = 1 .. Len(entries')
  BY Upto DEF IInv, Journal
<1>2. IntOn(g, S)
  BY UnshownTerm DEF IntOn
<1>3. ASSUME NEW i \in S PROVE h[i] = g[i]
  <2>1. Profit'[i] = Profit[i]
    BY <1>1, ProfitKept DEF SameEntry
  <2>2. DOMAIN entries = S
    BY DEF IInv, Journal
  <2>. QED  BY <2>1, <2>2 DEF Unshown, Origin
<1>4. SumFunctionOnSet(g, S) = 0
  BY DEF PairsCancel, MirrorsStand
<1> HIDE DEF g, h, S
<1>5. SumFunctionOnSet(h, S) = 0
  BY <1>1, <1>2, <1>3, <1>4, SumSame
<1>. QED  BY <1>1, <1>5 DEF h

\* A new entry is shown.
LEMMA PairsAdd ==
    ASSUME IInv, PairsCancel, ChartStep, IInv', NEW e, entries' = Append(entries, e),
           ~e.reversed, e.reverses = 0, Len(entries) < MaxEntries
    PROVE  PairsCancel'
<1> DEFINE n == Len(entries)
<1>1. n \in Nat /\ entries = [i \in 1 .. n |-> entries[i]] /\ MaxEntries \in Nat
      /\ DOMAIN entries = 1 .. n
  BY BooksAssumption DEF IInv, Journal
<1>2. entries' = [i \in 1 .. n + 1 |-> IF i <= n THEN entries[i] ELSE e]
  BY <1>1, AppendRow
<1>3. /\ \A i \in 1 .. n : i \in 1 .. n + 1 /\ entries'[i] = entries[i]
      /\ entries'[n + 1] = e /\ n + 1 \in 1 .. n + 1 /\ DOMAIN entries' = 1 .. n + 1
      /\ 1 .. n + 1 = (1 .. n) \cup {n + 1} /\ n + 1 \notin 1 .. n
  BY <1>1, <1>2
<1>4. Len(entries') = n + 1
  BY <1>1, <1>3 DEF IInv, Journal
<1>a. \A i \in 1 .. n + 1 : Origin(i)' \in 1 .. n + 1 /\ (i <= n => Origin(i)' = Origin(i))
  BY <1>1, <1>3 DEF PairsCancel, Origin
<1> SUFFICES ASSUME MirrorsStand', NEW from \in Days, NEW to \in Days
             PROVE  SumFunctionOnSet(Unshown(from, to)', 1 .. Len(entries')) = 0
  BY <1>1, <1>4, <1>a DEF PairsCancel, Days
<1> DEFINE S == 1 .. n
           g == Unshown(from, to)
           h == Unshown(from, to)'
<1>5. MirrorsStand
  BY <1>1, <1>3 DEF MirrorsStand
<1>6. IsFiniteSet(S) /\ IntOn(g, S) /\ SumFunctionOnSet(g, S) = 0
  BY <1>1, <1>5, Upto, UnshownTerm DEF IntOn, PairsCancel
<1>7. ASSUME NEW i \in S PROVE h[i] = g[i]
  <2>1. Profit'[i] = Profit[i]
    BY <1>3, <1>4, ProfitKept DEF SameEntry
  <2>2. i <= n /\ Origin(i)' = Origin(i) /\ Origin(i) \in 1 .. n
    BY <1>1, <1>a DEF PairsCancel
  <2>. QED  BY <1>1, <1>3, <2>1, <2>2 DEF Unshown
<1>8. h[n + 1] = 0
  BY <1>3 DEF Unshown
<1> HIDE DEF g, h, S, n
<1>9. SumFunctionOnSet(h, S) = 0 /\ IntOn(h, S)
  BY <1>6, <1>7, SumSame DEF IntOn
<1>10. n + 1 \notin S
  BY <1>3 DEF S
<1>11. PICK m : m = n + 1 /\ m \notin S /\ h[m] = 0
  BY <1>8, <1>10
<1>c. h[m] \in Int
  BY <1>11
<1>b. SumFunctionOnSet(h, S \cup {m}) = SumFunctionOnSet(h, S) + h[m]
  BY <1>6, <1>9, <1>11, <1>c, SumExtend
<1>12. SumFunctionOnSet(h, S \cup {m}) = 0
  BY <1>9, <1>11, <1>b
<1>13. S \cup {m} = 1 .. Len(entries')
  BY <1>3, <1>4, <1>11 DEF S
<1>. QED  BY <1>12, <1>13, Zenon DEF h

\* Cancelling takes an entry off the screen and adds its mirror to the ledger.
LEMMA PairsMirror ==
    ASSUME IInv, PairsCancel, ChartStep, IInv', NEW i \in 1 .. Len(entries),
           NEW day, Mirror(i, day)
    PROVE  PairsCancel'
<1> DEFINE n == Len(entries)
<1>1. n \in Nat /\ entries = [k \in 1 .. n |-> entries[k]] /\ MaxEntries \in Nat
      /\ DOMAIN entries = 1 .. n /\ n < MaxEntries
  BY BooksAssumption DEF IInv, Journal, Mirror
<1>2. PICK e, f, g, E : /\ e = entries[i]
                        /\ f = [e EXCEPT !.debit = e.credit, !.credit = e.debit,
                                          !.day = day, !.reverses = i]
                        /\ g = [e EXCEPT !.reversed = TRUE]
                        /\ E = [entries EXCEPT ![i] = g]
  OBVIOUS
<1>3. entries' = Append(E, f) /\ ~e.reversed
  BY <1>2 DEF Mirror
<1>4. EntryRow(e)
  BY <1>1, <1>2 DEF IInv, Journal
<1>5. /\ f.source = e.source /\ f.debit = e.credit /\ f.credit = e.debit /\ f.amount = e.amount
      /\ f.reverses = i
      /\ SameEntry(e, g) /\ g.reversed
  BY <1>2, <1>4 DEF EntryRow, SameEntry
<1>6. E = [k \in 1 .. n |-> E[k]] /\ E[i] = g /\ \A k \in 1 .. n : k # i => E[k] = entries[k]
  BY <1>1, <1>2
<1>7. entries' = [k \in 1 .. n + 1 |-> IF k <= n THEN E[k] ELSE f]
  BY <1>1, <1>3, <1>6, AppendRow
<1>8. /\ \A k \in 1 .. n : k \in 1 .. n + 1 /\ entries'[k] = E[k]
      /\ entries'[n + 1] = f /\ n + 1 \in 1 .. n + 1 /\ DOMAIN entries' = 1 .. n + 1
      /\ 1 .. n + 1 = (1 .. n) \cup {n + 1} /\ n + 1 \notin 1 .. n
  BY <1>1, <1>7
<1>9. Len(entries') = n + 1
  <2>1. entries' = [k \in 1 .. n + 1 |-> entries'[k]]
    BY <1>7
  <2>. QED  BY <1>1, <2>1, AppendRow
<1>10. ASSUME NEW k \in 1 .. n
       PROVE  /\ SameEntry(entries[k], entries'[k]) /\ k \in 1 .. Len(entries')
              /\ k # i => entries'[k] = entries[k]
  <2>1. entries'[k] = E[k] /\ k \in 1 .. Len(entries')
    BY <1>8, <1>9
  <2>2. CASE k = i
    BY <1>2, <1>5, <1>6, <2>1, <2>2
  <2>3. CASE k # i
    BY <1>6, <2>1, <2>3 DEF SameEntry
  <2>. QED  BY <2>2, <2>3
<1>a. /\ \A k \in 1 .. n : /\ Origin(k) \in 1 .. n /\ Origin(k)' = Origin(k)
                            /\ entries'[Origin(k)].day = entries[Origin(k)].day
      /\ \A m : m = n + 1 => Origin(m)' = i
  <2>1. \A m : m = n + 1 => Origin(m)' = i
    BY <1>1, <1>5, <1>8 DEF Origin
  <2>2. ASSUME NEW k \in 1 .. n
        PROVE  /\ Origin(k) \in 1 .. n /\ Origin(k)' = Origin(k)
               /\ entries'[Origin(k)].day = entries[Origin(k)].day
    <3>1. Origin(k) \in 1 .. n
      BY DEF PairsCancel
    <3>2. \A j \in 1 .. n : SameEntry(entries[j], entries'[j])
      BY <1>10
    <3>3. Origin(k)' = Origin(k)
      BY <3>2 DEF SameEntry, Origin
    <3>. QED  BY <3>1, <3>2, <3>3 DEF SameEntry
  <2>. QED  BY <2>1, <2>2
<1> SUFFICES ASSUME MirrorsStand', NEW from \in Days, NEW to \in Days
             PROVE  SumFunctionOnSet(Unshown(from, to)', 1 .. Len(entries')) = 0
  <2>1. ASSUME NEW k \in 1 .. n + 1 PROVE Origin(k)' \in 1 .. n + 1
    <3>1. CASE k \in 1 .. n
      BY <1>1, <1>a, <3>1
    <3>2. CASE k = n + 1
      BY <1>1, <1>a, <3>2
    <3>. QED  BY <1>1, <3>1, <3>2
  <2>. QED  BY <1>1, <1>9, <2>1 DEF PairsCancel, Days
<1> DEFINE S == 1 .. n
           u == Unshown(from, to)
           v == Unshown(from, to)'
<1>11. e.reverses = 0
  BY <1>5, <1>6, <1>8 DEF MirrorsStand, SameEntry
<1>12. MirrorsStand
  <2> SUFFICES ASSUME NEW k \in 1 .. n, entries[k].reversed PROVE entries[k].reverses = 0
    BY <1>1 DEF MirrorsStand
  <2>1. k # i /\ entries'[k] = entries[k] /\ k \in DOMAIN entries'
    BY <1>2, <1>3, <1>8, <1>10
  <2>. QED  BY <2>1 DEF MirrorsStand
<1>13. IsFiniteSet(S) /\ IntOn(u, S) /\ SumFunctionOnSet(u, S) = 0
  BY <1>1, <1>12, Upto, UnshownTerm DEF IntOn, PairsCancel
<1>14. \A k \in S : Profit'[k] = Profit[k]
  BY <1>10, ProfitKept
<1>15. ASSUME NEW k \in S, k # i PROVE v[k] = u[k]
  BY <1>1, <1>8, <1>10, <1>14, <1>15, <1>a DEF Unshown
<1>16. u[i] = 0
  BY <1>1, <1>2, <1>3, <1>11 DEF Unshown
<1>17. v[i] \in Int /\ v[n + 1] \in Int /\ v[i] + v[n + 1] = 0
  <2> DEFINE in == e.source = "billing" /\ e.day \in from .. to
  <2>1. v[i] = IF in THEN Profit[i] ELSE 0
    <3>1. i \in DOMAIN entries' /\ entries'[i] = g /\ Profit'[i] = Profit[i]
      BY <1>6, <1>8, <1>14
    <3>2. g.source = e.source /\ g.day = e.day /\ g.reversed /\ g.reverses = 0
      BY <1>5, <1>11 DEF SameEntry
    <3>3. Origin(i)' = i
      BY <3>1, <3>2 DEF Origin
    <3>. QED  BY <3>1, <3>2, <3>3 DEF Unshown
  <2>2. v[n + 1] = IF in THEN Profit'[n + 1] ELSE 0
    <3>1. entries'[i].day = e.day
      BY <1>2, <1>10 DEF SameEntry
    <3>2. PICK m : m = n + 1
      OBVIOUS
    <3>3. /\ m \in DOMAIN entries' /\ entries'[m] = f /\ Origin(m)' = i
          /\ f.source = e.source /\ f.reverses # 0
      BY <1>1, <1>5, <1>8, <1>a, <3>2
    <3>4. v[m] = IF in THEN Profit'[m] ELSE 0
      BY <3>1, <3>3 DEF Unshown
    <3>. QED  BY <3>2, <3>4
  <2>3. /\ Profit[i] = IF OnPL(e.credit) THEN e.amount ELSE -e.amount
        /\ e.amount \in Nat
        /\ in => (OnPL(e.debit) <=> ~OnPL(e.credit))
    BY <1>2, <1>11, ProfitIs
  <2>4. Profit'[n + 1] = IF OnPL(e.debit)' THEN e.amount ELSE -e.amount
    BY <1>5, <1>8 DEF Profit, OnPL
  <2>5. OnPL(e.debit)' <=> OnPL(e.debit)
    <3>1. accounts'[e.debit].type = accounts[e.debit].type
      BY <1>4 DEF EntryRow, ChartStep, Kept
    <3>. QED  BY <3>1 DEF OnPL, is_profit_and_loss
  <2> HIDE DEF in, v
  <2>6. CASE in
    <3>1. CASE OnPL(e.credit)
      <4>1. v[i] = e.amount /\ v[n + 1] = -e.amount
        BY <2>1, <2>2, <2>3, <2>4, <2>5, <2>6, <3>1
      <4>. QED  BY <2>3, <4>1
    <3>2. CASE ~OnPL(e.credit)
      <4>1. v[i] = -e.amount /\ v[n + 1] = e.amount
        BY <2>1, <2>2, <2>3, <2>4, <2>5, <2>6, <3>2
      <4>. QED  BY <2>3, <4>1
    <3>. QED  BY <3>1, <3>2
  <2>7. CASE ~in
    <3>1. v[i] = 0 /\ v[n + 1] = 0
      BY <2>1, <2>2, <2>7
    <3>. QED  BY <3>1
  <2>. QED  BY <2>6, <2>7
<1> HIDE DEF u, v, S, n
<1>18. i \in S /\ IntOn(v, S) /\ \A k \in S : k # i => v[k] = u[k]
  BY <1>13, <1>15, <1>17 DEF IntOn, S, n
<1>19. PICK p, q, k, m, s : p = u /\ q = v /\ k = i /\ m = n + 1 /\ s = S
  OBVIOUS
<1>20. /\ IsFiniteSet(s) /\ IntOn(p, s) /\ IntOn(q, s) /\ k \in s /\ m \notin s
       /\ \A y \in s : y # k => q[y] = p[y]
       /\ p[k] = 0 /\ q[k] \in Int /\ q[m] \in Int /\ q[k] + q[m] = 0
       /\ SumFunctionOnSet(p, s) = 0
  BY <1>8, <1>13, <1>16, <1>17, <1>18, <1>19 DEF S
<1>21. SumFunctionOnSet(q, s) + p[k] = SumFunctionOnSet(p, s) + q[k]
  <2>1. IsFiniteSet(s) /\ IntOn(p, s) /\ IntOn(q, s) /\ k \in s
    BY <1>20
  <2>2. \A y \in s : y # k => q[y] = p[y]
    BY <1>20
  <2>3. p[k] \in Int /\ q[k] \in Int
    BY <1>20
  <2>. QED  BY <2>1, <2>2, <2>3, SumChange
<1>22. SumFunctionOnSet(q, s \cup {m}) = SumFunctionOnSet(q, s) + q[m]
  BY <1>20, SumExtend
<1>23. SumFunctionOnSet(q, s) \in Int
  BY <1>20, SumInt
<1>24. SumFunctionOnSet(q, s \cup {m}) = 0
  BY <1>20, <1>21, <1>22, <1>23
<1>25. s \cup {m} = 1 .. Len(entries')
  BY <1>8, <1>9, <1>19 DEF S
<1>. QED  BY <1>19, <1>24, <1>25, Zenon DEF v

\* The newest page holds everything while there is no more than one page.
LEMMA OnePage ==
    ASSUME IInv, Len(entries) <= PageSize, NEW from \in Days, NEW to \in Days
    PROVE  paginate(from, to) = Window(from, to) /\ Window(from, to) \subseteq 1 .. Len(entries)
<1> DEFINE W == Window(from, to)
           n == Len(entries)
<1>1. n \in Nat /\ W \subseteq 1 .. n /\ PageSize \in Nat
  BY BooksAssumption DEF IInv, Journal, Window
<1>2. ASSUME NEW i \in W PROVE Cardinality({j \in W : Newer(j, i)}) < PageSize
  <2> DEFINE T == {j \in W : Newer(j, i)}
             S == 1 .. n
  <2>1. IsFiniteSet(S) /\ Cardinality(S) = n
    BY <1>1, Upto
  <2>2. i \notin T
    <3>1. entries[i].day \in Int
      <4>1. entries[i].day \in from .. to
        BY DEF Window
      <4>2. LastDay \in Nat
        BY BooksAssumption
      <4>3. from \in Int /\ to \in Int
        BY <4>2 DEF Days
      <4>. QED  BY <4>1, <4>3
    <3>2. i \in Int
      BY <1>1
    <3>. QED  BY <3>1, <3>2 DEF Newer
  <2>3. T \in SUBSET S /\ T # S
    BY <1>1, <2>2
  <2>4. IsFiniteSet(T) /\ Cardinality(T) < n
    BY <2>1, <2>3, Smaller
  <2>5. Cardinality(T) \in Nat
    BY <2>4, FS_CardinalityType
  <2>. QED  BY <1>1, <2>4, <2>5
<1>. QED  BY <1>1, <1>2 DEF paginate

\* summary() is the profit in the ledger, while the day book is one page long.
LEMMA SummaryFromPairs ==
    ASSUME IInv, PairsCancel, Len(entries) <= PageSize
    PROVE  SummaryIsProfit
<1> SUFFICES ASSUME MirrorsStand, NEW from \in Days, NEW to \in Days
             PROVE  summary(from, to) =
                    SumFunctionOnSet(Profit, {i \in DOMAIN entries :
                        entries[i].source = "billing" /\ entries[Origin(i)].day \in from .. to})
  BY DEF SummaryIsProfit, MirrorsStand
<1>1. Len(entries) \in Nat /\ DOMAIN entries = 1 .. Len(entries)
  BY DEF IInv, Journal
<1>2. PICK all, B, D, p, q, u :
        /\ all = 1 .. Len(entries)
        /\ B = {i \in all : entries[i].source = "billing"
                         /\ entries[Origin(i)].day \in from .. to}
        /\ D = {i \in B : entries[i].reverses = 0 /\ ~entries[i].reversed}
        /\ p = Profit /\ q = Signed /\ u = Unshown(from, to)
  OBVIOUS
<1>3. IsFiniteSet(all) /\ IsFiniteSet(B) /\ IsFiniteSet(D) /\ IsFiniteSet(B \ D)
      /\ B \in SUBSET all /\ D \in SUBSET B /\ B \ D \in SUBSET all
  <2>1. IsFiniteSet(all) /\ B \in SUBSET all /\ D \in SUBSET B /\ B \ D \in SUBSET all
    BY <1>1, <1>2, Upto
  <2>. QED  BY <2>1, FS_Subset
<1>4. IntOn(p, all) /\ IntOn(u, all) /\ IntOn(p, B) /\ IntOn(p, B \ D) /\ IntOn(p, D) /\ IntOn(u, B \ D)
  <2>1. IntOn(p, all)
    BY <1>2, ProfitIs DEF IntOn
  <2>2. IntOn(u, all)
    BY <1>2, UnshownTerm DEF IntOn
  <2>. QED  BY <1>3, <2>1, <2>2 DEF IntOn
<1>5. SumFunctionOnSet(p, B) = SumFunctionOnSet(p, D) + SumFunctionOnSet(p, B \ D)
  BY <1>3, <1>4, SumSplit
<1>6. SumFunctionOnSet(u, all) = 0
  BY <1>2 DEF PairsCancel
<1>7. SumFunctionOnSet(u, all) = SumFunctionOnSet(u, B \ D)
  <2>1. \A i \in all \ (B \ D) : u[i] = 0
    BY <1>2, UnshownTerm
  <2>. QED  BY <1>3, <1>4, <2>1, SumPart
<1>8. SumFunctionOnSet(p, B \ D) = SumFunctionOnSet(u, B \ D)
  <2>1. \A i \in B \ D : p[i] = u[i]
    BY <1>2, UnshownTerm
  <2>. QED  BY <1>3, <1>4, <2>1, SumSame
<1>9. SumFunctionOnSet(q, D) = SumFunctionOnSet(p, D)
  <2>1. ASSUME NEW i \in D PROVE q[i] = p[i]
    <3>1. PICK e : e = entries[i]
      OBVIOUS
    <3>2. i \in 1 .. Len(entries) /\ e.source = "billing" /\ e.reverses = 0
      BY <1>2, <3>1
    <3>3. /\ Profit[i] = IF OnPL(e.credit) THEN e.amount ELSE -e.amount
          /\ OnPL(e.debit) <=> ~OnPL(e.credit)
      BY <3>1, <3>2, ProfitIs
    <3>4. Signed[i] = IF _to_entry(e)[1] = "in" THEN e.amount ELSE -e.amount
      BY <1>1, <3>1, <3>2 DEF Signed
    <3>5. _to_entry(e)[1] = IF e.credit = MoneyLine(e) THEN "out" ELSE "in"
      BY DEF _to_entry
    <3>6. e.credit = MoneyLine(e) <=> OnPL(e.debit)
      BY <3>3 DEF MoneyLine
    <3>. QED  BY <1>2, <3>3, <3>4, <3>5, <3>6
  <2>. QED  BY <1>3, <1>4, <2>1, SumSame
<1>10. SumFunctionOnSet(p, D) \in Int
  BY <1>3, <1>4, SumInt
<1>11. SumFunctionOnSet(q, D) = SumFunctionOnSet(p, B)
  BY <1>5, <1>6, <1>7, <1>8, <1>9, <1>10
<1>12. D = {i \in paginate(from, to) : ~entries[i].reversed}
  <2>1. paginate(from, to) = Window(from, to)
    BY OnePage
  <2>2. \A i \in all : entries[i].reverses = 0 => Origin(i) = i
    BY DEF Origin
  <2>. QED  BY <1>1, <1>2, <2>1, <2>2 DEF Window, _entry_query
<1>. QED  BY <1>1, <1>2, <1>11, <1>12, Zenon DEF summary

\* The pairs cancel throughout.
LEMMA PairsStep ==
    ASSUME IInv, PairsCancel, [Next]_vars
    PROVE  PairsCancel'
<1>1. ChartStep /\ IInv'
  BY StepInv
<1>2. CASE entries' = entries
  BY <1>1, <1>2, PairsSame
<1>3. ASSUME NEW e, entries' = Append(entries, e), ~e.reversed, e.reverses = 0,
             Len(entries) < MaxEntries
      PROVE  PairsCancel'
  BY <1>1, <1>3, PairsAdd
<1>4. ASSUME NEW i \in 1 .. Len(entries), NEW d, Mirror(i, d) PROVE PairsCancel'
  BY <1>1, <1>4, PairsMirror
<1>. QED  BY <1>2, <1>3, <1>4, JournalStep

\* An empty journal sums to nothing.
LEMMA PairsInit ==
    ASSUME Init PROVE PairsCancel
<1>1. entries = <<>> /\ MaxEntries \in Nat
  BY BooksAssumption DEF Init
<1>2. Len(entries) = 0 /\ 1 .. Len(entries) = {}
  BY <1>1
<1>3. \A f : SumFunctionOnSet(f, 1 .. Len(entries)) = 0
  BY <1>2, SumEmpty, Zenon
<1>. QED  BY <1>1, <1>2, <1>3 DEF PairsCancel

\* While the day book fits in the one page that summary() asks for, its net figure
\* is the profit that the ledger makes of the same entries, cancelled ones and
\* their mirrors included, on whatever day a mirror is dated.
THEOREM SummaryIsTheProfit == Spec => [](Len(entries) <= PageSize => SummaryIsProfit)
<1>1. Spec => []PairsCancel
  <2>1. IInv /\ PairsCancel /\ [Next]_vars => PairsCancel'
    BY PairsStep
  <2>2. Init => PairsCancel
    BY PairsInit
  <2>. QED  BY Invariance, <2>1, <2>2, PTL DEF Spec
<1>2. IInv /\ PairsCancel => (Len(entries) <= PageSize => SummaryIsProfit)
  BY SummaryFromPairs
<1>. QED  BY Invariance, <1>1, <1>2, PTL
=============================================================================
