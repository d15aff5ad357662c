-------------------------------- MODULE Books ------------------------------
(***************************************************************************)
(* The books of one organisation as the billing screen keeps them:         *)
(* backend/app/modules/billing (BillingService, cards, bank details) over  *)
(* the chart of accounts and the fiscal calendar of accounting/service.py. *)
(* A day-book entry is an ordinary ledger entry of two lines; nothing else *)
(* is stored, and the screen reads it back from the lines.                 *)
(*                                                                         *)
(* A request is one transaction and is taken in one step here; numbering   *)
(* and overlapping postings are the business of module Posting.  A name is *)
(* its case-folded form; renaming is left out.  A card number is what      *)
(* inspect_card_number() keeps of it (its network and last four digits), a *)
(* date a day number, with MonthDays days in a month and YearMonths months *)
(* in a year.  The template chart is cut down to the accounts that the     *)
(* code names.                                                             *)
(*                                                                         *)
(* An operator named Mut_... is a plausible mistake in the operator after  *)
(* it; nothing here uses it.                                               *)
(***************************************************************************)
EXTENDS Integers, SequencesExt

CONSTANTS
    Operations,     \* the endpoints that clients use
    Names,          \* names users give to accounts and categories
    Parents,        \* codes under which users file accounts of their own
    Faces,          \* what is kept of a card number
    Numbers,        \* bank account numbers
    MaxAmount, MaxAccounts, MaxEntries, MaxCards, MaxYears, LastDay,
    Today,          \* organization_today(), fixed for the scenario
    MonthDays, YearMonths,
    StartMonth,     \* Organization.fiscal_year_start_month, from 0
    PageSize,       \* how many entries summary() asks for
    MaxRequests     \* bound on the requests served

VARIABLES
    accounts,       \* Account rows by id
    cards,          \* PaymentCard rows
    details,        \* BankAccountDetail by account id; "" is no row
    years,          \* FiscalYear rows
    periods,        \* AccountingPeriod rows
    entries,        \* JournalEntry rows, posted, by id
    served          \* requests so far

vars == <<accounts, cards, details, years, periods, entries, served>>

ASSUME BooksAssumption ==
    /\ {MonthDays, YearMonths, PageSize} \subseteq Nat \ {0}
    /\ {MaxAmount, MaxAccounts, MaxEntries, LastDay} \subseteq Nat
    /\ StartMonth \in 0 .. YearMonths - 1
    /\ "" \notin Names \cup Numbers

----------------------------------------------------------------------------
(* Rows.                                                                   *)

Days == 0 .. LastDay
Amounts == 1 .. MaxAmount
AccountType == {"asset", "liability", "income", "expense"}
AccountSubtype == {"cash", "bank", "other"}
CardKind == {"credit", "debit"}
Direction == {"in", "out"}

is_cash_equivalent(a) == a.subtype \in {"cash", "bank"}
is_profit_and_loss(a) == a.type \in {"income", "expense"}
category_type(direction) == IF direction = "in" THEN "income" ELSE "expense"

Account(code, name, type, subtype, parent, group, system) ==
    [code |-> code, name |-> name, type |-> type, subtype |-> subtype,
     parent |-> parent, group |-> group, system |-> system, active |-> TRUE,
     deleted |-> FALSE]

NewAccount(code, name, type, subtype, parent) ==
    Account(code, name, type, subtype, parent, FALSE, FALSE)
AccountSpec(code, type, subtype, parent, group) ==
    Account(code, ToString(code), type, subtype, parent, group, TRUE)

\* What the endpoints accept: billing/schemas.py, accounting/schemas.py.
AccountCreate == [name: Names, subtype: AccountSubtype, parent: Parents]
CreateCategoryRequest == [name: Names, direction: Direction]
CreateMoneyAccountRequest == [name: Names, kind: {"cash", "bank"},
                              number: Numbers \cup {""}]
AddCardRequest == [kind: CardKind, face: Faces]
FiscalYearCreate == {r \in [start: Days, end: Days] : r.start < r.end}
RecordEntryRequest == [direction: Direction, day: Days, amount: Amounts]
TransferRequest == [day: Days, amount: Amounts]

\* parent is a code here and an id in the rows.
DEFAULT_CHART == <<
    AccountSpec(1100, "asset", "other", 0, TRUE),
    AccountSpec(1110, "asset", "cash", 1100, FALSE),
    AccountSpec(1120, "asset", "bank", 1100, TRUE),
    AccountSpec(1121, "asset", "bank", 1120, FALSE),
    AccountSpec(2100, "liability", "other", 0, TRUE),
    AccountSpec(4000, "income", "other", 0, TRUE),
    AccountSpec(4100, "income", "other", 4000, FALSE),
    AccountSpec(5200, "expense", "other", 0, TRUE),
    AccountSpec(5250, "expense", "other", 5200, FALSE) >>

DEFAULT_CODE(direction) == IF direction = "in" THEN 4100 ELSE 5250

\* Accounts the repository shows: never a soft-deleted one.
Live(A) == {a \in DOMAIN A : ~A[a].deleted}
list_for_org(A) == {a \in Live(A) : A[a].active}
Postable(A) == {a \in list_for_org(A) : ~A[a].group}
has_children(A, a) == \E b \in Live(A) : A[b].parent = a
ByCode(A, code) == CHOOSE a \in Live(A) : A[a].code = code

\* An entry's lines: the account debited and the account credited.
Lines(e) == {e.debit, e.credit}
has_postings(a) == \E i \in DOMAIN entries : a \in Lines(entries[i])

----------------------------------------------------------------------------
(* ensure_books(): run before every read and write of the screen.          *)

\* sync_template(): appends what the template has and the chart has not, by code
\* and in the template's order; a parent is looked up among old and new rows.
Missing(A) == {k \in DOMAIN DEFAULT_CHART :
                  \A a \in Live(A) : A[a].code # DEFAULT_CHART[k].code}

\* The template row that becomes row a of the chart.
SeededBy(A, a) ==
    CHOOSE k \in Missing(A) : Cardinality({j \in Missing(A) : j <= k}) = a - Len(A)

sync_template(A) ==
    LET all == [a \in 1 .. Len(A) + Cardinality(Missing(A)) |->
                    IF a <= Len(A) THEN A[a] ELSE DEFAULT_CHART[SeededBy(A, a)]]
    IN  [a \in DOMAIN all |->
            IF a <= Len(A) \/ all[a].parent = 0 THEN all[a]
            ELSE [all[a] EXCEPT !.parent = ByCode(all, all[a].parent)]]

\* ensure_year_for(): the year of the organisation's start month that holds
\* the day, unless some year holds it already.
YearStart(day) ==
    LET month == day \div MonthDays IN
        (((month - StartMonth) \div YearMonths) * YearMonths + StartMonth)
            * MonthDays

Covers(span, day) == span.start <= day /\ day <= span.end

\* scalar_one_or_none() raises when two rows match.
year_containing(day) == {y \in years : Covers(y, day)}

Year(name, start, end) == [name |-> name, start |-> start, end |-> end]
DerivedYear(day) == Year(ToString(YearStart(day)), YearStart(day),
                         YearStart(day) + YearMonths * MonthDays - 1)

\* _generate_monthly_periods(): calendar months clipped to the year.
_generate_monthly_periods(y) ==
    {[start |-> Max({y.start, m * MonthDays}),
      end |-> Min({y.end, m * MonthDays + MonthDays - 1}),
      year |-> y.name, status |-> "open"] : m \in (y.start \div MonthDays) .. (y.end \div MonthDays)}

uq_fiscal_year_org_name(y) == \A z \in years : z.name # y.name

ensure_year_for(day) ==
    /\ Cardinality(year_containing(day)) <= 1
    /\ IF year_containing(day) # {} THEN UNCHANGED <<years, periods>>
       ELSE LET y == DerivedYear(day) IN
            /\ uq_fiscal_year_org_name(y)
            /\ years' = years \cup {y}
            /\ periods' = periods \cup _generate_monthly_periods(y)

ensure_books(day) ==
    accounts' = sync_template(accounts) /\ ensure_year_for(day)

\* _next_code(): the first code of the block, or above it, that no live account
\* has.
_next_code(A, base) ==
    CHOOSE code \in base + 1 .. base + 999 :
        /\ \A a \in Live(A) : A[a].code # code
        /\ \A c \in base + 1 .. code - 1 : \E a \in Live(A) : A[a].code = c

----------------------------------------------------------------------------
(* ChartOfAccountsService.                                                 *)

\* uq_account_org_code covers soft-deleted rows too.
CodeFree(A, code) == \A a \in DOMAIN A : A[a].code # code

\* An account with entries cannot become a group.
MayBeParent(A, parent) == A[parent].group \/ ~has_postings(parent)

\* create_account(), for an account to be filed under parent.
Insert(A, row) ==
    /\ Len(A) < MaxAccounts
    /\ CodeFree(A, row.code)
    /\ A[row.parent].type = row.type
    /\ MayBeParent(A, row.parent)
    /\ accounts' = Append([A EXCEPT ![row.parent].group = TRUE], row)

create_account ==
    /\ "create_account" \in Operations
    /\ \E data \in AccountCreate :
           \E parent \in {a \in Live(accounts) : accounts[a].code = data.parent} :
           Insert(accounts, NewAccount(_next_code(accounts, data.parent), data.name,
                                       accounts[parent].type, data.subtype, parent))
    /\ UNCHANGED <<cards, details, years, periods, entries>>

SetActive(a, active) ==
    /\ active \/ ~accounts[a].system
    /\ accounts' = [accounts EXCEPT ![a].active = active]

update_account ==
    /\ "update_account" \in Operations
    /\ \E a \in Live(accounts), active \in BOOLEAN : SetActive(a, active)
    /\ UNCHANGED <<cards, details, years, periods, entries>>

Mut_Deletable(a) == ~accounts[a].system /\ ~has_children(accounts, a)
Deletable(a) ==
    /\ ~accounts[a].system
    /\ ~has_children(accounts, a)
    /\ ~has_postings(a)

SoftDelete(a) == Deletable(a) /\ accounts' = [accounts EXCEPT ![a].deleted = TRUE]

delete_account ==
    /\ "delete_account" \in Operations
    /\ \E a \in Live(accounts) : SoftDelete(a)
    /\ UNCHANGED <<cards, details, years, periods, entries>>

----------------------------------------------------------------------------
(* FiscalCalendarService.                                                  *)

overlapping_year(start, end) ==
    {y \in years : y.start <= end /\ y.end >= start}

create_year ==
    /\ "create_year" \in Operations
    /\ Cardinality(years) < MaxYears
    /\ \E data \in FiscalYearCreate :
           LET y == Year("custom", data.start, data.end) IN
           /\ overlapping_year(y.start, y.end) = {}
           /\ uq_fiscal_year_org_name(y)
           /\ years' = years \cup {y}
           /\ periods' = periods \cup _generate_monthly_periods(y)
    /\ UNCHANGED <<accounts, cards, details, entries>>

has_open_period_before(day) ==
    \E p \in periods : p.end < day /\ p.status = "open"

SetStatus(p, status) == periods' = (periods \ {p}) \cup {[p EXCEPT !.status = status]}

close_period ==
    /\ "close_period" \in Operations
    /\ \E p \in periods, status \in {"closed", "locked"} :
           /\ p.status # "locked"
           /\ ~has_open_period_before(p.start)
           /\ SetStatus(p, status)
    /\ UNCHANGED <<accounts, cards, details, years, entries>>

reopen_period ==
    /\ "reopen_period" \in Operations
    /\ \E p \in periods : p.status = "closed" /\ SetStatus(p, "open")
    /\ UNCHANGED <<accounts, cards, details, years, entries>>

----------------------------------------------------------------------------
(* Accounts and cards of the billing screen.                               *)

NameFree(A, name) == \A a \in Live(A) : A[a].name # name

create_category ==
    /\ "create_category" \in Operations
    /\ \E data \in CreateCategoryRequest :
           LET A == sync_template(accounts)
               anchor == A[ByCode(A, DEFAULT_CODE(data.direction))]
           IN  /\ ensure_year_for(Today)
               /\ NameFree(A, data.name)
               /\ Insert(A, NewAccount(_next_code(A, A[anchor.parent].code),
                                       data.name, category_type(data.direction),
                                       anchor.subtype, anchor.parent))
    /\ UNCHANGED <<cards, details, entries>>

\* _save_bank_details(): nothing to say writes nothing.
_save_bank_details(D, a, number) ==
    IF number = "" THEN D ELSE [D EXCEPT ![a] = number]

create_money_account ==
    /\ "create_money_account" \in Operations
    /\ \E data \in CreateMoneyAccountRequest :
           LET A == sync_template(accounts)
               isBank == data.kind = "bank"
               banks == ByCode(A, 1120)
               parent == IF isBank /\ A[banks].group THEN banks ELSE ByCode(A, 1100)
               code == _next_code(A, IF isBank THEN 1120 ELSE 1110)
           IN  /\ ensure_year_for(Today)
               /\ NameFree(A, data.name)
               /\ Insert(A, NewAccount(code, data.name, "asset", data.kind, parent))
               /\ details' = IF isBank
                             THEN _save_bank_details(details, Len(A) + 1, data.number)
                             ELSE details
    /\ UNCHANGED <<cards, entries>>

IsMoney(a) == is_cash_equivalent(accounts[a]) /\ ~accounts[a].group

set_money_account_active ==
    /\ "set_money_account_active" \in Operations
    /\ \E a \in Live(accounts), active \in BOOLEAN :
           IsMoney(a) /\ SetActive(a, active)
    /\ UNCHANGED <<cards, details, years, periods, entries>>

update_bank_details ==
    /\ "update_bank_details" \in Operations
    /\ \E a \in Postable(accounts), number \in Numbers \cup {""} :
           /\ IsMoney(a)
           /\ details' = _save_bank_details(details, a, number)
    /\ UNCHANGED <<accounts, cards, years, periods, entries>>

delete_money_account ==
    /\ "delete_money_account" \in Operations
    /\ \E a \in Live(accounts) :
           /\ IsMoney(a)
           /\ \A c \in cards : c.account # a
           /\ SoftDelete(a)
    /\ UNCHANGED <<cards, details, years, periods, entries>>

CardOnFile(kind, face) == \E c \in cards : c.kind = kind /\ c.face = face

Card(kind, face, account) ==
    [kind |-> kind, face |-> face, account |-> account, active |-> TRUE]

\* A credit card gets a liability account of its own.
_create_card_liability_account(A, face) ==
    Insert(A, NewAccount(_next_code(A, 2100), face, "liability", "other",
                         ByCode(A, 2100)))

create_card ==
    /\ "create_card" \in Operations
    /\ Cardinality(cards) < MaxCards
    /\ \E data \in AddCardRequest :
           LET A == sync_template(accounts) IN
           /\ ensure_year_for(Today)
           /\ ~CardOnFile(data.kind, data.face)
           /\ \/ /\ data.kind = "credit"
                 /\ _create_card_liability_account(A, data.face)
                 /\ cards' = cards \cup {Card("credit", data.face, Len(A) + 1)}
              \/ /\ data.kind = "debit"
                 /\ accounts' = A
                 /\ \E a \in Postable(A) :
                        /\ is_cash_equivalent(A[a])
                        /\ cards' = cards \cup {Card("debit", data.face, a)}
    /\ UNCHANGED <<details, entries>>

\* A corrected number, or archived and restored; the kind never changes.
update_card ==
    /\ "update_card" \in Operations
    /\ \E c \in cards :
           \/ \E face \in Faces :
                  /\ ~CardOnFile(c.kind, face)
                  /\ cards' = (cards \ {c}) \cup {[c EXCEPT !.face = face]}
           \/ \E active \in BOOLEAN :
                  cards' = (cards \ {c}) \cup {[c EXCEPT !.active = active]}
    /\ UNCHANGED <<accounts, details, years, periods, entries>>

delete_card ==
    /\ "delete_card" \in Operations
    /\ \E c \in cards :
           /\ ~has_postings(c.account)
           /\ cards' = cards \ {c}
           /\ IF c.kind = "credit"
              THEN c.account \in Live(accounts) /\ SoftDelete(c.account)
              ELSE UNCHANGED accounts
    /\ UNCHANGED <<details, years, periods, entries>>

----------------------------------------------------------------------------
(* Recording.                                                              *)

\* Which accounts money may move through.
Mut_BySubtype(A) ==
    {a \in Postable(A) : is_cash_equivalent(A[a]) \/ A[a].type = "liability"}
_spendable_account_ids(A) ==
    {a \in Postable(A) : is_cash_equivalent(A[a])}
        \cup {c.account : c \in {d \in cards : d.kind = "credit" /\ d.active}}

\* resolve_open_period(), of which a posting needs exactly one.
OpenOn(P, day) ==
    /\ Cardinality({p \in P : Covers(p, day)}) = 1
    /\ \A p \in P : Covers(p, day) => p.status = "open"

\* asked is what the user typed, kept to compare with what is read back.
Entry(source, debit, credit, amount, day, asked) ==
    [source |-> source, debit |-> debit, credit |-> credit, amount |-> amount,
     day |-> day, reversed |-> FALSE, reverses |-> 0, asked |-> asked]

\* create_entry(post=True) after ensure_books(day).
Post(A, e) ==
    /\ Len(entries) < MaxEntries
    /\ e.debit \in Postable(A) /\ e.credit \in Postable(A)
    /\ OpenOn(periods', e.day)
    /\ entries' = Append(entries, e)

\* Exactly one line is on a profit and loss account: the category.  The other
\* is the money, be it cash, a bank or a card.
OnPL(a) == is_profit_and_loss(accounts[a])
Readable(e) == OnPL(e.debit) # OnPL(e.credit)
CategoryLine(e) == IF OnPL(e.debit) THEN e.debit ELSE e.credit
Mut_CashLine(e) ==
    IF \E a \in Lines(e) : is_cash_equivalent(accounts[a])
    THEN CHOOSE a \in Lines(e) : is_cash_equivalent(accounts[a]) ELSE 0
MoneyLine(e) == IF OnPL(e.debit) THEN e.credit ELSE e.debit
_to_entry(e) ==
    << IF e.credit = MoneyLine(e) THEN "out" ELSE "in", e.amount,
       CategoryLine(e), MoneyLine(e) >>

\* _resolve_category() and _resolve_money_account(): what they take.
_resolve_category(A, direction) ==
    {a \in Postable(A) : A[a].type = category_type(direction)}
_resolve_money_account(A) == _spendable_account_ids(A) \cap Postable(A)

\* The two lines of a movement.
Sides(direction, category, money) ==
    IF direction = "out" THEN [debit |-> category, credit |-> money]
    ELSE [debit |-> money, credit |-> category]

record ==
    /\ "record" \in Operations
    /\ \E data \in RecordEntryRequest :
           LET A == sync_template(accounts) IN
           \E category \in _resolve_category(A, data.direction),
              money \in _resolve_money_account(A) :
              LET lines == Sides(data.direction, category, money)
                  e == Entry("billing", lines.debit, lines.credit, data.amount, data.day,
                             <<data.direction, data.amount, category, money>>)
              IN  /\ ensure_books(data.day)
                  /\ Post(A, e)
                  /\ Readable(e)'      \* the answer is read back: get()
    /\ UNCHANGED <<cards, details>>

transfer ==
    /\ "transfer" \in Operations
    /\ \E data \in TransferRequest :
           LET A == sync_template(accounts) IN
           \E from, to \in _spendable_account_ids(A) :
              /\ from # to
              /\ ensure_books(data.day)
              /\ Post(A, Entry("transfer", to, from, data.amount, data.day, <<>>))
    /\ UNCHANGED <<cards, details>>

\* reverse_entry(): the mirror image, on the day of the original or a later one.
Mirror(i, day) ==
    LET e == entries[i] IN
    /\ Len(entries) < MaxEntries
    /\ ~e.reversed
    /\ day >= e.day
    /\ OpenOn(periods, day)
    /\ Lines(e) \subseteq Postable(accounts)
    /\ entries' = Append([entries EXCEPT ![i].reversed = TRUE],
                         [e EXCEPT !.debit = e.credit, !.credit = e.debit,
                                   !.day = day, !.reverses = i])

\* _entry_query(): what the day book shows.
_entry_query(i) == entries[i].source = "billing" /\ entries[i].reverses = 0

\* Cancelling gives no date: the mirror has the day of the entry.
reverse ==
    /\ "reverse" \in Operations
    /\ \E i \in DOMAIN entries : _entry_query(i) /\ Mirror(i, entries[i].day)
    /\ UNCHANGED <<accounts, cards, details, years, periods>>

\* paginate(): the newest PageSize entries of the window.
Window(from, to) ==
    {i \in DOMAIN entries : _entry_query(i) /\ entries[i].day \in from .. to}
Newer(j, i) == \/ entries[j].day > entries[i].day
               \/ entries[j].day = entries[i].day /\ j > i
paginate(from, to) ==
    {i \in Window(from, to) :
        Cardinality({j \in Window(from, to) : Newer(j, i)}) < PageSize}

\* summary(): money in less money out, cancelled entries left out.
Signed == [i \in DOMAIN entries |->
              IF _to_entry(entries[i])[1] = "in" THEN entries[i].amount
              ELSE -entries[i].amount]
Mut_WithCancelled(from, to) == SumFunctionOnSet(Signed, paginate(from, to))
summary(from, to) ==
    SumFunctionOnSet(Signed, {i \in paginate(from, to) : ~entries[i].reversed})

\* categories() and money_accounts(): what the form offers, the latter by the
\* account it would post to.
categories(direction) ==
    {a \in Postable(accounts) : accounts[a].type = category_type(direction)}
money_accounts ==
    {a \in Postable(accounts) : is_cash_equivalent(accounts[a])}
        \cup {c.account : c \in {d \in cards : d.active /\ d.account \in Postable(accounts)}}

_why_not_deletable(a) ==
    CASE accounts[a].system               -> "system"
      [] \E c \in cards : c.account = a   -> "carded"
      [] has_postings(a)                  -> "posted"
      [] OTHER                            -> "none"

\* POST /accounting/entries/{id}/reverse takes any entry, a reversal too, and the
\* date of the mirror.
reverse_entry ==
    /\ "reverse_entry" \in Operations
    /\ \E i \in DOMAIN entries, day \in Days : Mirror(i, day)
    /\ UNCHANGED <<accounts, cards, details, years, periods>>

----------------------------------------------------------------------------
\* provision_books() ran when the organisation was registered.
provision_books ==
    /\ accounts = sync_template(<<>>)
    /\ years = {DerivedYear(Today)}
    /\ periods = _generate_monthly_periods(DerivedYear(Today))

\* Organisations of an earlier version start without books.
Init ==
    /\ \/ provision_books
       \/ accounts = <<>> /\ years = {} /\ periods = {}
    /\ cards = {}
    /\ details = [a \in 1 .. MaxAccounts |-> ""]
    /\ entries = <<>>
    /\ served = 0

Request ==
    \/ create_account \/ update_account \/ delete_account
    \/ create_year \/ close_period \/ reopen_period
    \/ create_category \/ create_money_account \/ set_money_account_active
    \/ update_bank_details \/ delete_money_account
    \/ create_card \/ update_card \/ delete_card
    \/ record \/ transfer \/ reverse \/ reverse_entry

Next == served < MaxRequests /\ served' = served + 1 /\ Request

Spec == Init /\ [][Next]_vars

----------------------------------------------------------------------------
(* Properties.                                                             *)

\* Every entry of the day book reads back as what was typed, whatever became
\* of its accounts since: _to_entry() works from the two lines alone.
DayBookReadsBack ==
    \A i \in DOMAIN entries :
        _entry_query(i) => /\ Readable(entries[i])
                           /\ _to_entry(entries[i]) = entries[i].asked

\* An account that entries name never turns into a heading and never goes
\* away: create_account() and delete_account() look for postings first.
HistoryKeepsItsAccounts ==
    \A i \in DOMAIN entries : \A a \in Lines(entries[i]) :
        ~accounts[a].deleted /\ ~accounts[a].group

\* The net figure of the screen is the profit that the entries of the window made
\* in the ledger, their reversals included: summary() counts neither a cancelled
\* entry nor its mirror, the ledger counts both.  A reversal belongs to the entry
\* it reverses here, whatever its date: a ledger report of the same window misses
\* one that accounting dated after it.  (Once accounting reverses a mirror, the
\* entry is back in the ledger and still cancelled on the screen.)
Profit == [i \in DOMAIN entries |->
              IF is_profit_and_loss(accounts[entries[i].credit]) THEN entries[i].amount
              ELSE -entries[i].amount]
Origin(i) == IF entries[i].reverses = 0 THEN i ELSE entries[i].reverses
SummaryIsProfit ==
    (\A i \in DOMAIN entries : entries[i].reversed => entries[i].reverses = 0) =>
    \A from, to \in Days :
        summary(from, to) =
            SumFunctionOnSet(Profit, {i \in DOMAIN entries :
                                         /\ entries[i].source = "billing"
                                         /\ entries[Origin(i)].day \in from .. to})

\* With any category that the form offers, record() goes on to post through
\* exactly the accounts that the form offers, cards included, after any sequence
\* of archiving and deleting, except an income or expense account: money_accounts()
\* offers one that was created with a cash or bank subtype, and record() refuses it
\* when it reads the entry back.  The offer and the check are computed separately.
\* And the form says "delete" exactly where delete_money_account() will.
OfferedIsAccepted ==
    /\ \A direction \in Direction : \A category \in categories(direction) :
           /\ category \in _resolve_category(accounts, direction)
           /\ {a \in _resolve_money_account(accounts) :
                  Readable(Sides(direction, category, a))}
                  = {a \in money_accounts : ~OnPL(a)}
    /\ \A a \in {b \in Live(accounts) : IsMoney(b)} :
           _why_not_deletable(a) = "none"
               <=> Deletable(a) /\ \A c \in cards : c.account # a
=============================================================================
