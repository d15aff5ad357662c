------------------------------- MODULE Posting -----------------------------
(***************************************************************************)
(* The posting engine of backend/app/modules/accounting: PostingService    *)
(* and the period operations of FiscalCalendarService (service.py),        *)
(* SequenceRepository.next_number() (repository.py), and the leaf that     *)
(* attestation records in the posting transaction (hooks.py,               *)
(* record_leaf()).  One organisation, one journal, one fiscal year.        *)
(*                                                                         *)
(* A request is one READ COMMITTED transaction.  It reads plain rows       *)
(* without locking them, so it may act on a copy that is no longer true;   *)
(* only the number sequence is read FOR UPDATE.  The writes of a request   *)
(* become visible together at its commit.                                  *)
(*                                                                         *)
(* The lines of an entry are its amount: `amount` to one account and from  *)
(* another, negative when mirrored, so an entry balances (a CHECK of the   *)
(* table).  A date is the number of the period it falls in.  Account       *)
(* checks, and two overlapping edits of one draft (which would leave the   *)
(* lines of both), are left out.                                           *)
(*                                                                         *)
(* An operator named Mut_... is a plausible mistake in the operator after  *)
(* it; nothing here uses it.                                               *)
(***************************************************************************)
EXTENDS Integers, Sequences, FiniteSets

CONSTANTS
    Requests,       \* processes serving requests
    Workloads,      \* the ways requests may come: the operations each process serves
    MaxEntries,     \* bound on entries ever written
    MaxPeriods,     \* periods 1 .. MaxPeriods
    MaxAmount       \* bound on the amount of an entry

VARIABLES
    entries,        \* JournalEntry rows by id
    sequence,       \* NumberSequence.next_value; 0: no row yet
    periods,        \* AccountingPeriod.status
    leaves,         \* what each entry's SealLeaf was hashed over, if it has one
    tx,             \* each process's open transaction
    serves          \* the workload of this behaviour

postingVars == <<entries, sequence, periods, leaves, tx, serves>>

ASSUME PostingBounds == MaxEntries \in Nat /\ MaxPeriods \in Nat /\ MaxAmount \in Nat

ASSUME WorkloadsAssumption ==
    Workloads \subseteq [Requests -> SUBSET {"create", "create_posted", "update", "post",
                                             "reverse", "delete", "close", "reopen"}]

----------------------------------------------------------------------------
Periods == 1 .. MaxPeriods
Amounts == 1 .. MaxAmount

Status == {"draft", "posted", "reversed", "deleted"}

Draft(date, amount, reverses) ==
    [status |-> "draft", number |-> 0, date |-> date, amount |-> amount,
     reverses |-> reverses]

NoEntry == [status |-> "deleted", number |-> 0, date |-> 1, amount |-> 0,
            reverses |-> 0]

Idle == [pc |-> "idle", id |-> 0, entry |-> NoEntry, period |-> 1,
         to |-> "open"]

NoLeaf == [number |-> 0, date |-> 1, amount |-> 0]
LeafOf(e) == [number |-> e.number, date |-> e.date, amount |-> e.amount]

is_posted(e) == e.status \in {"posted", "reversed"}

accepts_postings(d) == periods[d] = "open"

has_open_period_before(d) == \E c \in 1 .. d - 1 : periods[c] = "open"

\* Room for one more row: those written and those being written.
Room == Len(entries) + Cardinality({q \in Requests : tx[q].pc # "idle"
                                                     /\ tx[q].id = 0})
            < MaxEntries

\* p holds the sequence row until its transaction ends.
Holds(p) == tx[p].pc = "flush"
SequenceFree(p) == \A q \in Requests \ {p} : ~Holds(q)

Begin(p, pc, id, entry) ==
    tx' = [tx EXCEPT ![p] = [Idle EXCEPT !.pc = pc, !.id = id, !.entry = entry]]
Goto(p, pc) == tx' = [tx EXCEPT ![p].pc = pc]
Ends(p) == tx' = [tx EXCEPT ![p] = Idle]

Uses(p, operation) == operation \in serves[p] /\ tx[p].pc = "idle"

----------------------------------------------------------------------------
(* Drafts.                                                                 *)

create_entry(p) ==
    /\ Uses(p, "create") /\ Room
    /\ \E d \in Periods, a \in Amounts :
           /\ accepts_postings(d)
           /\ entries' = Append(entries, Draft(d, a, 0))
    /\ leaves' = Append(leaves, NoLeaf)
    /\ UNCHANGED <<sequence, periods, tx>>

is_editable(e) == e.status = "draft"

\* The copy is checked and changed; a new date must fall in an open period.
update_entry(p) ==
    /\ Uses(p, "update")
    /\ \E i \in DOMAIN entries, d \in Periods, a \in Amounts :
           /\ is_editable(entries[i])
           /\ d # entries[i].date => accepts_postings(d)
           /\ \A q \in Requests : ~(tx[q].pc = "update" /\ tx[q].id = i)
           /\ Begin(p, "update", i, [entries[i] EXCEPT !.date = d, !.amount = a])
    /\ UNCHANGED <<entries, sequence, periods, leaves>>

\* UPDATE by primary key; a row that is gone raises StaleDataError.
commit_update(p) ==
    /\ tx[p].pc = "update"
    /\ LET i == tx[p].id IN
           entries' = IF entries[i].status = "deleted" THEN entries
                      ELSE [entries EXCEPT ![i].date = tx[p].entry.date,
                                           ![i].amount = tx[p].entry.amount]
    /\ Ends(p)
    /\ UNCHANGED <<sequence, periods, leaves>>

delete_draft(p) ==
    /\ Uses(p, "delete")
    /\ \E i \in DOMAIN entries :
           /\ entries[i].status = "draft"
           /\ Begin(p, "delete", i, entries[i])
    /\ UNCHANGED <<entries, sequence, periods, leaves>>

\* DELETE by primary key; the foreign key of a leaf refuses it.
commit_delete(p) ==
    /\ tx[p].pc = "delete"
    /\ LET i == tx[p].id IN
           entries' = IF leaves[i] # NoLeaf THEN entries
                      ELSE [entries EXCEPT ![i] = NoEntry]
    /\ Ends(p)
    /\ UNCHANGED <<sequence, periods, leaves>>

----------------------------------------------------------------------------
(* Posting: by itself, and at the end of create_entry() and               *)
(* reverse_entry(), whose new row is id 0 until the commit.                *)

post_entry(p) ==
    /\ Uses(p, "post")
    /\ \E i \in DOMAIN entries :
           /\ ~is_posted(entries[i]) /\ entries[i].status # "deleted"
           /\ Begin(p, "period", i, entries[i])
    /\ UNCHANGED <<entries, sequence, periods, leaves>>

\* create_entry(post=True), which is how post_simple() and the documents post.
create_posted(p) ==
    /\ Uses(p, "create_posted") /\ Room
    /\ \E d \in Periods, a \in Amounts :
           accepts_postings(d) /\ Begin(p, "period", 0, Draft(d, a, 0))
    /\ UNCHANGED <<entries, sequence, periods, leaves>>

IsReversible(e) == e.status = "posted"

Mut_SameSide(e) == e.amount
Mirrored(e) == -e.amount

reverse_entry(p) ==
    /\ Uses(p, "reverse") /\ Room
    /\ \E i \in DOMAIN entries, d \in Periods :
           /\ IsReversible(entries[i])
           /\ d >= entries[i].date
           /\ accepts_postings(d)
           /\ Begin(p, "period", 0, Draft(d, Mirrored(entries[i]), i))
    /\ UNCHANGED <<entries, sequence, periods, leaves>>

\* resolve_open_period(), again: it may have closed while the draft waited.
Mut_TrustsDraft(d) == TRUE
StillOpen(d) == accepts_postings(d)

recheck_period(p) ==
    /\ tx[p].pc = "period"
    /\ IF StillOpen(tx[p].entry.date) THEN Goto(p, "number") ELSE Ends(p)
    /\ UNCHANGED <<entries, sequence, periods, leaves>>

\* next_number(): SELECT ... FOR UPDATE waits for the row's holder.  Without a
\* row there is nothing to wait for: it goes on to insert one.
MayLock(p) == SequenceFree(p)

Numbered(p) ==
    tx' = [tx EXCEPT ![p].pc = "flush",
                     ![p].entry.number = IF sequence = 0 THEN 1 ELSE sequence,
                     ![p].entry.status = "posted"]

next_number(p) ==
    /\ tx[p].pc = "number"
    /\ IF MayLock(p) THEN Numbered(p)
       ELSE sequence = 0 /\ Goto(p, "insert")
    /\ UNCHANGED <<entries, sequence, periods, leaves>>

\* The insert waits for the other one: IntegrityError if that was committed.
insert_sequence(p) ==
    /\ tx[p].pc = "insert"
    /\ SequenceFree(p)
    /\ IF sequence = 0 THEN Numbered(p) ELSE Ends(p)
    /\ UNCHANGED <<entries, sequence, periods, leaves>>

\* record_leaf(): a leaf that exists is kept.  With attestation switched off on
\* the server, or after an exception, which is swallowed, none is recorded and
\* the entry is posted all the same.
Mut_LeafBeforeNumber(i, e, recorded) ==
    IF recorded THEN [LeafOf(e) EXCEPT !.number = 0] ELSE NoLeaf
Leaf(i, e, recorded) ==
    IF i \in DOMAIN leaves /\ leaves[i] # NoLeaf THEN leaves[i]
    ELSE IF recorded THEN LeafOf(e) ELSE NoLeaf

\* The value the sequence is left with.
Mut_LateIncrement(n) == n
Incremented(n) == n + 1

\* The flushes and the commit.  An existing row gets the columns the copy
\* changed (status and number), or raises StaleDataError when it is gone; a
\* number that is taken raises IntegrityError.
NumberTaken(p) ==
    \E j \in DOMAIN entries :
        j # tx[p].id /\ entries[j].number = tx[p].entry.number

commit_post(p) ==
    /\ tx[p].pc = "flush"
    /\ LET i    == tx[p].id
           e    == tx[p].entry
           orig == e.reverses
           written ==
               IF i = 0 THEN Append(entries, e)
               ELSE [entries EXCEPT ![i].status = e.status,
                                    ![i].number = e.number]
       IN  IF NumberTaken(p) \/ (i # 0 /\ entries[i].status = "deleted")
           THEN UNCHANGED <<entries, sequence, leaves>>
           ELSE /\ entries' = IF orig = 0 \/ i # 0 THEN written
                              ELSE [written EXCEPT ![orig].status = "reversed"]
                /\ sequence' = Incremented(e.number)
                /\ \E recorded \in BOOLEAN :
                       leaves' = IF i = 0
                                 THEN Append(leaves, Leaf(Len(leaves) + 1, e, recorded))
                                 ELSE [leaves EXCEPT ![i] = Leaf(i, e, recorded)]
    /\ Ends(p)
    /\ UNCHANGED periods

----------------------------------------------------------------------------
(* Periods.                                                                *)

\* A locked period is not to be changed.
IsLocked(d) == periods[d] = "locked"

\* A status that the copy already had is not written.
BeginPeriod(p, d, s) ==
    tx' = [tx EXCEPT ![p] = [Idle EXCEPT !.pc = "period_status", !.id = -1,
                                         !.period = d,
                                         !.to = IF s = periods[d] THEN "same"
                                                ELSE s]]

close_period(p) ==
    /\ Uses(p, "close")
    /\ \E d \in Periods, s \in {"closed", "locked"} :
           /\ ~IsLocked(d)
           /\ ~has_open_period_before(d)
           /\ BeginPeriod(p, d, s)
    /\ UNCHANGED <<entries, sequence, periods, leaves>>

reopen_period(p) ==
    /\ Uses(p, "reopen")
    /\ \E d \in Periods :
           /\ ~IsLocked(d)
           /\ periods[d] # "open"
           /\ BeginPeriod(p, d, "open")
    /\ UNCHANGED <<entries, sequence, periods, leaves>>

commit_period(p) ==
    /\ tx[p].pc = "period_status"
    /\ periods' = [periods EXCEPT ![tx[p].period] =
                       IF tx[p].to = "same" THEN @ ELSE tx[p].to]
    /\ Ends(p)
    /\ UNCHANGED <<entries, sequence, leaves>>

\* The request fails, or the process does.
rollback(p) ==
    /\ tx[p].pc # "idle"
    /\ Ends(p)
    /\ UNCHANGED <<entries, sequence, periods, leaves>>

----------------------------------------------------------------------------
PostingInit ==
    /\ entries = <<>>
    /\ sequence = 0
    /\ periods = [d \in Periods |-> "open"]
    /\ leaves = <<>>
    /\ tx = [p \in Requests |-> Idle]
    /\ serves \in Workloads

Step == \E p \in Requests :
    \/ create_entry(p) \/ update_entry(p) \/ commit_update(p)
    \/ delete_draft(p) \/ commit_delete(p)
    \/ post_entry(p) \/ create_posted(p) \/ reverse_entry(p)
    \/ recheck_period(p) \/ next_number(p) \/ insert_sequence(p)
    \/ commit_post(p)
    \/ close_period(p) \/ reopen_period(p) \/ commit_period(p)
    \/ rollback(p)

PostingNext == Step /\ UNCHANGED serves

PostingSpec == PostingInit /\ [][PostingNext]_postingVars

----------------------------------------------------------------------------
(* Properties.                                                             *)

InBooks == {i \in DOMAIN entries : is_posted(entries[i])}

\* At most one process edits, posts or deletes drafts.  Two that do so at once
\* may both post one draft, or change it while it is being posted.
HandlesDrafts(p) == serves[p] \cap {"update", "post", "delete"} # {}
OneEditor == \A p, q \in Requests : HandlesDrafts(p) /\ HandlesDrafts(q) => p = q

\* "Gap-free per-scope document numbering" (NumberSequence): the entries in the
\* books are numbered 1, 2, ... up to the sequence, each number once, however
\* many requests create, post and reverse documents at once.
NumbersGapFree ==
    OneEditor =>
        /\ {entries[i].number : i \in InBooks} = 1 .. sequence - 1
        /\ \A i, j \in InBooks : entries[i].number = entries[j].number => i = j

\* A leaf commits to an entry that is in the books, and to what the books say of
\* it: nothing else is ever sealed, and an honest entry that has a leaf never
\* fails verification.  An entry may have none (record_leaf()).
LeafMatchesEntry ==
    OneEditor => \A i \in DOMAIN leaves :
        leaves[i] # NoLeaf => i \in InBooks /\ leaves[i] = LeafOf(entries[i])

\* Only one process serves requests, so none of them overlap.
OneAtATime == \E p \in Requests : \A q \in Requests \ {p} : serves[q] = {}

\* An entry that is marked reversed and its one reversal "sum to zero"
\* (reverse_entry()); an entry that is not has none.  Two reversals of one entry
\* that overlap both pass, so this is for requests one at a time.
ReversedOnce ==
    OneAtATime => \A i \in InBooks :
        LET R == {j \in InBooks : entries[j].reverses = i}
        IN  /\ entries[i].status = "posted" => R = {}
            /\ entries[i].status = "reversed" =>
                   \E j \in R : /\ R = {j}
                                /\ entries[i].amount + entries[j].amount = 0

\* What is in the books stays there as it is.  "Posted entries are immutable"
\* except that they are marked as reversed, "nothing posts into a closed period",
\* and locking "is intended to be final": whatever drafts, edits, closings and
\* reopenings came before, for requests one at a time.  An edit or a closing that
\* overlaps a post is not seen by it.
HistoryStands ==
    [][OneAtATime =>
        /\ \A i \in InBooks :
            entries'[i] \in {entries[i], [entries[i] EXCEPT !.status = "reversed"]}
        /\ \A i \in DOMAIN entries' :
            is_posted(entries'[i]) /\ (i \in DOMAIN entries => i \notin InBooks) =>
                accepts_postings(entries'[i].date)
        /\ \A d \in Periods : periods[d] = "locked" => periods'[d] = "locked"]_postingVars
=============================================================================
