---------------------------- MODULE Onboarding -----------------------------
(***************************************************************************)
(* Opening and handing over an organisation's book: enable(), disable(),   *)
(* set_cadence() and rotate_signer() of AttestationService in              *)
(* backend/app/modules/attestation/service.py, against the contract of     *)
(* ProofLedger.                                                            *)
(*                                                                         *)
(* A request is one database transaction: tx[p] holds the settings row as  *)
(* it was loaded and as the request has changed it, and the commit writes  *)
(* the columns that changed.  Any exception rolls the request back, while  *)
(* a transaction it sent to the network stays sent.                        *)
(*                                                                         *)
(* A key pair is a key; the account of a key has the same name.  The calls *)
(* that only read or fund an account change nothing here: their failure is *)
(* `raises`.                                                               *)
(*                                                                         *)
(* An operator named Mut_... is a plausible mistake in the operator after  *)
(* it; nothing here uses it.                                               *)
(***************************************************************************)
EXTENDS Integers, FiniteSets

CONSTANTS
    Org, NoBook, NoKey,
    Requests,       \* processes serving requests, one request at a time each
    Supplied,       \* what users pass as secret_key; NoKey: nothing
    Generated,      \* keys generate_keypair() may return, each once
    CoSigned,       \* multisig accounts that a key of this server may sign for
    MaxFaults       \* bound on network faults and process crashes

VARIABLES
    books, seals,   \* the contract's storage
    net,            \* transactions sent, neither applied nor dead
    setting,        \* the AttestationSetting row
    drawn,          \* keys generated so far
    tx,             \* each process's request
    faults          \* faults so far

ledger == <<books, seals>>
SetupVars == <<books, seals, net, setting, drawn, tx, faults>>

Keys == (Supplied \ {NoKey}) \cup Generated
Accounts == Keys \cup CoSigned

PL == INSTANCE ProofLedger
        WITH Orgs <- {Org}, Addresses <- Accounts, Roots <- {0}, GENESIS <- 0,
             MaxSeq <- 0, MaxCount <- 0, MaxPeriod <- 0, MaxTime <- 0, now <- 0

ASSUME KeysAssumption ==
    /\ Supplied \cap Generated = {}
    /\ Keys \cap CoSigned = {}
    /\ NoKey \notin Generated \cup CoSigned

ASSUME BoundsAssumption == MaxFaults \in Nat

ASSUME NoBookAssumption == NoBook \notin PL!Book

----------------------------------------------------------------------------
Setting == [present: BOOLEAN, enabled: BOOLEAN, registered: BOOLEAN,
            signer: Accounts \cup {NoKey}, secret: Keys \cup {NoKey}]

NoSetting == [present |-> FALSE, enabled |-> FALSE, registered |-> FALSE,
              signer |-> NoKey, secret |-> NoKey]

NoRequest == [pc |-> "idle", loaded |-> NoSetting, row |-> NoSetting,
         key |-> NoKey, inserted |-> FALSE, to |-> NoKey]

\* The accounts a transaction signed with key k authorises.
Signs(k) == IF k = NoKey THEN {} ELSE {k} \cup CoSigned

is_ready(s) == s.enabled /\ s.registered /\ s.signer # NoKey

Opened == PL!is_registered(Org)

RegisterWith(p, k) == [op |-> "register", by |-> p, admin |-> k,
                       auth |-> Signs(k)]
RegisterCall(p) == RegisterWith(p, tx[p].row.secret)
RotateCall(p) == [op |-> "rotate", by |-> p, admin |-> tx[p].to,
                  auth |-> Signs(tx[p].row.secret)]

\* A row being inserted by another request: the unique index on the
\* organisation makes a second insert wait for it.
Inserting(p) == \E q \in Requests \ {p} : tx[q].inserted

\* What the commit of p's request leaves in the row: the columns it changed.
\* An encrypted secret never equals the stored one, so a chosen key is written.
Written(p) ==
    LET t == tx[p]
        kept(old, new, stored) == IF new = old THEN stored ELSE new
    IN  IF t.inserted THEN t.row
        ELSE [present    |-> TRUE,
              enabled    |-> kept(t.loaded.enabled, t.row.enabled,
                                  setting.enabled),
              registered |-> kept(t.loaded.registered, t.row.registered,
                                  setting.registered),
              signer     |-> kept(t.loaded.signer, t.row.signer,
                                  setting.signer),
              secret     |-> IF t.key # NoKey THEN t.key ELSE setting.secret]

Fault == faults < MaxFaults /\ faults' = faults + 1

Ends(p) == tx' = [tx EXCEPT ![p] = NoRequest]

----------------------------------------------------------------------------
(* enable().                                                               *)

\* ensure_setting() looks for the row.
enable(p) ==
    /\ tx[p].pc = "idle"
    /\ \E k \in Supplied :
           tx' = [tx EXCEPT ![p] =
               [NoRequest EXCEPT !.pc = IF setting.present THEN "signer" ELSE "insert",
                            !.loaded = setting, !.row = setting, !.key = k]]
    /\ UNCHANGED <<ledger, net, setting, drawn, faults>>

\* A row committed by someone else in between raises IntegrityError.
insert_setting(p) ==
    /\ tx[p].pc = "insert"
    /\ ~Inserting(p)
    /\ IF setting.present THEN Ends(p)
       ELSE tx' = [tx EXCEPT ![p].pc = "signer", ![p].inserted = TRUE,
                             ![p].row.present = TRUE]
    /\ UNCHANGED <<ledger, net, setting, drawn, faults>>

\* 1. Signer: the key passed in, the key stored, or a new one.
choose_signer(p) ==
    /\ tx[p].pc = "signer"
    /\ LET chosen(k) == tx' = [tx EXCEPT ![p].pc = "book", ![p].key = k,
                                         ![p].row.signer = k,
                                         ![p].row.secret = k]
       IN  IF tx[p].key # NoKey
           THEN chosen(tx[p].key) /\ UNCHANGED drawn
           ELSE IF tx[p].row.secret # NoKey
           THEN tx' = [tx EXCEPT ![p].pc = "book"] /\ UNCHANGED drawn
           ELSE \E k \in Generated \ drawn :
                    chosen(k) /\ drawn' = drawn \cup {k}
    /\ UNCHANGED <<ledger, net, setting, faults>>

\* The request's row once it takes the book to be open.
Mut_EnabledByRegistering(row) ==
    [row EXCEPT !.enabled = ~Opened, !.registered = TRUE]
Configured(row) == [row EXCEPT !.enabled = TRUE, !.registered = TRUE]

TakeAsOpen(p) ==
    tx' = [tx EXCEPT ![p].pc = "commit", ![p].row = Configured(@)]

\* 3. The book, unless the row already says that it is registered.
check_book(p) ==
    /\ tx[p].pc = "book"
    /\ IF tx[p].row.registered \/ Opened THEN TakeAsOpen(p)
       ELSE tx' = [tx EXCEPT ![p].pc = "send"]
    /\ UNCHANGED <<ledger, net, setting, drawn, faults>>

\* register_book(): refused as already registered when simulated, or sent.
send_register(p) ==
    /\ tx[p].pc = "send"
    /\ IF Opened THEN TakeAsOpen(p) /\ UNCHANGED net
       ELSE /\ net' = net \cup {RegisterCall(p)}
            /\ tx' = [tx EXCEPT ![p].pc = "poll"]
    /\ UNCHANGED <<ledger, setting, drawn, faults>>

\* Confirmed, or refused as already registered.
poll_answered(p) ==
    /\ tx[p].pc = "poll"
    /\ RegisterCall(p) \notin net
    /\ Opened
    /\ TakeAsOpen(p)
    /\ UNCHANGED <<ledger, net, setting, drawn, faults>>

\* No answer in time, or a failure without a contract code: ConflictError or
\* BusinessRuleError, and the request is rolled back.  Not a fault when the
\* transaction is dead.
Unanswered(p) ==
    /\ tx[p].pc = "poll"
    /\ IF RegisterCall(p) \in net \/ Opened THEN Fault ELSE UNCHANGED faults
    /\ UNCHANGED <<ledger, net, setting, drawn>>
poll_unknown(p) == Unanswered(p) /\ Ends(p)

commit_enable(p) ==
    /\ tx[p].pc = "commit"
    /\ setting' = Written(p)
    /\ Ends(p)
    /\ UNCHANGED <<ledger, net, drawn, faults>>

----------------------------------------------------------------------------
(* The other operations on the settings row.                               *)

\* set_cadence() changes nothing this module keeps, beyond ensure_setting().
set_cadence ==
    /\ \A q \in Requests : ~tx[q].inserted
    /\ setting' = [setting EXCEPT !.present = TRUE]
    /\ UNCHANGED <<ledger, net, drawn, tx, faults>>

disable ==
    /\ \A q \in Requests : ~tx[q].inserted
    /\ setting' = [setting EXCEPT !.present = TRUE, !.enabled = FALSE]
    /\ UNCHANGED <<ledger, net, drawn, tx, faults>>

\* Refused while a seal is in flight, which is not modelled here.
rotate_signer(p) ==
    /\ tx[p].pc = "idle"
    /\ is_ready(setting)
    /\ setting.secret # NoKey
    /\ \E a \in Accounts :
           tx' = [tx EXCEPT ![p] = [NoRequest EXCEPT !.pc = "rotate", !.row = setting,
                                                !.loaded = setting, !.to = a]]
    /\ UNCHANGED <<ledger, net, setting, drawn, faults>>

\* Simulated, and sent if the contract would accept it.
send_rotate(p) ==
    /\ tx[p].pc = "rotate"
    /\ IF Opened /\ {books[Org].admin, tx[p].to} \subseteq RotateCall(p).auth
       THEN /\ net' = net \cup {RotateCall(p)}
            /\ tx' = [tx EXCEPT ![p].pc = "rotating"]
       ELSE Ends(p) /\ UNCHANGED net
    /\ UNCHANGED <<ledger, setting, drawn, faults>>

\* Confirmed: the account is recorded, the secret stays.
Mut_DropsSecret(s, a) == [s EXCEPT !.signer = a, !.secret = NoKey]
Rotated(s, a) == [s EXCEPT !.signer = a]

rotate_confirmed(p) ==
    /\ tx[p].pc = "rotating"
    /\ RotateCall(p) \notin net
    /\ books[Org].admin = tx[p].to
    /\ setting' = IF tx[p].to = tx[p].loaded.signer THEN setting
                  ELSE Rotated(setting, tx[p].to)
    /\ Ends(p)
    /\ UNCHANGED <<ledger, net, drawn, faults>>

rotate_unknown(p) ==
    /\ tx[p].pc = "rotating"
    /\ IF RotateCall(p) \in net \/ books[Org].admin = tx[p].to
       THEN Fault ELSE UNCHANGED faults
    /\ Ends(p)
    /\ UNCHANGED <<ledger, net, setting, drawn>>

----------------------------------------------------------------------------
(* The network, and what can go wrong with a request.                      *)

\* An exception (the chain or an account out of reach) or a crash.
raises(p) ==
    /\ tx[p].pc # "idle"
    /\ Fault
    /\ Ends(p)
    /\ UNCHANGED <<ledger, net, setting, drawn>>

Land ==
    /\ \E m \in net :
           /\ IF m.op = "register" THEN PL!register(Org, m.admin)
              ELSE PL!rotate(Org, m.admin, m.auth)
           /\ net' = net \ {m}
    /\ UNCHANGED <<setting, drawn, tx, faults>>

Refused(m) == IF m.op = "register" THEN Opened
              ELSE ~({books[Org].admin, m.admin} \subseteq m.auth)

LandRefused ==
    /\ \E m \in net : Refused(m) /\ net' = net \ {m}
    /\ UNCHANGED <<ledger, setting, drawn, tx, faults>>

Expire ==
    /\ \E m \in net : net' = net \ {m}
    /\ Fault
    /\ UNCHANGED <<ledger, setting, drawn, tx>>

----------------------------------------------------------------------------
SetupInit ==
    /\ books = [o \in {Org} |-> NoBook]
    /\ seals = [o \in {Org} |-> {}]
    /\ net = {}
    /\ setting = NoSetting
    /\ drawn = {}
    /\ tx = [p \in Requests |-> NoRequest]
    /\ faults = 0

Enable(p) ==
    \/ insert_setting(p) \/ choose_signer(p) \/ check_book(p)
    \/ send_register(p) \/ poll_answered(p) \/ poll_unknown(p)
    \/ commit_enable(p)

Rotate(p) == send_rotate(p) \/ rotate_confirmed(p) \/ rotate_unknown(p)

SetupNext ==
    \/ \E p \in Requests : enable(p) \/ Enable(p) \/ rotate_signer(p)
                               \/ Rotate(p) \/ raises(p)
    \/ set_cadence \/ disable
    \/ Land \/ LandRefused \/ Expire

SetupSpec == SetupInit /\ [][SetupNext]_SetupVars

\* A request that began runs to its end, the network applies what it was sent,
\* and somebody who sees sealing off presses the button again.
Fairness ==
    /\ \A p \in Requests :
           /\ WF_SetupVars(Enable(p) \/ Rotate(p))
           /\ WF_SetupVars(~is_ready(setting) /\ enable(p))
    /\ WF_SetupVars(Land \/ LandRefused)

FairSpec == SetupSpec /\ Fairness

----------------------------------------------------------------------------
(* Properties.                                                             *)

TypeOK ==
    /\ PL!TypeOK
    /\ net \subseteq [op: {"register", "rotate"}, by: Requests,
                      admin: Accounts, auth: SUBSET Accounts]
    /\ setting \in Setting
    /\ drawn \subseteq Generated
    /\ tx \in [Requests ->
           [pc: {"idle", "insert", "signer", "book", "send", "poll", "commit",
                 "rotate", "rotating"},
            loaded: Setting, row: Setting, key: Keys \cup {NoKey},
            inserted: BOOLEAN, to: Accounts \cup {NoKey}]]
    /\ faults \in 0 .. MaxFaults

\* The organisation brings one key, and none is generated beside it.
OneKey == \A j, k \in Keys : j = k

\* "Whether a seal could actually be submitted right now" (is_ready): the key
\* the server holds authorises a seal of the book that is open on chain, and a
\* row with registered_at, "when register was confirmed on chain", has a book,
\* through unknown outcomes and requests that overtake each other.
ReadyCanSeal ==
    /\ TypeOK
    /\ setting.registered => Opened
    /\ is_ready(setting) => setting.secret # NoKey
    /\ OneKey /\ is_ready(setting) =>
           ~PL!Unauthorised(Org, Signs(setting.secret))

\* "A second run converges rather than failing" (enable()): through unknown
\* outcomes, crashes and overlapping requests, and whenever it is switched off,
\* pressing the button again ends with sealing on.
EventuallyReady == []<>is_ready(setting)
=============================================================================
