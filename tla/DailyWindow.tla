---------------------------- MODULE DailyWindow ----------------------------
(***************************************************************************)
(* When the worker prepares a scheduled seal: _seal_due_organizations()    *)
(* and _daily_window_open() of backend/app/modules/attestation/worker.py,  *)
(* with the clock of organizations/clock.py.                               *)
(*                                                                         *)
(* Time is counted in slots of the UTC day.  The organisation's zone is a  *)
(* fixed offset, so a change of daylight saving time is left out.  The     *)
(* worker passes every minute: when it is up, no slot ends without a pass  *)
(* after whatever else happened in it.  What happens to a seal between the *)
(* pass that prepares it and the ledger that accepts it is the subject of  *)
(* SealOutbox; here it lasts any time.                                     *)
(*                                                                         *)
(* An operator named Mut_... is a plausible mistake in the operator after  *)
(* it; nothing here uses it.                                               *)
(***************************************************************************)
EXTENDS Integers

CONSTANTS
    SlotsPerDay,
    Offsets,        \* zones to try, in slots east of UTC
    MaxDays         \* bound on the length of a behaviour

VARIABLES
    offset,         \* Organization.timezone
    due,            \* seal_minute, or SEAL_DAILY_HOUR when unset
    utc,            \* the instant
    sealed,         \* sealed_at of the newest confirmed seal; 0: none
    open,           \* what prepared the seal in flight, if there is one
    backlog,        \* whether a leaf waits
    up,             \* whether the worker runs
    passed          \* whether its last pass of this slot is over

DayVars == <<offset, due, utc, sealed, open, backlog, up, passed>>

ASSUME DayAssumption == SlotsPerDay \in Nat \ {0}
ASSUME OffsetsAssumption == Offsets \subseteq -SlotsPerDay .. SlotsPerDay

----------------------------------------------------------------------------
date(t) == t \div SlotsPerDay
slot(t) == t % SlotsPerDay

local(t) == t + offset                  \* local_datetime()
local_today == date(local(utc))
slot_now == slot(local(utc))

\* (last.sealed_at).date(): sealed_at is stored, and comes back, in UTC.
last_date == date(sealed)

Mut_Inclusive ==
    \/ sealed = 0
    \/ /\ local_today >= last_date
       /\ slot_now >= due \/ local_today > last_date + 1
Mut_ExactlyNextDay ==
    sealed = 0 \/ (local_today = last_date + 1 /\ slot_now >= due)
daily_window_open ==
    \/ sealed = 0
    \/ /\ local_today > last_date
       /\ slot_now >= due \/ local_today > last_date + 1

----------------------------------------------------------------------------
DayInit ==
    /\ offset \in Offsets
    /\ due \in 0 .. SlotsPerDay - 1
    /\ utc = SlotsPerDay
    /\ sealed = 0
    /\ open = "none"
    /\ backlog \in BOOLEAN
    /\ up \in BOOLEAN
    /\ passed = FALSE

\* The cadence pass for one organisation; create_seal() takes the backlog.
exists_open == open # "none"

Due == ~exists_open /\ daily_window_open /\ backlog

seal_due ==
    /\ up
    /\ Due
    /\ open' = "schedule"
    /\ backlog' = FALSE
    /\ passed' = TRUE
    /\ UNCHANGED <<offset, due, utc, sealed, up>>

nothing_due ==
    /\ up
    /\ ~Due
    /\ passed' = TRUE
    /\ UNCHANGED <<offset, due, utc, sealed, open, backlog, up>>

\* seal_now() or the period-close hook prepare one whatever the hour.
seal_otherwise ==
    /\ ~exists_open
    /\ backlog
    /\ open' = "other"
    /\ backlog' = FALSE
    /\ passed' = FALSE
    /\ UNCHANGED <<offset, due, utc, sealed, up>>

\* The ledger accepts the open seal and the row is confirmed.
sealed_at == utc

confirm ==
    /\ exists_open
    /\ open' = "none"
    /\ sealed' = sealed_at
    /\ passed' = FALSE
    /\ UNCHANGED <<offset, due, utc, backlog, up>>

post ==
    /\ ~backlog
    /\ backlog' = TRUE
    /\ passed' = FALSE
    /\ UNCHANGED <<offset, due, utc, sealed, open, up>>

Tick ==
    /\ utc < MaxDays * SlotsPerDay
    /\ up => passed
    /\ utc' = utc + 1
    /\ passed' = FALSE
    /\ UNCHANGED <<offset, due, sealed, open, backlog, up>>

StopOrStart ==
    /\ up' = ~up
    /\ passed' = FALSE
    /\ UNCHANGED <<offset, due, utc, sealed, open, backlog>>

DayNext == \/ seal_due \/ nothing_due \/ seal_otherwise \/ confirm \/ post
        \/ Tick \/ StopOrStart

DaySpec == DayInit /\ [][DayNext]_DayVars

----------------------------------------------------------------------------
(* Properties.                                                             *)

DayTypeOK ==
    /\ offset \in Offsets
    /\ due \in 0 .. SlotsPerDay - 1
    /\ utc \in Nat
    /\ sealed \in 0 .. utc
    /\ open \in {"none", "schedule", "other"}
    /\ backlog \in BOOLEAN /\ up \in BOOLEAN /\ passed \in BOOLEAN

\* "The organization's own local date has advanced past the date of its last
\* confirmed seal" (_daily_window_open): a scheduled seal is accepted on a later
\* local day than the seal before it.  last_date is a UTC date, which is never
\* behind the local one at UTC and west of it.
OncePerLocalDayWest ==
    [][offset <= 0 /\ confirm /\ open = "schedule" /\ sealed # 0 =>
          local_today > date(local(sealed))]_DayVars

\* "Due means" that date has advanced and the chosen hour has passed: entries
\* that wait after a pass, with nothing in flight, wait because the local day
\* has its seal or its hour has not come.
NoDaySkipped ==
    passed /\ up /\ backlog /\ ~exists_open =>
        local_today <= date(local(sealed)) \/ slot_now < due

\* The same at UTC and east of it, where last_date is never ahead of the local
\* date.
NoDaySkippedEast == offset >= 0 => NoDaySkipped

\* A worker that was down "does not skip a day permanently": in any zone, a
\* pass leaves entries waiting only if the newest seal is less than two days,
\* and the offset to UTC, old.
CatchesUp ==
    passed /\ up /\ backlog /\ ~exists_open =>
        utc - sealed < 2 * SlotsPerDay + (IF offset < 0 THEN -offset ELSE 0)

\* What the schedule promises of every day: no day skipped where that holds, and
\* in every zone a pass that catches up.
DaysAreSealed == DayTypeOK /\ NoDaySkippedEast /\ CatchesUp
=============================================================================
