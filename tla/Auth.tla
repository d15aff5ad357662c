-------------------------------- MODULE Auth -------------------------------
(***************************************************************************)
(* Signing in and staying signed in: backend/app/modules/auth (AuthService,*)
(* token_store.py, repository.py, dependencies.py) with core/security.py.  *)
(*                                                                         *)
(* Rows live in PostgreSQL and change when a request commits; the rest     *)
(* lives in Redis and changes at once.  Most requests are one step.  Those *)
(* whose reads and writes can be parted by another request take several:   *)
(* refresh (holds the row lock of the session it rotates), revoking every  *)
(* session (an UPDATE over the rows its snapshot shows), the e-mailed code *)
(* (check, then consume), the app's poll (read, then close) and the second *)
(* factor (the user row as read, then the session).  What LoginThrottle    *)
(* guards asks for a lockout first, answers in another step, and after a   *)
(* wrong answer counts, locks and clears the counter in three.             *)
(*                                                                         *)
(* A secret is the number of the draw that produced it.  A six-digit code  *)
(* is either the one last mailed or wrong.  Only tokens and the epoch need *)
(* a clock; any other key may expire at any moment.  Mail arrives.         *)
(*                                                                         *)
(* An operator named Mut_... is a plausible mistake in the operator after  *)
(* it; nothing here uses it.                                               *)
(***************************************************************************)
EXTENDS Integers, FiniteSets, SequencesExt

CONSTANTS
    Users, Workers,
    Operations,         \* the endpoints that clients use
    Passwords, WeakPasswords,
    TotpCodes,          \* the codes an authenticator shows, one per period
    RecoveryCodes,      \* how many codes generate_recovery_codes() draws
    MaxLoginAttempts, MaxOtpAttempts,
    AccessTTL, EpochTTL,
    LastTick, MaxRequests, MaxSessions

VARIABLES
    users,              \* app_user rows
    sessions,           \* user_session rows; the index is the refresh token
    links,              \* e-mailed one-time tokens
    handles,            \* device sign-ins an app is polling
    otp,                \* by purpose and user: the code is live, its attempts
    challenges,         \* open two-factor challenges
    burned,             \* TOTP codes spent
    throttle,           \* LoginThrottle, and the wrong answers it let through
    epochs, revoked,    \* what invalidates access tokens
    tokens,             \* access tokens handed out
    jobs,               \* requests under way
    now, served, drawn, \* the clock, requests begun, secrets drawn
    era,                \* by user: how often every session was revoked
    overtaken           \* a refresh was under way during such a revocation

clocks == <<now, era, overtaken>>
redis == <<links, handles, otp, challenges, burned, throttle>>
vars == <<users, sessions, redis, epochs, revoked, tokens, jobs, now, served,
          drawn, era, overtaken>>

ASSUME AuthAssumption ==
    /\ {MaxLoginAttempts, MaxOtpAttempts, AccessTTL, EpochTTL, RecoveryCodes}
            \subseteq Nat \ {0}
    /\ WeakPasswords \subseteq Passwords
    /\ TotpCodes \subseteq 1 .. 9
    /\ IsFiniteSet(Workers)

\* Secrets are numbered above the codes an authenticator shows.
FirstDraw == 10
WrongCode == 0

----------------------------------------------------------------------------
(* Rows and keys.                                                          *)

Nobody == [exists |-> FALSE, password |-> "", verified |-> FALSE,
           secret |-> FALSE, totp |-> FALSE, recovery |-> {}]
User(p, v) == [Nobody EXCEPT !.exists = TRUE, !.password = p, !.verified = v]

can_authenticate(u) == users[u].exists
is_two_factor_enabled(u) == users[u].secret /\ users[u].totp

validate_password(p) == p \notin WeakPasswords
verify_password(u, p) == can_authenticate(u) /\ users[u].password = p

\* second: signed in with a second factor; owed: one was enabled then.
UserSession(u, root, second, owed, born) ==
    [user |-> u, revoked |-> FALSE, rotated_to |-> 0, root |-> root,
     second |-> second, owed |-> owed, born |-> born]

Live(s) == ~sessions[s].revoked
LiveOf(u) == {s \in DOMAIN sessions : sessions[s].user = u /\ Live(s)}

Idle == [op |-> "idle"]
Free(w) == jobs[w] = Idle
InFlight(op) == {w \in Workers : jobs[w].op = op}

\* A request is served while the bound lasts.
Serve(op) == op \in Operations /\ served < MaxRequests /\ served' = served + 1

----------------------------------------------------------------------------
(* Access tokens.                                                          *)

current(u) == IF epochs[u].until > now THEN epochs[u].value ELSE 0

bump(u) == epochs' = [epochs EXCEPT ![u] =
                        [value |-> current(u) + 1, until |-> now + EpochTTL]]

create_access_token(u, s) ==
    [user |-> u, sid |-> s, epoch |-> current(u), exp |-> now + AccessTTL]

_assert_token_still_valid(t) ==
    t.exp > now /\ t.epoch = current(t.user) /\ t.sid \notin revoked

\* get_current_user and get_current_session, for the token t.
CurrentUser(t) == t \in tokens /\ _assert_token_still_valid(t)
CurrentSession(t) == CurrentUser(t) /\ Live(t.sid)

----------------------------------------------------------------------------
(* Brute-force protection.                                                 *)

is_locked(u) == throttle[u].locked

\* login(), verify_otp() and reset_password() begin by asking for a lockout.
AskLockout(w, u, op) ==
    /\ Serve(op)
    /\ Free(w) /\ ~is_locked(u)
    /\ jobs' = [jobs EXCEPT ![w] = [op |-> op, user |-> u]]
    /\ UNCHANGED <<users, sessions, redis, epochs, revoked, tokens, drawn, clocks>>

\* The counter is incremented; at the limit the request goes on to lock.
Mut_LateLock(w, u, wrong) ==
    /\ throttle' = [throttle EXCEPT ![u].attempts = @ + 1, ![u].wrong = @ + wrong]
    /\ jobs' = [jobs EXCEPT ![w] = IF throttle[u].attempts >= MaxLoginAttempts
                                   THEN [op |-> "lock", user |-> u] ELSE Idle]
record_failure(w, u, wrong) ==
    /\ throttle' = [throttle EXCEPT ![u].attempts = @ + 1, ![u].wrong = @ + wrong]
    /\ jobs' = [jobs EXCEPT ![w] = IF throttle[u].attempts + 1 >= MaxLoginAttempts
                                   THEN [op |-> "lock", user |-> u] ELSE Idle]
_record_failed_login(w, u) == record_failure(w, u, 1)

\* The counter goes; without a lockout that restores the user's attempts.
Forgotten(u) ==
    [throttle EXCEPT ![u].attempts = 0,
                     ![u].wrong = IF throttle[u].locked THEN @ ELSE 0]

set_lockout(w) ==
    /\ jobs[w].op = "lock"
    /\ throttle' = [throttle EXCEPT ![jobs[w].user].locked = TRUE]
    /\ jobs' = [jobs EXCEPT ![w] = [op |-> "clear", user |-> jobs[w].user]]
    /\ UNCHANGED <<users, sessions, links, handles, otp, challenges, burned, epochs,
                   revoked, tokens, served, drawn, clocks>>
clear_attempts(w) ==
    /\ jobs[w].op = "clear"
    /\ throttle' = Forgotten(jobs[w].user)
    /\ jobs' = [jobs EXCEPT ![w] = Idle]
    /\ UNCHANGED <<users, sessions, links, handles, otp, challenges, burned, epochs,
                   revoked, tokens, served, drawn, clocks>>

reset(u) == [throttle EXCEPT ![u] = [attempts |-> 0, locked |-> FALSE, wrong |-> 0]]

\* OtpStore.check: the store afterwards; the answer is Right.
check(k, right) ==
    LET attempts == otp[k].attempts + 1
        Right == right /\ otp[k].live /\ attempts <= MaxOtpAttempts
    IN  IF Right THEN otp
        ELSE [otp EXCEPT ![k] = [live |-> @.live /\ attempts < MaxOtpAttempts,
                                 attempts |-> attempts]]
Passes(k, right) == right /\ otp[k].live /\ otp[k].attempts < MaxOtpAttempts
consume(k) == [otp EXCEPT ![k] = [live |-> FALSE, attempts |-> 0]]
issue(k) == [otp EXCEPT ![k] = [live |-> TRUE, attempts |-> 0]]

----------------------------------------------------------------------------
(* Sessions.                                                               *)

_establish_session(u, second) ==
    /\ Len(sessions) < MaxSessions
    /\ sessions' = Append(sessions, UserSession(u, Len(sessions) + 1, second,
                                        is_two_factor_enabled(u), era[u]))
    /\ tokens' = tokens \cup {create_access_token(u, Len(sessions) + 1)}

two_factor_challenge(u) == challenges' = challenges \cup {[id |-> drawn, user |-> u]}

\* How a first factor ends: a challenge, a refusal, or a session.
Mut_StraightIn(u) ==
    _establish_session(u, FALSE) /\ UNCHANGED <<challenges, drawn>>
FirstFactor(u) ==
    \/ /\ is_two_factor_enabled(u)
       /\ two_factor_challenge(u)
       /\ drawn' = drawn + 1
       /\ UNCHANGED <<sessions, tokens>>
    \/ /\ ~is_two_factor_enabled(u)
       /\ _establish_session(u, FALSE)
       /\ UNCHANGED <<challenges, drawn>>

login(w, p) ==
    LET u == jobs[w].user IN
    /\ jobs[w].op = "login"
    /\ \/ /\ ~verify_password(u, p)
          /\ _record_failed_login(w, u)
          /\ UNCHANGED <<challenges, drawn, sessions, tokens>>
       \/ /\ verify_password(u, p)
          /\ throttle' = reset(u)
          /\ IF ~is_two_factor_enabled(u) /\ ~users[u].verified
             THEN UNCHANGED <<challenges, drawn, sessions, tokens>>
             ELSE FirstFactor(u)
          /\ jobs' = [jobs EXCEPT ![w] = Idle]
    /\ UNCHANGED <<users, links, handles, otp, burned, epochs, revoked, served, clocks>>

\* Raising after the second factor is owed rolls back the verification.
Verified(u, committed) ==
    users' = [users EXCEPT ![u].verified = @ \/ committed]

register(u, p) ==
    /\ Serve("register")
    /\ ~users[u].exists /\ validate_password(p)
    /\ users' = [users EXCEPT ![u] = User(p, FALSE)]
    /\ links' = links \cup {[id |-> drawn, user |-> u, kind |-> "verify", device |-> -1]}
    /\ drawn' = drawn + 1
    /\ UNCHANGED <<sessions, handles, otp, challenges, burned, throttle, epochs,
                   revoked, tokens, jobs, clocks>>

resend_verification(u) ==
    /\ Serve("resend_verification")
    /\ can_authenticate(u) /\ ~users[u].verified
    /\ links' = links \cup {[id |-> drawn, user |-> u, kind |-> "verify", device |-> -1]}
    /\ drawn' = drawn + 1
    /\ UNCHANGED <<users, sessions, handles, otp, challenges, burned, throttle,
                   epochs, revoked, tokens, jobs, clocks>>

verify_email(l) ==
    /\ Serve("verify_email")
    /\ l \in links /\ l.kind = "verify"
    /\ links' = links \ {l}
    /\ Verified(l.user, TRUE)
    /\ UNCHANGED <<sessions, handles, otp, challenges, burned, throttle, epochs,
                   revoked, tokens, jobs, drawn, clocks>>

request_magic_link(u) ==
    /\ Serve("request_magic_link")
    /\ can_authenticate(u)
    /\ links' = links \cup {[id |-> drawn, user |-> u, kind |-> "magic", device |-> -1]}
    /\ drawn' = drawn + 1
    /\ UNCHANGED <<users, sessions, handles, otp, challenges, burned, throttle,
                   epochs, revoked, tokens, jobs, clocks>>

\* The link names the handle it approves; an unknown address gets a handle
\* that nothing will ever approve.
open_device_sign_in(u) ==
    /\ Serve("open_device_sign_in")
    /\ handles' = handles \cup {[id |-> drawn, approved |-> FALSE, user |-> u]}
    /\ links' = IF can_authenticate(u)
                THEN links \cup {[id |-> drawn + 1, user |-> u, kind |-> "magic",
                                  device |-> drawn]}
                ELSE links
    /\ drawn' = drawn + 2
    /\ UNCHANGED <<users, sessions, otp, challenges, burned, throttle, epochs,
                   revoked, tokens, jobs, clocks>>

verify_magic_link(l) ==
    /\ Serve("verify_magic_link")
    /\ l \in links /\ l.kind = "magic"
    /\ links' = links \ {l}
    /\ \/ /\ l.device >= 0
          /\ \/ /\ \E h \in handles : h.id = l.device
                /\ handles' = {IF h.id = l.device THEN [h EXCEPT !.approved = TRUE]
                               ELSE h : h \in handles}
                /\ Verified(l.user, TRUE)
             \/ /\ \A h \in handles : h.id # l.device
                /\ UNCHANGED <<handles, users>>
          /\ UNCHANGED <<challenges, drawn, sessions, tokens>>
       \/ /\ l.device < 0
          /\ Verified(l.user, ~is_two_factor_enabled(l.user))
          /\ FirstFactor(l.user)
          /\ UNCHANGED handles
    /\ UNCHANGED <<otp, burned, throttle, epochs, revoked, jobs, clocks>>

request_otp(u, purpose) ==
    /\ Serve(IF purpose = "login" THEN "request_otp" ELSE "forgot_password")
    /\ can_authenticate(u)
    /\ otp' = issue(<<purpose, u>>)
    /\ UNCHANGED <<users, sessions, links, handles, challenges, burned, throttle,
                   epochs, revoked, tokens, jobs, drawn, clocks>>

----------------------------------------------------------------------------
(* Two-step requests: the code, the poll, the second factor.               *)

verify_otp(w, right) ==
    LET u == jobs[w].user IN
    /\ jobs[w].op = "verify_otp"
    /\ otp' = check(<<"login", u>>, right)
    /\ IF Passes(<<"login", u>>, right)
       THEN /\ jobs' = [jobs EXCEPT ![w] = [op |-> "otp", user |-> u]]
            /\ UNCHANGED throttle
       ELSE _record_failed_login(w, u)
    /\ UNCHANGED <<users, sessions, links, handles, challenges, burned, epochs,
                   revoked, tokens, served, drawn, clocks>>

verify_otp_session(w) ==
    LET u == jobs[w].user IN
    /\ jobs[w].op = "otp"
    /\ otp' = consume(<<"login", u>>)
    /\ throttle' = reset(u)
    /\ Verified(u, ~is_two_factor_enabled(u))
    /\ FirstFactor(u)
    /\ jobs' = [jobs EXCEPT ![w] = Idle]
    /\ UNCHANGED <<links, handles, burned, epochs, revoked, served, clocks>>

poll_device_sign_in(w, h) ==
    /\ Serve("poll_device_sign_in")
    /\ Free(w) /\ h \in handles /\ h.approved
    /\ jobs' = [jobs EXCEPT ![w] = [op |-> "poll", user |-> h.user, handle |-> h]]
    /\ UNCHANGED <<users, sessions, redis, epochs, revoked, tokens, drawn, clocks>>

poll_device_claim(w) ==
    /\ jobs[w].op = "poll"
    /\ handles' = handles \ {jobs[w].handle}
    /\ FirstFactor(jobs[w].user)
    /\ jobs' = [jobs EXCEPT ![w] = Idle]
    /\ UNCHANGED <<users, links, otp, burned, throttle, epochs, revoked, served, clocks>>

_consume_totp_code(u, c) ==
    users[u].secret /\ <<u, c>> \notin burned /\ burned' = burned \cup {<<u, c>>}

complete_two_factor(w, ch, code) ==
    LET u == ch.user IN
    /\ Serve("complete_two_factor")
    /\ Free(w) /\ ch \in challenges
    /\ \/ /\ code \in TotpCodes /\ _consume_totp_code(u, code)
          /\ jobs' = [jobs EXCEPT ![w] = [op |-> "second", user |-> u, ch |-> ch,
                                          recovery |-> users[u].recovery, code |-> code]]
          /\ UNCHANGED throttle
       \/ /\ code \in users[u].recovery
          /\ jobs' = [jobs EXCEPT ![w] = [op |-> "second", user |-> u, ch |-> ch,
                            recovery |-> users[u].recovery \ {code}, code |-> code]]
          /\ UNCHANGED <<burned, throttle>>
       \/ /\ code \notin users[u].recovery
          /\ code \in TotpCodes => ~users[u].secret \/ <<u, code>> \in burned
          /\ record_failure(w, u, 0)
          /\ UNCHANGED burned
    /\ UNCHANGED <<users, sessions, links, handles, otp, challenges, epochs,
                   revoked, tokens, drawn, clocks>>

\* The list of recovery codes is written back as it was read, less one.
complete_two_factor_session(w) ==
    LET u == jobs[w].user IN
    /\ jobs[w].op = "second"
    /\ challenges' = challenges \ {jobs[w].ch}
    /\ throttle' = reset(u)
    /\ IF users[u].verified
       THEN /\ users' = [users EXCEPT ![u].recovery =
                            IF jobs[w].code \in TotpCodes THEN @ ELSE jobs[w].recovery]
            /\ _establish_session(u, TRUE)
       ELSE UNCHANGED <<users, sessions, tokens>>
    /\ jobs' = [jobs EXCEPT ![w] = Idle]
    /\ UNCHANGED <<links, handles, otp, burned, epochs, revoked, served, drawn, clocks>>

----------------------------------------------------------------------------
(* Two-factor enrolment.                                                   *)

Enrol(u, row) ==
    /\ users' = [users EXCEPT ![u] = row]
    /\ UNCHANGED <<sessions, redis, epochs, revoked, tokens, jobs, clocks>>

generate_recovery_codes == drawn .. drawn + RecoveryCodes - 1

begin_two_factor_setup(t) ==
    /\ Serve("begin_two_factor_setup")
    /\ CurrentUser(t) /\ ~is_two_factor_enabled(t.user)
    /\ Enrol(t.user, [users[t.user] EXCEPT !.secret = TRUE, !.totp = FALSE])
    /\ UNCHANGED drawn

enable_two_factor(t) ==
    /\ Serve("enable_two_factor")
    /\ CurrentUser(t) /\ users[t.user].secret /\ ~users[t.user].totp
    /\ Enrol(t.user, [users[t.user] EXCEPT !.totp = TRUE,
                                           !.recovery = generate_recovery_codes])
    /\ drawn' = drawn + RecoveryCodes

disable_two_factor(t, p) ==
    /\ Serve("disable_two_factor")
    /\ CurrentUser(t) /\ is_two_factor_enabled(t.user) /\ verify_password(t.user, p)
    /\ Enrol(t.user, [users[t.user] EXCEPT !.secret = FALSE, !.totp = FALSE,
                                           !.recovery = {}])
    /\ UNCHANGED drawn

regenerate_recovery_codes(t, p) ==
    /\ Serve("regenerate_recovery_codes")
    /\ CurrentUser(t) /\ is_two_factor_enabled(t.user) /\ verify_password(t.user, p)
    /\ Enrol(t.user, [users[t.user] EXCEPT !.recovery = generate_recovery_codes])
    /\ drawn' = drawn + RecoveryCodes

----------------------------------------------------------------------------
(* Refreshing, and revoking.                                               *)

\* A transaction holds the row: a refresh reads it FOR UPDATE, an UPDATE
\* takes the rows it finds.
RowLocked(s) ==
    \/ \E v \in InFlight("refresh") : jobs[v].sid = s
    \/ \E v \in InFlight("revoke") : s \in jobs[v].snapshot

Mut_NoLock(w, s) == Free(w) /\ s \in DOMAIN sessions
get_by_refresh_token(w, s) == Free(w) /\ s \in DOMAIN sessions /\ ~RowLocked(s)

\* The sessions that rotation made of s, s first.
Lineage(s) == {r \in DOMAIN sessions : sessions[r].root = sessions[s].root /\ r >= s}
revoke_lineage(s) ==
    [r \in DOMAIN sessions |->
        [sessions[r] EXCEPT !.revoked = @ \/ r \in Lineage(s)]]

refresh(w, s) ==
    /\ Serve("refresh")
    /\ get_by_refresh_token(w, s)
    /\ \/ /\ Live(s)
          /\ jobs' = [jobs EXCEPT ![w] = [op |-> "refresh", sid |-> s,
                                          user |-> sessions[s].user]]
          /\ UNCHANGED <<sessions, epochs>>
       \* a rotated token presented again; committed at once
       \/ /\ ~Live(s) /\ sessions[s].rotated_to # 0
          /\ sessions' = revoke_lineage(s)
          /\ bump(sessions[s].user)
          /\ UNCHANGED jobs
    /\ UNCHANGED <<users, redis, revoked, tokens, drawn, clocks>>

\* The successor takes over; its expiry and its sign-in are the old ones.
refresh_commit(w) ==
    LET s == jobs[w].sid
        successor == Len(sessions) + 1
    IN
    /\ jobs[w].op = "refresh"
    /\ successor <= MaxSessions
    /\ sessions' = Append([sessions EXCEPT ![s].revoked = TRUE,
                                           ![s].rotated_to = successor],
                          [sessions[s] EXCEPT !.revoked = FALSE, !.rotated_to = 0])
    /\ tokens' = tokens \cup {create_access_token(jobs[w].user, successor)}
    /\ jobs' = [jobs EXCEPT ![w] = Idle]
    /\ UNCHANGED <<users, redis, epochs, revoked, served, drawn, clocks>>

\* UPDATE ... WHERE revoked_at IS NULL sees the rows committed when it starts.
revoke_all_for_user(w, u, password) ==
    /\ bump(u)
    /\ jobs' = [jobs EXCEPT ![w] = [op |-> "revoke", user |-> u, snapshot |-> LiveOf(u),
                                    password |-> password]]
    /\ era' = [era EXCEPT ![u] = @ + 1]
    /\ overtaken' = (overtaken \/ \E v \in InFlight("refresh") : jobs[v].user = u)

Mut_KeepNewest(w) ==
    [s \in DOMAIN sessions |-> [sessions[s] EXCEPT !.revoked =
        @ \/ (s \in jobs[w].snapshot /\ s # Len(sessions))]]
RevokeSnapshot(w) ==
    [s \in DOMAIN sessions |->
        [sessions[s] EXCEPT !.revoked = @ \/ s \in jobs[w].snapshot]]

\* It waits for rows that a refresh has locked, then the request commits.
revoke_all_commit(w) ==
    LET u == jobs[w].user IN
    /\ jobs[w].op = "revoke"
    /\ \A v \in InFlight("refresh") : jobs[v].sid \notin jobs[w].snapshot
    /\ sessions' = RevokeSnapshot(w)
    /\ users' = [users EXCEPT ![u].password = jobs[w].password]
    /\ jobs' = [jobs EXCEPT ![w] = Idle]
    /\ UNCHANGED <<redis, epochs, revoked, tokens, served, drawn, clocks>>

_apply_new_password(w, u, p) ==
    validate_password(p) /\ users[u].password # p /\ revoke_all_for_user(w, u, p)

\* A code stays live when what follows refuses the request.
reset_password(w, right, p) ==
    LET u == jobs[w].user
        k == <<"password-reset", u>>
    IN
    /\ jobs[w].op = "reset_password"
    /\ \/ /\ ~Passes(k, right)
          /\ otp' = check(k, right)
          /\ _record_failed_login(w, u)
          /\ UNCHANGED <<epochs, era, overtaken>>
       \/ /\ Passes(k, right)
          /\ throttle' = reset(u)
          /\ IF validate_password(p) /\ users[u].password # p
             THEN _apply_new_password(w, u, p) /\ otp' = consume(k)
             ELSE /\ jobs' = [jobs EXCEPT ![w] = Idle]
                  /\ UNCHANGED <<otp, epochs, era, overtaken>>
    /\ UNCHANGED <<users, sessions, links, handles, challenges, burned, revoked,
                   tokens, now, served, drawn>>

change_password(w, t, old, p) ==
    /\ Serve("change_password")
    /\ Free(w) /\ CurrentUser(t) /\ verify_password(t.user, old)
    /\ _apply_new_password(w, t.user, p)
    /\ UNCHANGED <<users, sessions, redis, revoked, tokens, now, drawn>>

logout_all(w, t) ==
    /\ Serve("logout_all")
    /\ Free(w) /\ CurrentSession(t)
    /\ revoke_all_for_user(w, t.user, users[t.user].password)
    /\ UNCHANGED <<users, sessions, redis, revoked, tokens, now, drawn>>

\* Signing one session out, this one or another of the user's.
revoke_session(t, s) ==
    /\ Serve(IF s = t.sid THEN "logout" ELSE "revoke_session")
    /\ CurrentUser(t) /\ s \in DOMAIN sessions /\ sessions[s].user = t.user
    /\ s = t.sid => Live(s)
    /\ ~RowLocked(s)
    /\ sessions' = [sessions EXCEPT ![s].revoked = TRUE]
    /\ revoked' = revoked \cup {s}
    /\ UNCHANGED <<users, redis, epochs, tokens, jobs, drawn, clocks>>

----------------------------------------------------------------------------
(* Time.                                                                   *)

Tick ==
    /\ now < LastTick
    /\ now' = now + 1
    /\ tokens' = {t \in tokens : t.exp > now + 1}
    /\ UNCHANGED <<users, sessions, redis, epochs, revoked, jobs, served, drawn,
                   era, overtaken>>

ExpireLockout(u) ==
    /\ is_locked(u)
    /\ throttle' = [throttle EXCEPT ![u].locked = FALSE, ![u].wrong = 0]
    /\ UNCHANGED <<users, sessions, links, handles, otp, challenges, burned, epochs,
                   revoked, tokens, jobs, served, drawn, clocks>>

ExpireAttempts(u) ==
    /\ throttle[u].attempts > 0
    /\ throttle' = Forgotten(u)
    /\ UNCHANGED <<users, sessions, links, handles, otp, challenges, burned, epochs,
                   revoked, tokens, jobs, served, drawn, clocks>>

ExpireKey ==
    /\ \/ \E l \in links : links' = links \ {l} /\ UNCHANGED <<handles, challenges>>
       \/ \E h \in handles : handles' = handles \ {h} /\ UNCHANGED <<links, challenges>>
       \/ \E c \in challenges : challenges' = challenges \ {c} /\ UNCHANGED <<links, handles>>
    /\ UNCHANGED <<users, sessions, otp, burned, throttle, epochs, revoked, tokens,
                   jobs, served, drawn, clocks>>

----------------------------------------------------------------------------
Init ==
    /\ users \in [Users -> {Nobody} \cup {User(p, TRUE) : p \in Passwords \ WeakPasswords}]
    /\ sessions = <<>>
    /\ links = {} /\ handles = {} /\ challenges = {} /\ burned = {}
    /\ otp = [k \in {"login", "password-reset"} \X Users |-> [live |-> FALSE, attempts |-> 0]]
    /\ throttle = [u \in Users |-> [attempts |-> 0, locked |-> FALSE, wrong |-> 0]]
    /\ epochs = [u \in Users |-> [value |-> 0, until |-> 0]]
    /\ revoked = {} /\ tokens = {}
    /\ jobs = [w \in Workers |-> Idle]
    /\ now = 0 /\ served = 0 /\ drawn = FirstDraw
    /\ era = [u \in Users |-> 0] /\ overtaken = FALSE

Next ==
    \/ \E u \in Users, p \in Passwords : register(u, p)
    \/ \E w \in Workers, u \in Users, op \in {"login", "verify_otp", "reset_password"} :
          AskLockout(w, u, op)
    \/ \E u \in Users : \/ resend_verification(u)
                        \/ request_magic_link(u)
                        \/ open_device_sign_in(u)
                        \/ ExpireLockout(u) \/ ExpireAttempts(u)
    \/ \E u \in Users, purpose \in {"login", "password-reset"} : request_otp(u, purpose)
    \/ \E l \in links : verify_email(l) \/ verify_magic_link(l)
    \/ \E w \in Workers, right \in BOOLEAN :
          \/ verify_otp(w, right)
          \/ \E p \in Passwords : reset_password(w, right, p)
    \/ \E w \in Workers : \/ \E p \in Passwords : login(w, p)
                          \/ set_lockout(w) \/ clear_attempts(w)
                          \/ verify_otp_session(w)
                          \/ poll_device_claim(w)
                          \/ complete_two_factor_session(w)
                          \/ refresh_commit(w)
                          \/ revoke_all_commit(w)
    \/ \E w \in Workers, h \in handles : poll_device_sign_in(w, h)
    \/ \E w \in Workers, ch \in challenges :
          \E c \in TotpCodes \cup users[ch.user].recovery \cup {WrongCode} :
             complete_two_factor(w, ch, c)
    \/ \E t \in tokens : begin_two_factor_setup(t) \/ enable_two_factor(t)
    \/ \E t \in tokens, p \in Passwords :
          disable_two_factor(t, p) \/ regenerate_recovery_codes(t, p)
    \/ \E w \in Workers, s \in DOMAIN sessions : refresh(w, s)
    \/ \E w \in Workers, t \in tokens :
          \/ logout_all(w, t)
          \/ \E old \in Passwords, p \in Passwords : change_password(w, t, old, p)
    \/ \E t \in tokens, s \in DOMAIN sessions : revoke_session(t, s)
    \/ Tick
    \/ ExpireKey

Spec == Init /\ [][Next]_vars

----------------------------------------------------------------------------
(* What must hold.                                                         *)

\* However many refreshes of one token overlap, a sign-in has at most one
\* session that is still good: get_by_refresh_token takes the row lock before
\* refresh decides between rotating and replaying.
OneSessionPerSignIn ==
    \A r, s \in DOMAIN sessions :
        sessions[r].root = sessions[s].root /\ Live(r) /\ Live(s) => r = s

\* Changing or resetting the password and signing out everywhere leave no
\* session that was signed in before, except when a refresh was under way
\* then: revoke_all_for_user only updates the rows its snapshot shows.
EarlierSessionsDie ==
    ~overtaken /\ InFlight("revoke") = {} =>
        \A s \in DOMAIN sessions : Live(s) => sessions[s].born = era[sessions[s].user]

\* Whichever way the first factor was shown (password, link, code, an app's
\* poll), a session of a user with two-factor sign-in needed the second one.
SecondFactorHolds ==
    \A s \in DOMAIN sessions : sessions[s].owed => sessions[s].second

\* login_throttle lets through no more wrong passwords and e-mailed codes than
\* max_login_attempts, and one for each further request that overlaps the last
\* of them, before a success, the end of a lockout or the end of the counter's
\* window.  Codes of the second factor are counted and, since
\* complete_two_factor() never asks for a lockout, not bounded by it.
GuessesBounded ==
    \A u \in Users :
        throttle[u].wrong <= MaxLoginAttempts + Cardinality(Workers) - 1
=============================================================================
