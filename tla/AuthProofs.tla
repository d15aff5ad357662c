----------------------------- MODULE AuthProofs ----------------------------
(***************************************************************************)
(* Proofs about module Auth, for any users, workers, operations and        *)
(* bounds: that a sign-in has one good session, that signing out           *)
(* everywhere ends the earlier ones, that no way in avoids the second      *)
(* factor, and that the throttle bounds the guesses.                       *)
(***************************************************************************)
EXTENDS Auth, FiniteSetTheorems, SequenceTheorems, TLAPS

----------------------------------------------------------------------------
(* The inductive invariant.                                                *)

SessionRow == [user : Users, revoked : BOOLEAN, rotated_to : Nat, root : Nat,
               second : BOOLEAN, owed : BOOLEAN, born : Nat]

\* Rotation hands the number of the sign-in's first session on.
SessionsInv ==
    /\ sessions \in Seq(SessionRow)
    /\ \A s \in DOMAIN sessions : sessions[s].root \in 1 .. s
    /\ SecondFactorHolds
    /\ OneSessionPerSignIn

\* What names a user names one that exists.
Named(S) == \A x \in S : x.user \in Users
Shown(S) == \A h \in S : /\ h = [id |-> h.id, approved |-> h.approved, user |-> h.user]
                         /\ h.user \in Users
SourcesInv ==
    /\ Named(tokens) /\ Named(links) /\ Shown(handles) /\ Named(challenges)
    /\ DOMAIN jobs = Workers
    /\ \A w \in Workers : jobs[w].op # "idle" => jobs[w].user \in Users

\* Whoever holds the row of a session is alone in its lineage, and no other
\* session of the lineage is good.
RefreshInv ==
    /\ \A w \in InFlight("refresh") :
        /\ jobs[w].sid \in DOMAIN sessions
        /\ jobs[w].user = sessions[jobs[w].sid].user
        /\ \A r \in DOMAIN sessions :
            sessions[r].root = sessions[jobs[w].sid].root /\ Live(r) => r = jobs[w].sid
    /\ \A v, w \in InFlight("refresh") :
        sessions[jobs[v].sid].root = sessions[jobs[w].sid].root => v = w

\* While no refresh was overtaken, a good session is of this era or about to be
\* revoked, and so is what a refresh will hand on.
Doomed(s) == \E w \in InFlight("revoke") : s \in jobs[w].snapshot
EraInv ==
    /\ era \in [Users -> Nat]
    /\ overtaken \in BOOLEAN
    /\ ~overtaken =>
        /\ \A s \in DOMAIN sessions :
            Live(s) => sessions[s].born = era[sessions[s].user] \/ Doomed(s)
        /\ \A w \in InFlight("refresh") :
            sessions[jobs[w].sid].born = era[jobs[w].user]

IInv == SessionsInv /\ SourcesInv /\ RefreshInv /\ EraInv

----------------------------------------------------------------------------
(* Sessions and the requests that change them in two steps.                *)

\* Only requests that neither refresh nor revoke begin and end.
QuietJobs ==
    \A w \in Workers : \A op \in {"refresh", "revoke"} :
        jobs[w].op = op \/ jobs'[w].op = op => jobs'[w] = jobs[w]

SessionParts == SessionsInv /\ RefreshInv /\ EraInv

\* Steps that leave the sessions alone.
LEMMA SameSessions ==
  ASSUME SessionParts, QuietJobs, UNCHANGED <<sessions, era, overtaken>>
  PROVE  SessionParts'
<1>1. SessionsInv'
  BY DEF SessionParts, SessionsInv, SecondFactorHolds, OneSessionPerSignIn, Live
<1>2. InFlight("refresh")' = InFlight("refresh") /\ InFlight("revoke")' = InFlight("revoke")
      /\ \A w \in InFlight("refresh") \cup InFlight("revoke") : jobs'[w] = jobs[w]
  BY DEF InFlight, QuietJobs
<1>3. RefreshInv'
  BY <1>2 DEF SessionParts, RefreshInv, Live
<1>4. EraInv'
  BY <1>2 DEF SessionParts, EraInv, Doomed, Live
<1>. QED  BY <1>1, <1>3, <1>4 DEF SessionParts

\* Appending a row.
LEMMA AppendRow ==
  ASSUME NEW q \in Seq(SessionRow), NEW row \in SessionRow, NEW r, r = Append(q, row)
  PROVE  /\ r \in Seq(SessionRow) /\ DOMAIN r = DOMAIN q \cup {Len(q) + 1}
         /\ Len(q) + 1 \notin DOMAIN q /\ Len(q) \in Nat /\ DOMAIN q = 1 .. Len(q)
         /\ r[Len(q) + 1] = row
         /\ \A s \in DOMAIN q : r[s] = q[s]
<1>1. /\ r \in Seq(SessionRow) /\ Len(r) = Len(q) + 1
      /\ \A i \in 1 .. Len(q) : r[i] = q[i]
      /\ r[Len(q) + 1] = row
  BY AppendProperties
<1>2. Len(q) \in Nat /\ DOMAIN q = 1 .. Len(q) /\ DOMAIN r = 1 .. Len(r)
  BY <1>1, LenProperties
<1>. QED  BY <1>1, <1>2

\* A sign-in opens a session of its own, of this era, with the factor it owes.
LEMMA NewSession ==
  ASSUME SessionParts, QuietJobs, UNCHANGED <<era, overtaken>>,
         NEW u \in Users, NEW second \in BOOLEAN,
         is_two_factor_enabled(u) => second,
         _establish_session(u, second)
  PROVE  SessionParts'
<1> DEFINE n == Len(sessions) + 1
           row == UserSession(u, n, second, is_two_factor_enabled(u), era[u])
<1>1. sessions' = Append(sessions, row) /\ sessions \in Seq(SessionRow)
  BY DEF _establish_session, SessionParts, SessionsInv
<1>2. n \in Nat
  BY <1>1, LenProperties
<1>3. row \in SessionRow /\ row.root = n /\ (row.owed => row.second)
      /\ row.user = u /\ row.born = era[u]
  BY <1>2 DEF UserSession, SessionRow, SessionParts, EraInv, is_two_factor_enabled
<1> HIDE DEF row
<1>4. /\ sessions' \in Seq(SessionRow) /\ DOMAIN sessions' = DOMAIN sessions \cup {n}
      /\ n \notin DOMAIN sessions /\ DOMAIN sessions = 1 .. (n - 1)
      /\ sessions'[n] = row /\ \A s \in DOMAIN sessions : sessions'[s] = sessions[s]
  BY <1>1, <1>3, AppendRow
<1>5. \A s \in DOMAIN sessions : sessions[s].root # n /\ sessions[s].root \in 1 .. s
  BY <1>2, <1>4 DEF SessionParts, SessionsInv
<1> HIDE DEF n
<1>6. SessionsInv'
  <2>1. \A s \in DOMAIN sessions' : sessions'[s].root \in 1 .. s
    <3>1. n \in 1 .. n
      BY <1>2 DEF n
    <3>. QED  BY <1>3, <1>4, <1>5, <3>1
  <2>2. SecondFactorHolds'
    BY <1>3, <1>4 DEF SessionParts, SessionsInv, SecondFactorHolds
  <2>3. OneSessionPerSignIn'
    BY <1>3, <1>4, <1>5 DEF SessionParts, SessionsInv, OneSessionPerSignIn, Live
  <2>. QED  BY <1>4, <2>1, <2>2, <2>3 DEF SessionsInv
<1>7. InFlight("refresh")' = InFlight("refresh") /\ InFlight("revoke")' = InFlight("revoke")
      /\ \A w \in InFlight("refresh") \cup InFlight("revoke") : jobs'[w] = jobs[w]
  BY DEF InFlight, QuietJobs
<1>8. RefreshInv'
  <2>1. \A w \in InFlight("refresh") :
            /\ jobs'[w].sid = jobs[w].sid /\ jobs'[w].user = jobs[w].user
            /\ jobs[w].sid \in DOMAIN sessions
            /\ sessions'[jobs[w].sid] = sessions[jobs[w].sid]
    BY <1>4, <1>7 DEF SessionParts, RefreshInv
  <2>2. ASSUME NEW w \in InFlight("refresh"), NEW r \in DOMAIN sessions',
               sessions'[r].root = sessions[jobs[w].sid].root, Live(r)'
        PROVE  r = jobs[w].sid
    <3>1. r # n
      BY <1>3, <1>4, <1>5, <2>1, <2>2
    <3>2. r \in DOMAIN sessions /\ sessions'[r] = sessions[r]
      BY <1>4, <3>1
    <3>. QED  BY <2>2, <3>2 DEF SessionParts, RefreshInv, Live
  <2>3. \A w \in InFlight("refresh") :
            /\ jobs[w].user = sessions[jobs[w].sid].user
            /\ \A v \in InFlight("refresh") :
                sessions[jobs[v].sid].root = sessions[jobs[w].sid].root => v = w
    BY DEF SessionParts, RefreshInv
  <2>. QED  BY <1>4, <1>7, <2>1, <2>2, <2>3 DEF RefreshInv
<1>9. EraInv'
  <2> SUFFICES ASSUME ~overtaken
               PROVE  /\ \A s \in DOMAIN sessions' : Live(s)' =>
                            sessions'[s].born = era[sessions'[s].user] \/ Doomed(s)'
                      /\ \A w \in InFlight("refresh") :
                            sessions'[jobs'[w].sid].born = era[jobs'[w].user]
    BY <1>7 DEF SessionParts, EraInv
  <2>1. \A w \in InFlight("refresh") : jobs[w].sid \in DOMAIN sessions
    BY DEF SessionParts, RefreshInv
  <2>. QED  BY <1>3, <1>4, <1>7, <2>1 DEF SessionParts, EraInv, Doomed, Live
<1>. QED  BY <1>6, <1>8, <1>9 DEF SessionParts

\* The rows after sessions were revoked.
Weaker ==
    /\ sessions' \in Seq(SessionRow) /\ DOMAIN sessions' = DOMAIN sessions
    /\ \A s \in DOMAIN sessions :
        /\ sessions'[s].user = sessions[s].user /\ sessions'[s].root = sessions[s].root
        /\ sessions'[s].second = sessions[s].second /\ sessions'[s].owed = sessions[s].owed
        /\ sessions'[s].born = sessions[s].born
        /\ sessions[s].revoked => sessions'[s].revoked

\* Revoking leaves the sessions' own invariant.
LEMMA WeakerSessions ==
  ASSUME SessionsInv, Weaker
  PROVE  SessionsInv'
  BY DEF SessionsInv, Weaker, SecondFactorHolds, OneSessionPerSignIn, Live

\* Revoking sessions while nothing else changes.
LEMMA FewerSessions ==
  ASSUME SessionParts, Weaker, UNCHANGED <<jobs, era, overtaken>>
  PROVE  SessionParts'
<1>1. SessionsInv'
  BY WeakerSessions DEF SessionParts
<1>2. RefreshInv'
  BY DEF SessionParts, RefreshInv, Weaker, Live, InFlight
<1>3. EraInv'
  <2>1. \A w \in InFlight("refresh") : jobs[w].sid \in DOMAIN sessions
    BY DEF SessionParts, RefreshInv
  <2>. QED  BY <2>1 DEF SessionParts, EraInv, Weaker, Doomed, Live, InFlight
<1>. QED  BY <1>1, <1>2, <1>3 DEF SessionParts

\* The rows with the sessions of a set revoked.
LEMMA RevokedRows ==
  ASSUME SessionsInv, NEW S,
         sessions' = [s \in DOMAIN sessions |->
                        [sessions[s] EXCEPT !.revoked = @ \/ s \in S]]
  PROVE  Weaker /\ \A s \in DOMAIN sessions : s \in S => sessions'[s].revoked
<1>1. sessions \in Seq(SessionRow) /\ Len(sessions) \in Nat
      /\ DOMAIN sessions = 1 .. Len(sessions)
      /\ sessions \in [1 .. Len(sessions) -> SessionRow]
  BY LenProperties DEF SessionsInv
<1>2. ASSUME NEW s \in DOMAIN sessions
      PROVE  /\ sessions'[s] \in SessionRow
             /\ sessions'[s].user = sessions[s].user /\ sessions'[s].root = sessions[s].root
             /\ sessions'[s].second = sessions[s].second
             /\ sessions'[s].owed = sessions[s].owed
             /\ sessions'[s].born = sessions[s].born
             /\ sessions'[s].revoked = (sessions[s].revoked \/ s \in S)
  <2>1. sessions[s] \in SessionRow
    BY <1>1
  <2>2. sessions'[s] = [sessions[s] EXCEPT !.revoked = @ \/ s \in S]
    OBVIOUS
  <2>. QED  BY <2>1, <2>2 DEF SessionRow
<1>3. sessions' \in [1 .. Len(sessions) -> SessionRow]
  BY <1>1, <1>2
<1>4. sessions' \in Seq(SessionRow)
  BY <1>1, <1>3, SeqDef
<1>. QED  BY <1>2, <1>4 DEF Weaker
\* A refresh begins on a good session whose row nobody holds.
LEMMA RefreshBegins ==
  ASSUME SessionParts, DOMAIN jobs = Workers, NEW w \in Workers, Free(w),
         NEW s \in DOMAIN sessions, ~RowLocked(s), Live(s),
         jobs' = [jobs EXCEPT ![w] = [op |-> "refresh", sid |-> s,
                                      user |-> sessions[s].user]],
         UNCHANGED <<sessions, era, overtaken>>
  PROVE  SessionParts'
<1>1. /\ jobs'[w].op = "refresh" /\ jobs'[w].sid = s /\ jobs'[w].user = sessions[s].user
      /\ \A v \in Workers \ {w} : jobs'[v] = jobs[v]
      /\ jobs[w].op = "idle"
  BY DEF Free, Idle
<1>2. /\ InFlight("refresh")' = InFlight("refresh") \cup {w} /\ w \notin InFlight("refresh")
      /\ InFlight("revoke")' = InFlight("revoke") /\ w \notin InFlight("revoke")
      /\ \A v \in InFlight("refresh") \cup InFlight("revoke") : jobs'[v] = jobs[v]
  BY <1>1 DEF InFlight
<1>3. SessionsInv'
  BY DEF SessionParts, SessionsInv, SecondFactorHolds, OneSessionPerSignIn, Live
<1>4. \A v \in InFlight("refresh") :
        sessions[jobs[v].sid].root # sessions[s].root
  BY DEF SessionParts, RefreshInv, RowLocked
<1>5. RefreshInv'
  <2>1. \A r \in DOMAIN sessions : sessions[r].root = sessions[s].root /\ Live(r) => r = s
    BY DEF SessionParts, SessionsInv, OneSessionPerSignIn
  <2>. QED  BY <1>1, <1>2, <1>4, <2>1 DEF SessionParts, RefreshInv, Live
<1>6. EraInv'
  <2>1. ~Doomed(s)
    BY DEF RowLocked, Doomed
  <2>. QED  BY <1>1, <1>2, <2>1 DEF SessionParts, EraInv, Doomed, Live
<1>. QED  BY <1>3, <1>5, <1>6 DEF SessionParts

\* A refresh commits: the successor is the one good session of its sign-in.
LEMMA RefreshCommits ==
  ASSUME SessionParts, DOMAIN jobs = Workers, NEW w \in Workers, refresh_commit(w)
  PROVE  SessionParts'
<1>0. PICK s : s = jobs[w].sid
  OBVIOUS
<1> DEFINE n == Len(sessions) + 1
           old == [sessions[s] EXCEPT !.revoked = TRUE, !.rotated_to = n]
           q == [sessions EXCEPT ![s] = old]
           row == [sessions[s] EXCEPT !.revoked = FALSE, !.rotated_to = 0]
<1>1. /\ jobs[w].op = "refresh" /\ jobs' = [jobs EXCEPT ![w] = Idle]
      /\ w \in InFlight("refresh") /\ UNCHANGED <<era, overtaken>>
  BY DEF refresh_commit, InFlight, clocks
<1>2. /\ s \in DOMAIN sessions /\ jobs[w].user = sessions[s].user
      /\ \A r \in DOMAIN sessions : sessions[r].root = sessions[s].root /\ Live(r) => r = s
      /\ \A v \in InFlight("refresh") :
            sessions[jobs[v].sid].root = sessions[s].root => v = w
  BY <1>0, <1>1 DEF SessionParts, RefreshInv
<1>3. /\ sessions \in Seq(SessionRow) /\ DOMAIN sessions = 1 .. Len(sessions)
      /\ Len(sessions) \in Nat /\ sessions[s] \in SessionRow
  BY <1>2, LenProperties, ElementOfSeq DEF SessionParts, SessionsInv
<1>4. sessions' = Append(q, row)
  BY <1>0, <1>2, <1>3 DEF refresh_commit
<1>5. /\ old \in SessionRow /\ old.revoked /\ old.root = sessions[s].root
      /\ old.user = sessions[s].user /\ old.second = sessions[s].second
      /\ old.owed = sessions[s].owed /\ old.born = sessions[s].born
  <2>1. PICK o : o = old
    OBVIOUS
  <2>2. o = [user |-> sessions[s].user, revoked |-> TRUE, rotated_to |-> n,
             root |-> sessions[s].root, second |-> sessions[s].second,
             owed |-> sessions[s].owed, born |-> sessions[s].born]
    BY <1>3, <2>1 DEF SessionRow
  <2>3. n \in Nat
    BY <1>3
  <2> HIDE DEF old, n
  <2>. QED  BY <1>3, <2>1, <2>2, <2>3 DEF SessionRow
<1>6. /\ row \in SessionRow /\ row.root = sessions[s].root
      /\ row.user = sessions[s].user /\ row.second = sessions[s].second
      /\ row.owed = sessions[s].owed /\ row.born = sessions[s].born
  BY <1>3 DEF SessionRow
<1> HIDE DEF old, row
<1>7. q \in Seq(SessionRow) /\ Len(q) = Len(sessions) /\ q[s] = old
      /\ \A r \in DOMAIN sessions : r # s => q[r] = sessions[r]
  BY <1>2, <1>3, <1>5, ExceptSeq
<1>8. DOMAIN q = DOMAIN sessions
  BY <1>3, <1>7, LenProperties
<1> HIDE DEF q
<1>9. /\ sessions' \in Seq(SessionRow) /\ DOMAIN sessions' = DOMAIN sessions \cup {n}
      /\ n \notin DOMAIN sessions
      /\ sessions'[n] = row /\ sessions'[s] = old
      /\ \A r \in DOMAIN sessions : r # s => sessions'[r] = sessions[r]
  BY <1>2, <1>4, <1>6, <1>7, <1>8, AppendRow
<1>10. \A r \in DOMAIN sessions : r < n /\ r \in Nat
  BY <1>3
<1> HIDE DEF n
<1>11. ~Live(s)' /\ \A r \in DOMAIN sessions : Live(r)' => r # s /\ Live(r)
  BY <1>5, <1>9 DEF Live
<1>12. SessionsInv'
  <2>1. \A r \in DOMAIN sessions' : sessions'[r].root \in 1 .. r
    <3>1. \A r \in DOMAIN sessions : sessions[r].root \in 1 .. r
      BY DEF SessionParts, SessionsInv
    <3>2. sessions[s].root \in 1 .. n
      BY <1>2, <1>3, <1>10, <3>1 DEF n
    <3>. QED  BY <1>2, <1>5, <1>6, <1>9, <3>1, <3>2
  <2>2. SecondFactorHolds'
    BY <1>2, <1>5, <1>6, <1>9 DEF SessionParts, SessionsInv, SecondFactorHolds
  <2>3. OneSessionPerSignIn'
    <3> SUFFICES ASSUME NEW a \in DOMAIN sessions', NEW b \in DOMAIN sessions',
                        sessions'[a].root = sessions'[b].root, Live(a)', Live(b)'
                 PROVE  a = b
      BY DEF OneSessionPerSignIn
    <3>1. CASE a \in DOMAIN sessions /\ b \in DOMAIN sessions
      BY <1>9, <1>11, <3>1 DEF SessionParts, SessionsInv, OneSessionPerSignIn
    <3>2. \A r \in DOMAIN sessions : Live(r)' => sessions'[r].root # row.root
      BY <1>2, <1>6, <1>9, <1>11
    <3>. QED  BY <1>9, <3>1, <3>2
  <2>. QED  BY <1>9, <2>1, <2>2, <2>3 DEF SessionsInv
<1>13. /\ InFlight("refresh")' = InFlight("refresh") \ {w}
       /\ InFlight("revoke")' = InFlight("revoke")
       /\ \A v \in InFlight("refresh")' \cup InFlight("revoke") : jobs'[v] = jobs[v]
  BY <1>1 DEF InFlight, Idle
<1>14. \A v \in InFlight("refresh")' :
         /\ jobs[v].sid \in DOMAIN sessions /\ jobs[v].sid # s
         /\ sessions[jobs[v].sid].root # sessions[s].root
  BY <1>2, <1>13 DEF SessionParts, RefreshInv
<1>15. RefreshInv'
  <2>1. ASSUME NEW v \in InFlight("refresh")'
        PROVE  /\ jobs'[v].sid \in DOMAIN sessions'
               /\ jobs'[v].user = sessions'[jobs'[v].sid].user
               /\ \A r \in DOMAIN sessions' :
                    sessions'[r].root = sessions'[jobs'[v].sid].root /\ Live(r)'
                        => r = jobs'[v].sid
    <3>1. jobs'[v] = jobs[v] /\ v \in InFlight("refresh")
      BY <1>13
    <3>2. sessions'[jobs[v].sid] = sessions[jobs[v].sid]
      BY <1>9, <1>14
    <3>3. ASSUME NEW r \in DOMAIN sessions',
                 sessions'[r].root = sessions[jobs[v].sid].root, Live(r)'
          PROVE  r = jobs[v].sid
      <4>1. r \in DOMAIN sessions
        BY <1>6, <1>9, <1>14, <3>3
      <4>2. r # s /\ Live(r) /\ sessions'[r] = sessions[r]
        BY <1>9, <1>11, <3>3, <4>1
      <4>. QED  BY <3>1, <3>3, <4>1, <4>2 DEF SessionParts, RefreshInv
    <3>4. jobs[v].user = sessions[jobs[v].sid].user
      BY <3>1 DEF SessionParts, RefreshInv
    <3>. QED  BY <1>9, <1>14, <3>1, <3>2, <3>3, <3>4
  <2>2. ASSUME NEW v \in InFlight("refresh")', NEW x \in InFlight("refresh")',
               sessions'[jobs'[v].sid].root = sessions'[jobs'[x].sid].root
        PROVE  v = x
    <3>1. sessions[jobs[v].sid].root = sessions[jobs[x].sid].root
      BY <1>9, <1>13, <1>14, <2>2
    <3>. QED  BY <1>13, <3>1 DEF SessionParts, RefreshInv
  <2>. QED  BY <2>1, <2>2 DEF RefreshInv
<1>16. EraInv'
  <2> SUFFICES ASSUME ~overtaken
               PROVE  /\ \A r \in DOMAIN sessions' : Live(r)' =>
                            sessions'[r].born = era[sessions'[r].user] \/ Doomed(r)'
                      /\ \A v \in InFlight("refresh")' :
                            sessions'[jobs'[v].sid].born = era[jobs'[v].user]
    BY <1>1 DEF SessionParts, EraInv
  <2>1. row.born = era[row.user]
    BY <1>0, <1>1, <1>2, <1>6 DEF SessionParts, EraInv
  <2>2. \A r : Doomed(r)' <=> Doomed(r)
    BY <1>13 DEF Doomed
  <2>3. \A r \in DOMAIN sessions' : Live(r)' =>
            sessions'[r].born = era[sessions'[r].user] \/ Doomed(r)'
    BY <1>9, <1>11, <2>1, <2>2 DEF SessionParts, EraInv
  <2>4. \A v \in InFlight("refresh")' : sessions'[jobs'[v].sid].born = era[jobs'[v].user]
    BY <1>9, <1>13, <1>14 DEF SessionParts, EraInv
  <2>. QED  BY <2>3, <2>4
<1>. QED  BY <1>12, <1>15, <1>16 DEF SessionParts
\* Revoking everything begins: its snapshot has every good session of the user,
\* and a refresh of one of them that is under way overtakes it.
LEMMA RevokeBegins ==
  ASSUME SessionParts, SourcesInv, NEW w \in Workers, NEW u \in Users, NEW p,
         jobs[w].op \notin {"refresh", "revoke"},
         revoke_all_for_user(w, u, p), UNCHANGED sessions
  PROVE  SessionParts'
<1>1. /\ era' = [era EXCEPT ![u] = @ + 1]
      /\ overtaken' = (overtaken \/ \E v \in InFlight("refresh") : jobs[v].user = u)
      /\ jobs' = [jobs EXCEPT ![w] = [op |-> "revoke", user |-> u, snapshot |-> LiveOf(u),
                                      password |-> p]]
  BY DEF revoke_all_for_user
<1>2. DOMAIN jobs = Workers /\ jobs'[w].op = "revoke" /\ jobs'[w].snapshot = LiveOf(u)
      /\ \A v \in Workers \ {w} : jobs'[v] = jobs[v]
  BY <1>1 DEF SourcesInv
<1>3. /\ InFlight("refresh")' = InFlight("refresh")
      /\ InFlight("revoke")' = InFlight("revoke") \cup {w} /\ w \notin InFlight("revoke")
      /\ w \notin InFlight("refresh")
      /\ \A v \in InFlight("refresh") \cup InFlight("revoke") : jobs'[v] = jobs[v]
  BY <1>1, <1>2 DEF InFlight
<1>4. SessionsInv'
  BY DEF SessionParts, SessionsInv, SecondFactorHolds, OneSessionPerSignIn, Live
<1>5. RefreshInv'
  BY <1>3 DEF SessionParts, RefreshInv, Live
<1>6. EraInv'
  <2>1. era' \in [Users -> Nat] /\ overtaken' \in BOOLEAN
        /\ \A v \in Users : v # u => era'[v] = era[v]
    BY <1>1 DEF SessionParts, EraInv
  <2> SUFFICES ASSUME ~overtaken'
               PROVE  /\ \A s \in DOMAIN sessions : Live(s) =>
                            sessions[s].born = era'[sessions[s].user] \/ Doomed(s)'
                      /\ \A v \in InFlight("refresh") :
                            sessions[jobs[v].sid].born = era'[jobs[v].user]
    BY <1>3, <2>1 DEF EraInv, Live
  <2>2. ~overtaken /\ \A v \in InFlight("refresh") : jobs[v].user # u
    BY <1>1
  <2>3. ASSUME NEW s \in DOMAIN sessions, Live(s)
        PROVE  sessions[s].born = era'[sessions[s].user] \/ Doomed(s)'
    <3>1. CASE sessions[s].user = u
      BY <1>2, <1>3, <2>3, <3>1 DEF Doomed, LiveOf
    <3>2. CASE sessions[s].user # u
      <4>0. sessions \in Seq(SessionRow)
        BY DEF SessionParts, SessionsInv
      <4>2. sessions[s] \in SessionRow
        BY <4>0
      <4>1. sessions[s].user \in Users
        BY <4>2 DEF SessionRow
      <4>. QED  BY <1>3, <2>1, <2>2, <2>3, <3>2, <4>1 DEF SessionParts, EraInv, Doomed
    <3>. QED  BY <3>1, <3>2
  <2>4. ASSUME NEW v \in InFlight("refresh")
        PROVE  sessions[jobs[v].sid].born = era'[jobs[v].user]
    <3>1. jobs[v].user \in Users
      BY DEF SourcesInv, InFlight
    <3>. QED  BY <2>1, <2>2, <3>1 DEF SessionParts, EraInv
  <2>. QED  BY <2>3, <2>4
<1>. QED  BY <1>4, <1>5, <1>6 DEF SessionParts

\* It ends: the sessions of its snapshot are gone.
LEMMA RevokeCommits ==
  ASSUME SessionParts, SourcesInv, NEW w \in Workers, revoke_all_commit(w)
  PROVE  SessionParts'
<1>1. /\ jobs[w].op = "revoke" /\ sessions' = RevokeSnapshot(w)
      /\ jobs' = [jobs EXCEPT ![w] = Idle] /\ UNCHANGED <<era, overtaken>>
  BY DEF revoke_all_commit, clocks
<1>2. PICK S : S = jobs[w].snapshot
  OBVIOUS
<1>3. Weaker /\ \A s \in DOMAIN sessions : s \in S => sessions'[s].revoked
  BY <1>1, <1>2, RevokedRows DEF RevokeSnapshot, SessionParts
<1>4. /\ InFlight("refresh")' = InFlight("refresh") /\ w \notin InFlight("refresh")
      /\ InFlight("revoke")' = InFlight("revoke") \ {w}
      /\ \A v \in InFlight("refresh") \cup InFlight("revoke")' : jobs'[v] = jobs[v]
  BY <1>1 DEF InFlight, Idle, SourcesInv
<1>5. SessionsInv'
  BY <1>3, WeakerSessions DEF SessionParts
<1>6. RefreshInv'
  BY <1>3, <1>4 DEF SessionParts, RefreshInv, Weaker, Live
<1>7. EraInv'
  <2> SUFFICES ASSUME ~overtaken
               PROVE  /\ \A s \in DOMAIN sessions' : Live(s)' =>
                            sessions'[s].born = era[sessions'[s].user] \/ Doomed(s)'
                      /\ \A v \in InFlight("refresh") :
                            sessions'[jobs'[v].sid].born = era[jobs'[v].user]
    BY <1>1, <1>4 DEF SessionParts, EraInv
  <2>1. \A v \in InFlight("refresh") : jobs[v].sid \in DOMAIN sessions
    BY DEF SessionParts, RefreshInv
  <2>2. \A s : Doomed(s) => s \in S \/ Doomed(s)'
    BY <1>2, <1>4 DEF Doomed
  <2>3. ASSUME NEW s \in DOMAIN sessions, Live(s)'
        PROVE  sessions'[s].born = era[sessions'[s].user] \/ Doomed(s)'
    <3>1. s \notin S /\ Live(s)
      BY <1>3, <2>3 DEF Weaker, Live
    <3>2. sessions[s].born = era[sessions[s].user] \/ Doomed(s)
      BY <3>1 DEF SessionParts, EraInv
    <3>. QED  BY <1>3, <2>2, <3>1, <3>2 DEF Weaker
  <2>. QED  BY <1>3, <1>4, <2>1, <2>3 DEF SessionParts, EraInv, Weaker
<1>. QED  BY <1>5, <1>6, <1>7 DEF SessionParts

----------------------------------------------------------------------------
(* What names a user.                                                      *)

\* A worker that takes up or finishes a request.
LEMMA JobSources ==
  ASSUME SourcesInv, NEW w \in Workers, NEW j, j.op = "idle" \/ j.user \in Users,
         jobs' = [jobs EXCEPT ![w] = j],
         Named(tokens') /\ Named(links') /\ Shown(handles') /\ Named(challenges')
  PROVE  SourcesInv'
  BY DEF SourcesInv, Named

\* What is there already.
LEMMA NamedNow ==
  SourcesInv => Named(tokens) /\ Named(links) /\ Shown(handles) /\ Named(challenges)
  BY DEF SourcesInv

\* How a first factor ends keeps the sessions' invariant and names its user.
LEMMA FirstFactorInv ==
  ASSUME IInv, NEW u \in Users, FirstFactor(u), QuietJobs, UNCHANGED <<era, overtaken>>
  PROVE  SessionParts' /\ Named(tokens') /\ Named(challenges')
<1>1. SessionParts /\ Named(tokens) /\ Named(challenges)
  BY NamedNow DEF IInv, SessionParts
<1>2. CASE is_two_factor_enabled(u) /\ two_factor_challenge(u) /\ UNCHANGED <<sessions, tokens>>
  <2>1. SessionParts'
    BY <1>1, <1>2, SameSessions
  <2>. QED  BY <1>1, <1>2, <2>1 DEF Named, two_factor_challenge
<1>3. CASE ~is_two_factor_enabled(u) /\ _establish_session(u, FALSE) /\ UNCHANGED challenges
  <2>1. SessionParts'
    BY <1>1, <1>3, NewSession
  <2>. QED  BY <1>1, <1>3, <2>1 DEF Named, _establish_session, create_access_token
<1>. QED  BY <1>2, <1>3 DEF FirstFactor
----------------------------------------------------------------------------
(* The requests.                                                           *)

\* A step that changes neither sessions nor requests under way.
LEMMA StillInv ==
  ASSUME IInv, UNCHANGED <<sessions, jobs, era, overtaken>>,
         Named(tokens') /\ Named(links') /\ Shown(handles') /\ Named(challenges')
  PROVE  IInv'
<1>1. SessionParts'
  BY SameSessions DEF IInv, SessionParts, QuietJobs
<1>2. SourcesInv'
  BY DEF IInv, SourcesInv, Named
<1>. QED  BY <1>1, <1>2 DEF IInv, SessionParts

\* Registering, verifying, asking for links and codes, keys that expire, time.
LEMMA KeysInv ==
  ASSUME IInv,
         \/ \E u \in Users, p \in Passwords : register(u, p)
         \/ \E u \in Users : \/ resend_verification(u)
                             \/ request_magic_link(u)
                             \/ open_device_sign_in(u)
                             \/ ExpireLockout(u) \/ ExpireAttempts(u)
         \/ \E u \in Users, purpose \in {"login", "password-reset"} : request_otp(u, purpose)
         \/ \E l \in links : verify_email(l)
         \/ Tick \/ ExpireKey
  PROVE  IInv'
<1>1. Named(tokens) /\ Named(links) /\ Shown(handles) /\ Named(challenges)
  BY NamedNow DEF IInv
<1>3. ASSUME NEW u \in Users, NEW p \in Passwords, register(u, p) PROVE IInv'
  <2>1. Named(links')
    BY <1>1, <1>3 DEF register, Named
  <2>. QED  BY <1>1, <1>3, <2>1, StillInv DEF register, clocks
<1>4. ASSUME NEW u \in Users, resend_verification(u) \/ request_magic_link(u)
      PROVE  IInv'
  <2>1. Named(links')
    BY <1>1, <1>4 DEF resend_verification, request_magic_link, Named
  <2>. QED  BY <1>1, <1>4, <2>1, StillInv
       DEF resend_verification, request_magic_link, clocks
<1>5. ASSUME NEW u \in Users, open_device_sign_in(u) PROVE IInv'
  <2>1. Named(links')
    BY <1>1, <1>5 DEF open_device_sign_in, Named
  <2>2. Shown(handles')
    BY <1>1, <1>5 DEF open_device_sign_in, Shown
  <2>. QED  BY <1>1, <1>5, <2>1, <2>2, StillInv DEF open_device_sign_in, clocks
<1>6. ASSUME NEW u \in Users, ExpireLockout(u) \/ ExpireAttempts(u) PROVE IInv'
  BY <1>1, <1>6, StillInv DEF ExpireLockout, ExpireAttempts, clocks
<1>7. ASSUME NEW u \in Users, NEW purpose \in {"login", "password-reset"},
             request_otp(u, purpose)
      PROVE  IInv'
  BY <1>1, <1>7, StillInv DEF request_otp, clocks
<1>8. ASSUME NEW l \in links, verify_email(l) PROVE IInv'
  <2>1. Named(links')
    BY <1>1, <1>8 DEF verify_email, Named
  <2>. QED  BY <1>1, <1>8, <2>1, StillInv DEF verify_email, clocks
<1>9. CASE Tick
  <2>1. Named(tokens')
    BY <1>1, <1>9 DEF Tick, Named
  <2>. QED  BY <1>1, <1>9, <2>1, StillInv DEF Tick, redis
<1>10. CASE ExpireKey
  <2>1. Named(links') /\ Shown(handles') /\ Named(challenges')
    BY <1>1, <1>10 DEF ExpireKey, Named, Shown
  <2>. QED  BY <1>1, <1>10, <2>1, StillInv DEF ExpireKey, clocks
<1>. QED  BY <1>3, <1>4, <1>5, <1>6, <1>7, <1>8, <1>9, <1>10

\* Enrolling in two-factor sign-in changes a user's row only.
LEMMA EnrolInv ==
  ASSUME IInv,
         \/ \E t \in tokens : begin_two_factor_setup(t) \/ enable_two_factor(t)
         \/ \E t \in tokens, p \in Passwords :
              disable_two_factor(t, p) \/ regenerate_recovery_codes(t, p)
  PROVE  IInv'
<1>1. UNCHANGED <<sessions, redis, tokens, jobs, clocks>>
  BY DEF begin_two_factor_setup, enable_two_factor, disable_two_factor,
         regenerate_recovery_codes, Enrol
<1>2. Named(tokens) /\ Named(links) /\ Shown(handles) /\ Named(challenges)
  BY NamedNow DEF IInv
<1>. QED  BY <1>1, <1>2, StillInv DEF redis, clocks, Named, Shown

\* Signing in with a link.
LEMMA LinkInv ==
  ASSUME IInv, NEW l \in links, verify_magic_link(l)
  PROVE  IInv'
<1>1. SourcesInv
      /\ Named(tokens) /\ Named(links) /\ Shown(handles) /\ Named(challenges)
  BY NamedNow DEF IInv
<1>2. /\ UNCHANGED <<jobs, era, overtaken>> /\ links' = links \ {l}
      /\ l.user \in Users
  BY <1>1 DEF verify_magic_link, clocks, Named
<1>3. Named(links')
  BY <1>1, <1>2 DEF Named
<1>4. CASE UNCHANGED <<challenges, sessions, tokens, handles>>
  BY <1>1, <1>2, <1>3, <1>4, StillInv
<1>5. CASE /\ handles' = {IF h.id = l.device THEN [h EXCEPT !.approved = TRUE] ELSE h :
                            h \in handles}
           /\ UNCHANGED <<challenges, sessions, tokens>>
  <2>1. ASSUME NEW h, NEW g, h = [id |-> h.id, approved |-> h.approved, user |-> h.user],
               h.user \in Users, g = [h EXCEPT !.approved = TRUE]
        PROVE  g = [id |-> g.id, approved |-> g.approved, user |-> g.user]
               /\ g.user \in Users
    BY <2>1
  <2>2. Shown(handles')
    BY <1>1, <1>5, <2>1 DEF Shown
  <2>. QED  BY <1>1, <1>2, <1>3, <1>5, <2>2, StillInv
<1>6. CASE FirstFactor(l.user) /\ UNCHANGED handles
  <2>1. SessionParts' /\ Named(tokens') /\ Named(challenges')
    BY <1>2, <1>6, FirstFactorInv DEF QuietJobs
  <2>2. SourcesInv'
    BY <1>1, <1>2, <1>3, <1>6, <2>1 DEF SourcesInv, Named, Shown
  <2>. QED  BY <2>1, <2>2 DEF IInv, SessionParts
<1>. QED  BY <1>4, <1>5, <1>6 DEF verify_magic_link

\* A request that neither refreshes nor revokes moves on, or ends.
QuietJob(w, j) ==
    /\ jobs' = [jobs EXCEPT ![w] = j]
    /\ jobs[w].op \notin {"refresh", "revoke"} /\ j.op \notin {"refresh", "revoke"}
    /\ j.op = "idle" \/ j.user \in Users

\* It keeps the invariant when the sessions are left alone.
LEMMA JobInv ==
  ASSUME IInv, NEW w \in Workers, NEW j, QuietJob(w, j),
         UNCHANGED <<sessions, era, overtaken, tokens, links, challenges>>, Shown(handles')
  PROVE  IInv'
<1>1. SourcesInv /\ DOMAIN jobs = Workers
      /\ Named(tokens) /\ Named(links) /\ Named(challenges)
  BY NamedNow DEF IInv, SourcesInv
<1>2. QuietJobs
  BY <1>1 DEF QuietJobs, QuietJob
<1>3. SessionParts'
  BY <1>2, SameSessions DEF IInv, SessionParts
<1>4. SourcesInv'
  BY <1>1, JobSources DEF QuietJob
<1>. QED  BY <1>3, <1>4 DEF IInv, SessionParts

\* So does its end with a first factor shown.
LEMMA EndInv ==
  ASSUME IInv, NEW w \in Workers, NEW u \in Users, FirstFactor(u),
         jobs[w].op \notin {"refresh", "revoke"}, jobs' = [jobs EXCEPT ![w] = Idle],
         UNCHANGED <<era, overtaken, links>>, Shown(handles')
  PROVE  IInv'
<1>1. SourcesInv /\ DOMAIN jobs = Workers /\ Named(links) /\ Idle.op = "idle"
  BY NamedNow DEF IInv, SourcesInv, Idle
<1>2. QuietJobs
  BY <1>1 DEF QuietJobs
<1>3. SessionParts' /\ Named(tokens') /\ Named(challenges')
  BY <1>2, FirstFactorInv
<1>4. SourcesInv'
  BY <1>1, <1>3, JobSources
<1>. QED  BY <1>3, <1>4 DEF IInv, SessionParts

\* A wrong answer, and what the request then owes the throttle.
LEMMA FailureInv ==
  ASSUME IInv, NEW w \in Workers, NEW u \in Users, NEW n, record_failure(w, u, n),
         jobs[w].op \notin {"refresh", "revoke"},
         UNCHANGED <<sessions, era, overtaken, tokens, links, handles, challenges>>
  PROVE  IInv'
<1>1. Shown(handles)
  BY NamedNow DEF IInv
<1>2. PICK j : j = IF throttle[u].attempts + 1 >= MaxLoginAttempts
                   THEN [op |-> "lock", user |-> u] ELSE Idle
  OBVIOUS
<1>3. QuietJob(w, j)
  BY <1>2 DEF QuietJob, record_failure, Idle
<1>. QED  BY <1>1, <1>3, JobInv

\* The steps of the throttle: the question, the lockout, the end of the counter.
LEMMA LockInv ==
  ASSUME IInv, NEW w \in Workers,
         \/ \E u \in Users, op \in {"login", "verify_otp", "reset_password"} :
              AskLockout(w, u, op)
         \/ set_lockout(w) \/ clear_attempts(w)
  PROVE  IInv'
<1>1. SourcesInv /\ Shown(handles)
  BY NamedNow DEF IInv
<1>2. ASSUME NEW u \in Users, NEW op \in {"login", "verify_otp", "reset_password"},
             AskLockout(w, u, op)
      PROVE  IInv'
  <2>1. PICK j : j = [op |-> op, user |-> u]
    OBVIOUS
  <2>2. QuietJob(w, j)
    BY <1>2, <2>1 DEF AskLockout, QuietJob, Free, Idle
  <2>. QED  BY <1>1, <1>2, <2>2, JobInv DEF AskLockout, redis, clocks
<1>3. CASE set_lockout(w)
  <2>1. PICK j : j = [op |-> "clear", user |-> jobs[w].user]
    OBVIOUS
  <2>2. jobs[w].user \in Users
    BY <1>1, <1>3 DEF set_lockout, SourcesInv
  <2>3. QuietJob(w, j)
    BY <1>3, <2>1, <2>2 DEF set_lockout, QuietJob
  <2>. QED  BY <1>1, <1>3, <2>3, JobInv DEF set_lockout, clocks
<1>4. CASE clear_attempts(w)
  <2>1. QuietJob(w, Idle)
    BY <1>4 DEF clear_attempts, QuietJob, Idle
  <2>. QED  BY <1>1, <1>4, <2>1, JobInv DEF clear_attempts, clocks
<1>. QED  BY <1>2, <1>3, <1>4

\* Answering with a password.
LEMMA LoginInv ==
  ASSUME IInv, NEW w \in Workers, NEW p \in Passwords, login(w, p)
  PROVE  IInv'
<1>1. /\ jobs[w].op = "login" /\ UNCHANGED <<links, handles, era, overtaken>>
      /\ SourcesInv /\ Shown(handles)
  BY NamedNow DEF login, clocks, IInv
<1>2. PICK u \in Users : u = jobs[w].user
  BY <1>1 DEF SourcesInv
<1>3. CASE record_failure(w, u, 1) /\ UNCHANGED <<challenges, sessions, tokens>>
  BY <1>1, <1>3, FailureInv
<1>4. CASE /\ jobs' = [jobs EXCEPT ![w] = Idle]
           /\ UNCHANGED <<challenges, sessions, tokens>>
  <2>1. QuietJob(w, Idle)
    BY <1>1, <1>4 DEF QuietJob, Idle
  <2>. QED  BY <1>1, <1>4, <2>1, JobInv
<1>5. CASE FirstFactor(u) /\ jobs' = [jobs EXCEPT ![w] = Idle]
  BY <1>1, <1>5, EndInv
<1>. QED  BY <1>2, <1>3, <1>4, <1>5 DEF login, _record_failed_login

\* The first steps of the e-mailed code, the app's poll and the second factor.
LEMMA TakeUpInv ==
  ASSUME IInv, NEW w \in Workers,
         \/ \E right \in BOOLEAN : verify_otp(w, right)
         \/ \E h \in handles : poll_device_sign_in(w, h)
         \/ \E ch \in challenges :
              \E c \in TotpCodes \cup users[ch.user].recovery \cup {WrongCode} :
                 complete_two_factor(w, ch, c)
  PROVE  IInv'
<1>1. SourcesInv
      /\ Named(tokens) /\ Named(links) /\ Shown(handles) /\ Named(challenges)
  BY NamedNow DEF IInv
<1>2. Free(w) => jobs[w].op \notin {"refresh", "revoke"}
  BY DEF Free, Idle
<1>3. ASSUME NEW right \in BOOLEAN, verify_otp(w, right) PROVE IInv'
  <2>1. /\ jobs[w].op = "verify_otp"
        /\ UNCHANGED <<sessions, era, overtaken, tokens, links, handles, challenges>>
    BY <1>3 DEF verify_otp, clocks
  <2>2. PICK u \in Users : u = jobs[w].user
    BY <1>1, <2>1 DEF SourcesInv
  <2>3. CASE jobs' = [jobs EXCEPT ![w] = [op |-> "otp", user |-> u]]
    <3>1. PICK j : j = [op |-> "otp", user |-> u]
      OBVIOUS
    <3>2. QuietJob(w, j)
      BY <2>1, <2>3, <3>1 DEF QuietJob
    <3>. QED  BY <1>1, <2>1, <3>2, JobInv
  <2>4. CASE record_failure(w, u, 1)
    BY <2>1, <2>4, FailureInv
  <2>. QED  BY <1>3, <2>2, <2>3, <2>4 DEF verify_otp, _record_failed_login
<1>4. ASSUME NEW h \in handles, poll_device_sign_in(w, h) PROVE IInv'
  <2>1. PICK j : j = [op |-> "poll", user |-> h.user, handle |-> h]
    OBVIOUS
  <2>2. /\ Free(w) /\ jobs' = [jobs EXCEPT ![w] = j]
        /\ UNCHANGED <<sessions, era, overtaken, tokens, links, handles, challenges>>
    BY <1>4, <2>1 DEF poll_device_sign_in, clocks, redis
  <2>3. j.op = "poll" /\ j.user \in Users
    BY <1>1, <2>1 DEF Shown
  <2>4. QuietJob(w, j)
    BY <1>2, <2>2, <2>3 DEF QuietJob
  <2>. QED  BY <1>1, <2>2, <2>4, JobInv
<1>5. ASSUME NEW ch \in challenges, NEW c, complete_two_factor(w, ch, c) PROVE IInv'
  <2>1. /\ Free(w) /\ ch.user \in Users
        /\ UNCHANGED <<sessions, era, overtaken, tokens, links, handles, challenges>>
    BY <1>1, <1>5 DEF complete_two_factor, clocks, Named
  <2>2. ASSUME NEW r,
               jobs' = [jobs EXCEPT ![w] = [op |-> "second", user |-> ch.user, ch |-> ch,
                                            recovery |-> r, code |-> c]]
        PROVE  IInv'
    <3>1. PICK j : j = [op |-> "second", user |-> ch.user, ch |-> ch, recovery |-> r,
                        code |-> c]
      OBVIOUS
    <3>2. QuietJob(w, j)
      BY <1>2, <2>1, <2>2, <3>1 DEF QuietJob
    <3>. QED  BY <1>1, <2>1, <3>2, JobInv
  <2>3. CASE record_failure(w, ch.user, 0)
    BY <1>2, <2>1, <2>3, FailureInv
  <2>. QED  BY <1>5, <2>2, <2>3 DEF complete_two_factor
<1>. QED  BY <1>3, <1>4, <1>5

\* Their second steps: a session, a challenge or nothing, and the worker is free.
LEMMA FinishInv ==
  ASSUME IInv, NEW w \in Workers,
         verify_otp_session(w) \/ poll_device_claim(w) \/ complete_two_factor_session(w)
  PROVE  IInv'
<1>1. /\ SourcesInv /\ DOMAIN jobs = Workers
      /\ Named(tokens) /\ Named(links) /\ Shown(handles) /\ Named(challenges)
  BY NamedNow DEF IInv, SourcesInv
<1>2. /\ jobs[w].op \in {"otp", "poll", "second"} /\ jobs' = [jobs EXCEPT ![w] = Idle]
      /\ UNCHANGED <<era, overtaken, links>>
  BY DEF verify_otp_session, poll_device_claim, complete_two_factor_session, clocks
<1>3. PICK u \in Users : u = jobs[w].user
  BY <1>1, <1>2 DEF SourcesInv
<1>4. CASE verify_otp_session(w)
  <2>1. FirstFactor(u) /\ UNCHANGED handles
    BY <1>3, <1>4 DEF verify_otp_session
  <2>. QED  BY <1>1, <1>2, <2>1, EndInv
<1>5. CASE poll_device_claim(w)
  <2>1. FirstFactor(u) /\ handles' \subseteq handles
    BY <1>3, <1>5 DEF poll_device_claim
  <2>2. Shown(handles')
    BY <1>1, <2>1 DEF Shown
  <2>. QED  BY <1>2, <2>1, <2>2, EndInv
<1>6. CASE complete_two_factor_session(w)
  <2>1. /\ UNCHANGED handles /\ challenges' \subseteq challenges
        /\ _establish_session(u, TRUE) \/ UNCHANGED <<sessions, tokens>>
    BY <1>3, <1>6 DEF complete_two_factor_session
  <2>2. QuietJobs /\ Named(challenges') /\ Idle.op = "idle"
    BY <1>1, <1>2, <2>1 DEF QuietJobs, Named, Idle
  <2>3. SessionParts' /\ Named(tokens')
    <3>1. CASE UNCHANGED <<sessions, tokens>>
      BY <1>1, <1>2, <2>2, <3>1, SameSessions DEF IInv, SessionParts
    <3>2. CASE _establish_session(u, TRUE)
      <4>1. SessionParts'
        BY <1>2, <2>2, <3>2, NewSession DEF IInv, SessionParts
      <4>2. Named(tokens')
        BY <1>1, <3>2 DEF _establish_session, create_access_token, Named
      <4>. QED  BY <4>1, <4>2
    <3>. QED  BY <2>1, <3>1, <3>2
  <2>4. SourcesInv'
    BY <1>1, <1>2, <2>1, <2>2, <2>3, JobSources
  <2>. QED  BY <2>3, <2>4 DEF IInv, SessionParts
<1>. QED  BY <1>4, <1>5, <1>6

\* Refreshing, and signing one session out.
LEMMA RotateInv ==
  ASSUME IInv,
         \/ \E w \in Workers, s \in DOMAIN sessions : refresh(w, s)
         \/ \E w \in Workers : refresh_commit(w)
         \/ \E t \in tokens, s \in DOMAIN sessions : revoke_session(t, s)
  PROVE  IInv'
<1>1. /\ SourcesInv /\ SessionParts /\ DOMAIN jobs = Workers
      /\ Named(tokens) /\ Named(links) /\ Shown(handles) /\ Named(challenges)
      /\ sessions \in Seq(SessionRow)
  BY NamedNow DEF IInv, SessionParts, SourcesInv, SessionsInv
<1>3. ASSUME NEW w \in Workers, NEW s \in DOMAIN sessions, refresh(w, s) PROVE IInv'
  <2>1. /\ Free(w) /\ ~RowLocked(s)
        /\ UNCHANGED <<throttle, era, overtaken, tokens, links, handles, challenges>>
    BY <1>3 DEF refresh, get_by_refresh_token, redis, clocks
  <2>2. CASE /\ Live(s) /\ UNCHANGED sessions
             /\ jobs' = [jobs EXCEPT ![w] = [op |-> "refresh", sid |-> s,
                                             user |-> sessions[s].user]]
    <3>1. SessionParts'
      BY <1>1, <2>1, <2>2, RefreshBegins
    <3>2. jobs'[w].user = sessions[s].user
      BY <1>1, <2>2
    <3>3. sessions[s] \in SessionRow
      BY <1>1
    <3>4. SourcesInv'
      BY <1>1, <2>1, <2>2, <3>2, <3>3 DEF SourcesInv, Named, Shown, SessionRow
    <3>. QED  BY <2>1, <3>1, <3>4 DEF IInv, SessionParts
  <2>3. CASE sessions' = revoke_lineage(s) /\ UNCHANGED jobs
    <3>1. PICK S : S = Lineage(s)
      OBVIOUS
    <3>2. Weaker
      BY <1>1, <2>3, <3>1, RevokedRows DEF revoke_lineage, SessionParts
    <3>3. SessionParts'
      BY <1>1, <2>1, <2>3, <3>2, FewerSessions
    <3>4. SourcesInv'
      BY <1>1, <2>1, <2>3 DEF SourcesInv, Named, Shown
    <3>. QED  BY <2>1, <3>3, <3>4 DEF IInv, SessionParts
  <2>. QED  BY <1>3, <2>2, <2>3 DEF refresh
<1>4. ASSUME NEW w \in Workers, refresh_commit(w) PROVE IInv'
  <2>1. SessionParts'
    BY <1>1, <1>4, RefreshCommits
  <2>2. /\ UNCHANGED <<throttle, links, handles, challenges>>
        /\ jobs' = [jobs EXCEPT ![w] = Idle] /\ jobs[w].op = "refresh"
        /\ tokens' = tokens \cup {create_access_token(jobs[w].user, Len(sessions) + 1)}
    BY <1>4 DEF refresh_commit, redis
  <2>3. Named(tokens')
    BY <1>1, <2>2 DEF Named, SourcesInv, create_access_token
  <2>4. Idle.op = "idle"
    BY DEF Idle
  <2>5. SourcesInv'
    BY <1>1, <2>2, <2>3, <2>4, JobSources
  <2>. QED  BY <2>1, <2>2, <2>5 DEF IInv, SessionParts
<1>5. ASSUME NEW t \in tokens, NEW s \in DOMAIN sessions, revoke_session(t, s) PROVE IInv'
  <2>1. /\ sessions' = [sessions EXCEPT ![s].revoked = TRUE]
        /\ UNCHANGED <<throttle, jobs, era, overtaken, tokens, links, handles, challenges>>
    BY <1>5 DEF revoke_session, redis, clocks
  <2>2. Weaker
    <3>1. PICK row : row = [sessions[s] EXCEPT !.revoked = TRUE]
      OBVIOUS
    <3>2. sessions[s] \in SessionRow /\ s \in 1 .. Len(sessions)
          /\ DOMAIN sessions = 1 .. Len(sessions)
      BY <1>1, LenProperties
    <3>3. row = [user |-> sessions[s].user, revoked |-> TRUE,
                 rotated_to |-> sessions[s].rotated_to, root |-> sessions[s].root,
                 second |-> sessions[s].second, owed |-> sessions[s].owed,
                 born |-> sessions[s].born]
      BY <3>1, <3>2 DEF SessionRow
    <3>4. row \in SessionRow /\ row.revoked
      BY <3>2, <3>3 DEF SessionRow
    <3>5. /\ sessions' \in Seq(SessionRow) /\ Len(sessions') = Len(sessions)
          /\ sessions'[s] = row
          /\ \A r \in DOMAIN sessions : r # s => sessions'[r] = sessions[r]
      BY <1>1, <2>1, <3>1, <3>2, <3>4, ExceptSeq
    <3>6. DOMAIN sessions' = DOMAIN sessions
      BY <3>2, <3>5, LenProperties
    <3>. QED  BY <3>3, <3>4, <3>5, <3>6 DEF Weaker
  <2>3. SessionParts'
    BY <1>1, <2>1, <2>2, FewerSessions
  <2>4. SourcesInv'
    BY <1>1, <2>1 DEF SourcesInv, Named, Shown
  <2>. QED  BY <2>1, <2>3, <2>4 DEF IInv, SessionParts
<1>. QED  BY <1>3, <1>4, <1>5

\* Resetting and changing the password, and signing out everywhere.
LEMMA RevokeInv ==
  ASSUME IInv, NEW w \in Workers,
         \/ \E right \in BOOLEAN, p \in Passwords : reset_password(w, right, p)
         \/ \E t \in tokens :
              \/ logout_all(w, t)
              \/ \E old \in Passwords, p \in Passwords : change_password(w, t, old, p)
         \/ revoke_all_commit(w)
  PROVE  IInv'
<1>1. /\ SourcesInv /\ SessionParts /\ DOMAIN jobs = Workers
      /\ Named(tokens) /\ Named(links) /\ Shown(handles) /\ Named(challenges)
  BY NamedNow DEF IInv, SessionParts, SourcesInv
<1>2. ASSUME NEW u \in Users, NEW p, revoke_all_for_user(w, u, p),
             jobs[w].op \notin {"refresh", "revoke"},
             UNCHANGED <<sessions, tokens, links, handles, challenges>>
      PROVE  IInv'
  <2>1. SessionParts'
    BY <1>1, <1>2, RevokeBegins
  <2>2. jobs' = [jobs EXCEPT ![w] = jobs'[w]] /\ jobs'[w].user = u
    BY <1>1, <1>2 DEF revoke_all_for_user
  <2>3. SourcesInv'
    BY <1>1, <1>2, <2>2 DEF SourcesInv, Named, Shown
  <2>. QED  BY <2>1, <2>3 DEF IInv, SessionParts
<1>3. ASSUME NEW right \in BOOLEAN, NEW p \in Passwords, reset_password(w, right, p)
      PROVE  IInv'
  <2>1. /\ jobs[w].op = "reset_password"
        /\ UNCHANGED <<sessions, tokens, links, handles, challenges>>
    BY <1>3 DEF reset_password
  <2>2. PICK u \in Users : u = jobs[w].user
    BY <1>1, <2>1 DEF SourcesInv
  <2>3. CASE record_failure(w, u, 1) /\ UNCHANGED <<era, overtaken>>
    BY <2>1, <2>3, FailureInv
  <2>4. CASE revoke_all_for_user(w, u, p)
    BY <1>2, <2>1, <2>4
  <2>5. CASE jobs' = [jobs EXCEPT ![w] = Idle] /\ UNCHANGED <<era, overtaken>>
    <3>1. QuietJob(w, Idle)
      BY <2>1, <2>5 DEF QuietJob, Idle
    <3>. QED  BY <1>1, <2>1, <2>5, <3>1, JobInv
  <2>. QED  BY <1>3, <2>2, <2>3, <2>4, <2>5
       DEF reset_password, _record_failed_login, _apply_new_password
<1>4. ASSUME NEW t \in tokens,
             \/ logout_all(w, t)
             \/ \E old \in Passwords, p \in Passwords : change_password(w, t, old, p)
      PROVE  IInv'
  <2>1. PICK p : /\ revoke_all_for_user(w, t.user, p) /\ Free(w)
                 /\ UNCHANGED <<sessions, redis, tokens>>
    BY <1>4 DEF logout_all, change_password, _apply_new_password
  <2>2. PICK u \in Users : u = t.user
    BY <1>1 DEF Named
  <2>. QED  BY <1>2, <2>1, <2>2 DEF redis, Free, Idle
<1>5. CASE revoke_all_commit(w)
  <2>1. SessionParts'
    BY <1>1, <1>5, RevokeCommits
  <2>2. UNCHANGED <<tokens, links, handles, challenges>>
        /\ jobs' = [jobs EXCEPT ![w] = Idle]
    BY <1>5 DEF revoke_all_commit, redis
  <2>3. Idle.op = "idle"
    BY DEF Idle
  <2>4. SourcesInv'
    BY <1>1, <2>2, <2>3, JobSources
  <2>. QED  BY <2>1, <2>4 DEF IInv, SessionParts
<1>. QED  BY <1>3, <1>4, <1>5

----------------------------------------------------------------------------
(* The throttle.  A request between its question and its answer can still  *)
(* be wrong about an account that has since been locked, and one that took *)
(* the counter to its limit still owes the lockout: the bound counts both. *)

Asking == {"login", "verify_otp", "reset_password"}
Locking == {"lock", "clear"}
Busy(u, ops) == {w \in Workers : jobs[w].op \in ops /\ jobs[w].user = u}

Counter == [attempts : Nat, locked : BOOLEAN, wrong : Nat]

\* Until a lockout, wrong answers are counted among the attempts; attempts pass
\* the limit by one for each request that locks; after a lockout there is room
\* for the answers still to come.
Within(c, asking, locking) ==
    /\ ~c.locked => c.wrong <= c.attempts
    /\ c.attempts <= MaxLoginAttempts - 1 + Cardinality(locking)
    /\ c.locked =>
        c.wrong + Cardinality(asking) <= MaxLoginAttempts + Cardinality(Workers) - 1

ThrottleInv ==
    /\ throttle \in [Users -> Counter]
    /\ \A u \in Users : Within(throttle[u], Busy(u, Asking), Busy(u, Locking))

\* A set of workers is finite, and how it grows and shrinks.
LEMMA Crew ==
  ASSUME NEW S \in SUBSET Workers
  PROVE  /\ IsFiniteSet(S) /\ Cardinality(S) \in Nat
         /\ Cardinality(S) <= Cardinality(Workers) /\ Cardinality(Workers) \in Nat
  BY AuthAssumption, FS_Subset, FS_CardinalityType

\* One worker at a time: asking and locking together are no more than all.
LEMMA Shared ==
  ASSUME NEW S \in SUBSET Workers, NEW T \in SUBSET Workers, S \cap T = {}
  PROVE  Cardinality(S) + Cardinality(T) <= Cardinality(Workers)
<1>1. IsFiniteSet(S) /\ IsFiniteSet(T) /\ S \cup T \in SUBSET Workers
  BY Crew
<1>2. Cardinality(S \cup T) = Cardinality(S) + Cardinality(T) - Cardinality({})
  BY <1>1, FS_Union
<1>3. Cardinality({}) = 0
  BY FS_EmptySet
<1>4. Cardinality(S) \in Nat /\ Cardinality(T) \in Nat
      /\ Cardinality(S \cup T) <= Cardinality(Workers)
  BY <1>1, Crew
<1>. QED  BY <1>2, <1>3, <1>4

\* Every step concerns one user's counter and one worker at most.
LEMMA CounterStep ==
  ASSUME ThrottleInv, DOMAIN jobs = Workers, NEW u \in Users, NEW w \in Workers, NEW j,
         jobs' = [jobs EXCEPT ![w] = j],
         jobs[w].op \in Asking \cup Locking => jobs[w].user = u,
         j.op \in Asking \cup Locking => j.user = u,
         NEW c \in Counter, throttle' = [throttle EXCEPT ![u] = c],
         Within(c, Busy(u, Asking)', Busy(u, Locking)')
  PROVE  ThrottleInv'
<1>1. throttle' \in [Users -> Counter] /\ throttle'[u] = c
      /\ \A v \in Users : v # u => throttle'[v] = throttle[v]
  BY DEF ThrottleInv
<1>2. ASSUME NEW v \in Users, v # u
      PROVE  Busy(v, Asking)' = Busy(v, Asking) /\ Busy(v, Locking)' = Busy(v, Locking)
  BY <1>2 DEF Busy
<1>3. ASSUME NEW v \in Users
      PROVE  Within(throttle[v], Busy(v, Asking), Busy(v, Locking))'
  <2>1. CASE v = u
    BY <1>1, <2>1 DEF Within
  <2>2. CASE v # u
    BY <1>1, <1>2, <2>2 DEF ThrottleInv, Within
  <2>. QED  BY <2>1, <2>2
<1>. QED  BY <1>1, <1>3 DEF ThrottleInv

\* A counter that was cleared, or a request less that asks.
LEMMA Eased ==
  ASSUME NEW c \in Counter, NEW d \in Counter,
         NEW A \in SUBSET Workers, NEW B \in SUBSET A,
         NEW L \in SUBSET Workers, NEW M \in SUBSET Workers,
         Within(c, A, L),
         d.attempts = 0 \/ (d.attempts = c.attempts /\ L = M),
         ~d.locked => d.wrong <= d.attempts,
         d.locked => c.locked /\ d.wrong = c.wrong
  PROVE  Within(d, B, M)
<1>1. /\ Cardinality(B) <= Cardinality(A) /\ Cardinality(A) \in Nat
      /\ Cardinality(B) \in Nat /\ Cardinality(L) \in Nat /\ Cardinality(M) \in Nat
      /\ Cardinality(Workers) \in Nat /\ MaxLoginAttempts \in Nat \ {0}
  <2>1. IsFiniteSet(A) /\ B \in SUBSET Workers
    BY Crew
  <2>. QED  BY <2>1, AuthAssumption, Crew, FS_Subset
<1>. QED  BY <1>1 DEF Within, Counter

\* A worker leaves the requests that ask, or was not among them.
LEMMA StepAside ==
  ASSUME DOMAIN jobs = Workers, NEW u \in Users, NEW w \in Workers, NEW j,
         jobs' = [jobs EXCEPT ![w] = j], j.op \notin Asking \cup Locking
  PROVE  /\ Busy(u, Asking)' \in SUBSET Busy(u, Asking)
         /\ Busy(u, Asking) \in SUBSET Workers
         /\ Busy(u, Locking) \in SUBSET Workers /\ Busy(u, Locking)' \in SUBSET Workers
         /\ jobs[w].op \notin Locking => Busy(u, Locking)' = Busy(u, Locking)
  BY DEF Busy

\* A request that is not about the throttle.
LEMMA Elsewhere ==
  ASSUME ThrottleInv, DOMAIN jobs = Workers, NEW w \in Workers, NEW j,
         jobs' = [jobs EXCEPT ![w] = j], jobs[w].op \notin Asking \cup Locking,
         j.op \notin Asking \cup Locking, UNCHANGED throttle
  PROVE  ThrottleInv'
<1>1. \A u : Busy(u, Asking)' = Busy(u, Asking) /\ Busy(u, Locking)' = Busy(u, Locking)
  BY DEF Busy
<1>. QED  BY <1>1 DEF ThrottleInv, Within

\* A success clears the counter and frees the worker for what follows.
LEMMA Success ==
  ASSUME ThrottleInv, DOMAIN jobs = Workers, NEW u \in Users, NEW w \in Workers, NEW j,
         jobs' = [jobs EXCEPT ![w] = j], jobs[w].user = u,
         j.op \notin Asking \cup Locking, throttle' = reset(u)
  PROVE  ThrottleInv'
<1>1. PICK c : c = [attempts |-> 0, locked |-> FALSE, wrong |-> 0]
  OBVIOUS
<1>2. c \in Counter /\ c.attempts = 0 /\ ~c.locked /\ c.wrong <= c.attempts
  BY <1>1 DEF Counter
<1>3. throttle[u] \in Counter /\ Within(throttle[u], Busy(u, Asking), Busy(u, Locking))
      /\ throttle' = [throttle EXCEPT ![u] = c]
  BY <1>1 DEF ThrottleInv, reset
<1>4. Within(c, Busy(u, Asking)', Busy(u, Locking)')
  <2>1. Busy(u, Locking)' \in SUBSET Workers
    BY StepAside
  <2>2. Cardinality(Busy(u, Locking)') \in Nat /\ MaxLoginAttempts \in Nat \ {0}
    BY <2>1, Crew, AuthAssumption
  <2>. QED  BY <1>2, <2>2 DEF Within
<1>. QED  BY <1>2, <1>3, <1>4, CounterStep

\* The e-mailed code was right: the request no longer asks.
LEMMA Passed ==
  ASSUME ThrottleInv, DOMAIN jobs = Workers, NEW u \in Users, NEW w \in Workers, NEW j,
         jobs' = [jobs EXCEPT ![w] = j], jobs[w].user = u, jobs[w].op \notin Locking,
         j.op \notin Asking \cup Locking, UNCHANGED throttle
  PROVE  ThrottleInv'
<1>1. throttle[u] \in Counter /\ Within(throttle[u], Busy(u, Asking), Busy(u, Locking))
      /\ throttle' = [throttle EXCEPT ![u] = throttle[u]]
  BY DEF ThrottleInv
<1>2. Within(throttle[u], Busy(u, Asking)', Busy(u, Locking)')
  <2>1. ~throttle[u].locked => throttle[u].wrong <= throttle[u].attempts
    BY <1>1 DEF Within
  <2>. QED  BY <1>1, <2>1, StepAside, Eased
<1>. QED  BY <1>1, <1>2, CounterStep

\* The counter is deleted, by the request that locked or at its expiry, or a
\* lockout ends.
LEMMA Cleared ==
  ASSUME ThrottleInv, DOMAIN jobs = Workers, NEW u \in Users,
         \/ /\ throttle' = Forgotten(u)
            /\ \/ \E w \in Workers : /\ jobs[w].user = u
                                     /\ jobs' = [jobs EXCEPT ![w] = Idle]
               \/ UNCHANGED jobs
         \/ /\ throttle' = [throttle EXCEPT ![u].locked = FALSE, ![u].wrong = 0]
            /\ UNCHANGED jobs
  PROVE  ThrottleInv'
<1>1. throttle[u] \in Counter /\ throttle \in [Users -> Counter]
      /\ Within(throttle[u], Busy(u, Asking), Busy(u, Locking))
  BY DEF ThrottleInv
<1>2. ASSUME NEW c \in Counter, throttle' = [throttle EXCEPT ![u] = c],
             Within(c, Busy(u, Asking)', Busy(u, Locking)'),
             UNCHANGED jobs
      PROVE  ThrottleInv'
  <2>1. ASSUME NEW v \in Users
        PROVE  Within(throttle[v], Busy(v, Asking), Busy(v, Locking))'
    <3>1. Busy(v, Asking)' = Busy(v, Asking) /\ Busy(v, Locking)' = Busy(v, Locking)
      BY <1>2 DEF Busy
    <3>. QED  BY <1>1, <1>2, <3>1 DEF ThrottleInv, Within
  <2>2. throttle' \in [Users -> Counter]
    BY <1>1, <1>2
  <2>. QED  BY <2>1, <2>2 DEF ThrottleInv
<1>3. UNCHANGED jobs => Busy(u, Asking)' = Busy(u, Asking) /\ Busy(u, Locking)' = Busy(u, Locking)
  BY DEF Busy
<1>4. Busy(u, Asking) \in SUBSET Workers /\ Busy(u, Locking) \in SUBSET Workers
      /\ Busy(u, Asking)' \in SUBSET Workers /\ Busy(u, Locking)' \in SUBSET Workers
  BY DEF Busy
<1>5. CASE throttle' = Forgotten(u)
  <2>1. PICK c : c = [throttle[u] EXCEPT !.attempts = 0,
                        !.wrong = IF throttle[u].locked THEN @ ELSE 0]
    OBVIOUS
  <2>2. c = [attempts |-> 0, locked |-> throttle[u].locked,
             wrong |-> IF throttle[u].locked THEN throttle[u].wrong ELSE 0]
    BY <1>1, <2>1 DEF Counter
  <2>3. /\ c \in Counter /\ c.attempts = 0 /\ (~c.locked => c.wrong <= c.attempts)
        /\ c.locked => throttle[u].locked /\ c.wrong = throttle[u].wrong
    BY <1>1, <2>2 DEF Counter
  <2>4. throttle' = [throttle EXCEPT ![u] = c]
    BY <1>1, <1>5, <2>1 DEF Forgotten
  <2>5. CASE UNCHANGED jobs
    <3>1. Within(c, Busy(u, Asking)', Busy(u, Locking)')
      BY <1>1, <1>3, <1>4, <2>3, <2>5, Eased
    <3>. QED  BY <1>2, <2>3, <2>4, <2>5, <3>1
  <2>6. ASSUME NEW w \in Workers, jobs[w].user = u, jobs' = [jobs EXCEPT ![w] = Idle]
        PROVE  ThrottleInv'
    <3>1. Idle.op \notin Asking \cup Locking
      BY DEF Idle, Asking, Locking
    <3>2. Busy(u, Asking)' \in SUBSET Busy(u, Asking)
      BY <2>6, <3>1, StepAside
    <3>3. Within(c, Busy(u, Asking)', Busy(u, Locking)')
      <4>1. PICK A, B, L, M : /\ A = Busy(u, Asking) /\ B = Busy(u, Asking)'
                              /\ L = Busy(u, Locking) /\ M = Busy(u, Locking)'
        OBVIOUS
      <4>2. Within(throttle[u], A, L) /\ A \in SUBSET Workers /\ B \in SUBSET A
            /\ L \in SUBSET Workers /\ M \in SUBSET Workers
        BY <1>1, <1>4, <3>2, <4>1
      <4>3. IsFiniteSet(A) /\ Cardinality(A) \in Nat /\ Cardinality(M) \in Nat
            /\ Cardinality(Workers) \in Nat /\ MaxLoginAttempts \in Nat \ {0}
        BY <4>2, Crew, AuthAssumption
      <4>4. Cardinality(B) <= Cardinality(A) /\ Cardinality(B) \in Nat
        BY <4>2, <4>3, FS_Subset, FS_CardinalityType
      <4>5. Within(c, B, M)
        BY <1>1, <2>3, <4>2, <4>3, <4>4 DEF Within, Counter
      <4>. QED  BY <4>1, <4>5
    <3>. QED  BY <2>3, <2>4, <2>6, <3>1, <3>3, CounterStep
  <2>7. \/ UNCHANGED jobs
        \/ \E w \in Workers : jobs[w].user = u /\ jobs' = [jobs EXCEPT ![w] = Idle]
    OBVIOUS
  <2>. QED  BY <2>5, <2>6, <2>7
<1>6. CASE /\ throttle' = [throttle EXCEPT ![u].locked = FALSE, ![u].wrong = 0]
           /\ UNCHANGED jobs
  <2>1. PICK c : c = [throttle[u] EXCEPT !.locked = FALSE, !.wrong = 0]
    OBVIOUS
  <2>2. c = [attempts |-> throttle[u].attempts, locked |-> FALSE, wrong |-> 0]
    BY <1>1, <2>1 DEF Counter
  <2>3. c \in Counter /\ c.attempts = throttle[u].attempts /\ ~c.locked
        /\ c.wrong <= c.attempts
    BY <1>1, <2>2 DEF Counter
  <2>4. throttle' = [throttle EXCEPT ![u] = c]
    BY <1>1, <1>6, <2>1
  <2>5. Within(c, Busy(u, Asking)', Busy(u, Locking)')
    BY <1>1, <1>3, <1>4, <1>6, <2>3, Eased
  <2>. QED  BY <1>2, <1>6, <2>3, <2>4, <2>5
<1>. QED  BY <1>5, <1>6

\* A wrong answer: the counter goes up, and at the limit the request locks.
LEMMA Wrong ==
  ASSUME ThrottleInv, DOMAIN jobs = Workers, NEW u \in Users, NEW w \in Workers,
         NEW n \in 0 .. 1, record_failure(w, u, n),
         \/ jobs[w].op \in Asking /\ jobs[w].user = u
         \/ jobs[w].op \notin Asking \cup Locking /\ n = 0
  PROVE  ThrottleInv'
<1> DEFINE limit == throttle[u].attempts + 1 >= MaxLoginAttempts
<1>1. throttle[u] \in Counter /\ throttle \in [Users -> Counter]
      /\ Within(throttle[u], Busy(u, Asking), Busy(u, Locking))
  BY DEF ThrottleInv
<1>2. PICK j : j = IF limit THEN [op |-> "lock", user |-> u] ELSE Idle
  OBVIOUS
<1>3. jobs' = [jobs EXCEPT ![w] = j] /\ j.op \notin Asking
      /\ IF limit THEN j.op \in Locking /\ j.user = u ELSE j.op \notin Locking
  BY <1>2 DEF record_failure, Idle, Asking, Locking
<1>4. PICK c : c = [throttle[u] EXCEPT !.attempts = @ + 1, !.wrong = @ + n]
  OBVIOUS
<1>5. c = [attempts |-> throttle[u].attempts + 1, locked |-> throttle[u].locked,
           wrong |-> throttle[u].wrong + n]
  BY <1>1, <1>4 DEF Counter
<1>6. c \in Counter /\ throttle' = [throttle EXCEPT ![u] = c]
  <2>1. c \in Counter
    BY <1>1, <1>5 DEF Counter
  <2>2. throttle' = [throttle EXCEPT ![u] = c]
    BY <1>1, <1>4 DEF record_failure
  <2>. QED  BY <2>1, <2>2
<1>7. PICK A, B, L, M : /\ A = Busy(u, Asking) /\ B = Busy(u, Asking)'
                        /\ L = Busy(u, Locking) /\ M = Busy(u, Locking)'
  OBVIOUS
<1> HIDE DEF limit
<1>8. /\ A \in SUBSET Workers /\ B = A \ {w} /\ (n = 1 => w \in A)
      /\ L \in SUBSET Workers /\ M = (IF limit THEN L \cup {w} ELSE L) /\ w \notin L
  BY <1>3, <1>7 DEF Busy, Asking, Locking
<1>9. /\ Cardinality(A) \in Nat /\ Cardinality(L) \in Nat /\ Cardinality(Workers) \in Nat
      /\ Cardinality(B) = (IF w \in A THEN Cardinality(A) - 1 ELSE Cardinality(A))
      /\ Cardinality(M) = (IF limit THEN Cardinality(L) + 1 ELSE Cardinality(L))
      /\ MaxLoginAttempts \in Nat \ {0}
  <2>1. IsFiniteSet(A) /\ IsFiniteSet(L) /\ Cardinality(A) \in Nat /\ Cardinality(L) \in Nat
        /\ Cardinality(Workers) \in Nat
    BY <1>8, Crew
  <2>2. Cardinality(A \ {w}) = IF w \in A THEN Cardinality(A) - 1 ELSE Cardinality(A)
    BY <2>1, FS_RemoveElement
  <2>3. Cardinality(L \cup {w}) = Cardinality(L) + 1
    BY <1>8, <2>1, FS_AddElement
  <2>. QED  BY <1>8, <2>1, <2>2, <2>3, AuthAssumption
<1>10. Within(c, B, M)
  <2>1. /\ throttle[u].attempts \in Nat /\ throttle[u].wrong \in Nat
        /\ c.attempts = throttle[u].attempts + 1 /\ c.wrong = throttle[u].wrong + n
        /\ c.locked = throttle[u].locked
    BY <1>1, <1>5 DEF Counter
  <2>2. /\ ~c.locked => throttle[u].wrong <= throttle[u].attempts
        /\ throttle[u].attempts <= MaxLoginAttempts - 1 + Cardinality(L)
        /\ c.locked => throttle[u].wrong + Cardinality(A)
                            <= MaxLoginAttempts + Cardinality(Workers) - 1
    BY <1>1, <1>7, <2>1 DEF Within
  <2>3. ~c.locked => c.wrong <= c.attempts
    BY <2>1, <2>2
  <2>4. c.attempts <= MaxLoginAttempts - 1 + Cardinality(M)
    BY <1>9, <2>1, <2>2 DEF limit
  <2>5. c.locked =>
          c.wrong + Cardinality(B) <= MaxLoginAttempts + Cardinality(Workers) - 1
    <3>1. n + Cardinality(B) <= Cardinality(A) /\ Cardinality(B) \in Int
      BY <1>8, <1>9
    <3>. QED  BY <1>9, <2>1, <2>2, <3>1
  <2>. QED  BY <2>3, <2>4, <2>5 DEF Within
<1>. QED  BY <1>3, <1>6, <1>7, <1>10, CounterStep

\* Asking is for accounts that are not locked.
LEMMA Asked ==
  ASSUME ThrottleInv, DOMAIN jobs = Workers, NEW u \in Users, NEW w \in Workers,
         NEW op \in Asking, AskLockout(w, u, op)
  PROVE  ThrottleInv'
<1>1. PICK j : j = [op |-> op, user |-> u]
  OBVIOUS
<1>2. jobs' = [jobs EXCEPT ![w] = j] /\ j.op = op /\ j.user = u
      /\ jobs[w].op \notin Asking \cup Locking /\ op \notin Locking
  BY <1>1 DEF AskLockout, Free, Idle, Asking, Locking
<1>3. throttle[u] \in Counter /\ Within(throttle[u], Busy(u, Asking), Busy(u, Locking))
      /\ throttle' = [throttle EXCEPT ![u] = throttle[u]] /\ ~throttle[u].locked
  BY DEF ThrottleInv, AskLockout, redis, is_locked
<1>4. Busy(u, Locking)' = Busy(u, Locking)
  BY <1>2 DEF Busy
<1>5. Within(throttle[u], Busy(u, Asking)', Busy(u, Locking)')
  BY <1>3, <1>4 DEF Within
<1>. QED  BY <1>2, <1>3, <1>5, CounterStep

\* The lockout leaves room for every request that asked before it.
LEMMA LockedOut ==
  ASSUME ThrottleInv, DOMAIN jobs = Workers, NEW w \in Workers, set_lockout(w),
         jobs[w].user \in Users
  PROVE  ThrottleInv'
<1>1. PICK u \in Users : u = jobs[w].user
  OBVIOUS
<1>2. PICK j : j = [op |-> "clear", user |-> u]
  OBVIOUS
<1>3. jobs' = [jobs EXCEPT ![w] = j] /\ j.op \in Locking /\ jobs[w].op \in Locking
      /\ j.user = u /\ j.op \notin Asking /\ jobs[w].op \notin Asking
  BY <1>1, <1>2 DEF set_lockout, Asking, Locking
<1>4. throttle[u] \in Counter /\ throttle \in [Users -> Counter]
      /\ Within(throttle[u], Busy(u, Asking), Busy(u, Locking))
  BY DEF ThrottleInv
<1>5. PICK c : c = [throttle[u] EXCEPT !.locked = TRUE]
  OBVIOUS
<1>6. c = [attempts |-> throttle[u].attempts, locked |-> TRUE, wrong |-> throttle[u].wrong]
  BY <1>4, <1>5 DEF Counter
<1>7. c \in Counter /\ throttle' = [throttle EXCEPT ![u] = c]
  BY <1>1, <1>4, <1>5, <1>6 DEF Counter, set_lockout
<1>8. Busy(u, Asking)' = Busy(u, Asking) /\ Busy(u, Locking)' = Busy(u, Locking)
  BY <1>1, <1>3 DEF Busy
<1>9. PICK A, L : A = Busy(u, Asking) /\ L = Busy(u, Locking)
  OBVIOUS
<1>10. A \in SUBSET Workers /\ L \in SUBSET Workers /\ A \cap L = {}
  BY <1>9 DEF Busy, Asking, Locking
<1>11. /\ Cardinality(A) + Cardinality(L) <= Cardinality(Workers)
       /\ Cardinality(A) \in Nat /\ Cardinality(L) \in Nat
       /\ Cardinality(Workers) \in Nat /\ MaxLoginAttempts \in Nat
  BY <1>10, Shared, Crew, AuthAssumption
<1>12. Within(c, A, L)
  <2>1. Within(throttle[u], A, L)
    BY <1>4, <1>9
  <2>. QED  BY <1>4, <1>6, <1>11, <2>1 DEF Within, Counter
<1>. QED  BY <1>1, <1>3, <1>7, <1>8, <1>9, <1>12, CounterStep

\* The steps about the throttle.
LEMMA ThrottleSteps ==
  ASSUME SourcesInv, ThrottleInv, NEW w \in Workers,
         \/ \E u \in Users, op \in {"login", "verify_otp", "reset_password"} :
              AskLockout(w, u, op)
         \/ set_lockout(w) \/ clear_attempts(w)
         \/ \E p \in Passwords : login(w, p)
         \/ \E right \in BOOLEAN : verify_otp(w, right)
         \/ \E right \in BOOLEAN, p \in Passwords : reset_password(w, right, p)
         \/ verify_otp_session(w) \/ complete_two_factor_session(w)
         \/ \E ch \in challenges :
              \E c \in TotpCodes \cup users[ch.user].recovery \cup {WrongCode} :
                 complete_two_factor(w, ch, c)
  PROVE  ThrottleInv'
<1>1. DOMAIN jobs = Workers /\ (jobs[w].op # "idle" => jobs[w].user \in Users)
      /\ Named(challenges) /\ Idle.op = "idle"
  BY DEF SourcesInv, Idle
<1>2. CASE \E u \in Users, op \in {"login", "verify_otp", "reset_password"} :
              AskLockout(w, u, op)
  BY <1>1, <1>2, Asked DEF Asking
<1>3. CASE set_lockout(w)
  BY <1>1, <1>3, LockedOut DEF set_lockout
<1>4. CASE clear_attempts(w)
  <2>1. PICK u \in Users : u = jobs[w].user
    BY <1>1, <1>4 DEF clear_attempts
  <2>. QED  BY <1>1, <1>4, <2>1, Cleared DEF clear_attempts
<1>5. ASSUME NEW u \in Users, u = jobs[w].user, throttle' = reset(u),
             jobs' = [jobs EXCEPT ![w] = Idle]
      PROVE  ThrottleInv'
  BY <1>1, <1>5, Success DEF Asking, Locking
<1>6. ASSUME NEW u \in Users, u = jobs[w].user, jobs[w].op \in Asking, record_failure(w, u, 1)
      PROVE  ThrottleInv'
  BY <1>1, <1>6, Wrong
<1>7. ASSUME NEW p \in Passwords, login(w, p) PROVE ThrottleInv'
  <2>1. PICK u \in Users : u = jobs[w].user
    BY <1>1, <1>7 DEF login
  <2>2. \/ record_failure(w, u, 1)
        \/ throttle' = reset(u) /\ jobs' = [jobs EXCEPT ![w] = Idle]
    BY <1>7, <2>1 DEF login, _record_failed_login
  <2>3. jobs[w].op \in Asking
    BY <1>7 DEF login, Asking
  <2>. QED  BY <1>5, <1>6, <2>1, <2>2, <2>3
<1>8. ASSUME NEW right \in BOOLEAN, verify_otp(w, right) PROVE ThrottleInv'
  <2>1. PICK u \in Users : u = jobs[w].user
    BY <1>1, <1>8 DEF verify_otp
  <2>2. jobs[w].op \in Asking /\ jobs[w].op \notin Locking
    BY <1>8 DEF verify_otp, Asking, Locking
  <2>3. CASE jobs' = [jobs EXCEPT ![w] = [op |-> "otp", user |-> u]] /\ UNCHANGED throttle
    <3>1. PICK j : j = [op |-> "otp", user |-> u]
      OBVIOUS
    <3>2. j.op \notin Asking \cup Locking
      BY <3>1 DEF Asking, Locking
    <3>. QED  BY <1>1, <2>1, <2>2, <2>3, <3>1, <3>2, Passed
  <2>4. CASE record_failure(w, u, 1)
    BY <1>6, <2>1, <2>2, <2>4
  <2>. QED  BY <1>8, <2>1, <2>3, <2>4 DEF verify_otp, _record_failed_login
<1>9. ASSUME NEW right \in BOOLEAN, NEW p \in Passwords, reset_password(w, right, p)
      PROVE  ThrottleInv'
  <2>1. PICK u \in Users : u = jobs[w].user
    BY <1>1, <1>9 DEF reset_password
  <2>2. jobs[w].op \in Asking /\ jobs[w].op \notin Locking
    BY <1>9 DEF reset_password, Asking, Locking
  <2>3. CASE record_failure(w, u, 1)
    BY <1>6, <2>1, <2>2, <2>3
  <2>4. CASE throttle' = reset(u) /\ jobs' = [jobs EXCEPT ![w] = Idle]
    BY <1>5, <2>1, <2>4
  <2>5. CASE throttle' = reset(u) /\ revoke_all_for_user(w, u, p)
    <3>1. PICK j : j = [op |-> "revoke", user |-> u, snapshot |-> LiveOf(u), password |-> p]
      OBVIOUS
    <3>2. jobs' = [jobs EXCEPT ![w] = j] /\ j.op \notin Asking \cup Locking
      BY <2>5, <3>1 DEF revoke_all_for_user, Asking, Locking
    <3>. QED  BY <1>1, <2>1, <2>5, <3>2, Success
  <2>. QED  BY <1>9, <2>1, <2>3, <2>4, <2>5
       DEF reset_password, _record_failed_login, _apply_new_password
<1>10. CASE verify_otp_session(w) \/ complete_two_factor_session(w)
  <2>1. PICK u \in Users : u = jobs[w].user
    BY <1>1, <1>10 DEF verify_otp_session, complete_two_factor_session
  <2>2. throttle' = reset(u) /\ jobs' = [jobs EXCEPT ![w] = Idle]
    BY <1>10, <2>1 DEF verify_otp_session, complete_two_factor_session
  <2>. QED  BY <1>5, <2>1, <2>2
<1>11. ASSUME NEW ch \in challenges, NEW c, complete_two_factor(w, ch, c)
       PROVE  ThrottleInv'
  <2>1. ch.user \in Users /\ jobs[w].op \notin Asking \cup Locking
    BY <1>1, <1>11 DEF complete_two_factor, Free, Asking, Locking, Named
  <2>2. CASE record_failure(w, ch.user, 0)
    BY <1>1, <2>1, <2>2, Wrong
  <2>3. ASSUME NEW r, UNCHANGED throttle,
               jobs' = [jobs EXCEPT ![w] = [op |-> "second", user |-> ch.user, ch |-> ch,
                                            recovery |-> r, code |-> c]]
        PROVE  ThrottleInv'
    <3>1. PICK j : j = [op |-> "second", user |-> ch.user, ch |-> ch, recovery |-> r,
                        code |-> c]
      OBVIOUS
    <3>2. jobs' = [jobs EXCEPT ![w] = j] /\ j.op \notin Asking \cup Locking
      BY <2>3, <3>1 DEF Asking, Locking
    <3>. QED  BY <1>1, <2>1, <2>3, <3>2, Elsewhere
  <2>. QED  BY <1>11, <2>2, <2>3 DEF complete_two_factor
<1>. QED  BY <1>2, <1>3, <1>4, <1>7, <1>8, <1>9, <1>10, <1>11

\* The other requests under way.
LEMMA OtherSteps ==
  ASSUME SourcesInv, ThrottleInv, NEW w \in Workers,
         \/ \E h \in handles : poll_device_sign_in(w, h)
         \/ poll_device_claim(w) \/ refresh_commit(w) \/ revoke_all_commit(w)
         \/ \E s \in DOMAIN sessions : refresh(w, s)
         \/ \E t \in tokens :
              \/ logout_all(w, t)
              \/ \E old \in Passwords, p \in Passwords : change_password(w, t, old, p)
  PROVE  ThrottleInv'
<1>1. DOMAIN jobs = Workers /\ Idle.op = "idle" /\ UNCHANGED throttle
  BY DEF SourcesInv, Idle, redis, poll_device_sign_in, poll_device_claim, refresh_commit,
         revoke_all_commit, refresh, logout_all, change_password
<1>2. jobs[w].op \notin Asking \cup Locking
  BY <1>1 DEF Asking, Locking, Free, poll_device_sign_in, poll_device_claim, refresh_commit,
              revoke_all_commit, refresh, get_by_refresh_token, logout_all, change_password
<1>3. ASSUME NEW j, jobs' = [jobs EXCEPT ![w] = j], j.op \notin Asking \cup Locking
      PROVE  ThrottleInv'
  BY <1>1, <1>2, <1>3, Elsewhere
<1>4. ASSUME NEW h \in handles, poll_device_sign_in(w, h) PROVE ThrottleInv'
  <2>1. PICK j : j = [op |-> "poll", user |-> h.user, handle |-> h]
    OBVIOUS
  <2>2. jobs' = [jobs EXCEPT ![w] = j] /\ j.op \notin Asking \cup Locking
    BY <1>4, <2>1 DEF poll_device_sign_in, Asking, Locking
  <2>. QED  BY <1>3, <2>2
<1>5. CASE poll_device_claim(w) \/ refresh_commit(w) \/ revoke_all_commit(w)
  <2>1. jobs' = [jobs EXCEPT ![w] = Idle] /\ Idle.op \notin Asking \cup Locking
    BY <1>1, <1>5 DEF poll_device_claim, refresh_commit, revoke_all_commit, Asking, Locking
  <2>. QED  BY <1>3, <2>1
<1>6. ASSUME NEW s \in DOMAIN sessions, refresh(w, s) PROVE ThrottleInv'
  <2>1. CASE UNCHANGED jobs
    BY <1>1, <2>1 DEF ThrottleInv, Within, Busy
  <2>2. CASE jobs' = [jobs EXCEPT ![w] = [op |-> "refresh", sid |-> s,
                                          user |-> sessions[s].user]]
    <3>1. PICK j : j = [op |-> "refresh", sid |-> s, user |-> sessions[s].user]
      OBVIOUS
    <3>2. jobs' = [jobs EXCEPT ![w] = j] /\ j.op \notin Asking \cup Locking
      BY <2>2, <3>1 DEF Asking, Locking
    <3>. QED  BY <1>3, <3>2
  <2>. QED  BY <1>6, <2>1, <2>2 DEF refresh
<1>7. ASSUME NEW u, NEW p, revoke_all_for_user(w, u, p) PROVE ThrottleInv'
  <2>1. PICK j : j = [op |-> "revoke", user |-> u, snapshot |-> LiveOf(u), password |-> p]
    OBVIOUS
  <2>2. jobs' = [jobs EXCEPT ![w] = j] /\ j.op \notin Asking \cup Locking
    BY <1>7, <2>1 DEF revoke_all_for_user, Asking, Locking
  <2>. QED  BY <1>3, <2>2
<1>8. ASSUME NEW t \in tokens,
             \/ logout_all(w, t)
             \/ \E old \in Passwords, p \in Passwords : change_password(w, t, old, p)
      PROVE  ThrottleInv'
  BY <1>7, <1>8 DEF logout_all, change_password, _apply_new_password
<1>. QED  BY <1>4, <1>5, <1>6, <1>8

\* Every request and every expiry keeps the throttle's invariant.
LEMMA ThrottleNext == SourcesInv /\ ThrottleInv /\ [Next]_vars => ThrottleInv'
<1> SUFFICES ASSUME SourcesInv, ThrottleInv, [Next]_vars PROVE ThrottleInv'
  OBVIOUS
<1>1. UNCHANGED <<throttle, jobs>> => ThrottleInv'
  BY DEF ThrottleInv, Within, Busy
<1>2. CASE UNCHANGED vars
  BY <1>1, <1>2 DEF vars, redis
<1>3. ASSUME NEW u \in Users, ExpireLockout(u) \/ ExpireAttempts(u) PROVE ThrottleInv'
  BY <1>3, Cleared DEF ExpireLockout, ExpireAttempts, SourcesInv
<1>4. CASE \/ \E u \in Users, p \in Passwords : register(u, p)
           \/ \E u \in Users : \/ resend_verification(u)
                               \/ request_magic_link(u)
                               \/ open_device_sign_in(u)
           \/ \E u \in Users, purpose \in {"login", "password-reset"} :
                request_otp(u, purpose)
           \/ \E l \in links : verify_email(l) \/ verify_magic_link(l)
           \/ \E t \in tokens, s \in DOMAIN sessions : revoke_session(t, s)
           \/ Tick \/ ExpireKey
  BY <1>1, <1>4
  DEF register, resend_verification, request_magic_link, open_device_sign_in, request_otp,
      verify_email, verify_magic_link, revoke_session, Tick, ExpireKey, redis
<1>5. CASE \/ \E t \in tokens : begin_two_factor_setup(t) \/ enable_two_factor(t)
           \/ \E t \in tokens, p \in Passwords :
                disable_two_factor(t, p) \/ regenerate_recovery_codes(t, p)
  BY <1>1, <1>5
  DEF begin_two_factor_setup, enable_two_factor, disable_two_factor,
      regenerate_recovery_codes, Enrol, redis
<1>6. CASE Next
  BY <1>3, <1>4, <1>5, <1>6, ThrottleSteps, OtherSteps DEF Next
<1>. QED  BY <1>2, <1>6

----------------------------------------------------------------------------
(* Theorems.                                                               *)

\* The invariant holds before anybody signed in.
LEMMA InitInv == Init => IInv
<1> SUFFICES ASSUME Init PROVE IInv
  OBVIOUS
<1>1. /\ sessions = <<>> /\ DOMAIN <<>> = {} /\ sessions \in Seq(SessionRow)
      /\ links = {} /\ handles = {} /\ challenges = {} /\ tokens = {}
      /\ jobs = [w \in Workers |-> Idle] /\ era = [u \in Users |-> 0] /\ overtaken = FALSE
  BY DEF Init
<1>2. SessionsInv /\ SourcesInv /\ EraInv
  BY <1>1
  DEF SessionsInv, SecondFactorHolds, OneSessionPerSignIn, SourcesInv, Named, Shown, EraInv,
      InFlight, Idle
<1>3. RefreshInv
  BY <1>1 DEF RefreshInv, InFlight, Idle
<1>. QED  BY <1>2, <1>3 DEF IInv

\* Every request and every expiry keeps the invariant.
LEMMA NextInv == IInv /\ [Next]_vars => IInv'
<1> SUFFICES ASSUME IInv, [Next]_vars PROVE IInv'
  OBVIOUS
<1>1. CASE UNCHANGED vars
  <2>1. Named(tokens) /\ Named(links) /\ Shown(handles) /\ Named(challenges)
    BY NamedNow DEF IInv
  <2>. QED  BY <1>1, <2>1, StillInv DEF vars, redis, Named, Shown
<1>2. CASE Next
  BY <1>2, KeysInv, EnrolInv, LinkInv, LockInv, LoginInv, TakeUpInv, FinishInv, RotateInv,
     RevokeInv
  DEF Next
<1>. QED  BY <1>1, <1>2

\* No counter has been touched yet.
LEMMA InitThrottle == Init => ThrottleInv
<1> SUFFICES ASSUME Init PROVE ThrottleInv
  OBVIOUS
<1>1. PICK c : c = [attempts |-> 0, locked |-> FALSE, wrong |-> 0]
  OBVIOUS
<1>2. c \in Counter /\ throttle = [u \in Users |-> c]
  BY <1>1 DEF Counter, Init
<1>3. ASSUME NEW u \in Users
      PROVE  Within(c, Busy(u, Asking), Busy(u, Locking))
  <2>1. Cardinality(Busy(u, Locking)) \in Nat
    BY Crew DEF Busy
  <2>. QED  BY <1>1, <2>1, AuthAssumption DEF Within
<1>. QED  BY <1>2, <1>3 DEF ThrottleInv

\* The inductive invariant holds in every reachable state.
THEOREM Invariance == Spec => [](IInv /\ ThrottleInv)
<1>1. Init => IInv /\ ThrottleInv
  BY InitInv, InitThrottle
<1>2. IInv /\ ThrottleInv /\ [Next]_vars => (IInv /\ ThrottleInv)'
  BY NextInv, ThrottleNext DEF IInv
<1>. QED  BY <1>1, <1>2, PTL DEF Spec

\* However many refreshes of one token overlap, a sign-in has at most one good
\* session: the row lock of get_by_refresh_token() suffices for any number.
THEOREM OneSession == Spec => []OneSessionPerSignIn
<1>1. IInv => OneSessionPerSignIn
  BY DEF IInv, SessionsInv
<1>. QED  BY <1>1, Invariance, PTL

\* No way in avoids the second factor of a user who has one.
THEOREM SecondFactor == Spec => []SecondFactorHolds
<1>1. IInv => SecondFactorHolds
  BY DEF IInv, SessionsInv
<1>. QED  BY <1>1, Invariance, PTL

\* Signing out everywhere ends every earlier session, unless a refresh was under
\* way when revoke_all_for_user() took its snapshot.
THEOREM EarlierSessionsEnd == Spec => []EarlierSessionsDie
<1>1. IInv => EarlierSessionsDie
  BY DEF IInv, EraInv, Doomed, EarlierSessionsDie
<1>. QED  BY <1>1, Invariance, PTL

\* For any number of workers, the throttle lets through max_login_attempts wrong
\* passwords and e-mailed codes and one for each further request that can be
\* under way, before a success or the end of a lockout or of the counter, however
\* asking, counting, locking and clearing interleave.
THEOREM GuessesAreBounded == Spec => []GuessesBounded
<1>1. ThrottleInv => GuessesBounded
  <2> SUFFICES ASSUME ThrottleInv, NEW u \in Users
               PROVE  throttle[u].wrong <= MaxLoginAttempts + Cardinality(Workers) - 1
    BY DEF GuessesBounded
  <2>1. PICK A, L : A = Busy(u, Asking) /\ L = Busy(u, Locking)
    OBVIOUS
  <2>2. throttle[u] \in Counter /\ Within(throttle[u], A, L)
    BY <2>1 DEF ThrottleInv
  <2>3. /\ Cardinality(A) \in Nat /\ Cardinality(L) \in Nat
        /\ Cardinality(L) <= Cardinality(Workers) /\ Cardinality(Workers) \in Nat
        /\ MaxLoginAttempts \in Nat
    BY <2>1, Crew, AuthAssumption DEF Busy
  <2>. QED  BY <2>2, <2>3 DEF Within, Counter
<1>. QED  BY <1>1, Invariance, PTL
=============================================================================
