---------------------------- MODULE ActingContext ----------------------------
(***************************************************************************)
(* Who a request acts as, and for whom (auth.py, authorization.py,         *)
(* identity.py): a coach's sessions, the roles he was granted, the entries *)
(* he holds, and the role and represented entry his session stores.        *)
(*                                                                         *)
(* resolve_principal makes three reads, each of a database other requests  *)
(* are changing: the session's row, the grants of the stored role, the     *)
(* grants covering the stored entry's season.  The checks of the route and *)
(* its writes come later still.  One action is one such read or one        *)
(* committed transaction.  Passwords, tokens and the attempt limiter, which *)
(* only refuse a login, are left out; so are expired and absent rows, which *)
(* answer as revoked ones do.                                              *)
(***************************************************************************)
EXTENDS Naturals

CONSTANTS
  Coaches,
  WithLogin,      \* the coaches with an e-mail address and a credential
  Entries, Seasons,
  SeasonOf,       \* the season of an entry
  FirstHolder,    \* the coach an entry is created with
  Roles,          \* the GRANTABLE_ROLES in use
  Requests,
  GrantIds,       \* bound on the grants in force together
  SessionIds,     \* bound on the sessions ever opened
  MaxCredential,  \* bound on the credentials a coach is given
  None, AllSeasons

GrantRows == [coach : Coaches, role : Roles, scope : Seasons \cup {AllSeasons}]

\* As history values, the credential the session's login verified and the
\* latest reset answered when its row was inserted.
SessionRows == [coach : Coaches, live : BOOLEAN, role : Roles \cup {"coach"},
                entry : Entries \cup {None}, since : Nat, answered : Nat]

ASSUME ContextAssumption ==
  /\ WithLogin \subseteq Coaches
  /\ SeasonOf \in [Entries -> Seasons] /\ FirstHolder \in [Entries -> Coaches]
  /\ "coach" \notin Roles /\ AllSeasons \notin Seasons
  /\ Entries \cap Seasons = {}
  /\ None \notin Entries \cup SessionIds \cup Coaches
  /\ None \notin GrantRows \cup SessionRows
  /\ MaxCredential \in Nat \ {0}

VARIABLES
  holder,      \* season_entry_coach_history, the row not ended
  grants,      \* role_grant, the rows not revoked
  sessions,    \* coach_session by id, None before it is opened
  credential,  \* how many credentials a coach has been given
  resetDone,   \* the latest credential whose reset has been answered
  requests,
  seen         \* of each request, the authority its coach has had since it came

contextVars == <<holder, grants, sessions, credential, resetDone, requests, seen>>

Idle == [step |-> "idle", coach |-> None, session |-> None,
         role |-> "coach", on |-> None, credential |-> 0]

ContextTypeOK ==
  /\ holder \in [Entries -> Coaches]
  /\ grants \in [GrantIds -> GrantRows \cup {None}]
  /\ sessions \in [SessionIds -> SessionRows \cup {None}]
  /\ credential \in [Coaches -> Nat] /\ resetDone \in [Coaches -> Nat]
  /\ requests \in [Requests ->
       [step : {"idle", "session", "role", "ready", "switch", "represent", "cleared",
                "verified", "rotated", "resetting"},
        coach : Coaches \cup {None}, session : SessionIds \cup {None},
        role : Roles \cup {"coach"}, on : Entries \cup Seasons \cup {None}, credential : Nat]]
  /\ seen \in [Requests -> SUBSET ((Roles \X Seasons) \cup ({"coach"} \X Entries))]

ContextInit ==
  /\ holder = FirstHolder
  /\ grants = [g \in GrantIds |-> None]
  /\ sessions = [s \in SessionIds |-> None]
  /\ credential = [c \in Coaches |-> 1] /\ resetDone = [c \in Coaches |-> 1]
  /\ requests = [q \in Requests |-> Idle]
  /\ seen = [q \in Requests |-> {}]

(* ------------------------------ authority ------------------------------- *)

GrantedTo(c, r) == \E g \in GrantIds : grants[g] # None /\ grants[g].coach = c /\ grants[g].role = r

\* role_covers_season
CoversSeason(c, r, t) ==
  \E g \in GrantIds : /\ grants[g] # None /\ grants[g].coach = c /\ grants[g].role = r
                      /\ grants[g].scope \in {AllSeasons, t}

\* available_roles
Available(c, r) ==
  IF r = "coach" THEN \E e \in Entries : holder[e] = c ELSE GrantedTo(c, r)

CanRepresent(c, r, e) == r # "coach" /\ CoversSeason(c, r, SeasonOf[e])

\* What each coach may act as, and for which entry or in which season.
Authority == [c \in Coaches |->
  {<<"coach", e>> : e \in {e \in Entries : holder[e] = c}} \cup
  {a \in Roles \X Seasons : CoversSeason(c, a[1], a[2])}]

Observe ==
  seen' = [q \in Requests |->
    IF requests'[q].step \in {"session", "role", "ready", "cleared"}
    THEN seen[q] \cup Authority'[requests'[q].coach] ELSE {}]

(* ------------------------- grants and assignments ----------------------- *)

\* Mutant of Grantable: a season may be named for any role.
GrantableAnyScope(r, scope) == r \in Roles

\* An administrator's grant names no season.
Grantable(r, scope) == r = "admin" => scope = AllSeasons

Grant(g, c, r, scope) ==
  /\ grants[g] = None /\ Grantable(r, scope)
  /\ grants' = [grants EXCEPT ![g] = [coach |-> c, role |-> r, scope |-> scope]]
  /\ UNCHANGED <<holder, sessions, credential, resetDone, requests>>

Revoke(g) ==
  /\ grants[g] # None
  /\ grants' = [grants EXCEPT ![g] = None]
  /\ UNCHANGED <<holder, sessions, credential, resetDone, requests>>

\* transfer_entry, under the lock of the entry's row.
TransferEntry(e, c) ==
  /\ holder' = [holder EXCEPT ![e] = c]
  /\ UNCHANGED <<grants, sessions, credential, resetDone, requests>>

(* ------------------------------- sessions ------------------------------- *)

Live(s) == sessions[s] # None /\ sessions[s].live

EndSessions(S) ==
  sessions' = [s \in SessionIds |->
    IF s \in S /\ Live(s) THEN [sessions[s] EXCEPT !.live = FALSE] ELSE sessions[s]]

\* The password is right now; nothing looks at it again.  The cookie of the
\* browser may name a session, of any coach.
VerifyLogin(q, c, s) ==
  /\ requests[q] = Idle
  /\ requests' = [requests EXCEPT ![q] =
       [Idle EXCEPT !.step = "verified", !.coach = c, !.session = s, !.credential = credential[c]]]
  /\ UNCHANGED <<holder, grants, sessions, credential, resetDone>>

RotateSession(q) ==
  /\ requests[q].step = "verified"
  /\ EndSessions({requests[q].session})
  /\ requests' = [requests EXCEPT ![q] = [@ EXCEPT !.step = "rotated", !.session = None]]
  /\ UNCHANGED <<holder, grants, credential, resetDone>>

OpenSession(q, s) ==
  LET c == requests[q].coach IN
  /\ requests[q].step = "rotated" /\ sessions[s] = None
  /\ sessions' = [sessions EXCEPT ![s] =
       [coach |-> c, live |-> TRUE, role |-> "coach", entry |-> None,
        since |-> requests[q].credential, answered |-> resetDone[c]]]
  /\ requests' = [requests EXCEPT ![q] = Idle]
  /\ UNCHANGED <<holder, grants, credential, resetDone>>

Expire(s) ==
  /\ Live(s) /\ EndSessions({s})
  /\ UNCHANGED <<holder, grants, credential, resetDone, requests>>

\* reset_password: the credential, then the sessions, in two transactions.
ResetPassword(q, c) ==
  /\ requests[q] = Idle /\ credential[c] < MaxCredential
  /\ credential' = [credential EXCEPT ![c] = @ + 1]
  /\ requests' = [requests EXCEPT ![q] =
       [Idle EXCEPT !.step = "resetting", !.coach = c, !.credential = credential'[c]]]
  /\ UNCHANGED <<holder, grants, sessions, resetDone>>

SessionsOf(c) == {s \in SessionIds : Live(s) /\ sessions[s].coach = c}

\* Mutant of RevokedByReset: one row is fetched.
RevokedFirstRow(c) == IF SessionsOf(c) = {} THEN {} ELSE {CHOOSE s \in SessionsOf(c) : TRUE}

RevokedByReset(c) == SessionsOf(c)

RevokeAllForCoach(q) ==
  LET c == requests[q].coach
      n == requests[q].credential
  IN  /\ requests[q].step = "resetting"
      /\ EndSessions(RevokedByReset(c))
      /\ resetDone' = [resetDone EXCEPT ![c] = IF n > @ THEN n ELSE @]
      /\ requests' = [requests EXCEPT ![q] = Idle]
      /\ UNCHANGED <<holder, grants, credential>>

(* --------------------------- resolve_principal -------------------------- *)

\* get_valid: the row as it stands, its role and entry not yet believed.
Arrive(q, s) ==
  /\ requests[q] = Idle /\ Live(s)
  /\ requests' = [requests EXCEPT ![q] =
       [Idle EXCEPT !.step = "session", !.coach = sessions[s].coach, !.session = s,
                    !.role = sessions[s].role, !.on = sessions[s].entry]]
  /\ UNCHANGED <<holder, grants, sessions, credential, resetDone>>

ResolveActiveRole(q) ==
  /\ requests[q].step = "session"
  /\ requests' = [requests EXCEPT ![q] =
       [@ EXCEPT !.step = "role",
                 !.role = IF GrantedTo(requests[q].coach, requests[q].role) THEN requests[q].role ELSE "coach"]]
  /\ UNCHANGED <<holder, grants, sessions, credential, resetDone>>

\* Mutant of RepresentedEntry: the session's entry is taken as it is stored.
RepresentedAsStored(c, r, e) == IF r = "coach" THEN None ELSE e

RepresentedEntry(c, r, e) == IF e # None /\ CanRepresent(c, r, e) THEN e ELSE None

ResolveRepresentedEntry(q) ==
  /\ requests[q].step = "role"
  /\ requests' = [requests EXCEPT ![q] =
       [@ EXCEPT !.step = "ready",
                 !.on = RepresentedEntry(requests[q].coach, requests[q].role, requests[q].on)]]
  /\ UNCHANGED <<holder, grants, sessions, credential, resetDone>>

(* -------------------------- what it was sent for ------------------------ *)

Logout(q) ==
  /\ requests[q].step = "session"
  /\ EndSessions({requests[q].session})
  /\ requests' = [requests EXCEPT ![q] = Idle]
  /\ UNCHANGED <<holder, grants, credential, resetDone>>

ActivateRole(q, r) ==
  /\ requests[q].step = "ready" /\ Available(requests[q].coach, r)
  /\ requests' = [requests EXCEPT ![q] = [@ EXCEPT !.step = "switch", !.role = r]]
  /\ UNCHANGED <<holder, grants, sessions, credential, resetDone>>

\* The row is written whether or not the session has ended meanwhile.
SetActiveRole(q) ==
  /\ requests[q].step = "switch"
  /\ sessions' = [sessions EXCEPT ![requests[q].session] =
       [@ EXCEPT !.role = requests[q].role, !.entry = None]]
  /\ requests' = [requests EXCEPT ![q] = Idle]
  /\ UNCHANGED <<holder, grants, credential, resetDone>>

Represent(q, e) ==
  /\ requests[q].step = "ready"
  /\ e # None => CanRepresent(requests[q].coach, requests[q].role, e)
  /\ requests' = [requests EXCEPT ![q] = [@ EXCEPT !.step = "represent", !.on = e]]
  /\ UNCHANGED <<holder, grants, sessions, credential, resetDone>>

SetRepresentedEntry(q) ==
  /\ requests[q].step = "represent"
  /\ sessions' = [sessions EXCEPT ![requests[q].session] = [@ EXCEPT !.entry = requests[q].on]]
  /\ requests' = [requests EXCEPT ![q] = Idle]
  /\ UNCHANGED <<holder, grants, credential, resetDone>>

\* require_entry_context: a coach's own entry, or the one he represents.
MayActFor(c, r, represented, e) == IF r = "coach" THEN holder[e] = c ELSE represented = e

EnterForEntry(q, e) ==
  /\ requests[q].step = "ready"
  /\ MayActFor(requests[q].coach, requests[q].role, requests[q].on, e)
  /\ requests' = [requests EXCEPT ![q] = [@ EXCEPT !.step = "cleared", !.session = None, !.on = e]]
  /\ UNCHANGED <<holder, grants, sessions, credential, resetDone>>

\* require_role_covers_season, on the routes of an official: no second look at
\* an administrator's grants.
EnterForSeason(q, t) ==
  /\ requests[q].step = "ready" /\ requests[q].role # "coach"
  /\ requests[q].role = "admin" \/ CoversSeason(requests[q].coach, requests[q].role, t)
  /\ requests' = [requests EXCEPT ![q] = [@ EXCEPT !.step = "cleared", !.session = None, !.on = t]]
  /\ UNCHANGED <<holder, grants, sessions, credential, resetDone>>

\* The request has done what it was cleared for, was refused or only read, or
\* was cut off between two of its transactions.
EndRequest(q) ==
  /\ requests[q] # Idle
  /\ requests' = [requests EXCEPT ![q] = Idle]
  /\ UNCHANGED <<holder, grants, sessions, credential, resetDone>>

GrantStep ==
  \/ \E g \in GrantIds, c \in Coaches, r \in Roles, scope \in Seasons \cup {AllSeasons} : Grant(g, c, r, scope)
  \/ \E g \in GrantIds : Revoke(g)
  \/ \E e \in Entries, c \in Coaches : TransferEntry(e, c)

SessionStep ==
  \/ \E q \in Requests, c \in WithLogin, s \in SessionIds \cup {None} : VerifyLogin(q, c, s)
  \/ \E q \in Requests : RotateSession(q)
  \/ \E q \in Requests, s \in SessionIds : OpenSession(q, s)
  \/ \E s \in SessionIds : Expire(s)
  \/ \E q \in Requests, c \in Coaches : ResetPassword(q, c)
  \/ \E q \in Requests : RevokeAllForCoach(q)

RequestStep ==
  \/ \E q \in Requests, s \in SessionIds : Arrive(q, s)
  \/ \E q \in Requests : ResolveActiveRole(q) \/ ResolveRepresentedEntry(q)
  \/ \E q \in Requests : Logout(q) \/ SetActiveRole(q) \/ SetRepresentedEntry(q) \/ EndRequest(q)
  \/ \E q \in Requests, r \in Roles \cup {"coach"} : ActivateRole(q, r)
  \/ \E q \in Requests, e \in Entries \cup {None} : Represent(q, e)
  \/ \E q \in Requests, e \in Entries : EnterForEntry(q, e)
  \/ \E q \in Requests, t \in Seasons : EnterForSeason(q, t)

ContextNext == (GrantStep \/ SessionStep \/ RequestStep) /\ Observe

ContextSpec == ContextInit /\ [][ContextNext]_contextVars

(* ------------------------------ properties ------------------------------ *)

\* A request that has passed its route's checks had, at some moment since it
\* came, the authority it acts with: the entry was its coach's own, or a grant
\* of the role covered the season.  What is stored in the session proves
\* nothing: another tab may have switched the role under a chosen entry, and
\* the grant it was chosen under may have been revoked.
ActsWithinAuthority ==
  \A q \in Requests : requests[q].step = "cleared" =>
    LET r == requests[q].role
        x == requests[q].on
    IN  (IF r = "coach" \/ x \in Seasons THEN <<r, x>> ELSE <<r, SeasonOf[x]>>) \in seen[q]

\* Once a password reset has been answered, no session that was open before is
\* left or comes back, whatever logins, rotations and role switches ran between
\* its two transactions and whichever of two resets finished first.
ResetsEndSessions ==
  \A s \in SessionIds : Live(s) => sessions[s].answered >= resetDone[sessions[s].coach]

\* What reset_password's docstring says of older tokens, of older passwords:
\* none keeps a session past an answered reset.  No run checks it: a login that
\* has verified the older one opens its session when the reset is over.
ResetsEndOldPasswords ==
  \A s \in SessionIds : Live(s) => sessions[s].since >= resetDone[sessions[s].coach]

\* A represented entry was chosen under the role the session now has.
\* (set_active_role's docstring; two tabs of one session break it.)
EntryChosenInRole ==
  [][\A s \in SessionIds, q \in Requests :
       requests[q].step = "represent" /\ requests[q].session = s /\ sessions[s] # None
         /\ sessions'[s] # None /\ sessions'[s].entry # sessions[s].entry /\ sessions'[s].entry # None
       => sessions'[s].role = requests[q].role]_contextVars
=============================================================================
