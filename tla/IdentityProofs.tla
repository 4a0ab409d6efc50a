---------------------------- MODULE IdentityProofs ----------------------------
(***************************************************************************)
(* Proofs about who is who.  Users (ActingContext): whatever requests,      *)
(* logins, resets, grants, revocations and transfers interleave, a request *)
(* acts within an authority its coach had since it came, and an answered   *)
(* reset leaves no session that was open before it.  Players               *)
(* (ProvisionalPlayers): a canonical player is quarantined exactly while a *)
(* possible match of his is unresolved, and a match that was decided       *)
(* against is never asked again.                                           *)
(***************************************************************************)
EXTENDS ActingContext, ProvisionalPlayers, TLAPS

-----------------------------------------------------------------------------
(***************************************************************************)
(* Types.                                                                  *)
(***************************************************************************)
Steps == {"idle", "session", "role", "ready", "switch", "represent", "cleared",
          "verified", "rotated", "resetting"}

RequestRows ==
  [step : Steps, coach : Coaches \cup {None}, session : SessionIds \cup {None},
   role : Roles \cup {"coach"}, on : Entries \cup Seasons \cup {None}, credential : Nat]

\* A request that has been read out of a session row still names that row, and
\* every request on its way names its coach.
RequestTyped(q) ==
  /\ requests[q] \in RequestRows
  /\ requests[q].step # "idle" => requests[q].coach \in Coaches
  /\ requests[q].step \in {"session", "role", "ready", "switch", "represent"} =>
       /\ requests[q].session \in SessionIds /\ sessions[requests[q].session] \in SessionRows
       /\ requests[q].on \in Entries \cup {None}

ContextTyped ==
  /\ holder \in [Entries -> Coaches]
  /\ grants \in [GrantIds -> GrantRows \cup {None}]
  /\ sessions \in [SessionIds -> SessionRows \cup {None}]
  /\ credential \in [Coaches -> Nat] /\ resetDone \in [Coaches -> Nat]
  /\ DOMAIN requests = Requests /\ requests = [q \in Requests |-> requests[q]]
  /\ \A q \in Requests : RequestTyped(q)

\* A step of request q leaves it as row, and the others as they are.
LEMMA RequestStepTyped ==
  ASSUME ContextTyped, NEW q \in Requests, NEW row \in RequestRows,
         requests' = [requests EXCEPT ![q] = row],
         row.step # "idle" => row.coach \in Coaches,
         row.step \in {"session", "role", "ready", "switch", "represent"} =>
           /\ row.session \in SessionIds /\ sessions'[row.session] \in SessionRows
           /\ row.on \in Entries \cup {None},
         \A s \in SessionIds : sessions[s] \in SessionRows => sessions'[s] \in SessionRows
  PROVE  /\ DOMAIN requests' = Requests /\ requests' = [p \in Requests |-> requests'[p]]
         /\ \A p \in Requests : RequestTyped(p)'
         /\ requests'[q] = row
         /\ \A p \in Requests : p # q => requests'[p] = requests[p]
<1>1. requests'[q] = row /\ \A p \in Requests : p # q => requests'[p] = requests[p]
  BY DEF ContextTyped
<1>2. DOMAIN requests' = Requests /\ requests' = [p \in Requests |-> requests'[p]]
  BY DEF ContextTyped
<1>3. ASSUME NEW p \in Requests PROVE RequestTyped(p)'
  <2>1. CASE p = q
    BY <1>1, <2>1 DEF RequestTyped
  <2>2. CASE p # q
    <3>1. requests'[p] = requests[p] /\ RequestTyped(p)
      BY <1>1, <2>2 DEF ContextTyped
    <3> QED BY <3>1 DEF RequestTyped
  <2> QED BY <2>1, <2>2
<1> QED BY <1>1, <1>2, <1>3

LEMMA IdleTyped == Idle \in RequestRows /\ Idle.step = "idle"
BY DEF Idle, RequestRows, Steps

LEMMA SessionsEnd ==
  ASSUME ContextTyped, NEW S, EndSessions(S)
  PROVE  /\ sessions' \in [SessionIds -> SessionRows \cup {None}]
         /\ \A s \in SessionIds : sessions[s] \in SessionRows =>
              /\ sessions'[s] \in SessionRows
              /\ sessions'[s].coach = sessions[s].coach /\ sessions'[s].answered = sessions[s].answered
              /\ sessions'[s].live => sessions[s].live /\ s \notin S
         /\ \A s \in SessionIds : sessions'[s] \in SessionRows => sessions[s] \in SessionRows
<1> SUFFICES ASSUME NEW s \in SessionIds
             PROVE  /\ sessions'[s] \in SessionRows \cup {None}
                    /\ sessions[s] \in SessionRows =>
                         /\ sessions'[s] \in SessionRows
                         /\ sessions'[s].coach = sessions[s].coach
                         /\ sessions'[s].answered = sessions[s].answered
                         /\ sessions'[s].live => sessions[s].live /\ s \notin S
                    /\ sessions'[s] \in SessionRows => sessions[s] \in SessionRows
  BY DEF EndSessions
<1>1. sessions[s] \in SessionRows \cup {None} /\ None \notin SessionRows
  BY ContextAssumption DEF ContextTyped
<1>2. sessions'[s] = IF s \in S /\ Live(s) THEN [sessions[s] EXCEPT !.live = FALSE] ELSE sessions[s]
  BY DEF EndSessions
<1>3. CASE s \in S /\ Live(s)
  <2>1. sessions[s] \in SessionRows
    BY <1>1, <1>3 DEF Live
  <2> DEFINE old == sessions[s]
             new == sessions'[s]
  <2>2. old \in SessionRows /\ new = [old EXCEPT !.live = FALSE] /\ old.live
    BY <1>2, <1>3, <2>1 DEF Live
  <2> HIDE DEF old, new
  <2>3. new \in SessionRows /\ new.coach = old.coach /\ new.answered = old.answered /\ new.live = FALSE
    BY <2>2 DEF SessionRows
  <2> QED BY <2>1, <2>2, <2>3 DEF old, new
<1>4. CASE ~(s \in S /\ Live(s))
  <2>1. sessions'[s] = sessions[s]
    BY <1>2, <1>4
  <2>2. sessions[s] \in SessionRows /\ sessions[s].live => s \notin S
    BY <1>1, <1>4 DEF Live
  <2> QED BY <1>1, <2>1, <2>2
<1> QED BY <1>3, <1>4
LEMMA FirstTyped == ContextInit => ContextTyped
<1> SUFFICES ASSUME ContextInit PROVE ContextTyped
  OBVIOUS
<1>1. holder \in [Entries -> Coaches]
  BY ContextAssumption DEF ContextInit
<1>2. grants \in [GrantIds -> GrantRows \cup {None}] /\ sessions \in [SessionIds -> SessionRows \cup {None}]
  BY DEF ContextInit
<1>3. credential \in [Coaches -> Nat] /\ resetDone \in [Coaches -> Nat]
  BY DEF ContextInit
<1>4. DOMAIN requests = Requests /\ requests = [q \in Requests |-> requests[q]]
  BY DEF ContextInit
<1>5. ASSUME NEW q \in Requests PROVE RequestTyped(q)
  BY IdleTyped DEF ContextInit, RequestTyped
<1> QED BY <1>1, <1>2, <1>3, <1>4, <1>5 DEF ContextTyped

\* What writes no request keeps their types, whatever it does to the sessions
\* short of removing one.
LEMMA RequestsKeptTyped ==
  ASSUME ContextTyped, UNCHANGED requests,
         \A s \in SessionIds : sessions[s] \in SessionRows => sessions'[s] \in SessionRows
  PROVE  /\ DOMAIN requests' = Requests /\ requests' = [p \in Requests |-> requests'[p]]
         /\ \A p \in Requests : RequestTyped(p)'
<1>1. ASSUME NEW p \in Requests PROVE RequestTyped(p)'
  <2>1. RequestTyped(p) /\ requests'[p] = requests[p]
    BY DEF ContextTyped
  <2> QED BY <2>1 DEF RequestTyped
<1> QED BY <1>1 DEF ContextTyped

\* One step: who wrote what, as the invariants need it.
GrantStepOf ==
  /\ UNCHANGED <<sessions, credential, resetDone, requests>>

LEMMA GrantsTyped ==
  ASSUME ContextTyped, GrantStep
  PROVE  ContextTyped' /\ GrantStepOf
<1>1. ASSUME NEW g \in GrantIds, NEW c \in Coaches, NEW r \in Roles, NEW scope \in Seasons \cup {AllSeasons},
             Grant(g, c, r, scope)
      PROVE  ContextTyped' /\ GrantStepOf
  <2>1. [coach |-> c, role |-> r, scope |-> scope] \in GrantRows
    BY DEF GrantRows
  <2>2. grants' \in [GrantIds -> GrantRows \cup {None}] /\ UNCHANGED <<holder, sessions, credential, resetDone, requests>>
    BY <1>1, <2>1 DEF Grant, ContextTyped
  <2>3. \A s \in SessionIds : sessions[s] \in SessionRows => sessions'[s] \in SessionRows
    BY <2>2
  <2> QED BY <2>2, <2>3, RequestsKeptTyped DEF ContextTyped, GrantStepOf
<1>2. ASSUME NEW g \in GrantIds, Revoke(g)
      PROVE  ContextTyped' /\ GrantStepOf
  <2>2. grants' \in [GrantIds -> GrantRows \cup {None}] /\ UNCHANGED <<holder, sessions, credential, resetDone, requests>>
    BY <1>2 DEF Revoke, ContextTyped
  <2>3. \A s \in SessionIds : sessions[s] \in SessionRows => sessions'[s] \in SessionRows
    BY <2>2
  <2> QED BY <2>2, <2>3, RequestsKeptTyped DEF ContextTyped, GrantStepOf
<1>3. ASSUME NEW e \in Entries, NEW c \in Coaches, TransferEntry(e, c)
      PROVE  ContextTyped' /\ GrantStepOf
  <2>2. holder' \in [Entries -> Coaches] /\ UNCHANGED <<grants, sessions, credential, resetDone, requests>>
    BY <1>3 DEF TransferEntry, ContextTyped
  <2>3. \A s \in SessionIds : sessions[s] \in SessionRows => sessions'[s] \in SessionRows
    BY <2>2
  <2> QED BY <2>2, <2>3, RequestsKeptTyped DEF ContextTyped, GrantStepOf
<1> QED BY <1>1, <1>2, <1>3 DEF GrantStep
-----------------------------------------------------------------------------
(***************************************************************************)
(* The steps of sessions and requests: what they keep.                      *)
(***************************************************************************)
\* No session is opened or comes back to life.
SessionsQuiet ==
  \A s \in SessionIds : sessions'[s] \in SessionRows /\ sessions'[s].live =>
    /\ sessions[s] \in SessionRows /\ sessions[s].live
    /\ sessions'[s].coach = sessions[s].coach /\ sessions'[s].answered = sessions[s].answered

\* Request q moves to row, and nobody's rights or credentials change.
Moves(q, row) ==
  /\ row \in RequestRows /\ requests'[q] = row
  /\ \A p \in Requests : p # q => requests'[p] = requests[p]
  /\ UNCHANGED <<holder, grants, credential, resetDone>>

\* A step of q that writes no session.
LEMMA MovesTyped ==
  ASSUME ContextTyped, NEW q \in Requests, NEW row \in RequestRows,
         requests' = [requests EXCEPT ![q] = row],
         UNCHANGED <<holder, grants, sessions, credential, resetDone>>,
         row.step # "idle" => row.coach \in Coaches,
         row.step \in {"session", "role", "ready", "switch", "represent"} =>
           /\ row.session \in SessionIds /\ sessions[row.session] \in SessionRows
           /\ row.on \in Entries \cup {None}
  PROVE  ContextTyped' /\ SessionsQuiet /\ Moves(q, row)
<1>1. \A s \in SessionIds : sessions[s] \in SessionRows => sessions'[s] \in SessionRows
  OBVIOUS
<1>2. /\ DOMAIN requests' = Requests /\ requests' = [p \in Requests |-> requests'[p]]
      /\ \A p \in Requests : RequestTyped(p)'
      /\ requests'[q] = row
      /\ \A p \in Requests : p # q => requests'[p] = requests[p]
  BY <1>1, RequestStepTyped
<1>3. ContextTyped'
  BY <1>2 DEF ContextTyped
<1> QED BY <1>2, <1>3 DEF SessionsQuiet, Moves

\* A step of q that ends in Idle, having written sessions without losing one.
LEMMA IdleAfter ==
  ASSUME ContextTyped, NEW q \in Requests,
         requests' = [requests EXCEPT ![q] = Idle],
         UNCHANGED <<holder, grants, credential, resetDone>>,
         sessions' \in [SessionIds -> SessionRows \cup {None}],
         \A s \in SessionIds : sessions[s] \in SessionRows => sessions'[s] \in SessionRows
  PROVE  ContextTyped' /\ Moves(q, Idle)
<1>1. Idle \in RequestRows /\ Idle.step = "idle"
  BY IdleTyped
<1>2. /\ DOMAIN requests' = Requests /\ requests' = [p \in Requests |-> requests'[p]]
      /\ \A p \in Requests : RequestTyped(p)'
      /\ requests'[q] = Idle
      /\ \A p \in Requests : p # q => requests'[p] = requests[p]
  BY <1>1, RequestStepTyped
<1>3. ContextTyped'
  BY <1>2 DEF ContextTyped
<1> QED BY <1>1, <1>2, <1>3 DEF Moves

\* The rows a step may leave a request in without touching a property.
Passing == {"idle", "session", "switch", "represent", "verified", "rotated"}

LEMMA LoginTyped ==
  ASSUME ContextTyped, NEW q \in Requests, NEW c \in WithLogin, NEW s \in SessionIds \cup {None},
         VerifyLogin(q, c, s)
  PROVE  ContextTyped' /\ SessionsQuiet /\ \E row \in RequestRows : Moves(q, row) /\ row.step \in Passing
<1> DEFINE row == [Idle EXCEPT !.step = "verified", !.coach = c, !.session = s,
                               !.credential = credential[c]]
<1>0. c \in Coaches /\ credential[c] \in Nat
  BY ContextAssumption DEF ContextTyped
<1>1. row \in RequestRows /\ row.step = "verified" /\ row.coach \in Coaches
  BY <1>0 DEF Idle, RequestRows, Steps
<1>2. requests' = [requests EXCEPT ![q] = row] /\ UNCHANGED <<holder, grants, sessions, credential, resetDone>>
  BY DEF VerifyLogin
<1> HIDE DEF row
<1>3. ContextTyped' /\ SessionsQuiet /\ Moves(q, row)
  BY <1>1, <1>2, MovesTyped
<1> QED BY <1>1, <1>3 DEF Passing

LEMMA RotationTyped ==
  ASSUME ContextTyped, NEW q \in Requests, RotateSession(q)
  PROVE  ContextTyped' /\ SessionsQuiet /\ \E row \in RequestRows : Moves(q, row) /\ row.step \in Passing
<1> DEFINE row == [requests[q] EXCEPT !.step = "rotated", !.session = None]
<1>0. requests[q] \in RequestRows /\ requests[q].step = "verified" /\ requests[q].coach \in Coaches
  BY DEF RotateSession, ContextTyped, RequestTyped
<1>1. row \in RequestRows /\ row.step = "rotated" /\ row.coach \in Coaches
  BY <1>0 DEF RequestRows, Steps
<1>2. /\ requests' = [requests EXCEPT ![q] = row] /\ EndSessions({requests[q].session})
      /\ UNCHANGED <<holder, grants, credential, resetDone>>
  BY DEF RotateSession
<1> HIDE DEF row
<1>3. /\ sessions' \in [SessionIds -> SessionRows \cup {None}]
      /\ \A s \in SessionIds : sessions[s] \in SessionRows => sessions'[s] \in SessionRows
      /\ SessionsQuiet
  BY <1>2, SessionsEnd DEF SessionsQuiet
<1>4. /\ DOMAIN requests' = Requests /\ requests' = [p \in Requests |-> requests'[p]]
      /\ \A p \in Requests : RequestTyped(p)'
      /\ requests'[q] = row
      /\ \A p \in Requests : p # q => requests'[p] = requests[p]
  BY <1>1, <1>2, <1>3, RequestStepTyped
<1>5. ContextTyped'
  BY <1>2, <1>3, <1>4 DEF ContextTyped
<1>6. Moves(q, row)
  BY <1>1, <1>2, <1>4 DEF Moves
<1> QED BY <1>1, <1>3, <1>5, <1>6 DEF Passing

LEMMA OpeningTyped ==
  ASSUME ContextTyped, NEW q \in Requests, NEW s \in SessionIds, OpenSession(q, s)
  PROVE  /\ ContextTyped' /\ Moves(q, Idle)
         /\ sessions'[s].coach \in Coaches /\ sessions'[s].answered = resetDone[sessions'[s].coach]
         /\ \A z \in SessionIds : z # s => sessions'[z] = sessions[z]
<1> DEFINE c == requests[q].coach
           new == [coach |-> c, live |-> TRUE, role |-> "coach", entry |-> None,
                   since |-> requests[q].credential, answered |-> resetDone[c]]
<1>1. c \in Coaches /\ requests[q].credential \in Nat /\ resetDone[c] \in Nat
  BY DEF OpenSession, ContextTyped, RequestTyped, RequestRows
<1>2. new \in SessionRows /\ new.coach = c /\ new.answered = resetDone[c]
  BY <1>1 DEF SessionRows
<1>3. /\ sessions[s] = None /\ sessions' = [sessions EXCEPT ![s] = new]
      /\ requests' = [requests EXCEPT ![q] = Idle] /\ UNCHANGED <<holder, grants, credential, resetDone>>
  BY DEF OpenSession
<1> HIDE DEF new, c
<1>4. /\ sessions' \in [SessionIds -> SessionRows \cup {None}] /\ sessions'[s] = new
      /\ \A z \in SessionIds : z # s => sessions'[z] = sessions[z]
  BY <1>2, <1>3 DEF ContextTyped
<1>5. \A z \in SessionIds : sessions[z] \in SessionRows => sessions'[z] \in SessionRows
  BY <1>2, <1>4
<1>6. ContextTyped' /\ Moves(q, Idle)
  BY <1>3, <1>4, <1>5, IdleAfter
<1> QED BY <1>1, <1>2, <1>4, <1>6

LEMMA ExpiryTyped ==
  ASSUME ContextTyped, NEW s \in SessionIds, Expire(s)
  PROVE  ContextTyped' /\ SessionsQuiet /\ UNCHANGED <<holder, grants, credential, resetDone, requests>>
<1>1. EndSessions({s}) /\ UNCHANGED <<holder, grants, credential, resetDone, requests>>
  BY DEF Expire
<1>2. /\ sessions' \in [SessionIds -> SessionRows \cup {None}]
      /\ \A z \in SessionIds : sessions[z] \in SessionRows => sessions'[z] \in SessionRows
      /\ SessionsQuiet
  BY <1>1, SessionsEnd DEF SessionsQuiet
<1> QED BY <1>1, <1>2, RequestsKeptTyped DEF ContextTyped

LEMMA ResetTyped ==
  ASSUME ContextTyped, NEW q \in Requests, NEW c \in Coaches, ResetPassword(q, c)
  PROVE  /\ ContextTyped' /\ UNCHANGED <<holder, grants, sessions, resetDone>>
         /\ credential' = [credential EXCEPT ![c] = @ + 1]
         /\ requests'[q].step = "resetting" /\ requests'[q].coach = c
         /\ requests'[q].credential = credential'[c]
         /\ \A p \in Requests : p # q => requests'[p] = requests[p]
<1> DEFINE row == [Idle EXCEPT !.step = "resetting", !.coach = c, !.credential = credential'[c]]
<1>1. credential' = [credential EXCEPT ![c] = @ + 1] /\ credential' \in [Coaches -> Nat]
  BY DEF ResetPassword, ContextTyped
<1>2. row \in RequestRows /\ row.step = "resetting" /\ row.coach = c /\ row.credential = credential'[c]
  BY <1>1 DEF Idle, RequestRows, Steps
<1>3. requests' = [requests EXCEPT ![q] = row] /\ UNCHANGED <<holder, grants, sessions, resetDone>>
  BY DEF ResetPassword
<1> HIDE DEF row
<1>4. \A s \in SessionIds : sessions[s] \in SessionRows => sessions'[s] \in SessionRows
  BY <1>3
<1>5. /\ DOMAIN requests' = Requests /\ requests' = [p \in Requests |-> requests'[p]]
      /\ \A p \in Requests : RequestTyped(p)'
      /\ requests'[q] = row
      /\ \A p \in Requests : p # q => requests'[p] = requests[p]
  BY <1>2, <1>3, <1>4, RequestStepTyped
<1>6. ContextTyped'
  BY <1>1, <1>3, <1>5 DEF ContextTyped
<1> QED BY <1>1, <1>2, <1>3, <1>5, <1>6
LEMMA RevocationTyped ==
  ASSUME ContextTyped, NEW q \in Requests, RevokeAllForCoach(q)
  PROVE  /\ ContextTyped' /\ SessionsQuiet
         /\ \A s \in SessionIds : sessions'[s] \in SessionRows /\ sessions'[s].live =>
              sessions'[s].coach # requests[q].coach
         /\ requests[q].step = "resetting" /\ requests[q].coach \in Coaches /\ requests[q].credential \in Nat
         /\ requests'[q] = Idle /\ \A p \in Requests : p # q => requests'[p] = requests[p]
         /\ resetDone' = [resetDone EXCEPT ![requests[q].coach] =
              IF requests[q].credential > @ THEN requests[q].credential ELSE @]
         /\ UNCHANGED <<holder, grants, credential>>
<1> DEFINE c == requests[q].coach
<1>0. requests[q].step = "resetting" /\ c \in Coaches /\ requests[q].credential \in Nat
  BY DEF RevokeAllForCoach, ContextTyped, RequestTyped, RequestRows
<1>1. /\ EndSessions(SessionsOf(c))
      /\ resetDone' = [resetDone EXCEPT ![c] = IF requests[q].credential > @ THEN requests[q].credential ELSE @]
      /\ requests' = [requests EXCEPT ![q] = Idle] /\ UNCHANGED <<holder, grants, credential>>
  BY DEF RevokeAllForCoach, RevokedByReset
<1>2. /\ sessions' \in [SessionIds -> SessionRows \cup {None}]
      /\ \A s \in SessionIds : sessions[s] \in SessionRows =>
           /\ sessions'[s] \in SessionRows
           /\ sessions'[s].coach = sessions[s].coach /\ sessions'[s].answered = sessions[s].answered
           /\ sessions'[s].live => sessions[s].live /\ s \notin SessionsOf(c)
      /\ \A s \in SessionIds : sessions'[s] \in SessionRows => sessions[s] \in SessionRows
  BY <1>1, SessionsEnd
<1>3. ASSUME NEW s \in SessionIds, sessions'[s] \in SessionRows, sessions'[s].live
      PROVE  sessions'[s].coach # c
  <2>1. /\ sessions[s] \in SessionRows /\ sessions[s].live /\ s \notin SessionsOf(c)
        /\ sessions'[s].coach = sessions[s].coach
    BY <1>2, <1>3
  <2>2. sessions[s] # None
    BY <2>1, ContextAssumption
  <2> QED BY <2>1, <2>2 DEF SessionsOf, Live
<1>4. SessionsQuiet
  BY <1>2 DEF SessionsQuiet
<1>5. Idle \in RequestRows /\ Idle.step = "idle"
  BY IdleTyped
<1>6. /\ DOMAIN requests' = Requests /\ requests' = [p \in Requests |-> requests'[p]]
      /\ \A p \in Requests : RequestTyped(p)'
      /\ requests'[q] = Idle
      /\ \A p \in Requests : p # q => requests'[p] = requests[p]
  BY <1>1, <1>2, <1>5, RequestStepTyped
<1>7. resetDone' \in [Coaches -> Nat]
  BY <1>0, <1>1 DEF ContextTyped
<1>8. ContextTyped'
  BY <1>1, <1>2, <1>6, <1>7 DEF ContextTyped
<1> QED BY <1>0, <1>1, <1>3, <1>4, <1>6, <1>8

LEMMA ArrivalTyped ==
  ASSUME ContextTyped, NEW q \in Requests, NEW s \in SessionIds, Arrive(q, s)
  PROVE  ContextTyped' /\ SessionsQuiet /\ \E row \in RequestRows : Moves(q, row) /\ row.step \in Passing
<1> DEFINE row == [Idle EXCEPT !.step = "session", !.coach = sessions[s].coach, !.session = s,
                               !.role = sessions[s].role, !.on = sessions[s].entry]
<1>0. sessions[s] \in SessionRows
  BY DEF Arrive, Live, ContextTyped
<1>1. /\ row \in RequestRows /\ row.step = "session" /\ row.coach \in Coaches /\ row.session = s
      /\ row.on \in Entries \cup {None}
  BY <1>0 DEF Idle, RequestRows, SessionRows, Steps
<1>2. requests' = [requests EXCEPT ![q] = row] /\ UNCHANGED <<holder, grants, sessions, credential, resetDone>>
  BY DEF Arrive
<1> HIDE DEF row
<1>3. ContextTyped' /\ SessionsQuiet /\ Moves(q, row)
  BY <1>0, <1>1, <1>2, MovesTyped
<1> QED BY <1>1, <1>3 DEF Passing

LEMMA SwitchTyped ==
  ASSUME ContextTyped, NEW q \in Requests, NEW r \in Roles \cup {"coach"}, ActivateRole(q, r)
  PROVE  /\ ContextTyped' /\ SessionsQuiet /\ UNCHANGED sessions
         /\ \E row \in RequestRows : Moves(q, row) /\ row.step \in Passing
<1> DEFINE row == [requests[q] EXCEPT !.step = "switch", !.role = r]
<1>0. /\ requests[q] \in RequestRows /\ requests[q].step = "ready" /\ requests[q].coach \in Coaches
      /\ requests[q].session \in SessionIds /\ sessions[requests[q].session] \in SessionRows
      /\ requests[q].on \in Entries \cup {None}
  BY DEF ActivateRole, ContextTyped, RequestTyped
<1>1. /\ row \in RequestRows /\ row.step = "switch" /\ row.coach \in Coaches
      /\ row.session = requests[q].session /\ row.on \in Entries \cup {None}
  BY <1>0 DEF RequestRows, Steps
<1>2. requests' = [requests EXCEPT ![q] = row] /\ UNCHANGED <<holder, grants, sessions, credential, resetDone>>
  BY DEF ActivateRole
<1> HIDE DEF row
<1>3. ContextTyped' /\ SessionsQuiet /\ Moves(q, row)
  BY <1>0, <1>1, <1>2, MovesTyped
<1> QED BY <1>1, <1>2, <1>3 DEF Passing

LEMMA RepresentTyped ==
  ASSUME ContextTyped, NEW q \in Requests, NEW e \in Entries \cup {None}, Represent(q, e)
  PROVE  /\ ContextTyped' /\ SessionsQuiet /\ UNCHANGED sessions
         /\ \E row \in RequestRows : Moves(q, row) /\ row.step \in Passing
<1> DEFINE row == [requests[q] EXCEPT !.step = "represent", !.on = e]
<1>0. /\ requests[q] \in RequestRows /\ requests[q].step = "ready" /\ requests[q].coach \in Coaches
      /\ requests[q].session \in SessionIds /\ sessions[requests[q].session] \in SessionRows
      /\ requests[q].on \in Entries \cup {None}
  BY DEF Represent, ContextTyped, RequestTyped
<1>1. /\ row \in RequestRows /\ row.step = "represent" /\ row.coach \in Coaches
      /\ row.session = requests[q].session /\ row.on \in Entries \cup {None}
  BY <1>0 DEF RequestRows, Steps
<1>2. requests' = [requests EXCEPT ![q] = row] /\ UNCHANGED <<holder, grants, sessions, credential, resetDone>>
  BY DEF Represent
<1> HIDE DEF row
<1>3. ContextTyped' /\ SessionsQuiet /\ Moves(q, row)
  BY <1>0, <1>1, <1>2, MovesTyped
<1> QED BY <1>1, <1>2, <1>3 DEF Passing

LEMMA LogoutTyped ==
  ASSUME ContextTyped, NEW q \in Requests, Logout(q)
  PROVE  ContextTyped' /\ SessionsQuiet /\ Moves(q, Idle)
<1>1. /\ EndSessions({requests[q].session}) /\ requests' = [requests EXCEPT ![q] = Idle]
      /\ UNCHANGED <<holder, grants, credential, resetDone>>
  BY DEF Logout
<1>2. /\ sessions' \in [SessionIds -> SessionRows \cup {None}]
      /\ \A s \in SessionIds : sessions[s] \in SessionRows => sessions'[s] \in SessionRows
      /\ SessionsQuiet
  BY <1>1, SessionsEnd DEF SessionsQuiet
<1> QED BY <1>1, <1>2, IdleAfter

LEMMA EndingTyped ==
  ASSUME ContextTyped, NEW q \in Requests, EndRequest(q)
  PROVE  ContextTyped' /\ SessionsQuiet /\ Moves(q, Idle)
<1>1. requests' = [requests EXCEPT ![q] = Idle] /\ UNCHANGED <<holder, grants, sessions, credential, resetDone>>
  BY DEF EndRequest
<1>2. sessions' \in [SessionIds -> SessionRows \cup {None}]
  BY <1>1 DEF ContextTyped
<1> QED BY <1>1, <1>2, IdleAfter DEF SessionsQuiet

LEMMA RoleSetTyped ==
  ASSUME ContextTyped, NEW q \in Requests, SetActiveRole(q)
  PROVE  ContextTyped' /\ SessionsQuiet /\ Moves(q, Idle)
<1> DEFINE z == requests[q].session
           row == [sessions[z] EXCEPT !.role = requests[q].role, !.entry = None]
<1>1. /\ z \in SessionIds /\ sessions[z] \in SessionRows /\ requests[q] \in RequestRows
      /\ requests[q].on \in Entries \cup {None}
  BY DEF SetActiveRole, ContextTyped, RequestTyped
<1>2. /\ row \in SessionRows /\ row.live = sessions[z].live /\ row.coach = sessions[z].coach
      /\ row.answered = sessions[z].answered
  BY <1>1 DEF SessionRows, RequestRows
<1>3. /\ sessions' = [sessions EXCEPT ![z] = row] /\ requests' = [requests EXCEPT ![q] = Idle]
      /\ UNCHANGED <<holder, grants, credential, resetDone>>
  BY DEF SetActiveRole
<1> HIDE DEF row, z
<1>4. /\ sessions' \in [SessionIds -> SessionRows \cup {None}] /\ sessions'[z] = row
      /\ \A s \in SessionIds : s # z => sessions'[s] = sessions[s]
  BY <1>1, <1>2, <1>3 DEF ContextTyped
<1>5. \A s \in SessionIds : sessions[s] \in SessionRows => sessions'[s] \in SessionRows
  BY <1>2, <1>4
<1>6. SessionsQuiet
  BY <1>1, <1>2, <1>4 DEF SessionsQuiet
<1> QED BY <1>3, <1>4, <1>5, <1>6, IdleAfter

LEMMA EntrySetTyped ==
  ASSUME ContextTyped, NEW q \in Requests, SetRepresentedEntry(q)
  PROVE  ContextTyped' /\ SessionsQuiet /\ Moves(q, Idle)
<1> DEFINE z == requests[q].session
           row == [sessions[z] EXCEPT !.entry = requests[q].on]
<1>1. /\ z \in SessionIds /\ sessions[z] \in SessionRows /\ requests[q] \in RequestRows
      /\ requests[q].on \in Entries \cup {None}
  BY DEF SetRepresentedEntry, ContextTyped, RequestTyped
<1>2. /\ row \in SessionRows /\ row.live = sessions[z].live /\ row.coach = sessions[z].coach
      /\ row.answered = sessions[z].answered
  BY <1>1 DEF SessionRows, RequestRows
<1>3. /\ sessions' = [sessions EXCEPT ![z] = row] /\ requests' = [requests EXCEPT ![q] = Idle]
      /\ UNCHANGED <<holder, grants, credential, resetDone>>
  BY DEF SetRepresentedEntry
<1> HIDE DEF row, z
<1>4. /\ sessions' \in [SessionIds -> SessionRows \cup {None}] /\ sessions'[z] = row
      /\ \A s \in SessionIds : s # z => sessions'[s] = sessions[s]
  BY <1>1, <1>2, <1>3 DEF ContextTyped
<1>5. \A s \in SessionIds : sessions[s] \in SessionRows => sessions'[s] \in SessionRows
  BY <1>2, <1>4
<1>6. SessionsQuiet
  BY <1>1, <1>2, <1>4 DEF SessionsQuiet
<1> QED BY <1>3, <1>4, <1>5, <1>6, IdleAfter

LEMMA RoleTyped ==
  ASSUME ContextTyped, NEW q \in Requests, ResolveActiveRole(q)
  PROVE  /\ ContextTyped' /\ SessionsQuiet /\ requests[q].step = "session"
         /\ \E row \in RequestRows :
              /\ Moves(q, row) /\ row.step = "role" /\ row.coach = requests[q].coach
              /\ row.coach \in Coaches
              /\ row.role \in Roles \cup {"coach"}
              /\ row.role = "coach" \/ GrantedTo(row.coach, row.role)
<1> DEFINE row == [requests[q] EXCEPT !.step = "role",
                 !.role = IF GrantedTo(requests[q].coach, requests[q].role) THEN requests[q].role ELSE "coach"]
<1>0. /\ requests[q] \in RequestRows /\ requests[q].step = "session" /\ requests[q].coach \in Coaches
      /\ requests[q].session \in SessionIds /\ sessions[requests[q].session] \in SessionRows
      /\ requests[q].on \in Entries \cup {None}
  BY DEF ResolveActiveRole, ContextTyped, RequestTyped
<1>1. /\ row \in RequestRows /\ row.step = "role" /\ row.coach = requests[q].coach
      /\ row.session = requests[q].session /\ row.on = requests[q].on /\ row.role \in Roles \cup {"coach"}
  BY <1>0 DEF RequestRows, Steps
<1>2. requests' = [requests EXCEPT ![q] = row] /\ UNCHANGED <<holder, grants, sessions, credential, resetDone>>
  BY DEF ResolveActiveRole
<1>4. row.role = "coach" \/ GrantedTo(requests[q].coach, row.role)
  BY <1>0 DEF ResolveActiveRole
<1> HIDE DEF row
<1>3. ContextTyped' /\ SessionsQuiet /\ Moves(q, row)
  BY <1>0, <1>1, <1>2, MovesTyped
<1> QED BY <1>0, <1>1, <1>3, <1>4

LEMMA EntryTyped ==
  ASSUME ContextTyped, NEW q \in Requests, ResolveRepresentedEntry(q)
  PROVE  /\ ContextTyped' /\ SessionsQuiet /\ requests[q].step = "role"
         /\ \E row \in RequestRows :
              /\ Moves(q, row) /\ row.step = "ready" /\ row.coach = requests[q].coach
              /\ row.coach \in Coaches
              /\ row.role = requests[q].role /\ row.role \in Roles \cup {"coach"}
              /\ row.on \in Entries \cup {None}
              /\ row.on # None => CanRepresent(row.coach, row.role, row.on)
<1> DEFINE row == [requests[q] EXCEPT !.step = "ready",
                 !.on = RepresentedEntry(requests[q].coach, requests[q].role, requests[q].on)]
<1>0. /\ requests[q] \in RequestRows /\ requests[q].step = "role" /\ requests[q].coach \in Coaches
      /\ requests[q].session \in SessionIds /\ sessions[requests[q].session] \in SessionRows
      /\ requests[q].on \in Entries \cup {None}
  BY DEF ResolveRepresentedEntry, ContextTyped, RequestTyped
<1>1. /\ row \in RequestRows /\ row.step = "ready" /\ row.coach = requests[q].coach
      /\ row.session = requests[q].session /\ row.role = requests[q].role
      /\ row.role \in Roles \cup {"coach"} /\ row.on \in Entries \cup {None}
  BY <1>0 DEF RequestRows, Steps, RepresentedEntry
<1>2. requests' = [requests EXCEPT ![q] = row] /\ UNCHANGED <<holder, grants, sessions, credential, resetDone>>
  BY DEF ResolveRepresentedEntry
<1>4. row.on # None => CanRepresent(requests[q].coach, requests[q].role, row.on)
  BY <1>0 DEF ResolveRepresentedEntry, RepresentedEntry
<1> HIDE DEF row
<1>3. ContextTyped' /\ SessionsQuiet /\ Moves(q, row)
  BY <1>0, <1>1, <1>2, MovesTyped
<1> QED BY <1>0, <1>1, <1>3, <1>4

LEMMA EntryClearedTyped ==
  ASSUME ContextTyped, NEW q \in Requests, NEW e \in Entries, EnterForEntry(q, e)
  PROVE  /\ ContextTyped' /\ SessionsQuiet /\ requests[q].step = "ready"
         /\ \E row \in RequestRows :
              /\ Moves(q, row) /\ row.step = "cleared" /\ row.coach = requests[q].coach
              /\ row.coach \in Coaches
              /\ row.role = requests[q].role /\ row.role \in Roles \cup {"coach"} /\ row.on = e
         /\ MayActFor(requests[q].coach, requests[q].role, requests[q].on, e)
<1> DEFINE row == [requests[q] EXCEPT !.step = "cleared", !.session = None, !.on = e]
<1>0. /\ requests[q] \in RequestRows /\ requests[q].step = "ready" /\ requests[q].coach \in Coaches
      /\ requests[q].session \in SessionIds /\ sessions[requests[q].session] \in SessionRows
      /\ requests[q].on \in Entries \cup {None}
  BY DEF EnterForEntry, ContextTyped, RequestTyped
<1>1. /\ row \in RequestRows /\ row.step = "cleared" /\ row.coach = requests[q].coach
      /\ row.role = requests[q].role /\ row.role \in Roles \cup {"coach"} /\ row.on = e
  BY <1>0 DEF RequestRows, Steps
<1>2. requests' = [requests EXCEPT ![q] = row] /\ UNCHANGED <<holder, grants, sessions, credential, resetDone>>
  BY DEF EnterForEntry
<1>4. MayActFor(requests[q].coach, requests[q].role, requests[q].on, e)
  BY <1>0 DEF EnterForEntry
<1> HIDE DEF row
<1>3. ContextTyped' /\ SessionsQuiet /\ Moves(q, row)
  BY <1>0, <1>1, <1>2, MovesTyped
<1> QED BY <1>0, <1>1, <1>3, <1>4

LEMMA SeasonClearedTyped ==
  ASSUME ContextTyped, NEW q \in Requests, NEW t \in Seasons, EnterForSeason(q, t)
  PROVE  /\ ContextTyped' /\ SessionsQuiet /\ requests[q].step = "ready"
         /\ \E row \in RequestRows :
              /\ Moves(q, row) /\ row.step = "cleared" /\ row.coach = requests[q].coach
              /\ row.coach \in Coaches
              /\ row.role = requests[q].role /\ row.role \in Roles \cup {"coach"} /\ row.on = t
         /\ requests[q].role # "coach"
         /\ requests[q].role = "admin" \/ CoversSeason(requests[q].coach, requests[q].role, t)
<1> DEFINE row == [requests[q] EXCEPT !.step = "cleared", !.session = None, !.on = t]
<1>0. /\ requests[q] \in RequestRows /\ requests[q].step = "ready" /\ requests[q].coach \in Coaches
      /\ requests[q].session \in SessionIds /\ sessions[requests[q].session] \in SessionRows
      /\ requests[q].on \in Entries \cup {None}
  BY DEF EnterForSeason, ContextTyped, RequestTyped
<1>1. /\ row \in RequestRows /\ row.step = "cleared" /\ row.coach = requests[q].coach
      /\ row.role = requests[q].role /\ row.role \in Roles \cup {"coach"} /\ row.on = t
  BY <1>0 DEF RequestRows, Steps
<1>2. requests' = [requests EXCEPT ![q] = row] /\ UNCHANGED <<holder, grants, sessions, credential, resetDone>>
  BY DEF EnterForSeason
<1>4. /\ requests[q].role # "coach"
      /\ requests[q].role = "admin" \/ CoversSeason(requests[q].coach, requests[q].role, t)
  BY <1>0 DEF EnterForSeason
<1> HIDE DEF row
<1>3. ContextTyped' /\ SessionsQuiet /\ Moves(q, row)
  BY <1>0, <1>1, <1>2, MovesTyped
<1> QED BY <1>0, <1>1, <1>3, <1>4

LEMMA ContextTypedStep == ContextTyped /\ [ContextNext]_contextVars => ContextTyped'
<1> SUFFICES ASSUME ContextTyped, [ContextNext]_contextVars PROVE ContextTyped'
  OBVIOUS
<1>1. CASE GrantStep
  BY <1>1, GrantsTyped
<1>2. CASE SessionStep
  BY <1>2, LoginTyped, RotationTyped, OpeningTyped, ExpiryTyped, ResetTyped, RevocationTyped DEF SessionStep
<1>3. CASE RequestStep
  BY <1>3, ArrivalTyped, RoleTyped, EntryTyped, LogoutTyped, RoleSetTyped, EntrySetTyped, EndingTyped,
     SwitchTyped, RepresentTyped, EntryClearedTyped, SeasonClearedTyped DEF RequestStep
<1>4. CASE UNCHANGED contextVars
  <2>1. UNCHANGED <<holder, grants, sessions, credential, resetDone, requests>>
    BY <1>4 DEF contextVars
  <2> QED BY <2>1, RequestsKeptTyped DEF ContextTyped
<1> QED BY <1>1, <1>2, <1>3, <1>4 DEF ContextNext

-----------------------------------------------------------------------------
(***************************************************************************)
(* Password resets.                                                        *)
(***************************************************************************)
\* A session left alive was opened when its coach's answered resets had been.
ResetInv ==
  \A s \in SessionIds : sessions[s] \in SessionRows /\ sessions[s].live =>
    sessions[s].answered >= resetDone[sessions[s].coach]

LEMMA FirstReset == ContextInit => ResetInv
BY ContextAssumption DEF ContextInit, ResetInv

\* Most steps open no session and answer no reset.
LEMMA QuietReset ==
  ASSUME ResetInv, SessionsQuiet, UNCHANGED resetDone
  PROVE  ResetInv'
BY DEF SessionsQuiet, ResetInv

LEMMA OpeningReset ==
  ASSUME ContextTyped, ResetInv, NEW q \in Requests, NEW s \in SessionIds, OpenSession(q, s)
  PROVE  ResetInv'
<1>1. /\ sessions'[s].coach \in Coaches /\ sessions'[s].answered = resetDone[sessions'[s].coach]
      /\ \A z \in SessionIds : z # s => sessions'[z] = sessions[z]
  BY OpeningTyped
<1>2. UNCHANGED resetDone /\ resetDone \in [Coaches -> Nat]
  BY DEF OpenSession, ContextTyped
<1>3. sessions'[s].answered >= resetDone'[sessions'[s].coach]
  BY <1>1, <1>2
<1> QED BY <1>1, <1>2, <1>3 DEF ResetInv

\* The sessions left by a revocation are other coaches'.
LEMMA RevocationReset ==
  ASSUME ContextTyped, ResetInv, NEW q \in Requests, RevokeAllForCoach(q)
  PROVE  ResetInv'
<1> DEFINE c == requests[q].coach
<1>1. /\ SessionsQuiet
      /\ \A s \in SessionIds : sessions'[s] \in SessionRows /\ sessions'[s].live => sessions'[s].coach # c
      /\ c \in Coaches
      /\ resetDone' = [resetDone EXCEPT ![c] = IF requests[q].credential > @ THEN requests[q].credential ELSE @]
  BY RevocationTyped
<1>2. resetDone \in [Coaches -> Nat]
  BY DEF ContextTyped
<1> HIDE DEF c
<1> SUFFICES ASSUME NEW s \in SessionIds, sessions'[s] \in SessionRows, sessions'[s].live
             PROVE  sessions'[s].answered >= resetDone'[sessions'[s].coach]
  BY DEF ResetInv
<1>3. /\ sessions[s] \in SessionRows /\ sessions[s].live
      /\ sessions'[s].coach = sessions[s].coach /\ sessions'[s].answered = sessions[s].answered
      /\ sessions'[s].coach # c
  BY <1>1 DEF SessionsQuiet
<1>4. sessions[s].coach \in Coaches
  BY <1>3 DEF SessionRows
<1>5. resetDone'[sessions[s].coach] = resetDone[sessions[s].coach]
  BY <1>1, <1>2, <1>3, <1>4
<1> QED BY <1>3, <1>5 DEF ResetInv

LEMMA ResetStep == ContextTyped /\ ResetInv /\ [ContextNext]_contextVars => ResetInv'
<1> SUFFICES ASSUME ContextTyped, ResetInv, [ContextNext]_contextVars PROVE ResetInv'
  OBVIOUS
<1>1. CASE GrantStep
  <2>1. UNCHANGED <<sessions, resetDone>>
    BY <1>1, GrantsTyped DEF GrantStepOf
  <2> QED BY <2>1, QuietReset DEF SessionsQuiet
<1>2. CASE \E s \in SessionIds : Expire(s)
  <2>1. SessionsQuiet /\ UNCHANGED resetDone
    BY <1>2, ExpiryTyped
  <2> QED BY <2>1, QuietReset
<1>3. CASE \E q \in Requests, s \in SessionIds : OpenSession(q, s)
  BY <1>3, OpeningReset
<1>4. CASE \E q \in Requests, c \in Coaches : ResetPassword(q, c)
  <2>1. SessionsQuiet /\ UNCHANGED resetDone
    BY <1>4, ResetTyped DEF ResetPassword, SessionsQuiet
  <2> QED BY <2>1, QuietReset
<1>5. CASE \E q \in Requests : RevokeAllForCoach(q)
  BY <1>5, RevocationReset
<1>6. CASE \E q \in Requests : RotateSession(q) \/ \E c \in WithLogin, s \in SessionIds \cup {None} : VerifyLogin(q, c, s)
  <2>1. SessionsQuiet /\ \E q \in Requests, row \in RequestRows : Moves(q, row)
    BY <1>6, RotationTyped, LoginTyped
  <2> QED BY <2>1, QuietReset DEF Moves
<1>7. CASE RequestStep
  <2>1. SessionsQuiet /\ \E q \in Requests, row \in RequestRows : Moves(q, row)
    <3>1. CASE \E q \in Requests, s \in SessionIds : Arrive(q, s)
      BY <3>1, ArrivalTyped DEF Passing
    <3>2. CASE \E q \in Requests : ResolveActiveRole(q) \/ ResolveRepresentedEntry(q)
      BY <3>2, RoleTyped, EntryTyped
    <3>3. CASE \E q \in Requests : Logout(q) \/ SetActiveRole(q) \/ SetRepresentedEntry(q) \/ EndRequest(q)
      BY <3>3, LogoutTyped, RoleSetTyped, EntrySetTyped, EndingTyped, IdleTyped
    <3>4. CASE \E q \in Requests, r \in Roles \cup {"coach"} : ActivateRole(q, r)
      BY <3>4, SwitchTyped DEF Passing
    <3>5. CASE \E q \in Requests, e \in Entries \cup {None} : Represent(q, e)
      BY <3>5, RepresentTyped DEF Passing
    <3>6. CASE \E q \in Requests, e \in Entries : EnterForEntry(q, e)
      BY <3>6, EntryClearedTyped
    <3>7. CASE \E q \in Requests, t \in Seasons : EnterForSeason(q, t)
      BY <3>7, SeasonClearedTyped
    <3> QED BY <1>7, <3>1, <3>2, <3>3, <3>4, <3>5, <3>6, <3>7 DEF RequestStep
  <2> QED BY <2>1, QuietReset DEF Moves
<1>8. CASE UNCHANGED contextVars
  <2>1. UNCHANGED <<sessions, resetDone>>
    BY <1>8 DEF contextVars
  <2> QED BY <2>1, QuietReset DEF SessionsQuiet
<1> QED BY <1>1, <1>2, <1>3, <1>4, <1>5, <1>6, <1>7, <1>8 DEF ContextNext, SessionStep

\* Once a password reset has been answered, no session open before it is left,
\* whatever the number of coaches, sessions, requests and resets, and however
\* logins and their rotations fall between a reset's two transactions.
THEOREM AnsweredResetsEndSessions == ContextSpec => []ResetsEndSessions
<1>1. ContextInit => ContextTyped /\ ResetInv
  BY FirstTyped, FirstReset
<1>2. ContextTyped /\ ResetInv /\ [ContextNext]_contextVars => (ContextTyped /\ ResetInv)'
  BY ContextTypedStep, ResetStep
<1>3. ContextTyped /\ ResetInv => ResetsEndSessions
  <2> SUFFICES ASSUME ContextTyped, ResetInv, NEW s \in SessionIds, Live(s)
               PROVE  sessions[s].answered >= resetDone[sessions[s].coach]
    BY DEF ResetsEndSessions
  <2>1. sessions[s] \in SessionRows /\ sessions[s].live
    BY DEF Live, ContextTyped
  <2> QED BY <2>1 DEF ResetInv
<1> QED BY <1>1, <1>2, <1>3, PTL DEF ContextSpec
-----------------------------------------------------------------------------
(***************************************************************************)
(* Authority.                                                              *)
(***************************************************************************)
Observed == {"session", "role", "ready", "cleared"}

ActsWithin(q) == requests[q].step = "cleared" =>
  LET r == requests[q].role
      x == requests[q].on
  IN  (IF r = "coach" \/ x \in Seasons THEN <<r, x>> ELSE <<r, SeasonOf[x]>>) \in seen[q]

\* An administrator whose role was read had it in every season, and an entry is
\* represented only by one whose role covered its season: so the checks that
\* come later, and look at the row alone, find what was seen.
RightsOf(q) ==
  /\ requests[q].step \in {"role", "ready"} /\ requests[q].role = "admin" =>
       \A t \in Seasons : <<"admin", t>> \in seen[q]
  /\ requests[q].step = "ready" /\ requests[q].on # None =>
       <<requests[q].role, SeasonOf[requests[q].on]>> \in seen[q]
  /\ ActsWithin(q)

AdminsEverywhere ==
  \A g \in GrantIds : grants[g] # None /\ grants[g].role = "admin" => grants[g].scope = AllSeasons

Rights == AdminsEverywhere /\ \A q \in Requests : RightsOf(q)

LEMMA CoverageIsAuthority ==
  ASSUME NEW c \in Coaches, NEW r \in Roles, NEW t \in Seasons, CoversSeason(c, r, t)
  PROVE  <<r, t>> \in Authority[c]
<1>1. <<r, t>> \in {a \in Roles \X Seasons : CoversSeason(c, a[1], a[2])}
  OBVIOUS
<1> QED BY <1>1 DEF Authority

LEMMA HoldingIsAuthority ==
  ASSUME NEW c \in Coaches, NEW e \in Entries, holder[e] = c
  PROVE  <<"coach", e>> \in Authority[c]
BY DEF Authority

LEMMA FirstRights == ContextInit => Rights
<1> SUFFICES ASSUME ContextInit PROVE Rights
  OBVIOUS
<1>1. \A q \in Requests : requests[q].step = "idle"
  BY DEF ContextInit, Idle
<1>2. AdminsEverywhere
  BY DEF ContextInit, AdminsEverywhere
<1> QED BY <1>1, <1>2 DEF Rights, RightsOf, ActsWithin

\* What is observed of a request only grows while it is served.
LEMMA ObservationGrows ==
  ASSUME Observe, NEW q \in Requests, requests'[q].step \in Observed
  PROVE  seen'[q] = seen[q] \cup Authority'[requests'[q].coach]
BY DEF Observe, Observed

LEMMA KeptRights ==
  ASSUME Observe, NEW q \in Requests, requests'[q] = requests[q], RightsOf(q)
  PROVE  RightsOf(q)'
<1>1. requests[q].step \in Observed => seen[q] \subseteq seen'[q]
  BY ObservationGrows
<1> QED BY <1>1 DEF RightsOf, ActsWithin, Observed

LEMMA PassingRights ==
  ASSUME NEW q \in Requests, requests'[q].step \in Passing \cup {"resetting"}
  PROVE  RightsOf(q)'
BY DEF RightsOf, ActsWithin, Passing

LEMMA GrantsRights ==
  ASSUME ContextTyped, Rights, GrantStep
  PROVE  AdminsEverywhere'
<1>1. ASSUME NEW g \in GrantIds, NEW c \in Coaches, NEW r \in Roles, NEW scope \in Seasons \cup {AllSeasons},
             Grant(g, c, r, scope)
      PROVE  AdminsEverywhere'
  <2>1. /\ r = "admin" => scope = AllSeasons
        /\ grants' = [grants EXCEPT ![g] = [coach |-> c, role |-> r, scope |-> scope]]
    BY <1>1 DEF Grant, Grantable
  <2>2. grants'[g].role = r /\ grants'[g].scope = scope /\ \A h \in GrantIds : h # g => grants'[h] = grants[h]
    BY <2>1 DEF ContextTyped
  <2> QED BY <2>1, <2>2 DEF Rights, AdminsEverywhere
<1>2. ASSUME NEW g \in GrantIds, Revoke(g)
      PROVE  AdminsEverywhere'
  <2>1. grants'[g] = None /\ \A h \in GrantIds : h # g => grants'[h] = grants[h]
    BY <1>2 DEF Revoke, ContextTyped
  <2> QED BY <2>1 DEF Rights, AdminsEverywhere
<1>3. ASSUME NEW e \in Entries, NEW c \in Coaches, TransferEntry(e, c)
      PROVE  AdminsEverywhere'
  BY <1>3 DEF TransferEntry, Rights, AdminsEverywhere
<1> QED BY <1>1, <1>2, <1>3 DEF GrantStep

\* A request of q's: only q's own rights are in question.
LEMMA MoveRights ==
  ASSUME Rights, Observe, NEW q \in Requests, NEW row, Moves(q, row), RightsOf(q)'
  PROVE  Rights'
<1>1. AdminsEverywhere'
  BY DEF Rights, AdminsEverywhere, Moves
<1>2. ASSUME NEW p \in Requests, p # q PROVE RightsOf(p)'
  BY <1>2, KeptRights DEF Moves, Rights
<1> QED BY <1>1, <1>2 DEF Rights

LEMMA PassingStep ==
  ASSUME Rights, Observe, NEW q \in Requests, NEW row, Moves(q, row), row.step \in Passing
  PROVE  Rights'
<1>1. RightsOf(q)'
  BY PassingRights DEF Moves
<1> QED BY <1>1, MoveRights

\* Authority is what the grants and the holders give: a step that leaves both
\* alone leaves it alone.
LEMMA SameAuthority ==
  ASSUME UNCHANGED <<holder, grants>>
  PROVE  Authority' = Authority
BY DEF Authority, CoversSeason

LEMMA RoleRights ==
  ASSUME ContextTyped, Rights, Observe, NEW q \in Requests, ResolveActiveRole(q)
  PROVE  Rights'
<1>1. PICK row \in RequestRows :
        /\ Moves(q, row) /\ row.step = "role" /\ row.coach \in Coaches
        /\ row.role \in Roles \cup {"coach"}
        /\ row.role = "coach" \/ GrantedTo(row.coach, row.role)
  BY RoleTyped
<1>2. seen'[q] = seen[q] \cup Authority[row.coach]
  <2>1. Authority' = Authority /\ requests'[q] = row
    BY <1>1, SameAuthority DEF Moves
  <2> QED BY <1>1, <2>1, ObservationGrows DEF Observed
<1>3. ASSUME row.role = "admin", NEW t \in Seasons PROVE <<"admin", t>> \in seen'[q]
  <2>1. PICK g \in GrantIds : grants[g] # None /\ grants[g].coach = row.coach /\ grants[g].role = "admin"
    BY <1>1, <1>3 DEF GrantedTo
  <2>2. CoversSeason(row.coach, "admin", t)
    BY <2>1 DEF CoversSeason, Rights, AdminsEverywhere
  <2>3. "admin" \in Roles
    BY <1>1, <1>3
  <2> QED BY <1>1, <1>2, <2>2, <2>3, CoverageIsAuthority
<1>4. RightsOf(q)'
  BY <1>1, <1>3 DEF RightsOf, ActsWithin, Moves
<1> QED BY <1>1, <1>4, MoveRights

LEMMA EntryRights ==
  ASSUME ContextTyped, Rights, Observe, NEW q \in Requests, ResolveRepresentedEntry(q)
  PROVE  Rights'
<1>1. PICK row \in RequestRows :
        /\ Moves(q, row) /\ row.step = "ready" /\ row.coach \in Coaches
        /\ row.role = requests[q].role /\ row.role \in Roles \cup {"coach"}
        /\ row.on \in Entries \cup {None}
        /\ row.on # None => CanRepresent(row.coach, row.role, row.on)
  BY EntryTyped
<1>2. seen'[q] = seen[q] \cup Authority[row.coach]
  <2>1. Authority' = Authority /\ requests'[q] = row
    BY <1>1, SameAuthority DEF Moves
  <2> QED BY <1>1, <2>1, ObservationGrows DEF Observed
<1>3. row.role = "admin" => \A t \in Seasons : <<"admin", t>> \in seen'[q]
  <2>1. requests[q].step = "role"
    BY EntryTyped
  <2> QED BY <1>1, <1>2, <2>1 DEF Rights, RightsOf
<1>4. ASSUME row.on # None PROVE <<row.role, SeasonOf[row.on]>> \in seen'[q]
  <2>1. row.on \in Entries /\ row.role # "coach" /\ CoversSeason(row.coach, row.role, SeasonOf[row.on])
    BY <1>1, <1>4 DEF CanRepresent
  <2>2. SeasonOf[row.on] \in Seasons /\ row.role \in Roles
    BY <1>1, <2>1, ContextAssumption
  <2> QED BY <1>1, <1>2, <2>1, <2>2, CoverageIsAuthority
<1>5. RightsOf(q)'
  BY <1>1, <1>3, <1>4 DEF RightsOf, ActsWithin, Moves
<1> QED BY <1>1, <1>5, MoveRights

LEMMA EntryClearedRights ==
  ASSUME ContextTyped, Rights, Observe, NEW q \in Requests, NEW e \in Entries, EnterForEntry(q, e)
  PROVE  Rights'
<1>1. PICK row \in RequestRows :
        /\ Moves(q, row) /\ row.step = "cleared" /\ row.coach = requests[q].coach /\ row.coach \in Coaches
        /\ row.role = requests[q].role /\ row.role \in Roles \cup {"coach"} /\ row.on = e
        /\ MayActFor(requests[q].coach, requests[q].role, requests[q].on, e)
  BY EntryClearedTyped
<1>2. seen'[q] = seen[q] \cup Authority[row.coach]
  <2>1. Authority' = Authority /\ requests'[q] = row
    BY <1>1, SameAuthority DEF Moves
  <2> QED BY <1>1, <2>1, ObservationGrows DEF Observed
<1>3. e \notin Seasons /\ e # None
  BY ContextAssumption
<1>4. CASE row.role = "coach"
  <2>1. <<"coach", e>> \in seen'[q]
    BY <1>1, <1>2, <1>4, HoldingIsAuthority DEF MayActFor
  <2>2. RightsOf(q)'
    BY <1>1, <1>4, <2>1 DEF RightsOf, ActsWithin, Moves
  <2> QED BY <1>1, <2>2, MoveRights
<1>5. CASE row.role # "coach"
  <2>1. requests[q].step = "ready" /\ requests[q].on = e
    BY <1>1, <1>5, EntryClearedTyped DEF MayActFor
  <2>2. <<row.role, SeasonOf[e]>> \in seen'[q]
    BY <1>1, <1>2, <1>3, <2>1 DEF Rights, RightsOf
  <2>3. RightsOf(q)'
    BY <1>1, <1>3, <1>5, <2>2 DEF RightsOf, ActsWithin, Moves
  <2> QED BY <1>1, <2>3, MoveRights
<1> QED BY <1>4, <1>5

LEMMA SeasonClearedRights ==
  ASSUME ContextTyped, Rights, Observe, NEW q \in Requests, NEW t \in Seasons, EnterForSeason(q, t)
  PROVE  Rights'
<1>1. PICK row \in RequestRows :
        /\ Moves(q, row) /\ row.step = "cleared" /\ row.coach = requests[q].coach /\ row.coach \in Coaches
        /\ row.role = requests[q].role /\ row.role \in Roles \cup {"coach"} /\ row.on = t
        /\ requests[q].role # "coach"
        /\ requests[q].role = "admin" \/ CoversSeason(requests[q].coach, requests[q].role, t)
  BY SeasonClearedTyped
<1>2. seen'[q] = seen[q] \cup Authority[row.coach]
  <2>1. Authority' = Authority /\ requests'[q] = row
    BY <1>1, SameAuthority DEF Moves
  <2> QED BY <1>1, <2>1, ObservationGrows DEF Observed
<1>3. <<row.role, t>> \in seen'[q]
  <2>1. CASE row.role = "admin"
    <3>1. requests[q].step = "ready"
      BY SeasonClearedTyped
    <3> QED BY <1>1, <1>2, <2>1, <3>1 DEF Rights, RightsOf
  <2>2. CASE row.role # "admin"
    BY <1>1, <1>2, <2>2, CoverageIsAuthority
  <2> QED BY <2>1, <2>2
<1>4. RightsOf(q)'
  BY <1>1, <1>3 DEF RightsOf, ActsWithin, Moves
<1> QED BY <1>1, <1>4, MoveRights

\* No step of a session, a reset included, bears on a request's authority.
LEMMA SessionRights ==
  ASSUME ContextTyped, Rights, Observe, SessionStep
  PROVE  Rights'
<1>1. CASE \E q \in Requests : RotateSession(q) \/ RevokeAllForCoach(q)
            \/ (\E c \in WithLogin, s \in SessionIds \cup {None} : VerifyLogin(q, c, s))
            \/ \E s \in SessionIds : OpenSession(q, s)
  <2>1. PICK q \in Requests : \/ \E row \in RequestRows : (Moves(q, row) /\ row.step \in Passing)
                              \/ RevokeAllForCoach(q)
    BY <1>1, RotationTyped, LoginTyped, OpeningTyped, IdleTyped DEF Passing
  <2>2. CASE RevokeAllForCoach(q)
    <3>1. requests'[q] = Idle /\ UNCHANGED grants /\ \A p \in Requests : p # q => requests'[p] = requests[p]
      BY <2>2, RevocationTyped
    <3>2. \A p \in Requests : RightsOf(p)'
      BY <3>1, IdleTyped, KeptRights, PassingRights DEF Rights, Passing
    <3> QED BY <3>1, <3>2 DEF Rights, AdminsEverywhere
  <2> QED BY <2>1, <2>2, PassingStep
<1>2. CASE \E s \in SessionIds : Expire(s)
  <2>1. UNCHANGED <<grants, requests>>
    BY <1>2, ExpiryTyped
  <2>2. \A p \in Requests : RightsOf(p)'
    BY <2>1, KeptRights DEF Rights
  <2> QED BY <2>1, <2>2 DEF Rights, AdminsEverywhere
<1>3. CASE \E q \in Requests, c \in Coaches : ResetPassword(q, c)
  <2>1. PICK q \in Requests : /\ UNCHANGED grants /\ requests'[q].step = "resetting"
                              /\ \A p \in Requests : p # q => requests'[p] = requests[p]
    BY <1>3, ResetTyped
  <2>2. \A p \in Requests : RightsOf(p)'
    BY <2>1, KeptRights, PassingRights DEF Rights
  <2> QED BY <2>1, <2>2 DEF Rights, AdminsEverywhere
<1> QED BY <1>1, <1>2, <1>3 DEF SessionStep

LEMMA RequestRights ==
  ASSUME ContextTyped, Rights, Observe, RequestStep
  PROVE  Rights'
<1>1. CASE \E q \in Requests, s \in SessionIds : Arrive(q, s)
  BY <1>1, ArrivalTyped, PassingStep
<1>2. CASE \E q \in Requests : ResolveActiveRole(q) \/ ResolveRepresentedEntry(q)
  BY <1>2, RoleRights, EntryRights
<1>3. CASE \E q \in Requests : Logout(q) \/ SetActiveRole(q) \/ SetRepresentedEntry(q) \/ EndRequest(q)
  <2>1. PICK q \in Requests : Moves(q, Idle)
    BY <1>3, LogoutTyped, RoleSetTyped, EntrySetTyped, EndingTyped
  <2> QED BY <2>1, IdleTyped, PassingStep DEF Passing
<1>4. CASE \E q \in Requests, r \in Roles \cup {"coach"} : ActivateRole(q, r)
  BY <1>4, SwitchTyped, PassingStep
<1>5. CASE \E q \in Requests, e \in Entries \cup {None} : Represent(q, e)
  BY <1>5, RepresentTyped, PassingStep
<1>6. CASE \E q \in Requests, e \in Entries : EnterForEntry(q, e)
  BY <1>6, EntryClearedRights
<1>7. CASE \E q \in Requests, t \in Seasons : EnterForSeason(q, t)
  BY <1>7, SeasonClearedRights
<1> QED BY <1>1, <1>2, <1>3, <1>4, <1>5, <1>6, <1>7 DEF RequestStep

LEMMA RightsStep == ContextTyped /\ Rights /\ [ContextNext]_contextVars => Rights'
<1> SUFFICES ASSUME ContextTyped, Rights, [ContextNext]_contextVars PROVE Rights'
  OBVIOUS
<1>1. CASE GrantStep /\ Observe
  <2>1. UNCHANGED requests
    BY <1>1, GrantsTyped DEF GrantStepOf
  <2>2. \A p \in Requests : RightsOf(p)'
    BY <1>1, <2>1, KeptRights DEF Rights
  <2> QED BY <1>1, <2>2, GrantsRights DEF Rights
<1>2. CASE (SessionStep \/ RequestStep) /\ Observe
  BY <1>2, SessionRights, RequestRights
<1>3. CASE UNCHANGED contextVars
  BY <1>3 DEF contextVars, Rights, AdminsEverywhere, RightsOf, ActsWithin
<1> QED BY <1>1, <1>2, <1>3 DEF ContextNext

\* A request that has passed its route's checks had, at some moment since it
\* came, the authority it acts with, for any coaches, roles and seasons and
\* whatever is granted, revoked, transferred or switched between its reads.
THEOREM RequestsActWithinAuthority == ContextSpec => []ActsWithinAuthority
<1>1. ContextInit => ContextTyped /\ Rights
  BY FirstTyped, FirstRights
<1>2. ContextTyped /\ Rights /\ [ContextNext]_contextVars => (ContextTyped /\ Rights)'
  BY ContextTypedStep, RightsStep
<1>3. ContextTyped /\ Rights => ActsWithinAuthority
  BY DEF Rights, RightsOf, ActsWithin, ActsWithinAuthority
<1> QED BY <1>1, <1>2, <1>3, PTL DEF ContextSpec
-----------------------------------------------------------------------------
(***************************************************************************)
(* Provisional players.                                                    *)
(***************************************************************************)
\* The pool's rows; a row that was reconciled has taken its canonical player's
\* place, and a player who is not in the pool was not reconciled.
PoolTyped ==
  /\ pool \in SUBSET Rows
  /\ canonical \in [Provisionals -> Canonicals \cup {NoCanonical}]
  /\ candidate \in [Pairs -> {"none", "pending", "rejected"}]
  /\ \A v \in Provisionals : canonical[v] \notin pool
  /\ \A v \in Provisionals : v \notin pool => canonical[v] = NoCanonical

\* What an unresolved match refers to; it always promises to give back.
MatchesHeld ==
  \A v \in Provisionals, c \in Canonicals : candidate[<<v, c>>] = "pending" =>
    <<v, c>> \in restore /\ v \in Provisional /\ RowsOf(c) # {}

Exact(rows, ok) == \A c \in Canonicals : \A r \in RowsIn(rows, c) : r \in ok <=> PendingOn(c) = {}

QuarantineInv == PoolTyped /\ MatchesHeld /\ QuarantineIsExact

LEMMA ExactIs == QuarantineIsExact <=> Exact(pool, eligible)
BY DEF QuarantineIsExact, Exact, RowsOf

LEMMA PairsAre == \A m \in Pairs : m[1] \in Provisionals /\ m[2] \in Canonicals /\ m = <<m[1], m[2]>>
BY DEF Pairs

LEMMA PairsHave == \A v \in Provisionals, c \in Canonicals : <<v, c>> \in Pairs
BY DEF Pairs

LEMMA RowsApart ==
  ASSUME NEW rows, NEW c \in Canonicals, NEW d \in Canonicals, NEW r \in RowsIn(rows, c), r \in RowsIn(rows, d)
  PROVE  c = d
BY IdentityAssumption DEF RowsIn

LEMMA ProvisionalIsNoRow ==
  ASSUME NEW rows, NEW c \in Canonicals, NEW v \in Provisionals, canonical[v] = NoCanonical
  PROVE  v \notin RowsIn(rows, c)
BY IdentityAssumption DEF RowsIn

LEMMA RestoredIs ==
  ASSUME NEW ms, NEW r
  PROVE  r \in Restored(ms) <=>
           \/ r \in eligible /\ \A m \in ms : r \notin RowsOf(m[2])
           \/ \E m \in ms : m \in restore /\ r \in RowsOf(m[2])
BY DEF Restored

-----------------------------------------------------------------------------
(***************************************************************************)
(* Detection keeps the quarantine exact.                                    *)
(***************************************************************************)
LEMMA DetectionIsExact ==
  ASSUME PoolTyped, MatchesHeld, NEW rows, NEW ok, Exact(rows, ok), NEW found \in SUBSET Pairs,
         \A m \in found : RowsIn(rows, m[2]) # {} /\ candidate[m] = "none" /\ canonical[m[1]] = NoCanonical,
         Detect(found, rows, ok)
  PROVE  /\ candidate' \in [Pairs -> {"none", "pending", "rejected"}]
         /\ \A m \in Pairs : candidate'[m] = IF m \in found THEN "pending" ELSE candidate[m]
         /\ restore \subseteq restore' /\ found \subseteq restore'
         /\ \A c \in Canonicals : \A r \in RowsIn(rows, c) :
              r \in ok /\ r \notin Quarantined(found, rows) <=> PendingOn(c)' = {}
<1>1. candidate' = [m \in Pairs |-> IF m \in found THEN "pending" ELSE candidate[m]]
  BY DEF Detect
<1>2. \A m \in Pairs : candidate'[m] = IF m \in found THEN "pending" ELSE candidate[m]
  BY <1>1
<1>3. candidate' \in [Pairs -> {"none", "pending", "rejected"}]
  BY <1>1 DEF PoolTyped
<1>4. ASSUME NEW m \in found PROVE m \in restore'
  <2>1. restore' = restore \cup RestoreFlags(found, rows, ok)
    BY DEF Detect
  <2>2. m[1] \in Provisionals /\ m[2] \in Canonicals /\ RowsIn(rows, m[2]) # {}
    BY PairsAre
  <2>3. CASE PendingOn(m[2]) # {}
    <3>1. \E v \in PendingOn(m[2]) : <<v, m[2]>> \in restore
      BY <2>2, <2>3 DEF MatchesHeld, PendingOn
    <3> QED BY <2>1, <2>3, <3>1 DEF RestoreFlags
  <2>4. CASE PendingOn(m[2]) = {}
    <3>1. RowsIn(rows, m[2]) \cap ok # {}
      BY <2>2, <2>4 DEF Exact
    <3> QED BY <2>1, <2>4, <3>1 DEF RestoreFlags
  <2> QED BY <2>3, <2>4
<1>5. ASSUME NEW c \in Canonicals, NEW r \in RowsIn(rows, c)
      PROVE  r \in ok /\ r \notin Quarantined(found, rows) <=> PendingOn(c)' = {}
  <2>1. r \in ok <=> PendingOn(c) = {}
    BY DEF Exact
  <2>2. r \in Quarantined(found, rows) <=> \E m \in found : m[2] = c
    <3>1. \A m \in found : m[1] # r
      BY PairsAre, ProvisionalIsNoRow
    <3>2. \A m \in found : r \in RowsIn(rows, m[2]) <=> m[2] = c
      BY PairsAre, RowsApart
    <3> QED BY <3>1, <3>2 DEF Quarantined, QuarantinedTargets
  <2>3. PendingOn(c)' = {} <=> PendingOn(c) = {} /\ ~\E m \in found : m[2] = c
    <3>1. \A v \in Provisionals : v \in PendingOn(c)' <=> v \in PendingOn(c) \/ <<v, c>> \in found
      BY <1>2, PairsHave DEF PendingOn
    <3>2. (\E m \in found : m[2] = c) <=> \E v \in Provisionals : <<v, c>> \in found
      BY PairsAre
    <3>3. PendingOn(c) \subseteq Provisionals /\ PendingOn(c)' \subseteq Provisionals
      BY DEF PendingOn
    <3> QED BY <3>1, <3>2, <3>3
  <2> QED BY <2>1, <2>2, <2>3
<1> QED BY <1>2, <1>3, <1>4, <1>5 DEF Detect

-----------------------------------------------------------------------------
LEMMA QuarantineInit == Init => QuarantineInv
BY IdentityAssumption DEF Init, QuarantineInv, PoolTyped, MatchesHeld, QuarantineIsExact, Pairs, RowsOf, RowsIn

LEMMA SamePool ==
  ASSUME QuarantineInv, UNCHANGED <<pool, canonical, candidate, eligible, restore>>
  PROVE  QuarantineInv'
BY DEF QuarantineInv, PoolTyped, MatchesHeld, QuarantineIsExact, RowsOf, RowsIn, PendingOn, Provisional

LEMMA CreateKeeps ==
  ASSUME QuarantineInv, NEW v \in Provisionals, NEW agree \in SUBSET Pairs, Create(v, agree)
  PROVE  QuarantineInv'
<1> DEFINE rows == pool \cup {v}
           found == Found({v}, agree, rows)
<1>1. PoolTyped /\ MatchesHeld /\ QuarantineIsExact
  BY DEF QuarantineInv
<1>2. /\ v \notin pool /\ canonical[v] = NoCanonical /\ pool' = rows /\ canonical' = canonical
      /\ Detect(found, rows, eligible) /\ eligible' = (eligible \cup {v}) \ Quarantined(found, rows)
  BY <1>1 DEF Create, PoolTyped
<1>3. \A c : RowsIn(rows, c) = RowsIn(pool, c) \cup {r \in {v} : r = c \/ canonical[r] = c}
  BY DEF RowsIn
<1>4. \A c \in Canonicals : RowsIn(rows, c) = RowsIn(pool, c)
  BY <1>2, <1>3, IdentityAssumption
<1>5. Exact(rows, eligible)
  BY <1>1, <1>4, ExactIs DEF Exact
<1>6. found \in SUBSET Pairs /\ \A m \in found : RowsIn(rows, m[2]) # {} /\ candidate[m] = "none" /\ m[1] = v
  BY DEF Found
<1> HIDE DEF rows, found
<1>7. /\ candidate' \in [Pairs -> {"none", "pending", "rejected"}]
      /\ \A m \in Pairs : candidate'[m] = IF m \in found THEN "pending" ELSE candidate[m]
      /\ restore \subseteq restore' /\ found \subseteq restore'
      /\ \A c \in Canonicals : \A r \in RowsIn(rows, c) :
           r \in eligible /\ r \notin Quarantined(found, rows) <=> PendingOn(c)' = {}
  BY <1>1, <1>2, <1>5, <1>6, DetectionIsExact
<1>8. PoolTyped'
  BY <1>1, <1>2, <1>7, IdentityAssumption DEF PoolTyped, Rows, rows
<1>9. \A c \in Canonicals : RowsOf(c)' = RowsIn(rows, c) /\ RowsOf(c) = RowsIn(rows, c)
  BY <1>2, <1>4 DEF RowsOf, RowsIn
<1>10. Provisional \subseteq Provisional' /\ v \in Provisional'
  BY <1>2 DEF Provisional, rows
<1>11. MatchesHeld'
  <2> SUFFICES ASSUME NEW w \in Provisionals, NEW c \in Canonicals, candidate'[<<w, c>>] = "pending"
               PROVE  <<w, c>> \in restore' /\ w \in Provisional' /\ RowsOf(c)' # {}
    BY DEF MatchesHeld
  <2>1. CASE <<w, c>> \in found
    BY <1>6, <1>7, <1>9, <1>10, <2>1
  <2>2. CASE <<w, c>> \notin found
    BY <1>1, <1>7, <1>9, <1>10, <2>2, PairsHave DEF MatchesHeld
  <2> QED BY <2>1, <2>2
<1>12. QuarantineIsExact'
  <2> SUFFICES ASSUME NEW c \in Canonicals, NEW r \in RowsIn(rows, c)
               PROVE  r \in eligible' <=> PendingOn(c)' = {}
    BY <1>9 DEF QuarantineIsExact
  <2>1. r # v
    BY <1>2, <1>4, ProvisionalIsNoRow
  <2> QED BY <1>2, <1>7, <2>1
<1> QED BY <1>8, <1>11, <1>12 DEF QuarantineInv

LEMMA RefreshKeeps ==
  ASSUME QuarantineInv, NEW new \in SUBSET Canonicals, NEW agree \in SUBSET Pairs, Refresh(new, agree)
  PROVE  QuarantineInv'
<1> DEFINE rows == pool \cup new
           ok == eligible \cup new
           found == Found(Provisional, agree, rows)
<1>1. PoolTyped /\ MatchesHeld /\ QuarantineIsExact
  BY DEF QuarantineInv
<1>2. /\ \A c \in new : RowsOf(c) = {}
      /\ pool' = rows /\ canonical' = canonical /\ Detect(found, rows, ok)
      /\ \A r : r \notin Provisional => (r \in eligible' <=> r \in ok /\ r \notin Quarantined(found, rows))
  BY DEF Refresh, Imports
<1>3. \A c \in Canonicals : RowsIn(rows, c) = RowsOf(c) \cup ({c} \cap new)
  BY IdentityAssumption DEF RowsIn, RowsOf
<1>4. \A c \in new : PendingOn(c) = {}
  BY <1>1, <1>2 DEF MatchesHeld, PendingOn
<1>5. ASSUME NEW c \in Canonicals, NEW r \in RowsIn(rows, c) PROVE r \in ok <=> PendingOn(c) = {}
  <2>1. CASE r \in RowsOf(c)
    <3>1. r \notin new
      BY <1>2, <2>1, IdentityAssumption DEF RowsOf, RowsIn
    <3> QED BY <1>1, <2>1, <3>1 DEF QuarantineIsExact
  <2>2. CASE r = c /\ c \in new
    BY <1>4, <2>2
  <2> QED BY <1>3, <2>1, <2>2
<1>6. Exact(rows, ok)
  BY <1>5 DEF Exact
<1>7. /\ found \in SUBSET Pairs
      /\ \A m \in found : RowsIn(rows, m[2]) # {} /\ candidate[m] = "none" /\ m[1] \in Provisional
  BY DEF Found
<1>8. \A m \in found : canonical[m[1]] = NoCanonical
  BY <1>7 DEF Provisional
<1> HIDE DEF rows, ok, found
<1>9. /\ candidate' \in [Pairs -> {"none", "pending", "rejected"}]
      /\ \A m \in Pairs : candidate'[m] = IF m \in found THEN "pending" ELSE candidate[m]
      /\ restore \subseteq restore' /\ found \subseteq restore'
      /\ \A c \in Canonicals : \A r \in RowsIn(rows, c) :
           r \in ok /\ r \notin Quarantined(found, rows) <=> PendingOn(c)' = {}
  BY <1>1, <1>2, <1>6, <1>7, <1>8, DetectionIsExact
<1>10. PoolTyped'
  <2>1. ASSUME NEW v \in Provisionals PROVE canonical[v] \notin new
    <3>1. canonical[v] \in new => v \in pool
      BY <1>1, IdentityAssumption DEF PoolTyped
    <3> QED BY <1>2, <3>1 DEF RowsOf, RowsIn
  <2> QED BY <1>1, <1>2, <1>9, <2>1 DEF PoolTyped, Rows, rows
<1>11. \A c \in Canonicals : RowsOf(c)' = RowsIn(rows, c) /\ (RowsOf(c) # {} => RowsIn(rows, c) # {})
  BY <1>2, <1>3 DEF RowsOf, RowsIn, rows
<1>12. Provisional' = Provisional
  BY <1>2, IdentityAssumption DEF Provisional, rows
<1>13. MatchesHeld'
  <2> SUFFICES ASSUME NEW w \in Provisionals, NEW c \in Canonicals, candidate'[<<w, c>>] = "pending"
               PROVE  <<w, c>> \in restore' /\ w \in Provisional' /\ RowsOf(c)' # {}
    BY DEF MatchesHeld
  <2>1. CASE <<w, c>> \in found
    BY <1>7, <1>9, <1>11, <1>12, <2>1
  <2>2. CASE <<w, c>> \notin found
    BY <1>1, <1>9, <1>11, <1>12, <2>2, PairsHave DEF MatchesHeld
  <2> QED BY <2>1, <2>2
<1>14. QuarantineIsExact'
  <2> SUFFICES ASSUME NEW c \in Canonicals, NEW r \in RowsIn(rows, c)
               PROVE  r \in eligible' <=> PendingOn(c)' = {}
    BY <1>11 DEF QuarantineIsExact
  <2>1. r \notin Provisional
    BY ProvisionalIsNoRow DEF Provisional
  <2> QED BY <1>2, <1>9, <2>1
<1> QED BY <1>10, <1>13, <1>14 DEF QuarantineInv

-----------------------------------------------------------------------------
(***************************************************************************)
(* Resolving a match keeps it exact.                                        *)
(***************************************************************************)
LEMMA ReleasesAre ==
  ASSUME NEW v, NEW cs, NEW m
  PROVE  m \in Releases(v, cs) <=> \E c \in cs : m = <<v, c>> /\ ~OthersPending(v, c)
BY DEF Releases

LEMMA RejectKeeps ==
  ASSUME QuarantineInv, NEW v \in Provisionals, NEW c \in Canonicals, RejectCandidate(v, c)
  PROVE  QuarantineInv'
<1>1. PoolTyped /\ MatchesHeld /\ QuarantineIsExact
  BY DEF QuarantineInv
<1>2. /\ candidate[<<v, c>>] = "pending" /\ candidate' = [candidate EXCEPT ![<<v, c>>] = "rejected"]
      /\ UNCHANGED <<pool, canonical, restore>>
      /\ eligible' = Restored(Releases(v, {c})) \cup {w \in {v} \cap Provisional : ~PendingOwnedMatch(w)}
  BY DEF RejectCandidate
<1>3. \A m \in Pairs : candidate'[m] = IF m = <<v, c>> THEN "rejected" ELSE candidate[m]
  BY <1>1, <1>2, PairsHave DEF PoolTyped
<1>4. PoolTyped'
  BY <1>1, <1>2 DEF PoolTyped
<1>5. \A d : RowsOf(d)' = RowsOf(d)
  BY <1>2 DEF RowsOf, RowsIn
<1>6. Provisional' = Provisional
  BY <1>2 DEF Provisional
<1>7. MatchesHeld'
  BY <1>1, <1>2, <1>3, <1>5, <1>6, PairsHave DEF MatchesHeld
<1>8. \A d \in Canonicals : PendingOn(d)' = IF d = c THEN PendingOn(d) \ {v} ELSE PendingOn(d)
  <2> TAKE d \in Canonicals
  <2>1. \A w \in Provisionals : candidate'[<<w, d>>] = IF w = v /\ d = c THEN "rejected" ELSE candidate[<<w, d>>]
    BY <1>3, PairsHave
  <2> QED BY <2>1 DEF PendingOn
<1>9. ASSUME NEW d \in Canonicals, NEW r \in RowsOf(d) PROVE r \in eligible' <=> PendingOn(d)' = {}
  <2>1. r \notin Provisional
    BY ProvisionalIsNoRow DEF Provisional, RowsOf
  <2>2. r \in eligible' <=> r \in Restored(Releases(v, {c}))
    BY <1>2, <2>1
  <2>3. r \in eligible <=> PendingOn(d) = {}
    BY <1>1 DEF QuarantineIsExact
  <2>4. \A m : m \in Releases(v, {c}) <=> m = <<v, c>> /\ ~OthersPending(v, c)
    BY ReleasesAre
  <2>5. r \in RowsOf(c) <=> d = c
    BY RowsApart DEF RowsOf
  <2>6. <<v, c>> \in restore
    BY <1>1, <1>2 DEF MatchesHeld
  <2>7. r \in Restored(Releases(v, {c})) <=>
          \/ r \in eligible /\ ~(d = c /\ ~OthersPending(v, c))
          \/ d = c /\ ~OthersPending(v, c)
    <3>1. CASE OthersPending(v, c)
      <4>1. \A m : m \notin Releases(v, {c})
        BY <2>4, <3>1
      <4> QED BY <3>1, <4>1, RestoredIs
    <3>2. CASE ~OthersPending(v, c)
      <4>1. <<v, c>> \in Releases(v, {c}) /\ <<v, c>>[2] = c
        BY <2>4, <3>2
      <4>2. \A m \in Releases(v, {c}) : m = <<v, c>> /\ m[2] = c
        BY <2>4
      <4> HIDE DEF Releases
      <4>3. CASE d = c
        BY <2>5, <2>6, <3>2, <4>1, <4>3, RestoredIs
      <4>4. CASE d # c
        <5>1. \A m \in Releases(v, {c}) : r \notin RowsOf(m[2])
          BY <2>5, <4>2, <4>4
        <5>2. r \in Restored(Releases(v, {c})) <=> r \in eligible
          BY <5>1, RestoredIs
        <5> QED BY <4>4, <5>2
      <4> QED BY <4>3, <4>4
    <3> QED BY <3>1, <3>2
  <2>8. OthersPending(v, c) <=> PendingOn(c) \ {v} # {}
    BY DEF OthersPending
  <2> QED BY <1>8, <2>2, <2>3, <2>7, <2>8
<1> QED BY <1>4, <1>5, <1>7, <1>9 DEF QuarantineInv, QuarantineIsExact

LEMMA ReconcileKeeps ==
  ASSUME QuarantineInv, NEW v \in Provisionals, NEW c \in Canonicals, Reconcile(v, c)
  PROVE  QuarantineInv'
<1> DEFINE others == {d \in Canonicals \ {c} : candidate[<<v, d>>] = "pending"}
           released == Restored(Releases(v, others))
<1>1. PoolTyped /\ MatchesHeld /\ QuarantineIsExact
  BY DEF QuarantineInv
<1>2. /\ v \in Provisional /\ c \in pool /\ ~OthersPending(v, c)
      /\ pool' = pool \ {c} /\ canonical' = [canonical EXCEPT ![v] = c]
      /\ candidate' = SurvivingCandidates(v, c) /\ restore' = restore \ ({v} \X Canonicals)
      /\ eligible' = (released \ {v, c}) \cup
           {w \in {v} : IF candidate[<<v, c>>] = "pending" THEN <<v, c>> \in restore ELSE c \in eligible}
  BY DEF Reconcile
<1> HIDE DEF released
<1>3. v \in pool /\ canonical[v] = NoCanonical /\ v # c
  BY <1>2, IdentityAssumption DEF Provisional
<1>4. \A m \in Pairs : candidate'[m] = IF m[1] = v THEN "none" ELSE candidate[m]
  BY <1>2 DEF SurvivingCandidates
<1>5. \A w \in Provisionals : canonical'[w] = IF w = v THEN c ELSE canonical[w]
  BY <1>1, <1>2 DEF PoolTyped
<1>6. PoolTyped'
  <2>1. canonical' \in [Provisionals -> Canonicals \cup {NoCanonical}]
    BY <1>1, <1>2 DEF PoolTyped
  <2>2. candidate' \in [Pairs -> {"none", "pending", "rejected"}]
    BY <1>1, <1>2 DEF PoolTyped, SurvivingCandidates
  <2>3. \A w \in Provisionals : canonical'[w] \notin pool'
    BY <1>1, <1>2, <1>5 DEF PoolTyped
  <2>4. \A w \in Provisionals : w \notin pool' => canonical'[w] = NoCanonical
    BY <1>1, <1>2, <1>3, <1>5, IdentityAssumption DEF PoolTyped
  <2>5. pool' \in SUBSET Rows
    BY <1>1, <1>2 DEF PoolTyped
  <2> QED BY <2>1, <2>2, <2>3, <2>4, <2>5 DEF PoolTyped
<1>7. ASSUME NEW d \in Canonicals PROVE RowsOf(d)' = IF d = c THEN {v} ELSE RowsOf(d)
  <2>1. \A w \in Provisionals : canonical[w] # c
    BY <1>1, <1>2 DEF PoolTyped
  <2>2. \A r : r \in RowsOf(d)' <=> r \in pool /\ r # c /\ (r = d \/ (r \in Provisionals /\ canonical'[r] = d))
    BY <1>2 DEF RowsOf, RowsIn
  <2>3. \A r : r \in RowsOf(d) <=> r \in pool /\ (r = d \/ (r \in Provisionals /\ canonical[r] = d))
    BY DEF RowsOf, RowsIn
  <2>4. \A r : r \in RowsOf(d)' <=> r \in IF d = c THEN {v} ELSE RowsOf(d)
    BY <1>3, <1>5, <2>1, <2>2, <2>3, IdentityAssumption
  <2> QED BY <2>4
<1>8. \A d \in Canonicals : PendingOn(d)' = PendingOn(d) \ {v}
  <2> TAKE d \in Canonicals
  <2>1. \A w \in Provisionals : candidate'[<<w, d>>] = IF w = v THEN "none" ELSE candidate[<<w, d>>]
    BY <1>4, PairsHave
  <2> QED BY <2>1 DEF PendingOn
<1>9. MatchesHeld'
  <2> SUFFICES ASSUME NEW w \in Provisionals, NEW d \in Canonicals, candidate'[<<w, d>>] = "pending"
               PROVE  <<w, d>> \in restore' /\ w \in Provisional' /\ RowsOf(d)' # {}
    BY DEF MatchesHeld
  <2>1. w # v /\ candidate[<<w, d>>] = "pending"
    BY <1>4, PairsHave
  <2>2. <<w, d>> \in restore /\ w \in Provisional /\ RowsOf(d) # {}
    BY <1>1, <2>1 DEF MatchesHeld
  <2>3. w \in Provisional'
    BY <1>2, <1>5, <2>1, <2>2, IdentityAssumption DEF Provisional
  <2>4. <<w, d>> \in restore'
    BY <1>2, <2>1, <2>2
  <2> QED BY <1>7, <2>2, <2>3, <2>4
<1>10. v \in eligible'
  <2>1. CASE candidate[<<v, c>>] = "pending"
    BY <1>1, <1>2, <2>1 DEF MatchesHeld
  <2>2. CASE candidate[<<v, c>>] # "pending"
    <3>1. PendingOn(c) = {}
      BY <1>2, <2>2 DEF OthersPending, PendingOn
    <3>2. c \in RowsOf(c)
      BY <1>2 DEF RowsOf, RowsIn
    <3>3. c \in eligible
      BY <1>1, <3>1, <3>2 DEF QuarantineIsExact
    <3> QED BY <1>2, <2>2, <3>3
  <2> QED BY <2>1, <2>2
<1>11. ASSUME NEW d \in Canonicals, d # c, NEW r \in RowsOf(d) PROVE r \in eligible' <=> PendingOn(d)' = {}
  <2>1. r # v /\ r # c
    BY <1>3, <1>11, ProvisionalIsNoRow, IdentityAssumption DEF RowsOf, RowsIn
  <2>2. r \in eligible' <=> r \in released
    BY <1>2, <2>1
  <2>3. r \in eligible <=> PendingOn(d) = {}
    BY <1>1 DEF QuarantineIsExact
  <2>4. \A f \in Canonicals : r \in RowsOf(f) <=> f = d
    BY RowsApart DEF RowsOf
  <2>5. \A m \in Releases(v, others) : \E f \in Canonicals : m = <<v, f>>
    BY ReleasesAre
  <2>6. <<v, d>> \in Releases(v, others) <=> candidate[<<v, d>>] = "pending" /\ ~OthersPending(v, d)
    BY <1>11, ReleasesAre
  <2>7. candidate[<<v, d>>] = "pending" => <<v, d>> \in restore
    BY <1>1 DEF MatchesHeld
  <2>8. r \in released <=> r \in eligible \/ (candidate[<<v, d>>] = "pending" /\ ~OthersPending(v, d))
    BY <2>4, <2>5, <2>6, <2>7, RestoredIs DEF released
  <2>9. candidate[<<v, d>>] = "pending" <=> v \in PendingOn(d)
    BY DEF PendingOn
  <2>10. OthersPending(v, d) <=> PendingOn(d) \ {v} # {}
    BY DEF OthersPending
  <2> QED BY <1>8, <2>2, <2>3, <2>8, <2>9, <2>10
<1>12. PendingOn(c)' = {}
  BY <1>2, <1>8 DEF OthersPending
<1>13. QuarantineIsExact'
  BY <1>7, <1>10, <1>11, <1>12 DEF QuarantineIsExact
<1> QED BY <1>6, <1>9, <1>13 DEF QuarantineInv

LEMMA QuarantineStep == QuarantineInv /\ [Next]_vars => QuarantineInv'
<1> SUFFICES ASSUME QuarantineInv, [Next]_vars PROVE QuarantineInv'
  OBVIOUS
<1>1. CASE \E v \in Provisionals : Submit(v) \/ Dismiss(v)
  BY <1>1, SamePool DEF Submit, Dismiss
<1>2. CASE \E v \in Provisionals : \E agree \in SUBSET ({v} \X Canonicals) : Create(v, agree)
  <2>0. PICK v \in Provisionals : \E agree \in SUBSET ({v} \X Canonicals) : Create(v, agree)
    BY <1>2
  <2>1. PICK agree \in SUBSET ({v} \X Canonicals) : Create(v, agree)
    BY <2>0
  <2>2. agree \in SUBSET Pairs
    BY DEF Pairs
  <2> QED BY <2>1, <2>2, CreateKeeps
<1>3. CASE \E new \in SUBSET Canonicals, agree \in SUBSET Pairs : Refresh(new, agree)
  BY <1>3, RefreshKeeps
<1>4. CASE \E v \in Provisionals, c \in Canonicals : RejectCandidate(v, c) \/ Reconcile(v, c)
  BY <1>4, RejectKeeps, ReconcileKeeps
<1>5. CASE \E r \in pool : Acquire(r) \/ ReleaseRow(r)
  BY <1>5, SamePool DEF Acquire, ReleaseRow
<1>6. CASE CompleteSeason \/ UNCHANGED vars
  BY <1>6, SamePool DEF CompleteSeason, vars
<1> QED BY <1>1, <1>2, <1>3, <1>4, <1>5, <1>6 DEF Next

\* A canonical player is out of the draft exactly while a possible match of his
\* is unresolved: _detect_candidates_for_provisional, reject_candidate and
\* reconcile, with restore_eligible_on_release handed from match to match.
THEOREM QuarantineStaysExact == Spec => []QuarantineIsExact
<1>1. QuarantineInv => QuarantineIsExact
  BY DEF QuarantineInv
<1> QED BY <1>1, QuarantineInit, QuarantineStep, PTL DEF Spec

LEMMA DetectionSparesRejected ==
  ASSUME NEW found, NEW rows, NEW ok, Detect(found, rows, ok), \A p \in found : candidate[p] = "none",
         NEW m \in Pairs, candidate[m] = "rejected"
  PROVE  candidate'[m] = "rejected"
BY DEF Detect

\* A match decided against is not found again, even by the reconciliation of
\* another player with its target: reconcile, reject_candidate.
THEOREM RejectionsStand == Spec => RejectedForGood
<1> DEFINE Stands == \A m \in Pairs : candidate[m] = "rejected" /\ m[1] \in Provisional' =>
                       candidate'[m] = "rejected"
<1>1. ASSUME QuarantineInv, [Next]_vars PROVE Stands
  <2> SUFFICES ASSUME NEW m \in Pairs, candidate[m] = "rejected", m[1] \in Provisional'
               PROVE  candidate'[m] = "rejected"
    OBVIOUS
  <2>1. CASE \E v \in Provisionals : \E agree \in SUBSET ({v} \X Canonicals) : Create(v, agree)
    <3>1. PICK v \in Provisionals : \E agree \in SUBSET ({v} \X Canonicals) : Create(v, agree)
      BY <2>1
    <3>2. PICK agree \in SUBSET ({v} \X Canonicals) : Create(v, agree)
      BY <3>1
    <3> DEFINE found == Found({v}, agree, pool \cup {v})
    <3>3. Detect(found, pool \cup {v}, eligible) /\ \A p \in found : candidate[p] = "none"
      BY <3>2 DEF Create, Found
    <3> HIDE DEF found
    <3> QED BY <3>3, DetectionSparesRejected
  <2>5. CASE \E new \in SUBSET Canonicals, agree \in SUBSET Pairs : Refresh(new, agree)
    <3>1. PICK new \in SUBSET Canonicals, agree \in SUBSET Pairs : Refresh(new, agree)
      BY <2>5
    <3> DEFINE found == Found(Provisional, agree, pool \cup new)
    <3>2. Detect(found, pool \cup new, eligible \cup new) /\ \A p \in found : candidate[p] = "none"
      BY <3>1 DEF Refresh, Found
    <3> HIDE DEF found
    <3> QED BY <3>2, DetectionSparesRejected
  <2>2. CASE \E v \in Provisionals, c \in Canonicals : RejectCandidate(v, c)
    BY <1>1, <2>2 DEF RejectCandidate, QuarantineInv, PoolTyped
  <2>3. CASE \E v \in Provisionals, c \in Canonicals : Reconcile(v, c)
    <3>1. PICK v \in Provisionals, c \in Canonicals : Reconcile(v, c)
      BY <2>3
    <3>2. canonical'[v] = c /\ c # NoCanonical
      BY <1>1, <3>1, IdentityAssumption DEF Reconcile, QuarantineInv, PoolTyped
    <3>3. m[1] # v
      BY <3>2 DEF Provisional
    <3> QED BY <3>1, <3>3 DEF Reconcile, SurvivingCandidates
  <2>4. CASE UNCHANGED candidate
    BY <2>4
  <2> QED BY <1>1, <2>1, <2>2, <2>3, <2>4, <2>5 DEF Next, Submit, Dismiss, Acquire, ReleaseRow, CompleteSeason, vars
<1>2. QuarantineInv /\ [Next]_vars => [Stands]_vars
  BY <1>1
<1> QED BY <1>2, QuarantineInit, QuarantineStep, PTL DEF Spec, RejectedForGood

-----------------------------------------------------------------------------
(***************************************************************************)
(* The provisional side of a match whose canonical player is owned.         *)
(***************************************************************************)

\* A row that was ever owned stays in the pool, for only a row nobody owned is
\* merged away.
HeldTyped ==
  /\ held \in [Rows -> {"never", "held", "released"}]
  /\ \A r \in Rows : held[r] # "never" => r \in pool

OwnedInv == HeldTyped /\ OwnedMatchQuarantines

\* A pending match is of a provisional player in the pool, who is no row of a
\* canonical one.
LEMMA PendingIsProvisional ==
  ASSUME PoolTyped, MatchesHeld, NEW m \in Pairs, candidate[m] = "pending"
  PROVE  /\ m[1] \in Provisional /\ m[1] \in Provisionals /\ m[1] \in pool /\ canonical[m[1]] = NoCanonical
         /\ m[1] \notin Canonicals /\ \A d \in Canonicals : m[1] \notin RowsOf(d)
<1>1. m = <<m[1], m[2]>> /\ m[1] \in Provisionals /\ m[2] \in Canonicals
  BY PairsAre
<1>2. candidate[<<m[1], m[2]>>] = "pending"
  BY <1>1
<1>3. m[1] \in Provisional
  BY <1>1, <1>2 DEF MatchesHeld
<1> QED BY <1>1, <1>3, IdentityAssumption DEF Provisional, RowsOf, RowsIn

LEMMA OwnedCreate ==
  ASSUME QuarantineInv, OwnedInv, NEW v \in Provisionals, NEW agree, Create(v, agree)
  PROVE  OwnedInv'
<1> DEFINE rows == pool \cup {v}
           found == Found({v}, agree, rows)
<1>1. PoolTyped /\ MatchesHeld /\ HeldTyped /\ OwnedMatchQuarantines
  BY DEF QuarantineInv, OwnedInv
<1>2. /\ v \notin pool /\ canonical[v] = NoCanonical /\ pool' = rows /\ UNCHANGED <<canonical, held>>
      /\ Detect(found, rows, eligible) /\ eligible' = (eligible \cup {v}) \ Quarantined(found, rows)
  BY <1>1 DEF Create, PoolTyped
<1>3. \A c \in Canonicals : OwnedMatch(c)' <=> OwnedMatch(c)
  BY <1>2, IdentityAssumption DEF OwnedMatch, RowsOf, RowsIn, Held
<1>4. \A m \in found : m[1] = v
  BY DEF Found
<1> HIDE DEF rows, found
<1>5. \A m \in Pairs : candidate'[m] = "pending" => m \in found \/ candidate[m] = "pending"
  BY <1>2 DEF Detect
<1>6. HeldTyped'
  BY <1>1, <1>2 DEF HeldTyped, rows
<1>7. OwnedMatchQuarantines'
  <2> SUFFICES ASSUME NEW m \in Pairs, candidate'[m] = "pending", OwnedMatch(m[2])', held'[m[1]] = "never"
               PROVE  m[1] \notin eligible'
    BY DEF OwnedMatchQuarantines
  <2>1. OwnedMatch(m[2]) /\ held[m[1]] = "never" /\ m[1] \in Provisionals
    BY <1>2, <1>3, PairsAre
  <2>2. CASE m \in found
    BY <1>2, <1>4, <2>1, <2>2 DEF Quarantined, Held
  <2>3. CASE candidate[m] = "pending"
    <3>1. m[1] \notin eligible /\ m[1] # v
      BY <1>1, <1>2, <2>1, <2>3, PendingIsProvisional DEF OwnedMatchQuarantines
    <3> QED BY <1>2, <3>1
  <2> QED BY <1>5, <2>2, <2>3
<1> QED BY <1>6, <1>7 DEF OwnedInv

LEMMA OwnedRefresh ==
  ASSUME QuarantineInv, OwnedInv, NEW new \in SUBSET Canonicals, NEW agree, Refresh(new, agree)
  PROVE  OwnedInv'
<1> DEFINE rows == pool \cup new
           ok == eligible \cup new
           found == Found(Provisional, agree, rows)
           left == ok \ Quarantined(found, rows)
<1>1. PoolTyped /\ MatchesHeld /\ HeldTyped /\ OwnedMatchQuarantines
  BY DEF QuarantineInv, OwnedInv
<1>2. /\ \A c \in new : RowsOf(c) = {}
      /\ pool' = rows /\ UNCHANGED <<canonical, held>> /\ Detect(found, rows, ok)
      /\ eligible' = left \cup {v \in Provisional : ~PendingOwnedMatch(v) /\ v \notin left}
  BY DEF Refresh, Imports
<1>3. \A r \in new : r \in Rows /\ r \notin pool /\ held[r] = "never"
  BY <1>1, <1>2 DEF HeldTyped, Rows, RowsOf, RowsIn
<1>4. \A c \in Canonicals : OwnedMatch(c)' <=> OwnedMatch(c)
  <2> TAKE c \in Canonicals
  <2>1. \A r : r \in RowsOf(c)' <=> r \in RowsOf(c) \/ (r \in new /\ (r = c \/ (r \in Provisionals /\ canonical[r] = c)))
    BY <1>2 DEF RowsOf, RowsIn
  <2>2. \A r \in new : ~Held(r)
    BY <1>3 DEF Held
  <2>3. \A r : Held(r)' <=> Held(r)
    BY <1>2 DEF Held
  <2> QED BY <2>1, <2>2, <2>3 DEF OwnedMatch
<1>5. \A m \in found : m[1] \in Provisional
  BY DEF Found
<1> HIDE DEF rows, found
<1>6. \A m \in Pairs : candidate'[m] = "pending" => m \in found \/ candidate[m] = "pending"
  BY <1>2 DEF Detect
<1>7. HeldTyped'
  BY <1>1, <1>2 DEF HeldTyped, rows
<1>8. OwnedMatchQuarantines'
  <2> SUFFICES ASSUME NEW m \in Pairs, candidate'[m] = "pending", OwnedMatch(m[2])', held'[m[1]] = "never"
               PROVE  m[1] \notin eligible'
    BY DEF OwnedMatchQuarantines
  <2>1. OwnedMatch(m[2]) /\ held[m[1]] = "never" /\ m[1] \in Provisionals /\ m[2] \in Canonicals /\ m = <<m[1], m[2]>>
    BY <1>2, <1>4, PairsAre
  <2>2. PendingOwnedMatch(m[1])
    BY <2>1 DEF PendingOwnedMatch
  <2>3. m[1] \notin left
    <3>1. CASE m \in found
      BY <2>1, <3>1 DEF Quarantined, Held
    <3>2. CASE candidate[m] = "pending"
      <4>1. m[1] \notin eligible /\ m[1] \notin new
        BY <1>1, <2>1, <3>2, PendingIsProvisional DEF OwnedMatchQuarantines
      <4> QED BY <4>1
    <3> QED BY <1>6, <3>1, <3>2
  <2> HIDE DEF left
  <2> QED BY <1>2, <2>2, <2>3
<1> QED BY <1>7, <1>8 DEF OwnedInv

\* Releasing targets makes no provisional player eligible.
LEMMA RestoredSpares ==
  ASSUME NEW ms, NEW w, \A m \in ms : m[2] \in Canonicals, \A d \in Canonicals : w \notin RowsOf(d)
  PROVE  w \in Restored(ms) <=> w \in eligible
BY RestoredIs

LEMMA ReleasedTargets ==
  ASSUME NEW v, NEW cs \in SUBSET Canonicals
  PROVE  \A m \in Releases(v, cs) : m[2] \in Canonicals
BY DEF Releases

LEMMA OwnedReject ==
  ASSUME QuarantineInv, OwnedInv, NEW v \in Provisionals, NEW c \in Canonicals, RejectCandidate(v, c)
  PROVE  OwnedInv'
<1> DEFINE released == Restored(Releases(v, {c}))
<1>1. PoolTyped /\ MatchesHeld /\ HeldTyped /\ OwnedMatchQuarantines
  BY DEF QuarantineInv, OwnedInv
<1>2. /\ candidate' = [candidate EXCEPT ![<<v, c>>] = "rejected"] /\ UNCHANGED <<pool, canonical, held>>
      /\ eligible' = released \cup {w \in {v} \cap Provisional : ~PendingOwnedMatch(w)}
  BY DEF RejectCandidate
<1>3. \A d : OwnedMatch(d)' <=> OwnedMatch(d)
  BY <1>2 DEF OwnedMatch, RowsOf, RowsIn, Held
<1>4. \A m \in Pairs : candidate'[m] = "pending" => candidate[m] = "pending"
  BY <1>1, <1>2, PairsHave DEF PoolTyped
<1>5. \A m \in Releases(v, {c}) : m[2] \in Canonicals
  BY ReleasedTargets
<1>6. HeldTyped'
  BY <1>1, <1>2 DEF HeldTyped
<1>7. OwnedMatchQuarantines'
  <2> SUFFICES ASSUME NEW m \in Pairs, candidate'[m] = "pending", OwnedMatch(m[2])', held'[m[1]] = "never"
               PROVE  m[1] \notin eligible'
    BY DEF OwnedMatchQuarantines
  <2>1. OwnedMatch(m[2]) /\ held[m[1]] = "never" /\ m[2] \in Canonicals /\ m = <<m[1], m[2]>> /\ candidate[m] = "pending"
    BY <1>2, <1>3, <1>4, PairsAre
  <2>2. PendingOwnedMatch(m[1])
    BY <2>1 DEF PendingOwnedMatch
  <2>3. m[1] \notin eligible /\ \A d \in Canonicals : m[1] \notin RowsOf(d)
    BY <1>1, <2>1, PendingIsProvisional DEF OwnedMatchQuarantines
  <2>4. m[1] \notin released
    BY <1>5, <2>3, RestoredSpares
  <2> HIDE DEF released
  <2> QED BY <1>2, <2>2, <2>4
<1> QED BY <1>6, <1>7 DEF OwnedInv

LEMMA OwnedReconcile ==
  ASSUME QuarantineInv, OwnedInv, NEW v \in Provisionals, NEW c \in Canonicals, Reconcile(v, c)
  PROVE  OwnedInv'
<1> DEFINE others == {d \in Canonicals \ {c} : candidate[<<v, d>>] = "pending"}
           released == Restored(Releases(v, others))
<1>1. PoolTyped /\ MatchesHeld /\ HeldTyped /\ OwnedMatchQuarantines
  BY DEF QuarantineInv, OwnedInv
<1>2. /\ held[c] = "never" /\ ~OthersPending(v, c) /\ held' = held
      /\ pool' = pool \ {c} /\ canonical' = [canonical EXCEPT ![v] = c]
      /\ candidate' = SurvivingCandidates(v, c)
      /\ eligible' \subseteq released \cup {v}
  BY DEF Reconcile
<1>3. \A m \in Pairs : candidate'[m] = "pending" => candidate[m] = "pending" /\ m[1] # v
  BY <1>2 DEF SurvivingCandidates
<1>4. \A m \in Releases(v, others) : m[2] \in Canonicals
  BY ReleasedTargets
<1>5. \A w \in Provisionals : canonical'[w] = IF w = v THEN c ELSE canonical[w]
  BY <1>1, <1>2 DEF PoolTyped
<1>6. HeldTyped'
  BY <1>1, <1>2 DEF HeldTyped
<1>7. OwnedMatchQuarantines'
  <2> SUFFICES ASSUME NEW m \in Pairs, candidate'[m] = "pending", OwnedMatch(m[2])', held'[m[1]] = "never"
               PROVE  m[1] \notin eligible'
    BY DEF OwnedMatchQuarantines
  <2>1. /\ candidate[m] = "pending" /\ m[1] # v /\ held[m[1]] = "never"
        /\ m[1] \in Provisionals /\ m[2] \in Canonicals /\ m = <<m[1], m[2]>>
    BY <1>2, <1>3, PairsAre
  <2>2. m[2] # c
    BY <1>2, <2>1 DEF OthersPending, PendingOn
  <2>3. OwnedMatch(m[2])
    <3>1. RowsOf(m[2])' \subseteq RowsOf(m[2])
      BY <1>2, <1>5, <2>2 DEF RowsOf, RowsIn
    <3>2. \A r : Held(r)' <=> Held(r)
      BY <1>2 DEF Held
    <3> QED BY <3>1, <3>2 DEF OwnedMatch
  <2>4. m[1] \notin eligible /\ \A d \in Canonicals : m[1] \notin RowsOf(d)
    BY <1>1, <2>1, <2>3, PendingIsProvisional DEF OwnedMatchQuarantines
  <2>5. m[1] \notin released
    BY <1>4, <2>4, RestoredSpares
  <2> HIDE DEF released
  <2> QED BY <1>2, <2>1, <2>5
<1> QED BY <1>6, <1>7 DEF OwnedInv

\* Nobody is acquired while a match on him is unresolved.
LEMMA OwnedAcquire ==
  ASSUME QuarantineInv, OwnedInv, NEW r \in pool, Acquire(r) \/ ReleaseRow(r)
  PROVE  OwnedInv'
<1>1. PoolTyped /\ MatchesHeld /\ QuarantineIsExact /\ HeldTyped /\ OwnedMatchQuarantines
  BY DEF QuarantineInv, OwnedInv
<1>2. /\ UNCHANGED <<pool, canonical, eligible, candidate>> /\ r \in Rows
      /\ \/ r \in eligible /\ held' = [held EXCEPT ![r] = "held"]
         \/ Held(r) /\ held' = [held EXCEPT ![r] = "released"]
  BY <1>1 DEF Acquire, ReleaseRow, PoolTyped
<1>3. /\ \A s \in Rows : s # r => held'[s] = held[s]
      /\ held'[r] # "never" /\ (held'[r] = "held" => r \in eligible)
  BY <1>1, <1>2 DEF HeldTyped
<1>4. HeldTyped'
  BY <1>1, <1>2 DEF HeldTyped
<1>5. OwnedMatchQuarantines'
  <2> SUFFICES ASSUME NEW m \in Pairs, candidate'[m] = "pending", OwnedMatch(m[2])', held'[m[1]] = "never"
               PROVE  m[1] \notin eligible'
    BY DEF OwnedMatchQuarantines
  <2>1. candidate[m] = "pending" /\ m[1] \in Provisionals /\ m[2] \in Canonicals /\ m = <<m[1], m[2]>>
    BY <1>2, PairsAre
  <2>2. held[m[1]] = "never"
    BY <1>3, <2>1 DEF Rows
  <2>3. PICK s \in RowsOf(m[2]) : held'[s] = "held"
    BY <1>2 DEF OwnedMatch, RowsOf, RowsIn, Held
  <2>4. s \in Rows
    BY <1>1, <2>3 DEF RowsOf, RowsIn, PoolTyped
  <2>5. s # r
    <3>1. PendingOn(m[2]) # {}
      BY <2>1 DEF PendingOn
    <3>2. s \notin eligible
      BY <1>1, <2>1, <2>3, <3>1 DEF QuarantineIsExact
    <3> QED BY <1>3, <2>3, <3>2
  <2>6. OwnedMatch(m[2])
    BY <1>3, <2>3, <2>4, <2>5 DEF OwnedMatch, Held
  <2> QED BY <1>1, <1>2, <2>1, <2>2, <2>6 DEF OwnedMatchQuarantines
<1> QED BY <1>4, <1>5 DEF OwnedInv

LEMMA OwnedInit == Init => OwnedInv
BY DEF Init, OwnedInv, HeldTyped, OwnedMatchQuarantines

LEMMA OwnedStep == QuarantineInv /\ OwnedInv /\ [Next]_vars => OwnedInv'
<1> SUFFICES ASSUME QuarantineInv, OwnedInv, [Next]_vars PROVE OwnedInv'
  OBVIOUS
<1>1. CASE \E v \in Provisionals : \E agree \in SUBSET ({v} \X Canonicals) : Create(v, agree)
  <2>1. PICK v \in Provisionals : \E agree : Create(v, agree)
    BY <1>1
  <2>2. PICK agree : Create(v, agree)
    BY <2>1
  <2> QED BY <2>2, OwnedCreate
<1>2. CASE \E new \in SUBSET Canonicals, agree \in SUBSET Pairs : Refresh(new, agree)
  BY <1>2, OwnedRefresh
<1>3. CASE \E v \in Provisionals, c \in Canonicals : RejectCandidate(v, c) \/ Reconcile(v, c)
  BY <1>3, OwnedReject, OwnedReconcile
<1>4. CASE \E r \in pool : Acquire(r) \/ ReleaseRow(r)
  BY <1>4, OwnedAcquire
<1>5. CASE (\E v \in Provisionals : Submit(v) \/ Dismiss(v)) \/ CompleteSeason \/ UNCHANGED vars
  <2>1. UNCHANGED <<pool, canonical, held, candidate, eligible>>
    BY <1>5 DEF Submit, Dismiss, CompleteSeason, vars
  <2> QED BY <2>1 DEF OwnedInv, HeldTyped, OwnedMatchQuarantines, OwnedMatch, RowsOf, RowsIn, Held
<1> QED BY <1>1, <1>2, <1>3, <1>4, <1>5 DEF Next

\* A provisional player nobody ever drafted cannot be drafted while a match of
\* his with an owned canonical player is unresolved, through detections,
\* refreshes, rejections, reconciliations and drafts of either side:
\* _detect_candidates_for_provisional, _resync_owned_match_quarantines.
THEOREM OwnedMatchesQuarantine == Spec => []OwnedMatchQuarantines
<1>1. OwnedInv => OwnedMatchQuarantines
  BY DEF OwnedInv
<1> QED BY <1>1, QuarantineInit, QuarantineStep, OwnedInit, OwnedStep, PTL DEF Spec
=============================================================================
