------------------------------- MODULE Visits -------------------------------
(***************************************************************************)
(* Who may come in, and for how long: DemoSessionService,                  *)
(* OperatorAuthService and the sessions job over demo_sessions and         *)
(* operator_sessions.                                                      *)
(*                                                                         *)
(* Each request reads the clock first (current_time) and uses that time in *)
(* every later step, whatever time it is by then.  The limit of viewers    *)
(* per source is counted in the database under an advisory lock; the       *)
(* failed logins of a source are a list in the memory of the one server,   *)
(* looked at before the password is verified and written after.            *)
(*                                                                         *)
(* Tokens, and which release a viewer gets, are not modelled here.         *)
(***************************************************************************)
EXTENDS Integers, Sequences, FiniteSets

CONSTANTS
  Sources,       \* fingerprints of client addresses
  Threads,       \* threads of the server, and of the job
  EndOfTime,     \* bound: the clock stops here
  MaxVisits,     \* bound: rows of both session tables
  MaxRestarts,   \* bound: restarts of the server
  Hour,          \* the window of the viewer limit
  ViewersPerHour,\* source_session_limit_per_hour
  IdleTTL,       \* IDLE_TTL
  AbsoluteTTL,   \* ABSOLUTE_TTL
  Window,        \* FAILED_ATTEMPT_WINDOW
  MaxFailed      \* MAX_FAILED_ATTEMPTS

ASSUME VisitsAssumption ==
  /\ {EndOfTime, MaxVisits, MaxRestarts} \subseteq Nat
  /\ {Hour, ViewersPerHour, IdleTTL, AbsoluteTTL, Window, MaxFailed}
       \subseteq Nat \ {0}
ASSUME ThreadsAreFinite == IsFiniteSet(Threads) /\ Threads # {}

VARIABLES
  time,      \* the clock
  visits,    \* rows of demo_sessions and operator_sessions
  failures,  \* when the logins of each source failed, since they were last cleared
  failed,    \* which of these failures are still in _failed_attempts
  thread,    \* the request each thread works on
  restarts   \* restarts so far

visitsVars == <<time, visits, failed, failures, thread, restarts>>

Moments == 0..EndOfTime
Kinds == {"viewer", "operator"}
Visit ==
  [kind : Kinds, source : Sources, created : Moments, idle : Nat,
   absolute : Nat, over : BOOLEAN]

Resting == [job |-> "none"]
Asking ==
  [job : {"enter"}, source : Sources, now : Moments]
    \cup [job : {"login", "reauthenticate"}, source : Sources, now : Moments,
          stage : {"check", "verify", "clear"}]
    \cup [job : {"touch", "end"}, visit : 1..MaxVisits, now : Moments]
    \cup [job : {"expire"}, now : Moments]

VisitsInit ==
  /\ time = 0
  /\ visits = <<>>
  /\ failed = [s \in Sources |-> {}]
  /\ failures = [s \in Sources |-> <<>>]
  /\ thread = [t \in Threads |-> Resting]
  /\ restarts = 0

Busy(t) == thread[t] # Resting
Does(t, job) == Busy(t) /\ thread[t].job = job
Rest(t) == thread' = [thread EXCEPT ![t] = Resting]

\* A request arrives and reads the clock.
Arrive(t) ==
  /\ ~Busy(t)
  /\ \E request \in Asking :
       /\ request.now = time
       /\ request.job \in {"login", "reauthenticate"} => request.stage = "check"
       /\ request.job \in {"touch", "end"} => request.visit \in DOMAIN visits
       /\ thread' = [thread EXCEPT ![t] = request]
  /\ UNCHANGED <<time, visits, failed, failures, restarts>>

-----------------------------------------------------------------------------
(***************************************************************************)
(* Viewers                                                                 *)
(***************************************************************************)

NewVisit(kind, source, now) ==
  [kind |-> kind, source |-> source, created |-> now, idle |-> now + IdleTTL,
   absolute |-> now + AbsoluteTTL, over |-> FALSE]

Admitted_NotOver(source, since) ==   \* mutant: ended sessions are not counted
  {i \in DOMAIN visits :
     /\ visits[i].kind = "viewer" /\ visits[i].source = source
     /\ visits[i].created >= since /\ ~visits[i].over}

\* count_demo_sessions_for_source_since: ended sessions count as well.
Admitted(source, since) ==
  {i \in DOMAIN visits :
     /\ visits[i].kind = "viewer" /\ visits[i].source = source
     /\ visits[i].created >= since}

\* DemoSessionService.create: counted and inserted under the lock of the source.
Enter(t) ==
  /\ Does(t, "enter")
  /\ LET source == thread[t].source
         now == thread[t].now
     IN  IF Cardinality(Admitted(source, now - Hour)) >= ViewersPerHour
         THEN UNCHANGED visits
         ELSE /\ Len(visits) < MaxVisits
              /\ visits' = Append(visits, NewVisit("viewer", source, now))
  /\ Rest(t)
  /\ UNCHANGED <<time, failed, failures, restarts>>

-----------------------------------------------------------------------------
(***************************************************************************)
(* Logins                                                                  *)
(***************************************************************************)

\* _ensure_attempt_allowed: forgets what is older than the window.
CheckAttempts(t) ==
  /\ Does(t, "login") \/ Does(t, "reauthenticate")
  /\ thread[t].stage = "check"
  /\ LET source == thread[t].source
         attempts == {n \in failed[source] :
                        failures[source][n] > thread[t].now - Window}
     IN  /\ failed' = [failed EXCEPT ![source] = attempts]
         /\ IF Cardinality(attempts) >= MaxFailed
            THEN Rest(t)
            ELSE thread' = [thread EXCEPT ![t].stage = "verify"]
  /\ UNCHANGED <<time, visits, failures, restarts>>

\* A wrong password or name is recorded with the time of the request.
Fail(t) ==
  /\ Does(t, "login") \/ Does(t, "reauthenticate")
  /\ thread[t].stage = "verify"
  /\ LET source == thread[t].source IN
     /\ failed' = [failed EXCEPT ![source] = @ \cup {Len(failures[source]) + 1}]
     /\ failures' = [failures EXCEPT ![source] = Append(@, thread[t].now)]
  /\ Rest(t)
  /\ UNCHANGED <<time, visits, restarts>>

\* The right one: a login makes a session, and its transaction commits.
Verified(t) ==
  /\ Does(t, "login") \/ Does(t, "reauthenticate")
  /\ thread[t].stage = "verify"
  /\ IF thread[t].job = "login"
     THEN /\ Len(visits) < MaxVisits
          /\ visits' =
               Append(visits, NewVisit("operator", thread[t].source, thread[t].now))
     ELSE UNCHANGED visits
  /\ thread' = [thread EXCEPT ![t].stage = "clear"]
  /\ UNCHANGED <<time, failed, failures, restarts>>

\* _clear_failed_attempts.
Clear(t) ==
  /\ Does(t, "login") \/ Does(t, "reauthenticate")
  /\ thread[t].stage = "clear"
  /\ failed' = [failed EXCEPT ![thread[t].source] = {}]
  /\ failures' = [failures EXCEPT ![thread[t].source] = <<>>]
  /\ Rest(t)
  /\ UNCHANGED <<time, visits, restarts>>

-----------------------------------------------------------------------------
(***************************************************************************)
(* Sessions in use                                                         *)
(***************************************************************************)

\* get_active_demo_session, get_active_operator_session.
Live(visit, now) == ~visit.over /\ visit.idle > now /\ visit.absolute > now

\* Every authenticated request begins with resolve, which puts the idle end off.
NextIdle(visit, now) ==
  IF now + IdleTTL < visit.absolute THEN now + IdleTTL ELSE visit.absolute

Touch_AnySession(t) ==   \* mutant: whether it has run out is not looked at
  /\ Does(t, "touch")
  /\ visits' = [visits EXCEPT ![thread[t].visit].idle =
                  NextIdle(visits[thread[t].visit], thread[t].now)]
  /\ Rest(t)
  /\ UNCHANGED <<time, failed, failures, restarts>>

\* touch_operator_session, touch_demo_session: only what is still live.
Touch(t) ==
  /\ Does(t, "touch")
  /\ LET i == thread[t].visit
         now == thread[t].now
     IN  visits' = IF Live(visits[i], now)
                   THEN [visits EXCEPT ![i].idle = NextIdle(visits[i], now)]
                   ELSE visits
  /\ Rest(t)
  /\ UNCHANGED <<time, failed, failures, restarts>>

\* end_demo_session and revoke_operator_session: an elapsed session ends as well.
End(t) ==
  /\ Does(t, "end")
  /\ visits' = [visits EXCEPT ![thread[t].visit].over = TRUE]
  /\ Rest(t)
  /\ UNCHANGED <<time, failed, failures, restarts>>

\* The sessions job: expire_demo_sessions.
ExpireAll(t) ==
  /\ Does(t, "expire")
  /\ visits' =
       [i \in DOMAIN visits |->
          IF visits[i].kind = "viewer" /\ ~Live(visits[i], thread[t].now)
          THEN [visits[i] EXCEPT !.over = TRUE]
          ELSE visits[i]]
  /\ Rest(t)
  /\ UNCHANGED <<time, failed, failures, restarts>>

-----------------------------------------------------------------------------
\* A new revision of the server starts with an empty list.
Restart ==
  /\ restarts < MaxRestarts
  /\ restarts' = restarts + 1
  /\ thread' = [t \in Threads |-> Resting]
  /\ failed' = [s \in Sources |-> {}]
  /\ failures' = [s \in Sources |-> <<>>]
  /\ UNCHANGED <<time, visits>>

Advance ==
  /\ time < EndOfTime
  /\ time' = time + 1
  /\ UNCHANGED <<visits, failed, failures, thread, restarts>>

VisitsNext ==
  \/ \E t \in Threads :
       \/ Arrive(t) \/ Enter(t)
       \/ CheckAttempts(t) \/ Fail(t) \/ Verified(t) \/ Clear(t)
       \/ Touch(t) \/ End(t) \/ ExpireAll(t)
  \/ Restart \/ Advance

VisitsSpec == VisitsInit /\ [][VisitsNext]_visitsVars
-----------------------------------------------------------------------------
(***************************************************************************)
(* Properties                                                              *)
(***************************************************************************)

\* Wherever an hour starts, it holds no more new viewers of a source than the
\* limit, although rows are stamped before they are counted, and out of order.
ViewersIn(source, start) ==
  {i \in DOMAIN visits :
     /\ visits[i].kind = "viewer" /\ visits[i].source = source
     /\ visits[i].created \in start..(start + Hour)}
ViewersLimited ==
  \A s \in Sources, start \in Moments :
    Cardinality(ViewersIn(s, start)) <= ViewersPerHour

\* Guesses of a password: the list is read before and written after a password is
\* verified, and forgotten at the time of the request that reads it, so that each
\* other thread may add two failures to those allowed in a window.
FailuresIn(source, start) ==
  {n \in DOMAIN failures[source] :
     start <= failures[source][n] /\ failures[source][n] < start + Window}
FailuresLimited ==
  \A s \in Sources, start \in Moments :
    Cardinality(FailuresIn(s, start)) <= MaxFailed + 2 * (Cardinality(Threads) - 1)

\* Both limits of a source.
SourcesLimited == ViewersLimited /\ FailuresLimited

\* A session that has run out stays so, whatever the requests and the job do:
\* only a request that came before may still put its end off.
RunOutIsFinal ==
  [][\A i \in DOMAIN visits :
       /\ ~Live(visits[i], time)
       /\ \A t \in Threads : Busy(t) => ~Live(visits[i], thread[t].now)
       => ~Live(visits'[i], time)]_visitsVars
=============================================================================
