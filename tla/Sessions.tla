------------------------------ MODULE Sessions ------------------------------
(***************************************************************************)
(* Sessions of the Carseph server: rows of table sessions, the cookies the *)
(* browsers keep, and the requests that carry them through the auth        *)
(* middleware.  A request looks its session up, slides its expiry and runs *)
(* its handler in separate statements; the hourly cleanup, the clock and   *)
(* other requests come in between.  One browser holds one token; what      *)
(* handlers do besides logout is modelled elsewhere.                       *)
(***************************************************************************)
EXTENDS Naturals

CONSTANTS Tokens, Reqs, Null,
          TTL,         \* cfg.SessionTTL, in ticks
          MaxTime      \* bound on the clock, for model checking

Time == 0..MaxTime
Expiries == 0..(MaxTime + TTL)

ASSUME TTLAssumption  == TTL \in Nat \ {0} /\ MaxTime \in Nat
ASSUME NullAssumption == Null \notin Expiries

VARIABLES
    now,        \* the clock
    sessions,   \* table sessions: token -> expires_at, or Null
    cookie,     \* browsers: token -> when the cookie runs out, or Null
    minted,     \* tokens drawn so far (random, never repeated)
    req,        \* request -> state of its handler
    out         \* history: tokens whose logout was answered ok

vars == <<now, sessions, cookie, minted, req, out>>

Pcs == {"lookup", "touch", "logout"}
Handlers == [pc : Pcs, token : Tokens, goal : {"use", "logout"}]
Idle == [pc |-> "idle"]

Init ==
    /\ now = 0
    /\ sessions = [t \in Tokens |-> Null]
    /\ cookie = [t \in Tokens |-> Null]
    /\ minted = {}
    /\ req = [r \in Reqs |-> Idle]
    /\ out = {}

At(r, pc)  == req[r].pc = pc
Goto(r, pc) == req' = [req EXCEPT ![r].pc = pc]
Respond(r) == req' = [req EXCEPT ![r] = Idle]

(* SessionByID: expires_at > now.                                          *)
Live(t) == sessions[t] # Null /\ sessions[t] > now

(* A definition marked "mutant of D" is D with a mistake in it, which the  *)
(* specification does not use; in the place of D it breaks a property.     *)

(* Mutant of Expired: strictly before, where SessionByID wants after.      *)
ExpiredBefore(t) == sessions[t] # Null /\ sessions[t] < now

(* DeleteExpiredSessions: expires_at <= now.                               *)
Expired(t) == sessions[t] # Null /\ sessions[t] <= now

(* issueSession: row and cookie start with the same lifetime.              *)
SignIn(t) ==
    /\ t \notin minted
    /\ minted' = minted \cup {t}
    /\ sessions' = [sessions EXCEPT ![t] = now + TTL]
    /\ cookie' = [cookie EXCEPT ![t] = now + TTL]
    /\ UNCHANGED <<now, req, out>>

(* A browser sends a cookie until its MaxAge is over.                      *)
Send(r, t, goal) ==
    /\ req[r] = Idle
    /\ cookie[t] # Null /\ cookie[t] > now
    /\ req' = [req EXCEPT ![r] = [pc |-> "lookup", token |-> t, goal |-> goal]]
    /\ UNCHANGED <<now, sessions, cookie, minted, out>>

Lookup(r) ==
    /\ At(r, "lookup")
    /\ IF Live(req[r].token) THEN Goto(r, "touch") ELSE Respond(r)  \* 401
    /\ UNCHANGED <<now, sessions, cookie, minted, out>>

(* Mutant of Touched: the row is written even when it is gone.             *)
TouchedAnyway(t) == now + TTL

Touched(t) == IF sessions[t] = Null THEN Null ELSE now + TTL

(* TouchSession is an UPDATE that does not look at expires_at; its failure *)
(* is only logged.  The cookie is not set again.                           *)
Touch(r) ==
    /\ At(r, "touch")
    /\ LET t == req[r].token IN
         \/ sessions' = [sessions EXCEPT ![t] = Touched(t)]
         \/ UNCHANGED sessions
    /\ IF req[r].goal = "logout" THEN Goto(r, "logout") ELSE Respond(r)
    /\ UNCHANGED <<now, cookie, minted, out>>

(* handleLogout: a failing DELETE is only logged, the answer is ok all the *)
(* same; the answer may not reach the browser.                             *)
Logout(r) ==
    /\ At(r, "logout")
    /\ LET t == req[r].token IN
         /\ sessions' = [sessions EXCEPT ![t] = Null] \/ UNCHANGED sessions
         /\ \/ cookie' = [cookie EXCEPT ![t] = Null] /\ out' = out \cup {t}
            \/ UNCHANGED <<cookie, out>>
    /\ Respond(r)
    /\ UNCHANGED <<now, minted>>

(* The hourly ticker.                                                      *)
Cleanup ==
    /\ \E t \in Tokens : Expired(t)
    /\ sessions' = [t \in Tokens |-> IF Expired(t) THEN Null ELSE sessions[t]]
    /\ UNCHANGED <<now, cookie, minted, req, out>>

(* A lookup fails, or the server restarts: the request is gone.            *)
Abort(r) ==
    /\ req[r] # Idle
    /\ Respond(r)
    /\ UNCHANGED <<now, sessions, cookie, minted, out>>

Tick ==
    /\ now < MaxTime
    /\ now' = now + 1
    /\ UNCHANGED <<sessions, cookie, minted, req, out>>

Next ==
    \/ \E t \in Tokens : SignIn(t)
    \/ \E r \in Reqs, t \in Tokens, goal \in {"use", "logout"} : Send(r, t, goal)
    \/ \E r \in Reqs : Lookup(r) \/ Touch(r) \/ Logout(r) \/ Abort(r)
    \/ Cleanup
    \/ Tick

Spec == Init /\ [][Next]_vars

(* The cleanup goroutine runs as long as the server does.                  *)
FairSpec == Spec /\ WF_vars(Cleanup)

----------------------------------------------------------------------------
(* Every variable stays within its type; no expiry lies further away than  *)
(* one lifetime.                                                           *)
TypeOK ==
    /\ now \in Time
    /\ sessions \in [Tokens -> Expiries \cup {Null}]
    /\ cookie \in [Tokens -> Expiries \cup {Null}]
    /\ minted \subseteq Tokens
    /\ req \in [Reqs -> Handlers \cup {Idle}]
    /\ out \subseteq minted
    /\ \A t \in Tokens : sessions[t] # Null => sessions[t] <= now + TTL

(* A session that was removed, by logout or by the cleanup, does not come  *)
(* back through a request that found it live before.                       *)
NoRevival == [][\A t \in minted : sessions[t] = Null => sessions'[t] = Null]_vars

(* A session that SessionByID refuses is one DeleteExpiredSessions takes:  *)
(* the two tests leave no gap, so an expired row does not stay forever.    *)
ExpiredRemoved ==
    \A t \in Tokens : (sessions[t] # Null /\ ~Live(t)) ~> (sessions[t] = Null \/ Live(t))

----------------------------------------------------------------------------
(* What DESIGN.md says, and the code does not keep.                        *)

(* DESIGN.md:190, "TTL 30 days, sliding (refresh on use)": as long as the  *)
(* server would accept a token, its browser still has it.                  *)
CookieLasts ==
    \A t \in Tokens : Live(t) /\ t \notin out => cookie[t] # Null /\ cookie[t] > now

=============================================================================
