--------------------------- MODULE SessionsProofs ---------------------------
(* Proofs about Sessions, for every value of its constants.                *)
EXTENDS Sessions, TLAPS

(* Tables and requests alone; the clock and the cookies do not matter.     *)
Typed ==
    /\ sessions \in [Tokens -> Expiries \cup {Null}]
    /\ now \in Time
    /\ minted \subseteq Tokens
    /\ req \in [Reqs -> Handlers \cup {Idle}]

(* A lifetime added to the clock is an expiry.                             *)
LEMMA ExpiryTyped ==
  ASSUME now \in Time
  PROVE  now + TTL \in Expiries /\ now + TTL # Null
  BY TTLAssumption, NullAssumption DEF Time, Expiries

(* The parts of a request under way.                                       *)
LEMMA Working ==
  ASSUME Typed, NEW r \in Reqs, NEW pc, At(r, pc), pc # "idle"
  PROVE  req[r] \in Handlers /\ req[r].token \in Tokens
  BY DEF Typed, At, Idle, Handlers

LEMMA RequestsTyped ==
  ASSUME Typed, [Next]_vars
  PROVE  req' \in [Reqs -> Handlers \cup {Idle}]
  <1>1. ASSUME NEW r \in Reqs, Respond(r)
        PROVE  req' \in [Reqs -> Handlers \cup {Idle}]
    BY <1>1 DEF Respond, Typed
  <1>2. ASSUME NEW r \in Reqs, NEW pc \in Pcs, req[r] \in Handlers, Goto(r, pc)
        PROVE  req' \in [Reqs -> Handlers \cup {Idle}]
    <2>1. [req[r] EXCEPT !.pc = pc] \in Handlers
      BY <1>2 DEF Handlers
    <2> QED
      BY <1>2, <2>1 DEF Goto, Typed
  <1>3. ASSUME NEW r \in Reqs, NEW t \in Tokens, NEW goal \in {"use", "logout"}, Send(r, t, goal)
        PROVE  req' \in [Reqs -> Handlers \cup {Idle}]
    BY <1>3 DEF Send, Typed, Handlers, Pcs
  <1>4. ASSUME NEW r \in Reqs, Lookup(r) \/ Touch(r) \/ Logout(r) \/ Abort(r)
        PROVE  req' \in [Reqs -> Handlers \cup {Idle}]
    <2>1. CASE Lookup(r)
      BY <1>1, <1>2, <2>1, Working DEF Lookup, Pcs
    <2>2. CASE Touch(r)
      BY <1>1, <1>2, <2>2, Working DEF Touch, Pcs
    <2> QED
      BY <1>1, <1>4, <2>1, <2>2 DEF Logout, Abort
  <1> QED
    BY <1>3, <1>4 DEF Next, vars, SignIn, Cleanup, Tick, Typed

(* What each step does to a token that is known.                           *)
LEMMA RowsTyped ==
  ASSUME Typed, [Next]_vars
  PROVE  /\ sessions' \in [Tokens -> Expiries \cup {Null}]
         /\ now' \in Time /\ minted' \subseteq Tokens
         /\ \A t \in minted : sessions[t] = Null => sessions'[t] = Null
  <1>1. ASSUME NEW t \in Tokens, SignIn(t)
        PROVE  /\ sessions' \in [Tokens -> Expiries \cup {Null}]
               /\ now' \in Time /\ minted' \subseteq Tokens
               /\ \A s \in minted : sessions[s] = Null => sessions'[s] = Null
    BY <1>1, ExpiryTyped DEF SignIn, Typed
  <1>2. ASSUME NEW r \in Reqs, Touch(r)
        PROVE  /\ sessions' \in [Tokens -> Expiries \cup {Null}]
               /\ now' \in Time /\ minted' \subseteq Tokens
               /\ \A s \in minted : sessions[s] = Null => sessions'[s] = Null
    <2>1. req[r].token \in Tokens
      BY <1>2, Working DEF Touch
    <2>2. Touched(req[r].token) \in Expiries \cup {Null}
      BY ExpiryTyped DEF Touched, Typed
    <2> QED
      BY <1>2, <2>1, <2>2 DEF Touch, Touched, Typed
  <1>3. ASSUME NEW r \in Reqs, Lookup(r) \/ Logout(r) \/ Abort(r)
        PROVE  /\ sessions' \in [Tokens -> Expiries \cup {Null}]
               /\ now' \in Time /\ minted' \subseteq Tokens
               /\ \A s \in minted : sessions[s] = Null => sessions'[s] = Null
    BY <1>3 DEF Lookup, Logout, Abort, Typed
  <1>4. CASE Cleanup
    BY <1>4 DEF Cleanup, Typed
  <1>5. CASE Tick
    BY <1>5, TTLAssumption DEF Tick, Typed, Time
  <1>6. ASSUME NEW r \in Reqs, NEW t \in Tokens, NEW goal \in {"use", "logout"}, Send(r, t, goal)
        PROVE  UNCHANGED <<sessions, now, minted>>
    BY <1>6 DEF Send
  <1> QED
    BY <1>1, <1>2, <1>3, <1>4, <1>5, <1>6 DEF Next, vars, Typed

(* A session that was removed does not come back, whatever requests found  *)
(* it live before: TouchSession changes rows and makes none, and tokens    *)
(* are not drawn twice.                                                    *)
THEOREM RemovedStaysRemoved == Spec => NoRevival
  <1>1. Init => Typed
    BY TTLAssumption DEF Init, Typed, Time
  <1>2. Typed /\ [Next]_vars => Typed'
    BY RowsTyped, RequestsTyped DEF Typed
  <1>3. Typed /\ [Next]_vars => \A t \in minted : sessions[t] = Null => sessions'[t] = Null
    BY RowsTyped
  <1> QED
    BY <1>1, <1>2, <1>3, PTL DEF Spec, NoRevival

(* Cookies and requests carry tokens that were drawn; no expiry lies       *)
(* further away than a lifetime.                                           *)
Drawn ==
    /\ cookie \in [Tokens -> Expiries \cup {Null}]
    /\ \A t \in Tokens : cookie[t] # Null => t \in minted
    /\ \A r \in Reqs : req[r] # Idle => req[r].token \in minted
    /\ out \subseteq minted

WithinLifetime == \A t \in Tokens : sessions[t] # Null => sessions[t] <= now + TTL

LEMMA DrawnKept ==
  ASSUME Typed, Drawn, [Next]_vars
  PROVE  Drawn'
  <1>1. ASSUME NEW t \in Tokens, SignIn(t)
        PROVE  Drawn'
    BY <1>1, ExpiryTyped DEF SignIn, Typed, Drawn
  <1>2. ASSUME NEW r \in Reqs, NEW t \in Tokens, NEW goal \in {"use", "logout"}, Send(r, t, goal)
        PROVE  Drawn'
    BY <1>2 DEF Send, Typed, Drawn
  <1>3. ASSUME NEW r \in Reqs, Respond(r), UNCHANGED <<minted, cookie, out>>
        PROVE  Drawn'
    BY <1>3 DEF Respond, Typed, Drawn
  <1>4. ASSUME NEW r \in Reqs, NEW pc, Goto(r, pc), req[r] \in Handlers, req[r] # Idle,
               UNCHANGED <<minted, cookie, out>>
        PROVE  Drawn'
    <2>1. [req[r] EXCEPT !.pc = pc].token = req[r].token
      BY <1>4 DEF Handlers
    <2> QED
      BY <1>4, <2>1 DEF Goto, Typed, Drawn
  <1>5. ASSUME NEW r \in Reqs, NEW pc, At(r, pc), pc # "idle"
        PROVE  req[r] \in Handlers /\ req[r] # Idle
    BY <1>5 DEF At, Idle, Typed
  <1>6. ASSUME NEW r \in Reqs, Lookup(r)
        PROVE  Drawn'
    BY <1>3, <1>4, <1>5, <1>6 DEF Lookup
  <1>7. ASSUME NEW r \in Reqs, Touch(r)
        PROVE  Drawn'
    BY <1>3, <1>4, <1>5, <1>7 DEF Touch
  <1>8. ASSUME NEW r \in Reqs, Logout(r)
        PROVE  Drawn'
    BY <1>5, <1>8 DEF Logout, Respond, Typed, Drawn
  <1>9. ASSUME NEW r \in Reqs, Abort(r)
        PROVE  Drawn'
    BY <1>3, <1>9 DEF Abort
  <1> QED
    BY <1>1, <1>2, <1>6, <1>7, <1>8, <1>9 DEF Next, vars, Cleanup, Tick, Typed, Drawn

LEMMA LifetimeKept ==
  ASSUME Typed, WithinLifetime, [Next]_vars
  PROVE  WithinLifetime'
  <1>1. now + TTL <= now + TTL /\ now \in Nat /\ TTL \in Nat
    BY TTLAssumption DEF Typed, Time
  <1>2. ASSUME NEW t \in Tokens, SignIn(t)
        PROVE  WithinLifetime'
    BY <1>1, <1>2 DEF SignIn, Typed, WithinLifetime
  <1>3. ASSUME NEW r \in Reqs, Touch(r)
        PROVE  WithinLifetime'
    BY <1>1, <1>3, Working DEF Touch, Touched, Typed, WithinLifetime
  <1>4. CASE Tick
    <2>1. \A k \in Nat : k <= now + TTL => k <= (now + 1) + TTL
      BY <1>1
    <2>2. \A t \in Tokens : sessions[t] # Null => sessions[t] \in Nat
      BY DEF Typed, Expiries
    <2> QED
      BY <1>4, <2>1, <2>2 DEF Tick, WithinLifetime
  <1>5. ASSUME NEW r \in Reqs, Lookup(r) \/ Logout(r) \/ Abort(r)
        PROVE  WithinLifetime'
    BY <1>5 DEF Lookup, Logout, Abort, Typed, WithinLifetime
  <1>6. CASE Cleanup
    BY <1>6 DEF Cleanup, WithinLifetime
  <1> QED
    BY <1>2, <1>3, <1>4, <1>5, <1>6 DEF Next, vars, Send, WithinLifetime

(* Every variable stays within its type, and no expiry is further away     *)
(* than one lifetime: sliding replaces what is left, it does not add.      *)
THEOREM TypeCorrect == Spec => []TypeOK
  <1>1. Init => Typed /\ Drawn /\ WithinLifetime
    BY TTLAssumption DEF Init, Typed, Time, Drawn, WithinLifetime
  <1>2. Typed /\ Drawn /\ WithinLifetime /\ [Next]_vars => (Typed /\ Drawn /\ WithinLifetime)'
    <2>1. Typed /\ [Next]_vars => Typed'
      BY RowsTyped, RequestsTyped DEF Typed
    <2> QED
      BY <2>1, DrawnKept, LifetimeKept
  <1>3. Typed /\ Drawn /\ WithinLifetime => TypeOK
    BY DEF Typed, Drawn, WithinLifetime, TypeOK
  <1> QED
    BY <1>1, <1>2, <1>3, PTL DEF Spec

=============================================================================
