--------------------------- MODULE AccountsProofs ---------------------------
(* Proofs about Accounts, for every value of its constants.                *)
EXTENDS Accounts, TLAPS, FiniteSetTheorems

(* What the position of a handler and the kind of a ceremony say of their  *)
(* fields; m are the identifiers drawn, a the authenticators.  A request   *)
(* about to store a credential, or to open a session with one, has a       *)
(* credential made for the account concerned.                              *)
HandlerShape(h, m, a) ==
    /\ h.pc \in {"check_invite", "check_name", "register_tx"} =>
         h.name \in Names /\ h.invite \in Invites
    /\ h.pc \in {"register_take", "login_take", "add_take", "register_tx", "login_user",
                 "login_creds", "login_sign", "add_row", "session"} =>
         h.cer \in Ceremonies /\ h.cer \in m
    /\ h.pc \in {"register_tx", "add_put", "add_take", "add_row", "count", "delete",
                 "session", "login_creds", "login_sign"} => h.user \in UserIds
    /\ h.pc \in {"register_take", "register_tx", "add_take", "add_row", "count",
                 "delete", "login_sign", "session"} => h.cred \in Creds
    /\ h.pc \in {"register_tx", "add_row", "login_sign", "session"} =>
         a[h.cred] # Null /\ a[h.cred].user = h.user

CeremonyShape(c) ==
    /\ c.kind \in {"register", "add"} => c.user \in UserIds
    /\ c.kind = "register" => c.name \in Names /\ c.invite \in Invites

ReqInv ==
    /\ req \in [Reqs -> Handlers \cup {Idle}]
    /\ \A r \in Reqs : HandlerShape(req[r], minted, authn)

LiveInv ==
    /\ live \in [Ceremonies -> Optional(CeremonyRecords)]
    /\ \A x \in Ceremonies : live[x] # Null => x \in minted /\ CeremonyShape(live[x])

TableInv ==
    /\ invites \in [Invites -> {"none", "unused", "used"}]
    /\ users \in [UserIds -> Optional(Names)]
    /\ passkeys \in [Creds -> Optional(PasskeyRows)]
    /\ sessions \in [Tokens -> Optional(UserIds)]

OtherInv ==
    /\ minted \subseteq UserIds \cup Ceremonies \cup Tokens
    /\ authn \in [Creds -> Optional(Authenticators)]

(* A credential was made for the user of the ceremony it answers.          *)
AttestInv ==
    \A c \in Creds : authn[c] # Null =>
        /\ authn[c].cer \in minted
        /\ live[authn[c].cer] # Null => authn[c].user = live[authn[c].cer].user

Inv == TableInv /\ OtherInv /\ LiveInv /\ ReqInv /\ AttestInv /\ HandleMatchesRow

(* Identifiers drawn and credentials made are not taken back.              *)
Grows ==
    /\ minted \subseteq minted'
    /\ \A c \in Creds : authn[c] # Null =>
         authn'[c] # Null /\ authn'[c].user = authn[c].user /\ authn'[c].cer = authn[c].cer

(* The invariant holds initially.                                          *)
THEOREM InitInv == Init => Inv
  BY NullAssumption, CountAssumption
  DEF Init, Inv, TableInv, OtherInv, LiveInv, ReqInv, HandlerShape, CeremonyShape, AttestInv,
      HandleMatchesRow, Idle, Optional

(* Replacing one handler by another well-formed one keeps ReqInv.          *)
LEMMA ReqStep ==
  ASSUME ReqInv, NEW r \in Reqs, NEW h \in Handlers \cup {Idle},
         req' = [req EXCEPT ![r] = h], Grows, HandlerShape(h, minted', authn')
  PROVE  ReqInv'
  <1>1. \A s \in Reqs : HandlerShape(req[s], minted', authn')
    BY DEF ReqInv, HandlerShape, Grows
  <1>2. \A s \in Reqs : HandlerShape(req'[s], minted', authn')
    BY <1>1 DEF ReqInv
  <1> QED
    BY <1>2 DEF ReqInv

(* Answering a request keeps ReqInv.                                       *)
LEMMA RespondStep ==
  ASSUME ReqInv, NEW r \in Reqs, Respond(r), Grows
  PROVE  ReqInv'
  <1>1. HandlerShape(Idle, minted', authn')
    BY DEF HandlerShape, Idle
  <1> QED
    BY <1>1, ReqStep DEF Respond

(* So does a step that moves no request.                                   *)
LEMMA Unmoved ==
  ASSUME ReqInv, UNCHANGED req, Grows
  PROVE  ReqInv'
  BY DEF ReqInv, HandlerShape, Grows

(* Moving a handler forward with its fields as they are.                   *)
LEMMA GotoStep ==
  ASSUME ReqInv, NEW r \in Reqs, req[r] # Idle, NEW pc \in Pcs, Goto(r, pc), Grows,
         HandlerShape([req[r] EXCEPT !.pc = pc], minted', authn')
  PROVE  ReqInv'
  <1> DEFINE h == [req[r] EXCEPT !.pc = pc]
  <1>1. h \in Handlers
    BY DEF ReqInv, Handlers
  <1>2. req' = [req EXCEPT ![r] = h]
    BY DEF Goto
  <1> HIDE DEF h
  <1> QED
    BY <1>1, <1>2, ReqStep DEF h

(* Put and Take keep the ceremonies well formed.                           *)
LEMMA PutStep ==
  ASSUME LiveInv, AttestInv, OtherInv, NEW x \in Ceremonies, NEW c \in CeremonyRecords,
         CeremonyShape(c), Put(x, c), minted \cup {x} \subseteq minted', authn' = authn
  PROVE  LiveInv' /\ AttestInv'
  BY DEF LiveInv, AttestInv, OtherInv, Authenticators, Put, Optional

LEMMA TakeStep ==
  ASSUME LiveInv, AttestInv, OtherInv, NEW x, Take(x), minted' = minted, authn' = authn
  PROVE  LiveInv' /\ AttestInv'
  BY DEF LiveInv, AttestInv, OtherInv, Authenticators, Take, Optional

(* A request starts well formed.                                           *)
LEMMA FreshHandler == \A pc \in Pcs : Handler(pc) \in Handlers
  BY CountAssumption DEF Handler, Handlers, Optional

(* Setting a handler's fields leaves it one.                               *)
LEMMA HandlerSetCred ==
  ASSUME NEW h \in Handlers, NEW c \in Creds
  PROVE  [h EXCEPT !.cred = c] \in Handlers
  BY DEF Handlers, Optional

LEMMA HandlerSetCer ==
  ASSUME NEW h \in Handlers, NEW x \in Ceremonies
  PROVE  [h EXCEPT !.cer = x] \in Handlers
  BY DEF Handlers, Optional

LEMMA HandlerSetUser ==
  ASSUME NEW h \in Handlers, NEW pc \in Pcs, NEW u \in UserIds
  PROVE  [h EXCEPT !.pc = pc, !.user = u] \in Handlers
  <1>1. [h EXCEPT !.pc = pc] \in Handlers
    BY DEF Handlers
  <1> QED
    BY <1>1 DEF Handlers, Optional

(* A step that changes nothing but one request's handler.                  *)
LEMMA MoveStep ==
  ASSUME Inv, NEW r \in Reqs, NEW h \in Handlers \cup {Idle}, req' = [req EXCEPT ![r] = h],
         UNCHANGED <<tables, live, minted, authn>>, HandlerShape(h, minted, authn)
  PROVE  Inv'
  <1>1. Grows
    BY DEF Grows
  <1>2. ReqInv'
    BY <1>1, ReqStep DEF Inv
  <1> QED
    BY <1>2 DEF Inv, TableInv, OtherInv, LiveInv, AttestInv, HandleMatchesRow, tables

(* Such a step that answers the request.                                   *)
LEMMA MoveRespond ==
  ASSUME Inv, NEW r \in Reqs, Respond(r), UNCHANGED <<tables, live, minted, authn>>
  PROVE  Inv'
  BY MoveStep DEF Respond, HandlerShape, Idle

(* Such a step that moves the request on.                                  *)
LEMMA MoveGoto ==
  ASSUME Inv, NEW r \in Reqs, req[r] # Idle, NEW pc \in Pcs, Goto(r, pc),
         HandlerShape([req[r] EXCEPT !.pc = pc], minted, authn),
         UNCHANGED <<tables, live, minted, authn>>
  PROVE  Inv'
  <1> DEFINE h == [req[r] EXCEPT !.pc = pc]
  <1>1. h \in Handlers
    BY DEF Inv, ReqInv, Handlers
  <1>2. req' = [req EXCEPT ![r] = h]
    BY DEF Goto
  <1> HIDE DEF h
  <1> QED
    BY <1>1, <1>2, MoveStep DEF h

(* The handler of a request that is under way.                             *)
LEMMA Working ==
  ASSUME Inv, NEW r \in Reqs, NEW pc, At(r, pc), pc # "idle"
  PROVE  req[r] \in Handlers /\ req[r] # Idle /\ HandlerShape(req[r], minted, authn)
  BY DEF Inv, ReqInv, At, Idle

----------------------------------------------------------------------------
(* Requests arrive.                                                        *)

LEMMA RegisterBeginInv ==
  ASSUME Inv, NEW r \in Reqs, NEW n \in Names, NEW i \in Invites,
         RegisterBegin(r, n, i)
  PROVE  Inv'
  <1> DEFINE h == [Handler("check_invite") EXCEPT !.name = n, !.invite = i]
  <1>1. h \in Handlers
    <2>1. Handler("check_invite") \in Handlers
      BY FreshHandler DEF Pcs
    <2> QED
      BY <2>1 DEF Handlers, Optional
  <1>2. HandlerShape(h, minted, authn)
    BY DEF HandlerShape, Handler
  <1>3. req' = [req EXCEPT ![r] = h]
    BY DEF RegisterBegin, Start
  <1> HIDE DEF h
  <1> QED
    BY <1>1, <1>2, <1>3, MoveStep DEF RegisterBegin

(* RegisterFinish keeps the invariant.                                     *)
LEMMA RegisterFinishInv ==
  ASSUME Inv, NEW r \in Reqs, NEW x \in Ceremonies \cap minted, NEW c \in Creds,
         RegisterFinish(r, x, c)
  PROVE  Inv'
  <1> DEFINE h == [Handler("register_take") EXCEPT !.cer = x, !.cred = c]
  <1>1. h \in Handlers
    <2>1. Handler("register_take") \in Handlers
      BY FreshHandler DEF Pcs
    <2> QED
      BY <2>1 DEF Handlers, Optional
  <1>2. HandlerShape(h, minted, authn)
    BY DEF HandlerShape, Handler
  <1>3. req' = [req EXCEPT ![r] = h]
    BY DEF RegisterFinish, Start
  <1> HIDE DEF h
  <1> QED
    BY <1>1, <1>2, <1>3, MoveStep DEF RegisterFinish

(* LoginBegin keeps the invariant.                                         *)
LEMMA LoginBeginInv ==
  ASSUME Inv, NEW r \in Reqs, NEW n \in Optional(Names),
         LoginBegin(r, n)
  PROVE  Inv'
  <1> DEFINE h == [Handler(IF n = Null THEN "begin_creds" ELSE "begin_user") EXCEPT !.name = n]
  <1>1. h \in Handlers
    <2>1. Handler(IF n = Null THEN "begin_creds" ELSE "begin_user") \in Handlers
      BY FreshHandler DEF Pcs
    <2> QED
      BY <2>1 DEF Handlers, Optional
  <1>2. HandlerShape(h, minted, authn)
    BY DEF HandlerShape, Handler
  <1>3. req' = [req EXCEPT ![r] = h]
    BY DEF LoginBegin, Start
  <1> HIDE DEF h
  <1> QED
    BY <1>1, <1>2, <1>3, MoveStep DEF LoginBegin

(* PasskeyBegin keeps the invariant.                                       *)
LEMMA PasskeyBeginInv ==
  ASSUME Inv, NEW r \in Reqs, NEW t \in Tokens,
         PasskeyBegin(r, t)
  PROVE  Inv'
  <1> DEFINE h == [Handler("add_put") EXCEPT !.user = sessions[t]]
  <1>0. sessions[t] \in UserIds
    BY DEF PasskeyBegin, Authed, Inv, TableInv, Optional
  <1>1. h \in Handlers
    <2>1. Handler("add_put") \in Handlers
      BY FreshHandler DEF Pcs
    <2> QED
      BY <1>0, <2>1 DEF Handlers, Optional
  <1>2. HandlerShape(h, minted, authn)
    BY <1>0 DEF HandlerShape, Handler
  <1>3. req' = [req EXCEPT ![r] = h]
    BY DEF PasskeyBegin, Authed, Start
  <1> HIDE DEF h
  <1> QED
    BY <1>1, <1>2, <1>3, MoveStep DEF PasskeyBegin

(* PasskeyFinish keeps the invariant.                                      *)
LEMMA PasskeyFinishInv ==
  ASSUME Inv, NEW r \in Reqs, NEW t \in Tokens, NEW x \in Ceremonies \cap minted, NEW c \in Creds,
         PasskeyFinish(r, t, x, c)
  PROVE  Inv'
  <1> DEFINE h == [Handler("add_take") EXCEPT !.cer = x, !.cred = c, !.user = sessions[t]]
  <1>0. sessions[t] \in UserIds
    BY DEF PasskeyFinish, Authed, Inv, TableInv, Optional
  <1>1. h \in Handlers
    <2>1. Handler("add_take") \in Handlers
      BY FreshHandler DEF Pcs
    <2> QED
      BY <1>0, <2>1 DEF Handlers, Optional
  <1>2. HandlerShape(h, minted, authn)
    BY <1>0 DEF HandlerShape, Handler
  <1>3. req' = [req EXCEPT ![r] = h]
    BY DEF PasskeyFinish, Authed, Start
  <1> HIDE DEF h
  <1> QED
    BY <1>1, <1>2, <1>3, MoveStep DEF PasskeyFinish

(* PasskeyDelete keeps the invariant.                                      *)
LEMMA PasskeyDeleteInv ==
  ASSUME Inv, NEW r \in Reqs, NEW t \in Tokens, NEW c \in Creds,
         PasskeyDelete(r, t, c)
  PROVE  Inv'
  <1> DEFINE h == [Handler("count") EXCEPT !.cred = c, !.user = sessions[t]]
  <1>0. sessions[t] \in UserIds
    BY DEF PasskeyDelete, Authed, Inv, TableInv, Optional
  <1>1. h \in Handlers
    <2>1. Handler("count") \in Handlers
      BY FreshHandler DEF Pcs
    <2> QED
      BY <1>0, <2>1 DEF Handlers, Optional
  <1>2. HandlerShape(h, minted, authn)
    BY <1>0 DEF HandlerShape, Handler
  <1>3. req' = [req EXCEPT ![r] = h]
    BY DEF PasskeyDelete, Authed, Start
  <1> HIDE DEF h
  <1> QED
    BY <1>1, <1>2, <1>3, MoveStep DEF PasskeyDelete

(* LoginFinish keeps the invariant.                                        *)
LEMMA LoginFinishInv ==
  ASSUME Inv, NEW r \in Reqs, NEW x \in Ceremonies \cap minted, NEW y \in Ceremonies \cap minted,
         NEW c \in Creds, LoginFinish(r, x, y, c)
  PROVE  Inv'
  <1> DEFINE k == authn[c].count + 1
             b == [authn[c] EXCEPT !.count = k]
             d == IF x = y THEN c ELSE Null
             h == [Handler("login_take") EXCEPT !.cer = y, !.count = k, !.cred = d]
  <1>1. authn[c] \in Authenticators /\ authn[c].count < MaxCount
    BY DEF LoginFinish, Inv, OtherInv, Optional
  <1>2. k \in 0..MaxCount
    BY <1>1, CountAssumption DEF Authenticators
  <1>3. authn' = [authn EXCEPT ![c] = b] /\ UNCHANGED <<tables, live, minted>>
    BY DEF LoginFinish
  <1>4. req' = [req EXCEPT ![r] = h]
    BY DEF LoginFinish, Start
  <1> HIDE DEF k
  <1>5. b \in Authenticators /\ b.user = authn[c].user /\ b.cer = authn[c].cer
    BY <1>1, <1>2 DEF Authenticators
  <1> HIDE DEF b
  <1>6. OtherInv'
    BY <1>3, <1>5 DEF Inv, OtherInv, Optional
  <1>7. /\ \A e \in Creds : authn[e] # Null <=> authn'[e] # Null
        /\ \A e \in Creds : authn'[e].user = authn[e].user /\ authn'[e].cer = authn[e].cer
    <2>1. b # Null
      BY <1>5, NullAssumption
    <2> QED
      BY <1>3, <1>5, <2>1 DEF Inv, OtherInv, LoginFinish
  <1>8. ReqInv'
    <2> d \in Optional(Creds)
      BY DEF Optional
    <2> HIDE DEF d
    <2>1. h \in Handlers
      <3>1. Handler("login_take") \in Handlers
        BY FreshHandler DEF Pcs
      <3> QED
        BY <1>2, <3>1 DEF Handlers, Optional
    <2>2. HandlerShape(h, minted', authn')
      BY <1>3 DEF HandlerShape, Handler
    <2>3. Grows
      BY <1>3, <1>7 DEF Grows
    <2> HIDE DEF h
    <2> QED
      BY <1>4, <2>1, <2>2, <2>3, ReqStep DEF Inv
  <1>9. AttestInv' /\ HandleMatchesRow'
    BY <1>3, <1>7 DEF Inv, AttestInv, HandleMatchesRow, tables
  <1> QED
    BY <1>3, <1>6, <1>8, <1>9 DEF Inv, TableInv, LiveInv, tables

----------------------------------------------------------------------------
(* Steps that read and move on.                                            *)

LEMMA CheckInviteCodeInv ==
  ASSUME Inv, NEW r \in Reqs, CheckInviteCode(r)
  PROVE  Inv'
  <1>1. CASE Respond(r)
    BY <1>1, MoveRespond DEF CheckInviteCode
  <1>2. CASE Goto(r, "check_name")
    <2>1. req[r] \in Handlers /\ req[r] # Idle /\ HandlerShape(req[r], minted, authn)
      BY Working DEF CheckInviteCode
    <2>2. HandlerShape([req[r] EXCEPT !.pc = "check_name"], minted, authn)
      BY <2>1 DEF CheckInviteCode, At, HandlerShape, Handlers
    <2> QED
      BY <1>2, <2>1, <2>2, MoveGoto DEF CheckInviteCode, Pcs
  <1> QED
    BY <1>1, <1>2 DEF CheckInviteCode

(* CountPasskeys keeps the invariant.                                      *)
LEMMA CountPasskeysInv ==
  ASSUME Inv, NEW r \in Reqs, CountPasskeys(r)
  PROVE  Inv'
  <1>1. CASE Respond(r)
    BY <1>1, MoveRespond DEF CountPasskeys
  <1>2. CASE Goto(r, "delete")
    <2>1. req[r] \in Handlers /\ req[r] # Idle /\ HandlerShape(req[r], minted, authn)
      BY Working DEF CountPasskeys
    <2>2. HandlerShape([req[r] EXCEPT !.pc = "delete"], minted, authn)
      BY <2>1 DEF CountPasskeys, At, HandlerShape, Handlers
    <2> QED
      BY <1>2, <2>1, <2>2, MoveGoto DEF CountPasskeys, Pcs
  <1> QED
    BY <1>1, <1>2 DEF CountPasskeys

(* BeginLoginUser keeps the invariant.                                     *)
LEMMA BeginLoginUserInv ==
  ASSUME Inv, NEW r \in Reqs, BeginLoginUser(r)
  PROVE  Inv'
  <1>1. CASE Respond(r)
    BY <1>1, MoveRespond DEF BeginLoginUser
  <1>2. ASSUME NEW u \in UserIds,
               req' = [req EXCEPT ![r].pc = "begin_creds", ![r].user = u]
        PROVE  Inv'
    <2> DEFINE h == [req[r] EXCEPT !.pc = "begin_creds", !.user = u]
    <2>1. h \in Handlers
      BY Working DEF BeginLoginUser, Handlers, Pcs, Optional
    <2>2. HandlerShape(h, minted, authn)
      BY Working DEF BeginLoginUser, HandlerShape, Handlers
    <2>3. req' = [req EXCEPT ![r] = h]
      BY <1>2, Working DEF BeginLoginUser, Inv, ReqInv
    <2> HIDE DEF h
    <2> QED
      BY <2>1, <2>2, <2>3, MoveStep DEF BeginLoginUser
  <1> QED
    BY <1>1, <1>2 DEF BeginLoginUser, UsersNamed

(* LoginUser keeps the invariant.                                          *)
LEMMA LoginUserInv ==
  ASSUME Inv, NEW r \in Reqs, LoginUser(r)
  PROVE  Inv'
  <1>1. CASE Respond(r)
    BY <1>1, MoveRespond DEF LoginUser
  <1>2. ASSUME NEW u \in UserIds,
               req' = [req EXCEPT ![r].pc = "login_creds", ![r].user = u]
        PROVE  Inv'
    <2> DEFINE h == [req[r] EXCEPT !.pc = "login_creds", !.user = u]
    <2>1. h \in Handlers
      <3>1. req[r] \in Handlers /\ "login_creds" \in Pcs
        BY Working DEF LoginUser, Pcs
      <3> QED
        BY <3>1, HandlerSetUser
    <2>2. HandlerShape(h, minted, authn)
      BY Working DEF LoginUser, HandlerShape, Handlers, At
    <2>3. req' = [req EXCEPT ![r] = h]
      BY <1>2, Working DEF LoginUser, Inv, ReqInv
    <2> HIDE DEF h
    <2> QED
      BY <2>1, <2>2, <2>3, MoveStep DEF LoginUser
  <1> QED
    BY <1>1, <1>2 DEF LoginUser, UsersNamed

(* LoginCreds keeps the invariant.                                         *)
LEMMA LoginCredsInv ==
  ASSUME Inv, NEW r \in Reqs, LoginCreds(r)
  PROVE  Inv'
  <1>1. CASE Respond(r)
    BY <1>1, MoveRespond DEF LoginCreds
  <1>2. CASE LoginVerified(req[r])
    <2> DEFINE k == NextCount(passkeys[req[r].cred].count, req[r].count)
               h == [req[r] EXCEPT !.pc = "login_sign", !.count = k]
    <2>1. req[r] \in Handlers /\ HandlerShape(req[r], minted, authn)
      BY Working DEF LoginCreds
    <2>2. /\ req[r].cred \in Creds /\ passkeys[req[r].cred] \in PasskeyRows
          /\ authn[req[r].cred] # Null /\ authn[req[r].cred].user = req[r].user
      BY <1>2, <2>1 DEF LoginVerified, PasskeysOf, Inv, TableInv, HandleMatchesRow, Optional
    <2>3. k \in 0..MaxCount
      BY <2>1, <2>2 DEF NextCount, PasskeyRows, Handlers
    <2> HIDE DEF k
    <2>4. h \in Handlers
      BY <2>1, <2>3 DEF Handlers, Pcs
    <2>5. HandlerShape(h, minted, authn)
      BY <2>1, <2>2 DEF LoginCreds, At, HandlerShape, Handlers
    <2>6. req' = [req EXCEPT ![r] = h]
      BY <1>2, <2>1 DEF LoginCreds, Inv, ReqInv, k
    <2> HIDE DEF h
    <2> QED
      BY <2>4, <2>5, <2>6, MoveStep DEF LoginCreds
  <1> QED
    BY <1>1, <1>2 DEF LoginCreds

----------------------------------------------------------------------------
(* Ceremonies are put and taken.                                           *)

LEMMA BeginRegisterInv ==
  ASSUME Inv, NEW r \in Reqs, BeginRegister(r)
  PROVE  Inv'
  <1>1. CASE UNCHANGED <<live, minted>>
    BY <1>1, MoveRespond DEF BeginRegister
  <1>2. ASSUME NEW x \in Ceremonies, NEW u \in UserIds,
               Put(x, Ceremony("register", req[r].name, u, req[r].invite, {})),
               minted' = minted \cup {x, u}
        PROVE  Inv'
    <2> DEFINE c == Ceremony("register", req[r].name, u, req[r].invite, {})
    <2>1. req[r].name \in Names /\ req[r].invite \in Invites
      BY Working DEF BeginRegister, At, HandlerShape
    <2>2. c \in CeremonyRecords /\ CeremonyShape(c)
      BY <2>1 DEF Ceremony, CeremonyRecords, CeremonyShape, Optional
    <2>3. UNCHANGED <<tables, authn>>
      BY DEF BeginRegister
    <2> HIDE DEF c
    <2>4. LiveInv' /\ AttestInv'
      BY <1>2, <2>2, <2>3, PutStep DEF Inv, c
    <2>5. ReqInv'
      BY <1>2, <2>3, RespondStep DEF BeginRegister, Inv, Grows
    <2> QED
      BY <1>2, <2>3, <2>4, <2>5 DEF Inv, TableInv, OtherInv, HandleMatchesRow, tables
  <1> QED
    BY <1>1, <1>2 DEF BeginRegister

(* BeginLogin keeps the invariant.                                         *)
LEMMA BeginLoginInv ==
  ASSUME Inv, NEW r \in Reqs, BeginLogin(r)
  PROVE  Inv'
  <1> DEFINE allowed == IF req[r].name = Null THEN {} ELSE PasskeysOf(req[r].user)
             c == Ceremony("login", req[r].name, req[r].user, Null, allowed)
  <1>1. CASE UNCHANGED <<live, minted>>
    BY <1>1, MoveRespond DEF BeginLogin
  <1>2. ASSUME NEW x \in Ceremonies, Put(x, c), minted' = minted \cup {x}
        PROVE  Inv'
    <2>1. req[r] \in Handlers /\ allowed \in SUBSET Creds
      BY Working DEF BeginLogin, PasskeysOf
    <2> HIDE DEF allowed
    <2>2. c \in CeremonyRecords /\ CeremonyShape(c)
      BY <2>1 DEF Ceremony, CeremonyRecords, CeremonyShape, Handlers, Optional
    <2>3. UNCHANGED <<tables, authn>>
      BY DEF BeginLogin
    <2> HIDE DEF c
    <2>4. LiveInv' /\ AttestInv'
      BY <1>2, <2>2, <2>3, PutStep DEF Inv
    <2>5. ReqInv'
      BY <1>2, <2>3, RespondStep DEF BeginLogin, Inv, Grows
    <2> QED
      BY <1>2, <2>3, <2>4, <2>5 DEF Inv, TableInv, OtherInv, HandleMatchesRow, tables
  <1> QED
    BY <1>1, <1>2 DEF BeginLogin

(* BeginAddPasskey keeps the invariant.                                    *)
LEMMA BeginAddPasskeyInv ==
  ASSUME Inv, NEW r \in Reqs, BeginAddPasskey(r)
  PROVE  Inv'
  <1> DEFINE c == Ceremony("add", Null, req[r].user, Null, {})
  <1> PICK x \in Ceremonies : Put(x, c) /\ minted' = minted \cup {x}
    BY DEF BeginAddPasskey
  <1>1. req[r].user \in UserIds
    BY Working DEF BeginAddPasskey, At, HandlerShape
  <1>2. c \in CeremonyRecords /\ CeremonyShape(c)
    BY <1>1 DEF Ceremony, CeremonyRecords, CeremonyShape, Optional
  <1>3. UNCHANGED <<tables, authn>>
    BY DEF BeginAddPasskey
  <1> HIDE DEF c
  <1>4. LiveInv' /\ AttestInv'
    BY <1>2, <1>3, PutStep DEF Inv
  <1>5. ReqInv'
    BY <1>3, RespondStep DEF BeginAddPasskey, Inv, Grows
  <1> QED
    BY <1>3, <1>4, <1>5 DEF Inv, TableInv, OtherInv, HandleMatchesRow, tables

(* A step that takes a ceremony and moves its request.                     *)
LEMMA TakeMove ==
  ASSUME Inv, NEW r \in Reqs, NEW x, NEW h \in Handlers \cup {Idle}, Take(x),
         req' = [req EXCEPT ![r] = h], UNCHANGED <<tables, minted, authn>>,
         HandlerShape(h, minted, authn)
  PROVE  Inv'
  <1>1. LiveInv' /\ AttestInv'
    BY TakeStep DEF Inv
  <1>2. ReqInv'
    BY ReqStep DEF Inv, Grows
  <1> QED
    BY <1>1, <1>2 DEF Inv, TableInv, OtherInv, HandleMatchesRow, tables

(* A step that takes a ceremony and answers.                               *)
LEMMA TakeRespond ==
  ASSUME Inv, NEW r \in Reqs, NEW x, Take(x), Respond(r), UNCHANGED <<tables, minted, authn>>
  PROVE  Inv'
  BY TakeMove DEF Respond, HandlerShape, Idle

(* RegisterTake keeps the invariant.                                       *)
LEMMA RegisterTakeInv ==
  ASSUME Inv, NEW r \in Reqs, RegisterTake(r)
  PROVE  Inv'
  <1> DEFINE x == req[r].cer
             h == [req[r] EXCEPT !.pc = "register_tx", !.user = live[x].user,
                                 !.name = live[x].name, !.invite = live[x].invite]
  <1>1. req[r] \in Handlers /\ HandlerShape(req[r], minted, authn) /\ req[r].pc = "register_take"
    BY Working DEF RegisterTake, At
  <1>2. CASE Respond(r)
    BY <1>2, TakeRespond DEF RegisterTake
  <1>3. CASE /\ Good(x, "register") /\ Attested(req[r].cred, x)
             /\ req' = [req EXCEPT ![r] = h]
    <2>1. /\ live[x] \in CeremonyRecords /\ CeremonyShape(live[x])
          /\ live[x].kind = "register" /\ live[x] # Null
      BY <1>1, <1>3 DEF Good, Inv, LiveInv, Optional, HandlerShape
    <2>2. h \in Handlers
      BY <1>1, <2>1 DEF Handlers, Pcs, CeremonyRecords
    <2>3. /\ h.pc = "register_tx" /\ h.cer = x /\ h.cred = req[r].cred
          /\ h.user = live[x].user /\ h.name = live[x].name /\ h.invite = live[x].invite
      BY <1>1 DEF Handlers
    <2> HIDE DEF h
    <2>4. authn[h.cred] # Null /\ authn[h.cred].user = h.user
      BY <1>1, <1>3, <2>1, <2>3 DEF Attested, Inv, AttestInv, HandlerShape
    <2>5. HandlerShape(h, minted, authn)
      BY <1>1, <2>1, <2>3, <2>4 DEF HandlerShape, CeremonyShape
    <2> QED
      BY <1>3, <2>2, <2>5, TakeMove DEF RegisterTake
  <1> QED
    BY <1>1, <1>2, <1>3 DEF RegisterTake, Inv, ReqInv

(* LoginTake keeps the invariant.                                          *)
LEMMA LoginTakeInv ==
  ASSUME Inv, NEW r \in Reqs, LoginTake(r)
  PROVE  Inv'
  <1> DEFINE x == req[r].cer
             h == [req[r] EXCEPT !.pc = "login_user", !.name = live[x].name,
                                 !.user = live[x].user, !.allowed = live[x].allowed]
  <1>1. req[r] \in Handlers /\ HandlerShape(req[r], minted, authn) /\ req[r].pc = "login_take"
    BY Working DEF LoginTake, At
  <1>2. CASE Respond(r)
    BY <1>2, TakeRespond DEF LoginTake
  <1>3. CASE Good(x, "login") /\ req' = [req EXCEPT ![r] = h]
    <2>1. live[x] \in CeremonyRecords
      BY <1>1, <1>3 DEF Good, Inv, LiveInv, Optional, HandlerShape
    <2>2. h \in Handlers
      BY <1>1, <2>1 DEF Handlers, Pcs, CeremonyRecords
    <2>3. HandlerShape(h, minted, authn)
      BY <1>1 DEF HandlerShape, Handlers
    <2> HIDE DEF h
    <2> QED
      BY <1>3, <2>2, <2>3, TakeMove DEF LoginTake
  <1> QED
    BY <1>1, <1>2, <1>3 DEF LoginTake, Inv, ReqInv

(* AddTake keeps the invariant.                                            *)
LEMMA AddTakeInv ==
  ASSUME Inv, NEW r \in Reqs, AddTake(r)
  PROVE  Inv'
  <1> DEFINE x == req[r].cer
             h == [req[r] EXCEPT !.pc = "add_row"]
  <1>1. req[r] \in Handlers /\ HandlerShape(req[r], minted, authn) /\ req[r].pc = "add_take"
    BY Working DEF AddTake, At
  <1>2. CASE Respond(r)
    BY <1>2, TakeRespond DEF AddTake
  <1>3. CASE /\ Good(x, "add") /\ live[x].user = req[r].user /\ Attested(req[r].cred, x)
             /\ Goto(r, "add_row")
    <2>1. h \in Handlers
      BY <1>1 DEF Handlers, Pcs
    <2>2. h.pc = "add_row" /\ h.cer = x /\ h.cred = req[r].cred /\ h.user = req[r].user
      BY <1>1 DEF Handlers
    <2>3. req' = [req EXCEPT ![r] = h]
      BY <1>3 DEF Goto
    <2> HIDE DEF h
    <2>4. authn[h.cred] # Null /\ authn[h.cred].user = h.user
      BY <1>1, <1>3, <2>2 DEF Good, Attested, Inv, AttestInv, HandlerShape
    <2>5. HandlerShape(h, minted, authn)
      BY <1>1, <2>2, <2>4 DEF HandlerShape
    <2> QED
      BY <2>1, <2>3, <2>5, TakeMove DEF AddTake
  <1> QED
    BY <1>1, <1>2, <1>3 DEF AddTake, AddVerified

----------------------------------------------------------------------------
(* Steps that write a table, and steps of the environment.                 *)

LEMMA RegisterWithPasskeyInv ==
  ASSUME Inv, NEW r \in Reqs, RegisterWithPasskey(r)
  PROVE  Inv'
  <1> DEFINE h == req[r]
             row == [user |-> h.user, count |-> authn[h.cred].count]
  <1>1. h \in Handlers /\ h # Idle /\ HandlerShape(h, minted, authn) /\ h.pc = "register_tx"
    BY Working DEF RegisterWithPasskey, At
  <1>2. CASE Respond(r) /\ UNCHANGED <<invites, users, passkeys>>
    BY <1>2, MoveRespond DEF RegisterWithPasskey, tables
  <1>3. CASE RegisterOK(h) /\ Goto(r, "session")
    <2>1. HandlerShape([h EXCEPT !.pc = "session"], minted', authn')
      BY <1>1 DEF RegisterWithPasskey, HandlerShape, Handlers
    <2>2. ReqInv'
      BY <1>1, <1>3, <2>1, GotoStep DEF RegisterWithPasskey, Inv, Pcs, Grows
    <2>3. /\ h.invite \in Invites /\ h.user \in UserIds /\ h.name \in Names /\ h.cred \in Creds
          /\ authn[h.cred] # Null /\ authn[h.cred].user = h.user
      BY <1>1 DEF HandlerShape
    <2>4. row \in PasskeyRows
      BY <2>3 DEF Inv, OtherInv, Optional, Authenticators, PasskeyRows
    <2>5. /\ invites' = [invites EXCEPT ![h.invite] = "used"]
          /\ users' = [users EXCEPT ![h.user] = h.name]
          /\ passkeys' = [passkeys EXCEPT ![h.cred] = row]
          /\ UNCHANGED <<sessions, live, minted, authn>>
      BY <1>1, <1>3 DEF RegisterWithPasskey, Respond, Goto, Inv, ReqInv
    <2>6. TableInv'
      BY <2>3, <2>4, <2>5 DEF Inv, TableInv, Optional
    <2>7. HandleMatchesRow'
      BY <2>3, <2>5 DEF Inv, TableInv, HandleMatchesRow
    <2> QED
      BY <2>2, <2>5, <2>6, <2>7 DEF Inv, OtherInv, LiveInv, AttestInv
  <1> QED
    BY <1>2, <1>3 DEF RegisterWithPasskey

(* IssueSession keeps the invariant.                                       *)
LEMMA IssueSessionInv ==
  ASSUME Inv, NEW r \in Reqs, IssueSession(r)
  PROVE  Inv'
  <1> PICK t \in Tokens : /\ sessions' = [sessions EXCEPT ![t] = req[r].user]
                          /\ minted' = minted \cup {t}
    BY DEF IssueSession
  <1>1. req[r].user \in UserIds
    BY Working DEF IssueSession, At, HandlerShape
  <1>2. ReqInv'
    BY RespondStep DEF IssueSession, Inv, Grows
  <1>3. TableInv' /\ OtherInv' /\ LiveInv'
    BY <1>1 DEF IssueSession, Inv, TableInv, OtherInv, LiveInv, Optional
  <1> QED
    BY <1>2, <1>3 DEF IssueSession, Inv, AttestInv, HandleMatchesRow

(* LoginSign keeps the invariant.                                          *)
LEMMA LoginSignInv ==
  ASSUME Inv, NEW r \in Reqs, LoginSign(r)
  PROVE  Inv'
  <1> DEFINE h == req[r]
             row == [passkeys[h.cred] EXCEPT !.count = h.count]
  <1>1. h \in Handlers /\ h # Idle /\ HandlerShape(h, minted, authn) /\ h.pc = "login_sign"
    BY Working DEF LoginSign, At
  <1>2. HandlerShape([h EXCEPT !.pc = "session"], minted', authn')
    BY <1>1 DEF LoginSign, HandlerShape, Handlers
  <1>3. ReqInv'
    BY <1>1, <1>2, GotoStep DEF LoginSign, Inv, Pcs, Grows
  <1>4. TableInv' /\ HandleMatchesRow'
    <2>1. CASE UNCHANGED passkeys
      BY <2>1 DEF LoginSign, Inv, TableInv, HandleMatchesRow
    <2>2. CASE passkeys[h.cred] # Null /\ passkeys' = [passkeys EXCEPT ![h.cred] = row]
      <3>1. h.cred \in Creds /\ h.count \in 0..MaxCount /\ passkeys[h.cred] \in PasskeyRows
        BY <1>1, <2>2 DEF HandlerShape, Handlers, Inv, TableInv, Optional
      <3>2. row \in PasskeyRows /\ row.user = passkeys[h.cred].user
        BY <3>1 DEF PasskeyRows
      <3> HIDE DEF row
      <3> QED
        BY <2>2, <3>1, <3>2 DEF LoginSign, Inv, TableInv, HandleMatchesRow, Optional
    <2> QED
      BY <2>1, <2>2 DEF LoginSign
  <1> QED
    BY <1>3, <1>4 DEF LoginSign, Inv, OtherInv, LiveInv, AttestInv

(* CreatePasskey keeps the invariant.                                      *)
LEMMA CreatePasskeyInv ==
  ASSUME Inv, NEW r \in Reqs, CreatePasskey(r)
  PROVE  Inv'
  <1> DEFINE h == req[r]
             row == [user |-> h.user, count |-> authn[h.cred].count]
  <1>1. HandlerShape(h, minted, authn) /\ h.pc = "add_row"
    BY Working DEF CreatePasskey, At
  <1>2. /\ h.user \in UserIds /\ h.cred \in Creds
        /\ authn[h.cred] # Null /\ authn[h.cred].user = h.user
    BY <1>1 DEF HandlerShape
  <1>3. row \in PasskeyRows
    BY <1>2 DEF Inv, OtherInv, Optional, Authenticators, PasskeyRows
  <1>4. passkeys' = passkeys \/ passkeys' = [passkeys EXCEPT ![h.cred] = row]
    BY DEF CreatePasskey
  <1>5. TableInv' /\ HandleMatchesRow'
    BY <1>2, <1>3, <1>4 DEF CreatePasskey, Inv, TableInv, HandleMatchesRow, Optional
  <1>6. ReqInv'
    BY RespondStep DEF CreatePasskey, Inv, Grows
  <1> QED
    BY <1>5, <1>6 DEF CreatePasskey, Inv, OtherInv, LiveInv, AttestInv

(* DeletePasskey keeps the invariant.                                      *)
LEMMA DeletePasskeyInv ==
  ASSUME Inv, NEW r \in Reqs, DeletePasskey(r)
  PROVE  Inv'
  <1>1. TableInv' /\ HandleMatchesRow'
    BY DEF DeletePasskey, Inv, TableInv, HandleMatchesRow, PasskeysOf, Optional
  <1>2. ReqInv'
    BY RespondStep DEF DeletePasskey, Inv, Grows
  <1> QED
    BY <1>1, <1>2 DEF DeletePasskey, Inv, OtherInv, LiveInv, AttestInv

(* Environment keeps the invariant.                                        *)
LEMMA EnvironmentInv ==
  ASSUME Inv, Environment
  PROVE  Inv'
  <1>1. ASSUME NEW t \in Tokens, EndSession(t)
        PROVE  Inv'
    <2>1. ReqInv'
      BY <1>1, Unmoved DEF EndSession, Inv, Grows
    <2> QED
      BY <1>1, <2>1
      DEF EndSession, Inv, TableInv, OtherInv, LiveInv, AttestInv, HandleMatchesRow, Optional
  <1>2. ASSUME NEW i \in Invites, CreateInviteCode(i)
        PROVE  Inv'
    <2>1. ReqInv'
      BY <1>2, Unmoved DEF CreateInviteCode, Inv, Grows
    <2> QED
      BY <1>2, <2>1
      DEF CreateInviteCode, Inv, TableInv, OtherInv, LiveInv, AttestInv, HandleMatchesRow
  <1>3. ASSUME NEW x \in Ceremonies, Expire(x)
        PROVE  Inv'
    <2> DEFINE c == [live[x] EXCEPT !.expired = TRUE]
    <2>1. live' = [live EXCEPT ![x] = c]
      BY <1>3 DEF Expire
    <2>2. live[x] \in CeremonyRecords /\ live[x] # Null
      BY <1>3 DEF Expire, Inv, LiveInv, Optional
    <2>3. /\ c \in CeremonyRecords /\ c.kind = live[x].kind /\ c.user = live[x].user
          /\ c.name = live[x].name /\ c.invite = live[x].invite
      BY <2>2 DEF CeremonyRecords
    <2> HIDE DEF c
    <2>4. ReqInv'
      BY <1>3, Unmoved DEF Expire, Inv, Grows
    <2>5. /\ \A y \in Ceremonies : y # x => live'[y] = live[y]
          /\ live'[x] = c /\ live' \in [Ceremonies -> Optional(CeremonyRecords)]
      BY <2>1, <2>3 DEF Inv, LiveInv, Optional
    <2>6. LiveInv'
      BY <1>3, <2>2, <2>3, <2>5 DEF Expire, Inv, LiveInv, CeremonyShape
    <2>7. AttestInv'
      BY <1>3, <2>2, <2>3, <2>5
      DEF Expire, Inv, OtherInv, Authenticators, AttestInv, Optional
    <2> QED
      BY <1>3, <2>4, <2>6, <2>7 DEF Expire, Inv, TableInv, OtherInv, HandleMatchesRow, tables
  <1>4. ASSUME NEW c \in Creds, NEW x \in Ceremonies, Attest(c, x)
        PROVE  Inv'
    <2> DEFINE a == [user |-> live[x].user, cer |-> x, count |-> 0]
    <2>1. x \in minted /\ live[x].user \in UserIds
      BY <1>4 DEF Attest, Inv, LiveInv, CeremonyShape
    <2>2. a \in Authenticators
      BY <2>1, CountAssumption DEF Authenticators
    <2>3. authn[c] = Null /\ authn' = [authn EXCEPT ![c] = a]
      BY <1>4 DEF Attest
    <2>4. a.user = live[x].user /\ a.cer = x
      OBVIOUS
    <2> HIDE DEF a
    <2>5. ReqInv'
      BY <1>4, <2>3, Unmoved DEF Attest, Inv, Grows, OtherInv
    <2>6. OtherInv' /\ AttestInv'
      BY <1>4, <2>1, <2>2, <2>3, <2>4 DEF Attest, Inv, OtherInv, AttestInv, Optional
    <2>7. HandleMatchesRow'
      BY <1>4, <2>3 DEF Attest, Inv, OtherInv, HandleMatchesRow, tables
    <2> QED
      BY <1>4, <2>5, <2>6, <2>7 DEF Attest, Inv, TableInv, LiveInv, tables
  <1>5. ASSUME Restart
        PROVE  Inv'
    <2>1. LiveInv'
      BY <1>5 DEF Restart, LiveInv, Optional
    <2>2. ReqInv'
      BY <1>5 DEF Restart, ReqInv, HandlerShape, Idle
    <2>3. AttestInv'
      BY <1>5 DEF Restart, Inv, OtherInv, Authenticators, AttestInv, Optional
    <2> QED
      BY <1>5, <2>1, <2>2, <2>3 DEF Restart, Inv, TableInv, OtherInv, HandleMatchesRow, tables
  <1> QED
    BY <1>1, <1>2, <1>3, <1>4, <1>5 DEF Environment

(* Fail keeps the invariant.                                               *)
LEMMA FailInv ==
  ASSUME Inv, NEW r \in Reqs, Fail(r)
  PROVE  Inv'
  BY MoveRespond DEF Fail

----------------------------------------------------------------------------
(* Every step keeps the invariant.                                         *)
LEMMA Step == Inv /\ [Next]_vars => Inv'
  <1> SUFFICES ASSUME Inv, [Next]_vars PROVE Inv'
    OBVIOUS
  <1>1. ASSUME NEW r \in Reqs, Request(r)
        PROVE  Inv'
    BY <1>1, RegisterBeginInv, RegisterFinishInv, LoginBeginInv, LoginFinishInv,
       PasskeyBeginInv, PasskeyFinishInv, PasskeyDeleteInv DEF Request
  <1>2. ASSUME NEW r \in Reqs, Register(r)
        PROVE  Inv'
    BY <1>2, CheckInviteCodeInv, BeginRegisterInv, RegisterTakeInv, RegisterWithPasskeyInv
    DEF Register
  <1>3. ASSUME NEW r \in Reqs, Login(r)
        PROVE  Inv'
    BY <1>3, BeginLoginUserInv, BeginLoginInv, LoginTakeInv, LoginUserInv, LoginCredsInv,
       LoginSignInv DEF Login
  <1>4. ASSUME NEW r \in Reqs, Manage(r)
        PROVE  Inv'
    BY <1>4, BeginAddPasskeyInv, AddTakeInv, CreatePasskeyInv, CountPasskeysInv,
       DeletePasskeyInv DEF Manage
  <1>5. CASE UNCHANGED vars
    BY <1>5 DEF vars, Inv, TableInv, OtherInv, LiveInv, ReqInv, AttestInv, HandleMatchesRow
  <1> QED
    BY <1>1, <1>2, <1>3, <1>4, <1>5, IssueSessionInv, FailInv, EnvironmentInv DEF Next

(* The inductive invariant holds throughout.                               *)
THEOREM Invariance == Spec => []Inv
  BY InitInv, Step, PTL DEF Spec

(* Every variable stays within its type.                                   *)
THEOREM TypeCorrect == Spec => []TypeOK
  <1>1. Inv => TypeOK
    BY DEF Inv, TypeOK, TableInv, OtherInv, LiveInv, ReqInv
  <1> QED
    BY <1>1, Invariance, PTL

(* The userHandle an authenticator holds for a stored passkey is the id of *)
(* the account owning it, so a discoverable login finds the right account: *)
(* BeginRegister fixes the id, RegisterWithPasskey keeps it, and           *)
(* FinishAddPasskey compares the ceremony's user with the session's.       *)
THEOREM HandlesMatchRows == Spec => []HandleMatchesRow
  <1>1. Inv => HandleMatchesRow
    BY DEF Inv
  <1> QED
    BY <1>1, Invariance, PTL

(* No request writes a table by arriving.                                  *)
LEMMA RequestFrame ==
  ASSUME NEW r \in Reqs, Request(r)
  PROVE  users' = users /\ sessions' = sessions
  <1>1. CASE \E n \in Names, i \in Invites : RegisterBegin(r, n, i)
    BY <1>1 DEF RegisterBegin, tables
  <1>2. CASE \E x \in Ceremonies \cap minted, c \in Creds : RegisterFinish(r, x, c)
    BY <1>2 DEF RegisterFinish, tables
  <1>3. CASE \E n \in Optional(Names) : LoginBegin(r, n)
    BY <1>3 DEF LoginBegin, tables
  <1>4. CASE \E x, y \in Ceremonies \cap minted, c \in Creds : LoginFinish(r, x, y, c)
    BY <1>4 DEF LoginFinish, tables
  <1>5. CASE \E t \in Tokens : PasskeyBegin(r, t)
    BY <1>5 DEF PasskeyBegin, tables
  <1>6. CASE \E t \in Tokens, x \in Ceremonies \cap minted, c \in Creds :
               PasskeyFinish(r, t, x, c)
    BY <1>6 DEF PasskeyFinish, tables
  <1>7. CASE \E t \in Tokens, c \in Creds : PasskeyDelete(r, t, c)
    BY <1>7 DEF PasskeyDelete, tables
  <1> QED
    BY <1>1, <1>2, <1>3, <1>4, <1>5, <1>6, <1>7 DEF Request

(* Of a handler's steps, one writes users and one sessions.                *)
LEMMA WorkFrame ==
  ASSUME NEW r \in Reqs
  PROVE  /\ Register(r) => sessions' = sessions
         /\ Register(r) /\ ~RegisterWithPasskey(r) => users' = users
         /\ Login(r) \/ Manage(r) \/ Fail(r) => users' = users /\ sessions' = sessions
         /\ IssueSession(r) => users' = users
  <1>1. ASSUME Register(r)
        PROVE  sessions' = sessions /\ (~RegisterWithPasskey(r) => users' = users)
    BY <1>1 DEF Register, CheckInviteCode, BeginRegister, RegisterTake, RegisterWithPasskey, tables
  <1>2. ASSUME Login(r)
        PROVE  users' = users /\ sessions' = sessions
    BY <1>2 DEF Login, BeginLoginUser, BeginLogin, LoginTake, LoginUser, LoginCreds, LoginSign,
                tables
  <1>3. ASSUME Manage(r)
        PROVE  users' = users /\ sessions' = sessions
    BY <1>3 DEF Manage, BeginAddPasskey, AddTake, CreatePasskey, CountPasskeys, DeletePasskey,
                tables
  <1>4. Fail(r) => users' = users /\ sessions' = sessions
    BY DEF Fail, tables
  <1>5. IssueSession(r) => users' = users
    BY DEF IssueSession
  <1> QED
    BY <1>1, <1>2, <1>3, <1>4, <1>5

(* Around the handlers, only a session's end touches either.               *)
LEMMA EnvironmentFrame ==
  ASSUME Environment
  PROVE  users' = users /\ (sessions' = sessions \/ \E t \in Tokens : EndSession(t))
  BY DEF Environment, EndSession, CreateInviteCode, Expire, Attest, Restart, tables

(* A session is opened for the account the credential was made for, and    *)
(* only by a request that went through a ceremony with that credential: a  *)
(* handler about to call issueSession carries both, whichever of register  *)
(* and login it is, and whatever other requests did meanwhile.             *)
THEOREM SessionsNeedCredentials == Spec => SessionNeedsCredential
  <1> DEFINE Opens == \A t \in Tokens :
               sessions[t] = Null /\ sessions'[t] # Null =>
                 \E r \in Reqs : /\ At(r, "session") /\ req[r].cred # Null
                                 /\ authn[req[r].cred].user = sessions'[t]
  <1>1. ASSUME Inv, NEW r \in Reqs, IssueSession(r)
        PROVE  Opens
    <2>1. /\ At(r, "session") /\ req[r].cred # Null
          /\ authn[req[r].cred].user = req[r].user
      BY <1>1, Working, NullAssumption DEF IssueSession, At, HandlerShape
    <2>2. \A t \in Tokens : sessions'[t] # sessions[t] => sessions'[t] = req[r].user
      BY <1>1 DEF IssueSession, Inv, TableInv
    <2> QED
      BY <2>1, <2>2
  <1>2. ASSUME [Next]_vars, \A r \in Reqs : ~IssueSession(r)
        PROVE  sessions' = sessions \/ \E t \in Tokens : EndSession(t)
    BY <1>2, RequestFrame, WorkFrame, EnvironmentFrame DEF Next, vars
  <1>3. Inv /\ [Next]_vars => Opens
    <2>1. ASSUME Inv, NEW t \in Tokens, EndSession(t)
          PROVE  Opens
      BY <2>1 DEF EndSession, Inv, TableInv
    <2> QED
      BY <1>1, <1>2, <2>1
  <1> QED
    BY <1>3, Invariance, PTL DEF Spec, SessionNeedsCredential

(* Two accounts never share a username: RegisterWithPasskey looks again,   *)
(* in its transaction, at what BeginRegister saw free.                     *)
THEOREM NamesUnique == Spec => []UniqueNames
  <1>1. Init => UniqueNames
    BY DEF Init, UniqueNames, Accounts
  <1>2. ASSUME Inv, UniqueNames, NEW r \in Reqs, RegisterWithPasskey(r)
        PROVE  UniqueNames'
    BY <1>2 DEF RegisterWithPasskey, RegisterOK, UsersNamed, Inv, TableInv, UniqueNames, Accounts
  <1>3. ASSUME [Next]_vars, \A r \in Reqs : ~RegisterWithPasskey(r)
        PROVE  users' = users
    BY <1>3, RequestFrame, WorkFrame, EnvironmentFrame DEF Next, vars
  <1>4. Inv /\ UniqueNames /\ [Next]_vars => UniqueNames'
    BY <1>2, <1>3 DEF UniqueNames, Accounts
  <1> QED
    BY <1>1, <1>4, Invariance, PTL DEF Spec

----------------------------------------------------------------------------
(* A ceremony is taken once, and a stored signature counter stays behind   *)
(* its authenticator's.                                                    *)


(* The handler has taken its ceremony.                                     *)
Taken(h) ==
    h.pc \in {"register_tx", "login_user", "login_creds", "login_sign", "add_row", "session"}

(* The counter a login carries was shown by its authenticator (a: the      *)
(* authenticators), or is the stored one.                                  *)
Counted(h, a) ==
    h.pc \in {"login_take", "login_user", "login_creds", "login_sign"} /\ h.cred # Null =>
        a[h.cred] # Null /\ h.count <= a[h.cred].count

HandlersCounted == \A r \in Reqs : Counted(req[r], authn)

CeremonyInv == SingleUse /\ CountNotAhead /\ HandlersCounted

(* No entry of the map comes back, and no counter goes back.               *)
EntriesGo  == \A x \in Ceremonies : live[x] = Null /\ x \in minted => live'[x] = Null
CountsGrow == \A c \in Creds : authn[c] # Null =>
                 authn'[c] # Null /\ authn'[c].count \in authn[c].count..MaxCount

(* A handler that has taken a ceremony had it before, or takes it now.     *)
TakesOnce(g, h) ==
    Taken(h) => \/ Taken(g) /\ h.cer = g.cer
                \/ h.cer \in Ceremonies /\ live[h.cer] # Null /\ live'[h.cer] = Null

(* The invariant holds initially.                                          *)
LEMMA CeremonyInit == Init => CeremonyInv
  BY DEF Init, CeremonyInv, SingleUse, Took, CountNotAhead, HandlersCounted, Counted, Idle

(* Entries go when one is taken and when one is put under a new id.        *)
LEMMA TakeGoes ==
  ASSUME Inv, NEW x \in Ceremonies, Take(x)
  PROVE  EntriesGo /\ live'[x] = Null
  BY DEF EntriesGo, Take, Inv, LiveInv

LEMMA PutGoes ==
  ASSUME NEW x, NEW c, Put(x, c)
  PROVE  EntriesGo
  BY DEF EntriesGo, Put

(* A step that replaces one handler keeps ceremonies single-use.           *)
LEMMA SingleMove ==
  ASSUME Inv, SingleUse, NEW r \in Reqs, NEW h, req' = [req EXCEPT ![r] = h],
         EntriesGo, TakesOnce(req[r], h)
  PROVE  SingleUse'
  <1>1. \A s \in Reqs : Took(s) <=> Taken(req[s])
    BY DEF Took, Taken
  <1>2. \A s \in Reqs : Took(s)' <=> Taken(req'[s])
    BY DEF Took, Taken
  <1>3. \A s \in Reqs : req'[s] = IF s = r THEN h ELSE req[s]
    BY DEF Inv, ReqInv
  <1>4. \A s \in Reqs : Taken(req[s]) => req[s].cer \in Ceremonies /\ req[s].cer \in minted
    BY DEF Taken, Inv, ReqInv, HandlerShape
  <1>5. \A s \in Reqs : Taken(req[s]) => live'[req[s].cer] = Null
    BY <1>1, <1>4 DEF SingleUse, EntriesGo
  <1>6. \A s \in Reqs : Taken(req'[s]) => live'[req'[s].cer] = Null
    BY <1>3, <1>5 DEF TakesOnce
  <1>7. ASSUME NEW s \in Reqs, NEW t \in Reqs \ {s}, Taken(req'[s]), Taken(req'[t])
        PROVE  req'[t].cer # req'[s].cer
    BY <1>1, <1>3, <1>7 DEF SingleUse, TakesOnce
  <1> QED
    BY <1>2, <1>6, <1>7 DEF SingleUse

(* The counters that handlers and rows carry stay shown.                   *)
LEMMA CountsStay ==
  ASSUME Inv, CeremonyInv, CountsGrow
  PROVE  /\ \A s \in Reqs : Counted(req[s], authn')
         /\ \A c \in Creds : passkeys[c] # Null => passkeys[c].count <= authn'[c].count
  <1>1. \A c \in Creds : authn[c] # Null =>
          /\ authn[c].count \in Nat /\ authn'[c].count \in Nat
          /\ authn'[c] # Null /\ authn[c].count <= authn'[c].count
    BY CountAssumption DEF Inv, OtherInv, Optional, Authenticators, CountsGrow
  <1>2. ASSUME NEW s \in Reqs
        PROVE  Counted(req[s], authn')
    <2>1. CASE req[s] = Idle
      BY <2>1 DEF Counted, Idle
    <2>2. CASE req[s] \in Handlers
      <3>1. req[s].count \in Nat /\ req[s].cred \in Optional(Creds)
        BY <2>2, CountAssumption DEF Handlers
      <3>2. Counted(req[s], authn)
        BY DEF CeremonyInv, HandlersCounted
      <3> QED
        BY <1>1, <3>1, <3>2 DEF Counted, Optional
    <2> QED
      BY <2>1, <2>2 DEF Inv, ReqInv
  <1>3. ASSUME NEW c \in Creds, passkeys[c] # Null
        PROVE  passkeys[c].count <= authn'[c].count
    <2>1. passkeys[c].count \in Nat /\ authn[c] # Null
      BY <1>3, CountAssumption DEF Inv, TableInv, HandleMatchesRow, Optional, PasskeyRows
    <2> QED
      BY <1>1, <1>3, <2>1 DEF CeremonyInv, CountNotAhead
  <1> QED
    BY <1>2, <1>3

(* A step that replaces one handler.                                       *)
LEMMA CeremonyStep ==
  ASSUME Inv, CeremonyInv, NEW r \in Reqs, NEW h, req' = [req EXCEPT ![r] = h],
         EntriesGo, CountsGrow, TakesOnce(req[r], h), Counted(h, authn'), CountNotAhead'
  PROVE  CeremonyInv'
  <1>1. SingleUse'
    BY SingleMove DEF CeremonyInv
  <1>2. HandlersCounted'
    BY CountsStay DEF HandlersCounted, Inv, ReqInv
  <1> QED
    BY <1>1, <1>2 DEF CeremonyInv

(* Where no authenticator counts.                                          *)
LEMMA SameCounts ==
  ASSUME Inv, UNCHANGED authn
  PROVE  CountsGrow
  <1>1. \A c \in Creds : authn[c] # Null => authn[c].count \in 0..MaxCount
    BY DEF Inv, OtherInv, Optional, Authenticators
  <1> QED
    BY <1>1, CountAssumption DEF CountsGrow

(* Such a step that writes no passkey and counts nothing.                  *)
LEMMA CeremonyMove ==
  ASSUME Inv, CeremonyInv, NEW r \in Reqs, NEW h, req' = [req EXCEPT ![r] = h],
         EntriesGo, TakesOnce(req[r], h), Counted(h, authn), UNCHANGED <<passkeys, authn>>
  PROVE  CeremonyInv'
  <1>1. CountsGrow
    BY SameCounts
  <1>2. CountNotAhead'
    BY DEF CeremonyInv, CountNotAhead
  <1> QED
    BY <1>1, <1>2, CeremonyStep

LEMMA CeremonyRespond ==
  ASSUME Inv, CeremonyInv, NEW r \in Reqs, Respond(r), EntriesGo, UNCHANGED <<passkeys, authn>>
  PROVE  CeremonyInv'
  BY CeremonyMove DEF Respond, TakesOnce, Taken, Counted, Idle

LEMMA LiveKept ==
  ASSUME UNCHANGED live
  PROVE  EntriesGo
  BY DEF EntriesGo

(* A request arrives.                                                      *)
LEMMA CeremonyRequest ==
  ASSUME Inv, CeremonyInv, NEW r \in Reqs, Request(r)
  PROVE  CeremonyInv'
  <1>1. ASSUME NEW h, Start(r, h), ~Taken(h), h.pc # "login_take", UNCHANGED <<passkeys, live, authn>>
        PROVE  CeremonyInv'
    BY <1>1, LiveKept, CeremonyMove DEF Start, TakesOnce, Taken, Counted
  <1>2. ASSUME NEW n \in Names, NEW i \in Invites, RegisterBegin(r, n, i)
        PROVE  CeremonyInv'
    BY <1>1, <1>2 DEF RegisterBegin, Taken, Handler, tables
  <1>3. ASSUME NEW x \in Ceremonies, NEW c \in Creds, RegisterFinish(r, x, c)
        PROVE  CeremonyInv'
    BY <1>1, <1>3 DEF RegisterFinish, Taken, Handler, tables
  <1>4. ASSUME NEW n \in Optional(Names), LoginBegin(r, n)
        PROVE  CeremonyInv'
    <2> DEFINE pc == IF n = Null THEN "begin_creds" ELSE "begin_user"
               h  == [Handler(pc) EXCEPT !.name = n]
    <2>1. Start(r, h)
      BY <1>4 DEF LoginBegin
    <2>2. h.pc = pc
      BY DEF Handler
    <2>3. ~Taken(h) /\ h.pc # "login_take"
      BY <2>2 DEF Taken
    <2> HIDE DEF h
    <2> QED
      BY <1>1, <1>4, <2>1, <2>3 DEF LoginBegin, tables
  <1>5. ASSUME NEW x \in Ceremonies, NEW y \in Ceremonies, NEW c \in Creds, LoginFinish(r, x, y, c)
        PROVE  CeremonyInv'
    <2> DEFINE k == authn[c].count + 1
               h == [Handler("login_take") EXCEPT !.cer = y, !.count = k,
                                                  !.cred = IF x = y THEN c ELSE Null]
               a == [authn[c] EXCEPT !.count = k]
    <2>1. /\ authn[c] # Null /\ authn[c].count < MaxCount /\ authn[c] \in Authenticators
          /\ authn' = [authn EXCEPT ![c] = a]
      BY <1>5 DEF LoginFinish, Inv, OtherInv, Optional
    <2>2. k \in 0..MaxCount /\ k \in authn[c].count..MaxCount
      BY <2>1, CountAssumption DEF Authenticators
    <2>3. a \in Authenticators /\ a.count = k
      BY <2>1, <2>2 DEF Authenticators
    <2>4. req' = [req EXCEPT ![r] = h]
      BY <1>5 DEF LoginFinish, Start
    <2>5. h.pc = "login_take" /\ h.count = k /\ h.cred \in {c, Null}
      BY DEF Handler
    <2> HIDE DEF k, h, a
    <2>6. authn'[c] = a /\ a # Null /\ \A d \in Creds : d # c => authn'[d] = authn[d]
      BY <2>1, <2>3, NullAssumption DEF Inv, OtherInv
    <2>7. CountsGrow
      <3>1. ASSUME NEW d \in Creds, authn[d] # Null
            PROVE  authn[d].count \in authn[d].count..MaxCount
        BY <3>1, CountAssumption DEF Inv, OtherInv, Optional, Authenticators
      <3> QED
        BY <2>2, <2>3, <2>6, <3>1 DEF CountsGrow
    <2>8. Counted(h, authn')
      BY <2>2, <2>3, <2>5, <2>6, CountAssumption DEF Counted
    <2>9. CountNotAhead'
      BY <1>5, <2>7, CountsStay DEF LoginFinish, tables, CountNotAhead
    <2>10. TakesOnce(req[r], h) /\ EntriesGo
      BY <1>5, <2>5, LiveKept DEF LoginFinish, TakesOnce, Taken
    <2> QED
      BY <2>4, <2>7, <2>8, <2>9, <2>10, CeremonyStep
  <1>6. ASSUME NEW t \in Tokens, NEW h \in Handlers, Authed(r, t, h), ~Taken(h),
               h.pc # "login_take",
               UNCHANGED <<passkeys, live, authn>>
        PROVE  CeremonyInv'
    <2> DEFINE g == [h EXCEPT !.user = sessions[t]]
    <2>1. Start(r, g)
      BY <1>6 DEF Authed
    <2>2. g.pc = h.pc
      BY <1>6 DEF Handlers
    <2> HIDE DEF g
    <2> QED
      BY <1>1, <1>6, <2>1, <2>2 DEF Taken
  <1>7. ASSUME NEW t \in Tokens, PasskeyBegin(r, t)
        PROVE  CeremonyInv'
    <2>1. Handler("add_put").pc = "add_put"
      BY DEF Handler
    <2> QED
      BY <1>6, <1>7, <2>1, FreshHandler DEF PasskeyBegin, Taken, Pcs, tables
  <1>8. ASSUME NEW t \in Tokens, NEW x \in Ceremonies, NEW c \in Creds, PasskeyFinish(r, t, x, c)
        PROVE  CeremonyInv'
    <2> DEFINE h == [Handler("add_take") EXCEPT !.cer = x, !.cred = c]
    <2>1. h \in Handlers
      <3>1. Handler("add_take") \in Handlers
        BY FreshHandler DEF Pcs
      <3> QED
        BY <3>1, HandlerSetCer, HandlerSetCred
    <2>2. h.pc = "add_take"
      BY DEF Handler
    <2> HIDE DEF h
    <2> QED
      BY <1>6, <1>8, <2>1, <2>2 DEF PasskeyFinish, Taken, tables, h
  <1>9. ASSUME NEW t \in Tokens, NEW c \in Creds, PasskeyDelete(r, t, c)
        PROVE  CeremonyInv'
    <2> DEFINE h == [Handler("count") EXCEPT !.cred = c]
    <2>1. h \in Handlers
      BY FreshHandler DEF Pcs, Handlers, Optional
    <2>2. h.pc = "count"
      BY DEF Handler
    <2> HIDE DEF h
    <2> QED
      BY <1>6, <1>9, <2>1, <2>2 DEF PasskeyDelete, Taken, tables, h
  <1> QED
    BY <1>2, <1>3, <1>4, <1>5, <1>7, <1>8, <1>9 DEF Request

(* The counter a handler carries once it is counted right.                 *)
LEMMA CeremonyGoto ==
  ASSUME Inv, CeremonyInv, NEW r \in Reqs, NEW pc \in Pcs, Goto(r, pc), req[r] \in Handlers,
         EntriesGo, UNCHANGED <<passkeys, authn>>,
         pc \notin {"login_take", "login_user", "login_creds", "login_sign"},
         TakesOnce(req[r], [req[r] EXCEPT !.pc = pc])
  PROVE  CeremonyInv'
  <1> DEFINE h == [req[r] EXCEPT !.pc = pc]
  <1>1. req' = [req EXCEPT ![r] = h]
    BY DEF Goto
  <1>2. Counted(h, authn)
    BY DEF Handlers, Counted
  <1> HIDE DEF h
  <1> QED
    BY <1>1, <1>2, CeremonyMove DEF h

(* A registration takes its ceremony with RegisterTake.                    *)
LEMMA CeremonyRegister ==
  ASSUME Inv, CeremonyInv, NEW r \in Reqs, Register(r)
  PROVE  CeremonyInv'
  <1>1. CASE CheckInviteCode(r)
    <2>1. req[r] \in Handlers
      BY <1>1, Working DEF CheckInviteCode
    <2>2. TakesOnce(req[r], [req[r] EXCEPT !.pc = "check_name"])
      BY <2>1 DEF TakesOnce, Taken, Handlers
    <2> QED
      BY <1>1, <2>1, <2>2, LiveKept, CeremonyRespond, CeremonyGoto
      DEF CheckInviteCode, Pcs, tables
  <1>2. CASE BeginRegister(r)
    BY <1>2, LiveKept, PutGoes, CeremonyRespond DEF BeginRegister, tables
  <1>3. CASE RegisterTake(r)
    <2> DEFINE x == req[r].cer
               h == [req[r] EXCEPT !.pc = "register_tx", !.user = live[x].user,
                                   !.name = live[x].name, !.invite = live[x].invite]
    <2>1. req[r] \in Handlers /\ x \in Ceremonies
      BY <1>3, Working DEF RegisterTake, At, HandlerShape
    <2>2. EntriesGo /\ live'[x] = Null
      BY <1>3, <2>1, TakeGoes DEF RegisterTake
    <2>3. CASE Respond(r)
      BY <1>3, <2>2, <2>3, CeremonyRespond DEF RegisterTake, tables
    <2>4. CASE Good(x, "register") /\ req' = [req EXCEPT ![r] = h]
      <3>1. h.cer = x /\ h.pc = "register_tx"
        BY <2>1 DEF Handlers
      <3> HIDE DEF h
      <3>2. TakesOnce(req[r], h) /\ Counted(h, authn)
        BY <2>1, <2>2, <2>4, <3>1 DEF TakesOnce, Good, Counted
      <3> QED
        BY <1>3, <2>2, <2>4, <3>2, CeremonyMove DEF RegisterTake, tables
    <2> QED
      BY <1>3, <2>3, <2>4 DEF RegisterTake
  <1>4. CASE RegisterWithPasskey(r)
    <2> DEFINE h == [req[r] EXCEPT !.pc = "session"]
               row == [user |-> req[r].user, count |-> authn[req[r].cred].count]
    <2>1. /\ req[r] \in Handlers /\ req[r].cred \in Creds /\ authn[req[r].cred] # Null
          /\ req[r].pc = "register_tx"
      BY <1>4, Working DEF RegisterWithPasskey, At, HandlerShape
    <2>2. CASE Respond(r) /\ UNCHANGED passkeys
      BY <1>4, <2>2, LiveKept, CeremonyRespond DEF RegisterWithPasskey
    <2>3. CASE Goto(r, "session") /\ passkeys' = [passkeys EXCEPT ![req[r].cred] = row]
      <3>1. req' = [req EXCEPT ![r] = h] /\ UNCHANGED <<live, authn>>
        BY <1>4, <2>3 DEF RegisterWithPasskey, Goto
      <3>2. authn[req[r].cred].count \in Nat
        BY <2>1, CountAssumption DEF Inv, OtherInv, Optional, Authenticators
      <3>3. CountNotAhead'
        BY <2>1, <2>3, <3>1, <3>2 DEF CeremonyInv, CountNotAhead, Inv, TableInv
      <3>4. TakesOnce(req[r], h) /\ Counted(h, authn')
        BY <2>1 DEF TakesOnce, Taken, Counted, Handlers
      <3> HIDE DEF h
      <3> QED
        BY <3>1, <3>3, <3>4, LiveKept, SameCounts, CeremonyStep
    <2> QED
      BY <1>4, <2>2, <2>3 DEF RegisterWithPasskey
  <1> QED
    BY <1>1, <1>2, <1>3, <1>4 DEF Register

(* A login takes its ceremony with LoginTake, and compares the counter it  *)
(* was shown with the stored one, neither of which is ahead.               *)
LEMMA CeremonyLogin ==
  ASSUME Inv, CeremonyInv, NEW r \in Reqs, Login(r)
  PROVE  CeremonyInv'
  <1>0. Counted(req[r], authn) /\ req \in [Reqs -> Handlers \cup {Idle}]
    BY DEF CeremonyInv, HandlersCounted, Inv, ReqInv
  <1>1. CASE BeginLoginUser(r)
    <2>1. CASE Respond(r)
      BY <1>1, <2>1, LiveKept, CeremonyRespond DEF BeginLoginUser, tables
    <2>2. ASSUME NEW u, req' = [req EXCEPT ![r].pc = "begin_creds", ![r].user = u]
          PROVE  CeremonyInv'
      <3> DEFINE h == [req[r] EXCEPT !.pc = "begin_creds", !.user = u]
      <3>1. req[r] \in Handlers
        BY <1>1, Working DEF BeginLoginUser
      <3>2. req' = [req EXCEPT ![r] = h]
        BY <1>0, <2>2, <3>1
      <3>3. TakesOnce(req[r], h) /\ Counted(h, authn)
        BY <3>1 DEF TakesOnce, Taken, Counted, Handlers
      <3> HIDE DEF h
      <3> QED
        BY <1>1, <3>2, <3>3, LiveKept, CeremonyMove DEF BeginLoginUser, tables
    <2> QED
      BY <1>1, <2>1, <2>2 DEF BeginLoginUser
  <1>2. CASE BeginLogin(r)
    BY <1>2, LiveKept, PutGoes, CeremonyRespond DEF BeginLogin, tables
  <1>3. CASE LoginTake(r)
    <2> DEFINE x == req[r].cer
               h == [req[r] EXCEPT !.pc = "login_user", !.name = live[x].name,
                                   !.user = live[x].user, !.allowed = live[x].allowed]
    <2>1. req[r] \in Handlers /\ x \in Ceremonies /\ req[r].pc = "login_take"
      BY <1>3, Working DEF LoginTake, At, HandlerShape
    <2>2. EntriesGo /\ live'[x] = Null
      BY <1>3, <2>1, TakeGoes DEF LoginTake
    <2>3. CASE Respond(r)
      BY <1>3, <2>2, <2>3, CeremonyRespond DEF LoginTake, tables
    <2>4. CASE Good(x, "login") /\ req' = [req EXCEPT ![r] = h]
      <3>1. h.cer = x /\ h.cred = req[r].cred /\ h.count = req[r].count
        BY <2>1 DEF Handlers
      <3> HIDE DEF h
      <3>2. TakesOnce(req[r], h) /\ Counted(h, authn)
        BY <1>0, <2>1, <2>2, <2>4, <3>1 DEF TakesOnce, Good, Counted
      <3> QED
        BY <1>3, <2>2, <2>4, <3>2, CeremonyMove DEF LoginTake, tables
    <2> QED
      BY <1>3, <2>3, <2>4 DEF LoginTake
  <1>4. CASE LoginUser(r)
    <2>1. CASE Respond(r)
      BY <1>4, <2>1, LiveKept, CeremonyRespond DEF LoginUser, tables
    <2>2. ASSUME NEW u, req' = [req EXCEPT ![r].pc = "login_creds", ![r].user = u]
          PROVE  CeremonyInv'
      <3> DEFINE h == [req[r] EXCEPT !.pc = "login_creds", !.user = u]
      <3>1. req[r] \in Handlers /\ req[r].pc = "login_user"
        BY <1>4, Working DEF LoginUser, At
      <3>2. req' = [req EXCEPT ![r] = h]
        BY <1>0, <2>2, <3>1
      <3>3. TakesOnce(req[r], h) /\ Counted(h, authn)
        BY <1>0, <3>1 DEF TakesOnce, Taken, Counted, Handlers
      <3> HIDE DEF h
      <3> QED
        BY <1>4, <3>2, <3>3, LiveKept, CeremonyMove DEF LoginUser, tables
    <2> QED
      BY <1>4, <2>1, <2>2 DEF LoginUser
  <1>5. CASE LoginCreds(r)
    <2>1. CASE Respond(r)
      BY <1>5, <2>1, LiveKept, CeremonyRespond DEF LoginCreds, tables
    <2>2. CASE LoginVerified(req[r])
      <3> DEFINE c == req[r].cred
                 k == NextCount(passkeys[c].count, req[r].count)
                 h == [req[r] EXCEPT !.pc = "login_sign", !.count = k]
      <3>1. req[r] \in Handlers /\ req[r].pc = "login_creds"
        BY <1>5, Working DEF LoginCreds, At
      <3>2. c \in Creds /\ passkeys[c] # Null
        BY <2>2 DEF LoginVerified, PasskeysOf
      <3>3. authn[c] # Null /\ passkeys[c].count <= authn[c].count
        BY <3>2 DEF Inv, HandleMatchesRow, CeremonyInv, CountNotAhead
      <3>4. k <= authn[c].count
        BY <1>0, <2>2, <3>1, <3>3 DEF NextCount, Counted, LoginVerified
      <3> HIDE DEF k
      <3>5. req' = [req EXCEPT ![r] = h]
        BY <1>0, <1>5, <2>2, <3>1 DEF LoginCreds, k
      <3>6. TakesOnce(req[r], h) /\ Counted(h, authn)
        BY <3>1, <3>3, <3>4 DEF TakesOnce, Taken, Counted, Handlers
      <3> HIDE DEF h
      <3> QED
        BY <1>5, <3>5, <3>6, LiveKept, CeremonyMove DEF LoginCreds, tables
    <2> QED
      BY <1>5, <2>1, <2>2 DEF LoginCreds
  <1>6. CASE LoginSign(r)
    <2> DEFINE c == req[r].cred
               row == [passkeys[c] EXCEPT !.count = req[r].count]
               h == [req[r] EXCEPT !.pc = "session"]
    <2>1. /\ req[r] \in Handlers /\ c \in Creds /\ authn[c] # Null /\ req[r].pc = "login_sign"
          /\ req' = [req EXCEPT ![r] = h] /\ UNCHANGED <<live, authn>>
      BY <1>6, Working DEF LoginSign, At, HandlerShape, Goto
    <2>2. req[r].count <= authn[c].count
      BY <1>0, <2>1, NullAssumption DEF Counted
    <2>3. CountNotAhead'
      <3>1. CASE UNCHANGED passkeys
        BY <2>1, <3>1 DEF CeremonyInv, CountNotAhead
      <3>2. CASE passkeys[c] # Null /\ passkeys' = [passkeys EXCEPT ![c].count = req[r].count]
        <4>1. row.count = req[r].count /\ passkeys' = [passkeys EXCEPT ![c] = row]
          BY <2>1, <3>2 DEF Inv, TableInv, Optional, PasskeyRows
        <4> HIDE DEF row
        <4> QED
          BY <2>1, <2>2, <4>1 DEF CeremonyInv, CountNotAhead, Inv, TableInv
      <3> QED
        BY <1>6, <3>1, <3>2 DEF LoginSign
    <2>4. TakesOnce(req[r], h) /\ Counted(h, authn')
      BY <2>1 DEF TakesOnce, Taken, Counted, Handlers
    <2> HIDE DEF h
    <2> QED
      BY <2>1, <2>3, <2>4, LiveKept, SameCounts, CeremonyStep
  <1> QED
    BY <1>1, <1>2, <1>3, <1>4, <1>5, <1>6 DEF Login

(* Adding a passkey takes its ceremony with AddTake; the row starts at     *)
(* what its authenticator shows.                                           *)
LEMMA CeremonyManage ==
  ASSUME Inv, CeremonyInv, NEW r \in Reqs, Manage(r)
  PROVE  CeremonyInv'
  <1>1. CASE BeginAddPasskey(r)
    BY <1>1, LiveKept, PutGoes, CeremonyRespond DEF BeginAddPasskey, tables
  <1>2. CASE AddTake(r)
    <2>1. req[r] \in Handlers /\ req[r].cer \in Ceremonies
      BY <1>2, Working DEF AddTake, At, HandlerShape
    <2>2. EntriesGo /\ live'[req[r].cer] = Null
      BY <1>2, <2>1, TakeGoes DEF AddTake
    <2>3. CASE AddVerified(req[r]) /\ Goto(r, "add_row")
      <3>1. TakesOnce(req[r], [req[r] EXCEPT !.pc = "add_row"])
        BY <2>1, <2>2, <2>3 DEF TakesOnce, AddVerified, Good, Handlers
      <3> QED
        BY <1>2, <2>1, <2>2, <2>3, <3>1, CeremonyGoto DEF AddTake, Pcs, tables
    <2> QED
      BY <1>2, <2>2, <2>3, CeremonyRespond DEF AddTake, tables
  <1>3. CASE CreatePasskey(r)
    <2> DEFINE c == req[r].cred
               row == [user |-> req[r].user, count |-> authn[c].count]
    <2>1. c \in Creds /\ authn[c] # Null
      BY <1>3, Working DEF CreatePasskey, At, HandlerShape
    <2>2. authn[c].count \in Nat
      BY <2>1, CountAssumption DEF Inv, OtherInv, Optional, Authenticators
    <2>3. UNCHANGED <<live, authn>> /\ req' = [req EXCEPT ![r] = Idle]
      BY <1>3 DEF CreatePasskey, Respond
    <2>4. passkeys' = passkeys \/ passkeys' = [passkeys EXCEPT ![c] = row]
      BY <1>3 DEF CreatePasskey
    <2>5. CountNotAhead'
      BY <2>1, <2>2, <2>3, <2>4 DEF CeremonyInv, CountNotAhead, Inv, TableInv
    <2> QED
      BY <2>3, <2>5, LiveKept, SameCounts, CeremonyStep DEF TakesOnce, Taken, Counted, Idle
  <1>4. CASE CountPasskeys(r)
    <2>1. req[r] \in Handlers
      BY <1>4, Working DEF CountPasskeys
    <2>2. TakesOnce(req[r], [req[r] EXCEPT !.pc = "delete"])
      BY <2>1 DEF TakesOnce, Taken, Handlers
    <2> QED
      BY <1>4, <2>1, <2>2, LiveKept, CeremonyRespond, CeremonyGoto DEF CountPasskeys, Pcs, tables
  <1>5. CASE DeletePasskey(r)
    <2>1. UNCHANGED <<live, authn>> /\ req' = [req EXCEPT ![r] = Idle]
      BY <1>5 DEF DeletePasskey, Respond
    <2>2. CountNotAhead'
      BY <1>5, <2>1 DEF DeletePasskey, CeremonyInv, CountNotAhead, Inv, TableInv
    <2> QED
      BY <2>1, <2>2, LiveKept, SameCounts, CeremonyStep DEF TakesOnce, Taken, Counted, Idle
  <1> QED
    BY <1>1, <1>2, <1>3, <1>4, <1>5 DEF Manage

(* A step that moves no handler, or drops them all.                        *)
LEMMA CeremonyAround ==
  ASSUME Inv, CeremonyInv, EntriesGo, CountsGrow, UNCHANGED passkeys,
         req' = req \/ req' = [r \in Reqs |-> Idle]
  PROVE  CeremonyInv'
  <1>1. CountNotAhead'
    BY CountsStay DEF CountNotAhead
  <1>2. CASE req' = [r \in Reqs |-> Idle]
    BY <1>1, <1>2 DEF CeremonyInv, SingleUse, Took, HandlersCounted, Counted, Idle
  <1>3. CASE req' = req
    <2>1. HandlersCounted'
      BY <1>3, CountsStay DEF HandlersCounted
    <2>2. \A r \in Reqs : Took(r) => req[r].cer \in Ceremonies /\ req[r].cer \in minted
      BY DEF Took, Inv, ReqInv, HandlerShape
    <2>3. SingleUse'
      BY <1>3, <2>2 DEF CeremonyInv, SingleUse, Took, EntriesGo
    <2> QED
      BY <1>1, <2>1, <2>3 DEF CeremonyInv
  <1> QED
    BY <1>2, <1>3

LEMMA CeremonyEnvironment ==
  ASSUME Inv, CeremonyInv, Environment
  PROVE  CeremonyInv'
  <1>1. ASSUME NEW t \in Tokens, EndSession(t)
        PROVE  CeremonyInv'
    BY <1>1, LiveKept, SameCounts, CeremonyAround DEF EndSession
  <1>2. ASSUME NEW i \in Invites, CreateInviteCode(i)
        PROVE  CeremonyInv'
    BY <1>2, LiveKept, SameCounts, CeremonyAround DEF CreateInviteCode
  <1>3. ASSUME NEW x \in Ceremonies, Expire(x)
        PROVE  CeremonyInv'
    <2>1. EntriesGo
      BY <1>3 DEF Expire, EntriesGo, Inv, LiveInv
    <2> QED
      BY <1>3, <2>1, SameCounts, CeremonyAround DEF Expire, tables
  <1>4. ASSUME NEW c \in Creds, NEW x \in Ceremonies, Attest(c, x)
        PROVE  CeremonyInv'
    <2>1. \A d \in Creds : authn[d] # Null =>
             authn'[d] = authn[d] /\ authn[d].count \in 0..MaxCount
      BY <1>4 DEF Attest, Inv, OtherInv, Optional, Authenticators
    <2>2. CountsGrow
      BY <2>1, CountAssumption DEF CountsGrow
    <2> QED
      BY <1>4, <2>2, LiveKept, CeremonyAround DEF Attest, tables
  <1>5. CASE Restart
    <2>1. EntriesGo
      BY <1>5 DEF Restart, EntriesGo
    <2> QED
      BY <1>5, <2>1, SameCounts, CeremonyAround DEF Restart, tables
  <1> QED
    BY <1>1, <1>2, <1>3, <1>4, <1>5 DEF Environment

(* Every step keeps the invariant.                                         *)
LEMMA CeremonyNext == Inv /\ CeremonyInv /\ [Next]_vars => CeremonyInv'
  <1> SUFFICES ASSUME Inv, CeremonyInv, [Next]_vars
               PROVE  CeremonyInv'
    OBVIOUS
  <1>1. ASSUME NEW r \in Reqs, IssueSession(r)
        PROVE  CeremonyInv'
    BY <1>1, LiveKept, CeremonyRespond DEF IssueSession
  <1>2. ASSUME NEW r \in Reqs, Fail(r)
        PROVE  CeremonyInv'
    BY <1>2, LiveKept, CeremonyRespond DEF Fail, tables
  <1>3. CASE UNCHANGED vars
    BY <1>3, LiveKept, SameCounts, CeremonyAround DEF vars
  <1> QED
    BY <1>1, <1>2, <1>3, CeremonyRequest, CeremonyRegister, CeremonyLogin, CeremonyManage,
       CeremonyEnvironment DEF Next

(* A ceremony is used once: what a request took is gone from the map, and  *)
(* no other request took it, whatever tabs, expiry and restarts do.        *)
THEOREM CeremoniesSingleUse == Spec => []SingleUse
  <1>1. CeremonyInv => SingleUse
    BY DEF CeremonyInv
  <1> QED
    BY <1>1, CeremonyInit, CeremonyNext, Invariance, PTL DEF Spec

(* A stored signature counter is never ahead of its authenticator's,       *)
(* although logins overwrite one another's and the slower may set it back. *)
THEOREM CountersBehind == Spec => []CountNotAhead
  <1>1. CeremonyInv => CountNotAhead
    BY DEF CeremonyInv
  <1> QED
    BY <1>1, CeremonyInit, CeremonyNext, Invariance, PTL DEF Spec

----------------------------------------------------------------------------
(* Accounts implements Membership, for every value of its constants; and   *)
(* the invariants that rest on it.                                         *)

(* The positions of a handler that has resolved an account.                *)
OwnedPcs == {"add_put", "add_take", "add_row", "count", "delete",
             "login_creds", "login_sign", "session"}

Owned(h, us) == h.pc \in OwnedPcs => us[h.user] # Null

(* Passkeys, sessions and handlers name accounts that exist, as accounts   *)
(* stay; and the tokens of sessions are drawn.                             *)
PasskeysOwned == \A c \in Creds : passkeys[c] # Null => users[passkeys[c].user] # Null
SessionsOwned == \A t \in Tokens : sessions[t] # Null => users[sessions[t]] # Null /\ t \in minted
HandlersOwned == \A r \in Reqs : Owned(req[r], users)

OwnerInv == PasskeysOwned /\ SessionsOwned /\ HandlersOwned

(* The invariant holds initially.                                          *)
LEMMA OwnerInit == Init => OwnerInv
  BY DEF Init, OwnerInv, PasskeysOwned, SessionsOwned, HandlersOwned, Owned, OwnedPcs, Idle

(* A step that replaces one handler, and draws identifiers.                *)
LEMMA OwnerMove ==
  ASSUME Inv, OwnerInv, NEW r \in Reqs, NEW h, req' = [req EXCEPT ![r] = h],
         UNCHANGED tables, minted \subseteq minted', Owned(h, users)
  PROVE  OwnerInv'
  BY DEF Inv, ReqInv, OwnerInv, PasskeysOwned, SessionsOwned, HandlersOwned, Owned, tables

(* Such a step that answers the request, or moves it on.                   *)
LEMMA OwnerRespond ==
  ASSUME Inv, OwnerInv, NEW r \in Reqs, Respond(r), UNCHANGED tables, minted \subseteq minted'
  PROVE  OwnerInv'
  BY OwnerMove DEF Respond, Owned, OwnedPcs, Idle

LEMMA OwnerGoto ==
  ASSUME Inv, OwnerInv, NEW r \in Reqs, NEW pc, Goto(r, pc), req[r] \in Handlers,
         UNCHANGED tables, minted \subseteq minted',
         pc \in OwnedPcs => req[r].pc \in OwnedPcs
  PROVE  OwnerInv'
  <1> DEFINE h == [req[r] EXCEPT !.pc = pc]
  <1>1. req' = [req EXCEPT ![r] = h]
    BY DEF Goto
  <1>2. h.pc = pc /\ h.user = req[r].user
    BY DEF Handlers
  <1>3. Owned(h, users)
    BY <1>2 DEF OwnerInv, HandlersOwned, Owned
  <1> HIDE DEF h
  <1> QED
    BY <1>1, <1>3, OwnerMove

(* A request of a signed-in user starts with the account of its session.   *)
LEMMA OwnerAuthed ==
  ASSUME Inv, OwnerInv, NEW r \in Reqs, NEW t \in Tokens, NEW h \in Handlers, Authed(r, t, h),
         UNCHANGED <<tables, minted>>
  PROVE  OwnerInv'
  <1> DEFINE g == [h EXCEPT !.user = sessions[t]]
  <1>1. req' = [req EXCEPT ![r] = g] /\ sessions[t] # Null
    BY DEF Authed, Start
  <1>2. g.user = sessions[t]
    BY DEF Handlers
  <1>3. Owned(g, users)
    BY <1>1, <1>2 DEF OwnerInv, SessionsOwned, Owned
  <1> HIDE DEF g
  <1> QED
    BY <1>1, <1>3, OwnerMove

(* Requests keep it as they arrive.                                        *)
LEMMA OwnerRequest ==
  ASSUME Inv, OwnerInv, NEW r \in Reqs, Request(r)
  PROVE  OwnerInv'
  <1>1. ASSUME NEW n \in Names, NEW i \in Invites, RegisterBegin(r, n, i)
        PROVE  OwnerInv'
    BY <1>1, OwnerMove DEF RegisterBegin, Start, Owned, OwnedPcs, Handler
  <1>2. ASSUME NEW x \in Ceremonies, NEW c \in Creds, RegisterFinish(r, x, c)
        PROVE  OwnerInv'
    BY <1>2, OwnerMove DEF RegisterFinish, Start, Owned, OwnedPcs, Handler
  <1>3. ASSUME NEW n \in Optional(Names), LoginBegin(r, n)
        PROVE  OwnerInv'
    <2> DEFINE pc == IF n = Null THEN "begin_creds" ELSE "begin_user"
               h  == [Handler(pc) EXCEPT !.name = n]
    <2>1. req' = [req EXCEPT ![r] = h]
      BY <1>3 DEF LoginBegin, Start
    <2>2. h.pc = pc
      BY DEF Handler
    <2>3. Owned(h, users)
      BY <2>2 DEF Owned, OwnedPcs
    <2> HIDE DEF h
    <2> QED
      BY <1>3, <2>1, <2>3, OwnerMove DEF LoginBegin
  <1>4. ASSUME NEW x \in Ceremonies, NEW y \in Ceremonies, NEW c \in Creds, LoginFinish(r, x, y, c)
        PROVE  OwnerInv'
    <2> DEFINE h == [Handler("login_take") EXCEPT !.cer = y, !.count = authn[c].count + 1,
                                                  !.cred = IF x = y THEN c ELSE Null]
    <2>1. req' = [req EXCEPT ![r] = h]
      BY <1>4 DEF LoginFinish, Start
    <2>2. h.pc = "login_take"
      BY DEF Handler
    <2>3. Owned(h, users)
      BY <2>2 DEF Owned, OwnedPcs
    <2> HIDE DEF h
    <2> QED
      BY <1>4, <2>1, <2>3, OwnerMove DEF LoginFinish
  <1>5. ASSUME NEW t \in Tokens, PasskeyBegin(r, t)
        PROVE  OwnerInv'
    BY <1>5, OwnerAuthed, FreshHandler DEF PasskeyBegin, Pcs
  <1>6. ASSUME NEW t \in Tokens, NEW x \in Ceremonies, NEW c \in Creds, PasskeyFinish(r, t, x, c)
        PROVE  OwnerInv'
    <2>1. [Handler("add_take") EXCEPT !.cer = x, !.cred = c] \in Handlers
      <3>1. Handler("add_take") \in Handlers
        BY FreshHandler DEF Pcs
      <3> QED
        BY <3>1, HandlerSetCer, HandlerSetCred
    <2> QED
      BY <1>6, <2>1, OwnerAuthed DEF PasskeyFinish
  <1>7. ASSUME NEW t \in Tokens, NEW c \in Creds, PasskeyDelete(r, t, c)
        PROVE  OwnerInv'
    <2>1. [Handler("count") EXCEPT !.cred = c] \in Handlers
      <3>1. Handler("count") \in Handlers
        BY FreshHandler DEF Pcs
      <3> QED
        BY <3>1, HandlerSetCred
    <2> QED
      BY <1>7, <2>1, OwnerAuthed DEF PasskeyDelete
  <1> QED
    BY <1>1, <1>2, <1>3, <1>4, <1>5, <1>6, <1>7 DEF Request

(* A step that writes tables, takes no account away, and moves one         *)
(* handler.                                                                *)
LEMMA OwnerWrite ==
  ASSUME Inv, OwnerInv, NEW r \in Reqs, NEW h, req' = [req EXCEPT ![r] = h],
         \A u : users[u] # Null => users'[u] # Null,
         PasskeysOwned', SessionsOwned', Owned(h, users')
  PROVE  OwnerInv'
  <1>1. HandlersOwned'
    BY DEF Inv, ReqInv, OwnerInv, HandlersOwned, Owned
  <1> QED
    BY <1>1 DEF OwnerInv

(* Registration keeps it: the new account is there with its passkey.       *)
LEMMA OwnerRegister ==
  ASSUME Inv, OwnerInv, NEW r \in Reqs, Register(r)
  PROVE  OwnerInv'
  <1>1. CASE CheckInviteCode(r)
    <2>1. req[r] \in Handlers
      BY <1>1, Working DEF CheckInviteCode
    <2> QED
      BY <1>1, <2>1, OwnerRespond, OwnerGoto DEF CheckInviteCode, OwnedPcs
  <1>2. CASE BeginRegister(r)
    BY <1>2, OwnerRespond DEF BeginRegister
  <1>3. CASE RegisterTake(r)
    <2>1. CASE Respond(r)
      BY <1>3, <2>1, OwnerRespond DEF RegisterTake
    <2>2. CASE ~Respond(r)
      <3> DEFINE x == req[r].cer
                 h == [req[r] EXCEPT !.pc = "register_tx", !.user = live[x].user,
                                     !.name = live[x].name, !.invite = live[x].invite]
      <3>1. req[r] \in Handlers
        BY <1>3, Working DEF RegisterTake
      <3>2. req' = [req EXCEPT ![r] = h]
        BY <1>3, <2>2 DEF RegisterTake
      <3>3. Owned(h, users)
        BY <3>1 DEF Owned, OwnedPcs, Handlers
      <3> HIDE DEF h
      <3> QED
        BY <1>3, <3>2, <3>3, OwnerMove DEF RegisterTake
    <2> QED
      BY <2>1, <2>2
  <1>4. CASE RegisterWithPasskey(r)
    <2> DEFINE h == req[r]
    <2>1. h \in Handlers /\ HandlerShape(h, minted, authn)
      BY <1>4, Working DEF RegisterWithPasskey
    <2>2. CASE Respond(r) /\ UNCHANGED <<invites, users, passkeys>>
      BY <1>4, <2>2, OwnerRespond DEF RegisterWithPasskey, tables
    <2>3. CASE RegisterOK(h) /\ Goto(r, "session")
      <3> DEFINE g == [h EXCEPT !.pc = "session"]
                 row == [user |-> h.user, count |-> authn[h.cred].count]
      <3>1. h.user \in UserIds /\ h.name \in Names /\ h.cred \in Creds
        BY <1>4, <2>1 DEF RegisterWithPasskey, At, HandlerShape
      <3>2. /\ users' = [users EXCEPT ![h.user] = h.name]
            /\ passkeys' = [passkeys EXCEPT ![h.cred] = row]
            /\ req' = [req EXCEPT ![r] = g]
            /\ UNCHANGED <<sessions, minted>>
        BY <1>4, <2>1, <2>3 DEF RegisterWithPasskey, Goto, Respond, Inv, ReqInv
      <3>3. users'[h.user] # Null /\ \A u : users[u] # Null => users'[u] # Null
        BY <3>1, <3>2, NullAssumption DEF Inv, TableInv
      <3>4. PasskeysOwned'
        BY <3>1, <3>2, <3>3 DEF OwnerInv, PasskeysOwned, Inv, TableInv
      <3>5. SessionsOwned'
        BY <3>2, <3>3 DEF OwnerInv, SessionsOwned
      <3>6. g.user = h.user
        BY <2>1 DEF Handlers
      <3> HIDE DEF g
      <3> QED
        BY <3>2, <3>3, <3>4, <3>5, <3>6, OwnerWrite DEF Owned
    <2> QED
      BY <1>4, <2>2, <2>3 DEF RegisterWithPasskey
  <1> QED
    BY <1>1, <1>2, <1>3, <1>4 DEF Register

(* LoginSign writes only the counter of a passkey, if anything.            *)
LEMMA SignKeepsOwner ==
  ASSUME Inv, NEW r \in Reqs, LoginSign(r)
  PROVE  \A c \in Creds : /\ (passkeys'[c] = Null) = (passkeys[c] = Null)
                          /\ passkeys[c] # Null => passkeys'[c].user = passkeys[c].user
  <1>1. CASE UNCHANGED passkeys
    BY <1>1
  <1>2. CASE /\ passkeys[req[r].cred] # Null
             /\ passkeys' = [passkeys EXCEPT ![req[r].cred].count = req[r].count]
    <2> DEFINE c == req[r].cred
               row == [passkeys[c] EXCEPT !.count = req[r].count]
    <2>1. c \in Creds /\ req[r].count \in 0..MaxCount
      BY Working DEF LoginSign, At, HandlerShape, Handlers
    <2>2. passkeys[c] \in PasskeyRows
      BY <1>2, <2>1 DEF Inv, TableInv, Optional
    <2>3. row \in PasskeyRows /\ row.user = passkeys[c].user
      BY <2>1, <2>2 DEF PasskeyRows
    <2>4. row # Null
      BY <2>3, NullAssumption
    <2>5. passkeys' = [passkeys EXCEPT ![c] = row]
      BY <1>2, <2>1 DEF Inv, TableInv
    <2> HIDE DEF row
    <2> QED
      BY <1>2, <2>1, <2>3, <2>4, <2>5 DEF Inv, TableInv
  <1> QED
    BY <1>1, <1>2 DEF LoginSign

(* Login keeps it: LoginUser takes an account that is there.               *)
LEMMA OwnerLogin ==
  ASSUME Inv, OwnerInv, NEW r \in Reqs, Login(r)
  PROVE  OwnerInv'
  <1>1. CASE BeginLoginUser(r)
    <2>1. CASE Respond(r)
      BY <1>1, <2>1, OwnerRespond DEF BeginLoginUser
    <2>2. ASSUME NEW u \in UserIds, req' = [req EXCEPT ![r].pc = "begin_creds", ![r].user = u]
          PROVE  OwnerInv'
      <3> DEFINE h == [req[r] EXCEPT !.pc = "begin_creds", !.user = u]
      <3>1. req[r] \in Handlers /\ req \in [Reqs -> Handlers \cup {Idle}]
        BY <1>1, Working DEF BeginLoginUser, Inv, ReqInv
      <3>2. req' = [req EXCEPT ![r] = h]
        BY <2>2, <3>1
      <3>3. Owned(h, users)
        BY <3>1 DEF Owned, OwnedPcs, Handlers
      <3> HIDE DEF h
      <3> QED
        BY <1>1, <3>2, <3>3, OwnerMove DEF BeginLoginUser
    <2> QED
      BY <1>1, <2>1, <2>2 DEF BeginLoginUser, UsersNamed
  <1>2. CASE BeginLogin(r)
    BY <1>2, OwnerRespond DEF BeginLogin
  <1>3. CASE LoginTake(r)
    <2>1. CASE Respond(r)
      BY <1>3, <2>1, OwnerRespond DEF LoginTake
    <2>2. CASE ~Respond(r)
      <3> DEFINE x == req[r].cer
                 h == [req[r] EXCEPT !.pc = "login_user", !.name = live[x].name,
                                     !.user = live[x].user, !.allowed = live[x].allowed]
      <3>1. req[r] \in Handlers
        BY <1>3, Working DEF LoginTake
      <3>2. req' = [req EXCEPT ![r] = h]
        BY <1>3, <2>2 DEF LoginTake
      <3>3. Owned(h, users)
        BY <3>1 DEF Owned, OwnedPcs, Handlers
      <3> HIDE DEF h
      <3> QED
        BY <1>3, <3>2, <3>3, OwnerMove DEF LoginTake
    <2> QED
      BY <2>1, <2>2
  <1>4. CASE LoginUser(r)
    <2>1. CASE Respond(r)
      BY <1>4, <2>1, OwnerRespond DEF LoginUser
    <2>2. ASSUME NEW u \in UserIds, users[u] # Null,
                 req' = [req EXCEPT ![r].pc = "login_creds", ![r].user = u]
          PROVE  OwnerInv'
      <3> DEFINE h == [req[r] EXCEPT !.pc = "login_creds", !.user = u]
      <3>1. req[r] \in Handlers /\ req \in [Reqs -> Handlers \cup {Idle}]
        BY <1>4, Working DEF LoginUser, Inv, ReqInv
      <3>2. req' = [req EXCEPT ![r] = h]
        BY <2>2, <3>1
      <3>3. Owned(h, users)
        BY <2>2, <3>1 DEF Owned, Handlers
      <3> HIDE DEF h
      <3> QED
        BY <1>4, <3>2, <3>3, OwnerMove DEF LoginUser
    <2> QED
      BY <1>4, <2>1, <2>2 DEF LoginUser, UsersNamed
  <1>5. CASE LoginCreds(r)
    <2>1. CASE Respond(r)
      BY <1>5, <2>1, OwnerRespond DEF LoginCreds
    <2>2. CASE LoginVerified(req[r])
      <3> DEFINE k == NextCount(passkeys[req[r].cred].count, req[r].count)
                 h == [req[r] EXCEPT !.pc = "login_sign", !.count = k]
      <3> HIDE DEF k
      <3>1. req[r] \in Handlers /\ req \in [Reqs -> Handlers \cup {Idle}]
        BY <1>5, Working DEF LoginCreds, Inv, ReqInv
      <3>2. req' = [req EXCEPT ![r] = h]
        BY <1>5, <2>2, <3>1 DEF LoginCreds, k
      <3>3. Owned(req[r], users) /\ req[r].pc \in OwnedPcs
        BY <1>5 DEF OwnerInv, HandlersOwned, LoginCreds, At, OwnedPcs
      <3>4. Owned(h, users)
        BY <3>1, <3>3 DEF Owned, Handlers
      <3> HIDE DEF h
      <3> QED
        BY <1>5, <3>2, <3>4, OwnerMove DEF LoginCreds
    <2> QED
      BY <1>5, <2>1, <2>2 DEF LoginCreds
  <1>6. CASE LoginSign(r)
    <2> DEFINE h == [req[r] EXCEPT !.pc = "session"]
    <2>1. req[r] \in Handlers
      BY <1>6, Working DEF LoginSign
    <2>2. req' = [req EXCEPT ![r] = h] /\ UNCHANGED <<users, sessions, minted>>
      BY <1>6 DEF LoginSign, Goto
    <2>3. Owned(req[r], users) /\ req[r].pc \in OwnedPcs
      BY <1>6 DEF OwnerInv, HandlersOwned, LoginSign, At, OwnedPcs
    <2>4. Owned(h, users')
      BY <2>1, <2>2, <2>3 DEF Owned, Handlers
    <2>5. PasskeysOwned' /\ SessionsOwned'
      BY <1>6, <2>2, SignKeepsOwner DEF OwnerInv, PasskeysOwned, SessionsOwned
    <2> HIDE DEF h
    <2> QED
      BY <2>2, <2>4, <2>5, OwnerWrite
  <1> QED
    BY <1>1, <1>2, <1>3, <1>4, <1>5, <1>6 DEF Login

(* Managing passkeys keeps it: a handler adds to its own account.          *)
LEMMA OwnerManage ==
  ASSUME Inv, OwnerInv, NEW r \in Reqs, Manage(r)
  PROVE  OwnerInv'
  <1>1. CASE BeginAddPasskey(r)
    BY <1>1, OwnerRespond DEF BeginAddPasskey
  <1>2. CASE AddTake(r)
    <2>1. req[r] \in Handlers /\ req[r].pc \in OwnedPcs
      BY <1>2, Working DEF AddTake, At, OwnedPcs
    <2> QED
      BY <1>2, <2>1, OwnerRespond, OwnerGoto DEF AddTake
  <1>3. CASE CreatePasskey(r)
    <2> DEFINE h == req[r]
               row == [user |-> h.user, count |-> authn[h.cred].count]
    <2>1. h.user \in UserIds /\ h.cred \in Creds
      BY <1>3, Working DEF CreatePasskey, At, HandlerShape
    <2>2. users[h.user] # Null
      BY <1>3 DEF CreatePasskey, At, OwnerInv, HandlersOwned, Owned, OwnedPcs
    <2>3. passkeys' = passkeys \/ passkeys' = [passkeys EXCEPT ![h.cred] = row]
      BY <1>3 DEF CreatePasskey
    <2>4. req' = [req EXCEPT ![r] = Idle] /\ UNCHANGED <<users, sessions, minted>>
      BY <1>3 DEF CreatePasskey, Respond
    <2>5. PasskeysOwned' /\ SessionsOwned'
      BY <2>1, <2>2, <2>3, <2>4 DEF OwnerInv, PasskeysOwned, SessionsOwned, Inv, TableInv
    <2>6. Owned(Idle, users')
      BY DEF Owned, OwnedPcs, Idle
    <2> QED
      BY <2>4, <2>5, <2>6, OwnerWrite
  <1>4. CASE CountPasskeys(r)
    <2>1. req[r] \in Handlers /\ req[r].pc \in OwnedPcs
      BY <1>4, Working DEF CountPasskeys, At, OwnedPcs
    <2> QED
      BY <1>4, <2>1, OwnerRespond, OwnerGoto DEF CountPasskeys
  <1>5. CASE DeletePasskey(r)
    <2>1. req' = [req EXCEPT ![r] = Idle] /\ UNCHANGED <<users, sessions, minted>>
      BY <1>5 DEF DeletePasskey, Respond
    <2>2. PasskeysOwned' /\ SessionsOwned'
      BY <1>5, <2>1 DEF DeletePasskey, PasskeysOf, OwnerInv, PasskeysOwned, SessionsOwned,
                        Inv, TableInv
    <2>3. Owned(Idle, users')
      BY DEF Owned, OwnedPcs, Idle
    <2> QED
      BY <2>1, <2>2, <2>3, OwnerWrite
  <1> QED
    BY <1>1, <1>2, <1>3, <1>4, <1>5 DEF Manage

(* A session is opened for an account that is there.                       *)
LEMMA OwnerIssue ==
  ASSUME Inv, OwnerInv, NEW r \in Reqs, IssueSession(r)
  PROVE  OwnerInv'
  <1> PICK t \in Tokens : sessions' = [sessions EXCEPT ![t] = req[r].user]
                          /\ minted' = minted \cup {t}
    BY DEF IssueSession
  <1>1. users[req[r].user] # Null
    BY DEF IssueSession, At, OwnerInv, HandlersOwned, Owned, OwnedPcs
  <1>2. req' = [req EXCEPT ![r] = Idle] /\ UNCHANGED <<users, passkeys>>
    BY DEF IssueSession, Respond
  <1>3. PasskeysOwned' /\ SessionsOwned'
    BY <1>1, <1>2 DEF OwnerInv, PasskeysOwned, SessionsOwned, Inv, TableInv
  <1>4. Owned(Idle, users')
    BY DEF Owned, OwnedPcs, Idle
  <1> QED
    BY <1>2, <1>3, <1>4, OwnerWrite

(* Around the handlers nothing takes an account away.                      *)
LEMMA OwnerEnvironment ==
  ASSUME Inv, OwnerInv, Environment
  PROVE  OwnerInv'
  <1>1. ASSUME NEW t \in Tokens, EndSession(t)
        PROVE  OwnerInv'
    BY <1>1 DEF EndSession, OwnerInv, PasskeysOwned, SessionsOwned, HandlersOwned, Owned, Inv,
                TableInv
  <1>2. ASSUME UNCHANGED <<users, passkeys, sessions, minted, req>>
        PROVE  OwnerInv'
    BY <1>2 DEF OwnerInv, PasskeysOwned, SessionsOwned, HandlersOwned, Owned
  <1>3. CASE Restart
    BY <1>3 DEF Restart, tables, OwnerInv, PasskeysOwned, SessionsOwned, HandlersOwned, Owned,
                OwnedPcs, Idle
  <1>4. ASSUME NEW i \in Invites, CreateInviteCode(i)
        PROVE  OwnerInv'
    BY <1>2, <1>4 DEF CreateInviteCode
  <1>5. ASSUME NEW x \in Ceremonies, Expire(x)
        PROVE  OwnerInv'
    BY <1>2, <1>5 DEF Expire, tables
  <1>6. ASSUME NEW c \in Creds, NEW x \in Ceremonies, Attest(c, x)
        PROVE  OwnerInv'
    BY <1>2, <1>6 DEF Attest, tables
  <1> QED
    BY <1>1, <1>3, <1>4, <1>5, <1>6 DEF Environment

(* Passkeys, sessions and the handlers that resolved an account name one   *)
(* that exists, at any point of any mixture of requests.                   *)
THEOREM OwnersExist == Spec => []OwnerInv
  <1>1. Inv /\ OwnerInv /\ [Next]_vars => OwnerInv'
    <2> SUFFICES ASSUME Inv, OwnerInv, [Next]_vars
                 PROVE  OwnerInv'
      OBVIOUS
    <2>1. CASE UNCHANGED vars
      BY <2>1 DEF vars, OwnerInv, PasskeysOwned, SessionsOwned, HandlersOwned, Owned
    <2>2. ASSUME NEW r \in Reqs, Fail(r)
          PROVE  OwnerInv'
      BY <2>2, OwnerRespond DEF Fail
    <2> QED
      BY <2>1, <2>2, OwnerRequest, OwnerRegister, OwnerLogin, OwnerManage, OwnerIssue,
         OwnerEnvironment DEF Next
  <1> QED
    BY <1>1, OwnerInit, Invariance, PTL DEF Spec

----------------------------------------------------------------------------
(* Accounts implements Membership.                                         *)

(* A step that leaves the tables alone is no step of Membership.           *)
LEMMA Stutter ==
  ASSUME UNCHANGED tables
  PROVE  UNCHANGED Contract!vars
  BY DEF tables, Contract!vars, PasskeysOf

(* RegisterWithPasskey is Join: the new account has no passkey before.     *)
LEMMA RegisterJoins ==
  ASSUME Inv, OwnerInv, NEW r \in Reqs, RegisterWithPasskey(r)
  PROVE  [Contract!Next]_(Contract!vars)
  <1> DEFINE h == req[r]
             row == [user |-> h.user, count |-> authn[h.cred].count]
  <1>1. CASE Respond(r) /\ UNCHANGED <<invites, users, passkeys>>
    BY <1>1, Stutter DEF RegisterWithPasskey, tables
  <1>2. CASE RegisterOK(h) /\ Goto(r, "session")
    <2>1. /\ h.user \in UserIds /\ h.name \in Names /\ h.cred \in Creds /\ h.invite \in Invites
      BY Working DEF RegisterWithPasskey, At, HandlerShape
    <2>2. h \in Handlers
      BY Working DEF RegisterWithPasskey
    <2>3. /\ invites' = [invites EXCEPT ![h.invite] = "used"]
          /\ users' = [users EXCEPT ![h.user] = h.name]
          /\ passkeys' = [passkeys EXCEPT ![h.cred] = row]
          /\ sessions' = sessions
      BY <1>2, <2>2 DEF RegisterWithPasskey, Goto, Respond, Inv, ReqInv, Idle, Handlers
    <2>4. /\ invites[h.invite] = "unused" /\ users[h.user] = Null /\ passkeys[h.cred] = Null
          /\ \A v \in UserIds : users[v] # h.name
      BY <1>2 DEF RegisterOK, UsersNamed
    <2>5. \A v \in UserIds : h.cred \notin PasskeysOf(v)
      BY <2>4 DEF PasskeysOf
    <2>6. PasskeysOf(h.user) = {}
      BY <2>4 DEF OwnerInv, PasskeysOwned, PasskeysOf
    <2>7. row # Null /\ row.user = h.user
      <3>1. row \in PasskeyRows
        BY <2>1, Working
        DEF RegisterWithPasskey, At, HandlerShape, Inv, OtherInv, Optional, Authenticators,
            PasskeyRows
      <3> QED
        BY <3>1, NullAssumption
    <2>8. \A v \in UserIds : PasskeysOf(v)' = IF v = h.user THEN {h.cred} ELSE PasskeysOf(v)
      <3> HIDE DEF row
      <3> QED
        BY <2>1, <2>3, <2>4, <2>6, <2>7 DEF PasskeysOf, Inv, TableInv
    <2>9. [u \in UserIds |-> PasskeysOf(u)]'
            = [[u \in UserIds |-> PasskeysOf(u)] EXCEPT ![h.user] = {h.cred}]
      BY <2>1, <2>8
    <2>10. Contract!Join(h.invite, h.user, h.name, h.cred)
      BY <2>1, <2>3, <2>4, <2>5, <2>9 DEF Contract!Join, Contract!Member, Contract!Free
    <2> QED
      BY <2>1, <2>10 DEF Contract!Next
  <1> QED
    BY <1>1, <1>2 DEF RegisterWithPasskey

(* CreatePasskey is AddKey, or nothing.                                    *)
LEMMA CreateAdds ==
  ASSUME Inv, OwnerInv, NEW r \in Reqs, CreatePasskey(r)
  PROVE  [Contract!Next]_(Contract!vars)
  <1> DEFINE h == req[r]
             row == [user |-> h.user, count |-> authn[h.cred].count]
  <1>1. UNCHANGED <<invites, users, sessions>>
    BY DEF CreatePasskey
  <1>2. CASE passkeys[h.cred] # Null
    BY <1>1, <1>2, Stutter DEF CreatePasskey, tables
  <1>3. CASE passkeys[h.cred] = Null
    <2>1. h.user \in UserIds /\ h.cred \in Creds
      BY Working DEF CreatePasskey, At, HandlerShape
    <2>2. passkeys' = [passkeys EXCEPT ![h.cred] = row]
      BY <1>3 DEF CreatePasskey
    <2>3. users[h.user] # Null
      BY DEF CreatePasskey, At, OwnerInv, HandlersOwned, Owned, OwnedPcs
    <2>4. row # Null /\ row.user = h.user
      <3>1. row \in PasskeyRows
        BY <2>1, Working
        DEF CreatePasskey, At, HandlerShape, Inv, OtherInv, Optional, Authenticators, PasskeyRows
      <3> QED
        BY <3>1, NullAssumption
    <2>5. \A v \in UserIds : h.cred \notin PasskeysOf(v)
      BY <1>3 DEF PasskeysOf
    <2>6. \A v \in UserIds : PasskeysOf(v)' = IF v = h.user THEN PasskeysOf(v) \cup {h.cred}
                                                           ELSE PasskeysOf(v)
      <3> HIDE DEF row
      <3> QED
        BY <1>3, <2>1, <2>2, <2>4 DEF PasskeysOf, Inv, TableInv
    <2>7. [u \in UserIds |-> PasskeysOf(u)]'
            = [[u \in UserIds |-> PasskeysOf(u)] EXCEPT ![h.user] = @ \cup {h.cred}]
      BY <2>1, <2>6
    <2>8. Contract!AddKey(h.user, h.cred)
      BY <1>1, <2>1, <2>3, <2>5, <2>7 DEF Contract!AddKey, Contract!Member, Contract!Free
    <2> QED
      BY <2>1, <2>8 DEF Contract!Next
  <1> QED
    BY <1>2, <1>3

(* DeletePasskey is DropKey, or nothing.                                   *)
LEMMA DeleteDrops ==
  ASSUME Inv, NEW r \in Reqs, DeletePasskey(r)
  PROVE  [Contract!Next]_(Contract!vars)
  <1> DEFINE h == req[r]
  <1>1. UNCHANGED <<invites, users, sessions>>
    BY DEF DeletePasskey
  <1>2. CASE h.cred \notin PasskeysOf(h.user)
    BY <1>1, <1>2, Stutter DEF DeletePasskey, tables
  <1>3. CASE h.cred \in PasskeysOf(h.user)
    <2>1. h.user \in UserIds /\ h.cred \in Creds
      BY Working DEF DeletePasskey, At, HandlerShape
    <2>2. passkeys' = [passkeys EXCEPT ![h.cred] = Null]
      BY <1>3 DEF DeletePasskey
    <2>3. \A v \in UserIds : PasskeysOf(v)' = IF v = h.user THEN PasskeysOf(v) \ {h.cred}
                                                           ELSE PasskeysOf(v)
      BY <1>3, <2>1, <2>2 DEF PasskeysOf, Inv, TableInv
    <2>4. [u \in UserIds |-> PasskeysOf(u)]'
            = [[u \in UserIds |-> PasskeysOf(u)] EXCEPT ![h.user] = @ \ {h.cred}]
      BY <2>1, <2>3
    <2>5. Contract!DropKey(h.user, h.cred)
      BY <1>1, <1>3, <2>1, <2>4 DEF Contract!DropKey
    <2> QED
      BY <2>1, <2>5 DEF Contract!Next
  <1> QED
    BY <1>2, <1>3

(* LoginSign touches no key.                                               *)
LEMMA SignStutters ==
  ASSUME Inv, NEW r \in Reqs, LoginSign(r)
  PROVE  UNCHANGED Contract!vars
  <1>1. \A v \in UserIds : PasskeysOf(v)' = PasskeysOf(v)
    BY SignKeepsOwner DEF PasskeysOf
  <1> QED
    BY <1>1 DEF LoginSign, Contract!vars

(* IssueSession is SignIn: the token was not drawn before.                 *)
LEMMA IssueSignsIn ==
  ASSUME Inv, OwnerInv, NEW r \in Reqs, IssueSession(r)
  PROVE  [Contract!Next]_(Contract!vars)
  <1> PICK t \in Tokens \ minted : sessions' = [sessions EXCEPT ![t] = req[r].user]
    BY DEF IssueSession
  <1>1. req[r].user \in UserIds
    BY Working DEF IssueSession, At, HandlerShape
  <1>2. users[req[r].user] # Null
    BY DEF IssueSession, At, OwnerInv, HandlersOwned, Owned, OwnedPcs
  <1>3. sessions[t] = Null
    BY DEF OwnerInv, SessionsOwned
  <1>4. UNCHANGED <<invites, users>> /\ \A v \in UserIds : PasskeysOf(v)' = PasskeysOf(v)
    BY DEF IssueSession, PasskeysOf
  <1>5. Contract!SignIn(t, req[r].user)
    BY <1>1, <1>2, <1>3, <1>4 DEF Contract!SignIn, Contract!Member
  <1> QED
    BY <1>1, <1>5 DEF Contract!Next

(* Around the handlers, codes are minted and sessions end.                 *)
LEMMA EnvironmentRefines ==
  ASSUME Environment
  PROVE  [Contract!Next]_(Contract!vars)
  <1>1. ASSUME NEW t \in Tokens, EndSession(t)
        PROVE  Contract!SignOut(t)
    BY <1>1 DEF EndSession, Contract!SignOut, PasskeysOf
  <1>2. ASSUME NEW i \in Invites, CreateInviteCode(i)
        PROVE  Contract!Mint(i)
    BY <1>2 DEF CreateInviteCode, Contract!Mint, PasskeysOf
  <1>3. CASE UNCHANGED tables
    BY <1>3, Stutter
  <1> QED
    BY <1>1, <1>2, <1>3 DEF Environment, Expire, Attest, Restart, Contract!Next

(* The steps that leave all tables alone.                                  *)
LEMMA TablesKept ==
  ASSUME NEW r \in Reqs
  PROVE  /\ Request(r) => UNCHANGED tables
         /\ Register(r) /\ ~RegisterWithPasskey(r) => UNCHANGED tables
         /\ Login(r) /\ ~LoginSign(r) => UNCHANGED tables
         /\ Manage(r) /\ ~CreatePasskey(r) /\ ~DeletePasskey(r) => UNCHANGED tables
         /\ Fail(r) => UNCHANGED tables
  <1>1. ASSUME Request(r) PROVE UNCHANGED tables
    BY <1>1 DEF Request, RegisterBegin, RegisterFinish, LoginBegin, LoginFinish, PasskeyBegin,
                PasskeyFinish, PasskeyDelete
  <1>2. ASSUME Register(r), ~RegisterWithPasskey(r) PROVE UNCHANGED tables
    BY <1>2 DEF Register, CheckInviteCode, BeginRegister, RegisterTake
  <1>3. ASSUME Login(r), ~LoginSign(r) PROVE UNCHANGED tables
    BY <1>3 DEF Login, BeginLoginUser, BeginLogin, LoginTake, LoginUser, LoginCreds
  <1>4. ASSUME Manage(r), ~CreatePasskey(r), ~DeletePasskey(r) PROVE UNCHANGED tables
    BY <1>4 DEF Manage, BeginAddPasskey, AddTake, CountPasskeys
  <1>5. ASSUME Fail(r) PROVE UNCHANGED tables
    BY <1>5 DEF Fail
  <1> QED
    BY <1>1, <1>2, <1>3, <1>4, <1>5

(* The handlers do what Membership promises: registration, adding and      *)
(* deleting a passkey and opening a session take effect in one transaction *)
(* each, whatever else is under way, and every other step leaves what      *)
(* Membership speaks of alone.                                             *)
THEOREM MembershipImplemented == Spec => ImplementsMembership
  <1>1. Init => Contract!Init
    BY DEF Init, Contract!Init, PasskeysOf
  <1>2. Inv /\ OwnerInv /\ [Next]_vars => [Contract!Next]_(Contract!vars)
    <2> SUFFICES ASSUME Inv, OwnerInv, [Next]_vars
                 PROVE  [Contract!Next]_(Contract!vars)
      OBVIOUS
    <2>1. CASE UNCHANGED vars
      BY <2>1, Stutter DEF vars, tables
    <2>2. ASSUME NEW r \in Reqs, LoginSign(r)
          PROVE  [Contract!Next]_(Contract!vars)
      BY <2>2, SignStutters
    <2>3. ASSUME NEW r \in Reqs,
                 Request(r) \/ Register(r) \/ Login(r) \/ Manage(r) \/ IssueSession(r) \/ Fail(r)
          PROVE  [Contract!Next]_(Contract!vars)
      BY <2>2, <2>3, TablesKept, Stutter, RegisterJoins, CreateAdds, DeleteDrops, IssueSignsIn
    <2> QED
      BY <2>1, <2>3, EnvironmentRefines DEF Next
  <1> QED
    BY <1>1, <1>2, Invariance, OwnersExist, PTL DEF Spec, ImplementsMembership, Contract!Spec

=============================================================================
