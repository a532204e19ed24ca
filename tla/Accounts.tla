------------------------------ MODULE Accounts ------------------------------
(***************************************************************************)
(* Accounts of the Carseph server: invite codes, users, passkeys and       *)
(* sessions in SQLite, and the WebAuthn ceremonies kept in memory by       *)
(* webauthn.Service.                                                       *)
(*                                                                         *)
(* A handler is a sequence of steps that interleave with those of other    *)
(* requests: a step is one SQL statement or transaction, or one critical   *)
(* section of Service.mu.  A request's ceremony is the one its cookie or   *)
(* body names, its credential response was made for the ceremony whose     *)
(* challenge it answers; two tabs share one cookie, so these may differ.   *)
(*                                                                         *)
(* The authenticator and the go-webauthn library are modelled from how the *)
(* code uses them: a response verifies when its challenge is the           *)
(* ceremony's, it speaks of the ceremony's user, and (login) its           *)
(* credential is among those the handler read.  Usernames are their        *)
(* NOCASE classes; those validUsername refuses are never sent.             *)
(***************************************************************************)
EXTENDS Naturals, FiniteSets

CONSTANTS Names, UserIds, Invites, Creds, Ceremonies, Tokens, Reqs,
          Null,        \* a missing row, an absent value
          MaxCount     \* bound on an authenticator's signature counter

Optional(S) == S \cup {Null}

PasskeyRows == [user : UserIds, count : 0..MaxCount]

(* user is what SessionData.UserID holds, allowed its credential list.     *)
CeremonyRecords ==
    [kind : {"register", "login", "add"}, name : Optional(Names), user : Optional(UserIds),
     invite : Optional(Invites), allowed : SUBSET Creds, expired : BOOLEAN]

Authenticators == [user : UserIds, cer : Ceremonies, count : 0..MaxCount]

ASSUME NullAssumption ==
    /\ Null \notin Names \cup UserIds \cup Invites \cup Creds \cup Ceremonies \cup Tokens
    /\ Null \notin PasskeyRows \cup CeremonyRecords \cup Authenticators
ASSUME DisjointAssumption ==
    /\ UserIds \cap Ceremonies = {} /\ UserIds \cap Tokens = {} /\ Ceremonies \cap Tokens = {}
ASSUME CountAssumption == MaxCount \in Nat

VARIABLES
    invites,    \* table invite_codes: "none", "unused" or "used"
    users,      \* table users: id -> username, or Null
    passkeys,   \* table passkeys: credential -> owner and sign count, or Null
    sessions,   \* table sessions: token -> user, or Null
    live,       \* Service.live: ceremony id -> ceremony, or Null
    minted,     \* user ids, ceremony ids and tokens drawn so far (random)
    authn,      \* authenticators: credential -> userHandle, challenge, counter, or Null
    req         \* request -> state of its handler

vars == <<invites, users, passkeys, sessions, live, minted, authn, req>>

Pcs == {"check_invite", "check_name", "register_take", "register_tx",
        "begin_user", "begin_creds", "login_take", "login_user", "login_creds", "login_sign",
        "add_put", "add_take", "add_row", "count", "delete", "session"}

Handlers == [pc : Pcs, user : Optional(UserIds), name : Optional(Names),
             invite : Optional(Invites), cer : Optional(Ceremonies), cred : Optional(Creds),
             count : 0..MaxCount, allowed : SUBSET Creds]

Idle == [pc |-> "idle"]

Handler(pc) == [pc |-> pc, user |-> Null, name |-> Null, invite |-> Null, cer |-> Null,
                cred |-> Null, count |-> 0, allowed |-> {}]

Init ==
    /\ invites = [i \in Invites |-> "none"]
    /\ users = [u \in UserIds |-> Null]
    /\ passkeys = [c \in Creds |-> Null]
    /\ sessions = [t \in Tokens |-> Null]
    /\ live = [x \in Ceremonies |-> Null]
    /\ minted = {}
    /\ authn = [c \in Creds |-> Null]
    /\ req = [r \in Reqs |-> Idle]

tables == <<invites, users, passkeys, sessions>>

At(r, pc)       == req[r].pc = pc
Start(r, h)     == req[r] = Idle /\ req' = [req EXCEPT ![r] = h]
Goto(r, pc)     == req' = [req EXCEPT ![r].pc = pc]
Respond(r)      == req' = [req EXCEPT ![r] = Idle]

(* A definition marked "mutant of D" is D with a mistake in it; the        *)
(* specification does not use it.  Put in the place of D, it breaks a      *)
(* property, which shows what the property watches.                        *)

UsersNamed(n)   == {u \in UserIds : users[u] = n}
PasskeysOf(u)   == {c \in Creds : passkeys[c] # Null /\ passkeys[c].user = u}

----------------------------------------------------------------------------
(* Service.put: draws an id; once a minute it drops the expired first.     *)
Put(x, c) ==
    /\ x \in Ceremonies \ minted
    /\ \E gc \in BOOLEAN :
         live' = [y \in Ceremonies |->
                    CASE y = x -> c
                      [] y # x /\ gc /\ live[y] # Null /\ live[y].expired -> Null
                      [] OTHER -> live[y]]

(* Mutant of Take: the entry is read and left in the map.                  *)
TakeKeeps(x) == UNCHANGED live

(* Service.take: the entry goes whether or not it is good.                 *)
Take(x)       == live' = [live EXCEPT ![x] = Null]
Good(x, kind) == live[x] # Null /\ live[x].kind = kind /\ ~live[x].expired

Ceremony(kind, n, u, i, allowed) ==
    [kind |-> kind, name |-> n, user |-> u, invite |-> i, allowed |-> allowed,
     expired |-> FALSE]

(* Mutant of Attested: the challenge is not compared.                      *)
AttestedAny(c, x) == authn[c] # Null

(* The attestation answers the challenge of ceremony x.                    *)
Attested(c, x) == authn[c] # Null /\ authn[c].cer = x

----------------------------------------------------------------------------
(* Registration.                                                           *)

RegisterBegin(r, n, i) ==
    /\ Start(r, [Handler("check_invite") EXCEPT !.name = n, !.invite = i])
    /\ UNCHANGED <<tables, live, minted, authn>>

CheckInviteCode(r) ==
    /\ At(r, "check_invite")
    /\ IF invites[req[r].invite] = "unused" THEN Goto(r, "check_name") ELSE Respond(r)
    /\ UNCHANGED <<tables, live, minted, authn>>

(* The new user's id is drawn here and kept in the ceremony.               *)
BeginRegister(r) ==
    /\ At(r, "check_name")
    /\ IF UsersNamed(req[r].name) # {}
       THEN UNCHANGED <<live, minted>>                               \* 409
       ELSE \E x \in Ceremonies, u \in UserIds \ minted :
              /\ Put(x, Ceremony("register", req[r].name, u, req[r].invite, {}))
              /\ minted' = minted \cup {x, u}
    /\ Respond(r)
    /\ UNCHANGED <<tables, authn>>

RegisterFinish(r, x, c) ==
    /\ Start(r, [Handler("register_take") EXCEPT !.cer = x, !.cred = c])
    /\ UNCHANGED <<tables, live, minted, authn>>

RegisterTake(r) ==
    /\ At(r, "register_take")
    /\ LET h == req[r] IN
         IF Good(h.cer, "register") /\ Attested(h.cred, h.cer)
         THEN req' = [req EXCEPT ![r] = [@ EXCEPT !.pc = "register_tx",
                        !.user = live[h.cer].user, !.name = live[h.cer].name,
                        !.invite = live[h.cer].invite]]
         ELSE Respond(r)
    /\ Take(req[r].cer)
    /\ UNCHANGED <<tables, minted, authn>>

(* Mutants of RegisterOK: used_at is not looked at again in the            *)
(* transaction; the username index is not unique.                          *)
RegisterAnyInvite(h) ==
    users[h.user] = Null /\ UsersNamed(h.name) = {} /\ passkeys[h.cred] = Null
RegisterAnyName(h) ==
    invites[h.invite] = "unused" /\ users[h.user] = Null /\ passkeys[h.cred] = Null

(* RegisterWithPasskey, one transaction: all three writes or none.         *)
RegisterOK(h) ==
    /\ invites[h.invite] = "unused"
    /\ users[h.user] = Null /\ UsersNamed(h.name) = {}
    /\ passkeys[h.cred] = Null

RegisterWithPasskey(r) ==
    /\ At(r, "register_tx")
    /\ LET h == req[r] IN
         IF RegisterOK(h)
         THEN /\ invites' = [invites EXCEPT ![h.invite] = "used"]
              /\ users' = [users EXCEPT ![h.user] = h.name]
              /\ passkeys' = [passkeys EXCEPT ![h.cred] =
                                [user |-> h.user, count |-> authn[h.cred].count]]
              /\ Goto(r, "session")
         ELSE Respond(r) /\ UNCHANGED <<invites, users, passkeys>>
    /\ UNCHANGED <<sessions, live, minted, authn>>

IssueSession(r) ==
    /\ At(r, "session")
    /\ \E t \in Tokens \ minted :
         /\ sessions' = [sessions EXCEPT ![t] = req[r].user]
         /\ minted' = minted \cup {t}
    /\ Respond(r)
    /\ UNCHANGED <<invites, users, passkeys, live, authn>>

----------------------------------------------------------------------------
(* Login, with a username (n # Null) or discoverable.                      *)

LoginBegin(r, n) ==
    /\ Start(r, [Handler(IF n = Null THEN "begin_creds" ELSE "begin_user") EXCEPT !.name = n])
    /\ UNCHANGED <<tables, live, minted, authn>>

BeginLoginUser(r) ==
    /\ At(r, "begin_user")
    /\ \/ \E u \in UsersNamed(req[r].name) :
            req' = [req EXCEPT ![r].pc = "begin_creds", ![r].user = u]
       \/ UsersNamed(req[r].name) = {} /\ Respond(r)                 \* 404
    /\ UNCHANGED <<tables, live, minted, authn>>

(* The library refuses a named login of a user without credentials.        *)
BeginLogin(r) ==
    /\ At(r, "begin_creds")
    /\ LET h == req[r]
           allowed == IF h.name = Null THEN {} ELSE PasskeysOf(h.user)
       IN IF h.name # Null /\ allowed = {}
          THEN UNCHANGED <<live, minted>>
          ELSE \E x \in Ceremonies :
                 /\ Put(x, Ceremony("login", h.name, h.user, Null, allowed))
                 /\ minted' = minted \cup {x}
    /\ Respond(r)
    /\ UNCHANGED <<tables, authn>>

(* The authenticator signs challenge x with c and counts.  The response is *)
(* posted for ceremony y; cer stays Null when the challenge is another's.  *)
LoginFinish(r, x, y, c) ==
    /\ authn[c] # Null /\ authn[c].count < MaxCount
    /\ authn' = [authn EXCEPT ![c].count = @ + 1]
    /\ Start(r, [Handler("login_take") EXCEPT !.cer = y, !.count = authn[c].count + 1,
                                              !.cred = IF x = y THEN c ELSE Null])
    /\ UNCHANGED <<tables, live, minted>>

LoginTake(r) ==
    /\ At(r, "login_take")
    /\ LET h == req[r] IN
         IF Good(h.cer, "login")
         THEN req' = [req EXCEPT ![r] = [@ EXCEPT !.pc = "login_user",
                        !.name = live[h.cer].name, !.user = live[h.cer].user,
                        !.allowed = live[h.cer].allowed]]
         ELSE Respond(r)
    /\ Take(req[r].cer)
    /\ UNCHANGED <<tables, minted, authn>>

(* Discoverable: the user is the one the authenticator's userHandle names. *)
(* Named: the username is looked up again, and must be the session's user. *)
LoginUser(r) ==
    /\ At(r, "login_user")
    /\ LET h == req[r]
           handle == IF h.cred = Null THEN Null ELSE authn[h.cred].user
           found == IF h.name = Null THEN {u \in UserIds : u = handle /\ users[u] # Null}
                                     ELSE UsersNamed(h.name) \cap {h.user}
       IN \/ \E u \in found : req' = [req EXCEPT ![r].pc = "login_creds", ![r].user = u]
          \/ found = {} /\ Respond(r)
    /\ UNCHANGED <<tables, live, minted, authn>>

(* The signature verifies under a passkey of the user, for this challenge; *)
(* a named login also needs every credential it allowed to be there still. *)
LoginVerified(h) ==
    /\ h.cred # Null
    /\ h.cred \in PasskeysOf(h.user)
    /\ authn[h.cred].user = h.user
    /\ h.name # Null => h.cred \in h.allowed /\ h.allowed \subseteq PasskeysOf(h.user)

(* Mutant of NextCount: the counter expected next is stored instead of the *)
(* one seen.                                                               *)
ExpectedCount(stored, presented) == presented + 1

(* Authenticator.UpdateCounter: a counter that does not grow only raises   *)
(* CloneWarning, which the server does not look at.                        *)
NextCount(stored, presented) == IF presented <= stored THEN stored ELSE presented

LoginCreds(r) ==
    /\ At(r, "login_creds")
    /\ LET h == req[r] IN
         IF LoginVerified(h)
         THEN req' = [req EXCEPT ![r].pc = "login_sign",
                        ![r].count = NextCount(passkeys[h.cred].count, h.count)]
         ELSE Respond(r)
    /\ UNCHANGED <<tables, live, minted, authn>>

(* UpdatePasskeySignState overwrites; its failure is only logged.          *)
LoginSign(r) ==
    /\ At(r, "login_sign")
    /\ LET h == req[r] IN
         \/ passkeys[h.cred] # Null /\ passkeys' = [passkeys EXCEPT ![h.cred].count = h.count]
         \/ UNCHANGED passkeys
    /\ Goto(r, "session")
    /\ UNCHANGED <<invites, users, sessions, live, minted, authn>>

----------------------------------------------------------------------------
(* Passkeys of a signed-in user.  The auth middleware resolves the session *)
(* before the handler runs; the session may end while it does.             *)

Authed(r, t, h) == sessions[t] # Null /\ Start(r, [h EXCEPT !.user = sessions[t]])

PasskeyBegin(r, t) ==
    /\ Authed(r, t, Handler("add_put"))
    /\ UNCHANGED <<tables, live, minted, authn>>

BeginAddPasskey(r) ==
    /\ At(r, "add_put")
    /\ \E x \in Ceremonies :
         /\ Put(x, Ceremony("add", Null, req[r].user, Null, {}))
         /\ minted' = minted \cup {x}
    /\ Respond(r)
    /\ UNCHANGED <<tables, authn>>

PasskeyFinish(r, t, x, c) ==
    /\ Authed(r, t, [Handler("add_take") EXCEPT !.cer = x, !.cred = c])
    /\ UNCHANGED <<tables, live, minted, authn>>

(* FinishRegistration compares the ceremony's user with the one signed in. *)
AddVerified(h) == Good(h.cer, "add") /\ live[h.cer].user = h.user /\ Attested(h.cred, h.cer)

AddTake(r) ==
    /\ At(r, "add_take")
    /\ IF AddVerified(req[r]) THEN Goto(r, "add_row") ELSE Respond(r)
    /\ Take(req[r].cer)
    /\ UNCHANGED <<tables, minted, authn>>

CreatePasskey(r) ==
    /\ At(r, "add_row")
    /\ LET h == req[r] IN
         passkeys' = IF passkeys[h.cred] # Null THEN passkeys        \* primary key
                     ELSE [passkeys EXCEPT ![h.cred] =
                             [user |-> h.user, count |-> authn[h.cred].count]]
    /\ Respond(r)
    /\ UNCHANGED <<invites, users, sessions, live, minted, authn>>

PasskeyDelete(r, t, c) ==
    /\ Authed(r, t, [Handler("count") EXCEPT !.cred = c])
    /\ UNCHANGED <<tables, live, minted, authn>>

LastPasskey(u) == Cardinality(PasskeysOf(u)) <= 1

CountPasskeys(r) ==
    /\ At(r, "count")
    /\ IF LastPasskey(req[r].user) THEN Respond(r) ELSE Goto(r, "delete")
    /\ UNCHANGED <<tables, live, minted, authn>>

DeletePasskey(r) ==
    /\ At(r, "delete")
    /\ LET h == req[r] IN
         passkeys' = IF h.cred \in PasskeysOf(h.user)
                     THEN [passkeys EXCEPT ![h.cred] = Null] ELSE passkeys
    /\ Respond(r)
    /\ UNCHANGED <<invites, users, sessions, live, minted, authn>>

----------------------------------------------------------------------------
(* Logout, or the session's expiry and its removal.                        *)
EndSession(t) ==
    /\ sessions[t] # Null
    /\ sessions' = [sessions EXCEPT ![t] = Null]
    /\ UNCHANGED <<invites, users, passkeys, live, minted, authn, req>>

(* notes invite-new, a process of its own on the same database.            *)
CreateInviteCode(i) ==
    /\ invites[i] = "none"
    /\ invites' = [invites EXCEPT ![i] = "unused"]
    /\ UNCHANGED <<users, passkeys, sessions, live, minted, authn, req>>

(* A minute passes over a ceremony.                                        *)
Expire(x) ==
    /\ live[x] # Null /\ ~live[x].expired
    /\ live' = [live EXCEPT ![x].expired = TRUE]
    /\ UNCHANGED <<tables, minted, authn, req>>

(* An authenticator answers the creation options of ceremony x.            *)
Attest(c, x) ==
    /\ authn[c] = Null
    /\ live[x] # Null /\ live[x].kind \in {"register", "add"}
    /\ authn' = [authn EXCEPT ![c] = [user |-> live[x].user, cer |-> x, count |-> 0]]
    /\ UNCHANGED <<tables, live, minted, req>>

(* A step returns an error (cancelled context, full disk): 500.            *)
Fail(r) ==
    /\ req[r] # Idle
    /\ Respond(r)
    /\ UNCHANGED <<tables, live, minted, authn>>

(* A restart: ceremonies and handlers are lost, the database stays.        *)
Restart ==
    /\ live' = [x \in Ceremonies |-> Null]
    /\ req' = [r \in Reqs |-> Idle]
    /\ UNCHANGED <<tables, minted, authn>>

----------------------------------------------------------------------------
Request(r) ==
    \/ \E n \in Names, i \in Invites : RegisterBegin(r, n, i)
    \/ \E x \in Ceremonies \cap minted, c \in Creds : RegisterFinish(r, x, c)
    \/ \E n \in Optional(Names) : LoginBegin(r, n)
    \/ \E x, y \in Ceremonies \cap minted, c \in Creds : LoginFinish(r, x, y, c)
    \/ \E t \in Tokens : PasskeyBegin(r, t)
    \/ \E t \in Tokens, x \in Ceremonies \cap minted, c \in Creds : PasskeyFinish(r, t, x, c)
    \/ \E t \in Tokens, c \in Creds : PasskeyDelete(r, t, c)

Register(r) == CheckInviteCode(r) \/ BeginRegister(r) \/ RegisterTake(r) \/ RegisterWithPasskey(r)

Login(r) ==
    \/ BeginLoginUser(r) \/ BeginLogin(r)
    \/ LoginTake(r) \/ LoginUser(r) \/ LoginCreds(r) \/ LoginSign(r)

Manage(r) ==
    \/ BeginAddPasskey(r) \/ AddTake(r) \/ CreatePasskey(r)
    \/ CountPasskeys(r) \/ DeletePasskey(r)

Environment ==
    \/ \E t \in Tokens : EndSession(t)
    \/ \E i \in Invites : CreateInviteCode(i)
    \/ \E x \in Ceremonies : Expire(x)
    \/ \E c \in Creds, x \in Ceremonies : Attest(c, x)
    \/ Restart

Next ==
    \/ \E r \in Reqs : Request(r) \/ Register(r) \/ Login(r) \/ Manage(r) \/ IssueSession(r) \/ Fail(r)
    \/ Environment

Spec == Init /\ [][Next]_vars

----------------------------------------------------------------------------
(* Properties.                                                             *)

(* Every variable stays within its type.                                   *)
TypeOK ==
    /\ invites \in [Invites -> {"none", "unused", "used"}]
    /\ users \in [UserIds -> Optional(Names)]
    /\ passkeys \in [Creds -> Optional(PasskeyRows)]
    /\ sessions \in [Tokens -> Optional(UserIds)]
    /\ live \in [Ceremonies -> Optional(CeremonyRecords)]
    /\ minted \subseteq UserIds \cup Ceremonies \cup Tokens
    /\ authn \in [Creds -> Optional(Authenticators)]
    /\ req \in [Reqs -> Handlers \cup {Idle}]

Accounts == {u \in UserIds : users[u] # Null}

(* Two accounts never share a (case-folded) username, however many         *)
(* ceremonies for it passed the check of BeginRegister.                    *)
UniqueNames == \A u, v \in Accounts : users[u] = users[v] => u = v

(* The userHandle an authenticator holds for a stored passkey is the id of *)
(* the account that owns it: a discoverable login finds the right user.    *)
HandleMatchesRow ==
    \A c \in Creds :
        passkeys[c] # Null => authn[c] # Null /\ authn[c].user = passkeys[c].user

(* A ceremony is used once: what a request took is gone from the map, and  *)
(* no other request took it.                                               *)
Took(r) ==
    req[r].pc \in {"register_tx", "login_user", "login_creds", "login_sign", "add_row", "session"}

SingleUse ==
    \A r \in Reqs : Took(r) =>
        /\ live[req[r].cer] = Null
        /\ \A s \in Reqs \ {r} : Took(s) => req[s].cer # req[r].cer

(* A session is opened for the account the credential was made for, and    *)
(* only by a request that went through a ceremony with that credential.    *)
SessionNeedsCredential ==
    [][\A t \in Tokens :
         sessions[t] = Null /\ sessions'[t] # Null =>
            \E r \in Reqs : /\ At(r, "session") /\ req[r].cred # Null
                            /\ authn[req[r].cred].user = sessions'[t]]_vars

(* A stored signature counter is never ahead of the authenticator's, so a  *)
(* genuine authenticator is never taken for a clone of itself.             *)
CountNotAhead ==
    \A c \in Creds : passkeys[c] # Null => passkeys[c].count <= authn[c].count

(* The handlers, with their ceremonies, restarts and checks far from their *)
(* use, do what Membership promises: what it does in one step happens in   *)
(* one transaction, and every other step leaves it unmoved.                *)
Contract == INSTANCE Membership WITH
    codes <- invites, members <- users, signedIn <- sessions,
    keys <- [u \in UserIds |-> PasskeysOf(u)]

ImplementsMembership == Contract!Spec

(* Registration leaves no account without a passkey, and deletion refuses  *)
(* the last one.  (Of two deletions at once, both may see two passkeys.)   *)
EveryAccountHasPasskey == \A u \in Accounts : PasskeysOf(u) # {}

=============================================================================
