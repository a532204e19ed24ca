----------------------------- MODULE Membership -----------------------------
(***************************************************************************)
(* What the accounts of the server promise, without ceremonies, handlers,  *)
(* or time: an invite code is unused until one account is opened with it;  *)
(* an account is opened with a free name and a first passkey, all at once, *)
(* and stays; a passkey belongs to one member; only members sign in.       *)
(* Accounts implements it (ImplementsMembership there).                    *)
(*                                                                         *)
(* That the last passkey of a member stays is not promised: two deletions  *)
(* at once remove it (run accounts_last_passkey).                          *)
(***************************************************************************)
CONSTANTS Names, UserIds, Invites, Creds, Tokens, Null

VARIABLES
    codes,      \* invite code -> "none", "unused" or "used"
    members,    \* user id -> name, or Null
    keys,       \* user id -> the passkeys of that member
    signedIn    \* session token -> user id, or Null

vars == <<codes, members, keys, signedIn>>

Member(u) == members[u] # Null
Free(c)   == \A u \in UserIds : c \notin keys[u]

Init ==
    /\ codes = [i \in Invites |-> "none"]
    /\ members = [u \in UserIds |-> Null]
    /\ keys = [u \in UserIds |-> {}]
    /\ signedIn = [t \in Tokens |-> Null]

Mint(i) ==
    /\ codes[i] = "none"
    /\ codes' = [codes EXCEPT ![i] = "unused"]
    /\ UNCHANGED <<members, keys, signedIn>>

Join(i, u, n, c) ==
    /\ codes[i] = "unused"
    /\ ~Member(u) /\ \A v \in UserIds : members[v] # n
    /\ Free(c)
    /\ codes' = [codes EXCEPT ![i] = "used"]
    /\ members' = [members EXCEPT ![u] = n]
    /\ keys' = [keys EXCEPT ![u] = {c}]
    /\ UNCHANGED signedIn

AddKey(u, c) ==
    /\ Member(u) /\ Free(c)
    /\ keys' = [keys EXCEPT ![u] = @ \cup {c}]
    /\ UNCHANGED <<codes, members, signedIn>>

DropKey(u, c) ==
    /\ c \in keys[u]
    /\ keys' = [keys EXCEPT ![u] = @ \ {c}]
    /\ UNCHANGED <<codes, members, signedIn>>

SignIn(t, u) ==
    /\ Member(u) /\ signedIn[t] = Null
    /\ signedIn' = [signedIn EXCEPT ![t] = u]
    /\ UNCHANGED <<codes, members, keys>>

SignOut(t) ==
    /\ signedIn[t] # Null
    /\ signedIn' = [signedIn EXCEPT ![t] = Null]
    /\ UNCHANGED <<codes, members, keys>>

Next ==
    \/ \E i \in Invites : Mint(i)
    \/ \E i \in Invites, u \in UserIds, n \in Names, c \in Creds : Join(i, u, n, c)
    \/ \E u \in UserIds, c \in Creds : AddKey(u, c) \/ DropKey(u, c)
    \/ \E t \in Tokens : SignOut(t) \/ \E u \in UserIds : SignIn(t, u)

Spec == Init /\ [][Next]_vars
=============================================================================
