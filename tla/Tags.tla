-------------------------------- MODULE Tags --------------------------------
(***************************************************************************)
(* Tags of notes and files: tables tags and item_tags, written in the      *)
(* transaction of the item they belong to.                                 *)
(*                                                                         *)
(* A tag is known by its user and its name up to case, which the table     *)
(* keeps unique, so its id is left out.  A name is a word, its case and a  *)
(* form: "plain"; "padded", with a blank at its end; "long", more than 32  *)
(* bytes of which the 32nd is a blank.  normalizeTag trims before it cuts, *)
(* so each form becomes the one before it.  Only the last step of creation *)
(* and deletion concerns tags; an update reads first and writes later.     *)
(***************************************************************************)
CONSTANTS Users, Items,     \* items: notes and files, which share these tables
          Reqs, Words,
          Lists,            \* the lists of names a client may send
          Null, Gone        \* no row yet; no row any more (ids are random, never reused)

Forms == {"plain", "padded", "long"}
Names == [word : Words \cup {""}, upper : BOOLEAN, form : Forms]

VARIABLES
    items,      \* tables notes and files: item -> its user, Null or Gone
    tags,       \* table tags: user and name, as first spelled
    links,      \* table item_tags: item, user and folded name
    req         \* request -> an update between its read and its write

vars == <<items, tags, links, req>>

Idle == [item |-> Null]

Handlers == [item : Items, user : Users, sent : (SUBSET Names) \cup {Null},
             names : (SUBSET Names) \cup {Null}]

Init ==
    /\ items = [i \in Items |-> Null]
    /\ tags = {}
    /\ links = {}
    /\ req = [r \in Reqs |-> Idle]

(* NOCASE: names are compared by this.                                     *)
Fold(n) == [n EXCEPT !.upper = FALSE]

(* Mutant of Normalize: trimmed, not cut.                                  *)
Trimmed(n) == [n EXCEPT !.form = IF @ = "padded" THEN "plain" ELSE @]

Normalize(n) == [n EXCEPT !.form = IF @ = "long" THEN "padded" ELSE "plain"]

(* What setTagsTx makes of a list: normalized, blank and repeated names    *)
(* skipped.                                                                *)
Wanted(T) == {Normalize(n) : n \in {m \in T : m.word # ""}}

(* Two of them that differ in case name one tag: the second link violates  *)
(* the primary key, and the transaction with the whole request fails.      *)
Clash(N) == \E a, b \in N : a # b /\ Fold(a) = Fold(b)

TagsOf(u)  == {t \in tags : t.user = u}
LinksOf(i) == {l \in links : l.item = i}

(* The names attachTags shows of an item.                                  *)
Shown(i) ==
    {t.name : t \in {t \in tags : \E l \in LinksOf(i) : l.user = t.user /\ l.tag = Fold(t.name)}}

(* setTagsTx: the list N replaces the links of item i, unknown names become*)
(* tags.                                                                   *)
Known(u, n) == \E t \in TagsOf(u) : Fold(t.name) = Fold(n)

(* Mutant of Linked: a tag found, not made, is not linked.                 *)
LinkedIfNew(u, N) == {n \in N : ~Known(u, n)}

Linked(u, N) == N

SetTags(u, i, N) ==
    /\ tags' = tags \cup {[user |-> u, name |-> n] : n \in {m \in N : ~Known(u, m)}}
    /\ links' = (links \ LinksOf(i))
                  \cup {[item |-> i, user |-> u, tag |-> Fold(n)] : n \in Linked(u, N)}

----------------------------------------------------------------------------
(* createNote, uploadFile: row and tags in one transaction.                *)
Create(u, i, T) ==
    /\ items[i] = Null
    /\ ~Clash(Wanted(T))
    /\ items' = [items EXCEPT ![i] = u]
    /\ SetTags(u, i, Wanted(T))
    /\ UNCHANGED req

(* Mutant of Carried: a request without tags writes back those that were   *)
(* read with the row.                                                      *)
CarriedOver(T, read) == IF T = Null /\ read # {} THEN read ELSE T

(* n.Tags: the list sent, or nil, which keeps what is there.               *)
Carried(T, read) == T

(* updateNote, updateFile: NoteByID or FileByID, which reads the tags too. *)
UpdateRead(r, u, i, T) ==
    /\ req[r] = Idle
    /\ items[i] = u
    /\ req' = [req EXCEPT ![r] = [item |-> i, user |-> u, sent |-> T,
                                  names |-> Carried(T, Shown(i))]]
    /\ UNCHANGED <<items, tags, links>>

(* Mutant of RowThere: the number of rows updated is not looked at.        *)
RowWritten(u, i) == TRUE

RowThere(u, i) == items[i] = u

(* UpdateNote, UpdateFile: the row must still be there.                    *)
UpdateWrite(r) ==
    /\ req[r] # Idle
    /\ LET h == req[r] IN
         IF RowThere(h.user, h.item) /\ h.names # Null /\ ~Clash(Wanted(h.names))
         THEN SetTags(h.user, h.item, Wanted(h.names))
         ELSE UNCHANGED <<tags, links>>
    /\ req' = [req EXCEPT ![r] = Idle]
    /\ UNCHANGED items

(* Mutants of Unlinked: of every user; by the links there were before.     *)
UnlinkedOfAll(u, ls)     == {t \in tags : ~\E l \in ls : l.user = t.user /\ l.tag = Fold(t.name)}
UnlinkedBefore(u, ls)    == {t \in TagsOf(u) : ~\E l \in links : l.user = u /\ l.tag = Fold(t.name)}

(* pruneOrphanTagsTx: tags of the user without a link.                     *)
Unlinked(u, ls) == {t \in TagsOf(u) : ~\E l \in ls : l.user = u /\ l.tag = Fold(t.name)}

(* DeleteNote, DeleteFile: row, links and tags without links.              *)
Delete(u, i) ==
    /\ items[i] = u
    /\ items' = [items EXCEPT ![i] = Gone]
    /\ links' = links \ LinksOf(i)
    /\ tags' = tags \ Unlinked(u, links')
    /\ UNCHANGED req

(* The context is cancelled, or the transaction fails for another reason.  *)
Fail(r) ==
    /\ req[r] # Idle
    /\ req' = [req EXCEPT ![r] = Idle]
    /\ UNCHANGED <<items, tags, links>>

Next ==
    \/ \E u \in Users, i \in Items, T \in Lists : Create(u, i, T)
    \/ \E r \in Reqs, u \in Users, i \in Items, T \in Lists \cup {Null} : UpdateRead(r, u, i, T)
    \/ \E r \in Reqs : UpdateWrite(r) \/ Fail(r)
    \/ \E u \in Users, i \in Items : Delete(u, i)

Spec == Init /\ [][Next]_vars

----------------------------------------------------------------------------
(* Properties.                                                             *)

(* Stored names are neither blank nor longer than 32 bytes.                *)
StoredNames == [word : Words, upper : BOOLEAN, form : {"plain", "padded"}]

TypeOK ==
    /\ items \in [Items -> Users \cup {Null, Gone}]
    /\ tags \subseteq [user : Users, name : StoredNames]
    /\ links \subseteq [item : Items, user : Users, tag : StoredNames]
    /\ req \in [Reqs -> Handlers \cup {Idle}]

(* A link joins an item that exists and a tag that exists, both of the     *)
(* link's user.  item_tags has no foreign key to the items: an update that *)
(* was under way when its item was deleted must not link it again.         *)
LinksJoin ==
    \A l \in links :
        /\ items[l.item] = l.user
        /\ \E t \in TagsOf(l.user) : Fold(t.name) = l.tag

(* Once an item was deleted, its user has no tag without an item, whatever *)
(* earlier replacements left behind.                                       *)
PrunedOnDelete ==
    [][\A i \in Items :
         items[i] # Gone /\ items'[i] = Gone =>
            \A t \in tags' : t.user = items[i] =>
               \E l \in links' : l.user = t.user /\ l.tag = Fold(t.name)]_vars

(* The tags of an item that stays change only by an update that sent tags: *)
(* a rename or a move, which writes back the rest of the row as it read    *)
(* it, undoes no other request's change of tags.                           *)
KeptUnlessSent ==
    [][\A i \in Items :
         items[i] # Null /\ items'[i] # Gone /\ LinksOf(i)' # LinksOf(i) =>
            \E r \in Reqs : req[r].item = i /\ req[r].sent # Null /\ req'[r] = Idle]_vars

(* A step for one user leaves the tags of every other alone.               *)
OthersTagsKept ==
    [][\A u, v \in Users : u # v /\ TagsOf(u)' # TagsOf(u) => TagsOf(v)' = TagsOf(v)]_vars

(* A client that sends back the names it was shown changes nothing, if it  *)
(* still sees them when it writes and none was cut so that it ends in a    *)
(* blank: those are other names when they come back.                       *)
SentBackKeeps ==
    [][\A r \in Reqs, i \in Items :
         /\ req[r].item = i /\ req'[r] = Idle
         /\ req[r].sent = Shown(i)
         /\ \A n \in Shown(i) : n.form = "plain"
         => LinksOf(i)' = LinksOf(i) \/ items'[i] = Gone]_vars
=============================================================================
