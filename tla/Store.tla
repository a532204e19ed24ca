-------------------------------- MODULE Store -------------------------------
(***************************************************************************)
(* The store of a running server: the schema is brought up to date first   *)
(* (Migrations), then requests use it (Tags).  notes invite-new may        *)
(* migrate the same file at any time, the server's requests included; a    *)
(* server that dies takes its requests with it and starts again.           *)
(***************************************************************************)
EXTENDS Naturals

CONSTANTS Server, Cli, Last, Repeatable, MaxFaults
CONSTANTS Users, Items, Reqs, Words, Lists, Null, Gone

VARIABLES version, applied, proc, faults
VARIABLES items, tags, links, req

Schema == INSTANCE Migrations
Tables == INSTANCE Tags

ASSUME LastAssumption == Last \in Nat \ {0} /\ Repeatable \subseteq {Last}
ASSUME FaultsAssumption == MaxFaults \in Nat
ASSUME ProcsAssumption == Server # Cli
ASSUME WordsAssumption == "" \notin Words
ASSUME ListsAssumption == Lists \subseteq SUBSET Tables!Names
ASSUME NullAssumption ==
    /\ Null \notin Users \cup Lists \cup Items \cup {Gone}
    /\ Gone \notin Users

schema == <<version, applied, proc, faults>>
rows   == <<items, tags, links>>
vars   == <<schema, rows, req>>

Init == Schema!Init /\ Tables!Init

(* Mutant of Serving: the listener is opened before the database.          *)
ServingEarly == proc[Server].pc # "down"

(* serve opens the store before it makes the HTTP server.                  *)
Serving == proc[Server].pc = "up"

Serve == Serving /\ Tables!Next /\ UNCHANGED schema

Open(p) == Schema!Start(p) /\ UNCHANGED <<rows, req>>

CliEnds == (Schema!Printed \/ Schema!Die(Cli)) /\ UNCHANGED <<rows, req>>

ServerDies ==
    /\ Schema!Die(Server)
    /\ req' = [r \in Reqs |-> Tables!Idle]
    /\ UNCHANGED rows

Next == Serve \/ (\E p \in {Server, Cli} : Open(p)) \/ CliEnds \/ ServerDies

(* systemd starts the server again (Restart=on-failure); nobody is obliged *)
(* to run invite-new or to send requests.                                  *)
Fairness == WF_vars(Open(Server))

Spec == Init /\ [][Next]_vars /\ Fairness

----------------------------------------------------------------------------
(* Properties: those of the parts, and what they are to one another.       *)

TypeOK == Schema!TypeOK /\ Tables!TypeOK

(* The version recorded is that of the schema (Migrations).                *)
VersionIsSchema == Schema!VersionIsSchema

(* Whoever is past opening finds the whole schema (Migrations).            *)
OpenedIsComplete == Schema!OpenedIsComplete

(* The version never goes back (Migrations).                               *)
VersionForward == [][version' >= version]_vars

(* Rows are read and written by a complete schema only, also while another *)
(* process is opening it.                                                  *)
SchemaFirst == [][(rows' # rows \/ req' # req) => version = Last]_vars

(* However often invite-new comes in between, the server gets up again.    *)
ServerComesUp == []<>(proc[Server].pc = "up")

(* Links join what exists (Tags).                                          *)
LinksJoin == Tables!LinksJoin

(* Deletion leaves no tag without an item (Tags).                          *)
PrunedOnDelete == Tables!PrunedOnDelete

(* Tags change only by updates that sent tags (Tags).                      *)
KeptUnlessSent == Tables!KeptUnlessSent

(* A step for one user leaves the tags of every other alone (Tags).        *)
OthersTagsKept == Tables!OthersTagsKept

(* Names shown and sent back change nothing (Tags).                        *)
SentBackKeeps == Tables!SentBackKeeps
=============================================================================
