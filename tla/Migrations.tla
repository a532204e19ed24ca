----------------------------- MODULE Migrations -----------------------------
(***************************************************************************)
(* Opening the database: Store.migrate in the server, which systemd starts *)
(* again when it fails, and in notes invite-new, started by hand at any    *)
(* time, both on one SQLite file.                                          *)
(*                                                                         *)
(* A step is one statement or one transaction.  SQLite lets one process    *)
(* write at a time; the version is read before, outside the transactions.  *)
(***************************************************************************)
EXTENDS Naturals

CONSTANTS Server, Cli,   \* the two processes
          Last,          \* the number of migrations
          Repeatable,    \* those that work on a schema that has them already
          MaxFaults

Procs == {Server, Cli}

VARIABLES
    version,    \* schema_version in table meta, 0 without one
    applied,    \* migrations whose statements are committed
    proc,       \* process -> position, and the next migration it has in mind
    faults

vars == <<version, applied, proc, faults>>

Down == [pc |-> "down", next |-> 0]

Init ==
    /\ version = 0
    /\ applied = {}
    /\ proc = [p \in Procs |-> Down]
    /\ faults = 0

Exit(p) == proc' = [proc EXCEPT ![p] = Down]

(* The file is opened, and meta created unless it is there.                *)
Boot(p) ==
    /\ proc[p] = Down
    /\ proc' = [proc EXCEPT ![p].pc = "boot"]
    /\ UNCHANGED <<version, applied, faults>>

(* Mutant of FirstPending: the migration recorded is applied again.        *)
LastRecorded == IF version = 0 THEN 1 ELSE version

FirstPending == version + 1

ReadVersion(p) ==
    /\ proc[p].pc = "boot"
    /\ proc' = [proc EXCEPT ![p] = [pc |-> "migrate", next |-> FirstPending]]
    /\ UNCHANGED <<version, applied, faults>>

(* A table or a column that is there cannot be created again (1 to 4); the *)
(* table files can be renamed, copied and dropped again (5).               *)
Applies(n) == n \in Repeatable \/ n \notin applied

(* Mutant of Recorded: the version is written after the transaction, and   *)
(* this process does not get there.                                        *)
NotRecorded(n) == UNCHANGED version

Recorded(n) == version' = n

(* One transaction: the migration and its record, or neither.  A process   *)
(* whose migration fails exits.                                            *)
Migrate(p) ==
    /\ proc[p].pc = "migrate" /\ proc[p].next <= Last
    /\ LET n == proc[p].next IN
         IF Applies(n)
         THEN /\ Recorded(n)
              /\ applied' = applied \cup {n}
              /\ proc' = [proc EXCEPT ![p].next = n + 1]
         ELSE Exit(p) /\ UNCHANGED <<version, applied>>
    /\ UNCHANGED faults

Opened(p) ==
    /\ proc[p].pc = "migrate" /\ proc[p].next > Last
    /\ proc' = [proc EXCEPT ![p].pc = "up"]
    /\ UNCHANGED <<version, applied, faults>>

(* invite-new prints its code and exits.                                   *)
Printed ==
    /\ proc[Cli].pc = "up"
    /\ Exit(Cli)
    /\ UNCHANGED <<version, applied, faults>>

(* The process dies or a statement fails (a database that stays locked for *)
(* five seconds, a full disk): what it did not commit is rolled back.      *)
Die(p) ==
    /\ proc[p] # Down
    /\ faults < MaxFaults
    /\ faults' = faults + 1
    /\ Exit(p)
    /\ UNCHANGED <<version, applied>>

Start(p) == Boot(p) \/ ReadVersion(p) \/ Migrate(p) \/ Opened(p)

Next == (\E p \in Procs : Start(p) \/ Die(p)) \/ Printed

(* systemd starts the server again (Restart=on-failure); nobody is obliged *)
(* to run invite-new.                                                      *)
Fairness == WF_vars(Start(Server))

Spec == Init /\ [][Next]_vars /\ Fairness

----------------------------------------------------------------------------
(* Properties.                                                             *)

TypeOK ==
    /\ version \in 0..Last
    /\ applied \subseteq 1..Last
    /\ proc \in [Procs -> [pc : {"down", "boot", "migrate", "up"}, next : 0..Last + 1]]
    /\ faults \in 0..MaxFaults

(* The version recorded is that of the schema: exactly the migrations up   *)
(* to it are applied, whoever applied them and whatever was interrupted.   *)
VersionIsSchema == applied = 1..version

(* A process that is past migrate finds the whole schema, even if another  *)
(* migrated at the same time.                                              *)
OpenedIsComplete == \A p \in Procs : proc[p].pc = "up" => version = Last

(* The version never goes back, though a slow process may apply a          *)
(* migration another has applied: only the last one lets itself be         *)
(* repeated.                                                               *)
VersionForward == [][version' >= version]_vars

(* However often invite-new comes in between, the server gets up again.    *)
ServerComesUp == []<>(proc[Server].pc = "up")
=============================================================================
