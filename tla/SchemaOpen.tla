------------------------------ MODULE SchemaOpen ------------------------------
(***************************************************************************)
(* Opening the database: a fresh file is stamped with the current version, *)
(* every statement of schema.sql runs, and the migrations the stored       *)
(* version lacks follow, each in a transaction with its version bump.  A   *)
(* process may die between any two of these.                               *)
(* Source: Open and migrate in src/internal/store/store.go, and            *)
(* src/internal/store/schema.sql.                                          *)
(***************************************************************************)
EXTENDS Integers, Sequences, FiniteSets, Functions

CONSTANTS Openers,    \* the processes that open the database
          Schema,     \* what schema.sql creates, in order, "events" first
          Migrations, \* a record each of columns (added to events), ensures
                      \* (created if absent) and drops (dropped if present)
          Overlap     \* whether an Open may begin while another is under way

\* schema.sql creates what the latest version has, so nothing in it is dropped
\* by a migration, and the columns are those added to the table of events.
ASSUME SchemaAssumption ==
    /\ Schema \in Seq(STRING) /\ Schema # <<>> /\ Schema[1] = "events"
    /\ Migrations \in Seq([columns : SUBSET STRING, ensures : SUBSET STRING, drops : SUBSET STRING])
    /\ \A m \in Range(Migrations) :
          /\ m.ensures \subseteq Range(Schema) \ {"events"}
          /\ m.columns \cap Range(Schema) = {} /\ m.drops \cap Range(Schema) = {}
          /\ \A n \in Range(Migrations) : m.drops \cap n.columns = {}
    /\ \A i, j \in DOMAIN Migrations :
          i # j => Migrations[i].columns \cap Migrations[j].columns = {}
    /\ Overlap \in BOOLEAN

VARIABLES version,  \* PRAGMA user_version
          objects,  \* tables, indexes and the columns migrations know of
          opens     \* each process's Open

openVars == <<version, objects, opens>>

Latest == Len(Migrations)
Later(v) == {Migrations[n] : n \in (v + 1)..Latest}
Columns(ms) == UNION {m.columns : m \in ms}
Ensured(ms) == UNION {m.ensures : m \in ms}
Dropped(ms) == UNION {m.drops : m \in ms}

Closed == [pc |-> "closed", at |-> 0, fresh |-> FALSE]

\* What a binary of version v had created when it got to statement n, if it got
\* to any: without what later migrations bring, with what they drop.
CreatedBy(v, n) ==
    IF n = 0 THEN {}
    ELSE ({Schema[i] : i \in 1..n} \cup Columns(Later(0)) \cup Dropped(Later(v)))
         \ (Columns(Later(v)) \cup Ensured(Later(v)))

OpenInit ==
    /\ version \in 0..(Latest + 1)
    /\ \E n \in 0..Len(Schema) : objects = CreatedBy(version, n)
    /\ opens = [o \in Openers |-> Closed]

UnderWay(o) == opens[o].pc \notin {"closed", "ready", "refused", "failed"}

\* A mutated StampFirst: the version is seeded once the schema is there.
StampLast(pc, fresh) ==
    CASE pc = "probe" -> "exec" [] pc = "exec" /\ fresh -> "stamp" [] OTHER -> "migrate"

\* What follows a part of Open, on a file that was fresh or was not.
StampFirst(pc, fresh) ==
    CASE pc = "probe" /\ fresh -> "stamp" [] pc = "exec" -> "migrate" [] OTHER -> "exec"

Goes(o, pc, at) == opens' = [opens EXCEPT ![o].pc = pc, ![o].at = at]

\* eventsTableAbsent.
Probe(o) ==
    LET fresh == "events" \notin objects IN
    /\ opens[o].pc = "closed" /\ (Overlap \/ \A p \in Openers : ~UnderWay(p))
    /\ opens' = [opens EXCEPT ![o] = [pc |-> StampFirst("probe", fresh), at |-> 0, fresh |-> fresh]]
    /\ UNCHANGED <<version, objects>>

Stamp(o) ==
    /\ opens[o].pc = "stamp" /\ version' = Latest
    /\ Goes(o, StampFirst("stamp", TRUE), 0)
    /\ UNCHANGED objects

\* One statement, IF NOT EXISTS: the table of events comes with every column.
Exec(o) ==
    LET new == Schema[opens[o].at + 1] IN
    /\ opens[o].pc = "exec" /\ opens[o].at < Len(Schema)
    /\ objects' = objects \cup {new}
         \cup (IF new = "events" /\ new \notin objects THEN Columns(Later(0)) ELSE {})
    /\ Goes(o, "exec", opens[o].at + 1)
    /\ UNCHANGED version

\* migrate reads the version once, and a file of a newer binary is refused.
ReadVersion(o) ==
    /\ opens[o].pc = "exec" /\ opens[o].at = Len(Schema)
    /\ Goes(o, StampFirst("exec", opens[o].fresh), version)
    /\ UNCHANGED <<version, objects>>

Refuse(o) ==
    /\ opens[o].pc = "migrate" /\ opens[o].at > Latest
    /\ Goes(o, "refused", 0)
    /\ UNCHANGED <<version, objects>>

\* A column that is there already fails the migration, and Open.
Migrate(o) ==
    LET m == Migrations[opens[o].at + 1] IN
    /\ opens[o].pc = "migrate" /\ opens[o].at < Latest
    /\ IF m.columns \cap objects # {}
       THEN Goes(o, "failed", 0) /\ UNCHANGED <<version, objects>>
       ELSE /\ objects' = (objects \cup m.columns \cup m.ensures) \ m.drops
            /\ version' = opens[o].at + 1
            /\ Goes(o, "migrate", opens[o].at + 1)

Opened(o) ==
    /\ opens[o].pc = "migrate" /\ opens[o].at = Latest
    /\ Goes(o, "ready", 0)
    /\ UNCHANGED <<version, objects>>

\* The process dies, or is done with the database.
Closes(o) ==
    /\ opens[o].pc # "closed" /\ opens' = [opens EXCEPT ![o] = Closed]
    /\ UNCHANGED <<version, objects>>

OpenNext ==
    \E o \in Openers :
        \/ Probe(o) \/ Stamp(o) \/ Exec(o) \/ ReadVersion(o)
        \/ Refuse(o) \/ Migrate(o) \/ Opened(o) \/ Closes(o)

OpenSpec == OpenInit /\ [][OpenNext]_openVars

-----------------------------------------------------------------------------
(* Properties. *)

(* Whatever binary left the file, and wherever it or this one died, an Open  *)
(* that has the file to itself never fails, and one that returns has found   *)
(* or brought it to the current version, with everything in it               *)
(* (store.go:82-98: "heal the missing tables").                              *)
SchemaAlwaysOpens ==
    \A o \in Openers :
        /\ opens[o].pc # "failed"
        /\ opens[o].pc = "ready" =>
              /\ version = Latest
              /\ objects = (Range(Schema) \cup Columns(Later(0))) \ Dropped(Later(0))

(* No migration has landed without the version moving, since it would fail   *)
(* on every boot after that (store.go:160-162: "a failure part-way leaves    *)
(* the version where it was and the next Open retries rather than skipping", *)
(* and :248-250), once the process that opens the file is done.              *)
MigrationsMatchVersion ==
    (\A o \in Openers : ~UnderWay(o)) => Columns(Later(version)) \cap objects = {}
=============================================================================
