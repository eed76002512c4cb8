------------------------------- MODULE Migration --------------------------------
(*****************************************************************************)
(* Opening a store: connect and create_schema (storage/database.py), by the  *)
(* service, which opens two stores one after the other, and by the command   *)
(* line tool (cli.py), a process of its own that opens the same database,    *)
(* reads the history for its brief and closes it.                            *)
(*                                                                           *)
(* The script, the look and the ALTER are each committed on their own, and   *)
(* no lock spans them: the two processes may take them in any order.         *)
(*****************************************************************************)
EXTENDS Naturals, FiniteSets

VARIABLES
  schema,    (* "absent", "old" (without the added column) or "whole"        *)
  opener,    (* per process: where it is in opening a store                  *)
  refused    (* openings refused so far, the column having been added        *)

migrationVars == <<schema, opener, refused>>

Processes == {"service", "tool"}

MigrationInit ==
  /\ schema \in {"absent", "old"}
  /\ opener = [p \in Processes |-> "closed"]
  /\ refused = 0

Proceed(p, from, to) ==
  /\ opener[p] = from
  /\ opener' = [opener EXCEPT ![p] = to]

(* SCHEMA creates what is absent and leaves alone what is there.  Each of its *)
(* statements may run again after another process's, so one step does.        *)
RunScript(p) ==
  /\ Proceed(p, "closed", "look")
  /\ schema' = IF schema = "absent" THEN "whole" ELSE schema
  /\ UNCHANGED refused

(* PRAGMA table_info.  The variant does not look. *)
NotLooked == FALSE
ColumnPresent == schema = "whole"

Look(p) ==
  /\ Proceed(p, "look", IF ColumnPresent THEN "open" ELSE "alter")
  /\ UNCHANGED <<schema, refused>>

AddColumn(p) ==
  /\ schema = "old"
  /\ Proceed(p, "alter", "open")
  /\ schema' = "whole"
  /\ UNCHANGED refused

(* The other process has added it since the look: the ALTER raises.           *)
ColumnTaken(p) ==
  /\ schema = "whole"
  /\ Proceed(p, "alter", "closed")
  /\ refused' = refused + 1
  /\ UNCHANGED schema

CreateSchema(p) == RunScript(p) \/ Look(p) \/ AddColumn(p)

(* The tool holds its store for one read, and may be killed before.           *)
CloseTool ==
  /\ opener["tool"] # "closed"
  /\ opener' = [opener EXCEPT !["tool"] = "closed"]
  /\ UNCHANGED <<schema, refused>>

Tool == CreateSchema("tool") \/ ColumnTaken("tool") \/ CloseTool

Opened(p) == opener[p] = "open"
Closed(p) == [opener EXCEPT ![p] = "closed"]
=============================================================================
