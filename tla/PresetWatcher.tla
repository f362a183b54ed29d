--------------------------- MODULE PresetWatcher ---------------------------
(***************************************************************************)
(* The hot reload of TRUSS_PRESETS_FILE: the first read of the file when   *)
(* the configuration is built (config.rs), and the watcher thread of       *)
(* src/adapters/server/lifecycle.rs that polls the file's modification     *)
(* time while an operator edits the file under it.                         *)
(*                                                                         *)
(* The table of presets is the number of the file version it came from.    *)
(* Each edit gives the file a new modification time, but the clock of the  *)
(* file system is coarse: the end of a write may carry the same time as    *)
(* its beginning.                                                          *)
(***************************************************************************)
EXTENDS Naturals

CONSTANT MaxVersion  \* bound: versions of the file, counted from 1

ASSUME WatcherAssumption == MaxVersion \in Nat \ {0}

VARIABLES
  content,   \* "whole", "torn" while it is written, "invalid", or "missing"
  version,   \* number of the last version written
  mtime,     \* modification time of the file
  presets,   \* config.presets: the version in force, 0 before the first read
  pc,        \* where the start-up, then the watcher, is
  last,      \* last_modified
  current,   \* current_modified
  draining,
  early      \* history: the version written, in part or as a whole, after the
             \* file was loaded and before the watcher first looked; 0 for none

presetFile == <<content, version, mtime>>
watchVars == <<content, version, mtime, presets, pc, last, current, draining, early>>

WatchInit ==
  /\ content = "whole" /\ version = 1 /\ mtime = 1
  /\ presets = 0
  /\ pc = "config"
  /\ last = 0 /\ current = 0
  /\ draining = FALSE
  /\ early = 0

-----------------------------------------------------------------------------
(* The server *)

\* The configuration is built from a file that parses; any other stops the start.
LoadConfig ==
  /\ pc = "config" /\ content = "whole"
  /\ presets' = version /\ pc' = "first"
  /\ UNCHANGED <<presetFile, last, current, draining, early>>

\* The watcher starts: the modification time of whatever is there now.
FirstStat ==
  /\ pc = "first"
  /\ last' = IF content = "missing" THEN 0 ELSE mtime
  /\ pc' = "sleep"
  /\ UNCHANGED <<presetFile, presets, current, draining, early>>

\* After each PRESET_WATCH_INTERVAL.
Wake ==
  /\ pc = "sleep"
  /\ pc' = IF draining THEN "stopped" ELSE "stat"
  /\ UNCHANGED <<presetFile, presets, last, current, draining, early>>

\* A file that cannot be examined, or has not changed, waits for the next poll.
Stat ==
  /\ pc = "stat"
  /\ IF content = "missing" \/ mtime = last
       THEN pc' = "sleep" /\ UNCHANGED current
       ELSE pc' = "parse" /\ current' = mtime
  /\ UNCHANGED <<presetFile, presets, last, draining, early>>

\* Mutant: a file that does not parse is not looked at again.
ParseForgets ==
  /\ pc = "parse"
  /\ presets' = IF content = "whole" THEN version ELSE presets
  /\ last' = current
  /\ pc' = "sleep"
  /\ UNCHANGED <<presetFile, current, draining, early>>

\* parse_presets_file reads the file as it is by now.  A table that parses
\* replaces the old one; one that does not leaves `last_modified` alone, so
\* that the next poll tries again.
Parse ==
  /\ pc = "parse"
  /\ IF content = "whole"
       THEN presets' = version /\ last' = current
       ELSE UNCHANGED <<presets, last>>
  /\ pc' = "sleep"
  /\ UNCHANGED <<presetFile, current, draining, early>>

-----------------------------------------------------------------------------
(* The operator *)

MayEdit == version < MaxVersion
NoteEarly == early' = IF pc = "first" THEN version + 1 ELSE early

\* An editor that writes in place: the file is torn until the write is over.
BeginWrite ==
  /\ MayEdit /\ content # "torn"
  /\ content' = "torn" /\ mtime' = mtime + 1
  /\ NoteEarly
  /\ UNCHANGED <<version, presets, pc, last, current, draining>>

EndWrite ==
  /\ content = "torn"
  /\ content' \in {"whole", "invalid"}
  /\ version' = version + 1
  /\ mtime' \in {mtime, mtime + 1}
  /\ NoteEarly
  /\ UNCHANGED <<presets, pc, last, current, draining>>

\* One that renames a new file over the old, or removes it.
ReplaceFile ==
  /\ MayEdit /\ content # "torn"
  /\ content' \in {"whole", "invalid", "missing"}
  /\ version' = version + 1 /\ mtime' = mtime + 1
  /\ NoteEarly
  /\ UNCHANGED <<presets, pc, last, current, draining>>

Shutdown ==
  /\ ~draining
  /\ draining' = TRUE
  /\ UNCHANGED <<presetFile, presets, pc, last, current, early>>

\* The watcher thread, once the server runs.
Watch == FirstStat \/ Wake \/ Stat \/ Parse

\* What the operator does meanwhile.
Operate == BeginWrite \/ EndWrite \/ ReplaceFile
=============================================================================
