--------------------------- MODULE ConfigPatcher ---------------------------
(***************************************************************************)
(* scripts/fix_qwen3_omni_config.py: fix_config reads config.json, adds   *)
(* use_sliding_window and sliding_window to                               *)
(* talker_config.code_predictor_config when they are missing, renames     *)
(* config.json to config.json.backup unless the backup exists, and writes *)
(* the result to config.json.                                             *)
(*                                                                         *)
(* The operator may run the script any number of times, and the process   *)
(* may die between any two of its file operations.  A config is the set   *)
(* of the keys the script looks at; a file is absent, a JSON document     *)
(* with its layout ("orig" as found, "indent2" as json.dump writes it),   *)
(* or torn: the empty or half-written file open(..., 'w') leaves behind.  *)
(* An absent or torn file carries no keys and no layout of its own.       *)
(***************************************************************************)

\* The keys on the path the script inspects; a nested key needs its parent.
Configs ==
    {c \in [talker : BOOLEAN, code : BOOLEAN, usw : BOOLEAN, sw : BOOLEAN] :
        /\ c.code => c.talker
        /\ (c.usw \/ c.sw) => c.code}

Files == [kind : {"absent", "torn", "json"}, data : Configs,
          fmt : {"orig", "indent2"}]
Documents == {f \in Files : f.kind = "json"}

NoKeys == [talker |-> FALSE, code |-> FALSE, usw |-> FALSE, sw |-> FALSE]
Absent == [kind |-> "absent", data |-> NoKeys, fmt |-> "orig"]
Torn == [kind |-> "torn", data |-> NoKeys, fmt |-> "orig"]

\* The document json.dump(c, f, indent=2) writes.
Dumped(c) == [kind |-> "json", data |-> c, fmt |-> "indent2"]

VARIABLES
    config,     \* the file config.json
    backup,     \* the file config.json.backup
    ppc,        \* where the running script is; "idle" when none runs
    mem,        \* the config the running script holds in memory
    original,   \* history: config.json as it was before the first run
    stale       \* history: a backup from an earlier patch was already there

vars == <<config, backup, ppc, mem, original, stale>>

-----------------------------------------------------------------------------
\* Mutant: the sliding_window test nested under the use_sliding_window one.
PatchNested(c) ==
    IF c.talker /\ c.code /\ ~c.usw THEN [c EXCEPT !.usw = TRUE, !.sw = TRUE] ELSE c

\* The in-memory edit of lines 19-36.
Patch(c) ==
    IF c.talker /\ c.code THEN [c EXCEPT !.usw = TRUE, !.sw = TRUE] ELSE c

\* The operator starts the script (51-52).
Start ==
    /\ ppc = "idle"
    /\ ppc' = "read"
    /\ UNCHANGED <<config, backup, mem, original, stale>>

\* open and json.load (16-17): a missing or torn file raises and ends the run.
Read ==
    /\ ppc = "read"
    /\ IF config.kind = "json"
         THEN mem' = config.data /\ ppc' = "patch"
         ELSE ppc' = "idle" /\ UNCHANGED mem
    /\ UNCHANGED <<config, backup, original, stale>>

PatchConfig ==
    /\ ppc = "patch"
    /\ mem' = Patch(mem)
    /\ ppc' = "backup"
    /\ UNCHANGED <<config, backup, original, stale>>

\* Mutant: no existence check; every run renames config.json over the backup.
BackupAlways ==
    /\ ppc = "backup"
    /\ backup' = config /\ config' = Absent
    /\ ppc' = "open"
    /\ UNCHANGED <<mem, original, stale>>

\* Rename config.json to the backup unless a backup exists (38-42).
Backup ==
    /\ ppc = "backup"
    /\ IF backup = Absent
         THEN backup' = config /\ config' = Absent
         ELSE UNCHANGED <<config, backup>>
    /\ ppc' = "open"
    /\ UNCHANGED <<mem, original, stale>>

\* open(config_path, 'w') creates or truncates the file (46).
OpenForWrite ==
    /\ ppc = "open"
    /\ config' = Torn
    /\ ppc' = "dump"
    /\ UNCHANGED <<backup, mem, original, stale>>

\* json.dump(config, f, indent=2) and the close at the end of the with (47-49).
Dump ==
    /\ ppc = "dump"
    /\ config' = Dumped(mem)
    /\ ppc' = "idle"
    /\ UNCHANGED <<backup, mem, original, stale>>

\* The process dies; the files stay as they are on disk.
Crash ==
    /\ ppc \notin {"idle", "read"}
    /\ ppc' = "idle"
    /\ UNCHANGED <<config, backup, mem, original, stale>>

Init ==
    /\ original \in Documents
    /\ original.fmt = "orig"
    /\ config = original
    /\ backup \in {Absent} \cup {d \in Documents : d.fmt = "orig"}
    /\ stale = (backup # Absent)
    /\ ppc = "idle"
    /\ mem = original.data

Next == Start \/ Read \/ PatchConfig \/ Backup \/ OpenForWrite \/ Dump \/ Crash

Spec == Init /\ [][Next]_vars

-----------------------------------------------------------------------------
\* Every variable holds a value of its kind.
TypeOK ==
    /\ config \in Files
    /\ backup \in Files
    /\ ppc \in {"idle", "read", "patch", "backup", "open", "dump"}
    /\ mem \in Configs
    /\ original \in Documents
    /\ stale \in BOOLEAN

(***************************************************************************)
(* The config as the spec describes the fix (spec 4.5): both keys present *)
(* when code_predictor_config exists, anything else left as it was.       *)
(***************************************************************************)
Fixed(c) == IF c.code THEN [c EXCEPT !.usw = TRUE, !.sw = TRUE] ELSE c

(***************************************************************************)
(* Whatever runs, reruns and crashes happen, the original config.json is  *)
(* still on disk, as config.json or as the backup, unless a backup from   *)
(* an earlier patch was there first: the script never renames over an     *)
(* existing backup (40-42).                                               *)
(***************************************************************************)
OriginalRecoverable == ~stale => original \in {config, backup}

(***************************************************************************)
(* A run that completes leaves the fixed config, and the same one every   *)
(* time, whatever earlier runs did or where they crashed (spec 8:         *)
(* idempotent).                                                           *)
(***************************************************************************)
CompletedRunsFix ==
    [][Dump => config' = Dumped(Fixed(original.data))]_vars

(***************************************************************************)
(* Spec 8: a config without talker_config.code_predictor_config is left   *)
(* untouched.                                                             *)
(***************************************************************************)
UntouchedWithoutTarget ==
    ~original.data.code /\ ~stale => config = original /\ backup = Absent

=============================================================================
