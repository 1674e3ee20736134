------------------------ MODULE ConfigPatcherProofs ------------------------
(***************************************************************************)
(* Proofs about ConfigPatcher: whatever number of runs of                 *)
(* fix_qwen3_omni_config.py, and wherever each of them dies, the content  *)
(* config.json had before the first run stays on disk, provided no backup *)
(* from an earlier patch was there to begin with.                         *)
(***************************************************************************)
EXTENDS ConfigPatcher, TLAPS

(***************************************************************************)
(* The strengthening of OriginalRecoverable.  Without a stale backup: the *)
(* backup is either still absent, with config.json untouched, or holds   *)
(* the original; and a run that is about to truncate or write config.json *)
(* has made sure a backup exists.                                         *)
(***************************************************************************)
BackupHoldsOriginal ==
    ~stale =>
        /\ backup = Absent => config = original
        /\ backup # Absent => backup = original
        /\ ppc \in {"open", "dump"} => backup # Absent

IInv == TypeOK /\ BackupHoldsOriginal

-----------------------------------------------------------------------------
\* A JSON document is a file, and what json.load returns from it a config.
LEMMA DocumentFacts ==
    ASSUME NEW d \in Documents PROVE d \in Files /\ d.data \in Configs
  BY DEF Documents, Files

\* The empty key set is a config, so an absent or torn file is a file.
LEMMA EmptyFiles == NoKeys \in Configs /\ Absent \in Files /\ Torn \in Files
  <1>1. NoKeys \in Configs
    BY DEF NoKeys, Configs
  <1>2. QED
    BY <1>1 DEF Absent, Torn, Files

\* The initial state is well typed, and the original is still config.json.
LEMMA InitIInv == Init => IInv
  <1> SUFFICES ASSUME Init PROVE IInv
    OBVIOUS
  <1>1. original \in Files /\ mem \in Configs
    BY DocumentFacts DEF Init
  <1>2. backup \in Files
    BY EmptyFiles, DocumentFacts DEF Init
  <1>3. TypeOK
    BY <1>1, <1>2 DEF Init, TypeOK
  <1>4. BackupHoldsOriginal
    BY DEF Init, BackupHoldsOriginal
  <1>5. QED
    BY <1>3, <1>4 DEF IInv

\* Every step of a run, and a crash, keeps the types.
LEMMA NextTypeOK == TypeOK /\ [Next]_vars => TypeOK'
  <1> SUFFICES ASSUME TypeOK, [Next]_vars PROVE TypeOK'
    OBVIOUS
  <1> USE DEF TypeOK
  <1>1. CASE Start
    BY <1>1 DEF Start
  <1>2. CASE Read
    <2>1. CASE config.kind = "json"
      BY <1>2, <2>1, DocumentFacts DEF Read, Documents
    <2>2. QED
      BY <1>2, <2>1 DEF Read
  <1>3. CASE PatchConfig
    BY <1>3 DEF PatchConfig, Patch, Configs
  <1>4. CASE Backup
    BY <1>4, EmptyFiles DEF Backup
  <1>5. CASE OpenForWrite
    BY <1>5, EmptyFiles DEF OpenForWrite
  <1>6. CASE Dump
    BY <1>6 DEF Dump, Dumped, Files
  <1>7. CASE Crash
    BY <1>7 DEF Crash
  <1>8. CASE UNCHANGED vars
    BY <1>8 DEF vars
  <1>9. QED
    BY <1>1, <1>2, <1>3, <1>4, <1>5, <1>6, <1>7, <1>8 DEF Next

\* Only the rename and the two writes touch the files; each keeps the backup.
LEMMA NextBackupHoldsOriginal ==
    IInv /\ [Next]_vars => BackupHoldsOriginal'
  <1> SUFFICES ASSUME IInv, [Next]_vars, ~stale' PROVE BackupHoldsOriginal'
    BY DEF BackupHoldsOriginal
  <1>1. ~stale
    BY DEF Next, Start, Read, PatchConfig, Backup, OpenForWrite, Dump, Crash,
           vars
  <1> USE <1>1 DEF IInv, BackupHoldsOriginal
  <1>2. CASE Start
    BY <1>2 DEF Start
  <1>3. CASE Read
    BY <1>3 DEF Read
  <1>4. CASE PatchConfig
    BY <1>4 DEF PatchConfig
  <1>5. CASE Backup
    <2>1. CASE backup = Absent
      <3>1. config = original /\ original \in Documents
        BY <2>1 DEF TypeOK
      <3>2. original # Absent
        BY <3>1 DEF Documents, Absent
      <3>3. QED
        BY <1>5, <2>1, <3>1, <3>2 DEF Backup
    <2>2. CASE backup # Absent
      BY <1>5, <2>2 DEF Backup
    <2>3. QED
      BY <2>1, <2>2
  <1>6. CASE OpenForWrite
    BY <1>6 DEF OpenForWrite
  <1>7. CASE Dump
    BY <1>7 DEF Dump
  <1>8. CASE Crash
    BY <1>8 DEF Crash
  <1>9. CASE UNCHANGED vars
    BY <1>9 DEF vars
  <1>10. QED
    BY <1>2, <1>3, <1>4, <1>5, <1>6, <1>7, <1>8, <1>9 DEF Next

(***************************************************************************)
(* For every sequence of runs of the patcher and every crash point, the   *)
(* original config.json survives as config.json or as config.json.backup  *)
(* (fix_qwen3_omni_config.py lines 38-47), unless a stale backup was      *)
(* there first.                                                            *)
(***************************************************************************)
THEOREM OriginalSurvives == Spec => []OriginalRecoverable
  <1>1. Init => IInv
    BY InitIInv
  <1>2. IInv /\ [Next]_vars => IInv'
    BY NextTypeOK, NextBackupHoldsOriginal DEF IInv
  <1>3. IInv => OriginalRecoverable
    BY DEF IInv, BackupHoldsOriginal, OriginalRecoverable
  <1>4. QED
    BY <1>1, <1>2, <1>3, PTL DEF Spec

-----------------------------------------------------------------------------
(***************************************************************************)
(* What a run carries to its dump.  config.json, whenever it is a JSON    *)
(* document, holds the original keys or the fixed ones; a run that has    *)
(* read it holds one of the two in memory, and one past the patch holds   *)
(* the fixed keys.  The dump writes what the run holds, so it writes the  *)
(* fixed config.                                                           *)
(***************************************************************************)
FixedOriginal == Fixed(original.data)

RunCarriesFix ==
    /\ config.kind = "json" => config \in {original, Dumped(FixedOriginal)}
    /\ ppc = "patch" => mem \in {original.data, FixedOriginal}
    /\ ppc \in {"backup", "open", "dump"} => mem = FixedOriginal

FInv == TypeOK /\ RunCarriesFix

\* The script's patch is the spec's fix on every config it can read, and
\* patching a fixed config changes nothing (lines 19-36).
LEMMA PatchIsFix ==
    ASSUME NEW c \in Configs
    PROVE  /\ Fixed(c) \in Configs
           /\ Patch(c) = Fixed(c)
           /\ Patch(Fixed(c)) = Fixed(c)
  <1>1. c.code => c.talker
    BY DEF Configs
  <1>2. Fixed(c) \in Configs
    BY DEF Fixed, Configs
  <1>3. Patch(c) = Fixed(c)
    BY <1>1 DEF Patch, Fixed
  <1>4. Fixed(c).code = c.code /\ Fixed(c).talker = c.talker
    BY DEF Fixed, Configs
  <1>5. Patch(Fixed(c)) = Fixed(c)
    BY <1>1, <1>4 DEF Patch, Fixed, Configs
  <1>6. QED
    BY <1>2, <1>3, <1>5

\* Before any run, config.json is the original and nobody holds a config.
LEMMA InitFInv == Init => FInv
  <1> SUFFICES ASSUME Init PROVE FInv
    OBVIOUS
  <1>1. TypeOK
    BY InitIInv DEF IInv
  <1>2. RunCarriesFix
    BY DEF Init, RunCarriesFix
  <1>3. QED
    BY <1>1, <1>2 DEF FInv

\* Reading, patching, the rename, the truncation, the dump and a crash each
\* keep what the run and config.json hold to the original or its fix.
LEMMA NextRunCarriesFix == FInv /\ [Next]_vars => RunCarriesFix'
  <1> SUFFICES ASSUME FInv, [Next]_vars PROVE RunCarriesFix'
    OBVIOUS
  <1>1. original \in Documents /\ mem \in Configs
    BY DEF FInv, TypeOK
  <1>2. original.data \in Configs
    BY <1>1, DocumentFacts
  <1>3. /\ FixedOriginal \in Configs
        /\ Patch(original.data) = FixedOriginal
        /\ Patch(FixedOriginal) = FixedOriginal
    BY <1>2, PatchIsFix DEF FixedOriginal
  <1>0. FixedOriginal' = FixedOriginal
    <2>1. original' = original
      BY DEF Next, Start, Read, PatchConfig, Backup, OpenForWrite, Dump,
             Crash, vars
    <2>2. QED
      BY <2>1 DEF FixedOriginal
  <1> USE <1>0 DEF FInv, RunCarriesFix
  <1>4. CASE Start
    BY <1>4 DEF Start
  <1>5. CASE Read
    <2>1. CASE config.kind = "json"
      <3>1. config \in {original, Dumped(FixedOriginal)}
        BY <2>1
      <3>2. mem' = config.data /\ ppc' = "patch" /\ UNCHANGED <<config, original>>
        BY <1>5, <2>1 DEF Read
      <3>3. QED
        BY <3>1, <3>2 DEF Dumped
    <2>2. CASE config.kind # "json"
      BY <1>5, <2>2 DEF Read
    <2>3. QED
      BY <2>1, <2>2
  <1>6. CASE PatchConfig
    BY <1>3, <1>6 DEF PatchConfig
  <1>7. CASE Backup
    BY <1>7 DEF Backup, Absent
  <1>8. CASE OpenForWrite
    BY <1>8 DEF OpenForWrite, Torn
  <1>9. CASE Dump
    BY <1>9 DEF Dump, Dumped
  <1>10. CASE Crash
    BY <1>10 DEF Crash
  <1>11. CASE UNCHANGED vars
    BY <1>11 DEF vars, FixedOriginal
  <1>12. QED
    BY <1>4, <1>5, <1>6, <1>7, <1>8, <1>9, <1>10, <1>11 DEF Next

(***************************************************************************)
(* Every run of fix_qwen3_omni_config.py that reaches json.dump (line 47) *)
(* writes the fix of the original config, whatever earlier runs did and   *)
(* wherever they died: the script is idempotent (spec 8).                 *)
(***************************************************************************)
THEOREM DumpWritesFix == Spec => CompletedRunsFix
  <1>1. Init => FInv
    BY InitFInv
  <1>2. FInv /\ [Next]_vars => FInv'
    BY NextTypeOK, NextRunCarriesFix DEF FInv
  <1>3. FInv /\ [Next]_vars => [Dump => config' = Dumped(Fixed(original.data))]_vars
    BY DEF FInv, RunCarriesFix, Dump, FixedOriginal
  <1>4. QED
    BY <1>1, <1>2, <1>3, PTL DEF Spec, CompletedRunsFix

=============================================================================
