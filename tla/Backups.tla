------------------------------- MODULE Backups -------------------------------
(***************************************************************************)
(* Artifact files and database rows through a backup and a restoration:    *)
(* storage/artifact_store.py and db/backup.py.  A writer stores the file   *)
(* of an artifact and then commits the row that names it, as every service *)
(* does; a backup copies the database and then the files it finds, while   *)
(* writers go on.  A copy may be damaged where it lies.  The order of the  *)
(* files in the walk, links and the manifest's layout are left out.        *)
(***************************************************************************)
EXTENDS FiniteSets

CONSTANTS
    Artifact,  \* contents, each under its hash
    Writer,    \* threads that store artifacts
    None

VARIABLES
    stored,    \* files under their hash
    partial,   \* temporary files, by writer
    named,     \* artifacts that committed rows name
    writing,   \* what each writer stores, and whether its file is there
    stage,     \* where create_backup is
    list,      \* the files it has still to copy
    copied,    \* the backup: the artifacts' files,
    intact,    \*     those whose bytes are still what was copied,
    database,  \*     its copy of the rows, None before there is one,
    sound,     \*     whether that copy is undamaged,
    manifest,  \*     and the artifacts its manifest lists
    restoring, \* where restore_backup is
    target     \* what it has put into place: rows and files

backupVars == <<stored, partial, named, writing, stage, list, copied, intact, database,
                sound, manifest, restoring, target>>

BackupInit ==
    /\ stored = {} /\ named = {}
    /\ partial = [w \in Writer |-> None]
    /\ writing = [w \in Writer |-> None]
    /\ stage = "none"
    /\ list = {} /\ copied = {} /\ intact = {}
    /\ database = None /\ sound = TRUE /\ manifest = None
    /\ restoring = "none"
    /\ target = [rows |-> None, files |-> None]

backup == <<stage, list, copied, intact, database, sound, manifest>>

(* put: content that is stored already is checked, other content goes into a
   temporary file first ... *)
Put(w) ==
    /\ writing[w] = None
    /\ \E a \in Artifact \ named :
          /\ writing' = [writing EXCEPT ![w] = a]
          /\ partial' = [partial EXCEPT ![w] = IF a \in stored THEN None ELSE a]
    /\ UNCHANGED <<stored, named, backup, restoring, target>>

(* ... which replaces the one under the hash. *)
Replace(w) ==
    /\ partial[w] # None
    /\ stored' = stored \cup {partial[w]}
    /\ partial' = [partial EXCEPT ![w] = None]
    /\ UNCHANGED <<named, writing, backup, restoring, target>>

(* The caller commits the row. *)
CommitRow(w) ==
    /\ writing[w] # None
    /\ partial[w] = None
    /\ named' = named \cup {writing[w]}
    /\ writing' = [writing EXCEPT ![w] = None]
    /\ UNCHANGED <<stored, partial, backup, restoring, target>>

(* An error: put removes its temporary file, the caller rolls back. *)
WriterFails(w) ==
    /\ writing[w] # None
    /\ writing' = [writing EXCEPT ![w] = None]
    /\ partial' = [partial EXCEPT ![w] = None]
    /\ UNCHANGED <<stored, named, backup, restoring, target>>

(* create_backup, into an absent or empty directory: sqlite's backup copies
   one committed state ... *)
CopyDatabase ==
    /\ stage = "none"
    /\ database' = named
    /\ stage' = "database"
    /\ UNCHANGED <<stored, partial, named, writing, list, copied, intact, sound, manifest,
                   restoring, target>>

(* ... then the files of the tree are listed, the temporary ones included ... *)
ListFiles ==
    /\ stage = "database"
    /\ list' = {<<a, None>> : a \in stored}
               \cup {<<partial[w], w>> : w \in {x \in Writer : partial[x] # None}}
    /\ stage' = "files"
    /\ UNCHANGED <<stored, partial, named, writing, copied, intact, database, sound, manifest,
                   restoring, target>>

(* ... and copied one by one; one that is no longer there ends the backup,
   which leaves a directory without a manifest. *)
CopyFile ==
    /\ stage = "files"
    /\ \E f \in list :
          IF f[2] = None \/ partial[f[2]] = f[1]
          THEN /\ copied' = copied \cup {f}
               /\ intact' = intact \cup {f}
               /\ list' = list \ {f}
               /\ UNCHANGED stage
          ELSE /\ stage' = "failed"
               /\ UNCHANGED <<copied, intact, list>>
    /\ UNCHANGED <<stored, partial, named, writing, database, sound, manifest,
                   restoring, target>>

(* Mutant: the database is copied after the files. *)
WriteManifest_DatabaseLast ==
    /\ stage = "files"
    /\ list = {}
    /\ manifest' = copied
    /\ database' = named
    /\ stage' = "done"
    /\ UNCHANGED <<stored, partial, named, writing, list, copied, intact, sound,
                   restoring, target>>

(* The manifest with the hashes of the copies, and its verification. *)
WriteManifest ==
    /\ stage = "files"
    /\ list = {}
    /\ manifest' = copied
    /\ stage' = "done"
    /\ UNCHANGED <<stored, partial, named, writing, list, copied, intact, database, sound,
                   restoring, target>>

(* The backup is interrupted: what it left has to be cleared away by hand. *)
BackupStops ==
    /\ stage \in {"database", "files"}
    /\ stage' = "failed"
    /\ UNCHANGED <<stored, partial, named, writing, list, copied, intact, database, sound,
                   manifest, restoring, target>>

(* Bytes of the backup change where it lies. *)
Damage ==
    /\ stage = "done"
    /\ \/ /\ \E f \in intact : intact' = intact \ {f}
          /\ UNCHANGED sound
       \/ /\ sound' = FALSE
          /\ UNCHANGED intact
    /\ UNCHANGED <<stored, partial, named, writing, stage, list, copied, database, manifest,
                   restoring, target>>

(* Mutant: only the database is verified. *)
Verifies_DatabaseOnly == manifest # None /\ sound

(* verify_backup: the database and every file have the hashes of the manifest. *)
Verifies == manifest # None /\ sound /\ manifest \subseteq intact

(* restore_backup: the backup verifies and neither target exists. *)
StartRestore ==
    /\ restoring = "none"
    /\ Verifies
    /\ target = [rows |-> None, files |-> None]
    /\ restoring' = "copying"
    /\ UNCHANGED <<stored, partial, named, writing, backup, target>>

(* Everything is copied to temporary names and checked again; then the files
   are put into place at once ... *)
PlaceFiles ==
    /\ restoring = "copying"
    /\ Verifies
    /\ target' = [target EXCEPT !.files = manifest \cap intact]
    /\ restoring' = "files"
    /\ UNCHANGED <<stored, partial, named, writing, backup>>

(* ... and the database last. *)
PlaceDatabase ==
    /\ restoring = "files"
    /\ target' = [target EXCEPT !.rows = database]
    /\ restoring' = "done"
    /\ UNCHANGED <<stored, partial, named, writing, backup>>

(* Mutant: files in place stay there. *)
RestoreFails_Leaves ==
    /\ restoring \in {"copying", "files"}
    /\ restoring' = "none"
    /\ UNCHANGED <<stored, partial, named, writing, backup, target>>

(* An error: the temporary copies go, and so do files without a database. *)
RestoreFails ==
    /\ restoring \in {"copying", "files"}
    /\ restoring' = "none"
    /\ target' = [rows |-> None, files |-> None]
    /\ UNCHANGED <<stored, partial, named, writing, backup>>

(* The process ends where it is. *)
RestoreCrashes ==
    /\ restoring \in {"copying", "files"}
    /\ restoring' = "crashed"
    /\ UNCHANGED <<stored, partial, named, writing, backup, target>>

BackupNext ==
    \/ \E w \in Writer : Put(w) \/ Replace(w) \/ CommitRow(w) \/ WriterFails(w)
    \/ CopyDatabase \/ ListFiles \/ CopyFile \/ WriteManifest \/ BackupStops
    \/ Damage
    \/ StartRestore \/ PlaceFiles \/ PlaceDatabase \/ RestoreFails \/ RestoreCrashes

-----------------------------------------------------------------------------
(* Every variable has its type. *)
BackupTypeOK ==
    /\ stored \subseteq Artifact /\ named \subseteq Artifact
    /\ partial \in [Writer -> Artifact \cup {None}]
    /\ writing \in [Writer -> Artifact \cup {None}]
    /\ stage \in {"none", "database", "files", "failed", "done"}
    /\ list \cup copied \subseteq Artifact \X (Writer \cup {None})
    /\ intact \subseteq copied
    /\ restoring \in {"none", "copying", "files", "done", "crashed"}

Whole(rows, files) == \A a \in rows : <<a, None>> \in files

(* A backup that was completed while artifacts were written holds the file of
   every artifact its rows name. *)
BackupIsWhole == stage = "done" => Whole(database, manifest)

(* Through damage, errors and crashes, a database in place stands beside all
   its files, as they were copied. *)
RestoredIsWhole == target.rows # None => target.files # None /\ Whole(target.rows, target.files)

(* A restoration that failed can be repeated: files without a database are only
   left by a crash. *)
FailedRestoreIsRepeatable == restoring = "none" => target = [rows |-> None, files |-> None]
=============================================================================
