--------------------------- MODULE SettingsRestore ---------------------------
(***************************************************************************)
(* The restore of a backup over the live settings, file by file, with its  *)
(* rollback; any step may fail, and the program may die at any step.       *)
(* src/plugins/settings_backup.py (restore, from its plan on: what it      *)
(* checks and stages before touches nothing live).  The plan begins with   *)
(* the folder of the settings, which make_directory(config) asks for.      *)
(***************************************************************************)
EXTENDS Naturals, Sequences, FiniteSets

CONSTANTS Plan  \* the entries of the archive: [folders, file], the folders from the
                \* outermost inwards, and whether it is a file in the innermost one

ASSUME RestoreAssumption ==
    Plan \in Seq([folders : Seq(STRING), file : BOOLEAN]) \ {<<>>}

\* A folder is named by its path, which says what folders it is in.
ASSUME PathAssumption ==
    \A i, j \in DOMAIN Plan : \A k \in DOMAIN Plan[i].folders, l \in DOMAIN Plan[j].folders :
        Plan[i].folders[k] = Plan[j].folders[l] =>
            k = l /\ \A m \in 1 .. k : Plan[i].folders[m] = Plan[j].folders[m]

VARIABLES
    before,   \* history: files and folders there were, [files, folders]
    files,    \* contents: a function of the entries that are files
    folders,  \* folders there are
    saved,    \* entries copied to the rollback folder
    written,  \* the list of the same name, of entries
    created,  \* the list of the same name, of folders
    item,     \* the entry restore is at
    restore   \* what it does next, or how it ended

restoreVars == <<before, files, folders, saved, written, created, item, restore>>

Entry == {i \in DOMAIN Plan : Plan[i].file}
Folder == UNION {{Plan[i].folders[k] : k \in DOMAIN Plan[i].folders} : i \in DOMAIN Plan}
Inside(folder, i) == \E k \in DOMAIN Plan[i].folders : Plan[i].folders[k] = folder
Ended == {"done", "raised", "broken", "died"}

RestoreTypeOK ==
    /\ files \in [Entry -> {"none", "old", "new", "torn"}]
    /\ before \in [files : [Entry -> {"none", "old"}], folders : SUBSET Folder]
    /\ folders \subseteq Folder
    /\ saved \subseteq Entry
    /\ \A k \in DOMAIN written : written[k] \in Entry
    /\ \A k \in DOMAIN created : created[k] \in Folder
    /\ item \in 1 .. Len(Plan) + 1
    /\ restore \in {"folder", "save", "note", "copy", "undo", "remove"} \cup Ended

\* A file is in its folders, and a folder in those around it.
Consistent(there) ==
    /\ \A i \in Entry : there.files[i] = "old" => \A f \in Folder :
                            Inside(f, i) => f \in there.folders
    /\ \A i \in DOMAIN Plan : \A k \in 2 .. Len(Plan[i].folders) :
           Plan[i].folders[k] \in there.folders => Plan[i].folders[k - 1] \in there.folders

RestoreInit ==
    /\ before \in {there \in [files : [Entry -> {"none", "old"}], folders : SUBSET Folder] :
                       Consistent(there)}
    /\ files = before.files
    /\ folders = before.folders
    /\ saved = {}
    /\ written = <<>>
    /\ created = <<>>
    /\ item = 1
    /\ restore = "folder"

Missing == {k \in DOMAIN Plan[item].folders : Plan[item].folders[k] \notin folders}
NextEntry == item' = item + 1 /\ restore' = IF item < Len(Plan) THEN "folder" ELSE "done"

\* make_directory: the outermost folder that is missing comes first.
MakeFolder ==
    /\ restore = "folder"
    /\ Missing # {}
    /\ \E k \in Missing :
           /\ \A other \in Missing : k <= other
           /\ folders' = folders \cup {Plan[item].folders[k]}
           /\ created' = Append(created, Plan[item].folders[k])
    /\ UNCHANGED <<before, files, saved, written, item, restore>>

FoldersMade ==
    /\ restore = "folder"
    /\ Missing = {}
    /\ IF Plan[item].file THEN restore' = "save" /\ UNCHANGED item ELSE NextEntry
    /\ UNCHANGED <<before, files, folders, saved, written, created>>

Save ==
    /\ restore = "save"
    /\ restore' = "note"
    /\ saved' = IF files[item] = "none" THEN saved ELSE saved \cup {item}
    /\ UNCHANGED <<before, files, folders, written, created, item>>

\* Mutant: the file is noted when it has been copied.
NoteLater ==
    /\ restore = "note"
    /\ restore' = "copy"
    /\ written' = IF files[item] = "new" THEN Append(written, item) ELSE written
    /\ UNCHANGED <<before, files, folders, saved, created, item>>

Note ==
    /\ restore = "note"
    /\ restore' = "copy"
    /\ written' = Append(written, item)
    /\ UNCHANGED <<before, files, folders, saved, created, item>>

\* The target is truncated, then written.
Truncate ==
    /\ restore = "copy"
    /\ files[item] # "torn"
    /\ files' = [files EXCEPT ![item] = "torn"]
    /\ UNCHANGED <<before, folders, saved, written, created, item, restore>>

\* The protection of the private file may fail then.
Copied ==
    /\ restore = "copy"
    /\ files[item] = "torn"
    /\ files' = [files EXCEPT ![item] = "new"]
    /\ \/ NextEntry
       \/ restore' = "undo" /\ UNCHANGED item
    /\ UNCHANGED <<before, folders, saved, written, created>>

\* Any of these steps raises.
Raise ==
    /\ restore \in {"folder", "save", "copy"}
    /\ restore' = "undo"
    /\ UNCHANGED <<before, files, folders, saved, written, created, item>>

\* The rollback, the last file first.  A copy that fails leaves the target torn.
UndoFile ==
    /\ restore = "undo"
    /\ written # <<>>
    /\ LET i == written[Len(written)] IN
       \/ /\ files' = [files EXCEPT ![i] = IF i \in saved THEN "old" ELSE "none"]
          /\ written' = SubSeq(written, 1, Len(written) - 1)
          /\ UNCHANGED restore
       \/ /\ \/ UNCHANGED files
             \/ i \in saved /\ files' = [files EXCEPT ![i] = "torn"]
          /\ restore' = "broken"
          /\ UNCHANGED written
    /\ UNCHANGED <<before, folders, saved, created, item>>

FilesUndone ==
    /\ restore = "undo"
    /\ written = <<>>
    /\ restore' = "remove"
    /\ UNCHANGED <<before, files, folders, saved, written, created, item>>

Empty(folder) ==
    /\ \A i \in Entry : Inside(folder, i) => files[i] = "none"
    /\ \A i \in DOMAIN Plan : \A k \in 2 .. Len(Plan[i].folders) :
           Plan[i].folders[k - 1] = folder => Plan[i].folders[k] \notin folders

\* rmdir wants an empty folder.
RemoveFolder ==
    /\ restore = "remove"
    /\ created # <<>>
    /\ LET folder == created[Len(created)] IN
       \/ /\ Empty(folder)
          /\ created' = SubSeq(created, 1, Len(created) - 1)
          /\ folders' = folders \ {folder}
          /\ UNCHANGED restore
       \/ restore' = "broken" /\ UNCHANGED <<created, folders>>
    /\ UNCHANGED <<before, files, saved, written, item>>

RolledBack ==
    /\ restore = "remove"
    /\ created = <<>>
    /\ restore' = "raised"
    /\ UNCHANGED <<before, files, folders, saved, written, created, item>>

Die ==
    /\ restore \notin Ended
    /\ restore' = "died"
    /\ UNCHANGED <<before, files, folders, saved, written, created, item>>

RestoreNext ==
    \/ MakeFolder \/ FoldersMade \/ Save \/ Note \/ Truncate \/ Copied \/ Raise
    \/ UndoFile \/ FilesUndone \/ RemoveFolder \/ RolledBack
    \/ Die

RestoreSpec == RestoreInit /\ [][RestoreNext]_restoreVars
-----------------------------------------------------------------------------
\* A restore that raises leaves every file and folder as it was, one that succeeds
\* has replaced them all; even if the rollback fails or the program dies, at most
\* one file is torn and none is lost (restore).
AllOrNothing ==
    /\ restore = "raised" => files = before.files /\ folders = before.folders
    /\ restore = "done" => \A i \in Entry : files[i] = "new"
    /\ Cardinality({i \in Entry : files[i] = "torn"}) <= 1
    /\ \A i \in Entry : before.files[i] = "old" => files[i] # "none"
=============================================================================
