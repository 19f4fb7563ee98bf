------------------------- MODULE LCFileSaveService -------------------------
(***************************************************************************)
(* The file store (LCFileSaveService.m): a content is copied to a directory *)
(* of the day it comes in, unless it is stored already; one without a tag   *)
(* is removed.                                                              *)
(*                                                                          *)
(* A call is a sequence of reads and writes of the tables and of the disk,  *)
(* one step each: calls of other threads and the end of the process may     *)
(* come in between.  NSAssert is compiled out (a release build).            *)
(***************************************************************************)
EXTENDS LCFileDB

CONSTANTS
    Callers,      \* the threads that use the store
    CanRestart    \* whether the app may be killed and launched again

VARIABLES
    files, tags,  \* the two tables
    disk,         \* the stored files that exist
    sources,      \* contents for which the app has a file of its own
    rootDir,      \* the document directory of the app
    today,        \* the current day
    call          \* caller -> the call it is in

storeVars == <<files, tags, disk, sources, rootDir, today, call>>

(* What a call has in its hands: the LCFileM it works on (its path is None  *)
(* when nothing could be stored), the rows it is about to remove, and those *)
(* of them whose files it has still to remove.                              *)
FileM == [md5 : Md5s, path : Path \cup {None}]
Place ==
    {"idle", "copy", "saveRow", "saveTag", "saved",
     "checkFile", "checkTags", "dropRow", "dropTags", "forgetRow", "dropFile", "found",
     "find", "query", "removeFiles", "deleted"}
CallState ==
    [pc : Place, file : FileM \cup {None}, key : Keys \cup {None},
     move : BOOLEAN, rows : SUBSET FileRow, left : SUBSET FileRow]
ASSUME FileMAssumption == None \notin FileM
NoCall ==
    [pc |-> "idle", file |-> None, key |-> None, move |-> FALSE, rows |-> {}, left |-> {}]

TypeOK ==
    /\ files \in FileTable /\ tags \in TagTable
    /\ disk \subseteq Path /\ sources \subseteq Md5s
    /\ rootDir \in Roots /\ today \in Days
    /\ call \in [Callers -> CallState]

Init ==
    /\ files = [k \in Keys |-> None]
    /\ tags = [g \in Tags |-> None]
    /\ disk = {} /\ sources = {}
    /\ rootDir \in {r \in Roots : \A e \in Roots : r <= e}
    /\ today \in {d \in Days : \A e \in Days : d <= e}
    /\ call = [c \in Callers |-> NoCall]

At(c, pc) == call[c].pc = pc
Goto(c, pc) == call' = [call EXCEPT ![c].pc = pc]
End(c) == call' = [call EXCEPT ![c] = NoCall]

(* The first of the rows a query matches, or nil.                           *)
OneOf(rows) ==
    IF rows = {} THEN {None} ELSE {files[k] : k \in rows}
-----------------------------------------------------------------------------
(* lc_saveFileFrom: the digest of the source, the row that has it ...       *)
lc_saveFileFrom(c, md5, key, move) ==
    /\ At(c, "idle")
    /\ md5 \in sources
    /\ \E old \in OneOf(FilesWithMd5(files, md5)) :
        call' = [call EXCEPT ![c] =
                    [NoCall EXCEPT !.pc = "copy", !.move = move,
                                   !.key = IF key = None THEN md5 ELSE key,
                                   !.file = [md5 |-> md5,
                                             path |-> IF old = None THEN None ELSE old.path]]]
    /\ UNCHANGED <<files, tags, disk, sources, rootDir, today>>

(* Mutant: a row is enough. *)
Reusable_Trusts(path) == path # None

(* Mutant: the source is always copied. *)
Reusable_Never(path) == FALSE

(* The recorded file is still there. *)
Reusable(path) == path \in disk

(* ... p_copyFile: a file that is there is used, else the source is moved   *)
(* or copied to the directory of the day, which may fail ...                *)
p_copyFile(c) ==
    LET md5 == call[c].file.md5
        old == call[c].file.path
        new == [root |-> rootDir, day |-> today, md5 |-> md5]
        Use(path) == call' = [call EXCEPT ![c].pc = "saveRow", ![c].file.path = path]
    IN  /\ At(c, "copy")
        /\ \/ /\ Reusable(old)
              /\ Use(old)
              /\ UNCHANGED <<disk, sources>>
           \/ /\ ~Reusable(old) /\ new \in disk
              /\ Use(new)
              /\ UNCHANGED <<disk, sources>>
           \/ /\ ~Reusable(old) /\ new \notin disk /\ md5 \in sources
              /\ Use(new)
              /\ disk' = disk \cup {new}
              /\ sources' = IF call[c].move THEN sources \ {md5} ELSE sources
           \/ /\ ~Reusable(old) /\ new \notin disk
              /\ Use(None)
              /\ UNCHANGED <<disk, sources>>
        /\ UNCHANGED <<files, tags, rootDir, today>>

(* ... the row ... *)
SaveRow(c) ==
    /\ At(c, "saveRow")
    /\ files' = lc_saveFile(files, call[c].key, call[c].file.md5, call[c].file.path)
    /\ Goto(c, "saveTag")
    /\ UNCHANGED <<tags, disk, sources, rootDir, today>>

(* ... and the tag, whose tag and group were never filled in.               *)
SaveTag(c, time) ==
    /\ At(c, "saveTag")
    /\ tags' = lc_saveTag(tags, None, call[c].file.md5, None, time)
    /\ Goto(c, "saved")
    /\ UNCHANGED <<files, disk, sources, rootDir, today>>

-----------------------------------------------------------------------------
(* lc_getFileWithMd5, lc_getFileWithKey, lc_getFileWithFilePath             *)
Lookup(c, rows) ==
    /\ At(c, "idle")
    /\ \E file \in OneOf(rows) :
        call' = [call EXCEPT ![c] = [NoCall EXCEPT !.pc = "checkFile", !.file = file]]
    /\ UNCHANGED <<files, tags, disk, sources, rootDir, today>>

lc_getFile(c) ==
    \/ \E md5 \in Md5s : Lookup(c, FilesWithMd5(files, md5))
    \/ \E key \in Keys : Lookup(c, FilesWithKey(files, key))
    \/ \E path \in Path : Lookup(c, FilesWithPath(files, path))

(* Mutant: the disk is not looked at. *)
FileExists_Trusts(c) == call[c].file # None

FileExists(c) == call[c].file # None /\ call[c].file.path \in disk

(* p_fileExist: without a file the row and the tags go; without a tag the   *)
(* row and the file go.  Of a nil file, the md5 is nil.                     *)
p_fileExist(c) ==
    LET file == call[c].file
        md5 == IF file = None THEN None ELSE file.md5
    IN  \/ /\ At(c, "checkFile")
           /\ Goto(c, IF FileExists(c) THEN "checkTags" ELSE "dropRow")
           /\ UNCHANGED <<files, tags, disk>>
        \/ /\ At(c, "dropRow")
           /\ files' = lc_deleteFileWithMd5s(files, {md5})
           /\ Goto(c, "dropTags")
           /\ UNCHANGED <<tags, disk>>
        \/ /\ At(c, "dropTags")
           /\ tags' = lc_deleteTag(tags, None, md5, None)
           /\ End(c)
           /\ UNCHANGED <<files, disk>>
        \/ /\ At(c, "checkTags")
           /\ Goto(c, IF TagsWithMd5(tags, md5) = {} THEN "forgetRow" ELSE "found")
           /\ UNCHANGED <<files, tags, disk>>
        \/ /\ At(c, "forgetRow")
           /\ files' = lc_deleteFileWithMd5s(files, {md5})
           /\ Goto(c, "dropFile")
           /\ UNCHANGED <<tags, disk>>
        \/ /\ At(c, "dropFile")
           /\ disk' = disk \ {file.path}
           /\ End(c)
           /\ UNCHANGED <<files, tags>>

CheckFile(c) == p_fileExist(c) /\ UNCHANGED <<sources, rootDir, today>>

-----------------------------------------------------------------------------
(* lc_deleteFileWithMd5: the tag goes; then p_deleteNoTagFile.              *)
lc_deleteFileWithMd5(c, md5, tag, group) ==
    /\ tags' = lc_deleteTag(tags, tag, md5, group)
    /\ Goto(c, "query")
    /\ UNCHANGED <<files, disk, sources, rootDir, today>>

(* lc_deleteFileWithKey, lc_deleteFileWithFilePath: the row is read first,  *)
(* and the md5 of a nil row is nil.                                         *)
DeleteFound(c, rows) ==
    /\ At(c, "idle")
    /\ \E file \in OneOf(rows) :
        call' = [call EXCEPT ![c] = [NoCall EXCEPT !.pc = "find", !.file = file]]
    /\ UNCHANGED <<files, tags, disk, sources, rootDir, today>>

DeleteTagOfFound(c, tag, group) ==
    /\ At(c, "find")
    /\ lc_deleteFileWithMd5(c, IF call[c].file = None THEN None ELSE call[c].file.md5,
                            tag, group)

(* lc_deleteFileInGroup:after: and lc_deleteFileInGroup:before:             *)
lc_deleteFileInGroup(c, newTags) ==
    /\ At(c, "idle")
    /\ tags' = newTags
    /\ Goto(c, "query")
    /\ UNCHANGED <<files, disk, sources, rootDir, today>>

DeleteCall(c) ==
    \/ \E md5 \in Md5s, tag \in Tags, group \in Groups :
            At(c, "idle") /\ lc_deleteFileWithMd5(c, md5, tag, group)
    \/ \E key \in Keys : DeleteFound(c, FilesWithKey(files, key))
    \/ \E path \in Path : DeleteFound(c, FilesWithPath(files, path))
    \/ \E tag \in Tags, group \in Groups : DeleteTagOfFound(c, tag, group)
    \/ \E group \in Groups, time \in Times :
        \/ lc_deleteFileInGroup(c, lc_deleteTagAfter(tags, group, time))
        \/ lc_deleteFileInGroup(c, lc_deleteTagBefore(tags, group, time))

(* Mutant: the rows stay. *)
RowsAfterCleanup_Kept(c) == files

RowsAfterCleanup(c) ==
    lc_deleteFileWithMd5s(files, {row.md5 : row \in call[c].rows})

(* p_deleteNoTagFile: the rows without a tag, their files one by one, the   *)
(* rows.                                                                    *)
p_deleteNoTagFile(c) ==
    /\ \/ /\ At(c, "query")
          /\ LET rows == {files[k] : k \in lc_getNoTagFile(files, tags)}
             IN  call' = [call EXCEPT ![c].pc = "removeFiles", ![c].rows = rows, ![c].left = rows]
          /\ UNCHANGED <<files, disk>>
       \/ /\ At(c, "removeFiles")
          /\ \E row \in call[c].left :
                /\ disk' = disk \ {row.path}
                /\ call' = [call EXCEPT ![c].left = @ \ {row}]
          /\ UNCHANGED files
       \/ /\ At(c, "removeFiles") /\ call[c].left = {}
          /\ files' = RowsAfterCleanup(c)
          /\ Goto(c, "deleted")
          /\ UNCHANGED disk
    /\ UNCHANGED <<tags, sources, rootDir, today>>

(* The call returns to its caller.                                          *)
Return(c) ==
    /\ call[c].pc \in {"saved", "found", "deleted"}
    /\ End(c)
    /\ UNCHANGED <<files, tags, disk, sources, rootDir, today>>

-----------------------------------------------------------------------------
(* The app around the store: it produces files of its own, and it tags      *)
(* stored contents with LCFileDB's lc_saveTag, the only way to a tag.       *)
AppWritesFile(md5) ==
    /\ \A c \in Callers : At(c, "idle")
    /\ md5 \notin sources
    /\ sources' = sources \cup {md5}
    /\ UNCHANGED <<files, tags, disk, rootDir, today, call>>

AppSavesTag(c, tag, md5, group, time) ==
    /\ At(c, "idle")
    /\ FilesWithMd5(files, md5) # {}
    /\ tags' = lc_saveTag(tags, tag, md5, group, time)
    /\ UNCHANGED <<files, disk, sources, rootDir, today, call>>

Midnight ==
    /\ today + 1 \in Days
    /\ today' = today + 1
    /\ UNCHANGED <<files, tags, disk, sources, rootDir, call>>

(* The app is killed and launched again; the system may have moved it, with *)
(* its files, to a new container: the paths on record are the old ones.     *)
Restart ==
    /\ CanRestart
    /\ call' = [c \in Callers |-> NoCall]
    /\ rootDir' \in {rootDir} \cup (Roots \cap {rootDir + 1})
    /\ disk' = {[path EXCEPT !.root = rootDir'] : path \in disk}
    /\ UNCHANGED <<files, tags, sources, today>>

SaveCall(c) ==
    \/ \E md5 \in Md5s, key \in AppKeys \cup {None}, move \in BOOLEAN :
            lc_saveFileFrom(c, md5, key, move)
    \/ p_copyFile(c) \/ SaveRow(c) \/ \E time \in Times : SaveTag(c, time)

AppTags(c) ==
    \E tag \in Tags, md5 \in Md5s, group \in Groups, time \in Times :
        AppSavesTag(c, tag, md5, group, time)

CallerStep(c) ==
    \/ SaveCall(c) \/ lc_getFile(c) \/ CheckFile(c)
    \/ DeleteCall(c) \/ p_deleteNoTagFile(c) \/ Return(c) \/ AppTags(c)

Step ==
    \/ \E c \in Callers : CallerStep(c)
    \/ \E md5 \in Md5s : AppWritesFile(md5)
    \/ Midnight

Next == Step \/ Restart

Spec == Init /\ [][Next]_storeVars

=============================================================================
