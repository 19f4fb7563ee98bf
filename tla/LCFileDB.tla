------------------------------ MODULE LCFileDB ------------------------------
(***************************************************************************)
(* The two tables of the file store (LCFileDB.mm, LCFileM, LCFileTagM) as   *)
(* values, and their statements as operators.                               *)
(*                                                                          *)
(* A file is known by its digest; digests of different contents differ, so  *)
(* a digest also stands for the content.  A stored file's path is absolute:  *)
(* the document directory of the app, which changes with its container, the *)
(* directory of the day the file was stored on, and its digest.             *)
(***************************************************************************)
EXTENDS Integers

CONSTANTS
    Md5s,      \* digests
    AppKeys,   \* keys callers give; without one the digest is the key
    Tags, Groups, Times,
    Roots,     \* the document directories the app gets, one after the other
    Days,      \* the days the store is used on
    None       \* "nil"

ASSUME DBAssumption ==
    /\ Roots \subseteq Int /\ Days \subseteq Int /\ Times \subseteq Int
    /\ None \notin Md5s \cup AppKeys \cup Tags \cup Groups \cup Times

Keys == AppKeys \cup Md5s
Path == [root : Roots, day : Days, md5 : Md5s]

(* LCFileM: the primary key is key.  LCFileTagM: the primary key is tagId,  *)
(* and the getter of tagId returns tag, so the table is keyed by the tag.   *)
FileRow == [md5 : Md5s, path : Path]
FileTable == [Keys -> FileRow \cup {None}]
TagRow == [md5 : Md5s, group : Groups, time : Times]
TagTable == [Tags -> TagRow \cup {None}]

ASSUME RowAssumption == None \notin FileRow \cup TagRow \cup Path

(* The table after the rows of some keys were deleted. *)
Without(table, keys) ==
    [k \in DOMAIN table |-> IF k \in keys THEN None ELSE table[k]]

-----------------------------------------------------------------------------
(* Mutant: a file without path is saved. *)
lc_saveFile_NilPath(files, key, md5, path) ==
    [files EXCEPT ![key] = [md5 |-> md5, path |-> path]]

(* LCFileM *)
lc_saveFile(files, key, md5, path) ==
    IF path = None THEN files
    ELSE [files EXCEPT ![key] = [md5 |-> md5, path |-> path]]

(* lc_getFileWithMd5, lc_getFileWithKey, lc_getFileWithfilePath: one of the *)
(* rows that match; a nil argument matches none.                            *)
FilesWithMd5(files, md5) ==
    {k \in Keys : files[k] # None /\ files[k].md5 = md5}
FilesWithKey(files, key) == {k \in Keys : files[k] # None /\ k = key}
FilesWithPath(files, path) ==
    {k \in Keys : files[k] # None /\ files[k].path = path}

(* lc_deleteFileWithMd5, lc_deleteFileWithMd5s *)
lc_deleteFileWithMd5s(files, md5s) ==
    Without(files, UNION {FilesWithMd5(files, md5) : md5 \in md5s})

-----------------------------------------------------------------------------
(* LCFileTagM.  lc_saveTag refuses a tag without md5, tag or group.         *)
lc_saveTag(tags, tag, md5, group, time) ==
    IF tag = None \/ md5 = None \/ group = None THEN tags
    ELSE [tags EXCEPT ![tag] = [md5 |-> md5, group |-> group, time |-> time]]

TagsWithMd5(tags, md5) == {g \in Tags : tags[g] # None /\ tags[g].md5 = md5}

(* lc_deleteTag:md5:inGroup: a nil argument restricts nothing. *)
lc_deleteTag(tags, tag, md5, group) ==
    Without(tags, {g \in Tags : /\ tags[g] # None
                                /\ tag # None => g = tag
                                /\ md5 # None => tags[g].md5 = md5
                                /\ group # None => tags[g].group = group})

TagsInGroup(tags, group) == {g \in Tags : tags[g] # None /\ tags[g].group = group}
lc_deleteTagAfter(tags, group, time) ==
    Without(tags, {g \in TagsInGroup(tags, group) : tags[g].time >= time})
lc_deleteTagBefore(tags, group, time) ==
    Without(tags, {g \in TagsInGroup(tags, group) : tags[g].time <= time})

(* Mutant: every file, tagged or not. *)
lc_getNoTagFile_All(files, tags) == {k \in Keys : files[k] # None}

(* lc_getNoTagFile: the left outer join of files and tags without a tag.    *)
lc_getNoTagFile(files, tags) ==
    {k \in Keys : files[k] # None /\ TagsWithMd5(tags, files[k].md5) = {}}
=============================================================================
