----------------------------- MODULE StoreCalls -----------------------------
(***************************************************************************)
(* LCFileSaveService with the memory of what came between the steps of a    *)
(* call: the store takes no lock, so another thread's call may change the   *)
(* tables and the disk, and a launch may find a row whose file is missing   *)
(* or a file without a row (the app was killed between the two writes, or   *)
(* it was moved to a new container).                                        *)
(***************************************************************************)
EXTENDS LCFileSaveService

VARIABLES
    added,     \* calls during which another thread added a row or a tag
    removed,   \* calls during which another thread took away a row, tag or file
    mixed,     \* whether a call ever changed anything while another went on
    torn,      \* whether a launch ever found a row without file or a file without row
    reused     \* whether a key was ever given another content

memory == <<added, removed, mixed, torn, reused>>
callsVars == <<storeVars, memory>>

InCall == {c \in Callers : ~At(c, "idle")}
OtherCalls(c) == InCall \ {c}

(* A row that is replaced is added and taken away. *)
Adds ==
    \/ \E k \in Keys : files'[k] \notin {files[k], None}
    \/ \E g \in Tags : tags'[g] \notin {tags[g], None}
Removes ==
    \/ \E k \in Keys : files[k] \notin {files'[k], None}
    \/ \E g \in Tags : tags[g] \notin {tags'[g], None}
    \/ ~(disk \subseteq disk')

GivesAnotherContent ==
    \E k \in Keys : /\ files[k] # None /\ files'[k] # None
                   /\ files'[k].md5 # files[k].md5

(* What a step of caller c is to the calls of the others. *)
Remember(c) ==
    /\ added' = InCall' \cap (added \cup (IF Adds THEN OtherCalls(c) ELSE {}))
    /\ removed' = InCall' \cap (removed \cup (IF Removes THEN OtherCalls(c) ELSE {}))
    /\ mixed' = (mixed \/ (OtherCalls(c) # {} /\ <<files, tags, disk>>' # <<files, tags, disk>>))
    /\ reused' = (reused \/ GivesAnotherContent)
    /\ torn' = torn

PathsOnRecord == {files[k].path : k \in {i \in Keys : files[i] # None}}

InitCalls ==
    /\ Init
    /\ added = {} /\ removed = {}
    /\ mixed = FALSE /\ torn = FALSE /\ reused = FALSE
NextCalls ==
    \/ \E c \in Callers : CallerStep(c) /\ Remember(c)
    \/ (Midnight \/ \E md5 \in Md5s : AppWritesFile(md5)) /\ UNCHANGED memory
    \/ /\ Restart
       /\ added' = {} /\ removed' = {}
       /\ UNCHANGED <<mixed, reused>>
       /\ torn' = (torn \/ PathsOnRecord' # disk')
SpecCalls == InitCalls /\ [][NextCalls]_callsVars

-----------------------------------------------------------------------------
(* Properties.                                                              *)

(* The paths a call is about to remove from the disk. *)
Doomed(c) ==
    IF At(c, "removeFiles") THEN {row.path : row \in call[c].left}
    ELSE IF At(c, "dropFile") THEN {call[c].file.path}
    ELSE {}

(* No content that has a tag is removed from the disk: neither by the       *)
(* cleanup after a delete (p_deleteNoTagFile) nor by a lookup (p_fileExist),*)
(* unless another thread tagged or saved something while the call went on.  *)
DoomedAreUntagged ==
    \A c \in Callers \ added :
        \A path \in Doomed(c) : TagsWithMd5(tags, path.md5) = {}

(* What a lookup returns is on the disk, has a row and a tag, whatever was  *)
(* interrupted by the end of the process before and whatever other threads  *)
(* added, as long as none took anything away while the lookup went on.      *)
LookupIsLive ==
    \A c \in Callers \ removed :
        At(c, "found") =>
            /\ call[c].file.path \in disk
            /\ TagsWithMd5(tags, call[c].file.md5) # {}
            /\ FilesWithMd5(files, call[c].file.md5) # {}

(* A save that succeeded gives a file with the content of the source.  It   *)
(* is on the disk and the key leads to it, unless another thread took       *)
(* something away meanwhile: a row whose file was lost before, by an        *)
(* interrupted delete or a new container, is not believed (p_copyFile).     *)
SavedIsThere ==
    \A c \in Callers :
        At(c, "saved") /\ call[c].file.path # None =>
            /\ call[c].file.path.md5 = call[c].file.md5
            /\ c \notin removed =>
                /\ call[c].file.path \in disk
                /\ files[call[c].key] = call[c].file

(* A delete that returned has left no row without a tag, the leftovers of   *)
(* interrupted calls included, unless another thread changed the tables     *)
(* while it went on.                                                        *)
CleanupIsComplete ==
    \A c \in Callers \ (added \cup removed) :
        At(c, "deleted") => lc_getNoTagFile(files, tags) = {}

(* The files with a content and the paths its rows lead to. *)
Copies(md5) ==
    {path \in disk : path.md5 = md5} \cup {files[k].path : k \in FilesWithMd5(files, md5)}

(* A content is on the disk once, and all its rows lead there, whatever     *)
(* keys it was saved under, on whatever days, and whatever saves failed:    *)
(* "a file is kept only once" (LCFileSaveService.h:16).  The code keeps     *)
(* this only as long as tables and disk go together: after a kill between   *)
(* p_copyFile and lc_saveFile, in a new container, when a key is given      *)
(* another content (its old file is left without a row), or when calls were *)
(* mixed, p_copyFile does not find the file there is, and copies again.     *)
OneCopyPerContent ==
    ~torn /\ ~mixed /\ ~reused =>
        \A md5 \in Md5s : \A p, q \in Copies(md5) : p = q
=============================================================================
