---------------------------- MODULE MCFileStore ----------------------------
(* LCFileSaveService under a caller that saves, tags and looks up files but *)
(* never deletes one, with the memory of what it tagged.                    *)
EXTENDS LCFileSaveService

VARIABLE wanted   \* contents the caller tagged, each with a tag of its own

keepVars == <<storeVars, wanted>>

Tag(c, tag, md5) ==
    /\ tag \notin {w.tag : w \in wanted}
    /\ \E group \in Groups, time \in Times : AppSavesTag(c, tag, md5, group, time)
    /\ wanted' = wanted \cup {[tag |-> tag, md5 |-> md5]}

InitKeep == Init /\ wanted = {}
NextKeep ==
    \/ \E c \in Callers, tag \in Tags, md5 \in Md5s : Tag(c, tag, md5)
    \/ /\ \/ \E c \in Callers : SaveCall(c) \/ lc_getFile(c) \/ CheckFile(c) \/ Return(c)
          \/ \E md5 \in Md5s : AppWritesFile(md5)
       /\ UNCHANGED wanted
SpecKeep == InitKeep /\ [][NextKeep]_keepVars

(* A file that was given a tag and never deleted stays: only a file without *)
(* tags is removed (LCFileSaveService.h:17).                                *)
TaggedFileStays ==
    \A w \in wanted : \E path \in disk : path.md5 = w.md5
=============================================================================
