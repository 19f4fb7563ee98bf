-------------------------- MODULE StoreCallsProofs --------------------------
(* Proofs about the file store, for any contents, keys, tags and days, and  *)
(* any number of threads that use it.                                       *)
EXTENDS StoreCalls, TLAPS

(* A call that saves has a file and a key in its hands.                     *)
SavingHasFile ==
    \A c \in Callers :
        call[c].pc \in {"copy", "saveRow", "saveTag", "saved"} =>
            call[c].file # None /\ call[c].key # None

(* A row's path is one of its content.                                      *)
RowsNameContent ==
    \A k \in Keys : files[k] # None => files[k].path.md5 = files[k].md5

(* What a call relies on between its steps, as far as the other threads     *)
(* leave it alone: a save on the file it uses and the row it wrote, ...     *)
Saving(c) ==
    /\ call[c].pc \in {"copy", "saveRow", "saveTag", "saved"} /\ call[c].file.path # None
            => call[c].file.path.md5 = call[c].file.md5
    /\ c \notin removed =>
        /\ call[c].pc \in {"saveRow", "saveTag", "saved"} /\ call[c].file.path # None
                => call[c].file.path \in disk
        /\ call[c].pc \in {"saveTag", "saved"} /\ call[c].file.path # None
                => files[call[c].key] = call[c].file

(* ... a lookup on the row it found and what it saw of the file and tags,   *)
Looking(c) ==
    /\ call[c].pc \in {"checkFile", "checkTags", "forgetRow", "dropFile", "found"}
         /\ call[c].file # None
            => call[c].file \in FileRow /\ call[c].file.path.md5 = call[c].file.md5
    /\ call[c].pc \in {"checkTags", "forgetRow", "dropFile", "found"} => call[c].file # None
    /\ c \notin removed =>
        /\ call[c].pc \in {"checkFile", "checkTags", "found"} /\ call[c].file # None
                => FilesWithMd5(files, call[c].file.md5) # {}
        /\ call[c].pc \in {"checkTags", "found"} => call[c].file.path \in disk
        /\ call[c].pc = "found" => TagsWithMd5(tags, call[c].file.md5) # {}
    /\ call[c].pc \in {"forgetRow", "dropFile"} /\ c \notin added
            => TagsWithMd5(tags, call[c].file.md5) = {}

(* ... and the cleanup on the rows its query gave.                          *)
Cleaning(c) ==
    /\ call[c].pc = "removeFiles" =>
            /\ call[c].left \subseteq call[c].rows
            /\ \A r \in call[c].rows :
                /\ r.path.md5 = r.md5
                /\ c \notin added => TagsWithMd5(tags, r.md5) = {}
    /\ c \notin added \cup removed =>
        /\ call[c].pc = "removeFiles" =>
                \A k \in lc_getNoTagFile(files, tags) : files[k] \in call[c].rows
        /\ call[c].pc = "deleted" => lc_getNoTagFile(files, tags) = {}

CallInv(c) == Saving(c) /\ Looking(c) /\ Cleaning(c)

StoreInv ==
    /\ TypeOK /\ SavingHasFile
    /\ RowsNameContent
    /\ \A c \in Callers : CallInv(c)

(* A cleanup has removed the file of a content and not yet its rows.        *)
Dropping(md5) ==
    \E c \in Callers :
        call[c].pc = "removeFiles" /\ \E r \in call[c].rows \ call[c].left : r.md5 = md5

(* As long as no launch found a tear, no key was given another content and  *)
(* no calls were mixed, the rows have their files, save those a cleanup is  *)
(* about to drop, ...                                                       *)
RowsHaveFiles ==
    \A k \in Keys : files[k] # None => files[k].path \in disk \/ Dropping(files[k].md5)

(* ... and the files have their rows, save the one a save is about to       *)
(* record or a lookup to remove; ...                                        *)
Holds(c, path) ==
    /\ call[c].pc \in {"saveRow", "dropFile"}
    /\ call[c].file # None /\ call[c].file.path = path

FilesHaveRows ==
    \A path \in disk : path \in PathsOnRecord \/ \E c \in Callers : Holds(c, path)

(* ... a content has one file, and its rows lead to it, ...                 *)
OneFile ==
    /\ \A p, q \in disk : p.md5 = q.md5 => p = q
    /\ \A k \in Keys, p \in disk :
            files[k] # None /\ p.md5 = files[k].md5 => p = files[k].path
    /\ \A j, k \in Keys :
            files[j] # None /\ files[k] # None /\ files[j].md5 = files[k].md5
                => files[j].path = files[k].path

(* ... as does what a save is about to record (a save that came between the *)
(* two steps of a cleanup sees rows without a file: if it goes on before    *)
(* the cleanup does, the calls are mixed); ...                              *)
SavesTheFile(c) ==
    call[c].pc \in {"copy", "saveRow"} =>
        \/ /\ call[c].file.path # None => call[c].file.path \in disk
           /\ \A k \in FilesWithMd5(files, call[c].file.md5) : files[k].path = call[c].file.path
        \/ Dropping(call[c].file.md5) /\ FilesWithMd5(files, call[c].file.md5) # {}

(* ... a lookup that saw a row still has it, drops no row of a content that *)
(* has a file, and removes no file that has a row; ...                      *)
DropsTogether(c) ==
    /\ call[c].pc \in {"checkFile", "checkTags", "forgetRow"} /\ call[c].file # None
            => \E k \in Keys : files[k] = call[c].file
    /\ call[c].pc = "dropRow" /\ call[c].file # None
            => \A path \in disk : path.md5 # call[c].file.md5
    /\ call[c].pc = "dropFile" => FilesWithMd5(files, call[c].file.md5) = {}

(* ... and a cleanup has all the files of its rows still to remove, or gone.*)
RemovesAll(c) ==
    call[c].pc = "removeFiles" =>
        \A r \in call[c].rows, path \in disk :
            path.md5 = r.md5 => \E l \in call[c].left : l.path = path

Kept(c) == SavesTheFile(c) /\ DropsTogether(c) /\ RemovesAll(c)

KeptInv ==
    /\ StoreInv
    /\ torn \in BOOLEAN /\ mixed \in BOOLEAN /\ reused \in BOOLEAN
    /\ ~torn /\ ~mixed /\ ~reused =>
            RowsHaveFiles /\ FilesHaveRows /\ OneFile /\ \A c \in Callers : Kept(c)

-----------------------------------------------------------------------------
(* The statements of LCFileDB: types, and what they leave of each row.      *)
LEMMA DeleteFilesFacts ==
    ASSUME NEW f \in FileTable, NEW M
    PROVE  /\ lc_deleteFileWithMd5s(f, M) \in FileTable
           /\ \A k \in Keys :
                lc_deleteFileWithMd5s(f, M)[k] =
                    IF f[k] # None /\ f[k].md5 \in M THEN None ELSE f[k]
  BY DEF lc_deleteFileWithMd5s, Without, FilesWithMd5, FileTable

LEMMA SaveFileFacts ==
    ASSUME NEW f \in FileTable, NEW key \in Keys, NEW md5 \in Md5s, NEW path \in Path \cup {None}
    PROVE  /\ lc_saveFile(f, key, md5, path) \in FileTable
           /\ \A k \in Keys :
                lc_saveFile(f, key, md5, path)[k] =
                    IF k = key /\ path # None THEN [md5 |-> md5, path |-> path] ELSE f[k]
           /\ path # None => [md5 |-> md5, path |-> path] \in FileRow
  BY DEF lc_saveFile, FileTable, FileRow

LEMMA DeleteTagFacts ==
    ASSUME NEW t \in TagTable, NEW G
    PROVE  /\ Without(t, G) \in TagTable
           /\ \A g \in Tags : Without(t, G)[g] = IF g \in G THEN None ELSE t[g]
  BY DEF Without, TagTable

LEMMA SaveTagFacts ==
    ASSUME NEW t \in TagTable, NEW tag \in Tags \cup {None}, NEW md5 \in Md5s,
           NEW group \in Groups \cup {None}, NEW time \in Times
    PROVE  /\ lc_saveTag(t, tag, md5, group, time) \in TagTable
           /\ tag = None => lc_saveTag(t, tag, md5, group, time) = t
  BY DEF lc_saveTag, TagTable, TagRow

LEMMA DeletedTagsType ==
    ASSUME NEW t \in TagTable, NEW tag, NEW md5, NEW group, NEW time
    PROVE  /\ lc_deleteTag(t, tag, md5, group) \in TagTable
           /\ lc_deleteTagAfter(t, group, time) \in TagTable
           /\ lc_deleteTagBefore(t, group, time) \in TagTable
  BY DeleteTagFacts DEF lc_deleteTag, lc_deleteTagAfter, lc_deleteTagBefore

(* One of the rows that match, or nil.                                      *)
LEMMA OneOfFacts ==
    ASSUME files \in FileTable, NEW rows \in SUBSET {k \in Keys : files[k] # None},
           NEW file \in OneOf(rows)
    PROVE  /\ file \in FileRow \cup {None}
           /\ file \in FileM \cup {None}
           /\ file = None => rows = {}
           /\ file # None => \E k \in rows : file = files[k]
  <1>1. FileRow \subseteq FileM
    BY DEF FileRow, FileM
  <1> QED BY <1>1, RowAssumption DEF OneOf, FileTable

(* What a step of a call leaves of the calls.                               *)
LEMMA CallSet ==
    ASSUME call \in [Callers -> CallState], NEW c \in Callers, NEW s \in CallState,
           call' = [call EXCEPT ![c] = s]
    PROVE  /\ call' \in [Callers -> CallState] /\ call'[c] = s
           /\ \A d \in Callers : d # c => call'[d] = call[d]
  OBVIOUS

LEMMA NoCallType == NoCall \in CallState /\ NoCall.pc = "idle"
  BY DEF NoCall, CallState, Place, FileRow

LEMMA GotoFacts ==
    ASSUME call \in [Callers -> CallState], NEW c \in Callers, NEW pc \in Place,
           Goto(c, pc)
    PROVE  /\ call' \in [Callers -> CallState]
           /\ \A d \in Callers : d # c => call'[d] = call[d]
           /\ call'[c].pc = pc /\ call'[c].file = call[c].file
           /\ call'[c].key = call[c].key
           /\ call'[c].rows = call[c].rows /\ call'[c].left = call[c].left
  <1> DEFINE s == [call[c] EXCEPT !.pc = pc]
  <1>1. /\ s \in CallState /\ s.pc = pc /\ s.file = call[c].file
        /\ s.key = call[c].key /\ s.rows = call[c].rows /\ s.left = call[c].left
    BY DEF CallState
  <1>2. call' = [call EXCEPT ![c] = s]
    BY DEF Goto
  <1> HIDE DEF s
  <1> QED BY <1>1, <1>2

LEMMA EndFacts ==
    ASSUME call \in [Callers -> CallState], NEW c \in Callers, End(c)
    PROVE  /\ call' \in [Callers -> CallState]
           /\ \A d \in Callers : d # c => call'[d] = call[d]
           /\ call'[c].pc = "idle"
  BY NoCallType, CallSet DEF End

LEMMA BeginSaveFacts ==
    ASSUME TypeOK, NEW c \in Callers, NEW md5 \in Md5s, NEW key \in AppKeys \cup {None},
           NEW move \in BOOLEAN, lc_saveFileFrom(c, md5, key, move)
    PROVE  /\ call' \in [Callers -> CallState]
           /\ \A d \in Callers : d # c => call'[d] = call[d]
           /\ call'[c].pc = "copy" /\ call'[c].key # None
           /\ call'[c].file # None /\ call'[c].file.md5 = md5
           /\ \/ call'[c].file.path = None /\ FilesWithMd5(files, md5) = {}
              \/ \E k \in FilesWithMd5(files, md5) : call'[c].file.path = files[k].path
           /\ UNCHANGED <<files, tags, disk, sources, rootDir, today>>
  <1>1. PICK old \in OneOf(FilesWithMd5(files, md5)) :
            call' = [call EXCEPT ![c] =
                        [NoCall EXCEPT !.pc = "copy", !.move = move,
                                       !.key = IF key = None THEN md5 ELSE key,
                                       !.file = [md5 |-> md5,
                                                 path |-> IF old = None THEN None ELSE old.path]]]
    BY DEF lc_saveFileFrom
  <1>2. FilesWithMd5(files, md5) \in SUBSET {k \in Keys : files[k] # None}
    BY DEF FilesWithMd5
  <1>3. /\ old \in FileRow \cup {None}
        /\ old = None => FilesWithMd5(files, md5) = {}
        /\ old # None => \E k \in FilesWithMd5(files, md5) : old = files[k]
    BY <1>2, OneOfFacts DEF TypeOK
  <1> DEFINE path == IF old = None THEN None ELSE old.path
             file == [md5 |-> md5, path |-> path]
             k == IF key = None THEN md5 ELSE key
             s == [NoCall EXCEPT !.pc = "copy", !.move = move, !.key = k, !.file = file]
  <1>4. path \in Path \cup {None} /\ k \in Keys /\ k # None
    BY <1>3, DBAssumption DEF FileRow, Keys
  <1> HIDE DEF path, k
  <1>5. file \in FileM /\ file.md5 = md5 /\ file.path = path /\ file # None
    <2>1. file \in FileM
      BY <1>4 DEF FileM
    <2> QED BY <2>1, FileMAssumption
  <1> HIDE DEF file
  <1>6. s \in CallState /\ s.pc = "copy" /\ s.key = k /\ s.file = file
    BY <1>4, <1>5 DEF NoCall, CallState, Place
  <1>7. call' = [call EXCEPT ![c] = s]
    BY <1>1 DEF s, k, file, path
  <1> HIDE DEF s
  <1>8. /\ call' \in [Callers -> CallState] /\ call'[c] = s
        /\ \A d \in Callers : d # c => call'[d] = call[d]
    BY <1>6, <1>7, CallSet DEF TypeOK
  <1>9. \/ path = None /\ FilesWithMd5(files, md5) = {}
        \/ \E j \in FilesWithMd5(files, md5) : path = files[j].path
    BY <1>3 DEF path
  <1>10. UNCHANGED <<files, tags, disk, sources, rootDir, today>>
    BY DEF lc_saveFileFrom
  <1> QED BY <1>4, <1>5, <1>6, <1>8, <1>9, <1>10

LEMMA CopyFacts ==
    ASSUME TypeOK, SavingHasFile, NEW c \in Callers, p_copyFile(c)
    PROVE  /\ call' \in [Callers -> CallState]
           /\ \A d \in Callers : d # c => call'[d] = call[d]
           /\ call[c].pc = "copy" /\ call[c].file # None
           /\ call'[c].pc = "saveRow" /\ call'[c].key = call[c].key
           /\ call'[c].file # None /\ call'[c].file.md5 = call[c].file.md5
           /\ \/ /\ call[c].file.path \in disk
                 /\ call'[c].file.path = call[c].file.path /\ disk' = disk
              \/ /\ call[c].file.path \notin disk
                 /\ call'[c].file.path \in Path
                 /\ call'[c].file.path.md5 = call[c].file.md5
                 /\ disk' = disk \cup {call'[c].file.path}
              \/ /\ call[c].file.path \notin disk
                 /\ call'[c].file.path = None /\ disk' = disk
           /\ sources' \subseteq Md5s
           /\ UNCHANGED <<files, tags, rootDir, today>>
  <1> DEFINE md5 == call[c].file.md5
             old == call[c].file.path
             new == [root |-> rootDir, day |-> today, md5 |-> md5]
             Use(path) == call' = [call EXCEPT ![c].pc = "saveRow", ![c].file.path = path]
  <1>1. /\ call[c] \in CallState /\ call[c].file \in FileM /\ call[c].file # None
        /\ call[c].pc = "copy" /\ md5 \in Md5s /\ old \in Path \cup {None}
    <2>1. call[c].pc = "copy" /\ call[c] \in CallState
      BY DEF p_copyFile, At, TypeOK
    <2>2. call[c].file \in FileM /\ call[c].file # None
      BY <2>1 DEF SavingHasFile, CallState
    <2> QED BY <2>1, <2>2 DEF FileM
  <1>2. new \in Path /\ new.md5 = md5
    BY <1>1 DEF Path, TypeOK
  <1>3. ASSUME NEW path \in Path \cup {None}, Use(path)
        PROVE  /\ call' \in [Callers -> CallState]
               /\ \A d \in Callers : d # c => call'[d] = call[d]
               /\ call'[c].pc = "saveRow" /\ call'[c].key = call[c].key
               /\ call'[c].file # None /\ call'[c].file.md5 = call[c].file.md5
               /\ call'[c].file.path = path
    <2> DEFINE file == [call[c].file EXCEPT !.path = path]
               s == [call[c] EXCEPT !.pc = "saveRow", !.file = file]
    <2>1. file \in FileM /\ file.md5 = md5 /\ file.path = path
      BY <1>1 DEF FileM
    <2>2. file # None
      BY <2>1, FileMAssumption
    <2>3. call' = [call EXCEPT ![c] = s]
      BY <1>1, <1>3 DEF TypeOK, CallState
    <2> HIDE DEF file
    <2>4. s \in CallState /\ s.pc = "saveRow" /\ s.key = call[c].key /\ s.file = file
      BY <1>1, <2>1 DEF CallState, Place
    <2> HIDE DEF s
    <2> QED BY <2>1, <2>2, <2>3, <2>4, CallSet DEF TypeOK
  <1>4. UNCHANGED <<files, tags, rootDir, today>>
    BY DEF p_copyFile
  <1>5. \/ old \in disk /\ Use(old) /\ disk' = disk /\ sources' = sources
        \/ old \notin disk /\ Use(new) /\ disk' = disk \cup {new} /\ sources' \subseteq sources
        \/ old \notin disk /\ Use(None) /\ disk' = disk /\ sources' = sources
    <2> HIDE DEF new
    <2>1. disk \cup {new} = disk \/ new \notin disk
      OBVIOUS
    <2> QED BY <2>1 DEF p_copyFile, Reusable, new
  <1> HIDE DEF new, Use
  <1>6. sources' \subseteq Md5s
    BY <1>5 DEF TypeOK
  <1>7. CASE old \in disk /\ Use(old) /\ disk' = disk
    BY <1>1, <1>3, <1>4, <1>6, <1>7
  <1>8. CASE old \notin disk /\ Use(new) /\ disk' = disk \cup {new}
    BY <1>1, <1>2, <1>3, <1>4, <1>6, <1>8
  <1>9. CASE old \notin disk /\ Use(None) /\ disk' = disk
    BY <1>1, <1>3, <1>4, <1>6, <1>9
  <1> QED BY <1>5, <1>7, <1>8, <1>9

(* A lookup, or a delete by key or path, reads its row.                     *)
Reads(c, pc, file) ==
    call' = [call EXCEPT ![c] = [NoCall EXCEPT !.pc = pc, !.file = file]]

LEMMA FoundFacts ==
    ASSUME TypeOK, NEW c \in Callers, NEW rows \in SUBSET {k \in Keys : files[k] # None},
           NEW pc \in Place, NEW file \in OneOf(rows), Reads(c, pc, file)
    PROVE  /\ call' \in [Callers -> CallState]
           /\ \A d \in Callers : d # c => call'[d] = call[d]
           /\ call'[c].pc = pc
           /\ call'[c].file # None => \E k \in rows : call'[c].file = files[k]
  <1>2. file \in FileM \cup {None} /\ (file # None => \E k \in rows : file = files[k])
    BY OneOfFacts DEF TypeOK
  <1> DEFINE s == [NoCall EXCEPT !.pc = pc, !.file = file]
  <1>3. s \in CallState /\ s.pc = pc /\ s.file = file
    BY <1>2 DEF NoCall, CallState
  <1>4. call' = [call EXCEPT ![c] = s]
    BY DEF Reads
  <1> HIDE DEF s
  <1> QED BY <1>2, <1>3, <1>4, CallSet DEF TypeOK

(* The cleanup's query, and the removal of one file.                        *)
Queries(c) ==
    call' = [call EXCEPT ![c].pc = "removeFiles",
                         ![c].rows = {files[k] : k \in lc_getNoTagFile(files, tags)},
                         ![c].left = {files[k] : k \in lc_getNoTagFile(files, tags)}]

LEMMA QueryFacts ==
    ASSUME TypeOK, NEW c \in Callers, Queries(c)
    PROVE  /\ call' \in [Callers -> CallState]
           /\ \A d \in Callers : d # c => call'[d] = call[d]
           /\ call'[c].pc = "removeFiles"
           /\ call'[c].rows = {files[k] : k \in lc_getNoTagFile(files, tags)}
           /\ call'[c].left = call'[c].rows
  <1> DEFINE rows == {files[k] : k \in lc_getNoTagFile(files, tags)}
             s == [call[c] EXCEPT !.pc = "removeFiles", !.rows = rows, !.left = rows]
  <1>1. rows \subseteq FileRow
    BY DEF TypeOK, FileTable, lc_getNoTagFile
  <1> HIDE DEF rows
  <1>2. s \in CallState /\ s.pc = "removeFiles" /\ s.rows = rows /\ s.left = rows
    BY <1>1 DEF TypeOK, CallState, Place
  <1>3. call' = [call EXCEPT ![c] = s]
    BY DEF TypeOK, CallState, Queries, rows
  <1> HIDE DEF s
  <1> QED BY <1>2, <1>3, CallSet DEF TypeOK, rows

LEMMA RemoveFacts ==
    ASSUME TypeOK, NEW c \in Callers, NEW row,
           call' = [call EXCEPT ![c].left = @ \ {row}]
    PROVE  /\ call' \in [Callers -> CallState]
           /\ \A d \in Callers : d # c => call'[d] = call[d]
           /\ call'[c].pc = call[c].pc /\ call'[c].rows = call[c].rows
           /\ call'[c].file = call[c].file /\ call'[c].key = call[c].key
           /\ call'[c].left = call[c].left \ {row}
  <1> DEFINE s == [call[c] EXCEPT !.left = @ \ {row}]
  <1>1. /\ s \in CallState /\ s.pc = call[c].pc /\ s.file = call[c].file
        /\ s.key = call[c].key /\ s.rows = call[c].rows /\ s.left = call[c].left \ {row}
    BY DEF TypeOK, CallState
  <1>2. call' = [call EXCEPT ![c] = s]
    BY DEF TypeOK, CallState
  <1> HIDE DEF s
  <1> QED BY <1>1, <1>2, CallSet DEF TypeOK

(* The steps of p_deleteNoTagFile.                                          *)
LEMMA CleanupSteps ==
    ASSUME NEW c \in Callers, p_deleteNoTagFile(c)
    PROVE  /\ UNCHANGED <<tags, sources, rootDir, today>>
           /\ \/ call[c].pc = "query" /\ Queries(c) /\ UNCHANGED <<files, disk>>
              \/ /\ call[c].pc = "removeFiles"
                 /\ \E row \in call[c].left :
                        /\ disk' = disk \ {row.path}
                        /\ call' = [call EXCEPT ![c].left = @ \ {row}]
                 /\ UNCHANGED files
              \/ /\ call[c].pc = "removeFiles" /\ call[c].left = {}
                 /\ files' = RowsAfterCleanup(c)
                 /\ Goto(c, "deleted")
                 /\ UNCHANGED disk
  BY DEF p_deleteNoTagFile, At, Queries

-----------------------------------------------------------------------------
(* Type correctness, whatever the number of callers.                        *)
TypeInv == TypeOK /\ SavingHasFile

LEMMA InitType == Init => TypeInv
  BY NoCallType DEF Init, TypeInv, TypeOK, SavingHasFile, FileTable, TagTable

(* A step of call c that keeps the types keeps the rest when c, if it is    *)
(* now in a save, has its file and key.                                     *)
LEMMA SavingStep ==
    ASSUME TypeInv, NEW c \in Callers, call' \in [Callers -> CallState],
           \A d \in Callers : d # c => call'[d] = call[d],
           call'[c].pc \in {"copy", "saveRow", "saveTag", "saved"}
                => call'[c].file # None /\ call'[c].key # None
    PROVE  SavingHasFile'
  BY DEF TypeInv, SavingHasFile

LEMMA SaveType ==
    ASSUME TypeInv, NEW c \in Callers, SaveCall(c)
    PROVE  TypeInv'
  <1> USE DEF TypeInv
  <1>1. ASSUME NEW md5 \in Md5s, NEW key \in AppKeys \cup {None}, NEW move \in BOOLEAN,
               lc_saveFileFrom(c, md5, key, move)
        PROVE  TypeInv'
    BY <1>1, BeginSaveFacts, SavingStep DEF TypeOK
  <1>2. CASE p_copyFile(c)
    <2>1. call[c].key # None
      BY <1>2, CopyFacts DEF SavingHasFile
    <2>2. SavingHasFile'
      BY <1>2, <2>1, CopyFacts, SavingStep
    <2>3. TypeOK'
      BY <1>2, CopyFacts DEF TypeOK
    <2> QED BY <2>2, <2>3
  <1>3. CASE SaveRow(c)
    <2>1. /\ call[c].pc = "saveRow" /\ Goto(c, "saveTag") /\ "saveTag" \in Place
          /\ UNCHANGED <<tags, disk, sources, rootDir, today>>
          /\ files' = lc_saveFile(files, call[c].key, call[c].file.md5, call[c].file.path)
      BY <1>3 DEF SaveRow, At, Place
    <2>2. call[c].file \in FileM /\ call[c].file # None /\ call[c].key \in Keys /\ call[c].key # None
      BY <2>1 DEF TypeOK, SavingHasFile, CallState
    <2>3. files' \in FileTable
      BY <2>1, <2>2, SaveFileFacts DEF TypeOK, FileM
    <2>4. call' \in [Callers -> CallState] /\ SavingHasFile'
      BY <2>1, <2>2, GotoFacts, SavingStep DEF TypeOK
    <2> QED BY <2>1, <2>3, <2>4 DEF TypeOK
  <1>4. ASSUME NEW time \in Times, SaveTag(c, time)
        PROVE  TypeInv'
    <2>1. /\ call[c].pc = "saveTag" /\ Goto(c, "saved") /\ "saved" \in Place
          /\ UNCHANGED <<files, disk, sources, rootDir, today>>
          /\ tags' = lc_saveTag(tags, None, call[c].file.md5, None, time)
      BY <1>4 DEF SaveTag, At, Place
    <2>2. call[c].file # None /\ call[c].key # None
      BY <2>1 DEF SavingHasFile
    <2>3. tags' = tags
      BY <2>1 DEF lc_saveTag
    <2>4. call' \in [Callers -> CallState] /\ SavingHasFile'
      BY <2>1, <2>2, GotoFacts, SavingStep DEF TypeOK
    <2> QED BY <2>1, <2>3, <2>4 DEF TypeOK
  <1> QED BY <1>1, <1>2, <1>3, <1>4 DEF SaveCall

(* The rows a query matches exist.                                          *)
LEMMA QueriesMatch ==
    ASSUME NEW x
    PROVE  /\ FilesWithMd5(files, x) \in SUBSET {k \in Keys : files[k] # None}
           /\ FilesWithKey(files, x) \in SUBSET {k \in Keys : files[k] # None}
           /\ FilesWithPath(files, x) \in SUBSET {k \in Keys : files[k] # None}
  BY DEF FilesWithMd5, FilesWithKey, FilesWithPath

LEMMA LookupType ==
    ASSUME TypeInv, NEW c \in Callers, NEW rows \in SUBSET {k \in Keys : files[k] # None},
           Lookup(c, rows) \/ DeleteFound(c, rows)
    PROVE  TypeInv'
  <1>1. PICK pc \in {"checkFile", "find"}, file \in OneOf(rows) : Reads(c, pc, file)
    BY DEF Lookup, DeleteFound, Reads
  <1>2. /\ call' \in [Callers -> CallState]
        /\ \A d \in Callers : d # c => call'[d] = call[d]
        /\ call'[c].pc = pc
    <2>1. pc \in Place /\ TypeOK
      BY DEF TypeInv, Place
    <2> QED BY <1>1, <2>1, FoundFacts
  <1>3. UNCHANGED <<files, tags, disk, sources, rootDir, today>>
    BY DEF Lookup, DeleteFound
  <1>4. SavingHasFile'
    BY <1>2, SavingStep
  <1> QED BY <1>2, <1>3, <1>4 DEF TypeInv, TypeOK

(* Steps that leave the call outside of a save, and the tables well typed.  *)
LEMMA OtherType ==
    ASSUME TypeInv, NEW c \in Callers,
           NEW pc \in Place \ {"copy", "saveRow", "saveTag", "saved"},
           Goto(c, pc) \/ End(c),
           files' \in FileTable, tags' \in TagTable, disk' \subseteq disk,
           UNCHANGED <<sources, rootDir, today>>
    PROVE  TypeInv'
  <1>1. /\ call' \in [Callers -> CallState]
        /\ \A d \in Callers : d # c => call'[d] = call[d]
        /\ call'[c].pc \in {pc, "idle"}
    BY GotoFacts, EndFacts DEF TypeInv, TypeOK
  <1>2. SavingHasFile'
    BY <1>1, SavingStep
  <1> QED BY <1>1, <1>2 DEF TypeInv, TypeOK

LEMMA NextType ==
    ASSUME TypeInv, [Next]_storeVars
    PROVE  TypeInv'
  <1> USE DEF TypeInv
  <1>1. ASSUME NEW c \in Callers, SaveCall(c) PROVE TypeInv'
    BY <1>1, SaveType
  <1>2. ASSUME NEW c \in Callers, lc_getFile(c) PROVE TypeInv'
    BY <1>2, LookupType, QueriesMatch DEF lc_getFile
  <1>3. ASSUME NEW c \in Callers, CheckFile(c) PROVE TypeInv'
    <2> DEFINE md5 == IF call[c].file = None THEN None ELSE call[c].file.md5
    <2>1. /\ lc_deleteFileWithMd5s(files, {md5}) \in FileTable
          /\ lc_deleteTag(tags, None, md5, None) \in TagTable
          /\ files \in FileTable /\ tags \in TagTable
      BY DeleteFilesFacts, DeletedTagsType DEF TypeOK
    <2>2. /\ files' \in {files, lc_deleteFileWithMd5s(files, {md5})}
          /\ tags' \in {tags, lc_deleteTag(tags, None, md5, None)}
          /\ disk' \subseteq disk /\ UNCHANGED <<sources, rootDir, today>>
      BY <1>3 DEF CheckFile, p_fileExist
    <2>3. \E pc \in Place \ {"copy", "saveRow", "saveTag", "saved"} : Goto(c, pc) \/ End(c)
      <3>1. PICK pc \in {"checkTags", "dropRow", "dropTags", "forgetRow", "found", "dropFile"} :
                Goto(c, pc) \/ End(c)
        BY <1>3 DEF CheckFile, p_fileExist
      <3> QED BY <3>1 DEF Place
    <2> QED BY <2>1, <2>2, <2>3, OtherType
  <1>4. ASSUME NEW c \in Callers, DeleteCall(c) PROVE TypeInv'
    <2>1. "query" \in Place \ {"copy", "saveRow", "saveTag", "saved"}
      BY DEF Place
    <2>2. files \in FileTable /\ tags \in TagTable
      BY DEF TypeOK
    <2>3. ASSUME NEW md5, NEW tag, NEW group, lc_deleteFileWithMd5(c, md5, tag, group)
          PROVE  TypeInv'
      BY <2>1, <2>2, <2>3, DeletedTagsType, OtherType DEF lc_deleteFileWithMd5
    <2>4. ASSUME NEW t \in TagTable, lc_deleteFileInGroup(c, t) PROVE TypeInv'
      BY <2>1, <2>2, <2>4, OtherType DEF lc_deleteFileInGroup
    <2> QED BY <1>4, <2>2, <2>3, <2>4, LookupType, QueriesMatch, DeletedTagsType
          DEF DeleteCall, DeleteTagOfFound
  <1>5. ASSUME NEW c \in Callers, p_deleteNoTagFile(c) PROVE TypeInv'
    <2>1. CASE Queries(c) /\ UNCHANGED <<files, tags, disk, sources, rootDir, today>>
      <3>1. SavingHasFile' /\ call' \in [Callers -> CallState]
        BY <2>1, QueryFacts, SavingStep
      <3> QED BY <2>1, <3>1 DEF TypeOK
    <2>2. ASSUME NEW row, call' = [call EXCEPT ![c].left = @ \ {row}],
                 disk' = disk \ {row.path}, call[c].pc = "removeFiles",
                 UNCHANGED <<files, tags, sources, rootDir, today>>
          PROVE  TypeInv'
      <3>1. SavingHasFile' /\ call' \in [Callers -> CallState]
        BY <2>2, RemoveFacts, SavingStep
      <3>2. disk' \subseteq Path
        BY <2>2 DEF TypeOK
      <3> QED BY <2>2, <3>1, <3>2 DEF TypeOK
    <2>3. CASE /\ files' = RowsAfterCleanup(c) /\ Goto(c, "deleted")
               /\ UNCHANGED <<tags, disk, sources, rootDir, today>>
      <3>1. files' \in FileTable /\ tags' \in TagTable
        BY <2>3, DeleteFilesFacts DEF RowsAfterCleanup, TypeOK
      <3> QED BY <2>3, <3>1, OtherType DEF Place
    <2> QED BY <1>5, <2>1, <2>2, <2>3, CleanupSteps
  <1>6. ASSUME NEW c \in Callers, Return(c) PROVE TypeInv'
    <2>1. "idle" \in Place \ {"copy", "saveRow", "saveTag", "saved"}
      BY DEF Place
    <2> QED BY <1>6, <2>1, OtherType DEF Return, TypeOK
  <1>7. ASSUME NEW c \in Callers, AppTags(c) PROVE TypeInv'
    <2>1. /\ tags' \in TagTable
          /\ UNCHANGED <<files, disk, sources, rootDir, today, call>>
      BY <1>7, SaveTagFacts DEF AppTags, AppSavesTag, TypeOK
    <2> QED BY <2>1 DEF TypeOK, SavingHasFile
  <1>8. ASSUME NEW md5 \in Md5s, AppWritesFile(md5) PROVE TypeInv'
    BY <1>8 DEF AppWritesFile, TypeOK, SavingHasFile
  <1>9. CASE Midnight
    BY <1>9 DEF Midnight, TypeOK, SavingHasFile
  <1>10. CASE Restart
    <2>1. rootDir' \in Roots /\ disk' = {[path EXCEPT !.root = rootDir'] : path \in disk}
      BY <1>10 DEF Restart, TypeOK
    <2>2. \A path \in disk : [path EXCEPT !.root = rootDir'] \in Path
      BY <2>1 DEF TypeOK, Path
    <2>3. disk' \subseteq Path
      BY <2>1, <2>2
    <2> QED BY <1>10, <2>1, <2>3, NoCallType DEF Restart, TypeOK, SavingHasFile
  <1>11. CASE UNCHANGED storeVars
    BY <1>11 DEF storeVars, TypeOK, SavingHasFile
  <1> QED BY <1>1, <1>2, <1>3, <1>4, <1>5, <1>6, <1>7, <1>8, <1>9, <1>10, <1>11
      DEF Next, Step, CallerStep

(* Whatever number of threads use the store and wherever they are           *)
(* interrupted, the tables hold rows that are complete (lc_saveFile never   *)
(* stores a row without a path) and no call works on what it has not got.   *)
THEOREM StoreTypeCorrect == Spec => []TypeOK
  <1>1. Init => TypeInv
    BY InitType
  <1>2. TypeInv /\ [Next]_storeVars => TypeInv'
    BY NextType
  <1>3. TypeInv => TypeOK
    BY DEF TypeInv
  <1> QED BY <1>1, <1>2, <1>3, PTL DEF Spec

-----------------------------------------------------------------------------
(* Between these steps a call relies on nothing.                            *)
Free == {"idle", "query", "find", "dropRow", "dropTags"}

LEMMA FreeCall ==
    ASSUME NEW c \in Callers, call'[c].pc \in Free
    PROVE  CallInv(c)'
  BY DEF CallInv, Saving, Looking, Cleaning, Free

(* What the threads are to each other.                                      *)

(* A caller's step leaves the other calls where they are.                   *)
LEMMA CallerFrame ==
    ASSUME TypeInv, NEW c \in Callers, CallerStep(c)
    PROVE  \A d \in Callers : d # c => call'[d] = call[d]
  <1>1. call \in [Callers -> CallState]
    BY DEF TypeInv, TypeOK
  <1>2. CASE UNCHANGED call \/ \E s : call' = [call EXCEPT ![c] = s]
    BY <1>1, <1>2
  <1>3. SaveCall(c) => UNCHANGED call \/ \E s : call' = [call EXCEPT ![c] = s]
    BY DEF SaveCall, lc_saveFileFrom, p_copyFile, SaveRow, SaveTag, Goto
  <1>4. CheckFile(c) \/ p_deleteNoTagFile(c) \/ Return(c) \/ AppTags(c)
            => UNCHANGED call \/ \E s : call' = [call EXCEPT ![c] = s]
    BY DEF CheckFile, p_fileExist, p_deleteNoTagFile, Return, AppTags, AppSavesTag, Goto, End
  <1>5. lc_getFile(c) \/ DeleteCall(c)
            => UNCHANGED call \/ \E s : call' = [call EXCEPT ![c] = s]
    BY DEF lc_getFile, Lookup, DeleteCall, DeleteFound, DeleteTagOfFound,
           lc_deleteFileInGroup, lc_deleteFileWithMd5, Goto
  <1> QED BY <1>2, <1>3, <1>4, <1>5 DEF CallerStep

(* A call that goes on remembers what other threads did.                    *)
LEMMA OwnMemory ==
    ASSUME NEW c \in Callers, Remember(c), call'[c].pc # "idle"
    PROVE  /\ c \notin added' => c \notin added
           /\ c \notin removed' => c \notin removed
  BY DEF Remember, InCall, At

LEMMA OthersMemory ==
    ASSUME NEW c \in Callers, Remember(c),
           NEW d \in Callers, d # c, call'[d] = call[d], call[d].pc # "idle"
    PROVE  /\ d \notin added' => d \notin added /\ ~Adds
           /\ d \notin removed' => d \notin removed /\ ~Removes
           /\ ~mixed' => UNCHANGED <<files, tags, disk>>
  <1>1. d \in OtherCalls(c) /\ d \in InCall'
    BY DEF OtherCalls, InCall, At
  <1> QED BY <1>1 DEF Remember

LEMMA NothingAdded ==
    ASSUME ~Adds, files' \in FileTable, tags' \in TagTable
    PROVE  /\ \A k \in Keys : files'[k] # None => files'[k] = files[k]
           /\ \A md5 : TagsWithMd5(tags', md5) \subseteq TagsWithMd5(tags, md5)
  BY DEF Adds, TagsWithMd5

LEMMA NothingRemoved ==
    ASSUME ~Removes, files \in FileTable, tags \in TagTable
    PROVE  /\ \A k \in Keys : files[k] # None => files'[k] = files[k]
           /\ \A md5 : /\ FilesWithMd5(files, md5) \subseteq FilesWithMd5(files', md5)
                       /\ TagsWithMd5(tags, md5) \subseteq TagsWithMd5(tags', md5)
           /\ disk \subseteq disk'
  BY DEF Removes, TagsWithMd5, FilesWithMd5

(* The other calls have what they relied on, unless it was touched.         *)
LEMMA UntouchedCall ==
    ASSUME TypeInv, TypeInv', NEW c \in Callers, Remember(c),
           NEW d \in Callers, d # c, call'[d] = call[d], CallInv(d)
    PROVE  CallInv(d)'
  <1> USE DEF CallInv
  <1>1. CASE call[d].pc = "idle"
    BY <1>1, FreeCall DEF Free
  <1>2. CASE call[d].pc # "idle"
    <2>1. /\ d \notin added' => d \notin added /\ ~Adds
          /\ d \notin removed' => d \notin removed /\ ~Removes
      BY <1>2, OthersMemory
    <2>2. d \notin added' =>
            /\ \A k \in Keys : files'[k] # None => files'[k] = files[k]
            /\ \A md5 : TagsWithMd5(tags', md5) \subseteq TagsWithMd5(tags, md5)
      BY <2>1, NothingAdded DEF TypeInv, TypeOK
    <2>3. d \notin removed' =>
            /\ \A k \in Keys : files[k] # None => files'[k] = files[k]
            /\ \A md5 : /\ FilesWithMd5(files, md5) \subseteq FilesWithMd5(files', md5)
                        /\ TagsWithMd5(tags, md5) \subseteq TagsWithMd5(tags', md5)
            /\ disk \subseteq disk'
      BY <2>1, NothingRemoved DEF TypeInv, TypeOK
    <2>4. Saving(d)'
      <3>1. ASSUME call[d].pc \in {"saveTag", "saved"}
            PROVE  call[d].key \in Keys /\ call[d].file # None
        BY <3>1 DEF TypeInv, TypeOK, SavingHasFile, CallState
      <3>2. ASSUME call[d].pc \in {"saveTag", "saved"}, call[d].file.path # None, d \notin removed'
            PROVE  files'[call[d].key] = call[d].file
        <4>1. files[call[d].key] = call[d].file
          BY <2>1, <3>2 DEF Saving
        <4> QED BY <2>3, <3>1, <3>2, <4>1
      <3> QED BY <2>1, <2>3, <3>2 DEF Saving
    <2>5. Looking(d)'
      BY <2>1, <2>2, <2>3 DEF Looking
    <2>6. Cleaning(d)'
      <3>1. d \notin added' \cup removed' =>
                lc_getNoTagFile(files', tags') \subseteq lc_getNoTagFile(files, tags)
        BY <2>2, <2>3 DEF lc_getNoTagFile
      <3>2. d \notin added' \cup removed' =>
                \A k \in lc_getNoTagFile(files', tags') : files'[k] = files[k]
        BY <2>2 DEF lc_getNoTagFile
      <3> QED BY <2>1, <2>2, <3>1, <3>2 DEF Cleaning
    <2> QED BY <2>4, <2>5, <2>6
  <1> QED BY <1>1, <1>2

(* A step of one caller.                                                    *)
LEMMA OneCallerStep ==
    ASSUME StoreInv, NEW c \in Callers, CallerStep(c), Remember(c), TypeInv',
           RowsNameContent', CallInv(c)'
    PROVE  StoreInv'
  <1>1. TypeInv /\ \A d \in Callers : d # c => call'[d] = call[d]
    BY CallerFrame DEF StoreInv, TypeInv
  <1>2. \A d \in Callers : CallInv(d)'
    BY <1>1, UntouchedCall DEF StoreInv
  <1> QED BY <1>2 DEF StoreInv, TypeInv

LEMMA SaveStore ==
    ASSUME StoreInv, NEW c \in Callers, SaveCall(c), Remember(c), TypeInv'
    PROVE  RowsNameContent' /\ CallInv(c)'
  <1> USE DEF StoreInv, CallInv
  <1>0. /\ call'[c].pc # "idle" /\ c \notin added' => c \notin added
        /\ call'[c].pc # "idle" /\ c \notin removed' => c \notin removed
    BY OwnMemory
  <1>1. ASSUME NEW md5 \in Md5s, NEW key \in AppKeys \cup {None}, NEW move \in BOOLEAN,
               lc_saveFileFrom(c, md5, key, move)
        PROVE  RowsNameContent' /\ CallInv(c)'
    <2>1. /\ call'[c].pc = "copy" /\ call'[c].file.md5 = md5
          /\ \/ call'[c].file.path = None
             \/ \E k \in FilesWithMd5(files, md5) : call'[c].file.path = files[k].path
          /\ UNCHANGED <<files, tags, disk>>
      BY <1>1, BeginSaveFacts
    <2>2. CallInv(c)'
      BY <1>0, <2>1 DEF CallInv, Saving, Looking, Cleaning, RowsNameContent, FilesWithMd5
    <2> QED BY <2>1, <2>2 DEF RowsNameContent
  <1>2. CASE p_copyFile(c)
    <2>1. /\ call[c].pc = "copy" /\ call'[c].pc = "saveRow" /\ UNCHANGED <<files, tags>>
          /\ call'[c].file.md5 = call[c].file.md5
          /\ \/ /\ call[c].file.path \in disk
                /\ call'[c].file.path = call[c].file.path /\ disk' = disk
             \/ /\ call'[c].file.path.md5 = call[c].file.md5
                /\ disk' = disk \cup {call'[c].file.path}
             \/ call'[c].file.path = None
      BY <1>2, CopyFacts
    <2>2. Saving(c)'
      BY <1>0, <2>1 DEF Saving
    <2>3. CallInv(c)'
      BY <1>0, <2>1, <2>2 DEF CallInv, Looking, Cleaning
    <2> QED BY <2>1, <2>3 DEF RowsNameContent
  <1>3. CASE SaveRow(c)
    <2>1. /\ call[c].pc = "saveRow" /\ Goto(c, "saveTag") /\ "saveTag" \in Place
          /\ UNCHANGED <<tags, disk, sources, rootDir, today>>
          /\ files' = lc_saveFile(files, call[c].key, call[c].file.md5, call[c].file.path)
      BY <1>3 DEF SaveRow, At, Place
    <2>2. call[c].file \in FileM /\ call[c].key \in Keys
      BY <2>1 DEF TypeOK, SavingHasFile, CallState
    <2>3. /\ call'[c].pc = "saveTag" /\ call'[c].file = call[c].file
          /\ call'[c].key = call[c].key
      BY <2>1, GotoFacts DEF TypeOK
    <2>4. \A k \in Keys :
            files'[k] = IF k = call[c].key /\ call[c].file.path # None
                        THEN [md5 |-> call[c].file.md5, path |-> call[c].file.path]
                        ELSE files[k]
      BY <2>1, <2>2, SaveFileFacts DEF TypeOK, FileM
    <2>5. call[c].file = [md5 |-> call[c].file.md5, path |-> call[c].file.path]
      BY <2>2 DEF FileM
    <2>6. RowsNameContent'
      BY <2>1, <2>4, <2>5 DEF RowsNameContent, Saving
    <2>7. Saving(c)'
      BY <1>0, <2>1, <2>2, <2>3, <2>4, <2>5 DEF Saving
    <2>8. CallInv(c)'
      BY <1>0, <2>3, <2>7 DEF CallInv, Looking, Cleaning
    <2> QED BY <2>6, <2>8
  <1>4. ASSUME NEW time \in Times, SaveTag(c, time)
        PROVE  RowsNameContent' /\ CallInv(c)'
    <2>1. /\ call[c].pc = "saveTag" /\ Goto(c, "saved") /\ "saved" \in Place
          /\ UNCHANGED <<files, disk>>
      BY <1>4 DEF SaveTag, At, Place
    <2>2. /\ call'[c].pc = "saved" /\ call'[c].file = call[c].file
          /\ call'[c].key = call[c].key
      BY <2>1, GotoFacts DEF TypeOK
    <2>3. CallInv(c)'
      BY <1>0, <2>1, <2>2 DEF CallInv, Saving, Looking, Cleaning
    <2> QED BY <2>1, <2>3 DEF RowsNameContent
  <1> QED BY <1>1, <1>2, <1>3, <1>4 DEF SaveCall

LEMMA LookupStore ==
    ASSUME StoreInv, NEW c \in Callers, Remember(c), TypeInv',
           NEW rows \in SUBSET {k \in Keys : files[k] # None}, Lookup(c, rows)
    PROVE  RowsNameContent' /\ CallInv(c)'
  <1> USE DEF StoreInv, CallInv
  <1>0. /\ call'[c].pc # "idle" /\ c \notin added' => c \notin added
        /\ call'[c].pc # "idle" /\ c \notin removed' => c \notin removed
    BY OwnMemory
  <1>1. PICK file \in OneOf(rows) : Reads(c, "checkFile", file)
    BY DEF Lookup, Reads
  <1>2. "checkFile" \in Place
    BY DEF Place
  <1>3. /\ call'[c].pc = "checkFile"
        /\ call'[c].file # None => \E k \in rows : call'[c].file = files[k]
    BY <1>1, <1>2, FoundFacts
  <1>4. UNCHANGED <<files, tags, disk>>
    BY DEF Lookup
  <1>5. CallInv(c)'
    BY <1>0, <1>3, <1>4
    DEF CallInv, Saving, Looking, Cleaning, RowsNameContent, FilesWithMd5, TypeOK, FileTable
  <1> QED BY <1>4, <1>5 DEF RowsNameContent

LEMMA CheckStore ==
    ASSUME StoreInv, NEW c \in Callers, CheckFile(c), Remember(c), TypeInv'
    PROVE  RowsNameContent' /\ CallInv(c)'
  <1> DEFINE file == call[c].file
             md5 == IF file = None THEN None ELSE file.md5
  <1> USE DEF StoreInv, CallInv
  <1>0. /\ call'[c].pc # "idle" /\ c \notin added' => c \notin added
        /\ call'[c].pc # "idle" /\ c \notin removed' => c \notin removed
    BY OwnMemory
  <1>1. \A k \in Keys : lc_deleteFileWithMd5s(files, {md5})[k] \in {files[k], None}
    BY DeleteFilesFacts DEF TypeOK
  <1>2. RowsNameContent'
    <2>1. files' = files \/ files' = lc_deleteFileWithMd5s(files, {md5})
      BY DEF CheckFile, p_fileExist
    <2> HIDE DEF md5
    <2> QED BY <1>1, <2>1 DEF RowsNameContent
  <1>3. call \in [Callers -> CallState]
    BY DEF TypeOK
  <1>4. CASE At(c, "checkFile")
    <2>1. /\ Goto(c, IF FileExists(c) THEN "checkTags" ELSE "dropRow")
          /\ UNCHANGED <<files, tags, disk>>
      BY <1>4 DEF CheckFile, p_fileExist, At
    <2>2. CASE FileExists(c)
      <3>1. call'[c].pc = "checkTags" /\ call'[c].file = call[c].file
        BY <1>3, <2>1, <2>2, GotoFacts DEF Place
      <3>2. CallInv(c)'
        BY <1>0, <1>4, <2>1, <2>2, <3>1
        DEF CallInv, Saving, Looking, Cleaning, At, FileExists
      <3> QED BY <1>2, <3>2
    <2>3. CASE ~FileExists(c)
      <3>1. call'[c].pc = "dropRow"
        BY <1>3, <2>1, <2>3, GotoFacts DEF Place
      <3> QED BY <1>2, <3>1, FreeCall DEF Free
    <2> QED BY <2>2, <2>3
  <1>5. CASE At(c, "dropRow")
    <2>1. Goto(c, "dropTags") /\ "dropTags" \in Place
      BY <1>5 DEF CheckFile, p_fileExist, At, Place
    <2>2. call'[c].pc = "dropTags"
      BY <1>3, <2>1, GotoFacts
    <2> QED BY <1>2, <2>2, FreeCall DEF Free
  <1>6. CASE At(c, "dropTags") \/ At(c, "dropFile")
    <2>1. End(c)
      BY <1>6 DEF CheckFile, p_fileExist, At
    <2>2. call'[c].pc = "idle"
      BY <1>3, <2>1, EndFacts
    <2> QED BY <1>2, <2>2, FreeCall DEF Free
  <1>7. CASE At(c, "checkTags")
    <2>1. /\ Goto(c, IF TagsWithMd5(tags, md5) = {} THEN "forgetRow" ELSE "found")
          /\ UNCHANGED <<files, tags, disk>>
      BY <1>7 DEF CheckFile, p_fileExist, At
    <2>2. /\ call'[c].pc = IF TagsWithMd5(tags, md5) = {} THEN "forgetRow" ELSE "found"
          /\ call'[c].file = call[c].file
      BY <1>3, <2>1, GotoFacts DEF Place
    <2>3. CallInv(c)'
      BY <1>0, <1>7, <2>1, <2>2 DEF CallInv, Saving, Looking, Cleaning, At
    <2> QED BY <1>2, <2>3
  <1>8. CASE At(c, "forgetRow")
    <2>1. Goto(c, "dropFile") /\ UNCHANGED <<tags, disk>> /\ "dropFile" \in Place
      BY <1>8 DEF CheckFile, p_fileExist, At, Place
    <2>2. call'[c].pc = "dropFile" /\ call'[c].file = call[c].file
      BY <1>3, <2>1, GotoFacts
    <2>3. CallInv(c)'
      BY <1>0, <1>8, <2>1, <2>2 DEF CallInv, Saving, Looking, Cleaning, At
    <2> QED BY <1>2, <2>3
  <1> QED BY <1>4, <1>5, <1>6, <1>7, <1>8 DEF CheckFile, p_fileExist

LEMMA DeleteStore ==
    ASSUME StoreInv, NEW c \in Callers, DeleteCall(c), Remember(c), TypeInv'
    PROVE  RowsNameContent' /\ CallInv(c)'
  <1> USE DEF StoreInv, CallInv
  <1>0. /\ call'[c].pc # "idle" /\ c \notin added' => c \notin added
        /\ call'[c].pc # "idle" /\ c \notin removed' => c \notin removed
    BY OwnMemory
  <1>1. call \in [Callers -> CallState] /\ "query" \in Place /\ "find" \in Place
    BY DEF TypeOK, Place
  <1>2. files' = files
    BY DEF DeleteCall, DeleteFound, DeleteTagOfFound, lc_deleteFileInGroup, lc_deleteFileWithMd5
  <1>3. CASE Goto(c, "query")
    <2>1. call'[c].pc = "query"
      BY <1>1, <1>3, GotoFacts
    <2> QED BY <1>2, <2>1, FreeCall DEF Free, RowsNameContent
  <1>4. ASSUME NEW rows \in SUBSET {k \in Keys : files[k] # None}, DeleteFound(c, rows)
        PROVE  RowsNameContent' /\ CallInv(c)'
    <2>1. PICK file \in OneOf(rows) : Reads(c, "find", file)
      BY <1>4 DEF DeleteFound, Reads
    <2>2. call'[c].pc = "find"
      BY <1>1, <2>1, FoundFacts
    <2> QED BY <1>2, <2>2, FreeCall DEF Free, RowsNameContent
  <1> QED BY <1>3, <1>4, QueriesMatch
      DEF DeleteCall, DeleteTagOfFound, lc_deleteFileInGroup, lc_deleteFileWithMd5

(* The cleanup removes the rows its query gave, so every row without a tag  *)
(* when the query gave them all.                                            *)
LEMMA CleanedUp ==
    ASSUME TypeOK, NEW c \in Callers
    PROVE  /\ (\A k \in lc_getNoTagFile(files, tags) : files[k] \in call[c].rows)
                => lc_getNoTagFile(RowsAfterCleanup(c), tags) = {}
           /\ \A k \in Keys : RowsAfterCleanup(c)[k] \in {files[k], None}
           /\ \A k \in Keys : RowsAfterCleanup(c)[k] # None =>
                    \A r \in call[c].rows : r.md5 # files[k].md5
           /\ \A k \in Keys : files[k] # None /\ RowsAfterCleanup(c)[k] = None =>
                    \E r \in call[c].rows : r.md5 = files[k].md5
  <1> DEFINE M == {r.md5 : r \in call[c].rows}
             F == RowsAfterCleanup(c)
  <1>1. \A k \in Keys : F[k] = IF files[k] # None /\ files[k].md5 \in M THEN None ELSE files[k]
    BY DeleteFilesFacts DEF TypeOK, RowsAfterCleanup
  <1> HIDE DEF F
  <1>2. ASSUME \A k \in lc_getNoTagFile(files, tags) : files[k] \in call[c].rows
        PROVE  lc_getNoTagFile(F, tags) = {}
    <2>1. \A k \in lc_getNoTagFile(files, tags) : k \in Keys /\ files[k] # None /\ files[k].md5 \in M
      BY <1>2 DEF lc_getNoTagFile
    <2>2. \A k \in Keys : F[k] # None => F[k] = files[k] /\ k \notin lc_getNoTagFile(files, tags)
      BY <1>1, <2>1
    <2> QED BY <2>2 DEF lc_getNoTagFile
  <1>3. \A k \in Keys : F[k] # None => \A r \in call[c].rows : r.md5 # files[k].md5
    BY <1>1
  <1>4. \A k \in Keys : files[k] # None /\ F[k] = None =>
            \E r \in call[c].rows : r.md5 = files[k].md5
    BY <1>1
  <1> QED BY <1>1, <1>2, <1>3, <1>4 DEF F

LEMMA CleanupStore ==
    ASSUME StoreInv, NEW c \in Callers, p_deleteNoTagFile(c), Remember(c), TypeInv'
    PROVE  RowsNameContent' /\ CallInv(c)'
  <1> USE DEF StoreInv, CallInv
  <1>0. /\ call'[c].pc # "idle" /\ c \notin added' => c \notin added
        /\ call'[c].pc # "idle" /\ c \notin removed' => c \notin removed
    BY OwnMemory
  <1>1. call \in [Callers -> CallState] /\ "deleted" \in Place
    BY DEF TypeOK, Place
  <1>2. CASE Queries(c) /\ UNCHANGED <<files, tags>>
    <2>1. /\ call'[c].pc = "removeFiles" /\ call'[c].left = call'[c].rows
          /\ call'[c].rows = {files[k] : k \in lc_getNoTagFile(files, tags)}
      BY <1>2, QueryFacts
    <2>2. \A k \in lc_getNoTagFile(files, tags) :
            files[k].path.md5 = files[k].md5 /\ TagsWithMd5(tags, files[k].md5) = {}
      BY DEF RowsNameContent, lc_getNoTagFile
    <2>3. /\ \A r \in call'[c].rows : r.path.md5 = r.md5 /\ TagsWithMd5(tags, r.md5) = {}
          /\ \A k \in lc_getNoTagFile(files, tags) : files[k] \in call'[c].rows
      BY <2>1, <2>2
    <2>4. Cleaning(c)'
      BY <1>2, <2>1, <2>3 DEF Cleaning
    <2>5. CallInv(c)'
      BY <2>1, <2>4 DEF Saving, Looking
    <2> QED BY <1>2, <2>5 DEF RowsNameContent
  <1>3. ASSUME NEW row, call[c].pc = "removeFiles",
               call' = [call EXCEPT ![c].left = @ \ {row}], UNCHANGED <<files, tags>>
        PROVE  RowsNameContent' /\ CallInv(c)'
    <2>1. /\ call'[c].pc = "removeFiles" /\ call'[c].rows = call[c].rows
          /\ call'[c].left \subseteq call[c].left
      BY <1>3, RemoveFacts
    <2>2. CallInv(c)'
      BY <1>0, <1>3, <2>1 DEF CallInv, Saving, Looking, Cleaning
    <2> QED BY <1>3, <2>2 DEF RowsNameContent
  <1>4. CASE /\ call[c].pc = "removeFiles" /\ Goto(c, "deleted")
             /\ UNCHANGED tags /\ files' = RowsAfterCleanup(c)
    <2>1. call'[c].pc = "deleted"
      BY <1>1, <1>4, GotoFacts
    <2>2. /\ c \notin added \cup removed => lc_getNoTagFile(files', tags) = {}
          /\ \A k \in Keys : files'[k] \in {files[k], None}
      BY <1>4, CleanedUp DEF Cleaning
    <2>3. CallInv(c)'
      BY <1>0, <1>4, <2>1, <2>2 DEF CallInv, Saving, Looking, Cleaning
    <2> QED BY <2>2, <2>3 DEF RowsNameContent
  <1> QED BY <1>2, <1>3, <1>4, CleanupSteps

LEMMA NextStore ==
    ASSUME StoreInv, [NextCalls]_callsVars
    PROVE  StoreInv'
  <1>1. TypeInv'
    <2>1. [Next]_storeVars
      BY DEF NextCalls, callsVars, Next, Step
    <2> QED BY <2>1, NextType DEF StoreInv, TypeInv
  <1>2. ASSUME NEW c \in Callers, CallerStep(c), Remember(c) PROVE StoreInv'
    <2> SUFFICES RowsNameContent' /\ CallInv(c)'
      BY <1>1, <1>2, OneCallerStep
    <2>1. CASE SaveCall(c) \/ CheckFile(c) \/ DeleteCall(c) \/ p_deleteNoTagFile(c)
      BY <1>1, <1>2, <2>1, SaveStore, CheckStore, DeleteStore, CleanupStore
    <2>2. CASE lc_getFile(c)
      BY <1>1, <1>2, <2>2, LookupStore, QueriesMatch DEF lc_getFile
    <2>3. CASE Return(c) \/ AppTags(c)
      <3>1. call'[c].pc = "idle" /\ files' = files
        BY <2>3, EndFacts DEF Return, AppTags, AppSavesTag, At, StoreInv, TypeOK
      <3> QED BY <3>1, FreeCall DEF Free, StoreInv, RowsNameContent
    <2> QED BY <1>2, <2>1, <2>2, <2>3 DEF CallerStep
  <1>3. CASE \/ (Midnight \/ \E md5 \in Md5s : AppWritesFile(md5)) /\ UNCHANGED memory
             \/ UNCHANGED callsVars
    <2>1. UNCHANGED <<files, tags, disk, call, added, removed>>
      BY <1>3 DEF AppWritesFile, Midnight, callsVars, storeVars, memory
    <2> QED BY <1>1, <2>1
        DEF TypeInv, StoreInv, RowsNameContent, CallInv, Saving, Looking, Cleaning
  <1>4. CASE Restart
    <2>1. files' = files /\ \A c \in Callers : call'[c].pc \in Free
      BY <1>4, NoCallType DEF Restart, Free
    <2>2. \A c \in Callers : CallInv(c)'
      BY <2>1, FreeCall
    <2> QED BY <1>1, <2>1, <2>2 DEF TypeInv, StoreInv, RowsNameContent
  <1> QED BY <1>2, <1>3, <1>4 DEF NextCalls

LEMMA InitStore == InitCalls => StoreInv
  <1> SUFFICES ASSUME InitCalls PROVE StoreInv
    OBVIOUS
  <1>1. TypeInv
    BY InitType DEF InitCalls
  <1>2. /\ \A k \in Keys : files[k] = None
        /\ \A c \in Callers : call[c].pc = "idle"
    BY NoCallType DEF InitCalls, Init
  <1> QED BY <1>1, <1>2
    DEF TypeInv, StoreInv, RowsNameContent, CallInv, Saving, Looking, Cleaning

LEMMA StoreInvGives ==
    ASSUME StoreInv
    PROVE  DoomedAreUntagged /\ LookupIsLive /\ SavedIsThere /\ CleanupIsComplete
  <1> USE DEF StoreInv, CallInv
  <1>1. DoomedAreUntagged
    <2> SUFFICES ASSUME NEW c \in Callers \ added, NEW path \in Doomed(c)
                 PROVE  TagsWithMd5(tags, path.md5) = {}
      BY DEF DoomedAreUntagged
    <2>1. CASE At(c, "removeFiles")
      BY <2>1 DEF Doomed, At, Cleaning
    <2>2. CASE At(c, "dropFile")
      BY <2>2 DEF Doomed, At, Looking
    <2> QED BY <2>1, <2>2 DEF Doomed
  <1>2. LookupIsLive
    BY DEF LookupIsLive, Looking, At
  <1>3. SavedIsThere
    BY DEF SavedIsThere, Saving, At
  <1>4. CleanupIsComplete
    BY DEF CleanupIsComplete, Cleaning, At
  <1> QED BY <1>1, <1>2, <1>3, <1>4

LEMMA StoreAlways == SpecCalls => []StoreInv
  <1>1. StoreInv /\ [NextCalls]_callsVars => StoreInv'
    BY NextStore
  <1> QED BY InitStore, <1>1, PTL DEF SpecCalls

(* For any number of threads, contents, keys, tags and days, and kills      *)
(* between any two statements: the files that a cleanup (p_deleteNoTagFile) *)
(* or a lookup (p_fileExist) is about to remove have no tag, although it    *)
(* saw the tags some steps earlier, unless another thread tagged or saved   *)
(* something while the call went on, ...                                    *)
THEOREM TaggedIsNotRemoved == SpecCalls => []DoomedAreUntagged
  <1>1. StoreInv => DoomedAreUntagged
    BY StoreInvGives
  <1> QED BY <1>1, StoreAlways, PTL

(* ... what a lookup returns has its file, its row and a tag, although each *)
(* was seen at another time, unless another thread took something away, ... *)
THEOREM LookupsAreLive == SpecCalls => []LookupIsLive
  <1>1. StoreInv => LookupIsLive
    BY StoreInvGives
  <1> QED BY <1>1, StoreAlways, PTL

(* ... what a save returns is of the right content, and on the disk and     *)
(* found under its key, although p_copyFile may have used a row that was    *)
(* there, unless another thread took something away, ...                    *)
THEOREM SavesAreThere == SpecCalls => []SavedIsThere
  <1>1. StoreInv => SavedIsThere
    BY StoreInvGives
  <1> QED BY <1>1, StoreAlways, PTL

(* ... and p_deleteNoTagFile leaves no row without a tag, unless another    *)
(* thread changed the tables while the call went on.                        *)
THEOREM CleanupsAreComplete == SpecCalls => []CleanupIsComplete
  <1>1. StoreInv => CleanupIsComplete
    BY StoreInvGives
  <1> QED BY <1>1, StoreAlways, PTL

(* With one thread that uses the store nothing is ever in between, and      *)
(* these results hold without their conditions.                             *)
THEOREM OneThreadIsUndisturbed ==
    ASSUME \A c, d \in Callers : c = d
    PROVE  SpecCalls => [](added = {} /\ removed = {} /\ mixed = FALSE)
  <1> DEFINE Undisturbed == added = {} /\ removed = {} /\ mixed = FALSE
  <1>1. InitCalls => Undisturbed
    BY DEF InitCalls
  <1>2. Undisturbed /\ [NextCalls]_callsVars => Undisturbed'
    <2> SUFFICES ASSUME Undisturbed, [NextCalls]_callsVars PROVE Undisturbed'
      OBVIOUS
    <2>1. ASSUME NEW c \in Callers, Remember(c) PROVE Undisturbed'
      <3>1. OtherCalls(c) = {}
        BY DEF OtherCalls, InCall
      <3> QED BY <2>1, <3>1 DEF Remember
    <2> QED BY <2>1 DEF NextCalls, callsVars, memory
  <1> QED BY <1>1, <1>2, PTL DEF SpecCalls

-----------------------------------------------------------------------------
(* Content kept once.  A call's own step keeps what it is to keep ...       *)
KeptAfter(c) == RowsHaveFiles' /\ FilesHaveRows' /\ OneFile' /\ Kept(c)'

(* A step that gives no key another content, before which no calls were     *)
(* mixed and tables and disk went together, and which changes nothing or    *)
(* finds no other call.                                                     *)
KeepingStep(c) ==
    /\ StoreInv /\ RowsHaveFiles /\ FilesHaveRows /\ OneFile /\ Kept(c)
    /\ ~GivesAnotherContent
    /\ call' \in [Callers -> CallState]
    /\ \A d \in Callers : d # c => call'[d] = call[d]
    /\ UNCHANGED <<files, tags, disk>> \/ \A d \in Callers : d # c => call[d].pc = "idle"

(* The rows that other calls are about to drop, they still are.             *)
LEMMA StillDropping ==
    ASSUME NEW c \in Callers, KeepingStep(c), NEW md5, Dropping(md5),
           \/ call[c].pc # "removeFiles"
           \/ /\ call'[c].pc = "removeFiles" /\ call'[c].rows = call[c].rows
              /\ call'[c].left \subseteq call[c].left
    PROVE  Dropping(md5)'
  <1>1. PICK d \in Callers :
            call[d].pc = "removeFiles" /\ \E r \in call[d].rows \ call[d].left : r.md5 = md5
    BY DEF Dropping
  <1>2. CASE d # c
    <2>1. call'[d] = call[d]
      BY <1>2 DEF KeepingStep
    <2> QED BY <1>1, <2>1 DEF Dropping
  <1>3. CASE d = c
    BY <1>1, <1>3 DEF Dropping
  <1> QED BY <1>2, <1>3

(* The path of a row is on record and is one of its content.                *)
LEMMA RowFacts ==
    ASSUME StoreInv, NEW k \in Keys, files[k] # None
    PROVE  /\ files[k].md5 \in Md5s /\ files[k].md5 # None
           /\ files[k].path \in Path /\ files[k].path # None
           /\ files[k].path.md5 = files[k].md5
           /\ files[k].path \in PathsOnRecord
  BY DBAssumption, RowAssumption
  DEF StoreInv, TypeOK, FileTable, FileRow, RowsNameContent, PathsOnRecord

LEMMA OnRecord ==
    ASSUME NEW path, path \in PathsOnRecord
    PROVE  \E k \in Keys : files[k] # None /\ files[k].path = path
  BY DEF PathsOnRecord

(* A file is held by the same calls after a step of another one.            *)
LEMMA StillHeld ==
    ASSUME NEW c \in Callers, KeepingStep(c), NEW path, NEW d \in Callers, Holds(d, path),
           d # c
    PROVE  Holds(d, path)'
  BY DEF KeepingStep, Holds

(* A step of a call that holds no file and takes away no row leaves the     *)
(* tables and the disk together.                                            *)
LEMMA SameStore ==
    ASSUME NEW c \in Callers, KeepingStep(c), UNCHANGED <<files, disk>>,
           \A md5 : Dropping(md5) => Dropping(md5)',
           call[c].pc \notin {"saveRow", "dropFile"}
    PROVE  RowsHaveFiles' /\ FilesHaveRows' /\ OneFile'
  <1>1. RowsHaveFiles' /\ OneFile'
    BY DEF KeepingStep, RowsHaveFiles, OneFile
  <1>2. ASSUME NEW path \in disk
        PROVE  path \in PathsOnRecord' \/ \E d \in Callers : Holds(d, path)'
    <2>1. PathsOnRecord' = PathsOnRecord
      BY DEF PathsOnRecord
    <2>2. ~Holds(c, path)
      BY DEF Holds
    <2> QED BY <1>2, <2>1, <2>2, StillHeld DEF KeepingStep, FilesHaveRows
  <1> QED BY <1>1, <1>2 DEF FilesHaveRows

LEMMA BeginKept ==
    ASSUME NEW c \in Callers, KeepingStep(c),
           NEW md5 \in Md5s, NEW key \in AppKeys \cup {None}, NEW move \in BOOLEAN,
           lc_saveFileFrom(c, md5, key, move)
    PROVE  KeptAfter(c)
  <1> USE DEF KeepingStep, StoreInv
  <1>1. /\ call'[c].pc = "copy" /\ call'[c].file.md5 = md5
        /\ \/ call'[c].file.path = None /\ FilesWithMd5(files, md5) = {}
           \/ \E k \in FilesWithMd5(files, md5) : call'[c].file.path = files[k].path
        /\ UNCHANGED <<files, tags, disk>>
    BY BeginSaveFacts
  <1>2. call[c].pc = "idle"
    BY DEF lc_saveFileFrom, At
  <1>3. \A m : Dropping(m) => Dropping(m)'
    BY <1>2, StillDropping
  <1>4. RowsHaveFiles' /\ FilesHaveRows' /\ OneFile'
    BY <1>1, <1>2, <1>3, SameStore
  <1>5. SavesTheFile(c)'
    BY <1>1, <1>3 DEF SavesTheFile, RowsHaveFiles, OneFile, FilesWithMd5
  <1> QED BY <1>1, <1>4, <1>5 DEF KeptAfter, Kept, DropsTogether, RemovesAll

LEMMA CopyKept ==
    ASSUME NEW c \in Callers, KeepingStep(c), p_copyFile(c)
    PROVE  KeptAfter(c)
  <1>0. PICK md5, old, path :
            md5 = call[c].file.md5 /\ old = call[c].file.path /\ path = call'[c].file.path
    OBVIOUS
  <1> USE DEF KeepingStep, StoreInv
  <1>1. /\ call[c].pc = "copy" /\ call'[c].pc = "saveRow" /\ UNCHANGED <<files, tags>>
        /\ call'[c].file # None /\ call'[c].file.md5 = md5
        /\ \/ old \in disk /\ path = old /\ disk' = disk
           \/ /\ old \notin disk
              /\ path \in Path /\ path.md5 = md5 /\ disk' = disk \cup {path}
           \/ old \notin disk /\ path = None /\ disk' = disk
    BY <1>0, CopyFacts
  <1>2. \A m : Dropping(m) => Dropping(m)'
    BY <1>1, StillDropping
  <1>3. \/ /\ old # None => old \in disk
           /\ \A k \in FilesWithMd5(files, md5) : files[k].path = old
        \/ Dropping(md5) /\ FilesWithMd5(files, md5) # {}
    BY <1>0, <1>1 DEF Kept, SavesTheFile
  <1>4. old = None /\ (\A k \in FilesWithMd5(files, md5) : files[k].path = old)
            => FilesWithMd5(files, md5) = {}
    BY RowFacts DEF FilesWithMd5
  <1>5. SavesTheFile(c)'
    <2>1. \/ /\ path # None => path \in disk'
             /\ \A k \in FilesWithMd5(files', md5) : files'[k].path = path
          \/ Dropping(md5)' /\ FilesWithMd5(files', md5) # {}
      BY <1>1, <1>2, <1>3, <1>4
    <2> QED BY <1>0, <1>1, <2>1 DEF SavesTheFile
  <1>6. Kept(c)'
    BY <1>1, <1>5 DEF Kept, DropsTogether, RemovesAll
  <1>7. CASE disk' = disk
    BY <1>1, <1>2, <1>6, <1>7, SameStore DEF KeptAfter
  <1>8. CASE disk' # disk
    <2>1. /\ \A d \in Callers : d # c => call[d].pc = "idle"
          /\ disk' = disk \cup {path} /\ path.md5 = md5 /\ old \notin disk
      BY <1>1, <1>8
    <2>2. ~Dropping(md5)
      BY <1>1, <2>1 DEF Dropping
    <2>3. FilesWithMd5(files, md5) = {}
      BY <1>3, <1>4, <2>1, <2>2
    <2>4. \A p \in disk : \E k \in Keys : files[k] # None /\ files[k].path = p
      BY <1>1, <2>1, OnRecord DEF FilesHaveRows, Holds
    <2>5. \A k \in Keys : files[k] # None => files[k].md5 # md5 /\ files[k].path.md5 # md5
      BY <2>3, RowFacts DEF FilesWithMd5
    <2>6. \A p \in disk : p.md5 # md5
      BY <2>4, <2>5
    <2>7. OneFile'
      BY <1>1, <2>1, <2>5, <2>6 DEF OneFile
    <2>8. RowsHaveFiles'
      BY <1>1, <1>2, <2>1 DEF RowsHaveFiles
    <2>9. Holds(c, path)'
      BY <1>0, <1>1 DEF Holds
    <2>10. FilesHaveRows'
      BY <1>1, <2>1, <2>4, <2>9 DEF FilesHaveRows, PathsOnRecord
    <2> QED BY <1>6, <2>7, <2>8, <2>10 DEF KeptAfter
  <1> QED BY <1>7, <1>8

LEMMA RowKept ==
    ASSUME NEW c \in Callers, KeepingStep(c), SaveRow(c)
    PROVE  KeptAfter(c)
  <1> DEFINE md5 == call[c].file.md5
             path == call[c].file.path
  <1> USE DEF KeepingStep, StoreInv
  <1>1. /\ call[c].pc = "saveRow" /\ Goto(c, "saveTag") /\ "saveTag" \in Place
        /\ UNCHANGED <<tags, disk>>
        /\ files' = lc_saveFile(files, call[c].key, md5, path)
    BY DEF SaveRow, At, Place
  <1>2. call[c].file \in FileM /\ call[c].key \in Keys
    BY <1>1 DEF TypeOK, SavingHasFile, CallState
  <1>3. call'[c].pc = "saveTag"
    BY <1>1, GotoFacts DEF TypeOK
  <1>4. \A k \in Keys :
          files'[k] = IF k = call[c].key /\ path # None
                      THEN [md5 |-> md5, path |-> path] ELSE files[k]
    BY <1>1, <1>2, SaveFileFacts DEF TypeOK, FileM
  <1>5. /\ \A k \in Keys : k = call[c].key /\ path # None => files'[k] = [md5 |-> md5, path |-> path]
        /\ \A k \in Keys : ~(k = call[c].key /\ path # None) => files'[k] = files[k]
    BY <1>4
  <1>6. \A m : Dropping(m) => Dropping(m)'
    BY <1>1, StillDropping
  <1>7. Kept(c)'
    BY <1>3 DEF Kept, DropsTogether, SavesTheFile, RemovesAll
  <1>8. \/ /\ path # None => path \in disk
           /\ \A k \in Keys : files[k] # None /\ files[k].md5 = md5 => files[k].path = path
        \/ Dropping(md5) /\ FilesWithMd5(files, md5) # {}
    BY <1>1 DEF Kept, SavesTheFile, FilesWithMd5
  <1>9. path # None => files'[call[c].key] # None /\ files'[call[c].key].path = path
    <2>1. path # None => [md5 |-> md5, path |-> path] \in FileRow
      BY <1>2, SaveFileFacts DEF TypeOK, FileM
    <2> QED BY <1>2, <1>5, <2>1, RowAssumption
  <1> HIDE DEF md5, path
  <1>10. \A p \in disk : Holds(c, p) => p \in PathsOnRecord'
    <2>1. \A p \in disk : p # None
      BY RowAssumption DEF TypeOK
    <2> QED BY <1>2, <1>9, <2>1 DEF Holds, PathsOnRecord, path
  <1>11. CASE files' = files
    <2>1. PathsOnRecord' = PathsOnRecord
      BY <1>11 DEF PathsOnRecord
    <2>2. FilesHaveRows'
      BY <1>1, <1>10, <2>1, StillHeld DEF FilesHaveRows
    <2> QED BY <1>1, <1>6, <1>7, <1>11, <2>2 DEF KeptAfter, RowsHaveFiles, OneFile
  <1>12. CASE files' # files
    <2>1. \A d \in Callers : d # c => call[d].pc = "idle"
      BY <1>12
    <2>2. ~Dropping(md5)
      BY <1>1, <2>1 DEF Dropping
    <2>3. /\ path # None => path \in disk
          /\ \A k \in Keys : files[k] # None /\ files[k].md5 = md5 => files[k].path = path
      BY <1>8, <2>2
    <2>4. RowsHaveFiles'
      BY <1>1, <1>5, <1>6, <2>3 DEF RowsHaveFiles
    <2>5. \A k \in Keys : files[k] # None => files'[k] # None /\ files'[k].path = files[k].path
      <3> SUFFICES ASSUME NEW k \in Keys, files[k] # None
                   PROVE  files'[k] # None /\ files'[k].path = files[k].path
        OBVIOUS
      <3>1. CASE k = call[c].key /\ path # None
        <4>1. files'[k] # None /\ files'[k].path = path /\ files'[k].md5 = md5
          BY <1>5, <1>9, <3>1
        <4>2. files[k].md5 = md5
          BY <4>1 DEF GivesAnotherContent
        <4> QED BY <2>3, <4>1, <4>2
      <3> QED BY <1>5, <3>1
    <2>6. PathsOnRecord \subseteq PathsOnRecord'
      BY <2>5 DEF PathsOnRecord
    <2>7. \A p \in disk : p \in PathsOnRecord \/ Holds(c, p)
      BY <2>1 DEF FilesHaveRows, Holds
    <2>8. FilesHaveRows'
      BY <1>1, <1>10, <2>6, <2>7 DEF FilesHaveRows
    <2>9. \A p \in disk : p.md5 = md5 => p = path
      <3> SUFFICES ASSUME NEW p \in disk, p.md5 = md5 PROVE p = path
        OBVIOUS
      <3>1. CASE Holds(c, p)
        BY <3>1 DEF Holds, path
      <3>2. CASE p \in PathsOnRecord
        <4>1. PICK k \in Keys : files[k] # None /\ files[k].path = p
          BY <3>2, OnRecord
        <4> QED BY <2>3, <4>1, RowFacts
      <3> QED BY <2>7, <3>1, <3>2
    <2>10. \A k \in Keys :
            files'[k] = files[k] \/ (files'[k].md5 = md5 /\ files'[k].path = path)
      BY <1>5
    <2>11. OneFile'
      <3>1. \A p, q \in disk' : p.md5 = q.md5 => p = q
        BY <1>1 DEF OneFile
      <3>2. \A k \in Keys, p \in disk' :
                files'[k] # None /\ p.md5 = files'[k].md5 => p = files'[k].path
        BY <1>1, <2>9, <2>10 DEF OneFile
      <3>3. ASSUME NEW j \in Keys, NEW k \in Keys,
                   files'[j] # None, files'[k] # None, files'[j].md5 = files'[k].md5
            PROVE  files'[j].path = files'[k].path
        <4>1. files[j] # None /\ files[k] # None /\ files[j].md5 = files[k].md5
                => files[j].path = files[k].path
          BY DEF OneFile
        <4> QED BY <2>3, <2>10, <3>3, <4>1
      <3> QED BY <3>1, <3>2, <3>3 DEF OneFile
    <2> QED BY <1>7, <2>4, <2>8, <2>11 DEF KeptAfter
  <1> QED BY <1>11, <1>12

LEMMA SaveKept ==
    ASSUME NEW c \in Callers, KeepingStep(c), SaveCall(c)
    PROVE  KeptAfter(c)
  <1>1. ASSUME NEW time \in Times, SaveTag(c, time)
        PROVE  KeptAfter(c)
    <2>1. /\ call[c].pc = "saveTag" /\ Goto(c, "saved") /\ "saved" \in Place
          /\ UNCHANGED <<files, disk>>
      BY <1>1 DEF SaveTag, At, Place
    <2>2. call'[c].pc = "saved"
      BY <2>1, GotoFacts DEF KeepingStep, StoreInv, TypeOK
    <2>3. RowsHaveFiles' /\ FilesHaveRows' /\ OneFile'
      BY <2>1, StillDropping, SameStore
    <2> QED BY <2>2, <2>3 DEF KeptAfter, Kept, DropsTogether, SavesTheFile, RemovesAll
  <1> QED BY <1>1, BeginKept, CopyKept, RowKept DEF SaveCall

(* The steps of a lookup that only look, ...                                *)
LEMMA LookKept ==
    ASSUME NEW c \in Callers, KeepingStep(c), CheckFile(c),
           At(c, "checkFile") \/ At(c, "checkTags") \/ At(c, "dropTags")
    PROVE  KeptAfter(c)
  <1> USE DEF KeepingStep, StoreInv
  <1>1. call \in [Callers -> CallState]
    BY DEF TypeOK
  <1>2. /\ UNCHANGED <<files, disk>>
        /\ \/ At(c, "checkFile") /\ Goto(c, IF FileExists(c) THEN "checkTags" ELSE "dropRow")
           \/ At(c, "checkTags") /\ \E pc \in {"forgetRow", "found"} : Goto(c, pc)
           \/ At(c, "dropTags") /\ End(c)
    BY DEF CheckFile, p_fileExist, At
  <1>3. RowsHaveFiles' /\ FilesHaveRows' /\ OneFile'
    <2>1. call[c].pc \in {"checkFile", "checkTags", "dropTags"}
      BY DEF At
    <2> QED BY <1>2, <2>1, StillDropping, SameStore
  <1>4. CASE At(c, "dropTags") /\ End(c)
    BY <1>1, <1>3, <1>4, EndFacts DEF KeptAfter, Kept, SavesTheFile, DropsTogether, RemovesAll
  <1>5. CASE At(c, "checkTags") /\ \E pc \in {"forgetRow", "found"} : Goto(c, pc)
    <2>1. call'[c].pc \in {"forgetRow", "found"} /\ call'[c].file = call[c].file
      BY <1>1, <1>5, GotoFacts DEF Place
    <2>2. DropsTogether(c)'
      BY <1>2, <1>5, <2>1 DEF At, Kept, DropsTogether
    <2> QED BY <1>3, <2>1, <2>2 DEF KeptAfter, Kept, SavesTheFile, RemovesAll
  <1>6. CASE At(c, "checkFile") /\ Goto(c, IF FileExists(c) THEN "checkTags" ELSE "dropRow")
    <2>1. /\ call'[c].pc = IF FileExists(c) THEN "checkTags" ELSE "dropRow"
          /\ call'[c].file = call[c].file
      BY <1>1, <1>6, GotoFacts DEF Place
    <2>2. call[c].file # None => \E k \in Keys : files[k] = call[c].file
      BY <1>6 DEF At, Kept, DropsTogether
    <2>3. call[c].file # None /\ ~FileExists(c) => \A p \in disk : p.md5 # call[c].file.md5
      BY <2>2 DEF FileExists, OneFile
    <2>4. DropsTogether(c)'
      BY <1>2, <2>1, <2>2, <2>3 DEF DropsTogether
    <2> QED BY <1>3, <2>1, <2>4 DEF KeptAfter, Kept, SavesTheFile, RemovesAll
  <1> QED BY <1>2, <1>4, <1>5, <1>6

(* ... and those that drop a row or a file.                                 *)
LEMMA CheckKept ==
    ASSUME NEW c \in Callers, KeepingStep(c), CheckFile(c)
    PROVE  KeptAfter(c)
  <1> DEFINE md5 == IF call[c].file = None THEN None ELSE call[c].file.md5
             rest == lc_deleteFileWithMd5s(files, {md5})
  <1> USE DEF KeepingStep, StoreInv
  <1>1. call \in [Callers -> CallState]
    BY DEF TypeOK
  <1>3. \A k \in Keys : rest[k] = IF files[k] # None /\ files[k].md5 = md5
                                  THEN None ELSE files[k]
    BY DeleteFilesFacts DEF TypeOK
  <1> HIDE DEF rest
  <1>4. CASE At(c, "dropRow") \/ At(c, "forgetRow")
    <2>1. PICK pc \in {"dropTags", "dropFile"} :
            /\ files' = rest /\ disk' = disk /\ Goto(c, pc)
            /\ pc = "dropFile" => call[c].pc = "forgetRow"
            /\ pc = "dropTags" => call[c].pc = "dropRow"
      BY <1>4 DEF CheckFile, p_fileExist, At, rest
    <2>2. call'[c].pc = pc /\ call'[c].file = call[c].file
      BY <1>1, <2>1, GotoFacts DEF Place
    <2>3. call[c].pc = "forgetRow" => md5 = call[c].file.md5 /\ call[c].file # None
      BY DEF CallInv, Looking
    <2>4. call[c].pc = "dropRow" => \A p \in disk : p.md5 # md5
      <3>1. None \notin Md5s /\ \A p \in disk : p.md5 \in Md5s
        BY DBAssumption DEF TypeOK, Path
      <3> QED BY <3>1 DEF Kept, DropsTogether
    <2> HIDE DEF md5
    <2>5. \A m : Dropping(m) => Dropping(m)'
      BY <2>1, StillDropping
    <2>6. \A k \in Keys : files'[k] \in {files[k], None}
      BY <1>3, <2>1
    <2>7. Kept(c)'
      BY <1>3, <2>1, <2>2, <2>3
      DEF Kept, SavesTheFile, DropsTogether, RemovesAll, FilesWithMd5
    <2>8. RowsHaveFiles' /\ OneFile'
      BY <2>1, <2>5, <2>6 DEF RowsHaveFiles, OneFile
    <2>9. ASSUME NEW p \in disk
          PROVE  p \in PathsOnRecord' \/ \E d \in Callers : Holds(d, p)'
      <3>1. CASE p \in PathsOnRecord
        <4>1. PICK k \in Keys : files[k] # None /\ files[k].path = p
          BY <3>1, OnRecord
        <4>2. CASE files[k].md5 # md5
          <5>1. files'[k] = files[k]
            BY <1>3, <2>1, <4>2
          <5> QED BY <4>1, <5>1 DEF PathsOnRecord
        <4>3. CASE files[k].md5 = md5
          <5>1. p.md5 = md5
            BY <4>1, <4>3, RowFacts
          <5>2. call[c].pc = "forgetRow" /\ pc = "dropFile"
            BY <2>1, <2>4, <2>9, <5>1
          <5>3. PICK j \in Keys : files[j] = call[c].file
            BY <2>3, <5>2 DEF Kept, DropsTogether
          <5>4. p = call[c].file.path
            BY <2>3, <2>9, <5>1, <5>2, <5>3 DEF OneFile
          <5>5. Holds(c, p)'
            BY <2>2, <2>3, <5>2, <5>4 DEF Holds
          <5> QED BY <5>5
        <4> QED BY <4>2, <4>3
      <3>2. ASSUME NEW d \in Callers, Holds(d, p)
            PROVE  Holds(d, p)'
        <4>1. d # c
          BY <1>4, <3>2 DEF At, Holds
        <4> QED BY <3>2, <4>1, StillHeld
      <3> QED BY <2>9, <3>1, <3>2 DEF FilesHaveRows
    <2> QED BY <2>1, <2>7, <2>8, <2>9 DEF KeptAfter, FilesHaveRows
  <1>5. CASE At(c, "dropFile")
    <2>1. /\ call[c].pc = "dropFile"
          /\ End(c) /\ files' = files /\ disk' = disk \ {call[c].file.path}
      BY <1>5 DEF CheckFile, p_fileExist, At
    <2>2. call'[c].pc = "idle"
      BY <1>1, <2>1, EndFacts
    <2>3. \A k \in Keys : files[k] # None => files[k].path # call[c].file.path
      BY <2>1 DEF CallInv, Looking, Kept, DropsTogether, FilesWithMd5, RowsNameContent
    <2>4. RowsHaveFiles' /\ OneFile'
      BY <2>1, <2>3, StillDropping DEF RowsHaveFiles, OneFile
    <2>5. FilesHaveRows'
      <3>1. PathsOnRecord' = PathsOnRecord
        BY <2>1 DEF PathsOnRecord
      <3>2. \A p \in disk' : ~Holds(c, p)
        BY <2>1 DEF Holds
      <3> QED BY <2>1, <3>1, <3>2, StillHeld DEF FilesHaveRows
    <2> QED BY <2>2, <2>4, <2>5 DEF KeptAfter, Kept, SavesTheFile, DropsTogether, RemovesAll
  <1> QED BY <1>4, <1>5, LookKept DEF CheckFile, p_fileExist

LEMMA CleanupKept ==
    ASSUME NEW c \in Callers, KeepingStep(c), p_deleteNoTagFile(c)
    PROVE  KeptAfter(c)
  <1> USE DEF KeepingStep, StoreInv
  <1>1. call \in [Callers -> CallState] /\ "deleted" \in Place
    BY DEF TypeOK, Place
  <1>2. CASE call[c].pc = "query" /\ Queries(c) /\ UNCHANGED <<files, disk>>
    <2>1. /\ call'[c].pc = "removeFiles" /\ call'[c].left = call'[c].rows
          /\ call'[c].rows = {files[k] : k \in lc_getNoTagFile(files, tags)}
      BY <1>2, QueryFacts
    <2>2. RowsHaveFiles' /\ FilesHaveRows' /\ OneFile'
      BY <1>2, StillDropping, SameStore
    <2>3. \A r \in call'[c].rows : \E k \in Keys : files[k] # None /\ r = files[k]
      BY <2>1 DEF lc_getNoTagFile
    <2>4. RemovesAll(c)'
      BY <1>2, <2>1, <2>3 DEF RemovesAll, OneFile
    <2> QED BY <2>1, <2>2, <2>4 DEF KeptAfter, Kept, SavesTheFile, DropsTogether
  <1>3. ASSUME NEW row \in call[c].left, call[c].pc = "removeFiles",
               disk' = disk \ {row.path}, UNCHANGED files,
               call' = [call EXCEPT ![c].left = @ \ {row}]
        PROVE  KeptAfter(c)
    <2>1. /\ call'[c].pc = "removeFiles" /\ call'[c].rows = call[c].rows
          /\ call'[c].left = call[c].left \ {row}
      BY <1>3, RemoveFacts
    <2>2. row \in call[c].rows /\ row.path.md5 = row.md5
      BY <1>3 DEF CallInv, Cleaning
    <2>3. \A m : Dropping(m) => Dropping(m)'
      BY <2>1, StillDropping
    <2>4. Dropping(row.md5)'
      BY <2>1, <2>2 DEF Dropping
    <2>5. RowsHaveFiles'
      BY <1>3, <2>2, <2>3, <2>4 DEF RowsHaveFiles, RowsNameContent
    <2>6. OneFile'
      BY <1>3 DEF OneFile
    <2>7. FilesHaveRows'
      <3>1. PathsOnRecord' = PathsOnRecord
        BY <1>3 DEF PathsOnRecord
      <3>2. \A p \in disk : ~Holds(c, p)
        BY <1>3 DEF Holds
      <3> QED BY <1>3, <3>1, <3>2, StillHeld DEF FilesHaveRows
    <2>8. RemovesAll(c)'
      <3> SUFFICES ASSUME NEW r \in call[c].rows, NEW p \in disk', p.md5 = r.md5
                   PROVE  \E l \in call'[c].left : l.path = p
        BY <2>1 DEF RemovesAll
      <3>1. PICK l \in call[c].left : l.path = p
        BY <1>3 DEF Kept, RemovesAll
      <3>2. l # row
        BY <1>3, <3>1
      <3> QED BY <2>1, <3>1, <3>2
    <2> QED BY <2>1, <2>5, <2>6, <2>7, <2>8 DEF KeptAfter, Kept, SavesTheFile, DropsTogether
  <1>4. CASE /\ call[c].pc = "removeFiles" /\ call[c].left = {}
             /\ files' = RowsAfterCleanup(c) /\ Goto(c, "deleted") /\ UNCHANGED disk
    <2>1. call'[c].pc = "deleted"
      BY <1>1, <1>4, GotoFacts
    <2>2. /\ \A k \in Keys : files'[k] \in {files[k], None}
          /\ \A k \in Keys : files'[k] # None =>
                 \A r \in call[c].rows : r.md5 # files[k].md5
          /\ \A k \in Keys : files[k] # None /\ files'[k] = None =>
                 \E r \in call[c].rows : r.md5 = files[k].md5
      BY <1>4, CleanedUp
    <2>3. ASSUME NEW k \in Keys, files'[k] # None, NEW m, m = files[k].md5, Dropping(m)
          PROVE  Dropping(m)'
      <3>1. PICK d \in Callers :
                call[d].pc = "removeFiles" /\ \E r \in call[d].rows \ call[d].left : r.md5 = m
        BY <2>3 DEF Dropping
      <3>2. call'[d] = call[d]
        BY <2>2, <2>3, <3>1
      <3> QED BY <3>1, <3>2 DEF Dropping
    <2>4. RowsHaveFiles' /\ OneFile'
      BY <1>4, <2>2, <2>3 DEF RowsHaveFiles, OneFile
    <2>5. ASSUME NEW p \in disk
          PROVE  p \in PathsOnRecord' \/ \E d \in Callers : Holds(d, p)'
      <3>1. CASE p \in PathsOnRecord
        <4>1. PICK k \in Keys : files[k] # None /\ files[k].path = p
          BY <3>1, OnRecord
        <4>2. files'[k] # None
          <5> SUFFICES ASSUME files'[k] = None PROVE FALSE
            OBVIOUS
          <5>1. PICK r \in call[c].rows : r.md5 = files[k].md5
            BY <2>2, <4>1
          <5>2. p.md5 = r.md5
            BY <4>1, <5>1, RowFacts
          <5> QED BY <1>4, <2>5, <5>2 DEF Kept, RemovesAll
        <4>3. files'[k] = files[k]
          BY <2>2, <4>2
        <4> QED BY <4>1, <4>3 DEF PathsOnRecord
      <3>2. ~Holds(c, p)
        BY <1>4 DEF Holds
      <3> QED BY <2>5, <3>1, <3>2, StillHeld DEF FilesHaveRows
    <2> QED BY <1>4, <2>1, <2>4, <2>5
        DEF KeptAfter, FilesHaveRows, Kept, SavesTheFile, DropsTogether, RemovesAll
  <1> QED BY <1>2, <1>3, <1>4, CleanupSteps

(* The other steps leave rows and files alone and end outside of a save.    *)
LEMMA StillKept ==
    ASSUME NEW c \in Callers, KeepingStep(c), UNCHANGED <<files, disk>>,
           call[c].pc \notin {"removeFiles", "saveRow", "dropFile"},
           call'[c].pc \in {"idle", "find", "query"}
    PROVE  KeptAfter(c)
  <1>1. RowsHaveFiles' /\ FilesHaveRows' /\ OneFile'
    BY StillDropping, SameStore
  <1> QED BY <1>1 DEF KeptAfter, Kept, SavesTheFile, DropsTogether, RemovesAll

LEMMA CallerKept ==
    ASSUME NEW c \in Callers, KeepingStep(c), CallerStep(c)
    PROVE  KeptAfter(c)
  <1>1. TypeOK
    BY DEF KeepingStep, StoreInv
  <1>2. CASE SaveCall(c) \/ CheckFile(c) \/ p_deleteNoTagFile(c)
    BY <1>2, SaveKept, CheckKept, CleanupKept
  <1>3. ASSUME NEW rows \in SUBSET {k \in Keys : files[k] # None},
               Lookup(c, rows) \/ DeleteFound(c, rows)
        PROVE  KeptAfter(c)
    <2>1. PICK pc \in {"checkFile", "find"}, file \in OneOf(rows) : Reads(c, pc, file)
      BY <1>3 DEF Lookup, DeleteFound, Reads
    <2>2. pc \in Place
      BY DEF Place
    <2>3. /\ call'[c].pc = pc
          /\ call'[c].file # None => \E k \in Keys : call'[c].file = files[k]
      BY <1>1, <2>1, <2>2, FoundFacts
    <2>4. UNCHANGED <<files, disk>> /\ call[c].pc = "idle"
      BY <1>3 DEF Lookup, DeleteFound, At
    <2>5. RowsHaveFiles' /\ FilesHaveRows' /\ OneFile'
      BY <2>4, StillDropping, SameStore
    <2>6. DropsTogether(c)'
      BY <2>3, <2>4 DEF DropsTogether
    <2> QED BY <2>3, <2>5, <2>6 DEF KeptAfter, Kept, SavesTheFile, RemovesAll
  <1>4. CASE lc_getFile(c)
    BY <1>3, <1>4, QueriesMatch DEF lc_getFile
  <1>5. CASE DeleteCall(c)
    <2>1. CASE Goto(c, "query") /\ UNCHANGED <<files, disk>> /\ call[c].pc \in {"idle", "find"}
      <3>1. call'[c].pc = "query"
        BY <1>1, <2>1, GotoFacts DEF TypeOK, Place
      <3> QED BY <2>1, <3>1, StillKept
    <2> QED BY <1>3, <1>5, <2>1, QueriesMatch
        DEF DeleteCall, DeleteTagOfFound, lc_deleteFileInGroup, lc_deleteFileWithMd5, At
  <1>6. CASE Return(c) \/ AppTags(c)
    <2>1. /\ call'[c].pc = "idle" /\ UNCHANGED <<files, disk>>
          /\ call[c].pc \notin {"removeFiles", "saveRow", "dropFile"}
      BY <1>1, <1>6, EndFacts DEF Return, AppTags, AppSavesTag, At, TypeOK
    <2> QED BY <2>1, StillKept
  <1> QED BY <1>2, <1>4, <1>5, <1>6 DEF CallerStep

(* ... and the calls of the others keep theirs: either they are idle, or    *)
(* the step changed nothing.                                                *)
LEMMA OthersKept ==
    ASSUME NEW c \in Callers, KeepingStep(c), CallerStep(c),
           NEW d \in Callers, d # c, Kept(d)
    PROVE  Kept(d)'
  <1>1. call'[d] = call[d]
    BY DEF KeepingStep
  <1>2. CASE call[d].pc = "idle"
    BY <1>1, <1>2 DEF Kept, SavesTheFile, DropsTogether, RemovesAll
  <1>3. CASE UNCHANGED <<files, tags, disk>>
    <2>1. ASSUME NEW md5, Dropping(md5), FilesWithMd5(files, md5) # {}
          PROVE  Dropping(md5)'
      <3>1. CASE call[c].pc # "removeFiles"
        BY <2>1, <3>1, StillDropping
      <3>2. CASE call[c].pc = "removeFiles"
        <4>1. p_deleteNoTagFile(c)
          BY <3>2 DEF CallerStep, SaveCall, lc_saveFileFrom, p_copyFile, SaveRow, SaveTag,
                      lc_getFile, Lookup, CheckFile, p_fileExist, DeleteCall, DeleteFound,
                      DeleteTagOfFound, lc_deleteFileInGroup, lc_deleteFileWithMd5, Return,
                      AppTags, AppSavesTag, At
        <4>2. CASE \E row \in call[c].left : call' = [call EXCEPT ![c].left = @ \ {row}]
          <5>1. /\ call'[c].pc = "removeFiles" /\ call'[c].rows = call[c].rows
                /\ call'[c].left \subseteq call[c].left
            BY <3>2, <4>2, RemoveFacts DEF KeepingStep, StoreInv
          <5> QED BY <2>1, <5>1, StillDropping
        <4>3. CASE files' = RowsAfterCleanup(c)
          <5>1. PICK k \in Keys : files[k] # None /\ files[k].md5 = md5
            BY <2>1 DEF FilesWithMd5
          <5>2. RowsAfterCleanup(c)[k] # None => \A r \in call[c].rows : r.md5 # files[k].md5
            BY <5>1, CleanedUp DEF KeepingStep, StoreInv
          <5>3. \A r \in call[c].rows : r.md5 # md5
            BY <1>3, <4>3, <5>1, <5>2
          <5>4. PICK e \in Callers :
                  call[e].pc = "removeFiles" /\ \E r \in call[e].rows \ call[e].left : r.md5 = md5
            BY <2>1 DEF Dropping
          <5>5. call'[e] = call[e]
            BY <5>3, <5>4 DEF KeepingStep
          <5> QED BY <5>4, <5>5 DEF Dropping
        <4> QED BY <3>2, <4>1, <4>2, <4>3, CleanupSteps
      <3> QED BY <3>1, <3>2
    <2>2. SavesTheFile(d)'
      BY <1>1, <1>3, <2>1 DEF Kept, SavesTheFile
    <2> QED BY <1>1, <1>3, <2>2 DEF Kept, DropsTogether, RemovesAll
  <1> QED BY <1>2, <1>3 DEF KeepingStep

LEMMA NextKept ==
    ASSUME KeptInv, [NextCalls]_callsVars
    PROVE  KeptInv'
  <1> USE DEF KeptInv
  <1>1. StoreInv'
    BY NextStore
  <1>2. torn' \in BOOLEAN /\ mixed' \in BOOLEAN /\ reused' \in BOOLEAN
    BY DEF NextCalls, Remember, callsVars, memory
  <1> SUFFICES ASSUME ~torn', ~mixed', ~reused'
               PROVE  RowsHaveFiles' /\ FilesHaveRows' /\ OneFile' /\ \A c \in Callers : Kept(c)'
    BY <1>1, <1>2
  <1>3. ASSUME NEW c \in Callers, CallerStep(c), Remember(c)
        PROVE  RowsHaveFiles' /\ FilesHaveRows' /\ OneFile' /\ \A d \in Callers : Kept(d)'
    <2>1. \A d \in Callers : d # c => call'[d] = call[d]
      BY <1>3, CallerFrame DEF StoreInv, TypeInv
    <2>2. ~torn /\ ~mixed /\ ~reused /\ ~GivesAnotherContent
      BY <1>3 DEF Remember
    <2>3. UNCHANGED <<files, tags, disk>> \/ \A d \in Callers : d # c => call[d].pc = "idle"
      BY <1>3, <2>1, OthersMemory
    <2>4. KeepingStep(c)
      BY <1>1, <2>1, <2>2, <2>3 DEF KeepingStep, StoreInv, TypeOK
    <2>5. KeptAfter(c)
      BY <1>3, <2>4, CallerKept
    <2>6. \A d \in Callers : d # c => Kept(d)'
      BY <1>3, <2>2, <2>4, OthersKept
    <2> QED BY <2>5, <2>6 DEF KeptAfter
  <1>4. CASE \/ (Midnight \/ \E md5 \in Md5s : AppWritesFile(md5)) /\ UNCHANGED memory
             \/ UNCHANGED callsVars
    <2>1. UNCHANGED <<files, disk, call, torn, mixed, reused>>
      BY <1>4 DEF AppWritesFile, Midnight, callsVars, storeVars, memory
    <2> QED BY <2>1 DEF RowsHaveFiles, FilesHaveRows, OneFile, Kept, DropsTogether,
                        SavesTheFile, RemovesAll, Dropping, Holds, PathsOnRecord, FilesWithMd5
  <1>5. CASE /\ Restart /\ UNCHANGED <<mixed, reused>>
             /\ torn' = (torn \/ PathsOnRecord' # disk')
    <2>1. files' = files /\ \A c \in Callers : call'[c].pc = "idle"
      BY <1>5, NoCallType DEF Restart
    <2>2. ~torn /\ ~mixed /\ ~reused /\ PathsOnRecord' = disk'
      BY <1>5
    <2>3. \A k \in Keys : files[k] # None => files[k].path \in disk'
      BY <2>1, <2>2 DEF PathsOnRecord
    <2>4. \A p \in disk' : \E k \in Keys : files[k] # None /\ files[k].path = p
      BY <2>1, <2>2 DEF PathsOnRecord
    <2>5. \A p \in disk' : \E k \in Keys :
              files[k] # None /\ files[k].path = p /\ files[k].md5 = p.md5
      BY <2>4, RowFacts
    <2>6. \A j, k \in Keys : files[j] # None /\ files[k] # None /\ files[j].md5 = files[k].md5
              => files[j].path = files[k].path
      BY <2>2 DEF OneFile
    <2>7. OneFile'
      BY <2>1, <2>5, <2>6 DEF OneFile
    <2>8. RowsHaveFiles' /\ FilesHaveRows'
      BY <2>1, <2>2, <2>3 DEF RowsHaveFiles, FilesHaveRows
    <2> QED BY <2>1, <2>7, <2>8 DEF Kept, DropsTogether, SavesTheFile, RemovesAll
  <1> QED BY <1>3, <1>4, <1>5 DEF NextCalls

(* As long as tables and disk go together, no key is given another content  *)
(* and calls are not mixed, a content is on the disk once and all its rows  *)
(* lead there: p_copyFile finds the file, whatever row it looks at.  The    *)
(* kills that leave no row without its file and no file without a row, and  *)
(* the saves that fail, are included.                                       *)
THEOREM ContentIsKeptOnce == SpecCalls => []OneCopyPerContent
  <1>1. InitCalls => KeptInv
    <2> SUFFICES ASSUME InitCalls PROVE KeptInv
      OBVIOUS
    <2>1. /\ StoreInv /\ torn = FALSE /\ mixed = FALSE /\ reused = FALSE
          /\ disk = {} /\ \A k \in Keys : files[k] = None
      BY InitStore DEF InitCalls, Init
    <2>2. \A c \in Callers : call[c].pc = "idle"
      BY NoCallType DEF InitCalls, Init
    <2> QED BY <2>1, <2>2
        DEF KeptInv, RowsHaveFiles, FilesHaveRows, OneFile, Kept, DropsTogether, SavesTheFile,
            RemovesAll
  <1>2. KeptInv /\ [NextCalls]_callsVars => KeptInv'
    BY NextKept
  <1>3. KeptInv => OneCopyPerContent
    <2> SUFFICES ASSUME OneFile, NEW md5 \in Md5s, NEW p \in Copies(md5), NEW q \in Copies(md5)
                 PROVE  p = q
      BY DEF KeptInv, OneCopyPerContent
    <2>1. \A x \in Copies(md5) :
            \/ x \in disk /\ x.md5 = md5
            \/ \E k \in Keys : files[k] # None /\ files[k].md5 = md5 /\ x = files[k].path
      BY DEF Copies, FilesWithMd5
    <2> QED BY <2>1 DEF OneFile
  <1> QED BY <1>1, <1>2, <1>3, PTL DEF SpecCalls
=============================================================================
