---------------------------- MODULE MCStoreCalls ----------------------------
(* StoreCalls for TLC: threads are interchangeable, and so are contents.    *)
EXTENDS StoreCalls, FiniteSets, TLC

Symmetry == Permutations(Callers) \cup Permutations(Md5s)

ContentsAbout ==
    sources \cup {path.md5 : path \in disk}
    \cup {files[k].md5 : k \in {i \in Keys : files[i] # None}}
    \cup {tags[g].md5 : g \in {i \in Tags : tags[i] # None}}

(* The bounds: with more contents than one about, or in a new container,    *)
(* one thread at a time uses the store, and there it stores one content.    *)
(* Calls overlap in the first container with one content about, if no key   *)
(* was given two.  A second day comes if no launch found a tear, or with    *)
(* one thread and one content.                                              *)
FirstContainer == \A root \in Roots : rootDir <= root
FirstDay == \A day \in Days : today <= day
OneContent == Cardinality(ContentsAbout) <= 1
OneThread == Cardinality(InCall) <= 1 /\ ~mixed
OverlapBound ==
    \/ OneThread /\ OneContent
    \/ FirstContainer /\ (FirstDay \/ ~torn) /\ (OneThread \/ (OneContent /\ ~reused))
=============================================================================
