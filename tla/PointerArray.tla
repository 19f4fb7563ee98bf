---------------------------- MODULE PointerArray ----------------------------
(***************************************************************************)
(* An NSPointerArray of weak pointers, as the sequence of the objects it    *)
(* points to: what is left of it when some of them are gone.                *)
(***************************************************************************)
EXTENDS Sequences, Naturals

(* The members of s that are in objs, in order: SelectSeq for membership,   *)
(* as a function of the length so that it can be reasoned about.            *)
Only(objs, s) ==
    LET kept[i \in 0..Len(s)] ==
            IF i = 0 THEN << >>
            ELSE IF s[i] \in objs THEN Append(kept[i - 1], s[i]) ELSE kept[i - 1]
    IN  kept[Len(s)]
=============================================================================
