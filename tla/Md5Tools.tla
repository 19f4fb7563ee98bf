------------------------------ MODULE Md5Tools ------------------------------
(***************************************************************************)
(* Md5Tools.m: the digest of a file, read piece by piece.  The file may     *)
(* grow while it is read (a transfer or the app appends to it), by one      *)
(* write at a time; a read may return less than was asked for, and may fail.*)
(*                                                                          *)
(* CommonCrypto's digest of some bytes is modelled as those bytes: equal    *)
(* digests of different contents are left out.                              *)
(***************************************************************************)
EXTENDS Naturals, Sequences

CONSTANTS
    Byte,      \* byte values
    Chunk,     \* bytes asked for in one read (1 << 21, 1024 * 8)
    MaxWrite,  \* bound on the length of one write to the file
    MaxLen     \* bound on the length of the file

ASSUME SizeAssumption == Chunk \in Nat \ {0} /\ MaxWrite \in Nat /\ MaxLen \in Nat

VARIABLES
    file,      \* the content of the file
    reader,    \* the function that is reading, or "idle"
    hashed,    \* the bytes given to CC_MD5_Update so far
    done,      \* a read has returned nothing: done, or ~hasMoreData
    result,    \* what the last call returned
    held       \* ghost: the contents the file has had since the call opened it

md5Vars == <<file, reader, hashed, done, result, held>>

(* What a call returns: a digest, or what stands for a failure.             *)
Digest(bytes) == [kind |-> "digest", bytes |-> bytes]
Failure(kind) == [kind |-> kind, bytes |-> << >>]
Result == [kind : {"none", "digest", "ERROR GETTING FILE MD5", "NULL", "exception"},
           bytes : Seq(Byte)]

TypeOK ==
    /\ file \in Seq(Byte) /\ Len(file) <= MaxLen
    /\ reader \in {"idle", "fileMD5WithPath", "getFileMD5WithPath"}
    /\ hashed \in Seq(Byte)
    /\ done \in BOOLEAN
    /\ result \in Result
    /\ held \subseteq Seq(Byte)

Init ==
    /\ file = << >>
    /\ reader = "idle"
    /\ hashed = << >>
    /\ done = FALSE
    /\ result = Failure("none")
    /\ held = {}

(* The call ends with r. *)
Answer(r) ==
    /\ reader' = "idle" /\ hashed' = << >> /\ done' = FALSE
    /\ result' = r
    /\ held' = {}

(* A call that cannot open the file ends at once, ... *)
OpenFails(f) ==
    /\ reader = "idle"
    /\ Answer(Failure(IF f = "fileMD5WithPath" THEN "ERROR GETTING FILE MD5" ELSE "NULL"))
    /\ UNCHANGED file

(* ... else it reads from the beginning, ... *)
Open(f) ==
    /\ reader = "idle"
    /\ reader' = f /\ hashed' = << >>
    /\ held' = {file}
    /\ UNCHANGED <<file, done, result>>

(* ... some bytes at a time, at most Chunk, ... *)
ReadSome(n) ==
    /\ reader # "idle" /\ ~done
    /\ n <= Chunk /\ Len(hashed) + n <= Len(file)
    /\ hashed' = hashed \o SubSeq(file, Len(hashed) + 1, Len(hashed) + n)
    /\ UNCHANGED <<file, reader, done, result, held>>

(* Mutant: a read that returns nothing is tried again. *)
ReadNothing_Again ==
    /\ reader # "idle" /\ ~done
    /\ Len(hashed) = Len(file)
    /\ UNCHANGED md5Vars

(* ... until a read returns nothing: the loop is left. *)
ReadNothing ==
    /\ reader # "idle" /\ ~done
    /\ Len(hashed) = Len(file)
    /\ done' = TRUE
    /\ UNCHANGED <<file, reader, hashed, result, held>>

(* Mutant: didSucceed is not looked at. *)
ReadFails_Ignored ==
    /\ reader # "idle" /\ ~done
    /\ Answer(IF reader = "fileMD5WithPath" THEN Failure("exception") ELSE Digest(hashed))
    /\ UNCHANGED file

(* A failed read: readDataOfLength raises, CFReadStreamRead returns -1.     *)
ReadFails ==
    /\ reader # "idle" /\ ~done
    /\ Answer(Failure(IF reader = "fileMD5WithPath" THEN "exception" ELSE "NULL"))
    /\ UNCHANGED file

(* The digest is computed and returned; the file may have grown since the   *)
(* last read.                                                               *)
Return ==
    /\ reader # "idle" /\ done
    /\ Answer(Digest(hashed))
    /\ UNCHANGED file

(* The writer of the file appends bs. *)
Grow(bs) ==
    /\ Len(file) + Len(bs) <= MaxLen
    /\ file' = file \o bs
    /\ held' = IF reader = "idle" THEN held ELSE held \cup {file'}
    /\ UNCHANGED <<reader, hashed, done, result>>

Read == (\E n \in 1..Chunk : ReadSome(n)) \/ ReadNothing \/ Return

Next ==
    \/ \E f \in {"fileMD5WithPath", "getFileMD5WithPath"} : Open(f) \/ OpenFails(f)
    \/ Read
    \/ ReadFails
    \/ \E n \in 1..MaxWrite : \E bs \in [1..n -> Byte] : Grow(bs)

Spec == Init /\ [][Next]_md5Vars

(* The reading thread runs; nothing obliges a read to fail. *)
FairSpec == Spec /\ WF_md5Vars(Read)

-----------------------------------------------------------------------------
(* A digest that is returned is that of the whole file as it was at some    *)
(* moment of the call, with every write in it whole: of no piece of it,     *)
(* however the reads were cut, wherever the file grew between them, and     *)
(* whether or not a read failed.  It need not be the file at the return,    *)
(* which may have grown since the read that found nothing.                  *)
DigestIsContent ==
    [][reader # "idle" /\ reader' = "idle" /\ result'.kind = "digest"
        => result'.bytes \in held]_md5Vars

(* A digest that was begun comes to an end, if the writer stops some time   *)
(* (here at MaxLen): the loops leave on the end of the file, and on a       *)
(* failed read.  While a file grows faster than it is read they do not.     *)
DigestReturns == reader # "idle" ~> reader = "idle"
=============================================================================
