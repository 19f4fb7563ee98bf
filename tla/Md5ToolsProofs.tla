--------------------------- MODULE Md5ToolsProofs ---------------------------
(* Proofs about Md5Tools, for every byte alphabet, chunk and length.        *)
EXTENDS Md5Tools, SequenceTheorems, TLAPS

(* What was hashed is the beginning of the file: the file only grows, and   *)
(* every read goes on where the last one stopped.                           *)
IsPrefixOf(s, t) == Len(s) <= Len(t) /\ \A i \in 1..Len(s) : s[i] = t[i]
HashedIsPrefix == IsPrefixOf(hashed, file)

(* While a call reads, the file is one of the contents it has had; once the *)
(* loop was left, so is what was hashed.                                    *)
HeldHolds ==
    /\ reader # "idle" => file \in held
    /\ done => reader # "idle" /\ hashed \in held

ReadingInv == TypeOK /\ HashedIsPrefix /\ HeldHolds

LEMMA EmptyIsPrefix ==
    ASSUME NEW S, NEW t \in Seq(S)
    PROVE  << >> \in Seq(S) /\ IsPrefixOf(<< >>, t)
  BY EmptySeq, LenProperties DEF IsPrefixOf

LEMMA PrefixOfConcat ==
    ASSUME NEW S, NEW s \in Seq(S), NEW t \in Seq(S), NEW e \in Seq(S), IsPrefixOf(s, t)
    PROVE  /\ t \o e \in Seq(S) /\ Len(t \o e) = Len(t) + Len(e)
           /\ IsPrefixOf(s, t \o e)
  <1> DEFINE u == t \o e
  <1>1. /\ u \in Seq(S) /\ Len(u) = Len(t) + Len(e)
        /\ \A i \in 1..(Len(t) + Len(e)) : u[i] = IF i <= Len(t) THEN t[i] ELSE e[i - Len(t)]
        /\ Len(s) \in Nat /\ Len(t) \in Nat /\ Len(e) \in Nat
    BY ConcatProperties, LenProperties
  <1> HIDE DEF u
  <1>2. \A i \in 1..Len(s) : i \in 1..(Len(t) + Len(e)) /\ i <= Len(t) /\ i \in 1..Len(t)
    BY <1>1 DEF IsPrefixOf
  <1> QED BY <1>1, <1>2 DEF IsPrefixOf, u

(* A prefix of t, joined with the n elements of t that follow it.           *)
LEMMA PrefixGrows ==
    ASSUME NEW S, NEW s \in Seq(S), NEW t \in Seq(S), NEW n \in Nat,
           IsPrefixOf(s, t), Len(s) + n <= Len(t)
    PROVE  LET u == s \o SubSeq(t, Len(s) + 1, Len(s) + n)
           IN  u \in Seq(S) /\ IsPrefixOf(u, t)
  <1> DEFINE k == Len(s)
             piece == SubSeq(t, k + 1, k + n)
             u == s \o piece
  <1>1. k \in Nat /\ Len(t) \in Nat
    BY LenProperties
  <1>2. \A i \in (k + 1)..(k + n) : t[i] \in S
    <2>1. (k + 1)..(k + n) \subseteq 1..Len(t)
      BY <1>1
    <2> QED BY <2>1, ElementOfSeq
  <1>3. /\ piece \in Seq(S)
        /\ Len(piece) = IF k + 1 <= k + n THEN (k + n) - (k + 1) + 1 ELSE 0
        /\ \A i \in 1..((k + n) - (k + 1) + 1) : piece[i] = t[(k + 1) + i - 1]
    <2> HIDE DEF k
    <2> QED BY <1>1, <1>2, SubSeqProperties
  <1>4. Len(piece) = n /\ \A i \in 1..n : piece[i] = t[k + i]
    <2> HIDE DEF k, piece
    <2> QED BY <1>1, <1>3
  <1>5. /\ u \in Seq(S) /\ Len(u) = k + n
        /\ \A i \in 1..(k + n) : u[i] = IF i <= k THEN s[i] ELSE piece[i - k]
    <2> HIDE DEF piece
    <2> QED BY <1>3, <1>4, ConcatProperties
  <1>6. ASSUME NEW i \in 1..(k + n) PROVE u[i] = t[i]
    <2>1. CASE i <= k
      <3> HIDE DEF u
      <3> QED BY <1>1, <1>5, <2>1 DEF IsPrefixOf
    <2>2. CASE i > k
      <3>1. i - k \in 1..n /\ k + (i - k) = i /\ ~(i <= k)
        BY <1>1, <2>2
      <3>2. u[i] = piece[i - k]
        BY <1>5, <3>1
      <3>3. piece[i - k] = t[k + (i - k)]
        <4> HIDE DEF k, piece
        <4> QED BY <1>4, <3>1
      <3> QED BY <3>1, <3>2, <3>3
    <2> QED BY <1>1, <2>1, <2>2
  <1>7. u \in Seq(S) /\ IsPrefixOf(u, t)
    <2> HIDE DEF u
    <2> QED BY <1>5, <1>6 DEF IsPrefixOf
  <1> QED BY <1>7

(* A prefix as long as the whole is the whole.                              *)
LEMMA PrefixOfSameLength ==
    ASSUME NEW S, NEW s \in Seq(S), NEW t \in Seq(S), IsPrefixOf(s, t), Len(s) = Len(t)
    PROVE  s = t
  BY SeqEqual DEF IsPrefixOf

-----------------------------------------------------------------------------
LEMMA InitReading == Init => ReadingInv
  <1> SUFFICES ASSUME Init PROVE ReadingInv
    OBVIOUS
  <1>1. << >> \in Seq(Byte) /\ Len(<< >>) = 0 /\ IsPrefixOf(<< >>, << >>)
    BY EmptySeq, EmptyIsPrefix
  <1>2. 0 <= MaxLen
    BY SizeAssumption
  <1> QED BY <1>1, <1>2
       DEF Init, ReadingInv, TypeOK, Result, HashedIsPrefix, HeldHolds, Failure

(* Every answer leaves nothing hashed.                                      *)
LEMMA AnswerReading ==
    ASSUME ReadingInv, NEW r \in Result, Answer(r), file' = file
    PROVE  ReadingInv'
  <1>1. << >> \in Seq(Byte) /\ IsPrefixOf(<< >>, file)
    BY EmptyIsPrefix DEF ReadingInv, TypeOK
  <1> QED BY <1>1 DEF Answer, ReadingInv, TypeOK, HashedIsPrefix, HeldHolds

LEMMA FailureIsResult ==
    ASSUME NEW kind \in {"ERROR GETTING FILE MD5", "NULL", "exception"}
    PROVE  Failure(kind) \in Result
  BY EmptySeq DEF Failure, Result

LEMMA NextReading == ReadingInv /\ [Next]_md5Vars => ReadingInv'
  <1> SUFFICES ASSUME ReadingInv, [Next]_md5Vars PROVE ReadingInv'
    OBVIOUS
  <1>1. ASSUME NEW f \in {"fileMD5WithPath", "getFileMD5WithPath"}, Open(f)
        PROVE  ReadingInv'
    <2>1. << >> \in Seq(Byte) /\ IsPrefixOf(<< >>, file)
      BY EmptyIsPrefix DEF ReadingInv, TypeOK
    <2>2. ~done
      BY <1>1 DEF Open, ReadingInv, HeldHolds, TypeOK
    <2> QED BY <1>1, <2>1, <2>2 DEF Open, ReadingInv, TypeOK, HashedIsPrefix, HeldHolds
  <1>2. ASSUME NEW f \in {"fileMD5WithPath", "getFileMD5WithPath"}, OpenFails(f)
        PROVE  ReadingInv'
    BY <1>2, AnswerReading, FailureIsResult DEF OpenFails
  <1>3. ASSUME NEW n \in 1..Chunk, ReadSome(n) PROVE ReadingInv'
    <2>1. /\ n \in Nat /\ file' = file /\ reader' = reader /\ result' = result
          /\ ~done /\ done' = done /\ held' = held
      BY <1>3, SizeAssumption DEF ReadSome
    <2>2. hashed' \in Seq(Byte) /\ IsPrefixOf(hashed', file)
      BY <1>3, <2>1, PrefixGrows DEF ReadSome, ReadingInv, TypeOK, HashedIsPrefix
    <2> QED BY <2>1, <2>2 DEF ReadingInv, TypeOK, HashedIsPrefix, HeldHolds
  <1>4. CASE ReadNothing
    <2>1. hashed = file
      BY <1>4, PrefixOfSameLength DEF ReadNothing, ReadingInv, TypeOK, HashedIsPrefix
    <2> QED BY <1>4, <2>1 DEF ReadNothing, ReadingInv, TypeOK, HashedIsPrefix, HeldHolds
  <1>5. CASE ReadFails
    BY <1>5, AnswerReading, FailureIsResult DEF ReadFails
  <1>6. CASE Return
    <2>1. Digest(hashed) \in Result
      BY DEF Digest, Result, ReadingInv, TypeOK
    <2> QED BY <1>6, <2>1, AnswerReading DEF Return
  <1>7. ASSUME NEW n \in 1..MaxWrite, NEW bs \in [1..n -> Byte], Grow(bs) PROVE ReadingInv'
    <2>1. bs \in Seq(Byte)
      <3>1. n \in Nat
        BY SizeAssumption
      <3> QED BY <3>1, SeqDef
    <2>2. /\ file' \in Seq(Byte) /\ Len(file') = Len(file) + Len(bs)
          /\ IsPrefixOf(hashed, file')
      BY <1>7, <2>1, PrefixOfConcat DEF Grow, ReadingInv, TypeOK, HashedIsPrefix
    <2>3. Len(file') <= MaxLen
      BY <1>7, <2>2 DEF Grow
    <2>4. held' = IF reader = "idle" THEN held ELSE held \cup {file'}
      BY <1>7 DEF Grow
    <2>5. hashed' = hashed /\ reader' = reader /\ done' = done /\ result' = result
      BY <1>7 DEF Grow
    <2> QED BY <2>2, <2>3, <2>4, <2>5 DEF ReadingInv, TypeOK, HashedIsPrefix, HeldHolds
  <1>8. CASE UNCHANGED md5Vars
    BY <1>8 DEF md5Vars, ReadingInv, TypeOK, HashedIsPrefix, HeldHolds
  <1> QED BY <1>1, <1>2, <1>3, <1>4, <1>5, <1>6, <1>7, <1>8 DEF Next, Read

(* What was hashed is the beginning of the file, in every reachable state.  *)
THEOREM ReadingHolds == Spec => []ReadingInv
  BY InitReading, NextReading, PTL DEF Spec

(* A step that answers with a digest answers with that of a content the     *)
(* file has had.                                                            *)
LEMMA DigestStep ==
    ASSUME ReadingInv, [Next]_md5Vars,
           reader # "idle", reader' = "idle", result'.kind = "digest"
    PROVE  result'.bytes \in held
  <1>1. CASE Return
    BY <1>1 DEF Return, Answer, Digest, ReadingInv, HeldHolds
  <1>2. CASE ReadFails
    BY <1>2 DEF ReadFails, Answer, Failure
  <1>3. ~\E f \in {"fileMD5WithPath", "getFileMD5WithPath"} : Open(f) \/ OpenFails(f)
    BY DEF Open, OpenFails
  <1>4. reader' # reader
    OBVIOUS
  <1> QED BY <1>1, <1>2, <1>3, <1>4 DEF Next, Read, ReadSome, ReadNothing, Grow, md5Vars

(* A digest that fileMD5WithPath or getFileMD5WithPath returns is that of   *)
(* the whole file as it was at some moment of the call: of no piece of it   *)
(* and of no half write, however the reads were cut and whichever failed.   *)
THEOREM DigestIsThatOfTheFile == Spec => DigestIsContent
  <1>1. ReadingInv /\ [Next]_md5Vars =>
            [reader # "idle" /\ reader' = "idle" /\ result'.kind = "digest"
                => result'.bytes \in held]_md5Vars
    BY DigestStep
  <1> QED BY <1>1, ReadingHolds, PTL DEF Spec, DigestIsContent
=============================================================================
