------------------------ MODULE ProtocolFinderProofs ------------------------
(* Proof that the finder behind its serial queue implements the abstract    *)
(* registry of observers, for every number of objects, protocols, threads   *)
(* and waiting blocks.  What it needs about arrays and about blocks that    *)
(* wait is proved by induction on sequences, from the least-number          *)
(* principle.                                                               *)
EXTENDS ProtocolFinder, SequenceTheorems, WellFoundedInduction, TLAPS

(* Induction.  Sets stand for the properties that are proved by it.         *)
LEMMA LeastNumber ==
    ASSUME NEW T, T \subseteq Nat, T # {}
    PROVE  \E n \in T : \A m \in T : n <= m
  <1>1. IsWellFoundedOn(OpToRel(<, Nat), Nat)
    BY NatLessThanWellFounded, Zenon
  <1>2. PICK n \in T : \A m \in T : ~(<<m, n>> \in OpToRel(<, Nat))
    BY <1>1, WFMin, Zenon
  <1>3. \A m \in T : ~(m < n)
    BY <1>2 DEF OpToRel
  <1> QED BY <1>3

LEMMA Induction ==
    ASSUME NEW P, 0 \in P, \A n \in Nat : n \in P => n + 1 \in P
    PROVE  Nat \subseteq P
  <1> DEFINE T == {n \in Nat : n \notin P}
  <1>1. CASE T # {}
    <2> HIDE DEF T
    <2>1. PICK n \in T : \A m \in T : n <= m
      BY <1>1, LeastNumber DEF T
    <2>2. n \in Nat /\ n # 0
      BY DEF T
    <2>3. n - 1 \in P
      BY <2>1, <2>2 DEF T
    <2> QED BY <2>2, <2>3 DEF T
  <1>2. CASE T = {}
    BY <1>2
  <1> QED BY <1>1, <1>2

LEMMA SequenceInduction ==
    ASSUME NEW X, NEW P, << >> \in P,
           \A s \in Seq(X), x \in X : s \in P => Append(s, x) \in P
    PROVE  Seq(X) \subseteq P
  <1> DEFINE N == {n \in Nat : \A s \in Seq(X) : Len(s) = n => s \in P}
  <1>1. 0 \in N
    BY EmptySeq
  <1>2. ASSUME NEW n \in Nat, n \in N
        PROVE  n + 1 \in N
    <2>1. ASSUME NEW s \in Seq(X), Len(s) = n + 1
          PROVE  s \in P
      <3>1. s # << >>
        BY <2>1, EmptySeq
      <3>2. PICK r \in Seq(X), x \in X : s = Append(r, x)
        BY <3>1, SequenceEmptyOrAppend
      <3>3. Len(r) \in Nat /\ Len(s) = Len(r) + 1
        BY <3>2, AppendProperties, LenProperties
      <3>4. r \in P
        BY <1>2, <2>1, <3>3
      <3> QED BY <3>2, <3>4
    <2> QED BY <2>1
  <1>3. Nat \subseteq N
    <2> HIDE DEF N
    <2> QED BY <1>1, <1>2, Induction
  <1> QED BY <1>3, LenProperties

(* A function defined by recursion on its argument exists.                  *)
Recursive(f, n, a, g) ==
    f[0] = a /\ \A i \in 1..n : f[i] = g[<<i, f[i - 1]>>]

LEMMA Recursion ==
    ASSUME NEW n \in Nat, NEW X, NEW a \in X, NEW g \in [(1..n) \X X -> X]
    PROVE  \E f \in [0..n -> X] : Recursive(f, n, a, g)
  <1> DEFINE K == {k \in Nat : k <= n => \E f \in [0..k -> X] : Recursive(f, k, a, g)}
  <1>1. 0 \in K
    <2>1. /\ [i \in 0..0 |-> a] \in [0..0 -> X]
          /\ Recursive([i \in 0..0 |-> a], 0, a, g)
      BY DEF Recursive
    <2> QED BY <2>1
  <1>2. ASSUME NEW k \in Nat, k \in K
        PROVE  k + 1 \in K
    <2>1. CASE k + 1 <= n
      <3>1. PICK f \in [0..k -> X] : Recursive(f, k, a, g)
        BY <1>2, <2>1
      <3> DEFINE h == [i \in 0..(k + 1) |-> IF i = k + 1 THEN g[<<k + 1, f[k]>>] ELSE f[i]]
      <3>2. f[k] \in X /\ <<k + 1, f[k]>> \in (1..n) \X X
        BY <2>1
      <3>3. h \in [0..(k + 1) -> X]
        BY <3>2
      <3>4. \A i \in 0..k : h[i] = f[i]
        OBVIOUS
      <3>5. h[k + 1] = g[<<k + 1, f[k]>>]
        OBVIOUS
      <3> HIDE DEF h
      <3>6. Recursive(h, k + 1, a, g)
        <4>1. h[0] = a
          BY <3>1, <3>4 DEF Recursive
        <4>2. ASSUME NEW i \in 1..(k + 1)
              PROVE  h[i] = g[<<i, h[i - 1]>>]
          <5>1. CASE i = k + 1
            BY <3>4, <3>5, <5>1
          <5>2. CASE i # k + 1
            BY <3>1, <3>4, <5>2 DEF Recursive
          <5> QED BY <5>1, <5>2
        <4> QED BY <4>1, <4>2 DEF Recursive
      <3> QED BY <3>3, <3>6
    <2>2. CASE ~(k + 1 <= n)
      BY <2>2
    <2> QED BY <2>1, <2>2
  <1>3. Nat \subseteq K
    <2> HIDE DEF K
    <2> QED BY <1>1, <1>2, Induction
  <1> QED BY <1>3

(* Two such functions agree as far as their definitions do.                 *)
LEMMA RecursionAgrees ==
    ASSUME NEW n \in Nat, NEW f, NEW h, f[0] = h[0],
           \A i \in 1..n : f[i - 1] = h[i - 1] => f[i] = h[i]
    PROVE  f[n] = h[n]
  <1> DEFINE K == {k \in Nat : k <= n => f[k] = h[k]}
  <1>1. 0 \in K
    OBVIOUS
  <1>2. ASSUME NEW k \in Nat, k \in K
        PROVE  k + 1 \in K
    <2>1. CASE k + 1 <= n
      <3>1. f[k] = h[k] /\ k + 1 \in 1..n /\ (k + 1) - 1 = k
        BY <1>2, <2>1
      <3>2. f[k + 1] = h[k + 1]
        BY <3>1
      <3> QED BY <3>2
    <2>2. CASE ~(k + 1 <= n)
      BY <2>2
    <2> QED BY <2>1, <2>2
  <1>3. Nat \subseteq K
    <2> HIDE DEF K
    <2> QED BY <1>1, <1>2, Induction
  <1> QED BY <1>3

-----------------------------------------------------------------------------
(* Arrays of pointers, some of which are gone.                              *)
IsKept(f, S, s) ==
    /\ f[0] = << >>
    /\ \A i \in 1..Len(s) :
          f[i] = IF s[i] \in S THEN Append(f[i - 1], s[i]) ELSE f[i - 1]

Unfolds(X, S, s) ==
    \E f \in [0..Len(s) -> Seq(X)] : IsKept(f, S, s) /\ Only(S, s) = f[Len(s)]

LEMMA OnlyUnfolds ==
    ASSUME NEW X, NEW S, NEW s \in Seq(X)
    PROVE  Unfolds(X, S, s)
  <1> DEFINE Step(q) == IF s[q[1]] \in S THEN Append(q[2], s[q[1]]) ELSE q[2]
             Kept(n, f) == [i \in 0..n |->
                              IF i = 0 THEN << >>
                              ELSE IF s[i] \in S THEN Append(f[i - 1], s[i]) ELSE f[i - 1]]
  <1>1. PICK n \in Nat : n = Len(s)
    BY LenProperties
  <1>2. << >> \in Seq(X) /\ \A i \in 1..n : s[i] \in X
    BY <1>1, EmptySeq, ElementOfSeq
  <1>3. \A i \in 1..n, r \in Seq(X) : Append(r, s[i]) \in Seq(X)
    BY <1>2, AppendProperties
  <1>4. PICK g \in [(1..n) \X Seq(X) -> Seq(X)] :
            \A q \in (1..n) \X Seq(X) : g[q] = Step(q)
    <2>1. [q \in (1..n) \X Seq(X) |-> Step(q)] \in [(1..n) \X Seq(X) -> Seq(X)]
      BY <1>3
    <2> QED BY <2>1
  <1>5. PICK f \in [0..n -> Seq(X)] : Recursive(f, n, << >>, g)
    BY <1>2, Recursion
  <1>6. ASSUME NEW i \in 1..n
        PROVE  f[i] = IF s[i] \in S THEN Append(f[i - 1], s[i]) ELSE f[i - 1]
    <2>1. f[i - 1] \in Seq(X)
      OBVIOUS
    <2>2. <<i, f[i - 1]>> \in (1..n) \X Seq(X)
      BY <2>1
    <2>3. g[<<i, f[i - 1]>>] = IF s[i] \in S THEN Append(f[i - 1], s[i]) ELSE f[i - 1]
      BY <1>4, <2>2
    <2> QED BY <1>5, <2>3 DEF Recursive
  <1>7. f[0] = << >>
    BY <1>5 DEF Recursive
  <1>8. f = Kept(n, f)
    <2>1. ASSUME NEW i \in 0..n
          PROVE  f[i] = IF i = 0 THEN << >>
                        ELSE IF s[i] \in S THEN Append(f[i - 1], s[i]) ELSE f[i - 1]
      <3>1. CASE i = 0
        BY <1>7, <3>1
      <3>2. CASE i # 0
        <4>1. i \in 1..n
          BY <3>2
        <4>2. f[i] = IF s[i] \in S THEN Append(f[i - 1], s[i]) ELSE f[i - 1]
          BY <1>6, <4>1
        <4> QED BY <3>2, <4>2
      <3> QED BY <3>1, <3>2
    <2> QED BY <2>1
  <1> DEFINE h == CHOOSE h : h = Kept(n, h)
  <1>9. h = Kept(n, h)
    <2> HIDE DEF Kept
    <2> QED BY <1>8
  <1>10. Only(S, s) = h[n]
    BY <1>1 DEF Only
  <1>11. h[n] = f[n]
    <2> HIDE DEF h
    <2>1. \A i \in 0..n : h[i] = IF i = 0 THEN << >>
                              ELSE IF s[i] \in S THEN Append(h[i - 1], s[i]) ELSE h[i - 1]
      BY <1>9
    <2>2. \A i \in 1..n : h[i - 1] = f[i - 1] => h[i] = f[i]
      BY <1>6, <2>1
    <2>3. 0 \in 0..n
      OBVIOUS
    <2>4. h[0] = f[0]
      BY <1>7, <2>1, <2>3
    <2> HIDE DEF Kept
    <2> QED BY <2>2, <2>4, RecursionAgrees
  <1>12. IsKept(f, S, s)
    BY <1>1, <1>6, <1>7 DEF IsKept
  <1> HIDE DEF h
  <1> QED BY <1>1, <1>10, <1>11, <1>12 DEF Unfolds

LEMMA OnlyOfEmpty ==
    ASSUME NEW S
    PROVE  Only(S, << >>) = << >>
  <1>1. PICK s \in Seq({}) : s = << >> /\ Len(s) = 0
    BY EmptySeq
  <1>2. PICK f \in [0..Len(s) -> Seq({})] : IsKept(f, S, s) /\ Only(S, s) = f[Len(s)]
    <2>1. Unfolds({}, S, s)
      BY <1>1, OnlyUnfolds
    <2> QED BY <2>1 DEF Unfolds
  <1> QED BY <1>1, <1>2 DEF IsKept

LEMMA OnlyOfAppend ==
    ASSUME NEW X, NEW S, NEW s \in Seq(X), NEW x \in X
    PROVE  Only(S, Append(s, x)) =
               IF x \in S THEN Append(Only(S, s), x) ELSE Only(S, s)
  <1>1. PICK n \in Nat : n = Len(s)
    BY LenProperties
  <1>2. PICK r \in Seq(X) : r = Append(s, x)
    BY AppendProperties
  <1>3. Len(r) = n + 1 /\ r[n + 1] = x /\ \A i \in 1..n : r[i] = s[i]
    BY <1>1, <1>2, AppendProperties
  <1>4. PICK f \in [0..Len(s) -> Seq(X)] : IsKept(f, S, s) /\ Only(S, s) = f[Len(s)]
    <2>1. Unfolds(X, S, s)
      BY OnlyUnfolds
    <2> QED BY <2>1 DEF Unfolds
  <1>5. PICK h \in [0..Len(r) -> Seq(X)] : IsKept(h, S, r) /\ Only(S, r) = h[Len(r)]
    <2>1. Unfolds(X, S, r)
      BY <1>2, OnlyUnfolds
    <2> QED BY <2>1 DEF Unfolds
  <1>6. \A i \in 1..n : h[i - 1] = f[i - 1] => h[i] = f[i]
    BY <1>1, <1>3, <1>4, <1>5 DEF IsKept
  <1>7. h[0] = f[0]
    BY <1>4, <1>5 DEF IsKept
  <1>8. h[n] = f[n]
    BY <1>6, <1>7, RecursionAgrees
  <1>9. h[n + 1] = IF x \in S THEN Append(h[n], x) ELSE h[n]
    <2>1. n + 1 \in 1..(n + 1) /\ (n + 1) - 1 = n
      OBVIOUS
    <2> QED BY <1>3, <1>5, <2>1 DEF IsKept
  <1> QED BY <1>1, <1>2, <1>3, <1>4, <1>5, <1>8, <1>9

LEMMA OnlyIsSequence ==
    ASSUME NEW X, NEW S, NEW s \in Seq(X)
    PROVE  Only(S, s) \in Seq(X)
  <1>1. PICK f \in [0..Len(s) -> Seq(X)] : IsKept(f, S, s) /\ Only(S, s) = f[Len(s)]
    <2>1. Unfolds(X, S, s)
      BY OnlyUnfolds
    <2> QED BY <2>1 DEF Unfolds
  <1> QED BY <1>1, LenProperties

LEMMA ElemsOfAppend ==
    ASSUME NEW X, NEW s \in Seq(X), NEW x \in X
    PROVE  ToSet(Append(s, x)) = ToSet(s) \cup {x}
  <1>1. PICK n \in Nat : n = Len(s) /\ DOMAIN s = 1..n
    BY LenProperties
  <1>2. PICK r \in Seq(X) : r = Append(s, x)
    BY AppendProperties
  <1>3. /\ DOMAIN r = 1..(n + 1) /\ r[n + 1] = x
        /\ \A i \in 1..n : r[i] = s[i]
    BY <1>1, <1>2, AppendProperties, LenProperties
  <1>4. \A i \in 1..(n + 1) : r[i] \in ToSet(s) \cup {x}
    BY <1>1, <1>3 DEF ToSet
  <1>5. \A i \in 1..n : s[i] \in ToSet(r)
    BY <1>1, <1>3 DEF ToSet
  <1>6. n + 1 \in 1..(n + 1)
    OBVIOUS
  <1>7. x \in ToSet(r)
    BY <1>3, <1>6 DEF ToSet
  <1> QED BY <1>1, <1>2, <1>3, <1>4, <1>5, <1>7 DEF ToSet

LEMMA ElemsOfEmpty == ToSet(<< >>) = {}
  BY DEF ToSet

LEMMA ElemsOfOnly ==
    ASSUME NEW X, NEW S, NEW s \in Seq(X)
    PROVE  ToSet(Only(S, s)) = ToSet(s) \cap S
  <1> DEFINE P == {r \in Seq(X) : ToSet(Only(S, r)) = ToSet(r) \cap S}
  <1>1. << >> \in P
    BY EmptySeq, OnlyOfEmpty, ElemsOfEmpty
  <1>2. ASSUME NEW r \in Seq(X), NEW x \in X, r \in P
        PROVE  Append(r, x) \in P
    <2>1. ToSet(Append(r, x)) = ToSet(r) \cup {x} /\ Append(r, x) \in Seq(X)
      BY ElemsOfAppend, AppendProperties
    <2>2. CASE x \in S
      <3>1. ToSet(Append(Only(S, r), x)) = ToSet(Only(S, r)) \cup {x}
        BY OnlyIsSequence, ElemsOfAppend
      <3>2. Only(S, Append(r, x)) = Append(Only(S, r), x)
        BY <2>2, OnlyOfAppend
      <3>3. ToSet(Only(S, Append(r, x))) = (ToSet(r) \cup {x}) \cap S
        BY <1>2, <2>2, <3>1, <3>2
      <3> QED BY <2>1, <3>3
    <2>3. CASE x \notin S
      BY <1>2, <2>1, <2>3, OnlyOfAppend
    <2> QED BY <2>2, <2>3
  <1>3. Seq(X) \subseteq P
    <2> HIDE DEF P
    <2> QED BY <1>1, <1>2, SequenceInduction
  <1> QED BY <1>3

LEMMA OnlyOfOnly ==
    ASSUME NEW X, NEW S, NEW T, NEW s \in Seq(X)
    PROVE  Only(S, Only(T, s)) = Only(S \cap T, s)
  <1> DEFINE P == {r \in Seq(X) : Only(S, Only(T, r)) = Only(S \cap T, r)}
  <1>1. << >> \in P
    BY EmptySeq, OnlyOfEmpty
  <1>2. ASSUME NEW r \in Seq(X), NEW x \in X, r \in P
        PROVE  Append(r, x) \in P
    <2>1. Append(r, x) \in Seq(X) /\ Only(T, r) \in Seq(X)
      BY AppendProperties, OnlyIsSequence
    <2>2. CASE x \in T
      <3>1. Only(T, Append(r, x)) = Append(Only(T, r), x)
        BY <2>2, OnlyOfAppend
      <3>2. Only(S, Append(Only(T, r), x))
              = IF x \in S THEN Append(Only(S, Only(T, r)), x) ELSE Only(S, Only(T, r))
        BY <2>1, OnlyOfAppend
      <3>3. Only(S \cap T, Append(r, x))
              = IF x \in S THEN Append(Only(S \cap T, r), x) ELSE Only(S \cap T, r)
        BY <2>2, OnlyOfAppend
      <3> QED BY <1>2, <2>1, <3>1, <3>2, <3>3
    <2>3. CASE x \notin T
      <3>1. Only(T, Append(r, x)) = Only(T, r)
        BY <2>3, OnlyOfAppend
      <3>2. Only(S \cap T, Append(r, x)) = Only(S \cap T, r)
        BY <2>3, OnlyOfAppend
      <3> QED BY <1>2, <2>1, <3>1, <3>2
    <2> QED BY <2>2, <2>3
  <1>3. Seq(X) \subseteq P
    <2> HIDE DEF P
    <2> QED BY <1>1, <1>2, SequenceInduction
  <1> QED BY <1>3

LEMMA OnlyOfAll ==
    ASSUME NEW X, NEW S, NEW s \in Seq(X), ToSet(s) \subseteq S
    PROVE  Only(S, s) = s
  <1> DEFINE P == {r \in Seq(X) : ToSet(r) \subseteq S => Only(S, r) = r}
  <1>1. << >> \in P
    BY EmptySeq, OnlyOfEmpty
  <1>2. ASSUME NEW r \in Seq(X), NEW x \in X, r \in P
        PROVE  Append(r, x) \in P
    <2>1. ToSet(Append(r, x)) = ToSet(r) \cup {x} /\ Append(r, x) \in Seq(X)
      BY ElemsOfAppend, AppendProperties
    <2>2. Only(S, Append(r, x)) = IF x \in S THEN Append(Only(S, r), x) ELSE Only(S, r)
      BY OnlyOfAppend
    <2> QED BY <1>2, <2>1, <2>2
  <1>3. Seq(X) \subseteq P
    <2> HIDE DEF P
    <2> QED BY <1>1, <1>2, SequenceInduction
  <1> QED BY <1>3

LEMMA AppendOfConcat ==
    ASSUME NEW X, NEW s \in Seq(X), NEW r \in Seq(X), NEW x \in X
    PROVE  s \o Append(r, x) = Append(s \o r, x)
  <1>1. s \o r \in Seq(X) /\ << x >> \in Seq(X)
    BY ConcatProperties
  <1>2. (s \o r) \o << x >> = s \o (r \o << x >>)
    BY <1>1, ConcatAssociative
  <1> QED BY <1>1, <1>2, AppendIsConcat

LEMMA OnlyOfConcat ==
    ASSUME NEW X, NEW S, NEW s \in Seq(X), NEW t \in Seq(X)
    PROVE  Only(S, s \o t) = Only(S, s) \o Only(S, t)
  <1> DEFINE P == {r \in Seq(X) : Only(S, s \o r) = Only(S, s) \o Only(S, r)}
  <1>1. << >> \in P
    <2>1. s \o << >> = s /\ Only(S, s) \o << >> = Only(S, s)
      BY OnlyIsSequence, ConcatEmptySeq
    <2> QED BY <2>1, EmptySeq, OnlyOfEmpty
  <1>2. ASSUME NEW r \in Seq(X), NEW x \in X, r \in P
        PROVE  Append(r, x) \in P
    <2>1. /\ s \o Append(r, x) = Append(s \o r, x)
          /\ s \o r \in Seq(X) /\ Append(r, x) \in Seq(X)
      BY ConcatProperties, AppendProperties, AppendOfConcat
    <2>2. Only(S, Append(s \o r, x))
            = IF x \in S THEN Append(Only(S, s \o r), x) ELSE Only(S, s \o r)
      <3>1. PICK q \in Seq(X) : q = s \o r
        BY <2>1
      <3>2. Only(S, Append(q, x)) = IF x \in S THEN Append(Only(S, q), x) ELSE Only(S, q)
        BY OnlyOfAppend
      <3> QED BY <3>1, <3>2
    <2>3. Only(S, Append(r, x)) = IF x \in S THEN Append(Only(S, r), x) ELSE Only(S, r)
      BY OnlyOfAppend
    <2>4. Only(S, s) \o Append(Only(S, r), x) = Append(Only(S, s) \o Only(S, r), x)
      BY OnlyIsSequence, AppendOfConcat
    <2> QED BY <1>2, <2>1, <2>2, <2>3, <2>4
  <1>3. Seq(X) \subseteq P
    <2> HIDE DEF P
    <2> QED BY <1>1, <1>2, SequenceInduction
  <1> QED BY <1>3

-----------------------------------------------------------------------------
(* The arrays of the finder point to an object at most once.                *)
Arrays == {s \in Seq(Objs) : IsInjective(s)}

LEMMA InjectiveAppend ==
    ASSUME NEW X, NEW s \in Seq(X), NEW x \in X
    PROVE  IsInjective(Append(s, x)) <=> IsInjective(s) /\ x \notin ToSet(s)
  <1>1. PICK n \in Nat : n = Len(s) /\ DOMAIN s = 1..n
    BY LenProperties
  <1>2. PICK r \in Seq(X) : r = Append(s, x)
    BY AppendProperties
  <1>3. /\ DOMAIN r = 1..(n + 1) /\ r[n + 1] = x
        /\ \A i \in 1..n : r[i] = s[i]
    BY <1>1, <1>2, AppendProperties, LenProperties
  <1>4. ASSUME IsInjective(s), x \notin ToSet(s)
        PROVE  IsInjective(r)
    BY <1>1, <1>3, <1>4 DEF IsInjective, ToSet
  <1>5. ASSUME IsInjective(r)
        PROVE  IsInjective(s) /\ x \notin ToSet(s)
    <2>1. IsInjective(s)
      BY <1>1, <1>3, <1>5 DEF IsInjective
    <2>2. ASSUME NEW i \in 1..n, s[i] = x
          PROVE  FALSE
      <3>1. r[i] = r[n + 1] /\ i \in 1..(n + 1) /\ n + 1 \in 1..(n + 1)
        BY <1>3, <2>2
      <3>2. i = n + 1
        BY <1>3, <1>5, <3>1 DEF IsInjective
      <3> QED BY <3>2
    <2> QED BY <1>1, <2>1, <2>2 DEF ToSet
  <1> QED BY <1>2, <1>4, <1>5

LEMMA OnlyInjective ==
    ASSUME NEW X, NEW S, NEW s \in Seq(X), IsInjective(s)
    PROVE  IsInjective(Only(S, s))
  <1> DEFINE P == {r \in Seq(X) : IsInjective(r) => IsInjective(Only(S, r))}
  <1>1. << >> \in P
    BY EmptySeq, OnlyOfEmpty DEF IsInjective
  <1>2. ASSUME NEW r \in Seq(X), NEW x \in X, r \in P, IsInjective(Append(r, x))
        PROVE  IsInjective(Only(S, Append(r, x)))
    <2>1. IsInjective(r) /\ x \notin ToSet(r)
      BY <1>2, InjectiveAppend
    <2>2. IsInjective(Only(S, r)) /\ Only(S, r) \in Seq(X)
      BY <1>2, <2>1, OnlyIsSequence
    <2>3. x \notin ToSet(Only(S, r))
      BY <2>1, ElemsOfOnly
    <2>4. IsInjective(Append(Only(S, r), x))
      BY <2>2, <2>3, InjectiveAppend
    <2>5. \/ Only(S, Append(r, x)) = Append(Only(S, r), x)
          \/ Only(S, Append(r, x)) = Only(S, r)
      BY OnlyOfAppend
    <2> QED BY <2>2, <2>4, <2>5
  <1>3. \A r \in Seq(X), x \in X : r \in P => Append(r, x) \in P
    BY <1>2, AppendProperties
  <1>4. Seq(X) \subseteq P
    <2> HIDE DEF P
    <2> QED BY <1>1, <1>3, SequenceInduction
  <1> QED BY <1>4

LEMMA OnlyIsArray ==
    ASSUME NEW S, NEW s \in Arrays
    PROVE  Only(S, s) \in Arrays
  BY OnlyIsSequence, OnlyInjective DEF Arrays

(* Removing the first pointer to an object removes the object.              *)
LEMMA DropIsOnly ==
    ASSUME NEW s \in Arrays, NEW o
    PROVE  DropObj(s, o) = Only(Objs \ {o}, s)
  <1>1. PICK n \in Nat : n = Len(s) /\ DOMAIN s = 1..n
    BY LenProperties DEF Arrays
  <1>2. s \in Seq(Objs) /\ \A i, j \in 1..n : s[i] = s[j] => i = j
    BY <1>1 DEF Arrays, IsInjective
  <1>3. \A i \in 1..n : s[i] \in Objs
    BY <1>1, <1>2, ElementOfSeq
  <1>4. CASE ~\E i \in 1..n : s[i] = o
    <2>1. ToSet(s) \subseteq Objs \ {o}
      BY <1>1, <1>3, <1>4 DEF ToSet
    <2> QED BY <1>1, <1>2, <1>4, <2>1, OnlyOfAll DEF DropObj, RemoveFirst
  <1>5. ASSUME NEW k \in 1..n, s[k] = o
        PROVE  DropObj(s, o) = Only(Objs \ {o}, s)
    <2> DEFINE before == SubSeq(s, 1, k - 1)
               after == SubSeq(s, k + 1, n)
    <2>1. {i \in 1..n : s[i] = o} = {k}
      BY <1>2, <1>5
    <2>2. SelectInSeq(s, LAMBDA v : v = o) = k
      <3>1. Min({k}) = k
        BY DEF Min
      <3> QED BY <1>1, <2>1, <3>1 DEF SelectInSeq
    <2>3. DropObj(s, o) = before \o after
      BY <1>1, <1>5, <2>2 DEF DropObj, RemoveFirst, RemoveAt
    <2>4. /\ before \in Seq(Objs \ {o}) /\ Len(before) = k - 1
          /\ \A i \in 1..(k - 1) : before[i] = s[i]
      <3>1. \A i \in 1..(k - 1) : s[i] \in Objs \ {o}
        BY <1>2, <1>3, <1>5
      <3> QED BY <3>1, SubSeqProperties
    <2>5. /\ after \in Seq(Objs \ {o}) /\ Len(after) = n - k
          /\ \A i \in 1..(n - k) : after[i] = s[k + i]
      <3>1. \A i \in (k + 1)..n : s[i] \in Objs \ {o}
        BY <1>2, <1>3, <1>5
      <3> QED BY <3>1, SubSeqProperties
    <2> HIDE DEF before, after
    <2>6. /\ before \in Seq(Objs) /\ after \in Seq(Objs) /\ Append(before, o) \in Seq(Objs)
          /\ ToSet(before) \subseteq Objs \ {o} /\ ToSet(after) \subseteq Objs \ {o}
      <3>1. before \in Seq(Objs) /\ after \in Seq(Objs) /\ o \in Objs
        BY <1>3, <1>5, <2>4, <2>5, SeqMonotonic
      <3>2. ToSet(before) \subseteq Objs \ {o} /\ ToSet(after) \subseteq Objs \ {o}
        BY <2>4, <2>5, LenProperties DEF ToSet
      <3> QED BY <3>1, <3>2, AppendProperties
    <2>7. s = Append(before, o) \o after
      <3>1. PICK r \in Seq(Objs) : r = Append(before, o)
        BY <2>6
      <3>2. Len(r) = k /\ r[k] = o /\ \A i \in 1..(k - 1) : r[i] = s[i]
        BY <1>3, <1>5, <2>4, <2>6, <3>1, AppendProperties
      <3>3. PICK t \in Seq(Objs) : t = after
        BY <2>6
      <3>4. PICK q \in Seq(Objs) : q = r \o t
        BY ConcatProperties
      <3>5. /\ Len(q) = Len(r) + Len(t)
            /\ \A i \in 1..(Len(r) + Len(t)) :
                  q[i] = IF i <= Len(r) THEN r[i] ELSE t[i - Len(r)]
        BY <3>4, ConcatProperties
      <3>6. Len(q) = n
        BY <2>5, <3>2, <3>3, <3>5
      <3>7. ASSUME NEW i \in 1..n
            PROVE  q[i] = s[i]
        <4>1. q[i] = IF i <= k THEN r[i] ELSE t[i - k]
          BY <2>5, <3>2, <3>3, <3>5
        <4>2. CASE i <= k
          BY <1>5, <3>2, <4>1, <4>2
        <4>3. CASE ~(i <= k)
          <5>1. i - k \in 1..(n - k) /\ k + (i - k) = i
            BY <4>3
          <5> QED BY <2>5, <3>3, <4>1, <4>3, <5>1
        <4> QED BY <4>2, <4>3
      <3>8. q = s
        BY <1>1, <1>2, <3>6, <3>7, SeqEqual
      <3> QED BY <3>1, <3>3, <3>4, <3>8
    <2>8. Only(Objs \ {o}, s) = Only(Objs \ {o}, Append(before, o)) \o Only(Objs \ {o}, after)
      <3>1. PICK r \in Seq(Objs), t \in Seq(Objs) : r = Append(before, o) /\ t = after
        BY <2>6
      <3>2. Only(Objs \ {o}, r \o t) = Only(Objs \ {o}, r) \o Only(Objs \ {o}, t)
        BY OnlyOfConcat
      <3> QED BY <2>7, <3>1, <3>2
    <2>9. Only(Objs \ {o}, Append(before, o)) = before
      <3>1. o \in Objs
        BY <1>3, <1>5
      <3>2. Only(Objs \ {o}, Append(before, o)) = Only(Objs \ {o}, before)
        BY <2>6, <3>1, OnlyOfAppend
      <3> QED BY <2>6, <3>2, OnlyOfAll
    <2>10. Only(Objs \ {o}, after) = after
      BY <2>6, OnlyOfAll
    <2> QED BY <2>3, <2>8, <2>9, <2>10
  <1> QED BY <1>4, <1>5

LEMMA AddObjIsArray ==
    ASSUME NEW s \in Arrays, NEW o \in Objs
    PROVE  AddObj(s, o) \in Arrays
  <1>1. s \in Seq(Objs) /\ IsInjective(s) /\ DOMAIN s = 1..Len(s)
    BY LenProperties DEF Arrays
  <1>2. Contains(s, o) <=> o \in ToSet(s)
    BY <1>1 DEF Contains, ToSet
  <1>3. CASE o \in ToSet(s)
    BY <1>2, <1>3 DEF AddObj
  <1>4. CASE o \notin ToSet(s)
    <2>1. Append(s, o) \in Seq(Objs) /\ IsInjective(Append(s, o))
      BY <1>1, <1>4, AppendProperties, InjectiveAppend
    <2> QED BY <1>2, <1>4, <2>1 DEF AddObj, Arrays
  <1> QED BY <1>3, <1>4

LEMMA AddObjOnly ==
    ASSUME NEW s \in Arrays, NEW o \in Objs, NEW S, o \in S
    PROVE  Only(S, AddObj(s, o)) = AddObj(Only(S, s), o)
  <1>1. s \in Seq(Objs) /\ DOMAIN s = 1..Len(s)
    BY LenProperties DEF Arrays
  <1>2. PICK r \in Seq(Objs) : r = Only(S, s) /\ DOMAIN r = 1..Len(r)
    BY <1>1, OnlyIsSequence, LenProperties
  <1>3. Contains(s, o) <=> o \in ToSet(s)
    BY <1>1 DEF Contains, ToSet
  <1>4. Contains(r, o) <=> o \in ToSet(r)
    BY <1>2 DEF Contains, ToSet
  <1>5. ToSet(r) = ToSet(s) \cap S
    BY <1>1, <1>2, ElemsOfOnly
  <1>6. Only(S, Append(s, o)) = Append(r, o)
    BY <1>1, <1>2, OnlyOfAppend
  <1> QED BY <1>2, <1>3, <1>4, <1>5, <1>6 DEF AddObj

LEMMA DropObjOnly ==
    ASSUME NEW s \in Arrays, NEW o, NEW S
    PROVE  Only(S, DropObj(s, o)) = DropObj(Only(S, s), o)
  <1>1. s \in Seq(Objs)
    BY DEF Arrays
  <1>2. PICK r \in Arrays : r = Only(S, s)
    BY OnlyIsArray
  <1>3. DropObj(r, o) = Only(Objs \ {o}, r)
    BY DropIsOnly
  <1>4. Only(Objs \ {o}, Only(S, s)) = Only((Objs \ {o}) \cap S, s)
    BY <1>1, OnlyOfOnly
  <1>5. Only(S, Only(Objs \ {o}, s)) = Only(S \cap (Objs \ {o}), s)
    BY <1>1, OnlyOfOnly
  <1>6. (Objs \ {o}) \cap S = S \cap (Objs \ {o})
    OBVIOUS
  <1> QED BY <1>2, <1>3, <1>4, <1>5, <1>6, DropIsOnly

-----------------------------------------------------------------------------
(* What a block does to an array, and what several do one after another.    *)
LEMMA BlockFacts ==
    ASSUME NEW b \in Block
    PROVE  \/ /\ b.kind \in {"register", "remove"} /\ b.kind # "find"
              /\ b.obj \in Objs /\ b.protocols \subseteq Protocols
              /\ RetainedByBlock(b) = {b.obj}
           \/ /\ b.kind = "find" /\ RetainedByBlock(b) = {}
              /\ b.thread \in Threads /\ b.protocol \in Protocols
  BY DEF Block, RetainedByBlock

LEMMA AfterBlockIsArray ==
    ASSUME NEW s \in Arrays, NEW b \in Block, NEW p
    PROVE  AfterBlock(s, b, p) \in Arrays
  <1>1. b.kind = "register" => AddObj(s, b.obj) \in Arrays
    BY BlockFacts, AddObjIsArray
  <1>2. DropObj(s, b.obj) \in Arrays
    <2>1. DropObj(s, b.obj) = Only(Objs \ {b.obj}, s)
      BY DropIsOnly
    <2> QED BY <2>1, OnlyIsArray
  <1> QED BY <1>1, <1>2 DEF AfterBlock

LEMMA AfterBlockOnly ==
    ASSUME NEW s \in Arrays, NEW b \in Block, NEW p, NEW S, RetainedByBlock(b) \subseteq S
    PROVE  Only(S, AfterBlock(s, b, p)) = AfterBlock(Only(S, s), b, p)
  <1>1. b.kind = "register" => Only(S, AddObj(s, b.obj)) = AddObj(Only(S, s), b.obj)
    BY BlockFacts, AddObjOnly
  <1>2. Only(S, DropObj(s, b.obj)) = DropObj(Only(S, s), b.obj)
    BY DropObjOnly
  <1> QED BY <1>1, <1>2 DEF AfterBlock

IsApplied(f, a, q, p) ==
    f[0] = a /\ \A i \in 1..Len(q) : f[i] = AfterBlock(f[i - 1], q[i], p)

LEMMA AppliedUnfolds ==
    ASSUME NEW a \in Arrays, NEW q \in Seq(Block), NEW p
    PROVE  \E f \in [0..Len(q) -> Arrays] :
               IsApplied(f, a, q, p) /\ Applied(a, q, p) = f[Len(q)]
  <1> DEFINE Step(x) == AfterBlock(x[2], q[x[1]], p)
             After(n, f) == [i \in 0..n |->
                               IF i = 0 THEN a ELSE AfterBlock(f[i - 1], q[i], p)]
  <1>1. PICK n \in Nat : n = Len(q)
    BY LenProperties
  <1>2. \A i \in 1..n : q[i] \in Block
    BY <1>1, ElementOfSeq
  <1>3. \A i \in 1..n, r \in Arrays : AfterBlock(r, q[i], p) \in Arrays
    BY <1>2, AfterBlockIsArray
  <1>4. PICK g \in [(1..n) \X Arrays -> Arrays] :
            \A x \in (1..n) \X Arrays : g[x] = Step(x)
    <2>1. [x \in (1..n) \X Arrays |-> Step(x)] \in [(1..n) \X Arrays -> Arrays]
      BY <1>3
    <2> QED BY <2>1
  <1>5. PICK f \in [0..n -> Arrays] : Recursive(f, n, a, g)
    BY Recursion
  <1>6. ASSUME NEW i \in 1..n
        PROVE  f[i] = AfterBlock(f[i - 1], q[i], p)
    <2>1. f[i - 1] \in Arrays
      OBVIOUS
    <2>2. <<i, f[i - 1]>> \in (1..n) \X Arrays
      BY <2>1
    <2>3. g[<<i, f[i - 1]>>] = AfterBlock(f[i - 1], q[i], p)
      BY <1>4, <2>2
    <2> QED BY <1>5, <2>3 DEF Recursive
  <1>7. f[0] = a
    BY <1>5 DEF Recursive
  <1>8. f = After(n, f)
    <2>1. ASSUME NEW i \in 0..n
          PROVE  f[i] = IF i = 0 THEN a ELSE AfterBlock(f[i - 1], q[i], p)
      <3>1. CASE i = 0
        BY <1>7, <3>1
      <3>2. CASE i # 0
        <4>1. i \in 1..n
          BY <3>2
        <4>2. f[i] = AfterBlock(f[i - 1], q[i], p)
          BY <1>6, <4>1
        <4> QED BY <3>2, <4>2
      <3> QED BY <3>1, <3>2
    <2> QED BY <2>1
  <1> DEFINE h == CHOOSE h : h = After(n, h)
  <1>9. h = After(n, h)
    <2> HIDE DEF After
    <2> QED BY <1>8
  <1>10. Applied(a, q, p) = h[n]
    BY <1>1 DEF Applied
  <1>11. h[n] = f[n]
    <2> HIDE DEF h
    <2>1. \A i \in 0..n : h[i] = IF i = 0 THEN a ELSE AfterBlock(h[i - 1], q[i], p)
      BY <1>9
    <2>2. \A i \in 1..n : h[i - 1] = f[i - 1] => h[i] = f[i]
      BY <1>6, <2>1
    <2>3. 0 \in 0..n
      OBVIOUS
    <2>4. h[0] = f[0]
      BY <1>7, <2>1, <2>3
    <2> HIDE DEF After
    <2> QED BY <2>2, <2>4, RecursionAgrees
  <1>12. IsApplied(f, a, q, p)
    BY <1>1, <1>6, <1>7 DEF IsApplied
  <1> HIDE DEF h
  <1> QED BY <1>1, <1>10, <1>11, <1>12

LEMMA AppliedOfEmpty ==
    ASSUME NEW a \in Arrays, NEW p
    PROVE  Applied(a, << >>, p) = a
  <1>1. PICK q \in Seq(Block) : q = << >> /\ Len(q) = 0
    BY EmptySeq
  <1>2. PICK f \in [0..Len(q) -> Arrays] :
            IsApplied(f, a, q, p) /\ Applied(a, q, p) = f[Len(q)]
    BY AppliedUnfolds
  <1> QED BY <1>1, <1>2 DEF IsApplied

LEMMA AppliedOfAppend ==
    ASSUME NEW a \in Arrays, NEW q \in Seq(Block), NEW b \in Block, NEW p
    PROVE  Applied(a, Append(q, b), p) = AfterBlock(Applied(a, q, p), b, p)
  <1>1. PICK n \in Nat : n = Len(q)
    BY LenProperties
  <1>2. PICK r \in Seq(Block) : r = Append(q, b)
    BY AppendProperties
  <1>3. Len(r) = n + 1 /\ r[n + 1] = b /\ \A i \in 1..n : r[i] = q[i]
    BY <1>1, <1>2, AppendProperties
  <1>4. PICK f \in [0..Len(q) -> Arrays] :
            IsApplied(f, a, q, p) /\ Applied(a, q, p) = f[Len(q)]
    BY AppliedUnfolds
  <1>5. PICK h \in [0..Len(r) -> Arrays] :
            IsApplied(h, a, r, p) /\ Applied(a, r, p) = h[Len(r)]
    BY AppliedUnfolds
  <1>6. \A i \in 1..n : h[i - 1] = f[i - 1] => h[i] = f[i]
    BY <1>1, <1>3, <1>4, <1>5 DEF IsApplied
  <1>7. h[0] = f[0]
    BY <1>4, <1>5 DEF IsApplied
  <1>8. h[n] = f[n]
    BY <1>6, <1>7, RecursionAgrees
  <1>9. h[n + 1] = AfterBlock(h[n], b, p)
    <2>1. n + 1 \in 1..(n + 1) /\ (n + 1) - 1 = n
      OBVIOUS
    <2> QED BY <1>3, <1>5, <2>1 DEF IsApplied
  <1> QED BY <1>1, <1>2, <1>3, <1>4, <1>5, <1>8, <1>9

LEMMA AppliedIsArray ==
    ASSUME NEW a \in Arrays, NEW q \in Seq(Block), NEW p
    PROVE  Applied(a, q, p) \in Arrays
  <1>1. PICK f \in [0..Len(q) -> Arrays] :
            IsApplied(f, a, q, p) /\ Applied(a, q, p) = f[Len(q)]
    BY AppliedUnfolds
  <1> QED BY <1>1, LenProperties

(* The block that is executed first can be applied first.                   *)
LEMMA AppliedOfTail ==
    ASSUME NEW a \in Arrays, NEW q \in Seq(Block), q # << >>, NEW p
    PROVE  Applied(a, q, p) = Applied(AfterBlock(a, Head(q), p), Tail(q), p)
  <1> DEFINE P == {r \in Seq(Block) :
                    r # << >> => Applied(a, r, p)
                                   = Applied(AfterBlock(a, Head(r), p), Tail(r), p)}
  <1>1. << >> \in P
    BY EmptySeq
  <1>2. ASSUME NEW r \in Seq(Block), NEW b \in Block, r \in P
        PROVE  Append(r, b) \in P
    <2>1. Append(r, b) \in Seq(Block)
      BY AppendProperties
    <2>2. Applied(a, Append(r, b), p) = AfterBlock(Applied(a, r, p), b, p)
      BY AppliedOfAppend
    <2>3. CASE r = << >>
      <3>1. Head(Append(r, b)) = b /\ Tail(Append(r, b)) = << >>
        BY <2>3, HeadTailAppend
      <3>2. Applied(a, r, p) = a
        BY <2>3, AppliedOfEmpty
      <3>3. PICK c \in Arrays : c = AfterBlock(a, b, p)
        BY AfterBlockIsArray
      <3>4. Applied(c, << >>, p) = c
        BY AppliedOfEmpty
      <3> QED BY <2>1, <2>2, <3>1, <3>2, <3>3, <3>4
    <2>4. CASE r # << >>
      <3>1. Head(Append(r, b)) = Head(r) /\ Tail(Append(r, b)) = Append(Tail(r), b)
        BY <2>4, HeadTailAppend
      <3>2. Head(r) \in Block /\ Tail(r) \in Seq(Block)
        BY <2>4, HeadTailProperties
      <3>3. PICK c \in Arrays : c = AfterBlock(a, Head(r), p)
        BY <3>2, AfterBlockIsArray
      <3>4. Applied(c, Append(Tail(r), b), p) = AfterBlock(Applied(c, Tail(r), p), b, p)
        BY <3>2, AppliedOfAppend
      <3>5. Applied(a, r, p) = Applied(c, Tail(r), p)
        BY <1>2, <2>4, <3>3
      <3> QED BY <2>1, <2>2, <3>1, <3>3, <3>4, <3>5
    <2> QED BY <2>3, <2>4
  <1>3. Seq(Block) \subseteq P
    <2> HIDE DEF P
    <2> QED BY <1>1, <1>2, SequenceInduction
  <1> QED BY <1>3

(* Blocks commute with the death of objects that none of them retains.      *)
Keeps(S, q) == \A i \in DOMAIN q : RetainedByBlock(q[i]) \subseteq S

LEMMA AppliedOnly ==
    ASSUME NEW a \in Arrays, NEW q \in Seq(Block), NEW p, NEW S, Keeps(S, q)
    PROVE  Only(S, Applied(a, q, p)) = Applied(Only(S, a), q, p)
  <1> DEFINE P == {r \in Seq(Block) :
                    Keeps(S, r) => Only(S, Applied(a, r, p)) = Applied(Only(S, a), r, p)}
  <1>1. << >> \in P
    BY EmptySeq, OnlyIsArray, AppliedOfEmpty
  <1>2. ASSUME NEW r \in Seq(Block), NEW b \in Block, r \in P, Keeps(S, Append(r, b))
        PROVE  Only(S, Applied(a, Append(r, b), p)) = Applied(Only(S, a), Append(r, b), p)
    <2>1. Keeps(S, r) /\ RetainedByBlock(b) \subseteq S
      <3>1. PICK n \in Nat : n = Len(r) /\ DOMAIN r = 1..n
        BY LenProperties
      <3>2. PICK t \in Seq(Block) : t = Append(r, b)
        BY AppendProperties
      <3>3. /\ DOMAIN t = 1..(n + 1) /\ t[n + 1] = b
            /\ \A i \in 1..n : t[i] = r[i]
        BY <3>1, <3>2, AppendProperties, LenProperties
      <3>4. n + 1 \in 1..(n + 1)
        OBVIOUS
      <3> QED BY <1>2, <3>1, <3>2, <3>3, <3>4 DEF Keeps
    <2>2. PICK c \in Arrays : c = Only(S, a)
      BY OnlyIsArray
    <2>3. PICK d \in Arrays : d = Applied(a, r, p)
      BY AppliedIsArray
    <2>4. Only(S, d) = Applied(c, r, p)
      BY <1>2, <2>1, <2>2, <2>3
    <2>5. Applied(a, Append(r, b), p) = AfterBlock(d, b, p)
      BY <2>3, AppliedOfAppend
    <2>6. Applied(c, Append(r, b), p) = AfterBlock(Applied(c, r, p), b, p)
      BY AppliedOfAppend
    <2>7. Only(S, AfterBlock(d, b, p)) = AfterBlock(Only(S, d), b, p)
      BY <2>1, AfterBlockOnly
    <2> QED BY <2>2, <2>4, <2>5, <2>6, <2>7
  <1>3. \A r \in Seq(Block), b \in Block : r \in P => Append(r, b) \in P
    BY <1>2, AppendProperties
  <1>4. Seq(Block) \subseteq P
    <2> HIDE DEF P
    <2> QED BY <1>1, <1>3, SequenceInduction
  <1> QED BY <1>4

-----------------------------------------------------------------------------
(* The invariant: an array points to an object at most once, and a thread   *)
(* waits exactly while its inquiry, one at a time, is in the queue.         *)
ArraysPointOnce == \A p \in Protocols : objArray[p] \in Arrays

Inquiries ==
    /\ \A t \in Threads : call[t].state = "idle" => call[t] = NoCall
    /\ \A t \in Threads :
          call[t].state = "waiting" => \E i \in DOMAIN queue : Asks(t, i)
    /\ \A i \in DOMAIN queue :
          queue[i].kind = "find" => call[queue[i].thread].state = "waiting"
    /\ \A t \in Threads : \A i, j \in DOMAIN queue : Asks(t, i) /\ Asks(t, j) => i = j

FinderInv == TypeOK /\ ArraysPointOnce /\ Inquiries

LEMMA InitInv == Init => FinderInv
  <1> SUFFICES ASSUME Init PROVE FinderInv
    OBVIOUS
  <1> USE DEF Init
  <1>1. << >> \in Seq(Objs) /\ << >> \in Arrays /\ queue \in Seq(Block)
        /\ Len(queue) = 0 /\ DOMAIN queue = {}
    BY EmptySeq, LenProperties DEF Arrays, IsInjective
  <1>2. TypeOK
    BY <1>1, MaxQueueAssumption DEF TypeOK, NoCall
  <1>3. ArraysPointOnce
    BY <1>1 DEF ArraysPointOnce
  <1>4. Inquiries
    BY <1>1 DEF Inquiries, NoCall
  <1> QED BY <1>2, <1>3, <1>4 DEF FinderInv

(* What giving a block to the queue, and taking one from it, does.          *)
LEMMA SubmitFacts ==
    ASSUME TypeOK, NEW b \in Block, Submit(b)
    PROVE  \E n \in Nat :
             /\ n = Len(queue) /\ n < MaxQueue /\ DOMAIN queue = 1..n
             /\ queue' \in Seq(Block) /\ Len(queue') = n + 1 /\ DOMAIN queue' = 1..(n + 1)
             /\ queue'[n + 1] = b /\ \A i \in 1..n : queue'[i] = queue[i]
  <1>1. PICK n \in Nat : n = Len(queue) /\ DOMAIN queue = 1..n
    BY LenProperties DEF TypeOK
  <1>2. PICK q \in Seq(Block) : q = Append(queue, b)
    BY AppendProperties DEF TypeOK
  <1>3. Len(q) = n + 1 /\ q[n + 1] = b /\ \A i \in 1..n : q[i] = queue[i]
    BY <1>1, <1>2, AppendProperties DEF TypeOK
  <1>4. DOMAIN q = 1..(n + 1)
    BY <1>3, LenProperties
  <1> QED BY <1>1, <1>2, <1>3, <1>4 DEF Submit

LEMMA ServeFacts ==
    ASSUME TypeOK, queue # << >>, queue' = Tail(queue)
    PROVE  \E n \in Nat :
             /\ Len(queue) = n + 1 /\ DOMAIN queue = 1..(n + 1)
             /\ Head(queue) = queue[1] /\ Head(queue) \in Block
             /\ queue' \in Seq(Block) /\ Len(queue') = n /\ DOMAIN queue' = 1..n
             /\ \A i \in 1..n : queue'[i] = queue[i + 1]
  <1>1. queue \in Seq(Block)
    BY DEF TypeOK
  <1>2. PICK n \in Nat : Len(queue) = n + 1
    <2>1. Len(queue) \in Nat \ {0}
      BY <1>1, EmptySeq
    <2>2. Len(queue) - 1 \in Nat /\ Len(queue) = (Len(queue) - 1) + 1
      BY <2>1
    <2> QED BY <2>2
  <1>3. DOMAIN queue = 1..(n + 1)
    BY <1>1, <1>2, LenProperties
  <1>4. /\ Head(queue) \in Block /\ queue' \in Seq(Block) /\ Len(queue') = n
        /\ \A i \in 1..n : queue'[i] = queue[i + 1]
    BY <1>1, <1>2, HeadTailProperties
  <1>5. DOMAIN queue' = 1..n
    BY <1>4, LenProperties
  <1>6. Head(queue) = queue[1]
    BY <1>1
  <1> QED BY <1>2, <1>3, <1>4, <1>5, <1>6

LEMMA BlocksOfCalls ==
    /\ \A o \in Objs, ps \in SUBSET Protocols :
          /\ [kind |-> "register", obj |-> o, protocols |-> ps] \in Block
          /\ [kind |-> "remove", obj |-> o, protocols |-> ps] \in Block
    /\ \A t \in Threads, p \in Protocols :
          [kind |-> "find", thread |-> t, protocol |-> p] \in Block
  BY DEF Block

LEMMA SubmitKeepsInv ==
    ASSUME FinderInv, NEW b \in Block, b.kind # "find", Submit(b),
           UNCHANGED <<held, objArray, call>>
    PROVE  FinderInv'
  <1>1. PICK n \in Nat :
             /\ n = Len(queue) /\ n < MaxQueue /\ DOMAIN queue = 1..n
             /\ queue' \in Seq(Block) /\ Len(queue') = n + 1 /\ DOMAIN queue' = 1..(n + 1)
             /\ queue'[n + 1] = b /\ \A i \in 1..n : queue'[i] = queue[i]
    BY SubmitFacts DEF FinderInv
  <1>2. TypeOK'
    BY <1>1, MaxQueueAssumption DEF FinderInv, TypeOK
  <1>3. Inquiries'
    BY <1>1 DEF FinderInv, Inquiries, Asks
  <1> QED BY <1>2, <1>3 DEF FinderInv, ArraysPointOnce

LEMMA FindKeepsInv ==
    ASSUME FinderInv, NEW t \in Threads, NEW p \in Protocols, findObjForProtocol(t, p)
    PROVE  FinderInv'
  <1> DEFINE b == [kind |-> "find", thread |-> t, protocol |-> p]
  <1>1. PICK n \in Nat :
             /\ n = Len(queue) /\ n < MaxQueue /\ DOMAIN queue = 1..n
             /\ queue' \in Seq(Block) /\ Len(queue') = n + 1 /\ DOMAIN queue' = 1..(n + 1)
             /\ queue'[n + 1] = b /\ \A i \in 1..n : queue'[i] = queue[i]
    BY SubmitFacts, BlocksOfCalls DEF FinderInv, findObjForProtocol
  <1>2. TypeOK'
    <2>1. [call[t] EXCEPT !.state = "waiting"]
              \in [state : {"idle", "waiting", "running"}, objs : Seq(Objs)]
      BY DEF FinderInv, TypeOK
    <2>2. call' \in [Threads -> [state : {"idle", "waiting", "running"}, objs : Seq(Objs)]]
      BY <2>1 DEF FinderInv, TypeOK, findObjForProtocol
    <2> HIDE DEF b
    <2> QED BY <1>1, <2>2, MaxQueueAssumption DEF FinderInv, TypeOK, findObjForProtocol
  <1>3. /\ call[t].state = "idle" /\ call'[t].state = "waiting"
        /\ \A u \in Threads : u # t => call'[u] = call[u]
    BY DEF FinderInv, TypeOK, findObjForProtocol
  <1>4. \A i \in 1..n : queue[i].kind = "find" => queue[i].thread # t
    BY <1>1, <1>3 DEF FinderInv, Inquiries
  <1>5. \A i \in 1..n : queue[i].kind = "find" => queue[i].thread \in Threads
    <2> TAKE i \in 1..n
    <2>1. queue[i] \in Block
      BY <1>1, ElementOfSeq DEF FinderInv, TypeOK
    <2> QED BY <2>1, BlockFacts
  <1>6. b.kind = "find" /\ b.thread = t
    OBVIOUS
  <1> HIDE DEF b
  <1>7. \A u \in Threads : call'[u].state = "idle" => call'[u] = NoCall
    BY <1>3 DEF FinderInv, Inquiries
  <1>8. \A u \in Threads :
            call'[u].state = "waiting" => \E i \in DOMAIN queue' : Asks(u, i)'
    <2> TAKE u \in Threads
    <2>1. CASE u = t
      BY <1>1, <1>6, <2>1 DEF Asks
    <2>2. CASE u # t
      BY <1>1, <1>3, <2>2 DEF FinderInv, Inquiries, Asks
    <2> QED BY <2>1, <2>2
  <1>9. \A i \in DOMAIN queue' :
            queue'[i].kind = "find" => call'[queue'[i].thread].state = "waiting"
    <2> TAKE i \in DOMAIN queue'
    <2>1. CASE i = n + 1
      BY <1>1, <1>3, <1>6, <2>1
    <2>2. CASE i # n + 1
      BY <1>1, <1>3, <1>4, <1>5, <2>2 DEF FinderInv, Inquiries
    <2> QED BY <2>1, <2>2
  <1>10. \A u \in Threads : \A i, j \in DOMAIN queue' : Asks(u, i)' /\ Asks(u, j)' => i = j
    BY <1>1, <1>4, <1>6 DEF FinderInv, Inquiries, Asks
  <1>11. Inquiries'
    BY <1>7, <1>8, <1>9, <1>10 DEF Inquiries
  <1>12. ArraysPointOnce'
    BY DEF FinderInv, ArraysPointOnce, findObjForProtocol
  <1> QED BY <1>2, <1>11, <1>12 DEF FinderInv

LEMMA ServeKeepsInv ==
    ASSUME FinderInv, Serve
    PROVE  FinderInv'
  <1> DEFINE b == Head(queue)
  <1>1. PICK n \in Nat :
             /\ Len(queue) = n + 1 /\ DOMAIN queue = 1..(n + 1)
             /\ b = queue[1] /\ b \in Block
             /\ queue' \in Seq(Block) /\ Len(queue') = n /\ DOMAIN queue' = 1..n
             /\ \A i \in 1..n : queue'[i] = queue[i + 1]
    BY ServeFacts DEF FinderInv, Serve
  <1>2. n <= MaxQueue
    BY <1>1, MaxQueueAssumption DEF FinderInv, TypeOK
  <1>3. 1 \in 1..(n + 1) /\ \A i \in 1..n : i + 1 \in 1..(n + 1) /\ i + 1 # 1
    OBVIOUS
  <1>4. held' = held /\ RunBlock(b)
    BY DEF Serve
  <1> HIDE DEF b
  <1>5. \A p \in Protocols : objArray[p] \in Arrays
    BY DEF FinderInv, ArraysPointOnce
  <1>6. \A p \in Protocols : LiveObjs(objArray[p]) \in Arrays
    BY <1>5, OnlyIsArray DEF LiveObjs
  <1>7. CASE b.kind = "find"
    <2> DEFINE u == b.thread
               p == b.protocol
               got == [state |-> "running", objs |-> LiveObjs(objArray[p])]
    <2>1. u \in Threads /\ p \in Protocols
      BY <1>1, <1>7, BlockFacts
    <2>2. /\ objArray' = [objArray EXCEPT ![p] = LiveObjs(objArray[p])]
          /\ call' = [call EXCEPT ![u] = got]
      BY <1>4, <1>7 DEF RunBlock, ServeFind
    <2>3. Asks(u, 1)
      BY <1>1, <1>7 DEF Asks
    <2> HIDE DEF u, p
    <2>4. got \in [state : {"idle", "waiting", "running"}, objs : Seq(Objs)]
      BY <1>6, <2>1 DEF Arrays
    <2>5. got.state = "running"
      OBVIOUS
    <2> HIDE DEF got
    <2>6. ArraysPointOnce' /\ objArray' \in [Protocols -> Seq(Objs)]
      BY <1>5, <1>6, <2>1, <2>2 DEF ArraysPointOnce, Arrays, FinderInv, TypeOK
    <2>7. call' \in [Threads -> [state : {"idle", "waiting", "running"}, objs : Seq(Objs)]]
      BY <2>2, <2>4 DEF FinderInv, TypeOK
    <2>8. TypeOK'
      BY <1>1, <1>2, <1>4, <2>6, <2>7 DEF FinderInv, TypeOK
    <2>9. call'[u].state = "running" /\ \A t \in Threads : t # u => call'[t] = call[t]
      BY <2>1, <2>2, <2>5 DEF FinderInv, TypeOK
    <2>10. \A i \in 1..n : ~Asks(u, i + 1)
      BY <1>1, <1>3, <2>1, <2>3 DEF FinderInv, Inquiries
    <2>11. \A t \in Threads : call'[t].state = "idle" => call'[t] = NoCall
      BY <2>9 DEF FinderInv, Inquiries
    <2>12. ASSUME NEW t \in Threads, call'[t].state = "waiting"
           PROVE  \E i \in DOMAIN queue' : Asks(t, i)'
      <3>1. t # u /\ call[t].state = "waiting"
        BY <2>9, <2>12
      <3>2. PICK i \in 1..(n + 1) : Asks(t, i)
        BY <1>1, <3>1 DEF FinderInv, Inquiries
      <3>3. i # 1
        BY <2>3, <3>1, <3>2 DEF Asks
      <3>4. i - 1 \in 1..n /\ (i - 1) + 1 = i
        BY <3>3
      <3>5. queue'[i - 1] = queue[i]
        BY <1>1, <3>4
      <3> QED BY <1>1, <3>2, <3>4, <3>5 DEF Asks
    <2>13. ASSUME NEW i \in 1..n, queue'[i].kind = "find"
           PROVE  call'[queue'[i].thread].state = "waiting"
      <3>1. queue'[i] = queue[i + 1] /\ queue'[i] \in Block
        BY <1>1, ElementOfSeq
      <3>2. queue'[i].thread \in Threads
        BY <2>13, <3>1, BlockFacts
      <3>3. queue'[i].thread # u
        BY <2>10, <2>13, <3>1 DEF Asks
      <3>4. call[queue'[i].thread].state = "waiting"
        BY <1>1, <1>3, <2>13, <3>1 DEF FinderInv, Inquiries
      <3> QED BY <2>9, <3>2, <3>3, <3>4
    <2>14. \A t \in Threads : \A i, j \in DOMAIN queue' : Asks(t, i)' /\ Asks(t, j)' => i = j
      BY <1>1, <1>3 DEF FinderInv, Inquiries, Asks
    <2>15. Inquiries'
      BY <1>1, <2>11, <2>12, <2>13, <2>14 DEF Inquiries
    <2> QED BY <2>6, <2>8, <2>15 DEF FinderInv
  <1>8. CASE b.kind # "find"
    <2>1. /\ objArray' = [p \in Protocols |->
                 IF p \in b.protocols THEN AfterBlock(LiveObjs(objArray[p]), b, p)
                 ELSE objArray[p]]
          /\ call' = call
      BY <1>4, <1>8 DEF RunBlock
    <2>2. \A p \in Protocols : AfterBlock(LiveObjs(objArray[p]), b, p) \in Arrays
      BY <1>1, <1>6, AfterBlockIsArray
    <2>3. ArraysPointOnce' /\ objArray' \in [Protocols -> Seq(Objs)]
      BY <1>5, <2>1, <2>2 DEF ArraysPointOnce, Arrays
    <2>4. TypeOK'
      BY <1>1, <1>2, <1>4, <2>1, <2>3 DEF FinderInv, TypeOK
    <2>5. ASSUME NEW t \in Threads, call'[t].state = "waiting"
          PROVE  \E i \in DOMAIN queue' : Asks(t, i)'
      <3>1. PICK i \in 1..(n + 1) : Asks(t, i)
        BY <1>1, <2>1, <2>5 DEF FinderInv, Inquiries
      <3>2. i # 1
        BY <1>1, <1>8, <3>1 DEF Asks
      <3>3. i - 1 \in 1..n /\ (i - 1) + 1 = i
        BY <3>2
      <3>4. queue'[i - 1] = queue[i]
        BY <1>1, <3>3
      <3> QED BY <1>1, <3>1, <3>3, <3>4 DEF Asks
    <2>6. \A i \in DOMAIN queue' :
              queue'[i].kind = "find" => call'[queue'[i].thread].state = "waiting"
      BY <1>1, <1>3, <2>1 DEF FinderInv, Inquiries
    <2>7. \A t \in Threads : \A i, j \in DOMAIN queue' : Asks(t, i)' /\ Asks(t, j)' => i = j
      BY <1>1, <1>3 DEF FinderInv, Inquiries, Asks
    <2>8. Inquiries'
      BY <2>1, <2>5, <2>6, <2>7 DEF FinderInv, Inquiries
    <2> QED BY <2>3, <2>4, <2>8 DEF FinderInv
  <1> QED BY <1>7, <1>8

(* A call that is not in the queue may go on or end.                        *)
LEMMA CallKeepsInv ==
    ASSUME FinderInv, NEW t \in Threads, call[t].state = "running",
           NEW c \in [state : {"idle", "waiting", "running"}, objs : Seq(Objs)],
           c.state = "running" \/ c = NoCall,
           call' = [call EXCEPT ![t] = c], UNCHANGED <<held, objArray, queue>>
    PROVE  FinderInv'
  <1>1. /\ call'[t] = c /\ c.state # "waiting"
        /\ \A u \in Threads : u # t => call'[u] = call[u]
    BY DEF FinderInv, TypeOK, NoCall
  <1>2. TypeOK'
    BY DEF FinderInv, TypeOK
  <1>3. \A i \in DOMAIN queue : queue[i].kind = "find" => queue[i].thread # t
    BY DEF FinderInv, Inquiries
  <1>4. \A i \in DOMAIN queue : queue[i].kind = "find" => queue[i].thread \in Threads
    <2> TAKE i \in DOMAIN queue
    <2>1. queue[i] \in Block
      BY LenProperties, ElementOfSeq DEF FinderInv, TypeOK
    <2> QED BY <2>1, BlockFacts
  <1>5. Inquiries'
    BY <1>1, <1>3, <1>4 DEF FinderInv, Inquiries, Asks, NoCall
  <1> QED BY <1>2, <1>5 DEF FinderInv, ArraysPointOnce

LEMMA ExecuteFacts ==
    ASSUME FinderInv, NEW t \in Threads, execute(t)
    PROVE  /\ call[t].objs \in Seq(Objs) /\ Tail(call[t].objs) \in Seq(Objs)
           /\ call' = [call EXCEPT ![t] = [state |-> "running", objs |-> Tail(call[t].objs)]]
  <1>1. call[t].objs \in Seq(Objs) /\ call[t].objs # << >> /\ call[t].state = "running"
    BY DEF FinderInv, TypeOK, execute
  <1>2. Tail(call[t].objs) \in Seq(Objs)
    BY <1>1, HeadTailProperties
  <1>3. PICK c \in [state : {"idle", "waiting", "running"}, objs : Seq(Objs)] : c = call[t]
    BY DEF FinderInv, TypeOK
  <1>4. \A rest : [c EXCEPT !.objs = rest] = [state |-> c.state, objs |-> rest]
    BY <1>3
  <1> QED BY <1>1, <1>2, <1>3, <1>4 DEF execute

LEMMA NextKeepsInv ==
    ASSUME FinderInv, [Next]_finderVars
    PROVE  FinderInv'
  <1>1. ASSUME NEW t \in Threads, Call(t)
        PROVE  FinderInv'
    <2>1. ASSUME NEW o \in Objs, NEW ps \in SUBSET Protocols,
                 registerObj(t, o, ps) \/ removeObj(t, o, ps)
          PROVE  FinderInv'
      BY <2>1, BlocksOfCalls, SubmitKeepsInv DEF registerObj, removeObj
    <2> QED BY <1>1, <2>1, FindKeepsInv DEF Call
  <1>2. ASSUME NEW t \in Threads, execute(t)
        PROVE  FinderInv'
    <2> DEFINE c == [state |-> "running", objs |-> Tail(call[t].objs)]
    <2>1. /\ c \in [state : {"idle", "waiting", "running"}, objs : Seq(Objs)]
          /\ c.state = "running"
      BY <1>2, ExecuteFacts
    <2>2. /\ call' = [call EXCEPT ![t] = c] /\ call[t].state = "running"
          /\ UNCHANGED <<held, objArray, queue>>
      BY <1>2, ExecuteFacts DEF execute
    <2> HIDE DEF c
    <2> QED BY <2>1, <2>2, CallKeepsInv
  <1>3. ASSUME NEW t \in Threads, Return(t)
        PROVE  FinderInv'
    <2>1. NoCall \in [state : {"idle", "waiting", "running"}, objs : Seq(Objs)]
      BY EmptySeq DEF NoCall
    <2> QED BY <1>3, <2>1, CallKeepsInv DEF Return
  <1>4. ASSUME NEW o \in Objs, Release(o)
        PROVE  FinderInv'
    BY <1>4 DEF Release, FinderInv, TypeOK, ArraysPointOnce, Inquiries, Asks
  <1>5. CASE UNCHANGED finderVars
    BY <1>5 DEF finderVars, FinderInv, TypeOK, ArraysPointOnce, Inquiries, Asks
  <1> QED BY <1>1, <1>2, <1>3, <1>4, <1>5, ServeKeepsInv DEF Next

LEMMA InvHolds == Spec => []FinderInv
  <1>1. FinderInv /\ [Next]_finderVars => FinderInv'
    BY NextKeepsInv
  <1> QED BY <1>1, InitInv, PTL DEF Spec

-----------------------------------------------------------------------------
(* The refinement.  First the arrays: objects of T that are not in S die    *)
(* before the waiting blocks are applied, or after.                         *)
LEMMA Settle ==
    ASSUME NEW a \in Arrays, NEW q \in Seq(Block), NEW p, NEW S, NEW T, S \subseteq T,
           Keeps(S, q)
    PROVE  Only(S, Applied(Only(T, a), q, p)) = Applied(Only(S, a), q, p)
  <1>1. PICK c \in Arrays : c = Only(T, a)
    BY OnlyIsArray
  <1>2. Only(S, Applied(c, q, p)) = Applied(Only(S, c), q, p)
    BY AppliedOnly
  <1>3. Only(S, c) = Only(S \cap T, a) /\ S \cap T = S
    BY <1>1, OnlyOfOnly DEF Arrays
  <1> QED BY <1>1, <1>2, <1>3

LEMMA Prefix ==
    ASSUME NEW X, NEW q \in Seq(X), NEW k \in Nat, k <= Len(q)
    PROVE  /\ SubSeq(q, 1, k) \in Seq(X) /\ Len(SubSeq(q, 1, k)) = k
           /\ DOMAIN SubSeq(q, 1, k) = 1..k
           /\ \A i \in 1..k : SubSeq(q, 1, k)[i] = q[i]
  <1>1. \A i \in 1..k : q[i] \in X
    BY ElementOfSeq, LenProperties
  <1>2. SubSeq(q, 1, k) \in Seq(X) /\ \A i \in 1..k : SubSeq(q, 1, k)[i] = q[i]
    BY <1>1, SubSeqProperties
  <1>3. Len(SubSeq(q, 1, k)) = k
    BY <1>1, SubSeqProperties
  <1> QED BY <1>2, <1>3, LenProperties

LEMMA PrefixesAgree ==
    ASSUME NEW X, NEW q \in Seq(X), NEW r \in Seq(X), NEW k \in Nat,
           k <= Len(q), k <= Len(r), \A i \in 1..k : q[i] = r[i]
    PROVE  SubSeq(q, 1, k) = SubSeq(r, 1, k)
  <1> DEFINE u == SubSeq(q, 1, k)
             v == SubSeq(r, 1, k)
  <1>1. u \in Seq(X) /\ Len(u) = k /\ \A i \in 1..k : u[i] = q[i]
    BY Prefix
  <1>2. v \in Seq(X) /\ Len(v) = k /\ \A i \in 1..k : v[i] = r[i]
    BY Prefix
  <1> HIDE DEF u, v
  <1>3. u = v
    BY <1>1, <1>2, SeqEqual
  <1> QED BY <1>3 DEF u, v

LEMMA TailOfPrefix ==
    ASSUME NEW X, NEW q \in Seq(X), q # << >>, NEW k \in Nat, k + 1 <= Len(q)
    PROVE  /\ SubSeq(q, 1, k + 1) # << >>
           /\ Head(SubSeq(q, 1, k + 1)) = Head(q)
           /\ Tail(SubSeq(q, 1, k + 1)) = SubSeq(Tail(q), 1, k)
  <1> DEFINE m == k + 1
             u == SubSeq(q, 1, m)
             v == Tail(u)
             r == Tail(q)
             w == SubSeq(r, 1, k)
  <1>1. u \in Seq(X) /\ Len(u) = m /\ \A i \in 1..m : u[i] = q[i]
    <2>1. m \in Nat /\ m <= Len(q)
      OBVIOUS
    <2> HIDE DEF m
    <2> QED BY <2>1, Prefix
  <1> HIDE DEF u
  <1>2. u # << >>
    BY <1>1, EmptySeq
  <1>3. u[1] = q[1]
    BY <1>1
  <1>4. v \in Seq(X) /\ Len(v) = k /\ \A i \in 1..k : v[i] = u[i + 1]
    BY <1>1, <1>2, HeadTailProperties
  <1>5. r \in Seq(X) /\ Len(r) = Len(q) - 1 /\ \A i \in 1..Len(r) : r[i] = q[i + 1]
    BY HeadTailProperties
  <1> HIDE DEF v, r
  <1>6. k <= Len(r) /\ Len(q) \in Nat
    BY <1>5, LenProperties
  <1>7. w \in Seq(X) /\ Len(w) = k /\ \A i \in 1..k : w[i] = r[i]
    BY <1>5, <1>6, Prefix
  <1> HIDE DEF w
  <1>8. ASSUME NEW i \in 1..k
        PROVE  v[i] = w[i]
    <2>1. i + 1 \in 1..m /\ i \in 1..Len(r)
      BY <1>5, <1>6
    <2> QED BY <1>1, <1>4, <1>5, <1>7, <2>1
  <1>9. v = w
    BY <1>4, <1>7, <1>8, SeqEqual
  <1>10. Head(u) = u[1] /\ Head(q) = q[1]
    BY <1>1
  <1> QED BY <1>2, <1>3, <1>9, <1>10 DEF u, v, r, w

(* What the blocks in the queue and the arrays that were returned hold is   *)
(* alive, and nothing else.                                                 *)
IsAlive(o) == \/ o \in held
              \/ \E i \in DOMAIN queue : o \in RetainedByBlock(queue[i])
              \/ \E t \in Threads : o \in ToSet(call[t].objs)

LEMMA AliveFacts == \A o : o \in Alive <=> IsAlive(o)
  BY DEF Alive, IsAlive

LEMMA AliveFactsNext == (\A o : o \in Alive <=> IsAlive(o))'
  BY AliveFacts, PTL

(* The mapped state: what a thread that waits has seen.                     *)
Waits(t, i) ==
    /\ i \in 1..Len(queue) /\ Asks(t, i)
    /\ call[t].state = "waiting"
    /\ queue[i].protocol \in Protocols
    /\ SubSeq(queue, 1, i - 1) \in Seq(Block)
    /\ Keeps(Alive, SubSeq(queue, 1, i - 1))
    /\ Seen(t) = [state |-> "asking",
                  objs |-> Registered(queue[i].protocol, SubSeq(queue, 1, i - 1))]

SeenFacts ==
    \A t \in Threads :
        \/ /\ call[t].state # "waiting"
           /\ Seen(t) = [state |-> IF call[t].state = "running" THEN "telling" ELSE "idle",
                         objs |-> call[t].objs]
        \/ \E i \in 1..Len(queue) : Waits(t, i)

LEMMA SeenIsKnown == FinderInv => SeenFacts
  <1> SUFFICES ASSUME FinderInv, NEW t \in Threads, call[t].state = "waiting"
               PROVE  \E i \in 1..Len(queue) : Waits(t, i)
    BY DEF SeenFacts, Seen
  <1>1. PICK n \in Nat : n = Len(queue) /\ DOMAIN queue = 1..n /\ queue \in Seq(Block)
    BY LenProperties DEF FinderInv, TypeOK
  <1>2. PICK i \in 1..n : Asks(t, i)
    BY <1>1 DEF FinderInv, Inquiries
  <1>3. \A j \in 1..n : Asks(t, j) => j = i
    BY <1>1, <1>2 DEF FinderInv, Inquiries
  <1>4. (CHOOSE j \in DOMAIN queue : Asks(t, j)) = i
    BY <1>1, <1>2, <1>3
  <1>5. queue[i].protocol \in Protocols
    <2>1. queue[i] \in Block
      BY <1>1, ElementOfSeq
    <2> QED BY <1>2, <2>1, BlockFacts DEF Asks
  <1>6. i - 1 \in Nat /\ i - 1 <= Len(queue)
    BY <1>1
  <1> DEFINE k == i - 1
             q == SubSeq(queue, 1, k)
  <1>7. q \in Seq(Block) /\ DOMAIN q = 1..k /\ \A j \in 1..k : q[j] = queue[j]
    <2> HIDE DEF k
    <2> QED BY <1>1, <1>6, Prefix DEF k
  <1>8. Keeps(Alive, q)
    BY <1>1, <1>7, AliveFacts DEF Keeps, IsAlive
  <1>9. Seen(t) = [state |-> "asking",
                   objs |-> Registered(queue[i].protocol, SubSeq(queue, 1, i - 1))]
    BY <1>4, Zenon DEF Seen, Asks
  <1>10. Waits(t, i)
    BY <1>1, <1>2, <1>5, <1>7, <1>8, <1>9 DEF Waits
  <1> QED BY <1>1, <1>10

LEMMA SeenIsKnownNext == FinderInv' => SeenFacts'
  BY SeenIsKnown, PTL

Telling(t) == Seen(t) = [state |-> IF call[t].state = "running" THEN "telling" ELSE "idle",
                         objs |-> call[t].objs]

LEMMA TellingIsKnown == \A t \in Threads : call[t].state # "waiting" => Telling(t)
  BY DEF Seen, Telling

LEMMA TellingIsKnownNext == (\A t \in Threads : call[t].state # "waiting" => Telling(t))'
  BY TellingIsKnown, PTL

(* No step makes an object: what is alive after it was alive                *)
(* before.                                                                  *)
LEMMA SubmitAlive ==
    ASSUME FinderInv, NEW b \in Block, Submit(b), UNCHANGED <<held, call>>,
           RetainedByBlock(b) \subseteq Alive
    PROVE  Alive' = Alive
  <1>1. PICK n \in Nat :
             /\ n = Len(queue) /\ n < MaxQueue /\ DOMAIN queue = 1..n
             /\ queue' \in Seq(Block) /\ Len(queue') = n + 1 /\ DOMAIN queue' = 1..(n + 1)
             /\ queue'[n + 1] = b /\ \A i \in 1..n : queue'[i] = queue[i]
    BY SubmitFacts DEF FinderInv
  <1>2. ASSUME NEW o
        PROVE  IsAlive(o)' <=> IsAlive(o)
    <2>1. ASSUME NEW i \in 1..(n + 1), o \in RetainedByBlock(queue'[i])
          PROVE  IsAlive(o)
      <3>1. CASE i = n + 1
        BY <1>1, <2>1, <3>1, AliveFacts
      <3>2. CASE i # n + 1
        BY <1>1, <2>1, <3>2 DEF IsAlive
      <3> QED BY <3>1, <3>2
    <2>2. IsAlive(o)' => IsAlive(o)
      BY <1>1, <2>1 DEF IsAlive, RetainedByBlock
    <2>3. IsAlive(o) => IsAlive(o)'
      BY <1>1 DEF IsAlive, RetainedByBlock
    <2> QED BY <2>2, <2>3
  <1> QED BY <1>2, AliveFacts, AliveFactsNext

LEMMA FindAlive ==
    ASSUME FinderInv, NEW t \in Threads, NEW p \in Protocols, findObjForProtocol(t, p)
    PROVE  Alive' = Alive
  <1> DEFINE b == [kind |-> "find", thread |-> t, protocol |-> p]
  <1>1. PICK n \in Nat :
             /\ n = Len(queue) /\ n < MaxQueue /\ DOMAIN queue = 1..n
             /\ queue' \in Seq(Block) /\ Len(queue') = n + 1 /\ DOMAIN queue' = 1..(n + 1)
             /\ queue'[n + 1] = b /\ \A i \in 1..n : queue'[i] = queue[i]
    BY SubmitFacts, BlocksOfCalls DEF FinderInv, findObjForProtocol
  <1>2. RetainedByBlock(b) = {}
    BY DEF RetainedByBlock
  <1> HIDE DEF b
  <1>3. held' = held /\ \A u \in Threads : call'[u].objs = call[u].objs
    BY DEF FinderInv, TypeOK, findObjForProtocol
  <1>4. ASSUME NEW o
        PROVE  IsAlive(o)' <=> IsAlive(o)
    <2>1. ASSUME NEW i \in 1..(n + 1), o \in RetainedByBlock(queue'[i])
          PROVE  IsAlive(o)
      <3>1. CASE i = n + 1
        BY <1>1, <1>2, <2>1, <3>1 DEF IsAlive
      <3>2. CASE i # n + 1
        BY <1>1, <2>1, <3>2 DEF IsAlive
      <3> QED BY <3>1, <3>2
    <2>2. IsAlive(o)' => IsAlive(o)
      BY <1>1, <1>3, <2>1 DEF IsAlive, RetainedByBlock
    <2>3. IsAlive(o) => IsAlive(o)'
      BY <1>1, <1>3 DEF IsAlive, RetainedByBlock
    <2> QED BY <2>2, <2>3
  <1> QED BY <1>4, AliveFacts, AliveFactsNext

LEMMA LiveObjsAlive ==
    ASSUME FinderInv, NEW p \in Protocols
    PROVE  ToSet(LiveObjs(objArray[p])) \subseteq Alive
  <1>1. objArray[p] \in Seq(Objs)
    BY DEF FinderInv, TypeOK
  <1> QED BY <1>1, ElemsOfOnly DEF LiveObjs

LEMMA ServeAlive ==
    ASSUME FinderInv, Serve
    PROVE  Alive' \subseteq Alive
  <1> DEFINE b == Head(queue)
  <1>1. PICK n \in Nat :
             /\ Len(queue) = n + 1 /\ DOMAIN queue = 1..(n + 1)
             /\ b = queue[1] /\ b \in Block
             /\ queue' \in Seq(Block) /\ Len(queue') = n /\ DOMAIN queue' = 1..n
             /\ \A i \in 1..n : queue'[i] = queue[i + 1]
    BY ServeFacts DEF FinderInv, Serve
  <1>2. held' = held /\ RunBlock(b)
    BY DEF Serve
  <1> HIDE DEF b
  <1>3. ASSUME NEW u \in Threads
        PROVE  call'[u].objs = call[u].objs \/ ToSet(call'[u].objs) \subseteq Alive
    <2>1. CASE b.kind = "find"
      <3>1. b.protocol \in Protocols
        BY <1>1, <2>1, BlockFacts
      <3>2. ToSet(LiveObjs(objArray[b.protocol])) \subseteq Alive
        BY <3>1, LiveObjsAlive
      <3>3. call' = [call EXCEPT ![b.thread] =
                        [state |-> "running", objs |-> LiveObjs(objArray[b.protocol])]]
        BY <1>2, <2>1 DEF RunBlock, ServeFind
      <3> QED BY <3>2, <3>3 DEF FinderInv, TypeOK
    <2>2. CASE b.kind # "find"
      BY <1>2, <2>2 DEF RunBlock
    <2> QED BY <2>1, <2>2
  <1>4. ASSUME NEW o, IsAlive(o)'
        PROVE  IsAlive(o)
    <2>1. CASE \E i \in 1..n : o \in RetainedByBlock(queue'[i])
      <3>1. \A i \in 1..n : i + 1 \in 1..(n + 1)
        OBVIOUS
      <3> QED BY <1>1, <2>1, <3>1 DEF IsAlive
    <2>2. CASE \E u \in Threads : o \in ToSet(call'[u].objs)
      BY <1>3, <2>2, AliveFacts DEF IsAlive
    <2> QED BY <1>1, <1>2, <1>4, <2>1, <2>2 DEF IsAlive, RetainedByBlock
  <1> QED BY <1>4, AliveFacts, AliveFactsNext

LEMMA CallAlive ==
    ASSUME FinderInv, queue' = queue, held' \subseteq held,
           \A t \in Threads : ToSet(call'[t].objs) \subseteq ToSet(call[t].objs)
    PROVE  Alive' \subseteq Alive
  <1>1. \A o : IsAlive(o)' => IsAlive(o)
    BY DEF IsAlive, RetainedByBlock
  <1> QED BY <1>1, AliveFacts, AliveFactsNext

LEMMA RestIsPart ==
    ASSUME NEW X, NEW s \in Seq(X), s # << >>
    PROVE  ToSet(Tail(s)) \subseteq ToSet(s)
  <1>1. PICK n \in Nat : n = Len(s) /\ DOMAIN s = 1..n
    BY LenProperties
  <1>2. PICK r \in Seq(X) :
            r = Tail(s) /\ Len(r) = n - 1 /\ \A i \in 1..Len(r) : r[i] = s[i + 1]
    BY <1>1, HeadTailProperties
  <1>3. \A i \in 1..(n - 1) : i + 1 \in 1..n
    BY <1>1
  <1>4. DOMAIN r = 1..(n - 1)
    BY <1>2, LenProperties
  <1> QED BY <1>1, <1>2, <1>3, <1>4 DEF ToSet

-----------------------------------------------------------------------------
(* The mapped state after a step, from the mapped state before.             *)
StillSeen(t) ==
    Seen(t)' = [state |-> Seen(t).state, objs |-> Only(Alive', Seen(t).objs)]

LEMMA TellingStays ==
    ASSUME FinderInv, FinderInv', NEW t \in Threads,
           call[t].state # "waiting", call'[t] = call[t]
    PROVE  StillSeen(t)
  <1>1. Seen(t) = [state |-> IF call[t].state = "running" THEN "telling" ELSE "idle",
                   objs |-> call[t].objs]
    BY TellingIsKnown DEF Telling
  <1>2. Seen(t)' = [state |-> IF call'[t].state = "running" THEN "telling" ELSE "idle",
                    objs |-> call'[t].objs]
    BY TellingIsKnownNext DEF Telling
  <1>3. call'[t].objs \in Seq(Objs) /\ ToSet(call'[t].objs) \subseteq Alive'
    BY AliveFactsNext DEF IsAlive, FinderInv, TypeOK
  <1>4. Only(Alive', call'[t].objs) = call'[t].objs
    BY <1>3, OnlyOfAll
  <1> QED BY <1>1, <1>2, <1>4 DEF StillSeen

LEMMA WaitingStays ==
    ASSUME FinderInv, FinderInv', NEW t \in Threads, Alive' \subseteq Alive,
           call[t].state = "waiting", call'[t] = call[t], objArray' = objArray,
           Len(queue) <= Len(queue'), \A i \in 1..Len(queue) : queue'[i] = queue[i]
    PROVE  StillSeen(t)
  <1>1. /\ Len(queue) \in Nat /\ Len(queue') \in Nat
        /\ DOMAIN queue' = 1..Len(queue')
        /\ queue \in Seq(Block) /\ queue' \in Seq(Block)
    BY LenProperties DEF FinderInv, TypeOK
  <1>2. PICK i \in 1..Len(queue) : Waits(t, i)
    BY SeenIsKnown DEF SeenFacts
  <1>3. PICK j \in 1..Len(queue') : Waits(t, j)'
    BY SeenIsKnownNext DEF SeenFacts, Waits
  <1>4. i = j
    <2>1. Asks(t, i)' /\ Asks(t, j)' /\ i \in 1..Len(queue')
      BY <1>1, <1>2, <1>3 DEF Waits, Asks
    <2> QED BY <1>1, <1>3, <2>1 DEF FinderInv, Inquiries
  <1> DEFINE p == queue[i].protocol
             k == i - 1
             q == SubSeq(queue, 1, k)
  <1>5. q = SubSeq(queue', 1, k)
    <2>1. k \in Nat /\ k <= Len(queue) /\ k <= Len(queue') /\ \A m \in 1..k : queue'[m] = queue[m]
      BY <1>1
    <2> HIDE DEF k
    <2> QED BY <1>1, <2>1, PrefixesAgree
  <1>6. queue'[i] = queue[i]
    BY <1>2
  <1>7. p \in Protocols /\ q \in Seq(Block)
        /\ Seen(t) = [state |-> "asking", objs |-> Registered(p, q)]
    BY <1>2 DEF Waits
  <1>8. /\ Keeps(Alive', q)
        /\ Seen(t)' = [state |-> "asking", objs |-> Applied(Only(Alive', objArray[p]), q, p)]
    BY <1>3, <1>4, <1>5, <1>6 DEF Waits, Registered, LiveObjs
  <1> HIDE DEF p, q
  <1>9. objArray[p] \in Arrays
    BY <1>7 DEF FinderInv, ArraysPointOnce
  <1>10. Only(Alive', Applied(Only(Alive, objArray[p]), q, p))
             = Applied(Only(Alive', objArray[p]), q, p)
    BY <1>7, <1>8, <1>9, Settle
  <1> QED BY <1>7, <1>8, <1>10 DEF StillSeen, Registered, LiveObjs

(* Any step but the submission of a block and its execution.                *)
LEMMA RegistryStays ==
    ASSUME FinderInv, NEW p \in Protocols, Alive' \subseteq Alive,
           objArray' = objArray, queue' = queue
    PROVE  Registered(p, queue)' = Only(Alive', Registered(p, queue))
  <1>1. queue \in Seq(Block) /\ objArray[p] \in Arrays
    BY DEF FinderInv, TypeOK, ArraysPointOnce
  <1>2. Keeps(Alive', queue)
    BY AliveFactsNext DEF Keeps, IsAlive
  <1> QED BY <1>1, <1>2, Settle DEF Registered, LiveObjs

RegistryLives == \A p \in Protocols : Only(Alive, Registered(p, queue)) = Registered(p, queue)

LEMMA RegistryIsAlive == FinderInv => RegistryLives
  <1> SUFFICES ASSUME FinderInv, NEW p \in Protocols
               PROVE  Only(Alive, Registered(p, queue)) = Registered(p, queue)
    BY DEF RegistryLives
  <1>1. queue \in Seq(Block) /\ objArray[p] \in Arrays
    BY DEF FinderInv, TypeOK, ArraysPointOnce
  <1>2. Keeps(Alive, queue)
    BY AliveFacts DEF Keeps, IsAlive
  <1> QED BY <1>1, <1>2, Settle DEF Registered, LiveObjs

LEMMA RegistryIsAliveNext == FinderInv' => RegistryLives'
  BY RegistryIsAlive, PTL

LEMMA RegistrySubmits ==
    ASSUME FinderInv, NEW p \in Protocols, Alive' = Alive, objArray' = objArray,
           NEW b \in Block, queue' = Append(queue, b)
    PROVE  Registered(p, queue)' = AfterBlock(Registered(p, queue), b, p)
  <1>1. queue \in Seq(Block) /\ objArray[p] \in Arrays
    BY DEF FinderInv, TypeOK, ArraysPointOnce
  <1> DEFINE c == Only(Alive, objArray[p])
  <1>2. /\ Registered(p, queue)' = Applied(c, Append(queue, b), p)
        /\ Registered(p, queue) = Applied(c, queue, p)
    BY DEF Registered, LiveObjs
  <1>3. c \in Arrays
    BY <1>1, OnlyIsArray
  <1> HIDE DEF c
  <1>4. Applied(c, Append(queue, b), p) = AfterBlock(Applied(c, queue, p), b, p)
    BY <1>1, <1>3, AppliedOfAppend
  <1> QED BY <1>2, <1>4

(* The execution of a block: the array it leaves, with the blocks behind it *)
(* applied, is the array it found, with the block and those behind it.      *)
LEMMA ServedArray ==
    ASSUME FinderInv, Serve, Alive' \subseteq Alive, NEW p \in Protocols
    PROVE  Only(Alive', objArray'[p])
             = Only(Alive', AfterBlock(LiveObjs(objArray[p]), Head(queue), p))
  <1> DEFINE b == Head(queue)
             a == objArray[p]
             c == LiveObjs(a)
  <1>1. b \in Block
    BY ServeFacts DEF FinderInv, Serve
  <1>2. a \in Seq(Objs)
    BY DEF FinderInv, TypeOK
  <1>3. Only(Alive', c) = Only(Alive', a)
    <2>1. Only(Alive', Only(Alive, a)) = Only(Alive' \cap Alive, a)
      BY <1>2, OnlyOfOnly
    <2>2. Alive' \cap Alive = Alive'
      OBVIOUS
    <2> QED BY <2>1, <2>2 DEF LiveObjs
  <1>4. RunBlock(b)
    BY DEF Serve
  <1>5. CASE b.kind = "find"
    <2>1. objArray'[p] = IF p = b.protocol THEN c ELSE a
      BY <1>4, <1>5 DEF RunBlock, FinderInv, TypeOK
    <2>2. AfterBlock(c, b, p) = c
      BY <1>5 DEF AfterBlock
    <2> QED BY <1>3, <2>1, <2>2
  <1>6. CASE b.kind # "find"
    <2>1. objArray'[p] = IF p \in b.protocols THEN AfterBlock(c, b, p) ELSE a
      BY <1>4, <1>6 DEF RunBlock
    <2>2. p \notin b.protocols => AfterBlock(c, b, p) = c
      BY <1>6 DEF AfterBlock
    <2> QED BY <1>3, <2>1, <2>2
  <1> QED BY <1>5, <1>6

LEMMA RegistryServes ==
    ASSUME FinderInv, Serve, Alive' \subseteq Alive, NEW p \in Protocols,
           NEW q \in Seq(Block), q # << >>, Head(q) = Head(queue), Keeps(Alive', Tail(q))
    PROVE  Applied(Only(Alive', objArray'[p]), Tail(q), p)
             = Only(Alive', Applied(LiveObjs(objArray[p]), q, p))
  <1> DEFINE b == Head(q)
             c == LiveObjs(objArray[p])
             d == AfterBlock(c, b, p)
             r == Tail(q)
  <1>1. b \in Block /\ r \in Seq(Block) /\ Keeps(Alive', r)
    BY HeadTailProperties
  <1>2. c \in Arrays
    BY OnlyIsArray DEF FinderInv, ArraysPointOnce, LiveObjs
  <1>3. Only(Alive', objArray'[p]) = Only(Alive', d)
    BY ServedArray
  <1> HIDE DEF c
  <1>4. d \in Arrays
    BY <1>1, <1>2, AfterBlockIsArray
  <1>5. Applied(c, q, p) = Applied(d, r, p)
    BY <1>2, AppliedOfTail
  <1> HIDE DEF d, b, r
  <1>6. Only(Alive', Applied(d, r, p)) = Applied(Only(Alive', d), r, p)
    BY <1>1, <1>4, AppliedOnly
  <1> QED BY <1>3, <1>5, <1>6 DEF c, r

LEMMA WaitingServed ==
    ASSUME FinderInv, FinderInv', Serve, Alive' \subseteq Alive, NEW t \in Threads,
           call[t].state = "waiting", call'[t] = call[t]
    PROVE  StillSeen(t)
  <1>1. PICK n \in Nat :
             /\ Len(queue) = n + 1 /\ DOMAIN queue = 1..(n + 1)
             /\ Len(queue') = n /\ \A i \in 1..n : queue'[i] = queue[i + 1]
    BY ServeFacts DEF FinderInv, Serve
  <1>2. queue \in Seq(Block) /\ queue # << >> /\ queue' = Tail(queue)
    BY DEF FinderInv, TypeOK, Serve
  <1>3. PICK i \in 1..(n + 1) : Waits(t, i)
    BY <1>1, SeenIsKnown DEF SeenFacts
  <1>4. PICK j \in 1..n : Waits(t, j)'
    BY <1>1, SeenIsKnownNext DEF SeenFacts, Waits
  <1>5. i = j + 1 /\ queue'[j] = queue[i]
    <2>1. queue'[j] = queue[j + 1] /\ j + 1 \in 1..(n + 1)
      BY <1>1
    <2>2. Asks(t, j + 1) /\ Asks(t, i)
      BY <1>3, <1>4, <2>1 DEF Waits, Asks
    <2> QED BY <1>1, <2>1, <2>2 DEF FinderInv, Inquiries
  <1> DEFINE p == queue[i].protocol
             k == j - 1
             q == SubSeq(queue, 1, k + 1)
             r == SubSeq(queue', 1, k)
  <1>6. k + 1 = i - 1 /\ k \in Nat /\ k + 1 <= Len(queue) /\ k = j - 1
    BY <1>1, <1>5
  <1>7. /\ p \in Protocols /\ q \in Seq(Block)
        /\ Seen(t) = [state |-> "asking", objs |-> Registered(p, q)]
    BY <1>3, <1>6 DEF Waits
  <1>8. /\ Keeps(Alive', r)
        /\ Seen(t)' = [state |-> "asking", objs |-> Applied(Only(Alive', objArray'[p]), r, p)]
    BY <1>4, <1>5 DEF Waits, Registered, LiveObjs
  <1> HIDE DEF k
  <1>9. q # << >> /\ Head(q) = Head(queue) /\ Tail(q) = r
    BY <1>2, <1>6, TailOfPrefix
  <1> HIDE DEF p, q, r
  <1>10. Keeps(Alive', Tail(q))
    BY <1>8, <1>9
  <1>11. Applied(Only(Alive', objArray'[p]), Tail(q), p)
             = Only(Alive', Applied(LiveObjs(objArray[p]), q, p))
    BY <1>7, <1>9, <1>10, RegistryServes
  <1>12. Applied(Only(Alive', objArray'[p]), r, p) = Only(Alive', Registered(p, q))
    BY <1>9, <1>11 DEF Registered
  <1> QED BY <1>7, <1>8, <1>12 DEF StillSeen

LEMMA AnswerIsSeen ==
    ASSUME FinderInv, FinderInv', Serve, Head(queue).kind = "find",
           NEW t \in Threads, t = Head(queue).thread
    PROVE  /\ Seen(t).state = "asking"
           /\ Seen(t)' = [state |-> "telling", objs |-> Seen(t).objs]
           /\ Only(Alive', Seen(t).objs) = Seen(t).objs
           /\ ToSet(Seen(t).objs) \subseteq Alive'
           /\ \A u \in Threads : u # t => call'[u] = call[u]
  <1> DEFINE b == Head(queue)
             p == b.protocol
  <1>1. PICK n \in Nat :
             /\ Len(queue) = n + 1 /\ DOMAIN queue = 1..(n + 1)
             /\ b = queue[1] /\ b \in Block
    BY ServeFacts DEF FinderInv, Serve
  <1>2. p \in Protocols
    BY <1>1, BlockFacts
  <1>3. call' = [call EXCEPT ![t] = [state |-> "running", objs |-> LiveObjs(objArray[p])]]
    BY DEF Serve, RunBlock, ServeFind
  <1>4. Asks(t, 1) /\ call[t].state = "waiting" /\ 1 \in 1..(n + 1)
    BY <1>1, <1>2 DEF Asks, FinderInv, Inquiries
  <1>5. PICK i \in 1..(n + 1) : Waits(t, i)
    BY <1>1, <1>2, <1>4, SeenIsKnown DEF SeenFacts
  <1>6. i = 1
    BY <1>1, <1>2, <1>4, <1>5 DEF Waits, FinderInv, Inquiries
  <1>7. SubSeq(queue, 1, i - 1) = << >> /\ queue[i].protocol = p
    BY <1>1, <1>6, SubSeqEmpty
  <1>8. Seen(t) = [state |-> "asking", objs |-> Registered(p, << >>)]
    BY <1>5, <1>7 DEF Waits
  <1> HIDE DEF p, b
  <1>9. Registered(p, << >>) = LiveObjs(objArray[p])
    <2>1. LiveObjs(objArray[p]) \in Arrays
      BY <1>2, OnlyIsArray DEF LiveObjs, FinderInv, ArraysPointOnce
    <2> QED BY <2>1, AppliedOfEmpty DEF Registered
  <1>10. /\ call'[t] = [state |-> "running", objs |-> LiveObjs(objArray[p])]
         /\ \A u \in Threads : u # t => call'[u] = call[u]
    BY <1>2, <1>3 DEF FinderInv, TypeOK
  <1>11. Seen(t)' = [state |-> "telling", objs |-> LiveObjs(objArray[p])]
    <2>1. call'[t].state = "running" /\ call'[t].objs = LiveObjs(objArray[p])
      BY <1>10
    <2>2. Seen(t)' = [state |-> IF call'[t].state = "running" THEN "telling" ELSE "idle",
                      objs |-> call'[t].objs]
      BY <1>2, <2>1, TellingIsKnownNext DEF Telling
    <2> QED BY <2>1, <2>2
  <1>12. LiveObjs(objArray[p]) \in Seq(Objs) /\ ToSet(LiveObjs(objArray[p])) \subseteq Alive'
    BY <1>2, <1>10, AliveFactsNext DEF IsAlive, FinderInv, TypeOK
  <1>13. Only(Alive', LiveObjs(objArray[p])) = LiveObjs(objArray[p])
    BY <1>12, OnlyOfAll
  <1> QED BY <1>8, <1>9, <1>10, <1>11, <1>12, <1>13

-----------------------------------------------------------------------------
(* Every step of the finder is a step of the registry.                      *)
reg == [p \in Protocols |-> Registered(p, queue)]
view == [t \in Threads |-> Seen(t)]

LEMMA SameOnly ==
    /\ \A S, s : Registry!Only(S, s) = Only(S, s)
    /\ \A s : Registry!ToSet(s) = ToSet(s)
    /\ \A s, o : Registry!Contains(s, o) = Contains(s, o)
  BY DEF Registry!Only, Only, Registry!ToSet, ToSet, Registry!Contains, Contains

LEMMA StepIs ==
    ASSUME NEW newReg, NEW newView
    PROVE  Registry!Step(newReg, newView) <=>
               /\ Alive' \subseteq Alive
               /\ \A t \in Threads : newView[t].state = "telling" =>
                      ToSet(newView[t].objs) \subseteq Alive'
               /\ view' = [t \in Threads |-> [newView[t] EXCEPT !.objs = Only(Alive', @)]]
               /\ reg' = [p \in Protocols |-> Only(Alive', newReg[p])]
  BY SameOnly DEF Registry!Step, reg, view

(* The step shows `old' of thread t.                                        *)
Shown(old, t) ==
    /\ old = [state |-> old.state, objs |-> old.objs]
    /\ Seen(t)' = [state |-> old.state, objs |-> Only(Alive', old.objs)]
    /\ old.state = "telling" => ToSet(old.objs) \subseteq Alive'

LEMMA StepFrom ==
    ASSUME Alive' \subseteq Alive, NEW newReg, NEW newView,
           \A p \in Protocols : Registered(p, queue)' = Only(Alive', newReg[p]),
           \A t \in Threads : Shown(newView[t], t)
    PROVE  Registry!Step(newReg, newView)
  <1>1. view' = [t \in Threads |-> Seen(t)'] /\ reg' = [p \in Protocols |-> Registered(p, queue)']
    BY DEF view, reg
  <1>2. ASSUME NEW t \in Threads
        PROVE  Seen(t)' = [newView[t] EXCEPT !.objs = Only(Alive', @)]
    <2>1. PICK v : v = newView[t]
      OBVIOUS
    <2>2. v = [state |-> v.state, objs |-> v.objs]
          /\ Seen(t)' = [state |-> v.state, objs |-> Only(Alive', v.objs)]
      BY <2>1 DEF Shown
    <2>3. [v EXCEPT !.objs = Only(Alive', @)] = [state |-> v.state, objs |-> Only(Alive', v.objs)]
      BY <2>2
    <2> QED BY <2>1, <2>2, <2>3
  <1>3. view' = [t \in Threads |-> [newView[t] EXCEPT !.objs = Only(Alive', @)]]
    BY <1>1, <1>2
  <1>4. reg' = [p \in Protocols |-> Only(Alive', newReg[p])]
    BY <1>1
  <1> QED BY <1>3, <1>4, StepIs DEF Shown

LEMMA ThreadStays ==
    ASSUME FinderInv, FinderInv', NEW t \in Threads, StillSeen(t), call'[t] = call[t]
    PROVE  Shown(Seen(t), t)
  <1>1. Seen(t) = [state |-> Seen(t).state, objs |-> Seen(t).objs]
    BY SeenIsKnown DEF SeenFacts, Waits
  <1>2. ASSUME Seen(t).state = "telling"
        PROVE  ToSet(Seen(t).objs) \subseteq Alive'
    <2>1. Seen(t).objs = call'[t].objs
      BY <1>2, SeenIsKnown DEF SeenFacts, Waits
    <2> QED BY <2>1, AliveFactsNext DEF IsAlive
  <1> QED BY <1>1, <1>2 DEF StillSeen, Shown

(* Any step but the execution of a block, for a thread it is not of.        *)
LEMMA OthersStay ==
    ASSUME FinderInv, FinderInv', Alive' \subseteq Alive, NEW t \in Threads,
           call'[t] = call[t], objArray' = objArray,
           Len(queue) <= Len(queue'), \A i \in 1..Len(queue) : queue'[i] = queue[i]
    PROVE  Shown(Seen(t), t)
  BY TellingStays, WaitingStays, ThreadStays

LEMMA QuietStays ==
    ASSUME FinderInv, FinderInv', Alive' \subseteq Alive, NEW t \in Threads,
           call'[t] = call[t], objArray' = objArray, queue' = queue
    PROVE  Shown(Seen(t), t)
  <1>1. Len(queue) \in Nat
    BY LenProperties DEF FinderInv, TypeOK
  <1> QED BY <1>1, OthersStay

LEMMA SubmitStays ==
    ASSUME FinderInv, FinderInv', Alive' \subseteq Alive, NEW t \in Threads,
           call'[t] = call[t], objArray' = objArray, NEW b \in Block, Submit(b)
    PROVE  Shown(Seen(t), t)
  <1>1. Len(queue) <= Len(queue') /\ \A i \in 1..Len(queue) : queue'[i] = queue[i]
    BY SubmitFacts DEF FinderInv
  <1> QED BY <1>1, OthersStay

LEMMA RegisterStep ==
    ASSUME FinderInv, FinderInv', NEW t \in Threads, NEW o \in Objs,
           NEW ps \in SUBSET Protocols, registerObj(t, o, ps)
    PROVE  Registry!Register(o, ps)
  <1> DEFINE b == [kind |-> "register", obj |-> o, protocols |-> ps]
             newReg == [p \in Protocols |-> IF p \in ps /\ ~Contains(reg[p], o)
                                            THEN Append(reg[p], o) ELSE reg[p]]
  <1>1. /\ b \in Block /\ RetainedByBlock(b) = {o}
        /\ b.kind = "register" /\ b.obj = o /\ b.protocols = ps
    BY BlocksOfCalls DEF RetainedByBlock
  <1>2. o \in Known(t) /\ Submit(b) /\ UNCHANGED <<held, objArray, call>>
    BY DEF registerObj
  <1> HIDE DEF b
  <1>3. o \in Alive
    BY <1>2, AliveFacts DEF IsAlive, Known
  <1>4. Alive' = Alive
    BY <1>1, <1>2, <1>3, SubmitAlive
  <1>5. ASSUME NEW p \in Protocols
        PROVE  Registered(p, queue)' = Only(Alive', newReg[p])
    <2>1. Registered(p, queue)' = AfterBlock(Registered(p, queue), b, p)
      BY <1>1, <1>2, <1>4, RegistrySubmits DEF Submit
    <2>2. newReg[p] = AfterBlock(Registered(p, queue), b, p)
      BY <1>1 DEF AfterBlock, AddObj, reg
    <2>3. Only(Alive', Registered(p, queue)') = Registered(p, queue)'
      BY RegistryIsAliveNext DEF RegistryLives
    <2> QED BY <2>1, <2>2, <2>3
  <1>6. \A u \in Threads : Shown(view[u], u)
    BY <1>1, <1>2, <1>4, SubmitStays DEF view
  <1> HIDE DEF newReg
  <1>7. Registry!Step(newReg, view)
    BY <1>4, <1>5, <1>6, StepFrom
  <1> QED BY <1>3, <1>7, SameOnly DEF Registry!Register, newReg, reg, view

LEMMA UnregisterStep ==
    ASSUME FinderInv, FinderInv', NEW t \in Threads, NEW o \in Objs,
           NEW ps \in SUBSET Protocols, removeObj(t, o, ps)
    PROVE  Registry!Unregister(o, ps)
  <1> DEFINE b == [kind |-> "remove", obj |-> o, protocols |-> ps]
             newReg == [p \in Protocols |-> IF p \in ps THEN Only(Objs \ {o}, reg[p])
                                            ELSE reg[p]]
  <1>1. /\ b \in Block /\ RetainedByBlock(b) = {o}
        /\ b.kind = "remove" /\ b.obj = o /\ b.protocols = ps
    BY BlocksOfCalls DEF RetainedByBlock
  <1>2. o \in Known(t) /\ Submit(b) /\ UNCHANGED <<held, objArray, call>>
    BY DEF removeObj
  <1> HIDE DEF b
  <1>3. o \in Alive
    BY <1>2, AliveFacts DEF IsAlive, Known
  <1>4. Alive' = Alive
    BY <1>1, <1>2, <1>3, SubmitAlive
  <1>5. ASSUME NEW p \in Protocols
        PROVE  Registered(p, queue)' = Only(Alive', newReg[p])
    <2>1. Registered(p, queue)' = AfterBlock(Registered(p, queue), b, p)
      BY <1>1, <1>2, <1>4, RegistrySubmits DEF Submit
    <2>2. Registered(p, queue) \in Arrays
      BY OnlyIsArray, AppliedIsArray DEF Registered, LiveObjs, FinderInv, TypeOK, ArraysPointOnce
    <2>3. DropObj(Registered(p, queue), o) = Only(Objs \ {o}, Registered(p, queue))
      BY <2>2, DropIsOnly
    <2>4. newReg[p] = AfterBlock(Registered(p, queue), b, p)
      BY <1>1, <2>3 DEF AfterBlock, reg
    <2>5. Only(Alive', Registered(p, queue)') = Registered(p, queue)'
      BY RegistryIsAliveNext DEF RegistryLives
    <2> QED BY <2>1, <2>4, <2>5
  <1>6. \A u \in Threads : Shown(view[u], u)
    BY <1>1, <1>2, <1>4, SubmitStays DEF view
  <1> HIDE DEF newReg
  <1>7. Registry!Step(newReg, view)
    BY <1>4, <1>5, <1>6, StepFrom
  <1> QED BY <1>3, <1>7, SameOnly DEF Registry!Unregister, newReg, reg, view

(* An inquiry has seen the blocks that wait when it is submitted.           *)
LEMMA AskIsSeen ==
    ASSUME FinderInv, FinderInv', NEW t \in Threads, NEW p \in Protocols,
           findObjForProtocol(t, p)
    PROVE  Seen(t)' = [state |-> "asking", objs |-> Registered(p, queue)']
           /\ Registered(p, queue)' = Registered(p, queue)
  <1> DEFINE b == [kind |-> "find", thread |-> t, protocol |-> p]
  <1>1. b \in Block /\ b.kind = "find" /\ b.thread = t /\ b.protocol = p
    BY BlocksOfCalls
  <1>2. Submit(b) /\ objArray' = objArray /\ call'[t].state = "waiting"
    BY DEF findObjForProtocol, FinderInv, TypeOK
  <1> HIDE DEF b
  <1>3. PICK n \in Nat :
             /\ n = Len(queue) /\ n < MaxQueue /\ DOMAIN queue = 1..n
             /\ queue' \in Seq(Block) /\ Len(queue') = n + 1 /\ DOMAIN queue' = 1..(n + 1)
             /\ queue'[n + 1] = b /\ \A i \in 1..n : queue'[i] = queue[i]
    BY <1>1, <1>2, SubmitFacts DEF FinderInv
  <1>4. PICK j \in 1..(n + 1) : Waits(t, j)'
    BY <1>2, <1>3, SeenIsKnownNext DEF SeenFacts
  <1>5. j = n + 1
    <2>1. Asks(t, n + 1)' /\ Asks(t, j)' /\ n + 1 \in 1..(n + 1)
      BY <1>1, <1>3, <1>4 DEF Waits, Asks
    <2> QED BY <1>3, <2>1 DEF FinderInv, Inquiries
  <1>6. j - 1 = n /\ queue'[j] = b
    BY <1>3, <1>5
  <1> DEFINE q == SubSeq(queue', 1, n)
  <1>7. Seen(t)' = [state |-> "asking", objs |-> Applied(LiveObjs(objArray[p])', q, p)]
    BY <1>1, <1>4, <1>6 DEF Waits, Registered
  <1>8. q = queue
    <2>1. queue \in Seq(Block) /\ n <= Len(queue')
      BY <1>3 DEF FinderInv, TypeOK
    <2>2. q \in Seq(Block) /\ Len(q) = n /\ \A i \in 1..n : q[i] = queue'[i]
      BY <1>3, <2>1, Prefix
    <2> HIDE DEF q
    <2> QED BY <1>3, <2>1, <2>2, SeqEqual
  <1>9. LiveObjs(objArray[p])' = LiveObjs(objArray[p])
    BY <1>2, FindAlive DEF LiveObjs
  <1>10. Registered(p, queue)' = AfterBlock(Registered(p, queue), b, p)
    BY <1>1, <1>2, FindAlive, RegistrySubmits DEF Submit
  <1>11. Registered(p, queue)' = Registered(p, queue)
    BY <1>1, <1>10 DEF AfterBlock
  <1> HIDE DEF q
  <1> QED BY <1>7, <1>8, <1>9, <1>11 DEF Registered

LEMMA AskStep ==
    ASSUME FinderInv, FinderInv', NEW t \in Threads, NEW p \in Protocols,
           findObjForProtocol(t, p)
    PROVE  Registry!Ask(t, p)
  <1> DEFINE b == [kind |-> "find", thread |-> t, protocol |-> p]
             asked == [state |-> "asking", objs |-> reg[p]]
             newView == [view EXCEPT ![t] = asked]
  <1>1. b \in Block /\ Submit(b) /\ objArray' = objArray
    BY BlocksOfCalls DEF findObjForProtocol
  <1>2. Alive' = Alive
    BY FindAlive
  <1>3. ASSUME NEW r \in Protocols
        PROVE  Registered(r, queue)' = Only(Alive', reg[r])
    <2>1. Registered(r, queue)' = AfterBlock(Registered(r, queue), b, r)
      BY <1>1, <1>2, RegistrySubmits DEF Submit
    <2>2. AfterBlock(Registered(r, queue), b, r) = Registered(r, queue)
      BY DEF AfterBlock
    <2>3. Only(Alive', Registered(r, queue)') = Registered(r, queue)'
      BY RegistryIsAliveNext DEF RegistryLives
    <2> QED BY <2>1, <2>2, <2>3 DEF reg
  <1> HIDE DEF b
  <1>4. \A u \in Threads : u # t => newView[u] = Seen(u) /\ call'[u] = call[u]
    BY DEF view, findObjForProtocol, FinderInv, TypeOK
  <1>5. newView[t] = [state |-> "asking", objs |-> Registered(p, queue)]
    BY DEF view, reg
  <1>6. Shown(newView[t], t)
    <2>1. Seen(t)' = [state |-> "asking", objs |-> Only(Alive', Registered(p, queue))]
      BY <1>3, AskIsSeen DEF reg
    <2> HIDE DEF newView
    <2> QED BY <1>5, <2>1 DEF Shown
  <1> HIDE DEF newView
  <1>7. \A u \in Threads : Shown(newView[u], u)
    BY <1>1, <1>2, <1>4, <1>6, SubmitStays
  <1>8. Registry!Step(reg, newView)
    BY <1>2, <1>3, <1>7, StepFrom
  <1>9. view[t] = NoCall
    <2>1. call[t] = NoCall
      BY DEF findObjForProtocol, FinderInv, Inquiries
    <2> QED BY <2>1, TellingIsKnown DEF Telling, NoCall, view
  <1> QED BY <1>8, <1>9 DEF Registry!Ask, Registry!Idle, NoCall, newView, reg, view

(* The execution of a block: the answer to an inquiry, or a registration or *)
(* removal that is known already.                                           *)
LEMMA RegistryServed ==
    ASSUME FinderInv, FinderInv', Serve, NEW p \in Protocols
    PROVE  Registered(p, queue)' = Only(Alive', reg[p])
  <1>1. Alive' \subseteq Alive
    BY ServeAlive
  <1>2. queue \in Seq(Block) /\ queue # << >> /\ queue' = Tail(queue)
    BY DEF Serve, FinderInv, TypeOK
  <1>3. Keeps(Alive', Tail(queue))
    BY <1>2, AliveFactsNext DEF Keeps, IsAlive
  <1>4. Applied(Only(Alive', objArray'[p]), Tail(queue), p)
             = Only(Alive', Applied(LiveObjs(objArray[p]), queue, p))
    BY <1>1, <1>2, <1>3, RegistryServes
  <1> QED BY <1>2, <1>4 DEF Registered, LiveObjs, reg

LEMMA AnswerStep ==
    ASSUME FinderInv, FinderInv', Serve, Head(queue).kind = "find"
    PROVE  \E t \in Threads : Registry!Answer(t)
  <1>1. PICK t \in Threads : t = Head(queue).thread
    BY ServeFacts, BlockFacts DEF FinderInv, Serve
  <1> DEFINE newView == [view EXCEPT ![t].state = "telling"]
  <1>2. /\ Seen(t).state = "asking"
        /\ Seen(t)' = [state |-> "telling", objs |-> Seen(t).objs]
        /\ Only(Alive', Seen(t).objs) = Seen(t).objs
        /\ ToSet(Seen(t).objs) \subseteq Alive'
        /\ \A u \in Threads : u # t => call'[u] = call[u]
    BY <1>1, AnswerIsSeen
  <1>3. newView[t] = [state |-> "telling", objs |-> Seen(t).objs]
    <2>1. Seen(t) = [state |-> Seen(t).state, objs |-> Seen(t).objs]
      BY SeenIsKnown DEF SeenFacts, Waits
    <2>2. PICK v : v = Seen(t)
      OBVIOUS
    <2>3. [v EXCEPT !.state = "telling"] = [state |-> "telling", objs |-> v.objs]
      BY <2>1, <2>2
    <2>4. newView[t] = [Seen(t) EXCEPT !.state = "telling"]
      BY DEF view
    <2> QED BY <2>2, <2>3, <2>4
  <1>4. \A u \in Threads : u # t => newView[u] = Seen(u)
    BY DEF view
  <1> HIDE DEF newView
  <1>5. Shown(newView[t], t)
    BY <1>2, <1>3 DEF Shown
  <1>6. Alive' \subseteq Alive
    BY ServeAlive
  <1>7. \A u \in Threads : u # t => Shown(newView[u], u)
    BY <1>2, <1>4, <1>6, TellingStays, WaitingServed, ThreadStays
  <1>8. Registry!Step(reg, newView)
    BY <1>5, <1>6, <1>7, RegistryServed, StepFrom
  <1>9. view[t].state = "asking"
    BY <1>2 DEF view
  <1> QED BY <1>8, <1>9 DEF Registry!Answer, newView, reg, view

LEMMA AppliedStep ==
    ASSUME FinderInv, FinderInv', Serve, Head(queue).kind # "find"
    PROVE  Registry!Die
  <1>1. Alive' \subseteq Alive
    BY ServeAlive
  <1>2. call' = call
    BY DEF Serve, RunBlock
  <1>3. \A u \in Threads : Shown(view[u], u)
    BY <1>1, <1>2, TellingStays, WaitingServed, ThreadStays DEF view
  <1>4. Registry!Step(reg, view)
    BY <1>1, <1>3, RegistryServed, StepFrom
  <1> QED BY <1>4 DEF Registry!Die, reg, view

(* A step of the thread that goes through what it found.                    *)
LEMMA TellStep ==
    ASSUME FinderInv, FinderInv', NEW t \in Threads, execute(t)
    PROVE  Registry!Tell(t)
  <1> DEFINE newView == [view EXCEPT ![t].objs = Tail(@)]
  <1>1. /\ call[t].objs \in Seq(Objs) /\ Tail(call[t].objs) \in Seq(Objs)
        /\ call' = [call EXCEPT ![t] = [state |-> "running", objs |-> Tail(call[t].objs)]]
    BY ExecuteFacts
  <1>2. /\ call[t].state = "running" /\ call[t].objs # << >>
        /\ held' = held /\ objArray' = objArray /\ queue' = queue
    BY DEF execute
  <1>3. /\ call'[t] = [state |-> "running", objs |-> Tail(call[t].objs)]
        /\ \A u \in Threads : u # t => call'[u] = call[u]
    BY <1>1 DEF FinderInv, TypeOK
  <1>4. Alive' \subseteq Alive
    <2>1. call'[t].objs = Tail(call[t].objs)
      BY <1>3
    <2>2. ToSet(call'[t].objs) \subseteq ToSet(call[t].objs)
      BY <1>1, <1>2, <2>1, RestIsPart
    <2>3. \A u \in Threads : ToSet(call'[u].objs) \subseteq ToSet(call[u].objs)
      <3> TAKE u \in Threads
      <3>1. CASE u = t
        BY <2>2, <3>1
      <3>2. CASE u # t
        BY <1>3, <3>2
      <3> QED BY <3>1, <3>2
    <2> QED BY <1>2, <2>3, CallAlive
  <1>5. Seen(t) = [state |-> "telling", objs |-> call[t].objs]
    BY <1>2, TellingIsKnown DEF Telling
  <1>6. newView[t] = [state |-> "telling", objs |-> Tail(call[t].objs)]
    <2>1. newView[t] = [Seen(t) EXCEPT !.objs = Tail(@)]
      BY DEF view
    <2>2. PICK v : v = Seen(t)
      OBVIOUS
    <2>3. v = [state |-> "telling", objs |-> call[t].objs]
      BY <1>5, <2>2
    <2>4. \A rest : [v EXCEPT !.objs = rest] = [state |-> "telling", objs |-> rest]
      BY <2>3
    <2>5. v.objs = call[t].objs
      BY <2>3
    <2> HIDE DEF newView
    <2> QED BY <2>1, <2>2, <2>4, <2>5
  <1>7. \A u \in Threads : u # t => newView[u] = Seen(u)
    BY DEF view
  <1> HIDE DEF newView
  <1>8. Shown(newView[t], t)
    <2>1. call'[t].state = "running" /\ call'[t].objs = Tail(call[t].objs)
      BY <1>3
    <2>2. Seen(t)' = [state |-> "telling", objs |-> Tail(call[t].objs)]
      BY <2>1, TellingIsKnownNext DEF Telling
    <2>3. ToSet(Tail(call[t].objs)) \subseteq Alive'
      BY <2>1, AliveFactsNext DEF IsAlive
    <2>4. Only(Alive', Tail(call[t].objs)) = Tail(call[t].objs)
      BY <1>1, <2>3, OnlyOfAll
    <2>5. newView[t].state = "telling" /\ newView[t].objs = Tail(call[t].objs)
      BY <1>6
    <2>6. newView[t] = [state |-> newView[t].state, objs |-> newView[t].objs]
      BY <1>6, <2>5, Zenon
    <2> QED BY <2>2, <2>3, <2>4, <2>5, <2>6 DEF Shown
  <1>9. \A u \in Threads : Shown(newView[u], u)
    BY <1>2, <1>3, <1>4, <1>7, <1>8, QuietStays
  <1>10. \A p \in Protocols : Registered(p, queue)' = Only(Alive', reg[p])
    BY <1>2, <1>4, RegistryStays DEF reg
  <1>11. Registry!Step(reg, newView)
    BY <1>4, <1>9, <1>10, StepFrom
  <1>12. view[t].state = "telling" /\ view[t].objs # << >>
    BY <1>2, <1>5 DEF view
  <1> QED BY <1>11, <1>12 DEF Registry!Tell, newView, reg, view

LEMMA DoneStep ==
    ASSUME FinderInv, FinderInv', NEW t \in Threads, Return(t)
    PROVE  Registry!Done(t)
  <1> DEFINE newView == [view EXCEPT ![t] = NoCall]
  <1>1. /\ call[t].state = "running" /\ call' = [call EXCEPT ![t] = NoCall]
        /\ held' = held /\ objArray' = objArray /\ queue' = queue
    BY DEF Return
  <1>2. /\ call'[t] = NoCall
        /\ \A u \in Threads : u # t => call'[u] = call[u]
    BY <1>1 DEF FinderInv, TypeOK
  <1>3. Alive' \subseteq Alive
    <2>1. ToSet(NoCall.objs) = {}
      BY ElemsOfEmpty DEF NoCall
    <2>2. \A u \in Threads : ToSet(call'[u].objs) \subseteq ToSet(call[u].objs)
      <3> TAKE u \in Threads
      <3>1. CASE u = t
        BY <1>2, <2>1, <3>1
      <3>2. CASE u # t
        BY <1>2, <3>2
      <3> QED BY <3>1, <3>2
    <2> QED BY <1>1, <2>2, CallAlive
  <1>4. newView[t] = NoCall /\ \A u \in Threads : u # t => newView[u] = Seen(u)
    BY DEF view
  <1> HIDE DEF newView
  <1>5. Shown(newView[t], t)
    <2>1. call'[t].state = "idle" /\ call'[t].objs = << >>
      BY <1>2 DEF NoCall
    <2>2. Seen(t)' = [state |-> "idle", objs |-> << >>]
      BY <2>1, TellingIsKnownNext DEF Telling
    <2> QED BY <1>4, <2>2, OnlyOfEmpty DEF Shown, NoCall
  <1>6. \A u \in Threads : Shown(newView[u], u)
    BY <1>1, <1>2, <1>3, <1>4, <1>5, QuietStays
  <1>7. \A p \in Protocols : Registered(p, queue)' = Only(Alive', reg[p])
    BY <1>1, <1>3, RegistryStays DEF reg
  <1>8. Registry!Step(reg, newView)
    BY <1>3, <1>6, <1>7, StepFrom
  <1>9. view[t].state = "telling"
    BY <1>1, TellingIsKnown DEF Telling, view
  <1> QED BY <1>8, <1>9 DEF Registry!Done, Registry!Idle, NoCall, newView, reg, view

LEMMA DieStep ==
    ASSUME FinderInv, FinderInv', NEW o \in Objs, Release(o)
    PROVE  Registry!Die
  <1>1. /\ held' \subseteq held /\ objArray' = objArray /\ queue' = queue /\ call' = call
    BY DEF Release
  <1>2. Alive' \subseteq Alive
    BY <1>1, CallAlive
  <1>3. \A u \in Threads : Shown(view[u], u)
    BY <1>1, <1>2, QuietStays DEF view
  <1>4. \A p \in Protocols : Registered(p, queue)' = Only(Alive', reg[p])
    BY <1>1, <1>2, RegistryStays DEF reg
  <1>5. Registry!Step(reg, view)
    BY <1>2, <1>3, <1>4, StepFrom
  <1> QED BY <1>5 DEF Registry!Die, reg, view

LEMMA StepRefines ==
    ASSUME FinderInv, FinderInv', [Next]_finderVars
    PROVE  [Registry!Next]_Registry!registryVars
  <1>1. ASSUME NEW t \in Threads, Call(t)
        PROVE  Registry!Next
    <2>1. ASSUME NEW o \in Objs, NEW ps \in SUBSET Protocols,
                 registerObj(t, o, ps) \/ removeObj(t, o, ps)
          PROVE  Registry!Register(o, ps) \/ Registry!Unregister(o, ps)
      BY <2>1, RegisterStep, UnregisterStep
    <2>2. ASSUME NEW p \in Protocols, findObjForProtocol(t, p)
          PROVE  Registry!Ask(t, p)
      BY <2>2, AskStep
    <2> QED BY <1>1, <2>1, <2>2 DEF Call, Registry!Next
  <1>2. ASSUME NEW t \in Threads, execute(t)
        PROVE  Registry!Next
    BY <1>2, TellStep DEF Registry!Next
  <1>3. ASSUME NEW t \in Threads, Return(t)
        PROVE  Registry!Next
    BY <1>3, DoneStep DEF Registry!Next
  <1>4. ASSUME NEW o \in Objs, Release(o)
        PROVE  Registry!Next
    BY <1>4, DieStep DEF Registry!Next
  <1>5. ASSUME Serve
        PROVE  Registry!Next
    BY <1>5, AnswerStep, AppliedStep DEF Registry!Next
  <1>6. CASE UNCHANGED finderVars
    <2>1. Alive' = Alive
      BY <1>6 DEF finderVars, Alive, RetainedByBlock
    <2>2. \A p \in Protocols : Registered(p, queue)' = Registered(p, queue)
      BY <1>6, <2>1 DEF finderVars, Registered, LiveObjs
    <2>3. \A t \in Threads : Seen(t)' = Seen(t)
      BY <1>6, <2>1 DEF finderVars, Seen, Asks, Registered, LiveObjs
    <2> QED BY <2>1, <2>2, <2>3 DEF Registry!registryVars
  <1> QED BY <1>1, <1>2, <1>3, <1>4, <1>5, <1>6 DEF Next

LEMMA InitRefines ==
    ASSUME Init
    PROVE  Registry!Init
  <1>1. /\ held = Objs /\ queue = << >> /\ DOMAIN queue = {}
        /\ \A t \in Threads : call[t] = NoCall
    BY EmptySeq, LenProperties DEF Init
  <1>2. Alive = Objs
    <2>1. \A o : IsAlive(o) <=> o \in Objs
      BY <1>1, ElemsOfEmpty DEF IsAlive, NoCall
    <2> QED BY <2>1, AliveFacts
  <1>3. ASSUME NEW p \in Protocols
        PROVE  Registered(p, queue) = << >>
    <2>1. << >> \in Arrays
      BY EmptySeq DEF Arrays, IsInjective
    <2>2. LiveObjs(objArray[p]) = << >>
      BY OnlyOfEmpty DEF Init, LiveObjs
    <2> QED BY <1>1, <2>1, <2>2, AppliedOfEmpty DEF Registered
  <1>4. \A t \in Threads : Seen(t) = Registry!Idle
    BY <1>1, TellingIsKnown DEF Telling, NoCall, Registry!Idle
  <1> QED BY <1>2, <1>3, <1>4 DEF Registry!Init

(* The finder is a registry whose registrations and removals take effect at *)
(* the call (ProtocolFinder.m:45, :59), although blocks of a serial queue   *)
(* carry them out later, for any number of objects, protocols, callers and  *)
(* waiting blocks: what execute goes through was registered before the      *)
(* inquiry and not removed before it, in order, once, and alive.            *)
THEOREM FinderIsRegistry == Spec => IsRegistry
  <1>1. Init => Registry!Init
    BY InitRefines
  <1>2. FinderInv /\ FinderInv' /\ [Next]_finderVars => [Registry!Next]_Registry!registryVars
    BY StepRefines
  <1> QED BY <1>1, <1>2, InvHolds, PTL DEF Spec, IsRegistry, Registry!Spec
=============================================================================
