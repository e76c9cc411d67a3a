---------------------------- MODULE FontToolProofs ----------------------------
(***************************************************************************)
(* Proofs about FontTool, for every set of documents.                      *)
(***************************************************************************)
EXTENDS FontTool, FiniteSetTheorems, SequenceTheorems, WellFoundedInduction, TLAPS

(***************************************************************************)
(* The inductive invariant.                                                *)
(***************************************************************************)

Point == Int \X Int
Command == [letter : STRING, params : Seq(Int)]

\* What has been read of the path: its elements, and the lines it has begun.
Read == Elements(document[path], command - 1)
Begun == Moves(document[path], command - 1)

\* The types of the variables that TypeOK leaves out.
TypesInv ==
  /\ drawings \in Seq(Seq(Seq(Point)))
  /\ lines \in Seq(Seq(Point)) /\ line \in Seq(Point) /\ pen \in Point
  /\ path \in Nat /\ command \in Nat

\* No line of a drawing that is done is empty.
Full(d) == \A n \in DOMAIN d : d[n] # <<>>
DrawingsInv ==
  \A n \in DOMAIN drawings :
    Full(drawings[n]) /\ Follows(drawings[n], Elements(document[n], Len(document[n])))

\* The pen is where the elements read so far end.  The line being drawn, once
\* it has a point, is the line of the last of them.
PenAt(es) == IF es = <<>> THEN <<0, 0>>
             ELSE <<Position(es, Len(es), 1), Position(es, Len(es), 2)>>
DrawInv ==
  InPath =>
    /\ \A i \in 1..command - 1 : Known(document[path][i])
    /\ Follows(AllLines, Read)
    /\ pen = PenAt(Read)
    /\ IF line # <<>>
       THEN Read # <<>> /\ Last(Read).stroke = Begun
       ELSE Read # <<>> => Last(Read).stroke < Begun

PrintedInv ==
  phase = "printed" =>
    /\ \A n \in DOMAIN drawings : drawings[n] # <<>>
    /\ printed = Handled(Sorted(drawings))

IInv == TypeOK /\ TypesInv /\ DrawingsInv /\ DrawInv /\ PrintedInv

(***************************************************************************)
(* Induction and recursion.                                                *)
(***************************************************************************)

\* A set with 0 and with every successor of its elements has all numbers:
\* there is no least number outside of it.
LEMMA SetInduction ==
  ASSUME NEW S, 0 \in S, \A n \in Nat : n \in S => n + 1 \in S
  PROVE  \A n \in Nat : n \in S
  <1> DEFINE Outside == Nat \ S
             R == OpToRel(<, Nat)
  <1> SUFFICES ASSUME Outside # {} PROVE FALSE
    OBVIOUS
  <1>1. IsWellFoundedOn(R, Nat)
    BY NatLessThanWellFounded
  <1>2. Outside \subseteq Nat
    OBVIOUS
  <1> HIDE DEF Outside, R
  <1>3. PICK x \in Outside : \A y \in Outside : <<y, x>> \notin R
    BY <1>1, <1>2, WFMin
  <1>4. x \in Nat /\ x \notin S /\ x # 0
    BY <1>3 DEF Outside
  <1>5. x - 1 \in Nat /\ (x - 1) + 1 = x
    BY <1>4
  <1>6. x - 1 \in Outside /\ <<x - 1, x>> \in R
    BY <1>4, <1>5 DEF Outside, R, OpToRel
  <1> QED
    BY <1>3, <1>6

\* The same from one number to another.
LEMMA IntervalInduction ==
  ASSUME NEW m \in Nat, NEW n \in Nat, NEW S,
         m \in S, \A j \in m + 1..n : j - 1 \in S => j \in S
  PROVE  \A j \in m..n : j \in S
  <1> DEFINE T == {i \in Nat : m + i <= n => m + i \in S}
  <1>1. 0 \in T
    OBVIOUS
  <1>2. ASSUME NEW i \in Nat, i \in T
        PROVE  i + 1 \in T
    <2> SUFFICES ASSUME m + (i + 1) <= n
                 PROVE  m + (i + 1) \in S
      OBVIOUS
    <2>1. m + (i + 1) \in m + 1..n /\ (m + (i + 1)) - 1 = m + i /\ m + i <= n
      OBVIOUS
    <2>2. m + i \in S
      BY <1>2, <2>1
    <2> QED
      BY <2>1, <2>2
  <1> HIDE DEF T
  <1>3. \A i \in Nat : i \in T
    BY <1>1, <1>2, SetInduction
  <1> SUFFICES ASSUME NEW j \in m..n
               PROVE  j \in S
    OBVIOUS
  <1>4. j - m \in Nat /\ m + (j - m) = j /\ j <= n
    OBVIOUS
  <1>5. j - m \in T
    BY <1>3, <1>4
  <1> QED
    BY <1>4, <1>5 DEF T

\* F takes a value in S for j - 1 to one for j; h goes its way from x.
Stepping(F, m, n, S) == \A j \in m + 1..n : \A s \in S : F[<<j, s>>] \in S
Stepped(h, F, m, n, S, x) ==
  h \in [m..n -> S] /\ h[m] = x /\ \A j \in m + 1..n : h[j] = F[<<j, h[j - 1]>>]

\* A first value and a step from each value to the next define a function.
LEMMA RecursionDefined ==
  ASSUME NEW m \in Nat, NEW n \in Nat, m <= n, NEW S, NEW x \in S, NEW F,
         Stepping(F, m, n, S)
  PROVE  \E h : Stepped(h, F, m, n, S, x)
  <1> USE DEF Stepping
  <1> DEFINE Recursive(h, i) == /\ h \in [m..i -> S] /\ h[m] = x
                                /\ \A j \in m + 1..i : h[j] = F[<<j, h[j - 1]>>]
             Defined == {i \in Nat : \E h : Recursive(h, i)}
  <1>1. m \in Defined
    <2>1. Recursive([j \in m..m |-> x], m)
      OBVIOUS
    <2> QED
      BY <2>1
  <1>2. ASSUME NEW i \in m + 1..n, i - 1 \in Defined
        PROVE  i \in Defined
    <2>1. PICK g : Recursive(g, i - 1)
      BY <1>2
    <2>2. i \in Nat /\ i - 1 \in m..i - 1 /\ m # i /\ m \in m..i - 1
      OBVIOUS
    <2>3. F[<<i, g[i - 1]>>] \in S
      BY <2>1, <2>2
    <2> DEFINE h == [j \in m..i |-> IF j = i THEN F[<<i, g[i - 1]>>] ELSE g[j]]
    <2>4. \A j \in m..i : j # i => j \in m..i - 1 /\ h[j] = g[j]
      BY <2>2
    <2>5. h \in [m..i -> S]
      BY <2>1, <2>3, <2>4
    <2>6. h[m] = x
      BY <2>1, <2>2
    <2>7. ASSUME NEW j \in m + 1..i
          PROVE  h[j] = F[<<j, h[j - 1]>>]
      <3>1. j - 1 \in m..i - 1 /\ j - 1 # i /\ j \in m..i /\ j - 1 \in m..i
        BY <2>2
      <3>2. h[j - 1] = g[j - 1]
        BY <2>4, <3>1
      <3>3. CASE j = i
        BY <3>1, <3>2, <3>3
      <3>4. CASE j # i
        <4>1. j \in m + 1..i - 1 /\ h[j] = g[j]
          BY <2>4, <3>1, <3>4
        <4> QED
          BY <2>1, <3>2, <4>1
      <3> QED
        BY <3>3, <3>4
    <2>8. Recursive(h, i)
      BY <2>5, <2>6, <2>7
    <2> HIDE DEF h, Recursive
    <2> QED
      BY <2>2, <2>8
  <1> HIDE DEF Defined
  <1>3. \A i \in m..n : i \in Defined
    BY <1>1, <1>2, IntervalInduction
  <1>4. n \in Defined
    BY <1>3
  <1> QED
    BY <1>4 DEF Defined, Stepped

(***************************************************************************)
(* Sequences.                                                              *)
(***************************************************************************)

\* FlattenSeq puts one sequence behind the other.
FlattenedBy(f, seqs, T) ==
  /\ f \in [1..Len(seqs) -> Seq(T)]
  /\ f[1] = seqs[1] /\ FlattenSeq(seqs) = f[Len(seqs)]
  /\ \A n \in 2..Len(seqs) : f[n] = f[n - 1] \o seqs[n]
LEMMA FlattenSteps ==
  ASSUME NEW T, NEW seqs \in Seq(Seq(T)), seqs # <<>>
  PROVE  \E f : FlattenedBy(f, seqs, T)
  <1> DEFINE F == [p \in (1..Len(seqs)) \X Seq(T) |-> p[2] \o seqs[p[1]]]
             Recursive(f) ==
               f = [i \in 1..Len(seqs) |-> IF i = 1 THEN seqs[i] ELSE f[i - 1] \o seqs[i]]
  <1>1. Len(seqs) \in Nat /\ 1 <= Len(seqs) /\ \A i \in 1..Len(seqs) : seqs[i] \in Seq(T)
    OBVIOUS
  <1>2. ASSUME NEW j \in 1 + 1..Len(seqs), NEW s \in Seq(T)
        PROVE  F[<<j, s>>] = s \o seqs[j] /\ F[<<j, s>>] \in Seq(T)
    <2>1. j \in 1..Len(seqs) /\ seqs[j] \in Seq(T)
      BY <1>1
    <2>2. F[<<j, s>>] = s \o seqs[j]
      BY <2>1
    <2>3. s \o seqs[j] \in Seq(T)
      BY <2>1
    <2> QED
      BY <2>2, <2>3
  <1>3. \A j \in 1 + 1..Len(seqs) : \A s \in Seq(T) : F[<<j, s>>] \in Seq(T)
    BY <1>2
  <1> HIDE DEF F
  <1>4. PICK h \in [1..Len(seqs) -> Seq(T)] :
          h[1] = seqs[1] /\ \A j \in 1 + 1..Len(seqs) : h[j] = F[<<j, h[j - 1]>>]
    <2> DEFINE U == Seq(T)
    <2>1. 1 \in Nat /\ Len(seqs) \in Nat /\ 1 <= Len(seqs) /\ seqs[1] \in U
      BY <1>1
    <2>2. Stepping(F, 1, Len(seqs), U)
      BY <1>3 DEF Stepping
    <2> HIDE DEF U
    <2>3. \E h : Stepped(h, F, 1, Len(seqs), U, seqs[1])
      BY <2>1, <2>2, RecursionDefined
    <2> QED
      BY <2>3 DEF U, Stepped
  <1>5. \A i \in 1..Len(seqs) : h[i] = IF i = 1 THEN seqs[i] ELSE h[i - 1] \o seqs[i]
    <2> SUFFICES ASSUME NEW i \in 1..Len(seqs), i # 1
                 PROVE  h[i] = h[i - 1] \o seqs[i]
      BY <1>4
    <2>1. i \in 1 + 1..Len(seqs) /\ i - 1 \in 1..Len(seqs)
      BY <1>1
    <2> QED
      BY <1>2, <1>4, <2>1
  <1>6. Recursive(h)
    BY <1>4, <1>5
  <1> HIDE DEF Recursive
  <1> DEFINE g == CHOOSE f : Recursive(f)
  <1>7. Recursive(g)
    BY <1>6
  <1> HIDE DEF g
  <1>8. FlattenSeq(seqs) = g[Len(seqs)]
    BY <1>1 DEF FlattenSeq, g, Recursive
  <1>9. g[1] = seqs[1] /\ \A n \in 2..Len(seqs) : g[n] = g[n - 1] \o seqs[n]
    <2>1. \A i \in 1..Len(seqs) : g[i] = IF i = 1 THEN seqs[i] ELSE g[i - 1] \o seqs[i]
      BY <1>7 DEF Recursive
    <2>2. 1 \in 1..Len(seqs) /\ \A n \in 2..Len(seqs) : n \in 1..Len(seqs) /\ n # 1
      BY <1>1
    <2> QED
      BY <2>1, <2>2
  <1>10. g \in [1..Len(seqs) -> Seq(T)]
    <2> DEFINE Typed == {i \in 1..Len(seqs) : g[i] \in Seq(T)}
    <2>1. 1 \in Typed
      BY <1>1, <1>9
    <2>2. ASSUME NEW i \in 1 + 1..Len(seqs), i - 1 \in Typed
          PROVE  i \in Typed
      <3>1. i \in 1..Len(seqs) /\ i \in 2..Len(seqs) /\ g[i - 1] \in Seq(T)
        BY <1>1, <2>2
      <3>2. g[i] = g[i - 1] \o seqs[i] /\ seqs[i] \in Seq(T)
        BY <1>1, <1>9, <3>1
      <3>3. g[i - 1] \o seqs[i] \in Seq(T)
        BY <3>1, <3>2, ConcatProperties
      <3> QED
        BY <3>1, <3>2, <3>3, Zenon
    <2> HIDE DEF Typed
    <2>3. \A i \in 1..Len(seqs) : i \in Typed
      BY <1>1, <2>1, <2>2, IntervalInduction
    <2> QED
      BY <1>7, <2>3 DEF Typed, Recursive
  <1> QED
    BY <1>8, <1>9, <1>10 DEF FlattenedBy

\* It makes a sequence of the same things.
LEMMA FlattenType ==
  ASSUME NEW T, NEW seqs \in Seq(Seq(T))
  PROVE  FlattenSeq(seqs) \in Seq(T)
  <1>1. CASE seqs = <<>>
    BY <1>1 DEF FlattenSeq
  <1>2. CASE seqs # <<>>
    <2>1. Len(seqs) \in 1..Len(seqs)
      BY <1>2
    <2>2. PICK f : FlattenedBy(f, seqs, T)
      BY <1>2, FlattenSteps
    <2> QED
      BY <2>1, <2>2 DEF FlattenedBy
  <1> QED
    BY <1>1, <1>2

\* One more sequence comes behind all others.
LEMMA FlattenAppend ==
  ASSUME NEW T, NEW seqs \in Seq(Seq(T)), NEW s \in Seq(T)
  PROVE  FlattenSeq(Append(seqs, s)) = FlattenSeq(seqs) \o s
  <1> DEFINE more == Append(seqs, s)
  <1>1. /\ more \in Seq(Seq(T)) /\ more # <<>> /\ Len(more) = Len(seqs) + 1
        /\ more[Len(seqs) + 1] = s /\ \A i \in 1..Len(seqs) : more[i] = seqs[i]
        /\ Len(seqs) \in Nat
    <2> DEFINE U == Seq(T)
    <2>1. seqs \in Seq(U) /\ s \in U
      OBVIOUS
    <2> HIDE DEF U
    <2>2. /\ more \in Seq(U) /\ Len(more) = Len(seqs) + 1 /\ Len(seqs) \in Nat
          /\ more[Len(seqs) + 1] = s /\ \A i \in 1..Len(seqs) : more[i] = seqs[i]
      BY <2>1
    <2>3. more # <<>>
      BY <2>2, EmptySeq
    <2> QED
      BY <2>2, <2>3 DEF U
  <1> HIDE DEF more
  <1>2. PICK f : FlattenedBy(f, more, T)
    BY <1>1, FlattenSteps
  <1> USE DEF FlattenedBy
  <1>3. CASE seqs = <<>>
    <2>1. Len(more) = 1 /\ FlattenSeq(more) = s
      BY <1>1, <1>2, <1>3
    <2>2. FlattenSeq(seqs) = <<>>
      BY <1>3 DEF FlattenSeq
    <2> QED
      BY <2>1, <2>2 DEF more
  <1>4. CASE seqs # <<>>
    <2>1. PICK g : FlattenedBy(g, seqs, T)
      BY <1>4, FlattenSteps
    <2>2. Len(seqs) # 0
      BY <1>4
    <2> DEFINE Same == {i \in 1..Len(seqs) : f[i] = g[i]}
    <2>3. 1 \in Same
      BY <1>1, <1>2, <2>1, <2>2
    <2>4. ASSUME NEW i \in 1 + 1..Len(seqs), i - 1 \in Same
          PROVE  i \in Same
      <3>1. i \in 2..Len(seqs) /\ i \in 2..Len(more) /\ i \in 1..Len(seqs)
        BY <1>1
      <3> QED
        BY <1>1, <1>2, <2>1, <2>4, <3>1
    <2> HIDE DEF Same
    <2>5. \A i \in 1..Len(seqs) : i \in Same
      BY <1>1, <2>3, <2>4, IntervalInduction
    <2>6. f[Len(seqs)] = g[Len(seqs)]
      BY <1>1, <2>2, <2>5 DEF Same
    <2>7. Len(more) \in 2..Len(more) /\ Len(more) - 1 = Len(seqs)
      BY <1>1, <2>2
    <2>8. FlattenSeq(more) = g[Len(seqs)] \o s
      BY <1>1, <1>2, <2>6, <2>7
    <2> QED
      BY <2>1, <2>8 DEF more
  <1> QED
    BY <1>3, <1>4

(***************************************************************************)
(* The largest and the smallest of finitely many numbers.                  *)
(***************************************************************************)

\* The largest and the smallest of S.
Extremes(S, a, b) == a \in S /\ b \in S /\ \A y \in S : a >= y /\ b <= y

\* There are both when S is finite and not empty.
LEMMA ExtremesExist ==
  ASSUME NEW S \in SUBSET Int, IsFiniteSet(S), S # {}
  PROVE  \E a, b : Extremes(S, a, b)
  <1> DEFINE Done == {n \in Nat : \A A \in SUBSET Int :
                        IsFiniteSet(A) /\ Cardinality(A) = n /\ A # {}
                          => \E a, b : Extremes(A, a, b)}
  <1>1. 0 \in Done
    BY FS_EmptySet
  <1>2. ASSUME NEW n \in Nat, n \in Done
        PROVE  n + 1 \in Done
    <2> SUFFICES ASSUME NEW A \in SUBSET Int, IsFiniteSet(A), Cardinality(A) = n + 1, A # {}
                 PROVE  \E a, b : Extremes(A, a, b)
      OBVIOUS
    <2>1. PICK x : x \in A
      OBVIOUS
    <2> DEFINE B == A \ {x}
    <2>2. IsFiniteSet(B) /\ Cardinality(B) = n /\ B \in SUBSET Int
      <3>1. IsFiniteSet(B) /\ Cardinality(B) = Cardinality(A) - 1
        BY <2>1, FS_RemoveElement
      <3>2. B \in SUBSET Int
        OBVIOUS
      <3> HIDE DEF B
      <3>3. Cardinality(B) = n
        BY <3>1
      <3> QED
        BY <3>1, <3>2, <3>3
    <2>3. CASE B = {}
      <3>1. Extremes(A, x, x)
        BY <2>1, <2>3 DEF Extremes
      <3> QED
        BY <3>1
    <2>4. CASE B # {}
      <3>1. PICK a, b : Extremes(B, a, b)
        BY <1>2, <2>2, <2>4
      <3>2. a \in Int /\ b \in Int /\ x \in Int
        BY <2>1, <2>2, <3>1 DEF Extremes
      <3> DEFINE more == IF x >= a THEN x ELSE a
                 less == IF x <= b THEN x ELSE b
      <3>3. \A y \in A : more >= y /\ less <= y
        <4> SUFFICES ASSUME NEW y \in A
                     PROVE  more >= y /\ less <= y
          OBVIOUS
        <4>1. y \in Int /\ (y = x \/ (a >= y /\ b <= y))
          BY <3>1 DEF Extremes
        <4> QED
          BY <3>2, <4>1
      <3>4. more \in A /\ less \in A
        BY <2>1, <3>1 DEF Extremes
      <3> HIDE DEF more, less
      <3>5. Extremes(A, more, less)
        BY <3>3, <3>4 DEF Extremes
      <3> QED
        BY <3>5
    <2> QED
      BY <2>3, <2>4
  <1> HIDE DEF Done
  <1>3. \A n \in Nat : n \in Done
    BY <1>1, <1>2, SetInduction
  <1>4. Cardinality(S) \in Nat
    BY FS_CardinalityType
  <1> QED
    BY <1>3, <1>4 DEF Done

\* Then Max and Min are these.
LEMMA MaxMin ==
  ASSUME NEW S \in SUBSET Int, IsFiniteSet(S), S # {}
  PROVE  Extremes(S, Max(S), Min(S))
  <1>1. PICK a, b : Extremes(S, a, b)
    BY ExtremesExist
  <1>2. Max(S) \in S /\ \A y \in S : Max(S) >= y
    <2>1. \E x \in S : \A y \in S : x >= y
      BY <1>1 DEF Extremes
    <2> QED
      BY <2>1 DEF Max
  <1>3. Min(S) \in S /\ \A y \in S : Min(S) <= y
    <2>1. \E x \in S : \A y \in S : x <= y
      BY <1>1 DEF Extremes
    <2> QED
      BY <2>1 DEF Min
  <1> QED
    BY <1>2, <1>3 DEF Extremes

\* The largest number of a set that has it.
LEMMA MaxIs ==
  ASSUME NEW S \in SUBSET Int, NEW x \in S, \A y \in S : x >= y
  PROVE  Max(S) = x
  <1>1. Max(S) \in S /\ \A y \in S : Max(S) >= y
    BY DEF Max
  <1> DEFINE m == Max(S)
  <1>2. m \in Int /\ x \in Int /\ m >= x /\ x >= m
    BY <1>1
  <1> HIDE DEF m
  <1>3. m = x
    BY <1>2
  <1> QED
    BY <1>3 DEF m

\* The smallest number of a set that has it.
LEMMA MinIs ==
  ASSUME NEW S \in SUBSET Int, NEW x \in S, \A y \in S : x <= y
  PROVE  Min(S) = x
  <1>1. Min(S) \in S /\ \A y \in S : Min(S) <= y
    BY DEF Min
  <1> DEFINE m == Min(S)
  <1>2. m \in Int /\ x \in Int /\ m <= x /\ x <= m
    BY <1>1
  <1> HIDE DEF m
  <1>3. m = x
    BY <1>2
  <1> QED
    BY <1>3 DEF m

\* Numbers up to n have a largest one.
LEMMA MaxUpTo ==
  ASSUME NEW n \in Nat, NEW S \in SUBSET (0..n), S # {}
  PROVE  Max(S) \in S /\ \A y \in S : Max(S) >= y
  <1>1. IsFiniteSet(S) /\ S \in SUBSET Int
    <2>1. IsFiniteSet(0..n)
      BY FS_Interval
    <2>2. IsFiniteSet(S)
      BY <2>1, FS_Subset, Zenon
    <2> QED
      BY <2>2
  <1> QED
    BY <1>1, MaxMin DEF Extremes

(***************************************************************************)
(* Positions.                                                              *)
(***************************************************************************)

\* Where the sum that makes a position begins, and the sum.
Base(es, k, axis) == Max({1} \union {j \in 1..k : Sets(es[j], axis)})
Summed(s, es, b, k, axis) ==
  /\ s \in [b..k -> Int] /\ s[b] = Along(es[b], axis)
  /\ \A j \in b + 1..k : s[j] = s[j - 1] + Along(es[j], axis)
Measured(es, k, axis) == \A j \in 1..k : Along(es[j], axis) \in Int

\* It begins at the last element that sets the axis, if any.
LEMMA BaseFacts ==
  ASSUME NEW es, NEW k \in Nat, k >= 1, NEW axis
  PROVE  /\ Base(es, k, axis) \in 1..k
         /\ Sets(es[k], axis) \/ k = 1 => Base(es, k, axis) = k
         /\ ~Sets(es[k], axis) /\ k # 1 => Base(es, k, axis) = Base(es, k - 1, axis)
  <1> DEFINE S(n) == {1} \union {j \in 1..n : Sets(es[j], axis)}
  <1>1. S(k) \in SUBSET (0..k) /\ S(k) # {} /\ S(k) \in SUBSET Int /\ S(k) \in SUBSET (1..k)
    OBVIOUS
  <1>2. Max(S(k)) \in 1..k
    <2> HIDE DEF S
    <2> QED
      BY <1>1, MaxUpTo
  <1>3. ASSUME Sets(es[k], axis) \/ k = 1
        PROVE  Max(S(k)) = k
    <2>1. k \in S(k) /\ \A y \in S(k) : k >= y
      BY <1>3
    <2> HIDE DEF S
    <2> QED
      BY <1>1, <2>1, MaxIs
  <1>4. ASSUME ~Sets(es[k], axis), k # 1
        PROVE  S(k) = S(k - 1)
    <2>1. \A j \in Int : j \in 1..k <=> j \in 1..k - 1 \/ j = k
      BY <1>4
    <2> QED
      BY <1>4, <2>1
  <1> QED
    BY <1>2, <1>3, <1>4 DEF Base

\* The recursion in Position defines a sum.
LEMMA PositionSummed ==
  ASSUME NEW es, NEW k \in Nat, k >= 1, NEW axis, Measured(es, k, axis)
  PROVE  \E s : Summed(s, es, Base(es, k, axis), k, axis) /\ Position(es, k, axis) = s[k]
  <1> DEFINE b == Base(es, k, axis)
             F == [p \in (1..k) \X Int |-> p[2] + Along(es[p[1]], axis)]
             Recursive(f) ==
               f = [j \in b..k |-> (IF j = b THEN 0 ELSE f[j - 1]) + Along(es[j], axis)]
  <1>1. b \in 1..k /\ b \in Nat /\ b <= k
    BY BaseFacts
  <1>2. Position(es, k, axis) = (CHOOSE f : Recursive(f))[k]
    BY DEF Position, Base
  <1> HIDE DEF b
  <1>3. Along(es[b], axis) \in Int
    BY <1>1 DEF Measured
  <1>4. ASSUME NEW j \in b + 1..k, NEW s \in Int
        PROVE  F[<<j, s>>] = s + Along(es[j], axis) /\ F[<<j, s>>] \in Int
    <2>1. j \in 1..k /\ Along(es[j], axis) \in Int
      BY <1>1 DEF Measured
    <2> QED
      BY <2>1
  <1>5. Stepping(F, b, k, Int)
    BY <1>4 DEF Stepping
  <1> HIDE DEF F
  <1>6. PICK h : Stepped(h, F, b, k, Int, Along(es[b], axis))
    BY <1>1, <1>3, <1>5, RecursionDefined
  <1>7. \A j \in b..k : h[j] = (IF j = b THEN 0 ELSE h[j - 1]) + Along(es[j], axis)
    <2> SUFFICES ASSUME NEW j \in b..k
                 PROVE  h[j] = (IF j = b THEN 0 ELSE h[j - 1]) + Along(es[j], axis)
      OBVIOUS
    <2>1. CASE j = b
      BY <1>3, <1>6, <2>1 DEF Stepped
    <2>2. CASE j # b
      <3>1. j \in b + 1..k /\ j - 1 \in b..k
        BY <1>1, <2>2
      <3> QED
        BY <1>4, <1>6, <2>2, <3>1 DEF Stepped
    <2> QED
      BY <2>1, <2>2
  <1>8. Recursive(h)
    BY <1>6, <1>7 DEF Stepped
  <1> HIDE DEF Recursive
  <1> DEFINE g == CHOOSE f : Recursive(f)
  <1>9. Recursive(g)
    BY <1>8
  <1> HIDE DEF g
  <1>10. \A j \in b..k : g[j] = (IF j = b THEN 0 ELSE g[j - 1]) + Along(es[j], axis)
    BY <1>9 DEF Recursive
  <1>11. \A j \in b..k : g[j] \in Int
    <2> DEFINE Typed == {j \in b..k : g[j] \in Int}
    <2>1. b \in b..k
      BY <1>1
    <2>2. b \in Typed
      BY <1>3, <1>10, <2>1
    <2>3. ASSUME NEW j \in b + 1..k, j - 1 \in Typed
          PROVE  j \in Typed
      <3>1. j \in b..k /\ j # b /\ g[j - 1] \in Int /\ j \in 1..k
        BY <1>1, <2>3
      <3>2. Along(es[j], axis) \in Int
        BY <3>1 DEF Measured
      <3> QED
        BY <1>10, <3>1, <3>2
    <2> HIDE DEF Typed
    <2>4. \A j \in b..k : j \in Typed
      BY <1>1, <2>2, <2>3, IntervalInduction
    <2> QED
      BY <2>4 DEF Typed
  <1>12. Summed(g, es, b, k, axis)
    <2>1. g \in [b..k -> Int]
      BY <1>9, <1>11 DEF Recursive
    <2>2. g[b] = Along(es[b], axis)
      <3>1. b \in b..k
        BY <1>1
      <3> QED
        BY <1>3, <1>10, <3>1
    <2>3. \A j \in b + 1..k : g[j] = g[j - 1] + Along(es[j], axis)
      <3>1. \A j \in b + 1..k : j \in b..k /\ j # b
        BY <1>1
      <3> QED
        BY <1>10, <3>1
    <2> QED
      BY <2>1, <2>2, <2>3 DEF Summed
  <1> QED
    BY <1>2, <1>12 DEF b, g

\* Two such sums that begin at the same element agree as far as both go.
LEMMA SumsAgree ==
  ASSUME NEW es, NEW b \in Nat, NEW k \in Nat, NEW n \in Nat, b <= k, k <= n, NEW axis,
         NEW s, Summed(s, es, b, k, axis), NEW t, Summed(t, es, b, n, axis)
  PROVE  s[k] = t[k]
  <1> DEFINE Same == {j \in b..k : s[j] = t[j]}
  <1>1. b \in Same
    BY DEF Summed
  <1>2. ASSUME NEW j \in b + 1..k, j - 1 \in Same
        PROVE  j \in Same
    <2>1. j \in b + 1..n /\ j \in b..k
      OBVIOUS
    <2> QED
      BY <1>2, <2>1 DEF Summed
  <1> HIDE DEF Same
  <1>3. \A j \in b..k : j \in Same
    BY <1>1, <1>2, IntervalInduction
  <1> QED
    BY <1>3 DEF Same

\* A position is where its element takes the one before it, or the origin.
From(es, k, axis) == IF Sets(es[k], axis) \/ k = 1 THEN 0 ELSE Position(es, k - 1, axis)
LEMMA PositionStep ==
  ASSUME NEW es, NEW k \in Nat, k >= 1, NEW axis, Measured(es, k, axis)
  PROVE  /\ Position(es, k, axis) = From(es, k, axis) + Along(es[k], axis)
         /\ Position(es, k, axis) \in Int
  <1>1. PICK s : /\ Summed(s, es, Base(es, k, axis), k, axis)
                 /\ Position(es, k, axis) = s[k]
    BY PositionSummed
  <1>2. Base(es, k, axis) \in 1..k
    BY BaseFacts
  <1>3. s[k] \in Int
    BY <1>1, <1>2 DEF Summed
  <1>4. Along(es[k], axis) \in Int
    BY DEF Measured
  <1>5. CASE Sets(es[k], axis) \/ k = 1
    <2>1. Base(es, k, axis) = k
      BY <1>5, BaseFacts
    <2>2. s[k] = Along(es[k], axis)
      BY <1>1, <2>1 DEF Summed
    <2>3. From(es, k, axis) = 0
      BY <1>5 DEF From
    <2> QED
      BY <1>1, <1>3, <1>4, <2>2, <2>3
  <1>6. CASE ~(Sets(es[k], axis) \/ k = 1)
    <2> DEFINE b == Base(es, k - 1, axis)
    <2>1. k - 1 \in Nat /\ k - 1 >= 1 /\ k - 1 <= k
      BY <1>6
    <2>2. Measured(es, k - 1, axis)
      BY <2>1 DEF Measured
    <2>3. b \in 1..k - 1 /\ b = Base(es, k, axis)
      BY <1>6, <2>1, BaseFacts
    <2>4. PICK t : /\ Summed(t, es, b, k - 1, axis)
                   /\ Position(es, k - 1, axis) = t[k - 1]
      BY <2>1, <2>2, PositionSummed
    <2>5. b \in Nat /\ b <= k - 1 /\ k \in b + 1..k
      BY <2>1, <2>3
    <2> HIDE DEF b
    <2>6. t[k - 1] = s[k - 1]
      BY <1>1, <2>1, <2>3, <2>4, <2>5, SumsAgree
    <2>7. s[k] = s[k - 1] + Along(es[k], axis)
      BY <1>1, <2>3, <2>5 DEF Summed
    <2>8. From(es, k, axis) = Position(es, k - 1, axis)
      BY <1>6 DEF From
    <2> QED
      BY <1>1, <1>3, <2>4, <2>6, <2>7, <2>8
  <1> QED
    BY <1>5, <1>6

\* It depends on nothing that comes later.
LEMMA PositionLocal ==
  ASSUME NEW es, NEW fs, NEW k \in Nat, k >= 1, NEW axis, Measured(es, k, axis),
         \A j \in 1..k : es[j] = fs[j]
  PROVE  Position(es, k, axis) = Position(fs, k, axis)
  <1> DEFINE Same == {j \in 1..k : Position(es, j, axis) = Position(fs, j, axis)}
  <1>1. ASSUME NEW j \in 1..k, j # 1 => j - 1 \in Same
        PROVE  j \in Same
    <2>1. j \in Nat /\ j >= 1 /\ Measured(es, j, axis) /\ Measured(fs, j, axis) /\ es[j] = fs[j]
      BY DEF Measured
    <2>2. From(es, j, axis) = From(fs, j, axis)
      BY <1>1, <2>1 DEF From
    <2>3. /\ Position(es, j, axis) = From(es, j, axis) + Along(es[j], axis)
          /\ Position(fs, j, axis) = From(fs, j, axis) + Along(fs[j], axis)
      BY <2>1, PositionStep
    <2> QED
      BY <2>1, <2>2, <2>3
  <1>2. 1 \in Same
    <2>1. 1 \in 1..k
      OBVIOUS
    <2> HIDE DEF Same
    <2> QED
      BY <1>1, <2>1
  <1>3. ASSUME NEW j \in 1 + 1..k, j - 1 \in Same
        PROVE  j \in Same
    <2>1. j \in 1..k
      OBVIOUS
    <2> HIDE DEF Same
    <2> QED
      BY <1>1, <1>3, <2>1
  <1> HIDE DEF Same
  <1>4. \A j \in 1..k : j \in Same
    BY <1>2, <1>3, IntervalInduction
  <1> QED
    BY <1>4 DEF Same

(***************************************************************************)
(* Elements and the points they lead to.                                   *)
(***************************************************************************)

Element == [letter : {"m", "l", "L"}, param : Point, stroke : Nat]
           \union [letter : {"h", "H", "v", "V"}, param : Int, stroke : Nat]

\* Where an element takes the pen.
TakenOn(e, from, axis) == (IF Sets(e, axis) THEN 0 ELSE from[axis]) + Along(e, axis)
Taken(e, from) == <<TakenOn(e, from, 1), TakenOn(e, from, 2)>>
Traced(trace, new, from) ==
  /\ trace \in Seq(Point) /\ Len(trace) = Len(new)
  /\ \A k \in 1..Len(new) : trace[k] = Taken(new[k], IF k = 1 THEN from ELSE trace[k - 1])
Points(es) == [k \in DOMAIN es |-> <<Position(es, k, 1), Position(es, k, 2)>>]

\* An element goes by an integer along each axis.
LEMMA AlongType ==
  ASSUME NEW e \in Element, NEW axis \in {1, 2}
  PROVE  Along(e, axis) \in Int
  BY DEF Element, Along, Point

\* So do all elements of a sequence.
LEMMA ElementsMeasured ==
  ASSUME NEW es \in Seq(Element), NEW k \in Nat, k <= Len(es), NEW axis \in {1, 2}
  PROVE  Measured(es, k, axis)
  <1>1. \A j \in 1..k : es[j] \in Element
    <2> HIDE DEF Element
    <2> QED
      OBVIOUS
  <1> QED
    BY <1>1, AlongType DEF Measured

\* The points are as many as the elements.
LEMMA PointsType ==
  ASSUME NEW es \in Seq(Element)
  PROVE  Points(es) \in Seq(Point) /\ Len(Points(es)) = Len(es) /\ PenAt(es) \in Point
  <1>1. Len(es) \in Nat /\ DOMAIN es = 1..Len(es)
    OBVIOUS
  <1>2. \A k \in 1..Len(es) : Position(es, k, 1) \in Int /\ Position(es, k, 2) \in Int
    <2> SUFFICES ASSUME NEW k \in 1..Len(es)
                 PROVE  Position(es, k, 1) \in Int /\ Position(es, k, 2) \in Int
      OBVIOUS
    <2>1. k \in Nat /\ k >= 1 /\ k <= Len(es)
      BY <1>1
    <2>2. Measured(es, k, 1) /\ Measured(es, k, 2)
      BY <2>1, ElementsMeasured
    <2> QED
      BY <2>1, <2>2, PositionStep
  <1>3. Points(es) \in [1..Len(es) -> Point]
    BY <1>1, <1>2 DEF Points, Point
  <1>4. PenAt(es) \in Point
    <2>1. CASE es = <<>>
      BY <2>1 DEF PenAt, Point
    <2>2. CASE es # <<>>
      <3>1. Len(es) \in 1..Len(es)
        BY <1>1, <2>2, EmptySeq
      <3> QED
        BY <1>2, <2>2, <3>1 DEF PenAt, Point
    <2> QED
      BY <2>1, <2>2
  <1> HIDE DEF Points
  <1> QED
    BY <1>1, <1>3, <1>4

\* What is traced from the pen are the points of further elements.
LEMMA PointsConcat ==
  ASSUME NEW es \in Seq(Element), NEW new \in Seq(Element), NEW trace,
         Traced(trace, new, PenAt(es))
  PROVE  /\ Points(es \o new) = Points(es) \o trace
         /\ PenAt(es \o new) = Last(<<PenAt(es)>> \o trace)
  <1> DEFINE all == es \o new
             n == Len(es)
             Place(k) == <<Position(all, k, 1), Position(all, k, 2)>>
  <1>1. /\ all \in Seq(Element) /\ n \in Nat /\ Len(new) \in Nat /\ Len(all) = n + Len(new)
        /\ \A k \in 1..n : all[k] = es[k]
        /\ \A k \in 1..Len(new) : all[n + k] = new[k] /\ new[k] \in Element
    <2> HIDE DEF Element
    <2> QED
      OBVIOUS
  <1>2. ASSUME NEW k \in 1..Len(all), NEW axis \in {1, 2}
        PROVE  Measured(all, k, axis)
    <2> HIDE DEF all, n
    <2>1. k \in Nat /\ k <= Len(all)
      BY <1>1
    <2> QED
      BY <1>1, <2>1, ElementsMeasured
  <1>3. \A k \in 1..n : \A axis \in {1, 2} : Measured(es, k, axis)
    BY <1>1, ElementsMeasured
  <1> HIDE DEF all, n
  <1>4. ASSUME NEW k \in 1..n, NEW axis \in {1, 2}
        PROVE  Position(es, k, axis) = Position(all, k, axis)
    <2>1. k \in Nat /\ k >= 1 /\ \A j \in 1..k : es[j] = all[j]
      BY <1>1
    <2> QED
      BY <1>3, <2>1, PositionLocal
  <1> DEFINE pens(k) == IF k = 1 THEN PenAt(es) ELSE trace[k - 1]
             Same == {k \in 1..Len(new) : trace[k] = Place(n + k)}
  <1>5. ASSUME NEW k \in 1..Len(new), k # 1 => k - 1 \in Same
        PROVE  k \in Same
    <2>1. n + k \in Nat /\ n + k >= 1 /\ n + k \in 1..Len(all) /\ (n + k) - 1 = n + (k - 1)
      BY <1>1
    <2>2. ASSUME NEW axis \in {1, 2}
          PROVE  Position(all, n + k, axis) = TakenOn(new[k], pens(k), axis)
      <3>1. Position(all, n + k, axis) = From(all, n + k, axis) + Along(new[k], axis)
        <4> DEFINE i == n + k
        <4>1. i \in Nat /\ i >= 1 /\ i \in 1..Len(all) /\ all[i] = new[k]
          BY <1>1, <2>1
        <4> HIDE DEF i
        <4>2. Measured(all, i, axis)
          BY <1>2, <4>1
        <4>3. Position(all, i, axis) = From(all, i, axis) + Along(all[i], axis)
          BY <4>1, <4>2, PositionStep
        <4>4. Position(all, i, axis) = From(all, i, axis) + Along(new[k], axis)
          BY <4>1, <4>3
        <4> QED
          BY <4>4 DEF i
      <3>2. CASE Sets(new[k], axis)
        <4>1. From(all, n + k, axis) = 0
          BY <1>1, <3>2 DEF From
        <4> QED
          BY <3>1, <3>2, <4>1 DEF TakenOn
      <3>3. CASE ~Sets(new[k], axis) /\ n + k = 1
        <4>1. From(all, n + k, axis) = 0
          BY <3>3 DEF From
        <4>2. n = 0 /\ k = 1
          BY <1>1, <3>3
        <4>3. es = <<>>
          BY <4>2, EmptySeq DEF n
        <4>4. pens(k)[axis] = 0
          BY <4>2, <4>3 DEF PenAt
        <4> QED
          BY <3>1, <3>3, <4>1, <4>4 DEF TakenOn
      <3>4. CASE ~Sets(new[k], axis) /\ n + k # 1 /\ k = 1
        <4>1. From(all, n + k, axis) = Position(all, n, axis)
          BY <1>1, <2>1, <3>4 DEF From
        <4>2. n \in 1..n
          BY <1>1, <3>4
        <4>3. Position(all, n, axis) = Position(es, n, axis)
          BY <1>4, <4>2
        <4>4. PenAt(es) = <<Position(es, n, 1), Position(es, n, 2)>>
          BY <4>2, EmptySeq DEF PenAt, n
        <4>5. pens(k)[axis] = Position(es, n, axis)
          BY <3>4, <4>4
        <4> QED
          BY <3>1, <3>4, <4>1, <4>3, <4>5 DEF TakenOn
      <3>5. CASE ~Sets(new[k], axis) /\ n + k # 1 /\ k # 1
        <4>1. From(all, n + k, axis) = Position(all, n + (k - 1), axis)
          BY <1>1, <2>1, <3>5 DEF From
        <4>2. trace[k - 1] = Place(n + (k - 1))
          BY <1>5, <3>5
        <4>3. pens(k)[axis] = Position(all, n + (k - 1), axis)
          BY <3>5, <4>2
        <4> QED
          BY <3>1, <3>5, <4>1, <4>3 DEF TakenOn
      <3> QED
        BY <3>2, <3>3, <3>4, <3>5
    <2>3. trace[k] = Taken(new[k], pens(k))
      BY DEF Traced
    <2> QED
      BY <2>2, <2>3 DEF Taken
  <1>6. \A k \in 1..Len(new) : k \in Same
    <2>1. CASE Len(new) = 0
      BY <2>1
    <2>2. CASE Len(new) # 0
      <3>1. 1 \in 1..Len(new)
        BY <1>1, <2>2
      <3> HIDE DEF Same
      <3>2. 1 \in Same
        BY <1>5, <3>1
      <3>3. ASSUME NEW k \in 1 + 1..Len(new), k - 1 \in Same
            PROVE  k \in Same
        <4>1. k \in 1..Len(new)
          BY <1>1
        <4> QED
          BY <1>5, <3>3, <4>1
      <3> QED
        BY <1>1, <3>2, <3>3, IntervalInduction
    <2> QED
      BY <2>1, <2>2
  <1>7. \A k \in 1..Len(new) : trace[k] = Place(n + k)
    BY <1>6
  <1> HIDE DEF Same
  <1>8. /\ Points(es) \in Seq(Point) /\ Len(Points(es)) = n
        /\ \A k \in 1..n : Points(es)[k] = <<Position(es, k, 1), Position(es, k, 2)>>
    <2>1. Points(es) \in Seq(Point) /\ Len(Points(es)) = n /\ DOMAIN es = 1..n
      BY PointsType DEF n
    <2> QED
      BY <2>1 DEF Points
  <1>9. /\ Points(all) \in Seq(Point) /\ Len(Points(all)) = Len(all)
        /\ \A k \in 1..Len(all) : Points(all)[k] = Place(k)
    <2>1. Points(all) \in Seq(Point) /\ Len(Points(all)) = Len(all) /\ DOMAIN all = 1..Len(all)
      BY <1>1, PointsType
    <2> QED
      BY <2>1 DEF Points
  <1>10. trace \in Seq(Point) /\ Len(trace) = Len(new)
    BY DEF Traced
  <1>11. Points(all) = Points(es) \o trace
    <2> DEFINE p == Points(es)
    <2>1. p \in Seq(Point) /\ Len(p) = n
      BY <1>8
    <2>2. /\ p \o trace \in Seq(Point) /\ Len(p \o trace) = n + Len(new)
          /\ \A i \in 1..n + Len(new) : (p \o trace)[i] = IF i <= n THEN p[i] ELSE trace[i - n]
      <3> HIDE DEF p
      <3>1. /\ p \o trace \in Seq(Point) /\ Len(p \o trace) = Len(p) + Len(trace)
            /\ \A i \in 1..Len(p) + Len(trace) :
                 (p \o trace)[i] = IF i <= Len(p) THEN p[i] ELSE trace[i - Len(p)]
        BY <1>10, <2>1, ConcatProperties
      <3> QED
        BY <1>10, <2>1, <3>1
    <2>3. ASSUME NEW i \in 1..Len(all)
          PROVE  Points(all)[i] = (p \o trace)[i]
      <3>1. CASE i <= n
        <4>1. i \in 1..n /\ i \in 1..n + Len(new)
          BY <1>1, <3>1
        <4>2. p[i] = Place(i)
          BY <1>4, <1>8, <4>1
        <4> QED
          BY <1>9, <2>2, <3>1, <4>1, <4>2
      <3>2. CASE ~(i <= n)
        <4>1. i - n \in 1..Len(new) /\ n + (i - n) = i /\ i \in 1..n + Len(new)
          BY <1>1, <3>2
        <4>2. trace[i - n] = Place(i)
          BY <1>7, <4>1
        <4> QED
          BY <1>9, <2>2, <3>2, <4>1, <4>2
      <3> QED
        BY <3>1, <3>2
    <2> HIDE DEF p
    <2>4. Points(all) = p \o trace
      BY <1>1, <1>9, <2>2, <2>3, SeqEqual
    <2> QED
      BY <2>4 DEF p
  <1>12. PenAt(all) = Last(<<PenAt(es)>> \o trace)
    <2> DEFINE t == <<PenAt(es)>> \o trace
    <2>1. PenAt(es) \in Point
      BY PointsType
    <2>2. Len(t) = 1 + Len(new) /\ t[1] = PenAt(es) /\ \A k \in 1..Len(new) : t[1 + k] = trace[k]
      <3> HIDE DEF Point
      <3> QED
        BY <1>1, <1>10, <2>1
    <2> HIDE DEF t
    <2>3. CASE Len(new) = 0
      <3>1. Last(t) = PenAt(es)
        BY <2>2, <2>3 DEF Last
      <3>2. new = <<>>
        BY <2>3, EmptySeq
      <3>3. all = es
        <4> HIDE DEF Element
        <4> QED
          BY <3>2, ConcatEmptySeq DEF all
      <3> QED
        BY <3>1, <3>3 DEF t
    <2>4. CASE Len(new) # 0
      <3>1. Len(new) \in 1..Len(new) /\ all # <<>>
        BY <1>1, <2>4, EmptySeq
      <3>2. Last(t) = trace[Len(new)]
        BY <2>2, <3>1 DEF Last
      <3>3. trace[Len(new)] = Place(Len(all))
        BY <1>1, <1>7, <3>1
      <3> QED
        BY <3>1, <3>2, <3>3 DEF PenAt, t
    <2> QED
      BY <2>3, <2>4
  <1> QED
    BY <1>11, <1>12 DEF all

(***************************************************************************)
(* Lines and strokes.                                                      *)
(***************************************************************************)

\* Where the lines of a drawing begin, and where elements begin a new one.
Firsts(d) == {1 + Len(FlattenSeq(SubSeq(d, 1, n - 1))) : n \in DOMAIN d}
Starts(es) == {k \in DOMAIN es : k = 1 \/ es[k].stroke # es[k - 1].stroke}

LEMMA FollowsParts ==
  ASSUME NEW d, NEW es
  PROVE  Follows(d, es) <=> FlattenSeq(d) = Points(es) /\ Firsts(d) = Starts(es)
  BY DEF Follows, Points, Firsts, Starts

\* One more line begins behind all points.
LEMMA FirstsAppend ==
  ASSUME NEW d \in Seq(Seq(Point)), NEW l \in Seq(Point)
  PROVE  Firsts(Append(d, l)) = Firsts(d) \union {1 + Len(FlattenSeq(d))}
  <1> DEFINE U == Seq(Point)
             more == Append(d, l)
             n == Len(d)
             At(e, i) == 1 + Len(FlattenSeq(SubSeq(e, 1, i - 1)))
  <1>1. d \in Seq(U) /\ l \in U
    OBVIOUS
  <1> HIDE DEF U
  <1>2. /\ DOMAIN d = 1..n /\ DOMAIN more = 1..n + 1 /\ n \in Nat
        /\ more \in Seq(U) /\ \A i \in 1..n : more[i] = d[i] /\ d[i] \in U
    BY <1>1
  <1> HIDE DEF n, more
  <1>3. ASSUME NEW i \in 1..n + 1
        PROVE  SubSeq(more, 1, i - 1) = SubSeq(d, 1, i - 1)
    <2>1. /\ 1 \in Int /\ i - 1 \in Int
          /\ \A j \in 1..i - 1 : j \in 1..n /\ more[j] = d[j] /\ d[j] \in U /\ more[j] \in U
      BY <1>2
    <2>2. /\ SubSeq(more, 1, i - 1) \in Seq(U)
          /\ Len(SubSeq(more, 1, i - 1)) = IF 1 <= i - 1 THEN i - 1 - 1 + 1 ELSE 0
          /\ \A j \in 1..i - 1 - 1 + 1 : SubSeq(more, 1, i - 1)[j] = more[1 + j - 1]
      BY <2>1, SubSeqProperties
    <2>3. /\ SubSeq(d, 1, i - 1) \in Seq(U)
          /\ Len(SubSeq(d, 1, i - 1)) = IF 1 <= i - 1 THEN i - 1 - 1 + 1 ELSE 0
          /\ \A j \in 1..i - 1 - 1 + 1 : SubSeq(d, 1, i - 1)[j] = d[1 + j - 1]
      BY <2>1, SubSeqProperties
    <2> DEFINE a == SubSeq(more, 1, i - 1)
               b == SubSeq(d, 1, i - 1)
    <2>4. Len(a) = Len(b) /\ Len(a) = i - 1
      BY <2>2, <2>3
    <2>5. \A j \in 1..Len(a) : a[j] = b[j]
      <3> SUFFICES ASSUME NEW j \in 1..Len(a)
                   PROVE  a[j] = b[j]
        OBVIOUS
      <3>1. j \in 1..i - 1 /\ j \in 1..i - 1 - 1 + 1 /\ 1 + j - 1 = j
        BY <2>4
      <3> QED
        BY <2>1, <2>2, <2>3, <3>1
    <2>6. a \in Seq(U) /\ b \in Seq(U)
      BY <2>2, <2>3
    <2> HIDE DEF a, b
    <2>7. a = b
      BY <2>4, <2>5, <2>6, SeqEqual
    <2> QED
      BY <2>7 DEF a, b
  <1>4. SubSeq(d, 1, (n + 1) - 1) = d
    <2>1. (n + 1) - 1 = Len(d)
      BY <1>2 DEF n
    <2>2. SubSeq(d, 1, Len(d)) = d
      BY <1>1, SubSeqFull
    <2> QED
      BY <2>1, <2>2
  <1>5. Firsts(more) = {At(more, i) : i \in 1..n + 1}
    BY <1>2 DEF Firsts
  <1>6. Firsts(d) = {At(d, i) : i \in 1..n}
    BY <1>2 DEF Firsts
  <1>7. \A i \in 1..n + 1 : At(more, i) = At(d, i)
    BY <1>3
  <1>8. At(d, n + 1) = 1 + Len(FlattenSeq(d))
    BY <1>4
  <1> HIDE DEF At
  <1>9. \A i : i \in 1..n + 1 <=> i \in 1..n \/ i = n + 1
    BY <1>2
  <1>10. Firsts(more) = Firsts(d) \union {At(d, n + 1)}
    BY <1>5, <1>6, <1>7, <1>9
  <1> QED
    BY <1>8, <1>10 DEF more

\* All elements are of stroke s.
OfStroke(new, s) == \A k \in 1..Len(new) : new[k].stroke = s

\* Elements of another stroke begin a line, those of the same one do not.
LEMMA StartsConcat ==
  ASSUME NEW es \in Seq(Element), NEW new \in Seq(Element), new # <<>>,
         NEW s, OfStroke(new, s)
  PROVE  /\ es = <<>> \/ Last(es).stroke # s => Starts(es \o new) = Starts(es) \union {Len(es) + 1}
         /\ es # <<>> /\ Last(es).stroke = s => Starts(es \o new) = Starts(es)
  <1> DEFINE all == es \o new
             n == Len(es)
             Begins(e, k) == k = 1 \/ e[k].stroke # e[k - 1].stroke
  <1>1. /\ DOMAIN all = 1..n + Len(new) /\ DOMAIN es = 1..n /\ n \in Nat
        /\ Len(new) \in Nat /\ Len(new) # 0 /\ (es = <<>> <=> n = 0)
        /\ \A k \in 1..n : all[k] = es[k]
        /\ \A k \in 1..Len(new) : all[n + k] = new[k]
    <2> HIDE DEF Element
    <2>1. all \in Seq(Element) /\ Len(all) = n + Len(new)
      OBVIOUS
    <2>2. Len(new) # 0 /\ (es = <<>> <=> n = 0)
      BY EmptySeq
    <2> QED
      BY <2>1, <2>2
  <1>2. n # 0 => Last(es) = es[n]
    BY DEF Last
  <1> HIDE DEF all, n
  <1>3. ASSUME NEW k \in 1..n
        PROVE  Begins(all, k) <=> Begins(es, k)
    <2>1. k # 1 => k - 1 \in 1..n
      BY <1>1
    <2> QED
      BY <1>1, <2>1
  <1>4. ASSUME NEW k \in 2..Len(new)
        PROVE  ~Begins(all, n + k)
    <2>1. /\ k \in 1..Len(new) /\ k - 1 \in 1..Len(new) /\ (n + k) - 1 = n + (k - 1)
          /\ n + k # 1
      BY <1>1
    <2>2. all[n + k] = new[k] /\ all[(n + k) - 1] = new[k - 1]
      BY <1>1, <2>1
    <2> QED
      BY <2>1, <2>2 DEF OfStroke
  <1>5. Begins(all, n + 1) <=> es = <<>> \/ Last(es).stroke # s
    <2>1. 1 \in 1..Len(new) /\ (n + 1) - 1 = n
      BY <1>1
    <2>2. all[n + 1].stroke = s
      BY <1>1, <2>1 DEF OfStroke
    <2>3. CASE n = 0
      BY <1>1, <2>3
    <2>4. CASE n # 0
      <3>1. n \in 1..n /\ n + 1 # 1
        BY <1>1, <2>4
      <3>2. all[n] = Last(es)
        BY <1>1, <1>2, <3>1
      <3> QED
        BY <1>1, <2>1, <2>2, <2>4, <3>1, <3>2
    <2> QED
      BY <2>3, <2>4
  <1>6. Starts(all) = {k \in 1..n + Len(new) : Begins(all, k)}
    BY <1>1 DEF Starts
  <1>7. Starts(es) = {k \in 1..n : Begins(es, k)}
    BY <1>1 DEF Starts
  <1>8. ASSUME NEW k
        PROVE  k \in 1..n + Len(new) <=> \/ k \in 1..n \/ k = n + 1
                                         \/ \E j \in 2..Len(new) : k = n + j
    <2>1. ASSUME k \in 1..n + Len(new), k \notin 1..n, k # n + 1
          PROVE  \E j \in 2..Len(new) : k = n + j
      <3>1. k - n \in 2..Len(new) /\ k = n + (k - n)
        BY <1>1, <2>1
      <3> QED
        BY <3>1
    <2> QED
      BY <1>1, <2>1
  <1> HIDE DEF Begins
  <1>9. \A k : k \in Starts(all) <=> k \in Starts(es) \/ (k = n + 1 /\ Begins(all, n + 1))
    BY <1>3, <1>4, <1>6, <1>7, <1>8
  <1> QED
    BY <1>5, <1>9, <1>1 DEF all, n

\* A line of points traced from further elements, which are of another stroke.
LEMMA FollowsStroke ==
  ASSUME NEW d \in Seq(Seq(Point)), NEW es \in Seq(Element), Follows(d, es),
         NEW new \in Seq(Element), NEW trace, Traced(trace, new, PenAt(es)), trace # <<>>,
         NEW s, OfStroke(new, s), es = <<>> \/ Last(es).stroke # s
  PROVE  Follows(Append(d, trace), es \o new)
  <1>1. trace \in Seq(Point) /\ Len(trace) = Len(new)
    BY DEF Traced
  <1>2. new # <<>>
    BY <1>1, EmptySeq
  <1>3. FlattenSeq(d) = Points(es) /\ Firsts(d) = Starts(es)
    BY FollowsParts
  <1>4. FlattenSeq(Append(d, trace)) = Points(es \o new)
    <2>1. FlattenSeq(Append(d, trace)) = FlattenSeq(d) \o trace
      BY <1>1, FlattenAppend
    <2>2. Points(es \o new) = Points(es) \o trace
      BY PointsConcat
    <2> QED
      BY <1>3, <2>1, <2>2
  <1>5. Firsts(Append(d, trace)) = Starts(es \o new)
    <2>1. Firsts(Append(d, trace)) = Firsts(d) \union {1 + Len(FlattenSeq(d))}
      BY <1>1, FirstsAppend
    <2>2. Len(FlattenSeq(d)) = Len(es) /\ Len(es) \in Nat
      BY <1>3, PointsType
    <2>3. 1 + Len(es) = Len(es) + 1
      BY <2>2
    <2>4. Starts(es \o new) = Starts(es) \union {Len(es) + 1}
      BY <1>2, StartsConcat
    <2> QED
      BY <1>3, <2>1, <2>2, <2>3, <2>4
  <1> QED
    BY <1>4, <1>5, FollowsParts

\* The last line goes on with further elements of its stroke.
LEMMA FollowsLine ==
  ASSUME NEW d \in Seq(Seq(Point)), NEW l \in Seq(Point), NEW es \in Seq(Element),
         Follows(Append(d, l), es), es # <<>>,
         NEW new \in Seq(Element), NEW trace, Traced(trace, new, PenAt(es)),
         OfStroke(new, Last(es).stroke)
  PROVE  Follows(Append(d, l \o trace), es \o new)
  <1>1. trace \in Seq(Point) /\ Len(trace) = Len(new)
    BY DEF Traced
  <1>2. FlattenSeq(Append(d, l)) = Points(es) /\ Firsts(Append(d, l)) = Starts(es)
    BY FollowsParts
  <1>3. l \o trace \in Seq(Point)
    BY <1>1, ConcatProperties
  <1>4. FlattenSeq(Append(d, l \o trace)) = Points(es \o new)
    <2>1. FlattenSeq(Append(d, l \o trace)) = FlattenSeq(d) \o (l \o trace)
      BY <1>3, FlattenAppend
    <2>2. FlattenSeq(Append(d, l)) = FlattenSeq(d) \o l
      BY FlattenAppend
    <2>3. FlattenSeq(d) \in Seq(Point)
      BY FlattenType
    <2>4. (FlattenSeq(d) \o l) \o trace = FlattenSeq(d) \o (l \o trace)
      BY <1>1, <2>3, ConcatAssociative
    <2>5. Points(es \o new) = Points(es) \o trace
      BY PointsConcat
    <2> QED
      BY <1>2, <2>1, <2>2, <2>4, <2>5
  <1>5. Firsts(Append(d, l \o trace)) = Firsts(Append(d, l))
    BY <1>3, FirstsAppend
  <1>6. Starts(es \o new) = Starts(es)
    <2>1. CASE new = <<>>
      <3>1. es \o new = es
        BY <2>1, ConcatEmptySeq
      <3> QED
        BY <3>1
    <2>2. CASE new # <<>>
      BY <2>2, StartsConcat
    <2> QED
      BY <2>1, <2>2
  <1> QED
    BY <1>2, <1>4, <1>5, <1>6, FollowsParts

(***************************************************************************)
(* Commands.                                                               *)
(***************************************************************************)

\* What the parameters of a command are.
ParamsOf(c) == IF c.letter \in {"m", "l", "L"} THEN Point ELSE Int

\* Half of a length, rounded down.
LEMMA HalfOf ==
  ASSUME NEW m \in Nat
  PROVE  m \div 2 \in Nat /\ 2 * (m \div 2) <= m
  OBVIOUS

\* They come in twos, or one by one.
LEMMA ParamsType ==
  ASSUME NEW c \in Command, Known(c)
  PROVE  /\ Params(c) \in Seq(ParamsOf(c))
         /\ c.letter \in {"m", "l", "L", "h", "H", "v", "V"}
  <1>1. c.params \in Seq(Int) /\ Len(c.params) \in Nat
    BY DEF Command
  <1>2. c.letter \in {"m", "l", "L", "h", "H", "v", "V"}
    BY DEF Known
  <1>3. CASE c.letter \in {"m", "l", "L"}
    <2> DEFINE n == Len(c.params) \div 2
               f == [k \in 1..n |-> <<c.params[2 * k - 1], c.params[2 * k]>>]
    <2>1. n \in Nat /\ 2 * n <= Len(c.params)
      BY <1>1, HalfOf
    <2>2. Params(c) = f
      BY <1>3 DEF Params, Chunks
    <2> HIDE DEF n
    <2>3. \A k \in 1..n : f[k] \in Point
      <3> DEFINE ps == c.params
      <3>1. ps \in Seq(Int) /\ Len(ps) \in Nat /\ 2 * n <= Len(ps)
        BY <1>1, <2>1
      <3> HIDE DEF ps
      <3>2. \A k \in 1..n : 2 * k - 1 \in 1..Len(ps) /\ 2 * k \in 1..Len(ps)
        BY <2>1, <3>1
      <3>3. \A k \in 1..n : ps[2 * k - 1] \in Int /\ ps[2 * k] \in Int
        BY <3>1, <3>2
      <3>4. \A k \in 1..n : <<ps[2 * k - 1], ps[2 * k]>> \in Point
        BY <3>3 DEF Point
      <3> QED
        BY <3>4 DEF ps
    <2>5. f \in [1..n -> Point]
      BY <2>3
    <2> HIDE DEF f, n
    <2>6. f \in Seq(Point)
      BY <2>1, <2>5
    <2> QED
      BY <1>2, <1>3, <2>2, <2>6 DEF ParamsOf
  <1>4. CASE c.letter \notin {"m", "l", "L"}
    BY <1>1, <1>2, <1>4 DEF Params, ParamsOf
  <1> QED
    BY <1>3, <1>4

\* The element that a parameter makes.
ElementFor(c, param, s) == [letter |-> c.letter, param |-> param, stroke |-> s]

LEMMA ElementType ==
  ASSUME NEW c \in Command, Known(c), NEW param \in ParamsOf(c), NEW s \in Nat
  PROVE  ElementFor(c, param, s) \in Element
  <1>1. c.letter \in {"m", "l", "L", "h", "H", "v", "V"}
    BY ParamsType
  <1>2. CASE c.letter \in {"m", "l", "L"}
    <2>1. param \in Point
      BY <1>2 DEF ParamsOf
    <2> QED
      BY <1>2, <2>1 DEF ElementFor, Element
  <1>3. CASE c.letter \notin {"m", "l", "L"}
    <2>1. param \in Int
      BY <1>3 DEF ParamsOf
    <2> QED
      BY <1>1, <1>3, <2>1 DEF ElementFor, Element
  <1> QED
    BY <1>2, <1>3

\* It takes the pen where the parameter does.
LEMMA ToTaken ==
  ASSUME NEW c \in Command, Known(c), NEW param \in ParamsOf(c), NEW from \in Point, NEW s
  PROVE  /\ To(c, from, param) = Taken(ElementFor(c, param, s), from)
         /\ To(c, from, param) \in Point
  <1>1. c.letter \in {"m", "l", "L", "h", "H", "v", "V"}
    BY ParamsType
  <1>2. from = <<from[1], from[2]>> /\ from[1] \in Int /\ from[2] \in Int
    BY DEF Point
  <1>3. CASE c.letter \in {"m", "l", "L"}
    <2>1. param = <<param[1], param[2]>> /\ param[1] \in Int /\ param[2] \in Int
      BY <1>3 DEF Point, ParamsOf
    <2>2. CASE c.letter \in {"m", "l"}
      BY <1>2, <2>1, <2>2 DEF To, Taken, TakenOn, ElementFor, Sets, Along, Point
    <2>3. CASE c.letter = "L"
      BY <1>2, <2>1, <2>3 DEF To, Taken, TakenOn, ElementFor, Sets, Along, Point
    <2> QED
      BY <1>3, <2>2, <2>3
  <1>4. CASE c.letter \notin {"m", "l", "L"}
    <2>1. param \in Int
      BY <1>4 DEF ParamsOf
    <2>2. CASE c.letter = "h"
      BY <1>2, <2>1, <2>2 DEF To, Taken, TakenOn, ElementFor, Sets, Along, Point
    <2>3. CASE c.letter = "H"
      BY <1>2, <2>1, <2>3 DEF To, Taken, TakenOn, ElementFor, Sets, Along, Point
    <2>4. CASE c.letter = "v"
      BY <1>2, <2>1, <2>4 DEF To, Taken, TakenOn, ElementFor, Sets, Along, Point
    <2>5. CASE c.letter = "V"
      BY <1>2, <2>1, <2>5 DEF To, Taken, TakenOn, ElementFor, Sets, Along, Point
    <2> QED
      BY <1>1, <1>4, <2>2, <2>3, <2>4, <2>5
  <1> QED
    BY <1>3, <1>4

\* The elements of a command.
Drawn(c, s) == [k \in DOMAIN Params(c) |-> ElementFor(c, Params(c)[k], s)]

LEMMA DrawnType ==
  ASSUME NEW c \in Command, Known(c), NEW s \in Nat
  PROVE  Drawn(c, s) \in Seq(Element) /\ Len(Drawn(c, s)) = Len(Params(c)) /\ OfStroke(Drawn(c, s), s)
  <1> DEFINE ps == Params(c)
             P == ParamsOf(c)
             d == [k \in DOMAIN ps |-> ElementFor(c, ps[k], s)]
  <1>1. ps \in Seq(P)
    BY ParamsType
  <1>2. \A param \in P : ElementFor(c, param, s) \in Element
    BY ElementType
  <1>3. Drawn(c, s) = d
    BY DEF Drawn
  <1> HIDE DEF ps, P
  <1>4. DOMAIN ps = 1..Len(ps) /\ Len(ps) \in Nat /\ \A k \in 1..Len(ps) : ps[k] \in P
    BY <1>1
  <1>5. d \in [1..Len(ps) -> Element]
    <2> HIDE DEF Element
    <2> QED
      BY <1>2, <1>4
  <1>6. \A k \in 1..Len(ps) : d[k].stroke = s
    BY <1>4 DEF ElementFor
  <1> HIDE DEF d, Element
  <1>7. d \in Seq(Element) /\ Len(d) = Len(ps)
    BY <1>4, <1>5
  <1> QED
    BY <1>3, <1>6, <1>7 DEF OfStroke, ps

\* Trace goes from the pen where the elements of the command go.
LEMMA TraceTraced ==
  ASSUME NEW c \in Command, Known(c), pen \in Point, NEW s \in Nat
  PROVE  Traced(Trace(c), Drawn(c, s), pen)
  <1> DEFINE ps == Params(c)
             P == ParamsOf(c)
             n == Len(Params(c))
             F == [p \in (1..n) \X Point |-> To(c, p[2], ps[p[1]])]
             Recursive(f) == f = [k \in 0..n |-> IF k = 0 THEN pen ELSE To(c, f[k - 1], ps[k])]
  <1>1. ps \in Seq(P)
    BY ParamsType
  <1>2. \A param \in P, from \in Point :
          /\ To(c, from, param) = Taken(ElementFor(c, param, s), from)
          /\ To(c, from, param) \in Point
    BY ToTaken
  <1>3. Trace(c) = [k \in DOMAIN ps |-> (CHOOSE f : Recursive(f))[k]]
    BY DEF Trace
  <1>4. /\ Len(Drawn(c, s)) = n
        /\ \A k \in DOMAIN ps : Drawn(c, s)[k] = ElementFor(c, ps[k], s)
    BY DrawnType DEF Drawn
  <1> HIDE DEF P
  <1>5. DOMAIN ps = 1..n /\ n \in Nat /\ \A k \in 1..n : ps[k] \in P
    BY <1>1
  <1> HIDE DEF ps, n
  <1>6. ASSUME NEW j \in 0 + 1..n, NEW from \in Point
        PROVE  F[<<j, from>>] = To(c, from, ps[j]) /\ F[<<j, from>>] \in Point
    <2>1. j \in 1..n /\ To(c, from, ps[j]) \in Point
      BY <1>2, <1>5
    <2> HIDE DEF Point
    <2> QED
      BY <2>1
  <1>7. Stepping(F, 0, n, Point)
    BY <1>6 DEF Stepping
  <1> HIDE DEF F, Point
  <1>8. PICK h : Stepped(h, F, 0, n, Point, pen)
    BY <1>5, <1>7, RecursionDefined
  <1>9. \A k \in 0..n : h[k] = IF k = 0 THEN pen ELSE To(c, h[k - 1], ps[k])
    <2> SUFFICES ASSUME NEW k \in 0..n, k # 0
                 PROVE  h[k] = To(c, h[k - 1], ps[k])
      BY <1>8 DEF Stepped
    <2>1. k \in 0 + 1..n /\ k - 1 \in 0..n
      BY <1>5
    <2> QED
      BY <1>6, <1>8, <2>1 DEF Stepped
  <1>10. Recursive(h)
    BY <1>8, <1>9 DEF Stepped
  <1> HIDE DEF Recursive
  <1> DEFINE g == CHOOSE f : Recursive(f)
  <1>11. Recursive(g)
    BY <1>10
  <1> HIDE DEF g
  <1>12. \A k \in 0..n : g[k] = IF k = 0 THEN pen ELSE To(c, g[k - 1], ps[k])
    BY <1>11 DEF Recursive
  <1>13. \A k \in 0..n : g[k] \in Point
    <2> DEFINE Typed == {k \in 0..n : g[k] \in Point}
    <2>1. 0 \in 0..n
      BY <1>5
    <2>2. 0 \in Typed
      BY <1>12, <2>1
    <2>3. ASSUME NEW k \in 0 + 1..n, k - 1 \in Typed
          PROVE  k \in Typed
      <3>1. k \in 0..n /\ k # 0 /\ k \in 1..n /\ g[k - 1] \in Point
        BY <1>5, <2>3
      <3>2. g[k] = To(c, g[k - 1], ps[k])
        BY <1>12, <3>1
      <3>3. To(c, g[k - 1], ps[k]) \in Point
        BY <1>2, <1>5, <3>1
      <3> QED
        BY <3>1, <3>2, <3>3
    <2> HIDE DEF Typed
    <2>4. \A k \in 0..n : k \in Typed
      BY <1>5, <2>2, <2>3, IntervalInduction
    <2> QED
      BY <2>4 DEF Typed
  <1> DEFINE t == [k \in 1..n |-> g[k]]
  <1>14. Trace(c) = t
    BY <1>3, <1>5 DEF g
  <1>15. t \in [1..n -> Point]
    BY <1>5, <1>13
  <1>16. t \in Seq(Point) /\ Len(t) = n
    <2> HIDE DEF t
    <2> QED
      BY <1>5, <1>15
  <1>17. ASSUME NEW k \in 1..n
         PROVE  t[k] = Taken(Drawn(c, s)[k], IF k = 1 THEN pen ELSE t[k - 1])
    <2> DEFINE from == IF k = 1 THEN pen ELSE t[k - 1]
    <2>1. k \in 0..n /\ k # 0 /\ k - 1 \in 0..n
      BY <1>5
    <2>2. t[k] = To(c, g[k - 1], ps[k])
      BY <1>12, <2>1
    <2>3. from = g[k - 1]
      <3>1. CASE k = 1
        <4>1. k - 1 = 0 /\ 0 \in 0..n
          BY <1>5, <3>1
        <4>2. g[0] = pen
          BY <1>12, <4>1
        <4> QED
          BY <3>1, <4>1, <4>2
      <3>2. CASE k # 1
        <4>1. k - 1 \in 1..n
          BY <1>5, <3>2
        <4> QED
          BY <3>2, <4>1
      <3> QED
        BY <3>1, <3>2
    <2>4. g[k - 1] \in Point /\ ps[k] \in P
      BY <1>5, <1>13, <2>1
    <2>5. To(c, g[k - 1], ps[k]) = Taken(ElementFor(c, ps[k], s), g[k - 1])
      BY <1>2, <2>4
    <2>6. Drawn(c, s)[k] = ElementFor(c, ps[k], s)
      BY <1>4, <1>5
    <2> HIDE DEF from
    <2>7. t[k] = Taken(Drawn(c, s)[k], from)
      BY <2>2, <2>3, <2>5, <2>6
    <2> QED
      BY <2>7 DEF from
  <1> HIDE DEF t
  <1> QED
    BY <1>4, <1>14, <1>16, <1>17 DEF Traced

(***************************************************************************)
(* What the first commands of a path draw.                                 *)
(***************************************************************************)

\* Each move begins a stroke.
LEMMA MovesFacts ==
  ASSUME NEW commands, NEW n \in Nat
  PROVE  /\ Moves(commands, n) \in Nat
         /\ Moves(commands, n + 1)
              = Moves(commands, n) + (IF commands[n + 1].letter = "m" THEN 1 ELSE 0)
  <1> DEFINE M(k) == {i \in 1..k : commands[i].letter = "m"}
  <1>1. IsFiniteSet(M(n))
    <2>1. IsFiniteSet(1..n) /\ M(n) \in SUBSET (1..n)
      BY FS_Interval
    <2> QED
      BY <2>1, FS_Subset, Zenon
  <1>2. Cardinality(M(n)) \in Nat
    BY <1>1, FS_CardinalityType
  <1>3. n + 1 \notin M(n)
    OBVIOUS
  <1>4. CASE commands[n + 1].letter = "m"
    <2>1. M(n + 1) = M(n) \union {n + 1}
      BY <1>4
    <2>2. Cardinality(M(n) \union {n + 1}) = Cardinality(M(n)) + 1
      <3> HIDE DEF M
      <3> QED
        BY <1>1, <1>3, FS_AddElement
    <2> QED
      BY <1>2, <1>4, <2>1, <2>2 DEF Moves
  <1>5. CASE commands[n + 1].letter # "m"
    <2>1. M(n + 1) = M(n)
      BY <1>5
    <2> QED
      BY <1>2, <1>5, <2>1 DEF Moves
  <1> QED
    BY <1>4, <1>5

\* All commands are known up to the n-th.
KnownTo(commands, n) ==
  \A i \in 1..n : commands[i] \in Command /\ Known(commands[i])

\* One more command adds its elements.
LEMMA ElementsStep ==
  ASSUME NEW commands, NEW n \in Nat, KnownTo(commands, n)
  PROVE  /\ Elements(commands, n) \in Seq(Element)
         /\ KnownTo(commands, n + 1) =>
              Elements(commands, n + 1)
                = Elements(commands, n) \o Drawn(commands[n + 1], Moves(commands, n + 1))
  <1> DEFINE U == Seq(Element)
             each(k) == [i \in 1..k |-> ElementsOf(commands, i)]
  <1>1. \A i : ElementsOf(commands, i) = Drawn(commands[i], Moves(commands, i))
    BY DEF ElementsOf, Drawn, ElementFor
  <1>2. ASSUME NEW i \in Nat, i # 0, commands[i] \in Command, Known(commands[i])
        PROVE  ElementsOf(commands, i) \in U
    <2>1. i - 1 \in Nat /\ (i - 1) + 1 = i
      BY <1>2
    <2>2. Moves(commands, i) \in Nat
      BY <2>1, MovesFacts
    <2> QED
      BY <1>1, <1>2, <2>2, DrawnType
  <1> HIDE DEF U
  <1>3. ASSUME NEW k \in Nat, KnownTo(commands, k)
        PROVE  each(k) \in Seq(U) /\ Len(each(k)) = k
    <2>1. \A i \in 1..k : ElementsOf(commands, i) \in U
      BY <1>2, <1>3 DEF KnownTo
    <2>2. each(k) \in [1..k -> U]
      BY <2>1
    <2> HIDE DEF each
    <2> QED
      BY <2>2
  <1>4. Elements(commands, n) = FlattenSeq(each(n))
    BY DEF Elements
  <1>5. Elements(commands, n) \in Seq(Element)
    <2> HIDE DEF each
    <2> QED
      BY <1>3, <1>4, FlattenType DEF U
  <1>6. ASSUME KnownTo(commands, n + 1)
        PROVE  Elements(commands, n + 1)
                 = Elements(commands, n) \o Drawn(commands[n + 1], Moves(commands, n + 1))
    <2> DEFINE last == ElementsOf(commands, n + 1)
    <2>1. n + 1 \in Nat /\ n + 1 # 0 /\ n + 1 \in 1..n + 1
      OBVIOUS
    <2>2. last \in U
      BY <1>2, <1>6, <2>1 DEF KnownTo
    <2>3. each(n + 1) = Append(each(n), last)
      <3>1. /\ each(n + 1) \in Seq(U) /\ Len(each(n + 1)) = n + 1
            /\ each(n) \in Seq(U) /\ Len(each(n)) = n
        BY <1>3, <1>6, <2>1
      <3>2. \A i \in 1..n + 1 : each(n + 1)[i] = IF i = n + 1 THEN last ELSE each(n)[i]
        OBVIOUS
      <3> HIDE DEF each, last
      <3> QED
        BY <2>2, <3>1, <3>2
    <2>4. Elements(commands, n + 1) = FlattenSeq(each(n + 1))
      BY DEF Elements
    <2> HIDE DEF each, last
    <2>5. FlattenSeq(Append(each(n), last)) = FlattenSeq(each(n)) \o last
      BY <1>3, <2>2, FlattenAppend DEF U
    <2> QED
      BY <1>1, <1>4, <2>3, <2>4, <2>5 DEF last
  <1> QED
    BY <1>5, <1>6

\* Nothing is drawn before the first command.
LEMMA NoElements ==
  ASSUME NEW commands
  PROVE  Elements(commands, 0) = <<>>
  <1>1. [i \in 1..0 |-> ElementsOf(commands, i)] = <<>>
    OBVIOUS
  <1> QED
    BY <1>1 DEF Elements, FlattenSeq

(***************************************************************************)
(* Drawing goes on along the path.                                         *)
(***************************************************************************)

\* The lines of a drawing with the line being drawn, and its stroke.
All(ls, l) == IF l # <<>> THEN Append(ls, l) ELSE ls
LastStroke(l, es, s) == IF l # <<>> THEN es # <<>> /\ Last(es).stroke = s
                        ELSE es # <<>> => Last(es).stroke < s

\* The last of more elements.
LEMMA LastConcat ==
  ASSUME NEW es \in Seq(Element), NEW new \in Seq(Element), NEW s, OfStroke(new, s)
  PROVE  /\ new = <<>> => es \o new = es
         /\ new # <<>> => es \o new # <<>> /\ Last(es \o new).stroke = s
  <1> DEFINE all == es \o new
  <1> HIDE DEF Element
  <1>1. new = <<>> => all = es
    BY ConcatEmptySeq
  <1>2. ASSUME new # <<>>
        PROVE  all # <<>> /\ Last(all).stroke = s
    <2>1. /\ all \in Seq(Element) /\ Len(all) = Len(es) + Len(new)
          /\ \A k \in 1..Len(new) : all[Len(es) + k] = new[k]
          /\ Len(new) \in Nat /\ Len(es) \in Nat
      OBVIOUS
    <2>2. Len(new) # 0
      BY <1>2, EmptySeq
    <2> HIDE DEF all
    <2>3. Len(all) # 0 /\ Len(new) \in 1..Len(new)
      BY <2>1, <2>2
    <2>4. Last(all) = new[Len(new)]
      BY <2>1, <2>3 DEF Last
    <2> QED
      BY <2>1, <2>3, <2>4, EmptySeq DEF OfStroke
  <1> QED
    BY <1>1, <1>2

\* A new line follows elements of a new stroke.
LEMMA NewLine ==
  ASSUME NEW d \in Seq(Seq(Point)), NEW es \in Seq(Element), Follows(d, es),
         NEW new \in Seq(Element), NEW trace, Traced(trace, new, PenAt(es)),
         NEW s \in Nat, OfStroke(new, s), es # <<>> => Last(es).stroke < s
  PROVE  Follows(All(d, trace), es \o new) /\ LastStroke(trace, es \o new, s)
  <1>1. trace \in Seq(Point) /\ Len(trace) = Len(new) /\ (trace = <<>> <=> new = <<>>)
    <2>1. trace \in Seq(Point) /\ Len(trace) = Len(new)
      BY DEF Traced
    <2> QED
      BY <2>1, EmptySeq
  <1>2. CASE trace = <<>>
    <2>1. es \o new = es
      BY <1>1, <1>2, LastConcat
    <2> QED
      BY <1>2, <2>1 DEF All, LastStroke
  <1>3. CASE trace # <<>>
    <2>1. es = <<>> \/ Last(es).stroke # s
      OBVIOUS
    <2>2. Follows(Append(d, trace), es \o new)
      BY <1>3, <2>1, FollowsStroke
    <2>3. es \o new # <<>> /\ Last(es \o new).stroke = s
      BY <1>1, <1>3, LastConcat
    <2> QED
      BY <1>3, <2>2, <2>3 DEF All, LastStroke
  <1> QED
    BY <1>2, <1>3

\* What Draw makes of the lines: begins is whether the command moves.
LEMMA DrawFollows ==
  ASSUME NEW ls \in Seq(Seq(Point)), NEW l \in Seq(Point), NEW es \in Seq(Element),
         Follows(All(ls, l), es), NEW s0 \in Nat, LastStroke(l, es, s0),
         NEW new \in Seq(Element), NEW trace, Traced(trace, new, PenAt(es)),
         NEW moves \in BOOLEAN, NEW s, s = s0 + (IF moves THEN 1 ELSE 0), OfStroke(new, s)
  PROVE  LET begins == moves /\ l # <<>>
             ls2 == IF begins THEN Append(ls, l) ELSE ls
             l2 == (IF begins THEN <<>> ELSE l) \o trace
         IN Follows(All(ls2, l2), es \o new) /\ LastStroke(l2, es \o new, s)
  <1>1. trace \in Seq(Point) /\ <<>> \o trace = trace
    <2>1. trace \in Seq(Point)
      BY DEF Traced
    <2> QED
      BY <2>1, ConcatEmptySeq
  <1>2. s \in Nat /\ s0 <= s /\ (moves => s0 < s) /\ (~moves => s = s0)
    OBVIOUS
  <1>3. CASE l = <<>>
    <2>1. All(ls, l) = ls
      BY <1>3 DEF All
    <2>2. es # <<>> => Last(es).stroke < s
      <3> SUFFICES ASSUME es # <<>>
                   PROVE  Last(es).stroke < s
        OBVIOUS
      <3>1. Last(es).stroke < s0
        BY <1>3 DEF LastStroke
      <3>2. Last(es).stroke \in Nat
        <4>1. Len(es) \in 1..Len(es)
          BY EmptySeq
        <4>2. Last(es) \in Element
          <5> HIDE DEF Element
          <5> QED
            BY <4>1 DEF Last
        <4> QED
          BY <4>2 DEF Element
      <3> DEFINE last == Last(es).stroke
      <3> HIDE DEF last
      <3> QED
        BY <1>2, <3>1, <3>2 DEF last
    <2>3. Follows(All(ls, trace), es \o new) /\ LastStroke(trace, es \o new, s)
      BY <1>2, <2>1, <2>2, NewLine
    <2> QED
      BY <1>1, <1>3, <2>3
  <1>4. CASE l # <<>> /\ moves
    <2>1. All(ls, l) = Append(ls, l)
      BY <1>4 DEF All
    <2>2. es # <<>> => Last(es).stroke < s
      BY <1>2, <1>4 DEF LastStroke
    <2>3. Append(ls, l) \in Seq(Seq(Point))
      <3> DEFINE U == Seq(Point)
      <3>1. ls \in Seq(U) /\ l \in U
        OBVIOUS
      <3> HIDE DEF U
      <3>2. Append(ls, l) \in Seq(U)
        BY <3>1
      <3> QED
        BY <3>2 DEF U
    <2>4. /\ Follows(All(Append(ls, l), trace), es \o new)
          /\ LastStroke(trace, es \o new, s)
      BY <1>2, <2>1, <2>2, <2>3, NewLine
    <2> QED
      BY <1>1, <1>4, <2>4
  <1>5. CASE l # <<>> /\ ~moves
    <2>1. All(ls, l) = Append(ls, l)
      BY <1>5 DEF All
    <2>2. es # <<>> /\ Last(es).stroke = s
      BY <1>2, <1>5 DEF LastStroke
    <2>3. Follows(Append(ls, l \o trace), es \o new)
      BY <2>1, <2>2, FollowsLine
    <2>4. l \o trace # <<>>
      BY <1>1, <1>5, ConcatEqualIffEmpty
    <2>5. es \o new # <<>> /\ Last(es \o new).stroke = s
      <3>1. CASE new = <<>>
        BY <2>2, <3>1, LastConcat
      <3>2. CASE new # <<>>
        BY <3>2, LastConcat
      <3> QED
        BY <3>1, <3>2
    <2> QED
      BY <1>5, <2>3, <2>4, <2>5 DEF All, LastStroke
  <1> QED
    BY <1>3, <1>4, <1>5

\* The lines and the line being drawn after it.
LEMMA LinesAfter ==
  ASSUME NEW ls \in Seq(Seq(Point)), NEW l \in Seq(Point), NEW trace \in Seq(Point),
         NEW begins \in BOOLEAN, NEW p \in Point, Full(ls), l # <<>> => p = Last(l),
         begins => l # <<>>
  PROVE  LET ls2 == IF begins THEN Append(ls, l) ELSE ls
             l2 == (IF begins THEN <<>> ELSE l) \o trace
             p2 == Last(<<p>> \o trace)
         IN /\ ls2 \in Seq(Seq(Point)) /\ l2 \in Seq(Point) /\ p2 \in Point
            /\ Full(ls2) /\ (l2 # <<>> => p2 = Last(l2))
  <1> DEFINE U == Seq(Point)
             q == <<p>> \o trace
  <1>1. ls \in Seq(U) /\ l \in U
    OBVIOUS
  <1> HIDE DEF Point
  <1>2. q \in Seq(Point) /\ Len(q) = 1 + Len(trace) /\ Len(trace) \in Nat
    OBVIOUS
  <1>3. q[1] = p /\ \A k \in 1..Len(trace) : q[1 + k] = trace[k]
    OBVIOUS
  <1>4. Last(q) = IF trace = <<>> THEN p ELSE Last(trace)
    <2> HIDE DEF q
    <2>1. CASE Len(trace) = 0
      BY <1>2, <1>3, <2>1, EmptySeq DEF Last
    <2>2. CASE Len(trace) # 0
      <3>1. Len(trace) \in 1..Len(trace) /\ trace # <<>>
        BY <1>2, <2>2, EmptySeq
      <3> QED
        BY <1>2, <1>3, <3>1 DEF Last
    <2> QED
      BY <2>1, <2>2
  <1>5. Last(q) \in Point
    <2> HIDE DEF q
    <2>1. Len(q) \in 1..Len(q)
      BY <1>2
    <2> QED
      BY <1>2, <2>1 DEF Last
  <1>6. ASSUME NEW m \in Seq(Point), trace # <<>>
        PROVE  Last(m \o trace) = Last(trace)
    <2>1. Len(trace) \in 1..Len(trace)
      BY <1>6, EmptySeq
    <2>2. Len(m \o trace) = Len(m) + Len(trace) /\ (m \o trace)[Len(m) + Len(trace)] = trace[Len(trace)]
      BY <2>1
    <2> QED
      BY <2>2 DEF Last
  <1>7. ASSUME NEW m \in Seq(Point)
        PROVE  m \o trace \in Seq(Point) /\ (trace = <<>> => m \o trace = m)
    BY <1>7, ConcatProperties, ConcatEmptySeq
  <1>8. Append(ls, l) \in Seq(U) /\ (l # <<>> => Full(Append(ls, l)))
    <2> HIDE DEF U
    <2>1. /\ Append(ls, l) \in Seq(U) /\ DOMAIN Append(ls, l) = 1..Len(ls) + 1
          /\ DOMAIN ls = 1..Len(ls) /\ Append(ls, l)[Len(ls) + 1] = l
          /\ \A k \in 1..Len(ls) : Append(ls, l)[k] = ls[k]
      BY <1>1
    <2> QED
      BY <2>1 DEF Full
  <1>9. <<>> \in Seq(Point)
    OBVIOUS
  <1> HIDE DEF q
  <1> DEFINE m == IF begins THEN <<>> ELSE l
             ls2 == IF begins THEN Append(ls, l) ELSE ls
  <1>10. m \in Seq(Point) /\ ls2 \in Seq(U) /\ Full(ls2)
    BY <1>1, <1>8, <1>9
  <1>11. ASSUME m \o trace # <<>>
         PROVE  Last(q) = Last(m \o trace)
    <2>1. CASE trace # <<>>
      BY <1>4, <1>6, <1>10, <2>1
    <2>2. CASE trace = <<>> /\ ~begins
      BY <1>4, <1>7, <1>10, <1>11, <2>2
    <2>3. CASE trace = <<>> /\ begins
      BY <1>7, <1>10, <1>11, <2>3
    <2> QED
      BY <2>1, <2>2, <2>3
  <1>12. m \o trace \in Seq(Point)
    BY <1>7, <1>10
  <1> HIDE DEF m, ls2, U
  <1> QED
    BY <1>5, <1>10, <1>11, <1>12 DEF m, ls2, q, U

(***************************************************************************)
(* The invariant holds initially and is preserved.                         *)
(***************************************************************************)

\* The types of a document.
LEMMA DocumentType ==
  ASSUME NEW d \in Documents
  PROVE  d \in Seq(Seq(Command)) /\ DOMAIN d = 1..Len(d) /\ Len(d) \in Nat
  <1>1. d \in Seq(Seq(Command))
    BY DocumentsAssumption DEF Command
  <1> QED
    BY <1>1

\* A path of it.
LEMMA PathType ==
  ASSUME NEW d \in Documents, NEW n \in DOMAIN d
  PROVE  /\ d[n] \in Seq(Command) /\ DOMAIN d[n] = 1..Len(d[n]) /\ Len(d[n]) \in Nat
         /\ \A i \in 1..Len(d[n]) : d[n][i] \in Command
  <1>1. d[n] \in Seq(Command)
    BY DocumentType
  <1> QED
    BY <1>1

\* Nothing is drawn at the start of a path, and it follows nothing.
LEMMA NothingDrawn ==
  /\ Follows(All(<<>>, <<>>), <<>>) /\ PenAt(<<>>) = <<0, 0>>
  /\ \A s : LastStroke(<<>>, <<>>, s)
  <1>1. FlattenSeq(<<>>) = <<>>
    BY DEF FlattenSeq
  <1>2. Points(<<>>) = <<>>
    BY DEF Points
  <1>3. Firsts(<<>>) = {} /\ Starts(<<>>) = {}
    BY DEF Firsts, Starts
  <1>4. Follows(<<>>, <<>>)
    BY <1>1, <1>2, <1>3, FollowsParts
  <1> QED
    BY <1>4 DEF All, PenAt, LastStroke

\* The invariant of drawing in other words.
LEMMA DrawInvIs ==
  DrawInv <=> (InPath => /\ \A i \in 1..command - 1 : Known(document[path][i])
                         /\ Follows(All(lines, line), Read) /\ pen = PenAt(Read)
                         /\ LastStroke(line, Read, Begun))
  BY DEF DrawInv, LastStroke, All, AllLines

\* It holds initially.
LEMMA InitIInv == Init => IInv
  <1> SUFFICES ASSUME Init
               PROVE  IInv
    OBVIOUS
  <1> USE DEF Init
  <1>1. document \in Seq(Seq(Command)) /\ DOMAIN document = 1..Len(document) /\ Len(document) \in Nat
    BY DocumentType
  <1>2. TypeOK
    <2>1. InPath => Len(document[path]) \in Nat
      BY PathType DEF InPath
    <2> QED
      BY <1>1, <2>1 DEF TypeOK, InPath
  <1>3. TypesInv
    BY DEF TypesInv, Point
  <1>4. DrawingsInv /\ PrintedInv
    BY DEF DrawingsInv, PrintedInv
  <1>5. DrawInv
    <2>1. command - 1 = 0
      OBVIOUS
    <2>2. Read = <<>>
      BY <2>1, NoElements DEF Read
    <2>3. LastStroke(line, Read, Begun) /\ Follows(All(lines, line), Read) /\ pen = PenAt(Read)
      BY <2>2, NothingDrawn
    <2> QED
      BY <2>1, <2>3, DrawInvIs
  <1> QED
    BY <1>2, <1>3, <1>4, <1>5 DEF IInv

\* The elements after a command.
LEMMA ReadNext ==
  ASSUME IInv, InPath, command \in DOMAIN document[path], Known(TheCommand)
  PROVE  LET s == Moves(document[path], command)
             new == Drawn(TheCommand, s)
         IN /\ s \in Nat /\ Begun \in Nat
            /\ s = Begun + (IF TheCommand.letter = "m" THEN 1 ELSE 0)
            /\ new \in Seq(Element) /\ OfStroke(new, s) /\ Read \in Seq(Element)
            /\ Elements(document[path], command) = Read \o new
            /\ Traced(Trace(TheCommand), new, PenAt(Read))
  <1> DEFINE commands == document[path]
             s == Moves(commands, command)
  <1>1. document \in Documents /\ path \in DOMAIN document
    BY DEF IInv, TypeOK, InPath
  <1>2. /\ DOMAIN commands = 1..Len(commands) /\ Len(commands) \in Nat
        /\ \A i \in 1..Len(commands) : commands[i] \in Command
    BY <1>1, PathType
  <1>3. /\ command \in 1..Len(commands) /\ command - 1 \in Nat /\ (command - 1) + 1 = command
        /\ TheCommand \in Command /\ TheCommand = commands[command]
    BY <1>2 DEF TheCommand
  <1>4. \A i \in 1..command - 1 : Known(commands[i])
    BY DEF IInv, DrawInv
  <1>5. pen = PenAt(Read) /\ pen \in Point
    BY DEF IInv, DrawInv, TypesInv
  <1> HIDE DEF commands
  <1>6. KnownTo(commands, command - 1)
    BY <1>2, <1>3, <1>4 DEF KnownTo
  <1>7. KnownTo(commands, command)
    <2>1. \A i \in 1..command : i \in 1..Len(commands) /\ (i \in 1..command - 1 \/ i = command)
      BY <1>2, <1>3
    <2> QED
      BY <1>2, <1>3, <1>4, <2>1 DEF KnownTo
  <1>8. s \in Nat /\ Moves(commands, command - 1) \in Nat
    <2>1. command \in Nat
      BY <1>2, <1>3
    <2> QED
      BY <1>3, <2>1, MovesFacts
  <1>9. s = Moves(commands, command - 1) + (IF TheCommand.letter = "m" THEN 1 ELSE 0)
    BY <1>3, MovesFacts
  <1>10. Elements(commands, command - 1) \in Seq(Element)
    BY <1>3, <1>6, ElementsStep
  <1>11. Elements(commands, command) = Elements(commands, command - 1) \o Drawn(TheCommand, s)
    BY <1>3, <1>6, <1>7, ElementsStep
  <1>12. /\ Drawn(TheCommand, s) \in Seq(Element)
         /\ OfStroke(Drawn(TheCommand, s), s)
    BY <1>3, <1>8, DrawnType
  <1>13. Traced(Trace(TheCommand), Drawn(TheCommand, s), PenAt(Read))
    <2>1. Traced(Trace(TheCommand), Drawn(TheCommand, s), pen)
      BY <1>3, <1>5, <1>8, TraceTraced
    <2> QED
      BY <1>5, <2>1
  <1> QED
    BY <1>8, <1>9, <1>10, <1>11, <1>12, <1>13 DEF Read, Begun, commands

\* Draw preserves it.
LEMMA DrawIInv == IInv /\ Draw => IInv'
  <1> SUFFICES ASSUME IInv, Draw
               PROVE  IInv'
    OBVIOUS
  <1> DEFINE trace == Trace(TheCommand)
             m == TheCommand.letter = "m"
             begins == m /\ line # <<>>
             s == Moves(document[path], command)
             new == Drawn(TheCommand, s)
  <1>1. /\ InPath /\ command \in DOMAIN document[path] /\ Known(TheCommand)
        /\ command' = command + 1
        /\ UNCHANGED <<document, path, drawings, printed, phase>>
    BY DEF Draw
  <1>2. /\ lines' = (IF begins THEN Append(lines, line) ELSE lines)
        /\ line' = (IF begins THEN <<>> ELSE line) \o trace
        /\ pen' = Last(<<pen>> \o trace)
    BY DEF Draw
  <1>3. /\ s \in Nat /\ Begun \in Nat /\ s = Begun + (IF m THEN 1 ELSE 0)
        /\ new \in Seq(Element) /\ OfStroke(new, s) /\ Read \in Seq(Element)
        /\ Elements(document[path], command) = Read \o new
        /\ Traced(trace, new, PenAt(Read))
    BY <1>1, ReadNext
  <1>4. trace \in Seq(Point)
    BY <1>3 DEF Traced
  <1>5. /\ lines \in Seq(Seq(Point)) /\ line \in Seq(Point) /\ pen \in Point
        /\ drawings \in Seq(Seq(Seq(Point))) /\ path \in Nat /\ command \in Nat
    BY DEF IInv, TypesInv
  <1>6. Full(lines) /\ (line # <<>> => pen = Last(line))
    BY DEF IInv, TypeOK, Full
  <1>7. /\ Follows(All(lines, line), Read) /\ pen = PenAt(Read)
        /\ LastStroke(line, Read, Begun) /\ \A i \in 1..command - 1 : Known(document[path][i])
    BY <1>1, DrawInvIs DEF IInv
  <1>8. /\ document \in Documents /\ path \in DOMAIN document
    BY <1>1 DEF IInv, TypeOK, InPath
  <1>9. command \in 1..Len(document[path]) /\ Len(document[path]) \in Nat
    BY <1>1, <1>8, PathType
  <1> HIDE DEF trace, m, s, new
  <1>10. /\ lines' \in Seq(Seq(Point)) /\ line' \in Seq(Point) /\ pen' \in Point
         /\ Full(lines') /\ (line' # <<>> => pen' = Last(line'))
    <2>1. begins \in BOOLEAN /\ (begins => line # <<>>)
      BY DEF m
    <2> HIDE DEF begins
    <2> DEFINE ls2 == IF begins THEN Append(lines, line) ELSE lines
               l2 == (IF begins THEN <<>> ELSE line) \o trace
               p2 == Last(<<pen>> \o trace)
    <2>2. /\ ls2 \in Seq(Seq(Point)) /\ l2 \in Seq(Point) /\ p2 \in Point
          /\ Full(ls2) /\ (l2 # <<>> => p2 = Last(l2))
      BY <1>4, <1>5, <1>6, <2>1, LinesAfter
    <2>3. lines' = ls2 /\ line' = l2 /\ pen' = p2
      BY <1>2
    <2> HIDE DEF ls2, l2, p2
    <2> QED
      BY <2>2, <2>3
  <1>11. Follows(All(lines', line'), Read \o new) /\ LastStroke(line', Read \o new, s)
    <2>1. m \in BOOLEAN
      BY DEF m
    <2> QED
      BY <1>2, <1>3, <1>5, <1>7, <2>1, DrawFollows
  <1>12. pen' = PenAt(Read \o new)
    BY <1>2, <1>3, <1>7, PointsConcat
  <1>13. command' - 1 = command
    BY <1>1, <1>9
  <1>14. Read' = Read \o new /\ Begun' = s
    BY <1>1, <1>3, <1>13 DEF Read, Begun, s
  <1>15. TypeOK'
    <2>1. InPath' => command' \in 1..Len(document[path]) + 1
      BY <1>1, <1>9
    <2> QED
      BY <1>1, <1>10, <2>1 DEF IInv, TypeOK, Full, InPath
  <1>16. TypesInv'
    BY <1>1, <1>5, <1>9, <1>10 DEF TypesInv
  <1>17. DrawingsInv' /\ PrintedInv'
    BY <1>1 DEF IInv, DrawingsInv, PrintedInv
  <1>18. DrawInv'
    <2>1. \A i \in 1..command' - 1 : Known(document'[path'][i])
      <3>1. \A i \in 1..command : i \in 1..command - 1 \/ i = command
        BY <1>9
      <3> QED
        BY <1>1, <1>7, <1>13, <3>1 DEF TheCommand
    <2>2. /\ Follows(All(lines, line), Read)' /\ (pen = PenAt(Read))'
          /\ LastStroke(line, Read, Begun)'
      BY <1>11, <1>12, <1>14
    <2> QED
      BY <2>1, <2>2 DEF DrawInv, LastStroke, All, AllLines
  <1> QED
    BY <1>15, <1>16, <1>17, <1>18 DEF IInv

\* An unknown command ends it.
LEMMA UnknownIInv == IInv /\ Unknown => IInv'
  <1> SUFFICES ASSUME IInv, Unknown
               PROVE  IInv'
    OBVIOUS
  <1>1. /\ phase' = "panicked"
        /\ UNCHANGED <<document, path, command, drawings, lines, line, pen, printed>>
    BY DEF Unknown, drawing
  <1>2. ~InPath' /\ ~(phase = "printed")'
    BY <1>1 DEF InPath
  <1>3. TypeOK' /\ TypesInv' /\ DrawingsInv'
    BY <1>1, <1>2 DEF IInv, TypeOK, TypesInv, DrawingsInv
  <1> QED
    BY <1>2, <1>3 DEF IInv, DrawInv, PrintedInv

\* The end of a path preserves it: its lines follow all of it.
LEMMA EndPathIInv == IInv /\ EndPath => IInv'
  <1> SUFFICES ASSUME IInv, EndPath
               PROVE  IInv'
    OBVIOUS
  <1> DEFINE all == All(lines, line)
             U == Seq(Seq(Point))
  <1>1. /\ InPath /\ command = Len(document[path]) + 1
        /\ drawings' = Append(drawings, all) /\ path' = path + 1 /\ command' = 1
        /\ lines' = <<>> /\ line' = <<>> /\ pen' = <<0, 0>>
        /\ UNCHANGED <<document, printed, phase>>
    BY DEF EndPath, EndOf, AllLines, All
  <1>2. document \in Documents /\ path \in DOMAIN document /\ phase = "paths"
    BY <1>1 DEF IInv, TypeOK, InPath
  <1>3. /\ DOMAIN document = 1..Len(document) /\ Len(document) \in Nat
        /\ Len(document[path]) \in Nat
    BY <1>2, DocumentType, PathType
  <1>4. path \in 1..Len(document) /\ (command - 1) = Len(document[path])
    BY <1>1, <1>2, <1>3
  <1>5. Follows(all, Elements(document[path], Len(document[path])))
    BY <1>1, <1>4, DrawInvIs DEF IInv, Read
  <1>6. all \in U /\ Full(all)
    <2> DEFINE V == Seq(Point)
    <2>1. lines \in Seq(V) /\ line \in V /\ Full(lines)
      BY DEF IInv, TypesInv, TypeOK, Full
    <2> HIDE DEF V
    <2>2. CASE line # <<>>
      <3>1. /\ Append(lines, line) \in Seq(V) /\ DOMAIN Append(lines, line) = 1..Len(lines) + 1
            /\ DOMAIN lines = 1..Len(lines) /\ Append(lines, line)[Len(lines) + 1] = line
            /\ \A k \in 1..Len(lines) : Append(lines, line)[k] = lines[k]
        BY <2>1
      <3> QED
        BY <2>1, <2>2, <3>1 DEF All, Full, V
    <2>3. CASE line = <<>>
      BY <2>1, <2>3 DEF All, V
    <2> QED
      BY <2>2, <2>3
  <1>7. drawings \in Seq(U) /\ Len(drawings) = path - 1
    BY DEF IInv, TypesInv, TypeOK
  <1> HIDE DEF all, U
  <1>8. /\ drawings' \in Seq(U) /\ Len(drawings') = path /\ DOMAIN drawings' = 1..path
        /\ DOMAIN drawings = 1..path - 1 /\ drawings'[path] = all
        /\ \A n \in 1..path - 1 : drawings'[n] = drawings[n]
    BY <1>1, <1>3, <1>4, <1>6, <1>7
  <1>9. TypeOK'
    <2>1. InPath' => Len(document'[path']) \in Nat
      <3> SUFFICES ASSUME InPath'
                   PROVE  Len(document'[path']) \in Nat
        OBVIOUS
      <3>1. path' \in DOMAIN document
        BY <1>1 DEF InPath
      <3> QED
        BY <1>1, <1>2, <3>1, PathType
    <2>2. path' \in 1..Len(document) + 1 /\ Len(drawings') = path' - 1
      BY <1>1, <1>3, <1>4, <1>8
    <2>3. InPath' => command' \in 1..Len(document'[path']) + 1
      BY <1>1, <2>1
    <2> QED
      BY <1>1, <1>2, <2>2, <2>3 DEF TypeOK
  <1>10. TypesInv'
    BY <1>1, <1>4, <1>8 DEF TypesInv, Point, U
  <1>11. DrawingsInv'
    <2> SUFFICES ASSUME NEW n \in 1..path
                 PROVE  /\ Full(drawings'[n])
                        /\ Follows(drawings'[n], Elements(document[n], Len(document[n])))
      BY <1>1, <1>8 DEF DrawingsInv
    <2>1. CASE n = path
      BY <1>5, <1>6, <1>8, <2>1
    <2>2. CASE n # path
      <3>1. n \in 1..path - 1
        BY <1>4, <2>2
      <3> QED
        BY <1>8, <3>1 DEF IInv, DrawingsInv
    <2> QED
      BY <2>1, <2>2
  <1>12. DrawInv'
    <2>1. command' - 1 = 0
      BY <1>1
    <2>2. Read' = <<>>
      BY <2>1, NoElements DEF Read
    <2>3. /\ LastStroke(line', Read', Begun') /\ Follows(All(lines', line'), Read')
          /\ pen' = PenAt(Read')
      BY <1>1, <2>2, NothingDrawn
    <2> QED
      BY <2>1, <2>3 DEF DrawInv, LastStroke, All, AllLines
  <1>13. PrintedInv'
    BY <1>1, <1>2 DEF PrintedInv
  <1> QED
    BY <1>9, <1>10, <1>11, <1>12, <1>13 DEF IInv

\* So does printing.
LEMMA PrintIInv == IInv /\ PrintDrawings => IInv'
  <1> SUFFICES ASSUME IInv, PrintDrawings
               PROVE  IInv'
    OBVIOUS
  <1>1. UNCHANGED <<document, path, command, drawings, lines, line, pen>>
    BY DEF PrintDrawings, PrintAs, drawing
  <1>2. \/ phase' = "panicked"
        \/ /\ phase' = "printed" /\ printed' = Handled(Sorted(drawings))
           /\ \A n \in DOMAIN drawings : drawings[n] # <<>>
    BY DEF PrintDrawings, PrintAs
  <1>3. ~InPath'
    BY <1>2 DEF InPath
  <1>4. TypeOK' /\ TypesInv' /\ DrawingsInv'
    BY <1>1, <1>2, <1>3 DEF IInv, TypeOK, TypesInv, DrawingsInv
  <1>5. PrintedInv'
    <2> SUFFICES ASSUME phase' = "printed"
                 PROVE  /\ \A n \in DOMAIN drawings : drawings[n] # <<>>
                        /\ printed' = Handled(Sorted(drawings))
      BY <1>1 DEF PrintedInv
    <2> QED
      BY <1>2
  <1> QED
    BY <1>3, <1>4, <1>5 DEF IInv, DrawInv

\* The strengthened invariant, for every set of documents: the pen and the
\* lines are where the commands read so far end, in the stroke they are in.
THEOREM IInvariant == Spec => []IInv
  <1>1. IInv /\ [Next]_vars => IInv'
    <2> SUFFICES ASSUME IInv, [Next]_vars
                 PROVE  IInv'
      OBVIOUS
    <2>1. CASE Draw
      BY <2>1, DrawIInv
    <2>2. CASE Unknown
      BY <2>2, UnknownIInv
    <2>3. CASE EndPath
      BY <2>3, EndPathIInv
    <2>4. CASE PrintDrawings
      BY <2>4, PrintIInv
    <2>5. CASE UNCHANGED vars
      BY <2>5 DEF vars, drawing, IInv, TypeOK, TypesInv, DrawingsInv, DrawInv, PrintedInv,
                  InPath, Read, Begun, AllLines
    <2> QED
      BY <2>1, <2>2, <2>3, <2>4, <2>5 DEF Next
  <1> QED
    BY <1>1, InitIInv, PTL DEF Spec

\* The types of the variables.
THEOREM TypeCorrect == Spec => []TypeOK
  <1>1. IInv => TypeOK
    BY DEF IInv
  <1> QED
    BY <1>1, IInvariant, PTL

\* The lines follow the path as far as it is read, whatever its commands,
\* and begin where it moves.
THEOREM Followed == Spec => []PathsFollowed
  <1>1. IInv => PathsFollowed
    BY DEF IInv, DrawingsInv, DrawInv, PathsFollowed, Read
  <1> QED
    BY <1>1, IInvariant, PTL

(***************************************************************************)
(* Sorting.                                                                *)
(***************************************************************************)

\* Drawing i is to be printed before drawing j.
Above(ds, i, j) == Top(ds[i]) < Top(ds[j]) \/ (Top(ds[i]) = Top(ds[j]) /\ i < j)
Topped(ds, n) == \A i \in 1..n : Top(ds[i]) \in Int

\* The first n drawings are in order.
Ordered(ds, order, n) ==
  /\ order \in Seq(Nat) /\ Len(order) = n
  /\ \A r \in 1..n : order[r] \in 1..n
  /\ \A i \in 1..n : \E r \in 1..n : order[r] = i
  /\ \A r \in 1..n : \A s \in 1..n : r < s => Above(ds, order[r], order[s])

\* What is inserted behind place b.
LEMMA InsertedAt ==
  ASSUME NEW s \in Seq(Nat), NEW b \in 0..Len(s), NEW e \in Nat
  PROVE  LET new == InsertAt(s, b + 1, e)
         IN /\ new \in Seq(Nat) /\ Len(new) = Len(s) + 1
            /\ \A r \in 1..b : new[r] = s[r]
            /\ new[b + 1] = e
            /\ \A r \in b + 2..Len(s) + 1 : new[r] = s[r - 1]
  <1> DEFINE n == Len(s)
             p == SubSeq(s, 1, (b + 1) - 1)
             q == SubSeq(s, b + 1, n)
             pe == p \o <<e>>
  <1>1. n \in Nat /\ b \in Nat /\ b <= n
    OBVIOUS
  <1>2. p \in Seq(Nat) /\ Len(p) = b /\ \A r \in 1..b : p[r] = s[r]
    <2>1. 1 \in Int /\ (b + 1) - 1 = b /\ b \in Int /\ \A i \in 1..b : s[i] \in Nat
      BY <1>1
    <2> DEFINE p1 == SubSeq(s, 1, b)
    <2>2. /\ p1 \in Seq(Nat) /\ Len(p1) = IF 1 <= b THEN b - 1 + 1 ELSE 0
          /\ \A i \in 1..b - 1 + 1 : p1[i] = s[1 + i - 1]
      BY <2>1, SubSeqProperties
    <2>3. p = p1
      BY <2>1
    <2> HIDE DEF p, p1
    <2>4. Len(p1) = b /\ \A r \in 1..b : r \in 1..b - 1 + 1 /\ 1 + r - 1 = r
      BY <1>1, <2>2
    <2> QED
      BY <2>2, <2>3, <2>4
  <1>3. q \in Seq(Nat) /\ Len(q) = n - b /\ \A r \in 1..n - b : q[r] = s[b + r]
    <2>1. b + 1 \in Int /\ n \in Int /\ \A i \in b + 1..n : s[i] \in Nat
      BY <1>1
    <2>2. /\ q \in Seq(Nat) /\ Len(q) = IF b + 1 <= n THEN n - (b + 1) + 1 ELSE 0
          /\ \A i \in 1..n - (b + 1) + 1 : q[i] = s[(b + 1) + i - 1]
      BY <2>1, SubSeqProperties
    <2> HIDE DEF q, n
    <2>3. Len(q) = n - b /\ \A r \in 1..n - b : r \in 1..n - (b + 1) + 1 /\ (b + 1) + r - 1 = b + r
      BY <1>1, <2>2
    <2> QED
      BY <2>2, <2>3
  <1>4. InsertAt(s, b + 1, e) = pe \o q
    BY DEF InsertAt
  <1> HIDE DEF p, q, n
  <1>5. /\ pe \in Seq(Nat) /\ Len(pe) = b + 1 /\ pe[b + 1] = e
        /\ \A r \in 1..b : pe[r] = s[r]
    BY <1>1, <1>2
  <1> HIDE DEF pe
  <1> DEFINE new == pe \o q
  <1>6. /\ new \in Seq(Nat) /\ Len(new) = n + 1
        /\ \A r \in 1..b + 1 : new[r] = pe[r]
        /\ \A r \in b + 2..n + 1 : new[r] = q[r - (b + 1)]
    <2>1. /\ new \in Seq(Nat) /\ Len(new) = Len(pe) + Len(q)
          /\ \A i \in 1..Len(pe) + Len(q) :
               new[i] = IF i <= Len(pe) THEN pe[i] ELSE q[i - Len(pe)]
      BY <1>3, <1>5, ConcatProperties
    <2> HIDE DEF new
    <2>2. Len(pe) + Len(q) = n + 1 /\ Len(pe) = b + 1
      BY <1>1, <1>3, <1>5
    <2>3. \A r \in 1..b + 1 : r \in 1..n + 1 /\ r <= b + 1
      BY <1>1
    <2>4. \A r \in b + 2..n + 1 : r \in 1..n + 1 /\ ~(r <= b + 1)
      BY <1>1
    <2> QED
      BY <2>1, <2>2, <2>3, <2>4
  <1>7. \A r \in b + 2..n + 1 : new[r] = s[r - 1]
    <2> HIDE DEF new
    <2>1. \A r \in b + 2..n + 1 : r - (b + 1) \in 1..n - b /\ b + (r - (b + 1)) = r - 1
      BY <1>1
    <2> QED
      BY <1>3, <1>6, <2>1
  <1>8. \A r \in 1..b : new[r] = s[r]
    <2> HIDE DEF new
    <2> QED
      BY <1>1, <1>5, <1>6
  <1>9. new[b + 1] = e
    <2> HIDE DEF new
    <2>1. b + 1 \in 1..b + 1
      BY <1>1
    <2> QED
      BY <1>5, <1>6, <2>1
  <1> HIDE DEF new
  <1> QED
    BY <1>4, <1>6, <1>7, <1>8, <1>9 DEF new, n

\* One more drawing is inserted in order.
LEMMA InsertedOrdered ==
  ASSUME NEW ds, NEW n \in Nat, NEW order, Ordered(ds, order, n), Topped(ds, n + 1)
  PROVE  Ordered(ds, Inserted(ds, order, n + 1), n + 1)
  <1> DEFINE S == {0} \union {r \in 1..n : Top(ds[order[r]]) <= Top(ds[n + 1])}
             b == Max(S)
             new == InsertAt(order, b + 1, n + 1)
  <1>1. Inserted(ds, order, n + 1) = new
    <2>1. (n + 1) - 1 = n
      OBVIOUS
    <2> QED
      BY <2>1 DEF Inserted
  <1>2. b \in S /\ \A r \in S : b >= r
    <2>1. S \in SUBSET (0..n) /\ S # {}
      OBVIOUS
    <2> HIDE DEF S
    <2> QED
      BY <2>1, MaxUpTo
  <1> HIDE DEF b
  <1>3. b \in 0..n /\ (b # 0 => Top(ds[order[b]]) <= Top(ds[n + 1]))
    BY <1>2
  <1>4. \A r \in b + 1..n : ~(Top(ds[order[r]]) <= Top(ds[n + 1]))
    <2> SUFFICES ASSUME NEW r \in b + 1..n, Top(ds[order[r]]) <= Top(ds[n + 1])
                 PROVE  FALSE
      OBVIOUS
    <2>1. r \in S /\ ~(b >= r)
      BY <1>3
    <2> QED
      BY <1>2, <2>1
  <1>5. /\ order \in Seq(Nat) /\ Len(order) = n /\ \A r \in 1..n : order[r] \in 1..n
        /\ \A i \in 1..n : \E r \in 1..n : order[r] = i
    BY DEF Ordered
  <1>6. ASSUME NEW r \in 1..n, NEW s \in 1..n, r < s
        PROVE  Above(ds, order[r], order[s])
    BY <1>6 DEF Ordered
  <1>7. /\ new \in Seq(Nat) /\ Len(new) = n + 1 /\ \A r \in 1..b : new[r] = order[r]
        /\ new[b + 1] = n + 1 /\ \A r \in b + 2..n + 1 : new[r] = order[r - 1]
    <2>1. b \in 0..Len(order) /\ n + 1 \in Nat
      BY <1>3, <1>5
    <2>2. /\ new \in Seq(Nat) /\ Len(new) = Len(order) + 1
          /\ \A r \in 1..b : new[r] = order[r]
          /\ new[b + 1] = n + 1
          /\ \A r \in b + 2..Len(order) + 1 : new[r] = order[r - 1]
      <3> HIDE DEF S
      <3>1. order \in Seq(Nat)
        BY <1>5
      <3> QED
        BY <2>1, <3>1, InsertedAt, Zenon
    <2> HIDE DEF new, S
    <2> QED
      BY <1>5, <2>2
  <1> HIDE DEF new, S
  <1>8. Top(ds[n + 1]) \in Int /\ \A r \in 1..n : Top(ds[order[r]]) \in Int
    <2>1. n + 1 \in 1..n + 1 /\ \A r \in 1..n : order[r] \in 1..n + 1
      BY <1>5
    <2> QED
      BY <2>1 DEF Topped
  <1>9. \A r \in 1..n + 1 : \/ r \in 1..b /\ r \in 1..n
                            \/ r = b + 1
                            \/ r \in b + 2..n + 1 /\ r - 1 \in b + 1..n /\ r - 1 \in 1..n
    BY <1>3
  <1>10. \A r \in 1..n + 1 : new[r] \in 1..n + 1
    <2> SUFFICES ASSUME NEW r \in 1..n + 1
                 PROVE  new[r] \in 1..n + 1
      OBVIOUS
    <2>1. \A i \in 1..n : i \in 1..n + 1
      OBVIOUS
    <2>2. n + 1 \in 1..n + 1
      OBVIOUS
    <2> QED
      BY <1>5, <1>7, <1>9, <2>1, <2>2
  <1>11. ASSUME NEW i \in 1..n + 1
         PROVE  \E r \in 1..n + 1 : new[r] = i
    <2>1. CASE i = n + 1
      <3>1. b + 1 \in 1..n + 1
        BY <1>3
      <3> QED
        BY <1>7, <2>1, <3>1
    <2>2. CASE i # n + 1
      <3>1. i \in 1..n
        BY <2>2
      <3>2. PICK r \in 1..n : order[r] = i
        BY <1>5, <3>1
      <3>3. CASE r \in 1..b
        <4>1. r \in 1..n + 1
          OBVIOUS
        <4> QED
          BY <1>7, <3>2, <3>3, <4>1
      <3>4. CASE r \notin 1..b
        <4>1. r + 1 \in b + 2..n + 1 /\ r + 1 \in 1..n + 1 /\ (r + 1) - 1 = r
          BY <1>3, <3>4
        <4>2. new[r + 1] = i
          BY <1>7, <3>2, <4>1
        <4> QED
          BY <4>1, <4>2
      <3> QED
        BY <3>3, <3>4
    <2> QED
      BY <2>1, <2>2
  <1>12. ASSUME NEW r \in 1..b
         PROVE  Above(ds, order[r], n + 1)
    <2>1. b # 0 /\ b \in 1..n /\ r \in 1..n
      BY <1>3
    <2>2. order[r] < n + 1
      BY <1>5, <2>1
    <2>3. Top(ds[order[r]]) <= Top(ds[order[b]])
      <3>1. CASE r = b
        BY <1>8, <2>1, <3>1
      <3>2. CASE r # b
        <4>1. r < b
          BY <1>3, <3>2
        <4>2. Above(ds, order[r], order[b])
          BY <1>6, <2>1, <4>1
        <4> QED
          BY <1>8, <2>1, <4>2 DEF Above
      <3> QED
        BY <3>1, <3>2
    <2>4. Top(ds[order[r]]) <= Top(ds[n + 1])
      BY <1>3, <1>8, <2>1, <2>3
    <2> QED
      BY <1>8, <2>1, <2>2, <2>4 DEF Above
  <1>13. ASSUME NEW r \in b + 1..n
         PROVE  Above(ds, n + 1, order[r])
    <2>1. r \in 1..n
      BY <1>3
    <2> QED
      BY <1>4, <1>8, <2>1 DEF Above
  <1>14. ASSUME NEW r \in 1..n + 1, NEW s \in 1..n + 1, r < s
         PROVE  Above(ds, new[r], new[s])
    <2>1. CASE s \in 1..b
      <3>1. r \in 1..b /\ r \in 1..n /\ s \in 1..n
        BY <1>3, <1>14, <2>1
      <3> QED
        BY <1>6, <1>7, <1>14, <2>1, <3>1
    <2>2. CASE s = b + 1
      <3>1. r \in 1..b
        BY <1>3, <1>14, <2>2
      <3> QED
        BY <1>7, <1>12, <2>2, <3>1
    <2>3. CASE s \in b + 2..n + 1 /\ r = b + 1
      <3>1. s - 1 \in b + 1..n
        BY <1>3, <2>3
      <3> QED
        BY <1>7, <1>13, <2>3, <3>1
    <2>4. CASE s \in b + 2..n + 1 /\ r \in 1..b
      <3>1. s - 1 \in 1..n /\ r \in 1..n /\ r < s - 1
        BY <1>3, <2>4
      <3> QED
        BY <1>6, <1>7, <2>4, <3>1
    <2>5. CASE s \in b + 2..n + 1 /\ r \in b + 2..n + 1
      <3>1. s - 1 \in 1..n /\ r - 1 \in 1..n /\ r - 1 < s - 1
        BY <1>3, <1>14, <2>5
      <3> QED
        BY <1>6, <1>7, <2>5, <3>1
    <2> QED
      BY <1>9, <2>1, <2>2, <2>3, <2>4, <2>5, <1>14, <1>3
  <1> QED
    BY <1>1, <1>7, <1>10, <1>11, <1>14 DEF Ordered

\* Sorted puts the drawings in an order.
LEMMA SortedOrdered ==
  ASSUME NEW ds, DOMAIN ds = 1..Len(ds), Len(ds) \in Nat, Topped(ds, Len(ds))
  PROVE  \E order : /\ Ordered(ds, order, Len(ds))
                    /\ Sorted(ds) = [r \in DOMAIN ds |-> ds[order[r]]]
  <1> DEFINE n == Len(ds)
             S == Seq(Nat)
             F == [p \in (1..n) \X S |-> IF Ordered(ds, p[2], p[1] - 1)
                                         THEN Inserted(ds, p[2], p[1]) ELSE <<>>]
             Recursive(f) ==
               f = [k \in 0..n |-> IF k = 0 THEN <<>> ELSE Inserted(ds, f[k - 1], k)]
  <1>1. Sorted(ds) = [r \in DOMAIN ds |-> ds[(CHOOSE f : Recursive(f))[n][r]]]
    BY DEF Sorted
  <1>2. <<>> \in S /\ Ordered(ds, <<>>, 0)
    BY DEF Ordered
  <1>3. n \in Nat
    OBVIOUS
  <1> HIDE DEF n
  <1>4. ASSUME NEW k \in 1..n, NEW order, Ordered(ds, order, k - 1)
        PROVE  Ordered(ds, Inserted(ds, order, k), k)
    <2>1. k - 1 \in Nat /\ (k - 1) + 1 = k
      BY <1>3
    <2>2. Topped(ds, k)
      <3>1. \A i \in 1..k : i \in 1..n
        BY <1>3
      <3> QED
        BY <3>1 DEF Topped, n
    <2>3. Ordered(ds, Inserted(ds, order, (k - 1) + 1), (k - 1) + 1)
      BY <1>4, <2>1, <2>2, InsertedOrdered
    <2> QED
      BY <2>1, <2>3
  <1>5. \A order, k : Ordered(ds, order, k) => order \in S
    BY DEF Ordered
  <1> HIDE DEF S
  <1>6. ASSUME NEW k \in 0 + 1..n, NEW s \in S
        PROVE  /\ F[<<k, s>>] \in S
               /\ Ordered(ds, s, k - 1) => F[<<k, s>>] = Inserted(ds, s, k)
    <2>1. k \in 1..n
      BY <1>3
    <2>2. F[<<k, s>>] = IF Ordered(ds, s, k - 1) THEN Inserted(ds, s, k) ELSE <<>>
      BY <2>1
    <2>3. Ordered(ds, s, k - 1) => Inserted(ds, s, k) \in S
      BY <1>4, <1>5, <2>1
    <2> HIDE DEF F
    <2> QED
      BY <1>2, <2>2, <2>3
  <1>7. Stepping(F, 0, n, S)
    BY <1>6 DEF Stepping
  <1> HIDE DEF F
  <1>8. PICK h : Stepped(h, F, 0, n, S, <<>>)
    BY <1>2, <1>3, <1>7, RecursionDefined
  <1>9. \A k \in 0..n : Ordered(ds, h[k], k)
    <2> DEFINE T == {k \in 0..n : Ordered(ds, h[k], k)}
    <2>1. 0 \in T
      BY <1>2, <1>3, <1>8 DEF Stepped
    <2>2. ASSUME NEW k \in 0 + 1..n, k - 1 \in T
          PROVE  k \in T
      <3>1. k \in 0..n /\ k \in 1..n /\ k - 1 \in 0..n /\ Ordered(ds, h[k - 1], k - 1)
        BY <1>3, <2>2
      <3>2. h[k] = F[<<k, h[k - 1]>>] /\ h[k - 1] \in S
        BY <1>8, <3>1 DEF Stepped
      <3>3. h[k] = Inserted(ds, h[k - 1], k)
        BY <1>6, <3>1, <3>2
      <3>4. Ordered(ds, Inserted(ds, h[k - 1], k), k)
        BY <1>4, <3>1
      <3> QED
        BY <3>1, <3>3, <3>4
    <2> HIDE DEF T
    <2>3. \A k \in 0..n : k \in T
      BY <1>3, <2>1, <2>2, IntervalInduction
    <2> QED
      BY <2>3 DEF T
  <1>10. \A k \in 0..n : h[k] = IF k = 0 THEN <<>> ELSE Inserted(ds, h[k - 1], k)
    <2> SUFFICES ASSUME NEW k \in 0..n, k # 0
                 PROVE  h[k] = Inserted(ds, h[k - 1], k)
      BY <1>8 DEF Stepped
    <2>1. k \in 0 + 1..n /\ k - 1 \in 0..n
      BY <1>3
    <2>2. h[k] = F[<<k, h[k - 1]>>] /\ h[k - 1] \in S
      BY <1>8, <2>1 DEF Stepped
    <2> QED
      BY <1>6, <1>9, <2>1, <2>2
  <1>11. Recursive(h)
    BY <1>8, <1>10 DEF Stepped
  <1> HIDE DEF Recursive
  <1> DEFINE g == CHOOSE f : Recursive(f)
  <1>12. Recursive(g)
    BY <1>11
  <1> HIDE DEF g
  <1>13. \A k \in 0..n : g[k] = IF k = 0 THEN <<>> ELSE Inserted(ds, g[k - 1], k)
    BY <1>12 DEF Recursive
  <1>14. \A k \in 0..n : Ordered(ds, g[k], k)
    <2> DEFINE T == {k \in 0..n : Ordered(ds, g[k], k)}
    <2>1. 0 \in T
      <3>1. 0 \in 0..n
        BY <1>3
      <3> QED
        BY <1>2, <1>13, <3>1
    <2>2. ASSUME NEW k \in 0 + 1..n, k - 1 \in T
          PROVE  k \in T
      <3>1. k \in 0..n /\ k \in 1..n /\ k # 0 /\ Ordered(ds, g[k - 1], k - 1)
        BY <1>3, <2>2
      <3>2. g[k] = Inserted(ds, g[k - 1], k)
        BY <1>13, <3>1
      <3>3. Ordered(ds, Inserted(ds, g[k - 1], k), k)
        BY <1>4, <3>1
      <3> QED
        BY <3>1, <3>2, <3>3
    <2> HIDE DEF T
    <2>3. \A k \in 0..n : k \in T
      BY <1>3, <2>1, <2>2, IntervalInduction
    <2> QED
      BY <2>3 DEF T
  <1>15. Ordered(ds, g[n], n)
    <2>1. n \in 0..n
      BY <1>3
    <2> QED
      BY <1>14, <2>1
  <1>16. Sorted(ds) = [r \in DOMAIN ds |-> ds[g[n][r]]]
    BY <1>1 DEF g
  <1> HIDE DEF g
  <1> QED
    BY <1>15, <1>16 DEF n

\* In an order the r-th drawing has r - 1 drawings above it.
LEMMA Rank ==
  ASSUME NEW ds, NEW n \in Nat, NEW order, Ordered(ds, order, n), Topped(ds, n), NEW r \in 1..n
  PROVE  Cardinality({m \in 1..n : Above(ds, m, order[r])}) = r - 1
  <1> DEFINE A == {m \in 1..n : Above(ds, m, order[r])}
             f == [s \in 1..r - 1 |-> order[s]]
  <1>1. \A s \in 1..n : order[s] \in 1..n /\ Top(ds[order[s]]) \in Int
    BY DEF Ordered, Topped
  <1>2. \A s \in 1..n : \A t \in 1..n : s < t => Above(ds, order[s], order[t])
    BY DEF Ordered
  <1>3. \A s \in 1..n : \A t \in 1..n :
          Above(ds, order[s], order[t]) => ~Above(ds, order[t], order[s]) /\ order[s] # order[t]
    BY <1>1 DEF Above
  <1>4. \A i \in 1..n : \E s \in 1..n : order[s] = i
    BY DEF Ordered
  <1>5. \A s \in 1..r - 1 : s \in 1..n /\ s < r /\ f[s] = order[s]
    OBVIOUS
  <1>6. f \in [1..r - 1 -> A]
    <2>1. \A s \in 1..r - 1 : order[s] \in A
      BY <1>1, <1>2, <1>5
    <2> HIDE DEF A
    <2> QED
      BY <2>1
  <1>7. ASSUME NEW i \in A
        PROVE  \E s \in 1..r - 1 : f[s] = i
    <2>1. PICK s \in 1..n : order[s] = i
      BY <1>4
    <2>2. Above(ds, order[s], order[r])
      BY <2>1
    <2>3. s # r /\ ~(r < s)
      BY <1>2, <1>3, <2>2
    <2>4. s \in 1..r - 1
      BY <2>3
    <2> QED
      BY <1>5, <2>1, <2>4
  <1>8. ASSUME NEW s \in 1..r - 1, NEW t \in 1..r - 1, f[s] = f[t]
        PROVE  s = t
    <2>1. s \in 1..n /\ t \in 1..n /\ order[s] = order[t]
      BY <1>5, <1>8
    <2>2. ~(s < t) /\ ~(t < s)
      BY <1>2, <1>3, <2>1
    <2> QED
      BY <2>2
  <1> HIDE DEF f, A
  <1>9. f \in Bijection(1..r - 1, A)
    BY <1>6, <1>7, <1>8 DEF Bijection, Injection, IsInjective, Surjection
  <1>10. ExistsBijection(1..r - 1, A) /\ r - 1 \in Nat
    BY <1>9 DEF ExistsBijection
  <1>11. Cardinality(A) = r - 1
    BY <1>10, FS_CountingElements
  <1> QED
    BY <1>11 DEF A

(***************************************************************************)
(* Centering.                                                              *)
(***************************************************************************)

\* The values of a function on 1..n are finitely many.
LEMMA FiniteValues ==
  ASSUME NEW n \in Nat, NEW f, DOMAIN f = 1..n, NEW T, f \in [1..n -> T]
  PROVE  IsFiniteSet({f[k] : k \in 1..n})
  <1> DEFINE V == {f[k] : k \in 1..n}
  <1>1. f \in [1..n -> V]
    OBVIOUS
  <1>2. \A v \in V : \E k \in 1..n : f[k] = v
    OBVIOUS
  <1> HIDE DEF V
  <1>3. f \in Surjection(1..n, V)
    BY <1>1, <1>2 DEF Surjection
  <1>4. IsFiniteSet(1..n)
    BY FS_Interval
  <1>5. IsFiniteSet(V)
    BY <1>3, <1>4, FS_Surjection
  <1> QED
    BY <1>5 DEF V

\* A drawing of at least one line, none of which is empty.
Solid(d) == d \in Seq(Seq(Point)) /\ d # <<>> /\ Full(d)

\* Its points.
LEMMA SolidFacts ==
  ASSUME NEW d, Solid(d)
  PROVE  /\ DOMAIN d = 1..Len(d) /\ Len(d) \in Nat /\ 1 \in DOMAIN d
         /\ \A n \in DOMAIN d : /\ d[n] \in Seq(Point) /\ Len(d[n]) \in Nat
                                /\ DOMAIN d[n] = 1..Len(d[n]) /\ 1 \in DOMAIN d[n]
                                /\ \A k \in DOMAIN d[n] : d[n][k] \in Point
         /\ Top(d) \in Int
  <1> DEFINE U == Seq(Point)
  <1>1. d \in Seq(U)
    BY DEF Solid
  <1>2. \A s \in U : /\ Len(s) \in Nat /\ DOMAIN s = 1..Len(s)
                     /\ \A k \in DOMAIN s : s[k] \in Point
    <2> HIDE DEF Point
    <2> QED
      OBVIOUS
  <1>3. \A s \in U : s # <<>> => 1 \in DOMAIN s
    <2> SUFFICES ASSUME NEW s \in U, s # <<>>
                 PROVE  1 \in DOMAIN s
      OBVIOUS
    <2>1. Len(s) # 0
      BY EmptySeq
    <2> QED
      BY <1>2, <2>1
  <1> HIDE DEF U
  <1>4. /\ DOMAIN d = 1..Len(d) /\ Len(d) \in Nat /\ \A n \in DOMAIN d : d[n] \in U
    BY <1>1
  <1>5. 1 \in DOMAIN d
    <2>1. Len(d) # 0
      BY <1>1, EmptySeq DEF Solid
    <2> QED
      BY <1>4, <2>1
  <1>6. \A n \in DOMAIN d : 1 \in DOMAIN d[n]
    BY <1>3, <1>4 DEF Solid, Full
  <1>7. Top(d) \in Int
    <2>1. d[1][1] \in Point
      BY <1>2, <1>4, <1>5, <1>6
    <2> QED
      BY <2>1 DEF Top, Point
  <1> QED
    BY <1>2, <1>4, <1>5, <1>6, <1>7 DEF U

\* Its coordinates, which are finitely many.
LEMMA CoordinatesAre ==
  ASSUME NEW d, NEW axis
  PROVE  \A c : c \in Coordinates(d, axis)
                  <=> \E n \in DOMAIN d : \E k \in DOMAIN d[n] : c = d[n][k][axis]
  BY DEF Coordinates, Range

LEMMA CoordinatesFacts ==
  ASSUME NEW d, Solid(d), NEW axis \in {1, 2}
  PROVE  /\ Coordinates(d, axis) \in SUBSET Int /\ Coordinates(d, axis) # {}
         /\ IsFiniteSet(Coordinates(d, axis))
  <1> DEFINE C == Coordinates(d, axis)
             on == [n \in DOMAIN d |-> {d[n][k][axis] : k \in DOMAIN d[n]}]
             all == {on[n] : n \in 1..Len(d)}
  <1>1. /\ DOMAIN d = 1..Len(d) /\ Len(d) \in Nat /\ 1 \in DOMAIN d
        /\ \A n \in DOMAIN d : /\ Len(d[n]) \in Nat
                               /\ DOMAIN d[n] = 1..Len(d[n]) /\ 1 \in DOMAIN d[n]
                               /\ \A k \in DOMAIN d[n] : d[n][k] \in Point
    BY SolidFacts
  <1>2. \A n \in DOMAIN d : \A k \in DOMAIN d[n] : d[n][k][axis] \in Int
    BY <1>1 DEF Point
  <1>3. C \in SUBSET Int
    BY <1>2, CoordinatesAre
  <1>4. C # {}
    <2>1. 1 \in DOMAIN d /\ 1 \in DOMAIN d[1]
      BY <1>1
    <2>2. d[1][1][axis] \in C
      BY <2>1, CoordinatesAre
    <2> QED
      BY <2>2
  <1>5. ASSUME NEW n \in DOMAIN d
        PROVE  IsFiniteSet(on[n])
    <2> DEFINE m == Len(d[n])
               f == [k \in 1..m |-> d[n][k][axis]]
    <2>1. m \in Nat /\ DOMAIN d[n] = 1..m
      BY <1>1
    <2>2. f \in [1..m -> Int]
      BY <1>2, <2>1
    <2>3. on[n] = {f[k] : k \in 1..m}
      BY <2>1
    <2> HIDE DEF f, m, on
    <2>4. IsFiniteSet({f[k] : k \in 1..m})
      BY <2>1, <2>2, FiniteValues
    <2> QED
      BY <2>3, <2>4
  <1>6. IsFiniteSet(all)
    <2>1. on \in [1..Len(d) -> all] /\ DOMAIN on = 1..Len(d)
      BY <1>1
    <2> HIDE DEF on
    <2> QED
      BY <1>1, <2>1, FiniteValues
  <1>7. \A T \in all : IsFiniteSet(T)
    BY <1>1, <1>5
  <1>8. C = UNION all
    <2>1. \A n \in 1..Len(d) : on[n] = {d[n][k][axis] : k \in DOMAIN d[n]}
      BY <1>1
    <2> HIDE DEF on
    <2>2. \A c : c \in UNION all <=> \E n \in 1..Len(d) : c \in on[n]
      OBVIOUS
    <2>3. \A c : c \in UNION all
                   <=> \E n \in 1..Len(d) : \E k \in DOMAIN d[n] : c = d[n][k][axis]
      <3>1. \A c : \A n \in 1..Len(d) :
              c \in on[n] <=> \E k \in DOMAIN d[n] : c = d[n][k][axis]
        <4> SUFFICES ASSUME NEW c, NEW n \in 1..Len(d)
                     PROVE  c \in on[n] <=> \E k \in DOMAIN d[n] : c = d[n][k][axis]
          OBVIOUS
        <4>1. on[n] = {d[n][k][axis] : k \in DOMAIN d[n]}
          BY <2>1
        <4> QED
          BY <4>1
      <3> HIDE DEF all
      <3> SUFFICES ASSUME NEW c
                   PROVE  c \in UNION all
                            <=> \E n \in 1..Len(d) : \E k \in DOMAIN d[n] : c = d[n][k][axis]
        OBVIOUS
      <3>2. c \in UNION all <=> \E n \in 1..Len(d) : c \in on[n]
        BY <2>2
      <3>3. \A n \in 1..Len(d) : c \in on[n] <=> \E k \in DOMAIN d[n] : c = d[n][k][axis]
        BY <3>1
      <3> QED
        BY <3>2, <3>3
    <2>4. \A c : c \in C
                   <=> \E n \in 1..Len(d) : \E k \in DOMAIN d[n] : c = d[n][k][axis]
      BY <1>1, CoordinatesAre
    <2> HIDE DEF C, all
    <2> QED
      BY <2>3, <2>4
  <1> HIDE DEF all, C
  <1>9. IsFiniteSet(C)
    BY <1>6, <1>7, <1>8, FS_UNION
  <1> QED
    BY <1>3, <1>4, <1>9 DEF C

\* Where center() places a point.
Middle(d, axis) == Max(Coordinates(d, axis)) + Min(Coordinates(d, axis))

LEMMA CenteredIs ==
  ASSUME NEW d, Solid(d)
  PROVE  /\ \A axis \in {1, 2} : Middle(d, axis) \in Int
         /\ DOMAIN Centered(d) = DOMAIN d
         /\ \A n \in DOMAIN d :
              /\ DOMAIN Centered(d)[n] = DOMAIN d[n]
              /\ \A k \in DOMAIN d[n], axis \in {1, 2} :
                   Centered(d)[n][k][axis] = 2 * d[n][k][axis] - Middle(d, axis)
  <1>1. ASSUME NEW axis \in {1, 2}
        PROVE  Middle(d, axis) \in Int
    <2> DEFINE C == Coordinates(d, axis)
    <2>1. C \in SUBSET Int /\ Extremes(C, Max(C), Min(C))
      BY CoordinatesFacts, MaxMin
    <2>2. Max(C) \in Int /\ Min(C) \in Int
      BY <2>1 DEF Extremes
    <2> QED
      BY <2>2 DEF Middle
  <1> DEFINE Place(p) == <<2 * p[1] - Middle(d, 1), 2 * p[2] - Middle(d, 2)>>
  <1>2. Centered(d) = [n \in DOMAIN d |-> [k \in DOMAIN d[n] |-> Place(d[n][k])]]
    BY DEF Centered, Middle
  <1> HIDE DEF Place
  <1> DEFINE f == [n \in DOMAIN d |-> [k \in DOMAIN d[n] |-> Place(d[n][k])]]
  <1>3. /\ DOMAIN f = DOMAIN d
        /\ \A n \in DOMAIN d : DOMAIN f[n] = DOMAIN d[n]
        /\ \A n \in DOMAIN d : \A k \in DOMAIN d[n] : f[n][k] = Place(d[n][k])
    OBVIOUS
  <1> HIDE DEF f
  <1>4. \A n \in DOMAIN d : \A k \in DOMAIN d[n], axis \in {1, 2} :
          f[n][k][axis] = 2 * d[n][k][axis] - Middle(d, axis)
    <2> SUFFICES ASSUME NEW n \in DOMAIN d, NEW k \in DOMAIN d[n], NEW axis \in {1, 2}
                 PROVE  f[n][k][axis] = 2 * d[n][k][axis] - Middle(d, axis)
      OBVIOUS
    <2>1. f[n][k] = Place(d[n][k])
      BY <1>3
    <2>2. Place(d[n][k])[axis] = 2 * d[n][k][axis] - Middle(d, axis)
      BY DEF Place
    <2> QED
      BY <2>1, <2>2
  <1>5. Centered(d) = f
    BY <1>2 DEF f
  <1> QED
    BY <1>1, <1>3, <1>4, <1>5

\* It keeps the shape.
LEMMA CenteredShape ==
  ASSUME NEW d, Solid(d)
  PROVE  SameShape(Centered(d), d)
  <1>1. /\ DOMAIN d = 1..Len(d) /\ Len(d) \in Nat /\ 1 \in DOMAIN d
        /\ \A n \in DOMAIN d : /\ 1 \in DOMAIN d[n]
                               /\ \A k \in DOMAIN d[n] : d[n][k] \in Point
    BY SolidFacts
  <1>2. /\ \A axis \in {1, 2} : Middle(d, axis) \in Int
        /\ DOMAIN Centered(d) = DOMAIN d
        /\ \A n \in DOMAIN d :
             /\ DOMAIN Centered(d)[n] = DOMAIN d[n]
             /\ \A k \in DOMAIN d[n], axis \in {1, 2} :
                  Centered(d)[n][k][axis] = 2 * d[n][k][axis] - Middle(d, axis)
    BY CenteredIs
  <1>3. ASSUME NEW n \in DOMAIN d, NEW k \in DOMAIN d[n], NEW axis \in {1, 2}
        PROVE  Centered(d)[n][k][axis] - Centered(d)[1][1][axis]
                 = 2 * (d[n][k][axis] - d[1][1][axis])
    <2>1. d[n][k] \in Point /\ d[1][1] \in Point /\ 1 \in DOMAIN d[1]
      BY <1>1
    <2>2. d[n][k][axis] \in Int /\ d[1][1][axis] \in Int
      BY <2>1 DEF Point
    <2>3. /\ Centered(d)[n][k][axis] = 2 * d[n][k][axis] - Middle(d, axis)
          /\ Centered(d)[1][1][axis] = 2 * d[1][1][axis] - Middle(d, axis)
      BY <1>1, <1>2, <2>1
    <2>4. Middle(d, axis) \in Int
      BY <1>2
    <2> QED
      BY <2>2, <2>3, <2>4
  <1> QED
    BY <1>2, <1>3 DEF SameShape

\* Its bounding box is around the origin.
LEMMA CenteredOrigin ==
  ASSUME NEW d, Solid(d), NEW axis \in {1, 2}
  PROVE  Max(Coordinates(Centered(d), axis)) + Min(Coordinates(Centered(d), axis)) = 0
  <1> DEFINE C == Coordinates(d, axis)
             D == Coordinates(Centered(d), axis)
             m == Middle(d, axis)
             a == Max(C)
             b == Min(C)
  <1>1. C \in SUBSET Int /\ Extremes(C, a, b)
    BY CoordinatesFacts, MaxMin
  <1>2. /\ m \in Int /\ DOMAIN Centered(d) = DOMAIN d
        /\ \A n \in DOMAIN d :
             /\ DOMAIN Centered(d)[n] = DOMAIN d[n]
             /\ \A k \in DOMAIN d[n] : Centered(d)[n][k][axis] = 2 * d[n][k][axis] - m
    BY CenteredIs
  <1>3. m = a + b
    BY DEF Middle
  <1> HIDE DEF m
  <1>4. \A c : c \in D <=> \E e \in C : c = 2 * e - m
    <2>1. \A c : c \in C <=> \E n \in DOMAIN d : \E k \in DOMAIN d[n] : c = d[n][k][axis]
      BY CoordinatesAre
    <2>2. \A c : c \in D <=> \E n \in DOMAIN d : \E k \in DOMAIN d[n] :
                               c = Centered(d)[n][k][axis]
      BY <1>2, CoordinatesAre
    <2> HIDE DEF C, D
    <2> QED
      BY <1>2, <2>1, <2>2
  <1> HIDE DEF C, D, a, b
  <1>5. a \in Int /\ b \in Int /\ a \in C /\ b \in C /\ \A e \in C : e \in Int /\ a >= e /\ b <= e
    BY <1>1 DEF Extremes
  <1> DEFINE p == 2 * a - m
             q == 2 * b - m
  <1>6. p \in Int /\ q \in Int /\ p + q = 0
    BY <1>2, <1>3, <1>5
  <1>7. D \in SUBSET Int /\ p \in D /\ q \in D
    BY <1>2, <1>4, <1>5
  <1>8. \A c \in D : p >= c /\ q <= c
    <2> SUFFICES ASSUME NEW e \in C
                 PROVE  p >= 2 * e - m /\ q <= 2 * e - m
      BY <1>4
    <2>1. e \in Int /\ a >= e /\ b <= e
      BY <1>5
    <2> QED
      BY <1>2, <1>5, <2>1
  <1> HIDE DEF p, q
  <1>9. Max(D) = p
    BY <1>7, <1>8, MaxIs
  <1>10. Min(D) = q
    BY <1>7, <1>8, MinIs
  <1> QED
    BY <1>6, <1>9, <1>10 DEF D

(***************************************************************************)
(* What is printed.                                                        *)
(***************************************************************************)

\* The drawings are printed from top to bottom, those of equal height as in
\* the document, each with its shape and around the origin.
LEMMA PrintedFacts ==
  ASSUME \A n \in DOMAIN drawings : Solid(drawings[n]), NEW m \in Nat, DOMAIN drawings = 1..m,
         Len(drawings) = m, printed = Handled(Sorted(drawings))
  PROVE  /\ Len(printed) = Len(drawings)
         /\ \A n \in DOMAIN drawings : SameShape(printed[1 + Cardinality(Ahead(n))], drawings[n])
         /\ \A r \in DOMAIN printed, axis \in {1, 2} :
              Max(Coordinates(printed[r], axis)) + Min(Coordinates(printed[r], axis)) = 0
  <1>1. Topped(drawings, m)
    BY SolidFacts DEF Topped
  <1>2. PICK order : /\ Ordered(drawings, order, m)
                     /\ Sorted(drawings) = [r \in DOMAIN drawings |-> drawings[order[r]]]
    BY <1>1, SortedOrdered
  <1>3. \A r \in 1..m : order[r] \in 1..m
    BY <1>2 DEF Ordered
  <1>4. DOMAIN printed = 1..m /\ \A r \in 1..m : printed[r] = Centered(drawings[order[r]])
    BY <1>2 DEF Handled
  <1>5. Len(printed) = m
    <2> DEFINE f == [r \in 1..m |-> Centered(drawings[order[r]])]
    <2>1. printed = f
      BY <1>2 DEF Handled
    <2>2. Len(f) = m
      OBVIOUS
    <2> QED
      BY <2>1, <2>2
  <1>6. ASSUME NEW n \in 1..m
        PROVE  SameShape(printed[1 + Cardinality(Ahead(n))], drawings[n])
    <2>1. PICK r \in 1..m : order[r] = n
      BY <1>2 DEF Ordered
    <2>2. Ahead(n) = {i \in 1..m : Above(drawings, i, order[r])}
      BY <2>1 DEF Ahead, Above
    <2>3. Cardinality(Ahead(n)) = r - 1
      BY <1>1, <1>2, <2>2, Rank
    <2>4. printed[1 + Cardinality(Ahead(n))] = Centered(drawings[n])
      <3>1. 1 + (r - 1) = r
        OBVIOUS
      <3> QED
        BY <1>4, <2>1, <2>3, <3>1
    <2> QED
      BY <2>4, CenteredShape
  <1>7. ASSUME NEW r \in 1..m, NEW axis \in {1, 2}
        PROVE  Max(Coordinates(printed[r], axis)) + Min(Coordinates(printed[r], axis)) = 0
    BY <1>3, <1>4, CenteredOrigin
  <1> QED
    BY <1>4, <1>5, <1>6, <1>7

\* The generator prints the drawings of every document in this order.
THEOREM Printed == Spec => []PrintedInOrder
  <1>1. IInv => PrintedInOrder
    <2> SUFFICES ASSUME IInv, phase = "printed"
                 PROVE  /\ Len(printed) = Len(drawings)
                        /\ \A n \in DOMAIN drawings :
                             SameShape(printed[1 + Cardinality(Ahead(n))], drawings[n])
                        /\ \A r \in DOMAIN printed, axis \in {1, 2} :
                             Max(Coordinates(printed[r], axis))
                               + Min(Coordinates(printed[r], axis)) = 0
      BY DEF PrintedInOrder
    <2> DEFINE U == Seq(Seq(Point))
    <2>1. drawings \in Seq(U)
      BY DEF IInv, TypesInv
    <2> HIDE DEF U
    <2>2. /\ DOMAIN drawings = 1..Len(drawings) /\ Len(drawings) \in Nat
          /\ \A n \in DOMAIN drawings : drawings[n] \in U
      BY <2>1
    <2>3. /\ \A n \in DOMAIN drawings : drawings[n] # <<>> /\ Full(drawings[n])
          /\ printed = Handled(Sorted(drawings))
      BY DEF IInv, PrintedInv, DrawingsInv
    <2>4. \A n \in DOMAIN drawings : Solid(drawings[n])
      BY <2>2, <2>3 DEF Solid, U
    <2> QED
      BY <2>2, <2>3, <2>4, PrintedFacts
  <1> QED
    BY <1>1, IInvariant, PTL
===============================================================================
