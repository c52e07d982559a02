----------------------- MODULE InputForwardingProofs -----------------------
(***************************************************************************)
(* Proofs about InputForwarding, for any keys, buttons, points, inputs,    *)
(* sessions and losses, and about Coordinates, for every window and screen.*)
(***************************************************************************)
EXTENDS InputForwarding, Coordinates, FiniteSetTheorems, SequenceTheorems, WellFoundedInduction, TLAPS

-----------------------------------------------------------------------------
(* Induction, without an operator as parameter. *)

LEMMA Less == IsWellFoundedOn({p \in Nat \X Nat : p[1] < p[2]}, Nat)
  <1>1. {p \in Nat \X Nat : p[1] < p[2]} = OpToRel(<, Nat)
    BY DEF OpToRel
  <1>. QED BY <1>1, NatLessThanWellFounded

\* A set of numbers has a least element.
LEMMA Least ==
  ASSUME NEW T \in SUBSET Nat, T # {}
  PROVE  \E x \in T : \A y \in T : x <= y
  <1> DEFINE R == {p \in Nat \X Nat : p[1] < p[2]}
  <1>1. \A x, y \in Nat : <<y, x>> \in R <=> y < x
    OBVIOUS
  <1>2. IsWellFoundedOn(R, Nat)
    BY Less
  <1> HIDE DEF R
  <1>3. PICK x \in T : \A y \in T : ~ (<<y, x>> \in R)
    BY <1>2, WFMin
  <1>4. \A y \in T : ~ (y < x)
    BY <1>1, <1>3
  <1>. QED BY <1>4

\* A set with 0 and with the number after each up to n has all of them.
LEMMA Induct ==
  ASSUME NEW n \in Nat, NEW T, 0 \in T, \A k \in 0 .. n - 1 : k \in T => k + 1 \in T
  PROVE  \A k \in 0 .. n : k \in T
  <1> DEFINE U == {k \in 0 .. n : k \notin T}
  <1>1. SUFFICES ASSUME U # {} PROVE FALSE
    OBVIOUS
  <1>2. PICK x \in U : \A y \in U : x <= y
    <2>1. U \in SUBSET Nat
      OBVIOUS
    <2> HIDE DEF U
    <2>. QED BY <1>1, <2>1, Least
  <1>3. x # 0 /\ x - 1 \in 0 .. n - 1 /\ x - 1 \notin U
    BY <1>2
  <1>. QED BY <1>2, <1>3

\* The greatest number of a set.
LEMMA Greatest ==
  ASSUME NEW n \in Nat, NEW T \in SUBSET (1 .. n), T # {}
  PROVE  Max(T) \in T /\ \A y \in T : Max(T) >= y
  <1> DEFINE U == {k \in Nat : k <= n /\ n - k \in T}
  <1>1. U \in SUBSET Nat
    OBVIOUS
  <1>2. U # {}
    <2>1. PICK x \in T : TRUE
      OBVIOUS
    <2>2. n - x \in U
      BY <2>1
    <2>. QED BY <2>2
  <1>3. PICK k \in U : \A y \in U : k <= y
    <2> HIDE DEF U
    <2>. QED BY <1>1, <1>2, Least
  <1>4. \A y \in T : n - y \in U
    OBVIOUS
  <1>5. n - k \in T /\ \A y \in T : n - k >= y
    BY <1>3, <1>4
  <1>. QED BY <1>5 DEF Max

\* The greatest number of an interval.
LEMMA GreatestOf ==
  ASSUME NEW k \in Nat \ {0}
  PROVE  Max(1 .. k) = k
  <1>1. 1 .. k \in SUBSET (1 .. k) /\ 1 .. k # {} /\ k \in 1 .. k
    OBVIOUS
  <1>2. Max(1 .. k) \in 1 .. k /\ Max(1 .. k) >= k
    BY <1>1, Greatest
  <1>. QED BY <1>2

-----------------------------------------------------------------------------
(* Folds: what FoldLeft does step by step. *)

\* g is the way of f through the elements of s, from b.
Steps(f, b, s, g) ==
    /\ DOMAIN g = 0 .. Len(s) /\ g[0] = b
    /\ \A k \in 1 .. Len(s) : g[k] = f[<<g[k - 1], s[k]>>]

\* h is a fold of f over every part of s.
Solves(f, b, s, h) ==
    \A T \in SUBSET (1 .. Len(s)) :
        h[T] = IF T = {} THEN b ELSE f[<<h[T \ {Max(T)}], s[Max(T)]>>]

\* The recursion by which a fold is defined has a solution.
LEMMA FoldSolution ==
  ASSUME NEW A, NEW E, NEW f \in [A \X E -> A], NEW b \in A, NEW s \in Seq(E)
  PROVE  \E h \in [SUBSET (1 .. Len(s)) -> A] : Solves(f, b, s, h)
  <1> DEFINE n == Len(s)
             Solved(h, k) == \A T \in SUBSET (1 .. k) :
                                h[T] = IF T = {} THEN b ELSE f[<<h[T \ {Max(T)}], s[Max(T)]>>]
             Solvable(k) == \E h \in [SUBSET (1 .. k) -> A] : Solved(h, k)
             good == {k \in 0 .. n : Solvable(k)}
  <1>1. n \in Nat /\ \A k \in 1 .. n : s[k] \in E
    BY LenProperties, ElementOfSeq
  <1>2. Solvable(0)
    <2> DEFINE h == [T \in SUBSET (1 .. 0) |-> b]
    <2>1. SUBSET (1 .. 0) = {{}}
      OBVIOUS
    <2>2. h \in [SUBSET (1 .. 0) -> A] /\ Solved(h, 0)
      BY <2>1
    <2> HIDE DEF h, Solved
    <2>. QED BY <2>2
  <1>3. ASSUME NEW k \in 0 .. n - 1, Solvable(k)
        PROVE  Solvable(k + 1)
    <2>1. PICK h \in [SUBSET (1 .. k) -> A] : Solved(h, k)
      BY <1>3
    <2> DEFINE j == [T \in SUBSET (1 .. k + 1) |->
                        IF k + 1 \in T THEN f[<<h[T \ {k + 1}], s[k + 1]>>] ELSE h[T]]
    <2>2. \A T \in SUBSET (1 .. k + 1) : T \ {k + 1} \in SUBSET (1 .. k)
      BY <1>1
    <2>3. k + 1 \in 1 .. n /\ k \in Nat
      BY <1>1
    <2>4. j \in [SUBSET (1 .. k + 1) -> A]
      <3>1. ASSUME NEW T \in SUBSET (1 .. k + 1), k + 1 \in T
            PROVE  f[<<h[T \ {k + 1}], s[k + 1]>>] \in A
        <4>1. h[T \ {k + 1}] \in A /\ s[k + 1] \in E
          BY <1>1, <2>2, <2>3
        <4>. QED BY <4>1
      <3>2. ASSUME NEW T \in SUBSET (1 .. k + 1), k + 1 \notin T
            PROVE  h[T] \in A
        BY <2>2, <3>2
      <3>3. \A T \in SUBSET (1 .. k + 1) :
               (IF k + 1 \in T THEN f[<<h[T \ {k + 1}], s[k + 1]>>] ELSE h[T]) \in A
        BY <3>1, <3>2
      <3>. QED BY <3>3
    <2>5. ASSUME NEW T \in SUBSET (1 .. k), T # {}
          PROVE  Max(T) \in 1 .. k /\ T \ {Max(T)} \in SUBSET (1 .. k)
      <3>1. Max(T) \in T
        BY <2>3, <2>5, Greatest
      <3>. QED BY <3>1
    <2>6. ASSUME NEW T \in SUBSET (1 .. k)
          PROVE  j[T] = h[T]
      BY <2>3
    <2>7. ASSUME NEW T \in SUBSET (1 .. k + 1)
          PROVE  j[T] = IF T = {} THEN b ELSE f[<<j[T \ {Max(T)}], s[Max(T)]>>]
      <3>1. CASE k + 1 \in T
        <4>1. Max(T) = k + 1
          <5>1. k + 1 \in Nat /\ T # {}
            BY <2>3, <3>1
          <5>2. Max(T) \in T /\ Max(T) >= k + 1
            BY <3>1, <5>1, Greatest
          <5>3. Max(T) \in 1 .. k + 1
            BY <5>2
          <5> HIDE DEF j
          <5>. QED BY <2>3, <5>2, <5>3
        <4>2. j[T \ {k + 1}] = h[T \ {k + 1}] /\ j[T] = f[<<h[T \ {k + 1}], s[k + 1]>>]
          BY <2>2, <2>6, <3>1
        <4>3. T # {}
          BY <3>1
        <4> HIDE DEF j
        <4>. QED BY <4>1, <4>2, <4>3
      <3>2. CASE k + 1 \notin T
        <4>1. T \in SUBSET (1 .. k)
          BY <2>2, <3>2
        <4>2. j[T] = h[T] /\ (T # {} => j[T \ {Max(T)}] = h[T \ {Max(T)}])
          BY <2>5, <2>6, <4>1
        <4>3. h[T] = IF T = {} THEN b ELSE f[<<h[T \ {Max(T)}], s[Max(T)]>>]
          BY <2>1, <4>1
        <4> HIDE DEF j
        <4>. QED BY <4>2, <4>3
      <3>. QED BY <3>1, <3>2
    <2>8. Solved(j, k + 1)
      BY <2>7
    <2> HIDE DEF j, Solved
    <2>. QED BY <2>4, <2>8
  <1>4. n \in good
    <2>1. n \in 0 .. n
      BY <1>1
    <2> HIDE DEF Solvable
    <2>2. \A k \in 0 .. n - 1 : k \in good => k + 1 \in good
      <3> SUFFICES ASSUME NEW k \in 0 .. n - 1, k \in good PROVE k + 1 \in good
        OBVIOUS
      <3>1. Solvable(k) /\ k + 1 \in 0 .. n
        BY <1>1
      <3>2. Solvable(k + 1)
        <4> HIDE DEF good, n
        <4>. QED BY <1>3, <3>1
      <3>. QED BY <3>1, <3>2
    <2>3. 0 \in good
      BY <1>1, <1>2
    <2> HIDE DEF good, n
    <2>4. \A k \in 0 .. n : k \in good
      BY <1>1, <2>2, <2>3, Induct
    <2>. QED BY <2>1, <2>4
  <1>5. PICK h \in [SUBSET (1 .. n) -> A] : Solved(h, n)
    BY <1>4
  <1>. QED BY <1>5 DEF Solves

\* A step function, and one step of it.  (They have names because a function of
\* pairs in a lemma keeps the provers from citing it.)
Maps(f, A, E) == f \in [A \X E -> A]
Apply(f, a, e) == f[<<a, e>>]

LEMMA ApplyType ==
  ASSUME NEW A, NEW E, NEW f, Maps(f, A, E), NEW a \in A, NEW e \in E
  PROVE  Apply(f, a, e) \in A
  BY DEF Apply, Maps

\* What is left after the steps of f through the elements of s, from b.
Run(f, b, s) == (CHOOSE g : Steps(f, b, s, g))[Len(s)]

LEMMA StepsExist ==
  ASSUME NEW A, NEW E, NEW f, Maps(f, A, E), NEW b \in A, NEW s \in Seq(E)
  PROVE  \E g \in [0 .. Len(s) -> A] : Steps(f, b, s, g)
  <1> DEFINE n == Len(s)
  <1>1. n \in Nat
    BY LenProperties
  <1>2. PICK h \in [SUBSET (1 .. n) -> A] : Solves(f, b, s, h)
    BY FoldSolution DEF Maps
  <1> DEFINE g == [k \in 0 .. n |-> h[1 .. k]]
  <1>3. \A k \in 0 .. n : 1 .. k \in SUBSET (1 .. n)
    BY <1>1
  <1>4. g \in [0 .. n -> A]
    BY <1>3
  <1>5. h[1 .. 0] = b
    <2>1. 1 .. 0 = {}
      OBVIOUS
    <2>. QED BY <1>1, <1>2, <2>1 DEF Solves
  <1>6. ASSUME NEW k \in 1 .. n
        PROVE  h[1 .. k] = f[<<h[1 .. k - 1], s[k]>>]
    <2>1. 1 .. k # {} /\ (1 .. k) \ {k} = 1 .. k - 1 /\ k \in Nat \ {0} /\ 1 .. k \in SUBSET (1 .. n)
      BY <1>1, <1>3
    <2>2. Max(1 .. k) = k
      BY <2>1, GreatestOf
    <2>. QED BY <1>2, <2>1, <2>2 DEF Solves
  <1>7. Steps(f, b, s, g)
    <2>1. DOMAIN g = 0 .. n /\ g[0] = b
      BY <1>1, <1>5
    <2>2. ASSUME NEW k \in 1 .. n
          PROVE  g[k] = f[<<g[k - 1], s[k]>>]
      <3>1. g[k] = h[1 .. k] /\ g[k - 1] = h[1 .. k - 1]
        BY <1>1
      <3>. QED BY <1>6, <3>1
    <2> HIDE DEF g
    <2>. QED BY <2>1, <2>2 DEF Steps
  <1>. QED BY <1>4, <1>7

\* A walk ends at the run.
LEMMA RunIs ==
  ASSUME NEW f, NEW b, NEW s, Len(s) \in Nat, NEW g, Steps(f, b, s, g)
  PROVE  Run(f, b, s) = g[Len(s)]
  <1> DEFINE h == CHOOSE x : Steps(f, b, s, x)
             same == {k \in 0 .. Len(s) : g[k] = h[k]}
  <1>1. Steps(f, b, s, h)
    OBVIOUS
  <1> HIDE DEF h
  <1>2. Len(s) \in Nat
    OBVIOUS
  <1>3. 0 \in same
    BY <1>1, <1>2 DEF Steps
  <1>4. ASSUME NEW k \in 0 .. Len(s) - 1, k \in same
        PROVE  k + 1 \in same
    <2>1. k + 1 \in 1 .. Len(s) /\ k + 1 - 1 = k /\ g[k] = h[k]
      BY <1>2, <1>4
    <2>2. g[k + 1] = f[<<g[k], s[k + 1]>>] /\ h[k + 1] = f[<<h[k], s[k + 1]>>]
      BY <1>1, <2>1 DEF Steps
    <2>. QED BY <1>2, <2>1, <2>2
  <1>5. \A k \in 0 .. Len(s) : k \in same
    <2> HIDE DEF same
    <2>. QED BY <1>2, <1>3, <1>4, Induct
  <1>6. Run(f, b, s) = h[Len(s)]
    BY DEF Run, h
  <1>7. g[Len(s)] = h[Len(s)]
    BY <1>2, <1>5
  <1>. QED BY <1>6, <1>7

LEMMA RunEmpty ==
  ASSUME NEW f, NEW b
  PROVE  Run(f, b, <<>>) = b
  <1> DEFINE g == [k \in 0 .. 0 |-> b]
  <1>1. Steps(f, b, <<>>, g)
    BY DEF Steps
  <1>2. Len(<<>>) = 0 /\ Len(<<>>) \in Nat /\ g[0] = b
    OBVIOUS
  <1>3. Run(f, b, <<>>) = g[Len(<<>>)]
    <2> HIDE DEF g
    <2>. QED BY <1>1, <1>2, RunIs
  <1>. QED BY <1>2, <1>3

LEMMA RunType ==
  ASSUME NEW A, NEW E, NEW f, Maps(f, A, E), NEW b \in A, NEW s \in Seq(E)
  PROVE  Run(f, b, s) \in A
  <1>1. PICK g \in [0 .. Len(s) -> A] : Steps(f, b, s, g)
    BY StepsExist
  <1>2. Len(s) \in Nat
    BY LenProperties
  <1>3. Run(f, b, s) = g[Len(s)]
    BY <1>1, <1>2, RunIs
  <1>. QED BY <1>2, <1>3

LEMMA RunAppend ==
  ASSUME NEW A, NEW E, NEW f, Maps(f, A, E), NEW b \in A, NEW s \in Seq(E), NEW e \in E
  PROVE  Run(f, b, Append(s, e)) = Apply(f, Run(f, b, s), e)
  <1> DEFINE n == Len(s)
             t == Append(s, e)
  <1>1. PICK g \in [0 .. n -> A] : Steps(f, b, s, g)
    BY StepsExist
  <1>2. /\ n \in Nat /\ t \in Seq(E) /\ Len(t) = n + 1 /\ t[n + 1] = e
        /\ \A k \in 1 .. n : t[k] = s[k]
    BY AppendProperties, LenProperties
  <1> DEFINE h == [k \in 0 .. n + 1 |-> IF k = n + 1 THEN f[<<g[n], e>>] ELSE g[k]]
  <1> HIDE DEF n, t
  <1>3. Steps(f, b, t, h)
    <2>1. DOMAIN h = 0 .. Len(t) /\ h[0] = b
      BY <1>1, <1>2 DEF Steps, n
    <2>2. ASSUME NEW k \in 1 .. Len(t)
          PROVE  h[k] = f[<<h[k - 1], t[k]>>]
      <3>1. CASE k = n + 1
        <4>1. h[n + 1] = f[<<g[n], e>>] /\ h[n] = g[n] /\ n + 1 - 1 = n
          BY <1>2
        <4>2. t[k] = e /\ h[k] = h[n + 1] /\ h[k - 1] = h[n]
          BY <1>2, <3>1, <4>1
        <4> HIDE DEF h
        <4>. QED BY <4>1, <4>2
      <3>2. CASE k \in 1 .. n
        <4>1. h[k] = g[k] /\ h[k - 1] = g[k - 1] /\ t[k] = s[k]
          BY <1>2, <3>2
        <4>2. g[k] = f[<<g[k - 1], s[k]>>]
          BY <1>1, <3>2 DEF Steps, n
        <4>. QED BY <4>1, <4>2
      <3>. QED BY <1>2, <3>1, <3>2
    <2> HIDE DEF h
    <2>. QED BY <2>1, <2>2 DEF Steps
  <1>4. Run(f, b, t) = h[n + 1]
    <2> HIDE DEF h
    <2>. QED BY <1>2, <1>3, RunIs
  <1>5. Run(f, b, s) = g[n]
    BY <1>1, <1>2, RunIs DEF n
  <1>6. h[n + 1] = f[<<g[n], e>>]
    BY <1>2
  <1>. QED BY <1>4, <1>5, <1>6 DEF t, Apply

\* Induction over sequences.
LEMMA SeqInduct ==
  ASSUME NEW E, NEW P, <<>> \in P, \A s \in Seq(E) : \A e \in E : s \in P => Append(s, e) \in P
  PROVE  \A s \in Seq(E) : s \in P
  <1> DEFINE L == {Len(s) : s \in Seq(E) \ P}
  <1> SUFFICES ASSUME NEW r \in Seq(E) \ P PROVE FALSE
    OBVIOUS
  <1>1. L \in SUBSET Nat /\ L # {}
    BY LenProperties
  <1>2. PICK x \in L : \A y \in L : x <= y
    <2> HIDE DEF L
    <2>. QED BY <1>1, Least
  <1>3. PICK s \in Seq(E) \ P : x = Len(s)
    BY <1>2
  <1>4. PICK t \in Seq(E), e \in E : s = Append(t, e)
    BY <1>3, SequenceEmptyOrAppend
  <1>5. Len(s) = Len(t) + 1 /\ Len(t) \in Nat
    BY <1>4, AppendProperties, LenProperties
  <1>6. t \in P
    BY <1>2, <1>3, <1>5
  <1>. QED BY <1>3, <1>4, <1>6

LEMMA ConcatAppend ==
  ASSUME NEW E, NEW s \in Seq(E), NEW t \in Seq(E), NEW e \in E
  PROVE  s \o Append(t, e) = Append(s \o t, e)
  <1>1. <<e>> \in Seq(E) /\ s \o t \in Seq(E)
    BY ConcatProperties
  <1>2. Append(t, e) = t \o <<e>> /\ Append(s \o t, e) = (s \o t) \o <<e>>
    BY <1>1, AppendIsConcat
  <1>. QED BY <1>1, <1>2, ConcatAssociative

\* One sequence after the other.
LEMMA RunConcat ==
  ASSUME NEW A, NEW E, NEW f, Maps(f, A, E), NEW b \in A, NEW s \in Seq(E)
  PROVE  \A t \in Seq(E) : Run(f, b, s \o t) = Run(f, Run(f, b, s), t)
  <1> DEFINE c == Run(f, b, s)
             P == {t \in Seq(E) : Run(f, b, s \o t) = Run(f, c, t)}
  <1>1. c \in A
    BY RunType
  <1> HIDE DEF c
  <1>2. <<>> \in P
    BY RunEmpty, ConcatEmptySeq, EmptySeq DEF c
  <1>3. ASSUME NEW t \in Seq(E), NEW e \in E, t \in P
        PROVE  Append(t, e) \in P
    <2> DEFINE u == s \o t
    <2>1. u \in Seq(E) /\ Append(t, e) \in Seq(E)
      BY ConcatProperties, AppendProperties
    <2>2. s \o Append(t, e) = Append(u, e) /\ Run(f, b, u) = Run(f, c, t)
      BY <1>3, ConcatAppend
    <2>3. Run(f, b, Append(u, e)) = Apply(f, Run(f, b, u), e)
      <3> HIDE DEF u, P
      <3>. QED BY <2>1, RunAppend
    <2>4. Run(f, c, Append(t, e)) = Apply(f, Run(f, c, t), e)
      <3> HIDE DEF u, P
      <3>. QED BY <1>1, RunAppend
    <2> HIDE DEF u
    <2>. QED BY <2>1, <2>2, <2>3, <2>4
  <1>4. \A t \in Seq(E) : t \in P
    <2> HIDE DEF P
    <2>. QED BY <1>2, <1>3, SeqInduct
  <1>. QED BY <1>4 DEF c

LEMMA RunOne ==
  ASSUME NEW A, NEW E, NEW f, Maps(f, A, E), NEW b \in A, NEW e \in E
  PROVE  Run(f, b, <<e>>) = Apply(f, b, e)
  <1> DEFINE z == <<>>
  <1>1. z \in Seq(E)
    OBVIOUS
  <1>0. Append(z, e) = <<e>>
    OBVIOUS
  <1>2. Run(f, b, z) = b
    BY RunEmpty
  <1> HIDE DEF z
  <1>3. Run(f, b, Append(z, e)) = Apply(f, Run(f, b, z), e)
    BY <1>1, RunAppend
  <1>. QED BY <1>0, <1>2, <1>3, Zenon

\* The first element first.
LEMMA RunHead ==
  ASSUME NEW A, NEW E, NEW f, Maps(f, A, E), NEW b \in A, NEW s \in Seq(E), s # <<>>
  PROVE  Run(f, b, s) = Run(f, Apply(f, b, Head(s)), Tail(s))
  <1> DEFINE e == Head(s)
             h == <<e>>
             t == Tail(s)
  <1>1. e \in E /\ t \in Seq(E) /\ h \in Seq(E)
    BY HeadTailProperties
  <1>2. s = h \o t
    <2>1. s = <<Head(s)>> \o Tail(s)
      BY SubSeqFull, SubSeqRecursiveFirst, TailIsSubSeq, LenProperties, EmptySeq
    <2>. QED BY <2>1, Zenon
  <1>3. Run(f, b, h) = Apply(f, b, e)
    <2> HIDE DEF e
    <2>. QED BY <1>1, RunOne
  <1> HIDE DEF e, h, t
  <1>4. Run(f, b, h \o t) = Run(f, Run(f, b, h), t)
    BY <1>1, RunConcat
  <1>5. Run(f, b, s) = Run(f, Apply(f, b, e), t)
    BY <1>2, <1>3, <1>4
  <1>. QED BY <1>5 DEF e, t

\* h solves the recursion by which a fold is defined, where its values are in A.
Folds(f, A, b, s, h) ==
    \A T \in SUBSET (1 .. Len(s)) :
        IF T = {} THEN h[T] = b
        ELSE h[T \ {Max(T)}] \in A => h[T] = Apply(f, h[T \ {Max(T)}], s[Max(T)])

\* Such a fold of the whole sequence is the run.
LEMMA FoldIsRun ==
  ASSUME NEW A, NEW E, NEW f, Maps(f, A, E), NEW b \in A, NEW s \in Seq(E), NEW h,
         Folds(f, A, b, s, h)
  PROVE  h[1 .. Len(s)] = Run(f, b, s)
  <1> DEFINE n == Len(s)
  <1>1. n \in Nat
    BY LenProperties
  <1>2. PICK g \in [0 .. n -> A] : Steps(f, b, s, g)
    BY StepsExist
  <1> DEFINE same == {k \in 0 .. n : h[1 .. k] = g[k]}
  <1>3. 0 \in same
    <2>1. 1 .. 0 = {}
      OBVIOUS
    <2>2. h[{}] = b
      BY DEF Folds
    <2>. QED BY <1>1, <1>2, <2>1, <2>2 DEF Steps
  <1>4. ASSUME NEW k \in 0 .. n - 1, k \in same
        PROVE  k + 1 \in same
    <2> DEFINE T == 1 .. k + 1
    <2>1. /\ T \in SUBSET (1 .. n) /\ T # {} /\ k + 1 \in Nat \ {0} /\ k + 1 \in 1 .. n
          /\ k + 1 - 1 = k /\ T \ {k + 1} = 1 .. k /\ h[1 .. k] = g[k] /\ g[k] \in A
      <3>1. k \in Nat /\ k + 1 \in 1 .. n /\ k + 1 - 1 = k /\ k \in 0 .. n
        BY <1>1
      <3>2. h[1 .. k] = g[k] /\ g[k] \in A
        BY <1>4, <3>1
      <3>3. T \in SUBSET (1 .. n) /\ T \ {k + 1} = 1 .. k
        BY <1>1, <3>1
      <3>4. T # {}
        BY <3>1
      <3> HIDE DEF T
      <3>. QED BY <3>1, <3>2, <3>3, <3>4
    <2>2. Max(T) = k + 1
      BY <2>1, GreatestOf
    <2>3. h[T \ {Max(T)}] \in A => h[T] = Apply(f, h[T \ {Max(T)}], s[Max(T)])
      <3> HIDE DEF T
      <3>. QED BY <2>1 DEF Folds
    <2>4. g[k + 1] = Apply(f, g[k], s[k + 1])
      BY <1>2, <2>1 DEF Steps, Apply
    <2>5. h[T] = g[k + 1]
      <3> HIDE DEF T
      <3>. QED BY <2>1, <2>2, <2>3, <2>4
    <2>. QED BY <1>1, <2>5
  <1>5. \A k \in 0 .. n : k \in same
    <2> HIDE DEF same, n
    <2>. QED BY <1>1, <1>3, <1>4, Induct
  <1>6. h[1 .. n] = g[n]
    BY <1>1, <1>5
  <1>7. Run(f, b, s) = g[n]
    BY <1>1, <1>2, RunIs
  <1>. QED BY <1>6, <1>7

\* The greatest index in a part of a sequence.
LEMMA MaxOf ==
  ASSUME NEW E, NEW s \in Seq(E), NEW T \in SUBSET (1 .. Len(s)), T # {}
  PROVE  Max(T) \in 1 .. Len(s) /\ s[Max(T)] \in E /\ T \ {Max(T)} \in SUBSET (1 .. Len(s))
  <1>1. Len(s) \in Nat
    BY LenProperties
  <1>2. Max(T) \in T
    BY <1>1, Greatest
  <1>. QED BY <1>2, ElementOfSeq

-----------------------------------------------------------------------------
(* Events and commands. *)

NameEvents == [type : {"name"}, key : Keys, shifted : BOOLEAN, pressed : BOOLEAN, repeat : BOOLEAN]
KeyEvents == [type : {"key"}, key : Modifiers \cup Keys, pressed : BOOLEAN]
ButtonEvents == [type : {"button"}, key : Buttons, pressed : BOOLEAN, pos : Points, moved : BOOLEAN]
MoveEvents == [type : {"move"}, pos : Points]
ScrollEvents == [type : {"scroll"}, delta : Int \X Int]
OtherEvents == [type : {"other"}]

\* What the GUI library tells the window, what the window sends, and both.
Event == NameEvents \cup ButtonEvents \cup MoveEvents \cup ScrollEvents \cup OtherEvents
Command == {c \in KeyEvents : c.key \notin Unmapped} \cup {c \in ButtonEvents : c.key \notin Unmapped}
           \cup MoveEvents \cup {c \in ScrollEvents : c.delta # <<0, 0>>}
Item == Event \cup KeyEvents

\* What Forward accumulates.
Acc == [out : Seq(Command), pos : Points \cup {None}]

\* What an event becomes.
LEMMA ForwardedIs ==
  ASSUME NEW e, NEW pos
  PROVE  /\ e.type = "name" /\ e.key \in Keys =>
               Forwarded(e, pos) = IF e.repeat \/ e.key \in Unmapped THEN <<>>
                                   ELSE <<KeyEvent(e.key, e.pressed)>>
         /\ e.type = "button" => Forwarded(e, pos) = IF e.key \in Unmapped THEN <<>> ELSE <<e>>
         /\ e.type = "move" => Forwarded(e, pos) = IF e.pos = pos THEN <<>> ELSE <<e>>
         /\ e.type = "scroll" => Forwarded(e, pos) = IF e.delta = <<0, 0>> THEN <<>> ELSE <<e>>
         /\ e.type = "other" => Forwarded(e, pos) = <<>>
  <1>1. ASSUME e.type = "name", e.key \in Keys
        PROVE  Forwarded(e, pos) = IF e.repeat \/ e.key \in Unmapped THEN <<>>
                                   ELSE <<KeyEvent(e.key, e.pressed)>>
    <2>1. egui_key_to_vk(<<e.key, e.shifted>>) = IF e.key \in Unmapped THEN None ELSE e.key
      BY DEF egui_key_to_vk
    <2>2. e.key # None
      BY <1>1, InputAssumption
    <2>. QED BY <1>1, <2>1, <2>2 DEF Forwarded
  <1>. QED BY <1>1 DEF Forwarded

LEMMA ForwardedType ==
  ASSUME NEW e \in Event, NEW pos
  PROVE  Forwarded(e, pos) \in Seq(Command)
  <1>1. CASE e \in NameEvents
    <2>1. e.type = "name" /\ e.key \in Keys /\ e.pressed \in BOOLEAN
      BY <1>1 DEF NameEvents
    <2>2. e.key \notin Unmapped => KeyEvent(e.key, e.pressed) \in Command
      BY <2>1 DEF KeyEvent, Command, KeyEvents
    <2>3. Forwarded(e, pos) = IF e.repeat \/ e.key \in Unmapped THEN <<>>
                              ELSE <<KeyEvent(e.key, e.pressed)>>
      BY <2>1, ForwardedIs, Zenon
    <2>. QED BY <2>2, <2>3
  <1>2. CASE e \in ButtonEvents
    <2>1. e.type = "button" /\ (e.key \notin Unmapped => e \in Command)
      BY <1>2 DEF ButtonEvents, Command
    <2>2. Forwarded(e, pos) = IF e.key \in Unmapped THEN <<>> ELSE <<e>>
      BY <2>1, ForwardedIs, Zenon
    <2>. QED BY <2>1, <2>2
  <1>3. CASE e \in MoveEvents
    <2>1. e.type = "move" /\ e \in Command
      BY <1>3 DEF MoveEvents, Command
    <2>2. Forwarded(e, pos) = IF e.pos = pos THEN <<>> ELSE <<e>>
      BY <2>1, ForwardedIs, Zenon
    <2>. QED BY <2>1, <2>2
  <1>4. CASE e \in ScrollEvents
    <2>1. e.type = "scroll" /\ (e.delta # <<0, 0>> => e \in Command)
      BY <1>4 DEF ScrollEvents, Command
    <2>2. Forwarded(e, pos) = IF e.delta = <<0, 0>> THEN <<>> ELSE <<e>>
      BY <2>1, ForwardedIs, Zenon
    <2>. QED BY <2>1, <2>2
  <1>5. CASE e \in OtherEvents
    <2>1. e.type = "other"
      BY <1>5 DEF OtherEvents
    <2>2. Forwarded(e, pos) = <<>>
      BY <2>1, ForwardedIs, Zenon
    <2>. QED BY <2>2
  <1>. QED BY <1>1, <1>2, <1>3, <1>4, <1>5 DEF Event

LEMMA ForwardType ==
  ASSUME NEW a \in Acc, NEW e \in Event
  PROVE  Forward(a, e) \in Acc
  <1>1. Forwarded(e, a.pos) \in Seq(Command)
    BY ForwardedType
  <1>2. a.out \o Forwarded(e, a.pos) \in Seq(Command)
    BY <1>1, ConcatProperties DEF Acc
  <1>3. e.type = "move" => e.pos \in Points
    BY DEF Event, NameEvents, ButtonEvents, MoveEvents, ScrollEvents, OtherEvents
  <1>. QED BY <1>2, <1>3 DEF Forward, Acc

ForwardStep == [p \in Acc \X Event |-> Forward(p[1], p[2])]

LEMMA ForwardStepType == Maps(ForwardStep, Acc, Event)
  BY ForwardType DEF ForwardStep, Maps

LEMMA ForwardStepIs ==
  ASSUME NEW a \in Acc, NEW e \in Event
  PROVE  Apply(ForwardStep, a, e) = Forward(a, e)
  BY DEF ForwardStep, Apply

LEMMA ForwardIsRun ==
  ASSUME NEW b \in Acc, NEW s \in Seq(Event)
  PROVE  FoldLeft(Forward, b, s) = Run(ForwardStep, b, s)
  <1> DEFINE n == Len(s)
             fold(h) == [T \in SUBSET DOMAIN s |->
                            IF T = {} THEN b ELSE Forward(h[T \ {Max(T)}], s[Max(T)])]
             it == CHOOSE h : h = fold(h)
  <1>1. FoldLeft(Forward, b, s) = it[DOMAIN s]
    BY DEF FoldLeft, MapThenFoldSet
  <1>2. DOMAIN s = 1 .. n
    BY LenProperties
  <1>3. PICK h \in [SUBSET (1 .. n) -> Acc] : Solves(ForwardStep, b, s, h)
    BY ForwardStepType, FoldSolution DEF Maps
  <1>4. ASSUME NEW T \in SUBSET (1 .. n)
        PROVE  h[T] = IF T = {} THEN b ELSE Forward(h[T \ {Max(T)}], s[Max(T)])
    <2>1. h[T] = IF T = {} THEN b ELSE Apply(ForwardStep, h[T \ {Max(T)}], s[Max(T)])
      BY <1>3 DEF Solves, Apply
    <2>2. T # {} => h[T \ {Max(T)}] \in Acc /\ s[Max(T)] \in Event
      BY <1>3, MaxOf
    <2>. QED BY <2>1, <2>2, ForwardStepIs
  <1>5. h = fold(h)
    BY <1>2, <1>3, <1>4
  <1> HIDE DEF fold
  <1>6. it = fold(it)
    BY <1>5
  <1> HIDE DEF it
  <1>7. ASSUME NEW T \in SUBSET (1 .. n)
        PROVE  IF T = {} THEN it[T] = b
               ELSE it[T \ {Max(T)}] \in Acc => it[T] = Apply(ForwardStep, it[T \ {Max(T)}], s[Max(T)])
    <2>1. it[T] = IF T = {} THEN b ELSE Forward(it[T \ {Max(T)}], s[Max(T)])
      BY <1>2, <1>6 DEF fold
    <2>2. T # {} => s[Max(T)] \in Event
      BY MaxOf
    <2>. QED BY <2>1, <2>2, ForwardStepIs
  <1>8. Folds(ForwardStep, Acc, b, s, it)
    BY <1>7 DEF Folds
  <1>9. it[1 .. n] = Run(ForwardStep, b, s)
    BY <1>8, ForwardStepType, FoldIsRun
  <1>. QED BY <1>1, <1>2, <1>9

\* How far an event turns the wheels.
LEMMA TurnedType ==
  ASSUME NEW d \in Int \X Int, NEW e \in Item
  PROVE  Turned(d, e) \in Int \X Int
  <1>1. e.type = "scroll" => e.delta \in Int \X Int
    BY DEF Item, Event, NameEvents, KeyEvents, ButtonEvents, MoveEvents, ScrollEvents, OtherEvents
  <1>. QED BY <1>1 DEF Turned, Plus

TurnsStep == [p \in (Int \X Int) \X Item |-> Turned(p[1], p[2])]

LEMMA TurnsStepType == Maps(TurnsStep, Int \X Int, Item)
  BY TurnedType DEF TurnsStep, Maps

LEMMA TurnsStepIs ==
  ASSUME NEW d \in Int \X Int, NEW e \in Item
  PROVE  Apply(TurnsStep, d, e) = Turned(d, e)
  BY DEF TurnsStep, Apply

LEMMA TurnsIsRun ==
  ASSUME NEW s \in Seq(Item)
  PROVE  Turns(s) = Run(TurnsStep, <<0, 0>>, s)
  <1> DEFINE n == Len(s)
             b == <<0, 0>>
             A == Int \X Int
             fold(h) == [T \in SUBSET DOMAIN s |->
                            IF T = {} THEN b ELSE Turned(h[T \ {Max(T)}], s[Max(T)])]
             it == CHOOSE h : h = fold(h)
  <1>1. Turns(s) = it[DOMAIN s]
    BY DEF FoldLeft, MapThenFoldSet, Turns
  <1>2. DOMAIN s = 1 .. n
    BY LenProperties
  <1>0. b \in A
    OBVIOUS
  <1> HIDE DEF b
  <1>3. PICK h \in [SUBSET (1 .. n) -> A] : Solves(TurnsStep, b, s, h)
    BY <1>0, TurnsStepType, FoldSolution DEF Maps
  <1>4. ASSUME NEW T \in SUBSET (1 .. n)
        PROVE  h[T] = IF T = {} THEN b ELSE Turned(h[T \ {Max(T)}], s[Max(T)])
    <2>1. h[T] = IF T = {} THEN b ELSE Apply(TurnsStep, h[T \ {Max(T)}], s[Max(T)])
      BY <1>3 DEF Solves, Apply
    <2>2. T # {} => h[T \ {Max(T)}] \in A /\ s[Max(T)] \in Item
      BY <1>3, MaxOf
    <2>. QED BY <2>1, <2>2, TurnsStepIs
  <1>5. h = fold(h)
    BY <1>2, <1>3, <1>4
  <1> HIDE DEF fold
  <1>6. it = fold(it)
    BY <1>5
  <1> HIDE DEF it
  <1>7. ASSUME NEW T \in SUBSET (1 .. n)
        PROVE  IF T = {} THEN it[T] = b
               ELSE it[T \ {Max(T)}] \in A => it[T] = Apply(TurnsStep, it[T \ {Max(T)}], s[Max(T)])
    <2>1. it[T] = IF T = {} THEN b ELSE Turned(it[T \ {Max(T)}], s[Max(T)])
      BY <1>2, <1>6 DEF fold
    <2>2. T # {} => s[Max(T)] \in Item
      BY MaxOf
    <2>. QED BY <2>1, <2>2, TurnsStepIs
  <1>8. Folds(TurnsStep, A, b, s, it)
    BY <1>7 DEF Folds
  <1>9. it[1 .. n] = Run(TurnsStep, b, s)
    <2> HIDE DEF A
    <2>1. Maps(TurnsStep, A, Item)
      BY TurnsStepType DEF A
    <2>. QED BY <1>0, <1>8, <2>1, FoldIsRun
  <1>. QED BY <1>1, <1>2, <1>9 DEF b

LEMMA TurnsType ==
  ASSUME NEW s \in Seq(Item)
  PROVE  Turns(s) \in Int \X Int
  <1> DEFINE b == <<0, 0>>
             A == Int \X Int
  <1>1. b \in A
    OBVIOUS
  <1>2. Turns(s) = Run(TurnsStep, b, s)
    BY TurnsIsRun
  <1>3. Maps(TurnsStep, A, Item)
    BY TurnsStepType
  <1> HIDE DEF b, A
  <1>4. Run(TurnsStep, b, s) \in A
    BY <1>1, <1>3, RunType
  <1>. QED BY <1>2, <1>4 DEF A

\* The keys that are pressed after an event, and after some events.
Mapped == (Keys \cup Buttons) \ Unmapped

LEMMA PressedType ==
  ASSUME NEW keys \in SUBSET Mapped, NEW e \in Event
  PROVE  Pressed(keys, e) \in SUBSET Mapped
  <1>1. IsTransition(e) => e.key \in Mapped
    BY DEF IsTransition, Mapped, Event, NameEvents, ButtonEvents, MoveEvents, ScrollEvents, OtherEvents
  <1>. QED BY <1>1 DEF Pressed

PressedStep == [p \in (SUBSET Mapped) \X Event |-> Pressed(p[1], p[2])]

LEMMA PressedStepType == Maps(PressedStep, SUBSET Mapped, Event)
  BY PressedType DEF PressedStep, Maps

LEMMA PressedStepIs ==
  ASSUME NEW d \in SUBSET Mapped, NEW e \in Event
  PROVE  Apply(PressedStep, d, e) = Pressed(d, e)
  BY DEF PressedStep, Apply

LEMMA PressedIsRun ==
  ASSUME NEW s \in Seq(Event)
  PROVE  PressedIn(s) = Run(PressedStep, {}, s)
  <1> DEFINE n == Len(s)
             b == {}
             A == SUBSET Mapped
             fold(h) == [T \in SUBSET DOMAIN s |->
                            IF T = {} THEN b ELSE Pressed(h[T \ {Max(T)}], s[Max(T)])]
             it == CHOOSE h : h = fold(h)
  <1>1. PressedIn(s) = it[DOMAIN s]
    BY DEF FoldLeft, MapThenFoldSet, PressedIn
  <1>2. DOMAIN s = 1 .. n
    BY LenProperties
  <1>0. b \in A
    OBVIOUS
  <1> HIDE DEF b
  <1>3. PICK h \in [SUBSET (1 .. n) -> A] : Solves(PressedStep, b, s, h)
    BY <1>0, PressedStepType, FoldSolution DEF Maps
  <1>4. ASSUME NEW T \in SUBSET (1 .. n)
        PROVE  h[T] = IF T = {} THEN b ELSE Pressed(h[T \ {Max(T)}], s[Max(T)])
    <2>1. h[T] = IF T = {} THEN b ELSE Apply(PressedStep, h[T \ {Max(T)}], s[Max(T)])
      BY <1>3 DEF Solves, Apply
    <2>2. T # {} => h[T \ {Max(T)}] \in A /\ s[Max(T)] \in Event
      BY <1>3, MaxOf
    <2>. QED BY <2>1, <2>2, PressedStepIs
  <1>5. h = fold(h)
    BY <1>2, <1>3, <1>4
  <1> HIDE DEF fold
  <1>6. it = fold(it)
    BY <1>5
  <1> HIDE DEF it
  <1>7. ASSUME NEW T \in SUBSET (1 .. n)
        PROVE  IF T = {} THEN it[T] = b
               ELSE it[T \ {Max(T)}] \in A => it[T] = Apply(PressedStep, it[T \ {Max(T)}], s[Max(T)])
    <2>1. it[T] = IF T = {} THEN b ELSE Pressed(it[T \ {Max(T)}], s[Max(T)])
      BY <1>2, <1>6 DEF fold
    <2>2. T # {} => s[Max(T)] \in Event
      BY MaxOf
    <2>. QED BY <2>1, <2>2, PressedStepIs
  <1>8. Folds(PressedStep, A, b, s, it)
    BY <1>7 DEF Folds
  <1>9. it[1 .. n] = Run(PressedStep, b, s)
    <2> HIDE DEF A
    <2>1. Maps(PressedStep, A, Event)
      BY PressedStepType DEF A
    <2>. QED BY <1>0, <1>8, <2>1, FoldIsRun
  <1>. QED BY <1>1, <1>2, <1>9 DEF b

LEMMA PressedEmpty == PressedIn(<<>>) = {}
  <1> DEFINE z == <<>>
  <1>1. z \in Seq(Event)
    OBVIOUS
  <1>2. Run(PressedStep, {}, z) = {}
    BY RunEmpty
  <1> HIDE DEF z
  <1>3. PressedIn(z) = Run(PressedStep, {}, z)
    BY <1>1, PressedIsRun
  <1>. QED BY <1>2, <1>3 DEF z

LEMMA PressedInType ==
  ASSUME NEW s \in Seq(Event)
  PROVE  PressedIn(s) \in SUBSET Mapped
  <1> DEFINE A == SUBSET Mapped
  <1>1. {} \in A /\ Maps(PressedStep, A, Event)
    BY PressedStepType
  <1>2. Run(PressedStep, {}, s) \in A
    <2> HIDE DEF A
    <2>. QED BY <1>1, RunType
  <1>. QED BY <1>2, PressedIsRun

LEMMA PressedAppend ==
  ASSUME NEW s \in Seq(Event), NEW e \in Event
  PROVE  PressedIn(s) \in SUBSET Mapped /\ PressedIn(Append(s, e)) = Pressed(PressedIn(s), e)
  <1> DEFINE A == SUBSET Mapped
             u == Append(s, e)
  <1>1. {} \in A /\ Maps(PressedStep, A, Event)
    BY PressedStepType
  <1>2. u \in Seq(Event)
    BY AppendProperties
  <1>3. Run(PressedStep, {}, u) = Apply(PressedStep, Run(PressedStep, {}, s), e)
    <2> HIDE DEF A
    <2>. QED BY <1>1, RunAppend
  <1>4. Run(PressedStep, {}, s) \in A
    <2> HIDE DEF A
    <2>. QED BY <1>1, RunType
  <1> HIDE DEF u
  <1>5. PressedIn(u) = Run(PressedStep, {}, u) /\ PressedIn(s) = Run(PressedStep, {}, s)
    BY <1>2, PressedIsRun
  <1>. QED BY <1>3, <1>4, <1>5, PressedStepIs DEF u

\* A finite set as a sequence.
LEMMA SetToSeqIs ==
  ASSUME NEW S, IsFiniteSet(S)
  PROVE  /\ SetToSeq(S) \in Seq(S)
         /\ \A x \in S : \E i \in 1 .. Len(SetToSeq(S)) : SetToSeq(S)[i] = x
         /\ \A i, j \in 1 .. Len(SetToSeq(S)) : SetToSeq(S)[i] = SetToSeq(S)[j] => i = j
  <1> DEFINE n == Cardinality(S)
             f == SetToSeq(S)
  <1>1. n \in Nat /\ ExistsBijection(1 .. n, S)
    BY FS_CardinalityType
  <1>2. \E g \in [1 .. n -> S] : IsInjective(g)
    BY <1>1 DEF ExistsBijection, Bijection, Injection
  <1>3. f \in [1 .. n -> S] /\ IsInjective(f)
    BY <1>2 DEF SetToSeq
  <1> HIDE DEF f
  <1>4. f \in Injection(1 .. n, S)
    BY <1>3 DEF Injection
  <1>5. IsFiniteSet(1 .. n) /\ Cardinality(1 .. n) = n
    BY <1>1, FS_Interval
  <1>6. f \in Surjection(1 .. n, S)
    BY <1>4, <1>5, FS_Injection
  <1>7. f \in Seq(S) /\ Len(f) = n
    BY <1>1, <1>3
  <1>8. \A i, j \in 1 .. n : f[i] = f[j] => i = j
    BY <1>3 DEF IsInjective
  <1>. QED BY <1>6, <1>7, <1>8 DEF Surjection, f

\* The modifiers that a repaint sends.
Changed == SymDiff(last_modifiers, held \cap Modifiers)

LEMMA ModifierCommandsAre ==
  ASSUME last_modifiers \subseteq Modifiers
  PROVE  /\ ModifierCommands \in Seq({KeyEvent(k, k \in held) : k \in Changed})
         /\ ModifierCommands \in Seq(Command) /\ ModifierCommands \in Seq(KeyEvents)
         /\ \A k \in Changed :
               \E i \in 1 .. Len(ModifierCommands) : ModifierCommands[i] = KeyEvent(k, k \in held)
         /\ \A i, j \in 1 .. Len(ModifierCommands) : ModifierCommands[i] = ModifierCommands[j] => i = j
  <1> DEFINE S == {KeyEvent(k, k \in held) : k \in Changed}
             f == [k \in Changed |-> KeyEvent(k, k \in held)]
  <1>1. Changed \subseteq Modifiers /\ IsFiniteSet(Changed)
    <2>1. Changed \subseteq Modifiers
      BY DEF Changed, SymDiff
    <2>. QED BY <2>1, InputAssumption, FS_Subset
  <1>2. f \in Surjection(Changed, S)
    BY DEF Surjection
  <1>3. IsFiniteSet(S)
    <2> HIDE DEF f, S
    <2>. QED BY <1>1, <1>2, FS_Surjection
  <1>4. S \subseteq Command /\ S \subseteq KeyEvents
    <2>1. ASSUME NEW k \in Modifiers
          PROVE  KeyEvent(k, k \in held) \in Command /\ KeyEvent(k, k \in held) \in KeyEvents
      <3>1. k \notin Unmapped
        BY InputAssumption
      <3>. QED BY <3>1 DEF KeyEvent, Command, KeyEvents
    <2>. QED BY <1>1, <2>1
  <1>5. ModifierCommands = SetToSeq(S)
    BY DEF ModifierCommands, Changed
  <1>6. \A k \in Changed : KeyEvent(k, k \in held) \in S
    OBVIOUS
  <1>7. /\ SetToSeq(S) \in Seq(S) /\ \A x \in S : \E i \in 1 .. Len(SetToSeq(S)) : SetToSeq(S)[i] = x
        /\ \A i, j \in 1 .. Len(SetToSeq(S)) : SetToSeq(S)[i] = SetToSeq(S)[j] => i = j
    <2> HIDE DEF S
    <2>. QED BY <1>3, SetToSeqIs
  <1>8. SetToSeq(S) \in Seq(Command) /\ SetToSeq(S) \in Seq(KeyEvents)
    <2> HIDE DEF S
    <2>. QED BY <1>4, <1>7
  <1>. QED BY <1>5, <1>6, <1>7, <1>8

\* What a repaint sends, and the position it remembers.
Captured(pos) == Run(ForwardStep, [out |-> <<>>, pos |-> pos], events)

LEMMA CaptureIs ==
  ASSUME NEW pos \in Points \cup {None}, events \in Seq(Event), last_modifiers \subseteq Modifiers,
         commands \in Seq(Command), capture_and_send_input(pos)
  PROVE  /\ Captured(pos) \in Acc
         /\ commands' = commands \o ModifierCommands \o Captured(pos).out
         /\ commands' \in Seq(Command)
         /\ last_modifiers' = held \cap Modifiers
         /\ last_mouse_remote_pos' = Captured(pos).pos
  <1> DEFINE b == [out |-> <<>>, pos |-> pos]
  <1>1. b \in Acc
    BY DEF Acc
  <1>2. FoldLeft(Forward, b, events) = Captured(pos)
    BY <1>1, ForwardIsRun DEF Captured
  <1>3. Captured(pos) \in Acc
    <2>1. Run(ForwardStep, b, events) \in Acc
      <3> HIDE DEF b
      <3>. QED BY <1>1, ForwardStepType, RunType
    <2>. QED BY <2>1 DEF Captured
  <1>4. /\ commands' = commands \o ModifierCommands \o Captured(pos).out
        /\ last_modifiers' = held \cap Modifiers
        /\ last_mouse_remote_pos' = Captured(pos).pos
    BY <1>2 DEF capture_and_send_input
  <1>5. ModifierCommands \in Seq(Command)
    BY ModifierCommandsAre
  <1>6. commands' \in Seq(Command)
    <2>1. commands \o ModifierCommands \in Seq(Command) /\ Captured(pos).out \in Seq(Command)
      BY <1>3, <1>5, ConcatProperties DEF Acc
    <2>. QED BY <1>4, <2>1, ConcatProperties
  <1>. QED BY <1>3, <1>4, <1>6

-----------------------------------------------------------------------------
(* What a command does at the host. *)

\* Two elements, one after the other.
LEMMA Two ==
  ASSUME NEW E, NEW d \in E, NEW e \in E
  PROVE  <<d>> \o <<e>> = <<d, e>> /\ Append(<<d>>, e) = <<d, e>>
  <1> DEFINE y == <<d>>
             z == <<e>>
             u == <<d, e>>
  <1>1. /\ y \in Seq(E) /\ z \in Seq(E) /\ u \in Seq(E) /\ Len(y) = 1 /\ Len(z) = 1 /\ Len(u) = 2
        /\ y[1] = d /\ z[1] = e /\ u[1] = d /\ u[2] = e
    OBVIOUS
  <1>2. Append(y, e) = y \o z
    BY <1>1, AppendIsConcat
  <1> HIDE DEF y, z, u
  <1>3. y \o z \in Seq(E) /\ Len(y \o z) = 2 /\ (y \o z)[1] = d /\ (y \o z)[2] = e
    <2>1. y \o z \in Seq(E) /\ Len(y \o z) = 2
      BY <1>1, ConcatProperties
    <2>2. (y \o z)[1] = y[1] /\ (y \o z)[2] = z[1]
      BY <1>1, ConcatProperties
    <2>. QED BY <1>1, <2>1, <2>2
  <1>4. \A i \in 1 .. 2 : (y \o z)[i] = u[i]
    BY <1>1, <1>3
  <1>5. y \o z = u
    BY <1>1, <1>3, <1>4, SeqEqual
  <1>. QED BY <1>2, <1>5 DEF y, z, u

LEMMA One ==
  ASSUME NEW E, NEW e \in E
  PROVE  <<e>> \o <<>> = <<e>> /\ <<>> \o <<e>> = <<e>> /\ <<e>> \in Seq(E)
  BY ConcatEmptySeq

LEMMA TurnsEmpty == Turns(<<>>) = <<0, 0>>
  <1> DEFINE z == <<>>
             b == <<0, 0>>
  <1>1. z \in Seq(Item)
    OBVIOUS
  <1>2. Run(TurnsStep, b, z) = b
    <2> HIDE DEF b
    <2>. QED BY RunEmpty
  <1> HIDE DEF z
  <1>3. Turns(z) = Run(TurnsStep, b, z)
    BY <1>1, TurnsIsRun
  <1>. QED BY <1>2, <1>3 DEF z

LEMMA TurnsOne ==
  ASSUME NEW e \in Item
  PROVE  Turns(<<e>>) = Turned(<<0, 0>>, e)
  <1> DEFINE b == <<0, 0>>
             A == Int \X Int
             z == <<e>>
  <1>1. z \in Seq(Item)
    OBVIOUS
  <1>2. Turns(z) = Run(TurnsStep, b, z)
    <2> HIDE DEF z
    <2>. QED BY <1>1, TurnsIsRun
  <1>3. b \in A /\ Maps(TurnsStep, A, Item)
    BY TurnsStepType
  <1>4. Apply(TurnsStep, b, e) = Turned(b, e)
    BY <1>3, TurnsStepIs
  <1> HIDE DEF b, A
  <1>5. Run(TurnsStep, b, <<e>>) = Apply(TurnsStep, b, e)
    BY <1>3, RunOne
  <1>. QED BY <1>2, <1>4, <1>5 DEF b

LEMMA TurnsTwo ==
  ASSUME NEW d \in Item, NEW e \in Item
  PROVE  Turns(<<d, e>>) = Turned(Turned(<<0, 0>>, d), e)
  <1> DEFINE b == <<0, 0>>
             A == Int \X Int
             y == <<d>>
             z == <<d, e>>
  <1>1. y \in Seq(Item) /\ z \in Seq(Item)
    OBVIOUS
  <1>2. Append(y, e) = z
    BY Two
  <1>3. Turns(y) = Turned(b, d)
    BY TurnsOne
  <1>4. b \in A /\ Maps(TurnsStep, A, Item)
    BY TurnsStepType
  <1> HIDE DEF y, z
  <1>5. Turns(z) = Run(TurnsStep, b, z) /\ Turns(y) = Run(TurnsStep, b, y)
    BY <1>1, TurnsIsRun
  <1>6. Turned(b, d) \in A
    BY <1>4, TurnedType
  <1>7. Apply(TurnsStep, Turned(b, d), e) = Turned(Turned(b, d), e)
    BY <1>6, TurnsStepIs
  <1> HIDE DEF b, A
  <1>8. Run(TurnsStep, b, Append(y, e)) = Apply(TurnsStep, Run(TurnsStep, b, y), e)
    BY <1>1, <1>4, RunAppend
  <1>. QED BY <1>2, <1>3, <1>5, <1>7, <1>8 DEF b, z

\* The kinds of commands.
LEMMA CommandIs ==
  ASSUME NEW c \in Command
  PROVE  /\ c \in Item
         /\ c.type \in {"key", "button", "move", "scroll"}
         /\ c.type = "scroll" => c.delta \in Int \X Int /\ c.delta # <<0, 0>>
         /\ c.type = "move" => c.pos \in Points
         /\ c.type = "button" => c.key \in Buttons /\ c.pos \in Points /\ c.moved \in BOOLEAN
         /\ c.type = "key" => c.key \in Modifiers \cup Keys
         /\ c.type \in {"key", "button"} => c.key \notin Unmapped /\ c.pressed \in BOOLEAN
  <1>1. CASE c \in {x \in KeyEvents : x.key \notin Unmapped}
    BY <1>1 DEF KeyEvents, Item
  <1>2. CASE c \in {x \in ButtonEvents : x.key \notin Unmapped}
    BY <1>2 DEF ButtonEvents, Item, Event
  <1>3. CASE c \in MoveEvents
    BY <1>3 DEF MoveEvents, Item, Event
  <1>4. CASE c \in {x \in ScrollEvents : x.delta # <<0, 0>>}
    BY <1>4 DEF ScrollEvents, Item, Event
  <1>. QED BY <1>1, <1>2, <1>3, <1>4 DEF Command

\* The inputs of a turn of the wheels.
LEMMA ScrollInputs ==
  ASSUME NEW x \in Int, NEW y \in Int, NEW c, c.type = "scroll", c.delta = <<x, y>>
  PROVE  /\ x # 0 /\ y # 0 => payload_to_inputs(c) = <<ScrollEvent(<<0, y>>), ScrollEvent(<<x, 0>>)>>
         /\ x = 0 /\ y # 0 => payload_to_inputs(c) = <<ScrollEvent(<<0, y>>)>>
         /\ x # 0 /\ y = 0 => payload_to_inputs(c) = <<ScrollEvent(<<x, 0>>)>>
  <1> DEFINE d == ScrollEvent(<<0, y>>)
             e == ScrollEvent(<<x, 0>>)
             first == IF y # 0 THEN <<d>> ELSE <<>>
             second == IF x # 0 THEN <<e>> ELSE <<>>
  <1>1. d \in Item /\ e \in Item
    BY DEF Item, Event, ScrollEvents, ScrollEvent
  <1>2. payload_to_inputs(c) = first \o second
    BY DEF payload_to_inputs
  <1>3. <<d>> \o <<e>> = <<d, e>>
    BY <1>1, Two, Zenon
  <1>4. <<d>> \o <<>> = <<d>> /\ <<>> \o <<e>> = <<e>>
    BY <1>1, One, Zenon
  <1> HIDE DEF d, e
  <1>. QED BY <1>2, <1>3, <1>4, Zenon DEF d, e

LEMMA ScrollTurns ==
  ASSUME NEW x \in Int, NEW y \in Int
  PROVE  /\ Turns(<<ScrollEvent(<<0, y>>)>>) = <<0, y>>
         /\ Turns(<<ScrollEvent(<<x, 0>>)>>) = <<x, 0>>
         /\ Turns(<<ScrollEvent(<<0, y>>), ScrollEvent(<<x, 0>>)>>) = <<x, y>>
  <1> DEFINE d == ScrollEvent(<<0, y>>)
             e == ScrollEvent(<<x, 0>>)
  <1>1. d \in Item /\ e \in Item
    BY DEF Item, Event, ScrollEvents, ScrollEvent
  <1>2. Turned(<<0, 0>>, d) = <<0, y>> /\ Turned(<<0, 0>>, e) = <<x, 0>>
        /\ Turned(<<0, y>>, e) = <<x, y>>
    BY DEF Turned, Plus, ScrollEvent
  <1> HIDE DEF d, e
  <1>3. Turns(<<d>>) = Turned(<<0, 0>>, d) /\ Turns(<<e>>) = Turned(<<0, 0>>, e)
    BY <1>1, TurnsOne
  <1>4. Turns(<<d, e>>) = Turned(Turned(<<0, 0>>, d), e)
    BY <1>1, TurnsTwo
  <1>. QED BY <1>2, <1>3, <1>4 DEF d, e

\* What injecting a command changes.
LEMMA InjectIs ==
  ASSUME NEW c \in Command, SendInput(payload_to_inputs(c)), wheels \in Int \X Int
  PROVE  /\ wheels' = Turned(wheels, c)
         /\ c.type = "scroll" => UNCHANGED <<cursor, down, injected, clicks>>
         /\ c.type = "move" => cursor' = c.pos /\ UNCHANGED <<down, injected, clicks>>
         /\ c.type \in {"key", "button"} =>
               /\ down' = IF c.pressed THEN down \cup {c.key} ELSE down \ {c.key}
               /\ injected' = Append(injected, <<c.key, c.pressed>>)
               /\ clicks' = IF c.type = "button" /\ c.pressed
                              THEN clicks \cup {[at |-> cursor, wanted |-> c.pos, moved |-> c.moved]}
                              ELSE clicks
               /\ cursor' = cursor
  <1>1. CASE c.type = "scroll"
    <2>1. PICK x \in Int, y \in Int : c.delta = <<x, y>> /\ (x # 0 \/ y # 0)
      BY <1>1, CommandIs
    <2> DEFINE d == ScrollEvent(<<0, y>>)
               e == ScrollEvent(<<x, 0>>)
               inps == payload_to_inputs(c)
    <2>2. inps = IF x # 0 /\ y # 0 THEN <<d, e>> ELSE IF y # 0 THEN <<d>> ELSE <<e>>
      BY <1>1, <2>1, ScrollInputs
    <2>3. Turns(<<d>>) = <<0, y>> /\ Turns(<<e>>) = <<x, 0>> /\ Turns(<<d, e>>) = <<x, y>>
      BY ScrollTurns
    <2> HIDE DEF d, e
    <2>4. Turns(inps) = <<x, y>>
      BY <2>1, <2>2, <2>3
    <2>5. Turns(inps) # <<0, 0>> /\ Turns(inps) = c.delta
      BY <2>1, <2>4
    <2> HIDE DEF inps
    <2>6. wheels' = Plus(wheels, Turns(inps)) /\ UNCHANGED <<cursor, down, injected, clicks>>
      BY <2>5 DEF SendInput, inps
    <2>. QED BY <1>1, <2>5, <2>6 DEF Turned
  <1>2. CASE c.type # "scroll"
    <2> DEFINE inps == <<c>>
    <2>1. payload_to_inputs(c) = inps /\ Head(inps) = c /\ inps # <<>>
      BY <1>2 DEF payload_to_inputs
    <2>2. Turns(inps) = <<0, 0>>
      <3>1. c \in Item
        BY CommandIs
      <3>. QED BY <1>2, <3>1, TurnsOne DEF Turned
    <2> HIDE DEF inps
    <2>3. wheels' = Plus(wheels, <<0, 0>>)
      BY <2>1, <2>2 DEF SendInput
    <2>4. wheels' = wheels
      BY <2>3 DEF Plus
    <2>5. CASE c.type = "move"
      BY <2>1, <2>2, <2>4, <2>5 DEF SendInput, Turned
    <2>6. CASE c.type \in {"key", "button"}
      BY <2>1, <2>2, <2>4, <2>6 DEF SendInput, Turned
    <2>. QED BY <1>2, <2>5, <2>6, CommandIs
  <1>. QED BY <1>1, <1>2

\* What is left of a lost command turns a wheel at the most.
LEMMA LoseIs ==
  ASSUME NEW c \in Command, wheels \in Int \X Int,
         NEW n \in 0 .. Len(payload_to_inputs(c)) - 1,
         SendInput(SubSeq(payload_to_inputs(c), 1, n))
  PROVE  /\ wheels' \in Int \X Int /\ UNCHANGED <<cursor, down, injected, clicks>>
         /\ c.type # "scroll" => wheels' = wheels
  <1> DEFINE inps == payload_to_inputs(c)
             sent == SubSeq(inps, 1, n)
  <1>1. CASE n = 0
    <2>1. sent = <<>>
      BY <1>1, SubSeqEmpty
    <2>2. wheels' = Plus(wheels, <<0, 0>>) /\ UNCHANGED <<cursor, down, injected, clicks>>
      BY <2>1, TurnsEmpty DEF SendInput
    <2>. QED BY <2>2 DEF Plus
  <1>2. CASE n # 0
    <2>1. c.type = "scroll"
      <3>1. c.type # "scroll" => inps = <<c>>
        BY DEF payload_to_inputs
      <3>. QED BY <1>2, <3>1
    <2>2. PICK x \in Int, y \in Int : c.delta = <<x, y>> /\ (x # 0 \/ y # 0)
      BY <2>1, CommandIs
    <2> DEFINE d == ScrollEvent(<<0, y>>)
               e == ScrollEvent(<<x, 0>>)
    <2>3. inps = IF x # 0 /\ y # 0 THEN <<d, e>> ELSE IF y # 0 THEN <<d>> ELSE <<e>>
      BY <2>1, <2>2, ScrollInputs
    <2>4. Turns(<<d>>) = <<0, y>>
      BY ScrollTurns
    <2>5. d \in Item /\ e \in Item
      BY DEF Item, Event, ScrollEvents, ScrollEvent
    <2> HIDE DEF d, e
    <2>6. x # 0 /\ y # 0 /\ n = 1 /\ inps = <<d, e>>
      BY <1>2, <2>3
    <2>7. sent = <<d>>
      <3> DEFINE u == <<d, e>>
      <3>1. u \in Seq(Item) /\ Len(u) = 2 /\ u[1] = d
        BY <2>5
      <3> HIDE DEF u
      <3>2. SubSeq(u, 1, 1) = <<u[1]>> \o SubSeq(u, 2, 1)
        <4>1. 1 \in 1 .. Len(u) /\ 1 \in 1 .. 1 /\ 1 + 1 = 2
          BY <3>1
        <4>. QED BY <3>1, <4>1, SubSeqRecursiveFirst
      <3>3. SubSeq(u, 2, 1) = <<>>
        BY SubSeqEmpty
      <3>4. <<d>> \o <<>> = <<d>>
        BY <2>5, One, Zenon
      <3>. QED BY <2>6, <3>1, <3>2, <3>3, <3>4, Zenon DEF u
    <2>8. Turns(sent) = <<0, y>> /\ y # 0
      BY <2>4, <2>6, <2>7
    <2> HIDE DEF sent
    <2>9. wheels' = Plus(wheels, <<0, y>>) /\ UNCHANGED <<cursor, down, injected, clicks>>
      BY <2>8 DEF SendInput, sent
    <2>. QED BY <2>1, <2>9 DEF Plus
  <1>. QED BY <1>1, <1>2

-----------------------------------------------------------------------------
(* Types. *)

AllKeys == Modifiers \cup Keys \cup Buttons

IType ==
    /\ TypeOK
    /\ events \in Seq(Event) /\ Len(events) <= inputs
    /\ commands \in Seq(Command)
    /\ PressedIn(events) \subseteq held

LEMMA TypeInit == Init => IType
  <1> SUFFICES ASSUME Init PROVE IType
    OBVIOUS
  <1>1. <<>> \in Seq(Event) /\ <<>> \in Seq(Command) /\ Len(<<>>) = 0
    OBVIOUS
  <1>2. events \in Seq(Event) /\ commands \in Seq(Command) /\ Len(events) = 0
    BY <1>1 DEF Init
  <1>3. wheels \in Int \X Int /\ turned \in Int \X Int
    BY DEF Init
  <1>4. /\ held = {} /\ fresh = {} /\ pointer \in Points /\ keys_down = {} /\ armed = FALSE /\ inputs = 0
        /\ connected = FALSE
    BY DEF Init
  <1>5. last_modifiers = {} /\ last_mouse_remote_pos = None /\ sessions = 0 /\ down = {} /\ cursor \in Points
    BY DEF Init
  <1>6. clicks = {} /\ moved = FALSE /\ lost = {}
    BY DEF Init
  <1>7. MaxInputs \in Nat /\ MaxSessions \in Nat
    BY InputAssumption
  <1>8. /\ held \subseteq Modifiers \cup Keys \cup Buttons /\ pointer \in Points
        /\ keys_down \subseteq Keys \X BOOLEAN
        /\ Len(events) <= MaxInputs /\ armed \in BOOLEAN /\ inputs \in 0 .. MaxInputs
        /\ connected \in BOOLEAN
        /\ fresh \subseteq (Keys \cup Buttons) \ Unmapped /\ (connected => fresh \subseteq held)
    <2>1. Len(events) <= MaxInputs /\ inputs \in 0 .. MaxInputs
      BY <1>2, <1>4, <1>7
    <2>2. /\ held \subseteq Modifiers \cup Keys \cup Buttons /\ pointer \in Points
          /\ keys_down \subseteq Keys \X BOOLEAN /\ armed \in BOOLEAN /\ connected \in BOOLEAN
          /\ fresh \subseteq (Keys \cup Buttons) \ Unmapped /\ (connected => fresh \subseteq held)
      BY <1>4
    <2>. QED BY <2>1, <2>2
  <1>9. /\ last_modifiers \subseteq Modifiers /\ last_mouse_remote_pos \in Points \cup {None}
        /\ sessions \in 0 .. MaxSessions
        /\ down \subseteq (Modifiers \cup Keys \cup Buttons) \ Unmapped /\ cursor \in Points
    BY <1>5, <1>7
  <1>10. /\ clicks \subseteq [at : Points, wanted : Points, moved : BOOLEAN]
         /\ moved \in BOOLEAN /\ lost \subseteq Modifiers \cup Keys \cup Buttons \cup {"move", "scroll"}
    BY <1>6
  <1>11. Len(events) <= inputs
    BY <1>2, <1>4
  <1>12. PressedIn(events) \subseteq held
    <2>1. events = <<>>
      BY DEF Init
    <2>. QED BY <2>1, PressedEmpty
  <1>. QED BY <1>2, <1>3, <1>8, <1>9, <1>10, <1>11, <1>12, Zenon DEF IType, TypeOK

\* A user's event.
LEMMA EventTypes ==
  ASSUME IType, NEW pressed \in BOOLEAN, NEW repeat \in BOOLEAN
  PROVE  /\ \A k \in Keys : Key(Name(k), pressed, repeat) \in Event
         /\ \A b \in Buttons : MouseButtonEvent(b, pressed, pointer, moved /\ connected) \in Event
         /\ \A p \in Points : MouseMoveEvent(p) \in Event
         /\ \A d \in Int \X Int : ScrollEvent(d) \in Event
         /\ OtherEvent \in Event
  <1>1. ASSUME NEW k \in Keys
        PROVE  Key(Name(k), pressed, repeat) \in Event
    BY DEF Key, Name, Event, NameEvents
  <1>2. ASSUME NEW b \in Buttons
        PROVE  MouseButtonEvent(b, pressed, pointer, moved /\ connected) \in Event
    BY DEF MouseButtonEvent, Event, ButtonEvents, IType, TypeOK
  <1>3. ASSUME NEW p \in Points
        PROVE  MouseMoveEvent(p) \in Event
    BY DEF MouseMoveEvent, Event, MoveEvents
  <1>4. ASSUME NEW d \in Int \X Int
        PROVE  ScrollEvent(d) \in Event
    BY DEF ScrollEvent, Event, ScrollEvents
  <1>5. OtherEvent \in Event
    BY DEF OtherEvent, Event, OtherEvents
  <1>. QED BY <1>1, <1>2, <1>3, <1>4, <1>5

LEMMA EventsType ==
  ASSUME IType, NEW e \in Event, events' = Append(events, e), Input
  PROVE  events' \in Seq(Event) /\ Len(events') <= inputs' /\ inputs' \in 0 .. MaxInputs /\ Len(events') <= MaxInputs
  BY InputAssumption, AppendProperties, LenProperties DEF IType, TypeOK, Input

\* What a user's input comes to that makes the event e: the keys pressed according to
\* the events stay among those held, and a button press knows where the pointer is.
Tells(e) ==
    /\ e \in Event /\ Told(e) /\ Input /\ armed' = armed
    /\ held' \subseteq AllKeys /\ held' \cap Modifiers = held \cap Modifiers
    /\ \A keys \in SUBSET Mapped : keys \subseteq held => Pressed(keys, e) \subseteq held'
    /\ pointer' \in Points /\ keys_down' \subseteq Keys \X BOOLEAN /\ moved' \in BOOLEAN
    /\ IF e.type = "move" THEN e.pos = pointer' /\ moved' = connected ELSE UNCHANGED <<pointer, moved>>
    /\ e.type = "button" => e.pos = pointer /\ (e.moved <=> moved /\ connected)

\* A key is pressed or released.
LEMMA KeyTells ==
  ASSUME IType, NEW k \in Keys, NEW pressed \in BOOLEAN, Input, KeyInput(k, pressed),
         UNCHANGED <<pointer, armed, moved>>,
         held' = IF pressed THEN held \cup {k} ELSE held \ {k}
  PROVE  \E e : Tells(e)
  <1>1. /\ held' \subseteq AllKeys /\ held' \cap Modifiers = held \cap Modifiers
        /\ pointer' \in Points /\ moved' \in BOOLEAN /\ keys_down \subseteq Keys \X BOOLEAN
    BY InputAssumption DEF IType, TypeOK, AllKeys
  <1>2. CASE pressed /\ \E m \in held : <<m, k>> \in Shortcuts
    <2> DEFINE e == OtherEvent
    <2>1. e \in Event /\ e.type = "other"
      BY EventTypes DEF OtherEvent
    <2>2. Told(e) /\ keys_down' = keys_down
      BY <1>2 DEF KeyInput
    <2> HIDE DEF e
    <2>3. ASSUME NEW keys \in SUBSET Mapped, keys \subseteq held
          PROVE  Pressed(keys, e) \subseteq held'
      BY <1>2, <2>1, <2>3 DEF Pressed, IsTransition
    <2>4. Tells(e)
      BY <1>1, <2>1, <2>2, <2>3 DEF Tells
    <2>. QED BY <2>4
  <1>3. CASE ~ (pressed /\ \E m \in held : <<m, k>> \in Shortcuts)
    <2> DEFINE repeat == pressed /\ Name(k) \in keys_down
               e == Key(Name(k), pressed, repeat)
    <2>1. repeat \in BOOLEAN
      OBVIOUS
    <2>2. Told(e) /\ keys_down' = IF pressed THEN keys_down \cup {Name(k)} ELSE keys_down \ {Name(k)}
      BY <1>3 DEF KeyInput
    <2>3. ~ pressed => ~ repeat
      OBVIOUS
    <2> HIDE DEF repeat
    <2>4. e \in Event /\ e.type = "name" /\ e.key = k /\ e.pressed = pressed /\ e.repeat = repeat
      BY <2>1, EventTypes DEF Key, Name
    <2> HIDE DEF e
    <2>5. ASSUME NEW keys \in SUBSET Mapped, keys \subseteq held
          PROVE  Pressed(keys, e) \subseteq held'
      <3>1. IsTransition(e) <=> ~ repeat /\ k \notin Unmapped
        BY <2>4 DEF IsTransition
      <3>2. CASE IsTransition(e)
        BY <2>4, <2>5, <3>2 DEF Pressed
      <3>3. CASE ~ IsTransition(e)
        <4>1. k \in keys => pressed
          BY <2>3, <3>1, <3>3 DEF Mapped
        <4>. QED BY <2>5, <3>3, <4>1 DEF Pressed
      <3>. QED BY <3>2, <3>3
    <2>6. keys_down' \subseteq Keys \X BOOLEAN
      <3>1. Name(k) \in Keys \X BOOLEAN
        BY DEF Name
      <3>. QED BY <1>1, <2>2, <3>1
    <2>7. Tells(e)
      BY <1>1, <2>2, <2>4, <2>5, <2>6 DEF Tells
    <2>. QED BY <2>7
  <1>. QED BY <1>2, <1>3

\* The user's inputs, modifiers apart.
LEMMA UserTells ==
  ASSUME IType,
         \/ \E k \in Keys : ToggleKey(k) \/ RepeatKey(k)
         \/ \E b \in Buttons : ToggleButton(b)
         \/ \E p \in Points : MovePointer(p)
         \/ \E d \in Scrolls : TurnWheel(d)
  PROVE  \E e : Tells(e)
  <1>1. held \subseteq AllKeys /\ pointer \in Points /\ moved \in BOOLEAN /\ connected \in BOOLEAN
        /\ keys_down \subseteq Keys \X BOOLEAN
    BY DEF IType, TypeOK, AllKeys
  <1>2. ASSUME NEW k \in Keys, ToggleKey(k)
        PROVE  \E e : Tells(e)
    <2> DEFINE pressed == k \notin held
    <2>1. pressed \in BOOLEAN /\ held' = IF pressed THEN held \cup {k} ELSE held \ {k}
      BY <1>2 DEF ToggleKey, SymDiff
    <2>2. Input /\ KeyInput(k, pressed) /\ UNCHANGED <<pointer, armed, moved>>
      BY <1>2 DEF ToggleKey
    <2> HIDE DEF pressed
    <2>. QED BY <2>1, <2>2, KeyTells
  <1>3. ASSUME NEW k \in Keys, RepeatKey(k)
        PROVE  \E e : Tells(e)
    <2>1. held' = IF TRUE THEN held \cup {k} ELSE held \ {k}
      BY <1>3 DEF RepeatKey
    <2>2. Input /\ KeyInput(k, TRUE) /\ UNCHANGED <<pointer, armed, moved>>
      BY <1>3 DEF RepeatKey
    <2>. QED BY <2>1, <2>2, KeyTells
  <1>4. ASSUME NEW b \in Buttons, ToggleButton(b)
        PROVE  \E e : Tells(e)
    <2> DEFINE e == MouseButtonEvent(b, b \notin held, pointer, moved /\ connected)
    <2>1. /\ e \in Event /\ e.type = "button" /\ e.key = b /\ e.pos = pointer
          /\ (e.pressed <=> b \notin held) /\ (e.moved <=> moved /\ connected)
      BY EventTypes DEF MouseButtonEvent
    <2>2. Told(e) /\ Input /\ UNCHANGED <<pointer, keys_down, armed, moved>>
      BY <1>4 DEF ToggleButton
    <2> HIDE DEF e
    <2>3. held' = SymDiff(held, {b})
      BY <1>4 DEF ToggleButton
    <2>4. held' \subseteq AllKeys /\ held' \cap Modifiers = held \cap Modifiers
      BY <1>1, <2>3, InputAssumption DEF SymDiff, AllKeys
    <2>5. ASSUME NEW keys \in SUBSET Mapped, keys \subseteq held
          PROVE  Pressed(keys, e) \subseteq held'
      <3>1. IsTransition(e) <=> b \notin Unmapped
        BY <2>1 DEF IsTransition
      <3>2. Pressed(keys, e) \subseteq held'
        BY <2>1, <2>3, <2>5, <3>1 DEF Pressed, Mapped, SymDiff
      <3>. QED BY <3>2
    <2>6. Tells(e)
      BY <1>1, <2>1, <2>2, <2>4, <2>5 DEF Tells
    <2>. QED BY <2>6
  <1>5. ASSUME NEW p \in Points, MovePointer(p)
        PROVE  \E e : Tells(e)
    <2> DEFINE e == MouseMoveEvent(p)
    <2>1. e \in Event /\ e.type = "move" /\ e.pos = p
      BY EventTypes DEF MouseMoveEvent
    <2>2. Told(e) /\ Input /\ UNCHANGED <<held, keys_down, armed>> /\ pointer' = p /\ moved' = connected
      BY <1>5 DEF MovePointer
    <2> HIDE DEF e
    <2>3. \A keys : Pressed(keys, e) = keys
      BY <2>1 DEF Pressed, IsTransition
    <2>4. Tells(e)
      BY <1>1, <2>1, <2>2, <2>3 DEF Tells
    <2>. QED BY <2>4
  <1>6. ASSUME NEW d \in Scrolls, TurnWheel(d)
        PROVE  \E e : Tells(e)
    <2> DEFINE e == Wheel(d)
    <2>1. e \in Event /\ e.type \in {"scroll", "other"}
      <3>1. d \in Int \X Int /\ <<d[1] + d[2], 0>> \in Int \X Int
        BY InputAssumption
      <3>2. OtherEvent.type = "other" /\ \A f : ScrollEvent(f).type = "scroll"
        BY DEF OtherEvent, ScrollEvent
      <3>. QED BY <3>1, <3>2, EventTypes DEF Wheel
    <2>2. Told(e) /\ Input /\ UNCHANGED <<held, pointer, keys_down, armed, moved>>
      BY <1>6 DEF TurnWheel
    <2> HIDE DEF e
    <2>3. \A keys : Pressed(keys, e) = keys
      BY <2>1 DEF Pressed, IsTransition
    <2>4. Tells(e)
      BY <1>1, <2>1, <2>2, <2>3 DEF Tells
    <2>. QED BY <2>4
  <1>. QED BY <1>2, <1>3, <1>4, <1>5, <1>6

\* Every step, the user's inputs told as events.
LEMMA NextIs ==
  ASSUME IType, [Next]_vars
  PROVE  \/ \E k \in Modifiers : ToggleModifier(k)
         \/ \E e : Tells(e)
         \/ Connect \/ Repaint \/ RepaintPanel \/ Inject \/ Lose
         \/ UNCHANGED vars
  BY UserTells DEF Next

LEMMA TypeNext == IType /\ [Next]_vars => IType'
  <1> SUFFICES ASSUME IType, [Next]_vars PROVE IType'
    OBVIOUS
  <1> USE DEF user, window, host
  <1>1. ASSUME NEW k \in Modifiers, ToggleModifier(k)
        PROVE  IType'
    <2>1. held' = SymDiff(held, {k}) /\ held' \subseteq Modifiers \cup Keys \cup Buttons
      BY <1>1 DEF ToggleModifier, IType, TypeOK, SymDiff
    <2>2. inputs' \in 0 .. MaxInputs /\ Len(events) <= inputs'
      BY <1>1, InputAssumption, LenProperties DEF ToggleModifier, Input, IType, TypeOK
    <2>3. \A keys \in SUBSET Mapped : keys \subseteq held => keys \subseteq held'
      BY <2>1, InputAssumption DEF SymDiff, Mapped
    <2>4. PressedIn(events) \in SUBSET Mapped /\ fresh \in SUBSET Mapped
      BY PressedInType DEF IType, TypeOK, Mapped
    <2>5. PressedIn(events) \subseteq held' /\ (connected => fresh \subseteq held')
      BY <2>3, <2>4 DEF IType, TypeOK
    <2>6. UNCHANGED <<pointer, keys_down, events, armed, moved, turned, fresh, window, commands, host>>
      BY <1>1 DEF ToggleModifier, Input
    <2>. QED BY <2>1, <2>2, <2>5, <2>6 DEF IType, TypeOK
  <1>2. ASSUME NEW e, Tells(e)
        PROVE  IType'
    <2>1. /\ e \in Event /\ events' = Append(events, e) /\ Input
          /\ UNCHANGED <<armed, window, commands, host>>
      BY <1>2 DEF Tells, Told, Input
    <2>2. events' \in Seq(Event) /\ Len(events') <= inputs' /\ inputs' \in 0 .. MaxInputs /\ Len(events') <= MaxInputs
      BY <2>1, EventsType
    <2>3. PressedIn(events') \subseteq held'
      <3>1. PressedIn(events) \in SUBSET Mapped /\ PressedIn(events') = Pressed(PressedIn(events), e)
        BY <2>1, PressedAppend DEF IType
      <3>. QED BY <1>2, <3>1 DEF Tells, IType
    <2>4. fresh' \subseteq Mapped /\ (connected => fresh' \subseteq held')
      <3>1. fresh \in SUBSET Mapped /\ (connected => fresh \subseteq held)
        BY DEF IType, TypeOK, Mapped
      <3>2. fresh' = IF connected THEN Pressed(fresh, e) ELSE fresh
        BY <1>2 DEF Tells, Told
      <3>. QED BY <1>2, <2>1, <3>1, <3>2, PressedType DEF Tells
    <2>5. turned' \in Int \X Int
      <3>1. turned \in Int \X Int /\ e \in Item
        BY <2>1 DEF IType, TypeOK, Item
      <3>2. turned' = IF connected THEN Turned(turned, e) ELSE turned
        BY <1>2 DEF Tells, Told
      <3>. QED BY <3>1, <3>2, TurnedType
    <2>6. held' \subseteq AllKeys /\ pointer' \in Points /\ keys_down' \subseteq Keys \X BOOLEAN /\ moved' \in BOOLEAN
      BY <1>2 DEF Tells
    <2>. QED BY <2>1, <2>2, <2>3, <2>4, <2>5, <2>6 DEF IType, TypeOK, AllKeys, Mapped
  <1>3. CASE Connect
    <2>1. turned' \in Int \X Int
      <3>1. events \in Seq(Item)
        BY DEF IType, Item
      <3>2. Turns(events) \in Int \X Int
        BY <3>1, TurnsType
      <3>. QED BY <1>3, <3>2 DEF Connect, Plus, IType, TypeOK
    <2>2. sessions' \in 0 .. MaxSessions
      BY <1>3, InputAssumption DEF Connect, IType, TypeOK
    <2>3. fresh' \subseteq Mapped /\ fresh' \subseteq held' /\ moved' \in BOOLEAN
      BY <1>3, PressedInType DEF Connect, IType
    <2>. QED BY <1>3, <2>1, <2>2, <2>3 DEF Connect, IType, TypeOK, Mapped
  <1>4. CASE Repaint
    <2>1. events' = <<>> /\ <<>> \in Seq(Event) /\ Len(<<>>) = 0
      BY <1>4 DEF Repaint
    <2>2. events' \in Seq(Event) /\ Len(events') = 0
      BY <2>1
    <2>3. armed' \in BOOLEAN
      BY <1>4 DEF Repaint, ArmedAfter, PressesCross, PrimaryEvent, IType, TypeOK
    <2>4. /\ UNCHANGED <<held, pointer, keys_down, inputs, moved, turned, fresh, sessions, down, cursor, clicks, wheels, lost>>
          /\ connected' \in BOOLEAN /\ (connected' => connected)
      BY <1>4 DEF Repaint, IType, TypeOK
    <2>6. PressedIn(events') = {}
      BY <2>1, PressedEmpty
    <2>5. /\ commands' \in Seq(Command) /\ last_modifiers' \subseteq Modifiers
          /\ last_mouse_remote_pos' \in Points \cup {None}
      <3>1. CASE Clicked(events, armed)
        BY <1>4, <3>1 DEF Repaint, IType, TypeOK
      <3>2. CASE ~ Clicked(events, armed)
        <4>1. PICK pos \in {last_mouse_remote_pos, None} : capture_and_send_input(pos)
          BY <1>4, <3>2 DEF Repaint
        <4>2. pos \in Points \cup {None} /\ events \in Seq(Event) /\ commands \in Seq(Command)
              /\ last_modifiers \subseteq Modifiers
          BY DEF IType, TypeOK
        <4>3. /\ Captured(pos) \in Acc /\ commands' \in Seq(Command) /\ last_modifiers' = held \cap Modifiers
              /\ last_mouse_remote_pos' = Captured(pos).pos
          BY <4>1, <4>2, CaptureIs
        <4>. QED BY <4>3 DEF Acc
      <3>. QED BY <3>1, <3>2
    <2>. QED BY <2>2, <2>3, <2>4, <2>5, <2>6, InputAssumption DEF IType, TypeOK
  <1>5. CASE RepaintPanel
    <2>1. events' = <<>> /\ <<>> \in Seq(Event) /\ Len(<<>>) = 0
      BY <1>5 DEF RepaintPanel
    <2>2. events' \in Seq(Event) /\ Len(events') = 0
      BY <2>1
    <2>3. armed' \in BOOLEAN /\ UNCHANGED <<held, pointer, keys_down, inputs, moved, turned, fresh, window, commands, host>>
      BY <1>5 DEF RepaintPanel
    <2>4. PressedIn(events') = {}
      BY <2>1, PressedEmpty
    <2>. QED BY <2>2, <2>3, <2>4, InputAssumption DEF IType, TypeOK
  <1>6. CASE Inject
    <2> DEFINE c == Head(commands)
    <2>1. c \in Command /\ commands' \in Seq(Command)
      BY <1>6, HeadTailProperties DEF Inject, IType
    <2>2. SendInput(payload_to_inputs(c)) /\ UNCHANGED <<user, window, lost>>
      BY <1>6 DEF Inject
    <2> HIDE DEF c
    <2>3. wheels \in Int \X Int
      BY DEF IType, TypeOK
    <2>4. wheels' \in Int \X Int
      <3>1. c \in Item /\ wheels' = Turned(wheels, c)
        BY <2>1, <2>2, <2>3, CommandIs, InjectIs
      <3>. QED BY <2>3, <3>1, TurnedType
    <2>5. /\ down' \subseteq (Modifiers \cup Keys \cup Buttons) \ Unmapped /\ cursor' \in Points
          /\ clicks' \subseteq [at : Points, wanted : Points, moved : BOOLEAN]
      <3>1. /\ down \subseteq (Modifiers \cup Keys \cup Buttons) \ Unmapped /\ cursor \in Points
            /\ clicks \subseteq [at : Points, wanted : Points, moved : BOOLEAN]
        BY DEF IType, TypeOK
      <3>2. CASE c.type = "scroll"
        BY <2>1, <2>2, <2>3, <3>1, <3>2, InjectIs
      <3>3. CASE c.type = "move"
        <4>1. c.pos \in Points /\ cursor' = c.pos /\ UNCHANGED <<down, clicks>>
          BY <2>1, <2>2, <2>3, <3>3, CommandIs, InjectIs
        <4>. QED BY <3>1, <4>1
      <3>4. CASE c.type \in {"key", "button"}
        <4>1. c.key \in (Modifiers \cup Keys \cup Buttons) \ Unmapped
          BY <2>1, <3>4, CommandIs
        <4>2. /\ down' = IF c.pressed THEN down \cup {c.key} ELSE down \ {c.key}
              /\ clicks' = IF c.type = "button" /\ c.pressed
                             THEN clicks \cup {[at |-> cursor, wanted |-> c.pos, moved |-> c.moved]}
                             ELSE clicks
              /\ cursor' = cursor
          BY <2>1, <2>2, <2>3, <3>4, InjectIs
        <4>3. c.type = "button" => c.pos \in Points /\ c.moved \in BOOLEAN
          BY <2>1, CommandIs
        <4>4. clicks' \subseteq [at : Points, wanted : Points, moved : BOOLEAN]
          BY <3>1, <4>2, <4>3
        <4>. QED BY <3>1, <4>1, <4>2, <4>4
      <3>. QED BY <2>1, <3>2, <3>3, <3>4, CommandIs
    <2>. QED BY <2>1, <2>2, <2>4, <2>5 DEF IType, TypeOK
  <1>7. CASE Lose
    <2> DEFINE c == Head(commands)
    <2>1. c \in Command /\ commands' \in Seq(Command)
      BY <1>7, HeadTailProperties DEF Lose, IType
    <2>2. /\ \E n \in 0 .. Len(payload_to_inputs(c)) - 1 : SendInput(SubSeq(payload_to_inputs(c), 1, n))
          /\ lost' = lost \cup {Subject(c)} /\ UNCHANGED <<user, window>>
      BY <1>7 DEF Lose
    <2> HIDE DEF c
    <2>3. wheels \in Int \X Int
      BY DEF IType, TypeOK
    <2>4. wheels' \in Int \X Int /\ UNCHANGED <<cursor, down, injected, clicks>>
      BY <2>1, <2>2, <2>3, LoseIs
    <2>5. Subject(c) \in Modifiers \cup Keys \cup Buttons \cup {"move", "scroll"}
      BY <2>1, CommandIs DEF Subject
    <2>. QED BY <2>1, <2>2, <2>4, <2>5 DEF IType, TypeOK
  <1>8. CASE UNCHANGED vars
    BY <1>8 DEF vars, IType, TypeOK
  <1>. QED BY <1>1, <1>2, <1>3, <1>4, <1>5, <1>6, <1>7, <1>8, NextIs

\* The invariant of InputForwarding's types: the window has never more events to handle
\* than the user made, every event and every command is of one of the kinds the
\* code knows, and the host never holds down what has no code.
THEOREM InputTypes == Spec => []TypeOK
  <1>1. IType => TypeOK
    BY DEF IType
  <1>. QED BY <1>1, TypeInit, TypeNext, PTL DEF Spec

-----------------------------------------------------------------------------
(* Where clicks land. *)

\* The host's cursor, and the button presses that took effect elsewhere than they
\* should; what a command makes of them, or an event were it a command.
Click == [at : Points, wanted : Points, moved : BOOLEAN]
AimState == [at : Points, missed : SUBSET Click]

Presses(c) == c.type = "button" /\ c.key \notin Unmapped /\ c.pressed /\ c.moved

Aim(a, c) ==
    IF c.type = "move" THEN [at |-> c.pos, missed |-> a.missed]
    ELSE IF Presses(c) /\ a.at # c.pos
      THEN [at |-> a.at, missed |-> a.missed \cup {[at |-> a.at, wanted |-> c.pos, moved |-> TRUE]}]
    ELSE a

LEMMA ItemIs ==
  ASSUME NEW c \in Item
  PROVE  /\ c.type = "move" => c.pos \in Points
         /\ c.type = "button" => c.pos \in Points
  BY DEF Item, Event, NameEvents, KeyEvents, ButtonEvents, MoveEvents, ScrollEvents, OtherEvents

LEMMA AimType ==
  ASSUME NEW a \in AimState, NEW c \in Item
  PROVE  Aim(a, c) \in AimState
  <1>1. CASE c.type = "move"
    BY <1>1, ItemIs DEF Aim, AimState
  <1>2. CASE c.type # "move" /\ Presses(c) /\ a.at # c.pos
    <2>1. [at |-> a.at, wanted |-> c.pos, moved |-> TRUE] \in Click
      BY <1>2, ItemIs DEF Presses, Click, AimState
    <2>. QED BY <1>2, <2>1 DEF Aim, AimState
  <1>3. CASE c.type # "move" /\ ~ (Presses(c) /\ a.at # c.pos)
    BY <1>3 DEF Aim
  <1>. QED BY <1>1, <1>2, <1>3

AimStep == [p \in AimState \X Item |-> Aim(p[1], p[2])]
AimRun(a, s) == Run(AimStep, a, s)

LEMMA AimStepType == Maps(AimStep, AimState, Item)
  BY AimType DEF AimStep, Maps

LEMMA AimStepIs ==
  ASSUME NEW a \in AimState, NEW c \in Item
  PROVE  Apply(AimStep, a, c) = Aim(a, c)
  BY DEF AimStep, Apply

LEMMA AimRunType ==
  ASSUME NEW a \in AimState, NEW s \in Seq(Item)
  PROVE  AimRun(a, s) \in AimState
  BY AimStepType, RunType DEF AimRun

LEMMA AimEmpty ==
  ASSUME NEW a
  PROVE  AimRun(a, <<>>) = a
  BY RunEmpty DEF AimRun

LEMMA AimAppend ==
  ASSUME NEW a \in AimState, NEW s \in Seq(Item), NEW c \in Item
  PROVE  AimRun(a, Append(s, c)) = Aim(AimRun(a, s), c)
  <1>1. AimRun(a, s) \in AimState
    BY AimRunType
  <1>2. Run(AimStep, a, Append(s, c)) = Apply(AimStep, Run(AimStep, a, s), c)
    BY AimStepType, RunAppend
  <1>. QED BY <1>1, <1>2, AimStepIs DEF AimRun

LEMMA AimHead ==
  ASSUME NEW a \in AimState, NEW s \in Seq(Item), s # <<>>
  PROVE  AimRun(a, s) = AimRun(Aim(a, Head(s)), Tail(s))
  <1>1. Head(s) \in Item
    BY HeadTailProperties
  <1>2. Run(AimStep, a, s) = Run(AimStep, Apply(AimStep, a, Head(s)), Tail(s))
    BY AimStepType, RunHead
  <1>. QED BY <1>1, <1>2, AimStepIs DEF AimRun

LEMMA AimConcat ==
  ASSUME NEW a \in AimState, NEW s \in Seq(Item), NEW t \in Seq(Item)
  PROVE  AimRun(a, s \o t) = AimRun(AimRun(a, s), t)
  BY AimStepType, RunConcat DEF AimRun

LEMMA AimOne ==
  ASSUME NEW a \in AimState, NEW c \in Item
  PROVE  AimRun(a, <<c>>) = Aim(a, c)
  <1>1. Run(AimStep, a, <<c>>) = Apply(AimStep, a, c)
    BY AimStepType, RunOne
  <1>. QED BY <1>1, AimStepIs DEF AimRun

\* Keys do not aim.
LEMMA AimKeys ==
  ASSUME NEW a \in AimState
  PROVE  \A s \in Seq(KeyEvents) : AimRun(a, s) = a
  <1> DEFINE P == {s \in Seq(KeyEvents) : AimRun(a, s) = a}
  <1>1. <<>> \in P
    BY AimEmpty
  <1>2. ASSUME NEW s \in Seq(KeyEvents), NEW c \in KeyEvents, s \in P
        PROVE  Append(s, c) \in P
    <2>1. s \in Seq(Item) /\ c \in Item /\ AimRun(a, s) = a
      BY <1>2 DEF Item
    <2>2. AimRun(a, Append(s, c)) = Aim(AimRun(a, s), c)
      <3> HIDE DEF P
      <3>. QED BY <2>1, AimAppend
    <2>3. Aim(a, c) = a
      BY DEF Aim, Presses, KeyEvents
    <2>4. Append(s, c) \in Seq(KeyEvents)
      BY AppendProperties
    <2>. QED BY <2>1, <2>2, <2>3, <2>4
  <1>3. \A s \in Seq(KeyEvents) : s \in P
    <2> HIDE DEF P
    <2>. QED BY <1>1, <1>2, SeqInduct
  <1>. QED BY <1>3

\* An event aims as what it becomes does, if the cursor comes to the position sent last.
LEMMA AimForwarded ==
  ASSUME NEW a \in AimState, NEW e \in Event, NEW pos \in Points \cup {None}, pos # None => pos = a.at
  PROVE  /\ AimRun(a, Forwarded(e, pos)) = Aim(a, e)
         /\ Aim(a, e).at = IF e.type = "move" THEN e.pos ELSE a.at
  <1>1. Aim(a, e).at = IF e.type = "move" THEN e.pos ELSE a.at
    BY DEF Aim, AimState
  <1>2. AimRun(a, <<>>) = a /\ AimRun(a, <<e>>) = Aim(a, e)
    <2>1. e \in Item
      BY DEF Item
    <2>. QED BY <2>1, AimEmpty, AimOne
  <1>3. CASE e \in NameEvents
    <2>1. e.type = "name" /\ e.key \in Keys /\ e.pressed \in BOOLEAN
      BY <1>3 DEF NameEvents
    <2>2. Forwarded(e, pos) = IF e.repeat \/ e.key \in Unmapped THEN <<>>
                              ELSE <<KeyEvent(e.key, e.pressed)>>
      BY <2>1, ForwardedIs, Zenon
    <2>3. KeyEvent(e.key, e.pressed) \in KeyEvents
      BY <2>1 DEF KeyEvent, KeyEvents
    <2>4. <<KeyEvent(e.key, e.pressed)>> \in Seq(KeyEvents)
      BY <2>3
    <2>5. AimRun(a, <<KeyEvent(e.key, e.pressed)>>) = a
      BY <2>4, AimKeys, Zenon
    <2>6. Aim(a, e) = a
      BY <2>1 DEF Aim, Presses
    <2>. QED BY <1>1, <1>2, <2>2, <2>5, <2>6, Zenon
  <1>4. CASE e \in ButtonEvents
    <2>1. e.type = "button"
      BY <1>4 DEF ButtonEvents
    <2>2. Forwarded(e, pos) = IF e.key \in Unmapped THEN <<>> ELSE <<e>>
      BY <2>1, ForwardedIs, Zenon
    <2>3. e.key \in Unmapped => Aim(a, e) = a
      BY <2>1 DEF Aim, Presses
    <2>. QED BY <1>1, <1>2, <2>2, <2>3, Zenon
  <1>5. CASE e \in MoveEvents
    <2>1. e.type = "move" /\ e.pos \in Points
      BY <1>5 DEF MoveEvents
    <2>2. Forwarded(e, pos) = IF e.pos = pos THEN <<>> ELSE <<e>>
      BY <2>1, ForwardedIs, Zenon
    <2>3. e.pos = pos => Aim(a, e) = a
      <3>1. e.pos # None
        BY <2>1, InputAssumption
      <3>. QED BY <2>1, <3>1 DEF Aim, AimState
    <2>. QED BY <1>1, <1>2, <2>2, <2>3, Zenon
  <1>6. CASE e \in ScrollEvents
    <2>1. e.type = "scroll"
      BY <1>6 DEF ScrollEvents
    <2>2. Forwarded(e, pos) = IF e.delta = <<0, 0>> THEN <<>> ELSE <<e>>
      BY <2>1, ForwardedIs, Zenon
    <2>3. Aim(a, e) = a
      BY <2>1 DEF Aim, Presses
    <2>. QED BY <1>1, <1>2, <2>2, <2>3, Zenon
  <1>7. CASE e \in OtherEvents
    <2>1. e.type = "other"
      BY <1>7 DEF OtherEvents
    <2>2. Forwarded(e, pos) = <<>>
      BY <2>1, ForwardedIs, Zenon
    <2>3. Aim(a, e) = a
      BY <2>1 DEF Aim, Presses
    <2>. QED BY <1>1, <1>2, <2>2, <2>3, Zenon
  <1>. QED BY <1>3, <1>4, <1>5, <1>6, <1>7 DEF Event

\* The window's fold over the events, step by step.
Begin(pos) == [out |-> <<>>, pos |-> pos]

LEMMA BeginType ==
  ASSUME NEW pos \in Points \cup {None}
  PROVE  Begin(pos) \in Acc /\ Begin(pos).out = <<>> /\ Begin(pos).pos = pos
  BY DEF Begin, Acc

LEMMA CapturedAppend ==
  ASSUME NEW pos \in Points \cup {None}, NEW t \in Seq(Event), NEW e \in Event
  PROVE  LET r == Run(ForwardStep, Begin(pos), t)
             q == Run(ForwardStep, Begin(pos), Append(t, e))
         IN  /\ r \in Acc /\ q \in Acc
             /\ q.out = r.out \o Forwarded(e, r.pos)
             /\ q.pos = IF e.type = "move" THEN e.pos ELSE r.pos
  <1> DEFINE r == Run(ForwardStep, Begin(pos), t)
             q == Run(ForwardStep, Begin(pos), Append(t, e))
  <1>1. Begin(pos) \in Acc
    BY BeginType
  <1>2. r \in Acc
    BY <1>1, ForwardStepType, RunType
  <1>3. q = Apply(ForwardStep, r, e)
    BY <1>1, ForwardStepType, RunAppend
  <1>4. q = Forward(r, e) /\ Forward(r, e) \in Acc
    BY <1>2, <1>3, ForwardStepIs, ForwardType
  <1> HIDE DEF r, q
  <1>5. q \in Acc /\ q.out = r.out \o Forwarded(e, r.pos) /\ q.pos = IF e.type = "move" THEN e.pos ELSE r.pos
    BY <1>4 DEF Forward
  <1>. QED BY <1>2, <1>5 DEF r, q

\* The commands of a repaint aim as its events do.
LEMMA AimCapture ==
  ASSUME NEW a \in AimState, NEW pos \in Points \cup {None}, pos # None => pos = a.at
  PROVE  \A t \in Seq(Event) :
            /\ AimRun(a, Run(ForwardStep, Begin(pos), t).out) = AimRun(a, t)
            /\ Run(ForwardStep, Begin(pos), t).pos # None =>
                  Run(ForwardStep, Begin(pos), t).pos = AimRun(a, t).at
  <1> DEFINE r(t) == Run(ForwardStep, Begin(pos), t)
             Same(t) == /\ AimRun(a, r(t).out) = AimRun(a, t)
                        /\ r(t).pos # None => r(t).pos = AimRun(a, t).at
             P == {t \in Seq(Event) : Same(t)}
  <1>1. <<>> \in P
    <2>1. r(<<>>) = Begin(pos)
      BY RunEmpty
    <2>2. AimRun(a, <<>>) = a
      BY AimEmpty
    <2>3. Same(<<>>)
      BY <2>1, <2>2, BeginType
    <2>4. <<>> \in Seq(Event)
      OBVIOUS
    <2> HIDE DEF Same
    <2>. QED BY <2>3, <2>4
  <1>2. ASSUME NEW t \in Seq(Event), NEW e \in Event, t \in P
        PROVE  Append(t, e) \in P
    <2> DEFINE u == Append(t, e)
               d == Forwarded(e, r(t).pos)
               b == AimRun(a, t)
    <2>1. t \in Seq(Item) /\ e \in Item
      BY DEF Item
    <2>2. Same(t)
      BY <1>2
    <2>3. /\ r(t) \in Acc /\ r(u).out = r(t).out \o d
          /\ r(u).pos = IF e.type = "move" THEN e.pos ELSE r(t).pos
      BY CapturedAppend
    <2>4. AimRun(a, u) = Aim(b, e) /\ b \in AimState
      BY <2>1, AimAppend, AimRunType
    <2>5. d \in Seq(Command) /\ r(t).out \in Seq(Command) /\ r(t).pos \in Points \cup {None}
      BY <2>3, ForwardedType DEF Acc
    <2>6. d \in Seq(Item) /\ r(t).out \in Seq(Item)
      BY <2>5, CommandIs
    <2> HIDE DEF u, b, d, r
    <2>7. AimRun(a, r(t).out \o d) = AimRun(AimRun(a, r(t).out), d)
      BY <2>6, AimConcat
    <2>8. AimRun(a, r(t).out) = b /\ (r(t).pos # None => r(t).pos = b.at)
      BY <2>2 DEF b
    <2>9. AimRun(b, d) = Aim(b, e) /\ Aim(b, e).at = IF e.type = "move" THEN e.pos ELSE b.at
      BY <2>4, <2>5, <2>8, AimForwarded DEF d
    <2>10. Same(u)
      BY <2>3, <2>4, <2>7, <2>8, <2>9
    <2>11. u \in Seq(Event)
      BY AppendProperties DEF u
    <2> HIDE DEF Same
    <2>. QED BY <2>10, <2>11 DEF u
  <1>3. \A t \in Seq(Event) : t \in P
    <2> HIDE DEF P
    <2>. QED BY <1>1, <1>2, SeqInduct
  <1>. QED BY <1>3

\* The host as it is, after the commands on their way, and after the events too.
AimNow == [at |-> cursor, missed |-> {c \in clicks : c.moved /\ c.at # c.wanted}]
AimSent == AimRun(AimNow, commands)
AimSeen == AimRun(AimSent, events)

\* As long as no move is lost: no press has missed or will; the position sent last is
\* where the cursor will be; and it will be where the pointer is once the pointer has
\* moved in the session.
AimInv ==
    "move" \notin lost =>
        /\ AimSent.missed = {} /\ AimSeen.missed = {}
        /\ last_mouse_remote_pos # None => AimSent.at = last_mouse_remote_pos
        /\ connected /\ moved => AimSeen.at = pointer
        /\ (\E e \in Range(events) : e.type = "move") => AimSeen.at = pointer

LEMMA AimTypes ==
  ASSUME IType
  PROVE  /\ AimNow \in AimState /\ AimSent \in AimState /\ AimSeen \in AimState
         /\ commands \in Seq(Item) /\ events \in Seq(Item)
  <1>1. commands \in Seq(Item) /\ events \in Seq(Item)
    <2>1. Command \subseteq Item
      BY CommandIs
    <2>. QED BY <2>1 DEF IType, Item
  <1>2. AimNow \in AimState
    BY DEF IType, TypeOK, AimNow, AimState, Click
  <1>. QED BY <1>1, <1>2, AimRunType DEF AimSent, AimSeen

\* A press that missed stays so.
LEMMA AimGrows ==
  ASSUME NEW a \in AimState
  PROVE  \A s \in Seq(Item) : a.missed \subseteq AimRun(a, s).missed
  <1> DEFINE P == {s \in Seq(Item) : a.missed \subseteq AimRun(a, s).missed}
  <1>1. <<>> \in P
    BY AimEmpty
  <1>2. ASSUME NEW s \in Seq(Item), NEW e \in Item, s \in P
        PROVE  Append(s, e) \in P
    <2>1. AimRun(a, Append(s, e)) = Aim(AimRun(a, s), e)
      <3> HIDE DEF P
      <3>. QED BY AimAppend
    <2>2. AimRun(a, s).missed \subseteq Aim(AimRun(a, s), e).missed
      BY DEF Aim
    <2>3. Append(s, e) \in Seq(Item)
      BY AppendProperties
    <2>. QED BY <1>2, <2>1, <2>2, <2>3
  <1>3. \A s \in Seq(Item) : s \in P
    <2> HIDE DEF P
    <2>. QED BY <1>1, <1>2, SeqInduct
  <1>. QED BY <1>3

LEMMA AimInit == Init => AimInv
  <1> SUFFICES ASSUME Init PROVE AimInv
    OBVIOUS
  <1>1. commands = <<>> /\ events = <<>> /\ last_mouse_remote_pos = None /\ ~ connected /\ AimNow.missed = {}
    BY DEF Init, AimNow
  <1>2. AimSent = AimNow /\ AimSeen = AimNow
    BY <1>1, AimEmpty DEF AimSent, AimSeen
  <1>3. Range(events) = {}
    BY <1>1 DEF Range
  <1>. QED BY <1>1, <1>2, <1>3 DEF AimInv

\* An event more.
LEMMA AimEvent ==
  ASSUME IType, AimInv, NEW e \in Event, events' = Append(events, e),
         UNCHANGED <<commands, cursor, clicks, lost, last_mouse_remote_pos, connected>>,
         e.type = "move" => e.pos = pointer' /\ moved' = connected,
         e.type # "move" => UNCHANGED <<pointer, moved>>,
         e.type = "button" /\ e.moved => moved /\ connected /\ e.pos = pointer
  PROVE  AimInv'
  <1> SUFFICES ASSUME "move" \notin lost PROVE AimInv'
    BY DEF AimInv
  <1>1. AimSent' = AimSent
    BY DEF AimSent, AimNow
  <1>2. AimSeen' = Aim(AimSeen, e)
    <2>1. e \in Item
      BY DEF Item
    <2>. QED BY <1>1, <2>1, AimTypes, AimAppend DEF AimSeen
  <1>3. AimSeen \in AimState /\ AimSeen.missed = {}
    BY AimTypes DEF AimInv
  <1>4. CASE e.type = "move"
    <2>1. AimSeen' = [at |-> e.pos, missed |-> {}]
      BY <1>2, <1>3, <1>4 DEF Aim
    <2>. QED BY <1>1, <1>4, <2>1 DEF AimInv
  <1>5. CASE e.type # "move"
    <2>1. Presses(e) => AimSeen.at = e.pos
      BY DEF AimInv, Presses
    <2>2. AimSeen' = AimSeen
      BY <1>2, <1>5, <2>1 DEF Aim
    <2>3. (\E x \in Range(events') : x.type = "move") => \E x \in Range(events) : x.type = "move"
      <3>1. \A i \in 1 .. Len(events') : events'[i] = e \/ \E j \in 1 .. Len(events) : events'[i] = events[j]
        BY AppendProperties, LenProperties DEF IType
      <3>2. DOMAIN events' = 1 .. Len(events') /\ DOMAIN events = 1 .. Len(events)
        BY AppendProperties, LenProperties DEF IType
      <3>. QED BY <1>5, <3>1, <3>2 DEF Range
    <2>. QED BY <1>1, <1>5, <2>2, <2>3 DEF AimInv
  <1>. QED BY <1>4, <1>5

\* No event more, and nothing else that matters.
LEMMA AimStutter ==
  ASSUME AimInv,
         UNCHANGED <<events, commands, cursor, clicks, lost, last_mouse_remote_pos, connected, pointer, moved>>
  PROVE  AimInv'
  BY DEF AimInv, AimSeen, AimSent, AimNow

LEMMA AimNext == IType /\ IType' /\ AimInv /\ [Next]_vars => AimInv'
  <1> SUFFICES ASSUME IType, IType', AimInv, [Next]_vars PROVE AimInv'
    OBVIOUS
  <1> USE DEF user, window, host
  <1>1. ASSUME NEW k \in Modifiers, ToggleModifier(k)
        PROVE  AimInv'
    BY <1>1, AimStutter DEF ToggleModifier, Input
  <1>2. ASSUME NEW e, Tells(e)
        PROVE  AimInv'
    <2>1. /\ e \in Event /\ events' = Append(events, e)
          /\ UNCHANGED <<commands, cursor, clicks, lost, last_mouse_remote_pos, connected>>
      BY <1>2 DEF Tells, Told, Input
    <2>2. /\ IF e.type = "move" THEN e.pos = pointer' /\ moved' = connected ELSE UNCHANGED <<pointer, moved>>
          /\ e.type = "button" => e.pos = pointer /\ (e.moved <=> moved /\ connected)
      BY <1>2 DEF Tells
    <2>. QED BY <2>1, <2>2, AimEvent
  <1>3. CASE Connect
    <2>1. AimSent' = AimSent /\ AimSeen' = AimSeen
      BY <1>3 DEF Connect, AimSent, AimSeen, AimNow
    <2>. QED BY <1>3, <2>1 DEF Connect, AimInv
  <1>4. CASE Repaint
    <2> SUFFICES ASSUME "move" \notin lost PROVE AimInv'
      BY <1>4 DEF AimInv, Repaint
    <2>1. events' = <<>> /\ Range(events') = {}
      BY <1>4 DEF Repaint, Range
    <2>2. AimSeen' = AimSent' /\ AimNow' = AimNow
      BY <1>4, <2>1, AimEmpty DEF AimSeen, AimNow, Repaint
    <2>3. CASE Clicked(events, armed)
      <3>1. AimSent' = AimSent
        BY <1>4, <2>2, <2>3 DEF Repaint, AimSent
      <3>. QED BY <1>4, <2>1, <2>2, <2>3, <3>1 DEF Repaint, AimInv
    <2>4. CASE ~ Clicked(events, armed)
      <3>1. PICK pos \in {last_mouse_remote_pos, None} : capture_and_send_input(pos)
        BY <1>4, <2>4 DEF Repaint
      <3>2. pos \in Points \cup {None} /\ events \in Seq(Event) /\ commands \in Seq(Command)
            /\ last_modifiers \subseteq Modifiers
        BY DEF IType, TypeOK
      <3>3. /\ Captured(pos) \in Acc
            /\ commands' = commands \o ModifierCommands \o Captured(pos).out
            /\ last_mouse_remote_pos' = Captured(pos).pos
        BY <3>1, <3>2, CaptureIs
      <3>4. Captured(pos) = Run(ForwardStep, Begin(pos), events)
        BY DEF Captured, Begin
      <3> DEFINE m == ModifierCommands
                 o == Captured(pos).out
      <3>5. m \in Seq(Item) /\ o \in Seq(Item) /\ AimRun(AimSent, m) = AimSent
        <4>1. m \in Seq(KeyEvents) /\ m \in Seq(Command)
          BY <3>2, ModifierCommandsAre
        <4>2. Command \subseteq Item /\ o \in Seq(Command)
          BY <3>3, CommandIs DEF Acc
        <4>. QED BY <4>1, <4>2, AimKeys, AimTypes
      <3>6. /\ AimRun(AimSent, o) = AimSeen
            /\ Captured(pos).pos # None => Captured(pos).pos = AimSeen.at
        <4>1. pos # None => pos = AimSent.at
          BY DEF AimInv
        <4>. QED BY <3>2, <3>4, <4>1, AimCapture, AimTypes DEF AimSeen
      <3> HIDE DEF m, o
      <3>7. AimSent' = AimSeen
        <4>1. commands \in Seq(Item) /\ commands \o m \in Seq(Item)
          BY <3>5, AimTypes, ConcatProperties
        <4>2. AimRun(AimNow, (commands \o m) \o o) = AimRun(AimRun(AimNow, commands \o m), o)
          BY <3>5, <4>1, AimTypes, AimConcat
        <4>3. AimRun(AimNow, commands \o m) = AimRun(AimSent, m)
          BY <3>5, <4>1, AimTypes, AimConcat DEF AimSent
        <4>4. commands' = (commands \o m) \o o
          BY <3>3 DEF m, o
        <4>. QED BY <2>2, <3>5, <3>6, <4>2, <4>3, <4>4 DEF AimSent
      <3>8. connected' = connected /\ UNCHANGED <<moved, pointer>> /\ connected
        BY <1>4, <2>4 DEF Repaint
      <3>. QED BY <2>1, <2>2, <3>3, <3>6, <3>7, <3>8 DEF AimInv
    <2>. QED BY <2>3, <2>4
  <1>5. CASE RepaintPanel
    <2>1. events' = <<>> /\ Range(events') = {} /\ ~ connected /\ UNCHANGED <<window, commands, host, moved, pointer>>
      BY <1>5 DEF RepaintPanel, Range
    <2>2. AimSent' = AimSent /\ AimSeen' = AimSent'
      BY <2>1, AimEmpty DEF AimSeen, AimSent, AimNow
    <2>. QED BY <2>1, <2>2 DEF AimInv
  <1>6. CASE Inject
    <2> DEFINE c == Head(commands)
    <2>1. c \in Command /\ c \in Item /\ commands # <<>> /\ commands' = Tail(commands)
      BY <1>6, HeadTailProperties, CommandIs DEF Inject, IType
    <2>2. AimRun(AimNow, commands) = AimRun(Aim(AimNow, c), Tail(commands))
      BY <2>1, AimTypes, AimHead
    <2>3. SendInput(payload_to_inputs(c)) /\ UNCHANGED <<user, window, lost>>
      BY <1>6 DEF Inject
    <2> HIDE DEF c
    <2>4. AimNow' = Aim(AimNow, c)
      <3>1. wheels \in Int \X Int
        BY DEF IType, TypeOK
      <3>2. CASE c.type = "scroll"
        <4>1. UNCHANGED <<cursor, clicks>>
          BY <2>1, <2>3, <3>1, <3>2, InjectIs
        <4>. QED BY <3>2, <4>1 DEF Aim, Presses, AimNow
      <3>3. CASE c.type = "move"
        <4>1. cursor' = c.pos /\ clicks' = {x \in clicks : TRUE}
          BY <2>1, <2>3, <3>1, <3>3, InjectIs
        <4>. QED BY <3>3, <4>1 DEF Aim, AimNow
      <3>4. CASE c.type \in {"key", "button"}
        <4>1. /\ clicks' = IF c.type = "button" /\ c.pressed
                             THEN clicks \cup {[at |-> cursor, wanted |-> c.pos, moved |-> c.moved]}
                             ELSE clicks
              /\ cursor' = cursor /\ c.key \notin Unmapped
              /\ (c.type = "button" => c.moved \in BOOLEAN)
          BY <2>1, <2>3, <3>1, <3>4, InjectIs, CommandIs
        <4>2. CASE Presses(c) /\ cursor # c.pos
          <5>1. AimNow'.missed = AimNow.missed \cup {[at |-> cursor, wanted |-> c.pos, moved |-> TRUE]}
            BY <4>1, <4>2 DEF AimNow, Presses
          <5>2. Aim(AimNow, c) = [at |-> cursor, missed |-> AimNow'.missed]
            BY <3>4, <4>2, <5>1 DEF Aim, AimNow
          <5>. QED BY <4>1, <5>2 DEF AimNow
        <4>3. CASE ~ (Presses(c) /\ cursor # c.pos)
          <5>1. AimNow'.missed = AimNow.missed
            BY <4>1, <4>3 DEF AimNow, Presses
          <5>2. Aim(AimNow, c) = AimNow
            BY <3>4, <4>3 DEF Aim, AimNow
          <5>. QED BY <4>1, <5>1, <5>2 DEF AimNow
        <4>. QED BY <4>2, <4>3
      <3>. QED BY <2>1, <3>2, <3>3, <3>4, CommandIs
    <2>5. AimSent' = AimSent
      BY <2>1, <2>2, <2>4 DEF AimSent
    <2>6. AimSeen' = AimSeen
      BY <2>3, <2>5 DEF AimSeen
    <2>. QED BY <2>3, <2>5, <2>6 DEF AimInv
  <1>7. CASE Lose
    <2> SUFFICES ASSUME "move" \notin lost' PROVE AimInv'
      BY DEF AimInv
    <2> DEFINE c == Head(commands)
    <2>1. c \in Command /\ c \in Item /\ commands # <<>> /\ commands' = Tail(commands)
      BY <1>7, HeadTailProperties, CommandIs DEF Lose, IType
    <2>2. AimRun(AimNow, commands) = AimRun(Aim(AimNow, c), Tail(commands))
      BY <2>1, AimTypes, AimHead
    <2>3. /\ \E n \in 0 .. Len(payload_to_inputs(c)) - 1 : SendInput(SubSeq(payload_to_inputs(c), 1, n))
          /\ lost' = lost \cup {Subject(c)} /\ UNCHANGED <<user, window>>
      BY <1>7 DEF Lose
    <2>4. Tail(commands) \in Seq(Item)
      BY <2>1, AimTypes, HeadTailProperties
    <2> HIDE DEF c
    <2>5. UNCHANGED <<cursor, clicks>>
      BY <2>1, <2>3, LoseIs DEF IType, TypeOK
    <2>6. c.type # "move" /\ "move" \notin lost
      BY <2>1, <2>3, CommandIs DEF Subject
    <2>7. Aim(AimNow, c) = AimNow
      <3>1. Aim(AimNow, c).missed \subseteq AimSent.missed
        BY <2>1, <2>2, <2>4, AimTypes, AimType, AimGrows DEF AimSent
      <3>2. AimSent.missed = {}
        BY <2>6 DEF AimInv
      <3>. QED BY <2>6, <3>1, <3>2 DEF Aim
    <2>8. AimNow' = AimNow
      BY <2>5 DEF AimNow
    <2>9. AimSent' = AimSent
      BY <2>1, <2>2, <2>7, <2>8 DEF AimSent
    <2>10. AimSeen' = AimSeen
      BY <2>3, <2>9 DEF AimSeen
    <2>. QED BY <2>3, <2>6, <2>9, <2>10 DEF AimInv
  <1>8. CASE UNCHANGED vars
    BY <1>8, AimStutter DEF vars
  <1>. QED BY <1>1, <1>2, <1>3, <1>4, <1>5, <1>6, <1>7, <1>8, NextIs

\* A button press takes effect where the user's pointer was, once the pointer has
\* moved in the session and as long as no move is lost, for any number of events
\* between repaints and of commands on their way (capture_and_send_input leaves out
\* moves to the position sent last).
THEOREM ClicksLand == Spec => []ClickAfterMove
  <1>1. IType /\ AimInv => ClickAfterMove
    <2> SUFFICES ASSUME IType, AimInv, "move" \notin lost, NEW c \in clicks, c.moved PROVE c.at = c.wanted
      BY DEF ClickAfterMove
    <2>1. AimNow.missed \subseteq AimSent.missed
      BY AimTypes, AimGrows DEF AimSent
    <2>2. AimNow.missed = {}
      BY <2>1, AimTypes DEF AimInv, AimSent
    <2>. QED BY <2>2 DEF AimNow
  <1>2. Init => IType /\ AimInv
    BY TypeInit, AimInit
  <1>3. IType /\ AimInv /\ [Next]_vars => (IType /\ AimInv)'
    BY TypeNext, AimNext
  <1>. QED BY <1>1, <1>2, <1>3, PTL DEF Spec

-----------------------------------------------------------------------------
(* What the host holds down. *)

DoState == [down : SUBSET (AllKeys \ Unmapped), wheels : Int \X Int]

\* The keys down at the host and how far its wheels have turned, after a command, or
\* after an event were it a command.
Acts(c) == (c.type = "key" /\ c.key \notin Unmapped) \/ IsTransition(c)
Does(d, c) ==
    [down |-> IF ~ Acts(c) THEN d.down
              ELSE IF c.pressed THEN d.down \cup {c.key} ELSE d.down \ {c.key},
     wheels |-> Turned(d.wheels, c)]

LEMMA DoesType ==
  ASSUME NEW d \in DoState, NEW c \in Item
  PROVE  Does(d, c) \in DoState
  <1>1. Turned(d.wheels, c) \in Int \X Int
    BY TurnedType DEF DoState
  <1>2. Acts(c) => c.key \in AllKeys \ Unmapped
    BY DEF Acts, IsTransition, AllKeys, Item, Event, NameEvents, KeyEvents, ButtonEvents, MoveEvents, ScrollEvents, OtherEvents
  <1>3. Does(d, c).down \in SUBSET (AllKeys \ Unmapped)
    BY <1>2 DEF Does, DoState
  <1>. QED BY <1>1, <1>3 DEF Does, DoState

DoStep == [p \in DoState \X Item |-> Does(p[1], p[2])]
DoRun(d, s) == Run(DoStep, d, s)

LEMMA DoStepType == Maps(DoStep, DoState, Item)
  BY DoesType DEF DoStep, Maps

LEMMA DoStepIs ==
  ASSUME NEW d \in DoState, NEW c \in Item
  PROVE  Apply(DoStep, d, c) = Does(d, c)
  BY DEF DoStep, Apply

LEMMA DoRunType ==
  ASSUME NEW d \in DoState, NEW s \in Seq(Item)
  PROVE  DoRun(d, s) \in DoState
  BY DoStepType, RunType DEF DoRun

LEMMA DoEmpty ==
  ASSUME NEW d
  PROVE  DoRun(d, <<>>) = d
  BY RunEmpty DEF DoRun

LEMMA DoAppend ==
  ASSUME NEW d \in DoState, NEW s \in Seq(Item), NEW c \in Item
  PROVE  DoRun(d, Append(s, c)) = Does(DoRun(d, s), c)
  <1>1. DoRun(d, s) \in DoState
    BY DoRunType
  <1>2. Run(DoStep, d, Append(s, c)) = Apply(DoStep, Run(DoStep, d, s), c)
    BY DoStepType, RunAppend
  <1>. QED BY <1>1, <1>2, DoStepIs DEF DoRun

LEMMA DoHead ==
  ASSUME NEW d \in DoState, NEW s \in Seq(Item), s # <<>>
  PROVE  DoRun(d, s) = DoRun(Does(d, Head(s)), Tail(s))
  <1>1. Head(s) \in Item
    BY HeadTailProperties
  <1>2. Run(DoStep, d, s) = Run(DoStep, Apply(DoStep, d, Head(s)), Tail(s))
    BY DoStepType, RunHead
  <1>. QED BY <1>1, <1>2, DoStepIs DEF DoRun

LEMMA DoConcat ==
  ASSUME NEW d \in DoState, NEW s \in Seq(Item), NEW t \in Seq(Item)
  PROVE  DoRun(d, s \o t) = DoRun(DoRun(d, s), t)
  BY DoStepType, RunConcat DEF DoRun

LEMMA DoOne ==
  ASSUME NEW d \in DoState, NEW c \in Item
  PROVE  DoRun(d, <<c>>) = Does(d, c)
  <1>1. Run(DoStep, d, <<c>>) = Apply(DoStep, d, c)
    BY DoStepType, RunOne
  <1>. QED BY <1>1, DoStepIs DEF DoRun

\* The wheels turn as far as the events say.
LEMMA DoTurns ==
  ASSUME NEW d \in DoState
  PROVE  \A s \in Seq(Item) : DoRun(d, s).wheels = Plus(d.wheels, Turns(s))
  <1> DEFINE b == <<0, 0>>
             P == {s \in Seq(Item) : DoRun(d, s).wheels = Plus(d.wheels, Turns(s))}
  <1>1. <<>> \in P
    <2>1. DoRun(d, <<>>) = d /\ Turns(<<>>) = <<0, 0>>
      BY DoEmpty, TurnsEmpty
    <2>2. Plus(d.wheels, <<0, 0>>) = d.wheels
      BY DEF Plus, DoState
    <2>3. <<>> \in Seq(Item)
      OBVIOUS
    <2>. QED BY <2>1, <2>2, <2>3
  <1>2. ASSUME NEW s \in Seq(Item), NEW c \in Item, s \in P
        PROVE  Append(s, c) \in P
    <2>1. Append(s, c) \in Seq(Item)
      BY AppendProperties
    <2>2. Turns(Append(s, c)) = Turned(Turns(s), c)
      <3>1. b \in Int \X Int
        OBVIOUS
      <3>2. Turns(s) = Run(TurnsStep, b, s) /\ Turns(Append(s, c)) = Run(TurnsStep, b, Append(s, c))
        BY <2>1, TurnsIsRun
      <3> HIDE DEF b, P
      <3>3. Run(TurnsStep, b, Append(s, c)) = Apply(TurnsStep, Run(TurnsStep, b, s), c)
        <4> DEFINE A == Int \X Int
        <4>1. b \in A /\ Maps(TurnsStep, A, Item)
          BY <3>1, TurnsStepType
        <4> HIDE DEF A
        <4>. QED BY <4>1, RunAppend
      <3>4. Turns(s) \in Int \X Int
        BY TurnsType
      <3>. QED BY <3>2, <3>3, <3>4, TurnsStepIs
    <2>3. DoRun(d, Append(s, c)).wheels = Turned(DoRun(d, s).wheels, c)
      <3> HIDE DEF P
      <3>1. DoRun(d, Append(s, c)) = Does(DoRun(d, s), c)
        BY DoAppend
      <3>. QED BY <3>1 DEF Does
    <2>4. Turned(Plus(d.wheels, Turns(s)), c) = Plus(d.wheels, Turned(Turns(s), c))
      <3>1. Turns(s) \in Int \X Int /\ d.wheels \in Int \X Int
        BY TurnsType DEF DoState
      <3>2. c.type = "scroll" => c.delta \in Int \X Int
        BY DEF Item, Event, NameEvents, KeyEvents, ButtonEvents, MoveEvents, ScrollEvents, OtherEvents
      <3>. QED BY <3>1, <3>2 DEF Turned, Plus
    <2>. QED BY <1>2, <2>1, <2>2, <2>3, <2>4
  <1>3. \A s \in Seq(Item) : s \in P
    <2> HIDE DEF P
    <2>. QED BY <1>1, <1>2, SeqInduct
  <1>. QED BY <1>3

\* The same keys are down, modifiers apart, and the wheels have turned as far.
Alike(d, e) == d.down \ Modifiers = e.down \ Modifiers /\ d.wheels = e.wheels

\* What an event becomes does what the event says, and nothing to the modifiers.
LEMMA DoForwarded ==
  ASSUME NEW d \in DoState, NEW b \in DoState, Alike(d, b), NEW e \in Event, NEW pos
  PROVE  /\ Alike(DoRun(d, Forwarded(e, pos)), Does(b, e))
         /\ DoRun(d, Forwarded(e, pos)).down \cap Modifiers = d.down \cap Modifiers
  <1> DEFINE Right(x) == Alike(x, Does(b, e)) /\ x.down \cap Modifiers = d.down \cap Modifiers
  <1>1. e \in Item /\ DoRun(d, <<>>) = d /\ DoRun(d, <<e>>) = Does(d, e)
    <2>1. e \in Item
      BY DEF Item
    <2>. QED BY <2>1, DoEmpty, DoOne
  <1>2. d.wheels = b.wheels /\ d.wheels \in Int \X Int
    BY DEF Alike, DoState
  <1>3. ~ Acts(e) /\ Turned(b.wheels, e) = b.wheels => Right(d)
    BY <1>2 DEF Does, Alike
  <1>4. (Acts(e) => e.key \notin Modifiers) => Right(Does(d, e))
    BY <1>2 DEF Does, Alike
  <1> HIDE DEF Right
  <1>5. CASE e \in NameEvents
    <2>1. e.type = "name" /\ e.key \in Keys /\ e.pressed \in BOOLEAN
      BY <1>5 DEF NameEvents
    <2> DEFINE c == KeyEvent(e.key, e.pressed)
    <2>2. Forwarded(e, pos) = IF e.repeat \/ e.key \in Unmapped THEN <<>> ELSE <<c>>
      BY <2>1, ForwardedIs, Zenon
    <2>3. CASE e.repeat \/ e.key \in Unmapped
      <3>1. ~ Acts(e) /\ Turned(b.wheels, e) = b.wheels
        BY <2>1, <2>3 DEF Acts, IsTransition, Turned
      <3>. QED BY <1>1, <1>3, <2>2, <2>3, <3>1, Zenon DEF Right
    <2>4. CASE ~ (e.repeat \/ e.key \in Unmapped)
      <3>1. c \in Item /\ c.type = "key" /\ c.key = e.key /\ c.pressed = e.pressed
        BY <2>1 DEF KeyEvent, KeyEvents, Item
      <3>2. Acts(c) /\ Acts(e)
        BY <2>1, <2>4, <3>1 DEF Acts, IsTransition
      <3> HIDE DEF c
      <3>3. DoRun(d, <<c>>) = Does(d, c)
        BY <3>1, DoOne
      <3>4. Does(d, c) = Does(d, e)
        BY <2>1, <3>1, <3>2 DEF Does, Turned
      <3>5. e.key \notin Modifiers
        BY <2>1, InputAssumption
      <3>. QED BY <1>4, <2>2, <2>4, <3>3, <3>4, <3>5, Zenon DEF Right
    <2>. QED BY <2>3, <2>4
  <1>6. CASE e \in ButtonEvents
    <2>1. e.type = "button" /\ e.key \in Buttons
      BY <1>6 DEF ButtonEvents
    <2>2. Forwarded(e, pos) = IF e.key \in Unmapped THEN <<>> ELSE <<e>>
      BY <2>1, ForwardedIs, Zenon
    <2>3. e.key \in Unmapped => ~ Acts(e)
      BY <2>1 DEF Acts, IsTransition
    <2>4. Turned(b.wheels, e) = b.wheels
      BY <2>1 DEF Turned
    <2>5. e.key \notin Modifiers
      BY <2>1, InputAssumption
    <2>. QED BY <1>1, <1>3, <1>4, <2>2, <2>3, <2>4, <2>5, Zenon DEF Right
  <1>7. CASE e \in MoveEvents
    <2>1. e.type = "move"
      BY <1>7 DEF MoveEvents
    <2>2. Forwarded(e, pos) = IF e.pos = pos THEN <<>> ELSE <<e>>
      BY <2>1, ForwardedIs, Zenon
    <2>3. ~ Acts(e) /\ Turned(b.wheels, e) = b.wheels
      BY <2>1 DEF Acts, IsTransition, Turned
    <2>. QED BY <1>1, <1>3, <1>4, <2>2, <2>3, Zenon DEF Right
  <1>8. CASE e \in ScrollEvents
    <2>1. e.type = "scroll"
      BY <1>8 DEF ScrollEvents
    <2>2. Forwarded(e, pos) = IF e.delta = <<0, 0>> THEN <<>> ELSE <<e>>
      BY <2>1, ForwardedIs, Zenon
    <2>3. ~ Acts(e)
      BY <2>1 DEF Acts, IsTransition
    <2>4. e.delta = <<0, 0>> => Turned(b.wheels, e) = b.wheels
      BY <1>2, <2>1 DEF Turned, Plus
    <2>. QED BY <1>1, <1>3, <1>4, <2>2, <2>3, <2>4, Zenon DEF Right
  <1>9. CASE e \in OtherEvents
    <2>1. e.type = "other"
      BY <1>9 DEF OtherEvents
    <2>2. Forwarded(e, pos) = <<>>
      BY <2>1, ForwardedIs, Zenon
    <2>3. ~ Acts(e) /\ Turned(b.wheels, e) = b.wheels
      BY <2>1 DEF Acts, IsTransition, Turned
    <2>. QED BY <1>1, <1>3, <2>2, <2>3, Zenon DEF Right
  <1>. QED BY <1>5, <1>6, <1>7, <1>8, <1>9 DEF Event

\* The commands of a repaint do what its events say, and nothing to the modifiers.
LEMMA DoCapture ==
  ASSUME NEW d \in DoState, NEW b \in DoState, Alike(d, b), NEW pos \in Points \cup {None}
  PROVE  \A t \in Seq(Event) :
            /\ Alike(DoRun(d, Run(ForwardStep, Begin(pos), t).out), DoRun(b, t))
            /\ DoRun(d, Run(ForwardStep, Begin(pos), t).out).down \cap Modifiers = d.down \cap Modifiers
  <1> DEFINE r(t) == Run(ForwardStep, Begin(pos), t)
             Same(t) == /\ Alike(DoRun(d, r(t).out), DoRun(b, t))
                        /\ DoRun(d, r(t).out).down \cap Modifiers = d.down \cap Modifiers
             P == {t \in Seq(Event) : Same(t)}
  <1>1. <<>> \in P
    <2>1. r(<<>>) = Begin(pos)
      BY RunEmpty
    <2>2. DoRun(d, <<>>) = d /\ DoRun(b, <<>>) = b
      BY DoEmpty
    <2>3. Same(<<>>)
      BY <2>1, <2>2, BeginType
    <2>4. <<>> \in Seq(Event)
      OBVIOUS
    <2> HIDE DEF Same
    <2>. QED BY <2>3, <2>4
  <1>2. ASSUME NEW t \in Seq(Event), NEW e \in Event, t \in P
        PROVE  Append(t, e) \in P
    <2> DEFINE u == Append(t, e)
               c == Forwarded(e, r(t).pos)
               x == DoRun(d, r(t).out)
               y == DoRun(b, t)
    <2>1. t \in Seq(Item) /\ e \in Item
      BY DEF Item
    <2>2. Same(t)
      BY <1>2
    <2>3. r(t) \in Acc /\ r(u).out = r(t).out \o c
      BY CapturedAppend
    <2>4. DoRun(b, u) = Does(y, e) /\ y \in DoState
      BY <2>1, DoAppend, DoRunType
    <2>5. c \in Seq(Command) /\ r(t).out \in Seq(Command)
      BY <2>3, ForwardedType DEF Acc
    <2>6. c \in Seq(Item) /\ r(t).out \in Seq(Item)
      BY <2>5, CommandIs
    <2>7. x \in DoState
      BY <2>6, DoRunType
    <2> HIDE DEF u, c, x, y, r
    <2>8. DoRun(d, r(t).out \o c) = DoRun(DoRun(d, r(t).out), c)
      BY <2>6, DoConcat
    <2>9. Alike(x, y) /\ x.down \cap Modifiers = d.down \cap Modifiers
      BY <2>2 DEF x, y
    <2>10. Alike(DoRun(x, c), Does(y, e)) /\ DoRun(x, c).down \cap Modifiers = x.down \cap Modifiers
      BY <2>4, <2>7, <2>9, DoForwarded DEF c
    <2>11. Same(u)
      BY <2>3, <2>4, <2>8, <2>9, <2>10 DEF x
    <2>12. u \in Seq(Event)
      BY AppendProperties DEF u
    <2> HIDE DEF Same
    <2>. QED BY <2>11, <2>12 DEF u
  <1>3. \A t \in Seq(Event) : t \in P
    <2> HIDE DEF P
    <2>. QED BY <1>1, <1>2, SeqInduct
  <1>. QED BY <1>3

\* The modifiers' commands bring the modifiers up to date, in whatever order.
LEMMA DoModifiers ==
  ASSUME IType, NEW d \in DoState, d.down \cap Modifiers = last_modifiers
  PROVE  /\ Alike(DoRun(d, ModifierCommands), d)
         /\ DoRun(d, ModifierCommands).down \cap Modifiers = held \cap Modifiers
  <1> DEFINE S == {KeyEvent(k, k \in held) : k \in Changed}
             m == ModifierCommands
             Sent(s, k) == \E i \in 1 .. Len(s) : s[i].key = k
             Partly(s) == /\ Alike(DoRun(d, s), d)
                          /\ \A k \in Modifiers :
                                k \in DoRun(d, s).down <=> IF Sent(s, k) THEN k \in held ELSE k \in d.down
             P == {s \in Seq(S) : Partly(s)}
  <1>1. last_modifiers \subseteq Modifiers /\ Changed \subseteq Modifiers
    BY DEF IType, TypeOK, Changed, SymDiff
  <1>2. ASSUME NEW c \in S
        PROVE  /\ c \in Item /\ c.type = "key" /\ c.key \in Modifiers /\ Acts(c)
               /\ c.pressed <=> c.key \in held
    <2>1. PICK k \in Changed : c = KeyEvent(k, k \in held)
      OBVIOUS
    <2>2. c.type = "key" /\ c.key = k /\ (c.pressed <=> k \in held)
      BY <2>1 DEF KeyEvent
    <2>3. k \in Modifiers /\ k \notin Unmapped
      BY <1>1, InputAssumption
    <2>4. \A p \in BOOLEAN : KeyEvent(k, p) \in KeyEvents
      BY <2>3 DEF KeyEvent, KeyEvents
    <2>5. c \in KeyEvents
      <3>1. (k \in held) \in BOOLEAN
        OBVIOUS
      <3>. QED BY <2>1, <2>4, <3>1
    <2>. QED BY <2>2, <2>3, <2>5 DEF Item, Acts
  <1>3. m \in Seq(S) /\ \A k \in Changed : Sent(m, k)
    <2>1. m \in Seq(S) /\ \A k \in Changed : \E i \in 1 .. Len(m) : m[i] = KeyEvent(k, k \in held)
      BY <1>1, ModifierCommandsAre
    <2>2. \A k : KeyEvent(k, k \in held).key = k
      BY DEF KeyEvent
    <2> HIDE DEF m, S
    <2>. QED BY <2>1, <2>2
  <1>4. <<>> \in P
    <2>1. DoRun(d, <<>>) = d /\ <<>> \in Seq(S) /\ Len(<<>>) = 0
      BY DoEmpty
    <2>2. Partly(<<>>)
      BY <2>1 DEF Alike
    <2> HIDE DEF Partly
    <2>. QED BY <2>1, <2>2
  <1>5. ASSUME NEW s \in Seq(S), NEW c \in S, s \in P
        PROVE  Append(s, c) \in P
    <2> DEFINE u == Append(s, c)
               x == DoRun(d, s)
    <2>1. s \in Seq(Item) /\ c \in Item
      <3>1. S \subseteq Item
        BY <1>2
      <3> HIDE DEF S
      <3>. QED BY <3>1
    <2>2. Partly(s) /\ u \in Seq(S)
      BY <1>5, AppendProperties
    <2>3. DoRun(d, u) = Does(x, c) /\ x \in DoState
      <3> HIDE DEF P, S
      <3>. QED BY <2>1, DoAppend, DoRunType
    <2>4. \A k : Sent(u, k) <=> Sent(s, k) \/ c.key = k
      <3>1. Len(u) = Len(s) + 1 /\ Len(s) \in Nat /\ u[Len(s) + 1] = c /\ \A i \in 1 .. Len(s) : u[i] = s[i]
        <4> HIDE DEF S
        <4>. QED BY AppendProperties, LenProperties
      <3> HIDE DEF u, S
      <3>2. ASSUME NEW k, Sent(u, k)
            PROVE  Sent(s, k) \/ c.key = k
        BY <3>1, <3>2
      <3>3. ASSUME NEW k, Sent(s, k) \/ c.key = k
            PROVE  Sent(u, k)
        BY <3>1, <3>3
      <3>. QED BY <3>2, <3>3
    <2>5. c.type = "key" /\ c.key \in Modifiers /\ Acts(c) /\ (c.pressed <=> c.key \in held)
      BY <1>2
    <2> HIDE DEF u, x, S, Sent
    <2>6. Does(x, c).wheels = x.wheels
      BY <2>5 DEF Does, Turned
    <2>7. Does(x, c).down = IF c.key \in held THEN x.down \cup {c.key} ELSE x.down \ {c.key}
      BY <2>5 DEF Does
    <2>8. Alike(Does(x, c), d)
      BY <2>2, <2>5, <2>6, <2>7 DEF Alike, x
    <2>9. \A k \in Modifiers :
             k \in Does(x, c).down <=> IF Sent(u, k) THEN k \in held ELSE k \in d.down
      BY <2>2, <2>4, <2>7 DEF x
    <2>10. Partly(u)
      BY <2>3, <2>8, <2>9
    <2> HIDE DEF Partly
    <2>. QED BY <2>2, <2>10 DEF u
  <1>6. \A s \in Seq(S) : s \in P
    <2> HIDE DEF P, S
    <2>. QED BY <1>4, <1>5, SeqInduct
  <1>7. Partly(m)
    <2> HIDE DEF Partly, m, S
    <2>. QED BY <1>3, <1>6
  <1> HIDE DEF m
  <1>8. \A k \in Modifiers : k \in DoRun(d, m).down <=> k \in held
    <2> SUFFICES ASSUME NEW k \in Modifiers PROVE k \in DoRun(d, m).down <=> k \in held
      OBVIOUS
    <2>1. k \notin Changed => (k \in d.down <=> k \in held)
      BY DEF Changed, SymDiff
    <2> HIDE DEF Sent
    <2>. QED BY <1>3, <1>7, <2>1
  <1>. QED BY <1>7, <1>8 DEF m

\* The host as it is, after the commands on their way, and after the events too.
DoNow == [down |-> down, wheels |-> wheels]
DoSent == DoRun(DoNow, commands)
DoSeen == DoRun(DoSent, events)

\* The same keys are down, those of L apart, and the wheels have turned as far if L does
\* not have the wheels.
Close(d, e, L) == d.down \ L = e.down \ L /\ ("scroll" \notin L => d.wheels = e.wheels)

\* What is done next leaves them so.
LEMMA CloseRun ==
  ASSUME NEW d \in DoState, NEW e \in DoState, NEW L, Close(d, e, L)
  PROVE  \A s \in Seq(Item) : Close(DoRun(d, s), DoRun(e, s), L)
  <1> DEFINE P == {s \in Seq(Item) : Close(DoRun(d, s), DoRun(e, s), L)}
  <1>1. <<>> \in P
    <2>1. DoRun(d, <<>>) = d /\ DoRun(e, <<>>) = e
      BY DoEmpty
    <2>2. <<>> \in Seq(Item)
      OBVIOUS
    <2>. QED BY <2>1, <2>2
  <1>2. ASSUME NEW s \in Seq(Item), NEW c \in Item, s \in P
        PROVE  Append(s, c) \in P
    <2> DEFINE u == Append(s, c)
               x == DoRun(d, s)
               y == DoRun(e, s)
    <2>1. u \in Seq(Item)
      BY AppendProperties
    <2>2. DoRun(d, u) = Does(x, c) /\ DoRun(e, u) = Does(y, c)
      BY DoAppend
    <2>3. Close(x, y, L)
      BY <1>2
    <2> HIDE DEF x, y, u
    <2>4. Close(Does(x, c), Does(y, c), L)
      BY <2>3 DEF Close, Does
    <2>. QED BY <2>1, <2>2, <2>4 DEF u
  <1>3. \A s \in Seq(Item) : s \in P
    <2> HIDE DEF P
    <2>. QED BY <1>1, <1>2, SeqInduct
  <1>. QED BY <1>3

\* From a host where nothing is down, the events do what they say is pressed.
LEMMA DoPressed ==
  ASSUME NEW d \in DoState, d.down = {}
  PROVE  \A s \in Seq(Event) : DoRun(d, s).down = PressedIn(s)
  <1> DEFINE P == {s \in Seq(Event) : DoRun(d, s).down = PressedIn(s)}
  <1>1. <<>> \in P
    <2>1. DoRun(d, <<>>) = d /\ PressedIn(<<>>) = {}
      BY DoEmpty, PressedEmpty
    <2>2. <<>> \in Seq(Event)
      OBVIOUS
    <2>. QED BY <2>1, <2>2
  <1>2. ASSUME NEW s \in Seq(Event), NEW e \in Event, s \in P
        PROVE  Append(s, e) \in P
    <2> DEFINE u == Append(s, e)
               x == DoRun(d, s)
    <2>1. u \in Seq(Event) /\ s \in Seq(Item) /\ e \in Item
      BY AppendProperties DEF Item
    <2>2. DoRun(d, u) = Does(x, e)
      BY <2>1, DoAppend
    <2>3. PressedIn(u) = Pressed(PressedIn(s), e)
      BY PressedAppend
    <2>4. x.down = PressedIn(s)
      BY <1>2
    <2> HIDE DEF u, x
    <2>5. Acts(e) <=> IsTransition(e)
      BY DEF Acts, Event, NameEvents, ButtonEvents, MoveEvents, ScrollEvents, OtherEvents
    <2>6. Does(x, e).down = Pressed(PressedIn(s), e)
      BY <2>4, <2>5 DEF Does, Pressed
    <2>. QED BY <2>1, <2>2, <2>3, <2>6 DEF u
  <1>3. \A s \in Seq(Event) : s \in P
    <2> HIDE DEF P
    <2>. QED BY <1>1, <1>2, SeqInduct
  <1>. QED BY <1>3

\* Nothing has happened at the host before the first session; in it the commands bring
\* the modifiers to where the window last saw them, and the events the rest to where
\* the window was told it is, what is lost apart.
SyncInv ==
    /\ sessions = 0 =>
          ~ connected /\ commands = <<>> /\ last_modifiers = {} /\ down = {} /\ wheels = turned
    /\ connected /\ sessions = 1 =>
          /\ (DoSent.down \cap Modifiers) \ lost = last_modifiers \ lost
          /\ (DoSeen.down \ Modifiers) \ lost = fresh \ lost
          /\ "scroll" \notin lost => DoSeen.wheels = turned

LEMMA DoTypes ==
  ASSUME IType
  PROVE  /\ DoNow \in DoState /\ DoSent \in DoState /\ DoSeen \in DoState
         /\ commands \in Seq(Item) /\ events \in Seq(Item)
  <1>1. commands \in Seq(Item) /\ events \in Seq(Item)
    BY AimTypes
  <1>2. DoNow \in DoState
    BY DEF IType, TypeOK, DoNow, DoState, AllKeys
  <1>. QED BY <1>1, <1>2, DoRunType DEF DoSent, DoSeen

LEMMA SyncInit == Init => SyncInv
  BY DEF Init, SyncInv

LEMMA SyncStutter ==
  ASSUME SyncInv,
         UNCHANGED <<events, commands, down, wheels, lost, sessions, connected, last_modifiers, turned, fresh>>
  PROVE  SyncInv'
  BY DEF SyncInv, DoSeen, DoSent, DoNow

\* An event more.
LEMMA SyncEvent ==
  ASSUME IType, SyncInv, NEW e \in Event, Told(e),
         UNCHANGED <<commands, down, wheels, lost, sessions, connected, last_modifiers>>
  PROVE  SyncInv'
  <1>1. DoSent' = DoSent
    BY DEF DoSent, DoNow
  <1>2. e \in Item /\ e.type # "key"
    BY DEF Item, Event, NameEvents, ButtonEvents, MoveEvents, ScrollEvents, OtherEvents
  <1>3. DoSeen' = Does(DoSeen, e)
    BY <1>1, <1>2, DoTypes, DoAppend DEF DoSeen, Told
  <1>4. Acts(e) <=> IsTransition(e)
    BY <1>2 DEF Acts
  <1>5. IsTransition(e) => e.key \notin Modifiers
    <2>1. IsTransition(e) => e.key \in Keys \cup Buttons
      BY DEF IsTransition, Event, NameEvents, ButtonEvents, MoveEvents, ScrollEvents, OtherEvents
    <2>. QED BY <2>1, InputAssumption
  <1>6. ASSUME connected, sessions = 1
        PROVE  /\ (DoSeen'.down \ Modifiers) \ lost = fresh' \ lost
               /\ "scroll" \notin lost => DoSeen'.wheels = turned'
    <2>1. /\ (DoSeen.down \ Modifiers) \ lost = fresh \ lost
          /\ "scroll" \notin lost => DoSeen.wheels = turned
      BY <1>6 DEF SyncInv
    <2>2. fresh' = Pressed(fresh, e) /\ turned' = Turned(turned, e)
      BY <1>6 DEF Told
    <2>3. "scroll" \notin lost => DoSeen'.wheels = turned'
      BY <1>3, <2>1, <2>2 DEF Does
    <2>4. DoSeen'.down = Pressed(DoSeen.down, e)
      BY <1>3, <1>4 DEF Does, Pressed
    <2>5. (DoSeen'.down \ Modifiers) \ lost = fresh' \ lost
      BY <1>5, <2>1, <2>2, <2>4 DEF Pressed
    <2>. QED BY <2>3, <2>5
  <1>7. sessions = 0 => ~ connected /\ turned' = turned
    BY DEF SyncInv, Told
  <1>. QED BY <1>1, <1>6, <1>7 DEF SyncInv

LEMMA SyncNext == IType /\ IType' /\ SyncInv /\ [Next]_vars => SyncInv'
  <1> SUFFICES ASSUME IType, IType', SyncInv, [Next]_vars PROVE SyncInv'
    OBVIOUS
  <1> USE DEF user, window, host
  <1>1. ASSUME NEW k \in Modifiers, ToggleModifier(k)
        PROVE  SyncInv'
    BY <1>1, SyncStutter DEF ToggleModifier, Input
  <1>2. ASSUME NEW e, Tells(e)
        PROVE  SyncInv'
    <2>1. e \in Event /\ Told(e) /\ UNCHANGED <<commands, down, wheels, lost, sessions, connected, last_modifiers>>
      BY <1>2 DEF Tells, Input
    <2>. QED BY <2>1, SyncEvent
  <1>3. CASE Connect
    <2>1. DoSent' = DoSent /\ DoSeen' = DoSeen
      BY <1>3 DEF Connect, DoSent, DoSeen, DoNow
    <2>2. sessions \in Nat /\ sessions' = sessions + 1 /\ UNCHANGED <<last_modifiers, lost>>
      BY <1>3 DEF Connect, IType, TypeOK
    <2>3. ASSUME sessions' = 1
          PROVE  /\ (DoSent.down \cap Modifiers) \ lost = last_modifiers \ lost
                 /\ (DoSeen.down \ Modifiers) \ lost = fresh' \ lost
                 /\ "scroll" \notin lost => DoSeen.wheels = turned'
      <3>1. commands = <<>> /\ last_modifiers = {} /\ down = {} /\ wheels = turned
        BY <2>2, <2>3 DEF SyncInv
      <3>2. DoSent = DoNow
        BY <3>1, DoEmpty DEF DoSent
      <3>3. DoSent.down = {} /\ DoSent.wheels = turned
        BY <3>1, <3>2 DEF DoNow
      <3>4. DoSeen.wheels = Plus(turned, Turns(events))
        BY <3>3, DoTypes, DoTurns DEF DoSeen
      <3>5. DoSeen.down = PressedIn(events)
        BY <3>3, DoTypes, DoPressed DEF DoSeen, IType
      <3>6. PressedIn(events) \cap Modifiers = {}
        <4>1. PressedIn(events) \in SUBSET Mapped
          BY PressedInType DEF IType
        <4>. QED BY <4>1, InputAssumption DEF Mapped
      <3>. QED BY <1>3, <3>1, <3>3, <3>4, <3>5, <3>6 DEF Connect
    <2>. QED BY <2>1, <2>2, <2>3 DEF SyncInv
  <1>4. CASE Repaint
    <2> SUFFICES ASSUME sessions = 1, connected' PROVE
                   /\ (DoSent'.down \cap Modifiers) \ lost = last_modifiers' \ lost
                   /\ (DoSeen'.down \ Modifiers) \ lost = fresh \ lost
                   /\ "scroll" \notin lost => DoSeen'.wheels = turned
      <3>1. connected /\ UNCHANGED <<lost, sessions, fresh, turned>>
        BY <1>4 DEF Repaint
      <3>2. sessions # 0
        BY <3>1 DEF SyncInv
      <3>. QED BY <3>1, <3>2 DEF SyncInv
    <2>1. ~ Clicked(events, armed)
      BY <1>4 DEF Repaint
    <2>2. connected /\ events' = <<>> /\ UNCHANGED <<held, turned, fresh, host>>
      BY <1>4 DEF Repaint
    <2>3. PICK pos \in {last_mouse_remote_pos, None} : capture_and_send_input(pos)
      BY <1>4, <2>1 DEF Repaint
    <2>4. pos \in Points \cup {None} /\ events \in Seq(Event) /\ commands \in Seq(Command)
          /\ last_modifiers \subseteq Modifiers
      BY DEF IType, TypeOK
    <2>5. /\ Captured(pos) \in Acc
          /\ commands' = commands \o ModifierCommands \o Captured(pos).out
          /\ last_modifiers' = held \cap Modifiers
      BY <2>3, <2>4, CaptureIs
    <2>6. Captured(pos) = Run(ForwardStep, Begin(pos), events)
      BY DEF Captured, Begin
    <2> DEFINE m == ModifierCommands
               o == Captured(pos).out
               right == [down |-> (DoSent.down \ Modifiers) \cup last_modifiers, wheels |-> DoSent.wheels]
               d == DoRun(right, m)
    <2>7. /\ (DoSent.down \cap Modifiers) \ lost = last_modifiers \ lost
          /\ (DoSeen.down \ Modifiers) \ lost = fresh \ lost
          /\ "scroll" \notin lost => DoSeen.wheels = turned
      BY <2>2 DEF SyncInv
    \* the host as it would be, had no modifier's command been lost
    <2>8. right \in DoState /\ right.down \cap Modifiers = last_modifiers /\ Close(DoSent, right, lost)
      <3>1. DoSent \in DoState /\ last_modifiers \subseteq AllKeys \ Unmapped
        BY <2>4, DoTypes, InputAssumption DEF AllKeys
      <3>2. right \in DoState
        BY <3>1 DEF DoState
      <3>3. right.down \cap Modifiers = last_modifiers
        BY <2>4
      <3>4. Close(DoSent, right, lost)
        BY <2>4, <2>7 DEF Close
      <3>. QED BY <3>2, <3>3, <3>4
    <2> HIDE DEF right
    <2>9. m \in Seq(Item) /\ o \in Seq(Item) /\ d \in DoState
      <3>1. m \in Seq(Command) /\ o \in Seq(Command) /\ Command \subseteq Item
        BY <2>4, <2>5, ModifierCommandsAre, CommandIs DEF Acc
      <3>2. m \in Seq(Item) /\ o \in Seq(Item)
        BY <3>1
      <3>. QED BY <2>8, <3>2, DoRunType
    <2>10. Alike(d, right) /\ d.down \cap Modifiers = held \cap Modifiers
      BY <2>8, DoModifiers
    <2> HIDE DEF d
    <2>11. /\ Alike(DoRun(d, o), DoRun(right, events))
           /\ DoRun(d, o).down \cap Modifiers = held \cap Modifiers
      BY <2>4, <2>6, <2>8, <2>9, <2>10, DoCapture
    <2> DEFINE sent == DoRun(DoSent, m)
    <2>12. sent \in DoState /\ Close(sent, d, lost) /\ Close(DoSeen, DoRun(right, events), lost)
      BY <2>8, <2>9, DoTypes, DoRunType, CloseRun DEF d, DoSeen
    <2> HIDE DEF m, o
    <2>13. DoSent' = DoRun(sent, o)
      <3>1. commands \in Seq(Item) /\ commands \o m \in Seq(Item)
        BY <2>9, DoTypes, ConcatProperties
      <3>2. DoRun(DoNow, (commands \o m) \o o) = DoRun(DoRun(DoNow, commands \o m), o)
        BY <2>9, <3>1, DoTypes, DoConcat
      <3>3. DoRun(DoNow, commands \o m) = sent
        BY <2>9, <3>1, DoTypes, DoConcat DEF DoSent
      <3>4. commands' = (commands \o m) \o o /\ DoNow' = DoNow
        BY <2>2, <2>5 DEF m, o, DoNow
      <3>. QED BY <3>2, <3>3, <3>4 DEF DoSent
    <2> HIDE DEF sent
    <2>14. Close(DoSent', DoRun(d, o), lost)
      BY <2>9, <2>12, <2>13, CloseRun
    <2>15. DoSeen' = DoSent'
      BY <2>2, DoEmpty DEF DoSeen
    <2> DEFINE x == DoSent'
               y == DoRun(d, o)
               z == DoRun(right, events)
               w == DoSeen
    <2>16. /\ Close(x, y, lost) /\ Alike(y, z) /\ Close(w, z, lost) /\ y.down \cap Modifiers = held \cap Modifiers
           /\ (w.down \ Modifiers) \ lost = fresh \ lost /\ ("scroll" \notin lost => w.wheels = turned)
      BY <2>7, <2>11, <2>12, <2>14
    <2> HIDE DEF x, y, z, w
    <2>17. /\ (x.down \cap Modifiers) \ lost = (held \cap Modifiers) \ lost
           /\ (x.down \ Modifiers) \ lost = fresh \ lost
           /\ "scroll" \notin lost => x.wheels = turned
      <3>1. (x.down \cap Modifiers) \ lost = (held \cap Modifiers) \ lost
        BY <2>16 DEF Close
      <3>2. (x.down \ Modifiers) \ lost = fresh \ lost
        BY <2>16 DEF Close, Alike
      <3>3. "scroll" \notin lost => x.wheels = turned
        BY <2>16 DEF Close, Alike
      <3>. QED BY <3>1, <3>2, <3>3
    <2>. QED BY <2>5, <2>15, <2>17 DEF x
  <1>5. CASE RepaintPanel
    BY <1>5 DEF RepaintPanel, SyncInv
  <1>6. CASE Inject
    <2> DEFINE c == Head(commands)
    <2>1. c \in Command /\ c \in Item /\ commands # <<>> /\ commands' = Tail(commands)
      BY <1>6, HeadTailProperties, CommandIs DEF Inject, IType
    <2>2. DoRun(DoNow, commands) = DoRun(Does(DoNow, c), Tail(commands))
      BY <2>1, DoTypes, DoHead
    <2>3. SendInput(payload_to_inputs(c)) /\ UNCHANGED <<user, window, lost>>
      BY <1>6 DEF Inject
    <2> HIDE DEF c
    <2>4. DoNow' = Does(DoNow, c)
      <3>1. wheels \in Int \X Int
        BY DEF IType, TypeOK
      <3>2. wheels' = Turned(wheels, c)
        BY <2>1, <2>3, <3>1, InjectIs
      <3>3. CASE c.type \in {"scroll", "move"}
        <4>1. down' = down
          BY <2>1, <2>3, <3>1, <3>3, InjectIs
        <4>2. ~ Acts(c)
          BY <3>3 DEF Acts, IsTransition
        <4>. QED BY <3>2, <4>1, <4>2 DEF Does, DoNow
      <3>4. CASE c.type \in {"key", "button"}
        <4>1. down' = IF c.pressed THEN down \cup {c.key} ELSE down \ {c.key}
          BY <2>1, <2>3, <3>1, <3>4, InjectIs
        <4>2. c.key \notin Unmapped
          BY <2>1, <3>4, CommandIs
        <4>3. Acts(c)
          BY <3>4, <4>2 DEF Acts, IsTransition
        <4>. QED BY <3>2, <4>1, <4>3 DEF Does, DoNow
      <3>. QED BY <2>1, <3>3, <3>4, CommandIs
    <2>5. DoSent' = DoSent
      BY <2>1, <2>2, <2>4 DEF DoSent
    <2>6. DoSeen' = DoSeen
      BY <2>3, <2>5 DEF DoSeen
    <2>7. sessions # 0
      BY <2>1 DEF SyncInv
    <2>. QED BY <2>3, <2>5, <2>6, <2>7 DEF SyncInv
  <1>7. CASE Lose
    <2> DEFINE c == Head(commands)
    <2>1. c \in Command /\ c \in Item /\ commands # <<>> /\ commands' = Tail(commands)
      BY <1>7, HeadTailProperties, CommandIs DEF Lose, IType
    <2>2. DoRun(DoNow, commands) = DoRun(Does(DoNow, c), Tail(commands))
      BY <2>1, DoTypes, DoHead
    <2>3. /\ \E n \in 0 .. Len(payload_to_inputs(c)) - 1 : SendInput(SubSeq(payload_to_inputs(c), 1, n))
          /\ lost' = lost \cup {Subject(c)} /\ UNCHANGED <<user, window>>
      BY <1>7 DEF Lose
    <2>4. Tail(commands) \in Seq(Item)
      BY <2>1, DoTypes, HeadTailProperties
    <2> HIDE DEF c
    <2>5. down' = down /\ (c.type # "scroll" => wheels' = wheels)
      BY <2>1, <2>3, LoseIs DEF IType, TypeOK
    <2>6. Close(DoNow', Does(DoNow, c), lost')
      <3>1. CASE c.type \in {"key", "button"}
        BY <2>3, <2>5, <3>1 DEF Close, Does, DoNow, Subject, Turned
      <3>2. CASE c.type \in {"move", "scroll"}
        <4>1. ~ Acts(c)
          BY <3>2 DEF Acts, IsTransition
        <4>2. c.type = "scroll" => "scroll" \in lost'
          BY <2>3 DEF Subject
        <4>. QED BY <2>5, <3>2, <4>1, <4>2 DEF Close, Does, DoNow, Turned
      <3>. QED BY <2>1, <3>1, <3>2, CommandIs
    <2> DEFINE now == Does(DoNow, c)
               then == DoNow'
    <2>7. now \in DoState
      BY <2>1, DoTypes, DoesType
    <2>8. then \in DoState
      BY DEF DoNow, DoState, IType, TypeOK, AllKeys
    <2> DEFINE rest == Tail(commands)
    <2>9. DoSent = DoRun(now, rest) /\ DoSent' = DoRun(then, rest) /\ DoSeen' = DoRun(DoSent', events)
      BY <2>1, <2>2, <2>3 DEF DoSent, DoSeen
    <2> HIDE DEF now, then, rest
    <2>10. Close(DoSent', DoSent, lost')
      BY <2>4, <2>6, <2>7, <2>8, <2>9, CloseRun DEF now, then, rest
    <2> DEFINE x == DoSent'
               y == DoSeen'
    <2>11. x \in DoState /\ y = DoRun(x, events)
      BY <2>4, <2>8, <2>9, DoRunType DEF rest
    <2> HIDE DEF x, y
    <2>12. Close(x, DoSent, lost') /\ Close(y, DoSeen, lost')
      <3>1. Close(x, DoSent, lost')
        BY <2>10 DEF x
      <3>. QED BY <2>11, <3>1, DoTypes, CloseRun DEF DoSeen
    <2>13. ASSUME connected, sessions = 1
           PROVE  /\ (x.down \cap Modifiers) \ lost' = last_modifiers \ lost'
                  /\ (y.down \ Modifiers) \ lost' = fresh \ lost'
                  /\ "scroll" \notin lost' => y.wheels = turned
      <3>1. /\ (DoSent.down \cap Modifiers) \ lost = last_modifiers \ lost
            /\ (DoSeen.down \ Modifiers) \ lost = fresh \ lost
            /\ "scroll" \notin lost => DoSeen.wheels = turned
        BY <2>13 DEF SyncInv
      <3>2. lost \subseteq lost'
        BY <2>3
      <3>. QED BY <2>12, <3>1, <3>2 DEF Close
    <2>14. sessions # 0
      BY <2>1 DEF SyncInv
    <2>. QED BY <2>3, <2>13, <2>14 DEF SyncInv, x, y
  <1>8. CASE UNCHANGED vars
    BY <1>8, SyncStutter DEF vars
  <1>. QED BY <1>1, <1>2, <1>3, <1>4, <1>5, <1>6, <1>7, <1>8, NextIs

\* When the window has handled everything and the network is empty, in the first session
\* the host holds down the user's modifiers and what the GUI library reported as pressed
\* and not as released, and its wheels have turned as far as it reported, what is lost
\* apart: the comparison of modifiers with last_modifiers, the events in between, their
\* keys' names and the leaving out of repetitions add up, whatever their number and
\* order; a lost command harms its own key only, and no key that the user has let go
\* stays down.
THEOREM HostInSync == Spec => []InSync
  <1>1. IType /\ SyncInv => InSync
    <2> SUFFICES ASSUME IType, SyncInv, connected, sessions = 1, Settled
                 PROVE  /\ down \ lost = (fresh \cup (held \cap Modifiers)) \ lost
                        /\ down \ lost \subseteq held
                        /\ "scroll" \notin lost => wheels = turned
      BY DEF InSync
    <2>1. events = <<>> /\ commands = <<>> /\ last_modifiers = held \cap Modifiers
      BY DEF Settled
    <2>2. DoSeen = DoNow /\ DoSent = DoNow
      BY <2>1, DoEmpty DEF DoSeen, DoSent
    <2>3. DoNow.down = down /\ DoNow.wheels = wheels
      BY DEF DoNow
    <2>4. /\ (down \cap Modifiers) \ lost = (held \cap Modifiers) \ lost
          /\ (down \ Modifiers) \ lost = fresh \ lost
          /\ "scroll" \notin lost => wheels = turned
      BY <2>1, <2>2, <2>3 DEF SyncInv
    <2>5. fresh \subseteq held
      BY DEF IType, TypeOK
    <2>. QED BY <2>4, <2>5
  <1>2. Init => IType /\ SyncInv
    BY TypeInit, SyncInit
  <1>3. IType /\ SyncInv /\ [Next]_vars => (IType /\ SyncInv)'
    BY TypeNext, SyncNext
  <1>. QED BY <1>1, <1>2, <1>3, PTL DEF Spec

-----------------------------------------------------------------------------
(* The order of what is told. *)

\* Presses and releases.
Pairs == AllKeys \X BOOLEAN

\* The steps of the folds by which Transitions, OfKey and Unmatched are defined.
Noted(r, e) == IF IsTransition(e) THEN Append(r, <<e.key, e.pressed>>) ELSE r
NotedStep == [p \in Seq(Pairs) \X Event |-> Noted(p[1], p[2])]
Picked(k, r, x) == IF x[1] = k THEN Append(r, x) ELSE r
PickedStep(k) == [p \in Seq(Pairs) \X Pairs |-> Picked(k, p[1], p[2])]
Matched(r, x) == IF r # <<>> /\ Head(r) = x THEN Tail(r) ELSE r
MatchedStep == [p \in Seq(Pairs) \X Pairs |-> Matched(p[1], p[2])]

LEMMA TransitionPair ==
  ASSUME NEW e \in Event, IsTransition(e)
  PROVE  e \in Item /\ <<e.key, e.pressed>> \in Pairs /\ e.key \notin Modifiers
  <1>1. e.key \in Keys \cup Buttons /\ e.pressed \in BOOLEAN
    BY DEF IsTransition, Event, NameEvents, ButtonEvents, MoveEvents, ScrollEvents, OtherEvents
  <1>. QED BY <1>1, InputAssumption DEF Item, Pairs, AllKeys

LEMMA NotedType ==
  ASSUME NEW r \in Seq(Pairs), NEW e \in Event
  PROVE  Noted(r, e) \in Seq(Pairs)
  <1> DEFINE x == <<e.key, e.pressed>>
  <1>1. IsTransition(e) => x \in Pairs
    BY TransitionPair
  <1>2. Noted(r, e) = IF IsTransition(e) THEN Append(r, x) ELSE r
    BY DEF Noted
  <1> HIDE DEF x
  <1>. QED BY <1>1, <1>2, AppendProperties

LEMMA PickedType ==
  ASSUME NEW k, NEW r \in Seq(Pairs), NEW x \in Pairs
  PROVE  Picked(k, r, x) \in Seq(Pairs)
  <1>1. Append(r, x) \in Seq(Pairs)
    BY AppendProperties
  <1>. QED BY <1>1 DEF Picked

LEMMA MatchedType ==
  ASSUME NEW r \in Seq(Pairs), NEW x \in Pairs
  PROVE  Matched(r, x) \in Seq(Pairs)
  <1>1. r # <<>> => Tail(r) \in Seq(Pairs)
    BY HeadTailProperties
  <1>. QED BY <1>1 DEF Matched

LEMMA NotedStepType == Maps(NotedStep, Seq(Pairs), Event)
  BY NotedType DEF NotedStep, Maps

LEMMA PickedStepType ==
  ASSUME NEW k
  PROVE  Maps(PickedStep(k), Seq(Pairs), Pairs)
  BY PickedType DEF PickedStep, Maps

LEMMA MatchedStepType == Maps(MatchedStep, Seq(Pairs), Pairs)
  BY MatchedType DEF MatchedStep, Maps

LEMMA NotedStepIs ==
  ASSUME NEW r \in Seq(Pairs), NEW e \in Event
  PROVE  Apply(NotedStep, r, e) = Noted(r, e)
  BY DEF NotedStep, Apply

LEMMA PickedStepIs ==
  ASSUME NEW k, NEW r \in Seq(Pairs), NEW x \in Pairs
  PROVE  Apply(PickedStep(k), r, x) = Picked(k, r, x)
  BY DEF PickedStep, Apply

LEMMA MatchedStepIs ==
  ASSUME NEW r \in Seq(Pairs), NEW x \in Pairs
  PROVE  Apply(MatchedStep, r, x) = Matched(r, x)
  BY DEF MatchedStep, Apply

LEMMA TransitionsIsRun ==
  ASSUME NEW s \in Seq(Event)
  PROVE  Transitions(s) = Run(NotedStep, <<>>, s)
  <1> DEFINE n == Len(s)
             b == <<>>
             fold(h) == [T \in SUBSET DOMAIN s |->
                            IF T = {} THEN b ELSE Noted(h[T \ {Max(T)}], s[Max(T)])]
             it == CHOOSE h : h = fold(h)
  <1>1. Transitions(s) = it[DOMAIN s]
    BY DEF FoldLeft, MapThenFoldSet, Transitions, Noted
  <1>2. DOMAIN s = 1 .. n
    BY LenProperties
  <1>0. b \in Seq(Pairs) /\ Maps(NotedStep, Seq(Pairs), Event)
    BY NotedStepType
  <1> HIDE DEF b
  <1>3. PICK h \in [SUBSET (1 .. n) -> Seq(Pairs)] : Solves(NotedStep, b, s, h)
    BY <1>0, FoldSolution DEF Maps
  <1>4. ASSUME NEW T \in SUBSET (1 .. n)
        PROVE  h[T] = IF T = {} THEN b ELSE Noted(h[T \ {Max(T)}], s[Max(T)])
    <2>1. h[T] = IF T = {} THEN b ELSE Apply(NotedStep, h[T \ {Max(T)}], s[Max(T)])
      BY <1>3 DEF Solves, Apply
    <2>2. T # {} => h[T \ {Max(T)}] \in Seq(Pairs) /\ s[Max(T)] \in Event
      BY <1>3, MaxOf
    <2>. QED BY <2>1, <2>2, NotedStepIs
  <1>5. h = fold(h)
    BY <1>2, <1>3, <1>4
  <1> HIDE DEF fold
  <1>6. it = fold(it)
    BY <1>5
  <1> HIDE DEF it
  <1>7. ASSUME NEW T \in SUBSET (1 .. n)
        PROVE  IF T = {} THEN it[T] = b
               ELSE it[T \ {Max(T)}] \in Seq(Pairs) =>
                       it[T] = Apply(NotedStep, it[T \ {Max(T)}], s[Max(T)])
    <2>1. it[T] = IF T = {} THEN b ELSE Noted(it[T \ {Max(T)}], s[Max(T)])
      BY <1>2, <1>6 DEF fold
    <2>2. T # {} => s[Max(T)] \in Event
      BY MaxOf
    <2>. QED BY <2>1, <2>2, NotedStepIs
  <1>8. Folds(NotedStep, Seq(Pairs), b, s, it)
    BY <1>7 DEF Folds
  <1>9. it[1 .. n] = Run(NotedStep, b, s)
    BY <1>0, <1>8, FoldIsRun
  <1>. QED BY <1>1, <1>2, <1>9 DEF b

LEMMA OfKeyIsRun ==
  ASSUME NEW k, NEW s \in Seq(Pairs)
  PROVE  OfKey(k, s) = Run(PickedStep(k), <<>>, s)
  <1> DEFINE n == Len(s)
             b == <<>>
             fold(h) == [T \in SUBSET DOMAIN s |->
                            IF T = {} THEN b ELSE Picked(k, h[T \ {Max(T)}], s[Max(T)])]
             it == CHOOSE h : h = fold(h)
  <1>1. OfKey(k, s) = it[DOMAIN s]
    BY DEF FoldLeft, MapThenFoldSet, OfKey, Picked
  <1>2. DOMAIN s = 1 .. n
    BY LenProperties
  <1>0. b \in Seq(Pairs) /\ Maps(PickedStep(k), Seq(Pairs), Pairs)
    BY PickedStepType
  <1> HIDE DEF b
  <1>3. PICK h \in [SUBSET (1 .. n) -> Seq(Pairs)] : Solves(PickedStep(k), b, s, h)
    BY <1>0, FoldSolution DEF Maps
  <1>4. ASSUME NEW T \in SUBSET (1 .. n)
        PROVE  h[T] = IF T = {} THEN b ELSE Picked(k, h[T \ {Max(T)}], s[Max(T)])
    <2>1. h[T] = IF T = {} THEN b ELSE Apply(PickedStep(k), h[T \ {Max(T)}], s[Max(T)])
      BY <1>3 DEF Solves, Apply
    <2>2. T # {} => h[T \ {Max(T)}] \in Seq(Pairs) /\ s[Max(T)] \in Pairs
      BY <1>3, MaxOf
    <2>. QED BY <2>1, <2>2, PickedStepIs
  <1>5. h = fold(h)
    BY <1>2, <1>3, <1>4
  <1> HIDE DEF fold
  <1>6. it = fold(it)
    BY <1>5
  <1> HIDE DEF it
  <1>7. ASSUME NEW T \in SUBSET (1 .. n)
        PROVE  IF T = {} THEN it[T] = b
               ELSE it[T \ {Max(T)}] \in Seq(Pairs) =>
                       it[T] = Apply(PickedStep(k), it[T \ {Max(T)}], s[Max(T)])
    <2>1. it[T] = IF T = {} THEN b ELSE Picked(k, it[T \ {Max(T)}], s[Max(T)])
      BY <1>2, <1>6 DEF fold
    <2>2. T # {} => s[Max(T)] \in Pairs
      BY MaxOf
    <2>. QED BY <2>1, <2>2, PickedStepIs
  <1>8. Folds(PickedStep(k), Seq(Pairs), b, s, it)
    BY <1>7 DEF Folds
  <1>9. it[1 .. n] = Run(PickedStep(k), b, s)
    BY <1>0, <1>8, FoldIsRun
  <1>. QED BY <1>1, <1>2, <1>9 DEF b

LEMMA UnmatchedIsRun ==
  ASSUME NEW r \in Seq(Pairs), NEW s \in Seq(Pairs)
  PROVE  Unmatched(r, s) = Run(MatchedStep, r, s)
  <1> DEFINE n == Len(s)
             b == r
             fold(h) == [T \in SUBSET DOMAIN s |->
                            IF T = {} THEN b ELSE Matched(h[T \ {Max(T)}], s[Max(T)])]
             it == CHOOSE h : h = fold(h)
  <1>1. Unmatched(r, s) = it[DOMAIN s]
    BY DEF FoldLeft, MapThenFoldSet, Unmatched, Matched
  <1>2. DOMAIN s = 1 .. n
    BY LenProperties
  <1>0. b \in Seq(Pairs) /\ Maps(MatchedStep, Seq(Pairs), Pairs)
    BY MatchedStepType
  <1> HIDE DEF b
  <1>3. PICK h \in [SUBSET (1 .. n) -> Seq(Pairs)] : Solves(MatchedStep, b, s, h)
    BY <1>0, FoldSolution DEF Maps
  <1>4. ASSUME NEW T \in SUBSET (1 .. n)
        PROVE  h[T] = IF T = {} THEN b ELSE Matched(h[T \ {Max(T)}], s[Max(T)])
    <2>1. h[T] = IF T = {} THEN b ELSE Apply(MatchedStep, h[T \ {Max(T)}], s[Max(T)])
      BY <1>3 DEF Solves, Apply
    <2>2. T # {} => h[T \ {Max(T)}] \in Seq(Pairs) /\ s[Max(T)] \in Pairs
      BY <1>3, MaxOf
    <2>. QED BY <2>1, <2>2, MatchedStepIs
  <1>5. h = fold(h)
    BY <1>2, <1>3, <1>4
  <1> HIDE DEF fold
  <1>6. it = fold(it)
    BY <1>5
  <1> HIDE DEF it
  <1>7. ASSUME NEW T \in SUBSET (1 .. n)
        PROVE  IF T = {} THEN it[T] = b
               ELSE it[T \ {Max(T)}] \in Seq(Pairs) =>
                       it[T] = Apply(MatchedStep, it[T \ {Max(T)}], s[Max(T)])
    <2>1. it[T] = IF T = {} THEN b ELSE Matched(it[T \ {Max(T)}], s[Max(T)])
      BY <1>2, <1>6 DEF fold
    <2>2. T # {} => s[Max(T)] \in Pairs
      BY MaxOf
    <2>. QED BY <2>1, <2>2, MatchedStepIs
  <1>8. Folds(MatchedStep, Seq(Pairs), b, s, it)
    BY <1>7 DEF Folds
  <1>9. it[1 .. n] = Run(MatchedStep, b, s)
    BY <1>0, <1>8, FoldIsRun
  <1>. QED BY <1>1, <1>2, <1>9 DEF b

LEMMA NothingTyped == <<>> \in Seq(Pairs) /\ <<>> \in Seq(Event) /\ <<>> \in Seq(Item)
  OBVIOUS

LEMMA TransitionsEmpty == Transitions(<<>>) = <<>>
  <1>1. Transitions(<<>>) = Run(NotedStep, <<>>, <<>>)
    BY NothingTyped, TransitionsIsRun, Zenon
  <1>. QED BY <1>1, RunEmpty, Zenon

LEMMA TransitionsAppend ==
  ASSUME NEW s \in Seq(Event), NEW e \in Event
  PROVE  /\ Transitions(s) \in Seq(Pairs)
         /\ Transitions(Append(s, e)) = Noted(Transitions(s), e)
  <1> DEFINE b == <<>>
             u == Append(s, e)
  <1>1. b \in Seq(Pairs) /\ u \in Seq(Event)
    BY AppendProperties
  <1>2. Transitions(s) = Run(NotedStep, b, s) /\ Transitions(u) = Run(NotedStep, b, u)
    BY <1>1, TransitionsIsRun
  <1> HIDE DEF b
  <1>3. Run(NotedStep, b, s) \in Seq(Pairs)
    BY <1>1, NotedStepType, RunType
  <1>4. Run(NotedStep, b, Append(s, e)) = Apply(NotedStep, Run(NotedStep, b, s), e)
    BY <1>1, NotedStepType, RunAppend
  <1> HIDE DEF u
  <1>. QED BY <1>2, <1>3, <1>4, NotedStepIs DEF u

LEMMA OfKeyEmpty ==
  ASSUME NEW k
  PROVE  OfKey(k, <<>>) = <<>>
  <1>1. OfKey(k, <<>>) = Run(PickedStep(k), <<>>, <<>>)
    BY NothingTyped, OfKeyIsRun, Zenon
  <1>. QED BY <1>1, RunEmpty, Zenon

LEMMA OfKeyType ==
  ASSUME NEW k, NEW s \in Seq(Pairs)
  PROVE  OfKey(k, s) \in Seq(Pairs)
  <1> DEFINE b == <<>>
  <1>1. b \in Seq(Pairs)
    OBVIOUS
  <1>2. OfKey(k, s) = Run(PickedStep(k), b, s)
    BY OfKeyIsRun
  <1> HIDE DEF b
  <1>. QED BY <1>1, <1>2, PickedStepType, RunType

LEMMA OfKeyAppend ==
  ASSUME NEW k, NEW s \in Seq(Pairs), NEW x \in Pairs
  PROVE  OfKey(k, Append(s, x)) = Picked(k, OfKey(k, s), x)
  <1> DEFINE b == <<>>
             u == Append(s, x)
  <1>1. b \in Seq(Pairs) /\ u \in Seq(Pairs)
    BY AppendProperties
  <1>2. OfKey(k, s) = Run(PickedStep(k), b, s) /\ OfKey(k, u) = Run(PickedStep(k), b, u)
    BY <1>1, OfKeyIsRun
  <1> HIDE DEF b
  <1>3. Run(PickedStep(k), b, s) \in Seq(Pairs)
    BY <1>1, PickedStepType, RunType
  <1>4. Run(PickedStep(k), b, Append(s, x)) = Apply(PickedStep(k), Run(PickedStep(k), b, s), x)
    BY <1>1, PickedStepType, RunAppend
  <1> HIDE DEF u
  <1>. QED BY <1>2, <1>3, <1>4, PickedStepIs DEF u

-----------------------------------------------------------------------------
(* Places in what the window was told. *)

\* A set of places that has all the later ones too; and those of them by which x has
\* been found in t after another of them.
Up == {q \in SUBSET Nat : \A m \in q : \A n \in Nat : m <= n => n \in q}
After(q, x, t) == {n \in Nat : \E m \in q : \E j \in 1 .. Len(t) : m < j /\ j <= n /\ t[j] = x}

LEMMA AfterIs ==
  ASSUME NEW q \in Up, NEW x, NEW t
  PROVE  After(q, x, t) \in Up /\ After(q, x, t) \subseteq q
  <1>1. After(q, x, t) \in SUBSET Nat
    BY DEF After
  <1>2. ASSUME NEW m \in After(q, x, t), NEW n \in Nat, m <= n
        PROVE  n \in After(q, x, t)
    <2>1. PICK l \in q : \E j \in 1 .. Len(t) : l < j /\ j <= m /\ t[j] = x
      BY DEF After
    <2>2. PICK j \in 1 .. Len(t) : l < j /\ j <= m /\ t[j] = x
      BY <2>1
    <2>3. j <= n
      BY <1>1, <1>2, <2>2
    <2>. QED BY <2>2, <2>3 DEF After
  <1>3. ASSUME NEW n \in After(q, x, t)
        PROVE  n \in q
    <2>1. n \in Nat /\ \E m \in q : \E j \in 1 .. Len(t) : m < j /\ j <= n
      BY DEF After
    <2>2. PICK m \in q, j \in 1 .. Len(t) : m < j /\ j <= n
      BY <2>1
    <2>3. m \in Nat /\ m <= n
      BY <2>1, <2>2 DEF Up
    <2>. QED BY <2>1, <2>3 DEF Up
  <1>. QED BY <1>1, <1>2, <1>3 DEF Up

\* All of t is at the beginning of u.
Begins(t, u) == \A j \in 1 .. Len(t) : j \in 1 .. Len(u) /\ u[j] = t[j]

LEMMA BeginsAppend ==
  ASSUME NEW t \in Seq(Pairs), NEW x \in Pairs
  PROVE  /\ Begins(t, t) /\ Begins(t, Append(t, x))
         /\ Len(Append(t, x)) = Len(t) + 1 /\ Append(t, x)[Len(t) + 1] = x /\ Len(t) \in Nat
         /\ Append(t, x) \in Seq(Pairs)
  BY AppendProperties, LenProperties DEF Begins

LEMMA AfterGrows ==
  ASSUME NEW q \in Up, NEW r \in Up, q \subseteq r, NEW x, NEW t, NEW u, Begins(t, u)
  PROVE  After(q, x, t) \subseteq After(r, x, u)
  BY DEF After, Begins

\* What was told last is found at the end.
LEMMA AfterLast ==
  ASSUME NEW q \in Up, NEW t \in Seq(Pairs), NEW x \in Pairs, Len(t) \in q
  PROVE  Len(t) + 1 \in After(q, x, Append(t, x))
  <1>1. /\ Len(Append(t, x)) = Len(t) + 1 /\ Append(t, x)[Len(t) + 1] = x /\ Len(t) \in Nat
    BY BeginsAppend
  <1>2. Len(t) + 1 \in 1 .. Len(Append(t, x)) /\ Len(t) < Len(t) + 1
    BY <1>1
  <1>. QED BY <1>1, <1>2 DEF After

\* Where the places are after all elements of s have been found in t.
FoundStep(t) == [p \in Up \X Pairs |-> After(p[1], p[2], t)]
Found(s, t) == Run(FoundStep(t), Nat, s)

LEMMA NatUp == Nat \in Up
  BY DEF Up

LEMMA FoundStepType ==
  ASSUME NEW t
  PROVE  Maps(FoundStep(t), Up, Pairs)
  BY AfterIs DEF FoundStep, Maps

LEMMA FoundStepIs ==
  ASSUME NEW t, NEW q \in Up, NEW x \in Pairs
  PROVE  Apply(FoundStep(t), q, x) = After(q, x, t)
  BY DEF FoundStep, Apply

LEMMA FoundType ==
  ASSUME NEW t, NEW s \in Seq(Pairs)
  PROVE  Found(s, t) \in Up
  BY FoundStepType, NatUp, RunType DEF Found

LEMMA FoundAppend ==
  ASSUME NEW t, NEW s \in Seq(Pairs), NEW x \in Pairs
  PROVE  Found(Append(s, x), t) = After(Found(s, t), x, t)
  <1>1. Run(FoundStep(t), Nat, Append(s, x)) = Apply(FoundStep(t), Run(FoundStep(t), Nat, s), x)
    BY FoundStepType, NatUp, RunAppend
  <1>. QED BY <1>1, FoundType, FoundStepIs DEF Found

LEMMA MatchedIs ==
  ASSUME NEW r \in Seq(Pairs), NEW x \in Pairs
  PROVE  LET m == Matched(r, x)
         IN  /\ m \in Seq(Pairs) /\ Len(m) \in Nat /\ Len(r) \in Nat /\ Len(m) <= Len(r)
             /\ Len(r) > 0 /\ r[1] = x => Len(m) < Len(r)
             /\ \A i \in 1 .. Len(m) : m[i] = r[Len(r) - Len(m) + i]
  <1> DEFINE m == Matched(r, x)
  <1>1. m \in Seq(Pairs) /\ Len(m) \in Nat /\ Len(r) \in Nat
    BY MatchedType, LenProperties
  <1>2. CASE r # <<>> /\ Head(r) = x
    <2>1. /\ m = Tail(r) /\ Len(Tail(r)) = Len(r) - 1
          /\ \A i \in 1 .. Len(Tail(r)) : Tail(r)[i] = r[i + 1]
      BY <1>2, HeadTailProperties DEF Matched
    <2> HIDE DEF m
    <2>2. Len(m) = Len(r) - 1 /\ \A i \in 1 .. Len(m) : m[i] = r[i + 1]
      BY <2>1
    <2>3. \A i \in 1 .. Len(m) : Len(r) - Len(m) + i = i + 1
      BY <1>1, <2>2
    <2>. QED BY <1>1, <2>2, <2>3 DEF m
  <1>3. CASE ~ (r # <<>> /\ Head(r) = x)
    <2>1. m = r
      BY <1>3 DEF Matched
    <2>2. ~ (Len(r) > 0 /\ r[1] = x)
      <3>1. Len(r) > 0 => r # <<>> /\ Head(r) = r[1]
        BY EmptySeq, HeadTailProperties
      <3>. QED BY <1>3, <3>1
    <2>3. \A i \in 1 .. Len(r) : Len(r) - Len(r) + i = i
      BY <1>1
    <2> HIDE DEF m
    <2>. QED BY <1>1, <2>1, <2>2, <2>3 DEF m
  <1>. QED BY <1>2, <1>3

\* What can be found in t in that order, the search that takes each element at the first
\* place it can finds too.
LEMMA SearchFinds ==
  ASSUME NEW s \in Seq(Pairs), NEW t \in Seq(Pairs), Len(t) \in Found(s, t)
  PROVE  Unmatched(s, t) = <<>>
  <1> DEFINE n == Len(s)
             l == Len(t)
  <1>1. n \in Nat /\ l \in Nat /\ (\A i \in 1 .. n : s[i] \in Pairs) /\ (\A j \in 1 .. l : t[j] \in Pairs)
    BY LenProperties, ElementOfSeq
  <1>2. PICK g \in [0 .. l -> Seq(Pairs)] : Steps(MatchedStep, s, t, g)
    BY MatchedStepType, StepsExist
  <1>3. PICK r \in [0 .. n -> Up] : Steps(FoundStep(t), Nat, s, r)
    BY FoundStepType, NatUp, StepsExist
  <1>4. Unmatched(s, t) = g[l]
    BY <1>1, <1>2, RunIs, UnmatchedIsRun
  <1>5. Found(s, t) = r[n]
    BY <1>1, <1>3, RunIs DEF Found
  <1> DEFINE left(j) == Len(g[j])
  <1>6. g[0] = s /\ \A j \in 0 .. l - 1 : g[j + 1] = Matched(g[j], t[j + 1])
    <2>1. ASSUME NEW j \in 0 .. l - 1
          PROVE  g[j + 1] = Matched(g[j], t[j + 1])
      <3>1. j + 1 \in 1 .. l /\ j + 1 - 1 = j /\ j \in 0 .. l
        BY <1>1
      <3>2. g[j + 1] = Apply(MatchedStep, g[j], t[j + 1])
        BY <1>2, <3>1 DEF Steps, Apply
      <3>3. g[j] \in Seq(Pairs) /\ t[j + 1] \in Pairs
        <4>1. g[j] \in Seq(Pairs)
          BY <1>2, <3>1
        <4>. QED BY <1>1, <3>1, <4>1
      <3>. QED BY <3>2, <3>3, MatchedStepIs
    <2>. QED BY <1>2, <2>1 DEF Steps
  <1>7. r[0] = Nat /\ \A i \in 0 .. n - 1 : r[i + 1] = After(r[i], s[i + 1], t)
    <2>1. ASSUME NEW i \in 0 .. n - 1
          PROVE  r[i + 1] = After(r[i], s[i + 1], t)
      <3>1. i + 1 \in 1 .. n /\ i + 1 - 1 = i /\ i \in 0 .. n
        BY <1>1
      <3>2. r[i + 1] = Apply(FoundStep(t), r[i], s[i + 1])
        BY <1>3, <3>1 DEF Steps, Apply
      <3>3. r[i] \in Up /\ s[i + 1] \in Pairs
        <4>1. r[i] \in Up
          BY <1>3, <3>1
        <4>. QED BY <1>1, <3>1, <4>1
      <3>. QED BY <3>2, <3>3, FoundStepIs
    <2>. QED BY <1>3, <2>1 DEF Steps
  <1> HIDE DEF n, l
  <1>8. ASSUME NEW j \in 0 .. l - 1
        PROVE  /\ left(j + 1) \in Nat /\ left(j) \in Nat /\ left(j + 1) <= left(j)
               /\ left(j) > 0 /\ g[j][1] = t[j + 1] => left(j + 1) < left(j)
               /\ \A i \in 1 .. left(j + 1) : g[j + 1][i] = g[j][left(j) - left(j + 1) + i]
    <2> DEFINE a == g[j]
               x == t[j + 1]
    <2>1. g[j + 1] = Matched(a, x) /\ a \in Seq(Pairs) /\ x \in Pairs
      <3>1. j \in 0 .. l /\ j + 1 \in 1 .. l
        BY <1>1
      <3>2. a \in Seq(Pairs)
        BY <1>2, <3>1
      <3>. QED BY <1>1, <1>6, <3>1, <3>2
    <2> HIDE DEF a, x
    <2>2. /\ Len(Matched(a, x)) \in Nat /\ Len(a) \in Nat /\ Len(Matched(a, x)) <= Len(a)
          /\ Len(a) > 0 /\ a[1] = x => Len(Matched(a, x)) < Len(a)
          /\ \A i \in 1 .. Len(Matched(a, x)) : Matched(a, x)[i] = a[Len(a) - Len(Matched(a, x)) + i]
      BY <2>1, MatchedIs
    <2>. QED BY <2>1, <2>2 DEF a, x
  \* What is left is the end of s.
  <1>9. \A j \in 0 .. l : /\ left(j) \in Nat /\ left(j) <= n
                          /\ \A i \in 1 .. left(j) : g[j][i] = s[n - left(j) + i]
    <2> DEFINE T == {j \in 0 .. l : /\ left(j) \in Nat /\ left(j) <= n
                                    /\ \A i \in 1 .. left(j) : g[j][i] = s[n - left(j) + i]}
    <2>1. 0 \in T
      <3>1. g[0] = s /\ left(0) = n
        BY <1>6 DEF n
      <3>2. \A i \in 1 .. n : n - n + i = i
        BY <1>1
      <3>. QED BY <1>1, <3>1, <3>2
    <2>2. ASSUME NEW j \in 0 .. l - 1, j \in T
          PROVE  j + 1 \in T
      <3> DEFINE y == left(j)
                 z == left(j + 1)
      <3>1. j + 1 \in 0 .. l
        BY <1>1
      <3>2. /\ z \in Nat /\ y \in Nat /\ z <= y
            /\ \A i \in 1 .. z : g[j + 1][i] = g[j][y - z + i]
        <4> HIDE DEF left
        <4>. QED BY <1>8
      <3>3. y <= n /\ \A i \in 1 .. y : g[j][i] = s[n - y + i]
        BY <2>2
      <3> HIDE DEF y, z
      <3>4. ASSUME NEW i \in 1 .. z
            PROVE  g[j + 1][i] = s[n - z + i]
        <4>1. y - z + i \in 1 .. y /\ n - y + (y - z + i) = n - z + i
          BY <1>1, <3>2
        <4>. QED BY <3>2, <3>3, <4>1
      <3>5. z <= n
        BY <1>1, <3>2, <3>3
      <3>. QED BY <3>1, <3>2, <3>4, <3>5 DEF z
    <2>3. \A j \in 0 .. l : j \in T
      <3> HIDE DEF T
      <3>. QED BY <1>1, <2>1, <2>2, Induct
    <2>. QED BY <2>3
  <1> HIDE DEF left
  <1>10. \A k \in 0 .. l : \A m \in 0 .. k : left(k) <= left(m)
    <2> DEFINE T == {k \in 0 .. l : \A m \in 0 .. k : left(k) <= left(m)}
    <2>1. 0 \in T
      BY <1>1, <1>9
    <2>2. ASSUME NEW k \in 0 .. l - 1, k \in T
          PROVE  k + 1 \in T
      <3>1. k + 1 \in 0 .. l /\ \A m \in 0 .. k + 1 : m \in 0 .. k \/ m = k + 1
        BY <1>1
      <3>2. left(k + 1) \in Nat /\ left(k) \in Nat /\ left(k + 1) <= left(k)
        BY <1>8
      <3>3. ASSUME NEW m \in 0 .. k
            PROVE  left(k + 1) <= left(m)
        <4>1. left(m) \in Nat /\ left(k) <= left(m)
          BY <1>1, <1>9, <2>2
        <4>. QED BY <3>2, <4>1
      <3>. QED BY <1>1, <3>1, <3>2, <3>3
    <2>3. \A k \in 0 .. l : k \in T
      <3> HIDE DEF T
      <3>. QED BY <1>1, <2>1, <2>2, Induct
    <2>. QED BY <2>3
  <1>11. \A i \in 0 .. n : r[i] \in SUBSET Nat
    BY <1>3 DEF Up
  \* The search is never behind.
  <1>12. \A i \in 0 .. n : \A k \in r[i] : k <= l => left(k) <= n - i
    <2> DEFINE T == {i \in 0 .. n : \A k \in r[i] : k <= l => left(k) <= n - i}
    <2>1. 0 \in T
      <3>1. \A k \in Nat : k <= l => left(k) <= n - 0
        <4> SUFFICES ASSUME NEW k \in Nat, k <= l PROVE left(k) <= n - 0
          OBVIOUS
        <4>1. k \in 0 .. l
          BY <1>1
        <4>2. left(k) \in Nat /\ left(k) <= n
          BY <1>9, <4>1
        <4>. QED BY <1>1, <4>2
      <3>. QED BY <1>1, <1>7, <3>1
    <2>2. ASSUME NEW i \in 0 .. n - 1, i \in T
          PROVE  i + 1 \in T
      <3>1. i + 1 \in 0 .. n /\ i \in 0 .. n
        BY <1>1
      <3>2. r[i + 1] = After(r[i], s[i + 1], t)
        BY <1>7
      <3>3. ASSUME NEW k \in r[i + 1], k <= l
            PROVE  left(k) <= n - (i + 1)
        <4>1. k \in Nat /\ \E m \in r[i] : \E j \in 1 .. l : m < j /\ j <= k /\ t[j] = s[i + 1]
          BY <3>2 DEF After, l
        <4>2. PICK m \in r[i] : \E j \in 1 .. l : m < j /\ j <= k /\ t[j] = s[i + 1]
          BY <4>1
        <4>3. PICK j \in 1 .. l : m < j /\ j <= k /\ t[j] = s[i + 1]
          BY <4>2
        <4>4. m \in Nat
          BY <1>11, <3>1
        <4> DEFINE h == j - 1
        <4>5. h \in 0 .. l - 1 /\ j = h + 1
          BY <1>1
        <4>6. m \in 0 .. h /\ h \in 0 .. l /\ m <= l /\ m \in 0 .. l
          BY <1>1, <4>3, <4>4
        <4>7. k \in 0 .. l /\ j \in 0 .. k /\ j \in 0 .. l
          BY <1>1, <3>3, <4>1, <4>3
        <4> HIDE DEF h
        <4>8. left(m) <= n - i
          BY <2>2, <4>6
        <4>9. left(h) <= left(m) /\ left(k) <= left(j)
          BY <1>10, <4>6, <4>7
        <4>10. left(m) \in Nat /\ left(h) \in Nat /\ left(j) \in Nat /\ left(k) \in Nat
          BY <1>9, <4>6, <4>7
        <4>11. left(j) <= left(h) /\ (left(h) > 0 /\ g[h][1] = t[j] => left(j) < left(h))
          BY <1>8, <4>5
        <4>12. i \in Nat /\ i < n /\ n \in Nat
          BY <1>1
        <4>13. CASE left(h) = n - i
          <5>1. left(h) > 0 /\ 1 \in 1 .. left(h) /\ n - left(h) + 1 = i + 1
            BY <4>12, <4>13
          <5>2. g[h][1] = s[i + 1]
            BY <1>9, <4>6, <5>1
          <5>3. left(j) < left(h)
            BY <4>3, <4>11, <5>1, <5>2
          <5>. QED BY <4>9, <4>10, <4>12, <4>13, <5>3
        <4>14. CASE left(h) < n - i
          BY <4>9, <4>10, <4>11, <4>12, <4>14
        <4>15. left(h) <= n - i
          BY <4>8, <4>9, <4>10, <4>12
        <4>16. left(h) = n - i \/ left(h) < n - i
          <5> DEFINE a == left(h)
                     b == n - i
          <5>1. a \in Int /\ b \in Int /\ a <= b
            BY <4>10, <4>12, <4>15
          <5> HIDE DEF a, b
          <5>2. a = b \/ a < b
            BY <5>1
          <5>. QED BY <5>2 DEF a, b
        <4>. QED BY <4>13, <4>14, <4>16
      <3>. QED BY <1>1, <3>1, <3>3
    <2>3. \A i \in 0 .. n : i \in T
      <3> HIDE DEF T
      <3>. QED BY <1>1, <2>1, <2>2, Induct
    <2>. QED BY <2>3
  <1>13. l \in r[n]
    BY <1>5 DEF l
  <1>14. left(l) = 0
    <2>1. left(l) \in Nat /\ left(l) <= n - n
      BY <1>1, <1>9, <1>12, <1>13
    <2>. QED BY <1>1, <2>1
  <1>. QED BY <1>1, <1>2, <1>4, <1>14, EmptySeq DEF left

\* Runs over places, of which the second starts with more of them and loses fewer.
LEMMA RunGrows ==
  ASSUME NEW E, NEW f, NEW g, Maps(f, Up, E), Maps(g, Up, E), NEW q \in Up, NEW r \in Up, q \subseteq r,
         \A e \in E : \A a \in Up : \A b \in Up : a \subseteq b => Apply(f, a, e) \subseteq Apply(g, b, e)
  PROVE  \A s \in Seq(E) : Run(f, q, s) \subseteq Run(g, r, s)
  <1> DEFINE P == {s \in Seq(E) : Run(f, q, s) \subseteq Run(g, r, s)}
  <1>1. <<>> \in P
    <2>1. Run(f, q, <<>>) = q /\ Run(g, r, <<>>) = r
      BY RunEmpty
    <2>2. <<>> \in Seq(E)
      OBVIOUS
    <2>. QED BY <2>1, <2>2
  <1>2. ASSUME NEW s \in Seq(E), NEW e \in E, s \in P
        PROVE  Append(s, e) \in P
    <2> DEFINE u == Append(s, e)
    <2>1. u \in Seq(E)
      BY AppendProperties
    <2>2. Run(f, q, s) \subseteq Run(g, r, s)
      BY <1>2
    <2> HIDE DEF P
    <2>3. Run(f, q, s) \in Up /\ Run(g, r, s) \in Up
      BY RunType
    <2>4. Run(f, q, u) = Apply(f, Run(f, q, s), e) /\ Run(g, r, u) = Apply(g, Run(g, r, s), e)
      BY RunAppend
    <2>5. Run(f, q, u) \subseteq Run(g, r, u)
      BY <2>2, <2>3, <2>4
    <2> HIDE DEF u
    <2>. QED BY <2>1, <2>5 DEF P, u
  <1>3. \A s \in Seq(E) : s \in P
    <2> HIDE DEF P
    <2>. QED BY <1>1, <1>2, SeqInduct
  <1>. QED BY <1>3

\* A run that changes nothing.
LEMMA RunSame ==
  ASSUME NEW A, NEW E, NEW f, Maps(f, A, E), NEW a \in A, NEW D \in SUBSET E,
         \A e \in D : Apply(f, a, e) = a
  PROVE  \A s \in Seq(D) : Run(f, a, s) = a
  <1> DEFINE P == {s \in Seq(D) : Run(f, a, s) = a}
  <1>1. <<>> \in P
    <2>1. Run(f, a, <<>>) = a
      BY RunEmpty
    <2>2. <<>> \in Seq(D)
      OBVIOUS
    <2>. QED BY <2>1, <2>2
  <1>2. ASSUME NEW s \in Seq(D), NEW e \in D, s \in P
        PROVE  Append(s, e) \in P
    <2> DEFINE u == Append(s, e)
    <2>1. u \in Seq(D) /\ s \in Seq(E) /\ e \in E
      BY AppendProperties
    <2>2. Run(f, a, s) = a
      BY <1>2
    <2> HIDE DEF P
    <2>3. Run(f, a, u) = Apply(f, Run(f, a, s), e)
      BY <2>1, RunAppend
    <2>4. Run(f, a, u) = a
      BY <2>2, <2>3
    <2> HIDE DEF u
    <2>. QED BY <2>1, <2>4 DEF P, u
  <1>3. \A s \in Seq(D) : s \in P
    <2> HIDE DEF P
    <2>. QED BY <1>1, <1>2, SeqInduct
  <1>. QED BY <1>3

-----------------------------------------------------------------------------
(* What commands and events look for in what the window was told. *)

\* Where the places are after a command, or an event were it a command, as far as it
\* is about key k.
Seeks(q, c, k, t) == IF Acts(c) /\ c.key = k THEN After(q, <<k, c.pressed>>, t) ELSE q
SeekStep(k, t) == [p \in Up \X Item |-> Seeks(p[1], p[2], k, t)]
Seek(k, t, q, s) == Run(SeekStep(k, t), q, s)

LEMMA SeeksIs ==
  ASSUME NEW q \in Up, NEW c, NEW k, NEW t
  PROVE  Seeks(q, c, k, t) \in Up /\ Seeks(q, c, k, t) \subseteq q
  BY AfterIs DEF Seeks

LEMMA SeeksGrows ==
  ASSUME NEW q \in Up, NEW r \in Up, q \subseteq r, NEW c, NEW k, NEW t, NEW u, Begins(t, u)
  PROVE  Seeks(q, c, k, t) \subseteq Seeks(r, c, k, u)
  BY AfterGrows DEF Seeks

LEMMA SeekStepType ==
  ASSUME NEW k, NEW t
  PROVE  Maps(SeekStep(k, t), Up, Item)
  BY SeeksIs DEF SeekStep, Maps

LEMMA SeekStepIs ==
  ASSUME NEW k, NEW t, NEW q \in Up, NEW c \in Item
  PROVE  Apply(SeekStep(k, t), q, c) = Seeks(q, c, k, t)
  BY DEF SeekStep, Apply

LEMMA SeekType ==
  ASSUME NEW k, NEW t, NEW q \in Up, NEW s \in Seq(Item)
  PROVE  Seek(k, t, q, s) \in Up
  BY SeekStepType, RunType DEF Seek

LEMMA SeekEmpty ==
  ASSUME NEW k, NEW t, NEW q
  PROVE  Seek(k, t, q, <<>>) = q
  BY RunEmpty DEF Seek

LEMMA SeekAppend ==
  ASSUME NEW k, NEW t, NEW q \in Up, NEW s \in Seq(Item), NEW c \in Item
  PROVE  Seek(k, t, q, Append(s, c)) = Seeks(Seek(k, t, q, s), c, k, t)
  <1>1. Run(SeekStep(k, t), q, Append(s, c)) = Apply(SeekStep(k, t), Run(SeekStep(k, t), q, s), c)
    BY SeekStepType, RunAppend
  <1>. QED BY <1>1, SeekType, SeekStepIs DEF Seek

LEMMA SeekHead ==
  ASSUME NEW k, NEW t, NEW q \in Up, NEW s \in Seq(Item), s # <<>>
  PROVE  Seek(k, t, q, s) = Seek(k, t, Seeks(q, Head(s), k, t), Tail(s))
  <1>1. Head(s) \in Item
    BY HeadTailProperties
  <1>2. Run(SeekStep(k, t), q, s) = Run(SeekStep(k, t), Apply(SeekStep(k, t), q, Head(s)), Tail(s))
    BY SeekStepType, RunHead
  <1>. QED BY <1>1, <1>2, SeekStepIs DEF Seek

LEMMA SeekConcat ==
  ASSUME NEW k, NEW t, NEW q \in Up, NEW s \in Seq(Item), NEW u \in Seq(Item)
  PROVE  Seek(k, t, q, s \o u) = Seek(k, t, Seek(k, t, q, s), u)
  BY SeekStepType, RunConcat DEF Seek

LEMMA SeekOne ==
  ASSUME NEW k, NEW t, NEW q \in Up, NEW c \in Item
  PROVE  Seek(k, t, q, <<c>>) = Seeks(q, c, k, t)
  <1>1. Run(SeekStep(k, t), q, <<c>>) = Apply(SeekStep(k, t), q, c)
    BY SeekStepType, RunOne
  <1>. QED BY <1>1, SeekStepIs DEF Seek

LEMMA SeekGrows ==
  ASSUME NEW k, NEW t, NEW u, Begins(t, u), NEW q \in Up, NEW r \in Up, q \subseteq r, NEW s \in Seq(Item)
  PROVE  Seek(k, t, q, s) \subseteq Seek(k, u, r, s)
  <1>1. \A e \in Item : \A a \in Up : \A b \in Up :
           a \subseteq b => Apply(SeekStep(k, t), a, e) \subseteq Apply(SeekStep(k, u), b, e)
    BY SeeksGrows, SeekStepIs
  <1>2. Maps(SeekStep(k, t), Up, Item) /\ Maps(SeekStep(k, u), Up, Item)
    BY SeekStepType
  <1>. QED BY <1>1, <1>2, RunGrows DEF Seek

\* What is looked for before makes the places no more.
LEMMA SeekStays ==
  ASSUME NEW k, NEW t, NEW q \in Up
  PROVE  \A s \in Seq(Item) : Seek(k, t, q, s) \subseteq q
  <1> DEFINE P == {s \in Seq(Item) : Seek(k, t, q, s) \subseteq q}
  <1>1. <<>> \in P
    BY SeekEmpty, NothingTyped
  <1>2. ASSUME NEW s \in Seq(Item), NEW e \in Item, s \in P
        PROVE  Append(s, e) \in P
    <2> DEFINE u == Append(s, e)
    <2>1. u \in Seq(Item) /\ Seek(k, t, q, s) \subseteq q
      BY <1>2, AppendProperties
    <2> HIDE DEF P
    <2>2. Seek(k, t, q, u) = Seeks(Seek(k, t, q, s), e, k, t) /\ Seek(k, t, q, s) \in Up
      BY SeekAppend, SeekType
    <2>3. Seek(k, t, q, u) \subseteq q
      BY <2>1, <2>2, SeeksIs
    <2> HIDE DEF u
    <2>. QED BY <2>1, <2>3 DEF P, u
  <1>3. \A s \in Seq(Item) : s \in P
    <2> HIDE DEF P
    <2>. QED BY <1>1, <1>2, SeqInduct
  <1>. QED BY <1>3

\* Items that are not about the key.
LEMMA SeekOther ==
  ASSUME NEW k, NEW t, NEW q \in Up, NEW D \in SUBSET Item, \A c \in D : ~ (Acts(c) /\ c.key = k)
  PROVE  \A s \in Seq(D) : Seek(k, t, q, s) = q
  <1>1. \A c \in D : Apply(SeekStep(k, t), q, c) = q
    <2> SUFFICES ASSUME NEW c \in D PROVE Apply(SeekStep(k, t), q, c) = q
      OBVIOUS
    <2>1. Seeks(q, c, k, t) = q
      BY DEF Seeks
    <2>. QED BY <2>1, SeekStepIs
  <1>. QED BY <1>1, SeekStepType, RunSame DEF Seek

\* The events are not about modifiers.
LEMMA SeekModifier ==
  ASSUME NEW k \in Modifiers, NEW t, NEW q \in Up, NEW s \in Seq(Event)
  PROVE  Seek(k, t, q, s) = q
  <1>1. ASSUME NEW e \in Event
        PROVE  ~ (Acts(e) /\ e.key = k)
    <2>1. e.type # "key"
      BY DEF Event, NameEvents, ButtonEvents, MoveEvents, ScrollEvents, OtherEvents
    <2>. QED BY <2>1, TransitionPair DEF Acts
  <1>2. Event \in SUBSET Item
    BY DEF Item
  <1>. QED BY <1>1, <1>2, SeekOther

\* An event that has just been told is found, and so is all that was found before.
LEMMA SeekLast ==
  ASSUME NEW k, NEW t \in Seq(Pairs), NEW q \in Up, NEW r \in Up, q \subseteq r, NEW s \in Seq(Item),
         NEW c \in Item, Acts(c), <<c.key, c.pressed>> \in Pairs, Len(t) \in Seek(k, t, q, s)
  PROVE  Len(t) + 1 \in Seek(k, Append(t, <<c.key, c.pressed>>), r, Append(s, c))
  <1> DEFINE x == <<c.key, c.pressed>>
             u == Append(t, x)
             y == Seek(k, u, r, s)
  <1>1. x \in Pairs
    OBVIOUS
  <1> HIDE DEF x
  <1>2. Begins(t, u) /\ Len(t) \in Nat
    BY <1>1, BeginsAppend
  <1>3. y \in Up
    BY SeekType
  <1>4. Len(t) \in y
    <2> HIDE DEF u
    <2>. QED BY <1>2, SeekGrows
  <1>5. Seek(k, u, r, Append(s, c)) = Seeks(y, c, k, u)
    <2> HIDE DEF u
    <2>. QED BY SeekAppend
  <1>6. CASE c.key = k
    <2>1. Seeks(y, c, k, u) = After(y, x, u)
      BY <1>6 DEF Seeks, x
    <2>2. Len(t) + 1 \in After(y, x, u)
      <3> HIDE DEF y
      <3>. QED BY <1>1, <1>3, <1>4, AfterLast
    <2>. QED BY <1>5, <2>1, <2>2 DEF x
  <1>7. CASE c.key # k
    <2>1. Seeks(y, c, k, u) = y
      BY <1>7 DEF Seeks
    <2>2. Len(t) + 1 \in y
      <3> HIDE DEF y
      <3>1. Len(t) + 1 \in Nat /\ Len(t) <= Len(t) + 1
        BY <1>2
      <3>. QED BY <1>3, <1>4, <3>1 DEF Up
    <2>. QED BY <1>5, <2>1, <2>2 DEF x
  <1>. QED BY <1>6, <1>7

\* The places in what the window was told after what the host has done to key k, after the
\* commands on their way too, after the events too, and after the command that the next
\* repaint sends of k, if it is a modifier.
KeyDone(k) == Found(OfKey(k, injected), told)
KeySent(k) == Seek(k, told, KeyDone(k), commands)
KeySeen(k) == IF connected THEN Seek(k, told, KeySent(k), events) ELSE KeySent(k)
KeyNext(k) ==
    IF connected /\ k \in Changed THEN After(KeySeen(k), <<k, k \in held>>, told) ELSE KeySeen(k)

\* In the first session all of that can be found, in that order, in what the window was told.
OrderInv ==
    /\ told \in Seq(Pairs) /\ injected \in Seq(Pairs)
    /\ sessions = 0 => ~ connected /\ commands = <<>> /\ last_modifiers = {} /\ injected = <<>>
    /\ sessions = 1 => \A k \in AllKeys : Len(told) \in KeyNext(k)

LEMMA KeyTypes ==
  ASSUME IType, OrderInv, NEW k
  PROVE  /\ KeyDone(k) \in Up /\ KeySent(k) \in Up /\ KeySeen(k) \in Up /\ KeyNext(k) \in Up
         /\ KeyNext(k) \subseteq KeySeen(k) /\ KeySeen(k) \subseteq KeySent(k)
         /\ commands \in Seq(Item) /\ events \in Seq(Item) /\ Len(told) \in Nat
  <1>1. commands \in Seq(Item) /\ events \in Seq(Item)
    BY AimTypes
  <1>2. KeyDone(k) \in Up
    BY OfKeyType, FoundType DEF KeyDone, OrderInv
  <1>3. KeySent(k) \in Up
    BY <1>1, <1>2, SeekType DEF KeySent
  <1>4. KeySeen(k) \in Up /\ KeySeen(k) \subseteq KeySent(k)
    BY <1>1, <1>3, SeekType, SeekStays DEF KeySeen
  <1>5. KeyNext(k) \in Up /\ KeyNext(k) \subseteq KeySeen(k)
    BY <1>4, AfterIs DEF KeyNext
  <1>. QED BY <1>1, <1>2, <1>3, <1>4, <1>5, LenProperties DEF OrderInv

LEMMA ChangedType ==
  ASSUME IType
  PROVE  Changed \subseteq Modifiers /\ last_modifiers \subseteq Modifiers
  BY DEF IType, TypeOK, Changed, SymDiff

LEMMA OrderInit == Init => OrderInv
  BY NothingTyped DEF Init, OrderInv

LEMMA OrderStutter ==
  ASSUME IType, OrderInv,
         UNCHANGED <<told, injected, sessions, connected, commands, last_modifiers>>,
         connected => events' = events,
         held' \cap Modifiers = held \cap Modifiers
  PROVE  OrderInv'
  <1>1. Changed' = Changed
    BY DEF Changed
  <1>2. \A k \in Changed : (k \in held') = (k \in held)
    BY ChangedType
  <1>3. ASSUME NEW k
        PROVE  KeyNext(k)' = KeyNext(k)
    <2>1. KeyDone(k)' = KeyDone(k)
      BY DEF KeyDone
    <2>2. KeySent(k)' = KeySent(k)
      BY <2>1 DEF KeySent
    <2>3. KeySeen(k)' = KeySeen(k)
      BY <2>2 DEF KeySeen
    <2>. QED BY <1>1, <1>2, <2>3 DEF KeyNext
  <1>. QED BY <1>3 DEF OrderInv

LEMMA FoundGrows ==
  ASSUME NEW s \in Seq(Pairs), NEW t, NEW u, Begins(t, u)
  PROVE  Found(s, t) \subseteq Found(s, u)
  <1>1. \A e \in Pairs : \A a \in Up : \A b \in Up :
           a \subseteq b => Apply(FoundStep(t), a, e) \subseteq Apply(FoundStep(u), b, e)
    BY AfterGrows, FoundStepIs
  <1>2. Maps(FoundStep(t), Up, Pairs) /\ Maps(FoundStep(u), Up, Pairs)
    BY FoundStepType
  <1>. QED BY <1>1, <1>2, NatUp, RunGrows DEF Found

\* The window has been told more.
LEMMA KeyGrows ==
  ASSUME IType, OrderInv, told' \in Seq(Pairs), Begins(told, told'),
         UNCHANGED <<injected, commands>>, NEW k
  PROVE  /\ KeySent(k)' \in Up /\ KeySent(k) \subseteq KeySent(k)'
         /\ events' = events /\ connected' = connected =>
               KeySeen(k)' \in Up /\ KeySeen(k) \subseteq KeySeen(k)'
  <1>1. KeyDone(k)' \in Up /\ KeyDone(k) \subseteq KeyDone(k)'
    <2>1. OfKey(k, injected) \in Seq(Pairs) /\ injected' = injected
      BY OfKeyType DEF OrderInv
    <2>. QED BY <2>1, FoundType, FoundGrows DEF KeyDone
  <1>2. KeySent(k)' \in Up /\ KeySent(k) \subseteq KeySent(k)'
    BY <1>1, KeyTypes, SeekType, SeekGrows DEF KeySent
  <1>3. ASSUME events' = events, connected' = connected
        PROVE  KeySeen(k)' \in Up /\ KeySeen(k) \subseteq KeySeen(k)'
    <2>1. connected => KeySeen(k) = Seek(k, told, KeySent(k), events)
                       /\ KeySeen(k)' = Seek(k, told', KeySent(k)', events)
      BY <1>3 DEF KeySeen
    <2>2. ~ connected => KeySeen(k) = KeySent(k) /\ KeySeen(k)' = KeySent(k)'
      BY <1>3 DEF KeySeen
    <2>3. events \in Seq(Item) /\ KeySent(k) \in Up
      BY KeyTypes
    <2>. QED BY <1>2, <2>1, <2>2, <2>3, SeekType, SeekGrows
  <1>. QED BY <1>2, <1>3

\* What the next repaint sends of a modifier that has not changed.
LEMMA NextGrows ==
  ASSUME IType, OrderInv, told' \in Seq(Pairs), Begins(told, told'), Len(told) <= Len(told'),
         NEW k, k \in Changed, connected, connected', k \in Changed', (k \in held') = (k \in held),
         Len(told) \in KeyNext(k), KeySeen(k)' \in Up, KeySeen(k) \subseteq KeySeen(k)'
  PROVE  Len(told') \in KeyNext(k)'
  <1> DEFINE x == <<k, k \in held>>
  <1>1. KeyNext(k) = After(KeySeen(k), x, told) /\ KeyNext(k)' = After(KeySeen(k)', x, told')
    BY DEF KeyNext
  <1> HIDE DEF x
  <1>2. KeySeen(k) \in Up
    BY KeyTypes
  <1>3. Len(told) \in KeyNext(k)'
    BY <1>1, <1>2, AfterGrows
  <1>4. KeyNext(k)' \in Up
    BY <1>1, AfterIs
  <1>5. Len(told') \in Nat
    BY LenProperties
  <1>. QED BY <1>3, <1>4, <1>5 DEF Up

LEMMA ChangedSame ==
  ASSUME IType, UNCHANGED last_modifiers, held' \cap Modifiers = held \cap Modifiers
  PROVE  Changed' = Changed /\ \A k \in Changed : (k \in held') = (k \in held)
  <1>1. Changed' = Changed
    BY DEF Changed
  <1>2. \A k \in Changed : (k \in held') = (k \in held)
    BY ChangedType
  <1>. QED BY <1>1, <1>2

\* An event more, told if it is a transition and the window is connected.
LEMMA OrderEvent ==
  ASSUME IType, OrderInv, NEW e \in Event, events' = Append(events, e),
         UNCHANGED <<commands, injected, sessions, connected, last_modifiers>>,
         held' \cap Modifiers = held \cap Modifiers,
         told' = IF connected /\ IsTransition(e) THEN Append(told, <<e.key, e.pressed>>) ELSE told
  PROVE  OrderInv'
  <1> DEFINE x == <<e.key, e.pressed>>
  <1>1. e \in Item /\ (Acts(e) <=> IsTransition(e)) /\ (IsTransition(e) => x \in Pairs)
    <2>1. e.type # "key"
      BY DEF Event, NameEvents, ButtonEvents, MoveEvents, ScrollEvents, OtherEvents
    <2>. QED BY <2>1, TransitionPair DEF Acts, Item
  <1> HIDE DEF x
  <1>2. told \in Seq(Pairs)
    BY DEF OrderInv
  <1>3. CASE ~ (connected /\ IsTransition(e))
    <2>1. told' = told
      BY <1>3
    <2>2. ~ connected => OrderInv'
      BY <2>1, OrderStutter
    <2>3. ASSUME connected
          PROVE  OrderInv'
      <3>1. Changed' = Changed /\ \A k \in Changed : (k \in held') = (k \in held)
        BY ChangedSame
      <3>2. ASSUME NEW k
            PROVE  KeyNext(k)' = KeyNext(k)
        <4>1. KeySent(k)' = KeySent(k)
          BY <2>1 DEF KeySent, KeyDone
        <4>2. Seek(k, told, KeySent(k), Append(events, e)) = Seeks(Seek(k, told, KeySent(k), events), e, k, told)
          BY <1>1, KeyTypes, SeekAppend
        <4>3. Seeks(Seek(k, told, KeySent(k), events), e, k, told) = Seek(k, told, KeySent(k), events)
          BY <1>1, <1>3, <2>3 DEF Seeks
        <4>4. KeySeen(k)' = KeySeen(k)
          BY <2>1, <2>3, <4>1, <4>2, <4>3 DEF KeySeen
        <4>. QED BY <2>1, <3>1, <4>4 DEF KeyNext
      <3>. QED BY <2>1, <3>2 DEF OrderInv
    <2>. QED BY <2>2, <2>3
  <1>4. CASE connected /\ IsTransition(e)
    <2>1. told' = Append(told, x) /\ x \in Pairs
      BY <1>1, <1>4 DEF x
    <2>2. told' \in Seq(Pairs) /\ Begins(told, told') /\ Len(told') = Len(told) + 1 /\ Len(told) \in Nat
      BY <1>2, <2>1, BeginsAppend
    <2>3. Changed' = Changed /\ \A k \in Changed : (k \in held') = (k \in held)
      BY ChangedSame
    <2>4. ASSUME sessions = 1, NEW k \in AllKeys
          PROVE  Len(told') \in KeyNext(k)'
      <3>1. Len(told) \in KeyNext(k) /\ Len(told) \in KeySeen(k)
        BY <2>4, KeyTypes DEF OrderInv
      <3>2. KeySent(k)' \in Up /\ KeySent(k) \subseteq KeySent(k)' /\ KeySent(k) \in Up
        BY <2>2, KeyGrows, KeyTypes
      <3>3. KeySeen(k) = Seek(k, told, KeySent(k), events)
        BY <1>4 DEF KeySeen
      <3>4. KeySeen(k)' = Seek(k, told', KeySent(k)', Append(events, e))
        BY <1>4 DEF KeySeen
      <3>5. Len(told') \in KeySeen(k)'
        <4>1. Len(told) + 1 \in Seek(k, Append(told, <<e.key, e.pressed>>), KeySent(k)', Append(events, e))
          <5>1. <<e.key, e.pressed>> \in Pairs /\ Acts(e) /\ Len(told) \in Seek(k, told, KeySent(k), events)
            BY <1>1, <1>4, <3>1, <3>3 DEF x
          <5>2. events \in Seq(Item)
            BY KeyTypes
          <5>. QED BY <1>1, <1>2, <3>2, <5>1, <5>2, SeekLast, Zenon
        <4>. QED BY <2>1, <2>2, <3>4, <4>1 DEF x
      <3>6. CASE k \in Changed
        <4>1. k \in Modifiers
          BY <3>6, ChangedType
        <4>2. events' \in Seq(Event) /\ events \in Seq(Event)
          BY AppendProperties DEF IType
        <4>3. KeySeen(k) \subseteq KeySent(k)
          BY KeyTypes
        <4>4. KeySeen(k)' = KeySent(k)'
          <5>1. KeySeen(k)' = Seek(k, told', KeySent(k)', events')
            BY <3>4
          <5> DEFINE r == KeySent(k)'
          <5>2. r \in Up /\ k \in Modifiers /\ events' \in Seq(Event)
            BY <3>2, <4>1, <4>2
          <5> HIDE DEF r
          <5>3. \A t : Seek(k, t, r, events') = r
            BY <5>2, SeekModifier, Zenon
          <5>. QED BY <5>1, <5>3 DEF r
        <4>5. KeySeen(k)' \in Up /\ KeySeen(k) \subseteq KeySeen(k)' /\ Len(told) <= Len(told')
          BY <2>2, <3>2, <4>3, <4>4
        <4>. QED BY <1>4, <2>2, <2>3, <3>1, <3>6, <4>5, NextGrows
      <3>7. CASE k \notin Changed
        BY <2>3, <3>5, <3>7 DEF KeyNext
      <3>. QED BY <3>6, <3>7
    <2>5. sessions' = 0 => FALSE
      BY <1>4 DEF OrderInv
    <2>. QED BY <2>2, <2>4, <2>5 DEF OrderInv
  <1>. QED BY <1>3, <1>4

\* A modifier pressed or released.
LEMMA OrderModifier ==
  ASSUME IType, OrderInv, NEW k \in Modifiers, ToggleModifier(k)
  PROVE  OrderInv'
  <1> DEFINE x == <<k, k \notin held>>
  <1>1. /\ UNCHANGED <<events, commands, injected, sessions, connected, last_modifiers>>
        /\ held' = SymDiff(held, {k}) /\ told' = IF connected THEN Append(told, x) ELSE told
    BY DEF ToggleModifier, Input, window, host
  <1>2. x \in Pairs
    BY DEF Pairs, AllKeys
  <1> HIDE DEF x
  <1>3. Changed' = SymDiff(Changed, {k}) /\ (k \in held') = (k \notin held)
        /\ \A j : j # k => (j \in held') = (j \in held)
    BY <1>1 DEF Changed, SymDiff
  <1>4. CASE ~ connected
    <2>1. ASSUME NEW j
          PROVE  KeyNext(j)' = KeyNext(j)
      BY <1>1, <1>4 DEF KeyNext, KeySeen, KeySent, KeyDone
    <2>. QED BY <1>1, <1>4, <2>1 DEF OrderInv
  <1>5. CASE connected
    <2>1. told' = Append(told, x) /\ told \in Seq(Pairs)
      BY <1>1, <1>5 DEF OrderInv
    <2>2. told' \in Seq(Pairs) /\ Begins(told, told') /\ Len(told') = Len(told) + 1 /\ Len(told) \in Nat
      BY <1>2, <2>1, BeginsAppend
    <2>3. ASSUME sessions = 1, NEW j \in AllKeys
          PROVE  Len(told') \in KeyNext(j)'
      <3>1. Len(told) \in KeyNext(j) /\ Len(told) \in KeySeen(j)
        BY <2>3, KeyTypes DEF OrderInv
      <3>2. KeySeen(j)' \in Up /\ KeySeen(j) \subseteq KeySeen(j)'
        BY <1>1, <2>2, KeyGrows
      <3>3. Len(told) \in KeySeen(j)' /\ Len(told') \in KeySeen(j)'
        <4>1. Len(told) \in KeySeen(j)'
          BY <3>1, <3>2
        <4>2. Len(told') \in Nat /\ Len(told) <= Len(told')
          BY <2>2
        <4>. QED BY <3>2, <4>1, <4>2 DEF Up
      <3>4. CASE j = k /\ k \notin Changed
        <4>1. KeyNext(k)' = After(KeySeen(k)', <<k, (k \in held)'>>, told')
          BY <1>1, <1>3, <1>5, <3>4 DEF KeyNext, SymDiff
        <4>2. <<k, (k \in held)'>> = x
          BY <1>3 DEF x
        <4>3. Len(told) + 1 \in After(KeySeen(k)', x, Append(told, x))
          BY <1>2, <2>1, <3>2, <3>3, <3>4, AfterLast
        <4>. QED BY <2>1, <2>2, <3>4, <4>1, <4>2, <4>3
      <3>5. CASE j = k /\ k \in Changed
        <4>1. KeyNext(k)' = KeySeen(k)'
          BY <1>3, <3>5 DEF KeyNext, SymDiff
        <4>. QED BY <3>3, <3>5, <4>1
      <3>6. CASE j # k /\ j \notin Changed
        <4>1. KeyNext(j)' = KeySeen(j)'
          BY <1>3, <3>6 DEF KeyNext, SymDiff
        <4>. QED BY <3>3, <4>1
      <3>7. CASE j # k /\ j \in Changed
        <4>1. j \in Changed' /\ (j \in held') = (j \in held)
          BY <1>3, <3>7 DEF SymDiff
        <4>2. connected' /\ Len(told) <= Len(told')
          BY <1>1, <1>5, <2>2
        <4>. QED BY <1>5, <2>2, <3>1, <3>2, <3>7, <4>1, <4>2, NextGrows
      <3>. QED BY <3>4, <3>5, <3>6, <3>7
    <2>4. sessions' = 0 => FALSE
      BY <1>1, <1>5 DEF OrderInv
    <2>. QED BY <1>1, <2>2, <2>3, <2>4 DEF OrderInv
  <1>. QED BY <1>4, <1>5

\* What an event becomes looks for what the event does.
LEMMA SeekForwarded ==
  ASSUME NEW k, NEW t, NEW q \in Up, NEW e \in Event, NEW pos
  PROVE  Seek(k, t, q, Forwarded(e, pos)) = Seeks(q, e, k, t)
  <1> DEFINE Right(x) == x = Seeks(q, e, k, t)
  <1>1. e \in Item /\ Seek(k, t, q, <<>>) = q /\ Seek(k, t, q, <<e>>) = Seeks(q, e, k, t)
    <2>1. e \in Item
      BY DEF Item
    <2>. QED BY <2>1, SeekEmpty, SeekOne
  <1>2. ~ Acts(e) => Right(q)
    BY DEF Seeks
  <1>3. Right(Seeks(q, e, k, t))
    OBVIOUS
  <1> HIDE DEF Right
  <1>4. Right(Seek(k, t, q, Forwarded(e, pos)))
    <2>1. CASE e \in NameEvents
      <3>1. e.type = "name" /\ e.key \in Keys /\ e.pressed \in BOOLEAN
        BY <2>1 DEF NameEvents
      <3> DEFINE c == KeyEvent(e.key, e.pressed)
      <3>2. Forwarded(e, pos) = IF e.repeat \/ e.key \in Unmapped THEN <<>> ELSE <<c>>
        BY <3>1, ForwardedIs, Zenon
      <3>3. CASE e.repeat \/ e.key \in Unmapped
        <4>1. ~ Acts(e)
          BY <3>1, <3>3 DEF Acts, IsTransition
        <4>. QED BY <1>1, <1>2, <3>2, <3>3, <4>1, Zenon
      <3>4. CASE ~ (e.repeat \/ e.key \in Unmapped)
        <4>1. c \in Item /\ c.type = "key" /\ c.key = e.key /\ c.pressed = e.pressed
          BY <3>1 DEF KeyEvent, KeyEvents, Item
        <4>2. Acts(c) /\ Acts(e)
          BY <3>1, <3>4, <4>1 DEF Acts, IsTransition
        <4> HIDE DEF c
        <4>3. Seek(k, t, q, <<c>>) = Seeks(q, c, k, t)
          BY <4>1, SeekOne
        <4>4. Seeks(q, c, k, t) = Seeks(q, e, k, t)
          BY <4>1, <4>2 DEF Seeks
        <4>. QED BY <1>3, <3>2, <3>4, <4>3, <4>4, Zenon
      <3>. QED BY <3>3, <3>4
    <2>2. CASE e \in ButtonEvents
      <3>1. e.type = "button"
        BY <2>2 DEF ButtonEvents
      <3>2. Forwarded(e, pos) = IF e.key \in Unmapped THEN <<>> ELSE <<e>>
        BY <3>1, ForwardedIs, Zenon
      <3>3. e.key \in Unmapped => ~ Acts(e)
        BY <3>1 DEF Acts, IsTransition
      <3>. QED BY <1>1, <1>2, <1>3, <3>2, <3>3, Zenon
    <2>3. CASE e \in MoveEvents
      <3>1. e.type = "move"
        BY <2>3 DEF MoveEvents
      <3>2. Forwarded(e, pos) = IF e.pos = pos THEN <<>> ELSE <<e>>
        BY <3>1, ForwardedIs, Zenon
      <3>3. ~ Acts(e)
        BY <3>1 DEF Acts, IsTransition
      <3>. QED BY <1>1, <1>2, <1>3, <3>2, <3>3, Zenon
    <2>4. CASE e \in ScrollEvents
      <3>1. e.type = "scroll"
        BY <2>4 DEF ScrollEvents
      <3>2. Forwarded(e, pos) = IF e.delta = <<0, 0>> THEN <<>> ELSE <<e>>
        BY <3>1, ForwardedIs, Zenon
      <3>3. ~ Acts(e)
        BY <3>1 DEF Acts, IsTransition
      <3>. QED BY <1>1, <1>2, <1>3, <3>2, <3>3, Zenon
    <2>5. CASE e \in OtherEvents
      <3>1. e.type = "other"
        BY <2>5 DEF OtherEvents
      <3>2. Forwarded(e, pos) = <<>>
        BY <3>1, ForwardedIs, Zenon
      <3>3. ~ Acts(e)
        BY <3>1 DEF Acts, IsTransition
      <3>. QED BY <1>1, <1>2, <3>2, <3>3, Zenon
    <2>. QED BY <2>1, <2>2, <2>3, <2>4, <2>5 DEF Event
  <1>. QED BY <1>4 DEF Right

\* The commands of a repaint look for what its events do.
LEMMA SeekCapture ==
  ASSUME NEW k, NEW t, NEW q \in Up, NEW pos \in Points \cup {None}
  PROVE  \A s \in Seq(Event) : Seek(k, t, q, Run(ForwardStep, Begin(pos), s).out) = Seek(k, t, q, s)
  <1> DEFINE r(s) == Run(ForwardStep, Begin(pos), s)
             Same(s) == Seek(k, t, q, r(s).out) = Seek(k, t, q, s)
             P == {s \in Seq(Event) : Same(s)}
  <1>1. <<>> \in P
    <2>1. r(<<>>) = Begin(pos)
      BY RunEmpty
    <2>2. Same(<<>>)
      BY <2>1, BeginType
    <2>3. <<>> \in Seq(Event)
      OBVIOUS
    <2> HIDE DEF Same
    <2>. QED BY <2>2, <2>3
  <1>2. ASSUME NEW s \in Seq(Event), NEW e \in Event, s \in P
        PROVE  Append(s, e) \in P
    <2> DEFINE u == Append(s, e)
               c == Forwarded(e, r(s).pos)
               x == Seek(k, t, q, r(s).out)
    <2>1. s \in Seq(Item) /\ e \in Item
      BY DEF Item
    <2>2. Same(s)
      BY <1>2
    <2>3. r(s) \in Acc /\ r(u).out = r(s).out \o c
      BY CapturedAppend
    <2>4. Seek(k, t, q, u) = Seeks(Seek(k, t, q, s), e, k, t)
      BY <2>1, SeekAppend
    <2>5. c \in Seq(Command) /\ r(s).out \in Seq(Command)
      BY <2>3, ForwardedType DEF Acc
    <2>6. c \in Seq(Item) /\ r(s).out \in Seq(Item)
      BY <2>5, CommandIs
    <2>7. x \in Up
      BY <2>6, SeekType
    <2> HIDE DEF u, c, x, r
    <2>8. Seek(k, t, q, r(s).out \o c) = Seek(k, t, Seek(k, t, q, r(s).out), c)
      BY <2>6, SeekConcat
    <2>9. x = Seek(k, t, q, s)
      BY <2>2 DEF x
    <2>10. Seek(k, t, x, c) = Seeks(x, e, k, t)
      BY <2>7, SeekForwarded DEF c
    <2>11. Same(u)
      BY <2>3, <2>4, <2>8, <2>9, <2>10 DEF x
    <2>12. u \in Seq(Event)
      BY AppendProperties DEF u
    <2> HIDE DEF Same
    <2>. QED BY <2>11, <2>12 DEF u
  <1>3. \A s \in Seq(Event) : s \in P
    <2> HIDE DEF P
    <2>. QED BY <1>1, <1>2, SeqInduct
  <1>. QED BY <1>3

\* The modifiers' commands look once for each that has changed.
LEMMA SeekModifiers ==
  ASSUME IType, NEW k, NEW t, NEW q \in Up
  PROVE  /\ ModifierCommands \in Seq(Item)
         /\ Seek(k, t, q, ModifierCommands) =
               IF k \in Changed THEN After(q, <<k, k \in held>>, t) ELSE q
  <1> DEFINE S == {KeyEvent(j, j \in held) : j \in Changed}
             m == ModifierCommands
             x == <<k, k \in held>>
             Once(s) == \A i, j \in 1 .. Len(s) : s[i] = s[j] => i = j
             Sent(s) == \E i \in 1 .. Len(s) : s[i].key = k
             Right(s) == Seek(k, t, q, s) = IF Sent(s) THEN After(q, x, t) ELSE q
             P == {s \in Seq(S) : Once(s) => Right(s)}
  <1>1. last_modifiers \subseteq Modifiers /\ Changed \subseteq Modifiers
    BY ChangedType
  <1>2. ASSUME NEW c \in S
        PROVE  /\ c \in Item /\ Acts(c) /\ c.key \in Changed
               /\ c = KeyEvent(c.key, c.key \in held)
               /\ <<c.key, c.pressed>> = <<c.key, c.key \in held>>
    <2>1. PICK j \in Changed : c = KeyEvent(j, j \in held)
      OBVIOUS
    <2>2. c.type = "key" /\ c.key = j /\ c.pressed = (j \in held)
      BY <2>1 DEF KeyEvent
    <2>3. j \in Modifiers /\ j \notin Unmapped
      BY <1>1, InputAssumption
    <2>4. \A p \in BOOLEAN : KeyEvent(j, p) \in KeyEvents
      BY <2>3 DEF KeyEvent, KeyEvents
    <2>5. c \in KeyEvents
      <3>1. (j \in held) \in BOOLEAN
        OBVIOUS
      <3>. QED BY <2>1, <2>4, <3>1
    <2>. QED BY <2>1, <2>2, <2>3, <2>5 DEF Item, Acts
  <1>3. /\ m \in Seq(S) /\ Once(m) /\ m \in Seq(Item)
        /\ Sent(m) <=> k \in Changed
    <2>1. /\ m \in Seq(S) /\ Once(m)
          /\ \A j \in Changed : \E i \in 1 .. Len(m) : m[i] = KeyEvent(j, j \in held)
      BY <1>1, ModifierCommandsAre
    <2>2. \A j : KeyEvent(j, j \in held).key = j
      BY DEF KeyEvent
    <2>3. S \subseteq Item
      BY <1>2
    <2>4. \A i \in 1 .. Len(m) : m[i] \in S
      <3> HIDE DEF m, S
      <3>. QED BY <2>1, ElementOfSeq
    <2>5. \A i \in 1 .. Len(m) : m[i].key \in Changed
      BY <1>2, <2>4
    <2> HIDE DEF m, S, Once
    <2>. QED BY <2>1, <2>2, <2>3, <2>5
  <1>4. <<>> \in P
    <2>1. Seek(k, t, q, <<>>) = q /\ <<>> \in Seq(S) /\ Len(<<>>) = 0
      BY SeekEmpty
    <2>2. Right(<<>>)
      BY <2>1
    <2> HIDE DEF Right
    <2>. QED BY <2>1, <2>2
  <1>5. ASSUME NEW s \in Seq(S), NEW c \in S, s \in P
        PROVE  Append(s, c) \in P
    <2> DEFINE u == Append(s, c)
               y == Seek(k, t, q, s)
    <2>1. s \in Seq(Item) /\ c \in Item
      <3>1. S \subseteq Item
        BY <1>2
      <3> HIDE DEF S
      <3>. QED BY <3>1
    <2>2. (Once(s) => Right(s)) /\ u \in Seq(S)
      BY <1>5, AppendProperties
    <2>3. /\ Len(u) = Len(s) + 1 /\ Len(s) \in Nat /\ u[Len(s) + 1] = c
          /\ \A i \in 1 .. Len(s) : u[i] = s[i]
      <3> HIDE DEF S
      <3>. QED BY AppendProperties, LenProperties
    <2>4. Seek(k, t, q, u) = Seeks(y, c, k, t) /\ y \in Up
      <3> HIDE DEF P, S
      <3>. QED BY <2>1, SeekAppend, SeekType
    <2>5. Sent(u) <=> Sent(s) \/ c.key = k
      <3> HIDE DEF u, P, S
      <3>. QED BY <2>3
    <2>6. ASSUME Once(u)
          PROVE  Right(u)
      <3>1. Once(s)
        <4> HIDE DEF u, P, S
        <4>. QED BY <2>3, <2>6
      <3>2. Right(s)
        BY <2>2, <3>1
      <3>3. CASE c.key # k
        <4>1. Seeks(y, c, k, t) = y
          BY <3>3 DEF Seeks
        <4> HIDE DEF u, P, S, Sent
        <4>. QED BY <2>4, <2>5, <3>2, <3>3, <4>1
      <3>4. CASE c.key = k
        <4>1. ~ Sent(s)
          <5> SUFFICES ASSUME NEW i \in 1 .. Len(s), s[i].key = k PROVE FALSE
            OBVIOUS
          <5>1. s[i] \in S
            <6> HIDE DEF S, P
            <6>. QED BY ElementOfSeq
          <5>2. s[i] = KeyEvent(k, k \in held) /\ c = KeyEvent(k, k \in held)
            BY <1>2, <3>4, <5>1
          <5>3. u[i] = u[Len(s) + 1]
            <6> HIDE DEF u, P, S
            <6>. QED BY <2>3, <5>2
          <5> HIDE DEF u, P, S
          <5>. QED BY <2>3, <2>6, <5>3
        <4>2. <<c.key, c.pressed>> = x /\ Acts(c)
          BY <1>2, <3>4
        <4>3. Seeks(y, c, k, t) = After(y, x, t)
          <5>1. Seeks(y, c, k, t) = After(y, <<k, c.pressed>>, t)
            BY <3>4, <4>2 DEF Seeks
          <5>. QED BY <3>4, <4>2, <5>1
        <4>4. y = q /\ Sent(u)
          <5> HIDE DEF u, P, S, Sent
          <5>. QED BY <2>5, <3>2, <3>4, <4>1
        <4> HIDE DEF u, P, S, Sent, x, y
        <4>. QED BY <2>4, <4>3, <4>4
      <3>. QED BY <3>3, <3>4
    <2> HIDE DEF u, Right, Once, S
    <2>. QED BY <2>2, <2>6 DEF u
  <1>6. \A s \in Seq(S) : s \in P
    <2> HIDE DEF P
    <2>. QED BY <1>4, <1>5, SeqInduct
  <1>7. Right(m)
    <2> HIDE DEF m, S, Right, Once
    <2>. QED BY <1>3, <1>6
  <1> HIDE DEF m, S, Sent
  <1>. QED BY <1>3, <1>7 DEF m, x

\* Events find the transitions among them behind whatever was told before.
LEMMA SeekTransitions ==
  ASSUME NEW k, NEW m \in Seq(Pairs)
  PROVE  \A s \in Seq(Event) : /\ m \o Transitions(s) \in Seq(Pairs)
                               /\ Len(m \o Transitions(s)) \in Seek(k, m \o Transitions(s), Nat, s)
  <1> DEFINE t(s) == m \o Transitions(s)
             Right(s) == t(s) \in Seq(Pairs) /\ Len(t(s)) \in Seek(k, t(s), Nat, s)
             P == {s \in Seq(Event) : Right(s)}
  <1>1. <<>> \in P
    <2>1. t(<<>>) = m
      BY TransitionsEmpty, ConcatEmptySeq
    <2>2. Seek(k, t(<<>>), Nat, <<>>) = Nat /\ Len(m) \in Nat
      BY SeekEmpty, LenProperties
    <2>3. Right(<<>>)
      BY <2>1, <2>2
    <2>4. <<>> \in Seq(Event)
      OBVIOUS
    <2> HIDE DEF Right
    <2>. QED BY <2>3, <2>4
  <1>2. ASSUME NEW s \in Seq(Event), NEW e \in Event, s \in P
        PROVE  Append(s, e) \in P
    <2> DEFINE u == Append(s, e)
               T == Transitions(s)
               x == <<e.key, e.pressed>>
    <2>1. Right(s) /\ u \in Seq(Event) /\ e \in Item /\ s \in Seq(Item)
      BY <1>2, AppendProperties DEF Item
    <2>2. T \in Seq(Pairs) /\ Transitions(u) = Noted(T, e)
      BY TransitionsAppend
    <2>3. Acts(e) <=> IsTransition(e)
      <3>1. e.type # "key"
        BY DEF Event, NameEvents, ButtonEvents, MoveEvents, ScrollEvents, OtherEvents
      <3>. QED BY <3>1 DEF Acts
    <2>4. CASE ~ IsTransition(e)
      <3>1. t(u) = t(s)
        BY <2>2, <2>4 DEF Noted
      <3>2. Seek(k, t(s), Nat, u) = Seeks(Seek(k, t(s), Nat, s), e, k, t(s))
        BY <2>1, NatUp, SeekAppend
      <3>3. Seeks(Seek(k, t(s), Nat, s), e, k, t(s)) = Seek(k, t(s), Nat, s)
        BY <2>3, <2>4 DEF Seeks
      <3> HIDE DEF t, u
      <3>4. Right(u)
        BY <2>1, <3>1, <3>2, <3>3
      <3> HIDE DEF Right
      <3>. QED BY <2>1, <3>4 DEF u
    <2>5. CASE IsTransition(e)
      <3>1. x \in Pairs
        BY <2>5, TransitionPair
      <3>2. Transitions(u) = Append(T, x)
        BY <2>2, <2>5 DEF Noted
      <3>3. t(u) = Append(t(s), x)
        <4>1. m \o Append(T, x) = Append(m \o T, x)
          <5> HIDE DEF T, x
          <5>. QED BY <2>2, <3>1, ConcatAppend
        <4>. QED BY <3>2, <4>1
      <3> HIDE DEF t, u
      <3>4. Len(t(s)) + 1 \in Seek(k, Append(t(s), x), Nat, Append(s, e))
        <4>1. Acts(e)
          BY <2>3, <2>5
        <4>. QED BY <2>1, <3>1, <4>1, NatUp, SeekLast, Zenon
      <3>5. Len(t(u)) = Len(t(s)) + 1 /\ t(u) \in Seq(Pairs)
        <4> HIDE DEF x
        <4>. QED BY <2>1, <3>1, <3>3, BeginsAppend
      <3>6. Right(u)
        BY <3>3, <3>4, <3>5 DEF u
      <3> HIDE DEF Right
      <3>. QED BY <2>1, <3>6 DEF u
    <2>. QED BY <2>4, <2>5
  <1>3. \A s \in Seq(Event) : s \in P
    <2> HIDE DEF P
    <2>. QED BY <1>1, <1>2, SeqInduct
  <1>. QED BY <1>3

\* The modifiers held when a session begins are told first.
LEMMA OrderConnect ==
  ASSUME IType, OrderInv, Connect
  PROVE  OrderInv'
  <1> DEFINE S == {<<k, TRUE>> : k \in held \cap Modifiers}
             m == SetToSeq(S)
  <1>1. /\ connected' /\ sessions' = sessions + 1 /\ sessions \in Nat
        /\ UNCHANGED <<held, events, last_modifiers, commands, injected>>
        /\ told' = m \o Transitions(events)
    BY DEF Connect, host, IType, TypeOK
  <1>2. m \in Seq(Pairs) /\ \A k \in held \cap Modifiers : \E i \in 1 .. Len(m) : m[i] = <<k, TRUE>>
    <2> DEFINE f == [k \in held \cap Modifiers |-> <<k, TRUE>>]
    <2>1. f \in Surjection(held \cap Modifiers, S)
      BY DEF Surjection
    <2>2. IsFiniteSet(held \cap Modifiers)
      BY InputAssumption, FS_Subset
    <2>3. IsFiniteSet(S)
      <3> HIDE DEF f, S
      <3>. QED BY <2>1, <2>2, FS_Surjection
    <2>4. SetToSeq(S) \in Seq(S) /\ \A x \in S : \E i \in 1 .. Len(SetToSeq(S)) : SetToSeq(S)[i] = x
      <3> HIDE DEF S
      <3>. QED BY <2>3, SetToSeqIs
    <2>5. S \subseteq Pairs
      <3> SUFFICES ASSUME NEW k \in held \cap Modifiers PROVE <<k, TRUE>> \in Pairs
        OBVIOUS
      <3>1. k \in AllKeys /\ TRUE \in BOOLEAN
        BY DEF AllKeys
      <3>. QED BY <3>1 DEF Pairs
    <2>6. \A k \in held \cap Modifiers : <<k, TRUE>> \in S
      OBVIOUS
    <2> HIDE DEF S, f
    <2>7. m \in Seq(S) /\ \A x \in S : \E i \in 1 .. Len(m) : m[i] = x
      BY <2>4
    <2> HIDE DEF m
    <2>8. m \in Seq(Pairs)
      BY <2>5, <2>7
    <2>. QED BY <2>6, <2>7, <2>8, Zenon
  <1> HIDE DEF m
  <1>3. events \in Seq(Event) /\ injected \in Seq(Pairs) /\ told' \in Seq(Pairs)
    BY <1>1, <1>2, SeekTransitions DEF IType, OrderInv
  <1>4. ASSUME sessions' = 1, NEW k \in AllKeys
        PROVE  Len(told') \in KeyNext(k)'
    <2>1. commands = <<>> /\ injected = <<>> /\ last_modifiers = {}
      BY <1>1, <1>4 DEF OrderInv
    <2>2. KeySent(k)' = Nat
      <3>1. KeyDone(k)' = Nat
        <4>1. OfKey(k, injected') = <<>>
          BY <1>1, <2>1, OfKeyEmpty
        <4>. QED BY <4>1, RunEmpty DEF KeyDone, Found
      <3>. QED BY <1>1, <2>1, <3>1, SeekEmpty DEF KeySent
    <2>3. KeySeen(k)' = Seek(k, told', Nat, events)
      BY <1>1, <2>2 DEF KeySeen
    <2>4. Len(told') \in KeySeen(k)'
      BY <1>1, <1>2, <1>3, <2>3, SeekTransitions
    <2>5. CASE k \in Changed'
      <3>1. k \in held \cap Modifiers
        BY <1>1, <2>1, <2>5 DEF Changed, SymDiff
      <3>2. KeySeen(k)' = Nat
        BY <1>3, <2>3, <3>1, NatUp, SeekModifier
      <3>3. KeyNext(k)' = After(Nat, <<k, TRUE>>, told')
        <4>1. <<k, (k \in held)'>> = <<k, TRUE>>
          BY <1>1, <3>1
        <4>. QED BY <1>1, <2>5, <3>2, <4>1 DEF KeyNext
      <3>4. PICK i \in 1 .. Len(m) : m[i] = <<k, TRUE>>
        BY <1>2, <3>1
      <3>5. i \in 1 .. Len(told') /\ told'[i] = m[i]
        <4> DEFINE T == Transitions(events)
        <4>1. T \in Seq(Pairs) /\ told' = m \o T
          BY <1>1, <1>3, TransitionsAppend
        <4> HIDE DEF T
        <4>2. Len(m \o T) = Len(m) + Len(T) /\ Len(m) \in Nat /\ Len(T) \in Nat
              /\ \A j \in 1 .. Len(m) : (m \o T)[j] = m[j]
          BY <1>2, <4>1, ConcatProperties, LenProperties
        <4> DEFINE v == m \o T
        <4>3. told' = v
          BY <4>1
        <4>4. i \in 1 .. Len(v) /\ v[i] = m[i]
          <5> DEFINE a == Len(m)
                     b == Len(T)
          <5>1. a \in Nat /\ b \in Nat /\ Len(v) = a + b /\ i \in 1 .. a
            BY <4>2
          <5> HIDE DEF a, b, v
          <5>2. i \in 1 .. Len(v)
            BY <5>1
          <5>3. v[i] = m[i]
            BY <4>2, <5>1, Zenon DEF v, a
          <5>. QED BY <5>2, <5>3
        <4> HIDE DEF v
        <4>. QED BY <4>3, <4>4
      <3>6. Len(told') \in Nat
        BY <1>3, LenProperties
      <3>7. 0 < i /\ i <= Len(told') /\ 0 \in Nat
        BY <3>5, <3>6
      <3>8. told'[i] = <<k, TRUE>>
        BY <3>4, <3>5
      <3>. QED BY <3>3, <3>5, <3>6, <3>7, <3>8 DEF After
    <2>6. CASE k \notin Changed'
      BY <2>4, <2>6 DEF KeyNext
    <2>. QED BY <2>5, <2>6
  <1>. QED BY <1>1, <1>3, <1>4 DEF OrderInv

LEMMA OrderRepaint ==
  ASSUME IType, OrderInv, Repaint
  PROVE  OrderInv'
  <1>1. connected /\ events' = <<>> /\ UNCHANGED <<told, injected, sessions, held>>
    BY DEF Repaint, host
  <1>2. sessions # 0
    BY <1>1 DEF OrderInv
  <1>3. CASE Clicked(events, armed)
    <2>1. connected' = FALSE /\ UNCHANGED commands
      BY <1>3 DEF Repaint
    <2>2. ASSUME NEW k
          PROVE  KeyNext(k) \subseteq KeyNext(k)'
      <3>1. KeySent(k)' = KeySent(k)
        BY <1>1, <2>1 DEF KeySent, KeyDone
      <3>2. KeyNext(k)' = KeySent(k)
        BY <2>1, <3>1 DEF KeyNext, KeySeen
      <3>. QED BY <3>2, KeyTypes
    <2>. QED BY <1>1, <1>2, <2>2 DEF OrderInv
  <1>4. CASE ~ Clicked(events, armed)
    <2>1. PICK pos \in {last_mouse_remote_pos, None} : capture_and_send_input(pos)
      BY <1>4 DEF Repaint
    <2>2. connected' = connected
      BY <1>4 DEF Repaint
    <2>3. pos \in Points \cup {None} /\ events \in Seq(Event) /\ commands \in Seq(Command)
      BY DEF IType, TypeOK
    <2>4. /\ Captured(pos) \in Acc
          /\ commands' = commands \o ModifierCommands \o Captured(pos).out
          /\ last_modifiers' = held \cap Modifiers
      BY <2>1, <2>3, ChangedType, CaptureIs
    <2>5. Captured(pos) = Run(ForwardStep, Begin(pos), events)
      BY DEF Captured, Begin
    <2>6. Changed' = {}
      BY <1>1, <2>4 DEF Changed, SymDiff
    <2> DEFINE m == ModifierCommands
               o == Captured(pos).out
    <2>7. commands \in Seq(Item) /\ m \in Seq(Item) /\ o \in Seq(Item) /\ commands \o m \in Seq(Item)
      <3>1. o \in Seq(Command) /\ Command \subseteq Item
        BY <2>4, CommandIs DEF Acc
      <3>2. o \in Seq(Item)
        BY <3>1
      <3>3. commands \in Seq(Item) /\ m \in Seq(Item)
        BY AimTypes, SeekModifiers, NatUp
      <3>. QED BY <3>2, <3>3, ConcatProperties
    <2>8. ASSUME NEW k
          PROVE  KeyNext(k)' = KeyNext(k)
      <3> DEFINE q == KeySent(k)
                 x == <<k, k \in held>>
                 r == IF k \in Changed THEN After(q, x, told) ELSE q
      <3>1. q \in Up /\ KeyDone(k) \in Up /\ r \in Up
        BY KeyTypes, AfterIs
      <3>2. Seek(k, told, q, m) = r
        BY <3>1, SeekModifiers
      <3> HIDE DEF m, o, r
      <3>3. Seek(k, told, KeyDone(k), (commands \o m) \o o) = Seek(k, told, r, o)
        <4>1. Seek(k, told, KeyDone(k), (commands \o m) \o o)
                = Seek(k, told, Seek(k, told, KeyDone(k), commands \o m), o)
          <5> DEFINE cm == commands \o m
          <5>1. cm \in Seq(Item)
            BY <2>7
          <5> HIDE DEF cm
          <5>2. Seek(k, told, KeyDone(k), cm \o o) = Seek(k, told, Seek(k, told, KeyDone(k), cm), o)
            BY <2>7, <3>1, <5>1, SeekConcat
          <5>. QED BY <5>2 DEF cm
        <4>2. Seek(k, told, KeyDone(k), commands \o m) = Seek(k, told, q, m)
          BY <2>7, <3>1, SeekConcat DEF KeySent
        <4>. QED BY <3>2, <4>1, <4>2
      <3>4. Seek(k, told, r, o) = Seek(k, told, r, events)
        BY <2>3, <2>5, <3>1, SeekCapture DEF o
      <3>5. KeySent(k)' = Seek(k, told, r, events)
        <4>1. KeyDone(k)' = KeyDone(k)
          BY <1>1 DEF KeyDone
        <4>2. commands' = (commands \o m) \o o
          BY <2>4 DEF m, o
        <4>. QED BY <1>1, <3>3, <3>4, <4>1, <4>2 DEF KeySent
      <3>6. KeyNext(k)' = KeySent(k)'
        <4>1. KeySeen(k)' = KeySent(k)'
          BY <1>1, SeekEmpty DEF KeySeen
        <4>. QED BY <2>6, <4>1 DEF KeyNext
      <3>7. CASE k \in Changed
        <4>1. k \in Modifiers
          BY <3>7, ChangedType
        <4>2. Seek(k, told, r, events) = r /\ Seek(k, told, q, events) = q
          BY <2>3, <3>1, <4>1, SeekModifier
        <4>3. KeySeen(k) = q
          BY <1>1, <4>2 DEF KeySeen
        <4>4. KeyNext(k) = r
          BY <1>1, <3>7, <4>3 DEF KeyNext, r
        <4>. QED BY <3>5, <3>6, <4>2, <4>4
      <3>8. CASE k \notin Changed
        <4>1. KeyNext(k) = Seek(k, told, r, events)
          BY <1>1, <3>8 DEF KeyNext, KeySeen, r
        <4>. QED BY <3>5, <3>6, <4>1
      <3>. QED BY <3>7, <3>8
    <2>. QED BY <1>1, <1>2, <2>8 DEF OrderInv
  <1>. QED BY <1>3, <1>4

\* The places grow with those after the commands.
LEMMA SentGrows ==
  ASSUME IType, OrderInv, UNCHANGED <<told, events, connected, held, last_modifiers>>, NEW k,
         KeySent(k)' \in Up, KeySent(k) \subseteq KeySent(k)'
  PROVE  KeyNext(k) \subseteq KeyNext(k)'
  <1>1. Begins(told, told)
    BY LenProperties DEF OrderInv, Begins
  <1>2. KeySent(k) \in Up /\ KeySeen(k) \in Up /\ events \in Seq(Item)
    BY KeyTypes
  <1>3. KeySeen(k)' \in Up /\ KeySeen(k) \subseteq KeySeen(k)'
    <2>1. connected => KeySeen(k) = Seek(k, told, KeySent(k), events)
                       /\ KeySeen(k)' = Seek(k, told, KeySent(k)', events)
      BY DEF KeySeen
    <2>2. ~ connected => KeySeen(k) = KeySent(k) /\ KeySeen(k)' = KeySent(k)'
      BY DEF KeySeen
    <2>. QED BY <1>1, <1>2, <2>1, <2>2, SeekType, SeekGrows
  <1>4. Changed' = Changed
    BY DEF Changed
  <1> DEFINE x == <<k, k \in held>>
  <1>5. /\ KeyNext(k) = IF connected /\ k \in Changed THEN After(KeySeen(k), x, told) ELSE KeySeen(k)
        /\ KeyNext(k)' = IF connected /\ k \in Changed THEN After(KeySeen(k)', x, told) ELSE KeySeen(k)'
    BY <1>4 DEF KeyNext
  <1> HIDE DEF x
  <1>. QED BY <1>1, <1>2, <1>3, <1>5, AfterGrows

\* The oldest command: looked for first.
LEMMA SentHead ==
  ASSUME IType, OrderInv, commands # <<>>, NEW k
  PROVE  /\ KeySent(k) = Seek(k, told, Seeks(KeyDone(k), Head(commands), k, told), Tail(commands))
         /\ Head(commands) \in Command /\ Tail(commands) \in Seq(Item)
  <1>1. commands \in Seq(Item) /\ KeyDone(k) \in Up /\ commands \in Seq(Command)
    BY KeyTypes DEF IType
  <1>. QED BY <1>1, SeekHead, HeadTailProperties DEF KeySent

LEMMA OrderInject ==
  ASSUME IType, OrderInv, Inject
  PROVE  OrderInv'
  <1> DEFINE c == Head(commands)
             x == <<c.key, c.pressed>>
  <1>1. /\ SendInput(payload_to_inputs(c)) /\ commands # <<>> /\ commands' = Tail(commands)
        /\ UNCHANGED <<told, events, connected, held, last_modifiers, sessions>>
    BY DEF Inject, user, window
  <1>2. c \in Command /\ wheels \in Int \X Int /\ injected \in Seq(Pairs)
    BY <1>1, SentHead DEF IType, TypeOK, OrderInv
  <1>3. CASE c.type \in {"scroll", "move"}
    <2>1. injected' = injected /\ ~ Acts(c)
      BY <1>1, <1>2, <1>3, InjectIs DEF Acts, IsTransition
    <2>2. ASSUME NEW k
          PROVE  KeySent(k)' = KeySent(k)
      <3>1. Seeks(KeyDone(k), c, k, told) = KeyDone(k)
        BY <2>1 DEF Seeks
      <3>2. KeySent(k) = Seek(k, told, KeyDone(k), Tail(commands))
        BY <1>1, <3>1, SentHead
      <3>. QED BY <1>1, <2>1, <3>2 DEF KeySent, KeyDone
    <2>3. ASSUME NEW k
          PROVE  KeyNext(k) \subseteq KeyNext(k)'
      <3>1. KeySent(k)' \in Up /\ KeySent(k) \subseteq KeySent(k)'
        BY <2>2, KeyTypes
      <3>. QED BY <1>1, <3>1, SentGrows
    <2>. QED BY <1>1, <2>1, <2>3 DEF OrderInv
  <1>4. CASE c.type \in {"key", "button"}
    <2>1. injected' = Append(injected, x) /\ x \in Pairs /\ Acts(c)
      <3>1. c.key \in AllKeys /\ c.key \notin Unmapped /\ c.pressed \in BOOLEAN
        BY <1>2, <1>4, CommandIs DEF AllKeys
      <3>2. Acts(c) /\ x \in Pairs
        BY <1>4, <3>1 DEF Acts, IsTransition, Pairs
      <3>3. injected' = Append(injected, x)
        BY <1>1, <1>2, <1>4, InjectIs
      <3>. QED BY <3>2, <3>3
    <2>2. ASSUME NEW k
          PROVE  KeySent(k)' = KeySent(k)
      <3>1. OfKey(k, injected') = Picked(k, OfKey(k, injected), x) /\ OfKey(k, injected) \in Seq(Pairs)
        <4> HIDE DEF x
        <4>. QED BY <1>2, <2>1, OfKeyAppend, OfKeyType
      <3>2. KeyDone(k)' = Seeks(KeyDone(k), c, k, told)
        <4>1. CASE c.key = k
          <5>1. x[1] = k /\ <<k, c.pressed>> = x
            BY <4>1
          <5> HIDE DEF x
          <5>2. OfKey(k, injected') = Append(OfKey(k, injected), x)
            BY <3>1, <5>1 DEF Picked
          <5>3. Found(Append(OfKey(k, injected), x), told) = After(KeyDone(k), x, told)
            BY <2>1, <3>1, FoundAppend DEF KeyDone
          <5>4. Seeks(KeyDone(k), c, k, told) = After(KeyDone(k), x, told)
            BY <2>1, <4>1, <5>1 DEF Seeks
          <5>. QED BY <1>1, <5>2, <5>3, <5>4 DEF KeyDone
        <4>2. CASE c.key # k
          <5>1. OfKey(k, injected') = OfKey(k, injected)
            BY <3>1, <4>2 DEF Picked
          <5>2. Seeks(KeyDone(k), c, k, told) = KeyDone(k)
            BY <4>2 DEF Seeks
          <5>. QED BY <1>1, <5>1, <5>2 DEF KeyDone
        <4>. QED BY <4>1, <4>2
      <3>3. KeySent(k) = Seek(k, told, Seeks(KeyDone(k), c, k, told), Tail(commands))
        BY <1>1, SentHead
      <3>. QED BY <1>1, <3>2, <3>3 DEF KeySent
    <2>3. ASSUME NEW k
          PROVE  KeyNext(k) \subseteq KeyNext(k)'
      <3>1. KeySent(k)' \in Up /\ KeySent(k) \subseteq KeySent(k)'
        BY <2>2, KeyTypes
      <3>. QED BY <1>1, <3>1, SentGrows
    <2>4. injected' \in Seq(Pairs) /\ sessions # 0
      <3> HIDE DEF x
      <3>. QED BY <1>1, <1>2, <2>1, AppendProperties DEF OrderInv
    <2>. QED BY <1>1, <2>3, <2>4 DEF OrderInv
  <1>. QED BY <1>2, <1>3, <1>4, CommandIs

LEMMA OrderLose ==
  ASSUME IType, OrderInv, Lose
  PROVE  OrderInv'
  <1> DEFINE c == Head(commands)
  <1>1. /\ commands # <<>> /\ commands' = Tail(commands)
        /\ UNCHANGED <<told, events, connected, held, last_modifiers, sessions>>
        /\ \E n \in 0 .. Len(payload_to_inputs(c)) - 1 : SendInput(SubSeq(payload_to_inputs(c), 1, n))
    BY DEF Lose, user, window
  <1>2. c \in Command /\ wheels \in Int \X Int
    BY <1>1, SentHead DEF IType, TypeOK
  <1>3. injected' = injected
    BY <1>1, <1>2, LoseIs
  <1>4. ASSUME NEW k
        PROVE  KeyNext(k) \subseteq KeyNext(k)'
    <2>1. KeySent(k) = Seek(k, told, Seeks(KeyDone(k), c, k, told), Tail(commands))
          /\ Tail(commands) \in Seq(Item)
      BY <1>1, SentHead
    <2>2. KeySent(k)' = Seek(k, told, KeyDone(k), Tail(commands))
      BY <1>1, <1>3 DEF KeySent, KeyDone
    <2>3. KeyDone(k) \in Up
      BY KeyTypes
    <2>4. Seeks(KeyDone(k), c, k, told) \in Up /\ Seeks(KeyDone(k), c, k, told) \subseteq KeyDone(k)
      BY <2>3, SeeksIs
    <2>5. Begins(told, told)
      BY LenProperties DEF OrderInv, Begins
    <2> DEFINE q == Seeks(KeyDone(k), c, k, told)
               r == KeyDone(k)
               s == Tail(commands)
    <2>6. q \in Up /\ r \in Up /\ q \subseteq r /\ s \in Seq(Item)
      BY <2>1, <2>3, <2>4
    <2>7. KeySent(k) = Seek(k, told, q, s) /\ KeySent(k)' = Seek(k, told, r, s)
      BY <2>1, <2>2
    <2> HIDE DEF c, q, r, s
    <2>8. Seek(k, told, r, s) \in Up /\ Seek(k, told, q, s) \subseteq Seek(k, told, r, s)
      BY <2>5, <2>6, SeekType, SeekGrows
    <2>9. KeySent(k)' \in Up /\ KeySent(k) \subseteq KeySent(k)'
      BY <2>7, <2>8
    <2>. QED BY <1>1, <2>9, SentGrows
  <1>. QED BY <1>1, <1>3, <1>4 DEF OrderInv

LEMMA OrderNext == IType /\ OrderInv /\ [Next]_vars => OrderInv'
  <1> SUFFICES ASSUME IType, OrderInv, [Next]_vars PROVE OrderInv'
    OBVIOUS
  <1> USE DEF user, window, host
  <1>1. ASSUME NEW k \in Modifiers, ToggleModifier(k)
        PROVE  OrderInv'
    BY <1>1, OrderModifier
  <1>2. ASSUME NEW e, Tells(e)
        PROVE  OrderInv'
    <2>1. e \in Event /\ Told(e) /\ Input /\ held' \cap Modifiers = held \cap Modifiers
      BY <1>2 DEF Tells
    <2>2. events' = Append(events, e)
          /\ told' = IF connected /\ IsTransition(e) THEN Append(told, <<e.key, e.pressed>>) ELSE told
      BY <2>1 DEF Told
    <2>3. UNCHANGED <<commands, injected, sessions, connected, last_modifiers>>
      BY <2>1 DEF Input
    <2>. QED BY <2>1, <2>2, <2>3, OrderEvent, Zenon
  <1>3. CASE Connect
    BY <1>3, OrderConnect
  <1>4. CASE Repaint
    BY <1>4, OrderRepaint
  <1>5. CASE RepaintPanel
    BY <1>5, OrderStutter DEF RepaintPanel
  <1>6. CASE Inject
    BY <1>6, OrderInject
  <1>7. CASE Lose
    BY <1>7, OrderLose
  <1>8. CASE UNCHANGED vars
    BY <1>8, OrderStutter DEF vars
  <1>. QED BY <1>1, <1>2, <1>3, <1>4, <1>5, <1>6, <1>7, <1>8, NextIs

\* In the first session, whatever is lost, left out or still on its way, what the host
\* has done to one key, modifier or button is, in that order, among what the window could
\* learn of it (presses and releases as the GUI library reports them, changes of a
\* modifier): neither the comparison of modifiers, which overtakes the events of its
\* repaint, nor a click on the cross makes up, doubles or reorders one.
THEOREM KeysInOrder == Spec => []OrderOfKey
  <1>1. IType /\ OrderInv => OrderOfKey
    <2> SUFFICES ASSUME IType, OrderInv, sessions = 1, NEW k \in AllKeys
                 PROVE  Unmatched(OfKey(k, injected), told) = <<>>
      BY DEF OrderOfKey, AllKeys
    <2>1. Len(told) \in KeySent(k)
      BY KeyTypes DEF OrderInv
    <2>2. KeySent(k) \subseteq KeyDone(k)
      BY KeyTypes, SeekStays DEF KeySent
    <2>3. told \in Seq(Pairs) /\ OfKey(k, injected) \in Seq(Pairs)
      BY OfKeyType DEF OrderInv
    <2>. QED BY <2>1, <2>2, <2>3, SearchFinds DEF KeyDone
  <1>2. Init => IType /\ OrderInv
    BY TypeInit, OrderInit
  <1>3. IType /\ OrderInv /\ [Next]_vars => (IType /\ OrderInv)'
    BY TypeNext, OrderNext
  <1>. QED BY <1>1, <1>2, <1>3, PTL DEF Spec

-----------------------------------------------------------------------------
(* Coordinates. *)

\* Division: what q == a \div b says of a and b.
LEMMA Quotient ==
    ASSUME NEW a \in Nat, NEW b \in Nat \ {0}
    PROVE  /\ a \div b \in Nat
           /\ b * (a \div b) <= a
           /\ a < b * (a \div b) + b
  BY SMTT(20)

\* A factor can be left out on both sides.
LEMMA Cancel ==
    ASSUME NEW a \in Int, NEW b \in Int, NEW d \in Nat \ {0}, d * a < d * b
    PROVE  a < b
  BY SMTT(20)

\* A factor keeps the order.
LEMMA TimesSame ==
    ASSUME NEW a \in Nat, NEW b \in Nat, NEW d \in Nat, a <= b
    PROVE  a * d <= b * d
<1> DEFINE e == b - a
<1>1. e \in Nat /\ b = a + e
  OBVIOUS
<1> HIDE DEF e
<1>2. (a + e) * d = a * d + e * d /\ a * d \in Nat /\ e * d \in Nat
  BY <1>1, SMTT(20)
<1> QED
  BY <1>1, <1>2

\* The two estimates in pixels: k the pixel aimed at, p the one reached.
LEMMA WithinOne ==
    ASSUME NEW k \in Nat, NEW p \in Nat, NEW g \in Nat, NEW remote \in Nat, remote <= 32768,
           65536 * p <= g, g < 65536 * p + 65536
    PROVE  /\ 2 * g < 131070 * k + 131071 + remote => p - 1 <= k
           /\ 131070 * k < 2 * g + remote /\ k <= remote => k - 1 <= p
  BY SMTT(20)

\* Wherever in the window the pointer is, its coordinate is one that Windows takes,
\* the cursor stays on the screen, and it comes to the pixel pointed at or to one
\* next to it (map_pos_to_remote, normalize_abs_coord).
THEOREM CursorLands ==
    ASSUME NEW local \in Int, NEW width \in Nat \ {0},
           NEW remote \in Nat \ {0}, remote <= 32768
    PROVE  /\ normalize_abs_coord(map_pos_to_remote(local, width, remote), width, remote) \in 0 .. Abs
           /\ Landed(local, width, remote) \in 0 .. remote - 1
           /\ Landed(local, width, remote) \in
                Aimed(local, width, remote) - 1 .. Aimed(local, width, remote) + 1
<1> DEFINE n == map_pos_to_remote(local, width, remote)
           w == width * remote
           c == Rounded(n * Abs, w)
           g == c * remote
           k == n \div width
           p == g \div 65536
<1> HIDE DEF n, w, c, g, k, p
<1>0. Abs = 65535
  BY DEF Abs
<1>1. n \in Nat /\ w \in Nat \ {0} /\ n <= w
  <2> DEFINE r == local * remote
  <2>1. w \in Nat \ {0} /\ r \in Int
    BY SMTT(20) DEF w
  <2>2. n = Clamped(r, 0, w)
    BY DEF map_pos_to_remote, n, w
  <2> HIDE DEF r
  <2> QED
    BY <2>1, <2>2 DEF Clamped
<1>2. k \in Nat /\ width * k <= n /\ n < width * k + width
  BY <1>1, Quotient DEF k
<1>3. c \in Nat
  <2> DEFINE a == 2 * (n * Abs) + w
             b == 2 * w
  <2>1. a \in Nat /\ b \in Nat \ {0}
    <3>1. Abs \in Nat
      BY DEF Abs
    <3>2. n * Abs \in Nat
      BY <3>1, <1>1, SMTT(20)
    <3> QED
      BY <3>2, <1>1
  <2>2. c = a \div b
    BY DEF Rounded, c
  <2> HIDE DEF a, b
  <2> QED
    BY <2>1, <2>2, Quotient
<1>4. 2 * (w * c) <= 131070 * n + w /\ 131070 * n < 2 * (w * c) + w
  <2> DEFINE a == 131070 * n + w
             b == 2 * w
  <2>1. a \in Nat /\ b \in Nat \ {0}
    BY <1>1
  <2>2. c = a \div b
    BY <1>1 DEF Rounded, Abs, c
  <2>3. b * c <= a /\ a < b * c + b
    <3> HIDE DEF a, b
    <3> QED
      BY <2>1, <2>2, Quotient
  <2>4. b * c = 2 * (w * c) /\ w * c \in Nat
    BY <1>1, <1>3, SMTT(20)
  <2> QED
    BY <2>3, <2>4, <1>1
<1>5. c \in Nat /\ Abs \in Nat /\ c <= Abs
  <2> DEFINE wc == w * c
  <2>1. wc \in Nat
    BY <1>1, <1>3, SMTT(20)
  <2>2. 2 * wc < 131072 * w
    BY <2>1, <1>1, <1>4 DEF wc
  <2>3. w * c < w * 65536
    BY <2>1, <2>2, <1>1
  <2>4. w * c < w * (Abs + 1)
    BY <2>3 DEF Abs
  <2>5. Abs \in Nat
    BY DEF Abs
  <2> HIDE DEF wc
  <2>6. c < Abs + 1
    BY <2>4, <2>5, <1>1, <1>3, Cancel
  <2> QED
    BY <2>5, <2>6, <1>3
<1>6. normalize_abs_coord(n, width, remote) = c
  <2>1. normalize_abs_coord(n, width, remote) = Clamped(c, 0, Abs)
    BY DEF normalize_abs_coord, c, w
  <2>2. c \in Nat /\ ~ c < 0 /\ ~ c > Abs
    BY <1>5, <1>0
  <2>3. Clamped(c, 0, Abs) = c
    BY <2>2 DEF Clamped
  <2> QED
    BY <2>1, <2>3
<1>7. g \in Nat /\ p \in Nat /\ 65536 * p <= g /\ g < 65536 * p + 65536
  <2>1. g \in Nat
    BY <1>3, <1>4, SMTT(20) DEF g
  <2> QED
    BY <2>1, Quotient DEF p
<1>8. p <= remote - 1
  <2>1. g <= 65535 * remote
    <3>1. c * remote <= Abs * remote
      BY <1>5, TimesSame
    <3> QED
      BY <3>1, <1>0 DEF g
  <2> QED
    BY <2>1, <1>7
<1>9. /\ width * (2 * g) = 2 * (w * c)
      /\ w = width * remote
  BY <1>3, <1>4, SMTT(20) DEF g, w
<1>10. p - 1 <= k
  <2> DEFINE u == width * k
             bound == 131070 * k + 131070 + remote
  <2>1. u \in Nat
    BY <1>2, SMTT(20)
  <2>2. width * (2 * g) < 131070 * u + 131070 * width + w
    <3> HIDE DEF u
    <3> QED
      BY <2>1, <1>1, <1>2, <1>3, <1>4, <1>9 DEF u
  <2>3. 131070 * u + 131070 * width + w = width * bound
    BY <1>2, <1>9, SMTT(20)
  <2>4. width * (2 * g) < width * (bound + 1)
    <3>1. width * (bound + 1) = width * bound + width /\ width * bound \in Nat
      BY <1>2, SMTT(20)
    <3>2. width * (2 * g) < width * bound
      <4> HIDE DEF u, bound
      <4> QED
        BY <2>2, <2>3
    <3>3. width * (2 * g) \in Nat
      BY <1>7, SMTT(20)
    <3> HIDE DEF u, bound
    <3> QED
      BY <3>1, <3>2, <3>3
  <2>5. 2 * g < bound + 1
    BY <2>4, <1>2, <1>7, Cancel
  <2>6. k \in Nat /\ remote \in Nat /\ remote <= 32768
    BY <1>2
  <2>7. 2 * g < 131070 * k + 131071 + remote
    <3> HIDE DEF u
    <3> QED
      BY <2>5, <2>6, <1>7
  <2> HIDE DEF u, bound
  <2> QED
    BY <2>6, <2>7, <1>7, WithinOne
<1>11. k - 1 <= p
  <2>1. width * (131070 * k) < width * (2 * g + remote)
    <3> DEFINE u == width * k
    <3>1. u \in Nat /\ width * (131070 * k) = 131070 * u
      BY <1>2, SMTT(20)
    <3>2. width * (2 * g + remote) = width * (2 * g) + w
      BY <1>7, <1>9, SMTT(20)
    <3>3. 131070 * u < 2 * (w * c) + w
      <4> HIDE DEF u
      <4> QED
        BY <3>1, <1>1, <1>2, <1>3, <1>4 DEF u
    <3> HIDE DEF u
    <3> QED
      BY <3>1, <3>2, <3>3, <1>9
  <2>2. 131070 * k < 2 * g + remote
    BY <2>1, <1>2, <1>7, Cancel
  <2>3. k <= remote
    <3>1. width * k < width * (remote + 1)
      <4>1. width * (remote + 1) = w + width
        BY <1>9, SMTT(20)
      <4> QED
        BY <4>1, <1>1, <1>2
    <3> QED
      BY <3>1, <1>2, Cancel
  <2>4. k \in Nat /\ remote \in Nat /\ remote <= 32768
    BY <1>2
  <2> QED
    BY <2>2, <2>3, <2>4, <1>7, WithinOne
<1>12. Landed(local, width, remote) = p /\ Aimed(local, width, remote) = k
  BY <1>6 DEF Landed, Aimed, PixelOf, Abs, n, g, k, p
<1>13. normalize_abs_coord(n, width, remote) \in 0 .. Abs
  BY <1>5, <1>6
<1>14. k \in Nat
  BY <1>2
<1> QED
  BY <1>7, <1>8, <1>10, <1>11, <1>12, <1>13, <1>14 DEF n
=============================================================================
