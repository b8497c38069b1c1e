-------------------------------- MODULE SiftProofs -------------------------------
(***************************************************************************)
(* What Without returns, for all sequences; and induction over numbers by  *)
(* their least counterexample.                                             *)
(***************************************************************************)
EXTENDS Sift, SequenceTheorems, FiniteSetTheorems, WellFoundedInduction, TLAPS

\* A set of numbers that is not empty has a least one: of the intervals from 0
\* to a number of the set, finite sets all, one is minimal.
LEMMA LeastNumber ==
    ASSUME NEW T, T \subseteq Nat, T # {}
    PROVE  \E m \in T : \A n \in T : m <= n
  <1>1. PICK top \in T : TRUE
    OBVIOUS
  <1> DEFINE S  == 0..top
             UU == {0..n : n \in {k \in T : k <= top}}
  <1>2. /\ UU \subseteq FiniteSubsetsOf(S) /\ UU # {}
    <2>1. ASSUME NEW n \in T, n <= top
          PROVE  0..n \in FiniteSubsetsOf(S)
      BY <2>1, FS_Interval DEF FiniteSubsetsOf
    <2> QED
      BY <1>1, <2>1
  <1>3. PICK U \in UU : \A V \in UU : <<V, U>> \notin StrictSubsetOrdering(S)
    BY <1>2, FS_StrictSubsetOrderingWellFounded, WFMin
  <1>4. PICK m \in T : m <= top /\ U = 0..m
    OBVIOUS
  <1>5. ASSUME NEW n \in T, n < m
        PROVE  FALSE
    <2>1. 0..n \in UU
      BY <1>4, <1>5
    <2>2. 0..n \subseteq 0..m /\ 0..n # 0..m /\ 0..m \subseteq S /\ 0..n \subseteq S
      <3>1. m \in 0..m /\ m \notin 0..n
        BY <1>5
      <3> QED
        BY <1>1, <1>4, <1>5, <3>1
    <2>3. <<0..n, 0..m>> \in StrictSubsetOrdering(S)
      BY <2>2 DEF StrictSubsetOrdering
    <2> QED
      BY <1>3, <1>4, <2>1, <2>3
  <1> QED
    BY <1>5

\* A finite set of numbers has a greatest one: of the sets of what is greater than
\* a number of the set, one is minimal.
LEMMA GreatestNumber ==
    ASSUME NEW S, S \subseteq Nat, IsFiniteSet(S), S # {}
    PROVE  \E m \in S : \A n \in S : m >= n
  <1> DEFINE Above(n) == {k \in S : k > n}
             UU == {Above(n) : n \in S}
  <1>1. UU \subseteq FiniteSubsetsOf(S) /\ UU # {}
    <2>1. ASSUME NEW n \in S
          PROVE  Above(n) \in FiniteSubsetsOf(S)
      BY FS_Subset DEF FiniteSubsetsOf
    <2> QED
      BY <2>1
  <1>2. PICK U \in UU : \A V \in UU : <<V, U>> \notin StrictSubsetOrdering(S)
    BY <1>1, FS_StrictSubsetOrderingWellFounded, WFMin
  <1>3. PICK m \in S : U = Above(m)
    OBVIOUS
  <1>4. ASSUME NEW n \in S, n > m
        PROVE  FALSE
    <2>0. n \in Nat /\ m \in Nat /\ ~(n > n)
      OBVIOUS
    <2>1. Above(n) \subseteq Above(m) /\ Above(m) \subseteq S /\ n \in Above(m) /\ n \notin Above(n)
      <3>1. \A k \in S : k > n => k > m
        BY <1>4, <2>0
      <3> QED
        BY <1>4, <2>0, <3>1
    <2>2. Above(n) # Above(m) /\ Above(n) \subseteq S
      BY <2>1
    <2>3. <<Above(n), Above(m)>> \in StrictSubsetOrdering(S)
      BY <2>1, <2>2 DEF StrictSubsetOrdering
    <2> QED
      BY <1>2, <1>3, <2>3
  <1> QED
    BY <1>4

\* Induction: a set of numbers that has 0 and, with n, n + 1, has all.
LEMMA Induction ==
    ASSUME NEW P, 0 \in P, \A n \in Nat : n \in P => n + 1 \in P
    PROVE  Nat \subseteq P
  <1> SUFFICES ASSUME Nat \ P # {}
               PROVE  FALSE
    OBVIOUS
  <1>1. PICK m \in Nat \ P : \A n \in Nat \ P : m <= n
    BY LeastNumber
  <1>2. m # 0 /\ m - 1 \in Nat
    BY <1>1
  <1>3. m - 1 \in P
    BY <1>1, <1>2
  <1> QED
    BY <1>1, <1>2, <1>3

(***************************************************************************)
(* The recursion of Without.                                               *)
(***************************************************************************)
Step(s, known, f, n) ==
    IF n = 0 THEN <<>>
    ELSE IF s[n] \in known THEN f[n - 1] ELSE Append(f[n - 1], s[n])

Recurs(s, known, f, top) == f = [n \in 0..top |-> Step(s, known, f, n)]

Kept(s, known) == CHOOSE f : Recurs(s, known, f, Len(s))

LEMMA WithoutIsKept ==
    ASSUME NEW s, NEW known
    PROVE  Without(s, known) = Kept(s, known)[Len(s)]
  BY DEF Without, Kept, Recurs, Step

\* There is a function that recurs, up to any number.
LEMMA RecursionExists ==
    ASSUME NEW s, NEW known, NEW top \in Nat
    PROVE  \E f : Recurs(s, known, f, top)
  <1> DEFINE P == {n \in Nat : \E f : Recurs(s, known, f, n)}
  <1>1. 0 \in P
    <2> DEFINE f == [n \in 0..0 |-> <<>>]
    <2>1. Recurs(s, known, f, 0)
      BY DEF Recurs, Step
    <2> QED
      BY <2>1
  <1>2. ASSUME NEW n \in Nat, n \in P
        PROVE  n + 1 \in P
    <2>1. PICK f : Recurs(s, known, f, n)
      BY <1>2
    <2> DEFINE g == [m \in 0..n + 1 |-> IF m = n + 1 THEN Step(s, known, f, n + 1) ELSE f[m]]
    <2>2. ASSUME NEW m \in 0..n + 1
          PROVE  g[m] = Step(s, known, g, m)
      <3>1. CASE m = 0
        BY <2>1, <3>1 DEF Recurs, Step
      <3>2. CASE m # 0
        <4>1. m - 1 \in 0..n /\ g[m - 1] = f[m - 1]
          BY <3>2
        <4>2. Step(s, known, g, m) = Step(s, known, f, m)
          BY <4>1 DEF Step
        <4>3. g[m] = Step(s, known, f, m)
          BY <2>1, <3>2 DEF Recurs
        <4> QED
          BY <4>2, <4>3
      <3> QED
        BY <3>1, <3>2
    <2>3. Recurs(s, known, g, n + 1)
      <3> HIDE DEF g
      <3>1. g = [m \in 0..n + 1 |-> g[m]]
        BY DEF g
      <3> QED
        BY <2>2, <3>1 DEF Recurs
    <2> QED
      BY <2>3
  <1> HIDE DEF P
  <1>3. top \in P
    BY <1>1, <1>2, Induction
  <1> QED
    BY <1>3 DEF P

\* The elements of the first n of s that are not known.
Unseen(s, known, n) == {s[k] : k \in {j \in 1..n : s[j] \notin known}}

Distinct(s) == \A j, k \in DOMAIN s : s[j] = s[k] => j = k

Elements(s) == {s[k] : k \in DOMAIN s}

\* Without drops the known elements, keeps all others and repeats none.
LEMMA WithoutSifts ==
    ASSUME NEW S, NEW s \in Seq(S), NEW known
    PROVE  /\ Without(s, known) \in Seq(S)
           /\ Elements(Without(s, known)) = Elements(s) \ known
           /\ Distinct(s) => Distinct(Without(s, known))
  <1> DEFINE f == Kept(s, known)
             P == {n \in Nat : n <= Len(s) =>
                      /\ f[n] \in Seq(S)
                      /\ {f[n][k] : k \in DOMAIN f[n]} = Unseen(s, known, n)
                      /\ Distinct(s) => Distinct(f[n])}
  <1>1. Len(s) \in Nat /\ DOMAIN s = 1..Len(s)
    OBVIOUS
  <1>2. f = [n \in 0..Len(s) |-> Step(s, known, f, n)]
    <2>1. Recurs(s, known, f, Len(s))
      BY <1>1, RecursionExists DEF Kept
    <2> QED
      BY <2>1 DEF Recurs
  <1> HIDE DEF f
  <1>3. \A n \in 0..Len(s) : f[n] = Step(s, known, f, n)
    BY <1>2
  <1>4. 0 \in P
    <2>1. f[0] = <<>>
      BY <1>1, <1>3 DEF Step
    <2>2. DOMAIN <<>> = {} /\ <<>> \in Seq(S) /\ 1..0 = {}
      OBVIOUS
    <2>3. {f[0][k] : k \in DOMAIN f[0]} = {} /\ Unseen(s, known, 0) = {}
      BY <2>1, <2>2 DEF Unseen
    <2>4. Distinct(f[0])
      BY <2>1, <2>2 DEF Distinct
    <2> QED
      BY <2>1, <2>2, <2>3, <2>4
  <1>5. ASSUME NEW n \in Nat, n \in P
        PROVE  n + 1 \in P
    <2> SUFFICES ASSUME n + 1 <= Len(s)
                 PROVE  /\ f[n + 1] \in Seq(S)
                        /\ {f[n + 1][k] : k \in DOMAIN f[n + 1]} = Unseen(s, known, n + 1)
                        /\ Distinct(s) => Distinct(f[n + 1])
      OBVIOUS
    <2>1. /\ f[n] \in Seq(S)
          /\ {f[n][k] : k \in DOMAIN f[n]} = Unseen(s, known, n)
          /\ Distinct(s) => Distinct(f[n])
      BY <1>1, <1>5
    <2>2. n + 1 \in 1..Len(s) /\ s[n + 1] \in S
      BY <1>1
    <2>3. f[n + 1] = IF s[n + 1] \in known THEN f[n] ELSE Append(f[n], s[n + 1])
      BY <1>1, <1>3, <2>2 DEF Step
    <2>4. Unseen(s, known, n + 1) =
            Unseen(s, known, n) \cup (IF s[n + 1] \in known THEN {} ELSE {s[n + 1]})
      <3>1. 1..n + 1 = 1..n \cup {n + 1}
        OBVIOUS
      <3> QED
        BY <3>1 DEF Unseen
    <2>5. CASE s[n + 1] \in known
      BY <2>1, <2>3, <2>4, <2>5
    <2>6. CASE s[n + 1] \notin known
      <3> DEFINE t == Append(f[n], s[n + 1])
      <3>1. /\ t \in Seq(S) /\ Len(t) = Len(f[n]) + 1 /\ t[Len(f[n]) + 1] = s[n + 1]
            /\ \A k \in 1..Len(f[n]) : t[k] = f[n][k]
        BY <2>1, <2>2, AppendProperties
      <3>2. DOMAIN t = 1..Len(f[n]) + 1 /\ DOMAIN f[n] = 1..Len(f[n]) /\ Len(f[n]) \in Nat
        BY <2>1, <3>1
      <3>3. {t[k] : k \in DOMAIN t} = {f[n][k] : k \in DOMAIN f[n]} \cup {s[n + 1]}
        <4>1. 1..Len(f[n]) + 1 = 1..Len(f[n]) \cup {Len(f[n]) + 1}
          BY <3>2
        <4> HIDE DEF t
        <4> QED
          BY <3>1, <3>2, <4>1
      <3>4. ASSUME Distinct(s)
            PROVE  Distinct(t)
        <4>1. ASSUME NEW k \in 1..Len(f[n])
              PROVE  t[k] # s[n + 1]
          <5>1. t[k] \in Unseen(s, known, n)
            BY <2>1, <3>1, <3>2
          <5>2. PICK j \in 1..n : t[k] = s[j]
            BY <5>1 DEF Unseen
          <5>3. j \in DOMAIN s /\ n + 1 \in DOMAIN s /\ j # n + 1
            BY <1>1, <2>2
          <5> QED
            BY <3>4, <5>2, <5>3 DEF Distinct
        <4>2. Distinct(f[n])
          BY <2>1, <3>4
        <4>3. ASSUME NEW j \in DOMAIN t, NEW k \in DOMAIN t, t[j] = t[k]
              PROVE  j = k
          <5> HIDE DEF t
          <5>1. CASE j \in 1..Len(f[n]) /\ k \in 1..Len(f[n])
            BY <3>1, <3>2, <4>2, <4>3, <5>1 DEF Distinct
          <5>2. CASE j \notin 1..Len(f[n]) \/ k \notin 1..Len(f[n])
            BY SMTT(30), <3>1, <3>2, <4>1, <4>3, <5>2
          <5> QED
            BY <5>1, <5>2
        <4> QED
          BY <4>3 DEF Distinct
      <3> QED
        BY ZenonT(40), <2>1, <2>3, <2>4, <2>6, <3>1, <3>3, <3>4
    <2> QED
      BY <2>5, <2>6
  <1> HIDE DEF P
  <1>6. Len(s) \in P
    BY <1>1, <1>4, <1>5, Induction
  <1>7. Unseen(s, known, Len(s)) = {s[k] : k \in DOMAIN s} \ known
    BY <1>1 DEF Unseen
  <1>8. Without(s, known) = f[Len(s)]
    BY WithoutIsKept DEF f
  <1> QED
    BY <1>1, <1>6, <1>7, <1>8 DEF P, Elements

LEMMA WithoutKeeps ==
    ASSUME NEW S, NEW s \in Seq(S), NEW known
    PROVE  /\ Without(s, known) \in Seq(S)
           /\ {Without(s, known)[k] : k \in DOMAIN Without(s, known)}
                = {s[k] : k \in DOMAIN s} \ known
  <1>1. Without(s, known) \in Seq(S) /\ Elements(Without(s, known)) = Elements(s) \ known
    BY WithoutSifts
  <1> QED
    BY <1>1 DEF Elements

LEMMA WithoutInjects ==
    ASSUME NEW S, NEW s \in Seq(S), NEW known, Distinct(s)
    PROVE  Distinct(Without(s, known))
  BY WithoutSifts
=================================================================================
