------------------------------ MODULE IntakeProofs ------------------------------
(***************************************************************************)
(* The search for cycles finds the members of cycles and nobody else,      *)
(* for any graph; and what the intake makes of it.                         *)
(***************************************************************************)
EXTENDS Intake, SiftProofs

(***************************************************************************)
(* The invariant of the search. An issue is visited when it has an index,  *)
(* open while its call is in progress, and settled when it is visited and  *)
(* off the stack again.                                                    *)
(***************************************************************************)
OnStack == ToSet(stack)
Open    == ToSet(calls)
Visited == {m \in Batch : index[m] # 0}
Settled == Visited \ OnStack

Needs(g, m) == g[m] \cap DOMAIN g

\* From i, one or more dependencies lead to j.
Leads(g, i, j) ==
    \A S \in SUBSET DOMAIN g : (\A k \in S \cup {i} : Needs(g, k) \subseteq S) => j \in S

Reaches(g, i, j) == i = j \/ Leads(g, i, j)

\* From the top down, later visited comes first.
Falling(s, idx) == \A j, k \in DOMAIN s : j < k => idx[s[j]] > idx[s[k]]

CycleTypes ==
    /\ Batch \subseteq Issues
    /\ index \in [Issues -> Nat] /\ lowlink \in [Issues -> Nat]
    /\ stack \in Seq(Batch) /\ calls \in Seq(Batch)
    /\ left \in [Issues -> SUBSET Issues]
    /\ cyclic \subseteq Settled

Shape ==
    /\ Falling(stack, index) /\ Falling(calls, index)
    /\ Open \subseteq OnStack /\ OnStack \subseteq Visited
    /\ \A i \in Issues : index[i] <= Cardinality({j \in Issues : index[j] # 0})
    /\ \A k \in DOMAIN calls : k > 1 => calls[k - 1] \in left[calls[k]]

\* What a call has looked at has been visited.
Looked ==
    /\ \A m \in Issues : left[m] # {} => m \in Open /\ left[m] \subseteq Needs(graph, m)
    /\ \A m \in Visited : Needs(graph, m) \ left[m] \subseteq Visited

\* Whatever is above an open issue on the stack is reached from it, ...
Above ==
    \A g \in Open, m \in OnStack : index[m] > index[g] => Leads(graph, g, m)

\* ... and whatever is on the stack reaches an open issue below it.
Below ==
    \A m \in OnStack : \E g \in Open : index[g] <= index[m] /\ Reaches(graph, m, g)

\* A lowlink is the index of an issue on the stack that is reached.
Linked ==
    \A m \in OnStack :
       /\ lowlink[m] <= index[m]
       /\ \E w \in OnStack : index[w] = lowlink[m] /\ Reaches(graph, m, w)

\* The open issue m was visited under, while the calls between are over.
Under(m, g) == index[g] <= index[m] /\ \A h \in Open : index[h] <= index[m] => index[h] <= index[g]

\* The lowlink of an open issue is as low as anything on the stack that was looked
\* at under it.
Low ==
    \A g \in Open, m \in OnStack :
       Under(m, g) => \A d \in (Needs(graph, m) \ left[m]) \cap OnStack : lowlink[g] <= index[d]

\* What is settled leads to nothing that is not, and is told apart right.
Apart ==
    \A m \in Settled : Needs(graph, m) \subseteq Settled /\ (m \in cyclic <=> Leads(graph, m, m))

CycleInv == CycleTypes /\ Shape /\ Looked /\ Above /\ Below /\ Linked /\ Low /\ Apart

(***************************************************************************)
(* The two sequences. Both grow at the top, and lose what is at the top.   *)
(***************************************************************************)
LEMMA Pushed ==
    ASSUME NEW S, NEW s \in Seq(S), NEW n \in S, NEW t, t = <<n>> \o s
    PROVE  /\ t \in Seq(S) /\ Len(t) = Len(s) + 1 /\ t[1] = n
           /\ \A k \in 1..Len(s) : t[k + 1] = s[k]
           /\ ToSet(t) = {n} \cup ToSet(s)
  <1>1. t \in Seq(S) /\ Len(t) = Len(s) + 1 /\ t[1] = n /\ Len(s) \in Nat
    OBVIOUS
  <1>2. \A k \in 1..Len(s) : t[k + 1] = s[k]
    OBVIOUS
  <1>3. ToSet(t) = {n} \cup ToSet(s)
    <2>1. DOMAIN t = 1..Len(s) + 1 /\ DOMAIN s = 1..Len(s)
      BY <1>1
    <2>2. \A k \in 2..Len(s) + 1 : k - 1 \in 1..Len(s) /\ t[k] = s[k - 1]
      <3>1. ASSUME NEW k \in 2..Len(s) + 1
            PROVE  k - 1 \in 1..Len(s) /\ t[k] = s[k - 1]
        <4>1. k - 1 \in 1..Len(s) /\ (k - 1) + 1 = k
          BY <1>1
        <4> QED
          BY <1>2, <4>1
      <3> QED
        BY <3>1
    <2>3. ASSUME NEW x \in ToSet(t) PROVE x \in {n} \cup ToSet(s)
      <3>1. PICK k \in 1..Len(s) + 1 : x = t[k]
        BY <2>1 DEF ToSet
      <3>2. k = 1 \/ k \in 2..Len(s) + 1
        BY <1>1
      <3> QED
        BY <1>1, <2>1, <2>2, <3>1, <3>2 DEF ToSet
    <2>4. ASSUME NEW x \in ToSet(s) PROVE x \in ToSet(t)
      <3>1. PICK k \in 1..Len(s) : x = s[k]
        BY <2>1 DEF ToSet
      <3>2. k + 1 \in DOMAIN t /\ x = t[k + 1]
        BY <1>1, <1>2, <2>1, <3>1
      <3> QED
        BY <3>2 DEF ToSet
    <2>5. n \in ToSet(t)
      BY <1>1, <2>1 DEF ToSet
    <2> QED
      BY <2>3, <2>4, <2>5
  <1> QED
    BY <1>1, <1>2, <1>3

LEMMA PushedFalls ==
    ASSUME NEW S, NEW s \in Seq(S), NEW n \in S, NEW t, t = <<n>> \o s,
           NEW idx, NEW idx2, Falling(s, idx),
           \A m \in ToSet(s) : idx2[m] = idx[m] /\ idx2[n] > idx[m]
    PROVE  Falling(t, idx2)
  <1>1. /\ t \in Seq(S) /\ Len(t) = Len(s) + 1 /\ t[1] = n /\ Len(s) \in Nat
        /\ DOMAIN t = 1..Len(s) + 1 /\ DOMAIN s = 1..Len(s)
        /\ \A k \in 1..Len(s) : t[k + 1] = s[k]
    BY Pushed
  <1>2. ASSUME NEW k \in 2..Len(s) + 1
        PROVE  k - 1 \in DOMAIN s /\ t[k] = s[k - 1] /\ t[k] \in ToSet(s)
    <2>1. k - 1 \in 1..Len(s) /\ (k - 1) + 1 = k
      BY <1>1
    <2>2. t[k] = s[k - 1]
      BY <1>1, <2>1
    <2> QED
      BY <1>1, <2>1, <2>2 DEF ToSet
  <1>3. ASSUME NEW j \in 1..Len(s) + 1, NEW k \in 1..Len(s) + 1, j < k
        PROVE  idx2[t[j]] > idx2[t[k]]
    <2>1. k \in 2..Len(s) + 1
      BY <1>1, <1>3
    <2>2. CASE j = 1
      BY <1>1, <1>2, <2>1, <2>2
    <2>3. CASE j # 1
      <3>1. j \in 2..Len(s) + 1 /\ j - 1 < k - 1
        BY <1>1, <1>3, <2>3
      <3>2. idx[s[j - 1]] > idx[s[k - 1]]
        BY <1>2, <2>1, <3>1 DEF Falling
      <3> QED
        BY <1>2, <2>1, <3>1, <3>2
    <2> QED
      BY <2>2, <2>3
  <1> QED
    BY <1>1, <1>3 DEF Falling

Topmost(s, j) == {s[k] : k \in 1..j}
Later(s, idx, m)   == {x \in ToSet(s) : idx[x] >= idx[m]}
Earlier(s, idx, m) == {x \in ToSet(s) : idx[x] < idx[m]}

\* The rest below the j topmost.
IsRest(t, s, j) == Len(t) = Len(s) - j /\ \A k \in 1..Len(t) : t[k] = s[k + j]

LEMMA Dropped ==
    ASSUME NEW S, NEW s \in Seq(S), NEW j \in 1..Len(s), NEW t \in Seq(S),
           IsRest(t, s, j),
           NEW idx, \A m \in S : idx[m] \in Nat, Falling(s, idx)
    PROVE  /\ Falling(t, idx)
           /\ Topmost(s, j) = Later(s, idx, s[j])
           /\ ToSet(t) = Earlier(s, idx, s[j])
  <1>1. /\ Len(s) \in Nat /\ Len(t) \in Nat /\ j \in Nat
        /\ DOMAIN s = 1..Len(s) /\ DOMAIN t = 1..Len(s) - j
        /\ \A k \in 1..Len(s) : s[k] \in S
    BY DEF IsRest
  <1>2. \A k \in 1..Len(s) - j : k + j \in 1..Len(s) /\ t[k] = s[k + j]
    BY <1>1 DEF IsRest
  <1>3. \A i, k \in 1..Len(s) : i < k => idx[s[i]] > idx[s[k]]
    BY <1>1 DEF Falling
  <1>4. Falling(t, idx)
    <2>1. ASSUME NEW i \in 1..Len(s) - j, NEW k \in 1..Len(s) - j, i < k
          PROVE  idx[t[i]] > idx[t[k]]
      <3>1. i + j < k + j
        BY <1>1, <2>1
      <3> QED
        BY <1>2, <1>3, <3>1
    <2> QED
      BY <1>1, <2>1 DEF Falling
  <1>5. ASSUME NEW k \in 1..Len(s)
        PROVE  idx[s[k]] >= idx[s[j]] <=> k <= j
    <2>1. idx[s[k]] \in Nat /\ idx[s[j]] \in Nat /\ k \in Nat
      BY <1>1
    <2>2. CASE k < j
      BY <1>1, <1>3, <2>1, <2>2
    <2>3. CASE k = j
      BY <2>1, <2>3
    <2>4. CASE k > j
      <3>1. idx[s[j]] > idx[s[k]]
        BY <1>1, <1>3, <2>4
      <3> QED
        BY <1>1, <2>1, <2>4, <3>1
    <2> QED
      BY <1>1, <2>1, <2>2, <2>3, <2>4
  <1>6. ToSet(s) = {s[k] : k \in 1..Len(s)} /\ ToSet(t) = {t[k] : k \in 1..Len(s) - j}
    BY <1>1 DEF ToSet
  <1>7. {s[k] : k \in 1..j} = {m \in ToSet(s) : idx[m] >= idx[s[j]]}
    <2>1. \A k \in 1..j : k \in 1..Len(s) /\ k <= j
      BY <1>1
    <2>2. \A k \in 1..Len(s) : k <= j => k \in 1..j
      BY <1>1
    <2> QED
      BY <1>5, <1>6, <2>1, <2>2
  <1>8. ToSet(t) = {m \in ToSet(s) : idx[m] < idx[s[j]]}
    <2>1. \A k \in 1..Len(s) : idx[s[k]] < idx[s[j]] <=> k > j
      <3>1. ASSUME NEW k \in 1..Len(s) PROVE idx[s[k]] < idx[s[j]] <=> k > j
        <4>1. idx[s[k]] \in Nat /\ idx[s[j]] \in Nat /\ k \in Nat
          BY <1>1
        <4> QED
          BY <1>1, <1>5, <4>1
      <3> QED
        BY <3>1
    <2>2. ASSUME NEW m \in ToSet(t) PROVE m \in ToSet(s) /\ idx[m] < idx[s[j]]
      <3>1. PICK k \in 1..Len(s) - j : m = s[k + j] /\ k + j \in 1..Len(s)
        BY <1>2, <1>6
      <3>2. k + j > j
        BY <1>1
      <3> QED
        BY <1>6, <2>1, <3>1, <3>2
    <2>3. ASSUME NEW m \in ToSet(s), idx[m] < idx[s[j]] PROVE m \in ToSet(t)
      <3>1. PICK k \in 1..Len(s) : m = s[k] /\ k > j
        BY <1>6, <2>1, <2>3
      <3>2. k - j \in 1..Len(s) - j /\ (k - j) + j = k
        BY <1>1, <3>1
      <3>3. t[k - j] = m
        BY <1>2, <3>1, <3>2
      <3> QED
        BY <1>6, <3>2, <3>3
    <2> QED
      BY <2>2, <2>3
  <1> QED
    BY <1>4, <1>7, <1>8 DEF Topmost, Earlier, Later

(***************************************************************************)
(* What leads where, and minima.                                           *)
(***************************************************************************)
LEMMA Edge ==
    ASSUME NEW g, NEW i, NEW j \in Needs(g, i) PROVE Leads(g, i, j)
  BY DEF Leads

LEMMA LeadsOn ==
    ASSUME NEW g, NEW i, NEW j, NEW k, Leads(g, i, j), Leads(g, j, k) PROVE Leads(g, i, k)
  <1> SUFFICES ASSUME NEW S \in SUBSET DOMAIN g, \A m \in S \cup {i} : Needs(g, m) \subseteq S
               PROVE  k \in S
    BY DEF Leads
  <1>1. j \in S
    BY DEF Leads
  <1> QED
    BY <1>1 DEF Leads

LEMMA ReachesOn ==
    ASSUME NEW g, NEW i, NEW j, NEW k
    PROVE  /\ Reaches(g, i, j) /\ Reaches(g, j, k) => Reaches(g, i, k)
           /\ Leads(g, i, j) /\ Reaches(g, j, k) => Leads(g, i, k)
           /\ Reaches(g, i, j) /\ Leads(g, j, k) => Leads(g, i, k)
  BY LeadsOn DEF Reaches

LEMMA LeastOf ==
    ASSUME NEW T, T \subseteq Nat, T # {}
    PROVE  Min(T) \in T /\ \A n \in T : Min(T) <= n
  <1>1. \E m \in T : \A n \in T : m <= n
    BY LeastNumber
  <1> QED
    BY <1>1 DEF Min

(***************************************************************************)
(* The calls and the stack.                                                *)
(***************************************************************************)
LEMMA Told ==
    ASSUME CycleTypes, Shape
    PROVE  /\ \A a, b \in OnStack : index[a] = index[b] => a = b
           /\ \A m \in Batch : index[m] \in Nat /\ lowlink[m] \in Nat /\ m \in Issues
           /\ OnStack \subseteq Batch /\ Open \subseteq OnStack /\ OnStack \subseteq Visited
           /\ Visited \subseteq Batch
  <1>1. OnStack \subseteq Batch /\ Open \subseteq OnStack /\ OnStack \subseteq Visited /\ Visited \subseteq Batch
    BY DEF Shape, Visited
  <1>2. \A m \in Batch : index[m] \in Nat /\ lowlink[m] \in Nat /\ m \in Issues
    BY DEF CycleTypes
  <1>3. ASSUME NEW a \in OnStack, NEW b \in OnStack, index[a] = index[b] PROVE a = b
    <2>1. PICK j \in DOMAIN stack : a = stack[j]
      BY DEF OnStack, ToSet
    <2>2. PICK k \in DOMAIN stack : b = stack[k]
      BY DEF OnStack, ToSet
    <2>3. j \in Nat /\ k \in Nat
      BY DEF CycleTypes
    <2>4. index[a] \in Nat /\ index[b] \in Nat
      BY <1>1, <1>2
    <2>5. ~ (j < k) /\ ~ (k < j)
      BY <1>3, <2>1, <2>2, <2>4 DEF Shape, Falling
    <2> QED
      BY <2>1, <2>2, <2>3, <2>5
  <1> QED
    BY <1>1, <1>2, <1>3

LEMMA TopIsLast ==
    ASSUME CycleTypes, Shape, calls # <<>>
    PROVE  /\ Top \in Open /\ Len(calls) \in Nat \ {0} /\ DOMAIN calls = 1..Len(calls)
           /\ \A h \in Open : h = Top \/ index[h] < index[Top]
  <1>1. Len(calls) \in Nat \ {0} /\ DOMAIN calls = 1..Len(calls)
    BY DEF CycleTypes
  <1>2. Top \in Open
    BY <1>1 DEF Open, ToSet, Top
  <1>3. ASSUME NEW h \in Open PROVE h = Top \/ index[h] < index[Top]
    <2>1. PICK k \in DOMAIN calls : h = calls[k]
      BY DEF Open, ToSet
    <2>2. k = 1 \/ 1 < k
      BY <1>1, <2>1
    <2>3. CASE k = 1
      BY <2>1, <2>3 DEF Top
    <2>4. CASE 1 < k
      <3>1. index[calls[1]] > index[calls[k]]
        BY <1>1, <2>4 DEF Shape, Falling
      <3>2. calls[1] \in Batch /\ calls[k] \in Batch
        BY <1>1 DEF CycleTypes
      <3>3. index[calls[1]] \in Nat /\ index[calls[k]] \in Nat
        BY <3>2, Told
      <3> QED
        BY <2>1, <3>1, <3>3 DEF Top
    <2> QED
      BY <2>2, <2>3, <2>4
  <1> QED
    BY <1>1, <1>2, <1>3

\* The issue below the top was visited last but for the top.
LEMMA SecondIsLast ==
    ASSUME CycleTypes, Shape, calls # <<>>, Len(calls) # 1
    PROVE  /\ calls[2] \in Open \ {Top} /\ Top \in left[calls[2]]
           /\ \A h \in Open \ {Top} : h = calls[2] \/ index[h] < index[calls[2]]
  <1>1. /\ Len(calls) \in Nat \ {0} /\ DOMAIN calls = 1..Len(calls) /\ 2 \in DOMAIN calls
        /\ 1 \in DOMAIN calls
    BY TopIsLast
  <1>2. \A k \in DOMAIN calls : calls[k] \in Batch /\ index[calls[k]] \in Nat
    BY Told DEF CycleTypes
  <1>3. index[calls[1]] > index[calls[2]]
    BY <1>1 DEF Shape, Falling
  <1>4. calls[2] \in Open \ {Top}
    BY <1>1, <1>2, <1>3 DEF Open, ToSet, Top
  <1>5. Top \in left[calls[2]]
    <2>1. calls[2 - 1] \in left[calls[2]]
      BY <1>1 DEF Shape
    <2> QED
      BY <2>1 DEF Top
  <1>6. ASSUME NEW h \in Open \ {Top} PROVE h = calls[2] \/ index[h] < index[calls[2]]
    <2>1. PICK k \in DOMAIN calls : h = calls[k] /\ k # 1
      BY DEF Open, ToSet, Top
    <2>2. k = 2 \/ 2 < k
      BY <1>1, <2>1
    <2>3. CASE k = 2
      BY <2>1, <2>3
    <2>4. CASE 2 < k
      <3>1. index[calls[2]] > index[calls[k]]
        BY <1>1, <2>4 DEF Shape, Falling
      <3> QED
        BY <1>1, <1>2, <2>1, <3>1
    <2> QED
      BY <2>2, <2>3, <2>4
  <1> QED
    BY <1>4, <1>5, <1>6

(***************************************************************************)
(* A step of the search keeps the invariant.                               *)
(***************************************************************************)
Asked(n) == calls = <<>> \/ n \in left[Top]

LEMMA VisitKeeps ==
    ASSUME CycleInv, NEW n \in Batch \ Visited, Visit(n), Asked(n)
    PROVE  CycleInv'
  <1> DEFINE next == Cardinality({i \in Issues : index[i] # 0}) + 1
  <1>1. /\ CycleTypes /\ Shape /\ Looked /\ Above /\ Below /\ Linked /\ Low /\ Apart
        /\ n \in Issues /\ graph' = graph /\ Batch' = Batch /\ cyclic' = cyclic
    BY DEF CycleInv, CycleTypes, Visit, Batch
  <1>t. /\ index \in [Issues -> Nat] /\ stack \in Seq(Batch) /\ calls \in Seq(Batch)
        /\ lowlink \in [Issues -> Nat] /\ left \in [Issues -> SUBSET Issues]
        /\ Falling(stack, index) /\ Falling(calls, index)
        /\ stack' = <<n>> \o stack /\ calls' = <<n>> \o calls
        /\ index' = [index EXCEPT ![n] = next]
    BY <1>1 DEF CycleTypes, Shape, Visit
  <1>2. /\ next \in Nat \ {0} /\ \A i \in Issues : index[i] < next
        /\ Cardinality({i \in Issues : index'[i] # 0}) = next
    <2> DEFINE old == {i \in Issues : index[i] # 0}
    <2>1. IsFiniteSet(old)
      BY IssuesAssumption, FS_Subset
    <2>2. Cardinality(old) \in Nat /\ next = Cardinality(old) + 1
      BY <2>1, FS_CardinalityType
    <2>3. \A i \in Issues : index[i] <= Cardinality(old)
      BY <1>1 DEF Shape
    <2>4. {i \in Issues : index'[i] # 0} = old \cup {n}
      <3>1. next # 0
        BY <2>2
      <3> QED
        BY <1>1, <1>t, <3>1
    <2>5. n \notin old
      BY DEF Visited
    <2> HIDE DEF old, next
    <2>6. Cardinality(old \cup {n}) = Cardinality(old) + 1
      BY <2>1, <2>5, FS_AddElement
    <2>7. \A i \in Issues : index[i] \in Nat
      BY <1>t
    <2>8. next \in Nat \ {0} /\ \A i \in Issues : index[i] < next
      BY <2>2, <2>3, <2>7
    <2>9. Cardinality({i \in Issues : index'[i] # 0}) = next
      BY <2>2, <2>4, <2>6
    <2> QED
      BY <2>8, <2>9
  <1>3. /\ index' \in [Issues -> Nat] /\ lowlink' \in [Issues -> Nat]
        /\ left' \in [Issues -> SUBSET Issues]
        /\ index'[n] = next /\ lowlink'[n] = next /\ left'[n] = Needs(graph, n)
        /\ \A m \in Issues \ {n} : index'[m] = index[m] /\ lowlink'[m] = lowlink[m] /\ left'[m] = left[m]
    BY <1>1, <1>2 DEF Visit, CycleTypes, Needs, Batch
  <1> HIDE DEF next
  <1>4. /\ stack' \in Seq(Batch) /\ OnStack' = {n} \cup OnStack
        /\ calls' \in Seq(Batch) /\ Open' = {n} \cup Open
        /\ Len(calls') = Len(calls) + 1 /\ calls'[1] = n
        /\ \A k \in 1..Len(calls) : calls'[k + 1] = calls[k]
    <2>1. /\ stack' \in Seq(Batch) /\ ToSet(stack') = {n} \cup ToSet(stack)
      BY <1>t, Pushed
    <2>2. calls' \in Seq(Batch) /\ ToSet(calls') = {n} \cup ToSet(calls)
      BY <1>t, Pushed
    <2>4. Len(calls') = Len(calls) + 1 /\ calls'[1] = n
      BY <1>t, Pushed
    <2>3. \A k \in 1..Len(calls) : calls'[k + 1] = calls[k]
      BY <1>t, Pushed
    <2> QED
      BY <2>1, <2>2, <2>3, <2>4 DEF OnStack, Open
  <1>5. /\ OnStack \subseteq Batch /\ Open \subseteq OnStack /\ OnStack \subseteq Visited
        /\ Visited \subseteq Batch /\ n \notin Visited /\ Batch \subseteq Issues
        /\ \A m \in Issues : index[m] \in Nat /\ lowlink[m] \in Nat
    BY <1>1, Told DEF Visited, CycleTypes
  <1>6. Visited' = {n} \cup Visited /\ Settled' = Settled
    <2>1. Visited' = {n} \cup Visited
      BY <1>1, <1>2, <1>3, <1>5 DEF Visited
    <2> QED
      BY <1>4, <1>5, <2>1 DEF Settled
  <1>7. \A g \in Open : Leads(graph, g, n)
    <2>1. ASSUME NEW g \in Open PROVE Leads(graph, g, n)
      <3>1. calls # <<>>
        BY DEF Open, ToSet
      <3>2. n \in left[Top] /\ Top \in Open /\ (g = Top \/ index[g] < index[Top])
        BY <1>1, <3>1, TopIsLast DEF Asked
      <3>3. Leads(graph, Top, n)
        BY <1>1, <1>5, <3>2, Edge DEF Looked
      <3>4. g = Top \/ Leads(graph, g, Top)
        BY <1>1, <1>5, <3>2 DEF Above
      <3> QED
        BY <3>3, <3>4, LeadsOn
    <2> QED
      BY <2>1
  <1>8. CycleTypes'
    BY <1>1, <1>3, <1>4, <1>6 DEF CycleTypes
  <1>9. Shape'
    <2>1. Falling(stack', index') /\ Falling(calls', index')
      <3>1. \A m \in OnStack : index'[m] = index[m] /\ index'[n] > index[m]
        BY <1>2, <1>3, <1>5
      <3>2. Falling(stack', index')
        BY <1>t, <3>1, PushedFalls DEF OnStack
      <3>3. \A m \in ToSet(calls) : index'[m] = index[m] /\ index'[n] > index[m]
        BY <1>5, <3>1 DEF Open
      <3>4. Falling(calls', index')
        BY <1>t, <3>3, PushedFalls
      <3> QED
        BY <3>2, <3>4
    <2>2. Open' \subseteq OnStack' /\ OnStack' \subseteq Visited'
      BY <1>4, <1>5, <1>6
    <2>3. \A i \in Issues : index'[i] <= next
      BY <1>2, <1>3, <1>5
    <2>4. ASSUME NEW k \in DOMAIN calls', k > 1 PROVE calls'[k - 1] \in left'[calls'[k]]
      <3>1. Len(calls) \in Nat /\ DOMAIN calls = 1..Len(calls) /\ k \in 1..Len(calls) + 1
        BY <1>1, <1>4 DEF CycleTypes
      <3>2. k - 1 \in 1..Len(calls) /\ (k - 1) + 1 = k
        BY <2>4, <3>1
      <3>3. calls'[k] = calls[k - 1] /\ calls[k - 1] \in Open
        BY <1>4, <3>1, <3>2 DEF Open, ToSet
      <3>4. left'[calls'[k]] = left[calls[k - 1]]
        BY <1>3, <1>5, <3>3
      <3>5. CASE k = 2
        <4>1. calls # <<>> /\ k - 1 = 1
          BY <3>2, <3>5
        <4> QED
          BY <1>4, <3>4, <4>1 DEF Asked, Top
      <3>6. CASE k # 2
        <4>1. k - 1 > 1 /\ k - 1 \in DOMAIN calls /\ (k - 1) - 1 \in 1..Len(calls)
              /\ ((k - 1) - 1) + 1 = k - 1
          BY <2>4, <3>1, <3>6
        <4>2. calls[(k - 1) - 1] \in left[calls[k - 1]]
          BY <1>1, <4>1 DEF Shape
        <4> QED
          BY <1>4, <3>4, <4>1, <4>2
      <3> QED
        BY <3>5, <3>6
    <2> QED
      BY <1>2, <2>1, <2>2, <2>3, <2>4 DEF Shape
  <1>10. Looked'
    <2>1. ASSUME NEW m \in Issues, left'[m] # {}
          PROVE  m \in Open' /\ left'[m] \subseteq Needs(graph, m)
      BY <1>1, <1>3, <1>4, <2>1 DEF Looked
    <2>2. ASSUME NEW m \in Visited' PROVE Needs(graph, m) \ left'[m] \subseteq Visited'
      BY <1>1, <1>3, <1>5, <1>6, <2>2 DEF Looked
    <2> QED
      BY <1>1, <2>1, <2>2 DEF Looked
  <1>11. Above'
    <2>1. ASSUME NEW g \in Open', NEW m \in OnStack', index'[m] > index'[g] PROVE Leads(graph, g, m)
      <3>1. g # n
        <4>1. index'[m] <= next
          <5>1. CASE m = n
            BY <1>2, <1>3, <5>1
          <5>2. CASE m # n
            <6>1. m \in Issues \ {n}
              BY <1>4, <1>5, <5>2
            <6>2. index'[m] = index[m] /\ index[m] < next /\ index[m] \in Nat
              BY <1>2, <1>3, <1>5, <6>1
            <6> QED
              BY <1>2, <6>2
          <5> QED
            BY <5>1, <5>2
        <4>2. index'[m] \in Nat
          BY <1>3, <1>4, <1>5
        <4> QED
          BY <1>2, <1>3, <2>1, <4>1, <4>2
      <3>2. CASE m = n
        BY <1>4, <1>7, <3>1, <3>2
      <3>3. CASE m # n
        BY <1>1, <1>3, <1>4, <1>5, <2>1, <3>1, <3>3 DEF Above
      <3> QED
        BY <3>2, <3>3
    <2> QED
      BY <1>1, <2>1 DEF Above
  <1>12. Below'
    <2>1. ASSUME NEW m \in OnStack' PROVE \E g \in Open' : index'[g] <= index'[m] /\ Reaches(graph, m, g)
      <3>1. CASE m = n
        BY <1>2, <1>3, <1>4, <3>1 DEF Reaches
      <3>2. CASE m # n
        <4>1. PICK g \in Open : index[g] <= index[m] /\ Reaches(graph, m, g)
          BY <1>1, <1>4, <3>2 DEF Below
        <4> QED
          BY <1>3, <1>4, <1>5, <3>2, <4>1
      <3> QED
        BY <3>1, <3>2
    <2> QED
      BY <1>1, <2>1 DEF Below
  <1>13. Linked'
    <2>1. ASSUME NEW m \in OnStack'
          PROVE  lowlink'[m] <= index'[m] /\ \E w \in OnStack' : index'[w] = lowlink'[m] /\ Reaches(graph, m, w)
      <3>1. CASE m = n
        BY <1>2, <1>3, <1>4, <3>1 DEF Reaches
      <3>2. CASE m # n
        <4>1. PICK w \in OnStack : index[w] = lowlink[m] /\ Reaches(graph, m, w)
          BY <1>1, <1>4, <3>2 DEF Linked
        <4>2. lowlink[m] <= index[m]
          BY <1>1, <1>4, <3>2 DEF Linked
        <4> QED
          BY <1>3, <1>4, <1>5, <3>2, <4>1, <4>2
      <3> QED
        BY <3>1, <3>2
    <2> QED
      BY <1>1, <2>1 DEF Linked
  <1>14. Low'
    <2>1. ASSUME NEW g \in Open', NEW m \in OnStack', Under(m, g)',
                 NEW d \in (Needs(graph, m) \ left'[m]) \cap OnStack'
          PROVE  lowlink'[g] <= index'[d]
      <3>1. /\ index'[g] <= index'[m]
            /\ \A h \in Open' : index'[h] <= index'[m] => index'[h] <= index'[g]
        BY <2>1 DEF Under
      <3>2. m # n
        BY <1>3, <2>1
      <3>3. g # n
        <4>1. m \in Issues \ {n}
          BY <1>4, <1>5, <3>2
        <4>2. index'[m] = index[m] /\ index[m] < next /\ index[m] \in Nat
          BY <1>2, <1>3, <1>5, <4>1
        <4> QED
          BY <1>2, <1>3, <3>1, <4>2
      <3>4. m \in OnStack /\ g \in Open /\ index'[m] = index[m] /\ index'[g] = index[g]
            /\ lowlink'[g] = lowlink[g] /\ left'[m] = left[m]
        BY <1>3, <1>4, <1>5, <3>2, <3>3
      <3>5. \A h \in Open : index'[h] = index[h] /\ h \in Open'
        BY <1>3, <1>4, <1>5
      <3>6. Under(m, g)
        BY <3>1, <3>4, <3>5 DEF Under
      <3>7. d \in Visited
        BY <1>1, <1>5, <2>1, <3>4 DEF Looked
      <3>8. d \in OnStack /\ index'[d] = index[d]
        BY <1>3, <1>4, <1>5, <2>1, <3>7
      <3> QED
        BY <1>1, <2>1, <3>4, <3>6, <3>8 DEF Low
    <2> QED
      BY <1>1, <2>1 DEF Low
  <1>15. Apart'
    BY <1>1, <1>6 DEF Apart
  <1> QED
    BY <1>8, <1>9, <1>10, <1>11, <1>12, <1>13, <1>14, <1>15 DEF CycleInv

LEMMA LowerOf ==
    ASSUME NEW a \in Nat, NEW b \in Nat
    PROVE  Min({a, b}) \in {a, b} /\ Min({a, b}) <= a /\ Min({a, b}) <= b /\ Min({a, b}) \in Nat
  <1>1. {a, b} \subseteq Nat /\ {a, b} # {}
    OBVIOUS
  <1>2. Min({a, b}) \in {a, b} /\ \A n \in {a, b} : Min({a, b}) <= n
    BY <1>1, LeastOf
  <1> QED
    BY <1>2

\* The dependency d of the call at the top was visited before.
LooksBack(d) ==
    /\ calls # <<>> /\ d \in left[Top] /\ index[d] # 0
    /\ lowlink' = [lowlink EXCEPT ![Top] = IF LowersLowlink(d) THEN Min({@, index[d]}) ELSE @]
    /\ left' = [left EXCEPT ![Top] = @ \ {d}]
    /\ UNCHANGED <<graph, index, stack, calls, cyclic>>

LEMMA LookKeeps ==
    ASSUME CycleInv, NEW d, LooksBack(d)
    PROVE  CycleInv'
  <1>1. /\ CycleTypes /\ Shape /\ Looked /\ Above /\ Below /\ Linked /\ Low /\ Apart
        /\ graph' = graph /\ index' = index /\ stack' = stack /\ calls' = calls /\ cyclic' = cyclic
        /\ calls # <<>> /\ d \in left[Top]
    BY DEF CycleInv, LooksBack
  <1>2. /\ Batch' = Batch /\ OnStack' = OnStack /\ Open' = Open /\ Visited' = Visited
        /\ Settled' = Settled
    BY <1>1 DEF Batch, OnStack, Open, Visited, Settled
  <1>3. /\ OnStack \subseteq Batch /\ Open \subseteq OnStack /\ OnStack \subseteq Visited
        /\ Visited \subseteq Batch /\ Batch \subseteq Issues
        /\ \A m \in Issues : index[m] \in Nat /\ lowlink[m] \in Nat
    BY <1>1, Told DEF CycleTypes
  <1>4. /\ Top \in Open /\ \A h \in Open : h = Top \/ index[h] < index[Top]
    BY <1>1, TopIsLast
  <1>5. d \in Needs(graph, Top) /\ d \in Visited
    <2>1. d \in Needs(graph, Top)
      BY <1>1, <1>3, <1>4 DEF Looked
    <2> QED
      BY <2>1 DEF Needs, Visited, Batch, LooksBack
  <1>6. /\ Top \in Issues /\ lowlink'[Top] \in Nat /\ lowlink'[Top] <= lowlink[Top]
        /\ lowlink'[Top] = lowlink[Top] \/ (d \in OnStack /\ lowlink'[Top] = index[d])
        /\ d \in OnStack => lowlink'[Top] <= index[d]
    <2>1. Top \in Issues /\ index[d] \in Nat /\ lowlink[Top] \in Nat
      BY <1>3, <1>4, <1>5
    <2>2. lowlink'[Top] = IF d \in OnStack THEN Min({lowlink[Top], index[d]}) ELSE lowlink[Top]
      BY <1>1, <2>1 DEF LooksBack, LowersLowlink, OnStack, CycleTypes
    <2> QED
      BY <2>1, <2>2, LowerOf
  <1>7. \A m \in Issues \ {Top} : lowlink'[m] = lowlink[m] /\ left'[m] = left[m]
    BY <1>1 DEF LooksBack, CycleTypes
  <1>8. left'[Top] = left[Top] \ {d}
    BY <1>1, <1>6 DEF LooksBack, CycleTypes
  <1>9. lowlink' \in [Issues -> Nat] /\ left' \in [Issues -> SUBSET Issues]
    <2>1. left' \in [Issues -> SUBSET Issues]
      BY <1>1 DEF LooksBack, CycleTypes
    <2>2. IF LowersLowlink(d) THEN Min({lowlink[Top], index[d]}) \in Nat ELSE lowlink[Top] \in Nat
      BY <1>3, <1>4, <1>5, LowerOf
    <2>3. lowlink' \in [Issues -> Nat]
      BY <1>1, <2>2 DEF LooksBack, CycleTypes
    <2> QED
      BY <2>1, <2>3
  <1>10. CycleTypes'
    BY <1>1, <1>2, <1>9 DEF CycleTypes
  <1>11. Shape'
    <2>1. ASSUME NEW k \in DOMAIN calls, k > 1 PROVE calls[k - 1] \in left'[calls[k]]
      <3>1. calls[k - 1] \in left[calls[k]]
        BY <1>1, <2>1 DEF Shape
      <3>2. calls[k] \in Open /\ 1 \in DOMAIN calls /\ 1 < k
        BY <1>1, <2>1, TopIsLast DEF Open, ToSet
      <3>3. index[calls[1]] > index[calls[k]]
        BY <1>1, <2>1, <3>2 DEF Shape, Falling
      <3>4. calls[k] \in Issues /\ calls[k] # Top
        BY <1>3, <3>2, <3>3 DEF Top
      <3> QED
        BY <1>7, <3>1, <3>4
    <2> QED
      BY <1>1, <1>2, <2>1 DEF Shape
  <1>12. Looked'
    <2>1. ASSUME NEW m \in Issues, left'[m] # {}
          PROVE  m \in Open /\ left'[m] \subseteq Needs(graph, m)
      BY <1>1, <1>6, <1>7, <1>8, <2>1 DEF Looked
    <2>2. ASSUME NEW m \in Visited PROVE Needs(graph, m) \ left'[m] \subseteq Visited
      BY <1>1, <1>3, <1>5, <1>7, <1>8, <2>2 DEF Looked
    <2> QED
      BY <1>1, <1>2, <2>1, <2>2 DEF Looked
  <1>13. Above' /\ Below'
    BY <1>1, <1>2 DEF Above, Below
  <1>14. Linked'
    <2>1. ASSUME NEW m \in OnStack
          PROVE  lowlink'[m] <= index[m] /\ \E w \in OnStack : index[w] = lowlink'[m] /\ Reaches(graph, m, w)
      <3>1. lowlink[m] <= index[m] /\ \E w \in OnStack : index[w] = lowlink[m] /\ Reaches(graph, m, w)
        BY <1>1 DEF Linked
      <3>2. m \in Issues /\ index[m] \in Nat /\ lowlink[m] \in Nat
        BY <1>3
      <3>3. CASE m # Top
        BY <1>7, <3>1, <3>2, <3>3
      <3>4. CASE m = Top
        <4>1. lowlink'[m] <= index[m]
          BY <1>6, <3>1, <3>2, <3>4
        <4>2. Reaches(graph, Top, d)
          BY <1>5, Edge DEF Reaches
        <4> QED
          BY <1>6, <3>1, <3>4, <4>1, <4>2
      <3> QED
        BY <3>3, <3>4
    <2> QED
      BY <1>1, <1>2, <2>1 DEF Linked
  <1>15. Low'
    <2>1. ASSUME NEW g \in Open, NEW m \in OnStack, Under(m, g),
                 NEW e \in (Needs(graph, m) \ left'[m]) \cap OnStack
          PROVE  lowlink'[g] <= index[e]
      <3>1. /\ g \in Issues /\ m \in Issues /\ e \in Issues /\ index[e] \in Nat
            /\ lowlink'[g] \in Nat /\ lowlink[g] \in Nat /\ lowlink'[g] <= lowlink[g]
        BY <1>3, <1>6, <1>7
      <3>2. CASE e \notin left[m]
        <4>1. lowlink[g] <= index[e]
          BY <1>1, <2>1, <3>2 DEF Low
        <4> QED
          BY <3>1, <4>1
      <3>3. CASE e \in left[m]
        <4>1. m = Top /\ e = d
          BY <1>7, <1>8, <2>1, <3>1, <3>3
        <4>2. index[Top] <= index[g]
          <5>1. index[Top] \in Nat
            BY <1>3, <1>4
          <5> QED
            BY <1>4, <2>1, <4>1, <5>1 DEF Under
        <4>3. g = Top
          BY <1>3, <1>4, <4>2
        <4> QED
          BY <1>6, <2>1, <4>1, <4>3
      <3> QED
        BY <3>2, <3>3
    <2>2. \A g \in Open, m \in OnStack : Under(m, g)' => Under(m, g)
      BY <1>1, <1>2 DEF Under
    <2> QED
      BY <1>1, <1>2, <2>1, <2>2 DEF Low
  <1>16. Apart'
    BY <1>1, <1>2 DEF Apart
  <1> QED
    BY <1>10, <1>11, <1>12, <1>13, <1>14, <1>15, <1>16 DEF CycleInv

(***************************************************************************)
(* What a return does to the calls, whatever it finds.                     *)
(***************************************************************************)
LEMMA Popped ==
    ASSUME CycleTypes, Shape, calls # <<>>, calls' = Tail(calls), index' = index
    PROVE  /\ calls' \in Seq(Batch) /\ Falling(calls', index')
           /\ Open' = Open \ {Top}
           /\ \A k \in DOMAIN calls' : k + 1 \in DOMAIN calls /\ calls'[k] = calls[k + 1]
  <1>1. /\ calls \in Seq(Batch) /\ Len(calls) \in Nat \ {0} /\ DOMAIN calls = 1..Len(calls)
        /\ Falling(calls, index) /\ 1 \in 1..Len(calls)
    BY TopIsLast DEF CycleTypes, Shape
  <1>2. /\ calls' \in Seq(Batch) /\ Len(calls') = Len(calls) - 1
        /\ DOMAIN calls' = 1..Len(calls) - 1
        /\ \A k \in 1..Len(calls') : calls'[k] = calls[k + 1]
    BY <1>1
  <1>3. \A m \in Batch : index[m] \in Nat
    BY Told
  <1>4. /\ Falling(calls', index)
        /\ ToSet(calls') = Earlier(calls, index, calls[1])
    <2>1. PICK j \in 1..Len(calls) : j = 1
      BY <1>1
    <2>2. IsRest(calls', calls, j)
      BY <1>2, <2>1 DEF IsRest
    <2>5. /\ calls \in Seq(Batch) /\ calls' \in Seq(Batch) /\ Falling(calls, index)
          /\ \A m \in Batch : index[m] \in Nat
      BY <1>1, <1>2, <1>3
    <2>3. Falling(calls', index)
      BY ONLY <2>2, <2>5, Dropped, SMTT(30)
    <2>4. ToSet(calls') = Earlier(calls, index, calls[j])
      BY ONLY <2>2, <2>5, Dropped, SMTT(30)
    <2> QED
      BY <2>1, <2>3, <2>4
  <1>5. /\ Top \in Open /\ \A h \in Open : h = Top \/ index[h] < index[Top]
        /\ index[Top] \in Nat
    BY <1>3, TopIsLast, Told
  <1>6. Open' = Open \ {Top}
    <2>1. \A m : m \in Open' <=> m \in Open /\ index[m] < index[Top]
      BY <1>4 DEF Open, Top, Earlier
    <2> QED
      BY <1>5, <2>1
  <1>7. ASSUME NEW k \in DOMAIN calls' PROVE k + 1 \in DOMAIN calls /\ calls'[k] = calls[k + 1]
    BY <1>1, <1>2
  <1> QED
    BY <1>2, <1>4, <1>6, <1>7

\* The call below the returning one is told of its lowlink and goes on.
Merged(p) ==
    /\ p \in Open \ {Top} /\ Top \in left[p]
    /\ \A h \in Open \ {Top} : h = p \/ index[h] < index[p]
    /\ left'[p] = left[p] \ {Top}
    /\ lowlink'[p] = Min({lowlink[p], lowlink[Top]})
    /\ \A m \in Issues \ {p} : left'[m] = left[m] /\ lowlink'[m] = lowlink[m]

LEMMA ReturnMerges ==
    ASSUME CycleInv, Return
    PROVE  /\ left' \in [Issues -> SUBSET Issues] /\ lowlink' \in [Issues -> Nat]
           /\ Len(calls) = 1 => left' = left /\ lowlink' = lowlink
           /\ Len(calls) # 1 => Merged(calls[2])
  <1>1. CycleTypes /\ Shape /\ calls # <<>>
    BY DEF CycleInv, Return
  <1>2. /\ index \in [Issues -> Nat] /\ lowlink \in [Issues -> Nat]
        /\ left \in [Issues -> SUBSET Issues]
    BY <1>1 DEF CycleTypes
  <1>3. CASE Len(calls) = 1
    BY <1>2, <1>3 DEF Return
  <1>4. CASE Len(calls) # 1
    <2>1. /\ calls[2] \in Open \ {Top} /\ Top \in left[calls[2]]
          /\ \A h \in Open \ {Top} : h = calls[2] \/ index[h] < index[calls[2]]
      BY <1>1, <1>4, SecondIsLast
    <2>2. calls[2] \in Issues /\ lowlink[calls[2]] \in Nat /\ lowlink[Top] \in Nat
      BY <1>1, <1>2, <2>1, Told, TopIsLast
    <2>3. /\ left' = [left EXCEPT ![calls[2]] = @ \ {Top}]
          /\ lowlink' = [lowlink EXCEPT ![calls[2]] = Min({@, lowlink[Top]})]
      BY <1>4 DEF Return
    <2>4. Min({lowlink[calls[2]], lowlink[Top]}) \in Nat
      BY <2>2, LowerOf
    <2>5. left' \in [Issues -> SUBSET Issues] /\ lowlink' \in [Issues -> Nat]
      BY <1>2, <2>3, <2>4
    <2>6. Merged(calls[2])
      BY <1>2, <2>1, <2>2, <2>3 DEF Merged
    <2> QED
      BY <1>4, <2>5, <2>6
  <1> QED
    BY <1>3, <1>4

LEMMA ReturnPops ==
    ASSUME CycleInv, Return
    PROVE  /\ graph' = graph /\ index' = index /\ Batch' = Batch /\ Visited' = Visited
           /\ calls' \in Seq(Batch) /\ Falling(calls', index') /\ Open' = Open \ {Top}
           /\ Top \in Open /\ left[Top] = {}
           /\ \A k \in DOMAIN calls' : k > 1 => calls'[k - 1] \in left'[calls'[k]]
           /\ Looked'
           /\ \A m \in Issues : lowlink'[m] <= lowlink[m]
  <1>1. /\ CycleTypes /\ Shape /\ Looked /\ calls # <<>> /\ left[Top] = {}
        /\ graph' = graph /\ index' = index /\ calls' = Tail(calls)
    BY DEF CycleInv, Return
  <1>2. Batch' = Batch /\ Visited' = Visited
    BY <1>1 DEF Batch, Visited
  <1>3. /\ calls' \in Seq(Batch) /\ Falling(calls', index') /\ Open' = Open \ {Top}
        /\ \A k \in DOMAIN calls' : k + 1 \in DOMAIN calls /\ calls'[k] = calls[k + 1]
    BY <1>1, Popped
  <1>4. /\ Top \in Open /\ Open \subseteq Visited /\ Visited \subseteq Issues
        /\ \A m \in Issues : lowlink[m] \in Nat
        /\ DOMAIN calls = 1..Len(calls) /\ Len(calls) \in Nat \ {0}
    BY <1>1, Told, TopIsLast DEF CycleTypes
  <1>5. Len(calls) = 1 => left' = left /\ lowlink' = lowlink
    BY ReturnMerges
  <1>6. Len(calls) # 1 => Merged(calls[2])
    BY ReturnMerges
  <1>7. \A m \in Issues : left'[m] \subseteq left[m] /\ left[m] \subseteq left'[m] \cup {Top}
    BY <1>5, <1>6 DEF Merged
  <1>8. ASSUME NEW k \in DOMAIN calls', k > 1 PROVE calls'[k - 1] \in left'[calls'[k]]
    <2>1. k \in Nat /\ k + 1 \in DOMAIN calls /\ calls'[k] = calls[k + 1]
      BY <1>3, <1>4, <1>8
    <2>2. DOMAIN calls' = 1..Len(calls') /\ Len(calls') \in Nat
      BY <1>3
    <2>3. k - 1 \in DOMAIN calls' /\ (k - 1) + 1 = k /\ (k + 1) - 1 = k
      BY <1>8, <2>1, <2>2
    <2>4. calls'[k - 1] = calls[k] /\ k \in DOMAIN calls
      BY <1>3, <2>3
    <2>5. calls[k] \in left[calls[k + 1]]
      BY <1>1, <1>8, <2>1, <2>3 DEF Shape
    <2>6. Len(calls) # 1 /\ 2 \in DOMAIN calls /\ 2 < k + 1 /\ calls[k + 1] \in Open
      BY <1>4, <1>8, <2>1 DEF Open, ToSet
    <2>7. index[calls[2]] > index[calls[k + 1]]
      BY <1>1, <2>1, <2>6 DEF Shape, Falling
    <2>8. /\ calls[2] \in Open /\ index[calls[2]] \in Nat /\ index[calls[k + 1]] \in Nat
          /\ calls[k + 1] \in Issues
      BY <1>1, <1>4, <2>6 DEF Open, ToSet, CycleTypes
    <2>9. left'[calls[k + 1]] = left[calls[k + 1]]
      <3>1. calls[k + 1] \in Issues \ {calls[2]}
        BY <2>7, <2>8
      <3> QED
        BY <1>6, <2>6, <3>1 DEF Merged
    <2> QED
      BY <2>1, <2>4, <2>5, <2>9
  <1>9. Looked'
    <2>1. ASSUME NEW m \in Issues, left'[m] # {}
          PROVE  m \in Open' /\ left'[m] \subseteq Needs(graph, m)
      <3>1. left[m] # {} /\ left'[m] \subseteq left[m]
        BY <1>7, <2>1
      <3>2. m # Top
        BY <1>1, <3>1
      <3> QED
        BY <1>1, <1>3, <3>1, <3>2 DEF Looked
    <2>2. ASSUME NEW m \in Visited PROVE Needs(graph, m) \ left'[m] \subseteq Visited
      <3>1. left[m] \subseteq left'[m] \cup {Top} /\ Top \in Visited
        BY <1>4, <1>7, <2>2
      <3> QED
        BY <1>1, <2>2, <3>1 DEF Looked
    <2> QED
      BY <1>1, <1>2, <2>1, <2>2 DEF Looked
  <1>10. ASSUME NEW m \in Issues PROVE lowlink'[m] <= lowlink[m]
    <2>1. lowlink[m] \in Nat /\ lowlink[Top] \in Nat
      BY <1>4
    <2>2. Min({lowlink[m], lowlink[Top]}) <= lowlink[m]
      BY <2>1, LowerOf
    <2> QED
      BY <1>5, <1>6, <2>1, <2>2 DEF Merged
  <1> QED
    BY <1>1, <1>2, <1>3, <1>4, <1>8, <1>9, <1>10

(***************************************************************************)
(* A return from an issue that reaches an earlier one: its component is    *)
(* not complete yet.                                                       *)
(***************************************************************************)
LEMMA ReturnKeeps ==
    ASSUME CycleInv, Return, lowlink[Top] # index[Top]
    PROVE  CycleInv'
  <1>1. /\ CycleTypes /\ Shape /\ Looked /\ Above /\ Below /\ Linked /\ Low /\ Apart
        /\ calls # <<>> /\ stack' = stack /\ cyclic' = cyclic
    BY DEF CycleInv, Return
  <1>2. /\ graph' = graph /\ index' = index /\ Batch' = Batch /\ Visited' = Visited
        /\ calls' \in Seq(Batch) /\ Falling(calls', index') /\ Open' = Open \ {Top}
        /\ Top \in Open /\ left[Top] = {}
        /\ \A k \in DOMAIN calls' : k > 1 => calls'[k - 1] \in left'[calls'[k]]
        /\ Looked'
        /\ \A m \in Issues : lowlink'[m] <= lowlink[m]
    BY ReturnPops
  <1>3. /\ left' \in [Issues -> SUBSET Issues] /\ lowlink' \in [Issues -> Nat]
    BY ReturnMerges
  <1>4. OnStack' = OnStack /\ Settled' = Settled
    BY <1>1, <1>2 DEF OnStack, Settled
  <1>5. /\ OnStack \subseteq Batch /\ Open \subseteq OnStack /\ OnStack \subseteq Visited
        /\ Visited \subseteq Batch /\ Batch \subseteq Issues
        /\ \A m \in Issues : index[m] \in Nat /\ lowlink[m] \in Nat /\ lowlink'[m] \in Nat
        /\ \A a, b \in OnStack : index[a] = index[b] => a = b
    BY <1>1, <1>3, Told DEF CycleTypes
  <1>6. \A h \in Open : h = Top \/ index[h] < index[Top]
    BY <1>1, TopIsLast
  <1>7. PICK w \in OnStack : index[w] = lowlink[Top] /\ Reaches(graph, Top, w)
    BY <1>1, <1>2, <1>5 DEF Linked
  <1>8. index[w] < index[Top]
    <2>1. lowlink[Top] <= index[Top]
      BY <1>1, <1>2, <1>5 DEF Linked
    <2>2. Top \in Issues /\ w \in Issues
      BY <1>2, <1>5
    <2> QED
      BY <1>5, <1>7, <2>1, <2>2
  <1>9. PICK u \in Open' : index[u] <= index[w] /\ Reaches(graph, w, u)
    <2>1. PICK g \in Open : index[g] <= index[w] /\ Reaches(graph, w, g)
      BY <1>1 DEF Below
    <2>2. g \in Issues /\ w \in Issues /\ Top \in Issues
      BY <1>2, <1>5
    <2>3. g # Top
      BY <1>5, <1>8, <2>1, <2>2
    <2> QED
      BY <1>2, <2>1, <2>3
  <1>10. PICK p \in Issues : Merged(p)
    <2>1. Len(calls) # 1
      <3>1. PICK k \in DOMAIN calls : u = calls[k] /\ k # 1
        BY <1>2, <1>9 DEF Open, ToSet, Top
      <3> QED
        BY <1>1, <3>1, TopIsLast
    <2>2. Merged(calls[2])
      BY <2>1, ReturnMerges
    <2> QED
      BY <1>5, <2>2 DEF Merged
  <1>11. /\ p \in Open \ {Top} /\ Top \in left[p] /\ p \in Issues /\ Top \in Issues
         /\ index[p] < index[Top] /\ \A h \in Open \ {Top} : index[h] <= index[p]
         /\ left'[p] = left[p] \ {Top}
         /\ lowlink'[p] <= lowlink[Top]
         /\ lowlink'[p] = lowlink[p] \/ lowlink'[p] = lowlink[Top]
         /\ \A m \in Issues \ {p} : left'[m] = left[m] /\ lowlink'[m] = lowlink[m]
    <2>1. p \in Open \ {Top} /\ Top \in Issues /\ lowlink[p] \in Nat /\ lowlink[Top] \in Nat
      BY <1>2, <1>5, <1>10 DEF Merged
    <2>2. lowlink'[p] = Min({lowlink[p], lowlink[Top]})
      BY <1>10 DEF Merged
    <2>3. \A h \in Open \ {Top} : index[h] <= index[p]
      BY <1>5, <1>10 DEF Merged
    <2> QED
      BY <1>6, <1>10, <2>1, <2>2, <2>3, LowerOf DEF Merged
  <1>12. CycleTypes'
    BY <1>1, <1>2, <1>3, <1>4 DEF CycleTypes
  <1>13. Shape'
    BY <1>1, <1>2, <1>4 DEF Shape
  <1>14. Above'
    BY <1>1, <1>2, <1>4 DEF Above
  <1>15. Below'
    <2>1. ASSUME NEW m \in OnStack PROVE \E g \in Open' : index[g] <= index[m] /\ Reaches(graph, m, g)
      <3>1. PICK g \in Open : index[g] <= index[m] /\ Reaches(graph, m, g)
        BY <1>1 DEF Below
      <3>2. CASE g # Top
        BY <1>2, <3>1, <3>2
      <3>3. CASE g = Top
        <4>1. Reaches(graph, m, u)
          BY <1>7, <1>9, <3>1, <3>3, ReachesOn
        <4>2. index[u] <= index[m]
          <5>1. index[u] \in Nat /\ index[w] \in Nat /\ index[Top] \in Nat /\ index[m] \in Nat
            BY <1>2, <1>5, <1>9
          <5> QED
            BY <1>8, <1>9, <3>1, <3>3, <5>1
        <4> QED
          BY <1>9, <4>1, <4>2
      <3> QED
        BY <3>2, <3>3
    <2> QED
      BY <1>2, <1>4, <2>1 DEF Below
  <1>16. Linked'
    <2>1. ASSUME NEW m \in OnStack
          PROVE  lowlink'[m] <= index[m] /\ \E v \in OnStack : index[v] = lowlink'[m] /\ Reaches(graph, m, v)
      <3>1. /\ lowlink[m] <= index[m] /\ m \in Issues /\ index[m] \in Nat
            /\ lowlink[m] \in Nat /\ lowlink'[m] \in Nat /\ lowlink'[m] <= lowlink[m]
        BY <1>1, <1>2, <1>5 DEF Linked
      <3>2. CASE lowlink'[m] = lowlink[m]
        <4>1. PICK v \in OnStack : index[v] = lowlink[m] /\ Reaches(graph, m, v)
          BY <1>1 DEF Linked
        <4> QED
          BY <3>1, <3>2, <4>1
      <3>3. CASE lowlink'[m] # lowlink[m]
        <4>1. m = p /\ lowlink'[m] = lowlink[Top]
          BY <1>11, <3>1, <3>3
        <4>2. Leads(graph, m, Top)
          BY <1>1, <1>11, <4>1, Edge DEF Looked
        <4>3. Reaches(graph, m, w)
          BY <1>7, <4>2, ReachesOn DEF Reaches
        <4> QED
          BY <1>7, <3>1, <4>1, <4>3
      <3> QED
        BY <3>2, <3>3
    <2> QED
      BY <1>2, <1>4, <2>1 DEF Linked
  <1>17. Low'
    <2>1. ASSUME NEW g \in Open', NEW m \in OnStack, Under(m, g)',
                 NEW d \in (Needs(graph, m) \ left'[m]) \cap OnStack
          PROVE  lowlink'[g] <= index[d]
      <3>1. /\ index[g] <= index[m] /\ g \in Open /\ g # Top
            /\ \A h \in Open \ {Top} : index[h] <= index[m] => index[h] <= index[g]
        BY <1>2, <2>1 DEF Under
      <3>2. /\ g \in Issues /\ m \in Issues /\ d \in Issues /\ index[g] \in Nat /\ index[m] \in Nat
            /\ index[d] \in Nat /\ index[Top] \in Nat /\ index[p] \in Nat /\ lowlink[Top] \in Nat
            /\ lowlink'[g] \in Nat /\ lowlink[g] \in Nat /\ lowlink'[g] <= lowlink[g]
        BY <1>2, <1>5, <1>11, <3>1
      <3>3. CASE index[m] < index[Top]
        <4>1. \A h \in Open : index[h] <= index[m] => index[h] <= index[g]
          <5>1. ~ (index[Top] <= index[m])
            BY <3>2, <3>3
          <5> QED
            BY <3>1, <5>1
        <4>2. Under(m, g)
          BY <3>1, <4>1 DEF Under
        <4>3. CASE d \notin left[m]
          <5>1. lowlink[g] <= index[d]
            BY <1>1, <2>1, <3>1, <4>2, <4>3 DEF Low
          <5> QED
            BY <3>2, <5>1
        <4>4. CASE d \in left[m]
          <5>1. m = p /\ d = Top
            BY <1>11, <2>1, <3>2, <4>4
          <5>2. index[p] <= index[g]
            BY <1>11, <3>1, <3>2, <5>1
          <5>3. g = p
            BY <1>5, <1>11, <3>1, <3>2, <5>1, <5>2
          <5>4. lowlink[Top] <= index[Top]
            BY <1>1, <1>2, <1>5 DEF Linked
          <5> QED
            BY <1>11, <3>2, <5>1, <5>3, <5>4
        <4> QED
          BY <4>3, <4>4
      <3>4. CASE ~ (index[m] < index[Top])
        <4>1. index[Top] <= index[m] /\ index[p] <= index[m] /\ m # p
          BY <1>11, <3>2, <3>4
        <4>2. Under(m, Top)
          <5>1. \A h \in Open : index[h] <= index[Top]
            <6>1. \A h \in Open : index[h] \in Nat
              BY <1>5
            <6> QED
              BY <1>6, <3>2, <6>1
          <5> QED
            BY <4>1, <5>1 DEF Under
        <4>3. lowlink[Top] <= index[d]
          BY <1>1, <1>2, <1>11, <2>1, <3>2, <4>1, <4>2 DEF Low
        <4>4. index[p] <= index[g] /\ index[g] <= index[p]
          BY <1>11, <3>1, <4>1
        <4>5. g = p
          BY <1>5, <1>11, <3>1, <3>2, <4>4
        <4> QED
          BY <1>11, <3>2, <4>3, <4>5
      <3> QED
        BY <3>3, <3>4
    <2> QED
      BY <1>2, <1>4, <2>1 DEF Low
  <1>18. Apart'
    BY <1>1, <1>2, <1>4 DEF Apart
  <1> QED
    BY <1>2, <1>12, <1>13, <1>14, <1>15, <1>16, <1>17, <1>18 DEF CycleInv

(***************************************************************************)
(* A return from an issue that reaches no earlier one: what is on the      *)
(* stack from it upwards is a component.                                   *)
(***************************************************************************)
LEMMA RestIsBelow ==
    ASSUME NEW S, NEW s \in Seq(S), NEW j \in 1..Len(s), NEW t, t = SubSeq(s, j + 1, Len(s))
    PROVE  t \in Seq(S) /\ IsRest(t, s, j)
  <1>1. /\ j \in Int /\ Len(s) \in Int /\ j <= Len(s) /\ j + 1 \in Int
        /\ \A i \in j + 1..Len(s) : s[i] \in S
    OBVIOUS
  <1>2. /\ t \in Seq(S) /\ Len(t) = IF j + 1 <= Len(s) THEN Len(s) - (j + 1) + 1 ELSE 0
        /\ \A i \in 1..Len(s) - (j + 1) + 1 : t[i] = s[(j + 1) + i - 1]
    BY <1>1, SubSeqProperties
  <1>3. Len(t) = Len(s) - j
    BY <1>1, <1>2
  <1>4. ASSUME NEW k \in 1..Len(t) PROVE t[k] = s[k + j]
    <2>1. k \in 1..Len(s) - (j + 1) + 1 /\ (j + 1) + k - 1 = k + j
      BY <1>1, <1>3
    <2> QED
      BY <1>2, <2>1
  <1> QED
    BY <1>2, <1>3, <1>4 DEF IsRest

LEMMA ComponentOf ==
    ASSUME CycleTypes, Shape, calls # <<>>, lowlink[Top] = index[Top], Return
    PROVE  /\ stack' \in Seq(Batch) /\ Falling(stack', index)
           /\ \A m : m \in Component(Top) <=> m \in OnStack /\ index[m] >= index[Top]
           /\ \A m : m \in OnStack' <=> m \in OnStack /\ index[m] < index[Top]
  <1>1. /\ stack \in Seq(Batch) /\ Falling(stack, index)
        /\ stack' = SubSeq(stack, Position(Top) + 1, Len(stack))
    BY DEF CycleTypes, Shape, Return
  <1>2. \A m \in Batch : index[m] \in Nat
    BY Told
  <1>3. Position(Top) \in DOMAIN stack /\ stack[Position(Top)] = Top
    <2>1. Top \in OnStack
      BY TopIsLast, Told
    <2>2. \E k \in DOMAIN stack : stack[k] = Top
      BY <2>1 DEF OnStack, ToSet
    <2> QED
      BY <2>2 DEF Position
  <1>4. PICK j \in DOMAIN stack : j = Position(Top) /\ stack[j] = Top
    BY <1>3
  <1>5. j \in 1..Len(stack) /\ stack' \in Seq(Batch) /\ IsRest(stack', stack, j)
    <2>1. j \in 1..Len(stack) /\ Len(stack) \in Nat
      BY <1>1
    <2>2. stack' = SubSeq(stack, j + 1, Len(stack))
      BY <1>1, <1>4
    <2> QED
      BY <1>1, <2>1, <2>2, RestIsBelow
  <1>f. /\ stack \in Seq(Batch) /\ stack' \in Seq(Batch) /\ Falling(stack, index)
        /\ \A m \in Batch : index[m] \in Nat
        /\ IsRest(stack', stack, j) /\ j \in 1..Len(stack)
    BY <1>1, <1>2, <1>5
  <1>6. Falling(stack', index)
    BY ONLY <1>f, Dropped, SMTT(30)
  <1>7. ToSet(stack') = Earlier(stack, index, stack[j])
    BY ONLY <1>f, Dropped, SMTT(30)
  <1>8. Topmost(stack, j) = Later(stack, index, stack[j])
    BY ONLY <1>f, Dropped, SMTT(30)
  <1>9. \A m : m \in Component(Top) <=> m \in OnStack /\ index[m] >= index[Top]
    BY <1>4, <1>8 DEF Component, Topmost, Later, OnStack
  <1>10. \A m : m \in OnStack' <=> m \in OnStack /\ index[m] < index[Top]
    BY <1>4, <1>7 DEF Earlier, OnStack
  <1> QED
    BY <1>5, <1>6, <1>9, <1>10

LEMMA ComponentLeads ==
    ASSUME CycleInv, calls # <<>>, left[Top] = {}, lowlink[Top] = index[Top],
           \A m : m \in Component(Top) <=> m \in OnStack /\ index[m] >= index[Top],
           NEW m \in Component(Top)
    PROVE  /\ Needs(graph, m) \subseteq Settled \cup Component(Top)
           /\ m \in CyclicMembers(Top) <=> Leads(graph, m, m)
  <1> DEFINE C == Component(Top)
  <1>1. /\ CycleTypes /\ Shape /\ Looked /\ Above /\ Below /\ Low /\ Apart
        /\ Top \in Open /\ \A h \in Open : h = Top \/ index[h] < index[Top]
    BY TopIsLast DEF CycleInv
  <1>2. /\ OnStack \subseteq Batch /\ Open \subseteq OnStack /\ OnStack \subseteq Visited
        /\ Visited \subseteq Batch /\ Batch \subseteq Issues
        /\ \A k \in Issues : index[k] \in Nat
        /\ \A a, b \in OnStack : index[a] = index[b] => a = b
    BY <1>1, Told DEF CycleTypes
  <1>3. /\ \A k \in C : k \in OnStack /\ k \in Issues /\ index[Top] <= index[k]
        /\ Top \in C /\ Top \in Issues /\ index[Top] \in Nat
    BY <1>1, <1>2
  <1>4. ASSUME NEW k \in C PROVE Needs(graph, k) \subseteq Settled \cup C
    <2>1. left[k] = {}
      <3>1. CASE k = Top
        BY <3>1
      <3>2. CASE k # Top
        <4>1. k \notin Open
          BY <1>1, <1>2, <1>3, <1>4, <3>2
        <4> QED
          BY <1>1, <1>3, <4>1 DEF Looked
      <3> QED
        BY <3>1, <3>2
    <2>2. Under(k, Top)
      <3>1. \A h \in Open : index[h] <= index[Top]
        BY <1>1, <1>2, <1>3
      <3> QED
        BY <1>3, <3>1 DEF Under
    <2>3. ASSUME NEW d \in Needs(graph, k) PROVE d \in Settled \cup C
      <3>1. d \in Visited
        BY <1>1, <1>2, <1>3, <2>1, <2>3 DEF Looked
      <3>2. CASE d \notin OnStack
        BY <3>1, <3>2 DEF Settled
      <3>3. CASE d \in OnStack
        <4>1. index[Top] <= index[d]
          BY <1>1, <1>3, <2>1, <2>2, <2>3, <3>3 DEF Low
        <4> QED
          BY <1>2, <1>3, <3>3, <4>1
      <3> QED
        BY <3>2, <3>3
    <2> QED
      BY <2>3
  <1>5. ASSUME NEW k \in C PROVE Reaches(graph, k, Top) /\ Reaches(graph, Top, k)
    <2>1. PICK g \in Open : index[g] <= index[k] /\ Reaches(graph, k, g)
      BY <1>1, <1>3 DEF Below
    <2>2. g = Top \/ Leads(graph, g, Top)
      BY <1>1, <1>2 DEF Above
    <2>3. Reaches(graph, k, Top)
      BY <2>1, <2>2, ReachesOn DEF Reaches
    <2>4. k = Top \/ index[k] > index[Top]
      BY <1>1, <1>2, <1>3
    <2>5. k = Top \/ Leads(graph, Top, k)
      BY <1>1, <1>3, <2>4 DEF Above
    <2> QED
      BY <2>3, <2>5 DEF Reaches
  <1>6. CASE C # {Top} \/ Top \in graph[Top]
    <2>1. Leads(graph, Top, Top)
      <3>1. CASE C # {Top}
        <4>1. PICK k \in C : k # Top
          BY <1>3, <3>1
        <4>2. Leads(graph, Top, k)
          BY <1>5, <4>1 DEF Reaches
        <4> QED
          BY <1>5, <4>2, ReachesOn
      <3>2. CASE Top \in graph[Top]
        BY <1>1, <1>2, <3>2, Edge DEF Needs, Batch
      <3> QED
        BY <1>6, <3>1, <3>2
    <2>2. Leads(graph, m, m)
      BY <1>5, <2>1, ReachesOn
    <2>3. CyclicMembers(Top) = C
      BY <1>6 DEF CyclicMembers
    <2> QED
      BY <1>4, <2>2, <2>3
  <1>7. CASE C = {Top} /\ Top \notin graph[Top]
    <2>1. CyclicMembers(Top) = {} /\ m = Top
      BY <1>7 DEF CyclicMembers
    <2>2. ~ Leads(graph, Top, Top)
      <3>1. Settled \subseteq DOMAIN graph /\ Top \notin Settled
        BY <1>1, <1>2 DEF Settled, Batch
      <3>2. \A k \in Settled \cup {Top} : Needs(graph, k) \subseteq Settled
        <4>1. Needs(graph, Top) \subseteq Settled
          BY <1>3, <1>4, <1>7 DEF Needs
        <4> QED
          BY <1>1, <4>1 DEF Apart
      <3> QED
        BY <3>1, <3>2 DEF Leads
    <2> QED
      BY <1>4, <2>1, <2>2
  <1> QED
    BY <1>6, <1>7

LEMMA ReturnTells ==
    ASSUME CycleInv, Return, lowlink[Top] = index[Top]
    PROVE  CycleInv'
  <1>1. /\ CycleTypes /\ Shape /\ Looked /\ Above /\ Below /\ Linked /\ Low /\ Apart
        /\ calls # <<>> /\ cyclic' = cyclic \cup CyclicMembers(Top) /\ cyclic \subseteq Settled
    BY DEF CycleInv, Return, CycleTypes
  <1>2. /\ graph' = graph /\ index' = index /\ Batch' = Batch /\ Visited' = Visited
        /\ calls' \in Seq(Batch) /\ Falling(calls', index') /\ Open' = Open \ {Top}
        /\ Top \in Open /\ left[Top] = {}
        /\ \A k \in DOMAIN calls' : k > 1 => calls'[k - 1] \in left'[calls'[k]]
        /\ Looked'
        /\ \A m \in Issues : lowlink'[m] <= lowlink[m]
    BY ReturnPops
  <1>3. /\ left' \in [Issues -> SUBSET Issues] /\ lowlink' \in [Issues -> Nat]
    BY ReturnMerges
  <1>4. /\ stack' \in Seq(Batch) /\ Falling(stack', index)
        /\ \A m : m \in Component(Top) <=> m \in OnStack /\ index[m] >= index[Top]
        /\ \A m : m \in OnStack' <=> m \in OnStack /\ index[m] < index[Top]
    BY <1>1, ComponentOf
  <1>5. /\ OnStack \subseteq Batch /\ Open \subseteq OnStack /\ OnStack \subseteq Visited
        /\ Visited \subseteq Batch /\ Batch \subseteq Issues
        /\ \A m \in Issues : index[m] \in Nat /\ lowlink[m] \in Nat
        /\ \A a, b \in OnStack : index[a] = index[b] => a = b
    BY <1>1, Told DEF CycleTypes
  <1>6. \A h \in Open : h = Top \/ index[h] < index[Top]
    BY <1>1, TopIsLast
  <1>7. Settled' = Settled \cup Component(Top) /\ Settled \cap Component(Top) = {}
    <2>1. \A m \in OnStack : m \in OnStack' \/ m \in Component(Top)
      BY <1>2, <1>4, <1>5
    <2>2. \A m \in Component(Top) : m \in OnStack /\ m \notin OnStack'
      BY <1>2, <1>4, <1>5
    <2>3. OnStack' \subseteq OnStack
      BY <1>4
    <2> QED
      BY <1>2, <1>5, <2>1, <2>2, <2>3 DEF Settled
  <1>8. CyclicMembers(Top) \subseteq Component(Top)
    BY DEF CyclicMembers
  <1>9. \A m \in Issues : index[m] < index[Top] =>
            /\ lowlink'[m] = lowlink[m] \/ index[m] < lowlink[m]
            /\ left'[m] = left[m] \/ left'[m] = left[m] \ {Top}
    <2>1. Top \in Issues /\ lowlink[Top] \in Nat
      BY <1>2, <1>5
    <2>2. CASE Len(calls) = 1
      BY <2>2, ReturnMerges
    <2>3. CASE Len(calls) # 1
      <3>1. PICK p : p = calls[2] /\ Merged(p)
        BY <2>3, ReturnMerges
      <3>2. /\ p \in Issues /\ left'[p] = left[p] \ {Top}
            /\ lowlink'[p] = Min({lowlink[p], index[Top]}) /\ lowlink[p] \in Nat
            /\ \A m \in Issues \ {p} : left'[m] = left[m] /\ lowlink'[m] = lowlink[m]
        BY <1>5, <3>1 DEF Merged
      <3>3. lowlink'[p] = lowlink[p] \/ lowlink'[p] = index[Top]
        BY <1>5, <2>1, <3>2, LowerOf
      <3>4. lowlink'[p] <= lowlink[p]
        BY <1>2, <3>2
      <3>5. index[p] < index[Top] => lowlink'[p] = lowlink[p] \/ index[p] < lowlink[p]
        <4>1. index[p] \in Nat /\ index[Top] \in Nat
          BY <1>5, <2>1, <3>2
        <4> QED
          BY <3>2, <3>3, <3>4, <4>1
      <3> QED
        BY <3>2, <3>5
    <2> QED
      BY <2>2, <2>3
  <1>10. \A m \in OnStack' :
            /\ m \in OnStack /\ m \in Issues /\ index[m] < index[Top]
            /\ lowlink'[m] = lowlink[m]
            /\ left'[m] = left[m] \/ left'[m] = left[m] \ {Top}
    <2>1. ASSUME NEW m \in OnStack' PROVE ~ (index[m] < lowlink[m])
      <3>1. lowlink[m] <= index[m] /\ m \in Issues
        BY <1>1, <1>4, <1>5 DEF Linked
      <3> QED
        BY <1>5, <3>1
    <2> QED
      BY <1>4, <1>5, <1>9, <2>1
  <1>11. \A g \in Open' : g \in Open /\ g \in OnStack'
    BY <1>2, <1>4, <1>5, <1>6
  <1>12. CycleTypes'
    BY <1>1, <1>2, <1>3, <1>4, <1>7, <1>8 DEF CycleTypes
  <1>13. Shape'
    BY <1>1, <1>2, <1>4, <1>5, <1>11 DEF Shape
  <1>14. Above'
    BY <1>1, <1>2, <1>10, <1>11 DEF Above
  <1>15. Below'
    <2>1. ASSUME NEW m \in OnStack' PROVE \E g \in Open' : index[g] <= index[m] /\ Reaches(graph, m, g)
      <3>1. PICK g \in Open : index[g] <= index[m] /\ Reaches(graph, m, g)
        BY <1>1, <1>10 DEF Below
      <3>2. index[m] < index[Top] /\ index[m] \in Nat /\ index[g] \in Nat /\ index[Top] \in Nat
        BY <1>2, <1>5, <1>10
      <3>3. g # Top
        BY <3>1, <3>2
      <3> QED
        BY <1>2, <3>1, <3>3
    <2> QED
      BY <1>2, <2>1 DEF Below
  <1>16. Linked'
    <2>1. ASSUME NEW m \in OnStack'
          PROVE  lowlink'[m] <= index[m] /\ \E v \in OnStack' : index[v] = lowlink'[m] /\ Reaches(graph, m, v)
      <3>1. /\ m \in OnStack /\ m \in Issues /\ index[m] < index[Top] /\ lowlink'[m] = lowlink[m]
        BY <1>10
      <3>2. lowlink[m] <= index[m]
        BY <1>1, <3>1 DEF Linked
      <3>3. PICK v \in OnStack : index[v] = lowlink[m] /\ Reaches(graph, m, v)
        BY <1>1, <3>1 DEF Linked
      <3>4. index[m] \in Nat /\ index[v] \in Nat /\ index[Top] \in Nat /\ lowlink[m] \in Nat
        BY <1>2, <1>5, <3>1
      <3>5. v \in OnStack'
        <4>1. index[v] < index[Top]
          BY <3>1, <3>2, <3>3, <3>4
        <4> QED
          BY <1>4, <4>1
      <3> QED
        BY <3>1, <3>2, <3>3, <3>5
    <2> QED
      BY <1>2, <2>1 DEF Linked
  <1>17. Low'
    <2>1. ASSUME NEW g \in Open', NEW m \in OnStack', Under(m, g)',
                 NEW d \in (Needs(graph, m) \ left'[m]) \cap OnStack'
          PROVE  lowlink'[g] <= index[d]
      <3>1. /\ index[g] <= index[m]
            /\ \A h \in Open \ {Top} : index[h] <= index[m] => index[h] <= index[g]
        BY <1>2, <2>1 DEF Under
      <3>2. /\ g \in Open /\ m \in OnStack /\ lowlink'[g] = lowlink[g] /\ index[m] < index[Top]
            /\ index[m] \in Nat /\ index[Top] \in Nat
        BY <1>2, <1>5, <1>10, <1>11
      <3>3. \A h \in Open : index[h] <= index[m] => index[h] <= index[g]
        <4>1. ~ (index[Top] <= index[m])
          BY <3>2
        <4> QED
          BY <3>1, <4>1
      <3>4. Under(m, g)
        BY <3>1, <3>3 DEF Under
      <3>5. d \in OnStack /\ index[d] < index[Top] /\ d # Top
        <4>1. index[d] < index[Top]
          BY <1>10
        <4>2. d # Top
          BY <3>2, <4>1
        <4> QED
          BY <1>10, <4>1, <4>2
      <3>6. d \in Needs(graph, m) \ left[m]
        BY <1>10, <2>1, <3>5
      <3> QED
        BY <1>1, <3>2, <3>4, <3>5, <3>6 DEF Low
    <2> QED
      BY <1>2, <2>1 DEF Low
  <1>18. Apart'
    <2>1. ASSUME NEW m \in Settled'
          PROVE  Needs(graph, m) \subseteq Settled' /\ (m \in cyclic' <=> Leads(graph, m, m))
      <3>1. CASE m \in Settled
        <4>1. Needs(graph, m) \subseteq Settled /\ (m \in cyclic <=> Leads(graph, m, m))
          BY <1>1, <3>1 DEF Apart
        <4>2. m \notin CyclicMembers(Top)
          BY <1>7, <1>8, <3>1
        <4> QED
          BY <1>1, <1>7, <4>1, <4>2
      <3>2. CASE m \in Component(Top)
        <4>1. /\ Needs(graph, m) \subseteq Settled \cup Component(Top)
              /\ m \in CyclicMembers(Top) <=> Leads(graph, m, m)
          BY <1>1, <1>2, <1>4, <3>2, ComponentLeads
        <4>2. m \notin cyclic
          BY <1>1, <1>7, <3>2
        <4> QED
          BY <1>1, <1>7, <4>1, <4>2
      <3> QED
        BY <1>7, <2>1, <3>1, <3>2
    <2> QED
      BY <1>2, <2>1 DEF Apart
  <1> QED
    BY <1>2, <1>12, <1>13, <1>14, <1>15, <1>16, <1>17, <1>18 DEF CycleInv

(***************************************************************************)
(* The search as a whole.                                                  *)
(***************************************************************************)
LEMMA SearchKeeps ==
    ASSUME CycleInv, DetectStep
    PROVE  CycleInv'
  <1>1. CycleTypes /\ Shape /\ Looked
    BY DEF CycleInv
  <1>2. CASE VisitRoot
    <2>1. PICK n \in Batch : calls = <<>> /\ index[n] = 0 /\ Visit(n)
      BY <1>2 DEF VisitRoot
    <2>2. n \in Batch \ Visited /\ Asked(n)
      BY <2>1 DEF Visited, Asked
    <2> QED
      BY <2>1, <2>2, VisitKeeps
  <1>3. CASE LookAtDependency
    <2>1. calls # <<>> /\ left[Top] # {}
      BY <1>3 DEF LookAtDependency
    <2>2. PICK d : d = Min(left[Top])
      OBVIOUS
    <2>3. left[Top] \subseteq Needs(graph, Top) /\ left[Top] \subseteq Issues
      BY <1>1, <2>1, TopIsLast, Told DEF Looked, CycleTypes
    <2>4. d \in left[Top]
      <3>1. left[Top] \subseteq Nat
        BY <2>3, IssuesAssumption
      <3> QED
        BY <2>1, <2>2, <3>1, LeastOf
    <2>5. CASE index[d] = 0 /\ Visit(d)
      <3>1. d \in Batch \ Visited /\ Asked(d)
        BY <2>3, <2>4, <2>5 DEF Visited, Asked, Needs, Batch
      <3> QED
        BY <2>5, <3>1, VisitKeeps
    <2>6. CASE ~ (index[d] = 0 /\ Visit(d))
      <3>1. LooksBack(d)
        BY <1>3, <2>1, <2>2, <2>4, <2>6 DEF LookAtDependency, LooksBack
      <3> QED
        BY <3>1, LookKeeps
    <2> QED
      BY <2>5, <2>6
  <1>4. CASE Return
    BY <1>4, ReturnKeeps, ReturnTells
  <1> QED
    BY <1>2, <1>3, <1>4 DEF DetectStep

LEMMA SearchStarts ==
    ASSUME NEW g, DOMAIN g \subseteq Issues, StartDetecting(g)
    PROVE  CycleInv'
  <1>1. /\ graph' = g /\ Batch' \subseteq Issues
        /\ index' = [i \in Issues |-> 0] /\ lowlink' = [i \in Issues |-> 0]
        /\ stack' = <<>> /\ calls' = <<>> /\ left' = [i \in Issues |-> {}] /\ cyclic' = {}
    BY DEF StartDetecting, Batch
  <1>2. OnStack' = {} /\ Open' = {} /\ Visited' = {} /\ Settled' = {}
    BY <1>1 DEF OnStack, Open, Visited, Settled, ToSet
  <1>3. CycleTypes'
    BY <1>1, <1>2 DEF CycleTypes
  <1>4. Shape'
    <2>1. Cardinality({j \in Issues : index'[j] # 0}) = 0
      <3>1. {j \in Issues : index'[j] # 0} = {}
        BY <1>1
      <3> QED
        BY <3>1, FS_EmptySet
    <2>2. Falling(stack', index') /\ Falling(calls', index')
      BY <1>1 DEF Falling
    <2>3. \A i \in Issues : index'[i] <= 0
      BY <1>1
    <2>4. \A k \in DOMAIN calls' : k > 1 => calls'[k - 1] \in left'[calls'[k]]
      BY <1>1
    <2> QED
      BY <1>2, <2>1, <2>2, <2>3, <2>4 DEF Shape
  <1>5. Looked'
    BY <1>1, <1>2 DEF Looked
  <1>6. Above' /\ Below' /\ Linked' /\ Low' /\ Apart'
    BY <1>2 DEF Above, Below, Linked, Low, Apart
  <1> QED
    BY <1>3, <1>4, <1>5, <1>6 DEF CycleInv

LEMMA SearchInit ==
    ASSUME CyclesInit
    PROVE  CycleInv
  <1>1. /\ Batch = {}
        /\ index = [i \in Issues |-> 0] /\ lowlink = [i \in Issues |-> 0]
        /\ stack = <<>> /\ calls = <<>> /\ left = [i \in Issues |-> {}] /\ cyclic = {}
    BY DEF CyclesInit, Batch, NoGraph
  <1>2. OnStack = {} /\ Open = {} /\ Visited = {} /\ Settled = {}
    BY <1>1 DEF OnStack, Open, Visited, Settled, ToSet
  <1>3. CycleTypes
    BY <1>1, <1>2 DEF CycleTypes
  <1>4. Shape
    <2>1. Cardinality({j \in Issues : index[j] # 0}) = 0
      <3>1. {j \in Issues : index[j] # 0} = {}
        BY <1>1
      <3> QED
        BY <3>1, FS_EmptySet
    <2>2. Falling(stack, index) /\ Falling(calls, index)
      BY <1>1 DEF Falling
    <2>3. \A i \in Issues : index[i] <= 0
      BY <1>1
    <2>4. \A k \in DOMAIN calls : k > 1 => calls[k - 1] \in left[calls[k]]
      BY <1>1
    <2> QED
      BY <1>2, <2>1, <2>2, <2>3, <2>4 DEF Shape
  <1>5. Looked
    BY <1>1, <1>2 DEF Looked
  <1>6. Above /\ Below /\ Linked /\ Low /\ Apart
    BY <1>2 DEF Above, Below, Linked, Low, Apart
  <1> QED
    BY <1>3, <1>4, <1>5, <1>6 DEF CycleInv

LEMMA SearchRests ==
    ASSUME CycleInv, UNCHANGED cycleVars
    PROVE  CycleInv'
  <1>1. /\ graph' = graph /\ index' = index /\ lowlink' = lowlink /\ stack' = stack
        /\ calls' = calls /\ left' = left /\ cyclic' = cyclic
    BY DEF cycleVars
  <1>2. /\ Batch' = Batch /\ OnStack' = OnStack /\ Open' = Open /\ Visited' = Visited
        /\ Settled' = Settled
    BY <1>1 DEF Batch, OnStack, Open, Visited, Settled
  <1>3. CycleTypes' /\ Shape' /\ Looked' /\ Above' /\ Below' /\ Linked' /\ Apart'
    BY <1>1, <1>2 DEF CycleInv, CycleTypes, Shape, Looked, Above, Below, Linked, Apart
  <1>4. Low'
    BY <1>1, <1>2 DEF CycleInv, Low, Under
  <1> QED
    BY <1>3, <1>4 DEF CycleInv

LEMMA SearchIsExact ==
    ASSUME CycleInv, Detected
    PROVE  \A i \in Batch : i \in cyclic <=> Leads(graph, i, i)
  <1>1. CycleTypes /\ Shape /\ Below /\ Apart /\ calls = <<>> /\ Batch \subseteq Visited
    BY DEF CycleInv, Detected, Visited
  <1>2. Open = {}
    BY <1>1 DEF Open, ToSet
  <1>3. Settled = Batch
    BY <1>1, <1>2 DEF Below, Settled, Visited
  <1> QED
    BY <1>1, <1>3 DEF Apart

LEMMA SearchFindsCycles == CycleInv => CyclesAreExact
  <1> SUFFICES ASSUME CycleInv, Detected PROVE cyclic = {i \in Batch : OnACycle(i)}
    BY DEF CyclesAreExact
  <1>1. \A i \in Batch : i \in cyclic <=> Leads(graph, i, i)
    BY SearchIsExact
  <1>2. \A i \in Batch : Leads(graph, i, i) <=> OnACycle(i)
    BY DEF Leads, OnACycle, Needs, Batch
  <1>3. cyclic \subseteq Batch
    BY DEF CycleInv, CycleTypes, Settled, Visited
  <1> QED
    BY <1>1, <1>2, <1>3

\* Whoever all wait for one another are on a cycle, some of them.
LEMMA SomeCycle ==
    ASSUME NEW g, NEW S, IsFiniteSet(S), S # {},
           \A i \in S : \E j \in S : j \in Needs(g, i)
    PROVE  \E i \in S : Leads(g, i, i)
  <1> DEFINE Led(i) == {j \in S : Leads(g, i, j)}
             Sizes  == {Cardinality(Led(i)) : i \in S}
  <1>1. \A i \in S : IsFiniteSet(Led(i)) /\ Cardinality(Led(i)) \in Nat
    <2>1. \A i \in S : Led(i) \subseteq S
      OBVIOUS
    <2> QED
      BY <2>1, FS_Subset, FS_CardinalityType
  <1>2. PICK i \in S : \A k \in S : Cardinality(Led(i)) <= Cardinality(Led(k))
    <2>1. Sizes \subseteq Nat /\ Sizes # {}
      BY <1>1
    <2>2. PICK n \in Sizes : \A m \in Sizes : n <= m
      <3> HIDE DEF Sizes
      <3> QED
        BY <2>1, LeastNumber
    <2> QED
      BY <2>2
  <1>3. PICK j \in S : j \in Needs(g, i)
    OBVIOUS
  <1>4. Leads(g, i, j)
    BY <1>3, Edge
  <1>5. Led(j) \subseteq Led(i)
    BY <1>4, LeadsOn
  <1>6. Led(j) = Led(i)
    <2> HIDE DEF Led
    <2>1. IsFiniteSet(Led(i)) /\ Led(j) \in SUBSET Led(i)
      BY <1>1, <1>5
    <2>2. /\ Cardinality(Led(j)) <= Cardinality(Led(i))
          /\ Cardinality(Led(i)) = Cardinality(Led(j)) => Led(i) = Led(j)
      BY <2>1, FS_Subset
    <2>3. Cardinality(Led(i)) = Cardinality(Led(j))
      BY <1>1, <1>2, <2>2
    <2> QED
      BY <2>2, <2>3
  <1>7. Leads(g, j, j)
    BY <1>4, <1>6
  <1> QED
    BY <1>7

(***************************************************************************)
(* The invariant of the intake.                                            *)
(***************************************************************************)
Visiting  == {"resolve", "screen", "gate", "claim", "labels", "confirm", "label",
              "verify"}
Analysing == {"resolve", "screen", "gate", "claim", "report"}
Labelling == {"labels", "confirm", "label"}
Starting  == {"verify", "bodies", "snapshots", "detect", "started"}

IntakeTypes ==
    /\ world.refs \subseteq Issues /\ world.dependsOn \in [Issues -> SUBSET Numbers]
    /\ todo \subseteq Issues /\ open \subseteq Issues /\ executable \subseteq Issues
    /\ ready \subseteq Issues
    /\ verdict \in [Issues -> Classes \cup {None}] /\ screen \in Classes \cup {None}

Phases ==
    /\ pc \in Visiting => todo # {}
    /\ pc = "idle" => todo = {}
    /\ pc \in {"screen", "gate", "claim"} \cup Labelling => todo \subseteq open
    /\ pc \in Analysing => ~report
    /\ pc \in Labelling => report /\ command = "discover"
    /\ pc \in Starting => command = "start"
    /\ pc \in Analysing \cup Labelling \cup Starting \cup {"idle"}

\* What was so before the command and has been so since is so now; nothing that
\* was closed is looked at, and nothing that was claimed is offered.
Before ==
    /\ before \in [closed : SUBSET closed, claimed : SUBSET claimed, split : SUBSET split,
                  ready : SUBSET Issues]
    /\ pc \in Analysing \cup Labelling => open \cap before.closed = {}
    /\ executable \cap (before.closed \cup (before.claimed \ unread)) = {}

\* Whatever is not screened out depends on closed issues only.
Screened ==
    /\ pc = "screen" /\ screen # "BLOCKED" => world.dependsOn[NextIssue] \subseteq closed \cup looking
    /\ pc = "gate" /\ screen # "BLOCKED" => world.dependsOn[NextIssue] \subseteq closed
    /\ pc = "claim" => world.dependsOn[NextIssue] \subseteq closed
    /\ \A i \in executable : world.dependsOn[i] \subseteq closed

\* What discover has not come to yet.
Unvisited ==
    /\ pc \in Analysing =>
          late = {} /\ \A i \in Issues \ touched : i \in ready <=> i \in before.ready
    /\ pc \in Labelling =>
          \A i \in todo : /\ i \in late => pc = "label" /\ i = NextIssue
                          /\ i \notin touched => (i \in ready <=> i \in before.ready)

\* What the label of an issue says once discover has visited it.
Tells(i) ==
    i \in ready <=> verdict[i] = "READY" /\ (i \in closed \ late => i \in before.ready)

\* The labels of the issues discover has visited.
Labelled ==
    /\ pc \in {"confirm", "label"} =>
          /\ action \in {"labeled", "unlabeled"}
          /\ action = "labeled" <=> verdict[NextIssue] = "READY"
          /\ NextIssue \notin before.claimed \cup before.split
    /\ pc = "confirm" => action = "labeled" /\ (NextIssue \in ready => NextIssue \in touched)
    /\ pc = "label" /\ action = "labeled" => NextIssue \notin closed \ late
    /\ command = "discover" /\ report =>
          \A i \in open \ (todo \cup touched \cup unread \cup claimed \cup split) : Tells(i)

Wants == {l \in Issues \X Numbers : l[2] \in world.dependsOn[l[1]]}

\* A dependency of a planned issue is met, noted as unmet or still to be looked up.
Linkage ==
    /\ links \subseteq Wants /\ unmet \subseteq Wants
    /\ pc \in {"detect", "started"} => links = {}
    /\ pc \in {"snapshots", "detect"} =>
          \A i \in todo : \A d \in world.dependsOn[i] :
              d \in closed \cup withPr \/ <<i, d>> \in links \cup unmet
    /\ pc = "detect" => graph = [i \in todo |-> world.dependsOn[i]]
    /\ pc # "started" => plan = NoPlan

IntakeInv ==
    /\ IntakeTypes /\ Phases /\ Before /\ Screened /\ Unvisited /\ Labelled /\ Linkage /\ PlanIsSound
    /\ CycleInv

LEMMA NextIsNext ==
    ASSUME IntakeTypes, todo # {}
    PROVE  NextIssue \in todo /\ NextIssue \in Issues
  <1>1. todo \subseteq Nat
    BY IssuesAssumption DEF IntakeTypes
  <1> QED
    BY <1>1, LeastOf DEF NextIssue, IntakeTypes

LEMMA TypesKept ==
    ASSUME IntakeTypes, Phases, Next
    PROVE  IntakeTypes'
  <1>1. CASE \E c \in {"analyze", "discover"}, d \in BOOLEAN : Begin(c, d)
    BY <1>1 DEF Begin, Enter, worldVars, IntakeTypes
  <1>2. CASE Resolve
    <2>1. NextIssue \in Issues
      BY <1>2, NextIsNext DEF Resolve, Phases, Visiting
    <2>2. UNCHANGED <<world, ready, executable, verdict, screen>>
      BY <1>2 DEF Resolve, worldVars
    <2>3. open' \subseteq Issues
      BY <1>2, <2>1 DEF Resolve, IntakeTypes
    <2>4. todo' \subseteq Issues
      BY <1>2, <2>3 DEF Resolve, Enter, Give, IntakeTypes
    <2> QED
      BY <2>2, <2>3, <2>4 DEF IntakeTypes
  <1>3. CASE FetchDependency
    BY <1>3 DEF FetchDependency, worldVars, IntakeTypes, Classes
  <1>4. CASE Screen
    <2>1. UNCHANGED <<world, ready, open, executable>>
      BY <1>4 DEF Screen, worldVars
    <2>2. PICK s \in IF screen = None THEN Screens(NextIssue) ELSE {screen} :
             IF s # "SKIPPED" /\ (deep \/ s = "CANDIDATE")
               THEN pc' = "gate" /\ screen' = s /\ UNCHANGED <<todo, looking, verdict>>
               ELSE Classify(s)
      BY <1>4 DEF Screen
    <2>3. s \in Classes \cup {None}
      BY <2>2 DEF Screens, Classes, IntakeTypes
    <2> QED
      BY <2>1, <2>2, <2>3 DEF Classify, Onward, Enter, IntakeTypes
  <1>5. CASE Gate
    <2>1. UNCHANGED <<world, ready, open, executable>>
      BY <1>5 DEF Gate, worldVars
    <2>2. CASE Give /\ UNCHANGED <<verdict, looking, screen>>
      BY <2>1, <2>2 DEF Give, IntakeTypes
    <2>3. CASE \E status \in {"READY", "NEEDS_REFINEMENT"} : Classify(Graded(status))
      BY <2>1, <2>3 DEF Classify, Graded, Onward, Enter, IntakeTypes, Classes
    <2> QED
      BY <1>5, <2>2, <2>3 DEF Gate
  <1>6. CASE ReadClaim
    <2>1. NextIssue \in Issues
      BY <1>6, NextIsNext DEF ReadClaim, Phases, Visiting
    <2> QED
      BY <1>6, <2>1 DEF ReadClaim, Onward, Enter, worldVars, IntakeTypes
  <1>7. CASE WriteReport
    BY <1>7 DEF WriteReport, Enter, worldVars, IntakeTypes
  <1>8. CASE ReadLabels
    BY <1>8 DEF ReadLabels, Enter, worldVars, reportVars, IntakeTypes
  <1>9. CASE WriteLabel
    <2>1. NextIssue \in Issues
      BY <1>9, NextIsNext DEF WriteLabel, Phases, Visiting
    <2> QED
      BY <1>9, <2>1 DEF WriteLabel, Enter, reportVars, IntakeTypes
  <1>19. CASE ConfirmOpen
    BY <1>19 DEF ConfirmOpen, Enter, worldVars, reportVars, IntakeTypes
  <1>10. CASE StartFromReport
    BY <1>10 DEF StartFromReport, worldVars, reportVars, IntakeTypes
  <1>11. CASE \E issues \in (SUBSET world.refs) \ {{}} : StartExplicit(issues)
    BY <1>11 DEF StartExplicit, worldVars, IntakeTypes
  <1>12. CASE Verify
    BY <1>12 DEF Verify, Give, worldVars, reportVars, IntakeTypes
  <1>13. CASE ReadBodies
    BY <1>13 DEF ReadBodies, Give, worldVars, reportVars, IntakeTypes
  <1>14. CASE Snapshot
    BY <1>14 DEF Snapshot, worldVars, reportVars, IntakeTypes
  <1>15. CASE Detect
    BY <1>15 DEF Detect, worldVars, reportVars, IntakeTypes
  <1>16. CASE Detecting
    BY <1>16 DEF Detecting, worldVars, reportVars, IntakeTypes
  <1>17. CASE Plan
    BY <1>17 DEF Plan, worldVars, reportVars, IntakeTypes
  <1>18. CASE \/ \E i \in Numbers : Close(i)
              \/ \E i \in Issues : Claim(i) \/ Release(i)
              \/ DaemonEnds
    BY <1>18 DEF Close, Claim, Release, DaemonEnds, Change, reportVars, IntakeTypes
  <1> QED
    BY <1>1, <1>2, <1>3, <1>4, <1>5, <1>6, <1>7, <1>8, <1>9, <1>10, <1>11, <1>12, <1>13,
       <1>14, <1>15, <1>16, <1>17, <1>18, <1>19 DEF Next

LEMMA PhasesKept ==
    ASSUME IntakeTypes, Phases, Next
    PROVE  Phases'
  <1> USE DEF Visiting, Analysing, Labelling, Starting
  <1>1. CASE \E c \in {"analyze", "discover"}, d \in BOOLEAN : Begin(c, d)
    BY <1>1 DEF Begin, Enter, Phases
  <1>2. CASE Resolve
    <2>1. UNCHANGED <<report, command>> /\ pc = "resolve"
      BY <1>2 DEF Resolve, reportVars
    <2>2. CASE Give
      BY <2>1, <2>2 DEF Give, Phases
    <2>3. CASE todo = {NextIssue} /\ Enter(open', "screen", "report")
      BY <2>1, <2>3 DEF Enter, Phases
    <2>4. CASE todo # {NextIssue} /\ Enter(todo \ {NextIssue}, "resolve", "report")
      BY <2>1, <2>4 DEF Enter, Phases
    <2> QED
      BY <1>2, <2>2, <2>3, <2>4 DEF Resolve
  <1>3. CASE FetchDependency
    BY <1>3 DEF FetchDependency, Phases
  <1>4. CASE Screen
    BY <1>4 DEF Screen, Classify, Onward, Enter, Phases
  <1>5. CASE Gate
    BY <1>5 DEF Gate, Classify, Onward, Enter, Give, Phases
  <1>6. CASE ReadClaim
    BY <1>6 DEF ReadClaim, Onward, Enter, Phases
  <1>7. CASE WriteReport
    BY <1>7 DEF WriteReport, Enter, Phases
  <1>8. CASE ReadLabels
    BY <1>8 DEF ReadLabels, Enter, reportVars, Phases
  <1>9. CASE WriteLabel
    BY <1>9 DEF WriteLabel, Enter, reportVars, Phases
  <1>19. CASE ConfirmOpen
    BY <1>19 DEF ConfirmOpen, Enter, reportVars, Phases
  <1>10. CASE StartFromReport
    BY <1>10 DEF StartFromReport, reportVars, Phases
  <1>11. CASE \E issues \in (SUBSET world.refs) \ {{}} : StartExplicit(issues)
    <2>1. PICK issues \in (SUBSET world.refs) \ {{}} : StartExplicit(issues)
      BY <1>11
    <2>2. pc' = "verify" /\ todo' = issues /\ command' = "start"
      BY <2>1 DEF StartExplicit
    <2>3. issues # {}
      OBVIOUS
    <2> QED
      BY <2>2, <2>3 DEF Phases
  <1>12. CASE Verify
    <2>1. NextIssue \in todo
      BY <1>12, NextIsNext DEF Verify, Phases
    <2> QED
      BY <1>12, <2>1 DEF Verify, Give, reportVars, Phases
  <1>13. CASE ReadBodies
    BY <1>13 DEF ReadBodies, Give, reportVars, Phases
  <1>14. CASE Snapshot
    BY <1>14 DEF Snapshot, reportVars, Phases
  <1>15. CASE Detect
    BY <1>15 DEF Detect, reportVars, Phases
  <1>16. CASE Detecting
    BY <1>16 DEF Detecting, reportVars, Phases
  <1>17. CASE Plan
    BY <1>17 DEF Plan, reportVars, Phases
  <1>18. CASE \/ \E i \in Numbers : Close(i)
              \/ \E i \in Issues : Claim(i) \/ Release(i)
              \/ DaemonEnds
    BY <1>18 DEF Close, Claim, Release, DaemonEnds, Change, reportVars, Phases
  <1> QED
    BY <1>1, <1>2, <1>3, <1>4, <1>5, <1>6, <1>7, <1>8, <1>9, <1>10, <1>11, <1>12, <1>13,
       <1>14, <1>15, <1>16, <1>17, <1>18, <1>19 DEF Next

LEMMA BeforeKept ==
    ASSUME IntakeTypes, Phases, Before, Next
    PROVE  Before'
  <1> USE DEF Analysing, Labelling
  <1>1. CASE \E c \in {"analyze", "discover"}, d \in BOOLEAN : Begin(c, d)
    BY <1>1 DEF Begin, worldVars, IntakeTypes, Before
  <1>2. CASE Resolve
    <2>1. UNCHANGED <<closed, claimed, split, executable, before, unread>> /\ pc = "resolve"
      BY <1>2 DEF Resolve, worldVars, bookVars
    <2>2. CASE Give
      BY <2>1, <2>2 DEF Give, Before
    <2>3. CASE ~ Give
      <3>1. open' = IF NextIssue \in closed THEN open ELSE open \cup {NextIssue}
        BY <1>2, <2>3 DEF Resolve
      <3>2. before.closed \subseteq closed /\ open \cap before.closed = {}
        BY <2>1 DEF Before
      <3>3. open' \cap before.closed = {}
        BY <3>1, <3>2
      <3> QED
        BY <2>1, <3>3 DEF Before
    <2> QED
      BY <2>2, <2>3
  <1>3. CASE FetchDependency \/ Screen \/ Gate
    <2>1. UNCHANGED <<closed, claimed, split, executable, before, unread, open>>
      BY <1>3 DEF FetchDependency, Screen, Gate, worldVars, bookVars
    <2>2. pc \in Analysing
      BY <1>3 DEF FetchDependency, Screen, Gate
    <2> QED
      BY <2>1, <2>2 DEF Before
  <1>4. CASE ReadClaim
    <2>1. UNCHANGED <<closed, claimed, split, before, open>> /\ pc = "claim"
      BY <1>4 DEF ReadClaim, worldVars
    <2>2. NextIssue \in open
      BY <2>1, NextIsNext DEF Phases, Visiting
    <2>3. NextIssue \notin before.closed /\ before.claimed \subseteq claimed
      BY <2>1, <2>2 DEF Before
    <2>4. \/ executable' = (IF IsInProgress(NextIssue) THEN executable ELSE executable \cup {NextIssue})
             /\ unread' = unread
          \/ executable' = executable \cup {NextIssue} /\ unread' = unread \cup {NextIssue}
      BY <1>4 DEF ReadClaim
    <2>5. executable' \cap (before.closed \cup (before.claimed \ unread')) = {}
      BY <2>3, <2>4 DEF Before, IsInProgress
    <2> QED
      BY <2>1, <2>5 DEF Before
  <1>5. CASE WriteReport \/ ReadLabels \/ ConfirmOpen \/ WriteLabel
    <2>1. UNCHANGED <<closed, claimed, split, executable, before, open>> /\ unread \subseteq unread'
      BY <1>5 DEF WriteReport, ReadLabels, ConfirmOpen, WriteLabel, worldVars, reportVars, bookVars
    <2>2. pc \in Analysing \cup Labelling
      BY <1>5 DEF WriteReport, ReadLabels, ConfirmOpen, WriteLabel
    <2> QED
      BY <2>1, <2>2 DEF Before
  <1>6. CASE StartFromReport \/ \E issues \in (SUBSET world.refs) \ {{}} : StartExplicit(issues)
    BY <1>6 DEF StartFromReport, StartExplicit, worldVars, reportVars, bookVars, Before
  <1>7. CASE Verify
    BY <1>7 DEF Verify, Give, worldVars, reportVars, bookVars, Before
  <1>8. CASE ReadBodies \/ Snapshot \/ Detect \/ Detecting \/ Plan
    <2>1. UNCHANGED <<closed, claimed, split, executable, before, unread>>
      BY <1>8 DEF ReadBodies, Snapshot, Detect, Detecting, Plan, worldVars, reportVars, bookVars
    <2>2. pc' \notin Analysing \cup Labelling
      BY <1>8 DEF ReadBodies, Snapshot, Detect, Detecting, Plan, Give
    <2> QED
      BY <2>1, <2>2 DEF Before
  <1>9. CASE (\E i \in Numbers : Close(i)) \/ (\E i \in Issues : Claim(i)) \/ DaemonEnds
    BY <1>9 DEF Close, Claim, DaemonEnds, Change, reportVars, Before
  <1>10. CASE \E i \in Issues : Release(i)
    <2>1. PICK i \in Issues : Release(i)
      BY <1>10
    <2>2. /\ UNCHANGED <<closed, split, executable, unread, open, pc>>
          /\ claimed' = claimed \ {i} /\ before' = [before EXCEPT !.claimed = @ \ {i}]
      BY <2>1 DEF Release, Change, reportVars
    <2>3. /\ before' \in [closed : SUBSET closed, claimed : SUBSET claimed', split : SUBSET split, ready : SUBSET Issues]
          /\ before'.closed = before.closed /\ before'.claimed = before.claimed \ {i}
      BY <2>2 DEF Before
    <2> QED
      BY <2>2, <2>3 DEF Before
  <1> QED
    BY <1>1, <1>2, <1>3, <1>4, <1>5, <1>6, <1>7, <1>8, <1>9, <1>10 DEF Next

LEMMA ScreenedKept ==
    ASSUME IntakeTypes, Phases, Screened, Next
    PROVE  Screened'
  <1> DEFINE Met(i) == world.dependsOn[i] \subseteq closed
  <1>1. CASE \E c \in {"analyze", "discover"}, d \in BOOLEAN : Begin(c, d)
    BY <1>1 DEF Begin, Enter, Screened
  <1>2. CASE Resolve
    <2>1. UNCHANGED <<world, closed, executable>> /\ pc = "resolve"
      BY <1>2 DEF Resolve, worldVars
    <2>2. CASE Give
      BY <2>1, <2>2 DEF Give, Screened
    <2>3. CASE todo = {NextIssue} /\ ~ Give
      <3>1. /\ Enter(open', "screen", "report")
            /\ open' # {} => looking' = world.dependsOn[Min(open')]
        BY <1>2, <2>3 DEF Resolve
      <3>2. open' = {} => pc' = "report"
        BY <3>1 DEF Enter
      <3>3. open' # {} => pc' = "screen" /\ looking' = world.dependsOn[NextIssue']
        BY <3>1 DEF Enter, NextIssue
      <3> QED
        BY <2>1, <3>2, <3>3 DEF Screened
    <2>4. CASE todo # {NextIssue} /\ ~ Give
      <3>1. Enter(todo \ {NextIssue}, "resolve", "report")
        BY <1>2, <2>4 DEF Resolve
      <3>2. pc' \in {"resolve", "report"}
        BY <3>1 DEF Enter
      <3> QED
        BY <2>1, <3>2 DEF Screened
    <2> QED
      BY <2>2, <2>3, <2>4
  <1>3. CASE FetchDependency
    <2>1. UNCHANGED <<world, closed, executable, pc, todo>> /\ NextIssue' = NextIssue /\ pc = "screen"
      BY <1>3 DEF FetchDependency, worldVars, NextIssue
    <2>2. screen' # "BLOCKED" =>
             screen # "BLOCKED" /\ Min(looking) \in closed /\ looking' = looking \ {Min(looking)}
      BY <1>3 DEF FetchDependency
    <2>3. screen' # "BLOCKED" => world.dependsOn[NextIssue] \subseteq closed \cup looking'
      BY <2>1, <2>2 DEF Screened
    <2> QED
      BY <2>1, <2>3 DEF Screened
  \* The next issue of the loop has all of its dependencies to be looked at.
  <1>4. ASSUME Onward, world' = world PROVE pc' = "screen" => world'.dependsOn[NextIssue'] \subseteq looking'
    <2>1. NextIssue' = Min(todo')
      BY DEF NextIssue
    <2>2. todo' = todo \ {NextIssue} /\ (pc' = "screen" => todo' # {})
      BY <1>4 DEF Onward, Enter
    <2>3. todo' # {} => looking' = world.dependsOn[Min(todo \ {NextIssue})]
      BY <1>4, <2>2 DEF Onward
    <2> QED
      BY <1>4, <2>1, <2>2, <2>3
  <1>5. ASSUME NEW class, Classify(class), class = "READY" => Met(NextIssue),
               UNCHANGED <<world, closed, executable>>, pc \in {"screen", "gate"}
        PROVE  Screened'
    <2>1. CASE class = "READY"
      <3>1. pc' = "claim" /\ UNCHANGED todo
        BY <1>5, <2>1 DEF Classify
      <3>2. NextIssue' = NextIssue
        BY <3>1 DEF NextIssue
      <3> QED
        BY <1>5, <2>1, <3>1, <3>2 DEF Screened
    <2>2. CASE class # "READY"
      <3>1. Onward
        BY <1>5, <2>2 DEF Classify
      <3>2. pc' = "screen" => world'.dependsOn[NextIssue'] \subseteq looking'
        BY <1>4, <1>5, <3>1
      <3>3. pc' \in {"screen", "report"}
        BY <3>1 DEF Onward, Enter
      <3> QED
        BY <1>5, <3>2, <3>3 DEF Screened
    <2> QED
      BY <2>1, <2>2
  <1>6. CASE Screen
    <2>1. UNCHANGED <<world, closed, executable>> /\ pc = "screen" /\ looking = {}
      BY <1>6 DEF Screen, worldVars
    <2>2. PICK s \in IF screen = None THEN Screens(NextIssue) ELSE {screen} :
             IF s # "SKIPPED" /\ (deep \/ s = "CANDIDATE")
               THEN pc' = "gate" /\ screen' = s /\ UNCHANGED <<todo, looking, verdict>>
               ELSE Classify(s)
      BY <1>6 DEF Screen
    <2>3. s # "BLOCKED" => Met(NextIssue)
      <3>1. s # "BLOCKED" => screen # "BLOCKED"
        BY <2>2, IntakeAssumption DEF Screens, Classes
      <3> QED
        BY <2>1, <3>1 DEF Screened
    <2>4. CASE pc' = "gate" /\ screen' = s /\ UNCHANGED <<todo, looking, verdict>>
      <3>1. NextIssue' = NextIssue
        BY <2>4 DEF NextIssue
      <3> QED
        BY <2>1, <2>3, <2>4, <3>1 DEF Screened
    <2>5. CASE Classify(s)
      BY <1>5, <2>1, <2>3, <2>5
    <2> QED
      BY <2>2, <2>4, <2>5
  <1>7. CASE Gate
    <2>1. UNCHANGED <<world, closed, executable>> /\ pc = "gate"
      BY <1>7 DEF Gate, worldVars
    <2>2. CASE Give
      BY <2>1, <2>2 DEF Give, Screened
    <2>3. CASE \E status \in {"READY", "NEEDS_REFINEMENT"} : Classify(Graded(status))
      <3>1. PICK status \in {"READY", "NEEDS_REFINEMENT"} : Classify(Graded(status))
        BY <2>3
      <3>2. Graded(status) = "READY" => Met(NextIssue)
        BY <2>1 DEF Graded, Screened
      <3> QED
        BY <1>5, <2>1, <3>1, <3>2
    <2> QED
      BY <1>7, <2>2, <2>3 DEF Gate
  <1>8. CASE ReadClaim
    <2>1. UNCHANGED <<world, closed>> /\ pc = "claim" /\ Onward
      BY <1>8 DEF ReadClaim, worldVars
    <2>2. executable' \subseteq executable \cup {NextIssue}
      BY <1>8 DEF ReadClaim
    <2>3. \A i \in executable' : Met(i)
      BY <2>1, <2>2 DEF Screened
    <2>4. pc' = "screen" => world'.dependsOn[NextIssue'] \subseteq looking'
      BY <1>4, <2>1
    <2>5. pc' \in {"screen", "report"}
      BY <2>1 DEF Onward, Enter
    <2> QED
      BY <2>1, <2>3, <2>4, <2>5 DEF Screened
  <1>9. CASE WriteReport \/ ReadLabels \/ ConfirmOpen \/ WriteLabel
    <2>1. UNCHANGED <<world, closed, executable>>
      BY <1>9 DEF WriteReport, ReadLabels, ConfirmOpen, WriteLabel, worldVars, reportVars
    <2>2. pc' \in {"labels", "confirm", "label", "idle"}
      BY <1>9 DEF WriteReport, ReadLabels, ConfirmOpen, WriteLabel, Enter
    <2> QED
      BY <2>1, <2>2 DEF Screened
  <1>10. CASE \/ StartFromReport \/ \E issues \in (SUBSET world.refs) \ {{}} : StartExplicit(issues)
              \/ Verify \/ ReadBodies \/ Snapshot \/ Detect \/ Detecting \/ Plan
    <2>1. UNCHANGED <<world, closed, executable>>
      BY <1>10 DEF StartFromReport, StartExplicit, Verify, ReadBodies, Snapshot, Detect, Detecting, Plan,
            worldVars, reportVars
    <2>2. pc' \in {"idle", "verify", "bodies", "snapshots", "detect", "started"}
      BY <1>10 DEF StartFromReport, StartExplicit, Verify, ReadBodies, Snapshot, Detect, Detecting, Plan,
            Give
    <2> QED
      BY <2>1, <2>2 DEF Screened
  <1>11. CASE \/ \E i \in Numbers : Close(i)
              \/ \E i \in Issues : Claim(i) \/ Release(i)
              \/ DaemonEnds
    <2>1. UNCHANGED <<world, executable, pc, todo, screen, looking>> /\ closed \subseteq closed'
      BY <1>11 DEF Close, Claim, Release, DaemonEnds, Change, reportVars
    <2>2. NextIssue' = NextIssue
      BY <2>1 DEF NextIssue
    <2>3. pc = "screen" /\ screen # "BLOCKED" => world.dependsOn[NextIssue] \subseteq closed' \cup looking
      BY <2>1 DEF Screened
    <2>4. (pc = "gate" /\ screen # "BLOCKED") \/ pc = "claim" => world.dependsOn[NextIssue] \subseteq closed'
      BY <2>1 DEF Screened
    <2>5. \A i \in executable : world.dependsOn[i] \subseteq closed'
      BY <2>1 DEF Screened
    <2> QED
      BY <2>1, <2>2, <2>3, <2>4, <2>5 DEF Screened
  <1> QED
    BY <1>1, <1>2, <1>3, <1>6, <1>7, <1>8, <1>9, <1>10, <1>11 DEF Next

LEMMA UnvisitedKept ==
    ASSUME IntakeTypes, Phases, Before, Unvisited, Next
    PROVE  Unvisited'
  <1> USE DEF Analysing, Labelling, Starting
  <1>1. CASE \E c \in {"analyze", "discover"}, d \in BOOLEAN : Begin(c, d)
    <2>1. pc' \in {"resolve", "report"} /\ late' = {} /\ ready' = ready /\ before'.ready = ready
      BY <1>1 DEF Begin, Enter, worldVars
    <2> QED
      BY <2>1 DEF Unvisited
  <1>2. CASE Resolve \/ FetchDependency \/ Screen \/ Gate \/ ReadClaim
    <2>1. pc \in Analysing /\ UNCHANGED <<late, touched, ready, before>>
      BY <1>2 DEF Resolve, FetchDependency, Screen, Gate, ReadClaim, worldVars, bookVars
    <2>2. pc' \in Analysing \cup {"idle"}
      BY <1>2 DEF Resolve, FetchDependency, Screen, Gate, ReadClaim, Classify, Onward, Enter, Give
    <2> QED
      BY <2>1, <2>2 DEF Unvisited
  <1>3. CASE WriteReport
    <2>1. /\ pc \in Analysing /\ UNCHANGED <<late, touched, ready, before>>
          /\ pc' \in {"labels", "idle"} /\ todo' \subseteq Issues
      BY <1>3 DEF WriteReport, Enter, worldVars, bookVars, IntakeTypes
    <2> QED
      BY <2>1 DEF Unvisited
  <1>4. CASE ReadLabels \/ ConfirmOpen
    <2>1. /\ pc \in {"labels", "confirm"} /\ UNCHANGED <<late, touched, ready, before>>
          /\ pc' \in Labelling \cup {"idle"} /\ todo' \subseteq todo
      BY <1>4 DEF ReadLabels, ConfirmOpen, Enter, worldVars
    <2> QED
      BY <2>1 DEF Unvisited
  <1>5. CASE WriteLabel
    <2>1. /\ pc = "label" /\ UNCHANGED <<late, touched, before>>
          /\ pc' \in {"labels", "idle"} /\ todo' = todo \ {NextIssue}
          /\ \A i \in todo' : i \in ready' <=> i \in ready
      BY <1>5 DEF WriteLabel, Enter
    <2>2. \A i \in todo' : i \in todo /\ i \notin late
      BY <2>1 DEF Unvisited
    <2> QED
      BY <2>1, <2>2 DEF Unvisited
  <1>6. CASE \/ StartFromReport \/ \E issues \in (SUBSET world.refs) \ {{}} : StartExplicit(issues)
             \/ Verify \/ ReadBodies \/ Snapshot \/ Detect \/ Detecting \/ Plan
    <2>1. pc' \notin Analysing \cup Labelling
      BY <1>6 DEF StartFromReport, StartExplicit, Verify, ReadBodies, Snapshot, Detect, Detecting, Plan,
            Give
    <2> QED
      BY <2>1 DEF Unvisited
  <1>7. CASE \E i \in Numbers : Close(i)
    <2>1. PICK i \in Numbers : Close(i)
      BY <1>7
    <2>2. UNCHANGED <<pc, todo, touched, ready, before, report, command>> /\ NextIssue' = NextIssue
      BY <2>1 DEF Close, Change, reportVars, NextIssue
    <2>3. late' = IF Confirmed(i) THEN late \cup {i} ELSE late
      BY <2>1 DEF Close
    <2>4. pc \in Analysing => late' = late
      BY <2>3 DEF Confirmed, Phases
    <2>5. i \in todo /\ Confirmed(i) => pc = "label" /\ i = NextIssue
      BY DEF Confirmed
    <2> QED
      BY <2>2, <2>3, <2>4, <2>5 DEF Unvisited
  <1>8. CASE \/ \E i \in Issues : Claim(i) \/ Release(i)
             \/ DaemonEnds
    <2>0. before \in [closed : SUBSET closed, claimed : SUBSET claimed, split : SUBSET split,
                      ready : SUBSET Issues]
      BY DEF Before
    <2>1. UNCHANGED <<pc, todo, late>> /\ before'.ready = before.ready /\ NextIssue' = NextIssue
      <3>1. UNCHANGED <<pc, todo, late>>
        BY <1>8 DEF Claim, Release, DaemonEnds, Change
      <3>2. before' = before \/ \E i \in Issues : before' = [before EXCEPT !.claimed = @ \ {i}]
        BY <1>8 DEF Claim, Release, DaemonEnds
      <3>3. before'.ready = before.ready
        BY <3>2, <2>0
      <3> QED
        BY <3>1, <3>3 DEF NextIssue
    <2>2. /\ touched \subseteq touched'
          /\ \A i : i \notin touched' => (i \in ready' <=> i \in ready)
      BY <1>8 DEF Claim, Release, DaemonEnds
    <2> QED
      BY <2>1, <2>2 DEF Unvisited
  <1> QED
    BY <1>1, <1>2, <1>3, <1>4, <1>5, <1>6, <1>7, <1>8 DEF Next

LEMMA LabelledKept ==
    ASSUME IntakeTypes, Phases, Before, Unvisited, Labelled, Next
    PROVE  Labelled'
  <1> USE DEF Analysing, Labelling, Starting
  <1> DEFINE Others == todo \cup touched \cup unread \cup claimed \cup split
  <1>1. CASE \/ \E c \in {"analyze", "discover"}, d \in BOOLEAN : Begin(c, d)
             \/ Resolve \/ FetchDependency \/ Screen \/ Gate \/ ReadClaim
    <2>1. ~ report' /\ pc' \notin {"confirm", "label"}
      <3>1. ~ report
        BY <1>1 DEF Begin, Resolve, FetchDependency, Screen, Gate, ReadClaim, Phases
      <3> QED
        BY <1>1, <3>1 DEF Begin, Resolve, FetchDependency, Screen, Gate, ReadClaim, Classify, Onward,
            Enter, Give
    <2> QED
      BY <2>1 DEF Labelled
  <1>2. CASE WriteReport
    <2>1. /\ pc' \notin {"confirm", "label"} /\ UNCHANGED <<command, open>>
          /\ command = "discover" => todo' = open
      BY <1>2 DEF WriteReport, Enter
    <2> QED
      BY <2>1 DEF Labelled
  \* The loop goes on with the next issue; what it has told of the others stays.
  <1>8. ASSUME NEW n \in Issues, n = NextIssue,
               UNCHANGED <<command, report, open, touched, claimed, split, verdict, before, closed, late>>,
               \A i \in open \ {NextIssue} : i \in ready' <=> i \in ready,
               Enter(todo \ {NextIssue}, "labels", "idle"), pc \in Labelling,
               \/ unread' = unread /\ (n \in touched \cup claimed \cup split \/ Tells(n)')
               \/ unread' = unread \cup {NextIssue}
        PROVE  Labelled'
    <2>1. pc' \in {"labels", "idle"} /\ todo' = todo \ {NextIssue}
      BY <1>8 DEF Enter
    <2>2. ASSUME command = "discover" /\ report,
                 NEW i \in open \ (todo' \cup touched \cup unread' \cup claimed \cup split)
          PROVE  Tells(i)'
      <3>1. CASE i = n
        BY <1>8, <2>2, <3>1
      <3>2. CASE i # n
        <4>1. i \in open \ Others
          BY <1>8, <2>1, <2>2, <3>2
        <4>2. Tells(i)
          BY <2>2, <4>1 DEF Labelled
        <4> QED
          BY <1>8, <3>2, <4>2 DEF Tells
      <3> QED
        BY <3>1, <3>2
    <2> QED
      BY <1>8, <2>1, <2>2 DEF Labelled
  <1>3. CASE ReadLabels
    <2>0. PICK n \in Issues : n = NextIssue /\ n \in todo
      BY <1>3, NextIsNext DEF ReadLabels, ConfirmOpen, Phases, Visiting
    <2>1. /\ pc = "labels" /\ report /\ NextIssue \in todo /\ NextIssue \in Issues
          /\ UNCHANGED <<command, report, open, touched, claimed, split, ready, verdict, before, closed, late>>
      BY <1>3, NextIsNext DEF ReadLabels, Phases, Visiting, worldVars, reportVars
    <2>2. \/ /\ Enter(todo \ {NextIssue}, "labels", "idle")
             /\ unread' = unread \cup {NextIssue}
          \/ /\ action' = ReconcileReadyLabel(NextIssue) /\ unread' = unread
             /\ IF action' = None THEN Enter(todo \ {NextIssue}, "labels", "idle")
                ELSE pc' = (IF action' = "labeled" THEN "confirm" ELSE "label") /\ UNCHANGED todo
      BY <1>3 DEF ReadLabels
    <2>3. CASE Enter(todo \ {NextIssue}, "labels", "idle") /\ unread' = unread \cup {NextIssue}
      BY <1>8, <2>0, <2>1, <2>3
    <2>4. CASE ~(Enter(todo \ {NextIssue}, "labels", "idle") /\ unread' = unread \cup {NextIssue})
      <3>1. /\ action' = ReconcileReadyLabel(NextIssue) /\ unread' = unread
            /\ action' \in {None, "labeled", "unlabeled"}
        BY <2>2, <2>4 DEF ReconcileReadyLabel
      <3>2. CASE action' = None
        <4>1. Enter(todo \ {NextIssue}, "labels", "idle")
          BY <2>2, <2>4, <3>2, IntakeAssumption
        <4>2. NextIssue \in split \cup claimed \/ (verdict[NextIssue] = "READY" <=> NextIssue \in ready)
          BY <3>1, <3>2, IntakeAssumption DEF ReconcileReadyLabel
        <4>3. NextIssue \in touched \cup claimed \cup split \/ Tells(n)'
          BY <2>0, <2>1, <4>2 DEF Tells, Unvisited
        <4> QED
          BY <1>8, <2>0, <2>1, <3>1, <4>1, <4>3
      <3>3. CASE action' # None
        <4>1. /\ action' \in {"labeled", "unlabeled"} /\ NextIssue \notin split \cup claimed
              /\ action' = "labeled" <=> verdict[NextIssue] = "READY"
              /\ action' = "labeled" => NextIssue \notin ready
          <5>1. NextIssue \notin split \cup claimed
            BY <3>1, <3>3 DEF ReconcileReadyLabel
          <5>2. CASE verdict[NextIssue] = "READY"
            BY <3>1, <3>3, <5>1, <5>2 DEF ReconcileReadyLabel
          <5>3. CASE verdict[NextIssue] # "READY"
            BY <3>1, <3>3, <5>1, <5>3 DEF ReconcileReadyLabel
          <5> QED
            BY <5>1, <5>2, <5>3
        <4>2. /\ pc' \in {"confirm", "label"} /\ UNCHANGED todo
              /\ pc' = "confirm" <=> action' = "labeled"
          BY <2>2, <2>4, <4>1, IntakeAssumption
        <4>3. NextIssue' = NextIssue
          BY <4>2 DEF NextIssue
        <4>4. NextIssue \notin before.claimed \cup before.split
          BY <4>1 DEF Before
        <4> QED
          BY <2>1, <3>1, <4>1, <4>2, <4>3, <4>4 DEF Labelled, Tells
      <3> QED
        BY <3>2, <3>3
    <2> QED
      BY <2>3, <2>4
  <1>9. CASE ConfirmOpen
    <2>0. PICK n \in Issues : n = NextIssue /\ n \in todo
      BY <1>9, NextIsNext DEF ReadLabels, ConfirmOpen, Phases, Visiting
    <2>1. /\ pc = "confirm" /\ report /\ NextIssue \in todo /\ NextIssue \in Issues
          /\ UNCHANGED <<command, report, open, touched, claimed, split, ready, verdict, before, closed, late>>
      BY <1>9, NextIsNext DEF ConfirmOpen, Phases, Visiting, worldVars, reportVars
    <2>2. \/ NextIssue \notin closed /\ pc' = "label" /\ UNCHANGED <<todo, action, unread>>
          \/ NextIssue \in closed /\ Enter(todo \ {NextIssue}, "labels", "idle") /\ unread' = unread
          \/ Enter(todo \ {NextIssue}, "labels", "idle") /\ unread' = unread \cup {NextIssue}
      BY <1>9 DEF ConfirmOpen
    <2>3. CASE NextIssue \notin closed /\ pc' = "label" /\ UNCHANGED <<todo, action, unread>>
      <3>1. NextIssue' = NextIssue
        BY <2>3 DEF NextIssue
      <3> QED
        BY <2>1, <2>3, <3>1 DEF Labelled, Tells
    <2>4. CASE NextIssue \in closed /\ Enter(todo \ {NextIssue}, "labels", "idle") /\ unread' = unread
      <3>1. NextIssue \notin late
        BY <2>1 DEF Unvisited
      <3>2. NextIssue \in touched \/ (NextIssue \notin ready /\ NextIssue \notin before.ready)
        BY <2>1 DEF Unvisited, Labelled
      <3>3. NextIssue \in touched \cup claimed \cup split \/ Tells(n)'
        BY <2>0, <2>1, <2>4, <3>1, <3>2 DEF Tells
      <3> QED
        BY <1>8, <2>0, <2>1, <2>4, <3>3
    <2>5. CASE Enter(todo \ {NextIssue}, "labels", "idle") /\ unread' = unread \cup {NextIssue}
      BY <1>8, <2>0, <2>1, <2>5
    <2> QED
      BY <2>2, <2>3, <2>4, <2>5
  <1>4. CASE WriteLabel
    <2>0. PICK n \in Issues : n = NextIssue /\ n \in todo
      BY <1>4, NextIsNext DEF WriteLabel, Phases, Visiting
    <2>1. /\ pc = "label" /\ Enter(todo \ {NextIssue}, "labels", "idle")
          /\ UNCHANGED <<command, report, open, touched, claimed, split, verdict, before, closed, late>>
          /\ action = "labeled" <=> verdict[NextIssue] = "READY"
          /\ action = "labeled" => NextIssue \notin closed \ late
      BY <1>4 DEF WriteLabel, reportVars, Labelled
    <2>2. \/ /\ ready' = (IF action = "labeled" THEN ready \cup {NextIssue} ELSE ready \ {NextIssue})
             /\ unread' = unread
          \/ unread' = unread \cup {NextIssue} /\ ready' = ready
      BY <1>4 DEF WriteLabel
    <2>3. unread' = unread /\ ready' # ready => Tells(n)'
      BY <2>0, <2>1, <2>2 DEF Tells
    <2>4. \/ unread' = unread /\ Tells(n)'
          \/ unread' = unread \cup {NextIssue}
      BY <2>0, <2>1, <2>2 DEF Tells
    <2>5. \A i \in open \ {NextIssue} : i \in ready' <=> i \in ready
      BY <2>2
    <2> QED
      BY <1>8, <2>0, <2>1, <2>4, <2>5
  <1>5. CASE \/ StartFromReport \/ \E issues \in (SUBSET world.refs) \ {{}} : StartExplicit(issues)
             \/ Verify \/ ReadBodies \/ Snapshot \/ Detect \/ Detecting \/ Plan
    <2>1. command' = "start" /\ pc' \notin {"confirm", "label"}
      BY <1>5 DEF StartFromReport, StartExplicit, Verify, ReadBodies, Snapshot, Detect, Detecting, Plan,
            Give, Phases
    <2> QED
      BY <2>1 DEF Labelled
  <1>6. CASE \E i \in Numbers : Close(i)
    <2>1. PICK n \in Numbers : Close(n)
      BY <1>6
    <2>2. /\ UNCHANGED <<command, report, open, touched, unread, claimed, split, verdict, ready, before,
                         pc, todo, action>>
          /\ NextIssue' = NextIssue
          /\ closed' = closed \cup {n} /\ late' = IF Confirmed(n) THEN late \cup {n} ELSE late
      BY <2>1 DEF Close, Change, reportVars, NextIssue
    <2>3. pc = "label" /\ NextIssue \in closed' \ late' => NextIssue \in closed \ late
      <3>1. pc = "label" => Confirmed(NextIssue)
        BY DEF Confirmed, Phases
      <3> QED
        BY <2>2, <3>1
    <2>4. ASSUME command = "discover" /\ report, NEW i \in open \ Others
          PROVE  Tells(i)'
      <3>1. Tells(i) /\ Confirmed(i)
        BY <2>4 DEF Labelled, Confirmed
      <3>2. i \in closed' \ late' <=> i \in closed \ late
        BY <2>1, <2>2, <3>1 DEF Close
      <3> QED
        BY <2>2, <3>1, <3>2 DEF Tells
    <2> QED
      BY <2>2, <2>3, <2>4 DEF Labelled
  <1>10. CASE DaemonEnds
    BY <1>10 DEF DaemonEnds, Change, reportVars, Labelled, Tells, NextIssue
  <1>7. CASE \E i \in Issues : Claim(i) \/ Release(i)
    <2>1. PICK i \in Issues : Claim(i) \/ Release(i)
      BY <1>7
    <2>2. /\ UNCHANGED <<command, report, open, unread, split, verdict, pc, todo, action, closed, late>>
          /\ NextIssue' = NextIssue
      BY <2>1 DEF Claim, Release, Change, reportVars, NextIssue
    <2>3. /\ touched' = touched \cup {i} /\ claimed \subseteq claimed' \cup {i}
          /\ \A j : j # i => (j \in ready' <=> j \in ready)
      BY <2>1 DEF Claim, Release
    <2>4. /\ before'.claimed \subseteq before.claimed /\ before'.split = before.split
          /\ before'.ready = before.ready
      BY <2>1 DEF Claim, Release, Before
    <2>5. ASSUME command = "discover" /\ report,
                 NEW j \in open \ (todo \cup touched' \cup unread \cup claimed' \cup split)
          PROVE  Tells(j)'
      <3>1. j # i /\ Tells(j)
        BY <2>3, <2>5 DEF Labelled
      <3> QED
        BY <2>2, <2>3, <2>4, <3>1 DEF Tells
    <2>6. pc = "confirm" /\ NextIssue \in ready' => NextIssue \in touched'
      BY <2>3 DEF Labelled
    <2> QED
      BY <2>2, <2>4, <2>5, <2>6 DEF Labelled
  <1> QED
    BY <1>1, <1>2, <1>3, <1>4, <1>5, <1>6, <1>7, <1>9, <1>10 DEF Next

LEMMA NextLinkIsLink ==
    ASSUME IntakeTypes, links \subseteq Wants, links # {}
    PROVE  NextLink \in links
  <1>1. Issues \subseteq Nat /\ Numbers \subseteq Nat
    BY IssuesAssumption, IntakeAssumption DEF Numbers
  <1>2. \A l \in links : l \in Issues \X Numbers /\ l[1] \in Nat /\ l[2] \in Nat /\ l = <<l[1], l[2]>>
    <2>1. \A l \in links : l \in Issues \X Numbers
      BY DEF Wants
    <2> QED
      BY <1>1, <2>1
  <1> DEFINE Firsts == {l[1] : l \in links}
  <1>3. PICK m \in Firsts : \A n \in Firsts : m <= n
    <2>1. Firsts \subseteq Nat /\ Firsts # {}
      BY <1>2
    <2> HIDE DEF Firsts
    <2> QED
      BY <2>1, LeastNumber
  <1> DEFINE Seconds == {l[2] : l \in {k \in links : k[1] = m}}
  <1>4. PICK d \in Seconds : \A n \in Seconds : d <= n
    <2>1. Seconds \subseteq Nat /\ Seconds # {}
      BY <1>2
    <2> HIDE DEF Seconds
    <2> QED
      BY <2>1, LeastNumber
  <1>5. PICK l \in links : l[1] = m /\ l[2] = d
    OBVIOUS
  <1>6. \A k \in links : l[1] < k[1] \/ (l[1] = k[1] /\ l[2] <= k[2])
    <2>1. ASSUME NEW k \in links PROVE l[1] < k[1] \/ (l[1] = k[1] /\ l[2] <= k[2])
      <3>1. m <= k[1] /\ k[1] \in Nat /\ m \in Nat
        BY <1>2, <1>3, <1>5
      <3>2. k[1] = m => d <= k[2]
        BY <1>4
      <3> QED
        BY <1>5, <3>1, <3>2
    <2> QED
      BY <2>1
  <1> QED
    BY <1>6 DEF NextLink

LEMMA LinkageKept ==
    ASSUME IntakeTypes, Phases, Linkage, Next
    PROVE  Linkage'
  <1> DEFINE Seen(i, d) == d \in closed \cup withPr \/ <<i, d>> \in links \cup unmet
  <1>1. CASE \/ \E c \in {"analyze", "discover"}, d \in BOOLEAN : Begin(c, d)
             \/ Resolve \/ FetchDependency \/ Screen \/ Gate \/ ReadClaim \/ WriteReport \/ ReadLabels
             \/ ConfirmOpen \/ WriteLabel \/ StartFromReport
             \/ \E issues \in (SUBSET world.refs) \ {{}} : StartExplicit(issues)
             \/ Verify
    <2>1. UNCHANGED <<world, links, unmet, plan>> /\ pc # "started"
      BY <1>1 DEF Begin, Resolve, FetchDependency, Screen, Gate, ReadClaim, WriteReport, ReadLabels,
            ConfirmOpen, WriteLabel, StartFromReport, StartExplicit, Verify, worldVars, planVars
    <2>2. pc' \notin {"snapshots", "detect", "started"}
      BY <1>1 DEF Begin, Resolve, FetchDependency, Screen, Gate, ReadClaim, WriteReport, ReadLabels,
            ConfirmOpen, WriteLabel, StartFromReport, StartExplicit, Verify, Classify, Onward, Enter, Give
    <2> QED
      BY <2>1, <2>2 DEF Linkage, Wants
  <1>2. CASE ReadBodies
    <2>1. UNCHANGED <<world, unmet, plan, closed, withPr>> /\ pc = "bodies"
      BY <1>2 DEF ReadBodies, worldVars
    <2>2. CASE Give /\ UNCHANGED links
      BY <2>1, <2>2 DEF Give, Linkage, Wants
    <2>3. CASE /\ links' = {l \in todo \X Numbers : l[2] \in world.dependsOn[l[1]]}
               /\ pc' = "snapshots" /\ UNCHANGED <<todo, faults>>
      <3>1. todo \subseteq Issues
        BY DEF IntakeTypes
      <3>2. links' \subseteq Wants
        BY <2>3, <3>1 DEF Wants
      <3>3. ASSUME NEW i \in todo, NEW d \in world.dependsOn[i] PROVE <<i, d>> \in links'
        <4>1. d \in Numbers
          BY <3>1 DEF IntakeTypes
        <4> QED
          BY <2>3, <4>1
      <3> QED
        BY <2>1, <2>3, <3>2, <3>3 DEF Linkage, Wants
    <2> QED
      BY <1>2, <2>2, <2>3 DEF ReadBodies
  <1>3. CASE Snapshot
    <2>1. /\ UNCHANGED <<world, plan, closed, withPr, pc, todo>> /\ pc = "snapshots"
          /\ links' = links \ {NextLink} /\ links # {}
      BY <1>3 DEF Snapshot, worldVars
    <2>2. NextLink \in links
      BY <2>1, NextLinkIsLink DEF Linkage
    <2>3. /\ unmet \subseteq unmet' /\ unmet' \subseteq unmet \cup {NextLink}
          /\ NextLink[2] \in closed \cup withPr \/ NextLink \in unmet'
      BY <1>3 DEF Snapshot, LookUpFails
    <2>4. links' \subseteq Wants /\ unmet' \subseteq Wants
      BY <2>1, <2>2, <2>3 DEF Linkage
    <2>5. ASSUME NEW i \in todo, NEW d \in world.dependsOn[i]
          PROVE  d \in closed \cup withPr \/ <<i, d>> \in links' \cup unmet'
      <3>1. Seen(i, d)
        BY <2>1 DEF Linkage
      <3>2. CASE <<i, d>> = NextLink
        <4>1. NextLink[2] = d
          BY <3>2
        <4> QED
          BY <2>3, <3>2, <4>1
      <3>3. CASE <<i, d>> # NextLink
        BY <2>1, <2>3, <3>1, <3>3
      <3> QED
        BY <3>2, <3>3
    <2> QED
      BY <2>1, <2>4, <2>5 DEF Linkage, Wants
  <1>4. CASE Detect
    <2>1. /\ UNCHANGED <<world, plan, closed, withPr, todo, links, unmet>> /\ pc = "snapshots"
          /\ links = {} /\ pc' = "detect" /\ graph' = [i \in todo |-> world.dependsOn[i]]
      BY <1>4 DEF Detect, StartDetecting, worldVars, planVars
    <2> QED
      BY <2>1 DEF Linkage, Wants
  <1>5. CASE Detecting
    <2>1. /\ UNCHANGED <<world, plan, closed, withPr, todo, links, unmet, pc>> /\ graph' = graph
      BY <1>5 DEF Detecting, DetectStep, VisitRoot, LookAtDependency, Visit, Return, worldVars, planVars
    <2> QED
      BY <2>1 DEF Linkage, Wants
  <1>6. CASE Plan
    <2>1. UNCHANGED <<world, links, unmet>> /\ pc = "detect" /\ pc' = "started"
      BY <1>6 DEF Plan, worldVars
    <2> QED
      BY <2>1 DEF Linkage, Wants
  <1>7. CASE \/ \E i \in Numbers : Close(i)
             \/ \E i \in Issues : Claim(i) \/ Release(i)
             \/ DaemonEnds
    <2>1. /\ UNCHANGED <<world, plan, todo, links, unmet, pc, graph>>
          /\ closed \subseteq closed' /\ withPr \subseteq withPr'
      BY <1>7 DEF Close, Claim, Release, DaemonEnds, Change, planVars, cycleVars
    <2>2. pc \in {"snapshots", "detect"} =>
             \A i \in todo : \A d \in world.dependsOn[i] :
                 d \in closed' \cup withPr' \/ <<i, d>> \in links \cup unmet
      BY <2>1 DEF Linkage
    <2> QED
      BY <2>1, <2>2 DEF Linkage, Wants
  <1> QED
    BY <1>1, <1>2, <1>3, <1>4, <1>5, <1>6, <1>7 DEF Next

\* Of issues that all wait for one of them, one is on a cycle, and is not let wait.
LEMMA NobodyWaitsForWaiters ==
    ASSUME IntakeInv, pc = "detect", Detected,
           NEW S \in SUBSET todo, S # {},
           \A i \in S : ~ IsInvalid(i) /\ \E j \in S : <<i, j>> \in unmet
    PROVE  FALSE
  <1>1. /\ todo \subseteq Issues /\ unmet \subseteq Wants /\ graph = [i \in todo |-> world.dependsOn[i]]
        /\ Batch = todo
    BY DEF IntakeInv, IntakeTypes, Linkage, Batch
  <1>2. IsFiniteSet(S)
    <2>1. S \in SUBSET Issues
      BY <1>1
    <2> QED
      BY <2>1, IssuesAssumption, FS_Subset
  <1>3. \A i \in S : \E j \in S : j \in Needs(graph, i)
    <2>1. ASSUME NEW i \in S PROVE \E j \in S : j \in Needs(graph, i)
      <3>1. PICK j \in S : <<i, j>> \in unmet
        OBVIOUS
      <3>2. j \in world.dependsOn[i]
        BY <1>1, <3>1 DEF Wants
      <3> QED
        BY <1>1, <3>2 DEF Needs
    <2> QED
      BY <2>1
  <1>4. PICK i \in S : Leads(graph, i, i)
    BY <1>2, <1>3, SomeCycle
  <1>5. i \in cyclic
    BY <1>1, <1>4, SearchIsExact DEF IntakeInv
  <1> QED
    BY <1>5 DEF IsInvalid

LEMMA PlanKept ==
    ASSUME IntakeInv, Next
    PROVE  PlanIsSound'
  <1>1. CASE Plan
    <2>1. /\ pc = "detect" /\ Detected /\ plan' = [i \in todo |-> InitialState(i)]
          /\ UNCHANGED <<world, closed, withPr, unmet>>
      BY <1>1 DEF Plan, worldVars
    <2>2. ASSUME NEW i \in DOMAIN plan', plan'[i] = "PENDING"
          PROVE  world'.dependsOn[i] \subseteq closed' \cup withPr'
      <3>1. i \in todo /\ ~ Waits(i)
        BY <2>1, <2>2 DEF InitialState
      <3>2. links = {} /\ \A d \in world.dependsOn[i] :
               d \in closed \cup withPr \/ <<i, d>> \in links \cup unmet
        BY <2>1, <3>1 DEF IntakeInv, Linkage
      <3>3. ASSUME NEW d, <<i, d>> \in unmet PROVE FALSE
        <4>1. <<i, d>>[1] = i
          OBVIOUS
        <4> QED
          BY <3>1, <3>3, <4>1 DEF Waits
      <3> QED
        BY <2>1, <3>2, <3>3
    <2>3. ASSUME NEW S \in SUBSET DOMAIN plan', S # {},
                 \A i \in S : plan'[i] = "DEFERRED_DEPENDENCY" /\ \E j \in S : <<i, j>> \in unmet'
          PROVE  FALSE
      <3>1. S \in SUBSET todo
        BY <2>1
      <3>2. \A i \in S : ~ IsInvalid(i) /\ \E j \in S : <<i, j>> \in unmet
        BY <2>1, <2>3, <3>1 DEF InitialState
      <3> QED
        BY <2>1, <2>3, <3>1, <3>2, NobodyWaitsForWaiters
    <2> QED
      BY <2>2, <2>3 DEF PlanIsSound
  <1>2. CASE ~ Plan /\ pc # "started"
    <2>1. pc' # "started" /\ UNCHANGED <<world, plan>>
      BY <1>2 DEF Next, Begin, Resolve, FetchDependency, Screen, Gate, ReadClaim, WriteReport, ReadLabels,
            ConfirmOpen, WriteLabel, StartFromReport, StartExplicit, Verify, ReadBodies, Snapshot, Detect, Detecting,
            Close, Claim, Release, DaemonEnds, Change, Classify, Onward, Enter, Give, worldVars, planVars
    <2>2. DOMAIN plan' = {}
      BY <1>2, <2>1 DEF IntakeInv, Linkage, NoPlan
    <2> QED
      BY <2>2 DEF PlanIsSound
  <1>3. CASE pc = "started"
    BY <1>3 DEF Next, Begin, Resolve, FetchDependency, Screen, Gate, ReadClaim, WriteReport, ReadLabels,
         ConfirmOpen, WriteLabel, StartFromReport, StartExplicit, Verify, ReadBodies, Snapshot, Detect, Detecting, Plan,
         Close, Claim, Release, DaemonEnds, Change
  <1> QED
    BY <1>1, <1>2, <1>3

LEMMA IntakeInit == Init => IntakeInv
  <1> SUFFICES ASSUME Init PROVE IntakeInv
    OBVIOUS
  <1>1. PICK w \in Worlds :
          /\ world = [dependsOn |-> w.dependsOn, refs |-> w.refs, commands |-> w.commands]
          /\ closed = w.closed /\ claimed = w.claimed /\ split = w.split /\ ready = w.ready
    BY DEF Init
  <1>2. world.refs \subseteq Issues /\ ready \subseteq Issues /\ world.dependsOn \in [Issues -> SUBSET Numbers]
    BY <1>1, IntakeAssumption
  <1>3. /\ pc = "idle" /\ command = None /\ todo = {} /\ open = {} /\ screen = None
        /\ verdict = [i \in Issues |-> None] /\ executable = {} /\ report = FALSE
        /\ links = {} /\ unmet = {} /\ plan = NoPlan
        /\ before = [closed |-> {}, claimed |-> {}, split |-> {}, ready |-> {}]
    BY DEF Init
  <1>4. IntakeTypes
    BY <1>2, <1>3 DEF IntakeTypes
  <1>5. Phases
    BY <1>3 DEF Phases, Visiting, Analysing, Labelling, Starting
  <1>6. Before
    BY <1>3 DEF Before, Analysing, Labelling
  <1>7. Screened /\ Labelled
    BY <1>3 DEF Screened, Labelled
  <1>11. Unvisited
    BY <1>3 DEF Unvisited, Analysing, Labelling
  <1>8. Linkage
    BY <1>3 DEF Linkage
  <1>9. PlanIsSound
    BY <1>3 DEF PlanIsSound, NoPlan
  <1>10. CycleInv
    BY SearchInit DEF Init
  <1> QED
    BY <1>4, <1>5, <1>6, <1>7, <1>8, <1>9, <1>10, <1>11 DEF IntakeInv

LEMMA SearchKept ==
    ASSUME IntakeInv, Next
    PROVE  CycleInv'
  <1>1. CASE Detect
    <2>1. StartDetecting([i \in todo |-> world.dependsOn[i]])
      BY <1>1 DEF Detect
    <2>2. DOMAIN [i \in todo |-> world.dependsOn[i]] \subseteq Issues
      BY DEF IntakeInv, IntakeTypes
    <2> QED
      BY <2>1, <2>2, SearchStarts
  <1>2. CASE Detecting
    BY <1>2, SearchKeeps DEF Detecting, IntakeInv
  <1>3. CASE ~ Detect /\ ~ Detecting
    <2>1. UNCHANGED cycleVars
      BY <1>3 DEF Next, Begin, Resolve, FetchDependency, Screen, Gate, ReadClaim, WriteReport, ReadLabels,
            ConfirmOpen, WriteLabel, StartFromReport, StartExplicit, Verify, ReadBodies, Snapshot, Plan,
            Close, Claim, Release, DaemonEnds, Change
    <2> QED
      BY <2>1, SearchRests DEF IntakeInv
  <1> QED
    BY <1>1, <1>2, <1>3

LEMMA IntakeStep == IntakeInv /\ [Next]_vars => IntakeInv'
  <1> SUFFICES ASSUME IntakeInv, [Next]_vars PROVE IntakeInv'
    OBVIOUS
  <1>1. CASE Next
    BY <1>1, TypesKept, PhasesKept, BeforeKept, ScreenedKept, UnvisitedKept,
       LabelledKept, LinkageKept, PlanKept, SearchKept
       DEF IntakeInv
  <1>2. CASE UNCHANGED vars
    <2>1. UNCHANGED <<world, closed, claimed, split, ready, withPr, pc, command, todo, open, looking, screen,
                      verdict, executable, report, action, links, unmet, plan, before, touched, late, unread>>
          /\ graph' = graph
      BY <1>2 DEF vars, worldVars, reportVars, planVars, bookVars, cycleVars
    <2>2. CycleInv'
      BY <1>2, SearchRests DEF vars, IntakeInv
    <2>3. IntakeTypes' /\ Phases' /\ Before'
      BY <2>1 DEF IntakeInv, IntakeTypes, Phases, Before
    <2>4. Screened' /\ Labelled' /\ Unvisited'
      BY <2>1 DEF IntakeInv, Screened, Labelled, Tells, Unvisited, NextIssue
    <2>5. Linkage' /\ PlanIsSound'
      BY <2>1 DEF IntakeInv, Linkage, Wants, PlanIsSound
    <2> QED
      BY <2>2, <2>3, <2>4, <2>5 DEF IntakeInv
  <1> QED
    BY <1>1, <1>2

LEMMA IntakeHolds == Spec => []IntakeInv
  BY IntakeInit, IntakeStep, PTL DEF Spec

\* What the intake works with has its types, and the plan is a queue's.
THEOREM IntakeTypesOK == Spec => []IntakeTypes
  BY IntakeHolds, PTL DEF IntakeInv

\* The search for cycles blames the members of cycles, all of them and nobody
\* else, for any graph over any batch.
THEOREM OnlyCyclesAreBlamed == Spec => []CyclesAreExact
  <1>1. IntakeInv => CyclesAreExact
    BY SearchFindsCycles DEF IntakeInv
  <1> QED
    BY <1>1, IntakeHolds, PTL

\* A report offers no issue that was closed or claimed all along, and none whose
\* dependencies are not closed.
THEOREM OffersAreExecutable == Spec => []OfferedIsExecutable
  <1>1. IntakeInv => OfferedIsExecutable
    BY DEF IntakeInv, Before, Screened, OfferedIsExecutable
  <1> QED
    BY <1>1, IntakeHolds, PTL

\* discover changes no label of an issue that was claimed, split or closed all along.
THEOREM OthersAreLeftAlone == Spec => DiscoverLeavesAlone
  <1>1. ASSUME IntakeInv, [Next]_vars
        PROVE  [pc = "label" /\ todo' # todo =>
                  \A i \in Issues : i \in before.closed \cup before.claimed \cup before.split
                                      => (i \in ready' <=> i \in ready)]_vars
    <2> SUFFICES ASSUME Next, pc = "label", todo' # todo,
                        NEW i \in Issues, i \in before.closed \cup before.claimed \cup before.split
                 PROVE  i \in ready' <=> i \in ready
      BY <1>1
    <2>1. WriteLabel
      BY DEF Next, Begin, Resolve, FetchDependency, Screen, Gate, ReadClaim, WriteReport, ReadLabels, ConfirmOpen,
         StartFromReport, StartExplicit, Verify, ReadBodies, Snapshot, Detect, Detecting, Plan,
         Close, Claim, Release, DaemonEnds, Change
    <2>2. NextIssue \in open /\ open \cap before.closed = {} /\ NextIssue \notin before.claimed \cup before.split
      <3>1. NextIssue \in todo /\ todo \subseteq open
        BY <1>1, NextIsNext DEF IntakeInv, Phases, Visiting, Labelling
      <3> QED
        BY <1>1, <3>1 DEF IntakeInv, Before, Labelled, Labelling
    <2>3. i # NextIssue
      BY <2>2
    <2> QED
      BY <2>1, <2>3 DEF WriteLabel
  <1> QED
    BY <1>1, IntakeHolds, PTL DEF Spec, DiscoverLeavesAlone

\* After discover the labels say what the report says, but for failed requests
\* and what others changed meanwhile.
THEOREM LabelsAreRight == Spec => []LabelsFollowReport
  <1>1. IntakeInv => LabelsFollowReport
    BY DEF IntakeInv, Phases, Labelled, Tells, LabelsFollowReport
  <1> QED
    BY <1>1, IntakeHolds, PTL

\* Nothing is planned to start before its dependencies are met, and no planned
\* issues wait for one another only.
THEOREM PlansAreSound == Spec => []PlanIsSound
  BY IntakeHolds, PTL DEF IntakeInv
=================================================================================
