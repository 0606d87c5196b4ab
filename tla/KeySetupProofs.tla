--------------------------- MODULE KeySetupProofs ---------------------------
(***************************************************************************)
(* Proofs about KeySetup and Providers, for every set of keys, vendors and *)
(* model lists, and every order of edits and answers.                      *)
(***************************************************************************)
EXTENDS KeySetup, FiniteSetTheorems, FunctionTheorems, SequenceTheorems,
        WellFoundedInduction, TLAPS

(***************************************************************************)
(* Orders                                                                  *)
(***************************************************************************)

(* A set with zero and the successor of each of its numbers has them all:   *)
(* there is no least number it lacks.                                       *)
LEMMA FromZeroOn ==
  ASSUME NEW T, 0 \in T, \A i \in Nat : i \in T => i + 1 \in T
  PROVE  \A i \in Nat : i \in T
<1> DEFINE Lacking == {i \in Nat : i \notin T}
<1> SUFFICES ASSUME Lacking # {} PROVE FALSE
  OBVIOUS
<1>1. \A i, j \in Nat : i < j => <<i, j>> \in OpToRel(<, Nat)
  BY Zenon DEF OpToRel
<1>2. PICK i \in Lacking : \A j \in Lacking : <<j, i>> \notin OpToRel(<, Nat)
  <2>1. Lacking \subseteq Nat
    OBVIOUS
  <2> HIDE DEF Lacking
  <2> QED BY <2>1, NatLessThanWellFounded, WFMin
<1>3. i \in Nat /\ i \notin T /\ i # 0
  OBVIOUS
<1>4. i - 1 \in Nat /\ i - 1 < i /\ i - 1 + 1 = i
  BY <1>3
<1>5. i - 1 \notin Lacking
  BY <1>1, <1>2, <1>3, <1>4
<1>6. i - 1 \in T
  BY <1>4, <1>5
<1> QED BY <1>3, <1>4, <1>6

(* R orders T, as pairs of which the first goes before the second.          *)
Orders(R, T) ==
  /\ \A a \in T : <<a, a>> \notin R
  /\ \A a, b, c \in T : <<a, b>> \in R /\ <<b, c>> \in R => <<a, c>> \in R
  /\ \A a, b \in T : a # b => <<a, b>> \in R \/ <<b, a>> \in R

(* What goes before an element.                                             *)
Before(R, T, x) == {y \in T : <<y, x>> \in R}

(* Elements of an ordered set have different numbers of elements before     *)
(* them, so that each number below their own is that of one of them.        *)
LEMMA EachHasItsPlace ==
  ASSUME NEW T, IsFiniteSet(T), NEW R, Orders(R, T)
  PROVE  \A i \in 0..Cardinality(T) - 1 : \E x \in T : Cardinality(Before(R, T, x)) = i
<1> DEFINE n == Cardinality(T)
           U == 0..n - 1
           f == [x \in T |-> Cardinality(Before(R, T, x))]
<1>1. n \in Nat
  BY FS_CardinalityType
<1>2. ASSUME NEW x \in T
      PROVE  IsFiniteSet(Before(R, T, x)) /\ Cardinality(Before(R, T, x)) \in U
  <2>1. Before(R, T, x) \in SUBSET T /\ Before(R, T, x) # T
    BY DEF Before, Orders
  <2>2. /\ IsFiniteSet(Before(R, T, x)) /\ Cardinality(Before(R, T, x)) <= n
        /\ n = Cardinality(Before(R, T, x)) => T = Before(R, T, x)
    BY <2>1, FS_Subset
  <2>3. Cardinality(Before(R, T, x)) \in Nat
    BY <2>2, FS_CardinalityType
  <2> QED BY <1>1, <2>1, <2>2, <2>3
<1>3. ASSUME NEW x \in T, NEW y \in T, <<x, y>> \in R
      PROVE  Cardinality(Before(R, T, x)) # Cardinality(Before(R, T, y))
  <2>1. /\ Before(R, T, x) \in SUBSET Before(R, T, y)
        /\ x \in Before(R, T, y) /\ x \notin Before(R, T, x)
    BY <1>3 DEF Before, Orders
  <2>2. Cardinality(Before(R, T, y)) = Cardinality(Before(R, T, x))
          => Before(R, T, y) = Before(R, T, x)
    BY <1>2, <2>1, FS_Subset
  <2> QED BY <2>1, <2>2
<1>4. f \in [T -> U] /\ \A x, y \in T : f[x] = f[y] => x = y
  <2> HIDE DEF U
  <2> QED BY <1>2, <1>3 DEF Orders
<1> HIDE DEF f, U
<1>5. f \in Injection(T, U)
  BY <1>4, Fun_IsInj
<1>6. IsFiniteSet(U) /\ Cardinality(U) = n
  <2>1. 0 \in Int /\ n - 1 \in Int
    BY <1>1
  <2> QED BY <1>1, <2>1, FS_Interval DEF U
<1>7. f \in Surjection(T, U)
  BY <1>5, <1>6, FS_Injection
<1>8. \A i \in U : \E x \in T : f[x] = i
  BY <1>7, Fun_SurjectionProperties
<1> QED BY <1>8 DEF f, U

(* Sorting keeps every element and adds none.                               *)
LEMMA SortedIsAll ==
  ASSUME NEW T, IsFiniteSet(T), NEW R, Orders(R, T)
  PROVE  /\ Cardinality(T) \in Nat
         /\ Sorted(T, R) \in Seq(T) /\ Len(Sorted(T, R)) = Cardinality(T)
         /\ \A x \in T : \E j \in 1..Cardinality(T) : Sorted(T, R)[j] = x
<1> DEFINE n == Cardinality(T)
           at(j) == CHOOSE x \in T : Cardinality(Before(R, T, x)) = j - 1
<1>1. n \in Nat
  BY FS_CardinalityType
<1>2. Sorted(T, R) = [j \in 1..n |-> at(j)]
  BY DEF Sorted, Before
<1>3. ASSUME NEW j \in 1..n
      PROVE  at(j) \in T /\ Cardinality(Before(R, T, at(j))) = j - 1
  <2>1. j - 1 \in 0..n - 1
    BY <1>1
  <2>2. \E x \in T : Cardinality(Before(R, T, x)) = j - 1
    BY <2>1, EachHasItsPlace
  <2> QED BY <2>2
<1> HIDE DEF at
<1>4. Sorted(T, R) \in Seq(T) /\ Len(Sorted(T, R)) = n
  BY <1>1, <1>2, <1>3
<1> DEFINE f == [j \in 1..n |-> at(j)]
           U == 1..n
<1>5. f \in [U -> T] /\ \A i, j \in U : f[i] = f[j] => i = j
  <2>1. \A i, j \in U : f[i] = f[j] => i - 1 = j - 1
    BY <1>3
  <2> QED BY <1>3, <2>1
<1>6. IsFiniteSet(U) /\ Cardinality(U) = Cardinality(T)
  BY <1>1, FS_Interval
<1> HIDE DEF f, U
<1>7. f \in Surjection(U, T)
  <2>1. f \in Injection(U, T)
    BY <1>5, Fun_IsInj
  <2> QED BY <1>6, <2>1, FS_Injection
<1>8. \A x \in T : \E j \in U : f[j] = x
  BY <1>7, Fun_SurjectionProperties
<1> QED BY <1>1, <1>2, <1>4, <1>8 DEF f, U


(***************************************************************************)
(* Ranking                                                                 *)
(***************************************************************************)

(* Models no two of which share a place among the ids, nor an id.           *)
Distinct(models) ==
  /\ IsFiniteSet(models) /\ models \subseteq ModelRow
  /\ \A a, b \in models : a.ord = b.ord \/ a.id = b.id => a = b

(* A vendor's list leaves out what is inactive and what it repeats.         *)
LEMMA ListedAreDistinct ==
  ASSUME NEW listed \in Seq(ModelRow),
         \A i, j \in DOMAIN listed : listed[i].ord = listed[j].ord => listed[i].id = listed[j].id
  PROVE  Distinct(ListModels(listed)) /\ ListModels(listed) \subseteq ToSet(listed)
<1> DEFINE places == {j \in DOMAIN listed :
             /\ listed[j].active
             /\ \A l \in 1..(j - 1) : listed[l].active => listed[l].id # listed[j].id}
           M == ListModels(listed)
           f == [i \in places |-> listed[i]]
<1>1. Len(listed) \in Nat /\ DOMAIN listed = 1..Len(listed)
  OBVIOUS
<1>2. M = {listed[i] : i \in places}
  BY DEF ListModels
<1>3. M \subseteq ToSet(listed) /\ M \subseteq ModelRow
  BY <1>1, <1>2 DEF ToSet
<1>4. IsFiniteSet(M)
  <2>1. places \in SUBSET (1..Len(listed)) /\ IsFiniteSet(1..Len(listed))
    BY <1>1, FS_Interval
  <2>2. IsFiniteSet(places)
    BY <2>1, FS_Subset
  <2>3. f \in Surjection(places, M)
    <3>1. f \in [places -> M] /\ \A x \in M : \E i \in places : f[i] = x
      BY <1>2
    <3> HIDE DEF f, M, places
    <3> QED BY <3>1, Fun_IsSurj
  <2> HIDE DEF f, M, places
  <2> QED BY <2>2, <2>3, FS_Surjection
<1>5. ASSUME NEW a \in M, NEW b \in M, a.ord = b.ord \/ a.id = b.id PROVE a = b
  <2>1. PICK i \in places : a = listed[i]
    BY <1>2
  <2>2. PICK j \in places : b = listed[j]
    BY <1>2
  <2>3. i \in 1..Len(listed) /\ j \in 1..Len(listed) /\ listed[i].id = listed[j].id
        /\ listed[i].active /\ listed[j].active
    BY <1>1, <1>5, <2>1, <2>2
  <2>4. ~(i < j) /\ ~(j < i)
    <3>1. \A l \in 1..(j - 1) : listed[l].active => listed[l].id # listed[j].id
      OBVIOUS
    <3>2. \A l \in 1..(i - 1) : listed[l].active => listed[l].id # listed[i].id
      OBVIOUS
    <3>3. i < j => i \in 1..(j - 1)
      BY <1>1, <2>3
    <3>4. j < i => j \in 1..(i - 1)
      BY <1>1, <2>3
    <3> QED BY <2>3, <3>1, <3>2, <3>3, <3>4
  <2> QED BY <1>1, <2>1, <2>2, <2>3, <2>4
<1> QED BY <1>3, <1>4, <1>5 DEF Distinct

(* Numbers order what they belong to, one after another where they tie.     *)
Follows(R, T, u, v, w) ==
  /\ \A a, b \in T : w[a] = w[b] => a = b
  /\ \A a, b \in T : <<a, b>> \in R <=>
       u[a] < u[b] \/ (u[a] = u[b] /\ (v[a] < v[b] \/ (v[a] = v[b] /\ w[a] < w[b])))
LEMMA NumbersOrder ==
  ASSUME NEW T, NEW R, NEW u \in [T -> Int], NEW v \in [T -> Int], NEW w \in [T -> Int],
         Follows(R, T, u, v, w)
  PROVE  Orders(R, T)
<1> USE DEF Follows
<1>1. ASSUME NEW a \in T PROVE <<a, a>> \notin R
  OBVIOUS
<1>2. ASSUME NEW a \in T, NEW b \in T, NEW c \in T, <<a, b>> \in R, <<b, c>> \in R
      PROVE  <<a, c>> \in R
  <2>1. /\ u[a] \in Int /\ u[b] \in Int /\ u[c] \in Int
        /\ v[a] \in Int /\ v[b] \in Int /\ v[c] \in Int
        /\ w[a] \in Int /\ w[b] \in Int /\ w[c] \in Int
    OBVIOUS
  <2>2. u[a] < u[b] \/ (u[a] = u[b] /\ (v[a] < v[b] \/ (v[a] = v[b] /\ w[a] < w[b])))
    BY <1>2
  <2>3. u[b] < u[c] \/ (u[b] = u[c] /\ (v[b] < v[c] \/ (v[b] = v[c] /\ w[b] < w[c])))
    BY <1>2
  <2>4. u[a] < u[c] \/ (u[a] = u[c] /\ (v[a] < v[c] \/ (v[a] = v[c] /\ w[a] < w[c])))
    BY <2>1, <2>2, <2>3
  <2> QED BY <2>4
<1>3. ASSUME NEW a \in T, NEW b \in T, a # b PROVE <<a, b>> \in R \/ <<b, a>> \in R
  <2>1. /\ u[a] \in Int /\ u[b] \in Int /\ v[a] \in Int /\ v[b] \in Int
        /\ w[a] \in Int /\ w[b] \in Int /\ w[a] # w[b]
    BY <1>3
  <2> QED BY <2>1
<1> QED BY <1>1, <1>2, <1>3 DEF Orders

(* Strength, and at equal strength the place among the ids, orders models,  *)
(* and so does the distance from any strength before both.                  *)
LEMMA ModelsAreOrdered ==
  ASSUME NEW chat, Distinct(chat)
  PROVE  /\ Orders({p \in chat \X chat : Weaker(p[1], p[2])}, chat)
         /\ Orders({p \in chat \X chat : Stronger(p[1], p[2])}, chat)
         /\ \A middle \in Int : Orders({p \in chat \X chat : Nearer(middle, p[1], p[2])}, chat)
<1> DEFINE level == [a \in chat |-> 0]
           up == [a \in chat |-> a.strength]
           down == [a \in chat |-> -a.strength]
           place == [a \in chat |-> a.ord]
<1>1. \A a \in chat : a.strength \in Int /\ -a.strength \in Int /\ a.ord \in Int
  BY DEF Distinct, ModelRow
<1>2. /\ level \in [chat -> Int] /\ up \in [chat -> Int]
      /\ down \in [chat -> Int] /\ place \in [chat -> Int]
      /\ \A a, b \in chat : place[a] = place[b] => a = b
  BY <1>1 DEF Distinct
<1>3. Orders({p \in chat \X chat : Weaker(p[1], p[2])}, chat)
  <2> DEFINE R == {p \in chat \X chat : Weaker(p[1], p[2])}
  <2>1. \A a, b \in chat : <<a, b>> \in R <=>
          \/ level[a] < level[b]
          \/ level[a] = level[b] /\ (up[a] < up[b] \/ (up[a] = up[b] /\ place[a] < place[b]))
    BY DEF Weaker
  <2>2. Follows(R, chat, level, up, place)
    BY <1>2, <2>1 DEF Follows
  <2> HIDE DEF R, level, up, place
  <2>3. Orders(R, chat)
    BY <1>2, <2>2, NumbersOrder
  <2> QED BY <2>3 DEF R
<1>4. Orders({p \in chat \X chat : Stronger(p[1], p[2])}, chat)
  <2> DEFINE R == {p \in chat \X chat : Stronger(p[1], p[2])}
  <2>1. \A a, b \in chat : <<a, b>> \in R <=>
          \/ level[a] < level[b]
          \/ level[a] = level[b] /\ (down[a] < down[b] \/ (down[a] = down[b] /\ place[a] < place[b]))
    BY <1>1 DEF Stronger
  <2>2. Follows(R, chat, level, down, place)
    BY <1>2, <2>1 DEF Follows
  <2> HIDE DEF R, level, down, place
  <2>3. Orders(R, chat)
    BY <1>2, <2>2, NumbersOrder
  <2> QED BY <2>3 DEF R
<1>5. ASSUME NEW middle \in Int
      PROVE  Orders({p \in chat \X chat : Nearer(middle, p[1], p[2])}, chat)
  <2> DEFINE R == {p \in chat \X chat : Nearer(middle, p[1], p[2])}
             far == [a \in chat |-> IF a.strength < middle THEN middle - a.strength
                                                           ELSE a.strength - middle]
  <2>1. \A a, b \in chat : <<a, b>> \in R <=>
          \/ far[a] < far[b]
          \/ far[a] = far[b] /\ (down[a] < down[b] \/ (down[a] = down[b] /\ place[a] < place[b]))
    BY <1>1 DEF Nearer, Stronger
  <2>2. far \in [chat -> Int]
    BY <1>1
  <2>3. Follows(R, chat, far, down, place)
    BY <1>2, <2>1 DEF Follows
  <2> HIDE DEF R, far, down, place
  <2>4. Orders(R, chat)
    BY <1>2, <2>2, <2>3, NumbersOrder
  <2> QED BY <2>4 DEF R
<1> QED BY <1>3, <1>4, <1>5

(* Whatever the appetite, ranking keeps every model that can take a turn.   *)
LEMMA RankIsAll ==
  ASSUME NEW models, Distinct(models), NEW want
  PROVE  /\ Distinct(ChatModels(models)) /\ Cardinality(ChatModels(models)) \in Nat
         /\ Rank(models, want) \in Seq(ChatModels(models))
         /\ Len(Rank(models, want)) = Cardinality(ChatModels(models))
         /\ \A m \in ChatModels(models) :
              \E j \in 1..Cardinality(ChatModels(models)) : Rank(models, want)[j] = m
<1> DEFINE chat == ChatModels(models)
           IsAll(s) == /\ s \in Seq(chat) /\ Len(s) = Cardinality(chat)
                       /\ \A m \in chat : \E j \in 1..Cardinality(chat) : s[j] = m
<1>1. Distinct(chat)
  <2>1. chat \in SUBSET models /\ IsFiniteSet(models)
    BY DEF ChatModels, Distinct
  <2>2. IsFiniteSet(chat)
    BY <2>1, FS_Subset
  <2> QED BY <2>1, <2>2 DEF Distinct
<1> HIDE DEF chat
<1>2. IsFiniteSet(chat) /\ Cardinality(chat) \in Nat
  BY <1>1, FS_CardinalityType DEF Distinct
<1>3. ASSUME NEW R, Orders(R, chat) PROVE IsAll(Sorted(chat, R))
  BY <1>2, <1>3, SortedIsAll
<1>4. IsAll(Upwards(chat)) /\ IsAll(Downwards(chat))
  <2> HIDE DEF IsAll
  <2> QED BY <1>1, <1>3, ModelsAreOrdered DEF Upwards, Downwards
<1>5. IsAll(AroundMiddle(chat))
  <2> DEFINE middle == Upwards(chat)[(Cardinality(chat) \div 2) + 1].strength
             R == {p \in chat \X chat : Nearer(middle, p[1], p[2])}
  <2>1. Orders(R, chat)
    <3>1. CASE chat = {}
      BY <3>1 DEF Orders
    <3>2. CASE chat # {}
      <4>1. (Cardinality(chat) \div 2) + 1 \in 1..Cardinality(chat)
        <5>1. Cardinality(chat) # 0
          BY <1>2, <3>2, FS_EmptySet
        <5> QED BY <1>2, <5>1
      <4>2. Upwards(chat)[(Cardinality(chat) \div 2) + 1] \in chat
        BY <1>4, <4>1
      <4>3. middle \in Int
        BY <1>1, <4>2 DEF Distinct, ModelRow
      <4> HIDE DEF middle
      <4> QED BY <1>1, <4>3, ModelsAreOrdered
    <3> QED BY <3>1, <3>2
  <2>2. AroundMiddle(chat) = Sorted(chat, R)
    BY DEF AroundMiddle
  <2> HIDE DEF R, IsAll
  <2> QED BY <1>3, <2>1, <2>2
<1>6. Rank(models, want) \in {Upwards(chat), Downwards(chat), AroundMiddle(chat)}
  BY DEF Rank, chat
<1>7. IsAll(Rank(models, want))
  <2> HIDE DEF IsAll
  <2> QED BY <1>4, <1>5, <1>6
<1> QED BY <1>1, <1>2, <1>7 DEF chat


(***************************************************************************)
(* Spreading                                                               *)
(***************************************************************************)

Ids(models) == {m.id : m \in ChatModels(models)}
Times(s, id, upto) == Cardinality({i \in 1..upto : s[i] = id})
Even(s, ids) == \A upto \in DOMAIN s, a, b \in ids : Times(s, a, upto) <= Times(s, b, upto) + 1

(* Models are told apart by their ids.                                      *)
LEMMA AsManyIds ==
  ASSUME NEW models, Distinct(models)
  PROVE  /\ IsFiniteSet(Ids(models))
         /\ Cardinality(Ids(models)) = Cardinality(ChatModels(models))
<1> DEFINE chat == ChatModels(models)
           ids == Ids(models)
           f == [m \in chat |-> m.id]
<1>1. IsFiniteSet(chat) /\ \A a, b \in chat : a.id = b.id => a = b
  BY RankIsAll DEF Distinct
<1>2. f \in Bijection(chat, ids)
  <2>1. f \in [chat -> ids] /\ \A a, b \in chat : f[a] = f[b] => a = b
    BY <1>1 DEF Ids
  <2>2. \A id \in ids : \E m \in chat : f[m] = id
    BY DEF Ids
  <2> HIDE DEF f, chat, ids
  <2> QED BY <2>1, <2>2, Fun_IsBij
<1> HIDE DEF f, chat, ids
<1>3. ExistsBijection(chat, ids)
  BY <1>2, Fun_ExistsBij
<1> QED BY <1>1, <1>3, FS_Bijection DEF chat, ids

(* One more element is counted for its own id, in the last prefix only.     *)
LEMMA TimesOfAppend ==
  ASSUME NEW I, NEW s \in Seq(I), NEW x \in I, NEW a
  PROVE  /\ \A u \in 0..Len(s) : Times(s, a, u) \in Nat /\ Times(Append(s, x), a, u) = Times(s, a, u)
         /\ Times(Append(s, x), a, Len(s) + 1)
              = IF a = x THEN Times(s, a, Len(s)) + 1 ELSE Times(s, a, Len(s))
<1> DEFINE t == Append(s, x)
           n == Len(s)
           At(r, u) == {i \in 1..u : r[i] = a}
<1>1. n \in Nat /\ \A i \in 1..n : t[i] = s[i]
  OBVIOUS
<1>2. t[n + 1] = x
  OBVIOUS
<1> HIDE DEF t, n
<1>3. ASSUME NEW u \in 0..n
      PROVE  IsFiniteSet(At(s, u)) /\ Times(s, a, u) \in Nat /\ Times(t, a, u) = Times(s, a, u)
  <2>1. At(s, u) \in SUBSET (1..u) /\ IsFiniteSet(1..u)
    BY <1>1, FS_Interval
  <2>2. IsFiniteSet(At(s, u)) /\ Cardinality(At(s, u)) \in Nat
    BY <2>1, FS_Subset, FS_CardinalityType
  <2>3. \A i \in 1..u : t[i] = s[i]
    BY <1>1
  <2>4. At(t, u) = At(s, u)
    BY <2>3
  <2> QED BY <2>2, <2>4 DEF Times
<1>4. n \in 0..n /\ IsFiniteSet(At(s, n)) /\ Times(s, a, n) = Cardinality(At(s, n))
  <2>1. n \in 0..n
    BY <1>1
  <2>2. Times(s, a, n) = Cardinality(At(s, n))
    BY DEF Times
  <2> HIDE DEF At
  <2> QED BY <1>3, <2>1, <2>2
<1>5. Times(t, a, n + 1) = IF a = x THEN Times(s, a, n) + 1 ELSE Times(s, a, n)
  <2>1. 1..(n + 1) = (1..n) \cup {n + 1} /\ n + 1 \notin 1..n
    BY <1>1
  <2>2. CASE a = x
    <3>1. At(t, n + 1) = At(s, n) \cup {n + 1} /\ n + 1 \notin At(s, n)
      BY <1>1, <1>2, <2>1, <2>2
    <3>2. Cardinality(At(s, n) \cup {n + 1}) = Cardinality(At(s, n)) + 1
      <4> DEFINE A == At(s, n)
                 y == n + 1
      <4>1. y \notin A /\ IsFiniteSet(A)
        BY <1>4, <3>1
      <4> HIDE DEF A, y
      <4>2. Cardinality(A \cup {y}) = Cardinality(A) + 1
        BY <4>1, FS_AddElement
      <4> QED BY <4>2 DEF A, y
    <3> QED BY <1>4, <2>2, <3>1, <3>2 DEF Times
  <2>3. CASE a # x
    <3>1. At(t, n + 1) = At(s, n)
      BY <1>1, <1>2, <2>1, <2>3
    <3> QED BY <1>4, <2>3, <3>1 DEF Times
  <2> QED BY <2>2, <2>3
<1> QED BY <1>3, <1>5 DEF t, n

(* So far i suggestions were made, evenly; those given once more than the   *)
(* others are used, and never are all.                                      *)
Dealt(g, i, ids) ==
  /\ g.out \in Seq(ids) /\ Len(g.out) = i /\ g.used \in SUBSET ids /\ g.used # ids
  /\ \E c \in Nat : \A a \in ids : Times(g.out, a, i) = IF a \in g.used THEN c + 1 ELSE c
  /\ Even(g.out, ids)

(* The least of some numbers is one of them.                                *)
LEMMA LeastIsOne ==
  ASSUME NEW T, T \subseteq Nat, T # {}
  PROVE  Min(T) \in T
<1>1. \A i, j \in Nat : i < j => <<i, j>> \in OpToRel(<, Nat)
  BY Zenon DEF OpToRel
<1>2. PICK i \in T : \A j \in T : <<j, i>> \notin OpToRel(<, Nat)
  BY NatLessThanWellFounded, WFMin
<1>3. ASSUME NEW j \in T PROVE i <= j
  <2>1. i \in Nat /\ j \in Nat /\ ~(j < i)
    BY <1>1, <1>2
  <2> QED BY <2>1
<1> QED BY <1>3 DEF Min

LEMMA PickedIsDealt ==
  ASSUME NEW models, Distinct(models), NEW want, NEW i \in Nat,
         NEW g, Dealt(g, i, Ids(models))
  PROVE  Dealt(Picked(models, g, want), i + 1, Ids(models))
<1> DEFINE ids == Ids(models)
           ordered == Rank(models, want)
           free == {l \in DOMAIN ordered : ordered[l].id \notin g.used}
           pick == ordered[IF free = {} THEN 1 ELSE Min(free)].id
           used == g.used \cup {pick}
           next == Picked(models, g, want)
<1>1. /\ IsFiniteSet(ids) /\ Cardinality(ids) = Cardinality(ChatModels(models))
      /\ Cardinality(ids) \in Nat
  BY AsManyIds, RankIsAll
<1>2. /\ ordered \in Seq(ChatModels(models)) /\ Len(ordered) = Cardinality(ids)
      /\ DOMAIN ordered = 1..Cardinality(ids)
      /\ \A m \in ChatModels(models) : \E j \in DOMAIN ordered : ordered[j] = m
  <2>1. /\ ordered \in Seq(ChatModels(models)) /\ Len(ordered) = Cardinality(ids)
        /\ \A m \in ChatModels(models) : \E j \in 1..Cardinality(ids) : ordered[j] = m
    BY <1>1, RankIsAll
  <2> HIDE DEF ordered, ids
  <2> QED BY <2>1
<1>3. g.out \in Seq(ids) /\ Len(g.out) = i /\ g.used \in SUBSET ids /\ g.used # ids /\ Even(g.out, ids)
  BY DEF Dealt
<1>4. pick \in ids /\ pick \notin g.used
  <2>1. free # {}
    <3>1. PICK id \in ids : id \notin g.used
      BY <1>3
    <3>2. PICK m \in ChatModels(models) : id = m.id
      BY DEF Ids
    <3> QED BY <1>2, <3>1, <3>2
  <2>2. free \subseteq Nat
    BY <1>1, <1>2
  <2>3. Min(free) \in free
    <3> HIDE DEF free
    <3> QED BY <2>1, <2>2, LeastIsOne
  <2>4. ordered[Min(free)].id \notin g.used /\ ordered[Min(free)] \in ChatModels(models)
    BY <1>2, <2>3
  <2> QED BY <2>1, <2>4 DEF Ids
<1> HIDE DEF pick, free, ordered
<1>5. /\ next.out = Append(g.out, pick)
      /\ next.used = IF Cardinality(used) >= Cardinality(ids) THEN {} ELSE used
  BY <1>2 DEF Picked, pick, free, ordered
<1> HIDE DEF next, ids
<1>6. /\ used \in SUBSET ids
      /\ Cardinality(used) >= Cardinality(ids) <=> used = ids
  <2>1. used \in SUBSET ids
    BY <1>3, <1>4
  <2> HIDE DEF used
  <2>2. /\ IsFiniteSet(used) /\ Cardinality(used) <= Cardinality(ids)
        /\ Cardinality(ids) = Cardinality(used) => ids = used
    BY <1>1, <2>1, FS_Subset
  <2>3. Cardinality(used) \in Nat
    BY <2>2, FS_CardinalityType
  <2> QED BY <1>1, <2>1, <2>2, <2>3
<1>7. next.out \in Seq(ids) /\ Len(next.out) = i + 1 /\ next.used \in SUBSET ids /\ next.used # ids
  BY <1>3, <1>4, <1>5, <1>6
<1>8. PICK c \in Nat : \A a \in ids : Times(g.out, a, i) = IF a \in g.used THEN c + 1 ELSE c
  BY DEF Dealt, ids
<1>9. \A a \in ids : Times(next.out, a, i + 1) = IF a \in used THEN c + 1 ELSE c
  <2>1. \A a \in ids : Times(next.out, a, i + 1) = IF a = pick THEN Times(g.out, a, i) + 1
                                                              ELSE Times(g.out, a, i)
    BY <1>3, <1>4, <1>5, TimesOfAppend
  <2> QED BY <1>4, <1>8, <2>1
<1>10. \E d \in Nat : \A a \in ids : Times(next.out, a, i + 1) = IF a \in next.used THEN d + 1 ELSE d
  <2>1. CASE used = ids
    <3>1. \A a \in ids : Times(next.out, a, i + 1) = c + 1
      BY <1>9, <2>1
    <3>2. next.used = {} /\ c + 1 \in Nat
      BY <1>5, <1>6, <2>1
    <3> QED BY <3>1, <3>2
  <2>2. CASE used # ids
    BY <1>5, <1>6, <1>9, <2>2
  <2> QED BY <2>1, <2>2
<1>11. ASSUME NEW upto \in DOMAIN next.out, NEW a \in ids, NEW b \in ids
       PROVE  Times(next.out, a, upto) <= Times(next.out, b, upto) + 1
  <2>1. upto \in 1..i + 1
    BY <1>7
  <2>2. CASE upto = i + 1
    <3>1. Times(next.out, a, upto) \in {c, c + 1} /\ Times(next.out, b, upto) \in {c, c + 1}
      BY <1>9, <2>2
    <3> QED BY <3>1
  <2>3. CASE upto # i + 1
    <3>1. upto \in DOMAIN g.out /\ upto \in 0..Len(g.out)
      BY <1>3, <2>1, <2>3
    <3>2. Times(g.out, a, upto) <= Times(g.out, b, upto) + 1
      BY <1>3, <3>1 DEF Even
    <3>3. Times(next.out, a, upto) = Times(g.out, a, upto) /\ Times(next.out, b, upto) = Times(g.out, b, upto)
      <4>1. ASSUME NEW id PROVE Times(Append(g.out, pick), id, upto) = Times(g.out, id, upto)
        BY <1>3, <1>4, <3>1, TimesOfAppend
      <4> QED BY <1>5, <4>1
    <3> QED BY <3>2, <3>3
  <2> QED BY <2>2, <2>3
<1>12. Even(next.out, ids)
  BY <1>11 DEF Even
<1> QED BY <1>7, <1>10, <1>12 DEF Dealt, next, ids

(* There is a function that deals to one step after another.                *)
Deals(given, models, wants, n) ==
  given = [i \in 0..n |-> IF i = 0 THEN [out |-> <<>>, used |-> {}]
                          ELSE Picked(models, given[i - 1], wants[i])]
LEMMA DealingExists ==
  ASSUME NEW models, NEW wants
  PROVE  \A n \in Nat : \E given : Deals(given, models, wants, n)
<1> DEFINE T == {n \in Nat : \E given : Deals(given, models, wants, n)}
<1>1. 0 \in T
  <2> DEFINE given == [i \in 0..0 |-> [out |-> <<>>, used |-> {}]]
  <2>1. \A i \in 0..0 : given[i] = IF i = 0 THEN [out |-> <<>>, used |-> {}]
                                   ELSE Picked(models, given[i - 1], wants[i])
    OBVIOUS
  <2>2. given = [i \in 0..0 |-> given[i]]
    OBVIOUS
  <2> HIDE DEF given
  <2>3. Deals(given, models, wants, 0)
    BY <2>1, <2>2 DEF Deals
  <2> QED BY <2>3
<1>2. ASSUME NEW n \in Nat, n \in T PROVE n + 1 \in T
  <2>1. PICK f : Deals(f, models, wants, n)
    BY <1>2
  <2> DEFINE given == [i \in 0..n + 1 |-> IF i = n + 1 THEN Picked(models, f[n], wants[n + 1]) ELSE f[i]]
  <2>2. ASSUME NEW i \in 0..n + 1
        PROVE  given[i] = IF i = 0 THEN [out |-> <<>>, used |-> {}]
                          ELSE Picked(models, given[i - 1], wants[i])
    <3>1. CASE i = n + 1
      <4>1. i # 0 /\ i - 1 = n /\ n \in 0..n + 1 /\ n # n + 1
        BY <3>1
      <4>2. given[i - 1] = f[n] /\ given[i] = Picked(models, f[n], wants[n + 1])
        BY <3>1, <4>1
      <4> QED BY <3>1, <4>1, <4>2
    <3>2. CASE i # n + 1
      <4>1. i \in 0..n /\ given[i] = f[i]
        BY <3>2
      <4>2. f[i] = IF i = 0 THEN [out |-> <<>>, used |-> {}] ELSE Picked(models, f[i - 1], wants[i])
        BY <2>1, <4>1 DEF Deals
      <4>3. i # 0 => given[i - 1] = f[i - 1]
        <5>1. i # 0 => i - 1 \in 0..n + 1 /\ i - 1 # n + 1
          BY <3>2
        <5> QED BY <5>1
      <4> HIDE DEF given
      <4> QED BY <4>1, <4>2, <4>3
    <3> QED BY <3>1, <3>2
  <2>3. given = [i \in 0..n + 1 |-> given[i]]
    OBVIOUS
  <2> HIDE DEF given
  <2>4. Deals(given, models, wants, n + 1)
    BY <2>2, <2>3 DEF Deals
  <2> QED BY <2>4
<1> HIDE DEF T
<1>3. \A n \in Nat : n \in T
  BY <1>1, <1>2, FromZeroOn
<1> QED BY <1>3 DEF T

(* As many suggestions as steps, each a model that can take a turn, and     *)
(* evenly.                                                                  *)
LEMMA SpreadIsDealt ==
  ASSUME NEW models, Distinct(models), ChatModels(models) # {}, NEW W, NEW wants \in Seq(W)
  PROVE  /\ Spread(models, wants) \in Seq(Ids(models)) /\ Len(Spread(models, wants)) = Len(wants)
         /\ Even(Spread(models, wants), Ids(models))
<1> DEFINE n == Len(wants)
           given == CHOOSE f : Deals(f, models, wants, n)
           ids == Ids(models)
<1>1. n \in Nat
  OBVIOUS
<1>2. Deals(given, models, wants, n)
  BY <1>1, DealingExists
<1>3. Spread(models, wants) = given[n].out
  BY DEF Spread, Deals
<1> HIDE DEF given, n
<1> DEFINE T == {i \in Nat : i <= n => Dealt(given[i], i, ids)}
<1>4. 0 \in T
  <2>1. given[0] = [out |-> <<>>, used |-> {}]
    BY <1>1, <1>2 DEF Deals
  <2>2. ids # {}
    BY DEF Ids
  <2>3. ASSUME NEW a \in ids PROVE Times(<<>>, a, 0) = 0
    <3>1. {i \in 1..0 : <<>>[i] = a} = {}
      OBVIOUS
    <3> QED BY <3>1, FS_EmptySet DEF Times
  <2>4. Even(<<>>, ids)
    BY DEF Even
  <2> HIDE DEF ids
  <2>5. <<>> \in Seq(ids) /\ Len(<<>>) = 0 /\ {} \in SUBSET ids /\ 0 \in Nat
    OBVIOUS
  <2>6. \A a \in ids : Times(<<>>, a, 0) = IF a \in {} THEN 0 + 1 ELSE 0
    BY <2>3
  <2>7. \E c \in Nat : \A a \in ids : Times(<<>>, a, 0) = IF a \in {} THEN c + 1 ELSE c
    BY <2>5, <2>6
  <2>8. Dealt([out |-> <<>>, used |-> {}], 0, ids)
    BY <2>2, <2>4, <2>5, <2>7 DEF Dealt
  <2> QED BY <2>1, <2>5, <2>8
<1>5. ASSUME NEW i \in Nat, i \in T PROVE i + 1 \in T
  <2>1. CASE i + 1 <= n
    <3>1. i + 1 \in 0..n /\ i + 1 # 0 /\ i + 1 - 1 = i /\ i <= n
      BY <1>1, <2>1
    <3>2. given[i + 1] = Picked(models, given[i], wants[i + 1])
      <4>1. \A j \in 0..n : given[j] = IF j = 0 THEN [out |-> <<>>, used |-> {}]
                                        ELSE Picked(models, given[j - 1], wants[j])
        BY <1>2 DEF Deals
      <4> QED BY <3>1, <4>1
    <3>3. Dealt(given[i], i, ids)
      BY <1>5, <3>1
    <3> HIDE DEF ids
    <3>4. Dealt(given[i + 1], i + 1, ids)
      BY <3>2, <3>3, PickedIsDealt DEF ids
    <3> QED BY <3>4
  <2>2. CASE ~(i + 1 <= n)
    BY <2>2
  <2> QED BY <2>1, <2>2
<1> HIDE DEF T, ids
<1>6. \A i \in Nat : i \in T
  BY <1>4, <1>5, FromZeroOn
<1>7. Dealt(given[n], n, ids)
  BY <1>1, <1>6 DEF T
<1>8. given[n].out \in Seq(ids) /\ Len(given[n].out) = n /\ Even(given[n].out, ids)
  BY <1>7 DEF Dealt
<1> QED BY <1>3, <1>8 DEF ids, n

(***************************************************************************)
(* Reports                                                                 *)
(***************************************************************************)

Name == Seq(STRING)
Vendor == Vendors \cup {Unknown}
Question == {<<>>} \cup (Keys \cup ToSet(Pool)) \X Vendor

(* The vendor a key and a choice stand for issued the key, and lists a      *)
(* model by that name.                                                      *)
Offered(about, id) ==
  /\ about \in (Keys \cup ToSet(Pool)) \X Vendor
  /\ Issuer[about[1]] = IF about[2] # Unknown THEN about[2] ELSE Detect(about[1])
  /\ \E m \in ToSet(Catalogue[Issuer[about[1]]]) : m.id = id

Sound(r) ==
  /\ \A id \in ToSet(r.models) : Offered(r.about, id)
  /\ r.ok => /\ r.models # <<>> /\ r.suggested # <<>>
             /\ r.suggested \in Seq(ToSet(r.models))
             /\ Even(r.suggested, ToSet(r.models))
Report == [about : Question, ok : BOOLEAN, provider : Vendor, models : Seq(Name),
           suggested : Seq(Name)]
SoundReports == {r \in Report : Sound(r)}

(* A report without models is sound.                                        *)
LEMMA NotOkIsSound ==
  ASSUME NEW about \in Question
  PROVE  [NotOk EXCEPT !.about = about] \in SoundReports /\ NotOk \in SoundReports
<1>1. NotOk \in Report
  BY DEF NotOk, Report, Question, Vendor
<1>2. [NotOk EXCEPT !.about = about] \in Report
  BY <1>1 DEF Report
<1>3. ToSet(<<>>) = {}
  BY DEF ToSet
<1>4. NotOk.ok = FALSE /\ NotOk.models = <<>>
  BY DEF NotOk
<1> DEFINE r == [NotOk EXCEPT !.about = about]
<1>5. r.ok = NotOk.ok /\ r.models = NotOk.models
  BY <1>1 DEF Report
<1> HIDE DEF r
<1>6. Sound(NotOk) /\ Sound(r)
  BY <1>3, <1>4, <1>5 DEF Sound
<1> QED BY <1>1, <1>2, <1>6 DEF SoundReports, r

(* Whatever a vendor answers, the report on a key is sound.                 *)
LEMMA ReportsAreSound ==
  ASSUME NEW key \in Keys \cup ToSet(Pool), NEW provider \in Vendor,
         NEW W, NEW wants \in Seq(W), wants # <<>>,
         NEW report \in Reports(key, provider, wants)
  PROVE  report \in SoundReports
<1> DEFINE pid == IF provider # Unknown THEN provider ELSE Detect(key)
           listed == IF pid = Issuer[key] THEN {<<>>, Catalogue[pid]} ELSE {<<>>}
<1>1. PICK answer \in listed : report = InspectKey(key, provider, answer, wants)
  BY DEF Reports
<1> DEFINE M == ListModels(answer)
           chat == ChatModels(M)
           ordered == Rank(M, "strong")
           about == <<key, provider>>
           asked == [NotOk EXCEPT !.about = about]
<1>2. about \in (Keys \cup ToSet(Pool)) \X Vendor /\ about \in Question /\ Issuer[key] \in Vendors
  BY KeySetupAssumption DEF Question
<1>3. asked \in SoundReports
  BY <1>2, NotOkIsSound
<1>4. /\ answer \in Seq(ModelRow)
      /\ \A i, j \in DOMAIN answer : answer[i].ord = answer[j].ord => answer[i].id = answer[j].id
  <2>1. CASE answer = <<>>
    BY <2>1
  <2>2. CASE answer # <<>>
    BY <1>2, <2>2, CatalogueAssumption
  <2> QED BY <2>1, <2>2
<1>5. Distinct(M) /\ M \subseteq ToSet(answer)
  BY <1>4, ListedAreDistinct
<1>6. /\ ordered \in Seq(chat) /\ Len(ordered) = Cardinality(chat)
      /\ \A m \in chat : \E j \in 1..Cardinality(chat) : ordered[j] = m
  BY <1>5, RankIsAll, SMTT(30)
<1>7. chat \subseteq M
  BY DEF ChatModels
<1>8. CASE pid = Unknown \/ ordered = <<>>
  BY <1>1, <1>3, <1>8 DEF InspectKey
<1>9. CASE ~(pid = Unknown \/ ordered = <<>>)
  <2> DEFINE models == [i \in DOMAIN ordered |-> ordered[i].id]
             suggested == Spread(M, wants)
  <2>1. report = [about |-> about, ok |-> TRUE, provider |-> pid, models |-> models,
                  suggested |-> suggested]
    BY <1>1, <1>9 DEF InspectKey, NotOk
  <2> HIDE DEF ordered, chat, M, pid
  <2>2. Len(ordered) \in Nat /\ Len(ordered) # 0 /\ DOMAIN ordered = 1..Len(ordered)
    BY <1>6, <1>9
  <2>3. 1 \in DOMAIN ordered /\ ordered[1] \in chat
    BY <1>6, <2>2
  <2>4. answer # <<>>
    <3>1. ToSet(<<>>) = {}
      BY DEF ToSet
    <3> QED BY <1>5, <1>7, <2>3, <3>1
  <2>5. pid = Issuer[key] /\ answer = Catalogue[pid]
    BY <2>4 DEF pid
  <2>6. \A m \in chat : m.id \in Name
    BY <1>5, <1>7 DEF Distinct, ModelRow, Name
  <2> DEFINE ids == Ids(M)
  <2>7. models \in Seq(Name) /\ models # <<>>
    <3> DEFINE n == Len(ordered)
    <3>1. \A i \in 1..n : ordered[i] \in chat
      BY <1>6, <2>2
    <3>2. \A i \in 1..n : ordered[i].id \in Name
      BY <2>6, <3>1
    <3>3. models = [i \in 1..n |-> ordered[i].id] /\ n \in Nat /\ n # 0
      BY <2>2
    <3> HIDE DEF n, models
    <3>4. models \in Seq(Name) /\ Len(models) = n
      BY <3>2, <3>3
    <3> QED BY <3>3, <3>4
  <2>8. ToSet(models) = ids
    <3>1. \A l \in DOMAIN ordered : models[l] = ordered[l].id /\ ordered[l] \in chat
      BY <1>6
    <3>2. \A m \in chat : \E l \in DOMAIN ordered : ordered[l] = m
      BY <1>6, <2>2
    <3>3. ToSet(models) = {models[l] : l \in DOMAIN ordered}
      BY DEF ToSet
    <3>4. ids = {m.id : m \in chat}
      BY DEF Ids, chat
    <3> HIDE DEF models, ids
    <3> QED BY <3>1, <3>2, <3>3, <3>4
  <2>9. suggested \in Seq(ids) /\ Len(suggested) = Len(wants) /\ Even(suggested, ids)
    <3>1. ChatModels(M) # {}
      BY <2>3 DEF chat
    <3> QED BY <1>5, <3>1, SpreadIsDealt
  <2>10. \A id \in ids : Offered(about, id) /\ id \in Name
    <3>1. ASSUME NEW m \in chat PROVE Offered(about, m.id) /\ m.id \in Name
      <4>1. m \in ToSet(Catalogue[Issuer[key]])
        BY <1>5, <1>7, <2>5
      <4>2. Issuer[key] = IF provider # Unknown THEN provider ELSE Detect(key)
        BY <2>5 DEF pid
      <4> QED BY <1>2, <2>6, <4>1, <4>2 DEF Offered
    <3> QED BY <3>1 DEF Ids, chat
  <2> HIDE DEF models, suggested, ids, about
  <2>11. suggested \in Seq(Name) /\ suggested # <<>>
    <3>1. Len(wants) # 0
      OBVIOUS
    <3>2. ids \subseteq Name
      BY <2>10
    <3> QED BY <2>9, <3>1, <3>2
  <2>12. report \in Report
    BY <1>2, <2>1, <2>5, <2>7, <2>11 DEF Report, Vendor
  <2>13. Sound(report)
    <3>1. /\ report.about = about /\ report.models = models /\ report.suggested = suggested
      BY <2>1
    <3> QED BY <2>7, <2>8, <2>9, <2>10, <2>11, <3>1 DEF Sound
  <2> QED BY <2>12, <2>13 DEF SoundReports
<1> QED BY <1>8, <1>9

(***************************************************************************)
(* Cards and workers                                                       *)
(***************************************************************************)

CardRow == [id : Nat, key : Keys \cup {<<>>}, provider : Vendor, report : SoundReports]
CardIds(cards) == {cards[i].id : i \in DOMAIN cards}
Cards(cards, next) ==
  /\ cards \in Seq(CardRow) /\ next \in Nat \ {0}
  /\ \A i \in DOMAIN cards : 0 < cards[i].id /\ cards[i].id < next
  /\ \A i, j \in DOMAIN cards : cards[i].id = cards[j].id => i = j

(* A worker's model was offered to the key and vendor it is there for.      *)
Worker(ids) ==
  {w \in [ref : {PoolRef, NoRef} \cup ids, model : Name, for : Question, menu : SoundReports] :
     w.model # NoModel => Offered(w.for, w.model)}

LEMMA ReportForIsSound ==
  ASSUME NEW cards \in Seq(CardRow), NEW lent \in SoundReports,
         NEW ref \in {PoolRef, NoRef} \cup CardIds(cards)
  PROVE  ReportFor(cards, lent, ref) \in SoundReports
<1>1. CASE ref = PoolRef
  <2>1. ref # NoRef
    BY <1>1 DEF PoolRef, NoRef
  <2>2. ReportFor(cards, lent, ref) = lent
    BY <1>1, <2>1 DEF ReportFor
  <2> QED BY <2>2
<1>2. CASE ref = NoRef
  <2>1. NoReport \in SoundReports
    <3>1. <<>> \in Question
      BY DEF Question
    <3> QED BY <3>1, NotOkIsSound DEF NoReport
  <2> QED BY <1>2, <2>1 DEF ReportFor, PoolRef, NoRef
<1>3. CASE ref # PoolRef /\ ref # NoRef
  <2>1. \E i \in DOMAIN cards : cards[i].id = ref
    BY <1>3 DEF CardIds
  <2>2. ReportFor(cards, lent, ref) = cards[CHOOSE i \in DOMAIN cards : cards[i].id = ref].report
    BY <1>3 DEF ReportFor
  <2>3. \A i \in DOMAIN cards : cards[i].report \in SoundReports
    <3>1. \A c \in CardRow : c.report \in SoundReports
      BY DEF CardRow
    <3>2. \A i \in DOMAIN cards : cards[i] \in CardRow
      OBVIOUS
    <3> QED BY <3>1, <3>2
  <2> QED BY <2>1, <2>2, <2>3
<1> QED BY <1>1, <1>2, <1>3

(* The usable keys are the pool's or those of cards, with models to offer.  *)
LEMMA UsableHaveModels ==
  ASSUME NEW next, NEW cards, Cards(cards, next), NEW lent \in SoundReports, NEW src
  PROVE  /\ Usable(src, cards, lent) \in Seq({PoolRef} \cup CardIds(cards))
         /\ \A j \in 1..Len(Usable(src, cards, lent)) :
              ReportFor(cards, lent, Usable(src, cards, lent)[j]).ok
<1>1. CASE src = "pool"
  <2>1. Usable(src, cards, lent) = IF lent.ok THEN <<PoolRef>> ELSE <<>>
    <3>1. "pool" # "mine"
      OBVIOUS
    <3> QED BY <1>1, <3>1 DEF Usable
  <2>2. ReportFor(cards, lent, PoolRef) = lent
    <3>1. PoolRef # NoRef
      BY DEF PoolRef, NoRef
    <3> QED BY <3>1 DEF ReportFor
  <2>3. CASE lent.ok
    BY <2>1, <2>2, <2>3
  <2>4. CASE ~lent.ok
    BY <2>1, <2>4
  <2> QED BY <2>3, <2>4
<1>2. CASE src = "mine"
  <2> DEFINE fit == {i \in DOMAIN cards : cards[i].report.ok}
             R == {p \in fit \X fit : p[1] < p[2]}
             places == Sorted(fit, R)
             n == Cardinality(fit)
  <2>1. Len(cards) \in Nat /\ DOMAIN cards = 1..Len(cards)
    BY DEF Cards
  <2>2. IsFiniteSet(fit)
    <3>1. fit \in SUBSET (1..Len(cards)) /\ IsFiniteSet(1..Len(cards))
      BY <2>1, FS_Interval
    <3> HIDE DEF fit
    <3> QED BY <3>1, FS_Subset
  <2>3. Orders(R, fit)
    <3>1. \A i \in fit : i \in Int
      BY <2>1
    <3> HIDE DEF fit
    <3> QED BY <3>1 DEF Orders
  <2> HIDE DEF R
  <2>4. n \in Nat /\ places \in Seq(fit) /\ Len(places) = n
    <3> HIDE DEF fit
    <3> QED BY <2>2, <2>3, SortedIsAll
  <2>5. Usable(src, cards, lent) = [j \in DOMAIN places |-> cards[places[j]].id]
    <3>1. "mine" # "pool"
      OBVIOUS
    <3> QED BY <1>2, <3>1 DEF Usable, R
  <2> HIDE DEF places, n
  <2>6. ASSUME NEW j \in 1..n
        PROVE  /\ cards[places[j]].id \in CardIds(cards)
               /\ ReportFor(cards, lent, cards[places[j]].id).ok
    <3>1. places[j] \in DOMAIN cards /\ cards[places[j]].report.ok
      BY <2>4
    <3>2. cards[places[j]].id # PoolRef /\ cards[places[j]].id # NoRef
      BY <3>1 DEF Cards, CardRow, PoolRef, NoRef
    <3>3. (CHOOSE i \in DOMAIN cards : cards[i].id = cards[places[j]].id) = places[j]
      BY <3>1 DEF Cards
    <3> QED BY <3>1, <3>2, <3>3 DEF ReportFor, CardIds
  <2> HIDE DEF fit
  <2> DEFINE u == [j \in 1..n |-> cards[places[j]].id]
  <2>7. Usable(src, cards, lent) = u
    BY <2>4, <2>5
  <2>8. u \in Seq({PoolRef} \cup CardIds(cards)) /\ Len(u) = n
    BY <2>4, <2>6
  <2>9. \A j \in 1..n : ReportFor(cards, lent, u[j]).ok
    BY <2>6
  <2> HIDE DEF u
  <2> QED BY <2>7, <2>8, <2>9
<1>3. CASE src # "pool" /\ src # "mine"
  BY <1>3 DEF Usable
<1> QED BY <1>1, <1>2, <1>3

(* A step's turn comes round within what is dealt out.                      *)
LEMMA TurnIsWithin ==
  ASSUME NEW i \in Nat, i # 0, NEW n \in Nat, n # 0
  PROVE  ((i - 1) % n) + 1 \in 1..n
<1>1. i - 1 \in Int /\ n > 0
  OBVIOUS
<1>2. (i - 1) % n \in 0..n - 1
  BY <1>1
<1> QED BY <1>2

(* Each worker of a team built anew has a model its key was offered.        *)
LEMMA BuiltTeamIsSound ==
  ASSUME NEW next, NEW cards, Cards(cards, next), NEW lent \in SoundReports, NEW src,
         NEW count \in Nat
  PROVE  BuildTeam(src, cards, lent, count) \in [1..count -> Worker(CardIds(cards))]
<1> DEFINE usable == Usable(src, cards, lent)
           n == Len(usable)
           dealt(i) == usable[((i - 1) % n) + 1]
           report(i) == ReportFor(cards, lent, dealt(i))
           kept(i) == /\ i \in DOMAIN team /\ team[i].ref = dealt(i)
                      /\ team[i].model \in ToSet(report(i).models)
           suggested(i) == IF report(i).suggested = <<>> THEN report(i).models[1]
                           ELSE report(i).suggested[((i - 1) % Len(report(i).suggested)) + 1]
           model(i) == IF kept(i) THEN team[i].model ELSE suggested(i)
           worker(i) == [ref |-> dealt(i), model |-> model(i), for |-> report(i).about,
                         menu |-> report(i)]
<1>1. BuildTeam(src, cards, lent, count) = [i \in 1..count |-> IF usable = <<>> THEN Idle ELSE worker(i)]
  BY DEF BuildTeam
<1>2. Idle \in Worker(CardIds(cards))
  <2>1. NoReport \in SoundReports /\ NoModel \in Name /\ <<>> \in Question
    <3>1. <<>> \in Question /\ NoModel \in Name
      BY DEF Question, NoModel, Name
    <3> QED BY <3>1, NotOkIsSound DEF NoReport
  <2>2. /\ Idle \in [ref : {PoolRef, NoRef} \cup CardIds(cards), model : Name, for : Question,
                     menu : SoundReports]
        /\ Idle.model = NoModel
    BY <2>1 DEF Idle
  <2> QED BY <2>2 DEF Worker
<1>3. ASSUME NEW i \in 1..count, usable # <<>> PROVE worker(i) \in Worker(CardIds(cards))
  <2>1. /\ usable \in Seq({PoolRef} \cup CardIds(cards))
        /\ \A j \in 1..n : ReportFor(cards, lent, usable[j]).ok
    BY UsableHaveModels
  <2> HIDE DEF usable
  <2>2. n \in Nat /\ n # 0
    BY <1>3, <2>1
  <2>3. ((i - 1) % n) + 1 \in 1..n
    <3> HIDE DEF n
    <3> QED BY <2>2, TurnIsWithin
  <2>4. dealt(i) \in {PoolRef} \cup CardIds(cards) /\ report(i).ok
    BY <2>1, <2>3
  <2> HIDE DEF dealt
  <2>5. report(i) \in SoundReports
    BY <2>4, ReportForIsSound DEF Cards
  <2> HIDE DEF report
  <2>6. /\ report(i).about \in Question /\ report(i).models \in Seq(Name)
        /\ report(i).suggested \in Seq(ToSet(report(i).models))
        /\ report(i).models # <<>> /\ report(i).suggested # <<>>
        /\ \A id \in ToSet(report(i).models) : Offered(report(i).about, id)
    BY <2>4, <2>5 DEF SoundReports, Report, Sound
  <2>7. ((i - 1) % Len(report(i).suggested)) + 1 \in DOMAIN report(i).suggested
    <3> DEFINE m == Len(report(i).suggested)
    <3>1. m \in Nat /\ m # 0 /\ DOMAIN report(i).suggested = 1..m
      BY <2>6
    <3> HIDE DEF m
    <3>2. ((i - 1) % m) + 1 \in 1..m
      BY <3>1, TurnIsWithin
    <3> QED BY <3>1, <3>2 DEF m
  <2>8. suggested(i) \in ToSet(report(i).models)
    <3> DEFINE j == ((i - 1) % Len(report(i).suggested)) + 1
    <3>1. j \in DOMAIN report(i).suggested /\ suggested(i) = report(i).suggested[j]
      BY <2>6, <2>7
    <3> HIDE DEF j, suggested
    <3> QED BY <2>6, <3>1
  <2> HIDE DEF suggested
  <2>9. model(i) \in ToSet(report(i).models)
    BY <2>8
  <2>10. ToSet(report(i).models) \subseteq Name
    BY <2>6 DEF ToSet
  <2> HIDE DEF model
  <2>11. worker(i) \in [ref : {PoolRef, NoRef} \cup CardIds(cards), model : Name, for : Question,
                        menu : SoundReports]
    BY <2>4, <2>5, <2>6, <2>9, <2>10
  <2>12. Offered(worker(i).for, worker(i).model)
    BY <2>6, <2>9
  <2> HIDE DEF worker
  <2> QED BY <2>11, <2>12 DEF Worker
<1> HIDE DEF usable, worker
<1> QED BY <1>1, <1>2, <1>3

(***************************************************************************)
(* The invariant                                                           *)
(***************************************************************************)

Query == {q \in [id : Nat, key : Keys, provider : Vendor, wants : Seq(ToSet(Wants))] :
            q.key # <<>> /\ q.wants # <<>>}

(* Every report there is can be relied on, wherever it came from, and every *)
(* model chosen was offered to the key and vendor it is remembered with.    *)
IInv ==
  /\ source \in {"pool", "mine", "none"}
  /\ Cards(keys, nextId)
  /\ pool \in SoundReports
  /\ steps \in 0..Len(Wants)
  /\ team \in [1..steps -> Worker(CardIds(keys))]
  /\ refs \subseteq {PoolRef} \cup CardIds(keys)
  /\ checking \subseteq Query
  /\ RoutedAsChosen

LEMMA EmptyCard ==
  ASSUME NEW id \in Nat
  PROVE  Card(id) \in CardRow /\ Card(id).id = id /\ NoReport \in SoundReports
<1>1. <<>> \in Question
  BY DEF Question
<1>2. NoReport \in SoundReports
  BY <1>1, NotOkIsSound DEF NoReport
<1> QED BY <1>2 DEF Card, CardRow, Vendor

LEMMA InitIsSound == Init => IInv
<1> SUFFICES ASSUME Init PROVE IInv
  OBVIOUS
<1>1. steps \in 0..Len(Wants) /\ steps \in Nat
  BY KeySetupAssumption DEF Init
<1>2. Card(1) \in CardRow /\ Card(1).id = 1
  BY EmptyCard
<1>3. Cards(keys, nextId)
  <2>1. keys = <<Card(1)>> /\ nextId = 2
    BY DEF Init
  <2> QED BY <1>2, <2>1 DEF Cards
<1>4. pool \in SoundReports
  BY EmptyCard DEF Init
<1>5. Idle \in Worker(CardIds(keys))
  <2>1. <<>> \in Question /\ NoModel \in Name
    BY DEF Question, NoModel, Name
  <2>2. /\ Idle \in [ref : {PoolRef, NoRef} \cup CardIds(keys), model : Name, for : Question,
                     menu : SoundReports]
        /\ Idle.model = NoModel
    BY <1>4, <2>1 DEF Idle, Init
  <2> QED BY <2>2 DEF Worker
<1>6. team \in [1..steps -> Worker(CardIds(keys))]
  BY <1>5 DEF Init
<1> QED BY <1>1, <1>3, <1>4, <1>6 DEF Init, IInv, RoutedAsChosen

(* Cards changed where they are keep their ids.                             *)
LEMMA SameIds ==
  ASSUME NEW next, NEW cards, Cards(cards, next), NEW new \in Seq(CardRow),
         Len(new) = Len(cards), \A i \in DOMAIN cards : new[i].id = cards[i].id
  PROVE  Cards(new, next) /\ CardIds(new) = CardIds(cards)
<1>1. DOMAIN new = DOMAIN cards
  BY DEF Cards
<1> QED BY <1>1 DEF Cards, CardIds

(* A team built anew fits the cards it is built for.                        *)
LEMMA RefreshedIsSound ==
  ASSUME Cards(keys', nextId'), pool' \in SoundReports, steps' \in 0..Len(Wants), RefreshPlan
  PROVE  /\ team' \in [1..steps' -> Worker(CardIds(keys'))]
         /\ refs' \subseteq {PoolRef} \cup CardIds(keys')
<1>1. steps' \in Nat
  BY KeySetupAssumption
<1>2. BuildTeam(source', keys', pool', steps') \in [1..steps' -> Worker(CardIds(keys'))]
  BY <1>1, BuiltTeamIsSound
<1>3. Usable(source', keys', pool') \in Seq({PoolRef} \cup CardIds(keys'))
  BY UsableHaveModels
<1>4. ToSet(Usable(source', keys', pool')) \subseteq {PoolRef} \cup CardIds(keys')
  <2> DEFINE u == Usable(source', keys', pool')
             U == {PoolRef} \cup CardIds(keys')
  <2>1. u \in Seq(U)
    BY <1>3
  <2> HIDE DEF u, U
  <2>2. ToSet(u) \subseteq U
    BY <2>1 DEF ToSet
  <2> QED BY <2>2 DEF u, U
<1> QED BY <1>2, <1>4 DEF RefreshPlan


(* What an edit of the cards leaves alone, and what it must keep.           *)
Elsewhere == UNCHANGED <<source, pool, steps, team, refs, calls>> /\ checking' \subseteq checking
LEMMA EditedCardsAreSound ==
  ASSUME IInv, Elsewhere, Cards(keys', nextId'), CardIds(keys) \subseteq CardIds(keys')
  PROVE  IInv'
<1>1. \A w \in Worker(CardIds(keys)) : w \in Worker(CardIds(keys'))
  BY DEF Worker
<1>2. team' \in [1..steps' -> Worker(CardIds(keys'))]
  BY <1>1 DEF IInv, Elsewhere
<1>3. RoutedAsChosen'
  BY DEF IInv, Elsewhere, RoutedAsChosen, AskedAbout
<1>4. refs' \subseteq {PoolRef} \cup CardIds(keys')
  BY DEF IInv, Elsewhere
<1>5. source' \in {"pool", "mine", "none"} /\ pool' \in SoundReports
      /\ steps' \in 0..Len(Wants) /\ checking' \subseteq Query
  BY DEF IInv, Elsewhere
<1> QED BY <1>2, <1>3, <1>4, <1>5 DEF IInv

LEMMA PastedIsSound == ASSUME IInv, PasteKey PROVE IInv'
<1>1. PICK i \in DOMAIN keys, key \in Keys \cup {<<>>} :
        keys' = [keys EXCEPT ![i] = [@ EXCEPT !.key = key, !.report = NoReport]]
  BY DEF PasteKey
<1>2. keys \in Seq(CardRow) /\ NoReport \in SoundReports
  BY EmptyCard DEF IInv, Cards
<1> DEFINE c == [keys[i] EXCEPT !.key = key, !.report = NoReport]
<1>3. c \in CardRow /\ c.id = keys[i].id
  <2>1. keys[i] \in CardRow
    BY <1>2
  <2> QED BY <1>2, <2>1 DEF CardRow
<1>4. keys' = [keys EXCEPT ![i] = c]
  BY <1>1
<1> HIDE DEF c
<1>5. keys' \in Seq(CardRow) /\ Len(keys') = Len(keys) /\ \A j \in DOMAIN keys : keys'[j].id = keys[j].id
  BY <1>2, <1>3, <1>4
<1>6. Cards(keys', nextId) /\ CardIds(keys') = CardIds(keys) /\ nextId' = nextId
  BY <1>5, SameIds DEF IInv, PasteKey
<1> QED BY <1>6, EditedCardsAreSound DEF PasteKey, Elsewhere

LEMMA ChosenVendorIsSound == ASSUME IInv, ChooseVendor PROVE IInv'
<1>1. PICK i \in DOMAIN keys, v \in Vendors \cup {Unknown} :
        keys' = [keys EXCEPT ![i] = [@ EXCEPT !.provider = v, !.report = NoReport]]
  BY DEF ChooseVendor
<1>2. keys \in Seq(CardRow) /\ NoReport \in SoundReports
  BY EmptyCard DEF IInv, Cards
<1> DEFINE c == [keys[i] EXCEPT !.provider = v, !.report = NoReport]
<1>3. c \in CardRow /\ c.id = keys[i].id
  <2>1. keys[i] \in CardRow
    BY <1>2
  <2> QED BY <1>2, <2>1 DEF CardRow, Vendor
<1>4. keys' = [keys EXCEPT ![i] = c]
  BY <1>1
<1> HIDE DEF c
<1>5. keys' \in Seq(CardRow) /\ Len(keys') = Len(keys) /\ \A j \in DOMAIN keys : keys'[j].id = keys[j].id
  BY <1>2, <1>3, <1>4
<1>6. Cards(keys', nextId) /\ CardIds(keys') = CardIds(keys) /\ nextId' = nextId
  BY <1>5, SameIds DEF IInv, ChooseVendor
<1> QED BY <1>6, EditedCardsAreSound DEF ChooseVendor, Elsewhere

LEMMA AddedIsSound == ASSUME IInv, AddKey PROVE IInv'
<1> DEFINE c == Card(nextId)
           n == Len(keys)
<1>1. keys \in Seq(CardRow) /\ nextId \in Nat /\ n \in Nat
  BY DEF IInv, Cards
<1>2. c \in CardRow /\ c.id = nextId
  BY <1>1, EmptyCard
<1>3. keys' = Append(keys, c) /\ nextId' = nextId + 1
  BY DEF AddKey
<1> HIDE DEF c
<1>4. /\ keys' \in Seq(CardRow) /\ DOMAIN keys' = 1..(n + 1) /\ DOMAIN keys = 1..n
      /\ keys'[n + 1] = c /\ \A i \in 1..n : keys'[i] = keys[i]
  BY <1>1, <1>2, <1>3
<1>5. \A i \in 1..n : keys[i].id \in Nat /\ 0 < keys[i].id /\ keys[i].id < nextId
  <2>1. \A i \in 1..n : keys[i] \in CardRow
    BY <1>1
  <2> QED BY <1>4, <2>1 DEF IInv, Cards, CardRow
<1>6. 0 < nextId
  BY DEF IInv, Cards
<1> HIDE DEF n
<1>7. Cards(keys', nextId')
  <2>1. \A i \in 1..(n + 1) : i \in 1..n \/ i = n + 1
    BY <1>1
  <2>2. \A i \in 1..(n + 1) : 0 < keys'[i].id /\ keys'[i].id < nextId'
    BY <1>1, <1>2, <1>3, <1>4, <1>5, <1>6, <2>1
  <2>3. ASSUME NEW i \in 1..(n + 1), NEW j \in 1..(n + 1), keys'[i].id = keys'[j].id PROVE i = j
    <3>1. \A k, l \in 1..n : keys[k].id = keys[l].id => k = l
      BY <1>4 DEF IInv, Cards
    <3>2. \A k \in 1..n : keys[k].id # nextId
      BY <1>1, <1>5
    <3> QED BY <1>2, <1>4, <2>1, <2>3, <3>1, <3>2
  <2> QED BY <1>1, <1>3, <1>4, <2>2, <2>3 DEF Cards
<1>8. CardIds(keys) \subseteq CardIds(keys')
  <2>1. \A i \in 1..n : i \in 1..(n + 1)
    BY <1>1
  <2> QED BY <1>4, <2>1 DEF CardIds
<1> QED BY <1>7, <1>8, EditedCardsAreSound DEF AddKey, Elsewhere


(* What a step that builds the team anew must keep.                         *)
LEMMA RebuiltIsSound ==
  ASSUME IInv, RefreshPlan, source' \in {"pool", "mine", "none"}, Cards(keys', nextId'),
         pool' \in SoundReports, steps' \in 0..Len(Wants), checking' \subseteq Query,
         UNCHANGED calls
  PROVE  IInv'
<1>1. RoutedAsChosen'
  BY DEF IInv, RoutedAsChosen, AskedAbout
<1>2. /\ team' \in [1..steps' -> Worker(CardIds(keys'))]
      /\ refs' \subseteq {PoolRef} \cup CardIds(keys')
  BY RefreshedIsSound
<1> QED BY <1>1, <1>2 DEF IInv

LEMMA DroppedIsSound == ASSUME IInv, DropKey PROVE IInv'
<1>1. PICK i \in DOMAIN keys : keys' = RemoveAt(keys, i)
  BY DEF DropKey
<1> DEFINE n == Len(keys)
           at(j) == IF j < i THEN j ELSE j + 1
<1>2. keys \in Seq(CardRow) /\ n \in Nat /\ DOMAIN keys = 1..n /\ i \in 1..n
  BY DEF IInv, Cards
<1>3. /\ keys' \in Seq(CardRow) /\ DOMAIN keys' = 1..(n - 1)
      /\ \A j \in 1..(n - 1) : keys'[j] = keys[at(j)]
  <2> DEFINE front == SubSeq(keys, 1, i - 1)
             back == SubSeq(keys, i + 1, n)
  <2>1. front \in Seq(CardRow) /\ Len(front) = i - 1 /\ \A j \in 1..(i - 1) : front[j] = keys[j]
    BY <1>2
  <2>2. back \in Seq(CardRow) /\ Len(back) = n - i /\ \A j \in 1..(n - i) : back[j] = keys[i + j]
    BY <1>2
  <2>3. keys' = front \o back
    BY <1>1 DEF RemoveAt
  <2> HIDE DEF front, back, n
  <2>4. /\ keys' \in Seq(CardRow) /\ Len(keys') = n - 1
        /\ \A j \in 1..(n - 1) : keys'[j] = IF j <= i - 1 THEN front[j] ELSE back[j - (i - 1)]
    <3>1. front \in Seq(CardRow) /\ back \in Seq(CardRow)
      BY <2>1, <2>2
    <3>2. /\ front \o back \in Seq(CardRow) /\ Len(front \o back) = Len(front) + Len(back)
          /\ \A j \in 1..Len(front) + Len(back) :
               (front \o back)[j] = IF j <= Len(front) THEN front[j] ELSE back[j - Len(front)]
      BY <3>1
    <3>3. Len(front) + Len(back) = n - 1 /\ Len(front) = i - 1
      BY <1>2, <2>1, <2>2
    <3> QED BY <2>3, <3>2, <3>3
  <2>5. ASSUME NEW j \in 1..(n - 1) PROVE keys'[j] = keys[at(j)]
    <3>1. CASE j < i
      BY <1>2, <2>1, <2>4, <3>1
    <3>2. CASE ~(j < i)
      <4>1. j - (i - 1) \in 1..(n - i) /\ i + (j - (i - 1)) = j + 1 /\ ~(j <= i - 1)
        BY <1>2, <3>2
      <4> QED BY <2>2, <2>4, <3>2, <4>1
    <3> QED BY <3>1, <3>2
  <2> QED BY <1>2, <2>4, <2>5
<1>4. \A j \in 1..(n - 1) : at(j) \in 1..n
  BY <1>2
<1>5. \A j, k \in 1..(n - 1) : at(j) = at(k) => j = k
  BY <1>2
<1> HIDE DEF at, n
<1>6. Cards(keys', nextId')
  <2>1. nextId' = nextId /\ nextId \in Nat \ {0}
    BY DEF DropKey, IInv, Cards
  <2>2. ASSUME NEW j \in 1..(n - 1) PROVE 0 < keys'[j].id /\ keys'[j].id < nextId
    BY <1>2, <1>3, <1>4 DEF IInv, Cards
  <2>3. ASSUME NEW j \in 1..(n - 1), NEW k \in 1..(n - 1), keys'[j].id = keys'[k].id PROVE j = k
    <3>1. keys[at(j)].id = keys[at(k)].id /\ at(j) \in DOMAIN keys /\ at(k) \in DOMAIN keys
      BY <1>2, <1>3, <1>4, <2>3
    <3>2. at(j) = at(k)
      BY <3>1 DEF IInv, Cards
    <3> QED BY <1>5, <3>2
  <2> QED BY <1>3, <2>1, <2>2, <2>3 DEF Cards
<1>7. /\ RefreshPlan /\ source' \in {"pool", "mine", "none"} /\ pool' \in SoundReports
      /\ steps' \in 0..Len(Wants) /\ checking' \subseteq Query /\ UNCHANGED calls
  BY DEF DropKey, IInv
<1> QED BY <1>6, <1>7, RebuiltIsSound

LEMMA WantedOfSteps ==
  ASSUME steps \in 0..Len(Wants)
  PROVE  CurrentWants \in Seq(ToSet(Wants)) /\ CurrentWants # <<>>
<1> DEFINE n == IF steps = 0 THEN 1 ELSE steps
<1>1. Wants \in Seq(ToSet(Wants)) /\ Len(Wants) \in Nat /\ n \in 1..Len(Wants)
  BY KeySetupAssumption
<1>2. CurrentWants = SubSeq(Wants, 1, n)
  BY DEF CurrentWants
<1> DEFINE W == ToSet(Wants)
<1> HIDE DEF n, W
<1>3. SubSeq(Wants, 1, n) \in Seq(W) /\ Len(SubSeq(Wants, 1, n)) = n
  BY <1>1 DEF W
<1> QED BY <1>1, <1>2, <1>3 DEF W

LEMMA WantsAreAsked ==
  ASSUME IInv
  PROVE  CurrentWants \in Seq(ToSet(Wants)) /\ CurrentWants # <<>>
BY WantedOfSteps DEF IInv

LEMMA CheckedIsSound == ASSUME IInv, CheckKeys PROVE IInv'
<1>1. ASSUME NEW c \in ToSet(keys), c.key # <<>>
      PROVE  [id |-> c.id, key |-> c.key, provider |-> c.provider, wants |-> CurrentWants] \in Query
  <2>1. c \in CardRow
    BY DEF IInv, Cards, ToSet
  <2>2. c.id \in Nat /\ c.key \in Keys /\ c.provider \in Vendor
    BY <1>1, <2>1 DEF CardRow
  <2> QED BY <1>1, <2>2, WantsAreAsked DEF Query
<1>2. checking' \subseteq Query
  BY <1>1 DEF CheckKeys
<1> QED BY <1>2 DEF IInv, CheckKeys, RoutedAsChosen, AskedAbout

(* A report put on cards leaves them cards.                                 *)
WithReport(cards, id, report) ==
  [i \in DOMAIN cards |->
     IF cards[i].id = id THEN [cards[i] EXCEPT !.report = report] ELSE cards[i]]
LEMMA ReportedCards ==
  ASSUME NEW cards, NEW next, Cards(cards, next), NEW report \in SoundReports, NEW id
  PROVE  /\ Cards(WithReport(cards, id, report), next)
         /\ CardIds(WithReport(cards, id, report)) = CardIds(cards)
<1> DEFINE new == WithReport(cards, id, report)
           n == Len(cards)
<1>1. n \in Nat /\ DOMAIN cards = 1..n /\ \A i \in 1..n : cards[i] \in CardRow
  BY DEF Cards
<1> HIDE DEF n
<1>2. ASSUME NEW i \in 1..n PROVE new[i] \in CardRow /\ new[i].id = cards[i].id
  <2>1. [cards[i] EXCEPT !.report = report] \in CardRow
    BY <1>1 DEF CardRow
  <2>2. [cards[i] EXCEPT !.report = report].id = cards[i].id
    BY <1>1 DEF CardRow
  <2> QED BY <1>1, <2>1, <2>2 DEF WithReport
<1>3. new \in [1..n -> CardRow]
  BY <1>1, <1>2 DEF WithReport
<1> HIDE DEF new
<1>4. new \in Seq(CardRow) /\ Len(new) = n
  BY <1>1, <1>3
<1> QED BY <1>1, <1>2, <1>4, SameIds DEF n, new


LEMMA AnsweredIsSound == ASSUME IInv, KeyAnswers PROVE IInv'
<1>1. PICK q \in checking :
        /\ checking' = checking \ {q}
        /\ \E report \in Reports(q.key, q.provider, q.wants) :
             keys' = [i \in DOMAIN keys |->
               IF keys[i].id = q.id THEN [keys[i] EXCEPT !.report = report] ELSE keys[i]]
  BY DEF KeyAnswers
<1>2. PICK report \in Reports(q.key, q.provider, q.wants) :
        keys' = [i \in DOMAIN keys |->
          IF keys[i].id = q.id THEN [keys[i] EXCEPT !.report = report] ELSE keys[i]]
  BY <1>1
<1>3. q.key \in Keys /\ q.provider \in Vendor /\ q.wants \in Seq(ToSet(Wants)) /\ q.wants # <<>>
  BY DEF IInv, Query
<1>4. report \in SoundReports
  BY <1>3, ReportsAreSound
<1>5. Cards(keys', nextId) /\ CardIds(keys') = CardIds(keys)
  <2>1. Cards(keys, nextId)
    BY DEF IInv
  <2>2. keys' = WithReport(keys, q.id, report)
    BY <1>2 DEF WithReport
  <2> QED BY <1>4, <2>1, <2>2, ReportedCards
<1>6. /\ UNCHANGED <<source, nextId, pool, steps, calls>>
      /\ IF checking' = {} THEN RefreshPlan ELSE KeepPlan
  BY DEF KeyAnswers
<1>7. CASE checking' = {}
  <2>1. /\ RefreshPlan /\ source' \in {"pool", "mine", "none"} /\ pool' \in SoundReports
        /\ steps' \in 0..Len(Wants) /\ checking' \subseteq Query /\ Cards(keys', nextId')
    BY <1>5, <1>6, <1>7 DEF IInv
  <2> QED BY <1>6, <2>1, RebuiltIsSound
<1>8. CASE checking' # {}
  <2>1. Elsewhere /\ Cards(keys', nextId') /\ CardIds(keys) \subseteq CardIds(keys')
    BY <1>1, <1>5, <1>6, <1>8 DEF Elsewhere, KeepPlan
  <2> QED BY <2>1, EditedCardsAreSound
<1> QED BY <1>7, <1>8

(* Whatever was asked of the pool, it was asked for a step at least.        *)
Asked == {wants \in Seq(ToSet(Wants)) : wants # <<>>}
Lending == steps \in 0..Len(Wants) /\ lending \in Seq(Asked)

LEMMA LendingAsks == Spec => []Lending
<1>1. Init => Lending
  BY KeySetupAssumption DEF Init, Lending
<1>2. Lending /\ [Next]_vars => Lending'
  <2> SUFFICES ASSUME Lending, [Next]_vars PROVE Lending'
    OBVIOUS
  <2>1. CASE PoolAnswers
    <3>1. PICK i \in DOMAIN lending : lending' = RemoveAt(lending, i)
      BY <2>1 DEF PoolAnswers
    <3>2. lending \in Seq(Asked) /\ i \in 1..Len(lending) /\ Len(lending) \in Nat
      BY DEF Lending
    <3> DEFINE front == SubSeq(lending, 1, i - 1)
               back == SubSeq(lending, i + 1, Len(lending))
    <3>3. front \in Seq(Asked) /\ back \in Seq(Asked)
      <4>1. /\ \A k \in 1..i - 1 : lending[k] \in Asked
            /\ \A k \in i + 1..Len(lending) : lending[k] \in Asked
        BY <3>2
      <4> HIDE DEF Asked
      <4> QED BY <3>2, <4>1
    <3>4. lending' = front \o back
      BY <3>1 DEF RemoveAt
    <3>5. lending' \in Seq(Asked)
      <4> HIDE DEF front, back, Asked
      <4> QED BY <3>3, <3>4
    <3> QED BY <2>1, <3>5 DEF Lending, PoolAnswers
  <2>2. CASE SetSource
    <3>1. CurrentWants \in Asked
      BY WantedOfSteps DEF Lending, Asked
    <3>2. steps' = steps
      BY <2>2 DEF SetSource
    <3>3. lending' = Append(lending, CurrentWants) \/ lending' = lending
      BY <2>2 DEF SetSource
    <3>4. lending' \in Seq(Asked)
      <4> HIDE DEF Asked
      <4> QED BY <3>1, <3>3 DEF Lending
    <3> QED BY <3>2, <3>4 DEF Lending
  <2>3. CASE ChangeSteps
    BY <2>3 DEF ChangeSteps, Lending
  <2>4. CASE ~PoolAnswers /\ ~SetSource /\ ~ChangeSteps
    <3>1. UNCHANGED <<steps, lending>>
      BY <2>4 DEF Next, vars, PasteKey, ChooseVendor, AddKey, DropKey, CheckKeys, KeyAnswers,
                  ChooseKey, ChooseModel, Run
    <3> QED BY <3>1 DEF Lending
  <2> QED BY <2>1, <2>2, <2>3, <2>4
<1> QED BY <1>1, <1>2, PTL DEF Spec

LEMMA PoolAnsweredIsSound == ASSUME IInv, Lending, PoolAnswers PROVE IInv'
<1>1. PICK i \in DOMAIN lending : pool' \in Reports(Pool[1], Unknown, lending[i])
  BY DEF PoolAnswers
<1>2. lending[i] \in Seq(ToSet(Wants)) /\ lending[i] # <<>>
  <2>1. lending[i] \in Asked
    BY DEF Lending
  <2> QED BY <2>1 DEF Asked
<1>3. Pool[1] \in ToSet(Pool)
  <2>1. 1 \in DOMAIN Pool
    BY KeySetupAssumption
  <2> QED BY <2>1 DEF ToSet
<1>4. pool' \in SoundReports
  BY <1>1, <1>2, <1>3, ReportsAreSound DEF Vendor
<1>5. /\ RefreshPlan /\ source' \in {"pool", "mine", "none"} /\ Cards(keys', nextId')
      /\ steps' \in 0..Len(Wants) /\ checking' \subseteq Query /\ UNCHANGED calls
  BY DEF PoolAnswers, IInv, Cards, CardIds
<1> QED BY <1>4, <1>5, RebuiltIsSound

LEMMA SourceSetIsSound == ASSUME IInv, SetSource PROVE IInv'
<1>1. /\ source' \in {"pool", "mine", "none"}
      /\ UNCHANGED <<keys, nextId, pool, steps, checking, calls>>
      /\ RefreshPlan \/ KeepPlan
  BY DEF SetSource
<1>2. Cards(keys', nextId')
  BY <1>1 DEF IInv, Cards
<1>3. CASE RefreshPlan
  <2>1. pool' \in SoundReports /\ steps' \in 0..Len(Wants) /\ checking' \subseteq Query
    BY <1>1 DEF IInv
  <2> QED BY <1>1, <1>2, <1>3, <2>1, RebuiltIsSound
<1>4. CASE KeepPlan
  BY <1>1, <1>2, <1>4 DEF IInv, KeepPlan, RoutedAsChosen, AskedAbout, CardIds
<1> QED BY <1>1, <1>3, <1>4

LEMMA ChangedStepsAreSound == ASSUME IInv, ChangeSteps PROVE IInv'
<1>1. /\ RefreshPlan /\ UNCHANGED <<source, keys, nextId, pool, checking, calls>>
      /\ steps' \in 0..Len(Wants)
  BY DEF ChangeSteps
<1>2. Cards(keys', nextId')
  BY <1>1 DEF IInv, Cards
<1>3. source' \in {"pool", "mine", "none"} /\ pool' \in SoundReports /\ checking' \subseteq Query
  BY <1>1 DEF IInv
<1> QED BY <1>1, <1>2, <1>3, RebuiltIsSound

(* What an edit of the team leaves alone, and what it must keep.            *)
LEMMA EditedTeamIsSound ==
  ASSUME IInv, UNCHANGED <<source, keys, nextId, pool, steps, checking, calls>>,
         team' \in [1..steps -> Worker(CardIds(keys))],
         refs' \subseteq {PoolRef} \cup CardIds(keys)
  PROVE  IInv'
<1>1. CardIds(keys') = CardIds(keys) /\ Cards(keys', nextId')
  BY DEF CardIds, IInv, Cards
<1>2. RoutedAsChosen'
  BY DEF IInv, RoutedAsChosen, AskedAbout
<1> QED BY <1>1, <1>2 DEF IInv

LEMMA ChosenKeyIsSound == ASSUME IInv, ChooseKey PROVE IInv'
<1> DEFINE ids == CardIds(keys)
           chosen(i, ref) == LET r == ReportFor(keys, pool, ref) IN
             [team EXCEPT ![i] = [@ EXCEPT
                !.ref = ref, !.for = r.about, !.model = IF r.ok THEN r.models[1] ELSE NoModel]]
           drawn(t) == [j \in DOMAIN team |-> [t[j] EXCEPT !.menu = ReportFor(keys, pool, t[j].ref)]]
<1>1. PICK i \in DOMAIN team, ref \in refs : team' = drawn(chosen(i, ref))
  BY DEF ChooseKey
<1>2. /\ keys \in Seq(CardRow) /\ pool \in SoundReports /\ team \in [1..steps -> Worker(ids)]
      /\ ref \in {PoolRef} \cup ids /\ Cards(keys, nextId) /\ i \in 1..steps
  BY DEF IInv, Cards
<1> DEFINE r == ReportFor(keys, pool, ref)
           w == [team[i] EXCEPT !.ref = ref, !.for = r.about,
                                !.model = IF r.ok THEN r.models[1] ELSE NoModel]
<1>3. r \in SoundReports
  BY <1>2, ReportForIsSound
<1>4. w \in Worker(ids)
  <2> HIDE DEF r, ids
  <2>1. /\ r.about \in Question /\ r.models \in Seq(Name)
        /\ r.ok => r.models # <<>> /\ \A id \in ToSet(r.models) : Offered(r.about, id)
    BY <1>3 DEF SoundReports, Report, Sound
  <2>2. r.ok => r.models[1] \in ToSet(r.models) /\ r.models[1] \in Name
    BY <2>1 DEF ToSet
  <2>3. NoModel \in Name
    BY DEF NoModel, Name
  <2> DEFINE m == IF r.ok THEN r.models[1] ELSE NoModel
  <2>4. m \in Name /\ (m # NoModel => Offered(r.about, m))
    BY <2>1, <2>2, <2>3
  <2> HIDE DEF m
  <2>5. w = [team[i] EXCEPT !.ref = ref, !.for = r.about, !.model = m]
    BY DEF m
  <2>6. team[i] \in Worker(ids)
    BY <1>2
  <2> HIDE DEF w
  <2>7. /\ w \in [ref : {PoolRef, NoRef} \cup ids, model : Name, for : Question, menu : SoundReports]
        /\ w.model = m /\ w.for = r.about
    BY <1>2, <2>1, <2>4, <2>5, <2>6 DEF Worker
  <2> QED BY <2>4, <2>7 DEF Worker
<1> DEFINE t == chosen(i, ref)
<1>5. t = [team EXCEPT ![i] = w]
  OBVIOUS
<1> HIDE DEF w, ids, t, r
<1>6. t \in [1..steps -> Worker(ids)]
  BY <1>2, <1>4, <1>5
<1>7. ASSUME NEW j \in 1..steps
      PROVE  [t[j] EXCEPT !.menu = ReportFor(keys, pool, t[j].ref)] \in Worker(ids)
  <2> DEFINE menu == ReportFor(keys, pool, t[j].ref)
  <2>1. t[j] \in Worker(ids)
    BY <1>6
  <2>2. t[j].ref \in {PoolRef, NoRef} \cup CardIds(keys)
    BY <2>1 DEF Worker, ids
  <2>3. menu \in SoundReports
    BY <1>2, <2>2, ReportForIsSound
  <2> HIDE DEF menu
  <2>4. [t[j] EXCEPT !.menu = menu] \in Worker(ids)
    BY <2>1, <2>3 DEF Worker
  <2> QED BY <2>4 DEF menu
<1>8. team' = [j \in 1..steps |-> [t[j] EXCEPT !.menu = ReportFor(keys, pool, t[j].ref)]]
  BY <1>1, <1>2 DEF t
<1>9. team' \in [1..steps -> Worker(ids)]
  BY <1>7, <1>8
<1>10. refs' \subseteq {PoolRef} \cup CardIds(keys)
  <2> DEFINE u == Usable(source, keys, pool)
             U == {PoolRef} \cup CardIds(keys)
  <2>1. u \in Seq(U)
    BY <1>2, UsableHaveModels
  <2>2. refs' = ToSet(u)
    BY DEF ChooseKey
  <2> HIDE DEF u, U
  <2>3. refs' \subseteq U
    BY <2>1, <2>2 DEF ToSet
  <2> QED BY <2>3 DEF U
<1>11. UNCHANGED <<source, keys, nextId, pool, steps, checking, calls>>
  BY DEF ChooseKey
<1> QED BY <1>9, <1>10, <1>11, EditedTeamIsSound DEF ids

LEMMA ChosenModelIsSound == ASSUME IInv, ChooseModel PROVE IInv'
<1> DEFINE ids == CardIds(keys)
<1>1. PICK i \in DOMAIN team : \E model \in ToSet(team[i].menu.models) :
        team' = [team EXCEPT ![i] = [@ EXCEPT !.model = model, !.for = team[i].menu.about]]
  BY DEF ChooseModel
<1>2. PICK model \in ToSet(team[i].menu.models) :
        team' = [team EXCEPT ![i] = [@ EXCEPT !.model = model, !.for = team[i].menu.about]]
  BY <1>1
<1>3. team \in [1..steps -> Worker(ids)] /\ team[i] \in Worker(ids)
  BY DEF IInv
<1> DEFINE w == [team[i] EXCEPT !.model = model, !.for = team[i].menu.about]
<1>4. /\ team[i].menu.about \in Question /\ model \in Name
      /\ Offered(team[i].menu.about, model)
  <2>1. team[i].menu \in SoundReports
    BY <1>3 DEF Worker
  <2>2. /\ team[i].menu.about \in Question /\ team[i].menu.models \in Seq(Name)
        /\ \A id \in ToSet(team[i].menu.models) : Offered(team[i].menu.about, id)
    BY <2>1 DEF SoundReports, Report, Sound
  <2>3. ToSet(team[i].menu.models) \subseteq Name
    BY <2>2 DEF ToSet
  <2> QED BY <2>2, <2>3
<1> HIDE DEF ids
<1>5. w \in Worker(ids)
  BY <1>3, <1>4 DEF Worker
<1>6. team' = [team EXCEPT ![i] = w]
  BY <1>2
<1> HIDE DEF w
<1>7. team' \in [1..steps -> Worker(ids)]
  BY <1>3, <1>5, <1>6
<1>8. /\ UNCHANGED <<source, keys, nextId, pool, steps, checking, calls>>
      /\ refs' \subseteq {PoolRef} \cup CardIds(keys)
  BY DEF ChooseModel, IInv
<1> QED BY <1>7, <1>8, EditedTeamIsSound DEF ids


(* A lent key is paid with when no card pays.                               *)
LEMMA WhoPays ==
  ASSUME IInv, NEW i \in DOMAIN team, ConfigOf(i).key # <<>>
  PROVE  \/ /\ ConfigOf(i).key \in ToSet(Pool) /\ Slot(team[i]).provider = Unknown
            /\ ConfigOf(i).provider = Issuer[ConfigOf(i).key]
         \/ /\ ConfigOf(i).key \in Keys /\ Slot(team[i]).provider \in Vendor
            /\ ConfigOf(i).provider = IF Slot(team[i]).provider # Unknown
                                      THEN Slot(team[i]).provider ELSE Detect(ConfigOf(i).key)
<1> DEFINE w == team[i]
           slots == {c \in ToSet(keys) : c.id = w.ref /\ c.key # <<>> /\ source = "mine"}
           key == IF Borrows(w) THEN Pool[((i - 1) % Len(Pool)) + 1] ELSE Slot(w).key
           pid == IF Slot(w).provider # Unknown THEN Slot(w).provider ELSE Detect(key)
<1>1. ConfigOf(i).key = key /\ ConfigOf(i).provider = pid
  BY DEF ConfigOf
<1>2. i \in Nat /\ i # 0
  BY DEF IInv
<1>3. CASE Borrows(w)
  <2>1. Slot(w).key = <<>>
    BY <1>3 DEF Borrows
  <2>2. slots = {}
    <3>1. slots # {} => Slot(w) \in slots
      BY DEF Slot
    <3> QED BY <2>1, <3>1
  <2>3. Slot(w).provider = Unknown
    BY <2>2 DEF Slot, Card
  <2>4. key \in ToSet(Pool)
    <3> DEFINE n == Len(Pool)
    <3>1. n \in Nat /\ n # 0 /\ DOMAIN Pool = 1..n
      BY KeySetupAssumption
    <3> HIDE DEF n
    <3>2. ((i - 1) % n) + 1 \in DOMAIN Pool
      BY <1>2, <3>1, TurnIsWithin
    <3>3. key = Pool[((i - 1) % n) + 1]
      BY <1>3 DEF n
    <3> HIDE DEF key
    <3> QED BY <3>2, <3>3 DEF ToSet
  <2> HIDE DEF key
  <2>5. Detect(key) = Issuer[key]
    BY <2>4, PoolAssumption
  <2> QED BY <1>1, <2>3, <2>4, <2>5
<1>4. CASE ~Borrows(w)
  <2>1. key = Slot(w).key /\ key # <<>>
    BY <1>1, <1>4
  <2>2. slots # {}
    <3>1. slots = {} => Slot(w).key = <<>>
      BY DEF Slot, Card
    <3> QED BY <2>1, <3>1
  <2>3. Slot(w) \in ToSet(keys)
    BY <2>2 DEF Slot
  <2>4. Slot(w) \in CardRow
    BY <2>3 DEF IInv, Cards, ToSet
  <2>5. key \in Keys /\ Slot(w).provider \in Vendor
    BY <2>1, <2>4 DEF CardRow
  <2> HIDE DEF key
  <2> QED BY <1>1, <2>5
<1> QED BY <1>3, <1>4

LEMMA RunIsSound == ASSUME IInv, Run PROVE IInv'
<1>1. ASSUME NEW c \in calls', AskedAbout(c)
      PROVE  /\ c.vendor = Issuer[c.key] /\ c.model = c.chosen
             /\ \E m \in ToSet(Catalogue[c.vendor]) : m.id = c.model
  <2>1. PICK i \in DOMAIN team :
          c = [vendor |-> Resolve(ConfigOf(i)).vendor, model |-> Resolve(ConfigOf(i)).model,
               key |-> ConfigOf(i).key, provider |-> Slot(team[i]).provider,
               chosen |-> team[i].model, for |-> team[i].for]
    BY DEF Run
  <2> DEFINE config == ConfigOf(i)
             w == team[i]
             provider == Slot(w).provider
  <2>2. w.model # NoModel /\ config.key # <<>>
    BY DEF Run
  <2>3. c.key = config.key /\ c.provider = provider /\ c.chosen = w.model /\ c.for = w.for
        /\ c.vendor = Resolve(config).vendor /\ c.model = Resolve(config).model
    BY <2>1
  <2>4. config.model_id = IF config.provider = Unknown THEN <<>> ELSE w.model
    BY DEF ConfigOf
  <2>5. w \in Worker(CardIds(keys))
    BY DEF IInv
  <2>6. Offered(w.for, w.model)
    BY <2>2, <2>5 DEF Worker
  <2>7. config.provider = Issuer[config.key] /\ Issuer[w.for[1]] = Issuer[config.key]
    <3>1. \/ config.key \in ToSet(Pool) /\ provider = Unknown /\ config.provider = Issuer[config.key]
          \/ /\ config.key \in Keys /\ provider \in Vendor
             /\ config.provider = IF provider # Unknown THEN provider ELSE Detect(config.key)
      BY <2>2, WhoPays
    <3>2. \/ w.for = <<config.key, provider>>
          \/ w.for[1] = Pool[1] /\ config.key \in ToSet(Pool) /\ provider = Unknown
      BY <1>1, <2>3 DEF AskedAbout
    <3> HIDE DEF config, w, provider
    <3>3. CASE config.key \in ToSet(Pool) /\ provider = Unknown /\ config.provider = Issuer[config.key]
      <4>1. Issuer[config.key] = Issuer[Pool[1]]
        BY <3>3, PoolAssumption
      <4>2. w.for[1] = config.key \/ w.for[1] = Pool[1]
        BY <3>2
      <4> QED BY <3>3, <4>1, <4>2
    <3>4. CASE /\ config.key \in Keys /\ provider \in Vendor
               /\ config.provider = IF provider # Unknown THEN provider ELSE Detect(config.key)
      <4>1. CASE w.for = <<config.key, provider>>
        <5>1. w.for[1] = config.key /\ w.for[2] = provider
          BY <4>1
        <5>2. Issuer[w.for[1]] = IF w.for[2] # Unknown THEN w.for[2] ELSE Detect(w.for[1])
          BY <2>6 DEF Offered
        <5> QED BY <3>4, <5>1, <5>2
      <4>2. CASE w.for[1] = Pool[1] /\ config.key \in ToSet(Pool) /\ provider = Unknown
        <5>1. Detect(config.key) = Issuer[config.key] /\ Issuer[config.key] = Issuer[Pool[1]]
          BY <4>2, PoolAssumption
        <5> QED BY <3>4, <4>2, <5>1
      <4> QED BY <3>2, <4>1, <4>2
    <3> QED BY <3>1, <3>3, <3>4
  <2>8. config.provider # Unknown
    <3>1. w.for[1] \in Keys \cup ToSet(Pool)
      BY <2>6 DEF Offered
    <3>2. Issuer[w.for[1]] \in Vendors
      BY <3>1, KeySetupAssumption
    <3> QED BY <2>7, <3>2, ProvidersAssumption
  <2>9. \E m \in ToSet(Catalogue[Issuer[config.key]]) : m.id = w.model
    BY <2>6, <2>7 DEF Offered
  <2> HIDE DEF config, w, provider
  <2>10. Resolve(config).vendor = config.provider /\ Resolve(config).model = w.model
    BY <2>2, <2>4, <2>8 DEF Resolve, NoModel
  <2> QED BY <2>3, <2>7, <2>9, <2>10
<1>2. RoutedAsChosen'
  BY <1>1 DEF RoutedAsChosen, AskedAbout
<1>3. UNCHANGED <<source, keys, nextId, pool, steps, team, refs, checking>>
  BY DEF Run
<1>4. CardIds(keys') = CardIds(keys) /\ Cards(keys', nextId')
  BY <1>3 DEF IInv, Cards, CardIds
<1> QED BY <1>2, <1>3, <1>4 DEF IInv

LEMMA NextIsSound == IInv /\ Lending /\ [Next]_vars => IInv'
<1> SUFFICES ASSUME IInv, Lending, [Next]_vars PROVE IInv'
  OBVIOUS
<1>1. CASE UNCHANGED vars
  BY <1>1 DEF vars, IInv, Cards, CardIds, RoutedAsChosen, AskedAbout
<1>2. CASE Next
  BY <1>2, PastedIsSound, ChosenVendorIsSound, AddedIsSound, DroppedIsSound, CheckedIsSound,
     AnsweredIsSound, PoolAnsweredIsSound, SourceSetIsSound, ChangedStepsAreSound,
     ChosenKeyIsSound, ChosenModelIsSound, RunIsSound DEF Next
<1> QED BY <1>1, <1>2

LEMMA SetupIsSound == Spec => []IInv
BY InitIsSound, NextIsSound, LendingAsks, PTL DEF Spec

(***************************************************************************)
(* Theorems                                                                *)
(***************************************************************************)

(* Whatever is pasted, added, dropped, asked and answered in which order,   *)
(* cards keep distinct ids, there is a worker a step, and no worker pays    *)
(* with a card that is gone: every step that drops a card builds the team   *)
(* and the menus anew.                                                      *)
THEOREM SetupKeepsItsTypes == Spec => []TypeOK
<1>1. ASSUME IInv PROVE TypeOK
  <2>1. Len(team) = steps
    <3>1. steps \in Nat /\ team \in [1..steps -> Worker(CardIds(keys))]
      BY KeySetupAssumption, <1>1 DEF IInv
    <3>2. team \in Seq(Worker(CardIds(keys)))
      BY <3>1
    <3> QED BY <3>1, <3>2
  <2>2. \A w \in ToSet(team) : w.ref \in {PoolRef, NoRef} \cup {c.id : c \in ToSet(keys)}
    <3>1. CardIds(keys) = {c.id : c \in ToSet(keys)}
      BY DEF CardIds, ToSet
    <3>2. \A w \in ToSet(team) : w \in Worker(CardIds(keys))
      BY <1>1 DEF IInv, ToSet
    <3> QED BY <3>1, <3>2 DEF Worker
  <2>3. \A q \in checking : q.key # <<>>
    BY <1>1 DEF IInv, Query
  <2> QED BY <1>1, <2>1, <2>2, <2>3 DEF TypeOK, IInv, Cards
<1> QED BY <1>1, SetupIsSound, PTL

(* Whatever a vendor lists, and whatever appetites the steps have, the      *)
(* suggestions of every report go round all the models a key can run before *)
(* one is made again.                                                       *)
THEOREM SuggestionsAreEven == Spec => []SpreadIsEven
<1>1. ASSUME IInv PROVE SpreadIsEven
  <2>1. ASSUME NEW report \in {pool} \cup {c.report : c \in ToSet(keys)}, report.ok
        PROVE  /\ report.suggested # <<>>
               /\ Even(report.suggested, ToSet(report.models))
    <3>1. report \in SoundReports
      <4>1. \A c \in ToSet(keys) : c \in CardRow
        BY <1>1 DEF IInv, Cards, ToSet
      <4>2. \A c \in CardRow : c.report \in SoundReports
        BY DEF CardRow
      <4> QED BY <1>1, <4>1, <4>2 DEF IInv
    <3> QED BY <2>1, <3>1 DEF SoundReports, Sound
  <2> QED BY <2>1 DEF SpreadIsEven, Even, Times
<1> QED BY <1>1, SetupIsSound, PTL

(* Whatever was edited between the report and the run, when the key that    *)
(* pays is the one that was asked, the vendor that issued it is called,     *)
(* under the very name it offered.                                          *)
THEOREM CallsGoWhereChosen == Spec => []RoutedAsChosen
<1>1. IInv => RoutedAsChosen
  BY DEF IInv
<1> QED BY <1>1, SetupIsSound, PTL
=============================================================================
