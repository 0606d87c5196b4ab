---------------------------- MODULE PlannerProofs ----------------------------
(***************************************************************************)
(* Proofs about BudgetSplit, for every total, number of steps, minimum and *)
(* grain, and whichever way ties are rounded; and about Planner, for every *)
(* template, answer of a model and order of edits.                         *)
(*                                                                         *)
(* A sum of shares is spoken of through its partial sums: no induction is  *)
(* needed to keep them, as each iteration of the two loops says how they   *)
(* change.  That the recursive Sum is the last of them takes one: the      *)
(* least place at which the two would differ.                              *)
(***************************************************************************)
EXTENDS Planner, FiniteSetTheorems, FunctionTheorems, SequenceTheorems, WellFoundedInduction,
        TLAPS

(* acc holds the partial sums of the first m elements of s. *)
PartialSums(acc, s, m) ==
  /\ acc \in [0..m -> Int]
  /\ acc[0] = 0
  /\ \A j \in 1..m : acc[j] = acc[j - 1] + s[j]

(* The first m elements of s add up to v. *)
AddUpTo(s, m, v) == \E acc : PartialSums(acc, s, m) /\ acc[m] = v

TypeInv ==
  /\ stage \in {"idle", "rounding", "taking", "done"}
  /\ pot \in Nat /\ n \in Nat /\ k \in Nat /\ over \in Int
  /\ shares \in Seq(Int)

Floors == \A j \in 1..Len(shares) : shares[j] >= MinBudget

(* While shares are rounded, over is what those so far exceed the total by. *)
RoundingInv ==
  stage = "rounding" =>
    /\ n >= 2 /\ k \in 1..n
    /\ Len(shares) = k - 1
    /\ AddUpTo(shares, k - 1, pot + over)

(* While over is taken back, it is what all of them exceed the total by, and *)
(* as long as some is left the shares passed have no more than the minimum. *)
Drained(acc) == pot + over = acc[k] + (n - k) * MinBudget
TakingInv ==
  stage = "taking" =>
    /\ n >= 2 /\ k \in 0..n
    /\ Len(shares) = n
    /\ \E acc : /\ PartialSums(acc, shares, n)
                /\ acc[n] = pot + over
                /\ over > 0 => Drained(acc)

(* In the end over is exact, and if it is positive all have the minimum.    *)
DoneInv ==
  stage = "done" =>
    /\ Len(shares) = n
    /\ AddUpTo(shares, n, pot + over)
    /\ over > 0 => pot + over = n * MinBudget

IInv == TypeInv /\ Floors /\ RoundingInv /\ TakingInv /\ DoneInv

(***************************************************************************)
(* Sums                                                                    *)
(***************************************************************************)

(* Nothing adds up to nothing. *)
LEMMA EmptySum == \A s : AddUpTo(s, 0, 0)
<1>1. TAKE s
<1>2. PartialSums([j \in 0..0 |-> 0], s, 0)
  BY DEF PartialSums
<1> QED BY <1>2 DEF AddUpTo

(* One more element adds its value. *)
LEMMA SumOfAppend ==
  ASSUME NEW s \in Seq(Int), NEW v \in Int, NEW x \in Int,
         AddUpTo(s, Len(s), v)
  PROVE  AddUpTo(Append(s, x), Len(s) + 1, v + x)
<1>1. PICK acc : PartialSums(acc, s, Len(s)) /\ acc[Len(s)] = v
  BY DEF AddUpTo
<1> DEFINE m == Len(s)
           new == [j \in 0..(m + 1) |-> IF j = m + 1 THEN v + x ELSE acc[j]]
<1>2. m \in Nat
  OBVIOUS
<1>3. new \in [0..(m + 1) -> Int]
  BY <1>1, <1>2 DEF PartialSums
<1>4. new[0] = 0
  BY <1>1, <1>2 DEF PartialSums
<1>5. ASSUME NEW j \in 1..(m + 1)
      PROVE  new[j] = new[j - 1] + Append(s, x)[j]
  <2>1. CASE j = m + 1
    <3>1. new[j] = v + x /\ new[j - 1] = acc[m] /\ Append(s, x)[j] = x
      BY <1>2, <2>1
    <3> QED BY <3>1, <1>1
  <2>2. CASE j # m + 1
    <3>1. j \in 1..m
      BY <1>2, <2>2
    <3>2. new[j] = acc[j] /\ new[j - 1] = acc[j - 1] /\ Append(s, x)[j] = s[j]
      BY <1>2, <3>1
    <3> QED BY <3>1, <3>2, <1>1 DEF PartialSums
  <2> QED BY <2>1, <2>2
<1>6. new[m + 1] = v + x
  BY <1>2
<1> QED BY <1>3, <1>4, <1>5, <1>6 DEF AddUpTo, PartialSums

(* What is taken off one element is taken off the sums from it on. *)
Lessened(acc, m, i, x) == [j \in 0..m |-> IF j >= i THEN acc[j] - x ELSE acc[j]]
LEMMA SumsOfLess ==
  ASSUME NEW m \in Nat, NEW s \in Seq(Int), Len(s) = m, NEW acc,
         PartialSums(acc, s, m), NEW i \in 1..m, NEW take \in Int
  PROVE  PartialSums(Lessened(acc, m, i, take), [s EXCEPT ![i] = @ - take], m)
<1> USE DEF Lessened
<1> DEFINE less == Lessened(acc, m, i, take)
           t == [s EXCEPT ![i] = @ - take]
<1>1. less \in [0..m -> Int]
  BY DEF PartialSums
<1>2. less[0] = 0
  BY DEF PartialSums
<1>3. ASSUME NEW j \in 1..m
      PROVE  less[j] = less[j - 1] + t[j]
  <2>1. acc[j] = acc[j - 1] + s[j] /\ acc[j] \in Int /\ acc[j - 1] \in Int /\ s[j] \in Int
    BY DEF PartialSums
  <2>2. less[j] = (IF j >= i THEN acc[j] - take ELSE acc[j])
    OBVIOUS
  <2>3. less[j - 1] = (IF j - 1 >= i THEN acc[j - 1] - take ELSE acc[j - 1])
    OBVIOUS
  <2>4. t[j] = IF j = i THEN s[j] - take ELSE s[j]
    OBVIOUS
  <2> QED BY <2>1, <2>2, <2>3, <2>4
<1> QED BY <1>1, <1>2, <1>3 DEF PartialSums

(* One more minimum in a product with the minimum. *)
LEMMA OneMoreMinimum ==
  ASSUME NEW a \in Int, NEW b \in Int
  PROVE  (a - (b - 1)) * MinBudget = (a - b) * MinBudget + MinBudget
<1>1. MinBudget \in Int
  BY MinBudgetAssumption
<1>2. \A x, y \in Int : (x + 1) * y = x * y + y
  BY SMTT(30)
<1>3. a - (b - 1) = (a - b) + 1 /\ a - b \in Int
  OBVIOUS
<1> QED BY <1>1, <1>2, <1>3

(***************************************************************************)
(* The invariant                                                           *)
(***************************************************************************)

(* Nothing divided yet. *)
LEMMA InitEstablishes == SplitInit => IInv
BY DEF SplitInit, IInv, TypeInv, Floors, RoundingInv, TakingInv, DoneInv

(* A division starts with no share, or ends with none or one. *)
LEMMA DividePreserves ==
  ASSUME NEW amount \in Nat, NEW m \in Nat, Divide(amount, m)
  PROVE  IInv'
<1> USE MinBudgetAssumption DEF AtLeast
<1>1. CASE m = 0
  <2>1. stage' = "done" /\ pot' = amount /\ n' = 0 /\ k' = 1 /\ shares' = <<>> /\ over' = -amount
    BY <1>1 DEF Divide
  <2>2. AddUpTo(shares', 0, 0) /\ pot' + over' = 0 /\ ~(over' > 0)
    BY <2>1, EmptySum
  <2> QED BY <2>1, <2>2 DEF IInv, TypeInv, Floors, RoundingInv, TakingInv, DoneInv
<1>2. CASE m = 1
  <2> DEFINE x == AtLeast(MinBudget, amount)
  <2>1. /\ stage' = "done" /\ pot' = amount /\ n' = 1 /\ k' = 1
        /\ shares' = <<x>> /\ over' = x - amount
    BY <1>2 DEF Divide
  <2>2. x \in Int /\ x >= MinBudget /\ (x > amount => x = MinBudget)
    OBVIOUS
  <2>3. AddUpTo(Append(<<>>, x), Len(<<>>) + 1, 0 + x)
    <3>1. <<>> \in Seq(Int) /\ Len(<<>>) = 0 /\ AddUpTo(<<>>, Len(<<>>), 0)
      BY EmptySum
    <3>2. x \in Int /\ 0 \in Int
      BY <2>2
    <3> HIDE DEF x
    <3> QED BY ONLY <3>1, <3>2, SumOfAppend, Zenon
  <2> HIDE DEF x
  <2>4. AddUpTo(shares', 1, pot' + over')
    <3>1. Append(<<>>, x) = shares' /\ Len(<<>>) + 1 = 1 /\ 0 + x = pot' + over'
      BY <2>1, <2>2
    <3> QED BY <2>3, <3>1
  <2>5. over' > 0 => pot' + over' = n' * MinBudget
    BY <2>1, <2>2
  <2> QED BY <2>1, <2>2, <2>4, <2>5 DEF IInv, TypeInv, Floors, RoundingInv, TakingInv, DoneInv
<1>3. CASE m >= 2
  <2>1. /\ stage' = "rounding" /\ pot' = amount /\ n' = m /\ k' = 1
        /\ shares' = <<>> /\ over' = -amount
    BY <1>3 DEF Divide
  <2>2. AddUpTo(shares', k' - 1, pot' + over')
    BY <2>1, EmptySum
  <2> QED BY <1>3, <2>1, <2>2 DEF IInv, TypeInv, Floors, RoundingInv, TakingInv, DoneInv
<1> QED BY <1>1, <1>2, <1>3

(* A share more, and over grows by it. *)
LEMMA RoundSharePreserves ==
  ASSUME IInv, RoundShare
  PROVE  IInv'
<1> USE MinBudgetAssumption, GrainAssumption
<1>1. TypeInv /\ Floors /\ stage = "rounding" /\ n >= 2 /\ k \in 1..n
      /\ Len(shares) = k - 1 /\ AddUpTo(shares, Len(shares), pot + over)
  BY DEF IInv, RoundingInv, RoundShare
<1>2. PICK r \in Multiples(pot, n, k) :
        /\ shares' = Append(shares, AtLeast(MinBudget, r * Grain))
        /\ over' = over + AtLeast(MinBudget, r * Grain)
  BY DEF RoundShare
<1> DEFINE x == AtLeast(MinBudget, r * Grain)
<1>3. r \in Int
  <2>1. r = (2 * pot * (n - 2 + k)) \div (3 * Grain * n * (n - 1))
        \/ r = (2 * pot * (n - 2 + k)) \div (3 * Grain * n * (n - 1)) + 1
    BY DEF Multiples, Rounded
  <2> DEFINE num == 2 * pot * (n - 2 + k)
             den == 3 * Grain * n * (n - 1)
  <2>2. num \in Int /\ den \in Int
    BY <1>1 DEF TypeInv
  <2>3. \A a, b \in Int : b > 0 => a \div b \in Int
    OBVIOUS
  <2>4. den > 0
    <3>1. \A a, b \in Int : a > 0 /\ b > 0 => a * b > 0
      OBVIOUS
    <3>2. 3 * Grain > 0 /\ n > 0 /\ n - 1 > 0 /\ 3 * Grain \in Int /\ n \in Int
      BY <1>1 DEF TypeInv
    <3>3. 3 * Grain * n > 0 /\ 3 * Grain * n \in Int
      BY <3>1, <3>2
    <3> QED BY <3>1, <3>2, <3>3
  <2> HIDE DEF num, den
  <2>5. num \div den \in Int
    BY <2>2, <2>3, <2>4
  <2> QED BY <2>1, <2>5 DEF num, den
<1>4. x \in Int /\ x >= MinBudget
  BY <1>3 DEF AtLeast
<1> HIDE DEF x
<1>5. shares' = Append(shares, x) /\ over' = over + x /\ pot' = pot /\ n' = n
  BY <1>2 DEF x, RoundShare
<1>6. Len(shares') = k /\ shares' \in Seq(Int)
  BY <1>1, <1>4, <1>5 DEF TypeInv
<1>7. AddUpTo(shares', k, pot' + over')
  <2>1. AddUpTo(Append(shares, x), Len(shares) + 1, pot + over + x)
    BY <1>1, <1>4, SumOfAppend DEF TypeInv
  <2>2. Len(shares) + 1 = k /\ pot + over + x = pot' + over'
    BY <1>1, <1>4, <1>5 DEF TypeInv
  <2> QED BY <2>1, <2>2, <1>5
<1>8. Floors'
  <2>1. ASSUME NEW j \in 1..Len(shares') PROVE shares'[j] >= MinBudget
    <3>1. CASE j = k
      BY <3>1, <1>1, <1>4, <1>5 DEF TypeInv
    <3>2. CASE j # k
      <4>1. j \in 1..Len(shares)
        BY <3>2, <1>1, <1>6 DEF TypeInv
      <4>2. shares'[j] = shares[j]
        BY <4>1, <1>4, <1>5, <1>1 DEF TypeInv
      <4> QED BY <4>1, <4>2, <1>1 DEF Floors
    <3> QED BY <3>1, <3>2
  <2> QED BY <2>1 DEF Floors
<1>9. CASE k # n
  <2>1. stage' = "rounding" /\ k' = k + 1
    BY <1>9 DEF RoundShare
  <2>2. k' \in 1..n /\ k' - 1 = k
    BY <2>1, <1>1, <1>9 DEF TypeInv
  <2> QED BY <2>1, <2>2, <1>1, <1>4, <1>5, <1>6, <1>7, <1>8
          DEF IInv, TypeInv, RoundingInv, TakingInv, DoneInv
<1>10. CASE k = n
  <2>1. stage' = "taking" /\ k' = n
    BY <1>10 DEF RoundShare
  <2>2. PICK acc : PartialSums(acc, shares', n) /\ acc[n] = pot' + over'
    BY <1>7, <1>10 DEF AddUpTo
  <2>3. Drained(acc)'
    <3>1. (n' - k') * MinBudget = 0
      BY <2>1, <1>1, <1>5 DEF TypeInv
    <3>2. acc[n] \in Int
      BY <2>2, <1>1 DEF PartialSums, TypeInv
    <3> QED BY <3>1, <3>2, <2>1, <2>2 DEF Drained
  <2> QED BY <2>1, <2>2, <2>3, <1>1, <1>4, <1>5, <1>6, <1>8, <1>10
          DEF IInv, TypeInv, RoundingInv, TakingInv, DoneInv
<1> QED BY <1>9, <1>10

(* What is over shrinks by what a share gives, which is all it can spare as *)
(* long as some is left.                                                    *)
LEMMA TakeBackPreserves ==
  ASSUME IInv, TakeBack
  PROVE  IInv'
<1> USE MinBudgetAssumption
<1>1. /\ TypeInv /\ Floors /\ stage = "taking"
      /\ n >= 2 /\ k \in 0..n /\ Len(shares) = n
      /\ pot' = pot /\ n' = n
  BY DEF IInv, TakingInv, TakeBack
<1>2. PICK acc : /\ PartialSums(acc, shares, n)
                 /\ acc[n] = pot + over
                 /\ over > 0 => Drained(acc)
  BY <1>1 DEF IInv, TakingInv
<1>3. CASE over > 0 /\ k >= 1
  <2> DEFINE take == AtMost(over, shares[k] - MinBudget)
             less == Lessened(acc, n, k, take)
  <2>1. k \in 1..n /\ shares[k] \in Int /\ shares[k] >= MinBudget
    BY <1>1, <1>3 DEF TypeInv, Floors
  <2>2. /\ take \in Int /\ take <= shares[k] - MinBudget
        /\ over - take > 0 => take = shares[k] - MinBudget
    BY <2>1, <1>1 DEF AtMost, TypeInv
  <2>3. PartialSums(less, [shares EXCEPT ![k] = @ - take], n)
    <3>1. n \in Nat /\ shares \in Seq(Int) /\ take \in Int
      BY <1>1, <2>2 DEF TypeInv
    <3> HIDE DEF take
    <3> QED BY <1>1, <1>2, <2>1, <3>1, SumsOfLess
  <2>4. /\ shares' = [shares EXCEPT ![k] = @ - take] /\ over' = over - take
        /\ k' = k - 1 /\ stage' = "taking"
    BY <1>1, <1>3 DEF TakeBack
  <2>5. \A j \in 0..n : acc[j] \in Int
    BY <1>2 DEF PartialSums
  <2>6. acc[k] = acc[k - 1] + shares[k] /\ acc[k] \in Int /\ acc[k - 1] \in Int
    <3>1. k - 1 \in 0..n /\ k \in 0..n
      BY <1>1, <2>1 DEF TypeInv
    <3>2. acc[k] = acc[k - 1] + shares[k]
      BY <1>2, <2>1 DEF PartialSums
    <3> QED BY <2>5, <3>1, <3>2
  <2> HIDE DEF take
  <2>7. less[n] = pot + over - take /\ less[k - 1] = acc[k - 1]
    <3>1. /\ less[n] = acc[n] - take
          /\ less[k - 1] = acc[k - 1]
      BY <1>1, <2>1 DEF TypeInv, Lessened
    <3> QED BY <3>1, <1>1, <1>2, <2>2 DEF TypeInv
  <2> HIDE DEF less
  <2>8. TypeInv'
    BY <1>1, <2>1, <2>2, <2>4 DEF TypeInv
  <2>9. Len(shares') = n
    BY <1>1, <2>4 DEF TypeInv
  <2>10. Floors'
    <3>1. ASSUME NEW j \in 1..Len(shares') PROVE shares'[j] >= MinBudget
      <4>1. j \in 1..n
        BY <3>1, <2>9
      <4>2. shares'[j] = IF j = k THEN shares[k] - take ELSE shares[j]
        BY <4>1, <1>1, <2>4 DEF TypeInv
      <4>3. shares[j] >= MinBudget
        BY <4>1, <1>1 DEF Floors
      <4> QED BY <4>2, <4>3, <2>1, <2>2
    <3> QED BY <3>1 DEF Floors
  <2>13. PICK new : new = less
    OBVIOUS
  <2>11. over' > 0 => Drained(new)'
    <3>1. SUFFICES ASSUME over - take > 0
                   PROVE  pot + (over - take) = new[k - 1] + (n - (k - 1)) * MinBudget
      BY <1>1, <2>4 DEF Drained
    <3>2. take = shares[k] - MinBudget
      BY <3>1, <2>2
    <3>3. (n - (k - 1)) * MinBudget = (n - k) * MinBudget + MinBudget
      BY <1>1, <2>1, OneMoreMinimum DEF TypeInv
    <3>4. pot + over = acc[k] + (n - k) * MinBudget
      BY <1>2, <1>3 DEF Drained
    <3>5. (n - k) * MinBudget \in Int
      <4>1. \A a, b \in Int : a * b \in Int
        OBVIOUS
      <4> QED BY <4>1, <1>1, <2>1 DEF TypeInv
    <3> DEFINE p == (n - k) * MinBudget
               q == (n - (k - 1)) * MinBudget
    <3> HIDE DEF p, q
    <3>6. q = p + MinBudget /\ pot + over = acc[k] + p /\ p \in Int
      BY <3>3, <3>4, <3>5 DEF p, q
    <3>7. pot + (over - take) = acc[k - 1] + q
      <4>1. pot \in Int /\ over \in Int /\ MinBudget \in Int
        BY <1>1 DEF TypeInv
      <4> QED BY <4>1, <3>2, <3>6, <2>1, <2>2, <2>6
    <3> QED BY <3>7, <2>7, <2>13 DEF q
  <2>12. TakingInv'
    <3>1. new[n] = pot' + over'
      BY <2>4, <2>7, <2>13, <1>1, <2>2 DEF TypeInv
    <3>2. PartialSums(new, shares', n')
      BY <2>3, <2>4, <2>13, <1>1
    <3>3. n' >= 2 /\ k' \in 0..n' /\ Len(shares') = n'
      BY <1>1, <2>1, <2>4, <2>9 DEF TypeInv
    <3> QED BY <3>1, <3>2, <3>3, <2>11, <1>1 DEF TakingInv
  <2> QED BY <2>4, <2>8, <2>10, <2>12 DEF IInv, RoundingInv, DoneInv
<1>4. CASE ~(over > 0 /\ k >= 1)
  <2>1. stage' = "done" /\ k' = k /\ shares' = shares /\ over' = over
    BY <1>1, <1>4 DEF TakeBack
  <2>2. AddUpTo(shares', n', pot' + over')
    BY <2>1, <1>1, <1>2 DEF AddUpTo
  <2>3. ASSUME over > 0 PROVE pot + over = n * MinBudget
    <3>1. k = 0
      BY <2>3, <1>4, <1>1
    <3>2. pot + over = acc[0] + (n - 0) * MinBudget /\ acc[0] = 0
      BY <2>3, <3>1, <1>2 DEF Drained, PartialSums
    <3>3. n - 0 = n
      BY <1>1 DEF TypeInv
    <3>4. n * MinBudget \in Int
      BY <1>1 DEF TypeInv
    <3> QED BY <3>2, <3>3, <3>4
  <2> QED BY <2>1, <2>2, <2>3, <1>1
          DEF IInv, TypeInv, Floors, RoundingInv, TakingInv, DoneInv
<1> QED BY <1>3, <1>4

(* A step that changes nothing of the split. *)
LEMMA StutterPreserves ==
  ASSUME IInv, UNCHANGED splitVars
  PROVE  IInv'
BY DEF IInv, TypeInv, Floors, RoundingInv, TakingInv, DoneInv, Drained, splitVars

(* What the invariant says of a finished split. *)
LEMMA IInvSuffices == IInv => SharesWithinTotal
<1> SUFFICES ASSUME IInv, stage = "done"
             PROVE  /\ \A j \in 1..n : shares[j] >= MinBudget
                    /\ n >= 1 /\ pot >= n * MinBudget => over <= 0
  BY DEF SharesWithinTotal
<1>1. n \in Nat /\ over \in Int /\ pot \in Nat /\ Len(shares) = n
  BY DEF IInv, TypeInv, DoneInv
<1>2. \A j \in 1..n : shares[j] >= MinBudget
  BY <1>1 DEF IInv, Floors
<1>3. over > 0 => pot + over = n * MinBudget
  BY DEF IInv, DoneInv
<1>4. n * MinBudget \in Int
  BY <1>1, MinBudgetAssumption
<1> QED BY <1>1, <1>2, <1>3, <1>4

(***************************************************************************)
(* Theorems                                                                *)
(***************************************************************************)

LEMMA SplitInvariant == SplitSpec => []IInv
<1>1. ASSUME IInv, [SplitNext]_splitVars PROVE IInv'
  <2>1. CASE \E amount, m \in Nat : Divide(amount, m)
    BY <2>1, DividePreserves
  <2>2. CASE RoundShare
    BY <2>2, <1>1, RoundSharePreserves
  <2>3. CASE TakeBack
    BY <2>3, <1>1, TakeBackPreserves
  <2>4. CASE UNCHANGED splitVars
    BY <2>4, <1>1, StutterPreserves
  <2> QED BY <1>1, <2>1, <2>2, <2>3, <2>4 DEF SplitNext, SplitStep
<1> QED BY <1>1, InitEstablishes, PTL DEF SplitSpec

(* No step gets less than the minimum, and a total with room for the minima *)
(* is not exceeded.                                                         *)
THEOREM SharesStayWithinTotal == SplitSpec => []SharesWithinTotal
BY SplitInvariant, IInvSuffices, PTL

(* The shares of a finished split add up to the total and what is over; no  *)
(* token is lost by the taking back, whatever the rounding did.             *)
SharesAddUp == stage = "done" => Len(shares) = n /\ AddUpTo(shares, n, pot + over)
THEOREM SharesAlwaysAddUp == SplitSpec => []SharesAddUp
<1>1. IInv => SharesAddUp
  BY DEF IInv, DoneInv, SharesAddUp
<1> QED BY <1>1, SplitInvariant, PTL

(***************************************************************************)
(* Fair shares                                                             *)
(***************************************************************************)

(* While shares are rounded the first k - 1 fall short of theirs by half a  *)
(* grain each at most and do not decrease; what the last one was rounded    *)
(* from is known.  While they are taken from, those not yet reached are     *)
(* still so, and of those passed all but the first have the minimum, which  *)
(* is what the first has as well if more is to be taken.                    *)
RoundingFair ==
  /\ 3 * n * (n - 1) * (2 * (pot + over) + (k - 1) * Grain) >= 2 * pot * (k - 1) * (2 * (n - 2) + k)
  /\ \A j \in 1..k - 2 : shares[j] <= shares[j + 1]
  /\ k >= 2 => \E r \in Multiples(pot, n, k - 1) : shares[k - 1] = AtLeast(MinBudget, r * Grain)
TakingFair ==
  /\ 2 * over + n * Grain >= 0
  /\ k \in 0..n
  /\ \A j \in 1..k - 1 : shares[j] <= shares[j + 1]
  /\ \A l \in k + 2..n : shares[l] = MinBudget
FairInv ==
  /\ stage = "rounding" => RoundingFair
  /\ stage \in {"taking", "done"} /\ n >= 1 => TakingFair
  /\ stage = "taking" /\ over > 0 /\ k < n => shares[k + 1] = MinBudget

(* The numerator and the denominator of a step's share.                     *)
Num(p, m, j) == 2 * p * (m - 2 + j)
Den(m) == 3 * Grain * m * (m - 1)

LEMMA DenIsPositive ==
  ASSUME NEW m \in Nat, m >= 2
  PROVE  Den(m) \in Nat \ {0}
<1>1. \A a, b \in Nat \ {0} : a * b \in Nat \ {0}
  OBVIOUS
<1>2. 3 * Grain \in Nat \ {0} /\ m \in Nat \ {0} /\ m - 1 \in Nat \ {0}
  BY GrainAssumption
<1>3. 3 * Grain * m \in Nat \ {0}
  BY <1>1, <1>2
<1> QED BY <1>1, <1>2, <1>3 DEF Den

(* A rounded share is a natural number, within half of one of the quotient. *)
LEMMA RoundedIsNear ==
  ASSUME NEW p \in Nat, NEW m \in Nat, m >= 2, NEW j \in Nat \ {0},
         NEW r \in Multiples(p, m, j)
  PROVE  /\ r \in Nat /\ Num(p, m, j) \in Nat
         /\ 2 * r * Den(m) <= 2 * Num(p, m, j) + Den(m)
         /\ 2 * r * Den(m) >= 2 * Num(p, m, j) - Den(m)
<1> DEFINE num == Num(p, m, j)
           den == Den(m)
<1>1. den \in Nat \ {0}
  BY DenIsPositive
<1>2. num \in Nat
  <2>1. \A a, b \in Nat : a * b \in Nat
    OBVIOUS
  <2>2. m - 2 + j \in Nat /\ 2 * p \in Nat
    OBVIOUS
  <2> QED BY <2>1, <2>2 DEF Num
<1>3. r \in {num \div den, num \div den + 1} /\ 2 * r * den - 2 * num \in (-den)..den
  BY DEF Multiples, Rounded, Num, Den
<1> HIDE DEF num, den
<1>4. num \div den \in Nat
  BY <1>1, <1>2
<1>5. r \in Nat
  BY <1>3, <1>4
<1>6. 2 * r * den \in Int
  BY <1>1, <1>5
<1>7. 2 * r * den <= 2 * num + den /\ 2 * r * den >= 2 * num - den
  BY <1>1, <1>2, <1>3, <1>6
<1> QED BY <1>2, <1>5, <1>7 DEF num, den

(* A later step's share is not rounded to less.                             *)
LEMMA RoundedGrow ==
  ASSUME NEW p \in Nat, NEW m \in Nat, m >= 2, NEW j \in Nat \ {0},
         NEW r \in Multiples(p, m, j), NEW s \in Multiples(p, m, j + 1)
  PROVE  r <= s
<1> DEFINE den == Den(m)
           num == Num(p, m, j)
           next == Num(p, m, j + 1)
<1>1. j + 1 \in Nat \ {0}
  OBVIOUS
<1>2. /\ r \in Nat /\ s \in Nat /\ num \in Nat /\ next \in Nat /\ den \in Nat \ {0}
      /\ 2 * r * den <= 2 * num + den
      /\ 2 * s * den >= 2 * next - den
      /\ 2 * r * den >= 2 * num - den
      /\ 2 * s * den <= 2 * next + den
  BY <1>1, RoundedIsNear, DenIsPositive
<1>3. next = num + 2 * p
  <2>1. \A a, b, c \in Int : 2 * a * (b - 2 + (c + 1)) = 2 * a * (b - 2 + c) + 2 * a
    OBVIOUS
  <2> QED BY <2>1 DEF Num
<1>4. \A a, b \in Nat : b >= a => \A c \in Nat : b * c >= a * c
  OBVIOUS
<1> HIDE DEF den, num, next
<1>5. SUFFICES ASSUME r >= s + 1 PROVE FALSE
  BY <1>2
<1>6. 2 * r * den >= 2 * s * den + 2 * den
  <2>1. 2 * r >= 2 * s + 2 /\ 2 * r \in Nat /\ 2 * s + 2 \in Nat /\ den \in Nat
    BY <1>2, <1>5
  <2>2. (2 * r) * den >= (2 * s + 2) * den
    BY <1>4, <2>1
  <2>3. \A a, b \in Nat : (2 * a + 2) * b = 2 * a * b + 2 * b
    OBVIOUS
  <2> QED BY <1>2, <2>2, <2>3
<1>7. CASE p # 0
  <2>1. 2 * r * den \in Int /\ 2 * s * den \in Int
    BY <1>2
  <2> DEFINE x == 2 * r * den
             y == 2 * s * den
  <2> HIDE DEF x, y
  <2>2. x \in Int /\ y \in Int /\ x >= y + 2 * den /\ x <= 2 * num + den /\ y >= 2 * next - den
    BY <1>2, <1>6, <2>1 DEF x, y
  <2> QED BY <1>2, <1>3, <1>7, <2>2
<1>8. CASE p = 0
  <2>1. num = 0 /\ next = 0
    <3>1. \A a \in Int : 2 * 0 * a = 0
      OBVIOUS
    <3> QED BY <1>8, <3>1 DEF num, next, Num
  <2>2. s * den >= 0 /\ s * den \in Nat /\ 2 * s * den = 2 * (s * den)
    <3>1. \A a, b \in Nat : a * b \in Nat /\ 2 * a * b = 2 * (a * b)
      OBVIOUS
    <3> QED BY <1>2, <3>1
  <2>3. 2 * r * den \in Int
    BY <1>2
  <2> DEFINE x == 2 * r * den
             y == s * den
  <2> HIDE DEF x, y
  <2>4. x \in Int /\ y \in Nat /\ x >= 2 * y + 2 * den /\ x <= 0 + den
    BY <1>2, <1>6, <2>1, <2>2, <2>3 DEF x, y
  <2> QED BY <1>2, <2>4
<1> QED BY <1>7, <1>8

(* What the shares so far fall short by grows by no more than half a grain. *)
LEMMA ShortfallGrows ==
  ASSUME NEW p \in Nat, NEW m \in Nat, m >= 2, NEW j \in Nat \ {0},
         NEW acc \in Int, NEW x \in Int, NEW r \in Multiples(p, m, j), x >= r * Grain,
         3 * m * (m - 1) * (2 * acc + (j - 1) * Grain) >= 2 * p * (j - 1) * (2 * (m - 2) + j)
  PROVE  3 * m * (m - 1) * (2 * (acc + x) + j * Grain) >= 2 * p * j * (2 * (m - 2) + (j + 1))
<1> DEFINE d == 3 * m * (m - 1)
           a == 2 * acc + (j - 1) * Grain
           b == 2 * x + Grain
           left == 2 * p * (j - 1) * (2 * (m - 2) + j)
           num == Num(p, m, j)
<1>1. Grain \in Nat \ {0} /\ m \in Int /\ p \in Int /\ j \in Int
  BY GrainAssumption
<1>2. d \in Nat /\ Den(m) = d * Grain
  <2>1. \A u, v \in Nat : u * v \in Nat
    OBVIOUS
  <2>2. 3 * m \in Nat /\ m - 1 \in Nat
    OBVIOUS
  <2>3. d \in Nat
    BY <2>1, <2>2
  <2>4. \A u, v \in Int : 3 * u * v * (v - 1) = 3 * v * (v - 1) * u
    OBVIOUS
  <2> QED BY <1>1, <2>3, <2>4 DEF Den
<1>3. /\ r \in Nat /\ num \in Nat
      /\ 2 * r * Den(m) >= 2 * num - Den(m)
  BY RoundedIsNear
<1>4. a \in Int /\ b \in Int
  BY <1>1
<1>5. d * b >= 2 * num
  <2>1. r * Grain \in Int /\ 2 * (r * Grain) + Grain <= b /\ 2 * (r * Grain) + Grain \in Int
    BY <1>1, <1>3
  <2>2. \A u \in Nat, v, w \in Int : v <= w => u * v <= u * w
    OBVIOUS
  <2>3. d * (2 * (r * Grain) + Grain) <= d * b
    <3> HIDE DEF d, b
    <3> QED BY <1>2, <1>4, <2>1, <2>2
  <2>4. \A u, v, w \in Int : u * (2 * (v * w) + w) = 2 * v * (u * w) + u * w
    OBVIOUS
  <2>5. d * (2 * (r * Grain) + Grain) = 2 * r * Den(m) + Den(m)
    BY <1>1, <1>2, <1>3, <2>4
  <2>6. 2 * r * Den(m) \in Int /\ Den(m) \in Int
    BY <1>3, DenIsPositive
  <2>7. d * b \in Int
    BY <1>2, <1>4
  <2> DEFINE u == 2 * r * Den(m)
             v == Den(m)
             w == d * b
             z == d * (2 * (r * Grain) + Grain)
  <2> HIDE DEF u, v, w, z, num
  <2>8. u \in Int /\ v \in Int /\ w \in Int /\ num \in Nat /\ z <= w /\ z = u + v /\ u >= 2 * num - v
    BY <1>3, <2>3, <2>5, <2>6, <2>7 DEF u, v, w, z
  <2>9. w >= 2 * num
    BY <2>8
  <2> QED BY <2>9 DEF w
<1>6. d * (2 * (acc + x) + j * Grain) = d * a + d * b
  <2>1. \A t, u, v, w, z \in Int :
          t * (2 * (u + v) + w * z) = t * (2 * u + (w - 1) * z) + t * (2 * v + z)
    OBVIOUS
  <2> QED BY <1>1, <1>2, <2>1
<1>7. 2 * p * j * (2 * (m - 2) + (j + 1)) = left + 2 * num
  <2>1. \A t, u, v \in Int :
          2 * t * u * (2 * (v - 2) + (u + 1))
            = 2 * t * (u - 1) * (2 * (v - 2) + u) + 2 * (2 * t * (v - 2 + u))
    OBVIOUS
  <2> QED BY <1>1, <2>1 DEF Num
<1>8. left \in Int /\ d * a \in Int /\ d * b \in Int /\ d * a >= left
  BY <1>1, <1>2, <1>4
<1> DEFINE da == d * a
           db == d * b
<1> HIDE DEF left, num
<1>9. da + db >= left + 2 * num
  <2> HIDE DEF da, db
  <2> QED BY <1>3, <1>5, <1>8 DEF da, db
<1> QED BY <1>6, <1>7, <1>9

LEMMA RoundShareIsFair ==
  ASSUME IInv, FairInv, RoundShare
  PROVE  FairInv'
<1> USE MinBudgetAssumption, GrainAssumption
<1>1. /\ stage = "rounding" /\ n \in Nat /\ n >= 2 /\ k \in 1..n /\ k \in Nat \ {0}
      /\ pot \in Nat /\ over \in Int /\ shares \in Seq(Int) /\ Len(shares) = k - 1
      /\ RoundingFair
      /\ pot' = pot /\ n' = n
  BY DEF IInv, TypeInv, RoundingInv, FairInv, RoundShare
<1>2. PICK r \in Multiples(pot, n, k) :
        /\ shares' = Append(shares, AtLeast(MinBudget, r * Grain))
        /\ over' = over + AtLeast(MinBudget, r * Grain)
  BY DEF RoundShare
<1> DEFINE x == AtLeast(MinBudget, r * Grain)
<1>3. r \in Nat /\ x \in Int /\ x >= r * Grain
  <2>1. r \in Nat
    BY <1>1, RoundedIsNear
  <2> QED BY <2>1 DEF AtLeast
<1>4. /\ \A j \in 1..k - 1 : shares'[j] = shares[j]
      /\ shares'[k] = x /\ shares' \in Seq(Int) /\ Len(shares') = k
  <2> HIDE DEF x
  <2> QED BY <1>1, <1>2, <1>3 DEF x
<1>5. 3 * n * (n - 1) * (2 * (pot + over') + k * Grain) >= 2 * pot * k * (2 * (n - 2) + (k + 1))
  <2>1. pot + over \in Int /\ pot + over' = pot + over + x
    BY <1>1, <1>2, <1>3
  <2>2. 3 * n * (n - 1) * (2 * (pot + over) + (k - 1) * Grain) >= 2 * pot * (k - 1) * (2 * (n - 2) + k)
    BY <1>1 DEF RoundingFair
  <2> HIDE DEF x
  <2> DEFINE acc == pot + over
  <2> HIDE DEF acc
  <2>3. acc \in Int /\ 3 * n * (n - 1) * (2 * acc + (k - 1) * Grain) >= 2 * pot * (k - 1) * (2 * (n - 2) + k)
    BY <2>1, <2>2 DEF acc
  <2>4. 3 * n * (n - 1) * (2 * (acc + x) + k * Grain) >= 2 * pot * k * (2 * (n - 2) + (k + 1))
    BY ONLY <1>1, <1>3, <2>3, ShortfallGrows
  <2> QED BY <2>1, <2>4 DEF acc
<1>6. \A j \in 1..k - 1 : shares'[j] <= shares'[j + 1]
  <2> SUFFICES ASSUME NEW j \in 1..k - 1 PROVE shares'[j] <= shares'[j + 1]
    OBVIOUS
  <2>1. CASE j \in 1..k - 2
    <3>1. shares'[j] = shares[j] /\ shares'[j + 1] = shares[j + 1]
      <4>1. j \in 1..k - 1 /\ j + 1 \in 1..k - 1
        BY <1>1, <2>1
      <4> QED BY <1>4, <4>1
    <3> QED BY <1>1, <2>1, <3>1 DEF RoundingFair
  <2>2. CASE j = k - 1
    <3>1. k >= 2 /\ j + 1 = k /\ k - 1 \in Nat \ {0}
      BY <1>1, <2>2
    <3>2. PICK q \in Multiples(pot, n, k - 1) : shares[k - 1] = AtLeast(MinBudget, q * Grain)
      BY <1>1, <3>1 DEF RoundingFair
    <3>3. q \in Nat /\ q <= r
      <4>1. (k - 1) + 1 = k
        BY <1>1
      <4> QED BY <1>1, <1>2, <3>1, <4>1, RoundedIsNear, RoundedGrow
    <3>4. q * Grain <= r * Grain
      <4>1. \A a, b, c \in Nat : a <= b => a * c <= b * c
        OBVIOUS
      <4> QED BY <1>3, <3>3, <4>1
    <3>5. q * Grain \in Int /\ r * Grain \in Int
      BY <1>3, <3>3
    <3>6. AtLeast(MinBudget, q * Grain) <= AtLeast(MinBudget, r * Grain)
      BY <3>4, <3>5 DEF AtLeast
    <3> QED BY <1>4, <2>2, <3>1, <3>2, <3>6
  <2> QED BY <1>1, <2>1, <2>2
<1>7. CASE k # n
  <2>1. stage' = "rounding" /\ k' = k + 1
    BY <1>7 DEF RoundShare
  <2>2. k' - 1 = k /\ k' - 2 = k - 1
    BY <1>1, <2>1
  <2>3. \E q \in Multiples(pot', n', k' - 1) : shares'[k' - 1] = AtLeast(MinBudget, q * Grain)
    BY <1>1, <1>2, <1>4, <2>2
  <2>4. RoundingFair'
    BY <1>1, <1>5, <1>6, <2>1, <2>2, <2>3 DEF RoundingFair
  <2> QED BY <2>1, <2>4 DEF FairInv
<1>8. CASE k = n
  <2>1. stage' = "taking" /\ k' = n
    BY <1>8 DEF RoundShare
  <2>2. 2 * over' + n * Grain >= 0
    <3> DEFINE d == 3 * n * (n - 1)
               c == 2 * (pot + over') + n * Grain
    <3>1. d * c >= 2 * pot * n * (2 * (n - 2) + (n + 1))
      BY <1>5, <1>8
    <3>2. 2 * pot * n * (2 * (n - 2) + (n + 1)) = d * (2 * pot)
      <4>1. \A u, v \in Int : 2 * u * v * (2 * (v - 2) + (v + 1)) = 3 * v * (v - 1) * (2 * u)
        OBVIOUS
      <4> QED BY <1>1, <4>1
    <3>3. d \in Nat \ {0}
      <4>1. \A a, b \in Nat \ {0} : a * b \in Nat \ {0}
        OBVIOUS
      <4>2. 3 * n \in Nat \ {0} /\ n - 1 \in Nat \ {0}
        BY <1>1
      <4> QED BY <4>1, <4>2
    <3>4. over' \in Int /\ n * Grain \in Int /\ c \in Int
      BY <1>1, <1>2, <1>3
    <3>5. \A u \in Nat \ {0}, v, w \in Int : u * v >= u * w => v >= w
      OBVIOUS
    <3>6. c >= 2 * pot
      <4>1. 2 * pot \in Int /\ d * c >= d * (2 * pot)
        BY <1>1, <3>1, <3>2
      <4> HIDE DEF d, c
      <4> QED BY <3>3, <3>4, <3>5, <4>1
    <3>7. \A u, v, w \in Int : 2 * (u + v) + w >= 2 * u => 2 * v + w >= 0
      OBVIOUS
    <3> DEFINE g == n * Grain
    <3>8. pot \in Int
      BY <1>1
    <3>9. 2 * over' + g >= 0
      BY <3>4, <3>6, <3>7, <3>8, Zenon
    <3> QED BY <3>9
  <2>3. TakingFair'
    <3>1. k' \in 0..n' /\ \A l \in k' + 2..n' : FALSE
      BY <1>1, <2>1
    <3>2. \A j \in 1..k' - 1 : shares'[j] <= shares'[j + 1]
      BY <1>6, <1>8, <2>1
    <3> QED BY <1>1, <2>2, <3>1, <3>2 DEF TakingFair
  <2> QED BY <1>1, <2>1, <2>3 DEF FairInv
<1> QED BY <1>7, <1>8

LEMMA TakeBackIsFair ==
  ASSUME IInv, FairInv, TakeBack
  PROVE  FairInv'
<1> USE MinBudgetAssumption, GrainAssumption
<1>1. /\ stage = "taking" /\ n \in Nat /\ n > 1 /\ k \in 0..n
      /\ pot \in Nat /\ over \in Int /\ shares \in Seq(Int) /\ Len(shares) = n
      /\ Floors /\ TakingFair
      /\ over > 0 /\ k < n => shares[k + 1] = MinBudget
      /\ pot' = pot /\ n' = n
  BY DEF IInv, TypeInv, TakingInv, FairInv, TakeBack
<1>2. CASE over > 0 /\ k >= 1
  <2> DEFINE take == AtMost(over, shares[k] - MinBudget)
  <2>1. k \in 1..n /\ shares[k] \in Int /\ shares[k] >= MinBudget
    BY <1>1, <1>2 DEF Floors
  <2>2. /\ take \in Int /\ take >= 0 /\ over - take >= 0
        /\ over - take > 0 => shares[k] - take = MinBudget
    BY <2>1, <1>1, <1>2 DEF AtMost
  <2>3. /\ shares' = [shares EXCEPT ![k] = @ - take] /\ over' = over - take
        /\ k' = k - 1 /\ stage' = "taking"
    BY <1>1, <1>2 DEF TakeBack
  <2> HIDE DEF take
  <2>4. \A j \in 1..n : shares'[j] = IF j = k THEN shares[k] - take ELSE shares[j]
    BY <1>1, <2>1, <2>3
  <2>5. 2 * over' + n' * Grain >= 0
    <3>1. n * Grain \in Nat
      BY <1>1
    <3> QED BY <1>1, <2>2, <2>3, <3>1
  <2>6. \A j \in 1..k' - 1 : shares'[j] <= shares'[j + 1]
    <3> SUFFICES ASSUME NEW j \in 1..k' - 1 PROVE shares'[j] <= shares'[j + 1]
      OBVIOUS
    <3>1. j \in 1..k - 1 /\ j \in 1..n /\ j + 1 \in 1..n /\ j # k /\ j + 1 # k
      BY <1>1, <2>1, <2>3
    <3>2. shares[j] <= shares[j + 1]
      BY <1>1, <3>1 DEF TakingFair
    <3> QED BY <2>4, <3>1, <3>2
  <2>7. \A l \in k' + 2..n' : shares'[l] = MinBudget
    <3> SUFFICES ASSUME NEW l \in k' + 2..n' PROVE shares'[l] = MinBudget
      OBVIOUS
    <3>1. l \in k + 1..n /\ l \in 1..n /\ l # k
      BY <1>1, <2>1, <2>3
    <3>2. CASE l = k + 1
      BY <1>1, <1>2, <2>1, <2>4, <3>1, <3>2
    <3>3. CASE l # k + 1
      <4>1. l \in k + 2..n
        BY <1>1, <3>1, <3>3
      <4> QED BY <1>1, <2>4, <3>1, <4>1 DEF TakingFair
    <3> QED BY <3>2, <3>3
  <2>8. k' \in 0..n' /\ k' + 1 = k
    BY <1>1, <2>1, <2>3
  <2>9. over' > 0 => shares'[k' + 1] = MinBudget
    BY <1>1, <2>1, <2>2, <2>3, <2>4, <2>8
  <2>10. TakingFair'
    BY <2>5, <2>6, <2>7, <2>8 DEF TakingFair
  <2> QED BY <2>3, <2>9, <2>10 DEF FairInv
<1>3. CASE ~(over > 0 /\ k >= 1)
  <2>1. stage' = "done" /\ UNCHANGED <<pot, n, k, shares, over>>
    BY <1>1, <1>3 DEF TakeBack
  <2>2. TakingFair'
    BY <1>1, <2>1 DEF TakingFair
  <2> QED BY <2>1, <2>2 DEF FairInv
<1> QED BY <1>2, <1>3

(* A division starts with no share that could be unfair.                    *)
LEMMA DivideIsFair ==
  ASSUME NEW amount \in Nat, NEW m \in Nat, Divide(amount, m)
  PROVE  FairInv'
<1>1. CASE m = 0
  BY <1>1 DEF Divide, FairInv
<1>3. CASE m = 1
  <2>1. /\ stage' = "done" /\ k' = 1 /\ n' = 1
        /\ over' = AtLeast(MinBudget, amount) - amount
    BY <1>3 DEF Divide
  <2>2. over' \in Nat
    BY <2>1, MinBudgetAssumption DEF AtLeast
  <2>3. 2 * over' + 1 * Grain >= 0
    <3>1. 1 * Grain \in Nat
      BY GrainAssumption
    <3> HIDE DEF AtLeast
    <3> QED BY <2>2, <3>1
  <2>4. TakingFair'
    BY <2>1, <2>3 DEF TakingFair
  <2> QED BY <2>1, <2>4 DEF FairInv
<1>2. CASE m > 1
  <2>1. stage' = "rounding" /\ k' = 1 /\ n' = m /\ pot' = amount /\ over' = -amount
    BY <1>2 DEF Divide
  <2>2. 3 * n' * (n' - 1) * (2 * (pot' + over') + (k' - 1) * Grain) = 0
    <3>1. 2 * (amount + (-amount)) + (1 - 1) * Grain = 0
      BY GrainAssumption
    <3>2. \A u \in Int : 3 * u * (u - 1) * 0 = 0
      OBVIOUS
    <3> QED BY <2>1, <3>1, <3>2
  <2>3. 2 * pot' * (k' - 1) * (2 * (n' - 2) + k') = 0
    <3>1. \A u, v \in Int : 2 * u * (1 - 1) * (2 * (v - 2) + 1) = 0
      OBVIOUS
    <3> QED BY <2>1, <3>1
  <2>4. RoundingFair'
    BY <2>1, <2>2, <2>3 DEF RoundingFair
  <2> QED BY <2>1, <2>4 DEF FairInv
<1> QED BY <1>1, <1>2, <1>3

LEMMA SplitStutterIsFair ==
  ASSUME FairInv, UNCHANGED splitVars
  PROVE  FairInv'
BY DEF FairInv, RoundingFair, TakingFair, splitVars

(* The recursive sum is what partial sums lead to: at the least place where *)
(* the two differed, both add the same element to the same sum.             *)
LEMMA SumIsUnique ==
  ASSUME NEW s \in Seq(Int), NEW v \in Int, AddUpTo(s, Len(s), v)
  PROVE  Sum(s) = v
<1> DEFINE m == Len(s)
           Defines(f) == f = [i \in 0..m |-> IF i = 0 THEN 0 ELSE f[i - 1] + s[i]]
           upto == CHOOSE f : Defines(f)
<1>1. PICK acc : PartialSums(acc, s, m) /\ acc[m] = v
  BY DEF AddUpTo
<1>2. Sum(s) = upto[m]
  BY DEF Sum
<1>3. Defines(acc)
  <2>1. acc = [i \in 0..m |-> acc[i]]
    BY <1>1 DEF PartialSums
  <2>2. \A i \in 0..m : acc[i] = IF i = 0 THEN 0 ELSE acc[i - 1] + s[i]
    BY <1>1 DEF PartialSums
  <2> QED BY <2>1, <2>2
<1>4. Defines(upto)
  <2> HIDE DEF Defines
  <2> QED BY <1>3
<1>5. \A i \in 0..m : upto[i] = IF i = 0 THEN 0 ELSE upto[i - 1] + s[i]
  <2> HIDE DEF upto
  <2> QED BY <1>4
<1> HIDE DEF upto, Defines
<1> DEFINE Wrong == {i \in 0..m : upto[i] # acc[i]}
<1>6. Wrong = {}
  <2> SUFFICES ASSUME Wrong # {} PROVE FALSE
    OBVIOUS
  <2>1. \A i, j \in Nat : i < j => <<i, j>> \in OpToRel(<, Nat)
    BY Zenon DEF OpToRel
  <2>2. Wrong \subseteq Nat
    OBVIOUS
  <2>3. PICK i \in Wrong : \A j \in Wrong : <<j, i>> \notin OpToRel(<, Nat)
    <3> HIDE DEF Wrong
    <3> QED BY <2>2, NatLessThanWellFounded, WFMin
  <2>12. m \in Nat
    OBVIOUS
  <2>11. i \in 0..m /\ m \in Nat /\ upto[i] # acc[i]
    BY <2>3, <2>12, Zenon
  <2>4. i # 0
    BY <1>1, <1>5, <2>11 DEF PartialSums
  <2>5. i - 1 \in 0..m /\ i - 1 \in Nat /\ i \in Nat /\ i - 1 < i
    BY <2>11, <2>4
  <2>6. i - 1 \notin Wrong
    BY <2>1, <2>3, <2>5
  <2>7. upto[i - 1] = acc[i - 1]
    BY <2>5, <2>6
  <2>8. i \in 1..m /\ i \in 0..m
    BY <2>11, <2>4
  <2>9. acc[i] = acc[i - 1] + s[i]
    BY <1>1, <2>8 DEF PartialSums
  <2>10. upto[i] = upto[i - 1] + s[i]
    BY <1>5, <2>4, <2>8
  <2> QED BY <2>11, <2>7, <2>9, <2>10
<1>7. m \in 0..m
  OBVIOUS
<1> QED BY <1>1, <1>2, <1>6, <1>7

(* What the invariants say of a finished division.                          *)
LEMMA FairSuffices == IInv /\ FairInv => FairShares
<1> SUFFICES ASSUME IInv, FairInv, stage = "done", n >= 1
             PROVE  /\ 2 * (pot - Sum(shares)) <= n * Grain
                    /\ \A j \in 1..(n - 1) : shares[j] > shares[j + 1] =>
                         \A l \in (j + 2)..n : shares[l] = MinBudget
  BY DEF FairShares
<1>1. /\ n \in Nat /\ over \in Int /\ pot \in Nat /\ shares \in Seq(Int) /\ Len(shares) = n
      /\ AddUpTo(shares, Len(shares), pot + over) /\ TakingFair
  BY DEF IInv, TypeInv, DoneInv, FairInv
<1>2. Sum(shares) = pot + over
  <2>1. pot + over \in Int
    BY <1>1
  <2> QED BY <1>1, <2>1, SumIsUnique
<1>3. 2 * (pot - Sum(shares)) <= n * Grain
  <2>1. n * Grain \in Int /\ 2 * over + n * Grain >= 0
    BY <1>1, GrainAssumption DEF TakingFair
  <2> QED BY <1>1, <1>2, <2>1
<1>4. ASSUME NEW j \in 1..(n - 1), shares[j] > shares[j + 1], NEW l \in (j + 2)..n
      PROVE  shares[l] = MinBudget
  <2>1. k \in 0..n /\ shares[j] \in Int /\ shares[j + 1] \in Int
    BY <1>1 DEF TakingFair
  <2>2. ~(j \in 1..k - 1)
    BY <1>1, <1>4, <2>1 DEF TakingFair
  <2>3. l \in k + 2..n
    BY <1>1, <2>1, <2>2
  <2> QED BY <1>1, <2>3 DEF TakingFair
<1> QED BY <1>3, <1>4

LEMMA SplitFairness == SplitSpec => [](IInv /\ FairInv)
<1>1. SplitInit => FairInv
  BY DEF SplitInit, FairInv
<1>2. ASSUME IInv, FairInv, [SplitNext]_splitVars PROVE FairInv'
  <2>1. CASE \E amount, m \in Nat : Divide(amount, m)
    BY <2>1, DivideIsFair
  <2>2. CASE RoundShare
    BY <1>2, <2>2, RoundShareIsFair
  <2>3. CASE TakeBack
    BY <1>2, <2>3, TakeBackIsFair
  <2>4. CASE UNCHANGED splitVars
    BY <1>2, <2>4, SplitStutterIsFair
  <2> QED BY <1>2, <2>1, <2>2, <2>3, <2>4 DEF SplitNext, SplitStep
<1> QED BY <1>1, <1>2, SplitInvariant, PTL DEF SplitSpec

(* How far split_budget may be from growing and adding up: at most half a   *)
(* grain a step is lost to rounding, and where a share falls short of the   *)
(* one before it all after it have the minimum.                             *)
THEOREM SharesAreFair == SplitSpec => []FairShares
BY SplitFairness, FairSuffices, PTL

(***************************************************************************)
(* Sifting                                                                 *)
(***************************************************************************)

(* Among finitely many places there is one with any number of places up to  *)
(* it, as no two have the same number.                                      *)
LEMMA PlaceOfEachNumber ==
  ASSUME NEW places, places \subseteq Nat, IsFiniteSet(places)
  PROVE  /\ Cardinality(places) \in Nat
         /\ \A j \in 1..Cardinality(places) :
              \E i \in places : Cardinality({l \in places : l <= i}) = j
<1> DEFINE c == Cardinality(places)
           upto(i) == {l \in places : l <= i}
           f == [i \in places |-> Cardinality(upto(i))]
           nums == 1..c
<1>1. c \in Nat
  BY FS_CardinalityType
<1>2. ASSUME NEW i \in places
      PROVE  /\ upto(i) \in SUBSET places /\ IsFiniteSet(upto(i))
             /\ Cardinality(upto(i)) \in nums
  <2>1. upto(i) \in SUBSET places /\ i \in upto(i)
    BY <1>2
  <2> HIDE DEF upto
  <2>2. IsFiniteSet(upto(i)) /\ Cardinality(upto(i)) <= c
    BY <2>1, FS_Subset
  <2>3. Cardinality(upto(i)) \in Nat /\ Cardinality(upto(i)) # 0
    BY <2>1, <2>2, FS_CardinalityType, FS_EmptySet
  <2> QED BY <1>1, <2>1, <2>2, <2>3
<1>3. ASSUME NEW i \in places, NEW j \in places, i < j
      PROVE  Cardinality(upto(i)) # Cardinality(upto(j))
  <2>1. i \in Nat /\ j \in Nat
    OBVIOUS
  <2>2. upto(i) \in SUBSET upto(j) /\ j \in upto(j) /\ j \notin upto(i)
    <3>1. \A l \in places : l \in Nat
      OBVIOUS
    <3>2. \A l \in places : l <= i => l <= j
      BY <1>3, <2>1, <3>1
    <3>3. j <= j /\ ~(j <= i)
      BY <1>3, <2>1
    <3> QED BY <3>2, <3>3
  <2>3. IsFiniteSet(upto(j))
    BY <1>2
  <2> HIDE DEF upto
  <2>4. Cardinality(upto(j)) = Cardinality(upto(i)) => upto(j) = upto(i)
    BY <2>2, <2>3, FS_Subset
  <2> QED BY <2>2, <2>4
<1>4. f \in [places -> nums]
  BY <1>2
<1>5. ASSUME NEW i \in places, NEW j \in places, f[i] = f[j] PROVE i = j
  <2>1. Cardinality(upto(i)) = Cardinality(upto(j))
    BY <1>5
  <2>2. ~(i < j) /\ ~(j < i)
    BY <1>3, <2>1
  <2>3. i \in Nat /\ j \in Nat
    OBVIOUS
  <2> QED BY <2>2, <2>3
<1>6. IsFiniteSet(nums) /\ Cardinality(nums) = c
  BY <1>1, FS_Interval
<1>7. \A j \in nums : \E i \in places : f[i] = j
  <2> HIDE DEF f, nums
  <2>1. f \in Injection(places, nums)
    BY <1>4, <1>5, Fun_IsInj
  <2>2. Cardinality(places) = Cardinality(nums)
    BY <1>6
  <2>3. f \in Surjection(places, nums)
    BY <1>6, <2>1, <2>2, FS_Injection
  <2> QED BY <2>3, Fun_SurjectionProperties
<1> QED BY <1>1, <1>7

(* What is sifted from a sequence is a sequence of its elements.            *)
LEMMA SiftedIsSequence ==
  ASSUME NEW S, NEW s \in Seq(S), NEW places \in SUBSET (1..Len(s))
  PROVE  /\ Sifted(s, places) \in Seq(S)
         /\ Len(Sifted(s, places)) \in Nat
         /\ DOMAIN Sifted(s, places) = 1..Len(Sifted(s, places))
         /\ \A j \in DOMAIN Sifted(s, places) : \E i \in places : Sifted(s, places)[j] = s[i]
<1>1. IsFiniteSet(places) /\ places \subseteq Nat
  <2>1. IsFiniteSet(1..Len(s))
    BY FS_Interval
  <2>2. IsFiniteSet(places)
    BY <2>1, FS_Subset
  <2>3. places \subseteq Nat
    OBVIOUS
  <2> QED BY <2>2, <2>3
<1> DEFINE c == Cardinality(places)
           at(j) == CHOOSE i \in places : Cardinality({l \in places : l <= i}) = j
<1>2. c \in Nat /\ \A j \in 1..c : at(j) \in places
  <2>1. \A j \in 1..c : \E i \in places : Cardinality({l \in places : l <= i}) = j
    BY <1>1, PlaceOfEachNumber
  <2> QED BY <1>1, <2>1, PlaceOfEachNumber
<1>3. Sifted(s, places) = [j \in 1..c |-> s[at(j)]]
  BY DEF Sifted
<1> HIDE DEF c, at
<1>4. \A j \in 1..c : s[at(j)] \in S /\ at(j) \in places
  <2>1. \A i \in places : s[i] \in S
    OBVIOUS
  <2> QED BY <1>2, <2>1
<1>5. [j \in 1..c |-> s[at(j)]] \in [1..c -> S]
  BY <1>4
<1>6. Sifted(s, places) \in [1..c -> S] /\ DOMAIN Sifted(s, places) = 1..c
  BY <1>3, <1>5
<1>7. Sifted(s, places) \in Seq(S) /\ Len(Sifted(s, places)) = c
  BY <1>2, <1>6
<1>8. \A j \in DOMAIN Sifted(s, places) : \E i \in places : Sifted(s, places)[j] = s[i]
  BY <1>3, <1>4, <1>6
<1> QED BY <1>2, <1>6, <1>7, <1>8

(***************************************************************************)
(* The page and the server                                                 *)
(***************************************************************************)

(* What a step can say: strings all, which the provers are not told of the  *)
(* literals.                                                                *)
Words == STRING \cup {Blank, "demo", "written", "modelled", "carry", "continue"}

(* What a share can be: typed, or no more than the slider can give.         *)
Allowed == {c \in Nat : c \in Typed \/ c <= AtLeast(MinBudget, SliderMax)}
RowSet == [text : Words, cap : Allowed, manual : BOOLEAN]
Plans == [steps : Nat \ {0, 1}, total : SliderMin..SliderMax]
Requests ==
  {r \in [plan : Seq(Words), budgets : Seq(Nat), budget : FlatBudgets,
          workers : Nat, mode : {"one", "seq"}] :
     IF r.mode = "one" THEN Len(r.budgets) = Len(r.plan) ELSE r.budgets = <<>>}

PageTypes ==
  /\ mode \in {"one", "seq"} /\ job \in {"none", "refresh", "page", "server"}
  /\ total \in SliderMin..SliderMax /\ label \in Int /\ label <= SliderMax
  /\ rows \in Seq(RowSet) /\ plan \in Seq(Words)
  /\ asked = NoPlan \/ asked \in Plans
  /\ sent = NoRun \/ sent \in Requests

(* The turns of a request, as Prepare builds them.                          *)
TurnsOf(r) ==
  LET tasks == Assigned(r.plan, r.workers)
      ceilings == StepBudgets(r.budgets)
  IN  [i \in DOMAIN tasks |->
        [task |-> tasks[i],
         ceiling |-> IF i \in DOMAIN ceilings THEN ceilings[i] ELSE r.budget]]
TurnsInv == turns = <<>> \/ (sent \in Requests /\ turns = TurnsOf(sent))

(* Whose division it is: the page's is of the total shown between the rows  *)
(* shown, and what it gave is shown until the next edit; the server's is    *)
(* between the steps of the plan it found.  No division begins while        *)
(* another goes on.                                                         *)
JobInv ==
  /\ job \in {"none", "refresh"} => stage \in {"idle", "done"}
  /\ job = "page" => pot = total /\ n = Len(rows)
  /\ job = "server" =>
       /\ n = Len(plan) /\ n \in 1..MaxSteps
       /\ pot >= SliderMin /\ pot >= n * MinBudget
  /\ job = "none" /\ mode = "one" =>
       /\ pot = total /\ n = Len(rows)
       /\ \A i \in DOMAIN rows : rows[i].manual \/ rows[i].cap = shares[i]

(* What is written beside the slider is not far from what it stands at.     *)
LabelInv ==
  IF label >= SliderMin
    THEN 2 * (label - total) \in -SliderStep..SliderStep
    ELSE total = SliderMin /\ 2 * (total - label) <= MaxSteps * Grain

(* No total is off the slider, and no share.                                *)
SplitSmall ==
  /\ pot <= SliderMax
  /\ \A j \in 1..Len(shares) : shares[j] <= AtLeast(MinBudget, SliderMax)

SplitInv == IInv /\ FairInv /\ SplitSmall
PageInv == SplitInv /\ PageTypes /\ TurnsInv /\ JobInv /\ LabelInv

(* A share rounded from a total on the slider is on the slider.             *)
LEMMA RoundedIsSmall ==
  ASSUME NEW p \in Nat, p <= SliderMax, NEW m \in Nat, m >= 2, NEW j \in 1..m,
         NEW r \in Multiples(p, m, j)
  PROVE  r \in Nat /\ r * Grain <= SliderMax
<1> USE GrainAssumption, SliderAssumption
<1>1. /\ r \in Nat /\ 2 * r * Den(m) <= 2 * Num(p, m, j) + Den(m)
  <2>1. j \in Nat \ {0}
    OBVIOUS
  <2> QED BY <2>1, RoundedIsNear
<1> DEFINE u == m * (m - 1)
           g == r * Grain
<1>2. g \in Nat /\ u \in Nat \ {0}
  <2>1. \A a, b \in Nat : a * b \in Nat
    OBVIOUS
  <2>2. \A a, b \in Nat \ {0} : a * b \in Nat \ {0}
    OBVIOUS
  <2>3. m \in Nat \ {0} /\ m - 1 \in Nat \ {0}
    OBVIOUS
  <2> QED BY <1>1, <2>1, <2>2, <2>3
<1>3. Den(m) = 3 * Grain * u /\ 2 * r * Den(m) = u * (6 * g)
  <2>1. \A a, b \in Int : 3 * a * b * (b - 1) = 3 * a * (b * (b - 1))
    OBVIOUS
  <2>2. \A a, b, c \in Int : 2 * c * (3 * a * b) = b * (6 * (c * a))
    OBVIOUS
  <2>3. Den(m) = 3 * Grain * u
    BY <2>1 DEF Den
  <2>4. u \in Int /\ r \in Int /\ Grain \in Int
    BY <1>1, <1>2
  <2> HIDE DEF u
  <2> QED BY <2>2, <2>3, <2>4
<1>4. 2 * Num(p, m, j) <= u * (4 * p)
  <2>1. \A a \in Nat, b, c \in Int : b <= c => a * b <= a * c
    OBVIOUS
  <2>2. m - 2 + j <= 2 * (m - 1) /\ m - 2 + j \in Int /\ 2 * (m - 1) \in Int /\ 4 * p \in Nat
    OBVIOUS
  <2>3. (4 * p) * (m - 2 + j) <= (4 * p) * (2 * (m - 1))
    BY <2>1, <2>2
  <2>4. 4 * p * (m - 1) \in Nat /\ 2 <= m
    <3>1. \A a, b \in Nat : 4 * a * b \in Nat
      OBVIOUS
    <3>2. m - 1 \in Nat
      OBVIOUS
    <3> QED BY <3>1, <3>2
  <2>5. (4 * p * (m - 1)) * 2 <= (4 * p * (m - 1)) * m
    BY <2>1, <2>4
  <2>6. \A a, b, c \in Int : 2 * (2 * a * (b - 2 + c)) = (4 * a) * (b - 2 + c)
    OBVIOUS
  <2>7. \A a, b \in Int : (4 * a) * (2 * (b - 1)) = (4 * a * (b - 1)) * 2
    OBVIOUS
  <2>8. \A a, b \in Int : (4 * a * (b - 1)) * b = (b * (b - 1)) * (4 * a)
    OBVIOUS
  <2>9. p \in Int /\ m \in Int /\ j \in Int
    OBVIOUS
  <2> DEFINE w == (4 * p) * (m - 2 + j)
             x == (4 * p) * (2 * (m - 1))
             y == (4 * p * (m - 1)) * m
  <2>10. w \in Int /\ x \in Int /\ y \in Int
    BY <2>9
  <2>11. w <= x /\ x <= y
    BY <2>3, <2>5, <2>7, <2>9
  <2>12. 2 * Num(p, m, j) = w /\ u * (4 * p) = y
    BY <2>6, <2>8, <2>9 DEF Num
  <2> HIDE DEF w, x, y
  <2> QED BY <2>10, <2>11, <2>12
<1>5. u * (6 * g) <= u * (4 * p + 3 * Grain)
  <2>1. \A a, b, c \in Int : a * (4 * b + 3 * c) = a * (4 * b) + 3 * c * a
    OBVIOUS
  <2>2. u * (4 * p + 3 * Grain) = u * (4 * p) + Den(m)
    BY <1>2, <1>3, <2>1
  <2>3. u * (4 * p) \in Int /\ Den(m) \in Int /\ Num(p, m, j) \in Int
    BY <1>2, <1>3 DEF Num
  <2> DEFINE a == u * (4 * p)
             b == Den(m)
             c == 2 * Num(p, m, j)
             d == u * (6 * g)
             e == u * (4 * p + 3 * Grain)
  <2>4. a \in Int /\ b \in Int /\ c \in Int /\ d \in Int /\ c <= a /\ d <= c + b /\ e = a + b
    BY <1>1, <1>2, <1>3, <1>4, <2>2, <2>3
  <2> HIDE DEF a, b, c, d, e
  <2>5. d <= e
    BY <2>4
  <2> QED BY <2>5 DEF d, e
<1>6. 6 * g <= 4 * p + 3 * Grain
  <2>1. \A a \in Nat \ {0}, b, c \in Int : a * b <= a * c => b <= c
    OBVIOUS
  <2>2. 6 * g \in Int /\ 4 * p + 3 * Grain \in Int
    BY <1>2
  <2> HIDE DEF u, g
  <2> QED BY <1>2, <1>5, <2>1, <2>2
<1> HIDE DEF g
<1>7. g <= SliderMax
  BY <1>2, <1>6
<1> QED BY <1>1, <1>7 DEF g


(***************************************************************************)
(* Shares on the slider                                                    *)
(***************************************************************************)

LEMMA SmallestIsSmall == MinBudget <= AtLeast(MinBudget, SliderMax)
BY MinBudgetAssumption, SliderAssumption DEF AtLeast

LEMMA DivideStaysSmall ==
  ASSUME NEW amount \in 0..SliderMax, NEW m \in Nat, Divide(amount, m)
  PROVE  SplitSmall'
<1> USE MinBudgetAssumption, SliderAssumption
<1>1. CASE m = 1
  <2>1. pot' = amount /\ shares' = <<AtLeast(MinBudget, amount)>>
    BY <1>1 DEF Divide
  <2>2. AtLeast(MinBudget, amount) <= AtLeast(MinBudget, SliderMax)
    BY DEF AtLeast
  <2> QED BY <2>1, <2>2 DEF SplitSmall
<1>2. CASE m # 1
  BY <1>2 DEF Divide, SplitSmall
<1> QED BY <1>1, <1>2

LEMMA RoundShareStaysSmall ==
  ASSUME IInv, SplitSmall, RoundShare
  PROVE  SplitSmall'
<1> USE MinBudgetAssumption, SliderAssumption, GrainAssumption
<1>1. /\ n \in Nat /\ n >= 2 /\ k \in 1..n /\ pot \in Nat /\ pot <= SliderMax
      /\ shares \in Seq(Int) /\ pot' = pot
  BY DEF IInv, TypeInv, RoundingInv, SplitSmall, RoundShare
<1>2. PICK r \in Multiples(pot, n, k) : shares' = Append(shares, AtLeast(MinBudget, r * Grain))
  BY DEF RoundShare
<1> DEFINE x == AtLeast(MinBudget, r * Grain)
           top == AtLeast(MinBudget, SliderMax)
<1>3. x \in Int /\ x <= top
  <2>1. r \in Nat /\ r * Grain <= SliderMax
    BY <1>1, RoundedIsSmall
  <2> QED BY <2>1 DEF AtLeast
<1>4. \A j \in 1..Len(shares) : shares[j] <= top
  BY DEF SplitSmall
<1> HIDE DEF x
<1>5. \A j \in 1..Len(shares') : shares'[j] <= top
  BY <1>1, <1>2, <1>3, <1>4, SMTT(30) DEF x
<1> QED BY <1>1, <1>5 DEF SplitSmall

(* What is taken off a share is never negative.                             *)
LEMMA TakeBackStaysSmall ==
  ASSUME IInv, SplitSmall, TakeBack
  PROVE  SplitSmall'
<1> USE MinBudgetAssumption, SliderAssumption
<1> DEFINE top == AtLeast(MinBudget, SliderMax)
<1>1. /\ n \in Nat /\ k \in 0..n /\ over \in Int /\ shares \in Seq(Int) /\ Len(shares) = n
      /\ Floors /\ pot' = pot /\ pot <= SliderMax
      /\ \A j \in 1..Len(shares) : shares[j] <= top
  BY DEF IInv, TypeInv, TakingInv, TakeBack, SplitSmall
<1>2. CASE over > 0 /\ k >= 1
  <2> DEFINE take == AtMost(over, shares[k] - MinBudget)
  <2>1. k \in 1..n /\ shares[k] \in Int /\ shares[k] >= MinBudget
    BY <1>1, <1>2 DEF Floors
  <2>2. take \in Int /\ take >= 0
    BY <1>1, <1>2, <2>1 DEF AtMost
  <2>3. shares' = [shares EXCEPT ![k] = @ - take]
    BY <1>2 DEF TakeBack
  <2> HIDE DEF take, top
  <2>4. /\ Len(shares') = n
        /\ \A j \in 1..n : shares'[j] = IF j = k THEN shares[j] - take ELSE shares[j]
    BY <1>1, <2>3
  <2>5. \A j \in 1..n : shares'[j] <= top
    <3>1. top \in Int /\ take \in Int /\ take >= 0
      BY <2>2 DEF top, AtLeast
    <3>2. \A j \in 1..n : shares[j] \in Int /\ shares[j] <= top
      BY <1>1
    <3>3. \A j \in 1..n : shares[j] - take <= top
      BY <3>1, <3>2
    <3> QED BY <2>4, <3>2, <3>3
  <2> QED BY <1>1, <2>4, <2>5 DEF SplitSmall, top
<1>3. CASE ~(over > 0 /\ k >= 1)
  BY <1>1, <1>3 DEF TakeBack, SplitSmall
<1> QED BY <1>2, <1>3

LEMMA DividePreservesSplit ==
  ASSUME NEW amount \in 0..SliderMax, NEW m \in Nat, Divide(amount, m)
  PROVE  SplitInv'
<1>1. amount \in Nat
  BY SliderAssumption
<1> QED BY <1>1, DividePreserves, DivideIsFair, DivideStaysSmall DEF SplitInv

LEMMA SplitStepPreservesSplit ==
  ASSUME SplitInv, SplitStep
  PROVE  SplitInv'
BY RoundSharePreserves, RoundShareIsFair, RoundShareStaysSmall,
   TakeBackPreserves, TakeBackIsFair, TakeBackStaysSmall DEF SplitInv, SplitStep

LEMMA StutterPreservesSplit ==
  ASSUME SplitInv, UNCHANGED splitVars
  PROVE  SplitInv'
<1>1. SplitSmall'
  BY DEF SplitInv, SplitSmall, splitVars
<1> QED BY <1>1, StutterPreserves, SplitStutterIsFair DEF SplitInv


(***************************************************************************)
(* What the page does                                                      *)
(***************************************************************************)

LEMMA NothingAllowed == 0 \in Allowed
BY MinBudgetAssumption, SliderAssumption DEF Allowed, AtLeast

LEMMA StartIsSound == Init => PageInv
<1> SUFFICES ASSUME Init PROVE PageInv
  OBVIOUS
<1>1. SplitInv
  <2>1. IInv
    BY InitEstablishes DEF Init
  <2>2. FairInv /\ SplitSmall
    BY SliderAssumption DEF Init, SplitInit, FairInv, SplitSmall
  <2> QED BY <2>1, <2>2 DEF SplitInv
<1>2. PageTypes
  <2>1. Row("demo", 0) \in RowSet
    BY NothingAllowed DEF Row, RowSet, Words
  <2>2. DemoSteps \in Nat
    BY PlannerAssumption
  <2>3. [i \in 1..DemoSteps |-> Row("demo", 0)] \in Seq(RowSet)
    BY <2>1, <2>2
  <2>4. Positions[1] \in SliderMin..SliderMax /\ Positions[1] \in Int /\ Positions[1] <= SliderMax
    BY SliderAssumption
  <2> QED BY <2>3, <2>4 DEF PageTypes, Init
<1>3. TurnsInv /\ JobInv
  BY DEF Init, SplitInit, TurnsInv, JobInv
<1>4. LabelInv
  BY SliderAssumption DEF Init, LabelInv
<1> QED BY <1>1, <1>2, <1>3, <1>4 DEF PageInv

(* A refresh that is due says nothing yet of the shares shown.              *)
LEMMA RefreshSettles ==
  ASSUME Refresh, stage' \in {"idle", "done"}
  PROVE  JobInv' /\ job' \in {"none", "refresh"}
BY DEF Refresh, JobInv

LEMMA EditPreserves ==
  ASSUME PageInv, job = "none",
         NEW new \in Seq(RowSet), EditRows(new), Refresh
  PROVE  PageInv'
<1>1. SplitInv'
  BY StutterPreservesSplit DEF PageInv, EditRows
<1>2. JobInv' /\ job' \in {"none", "refresh"}
  BY RefreshSettles DEF PageInv, JobInv, EditRows, splitVars
<1>3. PageTypes'
  BY <1>2 DEF PageInv, PageTypes, EditRows
<1>4. TurnsInv'
  BY DEF PageInv, TurnsInv, EditRows
<1>5. LabelInv'
  BY DEF PageInv, LabelInv, EditRows
<1> QED BY <1>1, <1>2, <1>3, <1>4, <1>5 DEF PageInv

(* A row as it was added, with its text replaced, with another share.       *)
LEMMA EditedRows ==
  ASSUME PageTypes
  PROVE  /\ Append(rows, Row(Blank, 0)) \in Seq(RowSet)
         /\ \A i \in DOMAIN rows :
              /\ RemoveAt(rows, i) \in Seq(RowSet)
              /\ \A text \in Words : [rows EXCEPT ![i].text = text] \in Seq(RowSet)
              /\ \A cap \in Allowed, manual \in BOOLEAN :
                   [rows EXCEPT ![i] = [@ EXCEPT !.cap = cap, !.manual = manual]] \in Seq(RowSet)
<1>1. rows \in Seq(RowSet)
  BY DEF PageTypes
<1>2. Append(rows, Row(Blank, 0)) \in Seq(RowSet)
  <2>1. Blank \in Words
    BY DEF Words
  <2>2. Row(Blank, 0) \in RowSet
    BY <2>1, NothingAllowed DEF Row, RowSet
  <2> QED BY <1>1, <2>2
<1>3. ASSUME NEW i \in DOMAIN rows
      PROVE  /\ RemoveAt(rows, i) \in Seq(RowSet)
             /\ \A text \in Words : [rows EXCEPT ![i].text = text] \in Seq(RowSet)
             /\ \A cap \in Allowed, manual \in BOOLEAN :
                  [rows EXCEPT ![i] = [@ EXCEPT !.cap = cap, !.manual = manual]] \in Seq(RowSet)
  <2>1. i \in 1..Len(rows) /\ rows[i] \in RowSet
    BY <1>1
  <2>2. RemoveAt(rows, i) \in Seq(RowSet)
    <3>1. SubSeq(rows, 1, i - 1) \in Seq(RowSet) /\ SubSeq(rows, i + 1, Len(rows)) \in Seq(RowSet)
      BY <1>1, <2>1, SubSeqProperties
    <3> QED BY <3>1, ConcatProperties DEF RemoveAt
  <2>3. ASSUME NEW text \in Words
        PROVE  [rows EXCEPT ![i].text = text] \in Seq(RowSet)
    <3>1. [rows[i] EXCEPT !.text = text] \in RowSet
      BY <2>1 DEF RowSet
    <3> HIDE DEF RowSet
    <3>2. [rows EXCEPT ![i] = [rows[i] EXCEPT !.text = text]] \in Seq(RowSet)
      BY <1>1, <2>1, <3>1
    <3> QED BY <3>2
  <2>4. ASSUME NEW cap \in Allowed, NEW manual \in BOOLEAN
        PROVE  [rows EXCEPT ![i] = [@ EXCEPT !.cap = cap, !.manual = manual]] \in Seq(RowSet)
    <3>1. [rows[i] EXCEPT !.cap = cap, !.manual = manual] \in RowSet
      BY <2>1 DEF RowSet
    <3>2. [rows EXCEPT ![i] = [rows[i] EXCEPT !.cap = cap, !.manual = manual]] \in Seq(RowSet)
      BY <1>1, <2>1, <3>1
    <3> QED BY <3>2
  <2> QED BY <2>2, <2>3, <2>4
<1> QED BY <1>2, <1>3


(* The page divides the total it shows between the rows it shows.           *)
LEMMA ApplyCapsPreserves ==
  ASSUME PageInv, ApplyCaps
  PROVE  PageInv'
<1>1. PageTypes /\ TurnsInv /\ total \in 0..SliderMax /\ Len(rows) \in Nat
  BY SliderAssumption DEF PageInv, PageTypes
<1>2. SplitInv' /\ pot' = total /\ n' = Len(rows)
  BY <1>1, DividePreservesSplit DEF ApplyCaps, Divide
<1>3. PageTypes' /\ TurnsInv'
  BY <1>1 DEF PageTypes, TurnsInv, ApplyCaps, pageVars
<1>4. JobInv'
  BY <1>2 DEF JobInv, ApplyCaps, pageVars
<1>5. LabelInv'
  BY DEF PageInv, LabelInv, ApplyCaps, pageVars
<1> QED BY <1>2, <1>3, <1>4, <1>5 DEF PageInv

(* Neither loop of the division touches what is divided.                    *)
LEMMA SplittingPreserves ==
  ASSUME PageInv, Splitting
  PROVE  PageInv'
<1>1. SplitInv' /\ pot' = pot /\ n' = n
  BY SplitStepPreservesSplit DEF PageInv, Splitting, SplitStep, RoundShare, TakeBack
<1>2. PageTypes' /\ TurnsInv'
  BY DEF PageInv, PageTypes, TurnsInv, Splitting, pageVars
<1>3. JobInv'
  BY <1>1 DEF PageInv, JobInv, Splitting, pageVars
<1>4. LabelInv'
  BY DEF PageInv, LabelInv, Splitting, pageVars
<1> QED BY <1>1, <1>2, <1>3, <1>4 DEF PageInv

(* Finished shares are the sizes a share can have.                          *)
LEMMA FinishedAreAllowed ==
  ASSUME SplitInv, stage = "done"
  PROVE  /\ Len(shares) = n /\ n \in Nat /\ shares \in Seq(Int)
         /\ \A j \in 1..n : shares[j] \in Allowed
<1>1. /\ Len(shares) = n /\ n \in Nat /\ shares \in Seq(Int)
      /\ \A j \in 1..n : shares[j] >= MinBudget
      /\ \A j \in 1..n : shares[j] <= AtLeast(MinBudget, SliderMax)
  BY DEF SplitInv, IInv, TypeInv, DoneInv, Floors, SplitSmall
<1>2. ASSUME NEW j \in 1..n PROVE shares[j] \in Allowed
  <2>1. shares[j] \in Int
    BY <1>1
  <2>2. shares[j] \in Nat
    BY <1>1, <2>1, MinBudgetAssumption
  <2> QED BY <1>1, <2>2 DEF Allowed
<1> QED BY <1>1, <1>2

LEMMA FillCapsPreserves ==
  ASSUME PageInv, FillCaps
  PROVE  PageInv'
<1> DEFINE new(i) == IF rows[i].manual THEN rows[i] ELSE [rows[i] EXCEPT !.cap = shares[i]]
<1>1. /\ SplitInv /\ PageTypes /\ TurnsInv /\ JobInv /\ LabelInv /\ stage = "done" /\ job = "page"
      /\ rows' = [i \in DOMAIN rows |-> new(i)]
      /\ job' = "none"
      /\ UNCHANGED <<splitVars, mode, total, label, asked, plan, sent, turns>>
  BY DEF PageInv, FillCaps
<1>2. /\ rows \in Seq(RowSet) /\ pot = total /\ n = Len(rows) /\ n \in Nat
      /\ \A j \in 1..n : shares[j] \in Allowed
  BY <1>1, FinishedAreAllowed DEF PageTypes, JobInv
<1>3. ASSUME NEW i \in 1..n
      PROVE  new(i) \in RowSet /\ (new(i).manual \/ new(i).cap = shares[i])
  <2>1. rows[i] \in RowSet /\ shares[i] \in Allowed
    BY <1>2
  <2> QED BY <2>1 DEF RowSet
<1>4. DOMAIN rows = 1..n
  BY <1>2
<1> HIDE DEF new
<1>5. rows' \in Seq(RowSet) /\ Len(rows') = n /\ \A i \in 1..n : rows'[i] = new(i)
  <2>1. rows' = [i \in 1..n |-> new(i)]
    BY <1>1, <1>4
  <2> HIDE DEF RowSet
  <2> QED BY <1>2, <1>3, <2>1
<1>6. SplitInv'
  BY <1>1, StutterPreservesSplit
<1>7. PageTypes' /\ TurnsInv'
  BY <1>1, <1>5 DEF PageTypes, TurnsInv
<1>8. JobInv'
  <2>1. DOMAIN rows' = 1..n
    BY <1>2, <1>5
  <2>2. \A i \in DOMAIN rows' : rows'[i].manual \/ rows'[i].cap = shares'[i]
    BY <1>1, <1>3, <1>5, <2>1 DEF splitVars
  <2>3. pot' = total' /\ n' = Len(rows') /\ stage' = "done"
    BY <1>1, <1>2, <1>5 DEF splitVars
  <2> QED BY <1>1, <2>2, <2>3 DEF JobInv
<1>9. LabelInv'
  BY <1>1 DEF LabelInv
<1> QED BY <1>6, <1>7, <1>8, <1>9 DEF PageInv

(* Where the slider can be put it can also be.                              *)
LEMMA MoveSliderPreserves ==
  ASSUME PageInv, MoveSlider
  PROVE  PageInv'
<1>1. total' \in SliderMin..SliderMax /\ label' = total' /\ label' \in Int /\ label' <= SliderMax
  BY SliderAssumption DEF MoveSlider, ToSet
<1>2. JobInv' /\ job' \in {"none", "refresh"}
  BY RefreshSettles DEF PageInv, JobInv, MoveSlider, Editing, splitVars
<1>3. SplitInv' /\ TurnsInv'
  BY StutterPreservesSplit DEF PageInv, TurnsInv, MoveSlider
<1>4. PageTypes'
  BY <1>1, <1>2 DEF PageInv, PageTypes, MoveSlider
<1>5. LabelInv'
  <2>1. label' \in Int /\ label' >= SliderMin /\ label' = total' /\ SliderMin \in Nat
    BY <1>1, SliderAssumption
  <2>3. 2 * (label' - total') = 0
    <3>1. \A x, y \in Int : x = y => 2 * (x - y) = 0
      OBVIOUS
    <3>2. total' \in Int
      BY <2>1
    <3> QED BY <2>1, <3>1, <3>2, Zenon
  <2>2. 0 \in -SliderStep..SliderStep
    BY SliderAssumption
  <2> QED BY <2>1, <2>2, <2>3 DEF LabelInv
<1> QED BY <1>2, <1>3, <1>4, <1>5 DEF PageInv

LEMMA SetModePreserves ==
  ASSUME PageInv, SetMode
  PROVE  PageInv'
<1>1. JobInv' /\ job' \in {"none", "refresh"}
  BY RefreshSettles DEF PageInv, JobInv, SetMode, Editing, splitVars
<1>2. SplitInv' /\ TurnsInv'
  BY StutterPreservesSplit DEF PageInv, TurnsInv, SetMode
<1>3. PageTypes'
  BY <1>1 DEF PageInv, PageTypes, SetMode
<1>4. LabelInv'
  BY DEF PageInv, LabelInv, SetMode
<1> QED BY <1>1, <1>2, <1>3, <1>4 DEF PageInv


LEMMA StepsSaySomething ==
  ASSUME PageTypes
  PROVE  PlanSteps \in Seq(RowSet) /\ Len(PlanSteps) \in Nat
<1>1. rows \in Seq(RowSet) /\ {i \in DOMAIN rows : rows[i].text # Blank} \in SUBSET (1..Len(rows))
  BY DEF PageTypes
<1> HIDE DEF RowSet
<1> QED BY <1>1, SiftedIsSequence DEF PlanSteps

(* What neither edits nor divides leaves the shares as they are shown.      *)
LEMMA SharesKept ==
  ASSUME PageInv, UNCHANGED <<splitVars, job, mode, rows, total, label, plan>>
  PROVE  SplitInv' /\ JobInv' /\ LabelInv'
<1>1. SplitInv'
  BY StutterPreservesSplit DEF PageInv
<1>2. JobInv'
  BY DEF PageInv, JobInv, splitVars
<1>3. LabelInv'
  BY DEF PageInv, LabelInv
<1> QED BY <1>1, <1>2, <1>3

LEMMA AskPreserves ==
  ASSUME PageInv, AskForAPlan
  PROVE  PageInv'
<1>1. SplitInv' /\ JobInv' /\ LabelInv'
  BY SharesKept DEF AskForAPlan
<1>2. asked' \in Plans
  <2> DEFINE wanted == IF PlanSteps = <<>> THEN DefaultSteps ELSE Len(PlanSteps)
  <2>1. wanted \in Nat /\ total \in SliderMin..SliderMax
    BY StepsSaySomething, PlannerAssumption, SliderAssumption DEF PageInv, PageTypes
  <2>2. asked' = [steps |-> AtLeast(2, wanted), total |-> total]
    BY DEF AskForAPlan
  <2> HIDE DEF wanted
  <2>3. AtLeast(2, wanted) \in Nat \ {0, 1}
    BY <2>1 DEF AtLeast
  <2> QED BY <2>1, <2>2, <2>3 DEF Plans
<1>3. PageTypes' /\ TurnsInv'
  BY <1>2 DEF PageInv, PageTypes, TurnsInv, AskForAPlan
<1> QED BY <1>1, <1>3 DEF PageInv

LEMMA PlanFailsPreserves ==
  ASSUME PageInv, PlanFails
  PROVE  PageInv'
<1>1. SplitInv' /\ JobInv' /\ LabelInv'
  BY SharesKept DEF PlanFails
<1>2. PageTypes' /\ TurnsInv'
  BY DEF PageInv, PageTypes, TurnsInv, PlanFails
<1> QED BY <1>1, <1>2 DEF PageInv

(* As many steps are asked for as the planner accepts.                      *)
LEMMA CountIsWithin ==
  ASSUME NEW x \in Int
  PROVE  /\ Clamp(MinSteps, MaxSteps, x) \in MinSteps..MaxSteps
         /\ x \in MinSteps..MaxSteps => Clamp(MinSteps, MaxSteps, x) = x
BY PlannerAssumption DEF Clamp, AtLeast, AtMost

(* A template is squeezed or stretched to the number of steps wanted.       *)
LEMMA TemplateFits ==
  ASSUME NEW shape \in Shapes, NEW count \in MinSteps..MaxSteps
  PROVE  HeuristicPlan(shape, count) \in Seq(Words) /\ Len(HeuristicPlan(shape, count)) = count
<1>1. shape \in Seq(STRING) /\ Len(shape) >= 2 /\ count \in Nat /\ count >= 2
      /\ Clamp(MinSteps, MaxSteps, count) = count
  BY PlannerAssumption, CountIsWithin
<1>2. shape \in Seq(Words)
  BY <1>1 DEF Words
<1> DEFINE middle == Tail(Front(shape))
           more == [i \in 1..(count - 2 - Len(middle)) |-> "carry"]
           chosen == IF count - 2 <= Len(middle) THEN SubSeq(middle, 1, count - 2)
                                                 ELSE middle \o more
<1>3. Front(shape) \in Seq(Words) /\ Len(Front(shape)) = Len(shape) - 1
  <2>1. \A i \in 1..Len(shape) - 1 : shape[i] \in Words
    BY <1>1, <1>2
  <2> HIDE DEF Words
  <2> QED BY <1>1, <1>2, <2>1, SubSeqProperties DEF Front
<1>4. middle \in Seq(Words) /\ Len(middle) = Len(shape) - 2
  <2>1. Front(shape) # <<>>
    BY <1>1, <1>3
  <2> HIDE DEF Words
  <2> QED BY <1>1, <1>3, <2>1, HeadTailProperties
<1>5. chosen \in Seq(Words) /\ Len(chosen) = count - 2
  <2>1. CASE count - 2 <= Len(middle)
    <3>1. \A i \in 1..count - 2 : middle[i] \in Words
      BY <1>1, <1>4, <2>1
    <3> HIDE DEF middle, Words
    <3> QED BY <1>1, <1>4, <2>1, <3>1, SubSeqProperties
  <2>2. CASE ~(count - 2 <= Len(middle))
    <3>1. count - 2 - Len(middle) \in Nat /\ "carry" \in Words
      BY <1>1, <1>4, <2>2 DEF Words
    <3> HIDE DEF middle, Words
    <3>2. more \in Seq(Words) /\ Len(more) = count - 2 - Len(middle)
      BY <3>1
    <3> HIDE DEF more
    <3>3. middle \o more \in Seq(Words) /\ Len(middle \o more) = Len(middle) + Len(more)
      BY <1>4, <3>2, ConcatProperties
    <3> QED BY <1>1, <1>4, <2>2, <3>2, <3>3
  <2> QED BY <2>1, <2>2
<1>6. <<Head(shape)>> \in Seq(Words) /\ <<Last(shape)>> \in Seq(Words)
  <2>1. Head(shape) \in Words /\ Last(shape) \in Words
    BY <1>1, <1>2 DEF Last
  <2> HIDE DEF Words
  <2> QED BY <2>1
<1>7. HeuristicPlan(shape, count) = <<Head(shape)>> \o chosen \o <<Last(shape)>>
  BY <1>1 DEF HeuristicPlan
<1> HIDE DEF chosen, Words
<1>8. <<Head(shape)>> \o chosen \in Seq(Words) /\ Len(<<Head(shape)>> \o chosen) = count - 1
  BY <1>1, <1>5, <1>6, ConcatProperties
<1> DEFINE start == <<Head(shape)>> \o chosen
           end == <<Last(shape)>>
<1>9. start \o end \in Seq(Words) /\ Len(start \o end) = count
  <2>1. start \in Seq(Words) /\ Len(start) = count - 1 /\ end \in Seq(Words) /\ Len(end) = 1
    BY <1>6, <1>8
  <2> HIDE DEF start, end
  <2>2. start \o end \in Seq(Words) /\ Len(start \o end) = Len(start) + Len(end)
    BY <2>1, ConcatProperties
  <2> QED BY <1>1, <2>1, <2>2
<1> QED BY <1>7, <1>9


(* What a model says is read, sifted and cut.                               *)
LEMMA AnswerFits ==
  ASSUME NEW answer \in Answers, NEW count \in Nat
  PROVE  ParsePlan(answer, count) \in Seq(Words) /\ Len(ParsePlan(answer, count)) \in 0..count
<1>1. answer \in Seq(Words)
  <2>1. PICK m \in 0..MaxAnswer : answer \in [1..m -> {Blank, "modelled"}]
    BY DEF Answers, SeqOf
  <2>2. m \in Nat
    BY PlannerAssumption
  <2>3. answer \in Seq({Blank, "modelled"})
    BY <2>1, <2>2
  <2>4. {Blank, "modelled"} \subseteq Words
    BY DEF Words
  <2> HIDE DEF Words
  <2> QED BY <2>3, <2>4
<1> HIDE DEF Words
<1> DEFINE read == SubSeq(answer, 1, AtMost(MaxSteps, Len(answer)))
           places == {i \in DOMAIN read : read[i] # Blank}
           usable == Sifted(read, places)
           parsed == SubSeq(usable, 1, AtMost(count, Len(usable)))
<1>2. read \in Seq(Words)
  <2> DEFINE m == AtMost(MaxSteps, Len(answer))
  <2>1. m \in Nat /\ m <= Len(answer)
    BY <1>1, PlannerAssumption DEF AtMost
  <2> HIDE DEF m
  <2>2. \A i \in 1..m : answer[i] \in Words
    BY <1>1, <2>1
  <2>3. SubSeq(answer, 1, m) \in Seq(Words)
    BY <2>1, <2>2, SubSeqProperties
  <2> QED BY <2>3 DEF m
<1> HIDE DEF read
<1>3. places \in SUBSET (1..Len(read))
  BY <1>2
<1> HIDE DEF places
<1>4. usable \in Seq(Words) /\ Len(usable) \in Nat
  BY <1>2, <1>3, SiftedIsSequence
<1> HIDE DEF usable
<1>5. parsed \in Seq(Words) /\ Len(parsed) \in 0..count
  <2> DEFINE m == AtMost(count, Len(usable))
  <2>1. m \in Nat /\ m <= Len(usable) /\ m <= count
    BY <1>4 DEF AtMost
  <2> HIDE DEF m
  <2>2. \A i \in 1..m : usable[i] \in Words
    BY <1>4, <2>1
  <2>3. SubSeq(usable, 1, m) \in Seq(Words)
        /\ Len(SubSeq(usable, 1, m)) = IF 1 <= m THEN m - 1 + 1 ELSE 0
    BY <2>1, <2>2, SubSeqProperties
  <2> QED BY <2>1, <2>3 DEF m
<1>6. ParsePlan(answer, count) = parsed
  BY DEF ParsePlan, read, places, usable
<1> QED BY <1>5, <1>6

(* The server divides what was asked for between the steps it found.        *)
LEMMA SplitPlanPreserves ==
  ASSUME PageInv, SplitPlan
  PROVE  PageInv'
<1> DEFINE count == Clamp(MinSteps, MaxSteps, asked.steps)
           amount == AtLeast(count * MinBudget, AtMost(MaxTotal, asked.total))
           found(answer, shape) == IF ParsePlan(answer, count) = <<>>
                                   THEN HeuristicPlan(shape, count)
                                   ELSE ParsePlan(answer, count)
<1>1. PageTypes /\ TurnsInv /\ asked \in Plans /\ job' = "server"
      /\ UNCHANGED <<mode, rows, total, label, asked, sent, turns>>
  BY DEF PageInv, PageTypes, SplitPlan
<1>2. asked.steps \in Int /\ asked.total \in SliderMin..SliderMax
  BY <1>1 DEF Plans
<1>3. count \in MinSteps..MaxSteps /\ count \in Nat /\ count >= 2
  <2>1. count \in MinSteps..MaxSteps
    BY <1>2, CountIsWithin, Zenon
  <2> HIDE DEF count
  <2> QED BY <2>1, PlannerAssumption
<1>4. PICK answer \in Answers, shape \in Shapes :
        plan' = found(answer, shape) /\ Divide(amount, Len(found(answer, shape)))
  BY DEF SplitPlan
<1> HIDE DEF count
<1>5. /\ amount \in 0..SliderMax /\ amount >= SliderMin
      /\ count * MinBudget \in Nat /\ amount >= count * MinBudget
  <2>1. count * MinBudget \in Nat /\ count * MinBudget <= SliderMax
    <3>1. \A a, b, c \in Nat : a <= b => a * c \in Nat /\ b * c \in Nat /\ a * c <= b * c
      OBVIOUS
    <3>2. MaxSteps \in Nat /\ count <= MaxSteps
      BY <1>3, PlannerAssumption
    <3> QED BY <1>3, <3>1, <3>2, MinBudgetAssumption, SliderAssumption
  <2>2. asked.total \in Nat /\ SliderMin <= asked.total /\ asked.total <= SliderMax
    BY <1>2, SliderAssumption
  <2>3. \A m, t \in Nat : m <= SliderMax /\ SliderMin <= t /\ t <= SliderMax =>
          /\ AtLeast(m, AtMost(MaxTotal, t)) \in 0..SliderMax
          /\ AtLeast(m, AtMost(MaxTotal, t)) >= SliderMin
          /\ AtLeast(m, AtMost(MaxTotal, t)) >= m
    BY PlannerAssumption, SliderAssumption DEF AtLeast, AtMost
  <2> QED BY <2>1, <2>2, <2>3, Zenon
<1>6. plan' \in Seq(Words) /\ Len(plan') \in 1..count /\ Divide(amount, Len(plan'))
  <2>1. CASE ParsePlan(answer, count) = <<>>
    <3>1. plan' = HeuristicPlan(shape, count)
      BY <1>4, <2>1
    <3> QED BY <1>3, <1>4, <3>1, TemplateFits, PlannerAssumption
  <2>2. CASE ParsePlan(answer, count) # <<>>
    <3>1. plan' = ParsePlan(answer, count) /\ plan' \in Seq(Words) /\ Len(plan') \in 0..count
      BY <1>3, <1>4, <2>2, AnswerFits
    <3> HIDE DEF Words
    <3>2. Len(plan') # 0
      BY <2>2, <3>1
    <3> QED BY <1>3, <1>4, <3>1, <3>2, PlannerAssumption
  <2> QED BY <2>1, <2>2
<1> HIDE DEF amount
<1>7. SplitInv' /\ n' = Len(plan')
  <2>1. Len(plan') \in Nat
    BY <1>3, <1>6
  <2> QED BY <1>5, <1>6, <2>1, DividePreservesSplit DEF Divide
<1>10. /\ Len(plan') \in 1..MaxSteps
       /\ pot' >= SliderMin /\ pot' >= n' * MinBudget
  <2>1. \A a, b, c \in Nat : a <= b => a * c \in Nat /\ a * c <= b * c
    OBVIOUS
  <2>2. Len(plan') \in Nat /\ Len(plan') <= count
    BY <1>3, <1>6
  <2>3. Len(plan') * MinBudget \in Nat /\ Len(plan') * MinBudget <= count * MinBudget
    BY <1>3, <2>1, <2>2, MinBudgetAssumption
  <2>4. pot' = amount
    BY <1>6 DEF Divide
  <2>5. Len(plan') \in 1..MaxSteps
    BY <1>3, <1>6, PlannerAssumption
  <2> QED BY <1>5, <1>7, <2>3, <2>4, <2>5, SliderAssumption
<1>11. LabelInv'
  BY <1>1 DEF PageInv, LabelInv
<1>8. PageTypes' /\ TurnsInv'
  BY <1>1, <1>6 DEF PageTypes, TurnsInv
<1>9. JobInv'
  BY <1>1, <1>7, <1>10 DEF JobInv
<1> QED BY <1>7, <1>8, <1>9, <1>11 DEF PageInv

(* A total is put where the slider can stand.                               *)
LEMMA SnappedIsOnSlider ==
  ASSUME NEW x \in Int
  PROVE  Snapped(x) \in SliderMin..SliderMax
<1> USE SliderAssumption
<1> DEFINE span == SliderMax - SliderMin
           d == Clamp(SliderMin, SliderMax, x) - SliderMin
           q == (2 * d + SliderStep) \div (2 * SliderStep)
<1>1. span \in Nat /\ d \in 0..span
  BY DEF Clamp, AtLeast, AtMost
<1>2. PICK c \in Nat : span = SliderStep * c
  <2>1. ASSUME NEW a \in Nat, NEW b \in Nat \ {0}, a % b = 0
        PROVE  a \div b \in Nat /\ a = b * (a \div b)
    BY ONLY <2>1
  <2> QED BY <1>1, <2>1
<1> HIDE DEF span, d
<1>3. q \in Int /\ 2 * SliderStep * q <= 2 * d + SliderStep
      /\ 2 * d + SliderStep < 2 * SliderStep * q + 2 * SliderStep
  <2>1. \A a \in Int, b \in Nat \ {0} :
          a \div b \in Int /\ b * (a \div b) <= a /\ a < b * (a \div b) + b
    OBVIOUS
  <2>2. 2 * SliderStep \in Nat \ {0} /\ 2 * d + SliderStep \in Int
    BY <1>1
  <2> QED BY <2>1, <2>2
<1> HIDE DEF q
<1>4. 0 <= q /\ q <= c
  <2>1. \A a \in Nat \ {0}, b, e \in Int : a * b < a * (e + 1) => b <= e
    OBVIOUS
  <2>2. \A a, b \in Int : 2 * a * b = 2 * (a * b)
    OBVIOUS
  <2>3. SliderStep * q \in Int /\ 2 * SliderStep * q = 2 * (SliderStep * q)
    BY <1>3, <2>2
  <2>4. \A a, b \in Int : a * (b + 1) = a * b + a
    OBVIOUS
  <2>5. SliderStep * (c + 1) = SliderStep * c + SliderStep
        /\ SliderStep * (q + 1) = SliderStep * q + SliderStep
        /\ SliderStep * c \in Int /\ SliderStep * 0 = 0
    BY <1>2, <1>3, <2>4
  <2>6. SliderStep * q < SliderStep * (c + 1) /\ SliderStep * 0 < SliderStep * (q + 1)
    BY <1>1, <1>2, <1>3, <2>3, <2>5
  <2>7. q <= c /\ 0 <= q
    BY <1>3, <2>1, <2>6
  <2> QED BY <2>7
<1>5. SliderStep * q \in 0..span
  <2>1. \A a \in Nat, b, e \in Int : b <= e => a * b <= a * e
    OBVIOUS
  <2>2. SliderStep * 0 <= SliderStep * q /\ SliderStep * q <= SliderStep * c
    BY <1>3, <1>4, <2>1
  <2>3. SliderStep * q \in Int /\ SliderStep * 0 = 0
    BY <1>3
  <2> QED BY <1>2, <2>2, <2>3
<1>6. Snapped(x) = SliderMin + SliderStep * q
  BY DEF Snapped, q, d
<1> QED BY <1>5, <1>6 DEF span


(* Where it stands is the nearest place, or the first for what is below it. *)
LEMMA SnappedIsNear ==
  ASSUME NEW x \in Int, x <= SliderMax
  PROVE  /\ x >= SliderMin => 2 * (x - Snapped(x)) \in -SliderStep..SliderStep
         /\ x < SliderMin => Snapped(x) = SliderMin
<1> USE SliderAssumption
<1> DEFINE d == Clamp(SliderMin, SliderMax, x) - SliderMin
           q == (2 * d + SliderStep) \div (2 * SliderStep)
<1>1. Snapped(x) = SliderMin + SliderStep * q
  BY DEF Snapped
<1>2. d = IF x < SliderMin THEN 0 ELSE x - SliderMin
  BY DEF Clamp, AtLeast, AtMost
<1>3. d \in Nat
  BY <1>2
<1> HIDE DEF d
<1>4. q \in Int /\ 2 * SliderStep * q <= 2 * d + SliderStep
      /\ 2 * d + SliderStep < 2 * SliderStep * q + 2 * SliderStep
  <2>1. \A a \in Int, b \in Nat \ {0} :
          a \div b \in Int /\ b * (a \div b) <= a /\ a < b * (a \div b) + b
    OBVIOUS
  <2>2. 2 * SliderStep \in Nat \ {0} /\ 2 * d + SliderStep \in Int
    BY <1>3
  <2> QED BY <2>1, <2>2
<1>5. d = 0 => q = 0
  <2>1. \A b \in Nat \ {0} : (2 * 0 + b) \div (2 * b) = 0
    <3> SUFFICES ASSUME NEW b \in Nat \ {0} PROVE (2 * 0 + b) \div (2 * b) = 0
      OBVIOUS
    <3>1. \A a, c \in Nat : a < c => a \div c = 0
      OBVIOUS
    <3> QED BY <3>1
  <2> QED BY <2>1
<1> HIDE DEF q
<1>6. SliderStep * q \in Int /\ 2 * SliderStep * q = 2 * (SliderStep * q) /\ SliderStep * 0 = 0
  BY <1>4
<1>7. CASE x >= SliderMin
  <2>1. 2 * (x - Snapped(x)) = 2 * d - 2 * (SliderStep * q)
    BY <1>1, <1>2, <1>6, <1>7
  <2> QED BY <1>3, <1>4, <1>6, <1>7, <2>1
<1>8. CASE x < SliderMin
  BY <1>1, <1>2, <1>5, <1>6, <1>8
<1> QED BY <1>7, <1>8

(* What the shares of an answer add up to: its total, which is one of the   *)
(* slider, or half a grain a step less.                                     *)
LEMMA AnswerAddsUp ==
  ASSUME PageInv, job = "server", stage = "done"
  PROVE  /\ Sum(shares) \in Int /\ Sum(shares) <= SliderMax
         /\ 2 * (SliderMin - Sum(shares)) <= MaxSteps * Grain
<1>1. /\ IInv /\ FairInv /\ SplitSmall /\ n \in 1..MaxSteps
      /\ pot >= SliderMin /\ pot >= n * MinBudget
  BY DEF PageInv, SplitInv, JobInv
<1>2. /\ n \in Nat /\ n >= 1 /\ n <= MaxSteps /\ MaxSteps \in Nat
      /\ pot \in Nat /\ over \in Int /\ pot <= SliderMax /\ SliderMin \in Nat
      /\ shares \in Seq(Int) /\ AddUpTo(shares, Len(shares), pot + over)
      /\ over > 0 => pot + over = n * MinBudget
      /\ 2 * over + n * Grain >= 0
  BY <1>1, PlannerAssumption, SliderAssumption
     DEF IInv, TypeInv, DoneInv, FairInv, TakingFair, SplitSmall
<1>3. Sum(shares) = pot + over
  <2>1. pot + over \in Int
    BY <1>2
  <2> QED BY <1>2, <2>1, SumIsUnique
<1>4. over <= 0
  <2>1. n * MinBudget \in Int
    BY <1>2, MinBudgetAssumption
  <2> QED BY <1>1, <1>2, <2>1
<1>5. n * Grain \in Nat /\ MaxSteps * Grain \in Nat /\ n * Grain <= MaxSteps * Grain
  <2>1. \A a, b, c \in Nat : a <= b => a * c \in Nat /\ b * c \in Nat /\ a * c <= b * c
    OBVIOUS
  <2> QED BY <1>2, <2>1, GrainAssumption
<1>6. pot + over \in Int /\ pot + over <= SliderMax
  BY <1>2, <1>4, SliderAssumption
<1>7. 2 * (SliderMin - (pot + over)) <= MaxSteps * Grain
  BY <1>1, <1>2, <1>5
<1> QED BY <1>3, <1>6, <1>7

(* The rows that arrive are the server's steps and shares.                  *)
LEMMA PlanArrivesPreserves ==
  ASSUME PageInv, PlanArrives
  PROVE  PageInv'
<1>1. /\ SplitInv /\ PageTypes /\ TurnsInv /\ stage = "done" /\ job = "server" /\ n = Len(plan)
      /\ plan \in Seq(Words)
      /\ rows' = [i \in DOMAIN plan |-> Row(plan[i], shares[i])]
      /\ label' = Sum(shares) /\ total' = Snapped(label') /\ asked' = NoPlan /\ plan' = <<>>
      /\ UNCHANGED <<splitVars, mode, sent, turns>>
  BY DEF PageInv, PageTypes, JobInv, PlanArrives
<1>2. rows' \in Seq(RowSet)
  <2>1. n \in Nat /\ DOMAIN plan = 1..n
    BY <1>1, FinishedAreAllowed
  <2>2. ASSUME NEW i \in 1..n PROVE Row(plan[i], shares[i]) \in RowSet
    <3>1. plan[i] \in Words /\ shares[i] \in Allowed
      BY <1>1, <2>1, FinishedAreAllowed
    <3> QED BY <3>1 DEF Row, RowSet
  <2> HIDE DEF RowSet
  <2> QED BY <1>1, <2>1, <2>2
<1>3. /\ label' \in Int /\ label' <= SliderMax
      /\ 2 * (SliderMin - label') <= MaxSteps * Grain
  BY <1>1, AnswerAddsUp
<1>7. total' \in SliderMin..SliderMax
  BY <1>1, <1>3, SnappedIsOnSlider
<1>8. LabelInv'
  <2>1. /\ label' >= SliderMin => 2 * (label' - total') \in -SliderStep..SliderStep
        /\ label' < SliderMin => total' = SliderMin
    BY <1>1, <1>3, SnappedIsNear
  <2> QED BY <1>3, <2>1, SliderAssumption DEF LabelInv
<1>4. JobInv' /\ job' \in {"none", "refresh"}
  BY <1>1, RefreshSettles DEF PlanArrives, splitVars
<1>5. SplitInv' /\ TurnsInv'
  BY <1>1, StutterPreservesSplit DEF TurnsInv
<1>6. PageTypes'
  BY <1>1, <1>2, <1>3, <1>4, <1>7 DEF PageTypes
<1> QED BY <1>4, <1>5, <1>6, <1>8 DEF PageInv

(* A run is sent a share for each of its steps, or none.                    *)
LEMMA BodyIsRequest ==
  ASSUME PageTypes, NEW flat \in FlatBudgets, NEW standIn \in BOOLEAN
  PROVE  BuildRunBody(flat, standIn) \in Requests
<1> DEFINE steps == PlanSteps
<1>1. steps \in Seq(RowSet) /\ Len(steps) \in Nat
  BY StepsSaySomething
<1> HIDE DEF steps
<1>2. \A i \in 1..Len(steps) : steps[i].text \in Words /\ steps[i].cap \in Nat
  <2>1. \A i \in 1..Len(steps) : steps[i] \in RowSet
    BY <1>1
  <2> QED BY <2>1 DEF RowSet, Allowed
<1>3. DOMAIN steps = 1..Len(steps)
  BY <1>1
<1>4. Texts(steps) \in Seq(Words) /\ Len(Texts(steps)) = Len(steps)
  <2> HIDE DEF Words
  <2> QED BY <1>1, <1>2, <1>3 DEF Texts
<1>5. Caps(steps) \in Seq(Nat) /\ Len(Caps(steps)) = Len(steps)
  BY <1>1, <1>2, <1>3 DEF Caps
<1>6. mode \in {"one", "seq"} /\ NumWorkers \in Nat
  BY PlannerAssumption DEF PageTypes
<1> HIDE DEF Words
<1>7. BuildRunBody(flat, standIn) =
        [plan |-> Texts(steps), budgets |-> IF mode = "one" THEN Caps(steps) ELSE <<>>,
         budget |-> flat, workers |-> IF standIn THEN NumWorkers ELSE Len(steps),
         mode |-> mode]
  BY DEF BuildRunBody, steps
<1>8. CASE mode = "one"
  BY <1>1, <1>4, <1>5, <1>6, <1>7, <1>8 DEF Requests
<1>9. CASE mode = "seq"
  <2>1. <<>> \in Seq(Nat)
    OBVIOUS
  <2> QED BY <1>1, <1>4, <1>6, <1>7, <1>9, <2>1 DEF Requests
<1> QED BY <1>6, <1>8, <1>9

LEMMA RunPreserves ==
  ASSUME PageInv, Run
  PROVE  PageInv'
<1>1. SplitInv' /\ JobInv' /\ LabelInv'
  BY SharesKept DEF Run
<1>2. sent' \in Requests
  BY BodyIsRequest DEF PageInv, Run
<1>3. PageTypes' /\ TurnsInv'
  BY <1>2 DEF PageInv, PageTypes, TurnsInv, Run
<1> QED BY <1>1, <1>3 DEF PageInv

LEMMA PreparePreserves ==
  ASSUME PageInv, Prepare
  PROVE  PageInv'
<1>1. SplitInv' /\ JobInv' /\ LabelInv'
  BY SharesKept DEF Prepare
<1>2. sent \in Requests /\ turns' = TurnsOf(sent) /\ sent' = sent
  BY DEF PageInv, PageTypes, Prepare, TurnsOf
<1>3. PageTypes' /\ TurnsInv'
  BY <1>2 DEF PageInv, PageTypes, TurnsInv, Prepare
<1> QED BY <1>1, <1>3 DEF PageInv

(* Each edit of the rows makes of them one of EditedRows.                   *)
LEMMA RowEditsPreserve ==
  ASSUME PageInv, AddStep \/ RemoveStep \/ Type \/ TypeCap \/ ClearCap
  PROVE  PageInv'
<1> SUFFICES \E new \in Seq(RowSet) : EditRows(new) /\ job = "none" /\ Refresh
  BY EditPreserves
<1>1. PageTypes
  BY DEF PageInv
<1> HIDE DEF RowSet, Words
<1>2. CASE AddStep
  BY <1>1, <1>2, EditedRows DEF AddStep, Editing
<1>3. CASE RemoveStep
  BY <1>1, <1>3, EditedRows DEF RemoveStep, Editing
<1>4. CASE Type
  <2>1. PICK i \in DOMAIN rows :
          EditRows([rows EXCEPT ![i].text = IF @ = Blank THEN "written" ELSE Blank])
    BY <1>4 DEF Type
  <2> DEFINE text == IF rows[i].text = Blank THEN "written" ELSE Blank
             new == [rows EXCEPT ![i].text = text]
  <2>2. text \in Words
    BY DEF Words
  <2> HIDE DEF text
  <2>3. new \in Seq(RowSet)
    BY <1>1, <2>2, EditedRows
  <2>4. EditRows(new)
    BY <2>1 DEF text
  <2> HIDE DEF new
  <2> QED BY <1>4, <2>3, <2>4 DEF Type, Editing
<1>5. CASE TypeCap
  <2>1. PICK i \in DOMAIN rows, cap \in Typed :
          EditRows([rows EXCEPT ![i] = [@ EXCEPT !.cap = cap, !.manual = TRUE]])
    BY <1>5 DEF TypeCap
  <2>2. cap \in Allowed
    BY PlannerAssumption DEF Allowed
  <2>3. [rows EXCEPT ![i] = [@ EXCEPT !.cap = cap, !.manual = TRUE]] \in Seq(RowSet)
    BY <1>1, <2>2, EditedRows
  <2> QED BY <1>5, <2>1, <2>3 DEF TypeCap, Editing
<1>6. CASE ClearCap
  <2>1. PICK i \in DOMAIN rows :
          EditRows([rows EXCEPT ![i] = [@ EXCEPT !.cap = 0, !.manual = FALSE]])
    BY <1>6 DEF ClearCap
  <2>2. [rows EXCEPT ![i] = [@ EXCEPT !.cap = 0, !.manual = FALSE]] \in Seq(RowSet)
    BY <1>1, NothingAllowed, EditedRows
  <2> QED BY <1>6, <2>1, <2>2 DEF ClearCap, Editing
<1> QED BY <1>2, <1>3, <1>4, <1>5, <1>6

LEMMA PageStutter ==
  ASSUME PageInv, UNCHANGED vars
  PROVE  PageInv'
<1>1. SplitInv' /\ JobInv' /\ LabelInv'
  BY SharesKept DEF vars, pageVars
<1>2. PageTypes' /\ TurnsInv'
  BY DEF PageInv, PageTypes, TurnsInv, vars, pageVars
<1> QED BY <1>1, <1>2 DEF PageInv

LEMMA PageInvariant == Spec => []PageInv
<1>1. ASSUME PageInv, [Next]_vars PROVE PageInv'
  <2>1. ASSUME Next PROVE PageInv'
    BY <1>1, <2>1, ApplyCapsPreserves, SplittingPreserves, FillCapsPreserves,
       RowEditsPreserve, MoveSliderPreserves, SetModePreserves, AskPreserves,
       PlanFailsPreserves, SplitPlanPreserves, PlanArrivesPreserves,
       RunPreserves, PreparePreserves DEF Next
  <2> QED BY <1>1, <2>1, PageStutter
<1> QED BY <1>1, StartIsSound, PTL DEF Spec


(* Plans keep to the planner's limits and no share exceeds what was typed   *)
(* or the slider can give, whatever is edited, answered and refreshed.      *)
THEOREM PlansKeepToLimits == Spec => []TypeOK
<1>1. PageInv => TypeOK
  <2> SUFFICES ASSUME PageInv PROVE TypeOK
    OBVIOUS
  <2>1. PageTypes /\ JobInv
    BY DEF PageInv
  <2>2. \A i \in DOMAIN rows :
          rows[i].cap \in Typed \/ rows[i].cap \in 0..AtLeast(MinBudget, SliderMax)
    <3>1. AtLeast(MinBudget, SliderMax) \in Int
      BY MinBudgetAssumption, SliderAssumption DEF AtLeast
    <3>2. ASSUME NEW i \in DOMAIN rows PROVE rows[i].cap \in Allowed
      <4>1. rows[i] \in RowSet
        BY <2>1 DEF PageTypes
      <4> QED BY <4>1 DEF RowSet
    <3> QED BY <3>1, <3>2 DEF Allowed
  <2>3. asked # NoPlan => asked.steps >= 2
    <3>1. ASSUME asked \in Plans PROVE asked.steps >= 2
      BY <3>1 DEF Plans
    <3> QED BY <2>1, <3>1 DEF PageTypes
  <2> QED BY <2>1, <2>2, <2>3 DEF TypeOK, PageTypes, JobInv
<1> QED BY <1>1, PageInvariant, PTL

(* Between edits the page shows, and a run is sent, the division of the     *)
(* total its slider stands at between the rows shown.  What is written      *)
(* beside the slider may be another total after a plan arrived, by half a   *)
(* step of the slider at most, or by what rounding lost where it begins     *)
(* (setup.js, askForAPlan).                                                 *)
THEOREM ShownSharesAreCurrent == Spec => []ShownSharesCurrent
<1>1. PageInv => ShownSharesCurrent
  BY DEF PageInv, JobInv, LabelInv, ShownSharesCurrent
<1> QED BY <1>1, PageInvariant, PTL

(* Tasks are the steps, and what is left to say to workers beyond them.     *)
LEMMA TasksCoverPlan ==
  ASSUME NEW steps \in Seq(Words), NEW workers \in Nat
  PROVE  /\ Assigned(steps, workers) \in Seq(Words)
         /\ Len(Assigned(steps, workers)) >= workers
         /\ IsPrefix(steps, Assigned(steps, workers))
<1> DEFINE m == AtLeast(0, workers - Len(steps))
           more == [i \in 1..m |-> "continue"]
<1>1. Len(steps) \in Nat /\ m \in Nat /\ Len(steps) + m >= workers
  BY DEF AtLeast
<1> HIDE DEF m
<1>2. more \in Seq(Words) /\ Len(more) = m
  BY <1>1 DEF Words
<1> HIDE DEF more, Words
<1>3. /\ steps \o more \in Seq(Words) /\ Len(steps \o more) = Len(steps) + m
      /\ \A i \in 1..Len(steps) : (steps \o more)[i] = steps[i]
  <2>1. /\ steps \o more \in Seq(Words) /\ Len(steps \o more) = Len(steps) + Len(more)
        /\ \A i \in 1..Len(steps) + Len(more) :
             (steps \o more)[i] = IF i <= Len(steps) THEN steps[i] ELSE more[i - Len(steps)]
    BY <1>2, ConcatProperties
  <2> QED BY <1>1, <1>2, <2>1
<1> DEFINE tasks == steps \o more
<1>4. Assigned(steps, workers) = tasks
  BY DEF Assigned, more, m
<1>5. tasks \in Seq(Words) /\ Len(tasks) = Len(steps) + m
      /\ \A i \in 1..Len(steps) : tasks[i] = steps[i]
  BY <1>3
<1> HIDE DEF tasks
<1>6. SubSeq(steps, 1, Len(steps)) = SubSeq(tasks, 1, Len(steps))
  BY <1>1, <1>5
<1>7. Len(steps) <= Len(tasks)
  BY <1>1, <1>5
<1> QED BY <1>1, <1>4, <1>5, <1>6, <1>7 DEF IsPrefix

(* Whatever was planned, edited, retyped or typed over, each step that says *)
(* something becomes the turn of its place with the share shown beside it.  *)
THEOREM TurnsGetTheirShares == Spec => []TurnsGetTheirShare
<1>1. PageInv => TurnsGetTheirShare
  <2> SUFFICES ASSUME PageInv, turns # <<>> PROVE TurnsGetTheirShare
    BY DEF TurnsGetTheirShare
  <2> DEFINE tasks == Assigned(sent.plan, sent.workers)
             ceilings == StepBudgets(sent.budgets)
             turn(i) == [task |-> tasks[i],
                         ceiling |-> IF i \in DOMAIN ceilings THEN ceilings[i]
                                                              ELSE sent.budget]
  <2>1. sent \in Requests /\ turns = [i \in DOMAIN tasks |-> turn(i)]
    BY DEF PageInv, TurnsInv, TurnsOf
  <2>2. /\ sent.plan \in Seq(Words) /\ sent.workers \in Nat /\ sent.budgets \in Seq(Nat)
        /\ sent.mode = "one" => Len(sent.budgets) = Len(sent.plan)
        /\ sent.mode # "one" => sent.budgets = <<>>
    BY <2>1 DEF Requests
  <2>3. tasks \in Seq(Words) /\ Len(tasks) >= sent.workers /\ IsPrefix(sent.plan, tasks)
    BY <2>2, TasksCoverPlan
  <2> HIDE DEF tasks, Words
  <2>4. DOMAIN turns = 1..Len(tasks) /\ DOMAIN tasks = 1..Len(tasks)
        /\ Len(tasks) \in Nat /\ Len(turns) = Len(tasks)
    <3>1. DOMAIN tasks = 1..Len(tasks) /\ Len(tasks) \in Nat
      BY <2>3
    <3> HIDE DEF turn
    <3>2. turns = [i \in 1..Len(tasks) |-> turn(i)]
      BY <2>1, <3>1
    <3> QED BY <3>1, <3>2
  <2>5. [i \in DOMAIN turns |-> turns[i].task] = tasks
    <3>1. \A i \in DOMAIN tasks : turns[i].task = tasks[i]
      BY <2>1
    <3>2. tasks = [i \in DOMAIN tasks |-> tasks[i]]
      BY <2>3
    <3> QED BY <2>4, <3>1, <3>2
  <2>6. ASSUME NEW i \in DOMAIN turns PROVE turns[i].ceiling = ShareOf(i)
    <3>1. turns[i].ceiling = IF i \in DOMAIN ceilings THEN ceilings[i] ELSE sent.budget
      BY <2>1, <2>4
    <3>2. DOMAIN ceilings = {j \in DOMAIN sent.budgets : sent.budgets[j] # 0}
          /\ \A j \in DOMAIN ceilings : ceilings[j] = AtLeast(MinBudget, sent.budgets[j])
      BY DEF StepBudgets
    <3> HIDE DEF ceilings
    <3>3. CASE sent.mode = "one"
      <4>1. DOMAIN sent.budgets = DOMAIN sent.plan
        BY <2>2, <3>3
      <4> QED BY <3>1, <3>2, <3>3, <4>1 DEF ShareOf
    <3>4. CASE sent.mode # "one"
      <4>1. DOMAIN sent.budgets = {}
        BY <2>2, <3>4
      <4> QED BY <3>1, <3>2, <3>4, <4>1 DEF ShareOf
    <3> QED BY <3>3, <3>4
  <2> QED BY <2>3, <2>4, <2>5, <2>6 DEF TurnsGetTheirShare
<1> QED BY <1>1, PageInvariant, PTL

(* Every division of the page and of the server, through all edits, is one  *)
(* of split_budget: begun only when none is going on, run to its end one    *)
(* iteration at a time, and left alone by everything else.                  *)
THEOREM PageImplementsSplit == Spec => SplitSpec
<1>1. Init => SplitInit
  BY DEF Init
<1>2. ASSUME PageInv, [Next]_vars PROVE [SplitNext]_splitVars
  <2>1. PageTypes /\ JobInv
    BY <1>2 DEF PageInv
  <2>2. CASE ApplyCaps
    <3>1. stage \in {"idle", "done"} /\ total \in Nat /\ Len(rows) \in Nat
      BY <2>1, <2>2, SliderAssumption DEF ApplyCaps, JobInv, PageTypes
    <3> QED BY <2>2, <3>1 DEF ApplyCaps, SplitNext
  <2>3. CASE Splitting
    BY <2>3 DEF Splitting, SplitNext
  <2>4. CASE SplitPlan
    <3> DEFINE count == Clamp(MinSteps, MaxSteps, asked.steps)
               amount == AtLeast(count * MinBudget, AtMost(MaxTotal, asked.total))
    <3>1. stage \in {"idle", "done"} /\ asked \in Plans
      BY <2>1, <2>4 DEF SplitPlan, JobInv, PageTypes
    <3>2. asked.steps \in Int /\ asked.total \in Nat
      BY <3>1, SliderAssumption DEF Plans
    <3>3. count \in Nat
      <4>1. count \in MinSteps..MaxSteps
        BY <3>2, CountIsWithin, Zenon
      <4> HIDE DEF count
      <4> QED BY <4>1, PlannerAssumption
    <3>4. \E steps : plan' = steps /\ Divide(amount, Len(steps))
      BY <2>4 DEF SplitPlan
    <3> HIDE DEF count
    <3>5. amount \in Nat
      <4>1. count * MinBudget \in Nat
        BY <3>3, MinBudgetAssumption
      <4> QED BY <3>2, <4>1, PlannerAssumption DEF AtLeast, AtMost
    <3> HIDE DEF amount
    <3>6. PageInv' /\ job' = "server"
      BY <1>2, <2>4, SplitPlanPreserves DEF SplitPlan
    <3>7. Len(plan') \in Nat
      BY <3>6 DEF PageInv, PageTypes
    <3> QED BY <3>1, <3>4, <3>5, <3>7 DEF SplitNext
  <2>5. CASE UNCHANGED vars
    BY <2>5 DEF vars
  <2>6. ASSUME Next, ~ApplyCaps, ~Splitting, ~SplitPlan PROVE UNCHANGED splitVars
    BY <2>6 DEF Next, FillCaps, AddStep, RemoveStep, Type, TypeCap, ClearCap, MoveSlider,
       SetMode, AskForAPlan, PlanFails, PlanArrives, Run, Prepare, EditRows
  <2> QED BY <1>2, <2>2, <2>3, <2>4, <2>5, <2>6
<1> QED BY <1>1, <1>2, PageInvariant, PTL DEF Spec, SplitSpec

(* What is true of every division is true of the page's and the server's.   *)
THEOREM PageSharesWithinTotal == Spec => []SharesWithinTotal
BY PageImplementsSplit, SharesStayWithinTotal

THEOREM PageSharesAreFair == Spec => []FairShares
BY PageImplementsSplit, SharesAreFair
=============================================================================
