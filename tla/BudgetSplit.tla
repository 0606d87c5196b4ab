----------------------------- MODULE BudgetSplit -----------------------------
(***************************************************************************)
(* split_budget (core/planner.py) and the page's copy of it, splitTotal    *)
(* (web/static/js/setup.js): a total of tokens is divided between the      *)
(* steps of a plan, one iteration of its two loops at a time.              *)
(*                                                                         *)
(* Step k of n weighs 1 + (k-1)/(n-1), all of them 3n/2, and a share is    *)
(* rounded to a multiple of Grain.  The arithmetic of the code is in       *)
(* floating point: half way between two multiples the server rounds to the *)
(* even one, the page up, and an inexact product may fall on either side,  *)
(* so that a tie goes either way.                                          *)
(***************************************************************************)
EXTENDS Integers, Sequences

CONSTANTS
  MinBudget,  \* the least a step may be told
  Grain       \* shares are multiples of this, the minimum apart

ASSUME MinBudgetAssumption == MinBudget \in Nat
ASSUME GrainAssumption == Grain \in Nat \ {0}

VARIABLES
  stage,   \* idle, rounding, taking or done
  pot,     \* the total to divide
  n,       \* among how many steps
  k,       \* the step the loop is at
  shares,  \* the shares so far
  over     \* their sum, less the total

splitVars == <<stage, pot, n, k, shares, over>>

SplitInit ==
  /\ stage = "idle"
  /\ pot = 0 /\ n = 0 /\ k = 0 /\ over = 0
  /\ shares = <<>>

AtLeast(bound, x) == IF x < bound THEN bound ELSE x
AtMost(bound, x) == IF x > bound THEN bound ELSE x

(* Deviation: rounded down. *)
RoundedDown(num, den) == {num \div den}

(* round(num / den), both ways at a tie. *)
Rounded(num, den) ==
  {r \in {num \div den, num \div den + 1} : 2 * r * den - 2 * num \in (-den)..den}

(* The rounded share of step j of m, in multiples of Grain. *)
Multiples(total, m, j) ==
  Rounded(2 * total * (m - 2 + j), 3 * Grain * m * (m - 1))

(* No step has no share, a single one has all. *)
Divide(total, m) ==
  /\ pot' = total /\ n' = m /\ k' = 1
  /\ stage' = IF m <= 1 THEN "done" ELSE "rounding"
  /\ shares' = IF m = 1 THEN <<AtLeast(MinBudget, total)>> ELSE <<>>
  /\ over' = IF m = 1 THEN AtLeast(MinBudget, total) - total ELSE -total

(* One more share; the last one ends the sum of them all. *)
RoundShare ==
  /\ stage = "rounding"
  /\ \E r \in Multiples(pot, n, k) :
       LET share == AtLeast(MinBudget, r * Grain) IN
       /\ shares' = Append(shares, share)
       /\ over' = over + share
  /\ k' = IF k = n THEN n ELSE k + 1
  /\ stage' = IF k = n THEN "taking" ELSE "rounding"
  /\ UNCHANGED <<pot, n>>

(* Deviation: the share pays all that is over, whatever it leaves. *)
TakeBackAll ==
  /\ stage = "taking"
  /\ IF over > 0 /\ k >= 1
       THEN /\ shares' = [shares EXCEPT ![k] = @ - over]
            /\ over' = 0
            /\ k' = k - 1
            /\ UNCHANGED stage
       ELSE /\ stage' = "done"
            /\ UNCHANGED <<k, shares, over>>
  /\ UNCHANGED <<pot, n>>

(* What is over is taken off the shares, from the last one on, none of them *)
(* below the minimum.                                                       *)
TakeBack ==
  /\ stage = "taking"
  /\ IF over > 0 /\ k >= 1
       THEN LET take == AtMost(over, shares[k] - MinBudget) IN
            /\ shares' = [shares EXCEPT ![k] = @ - take]
            /\ over' = over - take
            /\ k' = k - 1
            /\ UNCHANGED stage
       ELSE /\ stage' = "done"
            /\ UNCHANGED <<k, shares, over>>
  /\ UNCHANGED <<pot, n>>

SplitStep == RoundShare \/ TakeBack

(* Any total, any number of steps, once or again. *)
SplitNext ==
  \/ stage \in {"idle", "done"} /\ \E total, m \in Nat : Divide(total, m)
  \/ SplitStep

SplitSpec == SplitInit /\ [][SplitNext]_splitVars

(***************************************************************************)
(* Properties                                                              *)
(***************************************************************************)

(* No step is left with less than the minimum, and if the total has room    *)
(* for that minimum the shares do not exceed it, rounding and minimum       *)
(* notwithstanding.                                                         *)
SharesWithinTotal ==
  stage = "done" =>
    /\ \A j \in 1..n : shares[j] >= MinBudget
    /\ n >= 1 /\ pot >= n * MinBudget => over <= 0
=============================================================================
