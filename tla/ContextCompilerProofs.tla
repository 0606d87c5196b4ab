----------------------- MODULE ContextCompilerProofs -----------------------
(***************************************************************************)
(* Proofs about ContextCompiler, for every number of sections, titles,     *)
(* caps, budgets and texts.                                                *)
(*                                                                         *)
(* What a package may cost is not inductive alone: it depends on how much  *)
(* the first required section may have cost before the second one is       *)
(* added, on nothing optional being in the package by then (Spent), and on *)
(* a section under way having a line.                                      *)
(* What the ranking keeps follows from counting what goes before an item   *)
(* (RanksAreTaken), and is carried to the package by Ranked.               *)
(***************************************************************************)
EXTENDS ContextCompiler, FiniteSetTheorems, FunctionTheorems, TLAPS

(* The cost by the section under way. *)
Spent ==
  /\ key = 1 => length = 0 /\ forced \subseteq {1} /\ unfit = {}
  /\ key <= 2 =>
       /\ Tokens(length) <= IF 1 \in unfit THEN Tokens(Shortest(1)) ELSE budget
       /\ 2 \notin unfit
       /\ \A k \in Keys \ Required : package[k] = {}
  /\ key > 2 => phase # "shorten"

(* A section that is filled has a line, one that is shortened is forced. *)
UnderWay ==
  /\ phase \in {"fit", "shorten"} => body # <<>>
  /\ phase = "shorten" => key \in forced

IInv == TypeOK /\ UnderWay /\ Spent /\ SpendingBounded

(***************************************************************************)
(* Types and arithmetic                                                    *)
(***************************************************************************)

(* Tokens are natural, monotone, and lose at most one by a blank line. *)
LEMMA TokensGrow ==
  \A a, b \in Nat : /\ Tokens(a) \in Nat
                    /\ a <= b => Tokens(a) <= Tokens(b)
                    /\ Tokens(a + 2 + b) <= Tokens(a) + Tokens(2 + b)
                    /\ Tokens(2 + b) <= Tokens(b) + 1
                    /\ Tokens(2 + b) >= 1
BY DEF Tokens

LEMMA ZeroTokens == Tokens(0) = 0
BY DEF Tokens

(* The constants a bound is made of. *)
LEMMA ConstantsAreNat ==
  /\ Len(Title) \in Nat /\ 1 \in Keys /\ 2 \in Keys
  /\ \A k \in Keys : Title[k] \in Nat /\ Shortest(k) \in Nat
  /\ \A b \in Budgets : b \in Nat
  /\ \A b \in Bodies : b \in Nat
<1>1. Title \in Seq(Nat) /\ Len(Title) \in Nat
  BY SectionAssumption
<1>2. 1 \in Keys /\ 2 \in Keys
  BY SectionAssumption DEF Required
<1>3. \A k \in Keys : Title[k] \in Nat /\ Shortest(k) \in Nat
  BY <1>1 DEF Keys, Shortest
<1> QED BY <1>1, <1>2, <1>3, BudgetAssumption, BodyAssumption

LEMMA BoundsAreNat ==
  /\ Tokens(Shortest(1)) \in Nat /\ Tokens(2 + Shortest(2)) \in Nat
  /\ Tokens(2 + Shortest(2)) >= 1
<1>1. Shortest(1) \in Nat /\ Shortest(2) \in Nat /\ 2 + Shortest(2) \in Nat
  BY ConstantsAreNat
<1> QED BY <1>1, TokensGrow

(* The ranking keeps items of the section, finitely many. *)
LEMMA KeptIsThere ==
  ASSUME key \in Keys, NEW n \in Nat, NEW m \in [1..n -> 0..Focus]
  PROVE  Kept(m) \subseteq 1..n /\ Cardinality(Kept(m)) \in Nat
<1>1. Len(m) = n
  OBVIOUS
<1>2. Anchors[key] \in Nat /\ Cap[key] \in Nat
  BY SectionAssumption
<1>3. Smaller(Smaller(Anchors[key], n), Cap[key]) <= n
      /\ Smaller(Smaller(Anchors[key], n), Cap[key]) \in Nat
  BY <1>2 DEF Smaller
<1>4. Kept(m) \subseteq 1..n
  BY <1>1, <1>3 DEF Kept
<1>5. IsFiniteSet(1..n)
  BY FS_Interval
<1>6. IsFiniteSet(Kept(m))
  BY <1>4, <1>5, FS_Subset
<1> QED BY <1>4, <1>6, FS_CardinalityType

(* Lengths of texts under way. *)
LEMMA TextsAreNat ==
  ASSUME IInv, phase \in {"fit", "shorten"}
  PROVE  /\ key \in Keys /\ Len(body) \in Nat \ {0}
         /\ Whole \in Nat
         /\ \A n \in 1..Len(body) : FirstLines(n) \in Nat
         /\ body[Len(body)] \in Nat
         /\ Shortened \in Nat
         /\ text <= 24 => Shortened <= Shortest(key)
<1>1. key \in Keys /\ Title[key] \in Nat /\ text \in Nat
  BY ConstantsAreNat DEF IInv, TypeOK, Keys
<1>2. body \in Seq(Bodies) /\ body # <<>> /\ Len(body) \in Nat \ {0}
  BY DEF IInv, TypeOK, UnderWay
<1>3. \A n \in 1..Len(body) : body[n] \in Nat
  BY <1>2, ConstantsAreNat
<1>4. body[Len(body)] \in Nat
  BY <1>2, <1>3
<1>5. Whole \in Nat /\ \A n \in 1..Len(body) : FirstLines(n) \in Nat
  BY <1>1, <1>3, <1>4 DEF Whole, FirstLines
<1>6. Shortened \in Nat /\ (text <= 24 => Shortened <= Shortest(key))
  BY <1>1 DEF Shortened, Shortest
<1> QED BY <1>1, <1>2, <1>4, <1>5, <1>6

(* The next section is one of the sections, or it is over. *)
LEMMA NextIsThere ==
  ASSUME IInv, key \in Keys, NextSection
  PROVE  /\ key' \in 1..Len(Title) + 1 /\ key' = key + 1 /\ key' > 1
         /\ phase' \in {"rank", "done"}
         /\ phase' = "done" <=> key' = Len(Title) + 1
BY ConstantsAreNat DEF NextSection, Keys

(***************************************************************************)
(* The inductive invariant                                                 *)
(***************************************************************************)
LEMMA InvInit == Init => IInv
<1> SUFFICES ASSUME Init PROVE IInv
  OBVIOUS
<1>1. TypeOK
  BY ConstantsAreNat DEF Init, TypeOK, Keys
<1>2. UnderWay
  BY DEF Init, UnderWay
<1>3. Tokens(length) = 0 /\ budget \in Nat
  BY ZeroTokens, ConstantsAreNat DEF Init
<1>4. Tokens(Shortest(1)) \in Nat /\ Tokens(2 + Shortest(2)) \in Nat
  BY BoundsAreNat
<1>5. Spent /\ SpendingBounded
  BY <1>3, <1>4 DEF Init, Spent, SpendingBounded, Keys
<1> QED BY <1>1, <1>2, <1>5 DEF IInv

(* A package within its budget is within every bound. *)
LEMMA CheapIsFine ==
  ASSUME budget' \in Nat, Tokens(length') <= budget', length' \in Nat,
         key' > 1, phase' # "shorten", key' \in Nat,
         1 \in unfit' => budget' < Tokens(Shortest(1)),
         key' <= 2 => 2 \notin unfit' /\ \A k \in Keys \ Required : package'[k] = {}
  PROVE  Spent' /\ SpendingBounded'
<1>1. Tokens(Shortest(1)) \in Nat /\ Tokens(2 + Shortest(2)) \in Nat /\ Tokens(length') \in Nat
  BY BoundsAreNat, TokensGrow
<1>2. Tokens(length') <= IF 1 \in unfit' THEN Tokens(Shortest(1)) ELSE budget'
  BY <1>1
<1>3. ~(Tokens(length') > budget')
  BY <1>1
<1>4. Spent'
  BY <1>2 DEF Spent
<1>5. Tokens(length') <=
        (IF 1 \in unfit' THEN Tokens(Shortest(1)) ELSE budget')
        + (IF 2 \in unfit' THEN Tokens(2 + Shortest(2)) ELSE IF 2 \in forced' THEN 1 ELSE 0)
  BY <1>1, <1>2
<1> QED BY <1>3, <1>4, <1>5 DEF SpendingBounded

(* What is included because it fits keeps the invariant. *)
LEMMA IncludeKeeps ==
  ASSUME IInv, phase = "fit", NEW shown, shown \subseteq Nat, NEW chars \in Nat,
         Fits(chars), Include(shown, chars), dropped' \in [Keys -> SUBSET Nat], unfit' = unfit
  PROVE  IInv'
<1>1. key \in Keys /\ TypeOK
  BY TextsAreNat DEF IInv
<1>2. /\ NextSection /\ length' = With(chars) /\ package' = [package EXCEPT ![key] = shown]
      /\ UNCHANGED <<budget, match, lines, body, text, items, forced>>
  BY DEF Include, section
<1>3. length' \in Nat /\ budget' \in Nat /\ Tokens(length') <= budget'
  BY <1>1, <1>2, ConstantsAreNat DEF With, Fits, TypeOK
<1>4. package' \in [Keys -> SUBSET Nat]
  BY <1>1, <1>2 DEF TypeOK
<1>5. TypeOK'
  BY <1>1, <1>2, <1>3, <1>4, NextIsThere DEF TypeOK
<1>6. UnderWay'
  BY <1>1, <1>2, NextIsThere DEF UnderWay
<1>7. key \in Nat /\ key' = key + 1 /\ key' > 1 /\ phase' # "shorten"
  BY <1>1, <1>2, NextIsThere DEF Keys
<1>8. 1 \in unfit' => budget' < Tokens(Shortest(1))
  BY <1>2 DEF IInv, SpendingBounded
<1>9. key' <= 2 => 2 \notin unfit' /\ \A k \in Keys \ Required : package'[k] = {}
  <2> SUFFICES ASSUME key' <= 2 PROVE 2 \notin unfit' /\ \A k \in Keys \ Required : package'[k] = {}
    OBVIOUS
  <2>1. key \in Required /\ key <= 2
    BY <1>1, <1>7 DEF Required, Keys
  <2> QED BY <1>1, <1>2, <2>1 DEF IInv, Spent, TypeOK
<1>10. Spent' /\ SpendingBounded'
  BY <1>3, <1>7, <1>8, <1>9, CheapIsFine
<1> QED BY <1>5, <1>6, <1>10 DEF IInv

(* A section is ranked: it has no more lines than items, or a placeholder. *)
LEMMA RankKeeps ==
  ASSUME IInv, Rank
  PROVE  IInv'
<1>1. TypeOK /\ phase = "rank" /\ key \in Keys
  BY ConstantsAreNat DEF IInv, TypeOK, Rank, Keys
<1>2. PICK n \in 0..Items[key] : \E m \in [1..n -> 0..Focus] :
        /\ items' = [items EXCEPT ![key] = n]
        /\ lines' = Kept(m)
        /\ dropped' = [dropped EXCEPT ![key] = 1..n \ Kept(m)]
        /\ body' \in BodiesOf(IF n = 0 /\ key \in Placeheld THEN 1 ELSE Cardinality(Kept(m)))
  BY <1>1 DEF Rank
<1>3. n \in Nat
  BY <1>1, SectionAssumption
<1>4. PICK m \in [1..n -> 0..Focus] :
        /\ items' = [items EXCEPT ![key] = n]
        /\ lines' = Kept(m)
        /\ dropped' = [dropped EXCEPT ![key] = 1..n \ Kept(m)]
        /\ body' \in BodiesOf(IF n = 0 /\ key \in Placeheld THEN 1 ELSE Cardinality(Kept(m)))
  BY <1>2
<1>5. /\ IF body' = <<>> THEN NextSection ELSE phase' = "fit" /\ UNCHANGED key
      /\ UNCHANGED <<budget, text, length, package, forced, unfit>>
  BY DEF Rank
<1>6. Kept(m) \subseteq 1..n /\ Cardinality(Kept(m)) \in Nat
  BY <1>1, <1>3, KeptIsThere
<1>7. body' \in Seq(Bodies)
  <2>1. PICK c \in Nat : body' \in [1..c -> Bodies]
    BY <1>4, <1>6 DEF BodiesOf
  <2> QED BY <2>1
<1>8. lines' \subseteq Nat /\ items' \in [Keys -> Nat] /\ dropped' \in [Keys -> SUBSET Nat]
  BY <1>1, <1>3, <1>4, <1>6 DEF TypeOK
<1>9. CASE body' = <<>>
  <2>1. NextSection
    BY <1>5, <1>9
  <2>2. TypeOK'
    BY <1>1, <1>5, <1>7, <1>8, <2>1, NextIsThere DEF TypeOK
  <2>3. UnderWay'
    BY <1>1, <2>1, NextIsThere DEF UnderWay
  <2>4. Spent' /\ SpendingBounded'
    <3>1. key' = key + 1 /\ key' > 1 /\ phase' # "shorten" /\ key \in Nat
      BY <1>1, <2>1, NextIsThere DEF Keys
    <3> QED BY <1>5, <3>1 DEF IInv, Spent, SpendingBounded
  <2> QED BY <2>2, <2>3, <2>4 DEF IInv
<1>10. CASE body' # <<>>
  <2>1. phase' = "fit" /\ key' = key
    BY <1>5, <1>10
  <2>2. TypeOK'
    BY <1>1, <1>5, <1>7, <1>8, <2>1 DEF TypeOK
  <2>3. UnderWay' /\ Spent' /\ SpendingBounded'
    BY <1>5, <1>10, <2>1 DEF IInv, UnderWay, Spent, SpendingBounded
  <2> QED BY <2>2, <2>3 DEF IInv
<1> QED BY <1>9, <1>10

LEMMA TrimKeeps ==
  ASSUME IInv, Trim
  PROVE  IInv'
<1>1. TypeOK /\ phase = "fit" /\ key \in Keys
  BY TextsAreNat DEF IInv, Trim, TooLarge
<1>2. PICK n \in 1..Len(body) :
        /\ MostThatFit(n)
        /\ Include(First(n), FirstLines(n))
        /\ dropped' = [dropped EXCEPT ![key] = @ \cup (lines \ First(n))]
  BY DEF Trim
<1>3. Fits(FirstLines(n)) /\ FirstLines(n) \in Nat
  BY <1>1, <1>2, TextsAreNat DEF MostThatFit
<1>4. First(n) \subseteq Nat /\ dropped' \in [Keys -> SUBSET Nat]
  BY <1>1, <1>2 DEF TypeOK, First
<1>5. unfit' = unfit
  BY DEF Trim
<1> QED BY <1>1, <1>2, <1>3, <1>4, <1>5, IncludeKeeps

LEMMA OmitKeeps ==
  ASSUME IInv, Omit
  PROVE  IInv'
<1>1. TypeOK /\ phase = "fit" /\ key \in Keys /\ NextSection
  BY TextsAreNat DEF IInv, Omit, TooLarge
<1>2. /\ dropped' = [dropped EXCEPT ![key] = @ \cup lines]
      /\ UNCHANGED <<budget, match, lines, body, text, length, items, package, forced, unfit>>
  BY DEF Omit, section
<1>3. key' = key + 1 /\ key' > 2 /\ phase' \notin {"fit", "shorten"} /\ key \in Nat
  BY <1>1, NextIsThere DEF Keys, Omit, Required
<1>4. TypeOK'
  BY <1>1, <1>2, NextIsThere DEF TypeOK
<1>5. UnderWay' /\ Spent' /\ SpendingBounded'
  BY <1>2, <1>3 DEF IInv, UnderWay, Spent, SpendingBounded
<1> QED BY <1>4, <1>5 DEF IInv

LEMMA BeginShorteningKeeps ==
  ASSUME IInv, BeginShortening
  PROVE  IInv'
<1>1. TypeOK /\ phase = "fit" /\ key \in Required /\ key \in Keys /\ body[Len(body)] \in Nat
  BY TextsAreNat DEF IInv, BeginShortening, TooLarge
<1>2. /\ phase' = "shorten" /\ text' = body[Len(body)] /\ forced' = forced \cup {key}
      /\ UNCHANGED <<budget, key, match, lines, body, length, items, package, dropped, unfit>>
  BY DEF BeginShortening
<1>3. TypeOK'
  BY <1>1, <1>2, ConstantsAreNat DEF TypeOK, Keys
<1>4. UnderWay' /\ Spent'
  BY <1>1, <1>2 DEF IInv, UnderWay, Spent, Required
<1>5. SpendingBounded'
  <2>1. Tokens(length) \in Nat /\ budget \in Nat
    BY <1>1, ConstantsAreNat, TokensGrow DEF TypeOK
  <2>2. forced \subseteq forced'
    BY <1>2
  <2> QED BY <1>2, <2>1, <2>2, BoundsAreNat DEF IInv, SpendingBounded
<1> QED BY <1>3, <1>4, <1>5 DEF IInv

LEMMA ShortenKeeps ==
  ASSUME IInv, Shorten
  PROVE  IInv'
<1>1. /\ TypeOK /\ text' = (4 * text) \div 5
      /\ UNCHANGED <<budget, key, phase, match, lines, body, length, items, package, dropped,
                     forced, unfit>>
  BY DEF IInv, Shorten
<1>2. text' \in Nat
  BY <1>1 DEF TypeOK
<1>3. TypeOK'
  BY <1>1, <1>2 DEF TypeOK
<1>4. UnderWay' /\ Spent' /\ SpendingBounded'
  BY <1>1 DEF IInv, UnderWay, Spent, SpendingBounded
<1> QED BY <1>3, <1>4 DEF IInv

(* The first required text is within the budget or, unfit, at its shortest; *)
(* the second adds one token to the budget, or its shortest form.           *)
LEMMA IncludeShortenedKeeps ==
  ASSUME IInv, IncludeShortened
  PROVE  IInv'
<1>1. TypeOK /\ phase = "shorten" /\ key \in forced /\ key \in Required /\ key \in Keys
  BY TextsAreNat DEF IInv, IncludeShortened, UnderWay, TypeOK
<1>2. /\ NextSection /\ length' = With(Shortened) /\ package' = [package EXCEPT ![key] = lines]
      /\ UNCHANGED <<budget, match, lines, body, text, items, dropped, forced>>
      /\ Suffices \/ text <= 24
      /\ unfit' = IF Suffices THEN unfit ELSE unfit \cup {key}
  BY DEF IncludeShortened, Include, ShortEnough, section
<1>3. Shortened \in Nat /\ (text <= 24 => Shortened <= Shortest(key))
  BY <1>1, TextsAreNat
<1>4. length \in Nat /\ length' \in Nat /\ budget \in Nat
  BY <1>1, <1>2, <1>3, ConstantsAreNat DEF With, TypeOK
<1>5. unfit' \subseteq forced'
  BY <1>1, <1>2 DEF TypeOK
<1>6. TypeOK'
  BY <1>1, <1>2, <1>4, <1>5, NextIsThere DEF TypeOK
<1>7. key' = key + 1 /\ key' > 1 /\ phase' \notin {"fit", "shorten"} /\ key \in {1, 2}
  BY <1>1, <1>2, NextIsThere DEF Required
<1>8. UnderWay'
  BY <1>7 DEF UnderWay
<1>9. \A k \in Keys \ Required : package'[k] = {}
  BY <1>1, <1>2, <1>7 DEF IInv, Spent, TypeOK
<1> DEFINE one == Tokens(Shortest(1))
           two == Tokens(2 + Shortest(2))
<1>10. /\ one \in Nat /\ two \in Nat /\ two >= 1
       /\ Tokens(length) \in Nat /\ Tokens(length') \in Nat /\ Tokens(Shortened) \in Nat
  BY <1>3, <1>4, BoundsAreNat, TokensGrow
<1>11. CASE key = 1
  <2>1. length = 0 /\ length' = Shortened /\ unfit = {} /\ Tokens(length) = 0
    BY <1>2, <1>11, ZeroTokens DEF IInv, Spent, With
  <2>2. /\ Tokens(length') <= IF 1 \in unfit' THEN one ELSE budget
        /\ 1 \in unfit' => budget < one
        /\ 2 \notin unfit'
    <3>1. CASE Suffices
      BY <1>2, <1>4, <1>10, <2>1, <3>1 DEF Suffices
    <3>2. CASE ~Suffices
      <4>1. Tokens(Shortened) <= one
        BY <1>2, <1>3, <1>11, <3>2, ConstantsAreNat, TokensGrow
      <4>2. budget < Tokens(Shortened)
        BY <1>4, <1>10, <2>1, <3>2 DEF Suffices
      <4>3. unfit' = {1}
        BY <1>2, <1>11, <2>1, <3>2
      <4> QED BY <1>4, <1>10, <2>1, <4>1, <4>2, <4>3
    <3> QED BY <3>1, <3>2
  <2>3. Tokens(length') <=
          (IF 1 \in unfit' THEN one ELSE budget)
          + (IF 2 \in unfit' THEN two ELSE IF 2 \in forced' THEN 1 ELSE 0)
    BY <1>4, <1>10, <2>2
  <2>4. SpendingBounded'
    BY <1>2, <1>9, <2>2, <2>3 DEF SpendingBounded
  <2>5. Spent'
    BY <1>2, <1>7, <1>9, <1>11, <2>2 DEF Spent
  <2> QED BY <1>6, <1>8, <2>4, <2>5 DEF IInv
<1>12. CASE key = 2
  <2>1. /\ Tokens(length) <= IF 1 \in unfit THEN one ELSE budget
        /\ 1 \in unfit => budget < one
        /\ 2 \notin unfit
    BY <1>12 DEF IInv, Spent, SpendingBounded
  <2>2. 2 \in forced' /\ (1 \in unfit' <=> 1 \in unfit) /\ (2 \in unfit' <=> ~Suffices)
    BY <1>1, <1>2, <1>12, <2>1
  <2>3. 2 + Shortened \in Nat /\ Tokens(2 + Shortened) \in Nat
    <3>1. 2 + Shortened \in Nat
      BY <1>3
    <3> QED BY <3>1, TokensGrow
  <2>4. Tokens(length') <= Tokens(length) + Tokens(2 + Shortened)
    <3>1. CASE length = 0
      <4>1. length' = Shortened /\ Shortened <= 2 + Shortened
        BY <1>2, <1>3, <3>1 DEF With
      <4>2. Tokens(Shortened) <= Tokens(2 + Shortened)
        BY <1>3, <2>3, <4>1, TokensGrow
      <4> QED BY <1>10, <2>3, <4>1, <4>2
    <3>2. CASE length # 0
      BY <1>2, <1>3, <1>4, <3>2, TokensGrow DEF With
    <3> QED BY <3>1, <3>2
  <2>5. Tokens(length') <=
          (IF 1 \in unfit' THEN one ELSE budget)
          + (IF 2 \in unfit' THEN two ELSE IF 2 \in forced' THEN 1 ELSE 0)
    <3>1. CASE Suffices
      <4>1. Tokens(2 + Shortened) <= Tokens(Shortened) + 1
        BY <1>3, TokensGrow
      <4>2. Tokens(length') <= budget + 1
        BY <1>4, <1>10, <2>3, <2>4, <3>1, <4>1 DEF Suffices
      <4>3. (IF 2 \in unfit' THEN two ELSE IF 2 \in forced' THEN 1 ELSE 0) = 1
        BY <2>2, <3>1
      <4>4. budget <= IF 1 \in unfit' THEN one ELSE budget
        BY <1>4, <1>10, <2>1, <2>2
      <4> QED BY <1>4, <1>10, <4>2, <4>3, <4>4
    <3>2. CASE ~Suffices
      <4>1. Shortened <= Shortest(2) /\ Shortest(2) \in Nat
        BY <1>2, <1>3, <1>12, <3>2, ConstantsAreNat
      <4>2. 2 + Shortened <= 2 + Shortest(2) /\ 2 + Shortest(2) \in Nat
        BY <1>3, <4>1
      <4>3. Tokens(2 + Shortened) <= two
        BY <2>3, <4>2, TokensGrow
      <4>4. (IF 2 \in unfit' THEN two ELSE IF 2 \in forced' THEN 1 ELSE 0) = two
        BY <2>2, <3>2
      <4>5. Tokens(length) <= IF 1 \in unfit' THEN one ELSE budget
        BY <2>1, <2>2
      <4> QED BY <1>4, <1>10, <2>3, <2>4, <4>3, <4>4, <4>5
    <3> QED BY <3>1, <3>2
  <2>6. SpendingBounded'
    BY <1>2, <1>9, <2>1, <2>2, <2>5 DEF SpendingBounded
  <2>7. Spent'
    BY <1>7, <1>12 DEF Spent
  <2> QED BY <1>6, <1>8, <2>6, <2>7 DEF IInv
<1> QED BY <1>7, <1>11, <1>12

LEMMA InvStep == IInv /\ [Next]_vars => IInv'
<1> SUFFICES ASSUME IInv, [Next]_vars PROVE IInv'
  OBVIOUS
<1>1. CASE Rank
  BY <1>1, RankKeeps
<1>2. CASE IncludeWhole
  <2>1. phase = "fit" /\ Fits(Whole) /\ Include(lines, Whole) /\ dropped' = dropped
        /\ unfit' = unfit
    BY <1>2 DEF IncludeWhole
  <2>2. Whole \in Nat /\ lines \subseteq Nat /\ dropped' \in [Keys -> SUBSET Nat]
    BY <2>1, TextsAreNat DEF IInv, TypeOK
  <2> QED BY <2>1, <2>2, IncludeKeeps
<1>3. CASE Trim
  BY <1>3, TrimKeeps
<1>4. CASE Omit
  BY <1>4, OmitKeeps
<1>5. CASE BeginShortening
  BY <1>5, BeginShorteningKeeps
<1>6. CASE Shorten
  BY <1>6, ShortenKeeps
<1>7. CASE IncludeShortened
  BY <1>7, IncludeShortenedKeeps
<1>8. CASE UNCHANGED vars
  BY <1>8 DEF vars, section, IInv, TypeOK, UnderWay, Spent, SpendingBounded
<1> QED BY <1>1, <1>2, <1>3, <1>4, <1>5, <1>6, <1>7, <1>8 DEF Next

(***************************************************************************)
(* Theorems                                                                *)
(***************************************************************************)

(* The inductive invariant holds throughout a compilation. *)
THEOREM Invariance == Spec => []IInv
<1> QED BY InvInit, InvStep, PTL DEF Spec

(* Every variable keeps its type. *)
THEOREM TypeCorrect == Spec => []TypeOK
<1>1. IInv => TypeOK
  BY DEF IInv
<1> QED BY <1>1, Invariance, PTL

(* A package costs more than its budget only by required texts: by what the *)
(* first costs where it does not fit at its shortest, and by the shortest   *)
(* form of the second where that does not, or else by the one token that a  *)
(* sum of two estimates is short of; and then it has nothing optional       *)
(* (compile, _truncate).                                                    *)
THEOREM SpendingIsBounded == Spec => []SpendingBounded
<1>1. IInv => SpendingBounded
  BY DEF IInv
<1> QED BY <1>1, Invariance, PTL

(***************************************************************************)
(* Every item is accounted for                                             *)
(***************************************************************************)

(* While a section is under way its items are lines or already dropped; of  *)
(* the sections ahead nothing is in the package yet.                        *)
Ahead == \A k \in Keys : k >= key => package[k] = {}
Split ==
  phase \in {"fit", "shorten"} =>
    /\ lines \cup dropped[key] = 1..items[key]
    /\ lines \cap dropped[key] = {}
    /\ key \in Required => dropped[key] = {}
AInv == IInv /\ Ahead /\ Split /\ Accounted

(* A required text is not dropped by the ranking. *)
LEMMA RequiredIsKept ==
  ASSUME key \in Required, NEW n \in 0..Items[key], NEW m \in [1..n -> 0..Focus]
  PROVE  Kept(m) = 1..n
<1>1. key \in Keys /\ n \in {0, 1} /\ n \in Nat /\ Cap[key] \in Nat \ {0} /\ Anchors[key] \in Nat
  BY SectionAssumption
<1>2. Kept(m) \subseteq 1..n
  BY <1>1, KeptIsThere
<1>3. CASE n = 0
  BY <1>2, <1>3
<1>4. CASE n = 1
  <2>1. Len(m) = 1 /\ 1..n = {1} /\ m[1] \in Nat /\ Focus \in Nat
    BY <1>4, FocusAssumption
  <2>2. Score(m, 1) \in Nat
    BY <2>1 DEF Score
  <2>3. Better(m, 1) = {}
    BY <2>1, <2>2 DEF Better
  <2> DEFINE anchored == 1..Smaller(Smaller(Anchors[key], Len(m)), Cap[key])
  <2>4. anchored = {1} \/ anchored = {}
    BY <1>1, <2>1 DEF Smaller
  <2>5. CASE anchored = {1}
    BY <1>2, <2>1, <2>5 DEF Kept
  <2>6. CASE anchored = {}
    <3>1. Cardinality(anchored) = 0 /\ Cardinality(Better(m, 1) \ anchored) = 0
      BY <2>3, <2>6, FS_EmptySet
    <3>2. 1 \in Kept(m)
      BY <1>1, <2>1, <3>1 DEF Kept
    <3> QED BY <1>2, <2>1, <3>2
  <2> QED BY <2>4, <2>5, <2>6
<1> QED BY <1>1, <1>3, <1>4

LEMMA AccountInit == Init => AInv
<1> SUFFICES ASSUME Init PROVE AInv
  OBVIOUS
<1>1. Accounted
  BY DEF Init, Accounted, Keys
<1>2. Ahead /\ Split
  BY DEF Init, Ahead, Split
<1> QED BY <1>1, <1>2, InvInit DEF AInv

(* A section that is left behind accounted for: some of its lines are in    *)
(* the package, the rest was dropped.                                       *)
LEMMA LeftBehind ==
  ASSUME AInv, key \in Keys, NEW shown, NEW lost,
         package' = [package EXCEPT ![key] = shown],
         dropped' = [dropped EXCEPT ![key] = lost],
         shown \cup lost = 1..items'[key], shown \cap lost = {},
         key \in Required => lost = {},
         \A k \in Keys : k < key => items'[k] = items[k],
         NextSection
  PROVE  Ahead' /\ Split' /\ Accounted'
<1>1. /\ key' = key + 1 /\ phase' \notin {"fit", "shorten"} /\ key \in Nat
      /\ package \in [Keys -> SUBSET Nat] /\ dropped \in [Keys -> SUBSET Nat]
  BY NextIsThere DEF AInv, IInv, TypeOK, Keys
<1>2. Ahead'
  BY <1>1 DEF AInv, Ahead, Keys
<1>3. Split'
  BY <1>1 DEF Split
<1>4. Accounted'
  <2> SUFFICES ASSUME NEW k \in Keys, k < key'
               PROVE  /\ package'[k] \cup dropped'[k] = 1..items'[k]
                      /\ package'[k] \cap dropped'[k] = {}
                      /\ k \in Required => dropped'[k] = {}
    BY DEF Accounted, Keys
  <2>1. CASE k = key
    BY <1>1, <2>1
  <2>2. CASE k # key
    <3>1. k < key
      BY <1>1, <2>2 DEF Keys
    <3>2. package'[k] = package[k] /\ dropped'[k] = dropped[k] /\ items'[k] = items[k]
      BY <1>1, <2>2, <3>1
    <3> QED BY <3>1, <3>2 DEF AInv, Accounted
  <2> QED BY <2>1, <2>2
<1> QED BY <1>2, <1>3, <1>4

LEMMA RankAccounts ==
  ASSUME AInv, Rank
  PROVE  Ahead' /\ Split' /\ Accounted'
<1>1. TypeOK /\ phase = "rank" /\ key \in Keys /\ key \in Nat
  BY ConstantsAreNat DEF AInv, IInv, TypeOK, Rank, Keys
<1>2. PICK n \in 0..Items[key] : \E m \in [1..n -> 0..Focus] :
        /\ items' = [items EXCEPT ![key] = n]
        /\ lines' = Kept(m)
        /\ dropped' = [dropped EXCEPT ![key] = 1..n \ Kept(m)]
        /\ body' \in BodiesOf(IF n = 0 /\ key \in Placeheld THEN 1 ELSE Cardinality(Kept(m)))
  BY <1>1 DEF Rank
<1>3. PICK m \in [1..n -> 0..Focus] :
        /\ items' = [items EXCEPT ![key] = n]
        /\ lines' = Kept(m)
        /\ dropped' = [dropped EXCEPT ![key] = 1..n \ Kept(m)]
        /\ body' \in BodiesOf(IF n = 0 /\ key \in Placeheld THEN 1 ELSE Cardinality(Kept(m)))
  BY <1>2
<1>4. IF body' = <<>> THEN NextSection ELSE phase' = "fit" /\ UNCHANGED key
  BY DEF Rank
<1>5. n \in Nat /\ package' = package
  BY <1>1, SectionAssumption DEF Rank
<1>6. Kept(m) \subseteq 1..n /\ Cardinality(Kept(m)) \in Nat
  BY <1>1, <1>5, KeptIsThere
<1>7. key \in Required => 1..n \ Kept(m) = {}
  BY <1>2, RequiredIsKept
<1>8. /\ items'[key] = n /\ dropped'[key] = 1..n \ Kept(m)
      /\ \A k \in Keys : k # key => items'[k] = items[k] /\ dropped'[k] = dropped[k]
  BY <1>1, <1>3 DEF TypeOK
<1>9. CASE body' = <<>>
  <2>1. Kept(m) = {}
    <3>1. PICK c \in Nat : body' \in [1..c -> Bodies] /\ (c = 1 \/ c = Cardinality(Kept(m)))
      BY <1>3, <1>6 DEF BodiesOf
    <3>2. c = 0
      BY <1>9, <3>1
    <3>3. IsFiniteSet(Kept(m))
      <4>1. IsFiniteSet(1..n)
        BY <1>5, FS_Interval
      <4> QED BY <1>6, <4>1, FS_Subset
    <3> QED BY <3>1, <3>2, <3>3, FS_EmptySet
  <2>2. package' = [package EXCEPT ![key] = {}]
    BY <1>1, <1>5 DEF AInv, Ahead, TypeOK
  <2>3. dropped' = [dropped EXCEPT ![key] = 1..n]
    BY <1>3, <2>1
  <2>4. {} \cup 1..n = 1..items'[key] /\ {} \cap 1..n = {} /\ (key \in Required => 1..n = {})
    BY <1>7, <1>8, <2>1
  <2>5. NextSection /\ \A k \in Keys : k < key => items'[k] = items[k]
    BY <1>1, <1>4, <1>8, <1>9
  <2> QED BY <1>1, <2>2, <2>3, <2>4, <2>5, LeftBehind
<1>10. CASE body' # <<>>
  <2>1. phase' = "fit" /\ key' = key
    BY <1>4, <1>10
  <2>2. Ahead'
    BY <1>5, <2>1 DEF AInv, Ahead
  <2>3. Split'
    BY <1>3, <1>6, <1>7, <1>8, <2>1 DEF Split
  <2>4. Accounted'
    BY <1>1, <1>5, <1>8, <2>1 DEF AInv, Accounted, Keys
  <2> QED BY <2>2, <2>3, <2>4
<1> QED BY <1>9, <1>10

LEMMA AccountStep == AInv /\ [Next]_vars => AInv'
<1> SUFFICES ASSUME AInv, [Next]_vars PROVE Ahead' /\ Split' /\ Accounted'
  BY InvStep DEF AInv
<1>1. CASE Rank
  BY <1>1, RankAccounts
<1>2. ASSUME phase \in {"fit", "shorten"}
      PROVE  /\ key \in Keys /\ dropped \in [Keys -> SUBSET Nat]
             /\ lines \cup dropped[key] = 1..items[key] /\ lines \cap dropped[key] = {}
             /\ key \in Required => dropped[key] = {}
             /\ \A n : First(n) \subseteq lines
  BY <1>2, TextsAreNat DEF AInv, IInv, TypeOK, Split, First
<1>3. CASE IncludeWhole
  <2>1. /\ phase = "fit" /\ package' = [package EXCEPT ![key] = lines] /\ NextSection
        /\ dropped' = dropped /\ items' = items
    BY <1>3 DEF IncludeWhole, Include
  <2>2. dropped' = [dropped EXCEPT ![key] = dropped[key]]
    BY <1>2, <2>1
  <2> QED BY <1>2, <2>1, <2>2, LeftBehind
<1>4. CASE Trim
  <2>1. PICK n \in 1..Len(body) :
          /\ Include(First(n), FirstLines(n))
          /\ dropped' = [dropped EXCEPT ![key] = @ \cup (lines \ First(n))]
    BY <1>4 DEF Trim
  <2>2. /\ phase = "fit" /\ key \notin Required /\ NextSection /\ items' = items
        /\ package' = [package EXCEPT ![key] = First(n)]
    BY <1>4, <2>1 DEF Trim, TooLarge, Include
  <2>3. dropped' = [dropped EXCEPT ![key] = dropped[key] \cup (lines \ First(n))]
    BY <2>1
  <2>4. /\ First(n) \cup (dropped[key] \cup (lines \ First(n))) = 1..items[key]
        /\ First(n) \cap (dropped[key] \cup (lines \ First(n))) = {}
    BY <1>2, <2>2
  <2> QED BY <1>2, <2>2, <2>3, <2>4, LeftBehind
<1>5. CASE Omit
  <2>1. /\ phase = "fit" /\ key \notin Required /\ NextSection /\ items' = items
        /\ package' = package
        /\ dropped' = [dropped EXCEPT ![key] = dropped[key] \cup lines]
    BY <1>5 DEF Omit, TooLarge
  <2>2. package' = [package EXCEPT ![key] = {}]
    BY <1>2, <2>1 DEF AInv, IInv, TypeOK, Ahead, Keys
  <2>3. /\ {} \cup (dropped[key] \cup lines) = 1..items[key]
        /\ {} \cap (dropped[key] \cup lines) = {}
    BY <1>2, <2>1
  <2> QED BY <1>2, <2>1, <2>2, <2>3, LeftBehind
<1>6. CASE BeginShortening
  BY <1>6 DEF BeginShortening, TooLarge, AInv, Ahead, Split, Accounted
<1>7. CASE Shorten
  BY <1>7 DEF Shorten, AInv, Ahead, Split, Accounted
<1>8. CASE IncludeShortened
  <2>1. /\ phase = "shorten" /\ package' = [package EXCEPT ![key] = lines] /\ NextSection
        /\ dropped' = dropped /\ items' = items
    BY <1>8 DEF IncludeShortened, Include
  <2>2. dropped' = [dropped EXCEPT ![key] = dropped[key]]
    BY <1>2, <2>1
  <2> QED BY <1>2, <2>1, <2>2, LeftBehind
<1>9. CASE UNCHANGED vars
  BY <1>9 DEF vars, section, AInv, Ahead, Split, Accounted
<1> QED BY <1>1, <1>3, <1>4, <1>5, <1>6, <1>7, <1>8, <1>9 DEF Next

(* "Anything that does not fit is reported": when a section is behind,      *)
(* every item of it is in the package or among those dropped, and never in  *)
(* both; a required one is never dropped.                                   *)
THEOREM NothingVanishes == Spec => []Accounted
<1>1. AInv => Accounted
  BY DEF AInv
<1> QED BY <1>1, AccountInit, AccountStep, PTL DEF Spec

(***************************************************************************)
(* Ranking                                                                 *)
(***************************************************************************)

(* R orders the elements of T strictly and totally. *)
Orders(R, T) ==
  /\ \A a \in T : <<a, a>> \notin R
  /\ \A a, b, c \in T : <<a, b>> \in R /\ <<b, c>> \in R => <<a, c>> \in R
  /\ \A a, b \in T : a # b => <<a, b>> \in R \/ <<b, a>> \in R

(* How many elements of T go before t. *)
Preceding(R, T, t) == {o \in T : <<o, t>> \in R}
RankIn(R, T) == [t \in T |-> Cardinality(Preceding(R, T, t))]

(* An element has a natural rank, below the number of elements, and a lower *)
(* one than those it goes before.                                           *)
LEMMA RanksGrow ==
  ASSUME NEW T, IsFiniteSet(T), NEW R, Orders(R, T)
  PROVE  /\ \A t \in T : Cardinality(Preceding(R, T, t)) \in 0..Cardinality(T) - 1
         /\ \A a, b \in T : <<a, b>> \in R =>
              Cardinality(Preceding(R, T, a)) < Cardinality(Preceding(R, T, b))
<1> DEFINE n == Cardinality(T)
<1>1. n \in Nat
  BY FS_CardinalityType
<1>2. ASSUME NEW t \in T
      PROVE  /\ IsFiniteSet(Preceding(R, T, t)) /\ Cardinality(Preceding(R, T, t)) \in 0..n - 1
  <2>1. Preceding(R, T, t) \in SUBSET T /\ Preceding(R, T, t) # T
    BY DEF Preceding, Orders
  <2>2. /\ IsFiniteSet(Preceding(R, T, t)) /\ Cardinality(Preceding(R, T, t)) <= n
        /\ n = Cardinality(Preceding(R, T, t)) => T = Preceding(R, T, t)
    BY <2>1, FS_Subset
  <2>3. Cardinality(Preceding(R, T, t)) \in Nat
    BY <2>2, FS_CardinalityType
  <2> QED BY <1>1, <2>1, <2>2, <2>3
<1>3. ASSUME NEW a \in T, NEW b \in T, <<a, b>> \in R
      PROVE  Cardinality(Preceding(R, T, a)) < Cardinality(Preceding(R, T, b))
  <2>1. Preceding(R, T, a) \in SUBSET Preceding(R, T, b)
    BY <1>3 DEF Preceding, Orders
  <2>2. a \in Preceding(R, T, b) /\ a \notin Preceding(R, T, a)
    BY <1>3 DEF Preceding, Orders
  <2>3. /\ Cardinality(Preceding(R, T, a)) <= Cardinality(Preceding(R, T, b))
        /\ Cardinality(Preceding(R, T, b)) = Cardinality(Preceding(R, T, a)) => Preceding(R, T, b) = Preceding(R, T, a)
    BY <1>2, <2>1, FS_Subset
  <2>4. Cardinality(Preceding(R, T, a)) \in Nat /\ Cardinality(Preceding(R, T, b)) \in Nat
    BY <1>1, <1>2
  <2> QED BY <2>2, <2>3, <2>4
<1> QED BY <1>2, <1>3

(* In an order every element has a rank of its own, and every rank below    *)
(* the number of elements is taken.                                         *)
LEMMA RanksAreTaken ==
  ASSUME NEW T, IsFiniteSet(T), NEW R, Orders(R, T)
  PROVE  RankIn(R, T) \in Bijection(T, 0..Cardinality(T) - 1)
<1> DEFINE n == Cardinality(T)
           rank == RankIn(R, T)
<1>1. n \in Nat
  BY FS_CardinalityType
<1>2. /\ \A t \in T : Cardinality(Preceding(R, T, t)) \in 0..n - 1
      /\ \A a, b \in T : <<a, b>> \in R =>
           Cardinality(Preceding(R, T, a)) < Cardinality(Preceding(R, T, b))
  BY RanksGrow
<1>4. rank \in [T -> 0..n - 1]
  BY <1>2 DEF RankIn
<1>5. ASSUME NEW a \in T, NEW b \in T, rank[a] = rank[b] PROVE a = b
  <2>1. Cardinality(Preceding(R, T, a)) = Cardinality(Preceding(R, T, b)) /\ Cardinality(Preceding(R, T, a)) \in Nat
    BY <1>1, <1>2, <1>5 DEF RankIn
  <2>2. <<a, b>> \notin R /\ <<b, a>> \notin R
    BY <1>2, <2>1
  <2> QED BY <2>2 DEF Orders
<1> HIDE DEF rank, n
<1>6. rank \in Injection(T, 0..n - 1)
  BY <1>4, <1>5, Fun_IsInj
<1>7. IsFiniteSet(0..n - 1) /\ Cardinality(0..n - 1) = n
  <2>1. 0 \in Int /\ n - 1 \in Int
    BY <1>1
  <2> QED BY <1>1, <2>1, FS_Interval
<1>8. rank \in Surjection(T, 0..n - 1)
  <2>1. Cardinality(T) = Cardinality(0..n - 1)
    BY <1>7 DEF n
  <2> DEFINE U == 0..n - 1
  <2> HIDE DEF U
  <2>2. IsFiniteSet(U) /\ rank \in Injection(T, U) /\ Cardinality(T) = Cardinality(U)
    BY <1>6, <1>7, <2>1 DEF U
  <2>3. rank \in Surjection(T, U)
    BY <2>2, FS_Injection
  <2> QED BY <2>3 DEF U
<1>9. rank \in Bijection(T, 0..n - 1)
  BY <1>6, <1>8, Fun_IsBij
<1> QED BY <1>9 DEF rank, n

(* So as many have a rank below r as there are, up to r. *)
LEMMA BestAreEnough ==
  ASSUME NEW T, IsFiniteSet(T), NEW R, Orders(R, T), NEW r \in Nat
  PROVE  Cardinality({t \in T : Cardinality(Preceding(R, T, t)) < r}) = Smaller(Cardinality(T), r)
<1> DEFINE n == Cardinality(T)
           best == {t \in T : Cardinality(Preceding(R, T, t)) < r}
           low == 0..Smaller(n, r) - 1
           rank == [t \in best |-> Cardinality(Preceding(R, T, t))]
<1>1. n \in Nat /\ IsFiniteSet(best)
  BY FS_CardinalityType, FS_Subset
<1>2. /\ RankIn(R, T) \in [T -> 0..n - 1]
      /\ \A a, b \in T : RankIn(R, T)[a] = RankIn(R, T)[b] => a = b
      /\ \A i \in 0..n - 1 : \E t \in T : RankIn(R, T)[t] = i
  <2> DEFINE whole == RankIn(R, T)
             U == 0..n - 1
  <2>1. whole \in Bijection(T, U)
    BY RanksAreTaken
  <2> HIDE DEF whole, U
  <2>2. /\ whole \in [T -> U]
        /\ \A a, b \in T : whole[a] = whole[b] => a = b
        /\ \A i \in U : \E t \in T : whole[t] = i
    BY <2>1, Fun_BijectionProperties
  <2> QED BY <2>2 DEF whole, U
<1>3. \A t \in T : RankIn(R, T)[t] = Cardinality(Preceding(R, T, t)) /\ RankIn(R, T)[t] \in 0..n - 1
  BY <1>2 DEF RankIn
<1>4. rank \in [best -> low]
  BY <1>1, <1>3 DEF Smaller
<1>5. \A a, b \in best : rank[a] = rank[b] => a = b
  BY <1>2, <1>3
<1>6. \A i \in low : \E t \in best : rank[t] = i
  <2> SUFFICES ASSUME NEW i \in low PROVE \E t \in best : rank[t] = i
    OBVIOUS
  <2>1. i \in 0..n - 1 /\ i < r
    BY <1>1 DEF Smaller
  <2>2. PICK t \in T : RankIn(R, T)[t] = i
    BY <1>2, <2>1
  <2> QED BY <1>3, <2>1, <2>2
<1> HIDE DEF rank, best, low
<1>7. rank \in Bijection(best, low)
  BY <1>4, <1>5, <1>6, Fun_IsBij
<1>8. ExistsBijection(best, low)
  BY <1>7, Fun_ExistsBij
<1>9. Cardinality(low) = Cardinality(best)
  BY <1>1, <1>8, FS_Bijection
<1>10. Cardinality(low) = Smaller(n, r)
  <2>1. Smaller(n, r) \in Nat
    BY <1>1 DEF Smaller
  <2>2. 0 \in Int /\ Smaller(n, r) - 1 \in Int
    BY <2>1
  <2> QED BY <2>1, <2>2, FS_Interval DEF low
<1> QED BY <1>9, <1>10 DEF best

(* The order of the ranking, as pairs of items. *)
ByScore(m) == {p \in (1..Len(m)) \X (1..Len(m)) : p[1] \in Better(m, p[2])}

(* Scores order all items, the later first among equals. *)
LEMMA ScoresOrder ==
  ASSUME NEW n \in Nat, NEW m \in [1..n -> 0..Focus], NEW T \in SUBSET (1..n)
  PROVE  Orders(ByScore(m), T)
<1>1. Len(m) = n
  OBVIOUS
<1>2. \A i \in T : i \in 1..n /\ i \in Nat /\ Score(m, i) \in Nat
  <2> SUFFICES ASSUME NEW i \in T PROVE i \in 1..n /\ i \in Nat /\ Score(m, i) \in Nat
    OBVIOUS
  <2>1. i \in 1..n /\ m[i] \in Nat /\ Focus \in Nat
    BY FocusAssumption
  <2>2. \A a, b \in Nat : a * b \in Nat /\ a + b \in Nat
    OBVIOUS
  <2>3. 100 * n * m[i] \in Nat /\ 35 * Focus * i \in Nat
    BY <2>1, <2>2
  <2> QED BY <1>1, <2>1, <2>3, SMTT(30) DEF Score
<1>3. \A i, j \in T : <<j, i>> \in ByScore(m) <=>
        Score(m, j) > Score(m, i) \/ (Score(m, j) = Score(m, i) /\ j > i)
  BY <1>1, <1>2 DEF ByScore, Better
<1> QED BY <1>2, <1>3 DEF Orders

(* Ranking fills the cap, with the anchors first, and keeps nothing else    *)
(* that scores less than what it drops.                                     *)
LEMMA KeptAreBest ==
  ASSUME key \in Keys, NEW n \in Nat, NEW m \in [1..n -> 0..Focus]
  PROVE  /\ Cardinality(Kept(m)) = Smaller(n, Cap[key])
         /\ 1..Smaller(Smaller(Anchors[key], n), Cap[key]) \subseteq Kept(m)
         /\ \A i \in Kept(m), j \in 1..n \ Kept(m) :
              i <= Anchors[key] \/ Score(m, i) >= Score(m, j)
<1> DEFINE lead == Smaller(Smaller(Anchors[key], n), Cap[key])
           anchored == 1..lead
           room == Cap[key] - lead
           T == 1..n \ anchored
           R == ByScore(m)
           best == {t \in T : Cardinality(Preceding(R, T, t)) < room}
<1>1. Len(m) = n /\ Anchors[key] \in Nat /\ Cap[key] \in Nat
  BY SectionAssumption
<1>2. lead \in Nat /\ lead <= n /\ lead <= Anchors[key] /\ room \in Nat
  BY <1>1 DEF Smaller
<1>3. IsFiniteSet(anchored) /\ Cardinality(anchored) = lead
  <2>1. 1 \in Int /\ lead \in Int
    BY <1>2
  <2> HIDE DEF lead
  <2> QED BY <1>2, <2>1, FS_Interval
<1>4. IsFiniteSet(T) /\ Cardinality(T) = n - lead
  <2>1. IsFiniteSet(1..n) /\ Cardinality(1..n) = n
    BY FS_Interval
  <2>2. (1..n) \cap anchored = anchored
    BY <1>2
  <2>3. T = 1..n \ anchored
    OBVIOUS
  <2> HIDE DEF anchored, lead, T
  <2>4. /\ IsFiniteSet(1..n \ anchored)
        /\ Cardinality(1..n \ anchored) = Cardinality(1..n) - Cardinality((1..n) \cap anchored)
    BY <2>1, FS_Difference
  <2> QED BY <1>3, <2>1, <2>2, <2>3, <2>4
<1>5. Kept(m) = anchored \cup best
  <2>1. \A t \in T : Preceding(R, T, t) = Better(m, t) \ anchored
    BY <1>1 DEF Preceding, ByScore, Better
  <2>2. Kept(m) = anchored \cup {i \in 1..n : Cardinality(Better(m, i) \ anchored) < room}
    BY <1>1, <1>3 DEF Kept
  <2> HIDE DEF room, lead, R
  <2> QED BY <2>1, <2>2
<1>6. Orders(R, T)
  BY ScoresOrder
<1> HIDE DEF R
<1>7. Cardinality(best) = Smaller(n - lead, room)
  <2> HIDE DEF T, room
  <2> QED BY <1>2, <1>4, <1>6, BestAreEnough
<1>8. Cardinality(Kept(m)) = Smaller(n, Cap[key])
  <2>1. best \in SUBSET T /\ IsFiniteSet(best) /\ anchored \cap best = {}
    BY <1>4, FS_Subset
  <2>2. Cardinality(anchored \cap best) = 0
    BY <2>1, FS_EmptySet
  <2> HIDE DEF anchored, best
  <2>3. Cardinality(anchored \cup best) = lead + Smaller(n - lead, room) - 0
    BY <1>3, <1>7, <2>1, <2>2, FS_Union
  <2>4. lead + Smaller(n - lead, room) - 0 = Smaller(n, Cap[key])
    BY <1>1, <1>2 DEF Smaller
  <2> QED BY <1>5, <2>3, <2>4
<1>9. ASSUME NEW i \in Kept(m), NEW j \in 1..n \ Kept(m)
      PROVE  i <= Anchors[key] \/ Score(m, i) >= Score(m, j)
  <2>1. CASE i \in anchored
    BY <1>1, <1>2, <2>1
  <2>2. CASE i \in best
    <3>1. i \in T /\ j \in T /\ j \notin best
      BY <1>5, <1>9, <2>2
    <3>2. Cardinality(Preceding(R, T, i)) < room /\ ~(Cardinality(Preceding(R, T, j)) < room)
      BY <2>2, <3>1
    <3>3. /\ Cardinality(Preceding(R, T, i)) \in Nat /\ Cardinality(Preceding(R, T, j)) \in Nat
          /\ <<j, i>> \in R => Cardinality(Preceding(R, T, j)) < Cardinality(Preceding(R, T, i))
      <4> HIDE DEF T
      <4>1. \A k \in 0..Cardinality(T) - 1 : k \in Nat
        OBVIOUS
      <4> QED BY <1>4, <1>6, <3>1, <4>1, RanksGrow
    <3>4. <<j, i>> \notin R
      BY <1>2, <3>2, <3>3
    <3>5. ~(Score(m, j) > Score(m, i))
      BY <1>1, <3>1, <3>4 DEF R, ByScore, Better
    <3>6. Score(m, i) \in Int /\ Score(m, j) \in Int
      <4>1. m[i] \in Int /\ m[j] \in Int /\ Focus \in Int /\ i \in Int /\ j \in Int
        BY <3>1, FocusAssumption
      <4>2. \A a, b \in Int : a * b \in Int /\ a + b \in Int
        OBVIOUS
      <4>3. 100 * n * m[i] \in Int /\ 35 * Focus * i \in Int
            /\ 100 * n * m[j] \in Int /\ 35 * Focus * j \in Int
        BY <4>1, <4>2
      <4> QED BY <1>1, <4>3 DEF Score
    <3> QED BY <3>5, <3>6
  <2> QED BY <1>5, <1>9, <2>1, <2>2
<1> QED BY <1>5, <1>8, <1>9

(***************************************************************************)
(* What is left of a section                                               *)
(***************************************************************************)

(* The first n of the lines are at most n. *)
LEMMA FirstAreFew ==
  ASSUME lines \subseteq Nat, IsFiniteSet(lines), NEW n \in Nat
  PROVE  Cardinality(First(n)) <= n /\ First(n) \subseteq lines /\ IsFiniteSet(First(n))
<1>1. First(n) \in SUBSET lines /\ First(n) \subseteq Nat
  BY DEF First
<1>2. IsFiniteSet(First(n))
  BY <1>1, FS_Subset
<1>3. CASE First(n) = {}
  BY <1>1, <1>2, <1>3, FS_EmptySet
<1>4. CASE First(n) # {}
  <2> DEFINE R == {p \in Nat \X Nat : p[1] > p[2]}
             F == First(n)
  <2>1. Orders(R, F)
    BY <1>1 DEF Orders
  <2>2. Cardinality(F) \in Nat \ {0}
    BY <1>2, <1>4, FS_EmptySet, FS_CardinalityType
  <2>3. PICK x \in F : Cardinality(Preceding(R, F, x)) = 0
    <3>1. /\ RankIn(R, F) \in [F -> 0..Cardinality(F) - 1]
          /\ \A i \in 0..Cardinality(F) - 1 : \E t \in F : RankIn(R, F)[t] = i
      <4> HIDE DEF R, F
      <4>1. IsFiniteSet(F)
        BY <1>2 DEF F
      <4> DEFINE whole == RankIn(R, F)
                 U == 0..Cardinality(F) - 1
      <4>2. whole \in Bijection(F, U)
        BY <2>1, <4>1, RanksAreTaken
      <4> HIDE DEF whole, U
      <4>3. whole \in [F -> U] /\ \A i \in U : \E t \in F : whole[t] = i
        BY <4>2, Fun_BijectionProperties
      <4> QED BY <4>3 DEF whole, U
    <3>2. 0 \in 0..Cardinality(F) - 1
      BY <2>2
    <3>3. PICK x \in F : RankIn(R, F)[x] = 0
      BY <3>1, <3>2
    <3> QED BY <3>3 DEF RankIn
  <2>4. \A y \in F : y <= x
    <3>1. Preceding(R, F, x) \in SUBSET F
      BY DEF Preceding
    <3>2. Preceding(R, F, x) = {}
      BY <1>2, <2>3, <3>1, FS_Subset, FS_EmptySet
    <3> SUFFICES ASSUME NEW y \in F, ~(y <= x) PROVE FALSE
      OBVIOUS
    <3>3. y \in Nat /\ x \in Nat /\ y > x
      BY <1>1
    <3>4. <<y, x>> \in R
      BY <3>3
    <3> QED BY <3>2, <3>4 DEF Preceding
  <2>5. F \in SUBSET {j \in lines : j <= x} /\ {j \in lines : j <= x} \in SUBSET lines
    BY <1>1, <2>4
  <2>6. IsFiniteSet({j \in lines : j <= x})
    BY <2>5, FS_Subset
  <2>7. Cardinality(F) <= Cardinality({j \in lines : j <= x})
    BY <2>5, <2>6, FS_Subset
  <2>8. Cardinality({j \in lines : j <= x}) <= n
    BY DEF First
  <2>9. Cardinality({j \in lines : j <= x}) \in Nat
    BY <2>6, FS_CardinalityType
  <2> QED BY <1>1, <1>2, <2>2, <2>7, <2>8, <2>9
<1> QED BY <1>3, <1>4

(* As long as there are that many, the items left of a section start with   *)
(* its anchors: the lines as they were ranked, and as they were cut.        *)
Leading(k, shown) == 1..Smaller(Anchors[k], Cardinality(shown)) \subseteq shown

(* A section under way is as the ranking left it.                           *)
Ranked ==
  phase \in {"fit", "shorten"} =>
    /\ Len(match) \in Nat
    /\ lines \subseteq 1..Len(match)
    /\ Cardinality(lines) = Smaller(Len(match), Cap[key])
    /\ 1..Smaller(Smaller(Anchors[key], Len(match)), Cap[key]) \subseteq lines
    /\ \A i \in lines, j \in dropped[key] : i <= Anchors[key] \/ Score(match, i) >= Score(match, j)

RInv == AInv /\ Ranked /\ AnchorsFirst

LEMMA LinesLead ==
  ASSUME RInv, phase \in {"fit", "shorten"}
  PROVE  /\ IsFiniteSet(lines) /\ lines \subseteq Nat
         /\ Leading(key, lines)
         /\ \A n \in Nat : Leading(key, First(n))
<1>1. /\ key \in Keys /\ Len(match) \in Nat /\ lines \subseteq 1..Len(match)
      /\ Cardinality(lines) = Smaller(Len(match), Cap[key])
      /\ 1..Smaller(Smaller(Anchors[key], Len(match)), Cap[key]) \subseteq lines
  BY TextsAreNat DEF RInv, AInv, Ranked
<1>2. Anchors[key] \in Nat /\ Cap[key] \in Nat
  BY <1>1, SectionAssumption
<1>3. IsFiniteSet(lines) /\ lines \subseteq Nat
  <2>1. IsFiniteSet(1..Len(match)) /\ lines \in SUBSET (1..Len(match))
    BY <1>1, FS_Interval
  <2>2. IsFiniteSet(lines)
    BY <2>1, FS_Subset
  <2>3. lines \subseteq Nat
    BY <1>1
  <2> QED BY <2>2, <2>3
<1>4. \A j \in Nat \ {0} : j <= Anchors[key] /\ j <= Cardinality(lines) =>
        j \in lines /\ 1..j \subseteq lines
  BY <1>1, <1>2 DEF Smaller
<1>5. Cardinality(lines) \in Nat
  BY <1>1, <1>2 DEF Smaller
<1>6. Leading(key, lines)
  BY <1>2, <1>4, <1>5 DEF Leading, Smaller
<1>7. ASSUME NEW n \in Nat
      PROVE  Leading(key, First(n))
  <2>1. /\ Cardinality(First(n)) <= n /\ First(n) \in SUBSET lines /\ IsFiniteSet(First(n))
    BY <1>3, FirstAreFew
  <2>2. Cardinality(First(n)) <= Cardinality(lines) /\ Cardinality(First(n)) \in Nat
    BY <1>3, <2>1, FS_Subset, FS_CardinalityType
  <2> SUFFICES ASSUME NEW j \in 1..Smaller(Anchors[key], Cardinality(First(n)))
               PROVE  j \in First(n)
    BY DEF Leading
  <2>3. j \in Nat \ {0} /\ j <= Anchors[key] /\ j <= n /\ j <= Cardinality(lines)
    BY <1>2, <1>5, <2>1, <2>2 DEF Smaller
  <2>4. j \in lines /\ 1..j \subseteq lines
    BY <1>4, <2>3
  <2>5. {l \in lines : l <= j} = 1..j
    <3>1. \A l \in lines : l \in Nat /\ l >= 1
      BY <1>1
    <3>2. \A l \in lines : l <= j => l \in 1..j
      BY <2>3, <3>1
    <3>3. \A l \in 1..j : l \in lines /\ l <= j
      BY <2>3, <2>4
    <3> QED BY <3>2, <3>3
  <2>6. Cardinality(1..j) = j
    BY <2>3, FS_Interval
  <2> QED BY <2>3, <2>4, <2>5, <2>6 DEF First
<1> QED BY <1>3, <1>6, <1>7

(* An empty package leads. *)
LEMMA RankedInit == Init => RInv
<1> SUFFICES ASSUME Init PROVE Ranked /\ AnchorsFirst
  BY AccountInit DEF RInv
<1> QED BY DEF Init, Ranked, AnchorsFirst

(* A section left behind leads if what is shown of it does. *)
LEMMA LeftBehindLeads ==
  ASSUME RInv, key \in Keys, NEW shown, Leading(key, shown),
         package' = [package EXCEPT ![key] = shown], NextSection
  PROVE  Ranked' /\ AnchorsFirst'
<1>1. phase' \notin {"fit", "shorten"} /\ package \in [Keys -> SUBSET Nat]
  BY NextIsThere DEF RInv, AInv, IInv, TypeOK
<1>2. Ranked'
  BY <1>1 DEF Ranked
<1>3. \A k \in Keys : package'[k] = IF k = key THEN shown ELSE package[k]
  BY <1>1
<1>4. AnchorsFirst'
  BY <1>3 DEF RInv, AnchorsFirst, Leading, Keys
<1> QED BY <1>2, <1>4

LEMMA RankRanks ==
  ASSUME RInv, Rank
  PROVE  Ranked' /\ AnchorsFirst'
<1>1. TypeOK /\ phase = "rank" /\ key \in Keys /\ package' = package
  BY ConstantsAreNat DEF RInv, AInv, IInv, TypeOK, Rank, Keys
<1>2. AnchorsFirst'
  BY <1>1 DEF RInv, AnchorsFirst, Keys
<1>3. PICK n \in 0..Items[key] : \E m \in [1..n -> 0..Focus] :
        /\ match' = m
        /\ lines' = Kept(m)
        /\ dropped' = [dropped EXCEPT ![key] = 1..n \ Kept(m)]
  BY DEF Rank
<1>4. PICK m \in [1..n -> 0..Focus] :
        /\ match' = m
        /\ lines' = Kept(m)
        /\ dropped' = [dropped EXCEPT ![key] = 1..n \ Kept(m)]
  BY <1>3
<1>5. n \in Nat /\ Len(m) = n
  BY <1>1, SectionAssumption
<1>6. IF body' = <<>> THEN NextSection ELSE phase' = "fit" /\ UNCHANGED key
  BY DEF Rank
<1>7. CASE body' = <<>>
  <2>1. phase' \notin {"fit", "shorten"}
    BY <1>1, <1>6, <1>7, NextIsThere DEF RInv, AInv
  <2> QED BY <1>2, <2>1 DEF Ranked
<1>8. CASE body' # <<>>
  <2>1. key' = key /\ dropped'[key] = 1..n \ Kept(m)
    BY <1>1, <1>4, <1>6, <1>8 DEF TypeOK
  <2>2. Kept(m) \subseteq 1..n
    BY <1>1, <1>5, KeptIsThere
  <2>3. Ranked'
    BY <1>1, <1>4, <1>5, <2>1, <2>2, KeptAreBest DEF Ranked
  <2> QED BY <1>2, <2>3
<1> QED BY <1>7, <1>8

LEMMA RankedStep == RInv /\ [Next]_vars => RInv'
<1> SUFFICES ASSUME RInv, [Next]_vars PROVE Ranked' /\ AnchorsFirst'
  BY AccountStep DEF RInv
<1>1. CASE Rank
  BY <1>1, RankRanks
<1>2. ASSUME phase \in {"fit", "shorten"}
      PROVE  /\ key \in Keys /\ package \in [Keys -> SUBSET Nat]
             /\ Leading(key, lines) /\ \A n \in Nat : Leading(key, First(n))
  BY <1>2, LinesLead, TextsAreNat DEF RInv, AInv, IInv, TypeOK
<1>3. CASE IncludeWhole
  <2>1. phase = "fit" /\ package' = [package EXCEPT ![key] = lines] /\ NextSection
    BY <1>3 DEF IncludeWhole, Include
  <2> QED BY <1>2, <2>1, LeftBehindLeads
<1>4. CASE Trim
  <2>1. PICK n \in 1..Len(body) : Include(First(n), FirstLines(n))
    BY <1>4 DEF Trim
  <2>2. phase = "fit" /\ package' = [package EXCEPT ![key] = First(n)] /\ NextSection /\ n \in Nat
    <3>1. phase = "fit" /\ n \in Nat
      BY <1>4 DEF Trim, TooLarge
    <3>2. package' = [package EXCEPT ![key] = First(n)] /\ NextSection
      BY <2>1 DEF Include
    <3> QED BY <3>1, <3>2
  <2> QED BY <1>2, <2>2, LeftBehindLeads
<1>5. CASE Omit
  <2>1. phase = "fit" /\ package' = package /\ NextSection
    BY <1>5 DEF Omit, TooLarge
  <2>2. phase' \notin {"fit", "shorten"}
    BY <1>2, <2>1, NextIsThere DEF RInv, AInv
  <2> QED BY <2>1, <2>2 DEF RInv, Ranked, AnchorsFirst, Keys
<1>6. CASE BeginShortening
  BY <1>6 DEF BeginShortening, TooLarge, RInv, Ranked, AnchorsFirst, Score
<1>7. CASE Shorten
  BY <1>7 DEF Shorten, RInv, Ranked, AnchorsFirst, Score
<1>8. CASE IncludeShortened
  <2>1. phase = "shorten" /\ package' = [package EXCEPT ![key] = lines] /\ NextSection
    BY <1>8 DEF IncludeShortened, Include
  <2> QED BY <1>2, <2>1, LeftBehindLeads
<1>9. CASE UNCHANGED vars
  BY <1>9 DEF vars, section, RInv, Ranked, AnchorsFirst, Score
<1> QED BY <1>1, <1>3, <1>4, <1>5, <1>6, <1>7, <1>8, <1>9 DEF Next

(* The ranking fills the cap, and drops nothing for the sake of an item     *)
(* that is neither an anchor nor better (_rank).                            *)
THEOREM TheBestAreKept == Spec => []BestKept
<1>1. RInv => BestKept
  BY DEF RInv, Ranked, BestKept
<1> QED BY <1>1, RankedInit, RankedStep, PTL DEF Spec

(* However little of a section is left by the cap and by the cut, it begins *)
(* with the anchors (_rank and _truncate agree on what matters most).       *)
THEOREM AnchorsComeFirst == Spec => []AnchorsFirst
<1>1. RInv => AnchorsFirst
  BY DEF RInv
<1> QED BY <1>1, RankedInit, RankedStep, PTL DEF Spec
=============================================================================
