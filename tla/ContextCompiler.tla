-------------------------- MODULE ContextCompiler --------------------------
(***************************************************************************)
(* One call of ContextCompiler.compile (context/compiler.py): the sections *)
(* of a package, from the most important one on, go into a budget.         *)
(*                                                                         *)
(* A section is ranked (_rank: anchors first, then relevance blended with  *)
(* recency, up to a cap), and then included whole, or cut to its first     *)
(* lines, or omitted; the assigned task and the objective are included     *)
(* whatever they cost, after their text was shortened.  The code ranks all *)
(* sections before it fills the first; as no section looks at another,     *)
(* each is ranked here when its turn comes.                                *)
(*                                                                         *)
(* Of an item the model keeps its place and how many words of the task and *)
(* the objective it has.  Of a section's text it keeps body[n], the        *)
(* characters of the first n lines with the line breaks between them.      *)
(* Tokens are those of HeuristicTokenEstimator for prose whose words are   *)
(* not shorter than three letters on average; a cut does not end in blanks. *)
(***************************************************************************)
EXTENDS Naturals, Sequences, FiniteSets

CONSTANTS
  Budgets,    \* budgets a package may be given
  Title,      \* characters of the title of each section, by priority
  Cap,        \* max_decisions and its like: items of a section at most
  Anchors,    \* anchor_items where the section has anchors, else 0
  Placeheld,  \* the sections that say "None." when they have no item
  Focus,      \* words of the task and the objective
  Items,      \* bound: items the state has for a section
  Bodies      \* bound: lengths of the first lines of a section

Keys == 1..Len(Title)

(* ALWAYS_KEEP: the assigned task and the objective, one line each. *)
Required == {1, 2}

ASSUME BudgetAssumption == Budgets \subseteq Nat \ {0}
ASSUME SectionAssumption ==
  /\ Title \in Seq(Nat) /\ Required \subseteq Keys
  /\ Cap \in [Keys -> Nat] /\ Anchors \in [Keys -> Nat] /\ Items \in [Keys -> Nat]
  /\ Placeheld \subseteq Keys \ Required
  /\ \A k \in Required : Items[k] <= 1 /\ Cap[k] >= 1      \* they are not ranked
ASSUME FocusAssumption == Focus \in Nat \ {0}
ASSUME BodyAssumption == Bodies \subseteq Nat \ {0}

VARIABLES
  budget,   \* of the package
  key,      \* the section under way
  phase,    \* rank, fit or shorten that section; or done
  match,    \* its items' words in common with the focus
  lines,    \* the items in it, which stay in their order
  body,     \* the length of its first lines
  text,     \* what is left of a required text that is shortened
  length,   \* characters of the package rendered so far
  items,    \* how many items the state has for each section
  package,  \* those that are in the package
  dropped,  \* those reported as dropped
  forced,   \* required sections included although they did not fit
  unfit     \* those that do not even suffice at their shortest

section == <<match, lines, body, text>>
vars == <<budget, key, phase, section, length, items, package, dropped, forced, unfit>>

Init ==
  /\ budget \in Budgets
  /\ key = 1
  /\ phase = "rank"
  /\ match = <<>> /\ lines = {} /\ body = <<>> /\ text = 0
  /\ length = 0
  /\ items = [k \in Keys |-> 0]
  /\ package = [k \in Keys |-> {}]
  /\ dropped = [k \in Keys |-> {}]
  /\ forced = {} /\ unfit = {}

Smaller(m, n) == IF m < n THEN m ELSE n

(***************************************************************************)
(* Ranking                                                                 *)
(***************************************************************************)

(* relevance + 0.35 * recency, over a common denominator. *)
Score(m, i) == 100 * Len(m) * m[i] + 35 * Focus * i

(* The items that go before i: the later ones of those with its score too. *)
Better(m, i) == {j \in 1..Len(m) : Score(m, j) > Score(m, i) \/ (Score(m, j) = Score(m, i) /\ j > i)}

(* Deviation: the anchors are not taken off the cap. *)
KeptUncapped(m) ==
  LET anchored == 1..Smaller(Anchors[key], Len(m))
  IN anchored \cup {i \in 1..Len(m) : Cardinality(Better(m, i) \ anchored) < Cap[key]}

(* The anchors, and the best of the others as far as the cap allows. *)
Kept(m) ==
  LET anchored == 1..Smaller(Smaller(Anchors[key], Len(m)), Cap[key])
      room == Cap[key] - Cardinality(anchored)
  IN anchored \cup {i \in 1..Len(m) : Cardinality(Better(m, i) \ anchored) < room}

(* Lengths that n lines may have. *)
BodiesOf(n) == {b \in [1..n -> Bodies] : \A i \in 1..n - 1 : b[i] + 1 < b[i + 1]}

(* Deviation: the last section is left out. *)
NextSectionButLast ==
  /\ key' = key + 1
  /\ phase' = IF key + 1 >= Len(Title) THEN "done" ELSE "rank"

(* The loop goes on to the next section, or ends. *)
NextSection ==
  /\ key' = key + 1
  /\ phase' = IF key = Len(Title) THEN "done" ELSE "rank"

(* A section without lines is not added. *)
Rank ==
  /\ phase = "rank"
  /\ \E n \in 0..Items[key] : \E m \in [1..n -> 0..Focus] :
       /\ match' = m
       /\ items' = [items EXCEPT ![key] = n]
       /\ lines' = Kept(m)
       /\ dropped' = [dropped EXCEPT ![key] = 1..n \ Kept(m)]
       /\ body' \in BodiesOf(IF n = 0 /\ key \in Placeheld THEN 1 ELSE Cardinality(Kept(m)))
  /\ IF body' = <<>> THEN NextSection ELSE phase' = "fit" /\ UNCHANGED key
  /\ UNCHANGED <<budget, text, length, package, forced, unfit>>

(***************************************************************************)
(* Filling                                                                 *)
(***************************************************************************)

(* HeuristicTokenEstimator.count *)
Tokens(chars) == (chars + 3) \div 4

(* The rendered section: all its lines, or the first n and the note         *)
(* "(truncated to fit token budget)" on a line of its own.                  *)
Whole == Title[key] + 2 + body[Len(body)]
FirstLines(n) == Title[key] + 2 + body[n] + 32

(* The items in the first n lines. *)
First(n) == {i \in lines : Cardinality({j \in lines : j <= i}) <= n}

(* The package with one more section, a blank line before it. *)
With(chars) == IF length = 0 THEN chars ELSE length + 2 + chars

(* Deviation: the cost as a sum of estimates. *)
FitsInSum(chars) == Tokens(length) + Tokens(chars) <= budget

(* The cost of the rendered package is within the budget. *)
Fits(chars) == Tokens(With(chars)) <= budget

(* The section goes into the package with these items. *)
Include(shown, chars) ==
  /\ package' = [package EXCEPT ![key] = shown]
  /\ length' = With(chars)
  /\ NextSection
  /\ UNCHANGED <<budget, section, items, forced>>

IncludeWhole ==
  /\ phase = "fit"
  /\ Fits(Whole)
  /\ Include(lines, Whole)
  /\ UNCHANGED <<dropped, unfit>>

TooLarge == phase = "fit" /\ ~Fits(Whole)

(* As many of the first lines as fit with the note. *)
MostThatFit(n) ==
  /\ \A i \in 1..n : Fits(FirstLines(i))
  /\ n < Len(body) => ~Fits(FirstLines(n + 1))

(* Deviation: the first line cut off is not reported. *)
TrimUnreported ==
  /\ TooLarge /\ key \notin Required
  /\ \E n \in 1..Len(body) :
       /\ MostThatFit(n)
       /\ Include(First(n), FirstLines(n))
       /\ dropped' = [dropped EXCEPT ![key] = @ \cup (lines \ First(n + 1))]
  /\ UNCHANGED unfit

(* Deviation: the latest lines are kept. *)
TrimFromFront ==
  /\ TooLarge /\ key \notin Required
  /\ \E n \in 1..Len(body) :
       /\ MostThatFit(n)
       /\ Include(lines \ First(Len(body) - n), FirstLines(n))
       /\ dropped' = [dropped EXCEPT ![key] = @ \cup First(Len(body) - n)]
  /\ UNCHANGED unfit

(* The first lines stay, the others are reported. *)
Trim ==
  /\ TooLarge /\ key \notin Required
  /\ \E n \in 1..Len(body) :
       /\ MostThatFit(n)
       /\ Include(First(n), FirstLines(n))
       /\ dropped' = [dropped EXCEPT ![key] = @ \cup (lines \ First(n))]
  /\ UNCHANGED unfit

(* Not even the first line fits: all of it is reported. *)
Omit ==
  /\ TooLarge /\ key \notin Required
  /\ ~Fits(FirstLines(1))
  /\ dropped' = [dropped EXCEPT ![key] = @ \cup lines]
  /\ NextSection
  /\ UNCHANGED <<budget, section, length, items, package, forced, unfit>>

(* A required section that does not fit: _truncate. *)
BeginShortening ==
  /\ TooLarge /\ key \in Required
  /\ phase' = "shorten"
  /\ text' = body[Len(body)]
  /\ forced' = forced \cup {key}
  /\ UNCHANGED <<budget, key, match, lines, body, length, items, package, dropped, unfit>>

(* The section with what is left of its text, " ..." and the note. *)
Shortened ==
  Title[key] + 2 + IF text = body[Len(body)] THEN text ELSE text + 4 + 32

(* What _truncate takes for fitting: a sum of two estimates. *)
Suffices == Tokens(length) + Tokens(Shortened) <= budget

(* It suffices, or the text is as short as it may be.  That ends the loop  *)
(* before its own condition, that some text is left, can.                  *)
ShortEnough == Suffices \/ text <= 24

(* Deviation: a fifth of the original is cut off, again and again. *)
ShortenOriginal ==
  /\ phase = "shorten" /\ ~ShortEnough
  /\ text' = (4 * body[Len(body)]) \div 5
  /\ UNCHANGED <<budget, key, phase, match, lines, body, length, items, package, dropped,
                 forced, unfit>>

(* A fifth is cut off. *)
Shorten ==
  /\ phase = "shorten" /\ ~ShortEnough
  /\ text' = (4 * text) \div 5
  /\ UNCHANGED <<budget, key, phase, match, lines, body, length, items, package, dropped,
                 forced, unfit>>

IncludeShortened ==
  /\ phase = "shorten" /\ ShortEnough
  /\ Include(lines, Shortened)
  /\ unfit' = IF Suffices THEN unfit ELSE unfit \cup {key}
  /\ UNCHANGED dropped

Next ==
  \/ Rank
  \/ IncludeWhole
  \/ Trim
  \/ Omit
  \/ BeginShortening
  \/ Shorten
  \/ IncludeShortened

Spec == Init /\ [][Next]_vars

(* compile runs to its end. *)
FairSpec == Spec /\ WF_vars(Next)

(***************************************************************************)
(* Properties                                                              *)
(***************************************************************************)

(* Every variable has its type. *)
TypeOK ==
  /\ budget \in Budgets
  /\ key \in 1..Len(Title) + 1
  /\ phase \in {"rank", "fit", "shorten", "done"}
  /\ phase = "done" <=> key = Len(Title) + 1
  /\ lines \subseteq Nat
  /\ body \in Seq(Bodies)
  /\ text \in Nat
  /\ length \in Nat
  /\ items \in [Keys -> Nat]
  /\ package \in [Keys -> SUBSET Nat]
  /\ dropped \in [Keys -> SUBSET Nat]
  /\ forced \subseteq Required /\ unfit \subseteq forced

(* A package keeps to its budget but for what its required texts cost.  The *)
(* first costs more only if it does not fit at its shortest, and then no    *)
(* more than that; the second adds its shortest form if it does not fit at  *)
(* that, and one token if _truncate took it for fitting, because it adds up *)
(* two estimates and forgets the blank line between what they estimate.     *)
(* Nothing optional goes into a package that costs too much.                *)
Shortest(k) == Title[k] + 2 + 24 + 4 + 32
SpendingBounded ==
  /\ Tokens(length) <=
       (IF 1 \in unfit THEN Tokens(Shortest(1)) ELSE budget)
       + (IF 2 \in unfit THEN Tokens(2 + Shortest(2)) ELSE IF 2 \in forced THEN 1 ELSE 0)
  /\ 1 \in unfit => budget < Tokens(Shortest(1))
  /\ Tokens(length) > budget => \A k \in Keys \ Required : package[k] = {}

(* Nothing vanishes silently: of a section that is behind, every item the   *)
(* state has is in the package or reported as dropped, and not both; a      *)
(* required one is in the package.                                          *)
Accounted ==
  \A k \in Keys : k < key =>
    /\ package[k] \cup dropped[k] = 1..items[k]
    /\ package[k] \cap dropped[k] = {}
    /\ k \in Required => dropped[k] = {}

(* What little of a section is left begins with its anchors, however much   *)
(* better the later items score: ranking, capping and cutting agree.        *)
AnchorsFirst ==
  \A k \in Keys : package[k] # {} =>
    1..Smaller(Anchors[k], Cardinality(package[k])) \subseteq package[k]

(* The ranking fills the cap, and drops nothing for the sake of an item     *)
(* that is neither an anchor nor better.                                    *)
BestKept ==
  phase = "fit" =>
    /\ Cardinality(lines) = Smaller(Len(match), Cap[key])
    /\ \A i \in lines, j \in dropped[key] : i <= Anchors[key] \/ Score(match, i) >= Score(match, j)

(* Shortening comes to an end, and so does the compilation. *)
Compiles == <>(phase = "done")
=============================================================================
