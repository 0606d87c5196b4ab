------------------------------- MODULE Planner -------------------------------
(***************************************************************************)
(* From a sentence to the turns of a run: the plan editor of the page      *)
(* (web/static/js/setup.js), POST /api/plan/split and the preparation of a *)
(* run (web/server.py), the planner (core/planner.py) and the assignments  *)
(* of the orchestrator.                                                    *)
(*                                                                         *)
(* The divisions of BudgetSplit are computed by the server for a plan it   *)
(* answers with and by the page after every edit.  Both are local and      *)
(* uninterrupted, so that one set of variables serves them in turn; the    *)
(* page can be edited while the server is being waited for.                *)
(***************************************************************************)
EXTENDS BudgetSplit, SequencesExt, FiniteSetsExt

CONSTANTS
  MinSteps, MaxSteps,  \* what the planner clamps a number of steps to
  MaxTotal,            \* and a total, from above
  DefaultSteps,        \* steps asked for when the editor is empty
  DemoSteps,           \* rows of the editor when the page opens
  Shapes,              \* templates of the offline planner
  SliderMin, SliderMax, SliderStep,  \* the slider of the total
  Positions,           \* where a reader puts it; the first is where it starts
  Typed,               \* shares a reader types
  FlatBudgets,         \* the slider of the budget per turn
  NumWorkers,          \* workers of workers.json, which the stand-in runs
  MaxRows,             \* bound: rows of the editor
  MaxAnswer,           \* bound: rows a model answers with
  MaxEdits             \* bound: edits, plans asked for and runs

ASSUME PlannerAssumption ==
  /\ {MinSteps, MaxSteps, MaxTotal, DefaultSteps, DemoSteps, NumWorkers, MaxAnswer} \subseteq Nat
  /\ 2 <= MinSteps /\ MinSteps <= MaxSteps
  /\ Shapes \subseteq Seq(STRING) /\ \A shape \in Shapes : Len(shape) >= 2
  /\ Typed \subseteq Nat
ASSUME SliderAssumption ==
  /\ SliderMin \in Nat /\ SliderMax \in Nat /\ SliderStep \in Nat \ {0}
  /\ SliderMin <= SliderMax /\ (SliderMax - SliderMin) % SliderStep = 0
  /\ Len(Positions) >= 1 /\ Positions \in Seq(SliderMin..SliderMax)
  /\ MaxSteps * MinBudget <= SliderMax  \* the minima fit on the slider
  /\ SliderMin <= MaxTotal
  /\ 3 * Grain <= 2 * SliderMax

VARIABLES
  mode,   \* one: the engine divides a total; seq: every turn gets the same
  rows,   \* the editor: what each step says, its share, whether it was typed
  total,  \* the slider
  label,  \* the total written beside it
  job,    \* none, or refresh, page or server: whose division is going on
  asked,  \* the plan request under way
  plan,   \* the steps the server found, their shares not yet divided
  sent,   \* the request of the last run
  turns,  \* the turns it was given
  edits

pageVars == <<mode, rows, total, label, asked, plan, sent, turns, edits>>
vars == <<splitVars, job, pageVars>>

Blank == "blank"
NoPlan == [steps |-> 0, total |-> 0]
NoRun == [plan |-> <<>>]
Row(text, cap) == [text |-> text, cap |-> cap, manual |-> FALSE]
Sum(s) ==
  LET upto[i \in 0..Len(s)] == IF i = 0 THEN 0 ELSE upto[i - 1] + s[i]
  IN  upto[Len(s)]

(* The elements of s at these places, in their order. *)
Sifted(s, places) ==
  [j \in 1..Cardinality(places) |->
     s[CHOOSE i \in places : Cardinality({l \in places : l <= i}) = j]]

(* The steps that say something. *)
PlanSteps == Sifted(rows, {i \in DOMAIN rows : rows[i].text # Blank})
Texts(steps) == [i \in DOMAIN steps |-> steps[i].text]
Caps(steps) == [i \in DOMAIN steps |-> steps[i].cap]

Init ==
  /\ SplitInit
  /\ mode = "one" /\ total = Positions[1] /\ label = total
  /\ rows = [i \in 1..DemoSteps |-> Row("demo", 0)]
  /\ job = "refresh"
  /\ asked = NoPlan /\ plan = <<>> /\ sent = NoRun /\ turns = <<>>
  /\ edits = 0

(* The page's shares are divided anew if it has any. *)
Refresh == job' = IF mode' = "one" THEN "refresh" ELSE "none"

ApplyCaps ==
  /\ job = "refresh"
  /\ Divide(total, Len(rows))
  /\ job' = "page"
  /\ UNCHANGED pageVars

Splitting ==
  /\ job \in {"page", "server"}
  /\ SplitStep
  /\ UNCHANGED <<job, pageVars>>

(* Every share that was not typed is replaced. *)
FillCaps ==
  /\ job = "page" /\ stage = "done"
  /\ rows' = [i \in DOMAIN rows |->
       IF rows[i].manual THEN rows[i] ELSE [rows[i] EXCEPT !.cap = shares[i]]]
  /\ job' = "none"
  /\ UNCHANGED <<splitVars, mode, total, label, asked, plan, sent, turns, edits>>

(***************************************************************************)
(* The editor                                                              *)
(***************************************************************************)

Editing == job = "none" /\ edits < MaxEdits /\ edits' = edits + 1
EditRows(new) ==
  /\ rows' = new
  /\ UNCHANGED <<splitVars, mode, total, label, asked, plan, sent, turns>>

AddStep ==
  /\ Editing /\ Len(rows) < MaxRows
  /\ EditRows(Append(rows, Row(Blank, 0))) /\ Refresh

(* Deviation: the shares of the remaining steps stay as they were. *)
RemoveStepOnly ==
  /\ Editing
  /\ \E i \in DOMAIN rows : EditRows(RemoveAt(rows, i))
  /\ UNCHANGED job

RemoveStep ==
  /\ Editing
  /\ \E i \in DOMAIN rows : EditRows(RemoveAt(rows, i))
  /\ Refresh

Type ==
  /\ Editing
  /\ \E i \in DOMAIN rows :
       EditRows([rows EXCEPT ![i].text = IF @ = Blank THEN "written" ELSE Blank])
  /\ Refresh

(* Shares are shown, and so can be typed, in the one mode only. *)
TypeCap ==
  /\ Editing /\ mode = "one"
  /\ \E i \in DOMAIN rows, cap \in Typed :
       EditRows([rows EXCEPT ![i] = [@ EXCEPT !.cap = cap, !.manual = TRUE]])
  /\ Refresh

ClearCap ==
  /\ Editing /\ mode = "one"
  /\ \E i \in DOMAIN rows :
       /\ rows[i].manual
       /\ EditRows([rows EXCEPT ![i] = [@ EXCEPT !.cap = 0, !.manual = FALSE]])
  /\ Refresh

MoveSlider ==
  /\ Editing /\ mode = "one"
  /\ total' \in ToSet(Positions) \ {total} /\ label' = total'
  /\ UNCHANGED <<splitVars, mode, rows, asked, plan, sent, turns>>
  /\ Refresh

SetMode ==
  /\ Editing
  /\ mode' \in {"one", "seq"} \ {mode}
  /\ Refresh
  /\ UNCHANGED <<splitVars, rows, total, label, asked, plan, sent, turns>>

(***************************************************************************)
(* A plan is asked for                                                     *)
(***************************************************************************)

(* Deviation: no number is too high. *)
ClampBelow(low, high, x) == AtLeast(low, x)

Clamp(low, high, x) == AtLeast(low, AtMost(high, x))

AskForAPlan ==
  /\ Editing /\ mode = "one" /\ asked = NoPlan
  /\ asked' = [steps |-> AtLeast(2, IF PlanSteps = <<>> THEN DefaultSteps
                                                         ELSE Len(PlanSteps)),
               total |-> total]
  /\ UNCHANGED <<splitVars, job, mode, rows, total, label, plan, sent, turns>>

PlanFails ==
  /\ job = "none" /\ asked # NoPlan
  /\ asked' = NoPlan
  /\ UNCHANGED <<splitVars, job, mode, rows, total, label, plan, sent, turns, edits>>

(* A template's first step and its review, the middle squeezed or stretched. *)
HeuristicPlan(shape, wanted) ==
  LET count == Clamp(MinSteps, MaxSteps, wanted)
      middle == Tail(Front(shape))
      chosen == IF count - 2 <= Len(middle)
                THEN SubSeq(middle, 1, count - 2)
                ELSE middle \o [i \in 1..(count - 2 - Len(middle)) |-> "carry"]
  IN  <<Head(shape)>> \o chosen \o <<Last(shape)>>

(* The usable rows among the first of an answer, no more than asked for. *)
ParsePlan(answer, count) ==
  LET read == SubSeq(answer, 1, AtMost(MaxSteps, Len(answer)))
      usable == Sifted(read, {i \in DOMAIN read : read[i] # Blank})
  IN  SubSeq(usable, 1, AtMost(count, Len(usable)))

(* What a model says, or nothing when there is none, it fails, or its text *)
(* holds no object.                                                        *)
Answers == SeqOf({Blank, "modelled"}, MaxAnswer)

SplitPlan ==
  /\ job = "none" /\ asked # NoPlan
  /\ LET count == Clamp(MinSteps, MaxSteps, asked.steps) IN
     \E answer \in Answers, shape \in Shapes :
       LET parsed == ParsePlan(answer, count)
           steps == IF parsed = <<>> THEN HeuristicPlan(shape, count) ELSE parsed
       IN  /\ plan' = steps
           /\ Divide(AtLeast(count * MinBudget, AtMost(MaxTotal, asked.total)), Len(steps))
  /\ job' = "server"
  /\ UNCHANGED <<mode, rows, total, label, asked, sent, turns, edits>>

(* A range input keeps to its ends and to its steps. *)
Snapped(x) ==
  SliderMin + SliderStep *
    ((2 * (Clamp(SliderMin, SliderMax, x) - SliderMin) + SliderStep) \div (2 * SliderStep))

(* The answer replaces the editor, whatever was done to it meanwhile.  Its   *)
(* total is written beside the slider as it is, the slider snaps.           *)
PlanArrives ==
  /\ job = "server" /\ stage = "done"
  /\ rows' = [i \in DOMAIN plan |-> Row(plan[i], shares[i])]
  /\ label' = Sum(shares) /\ total' = Snapped(label')
  /\ asked' = NoPlan /\ plan' = <<>>
  /\ UNCHANGED <<splitVars, mode, sent, turns, edits>>
  /\ Refresh

(***************************************************************************)
(* A run is started                                                        *)
(***************************************************************************)

BuildRunBody(flat, standIn) ==
  [plan |-> Texts(PlanSteps),
   budgets |-> IF mode = "one" THEN Caps(PlanSteps) ELSE <<>>,
   budget |-> flat,
   workers |-> IF standIn THEN NumWorkers ELSE Len(PlanSteps),
   mode |-> mode]

Run ==
  /\ Editing /\ PlanSteps # <<>>
  /\ \E flat \in FlatBudgets, standIn \in BOOLEAN : sent' = BuildRunBody(flat, standIn)
  /\ turns' = <<>>
  /\ UNCHANGED <<splitVars, job, mode, rows, total, label, asked, plan>>

(* Deviation: numbered among the shares there are. *)
StepBudgetsClosedUp(budgets) ==
  LET some == SelectSeq(budgets, LAMBDA b : b # 0)
  IN  [i \in DOMAIN some |-> AtLeast(MinBudget, some[i])]

(* Numbered by their place, none below the minimum; no share, no ceiling.   *)
StepBudgets(budgets) ==
  [i \in {j \in DOMAIN budgets : budgets[j] # 0} |-> AtLeast(MinBudget, budgets[i])]

(* Every worker has a turn. *)
Assigned(steps, workers) ==
  steps \o [i \in 1..AtLeast(0, workers - Len(steps)) |-> "continue"]

Prepare ==
  /\ job = "none" /\ sent # NoRun /\ turns = <<>>
  /\ LET tasks == Assigned(sent.plan, sent.workers)
         ceilings == StepBudgets(sent.budgets)
     IN  turns' = [i \in DOMAIN tasks |->
           [task |-> tasks[i],
            ceiling |-> IF i \in DOMAIN ceilings THEN ceilings[i] ELSE sent.budget]]
  /\ UNCHANGED <<splitVars, job, mode, rows, total, label, asked, plan, sent, edits>>

Next ==
  \/ ApplyCaps \/ Splitting \/ FillCaps
  \/ AddStep \/ RemoveStep \/ Type \/ TypeCap \/ ClearCap \/ MoveSlider \/ SetMode
  \/ AskForAPlan \/ PlanFails \/ SplitPlan \/ PlanArrives
  \/ Run \/ Prepare

Spec == Init /\ [][Next]_vars

(***************************************************************************)
(* Properties                                                              *)
(***************************************************************************)

(* Plans keep to the limits of the planner and shares have a sensible size: *)
(* none exceeds what a reader typed or the slider can give.                 *)
TypeOK ==
  /\ mode \in {"one", "seq"} /\ total \in SliderMin..SliderMax
  /\ label \in Int /\ label <= SliderMax
  /\ job \in {"none", "refresh", "page", "server"}
  /\ \A i \in DOMAIN rows :
       rows[i].cap \in Typed \/ rows[i].cap \in 0..AtLeast(MinBudget, SliderMax)
  /\ job = "server" => Len(plan) \in 1..MaxSteps
  /\ asked # NoPlan => asked.steps >= 2

(* How far split_budget may be from what is written about it.  "Giving      *)
(* later steps more": it gives them no less, but what it takes back it      *)
(* takes from the last share, not from the largest, which can then fall     *)
(* short of the one before it (4500 between 8 steps ends 700, 650); where   *)
(* one does, all after it have the minimum.  "A budget division that adds   *)
(* up to what was asked for": what rounding adds is taken back, what it     *)
(* loses is not given out (5500 between 7 steps add up to 5450), at most    *)
(* half a grain a step.                                                     *)
FairShares ==
  stage = "done" /\ n >= 1 =>
    /\ 2 * (pot - Sum(shares)) <= n * Grain
    /\ \A j \in 1..(n - 1) : shares[j] > shares[j + 1] =>
         \A l \in (j + 2)..n : shares[l] = MinBudget

(* Between edits the shares shown and not typed are those of the slider's   *)
(* total, divided between the rows shown, whatever was added, removed,      *)
(* planned or switched before; they are what a run is sent.  The total that *)
(* is written beside the slider need not be that one: after a plan arrived  *)
(* it may be off by half a step of the slider, and where the slider begins  *)
(* by what rounding lost.                                                   *)
ShownSharesCurrent ==
  /\ job = "none" /\ mode = "one" /\ rows # <<>> =>
       /\ pot = total /\ n = Len(rows)
       /\ \A i \in DOMAIN rows : rows[i].manual \/ rows[i].cap = shares[i]
  /\ IF label >= SliderMin
       THEN 2 * (label - total) \in -SliderStep..SliderStep
       ELSE total = SliderMin /\ 2 * (total - label) <= MaxSteps * Grain

(* Each step of the editor that says something becomes the turn of its     *)
(* place, told as much as the page showed beside it, or the minimum, and   *)
(* whatever turn has no share is told the budget for all: one whose share  *)
(* is empty, one a worker beyond the steps is given, and with one budget   *)
(* for all every turn.                                                     *)
ShareOf(i) ==
  IF sent.mode = "one" /\ i \in DOMAIN sent.plan /\ sent.budgets[i] # 0
  THEN AtLeast(MinBudget, sent.budgets[i])
  ELSE sent.budget
TurnsGetTheirShare ==
  turns # <<>> =>
    /\ IsPrefix(sent.plan, [i \in DOMAIN turns |-> turns[i].task])
    /\ Len(turns) >= sent.workers
    /\ \A i \in DOMAIN turns : turns[i].ceiling = ShareOf(i)
=============================================================================
