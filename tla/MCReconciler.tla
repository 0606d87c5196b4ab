---------------------------- MODULE MCReconciler ----------------------------
(***************************************************************************)
(* A plan of two steps, and the texts two workers write: a step and the    *)
(* same step in other letters, the other step, the task of a surplus       *)
(* worker, and words of no task.                                           *)
(***************************************************************************)
EXTENDS Reconciler

MCTexts == {"Draft it", "draft it!", "Review", "Continue", "Logo"}
MCPlan == <<"Draft it", "Review">>
MCKey == [t \in MCTexts |->
            CASE t \in {"Draft it", "draft it!"} -> "draft it"
              [] t = "Review" -> "review"
              [] t = "Continue" -> "continue"
              [] t = "Logo" -> "logo"]
MCExtra == "Continue"
MCSense == MCKey

(* Two steps in Japanese, "draft" and "review": normalize leaves nothing of *)
(* either.                                                                  *)
JapaneseTexts == {"shitagaki", "minaoshi", "Continue"}
JapanesePlan == <<"shitagaki", "minaoshi">>
JapaneseKey == [t \in JapaneseTexts |-> IF t = "Continue" THEN "continue" ELSE ""]
JapaneseExtra == "Continue"
JapaneseSense == [t \in JapaneseTexts |-> t]
=============================================================================
