----------------------------- MODULE TaskLedger -----------------------------
(***************************************************************************)
(* What the engine promises a caller about one task, whatever happens to   *)
(* the process that drives it: a ledger of turns and the last verdict the  *)
(* caller can read in the tasks table.                                     *)
(*                                                                         *)
(*   - a turn recorded as done is done for good: it is never run again;    *)
(*   - the verdict "completed" is announced only when every turn is done,  *)
(*     "failed" only when some turn is recorded as failed;                 *)
(*   - "completed" is the last word on a task.                             *)
(*                                                                         *)
(* Orchestrator implements this specification (Orchestrator!Ledger).       *)
(***************************************************************************)
CONSTANT Turns              \* the seq numbers of the task's assignments

VARIABLES
  ledger,                   \* Turns -> "open" | "failed" | "done"
  verdict                   \* the status a reader of the task sees

vars == <<ledger, verdict>>

Init ==
  /\ ledger = [t \in Turns |-> "open"]
  /\ verdict = "none"

AllDone == \A t \in Turns : ledger[t] = "done"

(* The task row is written for the first time. *)
Submit ==
  /\ verdict = "none"
  /\ verdict' = "created"
  /\ UNCHANGED ledger

(* An invocation starts working on a task that is not completed. *)
Start ==
  /\ verdict \in {"created", "running", "paused", "failed"}
  /\ verdict' = "running"
  /\ UNCHANGED ledger

(* The outcome of one turn is recorded; a done turn is never recorded again. *)
Record(t, outcome) ==
  /\ verdict = "running"
  /\ ledger[t] # "done"
  /\ ledger' = [ledger EXCEPT ![t] = outcome]
  /\ UNCHANGED verdict

(* The invocation ends and announces how the task stands. *)
Conclude(v) ==
  /\ verdict = "running"
  /\ v = "completed" => AllDone
  /\ v = "failed" => \E t \in Turns : ledger[t] = "failed"
  /\ verdict' = v
  /\ UNCHANGED ledger

Next ==
  \/ Submit
  \/ Start
  \/ \E t \in Turns, outcome \in {"failed", "done"} : Record(t, outcome)
  \/ \E v \in {"completed", "failed", "paused"} : Conclude(v)

Spec == Init /\ [][Next]_vars

=============================================================================
