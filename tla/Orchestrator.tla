---------------------------- MODULE Orchestrator ----------------------------
(***************************************************************************)
(* ContextOrchestrator (core/orchestrator.py) driving one task against the *)
(* tables of SQLiteStore (storage/sqlite_store.py).                        *)
(*                                                                         *)
(* A process runs one invocation of run, resume or step at a time.  Every  *)
(* method of the store commits on its own, so the process can die between  *)
(* any two of them: what it held in memory is gone, the tables stay.       *)
(*                                                                         *)
(* Of the canonical state the model keeps what resumability depends on:    *)
(* status, worker_history and handoff_history.  reconcile and the history  *)
(* append happen in memory with no write between them, so the COMPLETED    *)
(* entries of a state's history are also the turns whose results have been *)
(* folded into it; module Reconciler models what is folded.                *)
(***************************************************************************)
EXTENDS Integers, Sequences, FiniteSets

CONSTANTS
  PlanLength,   \* non-blank steps of the submitted plan
  NumWorkers,   \* enabled workers of the roster
  StepLimits,   \* the max_steps values callers pass to step
  MaxCreates,   \* bound: create_task calls that use this task id
  MaxFailures,  \* bound: worker turns that end in a GatewayError
  MaxCrashes    \* bound: times the driving process dies

(* An empty plan and an empty roster are rejected with a ValueError. *)
ASSUME PlanAssumption == PlanLength \in Nat \ {0}
ASSUME RosterAssumption == NumWorkers \in Nat \ {0}
ASSUME LimitAssumption == StepLimits \subseteq Nat
ASSUME BoundAssumption ==
  MaxCreates \in Nat /\ MaxFailures \in Nat /\ MaxCrashes \in Nat

(***************************************************************************)
(* Assignments: one per plan step, padded so that every worker has a turn, *)
(* dealt to the workers in roster order.                                   *)
(***************************************************************************)
NumTurns == IF PlanLength < NumWorkers THEN NumWorkers ELSE PlanLength
Turns == 1..NumTurns
Workers == 1..NumWorkers
WorkerOf(t) == ((t - 1) % NumWorkers) + 1

NoTurn == 0
NoWorker == 0          \* previous_worker / to_worker is None
Unlimited == -1        \* max_steps is None

(***************************************************************************)
(* Records of the state and of the tables                                  *)
(***************************************************************************)
Status == {"created", "running", "paused", "failed", "completed"}
Outcome == {"FAILED", "COMPLETED"}

Entry == [seq : Turns, status : Outcome]
Handoff == [seq : Turns, from : Workers, to : Workers \cup {NoWorker}]
State == [status : Status, history : Seq(Entry), handoffs : Seq(Handoff)]
NewState == [status |-> "created", history |-> <<>>, handoffs |-> <<>>]

(* package is the ordinal of the turn's package the execution row cites. *)
Execution == [status : Outcome \cup {"NONE"}, package : Nat]
NoExecution == [status |-> "NONE", package |-> 0]
NoHandoff == [seq |-> NoTurn, from |-> NoWorker, to |-> NoWorker]

Summary == [used : Nat, relayed : Nat, failed : BOOLEAN]
NewSummary == [used |-> 0, relayed |-> 0, failed |-> FALSE]

Spent == [creates : Nat, failures : Nat, crashes : Nat]

VARIABLES
  (* the database *)
  taskStatus,   \* tasks.status, "none" while the row does not exist
  stored,       \* tasks.state_json
  executions,   \* worker_executions, by seq
  handoffs,     \* handoffs, by seq
  packages,     \* context_packages: how many were saved, by seq
  (* the memory of the driving process *)
  pc,           \* where the invocation stands
  mem,          \* the ExecutionState it works on
  pending,      \* assignments of this invocation that have not started
  turn,         \* the assignment being worked on
  limit,        \* max_steps
  previous,     \* previous_worker
  audited,      \* a handoff_audit was made for the current turn
  summary,      \* the RunSummary counters
  (* bounds *)
  used          \* creates, failures and crashes so far

db == <<taskStatus, stored, executions, handoffs, packages>>
local == <<pc, mem, pending, turn, limit, previous, audited, summary>>
vars == <<db, local, used>>

Init ==
  /\ taskStatus = "none"
  /\ stored = NewState
  /\ executions = [t \in Turns |-> NoExecution]
  /\ handoffs = [t \in Turns |-> NoHandoff]
  /\ packages = [t \in Turns |-> 0]
  /\ pc = "idle"
  /\ mem = NewState
  /\ pending = {}
  /\ turn = NoTurn
  /\ limit = Unlimited
  /\ previous = NoWorker
  /\ audited = FALSE
  /\ summary = NewSummary
  /\ used = [creates |-> 0, failures |-> 0, crashes |-> 0]

(***************************************************************************)
(* Helpers                                                                 *)
(***************************************************************************)

(* seqs with a COMPLETED row: what resume takes as done. *)
CompletedRows == {t \in Turns : executions[t].status = "COMPLETED"}

(* seqs COMPLETED in a state's history: what _has_remaining takes as done. *)
Absorbed(st) ==
  {t \in Turns :
     \E i \in DOMAIN st.history : st.history[i] = [seq |-> t, status |-> "COMPLETED"]}

HasRemaining(st) == \E t \in Turns : t \notin Absorbed(st)

(* remaining[:max_steps] *)
FirstTurns(remaining, max) ==
  IF max = Unlimited THEN remaining
  ELSE {t \in remaining : Cardinality({s \in remaining : s < t}) < max}

(* The process is gone or back at its prompt: nothing of it is left. *)
ForgetMemory ==
  /\ pc' = "idle"
  /\ mem' = NewState
  /\ pending' = {}
  /\ turn' = NoTurn
  /\ limit' = Unlimited
  /\ previous' = NoWorker
  /\ audited' = FALSE
  /\ summary' = NewSummary

(* save_state: one UPDATE writes tasks.status and tasks.state_json. *)
SaveStateRow(st) ==
  /\ taskStatus' = st.status
  /\ stored' = st

(***************************************************************************)
(* create_task and run                                                     *)
(***************************************************************************)

(* INSERT OR REPLACE writes a fresh task row; the rows other tables hold    *)
(* under the same task id are left as they are.  run goes on to _execute    *)
(* with every assignment; create stops here.                                *)
CreateTask(andRun) ==
  /\ pc = "idle"
  /\ used.creates < MaxCreates
  /\ used' = [used EXCEPT !.creates = @ + 1]
  /\ SaveStateRow(NewState)
  /\ IF andRun
       THEN pc' = "begin" /\ pending' = Turns
       ELSE UNCHANGED <<pc, pending>>
  /\ UNCHANGED <<executions, handoffs, packages, mem, turn, limit, previous,
                 audited, summary>>

(***************************************************************************)
(* resume and step                                                         *)
(***************************************************************************)

(* resume reads the task row first ... *)
LoadState(max) ==
  /\ pc = "idle"
  /\ taskStatus # "none"
  /\ mem' = stored
  /\ limit' = max
  /\ pc' = "loaded"
  /\ UNCHANGED <<db, pending, turn, previous, audited, summary, used>>

(* _execute over the first turns of remaining, or an answer at once. *)
ProceedWith(remaining) ==
  /\ pc = "loaded"
  /\ IF remaining = {}
       THEN ForgetMemory
       ELSE /\ pending' = FirstTurns(remaining, limit)
            /\ pc' = "begin"
            /\ UNCHANGED <<mem, turn, limit, previous, audited, summary>>
  /\ UNCHANGED <<db, used>>

(* Deviations: completed turns are run again; failed turns are not.         *)
LoadExecutionsRerunsAll == ProceedWith(Turns)
LoadExecutionsSkipsFailed == ProceedWith({t \in Turns : executions[t] = NoExecution})

(* ... then the execution rows; with nothing left it answers at once and    *)
(* touches no table.                                                        *)
LoadExecutions == ProceedWith(Turns \ CompletedRows)

(***************************************************************************)
(* _execute: one action per commit                                         *)
(***************************************************************************)
BeginRun ==
  /\ pc = "begin"
  /\ mem' = [mem EXCEPT !.status = "running"]
  /\ SaveStateRow(mem')
  /\ pc' = "turn"
  /\ UNCHANGED <<executions, handoffs, packages, pending, turn, limit, previous,
                 audited, summary, used>>

(* The next assignment: its package is compiled and saved, and an audit is  *)
(* made if an earlier worker of this invocation completed.                  *)
CompileTurn ==
  /\ pc = "turn"
  /\ \E t \in pending :
       /\ \A s \in pending : t <= s
       /\ turn' = t
       /\ pending' = pending \ {t}
       /\ packages' = [packages EXCEPT ![t] = @ + 1]
  /\ audited' = (previous # NoWorker)
  /\ pc' = "working"
  /\ UNCHANGED <<taskStatus, stored, executions, handoffs, mem, limit, previous,
                 summary, used>>

(* worker.execute raises GatewayError. *)
WorkerFails ==
  /\ pc = "working"
  /\ used.failures < MaxFailures
  /\ used' = [used EXCEPT !.failures = @ + 1]
  /\ mem' = [mem EXCEPT !.history = Append(@, [seq |-> turn, status |-> "FAILED"])]
  /\ pc' = "saveFailure"
  /\ UNCHANGED <<db, pending, turn, limit, previous, audited, summary>>

SaveFailure ==
  /\ pc = "saveFailure"
  /\ executions' = [executions EXCEPT
       ![turn] = [status |-> "FAILED", package |-> packages[turn]]]
  /\ pc' = "saveFailedState"
  /\ UNCHANGED <<taskStatus, stored, handoffs, packages, mem, pending, turn, limit,
                 previous, audited, summary, used>>

(* Deviation: the failed worker becomes the giver of the next handoff. *)
SaveFailedStateAdvances ==
  /\ pc = "saveFailedState"
  /\ SaveStateRow(mem)
  /\ summary' = [summary EXCEPT !.failed = TRUE]
  /\ previous' = WorkerOf(turn)
  /\ turn' = NoTurn
  /\ audited' = FALSE
  /\ pc' = "turn"
  /\ UNCHANGED <<executions, handoffs, packages, mem, pending, limit, used>>

(* previous_worker is not advanced: a worker that never ran handed nothing on. *)
SaveFailedState ==
  /\ pc = "saveFailedState"
  /\ SaveStateRow(mem)
  /\ summary' = [summary EXCEPT !.failed = TRUE]
  /\ turn' = NoTurn
  /\ audited' = FALSE
  /\ pc' = "turn"
  /\ UNCHANGED <<executions, handoffs, packages, mem, pending, limit, previous, used>>

(* The worker of seq + 1, when that assignment is in this invocation. *)
NextWorker == IF turn + 1 \in pending THEN WorkerOf(turn + 1) ELSE NoWorker

(* A completed turn is appended to both histories of the state. *)
FoldTurn(st, entry, handoff) ==
  [status |-> st.status,
   history |-> Append(st.history, entry),
   handoffs |-> Append(st.handoffs, handoff)]

(* worker.execute returns; its claims are reconciled into the state and the *)
(* turn and its handoff are appended to the histories, all in memory.       *)
WorkerSucceeds ==
  /\ pc = "working"
  /\ mem' = FoldTurn(mem, [seq |-> turn, status |-> "COMPLETED"],
                     [seq |-> turn, from |-> WorkerOf(turn), to |-> NextWorker])
  /\ summary' = [summary EXCEPT
       !.used = @ + 1,
       !.relayed = IF audited THEN @ + 1 ELSE @]
  /\ pc' = "saveExecution"
  /\ UNCHANGED <<db, pending, turn, limit, previous, audited, used>>

(* The execution row is committed, then the step at `next` follows. *)
CommitExecution(next) ==
  /\ pc = "saveExecution"
  /\ executions' = [executions EXCEPT
       ![turn] = [status |-> "COMPLETED", package |-> packages[turn]]]
  /\ pc' = next
  /\ UNCHANGED <<taskStatus, stored, handoffs, packages, mem, pending, turn, limit,
                 previous, audited, summary, used>>

(* Deviation: the handoff is not saved. *)
SaveExecutionOnly == CommitExecution("saveState")

SaveExecution == CommitExecution("saveHandoff")

SaveHandoff ==
  /\ pc = "saveHandoff"
  /\ handoffs' = [handoffs EXCEPT ![turn] = mem.handoffs[Len(mem.handoffs)]]
  /\ pc' = "saveState"
  /\ UNCHANGED <<taskStatus, stored, executions, packages, mem, pending, turn, limit,
                 previous, audited, summary, used>>

SaveState ==
  /\ pc = "saveState"
  /\ SaveStateRow(mem)
  /\ previous' = WorkerOf(turn)
  /\ turn' = NoTurn
  /\ audited' = FALSE
  /\ pc' = "turn"
  /\ UNCHANGED <<executions, handoffs, packages, mem, pending, limit, summary, used>>

(* Deviations: failures are forgotten; a single step always says "paused"; a *)
(* verdict no reader knows.                                                  *)
VerdictIgnoresFailures ==
  IF limit # Unlimited /\ HasRemaining(mem) THEN "paused" ELSE "completed"
VerdictPausesAlways ==
  IF summary.failed THEN "failed"
  ELSE IF limit # Unlimited THEN "paused"
  ELSE "completed"
VerdictUnknown == IF summary.failed THEN "error" ELSE "completed"

(* How the invocation says the task stands. *)
Verdict ==
  IF summary.failed THEN "failed"
  ELSE IF limit # Unlimited /\ HasRemaining(mem) THEN "paused"
  ELSE "completed"

Finish ==
  /\ pc = "turn"
  /\ pending = {}
  /\ mem' = [mem EXCEPT !.status = Verdict]
  /\ SaveStateRow(mem')
  /\ pc' = "setStatus"
  /\ UNCHANGED <<executions, handoffs, packages, pending, turn, limit, previous,
                 audited, summary, used>>

SetStatus ==
  /\ pc = "setStatus"
  /\ taskStatus' = mem.status
  /\ ForgetMemory
  /\ UNCHANGED <<stored, executions, handoffs, packages, used>>

(* The process dies, or an exception nobody handles ends the invocation. *)
Crash ==
  /\ pc # "idle"
  /\ used.crashes < MaxCrashes
  /\ used' = [used EXCEPT !.crashes = @ + 1]
  /\ ForgetMemory
  /\ UNCHANGED db

(***************************************************************************)
(* Specification                                                           *)
(***************************************************************************)
Create == \E andRun \in BOOLEAN : CreateTask(andRun)
Load == \E max \in StepLimits \cup {Unlimited} : LoadState(max)
EndTurn ==
  \/ WorkerFails \/ SaveFailure \/ SaveFailedState
  \/ WorkerSucceeds \/ SaveExecution \/ SaveHandoff \/ SaveState
Progress == LoadExecutions \/ BeginRun \/ CompileTurn \/ EndTurn \/ Finish \/ SetStatus

Next == Create \/ Load \/ Progress \/ Crash

Spec == Init /\ [][Next]_vars

(* A live process keeps running its invocation, and an operator keeps       *)
(* invoking resume: the repository promises progress only to such a one.    *)
FairSpec ==
  /\ Spec
  /\ WF_vars(Progress)
  /\ SF_vars(LoadState(Unlimited))

(***************************************************************************)
(* Properties                                                              *)
(***************************************************************************)
PCs == {"idle", "loaded", "begin", "turn", "working", "saveFailure",
        "saveFailedState", "saveExecution", "saveHandoff", "saveState", "setStatus"}

(* Every variable has its type. *)
TypeOK ==
  /\ taskStatus \in Status \cup {"none"}
  /\ stored \in State
  /\ executions \in [Turns -> Execution]
  /\ handoffs \in [Turns -> Handoff \cup {NoHandoff}]
  /\ packages \in [Turns -> Nat]
  /\ pc \in PCs
  /\ mem \in State
  /\ pending \in SUBSET Turns
  /\ turn \in Turns \cup {NoTurn}
  /\ limit \in StepLimits \cup {Unlimited}
  /\ previous \in Workers \cup {NoWorker}
  /\ audited \in BOOLEAN
  /\ summary \in Summary
  /\ used \in Spent

(* The stored state never runs ahead of the other tables: a turn whose work *)
(* it contains has its COMPLETED execution row and its handoff row.         *)
WriteAhead ==
  \A t \in Absorbed(stored) :
    executions[t].status = "COMPLETED" /\ handoffs[t].seq = t

(* No turn's result is reconciled into the same state twice, whatever the   *)
(* sequence of crashes, failures, retries and single steps.                 *)
FoldedOnce(st) ==
  \A i, j \in DOMAIN st.history :
    /\ st.history[i].seq = st.history[j].seq
    /\ st.history[i].status = "COMPLETED"
    /\ st.history[j].status = "COMPLETED"
    => i = j
ReconciledOnce == FoldedOnce(stored) /\ FoldedOnce(mem)

(* A COMPLETED execution row cites the last package compiled for its turn:  *)
(* no worker is given a package for a turn that has completed.              *)
NoReworkAfterCompletion ==
  \A t \in CompletedRows : executions[t].package = packages[t]

(* "completed" is stored only when every turn completed, "failed" only when *)
(* some turn's last recorded outcome is a failure.                          *)
VerdictIsEarned ==
  /\ taskStatus = "completed" => CompletedRows = Turns
  /\ taskStatus = "failed" => \E t \in Turns : executions[t].status = "FAILED"

(* The worker a handoff audit names as the giver is the author of the       *)
(* newest handoff in the state the package is compiled from, and            *)
(* structured_handoffs counts one handoff between each two consecutive      *)
(* workers that completed in the invocation, failed ones notwithstanding.   *)
AuditNamesGiver ==
  previous # NoWorker /\ pc \in {"turn", "working"} =>
    /\ mem.handoffs # <<>>
    /\ mem.handoffs[Len(mem.handoffs)].from = previous
HandoffsCounted ==
  summary.relayed = IF summary.used = 0 THEN 0 ELSE summary.used - 1
AuditTrail == AuditNamesGiver /\ HandoffsCounted

(* Turns with a COMPLETED row whose work or handoff record is not in the    *)
(* stored state or the handoffs table, the one being saved aside.           *)
LostTurns ==
  {t \in CompletedRows \ {turn} : t \notin Absorbed(stored) \/ handoffs[t] = NoHandoff}

(* Each death of the process loses at most one turn; none is lost without. *)
LossBounded == Cardinality(LostTurns) <= used.crashes

(* A COMPLETED row is never rewritten. *)
CompletedIsFinal ==
  [][\A t \in CompletedRows : executions'[t] = executions[t]]_vars

(* "single-stepped; more assignments remain": a paused task has a turn that *)
(* resume would run, unless a death lost a turn between its commits.        *)
PausedMeansMoreRemain == taskStatus = "paused" => CompletedRows # Turns \/ LostTurns # {}

(* Kept alive and resumed, a created task ends with every turn completed,   *)
(* whatever the order of deaths and failures, and unless a process died its *)
(* status comes to say so for good.                                         *)
EveryTurnCompletes ==
  (taskStatus # "none") ~>
    [](CompletedRows = Turns /\ (used.crashes > 0 \/ taskStatus = "completed"))

(* The abstract promise. *)
Ledger == INSTANCE TaskLedger WITH
  ledger <- [t \in Turns |->
               CASE executions[t].status = "COMPLETED" -> "done"
                 [] executions[t].status = "FAILED" -> "failed"
                 [] OTHER -> "open"],
  verdict <- taskStatus

KeepsLedger == Ledger!Spec

(***************************************************************************)
(* What the repository says and the code does not do                       *)
(***************************************************************************)

(* "if the process dies between worker 3 and worker 4, worker 4 can still   *)
(* be handed a correctly compiled context package built from what is on     *)
(* disk" (sqlite_store.py): a package is compiled from a state that holds   *)
(* the work of every turn the tables call completed.                        *)
PackageSeesCompletedWork ==
  pc = "working" => CompletedRows \subseteq Absorbed(mem)

(* "a killed run resumes from SQLite and finishes the task" (README.md): a  *)
(* created task reads completed in the end and for good.                    *)
TaskReachesCompleted == (taskStatus # "none") ~> [](taskStatus = "completed")
=============================================================================
