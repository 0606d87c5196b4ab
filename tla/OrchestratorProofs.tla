------------------------- MODULE OrchestratorProofs -------------------------
(***************************************************************************)
(* Proofs about Orchestrator, for every plan length, roster size, set of   *)
(* step limits and number of failures and crashes.                         *)
(*                                                                         *)
(* Everything rests on IInv, the inductive invariant: beside the types it  *)
(* says, for each place the invocation can stand, which assignments are    *)
(* still to run, what is already in which table, and what the status says. *)
(***************************************************************************)
EXTENDS Orchestrator, FiniteSetTheorems, TLAPS

(* Where an assignment has been started and not yet persisted, and where an *)
(* invocation is between its two save_state calls.                          *)
Busy == {"working", "saveFailure", "saveFailedState", "saveExecution",
         "saveHandoff", "saveState"}
Executing == Busy \cup {"turn"}

(* The current assignment is known exactly while one is being worked on.    *)
TurnInv ==
  /\ pc \in Busy => turn \in Turns /\ turn \notin pending
  /\ pc \notin Busy => turn = NoTurn
  /\ pc \in {"saveExecution", "saveHandoff"} =>
       /\ mem.handoffs # <<>>
       /\ mem.handoffs[Len(mem.handoffs)].seq = turn

(* A task id is created once, and nothing is stored under it before.        *)
BirthInv ==
  /\ used.creates = 0 =>
       /\ taskStatus = "none"
       /\ pc = "idle"
       /\ executions = [t \in Turns |-> NoExecution]
  /\ pc # "idle" => taskStatus # "none"

(* What an invocation still has to run is not done.                         *)
QueueInv ==
  /\ pc \notin {"idle", "loaded"} =>
       \A t \in pending : executions[t].status # "COMPLETED"
  /\ pc = "begin" => \E t \in Turns : executions[t].status # "COMPLETED"
  /\ pc \in {"working", "saveFailure", "saveExecution"} =>
       executions[turn].status # "COMPLETED"
  /\ pc = "saveFailedState" => executions[turn].status = "FAILED"
  /\ pc \in {"saveHandoff", "saveState"} => executions[turn].status = "COMPLETED"

(* The turns a state in memory holds are on disk, the one being saved aside. *)
MemInv ==
  \A t \in Absorbed(mem) :
    \/ pc = "saveExecution" /\ t = turn
    \/ /\ executions[t].status = "COMPLETED"
       /\ (pc = "saveHandoff" /\ t = turn) \/ handoffs[t].seq = t

(* What the status may say, and what entitles the invocation to its verdict. *)
StatusInv ==
  /\ pc \in Executing => taskStatus = "running" /\ mem.status = "running"
  /\ pc = "setStatus" => mem.status = taskStatus
  /\ pc \in {"idle", "loaded", "begin"} => ~summary.failed
  /\ limit = Unlimited /\ pc \in Executing \cup {"begin"} =>
       \A t \in Turns :
         \/ executions[t].status = "COMPLETED"
         \/ t \in pending
         \/ t = turn
         \/ summary.failed
  /\ summary.failed /\ pc \in Executing =>
       \E t \in Turns :
         executions[t].status = "FAILED" /\ t \notin pending /\ t # turn

TypeInv == TypeOK /\ TurnInv
DataInv == QueueInv /\ MemInv /\ WriteAhead /\ ReconciledOnce /\ NoReworkAfterCompletion
IInv == TypeInv /\ BirthInv /\ DataInv /\ StatusInv /\ VerdictIsEarned

-----------------------------------------------------------------------------
(***************************************************************************)
(* Facts about the operators                                               *)
(***************************************************************************)

(* There is at least one assignment, and seqs are natural numbers.          *)
LEMMA TurnsFacts == NumTurns \in Nat \ {0} /\ Turns \subseteq Nat /\ 1 \in Turns
  BY PlanAssumption, RosterAssumption DEF NumTurns, Turns

(* The policy always deals a turn to a worker of the roster.                *)
LEMMA WorkerOfType == \A t \in Turns : WorkerOf(t) \in Workers
  <1> SUFFICES ASSUME NEW t \in Turns PROVE WorkerOf(t) \in Workers
    OBVIOUS
  <1>1. t - 1 \in Int /\ NumWorkers \in Nat \ {0}
    BY TurnsFacts, RosterAssumption
  <1>2. (t - 1) % NumWorkers \in 0..(NumWorkers - 1)
    BY <1>1
  <1> QED
    BY <1>1, <1>2 DEF WorkerOf, Workers

(* max_steps only ever shortens the list of remaining assignments.          *)
LEMMA FirstTurnsSubset ==
  ASSUME NEW S, NEW max
  PROVE  FirstTurns(S, max) \subseteq S
  BY DEF FirstTurns

(* Appending an entry to a history absorbs its turn if it completed.        *)
LEMMA AbsorbedAppend ==
  ASSUME NEW st \in State, NEW st2, NEW e \in Entry,
         st2.history = Append(st.history, e)
  PROVE  Absorbed(st2) =
           IF e.status = "COMPLETED" THEN Absorbed(st) \cup {e.seq} ELSE Absorbed(st)
  <1> DEFINE h == st.history
             h2 == st2.history
  <1>1. h \in Seq(Entry) /\ h2 = Append(h, e)
    BY DEF State
  <1>2. /\ DOMAIN h2 = 1..Len(h) + 1
        /\ h2[Len(h) + 1] = e
        /\ \A i \in DOMAIN h : i \in DOMAIN h2 /\ h2[i] = h[i]
        /\ \A i \in DOMAIN h2 : i \in DOMAIN h \/ i = Len(h) + 1
        /\ Len(h) + 1 \in DOMAIN h2
    BY <1>1
  <1>3. ASSUME NEW t \in Turns
        PROVE  t \in Absorbed(st2) <=>
                 t \in Absorbed(st) \/ (e.status = "COMPLETED" /\ t = e.seq)
    <2>1. ASSUME t \in Absorbed(st) PROVE t \in Absorbed(st2)
      BY <2>1, <1>2 DEF Absorbed
    <2>2. ASSUME e.status = "COMPLETED", t = e.seq PROVE t \in Absorbed(st2)
      <3>1. e = [seq |-> t, status |-> "COMPLETED"]
        BY <2>2 DEF Entry
      <3> QED
        BY <3>1, <1>2 DEF Absorbed
    <2>3. ASSUME t \in Absorbed(st2)
          PROVE  t \in Absorbed(st) \/ (e.status = "COMPLETED" /\ t = e.seq)
      <3>1. PICK i \in DOMAIN h2 : h2[i] = [seq |-> t, status |-> "COMPLETED"]
        BY <2>3 DEF Absorbed
      <3>2. CASE i \in DOMAIN h
        BY <3>1, <3>2, <1>2 DEF Absorbed
      <3>3. CASE i = Len(h) + 1
        BY <3>1, <3>3, <1>2
      <3> QED
        BY <3>2, <3>3, <1>2
    <2> QED
      BY <2>1, <2>2, <2>3
  <1>4. Absorbed(st) \subseteq Turns /\ Absorbed(st2) \subseteq Turns /\ e.seq \in Turns
    BY DEF Absorbed, Entry
  <1> QED
    BY <1>3, <1>4

(* ... and keeps every turn folded once, if that turn was not yet absorbed. *)
LEMMA FoldedAppend ==
  ASSUME NEW st \in State, NEW st2, NEW e \in Entry,
         st2.history = Append(st.history, e),
         FoldedOnce(st),
         e.status = "COMPLETED" => e.seq \notin Absorbed(st)
  PROVE  FoldedOnce(st2)
  <1> DEFINE h == st.history
             h2 == st2.history
  <1>1. h \in Seq(Entry) /\ h2 = Append(h, e)
    BY DEF State
  <1>2. /\ h2[Len(h) + 1] = e
        /\ \A i \in DOMAIN h : h2[i] = h[i] /\ h[i] \in Entry
        /\ \A i \in DOMAIN h2 : i \in DOMAIN h \/ i = Len(h) + 1
    BY <1>1
  <1>3. ASSUME NEW i \in DOMAIN h, h[i].seq = e.seq, h[i].status = "COMPLETED",
               e.status = "COMPLETED"
        PROVE  FALSE
    <2>1. h[i] = [seq |-> e.seq, status |-> "COMPLETED"] /\ e.seq \in Turns
      BY <1>2, <1>3 DEF Entry
    <2> QED
      BY <2>1, <1>3 DEF Absorbed
  <1> SUFFICES ASSUME NEW i \in DOMAIN h2, NEW j \in DOMAIN h2,
                      h2[i].seq = h2[j].seq,
                      h2[i].status = "COMPLETED", h2[j].status = "COMPLETED"
               PROVE  i = j
    BY DEF FoldedOnce
  <1>4. CASE i \in DOMAIN h /\ j \in DOMAIN h
    BY <1>2, <1>4 DEF FoldedOnce
  <1>5. CASE i \in DOMAIN h /\ j = Len(h) + 1
    BY <1>2, <1>3, <1>5
  <1>6. CASE i = Len(h) + 1 /\ j \in DOMAIN h
    BY <1>2, <1>3, <1>6
  <1> QED
    BY <1>2, <1>4, <1>5, <1>6

(* A fresh or an unchanged history absorbs what it absorbed.                *)
LEMMA AbsorbedSame ==
  ASSUME NEW st, NEW st2, st2.history = st.history
  PROVE  Absorbed(st2) = Absorbed(st) /\ (FoldedOnce(st) => FoldedOnce(st2))
  BY DEF Absorbed, FoldedOnce

LEMMA AbsorbedNew == Absorbed(NewState) = {} /\ FoldedOnce(NewState) /\ NewState \in State
  BY DEF Absorbed, FoldedOnce, NewState, State, Status

-----------------------------------------------------------------------------
(***************************************************************************)
(* Types                                                                   *)
(***************************************************************************)
(* The records stay records when a field is updated.                        *)
LEMMA StateStatus ==
  ASSUME NEW st \in State, NEW v \in Status
  PROVE  /\ [st EXCEPT !.status = v] \in State
         /\ [st EXCEPT !.status = v].status = v
         /\ [st EXCEPT !.status = v].history = st.history
         /\ [st EXCEPT !.status = v].handoffs = st.handoffs
  BY DEF State

LEMMA StateFailed ==
  ASSUME NEW st \in State, NEW e \in Entry
  PROVE  /\ [st EXCEPT !.history = Append(@, e)] \in State
         /\ [st EXCEPT !.history = Append(@, e)].status = st.status
         /\ [st EXCEPT !.history = Append(@, e)].history = Append(st.history, e)
         /\ [st EXCEPT !.history = Append(@, e)].handoffs = st.handoffs
  BY DEF State

LEMMA StateCompleted ==
  ASSUME NEW st \in State, NEW e \in Entry, NEW h \in Handoff
  PROVE  /\ FoldTurn(st, e, h) \in State
         /\ FoldTurn(st, e, h).status = st.status
         /\ FoldTurn(st, e, h).history = Append(st.history, e)
         /\ FoldTurn(st, e, h).handoffs # <<>>
         /\ FoldTurn(st, e, h).handoffs[Len(FoldTurn(st, e, h).handoffs)] = h
  <1>1. st.history \in Seq(Entry) /\ st.handoffs \in Seq(Handoff) /\ st.status \in Status
    BY DEF State
  <1>2. Append(st.history, e) \in Seq(Entry) /\ Append(st.handoffs, h) \in Seq(Handoff)
    BY <1>1
  <1>3. Len(Append(st.handoffs, h)) = Len(st.handoffs) + 1 /\ Len(st.handoffs) \in Nat
    BY <1>1
  <1>4. Append(st.handoffs, h) # <<>>
    <2>1. Len(<<>>) = 0
      OBVIOUS
    <2>2. 0 # Len(st.handoffs) + 1
      BY <1>3
    <2> QED
      BY <1>3, <2>1, <2>2
  <1>5. Append(st.handoffs, h)[Len(st.handoffs) + 1] = h
    BY <1>1
  <1> QED
    BY <1>1, <1>2, <1>3, <1>4, <1>5 DEF FoldTurn, State

LEMMA SpentMore ==
  ASSUME NEW u \in Spent
  PROVE  /\ [u EXCEPT !.creates = @ + 1] \in Spent
         /\ [u EXCEPT !.creates = @ + 1].creates = u.creates + 1
         /\ [u EXCEPT !.failures = @ + 1] \in Spent
         /\ [u EXCEPT !.failures = @ + 1].creates = u.creates
         /\ [u EXCEPT !.crashes = @ + 1] \in Spent
         /\ [u EXCEPT !.crashes = @ + 1].creates = u.creates
  BY DEF Spent

LEMMA SummaryMore ==
  ASSUME NEW s \in Summary, NEW b \in BOOLEAN
  PROVE  /\ [s EXCEPT !.failed = TRUE] \in Summary
         /\ [s EXCEPT !.failed = TRUE].failed
         /\ [s EXCEPT !.used = @ + 1, !.relayed = IF b THEN @ + 1 ELSE @] \in Summary
         /\ [s EXCEPT !.used = @ + 1, !.relayed = IF b THEN @ + 1 ELSE @].failed = s.failed
  <1> DEFINE s1 == [s EXCEPT !.used = @ + 1]
             s2 == [s1 EXCEPT !.relayed = IF b THEN @ + 1 ELSE @]
  <1>1. [s EXCEPT !.failed = TRUE] \in Summary /\ [s EXCEPT !.failed = TRUE].failed
    BY DEF Summary
  <1>2. s1 \in Summary /\ s1.failed = s.failed /\ s1.relayed = s.relayed
    BY DEF Summary
  <1>3. s2 \in Summary /\ s2.failed = s1.failed
    <2> HIDE DEF s1
    <2> QED
      BY <1>2 DEF Summary
  <1>4. s2 = [s EXCEPT !.used = @ + 1, !.relayed = IF b THEN @ + 1 ELSE @]
    BY <1>2
  <1> QED
    BY <1>1, <1>2, <1>3, <1>4

LEMMA TypeInit == Init => TypeInv
  <1> SUFFICES ASSUME Init PROVE TypeInv
    OBVIOUS
  <1>1. NewState \in State
    BY AbsorbedNew
  <1>2. NewSummary \in Summary
    BY DEF NewSummary, Summary
  <1>3. executions \in [Turns -> Execution] /\ handoffs \in [Turns -> Handoff \cup {NoHandoff}]
    BY DEF Init, Execution, NoExecution
  <1>4. used \in Spent
    BY DEF Init, Spent
  <1> QED
    BY <1>1, <1>2, <1>3, <1>4
       DEF Init, TypeInv, TypeOK, TurnInv, Busy, Status, PCs, NoTurn

LEMMA TypeStep == TypeInv /\ [Next]_vars => TypeInv'
  <1> SUFFICES ASSUME TypeInv, [Next]_vars PROVE TypeInv'
    OBVIOUS
  <1> USE DEF TypeInv, TypeOK, TurnInv, Busy, PCs, NoTurn
  <1>a. NewState \in State /\ NewSummary \in Summary /\ State = [status : Status, history : Seq(Entry), handoffs : Seq(Handoff)]
    BY AbsorbedNew DEF NewSummary, Summary, State
  <1>b. ASSUME NEW st \in State PROVE st.status \in Status
    BY DEF State
  <1>c. ASSUME ForgetMemory, UNCHANGED db, used' \in Spent
        PROVE  TypeInv'
    BY <1>a, <1>c DEF ForgetMemory, db
  <1>1. CASE Create
    <2>1. PICK andRun \in BOOLEAN : CreateTask(andRun)
      BY <1>1 DEF Create
    <2>2. used' \in Spent
      BY <2>1, SpentMore DEF CreateTask
    <2> QED
      BY <2>1, <2>2, <1>a, <1>b DEF CreateTask, SaveStateRow
  <1>2. CASE Load
    BY <1>2 DEF Load, LoadState, db
  <1>3. CASE LoadExecutions
    <2>1. CASE Turns \ CompletedRows = {}
      BY <1>3, <2>1, <1>c DEF LoadExecutions, ProceedWith
    <2>2. CASE Turns \ CompletedRows # {}
      <3>1. pending' \subseteq Turns
        BY <1>3, <2>2, FirstTurnsSubset DEF LoadExecutions, ProceedWith
      <3> QED
        BY <1>3, <2>2, <3>1 DEF LoadExecutions, ProceedWith, db
    <2> QED
      BY <2>1, <2>2
  <1>4. CASE BeginRun
    <2>1. mem' \in State
      BY <1>4, StateStatus DEF BeginRun, Status
    <2> QED
      BY <1>4, <2>1, <1>b DEF BeginRun, SaveStateRow
  <1>5. CASE CompileTurn
    <2>1. packages' \in [Turns -> Nat]
      BY <1>5 DEF CompileTurn
    <2> QED
      BY <1>5, <2>1 DEF CompileTurn
  <1>6. CASE WorkerFails
    <2>1. mem' \in State
      <3>1. [seq |-> turn, status |-> "FAILED"] \in Entry
        BY <1>6 DEF WorkerFails, Entry, Outcome
      <3> QED
        BY <1>6, <3>1, StateFailed DEF WorkerFails
    <2>2. used' \in Spent
      BY <1>6, SpentMore DEF WorkerFails
    <2> QED
      BY <1>6, <2>1, <2>2 DEF WorkerFails, db
  <1>7. CASE SaveFailure
    <2>1. executions' \in [Turns -> Execution]
      BY <1>7 DEF SaveFailure, Execution, Outcome
    <2> QED
      BY <1>7, <2>1 DEF SaveFailure
  <1>8. CASE SaveFailedState
    <2>1. summary' \in Summary
      BY <1>8, SummaryMore DEF SaveFailedState
    <2> QED
      BY <1>8, <2>1, <1>b DEF SaveFailedState, SaveStateRow
  <1>9. CASE WorkerSucceeds
    <2>1. turn \in Turns
      BY <1>9 DEF WorkerSucceeds
    <2>2. [seq |-> turn, status |-> "COMPLETED"] \in Entry
      BY <2>1 DEF Entry, Outcome
    <2>3. NextWorker \in Workers \cup {NoWorker}
      BY WorkerOfType DEF NextWorker
    <2> DEFINE h == [seq |-> turn, from |-> WorkerOf(turn), to |-> NextWorker]
    <2>4. h \in Handoff
      BY <2>1, <2>3, WorkerOfType DEF Handoff
    <2>5. /\ mem' \in State
          /\ mem'.handoffs # <<>>
          /\ mem'.handoffs[Len(mem'.handoffs)] = h
      BY <1>9, <2>2, <2>4, StateCompleted DEF WorkerSucceeds
    <2>6. summary' \in Summary
      BY <1>9, SummaryMore DEF WorkerSucceeds
    <2> QED
      BY <1>9, <2>1, <2>5, <2>6 DEF WorkerSucceeds, db
  <1>10. CASE SaveExecution
    <2>1. executions' \in [Turns -> Execution]
      BY <1>10 DEF SaveExecution, CommitExecution, Execution, Outcome
    <2> QED
      BY <1>10, <2>1 DEF SaveExecution, CommitExecution
  <1>11. CASE SaveHandoff
    <2>1. mem.handoffs[Len(mem.handoffs)] \in Handoff
      BY <1>11 DEF SaveHandoff, State
    <2>2. handoffs' \in [Turns -> Handoff \cup {NoHandoff}]
      BY <1>11, <2>1 DEF SaveHandoff
    <2> QED
      BY <1>11, <2>2 DEF SaveHandoff
  <1>12. CASE SaveState
    <2>1. WorkerOf(turn) \in Workers
      BY <1>12, WorkerOfType DEF SaveState
    <2> QED
      BY <1>12, <2>1, <1>b DEF SaveState, SaveStateRow
  <1>13. CASE Finish
    <2>1. mem' \in State
      BY <1>13, StateStatus DEF Finish, Status, Verdict
    <2> QED
      BY <1>13, <2>1, <1>b DEF Finish, SaveStateRow
  <1>14. CASE SetStatus
    BY <1>14, <1>a, <1>b DEF SetStatus, ForgetMemory
  <1>15. CASE Crash
    <2>1. used' \in Spent
      BY <1>15, SpentMore DEF Crash
    <2> QED
      BY <1>15, <2>1, <1>c DEF Crash
  <1>16. CASE UNCHANGED vars
    BY <1>16 DEF vars, db, local
  <1> QED
    BY <1>1, <1>2, <1>3, <1>4, <1>5, <1>6, <1>7, <1>8, <1>9, <1>10, <1>11, <1>12,
       <1>13, <1>14, <1>15, <1>16 DEF Next, Progress, EndTurn

(* Every variable keeps its type.                                           *)
THEOREM TypeCorrect == Spec => []TypeOK
  <1>1. TypeInv => TypeOK
    BY DEF TypeInv
  <1> QED
    BY TypeInit, TypeStep, <1>1, PTL DEF Spec

-----------------------------------------------------------------------------
(***************************************************************************)
(* The tables against the memory of the process.  Nothing here needs the   *)
(* bounds on failures and crashes; that a task id is created once is what  *)
(* keeps the rows of an earlier task out of a later one.                   *)
(***************************************************************************)
LEMMA BirthStep ==
  ASSUME MaxCreates = 1, TypeInv, BirthInv, [Next]_vars
  PROVE  BirthInv'
  <1> USE DEF BirthInv
  <1>a. used \in Spent /\ used.creates \in Nat /\ mem.status # "none"
    BY DEF TypeInv, TypeOK, Spent, State, Status
  <1>b. ASSUME used'.creates = used.creates, pc # "idle" \/ taskStatus # "none",
               pc' # "idle" => taskStatus' # "none"
        PROVE  BirthInv'
    BY <1>b
  <1>1. CASE Create
    <2>1. used'.creates = used.creates + 1
      BY <1>1, <1>a, SpentMore DEF Create, CreateTask
    <2>2. taskStatus' # "none"
      BY <1>1 DEF Create, CreateTask, SaveStateRow, NewState
    <2> QED
      BY <1>a, <2>1, <2>2
  <1>2. CASE Load
    BY <1>2, <1>b DEF Load, LoadState, db
  <1>3. CASE LoadExecutions
    BY <1>3, <1>b DEF LoadExecutions, ProceedWith, db, ForgetMemory
  <1>4. CASE BeginRun
    <2>1. mem'.status = "running"
      BY <1>4, StateStatus DEF BeginRun, TypeInv, TypeOK, Status
    <2> QED
      BY <1>4, <1>b, <2>1 DEF BeginRun, SaveStateRow
  <1>5. CASE CompileTurn
    BY <1>5, <1>b DEF CompileTurn
  <1>6. CASE WorkerFails
    BY <1>6, <1>a, <1>b, SpentMore DEF WorkerFails, db
  <1>7. CASE SaveFailure
    BY <1>7, <1>b DEF SaveFailure
  <1>8. CASE SaveFailedState
    BY <1>8, <1>a, <1>b DEF SaveFailedState, SaveStateRow
  <1>9. CASE WorkerSucceeds
    BY <1>9, <1>b DEF WorkerSucceeds, db
  <1>10. CASE SaveExecution
    BY <1>10, <1>b DEF SaveExecution, CommitExecution
  <1>11. CASE SaveHandoff
    BY <1>11, <1>b DEF SaveHandoff
  <1>12. CASE SaveState
    BY <1>12, <1>a, <1>b DEF SaveState, SaveStateRow
  <1>13. CASE Finish
    <2>1. mem'.status # "none"
      BY <1>13, StateStatus DEF Finish, Verdict, TypeInv, TypeOK, Status
    <2> QED
      BY <1>13, <1>b, <2>1 DEF Finish, SaveStateRow
  <1>14. CASE SetStatus
    BY <1>14, <1>a, <1>b DEF SetStatus, ForgetMemory
  <1>15. CASE Crash
    BY <1>15, <1>a, <1>b, SpentMore DEF Crash, ForgetMemory, db
  <1>16. CASE UNCHANGED vars
    BY <1>16 DEF vars, db, local
  <1> QED
    BY <1>1, <1>2, <1>3, <1>4, <1>5, <1>6, <1>7, <1>8, <1>9, <1>10, <1>11, <1>12,
       <1>13, <1>14, <1>15, <1>16 DEF Next, Progress, EndTurn

LEMMA QueueStep ==
  ASSUME MaxCreates = 1, TypeInv, BirthInv, QueueInv, [Next]_vars
  PROVE  QueueInv'
  <1> USE DEF QueueInv
  <1>a. /\ executions \in [Turns -> Execution] /\ pending \subseteq Turns
        /\ pc \in Busy => turn \in Turns /\ turn \notin pending
    BY DEF TypeInv, TypeOK, TurnInv
  <1>1. CASE Create
    <2>1. PICK andRun \in BOOLEAN : CreateTask(andRun)
      BY <1>1 DEF Create
    <2>2. executions = [t \in Turns |-> NoExecution] /\ pc = "idle"
      <3>1. used.creates = 0
        BY <2>1 DEF CreateTask, TypeInv, TypeOK, Spent
      <3> QED
        BY <3>1 DEF BirthInv
    <2>3. \A t \in Turns : executions'[t].status = "NONE"
      BY <2>1, <2>2 DEF CreateTask, NoExecution
    <2> QED
      BY <2>1, <2>2, <2>3, TurnsFacts DEF CreateTask
  <1>2. CASE Load
    BY <1>2 DEF Load, LoadState, db
  <1>3. CASE LoadExecutions
    <2> DEFINE remaining == Turns \ CompletedRows
    <2>1. CASE remaining = {}
      BY <1>3, <2>1 DEF LoadExecutions, ProceedWith, ForgetMemory
    <2>2. CASE remaining # {}
      <3>1. pending' \subseteq remaining /\ pc' = "begin" /\ executions' = executions
        BY <1>3, <2>2, FirstTurnsSubset DEF LoadExecutions, ProceedWith, db
      <3>2. \A t \in remaining : t \in Turns /\ executions'[t].status # "COMPLETED"
        BY <3>1 DEF CompletedRows
      <3> QED
        BY <2>2, <3>1, <3>2
    <2> QED
      BY <2>1, <2>2
  <1>4. CASE BeginRun
    BY <1>4 DEF BeginRun
  <1>5. CASE CompileTurn
    BY <1>5 DEF CompileTurn
  <1>6. CASE WorkerFails
    BY <1>6 DEF WorkerFails, db
  <1>7. CASE SaveFailure
    BY <1>7, <1>a DEF SaveFailure, Busy
  <1>8. CASE SaveFailedState
    BY <1>8 DEF SaveFailedState
  <1>9. CASE WorkerSucceeds
    BY <1>9 DEF WorkerSucceeds, db
  <1>10. CASE SaveExecution
    BY <1>10, <1>a DEF SaveExecution, CommitExecution, Busy
  <1>11. CASE SaveHandoff
    BY <1>11 DEF SaveHandoff
  <1>12. CASE SaveState
    BY <1>12 DEF SaveState
  <1>13. CASE Finish
    BY <1>13 DEF Finish
  <1>14. CASE SetStatus
    BY <1>14 DEF SetStatus, ForgetMemory
  <1>15. CASE Crash
    BY <1>15 DEF Crash, ForgetMemory
  <1>16. CASE UNCHANGED vars
    BY <1>16 DEF vars, db, local
  <1> QED
    BY <1>1, <1>2, <1>3, <1>4, <1>5, <1>6, <1>7, <1>8, <1>9, <1>10, <1>11, <1>12,
       <1>13, <1>14, <1>15, <1>16 DEF Next, Progress, EndTurn

(* The rows of completed turns stay as they are.                            *)
LEMMA RowsStep ==
  ASSUME MaxCreates = 1, TypeInv, BirthInv, QueueInv, [Next]_vars
  PROVE  \A t \in CompletedRows : executions'[t] = executions[t]
  <1>a. executions \in [Turns -> Execution] /\ (pc \in Busy => turn \in Turns)
    BY DEF TypeInv, TypeOK, TurnInv
  <1>1. CASE SaveFailure
    BY <1>1, <1>a DEF SaveFailure, QueueInv, CompletedRows
  <1>2. CASE SaveExecution
    BY <1>2, <1>a DEF SaveExecution, CommitExecution, QueueInv, CompletedRows
  <1>3. CASE UNCHANGED executions
    BY <1>3
  <1> QED
    BY <1>1, <1>2, <1>3
       DEF Next, vars, db, Progress, EndTurn, Create, CreateTask, Load, LoadState,
           LoadExecutions, ProceedWith, BeginRun, CompileTurn, WorkerFails, SaveFailedState,
           WorkerSucceeds, SaveHandoff, SaveState, Finish, SetStatus, Crash

(* ... and so do the packages they cite.                                    *)
LEMMA PackageStep ==
  ASSUME MaxCreates = 1, TypeInv, BirthInv, QueueInv, NoReworkAfterCompletion, [Next]_vars
  PROVE  NoReworkAfterCompletion'
  <1>a. /\ executions \in [Turns -> Execution] /\ packages \in [Turns -> Nat]
        /\ pc \in Busy => turn \in Turns
        /\ pending \subseteq Turns
    BY DEF TypeInv, TypeOK, TurnInv
  <1>b. \A t \in CompletedRows : executions[t].status = "COMPLETED" /\ t \in Turns
    BY DEF CompletedRows
  <1>1. CASE SaveFailure
    BY <1>1, <1>a DEF SaveFailure, NoReworkAfterCompletion, CompletedRows, Busy
  <1>2. CASE SaveExecution
    BY <1>2, <1>a DEF SaveExecution, CommitExecution, NoReworkAfterCompletion, CompletedRows, Busy
  <1>3. CASE CompileTurn
    BY <1>3, <1>a DEF CompileTurn, NoReworkAfterCompletion, CompletedRows, QueueInv
  <1>4. CASE UNCHANGED <<executions, packages>>
    BY <1>4 DEF NoReworkAfterCompletion, CompletedRows
  <1> QED
    BY <1>1, <1>2, <1>3, <1>4
       DEF Next, vars, db, Progress, EndTurn, Create, CreateTask, Load, LoadState,
           LoadExecutions, ProceedWith, BeginRun, WorkerFails, SaveFailedState,
           WorkerSucceeds, SaveHandoff, SaveState, Finish, SetStatus, Crash

(* What a state in memory or on disk holds: how each step changes it.       *)
LEMMA MemStep ==
  ASSUME MaxCreates = 1, TypeInv, BirthInv, QueueInv, MemInv, WriteAhead, ReconciledOnce,
         [Next]_vars
  PROVE  MemInv' /\ WriteAhead' /\ ReconciledOnce'
  <1> USE DEF MemInv, WriteAhead, ReconciledOnce
  <1>a. /\ executions \in [Turns -> Execution] /\ handoffs \in [Turns -> Handoff \cup {NoHandoff}]
        /\ mem \in State /\ stored \in State
        /\ pc \in Busy => turn \in Turns
    BY DEF TypeInv, TypeOK, TurnInv
  <1>b. Absorbed(mem) \subseteq Turns /\ Absorbed(stored) \subseteq Turns
    BY DEF Absorbed
  (* The memory is forgotten: the state on disk is what it was. *)
  <1>c. ASSUME mem' = NewState, UNCHANGED <<stored, executions, handoffs>>
        PROVE  MemInv' /\ WriteAhead' /\ ReconciledOnce'
    BY <1>c, AbsorbedNew, AbsorbedSame
  (* Neither the state nor the tables change, and nothing is being saved. *)
  <1>d. ASSUME mem' = mem, UNCHANGED <<stored, executions, handoffs>>,
               pc \notin {"saveExecution", "saveHandoff"}
        PROVE  MemInv' /\ WriteAhead' /\ ReconciledOnce'
    BY <1>d DEF Absorbed, FoldedOnce
  (* The state in memory, its status apart, is written to disk. *)
  <1>e. ASSUME mem'.history = mem.history, stored'.history = mem.history,
               UNCHANGED <<executions, handoffs>>,
               pc \notin {"saveExecution", "saveHandoff"}
        PROVE  MemInv' /\ WriteAhead' /\ ReconciledOnce'
    <2>1. Absorbed(mem') = Absorbed(mem) /\ Absorbed(stored') = Absorbed(mem)
      BY <1>e DEF Absorbed
    <2>2. FoldedOnce(mem') /\ FoldedOnce(stored')
      BY <1>e DEF FoldedOnce
    <2>3. \A t \in Absorbed(mem) : executions[t].status = "COMPLETED" /\ handoffs[t].seq = t
      BY <1>e
    <2>4. Absorbed(mem)' = Absorbed(mem) /\ Absorbed(stored)' = Absorbed(mem)
      BY <2>1 DEF Absorbed
    <2>5. FoldedOnce(mem)' /\ FoldedOnce(stored)'
      BY <2>2 DEF FoldedOnce
    <2> QED
      BY <1>e, <2>3, <2>4, <2>5
  <1>1. CASE Create
    <2>1. executions = [t \in Turns |-> NoExecution]
      <3>1. used.creates = 0
        BY <1>1 DEF Create, CreateTask, TypeInv, TypeOK, Spent
      <3> QED
        BY <3>1 DEF BirthInv
    <2>2. pc = "idle" /\ stored' = NewState /\ UNCHANGED <<mem, executions, handoffs>>
      BY <1>1 DEF Create, CreateTask, SaveStateRow
    <2>3. Absorbed(stored)' = {} /\ FoldedOnce(stored)' /\ FoldedOnce(mem)'
      BY <2>2, AbsorbedNew DEF Absorbed, FoldedOnce
    <2>4. MemInv'
      BY <2>2 DEF Absorbed
    <2> QED
      BY <2>3, <2>4
  <1>2. CASE Load
    <2>1. mem' = stored /\ UNCHANGED <<stored, executions, handoffs>>
      BY <1>2 DEF Load, LoadState, db
    <2> QED
      BY <2>1 DEF Absorbed, FoldedOnce
  <1>3. CASE LoadExecutions
    BY <1>3, <1>c, <1>d DEF LoadExecutions, ProceedWith, ForgetMemory, db
  <1>4. CASE BeginRun
    BY <1>4, <1>a, <1>e, StateStatus DEF BeginRun, SaveStateRow, Status
  <1>5. CASE CompileTurn
    BY <1>5, <1>d DEF CompileTurn
  <1>6. CASE WorkerFails
    <2> DEFINE e == [seq |-> turn, status |-> "FAILED"]
    <2>1. e \in Entry /\ e.status = "FAILED"
      BY <1>6, <1>a DEF WorkerFails, Entry, Outcome, Busy
    <2>2. mem'.history = Append(mem.history, e)
      BY <1>6, <1>a, <2>1, StateFailed DEF WorkerFails
    <2>3. Absorbed(mem') = Absorbed(mem) /\ FoldedOnce(mem')
      <3> HIDE DEF e
      <3> QED
        BY <1>a, <2>1, <2>2, AbsorbedAppend, FoldedAppend
    <2>4. Absorbed(mem)' = Absorbed(mem) /\ FoldedOnce(mem)'
      BY <2>3 DEF Absorbed, FoldedOnce
    <2>5. Absorbed(stored)' = Absorbed(stored) /\ FoldedOnce(stored)'
      BY <1>6 DEF WorkerFails, db, Absorbed, FoldedOnce
    <2> QED
      BY <1>6, <2>4, <2>5 DEF WorkerFails, db
  <1>7. CASE SaveFailure
    <2>1. \A t \in Turns : executions[t].status = "COMPLETED" => executions'[t] = executions[t]
      BY RowsStep DEF CompletedRows
    <2>2. UNCHANGED <<mem, stored, handoffs>> /\ pc = "saveFailure"
      BY <1>7 DEF SaveFailure
    <2>3. /\ Absorbed(mem)' = Absorbed(mem) /\ Absorbed(stored)' = Absorbed(stored)
          /\ FoldedOnce(mem)' /\ FoldedOnce(stored)'
      BY <2>2 DEF Absorbed, FoldedOnce
    <2> QED
      BY <1>b, <2>1, <2>2, <2>3
  <1>8. CASE SaveFailedState
    BY <1>8, <1>e DEF SaveFailedState, SaveStateRow
  <1>9. CASE WorkerSucceeds
    <2> DEFINE e == [seq |-> turn, status |-> "COMPLETED"]
               h == [seq |-> turn, from |-> WorkerOf(turn), to |-> NextWorker]
    <2>1. /\ e \in Entry /\ e.status = "COMPLETED" /\ e.seq = turn
          /\ pc = "working" /\ pc' = "saveExecution" /\ turn' = turn
      BY <1>9, <1>a DEF WorkerSucceeds, Entry, Outcome, Busy
    <2>2. mem'.history = Append(mem.history, e)
      BY <1>9 DEF WorkerSucceeds, FoldTurn
    <2>3. turn \notin Absorbed(mem)
      BY <1>9 DEF WorkerSucceeds, QueueInv
    <2>4. Absorbed(mem') = Absorbed(mem) \cup {turn} /\ FoldedOnce(mem')
      <3> HIDE DEF e
      <3> QED
        BY <1>a, <2>1, <2>2, <2>3, AbsorbedAppend, FoldedAppend
    <2>5. Absorbed(mem)' = Absorbed(mem) \cup {turn} /\ FoldedOnce(mem)'
      BY <2>4 DEF Absorbed, FoldedOnce
    <2>6. UNCHANGED <<stored, executions, handoffs>>
      BY <1>9 DEF WorkerSucceeds, db
    <2>7. Absorbed(stored)' = Absorbed(stored) /\ FoldedOnce(stored)'
      BY <2>6 DEF Absorbed, FoldedOnce
    <2> QED
      BY <2>1, <2>5, <2>6, <2>7
  <1>10. CASE SaveExecution
    <2>1. /\ pc = "saveExecution" /\ pc' = "saveHandoff" /\ turn' = turn /\ turn \in Turns
          /\ executions'[turn].status = "COMPLETED"
          /\ UNCHANGED <<mem, stored, handoffs>>
      BY <1>10, <1>a DEF SaveExecution, CommitExecution, Busy
    <2>2. \A t \in Turns : executions[t].status = "COMPLETED" => executions'[t] = executions[t]
      BY RowsStep DEF CompletedRows
    <2>3. /\ Absorbed(mem)' = Absorbed(mem) /\ Absorbed(stored)' = Absorbed(stored)
          /\ FoldedOnce(mem)' /\ FoldedOnce(stored)'
      BY <2>1 DEF Absorbed, FoldedOnce
    <2> QED
      BY <1>b, <2>1, <2>2, <2>3
  <1>11. CASE SaveHandoff
    <2>1. /\ pc = "saveHandoff" /\ pc' = "saveState" /\ turn \in Turns
          /\ handoffs' = [handoffs EXCEPT ![turn] = mem.handoffs[Len(mem.handoffs)]]
          /\ mem.handoffs[Len(mem.handoffs)].seq = turn
          /\ UNCHANGED <<mem, stored, executions>>
      BY <1>11, <1>a DEF SaveHandoff, Busy, TypeInv, TurnInv
    <2>2. /\ handoffs'[turn].seq = turn
          /\ \A t \in Turns : t # turn => handoffs'[t] = handoffs[t]
      BY <1>a, <2>1
    <2>3. /\ Absorbed(mem)' = Absorbed(mem) /\ Absorbed(stored)' = Absorbed(stored)
          /\ FoldedOnce(mem)' /\ FoldedOnce(stored)'
      BY <2>1 DEF Absorbed, FoldedOnce
    <2> QED
      BY <1>b, <2>1, <2>2, <2>3
  <1>12. CASE SaveState
    BY <1>12, <1>e DEF SaveState, SaveStateRow
  <1>13. CASE Finish
    <2>1. Verdict \in Status
      BY DEF Verdict, Status
    <2>2. mem'.history = mem.history /\ stored' = mem'
      BY <1>13, <1>a, <2>1, StateStatus DEF Finish, SaveStateRow
    <2> QED
      BY <1>13, <1>e, <2>2 DEF Finish
  <1>14. CASE SetStatus
    BY <1>14, <1>c DEF SetStatus, ForgetMemory
  <1>15. CASE Crash
    BY <1>15, <1>c DEF Crash, ForgetMemory, db
  <1>16. CASE UNCHANGED vars
    BY <1>16 DEF vars, db, local, Absorbed, FoldedOnce
  <1> QED
    BY <1>1, <1>2, <1>3, <1>4, <1>5, <1>6, <1>7, <1>8, <1>9, <1>10, <1>11, <1>12,
       <1>13, <1>14, <1>15, <1>16 DEF Next, Progress, EndTurn

-----------------------------------------------------------------------------
(***************************************************************************)
(* What the status may say                                                 *)
(***************************************************************************)
LEMMA StatusStep ==
  ASSUME MaxCreates = 1, TypeInv, BirthInv, QueueInv, StatusInv, [Next]_vars
  PROVE  StatusInv'
  <1> USE DEF StatusInv, Executing, Busy
  <1>a. /\ executions \in [Turns -> Execution] /\ mem \in State /\ stored \in State
        /\ summary \in Summary /\ pending \subseteq Turns
        /\ pc \in Busy => turn \in Turns /\ turn \notin pending
        /\ pc \notin Busy => turn = NoTurn
        /\ NoTurn \notin Turns
    BY TurnsFacts DEF TypeInv, TypeOK, TurnInv, NoTurn, Turns
  <1>b. ASSUME ForgetMemory PROVE StatusInv'
    BY <1>b DEF ForgetMemory, NewSummary
  <1>1. CASE Create
    <2>1. PICK andRun \in BOOLEAN : CreateTask(andRun)
      BY <1>1 DEF Create
    <2> QED
      BY <2>1 DEF CreateTask
  <1>2. CASE Load
    BY <1>2 DEF Load, LoadState
  <1>3. CASE LoadExecutions
    <2>1. CASE Turns \ CompletedRows = {}
      BY <1>3, <2>1, <1>b DEF LoadExecutions, ProceedWith
    <2>2. CASE Turns \ CompletedRows # {}
      <3>1. limit = Unlimited => pending' = Turns \ CompletedRows
        BY <1>3, <2>2 DEF LoadExecutions, ProceedWith, FirstTurns
      <3>2. /\ pc' = "begin" /\ limit' = limit /\ executions' = executions
            /\ summary' = summary /\ pc = "loaded"
        BY <1>3, <2>2 DEF LoadExecutions, ProceedWith, db
      <3> QED
        BY <3>1, <3>2 DEF CompletedRows
    <2> QED
      BY <2>1, <2>2
  <1>4. CASE BeginRun
    <2>1. mem'.status = "running" /\ taskStatus' = "running"
      BY <1>4, <1>a, StateStatus DEF BeginRun, SaveStateRow, Status
    <2>2. ~summary.failed
      BY <1>4 DEF BeginRun
    <2> QED
      BY <1>4, <2>1, <2>2 DEF BeginRun
  <1>5. CASE CompileTurn
    BY <1>5, <1>a DEF CompileTurn

  <1>6. CASE WorkerFails
    <2>1. mem'.status = mem.status
      <3>1. [seq |-> turn, status |-> "FAILED"] \in Entry
        BY <1>6, <1>a DEF WorkerFails, Entry, Outcome
      <3> QED
        BY <1>6, <1>a, <3>1, StateFailed DEF WorkerFails
    <2> QED
      BY <1>6, <2>1 DEF WorkerFails, db
  <1>7. CASE SaveFailure
    <2>1. /\ executions'[turn].status = "FAILED"
          /\ \A t \in Turns : t # turn => executions'[t] = executions[t]
      BY <1>7, <1>a DEF SaveFailure
    <2>2. pc = "saveFailure" /\ pc' = "saveFailedState"
          /\ UNCHANGED <<taskStatus, mem, pending, turn, limit, summary>>
      BY <1>7 DEF SaveFailure
    <2> QED
      BY <2>1, <2>2
  <1>8. CASE SaveFailedState
    <2>1. summary'.failed
      BY <1>8, <1>a, SummaryMore DEF SaveFailedState
    <2>2. executions[turn].status = "FAILED" /\ turn \in Turns /\ turn \notin pending
      BY <1>8, <1>a DEF SaveFailedState, QueueInv
    <2>3. taskStatus' = mem.status /\ turn' = NoTurn /\ pc' = "turn"
          /\ UNCHANGED <<executions, mem, pending, limit>>
      BY <1>8 DEF SaveFailedState, SaveStateRow
    <2>4. mem.status = "running"
      BY <1>8 DEF SaveFailedState
    <2> QED
      BY <1>a, <2>1, <2>2, <2>3, <2>4
  <1>9. CASE WorkerSucceeds
    <2>1. summary'.failed = summary.failed
      BY <1>9, <1>a, SummaryMore DEF WorkerSucceeds, TypeInv, TypeOK
    <2>2. mem'.status = mem.status
      BY <1>9 DEF WorkerSucceeds, FoldTurn
    <2>3. pc = "working" /\ pc' = "saveExecution"
          /\ UNCHANGED <<taskStatus, executions, pending, turn, limit>>
      BY <1>9 DEF WorkerSucceeds, db
    <2> QED
      BY <2>1, <2>2, <2>3
  <1>10. CASE SaveExecution
    <2>1. /\ executions'[turn].status = "COMPLETED"
          /\ \A t \in Turns : t # turn => executions'[t] = executions[t]
      BY <1>10, <1>a DEF SaveExecution, CommitExecution
    <2>2. pc = "saveExecution" /\ pc' = "saveHandoff"
          /\ UNCHANGED <<taskStatus, mem, pending, turn, limit, summary>>
      BY <1>10 DEF SaveExecution, CommitExecution
    <2> QED
      BY <2>1, <2>2
  <1>11. CASE SaveHandoff
    BY <1>11 DEF SaveHandoff
  <1>12. CASE SaveState
    <2>1. pc = "saveState" /\ pc' = "turn" /\ taskStatus' = mem.status /\ turn' = NoTurn
          /\ UNCHANGED <<executions, mem, pending, limit, summary>>
      BY <1>12 DEF SaveState, SaveStateRow
    <2>2. executions[turn].status = "COMPLETED" /\ mem.status = "running"
      BY <2>1 DEF QueueInv
    <2> QED
      BY <1>a, <2>1, <2>2
  <1>13. CASE Finish
    BY <1>13 DEF Finish, SaveStateRow
  <1>14. CASE SetStatus
    BY <1>14, <1>b DEF SetStatus
  <1>15. CASE Crash
    BY <1>15, <1>b DEF Crash
  <1>16. CASE UNCHANGED vars
    BY <1>16 DEF vars, db, local
  <1> QED
    BY <1>1, <1>2, <1>3, <1>4, <1>5, <1>6, <1>7, <1>8, <1>9, <1>10, <1>11, <1>12,
       <1>13, <1>14, <1>15, <1>16 DEF Next, Progress, EndTurn

(* The verdict of an invocation is entitled by the rows.                    *)
LEMMA FinishVerdict ==
  ASSUME TypeInv, QueueInv, MemInv, StatusInv, Finish
  PROVE  /\ Verdict \in {"completed", "failed", "paused"}
         /\ Verdict = "completed" => CompletedRows = Turns
         /\ Verdict = "failed" => \E t \in Turns : executions[t].status = "FAILED"
         /\ taskStatus = "running" /\ taskStatus' = Verdict
         /\ UNCHANGED executions
  <1>1. pc = "turn" /\ pending = {} /\ turn = NoTurn /\ NoTurn \notin Turns
    BY TurnsFacts DEF Finish, TypeInv, TurnInv, Busy, NoTurn, Turns
  <1>2. Verdict \in {"completed", "failed", "paused"}
    BY DEF Verdict
  <1>3. ASSUME Verdict = "completed" PROVE CompletedRows = Turns
    <2>1. ~summary.failed /\ (limit = Unlimited \/ ~HasRemaining(mem))
      BY <1>3 DEF Verdict
    <2>2. CASE limit = Unlimited
      BY <1>1, <2>1, <2>2 DEF StatusInv, Executing, CompletedRows
    <2>3. CASE ~HasRemaining(mem)
      BY <1>1, <2>3 DEF HasRemaining, MemInv, CompletedRows
    <2> QED
      BY <2>1, <2>2, <2>3
  <1>4. ASSUME Verdict = "failed" PROVE \E t \in Turns : executions[t].status = "FAILED"
    <2>1. summary.failed
      BY <1>4 DEF Verdict
    <2> QED
      BY <1>1, <2>1 DEF StatusInv, Executing
  <1>5. taskStatus = "running" /\ taskStatus' = Verdict /\ UNCHANGED executions
    <2>1. mem'.status = Verdict
      BY <1>2, StateStatus DEF Finish, TypeInv, TypeOK, Status
    <2> QED
      BY <1>1, <2>1 DEF Finish, SaveStateRow, StatusInv, Executing
  <1> QED
    BY <1>2, <1>3, <1>4, <1>5

(* The steps, other than Finish, that can change the status, and how.       *)
LEMMA StatusChanges ==
  ASSUME TypeInv, StatusInv, [Next]_vars
  PROVE  \/ Finish
         \/ Create /\ taskStatus' = "created" /\ UNCHANGED executions
         \/ BeginRun /\ taskStatus' = "running" /\ UNCHANGED executions
         \/ SaveFailure /\ taskStatus = "running" /\ taskStatus' = "running"
         \/ SaveExecution /\ taskStatus = "running" /\ taskStatus' = "running"
         \/ UNCHANGED <<taskStatus, executions>>
  <1> USE DEF StatusInv, Executing, Busy
  <1>1. CASE Create
    BY <1>1 DEF Create, CreateTask, SaveStateRow, NewState
  <1>2. CASE BeginRun
    <2>1. mem'.status = "running"
      BY <1>2, StateStatus DEF BeginRun, TypeInv, TypeOK, Status
    <2> QED
      BY <1>2, <2>1 DEF BeginRun, SaveStateRow
  <1>3. CASE SaveFailure
    BY <1>3 DEF SaveFailure
  <1>4. CASE SaveExecution
    BY <1>4 DEF SaveExecution, CommitExecution
  <1>5. CASE SaveFailedState \/ SaveState \/ SetStatus
    BY <1>5 DEF SaveFailedState, SaveState, SetStatus, SaveStateRow
  <1>6. CASE Load \/ LoadExecutions \/ CompileTurn \/ WorkerFails \/ WorkerSucceeds
             \/ SaveHandoff \/ Crash \/ UNCHANGED vars
    BY <1>6 DEF Load, LoadState, LoadExecutions, ProceedWith, CompileTurn, WorkerFails,
                WorkerSucceeds, SaveHandoff, Crash, vars, db
  <1> QED
    BY <1>1, <1>2, <1>3, <1>4, <1>5, <1>6 DEF Next, Progress, EndTurn

LEMMA VerdictStep ==
  ASSUME TypeInv, QueueInv, MemInv, StatusInv, VerdictIsEarned, [Next]_vars
  PROVE  VerdictIsEarned'
  <1>1. CASE Finish
    BY <1>1, FinishVerdict DEF VerdictIsEarned, CompletedRows
  <1>2. CASE taskStatus' \in {"created", "running"}
    BY <1>2 DEF VerdictIsEarned
  <1>3. CASE UNCHANGED <<taskStatus, executions>>
    BY <1>3 DEF VerdictIsEarned, CompletedRows
  <1> QED
    BY <1>1, <1>2, <1>3, StatusChanges

-----------------------------------------------------------------------------
(***************************************************************************)
(* The theorems                                                            *)
(***************************************************************************)
LEMMA InvInit == Init => IInv
  <1> SUFFICES ASSUME Init PROVE IInv
    OBVIOUS
  <1>1. TypeInv
    BY TypeInit
  <1>2. BirthInv
    BY DEF Init, BirthInv
  <1>3. CompletedRows = {} /\ Absorbed(mem) = {} /\ Absorbed(stored) = {} /\ ReconciledOnce
    BY AbsorbedNew DEF Init, CompletedRows, NoExecution, ReconciledOnce
  <1>4. QueueInv /\ StatusInv /\ VerdictIsEarned
    BY DEF Init, QueueInv, StatusInv, Executing, Busy, VerdictIsEarned, NewSummary
  <1> QED
    BY <1>1, <1>2, <1>3, <1>4 DEF IInv, DataInv, MemInv, WriteAhead, NoReworkAfterCompletion

LEMMA InvStep == MaxCreates = 1 /\ IInv /\ [Next]_vars => IInv'
  BY TypeStep, BirthStep, QueueStep, MemStep, PackageStep, StatusStep, VerdictStep
     DEF IInv, DataInv

(* The inductive invariant holds of every behaviour that creates a task id  *)
(* once.                                                                    *)
THEOREM Invariance == ASSUME MaxCreates = 1 PROVE Spec => []IInv
  <1>1. IInv /\ [Next]_vars => IInv'
    BY InvStep
  <1> QED
    BY InvInit, <1>1, PTL DEF Spec

(* A turn whose work the stored state contains has its execution and its    *)
(* handoff on record, whenever the process dies.                            *)
THEOREM StateNeverAheadOfTables == ASSUME MaxCreates = 1 PROVE Spec => []WriteAhead
  <1>1. IInv => WriteAhead
    BY DEF IInv, DataInv
  <1> QED
    BY Invariance, <1>1, PTL

(* No turn's result is reconciled into the canonical state twice.           *)
THEOREM NoDoubleReconcile == ASSUME MaxCreates = 1 PROVE Spec => []ReconciledOnce
  <1>1. IInv => ReconciledOnce
    BY DEF IInv, DataInv
  <1> QED
    BY Invariance, <1>1, PTL

(* No worker is given a package for a turn that has completed.              *)
THEOREM CompletedTurnsStayDone == ASSUME MaxCreates = 1 PROVE Spec => []NoReworkAfterCompletion
  <1>1. IInv => NoReworkAfterCompletion
    BY DEF IInv, DataInv
  <1> QED
    BY Invariance, <1>1, PTL

(* "completed" and "failed" are only stored when the execution rows say so. *)
THEOREM VerdictsAreEarned == ASSUME MaxCreates = 1 PROVE Spec => []VerdictIsEarned
  <1>1. IInv => VerdictIsEarned
    BY DEF IInv
  <1> QED
    BY Invariance, <1>1, PTL

(* A COMPLETED execution row is never rewritten.                            *)
THEOREM CompletedRowsAreFinal == ASSUME MaxCreates = 1 PROVE Spec => CompletedIsFinal
  <1>1. IInv /\ [Next]_vars => [\A t \in CompletedRows : executions'[t] = executions[t]]_vars
    BY RowsStep DEF IInv, DataInv
  <1> QED
    BY Invariance, <1>1, PTL DEF Spec, CompletedIsFinal

(* The orchestrator implements the abstract promise made to a caller.       *)
THEOREM Refinement == ASSUME MaxCreates = 1 PROVE Spec => KeepsLedger
  <1> DEFINE Outcomes == [t \in Turns |->
                            CASE executions[t].status = "COMPLETED" -> "done"
                              [] executions[t].status = "FAILED" -> "failed"
                              [] OTHER -> "open"]
  <1>1. Init => Ledger!Init
    BY DEF Init, Ledger!Init, NoExecution
  <1>2. ASSUME IInv, [Next]_vars PROVE [Ledger!Next]_(Ledger!vars)
    <2>a. executions \in [Turns -> Execution] /\ (pc \in Busy => turn \in Turns)
      BY <1>2 DEF IInv, TypeInv, TypeOK, TurnInv
    <2>b. TypeInv /\ QueueInv /\ MemInv /\ StatusInv /\ BirthInv /\ VerdictIsEarned
      BY <1>2 DEF IInv, DataInv
    <2>c. ASSUME UNCHANGED executions PROVE Outcomes' = Outcomes
      BY <2>c
    <2>1. CASE Finish
      <3>1. Ledger!Conclude(Verdict)
        BY <2>1, <2>b, <2>c, FinishVerdict DEF Ledger!Conclude, Ledger!AllDone, CompletedRows
      <3> QED
        BY <3>1, <2>1, <2>b, FinishVerdict DEF Ledger!Next
    <2>2. CASE Create /\ taskStatus' = "created" /\ UNCHANGED executions
      <3>1. taskStatus = "none"
        BY <2>2, <2>b DEF Create, CreateTask, BirthInv, TypeInv, TypeOK, Spent
      <3> QED
        BY <2>2, <2>c, <3>1 DEF Ledger!Next, Ledger!Submit
    <2>3. CASE BeginRun /\ taskStatus' = "running" /\ UNCHANGED executions
      <3>1. taskStatus \in {"created", "running", "paused", "failed"}
        BY <2>3, <2>b DEF BeginRun, BirthInv, QueueInv, VerdictIsEarned, CompletedRows,
                          TypeInv, TypeOK, Status
      <3> QED
        BY <2>3, <2>c, <3>1 DEF Ledger!Next, Ledger!Start
    <2>4. CASE SaveFailure /\ taskStatus = "running" /\ taskStatus' = "running"
      <3>1. turn \in Turns /\ executions[turn].status # "COMPLETED"
        BY <2>4, <2>a, <2>b DEF SaveFailure, QueueInv, Busy
      <3>2. Outcomes' = [Outcomes EXCEPT ![turn] = "failed"]
        BY <2>4, <2>a, <3>1 DEF SaveFailure
      <3>3. Ledger!Record(turn, "failed")
        BY <2>4, <3>1, <3>2 DEF Ledger!Record
      <3> QED
        BY <3>1, <3>3 DEF Ledger!Next
    <2>5. CASE SaveExecution /\ taskStatus = "running" /\ taskStatus' = "running"
      <3>1. turn \in Turns /\ executions[turn].status # "COMPLETED"
        BY <2>5, <2>a, <2>b DEF SaveExecution, CommitExecution, QueueInv, Busy
      <3>2. Outcomes' = [Outcomes EXCEPT ![turn] = "done"]
        BY <2>5, <2>a, <3>1 DEF SaveExecution, CommitExecution
      <3>3. Ledger!Record(turn, "done")
        BY <2>5, <3>1, <3>2 DEF Ledger!Record
      <3> QED
        BY <3>1, <3>3 DEF Ledger!Next
    <2>6. CASE UNCHANGED <<taskStatus, executions>>
      BY <2>6, <2>c DEF Ledger!vars
    <2> QED
      BY <1>2, <2>b, <2>1, <2>2, <2>3, <2>4, <2>5, <2>6, StatusChanges
  <1> QED
    BY Invariance, <1>1, <1>2, PTL DEF Spec, KeepsLedger, Ledger!Spec

(***************************************************************************)
(* What the deaths of a process can lose, when a task may read paused, and *)
(* what the audits of an invocation name and count.                        *)
(***************************************************************************)

Saving == {"saveExecution", "saveHandoff", "saveState"}
Before == {"idle", "loaded", "begin"}
Unsaved == {"turn", "working", "saveFailure", "saveFailedState"}

LastFrom(st) == st.handoffs # <<>> /\ st.handoffs[Len(st.handoffs)].from = previous
Counted == summary.relayed = IF summary.used = 0 THEN 0 ELSE summary.used - 1

(* The giver is known from the first worker that completes; once the next   *)
(* one has completed, the newest handoff is its own.                        *)
AuditInv ==
  /\ Counted
  /\ pc \in Before => previous = NoWorker /\ summary.used = 0
  /\ pc \in Unsaved =>
       /\ previous # NoWorker <=> summary.used # 0
       /\ previous # NoWorker => LastFrom(mem)
  /\ pc \in Unsaved \ {"turn"} => (audited <=> previous # NoWorker)
  /\ pc \in Saving =>
       /\ summary.used # 0
       /\ mem.handoffs # <<>> /\ mem.handoffs[Len(mem.handoffs)].from = WorkerOf(turn)

(* The memory of an invocation holds what the stored state holds, and the   *)
(* turn being saved.                                                        *)
CarryInv ==
  /\ pc # "idle" => Absorbed(stored) \subseteq Absorbed(mem)
  /\ pc \in Saving => turn \in Absorbed(mem)

LossInv == IInv /\ CarryInv /\ LossBounded /\ PausedMeansMoreRemain

(***************************************************************************)
(* The audits                                                              *)
(***************************************************************************)

(* The fields of a summary after a turn that completed. *)
LEMMA SummaryCounts ==
  ASSUME NEW s \in Summary, NEW b \in BOOLEAN
  PROVE  LET s2 == [s EXCEPT !.used = @ + 1, !.relayed = IF b THEN @ + 1 ELSE @] IN
         /\ s2.used = s.used + 1
         /\ s2.relayed = IF b THEN s.relayed + 1 ELSE s.relayed
         /\ s.used \in Nat /\ s.relayed \in Nat
         /\ [s EXCEPT !.failed = TRUE].used = s.used
         /\ [s EXCEPT !.failed = TRUE].relayed = s.relayed
  BY DEF Summary

LEMMA AuditStep == ASSUME TypeInv, AuditInv, [Next]_vars PROVE AuditInv'
  <1> USE DEF AuditInv, Saving, Before, Unsaved, Counted
  <1>a. /\ mem \in State /\ summary \in Summary /\ audited \in BOOLEAN
        /\ stored \in State
        /\ pc \in PCs
        /\ pc \in Busy => turn \in Turns
        /\ previous \in Workers \cup {NoWorker}
    BY DEF TypeInv, TypeOK, TurnInv
  <1>b. ASSUME ForgetMemory PROVE AuditInv'
    BY <1>b DEF ForgetMemory, NewSummary
  <1>1. CASE Create
    <2>1. PICK andRun \in BOOLEAN : CreateTask(andRun)
      BY <1>1 DEF Create
    <2> QED
      BY <2>1 DEF CreateTask
  <1>2. CASE Load
    BY <1>2 DEF Load, LoadState
  <1>3. CASE LoadExecutions
    <2>1. CASE ForgetMemory
      BY <2>1, <1>b
    <2>2. CASE pc = "loaded" /\ pc' = "begin" /\ UNCHANGED <<summary, previous>>
      BY <2>2
    <2> QED
      BY <1>3, <2>1, <2>2 DEF LoadExecutions, ProceedWith
  <1>4. CASE BeginRun
    BY <1>4 DEF BeginRun
  <1>5. CASE CompileTurn
    BY <1>5 DEF CompileTurn, LastFrom
  <1>6. CASE WorkerFails
    <2>1. mem'.handoffs = mem.handoffs
      BY <1>6, <1>a DEF WorkerFails, State
    <2> QED
      BY <1>6, <2>1 DEF WorkerFails, LastFrom
  <1>7. CASE SaveFailure
    BY <1>7 DEF SaveFailure, LastFrom
  <1>8. CASE SaveFailedState
    <2>1. summary'.used = summary.used /\ summary'.relayed = summary.relayed
      BY <1>8, <1>a, SummaryCounts DEF SaveFailedState
    <2> QED
      BY <1>8, <2>1 DEF SaveFailedState, LastFrom
  <1>9. CASE WorkerSucceeds
    <2>1. turn \in Turns
      BY <1>9, <1>a DEF WorkerSucceeds, Busy
    <2>2. [seq |-> turn, status |-> "COMPLETED"] \in Entry
      BY <2>1 DEF Entry, Outcome
    <2>3. NextWorker \in Workers \cup {NoWorker}
      <3>1. turn + 1 \in pending => turn + 1 \in Turns
        BY DEF TypeInv, TypeOK
      <3> QED BY <3>1, WorkerOfType DEF NextWorker
    <2> DEFINE h == [seq |-> turn, from |-> WorkerOf(turn), to |-> NextWorker]
    <2>4. h \in Handoff /\ h.from = WorkerOf(turn)
      BY <2>1, <2>3, WorkerOfType DEF Handoff
    <2>5. mem'.handoffs # <<>> /\ mem'.handoffs[Len(mem'.handoffs)] = h
      BY <1>9, <1>a, <2>2, <2>4, StateCompleted DEF WorkerSucceeds
    <2>6. /\ summary'.used = summary.used + 1
          /\ summary'.relayed = IF audited THEN summary.relayed + 1 ELSE summary.relayed
          /\ summary.used \in Nat /\ summary.relayed \in Nat
      BY <1>9, <1>a, SummaryCounts DEF WorkerSucceeds
    <2>7. Counted' /\ summary'.used # 0
      BY <1>9, <2>6 DEF WorkerSucceeds
    <2>8. pc' = "saveExecution" /\ turn' = turn
      BY <1>9 DEF WorkerSucceeds
    <2>9. mem'.handoffs # <<>> /\ mem'.handoffs[Len(mem'.handoffs)].from = WorkerOf(turn')
      BY <2>4, <2>5, <2>8
    <2> HIDE DEF Counted
    <2> QED
      BY <2>7, <2>8, <2>9
  <1>10. CASE SaveExecution
    BY <1>10 DEF SaveExecution, CommitExecution
  <1>11. CASE SaveHandoff
    BY <1>11 DEF SaveHandoff
  <1>12. CASE SaveState
    <2>1. WorkerOf(turn) \in Workers /\ WorkerOf(turn) # NoWorker
      BY <1>12, <1>a, WorkerOfType, RosterAssumption DEF SaveState, Busy, Workers, NoWorker
    <2> QED
      BY <1>12, <2>1 DEF SaveState, LastFrom
  <1>13. CASE Finish
    BY <1>13 DEF Finish
  <1>14. CASE SetStatus
    BY <1>14, <1>b DEF SetStatus
  <1>15. CASE Crash
    BY <1>15, <1>b DEF Crash
  <1>16. CASE UNCHANGED vars
    BY <1>16 DEF vars, db, local, LastFrom
  <1> QED
    BY <1>1, <1>2, <1>3, <1>4, <1>5, <1>6, <1>7, <1>8, <1>9, <1>10, <1>11, <1>12,
       <1>13, <1>14, <1>15, <1>16 DEF Next, Progress, EndTurn

(* A handoff audit names the worker that wrote the newest handoff, and an   *)
(* invocation counts one handoff between two workers that completed: the    *)
(* audit and the structured_handoffs counter of _execute.                   *)
THEOREM AuditsAreTrue == Spec => []AuditTrail
  <1>1. Init => TypeInv /\ AuditInv
    BY TypeInit DEF Init, AuditInv, Counted, Before, Unsaved, Saving, NewSummary
  <1>2. TypeInv /\ AuditInv /\ [Next]_vars => TypeInv' /\ AuditInv'
    BY TypeStep, AuditStep
  <1>3. AuditInv => AuditTrail
    BY DEF AuditInv, AuditTrail, AuditNamesGiver, HandoffsCounted, Counted, LastFrom, Unsaved
  <1> QED
    BY <1>1, <1>2, <1>3, PTL DEF Spec

(***************************************************************************)
(* What a death can lose                                                   *)
(***************************************************************************)

(* Saving a state under another status keeps what its history absorbed. *)
LEMMA SameHistory ==
  ASSUME NEW st \in State, NEW v \in Status
  PROVE  Absorbed([st EXCEPT !.status = v]) = Absorbed(st)
  BY StateStatus, AbsorbedSame

(* What the memory holds stays what is stored and what is being saved.      *)
LEMMA CarryStep == ASSUME TypeInv, CarryInv, [Next]_vars PROVE CarryInv'
  <1> USE DEF CarryInv, Saving
  <1>a. /\ mem \in State /\ stored \in State
        /\ pc \in Busy => turn \in Turns
    BY DEF TypeInv, TypeOK, TurnInv
  <1>b. ASSUME UNCHANGED <<mem, stored, turn>>, pc # "idle", pc' \in Saving => pc \in Saving
        PROVE  CarryInv'
    BY <1>b DEF Absorbed
  <1>c. ASSUME pc' = "idle" PROVE CarryInv'
    BY <1>c
  <1>d. ASSUME stored' = mem', pc' \notin Saving PROVE CarryInv'
    BY <1>d DEF Absorbed
  <1>1. CASE Create
    <2>1. PICK andRun \in BOOLEAN : CreateTask(andRun)
      BY <1>1 DEF Create
    <2>2. Absorbed(stored') = {}
      BY <2>1, AbsorbedNew DEF CreateTask, SaveStateRow
    <2>3. pc' \notin Saving /\ Absorbed(stored)' = Absorbed(stored')
      BY <2>1 DEF CreateTask, Absorbed
    <2> QED
      BY <2>2, <2>3
  <1>2. CASE Load
    BY <1>2 DEF Load, LoadState, db, Absorbed
  <1>3. CASE LoadExecutions
    BY <1>3, <1>b, <1>c DEF LoadExecutions, ProceedWith, ForgetMemory, db
  <1>4. CASE BeginRun
    BY <1>4, <1>d DEF BeginRun, SaveStateRow
  <1>5. CASE CompileTurn
    BY <1>5 DEF CompileTurn, Absorbed
  <1>6. CASE WorkerFails
    <2>1. [seq |-> turn, status |-> "FAILED"] \in Entry
      BY <1>6, <1>a DEF WorkerFails, Entry, Outcome, Busy
    <2>2. Absorbed(mem') = Absorbed(mem)
      <3>1. mem'.history = Append(mem.history, [seq |-> turn, status |-> "FAILED"])
        BY <1>6, <1>a, <2>1, StateFailed DEF WorkerFails
      <3> QED
        BY <1>a, <2>1, <3>1, AbsorbedAppend
    <2>3. Absorbed(mem)' = Absorbed(mem) /\ Absorbed(stored)' = Absorbed(stored)
      BY <1>6, <2>2 DEF WorkerFails, db, Absorbed
    <2> QED
      BY <1>6, <2>3 DEF WorkerFails
  <1>7. CASE SaveFailure
    BY <1>7, <1>b DEF SaveFailure
  <1>8. CASE SaveFailedState
    BY <1>8, <1>d DEF SaveFailedState, SaveStateRow
  <1>9. CASE WorkerSucceeds
    <2> DEFINE e == [seq |-> turn, status |-> "COMPLETED"]
    <2>1. e \in Entry /\ e.status = "COMPLETED" /\ e.seq = turn
      BY <1>9, <1>a DEF WorkerSucceeds, Entry, Outcome, Busy
    <2>2. mem'.history = Append(mem.history, e)
      BY <1>9 DEF WorkerSucceeds, FoldTurn
    <2> HIDE DEF e
    <2>3. Absorbed(mem') = Absorbed(mem) \cup {turn}
      BY <1>a, <2>1, <2>2, AbsorbedAppend
    <2>4. Absorbed(mem)' = Absorbed(mem') /\ Absorbed(stored)' = Absorbed(stored)
      BY <1>9 DEF WorkerSucceeds, db, Absorbed
    <2> QED
      BY <1>9, <2>3, <2>4 DEF WorkerSucceeds
  <1>10. CASE SaveExecution
    BY <1>10, <1>b DEF SaveExecution, CommitExecution
  <1>11. CASE SaveHandoff
    BY <1>11, <1>b DEF SaveHandoff
  <1>12. CASE SaveState
    BY <1>12, <1>d DEF SaveState, SaveStateRow
  <1>13. CASE Finish
    BY <1>13, <1>d DEF Finish, SaveStateRow
  <1>14. CASE SetStatus
    BY <1>14, <1>c DEF SetStatus, ForgetMemory
  <1>15. CASE Crash
    BY <1>15, <1>c DEF Crash, ForgetMemory
  <1>16. CASE UNCHANGED vars
    BY <1>16 DEF vars, db, local, Absorbed
  <1> QED
    BY <1>1, <1>2, <1>3, <1>4, <1>5, <1>6, <1>7, <1>8, <1>9, <1>10, <1>11, <1>12,
       <1>13, <1>14, <1>15, <1>16 DEF Next, Progress, EndTurn

(* A turn is lost by a death only, and then it is the one being saved.      *)
LEMMA LostStep ==
  ASSUME MaxCreates = 1, IInv, CarryInv, [Next]_vars
  PROVE  \/ LostTurns' \subseteq LostTurns
         \/ Crash /\ LostTurns' \subseteq LostTurns \cup {turn}
  <1>a. /\ executions \in [Turns -> Execution] /\ mem \in State /\ stored \in State
        /\ handoffs \in [Turns -> Handoff \cup {NoHandoff}] /\ used \in Spent
        /\ pc \in Busy => turn \in Turns
        /\ pc \notin Busy => turn = NoTurn
        /\ NoTurn \notin Turns
    BY TurnsFacts DEF IInv, TypeInv, TypeOK, TurnInv, NoTurn, Turns
  <1>b. BirthInv /\ QueueInv /\ MemInv
    BY DEF IInv, DataInv
  <1>c. ASSUME UNCHANGED <<executions, stored, handoffs>>, turn = NoTurn \/ turn' = turn
        PROVE  LostTurns' \subseteq LostTurns
    BY <1>a, <1>c DEF LostTurns, CompletedRows, Absorbed
  <1>d. ASSUME UNCHANGED <<executions, handoffs>>, Absorbed(stored) \subseteq Absorbed(stored'),
               \/ turn' = turn
               \/ turn = NoTurn
               \/ executions[turn].status # "COMPLETED"
               \/ turn \in Absorbed(stored') /\ handoffs[turn] # NoHandoff
        PROVE  LostTurns' \subseteq LostTurns
    <2>1. Absorbed(stored)' = Absorbed(stored')
      BY DEF Absorbed
    <2>2. CompletedRows' = CompletedRows
      BY <1>d DEF CompletedRows
    <2> QED
      BY <1>a, <1>d, <2>1, <2>2 DEF LostTurns, CompletedRows
  <1>1. CASE Create
    <2>1. used.creates = 0 /\ UNCHANGED executions
      BY <1>1, <1>a DEF Create, CreateTask, Spent
    <2>2. CompletedRows' = {}
      BY <1>b, <2>1 DEF BirthInv, CompletedRows, NoExecution
    <2> QED
      BY <2>2 DEF LostTurns
  <1>2. CASE Load
    BY <1>2, <1>c DEF Load, LoadState, db
  <1>3. CASE LoadExecutions
    <2>1. pc = "loaded" /\ UNCHANGED <<executions, stored, handoffs>>
      BY <1>3 DEF LoadExecutions, ProceedWith, db
    <2>2. turn = NoTurn
      BY <1>a, <2>1 DEF Busy
    <2> QED
      BY <1>c, <2>1, <2>2
  <1>4. CASE BeginRun
    <2>1. stored' = mem' /\ Absorbed(mem') = Absorbed(mem)
      BY <1>4, <1>a, SameHistory DEF BeginRun, SaveStateRow, Status
    <2>2. Absorbed(stored) \subseteq Absorbed(stored')
      BY <1>4, <2>1 DEF BeginRun, CarryInv
    <2> QED
      <3>1. UNCHANGED <<executions, handoffs>> /\ turn' = turn
        BY <1>4 DEF BeginRun
      <3> QED
        BY <1>d, <2>2, <3>1
  <1>5. CASE CompileTurn
    <2>1. turn = NoTurn
      BY <1>5, <1>a DEF CompileTurn, Busy
    <2> QED
      BY <1>5, <1>c, <2>1 DEF CompileTurn
  <1>6. CASE WorkerFails
    BY <1>6, <1>c DEF WorkerFails, db
  <1>7. CASE SaveFailure
    <2>1. \A t \in Turns : executions'[t].status = "COMPLETED" => executions[t].status = "COMPLETED"
      BY <1>7, <1>a DEF SaveFailure
    <2>2. UNCHANGED <<stored, handoffs, turn>>
      BY <1>7 DEF SaveFailure
    <2> QED
      BY <2>1, <2>2 DEF LostTurns, CompletedRows, Absorbed
  <1>8. CASE SaveFailedState
    <2>1. stored' = mem /\ executions[turn].status # "COMPLETED"
      BY <1>8, <1>b DEF SaveFailedState, SaveStateRow, QueueInv
    <2>2. UNCHANGED <<executions, handoffs>> /\ Absorbed(stored) \subseteq Absorbed(mem)
      BY <1>8 DEF SaveFailedState, CarryInv
    <2> QED
      BY <1>d, <2>1, <2>2
  <1>9. CASE WorkerSucceeds
    BY <1>9, <1>c DEF WorkerSucceeds, db
  <1>10. CASE SaveExecution
    <2>1. \A t \in Turns \ {turn} : executions'[t] = executions[t]
      BY <1>10, <1>a DEF SaveExecution, CommitExecution
    <2>2. UNCHANGED <<stored, handoffs, turn>>
      BY <1>10 DEF SaveExecution, CommitExecution
    <2> QED
      BY <2>1, <2>2 DEF LostTurns, CompletedRows, Absorbed
  <1>11. CASE SaveHandoff
    <2>1. \A t \in Turns \ {turn} : handoffs'[t] = handoffs[t]
      BY <1>11, <1>a DEF SaveHandoff
    <2>2. UNCHANGED <<stored, executions, turn>>
      BY <1>11 DEF SaveHandoff
    <2> QED
      BY <2>1, <2>2 DEF LostTurns, CompletedRows, Absorbed
  <1>12. CASE SaveState
    <2>1. stored' = mem /\ pc = "saveState" /\ turn \in Absorbed(mem)
          /\ Absorbed(stored) \subseteq Absorbed(mem) /\ UNCHANGED <<executions, handoffs>>
      BY <1>12 DEF SaveState, SaveStateRow, CarryInv, Saving
    <2>2. handoffs[turn].seq = turn /\ turn \in Turns
      BY <1>a, <1>b, <2>1 DEF MemInv, Busy
    <2>3. handoffs[turn] # NoHandoff
      BY <1>a, <2>2 DEF NoHandoff
    <2> QED
      BY <1>d, <2>1, <2>3
  <1>13. CASE Finish
    <2>1. Verdict \in Status
      BY DEF Verdict, Status
    <2>2. stored' = mem' /\ Absorbed(mem') = Absorbed(mem)
      BY <1>13, <1>a, <2>1, SameHistory DEF Finish, SaveStateRow
    <2>3. Absorbed(stored) \subseteq Absorbed(stored')
      BY <1>13, <2>2 DEF Finish, CarryInv
    <2> QED
      <3>1. UNCHANGED <<executions, handoffs>> /\ turn' = turn
        BY <1>13 DEF Finish
      <3> QED
        BY <1>d, <2>3, <3>1
  <1>14. CASE SetStatus
    <2>1. turn = NoTurn
      BY <1>14, <1>a DEF SetStatus, Busy
    <2> QED
      BY <1>14, <1>c, <2>1 DEF SetStatus
  <1>15. CASE Crash
    <2>1. UNCHANGED <<executions, stored, handoffs>>
      BY <1>15 DEF Crash, db
    <2>2. LostTurns' \subseteq LostTurns \cup {turn}
      BY <2>1 DEF LostTurns, CompletedRows, Absorbed
    <2> QED
      BY <1>15, <2>2
  <1>16. CASE UNCHANGED vars
    BY <1>16, <1>c DEF vars, db, local
  <1> QED
    BY <1>1, <1>2, <1>3, <1>4, <1>5, <1>6, <1>7, <1>8, <1>9, <1>10, <1>11, <1>12,
       <1>13, <1>14, <1>15, <1>16 DEF Next, Progress, EndTurn

(* The crashes so far grow with a crash, and with nothing else.             *)
LEMMA CrashesCounted ==
  ASSUME used \in Spent, [Next]_vars
  PROVE  /\ used.crashes \in Nat /\ used'.crashes \in Nat
         /\ used.crashes <= used'.crashes
         /\ Crash => used'.crashes = used.crashes + 1
  <1>0. /\ used.crashes \in Nat
        /\ [used EXCEPT !.creates = @ + 1].crashes = used.crashes
        /\ [used EXCEPT !.failures = @ + 1].crashes = used.crashes
        /\ [used EXCEPT !.crashes = @ + 1].crashes = used.crashes + 1
    BY DEF Spent
  <1>1. CASE Crash
    BY <1>0, <1>1 DEF Crash
  <1>2. CASE used' = used \/ used'.crashes = used.crashes
    <2>1. used'.crashes = used.crashes
      BY <1>2
    <2>2. ~Crash
      <3>1. Crash => used'.crashes = used.crashes + 1
        BY <1>0 DEF Crash
      <3> QED
        BY <1>0, <2>1, <3>1
    <2> QED
      BY <1>0, <2>1, <2>2
  <1>3. CASE Create
    BY <1>0, <1>2, <1>3 DEF Create, CreateTask
  <1>4. CASE WorkerFails
    BY <1>0, <1>2, <1>4 DEF WorkerFails
  <1>5. CASE Load \/ LoadExecutions \/ BeginRun \/ CompileTurn \/ SaveFailure
             \/ SaveFailedState \/ WorkerSucceeds \/ SaveExecution \/ SaveHandoff
             \/ SaveState \/ Finish \/ SetStatus \/ UNCHANGED vars
    BY <1>2, <1>5
       DEF Load, LoadState, LoadExecutions, ProceedWith, BeginRun, CompileTurn, SaveFailure,
           SaveFailedState, WorkerSucceeds, SaveExecution, CommitExecution, SaveHandoff,
           SaveState, Finish, SetStatus, vars
  <1> QED
    BY <1>1, <1>3, <1>4, <1>5 DEF Next, Progress, EndTurn

(* There are finitely many turns to lose. *)
LEMMA LostFinite == IsFiniteSet(LostTurns) /\ IsFiniteSet(LostTurns')
  <1>1. IsFiniteSet(Turns)
    BY TurnsFacts, FS_Interval DEF Turns
  <1>2. LostTurns \subseteq Turns /\ LostTurns' \subseteq Turns
    BY DEF LostTurns, CompletedRows
  <1> QED
    BY <1>1, <1>2, FS_Subset

(* Each death loses one turn at most. *)
LEMMA LossStep ==
  ASSUME MaxCreates = 1, IInv, CarryInv, LossBounded, [Next]_vars
  PROVE  LossBounded'
  <1>0. used \in Spent
    BY DEF IInv, TypeInv, TypeOK
  <1>a. /\ Cardinality(LostTurns) \in Nat /\ Cardinality(LostTurns') \in Nat
        /\ Cardinality(LostTurns) <= used.crashes
    BY LostFinite, FS_CardinalityType DEF LossBounded
  <1>1. CASE LostTurns' \subseteq LostTurns
    <2>1. Cardinality(LostTurns') <= Cardinality(LostTurns)
      BY <1>1, LostFinite, FS_Subset
    <2> QED
      BY <1>0, <1>a, <2>1, CrashesCounted DEF LossBounded
  <1>2. CASE Crash /\ LostTurns' \subseteq LostTurns \cup {turn}
    <2>1. /\ IsFiniteSet(LostTurns \cup {turn})
          /\ Cardinality(LostTurns \cup {turn}) \in
               {Cardinality(LostTurns), Cardinality(LostTurns) + 1}
      BY LostFinite, FS_AddElement
    <2>2. Cardinality(LostTurns') <= Cardinality(LostTurns \cup {turn})
      BY <1>2, <2>1, FS_Subset
    <2> QED
      BY <1>0, <1>2, <1>a, <2>1, <2>2, CrashesCounted DEF LossBounded
  <1> QED
    BY <1>1, <1>2, LostStep

(***************************************************************************)
(* When a task reads paused                                                *)
(***************************************************************************)

(* Between the verdict and the next invocation, nothing is saved.           *)
LEMMA PausedRests ==
  ASSUME TypeInv, StatusInv, [Next]_vars, ~Finish, taskStatus' = "paused"
  PROVE  taskStatus = "paused"
         /\ UNCHANGED <<executions, stored, handoffs>> /\ turn' = turn
  <1> USE DEF StatusInv, Executing, Busy
  <1>0. mem \in State /\ turn = turn /\ (pc \notin Busy => turn = NoTurn)
    BY DEF TypeInv, TypeOK, TurnInv
  <1>1. ~Create
    BY DEF Create, CreateTask, SaveStateRow, NewState
  <1>2. ~BeginRun
    BY <1>0, StateStatus DEF BeginRun, SaveStateRow, Status
  <1>3. /\ ~CompileTurn /\ ~WorkerFails /\ ~SaveFailure /\ ~SaveFailedState
        /\ ~WorkerSucceeds /\ ~SaveExecution /\ ~SaveHandoff /\ ~SaveState
    BY DEF CompileTurn, WorkerFails, SaveFailure, SaveFailedState, WorkerSucceeds,
           SaveExecution, CommitExecution, SaveHandoff, SaveState, SaveStateRow, db
  <1>4. CASE Load
    BY <1>4 DEF Load, LoadState, db
  <1>5. CASE LoadExecutions
    BY <1>0, <1>5 DEF LoadExecutions, ProceedWith, ForgetMemory, db
  <1>6. CASE SetStatus
    BY <1>0, <1>6 DEF SetStatus, ForgetMemory
  <1>7. CASE Crash
    BY <1>0, <1>7 DEF Crash, ForgetMemory, db
  <1>8. CASE UNCHANGED vars
    BY <1>8 DEF vars, db, local
  <1> QED
    BY <1>1, <1>2, <1>3, <1>4, <1>5, <1>6, <1>7, <1>8 DEF Next, Progress, EndTurn

LEMMA PausedStep ==
  ASSUME TypeInv, StatusInv, PausedMeansMoreRemain, [Next]_vars
  PROVE  PausedMeansMoreRemain'
  <1>1. CASE taskStatus' # "paused"
    BY <1>1 DEF PausedMeansMoreRemain
  <1>2. CASE taskStatus' = "paused" /\ ~Finish
    BY <1>2, PausedRests DEF PausedMeansMoreRemain, LostTurns, CompletedRows, Absorbed
  <1>3. CASE taskStatus' = "paused" /\ Finish
    <2>1. /\ pc = "turn" /\ UNCHANGED <<executions, handoffs, turn>> /\ turn = NoTurn
          /\ mem \in State
      BY <1>3 DEF Finish, TypeInv, TypeOK, TurnInv, Busy
    <2>2. Verdict = "paused"
      <3>1. Verdict \in Status
        BY DEF Verdict, Status
      <3> QED
        BY <1>3, <2>1, <3>1, StateStatus DEF Finish, SaveStateRow
    <2>3. PICK t \in Turns : t \notin Absorbed(mem)
      BY <2>2 DEF Verdict, HasRemaining
    <2>4. Absorbed(stored)' = Absorbed(mem)
      <3>1. Absorbed(mem') = Absorbed(mem) /\ stored' = mem'
        BY <1>3, <2>1, <2>2, SameHistory DEF Finish, SaveStateRow, Status
      <3> QED
        BY <3>1 DEF Absorbed
    <2>5. CompletedRows' = Turns => t \in LostTurns'
      BY <2>1, <2>3, <2>4, TurnsFacts DEF LostTurns, NoTurn, Turns
    <2> QED
      BY <2>5 DEF PausedMeansMoreRemain
  <1> QED
    BY <1>1, <1>2, <1>3

(***************************************************************************)
(* The theorems                                                            *)
(***************************************************************************)
LEMMA LossInvInit == Init => LossInv
  <1> SUFFICES ASSUME Init PROVE LossInv
    OBVIOUS
  <1>1. CompletedRows = {}
    BY DEF Init, CompletedRows, NoExecution
  <1>2. LostTurns = {}
    BY <1>1 DEF LostTurns
  <1>3. LossBounded
    BY <1>2, FS_EmptySet DEF LossBounded, Init
  <1> QED
    BY <1>3, InvInit DEF Init, LossInv, CarryInv, Saving, PausedMeansMoreRemain

LEMMA LossInvStep == MaxCreates = 1 /\ LossInv /\ [Next]_vars => LossInv'
  BY InvStep, CarryStep, LossStep, PausedStep DEF LossInv, IInv

(* The invariant of what is stored and what is lost. *)
THEOREM LossInvariance == ASSUME MaxCreates = 1 PROVE Spec => []LossInv
  <1>1. LossInv /\ [Next]_vars => LossInv'
    BY LossInvStep
  <1> QED
    BY LossInvInit, <1>1, PTL DEF Spec

(* However often the process dies between the commits of _execute, each     *)
(* death costs at most one completed turn its place in the stored state or  *)
(* its handoff row, and no turn loses either without a death.               *)
THEOREM DeathsLoseOneTurnEach == ASSUME MaxCreates = 1 PROVE Spec => []LossBounded
  <1>1. LossInv => LossBounded
    BY DEF LossInv
  <1> QED
    BY LossInvariance, <1>1, PTL

(* "paused" is only stored while a turn is left to run, or lost: the verdict *)
(* of a single step.                                                        *)
THEOREM PausedTasksHaveMore == ASSUME MaxCreates = 1 PROVE Spec => []PausedMeansMoreRemain
  <1>1. LossInv => PausedMeansMoreRemain
    BY DEF LossInv
  <1> QED
    BY LossInvariance, <1>1, PTL
=============================================================================
