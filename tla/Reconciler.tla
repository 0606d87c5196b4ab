----------------------------- MODULE Reconciler -----------------------------
(***************************************************************************)
(* StateReconciler (core/reconciler.py) merging what workers claim into    *)
(* the ExecutionState (context/state.py).                                  *)
(*                                                                         *)
(* A turn is the claims of one worker's result and report, merged kind by  *)
(* kind in the order of reconcile.  A claim's place in that order is its   *)
(* rank; a merge step takes one more claim of the turn, of the rank        *)
(* reached or a later one, so that every list a worker may send is met     *)
(* claim by claim.  The state's lists are sets here, the plan apart: what  *)
(* they hold, never their order, is read back by the reconciler.           *)
(*                                                                         *)
(* Left out: the progress, last_action and next_action texts, reasons,     *)
(* severities and kinds, the accepted and skipped counts, and warnings     *)
(* that name no claim.  Blank claims are dropped by the code before any    *)
(* merge step and are not claims here.                                     *)
(***************************************************************************)
EXTENDS Naturals, Sequences, FiniteSets

CONSTANTS
  Workers,    \* worker ids
  Texts,      \* what a worker may write: tasks, decisions, names, issues ...
  Plan,       \* the submitted steps, a sequence of texts
  Extra,      \* the task of a surplus worker's turn: "Continue the objective ..."
  Key,        \* Texts -> keys: normalize, which drops all but a-z and 0-9
  Sense,      \* Texts -> what the text says, for a reader
  MaxClaims   \* bound: claims merged in a behaviour

ASSUME PlanAssumption == Plan \in Seq(Texts) /\ Plan # <<>> /\ Extra \in Texts
ASSUME KeyAssumption == DOMAIN Key = Texts /\ DOMAIN Sense = Texts
ASSUME BoundAssumption == MaxClaims \in Nat

NoText == ""
NoOne == ""       \* resolution_claimed_by is None
ASSUME TextAssumption == NoText \notin Texts /\ NoOne \notin Workers

Steps == DOMAIN Plan
Tasks == {Plan[i] : i \in Steps} \cup {Extra}     \* what turns are assigned
SameKey(a, b) == Key[a] = Key[b]

(***************************************************************************)
(* Records of the state                                                    *)
(***************************************************************************)
Claim == [text : Texts, by : Workers]
Issue == [text : Texts, by : Workers, resolved : BOOLEAN, claimedBy : Workers \cup {NoOne}]
Descriptions == {"", "described", "mention"}   \* "mention": in the report only
Artifact == [name : Texts, by : Workers, version : Nat \ {0}, description : Descriptions,
             content : BOOLEAN, modifiedBy : SUBSET Workers]
Doubts == {"unplanned", "reportOnly", "keptOpen"}
Warning == [doubt : Doubts, text : Texts]

(* Ranks: the order in which reconcile merges the kinds of claim. *)
Completions == 1
Decisions == 2
Listings == 3
Mentions == 4
Problems == 5
Failures == 6
Beliefs == 7
Ranks == 1..7
Idle == 0

VARIABLES
  pending,     \* plan steps not completed
  completed,   \* completed_tasks
  current,     \* current_task
  decisions, artifacts, issues, attempts, assumptions,
  warnings,    \* what the reconciliation reports of all turns flag
  rank,        \* how far the turn has been merged, Idle between turns
  worker,      \* whose turn it is
  planned,     \* keys of the steps pending as the turn began, and of its task
  seen,        \* keys of the decisions met in the turn
  structured,  \* keys of the artifacts the turn's result lists
  claims       \* bound: claims so far

state == <<pending, completed, current, decisions, artifacts, issues, attempts,
           assumptions>>
turn == <<worker, planned, seen, structured>>
vars == <<state, warnings, rank, turn, claims>>

(* create_state: the plan is pending and its first step current. *)
Init ==
  /\ pending = Steps
  /\ completed = {}
  /\ current = Plan[1]
  /\ decisions = {} /\ artifacts = {} /\ issues = {} /\ attempts = {} /\ assumptions = {}
  /\ warnings = {}
  /\ rank = Idle
  /\ worker = NoOne
  /\ planned = {} /\ seen = {} /\ structured = {}
  /\ claims = 0

(***************************************************************************)
(* One turn                                                                *)
(***************************************************************************)

(* The engine puts its assignment on the state and hands the worker's       *)
(* result and report to reconcile.                                          *)
BeginTurn(w, task) ==
  /\ rank = Idle
  /\ rank' = Completions
  /\ worker' = w
  /\ current' = task
  /\ planned' = {Key[Plan[i]] : i \in pending} \cup {Key[task]}
  /\ seen' = {} /\ structured' = {}
  /\ UNCHANGED <<pending, completed, decisions, artifacts, issues, attempts,
                 assumptions, warnings, claims>>

(* A worker that fails has no claims to merge; its task stays current. *)
FailTurn(task) ==
  /\ rank = Idle
  /\ current' = task
  /\ UNCHANGED <<pending, completed, decisions, artifacts, issues, attempts,
                 assumptions, warnings, rank, turn, claims>>

(* The turn's next claim is of rank r. *)
NextClaim(r) ==
  /\ rank # Idle /\ rank <= r
  /\ claims < MaxClaims
  /\ rank' = r
  /\ claims' = claims + 1

Warn(doubt, text) == warnings' = warnings \cup {[doubt |-> doubt, text |-> text]}

(* Deviation: claims are compared as written. *)
KnowsAsWritten(claimed, text) == \E c \in claimed : c.text = text

(* A claim is added unless one with its key is there: the add_ methods. *)
Knows(claimed, text) == \E c \in claimed : SameKey(c.text, text)
WithClaim(claimed, text) ==
  IF Knows(claimed, text) THEN claimed
  ELSE claimed \cup {[text |-> text, by |-> worker]}

(* Deviation: only the step with the words of the claim leaves the plan. *)
StillPendingAsWritten(text) == {i \in pending : Plan[i] # text}

(* Every pending step with the key of the claim leaves the plan. *)
StillPending(text) == {i \in pending : ~SameKey(Plan[i], text)}

ClaimCompletion(text) ==
  /\ NextClaim(Completions)
  /\ IF Knows(completed, text)
     THEN UNCHANGED <<completed, pending, warnings>>
     ELSE /\ completed' = WithClaim(completed, text)
          /\ pending' = StillPending(text)
          /\ IF Key[text] \in planned THEN UNCHANGED warnings ELSE Warn("unplanned", text)
  /\ UNCHANGED <<current, decisions, artifacts, issues, attempts, assumptions, turn>>

(* The result's decisions, then the report's: one met in the turn is skipped. *)
ClaimDecision(text) ==
  /\ NextClaim(Decisions)
  /\ seen' = seen \cup {Key[text]}
  /\ decisions' = IF Key[text] \in seen THEN decisions ELSE WithClaim(decisions, text)
  /\ UNCHANGED <<pending, completed, current, artifacts, issues, attempts, assumptions,
                 warnings, worker, planned, structured>>

(* upsert_artifact: an artifact known by its key is revised, never replaced. *)
Revised(a, description, content) ==
  [a EXCEPT !.version = @ + 1,
            !.description = IF description = "" THEN @ ELSE description,
            !.content = @ \/ content,
            !.modifiedBy = IF worker = a.by THEN @ ELSE @ \cup {worker}]

(* Deviation: an artifact is numbered by how often it was revised. *)
NewArtifactUnversioned(name, description, content) ==
  [name |-> name, by |-> worker, version |-> 0, description |-> description,
   content |-> content, modifiedBy |-> {}]

NewArtifact(name, description, content) ==
  [name |-> name, by |-> worker, version |-> 1, description |-> description,
   content |-> content, modifiedBy |-> {}]

Upsert(name, description, content) ==
  LET known == {a \in artifacts : SameKey(a.name, name)} IN
  artifacts' = IF known = {} THEN artifacts \cup {NewArtifact(name, description, content)}
               ELSE (artifacts \ known) \cup {Revised(a, description, content) : a \in known}

(* An artifact of the worker's structured result. *)
ListArtifact(name, description, content) ==
  /\ NextClaim(Listings)
  /\ structured' = structured \cup {Key[name]}
  /\ Upsert(name, description, content)
  /\ UNCHANGED <<pending, completed, current, decisions, issues, attempts, assumptions,
                 warnings, worker, planned, seen>>

(* Deviation: only a mention that creates the artifact is flagged. *)
MentionArtifactFlagsNew(name) ==
  /\ NextClaim(Mentions)
  /\ IF Key[name] \in structured
     THEN UNCHANGED <<artifacts, warnings>>
     ELSE /\ Upsert(name, "mention", FALSE)
          /\ IF \E a \in artifacts : SameKey(a.name, name)
             THEN UNCHANGED warnings ELSE Warn("reportOnly", name)
  /\ UNCHANGED <<pending, completed, current, decisions, issues, attempts, assumptions, turn>>

(* An artifact the report mentions: skipped if the result listed it. *)
MentionArtifact(name) ==
  /\ NextClaim(Mentions)
  /\ IF Key[name] \in structured
     THEN UNCHANGED <<artifacts, warnings>>
     ELSE Upsert(name, "mention", FALSE) /\ Warn("reportOnly", name)
  /\ UNCHANGED <<pending, completed, current, decisions, issues, attempts, assumptions, turn>>

(* A new issue is open; one already known stays as it is. *)
RaiseIssue(text) ==
  /\ NextClaim(Problems)
  /\ issues' = IF Knows(issues, text) THEN issues
               ELSE issues \cup {[text |-> text, by |-> worker, resolved |-> FALSE,
                                  claimedBy |-> NoOne]}
  /\ UNCHANGED <<pending, completed, current, decisions, artifacts, attempts, assumptions,
                 warnings, turn>>

(* Deviation: the claim is believed. *)
WithResolutionBelieved(i) == [i EXCEPT !.claimedBy = worker, !.resolved = TRUE]

(* A claim that an issue is resolved is noted on the issue. *)
WithResolution(i) == [i EXCEPT !.claimedBy = worker]

ClaimResolution(text) ==
  /\ NextClaim(Problems)
  /\ issues' = {IF SameKey(i.text, text) THEN WithResolution(i) ELSE i : i \in issues}
  /\ IF Knows(issues, text) THEN Warn("keptOpen", text) ELSE UNCHANGED warnings
  /\ UNCHANGED <<pending, completed, current, decisions, artifacts, attempts, assumptions,
                 turn>>

ClaimFailedAttempt(text) ==
  /\ NextClaim(Failures)
  /\ attempts' = WithClaim(attempts, text)
  /\ UNCHANGED <<pending, completed, current, decisions, artifacts, issues, assumptions,
                 warnings, turn>>

ClaimAssumption(text) ==
  /\ NextClaim(Beliefs)
  /\ assumptions' = WithClaim(assumptions, text)
  /\ UNCHANGED <<pending, completed, current, decisions, artifacts, issues, attempts,
                 warnings, turn>>

(* The plan's cursor: its first pending step, whatever the worker recommends. *)
FirstPending(steps) ==
  IF steps = {} THEN NoText
  ELSE Plan[CHOOSE i \in steps : \A j \in steps : i <= j]

EndTurn ==
  /\ rank # Idle
  /\ rank' = Idle
  /\ current' = FirstPending(pending)
  /\ worker' = NoOne /\ planned' = {} /\ seen' = {} /\ structured' = {}
  /\ UNCHANGED <<pending, completed, decisions, artifacts, issues, attempts, assumptions,
                 warnings, claims>>

Next ==
  \/ \E task \in Tasks : FailTurn(task) \/ \E w \in Workers : BeginTurn(w, task)
  \/ \E text \in Texts :
       \/ ClaimCompletion(text)
       \/ ClaimDecision(text)
       \/ \E description \in {"", "described"}, content \in BOOLEAN :
            ListArtifact(text, description, content)
       \/ MentionArtifact(text)
       \/ RaiseIssue(text)
       \/ ClaimResolution(text)
       \/ ClaimFailedAttempt(text)
       \/ ClaimAssumption(text)
  \/ EndTurn

Spec == Init /\ [][Next]_vars

(***************************************************************************)
(* Properties                                                              *)
(***************************************************************************)

(* Every part of the state and of the turn has its type. *)
TypeOK ==
  /\ pending \subseteq Steps
  /\ current \in Texts \cup {NoText}
  /\ \A kind \in {completed, decisions, attempts, assumptions} : kind \subseteq Claim
  /\ artifacts \subseteq Artifact
  /\ issues \subseteq Issue
  /\ warnings \subseteq Warning
  /\ rank \in Ranks \cup {Idle}
  /\ worker \in Workers \cup {NoOne}
  /\ \A keys \in {planned, seen, structured} : keys \subseteq {Key[t] : t \in Texts}
  /\ claims \in 0..MaxClaims

(* Whatever the workers repeat in other words, and in which turn, the state *)
(* holds one record for a key: a package never lists a decision, an issue or *)
(* an artifact twice, and has_completed and artifact_by_name find the only one. *)
KeysUnique ==
  /\ \A kind \in {completed, decisions, issues, attempts, assumptions} :
       \A a, b \in kind : SameKey(a.text, b.text) => a = b
  /\ \A a, b \in artifacts : SameKey(a.name, b.name) => a = b

(* No step of the plan is lost and none is kept too long: each is pending or *)
(* its completion was claimed, in its own words or near ones, and not both.  *)
(* The current task is always one the engine chose, never a worker's words,  *)
(* and it is empty only when the plan has nothing left.                      *)
PlanAccounted ==
  /\ \A i \in Steps : i \in pending <=> ~Knows(completed, Plan[i])
  /\ current \in Tasks \cup {NoText}
  /\ current = NoText => pending = {}

(* No worker can undo what the state knows: completions, decisions, failed   *)
(* attempts and assumptions stay, with the worker who claimed them; an issue *)
(* stays and stays open; an artifact keeps its name, its creator and the     *)
(* workers who modified it, its creator never among them, and a change of it *)
(* raises its version by one.                                                *)
ArtifactEvolves(a, b) ==
  /\ b.name = a.name /\ b.by = a.by
  /\ a.modifiedBy \subseteq b.modifiedBy /\ b.by \notin b.modifiedBy
  /\ a.content => b.content
  /\ b # a => b.version = a.version + 1
NothingForgotten ==
  [][/\ completed \subseteq completed'
     /\ decisions \subseteq decisions'
     /\ attempts \subseteq attempts'
     /\ assumptions \subseteq assumptions'
     /\ \A i \in issues : \E j \in issues' : j.text = i.text /\ j.by = i.by /\ ~j.resolved
     /\ \A a \in artifacts : \E b \in artifacts' : ArtifactEvolves(a, b)]_vars

(* What rests on a worker's word alone is flagged in a reconciliation report, *)
(* and an honest completion is not: a completion of a step of the plan has no *)
(* warning, one of what nobody was ever assigned has; an issue on which a     *)
(* resolution is claimed is open and flagged; an artifact described by a      *)
(* report only is flagged.                                                    *)
Flagged(doubt, text) == \E w \in warnings : w.doubt = doubt /\ SameKey(w.text, text)
DoubtsAreFlagged ==
  /\ \A c \in completed :
       /\ Flagged("unplanned", c.text) => \A i \in Steps : ~SameKey(Plan[i], c.text)
       /\ (\A task \in Tasks : ~SameKey(task, c.text)) => Flagged("unplanned", c.text)
  /\ \A i \in issues : i.claimedBy # NoOne => ~i.resolved /\ Flagged("keptOpen", i.text)
  /\ \A a \in artifacts : a.description = "mention" => Flagged("reportOnly", a.name)

(* What normalize is for: a claim completes the steps that say nearly the     *)
(* same, and no other.                                                        *)
StepLeavesWhenClaimed ==
  \A i \in Steps \ pending : \E c \in completed : Sense[c.text] = Sense[Plan[i]]
=============================================================================
