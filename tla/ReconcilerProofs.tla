-------------------------- MODULE ReconcilerProofs --------------------------
(***************************************************************************)
(* Proofs about Reconciler, for every set of workers and texts, every plan *)
(* and every key function, however many claims are merged.                 *)
(***************************************************************************)
EXTENDS Reconciler, WellFoundedInduction, TLAPS

(***************************************************************************)
(* The inductive invariant                                                 *)
(***************************************************************************)

(* Claims are merged for a worker only. *)
TurnHasWorker == rank # Idle => worker \in Workers

(* An issue stays open, and an artifact's creator is not its modifier. *)
IssuesOpen == \A i \in issues : ~i.resolved
CreatorApart == \A a \in artifacts : a.by \notin a.modifiedBy

(* While a turn is merged, planned holds the key of every pending step, and *)
(* none but keys of tasks.                                                  *)
PlannedCovers ==
  /\ rank # Idle => \A i \in pending : Key[Plan[i]] \in planned
  /\ \A k \in planned : \E task \in Tasks : k = Key[task]

(* No step of the plan is ever flagged as unplanned. *)
NoStepFlagged ==
  \A w \in warnings : w.doubt = "unplanned" => \A i \in Steps : ~SameKey(Plan[i], w.text)

(* What DoubtsAreFlagged asks for, kind by kind. *)
StrangersFlagged ==
  \A c \in completed :
    (\A task \in Tasks : ~SameKey(task, c.text)) => Flagged("unplanned", c.text)
ResolutionsFlagged == \A i \in issues : i.claimedBy # NoOne => Flagged("keptOpen", i.text)
MentionsFlagged ==
  \A a \in artifacts : a.description = "mention" => Flagged("reportOnly", a.name)

IInv ==
  /\ TypeOK
  /\ KeysUnique
  /\ PlanAccounted
  /\ TurnHasWorker
  /\ IssuesOpen
  /\ CreatorApart
  /\ PlannedCovers
  /\ NoStepFlagged
  /\ StrangersFlagged
  /\ ResolutionsFlagged
  /\ MentionsFlagged

(***************************************************************************)
(* The operators                                                           *)
(***************************************************************************)

Unique(claimed) == \A a, b \in claimed : SameKey(a.text, b.text) => a = b
UniqueNames(known) == \A a, b \in known : SameKey(a.name, b.name) => a = b

(* The steps of the plan are texts, and so are the tasks. *)
LEMMA PlanTexts ==
  /\ \A i \in Steps : Plan[i] \in Texts /\ Plan[i] \in Tasks
  /\ Tasks \subseteq Texts
  /\ Steps \subseteq Nat
  /\ Steps # {}
<1>1. Plan \in Seq(Texts) /\ Plan # <<>> /\ Extra \in Texts
  BY PlanAssumption
<1>2. \A i \in Steps : Plan[i] \in Texts
  BY <1>1 DEF Steps
<1>3. Steps = 1..Len(Plan)
  BY <1>1 DEF Steps
<1>4. 1 \in Steps
  BY <1>1, <1>3
<1> QED BY <1>1, <1>2, <1>3, <1>4 DEF Tasks

(* A claim is added at most once for a key, and forgets none. *)
LEMMA ClaimAdded ==
  ASSUME NEW claimed, claimed \subseteq Claim, NEW text \in Texts, worker \in Workers
  PROVE  /\ WithClaim(claimed, text) \subseteq Claim
         /\ claimed \subseteq WithClaim(claimed, text)
         /\ Unique(claimed) => Unique(WithClaim(claimed, text))
         /\ \A t : Knows(WithClaim(claimed, text), t)
                     <=> Knows(claimed, t) \/ SameKey(text, t)
         /\ \A c \in WithClaim(claimed, text) : c \in claimed \/ c.text = text
<1> DEFINE new == [text |-> text, by |-> worker]
<1>1. new \in Claim /\ new.text = text
  BY DEF Claim
<1>2. CASE Knows(claimed, text)
  <2>1. WithClaim(claimed, text) = claimed
    BY <1>2 DEF WithClaim
  <2>2. \A t : SameKey(text, t) => Knows(claimed, t)
    BY <1>2 DEF Knows, SameKey
  <2> QED BY <2>1, <2>2
<1>3. CASE ~Knows(claimed, text)
  <2>1. WithClaim(claimed, text) = claimed \cup {new}
    BY <1>3 DEF WithClaim
  <2>2. \A c \in claimed : Key[c.text] # Key[text]
    BY <1>3 DEF Knows, SameKey
  <2> HIDE DEF new
  <2>3. Unique(claimed) => Unique(claimed \cup {new})
    BY <1>1, <2>2 DEF Unique, SameKey
  <2>4. \A t : Knows(claimed \cup {new}, t) <=> Knows(claimed, t) \/ SameKey(text, t)
    BY <1>1 DEF Knows
  <2> QED BY <1>1, <2>1, <2>3, <2>4
<1> QED BY <1>2, <1>3

(* The types of artifacts new and revised. *)
LEMMA ArtifactTypes ==
  ASSUME NEW name \in Texts, NEW description \in Descriptions, NEW content \in BOOLEAN,
         worker \in Workers
  PROVE  /\ NewArtifact(name, description, content) \in Artifact
         /\ \A a \in Artifact : Revised(a, description, content) \in Artifact
<1>1. NewArtifact(name, description, content) \in Artifact
  BY DEF NewArtifact, Artifact
<1>2. ASSUME NEW a \in Artifact
      PROVE  Revised(a, description, content) \in Artifact
  <2>1. a.version + 1 \in Nat \ {0}
    BY DEF Artifact
  <2>2. (a.content \/ content) \in BOOLEAN
    OBVIOUS
  <2> QED BY <2>1, <2>2 DEF Revised, Artifact
<1> QED BY <1>1, <1>2

(* What revising an artifact keeps and what it raises. *)
LEMMA RevisedFields ==
  ASSUME NEW a \in Artifact, NEW description \in Descriptions, NEW content \in BOOLEAN
  PROVE  LET b == Revised(a, description, content) IN
         /\ b.name = a.name /\ b.by = a.by
         /\ b.version = a.version + 1
         /\ b.description \in {a.description, description}
         /\ a.content => b.content
         /\ b.modifiedBy = IF worker = a.by THEN a.modifiedBy ELSE a.modifiedBy \cup {worker}
BY DEF Revised, Artifact

(* Upsert keeps one artifact for a key, and each one evolves.  An artifact  *)
(* afterwards was there, or has the key of the name and either its own       *)
(* description as before or the one given.                                   *)
LEMMA Upserted ==
  ASSUME NEW name \in Texts, NEW description \in Descriptions, NEW content \in BOOLEAN,
         worker \in Workers, artifacts \subseteq Artifact, UniqueNames(artifacts),
         CreatorApart, Upsert(name, description, content)
  PROVE  /\ artifacts' \subseteq Artifact
         /\ UniqueNames(artifacts')
         /\ CreatorApart'
         /\ \A a \in artifacts : \E b \in artifacts' : ArtifactEvolves(a, b)
         /\ \A b \in artifacts' :
              \/ b \in artifacts
              \/ /\ SameKey(b.name, name)
                 /\ \/ b.description = description
                    \/ \E a \in artifacts : a.name = b.name /\ a.description = b.description
<1> DEFINE known == {a \in artifacts : SameKey(a.name, name)}
<1> DEFINE Rev(a) == Revised(a, description, content)
<1> DEFINE new == NewArtifact(name, description, content)
<1>1. /\ new \in Artifact /\ new.name = name /\ new.description = description
      /\ new.modifiedBy = {}
  BY ArtifactTypes DEF NewArtifact
<1>2. \A a \in artifacts :
        /\ Rev(a) \in Artifact /\ Rev(a).name = a.name /\ Rev(a).by = a.by
        /\ Rev(a).description \in {a.description, description}
        /\ Rev(a).version = a.version + 1
        /\ a.content => Rev(a).content
        /\ Rev(a).modifiedBy = IF worker = a.by THEN a.modifiedBy
                               ELSE a.modifiedBy \cup {worker}
  BY ArtifactTypes, RevisedFields, ZenonT(30)
<1>3. artifacts' = IF known = {} THEN artifacts \cup {new}
                   ELSE (artifacts \ known) \cup {Rev(a) : a \in known}
  BY DEF Upsert
<1>4. \A a \in artifacts : ArtifactEvolves(a, a)
  BY DEF ArtifactEvolves, CreatorApart
<1>5. \A a \in artifacts : a.by \notin Rev(a).modifiedBy
  BY <1>2 DEF CreatorApart
<1>6. \A a \in artifacts : ArtifactEvolves(a, Rev(a))
  BY <1>2, <1>5 DEF ArtifactEvolves
<1> HIDE DEF Rev, new
<1>7. CASE known = {}
  <2>1. artifacts' = artifacts \cup {new}
    BY <1>3, <1>7
  <2>2. \A a \in artifacts : Key[a.name] # Key[name]
    BY <1>7 DEF SameKey
  <2>3. UniqueNames(artifacts')
    BY <1>1, <2>1, <2>2 DEF UniqueNames, SameKey
  <2>4. CreatorApart'
    BY <1>1, <2>1 DEF CreatorApart
  <2>5. SameKey(new.name, name)
    BY <1>1 DEF SameKey
  <2> QED BY <1>1, <1>4, <2>1, <2>3, <2>4, <2>5
<1>8. CASE known # {}
  <2>1. artifacts' = (artifacts \ known) \cup {Rev(a) : a \in known}
    BY <1>3, <1>8
  <2>2. artifacts' \subseteq Artifact
    BY <1>2, <2>1
  <2>3. ASSUME NEW b \in artifacts'
        PROVE  \E a \in artifacts : /\ b.name = a.name
                                    /\ b = IF SameKey(a.name, name) THEN Rev(a) ELSE a
    BY <1>2, <2>1
  <2>4. UniqueNames(artifacts')
    <3>1. SUFFICES ASSUME NEW b \in artifacts', NEW c \in artifacts',
                          SameKey(b.name, c.name)
                   PROVE  b = c
      BY DEF UniqueNames
    <3>2. PICK x \in artifacts : /\ b.name = x.name
                                 /\ b = IF SameKey(x.name, name) THEN Rev(x) ELSE x
      BY <2>3
    <3>3. PICK y \in artifacts : /\ c.name = y.name
                                 /\ c = IF SameKey(y.name, name) THEN Rev(y) ELSE y
      BY <2>3
    <3>4. x = y
      BY <3>1, <3>2, <3>3 DEF UniqueNames
    <3> QED BY <3>2, <3>3, <3>4
  <2>5. CreatorApart'
    <3>1. SUFFICES ASSUME NEW b \in artifacts'
                   PROVE  b.by \notin b.modifiedBy
      BY DEF CreatorApart
    <3>2. CASE b \in artifacts
      BY <3>2 DEF CreatorApart
    <3>3. CASE \E a \in known : b = Rev(a)
      BY <1>2, <1>5, <3>3
    <3> QED BY <2>1, <3>2, <3>3
  <2>6. ASSUME NEW a \in artifacts
        PROVE  \E b \in artifacts' : ArtifactEvolves(a, b)
    <3>1. CASE a \in known
      BY <1>6, <2>1, <3>1
    <3>2. CASE a \notin known
      BY <1>4, <2>1, <3>2
    <3> QED BY <3>1, <3>2
  <2>7. ASSUME NEW b \in artifacts', b \notin artifacts
        PROVE  /\ SameKey(b.name, name)
               /\ \/ b.description = description
                  \/ \E a \in artifacts : a.name = b.name /\ a.description = b.description
    <3>1. PICK a \in known : b = Rev(a)
      BY <2>1, <2>7
    <3> QED BY <1>2, <3>1
  <2> QED BY <2>2, <2>4, <2>5, <2>6, <2>7
<1> QED BY <1>7, <1>8

(* The plan's cursor is a pending step while there is one. *)
LEMMA CursorChosen ==
  ASSUME NEW steps, steps \subseteq Steps
  PROVE  /\ FirstPending(steps) \in Tasks \cup {NoText}
         /\ FirstPending(steps) = NoText => steps = {}
<1>1. CASE steps = {}
  BY <1>1 DEF FirstPending
<1>2. CASE steps # {}
  <2>1. PICK first \in steps : \A j \in steps : first <= j
    <3>1. steps \subseteq Nat
      BY PlanTexts
    <3>2. PICK first \in steps : \A j \in steps : <<j, first>> \notin OpToRel(<, Nat)
      BY <1>2, <3>1, NatLessThanWellFounded, WFMin
    <3>3. \A j, k \in Nat : j < k => <<j, k>> \in OpToRel(<, Nat)
      BY Zenon DEF OpToRel
    <3>4. \A j \in steps : j \in Nat /\ first \in Nat /\ ~(j < first)
      BY <3>1, <3>2, <3>3, Zenon
    <3>5. \A j \in steps : first <= j
      BY <3>4
    <3> QED BY <3>5
  <2>2. (CHOOSE i \in steps : \A j \in steps : i <= j) \in steps
    BY <2>1
  <2>3. FirstPending(steps) \in {Plan[i] : i \in steps}
    BY <1>2, <2>2 DEF FirstPending
  <2> QED BY <1>2, <2>3, PlanTexts, TextAssumption
<1> QED BY <1>1, <1>2

(***************************************************************************)
(* Types                                                                   *)
(***************************************************************************)

KeysOfTexts == {Key[t] : t \in Texts}

LEMMA ListingsRank == Listings \in Ranks
BY DEF Listings, Ranks

(* A claim is merged in a turn, and the turn goes on. *)
LEMMA ClaimGoesOn ==
  ASSUME TypeOK, TurnHasWorker, NEW r \in Ranks, NextClaim(r)
  PROVE  /\ rank # Idle /\ rank' # Idle
         /\ rank' \in Ranks
         /\ claims' \in 0..MaxClaims
         /\ worker \in Workers
BY BoundAssumption DEF TypeOK, TurnHasWorker, NextClaim, Idle, Ranks

(* The initial state has its types. *)
LEMMA TypeInit == Init => TypeOK
BY PlanTexts, PlanAssumption, BoundAssumption
   DEF Init, TypeOK, Idle, Steps, Claim, Artifact, Issue, Warning

(* The four lists of claims keep their types, and a step of one kind leaves *)
(* the issues, artifacts and warnings their types.                          *)
LEMMA TypeStep == IInv /\ [Next]_vars => TypeOK'
<1> SUFFICES ASSUME IInv, [Next]_vars
             PROVE  TypeOK'
  OBVIOUS
<1>0. /\ TypeOK /\ TurnHasWorker /\ KeysUnique /\ CreatorApart
      /\ UniqueNames(artifacts)
  BY DEF IInv, KeysUnique, UniqueNames
<1>1. ASSUME NEW task \in Tasks, FailTurn(task)
      PROVE  TypeOK'
  BY <1>0, <1>1, PlanTexts DEF TypeOK, FailTurn, turn
<1>2. ASSUME NEW task \in Tasks, NEW w \in Workers, BeginTurn(w, task)
      PROVE  TypeOK'
  <2>1. planned' \subseteq KeysOfTexts
    BY <1>0, <1>2, PlanTexts DEF BeginTurn, TypeOK, KeysOfTexts
  <2>2. rank' \in Ranks \cup {Idle} /\ worker' \in Workers \cup {NoOne}
    BY <1>2 DEF BeginTurn, Ranks, Completions
  <2> QED BY <1>0, <1>2, <2>1, <2>2, PlanTexts DEF TypeOK, BeginTurn, KeysOfTexts
<1>3. ASSUME NEW text \in Texts, ClaimCompletion(text)
      PROVE  TypeOK'
  <2>1. rank' \in Ranks /\ claims' \in 0..MaxClaims /\ worker \in Workers
    BY <1>0, <1>3, ClaimGoesOn DEF ClaimCompletion, Completions, Ranks
  <2>2. pending' \subseteq Steps /\ completed' \subseteq Claim /\ warnings' \subseteq Warning
    <3>1. [doubt |-> "unplanned", text |-> text] \in Warning
      BY DEF Warning, Doubts
    <3>2. warnings' = warnings \/ Warn("unplanned", text)
      BY <1>3 DEF ClaimCompletion
    <3>3. completed' = completed \/ completed' = WithClaim(completed, text)
      BY <1>3 DEF ClaimCompletion
    <3>4. pending' = pending \/ pending' = StillPending(text)
      BY <1>3 DEF ClaimCompletion
    <3>5. completed' \subseteq Claim
      BY <1>0, <2>1, <3>3, ClaimAdded DEF TypeOK
    <3> QED BY <1>0, <3>1, <3>2, <3>4, <3>5 DEF StillPending, TypeOK, Warn
  <2> QED BY <1>0, <1>3, <2>1, <2>2 DEF TypeOK, ClaimCompletion, turn
<1>4. ASSUME NEW text \in Texts, ClaimDecision(text)
      PROVE  TypeOK'
  <2>1. rank' \in Ranks /\ claims' \in 0..MaxClaims /\ worker \in Workers
    BY <1>0, <1>4, ClaimGoesOn DEF ClaimDecision, Decisions, Ranks
  <2>2. decisions' \subseteq Claim
    BY <1>0, <1>4, <2>1, ClaimAdded DEF ClaimDecision, TypeOK
  <2>3. seen' \subseteq KeysOfTexts
    BY <1>0, <1>4 DEF ClaimDecision, TypeOK, KeysOfTexts
  <2> QED BY <1>0, <1>4, <2>1, <2>2, <2>3 DEF TypeOK, ClaimDecision, KeysOfTexts
<1>5. ASSUME NEW text \in Texts, NEW description \in {"", "described"}, NEW content \in BOOLEAN,
             ListArtifact(text, description, content)
      PROVE  TypeOK'
  <2>1. rank' \in Ranks /\ claims' \in 0..MaxClaims /\ worker \in Workers
    BY <1>0, <1>5, ClaimGoesOn, ListingsRank, Zenon DEF ListArtifact
  <2>2. description \in Descriptions /\ Upsert(text, description, content)
    BY <1>5 DEF Descriptions, ListArtifact
  <2>3. artifacts' \subseteq Artifact
    BY <1>0, <2>1, <2>2, Upserted DEF TypeOK
  <2>4. structured' \subseteq KeysOfTexts
    BY <1>0, <1>5 DEF ListArtifact, TypeOK, KeysOfTexts
  <2> QED BY <1>0, <1>5, <2>1, <2>3, <2>4 DEF TypeOK, ListArtifact, KeysOfTexts
<1>6. ASSUME NEW text \in Texts, MentionArtifact(text)
      PROVE  TypeOK'
  <2>1. rank' \in Ranks /\ claims' \in 0..MaxClaims /\ worker \in Workers
    BY <1>0, <1>6, ClaimGoesOn DEF MentionArtifact, Mentions, Ranks
  <2>2. artifacts' \subseteq Artifact
    BY <1>0, <1>6, <2>1, Upserted DEF MentionArtifact, TypeOK, Descriptions
  <2>3. warnings' \subseteq Warning
    <3>1. [doubt |-> "reportOnly", text |-> text] \in Warning
      BY DEF Warning, Doubts
    <3>2. warnings' = warnings \/ Warn("reportOnly", text)
      BY <1>6 DEF MentionArtifact
    <3> QED BY <1>0, <3>1, <3>2 DEF TypeOK, Warn
  <2> QED BY <1>0, <1>6, <2>1, <2>2, <2>3 DEF TypeOK, MentionArtifact, turn
<1>7. ASSUME NEW text \in Texts, RaiseIssue(text)
      PROVE  TypeOK'
  <2>1. rank' \in Ranks /\ claims' \in 0..MaxClaims /\ worker \in Workers
    BY <1>0, <1>7, ClaimGoesOn DEF RaiseIssue, Problems, Ranks
  <2>2. issues' \subseteq Issue
    <3> DEFINE new == [text |-> text, by |-> worker, resolved |-> FALSE, claimedBy |-> NoOne]
    <3>1. new \in Issue
      BY <2>1 DEF Issue
    <3>2. issues' = issues \/ issues' = issues \cup {new}
      BY <1>7 DEF RaiseIssue
    <3> HIDE DEF new
    <3> QED BY <1>0, <3>1, <3>2 DEF TypeOK
  <2> QED BY <1>0, <1>7, <2>1, <2>2 DEF TypeOK, RaiseIssue, turn
<1>8. ASSUME NEW text \in Texts, ClaimResolution(text)
      PROVE  TypeOK'
  <2>1. rank' \in Ranks /\ claims' \in 0..MaxClaims /\ worker \in Workers
    BY <1>0, <1>8, ClaimGoesOn DEF ClaimResolution, Problems, Ranks
  <2>2. \A i \in issues : i \in Issue /\ WithResolution(i) \in Issue
    BY <1>0, <2>1 DEF TypeOK, Issue, WithResolution
  <2>3. issues' \subseteq Issue
    BY <1>8, <2>2 DEF ClaimResolution
  <2>4. warnings' \subseteq Warning
    BY <1>0, <1>8 DEF ClaimResolution, TypeOK, Warn, Warning, Doubts
  <2> QED BY <1>0, <1>8, <2>1, <2>3, <2>4 DEF TypeOK, ClaimResolution, turn
<1>9. ASSUME NEW text \in Texts, ClaimFailedAttempt(text)
      PROVE  TypeOK'
  <2>1. rank' \in Ranks /\ claims' \in 0..MaxClaims /\ worker \in Workers
    BY <1>0, <1>9, ClaimGoesOn DEF ClaimFailedAttempt, Failures, Ranks
  <2>2. attempts' \subseteq Claim
    BY <1>0, <1>9, <2>1, ClaimAdded DEF ClaimFailedAttempt, TypeOK
  <2> QED BY <1>0, <1>9, <2>1, <2>2 DEF TypeOK, ClaimFailedAttempt, turn
<1>10. ASSUME NEW text \in Texts, ClaimAssumption(text)
       PROVE  TypeOK'
  <2>1. rank' \in Ranks /\ claims' \in 0..MaxClaims /\ worker \in Workers
    BY <1>0, <1>10, ClaimGoesOn DEF ClaimAssumption, Beliefs, Ranks
  <2>2. assumptions' \subseteq Claim
    BY <1>0, <1>10, <2>1, ClaimAdded DEF ClaimAssumption, TypeOK
  <2> QED BY <1>0, <1>10, <2>1, <2>2 DEF TypeOK, ClaimAssumption, turn
<1>11. CASE EndTurn
  <2>1. current' \in Texts \cup {NoText}
    BY <1>0, <1>11, CursorChosen, PlanTexts DEF EndTurn, TypeOK
  <2> QED BY <1>0, <1>11, <2>1 DEF TypeOK, EndTurn
<1>12. CASE UNCHANGED vars
  BY <1>0, <1>12 DEF TypeOK, vars, state, turn
<1> QED
  BY <1>1, <1>2, <1>3, <1>4, <1>5, <1>6, <1>7, <1>8, <1>9, <1>10, <1>11, <1>12 DEF Next

(***************************************************************************)
(* Keys                                                                    *)
(***************************************************************************)

(* KeysUnique, list by list. *)
LEMMA KeysByList ==
  KeysUnique <=> /\ Unique(completed) /\ Unique(decisions) /\ Unique(issues)
                 /\ Unique(attempts) /\ Unique(assumptions)
                 /\ UniqueNames(artifacts)
BY DEF KeysUnique, Unique, UniqueNames

LEMMA KeysByListAfter ==
  KeysUnique' <=> /\ Unique(completed') /\ Unique(decisions') /\ Unique(issues')
                  /\ Unique(attempts') /\ Unique(assumptions')
                  /\ UniqueNames(artifacts')
BY DEF KeysUnique, Unique, UniqueNames

(* A step adds at most one record for a key. *)
LEMMA KeysStep == IInv /\ [Next]_vars => KeysUnique'
<1> SUFFICES ASSUME IInv, [Next]_vars
             PROVE  KeysUnique'
  OBVIOUS
<1>0. /\ TypeOK /\ TurnHasWorker /\ CreatorApart
      /\ Unique(completed) /\ Unique(decisions) /\ Unique(issues)
      /\ Unique(attempts) /\ Unique(assumptions)
      /\ UniqueNames(artifacts)
  BY KeysByList DEF IInv
<1>a. \A r : NextClaim(r) => worker \in Workers
  BY <1>0 DEF NextClaim, TurnHasWorker
<1>b. /\ completed \subseteq Claim /\ decisions \subseteq Claim
      /\ attempts \subseteq Claim /\ assumptions \subseteq Claim
      /\ artifacts \subseteq Artifact
  BY <1>0 DEF TypeOK
<1>1. ASSUME NEW text \in Texts, ClaimCompletion(text)
      PROVE  KeysUnique'
  <2>1. worker \in Workers /\ UNCHANGED <<decisions, issues, attempts, assumptions, artifacts>>
    BY <1>1, <1>a DEF ClaimCompletion
  <2>2. completed' = completed \/ completed' = WithClaim(completed, text)
    BY <1>1 DEF ClaimCompletion
  <2>3. Unique(completed')
    BY <1>0, <1>b, <2>1, <2>2, ClaimAdded
  <2> QED BY <1>0, <2>1, <2>3, KeysByListAfter
<1>2. ASSUME NEW text \in Texts, ClaimDecision(text)
      PROVE  KeysUnique'
  <2>1. worker \in Workers /\ UNCHANGED <<completed, issues, attempts, assumptions, artifacts>>
    BY <1>2, <1>a DEF ClaimDecision
  <2>2. decisions' = decisions \/ decisions' = WithClaim(decisions, text)
    BY <1>2 DEF ClaimDecision
  <2>3. Unique(decisions')
    BY <1>0, <1>b, <2>1, <2>2, ClaimAdded
  <2> QED BY <1>0, <2>1, <2>3, KeysByListAfter
<1>3. ASSUME NEW text \in Texts, NEW description \in {"", "described"}, NEW content \in BOOLEAN,
             ListArtifact(text, description, content)
      PROVE  KeysUnique'
  <2>1. worker \in Workers /\ UNCHANGED <<completed, decisions, issues, attempts, assumptions>>
    BY <1>3, <1>a DEF ListArtifact
  <2>2. description \in Descriptions /\ Upsert(text, description, content)
    BY <1>3 DEF Descriptions, ListArtifact
  <2>3. UniqueNames(artifacts')
    BY <1>0, <1>b, <2>1, <2>2, Upserted
  <2> QED BY <1>0, <2>1, <2>3, KeysByListAfter
<1>4. ASSUME NEW text \in Texts, MentionArtifact(text)
      PROVE  KeysUnique'
  <2>1. worker \in Workers /\ UNCHANGED <<completed, decisions, issues, attempts, assumptions>>
    BY <1>4, <1>a DEF MentionArtifact
  <2>2. artifacts' = artifacts \/ Upsert(text, "mention", FALSE)
    BY <1>4 DEF MentionArtifact
  <2>3. UniqueNames(artifacts')
    BY <1>0, <1>b, <2>1, <2>2, Upserted DEF Descriptions
  <2> QED BY <1>0, <2>1, <2>3, KeysByListAfter
<1>5. ASSUME NEW text \in Texts, RaiseIssue(text)
      PROVE  KeysUnique'
  <2>1. UNCHANGED <<completed, decisions, attempts, assumptions, artifacts>>
    BY <1>5 DEF RaiseIssue
  <2>2. Unique(issues')
    <3> DEFINE new == [text |-> text, by |-> worker, resolved |-> FALSE, claimedBy |-> NoOne]
    <3>1. new.text = text
      OBVIOUS
    <3>2. issues' = IF Knows(issues, text) THEN issues ELSE issues \cup {new}
      BY <1>5 DEF RaiseIssue
    <3> HIDE DEF new
    <3> QED BY <1>0, <3>1, <3>2 DEF Unique, Knows, SameKey
  <2> QED BY <1>0, <2>1, <2>2, KeysByListAfter
<1>6. ASSUME NEW text \in Texts, ClaimResolution(text)
      PROVE  KeysUnique'
  <2>1. UNCHANGED <<completed, decisions, attempts, assumptions, artifacts>>
    BY <1>6 DEF ClaimResolution
  <2>2. \A i \in issues : WithResolution(i).text = i.text
    BY <1>0 DEF TypeOK, Issue, WithResolution
  <2>3. Unique(issues')
    BY <1>0, <1>6, <2>2 DEF ClaimResolution, Unique, SameKey
  <2> QED BY <1>0, <2>1, <2>3, KeysByListAfter
<1>7. ASSUME NEW text \in Texts, ClaimFailedAttempt(text)
      PROVE  KeysUnique'
  <2>1. worker \in Workers /\ UNCHANGED <<completed, decisions, issues, assumptions, artifacts>>
    BY <1>7, <1>a DEF ClaimFailedAttempt
  <2>2. Unique(attempts')
    BY <1>0, <1>7, <1>b, <2>1, ClaimAdded DEF ClaimFailedAttempt
  <2> QED BY <1>0, <2>1, <2>2, KeysByListAfter
<1>8. ASSUME NEW text \in Texts, ClaimAssumption(text)
      PROVE  KeysUnique'
  <2>1. worker \in Workers /\ UNCHANGED <<completed, decisions, issues, attempts, artifacts>>
    BY <1>8, <1>a DEF ClaimAssumption
  <2>2. Unique(assumptions')
    BY <1>0, <1>8, <1>b, <2>1, ClaimAdded DEF ClaimAssumption
  <2> QED BY <1>0, <2>1, <2>2, KeysByListAfter
<1>9. ASSUME UNCHANGED <<completed, decisions, issues, attempts, assumptions, artifacts>>
      PROVE  KeysUnique'
  BY <1>0, <1>9, KeysByListAfter
<1>10. /\ \A task \in Tasks : FailTurn(task) =>
            UNCHANGED <<completed, decisions, issues, attempts, assumptions, artifacts>>
       /\ \A task \in Tasks, w \in Workers : BeginTurn(w, task) =>
            UNCHANGED <<completed, decisions, issues, attempts, assumptions, artifacts>>
       /\ EndTurn \/ UNCHANGED vars =>
            UNCHANGED <<completed, decisions, issues, attempts, assumptions, artifacts>>
  BY DEF FailTurn, BeginTurn, EndTurn, vars, state
<1> QED
  BY <1>1, <1>2, <1>3, <1>4, <1>5, <1>6, <1>7, <1>8, <1>9, <1>10 DEF Next

(***************************************************************************)
(* The plan                                                                *)
(***************************************************************************)

(* Only a completion, and the bounds of a turn, touch the plan. *)
LEMMA PlanUntouched ==
  ASSUME NEW text \in Texts,
         \/ ClaimDecision(text) \/ MentionArtifact(text) \/ RaiseIssue(text)
         \/ ClaimResolution(text) \/ ClaimFailedAttempt(text) \/ ClaimAssumption(text)
         \/ \E description \in {"", "described"}, content \in BOOLEAN :
              ListArtifact(text, description, content)
  PROVE  UNCHANGED <<pending, completed, current, worker, planned>> /\ rank # Idle
BY DEF ClaimDecision, MentionArtifact, RaiseIssue, ClaimResolution, ClaimFailedAttempt,
       ClaimAssumption, ListArtifact, turn, NextClaim

(* What a completion does to the plan. *)
LEMMA PlanAfterCompletion ==
  ASSUME IInv, NEW text \in Texts, ClaimCompletion(text)
  PROVE  /\ \A i \in Steps : i \in pending' <=> i \in pending /\ ~SameKey(text, Plan[i])
         /\ \A t : Knows(completed', t) <=> Knows(completed, t) \/ SameKey(text, t)
<1>1. worker \in Workers /\ completed \subseteq Claim
  BY DEF IInv, TypeOK, TurnHasWorker, ClaimCompletion, NextClaim
<1>2. \A i \in Steps : i \in pending <=> ~Knows(completed, Plan[i])
  BY DEF IInv, PlanAccounted
<1>3. CASE Knows(completed, text)
  <2>1. completed' = completed /\ pending' = pending
    BY <1>3 DEF ClaimCompletion
  <2>2. \A t : SameKey(text, t) => Knows(completed, t)
    BY <1>3 DEF Knows, SameKey
  <2> QED BY <1>2, <2>1, <2>2
<1>4. CASE ~Knows(completed, text)
  <2>1. completed' = WithClaim(completed, text) /\ pending' = StillPending(text)
    BY <1>4 DEF ClaimCompletion
  <2>2. \A t : Knows(completed', t) <=> Knows(completed, t) \/ SameKey(text, t)
    BY <1>1, <2>1, ClaimAdded
  <2>3. \A i \in Steps : i \in pending' <=> i \in pending /\ ~SameKey(text, Plan[i])
    BY <2>1 DEF StillPending, SameKey
  <2> QED BY <2>2, <2>3
<1> QED BY <1>3, <1>4

(* Every step of the plan stays pending or done. *)
LEMMA PlanStep == IInv /\ [Next]_vars => PlanAccounted'
<1> SUFFICES ASSUME IInv, [Next]_vars
             PROVE  PlanAccounted'
  OBVIOUS
<1>0. PlanAccounted /\ pending \subseteq Steps
  BY DEF IInv, TypeOK
<1>1. ASSUME NEW text \in Texts, ClaimCompletion(text)
      PROVE  PlanAccounted'
  <2>1. \A i \in Steps : i \in pending' <=> ~Knows(completed', Plan[i])
    BY <1>0, <1>1, PlanAfterCompletion DEF PlanAccounted
  <2>2. current' = current /\ pending' \subseteq pending
    BY <1>1 DEF ClaimCompletion, StillPending
  <2> QED BY <1>0, <2>1, <2>2 DEF PlanAccounted, Knows
<1>2. CASE EndTurn
  <2>1. current' = FirstPending(pending) /\ UNCHANGED <<pending, completed>>
    BY <1>2 DEF EndTurn
  <2>2. /\ FirstPending(pending) \in Tasks \cup {NoText}
        /\ FirstPending(pending) = NoText => pending = {}
    BY <1>0, CursorChosen
  <2> QED BY <1>0, <2>1, <2>2 DEF PlanAccounted, Knows
<1>3. ASSUME NEW task \in Tasks, current' = task, UNCHANGED <<pending, completed>>
      PROVE  PlanAccounted'
  <2>1. current' \in Tasks /\ current' # NoText
    BY <1>3, PlanTexts, TextAssumption
  <2> QED BY <1>0, <1>3, <2>1 DEF PlanAccounted, Knows
<1>4. ASSUME UNCHANGED <<pending, completed, current>>
      PROVE  PlanAccounted'
  BY <1>0, <1>4 DEF PlanAccounted, Knows
<1>5. /\ \A task \in Tasks : FailTurn(task) =>
            current' = task /\ UNCHANGED <<pending, completed>>
      /\ \A task \in Tasks, w \in Workers : BeginTurn(w, task) =>
            current' = task /\ UNCHANGED <<pending, completed>>
  BY DEF FailTurn, BeginTurn
<1>6. UNCHANGED vars => UNCHANGED <<pending, completed, current>>
  BY DEF vars, state
<1> QED
  BY <1>1, <1>2, <1>3, <1>4, <1>5, <1>6, PlanUntouched DEF Next

(***************************************************************************)
(* The turn, the issues and the creators                                   *)
(***************************************************************************)

(* What planned holds covers the pending steps until the turn ends. *)
LEMMA TurnStep == IInv /\ [Next]_vars => TurnHasWorker' /\ PlannedCovers'
<1> SUFFICES ASSUME IInv, [Next]_vars
             PROVE  TurnHasWorker' /\ PlannedCovers'
  OBVIOUS
<1>0. TurnHasWorker /\ PlannedCovers /\ pending \subseteq Steps
  BY DEF IInv, TypeOK
<1>1. ASSUME NEW text \in Texts, ClaimCompletion(text)
      PROVE  TurnHasWorker' /\ PlannedCovers'
  <2>1. /\ UNCHANGED <<worker, planned>> /\ rank # Idle
        /\ pending' \subseteq pending
    BY <1>1 DEF ClaimCompletion, StillPending, turn, NextClaim
  <2> QED BY <1>0, <2>1 DEF TurnHasWorker, PlannedCovers
<1>2. ASSUME NEW task \in Tasks, NEW w \in Workers, BeginTurn(w, task)
      PROVE  TurnHasWorker' /\ PlannedCovers'
  <2>1. \A k \in planned' : \E t \in Tasks : k = Key[t]
    BY <1>0, <1>2, PlanTexts DEF BeginTurn
  <2> QED BY <1>2, <2>1 DEF BeginTurn, TurnHasWorker, PlannedCovers
<1>3. CASE EndTurn
  BY <1>3 DEF EndTurn, TurnHasWorker, PlannedCovers
<1>4. ASSUME UNCHANGED <<pending, worker, planned>>, rank # Idle \/ rank' = rank
      PROVE  TurnHasWorker' /\ PlannedCovers'
  BY <1>0, <1>4 DEF TurnHasWorker, PlannedCovers
<1>5. (UNCHANGED vars \/ \E task \in Tasks : FailTurn(task))
        => UNCHANGED <<pending, worker, planned, rank>>
  BY DEF FailTurn, vars, state, turn
<1> QED
  BY <1>1, <1>2, <1>3, <1>4, <1>5, PlanUntouched DEF Next

(* Who may change the issues. *)
LEMMA IssuesUntouched ==
  ASSUME [Next]_vars, \A text \in Texts : ~RaiseIssue(text) /\ ~ClaimResolution(text)
  PROVE  issues' = issues
BY DEF Next, FailTurn, BeginTurn, ClaimCompletion, ClaimDecision, ListArtifact,
       MentionArtifact, ClaimFailedAttempt, ClaimAssumption, EndTurn, vars, state

(* Who may change the artifacts, and how. *)
LEMMA ArtifactsUntouched ==
  ASSUME [Next]_vars, artifacts' # artifacts
  PROVE  \E text \in Texts, description \in Descriptions, content \in BOOLEAN :
           /\ Upsert(text, description, content)
           /\ \/ MentionArtifact(text) /\ description = "mention"
              \/ rank # Idle /\ description # "mention"
           /\ worker \in Workers \/ ~TurnHasWorker
<1>1. ASSUME NEW text \in Texts, NEW description \in {"", "described"}, NEW content \in BOOLEAN,
             ListArtifact(text, description, content)
      PROVE  /\ Upsert(text, description, content) /\ rank # Idle
             /\ description \in Descriptions /\ description # "mention"
             /\ worker \in Workers \/ ~TurnHasWorker
  BY <1>1 DEF ListArtifact, NextClaim, Descriptions, TurnHasWorker
<1>2. ASSUME NEW text \in Texts, MentionArtifact(text)
      PROVE  /\ Upsert(text, "mention", FALSE)
             /\ "mention" \in Descriptions
             /\ worker \in Workers \/ ~TurnHasWorker
  BY <1>2 DEF MentionArtifact, NextClaim, Descriptions, TurnHasWorker
<1>3. \A text \in Texts :
        ~ \/ ClaimCompletion(text) \/ ClaimDecision(text) \/ RaiseIssue(text)
          \/ ClaimResolution(text) \/ ClaimFailedAttempt(text) \/ ClaimAssumption(text)
  BY DEF ClaimCompletion, ClaimDecision, RaiseIssue, ClaimResolution,
         ClaimFailedAttempt, ClaimAssumption
<1>4. ~UNCHANGED vars /\ ~EndTurn
  BY DEF vars, state, EndTurn
<1>5. \A task \in Tasks : ~FailTurn(task) /\ \A w \in Workers : ~BeginTurn(w, task)
  BY DEF FailTurn, BeginTurn
<1> QED BY <1>1, <1>2, <1>3, <1>4, <1>5 DEF Next

(* What an upsert does under the invariant. *)
LEMMA ArtifactStep ==
  ASSUME IInv, [Next]_vars
  PROVE  /\ CreatorApart'
         /\ \A a \in artifacts : \E b \in artifacts' : ArtifactEvolves(a, b)
<1>0. TypeOK /\ TurnHasWorker /\ CreatorApart /\ UniqueNames(artifacts)
  BY KeysByList DEF IInv
<1>1. CASE artifacts' = artifacts
  BY <1>0, <1>1 DEF CreatorApart, ArtifactEvolves
<1>2. CASE artifacts' # artifacts
  <2>1. PICK text \in Texts, description \in Descriptions, content \in BOOLEAN :
          Upsert(text, description, content) /\ worker \in Workers
    BY <1>0, <1>2, ArtifactsUntouched
  <2>2. artifacts \subseteq Artifact
    BY <1>0 DEF TypeOK
  <2> QED BY <1>0, <2>1, <2>2, Upserted
<1> QED BY <1>1, <1>2

(* Whatever is claimed of it, an issue stays and stays open. *)
LEMMA IssueStep ==
  ASSUME IInv, [Next]_vars
  PROVE  /\ IssuesOpen'
         /\ \A i \in issues : \E j \in issues' : j.text = i.text /\ j.by = i.by /\ ~j.resolved
<1>0. issues \subseteq Issue /\ IssuesOpen
  BY DEF IInv, TypeOK
<1>1. ASSUME NEW text \in Texts, RaiseIssue(text)
      PROVE  /\ IssuesOpen'
             /\ \A i \in issues : i \in issues'
  <2> DEFINE new == [text |-> text, by |-> worker, resolved |-> FALSE, claimedBy |-> NoOne]
  <2>1. ~new.resolved
    OBVIOUS
  <2>2. issues' = issues \/ issues' = issues \cup {new}
    BY <1>1 DEF RaiseIssue
  <2> HIDE DEF new
  <2> QED BY <1>0, <2>1, <2>2 DEF IssuesOpen
<1>2. ASSUME NEW text \in Texts, ClaimResolution(text)
      PROVE  /\ IssuesOpen'
             /\ \A i \in issues : \E j \in issues' : j.text = i.text /\ j.by = i.by /\ ~j.resolved
  <2> DEFINE New(i) == IF SameKey(i.text, text) THEN WithResolution(i) ELSE i
  <2>1. \A i \in issues : New(i).text = i.text /\ New(i).by = i.by /\ ~New(i).resolved
    BY <1>0 DEF IssuesOpen, Issue, WithResolution
  <2>2. issues' = {New(i) : i \in issues}
    BY <1>2 DEF ClaimResolution
  <2> HIDE DEF New
  <2> QED BY <2>1, <2>2 DEF IssuesOpen
<1>3. ASSUME issues' = issues
      PROVE  /\ IssuesOpen'
             /\ \A i \in issues : i \in issues'
  BY <1>0, <1>3 DEF IssuesOpen
<1> QED BY <1>0, <1>1, <1>2, <1>3, IssuesUntouched DEF IssuesOpen

(***************************************************************************)
(* The doubts                                                              *)
(***************************************************************************)

(* A warning is never taken back, and only a completion warns of a task     *)
(* that was not planned.                                                    *)
LEMMA WarningsGrow ==
  ASSUME [Next]_vars
  PROVE  /\ warnings \subseteq warnings'
         /\ \A doubt \in Doubts : \A text : Flagged(doubt, text) => Flagged(doubt, text)'
<1>1. \A text \in Texts :
        \/ ClaimCompletion(text) \/ ClaimDecision(text) \/ RaiseIssue(text)
        \/ MentionArtifact(text) \/ ClaimResolution(text) \/ ClaimFailedAttempt(text)
        \/ ClaimAssumption(text)
        => warnings \subseteq warnings'
  BY DEF ClaimCompletion, ClaimDecision, RaiseIssue, MentionArtifact, ClaimResolution,
         ClaimFailedAttempt, ClaimAssumption, Warn
<1>2. \A text \in Texts, description \in {"", "described"}, content \in BOOLEAN :
        ListArtifact(text, description, content) => warnings' = warnings
  BY DEF ListArtifact
<1>3. /\ \A task \in Tasks : FailTurn(task) => warnings' = warnings
      /\ \A task \in Tasks, w \in Workers : BeginTurn(w, task) => warnings' = warnings
      /\ EndTurn \/ UNCHANGED vars => warnings' = warnings
  BY DEF FailTurn, BeginTurn, EndTurn, vars
<1>4. warnings \subseteq warnings'
  BY <1>1, <1>2, <1>3 DEF Next
<1> QED BY <1>4 DEF Flagged

(* A completion of no task is flagged, of a step of the plan it is not. *)
LEMMA CompletionFlagged ==
  ASSUME IInv, NEW text \in Texts, ClaimCompletion(text)
  PROVE  StrangersFlagged' /\ NoStepFlagged'
<1>0. /\ StrangersFlagged /\ NoStepFlagged /\ PlannedCovers /\ completed \subseteq Claim
      /\ \A i \in Steps : i \in pending <=> ~Knows(completed, Plan[i])
      /\ rank # Idle /\ worker \in Workers
  BY DEF IInv, TypeOK, PlanAccounted, ClaimCompletion, NextClaim, TurnHasWorker
<1>1. CASE Knows(completed, text)
  <2>1. completed' = completed /\ warnings' = warnings
    BY <1>1 DEF ClaimCompletion
  <2> QED BY <1>0, <2>1 DEF StrangersFlagged, NoStepFlagged, Flagged
<1>2. CASE ~Knows(completed, text) /\ Key[text] \in planned
  <2>1. completed' = WithClaim(completed, text) /\ warnings' = warnings
    BY <1>2 DEF ClaimCompletion
  <2>2. \E task \in Tasks : SameKey(task, text)
    BY <1>0, <1>2 DEF PlannedCovers, SameKey
  <2>3. \A c \in completed' : c \in completed \/ c.text = text
    BY <1>0, <2>1, ClaimAdded
  <2>4. StrangersFlagged'
    BY <1>0, <2>1, <2>2, <2>3 DEF StrangersFlagged, Flagged
  <2> QED BY <1>0, <2>1, <2>4 DEF NoStepFlagged
<1>3. CASE ~Knows(completed, text) /\ Key[text] \notin planned
  <2> DEFINE new == [doubt |-> "unplanned", text |-> text]
  <2>1. completed' = WithClaim(completed, text) /\ warnings' = warnings \cup {new}
    BY <1>3 DEF ClaimCompletion, Warn
  <2>2. new.doubt = "unplanned" /\ new.text = text
    OBVIOUS
  <2> HIDE DEF new
  <2>3. \A c \in completed' : c \in completed \/ c.text = text
    BY <1>0, <2>1, ClaimAdded
  <2>4. \A t : SameKey(text, t) => Flagged("unplanned", t)'
    BY <2>1, <2>2 DEF Flagged
  <2>5. SameKey(text, text)
    BY DEF SameKey
  <2>6. StrangersFlagged'
    BY <1>0, <2>1, <2>3, <2>4, <2>5 DEF StrangersFlagged, Flagged
  <2>7. \A i \in Steps : ~SameKey(Plan[i], text)
    BY <1>0, <1>3 DEF PlannedCovers, Knows, SameKey
  <2>8. NoStepFlagged'
    BY <1>0, <2>1, <2>2, <2>7 DEF NoStepFlagged
  <2> QED BY <2>6, <2>8
<1> QED BY <1>1, <1>2, <1>3

(* No other step completes anything or warns of a task. *)
LEMMA PlanDoubtsStep == IInv /\ [Next]_vars => StrangersFlagged' /\ NoStepFlagged'
<1> SUFFICES ASSUME IInv, [Next]_vars
             PROVE  StrangersFlagged' /\ NoStepFlagged'
  OBVIOUS
<1>0. StrangersFlagged /\ NoStepFlagged
  BY DEF IInv
<1>1. ASSUME completed' = completed,
             \A w \in warnings' : w \in warnings \/ w.doubt # "unplanned"
      PROVE  StrangersFlagged' /\ NoStepFlagged'
  <2>1. \A text : Flagged("unplanned", text) => Flagged("unplanned", text)'
    BY WarningsGrow DEF Doubts
  <2> QED BY <1>0, <1>1, <2>1 DEF StrangersFlagged, NoStepFlagged
<1>2. ASSUME NEW text \in Texts, ClaimResolution(text) \/ MentionArtifact(text)
      PROVE  /\ completed' = completed
             /\ \A w \in warnings' : w \in warnings \/ w.doubt # "unplanned"
  <2>1. /\ completed' = completed
        /\ warnings' = warnings \/ \E doubt \in {"keptOpen", "reportOnly"} : Warn(doubt, text)
    BY <1>2 DEF ClaimResolution, MentionArtifact
  <2>2. \A doubt \in {"keptOpen", "reportOnly"} :
          [doubt |-> doubt, text |-> text].doubt # "unplanned"
    OBVIOUS
  <2> QED BY <2>1, <2>2 DEF Warn
<1>3. ASSUME NEW text \in Texts,
             \/ ClaimDecision(text) \/ RaiseIssue(text)
             \/ ClaimFailedAttempt(text) \/ ClaimAssumption(text)
             \/ \E description \in {"", "described"}, content \in BOOLEAN :
                  ListArtifact(text, description, content)
      PROVE  completed' = completed /\ warnings' = warnings
  BY <1>3 DEF ClaimDecision, RaiseIssue, ClaimFailedAttempt, ClaimAssumption, ListArtifact
<1>4. /\ \A task \in Tasks : FailTurn(task) => UNCHANGED <<completed, warnings>>
      /\ \A task \in Tasks, w \in Workers :
           BeginTurn(w, task) => UNCHANGED <<completed, warnings>>
      /\ EndTurn \/ UNCHANGED vars => UNCHANGED <<completed, warnings>>
  BY DEF FailTurn, BeginTurn, EndTurn, vars, state
<1> QED BY <1>1, <1>2, <1>3, <1>4, CompletionFlagged DEF Next

(* An issue whose resolution is claimed is flagged as it is claimed. *)
LEMMA ResolutionsStep == IInv /\ [Next]_vars => ResolutionsFlagged'
<1> SUFFICES ASSUME IInv, [Next]_vars
             PROVE  ResolutionsFlagged'
  OBVIOUS
<1>0. ResolutionsFlagged /\ issues \subseteq Issue
  BY DEF IInv, TypeOK
<1>1. \A text : Flagged("keptOpen", text) => Flagged("keptOpen", text)'
  BY WarningsGrow DEF Doubts
<1>2. ASSUME NEW text \in Texts, RaiseIssue(text)
      PROVE  ResolutionsFlagged'
  <2> DEFINE new == [text |-> text, by |-> worker, resolved |-> FALSE, claimedBy |-> NoOne]
  <2>1. new.claimedBy = NoOne
    OBVIOUS
  <2>2. issues' = issues \/ issues' = issues \cup {new}
    BY <1>2 DEF RaiseIssue
  <2> HIDE DEF new
  <2> QED BY <1>0, <1>1, <2>1, <2>2 DEF ResolutionsFlagged
<1>3. ASSUME NEW text \in Texts, ClaimResolution(text)
      PROVE  ResolutionsFlagged'
  <2> DEFINE New(i) == IF SameKey(i.text, text) THEN WithResolution(i) ELSE i
  <2>1. \A i \in issues : New(i).text = i.text /\ (~SameKey(i.text, text) => New(i) = i)
    BY <1>0 DEF Issue, WithResolution
  <2>2. issues' = {New(i) : i \in issues}
    BY <1>3 DEF ClaimResolution
  <2> HIDE DEF New
  <2>3. ASSUME NEW i \in issues, SameKey(i.text, text)
        PROVE  Flagged("keptOpen", i.text)'
    <3>1. Knows(issues, text)
      BY <2>3 DEF Knows
    <3>2. [doubt |-> "keptOpen", text |-> text] \in warnings'
      BY <1>3, <3>1 DEF ClaimResolution, Warn
    <3> QED BY <2>3, <3>2 DEF Flagged, SameKey
  <2> QED BY <1>0, <1>1, <2>1, <2>2, <2>3 DEF ResolutionsFlagged
<1>4. ASSUME issues' = issues
      PROVE  ResolutionsFlagged'
  BY <1>0, <1>1, <1>4 DEF ResolutionsFlagged
<1> QED BY <1>2, <1>3, <1>4, IssuesUntouched

(* An artifact that only a report describes is flagged as it is mentioned. *)
LEMMA MentionsStep == IInv /\ [Next]_vars => MentionsFlagged'
<1> SUFFICES ASSUME IInv, [Next]_vars
             PROVE  MentionsFlagged'
  OBVIOUS
<1>0. /\ MentionsFlagged /\ TypeOK /\ artifacts \subseteq Artifact /\ TurnHasWorker
      /\ CreatorApart /\ UniqueNames(artifacts)
  BY KeysByList DEF IInv, TypeOK
<1>1. \A text : Flagged("reportOnly", text) => Flagged("reportOnly", text)'
  BY WarningsGrow DEF Doubts
<1>2. CASE artifacts' = artifacts
  BY <1>0, <1>1, <1>2 DEF MentionsFlagged
<1>3. CASE artifacts' # artifacts
  <2>1. PICK text \in Texts, description \in Descriptions, content \in BOOLEAN :
          /\ Upsert(text, description, content)
          /\ \/ MentionArtifact(text) /\ description = "mention"
             \/ rank # Idle /\ description # "mention"
          /\ worker \in Workers
    BY <1>0, <1>3, ArtifactsUntouched
  <2>2. \A b \in artifacts' :
          \/ b \in artifacts
          \/ /\ SameKey(b.name, text)
             /\ \/ b.description = description
                \/ \E a \in artifacts : a.name = b.name /\ a.description = b.description
    BY <1>0, <2>1, Upserted
  <2>3. ASSUME description = "mention", NEW t, SameKey(t, text)
        PROVE  Flagged("reportOnly", t)'
    <3>1. MentionArtifact(text)
      BY <2>1, <2>3
    <3>2. [doubt |-> "reportOnly", text |-> text] \in warnings'
      BY <1>3, <3>1 DEF MentionArtifact, Warn
    <3> QED BY <2>3, <3>2 DEF Flagged, SameKey
  <2> QED BY <1>0, <1>1, <2>2, <2>3 DEF MentionsFlagged
<1> QED BY <1>2, <1>3

(***************************************************************************)
(* The theorems                                                            *)
(***************************************************************************)

(* The invariant holds to begin with. *)
LEMMA InvInit == Init => IInv
<1> SUFFICES ASSUME Init
             PROVE  IInv
  OBVIOUS
<1>1. TypeOK
  BY TypeInit
<1>2. PlanAccounted
  <2>1. 1 \in Steps /\ current \in Tasks
    BY PlanAssumption, PlanTexts DEF Init, Steps
  <2>2. current # NoText
    BY <2>1, PlanTexts, TextAssumption
  <2> QED BY <2>1, <2>2 DEF Init, PlanAccounted, Knows
<1>3. KeysUnique
  BY DEF Init, KeysUnique
<1> QED
  BY <1>1, <1>2, <1>3
     DEF Init, IInv, TurnHasWorker, IssuesOpen, CreatorApart, PlannedCovers, NoStepFlagged,
         StrangersFlagged, ResolutionsFlagged, MentionsFlagged

(* Every step keeps it. *)
LEMMA InvStep == IInv /\ [Next]_vars => IInv'
BY TypeStep, KeysStep, PlanStep, TurnStep, IssueStep, ArtifactStep, PlanDoubtsStep,
   ResolutionsStep, MentionsStep DEF IInv

(* IInv is an invariant of the reconciler. *)
THEOREM Invariance == Spec => []IInv
BY InvInit, InvStep, PTL DEF Spec

(* The state and the turn keep their types. *)
THEOREM TypeCorrect == Spec => []TypeOK
<1>1. IInv => TypeOK
  BY DEF IInv
<1> QED BY <1>1, Invariance, PTL

(* However the workers word and repeat their claims, the state holds one    *)
(* record for a key: the add_ methods and upsert_artifact.                  *)
THEOREM OneRecordForAKey == Spec => []KeysUnique
<1>1. IInv => KeysUnique
  BY DEF IInv
<1> QED BY <1>1, Invariance, PTL

(* Every step of the plan is pending or claimed as completed and never      *)
(* both, and no worker's words become the current task: add_completed_task  *)
(* and reconcile.                                                           *)
THEOREM NoStepIsLost == Spec => []PlanAccounted
<1>1. IInv => PlanAccounted
  BY DEF IInv
<1> QED BY <1>1, Invariance, PTL

(* What rests on a worker's word alone is flagged, and a step of the plan   *)
(* that is completed is not: the warnings of reconcile.                     *)
THEOREM WordsAreDoubted == Spec => []DoubtsAreFlagged
<1>1. IInv => DoubtsAreFlagged
  <2> SUFFICES ASSUME IInv
               PROVE  DoubtsAreFlagged
    OBVIOUS
  <2>1. ASSUME NEW c \in completed, Flagged("unplanned", c.text)
        PROVE  \A i \in Steps : ~SameKey(Plan[i], c.text)
    BY <2>1 DEF IInv, NoStepFlagged, Flagged, SameKey
  <2>2. StrangersFlagged /\ ResolutionsFlagged /\ MentionsFlagged /\ IssuesOpen
    BY DEF IInv
  <2> QED
    BY <2>1, <2>2
       DEF DoubtsAreFlagged, StrangersFlagged, ResolutionsFlagged, MentionsFlagged, IssuesOpen
<1> QED BY <1>1, Invariance, PTL

(* No worker undoes what the state knows, and the versions of an artifact   *)
(* rise one by one: the state's add_ methods and upsert_artifact.           *)
THEOREM WorkersUndoNothing == Spec => NothingForgotten
<1>1. IInv /\ [Next]_vars
        => [/\ completed \subseteq completed'
            /\ decisions \subseteq decisions'
            /\ attempts \subseteq attempts'
            /\ assumptions \subseteq assumptions'
            /\ \A i \in issues : \E j \in issues' :
                 j.text = i.text /\ j.by = i.by /\ ~j.resolved
            /\ \A a \in artifacts : \E b \in artifacts' : ArtifactEvolves(a, b)]_vars
  <2> SUFFICES ASSUME IInv, [Next]_vars
               PROVE  /\ completed \subseteq completed' /\ decisions \subseteq decisions'
                      /\ attempts \subseteq attempts' /\ assumptions \subseteq assumptions'
    BY IssueStep, ArtifactStep
  <2>1. /\ completed \subseteq Claim /\ decisions \subseteq Claim
        /\ attempts \subseteq Claim /\ assumptions \subseteq Claim
        /\ TurnHasWorker
    BY DEF IInv, TypeOK
  <2>2. ASSUME NEW claimed, claimed \subseteq Claim, NEW text \in Texts, rank # Idle
        PROVE  claimed \subseteq WithClaim(claimed, text)
    BY <2>1, <2>2, ClaimAdded DEF TurnHasWorker
  <2>3. ASSUME NEW text \in Texts,
               \/ ClaimCompletion(text) \/ ClaimDecision(text)
               \/ ClaimFailedAttempt(text) \/ ClaimAssumption(text)
        PROVE  /\ completed' \in {completed, WithClaim(completed, text)}
               /\ decisions' \in {decisions, WithClaim(decisions, text)}
               /\ attempts' \in {attempts, WithClaim(attempts, text)}
               /\ assumptions' \in {assumptions, WithClaim(assumptions, text)}
               /\ rank # Idle
    BY <2>3 DEF ClaimCompletion, ClaimDecision, ClaimFailedAttempt, ClaimAssumption, NextClaim
  <2>4. ASSUME NEW text \in Texts,
               \/ ClaimCompletion(text) \/ ClaimDecision(text)
               \/ ClaimFailedAttempt(text) \/ ClaimAssumption(text)
        PROVE  /\ completed \subseteq completed' /\ decisions \subseteq decisions'
               /\ attempts \subseteq attempts' /\ assumptions \subseteq assumptions'
    BY <2>1, <2>2, <2>3, <2>4
  <2>5. ASSUME NEW text \in Texts,
               \/ RaiseIssue(text) \/ ClaimResolution(text) \/ MentionArtifact(text)
               \/ \E description \in {"", "described"}, content \in BOOLEAN :
                    ListArtifact(text, description, content)
        PROVE  UNCHANGED <<completed, decisions, attempts, assumptions>>
    BY <2>5 DEF RaiseIssue, ClaimResolution, MentionArtifact, ListArtifact
  <2>6. /\ \A task \in Tasks :
             FailTurn(task) => UNCHANGED <<completed, decisions, attempts, assumptions>>
        /\ \A task \in Tasks, w \in Workers :
             BeginTurn(w, task) => UNCHANGED <<completed, decisions, attempts, assumptions>>
        /\ EndTurn \/ UNCHANGED vars
             => UNCHANGED <<completed, decisions, attempts, assumptions>>
    BY DEF FailTurn, BeginTurn, EndTurn, vars, state
  <2> QED BY <2>4, <2>5, <2>6 DEF Next
<1> QED BY <1>1, Invariance, PTL DEF Spec, NothingForgotten
=============================================================================
