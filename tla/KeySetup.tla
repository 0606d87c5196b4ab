------------------------------ MODULE KeySetup ------------------------------
(***************************************************************************)
(* Whose key pays for whom: the keys and the team of the playground page   *)
(* (web/static/js/setup.js), POST /api/keys/inspect, the pool a deployment *)
(* lends and the roster the server builds for a run (web/server.py).       *)
(*                                                                         *)
(* A key's card, the report on it and the workers' choices are three       *)
(* pieces of state kept in step by refreshPlan, which not every edit       *)
(* calls, while inspections are under way.  The page is modelled where     *)
(* real calls are allowed; endpoints given by hand are left out.           *)
(***************************************************************************)
EXTENDS Providers

CONSTANTS
  Keys,       \* what a reader may paste
  Issuer,     \* key, pasted or lent -> who really issued it
  Catalogue,  \* vendor -> the rows of its model list
  Pool,       \* the keys lent, in order
  Wants,      \* for every step there may be, its role's appetite
  DemoSteps,  \* steps of the plan when the page opens
  MaxKeys,    \* bound: cards
  MaxEdits    \* bound: actions of the reader

ASSUME KeySetupAssumption ==
  /\ \A key \in Keys \cup ToSet(Pool) : Issuer[key] \in Vendors
  /\ Pool \in Seq(ToSet(Pool)) /\ Pool # <<>>
  /\ Wants \in Seq(ToSet(Wants)) /\ DemoSteps \in 1..Len(Wants)
(* The first lent key stands for all: they are of one vendor, "which vendor *)
(* issued them", and bear its mark.                                         *)
ASSUME PoolAssumption ==
  \A key \in ToSet(Pool) : Issuer[key] = Issuer[Pool[1]] /\ Detect(key) = Issuer[key]
(* A vendor's rows, and the place of an id among them, which tells it.      *)
ModelRow == [id : Seq(STRING), ord : Nat, strength : Int, active : BOOLEAN,
             text : BOOLEAN, plain : BOOLEAN, context : Nat]
ASSUME CatalogueAssumption ==
  \A v \in Vendors :
    /\ Catalogue[v] \in Seq(ModelRow)
    /\ \A i, j \in DOMAIN Catalogue[v] :
         Catalogue[v][i].ord = Catalogue[v][j].ord => Catalogue[v][i].id = Catalogue[v][j].id

VARIABLES
  source,    \* pool, mine or none: who pays
  keys,      \* the cards: id, key, vendor chosen, report
  nextId,
  pool,      \* the report on the pool's first key
  steps,     \* steps of the plan
  team,      \* a worker for every step: its key, its model, which key and vendor
             \* that was offered to, and the report its menu was drawn from
  refs,      \* the keys in the menus
  checking,  \* inspections under way; the button is disabled meanwhile
  lending,   \* inspections of the pool under way: what each asked for
  calls,     \* the requests the last run makes of vendors
  edits

vars == <<source, keys, nextId, pool, steps, team, refs, checking, lending, calls, edits>>

PoolRef == 0
NoRef == -1
NoReport == NotOk
NoModel == <<>>
Idle == [ref |-> NoRef, model |-> NoModel, for |-> <<>>, menu |-> NoReport]
Card(id) == [id |-> id, key |-> <<>>, provider |-> Unknown, report |-> NoReport]

(* reportFor, usableKeys. *)
ReportFor(cards, lent, ref) ==
  CASE ref = PoolRef -> lent
    [] ref = NoRef -> NoReport
    [] OTHER -> cards[CHOOSE i \in DOMAIN cards : cards[i].id = ref].report
Usable(src, cards, lent) ==
  CASE src = "pool" -> IF lent.ok THEN <<PoolRef>> ELSE <<>>
    [] src = "mine" ->
         LET fit == {i \in DOMAIN cards : cards[i].report.ok}
             places == Sorted(fit, {p \in fit \X fit : p[1] < p[2]})
         IN  [j \in DOMAIN places |-> cards[places[j]].id]
    [] OTHER -> <<>>

(* One worker a step, the usable keys dealt out in turn; a choice is kept  *)
(* while its key still offers it.                                          *)
BuildTeam(src, cards, lent, count) ==
  LET usable == Usable(src, cards, lent)
      Report(ref) == ReportFor(cards, lent, ref)
      Dealt(i) == usable[((i - 1) % Len(usable)) + 1]
      Kept(i, ref) == /\ i \in DOMAIN team /\ team[i].ref = ref
                      /\ team[i].model \in ToSet(Report(ref).models)
      Suggested(i, r) == IF r.suggested = <<>> THEN r.models[1]
                         ELSE r.suggested[((i - 1) % Len(r.suggested)) + 1]
  IN  [i \in 1..count |->
        IF usable = <<>> THEN Idle
        ELSE LET ref == Dealt(i) IN
             [ref |-> ref,
              model |-> IF Kept(i, ref) THEN team[i].model ELSE Suggested(i, Report(ref)),
              for |-> Report(ref).about,
              menu |-> Report(ref)]]

(* The team is built anew from what has just been changed. *)
RefreshPlan ==
  /\ team' = BuildTeam(source', keys', pool', steps')
  /\ refs' = ToSet(Usable(source', keys', pool'))
KeepPlan == UNCHANGED <<team, refs>>

Init ==
  /\ source = "mine" /\ keys = <<Card(1)>> /\ nextId = 2
  /\ pool = NoReport /\ steps = DemoSteps
  /\ team = [i \in 1..DemoSteps |-> Idle] /\ refs = {}
  /\ checking = {} /\ lending = <<>> /\ calls = {} /\ edits = 0

Editing == edits < MaxEdits /\ edits' = edits + 1

(***************************************************************************)
(* The cards                                                               *)
(***************************************************************************)

(* A key or a vendor changed discards the report, and leaves the team.     *)
PasteKey ==
  /\ Editing /\ source = "mine"
  /\ \E i \in DOMAIN keys, key \in Keys \cup {<<>>} :
       /\ key # keys[i].key
       /\ keys' = [keys EXCEPT ![i] = [@ EXCEPT !.key = key, !.report = NoReport]]
  /\ UNCHANGED <<source, nextId, pool, steps, team, refs, checking, lending, calls>>

ChooseVendor ==
  /\ Editing /\ source = "mine"
  /\ \E i \in DOMAIN keys, v \in Vendors \cup {Unknown} :
       /\ v # keys[i].provider
       /\ keys' = [keys EXCEPT ![i] = [@ EXCEPT !.provider = v, !.report = NoReport]]
  /\ UNCHANGED <<source, nextId, pool, steps, team, refs, checking, lending, calls>>

AddKey ==
  /\ Editing /\ source = "mine" /\ Len(keys) < MaxKeys
  /\ keys' = Append(keys, Card(nextId)) /\ nextId' = nextId + 1
  /\ UNCHANGED <<source, pool, steps, team, refs, checking, lending, calls>>

(* Deviation: the workers keep the key that is gone. *)
DropKeyOnly ==
  /\ Editing /\ source = "mine" /\ Len(keys) > 1
  /\ \E i \in DOMAIN keys : keys' = RemoveAt(keys, i)
  /\ UNCHANGED <<source, nextId, pool, steps, team, refs, checking, lending, calls>>

DropKey ==
  /\ Editing /\ source = "mine" /\ Len(keys) > 1
  /\ \E i \in DOMAIN keys : keys' = RemoveAt(keys, i)
  /\ UNCHANGED <<source, nextId, pool, steps, checking, lending, calls>>
  /\ RefreshPlan

(***************************************************************************)
(* Asking the vendors                                                      *)
(***************************************************************************)

(* The appetites of the steps there are; one at least is asked for.        *)
CurrentWants == SubSeq(Wants, 1, IF steps = 0 THEN 1 ELSE steps)

CheckKeys ==
  /\ Editing /\ source = "mine" /\ checking = {}
  /\ checking' = {[id |-> c.id, key |-> c.key, provider |-> c.provider, wants |-> CurrentWants] :
                    c \in {d \in ToSet(keys) : d.key # <<>>}}
  /\ checking' # {}
  /\ UNCHANGED <<source, keys, nextId, pool, steps, team, refs, lending, calls>>

(* What /api/keys/inspect answers: a vendor that did not issue the key     *)
(* rejects it, and any may be out of reach.                                *)
Reports(key, provider, wants) ==
  LET pid == IF provider # Unknown THEN provider ELSE Detect(key)
      listed == IF pid = Issuer[key] THEN {<<>>, Catalogue[pid]} ELSE {<<>>}
  IN  {InspectKey(key, provider, answer, wants) : answer \in listed}

(* The answer goes to the card that was asked about, whatever it holds now; *)
(* when the last one is here the team is built anew.                        *)
KeyAnswers ==
  /\ \E q \in checking :
       /\ checking' = checking \ {q}
       /\ \E report \in Reports(q.key, q.provider, q.wants) :
            keys' = [i \in DOMAIN keys |->
              IF keys[i].id = q.id THEN [keys[i] EXCEPT !.report = report] ELSE keys[i]]
  /\ UNCHANGED <<source, nextId, pool, steps, lending, calls, edits>>
  /\ IF checking' = {} THEN RefreshPlan ELSE KeepPlan

(* The pool is asked again while it has not answered, each time for the     *)
(* steps there were then; the answers come in any order.                    *)
PoolAnswers ==
  /\ \E i \in DOMAIN lending :
       /\ lending' = RemoveAt(lending, i)
       /\ pool' \in Reports(Pool[1], Unknown, lending[i])
  /\ UNCHANGED <<source, keys, nextId, steps, checking, calls, edits>>
  /\ RefreshPlan

(* The team waits for a pool that was not asked yet. *)
SetSource ==
  /\ Editing
  /\ source' \in {"pool", "mine", "none"} \ {source}
  /\ lending' = IF source' = "pool" /\ pool = NoReport THEN Append(lending, CurrentWants) ELSE lending
  /\ UNCHANGED <<keys, nextId, pool, steps, checking, calls>>
  /\ IF source' = "pool" /\ pool = NoReport THEN KeepPlan ELSE RefreshPlan

(***************************************************************************)
(* The team                                                                *)
(***************************************************************************)

ChangeSteps ==
  /\ Editing
  /\ steps' \in {steps - 1, steps + 1} \cap 0..Len(Wants)
  /\ UNCHANGED <<source, keys, nextId, pool, checking, lending, calls>>
  /\ RefreshPlan

(* A key from the menu brings its best model, if it still has any; all the *)
(* menus are drawn anew, the other workers' models kept.                   *)
ChooseKey ==
  /\ Editing
  /\ \E i \in DOMAIN team, ref \in refs :
       /\ team[i].ref # ref
       /\ LET r == ReportFor(keys, pool, ref)
              chosen == [team EXCEPT ![i] = [@ EXCEPT
                !.ref = ref, !.for = r.about,
                !.model = IF r.ok THEN r.models[1] ELSE NoModel]]
          IN  team' = [j \in DOMAIN team |->
                [chosen[j] EXCEPT !.menu = ReportFor(keys, pool, chosen[j].ref)]]
  /\ refs' = ToSet(Usable(source, keys, pool))
  /\ UNCHANGED <<source, keys, nextId, pool, steps, checking, lending, calls>>

(* A model from the menu, which may be older than the report. *)
ChooseModel ==
  /\ Editing /\ refs # {}
  /\ \E i \in DOMAIN team : \E model \in ToSet(team[i].menu.models) :
       /\ model # team[i].model
       /\ team' = [team EXCEPT ![i] = [@ EXCEPT !.model = model, !.for = team[i].menu.about]]
  /\ UNCHANGED <<source, keys, nextId, pool, steps, refs, checking, lending, calls>>

(***************************************************************************)
(* A run                                                                   *)
(***************************************************************************)

(* The slot that pays for worker i, the vendor chosen for it or read off   *)
(* the key, and a lent key where there is none.                            *)
Slot(w) ==
  LET slots == {c \in ToSet(keys) : c.id = w.ref /\ c.key # <<>> /\ source = "mine"}
  IN  IF slots = {} THEN Card(NoRef) ELSE CHOOSE c \in slots : TRUE
Borrows(w) == Slot(w).key = <<>> /\ (w.ref \in {PoolRef, NoRef} \/ source = "pool")

ConfigOf(i) ==
  LET w == team[i]
      key == IF Borrows(w) THEN Pool[((i - 1) % Len(Pool)) + 1] ELSE Slot(w).key
      pid == IF Slot(w).provider # Unknown THEN Slot(w).provider ELSE Detect(key)
  IN  [key |-> key, provider |-> pid, model |-> Qualify(pid, w.model),
       model_id |-> IF pid = Unknown THEN <<>> ELSE w.model]

(* Every worker needs a model, by the page, and a key, by the server. The  *)
(* stand-in calls nobody.                                                  *)
Run ==
  /\ Editing /\ team # <<>> /\ source # "none"
  /\ \A i \in DOMAIN team : team[i].model # NoModel
  /\ \A i \in DOMAIN team : ConfigOf(i).key # <<>>
  /\ calls' = {[vendor |-> Resolve(ConfigOf(i)).vendor, model |-> Resolve(ConfigOf(i)).model,
                 key |-> ConfigOf(i).key, provider |-> Slot(team[i]).provider,
                 chosen |-> team[i].model, for |-> team[i].for] : i \in DOMAIN team}
  /\ UNCHANGED <<source, keys, nextId, pool, steps, team, refs, checking, lending>>

Next ==
  \/ PasteKey \/ ChooseVendor \/ AddKey \/ DropKey
  \/ CheckKeys \/ KeyAnswers \/ PoolAnswers \/ SetSource
  \/ ChangeSteps \/ ChooseKey \/ ChooseModel \/ Run

Spec == Init /\ [][Next]_vars

(***************************************************************************)
(* Properties                                                              *)
(***************************************************************************)

(* Every variable has its type, cards have distinct ids, and no worker     *)
(* refers to a card that is gone.                                          *)
TypeOK ==
  /\ source \in {"pool", "mine", "none"}
  /\ \A i, j \in DOMAIN keys : keys[i].id = keys[j].id => i = j
  /\ Len(team) = steps
  /\ \A w \in ToSet(team) : w.ref \in {PoolRef, NoRef} \cup {c.id : c \in ToSet(keys)}
  /\ \A q \in checking : q.key # <<>>

(* The steps of a plan are spread over all the models a key can run: one   *)
(* suggestion a step, and none made twice more often than another is made. *)
SpreadIsEven ==
  \A report \in {pool} \cup {c.report : c \in ToSet(keys)} : report.ok =>
    LET Times(model, upto) ==
          Cardinality({i \in 1..upto : report.suggested[i] = model})
        all == ToSet(report.models)
    IN  /\ report.suggested # <<>>
        /\ \A upto \in DOMAIN report.suggested, a, b \in all :
             Times(a, upto) <= Times(b, upto) + 1

(* As long as the key that pays is the one that was asked, or both are     *)
(* lent, the vendor that issued it is called, and under the very name it   *)
(* offered the model by, whatever vendors' names occur in that.            *)
AskedAbout(c) ==
  \/ c.for = <<c.key, c.provider>>
  \/ c.for[1] = Pool[1] /\ c.key \in ToSet(Pool) /\ c.provider = Unknown
RoutedAsChosen ==
  \A c \in calls : AskedAbout(c) =>
    /\ c.vendor = Issuer[c.key]
    /\ c.model = c.chosen
    /\ \E m \in ToSet(Catalogue[c.vendor]) : m.id = c.model

(* "until the vendor has told us which models this key can call, every     *)
(* model dropdown would be a guess" (web/server.py): whatever was edited   *)
(* in which order, a vendor is asked for models it offers.                 *)
ModelsWereOffered ==
  \A c \in calls : \E m \in ToSet(Catalogue[Issuer[c.key]]) : m.id = c.model
=============================================================================
