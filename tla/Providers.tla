------------------------------ MODULE Providers ------------------------------
(***************************************************************************)
(* Who issued a key, what it may run and under what name                   *)
(* (gateway/providers.py), and how the gateway reads it back from a        *)
(* worker's configuration (gateway/http_gateway.py, _resolve_provider).    *)
(*                                                                         *)
(* A model's name is the sequence of its segments, those "/" parts; a key  *)
(* is the sequence of its segments, those "-" or "_" parts, of which the   *)
(* first ones are the vendor's mark.  What is read off the text of a name, *)
(* its strength and whether it is one of the kinds left out, is a field.   *)
(***************************************************************************)
EXTENDS Integers, SequencesExt, FiniteSetsExt

CONSTANTS
  Vendors,      \* the providers of the catalogue
  Marks,        \* vendor -> the prefixes of its keys
  LiteLLMName,  \* vendor -> its prefix in LiteLLM's model strings
  Bare,         \* the segment that several vendors share
  BareVendor,   \* who is taken to issue a key with that segment only
  MinContext    \* the least a briefing and an answer need

Unknown == "unknown"

ASSUME ProvidersAssumption ==
  /\ BareVendor \in Vendors /\ Unknown \notin Vendors
  /\ DOMAIN Marks = Vendors /\ DOMAIN LiteLLMName = Vendors

(***************************************************************************)
(* Names                                                                   *)
(***************************************************************************)

(* The vendor of the longest prefix; a bare one is a guess. *)
Detect(key) ==
  LET matching == {p \in Vendors \X UNION {Marks[v] : v \in Vendors} :
                     p[2] \in Marks[p[1]] /\ IsPrefix(p[2], key)}
  IN  IF matching # {}
      THEN (CHOOSE m \in matching : \A o \in matching : Len(o[2]) <= Len(m[2]))[1]
      ELSE IF IsPrefix(<<Bare>>, key) THEN BareVendor ELSE Unknown

SplitModel(model) ==
  IF Len(model) > 1 /\ Head(model) \in Vendors
  THEN [vendor |-> Head(model), rest |-> Tail(model)]
  ELSE [vendor |-> Unknown, rest |-> model]

PrefixesFor(pid) == IF pid \in Vendors THEN {LiteLLMName[pid], pid} ELSE {pid}

Prefixed(model, pid) == Len(model) > 1 /\ Head(model) \in PrefixesFor(pid)

(* What the engine passes around and shows. *)
Qualify(pid, model) ==
  IF pid = Unknown \/ Prefixed(model, pid) THEN model
  ELSE <<IF pid \in Vendors THEN LiteLLMName[pid] ELSE pid>> \o model

StripVendor(model, pid) ==
  IF pid = Unknown THEN SplitModel(model).rest
  ELSE IF Prefixed(model, pid) THEN Tail(model) ELSE model

(***************************************************************************)
(* What the gateway calls                                                  *)
(***************************************************************************)

(* Deviation: the model to call is recovered from the one to show. *)
ResolveByName(config) ==
  [vendor |-> config.provider, model |-> StripVendor(config.model, config.provider)]

(* The vendor and the model a configuration stands for; Unknown raises.    *)
Resolve(config) ==
  IF config.provider # Unknown
  THEN [vendor |-> config.provider,
        model |-> IF config.model_id # <<>> THEN config.model_id
                  ELSE StripVendor(config.model, config.provider)]
  ELSE LET parts == SplitModel(config.model)
       IN  [vendor |-> IF parts.vendor # Unknown THEN parts.vendor ELSE Detect(config.key),
            model |-> parts.rest]

(***************************************************************************)
(* Models                                                                  *)
(***************************************************************************)

(* A row of a vendor's list: ord is its place among the ids in their order, *)
(* text that the vendor does not say it reads or writes something else,     *)
(* plain that its name is of no kind left out, context 0 when unsaid.       *)
ListModels(listed) ==
  {listed[i] : i \in {j \in DOMAIN listed :
     /\ listed[j].active
     /\ \A l \in 1..(j - 1) : listed[l].active => listed[l].id # listed[j].id}}

IsChatModel(m) ==
  /\ m.active /\ m.text /\ m.plain
  /\ m.context = 0 \/ m.context >= MinContext

Stronger(a, b) == a.strength > b.strength \/ (a.strength = b.strength /\ a.ord < b.ord)
Weaker(a, b) == a.strength < b.strength \/ (a.strength = b.strength /\ a.ord < b.ord)
Nearer(middle, a, b) ==
  LET far(m) == IF m.strength < middle THEN middle - m.strength ELSE m.strength - middle
  IN  far(a) < far(b) \/ (far(a) = far(b) /\ Stronger(a, b))

(* The elements of S as the pairs in R order them. *)
Sorted(S, R) ==
  [j \in 1..Cardinality(S) |->
     CHOOSE x \in S : Cardinality({y \in S : <<y, x>> \in R}) = j - 1]

Upwards(chat) == Sorted(chat, {p \in chat \X chat : Weaker(p[1], p[2])})
Downwards(chat) == Sorted(chat, {p \in chat \X chat : Stronger(p[1], p[2])})
AroundMiddle(chat) ==
  LET middle == Upwards(chat)[(Cardinality(chat) \div 2) + 1].strength
  IN  Sorted(chat, {p \in chat \X chat : Nearer(middle, p[1], p[2])})

(* Best first, for an appetite. *)
ChatModels(models) == {m \in models : IsChatModel(m)}
Rank(models, want) ==
  CASE want = "fast" -> Upwards(ChatModels(models))
    [] want = "mid" -> AroundMiddle(ChatModels(models))
    [] OTHER -> Downwards(ChatModels(models))

(* Deviation: once all are used, the best takes every step left. *)
PickedOnce(models, given, want) ==
  LET ordered == Rank(models, want)
      free == {i \in DOMAIN ordered : ordered[i].id \notin given.used}
      pick == ordered[IF free = {} THEN 1 ELSE Min(free)].id
  IN  [out |-> Append(given.out, pick), used |-> given.used \cup {pick}]

(* The best not used yet for each step, all of them before any again. *)
Picked(models, given, want) ==
  LET ordered == Rank(models, want)
      free == {i \in DOMAIN ordered : ordered[i].id \notin given.used}
      pick == ordered[IF free = {} THEN 1 ELSE Min(free)].id
      used == given.used \cup {pick}
  IN  [out |-> Append(given.out, pick),
       used |-> IF Cardinality(used) >= Len(ordered) THEN {} ELSE used]

Spread(models, wants) ==
  IF ChatModels(models) = {} THEN <<>>
  ELSE LET given[i \in 0..Len(wants)] ==
             IF i = 0 THEN [out |-> <<>>, used |-> {}]
             ELSE Picked(models, given[i - 1], wants[i])
       IN  given[Len(wants)].out

(* The report on a key: which vendor, its models and one for every step;    *)
(* and, for the properties, what it was about.                              *)
NotOk == [about |-> <<>>, ok |-> FALSE, provider |-> Unknown, models |-> <<>>, suggested |-> <<>>]
InspectKey(key, provider, answer, wants) ==
  LET pid == IF provider # Unknown THEN provider ELSE Detect(key)
      ordered == Rank(ListModels(answer), "strong")
      asked == [NotOk EXCEPT !.about = <<key, provider>>]
  IN  IF pid = Unknown \/ ordered = <<>> THEN asked
      ELSE [asked EXCEPT !.ok = TRUE, !.provider = pid,
                         !.models = [i \in DOMAIN ordered |-> ordered[i].id],
                         !.suggested = Spread(ListModels(answer), wants)]
=============================================================================
