-------------------------- MODULE RunStreamProofs --------------------------
(***************************************************************************)
(* Proofs about RunStream, for every number of turns and every set of      *)
(* watchers.                                                               *)
(*                                                                         *)
(* That no event is lost or sent twice is not inductive alone: it needs    *)
(* that the sink is the end of what was emitted, and that no event is      *)
(* emitted twice.  Place numbers the events in the order in which a run    *)
(* emits them, so that each one emitted has a later place than the last.   *)
(***************************************************************************)
EXTENDS RunStream, TLAPS

(* The place of an event among those of a run. *)
Place(e) ==
  CASE e.kind = "run_started" -> 0
    [] e.kind = "handoff" -> 5 * e.turn + 1
    [] e.kind = "worker_started" -> 5 * e.turn + 2
    [] e.kind \in {"worker_completed", "worker_failed"} -> 5 * e.turn + 3
    [] e.kind = "reconciled" -> 5 * e.turn + 4
    [] e.kind = "run_finished" -> 5 * NumTurns + 5
    [] e.kind = "run_error" -> 5 * NumTurns + 6
    [] e.kind = "SENTINEL" -> 5 * NumTurns + 7

(* Events are emitted in the order of their places; the sentinel is put as  *)
(* the thread closes.                                                       *)
EmittedInOrder ==
  \A i, j \in 1..Len(emitted) : i < j => Place(emitted[i]) < Place(emitted[j])
SentinelCloses ==
  /\ thread \in {"absent", "opening", "dead"} => emitted = <<>>
  /\ \A i \in 1..Len(emitted) : emitted[i] = Sentinel => i = Len(emitted) /\ thread = "closed"

(* The sink holds the end of what was emitted; the rest was taken. *)
Taken == Len(emitted) - Len(sink)
TakenEvents == {emitted[i] : i \in 1..Taken}
SinkIsRest ==
  /\ Len(sink) <= Len(emitted)
  /\ \A i \in 1..Len(sink) : sink[i] = emitted[Taken + i]

(* What was taken is in one hand or in the replay, once. *)
TakenIsKept ==
  /\ Sentinel \notin ToSet(replay)
  /\ ToSet(replay) \subseteq TakenEvents
  /\ InHand \subseteq TakenEvents
  /\ TakenEvents \ {Sentinel} \subseteq ToSet(replay) \cup InHand
  /\ InHand \cap ToSet(replay) = {}
  /\ \A v, w \in Holding : hand[v] = hand[w] => v = w
  /\ IsInjective(replay)

(* What a client was sent is in the replay, the sentinel apart, which one   *)
(* client at most is sent, when its drain ends.                             *)
Told(w) == Sentinel \in ToSet(received[w])
SentIsKept ==
  /\ \A w \in Watchers :
       /\ IsInjective(received[w])
       /\ ToSet(received[w]) \ {Sentinel} \subseteq ToSet(replay)
       /\ gone[w] \/ at[w] = "absent" => received[w] = <<>>
       /\ Told(w) => Ends(w) /\ at[w] = "ended" /\ Sentinel \in TakenEvents \ InHand
  /\ \A v, w \in Watchers : Told(v) /\ Told(w) => v = w

(* Nothing is taken while nobody watches; a client that watches alone and   *)
(* stays was sent all that was taken, in order.                             *)
UpTo(w) == IF at[w] = "holding" THEN Taken - 1 ELSE Taken
AloneIsSentAll ==
  /\ (\A w \in Watchers : at[w] = "absent") => Taken = 0 /\ replay = <<>>
  /\ \A w \in Watchers :
       Alone(w) /\ at[w] # "absent" /\ ~gone[w] =>
         /\ Len(received[w]) = UpTo(w)
         /\ \A i \in 1..Len(received[w]) : received[w][i] = emitted[i]
         /\ at[w] = "holding" => hand[w] = emitted[Taken]

(* Nobody watches before the run begins, or leaves before it watches. *)
NobodyEarly ==
  /\ thread = "absent" => \A w \in Watchers : at[w] = "absent"
  /\ \A w \in Watchers : gone[w] => at[w] # "absent"

IInv ==
  /\ TypeOK
  /\ NobodyEarly
  /\ EmittedInOrder
  /\ SentinelCloses
  /\ SinkIsRest
  /\ TakenIsKept
  /\ SentIsKept
  /\ AloneIsSentAll

(***************************************************************************)
(* Sequences                                                               *)
(***************************************************************************)

(* What a sequence holds after one more element. *)
LEMMA AppendFacts ==
  ASSUME NEW S, NEW s \in Seq(S), NEW e \in S
  PROVE  /\ Append(s, e) \in Seq(S)
         /\ Len(Append(s, e)) = Len(s) + 1
         /\ \A i \in 1..Len(s) : Append(s, e)[i] = s[i]
         /\ Append(s, e)[Len(s) + 1] = e
         /\ ToSet(Append(s, e)) = ToSet(s) \cup {e}
         /\ IsInjective(s) /\ e \notin ToSet(s) => IsInjective(Append(s, e))
         /\ Last(Append(s, e)) = e
<1>1. /\ Append(s, e) \in Seq(S)
      /\ Len(Append(s, e)) = Len(s) + 1
      /\ \A i \in 1..Len(s) : Append(s, e)[i] = s[i]
      /\ Append(s, e)[Len(s) + 1] = e
  OBVIOUS
<1>2. DOMAIN s = 1..Len(s) /\ DOMAIN Append(s, e) = 1..(Len(s) + 1) /\ Len(s) \in Nat
  BY <1>1
<1>3. 1..(Len(s) + 1) = 1..Len(s) \cup {Len(s) + 1}
  BY <1>2
<1>4. ToSet(Append(s, e)) = ToSet(s) \cup {e}
  BY <1>1, <1>2, <1>3 DEF ToSet
<1>5. IsInjective(s) /\ e \notin ToSet(s) => IsInjective(Append(s, e))
  BY <1>1, <1>2, <1>3 DEF ToSet, IsInjective
<1>6. Last(Append(s, e)) = e
  BY <1>1 DEF Last
<1> QED BY <1>1, <1>4, <1>5, <1>6

(* The empty sequence. *)
LEMMA EmptyFacts ==
  /\ ToSet(<<>>) = {} /\ IsInjective(<<>>) /\ Len(<<>>) = 0
  /\ \A S : <<>> \in Seq(S)
BY DEF ToSet, IsInjective

(* Types, one variable at a time. *)
LEMMA TypesOne ==
  TypeOK <=>
    /\ thread \in {"absent", "opening", "running", "closed", "dead"}
    /\ emitted \in Seq(Event) /\ sink \in Seq(Event) /\ replay \in Seq(Event)
    /\ at \in [Watchers -> {"absent", "waiting", "holding", "ended"}]
    /\ hand \in [Watchers -> Event]
    /\ gone \in [Watchers -> BOOLEAN]
    /\ received \in [Watchers -> Seq(Event)]
BY DEF TypeOK

LEMMA TypesOneAfter ==
  TypeOK' <=>
    /\ thread' \in {"absent", "opening", "running", "closed", "dead"}
    /\ emitted' \in Seq(Event) /\ sink' \in Seq(Event) /\ replay' \in Seq(Event)
    /\ at' \in [Watchers -> {"absent", "waiting", "holding", "ended"}]
    /\ hand' \in [Watchers -> Event]
    /\ gone' \in [Watchers -> BOOLEAN]
    /\ received' \in [Watchers -> Seq(Event)]
BY DEF TypeOK

LEMMA SentinelIsEvent == Sentinel \in Event
BY TurnAssumption DEF Sentinel, Ev, Event, Kinds

(***************************************************************************)
(* The order of emission                                                   *)
(***************************************************************************)

LEMMA PlaceIsNat == \A e \in Event : Place(e) \in Nat
<1> SUFFICES ASSUME NEW e \in Event
             PROVE  Place(e) \in Nat
  OBVIOUS
<1>1. e.turn \in Nat /\ NumTurns \in Nat /\ e.kind \in Kinds
  BY TurnAssumption DEF Event
<1> QED BY <1>1 DEF Place, Kinds

(* The first event of a turn that may follow the events before it. *)
LEMMA OpeningPlace ==
  ASSUME NEW t \in 1..(NumTurns + 1)
  PROVE  /\ OpeningOf(t) \in Event /\ OpeningOf(t).kind # "SENTINEL"
         /\ Place(OpeningOf(t)) >= 5 * t
<1>1. NumTurns \in Nat /\ t \in Nat /\ t >= 1 /\ t <= NumTurns + 1
  BY TurnAssumption
<1>2. CASE t > NumTurns
  <2>1. OpeningOf(t) = Ev("run_finished", 0)
    BY <1>2 DEF OpeningOf
  <2> QED BY <1>1, <1>2, <2>1 DEF Ev, Event, Kinds, Place
<1>3. CASE t <= NumTurns
  <2>1. OpeningOf(t) \in {Ev("handoff", t), Ev("worker_started", t)}
    BY <1>1, <1>3 DEF OpeningOf
  <2>2. t \in 0..NumTurns
    BY <1>1, <1>3
  <2>3. \A kind \in {"handoff", "worker_started"} :
          Ev(kind, t) \in Event /\ Ev(kind, t).kind # "SENTINEL"
    BY <2>2 DEF Ev, Event, Kinds
  <2>4. Place(Ev("handoff", t)) = 5 * t + 1 /\ Place(Ev("worker_started", t)) = 5 * t + 2
    BY DEF Ev, Place
  <2> QED BY <1>1, <1>3, <2>1, <2>3, <2>4
<1> QED BY <1>1, <1>2, <1>3

(* What the engine emits next has a later place than what it emitted last. *)
LEMMA NextPlace ==
  ASSUME TypeOK, NEW e \in NextEvents
  PROVE  /\ e \in Event /\ e # Sentinel
         /\ emitted # <<>> => Place(Last(emitted)) < Place(e)
<1>1. CASE emitted = <<>>
  <2>1. e = Ev("run_started", 0)
    BY <1>1 DEF NextEvents
  <2> QED BY <1>1, <2>1, TurnAssumption DEF Ev, Event, Kinds, Sentinel
<1>2. CASE emitted # <<>>
  <2> DEFINE last == Last(emitted)
  <2>1. last \in Event
    <3>1. emitted \in Seq(Event)
      BY TypesOne
    <3> QED BY <1>2, <3>1 DEF Last
  <2>2. last.kind \in Kinds /\ last.turn \in 0..NumTurns /\ last.turn \in Nat
        /\ NumTurns \in Nat
    BY <2>1, TurnAssumption DEF Event
  <2>3. e \in CASE last.kind = "run_started" -> {OpeningOf(1)}
                [] last.kind = "handoff" -> {Ev("worker_started", last.turn)}
                [] last.kind = "worker_started" ->
                     {Ev("worker_completed", last.turn), Ev("worker_failed", last.turn)}
                [] last.kind = "worker_completed" -> {Ev("reconciled", last.turn)}
                [] last.kind \in {"reconciled", "worker_failed"} -> {OpeningOf(last.turn + 1)}
                [] OTHER -> {}
    BY <1>2 DEF NextEvents
  <2> HIDE DEF last
  <2>4. \A kind \in Kinds : Ev(kind, last.turn) \in Event
    BY <2>2 DEF Ev, Event
  <2>5. CASE last.kind = "run_started"
    <3>1. e = OpeningOf(1) /\ 1 \in 1..(NumTurns + 1)
      BY <2>2, <2>3, <2>5
    <3>2. Place(last) = 0
      BY <2>5 DEF Place
    <3>3. e \in Event /\ e.kind # "SENTINEL" /\ Place(e) >= 5 * 1
      BY <3>1, OpeningPlace
    <3>4. Place(last) < Place(e)
      BY <3>2, <3>3, PlaceIsNat
    <3> QED BY <3>3, <3>4 DEF last, Ev, Sentinel
  <2>6. CASE last.kind = "handoff"
    <3>1. e = Ev("worker_started", last.turn)
      BY <2>3, <2>6
    <3>2. Place(last) = 5 * last.turn + 1 /\ Place(e) = 5 * last.turn + 2
      BY <2>6, <3>1 DEF Place, Ev
    <3> QED BY <2>2, <2>4, <3>1, <3>2 DEF last, Kinds, Ev, Sentinel
  <2>7. CASE last.kind = "worker_started"
    <3>1. e \in {Ev("worker_completed", last.turn), Ev("worker_failed", last.turn)}
      BY <2>3, <2>7
    <3>2. Place(last) = 5 * last.turn + 2 /\ Place(e) = 5 * last.turn + 3
      BY <2>7, <3>1 DEF Place, Ev
    <3> QED BY <2>2, <2>4, <3>1, <3>2 DEF last, Kinds, Ev, Sentinel
  <2>8. CASE last.kind = "worker_completed"
    <3>1. e = Ev("reconciled", last.turn)
      BY <2>3, <2>8
    <3>2. Place(last) = 5 * last.turn + 3 /\ Place(e) = 5 * last.turn + 4
      BY <2>8, <3>1 DEF Place, Ev
    <3> QED BY <2>2, <2>4, <3>1, <3>2 DEF last, Kinds, Ev, Sentinel
  <2>9. CASE last.kind \in {"reconciled", "worker_failed"}
    <3>1. e = OpeningOf(last.turn + 1) /\ last.turn + 1 \in 1..(NumTurns + 1)
      BY <2>2, <2>3, <2>9
    <3>2. Place(last) \in {5 * last.turn + 3, 5 * last.turn + 4}
      BY <2>9 DEF Place
    <3>3. e \in Event /\ e.kind # "SENTINEL" /\ Place(e) >= 5 * (last.turn + 1)
      BY <3>1, OpeningPlace
    <3>4. Place(last) < Place(e)
      BY <2>2, <3>2, <3>3, PlaceIsNat
    <3> QED BY <3>3, <3>4 DEF last, Ev, Sentinel
  <2> QED BY <2>2, <2>3, <2>5, <2>6, <2>7, <2>8, <2>9 DEF Kinds
<1> QED BY <1>1, <1>2

(* The places at which a run ends. *)
LEMMA EndPlaces ==
  ASSUME TypeOK, NextEvents # {}
  PROVE  /\ Ev("run_error", 0) \in Event
         /\ Place(Ev("run_error", 0)) = 5 * NumTurns + 6
         /\ emitted # <<>> => Place(Last(emitted)) < 5 * NumTurns + 6
<1>1. NumTurns \in Nat
  BY TurnAssumption
<1>2. Ev("run_error", 0) \in Event
  BY <1>1 DEF Ev, Event, Kinds
<1>3. Place(Ev("run_error", 0)) = 5 * NumTurns + 6
  BY DEF Place, Ev
<1>4. ASSUME emitted # <<>>
      PROVE  Place(Last(emitted)) < 5 * NumTurns + 6
  <2> DEFINE last == Last(emitted)
  <2>1. last \in Event
    <3>1. emitted \in Seq(Event)
      BY TypesOne
    <3> QED BY <1>4, <3>1 DEF Last
  <2>2. last.kind \in Kinds /\ last.turn \in Nat /\ last.turn <= NumTurns
    BY <1>1, <2>1 DEF Event
  <2>3. last.kind \notin {"run_finished", "run_error", "SENTINEL"}
    BY <1>4 DEF NextEvents
  <2> HIDE DEF last
  <2>4. last.kind \in {"run_started", "handoff", "worker_started", "worker_completed",
                       "worker_failed", "reconciled"}
    BY <2>2, <2>3 DEF Kinds
  <2>5. Place(last) \in {0, 5 * last.turn + 1, 5 * last.turn + 2, 5 * last.turn + 3,
                         5 * last.turn + 4}
    BY <2>4 DEF Place
  <2> QED BY <1>1, <2>2, <2>5 DEF last
<1> QED BY <1>2, <1>3, <1>4

(* An event of a later place than the last keeps the order. *)
LEMMA OrderKept ==
  ASSUME TypeOK, EmittedInOrder, NEW e \in Event, emitted' = Append(emitted, e),
         emitted # <<>> => Place(Last(emitted)) < Place(e)
  PROVE  EmittedInOrder'
<1>1. emitted \in Seq(Event) /\ Len(emitted) \in Nat
  BY TypesOne
<1>2. /\ Len(emitted') = Len(emitted) + 1
      /\ \A i \in 1..Len(emitted) : emitted'[i] = emitted[i]
      /\ emitted'[Len(emitted) + 1] = e
  BY <1>1, AppendFacts
<1>3. \A i \in 1..Len(emitted) : emitted[i] \in Event /\ Place(emitted[i]) \in Nat
  BY <1>1, PlaceIsNat
<1>4. \A i \in 1..Len(emitted) : Place(emitted[i]) < Place(e)
  <2> SUFFICES ASSUME NEW i \in 1..Len(emitted)
               PROVE  Place(emitted[i]) < Place(e)
    OBVIOUS
  <2>1. emitted # <<>> /\ Len(emitted) \in 1..Len(emitted)
    BY <1>1
  <2>2. Place(emitted[Len(emitted)]) < Place(e)
    BY <2>1 DEF Last
  <2>3. i = Len(emitted) \/ Place(emitted[i]) < Place(emitted[Len(emitted)])
    BY <2>1 DEF EmittedInOrder
  <2> QED BY <1>3, <2>1, <2>2, <2>3, PlaceIsNat
<1>5. ASSUME NEW i \in 1..(Len(emitted) + 1), NEW j \in 1..(Len(emitted) + 1), i < j
      PROVE  Place(emitted'[i]) < Place(emitted'[j])
  <2>1. i \in 1..Len(emitted)
    BY <1>1, <1>5
  <2>2. CASE j \in 1..Len(emitted)
    BY <1>2, <1>5, <2>1, <2>2 DEF EmittedInOrder
  <2>3. CASE j = Len(emitted) + 1
    BY <1>2, <1>4, <2>1, <2>3
  <2> QED BY <1>1, <2>2, <2>3
<1> QED BY <1>2, <1>5 DEF EmittedInOrder

(* No event is emitted twice. *)
LEMMA EmittedOnce ==
  ASSUME TypeOK, EmittedInOrder
  PROVE  \A i, j \in 1..Len(emitted) : emitted[i] = emitted[j] => i = j
<1>1. emitted \in Seq(Event) /\ Len(emitted) \in Nat
  BY TypesOne
<1> SUFFICES ASSUME NEW i \in 1..Len(emitted), NEW j \in 1..Len(emitted),
                    emitted[i] = emitted[j], i # j
             PROVE  FALSE
  OBVIOUS
<1>2. Place(emitted[i]) \in Nat /\ (i < j \/ j < i)
  BY <1>1, PlaceIsNat
<1> QED BY <1>2 DEF EmittedInOrder

(***************************************************************************)
(* The thread                                                              *)
(***************************************************************************)

(* An event put by the thread is the sink's last, and nothing is taken. *)
LEMMA PutKeeps ==
  ASSUME IInv, NEW e \in Event, Put(e), UNCHANGED <<replay, drains>>,
         emitted # <<>> => Place(Last(emitted)) < Place(e),
         thread = "running", thread' \in {"running", "closed"},
         e = Sentinel => thread' = "closed"
  PROVE  IInv'
<1>0. TypeOK /\ EmittedInOrder /\ SentinelCloses /\ SinkIsRest
  BY DEF IInv
<1>1. /\ emitted \in Seq(Event) /\ sink \in Seq(Event)
      /\ Len(emitted) \in Nat /\ Len(sink) \in Nat
  BY <1>0, TypesOne
<1>2. /\ emitted' = Append(emitted, e) /\ sink' = Append(sink, e)
      /\ emitted' \in Seq(Event) /\ sink' \in Seq(Event)
      /\ Len(emitted') = Len(emitted) + 1 /\ Len(sink') = Len(sink) + 1
      /\ \A i \in 1..Len(emitted) : emitted'[i] = emitted[i]
      /\ \A i \in 1..Len(sink) : sink'[i] = sink[i]
      /\ emitted'[Len(emitted) + 1] = e /\ sink'[Len(sink) + 1] = e
  BY <1>1, AppendFacts DEF Put
<1>3. UNCHANGED <<replay, at, hand, gone, received>>
  BY DEF drains
<1>4. Taken' = Taken /\ Taken \in Nat /\ Taken + Len(sink) = Len(emitted)
  BY <1>0, <1>1, <1>2 DEF Taken, SinkIsRest
<1>5. \A i \in 1..Taken : emitted'[i] = emitted[i]
  BY <1>1, <1>2, <1>4
<1>6. TakenEvents' = TakenEvents
  BY <1>4, <1>5 DEF TakenEvents
<1>7. TypeOK'
  BY <1>0, <1>2, <1>3, TypesOne, TypesOneAfter
<1>8. EmittedInOrder'
  BY <1>0, <1>2, OrderKept
<1>9. SentinelCloses'
  <2>1. ASSUME NEW i \in 1..(Len(emitted) + 1), emitted'[i] = Sentinel
        PROVE  i = Len(emitted) + 1 /\ thread' = "closed"
    <3>1. i \notin 1..Len(emitted)
      BY <1>0, <1>2, <2>1 DEF SentinelCloses
    <3>2. i = Len(emitted) + 1
      BY <1>1, <3>1
    <3> QED BY <1>2, <2>1, <3>2
  <2>2. thread' \notin {"absent", "opening", "dead"}
    OBVIOUS
  <2> QED BY <1>2, <2>1, <2>2 DEF SentinelCloses
<1>10. SinkIsRest'
  <2>1. ASSUME NEW i \in 1..(Len(sink) + 1)
        PROVE  sink'[i] = emitted'[Taken + i]
    <3>1. CASE i \in 1..Len(sink)
      <4>1. Taken + i \in 1..Len(emitted)
        BY <1>1, <1>4, <3>1
      <4> QED BY <1>0, <1>2, <3>1, <4>1 DEF SinkIsRest
    <3>2. CASE i = Len(sink) + 1
      BY <1>1, <1>2, <1>4, <3>2
    <3> QED BY <1>1, <3>1, <3>2
  <2>2. Len(sink') <= Len(emitted')
    BY <1>1, <1>2, <1>4
  <2>3. Len(sink') = Len(sink) + 1 /\ Taken' = Taken
    BY <1>2, <1>4
  <2> QED BY <2>1, <2>2, <2>3 DEF SinkIsRest
<1>11. Holding' = Holding /\ InHand' = InHand
  BY <1>3 DEF Holding, InHand
<1>12. TakenIsKept'
  BY <1>3, <1>6, <1>11 DEF IInv, TakenIsKept
<1>13. SentIsKept'
  BY <1>3, <1>6, <1>11 DEF IInv, SentIsKept, Told, Ends
<1>14. NobodyEarly'
  BY <1>3 DEF IInv, NobodyEarly
<1>15. AloneIsSentAll'
  <2>1. \A w \in Watchers : Alone(w)' <=> Alone(w)
    BY <1>3 DEF Alone
  <2>2. \A w \in Watchers : UpTo(w)' = UpTo(w)
    BY <1>3, <1>4 DEF UpTo
  <2>3. (\A w \in Watchers : at'[w] = "absent") => Taken' = 0 /\ replay' = <<>>
    BY <1>3, <1>4 DEF IInv, AloneIsSentAll
  <2>4. ASSUME NEW w \in Watchers, Alone(w), at[w] # "absent", ~gone[w]
        PROVE  /\ Len(received'[w]) = UpTo(w)
               /\ \A i \in 1..Len(received'[w]) : received'[w][i] = emitted'[i]
               /\ at'[w] = "holding" => hand'[w] = emitted'[Taken]
    <3>1. /\ Len(received[w]) = UpTo(w)
          /\ \A i \in 1..Len(received[w]) : received[w][i] = emitted[i]
          /\ at[w] = "holding" => hand[w] = emitted[Taken]
      BY <2>4 DEF IInv, AloneIsSentAll
    <3>2. Len(received[w]) \in Nat
      BY <1>0, TypesOne
    <3>3. UpTo(w) <= Taken /\ UpTo(w) <= Len(emitted)
      BY <1>1, <1>4 DEF UpTo
    <3>4. at[w] = "holding" => Taken \in 1..Taken
      BY <1>4, <3>1, <3>2 DEF UpTo
    <3>5. \A i \in 1..Len(received[w]) : i \in 1..Len(emitted)
      BY <1>1, <3>1, <3>2, <3>3
    <3>6. \A i \in 1..Len(received[w]) : received[w][i] = emitted'[i]
      BY <1>2, <3>1, <3>5
    <3>7. at[w] = "holding" => hand[w] = emitted'[Taken]
      BY <1>5, <3>1, <3>4
    <3> QED BY <1>3, <3>1, <3>6, <3>7
  <2> QED BY <1>3, <1>4, <2>1, <2>2, <2>3, <2>4 DEF AloneIsSentAll
<1> QED BY <1>7, <1>8, <1>9, <1>10, <1>12, <1>13, <1>14, <1>15 DEF IInv

(* A step that changes only where the thread stands. *)
LEMMA ThreadKeeps ==
  ASSUME IInv, UNCHANGED <<emitted, session, drains>>, emitted = <<>>,
         thread' \in {"opening", "running", "dead"}
  PROVE  IInv'
<1>1. UNCHANGED <<emitted, sink, replay, at, hand, gone, received>>
  BY DEF session, drains
<1>2. TypeOK'
  BY <1>1, TypesOne, TypesOneAfter DEF IInv
<1>3. NobodyEarly' /\ EmittedInOrder'
  BY <1>1 DEF IInv, NobodyEarly, EmittedInOrder
<1>4. SentinelCloses'
  BY <1>1 DEF SentinelCloses
<1>5. /\ Taken' = Taken /\ TakenEvents' = TakenEvents
      /\ Holding' = Holding /\ InHand' = InHand
      /\ \A w : (Alone(w)' <=> Alone(w)) /\ UpTo(w)' = UpTo(w)
  BY <1>1 DEF Taken, TakenEvents, Holding, InHand, Alone, UpTo
<1>6. SinkIsRest'
  BY <1>1, <1>5 DEF IInv, SinkIsRest
<1>7. TakenIsKept'
  BY <1>1, <1>5 DEF IInv, TakenIsKept
<1>8. SentIsKept'
  BY <1>1, <1>5 DEF IInv, SentIsKept, Told, Ends
<1>9. AloneIsSentAll'
  BY <1>1, <1>5 DEF IInv, AloneIsSentAll
<1> QED BY <1>2, <1>3, <1>4, <1>6, <1>7, <1>8, <1>9 DEF IInv

(* Every step of the thread keeps the invariant. *)
LEMMA EngineStep == ASSUME IInv, Begin \/ Engine PROVE IInv'
<1>0. TypeOK /\ SentinelCloses
  BY DEF IInv
<1>1. CASE Begin
  BY <1>0, <1>1, ThreadKeeps DEF Begin, SentinelCloses
<1>2. CASE OpenStore
  BY <1>0, <1>2, ThreadKeeps DEF OpenStore, SentinelCloses
<1>3. CASE Emit
  <2>1. PICK e \in NextEvents : Put(e)
    BY <1>3 DEF Emit
  <2>2. e \in Event /\ e # Sentinel /\ (emitted # <<>> => Place(Last(emitted)) < Place(e))
    BY <1>0, NextPlace
  <2> QED BY <1>3, <2>1, <2>2, PutKeeps DEF Emit
<1>4. CASE Fail
  <2>1. /\ Ev("run_error", 0) \in Event
        /\ emitted # <<>> => Place(Last(emitted)) < Place(Ev("run_error", 0))
    BY <1>0, <1>4, EndPlaces DEF Fail
  <2>2. Ev("run_error", 0) # Sentinel
    BY DEF Ev, Sentinel
  <2> QED BY <1>4, <2>1, <2>2, PutKeeps DEF Fail
<1>5. CASE Close
  <2>1. Last(emitted).kind \in {"run_finished", "run_error"}
    BY <1>5 DEF Close
  <2>2. Place(Last(emitted)) \in {5 * NumTurns + 5, 5 * NumTurns + 6}
    BY <2>1 DEF Place
  <2>3. Place(Sentinel) = 5 * NumTurns + 7
    BY DEF Place, Sentinel, Ev
  <2>4. Place(Last(emitted)) < Place(Sentinel)
    BY <2>2, <2>3, TurnAssumption
  <2> QED BY <1>5, <2>4, PutKeeps, SentinelIsEvent DEF Close
<1> QED BY <1>1, <1>2, <1>3, <1>4, <1>5 DEF Engine

(***************************************************************************)
(* The drains                                                              *)
(***************************************************************************)

(* What a drain's step leaves alone: the thread and what it emitted. *)
LEMMA DrainsEmitNothing ==
  ASSUME IInv, UNCHANGED <<thread, emitted>>
  PROVE  EmittedInOrder' /\ SentinelCloses'
BY DEF IInv, EmittedInOrder, SentinelCloses

(* If only w may have moved, another watches alone only if w never did. *)
LEMMA NotAlone ==
  ASSUME NEW w \in Watchers, at'[w] # "absent"
  PROVE  /\ \A v \in Watchers : Alone(v)' => v = w
         /\ ~ \A v \in Watchers : at'[v] = "absent"
BY DEF Alone

(* A request that watches is sent the replay. *)
LEMMA ConnectStep ==
  ASSUME IInv, NEW w \in Watchers, Connect(w)
  PROVE  IInv'
<1>0. TypeOK /\ NobodyEarly /\ SinkIsRest /\ TakenIsKept /\ SentIsKept /\ AloneIsSentAll
  BY DEF IInv
<1>1. /\ UNCHANGED <<thread, emitted, sink, replay, hand, gone>>
      /\ thread # "absent" /\ at[w] = "absent" /\ ~gone[w]
      /\ at' = [at EXCEPT ![w] = "waiting"]
      /\ received' = [received EXCEPT ![w] = replay]
  BY <1>0, TypesOne DEF Connect, session, NobodyEarly
<1>2. /\ at'[w] = "waiting" /\ received'[w] = replay
      /\ \A v \in Watchers \ {w} : at'[v] = at[v] /\ received'[v] = received[v]
  BY <1>0, <1>1, TypesOne
<1>3. TypeOK'
  <2>1. /\ at' \in [Watchers -> {"absent", "waiting", "holding", "ended"}]
        /\ received' \in [Watchers -> Seq(Event)]
    BY <1>0, <1>1, TypesOne
  <2> QED BY <1>0, <1>1, <2>1, TypesOne, TypesOneAfter
<1>4. Taken' = Taken /\ TakenEvents' = TakenEvents
  BY <1>1 DEF Taken, TakenEvents
<1>5. Holding' = Holding
  BY <1>1, <1>2 DEF Holding
<1>6. InHand' = InHand
  BY <1>1, <1>5 DEF InHand
<1>7. SinkIsRest' /\ TakenIsKept'
  BY <1>0, <1>1, <1>4, <1>5, <1>6 DEF SinkIsRest, TakenIsKept
<1>8. NobodyEarly'
  BY <1>0, <1>1, <1>2 DEF NobodyEarly
<1>9. SentIsKept'
  <2>1. ~Told(w)' /\ \A v \in Watchers \ {w} : (Told(v)' <=> Told(v)) /\ (Ends(v)' <=> Ends(v))
    BY <1>0, <1>2 DEF Told, Ends, TakenIsKept
  <2>2. /\ IsInjective(received'[w]) /\ ToSet(received'[w]) \subseteq ToSet(replay')
        /\ ~gone'[w] /\ at'[w] # "absent"
    BY <1>0, <1>1, <1>2 DEF TakenIsKept
  <2>3. \A v \in Watchers \ {w} :
          /\ IsInjective(received'[v])
          /\ ToSet(received'[v]) \ {Sentinel} \subseteq ToSet(replay')
          /\ gone'[v] \/ at'[v] = "absent" => received'[v] = <<>>
          /\ Told(v)' => Ends(v)' /\ at'[v] = "ended" /\ Sentinel \in TakenEvents' \ InHand'
    BY <1>0, <1>1, <1>2, <1>4, <1>6, <2>1 DEF SentIsKept
  <2>4. \A u, v \in Watchers : Told(u)' /\ Told(v)' => u = v
    BY <1>0, <2>1 DEF SentIsKept
  <2> QED BY <2>1, <2>2, <2>3, <2>4 DEF SentIsKept
<1>10. AloneIsSentAll'
  <2>1. /\ \A v \in Watchers : Alone(v)' => v = w
        /\ ~ \A v \in Watchers : at'[v] = "absent"
    BY <1>2, NotAlone
  <2>2. ASSUME Alone(w)'
        PROVE  Taken = 0 /\ received'[w] = <<>>
    BY <1>0, <1>1, <1>2, <2>2 DEF Alone, AloneIsSentAll
  <2>3. UpTo(w)' = Taken
    BY <1>2, <1>4 DEF UpTo
  <2>4. Alone(w)' => /\ Len(received'[w]) = UpTo(w)'
                     /\ \A i \in 1..Len(received'[w]) : received'[w][i] = emitted'[i]
    BY <2>2, <2>3, EmptyFacts
  <2> QED BY <1>2, <2>1, <2>4 DEF AloneIsSentAll
<1> QED BY <1>1, <1>3, <1>7, <1>8, <1>9, <1>10, DrainsEmitNothing DEF IInv

(* sink.get moves the event that was not yet taken into one hand. *)
LEMMA TakeStep ==
  ASSUME IInv, NEW w \in Watchers, Take(w)
  PROVE  IInv'
<1> DEFINE e == Head(sink)
<1>0. /\ TypeOK /\ NobodyEarly /\ SinkIsRest /\ TakenIsKept /\ SentIsKept /\ AloneIsSentAll
      /\ EmittedInOrder
  BY DEF IInv
<1>1. /\ UNCHANGED <<thread, emitted, replay, gone, received>>
      /\ at[w] = "waiting" /\ sink # <<>>
      /\ hand' = [hand EXCEPT ![w] = e]
      /\ sink' = Tail(sink)
      /\ at' = [at EXCEPT ![w] = "holding"]
  BY DEF Take
<1>2. /\ at'[w] = "holding" /\ hand'[w] = e
      /\ \A v \in Watchers \ {w} : at'[v] = at[v] /\ hand'[v] = hand[v]
  BY <1>0, <1>1, TypesOne
<1>3. /\ emitted \in Seq(Event) /\ sink \in Seq(Event)
      /\ Len(emitted) \in Nat /\ Len(sink) \in Nat /\ Len(sink) >= 1
      /\ sink' \in Seq(Event) /\ Len(sink') = Len(sink) - 1
      /\ \A i \in 1..(Len(sink) - 1) : sink'[i] = sink[i + 1]
      /\ e = sink[1] /\ e \in Event
  BY <1>0, <1>1, TypesOne
<1>4. Taken \in Nat /\ Taken' = Taken + 1 /\ Taken + 1 <= Len(emitted)
  BY <1>0, <1>1, <1>3 DEF Taken, SinkIsRest
<1>5. e = emitted[Taken + 1]
  BY <1>0, <1>3 DEF SinkIsRest
<1>6. TakenEvents' = TakenEvents \cup {e}
  <2>1. 1..(Taken + 1) = 1..Taken \cup {Taken + 1}
    BY <1>4
  <2> QED BY <1>1, <1>4, <1>5, <2>1 DEF TakenEvents
<1>7. e \notin TakenEvents
  <2>1. ASSUME NEW i \in 1..Taken
        PROVE  emitted[i] # emitted[Taken + 1]
    <3>1. i \in 1..Len(emitted) /\ Taken + 1 \in 1..Len(emitted) /\ i # Taken + 1
      BY <1>3, <1>4
    <3> QED BY <1>0, <3>1, EmittedOnce
  <2> QED BY <1>5, <2>1 DEF TakenEvents
<1> HIDE DEF e
<1>8. Holding' = Holding \cup {w} /\ w \notin Holding
  BY <1>1, <1>2 DEF Holding
<1>9. InHand' = InHand \cup {e}
  <2>1. \A v \in Holding : hand'[v] = hand[v]
    BY <1>2, <1>8 DEF Holding
  <2> QED BY <1>2, <1>8, <2>1 DEF InHand
<1>10. TypeOK'
  <2>1. /\ at' \in [Watchers -> {"absent", "waiting", "holding", "ended"}]
        /\ hand' \in [Watchers -> Event]
    BY <1>0, <1>1, <1>3, TypesOne
  <2> QED BY <1>0, <1>1, <1>3, <2>1, TypesOne, TypesOneAfter
<1>11. NobodyEarly'
  BY <1>0, <1>1, <1>2 DEF NobodyEarly
<1>12. SinkIsRest'
  <2>1. ASSUME NEW i \in 1..(Len(sink) - 1)
        PROVE  sink'[i] = emitted'[Taken' + i]
    <3>1. i + 1 \in 1..Len(sink) /\ Taken' + i = Taken + (i + 1)
      BY <1>3, <1>4
    <3> QED BY <1>0, <1>1, <1>3, <3>1 DEF SinkIsRest
  <2>2. Len(sink') <= Len(emitted')
    BY <1>0, <1>1, <1>3 DEF SinkIsRest
  <2> QED BY <1>3, <2>1, <2>2 DEF SinkIsRest
<1>13. TakenIsKept'
  <2>1. e \notin ToSet(replay) /\ e \notin InHand
    BY <1>0, <1>7 DEF TakenIsKept
  <2>2. \A u, v \in Holding' : hand'[u] = hand'[v] => u = v
    <3>1. \A v \in Holding : hand'[v] = hand[v] /\ hand[v] \in InHand
      BY <1>2, <1>8 DEF Holding, InHand
    <3> QED BY <1>0, <1>2, <1>8, <2>1, <3>1 DEF TakenIsKept
  <2> QED BY <1>0, <1>1, <1>6, <1>9, <2>1, <2>2 DEF TakenIsKept
<1>14. SentIsKept'
  <2>1. \A v \in Watchers : (Told(v)' <=> Told(v)) /\ (Ends(v)' <=> Ends(v))
    BY <1>1 DEF Told, Ends
  <2>2. ASSUME NEW v \in Watchers, Told(v)
        PROVE  Ends(v) /\ at'[v] = "ended" /\ Sentinel \in TakenEvents' \ InHand'
    <3>1. Ends(v) /\ at[v] = "ended" /\ Sentinel \in TakenEvents \ InHand
      BY <1>0, <2>2 DEF SentIsKept
    <3>2. v # w /\ Sentinel # e
      BY <1>1, <1>7, <3>1
    <3> QED BY <1>2, <1>6, <1>9, <3>1, <3>2
  <2>3. \A v \in Watchers : at'[v] = "absent" => at[v] = "absent"
    BY <1>2
  <2> QED BY <1>0, <1>1, <2>1, <2>2, <2>3 DEF SentIsKept
<1>15. AloneIsSentAll'
  <2>1. /\ \A v \in Watchers : Alone(v)' => v = w
        /\ ~ \A v \in Watchers : at'[v] = "absent"
    BY <1>2, NotAlone
  <2>2. Alone(w)' => Alone(w)
    BY <1>2 DEF Alone
  <2>3. Alone(w) /\ ~gone[w] =>
          /\ Len(received[w]) = Taken
          /\ \A i \in 1..Len(received[w]) : received[w][i] = emitted[i]
    BY <1>0, <1>1 DEF AloneIsSentAll, UpTo
  <2>4. UpTo(w)' = Taken
    BY <1>2, <1>4 DEF UpTo
  <2>5. hand'[w] = emitted'[Taken']
    BY <1>1, <1>2, <1>4, <1>5
  <2> QED BY <1>1, <2>1, <2>2, <2>3, <2>4, <2>5 DEF AloneIsSentAll
<1> QED BY <1>1, <1>10, <1>11, <1>12, <1>13, <1>14, <1>15, DrainsEmitNothing DEF IInv

(* What is delivered goes from the hand to the replay and to the client. *)
LEMMA DeliverStep ==
  ASSUME IInv, NEW w \in Watchers, Deliver(w)
  PROVE  IInv'
<1> DEFINE e == hand[w]
<1>0. /\ TypeOK /\ NobodyEarly /\ SinkIsRest /\ TakenIsKept /\ SentIsKept /\ AloneIsSentAll
  BY DEF IInv
<1>1. /\ UNCHANGED <<thread, emitted, sink, gone>>
      /\ at[w] = "holding"
      /\ replay' = IF e = Sentinel THEN replay ELSE Append(replay, e)
      /\ received' = [received EXCEPT ![w] = IF gone[w] THEN @ ELSE Append(@, e)]
      /\ at' = [at EXCEPT ![w] = IF e = Sentinel \/ gone[w] THEN "ended" ELSE "waiting"]
      /\ hand' = [hand EXCEPT ![w] = Sentinel]
  BY DEF Deliver, Sent
<1>2. /\ at'[w] = (IF e = Sentinel \/ gone[w] THEN "ended" ELSE "waiting")
      /\ hand'[w] = Sentinel
      /\ received'[w] = (IF gone[w] THEN received[w] ELSE Append(received[w], e))
      /\ \A v \in Watchers \ {w} :
           at'[v] = at[v] /\ hand'[v] = hand[v] /\ received'[v] = received[v]
  BY <1>0, <1>1, TypesOne
<1>3. e \in Event /\ replay \in Seq(Event) /\ received[w] \in Seq(Event)
  BY <1>0, TypesOne
<1>4. w \in Holding /\ e \in InHand
  BY <1>1 DEF Holding, InHand
<1> HIDE DEF e
<1>5. Taken' = Taken /\ TakenEvents' = TakenEvents /\ SinkIsRest'
  BY <1>0, <1>1 DEF Taken, TakenEvents, SinkIsRest
<1>6. Holding' = Holding \ {w}
  BY <1>1, <1>2 DEF Holding
<1>7. InHand' = InHand \ {e}
  <2>1. \A v \in Holding \ {w} : hand'[v] = hand[v] /\ hand[v] # e
    BY <1>0, <1>2, <1>4 DEF Holding, TakenIsKept, e
  <2>2. InHand' = {hand[v] : v \in Holding \ {w}}
    BY <1>6, <2>1 DEF InHand
  <2> QED BY <2>1, <2>2 DEF InHand, e
<1>8. e \notin ToSet(replay)
  BY <1>0, <1>4 DEF TakenIsKept
<1>9. /\ replay' \in Seq(Event) /\ IsInjective(replay') /\ Sentinel \notin ToSet(replay')
      /\ ToSet(replay') = ToSet(replay) \cup ({e} \ {Sentinel})
  BY <1>0, <1>1, <1>3, <1>8, AppendFacts DEF TakenIsKept
<1>10. TypeOK'
  <2>1. Append(received[w], e) \in Seq(Event)
    BY <1>3, AppendFacts
  <2>2. /\ at' \in [Watchers -> {"absent", "waiting", "holding", "ended"}]
        /\ hand' \in [Watchers -> Event]
        /\ received' \in [Watchers -> Seq(Event)]
    BY <1>0, <1>1, <2>1, TypesOne, SentinelIsEvent
  <2> QED BY <1>0, <1>1, <1>9, <2>2, TypesOne, TypesOneAfter
<1>11. NobodyEarly'
  BY <1>0, <1>1, <1>2 DEF NobodyEarly
<1>12. TakenIsKept'
  <2>1. \A u, v \in Holding' : hand'[u] = hand'[v] => u = v
    BY <1>0, <1>2, <1>6 DEF Holding, TakenIsKept
  <2> QED BY <1>0, <1>4, <1>5, <1>7, <1>8, <1>9, <2>1 DEF TakenIsKept
<1>13. ~Told(w) /\ e \notin ToSet(received[w])
  <2>1. ~Told(w)
    BY <1>0, <1>1 DEF SentIsKept
  <2> QED BY <1>0, <1>8, <2>1 DEF SentIsKept, Told
<1>14. SentIsKept'
  <2>1. ASSUME NEW v \in Watchers \ {w}
        PROVE  /\ (Told(v)' <=> Told(v)) /\ (Ends(v)' <=> Ends(v))
               /\ at'[v] = at[v] /\ received'[v] = received[v]
    BY <1>2 DEF Told, Ends
  <2>2. /\ IsInjective(received'[w])
        /\ ToSet(received'[w]) \ {Sentinel} \subseteq ToSet(replay')
        /\ gone'[w] => received'[w] = <<>>
        /\ at'[w] # "absent"
    BY <1>0, <1>1, <1>2, <1>3, <1>9, <1>13, AppendFacts DEF SentIsKept
  <2>3. ASSUME Told(w)'
        PROVE  /\ Ends(w)' /\ at'[w] = "ended" /\ e = Sentinel
               /\ Sentinel \in TakenEvents' \ InHand'
    <3>1. ~gone[w] /\ e = Sentinel
      BY <1>2, <1>3, <1>13, <2>3, AppendFacts DEF Told
    <3>2. received'[w] = Append(received[w], e) /\ received'[w] # <<>>
      BY <1>2, <1>3, <3>1
    <3>3. Ends(w)'
      BY <1>3, <3>1, <3>2, AppendFacts DEF Ends
    <3> QED BY <1>0, <1>2, <1>4, <1>5, <1>7, <3>1, <3>3 DEF TakenIsKept
  <2>4. ASSUME NEW v \in Watchers \ {w}, Told(v)
        PROVE  /\ Ends(v) /\ at[v] = "ended" /\ Sentinel \in TakenEvents' \ InHand'
               /\ e # Sentinel
    <3>1. Ends(v) /\ at[v] = "ended" /\ Sentinel \in TakenEvents \ InHand
      BY <1>0, <2>4 DEF SentIsKept
    <3> QED BY <1>4, <1>5, <1>7, <3>1
  <2>5. \A u, v \in Watchers : Told(u)' /\ Told(v)' => u = v
    BY <1>0, <2>1, <2>3, <2>4 DEF SentIsKept
  <2>6. \A v \in Watchers \ {w} :
          /\ IsInjective(received'[v])
          /\ ToSet(received'[v]) \ {Sentinel} \subseteq ToSet(replay')
          /\ gone'[v] \/ at'[v] = "absent" => received'[v] = <<>>
          /\ Told(v)' => Ends(v)' /\ at'[v] = "ended" /\ Sentinel \in TakenEvents' \ InHand'
    BY <1>0, <1>1, <1>9, <2>1, <2>4 DEF SentIsKept
  <2> QED BY <2>2, <2>3, <2>5, <2>6 DEF SentIsKept
<1>15. AloneIsSentAll'
  <2>1. at'[w] # "absent" /\ at'[w] # "holding"
    BY <1>2
  <2>2. /\ \A v \in Watchers : Alone(v)' => v = w
        /\ ~ \A v \in Watchers : at'[v] = "absent"
    BY <2>1, NotAlone
  <2>3. Alone(w)' => Alone(w)
    BY <1>2 DEF Alone
  <2>4. ASSUME Alone(w), ~gone[w]
        PROVE  /\ Len(received'[w]) = Taken
               /\ \A i \in 1..Len(received'[w]) : received'[w][i] = emitted[i]
    <3>1. /\ Len(received[w]) = Taken - 1
          /\ \A i \in 1..Len(received[w]) : received[w][i] = emitted[i]
          /\ e = emitted[Taken]
      BY <1>0, <1>1, <2>4 DEF AloneIsSentAll, UpTo, e
    <3>2. Taken \in Int /\ Len(received[w]) \in Nat
      BY <1>0, <1>3, TypesOne DEF Taken
    <3>3. /\ received'[w] = Append(received[w], e)
          /\ Len(received'[w]) = Len(received[w]) + 1
          /\ \A i \in 1..Len(received[w]) : received'[w][i] = received[w][i]
          /\ received'[w][Len(received[w]) + 1] = e
      BY <1>2, <1>3, <2>4, AppendFacts
    <3>4. Len(received[w]) + 1 = Taken
      BY <3>1, <3>2
    <3>5. \A i \in 1..Taken : i \in 1..Len(received[w]) \/ i = Taken
      BY <3>2, <3>4
    <3> QED BY <3>1, <3>3, <3>4, <3>5
  <2>5. UpTo(w)' = Taken
    BY <1>5, <2>1 DEF UpTo
  <2> QED BY <1>1, <2>1, <2>2, <2>3, <2>4, <2>5 DEF AloneIsSentAll
<1> QED BY <1>1, <1>5, <1>10, <1>11, <1>12, <1>14, <1>15, DrainsEmitNothing DEF IInv

(* A client that leaves takes nothing with it but what it was sent. *)
LEMMA DropStep ==
  ASSUME IInv, NEW w \in Watchers, Drop(w)
  PROVE  IInv'
<1>0. /\ TypeOK /\ NobodyEarly /\ SinkIsRest /\ TakenIsKept /\ SentIsKept /\ AloneIsSentAll
  BY DEF IInv
<1>1. /\ UNCHANGED <<thread, emitted, sink, replay, at, hand>>
      /\ at[w] # "absent"
      /\ gone' = [gone EXCEPT ![w] = TRUE]
      /\ received' = [received EXCEPT ![w] = <<>>]
  BY DEF Drop, session
<1>2. /\ gone'[w] = TRUE /\ received'[w] = <<>>
      /\ \A v \in Watchers \ {w} : gone'[v] = gone[v] /\ received'[v] = received[v]
  BY <1>0, <1>1, TypesOne
<1>3. TypeOK'
  <2>1. gone' \in [Watchers -> BOOLEAN] /\ received' \in [Watchers -> Seq(Event)]
    BY <1>0, <1>1, TypesOne, EmptyFacts
  <2> QED BY <1>0, <1>1, <2>1, TypesOne, TypesOneAfter
<1>4. /\ Taken' = Taken /\ TakenEvents' = TakenEvents
      /\ Holding' = Holding /\ InHand' = InHand
      /\ \A v : (Alone(v)' <=> Alone(v)) /\ UpTo(v)' = UpTo(v)
  BY <1>1 DEF Taken, TakenEvents, Holding, InHand, Alone, UpTo
<1>5. SinkIsRest' /\ TakenIsKept'
  BY <1>0, <1>1, <1>4 DEF SinkIsRest, TakenIsKept
<1>6. NobodyEarly'
  BY <1>0, <1>1, <1>2 DEF NobodyEarly
<1>7. SentIsKept'
  <2>1. ~Told(w)' /\ IsInjective(received'[w]) /\ ToSet(received'[w]) = {}
    BY <1>2, EmptyFacts DEF Told
  <2>2. \A v \in Watchers \ {w} : (Told(v)' <=> Told(v)) /\ (Ends(v)' <=> Ends(v))
    BY <1>2 DEF Told, Ends
  <2>3. \A v \in Watchers \ {w} :
          /\ IsInjective(received'[v])
          /\ ToSet(received'[v]) \ {Sentinel} \subseteq ToSet(replay')
          /\ gone'[v] \/ at'[v] = "absent" => received'[v] = <<>>
          /\ Told(v)' => Ends(v)' /\ at'[v] = "ended" /\ Sentinel \in TakenEvents' \ InHand'
    BY <1>0, <1>1, <1>2, <1>4, <2>2 DEF SentIsKept
  <2>4. \A u, v \in Watchers : Told(u)' /\ Told(v)' => u = v
    BY <1>0, <2>1, <2>2 DEF SentIsKept
  <2> QED BY <1>2, <2>1, <2>3, <2>4 DEF SentIsKept
<1>8. AloneIsSentAll'
  BY <1>0, <1>1, <1>2, <1>4 DEF AloneIsSentAll
<1> QED BY <1>1, <1>3, <1>5, <1>6, <1>7, <1>8, DrainsEmitNothing DEF IInv

(* An abandoned drain that waited holds nothing. *)
LEMMA AbandonStep ==
  ASSUME IInv, NEW w \in Watchers, Abandon(w)
  PROVE  IInv'
<1>0. /\ TypeOK /\ NobodyEarly /\ SinkIsRest /\ TakenIsKept /\ SentIsKept /\ AloneIsSentAll
  BY DEF IInv
<1>1. /\ UNCHANGED <<thread, emitted, sink, replay, hand, gone, received>>
      /\ at[w] = "waiting" /\ gone[w]
      /\ at' = [at EXCEPT ![w] = "ended"]
  BY DEF Abandon, session
<1>2. at'[w] = "ended" /\ \A v \in Watchers \ {w} : at'[v] = at[v]
  BY <1>0, <1>1, TypesOne
<1>3. TypeOK'
  <2>1. at' \in [Watchers -> {"absent", "waiting", "holding", "ended"}]
    BY <1>0, <1>1, TypesOne
  <2> QED BY <1>0, <1>1, <2>1, TypesOne, TypesOneAfter
<1>4. Taken' = Taken /\ TakenEvents' = TakenEvents
  BY <1>1 DEF Taken, TakenEvents
<1>5. Holding' = Holding
  BY <1>1, <1>2 DEF Holding
<1>6. InHand' = InHand
  BY <1>1, <1>5 DEF InHand
<1>7. SinkIsRest' /\ TakenIsKept'
  BY <1>0, <1>1, <1>4, <1>5, <1>6 DEF SinkIsRest, TakenIsKept
<1>8. NobodyEarly'
  BY <1>0, <1>1, <1>2 DEF NobodyEarly
<1>9. SentIsKept'
  <2>1. \A v \in Watchers : (Told(v)' <=> Told(v)) /\ (Ends(v)' <=> Ends(v))
    BY <1>1 DEF Told, Ends
  <2>2. \A v \in Watchers :
          /\ at'[v] = "absent" => at[v] = "absent"
          /\ at[v] = "ended" => at'[v] = "ended"
    BY <1>1, <1>2
  <2> QED BY <1>0, <1>1, <1>4, <1>6, <2>1, <2>2 DEF SentIsKept
<1>10. AloneIsSentAll'
  <2>1. /\ \A v \in Watchers : Alone(v)' => v = w
        /\ ~ \A v \in Watchers : at'[v] = "absent"
    BY <1>2, NotAlone
  <2> QED BY <1>1, <2>1 DEF AloneIsSentAll
<1> QED BY <1>1, <1>3, <1>7, <1>8, <1>9, <1>10, DrainsEmitNothing DEF IInv

(***************************************************************************)
(* The theorems                                                            *)
(***************************************************************************)

(* The invariant holds to begin with. *)
LEMMA InvInit == Init => IInv
<1> SUFFICES ASSUME Init
             PROVE  IInv
  OBVIOUS
<1>1. /\ thread = "absent" /\ emitted = <<>> /\ sink = <<>> /\ replay = <<>>
      /\ \A w \in Watchers : at[w] = "absent" /\ ~gone[w] /\ received[w] = <<>>
      /\ at \in [Watchers -> {"absent", "waiting", "holding", "ended"}]
      /\ hand \in [Watchers -> Event]
      /\ gone \in [Watchers -> BOOLEAN]
      /\ received \in [Watchers -> Seq(Event)]
  BY SentinelIsEvent, EmptyFacts DEF Init
<1>2. TypeOK
  BY <1>1, TypesOne, EmptyFacts
<1>3. Taken = 0 /\ TakenEvents = {} /\ Holding = {} /\ InHand = {}
  BY <1>1, EmptyFacts DEF Taken, TakenEvents, Holding, InHand
<1>4. NobodyEarly /\ EmittedInOrder /\ SentinelCloses /\ SinkIsRest
  BY <1>1, EmptyFacts DEF NobodyEarly, EmittedInOrder, SentinelCloses, SinkIsRest
<1>5. TakenIsKept
  BY <1>1, <1>3, EmptyFacts DEF TakenIsKept
<1>6. \A w \in Watchers : ~Told(w)
  BY <1>1, EmptyFacts DEF Told
<1>7. SentIsKept
  BY <1>1, <1>6, EmptyFacts DEF SentIsKept
<1>8. AloneIsSentAll
  BY <1>1, <1>3 DEF AloneIsSentAll
<1> QED BY <1>2, <1>4, <1>5, <1>7, <1>8 DEF IInv

(* A stuttering step changes nothing. *)
LEMMA StutterStep == ASSUME IInv, UNCHANGED vars PROVE IInv'
<1>1. UNCHANGED <<thread, emitted, sink, replay, at, hand, gone, received>>
  BY DEF vars, session, drains
<1>2. /\ Taken' = Taken /\ TakenEvents' = TakenEvents
      /\ Holding' = Holding /\ InHand' = InHand
      /\ \A w : (Alone(w)' <=> Alone(w)) /\ UpTo(w)' = UpTo(w)
  BY <1>1 DEF Taken, TakenEvents, Holding, InHand, Alone, UpTo
<1>3. TypeOK' /\ NobodyEarly' /\ SinkIsRest'
  BY <1>1, <1>2, TypesOne, TypesOneAfter DEF IInv, NobodyEarly, SinkIsRest
<1>4. TakenIsKept'
  BY <1>1, <1>2 DEF IInv, TakenIsKept
<1>5. SentIsKept'
  BY <1>1, <1>2 DEF IInv, SentIsKept, Told, Ends
<1>6. AloneIsSentAll'
  BY <1>1, <1>2 DEF IInv, AloneIsSentAll
<1> QED BY <1>1, <1>3, <1>4, <1>5, <1>6, DrainsEmitNothing DEF IInv

(* Every step keeps the invariant. *)
LEMMA InvStep == IInv /\ [Next]_vars => IInv'
BY EngineStep, ConnectStep, TakeStep, DeliverStep, DropStep, AbandonStep, StutterStep
   DEF Next, Drain

(* IInv is an invariant of a run and its watchers. *)
THEOREM Invariance == Spec => []IInv
BY InvInit, InvStep, PTL DEF Spec

(* Every variable keeps its type. *)
THEOREM TypeCorrect == Spec => []TypeOK
<1>1. IInv => TypeOK
  BY DEF IInv
<1> QED BY <1>1, Invariance, PTL

(* However many watch and leave, every event emitted is in the sink, in one *)
(* hand or in the replay, and once: _drain and the thread of begin.         *)
THEOREM NoEventIsLost == Spec => []EventsConserved
<1>1. IInv => EventsConserved
  <2> SUFFICES ASSUME IInv
               PROVE  EventsConserved
    OBVIOUS
  <2>0. TypeOK /\ EmittedInOrder /\ SinkIsRest /\ TakenIsKept
    BY DEF IInv
  <2>1. /\ emitted \in Seq(Event) /\ sink \in Seq(Event)
        /\ Len(emitted) \in Nat /\ Len(sink) \in Nat
        /\ DOMAIN emitted = 1..Len(emitted) /\ DOMAIN sink = 1..Len(sink)
    BY <2>0, TypesOne
  <2>2. Taken \in Nat /\ Taken + Len(sink) = Len(emitted)
    BY <2>0, <2>1 DEF Taken, SinkIsRest
  <2>3. ToSet(sink) = {emitted[i] : i \in (Taken + 1)..Len(emitted)}
    <3>1. \A i \in 1..Len(sink) :
            sink[i] = emitted[Taken + i] /\ Taken + i \in (Taken + 1)..Len(emitted)
      BY <2>0, <2>1, <2>2 DEF SinkIsRest
    <3>2. \A j \in (Taken + 1)..Len(emitted) : j - Taken \in 1..Len(sink) /\ Taken + (j - Taken) = j
      BY <2>1, <2>2
    <3> QED BY <2>1, <3>1, <3>2 DEF ToSet
  <2>4. ToSet(emitted) = TakenEvents \cup ToSet(sink)
    <3>1. 1..Len(emitted) = 1..Taken \cup (Taken + 1)..Len(emitted)
      BY <2>1, <2>2
    <3> QED BY <2>1, <2>3, <3>1 DEF ToSet, TakenEvents
  <2>5. TakenEvents \cap ToSet(sink) = {}
    <3>1. ASSUME NEW i \in 1..Taken, NEW j \in (Taken + 1)..Len(emitted)
          PROVE  emitted[i] # emitted[j]
      <4>1. i \in 1..Len(emitted) /\ j \in 1..Len(emitted) /\ i # j
        BY <2>1, <2>2
      <4> QED BY <2>0, <4>1, EmittedOnce
    <3> QED BY <2>3, <3>1 DEF TakenEvents
  <2> QED BY <2>0, <2>4, <2>5 DEF EventsConserved, TakenIsKept
<1> QED BY <1>1, Invariance, PTL

(* No client is sent an event twice, and one at most is told that the       *)
(* stream ends, after all it is sent: the replay and the sink of _drain.    *)
THEOREM NothingIsSentTwice == Spec => []SentOnce
<1>1. IInv => SentOnce
  <2> SUFFICES ASSUME IInv
               PROVE  SentOnce
    OBVIOUS
  <2>0. TypeOK /\ SentIsKept
    BY DEF IInv
  <2>1. ASSUME NEW w \in Watchers, Ends(w)
        PROVE  Told(w)
    <3>1. received[w] \in Seq(Event) /\ received[w] # <<>>
      BY <2>0, <2>1, TypesOne DEF Ends
    <3>2. Len(received[w]) \in DOMAIN received[w] /\ received[w][Len(received[w])] = Sentinel
      BY <2>1, <3>1 DEF Ends, Last
    <3> QED BY <3>2 DEF Told, ToSet
  <2> QED BY <2>0, <2>1 DEF SentOnce, SentIsKept, Told
<1> QED BY <1>1, Invariance, PTL

(* A client that watches alone is sent every event, in the order in which   *)
(* the orchestrator emitted them, the last before it is told of the end.    *)
THEOREM TheOnlyClientSeesAll == Spec => []SoleWatcherSeesAll
<1>1. IInv => SoleWatcherSeesAll
  <2> SUFFICES ASSUME IInv, NEW w \in Watchers, Alone(w)
               PROVE  /\ IsPrefix(received[w], emitted)
                      /\ Ends(w) => received[w] = emitted
    BY DEF SoleWatcherSeesAll
  <2>0. TypeOK /\ SentinelCloses /\ SinkIsRest /\ SentIsKept /\ AloneIsSentAll
    BY DEF IInv
  <2>1. /\ emitted \in Seq(Event) /\ received[w] \in Seq(Event) /\ sink \in Seq(Event)
        /\ Len(emitted) \in Nat /\ Len(received[w]) \in Nat /\ Len(sink) \in Nat
    BY <2>0, TypesOne
  <2>2. /\ Len(received[w]) <= Len(emitted)
        /\ \A i \in 1..Len(received[w]) : received[w][i] = emitted[i]
    <3>1. CASE gone[w] \/ at[w] = "absent"
      BY <2>0, <2>1, <3>1, EmptyFacts DEF SentIsKept
    <3>2. CASE ~gone[w] /\ at[w] # "absent"
      <4>1. /\ Len(received[w]) = UpTo(w)
            /\ \A i \in 1..Len(received[w]) : received[w][i] = emitted[i]
        BY <2>0, <3>2 DEF AloneIsSentAll
      <4>2. UpTo(w) <= Len(emitted)
        BY <2>0, <2>1 DEF UpTo, Taken, SinkIsRest
      <4> QED BY <4>1, <4>2
    <3> QED BY <3>1, <3>2
  <2>3. IsPrefix(received[w], emitted)
    BY <2>1, <2>2 DEF IsPrefix
  <2>4. ASSUME Ends(w)
        PROVE  received[w] = emitted
    <3>1. received[w] # <<>> /\ received[w][Len(received[w])] = Sentinel
      BY <2>4 DEF Ends, Last
    <3>2. Len(received[w]) \in 1..Len(received[w]) /\ Len(received[w]) \in 1..Len(emitted)
      BY <2>1, <2>2, <3>1
    <3>3. Len(received[w]) = Len(emitted)
      BY <2>0, <2>2, <3>1, <3>2 DEF SentinelCloses
    <3> QED BY <2>1, <2>2, <3>3
  <2> QED BY <2>3, <2>4
<1> QED BY <1>1, Invariance, PTL
=============================================================================
