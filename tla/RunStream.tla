----------------------------- MODULE RunStream -----------------------------
(***************************************************************************)
(* One run of the web server (web/server.py): a thread drives the          *)
(* orchestrator and puts its events into the session's sink; every request *)
(* that watches the run is a drain, a generator that first sends what the  *)
(* session's replay holds and then takes events from the sink.             *)
(*                                                                         *)
(* Of an event the model keeps its kind and its turn.  The engine is the   *)
(* order in which _execute (core/orchestrator.py) calls StreamEvents.      *)
(*                                                                         *)
(* A client that disconnects does not interrupt its drain: the server's    *)
(* framework runs the generator in a worker thread and abandons it when    *)
(* the call under way returns, so that a drain blocked in sink.get still   *)
(* takes one event, or waits until its timeout.                            *)
(*                                                                         *)
(* Left out: keepalive comments (steps that change nothing but time),      *)
(* session.done (written, never read), and the table of runs.              *)
(***************************************************************************)
EXTENDS Naturals, Sequences, SequencesExt

CONSTANTS
  NumTurns,       \* assignments of the run
  Watchers        \* bound: requests that ever watch it

ASSUME TurnAssumption == NumTurns \in Nat

Kinds == {"run_started", "handoff", "worker_started", "worker_completed", "reconciled",
          "worker_failed", "run_finished", "run_error", "SENTINEL"}
Event == [kind : Kinds, turn : 0..NumTurns]
Ev(kind, turn) == [kind |-> kind, turn |-> turn]
Sentinel == Ev("SENTINEL", 0)

VARIABLES
  thread,     \* the run's thread: absent, opening, running, closed or dead
  emitted,    \* what it has put into the sink so far, in order
  sink,       \* session.sink
  replay,     \* session.replay
  at,         \* where each watcher's drain stands
  hand,       \* the event it has taken and not yet recorded, else the sentinel
  gone,       \* its client has disconnected
  received    \* what its client was sent, forgotten when it is gone

session == <<sink, replay>>
drains == <<at, hand, gone, received>>
vars == <<thread, emitted, session, drains>>

Init ==
  /\ thread = "absent"
  /\ emitted = <<>> /\ sink = <<>> /\ replay = <<>>
  /\ at = [w \in Watchers |-> "absent"]
  /\ hand = [w \in Watchers |-> Sentinel]
  /\ gone = [w \in Watchers |-> FALSE]
  /\ received = [w \in Watchers |-> <<>>]

(***************************************************************************)
(* The thread                                                              *)
(***************************************************************************)

(* begin registers the session and starts the thread. *)
Begin ==
  /\ thread = "absent"
  /\ thread' = "opening"
  /\ UNCHANGED <<emitted, session, drains>>

(* SQLiteStore(db) is outside the try: if it raises, the thread just ends. *)
OpenStore ==
  /\ thread = "opening"
  /\ thread' \in {"running", "dead"}
  /\ UNCHANGED <<emitted, session, drains>>

Put(event) ==
  /\ emitted' = Append(emitted, event)
  /\ sink' = Append(sink, event)

Completed == \E i \in DOMAIN emitted : emitted[i].kind = "worker_completed"

(* Deviation: one turn too many. *)
OpeningOfOneMore(t) ==
  IF t > NumTurns + 1 THEN Ev("run_finished", 0)
  ELSE IF Completed THEN Ev("handoff", t)
  ELSE Ev("worker_started", t)

(* The first event of turn t, after those of the turns before it. *)
OpeningOf(t) ==
  IF t > NumTurns THEN Ev("run_finished", 0)
  ELSE IF Completed THEN Ev("handoff", t)
  ELSE Ev("worker_started", t)

(* What _execute emits after the events so far. *)
NextEvents ==
  IF emitted = <<>> THEN {Ev("run_started", 0)}
  ELSE LET last == Last(emitted) IN
    CASE last.kind = "run_started" -> {OpeningOf(1)}
      [] last.kind = "handoff" -> {Ev("worker_started", last.turn)}
      [] last.kind = "worker_started" ->
           {Ev("worker_completed", last.turn), Ev("worker_failed", last.turn)}
      [] last.kind = "worker_completed" -> {Ev("reconciled", last.turn)}
      [] last.kind \in {"reconciled", "worker_failed"} -> {OpeningOf(last.turn + 1)}
      [] OTHER -> {}

Emit ==
  /\ thread = "running"
  /\ \E event \in NextEvents : Put(event)
  /\ UNCHANGED <<thread, replay, drains>>

(* Deviation: an exception ends the thread and tells nobody. *)
FailSilently ==
  /\ thread = "running"
  /\ NextEvents # {}
  /\ thread' = "closed"
  /\ UNCHANGED <<emitted, session, drains>>

(* An exception of the orchestrator is put into the sink as an event. *)
Fail ==
  /\ thread = "running"
  /\ NextEvents # {}
  /\ Put(Ev("run_error", 0))
  /\ UNCHANGED <<thread, replay, drains>>

(* run_finished and run_error are followed by the sentinel, the last put. *)
Close ==
  /\ thread = "running"
  /\ emitted # <<>> /\ Last(emitted).kind \in {"run_finished", "run_error"}
  /\ Put(Sentinel)
  /\ thread' = "closed"
  /\ UNCHANGED <<replay, drains>>

(***************************************************************************)
(* The drains                                                              *)
(***************************************************************************)

(* Deviation: what is still in the sink is copied too. *)
ConnectCopyingSink(w) ==
  /\ thread # "absent"
  /\ at[w] = "absent"
  /\ at' = [at EXCEPT ![w] = "waiting"]
  /\ received' = [received EXCEPT ![w] = replay \o sink]
  /\ UNCHANGED <<thread, emitted, session, hand, gone>>

(* A watching request: the drain sends what the replay holds, then waits. It *)
(* copies the replay as it starts and nobody else touches the copy, so that  *)
(* its sending is one step.                                                  *)
Connect(w) ==
  /\ thread # "absent"
  /\ at[w] = "absent"
  /\ at' = [at EXCEPT ![w] = "waiting"]
  /\ received' = [received EXCEPT ![w] = replay]
  /\ UNCHANGED <<thread, emitted, session, hand, gone>>

(* Deviation: the newest event is taken first. *)
TakeNewest(w) ==
  /\ at[w] = "waiting"
  /\ sink # <<>>
  /\ hand' = [hand EXCEPT ![w] = Last(sink)]
  /\ sink' = Front(sink)
  /\ at' = [at EXCEPT ![w] = "holding"]
  /\ UNCHANGED <<thread, emitted, replay, gone, received>>

(* sink.get *)
Take(w) ==
  /\ at[w] = "waiting"
  /\ sink # <<>>
  /\ hand' = [hand EXCEPT ![w] = Head(sink)]
  /\ sink' = Tail(sink)
  /\ at' = [at EXCEPT ![w] = "holding"]
  /\ UNCHANGED <<thread, emitted, replay, gone, received>>

Sent(w) == received' = [received EXCEPT ![w] = IF gone[w] THEN @ ELSE Append(@, hand[w])]

(* Deviation: what was sent is not kept. *)
DeliverUnrecorded(w) ==
  /\ at[w] = "holding"
  /\ Sent(w)
  /\ at' = [at EXCEPT ![w] = IF hand[w] = Sentinel \/ gone[w] THEN "ended" ELSE "waiting"]
  /\ hand' = [hand EXCEPT ![w] = Sentinel]
  /\ UNCHANGED <<thread, emitted, session, gone>>

(* The event taken is recorded in the replay and sent; the sentinel is sent *)
(* as stream_end and ends the drain, an abandoned drain ends with any event. *)
Deliver(w) ==
  /\ at[w] = "holding"
  /\ replay' = IF hand[w] = Sentinel THEN replay ELSE Append(replay, hand[w])
  /\ Sent(w)
  /\ at' = [at EXCEPT ![w] = IF hand[w] = Sentinel \/ gone[w] THEN "ended" ELSE "waiting"]
  /\ hand' = [hand EXCEPT ![w] = Sentinel]
  /\ UNCHANGED <<thread, emitted, sink, gone>>

(* The client disconnects. *)
Drop(w) ==
  /\ at[w] \in {"waiting", "holding"}
  /\ ~gone[w]
  /\ gone' = [gone EXCEPT ![w] = TRUE]
  /\ received' = [received EXCEPT ![w] = <<>>]
  /\ UNCHANGED <<thread, emitted, session, at, hand>>

(* An abandoned drain reaches the timeout of its sink.get. *)
Abandon(w) ==
  /\ at[w] = "waiting"
  /\ gone[w]
  /\ at' = [at EXCEPT ![w] = "ended"]
  /\ UNCHANGED <<thread, emitted, session, hand, gone, received>>

Engine == OpenStore \/ Emit \/ Fail \/ Close
Drain(w) == Take(w) \/ Deliver(w) \/ Abandon(w)

Next ==
  \/ Begin
  \/ Engine
  \/ \E w \in Watchers : Connect(w) \/ Drain(w) \/ Drop(w)

Spec == Init /\ [][Next]_vars

(* The thread and the drains are run; nobody has to watch or to disconnect. *)
FairSpec ==
  /\ Spec
  /\ WF_vars(Engine)
  /\ \A w \in Watchers : WF_vars(Drain(w))

(***************************************************************************)
(* Properties                                                              *)
(***************************************************************************)

(* Every variable has its type. *)
TypeOK ==
  /\ thread \in {"absent", "opening", "running", "closed", "dead"}
  /\ {emitted, sink, replay} \subseteq Seq(Event)
  /\ at \in [Watchers -> {"absent", "waiting", "holding", "ended"}]
  /\ hand \in [Watchers -> Event]
  /\ gone \in [Watchers -> BOOLEAN]
  /\ received \in [Watchers -> Seq(Event)]

Holding == {w \in Watchers : at[w] = "holding"}
InHand == {hand[w] : w \in Holding}

(* However many watch and leave, no event is lost to all of them: each one  *)
(* emitted is in the sink, in the hand of one drain or in the replay, and   *)
(* in one of these only; the sentinel alone leaves them.                    *)
EventsConserved ==
  /\ ToSet(emitted) \ {Sentinel} = (ToSet(sink) \cup InHand \cup ToSet(replay)) \ {Sentinel}
  /\ ToSet(sink) \cap (InHand \cup ToSet(replay)) = {}
  /\ InHand \cap ToSet(replay) = {}
  /\ \A v, w \in Holding : hand[v] = hand[w] => v = w
  /\ IsInjective(replay)

(* No client is sent an event twice, replay and sink together, and at most  *)
(* one is told that the stream ends, after all it is ever sent.             *)
Ends(w) == received[w] # <<>> /\ Last(received[w]) = Sentinel
SentOnce ==
  /\ \A w \in Watchers : IsInjective(received[w])
  /\ \A v, w \in Watchers : Ends(v) /\ Ends(w) => v = w
  /\ \A w \in Watchers : Sentinel \in ToSet(received[w]) => Ends(w) /\ at[w] = "ended"

(* The only client of a run sees every event, in the order of emission.     *)
Alone(w) == \A v \in Watchers \ {w} : at[v] = "absent"
SoleWatcherSeesAll ==
  \A w \in Watchers :
    Alone(w) => IsPrefix(received[w], emitted) /\ (Ends(w) => received[w] = emitted)

(* The only client of a run that stays is told how the run ended, whatever  *)
(* the orchestrator does: the stream hangs only if the store never opened.  *)
StreamEnds ==
  \A w \in Watchers :
    at[w] # "absent" ~> (Ends(w) \/ gone[w] \/ ~Alone(w) \/ thread = "dead")
=============================================================================
