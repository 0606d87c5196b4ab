------------------------------ MODULE RunPage ------------------------------
(***************************************************************************)
(* The playground page while it starts runs and plays their events: the    *)
(* click on the button (web/static/js/main.js), the transport and its      *)
(* paced queue (run.js), and of the web server (web/server.py) what a page *)
(* can tell: a run's events, its replay and the drains left behind by      *)
(* broken connections.  How one session serves its drains is RunStream.    *)
(*                                                                         *)
(* The events of a run are numbered: NumEvents is run_finished or          *)
(* run_error, and the one after it stream_end.  Runs are numbered in the   *)
(* order of the clicks that start them.  That the thread of a run puts all *)
(* its events is taken from RunStream (StreamEnds).                        *)
(*                                                                         *)
(* Left out: what an event draws, and the length of the pauses: a timer    *)
(* may fire at any time.                                                   *)
(***************************************************************************)
EXTENDS Naturals, Sequences

CONSTANTS
  NumEvents,   \* events of a run up to run_finished
  MaxRuns,     \* bound: clicks that start a run
  MaxBreaks    \* bound: connections that break

ASSUME EventsAssumption == NumEvents \in Nat \ {0}
ASSUME PageBounds == MaxRuns \in Nat /\ MaxBreaks \in Nat

Runs == 1..MaxRuns
StreamEnd == NumEvents + 1
Event == Runs \X (1..StreamEnd)

(* running RUNNING, es the run ES watches (0: null), queue QUEUE, pumping   *)
(* PUMPING, ended ENDED, paced whether PACE is not 0, timers the timeouts   *)
(* set by pump and not yet fired, run the run whose display was reset last, *)
(* shown the events handled since.                                          *)
Page == [running : BOOLEAN, es : 0..MaxRuns, queue : Seq(Event), pumping : BOOLEAN,
         ended : BOOLEAN, paced : BOOLEAN, timers : Nat, run : 0..MaxRuns, shown : Seq(Event)]

(* Of a run's request: not sent, waiting for its answer, refused, its       *)
(* stream open, broken and to be opened again, or over.                     *)
Link == {"none", "posted", "refused", "open", "lost", "over"}

VARIABLES
  serverless,  \* config().serverless: one request starts and carries a run
  page,
  link,        \* the request or stream of each run
  wire,        \* events sent on it and not yet read by the page
  taken,       \* how many events the drains of a run took from its sink
  orphans,     \* drains of a run whose client is gone, blocked in sink.get
  clicks,      \* runs asked for so far
  breaks,      \* connections broken so far
  overlapped   \* history: a display was reset while another run's request was open

server == <<wire, taken, orphans>>
vars == <<serverless, page, link, server, clicks, breaks, overlapped>>

Init ==
  /\ serverless \in BOOLEAN
  /\ page = [running |-> FALSE, es |-> 0, queue |-> <<>>, pumping |-> FALSE, ended |-> FALSE,
             paced |-> FALSE, timers |-> 0, run |-> 0, shown |-> <<>>]
  /\ link = [r \in Runs |-> "none"]
  /\ wire = [r \in Runs |-> <<>>]
  /\ taken = [r \in Runs |-> 0]
  /\ orphans = [r \in Runs |-> 0]
  /\ clicks = 0 /\ breaks = 0 /\ overlapped = FALSE

(***************************************************************************)
(* The functions of run.js, from page to page                              *)
(***************************************************************************)

Finish(p) == [p EXCEPT !.running = FALSE, !.es = 0]

Handle(p, e) ==
  LET drawn == [p EXCEPT !.shown = Append(@, e)] IN
  IF e[2] \in {NumEvents, StreamEnd} THEN Finish(drawn) ELSE drawn

Pump(p) ==
  IF p.pumping \/ p.queue = <<>> THEN p
  ELSE Handle([p EXCEPT !.pumping = TRUE, !.queue = Tail(@), !.timers = @ + 1], Head(p.queue))

(* What was open is ended by stream_end, and nothing is taken after it. *)
Enqueue(p, e) ==
  LET q == IF e[2] = StreamEnd THEN [p EXCEPT !.ended = TRUE, !.es = 0] ELSE p IN
  IF p.ended THEN p
  ELSE IF p.paced THEN Pump([q EXCEPT !.queue = Append(@, e)])
  ELSE Handle(q, e)

(* Deviation: the queue of the run before is kept. *)
ResetRunKeepingQueue(p, r, paced) ==
  [p EXCEPT !.running = TRUE, !.es = 0, !.pumping = FALSE,
            !.ended = FALSE, !.paced = paced, !.run = r, !.shown = <<>>]

(* The readers and the timers of the run before are not cancelled. *)
ResetRun(p, r, paced) ==
  [p EXCEPT !.running = TRUE, !.es = 0, !.queue = <<>>, !.pumping = FALSE,
            !.ended = FALSE, !.paced = paced, !.run = r, !.shown = <<>>]

(***************************************************************************)
(* Starting a run                                                          *)
(***************************************************************************)

(* The click is refused while a run is played.  On a serverless host the   *)
(* display is reset at once, elsewhere when the request is answered.       *)
Click ==
  /\ ~page.running
  /\ clicks < MaxRuns
  /\ clicks' = clicks + 1
  /\ link' = [link EXCEPT ![clicks'] = "posted"]
  /\ IF serverless
     THEN /\ \E paced \in BOOLEAN : page' = ResetRun(page, clicks', paced)
          /\ overlapped' = (overlapped \/ \E r \in Runs : link[r] \in {"posted", "open"})
     ELSE UNCHANGED <<page, overlapped>>
  /\ UNCHANGED <<serverless, server, breaks>>

(* The request starts the run; startRun then opens a stream of its own.    *)
Answered(r) ==
  /\ link[r] = "posted"
  /\ link' = [link EXCEPT ![r] = "open"]
  /\ IF serverless
     THEN UNCHANGED page
     ELSE \E paced \in BOOLEAN : page' = [ResetRun(page, r, paced) EXCEPT !.es = r]
  /\ UNCHANGED <<serverless, server, clicks, breaks, overlapped>>

(* Deviation: the button is left as it was. *)
RefusedQuietly(r) ==
  /\ link[r] = "posted"
  /\ link' = [link EXCEPT ![r] = "refused"]
  /\ UNCHANGED <<serverless, page, server, clicks, breaks, overlapped>>

(* The request fails or is answered with an error, which is shown. *)
Refused(r) ==
  /\ link[r] = "posted"
  /\ link' = [link EXCEPT ![r] = "refused"]
  /\ page' = IF serverless THEN [page EXCEPT !.running = FALSE] ELSE page
  /\ UNCHANGED <<serverless, server, clicks, breaks, overlapped>>

(***************************************************************************)
(* Carrying its events                                                     *)
(***************************************************************************)

(* A drain takes the next event of the run from the sink and sends it. *)
Serve(r) ==
  /\ link[r] = "open"
  /\ taken[r] < StreamEnd
  /\ taken' = [taken EXCEPT ![r] = @ + 1]
  /\ wire' = [wire EXCEPT ![r] = Append(@, <<r, taken'[r]>>)]
  /\ UNCHANGED <<serverless, page, link, orphans, clicks, breaks, overlapped>>

(* A drain left behind takes one event, which is replayed and not sent. *)
Steal(r) ==
  /\ orphans[r] > 0
  /\ taken[r] < StreamEnd
  /\ taken' = [taken EXCEPT ![r] = @ + 1]
  /\ orphans' = [orphans EXCEPT ![r] = @ - 1]
  /\ UNCHANGED <<serverless, page, link, wire, clicks, breaks, overlapped>>

(* Or none until the timeout of its sink.get. *)
Expire(r) ==
  /\ orphans[r] > 0
  /\ orphans' = [orphans EXCEPT ![r] = @ - 1]
  /\ UNCHANGED <<serverless, page, link, wire, taken, clicks, breaks, overlapped>>

(* An EventSource that was closed delivers nothing; a reader always does. *)
Heard(r) == serverless \/ page.es = r

Receive(r) ==
  /\ link[r] = "open" /\ Heard(r)
  /\ wire[r] # <<>>
  /\ page' = Enqueue(page, Head(wire[r]))
  /\ wire' = [wire EXCEPT ![r] = Tail(@)]
  /\ UNCHANGED <<serverless, link, taken, orphans, clicks, breaks, overlapped>>

FinishIfIdle(p) == IF p.running /\ p.queue = <<>> THEN Finish(p) ELSE p

(* Deviation: the end of the stream is the end of the run. *)
DoneEndsRun(p) == IF p.running THEN Finish(p) ELSE p

(* chunk.done *)
Done(p) == IF p.ended THEN p ELSE FinishIfIdle(p)

(* The body of the one request ends after stream_end. *)
Drained(r) ==
  /\ serverless
  /\ link[r] = "open" /\ taken[r] = StreamEnd /\ wire[r] = <<>>
  /\ link' = [link EXCEPT ![r] = "over"]
  /\ page' = Done(page)
  /\ UNCHANGED <<serverless, server, clicks, breaks, overlapped>>

Timer ==
  /\ page.timers > 0
  /\ page' = Pump([page EXCEPT !.timers = @ - 1, !.pumping = FALSE])
  /\ UNCHANGED <<serverless, link, server, clicks, breaks, overlapped>>

(***************************************************************************)
(* What breaks                                                             *)
(***************************************************************************)

BreakOf(r) ==
  /\ link[r] = "open" /\ Heard(r)
  /\ breaks < MaxBreaks
  /\ breaks' = breaks + 1
  /\ wire' = [wire EXCEPT ![r] = <<>>]
  /\ UNCHANGED <<serverless, taken, clicks, overlapped>>

(* A reader fails, or meets the end of a body that the host cut short. *)
BreakReader(r) ==
  /\ serverless
  /\ BreakOf(r)
  /\ link' = [link EXCEPT ![r] = "over"]
  /\ page' \in {[page EXCEPT !.running = FALSE], Done(page)}
  /\ UNCHANGED orphans

(* ES.onerror: the run is over if nothing is left to play, and else the    *)
(* browser opens the stream again.                                         *)
BreakStream(r) ==
  /\ ~serverless
  /\ BreakOf(r)
  /\ link' = [link EXCEPT ![r] = "lost"]
  /\ orphans' = [orphans EXCEPT ![r] = @ + 1]
  /\ page' = FinishIfIdle(page)

(* Deviation: the event that was next is counted as sent. *)
ReplayOneMore(r) == [i \in 1..(taken[r] + 1) |-> <<r, i>>]

(* All that was taken, but stream_end. *)
Replay(r) == [i \in 1..(IF taken[r] = StreamEnd THEN NumEvents ELSE taken[r]) |-> <<r, i>>]

Reconnect(r) ==
  /\ link[r] = "lost" /\ Heard(r)
  /\ link' = [link EXCEPT ![r] = "open"]
  /\ wire' = [wire EXCEPT ![r] = Replay(r)]
  /\ UNCHANGED <<serverless, page, taken, orphans, clicks, breaks, overlapped>>

(* Opening it again fails, which calls onerror again. *)
RetryFails(r) ==
  /\ link[r] = "lost" /\ Heard(r)
  /\ page' = FinishIfIdle(page)
  /\ UNCHANGED <<serverless, link, server, clicks, breaks, overlapped>>

Progress(r) ==
  \/ Answered(r) \/ Refused(r)
  \/ Serve(r) \/ Receive(r) \/ Drained(r)
  \/ Reconnect(r)

Next ==
  \/ Click
  \/ Timer
  \/ \E r \in Runs :
       \/ Progress(r)
       \/ Steal(r) \/ Expire(r)
       \/ BreakReader(r) \/ BreakStream(r) \/ RetryFails(r)

Spec == Init /\ [][Next]_vars

(* Requests are answered, sent events arrive, timers fire and the browser   *)
(* reconnects; nobody has to click and nothing has to break.                *)
FairSpec ==
  /\ Spec
  /\ WF_vars(Timer)
  /\ \A r \in Runs : WF_vars(Progress(r))

(***************************************************************************)
(* Properties                                                              *)
(***************************************************************************)

(* Every variable has its type. *)
TypeOK ==
  /\ serverless \in BOOLEAN
  /\ page \in Page
  /\ link \in [Runs -> Link]
  /\ wire \in [Runs -> Seq(Event)]
  /\ taken \in [Runs -> 0..StreamEnd]
  /\ orphans \in [Runs -> 0..MaxBreaks]
  /\ clicks \in 0..MaxRuns
  /\ breaks \in 0..MaxBreaks
  /\ overlapped \in BOOLEAN

(* However many clicks, answers, timers and streams of earlier runs are     *)
(* about (main.js:92, run.js:28-53, 110-136), the page plays one run: what  *)
(* is drawn is that run's events in order, each once, and all of them when  *)
(* the button is back.  On a serverless host this needs that no request of  *)
(* an earlier run was open when the display was reset; a break may repeat   *)
(* or cut the events, and yet an EventSource never shows another run's.     *)
Untroubled == breaks = 0 /\ ~overlapped
PlaysOneRun ==
  /\ Untroubled =>
       /\ page.shown = [i \in DOMAIN page.shown |-> <<page.run, i>>]
       /\ ~page.running /\ page.run # 0 /\ link[page.run] # "refused"
            => Len(page.shown) >= NumEvents
  /\ ~serverless => \A i \in DOMAIN page.shown : page.shown[i][1] = page.run

(* The button comes back: always when the events are not paced, whatever    *)
(* breaks, and paced as long as no reader and no second EventSource breaks  *)
(* (two drains left behind can take run_finished and stream_end both).      *)
Dependable == ~page.paced \/ breaks = 0 \/ (~serverless /\ breaks = 1)
ButtonComesBack == page.running /\ Dependable ~> ~page.running \/ ~Dependable
=============================================================================
