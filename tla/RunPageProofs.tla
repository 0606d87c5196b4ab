--------------------------- MODULE RunPageProofs ---------------------------
(***************************************************************************)
(* That the page of RunPage plays one run: what is drawn is that run's      *)
(* events in order, whatever clicks, timers and streams of earlier runs are *)
(* about, for every number of events, clicks and breaks.                    *)
(***************************************************************************)
EXTENDS RunPage, Integers, TLAPS

(***************************************************************************)
(* The inductive invariant                                                 *)
(***************************************************************************)

(* The page follows run r: what is sent on its wire will be handed to it.   *)
Follows(r) == IF serverless THEN link[r] = "open" ELSE page.es = r

(* Clicks number the runs, and a run that is not answered has no events.    *)
NothingEarly ==
  \A r \in Runs :
    /\ r > clicks => link[r] = "none"
    /\ link[r] \in {"none", "posted", "refused"} => taken[r] = 0 /\ wire[r] = <<>> /\ orphans[r] = 0

(* Only a break leaves a drain behind or a stream to be opened again.       *)
BreaksCounted ==
  \A r \in Runs : orphans[r] <= breaks /\ (link[r] = "lost" => breaks > 0)

(* A wire carries its own run's events.                                     *)
WiresApart == \A r \in Runs : \A i \in DOMAIN wire[r] : wire[r][i][1] = r

(* An EventSource is of the run displayed, and so is all it brought.        *)
OfRun(p) ==
  /\ p.es \in {0, p.run}
  /\ \A i \in DOMAIN p.shown : p.shown[i][1] = p.run
  /\ \A i \in DOMAIN p.queue : p.queue[i][1] = p.run
StreamApart == ~serverless => OfRun(page)

(* What is shown and queued are the first events of the run displayed, as   *)
(* many as were read, and all of them once the run is over.                 *)
Read(p) == Len(p.shown) + Len(p.queue)
InOrder(p) ==
  /\ \A i \in DOMAIN p.shown : p.shown[i] = <<p.run, i>>
  /\ \A i \in DOMAIN p.queue : p.queue[i] = <<p.run, Len(p.shown) + i>>
Over(p) == Len(p.shown) >= NumEvents

(* A wire holds the events taken last, those the page has not read.         *)
WireInOrder(r) ==
  /\ Len(wire[r]) <= taken[r]
  /\ \A i \in DOMAIN wire[r] : wire[r][i] = <<r, taken[r] - Len(wire[r]) + i>>

(* Without a break and an overlap the page reads one run, from its start.   *)
PlaysInOrder ==
  Untroubled =>
    /\ InOrder(page)
    /\ page.ended => Read(page) = StreamEnd
    /\ ~page.running /\ page.run # 0 /\ link[page.run] # "refused" => Over(page)
    /\ \A r \in Runs :
         /\ WireInOrder(r)
         /\ Follows(r) => page.run = r /\ taken[r] - Len(wire[r]) = Read(page)
         /\ serverless /\ link[r] = "posted" => page.run = r /\ Read(page) = 0

(* Nothing waits when the events are not paced.                             *)
Unqueued(p) == ~p.paced => p.queue = <<>>

IInv ==
  /\ TypeOK
  /\ NothingEarly
  /\ BreaksCounted
  /\ WiresApart
  /\ StreamApart
  /\ PlaysInOrder
  /\ Unqueued(page)
  /\ serverless => page.es = 0

(***************************************************************************)
(* The functions of the page                                               *)
(***************************************************************************)

LEMMA Numbers ==
  /\ NumEvents \in Nat \ {0} /\ StreamEnd \in Nat /\ StreamEnd = NumEvents + 1
  /\ MaxRuns \in Nat /\ MaxBreaks \in Nat
  /\ \A r \in Runs : r \in Nat /\ r > 0
  /\ \A e \in Event : e[1] \in Runs /\ e[2] \in Nat /\ e = <<e[1], e[2]>>
BY EventsAssumption, PageBounds DEF StreamEnd, Runs, Event

(* What Finish leaves of a page.                                            *)
LEMMA FinishFacts ==
  ASSUME NEW p \in Page
  PROVE  /\ Finish(p) \in Page
         /\ ~Finish(p).running /\ Finish(p).es = 0
         /\ Finish(p).run = p.run /\ Finish(p).queue = p.queue /\ Finish(p).pumping = p.pumping
         /\ Finish(p).ended = p.ended /\ Finish(p).paced = p.paced
         /\ Finish(p).timers = p.timers /\ Finish(p).shown = p.shown
<1>1. 0 \in 0..MaxRuns
  BY Numbers
<1> QED BY <1>1 DEF Finish, Page

(* What handle does with an event, of which Finish is part.                 *)
LEMMA HandleFacts ==
  ASSUME NEW p \in Page, NEW e \in Event, NEW q, q = Handle(p, e)
  PROVE  /\ q \in Page
         /\ q.run = p.run /\ q.queue = p.queue /\ q.pumping = p.pumping
         /\ q.ended = p.ended /\ q.paced = p.paced /\ q.timers = p.timers
         /\ q.shown = Append(p.shown, e)
         /\ q.es \in {0, p.es}
         /\ ~q.running => ~p.running \/ e[2] >= NumEvents
<1> DEFINE drawn == [p EXCEPT !.shown = Append(@, e)]
<1>1. p.shown \in Seq(Event) /\ p.es \in 0..MaxRuns /\ p.running \in BOOLEAN
  BY DEF Page
<1>0. Append(p.shown, e) \in Seq(Event)
  BY <1>1
<1>2. /\ drawn \in Page
      /\ drawn.shown = Append(p.shown, e) /\ drawn.running = p.running /\ drawn.es = p.es
      /\ drawn.run = p.run /\ drawn.queue = p.queue /\ drawn.pumping = p.pumping
      /\ drawn.ended = p.ended /\ drawn.paced = p.paced /\ drawn.timers = p.timers
  BY <1>0 DEF Page
<1> HIDE DEF drawn
<1>3. q = IF e[2] \in {NumEvents, StreamEnd} THEN Finish(drawn) ELSE drawn
  BY DEF Handle, drawn
<1>4. CASE e[2] \in {NumEvents, StreamEnd}
  BY <1>2, <1>3, <1>4, FinishFacts, Numbers
<1>5. CASE e[2] \notin {NumEvents, StreamEnd}
  BY <1>2, <1>3, <1>5
<1> QED BY <1>4, <1>5

(* A page that goes on playing what it has read.                            *)
Plays(p, q) ==
  /\ q \in Page
  /\ q.run = p.run /\ q.ended = p.ended /\ q.paced = p.paced
  /\ q.es \in {0, p.es}
  /\ Read(q) = Read(p)
  /\ Unqueued(p) => Unqueued(q)
  /\ OfRun(p) => OfRun(q)
  /\ InOrder(p) => InOrder(q)
  /\ Over(p) => Over(q)
  /\ InOrder(p) /\ ~q.running => ~p.running \/ Over(q)

LEMMA PumpPlays ==
  ASSUME NEW p \in Page
  PROVE  Plays(p, Pump(p))
<1>1. CASE p.pumping \/ p.queue = <<>>
  BY <1>1 DEF Pump, Plays
<1>2. CASE ~(p.pumping \/ p.queue = <<>>)
  <2> DEFINE begun == [p EXCEPT !.pumping = TRUE, !.queue = Tail(@), !.timers = @ + 1]
             e == Head(p.queue)
             q == Pump(p)
  <2>1. /\ p.queue \in Seq(Event) /\ p.queue # <<>>
        /\ p.shown \in Seq(Event)
    BY <1>2 DEF Page
  <2>2. /\ e \in Event /\ Tail(p.queue) \in Seq(Event)
        /\ Len(Tail(p.queue)) = Len(p.queue) - 1 /\ Len(p.queue) > 0
        /\ 1 \in DOMAIN p.queue /\ e = p.queue[1]
        /\ \A i \in DOMAIN Tail(p.queue) : i + 1 \in DOMAIN p.queue /\ Tail(p.queue)[i] = p.queue[i + 1]
    BY <2>1
  <2>3. /\ begun \in Page
        /\ begun.timers = p.timers + 1
        /\ begun.run = p.run /\ begun.ended = p.ended /\ begun.paced = p.paced
        /\ begun.es = p.es /\ begun.running = p.running /\ begun.shown = p.shown
        /\ begun.queue = Tail(p.queue)
    <3>1. Tail(p.queue) \in Seq(Event) /\ p.timers + 1 \in Nat
      BY <2>2 DEF Page
    <3> QED BY <3>1 DEF Page
  <2>4. q = Handle(begun, e)
    BY <1>2 DEF Pump
  <2> HIDE DEF begun, q
  <2>5. /\ q \in Page
        /\ q.run = p.run /\ q.ended = p.ended /\ q.paced = p.paced
        /\ q.es \in {0, p.es}
        /\ q.shown = Append(p.shown, e) /\ q.queue = Tail(p.queue)
        /\ ~q.running => ~p.running \/ e[2] >= NumEvents
    <3>1. e \in Event /\ begun \in Page
      BY <2>2, <2>3
    <3> HIDE DEF e
    <3>2. /\ q \in Page
          /\ q.run = begun.run /\ q.queue = begun.queue
          /\ q.ended = begun.ended /\ q.paced = begun.paced
          /\ q.shown = Append(begun.shown, e)
          /\ q.es \in {0, begun.es}
          /\ ~q.running => ~begun.running \/ e[2] >= NumEvents
      BY <2>4, <3>1, HandleFacts
    <3> QED BY <2>3, <3>2
  <2> HIDE DEF e
  <2>6. /\ Len(q.shown) = Len(p.shown) + 1 /\ Len(q.queue) = Len(p.queue) - 1
        /\ \A i \in DOMAIN q.shown :
             \/ i \in DOMAIN p.shown /\ q.shown[i] = p.shown[i]
             \/ i = Len(p.shown) + 1 /\ q.shown[i] = e
    BY <2>1, <2>2, <2>5
  <2>7. Read(q) = Read(p)
    <3>1. Len(p.shown) \in Nat /\ Len(p.queue) \in Nat /\ Len(p.queue) > 0
      BY <2>1, <2>2
    <3>2. /\ Len(q.shown) \in Nat /\ Len(q.queue) \in Nat
          /\ Len(q.shown) = Len(p.shown) + 1 /\ Len(q.queue) = Len(p.queue) - 1
      BY <3>1, <2>6
    <3>3. \A a, b, c, d \in Nat : c = a + 1 /\ d = b - 1 => c + d = a + b
      OBVIOUS
    <3>4. Len(q.shown) + Len(q.queue) = Len(p.shown) + Len(p.queue)
      BY <3>1, <3>2, <3>3, ZenonT(30)
    <3> QED BY <3>4 DEF Read
  <2>8. Unqueued(p) => Unqueued(q)
    BY <2>1, <2>5 DEF Unqueued
  <2>9. OfRun(p) => OfRun(q)
    BY <2>2, <2>5, <2>6 DEF OfRun
  <2>10. InOrder(p) => InOrder(q)
    <3> SUFFICES ASSUME InOrder(p) PROVE InOrder(q)
      OBVIOUS
    <3>1. \A i \in DOMAIN q.shown : q.shown[i] = <<q.run, i>>
      BY <2>1, <2>2, <2>5, <2>6 DEF InOrder
    <3>2. \A i \in DOMAIN q.queue : q.queue[i] = <<q.run, Len(q.shown) + i>>
      <4>1. Len(p.shown) \in Nat /\ \A i \in DOMAIN Tail(p.queue) : i \in Nat
        BY <2>1, <2>2
      <4>2. \A i \in DOMAIN Tail(p.queue) : Tail(p.queue)[i] = <<p.run, Len(p.shown) + (i + 1)>>
        BY <2>2 DEF InOrder
      <4>3. \A i \in DOMAIN Tail(p.queue) : Len(p.shown) + (i + 1) = Len(q.shown) + i
        BY <4>1, <2>6, SMTT(30)
      <4> QED BY <4>2, <4>3, <2>5
    <3> QED BY <3>1, <3>2 DEF InOrder
  <2>11. Over(p) => Over(q)
    BY <2>1, <2>6, Numbers DEF Over
  <2>12. InOrder(p) /\ ~q.running => ~p.running \/ Over(q)
    <3>1. InOrder(p) => e[2] = Len(p.shown) + 1
      BY <2>1, <2>2 DEF InOrder
    <3> QED BY <3>1, <2>5, <2>6 DEF Over
  <2>13. q.run = p.run /\ q.ended = p.ended /\ q.paced = p.paced /\ q \in Page /\ q.es \in {0, p.es}
    BY <2>5
  <2> QED BY <2>7, <2>8, <2>9, <2>10, <2>11, <2>12, <2>13 DEF Plays, q
<1> QED BY <1>1, <1>2


(* A page that has read one more event.                                     *)
Reads(p, q, e) ==
  /\ q \in Page
  /\ q.run = p.run /\ q.paced = p.paced
  /\ q.es \in {0, p.es} /\ (q.ended => q.es = 0 /\ e[2] = StreamEnd)
  /\ Read(q) = Read(p) + 1
  /\ Unqueued(q)
  /\ OfRun(p) /\ e[1] = p.run => OfRun(q)
  /\ InOrder(p) /\ e = <<p.run, Read(p) + 1>> => InOrder(q)
  /\ Over(p) => Over(q)
  /\ InOrder(p) /\ e = <<p.run, Read(p) + 1>> /\ ~q.running => ~p.running \/ Over(q)

(* The page that enqueue begins with: an event that ends the stream closes  *)
(* it.                                                                      *)
Noted(p, e) == IF e[2] = StreamEnd THEN [p EXCEPT !.ended = TRUE, !.es = 0] ELSE p

LEMMA NotedFacts ==
  ASSUME NEW p \in Page, NEW e \in Event, ~p.ended
  PROVE  /\ Noted(p, e) \in Page
         /\ Noted(p, e).run = p.run /\ Noted(p, e).paced = p.paced
         /\ Noted(p, e).running = p.running
         /\ Noted(p, e).shown = p.shown /\ Noted(p, e).queue = p.queue
         /\ Noted(p, e).es \in {0, p.es}
         /\ Noted(p, e).ended => Noted(p, e).es = 0 /\ e[2] = StreamEnd
<1>1. CASE e[2] = StreamEnd
  <2>1. 0 \in 0..MaxRuns
    BY Numbers
  <2> QED BY <1>1, <2>1 DEF Noted, Page
<1>2. CASE e[2] # StreamEnd
  BY <1>2 DEF Noted
<1> QED BY <1>1, <1>2

LEMMA EnqueueReads ==
  ASSUME NEW p \in Page, NEW e \in Event, ~p.ended, Unqueued(p)
  PROVE  Reads(p, Enqueue(p, e), e)
<1> DEFINE n == Noted(p, e)
<1>1. /\ n \in Page
      /\ n.run = p.run /\ n.paced = p.paced /\ n.running = p.running
      /\ n.shown = p.shown /\ n.queue = p.queue /\ n.es \in {0, p.es}
      /\ n.ended => n.es = 0 /\ e[2] = StreamEnd
  BY NotedFacts
<1>2. Enqueue(p, e) = IF p.paced THEN Pump([n EXCEPT !.queue = Append(@, e)]) ELSE Handle(n, e)
  BY DEF Enqueue, Noted
<1> HIDE DEF n
<1>3. /\ p.shown \in Seq(Event) /\ p.queue \in Seq(Event)
      /\ Len(p.shown) \in Nat /\ Len(p.queue) \in Nat
  BY DEF Page
<1>4. \A a, b \in Nat : a + (b + 1) = (a + b) + 1 /\ (a + 1) + 0 = (a + 0) + 1
  OBVIOUS
<1>5. CASE p.paced
  <2> DEFINE s == [n EXCEPT !.queue = Append(@, e)]
             q == Enqueue(p, e)
  <2>1. Append(p.queue, e) \in Seq(Event)
    BY <1>3
  <2>2. /\ s \in Page
        /\ s.run = p.run /\ s.paced = p.paced /\ s.running = p.running /\ s.es = n.es
        /\ s.ended = n.ended /\ s.shown = p.shown /\ s.queue = Append(p.queue, e)
    BY <1>1, <2>1 DEF Page
  <2>3. q = Pump(s)
    BY <1>2, <1>5
  <2> HIDE DEF s, q
  <2>4. Plays(s, q)
    BY <2>2, <2>3, PumpPlays
  <2>5. /\ q \in Page /\ q.run = p.run /\ q.paced = p.paced /\ q.es \in {0, p.es}
        /\ q.ended => q.es = 0 /\ e[2] = StreamEnd
    BY <1>1, <2>2, <2>4 DEF Plays
  <2>6. /\ Len(s.queue) = Len(p.queue) + 1
        /\ \A i \in DOMAIN s.queue :
             \/ i \in DOMAIN p.queue /\ s.queue[i] = p.queue[i]
             \/ i = Len(p.queue) + 1 /\ s.queue[i] = e
    BY <1>3, <2>2
  <2>7. Read(s) = Read(p) + 1
    BY <1>3, <1>4, <2>2, <2>6, Zenon DEF Read
  <2>8. Unqueued(s)
    BY <1>5, <2>2 DEF Unqueued
  <2>9. OfRun(p) /\ e[1] = p.run => OfRun(s)
    BY <1>1, <2>2, <2>6 DEF OfRun
  <2>10. InOrder(p) /\ e = <<p.run, Read(p) + 1>> => InOrder(s)
    <3> SUFFICES ASSUME InOrder(p), e = <<p.run, Read(p) + 1>> PROVE InOrder(s)
      OBVIOUS
    <3>1. Read(p) + 1 = Len(p.shown) + (Len(p.queue) + 1)
      BY <1>3, <1>4, Zenon DEF Read
    <3>2. \A i \in DOMAIN s.queue : s.queue[i] = <<p.run, Len(p.shown) + i>>
      BY <2>6, <3>1, Zenon DEF InOrder
    <3> QED BY <2>2, <3>2 DEF InOrder
  <2>11. Over(p) => Over(s)
    BY <2>2 DEF Over
  <2> QED BY <2>2, <2>4, <2>5, <2>7, <2>8, <2>9, <2>10, <2>11 DEF Plays, Reads, q
<1>6. CASE ~p.paced
  <2> DEFINE q == Enqueue(p, e)
  <2>1. p.queue = <<>> /\ Len(p.queue) = 0
    BY <1>6 DEF Unqueued
  <2>2. q = Handle(n, e)
    BY <1>2, <1>6
  <2> HIDE DEF q
  <2>3. /\ q \in Page /\ q.run = p.run /\ q.paced = p.paced /\ q.es \in {0, n.es}
        /\ q.ended = n.ended /\ q.queue = p.queue /\ q.shown = Append(p.shown, e)
        /\ ~q.running => ~p.running \/ e[2] >= NumEvents
    BY <1>1, <2>2, HandleFacts
  <2>4. q.es \in {0, p.es} /\ (q.ended => q.es = 0 /\ e[2] = StreamEnd)
    BY <1>1, <2>3
  <2>5. /\ Len(q.shown) = Len(p.shown) + 1
        /\ \A i \in DOMAIN q.shown :
             \/ i \in DOMAIN p.shown /\ q.shown[i] = p.shown[i]
             \/ i = Len(p.shown) + 1 /\ q.shown[i] = e
    BY <1>3, <2>3
  <2>6. Read(p) = Len(p.shown) /\ Read(q) = Read(p) + 1
    BY <1>3, <1>4, <2>1, <2>3, <2>5 DEF Read
  <2>7. Unqueued(q)
    BY <2>1, <2>3 DEF Unqueued
  <2>8. OfRun(p) /\ e[1] = p.run => OfRun(q)
    BY <2>1, <2>3, <2>4, <2>5 DEF OfRun
  <2>9. InOrder(p) /\ e = <<p.run, Read(p) + 1>> => InOrder(q)
    BY <2>1, <2>3, <2>5, <2>6 DEF InOrder
  <2>10. Over(p) => Over(q)
    BY <1>3, <2>5, Numbers DEF Over
  <2>11. e = <<p.run, Read(p) + 1>> /\ ~q.running => ~p.running \/ Over(q)
    BY <2>3, <2>5, <2>6 DEF Over
  <2> QED BY <2>3, <2>4, <2>6, <2>7, <2>8, <2>9, <2>10, <2>11 DEF Reads, q
<1> QED BY <1>5, <1>6


(* A page that has just been reset for run r.                               *)
Fresh(q, r) ==
  /\ q \in Page
  /\ q.run = r /\ q.running /\ ~q.ended
  /\ Read(q) = 0 /\ InOrder(q) /\ Unqueued(q)
  /\ q.shown = <<>> /\ q.queue = <<>>

LEMMA ResetFacts ==
  ASSUME NEW p \in Page, NEW r \in Runs, NEW paced \in BOOLEAN
  PROVE  /\ Fresh(ResetRun(p, r, paced), r)
         /\ ResetRun(p, r, paced).es = 0
         /\ Fresh([ResetRun(p, r, paced) EXCEPT !.es = r], r)
         /\ [ResetRun(p, r, paced) EXCEPT !.es = r].es = r
<1>1. 0 \in 0..MaxRuns /\ r \in 0..MaxRuns /\ <<>> \in Seq(Event)
  BY Numbers DEF Runs
<1> DEFINE fresh == ResetRun(p, r, paced)
<1>2. /\ fresh \in Page
      /\ fresh.run = r /\ fresh.running /\ ~fresh.ended
      /\ fresh.shown = <<>> /\ fresh.queue = <<>> /\ fresh.es = 0
  BY <1>1 DEF Page, ResetRun
<1> HIDE DEF fresh
<1> DEFINE watched == [fresh EXCEPT !.es = r]
<1>3. /\ watched \in Page
      /\ watched.run = r /\ watched.running /\ ~watched.ended
      /\ watched.shown = <<>> /\ watched.queue = <<>> /\ watched.es = r
  BY <1>1, <1>2 DEF Page
<1> HIDE DEF watched
<1>4. ASSUME NEW q, q.shown = <<>>, q.queue = <<>>
      PROVE  Read(q) = 0 /\ InOrder(q) /\ Unqueued(q)
  BY <1>4 DEF Read, InOrder, Unqueued
<1> QED BY <1>2, <1>3, <1>4 DEF Fresh, fresh, watched

(* A page that stops, or does not, without reading or showing anything.     *)
Stops(p, q) ==
  /\ q \in Page
  /\ q.run = p.run /\ q.ended = p.ended /\ q.paced = p.paced
  /\ q.shown = p.shown /\ q.queue = p.queue
  /\ q.es \in {0, p.es}

LEMMA StopFacts ==
  ASSUME NEW p \in Page
  PROVE  /\ Stops(p, p)
         /\ Stops(p, [p EXCEPT !.running = FALSE])
         /\ Stops(p, FinishIfIdle(p)) /\ Stops(p, Done(p))
         /\ ~FinishIfIdle(p).running => ~p.running \/ p.queue = <<>>
         /\ ~Done(p).running => ~p.running \/ p.queue = <<>>
<1>1. Stops(p, p)
  BY DEF Stops
<1>2. Stops(p, [p EXCEPT !.running = FALSE])
  BY DEF Stops, Page
<1>3. Stops(p, Finish(p))
  BY FinishFacts DEF Stops
<1> QED BY <1>1, <1>2, <1>3 DEF FinishIfIdle, Done

LEMMA StopsKeep ==
  ASSUME NEW p, NEW q, Stops(p, q)
  PROVE  /\ OfRun(p) => OfRun(q)
         /\ InOrder(p) => InOrder(q)
         /\ Read(q) = Read(p)
         /\ Over(p) => Over(q)
         /\ Unqueued(p) => Unqueued(q)
BY DEF Stops, OfRun, InOrder, Read, Over, Unqueued

(* A timer that fires pumps, whichever run set it.                          *)
LEMMA TimerPlays ==
  ASSUME NEW p \in Page, p.timers > 0
  PROVE  Plays(p, Pump([p EXCEPT !.timers = @ - 1, !.pumping = FALSE]))
<1> DEFINE n == [p EXCEPT !.timers = @ - 1, !.pumping = FALSE]
<1>1. p.timers - 1 \in Nat
  BY DEF Page
<1>2. /\ n \in Page
      /\ n.run = p.run /\ n.ended = p.ended /\ n.paced = p.paced /\ n.running = p.running
      /\ n.shown = p.shown /\ n.queue = p.queue /\ n.es = p.es
  BY <1>1 DEF Page
<1> HIDE DEF n
<1>3. Plays(n, Pump(n))
  BY <1>2, PumpPlays
<1>4. Plays(p, Pump(n))
  <2>1. /\ Read(n) = Read(p) /\ (Unqueued(n) <=> Unqueued(p)) /\ (OfRun(n) <=> OfRun(p))
        /\ (InOrder(n) <=> InOrder(p)) /\ (Over(n) <=> Over(p))
    BY <1>2 DEF Read, Unqueued, OfRun, InOrder, Over
  <2> QED BY <1>2, <1>3, <2>1 DEF Plays
<1> QED BY <1>4 DEF n


(***************************************************************************)
(* The steps                                                               *)
(***************************************************************************)

LEMMA InvInit == Init => IInv
<1> SUFFICES ASSUME Init PROVE IInv
  OBVIOUS
<1>1. /\ page.running = FALSE /\ page.es = 0 /\ page.queue = <<>> /\ page.shown = <<>>
      /\ page.run = 0 /\ ~page.ended
  BY DEF Init
<1>2. page \in Page /\ <<>> \in Seq(Event)
  BY Numbers DEF Init, Page
<1>3. TypeOK
  <2>1. /\ serverless \in BOOLEAN /\ overlapped \in BOOLEAN
        /\ clicks \in 0..MaxRuns /\ breaks \in 0..MaxBreaks
    <3>1. serverless \in BOOLEAN /\ overlapped \in BOOLEAN
      BY Zenon DEF Init
    <3>2. clicks = 0 /\ breaks = 0
      BY DEF Init
    <3> QED BY <3>1, <3>2, Numbers
  <2>2. link \in [Runs -> Link] /\ wire \in [Runs -> Seq(Event)]
    BY <1>2 DEF Init, Link
  <2>3. taken \in [Runs -> 0..StreamEnd] /\ orphans \in [Runs -> 0..MaxBreaks]
    BY Numbers DEF Init
  <2> QED BY <1>2, <2>1, <2>2, <2>3 DEF TypeOK
<1>4. NothingEarly /\ BreaksCounted /\ WiresApart
  BY Numbers DEF Init, NothingEarly, BreaksCounted, WiresApart
<1>5. StreamApart /\ Unqueued(page) /\ (serverless => page.es = 0)
  BY <1>1 DEF StreamApart, OfRun, Unqueued
<1>6. InOrder(page) /\ Read(page) = 0
  BY <1>1 DEF InOrder, Read
<1>7. \A r \in Runs : WireInOrder(r) /\ ~Follows(r) /\ link[r] # "posted"
  BY <1>1, Numbers DEF Init, WireInOrder, Follows
<1>8. PlaysInOrder
  BY <1>1, <1>6, <1>7, Zenon DEF PlaysInOrder
<1> QED BY <1>3, <1>4, <1>5, <1>8 DEF IInv

(* What an event taken next is, and what a replay is.                       *)
LEMMA Sending ==
  ASSUME NEW r \in Runs
  PROVE  /\ \A n \in 1..StreamEnd : <<r, n>> \in Event
         /\ TypeOK => /\ Replay(r) \in Seq(Event)
                      /\ \A i \in DOMAIN Replay(r) : Replay(r)[i] = <<r, i>>
<1>1. \A n \in 1..StreamEnd : <<r, n>> \in Event
  BY DEF Event
<1>2. ASSUME TypeOK
      PROVE  Replay(r) \in Seq(Event) /\ \A i \in DOMAIN Replay(r) : Replay(r)[i] = <<r, i>>
  <2> DEFINE n == IF taken[r] = StreamEnd THEN NumEvents ELSE taken[r]
  <2>1. n \in Nat /\ n <= StreamEnd
    BY <1>2, Numbers DEF TypeOK
  <2> HIDE DEF n
  <2>2. Replay(r) = [i \in 1..n |-> <<r, i>>]
    BY DEF Replay, n
  <2>3. \A i \in 1..n : <<r, i>> \in Event
    BY <1>1, <2>1, Numbers
  <2> QED BY <2>1, <2>2, <2>3
<1> QED BY <1>1, <1>2

(* The page of a step.                                                      *)
LEMMA ReceiveReads ==
  ASSUME TypeOK, Unqueued(page), NEW r \in Runs, Receive(r)
  PROVE  /\ wire[r] # <<>> /\ wire[r] \in Seq(Event) /\ Head(wire[r]) \in Event
         /\ Head(wire[r]) = wire[r][1] /\ 1 \in DOMAIN wire[r]
         /\ page.ended => page' = page
         /\ ~page.ended => Reads(page, page', Head(wire[r]))
<1>1. /\ wire[r] # <<>> /\ wire[r] \in Seq(Event) /\ Head(wire[r]) \in Event
      /\ Head(wire[r]) = wire[r][1] /\ 1 \in DOMAIN wire[r]
  BY DEF Receive, TypeOK
<1>2. page' = Enqueue(page, Head(wire[r])) /\ page \in Page
  BY DEF Receive, TypeOK
<1>3. page.ended => page' = page
  BY <1>2 DEF Enqueue
<1>4. ~page.ended => Reads(page, page', Head(wire[r]))
  BY <1>1, <1>2, EnqueueReads
<1> QED BY <1>1, <1>3, <1>4

(* The page of every step is a page.                                        *)
LEMMA PageStep == TypeOK /\ Unqueued(page) /\ [Next]_vars => page' \in Page
<1> SUFFICES ASSUME TypeOK, Unqueued(page), [Next]_vars PROVE page' \in Page
  OBVIOUS
<1>0. page \in Page /\ clicks \in 0..MaxRuns
  BY DEF TypeOK
<1>1. CASE Click
  <2>1. clicks' \in Runs
    BY <1>0, <1>1, Numbers DEF Click, Runs
  <2>2. \A paced \in BOOLEAN : ResetRun(page, clicks', paced) \in Page
    BY <1>0, <2>1, ResetFacts DEF Fresh
  <2> QED BY <1>0, <1>1, <2>2 DEF Click
<1>2. CASE Timer
  BY <1>0, <1>2, TimerPlays DEF Timer, Plays
<1>3. ASSUME NEW r \in Runs, Answered(r) PROVE page' \in Page
  BY <1>0, <1>3, ResetFacts DEF Answered, Fresh
<1>4. ASSUME NEW r \in Runs, Refused(r) PROVE page' \in Page
  BY <1>0, <1>4, StopFacts DEF Refused, Stops
<1>5. ASSUME NEW r \in Runs, Receive(r) PROVE page' \in Page
  BY <1>0, <1>5, ReceiveReads DEF Reads
<1>6. ASSUME NEW r \in Runs, Drained(r) \/ BreakStream(r) \/ RetryFails(r) \/ BreakReader(r)
      PROVE  page' \in Page
  BY <1>0, <1>6, StopFacts DEF Drained, BreakStream, RetryFails, BreakReader, Stops
<1>7. ASSUME NEW r \in Runs, Serve(r) \/ Reconnect(r) \/ Steal(r) \/ Expire(r)
      PROVE  page' \in Page
  BY <1>0, <1>7 DEF Serve, Reconnect, Steal, Expire
<1>8. CASE UNCHANGED vars
  BY <1>0, <1>8 DEF vars
<1> QED BY <1>1, <1>2, <1>3, <1>4, <1>5, <1>6, <1>7, <1>8 DEF Next, Progress


LEMMA TypeStep == IInv /\ [Next]_vars => TypeOK'
<1> SUFFICES ASSUME IInv, [Next]_vars PROVE TypeOK'
  OBVIOUS
<1>0. /\ TypeOK /\ BreaksCounted /\ page' \in Page
      /\ serverless \in BOOLEAN /\ overlapped \in BOOLEAN
      /\ clicks \in 0..MaxRuns /\ breaks \in 0..MaxBreaks
      /\ link \in [Runs -> Link] /\ wire \in [Runs -> Seq(Event)]
      /\ taken \in [Runs -> 0..StreamEnd] /\ orphans \in [Runs -> 0..MaxBreaks]
  BY PageStep DEF IInv, TypeOK
<1>1. CASE Click
  <2>1. /\ clicks' \in 0..MaxRuns /\ overlapped' \in BOOLEAN /\ link' \in [Runs -> Link]
        /\ UNCHANGED <<serverless, server, breaks>>
    <3>1. clicks' \in 0..MaxRuns /\ link' \in [Runs -> Link]
      <4>1. clicks < MaxRuns /\ clicks' = clicks + 1 /\ link' = [link EXCEPT ![clicks'] = "posted"]
        BY <1>1 DEF Click
      <4>2. link' \in [Runs -> Link]
        BY <1>0, <4>1 DEF Link
      <4> QED BY <1>0, <4>1, <4>2, Numbers
    <3>2. overlapped' \in BOOLEAN /\ UNCHANGED <<serverless, server, breaks>>
      BY <1>0, <1>1, Zenon DEF Click
    <3> QED BY <3>1, <3>2
  <2> QED BY <1>0, <2>1 DEF TypeOK, server
<1>2. CASE Timer
  BY <1>0, <1>2 DEF Timer, TypeOK, server
<1>3. ASSUME NEW r \in Runs, Answered(r) \/ Refused(r) \/ Drained(r) PROVE TypeOK'
  <2>1. link' \in [Runs -> Link] /\ UNCHANGED <<serverless, server, clicks, breaks, overlapped>>
    BY <1>0, <1>3 DEF Answered, Refused, Drained, Link
  <2> QED BY <1>0, <2>1 DEF TypeOK, server
<1>4. ASSUME NEW r \in Runs, Serve(r) PROVE TypeOK'
  <2>1. taken[r] + 1 \in 1..StreamEnd
    BY <1>0, <1>4, Numbers DEF Serve
  <2>2. taken' \in [Runs -> 0..StreamEnd] /\ taken'[r] = taken[r] + 1
    BY <1>0, <1>4, <2>1 DEF Serve
  <2>3. Append(wire[r], <<r, taken'[r]>>) \in Seq(Event)
    BY <1>0, <2>1, <2>2, Sending
  <2>4. wire' \in [Runs -> Seq(Event)]
    BY <1>0, <1>4, <2>3 DEF Serve
  <2> QED BY <1>0, <1>4, <2>2, <2>4 DEF Serve, TypeOK
<1>5. ASSUME NEW r \in Runs, Receive(r) PROVE TypeOK'
  <2>1. Tail(wire[r]) \in Seq(Event)
    BY <1>0, <1>5 DEF Receive
  <2> QED BY <1>0, <1>5, <2>1 DEF Receive, TypeOK
<1>6. ASSUME NEW r \in Runs, Reconnect(r) PROVE TypeOK'
  <2>1. Replay(r) \in Seq(Event)
    BY <1>0, Sending
  <2> QED BY <1>0, <1>6, <2>1 DEF Reconnect, TypeOK, Link
<1>7. ASSUME NEW r \in Runs, Steal(r) PROVE TypeOK'
  <2>1. taken[r] + 1 \in 0..StreamEnd /\ orphans[r] - 1 \in 0..MaxBreaks
    BY <1>0, <1>7, Numbers DEF Steal
  <2> QED BY <1>0, <1>7, <2>1 DEF Steal, TypeOK
<1>8. ASSUME NEW r \in Runs, Expire(r) PROVE TypeOK'
  <2>1. orphans[r] - 1 \in 0..MaxBreaks
    BY <1>0, <1>8, Numbers DEF Expire
  <2> QED BY <1>0, <1>8, <2>1 DEF Expire, TypeOK
<1>9. ASSUME NEW r \in Runs, BreakReader(r) \/ BreakStream(r) PROVE TypeOK'
  <2>1. breaks + 1 \in 0..MaxBreaks /\ orphans[r] + 1 \in 0..MaxBreaks /\ <<>> \in Seq(Event)
    BY <1>0, <1>9, Numbers DEF BreakReader, BreakStream, BreakOf, BreaksCounted
  <2>2. /\ breaks' \in 0..MaxBreaks /\ wire' \in [Runs -> Seq(Event)]
        /\ link' \in [Runs -> Link] /\ orphans' \in [Runs -> 0..MaxBreaks]
        /\ UNCHANGED <<serverless, taken, clicks, overlapped>>
    BY <1>0, <1>9, <2>1 DEF BreakReader, BreakStream, BreakOf, Link
  <2> QED BY <1>0, <2>2 DEF TypeOK
<1>10. ASSUME NEW r \in Runs, RetryFails(r) PROVE TypeOK'
  BY <1>0, <1>10 DEF RetryFails, TypeOK, server
<1>11. CASE UNCHANGED vars
  BY <1>0, <1>11 DEF vars, TypeOK, server
<1> QED BY <1>1, <1>2, <1>3, <1>4, <1>5, <1>6, <1>7, <1>8, <1>9, <1>10, <1>11 DEF Next, Progress

(* What has not been answered has sent nothing, and what is left behind was *)
(* broken.                                                                  *)
LEMMA EarlyStep == IInv /\ [Next]_vars => NothingEarly' /\ BreaksCounted'
<1> SUFFICES ASSUME IInv, [Next]_vars PROVE NothingEarly' /\ BreaksCounted'
  OBVIOUS
<1>0. /\ NothingEarly /\ BreaksCounted
      /\ clicks \in 0..MaxRuns /\ breaks \in 0..MaxBreaks
      /\ link \in [Runs -> Link] /\ wire \in [Runs -> Seq(Event)]
      /\ taken \in [Runs -> 0..StreamEnd] /\ orphans \in [Runs -> 0..MaxBreaks]
      /\ Runs \subseteq Nat
  BY Numbers DEF IInv, TypeOK
<1> USE DEF NothingEarly, BreaksCounted
<1>1. CASE Click
  BY <1>0, <1>1, Numbers DEF Click, server
<1>2. CASE Timer
  BY <1>0, <1>2 DEF Timer, server
<1>3. ASSUME NEW r \in Runs, Answered(r) \/ Refused(r) \/ Drained(r)
      PROVE  NothingEarly' /\ BreaksCounted'
  BY <1>0, <1>3 DEF Answered, Refused, Drained, server
<1>4. ASSUME NEW r \in Runs, Serve(r) \/ Receive(r) PROVE NothingEarly' /\ BreaksCounted'
  BY <1>0, <1>4 DEF Serve, Receive
<1>5. ASSUME NEW r \in Runs, Reconnect(r) PROVE NothingEarly' /\ BreaksCounted'
  BY <1>0, <1>5 DEF Reconnect
<1>6. ASSUME NEW r \in Runs, Steal(r) \/ Expire(r) PROVE NothingEarly' /\ BreaksCounted'
  BY <1>0, <1>6 DEF Steal, Expire
<1>7. ASSUME NEW r \in Runs, BreakReader(r) \/ BreakStream(r)
      PROVE  NothingEarly' /\ BreaksCounted'
  <2>1. /\ link[r] = "open" /\ link' \in {[link EXCEPT ![r] = "over"], [link EXCEPT ![r] = "lost"]}
        /\ breaks' = breaks + 1 /\ clicks' = clicks
        /\ wire' = [wire EXCEPT ![r] = <<>>] /\ taken' = taken
        /\ orphans' \in {orphans, [orphans EXCEPT ![r] = @ + 1]}
    BY <1>7 DEF BreakReader, BreakStream, BreakOf
  <2>2. NothingEarly'
    BY <1>0, <2>1
  <2>3. \A s \in Runs : orphans'[s] <= orphans[s] + 1
    BY <1>0, <2>1
  <2>4. BreaksCounted'
    BY <1>0, <2>1, <2>3
  <2> QED BY <2>2, <2>4
<1>8. ASSUME NEW r \in Runs, RetryFails(r) PROVE NothingEarly' /\ BreaksCounted'
  BY <1>0, <1>8 DEF RetryFails, server
<1>9. CASE UNCHANGED vars
  BY <1>0, <1>9 DEF vars, server
<1> QED BY <1>1, <1>2, <1>3, <1>4, <1>5, <1>6, <1>7, <1>8, <1>9 DEF Next, Progress


(* Of what is sent and shown nothing is of another run.                     *)
LEMMA ApartStep ==
  IInv /\ [Next]_vars =>
    WiresApart' /\ StreamApart' /\ Unqueued(page)' /\ (serverless => page.es = 0)'
<1> DEFINE Apart == StreamApart' /\ Unqueued(page)' /\ (serverless' => page'.es = 0)
<1> SUFFICES ASSUME IInv, [Next]_vars PROVE WiresApart' /\ Apart
  OBVIOUS
<1>0. /\ TypeOK /\ WiresApart /\ StreamApart /\ Unqueued(page) /\ (serverless => page.es = 0)
      /\ page \in Page /\ wire \in [Runs -> Seq(Event)] /\ taken \in [Runs -> 0..StreamEnd]
      /\ clicks \in 0..MaxRuns
  BY DEF IInv, TypeOK
<1>1. serverless' = serverless
  BY DEF Next, Progress, Click, Timer, Answered, Refused, Serve, Receive, Drained, Reconnect,
         Steal, Expire, BreakReader, BreakStream, BreakOf, RetryFails, vars
<1>2. ASSUME page' = page PROVE Apart
  BY <1>0, <1>1, <1>2 DEF StreamApart
<1>3. ASSUME Stops(page, page') PROVE Apart
  BY <1>0, <1>1, <1>3, StopsKeep DEF StreamApart, Stops
<1>4. ASSUME wire' = wire PROVE WiresApart'
  BY <1>0, <1>4 DEF WiresApart
<1>5. CASE Click
  <2>1. clicks' \in Runs
    BY <1>0, <1>5, Numbers DEF Click, Runs
  <2>2. CASE serverless
    <3>1. PICK paced \in BOOLEAN : page' = ResetRun(page, clicks', paced)
      BY <1>5, <2>2 DEF Click
    <3>2. Fresh(page', clicks') /\ page'.es = 0
      BY <1>0, <2>1, <3>1, ResetFacts
    <3>3. Unqueued(page)'
      BY <3>2 DEF Fresh
    <3> QED BY <1>1, <1>4, <1>5, <2>2, <3>2, <3>3 DEF Click, server, StreamApart
  <2>3. CASE ~serverless
    BY <1>2, <1>4, <1>5, <2>3 DEF Click, server
  <2> QED BY <2>2, <2>3
<1>6. CASE Timer
  <2>1. Plays(page, page')
    BY <1>0, <1>6, TimerPlays DEF Timer
  <2>2. Apart
    BY <1>0, <1>1, <2>1 DEF Plays, StreamApart
  <2> QED BY <1>4, <1>6, <2>2 DEF Timer, server
<1>7. ASSUME NEW r \in Runs, Answered(r) PROVE WiresApart' /\ Apart
  <2>1. CASE serverless
    BY <1>2, <1>4, <1>7, <2>1 DEF Answered, server
  <2>2. CASE ~serverless
    <3>1. PICK paced \in BOOLEAN : page' = [ResetRun(page, r, paced) EXCEPT !.es = r]
      BY <1>7, <2>2 DEF Answered
    <3>2. Fresh(page', r) /\ page'.es = r
      BY <1>0, <3>1, ResetFacts
    <3>3. Unqueued(page)' /\ OfRun(page)'
      BY <3>2 DEF Fresh, OfRun
    <3> QED BY <1>1, <1>4, <1>7, <2>2, <3>3 DEF Answered, server, StreamApart
  <2> QED BY <2>1, <2>2
<1>8. ASSUME NEW r \in Runs, Refused(r) PROVE WiresApart' /\ Apart
  <2>1. Stops(page, page')
    BY <1>0, <1>8, StopFacts DEF Refused
  <2> QED BY <1>3, <1>4, <1>8, <2>1 DEF Refused, server
<1>9. ASSUME NEW r \in Runs, Serve(r) PROVE WiresApart' /\ Apart
  <2>1. wire[r] \in Seq(Event) /\ \A s \in Runs \ {r} : wire'[s] = wire[s]
    BY <1>0, <1>9 DEF Serve
  <2>2. wire'[r] = Append(wire[r], <<r, taken'[r]>>)
    BY <1>0, <1>9 DEF Serve
  <2>3. \A i \in DOMAIN wire'[r] : \/ wire'[r][i] = wire[r][i] /\ i \in DOMAIN wire[r]
                                   \/ wire'[r][i] = <<r, taken'[r]>>
    BY <2>1, <2>2
  <2>4. \A i \in DOMAIN wire'[r] : wire'[r][i][1] = r
    <3>1. \A i \in DOMAIN wire[r] : wire[r][i][1] = r
      BY <1>0 DEF WiresApart
    <3>2. <<r, taken'[r]>>[1] = r
      OBVIOUS
    <3> QED BY <2>3, <3>1, <3>2, Zenon
  <2> QED BY <1>0, <1>2, <1>9, <2>1, <2>4 DEF Serve, WiresApart
<1>10. ASSUME NEW r \in Runs, Receive(r) PROVE WiresApart' /\ Apart
  <2>1. /\ wire[r] # <<>> /\ wire[r] \in Seq(Event) /\ Head(wire[r]) \in Event
        /\ page.ended => page' = page
        /\ ~page.ended => Reads(page, page', Head(wire[r]))
    BY <1>0, <1>10, ReceiveReads
  <2>2. Head(wire[r])[1] = r
    BY <1>0, <1>10, ReceiveReads DEF WiresApart
  <2>3. wire'[r] = Tail(wire[r]) /\ \A s \in Runs \ {r} : wire'[s] = wire[s]
    BY <1>0, <1>10 DEF Receive
  <2>4. \A i \in DOMAIN wire'[r] : i + 1 \in DOMAIN wire[r] /\ wire'[r][i] = wire[r][i + 1]
    BY <2>1, <2>3
  <2>5. WiresApart'
    <3>1. \A i \in DOMAIN wire[r] : wire[r][i][1] = r
      BY <1>0 DEF WiresApart
    <3>2. \A i \in DOMAIN wire'[r] : wire'[r][i][1] = r
      BY <2>4, <3>1, Zenon
    <3> QED BY <1>0, <2>3, <3>2 DEF WiresApart
  <2>6. ~page.ended => Apart
    <3> SUFFICES ASSUME ~page.ended PROVE Apart
      OBVIOUS
    <3>1. ~serverless => page.es = r /\ OfRun(page)
      BY <1>0, <1>10 DEF Receive, Heard, StreamApart
    <3>2. ~serverless => page.run = r
      BY <3>1, Numbers DEF OfRun
    <3>3. StreamApart'
      BY <1>1, <2>1, <2>2, <3>1, <3>2 DEF StreamApart, Reads
    <3> QED BY <1>0, <1>1, <2>1, <3>3 DEF Reads
  <2> QED BY <1>2, <2>1, <2>5, <2>6
<1>11. ASSUME NEW r \in Runs, Drained(r) \/ RetryFails(r) PROVE WiresApart' /\ Apart
  <2>1. Stops(page, page')
    BY <1>0, <1>11, StopFacts DEF Drained, RetryFails
  <2> QED BY <1>3, <1>4, <1>11, <2>1 DEF Drained, RetryFails, server
<1>12. ASSUME NEW r \in Runs, Reconnect(r) PROVE WiresApart' /\ Apart
  <2>1. wire'[r] = Replay(r) /\ \A s \in Runs \ {r} : wire'[s] = wire[s]
    BY <1>0, <1>12 DEF Reconnect
  <2>2. \A i \in DOMAIN Replay(r) : Replay(r)[i] = <<r, i>>
    BY <1>0, Sending
  <2> QED BY <1>0, <1>2, <1>12, <2>1, <2>2 DEF Reconnect, WiresApart
<1>13. ASSUME NEW r \in Runs, Steal(r) \/ Expire(r) PROVE WiresApart' /\ Apart
  BY <1>2, <1>4, <1>13 DEF Steal, Expire
<1>14. ASSUME NEW r \in Runs, BreakReader(r) \/ BreakStream(r) PROVE WiresApart' /\ Apart
  <2>1. Stops(page, page')
    BY <1>0, <1>14, StopFacts DEF BreakReader, BreakStream
  <2>2. wire'[r] = <<>> /\ \A s \in Runs \ {r} : wire'[s] = wire[s]
    BY <1>0, <1>14 DEF BreakReader, BreakStream, BreakOf
  <2> QED BY <1>0, <1>3, <2>1, <2>2, SMTT(30) DEF WiresApart
<1>15. CASE UNCHANGED vars
  BY <1>2, <1>4, <1>15 DEF vars, server
<1> QED BY <1>5, <1>6, <1>7, <1>8, <1>9, <1>10, <1>11, <1>12, <1>13, <1>14, <1>15
        DEF Next, Progress


(***************************************************************************)
(* One run, in order                                                       *)
(***************************************************************************)

(* The parts of PlaysInOrder: of the page, and of a run.                    *)
PageInOrder ==
  /\ InOrder(page)
  /\ page.ended => Read(page) = StreamEnd
  /\ ~page.running /\ page.run # 0 /\ link[page.run] # "refused" => Over(page)
RunInOrder(r) ==
  /\ WireInOrder(r)
  /\ Follows(r) => page.run = r /\ taken[r] - Len(wire[r]) = Read(page)
  /\ serverless /\ link[r] = "posted" => page.run = r /\ Read(page) = 0

LEMMA InParts ==
  PlaysInOrder <=> (Untroubled => PageInOrder /\ \A r \in Runs : RunInOrder(r))
BY Zenon DEF PlaysInOrder, PageInOrder, RunInOrder

LEMMA ClickInOrder ==
  ASSUME IInv, PageInOrder, \A r \in Runs : RunInOrder(r), Untroubled', Click
  PROVE  PageInOrder' /\ \A r \in Runs : RunInOrder(r)'
<1>0. /\ page \in Page /\ clicks \in 0..MaxRuns /\ link \in [Runs -> Link] /\ NothingEarly
      /\ serverless' = serverless /\ taken' = taken /\ wire' = wire
  BY DEF IInv, TypeOK, Click, server
<1>1. clicks' \in Runs /\ clicks' > clicks /\ link' = [link EXCEPT ![clicks'] = "posted"]
  BY <1>0, Numbers DEF Click, Runs
<1>2. link[clicks'] = "none" /\ link'[clicks'] = "posted" /\ \A r \in Runs \ {clicks'} : link'[r] = link[r]
  BY <1>0, <1>1 DEF NothingEarly
<1>3. \A r \in Runs : WireInOrder(r)'
  BY <1>0 DEF WireInOrder, RunInOrder
<1>4. CASE serverless
  <2>1. PICK paced \in BOOLEAN : page' = ResetRun(page, clicks', paced)
    BY <1>4 DEF Click
  <2>2. Fresh(page', clicks')
    BY <1>0, <1>1, <2>1, ResetFacts
  <2>3. \A r \in Runs : link[r] \notin {"posted", "open"}
    BY <1>4 DEF Click, Untroubled
  <2>4. \A r \in Runs : link'[r] # "open" /\ (link'[r] = "posted" => r = clicks')
    BY <1>2, <2>3
  <2>5. PageInOrder'
    BY <2>2 DEF Fresh, PageInOrder
  <2>6. \A r \in Runs : RunInOrder(r)'
    BY <1>0, <1>3, <1>4, <2>2, <2>4 DEF Fresh, RunInOrder, Follows
  <2> QED BY <2>5, <2>6
<1>5. CASE ~serverless
  <2>1. page' = page
    BY <1>5 DEF Click
  <2>2. page.run # 0 /\ link'[page.run] # "refused" => link[page.run] # "refused"
    BY <1>0, <1>2 DEF Page, Runs
  <2>3. PageInOrder'
    BY <2>1, <2>2 DEF PageInOrder
  <2>4. \A r \in Runs : RunInOrder(r)'
    BY <1>0, <1>3, <1>5, <2>1 DEF RunInOrder, Follows
  <2> QED BY <2>3, <2>4
<1> QED BY <1>4, <1>5

LEMMA TimerInOrder ==
  ASSUME IInv, PageInOrder, \A r \in Runs : RunInOrder(r), Timer
  PROVE  PageInOrder' /\ \A r \in Runs : RunInOrder(r)'
<1>0. /\ page \in Page
      /\ serverless' = serverless /\ taken' = taken /\ wire' = wire /\ link' = link
  BY DEF IInv, TypeOK, Timer, server
<1>1. Plays(page, page')
  BY <1>0, TimerPlays DEF Timer
<1>2. PageInOrder'
  BY <1>0, <1>1 DEF PageInOrder, Plays
<1>3. \A r \in Runs : RunInOrder(r)'
  <2>1. \A r \in Runs : WireInOrder(r)' /\ (Follows(r)' => Follows(r))
    BY <1>0, <1>1, Numbers DEF RunInOrder, WireInOrder, Follows, Plays
  <2> QED BY <1>0, <1>1, <2>1 DEF RunInOrder, Plays
<1> QED BY <1>2, <1>3

LEMMA AnsweredInOrder ==
  ASSUME IInv, PageInOrder, \A r \in Runs : RunInOrder(r), NEW r \in Runs, Answered(r)
  PROVE  PageInOrder' /\ \A s \in Runs : RunInOrder(s)'
<1>0. /\ page \in Page /\ link \in [Runs -> Link]
      /\ serverless' = serverless /\ taken' = taken /\ wire' = wire
      /\ link[r] = "posted" /\ link' = [link EXCEPT ![r] = "open"]
      /\ taken[r] = 0 /\ wire[r] = <<>> /\ Len(wire[r]) = 0
  BY DEF IInv, TypeOK, NothingEarly, Answered, server
<1>1. link'[r] = "open" /\ \A s \in Runs \ {r} : link'[s] = link[s]
  BY <1>0
<1>2. \A s \in Runs : WireInOrder(s)'
  BY <1>0 DEF WireInOrder, RunInOrder
<1>3. taken[r] - Len(wire[r]) = 0
  <2>1. taken[r] = 0 /\ Len(wire[r]) = 0
    BY <1>0, Zenon
  <2>2. 0 - 0 = 0
    OBVIOUS
  <2> QED BY <2>1, <2>2, Zenon
<1>4. CASE serverless
  <2>1. page' = page /\ page.run = r /\ Read(page) = 0
    BY <1>0, <1>4 DEF Answered, RunInOrder
  <2>2. PageInOrder'
    BY <1>0, <2>1 DEF PageInOrder
  <2>3. \A s \in Runs : RunInOrder(s)'
    BY <1>0, <1>1, <1>2, <1>3, <1>4, <2>1 DEF RunInOrder, Follows
  <2> QED BY <2>2, <2>3
<1>5. CASE ~serverless
  <2>1. PICK paced \in BOOLEAN : page' = [ResetRun(page, r, paced) EXCEPT !.es = r]
    BY <1>5 DEF Answered
  <2>2. Fresh(page', r) /\ page'.es = r
    BY <1>0, <2>1, ResetFacts
  <2>3. PageInOrder'
    BY <2>2 DEF Fresh, PageInOrder
  <2>4. \A s \in Runs : RunInOrder(s)'
    BY <1>0, <1>2, <1>3, <1>5, <2>2 DEF Fresh, RunInOrder, Follows
  <2> QED BY <2>3, <2>4
<1> QED BY <1>4, <1>5

LEMMA RefusedInOrder ==
  ASSUME IInv, PageInOrder, \A r \in Runs : RunInOrder(r), NEW r \in Runs, Refused(r)
  PROVE  PageInOrder' /\ \A s \in Runs : RunInOrder(s)'
<1>0. /\ page \in Page /\ link \in [Runs -> Link]
      /\ serverless' = serverless /\ taken' = taken /\ wire' = wire
      /\ link[r] = "posted" /\ link' = [link EXCEPT ![r] = "refused"]
  BY DEF IInv, TypeOK, Refused, server
<1>1. link'[r] = "refused" /\ \A s \in Runs \ {r} : link'[s] = link[s]
  BY <1>0
<1>2. Stops(page, page')
  BY <1>0, StopFacts DEF Refused
<1>3. /\ InOrder(page)' /\ Read(page)' = Read(page) /\ (Over(page) => Over(page)')
      /\ page'.run = page.run /\ page'.ended = page.ended
      /\ page'.es \in {0, page.es}
  BY <1>2, StopsKeep DEF PageInOrder, Stops
<1>4. serverless => page.run = r
  BY <1>0 DEF RunInOrder
<1>5. ~serverless => page' = page
  BY DEF Refused
<1>6. page.run # 0 /\ link'[page.run] # "refused" => link[page.run] # "refused"
  BY <1>0, <1>1 DEF Page, Runs
<1>7. PageInOrder'
  BY <1>1, <1>3, <1>4, <1>5, <1>6 DEF PageInOrder
<1>8. \A s \in Runs : WireInOrder(s)' /\ (Follows(s)' => Follows(s))
  BY <1>0, <1>1, <1>3, Numbers DEF RunInOrder, WireInOrder, Follows
<1>9. \A s \in Runs : RunInOrder(s)'
  BY <1>0, <1>1, <1>3, <1>8 DEF RunInOrder
<1> QED BY <1>7, <1>9


LEMMA ServeInOrder ==
  ASSUME IInv, PageInOrder, \A r \in Runs : RunInOrder(r), NEW r \in Runs, Serve(r)
  PROVE  PageInOrder' /\ \A s \in Runs : RunInOrder(s)'
<1>0. /\ wire \in [Runs -> Seq(Event)] /\ taken \in [Runs -> 0..StreamEnd]
      /\ serverless' = serverless /\ page' = page /\ link' = link
      /\ taken' = [taken EXCEPT ![r] = @ + 1]
      /\ wire' = [wire EXCEPT ![r] = Append(@, <<r, taken'[r]>>)]
      /\ link[r] = "open"
  BY DEF IInv, TypeOK, Serve
<1>1. /\ wire[r] \in Seq(Event) /\ taken[r] \in Nat /\ Len(wire[r]) \in Nat
      /\ taken'[r] = taken[r] + 1 /\ wire'[r] = Append(wire[r], <<r, taken[r] + 1>>)
      /\ \A s \in Runs \ {r} : wire'[s] = wire[s] /\ taken'[s] = taken[s]
  BY <1>0
<1>2. /\ Len(wire'[r]) = Len(wire[r]) + 1
      /\ \A i \in DOMAIN wire'[r] :
           \/ i \in DOMAIN wire[r] /\ wire'[r][i] = wire[r][i]
           \/ i = Len(wire[r]) + 1 /\ wire'[r][i] = <<r, taken[r] + 1>>
  BY <1>1
<1>3. \A a, b \in Nat : (a + 1) - (b + 1) = a - b /\ (a - b) + (b + 1) = a + 1
  OBVIOUS
<1>4. taken'[r] - Len(wire'[r]) = taken[r] - Len(wire[r])
  BY <1>1, <1>2, <1>3, Zenon
<1>5. WireInOrder(r) /\ \A s \in Runs : WireInOrder(s)
  BY DEF RunInOrder
<1>6. WireInOrder(r)'
  <2>1. Len(wire'[r]) <= taken'[r]
    <3>1. \A a, b \in Nat : a <= b => a + 1 <= b + 1
      OBVIOUS
    <3> QED BY <1>1, <1>2, <1>5, <3>1, Zenon DEF WireInOrder
  <2>2. \A i \in DOMAIN wire'[r] : wire'[r][i] = <<r, (taken'[r] - Len(wire'[r])) + i>>
    <3>1. \A i \in DOMAIN wire[r] : wire[r][i] = <<r, (taken[r] - Len(wire[r])) + i>>
      BY <1>5 DEF WireInOrder
    <3>2. (taken[r] - Len(wire[r])) + (Len(wire[r]) + 1) = taken[r] + 1
      BY <1>1, <1>3, Zenon
    <3>3. \A i \in DOMAIN wire'[r] : wire'[r][i] = <<r, (taken[r] - Len(wire[r])) + i>>
      BY <1>2, <3>1, <3>2, Zenon
    <3> QED BY <1>4, <3>3, Zenon
  <2> QED BY <2>1, <2>2 DEF WireInOrder
<1>7. \A s \in Runs : WireInOrder(s)'
  <2>1. \A s \in Runs \ {r} : WireInOrder(s)'
    BY <1>1, <1>5 DEF WireInOrder
  <2> QED BY <1>6, <2>1
<1>8. PageInOrder'
  BY <1>0 DEF PageInOrder
<1>9. \A s \in Runs : taken'[s] - Len(wire'[s]) = taken[s] - Len(wire[s])
  BY <1>1, <1>4, Zenon
<1>10. \A s \in Runs : RunInOrder(s)'
  BY <1>0, <1>7, <1>9 DEF RunInOrder, Follows
<1> QED BY <1>8, <1>10

LEMMA ReceiveInOrder ==
  ASSUME IInv, PageInOrder, \A r \in Runs : RunInOrder(r), NEW r \in Runs, Receive(r)
  PROVE  PageInOrder' /\ \A s \in Runs : RunInOrder(s)'
<1> DEFINE e == Head(wire[r])
<1>0. /\ TypeOK /\ Unqueued(page)
      /\ page \in Page /\ wire \in [Runs -> Seq(Event)] /\ taken \in [Runs -> 0..StreamEnd]
      /\ serverless' = serverless /\ link' = link /\ taken' = taken
      /\ wire' = [wire EXCEPT ![r] = Tail(@)]
      /\ link[r] = "open" /\ Follows(r)
  BY DEF IInv, TypeOK, Receive, Heard, Follows
<1>1. /\ wire[r] # <<>> /\ wire[r] \in Seq(Event) /\ e \in Event
      /\ e = wire[r][1] /\ 1 \in DOMAIN wire[r]
      /\ page.ended => page' = page
      /\ ~page.ended => Reads(page, page', e)
  BY <1>0, ReceiveReads
<1> HIDE DEF e
<1>2. /\ wire'[r] = Tail(wire[r]) /\ \A s \in Runs \ {r} : wire'[s] = wire[s]
      /\ taken[r] \in Nat /\ taken[r] <= StreamEnd /\ Len(wire[r]) \in Nat /\ Len(wire[r]) > 0
      /\ Len(wire'[r]) = Len(wire[r]) - 1
      /\ \A i \in DOMAIN wire'[r] :
           i \in Nat /\ i + 1 \in DOMAIN wire[r] /\ wire'[r][i] = wire[r][i + 1]
  <2>1. wire'[r] = Tail(wire[r]) /\ \A s \in Runs \ {r} : wire'[s] = wire[s]
    BY <1>0
  <2>2. taken[r] \in Nat /\ taken[r] <= StreamEnd
    BY <1>0, Numbers
  <2>3. Len(wire[r]) \in Nat /\ Len(wire[r]) > 0 /\ Len(Tail(wire[r])) = Len(wire[r]) - 1
    BY <1>1
  <2>4. \A i \in DOMAIN Tail(wire[r]) :
          i \in Nat /\ i + 1 \in DOMAIN wire[r] /\ Tail(wire[r])[i] = wire[r][i + 1]
    BY <1>1
  <2> QED BY <2>1, <2>2, <2>3, <2>4
<1>3. page.run = r /\ taken[r] - Len(wire[r]) = Read(page) /\ WireInOrder(r)
  BY <1>0 DEF RunInOrder
<1>4. ~page.ended
  <2>1. Read(page) # StreamEnd
    BY <1>2, <1>3, Numbers
  <2> QED BY <2>1 DEF PageInOrder
<1>5. Reads(page, page', e) /\ InOrder(page)
  BY <1>1, <1>4 DEF PageInOrder
<1>6. e = <<page.run, Read(page) + 1>>
  BY <1>1, <1>3 DEF WireInOrder
<1>7. PageInOrder'
  <2>1. page'.ended => Read(page') = StreamEnd
    <3>1. e[2] = Read(page) + 1
      BY <1>6
    <3> QED BY <1>5, <3>1 DEF Reads
  <2>2. page'.run # 0 /\ link'[page'.run] # "refused" /\ ~page'.running => Over(page')
    BY <1>0, <1>5, <1>6 DEF PageInOrder, Reads
  <2>3. InOrder(page')
    BY <1>5, <1>6 DEF Reads
  <2> QED BY <2>1, <2>2, <2>3 DEF PageInOrder
<1>8. \A a, b \in Nat : b > 0 /\ b <= a =>
        /\ b - 1 <= a /\ a - (b - 1) = (a - b) + 1
        /\ \A i \in Nat : (a - (b - 1)) + i = (a - b) + (i + 1)
  OBVIOUS
<1>9. /\ Len(wire[r]) <= taken[r] /\ taken'[r] = taken[r]
       /\ Len(wire[r]) - 1 <= taken[r]
       /\ taken[r] - (Len(wire[r]) - 1) = (taken[r] - Len(wire[r])) + 1
       /\ \A i \in Nat : (taken[r] - (Len(wire[r]) - 1)) + i = (taken[r] - Len(wire[r])) + (i + 1)
  <2>1. Len(wire[r]) <= taken[r] /\ taken'[r] = taken[r]
    BY <1>0, <1>3 DEF WireInOrder
  <2> QED BY <1>2, <1>8, <2>1, Zenon
<1>10. taken'[r] - Len(wire'[r]) = Read(page) + 1
  BY <1>2, <1>3, <1>9, Zenon
<1>11. WireInOrder(r)'
  <2>1. Len(wire'[r]) <= taken'[r]
    BY <1>2, <1>9, Zenon
  <2>2. \A i \in DOMAIN wire'[r] : wire'[r][i] = <<r, (taken[r] - Len(wire[r])) + (i + 1)>>
    BY <1>2, <1>3, Zenon DEF WireInOrder
  <2>3. \A i \in DOMAIN wire'[r] :
          (taken'[r] - Len(wire'[r])) + i = (taken[r] - Len(wire[r])) + (i + 1)
    BY <1>2, <1>9, Zenon
  <2>4. \A i \in DOMAIN wire'[r] : wire'[r][i] = <<r, (taken'[r] - Len(wire'[r])) + i>>
    BY <2>2, <2>3, Zenon
  <2> QED BY <2>1, <2>4 DEF WireInOrder
<1>12. \A s \in Runs : WireInOrder(s)'
  BY <1>0, <1>2, <1>11 DEF RunInOrder, WireInOrder
<1>13. \A s \in Runs : Follows(s)' => s = r
  <2>1. \A s \in Runs : Follows(s)' => Follows(s)
    BY <1>0, <1>5, Numbers DEF Follows, Reads
  <2> QED BY <1>3, <2>1 DEF RunInOrder
<1>14. \A s \in Runs : ~(serverless /\ link[s] = "posted")
  BY <1>0, <1>3 DEF RunInOrder
<1>15. Read(page') = Read(page) + 1 /\ page'.run = r
  BY <1>3, <1>5 DEF Reads
<1>16. \A s \in Runs : RunInOrder(s)'
  BY <1>0, <1>10, <1>12, <1>13, <1>14, <1>15 DEF RunInOrder
<1> QED BY <1>7, <1>16


LEMMA DrainedInOrder ==
  ASSUME IInv, PageInOrder, \A r \in Runs : RunInOrder(r), NEW r \in Runs, Drained(r)
  PROVE  PageInOrder' /\ \A s \in Runs : RunInOrder(s)'
<1>0. /\ page \in Page /\ link \in [Runs -> Link] /\ page' = Done(page)
      /\ serverless /\ serverless' = serverless /\ taken' = taken /\ wire' = wire
      /\ link[r] = "open" /\ link' = [link EXCEPT ![r] = "over"]
      /\ taken[r] = StreamEnd /\ wire[r] = <<>> /\ Len(wire[r]) = 0
      /\ Follows(r)
  BY DEF IInv, TypeOK, Drained, Follows, server
<1>1. link'[r] = "over" /\ \A s \in Runs \ {r} : link'[s] = link[s]
  BY <1>0
<1>2. Stops(page, page') /\ (~page'.running => ~page.running \/ page.queue = <<>>)
  BY <1>0, StopFacts
<1>3. /\ InOrder(page)' /\ Read(page)' = Read(page) /\ (Over(page) => Over(page)')
      /\ page'.run = page.run /\ page'.ended = page.ended /\ page'.shown = page.shown
  BY <1>2, StopsKeep DEF PageInOrder, Stops
<1>4. page.run = r /\ Read(page) = StreamEnd
  <2>1. page.run = r /\ taken[r] - Len(wire[r]) = Read(page)
    BY <1>0 DEF RunInOrder
  <2>2. StreamEnd - 0 = StreamEnd
    BY Numbers
  <2> QED BY <1>0, <2>1, <2>2, Zenon
<1>5. ~page'.running => Over(page')
  <2>1. page.queue = <<>> => Over(page)
    <3>1. page.queue = <<>> => Len(page.queue) = 0 /\ Len(page.shown) \in Nat
      BY <1>0 DEF Page
    <3> QED BY <1>4, <3>1, Numbers DEF Read, Over
  <2>2. ~page.running => Over(page)
    BY <1>0, <1>4, Numbers DEF PageInOrder
  <2> QED BY <1>2, <1>3, <2>1, <2>2
<1>6. PageInOrder'
  BY <1>3, <1>5 DEF PageInOrder
<1>7. \A s \in Runs : WireInOrder(s)' /\ (Follows(s)' => Follows(s))
  BY <1>0, <1>1 DEF RunInOrder, WireInOrder, Follows
<1>8. \A s \in Runs : RunInOrder(s)'
  BY <1>0, <1>1, <1>3, <1>7 DEF RunInOrder
<1> QED BY <1>6, <1>8

(* Without a break nothing is left behind and nothing is opened again.      *)
LEMMA NothingBroken ==
  ASSUME IInv, [Next]_vars, Untroubled'
  PROVE  /\ Untroubled
         /\ \A r \in Runs : ~(Steal(r) \/ Expire(r) \/ Reconnect(r) \/ RetryFails(r))
         /\ \A r \in Runs : ~(BreakReader(r) \/ BreakStream(r))
<1>0. breaks \in Nat /\ orphans \in [Runs -> 0..MaxBreaks] /\ BreaksCounted /\ breaks' = 0
  BY Numbers DEF IInv, TypeOK, Untroubled
<1>1. \A r \in Runs : ~(BreakReader(r) \/ BreakStream(r))
  BY <1>0 DEF BreakReader, BreakStream, BreakOf
<1>2. breaks' = breaks /\ (overlapped => overlapped')
  <2>1. CASE Click
    BY <2>1, Zenon DEF Click
  <2>2. CASE Timer
    BY <2>2 DEF Timer
  <2>3. ASSUME NEW r \in Runs, Progress(r) \/ Steal(r) \/ Expire(r) \/ RetryFails(r)
        PROVE  breaks' = breaks /\ overlapped' = overlapped
    BY <2>3 DEF Progress, Answered, Refused, Serve, Receive, Drained, Reconnect, Steal, Expire,
                RetryFails
  <2>4. CASE UNCHANGED vars
    BY <2>4 DEF vars
  <2> QED BY <1>1, <2>1, <2>2, <2>3, <2>4 DEF Next
<1>3. \A r \in Runs : ~(orphans[r] > 0) /\ link[r] # "lost"
  BY <1>0, <1>2 DEF BreaksCounted
<1>4. \A r \in Runs : ~(Steal(r) \/ Expire(r) \/ Reconnect(r) \/ RetryFails(r))
  BY <1>3 DEF Steal, Expire, Reconnect, RetryFails
<1> QED BY <1>0, <1>1, <1>2, <1>4 DEF Untroubled

LEMMA OrderStep == IInv /\ [Next]_vars => PlaysInOrder'
<1> SUFFICES ASSUME IInv, [Next]_vars, Untroubled'
             PROVE  PageInOrder' /\ \A r \in Runs : RunInOrder(r)'
  BY DEF PlaysInOrder, PageInOrder, RunInOrder
<1>0. PageInOrder /\ \A r \in Runs : RunInOrder(r)
  BY NothingBroken, InParts DEF IInv
<1>1. CASE Click
  BY <1>0, <1>1, ClickInOrder
<1>2. CASE Timer
  BY <1>0, <1>2, TimerInOrder
<1>3. ASSUME NEW r \in Runs, Progress(r)
      PROVE  PageInOrder' /\ \A s \in Runs : RunInOrder(s)'
  BY <1>0, <1>3, AnsweredInOrder, RefusedInOrder, ServeInOrder, ReceiveInOrder, DrainedInOrder,
     NothingBroken DEF Progress
<1>4. CASE UNCHANGED vars
  BY <1>0, <1>4
     DEF vars, server, PageInOrder, RunInOrder, WireInOrder, Follows
<1> QED BY <1>1, <1>2, <1>3, <1>4, NothingBroken DEF Next

LEMMA InvStep == IInv /\ [Next]_vars => IInv'
<1> SUFFICES ASSUME IInv, [Next]_vars PROVE IInv'
  OBVIOUS
<1>1. TypeOK' /\ NothingEarly' /\ BreaksCounted' /\ PlaysInOrder'
  BY TypeStep, EarlyStep, OrderStep
<1>2. WiresApart' /\ StreamApart' /\ Unqueued(page)' /\ (serverless => page.es = 0)'
  BY ApartStep
<1> QED BY <1>1, <1>2 DEF IInv

(* IInv is an invariant of the page.                                        *)
THEOREM Invariance == Spec => []IInv
BY InvInit, InvStep, PTL DEF Spec

(* The page, its requests and the drains of the server keep their types.    *)
THEOREM TypeCorrect == Spec => []TypeOK
<1>1. IInv => TypeOK
  BY DEF IInv
<1> QED BY <1>1, Invariance, PTL

(* However many events and clicks there are, as long as no connection broke *)
(* and the display was never reset while a request of an earlier run was    *)
(* open, the page draws one run's events in order, each once, and all of    *)
(* them by the time the button is back.  With breaks or such an overlap     *)
(* what is left is that an EventSource never draws another run's events:    *)
(* the click of main.js and the transport of run.js.                        *)
THEOREM OneRunIsPlayed == Spec => []PlaysOneRun
<1>1. IInv => PlaysOneRun
  <2> SUFFICES ASSUME IInv PROVE PlaysOneRun
    OBVIOUS
  <2>1. page.shown \in Seq(Event)
    BY DEF IInv, TypeOK, Page
  <2>2. ~serverless => \A i \in DOMAIN page.shown : page.shown[i][1] = page.run
    BY DEF IInv, StreamApart, OfRun
  <2>3. ASSUME Untroubled
        PROVE  /\ page.shown = [i \in DOMAIN page.shown |-> <<page.run, i>>]
               /\ ~page.running /\ page.run # 0 /\ link[page.run] # "refused"
                    => Len(page.shown) >= NumEvents
    <3>1. PageInOrder
      BY <2>3, InParts DEF IInv
    <3>2. \A i \in DOMAIN page.shown : page.shown[i] = <<page.run, i>>
      BY <3>1 DEF PageInOrder, InOrder
    <3>3. page.shown = [i \in DOMAIN page.shown |-> page.shown[i]]
      BY <2>1
    <3> QED BY <3>1, <3>2, <3>3 DEF PageInOrder, Over
  <2> QED BY <2>2, <2>3 DEF PlaysOneRun
<1> QED BY <1>1, Invariance, PTL
=============================================================================
