---------------------------- MODULE StartupProofs ----------------------------
(***************************************************************************)
(* Proofs about Startup, for pipes of every size and any number of          *)
(* requests.  Order says which objects exist at each step of                *)
(* links_softsim_init and behind which task; Started that a request exists  *)
(* only after a start, which came in time or left a mishap; Resets that     *)
(* only a core that was reset confirms a reset.                             *)
(***************************************************************************)
EXTENDS Startup, SequenceTheorems, TLAPS

Pipes == {"mainPipe", "cosPipe"}

(* What exists at each step of links_softsim_init, and behind each task. *)
Order ==
    /\ entry \notin {"mainPipe", "failed"} => "mainPipe" \in made
    /\ entry \notin {"mainPipe", "mainTask", "cosPipe", "failed"} => "cosPipe" \in made
    /\ entry \in {"rstSem", "atHandler", "done"} =>
           "dataSem" \in made \/ "semLost" \in mishaps
    /\ entry \in {"atHandler", "done"} => "rstSem" \in made \/ "semLost" \in mishaps
    /\ "atHandler" \in made => entry = "done"
    /\ main # Off => "mainPipe" \in made
    /\ cos # Off => Pipes \subseteq made

(* A request comes from a card that was started. *)
Started ==
    /\ session => "mainPipe" \in made
    /\ session /\ mishaps = {} => Pipes \cup Sems \subseteq made
    /\ handler.pc # "idle" => session
    /\ main \in Events \/ mainQueue # <<>> => session
    /\ cos \in Events \/ cosQueue # <<>> => session

(* The confirmation of a reset, on its way to the semaphore. *)
Confirms(e) == e \in Events /\ e.done /\ e.kind = "reset"
Resets ==
    /\ Confirms(main) => coreOn
    /\ \A k \in 1 .. Len(mainQueue) : Confirms(mainQueue[k]) => coreOn
    /\ count["rstSem"] > 0 => coreOn

Promises == PipesBeforeReaders /\ CompleteStart /\ ConnectedCoreOn

IInv == TypeOK /\ Order /\ Started /\ Resets /\ Promises

\* A pipe keeps what was sent in its order.
LEMMA Pipe ==
  ASSUME NEW q \in Seq(Events)
  PROVE  /\ \A e \in Events :
              /\ Append(q, e) \in Seq(Events) /\ Len(Append(q, e)) = Len(q) + 1
              /\ Append(q, e) # <<>>
              /\ \A k \in 1 .. Len(q) + 1 :
                    (Append(q, e)[k] = q[k] /\ k \in 1 .. Len(q)) \/ Append(q, e)[k] = e
         /\ q # <<>> =>
              /\ Head(q) \in Events /\ Head(q) = q[1] /\ 1 \in 1 .. Len(q)
              /\ Tail(q) \in Seq(Events) /\ Len(Tail(q)) = Len(q) - 1
              /\ \A k \in 1 .. Len(q) - 1 : Tail(q)[k] = q[k + 1] /\ k + 1 \in 1 .. Len(q)
<1>1. ASSUME NEW e \in Events
      PROVE  /\ Append(q, e) \in Seq(Events) /\ Len(Append(q, e)) = Len(q) + 1
             /\ \A k \in 1 .. Len(q) + 1 :
                    (Append(q, e)[k] = q[k] /\ k \in 1 .. Len(q)) \/ Append(q, e)[k] = e
  OBVIOUS
<1>2. \A e \in Events : Append(q, e) # <<>>
  BY <1>1
<1>3. q # <<>> =>
        /\ Head(q) \in Events /\ Head(q) = q[1] /\ 1 \in 1 .. Len(q)
        /\ Tail(q) \in Seq(Events) /\ Len(Tail(q)) = Len(q) - 1
        /\ \A k \in 1 .. Len(q) - 1 : Tail(q)[k] = q[k + 1] /\ k + 1 \in 1 .. Len(q)
  OBVIOUS
<1> QED
  BY <1>1, <1>2, <1>3

\* A task in hand of nothing is no event.
LEMMA NoEvent == Off \notin Events /\ New \notin Events /\ Idle \notin Events
  BY DEF Off, New, Idle, Events, Requests

\* Nothing exists and nobody runs.
LEMMA InitIInv == Init => IInv
<1> SUFFICES ASSUME Init PROVE IInv
  OBVIOUS
<1>1. main \notin Events /\ cos \notin Events /\ mainQueue = <<>> /\ cosQueue = <<>>
  BY NoEvent DEF Init
<1>2. TypeOK
  <2>1. mainQueue \in Seq(Events) /\ Len(mainQueue) = 0
    BY <1>1
  <2>2. cosQueue \in Seq(Events) /\ Len(cosQueue) = 0
    BY <1>1
  <2>3. handler \in [pc : {"idle", "post", "wait"}, kind : Requests]
    BY DEF Init, Requests
  <2>4. count \in [Sems -> Nat]
    BY DEF Init
  <2>5. entry \in EntryAt
    BY DEF Init, EntryAt, Objects
  <2>6. QueueSize \in Nat /\ MaxRequests \in Nat
    BY StartupAssumption
  <2>7. main \in Events \cup {Off, New, Idle} /\ cos \in Events \cup {Off, New, Idle}
    BY DEF Init
  <2>8. ready \in BOOLEAN /\ session \in BOOLEAN /\ connected \in BOOLEAN /\ coreOn \in BOOLEAN
    BY DEF Init
  <2> QED
    BY <2>1, <2>2, <2>3, <2>4, <2>5, <2>6, <2>7, <2>8 DEF Init, TypeOK
<1>3. Order /\ Started
  BY <1>1 DEF Init, Order, Started
<1>4. Resets
  BY <1>1 DEF Init, Resets, Confirms, Sems
<1>5. Promises
  BY DEF Init, Promises, PipesBeforeReaders, CompleteStart, ConnectedCoreOn
<1> QED
  BY <1>2, <1>3, <1>4, <1>5 DEF IInv

(* A step of links_softsim_init, but for the task that it creates: an object *)
(* more, or a mishap more, or the end.                                      *)
Steps == {<<"mainPipe", "mainTask">>, <<"mainTask", "cosPipe">>,
          <<"cosPipe", "cosTask">>, <<"cosTask", "dataSem">>,
          <<"dataSem", "rstSem">>, <<"rstSem", "atHandler">>, <<"atHandler", "done">>}

Adds(o, next) ==
    /\ entry = o
    /\ \/ made' = made \cup {o} /\ entry' = next /\ mishaps' = mishaps
       \/ o \notin Sems /\ made' = made /\ entry' = "failed" /\ mishaps' = mishaps
       \/ /\ o \in Sems /\ made' = made /\ entry' = next
          /\ mishaps' = mishaps \cup {"semLost"}
    /\ UNCHANGED <<ready, session, handler, mainQueue, cosQueue, count,
                   connected, coreOn, requests, missed>>

\* A pipe, a task or the AT handler.
LEMMA CreatesAdds ==
  ASSUME NEW o, NEW next, o \notin Sems, Creates(o, next) PROVE Adds(o, next)
  BY DEF Creates, Adds, pipes, state

\* links_softsim_init goes on.
LEMMA LinksInitAdds ==
  ASSUME LinksInit
  PROVE  \E o, next : /\ <<o, next>> \in Steps /\ Adds(o, next)
                      /\ main' = main \/ (main' \in {Off, New} /\ o = "mainTask")
                      /\ cos' = cos \/ (cos' \in {Off, New} /\ o = "cosTask")
<1>1. ASSUME NEW o, NEW next, o \in Sems, CreateSem(o, next)
      PROVE  Adds(o, next) /\ main' = main /\ cos' = cos
  BY <1>1, Zenon DEF CreateSem, Adds, threads, pipes, state
<1>2. CASE CreatePipe("mainPipe", "mainTask")
  <2>1. Creates("mainPipe", "mainTask") /\ "mainPipe" \notin Sems
    BY <1>2 DEF CreatePipe, Sems
  <2>2. <<"mainPipe", "mainTask">> \in Steps
    BY DEF Steps
  <2>3. Adds("mainPipe", "mainTask")
    BY <2>1, CreatesAdds
  <2>4. main' = main /\ cos' = cos
    BY <1>2 DEF CreatePipe
  <2> QED
    BY <2>2, <2>3, <2>4, Zenon
<1>3. CASE CreateMain
  <2>1. Creates("mainTask", "cosPipe") /\ "mainTask" \notin Sems
    BY <1>3 DEF CreateMain, Sems
  <2>2. <<"mainTask", "cosPipe">> \in Steps
    BY DEF Steps
  <2>3. Adds("mainTask", "cosPipe")
    BY <2>1, CreatesAdds
  <2>4. (main' = Off \/ main' = New) /\ cos' = cos
    BY <1>3 DEF CreateMain
  <2> QED
    BY <2>2, <2>3, <2>4, Zenon
<1>4. CASE CreatePipe("cosPipe", "cosTask")
  <2>1. Creates("cosPipe", "cosTask") /\ "cosPipe" \notin Sems
    BY <1>4 DEF CreatePipe, Sems
  <2>2. <<"cosPipe", "cosTask">> \in Steps
    BY DEF Steps
  <2>3. Adds("cosPipe", "cosTask")
    BY <2>1, CreatesAdds
  <2>4. main' = main /\ cos' = cos
    BY <1>4 DEF CreatePipe
  <2> QED
    BY <2>2, <2>3, <2>4, Zenon
<1>5. CASE CreateCos
  <2>1. Creates("cosTask", "dataSem") /\ "cosTask" \notin Sems
    BY <1>5 DEF CreateCos, Sems
  <2>2. <<"cosTask", "dataSem">> \in Steps
    BY DEF Steps
  <2>3. Adds("cosTask", "dataSem")
    BY <2>1, CreatesAdds
  <2>4. main' = main /\ (cos' = Off \/ cos' = New)
    BY <1>5 DEF CreateCos
  <2> QED
    BY <2>2, <2>3, <2>4, Zenon
<1>6. CASE CreateSem("dataSem", "rstSem")
  <2>1. <<"dataSem", "rstSem">> \in Steps /\ "dataSem" \in Sems
    BY DEF Steps, Sems
  <2> QED
    BY <1>1, <1>6, <2>1, Zenon
<1>7. CASE CreateSem("rstSem", "atHandler")
  <2>1. <<"rstSem", "atHandler">> \in Steps /\ "rstSem" \in Sems
    BY DEF Steps, Sems
  <2> QED
    BY <1>1, <1>7, <2>1, Zenon
<1>8. CASE Register("done")
  <2>1. Creates("atHandler", "done") /\ "atHandler" \notin Sems
    BY <1>8 DEF Register, Sems
  <2>2. <<"atHandler", "done">> \in Steps
    BY DEF Steps
  <2>3. Adds("atHandler", "done")
    BY <2>1, CreatesAdds
  <2>4. main' = main /\ cos' = cos
    BY <1>8 DEF Register
  <2> QED
    BY <2>2, <2>3, <2>4, Zenon
<1> QED
  BY <1>2, <1>3, <1>4, <1>5, <1>6, <1>7, <1>8 DEF LinksInit

\* A started card finds what it found, and the steps find their objects.
LEMMA LinksInitStep ==
  ASSUME IInv, LinksInit PROVE IInv'
<1>1. PICK o, next :
        /\ <<o, next>> \in Steps /\ Adds(o, next)
        /\ main' = main \/ (main' \in {Off, New} /\ o = "mainTask")
        /\ cos' = cos \/ (cos' \in {Off, New} /\ o = "cosTask")
  BY LinksInitAdds
<1>2. /\ made \subseteq made' /\ mishaps \subseteq mishaps'
      /\ made' \subseteq Objects /\ mishaps' \subseteq Mishaps /\ entry' \in EntryAt
  BY <1>1 DEF Adds, Steps, IInv, TypeOK, EntryAt, Objects, Sems, Mishaps
<1>3. UNCHANGED <<ready, session, handler, mainQueue, cosQueue, count,
                  connected, coreOn, requests, missed>>
  BY <1>1 DEF Adds
<1>4. TypeOK'
  BY <1>1, <1>2, <1>3 DEF IInv, TypeOK
<1>5. Order'
  <2>1. Order
    BY DEF IInv
  <2> QED
    BY <1>1, <2>1 DEF Adds, Steps, Order, Sems, Pipes
<1>6. Started'
  <2>1. (main' \in Events => main \in Events) /\ (cos' \in Events => cos \in Events)
    BY <1>1, NoEvent
  <2> QED
    BY <1>2, <1>3, <2>1 DEF IInv, Started
<1>7. Resets'
  BY <1>1, <1>3, NoEvent DEF IInv, Resets, Confirms
<1>8. Promises'
  BY <1>2, <1>3 DEF IInv, Promises, PipesBeforeReaders, CompleteStart, ConnectedCoreOn
<1> QED
  BY <1>4, <1>5, <1>6, <1>7, <1>8 DEF IInv

\* The card is started when the AT handler is there, or when MAIN is.
LEMMA StartStep ==
  ASSUME IInv, MainReady \/ AtStart PROVE IInv'
<1>1. /\ UNCHANGED <<entry, made, handler, main, cos, mainQueue, cosQueue, count,
                      connected, coreOn, requests, missed>>
      /\ ready' \in BOOLEAN /\ session' \in BOOLEAN
      /\ mishaps' = mishaps \/ mishaps' = mishaps \cup {"early"}
      /\ session' = session \/ (session' /\ (main = Idle \/ "atHandler" \in made))
      /\ session' = session \/ entry = "done" \/ "early" \in mishaps' \/ "atHandler" \in made
  BY DEF MainReady, AtStart, threads, pipes, state, IInv, TypeOK
<1>2. TypeOK'
  BY <1>1 DEF IInv, TypeOK, Mishaps
<1>3. Order'
  BY <1>1 DEF IInv, Order
<1>4. Started'
  <2>1. session' => "mainPipe" \in made
    <3>1. Idle # Off
      BY DEF Idle, Off
    <3>2. "atHandler" \in made => "mainPipe" \in made
      BY DEF IInv, Order
    <3> QED
      BY <1>1, <3>1, <3>2 DEF IInv, Started, Order
  <2>2. session' /\ mishaps' = {} => Pipes \cup Sems \subseteq made
    BY <1>1 DEF IInv, Started, Order, Pipes, Sems
  <2>3. session => session'
    BY <1>1
  <2> QED
    BY <1>1, <2>1, <2>2, <2>3 DEF IInv, Started
<1>5. Resets'
  BY <1>1 DEF IInv, Resets, Confirms
<1>6. Promises'
  BY <1>1 DEF IInv, Promises, PipesBeforeReaders, CompleteStart, ConnectedCoreOn
<1> QED
  BY <1>2, <1>3, <1>4, <1>5, <1>6 DEF IInv

\* A request comes from a started card.
LEMMA IndicationStep ==
  ASSUME IInv, NEW kind \in Requests, Indication(kind) PROVE IInv'
<1>1. /\ UNCHANGED <<entry, made, ready, session, main, cos, mainQueue, cosQueue,
                      count, connected, coreOn, missed, mishaps>>
      /\ session /\ handler' = [pc |-> "post", kind |-> kind]
      /\ requests < MaxRequests /\ requests' = requests + 1
  BY DEF Indication, setup, pipes
<1>2. requests' \in 0 .. MaxRequests
  BY <1>1, StartupAssumption DEF IInv, TypeOK
<1>3. TypeOK'
  BY <1>1, <1>2 DEF IInv, TypeOK
<1>4. Order' /\ Started'
  BY <1>1 DEF IInv, Order, Started
<1>5. Resets'
  BY <1>1 DEF IInv, Resets, Confirms
<1>6. Promises'
  BY <1>1 DEF IInv, Promises, PipesBeforeReaders, CompleteStart, ConnectedCoreOn
<1> QED
  BY <1>3, <1>4, <1>5, <1>6 DEF IInv
\* The callback posts its request to MAIN's pipe, which exists.
LEMMA PostStep ==
  ASSUME IInv, Post PROVE IInv'
<1>1. session /\ "mainPipe" \in made /\ handler.pc = "post"
  BY DEF Post, IInv, Started
<1> DEFINE e == [kind |-> handler.kind, done |-> FALSE]
<1>2. /\ UNCHANGED <<entry, made, ready, session, main, cos, cosQueue, count,
                      connected, coreOn, requests, mishaps, missed>>
      /\ Len(mainQueue) < QueueSize /\ mainQueue' = Append(mainQueue, e)
      /\ handler' = [handler EXCEPT !.pc = "wait"]
  BY <1>1 DEF Post, Send, Miss, setup, state
<1>3. e \in Events /\ ~Confirms(e) /\ handler' \in [pc : {"idle", "post", "wait"}, kind : Requests]
  BY <1>2 DEF Events, Confirms, IInv, TypeOK
<1> HIDE DEF e
<1>4. TypeOK'
  <2>1. mainQueue' \in Seq(Events) /\ Len(mainQueue') <= QueueSize
    BY <1>2, <1>3, Pipe, StartupAssumption DEF IInv, TypeOK
  <2> QED
    BY <1>2, <1>3, <2>1 DEF IInv, TypeOK
<1>5. Order' /\ Started'
  BY <1>1, <1>2 DEF IInv, Order, Started
<1>6. Resets'
  <2>1. \A k \in 1 .. Len(mainQueue') : Confirms(mainQueue'[k]) => coreOn
    BY <1>2, <1>3, Pipe DEF IInv, TypeOK, Resets
  <2> QED
    BY <1>2, <2>1 DEF IInv, Resets, Confirms
<1>7. Promises'
  BY <1>2 DEF IInv, Promises, PipesBeforeReaders, CompleteStart, ConnectedCoreOn
<1> QED
  BY <1>4, <1>5, <1>6, <1>7 DEF IInv

\* Using a semaphore: it exists, or the start was not in time.
LEMMA MissSem ==
  ASSUME IInv, session, NEW u \in {"callback", "main"}, NEW sem \in Sems, Miss(u, sem),
         UNCHANGED <<mishaps, coreOn>>,
         sem \in made /\ connected' => connected \/ coreOn
  PROVE  /\ Promises'
         /\ missed' \subseteq {"callback", "main", "cos"} \X Objects
<1>1. CASE sem \in made
  <2>1. missed' = missed
    BY <1>1 DEF Miss
  <2> QED
    BY <1>1, <2>1 DEF IInv, TypeOK, Promises, PipesBeforeReaders, CompleteStart, ConnectedCoreOn
<1>2. CASE sem \notin made
  <2>1. missed' = missed \cup {<<u, sem>>} /\ mishaps # {}
    BY <1>2 DEF Miss, IInv, Started
  <2>2. sem \notin {"mainPipe", "cosPipe"} /\ sem \in Objects
    BY DEF Sems, Objects
  <2>3. PipesBeforeReaders'
    <3> SUFFICES ASSUME NEW v \in {"callback", "main", "cos"}, NEW o \in {"mainPipe", "cosPipe"},
                        <<v, o>> \in missed'
                 PROVE  v = "main" /\ o = "cosPipe"
      BY DEF PipesBeforeReaders
    <3>1. <<v, o>> \in missed
      BY <2>1, <2>2
    <3> QED
      BY <3>1 DEF IInv, Promises, PipesBeforeReaders
  <2>4. CompleteStart' /\ ConnectedCoreOn'
    BY <2>1 DEF CompleteStart, ConnectedCoreOn
  <2> QED
    BY <2>1, <2>2, <2>3, <2>4 DEF IInv, TypeOK, Promises
<1> QED
  BY <1>1, <1>2

\* Taking the semaphore of a reset connects a core that was reset.
LEMMA TakeStep ==
  ASSUME IInv, Take PROVE IInv'
<1> DEFINE sem == SemOf(handler.kind)
<1>1. /\ handler \in [pc : {"idle", "post", "wait"}, kind : Requests]
      /\ session /\ sem \in Sems /\ (handler.kind = "reset" => sem = "rstSem")
      /\ count \in [Sems -> Nat]
  BY DEF Take, IInv, TypeOK, Started, SemOf, Sems, Requests
<1>2. /\ UNCHANGED <<entry, made, ready, session, main, cos, mainQueue, cosQueue,
                      coreOn, requests, mishaps>>
      /\ sem \in made => count[sem] > 0
      /\ count' = IF sem \in made THEN [count EXCEPT ![sem] = @ - 1] ELSE count
      /\ connected' = (connected \/ handler.kind = "reset")
      /\ handler' = [handler EXCEPT !.pc = "idle"]
      /\ Miss("callback", sem)
  BY DEF Take, Unless, setup, pipes
<1>3. sem \in made /\ connected' => connected \/ coreOn
  BY <1>1, <1>2 DEF IInv, Resets
<1>4. handler' \in [pc : {"idle", "post", "wait"}, kind : Requests] /\ handler'.pc = "idle"
  BY <1>1, <1>2
<1>5. count' \in [Sems -> Nat] /\ (count'["rstSem"] > 0 => count["rstSem"] > 0)
  BY <1>1, <1>2 DEF Sems
<1> HIDE DEF sem
<1>6. Promises' /\ missed' \subseteq {"callback", "main", "cos"} \X Objects
  BY <1>1, <1>2, <1>3, MissSem
<1>7. connected' \in BOOLEAN
  BY <1>2 DEF IInv, TypeOK
<1>8. TypeOK'
  BY <1>2, <1>4, <1>5, <1>6, <1>7 DEF IInv, TypeOK
<1>9. Order' /\ Started'
  BY <1>2, <1>4 DEF IInv, Order, Started
<1>10. Resets'
  BY <1>2, <1>5 DEF IInv, Resets, Confirms
<1> QED
  BY <1>6, <1>8, <1>9, <1>10 DEF IInv
\* The tasks enter their loops with the pipe that was there before them.
LEMMA EnterStep ==
  ASSUME IInv, MainEnter \/ CosEnter PROVE IInv'
<1>1. /\ UNCHANGED <<entry, made, ready, session, handler, mainQueue, cosQueue, count,
                      connected, coreOn, requests, mishaps, missed>>
      /\ main' = main \/ (main = New /\ main' = Idle)
      /\ cos' = cos \/ (cos = New /\ cos' = Idle)
  <2>1. New # Off
    BY DEF New, Off
  <2>2. CASE MainEnter
    <3>1. "mainPipe" \in made
      BY <2>1, <2>2 DEF MainEnter, IInv, Order
    <3> QED
      BY <2>2, <3>1 DEF MainEnter, Miss, setup, pipes, state
  <2>3. CASE CosEnter
    <3>1. "cosPipe" \in made
      BY <2>1, <2>3 DEF CosEnter, IInv, Order, Pipes
    <3> QED
      BY <2>3, <3>1 DEF CosEnter, Miss, setup, pipes, state
  <2> QED
    BY <2>2, <2>3
<1>2. TypeOK'
  BY <1>1 DEF IInv, TypeOK
<1>3. New # Off
  BY DEF New, Off
<1>4. Order' /\ Started' /\ Resets'
  BY <1>1, <1>3, NoEvent DEF IInv, Order, Started, Resets, Confirms
<1>5. Promises'
  BY <1>1 DEF IInv, Promises, PipesBeforeReaders, CompleteStart, ConnectedCoreOn
<1> QED
  BY <1>2, <1>4, <1>5 DEF IInv

\* A task takes the event at the head of its pipe.
LEMMA GetStep ==
  ASSUME IInv, MainGet \/ CosGet PROVE IInv'
<1>1. /\ UNCHANGED <<entry, made, ready, session, handler, count,
                      connected, coreOn, requests, mishaps, missed>>
      /\ session
      /\ \/ /\ main = Idle /\ mainQueue # <<>>
            /\ main' = Head(mainQueue) /\ mainQueue' = Tail(mainQueue)
            /\ UNCHANGED <<cos, cosQueue>>
         \/ /\ cos = Idle /\ cosQueue # <<>>
            /\ cos' = Head(cosQueue) /\ cosQueue' = Tail(cosQueue)
            /\ UNCHANGED <<main, mainQueue>>
  BY DEF MainGet, CosGet, setup, state, IInv, Started
<1>2. /\ mainQueue \in Seq(Events) /\ Len(mainQueue) <= QueueSize
      /\ cosQueue \in Seq(Events) /\ Len(cosQueue) <= QueueSize /\ QueueSize \in Nat
  BY StartupAssumption DEF IInv, TypeOK
<1>3. Idle # Off
  BY DEF Idle, Off
<1>4. /\ mainQueue' \in Seq(Events) /\ Len(mainQueue') <= QueueSize
      /\ cosQueue' \in Seq(Events) /\ Len(cosQueue') <= QueueSize
      /\ main' \in Events \cup {main} /\ cos' \in Events \cup {cos}
  <2>1. ASSUME NEW q \in Seq(Events), q # <<>>, Len(q) <= QueueSize
        PROVE  Head(q) \in Events /\ Tail(q) \in Seq(Events) /\ Len(Tail(q)) <= QueueSize
    BY <1>2, <2>1, Pipe
  <2> QED
    BY <1>1, <1>2, <2>1
<1>5. TypeOK'
  BY <1>1, <1>4 DEF IInv, TypeOK
<1>6. Order' /\ Started'
  BY <1>1, <1>3 DEF IInv, Order, Started
<1>7. Resets'
  <2>1. CASE UNCHANGED <<main, mainQueue>>
    BY <1>1, <2>1 DEF IInv, Resets, Confirms
  <2>2. CASE main' = Head(mainQueue) /\ mainQueue' = Tail(mainQueue) /\ mainQueue # <<>>
    <3>1. Confirms(main') => coreOn
      BY <1>2, <2>2, Pipe DEF IInv, Resets
    <3>2. \A k \in 1 .. Len(mainQueue') : Confirms(mainQueue'[k]) => coreOn
      BY <1>2, <2>2, Pipe DEF IInv, Resets
    <3> QED
      BY <1>1, <3>1, <3>2 DEF IInv, Resets, Confirms
  <2> QED
    BY <1>1, <2>1, <2>2
<1>8. Promises'
  BY <1>1 DEF IInv, Promises, PipesBeforeReaders, CompleteStart, ConnectedCoreOn
<1> QED
  BY <1>5, <1>6, <1>7, <1>8 DEF IInv

\* MAIN hands a request to COS; without COS's pipe it is lost.
LEMMA DispatchStep ==
  ASSUME IInv, MainDispatch PROVE IInv'
<1>1. /\ UNCHANGED <<entry, made, ready, session, handler, cos, mainQueue, count,
                      connected, coreOn, requests, mishaps>>
      /\ session /\ main \in Events /\ main' = Idle
      /\ Len(cosQueue) < QueueSize
      /\ cosQueue' = IF "cosPipe" \in made THEN Append(cosQueue, main) ELSE cosQueue
      /\ Miss("main", "cosPipe")
  BY DEF MainDispatch, Send, setup, state, IInv, Started
<1>2. cosQueue' \in Seq(Events) /\ Len(cosQueue') <= QueueSize
  BY <1>1, Pipe, StartupAssumption DEF IInv, TypeOK
<1>3. missed' \subseteq missed \cup {<<"main", "cosPipe">>}
  BY <1>1 DEF Miss
<1>4. TypeOK'
  BY <1>1, <1>2, <1>3 DEF IInv, TypeOK, Objects
<1>5. main # Off
  BY <1>1, NoEvent
<1>6. Order' /\ Started'
  BY <1>1, <1>5, NoEvent DEF IInv, Order, Started
<1>7. Resets'
  BY <1>1, NoEvent DEF IInv, Resets, Confirms
<1>8. Promises'
  <2>1. PipesBeforeReaders'
    BY <1>3 DEF IInv, Promises, PipesBeforeReaders
  <2>2. mishaps = {} => missed' = missed
    BY <1>1 DEF Miss, IInv, Started, Pipes
  <2>3. missed \subseteq missed'
    BY <1>1 DEF Miss
  <2> QED
    BY <1>1, <2>1, <2>2, <2>3 DEF IInv, Promises, CompleteStart, ConnectedCoreOn
<1> QED
  BY <1>4, <1>6, <1>7, <1>8 DEF IInv

\* MAIN gives the semaphore of a request that is done.
LEMMA GiveStep ==
  ASSUME IInv, MainGive PROVE IInv'
<1> DEFINE sem == SemOf(main.kind)
<1>1. /\ main \in Events /\ main.done /\ main.kind \in Requests
      /\ session /\ sem \in Sems /\ (sem = "rstSem" => main.kind = "reset")
      /\ count \in [Sems -> Nat]
  BY DEF MainGive, IInv, TypeOK, Started, SemOf, Sems, Requests, Events
<1>2. /\ UNCHANGED <<entry, made, ready, session, handler, cos, mainQueue, cosQueue,
                      connected, coreOn, requests, mishaps>>
      /\ main' = Idle
      /\ count' = IF sem \in made THEN [count EXCEPT ![sem] = @ + 1] ELSE count
      /\ Miss("main", sem)
  BY DEF MainGive, Unless, setup, pipes, state
<1>3. count' \in [Sems -> Nat] /\ (count'["rstSem"] > 0 => coreOn)
  <2>1. sem = "rstSem" => coreOn
    BY <1>1 DEF IInv, Resets, Confirms
  <2>2. count' \in [Sems -> Nat]
    BY <1>1, <1>2
  <2>3. sem # "rstSem" => count'["rstSem"] = count["rstSem"]
    BY <1>1, <1>2 DEF Sems
  <2> QED
    BY <2>1, <2>2, <2>3 DEF IInv, Resets
<1> HIDE DEF sem
<1>4. Promises' /\ missed' \subseteq {"callback", "main", "cos"} \X Objects
  BY <1>1, <1>2, MissSem
<1>5. TypeOK'
  BY <1>2, <1>3, <1>4 DEF IInv, TypeOK
<1>6. main # Off
  BY <1>1, NoEvent
<1>7. Order' /\ Started'
  BY <1>2, <1>6, NoEvent DEF IInv, Order, Started
<1>8. Resets'
  BY <1>2, <1>3, NoEvent DEF IInv, Resets, Confirms
<1> QED
  BY <1>4, <1>5, <1>7, <1>8 DEF IInv

\* COS resets the core before it confirms a reset.
LEMMA NotifyStep ==
  ASSUME IInv, CosNotify PROVE IInv'
<1> DEFINE e == [cos EXCEPT !.done = TRUE]
<1>1. /\ session /\ cos \in Events /\ cos # Off /\ "mainPipe" \in made
      /\ e \in Events /\ e.kind = cos.kind
  BY NoEvent DEF CosNotify, IInv, Started, Order, Events
<1>2. /\ UNCHANGED <<entry, made, ready, session, handler, main, cosQueue, count,
                      connected, requests, mishaps, missed>>
      /\ Len(mainQueue) < QueueSize /\ mainQueue' = Append(mainQueue, e)
      /\ coreOn' = (coreOn \/ cos.kind = "reset") /\ cos' = Idle
  BY <1>1 DEF CosNotify, Send, Miss, setup
<1> HIDE DEF e
<1>3. coreOn' \in BOOLEAN /\ (coreOn => coreOn') /\ (Confirms(e) => coreOn')
  BY <1>1, <1>2 DEF IInv, TypeOK, Confirms
<1>4. mainQueue' \in Seq(Events) /\ Len(mainQueue') <= QueueSize /\ mainQueue' # <<>>
  BY <1>1, <1>2, Pipe, StartupAssumption DEF IInv, TypeOK
<1>5. TypeOK'
  BY <1>2, <1>3, <1>4 DEF IInv, TypeOK
<1>6. Order' /\ Started'
  BY <1>1, <1>2, NoEvent DEF IInv, Order, Started
<1>7. \A k \in 1 .. Len(mainQueue') : Confirms(mainQueue'[k]) => coreOn'
  BY <1>1, <1>2, <1>3, Pipe DEF IInv, TypeOK, Resets
<1>8. Resets'
  BY <1>2, <1>3, <1>7 DEF IInv, Resets, Confirms
<1>9. Promises'
  BY <1>2, <1>3 DEF IInv, Promises, PipesBeforeReaders, CompleteStart, ConnectedCoreOn
<1> QED
  BY <1>5, <1>6, <1>8, <1>9 DEF IInv

(* The inductive invariant holds in every reachable state. *)
THEOREM Inductive == Safety => []IInv
<1>1. IInv /\ [Next]_vars => IInv'
  <2> SUFFICES ASSUME IInv, [Next]_vars PROVE IInv'
    OBVIOUS
  <2>1. CASE UNCHANGED vars
    <3>1. UNCHANGED <<entry, made, ready, session, handler, main, cos, mainQueue, cosQueue,
                      count, connected, coreOn, requests, missed, mishaps>>
      BY <2>1 DEF vars, setup, threads, pipes, state
    <3> QED
      BY <3>1 DEF IInv, TypeOK, Order, Started, Resets, Confirms, Promises,
                  PipesBeforeReaders, CompleteStart, ConnectedCoreOn
  <2> QED
    BY <2>1, LinksInitStep, StartStep, IndicationStep, PostStep, TakeStep, EnterStep,
       GetStep, DispatchStep, GiveStep, NotifyStep
    DEF Next, HandlerStep, MainStep, CosStep
<1> QED
  BY <1>1, InitIInv, PTL DEF Safety

(* The objects, pipes and semaphores keep their types, whichever creation     *)
(* fails.                                                                   *)
THEOREM Types == Safety => []TypeOK
<1>1. IInv => TypeOK
  BY DEF IInv
<1> QED
  BY <1>1, Inductive, PTL

(* No task receives from a pipe that does not exist, and nobody sends to MAIN *)
(* before its pipe does.                                                    *)
THEOREM Readers == Safety => []PipesBeforeReaders
<1>1. IInv => PipesBeforeReaders
  BY DEF IInv, Promises
<1> QED
  BY <1>1, Inductive, PTL

(* A card that is started when links_softsim_init is done finds all it uses. *)
THEOREM Complete == Safety => []CompleteStart
<1>1. IInv => CompleteStart
  BY DEF IInv, Promises
<1> QED
  BY <1>1, Inductive, PTL

(* A connected card has a core that was reset. *)
THEOREM CoreOn == Safety => []ConnectedCoreOn
<1>1. IInv => ConnectedCoreOn
  BY DEF IInv, Promises
<1> QED
  BY <1>1, Inductive, PTL

------------------------------------------------------------------------------
(* No request is lost or doubled while nothing was missing.                  *)

LEMMA FlightNumbers ==
  TypeOK => /\ Len(mainQueue) \in Nat /\ Len(cosQueue) \in Nat
            /\ InHand(main) \in Nat /\ InHand(cos) \in Nat
            /\ count["dataSem"] \in Nat /\ count["rstSem"] \in Nat
            /\ DOMAIN mainQueue = 1 .. Len(mainQueue)
            /\ DOMAIN cosQueue = 1 .. Len(cosQueue)
  BY DEF TypeOK, InHand, Sems

LEMMA FlightSum ==
  TypeOK => /\ InFlight \in Nat
            /\ InFlight = 0 =>
                  /\ Len(mainQueue) = 0 /\ Len(cosQueue) = 0
                  /\ InHand(main) = 0 /\ InHand(cos) = 0
                  /\ count["dataSem"] = 0 /\ count["rstSem"] = 0
<1> SUFFICES ASSUME TypeOK
             PROVE  /\ InFlight \in Nat
                    /\ InFlight = 0 =>
                          /\ Len(mainQueue) = 0 /\ Len(cosQueue) = 0
                          /\ InHand(main) = 0 /\ InHand(cos) = 0
                          /\ count["dataSem"] = 0 /\ count["rstSem"] = 0
  OBVIOUS
<1> DEFINE h == InHand(main)
           i == InHand(cos)
           m == Len(mainQueue)
           n == Len(cosQueue)
           d == count["dataSem"]
           r == count["rstSem"]
<1>1. /\ h \in Nat /\ i \in Nat /\ m \in Nat /\ n \in Nat
      /\ d \in Nat /\ r \in Nat
  BY FlightNumbers
<1>2. InFlight = m + h + n + i + d + r
  BY DEF InFlight
<1> HIDE DEF h, i, m, n, d, r
<1>3. InFlight \in Nat
  BY <1>1, <1>2
<1>4. InFlight = 0 => m = 0 /\ h = 0 /\ n = 0 /\ i = 0 /\ d = 0 /\ r = 0
  BY <1>1, <1>2
<1> QED
  BY <1>3, <1>4 DEF h, i, m, n, d, r

\* Where nothing is in flight there is nothing anywhere.
LEMMA NothingInFlight ==
  ASSUME TypeOK, InFlight = 0
  PROVE  /\ mainQueue = <<>> /\ cosQueue = <<>>
         /\ main \notin Events /\ cos \notin Events
         /\ count["dataSem"] = 0 /\ count["rstSem"] = 0
<1>1. /\ Len(mainQueue) = 0 /\ Len(cosQueue) = 0
      /\ InHand(main) = 0 /\ InHand(cos) = 0
      /\ count["dataSem"] = 0 /\ count["rstSem"] = 0
  BY FlightSum
<1>2. mainQueue = <<>> /\ cosQueue = <<>>
  BY <1>1, EmptySeq DEF TypeOK
<1> QED
  BY <1>1, <1>2 DEF InHand

\* The history of what was missing only grows.
LEMMA MissedGrows == [Next]_vars => missed \subseteq missed'
<1> SUFFICES ASSUME [Next]_vars PROVE missed \subseteq missed'
  OBVIOUS
<1>1. CASE LinksInit
  BY <1>1, LinksInitAdds DEF Adds
<1>2. CASE MainReady \/ AtStart \/ (\E kind \in Requests : Indication(kind))
  BY <1>2 DEF MainReady, AtStart, Indication
<1>3. CASE HandlerStep \/ MainStep \/ CosStep
  BY <1>3 DEF HandlerStep, Post, Take, MainStep, MainEnter, MainGet,
              MainDispatch, MainGive, CosStep, CosEnter, CosGet, CosNotify, Miss
<1>4. CASE UNCHANGED vars
  BY <1>4 DEF vars
<1> QED
  BY <1>1, <1>2, <1>3, <1>4 DEF Next

\* A task that is still to be created does nothing.
NotYet ==
    /\ entry \in {"mainPipe", "mainTask"} => main = Off
    /\ entry \in {"mainPipe", "mainTask", "cosPipe", "cosTask"} => cos = Off

LEMMA TasksNotYet == Safety => []NotYet
<1>1. Init => NotYet
  BY DEF Init, NotYet
<1>2. NotYet /\ [Next]_vars => NotYet'
  <2> SUFFICES ASSUME NotYet, [Next]_vars PROVE NotYet'
    OBVIOUS
  <2>1. CASE LinksInit
    <3>1. PICK o, next :
              /\ <<o, next>> \in Steps /\ Adds(o, next)
              /\ main' = main \/ (main' \in {Off, New} /\ o = "mainTask")
              /\ cos' = cos \/ (cos' \in {Off, New} /\ o = "cosTask")
      BY <2>1, LinksInitAdds, Zenon
    <3>2. entry = o /\ (entry' = next \/ entry' = "failed")
      BY <3>1 DEF Adds
    <3> QED
      BY <3>1, <3>2 DEF Steps, NotYet
  <2>2. CASE MainReady \/ AtStart \/ (\E kind \in Requests : Indication(kind))
    <3>1. UNCHANGED <<entry, main, cos>>
      BY <2>2 DEF MainReady, AtStart, Indication, threads, setup
    <3> QED
      BY <3>1 DEF NotYet
  <2>3. CASE HandlerStep \/ MainStep \/ CosStep
    <3>1. entry' = entry
      BY <2>3 DEF HandlerStep, Post, Take, MainStep, MainEnter, MainGet,
                  MainDispatch, MainGive, CosStep, CosEnter, CosGet, CosNotify,
                  setup
    <3>2. New # Off /\ Idle # Off
      BY DEF New, Idle, Off
    <3>3. main' = main \/ main # Off
      BY <2>3, <3>2, NoEvent
         DEF HandlerStep, Post, Take, MainStep, MainEnter, MainGet,
             MainDispatch, MainGive, CosStep, CosEnter, CosGet, CosNotify
    <3>4. cos' = cos \/ cos # Off
      BY <2>3, <3>2, NoEvent
         DEF HandlerStep, Post, Take, MainStep, MainEnter, MainGet,
             MainDispatch, MainGive, CosStep, CosEnter, CosGet, CosNotify
    <3> QED
      BY <3>1, <3>3, <3>4 DEF NotYet
  <2>4. CASE UNCHANGED vars
    BY <2>4 DEF vars, setup, threads, NotYet
  <2> QED
    BY <2>1, <2>2, <2>3, <2>4 DEF Next
<1> QED
  BY <1>1, <1>2, PTL DEF Safety

\* What RequestKept says when nothing was missing.
Kept == /\ InFlight = IF handler.pc = "wait" THEN 1 ELSE 0
        /\ OfKind(handler.kind)

\* Steps of the entry, of a start and of a task's entry into its loop.
LEMMA KeptAside ==
  ASSUME Kept, UNCHANGED <<mainQueue, cosQueue, count>>,
         handler' = handler,
         main' = main \/ (main \notin Events /\ main' \notin Events),
         cos' = cos \/ (cos \notin Events /\ cos' \notin Events)
  PROVE  Kept'
<1>1. InHand(main)' = InHand(main) /\ InHand(cos)' = InHand(cos)
  BY DEF InHand
<1> QED
  BY <1>1 DEF Kept, InFlight, OfKind

\* An indication begins and a post starts the flight of one request.
LEMMA KeptBegin ==
  ASSUME TypeOK, TypeOK', Kept,
         missed' = {}, Post \/ (\E kind \in Requests : Indication(kind))
  PROVE  Kept'
<1>1. /\ mainQueue = <<>> /\ cosQueue = <<>>
      /\ main \notin Events /\ cos \notin Events
      /\ count["dataSem"] = 0 /\ count["rstSem"] = 0
  <2>1. InFlight = 0
    BY DEF Kept, Post, Indication
  <2> QED
    BY <2>1, NothingInFlight
<1>2. UNCHANGED <<main, cos, cosQueue, count>>
  BY DEF Post, Indication, setup, pipes
<1>3. Len(cosQueue) = 0 /\ InHand(main) = 0 /\ InHand(cos) = 0
  BY <1>1 DEF InHand
<1>4. CASE \E kind \in Requests : Indication(kind)
  <2>1. mainQueue' = mainQueue /\ handler'.pc = "post"
    BY <1>4 DEF Indication, pipes
  <2> QED
    BY <1>1, <1>2, <1>3, <2>1
       DEF Kept, InFlight, InHand, OfKind, TypeOK, Sems
<1>5. CASE Post
  <2> DEFINE e == [kind |-> handler.kind, done |-> FALSE]
  <2>1. e \in Events
    BY DEF Events, TypeOK
  <2>2. "mainPipe" \in made
    BY <1>5 DEF Post, Miss
  <2>3. /\ mainQueue' = Append(mainQueue, e)
        /\ handler'.pc = "wait" /\ handler'.kind = handler.kind
    BY <1>5, <2>2 DEF Post, Send, TypeOK
  <2>4. Len(mainQueue') = 1 /\ mainQueue'[1] = e
    BY <1>1, <2>1, <2>3
  <2>5. InFlight' = 1
    BY <1>1, <1>2, <1>3, <2>4 DEF InFlight, InHand
  <2>6. OfKind(handler.kind)'
    <3>1. \A k \in DOMAIN mainQueue' : mainQueue'[k].kind = handler.kind
      BY <2>4 DEF TypeOK
    <3> QED
      BY <1>1, <1>2, <2>3, <3>1 DEF OfKind, Sems
  <2> QED
    BY <2>3, <2>5, <2>6 DEF Kept
<1> QED
  BY <1>4, <1>5

LEMMA OneLess ==
  ASSUME NEW m \in Nat, NEW n, n = 1, m + 1 = n PROVE m = 0
  OBVIOUS

\* The semaphore of the callback ends the flight.
LEMMA KeptTake ==
  ASSUME TypeOK, TypeOK', Kept, missed' = {}, Take
  PROVE  Kept'
<1> DEFINE sem == SemOf(handler.kind)
<1>1. /\ sem \in made /\ count[sem] > 0 /\ sem \in Sems
      /\ count' = [count EXCEPT ![sem] = @ - 1]
      /\ handler.pc = "wait" /\ handler'.pc = "idle"
      /\ UNCHANGED <<main, cos, mainQueue, cosQueue>>
  BY DEF Take, Miss, Unless, SemOf, Sems, TypeOK, pipes
<1>2. /\ \/ sem = "dataSem" /\ count'["dataSem"] = count["dataSem"] - 1
            /\ count'["rstSem"] = count["rstSem"]
         \/ sem = "rstSem" /\ count'["rstSem"] = count["rstSem"] - 1
            /\ count'["dataSem"] = count["dataSem"]
  BY <1>1 DEF TypeOK, Sems
<1>3. InFlight = 1
  BY <1>1 DEF Kept
<1>4. /\ UNCHANGED <<InHand(main), InHand(cos), Len(mainQueue), Len(cosQueue)>>
  BY <1>1
<1>5. InFlight' = 0
  <2>1. InFlight' + 1 = InFlight
    <3>1. CASE sem = "dataSem"
      BY <1>2, <1>4, <3>1, FlightNumbers DEF InFlight
    <3>2. CASE sem = "rstSem"
      BY <1>2, <1>4, <3>2, FlightNumbers DEF InFlight
    <3> QED
      BY <1>2, <3>1, <3>2
  <2>2. InFlight' \in Nat
    <3>1. TypeOK' => (InFlight \in Nat)'
      BY ONLY FlightSum, PTL
    <3> QED
      BY <3>1, Zenon
  <2> QED
    BY <1>3, <2>1, <2>2, OneLess
<1>6. /\ mainQueue' = <<>> /\ cosQueue' = <<>>
      /\ main' \notin Events /\ cos' \notin Events
      /\ count'["dataSem"] = 0 /\ count'["rstSem"] = 0
  <2>1. TypeOK /\ InFlight = 0 =>
            /\ mainQueue = <<>> /\ cosQueue = <<>>
            /\ main \notin Events /\ cos \notin Events
            /\ count["dataSem"] = 0 /\ count["rstSem"] = 0
    BY NothingInFlight
  <2>2. (TypeOK /\ InFlight = 0)' =>
            (/\ mainQueue = <<>> /\ cosQueue = <<>>
             /\ main \notin Events /\ cos \notin Events
             /\ count["dataSem"] = 0 /\ count["rstSem"] = 0)'
    BY ONLY NothingInFlight, PTL
  <2> QED
    BY <1>5, <2>2
<1> QED
  BY <1>1, <1>5, <1>6 DEF Kept, OfKind, Sems

\* A task takes the request out of its pipe.
LEMMA KeptGet ==
  ASSUME TypeOK, TypeOK', Kept, MainGet \/ CosGet
  PROVE  Kept'
<1> USE FlightNumbers, Pipe, NoEvent
<1>1. CASE MainGet
  <2>1. /\ mainQueue # <<>> /\ main = Idle /\ mainQueue' = Tail(mainQueue)
        /\ main' = mainQueue[1] /\ main' \in Events /\ 1 \in DOMAIN mainQueue
        /\ Len(mainQueue') = Len(mainQueue) - 1
        /\ \A k \in DOMAIN mainQueue' :
              mainQueue'[k] = mainQueue[k + 1] /\ k + 1 \in DOMAIN mainQueue
        /\ UNCHANGED <<cos, cosQueue, count, handler>>
    BY <1>1 DEF MainGet, TypeOK
  <2>2. InHand(main) = 0 /\ InHand(main)' = 1 /\ InHand(cos)' = InHand(cos)
    BY <2>1 DEF InHand
  <2>3. InFlight' = InFlight
    BY <2>1, <2>2 DEF InFlight
  <2> QED
    BY <2>1, <2>3 DEF Kept, OfKind
<1>2. CASE CosGet
  <2>1. /\ cosQueue # <<>> /\ cos = Idle /\ cosQueue' = Tail(cosQueue)
        /\ cos' = cosQueue[1] /\ cos' \in Events /\ 1 \in DOMAIN cosQueue
        /\ Len(cosQueue') = Len(cosQueue) - 1
        /\ \A k \in DOMAIN cosQueue' :
              cosQueue'[k] = cosQueue[k + 1] /\ k + 1 \in DOMAIN cosQueue
        /\ UNCHANGED <<main, mainQueue, count, handler>>
    BY <1>2 DEF CosGet, TypeOK
  <2>2. InHand(cos) = 0 /\ InHand(cos)' = 1 /\ InHand(main)' = InHand(main)
    BY <2>1 DEF InHand
  <2>3. InFlight' = InFlight
    BY <2>1, <2>2 DEF InFlight
  <2> QED
    BY <2>1, <2>3 DEF Kept, OfKind
<1> QED
  BY <1>1, <1>2

\* MAIN hands the request to COS, and COS hands it back.
LEMMA KeptSend ==
  ASSUME TypeOK, TypeOK', Kept, missed' = {}, MainDispatch \/ CosNotify
  PROVE  Kept'
<1> USE FlightNumbers, Pipe, NoEvent
<1>1. CASE MainDispatch
  <2>1. "cosPipe" \in made
    BY <1>1 DEF MainDispatch, Miss
  <2>2. /\ main \in Events /\ main' = Idle /\ cosQueue' = Append(cosQueue, main)
        /\ UNCHANGED <<cos, mainQueue, count, handler>>
    BY <1>1, <2>1 DEF MainDispatch, Send
  <2>3. /\ Len(cosQueue') = Len(cosQueue) + 1
        /\ \A k \in DOMAIN cosQueue' :
              \/ k \in DOMAIN cosQueue /\ cosQueue'[k] = cosQueue[k]
              \/ cosQueue'[k] = main
    BY <2>2 DEF TypeOK
  <2>4. InHand(main) = 1 /\ InHand(main)' = 0 /\ InHand(cos)' = InHand(cos)
    BY <2>2 DEF InHand
  <2>5. InFlight' = InFlight
    BY <2>2, <2>3, <2>4 DEF InFlight
  <2> QED
    BY <2>2, <2>3, <2>5 DEF Kept, OfKind
<1>2. CASE CosNotify
  <2> DEFINE e == [cos EXCEPT !.done = TRUE]
  <2>1. "mainPipe" \in made
    BY <1>2 DEF CosNotify, Miss
  <2>2. /\ cos \in Events /\ cos' = Idle /\ mainQueue' = Append(mainQueue, e)
        /\ e \in Events /\ e.kind = cos.kind
        /\ UNCHANGED <<main, cosQueue, count, handler>>
    BY <1>2, <2>1 DEF CosNotify, Send, Events
  <2> HIDE DEF e
  <2>3. /\ Len(mainQueue') = Len(mainQueue) + 1
        /\ \A k \in DOMAIN mainQueue' :
              \/ k \in DOMAIN mainQueue /\ mainQueue'[k] = mainQueue[k]
              \/ mainQueue'[k] = e
    BY <2>2 DEF TypeOK
  <2>4. InHand(cos) = 1 /\ InHand(cos)' = 0 /\ InHand(main)' = InHand(main)
    BY <2>2 DEF InHand
  <2>5. InFlight' = InFlight
    BY <2>2, <2>3, <2>4 DEF InFlight
  <2> QED
    BY <2>2, <2>3, <2>5 DEF Kept, OfKind
<1> QED
  BY <1>1, <1>2

\* The confirmation gives the semaphore of the request's kind.
LEMMA KeptGive ==
  ASSUME TypeOK, TypeOK', Kept, missed' = {}, MainGive
  PROVE  Kept'
<1> DEFINE sem == SemOf(main.kind)
<1>1. /\ main \in Events /\ main.kind = handler.kind /\ main' = Idle
      /\ sem \in made /\ sem \in Sems
      /\ count' = [count EXCEPT ![sem] = @ + 1]
      /\ UNCHANGED <<cos, mainQueue, cosQueue, handler>>
  BY DEF MainGive, Miss, Unless, SemOf, Sems, Kept, OfKind, pipes
<1>2. /\ \/ sem = "dataSem" /\ count'["dataSem"] = count["dataSem"] + 1
            /\ count'["rstSem"] = count["rstSem"]
         \/ sem = "rstSem" /\ count'["rstSem"] = count["rstSem"] + 1
            /\ count'["dataSem"] = count["dataSem"]
  BY <1>1 DEF TypeOK, Sems
<1>3. InHand(main) = 1 /\ InHand(main)' = 0
      /\ UNCHANGED <<InHand(cos), Len(mainQueue), Len(cosQueue)>>
  BY <1>1, NoEvent DEF InHand
<1>4. InFlight' = InFlight
  BY <1>2, <1>3, FlightNumbers DEF InFlight
<1>5. \A s \in Sems : count'[s] > 0 => s = SemOf(handler.kind)
  BY <1>1, <1>2 DEF Kept, OfKind, Sems
<1> QED
  BY <1>1, <1>4, <1>5, NoEvent DEF Kept, OfKind

(* While nothing was missing the one request is neither lost nor doubled.    *)
THEOREM RequestsKept == Safety => []RequestKept
<1>1. Init => RequestKept
  <2> SUFFICES ASSUME Init PROVE Kept
    BY DEF RequestKept, Kept
  <2>1. main \notin Events /\ cos \notin Events
    BY NoEvent DEF Init
  <2>2. InFlight = 0
    BY <2>1 DEF Init, InFlight, InHand, Sems
  <2> QED
    BY <2>1, <2>2 DEF Init, Kept, OfKind, Sems
<1>2. TypeOK /\ TypeOK' /\ NotYet /\ RequestKept /\ [Next]_vars => RequestKept'
  <2> SUFFICES ASSUME TypeOK, TypeOK', NotYet, RequestKept, [Next]_vars,
                      missed' = {}
               PROVE  Kept'
    BY DEF RequestKept, Kept
  <2>1. Kept
    BY MissedGrows DEF RequestKept, Kept
  <2>2. CASE LinksInit
    <3>1. PICK o, next :
              /\ Adds(o, next)
              /\ main' = main \/ (main' \in {Off, New} /\ o = "mainTask")
              /\ cos' = cos \/ (cos' \in {Off, New} /\ o = "cosTask")
      BY <2>2, LinksInitAdds, Zenon
    <3>2. /\ UNCHANGED <<mainQueue, cosQueue, count, handler>>
          /\ main' = main \/ (main \notin Events /\ main' \notin Events)
          /\ cos' = cos \/ (cos \notin Events /\ cos' \notin Events)
      BY <3>1, NoEvent DEF Adds, NotYet
    <3> QED
      BY <2>1, <3>2, KeptAside
  <2>3. CASE \/ MainReady \/ AtStart \/ MainEnter \/ CosEnter \/ UNCHANGED vars
    <3>1. /\ UNCHANGED <<mainQueue, cosQueue, count, handler>>
          /\ main' = main \/ (main = New /\ main' = Idle)
          /\ cos' = cos \/ (cos = New /\ cos' = Idle)
      BY <2>3 DEF MainReady, AtStart, MainEnter, CosEnter, vars, threads, pipes,
                  setup
    <3> QED
      BY <2>1, <3>1, NoEvent, KeptAside
  <2> QED
    BY <2>1, <2>2, <2>3, KeptBegin, KeptTake, KeptGet, KeptSend, KeptGive
       DEF Next, HandlerStep, MainStep, CosStep
<1> QED
  BY <1>1, <1>2, Types, TasksNotYet, PTL DEF Safety
==============================================================================
