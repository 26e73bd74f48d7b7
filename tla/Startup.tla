-------------------------------- MODULE Startup --------------------------------
(***************************************************************************)
(* links_softsim_init, called once by quectel_softsim_entry, creates the    *)
(* pipes, tasks and semaphores one after the other and at last registers    *)
(* the AT handler.  Any creation may fail.  The tasks run as soon as they   *)
(* are created: MAIN may report "ready", start the card and serve the modem *)
(* while the COS pipe and the semaphores do not exist yet.                  *)
(*                                                                         *)
(* The card is reduced to what touches these objects: the callback posts a  *)
(* request and waits for its semaphore, MAIN hands it to COS and gives the  *)
(* semaphore when COS is done (SimRelay has the rest, Lifecycle the stops). *)
(*                                                                         *)
(* External: on a handle that is still NULL, or whose creation failed,      *)
(* tx_semaphore_get returns an error at once and tx_semaphore_put and       *)
(* qurt_pipe_send have no effect.                                           *)
(***************************************************************************)
EXTENDS Naturals, Sequences

CONSTANTS
    QueueSize,      \* SOFTSIM_QUEUE_SIZE
    MaxRequests     \* bound: requests of the modem in a run

ASSUME StartupAssumption == QueueSize \in Nat \ {0} /\ MaxRequests \in Nat

VARIABLES
    entry,      \* what links_softsim_init creates next, "done" or "failed"
    made,       \* the objects that exist
    ready,      \* the library has reported "ready"
    session,    \* start_sw_sim has run: the modem knows the callback
    handler,    \* [pc, kind]: the callback thread
    main,       \* what MAIN has in hand
    cos,        \* what COS has in hand
    mainQueue,  \* softsim_task_queue[SOFTSIM_MAIN_TASK_ID]
    cosQueue,   \* softsim_task_queue[SOFTSIM_COS_TASK_ID]
    count,      \* counts of the two semaphores
    connected,  \* the callback has set card.state to CONNECTED
    coreOn,     \* the core has been reset
    requests,   \* requests so far
    missed,     \* history: <<user, object>> that did not exist when used
    mishaps     \* history: see Mishaps

setup   == <<entry, made, ready, session>>
threads == <<handler, main, cos>>
pipes   == <<mainQueue, cosQueue>>
state   == <<connected, coreOn, requests>>
vars    == <<setup, threads, pipes, count, state, missed, mishaps>>

Sems     == {"dataSem", "rstSem"}
Objects  == Sems \cup {"mainPipe", "mainTask", "cosPipe", "cosTask",
                       "atHandler"}
EntryAt  == Objects \cup {"done", "failed"}
Requests == {"reset", "apdu"}

(* "early"  : "ready" started the card when links_softsim_init was not done,  *)
(*            or had failed                                                  *)
(* "semLost": a semaphore could not be created                               *)
Mishaps  == {"early", "semLost"}
Events   == [kind : Requests, done : BOOLEAN]

\* MAIN and COS: not created, created, in the loop on their pipe
Off  == [kind |-> "off", done |-> FALSE]
New  == [kind |-> "new", done |-> FALSE]
Idle == [kind |-> "idle", done |-> FALSE]

Init ==
    /\ entry = "mainPipe" /\ made = {} /\ ready = FALSE /\ session = FALSE
    /\ handler = [pc |-> "idle", kind |-> "reset"]
    /\ main = Off /\ cos = Off
    /\ mainQueue = <<>> /\ cosQueue = <<>>
    /\ count = [s \in Sems |-> 0]
    /\ connected = FALSE /\ coreOn = FALSE /\ requests = 0
    /\ missed = {} /\ mishaps = {}

Miss(user, o) == missed' = missed \cup (IF o \in made THEN {} ELSE {<<user, o>>})

\* Blocks while the pipe is full; without a pipe nothing is sent.
Send(o, q, e) == /\ Len(q) < QueueSize
                 /\ q' = IF o \in made THEN Append(q, e) ELSE q

Unless(o, x, y) == IF o \in made THEN x ELSE y

------------------------------------------------------------------------------
(* links_softsim_init                                                       *)

Creates(o, next) ==
    /\ entry = o
    /\ \/ made' = made \cup {o} /\ entry' = next
       \/ entry' = "failed" /\ UNCHANGED made
    /\ UNCHANGED <<ready, session, handler, pipes, count, state, missed,
                   mishaps>>

CreatePipe(o, next) == Creates(o, next) /\ UNCHANGED <<main, cos>>

\* The MAIN task loads its flag and enters the library: it may run at once.
CreateMain ==
    /\ Creates("mainTask", "cosPipe")
    /\ main' = IF entry' = "failed" THEN Off ELSE New
    /\ UNCHANGED cos

\* Faulty: the result of the second qurt_thread_create is not looked at.
CreateCosUnchecked ==
    /\ entry = "cosTask" /\ entry' = "dataSem"
    /\ \/ made' = made \cup {"cosTask"} /\ cos' = New
       \/ UNCHANGED <<made, cos>>
    /\ UNCHANGED <<ready, session, handler, main, pipes, count, state, missed,
                   mishaps>>

CreateCos ==
    /\ Creates("cosTask", "dataSem")
    /\ cos' = IF entry' = "failed" THEN Off ELSE New
    /\ UNCHANGED main

\* Faulty: the semaphores are created with a count of 1.
CreateSemGiven(o, next) ==
    /\ entry = o /\ entry' = next
    /\ made' = made \cup {o}
    /\ count' = [count EXCEPT ![o] = 1]
    /\ UNCHANGED <<ready, session, threads, pipes, state, missed, mishaps>>

\* softsim_create_sem: nobody looks at the outcome.
CreateSem(o, next) ==
    /\ entry = o /\ entry' = next
    /\ \/ made' = made \cup {o} /\ UNCHANGED mishaps
       \/ mishaps' = mishaps \cup {"semLost"} /\ UNCHANGED made
    /\ UNCHANGED <<ready, session, threads, pipes, count, state, missed>>

Register(next) == Creates("atHandler", next) /\ UNCHANGED <<main, cos>>

\* Faulty: MAIN is created before its pipe.
InitMainFirst ==
    \/ CreatePipe("mainPipe", "cosPipe")
    \/ /\ entry = "mainPipe" /\ main = Off
       /\ made' = made \cup {"mainTask"} /\ main' = New
       /\ UNCHANGED <<entry, ready, session, handler, cos, pipes, count, state,
                      missed, mishaps>>
    \/ CreatePipe("cosPipe", "cosTask")
    \/ CreateCos
    \/ CreateSem("dataSem", "rstSem")
    \/ CreateSem("rstSem", "atHandler")
    \/ Register("done")

\* Faulty: the AT handler is registered before the semaphores are created.
InitAtFirst ==
    \/ CreatePipe("mainPipe", "mainTask")
    \/ CreateMain
    \/ CreatePipe("cosPipe", "cosTask")
    \/ /\ Creates("cosTask", "atHandler")
       /\ cos' = IF entry' = "failed" THEN Off ELSE New
       /\ UNCHANGED main
    \/ Register("dataSem")
    \/ CreateSem("dataSem", "rstSem")
    \/ CreateSem("rstSem", "done")

LinksInit ==
    \/ CreatePipe("mainPipe", "mainTask")
    \/ CreateMain
    \/ CreatePipe("cosPipe", "cosTask")
    \/ CreateCos
    \/ CreateSem("dataSem", "rstSem")
    \/ CreateSem("rstSem", "atHandler")
    \/ Register("done")

------------------------------------------------------------------------------
(* The card is started.                                                     *)

\* "ready", once; the flag in the START file may be set or not.
MainReady ==
    /\ main = Idle /\ ~ready
    /\ ready' = TRUE
    /\ \/ UNCHANGED <<session, mishaps>>
       \/ /\ ~session /\ session' = TRUE
          /\ mishaps' = IF entry = "done" THEN mishaps
                                          ELSE mishaps \cup {"early"}
    /\ UNCHANGED <<entry, made, threads, pipes, count, state, missed>>

\* AT+PSOFTSIM=start,1
AtStart ==
    /\ "atHandler" \in made /\ ~session
    /\ session' = TRUE
    /\ UNCHANGED <<entry, made, ready, threads, pipes, count, state, missed,
                   mishaps>>

------------------------------------------------------------------------------
(* uim_remote_ind_cb: an APDU needs a connected card, a reset is asked for   *)
(* by CONNECT and again by POWER_UP.                                         *)
Indication(kind) ==
    /\ session /\ handler.pc = "idle"
    /\ requests < MaxRequests
    /\ kind = "apdu" => connected
    /\ requests' = requests + 1
    /\ handler' = [pc |-> "post", kind |-> kind]
    /\ UNCHANGED <<setup, main, cos, pipes, count, connected, coreOn, missed,
                   mishaps>>

Post ==
    /\ handler.pc = "post"
    /\ Send("mainPipe", mainQueue, [kind |-> handler.kind, done |-> FALSE])
    /\ handler' = [handler EXCEPT !.pc = "wait"]
    /\ Miss("callback", "mainPipe")
    /\ UNCHANGED <<setup, main, cos, cosQueue, count, state, mishaps>>

SemOf(kind) == IF kind = "apdu" THEN "dataSem" ELSE "rstSem"

\* Faulty: softsim_sem_get called with SOFTSIM_NO_WAIT.
TakeNoWait ==
    LET sem == SemOf(handler.kind) IN
    /\ handler.pc = "wait"
    /\ count' = Unless(sem, [count EXCEPT ![sem] = @ - 1], count)
    /\ connected' = (connected \/ handler.kind = "reset")
    /\ handler' = [handler EXCEPT !.pc = "idle"]
    /\ Miss("callback", sem)
    /\ UNCHANGED <<setup, main, cos, pipes, coreOn, requests, mishaps>>

\* The result of softsim_sem_get is not looked at.
Take ==
    LET sem == SemOf(handler.kind) IN
    /\ handler.pc = "wait"
    /\ sem \in made => count[sem] > 0
    /\ count' = Unless(sem, [count EXCEPT ![sem] = @ - 1], count)
    /\ connected' = (connected \/ handler.kind = "reset")
    /\ handler' = [handler EXCEPT !.pc = "idle"]
    /\ Miss("callback", sem)
    /\ UNCHANGED <<setup, main, cos, pipes, coreOn, requests, mishaps>>

------------------------------------------------------------------------------
(* The tasks.                                                               *)

\* MAIN and COS call softsim_get_event_for_user with the handle as it is now.
MainEnter ==
    /\ main = New
    /\ main' = Idle
    /\ Miss("main", "mainPipe")
    /\ UNCHANGED <<setup, handler, cos, pipes, count, state, mishaps>>

CosEnter ==
    /\ cos = New
    /\ cos' = Idle
    /\ Miss("cos", "cosPipe")
    /\ UNCHANGED <<setup, handler, main, pipes, count, state, mishaps>>

MainGet ==
    /\ main = Idle /\ mainQueue # <<>>
    /\ main' = Head(mainQueue) /\ mainQueue' = Tail(mainQueue)
    /\ UNCHANGED <<setup, handler, cos, cosQueue, count, state, missed, mishaps>>

MainDispatch ==
    /\ main \in Events /\ ~main.done
    /\ Send("cosPipe", cosQueue, main)
    /\ main' = Idle
    /\ Miss("main", "cosPipe")
    /\ UNCHANGED <<setup, handler, cos, mainQueue, count, state, mishaps>>

\* The confirmation: softsim_give_soft_sim_data_sem, softsim_give_soft_sim_rst_sem
MainGive ==
    LET sem == SemOf(main.kind) IN
    /\ main \in Events /\ main.done
    /\ count' = Unless(sem, [count EXCEPT ![sem] = @ + 1], count)
    /\ main' = Idle
    /\ Miss("main", sem)
    /\ UNCHANGED <<setup, handler, cos, pipes, state, mishaps>>

CosGet ==
    /\ cos = Idle /\ cosQueue # <<>>
    /\ cos' = Head(cosQueue) /\ cosQueue' = Tail(cosQueue)
    /\ UNCHANGED <<setup, handler, main, mainQueue, count, state, missed,
                   mishaps>>

CosNotify ==
    /\ cos \in Events
    /\ Send("mainPipe", mainQueue, [cos EXCEPT !.done = TRUE])
    /\ coreOn' = (coreOn \/ cos.kind = "reset")
    /\ cos' = Idle
    /\ Miss("cos", "mainPipe")
    /\ UNCHANGED <<setup, handler, main, cosQueue, count, connected, requests,
                   mishaps>>

HandlerStep == Post \/ Take
MainStep    == MainEnter \/ MainGet \/ MainDispatch \/ MainGive
CosStep     == CosEnter \/ CosGet \/ CosNotify

Next ==
    \/ LinksInit
    \/ MainReady \/ AtStart
    \/ \E kind \in Requests : Indication(kind)
    \/ HandlerStep \/ MainStep \/ CosStep

(* The threads that exist are scheduled; a blocked sender is served when     *)
(* room keeps appearing.                                                    *)
Fairness == SF_vars(HandlerStep) /\ WF_vars(MainStep) /\ SF_vars(CosStep)

Safety == Init /\ [][Next]_vars
Spec   == Safety /\ Fairness

------------------------------------------------------------------------------
(* Type invariant: what each variable may hold. *)
TypeOK ==
    /\ entry \in EntryAt /\ made \subseteq Objects
    /\ ready \in BOOLEAN /\ session \in BOOLEAN
    /\ handler \in [pc : {"idle", "post", "wait"}, kind : Requests]
    /\ main \in Events \cup {Off, New, Idle}
    /\ cos \in Events \cup {Off, New, Idle}
    /\ mainQueue \in Seq(Events) /\ Len(mainQueue) <= QueueSize
    /\ cosQueue \in Seq(Events) /\ Len(cosQueue) <= QueueSize
    /\ count \in [Sems -> Nat]
    /\ connected \in BOOLEAN /\ coreOn \in BOOLEAN
    /\ requests \in 0 .. MaxRequests
    /\ missed \subseteq {"callback", "main", "cos"} \X Objects
    /\ mishaps \subseteq Mishaps

(* A task never receives from a pipe that does not exist, and nobody sends   *)
(* to MAIN before MAIN has its pipe, whichever creation fails and however    *)
(* early the tasks and the modem are.                                       *)
PipesBeforeReaders ==
    \A u \in {"callback", "main", "cos"}, o \in {"mainPipe", "cosPipe"} :
        <<u, o>> \in missed => u = "main" /\ o = "cosPipe"

(* An AT command that starts the card, or a "ready" that comes when          *)
(* links_softsim_init is done, finds everything in place: with both          *)
(* semaphores created nothing is ever used that does not exist.             *)
CompleteStart == mishaps = {} => missed = {}

(* A callback that never hit a missing object connects the card only after   *)
(* COS has reset the core, even when the semaphore was created between its   *)
(* request and its wait.                                                    *)
ConnectedCoreOn == missed = {} /\ connected => coreOn

(* While nothing that was used is missing no request is lost or doubled on    *)
(* its way over the pipes, the tasks and the semaphores: the callback waits  *)
(* exactly when there is one, it is in one place and it is of the kind that  *)
(* the callback waits for.  That is why RequestsReturn holds.                *)
InHand(task) == IF task \in Events THEN 1 ELSE 0
InFlight == Len(mainQueue) + InHand(main) + Len(cosQueue) + InHand(cos)
            + count["dataSem"] + count["rstSem"]
OfKind(kind) ==
    /\ \A k \in DOMAIN mainQueue : mainQueue[k].kind = kind
    /\ \A k \in DOMAIN cosQueue : cosQueue[k].kind = kind
    /\ main \in Events => main.kind = kind
    /\ cos \in Events => cos.kind = kind
    /\ \A s \in Sems : count[s] > 0 => s = SemOf(kind)
RequestKept ==
    missed = {} =>
        /\ InFlight = IF handler.pc = "wait" THEN 1 ELSE 0
        /\ OfKind(handler.kind)

(* Every request of a card that was started in time is confirmed.  (Not so    *)
(* otherwise: when MAIN gives a semaphore that is created just afterwards,   *)
(* the callback waits for a token that is gone.)                            *)
RequestsReturn == handler.pc # "idle" ~> handler.pc = "idle" \/ mishaps # {}
==============================================================================
