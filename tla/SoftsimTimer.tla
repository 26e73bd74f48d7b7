----------------------------- MODULE SoftsimTimer -----------------------------
(***************************************************************************)
(* The one timer of the card (softsim_timer_start, softsim_timer_stop and   *)
(* vTimerCallback): a global handle, an operating system timer behind it,   *)
(* and a callback thread that posts to the main pipe.  The library calls    *)
(* start and stop from one task, in any order.                              *)
(*                                                                         *)
(* External, modelled from the calls here: qapi_Timer_Def allocates a timer *)
(* and fills the handle, qapi_Timer_Set arms it, a one-shot timer expires   *)
(* once, a stopped timer expires no more; a callback may then be running.   *)
(***************************************************************************)
EXTENDS Naturals, FiniteSets

CONSTANTS
    QueueSize,  \* SOFTSIM_QUEUE_SIZE
    MaxCalls    \* bound: calls of start and stop in a run

ASSUME TimerAssumption == QueueSize \in Nat \ {0} /\ MaxCalls \in Nat

VARIABLES
    softsim_timer,  \* the handle: 0 is NULL, otherwise the timer it names
    defs,           \* qapi_Timer_Def calls that worked
    defined,        \* timers allocated and not undefined
    armed,          \* timers that will expire
    loop,           \* the armed timer is periodic (reload # 0)
    callback,       \* vTimerCallback has been entered and has not posted yet
    queue,          \* timer events in the main pipe
    returned,       \* [call, result]: the last call of the library
    calls,          \* calls so far
    late            \* history: events posted since the last stop returned

timer == <<softsim_timer, defs, defined, armed, loop>>
vars  == <<timer, callback, queue, returned, calls, late>>

Results == [call : {"none", "start", "stop"}, result : BOOLEAN]

Init ==
    /\ softsim_timer = 0 /\ defs = 0 /\ defined = {} /\ armed = {}
    /\ loop = FALSE
    /\ callback = FALSE /\ queue = 0
    /\ returned = [call |-> "none", result |-> TRUE]
    /\ calls = 0 /\ late = 0

Return(call, r) ==
    /\ calls < MaxCalls
    /\ calls' = calls + 1
    /\ returned' = [call |-> call, result |-> r]

------------------------------------------------------------------------------
\* qapi_Timer_Def fails and leaves the handle NULL, or qapi_Timer_Set fails
\* and leaves it naming a timer that is not armed, or both work.
Define(periodic) ==
    \/ /\ Return("start", FALSE)
       /\ UNCHANGED timer
    \/ /\ defs' = defs + 1
       /\ softsim_timer' = defs + 1
       /\ defined' = defined \cup {defs + 1}
       /\ \/ Return("start", FALSE) /\ UNCHANGED <<armed, loop>>
          \/ /\ armed' = armed \cup {defs + 1}
             /\ loop' = periodic
             /\ Return("start", TRUE)

\* Faulty: a timer is defined whatever the handle holds.
TimerStartAlways(periodic) ==
    /\ Define(periodic)
    /\ UNCHANGED <<callback, queue, late>>

\* With a handle that is not NULL nothing is done, and TRUE returned.
TimerStart(periodic) ==
    /\ IF softsim_timer = 0
       THEN Define(periodic)
       ELSE Return("start", TRUE) /\ UNCHANGED timer
    /\ UNCHANGED <<callback, queue, late>>

\* Faulty: the test of the handle is the wrong way round.
TimerStopInverted ==
    /\ Return("stop", TRUE)
    /\ IF softsim_timer = 0
       THEN /\ armed' = armed \ {softsim_timer}
            /\ defined' = defined \ {softsim_timer}
       ELSE UNCHANGED <<armed, defined>>
    /\ late' = 0
    /\ UNCHANGED <<softsim_timer, defs, loop, callback, queue>>

\* qapi_Timer_Stop and qapi_Timer_Undef; the handle keeps its value.
TimerStop ==
    /\ Return("stop", TRUE)
    /\ IF softsim_timer # 0
       THEN /\ armed' = armed \ {softsim_timer}
            /\ defined' = defined \ {softsim_timer}
       ELSE UNCHANGED <<armed, defined>>
    /\ late' = 0
    /\ UNCHANGED <<softsim_timer, defs, loop, callback, queue>>

------------------------------------------------------------------------------
Expire ==
    /\ armed # {} /\ ~callback
    /\ callback' = TRUE
    /\ armed' = IF loop THEN armed ELSE {}
    /\ UNCHANGED <<softsim_timer, defs, defined, loop, queue, returned, calls,
                   late>>

\* vTimerCallback; the send blocks while the pipe is full.
Post ==
    /\ callback
    /\ queue < QueueSize
    /\ queue' = queue + 1
    /\ callback' = FALSE
    /\ late' = IF late < 2 THEN late + 1 ELSE late
    /\ UNCHANGED <<timer, returned, calls>>

\* MAIN takes an event.
Receive ==
    /\ queue > 0
    /\ queue' = queue - 1
    /\ UNCHANGED <<timer, callback, returned, calls, late>>

Next ==
    \/ \E periodic \in BOOLEAN : TimerStart(periodic)
    \/ TimerStop
    \/ Expire \/ Post \/ Receive

Fairness == WF_vars(Post) /\ WF_vars(Receive)

Safety == Init /\ [][Next]_vars
Spec   == Safety /\ Fairness

------------------------------------------------------------------------------
(* Type invariant: what each variable may hold. *)
TypeOK ==
    /\ defs \in Nat /\ softsim_timer \in 0 .. defs
    /\ defined \subseteq 1 .. defs /\ armed \subseteq defined
    /\ loop \in BOOLEAN /\ callback \in BOOLEAN
    /\ queue \in 0 .. QueueSize
    /\ returned \in Results
    /\ calls \in 0 .. MaxCalls /\ late \in 0 .. 2

(* The operating system holds at most one timer of this program and it is    *)
(* the one the handle names, so a stop always reaches the timer that runs,   *)
(* also after a start of which qapi_Timer_Set failed.                       *)
OneTimer == defined \subseteq {softsim_timer} /\ Cardinality(defined) <= 1

(* After softsim_timer_stop has returned at most one more event is posted,   *)
(* by the callback that was running, until a timer is defined again.         *)
StopSilences == returned.call = "stop" => late <= 1

(* What the comments in softsim_timer_stop say: a running timer is stopped   *)
(* and the memory of qapi_Timer_Def is released, once.                       *)
StopReleasesDefined ==
    [][returned'.call = "stop" /\ calls' # calls /\ softsim_timer # 0
          => softsim_timer \in defined]_vars

(* After a stop the timer events dry up: MAIN, served only timer events, is  *)
(* at last left with an empty pipe.                                         *)
StopDrains ==
    [](returned.call = "stop" =>
           <>(returned.call # "stop" \/ (queue = 0 /\ ~callback)))
==============================================================================
