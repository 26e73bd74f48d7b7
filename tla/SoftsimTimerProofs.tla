-------------------------- MODULE SoftsimTimerProofs --------------------------
(***************************************************************************)
(* Proofs about SoftsimTimer, for every size of the pipe and any number of  *)
(* calls.  The handle always names the one timer that may be defined, so    *)
(* after a stop nothing is armed, and what may still be posted is what the  *)
(* callback has in hand.                                                    *)
(***************************************************************************)
EXTENDS SoftsimTimer, FiniteSetTheorems, TLAPS

(* The inductive invariant: a timer that is defined is the one in the handle, *)
(* and after a stop no timer is armed and at most one event is on its way.   *)
IInv ==
    /\ TypeOK
    /\ defined \subseteq {softsim_timer}
    /\ returned.call = "stop" => armed = {} /\ late <= 1 /\ (callback => late = 0)

\* What a call returns is a result, with the call's name.
LEMMA ResultFacts ==
  ASSUME NEW call \in {"none", "start", "stop"}, NEW r \in BOOLEAN
  PROVE  /\ [call |-> call, result |-> r] \in Results
         /\ [call |-> call, result |-> r].call = call
  BY DEF Results

(* The program starts without a timer. *)
LEMMA InitIInv == Init => IInv
<1> SUFFICES ASSUME Init PROVE IInv
  OBVIOUS
<1>1. returned \in Results /\ returned.call = "none"
  BY ResultFacts DEF Init
<1>2. loop \in BOOLEAN /\ callback \in BOOLEAN
  BY DEF Init
<1> QED
  BY TimerAssumption, <1>1, <1>2 DEF Init, IInv, TypeOK

\* Return counts the call and types its result.
LEMMA ReturnFacts ==
  ASSUME TypeOK, NEW call \in {"start", "stop"}, NEW r \in BOOLEAN, Return(call, r)
  PROVE  /\ returned' \in Results /\ returned'.call = call
         /\ calls' \in 0 .. MaxCalls
<1>1. calls' \in 0 .. MaxCalls
  BY TimerAssumption DEF Return, TypeOK
<1>2. returned' = [call |-> call, result |-> r]
  BY DEF Return
<1> QED
  BY <1>1, <1>2, ResultFacts

(* Each call and each step of the callback keeps IInv. *)
LEMMA NextIInv == IInv /\ [Next]_vars => IInv'
<1> SUFFICES ASSUME IInv, [Next]_vars PROVE IInv'
  OBVIOUS
<1> USE TimerAssumption DEF IInv, TypeOK
<1>1. ASSUME NEW periodic \in BOOLEAN, TimerStart(periodic) PROVE IInv'
  <2>1. /\ returned' \in Results /\ returned'.call = "start"
        /\ calls' \in 0 .. MaxCalls
    BY <1>1, ReturnFacts DEF TimerStart, Define
  <2>2. loop' \in BOOLEAN /\ callback' \in BOOLEAN
    BY <1>1 DEF TimerStart, Define, timer
  <2>3. queue' = queue /\ late' = late
    BY <1>1 DEF TimerStart
  <2>4. CASE UNCHANGED timer
    BY <2>1, <2>2, <2>3, <2>4 DEF timer
  <2>5. CASE /\ softsim_timer = 0
             /\ defs' = defs + 1 /\ softsim_timer' = defs + 1
             /\ defined' = defined \cup {defs + 1}
             /\ armed' \in {armed, armed \cup {defs + 1}}
    <3>1. defined = {}
      BY <2>5
    <3> QED
      BY <2>1, <2>2, <2>3, <2>5, <3>1
  <2> QED
    BY <1>1, <2>4, <2>5 DEF TimerStart, Define, timer
<1>2. CASE TimerStop
  <2>1. /\ returned' \in Results /\ returned'.call = "stop"
        /\ calls' \in 0 .. MaxCalls
    BY <1>2, ReturnFacts DEF TimerStop
  <2>2. armed' = {} /\ defined' \subseteq defined /\ late' = 0
    <3>1. CASE softsim_timer = 0
      <4>1. armed = {}
        BY <3>1
      <4> QED
        BY <1>2, <3>1, <4>1 DEF TimerStop
    <3>2. CASE softsim_timer # 0
      BY <1>2, <3>2 DEF TimerStop
    <3> QED
      BY <3>1, <3>2
  <2>3. UNCHANGED <<softsim_timer, defs, loop, callback, queue>>
    BY <1>2 DEF TimerStop
  <2> QED
    BY <2>1, <2>2, <2>3
<1>3. CASE Expire
  <2>1. callback' = TRUE /\ callback = FALSE /\ armed # {}
    BY <1>3 DEF Expire
  <2>2. armed' \subseteq armed /\ returned.call # "stop"
    BY <1>3, <2>1 DEF Expire
  <2>3. UNCHANGED <<softsim_timer, defs, defined, loop, queue, returned, calls,
                    late>>
    BY <1>3 DEF Expire
  <2> QED
    BY <2>1, <2>2, <2>3
<1>4. CASE Post
  <2>1. callback /\ callback' = FALSE
    BY <1>4 DEF Post
  <2>2. queue' \in 0 .. QueueSize /\ late' \in 0 .. 2
    BY <1>4 DEF Post
  <2>3. returned.call = "stop" => late = 0 /\ late' = 1
    BY <1>4, <2>1 DEF Post
  <2>4. /\ UNCHANGED <<softsim_timer, defs, defined, armed, loop>>
        /\ UNCHANGED <<returned, calls>>
    BY <1>4 DEF Post, timer
  <2>5. TypeOK'
    BY <2>1, <2>2, <2>4
  <2>6. returned'.call = "stop" => armed' = {} /\ late' <= 1 /\ ~callback'
    BY <2>1, <2>3, <2>4
  <2> QED
    BY <2>4, <2>5, <2>6
<1>5. CASE Receive
  BY <1>5 DEF Receive, timer
<1>6. CASE UNCHANGED vars
  BY <1>6 DEF vars, timer
<1> QED
  BY <1>1, <1>2, <1>3, <1>4, <1>5, <1>6 DEF Next

(* The inductive invariant holds in every reachable state. *)
THEOREM Inductive == Safety => []IInv
  BY InitIInv, NextIInv, PTL DEF Safety

(* softsim_timer_start and softsim_timer_stop keep every variable in its      *)
(* type; the pipe never holds more events than it has room for.              *)
THEOREM Types == Safety => []TypeOK
<1>1. IInv => TypeOK
  BY DEF IInv
<1> QED
  BY <1>1, Inductive, PTL

(* However starts and stops follow each other, and whichever of them fail,   *)
(* one timer of the operating system at most is held and the handle names it. *)
THEOREM OneTimerHeld == Safety => []OneTimer
<1>1. IInv => OneTimer
  <2> SUFFICES ASSUME IInv PROVE OneTimer
    OBVIOUS
  <2>1. defined = {} \/ defined = {softsim_timer}
    BY DEF IInv
  <2>2. Cardinality(defined) \in {0, 1}
    BY <2>1, FS_EmptySet, FS_Singleton
  <2> QED
    BY <2>2 DEF IInv, OneTimer
<1> QED
  BY <1>1, Inductive, PTL

(* After a stop one event at most is still posted. *)
THEOREM Silence == Safety => []StopSilences
<1>1. IInv => StopSilences
  BY DEF IInv, StopSilences, TypeOK
<1> QED
  BY <1>1, Inductive, PTL
==============================================================================
