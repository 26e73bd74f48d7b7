--------------------------- MODULE LifecycleProofs ---------------------------
(***************************************************************************)
(* The safety properties of Lifecycle, for every bound.  The invariant says *)
(* of each moment in which order the flag, the handle, the client and the   *)
(* file follow one another.                                                 *)
(***************************************************************************)
EXTENDS Lifecycle, FiniteSetTheorems, TLAPS

Switching == {"write", "act", "starting", "started", "stopping"}
Tries     == {"apn1", "apn2", "apn3"}

(* No switch is under way before MAIN is done, and the handle follows the    *)
(* flag, one switch behind it while one is under way.                        *)
SwitchesAfterReady ==
    "early" \notin mishaps /\ at.pc \in Switching => main = "run"
MainInOrder ==
    "early" \notin mishaps =>
        /\ main \in {"load", "lib", "starting"} \cup Tries => clnt = 0
        /\ main \in {"starting", "started"} \cup Tries => use_softsim = 1
        /\ main = "started" => clnt # 0
HandleFollowsFlag ==
    "early" \notin mishaps /\ main = "run" =>
        /\ at.pc \in {"idle", "decide", "started", "final"}
               => (use_softsim = 1 <=> clnt # 0)
        /\ at.pc \in {"write", "act"} => (use_softsim = 1 <=> clnt = 0)
        /\ at.pc = "starting" => use_softsim = 1 /\ clnt = 0
        /\ at.pc = "stopping" => use_softsim = 0 /\ clnt # 0

\* The only client is the one the handle names.
ClientFollowsHandle ==
    "early" \notin mishaps /\ "initFailed" \notin mishaps
        => clients = IF clnt = 0 THEN {} ELSE {clnt}

\* Until the load an empty file goes with a flag that is 0.
FileFollowsFlag ==
    mishaps \cap {"unread", "writeLost"} = {} /\ at.pc # "write" =>
        /\ startFile = <<>> => use_softsim = 0
        /\ main # "load" /\ startFile # <<>> => startFile = <<use_softsim>>

\* An erase asks for 0, and after the comparison the flag is 0.
EraseDecided ==
    at.cmd = "erase" =>
        /\ at.start = 0
        /\ "early" \notin mishaps /\ at.pc \in Switching \cup {"final"}
               => main = "run" /\ use_softsim = 0

\* Nothing but a read is answered before the end of its branch.
AnswerDue ==
    /\ at.cmd \notin {"none", "read"} /\ at.pc # "idle" => answered = 0
    /\ at.cmd = "none" => at.pc = "idle"
    /\ at.pc = "idle" /\ at.cmd \notin {"none", "read"} => answered = 1
    /\ at.pc # "idle" => answered \in {0, 1}

Order == SwitchesAfterReady /\ MainInOrder /\ HandleFollowsFlag
Reply == EraseDecided /\ AnswerDue

LifecycleInv ==
    TypeOK /\ Order /\ ClientFollowsHandle /\ FileFollowsFlag /\ Reply

USE DEF Switching, Tries, MainAt, AtAt, Commands, Mishaps

LEMMA InitInv == Init => LifecycleInv
BY LifecycleAssumption
   DEF Init, NoCommand, LifecycleInv, TypeOK, Order, SwitchesAfterReady,
       MainInOrder, HandleFollowsFlag, ClientFollowsHandle, FileFollowsFlag,
       Reply, EraseDecided, AnswerDue

\* What qmi_client_init does to the handle and the clients.
ClientOpened ==
    /\ inits' \in Nat /\ clnt' = inits' /\ clnt' # 0
    /\ clients' \subseteq 1 .. inits'
    /\ mishaps' \subseteq Mishaps /\ mishaps \subseteq mishaps'
    /\ "early" \in mishaps' => "early" \in mishaps
    /\ "writeLost" \in mishaps' => "writeLost" \in mishaps
    /\ "unread" \in mishaps' => "unread" \in mishaps
    /\ clients = {} /\ "initFailed" \notin mishaps' => clients' = {clnt'}

\* A try at the APN leads to the next one or to start_sw_sim.
LEMMA SetApnFacts ==
    MainSetApn => main \in Tries /\ main' \in Tries \cup {"starting"}
BY DEF MainSetApn, AfterTry

LEMMA ClientInitFacts == TypeOK /\ ClientInit => ClientOpened
<1> SUFFICES ASSUME TypeOK, ClientInit PROVE ClientOpened
  OBVIOUS
<1>1. inits' = inits + 1 /\ clnt' = inits + 1 /\ inits \in Nat
  BY DEF ClientInit, TypeOK
<1>2. CASE clients' = clients \cup {inits + 1} /\ UNCHANGED mishaps
  <2>1. clients' \subseteq 1 .. inits'
    <3>1. inits + 1 \in 1 .. inits' /\ 1 .. inits \subseteq 1 .. inits'
      BY <1>1
    <3> QED BY <1>2, <3>1 DEF TypeOK
  <2>2. inits' \in Nat /\ clnt' = inits' /\ clnt' # 0
    BY <1>1
  <2>3. clients = {} => clients' = {clnt'}
    BY <1>1, <1>2
  <2>4. mishaps' = mishaps /\ mishaps \subseteq Mishaps
    BY <1>2 DEF TypeOK
  <2> QED BY <2>1, <2>2, <2>3, <2>4 DEF ClientOpened
<1>3. CASE mishaps' = mishaps \cup {"initFailed"} /\ UNCHANGED clients
  <2>1. clients' \subseteq 1 .. inits'
    <3>1. 1 .. inits \subseteq 1 .. inits'
      BY <1>1
    <3> QED BY <1>3, <3>1 DEF TypeOK
  <2> QED BY <1>1, <1>3, <2>1 DEF ClientOpened, TypeOK
<1> QED BY <1>2, <1>3 DEF ClientInit

(* One step per action, and under it one per part of the invariant that the  *)
(* action can disturb.                                                      *)
LEMMA StepInv == LifecycleInv /\ [Next]_vars => LifecycleInv'
<1> SUFFICES ASSUME LifecycleInv, [Next]_vars PROVE LifecycleInv'
  OBVIOUS
<1> USE LifecycleAssumption DEF LifecycleInv
<1>1. CASE MainLoad
  <2>1. TypeOK'
    <3>1. use_softsim' \in {0, 1} /\ main' \in MainAt
      BY <1>1 DEF MainLoad, TypeOK
    <3>2. mishaps' \subseteq Mishaps
      BY <1>1 DEF MainLoad, TypeOK
    <3> QED BY <1>1, <3>1, <3>2 DEF MainLoad, client, count, TypeOK
  <2>2. Order'
    BY <1>1
       DEF MainLoad, client, count, TypeOK, Order, SwitchesAfterReady,
           MainInOrder, HandleFollowsFlag
  <2>3. ClientFollowsHandle'
    BY <1>1 DEF MainLoad, client, count, ClientFollowsHandle
  <2>4. FileFollowsFlag'
    BY <1>1 DEF MainLoad, client, count, TypeOK, FileFollowsFlag
  <2>5. Reply'
    BY <1>1
       DEF MainLoad, client, count, TypeOK, Order, SwitchesAfterReady, Reply,
           EraseDecided, AnswerDue
  <2> QED BY <2>1, <2>2, <2>3, <2>4, <2>5
<1>2. CASE MainReady
  <2>1. TypeOK'
    BY <1>2 DEF MainReady, flag, client, count, TypeOK
  <2>2. Order'
    BY <1>2
       DEF MainReady, flag, client, count, TypeOK, Order, SwitchesAfterReady,
           MainInOrder, HandleFollowsFlag
  <2>3. ClientFollowsHandle'
    BY <1>2 DEF MainReady, flag, client, count, ClientFollowsHandle
  <2>4. FileFollowsFlag'
    BY <1>2 DEF MainReady, flag, client, count, TypeOK, FileFollowsFlag
  <2>5. Reply'
    BY <1>2
       DEF MainReady, flag, client, count, TypeOK, Order, SwitchesAfterReady,
           Reply, EraseDecided, AnswerDue
  <2> QED BY <2>1, <2>2, <2>3, <2>4, <2>5
<1>3. CASE MainInit
  <2>0. ClientOpened
    BY <1>3, ClientInitFacts DEF MainInit
  <2>1. TypeOK'
    BY <1>3, <2>0 DEF MainInit, flag, count, ClientOpened, TypeOK
  <2>2. Order'
    BY <1>3, <2>0
       DEF MainInit, flag, count, ClientOpened, TypeOK, Order,
           SwitchesAfterReady, MainInOrder, HandleFollowsFlag
  <2>3. ClientFollowsHandle'
    BY <1>3, <2>0
       DEF MainInit, flag, count, ClientOpened, TypeOK, Order,
           SwitchesAfterReady, MainInOrder, HandleFollowsFlag,
           ClientFollowsHandle
  <2>4. FileFollowsFlag'
    BY <1>3, <2>0
       DEF MainInit, flag, count, ClientOpened, TypeOK, FileFollowsFlag
  <2>5. Reply'
    BY <1>3, <2>0
       DEF MainInit, flag, count, ClientOpened, TypeOK, Order,
           SwitchesAfterReady, Reply, EraseDecided, AnswerDue
  <2> QED BY <2>1, <2>2, <2>3, <2>4, <2>5
<1>4. CASE MainStarted
  <2>1. TypeOK'
    BY <1>4 DEF MainStarted, flag, client, count, TypeOK
  <2>2. Order'
    BY <1>4
       DEF MainStarted, flag, client, count, TypeOK, Order,
           SwitchesAfterReady, MainInOrder, HandleFollowsFlag
  <2>3. ClientFollowsHandle'
    BY <1>4 DEF MainStarted, flag, client, count, ClientFollowsHandle
  <2>4. FileFollowsFlag'
    BY <1>4 DEF MainStarted, flag, client, count, TypeOK, FileFollowsFlag
  <2>5. Reply'
    BY <1>4
       DEF MainStarted, flag, client, count, TypeOK, Order,
           SwitchesAfterReady, Reply, EraseDecided, AnswerDue
  <2> QED BY <2>1, <2>2, <2>3, <2>4, <2>5
<1>5. CASE MainSetApn
  <2>0. main \in Tries /\ main' \in Tries \cup {"starting"}
    BY <1>5, SetApnFacts
  <2>1. TypeOK'
    BY <1>5, <2>0 DEF MainSetApn, flag, client, count, TypeOK
  <2>2. Order'
    BY <1>5, <2>0
       DEF MainSetApn, flag, client, count, TypeOK, Order,
           SwitchesAfterReady, MainInOrder, HandleFollowsFlag
  <2>3. ClientFollowsHandle'
    BY <1>5 DEF MainSetApn, flag, client, count, ClientFollowsHandle
  <2>4. FileFollowsFlag'
    BY <1>5, <2>0
       DEF MainSetApn, flag, client, count, TypeOK, FileFollowsFlag
  <2>5. Reply'
    BY <1>5, <2>0
       DEF MainSetApn, flag, client, count, TypeOK, Order,
           SwitchesAfterReady, Reply, EraseDecided, AnswerDue
  <2> QED BY <2>1, <2>2, <2>3, <2>4, <2>5
<1>6. CASE AtNew
  <2>1. TypeOK'
    <3>1. commands' \in 0 .. MaxCommands
      BY <1>6
         DEF AtNew, Accept, AtExec, AtBad, AtRead, AtQuery, AtCustom, AtStart,
             AtRefresh, AtErase, flag, client, TypeOK
    <3>2. at' \in [pc : AtAt, cmd : Commands, start : {0, 1}]
      BY <1>6
         DEF AtNew, Accept, AtExec, AtBad, AtRead, AtQuery, AtCustom, AtStart,
             AtRefresh, AtErase, flag, client, TypeOK
    <3>3. answered' \in 0 .. 2
      BY <1>6
         DEF AtNew, Accept, AtExec, AtBad, AtRead, AtQuery, AtCustom, AtStart,
             AtRefresh, AtErase, flag, client, TypeOK
    <3> QED BY <1>6, <3>1, <3>2, <3>3
       DEF AtNew, Accept, AtExec, AtBad, AtRead, AtQuery, AtCustom, AtStart,
           AtRefresh, AtErase, flag, client, TypeOK
  <2>2. Order'
    BY <1>6
       DEF AtNew, Accept, AtExec, AtBad, AtRead, AtQuery, AtCustom, AtStart,
           AtRefresh, AtErase, flag, client, TypeOK, Order,
           SwitchesAfterReady, MainInOrder, HandleFollowsFlag
  <2>3. ClientFollowsHandle'
    BY <1>6
       DEF AtNew, Accept, AtExec, AtBad, AtRead, AtQuery, AtCustom, AtStart,
           AtRefresh, AtErase, flag, client, ClientFollowsHandle
  <2>4. FileFollowsFlag'
    BY <1>6
       DEF AtNew, Accept, AtExec, AtBad, AtRead, AtQuery, AtCustom, AtStart,
           AtRefresh, AtErase, flag, client, TypeOK, FileFollowsFlag
  <2>5. Reply'
    BY <1>6
       DEF AtNew, Accept, AtExec, AtBad, AtRead, AtQuery, AtCustom, AtStart,
           AtRefresh, AtErase, flag, client, TypeOK, Order,
           SwitchesAfterReady, Reply, EraseDecided, AnswerDue
  <2> QED BY <2>1, <2>2, <2>3, <2>4, <2>5
<1>7. CASE AtDecide
  <2>1. TypeOK'
    BY <1>7 DEF AtDecide, Deciding, client, count, TypeOK
  <2>2. Order'
    BY <1>7
       DEF AtDecide, Deciding, client, count, TypeOK, Order,
           SwitchesAfterReady, MainInOrder, HandleFollowsFlag
  <2>3. ClientFollowsHandle'
    BY <1>7 DEF AtDecide, Deciding, client, count, ClientFollowsHandle
  <2>4. FileFollowsFlag'
    BY <1>7 DEF AtDecide, Deciding, client, count, TypeOK, FileFollowsFlag
  <2>5. Reply'
    BY <1>7
       DEF AtDecide, Deciding, client, count, TypeOK, Order,
           SwitchesAfterReady, Reply, EraseDecided, AnswerDue
  <2> QED BY <2>1, <2>2, <2>3, <2>4, <2>5
<1>8. CASE AtWrite
  <2>1. TypeOK'
    BY <1>8 DEF AtWrite, client, count, TypeOK
  <2>2. Order'
    BY <1>8
       DEF AtWrite, client, count, TypeOK, Order, SwitchesAfterReady,
           MainInOrder, HandleFollowsFlag
  <2>3. ClientFollowsHandle'
    BY <1>8 DEF AtWrite, client, count, ClientFollowsHandle
  <2>4. FileFollowsFlag'
    <3>1. CASE startFile' = <<use_softsim>>
      <4>1. use_softsim' = use_softsim /\ main' = main
        BY <1>8 DEF AtWrite
      <4> QED BY <3>1, <4>1 DEF FileFollowsFlag
    <3>2. CASE "writeLost" \in mishaps'
      BY <3>2 DEF FileFollowsFlag
    <3> QED BY <1>8, <3>1, <3>2 DEF AtWrite
  <2>5. Reply'
    BY <1>8
       DEF AtWrite, client, count, TypeOK, Order, SwitchesAfterReady, Reply,
           EraseDecided, AnswerDue
  <2> QED BY <2>1, <2>2, <2>3, <2>4, <2>5
<1>9. CASE AtAct
  <2>1. TypeOK'
    BY <1>9 DEF AtAct, flag, client, count, TypeOK
  <2>2. Order'
    BY <1>9
       DEF AtAct, flag, client, count, TypeOK, Order, SwitchesAfterReady,
           MainInOrder, HandleFollowsFlag
  <2>3. ClientFollowsHandle'
    BY <1>9 DEF AtAct, flag, client, count, ClientFollowsHandle
  <2>4. FileFollowsFlag'
    BY <1>9 DEF AtAct, flag, client, count, TypeOK, FileFollowsFlag
  <2>5. Reply'
    BY <1>9
       DEF AtAct, flag, client, count, TypeOK, Order, SwitchesAfterReady,
           Reply, EraseDecided, AnswerDue
  <2> QED BY <2>1, <2>2, <2>3, <2>4, <2>5
<1>10. CASE AtInit
  <2>0. ClientOpened
    BY <1>10, ClientInitFacts DEF AtInit
  <2>1. TypeOK'
    BY <1>10, <2>0 DEF AtInit, flag, count, ClientOpened, TypeOK
  <2>2. Order'
    BY <1>10, <2>0
       DEF AtInit, flag, count, ClientOpened, TypeOK, Order,
           SwitchesAfterReady, MainInOrder, HandleFollowsFlag
  <2>3. ClientFollowsHandle'
    BY <1>10, <2>0
       DEF AtInit, flag, count, ClientOpened, TypeOK, Order,
           SwitchesAfterReady, MainInOrder, HandleFollowsFlag,
           ClientFollowsHandle
  <2>4. FileFollowsFlag'
    BY <1>10, <2>0
       DEF AtInit, flag, count, ClientOpened, TypeOK, FileFollowsFlag
  <2>5. Reply'
    BY <1>10, <2>0
       DEF AtInit, flag, count, ClientOpened, TypeOK, Order,
           SwitchesAfterReady, Reply, EraseDecided, AnswerDue
  <2> QED BY <2>1, <2>2, <2>3, <2>4, <2>5
<1>11. CASE AtStarted
  <2>1. TypeOK'
    BY <1>11 DEF AtStarted, flag, client, count, TypeOK
  <2>2. Order'
    BY <1>11
       DEF AtStarted, flag, client, count, TypeOK, Order, SwitchesAfterReady,
           MainInOrder, HandleFollowsFlag
  <2>3. ClientFollowsHandle'
    BY <1>11 DEF AtStarted, flag, client, count, ClientFollowsHandle
  <2>4. FileFollowsFlag'
    BY <1>11 DEF AtStarted, flag, client, count, TypeOK, FileFollowsFlag
  <2>5. Reply'
    BY <1>11
       DEF AtStarted, flag, client, count, TypeOK, Order, SwitchesAfterReady,
           Reply, EraseDecided, AnswerDue
  <2> QED BY <2>1, <2>2, <2>3, <2>4, <2>5
<1>12. CASE AtRelease
  <2>1. TypeOK'
    BY <1>12 DEF AtRelease, ClientRelease, flag, count, TypeOK
  <2>2. Order'
    BY <1>12
       DEF AtRelease, ClientRelease, flag, count, TypeOK, Order,
           SwitchesAfterReady, MainInOrder, HandleFollowsFlag
  <2>3. ClientFollowsHandle'
    BY <1>12
       DEF AtRelease, ClientRelease, flag, count, TypeOK, Order,
           SwitchesAfterReady, MainInOrder, HandleFollowsFlag,
           ClientFollowsHandle
  <2>4. FileFollowsFlag'
    BY <1>12
       DEF AtRelease, ClientRelease, flag, count, TypeOK, FileFollowsFlag
  <2>5. Reply'
    BY <1>12
       DEF AtRelease, ClientRelease, flag, count, TypeOK, Order,
           SwitchesAfterReady, Reply, EraseDecided, AnswerDue
  <2> QED BY <2>1, <2>2, <2>3, <2>4, <2>5
<1>13. CASE AtFinal
  <2>1. TypeOK'
    BY <1>13 DEF AtFinal, flag, client, count, TypeOK, Reply, AnswerDue
  <2>2. Order'
    BY <1>13
       DEF AtFinal, flag, client, count, TypeOK, Order, SwitchesAfterReady,
           MainInOrder, HandleFollowsFlag
  <2>3. ClientFollowsHandle'
    BY <1>13 DEF AtFinal, flag, client, count, ClientFollowsHandle
  <2>4. FileFollowsFlag'
    BY <1>13 DEF AtFinal, flag, client, count, TypeOK, FileFollowsFlag
  <2>5. Reply'
    BY <1>13
       DEF AtFinal, flag, client, count, TypeOK, Order, SwitchesAfterReady,
           Reply, EraseDecided, AnswerDue
  <2> QED BY <2>1, <2>2, <2>3, <2>4, <2>5
<1>14. CASE Reset
  <2>1. TypeOK'
    BY <1>14 DEF Reset, NoCommand, TypeOK
  <2>2. Order'
    BY <1>14
       DEF Reset, NoCommand, TypeOK, Order, SwitchesAfterReady, MainInOrder,
           HandleFollowsFlag
  <2>3. ClientFollowsHandle'
    BY <1>14 DEF Reset, NoCommand, ClientFollowsHandle
  <2>4. FileFollowsFlag'
    BY <1>14 DEF Reset, NoCommand, TypeOK, FileFollowsFlag
  <2>5. Reply'
    BY <1>14
       DEF Reset, NoCommand, TypeOK, Order, SwitchesAfterReady, Reply,
           EraseDecided, AnswerDue
  <2> QED BY <2>1, <2>2, <2>3, <2>4, <2>5
<1>15. CASE UNCHANGED vars
  BY <1>15
     DEF vars, flag, client, count, TypeOK, Order, SwitchesAfterReady,
         MainInOrder, HandleFollowsFlag, ClientFollowsHandle, FileFollowsFlag,
         Reply, EraseDecided, AnswerDue
<1> QED
  BY <1>1, <1>2, <1>3, <1>4, <1>5, <1>6, <1>7, <1>8,
     <1>9, <1>10, <1>11, <1>12, <1>13, <1>14, <1>15
     DEF Next, MainStep, AtStep

THEOREM LifecycleCorrect == Safety => []LifecycleInv
<1>1. Init => LifecycleInv
  BY InitInv
<1>2. LifecycleInv /\ [Next]_vars => LifecycleInv'
  BY StepInv
<1> QED BY <1>1, <1>2, PTL DEF Safety

(* Every variable of the life cycle keeps its type. *)
THEOREM LifecycleTypes == Safety => []TypeOK
<1>1. LifecycleInv => TypeOK
  BY DEF LifecycleInv
<1> QED BY <1>1, LifecycleCorrect, PTL

(* start_sw_sim and stop_sw_sim alternate, on whichever thread they run.     *)
THEOREM Alternate == Safety => []SessionsAlternate
<1>1. LifecycleInv => SessionsAlternate
  BY DEF LifecycleInv, TypeOK, Order, SwitchesAfterReady, MainInOrder,
         HandleFollowsFlag, SessionsAlternate, MainStarts, AtSwitches
<1> QED BY <1>1, LifecycleCorrect, PTL

(* At rest the modem's clients are what the flag says.                       *)
THEOREM SessionsFollow == Safety => []SessionFollowsFlag
<1>1. LifecycleInv => SessionFollowsFlag
  BY DEF LifecycleInv, TypeOK, Order, HandleFollowsFlag, ClientFollowsHandle,
         InOrder, SessionFollowsFlag
<1> QED BY <1>1, LifecycleCorrect, PTL

(* Until the file fails to be read or written it holds the flag, races with   *)
(* its load included.                                                        *)
THEOREM Persisted == Safety => []FlagPersisted
<1>1. LifecycleInv => FlagPersisted
  BY DEF LifecycleInv, FileFollowsFlag, FlagPersisted
<1> QED BY <1>1, LifecycleCorrect, PTL

(* An erase that is answered has stopped the card.                           *)
THEOREM ErasesStop == Safety => []EraseStops
<1>1. LifecycleInv => EraseStops
  BY DEF LifecycleInv, TypeOK, Order, HandleFollowsFlag, ClientFollowsHandle,
         Reply, EraseDecided, InOrder, EraseStops
<1> QED BY <1>1, LifecycleCorrect, PTL

(* Every command but a read gets exactly one final result code.              *)
THEOREM Answered == Safety => []AnsweredOnce
<1>1. LifecycleInv => AnsweredOnce
  BY DEF LifecycleInv, Reply, AnswerDue, AnsweredOnce
<1> QED BY <1>1, LifecycleCorrect, PTL

------------------------------------------------------------------------------
(* How many clients are lost in a boot.  A client that the handle names       *)
(* while the AT handler, as far as it has got, takes the card to be off will *)
(* be lost by its next start: it is counted as owed beforehand, and so is    *)
(* the start under way of a card whose flag is back to 0.  Only the load and *)
(* the start by MAIN add to what is lost or owed, by one each.              *)

TakesForOff ==
    \/ at.pc \in {"idle", "decide", "started", "final"} /\ use_softsim = 0
    \/ at.pc \in {"write", "act"} /\ use_softsim = 1
    \/ at.pc = "starting"

Owed == (IF TakesForOff /\ clnt # 0 THEN 1 ELSE 0)
        + (IF at.pc = "starting" /\ use_softsim = 0 THEN 1 ELSE 0)

Lost == Cardinality(LostClients)

Allowed == CASE main = "load"              -> 0
             [] main \in {"started", "run"} -> 2
             [] OTHER                       -> 1

LeakInv == Lost + Owed <= Allowed

LEMMA LostNumber ==
    TypeOK => IsFiniteSet(LostClients) /\ IsFiniteSet(clients) /\ Lost \in Nat
<1> SUFFICES ASSUME TypeOK
    PROVE IsFiniteSet(LostClients) /\ IsFiniteSet(clients) /\ Lost \in Nat
  OBVIOUS
<1>1. IsFiniteSet(1 .. inits)
  BY FS_Interval DEF TypeOK
<1>2. IsFiniteSet(clients)
  BY <1>1, FS_Subset DEF TypeOK
<1>3. IsFiniteSet(LostClients)
  BY <1>2, FS_Subset DEF LostClients
<1> QED BY <1>2, <1>3, FS_CardinalityType DEF Lost

\* A start loses the client that the handle named, if it named one.
LEMMA LostByOpening ==
    ASSUME TypeOK, ClientInit
    PROVE  /\ clnt' # 0
           /\ Lost' \in Nat
           /\ Lost' <= Lost + (IF clnt # 0 THEN 1 ELSE 0)
<1>1. clnt' = inits + 1 /\ inits + 1 \notin clients /\ inits \in Nat
  BY DEF ClientInit, TypeOK
<1>2. LostClients' = clients
  BY <1>1 DEF ClientInit, LostClients
<1>3. CASE clnt \in clients
  <2>1. clients = LostClients \cup {clnt} /\ clnt \notin LostClients
    BY <1>3 DEF LostClients
  <2>2. Cardinality(clients) = Lost + 1
    BY <2>1, LostNumber, FS_AddElement DEF Lost
  <2>3. clnt # 0
    BY <1>3 DEF TypeOK
  <2> QED BY <1>1, <1>2, <2>2, <2>3, LostNumber DEF Lost
<1>4. CASE clnt \notin clients
  <2>1. clients = LostClients
    BY <1>4 DEF LostClients
  <2> QED BY <1>1, <1>2, <2>1, LostNumber DEF Lost
<1> QED BY <1>3, <1>4

LEMMA LostByClosing ==
    ASSUME TypeOK, ClientRelease
    PROVE  clnt' = 0 /\ Lost' = Lost
<1>1. LostClients' = LostClients /\ clnt' = 0
  BY DEF ClientRelease, LostClients, TypeOK
<1> QED BY <1>1 DEF Lost

LEMMA LostOtherwise == UNCHANGED client => Lost' = Lost
  BY DEF client, Lost, LostClients

\* The start by MAIN loses one client or leaves one owed, not both.
LEMMA OneMore ==
    ASSUME NEW lost \in Nat, NEW lostNext \in Nat, NEW owed \in Nat,
           NEW owedNext, lost + owed <= 1,
           \/ owedNext = owed + 1 /\ lostNext <= lost
           \/ owedNext = owed /\ lostNext <= lost + 1
    PROVE  lostNext + owedNext <= 2
  OBVIOUS

LEMMA LeakStep ==
    ASSUME TypeOK, TypeOK', LeakInv, Next
    PROVE  LeakInv'
<1> USE LostNumber DEF LeakInv, Owed, Allowed, TakesForOff, TypeOK
<1>1. CASE MainLoad
  <2>1. Lost' = Lost /\ main = "load" /\ main' = "lib"
        /\ UNCHANGED <<at, clnt>>
    BY <1>1, LostOtherwise DEF MainLoad, client
  <2> QED BY <2>1
<1>2. CASE MainReady \/ MainSetApn \/ MainStarted
  <2>1. Lost' = Lost /\ UNCHANGED <<use_softsim, at, clnt>>
    BY <1>2, LostOtherwise DEF MainReady, MainSetApn, MainStarted, client, flag
  <2>2. \/ main \in {"lib", "apn1", "apn2", "apn3"}
           /\ main' \in {"apn1", "apn2", "apn3", "starting", "run"}
        \/ main = "started" /\ main' = "run"
    BY <1>2, SetApnFacts DEF MainReady, MainStarted
  <2> QED BY <2>1, <2>2
<1>3. CASE MainInit
  <2>1. /\ main = "starting" /\ main' = "started"
        /\ UNCHANGED <<use_softsim, at>>
    BY <1>3 DEF MainInit, flag
  <2>2. clnt' # 0 /\ Lost' \in Nat /\ Lost' <= Lost + (IF clnt # 0 THEN 1 ELSE 0)
    BY <1>3, LostByOpening DEF MainInit
  <2>3. Lost \in Nat /\ Lost + Owed <= 1
    BY <2>1
  <2>4. TakesForOff' <=> TakesForOff
    BY <2>1
  <2>5. Allowed' = 2
    BY <2>1
  <2> DEFINE E == IF at.pc = "starting" /\ use_softsim = 0 THEN 1 ELSE 0
  <2>6. /\ E \in Nat
        /\ Owed = (IF TakesForOff /\ clnt # 0 THEN 1 ELSE 0) + E
        /\ Owed' = (IF TakesForOff THEN 1 ELSE 0) + E
    BY ONLY <2>1, <2>2, <2>4 DEF Owed
  <2> HIDE DEF LeakInv, Owed, Allowed, TakesForOff, TypeOK, E
  <2>7. CASE TakesForOff /\ clnt = 0
    <3>1. Owed \in Nat /\ Owed' = Owed + 1 /\ Lost' <= Lost
      BY <2>2, <2>3, <2>6, <2>7
    <3> QED BY <2>2, <2>3, <2>5, <3>1, OneMore DEF LeakInv
  <2>8. CASE ~TakesForOff \/ clnt # 0
    <3>1. Owed \in Nat /\ Owed' = Owed /\ Lost' <= Lost + 1
      BY <2>2, <2>3, <2>6, <2>8
    <3> QED BY <2>2, <2>3, <2>5, <3>1, OneMore DEF LeakInv
  <2> QED BY <2>7, <2>8
<1>4. CASE AtNew
  <2>1. /\ Lost' = Lost /\ UNCHANGED <<use_softsim, main, clnt>>
        /\ at.pc = "idle" /\ at'.pc \in {"idle", "decide", "final"}
    BY <1>4, LostOtherwise
       DEF AtNew, Accept, AtExec, AtBad, AtRead, AtQuery, AtCustom, AtStart,
           AtRefresh, AtErase, flag, client
  <2> QED BY <2>1
<1>5. CASE AtDecide
  <2>1. /\ Lost' = Lost /\ UNCHANGED <<main, clnt>> /\ at.pc = "decide"
        /\ \/ at'.pc = "write" /\ use_softsim' = 1 - use_softsim
           \/ at'.pc = "final" /\ use_softsim' = use_softsim
    BY <1>5, LostOtherwise DEF AtDecide, client
  <2> QED BY <2>1
<1>6. CASE AtWrite \/ AtAct \/ AtStarted \/ AtFinal
  <2>1. Lost' = Lost /\ UNCHANGED <<use_softsim, main, clnt>>
    BY <1>6, LostOtherwise DEF AtWrite, AtAct, AtStarted, AtFinal, flag, client
  <2>2. \/ at.pc = "write" /\ at'.pc = "act"
        \/ at.pc = "act" /\ use_softsim = 1 /\ at'.pc = "starting"
        \/ at.pc = "act" /\ use_softsim = 0 /\ at'.pc = "stopping"
        \/ at.pc = "started" /\ at'.pc = "final"
        \/ at.pc = "final" /\ at'.pc = "idle"
    BY <1>6 DEF AtWrite, AtAct, AtStarted, AtFinal
  <2> QED BY <2>1, <2>2
<1>7. CASE AtInit
  <2>1. /\ at.pc = "starting" /\ at'.pc = "started"
        /\ UNCHANGED <<use_softsim, main>>
    BY <1>7 DEF AtInit, flag
  <2>2. clnt' # 0 /\ Lost' \in Nat /\ Lost' <= Lost + (IF clnt # 0 THEN 1 ELSE 0)
    BY <1>7, LostByOpening DEF AtInit
  <2> QED BY <2>1, <2>2
<1>8. CASE AtRelease
  <2>1. /\ at.pc = "stopping" /\ at'.pc = "final"
        /\ UNCHANGED <<use_softsim, main>>
    BY <1>8 DEF AtRelease, flag
  <2>2. clnt' = 0 /\ Lost' = Lost
    BY <1>8, LostByClosing DEF AtRelease
  <2> QED BY <2>1, <2>2
<1>9. CASE Reset
  <2>1. LostClients' = {} /\ clnt' = 0 /\ at'.pc = "idle" /\ main' = "load"
    BY <1>9 DEF Reset, NoCommand, LostClients
  <2>2. Lost' = 0
    BY <2>1, FS_EmptySet DEF Lost
  <2> QED BY <2>1, <2>2
<1> QED
  BY <1>1, <1>2, <1>3, <1>4, <1>5, <1>6, <1>7, <1>8, <1>9
     DEF Next, MainStep, AtStep

(* No more than two clients are lost in a boot. *)
THEOREM FewLost == Safety => []LeaksBounded
<1>1. Init => LeakInv
  <2> SUFFICES ASSUME Init PROVE LeakInv
    OBVIOUS
  <2>1. LostClients = {} /\ clnt = 0 /\ at.pc = "idle" /\ main = "load"
    BY DEF Init, NoCommand, LostClients
  <2>2. Lost = 0
    BY <2>1, FS_EmptySet DEF Lost
  <2> QED BY <2>1, <2>2 DEF LeakInv, Owed, Allowed, TakesForOff
<1>2. TypeOK /\ TypeOK' /\ LeakInv /\ [Next]_vars => LeakInv'
  <2>1. LeakInv /\ UNCHANGED vars => LeakInv'
    BY LostOtherwise
       DEF LeakInv, Owed, Allowed, TakesForOff, vars, flag, client
  <2> QED BY <2>1, LeakStep
<1>3. TypeOK /\ LeakInv => LeaksBounded
  <2> SUFFICES ASSUME TypeOK, LeakInv PROVE Lost <= 2
    BY DEF LeaksBounded, Lost
  <2>1. Lost \in Nat
    BY LostNumber
  <2> QED BY <2>1 DEF LeakInv, Owed, Allowed
<1> QED BY <1>1, <1>2, <1>3, LifecycleTypes, PTL DEF Safety

------------------------------------------------------------------------------
(* Every step of the life cycle is a step of the switch the user is promised *)
(* or leaves it alone.  (That a setting is not ignored for ever is a         *)
(* liveness property and is model-checked.)                                 *)
THEOREM ImplementsSwitchSafety == Safety => Switch!SwitchSafety
<1>1. Init => Switch!SwitchInit
  BY DEF Init, Switch!SwitchInit
<1>2. LifecycleInv /\ [Next]_vars
          => [Switch!SwitchNext]_(Switch!switchVars)
  <2> SUFFICES ASSUME LifecycleInv, [Next]_vars
               PROVE  Switch!SwitchNext \/ UNCHANGED Switch!switchVars
    OBVIOUS
  <2> DEFINE on == startFile = <<1>>
             in == clients # {}
             ok == mishaps = {}
  <2> USE DEF Switch!switchVars, Switch!SwitchNext
  <2>1. ASSUME UNCHANGED <<startFile, clients>>, ok \/ ~ok'
        PROVE  Switch!SwitchNext \/ UNCHANGED Switch!switchVars
    BY <2>1 DEF Switch!Fail
  <2>2. ASSUME ~ok, ~ok', UNCHANGED startFile \/ UNCHANGED clients
        PROVE  Switch!SwitchNext
    BY <2>2 DEF Switch!Astray
  <2>3. ASSUME MainInit \/ AtInit
        PROVE  Switch!SwitchNext \/ UNCHANGED Switch!switchVars
    <3>1. UNCHANGED startFile /\ ClientOpened
      BY <2>3, ClientInitFacts DEF MainInit, AtInit, flag, LifecycleInv
    <3>2. CASE ok /\ ok'
      <4>1. clients' = {clnt'} /\ clients = {}
        BY <2>3, <3>1, <3>2
           DEF MainInit, AtInit, ClientOpened, LifecycleInv, Order, TypeOK,
               SwitchesAfterReady, MainInOrder, HandleFollowsFlag,
               ClientFollowsHandle
      <4>2. use_softsim = 1 /\ at.pc # "write" /\ main # "load"
        BY <2>3, <3>2
           DEF MainInit, AtInit, LifecycleInv, Order, SwitchesAfterReady,
               MainInOrder, HandleFollowsFlag
      <4>3. on
        BY <3>2, <4>2 DEF LifecycleInv, FileFollowsFlag
      <4> QED BY <3>1, <3>2, <4>1, <4>3 DEF Switch!Obey
    <3>3. CASE ok /\ ~ok'
      <4>1. UNCHANGED clients
        BY <2>3, <3>3 DEF MainInit, AtInit, ClientInit
      <4> QED BY <3>1, <3>3, <4>1, <2>1
    <3>4. CASE ~ok
      <4>1. ~ok'
        BY <3>1, <3>4 DEF ClientOpened
      <4> QED BY <3>1, <3>4, <4>1, <2>2
    <3> QED BY <3>2, <3>3, <3>4
  <2>4. ASSUME AtWrite
        PROVE  Switch!SwitchNext \/ UNCHANGED Switch!switchVars
    <3>1. UNCHANGED clients
      BY <2>4 DEF AtWrite, client
    <3>2. CASE UNCHANGED mishaps
      <4>1. on' # on => on' = ~on
        OBVIOUS
      <4> QED BY <2>2, <3>1, <3>2, <4>1 DEF Switch!Set
    <3>3. CASE UNCHANGED startFile /\ ~ok'
      BY <3>1, <3>3, <2>1, <2>2
    <3> QED BY <2>4, <3>2, <3>3 DEF AtWrite
  <2>5. ASSUME AtRelease
        PROVE  Switch!SwitchNext \/ UNCHANGED Switch!switchVars
    <3>1. /\ UNCHANGED <<startFile, mishaps>> /\ at.pc = "stopping"
          /\ clients' = clients \ {clnt}
      BY <2>5 DEF AtRelease, ClientRelease, flag
    <3>2. CASE ok
      <4>1. main = "run" /\ use_softsim = 0 /\ clients = {clnt}
        BY <3>1, <3>2 DEF LifecycleInv, Order, SwitchesAfterReady,
                          HandleFollowsFlag, ClientFollowsHandle
      <4>2. ~on
        BY <3>1, <3>2, <4>1 DEF LifecycleInv, FileFollowsFlag
      <4> QED BY <3>1, <3>2, <4>1, <4>2 DEF Switch!Obey
    <3> QED BY <3>1, <3>2, <2>2
  <2>6. ASSUME Reset
        PROVE  Switch!SwitchNext
    BY <2>6 DEF Reset, Switch!Restart
  <2>7. ASSUME \/ MainLoad \/ MainReady \/ MainSetApn \/ MainStarted \/ AtNew
               \/ AtDecide \/ AtAct \/ AtStarted \/ AtFinal \/ UNCHANGED vars
        PROVE  Switch!SwitchNext \/ UNCHANGED Switch!switchVars
    <3>1. UNCHANGED <<startFile, clients>>
      BY <2>7 DEF MainLoad, MainReady, MainSetApn, MainStarted, AtNew, Accept,
                  AtExec, AtBad, AtRead, AtQuery, AtCustom, AtStart, AtRefresh,
                  AtErase, AtDecide, AtAct, AtStarted, AtFinal, vars, flag,
                  client
    <3>2. mishaps \subseteq mishaps'
      BY <2>7 DEF MainLoad, MainReady, MainSetApn, MainStarted, AtNew, Accept,
                  AtExec, AtBad, AtRead, AtQuery, AtCustom, AtStart, AtRefresh,
                  AtErase, AtDecide, Deciding, AtAct, AtStarted, AtFinal, vars
    <3>3. ok \/ ~ok'
      BY <3>2
    <3> QED BY <3>1, <3>3, <2>1
  <2> QED
    BY <2>3, <2>4, <2>5, <2>6, <2>7 DEF Next, MainStep, AtStep
<1> QED BY <1>1, <1>2, LifecycleCorrect, PTL DEF Safety, Switch!SwitchSafety
==============================================================================
