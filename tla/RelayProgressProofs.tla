------------------------- MODULE RelayProgressProofs -------------------------
(***************************************************************************)
(* Proofs about the progress of SimRelay, as far as it is a matter of       *)
(* safety: no thread waits in a ring, every step keeps the request of the   *)
(* blocked callback where it is or brings it nearer to its end, and the     *)
(* answer stays in the shared buffer until it is copied.                    *)
(***************************************************************************)
EXTENDS SimRelayProofs

\* MAIN is idle in one way, and reports "ready" only from connect_modem.
MainShape ==
    /\ main.kind = "idle" => main = Idle
    /\ main.kind = "ready" => ctl \in {"init", "setcard", "announce", "insert"}

ProgressInv == HandshakeInv /\ MainShape

------------------------------------------------------------------------------
(* No circular wait.                                                        *)

LEMMA MainShapeStep == HandshakeInv /\ MainShape /\ Next => MainShape'
<1> SUFFICES ASSUME HandshakeInv, MainShape, Next PROVE MainShape'
  OBVIOUS
<1> USE DEF MainShape
<1>1. CASE UNCHANGED <<main, ctl>>
  BY <1>1
<1>2. CASE MainGet
  <2>1. Head(mainQueue) \in MainEvents
    BY <1>2, MainReceive DEF MainGet, HandshakeInv, TypeOK
  <2>2. main'.kind \notin {"idle", "ready"}
    BY <1>2, <2>1 DEF MainGet, MainEvents
  <2> QED BY <2>2
<1>3. CASE MainTimer \/ MainDispatch \/ ResetCnf \/ GiveData
  BY <1>3 DEF MainTimer, MainDispatch, ResetCnf, GiveData, Idle, Event
<1>4. CASE MainReady \/ ApduCnf
  BY <1>4 DEF MainReady, ApduCnf, Event
<1>5. CASE ConnectStep
  BY <1>5 DEF ConnectStep, ClientInit, SetCard, ConnectCard, InsertCard, Idle,
              Event
<1>6. CASE AtStart \/ AtStop \/ StopStep
  BY <1>6 DEF AtStart, AtStop, StopStep, StopCos, StoppedCos, Detach,
              RemoveCard, DisconnectCard, Release, Released
<1>7. Indication \/ HandlerStep \/ Tick \/ CosStep => UNCHANGED <<main, ctl>>
  BY DEF Indication, ApduInd, ConnectInd, DisconnectInd, PowerInd, PowerDownInd,
         HandlerStep, Post, TakeRst, TakeData, WriteState, CheckAtr, SendAtr,
         CheckResp, SendResp, Tick, CosStep, CosGet, CosNotify, CosStop, session
<1> QED
  BY <1>1, <1>2, <1>3, <1>4, <1>5, <1>6, <1>7 DEF Next, MainStep

LEMMA ProgressCorrect == Safety => []ProgressInv
<1>1. Init => MainShape
  BY DEF Init, MainShape, Idle, Event
<1>2. HandshakeInv /\ MainShape /\ [Next]_vars => MainShape'
  <2>1. MainShape /\ UNCHANGED vars => MainShape'
    BY DEF MainShape, vars, session
  <2> QED BY <2>1, MainShapeStep
<1> QED BY <1>1, <1>2, HandshakeCorrect, PTL DEF Safety, ProgressInv

LEMMA FullNotEmpty ==
    ASSUME NEW S, NEW q \in Seq(S), ~Room(q)
    PROVE  q # <<>>
<1>1. Len(<<>>) = 0
  OBVIOUS
<1> QED BY <1>1, BoundAssumption DEF Room

\* As long as MAIN or COS has anything to do, one of the two can do it.
LEMMA TasksRun ==
    ProgressInv =>
        (mainQueue # <<>> \/ main # Idle \/ cosQueue # <<>> \/ cos # Idle
            => MainCan \/ CosCan)
<1> SUFFICES ASSUME ProgressInv PROVE
        (mainQueue # <<>> \/ main # Idle \/ cosQueue # <<>> \/ cos # Idle
            => MainCan \/ CosCan)
  OBVIOUS
<1> USE DEF ProgressInv
<1>1. ~Room(mainQueue) => mainQueue # <<>>
  BY FullNotEmpty DEF HandshakeInv, TypeOK
<1>2. ~Room(cosQueue) => cosQueue # <<>>
  BY FullNotEmpty DEF HandshakeInv, TypeOK
<1>3. main # Idle =>
          MainCan \/ (main.kind \in {"reset", "apdu"} /\ ~Room(cosQueue))
  BY DEF HandshakeInv, TypeOK, MainHolds, MainEvents, MainShape, MainCan
<1>4. cos # Idle =>
          CosCan \/ (AtCos /\ ~Room(mainQueue))
  BY DEF HandshakeInv, TypeOK, CosHolds, CosJobs, AtCos, CosCan
<1>5. cosQueue # <<>> \/ cos # Idle => CosCan \/ (AtCos /\ mainQueue # <<>>)
  BY <1>1, <1>4 DEF CosCan
<1>6. main # Idle => MainCan \/ CosCan
  BY <1>2, <1>3, <1>5 DEF AtMain, HandshakeInv, OneRequest
<1>7. mainQueue # <<>> => MainCan \/ CosCan
  BY <1>6 DEF MainCan
<1> QED BY <1>5, <1>6, <1>7

(* No thread of the relay waits in a ring.                                  *)
THEOREM NoRing == Safety => []NoCircularWait
<1>1. ProgressInv => NoCircularWait
  <2> SUFFICES ASSUME ProgressInv PROVE NoCircularWait
    OBVIOUS
  <2> USE DEF ProgressInv, HandshakeInv
  <2>1. /\ ~Room(mainQueue) => MainCan \/ CosCan
        /\ ~Room(cosQueue) => MainCan \/ CosCan
    BY FullNotEmpty, TasksRun DEF TypeOK
  <2>2. main.kind \in {"reset", "apdu"} => main # Idle
    BY DEF Idle, Event
  <2>3. cos.kind \in {"reset", "apdu", "stop"} => cos # Idle
    BY DEF Idle, Event
  <2>4. handler.pc = "post" => HandlerCan \/ MainCan \/ CosCan
    BY <2>1 DEF HandlerCan
  <2>5. handler.pc = "wait" => HandlerCan \/ MainCan \/ CosCan
    <3> SUFFICES ASSUME handler.pc = "wait"
                 PROVE  HandlerCan \/ MainCan \/ CosCan
      OBVIOUS
    <3>1. InMainQueue => mainQueue # <<>>
      BY DEF InMainQueue
    <3>2. InCosQueue => cosQueue # <<>>
      BY DEF InCosQueue
    <3>3. (AtMain => main # Idle) /\ (AtCos => cos # Idle)
      BY DEF AtMain, AtCos, Idle, Event
    <3>4. Given => HandlerCan
      BY DEF Given, HandlerCan, RequestMatches
    <3>5. InMainQueue \/ AtMain \/ InCosQueue \/ AtCos \/ Given
      BY DEF OneRequest
    <3> QED BY <3>1, <3>2, <3>3, <3>4, <3>5, TasksRun
  <2>6. ctl = "stopping" => stopped = 1 \/ CosCan \/ MainCan
    <3>1. StopInQueue => cosQueue # <<>>
      BY DEF StopInQueue
    <3> QED BY <3>1, <2>3, TasksRun DEF OneStop
  <2>7. ctl = "drain" => handler.pc = "idle" \/ HandlerCan \/ CosCan \/ MainCan
    <3>1. handler.pc \in {"idle", "post", "wait", "write", "atr", "tell",
                       "resp", "reply"}
      BY DEF TypeOK, HandlerAt
    <3>2. handler.pc \in {"write", "atr", "tell", "resp", "reply"}
              => HandlerCan
      BY DEF HandlerCan
    <3> QED BY <3>1, <3>2, <2>4, <2>5
  <2> QED
    BY <2>1, <2>2, <2>3, <2>4, <2>5, <2>6, <2>7, TasksRun DEF NoCircularWait
<1> QED BY <1>1, ProgressCorrect, PTL

------------------------------------------------------------------------------
(* The request never goes back.  Stage and Place, by where the request is:   *)
(* it is in one place only, so neither the order of the cases nor the choice *)
(* of the element matters.                                                  *)

LEMMA InMainAt ==
    HandshakeInv =>
        \A j \in DOMAIN mainQueue :
            mainQueue[j].kind # "timer" =>
                /\ Place = j
                /\ Stage = IF mainQueue[j].kind \in {"reset", "apdu"}
                           THEN 7 ELSE 3
<1> SUFFICES ASSUME HandshakeInv,
                    NEW j \in DOMAIN mainQueue, mainQueue[j].kind # "timer"
             PROVE  /\ Place = j
                    /\ Stage = IF mainQueue[j].kind \in {"reset", "apdu"}
                               THEN 7 ELSE 3
  OBVIOUS
<1> DEFINE c == CHOOSE i \in DOMAIN mainQueue : mainQueue[i].kind # "timer"
<1>1. InMainQueue /\ ~AtMain /\ ~InCosQueue /\ ~AtCos /\ ~Given
  BY DEF InMainQueue, HandshakeInv, OneRequest
<1>2. c \in DOMAIN mainQueue /\ mainQueue[c].kind # "timer"
  OBVIOUS
<1>3. c = j
  BY <1>2 DEF HandshakeInv, OneRequest, OneInMainQueue
<1>4. Place = j
  BY <1>1, <1>3 DEF Place
<1>5. mainQueue[j].kind \in {"reset", "apdu", "resetDone", "apduDone"}
  <2>1. mainQueue[j] \in MainEvents
    BY DEF HandshakeInv, TypeOK
  <2> QED BY <2>1 DEF MainEvents
<1>6. ASSUME NEW kinds, "timer" \notin kinds
      PROVE  Queued(kinds) <=> mainQueue[j].kind \in kinds
  BY <1>6 DEF Queued, HandshakeInv, OneRequest, OneInMainQueue
<1>7. /\ Queued({"reset", "apdu"}) <=> mainQueue[j].kind \in {"reset", "apdu"}
      /\ Queued({"resetDone", "apduDone"})
             <=> mainQueue[j].kind \in {"resetDone", "apduDone"}
  BY <1>6
<1>8. Stage = IF mainQueue[j].kind \in {"reset", "apdu"} THEN 7 ELSE 3
  <2>1. CASE mainQueue[j].kind \in {"reset", "apdu"}
    BY <1>1, <1>7, <2>1 DEF Stage, AtMain
  <2>2. CASE mainQueue[j].kind \in {"resetDone", "apduDone"}
    <3>1. ~Queued({"reset", "apdu"}) /\ Queued({"resetDone", "apduDone"})
      BY <1>7, <2>2
    <3>2. main.kind \notin {"reset", "apdu", "resetDone", "apduDone", "give"}
      BY <1>1 DEF AtMain
    <3>3. Stage = 3
      BY <1>1, <3>1, <3>2, Zenon DEF Stage
    <3>4. mainQueue[j].kind \notin {"reset", "apdu"}
      BY <2>2
    <3> QED BY <3>3, <3>4
  <2> QED BY <1>5, <2>1, <2>2
<1> QED BY <1>4, <1>8

LEMMA NotInMain ==
    ~InMainQueue =>
        ~Queued({"reset", "apdu"}) /\ ~Queued({"resetDone", "apduDone"})
  BY DEF InMainQueue, Queued

LEMMA InCosAt ==
    HandshakeInv =>
        \A j \in DOMAIN cosQueue :
            cosQueue[j].kind # "stop" => Place = j /\ Stage = 5
<1> SUFFICES ASSUME HandshakeInv,
                    NEW j \in DOMAIN cosQueue, cosQueue[j].kind # "stop"
             PROVE  Place = j /\ Stage = 5
  OBVIOUS
<1> DEFINE c == CHOOSE i \in DOMAIN cosQueue : cosQueue[i].kind # "stop"
<1>1. InCosQueue /\ ~InMainQueue /\ ~AtMain /\ ~AtCos /\ ~Given
  BY DEF InCosQueue, HandshakeInv, OneRequest
<1>2. c \in DOMAIN cosQueue /\ cosQueue[c].kind # "stop"
  OBVIOUS
<1>3. c = j
  BY <1>2 DEF HandshakeInv, OneRequest, OneInCosQueue
<1>4. Place = j
  BY <1>1, <1>3 DEF Place
<1>5. Stage = 5
  BY <1>1, NotInMain DEF Stage, AtMain
<1> QED BY <1>4, <1>5

LEMMA InHandAt ==
    HandshakeInv =>
        /\ main.kind \in {"reset", "apdu"} => Place = 0 /\ Stage = 6
        /\ AtCos => Place = 0 /\ Stage = 4
        /\ main.kind \in {"resetDone", "apduDone"} => Place = 0 /\ Stage = 2
        /\ main.kind = "give" => Place = 0 /\ Stage = 1
        /\ Given => Place = 0 /\ Stage = 0
<1> SUFFICES ASSUME HandshakeInv
    PROVE /\ main.kind \in {"reset", "apdu"} => Place = 0 /\ Stage = 6
          /\ AtCos => Place = 0 /\ Stage = 4
          /\ main.kind \in {"resetDone", "apduDone"} => Place = 0 /\ Stage = 2
          /\ main.kind = "give" => Place = 0 /\ Stage = 1
          /\ Given => Place = 0 /\ Stage = 0
  OBVIOUS
<1> USE NotInMain DEF HandshakeInv, OneRequest, Stage, Place
<1>1. main.kind \in {"reset", "apdu"} => Place = 0 /\ Stage = 6
  BY DEF AtMain
<1>2. AtCos => Place = 0 /\ Stage = 4
  BY DEF AtMain
<1>3. main.kind \in {"resetDone", "apduDone"} => Place = 0 /\ Stage = 2
  BY DEF AtMain
<1>4. main.kind = "give" => Place = 0 /\ Stage = 1
  BY DEF AtMain
<1>5. Given => Place = 0 /\ Stage = 0
  BY DEF AtMain
<1> QED BY <1>1, <1>2, <1>3, <1>4, <1>5

\* All of it in one place, so that it can be used of a step's two states.
Located ==
    /\ \A j \in DOMAIN mainQueue :
          mainQueue[j].kind # "timer" =>
              /\ Place = j
              /\ Stage = IF mainQueue[j].kind \in {"reset", "apdu"}
                         THEN 7 ELSE 3
    /\ main.kind \in {"reset", "apdu"} => Place = 0 /\ Stage = 6
    /\ \A j \in DOMAIN cosQueue :
          cosQueue[j].kind # "stop" => Place = j /\ Stage = 5
    /\ AtCos => Place = 0 /\ Stage = 4
    /\ main.kind \in {"resetDone", "apduDone"} => Place = 0 /\ Stage = 2
    /\ main.kind = "give" => Place = 0 /\ Stage = 1
    /\ Given => Place = 0 /\ Stage = 0

LEMMA LocatedNow == HandshakeInv => Located
  BY InMainAt, InCosAt, InHandAt DEF Located

LEMMA LocatedNext == HandshakeInv' => Located'
  BY LocatedNow, PTL

Advances == Stage' < Stage \/ (Stage' = Stage /\ Place' <= Place)

LEMMA PlaceNumber ==
    HandshakeInv /\ handler.pc = "wait" => Place \in Nat /\ Stage \in Nat
<1> SUFFICES ASSUME HandshakeInv, handler.pc = "wait"
             PROVE  Place \in Nat /\ Stage \in Nat
  OBVIOUS
<1>1. Located
  BY LocatedNow
<1>2. CASE InMainQueue
  <2>1. PICK j \in DOMAIN mainQueue : mainQueue[j].kind # "timer"
    BY <1>2 DEF InMainQueue
  <2>2. j \in Nat
    BY DEF HandshakeInv, TypeOK
  <2> QED BY <1>1, <2>1, <2>2 DEF Located
<1>3. CASE InCosQueue
  <2>1. PICK j \in DOMAIN cosQueue : cosQueue[j].kind # "stop"
    BY <1>3 DEF InCosQueue
  <2>2. j \in Nat
    BY DEF HandshakeInv, TypeOK
  <2> QED BY <1>1, <2>1, <2>2 DEF Located
<1>4. CASE AtMain \/ AtCos \/ Given
  BY <1>1, <1>4 DEF AtMain, Located
<1> QED BY <1>2, <1>3, <1>4 DEF HandshakeInv, OneRequest

\* The steps that leave the request where it is.
LEMMA UnmovedStep ==
    ASSUME HandshakeInv, handler.pc = "wait",
           UNCHANGED <<mainQueue, cosQueue, soft_sim_rst, soft_sim_data>>,
           cos' = cos \/ (~AtCos /\ ~AtCos'),
           main' = main \/ (~AtMain /\ ~AtMain')
    PROVE  Advances
<1>1. /\ \A kinds : Queued(kinds)' <=> Queued(kinds)
      /\ InMainQueue' <=> InMainQueue
      /\ InCosQueue' <=> InCosQueue
      /\ AtCos' <=> AtCos
      /\ Given' <=> Given
  BY DEF Queued, InMainQueue, InCosQueue, AtCos, Given
<1>2. Stage' = Stage
  BY <1>1 DEF Stage, AtMain
<1>3. Place' = Place
  BY <1>1 DEF Place
<1> QED BY <1>2, <1>3, PlaceNumber DEF Advances

\* A send to the main pipe that is not of the request: the timer's.
LEMMA TickAdvances ==
    ASSUME HandshakeInv, HandshakeInv', handler.pc = "wait", Tick
    PROVE  Advances
<1>0. Located /\ Located'
  BY LocatedNow, LocatedNext
<1>1. /\ UNCHANGED <<main, cosQueue, cos, soft_sim_rst, soft_sim_data>>
      /\ DOMAIN mainQueue \in SUBSET DOMAIN mainQueue'
      /\ \A j \in DOMAIN mainQueue : j \in Nat /\ mainQueue'[j] = mainQueue[j]
  BY SendFacts, EventTypes
     DEF Tick, HandshakeInv, TypeOK, core, sync
<1>2. CASE InMainQueue
  <2>1. PICK j \in DOMAIN mainQueue : mainQueue[j].kind # "timer"
    BY <1>2 DEF InMainQueue
  <2>2. j \in DOMAIN mainQueue' /\ mainQueue'[j] = mainQueue[j] /\ j \in Nat
    BY <1>1
  <2> QED BY <1>0, <2>1, <2>2 DEF Located, Advances
<1>3. CASE InCosQueue
  <2>1. PICK j \in DOMAIN cosQueue : cosQueue[j].kind # "stop"
    BY <1>3 DEF InCosQueue
  <2>2. j \in Nat
    BY DEF HandshakeInv, TypeOK
  <2> QED BY <1>0, <1>1, <2>1, <2>2 DEF Located, Advances
<1>4. CASE AtMain \/ AtCos \/ Given
  BY <1>0, <1>1, <1>4 DEF AtMain, AtCos, Given, Located, Advances
<1> QED BY <1>2, <1>3, <1>4 DEF HandshakeInv, OneRequest

LEMMA MainGetAdvances ==
    ASSUME HandshakeInv, HandshakeInv', handler.pc = "wait", MainGet
    PROVE  Advances
<1>0. Located /\ Located'
  BY LocatedNow, LocatedNext
<1>1. /\ main' = mainQueue[1] /\ main = Idle
      /\ UNCHANGED <<cosQueue, cos, soft_sim_rst, soft_sim_data>>
      /\ DOMAIN mainQueue = 1 .. Len(mainQueue) /\ Len(mainQueue) \in Nat
      /\ DOMAIN mainQueue' = 1 .. (Len(mainQueue) - 1)
      /\ \A i \in 1 .. (Len(mainQueue) - 1) : mainQueue'[i] = mainQueue[i + 1]
  BY ReceiveFacts DEF MainGet, HandshakeInv, TypeOK, core, sync
<1>2. CASE InMainQueue
  <2>1. PICK j \in DOMAIN mainQueue : mainQueue[j].kind # "timer"
    BY <1>2 DEF InMainQueue
  <2>2. CASE j = 1
    <3>1. mainQueue[j] \in MainEvents
      BY DEF HandshakeInv, TypeOK
    <3> QED BY <1>0, <1>1, <2>1, <2>2, <3>1
            DEF Located, Advances, MainEvents
  <2>3. CASE j # 1
    <3>1. /\ j - 1 \in DOMAIN mainQueue' /\ mainQueue'[j - 1] = mainQueue[j]
          /\ j \in Nat /\ j - 1 <= j
      <4>1. j - 1 \in 1 .. (Len(mainQueue) - 1) /\ (j - 1) + 1 = j /\ j \in Nat
        BY <1>1, <2>1, <2>3
      <4> QED BY <1>1, <4>1
    <3> QED BY <1>0, <2>1, <3>1 DEF Located, Advances
  <2> QED BY <2>2, <2>3
<1>3. CASE InCosQueue
  <2>1. PICK j \in DOMAIN cosQueue : cosQueue[j].kind # "stop"
    BY <1>3 DEF InCosQueue
  <2>2. j \in Nat
    BY DEF HandshakeInv, TypeOK
  <2> QED BY <1>0, <1>1, <2>1, <2>2 DEF Located, Advances
<1>4. CASE AtMain \/ AtCos \/ Given
  BY <1>0, <1>1, <1>4 DEF AtMain, AtCos, Given, Idle, Event, Located, Advances
<1> QED BY <1>2, <1>3, <1>4 DEF HandshakeInv, OneRequest

LEMMA MainDispatchAdvances ==
    ASSUME HandshakeInv, HandshakeInv', MainDispatch
    PROVE  Advances
<1>0. Located /\ Located'
  BY LocatedNow, LocatedNext
<1>1. /\ Len(cosQueue) + 1 \in DOMAIN cosQueue'
      /\ cosQueue'[Len(cosQueue) + 1] = main
      /\ main.kind \in {"reset", "apdu"}
  <2>1. main \in CosJobs
    BY DEF MainDispatch, HandshakeInv, TypeOK, MainHolds, MainEvents, CosJobs
  <2> QED BY <2>1, SendFacts DEF MainDispatch, HandshakeInv, TypeOK
<1> QED BY <1>0, <1>1 DEF Located, Advances

\* The confirmations, each one stage further.
LEMMA ConfirmAdvances ==
    ASSUME HandshakeInv, HandshakeInv', ResetCnf \/ ApduCnf \/ GiveData
    PROVE  Advances
<1>0. Located /\ Located'
  BY LocatedNow, LocatedNext
<1>1. CASE ResetCnf
  <2>1. soft_sim_rst' = 1
    BY <1>1 DEF ResetCnf, HandshakeInv, TypeOK, OneRequest, AtMain, Given
  <2> QED BY <1>0, <1>1, <2>1 DEF ResetCnf, Given, Located, Advances
<1>2. CASE ApduCnf
  BY <1>0, <1>2 DEF ApduCnf, Event, Located, Advances
<1>3. CASE GiveData
  <2>1. soft_sim_data' = 1
    BY <1>3 DEF GiveData, HandshakeInv, TypeOK, OneRequest, AtMain, Given
  <2> QED BY <1>0, <1>3, <2>1 DEF GiveData, Given, Located, Advances
<1> QED BY <1>1, <1>2, <1>3

LEMMA CosGetAdvances ==
    ASSUME HandshakeInv, HandshakeInv', handler.pc = "wait", CosGet
    PROVE  Advances
<1>0. Located /\ Located'
  BY LocatedNow, LocatedNext
<1>1. /\ cos' = cosQueue[1] /\ cos = Idle
      /\ UNCHANGED <<mainQueue, main, soft_sim_rst, soft_sim_data>>
      /\ DOMAIN cosQueue = 1 .. Len(cosQueue) /\ Len(cosQueue) \in Nat
      /\ DOMAIN cosQueue' = 1 .. (Len(cosQueue) - 1)
      /\ \A i \in 1 .. (Len(cosQueue) - 1) : cosQueue'[i] = cosQueue[i + 1]
  BY ReceiveFacts DEF CosGet, HandshakeInv, TypeOK, sync
<1>2. CASE InCosQueue
  <2>1. PICK j \in DOMAIN cosQueue : cosQueue[j].kind # "stop"
    BY <1>2 DEF InCosQueue
  <2>2. CASE j = 1
    <3>1. cosQueue[j] \in CosJobs
      BY DEF HandshakeInv, TypeOK
    <3>2. AtCos'
      BY <1>1, <2>1, <2>2, <3>1 DEF AtCos, CosJobs
    <3> QED BY <1>0, <2>1, <3>2 DEF Located, Advances
  <2>3. CASE j # 1
    <3>1. /\ j - 1 \in DOMAIN cosQueue' /\ cosQueue'[j - 1] = cosQueue[j]
          /\ j \in Nat /\ j - 1 <= j
      <4>1. j - 1 \in 1 .. (Len(cosQueue) - 1) /\ (j - 1) + 1 = j /\ j \in Nat
        BY <1>1, <2>1, <2>3
      <4> QED BY <1>1, <4>1
    <3> QED BY <1>0, <2>1, <3>1 DEF Located, Advances
  <2> QED BY <2>2, <2>3
<1>3. CASE InMainQueue
  <2>1. PICK j \in DOMAIN mainQueue : mainQueue[j].kind # "timer"
    BY <1>3 DEF InMainQueue
  <2>2. j \in Nat
    BY DEF HandshakeInv, TypeOK
  <2> QED BY <1>0, <1>1, <2>1, <2>2 DEF Located, Advances
<1>4. CASE AtMain \/ AtCos \/ Given
  BY <1>0, <1>1, <1>4 DEF AtMain, AtCos, Given, Idle, Event, Located, Advances
<1> QED BY <1>2, <1>3, <1>4 DEF HandshakeInv, OneRequest

LEMMA CosNotifyAdvances ==
    ASSUME HandshakeInv, HandshakeInv', CosNotify
    PROVE  Advances
<1>0. Located /\ Located'
  BY LocatedNow, LocatedNext
<1> DEFINE e == IF cos.kind = "reset" THEN Event("resetDone", 0)
                                      ELSE Event("apduDone", cos.n)
<1>1. e \in MainEvents /\ e.kind \in {"resetDone", "apduDone"}
  <2>1. cos.n \in Apdus
    BY DEF CosNotify, HandshakeInv, TypeOK, CosHolds, CosJobs, Idle, Event
  <2> QED BY <2>1, EventTypes DEF Event
<1>2. /\ Len(mainQueue) + 1 \in DOMAIN mainQueue'
      /\ mainQueue'[Len(mainQueue) + 1] = e
  BY <1>1, SendFacts DEF CosNotify, HandshakeInv, TypeOK
<1>3. AtCos
  BY DEF CosNotify, AtCos
<1> QED BY <1>0, <1>1, <1>2, <1>3 DEF Located, Advances

LEMMA StopCosAdvances ==
    ASSUME HandshakeInv, HandshakeInv', handler.pc = "wait", StopCos
    PROVE  Advances
<1>0. Located /\ Located'
  BY LocatedNow, LocatedNext
<1>1. /\ UNCHANGED <<mainQueue, main, cos, soft_sim_rst, soft_sim_data>>
      /\ \A j \in DOMAIN cosQueue :
            /\ j \in Nat
            /\ j \in DOMAIN cosQueue' /\ cosQueue'[j] = cosQueue[j]
  BY SendFacts, EventTypes DEF StopCos, HandshakeInv, TypeOK, core, sync
<1>2. CASE InMainQueue
  <2>1. PICK j \in DOMAIN mainQueue : mainQueue[j].kind # "timer"
    BY <1>2 DEF InMainQueue
  <2>2. j \in Nat
    BY DEF HandshakeInv, TypeOK
  <2> QED BY <1>0, <1>1, <2>1, <2>2 DEF Located, Advances
<1>3. CASE InCosQueue
  <2>1. PICK j \in DOMAIN cosQueue : cosQueue[j].kind # "stop"
    BY <1>3 DEF InCosQueue
  <2> QED BY <1>0, <1>1, <2>1 DEF Located, Advances
<1>4. CASE AtMain \/ AtCos \/ Given
  BY <1>0, <1>1, <1>4 DEF AtMain, AtCos, Given, Located, Advances
<1> QED BY <1>2, <1>3, <1>4 DEF HandshakeInv, OneRequest

(* The request of the blocked callback is never set back and never lost: a   *)
(* step after which it were nowhere would take it to stage 8.                *)
THEOREM RequestNeverSetBack == Safety => RequestAdvances
<1>1. HandshakeInv /\ HandshakeInv' /\ [Next]_vars
          => [handler.pc = "wait" /\ handler'.pc = "wait"
                => Stage' < Stage \/ (Stage' = Stage /\ Place' <= Place)]_vars
  <2> SUFFICES ASSUME HandshakeInv, HandshakeInv', Next,
                      handler.pc = "wait", handler'.pc = "wait"
               PROVE  Advances
    BY DEF Advances
  <2>1. ~Indication /\ ~HandlerStep
    BY DEF Indication, ApduInd, ConnectInd, DisconnectInd, PowerInd,
           PowerDownInd, MayIndicate, HandlerStep, Post, TakeRst, TakeData,
           WriteState, CheckAtr, SendAtr, CheckResp, SendResp, HandshakeInv, TypeOK, HandlerAt
  <2>2. CASE Tick
    BY <2>2, TickAdvances
  <2>3. CASE MainStep
    <3>1. CASE MainTimer \/ MainReady
      <4>1. /\ UNCHANGED <<mainQueue, cosQueue, cos>> /\ ~AtMain /\ ~AtMain'
            /\ UNCHANGED <<soft_sim_rst, soft_sim_data>>
        BY <3>1 DEF MainTimer, MainReady, pipes, core, sync, AtMain, Idle, Event
      <4> QED BY <4>1, UnmovedStep
    <3> QED BY <2>3, <3>1, MainGetAdvances, MainDispatchAdvances,
               ConfirmAdvances DEF MainStep
  <2>4. CASE CosStep
    <3>1. CASE CosStop
      <4>1. /\ UNCHANGED <<mainQueue, cosQueue, main>> /\ ~AtCos /\ ~AtCos'
            /\ UNCHANGED <<soft_sim_rst, soft_sim_data>>
        BY <3>1 DEF CosStop, pipes, sync, AtCos, Idle, Event
      <4> QED BY <4>1, UnmovedStep
    <3> QED BY <2>4, <3>1, CosGetAdvances, CosNotifyAdvances DEF CosStep
  <2>5. CASE AtStart \/ ConnectStep \/ AtStop
    <3>1. UNCHANGED <<mainQueue, cosQueue, cos, soft_sim_rst, soft_sim_data>>
      BY <2>5 DEF AtStart, ConnectStep, ClientInit, SetCard, ConnectCard,
                  InsertCard, AtStop, pipes, core, sync
    <3>2. main' = main \/ (~AtMain /\ ~AtMain')
      BY <2>5 DEF AtStart, ConnectStep, ClientInit, SetCard, ConnectCard,
                  InsertCard, AtStop, AtMain, Idle, Event
    <3> QED BY <3>1, <3>2, UnmovedStep
  <2>6. CASE StopStep
    <3>1. CASE StopCos
      BY <3>1, StopCosAdvances
    <3>2. CASE ~StopCos
      <4>1. UNCHANGED <<mainQueue, cosQueue, cos, main, soft_sim_rst,
                        soft_sim_data>>
        BY <2>6, <3>2 DEF StopStep, StoppedCos, Detach, RemoveCard,
                          DisconnectCard, Release, Released, pipes, core, sync
      <4> QED BY <4>1, UnmovedStep
    <3> QED BY <3>1, <3>2
  <2> QED BY <2>1, <2>2, <2>3, <2>4, <2>5, <2>6 DEF Next
<1> QED BY <1>1, HandshakeCorrect, PTL DEF Safety, RequestAdvances

------------------------------------------------------------------------------
(* The shared buffer keeps the answer until the callback has copied it.     *)
THEOREM AnswerKept == Safety => AnswerHeld
<1>1. HandshakeInv /\ [Next]_vars
          => [soft_sim_data = 1 \/ handler.pc = "resp"
                => g_rx_data' = g_rx_data]_vars
  <2> SUFFICES ASSUME HandshakeInv, Next,
                      soft_sim_data = 1 \/ handler.pc = "resp"
               PROVE  g_rx_data' = g_rx_data
    OBVIOUS
  <2>1. ~ApduCnf
    BY DEF ApduCnf, HandshakeInv, OneRequest, AtMain, Given
  <2>2. Indication \/ HandlerStep \/ Tick \/ CosStep => g_rx_data' = g_rx_data
    BY DEF Indication, ApduInd, ConnectInd, DisconnectInd, PowerInd,
           PowerDownInd, HandlerStep, Post, TakeRst, TakeData, WriteState,
           CheckAtr, SendAtr, CheckResp, SendResp, Tick, CosStep, CosGet, CosNotify, CosStop, sync
  <2>3. MainStep /\ ~ApduCnf => g_rx_data' = g_rx_data
    BY DEF MainStep, MainGet, MainTimer, MainReady, MainDispatch, ResetCnf,
           GiveData, sync
  <2>4. AtStart \/ ConnectStep \/ AtStop \/ StopStep => g_rx_data' = g_rx_data
    BY DEF AtStart, ConnectStep, ClientInit, SetCard, ConnectCard, InsertCard,
           AtStop, StopStep, StopCos, StoppedCos, Detach, RemoveCard,
           DisconnectCard, Release, Released, sync
  <2> QED BY <2>1, <2>2, <2>3, <2>4 DEF Next
<1> QED BY <1>1, HandshakeCorrect, PTL DEF Safety, AnswerHeld
==============================================================================
