--------------------------- MODULE SimRelayProofs ---------------------------
(***************************************************************************)
(* Proofs about SimRelay, for every number of slots, commands and pipe      *)
(* elements.  The handshake invariant says where the one request of the     *)
(* modem is and that what is there belongs to the indication being handled. *)
(***************************************************************************)
EXTENDS SimRelay, TLAPS

\* The event e carries the request of the current indication, or its end.
Carries(e) ==
    IF handler.ind = "apdu"
    THEN e.kind \in {"apdu", "apduDone", "give"} /\ e.n = handler.n
    ELSE e.kind \in {"reset", "resetDone"}

RequestMatches ==
    /\ \A i \in DOMAIN mainQueue :
          mainQueue[i].kind # "timer" => Carries(mainQueue[i])
    /\ \A i \in DOMAIN cosQueue :
          cosQueue[i].kind # "stop" => Carries(cosQueue[i])
    /\ AtMain => Carries(main)
    /\ AtCos => Carries(cos)
    /\ soft_sim_rst = 1 => handler.ind \in Resets
    /\ soft_sim_data = 1 => handler.ind = "apdu" /\ g_rx_data = handler.n
    /\ main.kind = "give" => g_rx_data = handler.n

\* What the handler may be doing at each of its program points.
HandlerShape ==
    /\ handler.pc = "idle" => handler = Returned
    /\ handler.pc \in {"post", "wait"} => handler.ind \in Resets \cup {"apdu"}
    /\ handler.pc = "write" =>
           handler.ind \in Resets \cup {"disconnect", "power_down"}
    /\ handler.pc \in {"atr", "tell"} => handler.ind \in Resets
    /\ handler.pc = "resp" => handler.ind = "apdu" /\ g_rx_data = handler.n
    /\ handler.pc = "reply" => handler.ind = "apdu" /\ resp = handler.n
    /\ handler.ind = "apdu" => handler.n = sent /\ sent > 0

StopInQueue == \E i \in DOMAIN cosQueue : cosQueue[i].kind = "stop"

OneStopInQueue ==
    \A i, j \in DOMAIN cosQueue :
        cosQueue[i].kind = "stop" /\ cosQueue[j].kind = "stop" => i = j

\* disconnect_modem waits for exactly one stop of the core.
OneStop ==
    /\ ctl = "stopping" <=>
           (StopInQueue \/ cos.kind = "stop" \/ stopped = 1)
    /\ StopInQueue => cos.kind # "stop" /\ stopped # 1
    /\ cos.kind = "stop" => stopped # 1
    /\ OneStopInQueue

HandshakeInv ==
    /\ TypeOK
    /\ OneRequest
    /\ RequestMatches
    /\ HandlerShape
    /\ OneStop
    /\ ResponseMatches

------------------------------------------------------------------------------
(* Pipes.  What a send and a receive do to the elements of a pipe.           *)

LEMMA SendFacts ==
    ASSUME NEW S, NEW q \in Seq(S), NEW e \in S
    PROVE  /\ Append(q, e) \in Seq(S)
           /\ DOMAIN q = 1 .. Len(q) /\ Len(q) \in Nat
           /\ DOMAIN Append(q, e) = 1 .. (Len(q) + 1)
           /\ Len(Append(q, e)) = Len(q) + 1
           /\ \A i \in 1 .. Len(q) : Append(q, e)[i] = q[i]
           /\ Append(q, e)[Len(q) + 1] = e
  OBVIOUS

LEMMA ReceiveFacts ==
    ASSUME NEW S, NEW q \in Seq(S), q # <<>>
    PROVE  /\ Head(q) = q[1] /\ Head(q) \in S
           /\ Tail(q) \in Seq(S)
           /\ DOMAIN q = 1 .. Len(q) /\ Len(q) \in Nat /\ Len(q) >= 1
           /\ DOMAIN Tail(q) = 1 .. (Len(q) - 1)
           /\ Len(Tail(q)) = Len(q) - 1
           /\ \A i \in 1 .. (Len(q) - 1) : Tail(q)[i] = q[i + 1]
  OBVIOUS

LEMMA MainSend ==
    ASSUME mainQueue \in Seq(MainEvents), NEW e \in MainEvents,
           Room(mainQueue), mainQueue' = Append(mainQueue, e)
    PROVE  /\ mainQueue' \in Seq(MainEvents) /\ Len(mainQueue') <= QueueSize
           /\ InMainQueue' <=> (InMainQueue \/ e.kind # "timer")
           /\ OneInMainQueue /\ (e.kind = "timer" \/ ~InMainQueue)
                  => OneInMainQueue'
           /\ \A i \in DOMAIN mainQueue' :
                  \/ mainQueue'[i] = e
                  \/ \E j \in DOMAIN mainQueue : mainQueue'[i] = mainQueue[j]
<1>1. /\ mainQueue' \in Seq(MainEvents)
      /\ DOMAIN mainQueue = 1 .. Len(mainQueue) /\ Len(mainQueue) \in Nat
      /\ DOMAIN mainQueue' = 1 .. (Len(mainQueue) + 1)
      /\ Len(mainQueue') = Len(mainQueue) + 1
      /\ \A i \in 1 .. Len(mainQueue) : mainQueue'[i] = mainQueue[i]
      /\ mainQueue'[Len(mainQueue) + 1] = e
  BY SendFacts
<1>2. Len(mainQueue') <= QueueSize
  BY <1>1, BoundAssumption DEF Room
<1>3. InMainQueue' <=> (InMainQueue \/ e.kind # "timer")
  BY <1>1 DEF InMainQueue
<1>4. OneInMainQueue /\ (e.kind = "timer" \/ ~InMainQueue) => OneInMainQueue'
  BY <1>1 DEF InMainQueue, OneInMainQueue
<1>5. \A i \in DOMAIN mainQueue' :
          \/ mainQueue'[i] = e
          \/ \E j \in DOMAIN mainQueue : mainQueue'[i] = mainQueue[j]
  BY <1>1
<1> QED BY <1>1, <1>2, <1>3, <1>4, <1>5

LEMMA MainReceive ==
    ASSUME mainQueue \in Seq(MainEvents), Len(mainQueue) <= QueueSize,
           mainQueue # <<>>, mainQueue' = Tail(mainQueue)
    PROVE  /\ mainQueue' \in Seq(MainEvents) /\ Len(mainQueue') <= QueueSize
           /\ Head(mainQueue) \in MainEvents
           /\ \E j \in DOMAIN mainQueue : Head(mainQueue) = mainQueue[j]
           /\ InMainQueue <=> (InMainQueue' \/ Head(mainQueue).kind # "timer")
           /\ OneInMainQueue /\ Head(mainQueue).kind # "timer" => ~InMainQueue'
           /\ OneInMainQueue => OneInMainQueue'
           /\ \A i \in DOMAIN mainQueue' :
                  \E j \in DOMAIN mainQueue : mainQueue'[i] = mainQueue[j]
<1>1. /\ Head(mainQueue) = mainQueue[1] /\ Head(mainQueue) \in MainEvents
      /\ mainQueue' \in Seq(MainEvents)
      /\ DOMAIN mainQueue = 1 .. Len(mainQueue) /\ Len(mainQueue) \in Nat
      /\ Len(mainQueue) >= 1
      /\ DOMAIN mainQueue' = 1 .. (Len(mainQueue) - 1)
      /\ Len(mainQueue') = Len(mainQueue) - 1
      /\ \A i \in 1 .. (Len(mainQueue) - 1) : mainQueue'[i] = mainQueue[i + 1]
  BY ReceiveFacts
<1>2. Len(mainQueue') <= QueueSize
  BY <1>1, BoundAssumption
<1>3. InMainQueue' => InMainQueue
  BY <1>1 DEF InMainQueue
<1>4. Head(mainQueue).kind # "timer" => InMainQueue
  BY <1>1 DEF InMainQueue
<1>5. ASSUME InMainQueue, Head(mainQueue).kind = "timer"
      PROVE  InMainQueue'
  <2>1. PICK j \in 1 .. Len(mainQueue) : mainQueue[j].kind # "timer"
    BY <1>1, <1>5 DEF InMainQueue
  <2>2. j # 1 /\ j - 1 \in 1 .. (Len(mainQueue) - 1)
        /\ mainQueue'[j - 1] = mainQueue[(j - 1) + 1] /\ (j - 1) + 1 = j
    BY <2>1, <1>1, <1>5
  <2> QED BY <2>1, <2>2, <1>1 DEF InMainQueue
<1>6. \A i \in DOMAIN mainQueue' :
          i + 1 \in DOMAIN mainQueue /\ mainQueue'[i] = mainQueue[i + 1]
  BY <1>1
<1>7. OneInMainQueue /\ Head(mainQueue).kind # "timer" => ~InMainQueue'
  <2> SUFFICES ASSUME OneInMainQueue, Head(mainQueue).kind # "timer",
                      NEW i \in DOMAIN mainQueue', mainQueue'[i].kind # "timer"
               PROVE  FALSE
    BY DEF InMainQueue
  <2>1. i + 1 = 1
    BY <1>1, <1>6 DEF OneInMainQueue
  <2> QED BY <2>1, <1>1
<1>8. OneInMainQueue => OneInMainQueue'
  <2> SUFFICES ASSUME OneInMainQueue,
                      NEW i \in DOMAIN mainQueue', mainQueue'[i].kind # "timer",
                      NEW k \in DOMAIN mainQueue', mainQueue'[k].kind # "timer"
               PROVE  i = k
    BY DEF OneInMainQueue
  <2>1. i + 1 = k + 1
    BY <1>6 DEF OneInMainQueue
  <2> QED BY <2>1, <1>1
<1> QED BY <1>1, <1>2, <1>3, <1>4, <1>5, <1>6, <1>7, <1>8

LEMMA CosSend ==
    ASSUME cosQueue \in Seq(CosJobs), NEW e \in CosJobs,
           Room(cosQueue), cosQueue' = Append(cosQueue, e)
    PROVE  /\ cosQueue' \in Seq(CosJobs) /\ Len(cosQueue') <= QueueSize
           /\ InCosQueue' <=> (InCosQueue \/ e.kind # "stop")
           /\ StopInQueue' <=> (StopInQueue \/ e.kind = "stop")
           /\ OneInCosQueue /\ (e.kind = "stop" \/ ~InCosQueue)
                  => OneInCosQueue'
           /\ OneStopInQueue /\ (e.kind # "stop" \/ ~StopInQueue)
                  => OneStopInQueue'
           /\ \A i \in DOMAIN cosQueue' :
                  \/ cosQueue'[i] = e
                  \/ \E j \in DOMAIN cosQueue : cosQueue'[i] = cosQueue[j]
<1>1. /\ cosQueue' \in Seq(CosJobs)
      /\ DOMAIN cosQueue = 1 .. Len(cosQueue) /\ Len(cosQueue) \in Nat
      /\ DOMAIN cosQueue' = 1 .. (Len(cosQueue) + 1)
      /\ Len(cosQueue') = Len(cosQueue) + 1
      /\ \A i \in 1 .. Len(cosQueue) : cosQueue'[i] = cosQueue[i]
      /\ cosQueue'[Len(cosQueue) + 1] = e
  BY SendFacts
<1>2. Len(cosQueue') <= QueueSize
  BY <1>1, BoundAssumption DEF Room
<1>3. /\ InCosQueue' <=> (InCosQueue \/ e.kind # "stop")
      /\ StopInQueue' <=> (StopInQueue \/ e.kind = "stop")
  BY <1>1 DEF InCosQueue, StopInQueue
<1>4. OneInCosQueue /\ (e.kind = "stop" \/ ~InCosQueue) => OneInCosQueue'
  BY <1>1 DEF InCosQueue, OneInCosQueue
<1>5. OneStopInQueue /\ (e.kind # "stop" \/ ~StopInQueue) => OneStopInQueue'
  BY <1>1 DEF StopInQueue, OneStopInQueue
<1>6. \A i \in DOMAIN cosQueue' :
          \/ cosQueue'[i] = e
          \/ \E j \in DOMAIN cosQueue : cosQueue'[i] = cosQueue[j]
  BY <1>1
<1> QED BY <1>1, <1>2, <1>3, <1>4, <1>5, <1>6

LEMMA CosReceive ==
    ASSUME cosQueue \in Seq(CosJobs), Len(cosQueue) <= QueueSize,
           cosQueue # <<>>, cosQueue' = Tail(cosQueue)
    PROVE  /\ cosQueue' \in Seq(CosJobs) /\ Len(cosQueue') <= QueueSize
           /\ Head(cosQueue) \in CosJobs
           /\ \E j \in DOMAIN cosQueue : Head(cosQueue) = cosQueue[j]
           /\ InCosQueue <=> (InCosQueue' \/ Head(cosQueue).kind # "stop")
           /\ StopInQueue <=> (StopInQueue' \/ Head(cosQueue).kind = "stop")
           /\ OneInCosQueue /\ Head(cosQueue).kind # "stop" => ~InCosQueue'
           /\ OneStopInQueue /\ Head(cosQueue).kind = "stop" => ~StopInQueue'
           /\ OneInCosQueue => OneInCosQueue'
           /\ OneStopInQueue => OneStopInQueue'
           /\ \A i \in DOMAIN cosQueue' :
                  \E j \in DOMAIN cosQueue : cosQueue'[i] = cosQueue[j]
<1>1. /\ Head(cosQueue) = cosQueue[1] /\ Head(cosQueue) \in CosJobs
      /\ cosQueue' \in Seq(CosJobs)
      /\ DOMAIN cosQueue = 1 .. Len(cosQueue) /\ Len(cosQueue) \in Nat
      /\ Len(cosQueue) >= 1
      /\ DOMAIN cosQueue' = 1 .. (Len(cosQueue) - 1)
      /\ Len(cosQueue') = Len(cosQueue) - 1
      /\ \A i \in 1 .. (Len(cosQueue) - 1) : cosQueue'[i] = cosQueue[i + 1]
  BY ReceiveFacts
<1>2. Len(cosQueue') <= QueueSize
  BY <1>1, BoundAssumption
<1>3. \A i \in DOMAIN cosQueue' :
          i + 1 \in DOMAIN cosQueue /\ cosQueue'[i] = cosQueue[i + 1]
  BY <1>1
<1>4. \A j \in DOMAIN cosQueue :
          j = 1 \/ (j - 1 \in DOMAIN cosQueue' /\ cosQueue'[j - 1] = cosQueue[j])
  <2> SUFFICES ASSUME NEW j \in 1 .. Len(cosQueue), j # 1
               PROVE  j - 1 \in DOMAIN cosQueue' /\ cosQueue'[j - 1] = cosQueue[j]
    BY <1>1
  <2>1. j - 1 \in 1 .. (Len(cosQueue) - 1) /\ (j - 1) + 1 = j
    BY <1>1
  <2> QED BY <2>1, <1>1
<1>5. /\ InCosQueue <=> (InCosQueue' \/ Head(cosQueue).kind # "stop")
      /\ StopInQueue <=> (StopInQueue' \/ Head(cosQueue).kind = "stop")
  <2>1. InCosQueue' => InCosQueue
    BY <1>3 DEF InCosQueue
  <2>2. StopInQueue' => StopInQueue
    BY <1>3 DEF StopInQueue
  <2>3. 1 \in DOMAIN cosQueue /\ Head(cosQueue) = cosQueue[1]
    BY <1>1
  <2>4. Head(cosQueue).kind # "stop" => InCosQueue
    BY <2>3 DEF InCosQueue
  <2>5. Head(cosQueue).kind = "stop" => StopInQueue
    BY <2>3 DEF StopInQueue
  <2>6. InCosQueue /\ Head(cosQueue).kind = "stop" => InCosQueue'
    BY <1>4, <2>3 DEF InCosQueue
  <2>7. StopInQueue /\ Head(cosQueue).kind # "stop" => StopInQueue'
    BY <1>4, <2>3 DEF StopInQueue
  <2> QED BY <2>1, <2>2, <2>4, <2>5, <2>6, <2>7
<1>6. /\ \A i \in DOMAIN cosQueue' : i + 1 # 1
      /\ \A i, k \in DOMAIN cosQueue' : i + 1 = k + 1 => i = k
  BY <1>1
<1>7. OneInCosQueue /\ Head(cosQueue).kind # "stop" => ~InCosQueue'
  BY <1>1, <1>3, <1>6 DEF InCosQueue, OneInCosQueue
<1>8. OneStopInQueue /\ Head(cosQueue).kind = "stop" => ~StopInQueue'
  BY <1>1, <1>3, <1>6 DEF StopInQueue, OneStopInQueue
<1>9. /\ OneInCosQueue => OneInCosQueue'
      /\ OneStopInQueue => OneStopInQueue'
  BY <1>3, <1>6 DEF OneInCosQueue, OneStopInQueue
<1> QED BY <1>1, <1>2, <1>3, <1>5, <1>7, <1>8, <1>9

------------------------------------------------------------------------------
(* Type correctness is kept; the semaphores stay binary because there is one *)
(* request and one stop.                                                    *)

LEMMA EventTypes ==
    /\ Event("timer", 0) \in MainEvents
    /\ Event("reset", 0) \in MainEvents
    /\ Event("resetDone", 0) \in MainEvents
    /\ \A n \in Apdus : /\ Event("apdu", n) \in MainEvents
                        /\ Event("apduDone", n) \in MainEvents
                        /\ Event("give", n) \in MainHolds
    /\ Event("stop", 0) \in CosJobs
    /\ Event("ready", 0) \in MainHolds
    /\ Idle \in MainHolds /\ Idle \in CosHolds
    /\ Returned \in HandlerAt
    /\ 0 \in Apdus
  BY BoundAssumption DEF Event, MainEvents, CosJobs, Apdus, MainHolds, CosHolds,
                         Idle, Returned, HandlerAt, Inds

LEMMA MainTypes ==
    ASSUME main \in MainHolds
    PROVE  main.n \in Apdus
  BY DEF MainHolds, MainEvents

LEMMA TypeStep == HandshakeInv /\ Next => TypeOK'
<1> SUFFICES ASSUME HandshakeInv, Next PROVE TypeOK'
  OBVIOUS
<1>0. /\ TypeOK
      /\ main.kind = "resetDone" => soft_sim_rst = 0
      /\ main.kind = "give" => soft_sim_data = 0
      /\ cos.kind = "stop" => stopped = 0
  BY DEF HandshakeInv, TypeOK, OneRequest, OneStop, AtMain, Given
<1> USE <1>0, EventTypes, MainTypes
        DEF TypeOK, card, pipes, core, sync, session, traffic, CtlAt
<1>1. CASE Indication
  <2>1. PICK slot \in Slots, ind \in {"power_up", "reset"} :
            \/ ApduInd(slot) \/ ConnectInd(slot) \/ DisconnectInd(slot)
            \/ PowerInd(ind, slot) \/ PowerDownInd(slot)
    BY <1>1 DEF Indication
  <2>2. CASE ApduInd(slot)
    <3>1. sent' \in Apdus
      BY <2>2, BoundAssumption DEF ApduInd, Apdus
    <3>2. handler' \in HandlerAt
      BY <2>2, <3>1 DEF ApduInd, Enter, Inds, HandlerAt
    <3> QED BY <2>2, <3>1, <3>2 DEF ApduInd
  <2>3. CASE ConnectInd(slot)
    BY <2>3 DEF ConnectInd, Enter, Inds, HandlerAt
  <2>4. CASE DisconnectInd(slot)
    BY <2>4 DEF DisconnectInd, Enter, Inds, HandlerAt
  <2>5. CASE PowerInd(ind, slot)
    BY <2>5 DEF PowerInd, Enter, Inds, HandlerAt
  <2>6. CASE PowerDownInd(slot)
    BY <2>6 DEF PowerDownInd, Enter, Inds, HandlerAt
  <2> QED BY <2>1, <2>2, <2>3, <2>4, <2>5, <2>6
<1>2. CASE Post
  <2>1. /\ mainQueue' \in Seq(MainEvents) /\ Len(mainQueue') <= QueueSize
    <3>1. handler.n \in Apdus
      BY DEF HandlerAt
    <3> QED BY <1>2, <3>1, MainSend DEF Post
  <2>2. handler' \in HandlerAt
    BY <1>2 DEF Post, HandlerAt
  <2> QED BY <1>2, <2>1, <2>2 DEF Post
<1>3. CASE TakeRst \/ TakeData
  <2>1. handler' \in HandlerAt
    BY <1>3 DEF TakeRst, TakeData, HandlerAt
  <2>2. soft_sim_rst' \in {0, 1} /\ soft_sim_data' \in {0, 1}
    BY <1>3 DEF TakeRst, TakeData
  <2> QED BY <1>3, <2>1, <2>2 DEF TakeRst, TakeData
<1>4. CASE WriteState \/ CheckAtr \/ SendAtr \/ CheckResp \/ SendResp
  <2>1. handler' \in HandlerAt
    BY <1>4 DEF WriteState, CheckAtr, SendAtr, CheckResp, SendResp, HandlerAt
  <2>2. card_state' \in CardStates /\ atrlen' \in {0, 18}
    BY <1>4 DEF WriteState, CheckAtr, SendAtr, CheckResp, SendResp, NextState, CardStates
  <2>3. told' \subseteq Events
    BY <1>4 DEF WriteState, CheckAtr, SendAtr, CheckResp, SendResp, Tell, Events
  <2>4. replies' \subseteq Apdus \X Apdus
    BY <1>4 DEF WriteState, CheckAtr, SendAtr, CheckResp, SendResp, HandlerAt
  <2>5. resp' \in Apdus
    BY <1>4 DEF WriteState, CheckAtr, SendAtr, CheckResp, SendResp
  <2> QED BY <1>4, <2>1, <2>2, <2>3, <2>4, <2>5
      DEF WriteState, CheckAtr, SendAtr, CheckResp, SendResp
<1>5. CASE Tick
  <2>1. /\ mainQueue' \in Seq(MainEvents) /\ Len(mainQueue') <= QueueSize
    BY <1>5, MainSend, EventTypes DEF Tick
  <2> QED BY <1>5, <2>1 DEF Tick
<1>6. CASE MainGet
  <2>1. /\ mainQueue' \in Seq(MainEvents) /\ Len(mainQueue') <= QueueSize
        /\ Head(mainQueue) \in MainEvents
    BY <1>6, MainReceive DEF MainGet
  <2> QED BY <1>6, <2>1 DEF MainGet, MainHolds
<1>7. CASE MainTimer \/ MainReady \/ ApduCnf
  <2>1. main.n \in Apdus
    BY MainTypes
  <2>2. main' \in MainHolds
    BY <1>7, <2>1 DEF MainTimer, MainReady, ApduCnf
  <2> QED BY <1>7, <2>1, <2>2 DEF MainTimer, MainReady, ApduCnf
<1>8. CASE MainDispatch
  <2>1. main \in CosJobs
    BY <1>8 DEF MainDispatch, MainHolds, MainEvents, CosJobs
  <2>2. /\ cosQueue' \in Seq(CosJobs) /\ Len(cosQueue') <= QueueSize
    BY <1>8, <2>1, CosSend DEF MainDispatch
  <2> QED BY <1>8, <2>2 DEF MainDispatch
<1>9. CASE ResetCnf \/ GiveData
  <2>1. soft_sim_rst' \in {0, 1} /\ soft_sim_data' \in {0, 1}
    BY <1>9 DEF ResetCnf, GiveData
  <2>2. main' \in MainHolds
    BY <1>9 DEF ResetCnf, GiveData
  <2> QED BY <1>9, <2>1, <2>2 DEF ResetCnf, GiveData
<1>10. CASE CosGet
  <2>1. /\ cosQueue' \in Seq(CosJobs) /\ Len(cosQueue') <= QueueSize
        /\ Head(cosQueue) \in CosJobs
    BY <1>10, CosReceive DEF CosGet
  <2> QED BY <1>10, <2>1 DEF CosGet, CosHolds
<1>11. CASE CosNotify
  <2>1. IF cos.kind = "reset" THEN Event("resetDone", 0) \in MainEvents
                              ELSE Event("apduDone", cos.n) \in MainEvents
    <3>1. cos.n \in Apdus
      BY <1>11 DEF CosNotify, CosHolds, CosJobs, Idle, Event
    <3> QED BY <3>1, EventTypes
  <2>2. /\ mainQueue' \in Seq(MainEvents) /\ Len(mainQueue') <= QueueSize
    BY <1>11, <2>1, MainSend DEF CosNotify
  <2> QED BY <1>11, <2>2 DEF CosNotify
<1>12. CASE CosStop
  <2>1. stopped' \in {0, 1}
    BY <1>12 DEF CosStop
  <2>2. cos' \in CosHolds
    BY <1>12 DEF CosStop
  <2> QED BY <1>12, <2>1, <2>2 DEF CosStop
<1>13. CASE AtStart \/ ClientInit \/ SetCard
  BY <1>13 DEF AtStart, ClientInit, SetCard, CardStates
<1>14. CASE ConnectCard \/ InsertCard
  <2>1. told' \subseteq Events
    BY <1>14 DEF ConnectCard, InsertCard, Tell, Events
  <2>2. main' = main \/ main' = Idle
    BY <1>14 DEF ConnectCard, InsertCard
  <2> QED BY <1>14, <2>1, <2>2 DEF ConnectCard, InsertCard
<1>15. CASE StopCos
  <2>1. /\ cosQueue' \in Seq(CosJobs) /\ Len(cosQueue') <= QueueSize
    BY <1>15, CosSend, EventTypes DEF StopCos
  <2> QED BY <1>15, <2>1 DEF StopCos
<1>16. CASE AtStop \/ StoppedCos \/ Detach
  <2>1. stopped' \in {0, 1}
    BY <1>16 DEF AtStop, StoppedCos, Detach
  <2> QED BY <1>16, <2>1 DEF AtStop, StoppedCos, Detach, CardStates
<1>17. CASE RemoveCard \/ DisconnectCard \/ Release \/ Released
  <2>1. told' \subseteq Events
    BY <1>17 DEF RemoveCard, DisconnectCard, Release, Released, Tell,
                Events
  <2> QED BY <1>17, <2>1 DEF RemoveCard, DisconnectCard, Release, Released
<1> QED
  BY <1>1, <1>2, <1>3, <1>4, <1>5, <1>6, <1>7, <1>8, <1>9, <1>10, <1>11,
     <1>12, <1>13, <1>14, <1>15, <1>16, <1>17
     DEF Next, HandlerStep, MainStep, CosStep, ConnectStep, StopStep

------------------------------------------------------------------------------
(* The rest of the invariant, for the steps that do not touch the request.   *)

RequestVars == <<mainQueue, cosQueue, cos, stopped, soft_sim_rst, soft_sim_data,
                 g_rx_data>>

LEMMA QuietStep ==
    ASSUME HandshakeInv,
           UNCHANGED <<RequestVars, handler, sent, resp, replies>>,
           main' = main \/ (~AtMain /\ ~AtMain'),
           ctl' = "stopping" <=> ctl = "stopping"
    PROVE  OneRequest' /\ RequestMatches' /\ HandlerShape' /\ OneStop'
           /\ ResponseMatches'
<1> USE DEF HandshakeInv, RequestVars
<1>1. /\ InMainQueue' <=> InMainQueue
      /\ InCosQueue' <=> InCosQueue
      /\ StopInQueue' <=> StopInQueue
      /\ OneInMainQueue' <=> OneInMainQueue
      /\ OneInCosQueue' <=> OneInCosQueue
      /\ OneStopInQueue' <=> OneStopInQueue
      /\ AtMain' <=> AtMain
      /\ AtCos' <=> AtCos
      /\ Given' <=> Given
  BY DEF InMainQueue, InCosQueue, StopInQueue, OneInMainQueue, OneInCosQueue,
         OneStopInQueue, AtMain, AtCos, Given
<1>2. OneRequest' /\ OneStop'
  BY <1>1 DEF OneRequest, OneStop
<1>3. main'.kind = "give" => main' = main
  BY DEF AtMain
<1>4. RequestMatches'
  BY <1>1, <1>3 DEF RequestMatches, Carries, AtMain, AtCos
<1>5. HandlerShape' /\ ResponseMatches'
  BY DEF HandlerShape, ResponseMatches
<1> QED BY <1>2, <1>4, <1>5

LEMMA HandlerOnlyStep ==
    ASSUME HandshakeInv,
           UNCHANGED <<RequestVars, main, ctl>>,
           handler.pc # "wait", handler'.pc # "wait"
    PROVE  OneRequest' /\ RequestMatches' /\ OneStop'
<1> USE DEF HandshakeInv, RequestVars
<1>1. ~InMainQueue /\ ~InCosQueue /\ ~AtMain /\ ~AtCos /\ ~Given
  BY DEF OneRequest
<1>2. ~InMainQueue' /\ ~InCosQueue' /\ ~AtMain' /\ ~AtCos' /\ ~Given'
  BY <1>1 DEF InMainQueue, InCosQueue, AtMain, AtCos, Given
<1>3. OneInMainQueue' /\ OneInCosQueue'
  BY <1>2 DEF InMainQueue, InCosQueue, OneInMainQueue, OneInCosQueue
<1>4. OneRequest'
  BY <1>2, <1>3 DEF OneRequest, Given
<1>5. RequestMatches'
  BY <1>2 DEF RequestMatches, InMainQueue, InCosQueue, AtMain, Given
<1>6. OneStop'
  BY DEF OneStop, StopInQueue, OneStopInQueue
<1> QED BY <1>4, <1>5, <1>6

LEMMA IndicationStep == HandshakeInv /\ Indication => HandshakeInv'
<1> SUFFICES ASSUME HandshakeInv, Indication PROVE HandshakeInv'
  OBVIOUS
<1>1. PICK slot \in Slots, ind \in {"power_up", "reset"} :
          \/ ApduInd(slot) \/ ConnectInd(slot) \/ DisconnectInd(slot)
          \/ PowerInd(ind, slot) \/ PowerDownInd(slot)
  BY DEF Indication
<1>2. /\ handler.pc = "idle" /\ handler'.pc # "wait"
      /\ UNCHANGED <<RequestVars, main, ctl, replies>>
  BY <1>1 DEF ApduInd, ConnectInd, DisconnectInd, PowerInd, PowerDownInd,
              MayIndicate, Enter, RequestVars, pipes, core, sync, session,
              traffic
<1>3. HandlerShape'
  <2>1. sent \in Nat
    BY BoundAssumption DEF HandshakeInv, TypeOK, Apdus
  <2>2. CASE ApduInd(slot)
    BY <2>1, <2>2 DEF ApduInd, Enter, HandlerShape, Resets
  <2>3. CASE ConnectInd(slot) \/ DisconnectInd(slot) \/ PowerInd(ind, slot)
             \/ PowerDownInd(slot)
    BY <2>3 DEF ConnectInd, DisconnectInd, PowerInd, PowerDownInd, Enter,
                HandlerShape, Resets, traffic
  <2> QED BY <1>1, <2>2, <2>3
<1>4. ResponseMatches'
  BY <1>2 DEF HandshakeInv, ResponseMatches
<1>5. OneRequest' /\ RequestMatches' /\ OneStop'
  BY <1>2, HandlerOnlyStep
<1>6. TypeOK'
  BY TypeStep DEF Next
<1> QED BY <1>3, <1>4, <1>5, <1>6 DEF HandshakeInv

LEMMA HandlerReturnStep ==
    ASSUME HandshakeInv,
           WriteState \/ CheckAtr \/ SendAtr \/ CheckResp \/ SendResp
    PROVE  HandshakeInv'
<1>1. /\ handler.pc # "wait" /\ handler'.pc # "wait"
      /\ UNCHANGED <<RequestVars, main, ctl, sent>>
  BY DEF WriteState, CheckAtr, SendAtr, CheckResp, SendResp, RequestVars, pipes,
         core, sync, session, traffic, Returned, HandshakeInv, TypeOK, HandlerAt
<1>2. HandlerShape'
  BY DEF HandshakeInv, HandlerShape, WriteState, CheckAtr, SendAtr, CheckResp,
         SendResp, Returned, TypeOK, HandlerAt, Resets
<1>3. ResponseMatches'
  <2>1. CASE SendResp
    <3>1. resp = handler.n
      BY <2>1 DEF SendResp, HandshakeInv, HandlerShape
    <3> QED BY <2>1, <3>1 DEF SendResp, HandshakeInv, ResponseMatches
  <2>2. CASE WriteState \/ CheckAtr \/ SendAtr \/ CheckResp
    BY <2>2 DEF WriteState, CheckAtr, SendAtr, CheckResp, HandshakeInv,
                ResponseMatches, traffic
  <2> QED BY <2>1, <2>2
<1>4. OneRequest' /\ RequestMatches' /\ OneStop'
  BY <1>1, HandlerOnlyStep
<1>5. TypeOK'
  BY TypeStep DEF Next, HandlerStep
<1> QED BY <1>2, <1>3, <1>4, <1>5 DEF HandshakeInv

QuietNext ==
    \/ MainTimer \/ MainReady \/ AtStart \/ ConnectStep \/ AtStop \/ Detach
    \/ RemoveCard \/ DisconnectCard \/ Release \/ Released

LEMMA QuietNextStep == HandshakeInv /\ QuietNext => HandshakeInv'
<1> SUFFICES ASSUME HandshakeInv, QuietNext PROVE HandshakeInv'
  OBVIOUS
<1> USE DEF QuietNext, MainTimer, MainReady, AtStart, ConnectStep, ClientInit,
        SetCard, ConnectCard, InsertCard, AtStop, Detach, RemoveCard,
        DisconnectCard, Release, Released
<1>1. UNCHANGED <<RequestVars, handler, sent, resp, replies>>
  BY DEF RequestVars, pipes, core, sync, traffic
<1>2. main' = main \/ (~AtMain /\ ~AtMain')
  BY DEF AtMain, Idle, Event
<1>3. ctl' = "stopping" <=> ctl = "stopping"
  <2>1. ctl # "stopping" \/ ctl' = ctl
    BY DEF session
  <2>2. ctl' # "stopping" \/ ctl' = ctl
    BY DEF session
  <2> QED BY <2>1, <2>2
<1>4. OneRequest' /\ RequestMatches' /\ HandlerShape' /\ OneStop'
      /\ ResponseMatches'
  BY ONLY <1>1, <1>2, <1>3, HandshakeInv, QuietStep
<1>5. TypeOK'
  BY ONLY HandshakeInv, QuietNext, TypeStep
     DEF QuietNext, Next, MainStep, StopStep
<1> QED BY ONLY <1>4, <1>5 DEF HandshakeInv

------------------------------------------------------------------------------
(* The steps that move the request, one by one along its way.                *)

LEMMA PostStep == HandshakeInv /\ Post => HandshakeInv'
<1> SUFFICES ASSUME HandshakeInv, Post PROVE HandshakeInv'
  OBVIOUS
<1> USE DEF HandshakeInv
<1> DEFINE e == IF handler.ind = "apdu" THEN Event("apdu", handler.n)
                                        ELSE Event("reset", 0)
<1>1. /\ handler.pc = "post" /\ handler' = [handler EXCEPT !.pc = "wait"]
      /\ mainQueue' = Append(mainQueue, e) /\ Room(mainQueue)
      /\ UNCHANGED <<cosQueue, main, cos, stopped, soft_sim_rst, soft_sim_data,
                     g_rx_data, ctl, sent, resp, replies>>
  BY DEF Post, core, sync, session, traffic
<1>2. /\ handler'.pc = "wait" /\ handler'.ind = handler.ind
      /\ handler'.n = handler.n /\ handler.n \in Apdus
  BY <1>1 DEF TypeOK, HandlerAt
<1>3. e \in MainEvents /\ e.kind # "timer" /\ Carries(e)
  BY <1>2, EventTypes DEF Event, Carries
<1>4. ~InMainQueue /\ ~InCosQueue /\ ~AtMain /\ ~AtCos /\ ~Given
  BY <1>1 DEF OneRequest
<1>5. /\ InMainQueue' /\ OneInMainQueue'
      /\ \A i \in DOMAIN mainQueue' :
             \/ mainQueue'[i] = e
             \/ \E j \in DOMAIN mainQueue : mainQueue'[i] = mainQueue[j]
  BY <1>1, <1>3, <1>4, MainSend DEF TypeOK, OneRequest
<1>6. /\ ~InCosQueue' /\ ~AtMain' /\ ~AtCos' /\ ~Given' /\ OneInCosQueue'
  BY <1>1, <1>4 DEF InCosQueue, AtMain, AtCos, Given, OneRequest, OneInCosQueue
<1>7. OneRequest'
  BY <1>2, <1>5, <1>6 DEF OneRequest, Given
<1>8. RequestMatches'
  <2>1. \A i \in DOMAIN mainQueue' :
            mainQueue'[i].kind # "timer" => mainQueue'[i] = e
    BY <1>4, <1>5 DEF InMainQueue
  <2>2. \A i \in DOMAIN mainQueue' :
            mainQueue'[i].kind # "timer" => Carries(mainQueue[i])'
    BY <2>1, <1>2, <1>3 DEF Carries
  <2> QED BY <2>2, <1>6 DEF RequestMatches, InCosQueue, AtMain, Given
<1>9. HandlerShape' /\ OneStop' /\ ResponseMatches'
  BY <1>1, <1>2 DEF HandlerShape, OneStop, StopInQueue, OneStopInQueue,
                    ResponseMatches
<1>10. TypeOK'
  BY TypeStep DEF Next, HandlerStep
<1> QED BY <1>7, <1>8, <1>9, <1>10

LEMMA TickStep == HandshakeInv /\ Tick => HandshakeInv'
<1> SUFFICES ASSUME HandshakeInv, Tick PROVE HandshakeInv'
  OBVIOUS
<1> USE DEF HandshakeInv
<1> DEFINE e == Event("timer", 0)
<1>1. /\ mainQueue' = Append(mainQueue, e) /\ Room(mainQueue)
      /\ UNCHANGED <<handler, cosQueue, main, cos, stopped, soft_sim_rst,
                     soft_sim_data, g_rx_data, ctl, sent, resp, replies>>
  BY DEF Tick, core, sync, session, traffic
<1>2. e \in MainEvents /\ e.kind = "timer"
  BY EventTypes DEF Event
<1>3. /\ InMainQueue' <=> InMainQueue
      /\ OneInMainQueue'
      /\ \A i \in DOMAIN mainQueue' :
             \/ mainQueue'[i] = e
             \/ \E j \in DOMAIN mainQueue : mainQueue'[i] = mainQueue[j]
  BY <1>1, <1>2, MainSend DEF TypeOK, OneRequest
<1>4. /\ InCosQueue' <=> InCosQueue
      /\ AtMain' <=> AtMain
      /\ AtCos' <=> AtCos
      /\ Given' <=> Given
      /\ OneInCosQueue'
  BY <1>1 DEF InCosQueue, AtMain, AtCos, Given, OneInCosQueue, OneRequest
<1>5. OneRequest'
  BY <1>1, <1>3, <1>4 DEF OneRequest
<1>6. RequestMatches'
  BY <1>1, <1>2, <1>3 DEF RequestMatches, Carries, AtMain, AtCos
<1>7. HandlerShape' /\ OneStop' /\ ResponseMatches'
  BY <1>1 DEF HandlerShape, OneStop, StopInQueue, OneStopInQueue, ResponseMatches
<1>8. TypeOK'
  BY TypeStep DEF Next
<1> QED BY <1>5, <1>6, <1>7, <1>8

LEMMA MainGetStep == HandshakeInv /\ MainGet => HandshakeInv'
<1> SUFFICES ASSUME HandshakeInv, MainGet PROVE HandshakeInv'
  OBVIOUS
<1> USE DEF HandshakeInv
<1>1. /\ main = Idle /\ mainQueue # <<>>
      /\ main' = Head(mainQueue) /\ mainQueue' = Tail(mainQueue)
      /\ UNCHANGED <<handler, cosQueue, cos, stopped, soft_sim_rst,
                     soft_sim_data, g_rx_data, ctl, sent, resp, replies>>
  BY DEF MainGet, core, sync, session, traffic
<1>2. /\ main' \in MainEvents
      /\ \E j \in DOMAIN mainQueue : main' = mainQueue[j]
      /\ InMainQueue <=> (InMainQueue' \/ main'.kind # "timer")
      /\ main'.kind # "timer" => ~InMainQueue'
      /\ OneInMainQueue'
      /\ \A i \in DOMAIN mainQueue' :
             \E j \in DOMAIN mainQueue : mainQueue'[i] = mainQueue[j]
  BY <1>1, MainReceive DEF TypeOK, OneRequest
<1>3. ~AtMain /\ main.kind # "give" /\ main'.kind # "give"
      /\ (AtMain' <=> main'.kind # "timer")
  BY <1>1, <1>2 DEF AtMain, Idle, Event, MainEvents
<1>4. /\ InCosQueue' <=> InCosQueue
      /\ AtCos' <=> AtCos
      /\ Given' <=> Given
      /\ OneInCosQueue'
  BY <1>1 DEF InCosQueue, AtCos, Given, OneInCosQueue, OneRequest
<1>5. OneRequest'
  BY <1>1, <1>2, <1>3, <1>4 DEF OneRequest
<1>6. RequestMatches'
  <2>1. /\ \A i \in DOMAIN mainQueue' :
               mainQueue'[i].kind # "timer" => Carries(mainQueue[i])'
        /\ AtMain' => Carries(main)'
    BY <1>1, <1>2, <1>3 DEF RequestMatches, Carries
  <2> QED BY <2>1, <1>1, <1>3 DEF RequestMatches, Carries, AtCos
<1>7. HandlerShape' /\ OneStop' /\ ResponseMatches'
  BY <1>1 DEF HandlerShape, OneStop, StopInQueue, OneStopInQueue, ResponseMatches
<1>8. TypeOK'
  BY TypeStep DEF Next, MainStep
<1> QED BY <1>5, <1>6, <1>7, <1>8

LEMMA MainDispatchStep == HandshakeInv /\ MainDispatch => HandshakeInv'
<1> SUFFICES ASSUME HandshakeInv, MainDispatch PROVE HandshakeInv'
  OBVIOUS
<1> USE DEF HandshakeInv
<1>1. /\ main.kind \in {"reset", "apdu"} /\ Room(cosQueue)
      /\ cosQueue' = Append(cosQueue, main) /\ main' = Idle
      /\ UNCHANGED <<handler, mainQueue, cos, stopped, soft_sim_rst,
                     soft_sim_data, g_rx_data, ctl, sent, resp, replies>>
  BY DEF MainDispatch, core, sync, session, traffic
<1>2. main \in CosJobs /\ main.kind # "stop"
  BY <1>1 DEF TypeOK, MainHolds, MainEvents, CosJobs
<1>3. AtMain /\ ~InMainQueue /\ ~InCosQueue /\ ~AtCos /\ ~Given
      /\ handler.pc = "wait" /\ Carries(main)
  BY <1>1 DEF AtMain, OneRequest, RequestMatches
<1>4. /\ InCosQueue' /\ OneInCosQueue'
      /\ StopInQueue' <=> StopInQueue
      /\ OneStopInQueue'
      /\ \A i \in DOMAIN cosQueue' :
             \/ cosQueue'[i] = main
             \/ \E j \in DOMAIN cosQueue : cosQueue'[i] = cosQueue[j]
  BY <1>1, <1>2, <1>3, CosSend DEF TypeOK, OneRequest, OneStop
<1>5. ~InMainQueue' /\ ~AtMain' /\ ~AtCos' /\ ~Given' /\ OneInMainQueue'
      /\ main'.kind # "give"
  BY <1>1, <1>3 DEF InMainQueue, AtMain, AtCos, Given, OneInMainQueue, Idle,
                    Event, OneRequest
<1>6. OneRequest'
  BY <1>1, <1>3, <1>4, <1>5 DEF OneRequest, Given
<1>7. RequestMatches'
  <2>1. \A i \in DOMAIN cosQueue' :
            cosQueue'[i].kind # "stop" => Carries(cosQueue[i])'
    BY <1>1, <1>3, <1>4 DEF InCosQueue, Carries
  <2> QED BY <2>1, <1>5 DEF RequestMatches, InMainQueue, Given
<1>8. HandlerShape' /\ OneStop' /\ ResponseMatches'
  BY <1>1, <1>4 DEF HandlerShape, OneStop, ResponseMatches
<1>9. TypeOK'
  BY TypeStep DEF Next, MainStep
<1> QED BY <1>6, <1>7, <1>8, <1>9

LEMMA CosGetStep == HandshakeInv /\ CosGet => HandshakeInv'
<1> SUFFICES ASSUME HandshakeInv, CosGet PROVE HandshakeInv'
  OBVIOUS
<1> USE DEF HandshakeInv
<1>1. /\ cos = Idle /\ cosQueue # <<>>
      /\ cos' = Head(cosQueue) /\ cosQueue' = Tail(cosQueue)
      /\ UNCHANGED <<handler, mainQueue, main, stopped, soft_sim_rst,
                     soft_sim_data, g_rx_data, ctl, sent, resp, replies>>
  BY DEF CosGet, sync, session, traffic
<1>2. /\ cos' \in CosJobs
      /\ \E j \in DOMAIN cosQueue : cos' = cosQueue[j]
      /\ InCosQueue <=> (InCosQueue' \/ cos'.kind # "stop")
      /\ StopInQueue <=> (StopInQueue' \/ cos'.kind = "stop")
      /\ cos'.kind # "stop" => ~InCosQueue'
      /\ cos'.kind = "stop" => ~StopInQueue'
      /\ OneInCosQueue' /\ OneStopInQueue'
      /\ \A i \in DOMAIN cosQueue' :
             \E j \in DOMAIN cosQueue : cosQueue'[i] = cosQueue[j]
  BY <1>1, CosReceive DEF TypeOK, OneRequest, OneStop
<1>3. ~AtCos /\ cos.kind # "stop" /\ (AtCos' <=> cos'.kind # "stop")
  BY <1>1, <1>2 DEF AtCos, Idle, Event, CosJobs
<1>4. /\ InMainQueue' <=> InMainQueue
      /\ AtMain' <=> AtMain
      /\ Given' <=> Given
      /\ OneInMainQueue'
  BY <1>1 DEF InMainQueue, AtMain, Given, OneInMainQueue, OneRequest
<1>5. OneRequest'
  BY <1>1, <1>2, <1>3, <1>4 DEF OneRequest
<1>6. RequestMatches'
  <2>1. /\ \A i \in DOMAIN cosQueue' :
               cosQueue'[i].kind # "stop" => Carries(cosQueue[i])'
        /\ AtCos' => Carries(cos)'
    BY <1>1, <1>2, <1>3 DEF RequestMatches, Carries
  <2> QED BY <2>1, <1>1 DEF RequestMatches, Carries, AtMain
<1>7. HandlerShape' /\ ResponseMatches'
  BY <1>1 DEF HandlerShape, ResponseMatches
<1>8. OneStop'
  BY <1>1, <1>2, <1>3 DEF OneStop
<1>9. TypeOK'
  BY TypeStep DEF Next, CosStep
<1> QED BY <1>5, <1>6, <1>7, <1>8, <1>9

LEMMA CosNotifyStep == HandshakeInv /\ CosNotify => HandshakeInv'
<1> SUFFICES ASSUME HandshakeInv, CosNotify PROVE HandshakeInv'
  OBVIOUS
<1> USE DEF HandshakeInv
<1> DEFINE e == IF cos.kind = "reset" THEN Event("resetDone", 0)
                                      ELSE Event("apduDone", cos.n)
<1>1. /\ cos.kind \in {"reset", "apdu"} /\ Room(mainQueue)
      /\ mainQueue' = Append(mainQueue, e) /\ cos' = Idle
      /\ UNCHANGED <<handler, cosQueue, main, stopped, soft_sim_rst,
                     soft_sim_data, g_rx_data, ctl, sent, resp, replies>>
  BY DEF CosNotify, sync, session, traffic
<1>2. AtCos /\ ~InMainQueue /\ ~AtMain /\ ~InCosQueue /\ ~Given
      /\ handler.pc = "wait" /\ Carries(cos)
  BY <1>1 DEF AtCos, OneRequest, RequestMatches
<1>3. cos.n \in Apdus
  BY <1>1 DEF TypeOK, CosHolds, CosJobs, Idle, Event
<1>4. e \in MainEvents /\ e.kind # "timer" /\ Carries(e)
  BY <1>1, <1>2, <1>3, EventTypes DEF Event, Carries
<1>5. /\ InMainQueue' /\ OneInMainQueue'
      /\ \A i \in DOMAIN mainQueue' :
             \/ mainQueue'[i] = e
             \/ \E j \in DOMAIN mainQueue : mainQueue'[i] = mainQueue[j]
  BY <1>1, <1>2, <1>4, MainSend DEF TypeOK, OneRequest
<1>6. ~InCosQueue' /\ ~AtMain' /\ ~AtCos' /\ ~Given' /\ OneInCosQueue'
      /\ cos'.kind # "stop" /\ cos.kind # "stop"
  BY <1>1, <1>2 DEF InCosQueue, AtMain, AtCos, Given, OneInCosQueue, Idle,
                    Event, OneRequest
<1>7. OneRequest'
  BY <1>1, <1>2, <1>5, <1>6 DEF OneRequest, Given
<1>8. RequestMatches'
  <2>1. \A i \in DOMAIN mainQueue' :
            mainQueue'[i].kind # "timer" => mainQueue'[i] = e
    BY <1>2, <1>5 DEF InMainQueue
  <2>2. \A i \in DOMAIN mainQueue' :
            mainQueue'[i].kind # "timer" => Carries(mainQueue[i])'
    BY <2>1, <1>1, <1>4 DEF Carries
  <2> QED BY <2>2, <1>6 DEF RequestMatches, InCosQueue, AtMain, Given
<1>9. HandlerShape' /\ ResponseMatches'
  BY <1>1 DEF HandlerShape, ResponseMatches
<1>10. OneStop'
  BY <1>1, <1>6 DEF OneStop, StopInQueue, OneStopInQueue
<1>11. TypeOK'
  BY TypeStep DEF Next, CosStep
<1> QED BY <1>7, <1>8, <1>9, <1>10, <1>11

\* softsim_SendSIMCardResetCnfToModem and softsim_SoftSendAPDUCnfToModem
LEMMA ConfirmStep ==
    HandshakeInv /\ (ResetCnf \/ ApduCnf \/ GiveData) => HandshakeInv'
<1> SUFFICES ASSUME HandshakeInv, ResetCnf \/ ApduCnf \/ GiveData
             PROVE  HandshakeInv'
  OBVIOUS
<1> USE DEF HandshakeInv
<1>1. UNCHANGED <<handler, mainQueue, cosQueue, cos, stopped, ctl, sent, resp, replies>>
  BY DEF ResetCnf, ApduCnf, GiveData, pipes, core, session, traffic
<1>2. AtMain /\ ~InMainQueue /\ ~InCosQueue /\ ~AtCos /\ ~Given
      /\ handler.pc = "wait" /\ Carries(main) /\ OneInMainQueue
      /\ OneInCosQueue
  BY DEF ResetCnf, ApduCnf, GiveData, AtMain, OneRequest, RequestMatches
<1>3. ~InMainQueue' /\ ~InCosQueue' /\ ~AtCos' /\ OneInMainQueue'
      /\ OneInCosQueue' /\ handler'.pc = "wait"
  BY <1>1, <1>2 DEF InMainQueue, InCosQueue, AtCos, OneInMainQueue,
                    OneInCosQueue
<1>4. soft_sim_rst = 0 /\ soft_sim_data = 0
  BY <1>2 DEF Given, TypeOK
<1>5. handler.ind \in Resets \cup {"apdu"}
  BY <1>2 DEF HandlerShape
<1>6. OneRequest' /\ RequestMatches'
  <2>1. CASE ResetCnf
    <3>1. ~AtMain' /\ main'.kind # "give" /\ soft_sim_rst' = 1
          /\ soft_sim_data' = 0
      BY <2>1, <1>4 DEF ResetCnf, AtMain, Idle, Event
    <3>2. handler.ind \in Resets
      BY <2>1, <1>2, <1>5 DEF ResetCnf, Carries
    <3> QED BY <3>1, <3>2, <1>1, <1>3
            DEF OneRequest, RequestMatches, Given, InMainQueue, InCosQueue
  <2>2. CASE ApduCnf
    <3>1. /\ main'.kind = "give" /\ main'.n = main.n
          /\ g_rx_data' = main.n
          /\ soft_sim_rst' = 0 /\ soft_sim_data' = 0
      BY <2>2, <1>4 DEF ApduCnf, Event
    <3>2. handler.ind = "apdu" /\ handler.n = main.n
      BY <2>2, <1>2 DEF ApduCnf, Carries
    <3>3. AtMain' /\ ~Given' /\ Carries(main)'
      BY <3>1, <3>2, <1>1 DEF AtMain, Given, Carries
    <3> QED BY <3>1, <3>2, <3>3, <1>1, <1>3
            DEF OneRequest, RequestMatches, InMainQueue, InCosQueue
  <2>3. CASE GiveData
    <3>1. ~AtMain' /\ main'.kind # "give" /\ soft_sim_rst' = 0
          /\ soft_sim_data' = 1 /\ g_rx_data' = g_rx_data
      BY <2>3, <1>4 DEF GiveData, AtMain, Idle, Event
    <3>2. handler.ind = "apdu" /\ g_rx_data = handler.n
      BY <2>3, <1>2 DEF GiveData, Carries, RequestMatches
    <3> QED BY <3>1, <3>2, <1>1, <1>3
            DEF OneRequest, RequestMatches, Given, InMainQueue, InCosQueue
  <2> QED BY <2>1, <2>2, <2>3
<1>7. HandlerShape' /\ OneStop' /\ ResponseMatches'
  <2>1. handler.pc # "resp"
    BY <1>2
  <2> QED BY <2>1, <1>1 DEF HandlerShape, OneStop, StopInQueue, OneStopInQueue,
                            ResponseMatches
<1>8. TypeOK'
  BY TypeStep DEF Next, MainStep
<1> QED BY <1>6, <1>7, <1>8

LEMMA TakeStep == HandshakeInv /\ (TakeRst \/ TakeData) => HandshakeInv'
<1> SUFFICES ASSUME HandshakeInv, TakeRst \/ TakeData PROVE HandshakeInv'
  OBVIOUS
<1> USE DEF HandshakeInv
<1>1. /\ handler.pc = "wait"
      /\ UNCHANGED <<mainQueue, cosQueue, main, cos, stopped, g_rx_data, ctl,
                     sent, resp, replies>>
  BY DEF TakeRst, TakeData, pipes, core, session, traffic
<1>2. Given /\ ~(soft_sim_rst = 1 /\ soft_sim_data = 1)
  BY DEF TakeRst, TakeData, Given, TypeOK, OneRequest
<1>3. ~InMainQueue /\ ~InCosQueue /\ ~AtMain /\ ~AtCos /\ OneInMainQueue
      /\ OneInCosQueue
  BY <1>2 DEF OneRequest
<1>4. soft_sim_rst' = 0 /\ soft_sim_data' = 0
  BY <1>2 DEF TakeRst, TakeData, TypeOK, Given
<1>5. /\ handler'.pc = IF handler.ind = "apdu" THEN "resp" ELSE "write"
      /\ handler'.ind = handler.ind /\ handler'.n = handler.n
      /\ handler.ind \in Resets \cup {"apdu"}
      /\ handler.ind = "apdu" => g_rx_data = handler.n
  <2>1. CASE TakeRst
    BY <2>1 DEF TakeRst, TypeOK, HandlerAt, Resets
  <2>2. CASE TakeData
    <3>1. soft_sim_data = 1
      BY <2>2 DEF TakeData, TypeOK
    <3> QED BY <2>2, <3>1 DEF TakeData, TypeOK, HandlerAt, RequestMatches
  <2> QED BY <2>1, <2>2
<1>6. ~InMainQueue' /\ ~InCosQueue' /\ ~AtMain' /\ ~AtCos' /\ ~Given'
      /\ OneInMainQueue' /\ OneInCosQueue'
  BY <1>1, <1>3, <1>4 DEF InMainQueue, InCosQueue, AtMain, AtCos, Given,
                          OneInMainQueue, OneInCosQueue
<1>7. OneRequest'
  BY <1>4, <1>5, <1>6 DEF OneRequest
<1>8. RequestMatches'
  BY <1>4, <1>6 DEF RequestMatches, InMainQueue, InCosQueue, AtMain
<1>9. HandlerShape'
  BY <1>1, <1>5 DEF HandlerShape, Resets
<1>10. OneStop' /\ ResponseMatches'
  BY <1>1 DEF OneStop, StopInQueue, OneStopInQueue, ResponseMatches
<1>11. TypeOK'
  BY TypeStep DEF Next, HandlerStep
<1> QED BY <1>7, <1>8, <1>9, <1>10, <1>11

------------------------------------------------------------------------------
(* stop_cos_thread_nosave travels the COS pipe beside the request.           *)

LEMMA StopCosStep == HandshakeInv /\ StopCos => HandshakeInv'
<1> SUFFICES ASSUME HandshakeInv, StopCos PROVE HandshakeInv'
  OBVIOUS
<1> USE DEF HandshakeInv
<1> DEFINE e == Event("stop", 0)
<1>1. /\ ctl = "stopcos" /\ ctl' = "stopping" /\ Room(cosQueue)
      /\ cosQueue' = Append(cosQueue, e)
      /\ UNCHANGED <<handler, mainQueue, main, cos, stopped, soft_sim_rst,
                     soft_sim_data, g_rx_data, sent, resp, replies>>
  BY DEF StopCos, core, sync, traffic
<1>2. e \in CosJobs /\ e.kind = "stop"
  BY EventTypes DEF Event
<1>3. ~StopInQueue /\ cos.kind # "stop" /\ stopped # 1
  BY <1>1 DEF OneStop
<1>4. /\ InCosQueue' <=> InCosQueue
      /\ StopInQueue' /\ OneStopInQueue' /\ OneInCosQueue'
      /\ \A i \in DOMAIN cosQueue' :
             \/ cosQueue'[i] = e
             \/ \E j \in DOMAIN cosQueue : cosQueue'[i] = cosQueue[j]
  BY <1>1, <1>2, <1>3, CosSend DEF TypeOK, OneRequest, OneStop
<1>5. /\ InMainQueue' <=> InMainQueue
      /\ AtMain' <=> AtMain
      /\ AtCos' <=> AtCos
      /\ Given' <=> Given
      /\ OneInMainQueue'
  BY <1>1 DEF InMainQueue, AtMain, AtCos, Given, OneInMainQueue, OneRequest
<1>6. OneRequest'
  BY <1>1, <1>4, <1>5 DEF OneRequest
<1>7. RequestMatches'
  BY <1>1, <1>2, <1>4 DEF RequestMatches, Carries, AtMain, AtCos
<1>8. HandlerShape' /\ ResponseMatches'
  BY <1>1 DEF HandlerShape, ResponseMatches
<1>9. OneStop'
  BY <1>1, <1>3, <1>4 DEF OneStop
<1>10. TypeOK'
  BY TypeStep DEF Next, StopStep
<1> QED BY <1>6, <1>7, <1>8, <1>9, <1>10

LEMMA StoppedStep == HandshakeInv /\ (CosStop \/ StoppedCos) => HandshakeInv'
<1> SUFFICES ASSUME HandshakeInv, CosStop \/ StoppedCos PROVE HandshakeInv'
  OBVIOUS
<1> USE DEF HandshakeInv
<1>1. UNCHANGED <<handler, mainQueue, cosQueue, main, soft_sim_rst,
                  soft_sim_data, g_rx_data, sent, resp, replies>>
  BY DEF CosStop, StoppedCos, pipes, sync, traffic
<1>2. AtCos' <=> AtCos
  BY DEF CosStop, StoppedCos, AtCos, Idle, Event
<1>3. OneRequest'
  BY <1>1, <1>2 DEF OneRequest, InMainQueue, InCosQueue, AtMain, Given,
                    OneInMainQueue, OneInCosQueue
<1>4. RequestMatches'
  <2>1. AtCos' => cos' = cos
    BY DEF CosStop, StoppedCos, AtCos, Idle, Event
  <2> QED BY <2>1, <1>1, <1>2 DEF RequestMatches, Carries, AtMain
<1>5. HandlerShape' /\ ResponseMatches'
  BY <1>1 DEF HandlerShape, ResponseMatches
<1>6. OneStop'
  <2>1. CASE CosStop
    <3>1. ctl' = "stopping" /\ cos'.kind # "stop" /\ stopped' = 1
          /\ ~StopInQueue
      BY <2>1 DEF CosStop, OneStop, Idle, Event, TypeOK, session
    <3> QED BY <3>1, <1>1 DEF OneStop, StopInQueue, OneStopInQueue
  <2>2. CASE StoppedCos
    <3>1. stopped = 1 /\ stopped' = 0 /\ ctl' = "detach" /\ cos' = cos
      BY <2>2 DEF StoppedCos, TypeOK
    <3> QED BY <3>1, <1>1 DEF OneStop, StopInQueue, OneStopInQueue
  <2> QED BY <2>1, <2>2
<1>7. TypeOK'
  BY TypeStep DEF Next, CosStep, StopStep
<1> QED BY <1>3, <1>4, <1>5, <1>6, <1>7

------------------------------------------------------------------------------
(* The handshake invariant holds in every reachable state, for any number of *)
(* slots and commands, any pipe size, an eager modem or not.                 *)
THEOREM HandshakeCorrect == Safety => []HandshakeInv
<1>1. Init => HandshakeInv
  <2> SUFFICES ASSUME Init PROVE HandshakeInv
    OBVIOUS
  <2>1. TypeOK
    <3>1. /\ <<>> \in Seq(MainEvents) /\ Len(<<>>) <= QueueSize
          /\ <<>> \in Seq(CosJobs)
      BY BoundAssumption
    <3> QED BY <3>1, EventTypes DEF Init, TypeOK, CardStates, CtlAt, Events
  <2>2. OneRequest /\ RequestMatches /\ HandlerShape /\ OneStop
        /\ ResponseMatches
    BY DEF Init, OneRequest, RequestMatches, HandlerShape, OneStop,
           ResponseMatches, InMainQueue, InCosQueue, AtMain, AtCos, Given,
           OneInMainQueue, OneInCosQueue, StopInQueue, OneStopInQueue, Idle,
           Returned, Event
  <2> QED BY <2>1, <2>2 DEF HandshakeInv
<1>2. HandshakeInv /\ [Next]_vars => HandshakeInv'
  <2>1. HandshakeInv /\ Next => HandshakeInv'
    BY IndicationStep, HandlerReturnStep, QuietNextStep, PostStep, TickStep,
       MainGetStep, MainDispatchStep, CosGetStep, CosNotifyStep, ConfirmStep,
       TakeStep, StopCosStep, StoppedStep
       DEF Next, HandlerStep, MainStep, CosStep, StopStep, QuietNext
  <2>2. HandshakeInv /\ UNCHANGED vars => HandshakeInv'
    <3> SUFFICES ASSUME HandshakeInv, UNCHANGED vars PROVE HandshakeInv'
      OBVIOUS
    <3> USE DEF vars, card, pipes, core, sync, session, traffic
    <3>1. OneRequest' /\ RequestMatches' /\ HandlerShape' /\ OneStop'
          /\ ResponseMatches'
      BY QuietStep DEF RequestVars
    <3>2. TypeOK'
      BY DEF HandshakeInv, TypeOK
    <3> QED BY <3>1, <3>2 DEF HandshakeInv
  <2> QED BY <2>1, <2>2
<1> QED BY <1>1, <1>2, PTL DEF Safety

(* The modem always gets the answer to the command it sent: the reply copied *)
(* out of g_rx_data by uim_remote_ind_cb was computed for that command.      *)
THEOREM ResponsesMatch == Safety => []ResponseMatches
BY HandshakeCorrect, PTL DEF HandshakeInv

(* Type correctness: in particular both semaphores are binary.               *)
THEOREM TypeCorrect == Safety => []TypeOK
BY HandshakeCorrect, PTL DEF HandshakeInv

(* One request in flight: softsim_take_soft_sim_rst_sem and                  *)
(* softsim_take_soft_sim_data_sem never find a token left behind.            *)
THEOREM RequestsOneAtATime == Safety => []OneRequest
BY HandshakeCorrect, PTL DEF HandshakeInv

(* While a request is with MAIN the COS pipe holds at most the one stop of    *)
(* disconnect_modem: with room for two MAIN is never blocked by its send.    *)
THEOREM MainSends == Safety => []MainNeverBlocks
<1>1. HandshakeInv => MainNeverBlocks
  <2> SUFFICES ASSUME HandshakeInv, QueueSize >= 2, main.kind \in {"reset", "apdu"}
               PROVE  Len(cosQueue) < QueueSize
    BY DEF MainNeverBlocks, Room
  <2>1. ~InCosQueue /\ OneStopInQueue
    BY DEF HandshakeInv, OneRequest, AtMain, OneStop
  <2>2. Len(cosQueue) \in Nat /\ DOMAIN cosQueue = 1 .. Len(cosQueue)
    BY DEF HandshakeInv, TypeOK
  <2>3. ~(Len(cosQueue) >= 2)
    <3> SUFFICES ASSUME Len(cosQueue) >= 2 PROVE FALSE
      OBVIOUS
    <3>1. 1 \in DOMAIN cosQueue /\ 2 \in DOMAIN cosQueue
      BY <2>2
    <3>2. cosQueue[1].kind = "stop" /\ cosQueue[2].kind = "stop"
      BY <2>1, <3>1 DEF InCosQueue
    <3> QED BY <2>1, <3>1, <3>2 DEF OneStopInQueue
  <2> QED BY <2>2, <2>3, BoundAssumption
<1> QED BY <1>1, HandshakeCorrect, PTL

------------------------------------------------------------------------------
(* A modem that waits for CONNECTION_AVAILABLE.  Then the handler is idle    *)
(* whenever connect_modem sets card.state up, and while the card is on only  *)
(* the handler writes that state and nothing stops the core.                *)

Connected == ctl \in {"insert", "on"}

\* The state an indication was accepted in, for those that write the state.
AcceptedIn(ind) ==
    CASE ind = "connect"    -> "DISCONNECTED"
      [] ind = "power_down" -> "POWERED"
      [] OTHER              -> "CONNECTED"

ResetDone ==
    \/ soft_sim_rst = 1
    \/ main.kind = "resetDone"
    \/ \E i \in DOMAIN mainQueue : mainQueue[i].kind = "resetDone"

ConnectedInv ==
    /\ "unavailable" \notin told /\ (live => "available" \in told)
    /\ Attached => coreOn
    /\ ResetDone => coreOn
    /\ handler.pc = "write" /\ handler.ind \in Resets => coreOn
    /\ live /\ card_state = "POWERED" => "atr" \in told \/ handler.pc \in {"atr", "tell"}
    /\ handler.pc \in {"post", "wait", "write"} /\ handler.ind # "apdu"
           => card_state = AcceptedIn(handler.ind)

SessionInv ==
    /\ ctl \in {"off", "init", "drain"} => ~live
    /\ ctl \in {"off", "init", "setcard", "announce"} => handler.pc = "idle"
    /\ ctl \in {"setcard", "announce"} => told = {}
    /\ ctl = "announce" => card_state = "DISCONNECTED"
    /\ \/ Attached
       \/ ctl \in {"stopcos", "stopping", "detach"}
       \/ handler.pc = "write" /\ handler.ind = "power_down"
       => atrlen = 18
    /\ Connected => ConnectedInv

LEMMA ResetDoneWaits == HandshakeInv /\ ResetDone => handler.pc = "wait"
BY DEF HandshakeInv, ResetDone, OneRequest, Given, AtMain, InMainQueue

LEMMA ResetDoneOnlyByCore ==
    HandshakeInv /\ Next /\ ~CosNotify => (ResetDone' => ResetDone)
<1> SUFFICES ASSUME HandshakeInv, Next, ~CosNotify, ResetDone' PROVE ResetDone
  OBVIOUS
<1> USE DEF HandshakeInv
<1>1. CASE Indication
  BY <1>1 DEF Indication, ApduInd, ConnectInd, DisconnectInd, PowerInd,
              PowerDownInd, ResetDone, pipes, sync
<1>2. CASE Post
  <2>1. \A i \in DOMAIN mainQueue' :
            \/ mainQueue'[i].kind \in {"apdu", "reset"}
            \/ \E j \in DOMAIN mainQueue : mainQueue'[i] = mainQueue[j]
    <3>1. handler.n \in Apdus
      BY DEF TypeOK, HandlerAt
    <3> DEFINE e == IF handler.ind = "apdu" THEN Event("apdu", handler.n)
                                            ELSE Event("reset", 0)
    <3>2. e \in MainEvents /\ e.kind \in {"apdu", "reset"}
      BY <3>1, EventTypes DEF Event
    <3>3. mainQueue' = Append(mainQueue, e) /\ Room(mainQueue)
      BY <1>2 DEF Post
    <3> HIDE DEF e
    <3> QED BY <3>2, <3>3, MainSend DEF TypeOK
  <2> QED BY <1>2, <2>1 DEF Post, ResetDone, sync
<1>3. CASE Tick
  <2>1. \A i \in DOMAIN mainQueue' :
            \/ mainQueue'[i] = Event("timer", 0)
            \/ \E j \in DOMAIN mainQueue : mainQueue'[i] = mainQueue[j]
    BY <1>3, EventTypes, MainSend DEF Tick, TypeOK
  <2> QED BY <1>3, <2>1 DEF Tick, ResetDone, Event, sync
<1>4. CASE MainGet
  <2>1. /\ \E j \in DOMAIN mainQueue : main' = mainQueue[j]
        /\ \A i \in DOMAIN mainQueue' :
               \E j \in DOMAIN mainQueue : mainQueue'[i] = mainQueue[j]
    BY <1>4, MainReceive DEF MainGet, TypeOK
  <2> QED BY <1>4, <2>1 DEF MainGet, ResetDone, sync
<1>5. CASE TakeRst \/ TakeData \/ WriteState \/ CheckAtr \/ SendAtr \/ CheckResp
           \/ SendResp
  BY <1>5 DEF TakeRst, TakeData, WriteState, CheckAtr, SendAtr, CheckResp,
              SendResp, ResetDone, pipes, sync, TypeOK
<1>6. CASE MainTimer \/ MainReady \/ MainDispatch \/ ResetCnf \/ ApduCnf
           \/ GiveData
  BY <1>6 DEF MainTimer, MainReady, MainDispatch, ResetCnf, ApduCnf, GiveData,
              ResetDone, Idle, Event, pipes, sync
<1>7. CASE CosGet \/ CosStop \/ AtStart \/ ConnectStep
  BY <1>7 DEF CosGet, CosStop, AtStart, ConnectStep, ClientInit, SetCard,
              ConnectCard, InsertCard, ResetDone, Idle, Event, pipes, sync
<1>8. CASE AtStop \/ StopStep
  BY <1>8 DEF AtStop, StopStep, StopCos, StoppedCos, Detach, RemoveCard,
              DisconnectCard, Release, Released, ResetDone, pipes, sync
<1> QED BY <1>1, <1>2, <1>3, <1>4, <1>5, <1>6, <1>7, <1>8
        DEF Next, HandlerStep, MainStep, CosStep

LEMMA SessionStep == ~Eager /\ HandshakeInv /\ SessionInv /\ Next => SessionInv'
<1> SUFFICES ASSUME ~Eager, HandshakeInv, SessionInv, Next PROVE SessionInv'
  OBVIOUS
<1>1. CASE Indication
  <2>1. PICK slot \in Slots, ind \in {"power_up", "reset"} :
            \/ ApduInd(slot) \/ ConnectInd(slot) \/ DisconnectInd(slot)
            \/ PowerInd(ind, slot) \/ PowerDownInd(slot)
    BY <1>1 DEF Indication
  <2>2. /\ MayIndicate /\ handler'.pc \in {"post", "atr", "write"}
        /\ UNCHANGED <<card_state, atrlen, coreOn, ctl, live, told>>
    BY <2>1 DEF ApduInd, ConnectInd, DisconnectInd, PowerInd, PowerDownInd,
                Enter, card, core, session
  <2>3. /\ handler'.ind # "apdu" /\ handler'.pc \in {"post", "write"}
               => card_state = AcceptedIn(handler'.ind)
        /\ handler'.pc = "write" => handler'.ind \notin Resets
    BY <2>1 DEF ApduInd, ConnectInd, DisconnectInd, PowerInd, PowerDownInd,
                Enter, AcceptedIn, Resets
  <2>4. ~ResetDone /\ ~ResetDone'
    <3>1. ~CosNotify
      BY <2>2, <2>1 DEF CosNotify, ApduInd, ConnectInd, DisconnectInd, PowerInd,
                        PowerDownInd, Enter, MayIndicate, HandshakeInv, TypeOK
    <3> QED BY <2>2, <3>1, ResetDoneWaits, ResetDoneOnlyByCore DEF MayIndicate
  <2>5. handler'.pc = "write" /\ handler'.ind = "power_down" => Attached
    BY <2>3 DEF AcceptedIn, Attached
  <2>6. ctl \notin {"off", "init", "setcard", "announce", "drain"}
    BY <2>2 DEF MayIndicate, Available, SessionInv
  <2>7. ConnectedInv => ConnectedInv'
    BY <2>2, <2>3, <2>4 DEF ConnectedInv, MayIndicate, Attached, AcceptedIn
  <2> QED BY <2>2, <2>5, <2>6, <2>7 DEF SessionInv, Connected, Attached
<1>2. CASE Post \/ TakeRst \/ TakeData
  <2>1. /\ UNCHANGED <<card_state, atrlen, coreOn, ctl, live, told>>
        /\ handler.pc \in {"post", "wait"}
        /\ handler'.pc \in {"wait", "write", "resp"}
        /\ handler'.ind = handler.ind
        /\ handler'.pc = "write" => ResetDone /\ handler.ind \in Resets
    BY <1>2 DEF Post, TakeRst, TakeData, card, core, session, HandshakeInv,
                TypeOK, HandlerAt, ResetDone
  <2>2. ResetDone' => ResetDone
    BY <1>2, ResetDoneOnlyByCore
       DEF Post, TakeRst, TakeData, CosNotify, core, HandshakeInv, TypeOK,
           CosHolds, CosJobs, Idle, Event
  <2> QED BY <2>1, <2>2 DEF SessionInv, ConnectedInv, Connected, Attached, Resets
<1>3. CASE WriteState
  <2>1. /\ UNCHANGED <<coreOn, ctl, live, told>>
        /\ handler.pc = "write" /\ handler'.pc \in {"atr", "idle"}
        /\ card_state' = NextState(handler.ind)
        /\ handler.ind \in Resets => atrlen' = 18 /\ handler'.pc = "atr"
        /\ handler.ind \notin Resets => atrlen' = atrlen
    BY <1>3 DEF WriteState, core, session, Returned, HandshakeInv, TypeOK,
                HandlerAt
  <2>2. ~ResetDone'
    BY <1>3, <2>1, ResetDoneWaits, ResetDoneOnlyByCore
       DEF WriteState, CosNotify, core, HandshakeInv, TypeOK, CosHolds, CosJobs,
           Idle, Event
  <2>3. handler.ind \in Resets \cup {"disconnect", "power_down"}
    BY <2>1 DEF HandshakeInv, HandlerShape
  <2>4. atrlen' = 18 \/ card_state' = "DISCONNECTED"
    BY <2>1, <2>3 DEF SessionInv, NextState, Resets
  <2>5. ctl \in {"stopcos", "stopping", "detach"} => atrlen' = 18
    BY <2>1 DEF SessionInv
  <2>6. ConnectedInv => ConnectedInv'
    BY <2>1, <2>2, <2>3 DEF ConnectedInv, NextState, AcceptedIn, Attached, Resets
  <2>7. ctl \notin {"off", "init", "setcard", "announce"}
    BY <2>1 DEF SessionInv
  <2>8. Attached' => atrlen' = 18
    BY <2>4 DEF Attached
  <2> QED BY <2>1, <2>5, <2>6, <2>7, <2>8 DEF SessionInv, Connected
<1>4. CASE CheckAtr \/ SendAtr \/ CheckResp \/ SendResp
  <2>1. /\ UNCHANGED <<card_state, atrlen, coreOn, ctl, live>>
        /\ handler.pc \in {"atr", "tell", "resp", "reply"}
        /\ handler'.pc \in {"tell", "reply", "idle"}
        /\ told' \in {told, told \cup {"atr"}}
        /\ handler.pc = "atr" /\ card_state = "POWERED" /\ atrlen # 0
               => handler'.pc = "tell"
        /\ handler.pc = "tell" /\ live => "atr" \in told'
    BY <1>4 DEF CheckAtr, SendAtr, CheckResp, SendResp, card, core, session,
                Returned, Tell, HandshakeInv, TypeOK, HandlerAt
  <2>2. ~ResetDone'
    BY <1>4, <2>1, ResetDoneWaits, ResetDoneOnlyByCore
       DEF CheckAtr, SendAtr, CheckResp, SendResp, CosNotify, core, HandshakeInv,
           TypeOK, CosHolds, CosJobs, Idle, Event
  <2>3. ctl \notin {"off", "init", "setcard", "announce"}
    BY <2>1 DEF SessionInv
  <2> QED BY <2>1, <2>2, <2>3 DEF SessionInv, ConnectedInv, Connected, Attached
<1>5. CASE Tick \/ MainStep \/ CosGet
  <2>1. /\ UNCHANGED <<card_state, atrlen, handler, coreOn, live, told>>
        /\ ctl' = ctl \/ (ctl = "off" /\ ctl' = "init")
    BY <1>5 DEF Tick, MainStep, MainGet, MainTimer, MainReady, MainDispatch,
                ResetCnf, ApduCnf, GiveData, CosGet, card, core, session
  <2>2. ~CosNotify
    BY <1>5 DEF Tick, MainStep, MainGet, MainTimer, MainReady, MainDispatch,
                ResetCnf, ApduCnf, GiveData, CosGet, CosNotify, core, Idle,
                Event, HandshakeInv, TypeOK, CosHolds, CosJobs
  <2>3. ResetDone' => ResetDone
    BY <2>2, ResetDoneOnlyByCore
  <2> QED BY <2>1, <2>3 DEF SessionInv, ConnectedInv, Connected, Attached
<1>6. CASE CosNotify
  <2>1. /\ UNCHANGED <<card_state, atrlen, handler, ctl, live, told>>
        /\ coreOn' = (coreOn \/ cos.kind = "reset")
    BY <1>6 DEF CosNotify, card, session
  <2>2. ResetDone' => ResetDone \/ coreOn'
    <3>1. ASSUME cos.kind # "reset" PROVE ResetDone' => ResetDone
      <4>1. cos.n \in Apdus
        BY <1>6 DEF CosNotify, HandshakeInv, TypeOK, CosHolds, CosJobs, Idle,
                    Event
      <4>2. Event("apduDone", cos.n) \in MainEvents
        BY <4>1, EventTypes
      <4>3. \A i \in DOMAIN mainQueue' :
                \/ mainQueue'[i] = Event("apduDone", cos.n)
                \/ \E j \in DOMAIN mainQueue : mainQueue'[i] = mainQueue[j]
        BY <1>6, <3>1, <4>2, MainSend DEF CosNotify, HandshakeInv, TypeOK
      <4> QED BY <1>6, <4>3 DEF CosNotify, ResetDone, Event, sync
    <3> QED BY <2>1, <3>1
  <2> QED BY <2>1, <2>2 DEF SessionInv, ConnectedInv, Connected, Attached
<1>7. CASE CosStop \/ StopCos \/ StoppedCos \/ Detach \/ RemoveCard
           \/ DisconnectCard \/ Release \/ Released
  <2>1. ~Connected /\ ~Connected'
    BY <1>7 DEF CosStop, StopCos, StoppedCos, Detach, RemoveCard,
                DisconnectCard, Release, Released, Connected, HandshakeInv,
                OneStop, session
  <2>2. /\ ctl' \in {"off", "init", "drain"} => ~live'
        /\ ctl' \in {"off", "init", "setcard", "announce"}
               => handler'.pc = "idle"
        /\ ctl' \notin {"setcard", "announce"}
    BY <1>7 DEF CosStop, StopCos, StoppedCos, Detach, RemoveCard,
                DisconnectCard, Release, Released, HandshakeInv,
                OneStop, session, SessionInv
  <2>3. \/ Attached' \/ ctl' \in {"stopcos", "stopping", "detach"}
        \/ handler'.pc = "write" /\ handler'.ind = "power_down"
        => atrlen' = 18
    BY <1>7 DEF CosStop, StopCos, StoppedCos, Detach, RemoveCard,
                DisconnectCard, Release, Released, HandshakeInv,
                OneStop, session, card, SessionInv, Attached
  <2> QED BY <2>1, <2>2, <2>3 DEF SessionInv
<1>8. CASE AtStart \/ ClientInit \/ SetCard \/ AtStop
  <2>1. UNCHANGED <<atrlen, handler, coreOn>>
    BY <1>8 DEF AtStart, ClientInit, SetCard, AtStop, card, core
  <2>2. ~Connected'
    BY <1>8 DEF AtStart, ClientInit, SetCard, AtStop, Connected
  <2> QED BY <1>8, <2>1, <2>2
          DEF AtStart, ClientInit, SetCard, AtStop, SessionInv, ConnectedInv,
              Connected, Attached, card
<1>9. CASE ConnectCard
  <2>1. /\ UNCHANGED <<card_state, atrlen, handler, coreOn, live>>
        /\ ctl = "announce" /\ ctl' = "insert"
        /\ handler.pc = "idle" /\ card_state = "DISCONNECTED" /\ told = {}
        /\ told' = IF live THEN {"available"} ELSE {}
    BY <1>9 DEF ConnectCard, card, core, SessionInv, Tell
  <2>2. ~ResetDone'
    BY <1>9, <2>1, ResetDoneWaits, ResetDoneOnlyByCore
       DEF ConnectCard, CosNotify, core, HandshakeInv, TypeOK, CosHolds, CosJobs,
           Idle, Event
  <2> QED BY <2>1, <2>2 DEF SessionInv, ConnectedInv, Connected, Attached
<1>10. CASE InsertCard
  <2>1. /\ UNCHANGED <<card_state, atrlen, handler, coreOn, live>>
        /\ ctl = "insert" /\ ctl' = "on"
        /\ told' \in {told, told \cup {"inserted"}}
    BY <1>10 DEF InsertCard, card, core, Tell
  <2>2. ResetDone' => ResetDone
    BY <1>10 DEF InsertCard, ResetDone, Idle, Event, pipes, sync
  <2> QED BY <2>1, <2>2 DEF SessionInv, ConnectedInv, Connected, Attached
<1> QED
  BY <1>1, <1>2, <1>3, <1>4, <1>5, <1>6, <1>7, <1>8, <1>9, <1>10
     DEF Next, HandlerStep, CosStep, ConnectStep, StopStep

LEMMA SessionCorrect ==
    ASSUME ~Eager
    PROVE  Safety => [](HandshakeInv /\ SessionInv)
<1>1. Init => SessionInv
  BY DEF Init, SessionInv, Connected, Attached, Returned
<1>2. HandshakeInv /\ SessionInv /\ [Next]_vars => SessionInv'
  <2>1. HandshakeInv /\ SessionInv /\ UNCHANGED vars => SessionInv'
    BY DEF SessionInv, ConnectedInv, Connected, Attached, ResetDone, vars, card,
           pipes, core, sync, session, traffic
  <2> QED BY <2>1, SessionStep
<1> QED BY <1>1, <1>2, HandshakeCorrect, PTL DEF Safety

(* A card that the modem may send APDUs to has a running core: proved for a  *)
(* modem that waits for CONNECTION_AVAILABLE (an eager one can reach the     *)
(* state of the session before, between qmi_client_init and card.state).     *)
THEOREM AttachedHasCore ==
    ASSUME ~Eager
    PROVE  Safety => []AttachedCoreOn
<1>1. SessionInv => AttachedCoreOn
  BY DEF SessionInv, ConnectedInv, Connected, AttachedCoreOn
<1> QED BY <1>1, SessionCorrect, PTL

(* uim_remote_connect_card always finds card.state DISCONNECTED, so a client *)
(* that is on has announced itself.                                         *)
THEOREM Announced ==
    ASSUME ~Eager
    PROVE  Safety => []AnnouncedWhenOn
<1>1. SessionInv => AnnouncedWhenOn
  BY DEF SessionInv, ConnectedInv, Connected, AnnouncedWhenOn, Available
<1> QED BY <1>1, SessionCorrect, PTL

(* No session keeps the modem waiting for the ATR of a card it powered.      *)
THEOREM AtrDelivered ==
    ASSUME ~Eager
    PROVE  Safety => []PoweredToldAtr
<1>1. SessionInv => PoweredToldAtr
  BY DEF SessionInv, ConnectedInv, Connected, PoweredToldAtr
<1> QED BY <1>1, SessionCorrect, PTL

(* The state the handler writes is next to the one it finds there: nothing   *)
(* changed card.state between its check and its write.                      *)
THEOREM LadderKept ==
    ASSUME ~Eager
    PROVE  Safety => StateLadder
<1>1. ASSUME HandshakeInv, SessionInv, [Next]_vars, ctl = "on",
             card_state' # card_state
      PROVE  OneRung(card_state, card_state')
  <2>1. WriteState
    <3>1. UNCHANGED card_state \/ WriteState \/ SetCard \/ Detach
      BY <1>1 DEF Next, vars, Indication, ApduInd, ConnectInd, DisconnectInd,
         PowerInd, PowerDownInd, HandlerStep, Post, TakeRst, TakeData, CheckAtr,
         SendAtr, CheckResp, SendResp, Tick, MainStep, MainGet, MainTimer, MainReady, MainDispatch,
         ResetCnf, ApduCnf, GiveData, CosStep, CosGet, CosNotify, CosStop,
         AtStart, ConnectStep, ClientInit, ConnectCard, InsertCard, AtStop,
         StopStep, StopCos, StoppedCos, RemoveCard, DisconnectCard, Release,
         Released, card
    <3> QED BY <1>1, <3>1 DEF SetCard, Detach
  <2>2. /\ handler.ind \in Resets \cup {"disconnect", "power_down"}
        /\ card_state = AcceptedIn(handler.ind)
        /\ card_state' = NextState(handler.ind)
    BY <1>1, <2>1 DEF WriteState, HandshakeInv, HandlerShape, SessionInv,
                      Connected, ConnectedInv, Resets
  <2> QED BY <2>2 DEF AcceptedIn, NextState, OneRung, Resets
<1> QED BY <1>1, SessionCorrect, PTL DEF Safety, StateLadder

(* While MAIN is in connect_modem no reset is confirmed, so the card stays    *)
(* DISCONNECTED until CARD_INSERTED is sent.                                *)
ReadyInv ==
    main.kind = "ready" =>
        /\ ctl \in {"init", "setcard", "announce", "insert"}
        /\ ctl = "insert" => /\ card_state = "DISCONNECTED"
                             /\ soft_sim_rst # 1
                             /\ handler.pc \notin {"write", "tell"}
                             /\ "atr" \notin told

LEMMA ReadyStep ==
    HandshakeInv /\ SessionInv /\ ReadyInv /\ Next => ReadyInv'
<1> SUFFICES ASSUME HandshakeInv, SessionInv, ReadyInv, Next, main'.kind = "ready"
             PROVE  ReadyInv'
  BY DEF ReadyInv
<1>1. CASE MainStep
  <2>1. CASE MainReady
    BY <2>1 DEF MainReady, ReadyInv
  <2>2. ~MainGet
    <3> SUFFICES ASSUME MainGet PROVE FALSE
      OBVIOUS
    <3>1. main' \in MainEvents
      BY MainReceive DEF MainGet, HandshakeInv, TypeOK
    <3> QED BY <3>1 DEF MainEvents
  <2> QED BY <1>1, <2>1, <2>2 DEF MainStep, MainTimer, MainDispatch, ResetCnf,
              ApduCnf, GiveData, Idle, Event
<1>2. CASE InsertCard
  BY <1>2 DEF InsertCard, Idle, Event
<1>3. ASSUME ~MainStep, ~InsertCard PROVE main' = main
  BY <1>3 DEF Next, Indication, ApduInd, ConnectInd, DisconnectInd, PowerInd,
         PowerDownInd, HandlerStep, Post, TakeRst, TakeData, WriteState, CheckAtr,
         SendAtr, CheckResp, SendResp, Tick, CosStep, CosGet, CosNotify, CosStop, AtStart, ConnectStep,
         ClientInit, SetCard, ConnectCard, AtStop, StopStep, StopCos, StoppedCos,
         Detach, RemoveCard, DisconnectCard, Release, Released
<1>4. CASE main' = main /\ Indication
  <2>1. UNCHANGED <<card_state, soft_sim_rst, ctl, told>>
    BY <1>4 DEF Indication, ApduInd, ConnectInd, DisconnectInd, PowerInd,
                PowerDownInd, card, sync, session
  <2>2. card_state = "DISCONNECTED" => handler'.pc \notin {"write", "tell"}
    BY <1>4 DEF Indication, ApduInd, ConnectInd, DisconnectInd, PowerInd,
                PowerDownInd, Enter, Attached
  <2> QED BY <1>4, <2>1, <2>2 DEF ReadyInv
<1>5. CASE main' = main /\ HandlerStep
  <2>1. ctl' = ctl /\ main.kind = "ready"
    BY <1>5 DEF HandlerStep, Post, TakeRst, TakeData, WriteState, CheckAtr,
                SendAtr, CheckResp, SendResp, session
  <2>2. ASSUME ctl = "insert"
        PROVE  /\ card_state' = "DISCONNECTED" /\ soft_sim_rst' # 1
               /\ handler'.pc \notin {"write", "tell"} /\ "atr" \notin told'
    <3>1. /\ card_state = "DISCONNECTED" /\ soft_sim_rst = 0
          /\ handler.pc \notin {"write", "tell"} /\ "atr" \notin told
      BY <2>1, <2>2 DEF ReadyInv, HandshakeInv, TypeOK
    <3>2. CASE Post \/ TakeData \/ CheckResp \/ SendResp
      BY <3>1, <3>2 DEF Post, TakeData, CheckResp, SendResp, Returned, card, sync,
                        session, HandshakeInv, TypeOK, HandlerAt
    <3>3. CASE CheckAtr
      BY <3>1, <3>3 DEF CheckAtr, Returned, card, sync, session
    <3>4. ~TakeRst /\ ~WriteState /\ ~SendAtr
      BY <3>1 DEF TakeRst, WriteState, SendAtr
    <3> QED BY <1>5, <3>2, <3>3, <3>4 DEF HandlerStep
  <2> QED BY <2>1, <2>2 DEF ReadyInv
<1>6. CASE main' = main /\ (Tick \/ CosStep)
  BY <1>6 DEF Tick, CosStep, CosGet, CosNotify, CosStop, card, sync, session, ReadyInv
<1>7. CASE main' = main /\ (ClientInit \/ SetCard)
  BY <1>7 DEF ClientInit, SetCard, ReadyInv
<1>8. CASE main' = main /\ ConnectCard
  <2>1. handler.pc = "idle" /\ card_state = "DISCONNECTED" /\ told = {}
    BY <1>8 DEF ConnectCard, SessionInv
  <2>2. soft_sim_rst # 1
    BY <2>1 DEF HandshakeInv, OneRequest, Given
  <2> QED BY <1>8, <2>1, <2>2 DEF ConnectCard, Tell, card, sync, ReadyInv
<1>9. (~AtStart /\ ~AtStop /\ ~StopStep) \/ main' # main
  BY DEF AtStart, AtStop, StopStep, StopCos, StoppedCos, Detach, RemoveCard,
         DisconnectCard, Release, Released, ReadyInv
<1> QED
  BY <1>1, <1>2, <1>3, <1>4, <1>5, <1>6, <1>7, <1>8, <1>9 DEF Next, ConnectStep

(* An answer decided on by a powered card leaves it powered, or while the      *)
(* same session is being stopped: connect_modem finds no callback running.   *)
THEOREM AnswersLeavePowered ==
    ASSUME ~Eager
    PROVE  Safety => []AnswersPowered
<1>1. Init => AnswersPowered
  BY DEF Init, AnswersPowered, Returned
<1>2. HandshakeInv /\ SessionInv /\ AnswersPowered /\ [Next]_vars
          => AnswersPowered'
  <2> SUFFICES ASSUME HandshakeInv, SessionInv, AnswersPowered, [Next]_vars
               PROVE  AnswersPowered'
    OBVIOUS
  <2>1. CASE CheckResp
    BY <2>1 DEF CheckResp, AnswersPowered, card, Returned
  <2>2. CASE SetCard
    BY <2>2 DEF SetCard, SessionInv, AnswersPowered
  <2>3. CASE Detach \/ RemoveCard \/ DisconnectCard \/ Release
    BY <2>3 DEF Detach, RemoveCard, DisconnectCard, Release, AnswersPowered
  <2>4. CASE Released
    BY <2>4 DEF Released, AnswersPowered
  <2>5. CASE Indication
    BY <2>5 DEF Indication, ApduInd, ConnectInd, DisconnectInd, PowerInd,
                PowerDownInd, Enter, AnswersPowered
  <2>6. CASE Post \/ TakeRst \/ TakeData \/ WriteState \/ CheckAtr \/ SendAtr
             \/ SendResp
    BY <2>6 DEF Post, TakeRst, TakeData, WriteState, CheckAtr, SendAtr, SendResp,
                HandshakeInv, TypeOK, HandlerAt, Returned, AnswersPowered
  <2>7. CASE Tick \/ MainStep \/ CosStep \/ AtStart \/ AtStop \/ ClientInit
             \/ ConnectCard \/ InsertCard \/ StopCos \/ StoppedCos
    <3>1. UNCHANGED <<card_state, handler>>
      BY <2>7 DEF Tick, MainStep, MainGet, MainTimer, MainReady, MainDispatch,
         ResetCnf, ApduCnf, GiveData, CosStep, CosGet, CosNotify, CosStop,
         AtStart, AtStop, ClientInit, ConnectCard, InsertCard, StopCos,
         StoppedCos, card
    <3>2. \/ ctl' = ctl
          \/ ctl \in {"off", "init", "announce", "insert", "on", "stopcos",
                      "stopping"}
      BY <2>7 DEF Tick, MainStep, MainGet, MainTimer, MainReady, MainDispatch,
         ResetCnf, ApduCnf, GiveData, CosStep, CosGet, CosNotify, CosStop,
         AtStart, AtStop, ClientInit, ConnectCard, InsertCard, StopCos,
         StoppedCos, session
    <3> QED BY <3>1, <3>2 DEF AnswersPowered
  <2>8. CASE UNCHANGED vars
    BY <2>8 DEF vars, card, session, AnswersPowered
  <2> QED BY <2>1, <2>2, <2>3, <2>4, <2>5, <2>6, <2>7, <2>8
          DEF Next, HandlerStep, ConnectStep, StopStep
<1> QED BY <1>1, <1>2, SessionCorrect, PTL DEF Safety

(* CARD_INSERTED precedes the ATR when connect_modem runs on MAIN. *)
THEOREM ReadyQuiet ==
    ASSUME ~Eager
    PROVE  Safety => []ReadyConnectQuiet
<1>1. Init => ReadyInv
  BY DEF Init, ReadyInv, Idle, Event
<1>2. HandshakeInv /\ SessionInv /\ ReadyInv /\ [Next]_vars => ReadyInv'
  <2>1. ReadyInv /\ UNCHANGED vars => ReadyInv'
    BY DEF ReadyInv, vars, card, sync, session
  <2> QED BY <2>1, ReadyStep
<1>3. SessionInv /\ ReadyInv => ReadyConnectQuiet
  BY DEF SessionInv, ReadyInv, ReadyConnectQuiet
<1> QED BY <1>1, <1>2, <1>3, SessionCorrect, PTL DEF Safety

------------------------------------------------------------------------------
(* Every step of the relay is a step of the service the modem is promised,   *)
(* or leaves it alone.  (That nothing is left hanging is a liveness property *)
(* and is model-checked.)                                                   *)
THEOREM ImplementsServiceSafety == Safety => Service!ServiceSafety
<1>1. Init => Service!ServiceInit
  BY DEF Init, Service!ServiceInit, Pending, Returned
<1>2. HandshakeInv /\ HandshakeInv' /\ [Next]_vars
          => [Service!ServiceNext]_(Service!svars)
  <2> SUFFICES ASSUME HandshakeInv, HandshakeInv', [Next]_vars
               PROVE  Service!ServiceNext \/ UNCHANGED Service!svars
    OBVIOUS
  <2> USE DEF Service!ServiceNext, Service!svars, Pending, card, traffic
  <2>1. card_state' \in {"DISCONNECTED", "CONNECTED", "POWERED"}
    BY DEF HandshakeInv, TypeOK, CardStates
  <2>2. ASSUME UNCHANGED <<sent, replies>>, Pending' = Pending,
               (handler.pc = "reply")' = (handler.pc = "reply")
        PROVE  Service!Switch
    BY <2>1, <2>2 DEF Service!Switch
  <2>3. CASE Indication
    <3>1. PICK slot \in Slots, ind \in {"power_up", "reset"} :
              \/ ApduInd(slot) \/ ConnectInd(slot) \/ DisconnectInd(slot)
              \/ PowerInd(ind, slot) \/ PowerDownInd(slot)
      BY <2>3 DEF Indication
    <3>2. handler = Returned
      BY <3>1 DEF ApduInd, ConnectInd, DisconnectInd, PowerInd, PowerDownInd,
                  MayIndicate, HandshakeInv, HandlerShape
    <3>3. CASE ApduInd(slot)
      BY <3>2, <3>3 DEF ApduInd, Enter, Returned, Attached, Service!Ask
    <3>4. CASE ConnectInd(slot) \/ DisconnectInd(slot) \/ PowerInd(ind, slot)
               \/ PowerDownInd(slot)
      BY <3>2, <3>4 DEF ConnectInd, DisconnectInd, PowerInd, PowerDownInd,
                        Enter, Returned
    <3> QED BY <3>1, <3>3, <3>4
  <2>4. CASE CheckResp
    <3>1. /\ handler.pc = "resp" /\ handler.ind = "apdu" /\ handler.n # 0
          /\ UNCHANGED <<card_state, sent, replies>>
      BY <2>4 DEF CheckResp, HandshakeInv, HandlerShape, TypeOK, Apdus
    <3>2. CASE card_state = "POWERED"
      <4>1. handler' = [handler EXCEPT !.pc = "reply"]
        BY <2>4, <3>2 DEF CheckResp
      <4>2. handler'.pc = "reply" /\ handler'.ind = handler.ind
            /\ handler'.n = handler.n
        BY <4>1 DEF HandshakeInv, TypeOK, HandlerAt
      <4> QED BY <3>1, <3>2, <4>2 DEF Service!Pass
    <3>3. CASE card_state # "POWERED"
      BY <2>4, <3>1, <3>3 DEF CheckResp, Returned, Service!Drop
    <3> QED BY <3>2, <3>3
  <2>5. CASE SendResp
    <3>1. /\ handler.pc = "reply" /\ handler.ind = "apdu" /\ handler.n # 0
          /\ resp = handler.n /\ handler' = Returned
          /\ UNCHANGED <<card_state, sent>>
      BY <2>5 DEF SendResp, HandshakeInv, HandlerShape, TypeOK, Apdus
    <3>2. CASE live
      BY <2>5, <3>1, <3>2 DEF SendResp, Returned, Service!Answer
    <3>3. CASE ~live
      BY <2>5, <3>1, <3>3 DEF SendResp, Returned, Service!Drop
    <3> QED BY <3>2, <3>3
  <2>6. CASE Post \/ TakeRst \/ TakeData \/ WriteState \/ CheckAtr \/ SendAtr
    <3>1. UNCHANGED <<sent, replies>>
      BY <2>6 DEF Post, TakeRst, TakeData, WriteState, CheckAtr, SendAtr
    <3>2. /\ handler.pc # "reply" /\ handler'.pc # "reply"
          /\ \/ handler'.ind = handler.ind /\ handler'.n = handler.n
             \/ handler.ind # "apdu" /\ handler' = Returned
      BY <2>6 DEF Post, TakeRst, TakeData, WriteState, CheckAtr, SendAtr,
                  HandshakeInv, HandlerShape, TypeOK, HandlerAt, Resets, Returned
    <3>3. Pending' = Pending
      BY <3>2 DEF Returned
    <3> QED BY <3>1, <3>2, <3>3, <2>2
  <2>7. CASE Tick \/ MainStep \/ CosStep \/ AtStart \/ ConnectStep \/ AtStop
             \/ StopStep
    <3>1. UNCHANGED <<handler, sent, replies>>
      BY <2>7 DEF Tick, MainStep, MainGet, MainTimer, MainReady, MainDispatch,
         ResetCnf, ApduCnf, GiveData, CosStep, CosGet, CosNotify, CosStop,
         AtStart, ConnectStep, ClientInit, SetCard, ConnectCard, InsertCard,
         AtStop, StopStep, StopCos, StoppedCos, Detach, RemoveCard,
         DisconnectCard, Release, Released
    <3> QED BY <3>1, <2>2
  <2>8. CASE UNCHANGED vars
    BY <2>8 DEF vars
  <2> QED BY <2>3, <2>4, <2>5, <2>6, <2>7, <2>8 DEF Next, HandlerStep
<1> QED BY <1>1, <1>2, HandshakeCorrect, PTL DEF Safety, Service!ServiceSafety
==============================================================================
