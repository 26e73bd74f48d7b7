------------------------------ MODULE SimRelay ------------------------------
(***************************************************************************)
(* The relay between the modem and the soft SIM (qmi_remotesim.c and the    *)
(* queues, semaphores and buffers of softsim_porting.c).                    *)
(*                                                                         *)
(*   handler    : the QMI callback thread, inside uim_remote_ind_cb, one    *)
(*                indication at a time; it posts a request to the main      *)
(*                pipe and blocks on a semaphore                            *)
(*   main       : the MAIN task, serving the main pipe                      *)
(*   cos        : the COS task, the card core behind its own pipe           *)
(*   ctl        : connect_modem / disconnect_modem, run by MAIN on the      *)
(*                event "ready" or by the AT thread                         *)
(*   Tick       : the timer callback thread                                 *)
(*                                                                         *)
(* The loops of MAIN and COS are in the closed library softsim_lib.lib and  *)
(* are modelled from the functions of this repository they call.            *)
(*                                                                         *)
(* Sessions do not overlap here: connect_modem starts when no session is    *)
(* under way and disconnect_modem when one is on.  That this is so is the   *)
(* subject of module Lifecycle.  An operator marked "Faulty" is a variant   *)
(* of the action below it, kept to show that a property can fail.           *)
(***************************************************************************)
EXTENDS Naturals, Sequences

CONSTANTS
    Slots,      \* slots the modem may name in an indication
    CardSlot,   \* the slot this card serves (card_slot)
    NoSlot,     \* card.slot before the first connect_modem
    MaxApdu,    \* bound: command APDUs the modem sends in a run
    QueueSize,  \* SOFTSIM_QUEUE_SIZE
    Eager       \* the modem sends indications before CONNECTION_AVAILABLE

ASSUME SlotAssumption  == CardSlot \in Slots /\ NoSlot \notin Slots
ASSUME BoundAssumption == MaxApdu \in Nat /\ QueueSize \in Nat \ {0}
ASSUME EagerAssumption == Eager \in BOOLEAN

VARIABLES
    card_state,     \* card.state
    card_slot,      \* card.slot
    atrlen,         \* the static atrlen of uim_remote_ind_cb
    handler,        \* [pc, ind, n]: the indication being handled
    mainQueue,      \* softsim_task_queue[SOFTSIM_MAIN_TASK_ID]
    cosQueue,       \* softsim_task_queue[SOFTSIM_COS_TASK_ID]
    main,           \* the event MAIN has in hand
    cos,            \* the job COS has in hand
    coreOn,         \* the card core is running
    stopped,        \* the library's semaphore that ends stop_cos_thread_nosave
    soft_sim_rst,   \* count of the reset semaphore
    soft_sim_data,  \* count of the data semaphore
    g_rx_data,      \* the command whose answer the shared buffer holds
    ctl,            \* where connect_modem / disconnect_modem stands
    live,           \* the QMI client is registered
    told,           \* events sent to the modem since qmi_client_init
    sent,           \* number of command APDUs the modem has sent
    resp,           \* the command whose answer the callback's own resp holds
    replies         \* pairs <<command, command the reply was computed for>>

card     == <<card_state, card_slot, atrlen>>
pipes    == <<mainQueue, cosQueue>>
core     == <<cos, coreOn, stopped>>
sync     == <<soft_sim_rst, soft_sim_data, g_rx_data>>
session  == <<ctl, live, told>>
traffic  == <<sent, resp, replies>>
vars     == <<card, handler, pipes, main, core, sync, session, traffic>>

CardStates == {"DISCONNECTED", "CONNECTED", "POWERED"}
Inds       == {"none", "apdu", "connect", "disconnect", "power_up",
               "power_down", "reset"}
Resets     == {"connect", "power_up", "reset"}  \* may call softsim_rst_send
Apdus      == 0 .. MaxApdu
MainEvents == [kind : {"timer", "reset", "apdu", "resetDone", "apduDone"},
               n : Apdus]
CosJobs    == [kind : {"reset", "apdu", "stop"}, n : Apdus]
Events     == {"available", "inserted", "atr", "removed", "unavailable"}

Event(k, n) == [kind |-> k, n |-> n]
Idle        == Event("idle", 0)
Returned    == [pc |-> "idle", ind |-> "none", n |-> 0]

\* qurt_pipe_send blocks while the pipe is full.
Room(q)     == Len(q) < QueueSize

\* A request sent through a released or failed client reaches nobody.
Tell(e)     == told' = IF live THEN told \cup {e} ELSE told

\* MAIN may also be inside connect_modem, or about to give the data semaphore.
MainHolds   == MainEvents \cup [kind : {"idle", "ready", "give"}, n : Apdus]
CosHolds    == CosJobs \cup {Idle}
HandlerAt   == [pc : {"idle", "post", "wait", "write", "atr", "tell", "resp",
                      "reply"},
                ind : Inds, n : Apdus]
CtlAt       == {"off", "init", "setcard", "announce", "insert", "on",
                "stopcos", "stopping", "detach", "remove", "withdraw",
                "release", "drain"}

Available   == "available" \in told /\ "unavailable" \notin told
Attached    == card_state \in {"CONNECTED", "POWERED"}

Init ==
    /\ card_state = "DISCONNECTED" /\ card_slot = NoSlot /\ atrlen = 0
    /\ handler = Returned
    /\ mainQueue = <<>> /\ cosQueue = <<>>
    /\ main = Idle
    /\ cos = Idle /\ coreOn = FALSE /\ stopped = 0
    /\ soft_sim_rst = 0 /\ soft_sim_data = 0 /\ g_rx_data = 0
    /\ ctl = "off" /\ live = FALSE /\ told = {}
    /\ sent = 0 /\ resp = 0 /\ replies = {}

------------------------------------------------------------------------------
(* uim_remote_ind_cb.  An indication that fails to decode or names another  *)
(* slot is rejected by the same condition; where rejection changes nothing  *)
(* it is no step.                                                           *)

MayIndicate == live /\ handler.pc = "idle" /\ (Eager \/ Available)

Enter(pc, ind, n) == handler' = [pc |-> pc, ind |-> ind, n |-> n]

ApduInd(slot) ==
    /\ MayIndicate
    /\ card_slot = slot /\ Attached
    /\ sent < MaxApdu
    /\ sent' = sent + 1
    /\ Enter("post", "apdu", sent + 1)
    /\ UNCHANGED <<card, pipes, main, core, sync, session, resp, replies>>

\* Faulty: CONNECT accepted without a reset of the core.
ConnectIndNoReset(slot) ==
    /\ MayIndicate
    /\ Enter(IF card_slot = slot /\ card_state = "DISCONNECTED"
             THEN "write" ELSE "atr", "connect", 0)
    /\ UNCHANGED <<card, pipes, main, core, sync, session, traffic>>

\* The ATR is offered after every CONNECT, an accepted one or not.
ConnectInd(slot) ==
    /\ MayIndicate
    /\ Enter(IF card_slot = slot /\ card_state = "DISCONNECTED"
             THEN "post" ELSE "atr", "connect", 0)
    /\ UNCHANGED <<card, pipes, main, core, sync, session, traffic>>

DisconnectInd(slot) ==
    /\ MayIndicate
    /\ card_slot = slot /\ card_state = "CONNECTED"
    /\ Enter("write", "disconnect", 0)
    /\ UNCHANGED <<card, pipes, main, core, sync, session, traffic>>

\* CARD_POWER_UP and CARD_RESET: the core is reset only from CONNECTED.
PowerInd(ind, slot) ==
    /\ MayIndicate
    /\ card_slot = slot /\ Attached
    /\ Enter(IF card_state = "CONNECTED" THEN "post" ELSE "atr", ind, 0)
    /\ UNCHANGED <<card, pipes, main, core, sync, session, traffic>>

PowerDownInd(slot) ==
    /\ MayIndicate
    /\ card_slot = slot /\ card_state = "POWERED"
    /\ Enter("write", "power_down", 0)
    /\ UNCHANGED <<card, pipes, main, core, sync, session, traffic>>

Indication ==
    \E slot \in Slots :
        \/ ApduInd(slot)
        \/ ConnectInd(slot)
        \/ DisconnectInd(slot)
        \/ \E ind \in {"power_up", "reset"} : PowerInd(ind, slot)
        \/ PowerDownInd(slot)

\* Faulty: the handler may send its request again before it waits.
PostTwice ==
    /\ handler.pc = "post"
    /\ Room(mainQueue)
    /\ mainQueue' = Append(mainQueue,
           IF handler.ind = "apdu" THEN Event("apdu", handler.n)
                                   ELSE Event("reset", 0))
    /\ handler' \in {handler, [handler EXCEPT !.pc = "wait"]}
    /\ UNCHANGED <<card, cosQueue, main, core, sync, session, traffic>>

\* Faulty: the handler returns without waiting, free for the next one.
PostNoWait ==
    /\ handler.pc = "post"
    /\ Room(mainQueue)
    /\ mainQueue' = Append(mainQueue,
           IF handler.ind = "apdu" THEN Event("apdu", handler.n)
                                   ELSE Event("reset", 0))
    /\ handler' = Returned
    /\ UNCHANGED <<card, cosQueue, main, core, sync, session, traffic>>

\* softsim_apdu_send and softsim_rst_send
Post ==
    /\ handler.pc = "post"
    /\ Room(mainQueue)
    /\ mainQueue' = Append(mainQueue,
           IF handler.ind = "apdu" THEN Event("apdu", handler.n)
                                   ELSE Event("reset", 0))
    /\ handler' = [handler EXCEPT !.pc = "wait"]
    /\ UNCHANGED <<card, cosQueue, main, core, sync, session, traffic>>

\* Faulty: softsim_sem_get called with SOFTSIM_NO_WAIT.
TakeRstNoWait ==
    /\ handler.pc = "wait" /\ handler.ind \in Resets
    /\ soft_sim_rst' = IF soft_sim_rst > 0 THEN soft_sim_rst - 1 ELSE 0
    /\ handler' = [handler EXCEPT !.pc = "write"]
    /\ UNCHANGED <<card, pipes, main, core, soft_sim_data, g_rx_data, session,
                   traffic>>

TakeRst ==
    /\ handler.pc = "wait" /\ handler.ind \in Resets
    /\ soft_sim_rst > 0
    /\ soft_sim_rst' = soft_sim_rst - 1
    /\ handler' = [handler EXCEPT !.pc = "write"]
    /\ UNCHANGED <<card, pipes, main, core, soft_sim_data, g_rx_data, session,
                   traffic>>

\* Faulty: so too here.
TakeDataNoWait ==
    /\ handler.pc = "wait" /\ handler.ind = "apdu"
    /\ soft_sim_data' = IF soft_sim_data > 0 THEN soft_sim_data - 1 ELSE 0
    /\ handler' = [handler EXCEPT !.pc = "resp"]
    /\ UNCHANGED <<card, pipes, main, core, soft_sim_rst, g_rx_data, session,
                   traffic>>

TakeData ==
    /\ handler.pc = "wait" /\ handler.ind = "apdu"
    /\ soft_sim_data > 0
    /\ soft_sim_data' = soft_sim_data - 1
    /\ handler' = [handler EXCEPT !.pc = "resp"]
    /\ UNCHANGED <<card, pipes, main, core, soft_sim_rst, g_rx_data, session,
                   traffic>>

\* The state the handler writes, long after it read the one it decided on.
NextState(ind) ==
    CASE ind = "disconnect"              -> "DISCONNECTED"
      [] ind \in {"connect", "power_down"} -> "CONNECTED"
      [] OTHER                           -> "POWERED"

\* Faulty: the length of the ATR is never set.
WriteStateNoAtr ==
    /\ handler.pc = "write"
    /\ card_state' = NextState(handler.ind)
    /\ handler' = IF handler.ind \in Resets
                  THEN [handler EXCEPT !.pc = "atr"] ELSE Returned
    /\ UNCHANGED <<card_slot, atrlen, pipes, main, core, sync, session, traffic>>

WriteState ==
    /\ handler.pc = "write"
    /\ card_state' = NextState(handler.ind)
    /\ atrlen' = IF handler.ind \in Resets THEN 18 ELSE atrlen
    /\ handler' = IF handler.ind \in Resets
                  THEN [handler EXCEPT !.pc = "atr"] ELSE Returned
    /\ UNCHANGED <<card_slot, pipes, main, core, sync, session, traffic>>

\* uim_remote_send_atr: the check of card.state and of the length, ...
CheckAtr ==
    /\ handler.pc = "atr"
    /\ handler' = IF card_state = "POWERED" /\ atrlen # 0
                  THEN [handler EXCEPT !.pc = "tell"] ELSE Returned
    /\ UNCHANGED <<card, pipes, main, core, sync, session, traffic>>

\* ... and the event.
SendAtr ==
    /\ handler.pc = "tell"
    /\ Tell("atr")
    /\ handler' = Returned
    /\ UNCHANGED <<card, pipes, main, core, sync, ctl, live, traffic>>

\* Faulty: the answer is sent from CONNECTED only.
CheckRespConnected ==
    /\ handler.pc = "resp"
    /\ resp' = g_rx_data
    /\ handler' = IF card_state = "CONNECTED"
                  THEN [handler EXCEPT !.pc = "reply"] ELSE Returned
    /\ UNCHANGED <<card, pipes, main, core, sync, session, sent, replies>>

\* Faulty: uim_remote_send_resp without its check of card.state.
CheckRespAlways ==
    /\ handler.pc = "resp"
    /\ resp' = g_rx_data
    /\ handler' = [handler EXCEPT !.pc = "reply"]
    /\ UNCHANGED <<card, pipes, main, core, sync, session, sent, replies>>

\* The answer is copied out of the shared buffer, then uim_remote_send_resp
\* checks card.state, ...
CheckResp ==
    /\ handler.pc = "resp"
    /\ resp' = g_rx_data
    /\ handler' = IF card_state = "POWERED"
                  THEN [handler EXCEPT !.pc = "reply"] ELSE Returned
    /\ UNCHANGED <<card, pipes, main, core, sync, session, sent, replies>>

\* ... and uim_remote_apdu_resp sends the answer to the command of the
\* indication, whatever has become of the card since.
SendResp ==
    /\ handler.pc = "reply"
    /\ replies' = IF live THEN replies \cup {<<handler.n, resp>>} ELSE replies
    /\ handler' = Returned
    /\ UNCHANGED <<card, pipes, main, core, sync, session, sent, resp>>

HandlerStep ==
    Post \/ TakeRst \/ TakeData \/ WriteState \/ CheckAtr \/ SendAtr
    \/ CheckResp \/ SendResp

------------------------------------------------------------------------------
(* The timer callback, and the MAIN and COS tasks.                          *)

\* vTimerCallback
Tick ==
    /\ Room(mainQueue)
    /\ mainQueue' = Append(mainQueue, Event("timer", 0))
    /\ UNCHANGED <<card, handler, cosQueue, main, core, sync, session, traffic>>

\* softsim_get_event_for_user(SOFTSIM_MAIN_TASK_ID)
MainGet ==
    /\ main = Idle /\ mainQueue # <<>>
    /\ main' = Head(mainQueue)
    /\ mainQueue' = Tail(mainQueue)
    /\ UNCHANGED <<card, handler, cosQueue, core, sync, session, traffic>>

MainTimer ==
    /\ main.kind = "timer"
    /\ main' = Idle
    /\ UNCHANGED <<card, handler, pipes, core, sync, session, traffic>>

\* The library reports "ready": softsim_event runs start_sw_sim on MAIN.
MainReady ==
    /\ main.kind = "timer" /\ ctl = "off"
    /\ main' = Event("ready", 0)
    /\ ctl' = "init"
    /\ UNCHANGED <<card, handler, pipes, core, sync, live, told, traffic>>

\* A request of the modem is handed to the core through the COS pipe.
MainDispatch ==
    /\ main.kind \in {"reset", "apdu"}
    /\ Room(cosQueue)
    /\ cosQueue' = Append(cosQueue, main)
    /\ main' = Idle
    /\ UNCHANGED <<card, handler, mainQueue, core, sync, session, traffic>>

\* Faulty: the confirmation gives the semaphore twice.
ResetCnfTwice ==
    /\ main.kind = "resetDone"
    /\ soft_sim_rst' = soft_sim_rst + 2
    /\ main' = Idle
    /\ UNCHANGED <<card, handler, pipes, core, soft_sim_data, g_rx_data,
                   session, traffic>>

\* Faulty: the confirmation does not give the semaphore.
ResetCnfLost ==
    /\ main.kind = "resetDone"
    /\ main' = Idle
    /\ UNCHANGED <<card, handler, pipes, core, sync, session, traffic>>

\* softsim_SendSIMCardResetCnfToModem
ResetCnf ==
    /\ main.kind = "resetDone"
    /\ soft_sim_rst' = soft_sim_rst + 1
    /\ main' = Idle
    /\ UNCHANGED <<card, handler, pipes, core, soft_sim_data, g_rx_data,
                   session, traffic>>

\* softsim_SoftSendAPDUCnfToModem fills the shared buffer, ...
ApduCnf ==
    /\ main.kind = "apduDone"
    /\ g_rx_data' = main.n
    /\ main' = Event("give", main.n)
    /\ UNCHANGED <<card, handler, pipes, core, soft_sim_rst, soft_sim_data,
                   session, traffic>>

\* Faulty: the data semaphore is not given.
GiveDataLost ==
    /\ main.kind = "give"
    /\ main' = Idle
    /\ UNCHANGED <<card, handler, pipes, core, sync, session, traffic>>

\* ... then gives the data semaphore.
GiveData ==
    /\ main.kind = "give"
    /\ soft_sim_data' = soft_sim_data + 1
    /\ main' = Idle
    /\ UNCHANGED <<card, handler, pipes, core, soft_sim_rst, g_rx_data,
                   session, traffic>>

MainStep ==
    MainGet \/ MainTimer \/ MainReady \/ MainDispatch \/ ResetCnf \/ ApduCnf
    \/ GiveData

\* softsim_get_event_for_user(SOFTSIM_COS_TASK_ID)
CosGet ==
    /\ cos = Idle /\ cosQueue # <<>>
    /\ cos' = Head(cosQueue)
    /\ cosQueue' = Tail(cosQueue)
    /\ UNCHANGED <<card, handler, mainQueue, main, coreOn, stopped, sync,
                   session, traffic>>

\* The core is done and tells MAIN with softsim_send_msg_to_user.
CosNotify ==
    /\ cos.kind \in {"reset", "apdu"}
    /\ Room(mainQueue)
    /\ mainQueue' = Append(mainQueue,
           IF cos.kind = "reset" THEN Event("resetDone", 0)
                                 ELSE Event("apduDone", cos.n))
    /\ coreOn' = (coreOn \/ cos.kind = "reset")
    /\ cos' = Idle
    /\ UNCHANGED <<card, handler, cosQueue, main, stopped, sync, session,
                   traffic>>

CosStop ==
    /\ cos.kind = "stop"
    /\ coreOn' = FALSE
    /\ stopped' = stopped + 1
    /\ cos' = Idle
    /\ UNCHANGED <<card, handler, pipes, main, sync, session, traffic>>

CosStep == CosGet \/ CosNotify \/ CosStop

------------------------------------------------------------------------------
(* connect_modem                                                            *)

\* start_sw_sim called by the AT thread
AtStart ==
    /\ ctl = "off"
    /\ ctl' = "init"
    /\ UNCHANGED <<card, handler, pipes, main, core, sync, live, told, traffic>>

\* qmi_client_init registers the callback; its failure is not acted upon.
ClientInit ==
    /\ ctl = "init"
    /\ live' \in BOOLEAN
    /\ told' = {}
    /\ ctl' = "setcard"
    /\ UNCHANGED <<card, handler, pipes, main, core, sync, traffic>>

\* Faulty: card.state keeps what the session before left in it.
SetCardSlotOnly ==
    /\ ctl = "setcard"
    /\ card_slot' = CardSlot
    /\ ctl' = "announce"
    /\ UNCHANGED <<card_state, atrlen, handler, pipes, main, core, sync, live,
                   told, traffic>>

SetCard ==
    /\ ctl = "setcard"
    /\ card_state' = "DISCONNECTED"
    /\ card_slot' = CardSlot
    /\ ctl' = "announce"
    /\ UNCHANGED <<atrlen, handler, pipes, main, core, sync, live, told, traffic>>

\* uim_remote_connect_card
ConnectCard ==
    /\ ctl = "announce"
    /\ IF card_state = "DISCONNECTED" THEN Tell("available")
                                      ELSE UNCHANGED told
    /\ ctl' = "insert"
    /\ UNCHANGED <<card, handler, pipes, main, core, sync, live, traffic>>

\* CARD_INSERTED, and connect_modem returns: MAIN goes back to its pipe.
InsertCard ==
    /\ ctl = "insert"
    /\ Tell("inserted")
    /\ ctl' = "on"
    /\ main' = IF main.kind = "ready" THEN Idle ELSE main
    /\ UNCHANGED <<card, handler, pipes, core, sync, live, traffic>>

ConnectStep == ClientInit \/ SetCard \/ ConnectCard \/ InsertCard

------------------------------------------------------------------------------
(* disconnect_modem, called by the AT thread                                *)

AtStop ==
    /\ ctl = "on"
    /\ ctl' = IF card_state = "POWERED" THEN "stopcos" ELSE "remove"
    /\ UNCHANGED <<card, handler, pipes, main, core, sync, live, told, traffic>>

\* stop_cos_thread_nosave posts to the COS pipe and waits.
StopCos ==
    /\ ctl = "stopcos"
    /\ Room(cosQueue)
    /\ cosQueue' = Append(cosQueue, Event("stop", 0))
    /\ ctl' = "stopping"
    /\ UNCHANGED <<card, handler, mainQueue, main, core, sync, live, told,
                   traffic>>

StoppedCos ==
    /\ ctl = "stopping"
    /\ stopped > 0
    /\ stopped' = stopped - 1
    /\ ctl' = "detach"
    /\ UNCHANGED <<card, handler, pipes, main, cos, coreOn, sync, live, told,
                   traffic>>

Detach ==
    /\ ctl = "detach"
    /\ card_state' = "CONNECTED"
    /\ ctl' = "remove"
    /\ UNCHANGED <<card_slot, atrlen, handler, pipes, main, core, sync, live,
                   told, traffic>>

RemoveCard ==
    /\ ctl = "remove"
    /\ Tell("removed")
    /\ ctl' = "withdraw"
    /\ UNCHANGED <<card, handler, pipes, main, core, sync, live, traffic>>

\* uim_remote_disconnect_card
DisconnectCard ==
    /\ ctl = "withdraw"
    /\ IF card_state # "DISCONNECTED" THEN Tell("unavailable")
                                      ELSE UNCHANGED told
    /\ ctl' = "release"
    /\ UNCHANGED <<card, handler, pipes, main, core, sync, live, traffic>>

\* qmi_client_release: no more callbacks, ...
Release ==
    /\ ctl = "release"
    /\ live' = FALSE
    /\ ctl' = "drain"
    /\ UNCHANGED <<card, handler, pipes, main, core, sync, told, traffic>>

\* Faulty: the release does not wait for the running callback.
ReleasedEarly ==
    /\ ctl = "drain"
    /\ ctl' = "off"
    /\ UNCHANGED <<card, handler, pipes, main, core, sync, live, told, traffic>>

\* ... and it returns when the callback that was running has returned.
Released ==
    /\ ctl = "drain"
    /\ handler.pc = "idle"
    /\ ctl' = "off"
    /\ UNCHANGED <<card, handler, pipes, main, core, sync, live, told, traffic>>

StopStep ==
    StopCos \/ StoppedCos \/ Detach \/ RemoveCard \/ DisconnectCard \/ Release
    \/ Released

------------------------------------------------------------------------------
Next ==
    \/ Indication \/ HandlerStep
    \/ Tick \/ MainStep \/ CosStep
    \/ AtStart \/ ConnectStep \/ AtStop \/ StopStep

(* The threads are scheduled forever.  A blocking pipe send competes with   *)
(* the other senders of the pipe and is served when room keeps appearing.   *)
Fairness ==
    /\ SF_vars(HandlerStep)
    /\ WF_vars(MainStep)
    /\ SF_vars(CosStep)
    /\ WF_vars(ConnectStep)
    /\ SF_vars(StopStep)

Safety == Init /\ [][Next]_vars
Spec   == Safety /\ Fairness

------------------------------------------------------------------------------
(* Type invariant: what each variable may hold. *)
TypeOK ==
    /\ card_state \in CardStates
    /\ card_slot \in {NoSlot, CardSlot}
    /\ atrlen \in {0, 18}
    /\ handler \in HandlerAt
    /\ mainQueue \in Seq(MainEvents) /\ Len(mainQueue) <= QueueSize
    /\ cosQueue \in Seq(CosJobs) /\ Len(cosQueue) <= QueueSize
    /\ main \in MainHolds
    /\ cos \in CosHolds
    /\ coreOn \in BOOLEAN
    /\ stopped \in {0, 1}
    /\ soft_sim_rst \in {0, 1} /\ soft_sim_data \in {0, 1}
    /\ g_rx_data \in Apdus
    /\ ctl \in CtlAt
    /\ live \in BOOLEAN
    /\ told \subseteq Events
    /\ sent \in Apdus /\ resp \in Apdus
    /\ replies \subseteq Apdus \X Apdus

------------------------------------------------------------------------------
(* Where a request of the modem can be, from softsim_rst_send or             *)
(* softsim_apdu_send until the handler takes the semaphore.                  *)

InMainQueue == \E i \in DOMAIN mainQueue : mainQueue[i].kind # "timer"
InCosQueue  == \E i \in DOMAIN cosQueue : cosQueue[i].kind # "stop"
AtMain      == main.kind \in {"reset", "apdu", "resetDone", "apduDone", "give"}
AtCos       == cos.kind \in {"reset", "apdu"}
Given       == soft_sim_rst = 1 \/ soft_sim_data = 1

(* One request in flight: while the handler is blocked its request or the    *)
(* confirmation of it is in exactly one place, and when it is not blocked    *)
(* there is none and both semaphores are 0.  So no thread finds a token or   *)
(* a confirmation that an earlier indication left behind.                    *)
OneInMainQueue ==
    \A i, j \in DOMAIN mainQueue :
        mainQueue[i].kind # "timer" /\ mainQueue[j].kind # "timer" => i = j
OneInCosQueue ==
    \A i, j \in DOMAIN cosQueue :
        cosQueue[i].kind # "stop" /\ cosQueue[j].kind # "stop" => i = j
OneRequest ==
    /\ handler.pc = "wait" <=>
           (InMainQueue \/ AtMain \/ InCosQueue \/ AtCos \/ Given)
    /\ InMainQueue => ~AtMain /\ ~InCosQueue /\ ~AtCos /\ ~Given
    /\ AtMain      => ~InCosQueue /\ ~AtCos /\ ~Given
    /\ InCosQueue  => ~AtCos /\ ~Given
    /\ AtCos       => ~Given
    /\ ~(soft_sim_rst = 1 /\ soft_sim_data = 1)
    /\ OneInMainQueue
    /\ OneInCosQueue

(* The answer that uim_remote_ind_cb copies out of the one shared buffer     *)
(* g_rx_data, after the semaphore, is the answer to the very command the     *)
(* indication carried.                                                      *)
ResponseMatches == \A r \in replies : r[1] = r[2]

(* Who can take a step on its own, by the guards above.  MAIN inside          *)
(* connect_modem goes on with it.                                           *)
HandlerCan ==
    \/ handler.pc = "post" /\ Room(mainQueue)
    \/ handler.pc = "wait" /\ handler.ind \in Resets /\ soft_sim_rst > 0
    \/ handler.pc = "wait" /\ handler.ind = "apdu" /\ soft_sim_data > 0
    \/ handler.pc \in {"write", "atr", "tell", "resp", "reply"}
MainCan ==
    \/ main = Idle /\ mainQueue # <<>>
    \/ main.kind \in {"timer", "resetDone", "apduDone", "give"}
    \/ main.kind \in {"reset", "apdu"} /\ Room(cosQueue)
    \/ main.kind = "ready" /\ ctl \in {"init", "setcard", "announce", "insert"}
CosCan ==
    \/ cos = Idle /\ cosQueue # <<>>
    \/ cos.kind \in {"reset", "apdu"} /\ Room(mainQueue)
    \/ cos.kind = "stop"

(* No thread waits in a ring: whoever is blocked, by a full pipe, by a        *)
(* semaphore or by the running callback, waits for a thread that can go on.  *)
(* The pipes alone make a ring (callback to MAIN to COS to MAIN), and        *)
(* disconnect_modem waits for the callback, which waits for both.            *)
NoCircularWait ==
    /\ handler.pc \in {"post", "wait"} => HandlerCan \/ MainCan \/ CosCan
    /\ cos.kind \in {"reset", "apdu"} => CosCan \/ MainCan
    /\ main.kind \in {"reset", "apdu"} => MainCan \/ CosCan
    /\ ctl = "stopcos" => Room(cosQueue) \/ CosCan \/ MainCan
    /\ ctl = "stopping" => stopped = 1 \/ CosCan \/ MainCan
    /\ ctl = "drain" => handler.pc = "idle" \/ HandlerCan \/ CosCan \/ MainCan

(* How far the request of the blocked callback still has to go, and its place *)
(* in the pipe it is in.  A request that is nowhere is furthest from its end. *)
Queued(kinds) == \E i \in DOMAIN mainQueue : mainQueue[i].kind \in kinds
Stage ==
    CASE Queued({"reset", "apdu"})                 -> 7
      [] main.kind \in {"reset", "apdu"}           -> 6
      [] InCosQueue                                -> 5
      [] AtCos                                     -> 4
      [] Queued({"resetDone", "apduDone"})         -> 3
      [] main.kind \in {"resetDone", "apduDone"}   -> 2
      [] main.kind = "give"                        -> 1
      [] Given                                     -> 0
      [] OTHER                                     -> 8
Place ==
    CASE InMainQueue -> CHOOSE i \in DOMAIN mainQueue :
                            mainQueue[i].kind # "timer"
      [] InCosQueue  -> CHOOSE i \in DOMAIN cosQueue :
                            cosQueue[i].kind # "stop"
      [] OTHER       -> 0

(* No step of any thread sets a request back or loses it: the timer, the stop *)
(* of the core and a start of the card come behind it in the pipes or pass   *)
(* it by.  Only the callback takes it off the way, with the semaphore.       *)
(* With NoCircularWait this is why HandlerReturns holds.                     *)
RequestAdvances ==
    [][handler.pc = "wait" /\ handler'.pc = "wait"
          => Stage' < Stage \/ (Stage' = Stage /\ Place' <= Place)]_vars

(* The one buffer g_rx_data is not written again before the callback has      *)
(* copied the answer out of it, from the semaphore on.  This is what         *)
(* ApduCodec takes for granted.                                             *)
AnswerHeld ==
    [][soft_sim_data = 1 \/ handler.pc = "resp"
          => g_rx_data' = g_rx_data]_vars

(* MAIN never blocks in its own pipe sends: the pipes hold SOFTSIM_QUEUE_SIZE *)
(* elements and at most one request and one stop are in the COS pipe, so     *)
(* MAIN, which alone drains the pipe that the COS task, the handler and the  *)
(* timer block on, keeps draining it.                                       *)
MainNeverBlocks ==
    QueueSize >= 2 => (main.kind \in {"reset", "apdu"} => Room(cosQueue))

(* Once connect_modem has returned and until the AT thread stops the card, a *)
(* card the modem may send APDUs to (CONNECTED or POWERED) has a running     *)
(* core, even though POWER_DOWN, RESET and a repeated CONNECT do not touch   *)
(* the core and the previous session may have stopped it.                   *)
AttachedCoreOn == ctl = "on" /\ Attached => coreOn

(* A registered client that is on has told the modem CONNECTION_AVAILABLE,   *)
(* although uim_remote_connect_card says so only if it finds card.state      *)
(* DISCONNECTED and the session before left the state where it was.         *)
AnnouncedWhenOn == ctl = "on" /\ live => Available

(* A powered card has sent its ATR by the time the callback is over: the     *)
(* state check and the length check of uim_remote_send_atr do not drop the   *)
(* only ATR of the session.                                                 *)
PoweredToldAtr ==
    ctl = "on" /\ live /\ card_state = "POWERED" /\ handler.pc = "idle"
        => "atr" \in told

(* When "ready" runs connect_modem on MAIN, the modem cannot get the card    *)
(* beyond DISCONNECTED before CARD_INSERTED is sent, since the reset it      *)
(* needs is served by MAIN itself: INSERTED comes before the ATR.  (Run by   *)
(* the AT thread, connect_modem has no such order.)                         *)
ReadyConnectQuiet ==
    main.kind = "ready" /\ ctl \in {"setcard", "announce", "insert"}
        => "atr" \notin told

(* While no connect or disconnect is under way the card state moves one      *)
(* rung at a time between DISCONNECTED, CONNECTED and POWERED, although the  *)
(* handler writes it long after the check it decided on.                    *)
OneRung(s, t) == {s, t} \in {{"DISCONNECTED", "CONNECTED"},
                             {"CONNECTED", "POWERED"}}
StateLadder ==
    [][ctl = "on" /\ card_state' # card_state
          => OneRung(card_state, card_state')]_vars

(* uim_remote_ind_cb returns: neither semaphore wait is for ever, whatever   *)
(* the timer puts in the pipes and whenever the card is stopped.            *)
HandlerReturns == handler.pc # "idle" ~> handler.pc = "idle"

(* disconnect_modem returns, although qmi_client_release waits for the       *)
(* callback, which waits for MAIN, which waits for COS.                     *)
StopCompletes == ctl = "stopcos" \/ ctl = "remove" ~> ctl = "off"

(* An answer leaves a card that is not POWERED only while the card is being   *)
(* stopped: uim_remote_send_resp reads card.state before uim_remote_apdu_resp *)
(* sends, and disconnect_modem may take the card down in between, but no new  *)
(* session finds an answer of the one before still on its way.                *)
AnswersPowered ==
    handler.pc = "reply" /\ card_state # "POWERED"
        => ctl \in {"remove", "withdraw", "release", "drain"}

(* A command that a POWERED card accepts is answered with its own answer,    *)
(* unless the AT thread stops the card meanwhile.                           *)
PoweredApduAnswered ==
    \A a \in 1 .. MaxApdu :
        (/\ handler.ind = "apdu" /\ handler.n = a
         /\ card_state = "POWERED" /\ live)
            ~> (<<a, a>> \in replies \/ ctl # "on")

------------------------------------------------------------------------------
(* The relay implements the service the modem is promised.                  *)
Pending == IF handler.ind = "apdu" THEN handler.n ELSE 0

Service == INSTANCE RemoteSim WITH card     <- card_state,
                                   asked    <- sent,
                                   pending  <- Pending,
                             passed   <- handler.pc = "reply",
                                   answered <- replies

(* One command at a time, answered once with its own answer after the card    *)
(* was found powered, or dropped, and never left hanging.                    *)
ImplementsService == Service!ServiceSpec
==============================================================================
