------------------------------ MODULE ApduCodec ------------------------------
(***************************************************************************)
(* The bytes of a command and of its answer on their way through the        *)
(* buffers of the relay:                                                    *)
(*                                                                         *)
(*   command_apdu -> tx_data -> SOFTSIM_EVENT_SIM_APDU_DATA_IND -> core     *)
(*   core -> SIMCARDAPDU_DATA -> g_rx_data -> resp -> APDU request          *)
(*                                                                         *)
(* g_rx_data is one global buffer that every answer overwrites in part; the *)
(* status word leaves the answer as two bytes, travels as one number and    *)
(* becomes two bytes again; the request that carries the answer is          *)
(* allocated, and one return does not free it.  That an answer is read      *)
(* before the next one is written is the handshake of SimRelay; here they   *)
(* alternate.                                                               *)
(*                                                                         *)
(* External: the modem's commands have at most CommandMax bytes, which fit  *)
(* in txData (nothing in the code checks that); the core's answers end in a *)
(* status word and fit in a_RData; an answer fits in a segment, which is    *)
(* also the size of resp.                                                   *)
(***************************************************************************)
EXTENDS Integers, Sequences

CONSTANTS
    Bytes,          \* values of a byte that occur, within 0 .. 255
    CommandMax,     \* longest command of the modem
    TxSize,         \* size of txData: 261
    RxSize,         \* size of rxData: 261
    AnswerMax,      \* size of a_RData: 258
    SegmentMax,     \* QMI_UIM_REMOTE_MAX_RESPONSE_APDU_SEGMENT_LEN_V01
    MaxCommands     \* bound: commands in a run

Octet == 0 .. 255                   \* uint8
Word  == {n \in Nat : n < 65536}    \* uint16

ASSUME BytesAssumption == Bytes \subseteq Octet
ASSUME SizeAssumption ==
    /\ CommandMax \in Nat /\ TxSize \in Nat /\ CommandMax <= TxSize
    /\ AnswerMax \in Nat /\ RxSize \in Nat /\ AnswerMax <= RxSize
    /\ SegmentMax \in Nat /\ AnswerMax <= SegmentMax
    /\ MaxCommands \in Nat

VARIABLES
    command,    \* what the modem sent
    tx,         \* [data, size]: SoftsimAPDU_Tx_Data_st as the core gets it
    answer,     \* what the core returned: the v_len bytes of a_RData
    rx,         \* [data, size, sw]: g_rx_data
    sent,       \* the answer sent for this command
    outcome,    \* "none" so far, "sent", "failed" or "refused"
    pc,         \* "idle", "core", "respond"
    heap,       \* requests allocated and not freed
    commands    \* commands so far

vars == <<command, tx, answer, rx, sent, outcome, pc, heap, commands>>

Strings(max) == UNION {[1 .. n -> Bytes] : n \in 0 .. max}
Answers      == {a \in Strings(AnswerMax) : Len(a) >= 2}

\* memcpy(to, from, n); bytes are counted from 1.
Memcpy(to, from, n) ==
    [i \in DOMAIN to |-> IF i \in 1 .. n THEN from[i] ELSE to[i]]

Zeros(n) == [i \in 1 .. n |-> 0]

Init ==
    /\ command = <<>> /\ tx = [data |-> Zeros(TxSize), size |-> 0]
    /\ answer = <<>>
    /\ rx = [data |-> Zeros(RxSize), size |-> 0, sw |-> 0]
    /\ sent = <<>> /\ outcome = "none" /\ pc = "idle"
    /\ heap = 0 /\ commands = 0

------------------------------------------------------------------------------
\* The callback copies the command into a zeroed tx_data and posts that.
Command(c) ==
    /\ pc = "idle" /\ commands < MaxCommands
    /\ commands' = commands + 1
    /\ command' = c
    /\ tx' = [data |-> Memcpy(Zeros(TxSize), c, Len(c)), size |-> Len(c)]
    /\ sent' = <<>> /\ outcome' = "none"
    /\ pc' = "core"
    /\ UNCHANGED <<answer, rx, heap>>

\* What g_rx_data holds when the data are a's first n bytes.
Received(a, n, size, sw) ==
    [data |-> Memcpy(rx.data, a, n), size |-> size, sw |-> sw]

SW(a) == 256 * a[Len(a) - 1] + a[Len(a)]

\* Faulty: the size is set only when there are data.
ConfirmStaleSize(a) ==
    /\ pc = "core"
    /\ answer' = a
    /\ rx' = Received(a, Len(a) - 2,
                      IF Len(a) > 2 THEN Len(a) - 2 ELSE rx.size, SW(a))
    /\ pc' = "respond"
    /\ UNCHANGED <<command, tx, sent, outcome, heap, commands>>

\* Faulty: the status word is shifted by 16 bits.
ConfirmWide(a) ==
    /\ pc = "core"
    /\ answer' = a
    /\ rx' = Received(a, Len(a) - 2, Len(a) - 2,
                      65536 * a[Len(a) - 1] + a[Len(a)])
    /\ pc' = "respond"
    /\ UNCHANGED <<command, tx, sent, outcome, heap, commands>>

\* Faulty: the status word is counted among the data.
ConfirmWhole(a) ==
    /\ pc = "core"
    /\ answer' = a
    /\ rx' = Received(a, Len(a), Len(a), SW(a))
    /\ pc' = "respond"
    /\ UNCHANGED <<command, tx, sent, outcome, heap, commands>>

\* softsim_SoftSendAPDUCnfToModem: the status word is the last two bytes.
Confirm(a) ==
    /\ pc = "core"
    /\ answer' = a
    /\ rx' = Received(a, Len(a) - 2, Len(a) - 2, SW(a))
    /\ pc' = "respond"
    /\ UNCHANGED <<command, tx, sent, outcome, heap, commands>>

\* The callback copies the data and appends the two bytes of the status word.
Resp == [i \in 1 .. rx.size + 2 |->
            CASE i <= rx.size    -> rx.data[i]
              [] i = rx.size + 1 -> (rx.sw \div 256) % 256
              [] i = rx.size + 2 -> rx.sw % 256]

\* uim_remote_send_resp, uim_remote_apdu_resp: nothing is sent for a card that
\* is not powered or when malloc fails; the answer is one segment, or it is
\* refused by a return that does not free the request.
Respond ==
    /\ pc = "respond"
    /\ \/ outcome' = "failed" /\ UNCHANGED <<sent, heap>>
       \/ IF rx.size + 2 <= SegmentMax
             THEN outcome' = "sent" /\ sent' = Resp /\ UNCHANGED heap
             ELSE outcome' = "refused" /\ heap' = heap + 1 /\ UNCHANGED sent
    /\ pc' = "idle"
    /\ UNCHANGED <<command, tx, answer, rx, commands>>

Next ==
    \/ \E c \in Strings(CommandMax) : Command(c)
    \/ \E a \in Answers : Confirm(a)
    \/ Respond

Spec == Init /\ [][Next]_vars

------------------------------------------------------------------------------
(* Type invariant: what each variable may hold; the status word is a         *)
(* 16-bit number, the size is that of a part of the buffer.                  *)
TypeOK ==
    /\ command \in Strings(CommandMax)
    /\ tx \in [data : [1 .. TxSize -> Octet], size : 0 .. CommandMax]
    /\ answer \in Strings(AnswerMax)
    /\ rx \in [data : [1 .. RxSize -> Octet], size : 0 .. RxSize,
               sw : Word]
    /\ outcome \in {"none", "sent", "failed", "refused"}
    /\ pc \in {"idle", "core", "respond"}
    /\ heap \in Nat /\ commands \in 0 .. MaxCommands

(* An answer that is sent is the core's answer byte for byte: nothing of an  *)
(* earlier, longer answer in the buffer that both share, and the bytes of    *)
(* the status word in their order.                                          *)
AnswerIntact == outcome = "sent" => sent = answer

(* The return that leaves a request allocated is never taken: an answer of   *)
(* a core that fits in a_RData is not refused.                              *)
NothingLeaks == heap = 0 /\ outcome # "refused"
==============================================================================
