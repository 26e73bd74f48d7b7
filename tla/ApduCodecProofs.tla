--------------------------- MODULE ApduCodecProofs ---------------------------
(***************************************************************************)
(* Proofs about ApduCodec, for buffers of every size that satisfies         *)
(* SizeAssumption and for any number of commands.  While the callback has   *)
(* an answer to send, g_rx_data holds it: that is Held, and what was in the *)
(* buffer before no longer matters.                                         *)
(***************************************************************************)
EXTENDS ApduCodec, SequenceTheorems, TLAPS

(* What the callback will find in g_rx_data. *)
Held == pc = "respond" =>
    /\ answer \in Answers
    /\ rx.size = Len(answer) - 2 /\ rx.sw = SW(answer)
    /\ \A i \in 1 .. rx.size : rx.data[i] = answer[i]

(* One outcome for one command. *)
Sent == /\ pc # "idle" => outcome = "none"
        /\ outcome = "sent" => sent = answer

IInv == TypeOK /\ Held /\ Sent /\ NothingLeaks

\* A command or an answer is a sequence of bytes.
LEMMA StringsAreSequences ==
  ASSUME NEW max \in Nat, NEW s \in Strings(max)
  PROVE  s \in Seq(Bytes) /\ Len(s) \in 0 .. max /\ s \in [1 .. Len(s) -> Bytes]
<1>1. PICK n \in 0 .. max : s \in [1 .. n -> Bytes]
  BY DEF Strings
<1>2. s \in Seq(Bytes) /\ Len(s) = n
  BY <1>1, SeqDef, LenProperties
<1> QED
  BY <1>1, <1>2

\* memcpy into a buffer of bytes: the first n are the source's, the others stay.
LEMMA Copied ==
  ASSUME NEW size \in Nat, NEW to \in [1 .. size -> Octet],
         NEW from \in Seq(Bytes), NEW n \in 0 .. Len(from), n <= size
  PROVE  /\ Memcpy(to, from, n) \in [1 .. size -> Octet]
         /\ \A i \in 1 .. n : Memcpy(to, from, n)[i] = from[i]
         /\ \A i \in 1 .. size : i > n => Memcpy(to, from, n)[i] = to[i]
<1>1. \A i \in 1 .. n : i \in 1 .. Len(from)
  OBVIOUS
<1>2. \A i \in 1 .. n : from[i] \in Octet
  BY <1>1, ElementOfSeq, BytesAssumption
<1>3. Memcpy(to, from, n) =
        [i \in 1 .. size |-> IF i \in 1 .. n THEN from[i] ELSE to[i]]
  BY DEF Memcpy
<1>4. \A i \in 1 .. size : (IF i \in 1 .. n THEN from[i] ELSE to[i]) \in Octet
  BY <1>2
<1>5. Memcpy(to, from, n) \in [1 .. size -> Octet]
  BY <1>3, <1>4
<1>6. \A i \in 1 .. n : i \in 1 .. size
  OBVIOUS
<1>7. \A i \in 1 .. size : i > n => i \notin 1 .. n
  OBVIOUS
<1> QED
  BY <1>3, <1>5, <1>6, <1>7

\* Two bytes make a 16-bit number, from which they are taken again.
LEMMA StatusWord ==
  ASSUME NEW a \in Octet, NEW b \in Octet
  PROVE  /\ 256 * a + b \in Word
         /\ ((256 * a + b) \div 256) % 256 = a
         /\ (256 * a + b) % 256 = b
<1>1. a \in Int /\ b \in Int /\ 0 <= a /\ a <= 255 /\ 0 <= b /\ b <= 255
  BY DEF Octet
<1>2. 256 * a + b \in Nat /\ 256 * a + b < 65536
  BY ONLY <1>1
<1>3. 256 * a + b \in Word
  BY ONLY <1>2 DEF Word
<1>4. (256 * a + b) \div 256 = a
  BY ONLY <1>1, SMTT(30)
<1>5. (256 * a + b) % 256 = b
  BY ONLY <1>1, SMTT(30)
<1>6. a % 256 = a
  BY <1>1
<1> QED
  BY <1>3, <1>4, <1>5, <1>6

\* No command yet: the buffers are zeroed.
LEMMA InitIInv == Init => IInv
<1> SUFFICES ASSUME Init PROVE IInv
  OBVIOUS
<1>1. /\ Zeros(TxSize) \in [1 .. TxSize -> Octet]
      /\ Zeros(RxSize) \in [1 .. RxSize -> Octet]
  BY DEF Zeros, Octet
<1>2. << >> \in Strings(CommandMax) /\ << >> \in Strings(AnswerMax)
  <2>1. << >> \in [1 .. 0 -> Bytes]
    BY DEF Strings
  <2>2. 0 \in 0 .. CommandMax /\ 0 \in 0 .. AnswerMax
    BY SizeAssumption
  <2> QED
    BY <2>1, <2>2 DEF Strings
<1>3. 0 \in Word
  BY SMT DEF Word
<1>4. /\ tx \in [data : [1 .. TxSize -> Octet], size : 0 .. CommandMax]
      /\ rx \in [data : [1 .. RxSize -> Octet], size : 0 .. RxSize, sw : Word]
  BY <1>1, <1>3, SizeAssumption DEF Init
<1>5. TypeOK
  BY <1>2, <1>4, SizeAssumption DEF Init, TypeOK
<1> QED
  BY <1>5 DEF Init, IInv, Held, Sent, NothingLeaks

\* The modem's command is copied whole and measured anew.
LEMMA CommandStep ==
  ASSUME IInv, NEW c \in Strings(CommandMax), Command(c) PROVE IInv'
<1>1. c \in Seq(Bytes) /\ Len(c) \in 0 .. CommandMax
  BY StringsAreSequences, SizeAssumption
<1>2. Zeros(TxSize) \in [1 .. TxSize -> Octet]
  BY DEF Zeros, Octet
<1>3. Memcpy(Zeros(TxSize), c, Len(c)) \in [1 .. TxSize -> Octet]
  BY <1>1, <1>2, Copied, SizeAssumption
<1>4. tx' \in [data : [1 .. TxSize -> Octet], size : 0 .. CommandMax]
  BY <1>1, <1>3 DEF Command
<1>5. TypeOK'
  <2>1. commands' \in 0 .. MaxCommands
    BY SizeAssumption DEF Command, IInv, TypeOK
  <2> QED
    BY <1>4, <2>1 DEF Command, IInv, TypeOK
<1> QED
  BY <1>5 DEF Command, IInv, Held, Sent, NothingLeaks

\* The answer's data go over the first bytes of g_rx_data, its status word
\* beside them.
LEMMA ConfirmStep ==
  ASSUME IInv, NEW a \in Answers, Confirm(a) PROVE IInv'
<1>1. /\ a \in Strings(AnswerMax) /\ a \in Seq(Bytes) /\ Len(a) \in 2 .. AnswerMax
  BY StringsAreSequences, SizeAssumption DEF Answers
<1>2. SW(a) \in Word
  <2>1. Len(a) \in 1 .. Len(a) /\ Len(a) - 1 \in 1 .. Len(a)
    BY <1>1
  <2>2. a[Len(a) - 1] \in Octet /\ a[Len(a)] \in Octet
    BY <1>1, <2>1, ElementOfSeq, BytesAssumption
  <2> QED
    BY <2>2, StatusWord DEF SW
<1>3. /\ Memcpy(rx.data, a, Len(a) - 2) \in [1 .. RxSize -> Octet]
      /\ \A i \in 1 .. Len(a) - 2 : Memcpy(rx.data, a, Len(a) - 2)[i] = a[i]
  <2>1. rx.data \in [1 .. RxSize -> Octet]
    BY DEF IInv, TypeOK
  <2>2. Len(a) - 2 \in 0 .. Len(a) /\ Len(a) - 2 <= RxSize
    BY <1>1, SizeAssumption
  <2> QED
    BY <1>1, <2>1, <2>2, Copied, SizeAssumption
<1>4. /\ rx' = [data |-> Memcpy(rx.data, a, Len(a) - 2), size |-> Len(a) - 2,
                sw |-> SW(a)]
      /\ answer' = a /\ pc = "core" /\ pc' = "respond"
      /\ UNCHANGED <<command, tx, sent, outcome, heap, commands>>
  BY DEF Confirm, Received
<1>5. TypeOK'
  <2>1. Len(a) - 2 \in 0 .. RxSize
    BY <1>1, SizeAssumption
  <2>2. rx' \in [data : [1 .. RxSize -> Octet], size : 0 .. RxSize, sw : Word]
    BY <1>2, <1>3, <1>4, <2>1
  <2> QED
    BY <1>1, <1>4, <2>2 DEF IInv, TypeOK
<1>6. Held'
  BY <1>3, <1>4 DEF Held
<1> QED
  BY <1>4, <1>5, <1>6 DEF IInv, Sent, NothingLeaks

\* What the callback puts together is the answer again.
LEMMA RespIsAnswer ==
  ASSUME IInv, pc = "respond" PROVE Resp = answer /\ rx.size + 2 <= SegmentMax
<1>1. /\ answer \in Strings(AnswerMax) /\ answer \in Seq(Bytes)
      /\ Len(answer) \in 2 .. AnswerMax /\ answer \in [1 .. Len(answer) -> Bytes]
      /\ rx.size = Len(answer) - 2
      /\ \A i \in 1 .. rx.size : rx.data[i] = answer[i]
  BY StringsAreSequences, SizeAssumption DEF IInv, Held, Answers
<1>2. /\ (rx.sw \div 256) % 256 = answer[Len(answer) - 1]
      /\ rx.sw % 256 = answer[Len(answer)]
  <2>1. answer[Len(answer) - 1] \in Octet /\ answer[Len(answer)] \in Octet
    <3>1. Len(answer) \in 1 .. Len(answer) /\ Len(answer) - 1 \in 1 .. Len(answer)
      BY <1>1
    <3> QED
      BY <1>1, <3>1, ElementOfSeq, BytesAssumption
  <2>2. rx.sw = 256 * answer[Len(answer) - 1] + answer[Len(answer)]
    BY DEF IInv, Held, SW
  <2> QED
    BY <2>1, <2>2, StatusWord
<1>3. \A i \in 1 .. Len(answer) :
        answer[i] = CASE i <= rx.size    -> rx.data[i]
                      [] i = rx.size + 1 -> (rx.sw \div 256) % 256
                      [] i = rx.size + 2 -> rx.sw % 256
  <2> SUFFICES ASSUME NEW i \in 1 .. Len(answer)
               PROVE  answer[i] = CASE i <= rx.size    -> rx.data[i]
                                    [] i = rx.size + 1 -> (rx.sw \div 256) % 256
                                    [] i = rx.size + 2 -> rx.sw % 256
    OBVIOUS
  <2>1. CASE i <= rx.size
    BY <1>1, <2>1
  <2>2. CASE i = rx.size + 1
    <3>1. rx.size \in Int /\ Len(answer) \in Int
      BY <1>1
    <3>2. i = Len(answer) - 1
      BY <1>1, <2>2, <3>1
    <3>3. ~(i <= rx.size) /\ i # rx.size + 2
      BY ONLY <2>2, <3>1
    <3> QED
      BY <1>2, <2>2, <3>2, <3>3
  <2>3. CASE i = rx.size + 2
    BY <1>1, <1>2, <2>3
  <2> QED
    BY <1>1, <2>1, <2>2, <2>3
<1>4. rx.size + 2 = Len(answer)
  BY <1>1
<1>5. rx.size + 2 <= SegmentMax
  BY <1>1, SizeAssumption
<1>6. answer = [i \in 1 .. Len(answer) |-> answer[i]]
  BY <1>1
<1> QED
  BY <1>3, <1>4, <1>5, <1>6 DEF Resp

\* The answer is sent, or it is lost with the card or for want of memory.
LEMMA RespondStep ==
  ASSUME IInv, Respond PROVE IInv'
<1>1. /\ pc = "respond" /\ pc' = "idle"
      /\ UNCHANGED <<command, tx, answer, rx, commands>>
      /\ \/ outcome' = "failed" /\ UNCHANGED <<sent, heap>>
         \/ outcome' = "sent" /\ sent' = answer /\ UNCHANGED heap
  BY RespIsAnswer DEF Respond
<1> QED
  BY <1>1 DEF IInv, TypeOK, Held, Sent, NothingLeaks

(* The inductive invariant holds in every reachable state. *)
THEOREM Inductive == Spec => []IInv
<1>1. IInv /\ [Next]_vars => IInv'
  <2> SUFFICES ASSUME IInv, [Next]_vars PROVE IInv'
    OBVIOUS
  <2>1. CASE UNCHANGED vars
    BY <2>1 DEF vars, IInv, TypeOK, Held, Sent, NothingLeaks
  <2> QED
    BY <2>1, CommandStep, ConfirmStep, RespondStep DEF Next
<1> QED
  BY <1>1, InitIInv, PTL DEF Spec

(* The buffers keep their sizes, the status word its 16 bits. *)
THEOREM Types == Spec => []TypeOK
<1>1. IInv => TypeOK
  BY DEF IInv
<1> QED
  BY <1>1, Inductive, PTL

(* Every answer that is sent is the core's, byte for byte. *)
THEOREM AnswersIntact == Spec => []AnswerIntact
<1>1. IInv => AnswerIntact
  BY DEF IInv, Sent, AnswerIntact
<1> QED
  BY <1>1, Inductive, PTL

(* No answer is refused, so no request is left allocated. *)
THEOREM Leaks == Spec => []NothingLeaks
<1>1. IInv => NothingLeaks
  BY DEF IInv
<1> QED
  BY <1>1, Inductive, PTL
==============================================================================
