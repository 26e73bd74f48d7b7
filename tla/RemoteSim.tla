------------------------------ MODULE RemoteSim ------------------------------
(***************************************************************************)
(* What the modem is promised by a remote SIM card: it may hand over one    *)
(* command APDU at a time, while the card is attached; a command is either  *)
(* answered, once and with its own answer, or dropped; none is left         *)
(* hanging.  Only a powered card lets an answer pass, but the answer may    *)
(* leave after the card was taken down.  Threads, pipes and semaphores do   *)
(* not exist here: SimRelay is the program that implements this.            *)
(***************************************************************************)
EXTENDS Naturals

CONSTANT MaxApdu        \* bound on the commands the modem sends

VARIABLES
    card,               \* "DISCONNECTED", "CONNECTED" or "POWERED"
    asked,              \* number of commands handed over so far
    pending,            \* the command being worked on, 0 when there is none
    passed,             \* its answer was let pass by a powered card
    answered            \* pairs <<command, the command it was answered for>>

svars == <<card, asked, pending, passed, answered>>

ServiceInit ==
    /\ card = "DISCONNECTED"
    /\ asked = 0
    /\ pending = 0 /\ passed = FALSE
    /\ answered = {}

Ask ==
    /\ pending = 0
    /\ card # "DISCONNECTED"
    /\ asked < MaxApdu
    /\ asked' = asked + 1
    /\ pending' = asked + 1
    /\ UNCHANGED <<card, passed, answered>>

\* The card is powered and lets the answer pass.
Pass ==
    /\ pending # 0 /\ ~passed
    /\ card = "POWERED"
    /\ passed' = TRUE
    /\ UNCHANGED <<card, asked, pending, answered>>

Answer ==
    /\ passed
    /\ answered' = answered \cup {<<pending, pending>>}
    /\ pending' = 0 /\ passed' = FALSE
    /\ UNCHANGED <<card, asked>>

Drop ==
    /\ pending # 0
    /\ pending' = 0 /\ passed' = FALSE
    /\ UNCHANGED <<card, asked, answered>>

\* Attaching, powering and stopping are the card's own business here.
Switch ==
    /\ card' \in {"DISCONNECTED", "CONNECTED", "POWERED"}
    /\ UNCHANGED <<asked, pending, passed, answered>>

ServiceNext == Ask \/ Pass \/ Answer \/ Drop \/ Switch

ServiceSafety == ServiceInit /\ [][ServiceNext]_svars

\* No command is left hanging.
ServiceSpec == ServiceSafety /\ WF_svars(Answer \/ Drop)
==============================================================================
