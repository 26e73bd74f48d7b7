------------------------------ MODULE Lifecycle ------------------------------
(***************************************************************************)
(* Who starts and stops the card: the MAIN task at boot (softsim_task_main  *)
(* loads the START file, the event "ready" calls start_sw_sim) and the AT   *)
(* thread (softsim_atfwd_cmd_handler_cb), on one global flag, one file and  *)
(* one QMI client handle.  The device may reset at any point; a refresh     *)
(* (AT start,2 or the event SOFTSIM_REBOOT) asks for exactly that.          *)
(* What happens inside a session is SimRelay, what an erase does to the     *)
(* files is NvStore.                                                        *)
(***************************************************************************)
EXTENDS Naturals, FiniteSets

CONSTANTS
    MaxCommands,    \* bound: AT commands in a run
    MaxBoots        \* bound: resets of the device in a run

ASSUME LifecycleAssumption == MaxCommands \in Nat /\ MaxBoots \in Nat

VARIABLES
    use_softsim,    \* the global flag
    startFile,      \* /softsim/START: <<>> when empty, <<flag>> when written
    main,           \* where the MAIN task stands
    at,             \* [pc, cmd, start]: the command in the AT handler
    answered,       \* final result codes sent for that command
    clnt,           \* what the handle clnt holds: 0, or the number of an init
    clients,        \* clients registered with the modem
    inits,          \* qmi_client_init calls since boot
    commands,       \* AT commands so far
    boots,          \* resets so far
    mishaps         \* history, since the last boot (see Mishaps)

flag   == <<use_softsim, startFile>>
client == <<clnt, clients, inits>>
count  == <<commands, boots>>
vars   == <<flag, main, at, answered, client, count, mishaps>>

(* "early":      an AT command was compared with the flag before MAIN had    *)
(*               loaded the file and handled "ready"                        *)
(* "unread":     the open or the read of the START file at boot failed      *)
(* "writeLost":  the write of the START file failed                         *)
(* "initFailed": qmi_client_init failed                                     *)
Mishaps  == {"early", "unread", "writeLost", "initFailed"}
Commands == {"none", "exec", "read", "query", "custom", "bad",
             "start", "refresh", "erase"}
MainAt   == {"load", "lib", "apn1", "apn2", "apn3", "starting", "started",
             "run"}
AtAt     == {"idle", "decide", "write", "act", "starting", "started",
             "stopping", "final"}
NoCommand == [pc |-> "idle", cmd |-> "none", start |-> 0]

Init ==
    /\ use_softsim = 0 /\ startFile = <<>>
    /\ main = "load"
    /\ at = NoCommand /\ answered = 0
    /\ clnt = 0 /\ clients = {} /\ inits = 0
    /\ commands = 0 /\ boots = 0
    /\ mishaps = {}

------------------------------------------------------------------------------
(* connect_modem and disconnect_modem, as far as the handle goes.           *)

\* The handle is overwritten, whatever it held and whether or not this works.
ClientInit ==
    /\ inits' = inits + 1
    /\ clnt' = inits + 1
    /\ \/ clients' = clients \cup {inits + 1} /\ UNCHANGED mishaps
       \/ mishaps' = mishaps \cup {"initFailed"} /\ UNCHANGED clients

ClientRelease ==
    /\ clients' = clients \ {clnt}
    /\ clnt' = 0
    /\ UNCHANGED inits

------------------------------------------------------------------------------
(* The MAIN task.                                                           *)

\* Reading an empty file leaves the flag as it is, and so does an open or a
\* read that fails: neither result is looked at.
MainLoad ==
    /\ main = "load"
    /\ \/ /\ use_softsim' = IF startFile = <<>> THEN use_softsim
                                               ELSE startFile[1]
          /\ UNCHANGED mishaps
       \/ mishaps' = mishaps \cup {"unread"} /\ UNCHANGED use_softsim
    /\ main' = "lib"
    /\ UNCHANGED <<startFile, at, answered, client, count>>

\* Faulty: "ready" starts the card whatever the flag says.
MainReadyAlways ==
    /\ main = "lib"
    /\ main' = "apn1"
    /\ UNCHANGED <<flag, at, answered, client, count, mishaps>>

\* The library reports "ready", once.
MainReady ==
    /\ main = "lib"
    /\ main' = IF use_softsim = 1 THEN "apn1" ELSE "run"
    /\ UNCHANGED <<flag, at, answered, client, count, mishaps>>

\* system_set_apn: at+cgdcont up to three times.
AfterTry == [apn1 |-> "apn2", apn2 |-> "apn3", apn3 |-> "starting"]

\* Faulty: without an OK in three tries the card is not started.
MainSetApnGivesUp ==
    /\ main \in DOMAIN AfterTry
    /\ main' \in {"starting", IF main = "apn3" THEN "run" ELSE AfterTry[main]}
    /\ UNCHANGED <<flag, at, answered, client, count, mishaps>>

\* One try, of 200 ms in which the AT thread goes on.  "OK" in the buffer, or
\* no memory or no virtual AT port at all, ends it; the card is started
\* whatever came of it, and without another look at the flag.
MainSetApn ==
    /\ main \in DOMAIN AfterTry
    /\ main' \in {"starting", AfterTry[main]}
    /\ UNCHANGED <<flag, at, answered, client, count, mishaps>>

MainInit ==
    /\ main = "starting"
    /\ ClientInit
    /\ main' = "started"
    /\ UNCHANGED <<flag, at, answered, count>>

MainStarted ==
    /\ main = "started"
    /\ main' = "run"
    /\ UNCHANGED <<flag, at, answered, client, count, mishaps>>

MainStep == MainLoad \/ MainReady \/ MainSetApn \/ MainInit \/ MainStarted

------------------------------------------------------------------------------
(* The AT handler.                                                          *)

\* A new command; the handler takes the branch that leads to pc.
Accept(cmd, pc, start, codes) ==
    /\ at.pc = "idle"
    /\ commands < MaxCommands
    /\ commands' = commands + 1
    /\ at' = [pc |-> pc, cmd |-> cmd, start |-> start]
    /\ answered' = codes
    /\ UNCHANGED <<flag, main, client, boots, mishaps>>

\* AT+PSOFTSIM, and modes or names the handler does not know
AtExec == Accept("exec", "idle", 0, 1)
AtBad  == Accept("bad", "idle", 0, 1)

\* AT+PSOFTSIM? and =?: when softsim_do_at_cmd fails ERROR is sent, and the
\* branch goes on to the OK at the end of the handler.
AtRead == \E failed \in BOOLEAN :
              Accept("read", "final", 0, IF failed THEN 1 ELSE 0)

\* AT+PSOFTSIM=start?
AtQuery == Accept("query", "final", 0, 0)

\* Any other AT+PSOFTSIM=<value>: a failure is answered and ends the handler.
AtCustom == \E failed \in BOOLEAN :
                Accept("custom", IF failed THEN "idle" ELSE "final", 0,
                       IF failed THEN 1 ELSE 0)

AtStart   == \E start \in {0, 1} : Accept("start", "decide", start, 0)
AtRefresh == Accept("refresh", "decide", use_softsim, 0)

\* Faulty: an erase leaves the flag alone.
AtEraseKeepsFlag == Accept("erase", "decide", use_softsim, 0)

\* The files are unlinked here, the backup is cleared (NvStore).
AtErase   == Accept("erase", "decide", 0, 0)

Deciding == IF main = "run" THEN mishaps ELSE mishaps \cup {"early"}

\* Faulty: the test start != use_softsim is missing.
AtDecideAlways ==
    /\ at.pc = "decide"
    /\ use_softsim' = at.start
    /\ at' = [at EXCEPT !.pc = "write"]
    /\ mishaps' = Deciding
    /\ UNCHANGED <<startFile, main, answered, client, count>>

AtDecide ==
    /\ at.pc = "decide"
    /\ IF at.start # use_softsim
       THEN /\ use_softsim' = at.start
            /\ at' = [at EXCEPT !.pc = "write"]
       ELSE /\ at' = [at EXCEPT !.pc = "final"]
            /\ UNCHANGED use_softsim
    /\ mishaps' = Deciding
    /\ UNCHANGED <<startFile, main, answered, client, count>>

\* Faulty: the value compared is written, not the flag as it is now.
AtWriteStart ==
    /\ at.pc = "write"
    /\ \/ startFile' = <<at.start>> /\ UNCHANGED mishaps
       \/ mishaps' = mishaps \cup {"writeLost"} /\ UNCHANGED startFile
    /\ at' = [at EXCEPT !.pc = "act"]
    /\ UNCHANGED <<use_softsim, main, answered, client, count>>

\* The file gets the flag as it is now, which MAIN may have loaded meanwhile.
AtWrite ==
    /\ at.pc = "write"
    /\ \/ startFile' = <<use_softsim>> /\ UNCHANGED mishaps
       \/ mishaps' = mishaps \cup {"writeLost"} /\ UNCHANGED startFile
    /\ at' = [at EXCEPT !.pc = "act"]
    /\ UNCHANGED <<use_softsim, main, answered, client, count>>

AtAct ==
    /\ at.pc = "act"
    /\ at' = [at EXCEPT !.pc = IF use_softsim = 1 THEN "starting"
                                                  ELSE "stopping"]
    /\ UNCHANGED <<flag, main, answered, client, count, mishaps>>

AtInit ==
    /\ at.pc = "starting"
    /\ ClientInit
    /\ at' = [at EXCEPT !.pc = "started"]
    /\ UNCHANGED <<flag, main, answered, count>>

AtStarted ==
    /\ at.pc = "started"
    /\ at' = [at EXCEPT !.pc = "final"]
    /\ UNCHANGED <<flag, main, answered, client, count, mishaps>>

AtRelease ==
    /\ at.pc = "stopping"
    /\ ClientRelease
    /\ at' = [at EXCEPT !.pc = "final"]
    /\ UNCHANGED <<flag, main, answered, count, mishaps>>

\* OK, at the end of the handler
AtFinal ==
    /\ at.pc = "final"
    /\ answered' = answered + 1
    /\ at' = [at EXCEPT !.pc = "idle"]
    /\ UNCHANGED <<flag, main, client, count, mishaps>>

AtNew  == AtExec \/ AtBad \/ AtRead \/ AtQuery \/ AtCustom \/ AtStart
          \/ AtRefresh \/ AtErase
AtStep == AtDecide \/ AtWrite \/ AtAct \/ AtInit \/ AtStarted \/ AtRelease
          \/ AtFinal

------------------------------------------------------------------------------
\* refresh_sw_sim, or the power goes: only the file is left.
Reset ==
    /\ boots < MaxBoots
    /\ boots' = boots + 1
    /\ use_softsim' = 0
    /\ main' = "load"
    /\ at' = NoCommand /\ answered' = 0
    /\ clnt' = 0 /\ clients' = {} /\ inits' = 0
    /\ mishaps' = {}
    /\ UNCHANGED <<startFile, commands>>

Next == MainStep \/ AtNew \/ AtStep \/ Reset

(* MAIN and the AT thread are scheduled, the library reports "ready", a try   *)
(* at the APN ends after its 200 ms, and the modem's service comes up.       *)
Fairness == WF_vars(MainStep) /\ WF_vars(AtStep)

Safety == Init /\ [][Next]_vars
Spec   == Safety /\ Fairness

------------------------------------------------------------------------------
(* Type invariant: what each variable may hold. *)
TypeOK ==
    /\ use_softsim \in {0, 1}
    /\ startFile \in {<<>>, <<0>>, <<1>>}
    /\ main \in MainAt
    /\ at \in [pc : AtAt, cmd : Commands, start : {0, 1}]
    /\ answered \in 0 .. 2
    /\ inits \in Nat /\ clnt \in 0 .. inits /\ clients \subseteq 1 .. inits
    /\ commands \in 0 .. MaxCommands /\ boots \in 0 .. MaxBoots
    /\ mishaps \subseteq Mishaps

MainStarts == main \in {"starting", "started"}
AtSwitches == at.pc \in {"starting", "started", "stopping"}

(* Sessions do not overlap, as long as no AT command is decided before        *)
(* "ready" is handled: MAIN and the AT thread are never inside               *)
(* connect_modem or disconnect_modem together, none opens a client while the *)
(* handle holds one, and none releases a handle that holds none.  This is    *)
(* what SimRelay takes for granted of start_sw_sim and stop_sw_sim.          *)
SessionsAlternate ==
    "early" \notin mishaps =>
        /\ ~(MainStarts /\ AtSwitches)
        /\ main = "starting" \/ at.pc = "starting" => clnt = 0
        /\ at.pc = "stopping" => clnt # 0

\* The file may have failed, the order and the modem's service have not.
InOrder == mishaps \subseteq {"unread", "writeLost"}

(* At rest the modem has a client exactly when the flag is set, and it is the *)
(* one the handle names: no client is leaked, no session runs unflagged.     *)
SessionFollowsFlag ==
    InOrder /\ main = "run" /\ at.pc = "idle" =>
        clients = IF use_softsim = 1 THEN {clnt} ELSE {}

(* Unless a write is due or the file has failed since the boot, it holds the  *)
(* flag, so the next boot does what the last command said, even when it      *)
(* raced with the load of the file.                                         *)
FlagPersisted ==
    mishaps \cap {"unread", "writeLost"} = {} /\ main # "load" /\ at.pc # "write"
        => \/ startFile = <<use_softsim>>
           \/ startFile = <<>> /\ use_softsim = 0

(* When an erase is answered the card is off: the flag is 0 and the modem    *)
(* has no client left to use the erased profile.                            *)
EraseStops ==
    InOrder /\ at.cmd = "erase" /\ at.pc = "final" /\ main = "run"
        => use_softsim = 0 /\ clients = {}

(* Every command is answered by one final result code, a failed read aside.  *)
AnsweredOnce ==
    at.pc = "idle" /\ at.cmd \notin {"none", "read"} => answered = 1

(* What the comments on the result codes say: one final response ends a      *)
(* command, ERROR or OK.                                                    *)
OneFinalResponse == answered <= 1

(* However commands race with the boot and whatever fails, no more than two   *)
(* clients are lost in a boot, that is registered with the modem without the *)
(* handle naming them: one because the load of the file changes the flag     *)
(* under a command, one because MAIN starts the card without another look.   *)
(* Nothing the user does later loses more.                                  *)
LostClients == clients \ {clnt}
LeaksBounded == Cardinality(LostClients) <= 2

------------------------------------------------------------------------------
(* The life cycle implements the switch the user is promised.               *)
Switch == INSTANCE CardSwitch WITH want    <- startFile = <<1>>,
                                   present <- clients # {},
                                   sound   <- mishaps = {}

(* As long as nothing fails since the boot (a load of the START file that     *)
(* fails goes unnoticed and leaves the card off), the card is only put in or  *)
(* taken out as the stored setting says, and it does follow the setting in   *)
(* the end, after a command and after a boot alike: a card that was on when  *)
(* the device went down comes back by itself, also when the modem never      *)
(* accepts the APN.                                                          *)
ImplementsSwitch == Switch!SwitchSpec
==============================================================================
