# A verification of softsim

TLA+ models of the soft SIM for the Quectel modem (`src/`), checked with TLC on
small instances, and theorems about them checked with TLAPS for every instance.

## The system

The program is a SIM card in software. The card itself (the "COS") and the
loops of its two tasks are in a closed library, `softsim_lib.lib`; this
repository is everything around it. Threads:

| thread | entry | does |
|---|---|---|
| MAIN task | `softsim_task_main`, then the library | serves the main pipe: timer events, requests of the modem, answers of the core; reports "ready" once |
| COS task | `softsim_task_cos`, then the library | serves the COS pipe: resets, APDUs, stop |
| QMI callback | `uim_remote_ind_cb` | one indication of the modem at a time; posts to MAIN and blocks on a semaphore |
| AT forwarding | `softsim_atfwd_cmd_handler_cb` | `AT+PSOFTSIM...`: start, stop, refresh, erase |
| timer callback | `vTimerCallback` | posts to the main pipe |
| entry | `quectel_softsim_entry` | creates all of this, once |

### Components

| component | state | operations | what makes it correct | module |
|---|---|---|---|---|
| QMI relay (`qmi_remotesim.c`) | `card.state`, `card.slot`, `atrlen`, the client | five kinds of indication, `connect_modem`, `disconnect_modem` | the card state agrees with the core and with what the modem was told; every callback returns | `SimRelay` |
| pipes, semaphores, confirmations (`softsim_porting.c`) | two bounded pipes, `soft_sim_rst`, `soft_sim_data`, `g_rx_data` | send (blocking), receive, take, give | an answer goes to the command it answers; nobody blocks for ever | `SimRelay`, `RemoteSim` |
| life cycle (`softsim_porting.c`, `softsim_simdrv.c`) | `use_softsim`, the START file, `clnt` | load at boot, "ready", AT commands, reset | sessions do not overlap, or lose little when they do; flag, file and session agree; the card follows the setting; one result code per command | `Lifecycle`, `CardSwitch` |
| flash store (`softsim_porting.c`) | IMG, INFO, their backup | load, save, backup, restore, erase | a restore gives back the backup, an erase is final, TRUE means done | `NvStore` |
| timer (`softsim_porting.c`) | `softsim_timer` | start, stop, expiry | one timer, silent after a stop | `SoftsimTimer` |
| start-up (`links_softsim_init`) | pipes, threads, semaphores, the AT handler | creations in order, each of which may fail | what a start in time uses exists; its requests return | `Startup` |
| file system port (`softsim_fs_*`) | the open file, the turns of a read | open, close, read in chunks, write, seek, size, delete, rename | the result of one call each on a plain file | `FsPort`, `FileSpec` |
| APDU encoding (`qmi_remotesim.c`, `softsim_porting.c`) | `tx_data`, `g_rx_data`, the answer's request | copy to the core, confirm, respond | an answer arrives byte for byte; no request is leaked | `ApduCodec` |
| APN | none | `system_set_apn` | the card starts whatever the modem answers | `Lifecycle` |
| IMEI, URC, time, debug output, memory | none | single platform calls | - | not modelled |
| `softsim_lib.lib` | unknown | external | - | as its callers and callees show it |

The parts meet in few places. The callback and MAIN share the pipe, the
semaphores and `g_rx_data`; the callback, MAIN (at "ready") and the AT thread
share the static `card`; MAIN and the AT thread share `use_softsim`, its file
and `clnt`; the library and the AT thread share the flash; all of them use what
`links_softsim_init` creates, some before it is done. The hard behaviour
is there: blocking sends in a ring (callback to MAIN to COS to MAIN), state
decided on before a semaphore and written after it, a stop in the middle of a
request, a command during boot, a reset between any two steps. The hazards of
`PROJECT.json` list these places with their lines.

## Plan

The order in which the modules were written, the most important behaviour
first; all of it is done.

1. `SimRelay` with `RemoteSim` as its abstract specification.
2. `Lifecycle`, which justifies what `SimRelay` assumes of starts and stops,
   with `CardSwitch` as its abstract specification.
3. `NvStore` and `SoftsimTimer`.
4. `Startup`: `links_softsim_init` with every creation allowed to fail, against
   the tasks it has already started.
5. `FsPort` with `FileSpec` as its abstract specification, and `ApduCodec`.
6. Proofs of every safety property that a passing run checks.
7. The safety half of progress (`RelayProgressProofs`, `RequestKept`): what a
   proof can say of the waits whose end only TLC checks.

What would come next is a composition of `Lifecycle` and `SimRelay` with two
sessions at once, the state an early AT command leads to. Nothing in the code
says what should hold there, so there is no property to check it against yet.

## The modules

**`RemoteSim`** is what the modem is promised: one command at a time, answered
once and with its own answer, or dropped; none left hanging. A card lets an
answer pass only while it is powered (`Pass`). The answer may leave after that,
when the card has been taken down (`Answer`): the code promises no more, because
`uim_remote_send_resp` checks the state at 251 and sends afterwards, and
`disconnect_modem` on the AT thread may write CONNECTED and withdraw the card in
between.

**`SimRelay`** is the program that should keep the promise. One variable per
piece of shared state, under its name in the code, and a program counter per
thread: `handler` for `uim_remote_ind_cb`, `main` and `cos` for what the tasks
have in hand, `ctl` for `connect_modem` or `disconnect_modem`. A handler of
the code is split where another thread can see the difference: at a pipe send
(`Post`), a semaphore (`TakeRst`, `TakeData`), the write of `card.state`
(`WriteState`), the read of it before an ATR or an answer (`CheckAtr`,
`CheckResp`), and the send that follows (`SendAtr`, `SendResp`). What is left of
the card when an answer leaves it late is `AnswersPowered`: it is being stopped,
and no later session has begun.
The buffer and the semaphore are set in two steps (`ApduCnf`, `GiveData`) as in
`softsim_SoftSendAPDUCnfToModem`. APDUs are numbered; an answer is the number of
the command it was computed for.
`Eager` chooses the modem: TRUE sends indications as soon as the callback is
registered, FALSE only between CONNECTION_AVAILABLE and CONNECTION_UNAVAILABLE.
External, and assumed: indications come one at a time; `qmi_client_release`
stops the callbacks and waits for the running one; the library hands a request
to COS and returns to its pipe, answers every job, and
`stop_cos_thread_nosave` posts to the COS pipe and waits.

**`Lifecycle`** has MAIN from boot to "ready" and through the tries of
`system_set_apn` to `start_sw_sim`, the AT handler branch by branch,
the flag, its file and the client handle, with a load and writes of the file
that may fail, a failing `qmi_client_init` and a reset at any point. `mishaps`
remembers since boot whether a command was decided before "ready" was handled,
the load failed ("unread"), a write was lost, an init failed; most properties
exclude one or more of these, and say which. A load that fails goes unnoticed
(the code drops the results at 783 and 785): the flag stays 0 whatever the file
says and the card stays off. `SessionFollowsFlag` and `EraseStops` hold all the
same; `FlagPersisted` and the promise of `CardSwitch` cannot, and say so.
"Ready" is taken to be reported once per boot. What `SimRelay` assumes of
starts and stops, that they alternate, is `SessionsAlternate` here. An early
command does break it: `start,1` before "ready" starts the card on the AT
thread, and "ready" starts it again on MAIN over the same handle.

What such a race can cost is `LeaksBounded`, which excludes no mishap: TLC
reaches two lost clients (`start,1` is stored, a stop is decided, MAIN's load of
the file changes the flag under it, and then MAIN and the AT thread each start a
card) and never three.

**`CardSwitch`** is what the user of `AT+PSOFTSIM` is promised: a setting that
outlives a reset and a card that follows it as long as nothing has gone wrong
since the boot. `Lifecycle` implements it with the START file as the setting,
"some client is registered" as the card, and `mishaps = {}` as "nothing wrong".

**`NvStore`** has the library's calls on IMG and INFO step by step, an erase on
the AT thread, and a reset that may tear a write. Every operation of the file
system and of the backup may fail, whether or not the code looks at its result;
mostly it does not. A save, load or restore whose operation failed is marked in
`mishaps`. `carried` remembers what got past an erase: what a call in progress
beside it already held, and what a deletion of the erase itself left because it
failed. Only that may come back. A deletion that fails inside
`softsim_load_flash` makes the restore keep the old IMG and use up the backup,
with TRUE as the result, so `LoadFlashRestores` is about calls in which nothing
fails; and a second `softsim_load_flash` deletes the only copy of the profile
(`nv_backup`). The backup functions are external: a backup copies the listed file,
a restore keeps a file that exists and uses the backup up (what the comments at
`softsim_porting.c` 747 and 757 say); a deletion, a list or a backup that fails
changes nothing, a read or a write that fails may have stopped half way.

**`SoftsimTimer`** has the handle, the operating system timer behind it, the
callback thread and the pipe.

**`Startup`** has `links_softsim_init` one creation at a time, the tasks from
the moment they exist, and the card reduced to its use of pipes and semaphores.
`missed` remembers who used an object that did not exist. A "ready" before the
end of `links_softsim_init` ("early") may do that, and may lose a token: MAIN
gives a semaphore that is created a moment later. External: the calls on a
NULL handle return an error and have no effect.

**`ApduCodec`** has one command at a time from `command_apdu` to the answer sent
back, with the buffers, lengths and the 16 bit status word they pass through.
Earlier contents stay in the buffers where the code leaves them. External:
commands fit in `txData`, which the code does not check; answers of the core are
2 to `AnswerMax` bytes. The way of the command is one copy into a zeroed local,
so the properties are about the answer.

**`FileSpec`** is a file system with one open handle, in which a call acts once
or fails. **`FsPort`** is `softsim_fs_Read` turn by turn over it, with `i`,
`*Read` and the caller's buffer, and `softsim_fs_Seek` with its translation of
`whence`. The other calls pass their arguments on, so they are `FileSpec`'s own
actions. Each of them may fail, the close included. A read that fails may leave
any count; the code does.

`MC*` modules give TLC its instances; `*Proofs` hold the theorems. An operator
marked "Faulty" in a comment is a plausible bug in the action that follows it;
with it in place of that action TLC finds the property violated that the
manifest pairs it with.

## What is checked

| run | states | shows |
|---|---|---|
| `relay` | 179,844 | patient modem: an attached card has a running core; every session is announced; a powered card has sent its ATR; "ready" inserts before any ATR; the state moves one rung at a time; an answer leaves a card that is not powered only during a stop; the callback returns, a stop completes, a powered card answers |
| `relay_eager` | 87,930 | early modem: one request in flight, no answer to the wrong command, MAIN never blocks on COS; no ring of waits; a request is never set back or lost, an answer stays in the buffer until it is read; `SimRelay` implements `RemoteSim`, liveness included |
| `lifecycle` | 134,844 | sessions alternate; flag and client agree whatever becomes of the file, the file too unless it failed; an erase stops the card; at most two clients are lost whatever races; `Lifecycle` implements `CardSwitch`; a card that was on comes back after a reset, whatever becomes of the APN |
| `nv_safety` | 4,228,892 | a restore in which nothing fails returns the backup whatever state IMG is in, in the buffer and in the file; erased contents stay erased but for what a failed deletion left and what a call beside the erase carried |
| `timer` | 198 | at most one operating system timer, at most one event after a stop, and the pipe drains |
| `startup` | 25,819 | nothing is used before it exists when the card starts in time; a task never reads a pipe that does not exist; a connected card has a core that was reset; a request is where it should be unless an object was missing; requests return |
| `codec` | 15,575 | an answer arrives byte for byte; no request is left allocated |
| `fsport` | 79,952 | `FsPort` implements `FileSpec`, whichever call fails; every read returns |

The type invariants of `Lifecycle`, `NvStore`, `SoftsimTimer` and `Startup`, and
`AnsweredOnce` of `Lifecycle`, are theorems; no run checks them again.

Four runs are expected to end in a violation; each is a finding: a failed
`AT+PSOFTSIM?` is answered with ERROR and with OK (`lifecycle_responses`);
`softsim_save_nvram` returns TRUE when the write failed (`nv_save`); no backup
is left after a restore (`nv_backup`); a second `softsim_timer_stop` works on a
released timer (`timer_stop`).

**Bounds.** Relay: two slots, the card's own and one that stands for all
indications the handler rejects. Two commands, so that an answer can go to the
wrong one; the semaphores and the buffer hold the traces of one. Pipes of 2 and
3 instead of 24: full pipes and blocked senders are then ordinary, and what
fills them is the timer, which is unbounded. Sessions are not bounded. Life
cycle: 4 commands and 2 resets allow start, stop and erase before and after a
reset. Flash: 5 calls and 2 resets are a save, a backup, another save, a
restore and a load with an erase and a reset in any of them. Timer: 5 calls are
start, stop and both again with room for a failing start. Start-up: 3 requests
are a reset and two more in a pipe of 2, so that the pipe can be full and the
last token late. Codec: 2 commands, so that the second can find traces of the
first; answers of 2 to 4 bytes are a bare status word, and the rest shorter or
longer than the one before; the bytes are 0, 1 and 255, which tell the two
halves of a status word apart at both ends of their range. Files: up to 4
bytes in chunks of 2, read with lengths up to 5, so that a read takes 1, 2 or 3
turns and ends on, before or behind a chunk and the file. 3 calls of the library
are an open, a seek or write, and a read.
The runs of all but the relay do not check deadlock: when the bounds are used
up, or a creation has failed, these systems rest. The relay never does, the
timer ticks, and deadlock is checked.

**Fairness.** Of the threads: each that can go on does, since the scheduler of
the modem runs all of them. MAIN and the connecting thread get weak fairness
(once enabled, nobody disables their steps); the callback, COS and the stopping
thread get strong fairness, because they send to pipes that others fill
again, and a blocked sender is served when room keeps appearing. Nothing is
assumed of the modem, the timer or the user. In `Lifecycle` MAIN's fairness
includes that the library reports "ready", that a try at the APN ends with its
200 ms, and that the modem's service comes up. In `SoftsimTimer` only the
callback's send and MAIN are fair. In `Startup` the three threads are fair as
in the relay; `links_softsim_init` is not, it may stop anywhere. In `FsPort` a
turn of a read is fair.

## What is proved

`SimRelayProofs`, for any slots, queue size and number of commands. The
invariant `HandshakeInv` has at its heart `OneRequest`: the callback is blocked
exactly when its request is in one of seven places (main pipe, MAIN, COS pipe,
COS, back in the main pipe, in the giving of the semaphore, in the semaphore),
and it is in one only. Alone that is not inductive: which semaphore will be
given must match what the callback waits for (`RequestMatches`), what the
callback handles must fit where it stands (`HandlerShape`), and at most one stop
may be on its way (`OneStop`). From it follow `TypeCorrect`,
`RequestsOneAtATime`, `ResponsesMatch`, and the step simulation behind
`ImplementsServiceSafety` (every step of the relay is Ask, Pass, Answer, Drop,
Switch or a stutter of `RemoteSim`). With `~Eager` a second invariant
(`SessionInv`, `ConnectedInv`: from the announcement to the withdrawal the core
runs unless the card is disconnected or a reset is on its way) gives
`AttachedHasCore`, `Announced`, `AtrDelivered`, `LadderKept` and
`AnswersLeavePowered`.

`LifecycleProofs`, for any number of commands and resets. The invariant says in
which order flag, handle, client and file follow one another: before "ready"
is handled nothing is switched and the handle is empty; after it the handle
agrees with the flag except between the comparison and the end of the switch,
where it is exactly one switch behind; the file agrees unless a write is due.
A load that failed leaves flag and handle in step and
only the file behind. From it `Alternate`, `SessionsFollow`, `Persisted`,
`ErasesStop`, `Answered`.

`ImplementsSwitchSafety` is the step simulation behind `ImplementsSwitch`: a
write of the file that changes it is Set, `ClientInit` and `ClientRelease` are
Obey while nothing has gone wrong, which is where the invariant is needed, since
it says that a switch under way is always the one the file asks for.

`FewLost` needs an invariant of its own, because nothing in a single state says
why a third client cannot be lost. `LeakInv` is a balance: the clients already
lost (`Lost`), plus those that a start of the AT handler, as far as it has got,
will lose (`Owed`), are at most `Allowed`, which MAIN raises by one when it loads
the file, and by one when it starts the card. Only these two steps can make the
flag and the handle disagree; the AT handler by itself merely moves a client
from owed to lost.

Two more of the relay: `MainSends` (with pipes of two or more MAIN never waits
for room in the COS pipe, since one request and one stop at most are in it),
and `ReadyQuiet`, whose invariant `ReadyInv` says that while "ready" runs
`connect_modem` on MAIN no reset can be confirmed, since MAIN would serve it.

`RelayProgressProofs`, on top of the handshake, is the safety half of
`HandlerReturns` and `StopCompletes`. `NoRing`: wherever the callback, MAIN, COS
or a stop waits, one of the threads it waits for can take a step, though all of
them send into pipes that may be full. (A full main pipe is served by MAIN; MAIN
waits only for a COS pipe that it never fills.) `RequestNeverSetBack`: ranked by
its place (`Stage`) and its position in the pipe (`Place`), no step of any
thread, the timer's included, sets a request back. One that is nowhere ranks
last, so no step loses a request either while the callback waits for it. The two
together leave to TLC only that fair threads do take the steps they can.
`AnswerKept`: from the semaphore on nothing writes to `g_rx_data` until the
callback has copied the answer. That is what `ApduCodec` takes for granted when
it lets command and answer alternate.

`NvStoreProofs`, for any contents, calls, erases, failures and resets.
`CallShape` says which steps a call consists of; `RestoreOrder` follows the
backup through `softsim_load_flash`: as long as nothing has failed IMG is absent
behind the deletion, so that the restore takes effect; `EraseOrder` says what
each step of an erase has left behind, and that what the running call still
writes, or a failed deletion leaves, is counted as carried. From it `Types`,
`Restores` and `Erases`.

`SoftsimTimerProofs`, for any size of pipe and number of calls. A timer that is
defined is the one in the handle, and after a stop none is armed and what may
still be posted is in the callback's hand: `Types`, `OneTimerHeld`, `Silence`.

`StartupProofs`, for any size of pipe and number of requests. `Order` says what
exists at each step of `links_softsim_init` and behind each task; `Started` that
a request comes from a card that was started, in time or with a mishap; `Resets`
that only a core that was reset has its reset confirmed. From it `Types`,
`Readers`, `Complete`, `CoreOn`. `RequestsKept` counts: as long as nobody has
met a missing object, the events in the pipes, in the hands of the tasks and in
the semaphores are one if the callback waits and none otherwise, and all are of
its kind. It is what `RequestsReturn` rests on.

`ApduCodecProofs`, for all sizes that satisfy `SizeAssumption`, and any bytes.
While the callback has an answer to send, `g_rx_data` holds it (`Held`), which
is why it does not matter what was in the buffer before. The arithmetic is that
of the status word: two bytes make a number below 65536, and the two bytes are
got back from it. From it `Types`, `AnswersIntact`, `Leaks`.

`FsPortProofs`, for files, reads and chunks of any size. `Turns` says what is
done after i bytes: the position is i bytes behind where the read began and
those bytes are in the buffer. `Implements` is the simulation: the first turns
are stutters of `FileSpec`, the last one is its read, the rest are its calls.

The proofs use the named assumptions on the constants and nothing else.

Only model-checked: liveness, since fairness is out of the prover's reach
(`HandlerReturns`, `StopCompletes`, `PoweredApduAnswered`,
`StopDrains`, `RequestsReturn`, `ReadReturns`, the liveness parts of
`ImplementsService` and `ImplementsSwitch`).

## What is not modelled

`uim_remote_replug_card`, `uim_remote_reset_send_atr`, `uim_remote_reset`,
`modem_set_softsim_slot`: nothing calls them here. The contents of ATRs and
URCs. `dbgprint.c`, which formats hex dumps and is not among the sources of
`build/softsim.scons`. `softsim_get_device_imei`, the unsolicited messages, the
time, `softsim_mem_*` (malloc and free under other names), `softsim_fs_Commit`
and `softsim_send_ussd_req` (constants): no state that anything here reads. Of
`system_set_apn` the text of the command and what the buffer holds; a try ends
with "OK" or without. Failing `malloc` where the code does not look (it is in
`NvStore` and `ApduCodec`, where it does). The wait of `connect_modem` for the
modem's service, which is a wait for the modem only. Lengths of IMG and INFO:
both are always written whole. What copies beyond a buffer would overwrite:
commands and answers fit by assumption. More than one open file. The platform
behind the QMI, file system, backup and timer calls, beyond what is said above.
