-------------------------------- MODULE FsPort --------------------------------
(***************************************************************************)
(* softsim_fs_*: the file functions of softsim_lib.lib on top of those of   *)
(* the platform.  softsim_fs_Read reads in turns of at most Chunk bytes     *)
(* (30720), adds the turns up in *Read, which each turn overwrites, and     *)
(* stops at the first that fails or comes back short.  softsim_fs_Seek      *)
(* numbers whence as the platform does.  The rest is FileSpec's OneCall.    *)
(*                                                                         *)
(* External: qapi_FS_Read gives as many bytes as there are, up to what it   *)
(* is asked for, and leaves its count alone when it fails.                  *)
(***************************************************************************)
EXTENDS FileSpec

CONSTANTS
    Chunk,      \* 30720
    NoByte,     \* what the caller's buffer holds before the read
    MaxCalls    \* bound: calls of the library in a run

ASSUME PortAssumption ==
    Chunk \in Nat \ {0} /\ MaxCalls \in Nat /\ NoByte \notin Data

VARIABLES
    i,          \* bytes of the turns that are done
    count,      \* *Read
    buffer,     \* DataPtr
    calls       \* calls so far

loop == <<i, count, buffer>>
vars == <<fileVars, loop, calls>>

Fresh == [k \in 1 .. MaxLength |-> NoByte]

Init ==
    /\ FileInit
    /\ i = 0 /\ count = 0 /\ buffer = Fresh /\ calls = 0

Called == calls < MaxCalls /\ calls' = calls + 1

------------------------------------------------------------------------------
\* qapi_FS_Seek: QAPI_FS_SEEK_SET_E, CUR_E and END_E are 1, 2 and 4.
QapiWhence(w) == CASE w = 1 -> "begin" [] w = 2 -> "current" [] w = 4 -> "end"
                   [] OTHER -> "invalid"

\* EAT_FS_FILE_BEGIN, _CURRENT and _END are 0, 1 and 2.
FsSeek(offset, whence) ==
    LET w == IF whence + 1 = 3 THEN 4 ELSE whence + 1
    IN Called /\ Seek(offset, QapiWhence(w)) /\ UNCHANGED loop

------------------------------------------------------------------------------
FsRead(length) ==
    /\ Called /\ ReadCall(length)
    /\ i' = 0 /\ buffer' = Fresh
    /\ UNCHANGED count

Return(ret, n) ==
    /\ result' = [op |-> "read", ret |-> ret, count |-> n]
    /\ call' = Idle /\ count' = n

Asked == Least(call - i, Chunk)
Got   == Least(Asked, Left)

\* n bytes at the position to DataPtr + i
Into(n) == [k \in 1 .. MaxLength |->
               IF k \in i + 1 .. i + n THEN Text[handle.pos + k - i] ELSE buffer[k]]

\* Faulty: *Read is not added up when the last turn is short.
TurnShort ==
    /\ ~Ready /\ i < call
    /\ \/ /\ handle' = [handle EXCEPT !.pos = @ + Got]
          /\ buffer' = Into(Got)
          /\ \/ Got = Asked /\ i' = i + Asked /\ count' = Got
                /\ UNCHANGED <<call, result>>
             \/ Got # Asked /\ Return(0, Got) /\ UNCHANGED i
       \/ /\ \E n \in 0 .. Got : handle' = [handle EXCEPT !.pos = @ + n]
          /\ Return(Failed, count + i)
          /\ UNCHANGED <<i, buffer>>
    /\ UNCHANGED <<files, calls>>

\* Faulty: the last turn asks for Chunk bytes too.
TurnLong ==
    LET got == Least(Chunk, Left)
    IN /\ ~Ready /\ i < call
       /\ handle' = [handle EXCEPT !.pos = @ + got]
       /\ buffer' = Into(got)
       /\ \/ got = Chunk /\ i' = i + Chunk /\ count' = got
             /\ UNCHANGED <<call, result>>
          \/ got # Chunk /\ Return(0, got + i) /\ UNCHANGED i
       /\ UNCHANGED <<files, calls>>

\* Faulty: the end of the file is not looked for.
TurnOn ==
    /\ ~Ready /\ i < call
    /\ handle' = [handle EXCEPT !.pos = @ + Got]
    /\ buffer' = Into(Got)
    /\ i' = i + Got /\ count' = Got
    /\ UNCHANGED <<call, result, files, calls>>

\* One turn: the next bytes; the read is over when they are fewer than asked
\* for, or when the platform fails.
Turn ==
    /\ ~Ready /\ i < call
    /\ \/ /\ handle' = [handle EXCEPT !.pos = @ + Got]
          /\ buffer' = Into(Got)
          /\ \/ Got = Asked /\ i' = i + Asked /\ count' = Got
                /\ UNCHANGED <<call, result>>
             \/ Got # Asked /\ Return(0, Got + i) /\ UNCHANGED i
       \/ /\ \E n \in 0 .. Got : handle' = [handle EXCEPT !.pos = @ + n]
          /\ Return(Failed, count + i)
          /\ UNCHANGED <<i, buffer>>
    /\ UNCHANGED <<files, calls>>

\* ret is still -1 when there was no turn.
Done ==
    /\ ~Ready /\ i >= call
    /\ Return(IF call = 0 THEN -1 ELSE 0, i)
    /\ UNCHANGED <<files, handle, i, buffer, calls>>

Next ==
    \/ Called /\ OneCall /\ UNCHANGED loop
    \/ \E offset \in -MaxSize .. MaxSize, whence \in 0 .. 2 : FsSeek(offset, whence)
    \/ \E length \in 0 .. MaxLength : FsRead(length)
    \/ Turn \/ Done

Safety == Init /\ [][Next]_vars
Spec   == Safety /\ WF_vars(Turn \/ Done)

------------------------------------------------------------------------------
(* Type invariant: what each variable may hold; no turn reads behind the     *)
(* bytes that were asked for.                                               *)
TypeOK ==
    /\ DOMAIN files \subseteq Names
    /\ \A n \in DOMAIN files : files[n] \in Contents
    /\ handle = Closed \/ handle \in [name : DOMAIN files, pos : 0 .. MaxSize]
    /\ call \in {Idle} \cup 0 .. MaxLength
    /\ ~Ready => Open(handle) /\ i <= call
    /\ i \in 0 .. MaxLength /\ count \in 0 .. 2 * MaxLength
    /\ buffer \in [1 .. MaxLength -> Data \cup {NoByte}]
    /\ calls \in 0 .. MaxCalls

(* While the turns go on the position is still where the read began; the     *)
(* data of a read that succeeded are the first count bytes of the buffer.   *)
HandleSeen == IF Ready THEN handle ELSE [handle EXCEPT !.pos = @ - i]
ResultSeen ==
    IF result.op # "read" THEN result
    ELSE [op |-> "read", ret |-> result.ret,
          data |-> IF result.ret = 0 THEN SubSeq(buffer, 1, result.count)
                                     ELSE <<>>]

File == INSTANCE FileSpec WITH handle <- HandleSeen, result <- ResultSeen

(* softsim_fs_* are the calls of FileSpec: a read in turns gives exactly the *)
(* bytes that one read would have given, whatever its length is to the       *)
(* chunk and to the end of the file, and moves behind them; a whence means   *)
(* the same to the library and to the platform.                             *)
ImplementsFile == File!FileSpecification

(* A read comes to an end, also at the end of the file. *)
ReadReturns == ~Ready ~> Ready
==============================================================================
