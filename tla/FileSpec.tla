------------------------------- MODULE FileSpec -------------------------------
(***************************************************************************)
(* The files as softsim_lib.lib sees them through softsim_fs_*: a call acts *)
(* once, or fails.  Only a read has a beginning and an end, because only    *)
(* softsim_fs_Read makes several calls of the platform; the others pass     *)
(* their arguments on to one.  The library uses one handle at a time here;  *)
(* softsim_fs_Commit does nothing and has no action.                        *)
(***************************************************************************)
EXTENDS Integers, Sequences

CONSTANTS
    Names,      \* file names
    Data,       \* bytes
    MaxSize,    \* bound: longest file
    MaxLength   \* bound: longest read

ASSUME FileAssumption ==
    "" \notin Names /\ MaxSize \in Nat /\ MaxLength \in Nat

VARIABLES
    files,      \* the files that exist and their contents
    handle,     \* the open file: [name, pos], or Closed
    call,       \* the length that a read in progress asks for, or Idle
    result      \* what the last call returned

fileVars == <<files, handle, call, result>>

Closed == [name |-> "", pos |-> 0]
Idle   == -1
Begun  == [op |-> "begun"]

EAT_FS_FILE_NOT_FOUND == -9
Failed   == -1      \* any status of the platform but QAPI_OK
Contents == UNION {[1 .. n -> Data] : n \in 0 .. MaxSize}

\* Whether the file is open and no read in progress
Open(h)   == h # Closed
Ready     == call = Idle
Text      == files[handle.name]
Least(m, n) == IF m <= n THEN m ELSE n

\* Bytes from the position to the end, which a seek may have passed
Left == IF handle.pos < Len(Text) THEN Len(Text) - handle.pos ELSE 0

FileInit ==
    /\ \E n \in Names, d \in Contents : files = [m \in {n} |-> d]
    /\ handle = Closed /\ call = Idle /\ result = Begun

------------------------------------------------------------------------------
\* softsim_fs_Open: every failure of the platform is "not found".
FsOpen(n, create) ==
    /\ Ready /\ ~Open(handle)
    /\ \/ /\ n \in DOMAIN files \/ create
          /\ files' = [m \in DOMAIN files \cup {n} |->
                          IF m \in DOMAIN files THEN files[m] ELSE <<>>]
          /\ handle' = [name |-> n, pos |-> 0]
          /\ result' = [op |-> "open", ret |-> 0]
       \/ /\ result' = [op |-> "open", ret |-> EAT_FS_FILE_NOT_FOUND]
          /\ UNCHANGED <<files, handle>>
    /\ UNCHANGED call

\* softsim_fs_Close: one that fails may have released the handle or not.
FsClose ==
    /\ Ready /\ Open(handle)
    /\ \/ /\ handle' = Closed
          /\ \E ret \in {0, Failed} : result' = [op |-> "close", ret |-> ret]
       \/ result' = [op |-> "close", ret |-> Failed] /\ UNCHANGED handle
    /\ UNCHANGED <<files, call>>

\* The platform writes d, which is all or a part of what it was given, over what
\* is at the position; files without gaps.
FsWrite(d) ==
    /\ Ready /\ Open(handle)
    /\ handle.pos <= Len(Text) /\ handle.pos + Len(d) <= MaxSize
    /\ files' = [files EXCEPT ![handle.name] =
                    SubSeq(@, 1, handle.pos) \o d
                    \o SubSeq(@, handle.pos + Len(d) + 1, Len(@))]
    /\ handle' = [handle EXCEPT !.pos = @ + Len(d)]
    /\ \E ret \in {0, Failed} :
           result' = [op |-> "write", ret |-> ret, count |-> Len(d)]
    /\ UNCHANGED call

\* softsim_fs_GetFileSize: a failure looks like an empty file.
FsGetFileSize ==
    /\ Ready /\ Open(handle)
    /\ \E size \in {Len(Text), 0} : result' = [op |-> "size", ret |-> 0, count |-> size]
    /\ UNCHANGED <<files, handle, call>>

\* Not for the open file.
FsDelete(n) ==
    /\ Ready /\ n # handle.name
    /\ \/ /\ n \in DOMAIN files
          /\ files' = [m \in DOMAIN files \ {n} |-> files[m]]
          /\ result' = [op |-> "delete", ret |-> 0]
       \/ result' = [op |-> "delete", ret |-> Failed] /\ UNCHANGED files
    /\ UNCHANGED <<handle, call>>

FsRename(n, m) ==
    /\ Ready /\ handle.name \notin {n, m} /\ n # m
    /\ \/ /\ n \in DOMAIN files
          /\ files' = [k \in (DOMAIN files \ {n}) \cup {m} |->
                          IF k = m THEN files[n] ELSE files[k]]
          /\ result' = [op |-> "rename", ret |-> 0]
       \/ result' = [op |-> "rename", ret |-> Failed] /\ UNCHANGED files
    /\ UNCHANGED <<handle, call>>

\* What softsim_fs_* pass on to one function of the platform
OneCall ==
    \/ \E n \in Names, create \in BOOLEAN : FsOpen(n, create)
    \/ FsClose
    \/ \E d \in Contents : FsWrite(d)
    \/ FsGetFileSize
    \/ \E n \in Names : FsDelete(n)
    \/ \E n, m \in Names : FsRename(n, m)

------------------------------------------------------------------------------
Whences == {"begin", "current", "end"}

Base(whence) == CASE whence = "begin"   -> 0
                  [] whence = "current" -> handle.pos
                  [] whence = "end"     -> Len(Text)

\* The new position, or 0 and the old position.
Seek(offset, whence) ==
    /\ Ready /\ Open(handle)
    /\ \/ /\ Base(whence) + offset \in 0 .. MaxSize
          /\ handle' = [handle EXCEPT !.pos = Base(whence) + offset]
          /\ result' = [op |-> "seek", ret |-> Base(whence) + offset]
       \/ result' = [op |-> "seek", ret |-> 0] /\ UNCHANGED handle
    /\ UNCHANGED <<files, call>>

ReadCall(length) ==
    /\ Ready /\ Open(handle)
    /\ call' = length /\ result' = Begun
    /\ UNCHANGED <<files, handle>>

\* A read gives the bytes at the position, as many as there are, and moves
\* behind them; one that fails may have moved too.  A read of nothing is
\* reported as failed.
ReadReturn ==
    /\ ~Ready
    /\ \/ LET n == Least(call, Left)
          IN /\ handle' = [handle EXCEPT !.pos = @ + n]
             /\ result' = [op   |-> "read", ret |-> IF call = 0 THEN -1 ELSE 0,
                           data |-> SubSeq(Text, handle.pos + 1, handle.pos + n)]
       \/ /\ \E n \in 0 .. Least(call, Left) :
                 handle' = [handle EXCEPT !.pos = @ + n]
          /\ result' = [op |-> "read", ret |-> Failed, data |-> <<>>]
    /\ call' = Idle
    /\ UNCHANGED files

FileNext ==
    \/ OneCall
    \/ \E whence \in Whences, offset \in -MaxSize .. MaxSize : Seek(offset, whence)
    \/ \E length \in 0 .. MaxLength : ReadCall(length)
    \/ ReadReturn

FileSpecification == FileInit /\ [][FileNext]_fileVars
==============================================================================
