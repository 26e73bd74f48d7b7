----------------------------- MODULE FsPortProofs -----------------------------
(***************************************************************************)
(* Proofs about FsPort, for files and reads of any size and a chunk of any  *)
(* size: the turns of softsim_fs_Read together are one read.  Turns says    *)
(* what is done after each of them: the position is i bytes behind where    *)
(* the read began, and those bytes are in the buffer.                       *)
(***************************************************************************)
EXTENDS FsPort, SequenceTheorems, TLAPS

(* A read in progress after i bytes, all of them from whole turns. *)
Turns == ~Ready =>
    /\ result = Begun
    /\ i <= handle.pos
    /\ i > 0 => handle.pos <= Len(Text) /\ count <= MaxLength
    /\ \A k \in 1 .. i : buffer[k] = Text[handle.pos - i + k]

IInv == TypeOK /\ Turns

\* The bounds are numbers.
LEMMA Bounds ==
  /\ MaxSize \in Nat /\ MaxLength \in Nat
  /\ Chunk \in Nat /\ Chunk > 0 /\ MaxCalls \in Nat
<1>1. MaxSize \in Nat /\ MaxLength \in Nat
  BY FileAssumption, Zenon
<1>2. Chunk \in Nat /\ Chunk > 0
  <2>1. Chunk \in Nat \ {0}
    BY PortAssumption, Zenon
  <2> QED
    BY <2>1
<1> QED
  BY <1>1, <1>2, PortAssumption, Zenon

\* A file is a sequence of at most MaxSize bytes.
LEMMA FilesAreSequences ==
  /\ \A s \in Contents : s \in Seq(Data) /\ Len(s) \in 0 .. MaxSize
  /\ \A s \in Seq(Data) : Len(s) <= MaxSize => s \in Contents
<1>1. ASSUME NEW s \in Contents PROVE s \in Seq(Data) /\ Len(s) \in 0 .. MaxSize
  <2>1. PICK n \in 0 .. MaxSize : s \in [1 .. n -> Data]
    BY DEF Contents
  <2>2. s \in Seq(Data) /\ Len(s) = n
    BY <2>1, SeqDef, LenProperties, Bounds
  <2> QED
    BY <2>1, <2>2
<1>2. ASSUME NEW s \in Seq(Data), Len(s) <= MaxSize PROVE s \in Contents
  <2>1. s \in [1 .. Len(s) -> Data] /\ Len(s) \in 0 .. MaxSize
    BY <1>2, LenProperties, Bounds
  <2> QED
    BY <2>1 DEF Contents
<1> QED
  BY <1>1, <1>2

\* The open file exists, and the position is a number.
LEMMA OpenFile ==
  ASSUME TypeOK, Open(handle)
  PROVE  /\ handle \in [name : DOMAIN files, pos : 0 .. MaxSize]
         /\ handle.pos \in 0 .. MaxSize /\ handle.name \in DOMAIN files
         /\ Text \in Contents /\ Text \in Seq(Data) /\ Len(Text) \in 0 .. MaxSize
         /\ Left \in Nat /\ handle.pos + Left <= MaxSize
<1>1. handle \in [name : DOMAIN files, pos : 0 .. MaxSize]
  BY DEF TypeOK, Open
<1>2. handle.pos \in 0 .. MaxSize /\ handle.name \in DOMAIN files
  BY <1>1
<1>3. Text \in Contents
  BY <1>2 DEF TypeOK, Text
<1>4. Text \in Seq(Data) /\ Len(Text) \in 0 .. MaxSize
  BY <1>3, FilesAreSequences
<1>5. Left \in Nat /\ handle.pos + Left <= MaxSize
  BY <1>2, <1>4, Bounds DEF Left
<1> QED
  BY <1>1, <1>2, <1>3, <1>4, <1>5

\* One turn asks for what is left of the read, and gets what is left of the file.
LEMMA TurnSize ==
  ASSUME TypeOK, ~Ready, i < call
  PROVE  /\ call \in Nat /\ i \in Nat /\ i + Asked <= call /\ call <= MaxLength
         /\ Asked \in Nat /\ Asked > 0
         /\ Got \in 0 .. Asked /\ Got <= Left /\ (Got = Asked \/ Got = Left)
<1>1. call \in 0 .. MaxLength /\ i \in 0 .. MaxLength
  BY DEF TypeOK, Ready
<1>2. Left \in Nat
  BY OpenFile DEF TypeOK
<1>3. Asked \in Nat /\ Asked > 0 /\ i + Asked <= call
  BY <1>1, Bounds DEF Asked, Least
<1>4. Got \in 0 .. Asked /\ Got <= Left /\ (Got = Asked \/ Got = Left)
  BY <1>2, <1>3 DEF Got, Least
<1> QED
  BY <1>1, <1>3, <1>4, Bounds

\* A file of any contents, closed.
LEMMA InitIInv == Init => IInv
<1> SUFFICES ASSUME Init PROVE IInv
  OBVIOUS
<1>1. PICK n \in Names, d \in Contents : files = [m \in {n} |-> d]
  BY DEF Init, FileInit
<1>2. buffer \in [1 .. MaxLength -> Data \cup {NoByte}]
  BY DEF Init, Fresh
<1>3. DOMAIN files \subseteq Names /\ \A m \in DOMAIN files : files[m] \in Contents
  BY <1>1
<1>4. call = Idle /\ handle = Closed /\ i = 0 /\ count = 0 /\ calls = 0
  BY DEF Init, FileInit
<1> QED
  BY <1>2, <1>3, <1>4, Bounds
  DEF IInv, TypeOK, Turns, Ready, Open

(* The files and the handle that TypeOK describes. *)
FilesOK ==
    /\ DOMAIN files \subseteq Names
    /\ \A n \in DOMAIN files : files[n] \in Contents
    /\ handle = Closed \/ handle \in [name : DOMAIN files, pos : 0 .. MaxSize]

\* Opening creates an empty file, or none.
LEMMA OpenKeeps ==
  ASSUME FilesOK, NEW n \in Names, NEW create \in BOOLEAN, FsOpen(n, create)
  PROVE  FilesOK'
<1>1. CASE UNCHANGED <<files, handle>>
  BY <1>1 DEF FilesOK
<1>2. CASE /\ files' = [m \in DOMAIN files \cup {n} |->
                          IF m \in DOMAIN files THEN files[m] ELSE <<>>]
           /\ handle' = [name |-> n, pos |-> 0]
  <2>1. << >> \in Contents
    <3>1. << >> \in Seq(Data) /\ Len(<< >>) <= MaxSize
      BY Bounds
    <3> QED
      BY <3>1, FilesAreSequences
  <2>2. DOMAIN files' = DOMAIN files \cup {n}
    BY <1>2
  <2>3. \A m \in DOMAIN files' : files'[m] \in Contents
    BY <1>2, <2>1, <2>2 DEF FilesOK
  <2>4. handle' \in [name : DOMAIN files', pos : 0 .. MaxSize]
    BY <1>2, <2>2, Bounds
  <2> QED
    BY <2>2, <2>3, <2>4 DEF FilesOK
<1> QED
  BY <1>1, <1>2 DEF FsOpen

\* A write leaves a file of at most MaxSize bytes, and moves behind the data.
LEMMA WriteKeeps ==
  ASSUME TypeOK, NEW d \in Contents, FsWrite(d) PROVE FilesOK'
<1>1. Open(handle) /\ handle.pos <= Len(Text) /\ handle.pos + Len(d) <= MaxSize
  BY DEF FsWrite
<1>2. d \in Seq(Data) /\ Len(d) \in Nat
  BY FilesAreSequences, Bounds
<1>3. /\ handle.pos \in Nat /\ handle.name \in DOMAIN files
      /\ Text \in Seq(Data) /\ Len(Text) \in 0 .. MaxSize
  BY <1>1, OpenFile, Bounds
<1> DEFINE before == SubSeq(Text, 1, handle.pos)
           after  == SubSeq(Text, handle.pos + Len(d) + 1, Len(Text))
<1>4. before \in Seq(Data) /\ Len(before) = handle.pos
  BY <1>1, <1>3
<1>5. /\ after \in Seq(Data)
      /\ handle.pos + Len(d) + Len(after) <= MaxSize
  BY <1>1, <1>2, <1>3, Bounds
<1>6. before \o d \o after \in Seq(Data) /\ Len(before \o d \o after) <= MaxSize
  BY <1>2, <1>3, <1>4, <1>5
<1>7. files' = [files EXCEPT ![handle.name] = before \o d \o after]
  BY DEF FsWrite, Text
<1>8. before \o d \o after \in Contents
  BY <1>6, FilesAreSequences
<1>9. /\ DOMAIN files' = DOMAIN files
      /\ \A n \in DOMAIN files' : files'[n] \in Contents
  BY <1>7, <1>8 DEF TypeOK
<1>10. handle' \in [name : DOMAIN files', pos : 0 .. MaxSize]
  <2>1. handle \in [name : DOMAIN files, pos : 0 .. MaxSize]
    BY <1>1, OpenFile
  <2>2. handle' = [handle EXCEPT !.pos = @ + Len(d)]
    BY DEF FsWrite
  <2>3. handle.pos + Len(d) \in 0 .. MaxSize
    BY <1>1, <1>2, <1>3, Bounds
  <2> QED
    BY <1>9, <2>1, <2>2, <2>3
<1> QED
  BY <1>9, <1>10 DEF TypeOK, FilesOK

\* Deleting and renaming leave the open file alone.
LEMMA NameKeeps ==
  ASSUME FilesOK, NEW n \in Names, NEW m \in Names, FsDelete(n) \/ FsRename(n, m)
  PROVE  FilesOK'
<1>1. handle' = handle /\ (handle = Closed \/ handle.name \in DOMAIN files)
  BY DEF FsDelete, FsRename, FilesOK
<1>2. CASE files' = files
  BY <1>1, <1>2 DEF FilesOK
<1>3. CASE n # handle.name /\ files' = [k \in DOMAIN files \ {n} |-> files[k]]
  BY <1>1, <1>3 DEF FilesOK
<1>4. CASE /\ n \in DOMAIN files /\ handle.name \notin {n, m}
           /\ files' = [k \in (DOMAIN files \ {n}) \cup {m} |->
                          IF k = m THEN files[n] ELSE files[k]]
  <2>1. DOMAIN files' = (DOMAIN files \ {n}) \cup {m}
    BY <1>4
  <2>2. \A k \in DOMAIN files' : files'[k] \in Contents
    BY <1>4, <2>1 DEF FilesOK
  <2> QED
    BY <1>1, <1>4, <2>1, <2>2 DEF FilesOK
<1> QED
  BY <1>2, <1>3, <1>4 DEF FsDelete, FsRename

\* The calls that softsim_fs_* pass on keep the files files, and they are made
\* between two reads.
LEMMA OneCallStep ==
  ASSUME IInv, Called, OneCall, UNCHANGED loop PROVE IInv' /\ Ready /\ Ready'
<1>1. Ready /\ call' = call /\ i' = i /\ count' = count /\ buffer' = buffer
  BY DEF OneCall, FsOpen, FsClose, FsWrite, FsGetFileSize, FsDelete, FsRename, loop
<1>2. calls' \in 0 .. MaxCalls
  BY Bounds DEF Called, IInv, TypeOK
<1>3. FilesOK
  BY DEF FilesOK, IInv, TypeOK
<1>4. ASSUME FsClose \/ FsGetFileSize PROVE FilesOK'
  <2>1. files' = files /\ (handle' = handle \/ handle' = Closed)
    BY <1>4, Zenon DEF FsClose, FsGetFileSize
  <2> QED
    BY <1>3, <2>1 DEF FilesOK
<1>5. FilesOK'
  <2>1. ASSUME NEW d \in Contents, FsWrite(d) PROVE FilesOK'
    BY <2>1, WriteKeeps DEF IInv
  <2>2. ASSUME NEW n \in Names, NEW create \in BOOLEAN, FsOpen(n, create)
        PROVE  FilesOK'
    BY <1>3, <2>2, OpenKeeps
  <2>3. ASSUME NEW n \in Names, NEW m \in Names, FsDelete(n) \/ FsRename(n, m)
        PROVE  FilesOK'
    BY <1>3, <2>3, NameKeeps
  <2> QED
    BY <1>4, <2>1, <2>2, <2>3, Zenon DEF OneCall
<1>6. Ready'
  BY <1>1 DEF Ready
<1> QED
  BY <1>1, <1>2, <1>5, <1>6 DEF IInv, TypeOK, Turns, FilesOK

\* A seek moves the position within MaxSize, or not at all.
LEMMA SeekStep ==
  ASSUME IInv, NEW offset \in -MaxSize .. MaxSize, NEW whence \in 0 .. 2,
         FsSeek(offset, whence)
  PROVE  IInv' /\ Ready /\ Ready'
<1>1. PICK w : Called /\ Seek(offset, w) /\ UNCHANGED loop
  BY DEF FsSeek
<1>2. /\ Ready /\ call' = call /\ files' = files
      /\ i' = i /\ count' = count /\ buffer' = buffer
      /\ Open(handle)
  BY <1>1 DEF Seek, loop
<1>3. calls' \in 0 .. MaxCalls
  BY <1>1, Bounds DEF Called, IInv, TypeOK
<1>4. handle' \in [name : DOMAIN files', pos : 0 .. MaxSize]
  <2>1. handle \in [name : DOMAIN files, pos : 0 .. MaxSize]
    BY <1>2, OpenFile DEF IInv
  <2>2. \/ handle' = handle
        \/ \E p \in 0 .. MaxSize : handle' = [handle EXCEPT !.pos = p]
    BY <1>1, Zenon DEF Seek
  <2> QED
    BY <1>2, <2>1, <2>2
<1>5. Ready'
  BY <1>2 DEF Ready
<1> QED
  BY <1>2, <1>3, <1>4, <1>5 DEF IInv, TypeOK, Turns

\* A read begins with no bytes done.
LEMMA ReadStep ==
  ASSUME IInv, NEW length \in 0 .. MaxLength, FsRead(length)
  PROVE  IInv' /\ Ready /\ ~Ready'
<1>1. /\ Ready /\ Open(handle) /\ call' = length /\ result' = Begun
      /\ files' = files /\ handle' = handle
      /\ i' = 0 /\ buffer' = Fresh /\ count' = count
  BY DEF FsRead, ReadCall
<1>2. calls' \in 0 .. MaxCalls
  BY Bounds DEF FsRead, Called, IInv, TypeOK
<1>3. buffer' \in [1 .. MaxLength -> Data \cup {NoByte}]
  BY <1>1 DEF Fresh
<1>4. handle.pos \in Nat
  BY <1>1, OpenFile, Bounds DEF IInv
<1>5. TypeOK'
  BY <1>1, <1>2, <1>3, Bounds DEF IInv, TypeOK, Open, Ready
<1>6. Turns'
  BY <1>1, <1>4 DEF Turns
<1>7. ~Ready'
  BY <1>1, Bounds DEF Ready, Idle
<1> QED
  BY <1>1, <1>5, <1>6, <1>7 DEF IInv

\* What the turn puts into the buffer: the bytes at the position, behind those
\* of the turns before it.
LEMMA Gathered ==
  ASSUME IInv, ~Ready, i < call
  PROVE  /\ Into(Got) \in [1 .. MaxLength -> Data \cup {NoByte}]
         /\ \A k \in 1 .. i + Got : k \in 1 .. MaxLength
                /\ Into(Got)[k] = Text[handle.pos - i + k]
         /\ handle.pos + Got \in 0 .. MaxSize
         /\ Got > 0 => handle.pos + Got <= Len(Text)
<1>1. /\ handle.pos \in Nat /\ Text \in Seq(Data) /\ Len(Text) \in Nat
      /\ Left \in Nat /\ handle.pos + Left <= MaxSize
  BY OpenFile, Bounds DEF IInv, TypeOK
<1>2. /\ i \in Nat /\ Got \in Nat /\ i + Got <= MaxLength /\ Got <= Left
  BY TurnSize, Bounds DEF IInv
<1>3. Got > 0 => handle.pos + Got <= Len(Text)
  BY <1>1, <1>2 DEF Left
<1>4. \A k \in i + 1 .. i + Got : Text[handle.pos + k - i] \in Data
  <2>1. ASSUME NEW k \in i + 1 .. i + Got PROVE handle.pos + k - i \in 1 .. Len(Text)
    BY <1>1, <1>2, <1>3
  <2> QED
    BY <1>1, <2>1, ElementOfSeq
<1>5. buffer \in [1 .. MaxLength -> Data \cup {NoByte}]
  BY DEF IInv, TypeOK
<1>6. Into(Got) \in [1 .. MaxLength -> Data \cup {NoByte}]
  BY <1>4, <1>5 DEF Into
<1>7. ASSUME NEW k \in 1 .. i + Got
      PROVE  k \in 1 .. MaxLength /\ Into(Got)[k] = Text[handle.pos - i + k]
  <2>1. k \in 1 .. MaxLength
    BY <1>2, Bounds
  <2>2. CASE k \in i + 1 .. i + Got
    <3>1. Into(Got)[k] = Text[handle.pos + k - i]
      BY <2>1, <2>2 DEF Into
    <3>2. handle.pos + k - i = handle.pos - i + k
      BY <1>1, <1>2
    <3> QED
      BY <2>1, <3>1, <3>2
  <2>3. CASE k \notin i + 1 .. i + Got
    <3>1. k \in 1 .. i
      BY <1>2, <2>3
    <3>2. Into(Got)[k] = buffer[k]
      BY <2>1, <2>3 DEF Into
    <3> QED
      BY <2>1, <3>1, <3>2 DEF IInv, Turns
  <2> QED
    BY <2>2, <2>3
<1> QED
  BY <1>1, <1>2, <1>3, <1>6, <1>7, Bounds

\* A turn that is not the last one.
WholeTurn ==
    /\ Got = Asked
    /\ handle' = [handle EXCEPT !.pos = @ + Got] /\ buffer' = Into(Got)
    /\ i' = i + Asked /\ count' = Got
    /\ UNCHANGED <<call, result, files, calls>>

\* The last turn of a read that succeeds, and of one that fails.
LastTurn ==
    /\ Got = Left /\ Got < Asked
    /\ handle' = [handle EXCEPT !.pos = @ + Got] /\ buffer' = Into(Got)
    /\ Return(0, Got + i)
    /\ UNCHANGED <<i, files, calls>>

FailedTurn ==
    /\ \E n \in 0 .. Got : handle' = [handle EXCEPT !.pos = @ + n]
    /\ Return(Failed, count + i)
    /\ UNCHANGED <<i, buffer, files, calls>>

\* A turn is one of these.
LEMMA TurnKinds ==
  ASSUME IInv, Turn
  PROVE  ~Ready /\ i < call /\ (WholeTurn \/ LastTurn \/ FailedTurn)
<1>1. ~Ready /\ i < call
  BY DEF Turn
<1>2. Got # Asked => Got = Left /\ Got < Asked
  BY <1>1, TurnSize DEF IInv
<1> QED
  BY <1>1, <1>2, Zenon DEF Turn, WholeTurn, LastTurn, FailedTurn

\* What a turn does to the handle.
LEMMA Moved ==
  ASSUME IInv, ~Ready, i < call, NEW n \in 0 .. Got,
         handle' = [handle EXCEPT !.pos = @ + n], files' = files
  PROVE  /\ handle' \in [name : DOMAIN files', pos : 0 .. MaxSize]
         /\ handle'.pos = handle.pos + n /\ handle'.name = handle.name
         /\ Open(handle)'
<1>1. Open(handle) /\ handle \in [name : DOMAIN files, pos : 0 .. MaxSize]
  BY OpenFile DEF IInv, TypeOK
<1>2. handle.pos \in Nat /\ handle.pos + Got <= MaxSize /\ Got \in Nat
  BY <1>1, OpenFile, Gathered, TurnSize, Bounds DEF IInv
<1>3. handle.pos + n \in 0 .. MaxSize
  BY <1>2, Bounds
<1>4. /\ handle' \in [name : DOMAIN files', pos : 0 .. MaxSize]
      /\ handle'.pos = handle.pos + n /\ handle'.name = handle.name
  BY <1>1, <1>3
<1>5. handle.name \in Names
  BY <1>1 DEF IInv, TypeOK
<1>6. handle.name # ""
  BY <1>5, FileAssumption, Zenon
<1>7. handle' # Closed
  BY <1>4, <1>6 DEF Closed
<1> QED
  BY <1>4, <1>7 DEF Open

\* The invariant across a turn.
LEMMA TurnStep ==
  ASSUME IInv, Turn PROVE IInv'
<1>1. ~Ready /\ i < call
  BY TurnKinds
<1>2. /\ call \in 0 .. MaxLength /\ i \in Nat /\ Got \in 0 .. Asked
      /\ Asked \in Nat /\ Asked > 0 /\ i + Asked <= call
      /\ count \in 0 .. 2 * MaxLength
      /\ handle.pos \in Nat /\ i <= handle.pos
      /\ i > 0 => count <= MaxLength
  BY <1>1, TurnSize, OpenFile, Bounds DEF IInv, TypeOK, Ready, Turns
<1>3. CASE WholeTurn
  <2>1. /\ handle' \in [name : DOMAIN files', pos : 0 .. MaxSize]
        /\ handle'.pos = handle.pos + Got /\ Text' = Text /\ Open(handle)'
    BY <1>1, <1>2, <1>3, Moved DEF WholeTurn, Text
  <2>2. TypeOK'
    <3>1. i' \in 0 .. MaxLength /\ i' <= call /\ count' \in 0 .. 2 * MaxLength
      BY <1>2, <1>3, Bounds DEF WholeTurn
    <3>2. buffer' \in [1 .. MaxLength -> Data \cup {NoByte}]
      BY <1>1, <1>3, Gathered DEF WholeTurn
    <3> QED
      BY <1>3, <2>1, <3>1, <3>2 DEF WholeTurn, IInv, TypeOK
  <2>3. /\ i' <= handle'.pos /\ handle'.pos <= Len(Text') /\ count' <= MaxLength
        /\ handle'.pos - i' = handle.pos - i
    BY <1>1, <1>2, <1>3, <2>1, Gathered, Bounds DEF WholeTurn
  <2>4. \A k \in 1 .. i' : buffer'[k] = Text'[handle'.pos - i' + k]
    BY <1>1, <1>3, <2>1, <2>3, Gathered DEF WholeTurn
  <2>5. result' = Begun
    BY <1>1, <1>3 DEF WholeTurn, IInv, Turns
  <2> QED
    BY <2>2, <2>3, <2>4, <2>5 DEF IInv, Turns
<1>4. CASE LastTurn \/ FailedTurn
  <2>1. PICK n \in 0 .. Got : handle' = [handle EXCEPT !.pos = @ + n]
    BY <1>2, <1>4 DEF LastTurn, FailedTurn
  <2>2. /\ files' = files /\ calls' = calls /\ i' = i /\ call' = Idle
        /\ count' = Got + i \/ count' = count + i
        /\ buffer' = Into(Got) \/ buffer' = buffer
    BY <1>4, Zenon DEF LastTurn, FailedTurn, Return
  <2>3. handle' \in [name : DOMAIN files', pos : 0 .. MaxSize]
    BY <1>1, <2>1, <2>2, Moved
  <2>4. count' \in 0 .. 2 * MaxLength
    BY <1>2, <2>2, Bounds
  <2>5. buffer' \in [1 .. MaxLength -> Data \cup {NoByte}]
    BY <1>1, <2>2, Gathered DEF IInv, TypeOK
  <2>6. Ready'
    BY <2>2 DEF Ready
  <2>7. call' \in {Idle} \cup 0 .. MaxLength
    BY <2>2
  <2>8. FilesOK'
    BY <2>2, <2>3 DEF FilesOK, IInv, TypeOK
  <2> QED
    BY <2>2, <2>4, <2>5, <2>6, <2>7, <2>8 DEF IInv, TypeOK, FilesOK, Turns
<1> QED
  BY <1>3, <1>4, TurnKinds

\* The invariant when the turns are over.
LEMMA DoneStep ==
  ASSUME IInv, Done PROVE IInv'
<1>1. /\ call' = Idle /\ count' = i
      /\ UNCHANGED <<files, handle, i, buffer, calls>>
  BY DEF Done, Return
<1>2. count' \in 0 .. 2 * MaxLength
  BY <1>1, Bounds DEF IInv, TypeOK
<1>3. Ready'
  BY <1>1 DEF Ready
<1> QED
  BY <1>1, <1>2, <1>3 DEF IInv, TypeOK, Turns

(* The inductive invariant holds in every reachable state. *)
THEOREM Inductive == Safety => []IInv
<1>1. IInv /\ [Next]_vars => IInv'
  <2> SUFFICES ASSUME IInv, [Next]_vars PROVE IInv'
    OBVIOUS
  <2>1. CASE UNCHANGED vars
    <3>1. UNCHANGED <<files, handle, call, result, i, count, buffer, calls>>
      BY <2>1 DEF vars, fileVars, loop
    <3>2. Ready' = Ready /\ Text' = Text /\ Open(handle)' = Open(handle)
      BY <3>1 DEF Ready, Text, Open
    <3> QED
      BY <3>1, <3>2 DEF IInv, TypeOK, Turns
  <2> QED
    BY <2>1, OneCallStep, SeekStep, ReadStep, TurnStep, DoneStep DEF Next
<1> QED
  BY <1>1, InitIInv, PTL DEF Safety

(* Files, handle, position and buffer keep their types, whatever is opened,   *)
(* written, renamed and read, in however many turns.                        *)
THEOREM Types == Safety => []TypeOK
<1>1. IInv => TypeOK
  BY DEF IInv
<1> QED
  BY <1>1, Inductive, PTL

------------------------------------------------------------------------------
(* The refinement: a turn that is not the last one is a stutter, the last    *)
(* one returns the read.                                                    *)

\* The position is still where the read began.
LEMMA SeenInRead ==
  ASSUME IInv, ~Ready
  PROVE  /\ HandleSeen = [handle EXCEPT !.pos = @ - i]
         /\ HandleSeen.pos = handle.pos - i /\ HandleSeen.name = handle.name
         /\ File!Text = Text /\ File!Ready = FALSE
         /\ handle.pos \in Nat /\ i \in Nat /\ i <= handle.pos /\ i <= call
         /\ call \in 0 .. MaxLength
         /\ Len(Text) \in Nat /\ Text \in Seq(Data)
         /\ i > 0 => handle.pos <= Len(Text)
         /\ File!Left = IF i > 0 THEN Left + i ELSE Left
<1>1. /\ handle \in [name : DOMAIN files, pos : 0 .. MaxSize]
      /\ handle.pos \in Nat /\ i \in Nat /\ i <= handle.pos /\ i <= call
      /\ call \in 0 .. MaxLength
      /\ Len(Text) \in Nat /\ Text \in Seq(Data)
      /\ i > 0 => handle.pos <= Len(Text)
  BY OpenFile, Bounds DEF IInv, TypeOK, Turns, Ready
<1>2. HandleSeen = [handle EXCEPT !.pos = @ - i]
  BY DEF HandleSeen
<1>3. HandleSeen.pos = handle.pos - i /\ HandleSeen.name = handle.name
  BY <1>1, <1>2
<1>4. File!Text = Text
  BY <1>3 DEF File!Text, Text
<1>5. File!Ready = FALSE
  BY DEF File!Ready, File!Idle, Ready, Idle
<1>6. File!Left = IF i > 0 THEN Left + i ELSE Left
  BY <1>1, <1>3, <1>4 DEF File!Left, Left
<1> QED
  BY <1>1, <1>2, <1>3, <1>4, <1>5, <1>6

\* A read that returned n bytes shows the first n of the buffer.
LEMMA SeenResult ==
  ASSUME NEW n, result' = [op |-> "read", ret |-> 0, count |-> n]
  PROVE  ResultSeen' = [op |-> "read", ret |-> 0, data |-> SubSeq(buffer', 1, n)]
  BY DEF ResultSeen

\* The first n bytes of the buffer, when they are those at the position at
\* which the read began.
LEMMA SameBytes ==
  ASSUME NEW b \in [1 .. MaxLength -> Data \cup {NoByte}], NEW t \in Seq(Data),
         NEW p \in Nat, NEW n \in 0 .. MaxLength, n > 0 => p + n <= Len(t),
         \A k \in 1 .. n : b[k] = t[p + k]
  PROVE  SubSeq(b, 1, n) = SubSeq(t, p + 1, p + n)
<1>1. b \in Seq(Data \cup {NoByte}) /\ Len(b) = MaxLength
  BY SeqDef, LenProperties, Bounds
<1>2. n \in Nat /\ n <= MaxLength /\ Len(t) \in Nat
  BY Bounds
<1>3. CASE n = 0
  BY <1>1, <1>2, <1>3
<1>4. CASE n > 0
  <2>1. /\ SubSeq(b, 1, n) = [k \in 1 .. n |-> b[k]]
        /\ SubSeq(t, p + 1, p + n) = [k \in 1 .. n |-> t[p + k]]
    BY <1>1, <1>2, <1>4
  <2> QED
    BY <2>1
<1> QED
  BY <1>2, <1>3, <1>4

\* A read that succeeds in the end returns what FileSpec's returns.
LEMMA ReadSucceeds ==
  ASSUME IInv, ~Ready, NEW n \in 0 .. MaxLength,
         n = Least(call, File!Left), n >= i,
         NEW ret, ret = IF call = 0 THEN -1 ELSE 0,
         handle' = [handle EXCEPT !.pos = @ + (n - i)],
         call' = Idle, files' = files,
         result' = [op |-> "read", ret |-> ret, count |-> n],
         buffer' \in [1 .. MaxLength -> Data \cup {NoByte}],
         \A k \in 1 .. n : buffer'[k] = Text[handle.pos - i + k]
  PROVE  File!ReadReturn
<1>1. HandleSeen' = [HandleSeen EXCEPT !.pos = @ + n]
  <2>1. HandleSeen' = handle'
    BY DEF HandleSeen, Ready
  <2>2. handle \in [name : DOMAIN files, pos : 0 .. MaxSize]
    BY OpenFile DEF IInv, TypeOK
  <2>3. handle.pos + (n - i) = handle.pos - i + n
    BY SeenInRead, Bounds
  <2> QED
    BY <2>1, <2>2, <2>3, SeenInRead
<1>2. n > 0 => handle.pos - i + n <= Len(Text)
  <2>1. /\ handle.pos \in Nat /\ i \in Nat /\ call \in Nat /\ Len(Text) \in Nat
        /\ i > 0 => handle.pos <= Len(Text)
        /\ File!Left = IF i > 0 THEN Left + i ELSE Left
        /\ i <= handle.pos
    BY SeenInRead, Bounds
  <2>2. Left \in Nat /\ (Left = Len(Text) - handle.pos \/ Left = 0)
        /\ (handle.pos < Len(Text) => Left = Len(Text) - handle.pos)
    BY <2>1 DEF Left
  <2>3. File!Left \in Nat /\ n <= File!Left
    BY <2>1, <2>2 DEF Least
  <2> QED
    BY <2>1, <2>2, <2>3
<1>3. SubSeq(buffer', 1, n) = SubSeq(Text, handle.pos - i + 1, handle.pos - i + n)
  <2>1. handle.pos - i \in Nat
    BY SeenInRead
  <2> QED
    BY <1>2, <2>1, SeenInRead, SameBytes
<1>4. CASE call # 0
  <2>1. ResultSeen' = [op |-> "read", ret |-> 0, data |-> SubSeq(buffer', 1, n)]
    BY <1>4, SeenResult
  <2> QED
    BY <1>1, <1>3, <1>4, <2>1, SeenInRead
    DEF File!ReadReturn, File!Least, File!Idle, Least, Idle
<1>5. CASE call = 0
  <2>1. n = 0
    BY <1>5, SeenInRead, Bounds DEF Least, Left
  <2>2. ResultSeen' = [op |-> "read", ret |-> -1, data |-> <<>>]
    BY <1>5 DEF ResultSeen
  <2>3. SubSeq(Text, handle.pos - i + 1, handle.pos - i + 0) = <<>>
    BY SeenInRead
  <2> QED
    BY <1>1, <1>5, <2>1, <2>2, <2>3, SeenInRead
    DEF File!ReadReturn, File!Least, File!Idle, Least, Idle
<1> QED
  BY <1>4, <1>5

\* Every turn is a stutter or the return of the read.
LEMMA TurnRefines ==
  ASSUME IInv, Turn PROVE File!ReadReturn \/ UNCHANGED File!fileVars
<1>1. ~Ready /\ i < call
  BY TurnKinds
<1>2. /\ call \in Nat /\ call <= MaxLength /\ i \in Nat /\ Got \in 0 .. Asked
      /\ Asked \in Nat /\ Asked > 0 /\ i + Asked <= call /\ Got <= Left
      /\ Left \in Nat /\ handle.pos \in Nat /\ i <= handle.pos
      /\ handle \in [name : DOMAIN files, pos : 0 .. MaxSize]
  BY <1>1, TurnSize, OpenFile, SeenInRead, Bounds DEF IInv, TypeOK
<1>3. CASE WholeTurn
  <2>1. call' = call /\ result' = result /\ files' = files
    BY <1>3 DEF WholeTurn
  <2>2. HandleSeen' = HandleSeen
    <3>1. HandleSeen' = [handle' EXCEPT !.pos = @ - i']
      BY <1>1, <2>1 DEF HandleSeen, Ready
    <3>2. (handle.pos + Got) - i' = handle.pos - i
      BY <1>2, <1>3 DEF WholeTurn
    <3>3. handle' = [handle EXCEPT !.pos = @ + Got]
      BY <1>3 DEF WholeTurn
    <3>4. HandleSeen' = [name |-> handle.name, pos |-> (handle.pos + Got) - i']
      <4>1. handle' = [name |-> handle.name, pos |-> handle.pos + Got]
        BY <1>2, <3>3
      <4> QED
        BY <3>1, <4>1
    <3>5. HandleSeen = [name |-> handle.name, pos |-> handle.pos - i]
      BY <1>1, <1>2, SeenInRead
    <3> QED
      BY <3>2, <3>4, <3>5
  <2>3. ResultSeen' = ResultSeen
    BY <1>1, <2>1 DEF ResultSeen, IInv, Turns, Begun
  <2> QED
    BY <2>1, <2>2, <2>3 DEF File!fileVars
<1>4. CASE LastTurn
  <2> DEFINE n == Got + i
  <2>1. n = Least(call, File!Left) /\ n \in 0 .. MaxLength /\ n >= i
    <3>1. Got = Left /\ Got < Asked
      BY <1>4 DEF LastTurn
    <3>2. File!Left = n
      BY <1>1, <1>2, <3>1, SeenInRead
    <3> QED
      BY <1>2, <3>1, <3>2, Bounds DEF Least
  <2>2. /\ handle' = [handle EXCEPT !.pos = @ + (n - i)] /\ call' = Idle
        /\ result' = [op |-> "read", ret |-> 0, count |-> n]
        /\ files' = files /\ buffer' = Into(Got)
    <3>1. n - i = Got
      BY <1>2
    <3> QED
      BY <1>4, <3>1 DEF LastTurn, Return
  <2>3. /\ buffer' \in [1 .. MaxLength -> Data \cup {NoByte}]
        /\ \A k \in 1 .. n : buffer'[k] = Text[handle.pos - i + k]
    <3>1. n = i + Got
      BY <1>2
    <3> QED
      BY <1>1, <2>2, <3>1, Gathered
  <2>4. 0 = IF call = 0 THEN -1 ELSE 0
    BY <1>1, <1>2
  <2> HIDE DEF n
  <2> QED
    BY <1>1, <2>1, <2>2, <2>3, <2>4, ReadSucceeds
<1>5. CASE FailedTurn
  <2>1. PICK m \in 0 .. Got : handle' = [handle EXCEPT !.pos = @ + m]
    BY <1>5 DEF FailedTurn
  <2>2. call' = Idle /\ files' = files /\ result'.op = "read" /\ result'.ret = -1
    BY <1>5 DEF FailedTurn, Return, Failed
  <2>3. ResultSeen' = [op |-> "read", ret |-> -1, data |-> <<>>]
    BY <2>2 DEF ResultSeen
  <2>4. i + m \in 0 .. Least(call, File!Left)
    BY <1>2, SeenInRead, <1>1, TurnSize DEF IInv, Least
  <2>5. HandleSeen' = [HandleSeen EXCEPT !.pos = @ + (i + m)]
    <3>1. HandleSeen' = handle'
      BY <2>2 DEF HandleSeen, Ready
    <3>2. handle.pos + m = handle.pos - i + (i + m)
      BY <1>2
    <3> QED
      BY <1>1, <1>2, <2>1, <3>1, <3>2, SeenInRead
  <2> QED
    BY <1>1, <2>2, <2>3, <2>4, <2>5, SeenInRead
    DEF File!ReadReturn, File!Failed, File!Least, File!Idle, Least, Idle
<1> QED
  BY <1>3, <1>4, <1>5, TurnKinds

\* When the turns are over without a short one, all that was asked for is there.
LEMMA DoneRefines ==
  ASSUME IInv, Done PROVE File!ReadReturn
<1>1. ~Ready /\ i = call
  BY SeenInRead DEF Done
<1>2. /\ call \in 0 .. MaxLength /\ i \in Nat /\ i <= handle.pos /\ handle.pos \in Nat
      /\ handle \in [name : DOMAIN files, pos : 0 .. MaxSize] /\ Left \in Nat
  BY <1>1, OpenFile, SeenInRead DEF IInv, TypeOK
<1>3. i = Least(call, File!Left)
  BY <1>1, <1>2, SeenInRead, Bounds DEF Least
<1>4. /\ call' = Idle /\ files' = files /\ handle' = handle /\ buffer' = buffer
      /\ result' = [op |-> "read", ret |-> IF call = 0 THEN -1 ELSE 0, count |-> i]
  BY DEF Done, Return
<1>5. handle' = [handle EXCEPT !.pos = @ + (i - i)]
  BY <1>2, <1>4
<1>6. /\ buffer' \in [1 .. MaxLength -> Data \cup {NoByte}]
      /\ \A k \in 1 .. i : buffer'[k] = Text[handle.pos - i + k]
  BY <1>1, <1>4 DEF IInv, TypeOK, Turns
<1>7. i \in 0 .. MaxLength /\ i >= i
  BY <1>1, <1>2
<1> DEFINE ret == IF call = 0 THEN -1 ELSE 0
<1>8. result' = [op |-> "read", ret |-> ret, count |-> i] /\ ret = IF call = 0 THEN -1 ELSE 0
  BY <1>4
<1> HIDE DEF ret
<1> QED
  BY <1>1, <1>3, <1>4, <1>5, <1>6, <1>7, <1>8, ReadSucceeds

\* Between two reads the caller sees the handle and the result as they are.
LEMMA SeenReady ==
  ASSUME Ready PROVE HandleSeen = handle /\ File!Ready /\ call = Idle
  BY DEF HandleSeen, Ready, File!Ready, File!Idle, Idle

\* One call of the platform is the same call of FileSpec.
LEMMA OneCallRefines ==
  ASSUME IInv, Called, OneCall, UNCHANGED loop PROVE File!OneCall
<1>1. Ready /\ Ready'
  BY OneCallStep
<1>2. HandleSeen = handle /\ HandleSeen' = handle' /\ File!Ready
  BY <1>1, SeenReady DEF HandleSeen
<1>3. result'.op # "read" => ResultSeen' = result'
  BY DEF ResultSeen
<1>4. File!Text = Text
  BY <1>2 DEF File!Text, Text
<1>5. ASSUME NEW n \in Names, NEW create \in BOOLEAN, FsOpen(n, create)
      PROVE  File!FsOpen(n, create)
  <2>1. ResultSeen' = result'
    BY <1>3, <1>5 DEF FsOpen
  <2> QED
    BY <1>2, <1>5, <2>1, Zenon
    DEF FsOpen, File!FsOpen, Open, File!Open, Closed, File!Closed,
        EAT_FS_FILE_NOT_FOUND, File!EAT_FS_FILE_NOT_FOUND
<1>6. ASSUME FsClose PROVE File!FsClose
  <2>1. ResultSeen' = result'
    BY <1>3, <1>6 DEF FsClose
  <2> QED
    BY <1>2, <1>6, <2>1, Zenon
    DEF FsClose, File!FsClose, Open, File!Open, Closed, File!Closed, Failed,
        File!Failed
<1>7. ASSUME NEW d \in Contents, FsWrite(d) PROVE File!FsWrite(d)
  <2>1. ResultSeen' = result'
    BY <1>3, <1>7 DEF FsWrite
  <2> QED
    BY <1>2, <1>4, <1>7, <2>1, Zenon
    DEF FsWrite, File!FsWrite, Open, File!Open, Closed, File!Closed, Failed, File!Failed
<1>8. ASSUME FsGetFileSize PROVE File!FsGetFileSize
  <2>1. ResultSeen' = result'
    BY <1>3, <1>8 DEF FsGetFileSize
  <2> QED
    BY <1>2, <1>4, <1>8, <2>1, Zenon
    DEF FsGetFileSize, File!FsGetFileSize, Open, File!Open, Closed, File!Closed
<1>9. ASSUME NEW n \in Names, FsDelete(n) PROVE File!FsDelete(n)
  <2>1. ResultSeen' = result'
    BY <1>3, <1>9 DEF FsDelete
  <2> QED
    BY <1>2, <1>9, <2>1, Zenon DEF FsDelete, File!FsDelete, Failed, File!Failed
<1>10. ASSUME NEW n \in Names, NEW m \in Names, FsRename(n, m)
       PROVE  File!FsRename(n, m)
  <2>1. ResultSeen' = result'
    BY <1>3, <1>10 DEF FsRename
  <2> QED
    BY <1>2, <1>10, <2>1, Zenon DEF FsRename, File!FsRename, Failed, File!Failed
<1> QED
  BY <1>5, <1>6, <1>7, <1>8, <1>9, <1>10, Zenon
  DEF OneCall, File!OneCall, Contents, File!Contents

\* The library's whence means the same to the platform.
LEMMA SeekRefines ==
  ASSUME IInv, NEW offset \in -MaxSize .. MaxSize, NEW whence \in 0 .. 2,
         FsSeek(offset, whence)
  PROVE  \E w \in Whences : File!Seek(offset, w)
<1>1. Ready /\ Ready'
  BY SeekStep
<1>2. HandleSeen = handle /\ HandleSeen' = handle' /\ File!Ready
  BY <1>1, SeenReady DEF HandleSeen
<1>3. PICK w \in Whences : Seek(offset, w)
  <2>1. CASE whence = 0
    BY <2>1 DEF FsSeek, QapiWhence, Whences
  <2>2. CASE whence = 1
    BY <2>2 DEF FsSeek, QapiWhence, Whences
  <2>3. CASE whence = 2
    BY <2>3 DEF FsSeek, QapiWhence, Whences
  <2> QED
    BY <2>1, <2>2, <2>3
<1>4. ResultSeen' = result'
  BY <1>3 DEF Seek, ResultSeen
<1>5. File!Text = Text
  BY <1>2 DEF File!Text, Text
<1>6. File!Base(w) = Base(w)
  BY <1>2, <1>3, <1>5 DEF File!Base, Base, Whences
<1>7. File!Seek(offset, w)
  BY <1>2, <1>3, <1>4, <1>6, Zenon
  DEF Seek, File!Seek, Open, File!Open, Closed, File!Closed
<1> QED
  BY <1>7

\* A read begins.
LEMMA ReadRefines ==
  ASSUME IInv, NEW length \in 0 .. MaxLength, FsRead(length)
  PROVE  File!ReadCall(length)
<1>1. Ready /\ ~Ready'
  BY ReadStep
<1>2. /\ Open(handle) /\ call' = length /\ result' = Begun
      /\ files' = files /\ handle' = handle /\ i' = 0
  BY DEF FsRead, ReadCall
<1>3. HandleSeen = handle /\ File!Ready
  BY <1>1, SeenReady
<1>4. HandleSeen' = handle
  <2>1. handle \in [name : DOMAIN files, pos : 0 .. MaxSize]
    BY <1>2, OpenFile DEF IInv
  <2>2. HandleSeen' = [handle EXCEPT !.pos = @ - 0]
    BY <1>1, <1>2 DEF HandleSeen, Ready
  <2> QED
    BY <2>1, <2>2
<1>5. ResultSeen' = Begun
  BY <1>2 DEF ResultSeen, Begun
<1> QED
  BY <1>2, <1>3, <1>4, <1>5
  DEF File!ReadCall, File!Begun, Begun, File!Open, Open, File!Closed, Closed

(* softsim_fs_Read in turns is one read of the file, for every length, chunk *)
(* and position, and the other softsim_fs_* are one call each.              *)
THEOREM Implements == Safety => ImplementsFile
<1>1. Init => File!FileInit
  <2> SUFFICES ASSUME Init PROVE File!FileInit
    OBVIOUS
  <2>1. Ready
    BY DEF Init, FileInit, Ready
  <2>2. HandleSeen = handle /\ ResultSeen = result
    BY <2>1, SeenReady DEF Init, FileInit, ResultSeen, Begun
  <2> QED
    BY <2>2, Zenon
    DEF Init, FileInit, File!FileInit, Contents, File!Contents, Closed, File!Closed,
        Idle, File!Idle, Begun, File!Begun
<1>2. IInv /\ [Next]_vars => [File!FileNext]_(File!fileVars)
  <2> SUFFICES ASSUME IInv, [Next]_vars
               PROVE  File!FileNext \/ UNCHANGED File!fileVars
    OBVIOUS
  <2>1. CASE Called /\ OneCall /\ UNCHANGED loop
    BY <2>1, OneCallRefines DEF File!FileNext
  <2>2. CASE \E offset \in -MaxSize .. MaxSize, whence \in 0 .. 2 : FsSeek(offset, whence)
    BY <2>2, SeekRefines DEF File!FileNext, File!Whences, Whences
  <2>3. CASE \E length \in 0 .. MaxLength : FsRead(length)
    BY <2>3, ReadRefines DEF File!FileNext
  <2>4. CASE Turn
    BY <2>4, TurnRefines DEF File!FileNext
  <2>5. CASE Done
    BY <2>5, DoneRefines DEF File!FileNext
  <2>6. CASE UNCHANGED vars
    <3>1. UNCHANGED <<files, handle, call, result, i, buffer>>
      BY <2>6 DEF vars, fileVars, loop
    <3>2. HandleSeen' = HandleSeen /\ ResultSeen' = ResultSeen
      BY <3>1 DEF HandleSeen, ResultSeen, Ready
    <3> QED
      BY <3>1, <3>2 DEF File!fileVars
  <2> QED
    BY <2>1, <2>2, <2>3, <2>4, <2>5, <2>6 DEF Next
<1> QED
  BY <1>1, <1>2, Inductive, PTL DEF Safety, ImplementsFile, File!FileSpecification
==============================================================================
