---------------------------- MODULE NvStoreProofs ----------------------------
(***************************************************************************)
(* Proofs about NvStore, for every set of contents and any number of calls, *)
(* erases and resets.  RestoreOrder follows the backup through the steps of *)
(* softsim_load_flash; EraseOrder says what may be left behind each step of *)
(* an erase while a call of the library runs beside it.                     *)
(***************************************************************************)
EXTENDS NvStore, TLAPS

(* Which steps a call consists of. *)
CallShape ==
    /\ lib.call = "none" => lib.pc = "idle"
    /\ lib.call = "save_nvram" =>
           lib.pc \in {"open", "write", "idle"} /\ lib.val \in Data
    /\ lib.call = "load_nvram" => lib.pc \in {"open", "read", "idle"}
    /\ lib.call = "load_flash" =>
           lib.pc \in {"unlink", "restore", "open", "read", "idle"} /\ lib.id = "IMG"
    /\ lib.call \in {"save_flash", "clear_flash"} =>
           lib.pc \in {"list", "backup", "idle"}

(* Undisturbed, a restore finds no IMG, and a load brings the backup into the *)
(* file and into the buffer.                                                 *)
RestoreOrder ==
    /\ mishaps = {} /\ lib.pc # "idle" => at = "idle"
    /\ mishaps = {} /\ lib.call = "load_flash" =>
        /\ lib.pc = "unlink"  => good = backup
        /\ lib.pc = "restore" => good = backup /\ file["IMG"] = Absent
        /\ lib.pc \in {"open", "read"} => file["IMG"] = good /\ good # Absent
        /\ lib.pc = "idle" /\ result = "TRUE" =>
               /\ buf = good /\ good # Absent
               /\ at = "idle" => erased \/ file["IMG"] = good
        /\ lib.pc = "idle" /\ result = "FALSE" => good = Absent

(* During an erase, and after it, the running call can only bring back what  *)
(* is already counted as carried; behind each deletion, a failed one too,    *)
(* nothing else is left.                                                     *)
EraseOrder ==
    /\ erased \/ at # "idle" => Carries(lib) \subseteq carried \cup {Absent, Empty}
    /\ at \in {"unlink_info", "list", "backup"} => Gone(file["IMG"])
    /\ at \in {"list", "backup"} => Gone(file["INFO"])
    /\ ErasedStaysErased

IInv == TypeOK /\ CallShape /\ RestoreOrder /\ EraseOrder

USE ContentsAssumption, CallsAssumption DEF Ids, Contents, Calls, LibAt, AtAt, Mishaps

\* The device boots with nothing in flash.
LEMMA InitIInv == Init => IInv
<1> SUFFICES ASSUME Init PROVE IInv
  OBVIOUS
<1>1. TypeOK
  <2>1. lib \in [pc : LibAt, call : Calls, id : Ids, val : Data \cup {Absent}]
    BY DEF Init, NoCall
  <2>2. erased \in BOOLEAN /\ listed \in BOOLEAN
    BY DEF Init
  <2> QED
    BY <2>1, <2>2 DEF Init, TypeOK
<1>2. CallShape /\ RestoreOrder
  BY DEF Init, NoCall, CallShape, RestoreOrder
<1>3. ~erased /\ at = "idle"
  BY DEF Init
<1>4. EraseOrder
  BY <1>3 DEF EraseOrder, ErasedStaysErased
<1> QED
  BY <1>1, <1>2, <1>4 DEF IInv

\* A new call carries only what CallShape lets it carry.
LEMMA CallStep ==
  ASSUME IInv, LibCall PROVE IInv'
<1>1. PICK call \in Calls, id \in Ids, val \in Data \cup {Absent}, pc \in LibAt :
        /\ Call(call, id, val, pc)
        /\ pc # "idle" /\ call # "none"
        /\ call = "save_nvram" => pc = "open" /\ val \in Data
        /\ call = "load_nvram" => pc = "open"
        /\ call = "load_flash" => pc = "unlink" /\ id = "IMG"
        /\ call \in {"save_flash", "clear_flash"} => pc = "list"
  BY DEF LibCall, LoadNvram, SaveNvram, LoadFlash, SaveFlash, ClearFlash
<1>2. /\ lib' = [pc |-> pc, call |-> call, id |-> id, val |-> val]
      /\ lib'.pc = pc /\ lib'.call = call /\ lib'.id = id /\ lib'.val = val
      /\ UNCHANGED <<file, backup, listed, buf, at, boots>>
      /\ good' = backup /\ result' = "none"
      /\ erased' = (erased /\ call # "save_nvram")
      /\ mishaps' = IF at = "idle" THEN {} ELSE {"overlap"}
  BY <1>1 DEF Call, flash
<1>3. calls' \in 0 .. MaxCalls
  BY <1>1 DEF Call, IInv, TypeOK
<1>4. Carries(lib') \subseteq Contents
  BY <1>1, <1>2 DEF Carries, IInv, TypeOK
<1>5. carried' = IF at = "idle" THEN carried ELSE carried \cup Carries(lib')
  BY <1>1 DEF Call
<1>6. TypeOK'
  BY <1>1, <1>2, <1>3, <1>4, <1>5 DEF IInv, TypeOK
<1>7. CallShape' /\ RestoreOrder'
  BY <1>1, <1>2 DEF CallShape, RestoreOrder
<1>8. EraseOrder'
  <2>1. carried \subseteq carried'
    BY <1>5
  <2>2. ErasedStaysErased'
    BY <1>2, <2>1 DEF IInv, EraseOrder, ErasedStaysErased, Gone
  <2>3. Carries(lib)' = Carries(lib')
    BY <1>2 DEF Carries
  <2>4. erased' \/ at' # "idle" => Carries(lib') \subseteq carried' \cup {Absent, Empty}
    <3>1. CASE at # "idle"
      BY <3>1, <1>5
    <3>2. CASE at = "idle" /\ erased'
      <4>1. call # "save_nvram" /\ Gone(backup)
        BY <1>2, <3>2 DEF IInv, EraseOrder, ErasedStaysErased
      <4> QED
        BY <1>1, <1>2, <4>1, <3>2, <1>5 DEF Carries, Gone
    <3> QED
      BY <3>1, <3>2, <1>2
  <2> QED
    BY <1>2, <2>1, <2>2, <2>3, <2>4 DEF IInv, EraseOrder, Gone
<1> QED
  BY <1>6, <1>7, <1>8 DEF IInv

\* Opening creates an empty file or fails; it brings nothing back.
LEMMA OpenStep ==
  ASSUME IInv, Open PROVE IInv'
<1>1. lib.pc = "open" /\ lib.call \in {"save_nvram", "load_nvram", "load_flash"}
  BY DEF Open, IInv, CallShape, TypeOK
<1>2. UNCHANGED <<backup, listed, at, count, good, carried, erased>>
  BY DEF Open
<1>3. /\ file' \in [Ids -> Contents]
      /\ \A id \in Ids : file'[id] \in {file[id], Empty}
      /\ \A id \in Ids : file[id] # Absent => file'[id] = file[id]
  BY DEF Open, Created, IInv, TypeOK
<1>4. CASE /\ lib' = [lib EXCEPT !.pc = IF lib.call = "save_nvram" THEN "write"
                                                                   ELSE "read"]
           /\ UNCHANGED <<buf, mishaps, result>>
  <2>1. /\ lib'.pc \in {"write", "read"}
        /\ lib'.pc = "write" <=> lib.call = "save_nvram"
        /\ lib'.call = lib.call /\ lib'.id = lib.id /\ lib'.val = lib.val
    BY <1>4 DEF IInv, TypeOK
  <2>2. TypeOK'
    BY <1>2, <1>3, <1>4 DEF IInv, TypeOK, count
  <2>3. CallShape' /\ RestoreOrder'
    BY <1>1, <1>2, <1>3, <1>4, <2>1 DEF IInv, TypeOK, CallShape, RestoreOrder
  <2>4. Carries(lib)' \subseteq Carries(lib)
    BY <1>1, <1>2, <2>1 DEF Carries
  <2>5. EraseOrder'
    BY <1>2, <1>3, <2>4 DEF IInv, EraseOrder, ErasedStaysErased, Gone
  <2> QED
    BY <2>2, <2>3, <2>5 DEF IInv
<1>5. CASE /\ mishaps' = mishaps \cup {"failed"}
           /\ Return(IF lib.call = "load_flash" THEN "TRUE" ELSE "FALSE")
           /\ buf' \in {buf, Empty}
  <2>1. lib'.pc = "idle" /\ lib'.call = lib.call /\ lib'.id = lib.id
        /\ lib'.val = lib.val
    BY <1>5 DEF Return, IInv, TypeOK
  <2>2. TypeOK'
    BY <1>2, <1>3, <1>5 DEF IInv, TypeOK, count, Return
  <2>3. CallShape' /\ RestoreOrder'
    BY <1>1, <1>5, <2>1 DEF IInv, TypeOK, CallShape, RestoreOrder
  <2>4. Carries(lib)' = {}
    BY <2>1 DEF Carries
  <2>5. EraseOrder'
    BY <1>2, <1>3, <2>4 DEF IInv, EraseOrder, ErasedStaysErased, Gone
  <2> QED
    BY <2>2, <2>3, <2>5 DEF IInv
<1> QED
  BY <1>4, <1>5 DEF Open, Goto, Fine, Failed

\* The buffer takes the file; flash stays as it is.
LEMMA ReadStep ==
  ASSUME IInv, ReadFile PROVE IInv'
<1>1. /\ lib.pc = "read" /\ lib.call \in {"load_nvram", "load_flash"}
      /\ lib' = [lib EXCEPT !.pc = "idle"] /\ result' = "TRUE"
      /\ lib'.pc = "idle" /\ lib'.call = lib.call /\ lib'.id = lib.id
      /\ UNCHANGED <<flash, at, count, good, carried, erased>>
  BY DEF ReadFile, Return, IInv, CallShape, TypeOK
<1>2. /\ buf' \in Contents \ {Absent}
      /\ mishaps \subseteq mishaps' /\ mishaps' \subseteq Mishaps
      /\ mishaps' = {} => buf' = IF file[lib.id] = Absent THEN Empty
                                                         ELSE file[lib.id]
  <2>1. lib.id \in Ids /\ file[lib.id] \in Contents
    BY DEF IInv, TypeOK
  <2>2. mishaps \subseteq Mishaps /\ "failed" \in Mishaps
    BY DEF IInv, TypeOK, Mishaps
  <2>3. Empty \in Contents \ {Absent} /\ Torn \in Contents \ {Absent}
    BY ContentsAssumption DEF Contents
  <2>4. CASE /\ buf' = IF file[lib.id] = Absent THEN Empty ELSE file[lib.id]
             /\ Fine
    BY <2>1, <2>2, <2>3, <2>4 DEF Fine
  <2>5. CASE buf' \in {Empty, Torn} /\ Failed
    BY <2>2, <2>3, <2>5 DEF Failed
  <2> QED
    BY <2>4, <2>5 DEF ReadFile
<1>3. TypeOK'
  BY <1>1, <1>2 DEF IInv, TypeOK, flash, count
<1>4. CallShape' /\ RestoreOrder'
  BY <1>1, <1>2 DEF IInv, CallShape, RestoreOrder, flash
<1>5. Carries(lib)' = {}
  BY <1>1 DEF Carries
<1>6. EraseOrder'
  BY <1>1, <1>5 DEF IInv, EraseOrder, ErasedStaysErased, Gone, flash
<1> QED
  BY <1>3, <1>4, <1>6 DEF IInv

\* A save writes what it carries, part of it, or nothing.
LEMMA WriteStep ==
  ASSUME IInv, WriteFile PROVE IInv'
<1>1. /\ lib.pc = "write" /\ lib.call = "save_nvram" /\ lib.val \in Data
      /\ lib' = [lib EXCEPT !.pc = "idle"] /\ result' = "TRUE"
      /\ lib'.pc = "idle" /\ lib'.call = lib.call /\ lib'.id = lib.id
      /\ lib'.val = lib.val
      /\ UNCHANGED <<backup, listed, buf, at, count, good, carried, erased>>
  BY DEF WriteFile, Return, IInv, CallShape, TypeOK
<1>2. /\ file' \in [Ids -> Contents]
      /\ \A id \in Ids : file'[id] \in {file[id], lib.val, Torn}
      /\ mishaps \subseteq mishaps' /\ mishaps' \subseteq Mishaps
  BY <1>1 DEF WriteFile, Fine, Failed, IInv, TypeOK
<1>3. TypeOK'
  BY <1>1, <1>2 DEF IInv, TypeOK, count
<1>4. CallShape' /\ RestoreOrder'
  BY <1>1, <1>2 DEF IInv, CallShape, RestoreOrder
<1>5. Carries(lib)' = {} /\ Carries(lib) = {lib.val, Torn}
  BY <1>1 DEF Carries
<1>6. EraseOrder'
  BY <1>1, <1>2, <1>5 DEF IInv, TypeOK, EraseOrder, ErasedStaysErased, Gone
<1> QED
  BY <1>3, <1>4, <1>6 DEF IInv

\* IMG is gone, or the deletion has failed; the backup is untouched.
LEMMA UnlinkStep ==
  ASSUME IInv, Unlink PROVE IInv'
<1>1. /\ lib.pc = "unlink" /\ lib.call = "load_flash" /\ lib.id = "IMG"
      /\ lib' = [lib EXCEPT !.pc = "restore"] /\ result' = result
      /\ lib'.pc = "restore" /\ lib'.call = lib.call /\ lib'.id = lib.id
      /\ UNCHANGED <<backup, listed, buf, at, count, good, carried, erased>>
  BY DEF Unlink, Goto, IInv, CallShape, TypeOK
<1>2. /\ file' \in [Ids -> Contents]
      /\ \A id \in Ids : file'[id] \in {file[id], Absent}
      /\ mishaps \subseteq mishaps' /\ mishaps' \subseteq Mishaps
      /\ mishaps' = {} => file'["IMG"] = Absent
  BY DEF Unlink, Fine, Failed, IInv, TypeOK
<1>3. TypeOK'
  BY <1>1, <1>2 DEF IInv, TypeOK, count
<1>4. CallShape' /\ RestoreOrder'
  BY <1>1, <1>2 DEF IInv, CallShape, RestoreOrder
<1>5. Carries(lib)' = Carries(lib)
  BY <1>1 DEF Carries
<1>6. EraseOrder'
  BY <1>1, <1>2, <1>5 DEF IInv, EraseOrder, ErasedStaysErased, Gone
<1> QED
  BY <1>3, <1>4, <1>6 DEF IInv

\* The backup moves into IMG, unless there is one or the restore fails.
LEMMA RestoreStep ==
  ASSUME IInv, Restore PROVE IInv'
<1>1. /\ lib.pc = "restore" /\ lib.call = "load_flash" /\ lib.id = "IMG"
      /\ UNCHANGED <<listed, buf, at, count, good, carried, erased>>
  BY DEF Restore, IInv, CallShape, TypeOK
<1>2. Carries(lib) = {backup}
  BY <1>1 DEF Carries
<1>3. CASE /\ IF backup = Absent THEN Fine ELSE Failed
           /\ Return("FALSE")
           /\ UNCHANGED <<file, backup>>
  <2>1. /\ lib' = [lib EXCEPT !.pc = "idle"] /\ result' = "FALSE"
        /\ lib'.pc = "idle" /\ lib'.call = lib.call /\ lib'.id = lib.id
        /\ mishaps \subseteq mishaps' /\ mishaps' \subseteq Mishaps
        /\ mishaps' = {} => backup = Absent
    BY <1>3 DEF Return, Fine, Failed, IInv, TypeOK
  <2>2. TypeOK'
    BY <1>1, <1>3, <2>1 DEF IInv, TypeOK, count
  <2>3. CallShape' /\ RestoreOrder'
    BY <1>1, <1>3, <2>1 DEF IInv, CallShape, RestoreOrder
  <2>4. Carries(lib)' = {}
    BY <2>1 DEF Carries
  <2>5. EraseOrder'
    BY <1>1, <1>3, <2>1, <2>4 DEF IInv, EraseOrder, ErasedStaysErased, Gone
  <2> QED
    BY <2>2, <2>3, <2>5 DEF IInv
<1>4. CASE /\ backup # Absent
           /\ file' = [file EXCEPT !["IMG"] = IF @ = Absent THEN backup ELSE @]
           /\ backup' = Absent
           /\ Goto("open") /\ Fine
  <2>1. /\ file' \in [Ids -> Contents]
        /\ file'["IMG"] \in {file["IMG"], backup} /\ file'["INFO"] = file["INFO"]
        /\ file["IMG"] = Absent => file'["IMG"] = backup
        /\ backup' = Absent /\ mishaps' = mishaps
        /\ lib' = [lib EXCEPT !.pc = "open"] /\ result' = result
        /\ lib'.pc = "open" /\ lib'.call = lib.call /\ lib'.id = lib.id
    BY <1>4 DEF Goto, Fine, IInv, TypeOK
  <2>2. TypeOK'
    BY <1>1, <2>1 DEF IInv, TypeOK, count
  <2>3. CallShape' /\ RestoreOrder'
    BY <1>1, <1>4, <2>1 DEF IInv, CallShape, RestoreOrder
  <2>4. Carries(lib)' = {}
    BY <1>1, <2>1 DEF Carries
  <2>5. at # "idle" \/ erased => Gone(backup)
    BY <1>2 DEF IInv, EraseOrder, Gone
  <2>6. EraseOrder'
    BY <1>1, <2>1, <2>4, <2>5 DEF IInv, EraseOrder, ErasedStaysErased, Gone
  <2> QED
    BY <2>2, <2>3, <2>6 DEF IInv
<1> QED
  BY <1>3, <1>4 DEF Restore

\* The backup list decides what the next step backs up.
LEMMA ListStep ==
  ASSUME IInv, List PROVE IInv'
<1>1. /\ lib.pc = "list" /\ lib.call \in {"save_flash", "clear_flash"}
      /\ lib' = [lib EXCEPT !.pc = "backup"] /\ result' = result
      /\ lib'.pc = "backup" /\ lib'.call = lib.call /\ lib'.id = lib.id
      /\ UNCHANGED <<file, backup, buf, at, count, good, carried, erased>>
  BY DEF List, Goto, IInv, CallShape, TypeOK
<1>2. /\ listed' \in BOOLEAN
      /\ mishaps \subseteq mishaps' /\ mishaps' \subseteq Mishaps
  BY DEF List, Fine, Failed, IInv, TypeOK
<1>3. TypeOK'
  BY <1>1, <1>2 DEF IInv, TypeOK, count
<1>4. CallShape' /\ RestoreOrder'
  BY <1>1, <1>2 DEF IInv, CallShape, RestoreOrder
<1>5. Carries(lib)' = {}
  BY <1>1 DEF Carries
<1>6. EraseOrder'
  BY <1>1, <1>5 DEF IInv, EraseOrder, ErasedStaysErased, Gone
<1> QED
  BY <1>3, <1>4, <1>6 DEF IInv

\* The backup takes IMG, which an erase has left as it may be, or stays.
LEMMA BackupStep ==
  ASSUME IInv, Backup PROVE IInv'
<1>1. /\ lib.pc = "backup" /\ lib.call \in {"save_flash", "clear_flash"}
      /\ backup' \in {file["IMG"], Absent, backup}
      /\ lib' = [lib EXCEPT !.pc = "idle"] /\ result' = "TRUE"
      /\ lib'.pc = "idle" /\ lib'.call = lib.call /\ lib'.id = lib.id
      /\ UNCHANGED <<file, listed, buf, at, count, good, carried, erased>>
      /\ mishaps \subseteq mishaps' /\ mishaps' \subseteq Mishaps
  BY DEF Backup, BackupListed, Return, Fine, Failed, IInv, CallShape, TypeOK
<1>2. TypeOK'
  BY <1>1 DEF IInv, TypeOK, count
<1>3. CallShape' /\ RestoreOrder'
  BY <1>1 DEF IInv, CallShape, RestoreOrder
<1>4. Carries(lib)' = {}
  BY <1>1 DEF Carries
<1>5. EraseOrder'
  BY <1>1, <1>4 DEF IInv, EraseOrder, ErasedStaysErased, Gone
<1> QED
  BY <1>2, <1>3, <1>5 DEF IInv

\* The steps of an erase, beside whatever call runs.
LEMMA EraseStep ==
  ASSUME IInv, AtErase \/ AtStep PROVE IInv'
<1>1. CASE AtErase
  <2>1. /\ at = "idle" /\ at' = "unlink_img" /\ calls' \in 0 .. MaxCalls
        /\ carried' = Carries(lib) /\ erased' = (erased /\ carried = {})
        /\ mishaps' = IF lib.pc = "idle" THEN mishaps ELSE mishaps \cup {"overlap"}
        /\ UNCHANGED <<file, backup, listed, lib, result, buf, boots, good>>
    BY <1>1 DEF AtErase, flash, IInv, TypeOK
  <2>2. Carries(lib) \subseteq Contents
    BY DEF Carries, IInv, TypeOK
  <2>3. TypeOK'
    BY <2>1, <2>2 DEF IInv, TypeOK
  <2>4. CallShape' /\ RestoreOrder'
    BY <2>1 DEF IInv, CallShape, RestoreOrder
  <2>5. Carries(lib)' = carried'
    BY <2>1 DEF Carries
  <2>6. EraseOrder'
    BY <2>1, <2>5 DEF IInv, EraseOrder, ErasedStaysErased, Gone
  <2> QED
    BY <2>3, <2>4, <2>6 DEF IInv
<1>2. ASSUME NEW pc \in AtAt, NEW id \in Ids, NEW next \in AtAt,
             AtUnlink(pc, id, next),
             <<pc, id, next>> \in {<<"unlink_img", "IMG", "unlink_info">>,
                                  <<"unlink_info", "INFO", "list">>}
      PROVE  IInv'
  <2>1. /\ at = pc /\ at' = next /\ at # "idle" /\ at' # "idle"
        /\ file' \in [Ids -> Contents]
        /\ \A i \in Ids : file'[i] \in {file[i], Absent}
        /\ file'[id] \in {Absent} \cup carried'
        /\ carried \subseteq carried' /\ carried' \subseteq Contents
        /\ UNCHANGED <<backup, listed, lib, result, buf, count, good, erased,
                       mishaps>>
    BY <1>2 DEF AtUnlink, IInv, TypeOK
  <2>2. TypeOK'
    BY <2>1 DEF IInv, TypeOK, count
  <2>3. mishaps # {} \/ lib.pc = "idle"
    BY <2>1 DEF IInv, RestoreOrder
  <2>4. CallShape' /\ RestoreOrder'
    BY <2>1, <2>3 DEF IInv, CallShape, RestoreOrder
  <2>5. Carries(lib)' = Carries(lib)
    BY <2>1 DEF Carries
  <2>6. EraseOrder'
    BY <1>2, <2>1, <2>5 DEF IInv, EraseOrder, ErasedStaysErased, Gone
  <2> QED
    BY <2>2, <2>4, <2>6 DEF IInv
<1>3. CASE AtList
  <2>1. /\ at = "list" /\ at' = "backup" /\ listed' \in BOOLEAN
        /\ UNCHANGED <<file, backup, lib, result, buf, count, history>>
    BY <1>3 DEF AtList, IInv, TypeOK
  <2>2. TypeOK'
    BY <2>1 DEF IInv, TypeOK, count, history
  <2>3. CallShape' /\ RestoreOrder'
    BY <2>1 DEF IInv, CallShape, RestoreOrder, history
  <2>4. Carries(lib)' = Carries(lib)
    BY <2>1 DEF Carries
  <2>5. EraseOrder'
    BY <2>1, <2>4 DEF IInv, EraseOrder, ErasedStaysErased, Gone, history
  <2> QED
    BY <2>2, <2>3, <2>5 DEF IInv
<1>4. CASE AtBackup
  <2>1. /\ at = "backup" /\ at' = "idle" /\ erased' = TRUE
        /\ backup' \in {file["IMG"], Absent} \cup carried'
        /\ backup' \in Contents
        /\ carried \subseteq carried' /\ carried' \subseteq Contents
        /\ UNCHANGED <<file, listed, lib, result, buf, count, good, mishaps>>
    BY <1>4 DEF AtBackup, BackupListed, IInv, TypeOK
  <2>2. TypeOK'
    BY <2>1 DEF IInv, TypeOK, count
  <2>3. mishaps # {} \/ lib.pc = "idle"
    BY <2>1 DEF IInv, RestoreOrder
  <2>4. CallShape' /\ RestoreOrder'
    BY <2>1, <2>3 DEF IInv, CallShape, RestoreOrder
  <2>5. Gone(backup)' /\ Gone(file["IMG"])' /\ Gone(file["INFO"])'
    BY <2>1 DEF IInv, EraseOrder, Gone
  <2>6. Carries(lib)' \subseteq Carries(lib) \cup {backup'}
    BY <2>1 DEF Carries
  <2>7. EraseOrder'
    BY <2>1, <2>5, <2>6 DEF IInv, EraseOrder, ErasedStaysErased, Gone
  <2> QED
    BY <2>2, <2>4, <2>7 DEF IInv
<1> QED
  BY <1>1, <1>2, <1>3, <1>4 DEF AtStep

\* A reset ends every call; a torn file holds what the save carried.
LEMMA ResetStep ==
  ASSUME IInv, Reset PROVE IInv'
<1>1. /\ lib' = NoCall /\ lib'.pc = "idle" /\ lib'.call = "none"
      /\ result' = "none" /\ buf' = Empty /\ at' = "idle"
      /\ good' = Absent /\ mishaps' = {}
      /\ boots' \in 0 .. MaxBoots /\ listed' \in BOOLEAN
      /\ UNCHANGED <<backup, calls, carried, erased>>
  BY DEF Reset, NoCall, IInv, TypeOK
<1>2. /\ file' \in [Ids -> Contents]
      /\ \/ file' = file
         \/ /\ lib.call = "save_nvram" /\ lib.pc = "write"
            /\ \A id \in Ids : file'[id] \in {file[id], Torn, lib.val}
  <2>1. CASE file' = file
    BY <2>1 DEF IInv, TypeOK
  <2>2. ASSUME lib.pc = "write",
               NEW c \in {file[lib.id], Torn, lib.val},
               file' = [file EXCEPT ![lib.id] = c]
        PROVE  <1>2!1 /\ <1>2!2
    BY <2>2 DEF IInv, TypeOK, CallShape
  <2> QED
    BY <2>1, <2>2 DEF Reset
<1>3. TypeOK'
  BY <1>1, <1>2 DEF IInv, TypeOK, NoCall
<1>4. CallShape' /\ RestoreOrder'
  BY <1>1 DEF CallShape, RestoreOrder
<1>5. Carries(lib)' = {}
  BY <1>1 DEF Carries
<1>6. lib.call = "save_nvram" /\ lib.pc = "write"
        => Carries(lib) = {lib.val, Torn}
  BY DEF Carries
<1>7. EraseOrder'
  BY <1>1, <1>2, <1>5, <1>6 DEF IInv, TypeOK, EraseOrder, ErasedStaysErased, Gone
<1> QED
  BY <1>3, <1>4, <1>7 DEF IInv

\* Nothing changes.
LEMMA StutterStep ==
  ASSUME IInv, UNCHANGED vars PROVE IInv'
  BY DEF vars, flash, count, history, IInv, TypeOK, CallShape, RestoreOrder,
         EraseOrder, ErasedStaysErased, Gone, Carries

(* The inductive invariant holds in every reachable state. *)
THEOREM Inductive == Spec => []IInv
<1>1. IInv /\ [Next]_vars => IInv'
  BY CallStep, OpenStep, ReadStep, WriteStep, UnlinkStep, RestoreStep, ListStep,
     BackupStep, EraseStep, ResetStep, StutterStep DEF Next, LibStep
<1> QED
  BY InitIInv, <1>1, PTL DEF Spec

(* The files, the backup and the calls keep their types across every call,   *)
(* erase, failure and reset.                                                *)
THEOREM Types == Spec => []TypeOK
<1>1. IInv => TypeOK
  BY DEF IInv
<1> QED
  BY <1>1, Inductive, PTL

(* softsim_load_flash gives back the backup, or there was none. *)
THEOREM Restores == Spec => []LoadFlashRestores
<1>1. IInv => LoadFlashRestores
  BY DEF IInv, TypeOK, CallShape, RestoreOrder, LoadFlashRestores, Returned
<1> QED
  BY <1>1, Inductive, PTL

(* What AT+PSOFTSIM=start,ER000 erased comes back only as far as a call of   *)
(* the library that ran beside it carried it, or a deletion of the erase     *)
(* itself failed.                                                            *)
THEOREM Erases == Spec => []ErasedStaysErased
<1>1. IInv => ErasedStaysErased
  BY DEF IInv, EraseOrder
<1> QED
  BY <1>1, Inductive, PTL
==============================================================================
