------------------------------- MODULE NvStore -------------------------------
(***************************************************************************)
(* The card's data in flash (softsim_load_nvram .. softsim_save_flash and   *)
(* the erase of the AT handler): the files IMG and INFO, and the backup of  *)
(* IMG that simcom_qapi_backup_* keeps outside the file system.  The        *)
(* library calls one function at a time, the AT thread erases whenever it   *)
(* likes, the device may go down between any two steps and inside a write.  *)
(*                                                                         *)
(* External, modelled from the calls and comments here: the backup copies   *)
(* the file on its list (entry 9 is ours), a restore with bCoverAll FALSE   *)
(* keeps a file that exists, fails without a backup and releases it; an     *)
(* unlinked file stays away though it is still open.  Every call may fail;  *)
(* a failing one of the backup or of an unlink changes nothing, a failing   *)
(* read or write may stop half way.                                        *)
(***************************************************************************)
EXTENDS Naturals

CONSTANTS
    Data,       \* what a saved file may contain
    Absent,     \* no such file; no backup
    Empty,      \* created by QAPI_FS_O_CREAT_E, not written yet; zeros
    Torn,       \* neither the old contents nor the new ones
    MaxCalls,   \* bound: calls of the library and erases in a run
    MaxBoots    \* bound: resets in a run

ASSUME ContentsAssumption ==
    /\ Absent \notin Data /\ Empty \notin Data /\ Torn \notin Data
    /\ Absent # Empty /\ Absent # Torn /\ Empty # Torn
ASSUME CallsAssumption == MaxCalls \in Nat /\ MaxBoots \in Nat

VARIABLES
    file,       \* contents of IMG and of INFO
    backup,     \* the backed-up IMG
    listed,     \* IMG is on the backup list
    lib,        \* [pc, call, id, val]: the current or the last call
    result,     \* what it returned, "none" before that
    buf,        \* what the last load put into the caller's buffer
    at,         \* where an erase stands
    calls,      \* calls and erases so far
    boots,      \* resets so far
    good,       \* history: the backup when the current call began
    carried,    \* history: what got past the last erase, carried by a call of
                \* the library or not deleted
    erased,     \* history: an erase is complete and nothing was saved since
    mishaps     \* history of the current call (see Mishaps)

flash   == <<file, backup, listed>>
count   == <<calls, boots>>
history == <<good, carried, erased, mishaps>>
vars    == <<flash, lib, result, buf, at, count, history>>

(* "overlap": an erase ran during the call, or the call during the erase     *)
(* "failed":  an operation of the file system or the backup failed in it    *)
Mishaps  == {"overlap", "failed"}
Ids      == {"IMG", "INFO"}
Contents == Data \cup {Absent, Empty, Torn}
Calls    == {"none", "load_nvram", "save_nvram", "load_flash", "save_flash",
             "clear_flash"}
LibAt    == {"idle", "open", "read", "write", "unlink", "restore", "list",
             "backup"}
AtAt     == {"idle", "unlink_img", "unlink_info", "list", "backup"}
NoCall   == [pc |-> "idle", call |-> "none", id |-> "IMG", val |-> Absent]

Init ==
    /\ file = [id \in Ids |-> Absent]
    /\ backup = Absent /\ listed = FALSE
    /\ lib = NoCall /\ result = "none" /\ buf = Empty
    /\ at = "idle" /\ calls = 0 /\ boots = 0
    /\ good = Absent /\ carried = {} /\ erased = FALSE /\ mishaps = {}

------------------------------------------------------------------------------
(* The library's calls, one at a time.                                      *)

\* What call l may put into a file that an erase has deleted: a save its data,
\* in part if the device goes down, a restore the backup.
Carries(l) ==
    CASE l.call = "save_nvram" /\ l.pc # "idle"      -> {l.val, Torn}
      [] l.call = "load_flash" /\ l.pc \in {"unlink", "restore"} -> {backup}
      [] OTHER -> {}

Call(call, id, val, pc) ==
    /\ lib.pc = "idle"
    /\ calls < MaxCalls
    /\ calls' = calls + 1
    /\ lib' = [pc |-> pc, call |-> call, id |-> id, val |-> val]
    /\ result' = "none"
    /\ good' = backup
    /\ carried' = IF at = "idle" THEN carried
                                 ELSE carried \cup Carries(lib')
    /\ erased' = (erased /\ call # "save_nvram")
    /\ mishaps' = IF at = "idle" THEN {} ELSE {"overlap"}
    /\ UNCHANGED <<flash, buf, at, boots>>

Goto(pc)  == lib' = [lib EXCEPT !.pc = pc] /\ UNCHANGED result
Return(r) == lib' = [lib EXCEPT !.pc = "idle"] /\ result' = r

LoadNvram  == \E id \in Ids : Call("load_nvram", id, Absent, "open")
SaveNvram  == \E id \in Ids, d \in Data : Call("save_nvram", id, d, "open")
LoadFlash  == Call("load_flash", "IMG", Absent, "unlink")
SaveFlash  == Call("save_flash", "IMG", Absent, "list")
ClearFlash == Call("clear_flash", "IMG", Absent, "list")
LibCall    == LoadNvram \/ SaveNvram \/ LoadFlash \/ SaveFlash \/ ClearFlash

Fine   == UNCHANGED mishaps
Failed == mishaps' = mishaps \cup {"failed"}

\* The file once it has been created.
Created == [file EXCEPT ![lib.id] = IF @ = Absent THEN Empty ELSE @]

\* qapi_FS_Open creates the file.  When it fails ret_val says so and the rest
\* has no effect, but load_flash does not look at the result of load_nvram.
\* Without memory a load leaves the caller's buffer as it was, a save does not
\* get as far as the file.
Open ==
    /\ lib.pc = "open"
    /\ \/ /\ file' = Created
          /\ Goto(IF lib.call = "save_nvram" THEN "write" ELSE "read")
          /\ Fine /\ UNCHANGED buf
       \/ /\ Failed
          /\ Return(IF lib.call = "load_flash" THEN "TRUE" ELSE "FALSE")
          /\ \/ /\ lib.call = "save_nvram"
                /\ UNCHANGED <<file, buf>>
             \/ /\ lib.call # "save_nvram"
                /\ UNCHANGED file /\ buf' = Empty
             \/ /\ lib.call # "save_nvram"
                /\ file' = Created /\ UNCHANGED buf
    /\ UNCHANGED <<backup, listed, at, count, good, carried, erased>>

\* The buffer is zeroed, then filled; ret_val is compared, not assigned, so a
\* read that fails at once or half way returns TRUE as well.
ReadFile ==
    /\ lib.pc = "read"
    /\ \/ /\ buf' = IF file[lib.id] = Absent THEN Empty ELSE file[lib.id]
          /\ Fine
       \/ buf' \in {Empty, Torn} /\ Failed
    /\ Return("TRUE")
    /\ UNCHANGED <<flash, at, count, good, carried, erased>>

\* Here too: TRUE whether or not the write worked.
WriteFile ==
    /\ lib.pc = "write"
    /\ \/ /\ file' = [file EXCEPT ![lib.id] = IF @ = Absent THEN @ ELSE lib.val]
          /\ Fine
       \/ /\ \/ file' = [file EXCEPT ![lib.id] = IF @ = Absent THEN @ ELSE Torn]
             \/ UNCHANGED file
          /\ Failed
    /\ Return("TRUE")
    /\ UNCHANGED <<backup, listed, buf, at, count, good, carried, erased>>

\* Faulty: IMG is not deleted before the restore.
UnlinkNot ==
    /\ lib.pc = "unlink"
    /\ Goto("restore")
    /\ UNCHANGED <<flash, buf, at, count, history>>

\* softsim_load_flash: del IMG file first (the result is not looked at), ...
Unlink ==
    /\ lib.pc = "unlink"
    /\ \/ file' = [file EXCEPT !["IMG"] = Absent] /\ Fine
       \/ UNCHANGED file /\ Failed
    /\ Goto("restore")
    /\ UNCHANGED <<backup, listed, buf, at, count, good, carried, erased>>

\* ... then restore and load.
Restore ==
    /\ lib.pc = "restore"
    /\ \/ /\ backup # Absent
          /\ file' = [file EXCEPT !["IMG"] = IF @ = Absent THEN backup ELSE @]
          /\ backup' = Absent
          /\ Goto("open") /\ Fine
       \/ /\ IF backup = Absent THEN Fine ELSE Failed
          /\ Return("FALSE")
          /\ UNCHANGED <<file, backup>>
    /\ UNCHANGED <<listed, buf, at, count, good, carried, erased>>

\* simcom_qapi_update_apps_list and simcom_qapi_backup_apps_list_init
List ==
    /\ lib.pc = "list"
    /\ \/ listed' = (lib.call = "save_flash") /\ Fine
       \/ UNCHANGED listed /\ Failed
    /\ Goto("backup")
    /\ UNCHANGED <<file, backup, buf, at, count, good, carried, erased>>

\* simcom_qapi_backup_apps_start
BackupListed == backup' = IF listed THEN file["IMG"] ELSE Absent

\* TRUE, whatever the backup says.
Backup ==
    /\ lib.pc = "backup"
    /\ \/ BackupListed /\ Fine
       \/ UNCHANGED backup /\ Failed
    /\ Return("TRUE")
    /\ UNCHANGED <<file, listed, buf, at, count, good, carried, erased>>

LibStep == Open \/ ReadFile \/ WriteFile \/ Unlink \/ Restore \/ List \/ Backup

------------------------------------------------------------------------------
(* AT+PSOFTSIM=start,ER000 on the AT thread.                                *)

AtErase ==
    /\ at = "idle"
    /\ calls < MaxCalls
    /\ calls' = calls + 1
    /\ at' = "unlink_img"
    /\ carried' = Carries(lib)
    /\ erased' = (erased /\ carried = {})
    /\ mishaps' = IF lib.pc = "idle" THEN mishaps
                                     ELSE mishaps \cup {"overlap"}
    /\ UNCHANGED <<flash, lib, result, buf, boots, good>>

\* None of the results is looked at; what a deletion that fails leaves is
\* carried past the erase.
AtUnlink(pc, id, next) ==
    /\ at = pc
    /\ \/ file' = [file EXCEPT ![id] = Absent] /\ UNCHANGED carried
       \/ carried' = carried \cup {file[id]} /\ UNCHANGED file
    /\ at' = next
    /\ UNCHANGED <<backup, listed, lib, result, buf, count, good, erased,
                   mishaps>>

\* softsim_clear_flash
AtList ==
    /\ at = "list"
    /\ listed' \in {FALSE, listed}
    /\ at' = "backup"
    /\ UNCHANGED <<file, backup, lib, result, buf, count, history>>

\* Faulty: the list is cleared, the backup is not started.
AtBackupNot ==
    /\ at = "backup"
    /\ at' = "idle"
    /\ erased' = TRUE
    /\ UNCHANGED <<flash, lib, result, buf, count, good, carried, mishaps>>

AtBackup ==
    /\ at = "backup"
    /\ \/ BackupListed /\ UNCHANGED carried
       \/ carried' = carried \cup {backup} /\ UNCHANGED backup
    /\ at' = "idle"
    /\ erased' = TRUE
    /\ UNCHANGED <<file, listed, lib, result, buf, count, good, mishaps>>

AtStep ==
    \/ AtUnlink("unlink_img", "IMG", "unlink_info")
    \/ AtUnlink("unlink_info", "INFO", "list")
    \/ AtList
    \/ AtBackup

------------------------------------------------------------------------------
\* The device goes down: a write in progress may be cut anywhere, and what
\* becomes of the list is not this program's to say.
Reset ==
    /\ boots < MaxBoots
    /\ boots' = boots + 1
    /\ file' \in IF lib.pc = "write" /\ file[lib.id] # Absent
                 THEN {[file EXCEPT ![lib.id] = c] :
                           c \in {file[lib.id], Torn, lib.val}}
                 ELSE {file}
    /\ listed' \in BOOLEAN
    /\ lib' = NoCall /\ result' = "none" /\ buf' = Empty
    /\ at' = "idle"
    /\ good' = Absent /\ mishaps' = {}
    /\ UNCHANGED <<backup, calls, carried, erased>>

Next == LibCall \/ LibStep \/ AtErase \/ AtStep \/ Reset

Spec == Init /\ [][Next]_vars

------------------------------------------------------------------------------
(* Type invariant: what each variable may hold. *)
TypeOK ==
    /\ file \in [Ids -> Contents]
    /\ backup \in Contents /\ listed \in BOOLEAN
    /\ lib \in [pc : LibAt, call : Calls, id : Ids, val : Data \cup {Absent}]
    /\ result \in {"none", "TRUE", "FALSE"}
    /\ buf \in Contents \ {Absent}
    /\ at \in AtAt
    /\ calls \in 0 .. MaxCalls /\ boots \in 0 .. MaxBoots
    /\ good \in Contents /\ carried \subseteq Contents /\ erased \in BOOLEAN
    /\ mishaps \subseteq Mishaps

Returned(call, r) == lib.pc = "idle" /\ lib.call = call /\ result = r

(* softsim_load_flash gives back what was backed up, in the buffer and, until *)
(* an erase, in the file, whatever the file held before (a torn or newer IMG *)
(* included), and fails only when there is no backup.  That is so as long as *)
(* nothing fails: the results of its unlink and its read are lost.           *)
LoadFlashRestores ==
    mishaps = {} =>
        /\ Returned("load_flash", "TRUE") /\ at = "idle"
               => /\ good # Absent /\ buf = good
                  /\ erased \/ file["IMG"] = good
        /\ Returned("load_flash", "FALSE") => good = Absent

(* After an erase nothing comes back from anywhere, a file, the backup or a  *)
(* restore, until the library saves again, not even across resets, but what  *)
(* got past it: what a deletion of the erase itself that failed left in its  *)
(* place (the code does not notice), and what a call of the library that ran *)
(* beside the erase carried, the data of that save or the backup of that     *)
(* restore.  Never the rest of the old profile, whatever else fails.         *)
Gone(c) == c \in {Absent, Empty} \cup carried
ErasedStaysErased ==
    erased => Gone(backup) /\ \A id \in Ids : Gone(file[id])

(* What the commented-out calls of nvdm_write_data_item say: ret_val is the  *)
(* result of the write, so TRUE means that the file holds the data.          *)
SavedWhenTrue ==
    Returned("save_nvram", "TRUE") /\ at = "idle" /\ ~erased
            /\ "overlap" \notin mishaps
        => file[lib.id] = lib.val

(* What the comment in softsim_load_flash says: the restore releases the     *)
(* backup, so it is backed up again, and the next load finds one.            *)
BackupKept ==
    Returned("load_flash", "TRUE") /\ mishaps = {} /\ at = "idle"
        => backup # Absent
==============================================================================
