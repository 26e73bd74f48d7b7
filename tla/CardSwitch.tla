------------------------------ MODULE CardSwitch ------------------------------
(***************************************************************************)
(* What a user of AT+PSOFTSIM is promised: the setting outlives a reset of  *)
(* the device, the modem sees a card or none, and as long as nothing goes   *)
(* wrong since the boot, the load of the setting included, the card follows *)
(* it.  Threads, the flag and the client handle do not exist here:          *)
(* Lifecycle is the program that implements this.                           *)
(***************************************************************************)

VARIABLES
    want,       \* the setting: TRUE when the card shall be on
    present,    \* the modem sees the card
    sound       \* nothing has gone wrong since the boot

switchVars == <<want, present, sound>>

SwitchInit == want = FALSE /\ present = FALSE /\ sound = TRUE

\* A new setting is stored; the card is as it was.
Set ==
    /\ sound
    /\ want' = ~want
    /\ UNCHANGED <<present, sound>>

\* The card is put in or taken out, never against the setting.
Obey ==
    /\ sound
    /\ present # want
    /\ present' = want
    /\ UNCHANGED <<want, sound>>

\* Something goes wrong, which by itself changes neither.
Fail ==
    /\ sound
    /\ sound' = FALSE
    /\ UNCHANGED <<want, present>>

\* From then on either may change, but not both at once.
Astray ==
    /\ ~sound
    /\ want' \in BOOLEAN /\ present' \in BOOLEAN
    /\ want' = want \/ present' = present
    /\ UNCHANGED sound

\* A reset takes the card away, keeps the setting and starts afresh.
Restart ==
    /\ present' = FALSE
    /\ sound' = TRUE
    /\ UNCHANGED want

SwitchNext == Set \/ Obey \/ Fail \/ Astray \/ Restart

SwitchSafety == SwitchInit /\ [][SwitchNext]_switchVars

\* A setting is not ignored for ever.
SwitchSpec == SwitchSafety /\ WF_switchVars(Obey)
===============================================================================
