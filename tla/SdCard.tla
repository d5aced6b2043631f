------------------------------- MODULE SdCard -------------------------------
(***************************************************************************)
(* src/src/sdcard/sdcard.cpp: mounting the SD card for the logs, with a    *)
(* format when the mount fails.  The card keeps its contents over a reset, *)
(* the mount does not.  The module has no Next of its own: Boot runs its   *)
(* steps.                                                                  *)
(***************************************************************************)

CONSTANT TRACKCAR_ENABLE_SD_CARD    \* Kconfig; FALSE by default

ASSUME SdCardAssumption == TRACKCAR_ENABLE_SD_CARD \in BOOLEAN

VARIABLES
    card,           \* what is on it: no file system, an empty one, or one
                    \* with the directory /logs
    mounted,        \* sd_mount is in use
    sdcard_rc       \* history: what sdcard_init() returned

sdVars == <<card, mounted, sdcard_rc>>

Card == {"unformatted", "empty", "logs"}

SdTypeOK ==
    /\ card \in Card
    /\ mounted \in BOOLEAN
    /\ sdcard_rc \in {"none", "ok", "error"}

-----------------------------------------------------------------------------

\* disk_access_init, disk_access_status: nothing of this state changes.
DiskAnswers(ok) ==
    /\ sdcard_rc' = IF ok THEN sdcard_rc ELSE "error"
    /\ UNCHANGED <<card, mounted>>

\* fs_mount: only a file system can be mounted.
Mount(ok, last) ==
    /\ ok => card # "unformatted"
    /\ mounted' = ok
    /\ sdcard_rc' = IF ok \/ ~last THEN sdcard_rc ELSE "error"
    /\ UNCHANGED card

\* fs_mkfs: one that failed can leave anything.
Format(ok) ==
    /\ IF ok THEN card' = "empty" /\ UNCHANGED sdcard_rc
       ELSE card' \in {card, "unformatted", "empty"} /\ sdcard_rc' = "error"
    /\ UNCHANGED mounted

\* Mutant: the result of fs_mkdir() is not looked at.
MakeLogs_IgnoresError(ok) ==
    /\ ok => mounted
    /\ card' = IF ok THEN "logs" ELSE card
    /\ sdcard_rc' = "ok"
    /\ UNCHANGED mounted

\* fs_mkdir: -EEXIST counts as success.
MakeLogs(ok) ==
    /\ ok => mounted
    /\ card' = IF ok THEN "logs" ELSE card
    /\ sdcard_rc' = IF ok THEN "ok" ELSE "error"
    /\ UNCHANGED mounted

=============================================================================
