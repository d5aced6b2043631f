-------------------------------- MODULE Boot --------------------------------
(***************************************************************************)
(* src/src/main.cpp: the boot, from watchdog_init() to the sleep for ever  *)
(* of main(), with what it calls: the watchdog, the SD card, the           *)
(* activation of the network, cert_provision() of tls.cpp, which keeps the *)
(* server's root certificate in the modem, assistance_init() of            *)
(* assistance.cpp, which keeps the factory almanac in the modem and its    *)
(* checksum in the settings, and gps_init().                               *)
(*                                                                         *)
(* Every call can fail, the device can be reset between any two of them,   *)
(* and a reset can start a newer firmware (MCUboot), which brings its own  *)
(* certificate and almanac.  A certificate, an almanac and a checksum are  *)
(* known by the version of the firmware they came with.                    *)
(***************************************************************************)
EXTENDS Connectivity, Watchdog, SdCard

CONSTANTS
    Versions,       \* bound: firmware versions
    MaxFaults,      \* bound: failing calls
    MaxResets       \* bound: resets that no code asked for

ASSUME BootAssumption == Versions \in Nat \ {0} /\ MaxFaults \in Nat /\ MaxResets \in Nat

VARIABLES
    firmware,               \* the version running
    certificate,            \* in the modem, under TLS_SEC_TAG
    almanac,                \* in the modem
    almanac_checksum,       \* in the settings
    modem,                  \* the modem library is initialised
    gnss_config,            \* what gps_init() has set in the modem
    pc,                     \* the call that is next
    rc_ok,                  \* networking_init's rc is 0 so far
    faults,
    resets

flashVars == <<certificate, almanac, almanac_checksum>>
modemVars == <<modem, gnss_config>>
bootVars == <<connVars, watchdogVars, sdVars, firmware, flashVars, modemVars,
              pc, rc_ok, faults, resets>>

Version == 1 .. Versions
None == 0

\* gps_init() after assistance_init(), in its order.
NextSetting == [func_mode |-> "event_handler", event_handler |-> "nmea_mask",
                nmea_mask |-> "use_case", use_case |-> "fix_retry",
                fix_retry |-> "fix_interval", fix_interval |-> "gnss_start"]
Settings == {"func_mode", "event_handler", "nmea_mask", "use_case", "fix_retry",
             "fix_interval"}

AlmanacCalls == {"settings_load", "almanac_write", "settings_save"}
WatchdogCalls == {"wdt_install", "wdt_setup"}
SdCalls == {"disk_init", "disk_status", "mount", "mkfs", "mount_again", "mkdir"}
NetworkCalls == {"if_up", "exists", "cmp", "delete", "write"}

\* main() has looked at the result of networking_init().
Networked == AlmanacCalls \cup Settings \cup {"gnss_start", "running"}

Call == WatchdogCalls \cup {"modem_init"} \cup SdCalls \cup NetworkCalls \cup Networked
            \cup {"check", "oops", "halted"}

TypeOK ==
    /\ ConnTypeOK
    /\ WatchdogTypeOK
    /\ SdTypeOK
    /\ firmware \in Version
    /\ certificate \in Version \cup {None}
    /\ almanac \in Version \cup {None}
    /\ almanac_checksum \in Version \cup {None}
    /\ modem \in BOOLEAN
    /\ gnss_config \subseteq Settings
    /\ pc \in Call
    /\ rc_ok \in BOOLEAN
    /\ faults \in 0 .. MaxFaults
    /\ resets \in 0 .. MaxResets

\* A device out of the box, with a new card.
Init ==
    /\ NetworkingOff
    /\ WatchdogOff
    /\ card = "unformatted"
    /\ mounted = FALSE
    /\ sdcard_rc = "none"
    /\ firmware = 1
    /\ certificate = None
    /\ almanac = None
    /\ almanac_checksum = None
    /\ modem = FALSE
    /\ gnss_config = {}
    /\ pc = "wdt_install"
    /\ rc_ok = TRUE
    /\ faults = 0
    /\ resets = 0

-----------------------------------------------------------------------------

\* One of the calls fails.
Fault ==
    /\ faults < MaxFaults
    /\ faults' = faults + 1

Returns(call, ok, next) ==
    /\ pc = call
    /\ pc' = next
    /\ IF ok THEN UNCHANGED faults ELSE Fault
    /\ UNCHANGED <<firmware, resets>>

\* One that the modem library refuses as long as it is not initialised.
ModemReturns(call, ok, next) ==
    /\ pc = call
    /\ pc' = next
    /\ ok => modem
    /\ IF ok \/ ~modem THEN UNCHANGED faults ELSE Fault
    /\ UNCHANGED <<firmware, resets>>

(* watchdog_init(), whose errors are logged only *)

InstallTimeout(ok) ==
    /\ Returns("wdt_install", ok, IF ok THEN "wdt_setup" ELSE "modem_init")
    /\ UNCHANGED <<connVars, watchdogVars, sdVars, flashVars, modemVars, rc_ok>>

SetUp(ok) ==
    /\ Returns("wdt_setup", ok, "modem_init")
    /\ IF ok THEN SetUpWatchdog ELSE UNCHANGED watchdogVars
    /\ UNCHANGED <<connVars, sdVars, flashVars, modemVars, rc_ok>>

\* nrf_modem_lib_init(), whose result main() does not look at.
ModemInit(ok) ==
    /\ Returns("modem_init", ok, "disk_init")
    /\ modem' = ok
    /\ UNCHANGED <<connVars, watchdogVars, sdVars, flashVars, gnss_config, rc_ok>>

(* sdcard_init(), whose result main() does not look at *)

\* Disabled, it returns 0 at once.
DiskInit(ok) ==
    /\ TRACKCAR_ENABLE_SD_CARD \/ ok
    /\ Returns("disk_init", ok,
               IF TRACKCAR_ENABLE_SD_CARD /\ ok THEN "disk_status" ELSE "if_up")
    /\ IF TRACKCAR_ENABLE_SD_CARD THEN DiskAnswers(ok)
       ELSE sdcard_rc' = "ok" /\ UNCHANGED <<card, mounted>>
    /\ UNCHANGED <<connVars, watchdogVars, flashVars, modemVars, rc_ok>>

DiskStatus(ok) ==
    /\ Returns("disk_status", ok, IF ok THEN "mount" ELSE "if_up")
    /\ DiskAnswers(ok)
    /\ UNCHANGED <<connVars, watchdogVars, flashVars, modemVars, rc_ok>>

\* It takes no fault for the mount of a card without a file system to fail.
MountCard(ok) ==
    /\ pc = "mount"
    /\ pc' = IF ok THEN "mkdir" ELSE "mkfs"
    /\ Mount(ok, FALSE)
    /\ IF ok \/ card = "unformatted" THEN UNCHANGED faults ELSE Fault
    /\ UNCHANGED <<connVars, watchdogVars, firmware, flashVars, modemVars, rc_ok, resets>>

FormatCard(ok) ==
    /\ Returns("mkfs", ok, IF ok THEN "mount_again" ELSE "if_up")
    /\ Format(ok)
    /\ UNCHANGED <<connVars, watchdogVars, flashVars, modemVars, rc_ok>>

MountAgain(ok) ==
    /\ Returns("mount_again", ok, IF ok THEN "mkdir" ELSE "if_up")
    /\ Mount(ok, TRUE)
    /\ UNCHANGED <<connVars, watchdogVars, flashVars, modemVars, rc_ok>>

MakeDirectory(ok) ==
    /\ Returns("mkdir", ok, "if_up")
    /\ MakeLogs(ok)
    /\ UNCHANGED <<connVars, watchdogVars, flashVars, modemVars, rc_ok>>

(* networking_init() *)

\* set_networking_state(Activated) ...  An interface that comes up may
\* initialise a modem library that is not.
Activate(ok) ==
    /\ Returns("if_up", ok, "exists")
    /\ IF ok THEN ActivateDone ELSE ActivateRefused
    /\ rc_ok' = ok
    /\ modem' \in {modem, TRUE}
    /\ UNCHANGED <<watchdogVars, sdVars, flashVars, gnss_config>>

\* Mutant: rc = cert_provision() for rc |= cert_provision().
KeyExists_ForgetsRc(ok) ==
    /\ ModemReturns("exists", ok, IF ~ok THEN "check"
                                  ELSE IF certificate # None THEN "cmp" ELSE "write")
    /\ rc_ok' = ok
    /\ UNCHANGED <<connVars, watchdogVars, sdVars, flashVars, modemVars>>

\* ... then cert_provision(), whatever the first returned.
KeyExists(ok) ==
    /\ ModemReturns("exists", ok, IF ~ok THEN "check"
                                  ELSE IF certificate # None THEN "cmp" ELSE "write")
    /\ rc_ok' = (rc_ok /\ ok)
    /\ UNCHANGED <<connVars, watchdogVars, sdVars, flashVars, modemVars>>

\* Mutant: a mismatch is reported as an error.
KeyCompare_ReturnsError(ok) ==
    /\ ModemReturns("cmp", ok, "check")
    /\ rc_ok' = (rc_ok /\ ok /\ certificate = firmware)
    /\ UNCHANGED <<connVars, watchdogVars, sdVars, flashVars, modemVars>>

\* An error is taken for a mismatch.
KeyCompare(ok) ==
    /\ ModemReturns("cmp", ok, IF ok /\ certificate = firmware THEN "check" ELSE "delete")
    /\ UNCHANGED <<connVars, watchdogVars, sdVars, flashVars, modemVars, rc_ok>>

\* Its error is logged only.
KeyDelete(ok) ==
    /\ ModemReturns("delete", ok, "write")
    /\ certificate' = IF ok THEN None ELSE certificate
    /\ UNCHANGED <<connVars, watchdogVars, sdVars, modemVars, rc_ok,
                   almanac, almanac_checksum>>

\* Mutant: the error is logged only.
KeyWrite_IgnoresError(ok) ==
    /\ ModemReturns("write", ok, "check")
    /\ certificate' = IF ok THEN firmware ELSE certificate
    /\ UNCHANGED <<connVars, watchdogVars, sdVars, modemVars, rc_ok,
                   almanac, almanac_checksum>>

KeyWrite(ok) ==
    /\ ModemReturns("write", ok, "check")
    /\ certificate' = IF ok THEN firmware ELSE certificate
    /\ rc_ok' = (rc_ok /\ ok)
    /\ UNCHANGED <<connVars, watchdogVars, sdVars, modemVars,
                   almanac, almanac_checksum>>

\* main(): an error of networking_init() ends in k_oops().
CheckNetworking ==
    /\ pc = "check"
    /\ pc' = IF rc_ok THEN "settings_load" ELSE "oops"
    /\ UNCHANGED <<connVars, watchdogVars, sdVars, firmware, flashVars, modemVars,
                   rc_ok, faults, resets>>

\* What set() leaves in it: nothing that equals a checksum, if there is none in
\* the settings or it could not be read, or not to its end.
current_alm_checksum(read) == IF read THEN almanac_checksum ELSE None

\* gps_init() calls assistance_init() and does not look at its result.  set()
\* answers 0 even if the reading failed: settings_load() succeeds all the same,
\* and an almanac that is in the modem already is written again.
SettingsLoad(ok) == \E read \in BOOLEAN :
    /\ read \/ (ok /\ almanac_checksum # None)
    /\ Returns("settings_load", ok /\ read,
               IF ok /\ current_alm_checksum(read) # firmware THEN "almanac_write"
                                                             ELSE "func_mode")
    /\ UNCHANGED <<connVars, watchdogVars, sdVars, flashVars, modemVars, rc_ok>>

\* Mutant: the checksum is saved although the almanac was not written.
AlmanacWrite_SavesAnyway(ok) ==
    /\ ModemReturns("almanac_write", ok, "settings_save")
    /\ almanac' = IF ok THEN firmware ELSE almanac
    /\ UNCHANGED <<connVars, watchdogVars, sdVars, modemVars, rc_ok,
                   certificate, almanac_checksum>>

AlmanacWrite(ok) ==
    /\ ModemReturns("almanac_write", ok, IF ok THEN "settings_save" ELSE "func_mode")
    /\ almanac' = IF ok THEN firmware ELSE almanac
    /\ UNCHANGED <<connVars, watchdogVars, sdVars, modemVars, rc_ok,
                   certificate, almanac_checksum>>

SettingsSave(ok) ==
    /\ Returns("settings_save", ok, "func_mode")
    /\ almanac_checksum' = IF ok THEN firmware ELSE almanac_checksum
    /\ UNCHANGED <<connVars, watchdogVars, sdVars, modemVars, rc_ok,
                   certificate, almanac>>

\* The settings of gps_init(); an error ends it, but for the use case's, which
\* is a warning.
Setting(call, ok) ==
    /\ ModemReturns(call, ok, IF ok \/ call = "use_case" THEN NextSetting[call] ELSE "oops")
    /\ gnss_config' = IF ok THEN gnss_config \cup {call} ELSE gnss_config
    /\ UNCHANGED <<connVars, watchdogVars, sdVars, flashVars, modem, rc_ok>>

\* main() sleeps for ever or calls k_oops().
StartGps(ok) ==
    /\ ModemReturns("gnss_start", ok, IF ok THEN "running" ELSE "oops")
    /\ UNCHANGED <<connVars, watchdogVars, sdVars, flashVars, modemVars, rc_ok>>

main == \/ CheckNetworking
        \/ \E ok \in BOOLEAN :
               \/ InstallTimeout(ok) \/ SetUp(ok) \/ ModemInit(ok)
               \/ DiskInit(ok) \/ DiskStatus(ok) \/ MountCard(ok)
               \/ FormatCard(ok) \/ MountAgain(ok) \/ MakeDirectory(ok)
               \/ Activate(ok)
               \/ KeyExists(ok) \/ KeyCompare(ok) \/ KeyDelete(ok) \/ KeyWrite(ok)
               \/ SettingsLoad(ok) \/ AlmanacWrite(ok) \/ SettingsSave(ok)
               \/ \E call \in Settings : Setting(call, ok)
               \/ StartGps(ok)

-----------------------------------------------------------------------------

\* RAM, current_alm_checksum in it, and the modem's state are lost; firmware
\* that was installed meanwhile runs.
Reboot ==
    /\ pc' = "wdt_install"
    /\ rc_ok' = TRUE
    /\ firmware' \in firmware .. Versions
    /\ current_state' = "Deactivated" /\ link' = "down" /\ network_connected' = 0
    /\ wdt_running' = FALSE /\ wdt_timer' = NotStarted /\ unfed' = 0
    /\ mounted' = FALSE /\ sdcard_rc' = "none"
    /\ modem' = FALSE
    /\ gnss_config' = {}
    /\ UNCHANGED <<card, flashVars, faults>>

\* k_oops(): the fatal error handler resets the device, which is the SDK's
\* default when DEBUG is off ...
OopsResets == pc = "oops" /\ Reboot /\ UNCHANGED resets

\* ... or stops it, with interrupts locked.
OopsHalts ==
    /\ pc = "oops"
    /\ pc' = "halted"
    /\ UNCHANGED <<connVars, watchdogVars, sdVars, firmware, flashVars, modemVars,
                   rc_ok, faults, resets>>

\* Power loss, brown-out, reset button: at any time.
Reset == resets < MaxResets /\ resets' = resets + 1 /\ Reboot

WatchdogResets == Expired /\ Reboot /\ UNCHANGED resets

Time ==
    /\ \/ WatchdogTick(pc # "halted")
       \/ pc # "halted" /\ Feed
    /\ UNCHANGED <<connVars, sdVars, firmware, flashVars, modemVars, pc, rc_ok,
                   faults, resets>>

Next == main \/ OopsResets \/ OopsHalts \/ Reset \/ WatchdogResets \/ Time

Spec == Init /\ [][Next]_bootVars

\* The modem's and the drivers' calls return: nothing resets a device that hangs
\* in one, its watchdog is fed all the same.
FairSpec ==
    /\ Spec
    /\ WF_bootVars(main)
    /\ WF_bootVars(OopsResets \/ OopsHalts)
    /\ WF_bootVars(Time)
    /\ WF_bootVars(WatchdogResets)

-----------------------------------------------------------------------------

\* When main() goes on after networking_init() the modem holds the certificate
\* of this firmware, whichever calls failed and whatever an earlier, interrupted
\* boot had deleted or written.
CertificateReady == pc \in Networked => certificate = firmware

\* assistance.cpp:62, "Check if the same almanac has already been written": the
\* checksum in the settings never claims an almanac the modem has not got,
\* although the two are written by two calls.
ChecksumTruthful == almanac_checksum = firmware => almanac = firmware

\* main() hands the device over in the states that the other modules start
\* from, though every error is only added to rc, and some are ignored: the modem
\* library is initialised, networking_init() has left the interface up, recorded
\* as such (Init of NetworkRequests), and a GNSS that is started has its event
\* handler and all its settings but the use case (Init of Gps).
HandsOver ==
    /\ pc \in Networked => modem /\ networking_init
    /\ pc \in {"gnss_start", "running"} => Settings \ {"use_case"} \subseteq gnss_config

\* The watchdog is fed in time from the moment it is set up, while the boot goes
\* on, fails, sleeps or runs: it expires only when the kernel has halted.
FedInTime == Expired => pc = "halted"

\* An sdcard_init() that returned 0 has left a mounted card with its directory,
\* whatever an earlier boot had left on it.
SdCardReady ==
    TRACKCAR_ENABLE_SD_CARD /\ sdcard_rc = "ok" => mounted /\ card = "logs"

\* No interrupted boot leaves the flash in a state that later boots cannot get
\* out of: when calls stop failing and resets stop, the device runs.  The one
\* exception is a k_oops() that halts before a watchdog was set up.
Boots == <>[](pc = "running" \/ (pc = "halted" /\ ~wdt_running))

=============================================================================
