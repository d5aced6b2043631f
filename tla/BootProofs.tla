----------------------------- MODULE BootProofs -----------------------------
(***************************************************************************)
(* For every number of firmware versions, failing calls and resets, and    *)
(* every feeding period below the watchdog's window: the boot never runs   *)
(* on without its certificate, network or GNSS settings, the checksum      *)
(* never claims more than the modem holds, and the watchdog expires only   *)
(* in a kernel that halted.                                                *)
(***************************************************************************)
EXTENDS Boot, TLAPS

\* What makes CertificateReady inductive: networking_init() that returns 0 has
\* left the certificate in the modem.
CertInv ==
    /\ CertificateReady
    /\ pc = "check" /\ rc_ok => certificate = firmware

\* Firmware only gets newer, and each call writes the version running.
AlmanacInv ==
    /\ almanac_checksum <= almanac
    /\ almanac <= firmware
    /\ pc = "settings_save" => almanac = firmware

\* What has been done by the time each call is next.
HandsOverInv ==
    /\ HandsOver
    /\ pc \in WatchdogCalls \cup SdCalls \cup {"modem_init", "if_up"} => NetworkingOff
    /\ pc \in {"exists", "cmp", "delete", "write", "check"} /\ rc_ok => networking_init
    /\ pc \in {"cmp", "delete", "write"} \/ (pc = "check" /\ rc_ok) => modem
    /\ pc \in {"event_handler", "nmea_mask", "use_case", "fix_retry", "fix_interval"}
           => "func_mode" \in gnss_config
    /\ pc \in {"nmea_mask", "use_case", "fix_retry", "fix_interval"}
           => "event_handler" \in gnss_config
    /\ pc \in {"use_case", "fix_retry", "fix_interval"} => "nmea_mask" \in gnss_config
    /\ pc = "fix_interval" => "fix_retry" \in gnss_config

\* A watchdog that runs has its timer started, and the ticks gone by and the
\* ticks left make no more than the longer of the timer's two delays.
FedInv ==
    wdt_running /\ pc # "halted" =>
        /\ wdt_timer # NotStarted
        /\ \/ unfed + wdt_timer <= FEED_START
           \/ unfed + wdt_timer <= FEED_PERIOD

\* sdcard_init() returns 0 through fs_mkdir() only, before which it has mounted.
SdInv ==
    /\ SdCardReady
    /\ pc \in WatchdogCalls \cup {"modem_init"} \cup SdCalls => sdcard_rc # "ok"

\* The numbers of ticks that wdt_timer is set to.
LEMMA Ticks ==
    /\ WINDOW \in Nat /\ FEED_START \in Nat /\ FEED_PERIOD \in Nat
    /\ NotStarted \in 0 .. WINDOW
    /\ FEED_START \in 0 .. WINDOW /\ FEED_START # NotStarted
    /\ FEED_PERIOD \in 0 .. WINDOW /\ FEED_PERIOD # NotStarted
    /\ 0 \in 0 .. WINDOW
<1>1. /\ FEED_START \in Nat /\ FEED_PERIOD \in Nat /\ WINDOW \in Nat
      /\ FEED_START < WINDOW /\ FEED_PERIOD < WINDOW
  BY WatchdogAssumption DEF WatchdogAssumption
<1> QED
  BY <1>1 DEF NotStarted

\* Where the steps of main() lead.
LEMMA Calls ==
    /\ {"wdt_install", "wdt_setup"} \subseteq Call
    /\ {"disk_init", "disk_status", "mount", "mkfs", "mount_again", "mkdir"} \subseteq Call
    /\ {"if_up", "exists", "cmp", "delete", "write"} \subseteq Call
    /\ {"modem_init", "check", "oops", "halted", "gnss_start", "running"} \subseteq Call
    /\ {"settings_load", "almanac_write", "settings_save", "func_mode"} \subseteq Call
    /\ \A call \in Settings : NextSetting[call] \in Call
  BY DEF Call, WatchdogCalls, SdCalls, NetworkCalls, Networked, AlmanacCalls, Settings,
         NextSetting

\* Type correctness: every call leaves every variable within its type.
THEOREM TypeCorrect == Spec => []TypeOK
<1> USE BootAssumption, SdCardAssumption DEF BootAssumption, SdCardAssumption
<1> USE DEF TypeOK, ConnTypeOK, NetworkState, LinkState, WatchdogTypeOK,
            SdTypeOK, Card, Version, None
<1> USE Calls
<1>1. Init => TypeOK
  <2> SUFFICES ASSUME Init PROVE TypeOK
    OBVIOUS
  <2>1. ConnTypeOK /\ WatchdogTypeOK /\ SdTypeOK
    BY Ticks DEF Init, NetworkingOff, WatchdogOff
  <2>2. pc \in Call
    BY DEF Init
  <2>3. modem \in BOOLEAN /\ rc_ok \in BOOLEAN
    BY Zenon DEF Init
  <2> QED
    BY <2>1, <2>2, <2>3 DEF Init
<1>2. TypeOK /\ [Next]_bootVars => TypeOK'
  <2> SUFFICES ASSUME TypeOK, [Next]_bootVars PROVE TypeOK'
    OBVIOUS
  <2> USE DEF Returns, ModemReturns, Fault, connVars, watchdogVars, sdVars, flashVars, modemVars
  <2>1. CASE CheckNetworking
    BY <2>1 DEF CheckNetworking
  <2>2. ASSUME NEW ok \in BOOLEAN, InstallTimeout(ok)
       PROVE  TypeOK'
    BY <2>2 DEF InstallTimeout
  <2>3. ASSUME NEW ok \in BOOLEAN, SetUp(ok)
       PROVE  TypeOK'
    <3>1. WatchdogTypeOK'
      BY <2>3, Ticks DEF SetUp, SetUpWatchdog
    <3>2. ConnTypeOK' /\ SdTypeOK'
      BY <2>3 DEF SetUp
    <3>3. /\ pc' \in Call /\ faults' \in 0 .. MaxFaults
          /\ UNCHANGED <<firmware, resets>>
      BY <2>3 DEF SetUp
    <3>4. UNCHANGED <<flashVars, modemVars, rc_ok>>
      BY <2>3 DEF SetUp
    <3> QED
      BY <3>1, <3>2, <3>3, <3>4
  <2>4. ASSUME NEW ok \in BOOLEAN, DiskInit(ok)
       PROVE  TypeOK'
    BY <2>4 DEF DiskInit, DiskAnswers
  <2>5. ASSUME NEW ok \in BOOLEAN, DiskStatus(ok)
       PROVE  TypeOK'
    BY <2>5 DEF DiskStatus, DiskAnswers
  <2>6. ASSUME NEW ok \in BOOLEAN, MountCard(ok)
       PROVE  TypeOK'
    BY <2>6 DEF MountCard, Mount
  <2>7. ASSUME NEW ok \in BOOLEAN, FormatCard(ok)
       PROVE  TypeOK'
    BY <2>7 DEF FormatCard, Format
  <2>8. ASSUME NEW ok \in BOOLEAN, MountAgain(ok)
       PROVE  TypeOK'
    BY <2>8 DEF MountAgain, Mount
  <2>9. ASSUME NEW ok \in BOOLEAN, MakeDirectory(ok)
       PROVE  TypeOK'
    BY <2>9 DEF MakeDirectory, MakeLogs
  <2>10. ASSUME NEW ok \in BOOLEAN, Activate(ok)
       PROVE  TypeOK'
    <3>1. ConnTypeOK' /\ modem' \in BOOLEAN /\ rc_ok' \in BOOLEAN
      BY <2>10 DEF Activate, ActivateDone, ActivateRefused
    <3>2. /\ pc' \in Call /\ faults' \in 0 .. MaxFaults
          /\ UNCHANGED <<firmware, resets, watchdogVars, sdVars, flashVars, gnss_config>>
      BY <2>10 DEF Activate
    <3> QED
      BY <3>1, <3>2
  <2>11. ASSUME NEW ok \in BOOLEAN, KeyExists(ok)
       PROVE  TypeOK'
    BY <2>11 DEF KeyExists
  <2>12. ASSUME NEW ok \in BOOLEAN, KeyCompare(ok)
       PROVE  TypeOK'
    BY <2>12 DEF KeyCompare
  <2>13. ASSUME NEW ok \in BOOLEAN, KeyDelete(ok)
       PROVE  TypeOK'
    BY <2>13 DEF KeyDelete
  <2>14. ASSUME NEW ok \in BOOLEAN, KeyWrite(ok)
       PROVE  TypeOK'
    BY <2>14 DEF KeyWrite
  <2>15. ASSUME NEW ok \in BOOLEAN, SettingsLoad(ok)
       PROVE  TypeOK'
    BY <2>15 DEF SettingsLoad
  <2>16. ASSUME NEW ok \in BOOLEAN, AlmanacWrite(ok)
       PROVE  TypeOK'
    BY <2>16 DEF AlmanacWrite
  <2>17. ASSUME NEW ok \in BOOLEAN, SettingsSave(ok)
       PROVE  TypeOK'
    BY <2>17 DEF SettingsSave
  <2>18. ASSUME NEW ok \in BOOLEAN, StartGps(ok)
       PROVE  TypeOK'
    BY <2>18 DEF StartGps
  <2>19. ASSUME NEW ok \in BOOLEAN, NEW call \in Settings, Setting(call, ok)
       PROVE  TypeOK'
    <3>1. gnss_config' \subseteq Settings
      BY <2>19 DEF Setting
    <3>2. pc' \in Call
      BY <2>19 DEF Setting
    <3>3. /\ faults' \in 0 .. MaxFaults
          /\ UNCHANGED <<firmware, resets, connVars, watchdogVars, sdVars, flashVars, modem, rc_ok>>
      BY <2>19 DEF Setting
    <3> QED
      BY <3>1, <3>2, <3>3
  <2>20. CASE OopsResets \/ Reset \/ WatchdogResets
    <3>1. Reboot /\ resets' \in 0 .. MaxResets
      BY <2>20 DEF OopsResets, Reset, WatchdogResets, Reboot
    <3>2. WatchdogTypeOK'
      BY <3>1, Ticks DEF Reboot
    <3>3. ConnTypeOK' /\ SdTypeOK'
      BY <3>1 DEF Reboot
    <3>4. pc' \in Call /\ firmware' \in Version /\ gnss_config' \subseteq Settings
      BY <3>1 DEF Reboot
    <3>5. UNCHANGED <<flashVars, faults>>
      BY <3>1 DEF Reboot
    <3>6. rc_ok' \in BOOLEAN /\ modem' \in BOOLEAN
      BY <3>1, Zenon DEF Reboot
    <3> QED
      BY <3>1, <3>2, <3>3, <3>4, <3>5, <3>6
  <2>21. CASE OopsHalts
    BY <2>21 DEF OopsHalts
  <2>22. CASE Time
    <3>1. ASSUME WatchdogTick(pc # "halted") PROVE WatchdogTypeOK'
      <4>1. WINDOW \in Nat /\ unfed \in 0 .. WINDOW /\ wdt_timer \in 0 .. WINDOW
        BY Ticks
      <4>2. unfed' = unfed + 1 /\ unfed < WINDOW
        BY <3>1, <4>1 DEF WatchdogTick, Expired
      <4>3. \/ wdt_timer' = wdt_timer
            \/ wdt_timer # 0 /\ wdt_timer' = wdt_timer - 1
        BY <3>1 DEF WatchdogTick, TimerDue
      <4>4. UNCHANGED wdt_running
        BY <3>1 DEF WatchdogTick
      <4> QED
        BY <4>1, <4>2, <4>3, <4>4
    <3>2. ASSUME Feed PROVE WatchdogTypeOK'
      BY <3>2, Ticks DEF Feed
    <3>3. WatchdogTypeOK'
      BY <2>22, <3>1, <3>2 DEF Time
    <3> QED
      BY <2>22, <3>3 DEF Time
  <2>23. CASE UNCHANGED bootVars
    BY <2>23 DEF bootVars
  <2>24. ASSUME NEW ok \in BOOLEAN, ModemInit(ok)
       PROVE  TypeOK'
    BY <2>24 DEF ModemInit
  <2> QED
    BY <2>1, <2>2, <2>3, <2>4, <2>5, <2>6, <2>7, <2>8, <2>9, <2>10,
       <2>11, <2>12, <2>13, <2>14, <2>15, <2>16, <2>17, <2>18, <2>19,
       <2>20, <2>21, <2>22, <2>23, <2>24
    DEF Next, main
<1> QED
  BY <1>1, <1>2, PTL DEF Spec

\* CertificateReady: main() goes on after networking_init() only with this
\* firmware's certificate in the modem.
THEOREM CertificateThere == Spec => []CertificateReady
<1> USE DEF CertInv, CertificateReady, Networked, AlmanacCalls, Settings
<1>1. Init => CertInv
  BY DEF Init
<1>2. CertInv /\ [Next]_bootVars => CertInv'
  <2> SUFFICES ASSUME CertInv, [Next]_bootVars PROVE CertInv'
    OBVIOUS
  <2> USE DEF Returns, ModemReturns, flashVars, modemVars
  <2>1. CASE CheckNetworking
    BY <2>1 DEF CheckNetworking
  <2>2. ASSUME NEW ok \in BOOLEAN, InstallTimeout(ok) \/ SetUp(ok) \/ ModemInit(ok) \/ DiskInit(ok) \/ DiskStatus(ok)
       PROVE  CertInv'
    BY <2>2 DEF InstallTimeout, SetUp, SetUpWatchdog, ModemInit, DiskInit, DiskAnswers, DiskStatus
  <2>3. ASSUME NEW ok \in BOOLEAN, MountCard(ok) \/ FormatCard(ok) \/ MountAgain(ok) \/ MakeDirectory(ok)
       PROVE  CertInv'
    BY <2>3 DEF MountCard, Mount, FormatCard, Format, MountAgain, MakeDirectory, MakeLogs
  <2>4. ASSUME NEW ok \in BOOLEAN, Activate(ok) \/ KeyExists(ok)
       PROVE  CertInv'
    BY <2>4 DEF Activate, ActivateDone, ActivateRefused, KeyExists
  <2>5. ASSUME NEW ok \in BOOLEAN, KeyCompare(ok) \/ KeyDelete(ok)
       PROVE  CertInv'
    BY <2>5 DEF KeyCompare, KeyDelete
  <2>6. ASSUME NEW ok \in BOOLEAN, KeyWrite(ok)
       PROVE  CertInv'
    BY <2>6 DEF KeyWrite
  <2>7. ASSUME NEW ok \in BOOLEAN, SettingsLoad(ok) \/ AlmanacWrite(ok)
       PROVE  CertInv'
    BY <2>7 DEF SettingsLoad, AlmanacWrite
  <2>8. ASSUME NEW ok \in BOOLEAN, SettingsSave(ok) \/ StartGps(ok)
       PROVE  CertInv'
    BY <2>8 DEF SettingsSave, StartGps
  <2>9. ASSUME NEW ok \in BOOLEAN, NEW call \in Settings, Setting(call, ok)
       PROVE  CertInv'
    BY <2>9 DEF Setting, Settings, NextSetting
  <2>10. CASE OopsResets \/ Reset \/ WatchdogResets
    BY <2>10 DEF OopsResets, Reset, WatchdogResets, Reboot
  <2>11. CASE OopsHalts
    BY <2>11 DEF OopsHalts
  <2>12. CASE Time
    BY <2>12 DEF Time, WatchdogTick, Feed, TimerDue, Expired
  <2>13. CASE UNCHANGED bootVars
    BY <2>13 DEF bootVars
  <2> QED
    BY <2>1, <2>2, <2>3, <2>4, <2>5, <2>6, <2>7, <2>8, <2>9, <2>10,
       <2>11, <2>12, <2>13
    DEF Next, main
<1>3. CertInv => CertificateReady
  OBVIOUS
<1> QED
  BY <1>1, <1>2, <1>3, PTL DEF Spec

\* ChecksumTruthful: the checksum saved never claims an almanac that was not
\* written.
THEOREM ChecksumNeverLies == Spec => []ChecksumTruthful
<1> USE BootAssumption DEF BootAssumption, TypeOK, Version, None, AlmanacInv
<1>1. Init => AlmanacInv
  BY DEF Init
<1>2. TypeOK /\ AlmanacInv /\ [Next]_bootVars => AlmanacInv'
  <2> SUFFICES ASSUME TypeOK, AlmanacInv, [Next]_bootVars PROVE AlmanacInv'
    OBVIOUS
  <2> USE DEF Returns, ModemReturns, flashVars, modemVars
  <2>1. CASE CheckNetworking
    BY <2>1 DEF CheckNetworking
  <2>2. ASSUME NEW ok \in BOOLEAN, InstallTimeout(ok) \/ SetUp(ok) \/ ModemInit(ok) \/ DiskInit(ok) \/ DiskStatus(ok)
       PROVE  AlmanacInv'
    BY <2>2 DEF InstallTimeout, SetUp, SetUpWatchdog, ModemInit, DiskInit, DiskAnswers, DiskStatus
  <2>3. ASSUME NEW ok \in BOOLEAN, MountCard(ok) \/ FormatCard(ok) \/ MountAgain(ok) \/ MakeDirectory(ok)
       PROVE  AlmanacInv'
    BY <2>3 DEF MountCard, Mount, FormatCard, Format, MountAgain, MakeDirectory, MakeLogs
  <2>4. ASSUME NEW ok \in BOOLEAN, Activate(ok) \/ KeyExists(ok)
       PROVE  AlmanacInv'
    BY <2>4 DEF Activate, ActivateDone, ActivateRefused, KeyExists
  <2>5. ASSUME NEW ok \in BOOLEAN, KeyCompare(ok)
       PROVE  AlmanacInv'
    BY <2>5 DEF KeyCompare
  <2>6. ASSUME NEW ok \in BOOLEAN, KeyDelete(ok) \/ KeyWrite(ok)
       PROVE  AlmanacInv'
    BY <2>6 DEF KeyDelete, KeyWrite
  <2>7. ASSUME NEW ok \in BOOLEAN, SettingsLoad(ok)
       PROVE  AlmanacInv'
    BY <2>7 DEF SettingsLoad
  <2>8. ASSUME NEW ok \in BOOLEAN, AlmanacWrite(ok)
       PROVE  AlmanacInv'
    BY <2>8 DEF AlmanacWrite
  <2>9. ASSUME NEW ok \in BOOLEAN, SettingsSave(ok) \/ StartGps(ok)
       PROVE  AlmanacInv'
    BY <2>9 DEF SettingsSave, StartGps
  <2>10. ASSUME NEW ok \in BOOLEAN, NEW call \in Settings, Setting(call, ok)
       PROVE  AlmanacInv'
    BY <2>10 DEF Setting, Settings, NextSetting
  <2>11. CASE OopsResets \/ Reset \/ WatchdogResets
    BY <2>11 DEF OopsResets, Reset, WatchdogResets, Reboot
  <2>12. CASE OopsHalts
    BY <2>12 DEF OopsHalts
  <2>13. CASE Time
    BY <2>13 DEF Time, WatchdogTick, Feed, TimerDue, Expired
  <2>14. CASE UNCHANGED bootVars
    BY <2>14 DEF bootVars
  <2> QED
    BY <2>1, <2>2, <2>3, <2>4, <2>5, <2>6, <2>7, <2>8, <2>9, <2>10,
       <2>11, <2>12, <2>13, <2>14
    DEF Next, main
<1>3. TypeOK /\ AlmanacInv => ChecksumTruthful
  BY DEF ChecksumTruthful
<1> QED
  BY <1>1, <1>2, <1>3, TypeCorrect, PTL DEF Spec

\* HandsOver: main() reaches the other modules' initial states, whichever of
\* the errors on its way are added up or ignored.
THEOREM HandedOver == Spec => []HandsOver
<1> USE DEF HandsOverInv, HandsOver, Networked, AlmanacCalls, Settings, WatchdogCalls,
            SdCalls, networking_init, NetworkingOff
<1>1. Init => HandsOverInv
  BY DEF Init
<1>2. HandsOverInv /\ [Next]_bootVars => HandsOverInv'
  <2> SUFFICES ASSUME HandsOverInv, [Next]_bootVars PROVE HandsOverInv'
    OBVIOUS
  <2> USE DEF Returns, ModemReturns, connVars, modemVars
  <2>1. CASE CheckNetworking
    BY <2>1 DEF CheckNetworking
  <2>2. ASSUME NEW ok \in BOOLEAN, InstallTimeout(ok) \/ SetUp(ok) \/ ModemInit(ok) \/ DiskInit(ok) \/ DiskStatus(ok)
       PROVE  HandsOverInv'
    BY <2>2 DEF InstallTimeout, SetUp, SetUpWatchdog, ModemInit, DiskInit, DiskAnswers, DiskStatus
  <2>3. ASSUME NEW ok \in BOOLEAN, MountCard(ok) \/ FormatCard(ok) \/ MountAgain(ok) \/ MakeDirectory(ok)
       PROVE  HandsOverInv'
    BY <2>3 DEF MountCard, Mount, FormatCard, Format, MountAgain, MakeDirectory, MakeLogs
  <2>4. ASSUME NEW ok \in BOOLEAN, Activate(ok)
       PROVE  HandsOverInv'
    BY <2>4 DEF Activate, ActivateDone, ActivateRefused
  <2>5. ASSUME NEW ok \in BOOLEAN, KeyExists(ok) \/ KeyCompare(ok) \/ KeyDelete(ok) \/ KeyWrite(ok)
       PROVE  HandsOverInv'
    <3>1. /\ pc \in {"exists", "cmp", "delete", "write"}
          /\ UNCHANGED <<connVars, modemVars>>
      BY <2>5 DEF KeyExists, KeyCompare, KeyDelete, KeyWrite
    <3>2. pc' \in {"cmp", "delete", "write", "check"}
      BY <2>5 DEF KeyExists, KeyCompare, KeyDelete, KeyWrite
    <3>3. rc_ok' = rc_ok \/ rc_ok' = (rc_ok /\ ok)
      BY <2>5 DEF KeyExists, KeyCompare, KeyDelete, KeyWrite
    <3>4. rc_ok' => rc_ok
      BY <3>3, Zenon
    <3>5. pc' \in {"cmp", "delete", "write"} \/ (pc' = "check" /\ rc_ok') => modem
      BY <2>5 DEF KeyExists, KeyCompare, KeyDelete, KeyWrite
    <3> QED
      BY <3>1, <3>2, <3>4, <3>5
  <2>6. ASSUME NEW ok \in BOOLEAN, SettingsLoad(ok) \/ AlmanacWrite(ok)
       PROVE  HandsOverInv'
    <3>1. pc \in AlmanacCalls /\ UNCHANGED <<connVars, modemVars>>
      BY <2>6 DEF SettingsLoad, AlmanacWrite
    <3>2. pc' \in {"almanac_write", "settings_save", "func_mode"}
      BY <2>6 DEF SettingsLoad, AlmanacWrite
    <3> QED
      BY <3>1, <3>2
  <2>7. ASSUME NEW ok \in BOOLEAN, SettingsSave(ok)
       PROVE  HandsOverInv'
    BY <2>7 DEF SettingsSave
  <2>8. ASSUME NEW ok \in BOOLEAN, StartGps(ok)
       PROVE  HandsOverInv'
    BY <2>8 DEF StartGps
  <2>9. ASSUME NEW ok \in BOOLEAN, NEW call \in Settings, Setting(call, ok)
       PROVE  HandsOverInv'
    BY <2>9 DEF Setting, Settings, NextSetting
  <2>10. CASE OopsResets \/ Reset \/ WatchdogResets
    BY <2>10 DEF OopsResets, Reset, WatchdogResets, Reboot
  <2>11. CASE OopsHalts
    BY <2>11 DEF OopsHalts
  <2>12. CASE Time
    BY <2>12 DEF Time, WatchdogTick, Feed, TimerDue, Expired
  <2>13. CASE UNCHANGED bootVars
    BY <2>13 DEF bootVars
  <2> QED
    BY <2>1, <2>2, <2>3, <2>4, <2>5, <2>6, <2>7, <2>8, <2>9, <2>10,
       <2>11, <2>12, <2>13
    DEF Next, main
<1>3. HandsOverInv => HandsOver
  OBVIOUS
<1> HIDE DEF HandsOverInv, HandsOver
<1> QED
  BY <1>1, <1>2, <1>3, PTL DEF Spec

\* FedInTime: for every window longer than the timer's two delays.
THEOREM WatchdogFed == Spec => []FedInTime
<1> USE WatchdogAssumption DEF WatchdogAssumption, FedInv, NotStarted, TypeOK, WatchdogTypeOK
<1>1. Init => FedInv
  BY DEF Init, WatchdogOff
<1>2. TypeOK /\ FedInv /\ [Next]_bootVars => FedInv'
  <2> SUFFICES ASSUME TypeOK, FedInv, [Next]_bootVars PROVE FedInv'
    OBVIOUS
  <2> USE DEF Returns, ModemReturns, watchdogVars
  <2>1. CASE CheckNetworking
    BY <2>1 DEF CheckNetworking
  <2>2. ASSUME NEW ok \in BOOLEAN, InstallTimeout(ok) \/ SetUp(ok)
       PROVE  FedInv'
    <3>1. CASE UNCHANGED watchdogVars
      BY <2>2, <3>1 DEF InstallTimeout, SetUp
    <3>2. CASE SetUpWatchdog
      BY <3>2, Ticks DEF SetUpWatchdog
    <3> QED
      BY <2>2, <3>1, <3>2 DEF InstallTimeout, SetUp
  <2>3. ASSUME NEW ok \in BOOLEAN, ModemInit(ok) \/ DiskInit(ok) \/ DiskStatus(ok)
       PROVE  FedInv'
    BY <2>3 DEF ModemInit, DiskInit, DiskAnswers, DiskStatus
  <2>4. ASSUME NEW ok \in BOOLEAN, MountCard(ok) \/ FormatCard(ok) \/ MountAgain(ok) \/ MakeDirectory(ok)
       PROVE  FedInv'
    BY <2>4 DEF MountCard, Mount, FormatCard, Format, MountAgain, MakeDirectory, MakeLogs
  <2>5. ASSUME NEW ok \in BOOLEAN, Activate(ok) \/ KeyExists(ok) \/ KeyCompare(ok) \/ KeyDelete(ok) \/ KeyWrite(ok)
       PROVE  FedInv'
    BY <2>5 DEF Activate, ActivateDone, ActivateRefused, KeyExists, KeyCompare, KeyDelete, KeyWrite
  <2>6. ASSUME NEW ok \in BOOLEAN, SettingsLoad(ok) \/ AlmanacWrite(ok) \/ SettingsSave(ok) \/ StartGps(ok)
       PROVE  FedInv'
    BY <2>6 DEF SettingsLoad, AlmanacWrite, SettingsSave, StartGps
  <2>7. ASSUME NEW ok \in BOOLEAN, NEW call \in Settings, Setting(call, ok)
       PROVE  FedInv'
    BY <2>7 DEF Setting, Settings, NextSetting
  <2>8. CASE OopsResets \/ Reset \/ WatchdogResets
    BY <2>8 DEF OopsResets, Reset, WatchdogResets, Reboot
  <2>9. CASE OopsHalts
    BY <2>9 DEF OopsHalts
  <2>10. CASE Time
    <3>1. CASE WatchdogTick(pc # "halted") /\ UNCHANGED pc
      <4> SUFFICES ASSUME pc # "halted" PROVE FedInv'
        BY <3>1
      <4>1. /\ wdt_running /\ wdt_timer # NotStarted /\ wdt_timer # 0
            /\ unfed' = unfed + 1 /\ wdt_timer' = wdt_timer - 1
        BY <3>1 DEF WatchdogTick, TimerDue
      <4>2. wdt_timer \in 0 .. WINDOW /\ unfed \in 0 .. WINDOW /\ WINDOW \in Nat
        BY Ticks
      <4>3. unfed' + wdt_timer' = unfed + wdt_timer /\ wdt_timer' # NotStarted
        BY <4>1, <4>2
      <4> QED
        BY <4>1, <4>3
    <3>2. CASE Feed /\ UNCHANGED pc
      BY <3>2, Ticks DEF Feed
    <3> QED
      BY <2>10, <3>1, <3>2 DEF Time
  <2>11. CASE UNCHANGED bootVars
    BY <2>11 DEF bootVars
  <2> QED
    BY <2>1, <2>2, <2>3, <2>4, <2>5, <2>6, <2>7, <2>8, <2>9, <2>10,
       <2>11
    DEF Next, main
<1>3. TypeOK /\ FedInv => FedInTime
  BY DEF FedInTime, Expired
<1> QED
  BY <1>1, <1>2, <1>3, TypeCorrect, PTL DEF Spec

\* SdCardReady: a 0 of sdcard_init() can be relied on.
THEOREM CardReady == Spec => []SdCardReady
<1> USE SdCardAssumption DEF SdCardAssumption, SdInv, SdCardReady, WatchdogCalls, SdCalls
<1>1. Init => SdInv
  BY DEF Init
<1>2. SdInv /\ [Next]_bootVars => SdInv'
  <2> SUFFICES ASSUME SdInv, [Next]_bootVars PROVE SdInv'
    OBVIOUS
  <2> USE DEF Returns, ModemReturns, sdVars
  <2>1. CASE CheckNetworking
    BY <2>1 DEF CheckNetworking
  <2>2. ASSUME NEW ok \in BOOLEAN, InstallTimeout(ok) \/ SetUp(ok) \/ ModemInit(ok)
       PROVE  SdInv'
    BY <2>2 DEF InstallTimeout, SetUp, SetUpWatchdog, ModemInit
  <2>3. ASSUME NEW ok \in BOOLEAN, DiskInit(ok) \/ DiskStatus(ok)
       PROVE  SdInv'
    BY <2>3 DEF DiskInit, DiskAnswers, DiskStatus
  <2>4. ASSUME NEW ok \in BOOLEAN, MountCard(ok) \/ MountAgain(ok)
       PROVE  SdInv'
    BY <2>4 DEF MountCard, Mount, MountAgain
  <2>5. ASSUME NEW ok \in BOOLEAN, FormatCard(ok)
       PROVE  SdInv'
    BY <2>5 DEF FormatCard, Format
  <2>6. ASSUME NEW ok \in BOOLEAN, MakeDirectory(ok)
       PROVE  SdInv'
    BY <2>6 DEF MakeDirectory, MakeLogs
  <2>7. ASSUME NEW ok \in BOOLEAN, Activate(ok) \/ KeyExists(ok) \/ KeyCompare(ok) \/ KeyDelete(ok) \/ KeyWrite(ok)
       PROVE  SdInv'
    BY <2>7 DEF Activate, ActivateDone, ActivateRefused, KeyExists, KeyCompare, KeyDelete, KeyWrite
  <2>8. ASSUME NEW ok \in BOOLEAN, SettingsLoad(ok) \/ AlmanacWrite(ok) \/ SettingsSave(ok) \/ StartGps(ok)
       PROVE  SdInv'
    BY <2>8 DEF SettingsLoad, AlmanacWrite, SettingsSave, StartGps
  <2>9. ASSUME NEW ok \in BOOLEAN, NEW call \in Settings, Setting(call, ok)
       PROVE  SdInv'
    BY <2>9 DEF Setting, Settings, NextSetting
  <2>10. CASE OopsResets \/ Reset \/ WatchdogResets
    BY <2>10 DEF OopsResets, Reset, WatchdogResets, Reboot
  <2>11. CASE OopsHalts
    BY <2>11 DEF OopsHalts
  <2>12. CASE Time
    BY <2>12 DEF Time, WatchdogTick, Feed, TimerDue, Expired
  <2>13. CASE UNCHANGED bootVars
    BY <2>13 DEF bootVars
  <2> QED
    BY <2>1, <2>2, <2>3, <2>4, <2>5, <2>6, <2>7, <2>8, <2>9, <2>10,
       <2>11, <2>12, <2>13
    DEF Next, main
<1>3. SdInv => SdCardReady
  OBVIOUS
<1> QED
  BY <1>1, <1>2, <1>3, PTL DEF Spec

=============================================================================
