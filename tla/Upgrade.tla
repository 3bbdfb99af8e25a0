------------------------------ MODULE Upgrade ------------------------------
(***************************************************************************)
(* The firmware upgrade.  A command makes TPX run upgrader.sh, which stops *)
(* TPX, upgrades the package, leaves the file upgrading_flag and reboots.  *)
(* The first heartbeat of a TPX that has just started finds the flag,      *)
(* tells the platform that the upgrade is complete and deletes it.  The    *)
(* flag is the only memory of the upgrade: whatever dies between two steps *)
(* (the script, TPX or the whole box), it has to be in the right state.    *)
(*                                                                         *)
(* apt, systemd and the platform are external.  systemd kills the script   *)
(* with the service it was started from, or lets it go on: the unit leaves *)
(* that to the system's default, so both may happen.                       *)
(***************************************************************************)
EXTENDS Naturals

CONSTANTS
    MaxUpgrades,  \* bound: upgrade commands
    MaxCrashes    \* bound: crashes of TPX and losses of power

ASSUME UpgradeAssumption == MaxUpgrades \in Nat /\ MaxCrashes \in Nat

VARIABLES
    installed,    \* the version of the package on the box
    script,       \* the next step of upgrader.sh
    flag,         \* whether the file upgrading_flag exists
    running,      \* whether the service sp-tpx runs
    apt_version,  \* data/apt-version*, read when the JVM starts
    checked,      \* heartbeat/checked-upgrade
    heartbeat,    \* the next step of send-heartbeat
    known,        \* external: the version the platform was last told
    awaited,      \* history: an upgrade was flagged and is not yet announced
    failed,       \* history: the script failed or was killed
    upgrades, crashes

vars == <<installed, script, flag, running, apt_version, checked, heartbeat,
          known, awaited, failed, upgrades, crashes>>

Versions == 0..MaxUpgrades

Init ==
    /\ installed = 0
    /\ script = "none"
    /\ flag = FALSE
    /\ running = TRUE
    /\ apt_version = 0
    /\ checked = FALSE
    /\ heartbeat = "idle"
    /\ known = 0
    /\ awaited = FALSE
    /\ failed = FALSE
    /\ upgrades = 0
    /\ crashes = 0

----------------------------------------------------------------------------
(* The command and upgrader.sh.                                            *)
UpgradeCommand ==
    /\ running
    /\ script = "none"
    /\ upgrades < MaxUpgrades
    /\ upgrades' = upgrades + 1
    /\ script' = "stop"
    /\ UNCHANGED <<installed, flag, running, apt_version, checked, heartbeat,
                   known, awaited, failed, crashes>>

\* Mutant: the timer of the heartbeat goes on when TPX stops.
StopServicesKeepsJob ==
    /\ script = "stop"
    /\ running' = FALSE
    /\ script' \in {"install", "none"}
    /\ failed' = (failed \/ script' = "none")
    /\ UNCHANGED <<installed, flag, apt_version, checked, heartbeat, known, awaited,
                   upgrades, crashes>>

\* Mutant: TPX is not stopped.
StopServicesKeepsTpx ==
    /\ script = "stop"
    /\ script' \in {"install", "none"}
    /\ failed' = (failed \/ script' = "none")
    /\ UNCHANGED <<installed, flag, running, apt_version, checked, heartbeat, known, awaited,
                   upgrades, crashes>>

StopServices ==
    /\ script = "stop"
    /\ running' = FALSE
    /\ heartbeat' = "idle"
    /\ script' \in {"install", "none"}
    /\ failed' = (failed \/ script' = "none")
    /\ UNCHANGED <<installed, flag, apt_version, checked, known, awaited,
                   upgrades, crashes>>

\* apt-get succeeds too when there is nothing newer than what is installed,
\* as after an apt-get update that failed.
Install ==
    /\ script = "install"
    /\ installed' \in installed..upgrades
    /\ script' = "flag"
    /\ UNCHANGED <<flag, running, apt_version, checked, heartbeat, known,
                   awaited, failed, upgrades, crashes>>

InstallFails ==
    /\ script = "install"
    /\ script' = "none"
    /\ failed' = TRUE
    /\ UNCHANGED <<installed, flag, running, apt_version, checked, heartbeat,
                   known, awaited, upgrades, crashes>>

\* Mutant: the script ends without a reboot.
SetFlagNoReboot ==
    /\ script = "flag"
    /\ flag' = TRUE
    /\ awaited' = TRUE
    /\ script' = "none"
    /\ UNCHANGED <<installed, running, apt_version, checked, heartbeat, known,
                   failed, upgrades, crashes>>

SetFlag ==
    /\ script = "flag"
    /\ flag' = TRUE
    /\ awaited' = TRUE
    /\ script' = "reboot"
    /\ UNCHANGED <<installed, running, apt_version, checked, heartbeat, known,
                   failed, upgrades, crashes>>

\* A new JVM: its atoms are created anew.
StartTpx(version) ==
    /\ running' = TRUE
    /\ apt_version' = version
    /\ checked' = FALSE
    /\ heartbeat' = "idle"

Reboot ==
    /\ script = "reboot"
    /\ script' = "none"
    /\ StartTpx(installed)
    /\ UNCHANGED <<installed, flag, known, awaited, failed, upgrades, crashes>>

----------------------------------------------------------------------------
(* Crashes.                                                                *)
PowerLoss ==
    /\ crashes < MaxCrashes
    /\ crashes' = crashes + 1
    /\ installed' \in IF script = "install" THEN installed..upgrades
                                            ELSE {installed}
    /\ script' = "none"
    /\ StartTpx(installed')
    /\ UNCHANGED <<flag, known, awaited, failed, upgrades>>

TpxCrash ==
    /\ crashes < MaxCrashes
    /\ running
    /\ crashes' = crashes + 1
    /\ script' \in {script, "none"}
    /\ StartTpx(installed)
    /\ UNCHANGED <<installed, flag, known, awaited, failed, upgrades>>

----------------------------------------------------------------------------
(* The heartbeat, one tick after the other on the timer's thread.          *)
\* Mutant: the flag is deleted and the message never sent.
CheckFlagDeletesFirst ==
    /\ running
    /\ heartbeat = "idle"
    /\ ~checked
    /\ heartbeat' = IF flag THEN "delete" ELSE "mark"
    /\ UNCHANGED <<installed, script, flag, running, apt_version, checked,
                   known, awaited, failed, upgrades, crashes>>

\* Mutant: the flag is looked for in the wrong place.
CheckFlagBlind ==
    /\ running
    /\ heartbeat = "idle"
    /\ ~checked
    /\ heartbeat' = "mark"
    /\ UNCHANGED <<installed, script, flag, running, apt_version, checked,
                   known, awaited, failed, upgrades, crashes>>

CheckFlag ==
    /\ running
    /\ heartbeat = "idle"
    /\ ~checked
    /\ heartbeat' = IF flag THEN "publish" ELSE "mark"
    /\ UNCHANGED <<installed, script, flag, running, apt_version, checked,
                   known, awaited, failed, upgrades, crashes>>

PublishComplete ==
    /\ heartbeat = "publish"
    /\ awaited' = FALSE
    /\ heartbeat' = "delete"
    /\ UNCHANGED <<installed, script, flag, running, apt_version, checked,
                   known, failed, upgrades, crashes>>

DeleteFlag ==
    /\ heartbeat = "delete"
    /\ flag' = FALSE
    /\ heartbeat' = "mark"
    /\ UNCHANGED <<installed, script, running, apt_version, checked, known,
                   awaited, failed, upgrades, crashes>>

\* Mutant: the version is not sent after the check.
MarkCheckedNoVersion ==
    /\ heartbeat = "mark"
    /\ checked' = TRUE
    /\ heartbeat' = "idle"
    /\ UNCHANGED <<installed, script, flag, running, apt_version, known,
                   awaited, failed, upgrades, crashes>>

MarkChecked ==
    /\ heartbeat = "mark"
    /\ checked' = TRUE
    /\ heartbeat' = "version"
    /\ UNCHANGED <<installed, script, flag, running, apt_version, known,
                   awaited, failed, upgrades, crashes>>

SendAptVersion ==
    /\ heartbeat = "version"
    /\ known' = apt_version
    /\ heartbeat' = "idle"
    /\ UNCHANGED <<installed, script, flag, running, apt_version, checked,
                   awaited, failed, upgrades, crashes>>

----------------------------------------------------------------------------
ScriptStep    == StopServices \/ Install \/ InstallFails \/ SetFlag \/ Reboot
HeartbeatStep == \/ CheckFlag
                 \/ PublishComplete
                 \/ DeleteFlag
                 \/ MarkChecked
                 \/ SendAptVersion

Next == UpgradeCommand \/ ScriptStep \/ HeartbeatStep \/ PowerLoss \/ TpxCrash

\* A script that lives goes on, and the timer of the heartbeat ticks.
Spec == Init /\ [][Next]_vars /\ WF_vars(ScriptStep) /\ WF_vars(HeartbeatStep)

----------------------------------------------------------------------------
(* Every variable keeps its type, and a TPX that does not run takes no step.*)
TypeOK ==
    /\ installed \in Versions
    /\ script \in {"none", "stop", "install", "flag", "reboot"}
    /\ flag \in BOOLEAN
    /\ running \in BOOLEAN
    /\ apt_version \in Versions
    /\ checked \in BOOLEAN
    /\ heartbeat \in {"idle", "publish", "delete", "mark", "version"}
    /\ ~running => heartbeat = "idle"
    /\ known \in Versions
    /\ awaited \in BOOLEAN
    /\ failed \in BOOLEAN
    /\ upgrades \in Versions
    /\ crashes \in 0..MaxCrashes

(* An upgrade that is not yet announced is never forgotten: its flag stays  *)
(* until the message is out, whatever crashes and however often.            *)
AwaitedIsFlagged == awaited => flag

(* "We only want to check the upgrade flag once at start, not accidentally  *)
(* right after the upgrade process has begun" (heartbeat.clj:12-13): no     *)
(* upgrade is announced before the reboot that ends it.                     *)
AnnouncedAfterReboot ==
    [][PublishComplete => script \notin {"flag", "reboot"}]_vars

(* After its first heartbeat, TPX has told the platform the version that is *)
(* on the box, whichever step of an upgrade was the last before it started. *)
PlatformKnowsVersion ==
    running /\ checked /\ heartbeat = "idle" => known = installed

(* An upgrade is announced in the end, however its steps are interrupted,   *)
(* unless the script of a later upgrade fails and leaves TPX stopped.       *)
UpgradeAnnounced == awaited ~> (~awaited \/ failed)

(* A TPX that was stopped for an upgrade comes back, unless the script      *)
(* failed or was killed, after which nothing starts the services again.     *)
StoppedTpxReturns == ~running ~> (running \/ failed)
=============================================================================
