--------------------------- MODULE Platform_proofs ---------------------------
(***************************************************************************)
(* What TPX tells the platform: the announcement of an upgrade and the     *)
(* debounced update of the settings, for any number of upgrades, crashes   *)
(* and commands.                                                           *)
(*                                                                         *)
(* The upgrade: the script works only while TPX is stopped, so the first   *)
(* heartbeat and the script never meet, and between the message and the    *)
(* deletion of the flag nothing is awaited.                                *)
(*                                                                         *)
(* The update: as long as none was being sent while a command ran, at most *)
(* one future sleeps, the atom names it, and a command meets at most that  *)
(* one.  So the future that a command leaves is the only one that can      *)
(* still write to the platform, and without a fault it does.               *)
(***************************************************************************)
EXTENDS Upgrade, PlatformSync, TLAPS

----------------------------------------------------------------------------
(* The upgrade.                                                            *)

\* The script has stopped TPX and has not yet rebooted.
Working == script \in {"install", "flag", "reboot"}

UpgradeInv ==
    /\ TypeOK
    /\ AwaitedIsFlagged
    /\ Working => ~running
    /\ heartbeat = "delete" => ~awaited
    /\ running => apt_version = installed
    /\ PlatformKnowsVersion

LEMMA InitInv == Init => UpgradeInv
<1> SUFFICES ASSUME Init PROVE UpgradeInv
  OBVIOUS
<1>1. 0 \in Versions /\ 0 \in 0..MaxCrashes
  BY UpgradeAssumption DEF UpgradeAssumption, Versions
<1>2. TypeOK
  BY <1>1 DEF Init, TypeOK
<1>3. AwaitedIsFlagged /\ PlatformKnowsVersion
  BY Zenon DEF Init, AwaitedIsFlagged, PlatformKnowsVersion
<1> QED
  BY <1>2, <1>3, Zenon DEF Init, UpgradeInv, Working

LEMMA StepInv == UpgradeInv /\ [Next]_vars => UpgradeInv'
<1> SUFFICES ASSUME UpgradeInv, [Next]_vars PROVE UpgradeInv'
  OBVIOUS
<1> USE UpgradeAssumption
    DEF UpgradeAssumption, UpgradeInv, TypeOK, AwaitedIsFlagged, Working,
        PlatformKnowsVersion, Versions
<1>1. CASE UpgradeCommand
  BY <1>1 DEF UpgradeCommand
<1>2. CASE ScriptStep
  <2>1. CASE StopServices
    BY <2>1 DEF StopServices
  <2>2. CASE Install
    BY <2>2 DEF Install
  <2>3. CASE InstallFails
    BY <2>3 DEF InstallFails
  <2>4. CASE SetFlag
    BY <2>4 DEF SetFlag
  <2>5. CASE Reboot
    BY <2>5 DEF Reboot, StartTpx
  <2> QED
    BY <1>2, <2>1, <2>2, <2>3, <2>4, <2>5 DEF ScriptStep
<1>3. CASE HeartbeatStep
  <2>1. CASE CheckFlag
    BY <2>1 DEF CheckFlag
  <2>2. CASE PublishComplete
    BY <2>2 DEF PublishComplete
  <2>3. CASE DeleteFlag
    BY <2>3 DEF DeleteFlag
  <2>4. CASE MarkChecked
    BY <2>4 DEF MarkChecked
  <2>5. CASE SendAptVersion
    BY <2>5 DEF SendAptVersion
  <2> QED
    BY <1>3, <2>1, <2>2, <2>3, <2>4, <2>5 DEF HeartbeatStep
<1>4. CASE PowerLoss
  <2>1. crashes' \in 0..MaxCrashes /\ installed' \in Versions
    BY <1>4 DEF PowerLoss
  <2>2. script' = "none" /\ StartTpx(installed')
        /\ UNCHANGED <<flag, known, awaited, failed, upgrades>>
    BY <1>4, Zenon DEF PowerLoss
  <2>3. TypeOK'
    BY <2>1, <2>2, Zenon DEF StartTpx
  <2> QED
    BY <2>2, <2>3, Zenon DEF StartTpx
<1>5. CASE TpxCrash
  <2>1. crashes' \in 0..MaxCrashes
    BY <1>5 DEF TpxCrash
  <2>2. running /\ script' \in {script, "none"} /\ StartTpx(installed)
        /\ UNCHANGED <<installed, flag, known, awaited, failed, upgrades>>
    BY <1>5, Zenon DEF TpxCrash
  <2>3. TypeOK'
    BY <2>1, <2>2, Zenon DEF StartTpx
  <2>4. ~Working'
    BY <2>2, Zenon
  <2> QED
    BY <2>2, <2>3, <2>4, Zenon DEF StartTpx
<1>6. CASE UNCHANGED vars
  BY <1>6 DEF vars
<1> QED
  BY <1>1, <1>2, <1>3, <1>4, <1>5, <1>6 DEF Next

LEMMA Invariance == Spec => []UpgradeInv
BY InitInv, StepInv, PTL DEF Spec

(* Every variable of the upgrade keeps its type, and a stopped TPX takes no *)
(* step of its heartbeat.                                                  *)
THEOREM TypeCorrect == Spec => []TypeOK
<1>1. UpgradeInv => TypeOK
  BY DEF UpgradeInv
<1> QED
  BY Invariance, <1>1, PTL

(* The flag of an upgrade outlives every crash until the platform has been  *)
(* told: heartbeat.clj publishes first and deletes the file after it.      *)
THEOREM FlagOutlives == Spec => []AwaitedIsFlagged
<1>1. UpgradeInv => AwaitedIsFlagged
  BY DEF UpgradeInv
<1> QED
  BY Invariance, <1>1, PTL

(* After the first heartbeat the platform knows the version on the box.    *)
THEOREM VersionKnown == Spec => []PlatformKnowsVersion
<1>1. UpgradeInv => PlatformKnowsVersion
  BY DEF UpgradeInv
<1> QED
  BY Invariance, <1>1, PTL

(* No upgrade is announced between its flag and its reboot: the check of    *)
(* heartbeat.clj:12-13 is made by a TPX that runs, and the script has       *)
(* stopped it.                                                             *)
THEOREM NotTooEarly == Spec => AnnouncedAfterReboot
<1>1. UpgradeInv /\ [Next]_vars
        => [PublishComplete => script \notin {"flag", "reboot"}]_vars
  BY DEF UpgradeInv, TypeOK, Working, PublishComplete
<1> QED
  BY Invariance, <1>1, PTL DEF Spec, AnnouncedAfterReboot

\* Without a crash, a flag whose upgrade was announced is about to be deleted,
\* or is met again only when the script has flagged another upgrade.
OnceInv ==
    crashes = 0 =>
        /\ flag /\ ~awaited => heartbeat = "delete" \/ ~running
        /\ heartbeat = "publish" \/ script = "reboot" => awaited

LEMMA OnceStep == UpgradeInv /\ OnceInv /\ [Next]_vars => OnceInv'
<1> SUFFICES ASSUME UpgradeInv, OnceInv, [Next]_vars, crashes' = 0
             PROVE  OnceInv'
  BY DEF OnceInv
<1> USE UpgradeAssumption DEF UpgradeAssumption
<1>1. ~PowerLoss /\ ~TpxCrash
  <2>1. crashes \in Nat
    BY DEF UpgradeInv, TypeOK
  <2> QED
    BY <2>1 DEF PowerLoss, TpxCrash
<1>2. crashes = 0
  BY <1>1 DEF Next, ScriptStep, HeartbeatStep, UpgradeCommand, StopServices,
              Install, InstallFails, SetFlag, Reboot, CheckFlag,
              PublishComplete, DeleteFlag, MarkChecked, SendAptVersion, vars
<1> USE DEF OnceInv, UpgradeInv, TypeOK, Working
<1>3. CASE UpgradeCommand
  BY <1>2, <1>3 DEF UpgradeCommand
<1>4. CASE ScriptStep
  BY <1>2, <1>4 DEF ScriptStep, StopServices, Install, InstallFails, SetFlag,
                    Reboot, StartTpx
<1>5. CASE HeartbeatStep
  BY <1>2, <1>5 DEF HeartbeatStep, CheckFlag, PublishComplete, DeleteFlag,
                    MarkChecked, SendAptVersion
<1>6. CASE UNCHANGED vars
  BY <1>2, <1>6 DEF vars
<1> QED
  BY <1>1, <1>3, <1>4, <1>5, <1>6 DEF Next

\* An upgrade is not announced again as long as nothing crashes.
AnnouncedOnce == [][PublishComplete => awaited \/ crashes > 0]_vars

(* heartbeat.clj publishes first and deletes the flag after it, so a crash  *)
(* between the two announces an upgrade twice; nothing else does, not even  *)
(* the script of the next upgrade, which may stop TPX between the two.      *)
THEOREM OnlyOnce == Spec => AnnouncedOnce
<1>1. Init => OnceInv
  BY DEF Init, OnceInv
<1>2. UpgradeInv /\ OnceInv /\ [Next]_vars
        => [PublishComplete => awaited \/ crashes > 0]_vars
  <2> SUFFICES ASSUME UpgradeInv, OnceInv, PublishComplete, crashes = 0
               PROVE  awaited
    BY UpgradeAssumption DEF UpgradeInv, TypeOK, UpgradeAssumption
  <2> QED
    BY DEF OnceInv, PublishComplete
<1> QED
  BY Invariance, OnceStep, <1>1, <1>2, PTL DEF Spec, AnnouncedOnce

----------------------------------------------------------------------------
(* The update of the settings.                                             *)

\* A command makes its future last of all.
CommandIsNew ==
    /\ \A n \in Commands : n > db => future[n] = "none"
    /\ handler # "idle" => db >= 1 /\ future[db] = "none" /\ saved_future < db

\* What is being sent is all there is, and a future is made when none sleeps.
OneAtATime ==
    /\ OneUpdateWaits
    /\ ~overlapped /\ BeingSent # {} => handler = "idle" /\ Sleeping = {}
    /\ ~overlapped /\ handler = "start" => Sleeping = {}

\* The update of command n waits, is being sent, or has arrived.
OnItsWay(n) ==
    \/ future[n] \in {"sleeping", "awake"}
    \/ /\ future[n] \in {"posted", "done"}
       /\ post[n] = "sent" \/ platform = n
       /\ future[n] = "done" /\ n \in publishes => n \in announced

\* Without a fault, that is so of the last command, and no other update can
\* overtake its own.
LastIsOnItsWay ==
    ~overlapped /\ ~lost =>
        /\ \A n \in Commands : post[n] # "orphan"
        /\ handler = "idle" =>
              /\ Sleeping \cup BeingSent \subseteq {db}
              /\ db > 0 => OnItsWay(db)

SyncInv ==
    /\ SyncTypeOK
    /\ CommandIsNew
    /\ OneAtATime
    /\ LastIsOnItsWay

LEMMA SyncInitInv == SyncInit => SyncInv
<1> SUFFICES ASSUME SyncInit PROVE SyncInv
  OBVIOUS
<1>1. Sleeping = {} /\ BeingSent = {}
  BY DEF SyncInit, Sleeping, BeingSent, InFlight
<1>2. SyncTypeOK
  <2>1. 0 \in 0..MaxCommands /\ 0 \in 0..0
    BY PlatformSyncAssumption DEF PlatformSyncAssumption
  <2> QED
    BY <2>1 DEF SyncInit, SyncTypeOK
<1>3. CommandIsNew
  BY DEF SyncInit, CommandIsNew
<1>4. OneAtATime
  BY <1>1 DEF OneUpdateWaits, OneAtATime
<1>5. LastIsOnItsWay
  BY <1>1 DEF SyncInit, LastIsOnItsWay
<1> QED
  BY <1>2, <1>3, <1>4, <1>5 DEF SyncInv

LEMMA SyncTypeStep ==
    SyncTypeOK /\ CommandIsNew /\ [SyncNext]_syncVars => SyncTypeOK'
<1> SUFFICES ASSUME SyncTypeOK, CommandIsNew, [SyncNext]_syncVars
             PROVE  SyncTypeOK'
  OBVIOUS
<1> USE PlatformSyncAssumption
    DEF PlatformSyncAssumption, SyncTypeOK, CommandIsNew, Commands
<1>1. CASE Command
  BY <1>1 DEF Command
<1>2. CASE CheckSaved
  BY <1>2 DEF CheckSaved
<1>3. CASE CancelSaved
  BY <1>3 DEF CancelSaved
<1>4. CASE StartFuture
  BY <1>4 DEF StartFuture
<1>5. ASSUME NEW n \in Commands, Wake(n) PROVE SyncTypeOK'
  BY <1>5 DEF Wake, Sleeping
<1>6. ASSUME NEW n \in Commands, Post(n) PROVE SyncTypeOK'
  BY <1>6 DEF Post
<1>7. ASSUME NEW n \in Commands, Publish(n) PROVE SyncTypeOK'
  BY <1>7 DEF Publish
<1>8. ASSUME NEW n \in Commands, Callback(n) PROVE SyncTypeOK'
  BY <1>8 DEF Callback
<1>9. ASSUME NEW n \in Commands, Arrive(n) PROVE SyncTypeOK'
  BY <1>9 DEF Arrive
<1>10. ASSUME NEW n \in Commands, Fail(n) PROVE SyncTypeOK'
  BY <1>10 DEF Fail
<1>11. CASE Restart
  BY <1>11 DEF Restart
<1>12. CASE UNCHANGED syncVars
  BY <1>12 DEF syncVars
<1> QED
  BY <1>1, <1>2, <1>3, <1>4, <1>5, <1>6, <1>7, <1>8, <1>9, <1>10, <1>11, <1>12
     DEF SyncNext, HandlerStep, FutureStep, PostStep

LEMMA SyncNewStep == SyncInv /\ [SyncNext]_syncVars => CommandIsNew'
<1> SUFFICES ASSUME SyncInv, [SyncNext]_syncVars PROVE CommandIsNew'
  OBVIOUS
<1> USE PlatformSyncAssumption
    DEF PlatformSyncAssumption, SyncInv, SyncTypeOK, CommandIsNew, Commands
<1>1. CASE Command
  BY <1>1 DEF Command
<1>2. CASE CheckSaved
  BY <1>2 DEF CheckSaved
<1>3. CASE CancelSaved
  BY <1>3 DEF CancelSaved
<1>4. CASE StartFuture
  <2>1. handler' = "idle" /\ db' = db
    BY <1>4 DEF StartFuture
  <2>2. ASSUME NEW n \in Commands, n > db PROVE future'[n] = "none"
    <3>1. n # db
      BY <2>2
    <3> QED
      BY <1>4, <2>2, <3>1 DEF StartFuture
  <2> QED
    BY <2>1, <2>2
<1>5. ASSUME NEW n \in Commands, Wake(n) PROVE CommandIsNew'
  <2>1. future[n] = "sleeping" /\ future' = [future EXCEPT ![n] = "awake"]
        /\ UNCHANGED <<db, handler, saved_future>>
    BY <1>5 DEF Wake, Sleeping
  <2>2. \A m \in Commands : m # n => future'[m] = future[m]
    BY <2>1
  <2> QED
    BY <2>1, <2>2
<1>6. ASSUME NEW n \in Commands, Post(n) PROVE CommandIsNew'
  BY <1>6 DEF Post
<1>7. ASSUME NEW n \in Commands, Publish(n) PROVE CommandIsNew'
  BY <1>7 DEF Publish
<1>8. ASSUME NEW n \in Commands, Callback(n) PROVE CommandIsNew'
  BY <1>8 DEF Callback
<1>9. ASSUME NEW n \in Commands, Arrive(n) PROVE CommandIsNew'
  BY <1>9 DEF Arrive
<1>10. ASSUME NEW n \in Commands, Fail(n) PROVE CommandIsNew'
  BY <1>10 DEF Fail
<1>11. CASE Restart
  BY <1>11 DEF Restart
<1>12. CASE UNCHANGED syncVars
  BY <1>12 DEF syncVars
<1> QED
  BY <1>1, <1>2, <1>3, <1>4, <1>5, <1>6, <1>7, <1>8, <1>9, <1>10, <1>11, <1>12
     DEF SyncNext, HandlerStep, FutureStep, PostStep

LEMMA SyncOneStep == SyncInv /\ [SyncNext]_syncVars => OneAtATime'
<1> SUFFICES ASSUME SyncInv, [SyncNext]_syncVars PROVE OneAtATime'
  OBVIOUS
<1> USE PlatformSyncAssumption
    DEF PlatformSyncAssumption, SyncInv, SyncTypeOK, CommandIsNew,
        OneUpdateWaits, OneAtATime, Commands, Sleeping, BeingSent, InFlight
<1>1. CASE Command
  BY <1>1 DEF Command
<1>2. CASE CheckSaved
  BY <1>2 DEF CheckSaved
<1>3. CASE CancelSaved
  BY <1>3 DEF CancelSaved
<1>4. CASE StartFuture
  BY <1>4 DEF StartFuture
<1>5. ASSUME NEW n \in Commands, Wake(n) PROVE OneAtATime'
  <2>1. /\ n \in Sleeping /\ future' = [future EXCEPT ![n] = "awake"]
        /\ overlapped' = (overlapped \/ handler # "idle" \/ BeingSent # {})
        /\ UNCHANGED <<handler, saved_future>>
    BY <1>5 DEF Wake
  <2>2. Sleeping' = Sleeping \ {n}
    BY <2>1
  <2>3. CASE overlapped'
    BY <2>3
  <2>4. CASE ~overlapped'
    <3>1. ~overlapped /\ handler = "idle"
      BY <2>1, <2>4
    <3>2. \A m \in Sleeping : m = saved_future
      BY <3>1
    <3>3. Sleeping' = {}
      BY <2>1, <2>2, <3>2
    <3> QED
      BY <2>1, <3>1, <3>3
  <2> QED
    BY <2>3, <2>4
<1>6. ASSUME NEW n \in Commands, Post(n) PROVE OneAtATime'
  BY <1>6 DEF Post
<1>7. ASSUME NEW n \in Commands, Publish(n) PROVE OneAtATime'
  BY <1>7 DEF Publish
<1>8. ASSUME NEW n \in Commands, Callback(n) PROVE OneAtATime'
  BY <1>8 DEF Callback
<1>9. ASSUME NEW n \in Commands, Arrive(n) PROVE OneAtATime'
  BY <1>9 DEF Arrive
<1>10. ASSUME NEW n \in Commands, Fail(n) PROVE OneAtATime'
  BY <1>10 DEF Fail
<1>11. CASE Restart
  BY <1>11 DEF Restart
<1>12. CASE UNCHANGED syncVars
  BY <1>12 DEF syncVars
<1> QED
  BY <1>1, <1>2, <1>3, <1>4, <1>5, <1>6, <1>7, <1>8, <1>9, <1>10, <1>11, <1>12
     DEF SyncNext, HandlerStep, FutureStep, PostStep

LEMMA SyncLastStep == SyncInv /\ [SyncNext]_syncVars => LastIsOnItsWay'
<1> SUFFICES ASSUME SyncInv, [SyncNext]_syncVars PROVE LastIsOnItsWay'
  OBVIOUS
<1> USE PlatformSyncAssumption
    DEF PlatformSyncAssumption, SyncInv, SyncTypeOK, CommandIsNew,
        OneUpdateWaits, OneAtATime, LastIsOnItsWay, OnItsWay, Commands,
        Sleeping, BeingSent, InFlight
<1>1. CASE Command
  BY <1>1 DEF Command
<1>2. CASE CheckSaved
  BY <1>2 DEF CheckSaved
<1>3. CASE CancelSaved
  BY <1>3 DEF CancelSaved
<1>4. CASE StartFuture
  BY <1>4 DEF StartFuture
<1>5. ASSUME NEW n \in Commands, Wake(n) PROVE LastIsOnItsWay'
  BY <1>5 DEF Wake
<1>6. ASSUME NEW n \in Commands, Post(n) PROVE LastIsOnItsWay'
  BY <1>6 DEF Post
<1>7. ASSUME NEW n \in Commands, Publish(n) PROVE LastIsOnItsWay'
  BY <1>7 DEF Publish
<1>8. ASSUME NEW n \in Commands, Callback(n) PROVE LastIsOnItsWay'
  BY <1>8 DEF Callback
<1>9. ASSUME NEW n \in Commands, Arrive(n) PROVE LastIsOnItsWay'
  BY <1>9 DEF Arrive
<1>10. ASSUME NEW n \in Commands, Fail(n) PROVE LastIsOnItsWay'
  BY <1>10 DEF Fail
<1>11. CASE Restart
  BY <1>11 DEF Restart
<1>12. CASE UNCHANGED syncVars
  BY <1>12 DEF syncVars
<1> QED
  BY <1>1, <1>2, <1>3, <1>4, <1>5, <1>6, <1>7, <1>8, <1>9, <1>10, <1>11, <1>12
     DEF SyncNext, HandlerStep, FutureStep, PostStep

LEMMA SyncInvariance == SyncSpec => []SyncInv
<1>1. SyncInv /\ [SyncNext]_syncVars => SyncInv'
  BY SyncTypeStep, SyncNewStep, SyncOneStep, SyncLastStep DEF SyncInv
<1> QED
  BY SyncInitInv, <1>1, PTL DEF SyncSpec

(* Every variable of the update keeps its type: the atom names a future     *)
(* that was made, and only a future that woke has a POST.                   *)
THEOREM SyncTypeCorrect == SyncSpec => []SyncTypeOK
<1>1. SyncInv => SyncTypeOK
  BY DEF SyncInv
<1> QED
  BY SyncInvariance, <1>1, PTL

(* As long as no update was being sent while a command ran, at most one     *)
(* future sleeps, and it is the one that the next command will cancel.      *)
THEOREM SyncOneWaits == SyncSpec => []OneUpdateWaits
<1>1. SyncInv => OneUpdateWaits
  BY DEF SyncInv, OneAtATime
<1> QED
  BY SyncInvariance, <1>1, PTL

(* Once everything rests, the platform has the settings of the last command *)
(* and its message is out: sync-platform! never cancels the last change.    *)
THEOREM SyncSettled == SyncSpec => []SettledIsLatest
<1>1. SyncInv => SettledIsLatest
  BY DEF SyncInv, SyncTypeOK, LastIsOnItsWay, OnItsWay, SettledIsLatest,
         Resting, Sleeping, BeingSent, InFlight, Commands
<1> QED
  BY SyncInvariance, <1>1, PTL

\* Only commands that have come can publish.
PublishersCame == \A n \in publishes : n <= db

LEMMA PublishersStep ==
    SyncTypeOK /\ PublishersCame /\ [SyncNext]_syncVars => PublishersCame'
<1> SUFFICES ASSUME SyncTypeOK, PublishersCame, [SyncNext]_syncVars
             PROVE  PublishersCame'
  OBVIOUS
<1>1. CASE Command
  BY <1>1, PlatformSyncAssumption
     DEF Command, SyncTypeOK, PublishersCame, PlatformSyncAssumption, Commands
<1>2. CASE ~Command
  <2>1. UNCHANGED <<publishes, db>>
    BY <1>2 DEF SyncNext, HandlerStep, FutureStep, PostStep, syncVars,
                CheckSaved, CancelSaved, StartFuture, Wake, Post, Publish,
                Callback, Arrive, Fail, Restart
  <2> QED
    BY <2>1 DEF PublishersCame
<1> QED
  BY <1>1, <1>2

\* The platform's settings get no older, and messages come in order.
InOrder ==
    /\ platform' >= platform
    /\ \A n \in announced' \ announced, m \in announced : m < n

UpdatesInOrder == [][overlapped \/ lost \/ InOrder]_syncVars

(* Neither the settings of the platform nor the messages go back in time:   *)
(* unless an update was being sent while a command ran or a fault came, no  *)
(* POST of sync.clj brings older settings than the platform has, and no     *)
(* message follows that of a later command.                                *)
THEOREM SyncInOrder == SyncSpec => UpdatesInOrder
<1>1. SyncInit => PublishersCame
  BY DEF SyncInit, PublishersCame
<1>2. SyncInv /\ PublishersCame /\ [SyncNext]_syncVars
        => [overlapped \/ lost \/ InOrder]_syncVars
  <2> SUFFICES ASSUME SyncInv, PublishersCame, SyncNext, ~overlapped, ~lost
               PROVE  InOrder
    OBVIOUS
  <2> USE DEF SyncInv, SyncTypeOK, Commands
  <2>1. \A n \in BeingSent : n = db
    BY DEF OneAtATime, LastIsOnItsWay
  <2>2. platform \in Nat /\ db \in Nat /\ platform <= db
    BY PlatformSyncAssumption DEF PlatformSyncAssumption
  <2>3. ASSUME NEW n \in Commands, Arrive(n) PROVE InOrder
    <3>1. post[n] = "sent"
      BY <2>3 DEF Arrive, LastIsOnItsWay, OneAtATime
    <3>2. n = db
      BY <2>1, <3>1 DEF BeingSent, InFlight
    <3> QED
      BY <2>2, <2>3, <3>2 DEF Arrive, InOrder
  <2>4. ASSUME NEW n \in Commands, Publish(n) PROVE InOrder
    <3>1. n = db
      BY <2>1, <2>4 DEF Publish, BeingSent
    <3>2. \A m \in announced : m \in Nat /\ m <= db
      BY PlatformSyncAssumption DEF PlatformSyncAssumption, PublishersCame
    <3>3. announced' \subseteq announced \cup {n} /\ platform' = platform
      BY <2>4 DEF Publish
    <3> QED
      BY <2>2, <3>1, <3>2, <3>3 DEF InOrder
  <2>5. CASE UNCHANGED <<platform, announced>>
    BY <2>2, <2>5 DEF InOrder
  <2> QED
    BY <2>3, <2>4, <2>5
       DEF SyncNext, HandlerStep, FutureStep, PostStep, Command, CheckSaved,
           CancelSaved, StartFuture, Wake, Post, Callback, Fail, Restart
<1>3. SyncInv /\ PublishersCame /\ [SyncNext]_syncVars => PublishersCame'
  BY PublishersStep DEF SyncInv
<1> QED
  BY SyncInvariance, <1>1, <1>2, <1>3, PTL DEF SyncSpec, UpdatesInOrder
=============================================================================
