---------------------------- MODULE PlatformSync ----------------------------
(***************************************************************************)
(* The debounced update of the platform (sync.clj).                        *)
(*                                                                         *)
(* Every command that changes a setting writes it to the database, reads   *)
(* all settings back, cancels the update that is still waiting and leaves  *)
(* a future that sleeps five seconds, POSTs the settings and publishes the *)
(* command's message.  The MQTT thread runs the commands one by one; the   *)
(* futures and the callbacks of the POSTs run on threads of their own, and *)
(* all of them meet at the atom saved-future.                              *)
(*                                                                         *)
(* Command n is the n-th change, its future and its POST go by the same    *)
(* number, and the settings after it are abstracted to n.  The futures     *)
(* sleep equally long, so they wake in the order they were made.           *)
(***************************************************************************)
EXTENDS Naturals

CONSTANTS
    MaxCommands,  \* bound: how many commands arrive
    Faults        \* whether POSTs may fail and TPX may be restarted

ASSUME PlatformSyncAssumption == MaxCommands \in Nat /\ Faults \in BOOLEAN

VARIABLES
    db,            \* the settings in the database: the last command's number
    handler,       \* the next step of sync-platform! for command db
    saved_future,  \* the atom: a command's number, 0 for nil
    future,        \* where each command's future is
    post,          \* where each command's POST is
    publishes,     \* the commands whose context has an mqtt-client
    platform,      \* external: the settings the platform has
    announced,     \* external: the commands whose message was published
    overlapped,    \* history: an update was being sent while a command ran
    lost           \* history: sync-platform! threw, or a fault happened

syncVars == <<db, handler, saved_future, future, post, publishes, platform,
              announced, overlapped, lost>>

Commands == 1..MaxCommands

Sleeping  == {n \in Commands : future[n] = "sleeping"}
InFlight  == {n \in Commands : post[n] \in {"sent", "ok", "failed"}}
BeingSent == InFlight \cup {n \in Commands : future[n] \in {"awake", "posted"}}

SyncInit ==
    /\ db = 0
    /\ handler = "idle"
    /\ saved_future = 0
    /\ future = [n \in Commands |-> "none"]
    /\ post = [n \in Commands |-> "none"]
    /\ publishes = {}
    /\ platform = 0
    /\ announced = {}
    /\ overlapped = FALSE
    /\ lost = FALSE

----------------------------------------------------------------------------
(* The MQTT thread.  Only this thread writes the settings, so the write and *)
(* the read of them are one step.                                          *)
Command ==
    /\ handler = "idle"
    /\ db < MaxCommands
    /\ db' = db + 1
    /\ publishes' \in {publishes, publishes \cup {db'}}
    /\ handler' = "check"
    /\ overlapped' = (overlapped \/ BeingSent # {})
    /\ UNCHANGED <<saved_future, future, post, platform, announced, lost>>

\* Mutant: the update that waits is not cancelled.
CheckSavedNeverCancels ==
    /\ handler = "check"
    /\ handler' = "start"
    /\ UNCHANGED <<db, saved_future, future, post, publishes, platform,
                   announced, overlapped, lost>>

CheckSaved ==
    /\ handler = "check"
    /\ handler' = IF saved_future = 0 THEN "start" ELSE "cancel"
    /\ UNCHANGED <<db, saved_future, future, post, publishes, platform,
                   announced, overlapped, lost>>

\* Mutant: cancels the old update instead of, not before, making a new one.
CancelSavedEither ==
    /\ handler = "cancel"
    /\ IF saved_future = 0
       THEN handler' = "idle" /\ lost' = TRUE /\ UNCHANGED future
       ELSE /\ handler' = "idle"
            /\ \E state \in {"done", future[saved_future]} :
                  /\ future[saved_future] = "sleeping" => state = "done"
                  /\ future' = [future EXCEPT ![saved_future] = state]
            /\ UNCHANGED lost
    /\ UNCHANGED <<db, saved_future, post, publishes, platform, announced,
                   overlapped>>

\* The atom is read anew.  future-cancel of nil throws and ends the handler;
\* a future that is awake may be interrupted before or after its POST.
CancelSaved ==
    /\ handler = "cancel"
    /\ IF saved_future = 0
       THEN handler' = "idle" /\ lost' = TRUE /\ UNCHANGED future
       ELSE /\ handler' = "start"
            /\ \E state \in {"done", future[saved_future]} :
                  /\ future[saved_future] = "sleeping" => state = "done"
                  /\ future' = [future EXCEPT ![saved_future] = state]
            /\ UNCHANGED lost
    /\ UNCHANGED <<db, saved_future, post, publishes, platform, announced,
                   overlapped>>

StartFuture ==
    /\ handler = "start"
    /\ future' = [future EXCEPT ![db] = "sleeping"]
    /\ saved_future' = db
    /\ handler' = "idle"
    /\ UNCHANGED <<db, post, publishes, platform, announced, overlapped, lost>>

----------------------------------------------------------------------------
(* The futures.                                                            *)
Wake(n) ==
    /\ n \in Sleeping
    /\ \A m \in Sleeping : n <= m
    /\ future' = [future EXCEPT ![n] = "awake"]
    /\ overlapped' = (overlapped \/ handler # "idle" \/ BeingSent # {})
    /\ UNCHANGED <<db, handler, saved_future, post, publishes, platform,
                   announced, lost>>

\* Mutant: the future does not go on after its POST.
PostAgain(n) ==
    /\ future[n] = "awake"
    /\ post' = [post EXCEPT ![n] = "sent"]
    /\ UNCHANGED <<db, handler, saved_future, future, publishes, platform, announced,
                   overlapped, lost>>

Post(n) ==
    /\ future[n] = "awake"
    /\ post' = [post EXCEPT ![n] = "sent"]
    /\ future' = [future EXCEPT ![n] = "posted"]
    /\ UNCHANGED <<db, handler, saved_future, publishes, platform, announced,
                   overlapped, lost>>

Publish(n) ==
    /\ future[n] = "posted"
    /\ announced' = announced \cup ({n} \cap publishes)
    /\ future' = [future EXCEPT ![n] = "done"]
    /\ UNCHANGED <<db, handler, saved_future, post, publishes, platform,
                   overlapped, lost>>

----------------------------------------------------------------------------
(* The callbacks of the POST: both do nothing but forget the future.       *)
Callback(n) ==
    /\ post[n] \in {"ok", "failed"}
    /\ saved_future' = 0
    /\ post' = [post EXCEPT ![n] = "none"]
    /\ UNCHANGED <<db, handler, future, publishes, platform, announced,
                   overlapped, lost>>

(* The platform and the network (external).                                *)
Arrive(n) ==
    /\ post[n] \in {"sent", "orphan"}
    /\ platform' = n
    /\ post' = [post EXCEPT ![n] = IF @ = "sent" THEN "ok" ELSE "none"]
    /\ UNCHANGED <<db, handler, saved_future, future, publishes, announced,
                   overlapped, lost>>

Fail(n) ==
    /\ Faults
    /\ post[n] = "sent"
    /\ post' = [post EXCEPT ![n] = "failed"]
    /\ lost' = TRUE
    /\ UNCHANGED <<db, handler, saved_future, future, publishes, platform,
                   announced, overlapped>>

\* The database survives a restart, the futures do not, and a request that
\* was sent may still arrive.
Restart ==
    /\ Faults
    /\ handler' = "idle"
    /\ saved_future' = 0
    /\ future' = [n \in Commands |->
                    IF future[n] = "none" THEN "none" ELSE "done"]
    /\ post' = [n \in Commands |->
                  IF post[n] \in {"sent", "orphan"} THEN "orphan" ELSE "none"]
    /\ lost' = TRUE
    /\ UNCHANGED <<db, publishes, platform, announced, overlapped>>

----------------------------------------------------------------------------
HandlerStep   == CheckSaved \/ CancelSaved \/ StartFuture
FutureStep(n) == Wake(n) \/ Post(n) \/ Publish(n)
PostStep(n)   == Callback(n) \/ Arrive(n) \/ Fail(n)

SyncNext == \/ Command
            \/ HandlerStep
            \/ \E n \in Commands : FutureStep(n) \/ PostStep(n)
            \/ Restart

\* Threads get to run and the HTTP client ends every request.
Fairness == /\ WF_syncVars(HandlerStep)
            /\ \A n \in Commands : WF_syncVars(FutureStep(n)) /\ WF_syncVars(PostStep(n))

SyncSpec == SyncInit /\ [][SyncNext]_syncVars /\ Fairness

----------------------------------------------------------------------------
(* The atom names a future that was made, and a POST belongs to a future   *)
(* that woke.                                                              *)
SyncTypeOK ==
    /\ db \in 0..MaxCommands
    /\ handler \in {"idle", "check", "cancel", "start"}
    /\ saved_future \in 0..db
    /\ future \in [Commands -> {"none", "sleeping", "awake", "posted", "done"}]
    /\ post \in [Commands -> {"none", "sent", "ok", "failed", "orphan"}]
    /\ \A n \in Commands : post[n] # "none" => future[n] \in {"posted", "done"}
    /\ publishes \subseteq Commands
    /\ platform \in 0..db
    /\ announced \subseteq publishes
    /\ overlapped \in BOOLEAN
    /\ lost \in BOOLEAN

Resting == handler = "idle" /\ Sleeping \cup BeingSent = {}

(* Once everything rests, the platform has the settings of the last command *)
(* and the last message is out, unless an update was being sent while a     *)
(* command ran or a fault lost one: cancelling never drops the last change. *)
SettledIsLatest ==
    Resting /\ ~overlapped /\ ~lost =>
        /\ platform = db
        /\ db \in publishes => db \in announced

(* As long as no update was being sent while a command ran, at most one     *)
(* update waits, and it is the one the next command will cancel.            *)
OneUpdateWaits ==
    ~overlapped => \A n \in Sleeping : saved_future = n

(* "Send out the latest values" (sync.clj:2): when commands stop coming and *)
(* no request fails, the platform comes to have the latest settings.        *)
LatestValuesReachPlatform == <>[](platform = db)
=============================================================================
