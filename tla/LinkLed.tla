------------------------------ MODULE LinkLed ------------------------------
(***************************************************************************)
(* The LED of the link button: set-status (pairing.clj) and the blinking   *)
(* futures it starts and stops (gpio.clj).                                 *)
(*                                                                         *)
(* set-status runs on the MQTT thread, on the HTTP client's threads and,   *)
(* as a lone start-blink, at the end of the startup, and no lock orders    *)
(* them: a caller takes one step per access of an atom, and so does every  *)
(* blinking future.  Which status is set when is the business of Pairing;  *)
(* here any status may be set at any time.                                 *)
(***************************************************************************)
EXTENDS Naturals

CONSTANTS
    Callers,   \* the threads that set the status
    Blinkers,  \* bound: the futures that can blink at once
    Nobody     \* nil

ASSUME LinkLedAssumption ==
    Nobody \notin Callers \cup Blinkers /\ Callers \cap Blinkers = {}

VARIABLES
    pair_status,  \* pairing/pair-status
    led,          \* the value of :led/link in the atom leds
    line,         \* the level of the GPIO line: TRUE is high
    blinks,       \* the value of :led/link in the atom blinks, or nil
    caller,       \* what each caller is doing
    blinker,      \* what each future is doing
    cancelled,    \* the futures that were interrupted while they were awake
    writing,      \* where each thread is in set-led
    raced         \* history: two callers overlapped, or a cancel came while
                  \* the future was awake

ledVars == <<pair_status, led, line, blinks, caller, blinker, cancelled,
             writing, raced>>

Threads  == Callers \cup Blinkers
Status   == {"unpaired", "pairing", "paired"}
Level(v) == v = "on"  \* on-off-map

\* The pause between two blinks: 3000 ms and 500 ms.
Period == [unpaired |-> "slow", pairing |-> "fast"]

CallerState == [step : {"idle", "stop", "cancel", "off", "forget", "start",
                        "spawn", "light"},
                status : Status,
                future : Blinkers \cup {Nobody}]
Awake == {"look", "set on", "set off", "setting"}
BlinkerState == [phase : {"none", "ready", "asleep"} \cup Awake,
                 pause : {"slow", "fast"}]

NoBlinker == [phase |-> "none", pause |-> "fast"]

Active == {c \in Callers : caller[c].step # "idle" \/ writing[c] # "no"}
Alive  == {b \in Blinkers : blinker[b].phase # "none"}

\* init-gpio has run, and the startup is about to start the blinking.
LedInit ==
    /\ pair_status = "unpaired"
    /\ led = "off"
    /\ line = TRUE
    /\ blinks = Nobody
    /\ \E boot \in Callers :
          caller = [c \in Callers |->
                      [step |-> IF c = boot THEN "start" ELSE "idle",
                       status |-> "unpaired", future |-> Nobody]]
    /\ blinker = [b \in Blinkers |-> NoBlinker]
    /\ cancelled = {}
    /\ writing = [t \in Threads |-> "no"]
    /\ raced = FALSE

----------------------------------------------------------------------------
(* set-led: the atom, then a second look at the atom, then the line.       *)
SetLed(t, value) ==
    /\ led' = value
    /\ writing' = [writing EXCEPT ![t] = "read"]

ReadLed(t) ==
    /\ writing[t] = "read"
    /\ writing' = [writing EXCEPT ![t] = led]
    /\ UNCHANGED <<pair_status, led, line, blinks, caller, blinker,
                   cancelled, raced>>

WriteLine(t) ==
    /\ writing[t] \in {"on", "off"}
    /\ line' = Level(writing[t])
    /\ writing' = [writing EXCEPT ![t] = "no"]
    /\ UNCHANGED <<pair_status, led, blinks, caller, blinker, cancelled,
                   raced>>

----------------------------------------------------------------------------
(* set-status, stop-blink and start-blink.                                 *)
At(c, step) == caller[c].step = step /\ writing[c] = "no"
Goto(c, step) == caller' = [caller EXCEPT ![c].step = step]
AfterStop(c) == IF caller[c].status = "paired" THEN "light" ELSE "start"

SetStatus(c, status) ==
    /\ At(c, "idle")
    /\ pair_status' = status
    /\ caller' = [caller EXCEPT ![c] = [step |-> "stop", status |-> status,
                                        future |-> @.future]]
    /\ raced' = (raced \/ Active # {})
    /\ UNCHANGED <<led, line, blinks, blinker, cancelled, writing>>

StopBlink(c) ==
    /\ At(c, "stop")
    /\ caller' = [caller EXCEPT
                    ![c] = [step |-> IF blinks = Nobody THEN AfterStop(c)
                                                        ELSE "cancel",
                            status |-> @.status, future |-> blinks]]
    /\ UNCHANGED <<pair_status, led, line, blinks, blinker, cancelled,
                   writing, raced>>

\* Mutant: the future is forgotten without being cancelled.
CancelBlinkNever(c) ==
    /\ At(c, "cancel")
    /\ Goto(c, "off")
    /\ UNCHANGED <<pair_status, led, line, blinks, blinker, cancelled,
                   writing, raced>>

\* Mutant: a future that is awake is stopped on the spot.
CancelBlinkKills(c) ==
    LET b == caller[c].future
    IN  /\ At(c, "cancel")
        /\ blinker' = [blinker EXCEPT ![b] = NoBlinker]
        /\ Goto(c, "off")
        /\ UNCHANGED <<pair_status, led, line, blinks, cancelled, writing,
                       raced>>

\* future-cancel ends a future that has not begun or is asleep; one that is
\* awake is interrupted, and goes on to its next sleep.
CancelBlink(c) ==
    LET b == caller[c].future
    IN  /\ At(c, "cancel")
        /\ IF blinker[b].phase \in Awake
           THEN /\ cancelled' = cancelled \cup {b}
                /\ raced' = TRUE
                /\ UNCHANGED blinker
           ELSE /\ blinker' = [blinker EXCEPT ![b] = NoBlinker]
                /\ UNCHANGED <<cancelled, raced>>
        /\ Goto(c, "off")
        /\ UNCHANGED <<pair_status, led, line, blinks, writing>>

BlinkOff(c) ==
    /\ At(c, "off")
    /\ SetLed(c, "off")
    /\ Goto(c, "forget")
    /\ UNCHANGED <<pair_status, line, blinks, blinker, cancelled, raced>>

\* Mutant: the cancelled future stays in the atom.
ForgetBlinkNever(c) ==
    /\ At(c, "forget")
    /\ caller' = [caller EXCEPT ![c] = [step |-> AfterStop(c),
                                        status |-> @.status,
                                        future |-> Nobody]]
    /\ UNCHANGED <<pair_status, led, line, blinks, blinker, cancelled,
                   writing, raced>>

ForgetBlink(c) ==
    /\ At(c, "forget")
    /\ blinks' = Nobody
    /\ caller' = [caller EXCEPT ![c] = [step |-> AfterStop(c),
                                        status |-> @.status,
                                        future |-> Nobody]]
    /\ UNCHANGED <<pair_status, led, line, blinker, cancelled, writing,
                   raced>>

Light(c) ==
    /\ At(c, "light")
    /\ SetLed(c, "on")
    /\ Goto(c, "idle")
    /\ UNCHANGED <<pair_status, line, blinks, blinker, cancelled, raced>>

StartBlink(c) ==
    /\ At(c, "start")
    /\ Goto(c, IF blinks = Nobody THEN "spawn" ELSE "idle")
    /\ UNCHANGED <<pair_status, led, line, blinks, blinker, cancelled,
                   writing, raced>>

Unused(b) == /\ b \notin Alive
             /\ b # blinks
             /\ \A c \in Callers : caller[c].future # b

SpawnBlink(c, b) ==
    /\ At(c, "spawn")
    /\ Unused(b)
    /\ blinker' = [blinker EXCEPT
                     ![b] = [phase |-> "ready",
                             pause |-> Period[caller[c].status]]]
    /\ blinks' = b
    /\ Goto(c, "idle")
    /\ UNCHANGED <<pair_status, led, line, cancelled, writing, raced>>

----------------------------------------------------------------------------
(* The loop of a blinking future.                                          *)
Look(b) ==
    /\ blinker[b].phase \in {"ready", "look"}
    /\ blinker' = [blinker EXCEPT
                     ![b].phase = IF led = "on" THEN "set off" ELSE "set on"]
    /\ UNCHANGED <<pair_status, led, line, blinks, caller, cancelled,
                   writing, raced>>

Toggle(b) ==
    /\ blinker[b].phase \in {"set on", "set off"}
    /\ SetLed(b, IF blinker[b].phase = "set on" THEN "on" ELSE "off")
    /\ blinker' = [blinker EXCEPT ![b].phase = "setting"]
    /\ UNCHANGED <<pair_status, line, blinks, caller, cancelled, raced>>

\* Thread/sleep throws at once in a thread that was interrupted.
Sleep(b) ==
    /\ blinker[b].phase = "setting"
    /\ writing[b] = "no"
    /\ IF b \in cancelled THEN blinker' = [blinker EXCEPT ![b] = NoBlinker]
                          ELSE blinker' = [blinker EXCEPT ![b].phase = "asleep"]
    /\ cancelled' = cancelled \ {b}
    /\ UNCHANGED <<pair_status, led, line, blinks, caller, writing, raced>>

Wake(b) ==
    /\ blinker[b].phase = "asleep"
    /\ blinker' = [blinker EXCEPT ![b].phase = "look"]
    /\ UNCHANGED <<pair_status, led, line, blinks, caller, cancelled,
                   writing, raced>>

----------------------------------------------------------------------------
WriteStep(t) == ReadLed(t) \/ WriteLine(t)

CallerStep(c) == \/ StopBlink(c)
                 \/ CancelBlink(c)
                 \/ BlinkOff(c)
                 \/ ForgetBlink(c)
                 \/ Light(c)
                 \/ StartBlink(c)
                 \/ \E b \in Blinkers : SpawnBlink(c, b)
                 \/ WriteStep(c)

BlinkerStep(b) == Look(b) \/ Toggle(b) \/ Sleep(b) \/ Wake(b) \/ WriteStep(b)

LedNext == \/ \E c \in Callers, s \in Status : SetStatus(c, s)
           \/ \E c \in Callers : CallerStep(c)
           \/ \E b \in Blinkers : BlinkerStep(b)

LedSpec == LedInit /\ [][LedNext]_ledVars

----------------------------------------------------------------------------
(* Every variable keeps its type, a future writes only in set-led, and one *)
(* that was interrupted and is still there has not come to its sleep.      *)
LedTypeOK ==
    /\ pair_status \in Status
    /\ led \in {"on", "off"}
    /\ line \in BOOLEAN
    /\ blinks \in Blinkers \cup {Nobody}
    /\ caller \in [Callers -> CallerState]
    /\ blinker \in [Blinkers -> BlinkerState]
    /\ writing \in [Threads -> {"no", "read", "on", "off"}]
    /\ \A b \in Blinkers : writing[b] # "no" => blinker[b].phase = "setting"
    /\ cancelled \subseteq Blinkers
    /\ \A b \in cancelled : blinker[b].phase \in Awake
    /\ raced \in BOOLEAN

(* When no caller is at work, the LED tells the status: lit when paired,   *)
(* with nothing left that would turn it off, and otherwise blinking at the *)
(* pace of the status, driven by exactly one future; provided no two       *)
(* callers overlapped and no cancel came while the future was awake.       *)
LedShowsStatus ==
    Active = {} /\ ~raced =>
        IF pair_status = "paired"
        THEN Alive = {} /\ led = "on" /\ line = Level("on")
        ELSE /\ Alive = {blinks}
             /\ blinker[blinks].pause = Period[pair_status]

(* However callers overlap, a future that the atom blinks names is alive    *)
(* and not cancelled, unless the caller that cancelled it is about to       *)
(* forget it: the next stop-blink does stop the LED it was called for.      *)
NamedBlinkerBlinks ==
    blinks # Nobody =>
        \/ blinks \in Alive \ cancelled
        \/ \E c \in Callers : /\ caller[c].step \in {"off", "forget"}
                              /\ caller[c].future = blinks
=============================================================================
