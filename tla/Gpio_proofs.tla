----------------------------- MODULE Gpio_proofs -----------------------------
(***************************************************************************)
(* The LED of the link button, for any number of callers and of futures,   *)
(* and the link button, for any number of edges and any delays.            *)
(*                                                                         *)
(* The LED: a caller that nobody disturbs meets at most the one future     *)
(* that the atom blinks names, ends it while it sleeps, and so is alone    *)
(* with the LED until it has started the next one.  Undisturbed says how   *)
(* far such a caller has come.                                             *)
(*                                                                         *)
(* The button: the reference reading of the contact is by bursts of edges. *)
(* An edge leaves the bursts there were where they were, and starts a new  *)
(* one or belongs to the last.  With a clean contact the bursts alternate  *)
(* between presses and releases, and the two fields of bounce are the      *)
(* times the last two bursts started: FollowsContact.                      *)
(***************************************************************************)
EXTENDS LinkButton, LinkLed, FiniteSetTheorems, SequenceTheorems, TLAPS

----------------------------------------------------------------------------
(* The LED of the link button.                                             *)

Steps  == {"idle", "stop", "cancel", "off", "forget", "start", "spawn", "light"}
Phases == {"none", "ready", "asleep"} \cup Awake

\* A step changes what one caller does, what one future does, or where one
\* thread is in set-led, and nothing about the others.
CallerBecomes(c, step, status, future) ==
    /\ caller' \in [Callers -> CallerState]
    /\ caller'[c].step = step
    /\ caller'[c].status = status
    /\ caller'[c].future = future
    /\ \A d \in Callers : d # c => caller'[d] = caller[d]

BlinkerBecomes(b, phase, pause) ==
    /\ blinker' \in [Blinkers -> BlinkerState]
    /\ blinker'[b].phase = phase
    /\ blinker'[b].pause = pause
    /\ \A d \in Blinkers : d # b => blinker'[d] = blinker[d]

WritingBecomes(t, at) ==
    /\ writing' \in [Threads -> {"no", "read", "on", "off"}]
    /\ writing'[t] = at
    /\ \A u \in Threads : u # t => writing'[u] = writing[u]

LEMMA CallerUpdate ==
    ASSUME LedTypeOK, NEW c \in Callers, NEW step \in Steps, NEW status \in Status,
           NEW future \in Blinkers \cup {Nobody},
           caller' = [caller EXCEPT ![c] = [step |-> step, status |-> status,
                                            future |-> future]]
    PROVE  CallerBecomes(c, step, status, future)
<1> DEFINE new == [step |-> step, status |-> status, future |-> future]
<1>1. caller \in [Callers -> CallerState]
  BY DEF LedTypeOK
<1>2. new \in CallerState
  BY DEF CallerState, Steps
<1>3. caller' \in [Callers -> CallerState]
  BY <1>1, <1>2, Zenon
<1>4. caller'[c] = new /\ \A d \in Callers : d # c => caller'[d] = caller[d]
  BY <1>1, Zenon
<1> QED
  BY <1>3, <1>4 DEF CallerBecomes

LEMMA CallerGoes ==
    ASSUME LedTypeOK, NEW c \in Callers, NEW step \in Steps, Goto(c, step)
    PROVE  CallerBecomes(c, step, caller[c].status, caller[c].future)
<1>1. caller \in [Callers -> CallerState] /\ caller[c] \in CallerState
  BY DEF LedTypeOK
<1>2. [caller[c] EXCEPT !.step = step]
        = [step |-> step, status |-> caller[c].status,
           future |-> caller[c].future]
  BY <1>1 DEF CallerState
<1>3. caller' = [caller EXCEPT ![c] = [caller[c] EXCEPT !.step = step]]
  BY <1>1 DEF Goto
<1>4. caller[c].status \in Status /\ caller[c].future \in Blinkers \cup {Nobody}
  BY <1>1 DEF CallerState
<1> QED
  BY <1>2, <1>3, <1>4, CallerUpdate

LEMMA BlinkerUpdate ==
    ASSUME LedTypeOK, NEW b \in Blinkers, NEW phase \in Phases,
           NEW pause \in {"slow", "fast"},
           blinker' = [blinker EXCEPT ![b] = [phase |-> phase, pause |-> pause]]
    PROVE  BlinkerBecomes(b, phase, pause)
<1> DEFINE new == [phase |-> phase, pause |-> pause]
<1>1. blinker \in [Blinkers -> BlinkerState]
  BY DEF LedTypeOK
<1>2. new \in BlinkerState
  BY DEF BlinkerState, Phases, Awake
<1>3. blinker' \in [Blinkers -> BlinkerState]
  BY <1>1, <1>2, Zenon
<1>4. blinker'[b] = new /\ \A d \in Blinkers : d # b => blinker'[d] = blinker[d]
  BY <1>1, Zenon
<1> QED
  BY <1>3, <1>4 DEF BlinkerBecomes

LEMMA PhaseUpdate ==
    ASSUME NEW P, NEW Q, NEW r \in [phase : P, pause : Q], NEW phase
    PROVE  [r EXCEPT !.phase = phase] = [phase |-> phase, pause |-> r.pause]
OBVIOUS

LEMMA BlinkerMoves ==
    ASSUME LedTypeOK, NEW b \in Blinkers, NEW phase \in Phases,
           blinker' = [blinker EXCEPT ![b].phase = phase]
    PROVE  BlinkerBecomes(b, phase, blinker[b].pause)
<1>1. blinker \in [Blinkers -> BlinkerState] /\ blinker[b] \in BlinkerState
  BY DEF LedTypeOK
<1>2. [blinker[b] EXCEPT !.phase = phase]
        = [phase |-> phase, pause |-> blinker[b].pause]
  BY <1>1, PhaseUpdate, Zenon DEF BlinkerState
<1>3. blinker' = [blinker EXCEPT ![b] = [blinker[b] EXCEPT !.phase = phase]]
  BY <1>1
<1>4. blinker[b].pause \in {"slow", "fast"}
  BY <1>1 DEF BlinkerState
<1>5. blinker' = [blinker EXCEPT ![b] = [phase |-> phase,
                                         pause |-> blinker[b].pause]]
  BY <1>2, <1>3, Zenon
<1> QED
  BY <1>4, <1>5, BlinkerUpdate, Zenon

LEMMA BlinkerEnds ==
    ASSUME LedTypeOK, NEW b \in Blinkers,
           blinker' = [blinker EXCEPT ![b] = NoBlinker]
    PROVE  BlinkerBecomes(b, "none", "fast")
BY BlinkerUpdate DEF NoBlinker, Phases, Awake

LEMMA WritingUpdate ==
    ASSUME LedTypeOK, NEW t \in Threads, NEW at \in {"no", "read", "on", "off"},
           writing' = [writing EXCEPT ![t] = at]
    PROVE  WritingBecomes(t, at)
BY DEF LedTypeOK, WritingBecomes

\* What a caller carries from one access to the next.
CallersOK ==
    \A c \in Callers :
        /\ caller[c].step \in {"start", "spawn"} => caller[c].status # "paired"
        /\ caller[c].step = "light" => caller[c].status = "paired"
        /\ caller[c].step = "cancel" => caller[c].future \in Blinkers
        /\ writing[c] # "no" => caller[c].step \in {"forget", "idle"}

Dark     == Alive = {} /\ blinks = Nobody
Blinking == blinks # Nobody /\ Alive = {blinks} /\ blinks \notin cancelled

\* What LedShowsStatus asks for, and what the next stop-blink needs.
Showing ==
    IF pair_status = "paired"
    THEN Dark /\ led = "on" /\ line = TRUE
    ELSE Blinking /\ blinker[blinks].pause = Period[pair_status]

\* How far a caller that nobody disturbs has come.
Progress(c) ==
    /\ caller[c].status = pair_status
    /\ caller[c].step = "stop" => Dark \/ Blinking
    /\ caller[c].step = "cancel" => Blinking /\ caller[c].future = blinks
    /\ caller[c].step = "off" => Alive = {}
    /\ caller[c].step = "forget" =>
          Alive = {} /\ led = "off" /\ writing[c] \in {"no", "read", "off"}
    /\ caller[c].step \in {"start", "spawn", "light"} => Dark
    /\ caller[c].step = "idle" =>
          /\ Dark /\ pair_status = "paired"
          /\ led = "on" /\ writing[c] \in {"read", "on"}

Undisturbed ==
    ~raced => /\ Active = {} => Showing
              /\ \A c \in Active : Active = {c} /\ Progress(c)

LedInv == LedTypeOK /\ CallersOK /\ NamedBlinkerBlinks /\ Undisturbed

LEMMA LedInitInv == LedInit => LedInv
<1> SUFFICES ASSUME LedInit PROVE LedInv
  OBVIOUS
<1>1. PICK boot \in Callers :
          caller = [c \in Callers |->
                      [step |-> IF c = boot THEN "start" ELSE "idle",
                       status |-> "unpaired", future |-> Nobody]]
  BY DEF LedInit
<1>2. caller \in [Callers -> CallerState]
  BY <1>1 DEF CallerState, Status
<1>3. blinker \in [Blinkers -> BlinkerState]
  BY DEF LedInit, BlinkerState, NoBlinker
<1>4. LedTypeOK
  BY <1>2, <1>3 DEF LedInit, LedTypeOK, Status, Threads
<1>5. CallersOK
  BY <1>1 DEF LedInit, CallersOK, Threads
<1>6. NamedBlinkerBlinks
  BY DEF LedInit, NamedBlinkerBlinks
<1>7. Dark
  BY DEF LedInit, Dark, Alive, NoBlinker
<1>8. Active = {boot}
  BY <1>1 DEF LedInit, Active, Threads
<1>9. Progress(boot)
  BY <1>1, <1>7 DEF LedInit, Progress
<1> QED
  BY <1>4, <1>5, <1>6, <1>8, <1>9 DEF LedInv, Undisturbed

\* A caller at work is the only one, unless two have overlapped.
LEMMA OnlyOne ==
    ASSUME LedInv, ~raced, NEW c \in Active
    PROVE  Active = {c} /\ Progress(c)
BY DEF LedInv, Undisturbed

\* The step of a caller leaves the others at rest.
LEMMA StaysOnlyOne ==
    ASSUME LedInv, NEW c \in Callers, ~raced => Active \subseteq {c},
           raced => raced',
           \A d \in Callers : d # c => /\ caller'[d] = caller[d]
                                       /\ writing'[d] = writing[d],
           ~raced' /\ c \in Active' => Progress(c)',
           ~raced' /\ c \notin Active' => Showing'
    PROVE  Undisturbed'
<1>1. ~raced' => Active' \subseteq {c}
  BY DEF Active
<1> QED
  BY <1>1 DEF Undisturbed

LEMMA SetStatusInv ==
    ASSUME LedInv, NEW c \in Callers, NEW s \in Status, SetStatus(c, s)
    PROVE  LedInv'
<1>1. CallerBecomes(c, "stop", s, caller[c].future)
  BY CallerUpdate DEF LedInv, LedTypeOK, CallerState, SetStatus, Steps
<1>2. /\ caller[c].step = "idle" /\ writing[c] = "no" /\ pair_status' = s
      /\ raced' = (raced \/ Active # {})
      /\ UNCHANGED <<led, line, blinks, blinker, cancelled, writing>>
  BY DEF SetStatus, At
<1>3. LedTypeOK'
  BY <1>1, <1>2 DEF LedInv, LedTypeOK, CallerBecomes, Alive
<1>4. CallersOK'
  BY <1>1, <1>2 DEF LedInv, CallersOK, CallerBecomes
<1>5. NamedBlinkerBlinks'
  BY <1>1, <1>2 DEF LedInv, NamedBlinkerBlinks, CallerBecomes, Alive
<1>6. Undisturbed'
  <2>1. ASSUME ~raced' PROVE Progress(c)'
    <3>1. Dark \/ Blinking
      BY <1>2, <2>1 DEF LedInv, Undisturbed, Showing
    <3> QED
      BY <1>1, <1>2, <3>1 DEF Progress, CallerBecomes, Dark, Blinking, Alive
  <2>2. c \in Active'
    BY <1>1 DEF CallerBecomes, Active
  <2>3. ~raced' => ~raced /\ Active = {}
    BY <1>2
  <2>4. ~raced' => Active' = {c}
    BY <1>1, <1>2, <2>2, <2>3 DEF CallerBecomes, Active
  <2> QED
    BY <2>1, <2>4 DEF Undisturbed
<1> QED
  BY <1>3, <1>4, <1>5, <1>6 DEF LedInv

LEMMA StopBlinkInv ==
    ASSUME LedInv, NEW c \in Callers, StopBlink(c)
    PROVE  LedInv'
<1> DEFINE next == IF blinks = Nobody THEN AfterStop(c) ELSE "cancel"
<1>1. CallerBecomes(c, next, caller[c].status, blinks)
  BY CallerUpdate
     DEF LedInv, LedTypeOK, CallerState, StopBlink, Steps, AfterStop
<1>2. /\ caller[c].step = "stop" /\ writing[c] = "no"
      /\ UNCHANGED <<pair_status, led, line, blinks, blinker, cancelled,
                     writing, raced>>
  BY DEF StopBlink, At
<1>3. LedTypeOK'
  BY <1>1, <1>2 DEF LedInv, LedTypeOK, CallerBecomes, Alive
<1>4. CallersOK'
  BY <1>1, <1>2 DEF LedInv, LedTypeOK, CallersOK, CallerBecomes, AfterStop
<1>5. NamedBlinkerBlinks'
  BY <1>1, <1>2 DEF LedInv, NamedBlinkerBlinks, CallerBecomes, Alive
<1>6. Undisturbed'
  <2>1. c \in Active /\ c \in Active'
    BY <1>1, <1>2 DEF Active, CallerBecomes, AfterStop
  <2>2. ASSUME ~raced PROVE Progress(c)'
    <3>1. Progress(c) /\ (Dark \/ Blinking)
      BY <1>2, <2>1, <2>2, OnlyOne DEF Progress
    <3> QED
      BY <1>1, <1>2, <3>1
         DEF Progress, CallerBecomes, Dark, Blinking, Alive, AfterStop
  <2> QED
    BY <1>1, <1>2, <2>1, <2>2, OnlyOne, StaysOnlyOne DEF CallerBecomes
<1> QED
  BY <1>3, <1>4, <1>5, <1>6 DEF LedInv

LEMMA CancelBlinkInv ==
    ASSUME LedInv, NEW c \in Callers, CancelBlink(c)
    PROVE  LedInv'
<1> DEFINE b == caller[c].future
<1>1. CallerBecomes(c, "off", caller[c].status, b)
  BY CallerGoes DEF LedInv, CancelBlink, Steps
<1>2. /\ caller[c].step = "cancel" /\ writing[c] = "no" /\ b \in Blinkers
      /\ UNCHANGED <<pair_status, led, line, blinks, writing>>
  BY DEF LedInv, CallersOK, CancelBlink, At
<1>3. LedTypeOK'
  <2>1. CASE blinker[b].phase \in Awake
    BY <1>1, <1>2, <2>1 DEF LedInv, LedTypeOK, CallerBecomes, CancelBlink
  <2>2. CASE blinker[b].phase \notin Awake
    <3>1. BlinkerBecomes(b, "none", "fast") /\ UNCHANGED <<cancelled, raced>>
      BY <1>2, <2>2, BlinkerEnds DEF LedInv, CancelBlink
    <3>2. writing[b] = "no" /\ b \notin cancelled
      BY <1>2, <2>2 DEF LedInv, LedTypeOK, Awake
    <3> QED
      BY <1>1, <1>2, <3>1, <3>2
         DEF LedInv, LedTypeOK, CallerBecomes, BlinkerBecomes
  <2> QED
    BY <2>1, <2>2
<1>4. CallersOK'
  BY <1>1, <1>2 DEF LedInv, CallersOK, CallerBecomes
<1>5. NamedBlinkerBlinks'
  <2>1. CASE b = blinks
    BY <1>1, <1>2, <2>1 DEF NamedBlinkerBlinks, CallerBecomes
  <2>2. CASE b # blinks
    <3>1. blinks # Nobody => blinker'[blinks] = blinker[blinks]
      BY <1>2, <2>2 DEF LedInv, LedTypeOK, CancelBlink
    <3>2. cancelled' \subseteq cancelled \cup {b}
      BY DEF CancelBlink
    <3> QED
      BY <1>1, <1>2, <2>2, <3>1, <3>2
         DEF LedInv, LedTypeOK, NamedBlinkerBlinks, CallerBecomes, Alive
  <2> QED
    BY <2>1, <2>2
<1>6. Undisturbed'
  <2>1. c \in Active /\ c \in Active'
    BY <1>1, <1>2 DEF Active, CallerBecomes
  <2>2. raced => raced'
    BY DEF CancelBlink
  <2>3. ASSUME ~raced' PROVE Progress(c)'
    <3>1. Blinking /\ b = blinks /\ caller[c].status = pair_status
      BY <1>2, <2>1, <2>2, <2>3, OnlyOne DEF Progress
    <3>2. BlinkerBecomes(b, "none", "fast")
      BY <1>2, <2>3, BlinkerEnds DEF LedInv, CancelBlink
    <3>3. Alive' = {}
      BY <1>2, <3>1, <3>2 DEF Alive, Blinking, BlinkerBecomes
    <3> QED
      BY <1>1, <1>2, <3>1, <3>3 DEF Progress, CallerBecomes
  <2> QED
    BY <1>1, <1>2, <2>1, <2>2, <2>3, OnlyOne, StaysOnlyOne DEF CallerBecomes
<1> QED
  BY <1>3, <1>4, <1>5, <1>6 DEF LedInv

LEMMA BlinkOffInv ==
    ASSUME LedInv, NEW c \in Callers, BlinkOff(c)
    PROVE  LedInv'
<1>1. CallerBecomes(c, "forget", caller[c].status, caller[c].future)
  BY CallerGoes DEF LedInv, BlinkOff, Steps
<1>2. WritingBecomes(c, "read")
  BY WritingUpdate DEF LedInv, BlinkOff, SetLed, Threads
<1>3. /\ caller[c].step = "off" /\ led' = "off"
      /\ UNCHANGED <<pair_status, line, blinks, blinker, cancelled, raced>>
  BY DEF BlinkOff, At, SetLed
<1>4. LedTypeOK'
  BY <1>1, <1>2, <1>3, LinkLedAssumption
     DEF LedInv, LedTypeOK, CallerBecomes, WritingBecomes, LinkLedAssumption,
         Threads
<1>5. CallersOK'
  BY <1>1, <1>2, <1>3
     DEF LedInv, CallersOK, CallerBecomes, WritingBecomes, Threads
<1>6. NamedBlinkerBlinks'
  BY <1>1, <1>3 DEF LedInv, NamedBlinkerBlinks, CallerBecomes, Alive
<1>7. Undisturbed'
  <2>1. c \in Active /\ c \in Active'
    BY <1>1, <1>3 DEF Active, CallerBecomes
  <2>2. ASSUME ~raced PROVE Progress(c)'
    <3>1. Progress(c)
      BY <2>1, <2>2, OnlyOne
    <3> QED
      BY <1>1, <1>2, <1>3, <3>1
         DEF Progress, CallerBecomes, WritingBecomes, Alive, Threads
  <2> QED
    BY <1>1, <1>2, <1>3, <2>1, <2>2, OnlyOne, StaysOnlyOne
       DEF CallerBecomes, WritingBecomes, Threads
<1> QED
  BY <1>4, <1>5, <1>6, <1>7 DEF LedInv

LEMMA ForgetBlinkInv ==
    ASSUME LedInv, NEW c \in Callers, ForgetBlink(c)
    PROVE  LedInv'
<1>1. CallerBecomes(c, AfterStop(c), caller[c].status, Nobody)
  BY CallerUpdate
     DEF LedInv, LedTypeOK, CallerState, ForgetBlink, Steps, AfterStop
<1>2. /\ caller[c].step = "forget" /\ writing[c] = "no" /\ blinks' = Nobody
      /\ UNCHANGED <<pair_status, led, line, blinker, cancelled, writing,
                     raced>>
  BY DEF ForgetBlink, At
<1>3. LedTypeOK'
  BY <1>1, <1>2 DEF LedInv, LedTypeOK, CallerBecomes
<1>4. CallersOK'
  BY <1>1, <1>2 DEF LedInv, CallersOK, CallerBecomes, AfterStop
<1>5. NamedBlinkerBlinks'
  BY <1>2 DEF NamedBlinkerBlinks
<1>6. Undisturbed'
  <2>1. c \in Active /\ c \in Active'
    BY <1>1, <1>2 DEF Active, CallerBecomes, AfterStop
  <2>2. ASSUME ~raced PROVE Progress(c)'
    <3>1. Progress(c)
      BY <2>1, <2>2, OnlyOne
    <3>2. Dark'
      BY <1>2, <3>1 DEF Progress, Dark, Alive
    <3> QED
      BY <1>1, <1>2, <3>1, <3>2 DEF Progress, CallerBecomes, AfterStop
  <2> QED
    BY <1>1, <1>2, <2>1, <2>2, OnlyOne, StaysOnlyOne DEF CallerBecomes
<1> QED
  BY <1>3, <1>4, <1>5, <1>6 DEF LedInv

LEMMA LightInv ==
    ASSUME LedInv, NEW c \in Callers, Light(c)
    PROVE  LedInv'
<1>1. CallerBecomes(c, "idle", caller[c].status, caller[c].future)
  BY CallerGoes DEF LedInv, Light, Steps
<1>2. WritingBecomes(c, "read")
  BY WritingUpdate DEF LedInv, Light, SetLed, Threads
<1>3. /\ caller[c].step = "light" /\ led' = "on"
      /\ UNCHANGED <<pair_status, line, blinks, blinker, cancelled, raced>>
  BY DEF Light, At, SetLed
<1>4. LedTypeOK'
  BY <1>1, <1>2, <1>3, LinkLedAssumption
     DEF LedInv, LedTypeOK, CallerBecomes, WritingBecomes, LinkLedAssumption,
         Threads
<1>5. CallersOK'
  BY <1>1, <1>2, <1>3
     DEF LedInv, CallersOK, CallerBecomes, WritingBecomes, Threads
<1>6. NamedBlinkerBlinks'
  BY <1>1, <1>3 DEF LedInv, NamedBlinkerBlinks, CallerBecomes, Alive
<1>7. Undisturbed'
  <2>1. c \in Active /\ c \in Active'
    BY <1>2, <1>3 DEF Active, WritingBecomes, Threads
  <2>2. ASSUME ~raced PROVE Progress(c)'
    <3>1. Progress(c) /\ Dark /\ pair_status = "paired"
      BY <1>3, <2>1, <2>2, OnlyOne DEF LedInv, CallersOK, Progress
    <3>2. Dark'
      BY <1>3, <3>1 DEF Dark, Alive
    <3> QED
      BY <1>1, <1>2, <1>3, <3>1, <3>2
         DEF Progress, CallerBecomes, WritingBecomes, Threads
  <2> QED
    BY <1>1, <1>2, <1>3, <2>1, <2>2, OnlyOne, StaysOnlyOne
       DEF CallerBecomes, WritingBecomes, Threads
<1> QED
  BY <1>4, <1>5, <1>6, <1>7 DEF LedInv

LEMMA StartBlinkInv ==
    ASSUME LedInv, NEW c \in Callers, StartBlink(c)
    PROVE  LedInv'
<1> DEFINE next == IF blinks = Nobody THEN "spawn" ELSE "idle"
<1>1. CallerBecomes(c, next, caller[c].status, caller[c].future)
  BY CallerGoes DEF LedInv, StartBlink, Steps
<1>2. /\ caller[c].step = "start" /\ writing[c] = "no"
      /\ UNCHANGED <<pair_status, led, line, blinks, blinker, cancelled,
                     writing, raced>>
  BY DEF StartBlink, At
<1>3. LedTypeOK'
  BY <1>1, <1>2 DEF LedInv, LedTypeOK, CallerBecomes
<1>4. CallersOK'
  BY <1>1, <1>2 DEF LedInv, CallersOK, CallerBecomes
<1>5. NamedBlinkerBlinks'
  BY <1>1, <1>2 DEF LedInv, NamedBlinkerBlinks, CallerBecomes, Alive
<1>6. Undisturbed'
  <2>1. c \in Active
    BY <1>2 DEF Active
  <2>2. ASSUME ~raced PROVE c \in Active' /\ Progress(c)'
    <3>1. Progress(c) /\ Dark
      BY <1>2, <2>1, <2>2, OnlyOne DEF Progress
    <3>2. Dark'
      BY <1>2, <3>1 DEF Dark, Alive
    <3> QED
      BY <1>1, <1>2, <3>1, <3>2 DEF Progress, CallerBecomes, Dark, Active
  <2> QED
    BY <1>1, <1>2, <2>1, <2>2, OnlyOne, StaysOnlyOne DEF CallerBecomes
<1> QED
  BY <1>3, <1>4, <1>5, <1>6 DEF LedInv

LEMMA SpawnBlinkInv ==
    ASSUME LedInv, NEW c \in Callers, NEW b \in Blinkers, SpawnBlink(c, b)
    PROVE  LedInv'
<1>1. CallerBecomes(c, "idle", caller[c].status, caller[c].future)
  BY CallerGoes DEF LedInv, SpawnBlink, Steps
<1>2. /\ caller[c].step = "spawn" /\ writing[c] = "no" /\ blinks' = b
      /\ UNCHANGED <<pair_status, led, line, cancelled, writing, raced>>
  BY DEF SpawnBlink, At
<1>3. caller[c].status \in {"unpaired", "pairing"}
  BY <1>2 DEF LedInv, LedTypeOK, CallersOK, CallerState, Status
<1>4. BlinkerBecomes(b, "ready", Period[caller[c].status])
  <2>1. Period[caller[c].status] \in {"slow", "fast"}
    BY <1>3 DEF Period
  <2>2. blinker' = [blinker EXCEPT ![b] =
                      [phase |-> "ready", pause |-> Period[caller[c].status]]]
    BY DEF SpawnBlink
  <2>3. "ready" \in Phases
    BY DEF Phases
  <2> QED
    BY <2>1, <2>2, <2>3, BlinkerUpdate, Zenon DEF LedInv
<1>5. b # Nobody /\ blinker[b].phase = "none"
  BY LinkLedAssumption DEF LinkLedAssumption, SpawnBlink, Unused, Alive
<1>6. b \notin cancelled
  BY <1>5 DEF LedInv, LedTypeOK, Awake
<1>7. LedTypeOK'
  BY <1>1, <1>2, <1>4, <1>5, <1>6
     DEF LedInv, LedTypeOK, CallerBecomes, BlinkerBecomes
<1>8. CallersOK'
  BY <1>1, <1>2 DEF LedInv, CallersOK, CallerBecomes
<1>9. NamedBlinkerBlinks'
  BY <1>2, <1>4, <1>6 DEF NamedBlinkerBlinks, BlinkerBecomes, Alive
<1>10. Undisturbed'
  <2>1. c \in Active /\ c \notin Active'
    BY <1>1, <1>2 DEF Active, CallerBecomes
  <2>2. ASSUME ~raced PROVE Showing'
    <3>1. Progress(c) /\ Alive = {} /\ pair_status = caller[c].status
      BY <1>2, <2>1, <2>2, OnlyOne DEF Progress, Dark
    <3>2. Blinking'
      BY <1>2, <1>4, <1>5, <1>6, <3>1 DEF Blinking, Alive, BlinkerBecomes
    <3> QED
      BY <1>2, <1>3, <1>4, <3>1, <3>2 DEF Showing, BlinkerBecomes
  <2> QED
    BY <1>1, <1>2, <2>1, <2>2, OnlyOne, StaysOnlyOne DEF CallerBecomes
<1> QED
  BY <1>7, <1>8, <1>9, <1>10 DEF LedInv

\* While the callers are undisturbed, at most the future that blinks names is
\* there, and none was interrupted.
LEMMA NoneCancelled ==
    ASSUME LedInv, ~raced
    PROVE  (Alive = {} \/ Blinking) /\ cancelled = {}
<1>1. Alive = {} \/ Blinking
  <2>1. CASE Active = {}
    BY <2>1 DEF LedInv, Undisturbed, Showing, Dark
  <2>2. CASE Active # {}
    <3>1. PICK c \in Active : Progress(c)
      BY <2>2, OnlyOne
    <3>2. caller[c].step \in Steps
      BY DEF Active, LedInv, LedTypeOK, CallerState, Steps
    <3> QED
      BY <3>1, <3>2 DEF Progress, Dark, Steps
  <2> QED
    BY <2>1, <2>2
<1>2. cancelled \subseteq Alive
  BY DEF LedInv, LedTypeOK, Alive, Awake
<1> QED
  BY <1>1, <1>2 DEF Blinking

\* A step of a future, or of set-led in it, changes nothing that the callers
\* rely on: the LED only while a future is there.
LEMMA StaysUndisturbed ==
    ASSUME LedInv, UNCHANGED <<pair_status, blinks, caller, raced>>,
           ~raced => Alive' = Alive /\ UNCHANGED cancelled,
           Alive = {} => UNCHANGED <<led, line>>,
           \A c \in Callers : writing'[c] = writing[c],
           \A b \in Alive' : blinker'[b].pause = blinker[b].pause
    PROVE  Undisturbed'
<1> SUFFICES ASSUME ~raced PROVE Undisturbed'
  BY DEF Undisturbed
<1>1. Active' = Active
  BY DEF Active
<1>2. (Dark => Dark') /\ (Blinking => Blinking')
  BY DEF Dark, Blinking
<1>3. Active = {} => Showing'
  <2>1. ASSUME Active = {} PROVE Showing
    BY <2>1 DEF LedInv, Undisturbed
  <2>2. Blinking => blinker'[blinks].pause = blinker[blinks].pause
    BY DEF Blinking
  <2> QED
    BY <1>2, <2>1, <2>2 DEF Showing, Dark
<1>4. ASSUME NEW c \in Active PROVE Active = {c} /\ Progress(c)'
  <2>1. Active = {c} /\ Progress(c) /\ c \in Callers
    BY OnlyOne DEF Active
  <2> QED
    BY <1>2, <2>1 DEF Progress, Dark
<1> QED
  BY <1>1, <1>3, <1>4 DEF Undisturbed

LEMMA LookInv ==
    ASSUME LedInv, NEW b \in Blinkers, Look(b)
    PROVE  LedInv'
<1> DEFINE next == IF led = "on" THEN "set off" ELSE "set on"
<1>1. BlinkerBecomes(b, next, blinker[b].pause)
  BY BlinkerMoves DEF LedInv, Look, Phases, Awake
<1>2. /\ blinker[b].phase \in {"ready", "look"}
      /\ UNCHANGED <<pair_status, led, line, blinks, caller, cancelled,
                     writing, raced>>
  BY DEF Look
<1>3. Alive' = Alive
  BY <1>1, <1>2 DEF Alive, BlinkerBecomes
<1>4. LedTypeOK'
  BY <1>1, <1>2 DEF LedInv, LedTypeOK, BlinkerBecomes, Awake
<1>5. CallersOK' /\ NamedBlinkerBlinks'
  BY <1>2, <1>3 DEF LedInv, CallersOK, NamedBlinkerBlinks
<1>6. Undisturbed'
  BY <1>1, <1>2, <1>3, StaysUndisturbed DEF BlinkerBecomes, Alive
<1> QED
  BY <1>4, <1>5, <1>6 DEF LedInv

LEMMA ToggleInv ==
    ASSUME LedInv, NEW b \in Blinkers, Toggle(b)
    PROVE  LedInv'
<1>1. BlinkerBecomes(b, "setting", blinker[b].pause)
  BY BlinkerMoves DEF LedInv, Toggle, Phases, Awake
<1>2. WritingBecomes(b, "read")
  BY WritingUpdate DEF LedInv, Toggle, SetLed, Threads
<1>3. /\ blinker[b].phase \in {"set on", "set off"} /\ led' \in {"on", "off"}
      /\ UNCHANGED <<pair_status, line, blinks, caller, cancelled, raced>>
  BY DEF Toggle, SetLed
<1>4. Alive' = Alive /\ b \in Alive
  BY <1>1, <1>3 DEF Alive, BlinkerBecomes
<1>5. \A c \in Callers : writing'[c] = writing[c]
  BY <1>2, LinkLedAssumption DEF WritingBecomes, Threads, LinkLedAssumption
<1>6. LedTypeOK'
  BY <1>1, <1>2, <1>3
     DEF LedInv, LedTypeOK, BlinkerBecomes, WritingBecomes, Awake, Threads
<1>7. CallersOK' /\ NamedBlinkerBlinks'
  BY <1>3, <1>4, <1>5 DEF LedInv, CallersOK, NamedBlinkerBlinks
<1>8. Undisturbed'
  BY <1>1, <1>3, <1>4, <1>5, StaysUndisturbed DEF BlinkerBecomes, Alive
<1> QED
  BY <1>6, <1>7, <1>8 DEF LedInv

LEMMA SleepInv ==
    ASSUME LedInv, NEW b \in Blinkers, Sleep(b)
    PROVE  LedInv'
<1>1. /\ blinker[b].phase = "setting" /\ writing[b] = "no"
      /\ cancelled' = cancelled \ {b}
      /\ UNCHANGED <<pair_status, led, line, blinks, caller, writing, raced>>
  BY DEF Sleep
<1>2. CASE b \in cancelled
  <2>1. BlinkerBecomes(b, "none", "fast")
    BY <1>2, BlinkerEnds DEF LedInv, Sleep
  <2>2. raced
    BY <1>2, NoneCancelled
  <2>3. LedTypeOK'
    BY <1>1, <2>1 DEF LedInv, LedTypeOK, BlinkerBecomes
  <2>4. CallersOK' /\ NamedBlinkerBlinks'
    BY <1>1, <1>2, <2>1
       DEF LedInv, CallersOK, NamedBlinkerBlinks, BlinkerBecomes, Alive
  <2> QED
    BY <1>1, <2>2, <2>3, <2>4 DEF LedInv, Undisturbed
<1>3. CASE b \notin cancelled
  <2>1. BlinkerBecomes(b, "asleep", blinker[b].pause)
    BY <1>3, BlinkerMoves DEF LedInv, Sleep, Phases
  <2>2. Alive' = Alive /\ cancelled' = cancelled
    BY <1>1, <1>3, <2>1 DEF Alive, BlinkerBecomes
  <2>3. LedTypeOK'
    BY <1>1, <1>3, <2>1, <2>2 DEF LedInv, LedTypeOK, BlinkerBecomes
  <2>4. CallersOK' /\ NamedBlinkerBlinks'
    BY <1>1, <2>2 DEF LedInv, CallersOK, NamedBlinkerBlinks
  <2>5. Undisturbed'
    BY <1>1, <2>1, <2>2, StaysUndisturbed DEF BlinkerBecomes, Alive
  <2> QED
    BY <2>3, <2>4, <2>5 DEF LedInv
<1> QED
  BY <1>2, <1>3

LEMMA WakeInv ==
    ASSUME LedInv, NEW b \in Blinkers, Wake(b)
    PROVE  LedInv'
<1>1. BlinkerBecomes(b, "look", blinker[b].pause)
  BY BlinkerMoves DEF LedInv, Wake, Phases, Awake
<1>2. /\ blinker[b].phase = "asleep"
      /\ UNCHANGED <<pair_status, led, line, blinks, caller, cancelled,
                     writing, raced>>
  BY DEF Wake
<1>3. Alive' = Alive
  BY <1>1, <1>2 DEF Alive, BlinkerBecomes
<1>4. LedTypeOK'
  BY <1>1, <1>2 DEF LedInv, LedTypeOK, BlinkerBecomes, Awake
<1>5. CallersOK' /\ NamedBlinkerBlinks'
  BY <1>2, <1>3 DEF LedInv, CallersOK, NamedBlinkerBlinks
<1>6. Undisturbed'
  BY <1>1, <1>2, <1>3, StaysUndisturbed DEF BlinkerBecomes, Alive
<1> QED
  BY <1>4, <1>5, <1>6 DEF LedInv

LEMMA ReadLedInv ==
    ASSUME LedInv, NEW t \in Threads, ReadLed(t)
    PROVE  LedInv'
<1>1. WritingBecomes(t, led)
  BY WritingUpdate DEF LedInv, LedTypeOK, ReadLed
<1>2. /\ writing[t] = "read" /\ led \in {"on", "off"}
      /\ UNCHANGED <<pair_status, led, line, blinks, caller, blinker,
                     cancelled, raced>>
  BY DEF ReadLed, LedInv, LedTypeOK
<1>3. LedTypeOK'
  BY <1>1, <1>2 DEF LedInv, LedTypeOK, WritingBecomes, Threads
<1>4. CallersOK'
  BY <1>1, <1>2 DEF LedInv, CallersOK, WritingBecomes, Threads
<1>5. NamedBlinkerBlinks'
  BY <1>2 DEF LedInv, NamedBlinkerBlinks, Alive
<1>6. Undisturbed'
  <2>1. CASE t \in Callers
    <3>1. t \in Active /\ t \in Active'
      BY <1>1, <1>2, <2>1 DEF Active, WritingBecomes
    <3>2. ASSUME ~raced PROVE Progress(t)'
      <4>1. Progress(t)
        BY <3>1, <3>2, OnlyOne
      <4>2. caller[t].step \in {"forget", "idle"}
        BY <1>2, <2>1 DEF LedInv, CallersOK
      <4> QED
        BY <1>1, <1>2, <4>1, <4>2 DEF Progress, WritingBecomes, Dark, Alive
    <3> QED
      BY <1>1, <1>2, <2>1, <3>1, <3>2, OnlyOne, StaysOnlyOne
         DEF WritingBecomes, Threads
  <2>2. CASE t \notin Callers
    BY <1>1, <1>2, <2>2, StaysUndisturbed DEF WritingBecomes, Threads, Alive
  <2> QED
    BY <2>1, <2>2
<1> QED
  BY <1>3, <1>4, <1>5, <1>6 DEF LedInv

LEMMA WriteLineInv ==
    ASSUME LedInv, NEW t \in Threads, WriteLine(t)
    PROVE  LedInv'
<1>1. WritingBecomes(t, "no")
  BY WritingUpdate DEF LedInv, LedTypeOK, WriteLine
<1>2. /\ writing[t] \in {"on", "off"} /\ line' = (writing[t] = "on")
      /\ UNCHANGED <<pair_status, led, blinks, caller, blinker, cancelled,
                     raced>>
  BY DEF WriteLine, Level
<1>3. LedTypeOK'
  BY <1>1, <1>2 DEF LedInv, LedTypeOK, WritingBecomes, Threads
<1>4. CallersOK'
  BY <1>1, <1>2 DEF LedInv, CallersOK, WritingBecomes, Threads
<1>5. NamedBlinkerBlinks'
  BY <1>2 DEF LedInv, NamedBlinkerBlinks, Alive
<1>6. Undisturbed'
  <2>1. CASE t \in Callers
    <3>1. t \in Active /\ caller[t].step \in {"forget", "idle"}
      BY <1>2, <2>1 DEF Active, LedInv, CallersOK
    <3>2. ~raced => Progress(t)
      BY <3>1, OnlyOne
    <3>3. t \in Active' <=> caller[t].step = "forget"
      BY <1>1, <1>2, <2>1, <3>1 DEF Active, WritingBecomes
    <3>4. ASSUME ~raced, caller[t].step = "forget" PROVE Progress(t)'
      BY <1>1, <1>2, <3>2, <3>4 DEF Progress, WritingBecomes, Alive
    <3>5. ASSUME ~raced, caller[t].step = "idle" PROVE Showing'
      <4>1. Dark /\ pair_status = "paired" /\ led = "on" /\ line' = TRUE
        BY <1>2, <3>2, <3>5 DEF Progress
      <4> QED
        BY <1>2, <4>1 DEF Showing, Dark, Alive
    <3> QED
      BY <1>1, <1>2, <2>1, <3>1, <3>3, <3>4, <3>5, OnlyOne, StaysOnlyOne
         DEF WritingBecomes, Threads
  <2>2. CASE t \notin Callers
    <3>1. t \in Alive
      BY <1>2, <2>2 DEF LedInv, LedTypeOK, Threads, Alive
    <3> QED
      BY <1>1, <1>2, <2>2, <3>1, StaysUndisturbed
         DEF WritingBecomes, Threads, Alive
  <2> QED
    BY <2>1, <2>2
<1> QED
  BY <1>3, <1>4, <1>5, <1>6 DEF LedInv

LEMMA LedStutterInv == LedInv /\ UNCHANGED ledVars => LedInv'
BY DEF ledVars, LedInv, LedTypeOK, CallersOK, NamedBlinkerBlinks, Undisturbed,
       Active, Alive, Showing, Progress, Dark, Blinking

LEMMA LedInvariance == LedSpec => []LedInv
<1>1. LedInv /\ [LedNext]_ledVars => LedInv'
  <2> SUFFICES ASSUME LedInv, [LedNext]_ledVars PROVE LedInv'
    OBVIOUS
  <2>1. ASSUME NEW c \in Callers, CallerStep(c) PROVE LedInv'
    BY <2>1, StopBlinkInv, CancelBlinkInv, BlinkOffInv, ForgetBlinkInv,
       LightInv, StartBlinkInv, SpawnBlinkInv, ReadLedInv, WriteLineInv
       DEF CallerStep, WriteStep, Threads
  <2>2. ASSUME NEW b \in Blinkers, BlinkerStep(b) PROVE LedInv'
    BY <2>2, LookInv, ToggleInv, SleepInv, WakeInv, ReadLedInv, WriteLineInv
       DEF BlinkerStep, WriteStep, Threads
  <2> QED
    BY <2>1, <2>2, SetStatusInv, LedStutterInv DEF LedNext
<1> QED
  BY LedInitInv, <1>1, PTL DEF LedSpec

(* Every variable of the LED keeps its type: a future writes only in        *)
(* set-led, and one that was interrupted has not come to its sleep.        *)
THEOREM LedTypeCorrect == LedSpec => []LedTypeOK
<1>1. LedInv => LedTypeOK
  BY DEF LedInv
<1> QED
  BY LedInvariance, <1>1, PTL

(* The LED tells the status whenever no caller of set-status is at work, as *)
(* long as no two of them overlapped and none cancelled a future that was   *)
(* awake, for any number of threads and of futures.                        *)
THEOREM LedShows == LedSpec => []LedShowsStatus
<1>1. LedInv => LedShowsStatus
  BY DEF LedInv, Undisturbed, Showing, Dark, Blinking, LedShowsStatus, Level
<1> QED
  BY LedInvariance, <1>1, PTL

(* However the callers overlap, the future that the atom blinks names is    *)
(* alive, or the caller that cancelled it is about to forget it.           *)
THEOREM NamedBlinks == LedSpec => []NamedBlinkerBlinks
<1>1. LedInv => NamedBlinkerBlinks
  BY DEF LedInv
<1> QED
  BY LedInvariance, <1>1, PTL

----------------------------------------------------------------------------
(* The link button.                                                        *)

LEMMA ButtonInitType == ButtonInit => ButtonTypeOK
BY DEF ButtonInit, ButtonTypeOK, MaybeTime, Responses

LEMMA ResponseType ==
    \A delay \in Time, s \in PairStatus : Response(delay, s) \in Responses
BY DEF Response, Responses

LEMMA ButtonTypeStep == ButtonTypeOK /\ [ButtonNext]_buttonVars => ButtonTypeOK'
<1> SUFFICES ASSUME ButtonTypeOK, [ButtonNext]_buttonVars PROVE ButtonTypeOK'
  OBVIOUS
<1> USE LinkButtonAssumption DEF LinkButtonAssumption
<1>1. ASSUME NEW t \in Time, FallingEdge(t) PROVE ButtonTypeOK'
  <2>1. edges' \in Seq(Time)
    BY <1>1, AppendProperties DEF ButtonTypeOK, FallingEdge
  <2>2. t \in MaybeTime /\ NoTime \in MaybeTime /\ t # NoTime
    BY DEF MaybeTime, Time
  <2> QED
    BY <1>1, <2>1, <2>2 DEF ButtonTypeOK, FallingEdge
<1>2. ASSUME NEW t \in Time, NEW s \in PairStatus, RisingEdge(t, s)
      PROVE  ButtonTypeOK'
  <2>1. edges' \in Seq(Time)
    BY <1>2, AppendProperties DEF ButtonTypeOK, RisingEdge
  <2>2. CASE reading /\ EndsPress(t)
    <3>1. falling \in Time /\ falling # NoTime /\ t - falling \in Time
      BY <2>2 DEF ButtonTypeOK, EndsPress, MaybeTime, Time
    <3>2. [at |-> t, delay |-> t - falling] \in Call
      BY <3>1 DEF Call
    <3>3. calls' \in Seq(Call)
      <4>1. /\ calls \in Seq(Call)
            /\ calls' = Append(calls, [at |-> t, delay |-> t - falling])
        BY <1>2, <2>2 DEF ButtonTypeOK, RisingEdge
      <4> QED
        BY <3>2, <4>1, AppendProperties, Zenon
    <3>4. rising' \in MaybeTime
      BY <1>2, <2>2 DEF RisingEdge, MaybeTime
    <3>5. did' \in Responses /\ reading' \in BOOLEAN
      BY <1>2, <2>2, <3>1, ResponseType DEF RisingEdge
    <3> QED
      BY <1>2, <2>1, <3>1, <3>3, <3>4, <3>5 DEF ButtonTypeOK, RisingEdge
  <2>3. CASE ~(reading /\ EndsPress(t))
    BY <1>2, <2>1, <2>3 DEF ButtonTypeOK, RisingEdge
  <2> QED
    BY <2>2, <2>3
<1>3. CASE Close
  BY <1>3 DEF ButtonTypeOK, Close
<1>4. CASE UNCHANGED buttonVars
  BY <1>4 DEF ButtonTypeOK, buttonVars
<1> QED
  BY <1>1, <1>2, <1>3, <1>4 DEF ButtonNext

\* The edges come in the order of their time stamps, the first of them starts a
\* burst, and every burst has a start.
Increasing == \A i, j \in 1..Len(edges) : i < j => edges[i] < edges[j]
Ranked     == \A k \in 1..Bursts : \E i \in Starts : Rank(i) = k

ContactInv == ButtonTypeOK /\ Increasing /\ Ranked

LEMMA StartsFinite ==
    ASSUME ButtonTypeOK
    PROVE  /\ Len(edges) \in Nat /\ Starts \subseteq 1..Len(edges)
           /\ Starts \subseteq Int /\ IsFiniteSet(Starts) /\ Bursts \in Nat
           /\ \A i : /\ IsFiniteSet({j \in Starts : j <= i})
                     /\ Rank(i) \in Int /\ Rank(i) \in 0..Bursts
<1>1. Len(edges) \in Nat /\ DOMAIN edges = 1..Len(edges)
  BY DEF ButtonTypeOK
<1>2. Starts \subseteq 1..Len(edges)
  BY <1>1 DEF Starts
<1>3. IsFiniteSet(Starts)
  <2>1. 0 \in Int /\ 1 \in Int /\ Len(edges) \in Int
    BY <1>1
  <2>2. IsFiniteSet(1..Len(edges))
    BY <2>1, FS_Interval, Zenon
  <2>3. Starts \in SUBSET (1..Len(edges))
    BY <1>2
  <2> QED
    BY <2>2, <2>3, FS_Subset, Zenon
<1>4. Bursts \in Nat
  BY <1>3, FS_CardinalityType DEF Bursts
<1>5. ASSUME NEW i
      PROVE  /\ IsFiniteSet({j \in Starts : j <= i})
             /\ Rank(i) \in Int /\ Rank(i) \in 0..Bursts
  <2>1. {j \in Starts : j <= i} \in SUBSET Starts
    OBVIOUS
  <2>2. /\ IsFiniteSet({j \in Starts : j <= i})
        /\ Cardinality({j \in Starts : j <= i}) <= Cardinality(Starts)
    BY <1>3, <2>1, FS_Subset, Zenon
  <2>3. Cardinality({j \in Starts : j <= i}) \in Nat
    BY <2>2, FS_CardinalityType, Zenon
  <2> QED
    BY <1>4, <2>1, <2>2, <2>3 DEF Rank, Bursts
<1>6. Starts \subseteq Int
  BY <1>1, <1>2
<1> QED
  BY <1>1, <1>2, <1>3, <1>4, <1>5, <1>6

\* A later start has a higher rank, so that a burst has one start only.
LEMMA RankGrows ==
    ASSUME ButtonTypeOK, NEW i \in Starts, NEW j \in Starts, i < j
    PROVE  Rank(i) < Rank(j)
<1> DEFINE upto(k) == {m \in Starts : m <= k}
<1>1. i \in Int /\ j \in Int /\ Starts \subseteq Int
  BY StartsFinite
<1>2. IsFiniteSet(upto(j)) /\ Rank(i) \in Int /\ Rank(j) \in Int
  BY StartsFinite, Zenon
<1>3. upto(i) \in SUBSET upto(j) /\ j \in upto(j) /\ j \notin upto(i)
  <2>1. j <= j /\ ~(j <= i)
    BY <1>1
  <2>2. \A m \in Starts : m <= i => m <= j
    BY <1>1
  <2> QED
    BY <2>1, <2>2, Zenon
<1>4. /\ Cardinality(upto(i)) <= Cardinality(upto(j))
      /\ Cardinality(upto(j)) # Cardinality(upto(i))
  <2> HIDE DEF upto
  <2> QED
    BY <1>2, <1>3, FS_Subset, Zenon
<1> QED
  BY <1>2, <1>4 DEF Rank

LEMMA StartIs ==
    ASSUME ButtonTypeOK, NEW i \in Starts
    PROVE  Start(Rank(i)) = i
<1>1. \A j \in Starts : Rank(j) = Rank(i) => j = i
  <2> SUFFICES ASSUME NEW j \in Starts, Rank(j) = Rank(i), j # i PROVE FALSE
    OBVIOUS
  <2>1. i \in Int /\ j \in Int /\ Rank(i) \in Int
    BY StartsFinite
  <2> QED
    BY <2>1, RankGrows
<1> QED
  BY <1>1 DEF Start

LEMMA StartOf ==
    ASSUME ContactInv, NEW k \in 1..Bursts
    PROVE  Start(k) \in Starts /\ Rank(Start(k)) = k
BY DEF ContactInv, Ranked, Start

\* The starts come in the order of their ranks.
LEMMA StartGrows ==
    ASSUME ContactInv, NEW k \in 1..Bursts, NEW i \in Starts, Rank(i) <= k
    PROVE  i <= Start(k)
<1>1. Start(k) \in Starts /\ Rank(Start(k)) = k
  BY StartOf
<1>2. i \in Int /\ Start(k) \in Int /\ Rank(i) \in Int
  BY <1>1, StartsFinite DEF ContactInv
<1> QED
  BY <1>1, <1>2, RankGrows DEF ContactInv

\* What an edge does to the reading of the contact.
Edge(t) == t \in Time /\ t > LastEdge /\ edges' = Append(edges, t)

LEMMA LastIndex ==
    \A n \in Nat : \A i \in 1..n : n \in 1..n /\ (i = n \/ i < n)
OBVIOUS

LEMMA EdgeAppended ==
    ASSUME ContactInv, NEW t, Edge(t)
    PROVE  /\ Len(edges) \in Nat /\ Len(edges') = Len(edges) + 1
           /\ DOMAIN edges = 1..Len(edges)
           /\ DOMAIN edges' = 1..Len(edges) + 1
           /\ edges'[Len(edges) + 1] = t
           /\ \A i \in 1..Len(edges) : edges'[i] = edges[i] /\ edges[i] \in Int
           /\ t \in Int /\ \A i \in 1..Len(edges) : edges[i] < t
<1>1. edges \in Seq(Time) /\ t \in Time
  BY DEF ContactInv, ButtonTypeOK, Edge
<1>2. /\ Len(edges) \in Nat /\ DOMAIN edges = 1..Len(edges)
      /\ edges' \in Seq(Time) /\ Len(edges') = Len(edges) + 1
      /\ edges'[Len(edges) + 1] = t
      /\ \A i \in 1..Len(edges) : edges'[i] = edges[i] /\ edges[i] \in Time
  BY <1>1, AppendProperties, LenProperties, ElementOfSeq DEF Edge
<1>3. DOMAIN edges' = 1..Len(edges) + 1
  BY <1>2
<1>4. ASSUME NEW i \in 1..Len(edges) PROVE edges[i] < t
  <2>1. edges # <<>> /\ LastEdge = edges[Len(edges)]
    BY <1>1, <1>2, <1>4, EmptySeq DEF LastEdge, Last
  <2>2. i = Len(edges) \/ edges[i] < edges[Len(edges)]
    <3>1. Len(edges) \in 1..Len(edges) /\ (i = Len(edges) \/ i < Len(edges))
      BY <1>2, <1>4, LastIndex, Zenon
    <3> QED
      BY <1>4, <3>1 DEF ContactInv, Increasing
  <2>3. edges[i] \in Int /\ t \in Int /\ t > edges[Len(edges)]
    BY <1>1, <1>2, <1>4, <2>1 DEF Edge, Time
  <2>4. edges[Len(edges)] \in Int
    <3>1. Len(edges) \in 1..Len(edges)
      BY <1>2, <1>4, LastIndex, Zenon
    <3> QED
      BY <1>2, <3>1 DEF Time
  <2> QED
    BY <2>2, <2>3, <2>4
<1>5. Time \subseteq Int
  BY DEF Time
<1> QED
  BY <1>1, <1>2, <1>3, <1>4, <1>5

\* An edge keeps the starts, the ranks and the bursts there were, and adds at
\* most itself.
LEMMA EdgeStarts ==
    ASSUME ContactInv, NEW t, Edge(t), NEW n, n = Len(edges)
    PROVE  /\ StartsBurst(n + 1)' <=> n = 0 \/ t - edges[n] > Epsilon
           /\ Starts' = IF StartsBurst(n + 1)' THEN Starts \cup {n + 1}
                                               ELSE Starts
           /\ \A i \in 1..n : Rank(i)' = Rank(i)
           /\ Bursts' = IF StartsBurst(n + 1)' THEN Bursts + 1 ELSE Bursts
           /\ Rank(n + 1)' = Bursts'
<1>1. n \in Nat /\ Starts \subseteq 1..n /\ IsFiniteSet(Starts)
  BY StartsFinite DEF ContactInv
<1>2. /\ DOMAIN edges = 1..n /\ DOMAIN edges' = 1..n + 1
      /\ edges'[n + 1] = t /\ \A i \in 1..n : edges'[i] = edges[i]
  BY EdgeAppended
<1>3. \A i \in 1..n : StartsBurst(i)' <=> StartsBurst(i)
  <2> SUFFICES ASSUME NEW i \in 1..n PROVE StartsBurst(i)' <=> StartsBurst(i)
    OBVIOUS
  <2>1. i # 1 => i - 1 \in 1..n
    BY <1>1
  <2> QED
    BY <1>2, <2>1 DEF StartsBurst
<1>4. StartsBurst(n + 1)' <=> n = 0 \/ t - edges[n] > Epsilon
  <2>1. (n + 1 = 1 <=> n = 0) /\ n + 1 - 1 = n /\ (n # 0 => n \in 1..n)
    BY <1>1
  <2> QED
    BY <1>2, <2>1 DEF StartsBurst
<1>5. Starts' = IF StartsBurst(n + 1)' THEN Starts \cup {n + 1} ELSE Starts
  <2>1. 1..n + 1 = (1..n) \cup {n + 1} /\ n + 1 \notin 1..n
    BY <1>1
  <2>2. Starts = {i \in 1..n : StartsBurst(i)}
    BY <1>2, Zenon DEF Starts
  <2>3. Starts' = {i \in (1..n) \cup {n + 1} : StartsBurst(i)'}
    BY <1>2, <2>1, Zenon DEF Starts
  <2>4. \A i : i \in Starts'
                <=> i \in Starts \/ (i = n + 1 /\ StartsBurst(n + 1)')
    BY <1>3, <2>1, <2>2, <2>3, Zenon
  <2> QED
    BY <2>4
<1>6. n + 1 \notin Starts /\ \A i \in 1..n : ~(n + 1 <= i)
  BY <1>1
<1>7. \A i \in 1..n : Rank(i)' = Rank(i)
  <2> SUFFICES ASSUME NEW i \in 1..n PROVE Rank(i)' = Rank(i)
    OBVIOUS
  <2>1. {j \in Starts' : j <= i} = {j \in Starts : j <= i}
    BY <1>5, <1>6
  <2> QED
    BY <2>1 DEF Rank
<1>8. Bursts' = IF StartsBurst(n + 1)' THEN Bursts + 1 ELSE Bursts
  BY <1>1, <1>5, <1>6, FS_AddElement DEF Bursts
<1>9. Rank(n + 1)' = Bursts'
  <2>1. \A j \in Starts' : j <= n + 1
    BY <1>1, <1>5
  <2>2. {j \in Starts' : j <= n + 1} = Starts'
    BY <2>1
  <2> QED
    BY <2>2 DEF Rank, Bursts
<1> QED
  BY <1>4, <1>5, <1>7, <1>8, <1>9

LEMMA StartOfRank ==
    ContactInv => \A i \in Starts, k \in 1..Bursts :
                      Rank(i) = k => Start(k) = i
BY StartIs DEF ContactInv

\* The reading is as good after an edge.
LEMMA EdgeContact ==
    ASSUME ContactInv, NEW t, Edge(t), ButtonTypeOK'
    PROVE  ContactInv'
<1>1. PICK n \in Nat : n = Len(edges)
  BY EdgeAppended
<1>2. Increasing'
  <2> SUFFICES ASSUME NEW i \in 1..n + 1, NEW j \in 1..n + 1, i < j
               PROVE  edges'[i] < edges'[j]
    BY <1>1, EdgeAppended DEF Increasing
  <2>1. i \in 1..n /\ (j = n + 1 \/ j \in 1..n)
    OBVIOUS
  <2>2. CASE j = n + 1
    BY <1>1, <2>1, <2>2, EdgeAppended
  <2>3. CASE j \in 1..n
    <3>1. edges[i] < edges[j]
      BY <1>1, <2>1, <2>3 DEF ContactInv, Increasing
    <3> QED
      BY <1>1, <2>1, <2>3, <3>1, EdgeAppended
  <2> QED
    BY <2>1, <2>2, <2>3
<1>3. Ranked'
  <2>1. Bursts \in Nat /\ Starts \subseteq 1..n
    BY <1>1, StartsFinite DEF ContactInv
  <2> SUFFICES ASSUME NEW k \in 1..Bursts' PROVE \E i \in Starts' : Rank(i)' = k
    BY DEF Ranked
  <2>2. CASE k \in 1..Bursts
    <3>1. PICK i \in Starts : Rank(i) = k
      BY <2>2 DEF ContactInv, Ranked
    <3>2. i \in Starts' /\ Rank(i)' = Rank(i)
      BY <1>1, <2>1, EdgeStarts
    <3> QED
      BY <3>1, <3>2
  <2>3. CASE k \notin 1..Bursts
    <3>1. StartsBurst(n + 1)' /\ k = Bursts'
      BY <1>1, <2>1, <2>3, EdgeStarts
    <3> QED
      BY <1>1, <3>1, EdgeStarts
  <2> QED
    BY <2>2, <2>3
<1> QED
  BY <1>2, <1>3 DEF ContactInv

\* An edge keeps the bursts there were where they were, and one that starts a
\* burst is the start of the last.
LEMMA EdgeBursts ==
    ASSUME ContactInv, ContactInv', NEW t, Edge(t), NEW n, n = Len(edges)
    PROVE  /\ \A k \in 1..Bursts : /\ Start(k)' = Start(k)
                                   /\ Start(k) \in 1..n
                                   /\ edges'[Start(k)] = edges[Start(k)]
           /\ StartsBurst(n + 1)' =>
                \A k : k = Bursts + 1 => Start(k)' = n + 1
<1>1. /\ n \in Nat /\ Bursts \in Nat /\ Starts \subseteq 1..n
  BY StartsFinite DEF ContactInv
<1>2. \A i \in Starts', k \in 1..Bursts' : Rank(i)' = k => Start(k)' = i
  <2>1. ContactInv' => (\A i \in Starts, k \in 1..Bursts :
                            Rank(i) = k => Start(k) = i)'
    BY StartOfRank, PTL
  <2> QED
    BY <2>1
<1>3. ASSUME NEW k \in 1..Bursts
      PROVE  /\ Start(k)' = Start(k) /\ Start(k) \in 1..n
             /\ edges'[Start(k)] = edges[Start(k)]
  <2>1. Start(k) \in Starts /\ Rank(Start(k)) = k
    BY <1>3, StartOf
  <2>2. PICK i \in Starts : i = Start(k) /\ Rank(i) = k
    BY <2>1
  <2>3. i \in 1..n /\ i \in Starts' /\ Rank(i)' = Rank(i)
    BY <1>1, EdgeStarts
  <2>4. Bursts' \in {Bursts, Bursts + 1}
    BY EdgeStarts
  <2>5. k \in 1..Bursts'
    BY <1>1, <1>3, <2>4
  <2>6. edges'[i] = edges[i]
    BY <2>3, EdgeAppended
  <2> QED
    BY <1>2, <2>2, <2>3, <2>5, <2>6
<1>4. ASSUME StartsBurst(n + 1)', NEW k, k = Bursts + 1
      PROVE  Start(k)' = n + 1
  <2>1. n + 1 \in Starts' /\ Rank(n + 1)' = k /\ k \in 1..Bursts'
    BY <1>1, <1>4, EdgeStarts
  <2> QED
    BY <1>2, <2>1
<1> QED
  BY <1>3, <1>4

\* A contact that is clean was clean before.
LEMMA CleanBefore ==
    ASSUME ContactInv, NEW t, Edge(t), CleanContact'
    PROVE  CleanContact
<1>1. PICK n \in Nat : n = Len(edges)
  BY EdgeAppended
<1>2. DOMAIN edges = 1..n /\ DOMAIN edges' = 1..n + 1 /\ Starts \subseteq 1..n
  BY <1>1, EdgeAppended, StartsFinite DEF ContactInv
<1> SUFFICES ASSUME NEW f \in Starts, NEW i \in 1..n, InBurst(f, i)
             PROVE  /\ edges[i] - edges[f] <= Epsilon
                    /\ EndsBurst(i) => (i - f) % 2 = 0
  BY <1>2 DEF CleanContact
<1>3. f \in 1..n /\ f \in Starts' /\ i \in DOMAIN edges'
  BY <1>1, <1>2, EdgeStarts
<1>4. InBurst(f, i)' /\ (EndsBurst(i) => EndsBurst(i)')
  BY <1>1, <1>3, EdgeStarts DEF InBurst, EndsBurst
<1>5. edges'[i] = edges[i] /\ edges'[f] = edges[f]
  BY <1>1, <1>3, EdgeAppended
<1> QED
  BY <1>3, <1>4, <1>5 DEF CleanContact

\* The burst that an edge comes after, or belongs to.
LEMMA LastBurst ==
    ASSUME ContactInv, NEW t, Edge(t), NEW n, n = Len(edges), n # 0,
           NEW b, b = Bursts
    PROVE  /\ b \in Nat /\ b >= 1 /\ Start(b) \in 1..n
           /\ edges[Start(b)] <= edges[n]
           /\ CleanContact' =>
                IF StartsBurst(n + 1)' THEN (n - Start(b)) % 2 = 0
                                       ELSE t - edges[Start(b)] <= Epsilon
<1>1. /\ n \in Nat /\ Starts \subseteq 1..n /\ IsFiniteSet(Starts)
      /\ b \in Nat /\ DOMAIN edges = 1..n /\ DOMAIN edges' = 1..n + 1
  BY StartsFinite, EdgeAppended DEF ContactInv
<1>2. b >= 1
  <2>1. 1 \in Starts
    BY <1>1 DEF Starts, StartsBurst
  <2> QED
    BY <1>1, <2>1, FS_EmptySet DEF Bursts
<1>3. PICK f : f = Start(b)
  OBVIOUS
<1>4. f \in Starts /\ Rank(f) = b /\ f \in 1..n /\ n \in 1..n
  <2>1. b \in 1..Bursts /\ n \in 1..n
    BY <1>1, <1>2
  <2>2. f \in Starts /\ Rank(f) = b
    BY <1>3, <2>1, StartOf
  <2> QED
    BY <1>1, <2>1, <2>2
<1>5. edges[f] <= edges[n]
  BY <1>1, <1>4, EdgeAppended DEF ContactInv, Increasing
<1>6. Rank(n) = b
  <2>1. \A j \in Starts : j <= n
    BY <1>1
  <2>2. {j \in Starts : j <= n} = Starts
    BY <2>1, Zenon
  <2> QED
    BY <2>2 DEF Rank, Bursts
<1>7. ASSUME CleanContact', StartsBurst(n + 1)' PROVE (n - f) % 2 = 0
  <2>1. f \in Starts' /\ n \in DOMAIN edges' /\ n + 1 \in Starts'
    BY <1>1, <1>4, <1>7, EdgeStarts
  <2>2. InBurst(f, n)' /\ EndsBurst(n)'
    BY <1>4, <1>6, <2>1, EdgeStarts DEF InBurst, EndsBurst
  <2> QED
    BY <1>7, <2>1, <2>2 DEF CleanContact
<1>8. ASSUME CleanContact', ~StartsBurst(n + 1)' PROVE t - edges[f] <= Epsilon
  <2>1. f \in Starts' /\ n + 1 \in DOMAIN edges' /\ f <= n + 1
    BY <1>1, <1>4, EdgeStarts
  <2>2. InBurst(f, n + 1)'
    BY <1>4, <1>8, <2>1, EdgeStarts DEF InBurst
  <2>3. edges'[n + 1] - edges'[f] <= Epsilon
    BY <1>8, <2>1, <2>2 DEF CleanContact
  <2> QED
    BY <1>4, <2>3, EdgeAppended
<1> QED
  BY <1>1, <1>2, <1>3, <1>4, <1>5, <1>7, <1>8

\* The time stamp a burst starts with, and the call that press m asks for.
BurstTime(k) == edges[Start(k)]
Hold(m) == [at    |-> BurstTime(2 * m),
            delay |-> BurstTime(2 * m) - BurstTime(2 * m - 1)]

\* With a clean contact the presses are the bursts at odd places.
Alternates == \A k \in 1..Bursts : Start(k) % 2 = k % 2

\* What the two fields hold after b bursts.
Remembers(b) ==
    /\ b = 0 => falling = NoTime /\ rising = NoTime
    /\ b > 0 /\ b % 2 = 1 => falling = BurstTime(b) /\ rising = NoTime
    /\ b > 0 /\ b % 2 = 0 => /\ falling = BurstTime(b - 1)
                             /\ rising = BurstTime(b)

FollowsContact ==
    /\ Alternates
    /\ Len(calls) <= Bursts \div 2
    /\ \A m \in 1..Len(calls) : calls[m] = Hold(m)
    /\ reading => /\ Len(calls) = Bursts \div 2
                  /\ \A b \in {Bursts} : Remembers(b)

ButtonInv == ContactInv /\ (CleanContact => FollowsContact)

LEMMA EdgeTimes ==
    ASSUME ContactInv, ContactInv', NEW t, Edge(t), NEW n, n = Len(edges)
    PROVE  /\ \A k \in 1..Bursts : BurstTime(k)' = BurstTime(k)
                                   /\ BurstTime(k) \in Int
           /\ StartsBurst(n + 1)' =>
                \A k : k = Bursts + 1 => BurstTime(k)' = t
<1>1. ASSUME NEW k \in 1..Bursts
      PROVE  BurstTime(k)' = BurstTime(k) /\ BurstTime(k) \in Int
  <2>1. PICK i \in 1..n : /\ i = Start(k) /\ Start(k)' = i
                          /\ edges'[i] = edges[i]
    BY <1>1, EdgeBursts
  <2> QED
    BY <2>1, EdgeAppended DEF BurstTime
<1>2. ASSUME StartsBurst(n + 1)', NEW k, k = Bursts + 1
      PROVE  BurstTime(k)' = t
  <2>1. Start(k)' = n + 1
    BY <1>2, EdgeBursts
  <2>2. edges'[n + 1] = t
    BY EdgeAppended
  <2> QED
    BY <2>1, <2>2 DEF BurstTime
<1> QED
  BY <1>1, <1>2

\* The holds there were stay what they are.
LEMMA EdgeHolds ==
    ASSUME ContactInv, ContactInv', NEW t, Edge(t), NEW m \in 1..(Bursts \div 2)
    PROVE  Hold(m)' = Hold(m)
<1>1. Bursts \in Nat
  BY StartsFinite DEF ContactInv
<1>2. 2 * m \in 1..Bursts /\ 2 * m - 1 \in 1..Bursts
  BY <1>1
<1>3. PICK k, l \in 1..Bursts : k = 2 * m /\ l = 2 * m - 1
  BY <1>2
<1>4. BurstTime(k)' = BurstTime(k) /\ BurstTime(l)' = BurstTime(l)
  BY EdgeTimes
<1> QED
  BY <1>3, <1>4 DEF Hold

LEMMA EdgeAlternates ==
    ASSUME ContactInv, ContactInv', NEW t, Edge(t), CleanContact', Alternates
    PROVE  Alternates'
<1>1. PICK n, b \in Nat : n = Len(edges) /\ b = Bursts
  BY StartsFinite DEF ContactInv
<1> SUFFICES ASSUME NEW k \in 1..Bursts' PROVE Start(k)' % 2 = k % 2
  BY DEF Alternates
<1>2. CASE k \in 1..b
  BY <1>1, <1>2, EdgeBursts DEF Alternates
<1>3. CASE k \notin 1..b
  <2>1. StartsBurst(n + 1)' /\ k = b + 1
    BY <1>1, <1>3, EdgeStarts
  <2>2. Start(k)' = n + 1
    BY <1>1, <2>1, EdgeBursts
  <2>3. n % 2 = b % 2
    <3>1. CASE n = 0
      <4>1. Starts = {}
        BY <1>1, <3>1, StartsFinite DEF ContactInv
      <4>2. b = 0
        BY <1>1, <4>1, FS_EmptySet DEF Bursts
      <4> QED
        BY <3>1, <4>2
    <3>2. CASE n # 0
      <4>1. PICK f : f = Start(b)
        OBVIOUS
      <4>2. f \in 1..n /\ b \in 1..b /\ (n - f) % 2 = 0
        BY <1>1, <2>1, <3>2, <4>1, LastBurst
      <4>3. f % 2 = b % 2
        BY <1>1, <4>1, <4>2 DEF Alternates
      <4> QED
        BY <1>1, <4>2, <4>3
    <3> QED
      BY <3>1, <3>2
  <2> QED
    BY <1>1, <2>1, <2>2, <2>3
<1> QED
  BY <1>2, <1>3

\* Where the last burst stands against the edge that comes now.
LEMMA EdgeCases ==
    ASSUME ContactInv, ContactInv', NEW t, Edge(t), CleanContact', Alternates,
           NEW n, n = Len(edges), NEW b, b = Bursts
    PROVE  /\ n \in Nat /\ b \in Nat /\ t \in Int
           /\ n = 0 => b = 0 /\ StartsBurst(n + 1)'
           /\ n # 0 => b > 0 /\ BurstTime(b) \in Int
           /\ StartsBurst(n + 1)' =>
                /\ Bursts' = b + 1 /\ n % 2 = b % 2
                /\ n # 0 => t - BurstTime(b) > Epsilon
           /\ ~StartsBurst(n + 1)' =>
                Bursts' = b /\ t - BurstTime(b) <= Epsilon
<1>1. n \in Nat /\ b \in Nat /\ t \in Int
  BY StartsFinite, EdgeAppended DEF ContactInv
<1>2. ASSUME n = 0 PROVE b = 0 /\ StartsBurst(n + 1)'
  <2>1. Starts = {}
    BY <1>2, StartsFinite DEF ContactInv
  <2>2. b = 0
    BY <2>1, FS_EmptySet DEF Bursts
  <2> QED
    BY <1>2, <2>2, EdgeStarts
<1>3. ASSUME n # 0 PROVE b > 0 /\ b \in 1..Bursts /\ BurstTime(b) \in Int
  <2>1. b > 0 /\ b \in 1..Bursts
    BY <1>1, <1>3, LastBurst
  <2> QED
    BY <2>1, EdgeTimes
<1>4. ASSUME StartsBurst(n + 1)'
      PROVE  /\ Bursts' = b + 1 /\ n % 2 = b % 2
             /\ n # 0 => t - BurstTime(b) > Epsilon
  <2>1. Bursts' = b + 1
    BY <1>4, EdgeStarts
  <2>2. CASE n = 0
    BY <1>2, <2>1, <2>2
  <2>3. CASE n # 0
    <3>1. PICK f : f = Start(b)
      OBVIOUS
    <3>2. f \in 1..n /\ edges[f] <= edges[n] /\ (n - f) % 2 = 0
      BY <1>4, <2>3, <3>1, LastBurst
    <3>3. f % 2 = b % 2
      BY <1>3, <2>3, <3>1 DEF Alternates
    <3>4. t - edges[n] > Epsilon /\ edges[n] \in Int /\ edges[f] \in Int
      <4>1. n \in 1..n
        BY <1>1, <2>3
      <4> QED
        BY <1>4, <2>3, <3>2, <4>1, EdgeStarts, EdgeAppended
    <3>5. t - edges[f] > Epsilon
      BY <1>1, <3>2, <3>4, LinkButtonAssumption DEF LinkButtonAssumption
    <3>6. n % 2 = b % 2
      BY <1>1, <3>2, <3>3
    <3> QED
      BY <2>1, <3>1, <3>5, <3>6 DEF BurstTime
  <2> QED
    BY <2>2, <2>3
<1>5. ASSUME ~StartsBurst(n + 1)'
      PROVE  Bursts' = b /\ t - BurstTime(b) <= Epsilon
  BY <1>2, <1>5, EdgeStarts, LastBurst DEF BurstTime
<1> QED
  BY <1>1, <1>2, <1>3, <1>4, <1>5

LEMMA FallingFollows ==
    ASSUME ButtonInv, ContactInv', NEW t \in Time, FallingEdge(t), CleanContact'
    PROVE  FollowsContact'
<1>1. Edge(t) /\ UNCHANGED <<reading, calls>>
  BY DEF Edge, FallingEdge
<1>2. ContactInv /\ FollowsContact
  BY <1>1, CleanBefore DEF ButtonInv
<1>3. PICK n, b \in Nat : n = Len(edges) /\ b = Bursts
  BY <1>2, StartsFinite DEF ContactInv
<1>4. Alternates'
  BY <1>1, <1>2, EdgeAlternates DEF FollowsContact
<1>5. n % 2 = 0 /\ Len(calls) \in Nat
  BY <1>2, <1>3 DEF FallingEdge, Closed, ContactInv, ButtonTypeOK
<1>6. \A m \in 1..Len(calls) : calls[m] = Hold(m)'
  BY <1>1, <1>2, <1>3, <1>5, EdgeHolds DEF FollowsContact
<1>7. CASE StartsBurst(n + 1)'
  <2>1. Bursts' = b + 1 /\ b % 2 = 0
    BY <1>1, <1>2, <1>3, <1>5, <1>7, EdgeCases DEF FollowsContact
  <2>2. Bursts' \div 2 = b \div 2
    BY <1>3, <2>1
  <2>3. ASSUME reading PROVE Remembers(b + 1)'
    <3>1. StartsCycle(t)
      <4>1. CASE b = 0
        BY <1>2, <1>3, <2>3, <4>1 DEF FollowsContact, Remembers, StartsCycle
      <4>2. CASE b # 0
        <5>1. falling = BurstTime(b - 1) /\ rising = BurstTime(b)
          BY <1>2, <1>3, <2>1, <2>3, <4>2 DEF FollowsContact, Remembers
        <5>2. t - rising > Epsilon
          BY <1>1, <1>2, <1>3, <1>7, <4>2, <5>1, EdgeCases
             DEF FollowsContact
        <5>3. b \in 1..Bursts /\ b - 1 \in 1..Bursts
          BY <1>3, <2>1, <4>2
        <5>4. falling \in Int /\ rising \in Int
          BY <1>1, <1>2, <5>1, <5>3, EdgeTimes
        <5> QED
          BY <5>2, <5>4, LinkButtonAssumption
             DEF LinkButtonAssumption, StartsCycle
      <4> QED
        BY <4>1, <4>2
    <3>2. falling' = t /\ rising' = NoTime
      BY <2>3, <3>1 DEF FallingEdge
    <3>3. BurstTime(b + 1)' = t
      BY <1>1, <1>2, <1>3, <1>7, EdgeTimes
    <3> QED
      BY <1>3, <2>1, <3>2, <3>3 DEF Remembers
  <2> QED
    BY <1>1, <1>2, <1>3, <1>4, <1>5, <1>6, <2>1, <2>2, <2>3
       DEF FollowsContact
<1>8. CASE ~StartsBurst(n + 1)'
  <2>1. /\ n # 0 /\ b > 0 /\ Bursts' = b
        /\ t - BurstTime(b) <= Epsilon /\ BurstTime(b) \in Int
    BY <1>1, <1>2, <1>3, <1>8, EdgeCases DEF FollowsContact
  <2>2. ASSUME reading PROVE Remembers(b)'
    <3>1. Remembers(b)
      BY <1>2, <1>3, <2>2 DEF FollowsContact
    <3>2. b \in 1..Bursts /\ (b % 2 = 0 => b - 1 \in 1..Bursts)
      BY <1>3, <2>1
    <3>3. /\ BurstTime(b)' = BurstTime(b)
          /\ b % 2 = 0 => BurstTime(b - 1)' = BurstTime(b - 1)
      BY <1>1, <1>2, <3>2, EdgeTimes
    <3>4. ~StartsCycle(t)
      BY <1>1, <1>3, <2>1, <3>1, LinkButtonAssumption
         DEF LinkButtonAssumption, StartsCycle, Remembers, Time
    <3>5. UNCHANGED <<falling, rising>>
      BY <3>4 DEF FallingEdge
    <3> QED
      BY <3>1, <3>3, <3>5 DEF Remembers
  <2> QED
    BY <1>1, <1>2, <1>3, <1>4, <1>5, <1>6, <2>1, <2>2 DEF FollowsContact
<1> QED
  BY <1>7, <1>8

LEMMA RisingFollows ==
    ASSUME ButtonInv, ContactInv', NEW t \in Time, NEW s \in PairStatus,
           RisingEdge(t, s), CleanContact'
    PROVE  FollowsContact'
<1>1. Edge(t) /\ UNCHANGED falling
  BY DEF Edge, RisingEdge
<1>2. ContactInv /\ FollowsContact
  BY <1>1, CleanBefore DEF ButtonInv
<1>3. PICK n, b \in Nat : n = Len(edges) /\ b = Bursts
  BY <1>2, StartsFinite DEF ContactInv
<1>4. Alternates'
  BY <1>1, <1>2, EdgeAlternates DEF FollowsContact
<1>5. n % 2 = 1 /\ n # 0 /\ Len(calls) \in Nat /\ calls \in Seq(Call)
  BY <1>2, <1>3 DEF RisingEdge, Closed, ContactInv, ButtonTypeOK
<1>6. /\ b > 0 /\ b \in 1..Bursts /\ BurstTime(b) \in Int
      /\ BurstTime(b)' = BurstTime(b)
  <2>1. b > 0 /\ BurstTime(b) \in Int /\ b \in 1..Bursts
    BY <1>1, <1>2, <1>3, <1>5, EdgeCases DEF FollowsContact
  <2> QED
    BY <1>1, <1>2, <2>1, EdgeTimes
<1>7. \A m \in 1..Len(calls) : calls[m] = Hold(m)'
  BY <1>1, <1>2, <1>3, <1>5, EdgeHolds DEF FollowsContact
<1>8. CASE StartsBurst(n + 1)'
  <2>1. Bursts' = b + 1 /\ b % 2 = 1 /\ t - BurstTime(b) > Epsilon
    BY <1>1, <1>2, <1>3, <1>5, <1>8, EdgeCases DEF FollowsContact
  <2>2. Bursts' \div 2 = b \div 2 + 1
    BY <1>3, <2>1
  <2>3. CASE reading
    <3>1. /\ falling = BurstTime(b) /\ rising = NoTime
          /\ Len(calls) = b \div 2
      BY <1>2, <1>3, <1>6, <2>1, <2>3 DEF FollowsContact, Remembers
    <3>2. EndsPress(t)
      BY <1>6, <2>1, <3>1, LinkButtonAssumption
         DEF LinkButtonAssumption, EndsPress
    <3> DEFINE call == [at |-> t, delay |-> t - falling]
    <3>3. rising' = t /\ calls' = Append(calls, call)
      BY <2>3, <3>2 DEF RisingEdge
    <3>4. BurstTime(b + 1)' = t
      BY <1>1, <1>2, <1>3, <1>8, EdgeTimes
    <3>5. Hold(b \div 2 + 1)' = call
      <4>1. PICK k, l, m \in Nat :
                m = b \div 2 + 1 /\ k = 2 * m /\ l = 2 * m - 1
        BY <1>3, <1>6
      <4>2. k = b + 1 /\ l = b
        BY <1>3, <2>1, <4>1
      <4>3. BurstTime(k)' = t /\ BurstTime(l)' = falling
        BY <1>6, <3>1, <3>4, <4>2
      <4>4. Hold(m)' = call
        BY <4>1, <4>3 DEF Hold
      <4> QED
        BY <1>3, <4>1, <4>4
    <3>6. call \in Call
      BY <1>6, <2>1, <3>1, <1>2, LinkButtonAssumption
         DEF LinkButtonAssumption, Call, ContactInv, ButtonTypeOK, MaybeTime,
             Time
    <3> HIDE DEF call
    <3>7. /\ Len(calls') = Len(calls) + 1 /\ calls'[Len(calls) + 1] = call
          /\ \A m \in 1..Len(calls) : calls'[m] = calls[m]
      BY <1>5, <3>3, <3>6, AppendProperties
    <3>8. \A m \in 1..Len(calls') : calls'[m] = Hold(m)'
      BY <1>5, <1>7, <3>1, <3>5, <3>7
    <3>9. Remembers(b + 1)'
      BY <1>1, <1>3, <1>6, <2>1, <3>1, <3>3, <3>4 DEF Remembers
    <3> QED
      BY <1>3, <1>4, <1>5, <2>1, <2>2, <3>1, <3>7, <3>8, <3>9
         DEF FollowsContact
  <2>4. CASE ~reading
    <3>1. UNCHANGED <<reading, calls>>
      BY <2>4 DEF RisingEdge
    <3> QED
      BY <1>2, <1>3, <1>4, <1>5, <1>7, <2>2, <2>4, <3>1 DEF FollowsContact
  <2> QED
    BY <2>3, <2>4
<1>9. CASE ~StartsBurst(n + 1)'
  <2>1. Bursts' = b /\ t - BurstTime(b) <= Epsilon
    <3>1. Alternates
      BY <1>2 DEF FollowsContact
    <3> QED
      BY <1>1, <1>2, <1>3, <1>9, <3>1, EdgeCases
  <2>2. ASSUME reading PROVE ~EndsPress(t)
    <3>1. falling = BurstTime(b) \/ rising = BurstTime(b)
      BY <1>2, <1>3, <1>6, <2>2 DEF FollowsContact, Remembers
    <3>2. BurstTime(b) # NoTime
      BY <1>6, LinkButtonAssumption DEF LinkButtonAssumption
    <3>3. ~(t - BurstTime(b) > Epsilon)
      BY <1>6, <2>1, LinkButtonAssumption DEF LinkButtonAssumption, Time
    <3> QED
      BY <3>1, <3>2, <3>3, Zenon DEF EndsPress
  <2>3. UNCHANGED <<falling, rising, calls, reading>>
    BY <1>1, <2>2 DEF RisingEdge
  <2>4. ASSUME reading PROVE Remembers(b)'
    <3>1. Remembers(b)
      BY <1>2, <1>3, <2>4 DEF FollowsContact
    <3>2. b % 2 = 0 => BurstTime(b - 1)' = BurstTime(b - 1)
      <4>1. b % 2 = 0 => b - 1 \in 1..Bursts
        BY <1>3, <1>6
      <4> QED
        BY <1>1, <1>2, <4>1, EdgeTimes
    <3> QED
      BY <1>6, <2>3, <3>1, <3>2 DEF Remembers
  <2> QED
    BY <1>2, <1>3, <1>4, <1>5, <1>7, <2>1, <2>3, <2>4 DEF FollowsContact
<1> QED
  BY <1>8, <1>9

LEMMA ButtonInitInv == ButtonInit => ButtonInv
<1> SUFFICES ASSUME ButtonInit PROVE ButtonInv
  OBVIOUS
<1>1. edges = <<>> /\ Len(edges) = 0 /\ DOMAIN edges = {}
  BY DEF ButtonInit
<1>2. Starts = {} /\ Bursts = 0
  BY <1>1, FS_EmptySet DEF Starts, Bursts
<1>3. ButtonTypeOK
  BY ButtonInitType
<1>4. ContactInv
  BY <1>1, <1>2, <1>3 DEF ContactInv, Increasing, Ranked
<1>5. FollowsContact
  <2>1. calls = <<>> /\ Len(calls) = 0 /\ 0 \div 2 = 0
    BY DEF ButtonInit
  <2>2. Remembers(0)
    BY DEF ButtonInit, Remembers
  <2>3. Alternates
    BY <1>2 DEF Alternates
  <2>4. \A m \in 1..Len(calls) : calls[m] = Hold(m)
    BY <2>1
  <2>5. Len(calls) = Bursts \div 2 /\ Len(calls) <= Bursts \div 2
    BY <1>2, <2>1
  <2>6. \A b \in {Bursts} : Remembers(b)
    BY <1>2, <2>2, Zenon
  <2> QED
    BY <2>3, <2>4, <2>5, <2>6 DEF FollowsContact
<1> QED
  BY <1>4, <1>5 DEF ButtonInv

\* A step that is not an edge leaves the contact alone.
LEMMA NoEdge ==
    ASSUME ButtonInv, ButtonTypeOK', UNCHANGED <<falling, rising, edges, calls>>,
           reading' => reading
    PROVE  ButtonInv'
<1>1. UNCHANGED <<Starts, Bursts>>
  BY DEF Starts, Bursts, StartsBurst
<1>2. \A i : UNCHANGED <<Rank(i), Start(i), BurstTime(i), Hold(i)>>
  BY DEF Starts, StartsBurst, Rank, Start, BurstTime, Hold
<1>3. ContactInv'
  BY <1>1, <1>2 DEF ButtonInv, ContactInv, Increasing, Ranked
<1>4. CleanContact' => CleanContact
  BY <1>1, <1>2 DEF CleanContact, InBurst, EndsBurst
<1>5. FollowsContact => FollowsContact'
  BY <1>1, <1>2 DEF FollowsContact, Alternates, Remembers
<1> QED
  BY <1>3, <1>4, <1>5 DEF ButtonInv

LEMMA ButtonInvariance == ButtonSpec => []ButtonInv
<1>1. ButtonInv /\ [ButtonNext]_buttonVars => ButtonInv'
  <2> SUFFICES ASSUME ButtonInv, [ButtonNext]_buttonVars PROVE ButtonInv'
    OBVIOUS
  <2>1. ButtonTypeOK'
    BY ButtonTypeStep DEF ButtonInv, ContactInv
  <2>2. ASSUME NEW t \in Time, FallingEdge(t) PROVE ButtonInv'
    <3>1. ContactInv'
      BY <2>1, <2>2, EdgeContact DEF ButtonInv, FallingEdge, Edge
    <3> QED
      BY <2>2, <3>1, FallingFollows DEF ButtonInv
  <2>3. ASSUME NEW t \in Time, NEW s \in PairStatus, RisingEdge(t, s)
        PROVE  ButtonInv'
    <3>1. ContactInv'
      BY <2>1, <2>3, EdgeContact DEF ButtonInv, RisingEdge, Edge
    <3> QED
      BY <2>3, <3>1, RisingFollows DEF ButtonInv
  <2>4. CASE Close
    BY <2>1, <2>4, NoEdge DEF Close
  <2>5. CASE UNCHANGED buttonVars
    BY <2>1, <2>5, NoEdge DEF buttonVars
  <2> QED
    BY <2>2, <2>3, <2>4, <2>5 DEF ButtonNext
<1> QED
  BY ButtonInitInv, <1>1, PTL DEF ButtonSpec

\* The holds are as many as the calls are at most, and the calls begin them.
LEMMA CallsAreHolds ==
    ASSUME ContactInv, FollowsContact
    PROVE  IsPrefix(calls, Holds) /\ (reading => calls = Holds)
<1>1. PICK n, h \in Nat : n = Len(calls) /\ h = Bursts \div 2
  BY StartsFinite DEF ContactInv, ButtonTypeOK
<1>2. /\ n <= h /\ \A m \in 1..n : calls[m] = Hold(m)
      /\ reading => n = h
  BY <1>1 DEF FollowsContact
<1>3. Holds = [m \in 1..h |-> Hold(m)]
  BY <1>1 DEF Holds, Hold, BurstTime
<1>4. Len(Holds) = h
  BY <1>1, <1>3
<1>5. calls = [m \in 1..n |-> calls[m]]
  BY <1>1, LenProperties DEF ContactInv, ButtonTypeOK
<1>6. reading => calls = Holds
  BY <1>2, <1>3, <1>5
<1>7. SubSeq(calls, 1, n) = SubSeq(Holds, 1, n)
  <2>1. \A m \in 1..n : calls[m] = Holds[m]
    BY <1>1, <1>2, <1>3
  <2> QED
    BY <1>1, <2>1
<1> QED
  BY <1>1, <1>2, <1>4, <1>6, <1>7 DEF IsPrefix

(* The fields of bounce keep their types, and only a press that began can   *)
(* have ended.                                                             *)
THEOREM ButtonTypeCorrect == ButtonSpec => []ButtonTypeOK
<1>1. ButtonInv => ButtonTypeOK
  BY DEF ButtonInv, ContactInv
<1> QED
  BY ButtonInvariance, <1>1, PTL

(* With a clean contact, handle-buttons calls the button's function once    *)
(* for every press, at its release and with the time it was held, for any   *)
(* number of edges and any Epsilon: what the two fields of bounce remember  *)
(* is enough.                                                              *)
THEOREM ButtonCalls == ButtonSpec => []OneCallPerPress
<1>1. ButtonInv => OneCallPerPress
  BY CallsAreHolds DEF ButtonInv, OneCallPerPress
<1> QED
  BY ButtonInvariance, <1>1, PTL

\* The time the press of call m began, and when the contact closed and opened.
HeldFrom(m) == calls[m].at - calls[m].delay
Closings    == {edges[i] : i \in {j \in DOMAIN edges : j % 2 = 1}}
Openings    == {edges[i] : i \in {j \in DOMAIN edges : j % 2 = 0}}

\* A call is for a hold of the contact, apart from the holds before it.
EachCallIsAHold ==
    \A m \in DOMAIN calls :
        /\ calls[m].delay > Epsilon
        /\ HeldFrom(m) \in Closings
        /\ calls[m].at \in Openings
        /\ \A n \in 1..(m - 1) : HeldFrom(m) - calls[n].at > Epsilon

\* The press that is under way will be such a call when it ends.
HoldInv ==
    /\ ButtonTypeOK
    /\ EachCallIsAHold
    /\ falling = NoTime => calls = <<>>
    /\ falling # NoTime => falling \in Closings
    /\ rising # NoTime => \A m \in DOMAIN calls : calls[m].at <= rising
    /\ falling # NoTime /\ rising = NoTime =>
          \A m \in DOMAIN calls : falling - calls[m].at > Epsilon

LEMMA EdgeKept ==
    ASSUME ButtonTypeOK, NEW t, Edge(t)
    PROVE  /\ Closings \subseteq Closings'
           /\ Openings \subseteq Openings'
           /\ ~Closed => t \in Closings'
           /\ Closed => t \in Openings'
<1> DEFINE n == Len(edges)
<1>1. /\ edges \in Seq(Time) /\ edges' = Append(edges, t) /\ t \in Time
      /\ n \in Nat
  BY DEF ButtonTypeOK, Edge
<1>2. DOMAIN edges = 1..n /\ DOMAIN edges' = 1..(n + 1)
  BY <1>1, AppendProperties
<1>3. edges'[n + 1] = t /\ \A i \in 1..n : edges'[i] = edges[i]
  BY <1>1, AppendProperties
<1>4. n + 1 \in DOMAIN edges' /\ 1..n \subseteq DOMAIN edges'
  BY <1>1, <1>2
<1>5. (n + 1) % 2 = IF n % 2 = 1 THEN 0 ELSE 1
  BY <1>1
<1>6. Closings \subseteq Closings' /\ Openings \subseteq Openings'
  BY <1>2, <1>3, <1>4 DEF Closings, Openings
<1>7. ~Closed => t \in Closings'
  BY <1>3, <1>4, <1>5 DEF Closed, Closings
<1>8. Closed => t \in Openings'
  BY <1>3, <1>4, <1>5 DEF Closed, Openings
<1> QED
  BY <1>6, <1>7, <1>8

LEMMA HoldStep == HoldInv /\ [ButtonNext]_buttonVars => HoldInv'
<1> SUFFICES ASSUME HoldInv, [ButtonNext]_buttonVars PROVE HoldInv'
  OBVIOUS
<1> USE LinkButtonAssumption DEF LinkButtonAssumption
<1>1. ButtonTypeOK /\ ButtonTypeOK'
  BY ButtonTypeStep DEF HoldInv
<1>2. /\ calls \in Seq(Call) /\ Len(calls) \in Nat
      /\ DOMAIN calls = 1..Len(calls)
      /\ \A m \in DOMAIN calls : /\ calls[m].at \in Time
                                 /\ calls[m].delay \in Time
  <2>1. calls \in Seq(Call)
    BY <1>1 DEF ButtonTypeOK
  <2>2. \A m \in DOMAIN calls : calls[m] \in Call
    BY <2>1
  <2>3. Len(calls) \in Nat /\ DOMAIN calls = 1..Len(calls)
    BY <2>1
  <2> QED
    BY <2>1, <2>2, <2>3 DEF Call
<1>3. \A i \in Time : i \in Int /\ i # NoTime
  BY DEF Time
<1>4. ASSUME NEW t \in Time, FallingEdge(t) PROVE HoldInv'
  <2>1. Edge(t) /\ ~Closed /\ calls' = calls
    BY <1>4 DEF FallingEdge, Edge
  <2>2. /\ Closings \subseteq Closings' /\ Openings \subseteq Openings'
        /\ t \in Closings'
    BY <1>1, <2>1, EdgeKept
  <2>3. EachCallIsAHold'
    BY <2>1, <2>2 DEF HoldInv, EachCallIsAHold, HeldFrom
  <2>4. CASE reading /\ StartsCycle(t)
    <3>1. falling' = t /\ rising' = NoTime
      BY <1>4, <2>4 DEF FallingEdge
    <3>2. \A m \in DOMAIN calls : t - calls[m].at > Epsilon
      <4>1. CASE falling = NoTime
        <5>1. DOMAIN calls = {}
          BY <4>1, <1>2 DEF HoldInv
        <5> QED
          BY <5>1
      <4>2. CASE falling # NoTime
        <5>1. rising # NoTime /\ rising \in Int /\ t - rising > Epsilon
          BY <1>1, <1>3, <2>4, <4>2 DEF StartsCycle, ButtonTypeOK, MaybeTime
        <5>2. \A m \in DOMAIN calls : calls[m].at <= rising
          BY <5>1 DEF HoldInv
        <5> QED
          BY <1>2, <1>3, <5>1, <5>2
      <4> QED
        BY <4>1, <4>2
    <3> QED
      BY <1>1, <1>3, <2>1, <2>2, <2>3, <3>1, <3>2 DEF HoldInv
  <2>5. CASE ~(reading /\ StartsCycle(t))
    <3>1. UNCHANGED <<falling, rising>>
      BY <1>4, <2>5 DEF FallingEdge
    <3> QED
      BY <1>1, <2>1, <2>2, <2>3, <3>1 DEF HoldInv
  <2> QED
    BY <2>4, <2>5
<1>5. ASSUME NEW t \in Time, NEW s \in PairStatus, RisingEdge(t, s)
      PROVE  HoldInv'
  <2>1. Edge(t) /\ Closed /\ falling' = falling
    BY <1>5 DEF RisingEdge, Edge
  <2>2. /\ Closings \subseteq Closings' /\ Openings \subseteq Openings'
        /\ t \in Openings'
    BY <1>1, <2>1, EdgeKept
  <2>3. CASE reading /\ EndsPress(t)
    <3> DEFINE last == Len(calls) + 1
               call == [at |-> t, delay |-> t - falling]
    <3>1. rising' = t /\ calls' = Append(calls, call)
      BY <1>5, <2>3 DEF RisingEdge
    <3>2. falling \in Int /\ falling # NoTime /\ t - falling > Epsilon
      BY <1>1, <1>3, <2>3 DEF EndsPress, ButtonTypeOK, MaybeTime
    <3>3. /\ DOMAIN calls' = 1..last
          /\ calls'[last] = call
          /\ \A m \in 1..(last - 1) : calls'[m] = calls[m]
      BY <1>2, <3>1, AppendProperties
    <3>4. calls'[last].at = t /\ calls'[last].delay = t - falling
      BY <3>3
    <3>5. calls'[last].at - calls'[last].delay = falling
      <4> HIDE DEF last
      <4> QED
        BY <1>3, <3>2, <3>4
    <3>6. \A m \in DOMAIN calls : falling - calls[m].at > Epsilon
      BY <2>3, <3>2 DEF HoldInv, EndsPress
    <3>7. falling \in Closings'
      BY <2>2, <3>2 DEF HoldInv
    <3>8. ASSUME NEW m \in 1..(last - 1)
          PROVE  /\ calls'[m].delay > Epsilon
                 /\ HeldFrom(m)' \in Closings'
                 /\ calls'[m].at \in Openings'
                 /\ \A n \in 1..(m - 1) : HeldFrom(m)' - calls'[n].at > Epsilon
      <4>1. m \in DOMAIN calls /\ calls'[m] = calls[m]
        BY <1>2, <3>3
      <4>2. \A n \in 1..(m - 1) : calls'[n] = calls[n]
        BY <1>2, <3>3
      <4>3. HeldFrom(m)' = HeldFrom(m)
        BY <4>1 DEF HeldFrom
      <4> QED
        BY <2>2, <4>1, <4>2, <4>3 DEF HoldInv, EachCallIsAHold
    <3>9. \A n \in 1..(last - 1) : calls'[n] = calls[n] /\ n \in DOMAIN calls
      BY <1>2, <3>3
    <3>10. EachCallIsAHold'
      <4> SUFFICES ASSUME NEW m \in 1..last
                   PROVE  /\ calls'[m].delay > Epsilon
                          /\ HeldFrom(m)' \in Closings'
                          /\ calls'[m].at \in Openings'
                          /\ \A n \in 1..(m - 1) :
                                HeldFrom(m)' - calls'[n].at > Epsilon
        BY <3>3 DEF EachCallIsAHold
      <4>1. CASE m = last
        <5>1. HeldFrom(m)' = falling
          BY <3>5, <4>1 DEF HeldFrom
        <5>2. \A n \in 1..(m - 1) : HeldFrom(m)' - calls'[n].at > Epsilon
          BY <3>6, <3>9, <4>1, <5>1
        <5> QED
          BY <2>2, <3>2, <3>4, <3>7, <4>1, <5>1, <5>2
      <4>2. CASE m # last
        <5>1. m \in 1..(last - 1)
          BY <1>2, <4>2
        <5> QED
          BY <3>8, <5>1
      <4> QED
        BY <4>1, <4>2
    <3>11. \A m \in DOMAIN calls' : calls'[m].at <= t
      <4> SUFFICES ASSUME NEW m \in 1..last PROVE calls'[m].at <= t
        BY <3>3
      <4>1. CASE m = last
        BY <1>3, <3>4, <4>1
      <4>2. CASE m # last
        <5>1. m \in DOMAIN calls /\ calls'[m] = calls[m]
          BY <1>2, <3>9, <4>2
        <5> QED
          BY <1>2, <1>3, <3>2, <3>6, <5>1
      <4> QED
        BY <4>1, <4>2
    <3> QED
      BY <1>1, <1>3, <2>1, <3>1, <3>2, <3>7, <3>10, <3>11 DEF HoldInv
  <2>4. CASE ~(reading /\ EndsPress(t))
    <3>1. UNCHANGED <<rising, calls>>
      BY <1>5, <2>4 DEF RisingEdge
    <3>2. EachCallIsAHold'
      BY <2>2, <3>1 DEF HoldInv, EachCallIsAHold, HeldFrom
    <3> QED
      BY <1>1, <2>1, <2>2, <3>1, <3>2 DEF HoldInv
  <2> QED
    BY <2>3, <2>4
<1>6. CASE UNCHANGED <<falling, rising, edges, calls>>
  BY <1>1, <1>6 DEF HoldInv, EachCallIsAHold, HeldFrom, Closings, Openings
<1> QED
  BY <1>4, <1>5, <1>6 DEF ButtonNext, buttonVars, Close

(* However dirty the contact, handle-buttons takes no bounce for a press:   *)
(* every call is for a time from a closing to an opening of the contact     *)
(* that is longer than Epsilon, and begins more than Epsilon after the end  *)
(* of every call before it.                                                *)
THEOREM ButtonHolds == ButtonSpec => []EachCallIsAHold
<1>1. ButtonInit => HoldInv
  BY ButtonInitType
     DEF ButtonInit, HoldInv, EachCallIsAHold
<1>2. HoldInv => EachCallIsAHold
  BY DEF HoldInv
<1> QED
  BY HoldStep, <1>1, <1>2, PTL DEF ButtonSpec
=============================================================================
