---------------------------- MODULE LinkButton ----------------------------
(***************************************************************************)
(* The link button: the loop of handle-buttons (gpio.clj) that turns the   *)
(* falling and rising edges of a bouncing contact into calls of the        *)
(* button's function with the time the button was held, and the choice     *)
(* that function (gpio/actions.clj) makes from that time.                  *)
(*                                                                         *)
(* The button is active low: an edge falls when the contact closes.  Edges *)
(* carry the kernel's time stamps, so how late the loop reads them does    *)
(* not matter, and an edge and its handling are one step.                  *)
(***************************************************************************)
EXTENDS Integers, Sequences, FiniteSets, SequencesExt

CONSTANTS
    Epsilon,       \* a signal that lasts no longer is a bounce
    UnpairDelay,   \* [:button-delay :unpair]
    NetworkDelay,  \* [:button-delay :network]
    MaxTime,       \* bound: the last time stamp
    NoTime         \* nil

ASSUME LinkButtonAssumption ==
    /\ Epsilon \in Nat
    /\ UnpairDelay \in Nat
    /\ NetworkDelay \in Nat
    /\ MaxTime \in Nat
    /\ NoTime \notin Int

VARIABLES
    falling, rising,  \* the two fields of bounce for this button
    reading,          \* the loop runs: running? is true and nothing was thrown
    edges,            \* history: the time stamps of the edges
    calls,            \* history: the calls of the button's function
    did               \* history: what the last call did

buttonVars == <<falling, rising, reading, edges, calls, did>>

Time       == 1..MaxTime
MaybeTime  == Time \cup {NoTime}
Call       == [at : Time, delay : Time]
PairStatus == {"unpaired", "pairing", "paired"}
Responses  == {"nothing", "network", "unpair", "pair"}

LastEdge == IF edges = <<>> THEN 0 ELSE Last(edges)
Closed   == Len(edges) % 2 = 1

(***************************************************************************)
(* The cond of :button/link.                                               *)
(***************************************************************************)
Response(delay, pair_status) ==
    CASE delay > NetworkDelay -> "network"
      [] delay <= NetworkDelay /\ delay > UnpairDelay
            /\ pair_status = "paired" -> "unpair"
      [] delay <= NetworkDelay /\ pair_status = "pairing" -> "pair"
      [] OTHER -> "nothing"

ButtonInit ==
    /\ falling = NoTime
    /\ rising = NoTime
    /\ reading = TRUE
    /\ edges = <<>>
    /\ calls = <<>>
    /\ did = "nothing"

(***************************************************************************)
(* An edge that starts a cycle: the first one, or one that comes later     *)
(* than a bounce of the release before it.                                 *)
(***************************************************************************)
StartsCycle(t) ==
    \/ falling = NoTime /\ rising = NoTime
    \/ falling # NoTime /\ rising # NoTime /\ t - rising > Epsilon

\* Mutant: a bounce of exactly Epsilon ends the press.
EndsPressOffByOne(t) == falling # NoTime /\ rising = NoTime /\ t - falling >= Epsilon

EndsPress(t) == falling # NoTime /\ rising = NoTime /\ t - falling > Epsilon

\* Mutant: the fields of bounce are swapped.
FallingEdgeSwapped(t) ==
    /\ ~Closed
    /\ t > LastEdge
    /\ edges' = Append(edges, t)
    /\ IF reading /\ StartsCycle(t)
       THEN rising' = t /\ falling' = NoTime
       ELSE UNCHANGED <<falling, rising>>
    /\ UNCHANGED <<reading, calls, did>>

FallingEdge(t) ==
    /\ ~Closed
    /\ t > LastEdge
    /\ edges' = Append(edges, t)
    /\ IF reading /\ StartsCycle(t)
       THEN falling' = t /\ rising' = NoTime
       ELSE UNCHANGED <<falling, rising>>
    /\ UNCHANGED <<reading, calls, did>>

\* The button's function runs on this thread.  When it throws (an HTTP or a
\* shell call may), the loop ends for good.
RisingEdge(t, pair_status) ==
    /\ Closed
    /\ t > LastEdge
    /\ edges' = Append(edges, t)
    /\ IF reading /\ EndsPress(t)
       THEN /\ rising' = t
            /\ calls' = Append(calls, [at |-> t, delay |-> t - falling])
            /\ did' = Response(t - falling, pair_status)
            /\ reading' \in {TRUE, did' = "nothing"}
       ELSE UNCHANGED <<rising, calls, did, reading>>
    /\ UNCHANGED falling

\* close! when the GPIO component stops.
Close ==
    /\ reading
    /\ reading' = FALSE
    /\ UNCHANGED <<falling, rising, edges, calls, did>>

ButtonNext == \/ \E t \in Time : FallingEdge(t)
              \/ \E t \in Time, s \in PairStatus : RisingEdge(t, s)
              \/ Close

ButtonSpec == ButtonInit /\ [][ButtonNext]_buttonVars

----------------------------------------------------------------------------
(* The fields of bounce are time stamps or nil, and only a press that       *)
(* began can have ended.                                                   *)
ButtonTypeOK ==
    /\ falling \in MaybeTime
    /\ rising \in MaybeTime
    /\ rising # NoTime => falling # NoTime
    /\ reading \in BOOLEAN
    /\ edges \in Seq(Time)
    /\ calls \in Seq(Call)
    /\ did \in Responses

(***************************************************************************)
(* A reference reading of the contact.  A burst is a maximal run of edges  *)
(* no more than Epsilon apart.  The contact is clean when every burst is a *)
(* press or a release with its bounces: it takes no longer than Epsilon    *)
(* and, once over, leaves the contact on the other side.  The presses are  *)
(* then the bursts at odd places, each held until the burst that follows.  *)
(***************************************************************************)
StartsBurst(i) == i = 1 \/ edges[i] - edges[i - 1] > Epsilon

\* The edges that start a burst, how many of them there are up to an edge, and
\* the one that starts the k-th burst.
Starts   == {i \in DOMAIN edges : StartsBurst(i)}
Bursts   == Cardinality(Starts)
Rank(i)  == Cardinality({j \in Starts : j <= i})
Start(k) == CHOOSE i \in Starts : Rank(i) = k

\* Edge i belongs to the burst that f starts, and is the last of it.
InBurst(f, i) == f <= i /\ Rank(f) = Rank(i)
EndsBurst(i)  == i + 1 \in Starts

CleanContact ==
    \A f \in Starts, i \in DOMAIN edges :
        InBurst(f, i) => /\ edges[i] - edges[f] <= Epsilon
                         /\ EndsBurst(i) => (i - f) % 2 = 0

Holds ==
    [n \in 1..(Bursts \div 2) |->
        LET pressed  == edges[Start(2 * n - 1)]
            released == edges[Start(2 * n)]
        IN  [at |-> released, delay |-> released - pressed]]

(* With a clean contact, the function of the button is called once for every*)
(* press, at its release, with the time it was held, however the contact    *)
(* bounces; a loop that has ended misses presses but invents none.          *)
OneCallPerPress ==
    CleanContact => /\ IsPrefix(calls, Holds)
                    /\ reading => calls = Holds
=============================================================================
