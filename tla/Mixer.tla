-------------------------------- MODULE Mixer --------------------------------
(***************************************************************************)
(* The volumes and filters of the bridge program (bp7): the commands vol,  *)
(* vll, vlr, netvoll, netvolr, the twelve filter commands and exit of its  *)
(* console (ui_control.c), the registers of the volume and filter cores,   *)
(* and the LED bar.                                                        *)
(*                                                                         *)
(* One thread reads the console, and the volumes of a run live in its      *)
(* memory, while the registers survive the program.  A number that is      *)
(* missing leaves the variable gain as the last command left it; a number  *)
(* and a product are 32 bits wide (Word stands for 2^32).  The menu on the *)
(* display only repeats what a command was given and is left out.          *)
(***************************************************************************)
EXTENDS Integers

CONSTANTS
    Gains,  \* the numbers the operator types
    Word    \* numbers wrap at this one

ASSUME MixerAssumption ==
    /\ Word \in Nat /\ Word > 30
    /\ Gains \subseteq 0..(Word - 1)

VARIABLES
    up,          \* the program reads its console
    gain,        \* the local variable the volume commands share
    v_global,    \* params: the global volume
    own,         \* params: the volume of each channel
    globalVol,   \* the volume the LED bar shows, a signed number
    volume,      \* the registers of the two volume cores
    filter_on,   \* params: the filters that are on
    filter,      \* the filter cores: the filters that are on
    leds,        \* the LEDs of the bar that are lit, by their threshold
    tuned,       \* history: the global volume was set in this run
    commanded,   \* history: the filters set in this run
    left         \* history: the last run ended with the command exit

console  == <<gain, v_global, own, globalVol>>
filters  == <<filter_on, filter, commanded>>
vars     == <<up, console, volume, filters, leds, tuned, left>>

\* vl_lpbk and vr_lpbk are the two registers of the first volume core,
\* vl_net and vr_net those of the second.
Channels == {"vl_lpbk", "vr_lpbk", "vl_net", "vr_net"}

\* High, band and low pass of the loopback and of the network core.
Filters == {"h_lpbk", "b_lpbk", "l_lpbk", "h_net", "b_net", "l_net"}

\* An unsigned number read as a signed one.
Signed(n) == IF 2 * n >= Word THEN n - Word ELSE n

Steps  == {2, 4, 6, 8, 10, 12, 14, 16}
Bar(n) == {s \in Steps : n >= s}

\* Mutant: the comparison leaves out the threshold itself.
update_leds_above(n) == leds' = {s \in Steps : n > s}

update_leds(n) == leds' = Bar(n)

\* Mutant: the product keeps all its bits.
set_volume_wide(g) == volume' = [c \in Channels |-> own[c] * g]

set_volume(g) == volume' = [c \in Channels |-> (own[c] * g) % Word]

\* The number after a command, or the old one when it is missing.
Read(g) == g \in Gains \cup {gain} /\ gain' = g

Init ==
    /\ up = FALSE
    /\ gain = 0 /\ v_global = 0 /\ globalVol = 0
    /\ own = [c \in Channels |-> 0]
    /\ volume = [c \in Channels |-> 0]
    /\ filter_on = {} /\ filter = {} /\ commanded = {}
    /\ leds = {}
    /\ tuned = FALSE
    /\ left = FALSE

----------------------------------------------------------------------------
\* Mutant: the LED bar is set up for the volume, and the registers are not.
ui_init_bar ==
    /\ ~up
    /\ up' = TRUE
    /\ gain' = 0 /\ v_global' = 4 /\ globalVol' = 4
    /\ own' = [c \in Channels |-> 30]
    /\ volume' = [c \in Channels |-> 30]
    /\ filter_on' = {} /\ commanded' = {}
    /\ leds' = Bar(4)
    /\ tuned' = TRUE
    /\ UNCHANGED <<filter, left>>

\* The end of ui_init.  The registers get the volume of their channel without
\* the global one.  Making the LEDs outputs turns them off (external), and
\* nothing lights them.  The filters stay as they are.
ui_init ==
    /\ ~up
    /\ up' = TRUE
    /\ gain' = 0 /\ v_global' = 4 /\ globalVol' = 4
    /\ own' = [c \in Channels |-> 30]
    /\ volume' = [c \in Channels |-> 30]
    /\ filter_on' = {} /\ commanded' = {}
    /\ leds' = {}
    /\ tuned' = FALSE
    /\ UNCHANGED <<filter, left>>

Vol(g) ==
    /\ up
    /\ Read(g)
    /\ v_global' = g
    /\ globalVol' = Signed(g)
    /\ set_volume(g)
    /\ update_leds(Signed(g))
    /\ tuned' = TRUE
    /\ UNCHANGED <<up, own, filters, left>>

\* Mutant: the register gets the volume of the channel alone.
FaderAlone(c, g) ==
    /\ up
    /\ Read(g)
    /\ volume' = [volume EXCEPT ![c] = g]
    /\ own' = [own EXCEPT ![c] = g]
    /\ UNCHANGED <<up, v_global, globalVol, filters, leds, tuned, left>>

\* vll, vlr, netvoll and netvolr.
Fader(c, g) ==
    /\ up
    /\ Read(g)
    /\ volume' = [volume EXCEPT ![c] = (v_global * g) % Word]
    /\ own' = [own EXCEPT ![c] = g]
    /\ UNCHANGED <<up, v_global, globalVol, filters, leds, tuned, left>>

\* Mutant: the core of the loopback is told of a filter of the network.
set_filter_type_lpbk(f, on) ==
    LET g == IF f = "h_net" THEN "h_lpbk" ELSE f
    IN filter' = IF on THEN filter \cup {g} ELSE filter \ {g}

set_filter_type(f, on) == filter' = IF on THEN filter \cup {f} ELSE filter \ {f}

\* lfhe, lfhd, lfbe, lfbd, lfle, lfld and the same for the network.
Filter(f, on) ==
    /\ up
    /\ set_filter_type(f, on)
    /\ filter_on' = IF on THEN filter_on \cup {f} ELSE filter_on \ {f}
    /\ commanded' = commanded \cup {f}
    /\ UNCHANGED <<up, console, volume, leds, tuned, left>>

\* Mutant: the variable is not cleared, so the volumes stay.
ExitLoud ==
    /\ up
    /\ globalVol' = Signed(gain)
    /\ set_volume(gain)
    /\ update_leds(Signed(gain))
    /\ up' = FALSE /\ left' = TRUE
    /\ UNCHANGED <<gain, v_global, own, filters, tuned>>

\* exit: silence, and the end of the program.
Exit ==
    /\ up
    /\ gain' = 0
    /\ globalVol' = 0
    /\ set_volume(0)
    /\ update_leds(0)
    /\ up' = FALSE /\ left' = TRUE
    /\ UNCHANGED <<v_global, own, filters, tuned>>

\* The program ends without the command: the registers stay as they are.
Killed ==
    /\ up
    /\ up' = FALSE /\ left' = FALSE
    /\ UNCHANGED <<console, volume, filters, leds, tuned>>

Next ==
    \/ ui_init
    \/ \E g \in Gains \cup {gain} : Vol(g)
    \/ \E c \in Channels, g \in Gains \cup {gain} : Fader(c, g)
    \/ \E f \in Filters, on \in BOOLEAN : Filter(f, on)
    \/ Exit
    \/ Killed

Spec == Init /\ [][Next]_vars

----------------------------------------------------------------------------
Numbers == 0..(Word - 1)

\* Type invariant: volumes and registers stay within their width.
TypeOK ==
    /\ up \in BOOLEAN /\ tuned \in BOOLEAN /\ left \in BOOLEAN
    /\ gain \in Numbers /\ v_global \in Numbers
    /\ globalVol \in Int
    /\ own \in [Channels -> Numbers]
    /\ volume \in [Channels -> Numbers]
    /\ filter_on \subseteq Filters /\ filter \subseteq Filters
    /\ commanded \subseteq Filters
    /\ leds \subseteq Steps

\* From the first global volume of a run on, what each channel plays at is the
\* product of its own volume and the global one, in whatever order the five
\* commands come and however often a number is missing.  (Until then ui_init
\* has left 30 in the registers for a product of 4 and 30.)
ProductIsHeard ==
    up /\ tuned => \A c \in Channels : volume[c] = (v_global * own[c]) % Word

\* From then on the LED bar shows the global volume; a volume of 2^31 and
\* more, or a negative one, shows as none.
BarShowsVolume == up /\ tuned => leds = Bar(Signed(v_global))

\* After exit all is silent and dark until the program is started again.
SilentAfterExit ==
    ~up /\ left => leds = {} /\ \A c \in Channels : volume[c] = 0

\* A filter that was set in this run is on exactly when the program says so.
\* (A run begins by saying that all are off, and the cores keep them on.)
FiltersAsSaid == up => filter \cap commanded = filter_on \cap commanded
=============================================================================
