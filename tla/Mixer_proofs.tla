---------------------------- MODULE Mixer_proofs ----------------------------
(***************************************************************************)
(* What the volumes and filters of the bridge keep, for every width of a   *)
(* number and whatever the operator types.  The properties are inductive   *)
(* as they stand, together with the types.                                 *)
(***************************************************************************)
EXTENDS Mixer, TLAPS

Inv == /\ TypeOK
       /\ ProductIsHeard
       /\ BarShowsVolume
       /\ SilentAfterExit
       /\ FiltersAsSaid

\* What is left of a product in a register fits it.
LEMMA RemainderFits ==
    ASSUME NEW m \in Numbers, NEW n \in Numbers
    PROVE  (m * n) % Word \in Numbers
<1>1. Word \in Nat /\ Word > 0
  BY MixerAssumption DEF MixerAssumption
<1>2. m \in Nat /\ n \in Nat
  BY <1>1 DEF Numbers
<1>3. m * n \in Nat
  BY <1>2
<1>4. \A p \in Nat, w \in Nat : w > 0 => p % w \in 0..(w - 1)
  OBVIOUS
<1> QED BY <1>1, <1>3, <1>4 DEF Numbers

\* A product is the same either way round, and nothing times a volume is
\* nothing.
LEMMA Products ==
    ASSUME NEW m \in Numbers, NEW n \in Numbers
    PROVE  (m * n) % Word = (n * m) % Word /\ (m * 0) % Word = 0
<1>1. Word \in Nat /\ Word > 0
  BY MixerAssumption DEF MixerAssumption
<1>2. m \in Nat /\ n \in Nat
  BY <1>1 DEF Numbers
<1>3. m * n = n * m /\ m * 0 = 0
  BY <1>2
<1>4. 0 % Word = 0
  BY <1>1
<1> QED BY <1>3, <1>4

\* No LED is lit for a volume of 0, and the numbers of a start are numbers.
LEMMA Silence == Bar(0) = {}
BY DEF Bar, Steps

LEMMA StartNumbers ==
    0 \in Numbers /\ 4 \in Numbers /\ 30 \in Numbers /\ Gains \subseteq Numbers
BY MixerAssumption DEF MixerAssumption, Numbers

LEMMA SignedIsInt == ASSUME NEW n \in Numbers PROVE Signed(n) \in Int
BY MixerAssumption DEF MixerAssumption, Numbers, Signed

LEMMA InitInv == Init => Inv
<1> SUFFICES ASSUME Init PROVE Inv
  OBVIOUS
<1>1. TypeOK
  <2>1. up \in BOOLEAN /\ tuned \in BOOLEAN /\ left \in BOOLEAN
    BY DEF Init
  <2>2. /\ gain \in Numbers /\ v_global \in Numbers /\ globalVol \in Int
        /\ own \in [Channels -> Numbers] /\ volume \in [Channels -> Numbers]
    BY StartNumbers DEF Init
  <2> QED BY <2>1, <2>2 DEF Init, TypeOK
<1>2. ProductIsHeard /\ BarShowsVolume /\ SilentAfterExit /\ FiltersAsSaid
  BY DEF Init, ProductIsHeard, BarShowsVolume, SilentAfterExit, FiltersAsSaid
<1> QED BY <1>1, <1>2 DEF Inv

LEMMA StartKeeps == Inv /\ ui_init => Inv'
<1> SUFFICES ASSUME Inv, ui_init PROVE Inv'
  OBVIOUS
<1>1. TypeOK'
  <2>1. up' \in BOOLEAN /\ tuned' \in BOOLEAN /\ left' \in BOOLEAN
    BY DEF Inv, TypeOK, ui_init
  <2>2. /\ gain' \in Numbers /\ v_global' \in Numbers /\ globalVol' \in Int
        /\ own' \in [Channels -> Numbers] /\ volume' \in [Channels -> Numbers]
    BY StartNumbers DEF ui_init
  <2> QED BY <2>1, <2>2 DEF Inv, TypeOK, ui_init
<1>2. ProductIsHeard' /\ BarShowsVolume' /\ SilentAfterExit'
  BY DEF ui_init, ProductIsHeard, BarShowsVolume, SilentAfterExit
<1>3. FiltersAsSaid'
  BY DEF ui_init, FiltersAsSaid
<1> QED BY <1>1, <1>2, <1>3 DEF Inv

LEMMA VolKeeps == ASSUME Inv, NEW g \in Gains \cup {gain}, Vol(g) PROVE Inv'
<1>1. g \in Numbers /\ gain' = g
  BY StartNumbers DEF Inv, TypeOK, Vol, Read
<1>2. own \in [Channels -> Numbers]
  BY DEF Inv, TypeOK
<1>3. volume' = [c \in Channels |-> (own[c] * g) % Word]
  BY DEF Vol, set_volume
<1>4. \A c \in Channels : (own[c] * g) % Word \in Numbers
  BY <1>1, <1>2, RemainderFits
<1>5. leds' = Bar(Signed(g))
  BY DEF Vol, update_leds
<1>6. TypeOK'
  <2>1. volume' \in [Channels -> Numbers]
    BY <1>3, <1>4
  <2>2. leds' \subseteq Steps
    BY <1>5 DEF Bar
  <2>3. v_global' \in Numbers /\ globalVol' \in Int
    BY <1>1, SignedIsInt DEF Vol
  <2> QED BY <1>1, <2>1, <2>2, <2>3 DEF Inv, TypeOK, Vol, filters
<1>7. ProductIsHeard'
  <2>1. \A c \in Channels : (own[c] * g) % Word = (g * own[c]) % Word
    BY <1>1, <1>2, Products
  <2>2. v_global' = g /\ own' = own
    BY DEF Vol
  <2> QED BY <1>3, <2>1, <2>2 DEF ProductIsHeard
<1>8. BarShowsVolume'
  BY <1>5 DEF Vol, BarShowsVolume
<1>9. SilentAfterExit' /\ FiltersAsSaid'
  BY DEF Inv, Vol, SilentAfterExit, FiltersAsSaid, filters
<1> QED BY <1>6, <1>7, <1>8, <1>9 DEF Inv

LEMMA FaderKeeps ==
    ASSUME Inv, NEW c \in Channels, NEW g \in Gains \cup {gain}, Fader(c, g)
    PROVE  Inv'
<1>1. g \in Numbers /\ gain' = g
  BY StartNumbers DEF Inv, TypeOK, Fader, Read
<1>2. (v_global * g) % Word \in Numbers
  BY <1>1, RemainderFits DEF Inv, TypeOK
<1>3. volume \in [Channels -> Numbers] /\ own \in [Channels -> Numbers]
  BY DEF Inv, TypeOK
<1>4. /\ volume' = [volume EXCEPT ![c] = (v_global * g) % Word]
      /\ own' = [own EXCEPT ![c] = g]
      /\ UNCHANGED <<up, v_global, globalVol, filter_on, filter, commanded,
                     leds, tuned, left>>
  BY DEF Fader, filters
<1>5. TypeOK'
  BY <1>1, <1>2, <1>4 DEF Inv, TypeOK
<1>6. ProductIsHeard'
  <2> SUFFICES ASSUME up, tuned, NEW d \in Channels
               PROVE  volume'[d] = (v_global * own'[d]) % Word
    BY <1>4 DEF ProductIsHeard
  <2>1. CASE d = c
    BY <1>3, <1>4, <2>1
  <2>2. CASE d # c
    <3>1. volume'[d] = volume[d] /\ own'[d] = own[d]
      BY <1>3, <1>4, <2>2
    <3> QED BY <3>1 DEF Inv, ProductIsHeard
  <2> QED BY <2>1, <2>2
<1>7. BarShowsVolume' /\ FiltersAsSaid'
  BY <1>4 DEF Inv, BarShowsVolume, FiltersAsSaid
<1>8. SilentAfterExit'
  BY <1>4 DEF Fader, SilentAfterExit
<1> QED BY <1>5, <1>6, <1>7, <1>8 DEF Inv

LEMMA FilterKeeps ==
    ASSUME Inv, NEW f \in Filters, NEW on \in BOOLEAN, Filter(f, on)
    PROVE  Inv'
<1>1. /\ filter' = IF on THEN filter \cup {f} ELSE filter \ {f}
      /\ filter_on' = IF on THEN filter_on \cup {f} ELSE filter_on \ {f}
      /\ commanded' = commanded \cup {f}
      /\ UNCHANGED <<up, gain, v_global, own, globalVol, volume, leds, tuned, left>>
      /\ up
  BY DEF Filter, set_filter_type, console
<1>2. TypeOK'
  BY <1>1 DEF Inv, TypeOK
<1>3. FiltersAsSaid'
  <2>1. filter \cap commanded = filter_on \cap commanded
    BY <1>1 DEF Inv, FiltersAsSaid
  <2>2. CASE on
    BY <1>1, <2>1, <2>2 DEF FiltersAsSaid
  <2>3. CASE ~on
    BY <1>1, <2>1, <2>3 DEF FiltersAsSaid
  <2> QED BY <2>2, <2>3
<1>4. ProductIsHeard' /\ BarShowsVolume' /\ SilentAfterExit'
  BY <1>1 DEF Inv, ProductIsHeard, BarShowsVolume, SilentAfterExit
<1> QED BY <1>2, <1>3, <1>4 DEF Inv

LEMMA ExitKeeps == Inv /\ Exit => Inv'
<1> SUFFICES ASSUME Inv, Exit PROVE Inv'
  OBVIOUS
<1>1. own \in [Channels -> Numbers] /\ 0 \in Numbers
  BY StartNumbers DEF Inv, TypeOK
<1>2. volume' = [c \in Channels |-> (own[c] * 0) % Word]
  BY DEF Exit, set_volume
<1>3. \A c \in Channels : (own[c] * 0) % Word = 0
  BY <1>1, Products
<1>4. volume' = [c \in Channels |-> 0]
  BY <1>2, <1>3
<1>5. leds' = {}
  BY Silence DEF Exit, update_leds
<1>6. TypeOK'
  <2>1. up' \in BOOLEAN /\ tuned' \in BOOLEAN /\ left' \in BOOLEAN
    BY DEF Inv, TypeOK, Exit
  <2>2. /\ gain' \in Numbers /\ v_global' \in Numbers /\ globalVol' \in Int
        /\ own' \in [Channels -> Numbers] /\ volume' \in [Channels -> Numbers]
    BY <1>1, <1>4 DEF Inv, TypeOK, Exit
  <2> QED BY <1>5, <2>1, <2>2 DEF Inv, TypeOK, Exit, filters
<1>7. SilentAfterExit'
  BY <1>4, <1>5 DEF SilentAfterExit
<1>8. ProductIsHeard' /\ BarShowsVolume' /\ FiltersAsSaid'
  BY DEF Exit, ProductIsHeard, BarShowsVolume, FiltersAsSaid
<1> QED BY <1>6, <1>7, <1>8 DEF Inv

LEMMA KilledKeeps == Inv /\ Killed => Inv'
BY DEF Inv, TypeOK, ProductIsHeard, BarShowsVolume, SilentAfterExit,
       FiltersAsSaid, Killed, console, filters

LEMMA StutterKeeps == Inv /\ UNCHANGED vars => Inv'
BY DEF Inv, TypeOK, ProductIsHeard, BarShowsVolume, SilentAfterExit,
       FiltersAsSaid, vars, console, filters

LEMMA Invariance == Spec => []Inv
<1>1. Inv /\ [Next]_vars => Inv'
  BY StartKeeps, VolKeeps, FaderKeeps, FilterKeeps, ExitKeeps, KilledKeeps,
     StutterKeeps DEF Next
<1> QED BY InitInv, <1>1, PTL DEF Spec

(* Numbers and registers stay within their width: a product is cut before  *)
(* it is written (volume_control.c).                                       *)
THEOREM TypeCorrect == Spec => []TypeOK
<1>1. Inv => TypeOK
  BY DEF Inv
<1> QED BY Invariance, <1>1, PTL

(* From the first global volume of a run on, each register is the product  *)
(* of two volumes, whatever was typed (ui_control.c:321).                  *)
THEOREM ProductHeard == Spec => []ProductIsHeard
<1>1. Inv => ProductIsHeard
  BY DEF Inv
<1> QED BY Invariance, <1>1, PTL

(* From then on the LED bar shows the global volume (ui_control.c:2995).   *)
THEOREM BarShown == Spec => []BarShowsVolume
<1>1. Inv => BarShowsVolume
  BY DEF Inv
<1> QED BY Invariance, <1>1, PTL

(* After exit all is silent and dark (ui_control.c:2393).                  *)
THEOREM Silent == Spec => []SilentAfterExit
<1>1. Inv => SilentAfterExit
  BY DEF Inv
<1> QED BY Invariance, <1>1, PTL

(* The cores do with a filter of this run what the program says of it      *)
(* (filter_control.c:54).                                                  *)
THEOREM Filtered == Spec => []FiltersAsSaid
<1>1. Inv => FiltersAsSaid
  BY DEF Inv
<1> QED BY Invariance, <1>1, PTL
=============================================================================
