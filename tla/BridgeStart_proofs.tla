------------------------- MODULE BridgeStart_proofs -------------------------
(***************************************************************************)
(* What a start of the bridge program leaves behind, for any hosts,        *)
(* addresses and routing tables, any cores that may fail and any number of *)
(* strange frames.  The argument goes along the steps of the start: what a *)
(* step has done stays done until the program ends.                        *)
(***************************************************************************)
EXTENDS BridgeStart, SequenceTheorems, TLAPS

Frames    == Hosts \cup {None}
Eths      == {"eth0", "eth1"}

\* The steps that follow one, down to the console.
AfterSync   == {"run", "console"}
AfterFinish == AfterSync \cup {"sync"}
Arped       == AfterFinish \cup {"finish"}
AfterWrite  == Arped \cup {"arping", "send", "wait", "entry"}
AfterSwitch == AfterWrite \cup {"write"}
AfterLocal  == AfterSwitch \cup {"switch"}
AfterMask   == AfterLocal \cup {"local"}
AfterMac    == AfterMask \cup {"mask"}
AfterPll    == AfterMac \cup {"gpios", "gateway", "mac"}
AfterReset  == AfterPll \cup {"pll"}

LEMMA Lengths ==
    /\ Len(Cores) = 13 /\ Len(Fields) = 6
    /\ DOMAIN Cores = 1..13 /\ DOMAIN Fields = 1..6
BY DEF Cores, Fields

LEMMA FieldsAre ==
    /\ \A i \in 1..6 : Fields[i] \in Registers \cup {"mac_high"}
    /\ \A f \in Registers \cup {"mac_high"} : \E i \in 1..6 : Fields[i] = f
BY DEF Fields, Registers

\* Clearing the lowest bit leaves a word a word.
LEMMA EvenWords == \A w \in Nat : Even(w) \in Nat
BY DEF Even

\* A routing table yields one of its gateways, or none.
LEMMA Routes == \A table \in Tables : parseRoutes(table) \in Frames
<1> SUFFICES ASSUME NEW table \in Tables PROVE parseRoutes(table) \in Frames
  OBVIOUS
<1>1. table \in Seq(Hosts)
  BY BridgeStartAssumption DEF BridgeStartAssumption
<1>2. table # <<>> => table[Len(table)] \in Hosts
  BY <1>1
<1> QED BY <1>2 DEF parseRoutes, Frames

----------------------------------------------------------------------------
(* Types, and the socket: it holds nothing when it is closed.              *)
Open == step \in {"send", "wait", "entry"}

TypeInv ==
    /\ TypeOK
    /\ step \notin {"map", "write"} => next = 1
    /\ ~Open => queue = <<>> /\ ~asked

LEMMA EndKeepsTypes == TypeInv /\ End => TypeInv'
<1> SUFFICES ASSUME TypeInv, End PROVE TypeInv'
  OBVIOUS
<1>1. 1 \in 1..Len(Cores) /\ 0 \in 0..MaxNoise /\ <<>> \in Seq(Hosts \cup {None})
  BY Lengths, BridgeStartAssumption DEF BridgeStartAssumption
<1>2. found' \in [{"mac", "local", "mask", "gateway"} -> Values]
  BY DEF End, Nothing, Values
<1>3. asked' \in BOOLEAN /\ lost' \in BOOLEAN /\ strange' \in BOOLEAN
      /\ blind' \in BOOLEAN
  BY DEF End
<1> QED BY <1>1, <1>2, <1>3 DEF TypeInv, TypeOK, End, Go, Off, Open, chip, registers

\* A step of the wire, which moves nothing but the socket and the histories.
LEMMA WireKeepsTypes ==
    ASSUME TypeInv,
           UNCHANGED <<step, memory, registers, arp, chip, eth1, blind>>,
           queue' \in Seq(Frames), asked' \in BOOLEAN, noise' \in 0..MaxNoise,
           lost' \in BOOLEAN, strange' \in BOOLEAN,
           step = "entry" => queue' # <<>>,
           ~Open => queue' = <<>> /\ ~asked'
    PROVE  TypeInv'
<1>1. /\ step' = step /\ next' = next /\ dest' = dest /\ unmapped' = unmapped
      /\ found' = found /\ mac_high' = mac_high /\ reg' = reg /\ arp' = arp
      /\ codec' = codec /\ pll' = pll /\ eth1' = eth1 /\ blind' = blind
  BY DEF memory, chip, registers
<1>2. TypeOK'
  <2> HIDE DEF Values, Open
  <2>1. queue' \in Seq(Hosts \cup {None})
    BY DEF Frames
  <2>2. /\ step' \in {Off, "map", "reset", "pll", "gpios", "gateway", "mac", "mask",
                     "local", "switch", "write", "arping", "send", "wait", "entry",
                     "finish", "sync", "run", "console"}
        /\ next' \in 1..Len(Cores) /\ (step' = "write" => next' \in 1..Len(Fields))
        /\ dest' \in Hosts \cup {None}
        /\ unmapped' \subseteq {Cores[i] : i \in DOMAIN Cores}
    BY <1>1, Zenon DEF TypeInv, TypeOK
  <2>3. /\ found' \in [{"mac", "local", "mask", "gateway"} -> Values]
        /\ mac_high' \in Nat
        /\ reg' \in [Registers -> Values]
        /\ arp' \in [ip : Hosts \cup {None}, mac : Hosts \cup {None}]
    BY <1>1, Zenon DEF TypeInv, TypeOK
  <2>4. /\ codec' \in BOOLEAN /\ pll' \in BOOLEAN
        /\ eth1' \in Addresses \cup {None}
        /\ (step' = "entry" => queue' # <<>>)
        /\ blind' \in BOOLEAN
    BY <1>1, Zenon DEF TypeInv, TypeOK
  <2> QED BY <2>1, <2>2, <2>3, <2>4, Zenon DEF TypeOK
<1>3. Open' = Open
  BY <1>1 DEF Open
<1> QED BY <1>1, <1>2, <1>3 DEF TypeInv

----------------------------------------------------------------------------
(* What a start has found: the MAC of an interface, and the mask and the   *)
(* address of eth1 if it had one when they were looked for.                *)
FoundInv ==
    /\ step \in AfterMac => found.mac \in Eths
    /\ step \in AfterMask /\ ~blind => found.mask = Mask
    /\ step \in AfterLocal /\ ~blind => found.local \in Addresses

LEMMA EndKeepsFound == End => FoundInv'
BY DEF End, Go, Off, FoundInv, AfterMac, AfterMask, AfterLocal, AfterSwitch,
       AfterWrite, Arped, AfterFinish, AfterSync

LEMMA StepKeepsFound == TypeInv /\ FoundInv /\ [Next]_vars => FoundInv'
<1> SUFFICES ASSUME TypeInv, FoundInv, [Next]_vars PROVE FoundInv'
  OBVIOUS
<1> USE DEF FoundInv, Go, Off, AfterMac, AfterMask, AfterLocal, AfterSwitch,
            AfterWrite, Arped, AfterFinish, AfterSync, Eths
<1>0. found \in [{"mac", "local", "mask", "gateway"} -> Values]
  BY DEF TypeInv, TypeOK
<1>1. CASE End
  BY <1>1, EndKeepsFound
<1>2. CASE getGateway /\ ~End
  BY <1>2 DEF getGateway, Fails, Finds
<1>3. CASE getMacAddress /\ ~End
  BY <1>0, <1>3 DEF getMacAddress, Fails, Finds
<1>4. CASE getNetMask
  BY <1>0, <1>4 DEF getNetMask, Ask, Finds
<1>5. CASE getLocalIP
  <2>1. eth1 # None => eth1 \in Addresses
    BY DEF TypeInv, TypeOK
  <2> QED BY <1>0, <1>5, <2>1 DEF getLocalIP, Ask, Finds
<1>6. CASE /\ UNCHANGED <<found, blind>>
           /\ \/ step' = step
              \/ step \notin AfterMac \cup {"mac"} /\ step' \notin AfterMac
              \/ step \in AfterLocal
  BY <1>6
<1>7. CASE Go("gateway") /\ UNCHANGED <<found, blind>>
  BY <1>7
<1> QED
  BY <1>1, <1>2, <1>3, <1>4, <1>5, <1>6, <1>7
     DEF Next, Program, Discovery, Arping, main, map_device, Crash,
         reset_adau1761, init_adau1761, init_gpios, Arguments, WriteRegister,
         NoTarget, get_if_info, bind_arp, send_arp, NoRequest, SkipFrame,
         read_arp, write_arp_mac, Finish, set_sync_off, ui_run, Lock, Strdip,
         ui_exit, Renumber, Reply, Lose, Noise, Listening, Fails, vars, memory,
         history

----------------------------------------------------------------------------
(* Types.                                                                  *)
LEMMA StepKeepsTypes == TypeInv /\ FoundInv /\ [Next]_vars => TypeInv'
<1> SUFFICES ASSUME TypeInv, FoundInv, [Next]_vars PROVE TypeInv'
  OBVIOUS
<1> USE DEF TypeInv, TypeOK, Open, Go, Off, Values
<1>1. ASSUME NEW d \in Hosts \cup {None}, main(d) PROVE TypeInv'
  BY <1>1 DEF main, memory, registers, network, chip, history
<1>2. CASE map_device
  <2>1. CASE End
    BY <2>1, EndKeepsTypes
  <2>2. CASE ~End
    <3>1. /\ step = "map"
          /\ UNCHANGED <<dest, found, registers, arp, chip, eth1, network, history>>
      BY <1>2, <2>2 DEF map_device
    <3>2. unmapped' \subseteq {Cores[i] : i \in DOMAIN Cores}
      BY <1>2, <2>2, Lengths DEF map_device
    <3>3. \/ next' \in 1..13 /\ step' = "map"
          \/ next' = 1 /\ step' = "reset"
      BY <1>2, <2>2, <3>1, Lengths DEF map_device
    <3> QED BY <3>1, <3>2, <3>3, Lengths DEF chip, registers, network, history
  <2> QED BY <2>1, <2>2
<1>3. CASE Crash
  BY <1>3, EndKeepsTypes DEF Crash
<1>4. CASE reset_adau1761
  BY <1>4 DEF reset_adau1761, memory, registers, network, chip, history
<1>5. CASE init_adau1761
  BY <1>5 DEF init_adau1761, memory, registers, network, chip, history
<1>6. CASE init_gpios
  <2>1. CASE End
    BY <2>1, EndKeepsTypes
  <2>2. CASE ~End
    <3>1. step = "gpios" /\ step' = "gateway"
          /\ UNCHANGED <<memory, registers, arp, chip, eth1, network, history>>
      BY <1>6, <2>2 DEF init_gpios
    <3> QED BY <3>1 DEF memory, registers, network, chip, history
  <2> QED BY <2>1, <2>2
<1>7. CASE getGateway
  <2>1. CASE End
    BY <2>1, EndKeepsTypes
  <2>2. CASE ~End
    BY <1>7, <2>2, Routes DEF getGateway, Fails, Finds, Frames, chip, registers, network, history
  <2> QED BY <2>1, <2>2
<1>8. CASE getMacAddress
  <2>1. CASE End
    BY <2>1, EndKeepsTypes
  <2>2. CASE ~End
    BY <1>8, <2>2 DEF getMacAddress, Fails, Finds, chip, registers, network, history
  <2> QED BY <2>1, <2>2
<1>9. CASE getNetMask
  BY <1>9 DEF getNetMask, Ask, Finds, chip, registers, network, history
<1>10. CASE getLocalIP
  BY <1>10 DEF getLocalIP, Ask, Finds, chip, registers, network, history
<1>11. CASE Arguments
  <2>1. CASE End
    BY <2>1, EndKeepsTypes
  <2>2. CASE ~End
    BY <1>11, <2>2, Lengths DEF Arguments, Fails, memory, registers, network, chip, history
  <2> QED BY <2>1, <2>2
<1>12. CASE WriteRegister
  <2>1. /\ step = "write" /\ next \in 1..6
        /\ SetRegister(Fields[next])
        /\ \/ next < 6 /\ next' = next + 1 /\ step' = step
           \/ next' = 1 /\ step' = "arping"
        /\ UNCHANGED <<dest, unmapped, found, arp, chip, eth1, network, history>>
    BY <1>12, Lengths DEF WriteRegister
  <2>2. mac_high' \in Nat
    <3>1. High[found.mac] \in Nat
      BY <2>1, BridgeStartAssumption
         DEF BridgeStartAssumption, FoundInv, AfterMac, AfterMask, AfterLocal,
             AfterSwitch, Eths
    <3> QED BY <2>1, <3>1 DEF SetRegister
  <2>3. reg' \in [Registers -> Values]
    <3>1. CASE Fields[next] = "mac_high"
      BY <2>1, <3>1 DEF SetRegister
    <3>2. CASE Fields[next] # "mac_high"
      <4>1. Fields[next] \in Registers
        BY <2>1, <3>2, FieldsAre
      <4>2. Word(Fields[next]) \in Values
        BY <4>1 DEF Word, Registers
      <4> QED BY <2>1, <3>2, <4>1, <4>2 DEF SetRegister
    <3> QED BY <3>1, <3>2
  <2> QED BY <2>1, <2>2, <2>3, Lengths DEF chip, network, history
<1>13. CASE NoTarget
  BY <1>13 DEF NoTarget, NoRequest, Close, memory, registers, chip
<1>14. CASE get_if_info
  BY <1>14 DEF get_if_info, NoRequest, Close, memory, registers, chip
<1>15. CASE bind_arp
  BY <1>15 DEF bind_arp, NoRequest, Close, memory, registers, network, chip, history
<1>16. CASE send_arp
  <2>1. asked' \in BOOLEAN /\ strange' \in BOOLEAN
    BY <1>16 DEF send_arp, NoRequest, Close, history
  <2>2. CASE step' = "finish"
    BY <1>16, <2>1, <2>2 DEF send_arp, NoRequest, Close, memory, registers, chip
  <2>3. CASE step' # "finish"
    BY <1>16, <2>1, <2>3 DEF send_arp, NoRequest, memory, registers, chip, history
  <2> QED BY <2>2, <2>3
<1>17. CASE SkipFrame
  <2>1. queue' = Tail(queue) /\ queue \in Seq(Frames) /\ queue # <<>>
    BY <1>17 DEF SkipFrame, Frames
  <2>2. queue' \in Seq(Frames)
    BY <2>1, HeadTailProperties
  <2> QED BY <1>17, <2>2 DEF SkipFrame, Frames, memory, registers, network, chip, history
<1>18. CASE read_arp
  <2>1. Head(queue) \in Frames
    BY <1>18, HeadTailProperties DEF read_arp, Frames
  <2>2. <<>> \in Seq(Frames)
    OBVIOUS
  <2> QED BY <1>18, <2>1, <2>2 DEF read_arp, Frames, network, memory, registers, chip, history
<1>19. CASE write_arp_mac
  <2>1. Head(queue) \in Frames
    BY <1>19, HeadTailProperties DEF write_arp_mac, Frames
  <2>2. <<>> \in Seq(Frames)
    OBVIOUS
  <2> QED BY <1>19, <2>1, <2>2 DEF write_arp_mac, Frames, Close, memory, registers, chip, history
<1>20. CASE Finish
  <2>1. CASE End
    BY <2>1, EndKeepsTypes
  <2>2. CASE ~End
    BY <1>20, <2>2 DEF Finish, Fails, memory, registers, network, chip, history
  <2> QED BY <2>1, <2>2
<1>20a. CASE set_sync_off
  <2>1. mac_high' \in Nat
    BY <1>20a, EvenWords DEF set_sync_off
  <2>2. step' = "run" /\ step = "sync"
    BY <1>20a DEF set_sync_off
  <2>3. UNCHANGED <<next, dest, unmapped, found, reg, arp, codec, pll, eth1, queue, asked,
                    noise, lost, strange, blind>>
    BY <1>20a DEF set_sync_off, memory, network, chip, history
  <2> QED BY <2>1, <2>2, <2>3
<1>21. CASE ui_run
  <2>1. CASE End
    BY <2>1, EndKeepsTypes
  <2>2. CASE ~End
    BY <1>21, <2>2 DEF ui_run, Fails, memory, registers, network, chip, history
  <2> QED BY <2>1, <2>2
<1>22. CASE Lock
  BY <1>22 DEF Lock, memory, registers, network, chip, history
<1>23. ASSUME NEW d \in Hosts, Strdip(d) PROVE TypeInv'
  BY <1>23 DEF Strdip, memory, registers, network, chip, history
<1>24. CASE ui_exit
  BY <1>24, EndKeepsTypes DEF ui_exit
<1>25. CASE Renumber
  BY <1>25 DEF Renumber, memory, registers, network, chip, history
<1>26. CASE Reply
  <2>1. queue' = Append(queue, dest) /\ queue \in Seq(Frames) /\ dest \in Frames
    BY <1>26 DEF Reply, Frames
  <2>2. queue' \in Seq(Frames) /\ queue' # <<>>
    BY <2>1, AppendProperties
  <2>3. asked' = FALSE /\ UNCHANGED <<step, memory, registers, arp, chip, eth1, noise, lost, strange,
                                      blind>>
    BY <1>26 DEF Reply, history
  <2>4. Open /\ noise \in 0..MaxNoise /\ lost \in BOOLEAN /\ strange \in BOOLEAN
    BY <1>26 DEF Reply, Listening
  <2> HIDE DEF TypeInv, TypeOK, Open, Values
  <2> QED BY <2>2, <2>3, <2>4, WireKeepsTypes
<1>27. CASE Lose
  <2>1. /\ asked' = FALSE /\ lost' = TRUE
        /\ UNCHANGED <<step, memory, registers, arp, chip, eth1, queue, noise, strange,
                      blind>>
    BY <1>27 DEF Lose
  <2>2. /\ queue \in Seq(Frames) /\ noise \in 0..MaxNoise /\ strange \in BOOLEAN
        /\ step = "entry" => queue # <<>>
        /\ ~Open => queue = <<>>
    BY DEF Frames
  <2> HIDE DEF TypeInv, TypeOK, Open, Values
  <2> QED BY <2>1, <2>2, WireKeepsTypes
<1>28. ASSUME NEW h \in Hosts \cup {None}, Noise(h) PROVE TypeInv'
  <2>1. queue' = Append(queue, h) /\ queue \in Seq(Frames) /\ h \in Frames
    BY <1>28 DEF Noise, Frames
  <2>2. queue' \in Seq(Frames) /\ queue' # <<>>
    BY <2>1, AppendProperties
  <2>3. noise' \in 0..MaxNoise
    BY <1>28, BridgeStartAssumption DEF Noise, BridgeStartAssumption
  <2>4. strange' \in BOOLEAN
    BY <1>28 DEF Noise
  <2>5. UNCHANGED <<step, memory, registers, arp, chip, eth1, asked, lost, blind>>
    BY <1>28 DEF Noise
  <2>6. Open /\ asked \in BOOLEAN /\ lost \in BOOLEAN
    BY <1>28 DEF Noise, Listening
  <2> HIDE DEF TypeInv, TypeOK, Open, Values
  <2> QED BY <2>2, <2>3, <2>4, <2>5, <2>6, WireKeepsTypes
<1>29. CASE UNCHANGED vars
  BY <1>29 DEF vars, memory, registers, network, chip, history
<1> QED
  BY <1>1, <1>2, <1>3, <1>4, <1>5, <1>6, <1>7, <1>8, <1>9, <1>10, <1>11,
     <1>12, <1>13, <1>14, <1>15, <1>16, <1>17, <1>18, <1>19, <1>20, <1>21,
     <1>22, <1>23, <1>24, <1>25, <1>26, <1>27, <1>28, <1>29,
     <1>20a
  DEF Next, Program, Discovery, Arping

----------------------------------------------------------------------------
(* The codec is set up, and a core that a step has used is there.          *)
MapInv ==
    /\ step \in AfterPll => codec
    /\ step \in AfterReset => "codec" \notin unmapped
    /\ step \in AfterSwitch => "switch" \notin unmapped
    /\ step \in AfterWrite => "udp_stack" \notin unmapped
    /\ step \in AfterFinish => Accesses.finish \cap unmapped = {}
    /\ step = "console" => "oled" \notin unmapped

\* A core is not accessed that is not there.
LEMMA MappedCores ==
    ASSUME Mapped
    PROVE  /\ step = "reset" => "codec" \notin unmapped
           /\ step = "switch" => "switch" \notin unmapped
           /\ step = "write" => "udp_stack" \notin unmapped
           /\ step = "finish" => Accesses.finish \cap unmapped = {}
           /\ step = "run" => "oled" \notin unmapped
BY DEF Mapped, Accesses

LEMMA EndKeepsMap == End => MapInv'
BY DEF End, Go, Off, MapInv, AfterReset, AfterPll, AfterMac, AfterMask,
       AfterLocal, AfterSwitch, AfterWrite, Arped, AfterFinish, AfterSync

LEMMA StepKeepsMap == MapInv /\ [Next]_vars => MapInv'
<1> SUFFICES ASSUME MapInv, [Next]_vars PROVE MapInv'
  OBVIOUS
<1> USE DEF MapInv, Go, Off, AfterReset, AfterPll, AfterMac, AfterMask,
            AfterLocal, AfterSwitch, AfterWrite, Arped, AfterFinish, AfterSync
<1>1. ASSUME NEW d \in Hosts \cup {None}, main(d) PROVE MapInv'
  BY <1>1 DEF main, memory, network, chip, history
<1>2. CASE map_device
  <2>1. CASE End
    BY <2>1, EndKeepsMap
  <2>2. CASE ~End
    BY <1>2, <2>2, MappedCores DEF map_device, memory, network, chip, history
  <2> QED BY <2>1, <2>2
<1>3. CASE Crash
  BY <1>3, EndKeepsMap DEF Crash
<1>4. CASE reset_adau1761
  BY <1>4, MappedCores DEF reset_adau1761, memory, network, chip, history
<1>5. CASE init_adau1761
  BY <1>5 DEF init_adau1761, memory, network, chip, history
<1>6. CASE init_gpios
  <2>1. CASE End
    BY <2>1, EndKeepsMap
  <2>2. CASE ~End
    BY <1>6, <2>2, MappedCores DEF init_gpios, memory, network, chip, history
  <2> QED BY <2>1, <2>2
<1>7. CASE getGateway
  <2>1. CASE End
    BY <2>1, EndKeepsMap
  <2>2. CASE ~End
    BY <1>7, <2>2, MappedCores DEF getGateway, memory, network, chip, history, Fails, Finds
  <2> QED BY <2>1, <2>2
<1>8. CASE getMacAddress
  <2>1. CASE End
    BY <2>1, EndKeepsMap
  <2>2. CASE ~End
    BY <1>8, <2>2, MappedCores DEF getMacAddress, memory, network, chip, history, Fails, Finds
  <2> QED BY <2>1, <2>2
<1>9. CASE getNetMask
  BY <1>9 DEF getNetMask, Ask, Finds, memory, network, chip, history
<1>10. CASE getLocalIP
  BY <1>10 DEF getLocalIP, Ask, Finds, memory, network, chip, history
<1>11. CASE Arguments
  <2>1. CASE End
    BY <2>1, EndKeepsMap
  <2>2. CASE ~End
    BY <1>11, <2>2, MappedCores DEF Arguments, memory, network, chip, history, Fails
  <2> QED BY <2>1, <2>2
<1>12. CASE WriteRegister
  <2>1. step = "write" /\ codec /\ "codec" \notin unmapped /\ "switch" \notin unmapped
    BY <1>12 DEF WriteRegister
  <2>2. "udp_stack" \notin unmapped
    BY <1>12, MappedCores DEF WriteRegister
  <2>3. step' \in {"write", "arping"} /\ UNCHANGED <<codec, unmapped>>
    BY <1>12 DEF WriteRegister, chip
  <2> QED BY <2>1, <2>2, <2>3
<1>13. CASE NoTarget
  BY <1>13 DEF NoTarget, NoRequest, memory, network, chip, history
<1>14. CASE get_if_info
  BY <1>14 DEF get_if_info, NoRequest, memory, network, chip, history
<1>15. CASE bind_arp
  <2>1. step = "arping" /\ step' \in {"finish", "send"}
    BY <1>15 DEF bind_arp, NoRequest
  <2>2. UNCHANGED <<codec, unmapped>>
    BY <1>15 DEF bind_arp, NoRequest, memory, chip
  <2> QED BY <2>1, <2>2
<1>16. CASE send_arp
  BY <1>16 DEF send_arp, NoRequest, memory, network, chip, history
<1>17. CASE SkipFrame
  BY <1>17 DEF SkipFrame, memory, network, chip, history
<1>18. CASE read_arp
  BY <1>18 DEF read_arp, memory, network, chip, history
<1>19. CASE write_arp_mac
  BY <1>19 DEF write_arp_mac, memory, network, chip, history
<1>20. CASE Finish
  <2>1. CASE End
    BY <2>1, EndKeepsMap
  <2>2. CASE ~End
    BY <1>20, <2>2, MappedCores DEF Finish, memory, network, chip, history, Fails
  <2> QED BY <2>1, <2>2
<1>20a. CASE set_sync_off
  BY <1>20a DEF set_sync_off, memory, network, chip, history
<1>21. CASE ui_run
  <2>1. CASE End
    BY <2>1, EndKeepsMap
  <2>2. CASE ~End
    BY <1>21, <2>2, MappedCores DEF ui_run, memory, network, chip, history, Fails
  <2> QED BY <2>1, <2>2
<1>22. CASE Lock
  BY <1>22 DEF Lock, memory, network, chip, history
<1>23. ASSUME NEW d \in Hosts, Strdip(d) PROVE MapInv'
  BY <1>23 DEF Strdip, memory, network, chip, history
<1>24. CASE ui_exit
  BY <1>24, EndKeepsMap DEF ui_exit
<1>25. CASE Renumber
  BY <1>25 DEF Renumber, memory, network, chip, history
<1>26. CASE Reply
  BY <1>26 DEF Reply, memory, network, chip, history
<1>27. CASE Lose
  BY <1>27 DEF Lose, memory, network, chip, history
<1>28. ASSUME NEW h \in Hosts \cup {None}, Noise(h) PROVE MapInv'
  BY <1>28 DEF Noise, memory, network, chip, history
<1>29. CASE UNCHANGED vars
  BY <1>29 DEF vars, memory, network, chip, history
<1> QED
  BY <1>1, <1>2, <1>3, <1>4, <1>5, <1>6, <1>7, <1>8, <1>9, <1>10, <1>11,
     <1>12, <1>13, <1>14, <1>15, <1>16, <1>17, <1>18, <1>19, <1>20, <1>21,
     <1>22, <1>23, <1>24, <1>25, <1>26, <1>27, <1>28, <1>29,
     <1>20a
  DEF Next, Program, Discovery, Arping

----------------------------------------------------------------------------
(* The registers that have been written hold what this start has found.    *)
Written(f) == IF f = "mac_high" THEN mac_high = High[found.mac]
                                ELSE reg[f] = Word(f)

RegInv ==
    /\ step = "write" => \A i \in 1..(next - 1) : Written(Fields[i])
    /\ step \in AfterWrite => \A f \in Registers : reg[f] = Word(f)
    /\ step \in AfterWrite \ AfterSync => mac_high = High[found.mac]
    /\ step \in AfterSync => mac_high = Even(High[found.mac])

LEMMA EndKeepsReg == End => RegInv'
BY DEF End, Go, Off, RegInv, AfterWrite, Arped, AfterFinish, AfterSync

LEMMA StepKeepsReg == TypeInv /\ RegInv /\ [Next]_vars => RegInv'
<1> SUFFICES ASSUME TypeInv, RegInv, [Next]_vars PROVE RegInv'
  OBVIOUS
<1> USE DEF RegInv, Go, Off, AfterWrite, Arped, AfterFinish, AfterSync, Written, Word
<1>1. ASSUME NEW d \in Hosts \cup {None}, main(d) PROVE RegInv'
  BY <1>1 DEF main, memory, registers, network, chip, history
<1>2. CASE map_device
  <2>1. CASE End
    BY <2>1, EndKeepsReg
  <2>2. CASE ~End
    BY <1>2, <2>2 DEF map_device, memory, registers, network, chip, history
  <2> QED BY <2>1, <2>2
<1>3. CASE Crash
  BY <1>3, EndKeepsReg DEF Crash
<1>4. CASE reset_adau1761
  BY <1>4 DEF reset_adau1761, memory, registers, network, chip, history
<1>5. CASE init_adau1761
  BY <1>5 DEF init_adau1761, memory, registers, network, chip, history
<1>6. CASE init_gpios
  <2>1. CASE End
    BY <2>1, EndKeepsReg
  <2>2. CASE ~End
    BY <1>6, <2>2 DEF init_gpios, memory, registers, network, chip, history
  <2> QED BY <2>1, <2>2
<1>7. CASE getGateway
  <2>1. CASE End
    BY <2>1, EndKeepsReg
  <2>2. CASE ~End
    BY <1>7, <2>2 DEF getGateway, memory, registers, network, chip, history, Fails, Finds
  <2> QED BY <2>1, <2>2
<1>8. CASE getMacAddress
  <2>1. CASE End
    BY <2>1, EndKeepsReg
  <2>2. CASE ~End
    BY <1>8, <2>2 DEF getMacAddress, memory, registers, network, chip, history, Fails, Finds
  <2> QED BY <2>1, <2>2
<1>9. CASE getNetMask
  BY <1>9 DEF getNetMask, Ask, Finds, memory, registers, network, chip, history
<1>10. CASE getLocalIP
  BY <1>10 DEF getLocalIP, Ask, Finds, memory, registers, network, chip, history
<1>11. CASE Arguments
  <2>1. CASE End
    BY <2>1, EndKeepsReg
  <2>2. CASE ~End
    <3>1. step' = "write" /\ next' = 1
      BY <1>11, <2>2 DEF Arguments, Fails, memory, TypeInv
    <3> QED BY <3>1
  <2> QED BY <2>1, <2>2
<1>12. CASE WriteRegister
  <2> DEFINE g == Fields[next]
  <2>1. /\ step = "write" /\ next \in 1..6
        /\ reg \in [Registers -> Values] /\ g \in Registers \cup {"mac_high"}
    BY <1>12, Lengths, FieldsAre DEF WriteRegister, TypeInv, TypeOK
  <2>2. IF g = "mac_high" THEN mac_high' = High[found.mac] /\ reg' = reg
        ELSE reg' = [reg EXCEPT ![g] = Word(g)] /\ mac_high' = mac_high
    BY <1>12 DEF WriteRegister, SetRegister
  <2>3. UNCHANGED <<dest, found>> /\ \A f : Word(f)' = Word(f)
    BY <1>12 DEF WriteRegister
  <2>4. \A i \in 1..next : Written(Fields[i])'
    <3> SUFFICES ASSUME NEW i \in 1..next PROVE Written(Fields[i])'
      OBVIOUS
    <3> HIDE DEF Word
    <3>1. Fields[i] \in Registers \cup {"mac_high"}
      BY <2>1, FieldsAre
    <3>2. CASE Fields[i] = g
      BY <2>1, <2>2, <2>3, <3>2
    <3>3. CASE Fields[i] # g
      <4>1. i \in 1..(next - 1)
        BY <2>1, <3>3
      <4>2. Written(Fields[i])
        BY <2>1, <4>1
      <4> QED BY <2>1, <2>2, <2>3, <3>1, <3>3, <4>2
    <3> QED BY <3>2, <3>3
  <2> HIDE DEF Written
  <2>5. CASE next < 6
    <3>1. step' = "write" /\ next' = next + 1
      BY <1>12, <2>1, <2>5, Lengths DEF WriteRegister
    <3>2. next' - 1 = next
      BY <3>1, <2>1
    <3> QED BY <2>4, <3>1, <3>2
  <2>6. CASE ~(next < 6)
    <3>1. step' = "arping" /\ next = 6
      BY <1>12, <2>1, <2>6, Lengths DEF WriteRegister
    <3>2. \A f \in Registers \cup {"mac_high"} : Written(f)'
      BY <2>4, <3>1, FieldsAre
    <3>3. \A f \in Registers : f # "mac_high"
      BY DEF Registers
    <3> QED BY <3>1, <3>2, <3>3 DEF Written
  <2> QED BY <2>5, <2>6
<1>13. CASE NoTarget
  BY <1>13 DEF NoTarget, NoRequest, memory, registers, network, chip, history
<1>14. CASE get_if_info
  BY <1>14 DEF get_if_info, NoRequest, memory, registers, network, chip, history
<1>15. CASE bind_arp
  BY <1>15 DEF bind_arp, NoRequest, memory, registers, network, chip, history
<1>16. CASE send_arp
  BY <1>16 DEF send_arp, NoRequest, memory, registers, network, chip, history
<1>17. CASE SkipFrame
  BY <1>17 DEF SkipFrame, memory, registers, network, chip, history
<1>18. CASE read_arp
  BY <1>18 DEF read_arp, memory, registers, network, chip, history
<1>19. CASE write_arp_mac
  BY <1>19 DEF write_arp_mac, memory, registers, network, chip, history
<1>20. CASE Finish
  <2>1. CASE End
    BY <2>1, EndKeepsReg
  <2>2. CASE ~End
    BY <1>20, <2>2 DEF Finish, memory, registers, network, chip, history, Fails
  <2> QED BY <2>1, <2>2
<1>20a. CASE set_sync_off
  BY <1>20a DEF set_sync_off, memory, network, chip, history
<1>21. CASE ui_run
  <2>1. CASE End
    BY <2>1, EndKeepsReg
  <2>2. CASE ~End
    BY <1>21, <2>2 DEF ui_run, memory, registers, network, chip, history, Fails
  <2> QED BY <2>1, <2>2
<1>22. CASE Lock
  BY <1>22 DEF Lock, memory, registers, network, chip, history
<1>23. ASSUME NEW d \in Hosts, Strdip(d) PROVE RegInv'
  <2>1. /\ reg' = [reg EXCEPT !["dest"] = d] /\ dest' = d
        /\ UNCHANGED <<step, found, mac_high>> /\ step = "console"
        /\ reg \in [Registers -> Values]
    BY <1>23 DEF Strdip, TypeInv, TypeOK
  <2> QED BY <2>1 DEF Registers
<1>24. CASE ui_exit
  BY <1>24, EndKeepsReg DEF ui_exit
<1>25. CASE Renumber
  BY <1>25 DEF Renumber, memory, registers, network, chip, history
<1>26. CASE Reply
  BY <1>26 DEF Reply, memory, registers, network, chip, history
<1>27. CASE Lose
  BY <1>27 DEF Lose, memory, registers, network, chip, history
<1>28. ASSUME NEW h \in Hosts \cup {None}, Noise(h) PROVE RegInv'
  BY <1>28 DEF Noise, memory, registers, network, chip, history
<1>29. CASE UNCHANGED vars
  BY <1>29 DEF vars, memory, registers, network, chip, history
<1> QED
  BY <1>1, <1>2, <1>3, <1>4, <1>5, <1>6, <1>7, <1>8, <1>9, <1>10, <1>11,
     <1>12, <1>13, <1>14, <1>15, <1>16, <1>17, <1>18, <1>19, <1>20, <1>21,
     <1>22, <1>23, <1>24, <1>25, <1>26, <1>27, <1>28, <1>29,
     <1>20a
  DEF Next, Program, Discovery, Arping

----------------------------------------------------------------------------
(* Nothing but the destination's reply reaches its entry, unless something *)
(* strange has happened.                                                   *)
EntryInv ==
    /\ Open /\ ~strange => queue \in Seq({dest, None})
    /\ step = "entry" => Head(queue) # None /\ arp.ip = Head(queue)
    /\ step \in Arped /\ ~strange => arp.ip = dest /\ arp.mac = dest

LEMMA EndKeepsEntry == End => EntryInv'
BY DEF End, Go, Off, EntryInv, Open, Arped, AfterFinish, AfterSync

LEMMA StepKeepsEntry == TypeInv /\ EntryInv /\ [Next]_vars => EntryInv'
<1> SUFFICES ASSUME TypeInv, EntryInv, [Next]_vars PROVE EntryInv'
  OBVIOUS
<1> USE DEF EntryInv, Go, Off, Open, Arped, AfterFinish, AfterSync
<1>1. ASSUME NEW d \in Hosts \cup {None}, main(d) PROVE EntryInv'
  BY <1>1 DEF main, memory, network, chip, history
<1>2. CASE map_device
  <2>1. CASE End
    BY <2>1, EndKeepsEntry
  <2>2. CASE ~End
    BY <1>2, <2>2 DEF map_device, memory, network, chip, history
  <2> QED BY <2>1, <2>2
<1>3. CASE Crash
  BY <1>3, EndKeepsEntry DEF Crash
<1>4. CASE reset_adau1761
  BY <1>4 DEF reset_adau1761, memory, network, chip, history
<1>5. CASE init_adau1761
  BY <1>5 DEF init_adau1761, memory, network, chip, history
<1>6. CASE init_gpios
  <2>1. CASE End
    BY <2>1, EndKeepsEntry
  <2>2. CASE ~End
    BY <1>6, <2>2 DEF init_gpios, memory, network, chip, history
  <2> QED BY <2>1, <2>2
<1>7. CASE getGateway
  <2>1. CASE End
    BY <2>1, EndKeepsEntry
  <2>2. CASE ~End
    BY <1>7, <2>2 DEF getGateway, memory, network, chip, history, Fails, Finds
  <2> QED BY <2>1, <2>2
<1>8. CASE getMacAddress
  <2>1. CASE End
    BY <2>1, EndKeepsEntry
  <2>2. CASE ~End
    BY <1>8, <2>2 DEF getMacAddress, memory, network, chip, history, Fails, Finds
  <2> QED BY <2>1, <2>2
<1>9. CASE getNetMask
  BY <1>9 DEF getNetMask, Ask, Finds, memory, network, chip, history
<1>10. CASE getLocalIP
  BY <1>10 DEF getLocalIP, Ask, Finds, memory, network, chip, history
<1>11. CASE Arguments
  <2>1. CASE End
    BY <2>1, EndKeepsEntry
  <2>2. CASE ~End
    BY <1>11, <2>2 DEF Arguments, memory, network, chip, history, Fails
  <2> QED BY <2>1, <2>2
<1>12. CASE WriteRegister
  BY <1>12 DEF WriteRegister, memory, network, chip, history
<1>13. CASE NoTarget
  BY <1>13 DEF NoTarget, NoRequest, memory, network, chip, history
<1>14. CASE get_if_info
  BY <1>14 DEF get_if_info, NoRequest, memory, network, chip, history
<1>15. CASE bind_arp
  <2>1. queue = <<>> /\ <<>> \in Seq({dest, None})
    BY <1>15 DEF bind_arp, TypeInv
  <2>2. CASE NoRequest("finish")
    BY <2>2 DEF NoRequest
  <2>3. CASE ~NoRequest("finish")
    <3>1. step' = "send" /\ UNCHANGED <<memory, network>>
      BY <1>15, <2>3 DEF bind_arp
    <3> QED BY <2>1, <3>1 DEF memory, network
  <2> QED BY <2>2, <2>3
<1>16. CASE send_arp
  <2>1. \/ strange' /\ step' = "finish"
        \/ UNCHANGED <<queue, dest, strange>> /\ step' = "wait" /\ step = "send"
    BY <1>16 DEF send_arp, NoRequest, memory, history
  <2> QED BY <2>1
<1>17. CASE SkipFrame
  <2>1. queue' = Tail(queue) /\ queue # <<>> /\ step = "wait"
        /\ UNCHANGED <<step, dest, arp, strange>>
    BY <1>17 DEF SkipFrame, memory, history
  <2>2. ~strange => queue' \in Seq({dest, None})
    BY <2>1, HeadTailProperties
  <2> QED BY <2>1, <2>2
<1>18. CASE read_arp
  <2>1. /\ step = "wait" /\ step' = "entry" /\ Head(queue) # None
        /\ arp' = [arp EXCEPT !.ip = Head(queue)]
        /\ UNCHANGED <<queue, dest, strange>>
    BY <1>18 DEF read_arp, memory, network, history
  <2>2. arp'.ip = Head(queue)
    BY <2>1 DEF TypeInv, TypeOK
  <2> QED BY <2>1, <2>2
<1>19. CASE write_arp_mac
  <2>1. /\ step = "entry" /\ step' = "finish" /\ queue # <<>>
        /\ arp' = [arp EXCEPT !.mac = Head(queue)]
        /\ UNCHANGED <<dest, strange>>
    BY <1>19 DEF write_arp_mac, memory, history, TypeInv, TypeOK
  <2>2. arp'.ip = Head(queue) /\ arp'.mac = Head(queue)
    BY <2>1 DEF TypeInv, TypeOK
  <2>3. ~strange => Head(queue) \in {dest, None} /\ Head(queue) # None
    BY <2>1, HeadTailProperties
  <2> QED BY <2>1, <2>2, <2>3
<1>20. CASE Finish
  <2>1. CASE End
    BY <2>1, EndKeepsEntry
  <2>2. CASE ~End
    BY <1>20, <2>2 DEF Finish, memory, network, chip, history, Fails
  <2> QED BY <2>1, <2>2
<1>20a. CASE set_sync_off
  BY <1>20a DEF set_sync_off, memory, network, chip, history
<1>21. CASE ui_run
  <2>1. CASE End
    BY <2>1, EndKeepsEntry
  <2>2. CASE ~End
    BY <1>21, <2>2 DEF ui_run, memory, network, chip, history, Fails
  <2> QED BY <2>1, <2>2
<1>22. CASE Lock
  BY <1>22 DEF Lock, memory, network, chip, history
<1>23. ASSUME NEW d \in Hosts, Strdip(d) PROVE EntryInv'
  BY <1>23 DEF Strdip, memory, network, chip, history
<1>24. CASE ui_exit
  BY <1>24, EndKeepsEntry DEF ui_exit
<1>25. CASE Renumber
  BY <1>25 DEF Renumber, memory, network, chip, history
<1>26. CASE Reply
  <2>1. queue' = Append(queue, dest) /\ step \in {"send", "wait"}
        /\ UNCHANGED <<step, dest, arp>>
    BY <1>26 DEF Reply, Listening, memory
  <2>2. ~strange' => ~strange /\ dest \in {dest, None}
    BY <1>26 DEF Reply, history
  <2>3. ~strange' => queue' \in Seq({dest, None})
    BY <2>1, <2>2, AppendProperties
  <2> QED BY <2>1, <2>3
<1>27. CASE Lose
  BY <1>27 DEF Lose, memory, network, chip, history
<1>28. ASSUME NEW h \in Hosts \cup {None}, Noise(h) PROVE EntryInv'
  <2>1. queue' = Append(queue, h) /\ step \in {"send", "wait"}
        /\ UNCHANGED <<step, dest, arp>>
    BY <1>28 DEF Noise, Listening, memory
  <2>2. ~strange' => ~strange /\ h \in {dest, None}
    BY <1>28 DEF Noise, history
  <2>3. ~strange' => queue' \in Seq({dest, None})
    BY <2>1, <2>2, AppendProperties
  <2> QED BY <2>1, <2>3
<1>29. CASE UNCHANGED vars
  BY <1>29 DEF vars, memory, network, chip, history
<1> QED
  BY <1>1, <1>2, <1>3, <1>4, <1>5, <1>6, <1>7, <1>8, <1>9, <1>10, <1>11,
     <1>12, <1>13, <1>14, <1>15, <1>16, <1>17, <1>18, <1>19, <1>20, <1>21,
     <1>22, <1>23, <1>24, <1>25, <1>26, <1>27, <1>28, <1>29,
     <1>20a
  DEF Next, Program, Discovery, Arping

----------------------------------------------------------------------------
Inv == TypeInv /\ FoundInv /\ MapInv /\ RegInv /\ EntryInv

LEMMA InitInv == Init => Inv
<1> SUFFICES ASSUME Init PROVE Inv
  OBVIOUS
<1>1. 1 \in 1..Len(Cores) /\ 0 \in 0..MaxNoise /\ <<>> \in Seq(Frames)
  BY Lengths, BridgeStartAssumption DEF BridgeStartAssumption
<1>2. codec \in BOOLEAN /\ pll \in BOOLEAN /\ asked \in BOOLEAN
      /\ lost \in BOOLEAN /\ strange \in BOOLEAN /\ blind \in BOOLEAN
      /\ mac_high \in Nat
  BY DEF Init
<1>3. TypeInv
  BY <1>1, <1>2 DEF Init, TypeInv, TypeOK, Open, Off, Nothing, Values, Frames
<1>4. FoundInv /\ MapInv /\ RegInv /\ EntryInv
  BY DEF Init, FoundInv, MapInv, RegInv, EntryInv, Off, Open, AfterReset,
         AfterPll, AfterMac, AfterMask, AfterLocal, AfterSwitch, AfterWrite, Arped, AfterFinish, AfterSync
<1> QED BY <1>3, <1>4 DEF Inv

LEMMA Invariance == Spec => []Inv
<1>1. Inv /\ [Next]_vars => Inv'
  BY StepKeepsTypes, StepKeepsFound, StepKeepsMap, StepKeepsReg, StepKeepsEntry DEF Inv
<1> QED BY InitInv, <1>1, PTL DEF Spec

(* Every variable of a start keeps its type, for any hosts, addresses and  *)
(* routing tables (ui_control.c:2478).                                     *)
THEOREM TypeCorrect == Spec => []TypeOK
<1>1. Inv => TypeOK
  BY DEF Inv, TypeInv
<1> QED BY Invariance, <1>1, PTL

(* When the console opens nothing of an earlier run is left in the codec   *)
(* and in the address registers, wherever that run was cut: they hold what *)
(* this start found on its interfaces, the MAC with its upper half's lowest *)
(* bit cleared by the start itself (ui_control.c:2699, 2833).              *)
THEOREM NothingLeft == Spec => []NothingLeftOver
<1>1. Inv => NothingLeftOver
  <2> SUFFICES ASSUME Inv, step = "console" PROVE NothingLeftOver
    BY DEF NothingLeftOver
  <2> USE DEF Inv, AfterReset, AfterPll, AfterMac, AfterMask, AfterLocal,
              AfterSwitch, AfterWrite, Arped, AfterFinish, AfterSync
  <2>1. codec /\ \A s \in DOMAIN Accesses : Accesses[s] \cap unmapped = {}
    BY DEF MapInv, Accesses
  <2>2. mac_high = Even(High[found.mac])
    BY DEF RegInv
  <2>3. reg = [f \in Registers |-> Word(f)]
    <3>1. \A f \in Registers : reg[f] = Word(f)
      BY DEF RegInv
    <3>2. reg \in [Registers -> Values]
      BY DEF TypeInv, TypeOK
    <3> QED BY <3>1, <3>2
  <2>4. ~blind => reg.mask = Mask /\ reg.local \in Addresses
    BY <2>3 DEF FoundInv, Word, Registers
  <2> QED BY <2>1, <2>2, <2>3, <2>4 DEF NothingLeftOver
<1> QED BY Invariance, <1>1, PTL

(* The entry is the destination's, address and MAC, however the runs before *)
(* were cut, unless this start met something strange (network.c:632).       *)
THEOREM EntryOfDestination == Spec => []EntryIsDestinations
<1>1. Inv => EntryIsDestinations
  <2> SUFFICES ASSUME Inv, step = "console", ~strange
               PROVE  arp = [ip |-> dest, mac |-> dest]
    BY DEF EntryIsDestinations
  <2>1. arp.ip = dest /\ arp.mac = dest
    BY DEF Inv, EntryInv, Arped, AfterFinish, AfterSync
  <2>2. arp \in [ip : Hosts \cup {None}, mac : Hosts \cup {None}]
    BY DEF Inv, TypeInv, TypeOK
  <2> QED BY <2>1, <2>2
<1> QED BY Invariance, <1>1, PTL
=============================================================================
