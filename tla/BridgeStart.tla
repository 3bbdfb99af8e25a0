----------------------------- MODULE BridgeStart -----------------------------
(***************************************************************************)
(* How the bridge program (bp7) starts: main, ui_init and ui_run, with the *)
(* mapping of the FPGA cores (reg_io.c), the codec (adau1761_controller.c) *)
(* and the discovery of the network (network.c), until its console opens.  *)
(*                                                                         *)
(* The program may be killed between any two steps and be started again,   *)
(* with other arguments and over another network, while the registers of   *)
(* the network core keep what earlier runs wrote.  The addresses of eth0   *)
(* and eth1 come and go.                                                   *)
(*                                                                         *)
(* Ports, switch and packet length are in Parameters, volumes and filters  *)
(* in Mixer, and the bits of the stream in Bridge.                         *)
(***************************************************************************)
EXTENDS Naturals, Sequences

CONSTANTS
    Hosts,      \* the other hosts on the wire, each by its address
    Addresses,  \* the addresses that eth1 may have
    Tables,     \* the routing tables: sequences of default gateways
    High,       \* the upper three bytes of the MAC of eth0 and of eth1
    Unmappable, \* the cores whose mapping may fail
    MaxNoise    \* bound: frames nobody asked for, in one start

None == "none"
Mask == "mask"  \* the net mask of eth1
Junk == "junk"  \* whatever was in memory

\* The cores in the order they are mapped, and the registers in the order they
\* are written: the MAC takes two, three bytes each.
Cores == <<"eth_to_audio", "filter_0", "volume_0", "filter_1", "volume_1",
           "oled", "pmod", "audio_to_eth", "switch", "udp_stack", "plc_seq",
           "codec", "time_sync">>
Fields == <<"mac_high", "mac_low", "local", "dest", "mask", "gateway">>
Registers == {"mac_low", "local", "dest", "mask", "gateway"}

\* A word with its lowest bit cleared (& 0xFFFFFFFE).
Even(word) == 2 * (word \div 2)

ASSUME BridgeStartAssumption ==
    /\ MaxNoise \in Nat
    /\ High \in [{"eth0", "eth1"} -> Nat]
    /\ \A table \in Tables : table \in Seq(Hosts)
    /\ {None, Mask, Junk} \cap (Hosts \cup Addresses) = {}
    /\ Unmappable \subseteq {Cores[i] : i \in DOMAIN Cores}

VARIABLES
    step,     \* what the program does next, "off" when it does not run
    next,     \* the next core to map, or register to write
    dest,     \* the destination it was started with, None for five arguments
    unmapped, \* the cores whose mapping failed
    found,    \* what this start found out about its network
    mac_high, \* the register of the MAC's upper half
    reg,      \* the other registers of the addresses
    arp,      \* the registers of the destination's entry: address and MAC
    codec,    \* the codec is set up
    pll,      \* its clock has locked
    eth1,     \* external: the address of eth1, or None
    queue,    \* the ARP frames that wait in the socket
    asked,    \* the request is on the wire, unanswered
    noise,    \* frames nobody asked for, in this start
    lost,     \* history: the request of this start, or its answer, was lost
    strange,  \* history: another host's reply, or no request, in this start
    blind     \* history: eth1 had no address when this start looked for it

chip      == <<codec, pll>>
memory    == <<next, dest, unmapped, found>>
registers == <<mac_high, reg>>
network   == <<queue, asked, noise>>
history   == <<lost, strange, blind>>
vars == <<step, memory, registers, arp, chip, eth1, network, history>>

Nothing == [f \in {"mac", "local", "mask", "gateway"} |-> None]

Go(s) == step' = s
Off   == "off"

\* The program ends, and what it had in memory and in sockets is gone.
End ==
    /\ Go(Off)
    /\ next' = 1 /\ dest' = None /\ unmapped' = {} /\ found' = Nothing
    /\ queue' = <<>> /\ asked' = FALSE /\ noise' = 0
    /\ lost' = FALSE /\ strange' = FALSE /\ blind' = FALSE
    /\ UNCHANGED <<registers, arp, chip, eth1>>

----------------------------------------------------------------------------
Init ==
    /\ step = Off /\ next = 1 /\ dest = None
    /\ unmapped = {} /\ codec = FALSE /\ pll = FALSE
    /\ found = Nothing
    /\ mac_high = 0
    /\ reg = [f \in Registers |-> None]
    /\ arp = [ip |-> None, mac |-> None]
    /\ eth1 \in Addresses \cup {None}
    /\ queue = <<>> /\ asked = FALSE /\ noise = 0
    /\ lost = FALSE /\ strange = FALSE /\ blind = FALSE

\* The terminal opens, and there are arguments; without either the program
\* ends and has done nothing.
main(d) ==
    /\ step = Off
    /\ dest' = d
    /\ Go("map")
    /\ UNCHANGED <<next, unmapped, found, registers, arp, chip, eth1,
                   network, history>>

\* A core that cannot be opened ends the program.  When only mmap fails nobody
\* looks, and the first access ends it.
map_device ==
    /\ step = "map"
    /\ \/ End
       \/ /\ unmapped' \in {unmapped, unmapped \cup ({Cores[next]} \cap Unmappable)}
          /\ IF next < Len(Cores) THEN next' = next + 1 /\ UNCHANGED step
             ELSE next' = 1 /\ Go("reset")
          /\ UNCHANGED <<dest, found, registers, arp, chip, eth1, network,
                         history>>

\* An access to a core that is not mapped.
Accesses == [reset |-> {"codec"}, switch |-> {"switch"},
             write |-> {"udp_stack"},
             finish |-> {"audio_to_eth", "filter_0", "filter_1", "volume_0",
                         "volume_1"},
             sync |-> {"audio_to_eth", "udp_stack"},
             run |-> {"oled"}]

Crash ==
    /\ step \in DOMAIN Accesses
    /\ Accesses[step] \cap unmapped # {}
    /\ End
Mapped == step \in DOMAIN Accesses => Accesses[step] \cap unmapped = {}

\* reset_adau1761 and, in init_adau1761, the parameters of the PLL.
reset_adau1761 ==
    /\ step = "reset" /\ Mapped
    /\ codec' = FALSE /\ pll' = FALSE
    /\ Go("pll")
    /\ UNCHANGED <<memory, registers, arp, eth1, network, history>>

\* External: the PLL locks.
Lock ==
    /\ step = "pll" /\ ~pll
    /\ pll' = TRUE
    /\ UNCHANGED <<step, memory, registers, arp, codec, eth1, network,
                   history>>

\* The program asks the PLL until it has locked, then sets up the codec.
init_adau1761 ==
    /\ step = "pll" /\ pll
    /\ codec' = TRUE
    /\ Go("gpios")
    /\ UNCHANGED <<memory, registers, arp, pll, eth1, network, history>>

init_gpios ==
    /\ step = "gpios"
    /\ \/ End
       \/ /\ Go("gateway")
          /\ UNCHANGED <<memory, registers, arp, chip, eth1, network,
                         history>>

----------------------------------------------------------------------------
(* The network as the program finds it.                                    *)

\* Of several default routes the last one counts, whatever its interface.
parseRoutes(table) == IF table = <<>> THEN None ELSE table[Len(table)]

Finds(field, value, s) ==
    /\ found' = [found EXCEPT ![field] = value]
    /\ Go(s)
    /\ UNCHANGED <<next, dest, unmapped, registers, arp, chip, eth1, network,
                   lost, strange>>

Fails(s) == step = s /\ End

\* Having no default route is no failure.
getGateway ==
    \/ Fails("gateway")
    \/ /\ step = "gateway"
       /\ \E table \in Tables : Finds("gateway", parseRoutes(table), "mac")
       /\ UNCHANGED blind

\* The MAC of the first interface that has an address: eth0, if it has one.
getMacAddress ==
    \/ eth1 = None /\ Fails("mac")
    \/ /\ step = "mac"
       /\ \E eth \in {"eth0"} \cup {i \in {"eth1"} : eth1 # None} :
              Finds("mac", eth, "mask")
       /\ UNCHANGED blind

\* Without an address on eth1 the call fails, which is not looked at, and the
\* result is what the memory held.
Ask(field, value, s) ==
    /\ \E v \in IF eth1 # None THEN {value} ELSE {Junk} : Finds(field, v, s)
    /\ blind' = (blind \/ eth1 = None)

getNetMask == step = "mask" /\ Ask("mask", Mask, "local")
getLocalIP == step = "local" /\ Ask("local", eth1, "switch")

\* The number of arguments is looked at last: three to six will do.
Arguments ==
    \/ Fails("switch")
    \/ /\ step = "switch" /\ Mapped
       /\ Go("write")
       /\ UNCHANGED <<memory, registers, arp, chip, eth1, network, history>>

Word(f) == IF f = "dest" THEN dest ELSE found[IF f = "mac_low" THEN "mac" ELSE f]

SetRegister(f) ==
    IF f = "mac_high" THEN mac_high' = High[found.mac] /\ UNCHANGED reg
    ELSE reg' = [reg EXCEPT ![f] = Word(f)] /\ UNCHANGED mac_high

\* Mutant: the gateway is left as it was.
WriteRegisterAllButOne ==
    /\ step = "write" /\ Mapped
    /\ SetRegister(Fields[next])
    /\ IF next + 1 < Len(Fields) THEN next' = next + 1 /\ UNCHANGED step
       ELSE next' = 1 /\ Go("arping")
    /\ UNCHANGED <<dest, unmapped, found, arp, chip, eth1, network, history>>

\* Mutant: one register too many.
WriteRegisterPast ==
    /\ step = "write" /\ Mapped
    /\ SetRegister(Fields[next])
    /\ IF next <= Len(Fields) THEN next' = next + 1 /\ UNCHANGED step
       ELSE next' = 1 /\ Go("arping")
    /\ UNCHANGED <<dest, unmapped, found, arp, chip, eth1, network, history>>

\* The registers of the addresses, one after the other.
WriteRegister ==
    /\ step = "write" /\ Mapped
    /\ SetRegister(Fields[next])
    /\ IF next < Len(Fields) THEN next' = next + 1 /\ UNCHANGED step
       ELSE next' = 1 /\ Go("arping")
    /\ UNCHANGED <<dest, unmapped, found, arp, chip, eth1, network, history>>

----------------------------------------------------------------------------
(* run_arping: one request for the destination's MAC, and a wait.          *)

\* The socket is closed, with the frames that wait in it.
Close == queue' = <<>> /\ asked' = FALSE

NoRequest(s) ==
    /\ strange' = TRUE
    /\ Close
    /\ Go(s)
    /\ UNCHANGED <<memory, registers, arp, chip, eth1, noise, lost,
                   blind>>

\* No destination to ask for.
NoTarget == step = "arping" /\ dest = None /\ NoRequest("finish")

\* get_if_info: eth1 has no address.  The descriptor that run_arping closes was
\* never set.
get_if_info ==
    /\ step = "arping" /\ dest # None /\ eth1 = None
    /\ NoRequest("finish")

\* The socket, which gets every ARP frame from now on; it may not be had.
bind_arp ==
    /\ step = "arping" /\ dest # None /\ eth1 # None
    /\ \/ NoRequest("finish")
       \/ /\ Go("send")
          /\ UNCHANGED <<memory, registers, arp, chip, eth1, network,
                         history>>

send_arp ==
    /\ step = "send"
    /\ \/ NoRequest("finish")
       \/ /\ asked' = TRUE
          /\ Go("wait")
          /\ UNCHANGED <<memory, registers, arp, chip, eth1, queue, noise,
                         history>>

\* read_arp: what is no reply is skipped, and any host's reply will do.
SkipFrame ==
    /\ step = "wait" /\ queue # <<>> /\ Head(queue) = None
    /\ queue' = Tail(queue)
    /\ UNCHANGED <<step, memory, registers, arp, chip, eth1, asked, noise,
                   history>>

\* Mutant: the entry keeps the address it had.
read_arp_mac_only ==
    /\ step = "wait" /\ queue # <<>> /\ Head(queue) # None
    /\ Go("entry")
    /\ UNCHANGED <<memory, registers, arp, chip, eth1, network, history>>

read_arp ==
    /\ step = "wait" /\ queue # <<>> /\ Head(queue) # None
    /\ arp' = [arp EXCEPT !.ip = Head(queue)]
    /\ Go("entry")
    /\ UNCHANGED <<memory, registers, chip, eth1, network, history>>

\* Mutant: read_arp does not say that it has found a reply.
write_arp_mac_again ==
    /\ step = "entry"
    /\ arp' = [arp EXCEPT !.mac = Head(queue)]
    /\ queue' = Tail(queue)
    /\ Go("wait")
    /\ UNCHANGED <<memory, registers, chip, eth1, asked, noise, history>>

\* The second half of read_arp, and the end of the wait.
write_arp_mac ==
    /\ step = "entry"
    /\ arp' = [arp EXCEPT !.mac = Head(queue)]
    /\ Close
    /\ Go("finish")
    /\ UNCHANGED <<memory, registers, chip, eth1, noise, history>>

\* Length, filters and volumes.  The second socket may fail before them: when
\* run_arping closed the console's descriptor the socket gets its number, 0,
\* which counts as a failure.
Finish ==
    \/ Fails("finish")
    \/ /\ step = "finish" /\ Mapped
       /\ Go("sync")
       /\ UNCHANGED <<memory, registers, arp, chip, eth1, network, history>>

\* The time sync is switched off, with a bit of the wrong core: register 0 of
\* the network core is the MAC's upper half.  The stream's bit is in Bridge.
set_sync_off ==
    /\ step = "sync" /\ Mapped
    /\ mac_high' = Even(mac_high)
    /\ Go("run")
    /\ UNCHANGED <<memory, reg, arp, chip, eth1, network, history>>

\* The thread of the console.
ui_run ==
    \/ Fails("run")
    \/ /\ step = "run" /\ Mapped
       /\ Go("console")
       /\ UNCHANGED <<memory, registers, arp, chip, eth1, network, history>>

----------------------------------------------------------------------------
\* strdip changes the destination, and not the entry.
Strdip(d) ==
    /\ step = "console"
    /\ reg' = [reg EXCEPT !.dest = d]
    /\ dest' = d
    /\ strange' = TRUE
    /\ UNCHANGED <<step, next, unmapped, found, mac_high, arp, chip, eth1,
                   network, lost, blind>>

\* exit, with ui_exit, or a kill at any step: the registers stay.
ui_exit == step # Off /\ End

(* External: the interfaces and the wire.                                  *)
Renumber ==
    /\ eth1' \in Addresses \cup {None}
    /\ UNCHANGED <<step, memory, registers, arp, chip, network, history>>

Listening == step \in {"send", "wait"}

\* The destination answers the request.
Reply ==
    /\ Listening /\ asked
    /\ asked' = FALSE
    /\ queue' = Append(queue, dest)
    /\ UNCHANGED <<step, memory, registers, arp, chip, eth1, noise, history>>

\* There is nobody to answer, or a frame is lost.
Lose ==
    /\ asked
    /\ asked' = FALSE /\ lost' = TRUE
    /\ UNCHANGED <<step, memory, registers, arp, chip, eth1, queue, noise,
                   strange, blind>>

\* A frame that is no reply, or a reply of a host nobody asked for.
Noise(h) ==
    /\ Listening /\ noise < MaxNoise
    /\ queue' = Append(queue, h)
    /\ noise' = noise + 1
    /\ strange' = (strange \/ h # None)
    /\ UNCHANGED <<step, memory, registers, arp, chip, eth1, asked, lost,
                   blind>>

Discovery == getGateway \/ getMacAddress \/ getNetMask \/ getLocalIP

Arping == \/ NoTarget \/ get_if_info \/ bind_arp \/ send_arp
          \/ SkipFrame \/ read_arp \/ write_arp_mac

\* The steps the program takes by itself, in its one thread.
Program ==
    \/ map_device \/ Crash
    \/ reset_adau1761 \/ init_adau1761 \/ init_gpios
    \/ Discovery
    \/ Arguments \/ WriteRegister
    \/ Arping
    \/ Finish \/ set_sync_off \/ ui_run

Next ==
    \/ \E d \in Hosts \cup {None} : main(d)
    \/ Program
    \/ Lock
    \/ \E d \in Hosts : Strdip(d)
    \/ ui_exit
    \/ Renumber
    \/ Reply
    \/ Lose
    \/ \E h \in Hosts \cup {None} : Noise(h)

Spec == Init /\ [][Next]_vars

(* The program goes on, the PLL locks, and a request that is not lost is   *)
(* answered.  Nothing makes anybody start the program, or end it.          *)
Fairness == WF_vars(Program) /\ WF_vars(Lock) /\ WF_vars(Reply)
LiveSpec == Spec /\ Fairness

----------------------------------------------------------------------------
Values == Hosts \cup Addresses \cup {None, Mask, Junk, "eth0", "eth1"}

\* Type invariant.
TypeOK ==
    /\ step \in {Off, "map", "reset", "pll", "gpios", "gateway", "mac", "mask",
                 "local", "switch", "write", "arping", "send", "wait", "entry",
                 "finish", "sync", "run", "console"}
    /\ next \in 1..Len(Cores)
    /\ step = "write" => next \in 1..Len(Fields)
    /\ dest \in Hosts \cup {None}
    /\ unmapped \subseteq {Cores[i] : i \in DOMAIN Cores}
    /\ found \in [{"mac", "local", "mask", "gateway"} -> Values]
    /\ mac_high \in Nat
    /\ reg \in [Registers -> Values]
    /\ arp \in [ip : Hosts \cup {None}, mac : Hosts \cup {None}]
    /\ codec \in BOOLEAN /\ pll \in BOOLEAN
    /\ eth1 \in Addresses \cup {None}
    /\ queue \in Seq(Hosts \cup {None})
    /\ asked \in BOOLEAN /\ noise \in 0..MaxNoise
    /\ lost \in BOOLEAN /\ strange \in BOOLEAN /\ blind \in BOOLEAN
    /\ step = "entry" => queue # <<>>

(* When the console opens nothing of an earlier run is left but, at times,  *)
(* the destination's entry.  Wherever that run was cut, the codec is set up *)
(* and the cores that the start uses are there; the address registers hold  *)
(* what this start found, but for the lowest bit of the MAC's upper half,   *)
(* which the start itself has cleared by then (ui_control.c:2699, 2833);    *)
(* and mask and local address are those of eth1, unless eth1 had no address *)
(* at that moment (ui_control.c:2478, 2992).                                *)
NothingLeftOver ==
    step = "console" =>
        /\ codec
        /\ \A s \in DOMAIN Accesses : Accesses[s] \cap unmapped = {}
        /\ mac_high = Even(High[found.mac])
        /\ reg = [f \in Registers |-> Word(f)]
        /\ ~blind => reg.mask = Mask /\ reg.local \in Addresses

(* The stream can only go to the destination the program was started with: *)
(* when the console opens the entry has its address and its MAC, though an  *)
(* earlier run may have been cut between the two (network.c:632), unless    *)
(* this start sent no request, heard another host's reply, or strdip        *)
(* changed the destination.                                                *)
EntryIsDestinations ==
    step = "console" /\ ~strange => arp = [ip |-> dest, mac |-> dest]

(* A start comes to an end, at the console or without it, unless its one   *)
(* request or the answer is lost (network.c:684).                          *)
StartEnds == step # Off ~> (step \in {Off, "console"} \/ lost)
=============================================================================
