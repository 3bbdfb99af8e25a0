------------------------------- MODULE Bridge -------------------------------
(***************************************************************************)
(* The stream and sync commands of the bridge program (bp7): how the lines *)
(* typed at its console (ui_control.c) move the control registers of the   *)
(* FPGA cores (stream_control.c).                                          *)
(*                                                                         *)
(* One thread reads the console and runs a command to its end, and nothing *)
(* else writes these registers, so a command is one step; a reset pulse is *)
(* a bit that is set and cleared again within it.  A register is the set   *)
(* of the bits that are one.  Registers survive the program: only the      *)
(* power switch clears them.  The cores are external: a register reads as  *)
(* it was written, but bits 2 to 5 of the FIFO registers read as FIFO      *)
(* flags (reg_io.h), of which only bits 4 and 5 of eth_to_audio mean       *)
(* something when written.                                                 *)
(***************************************************************************)
EXTENDS Integers

CONSTANTS
    Macs,   \* the low bits of the upper word of the MAC addresses in use
    BoxMac  \* the one of the network card

ASSUME BridgeAssumption ==
    /\ Macs \subseteq SUBSET (0..2)
    /\ BoxMac \in Macs

VARIABLES
    reg,     \* the registers
    mac_set, \* history: the MAC address the bridge was last given
    stale    \* history: time sync was left on by an earlier run of the program

vars == <<reg, mac_set, stale>>

(***************************************************************************)
(* The registers, named by their core and number, and their bits:          *)
(*   eth 15: 0 sync packets, 1 stream out, 2 stream in                     *)
(*   eth 0: the upper word of the MAC address                              *)
(*   audio_to_eth 0: 0-1 FIFO reset, 6 packet count, 7 test, 8 payload,    *)
(*                   9-11 test mode; audio_to_eth 6: 0 sync                *)
(*   eth_to_audio 0: 0-1 FIFO reset, 4 loss concealment, 5 correction      *)
(*   time_sync 0: 0 enable, 1 measure, 2 reset                             *)
(*   pkt_seq 1: 0 reset, 1 off, 2 wait off, 3 send delay off               *)
(***************************************************************************)
Bits == [eth15 |-> 0..2, eth0 |-> 0..2, a2e0 |-> (0..1) \cup (6..11),
         a2e6 |-> {0}, e2a0 |-> {0, 1, 4, 5}, ts0 |-> 0..2, seq1 |-> 0..3]

Registers == DOMAIN Bits
Flags     == {4, 5}

Or(r, w, bits)  == [r EXCEPT ![w] = @ \cup bits]
And(r, w, bits) == [r EXCEPT ![w] = @ \ bits]
Put(r, w, bits) == [r EXCEPT ![w] = bits]

\* What a read of eth_to_audio 0 returns while these FIFOs are full.
Flagged(r, full) == [r EXCEPT !.e2a0 = (@ \ Flags) \cup full]

----------------------------------------------------------------------------
(* stream_control.c: each function takes the registers to the registers.   *)
reset_adc_fifos(r)       == And(r, "a2e0", {0, 1})
reset_dac_fifos(r, full) == And(Flagged(r, full), "e2a0", {0, 1})
set_buf_corr_on(r, full) == Or(Flagged(r, full), "e2a0", {5})
clear_buf_corr(r, full)  == And(Flagged(r, full), "e2a0", {5})
set_plc_enable(r, full)  == Or(Flagged(r, full), "e2a0", {4})
set_plc_disable(r, full) == And(Flagged(r, full), "e2a0", {4})

time_sync_en(r)     == Put(r, "ts0", {0})
time_sync_off(r)    == Put(r, "ts0", {})
set_sync_rst(r)     == Put(r, "ts0", {})
time_tms_en(r)      == Or(r, "ts0", {1})
time_tms_off(r)     == And(r, "ts0", {1})
time_sync_tx_en(r)  == Or(r, "eth15", {0})
time_sync_tx_off(r) == And(r, "eth15", {0})

set_sync_on(r) == Put(r, "a2e6", {0})

\* The register that is read, changed and written is that of the MAC.
set_sync_off(r) == And(Put(r, "a2e6", {}), "eth0", {0})

\* Mutant: the last write is missing.
initiate_sync_stays(r) == Put(Put(r, "eth15", r.eth0 \ {0}), "ts0", {0})

\* What is written back to the control register was read from the MAC's.
initiate_sync(r) == Put(Put(r, "eth15", r.eth0 \ {0}), "ts0", {})

set_pcnt_mode_on(r)    == Or(r, "a2e0", {6})
set_pcnt_mode_off(r)   == And(r, "a2e0", {6})
set_test_mode_on(r)    == Or(r, "a2e0", {7})
set_test_mode_off(r)   == And(r, "a2e0", {7})
set_stream_send_on(r)  == Or(r, "a2e0", {8})

\* Mutant: the mask clears the test bit as well.
set_stream_send_off_both(r) == And(r, "a2e0", {7, 8})

set_stream_send_off(r) == And(r, "a2e0", {8})

TestModes == <<{}, {9}, {10}, {9, 10}, {11}>>
set_test_mode(r, mode) == Or(And(r, "a2e0", 9..11), "a2e0", mode)

\* Mutant: the sequencer stays in reset.
reset_pkt_seq_held(r) == Or(r, "seq1", {0})

reset_pkt_seq(r)   == And(r, "seq1", {0})
disble_pkt_seq(r)  == Or(r, "seq1", {1})
enable_pkt_seq(r)  == And(r, "seq1", {1})
pkt_wait_disable(r) == Or(r, "seq1", {2})
pkt_wait_enable(r)  == And(r, "seq1", {2})
pkt_send_delay_disable(r) == Or(r, "seq1", {3})
pkt_send_delay_enable(r)  == And(r, "seq1", {3})

write_eth_mac(r, mac) == Put(r, "eth0", mac)

\* The end of ui_init.
ui_init(r) == And(set_sync_off(write_eth_mac(r, BoxMac)), "eth15", {0})

Init ==
    /\ reg = ui_init([w \in Registers |-> {}])
    /\ mac_set = BoxMac
    /\ stale = FALSE

----------------------------------------------------------------------------
(* The commands of the console.                                            *)
Run(r)      == reg' = r /\ UNCHANGED <<mac_set, stale>>
RunSync(r)  == reg' = r /\ stale' = FALSE /\ UNCHANGED mac_set

Start     == Run(reset_adc_fifos(Or(reg, "eth15", {1})))
Strrxon   == Run(Or(reg, "eth15", {2}))
Strrxstop == Run(And(reg, "eth15", {2}))

\* The control register is read before set_sync_off and written after it.
Stop == Run(And(set_sync_off(reg), "eth15", {1}))

\* The bit of a core reset is the one that lets the stream out.
Creset == Run(And(reg, "eth15", {1}))

\* freset and rxrsync.
Freset(full) ==
    Run(reset_dac_fifos(
            reset_adc_fifos(reset_pkt_seq(And(reg, "eth15", {1}))), full))

Areset       == Run(reset_adc_fifos(reg))
Preset       == Run(reset_pkt_seq(reg))

\* strselarm, strseleth and the end of strblen.
Strsel(full) == Run(reset_dac_fifos(reg, full))

Reset(full) ==
    RunSync(reset_dac_fifos(
                time_sync_tx_en(time_sync_en(set_sync_rst(
                    time_sync_off(time_sync_tx_off(reg))))), full))

Sync    == RunSync(time_sync_tx_en(time_sync_en(reg)))
Syncoff == RunSync(time_sync_off(reg))
Syncrst == RunSync(set_sync_rst(reg))
Latency == RunSync(time_sync_tx_en(time_tms_en(time_tms_off(
                        time_sync_tx_en(time_sync_en(reg))))))

Setsyncon  == RunSync(set_sync_on(initiate_sync(reg)))
Setsyncoff == Run(set_sync_off(reg))
Tgsync     == Run(set_sync_on(set_sync_off(reg)))

Strmac(mac) ==
    /\ reg' = write_eth_mac(reg, mac)
    /\ mac_set' = mac
    /\ UNCHANGED stale

Strnsp(speed) ==
    Run(And(reg, "eth15", CASE speed = 0 -> {1, 2}
                            [] speed = 1 -> {2}
                            [] speed = 2 -> {1}))

TestCommand == \/ Run(set_test_mode_on(reg))
               \/ Run(set_test_mode_off(reg))
               \/ \E m \in 1..5 : Run(set_test_mode(reg, TestModes[m]))

\* strpktcon, strpktcoff, strsndon and strsndoff.
PacketCommand == \/ Run(set_pcnt_mode_on(reg))
                 \/ Run(set_pcnt_mode_off(reg))
                 \/ Run(set_stream_send_on(reg))
                 \/ Run(set_stream_send_off(reg))

\* pseqoff and pseqon.
SequencerCommand == Run(disble_pkt_seq(reg)) \/ Run(enable_pkt_seq(reg))

\* sqwon, sqwoff, sqsdon and sqsdoff.
DelayCommand == \/ Run(pkt_wait_enable(reg))
                \/ Run(pkt_wait_disable(reg))
                \/ Run(pkt_send_delay_enable(reg))
                \/ Run(pkt_send_delay_disable(reg))

CorrectionCommand(full) ==
    \/ Run(set_buf_corr_on(reg, full))  \* setcoron, tgsrcorr
    \/ Run(clear_buf_corr(reg, full))   \* setcoroff

PlcCommand(full) == \/ Run(set_plc_enable(reg, full))
                    \/ Run(set_plc_disable(reg, full))

\* The program ends, by exit or in another way, and is started again.
Restart ==
    /\ reg' = ui_init(reg)
    /\ mac_set' = BoxMac
    /\ stale' = (0 \in reg.ts0)

StreamCommand == Start \/ Stop \/ Strrxon \/ Strrxstop
SyncCommand   == \/ Sync \/ Syncoff \/ Syncrst \/ Latency
                 \/ Setsyncon \/ Setsyncoff \/ Tgsync
ResetCommand(full) == \/ Creset \/ Areset \/ Preset
                      \/ Freset(full) \/ Strsel(full) \/ Reset(full)

Next == \/ StreamCommand
        \/ SyncCommand
        \/ TestCommand
        \/ PacketCommand
        \/ SequencerCommand
        \/ DelayCommand
        \/ \E full \in SUBSET Flags : \/ ResetCommand(full)
                                      \/ CorrectionCommand(full)
                                      \/ PlcCommand(full)
        \/ \E mac \in Macs : Strmac(mac)
        \/ \E speed \in 0..2 : Strnsp(speed)
        \/ Restart

Spec == Init /\ [][Next]_vars

----------------------------------------------------------------------------
(* The registers hold bits the cores know, and no command leaves a part of *)
(* a core in reset.                                                        *)
ResetBits == [a2e0 |-> {0, 1}, e2a0 |-> {0, 1}, ts0 |-> {2}, seq1 |-> {0}]

TypeOK ==
    /\ reg \in [Registers -> SUBSET (0..11)]
    /\ \A w \in Registers : reg[w] \subseteq Bits[w]
    /\ \A w \in DOMAIN ResetBits : reg[w] \cap ResetBits[w] = {}
    /\ mac_set \in Macs
    /\ stale \in BOOLEAN

(* Time sync is never enabled in its core while the network core keeps its  *)
(* packets back, unless an earlier run of the program left it so:          *)
(* time_sync_tx_off "will block reponses" (stream_control.c:492).          *)
SyncPacketsSent == 0 \in reg.ts0 => 0 \in reg.eth15 \/ stale

(* "strmac: Streaming MAC Address" (ui_control.c:2361): the register of the *)
(* MAC address holds the one the bridge was last given.                    *)
MacAsSet == reg.eth0 = mac_set

----------------------------------------------------------------------------
(* What the registers mean to the user of the console.                     *)
Mode == CHOOSE m \in 1..5 : TestModes[m] = reg.a2e0 \cap (9..11)

Where == [stream_out  |-> <<"eth15", 1>>, stream_in   |-> <<"eth15", 2>>,
          sync_packets |-> <<"eth15", 0>>, sync        |-> <<"a2e6", 0>>,
          packet_count |-> <<"a2e0", 6>>,  test        |-> <<"a2e0", 7>>,
          payload      |-> <<"a2e0", 8>>,  concealment |-> <<"e2a0", 4>>,
          correction   |-> <<"e2a0", 5>>,  time_sync   |-> <<"ts0", 0>>,
          measuring    |-> <<"ts0", 1>>,   sequencer_off |-> <<"seq1", 1>>,
          wait_off     |-> <<"seq1", 2>>,  delay_off   |-> <<"seq1", 3>>]

On == {f \in DOMAIN Where : Where[f][2] \in reg[Where[f][1]]}

Console == INSTANCE Console WITH on <- On, mode <- Mode

(* Every command moves the switches that Console says it moves and no       *)
(* other, however the bits of a word are shared among them.                *)
MovesItsSwitches == Console!Spec
=============================================================================
