----------------------------- MODULE Parameters -----------------------------
(***************************************************************************)
(* The parameters of the bridge program (bp7): the addresses, ports,       *)
(* lengths, limits and delays that its console (ui_control.c) writes to    *)
(* the registers of the FPGA cores and reads back (stream_control.c).      *)
(*                                                                         *)
(* A register is a core and a number.  The functions of stream_control.c   *)
(* know the number, and each command passes the core, which need not be    *)
(* the one the function was written for.  Registers survive the program.   *)
(*                                                                         *)
(* The commands of one run share the variables tmp, dest_port and sw_port: *)
(* a number that is missing (scanf finds no digit) leaves the variable as  *)
(* it was.  An address is what extractIpAddress makes of any word.  All    *)
(* are 32 bits wide (Word stands for 2^32).  The display and the registers *)
(* of the control bits (see Bridge) and of the MAC address are left out,   *)
(* and so are the upper words of the sequencer's delays, which are always  *)
(* written as 0.                                                           *)
(***************************************************************************)
EXTENDS Integers, Sequences

CONSTANTS
    Entries,   \* the numbers and addresses the operator types
    Readings,  \* what the cores answer when they are asked for a count
    Starts,    \* the command lines of the program and the network it finds
    Word       \* numbers wrap at this one

Numbers == 0..(Word - 1)

\* The program takes three arguments, dest, port and sync, or up to three
\* more, sw, the ports of the switch.
Start == [local : Numbers, gateway : Numbers, mask : Numbers, dest : Numbers,
          port : Numbers, sync : Numbers, sw : Seq(Numbers)]

ASSUME ParametersAssumption ==
    /\ Word \in Nat /\ Word > 300
    /\ Entries \subseteq Numbers /\ Entries # {}
    /\ Readings \subseteq Numbers
    /\ Starts \subseteq Start
    /\ \A s \in Starts : Len(s.sw) <= 3

VARIABLES
    up,        \* the program reads its console
    reg,       \* the registers
    tmp,       \* the local variables of ui_input_reader
    dest_port,
    sw_port,
    eaten,     \* the first letter of the next command is lost
    line       \* history: the last command and its number or answer

locals == <<tmp, dest_port, sw_port>>
vars   == <<up, reg, locals, eaten, line>>

----------------------------------------------------------------------------
(* The number of the register that a function of stream_control.c writes   *)
(* or reads.                                                               *)
set_rx_hdr_strip     == 10
clear_rx_hdr_strip   == 10
set_buf_corr_window  == 23
set_xtest_mode_on    == 7
set_xtest_mode       == 8
set_xtest_mode_off   == 7
set_sync_pkt_dly     == 5
set_owdly_cnt        == 8
set_tx_hdr_length    == 9
set_stream_plen      == 3
get_stream_plen      == 3
set_stream_blen      == 5
get_stream_blen      == 5
set_loop_limit       == 29
set_playout_delay    == 11
get_playout_delay    == 11
set_stream_porder    == 0
get_stream_porder    == 0
set_stream_pkt_wait  == 2
set_stream_pkt_send_delay  == 4
set_stream_rx_pkt_size     == 7
set_stream_rx_buf_lim      == 6
set_stream_rx_buf_dlim     == 9
set_stream_rx_buf_docc_lim == 11
set_stream_rx_buf_slack    == 10
set_stream_rx_buf_lim2     == 6
set_plc_replace_delay      == 8
set_seq_replace_lock_delay == 10

\* The clocks, the counts of the playout, the occupancy of its buffers ...
get_instant_playout_time == 16
RxTimeCode == [get_rx_time_code |-> 18, get_rx_time_code_eff |-> 19,
               get_rx_time_code_fout |-> 21, get_rx_time_code_occ |-> 20]
get_instant_playout_writes == 15
get_sync_time              == 13
DacFifoOcc == [get_dac_fifo_occ |-> 23, get_dac_ofifo_occ |-> 23,
               get_dac_efifo_occ |-> 24]
get_instant_playout_reads  == 14
get_stream_readout_delay   == 6

\* ... and those of the packet sequencer.
get_seq_gs == 22
SeqCounts  == [get_pkts_dropped |-> 12, get_pkts_replaced |-> 13,
               get_seq_pkts_rx |-> 21, get_seq_pkts_tx |-> 20,
               get_seq_pkts_ov |-> 19]
ExecState  == [get_in_exec_state |-> 15, get_out_exec_state |-> 16]

\* The packet time enforcer: the register that each function touches first.
EnforcerDrop ==
    [get_pkts_drop_spkt_limit  |-> 3, get_pkts_drop_spkt_locked_limit |-> 21,
     get_pkts_adrop_spkt_limit |-> 5, set_pkts_ptrx_lock      |-> 8,
     set_pkts_pt_accum         |-> 9, get_pkts_pt_accum       |-> 9,
     set_pkts_pt_diff_status  |-> 20, get_pkts_pt_diff_status |-> 20,
     get_pkts_ptrx_lock        |-> 8]
EnforcerDelay ==
    [get_stream_net_delay |-> 10, get_stream_pktbuild_delay       |-> 11,
     get_stream_accum_pkt_delay  |-> 12, get_stream_spkt_delay     |-> 14,
     set_stream_net_delay        |-> 10, set_stream_pktbuild_delay |-> 11,
     set_spkt_to_pkt_delay_limit |-> 3,
     set_spkt_to_pkt_locked_delay_limit |-> 21,
     set_diff_pkt_to_pkt_delay_limit    |-> 16,
     get_diff_pkt_to_pkt_delay_limit    |-> 16,
     get_diff_pkt_to_pkt_delay          |-> 18]
EnforcerSetup ==
    [set_accum_pkt_to_pkt_delay_limit |-> 5, reset_pkt_time_enf_rx |-> 1,
     pkt_time_enf_disable |-> 2, pkt_time_enf_enable |-> 2,
     pkt_to_pkt_locked_drop_enable |-> 23,
     pkt_to_pkt_locked_drop_disable |-> 23]

\* Mutant: the fifth destination is forgotten.
write_eth_param_four ==
    [LOCAL_IP |-> {2}, GTWAY_IP |-> {3}, MASK_IP |-> {4},
     DEST_IP |-> {5, 7, 9, 11}, SYNC_IP |-> {16},
     DEST_PORT |-> {6, 8, 10, 12, 14}, SYNC_PORT |-> {6}]

\* The registers of the network core that take the parameters of an address,
\* a port, or the port of the clocks alone.
write_eth_param == [LOCAL_IP |-> {2}, GTWAY_IP |-> {3}, MASK_IP |-> {4},
                    DEST_IP |-> {5, 7, 9, 11, 13}, SYNC_IP |-> {16},
                    DEST_PORT |-> {6, 8, 10, 12, 14}, SYNC_PORT |-> {6}]

\* The one it is read from.
read_eth_param == [LOCAL_IP |-> 2, GTWAY_IP |-> 3, MASK_IP |-> 4,
                   DEST_IP |-> 5, DEST_PORT |-> 6]

\* The register of a port of the switch.
write_switch_param(port) == port + 1

At(core, numbers) == {<<core, n>> : n \in numbers}
Eth(param)        == At("eth", write_eth_param[param])
One(core, n)      == {<<core, n>>}

----------------------------------------------------------------------------
(* The commands that write: the registers each writes.                     *)

\* Those that take an address.
AddressCommands == [strsip |-> Eth("SYNC_IP"),  strdip |-> Eth("DEST_IP"),
                    strlip |-> Eth("LOCAL_IP"), strgip |-> Eth("GTWAY_IP"),
                    strmask |-> Eth("MASK_IP")]

\* Those that take a port, in dest_port and in sw_port.
PortCommands   == [strport |-> Eth("DEST_PORT"), strsport |-> Eth("SYNC_PORT")]
SwitchCommands == [setswp1 |-> One("sw", write_switch_param(1)),
                   setswp2 |-> One("sw", write_switch_param(2)),
                   setswp3 |-> One("sw", write_switch_param(3)),
                   setswp4 |-> One("sw", write_switch_param(4)),
                   setswp5 |-> One("sw", write_switch_param(5)),
                   setswp6 |-> One("sw", write_switch_param(6)),
                   setswp7 |-> One("sw", write_switch_param(7)),
                   setswp8 |-> One("sw", write_switch_param(8))]

\* Those that take a number in tmp.
LengthCommands ==
    [strplen       |-> One("a2e", set_stream_plen),
     strporder     |-> One("seq", set_stream_porder),
     setppdly      |-> One("seq", set_stream_pkt_wait),
     setsqsdly     |-> One("seq", set_stream_pkt_send_delay),
     setplcpktsize |-> One("seq", set_stream_rx_pkt_size)]

BufferCommands ==
    [setpblim   |-> One("seq", set_stream_rx_buf_lim)
                        \cup One("e2a", set_stream_rx_buf_lim2),
     setdlim    |-> One("e2a", set_stream_rx_buf_dlim),
     setbslk    |-> One("e2a", set_stream_rx_buf_slack),
     setbdlm    |-> One("e2a", set_stream_rx_buf_docc_lim),
     setprdly   |-> One("seq", set_plc_replace_delay),
     setsqlkdly |-> One("seq", set_seq_replace_lock_delay)]

\* Mutant: the length of the buffer and the playout delay are swapped.
PlayoutCommands_swapped == [strblen |-> One("e2a", set_playout_delay),
                            delay   |-> One("e2a", set_stream_blen)]

PlayoutCommands == [strblen |-> One("e2a", set_stream_blen),
                    delay   |-> One("e2a", set_playout_delay)]

sethdrlen    == One("e2a", set_tx_hdr_length)
syncdly      == One("ts", set_sync_pkt_dly)
setowdlycnt  == One("ts", set_owdly_cnt)
setlooplimit == One("e2a", set_loop_limit)

\* Those that write a number of their own: a register and the number.
FixedCommands ==
    [sethdrstrip   |-> <<set_rx_hdr_strip, 1>>,
     clearhdrstrip |-> <<clear_rx_hdr_strip, 0>>,
     strxteston    |-> <<set_xtest_mode_on, 1>>,
     strxtestm1    |-> <<set_xtest_mode, 0>>,
     strxtestm2    |-> <<set_xtest_mode, 1>>,
     strxtestm3    |-> <<set_xtest_mode, 2>>,
     strxtestm4    |-> <<set_xtest_mode, 3>>,
     strxtestm5    |-> <<set_xtest_mode, 4>>,
     strxtestoff   |-> <<set_xtest_mode_off, 0>>]

\* Mutant: the delays are not cut to the width of a number.
Scaled_wide(c, n) == IF c \in {"setppdly", "setsqsdly"} THEN n * 64 ELSE n

\* What a command makes of its number.
Scaled(c, n) == CASE c \in {"setppdly", "setsqsdly"} -> (n * 64) % Word
                  [] c = "delay" -> (n * 48) % Word
                  [] c = "setplcpktsize" -> (n - 2) % Word
                  [] OTHER -> n

----------------------------------------------------------------------------
(* The commands that read: the register each reads into tmp, and shows.    *)

PlayoutGetters ==
    [getpoutdly  |-> <<"e2a", get_playout_delay>>,
     getpouttime |-> <<"e2a", get_instant_playout_time>>,
     getsynctime |-> <<"e2a", get_sync_time>>,
     getrxtc     |-> <<"e2a", RxTimeCode.get_rx_time_code>>,
     getrxtceff  |-> <<"e2a", RxTimeCode.get_rx_time_code_eff>>,
     getrxtcocc  |-> <<"e2a", RxTimeCode.get_rx_time_code_occ>>]

\* gettcvars shows nine of them, the occupancy of the even buffer last.
BufferGetters ==
    [gettcvars |-> <<"e2a", DacFifoOcc.get_dac_efifo_occ>>,
     getpoutr  |-> <<"e2a", get_instant_playout_reads>>,
     getpoutw  |-> <<"e2a", get_instant_playout_writes>>,
     getfocc   |-> <<"e2a", DacFifoOcc.get_dac_fifo_occ>>]

AddressGetters ==
    [getdip  |-> <<"eth", read_eth_param.DEST_IP>>,
     getlip  |-> <<"eth", read_eth_param.LOCAL_IP>>,
     getgip  |-> <<"eth", read_eth_param.GTWAY_IP>>,
     getmask |-> <<"eth", read_eth_param.MASK_IP>>]

\* getport reads into dest_port.
getport == <<"eth", read_eth_param.DEST_PORT>>

SequencerGetters ==
    [getplen      |-> <<"a2e", get_stream_plen>>,
     getporder    |-> <<"seq", get_stream_porder>>,
     getpdrop     |-> <<"seq", SeqCounts.get_pkts_dropped>>,
     getpreplaced |-> <<"seq", SeqCounts.get_pkts_replaced>>,
     getsqgs      |-> <<"seq", get_seq_gs>>,
     getsqrx      |-> <<"seq", SeqCounts.get_seq_pkts_rx>>,
     getsqtx      |-> <<"seq", SeqCounts.get_seq_pkts_tx>>,
     getsqov      |-> <<"seq", SeqCounts.get_seq_pkts_ov>>]

StreamGetters == [getblen  |-> <<"e2a", get_stream_blen>>,
                  getbrdly |-> <<"e2a", get_stream_readout_delay>>]
ExecGetters   == [getsqos  |-> <<"seq", ExecState.get_out_exec_state>>,
                  getsqis  |-> <<"seq", ExecState.get_in_exec_state>>]

\* Those that show something and keep nothing.
CountObservers  == {"nstats", "astatus", "dstatus"}
pbtreset        == {"pbtreset"}
ver             == {"ver"}
getalle2a       == {"getalle2a"}
StatusObservers == {"gete2astatus", "getmac"}
Observers == CountObservers \cup pbtreset \cup ver \cup getalle2a
                \cup StatusObservers

\* Those of the packet time enforcer, and the register each touches first.
EnforcerSwitches == [pbtrreset |-> EnforcerSetup.reset_pkt_time_enf_rx,
                     pbtoff    |-> EnforcerSetup.pkt_time_enf_disable,
                     pbton     |-> EnforcerSetup.pkt_time_enf_enable]

EnforcerLimits ==
    [setptl1   |-> EnforcerDelay.set_spkt_to_pkt_delay_limit,
     setptpidl |-> EnforcerDelay.set_spkt_to_pkt_locked_delay_limit,
     setptl2   |-> EnforcerSetup.set_accum_pkt_to_pkt_delay_limit,
     getptl1   |-> EnforcerDrop.get_pkts_drop_spkt_limit,
     getptpidl |-> EnforcerDrop.get_pkts_drop_spkt_locked_limit,
     getptl2   |-> EnforcerDrop.get_pkts_adrop_spkt_limit,
     getptlock |-> EnforcerDrop.get_pkts_ptrx_lock]

EnforcerLocks ==
    [ptpidon     |-> EnforcerSetup.pkt_to_pkt_locked_drop_enable,
     ptpidoff    |-> EnforcerSetup.pkt_to_pkt_locked_drop_disable,
     getptstatus |-> EnforcerDrop.get_pkts_pt_accum,
     setptlock   |-> EnforcerDrop.set_pkts_ptrx_lock,
     setptaccum  |-> EnforcerDrop.set_pkts_pt_accum,
     clrptaccum  |-> EnforcerDrop.set_pkts_pt_accum,
     getptaccum  |-> EnforcerDrop.get_pkts_pt_accum,
     clrptlock   |-> EnforcerDrop.set_pkts_ptrx_lock]

EnforcerDelays ==
    [getnetdly      |-> EnforcerDelay.get_stream_net_delay,
     getpktbuilddly |-> EnforcerDelay.get_stream_pktbuild_delay,
     getpkt2pktdly  |-> EnforcerDelay.get_stream_spkt_delay,
     getaccpktdly   |-> EnforcerDelay.get_stream_accum_pkt_delay,
     setnetdly      |-> EnforcerDelay.set_stream_net_delay,
     setpktdly      |-> EnforcerDelay.set_stream_pktbuild_delay,
     ptdfon         |-> EnforcerDrop.set_pkts_pt_diff_status,
     ptdfoff        |-> EnforcerDrop.set_pkts_pt_diff_status,
     getptdiffs     |-> EnforcerDrop.get_pkts_pt_diff_status,
     setptdiffl     |-> EnforcerDelay.set_diff_pkt_to_pkt_delay_limit,
     getptdiffl     |-> EnforcerDelay.get_diff_pkt_to_pkt_delay_limit,
     getptdiffv     |-> EnforcerDelay.get_diff_pkt_to_pkt_delay]

----------------------------------------------------------------------------
Registers ==
    At("eth", (2..14) \cup {16}) \cup At("sw", 2..9) \cup At("a2e", {3})
        \cup At("e2a", (5..11) \cup {23, 29}) \cup At("ts", {5, 8})
        \cup At("seq", {0, 2, 4, 6, 7, 8, 10})

\* External: a core answers a read with what was written, but these two, the
\* occupancy of the buffers, and those that are never written, with a count.
Occupancies == At("e2a", {6, 23})
Answers(r)  == IF r \in Registers \ Occupancies THEN {reg[r]} ELSE Readings

Write(registers, n) ==
    reg' = [r \in Registers |-> IF r \in registers THEN n ELSE reg[r]]

\* The program reads a command and finds it.
Command == up /\ ~eaten

Init ==
    /\ up = FALSE
    /\ reg = [r \in Registers |-> 0]
    /\ tmp \in Entries /\ dest_port = 0 /\ sw_port = 0
    /\ eaten = FALSE
    /\ line = <<"", 0>>

\* What ui_init writes: three arguments set the destination and the ports; with
\* more of them the first three are not looked at and read as 0.
Given(s, r) ==
    LET three == s.sw = <<>>
    IN  CASE r = <<"eth", 2>> -> s.local
          [] r = <<"eth", 3>> -> s.gateway
          [] r = <<"eth", 4>> -> s.mask
          [] r \in Eth("DEST_IP") -> IF three THEN s.dest ELSE 0
          [] r \in Eth("SYNC_PORT") \cup One("sw", write_switch_param(2))
                -> IF three THEN s.sync ELSE 0
          [] r \in (Eth("DEST_PORT") \ Eth("SYNC_PORT"))
                    \cup One("sw", write_switch_param(1))
                -> IF three THEN s.port ELSE 0
          [] r \in {<<"sw", write_switch_param(2 + i)>> : i \in 1..Len(s.sw)}
                -> s.sw[r[2] - 3]
          [] r = <<"a2e", set_stream_plen>> -> 300
          [] OTHER -> reg[r]

\* The program is started.  tmp is not initialised.
ui_init(s) ==
    /\ ~up
    /\ up' = TRUE
    /\ reg' = [r \in Registers |-> Given(s, r)]
    /\ tmp' \in Entries /\ dest_port' = 0 /\ sw_port' = 0
    /\ eaten' = FALSE
    /\ line' = <<"", 0>>

\* The order in which ui_init writes: the port of the first destination is
\* written in the clocks' register, too, and overwritten.
StartOrder ==
    <<<<"sw", 2>>, <<"sw", 3>>, <<"sw", 4>>, <<"sw", 5>>, <<"sw", 6>>,
      <<"eth", 2>>, <<"eth", 5>>, <<"eth", 7>>, <<"eth", 9>>, <<"eth", 11>>,
      <<"eth", 13>>, <<"eth", 4>>, <<"eth", 3>>, <<"eth", 6>>, <<"eth", 8>>,
      <<"eth", 10>>, <<"eth", 12>>, <<"eth", 14>>>>

\* The program is killed while it starts, after its first k writes.
CutStart(s, k) ==
    /\ ~up
    /\ LET written == {StartOrder[i] : i \in 1..k}
       IN  reg' = [r \in Registers |->
                     IF r \notin written THEN reg[r]
                     ELSE Given(s, IF r \in Eth("SYNC_PORT")
                                      THEN <<"eth", 8>> ELSE r)]
    /\ line' = <<"killed", 0>>
    /\ UNCHANGED <<up, locals, eaten>>

SetAddress(c) ==
    /\ Command
    /\ \E n \in Entries : /\ Write(AddressCommands[c], n)
                          /\ line' = <<c, n>>
    /\ UNCHANGED <<up, locals, eaten>>

SetPort(c) ==
    /\ Command
    /\ \E n \in Entries \cup {dest_port} :
          /\ dest_port' = n
          /\ Write(PortCommands[c], n)
          /\ line' = <<c, n>>
    /\ UNCHANGED <<up, tmp, sw_port, eaten>>

SetSwitch(c) ==
    /\ Command
    /\ \E n \in Entries \cup {sw_port} : /\ sw_port' = n
                                         /\ Write(SwitchCommands[c], n)
                                         /\ line' = <<c, n>>
    /\ UNCHANGED <<up, tmp, dest_port, eaten>>

SetNumber(c, registers) ==
    /\ Command
    /\ \E n \in Entries \cup {tmp} : /\ tmp' = n
                                     /\ Write(registers, Scaled(c, n))
                                     /\ line' = <<c, n>>
    /\ UNCHANGED <<up, dest_port, sw_port, eaten>>

\* setcrwin: the command asks for no number and takes what tmp holds.
SetWindow ==
    /\ Command
    /\ Write(One("e2a", set_buf_corr_window), tmp)
    /\ line' = <<"setcrwin", tmp>>
    /\ UNCHANGED <<up, locals, eaten>>

SetFixed(c) ==
    /\ Command
    /\ Write(One("e2a", FixedCommands[c][1]), FixedCommands[c][2])
    /\ line' = <<c, FixedCommands[c][2]>>
    /\ UNCHANGED <<up, locals, eaten>>

GetNumber(c, r) ==
    /\ Command
    /\ tmp' \in Answers(r)
    /\ line' = <<c, tmp'>>
    /\ UNCHANGED <<up, reg, dest_port, sw_port, eaten>>

GetPort ==
    /\ Command
    /\ dest_port' \in Answers(getport)
    /\ line' = <<"getport", dest_port'>>
    /\ UNCHANGED <<up, reg, tmp, sw_port, eaten>>

Observe(c) ==
    /\ Command
    /\ line' = <<c, 0>>
    /\ UNCHANGED <<up, reg, locals, eaten>>

\* strnsp (see Bridge) reads its number into tmp as well.
Strnsp ==
    /\ Command
    /\ tmp' \in Entries \cup {tmp}
    /\ line' = <<"strnsp", tmp'>>
    /\ UNCHANGED <<up, reg, dest_port, sw_port, eaten>>

\* help waits for two more characters: the end of its own line and, unless
\* something follows it there, the first letter of the next command.
help ==
    /\ Command
    /\ eaten' \in BOOLEAN
    /\ line' = <<"help", 0>>
    /\ UNCHANGED <<up, reg, locals>>

\* A word that is no command: the rest of one, or a number too many.
Invalid ==
    /\ up
    /\ eaten' = FALSE
    /\ line' = <<"invalid", 0>>
    /\ UNCHANGED <<up, reg, locals>>

\* The packet time enforcer is not mapped: the base of its registers is null,
\* and the first access to one ends the program.
Crash(c, n) ==
    /\ Command
    /\ up' = FALSE
    /\ line' = <<c, n>>
    /\ UNCHANGED <<reg, locals, eaten>>

\* The program is killed when it has written some of a command's registers,
\* those with a number up to k.
Cut(registers, k) ==
    /\ Command
    /\ up' = FALSE
    /\ \E n \in Entries : /\ Write({r \in registers : r[2] <= k}, n)
                          /\ line' = <<"killed", n>>
    /\ UNCHANGED <<locals, eaten>>

Killed ==
    \/ \E s \in Starts, k \in DOMAIN StartOrder : CutStart(s, k)
    \/ \E c \in DOMAIN AddressCommands, k \in 2..16 : Cut(AddressCommands[c], k)
    \/ \E c \in DOMAIN PortCommands, k \in 6..14 : Cut(PortCommands[c], k)
    \/ Cut(One("seq", set_stream_rx_buf_lim), set_stream_rx_buf_lim)

\* exit, or the program ends in another way.
Exit ==
    /\ up
    /\ up' = FALSE
    /\ line' = <<"exit", 0>>
    /\ UNCHANGED <<reg, locals, eaten>>

NumberCommand ==
    \/ \E c \in DOMAIN LengthCommands : SetNumber(c, LengthCommands[c])
    \/ \E c \in DOMAIN BufferCommands : SetNumber(c, BufferCommands[c])
    \/ \E c \in DOMAIN PlayoutCommands : SetNumber(c, PlayoutCommands[c])
    \/ SetNumber("sethdrlen", sethdrlen)
    \/ SetNumber("syncdly", syncdly)
    \/ SetNumber("setowdlycnt", setowdlycnt)
    \/ SetNumber("setlooplimit", setlooplimit)

GetCommand ==
    \/ \E c \in DOMAIN PlayoutGetters : GetNumber(c, PlayoutGetters[c])
    \/ \E c \in DOMAIN BufferGetters : GetNumber(c, BufferGetters[c])
    \/ \E c \in DOMAIN AddressGetters : GetNumber(c, AddressGetters[c])
    \/ \E c \in DOMAIN SequencerGetters : GetNumber(c, SequencerGetters[c])
    \/ \E c \in DOMAIN StreamGetters : GetNumber(c, StreamGetters[c])
    \/ \E c \in DOMAIN ExecGetters : GetNumber(c, ExecGetters[c])
    \/ GetPort

EnforcerCommand ==
    \/ \E c \in DOMAIN EnforcerSwitches : Crash(c, EnforcerSwitches[c])
    \/ \E c \in DOMAIN EnforcerLimits : Crash(c, EnforcerLimits[c])
    \/ \E c \in DOMAIN EnforcerLocks : Crash(c, EnforcerLocks[c])
    \/ \E c \in DOMAIN EnforcerDelays : Crash(c, EnforcerDelays[c])

Next ==
    \/ \E s \in Starts : ui_init(s)
    \/ \E c \in DOMAIN AddressCommands : SetAddress(c)
    \/ \E c \in DOMAIN PortCommands : SetPort(c)
    \/ \E c \in DOMAIN SwitchCommands : SetSwitch(c)
    \/ NumberCommand
    \/ SetWindow
    \/ \E c \in DOMAIN FixedCommands : SetFixed(c)
    \/ GetCommand
    \/ \E c \in Observers : Observe(c)
    \/ Strnsp
    \/ EnforcerCommand
    \/ help
    \/ Invalid
    \/ Exit
    \/ Killed

Spec == Init /\ [][Next]_vars

----------------------------------------------------------------------------
\* Type invariant: numbers and registers stay within their width.
TypeOK ==
    /\ up \in BOOLEAN /\ eaten \in BOOLEAN
    /\ reg \in [Registers -> Numbers]
    /\ tmp \in Numbers /\ dest_port \in Numbers /\ sw_port \in Numbers
    /\ line[2] \in Numbers

(* While the console is open the five channels of the network core send to *)
(* one address, and four of them to one port, wherever between two of its  *)
(* writes the program was killed before; the first channel shares its port *)
(* register with the clocks (stream_control.c:1538) and may differ.        *)
DestinationIps   == At("eth", {5, 7, 9, 11, 13})
DestinationPorts == At("eth", {8, 10, 12, 14})

OneDestination ==
    up => /\ \A r, q \in DestinationIps : reg[r] = reg[q]
          /\ \A r, q \in DestinationPorts : reg[r] = reg[q]

----------------------------------------------------------------------------
(* The parameters as the user of the console knows them.                   *)
Where ==
    [local_ip |-> <<"eth", 2>>,  gateway_ip |-> <<"eth", 3>>,
     mask_ip  |-> <<"eth", 4>>,  dest_ip    |-> <<"eth", 5>>,
     sync_ip  |-> <<"eth", 16>>, dest_port  |-> <<"eth", 8>>,
     sync_port |-> <<"eth", 6>>,
     sw1 |-> <<"sw", 2>>, sw2 |-> <<"sw", 3>>, sw3 |-> <<"sw", 4>>,
     sw4 |-> <<"sw", 5>>, sw5 |-> <<"sw", 6>>, sw6 |-> <<"sw", 7>>,
     sw7 |-> <<"sw", 8>>, sw8 |-> <<"sw", 9>>,
     packet_length |-> <<"a2e", 3>>,  order        |-> <<"seq", 0>>,
     wait_delay    |-> <<"seq", 2>>,  send_delay   |-> <<"seq", 4>>,
     plc_size      |-> <<"seq", 7>>,  packet_limit |-> <<"seq", 6>>,
     buffer_limit  |-> <<"e2a", 6>>,  replace_delay |-> <<"seq", 8>>,
     lock_delay    |-> <<"seq", 10>>, buffer_length |-> <<"e2a", 5>>,
     header_length |-> <<"e2a", 9>>,  drop_limit    |-> <<"e2a", 9>>,
     header_strip  |-> <<"e2a", 10>>, slack         |-> <<"e2a", 10>>,
     playout_delay |-> <<"e2a", 11>>, late_limit    |-> <<"e2a", 11>>,
     test_on       |-> <<"e2a", 7>>,  test_mode     |-> <<"e2a", 8>>,
     window        |-> <<"e2a", 23>>, loop_limit    |-> <<"e2a", 29>>,
     sync_delay    |-> <<"ts", 5>>,   one_way_delay |-> <<"ts", 8>>]

Value == [p \in DOMAIN Where |-> reg[Where[p]]]

Sheet == INSTANCE Sheet WITH value <- Value

(* Every command that sets a parameter moves it and the ones that share     *)
(* its register, as Sheet says, and no other; a command that shows one      *)
(* shows what was last set.                                                *)
KeepsTheSheet == Sheet!Spec
=============================================================================
