-------------------------- MODULE Parameters_proofs --------------------------
(***************************************************************************)
(* Proofs about Parameters: its types, the one destination of the network  *)
(* core, and that the console keeps what Sheet promises.                   *)
(*                                                                         *)
(* Both arguments rest on tables of which registers a command writes: a    *)
(* command hits the registers of the parameters that Sheet says it sets,   *)
(* and no other parameter's, and it writes all registers of the            *)
(* destination or none.                                                    *)
(***************************************************************************)
EXTENDS Parameters, SequenceTheorems, TLAPS

----------------------------------------------------------------------------
(* The tables.                                                             *)

\* The registers R belong to the parameters that command c sets.
Hits(c, R) == \A p \in DOMAIN Where : Where[p] \in R <=> p \in Sheet!Sets[c]

\* The registers R are of another core than the network's.
OffNetwork(R) == \A r \in R : r[1] # "eth"

\* The registers R hold the whole destination or nothing of it.
AllOrNone(R) ==
    /\ DestinationIps \subseteq R \/ DestinationIps \cap R = {}
    /\ DestinationPorts \subseteq R \/ DestinationPorts \cap R = {}

\* Every parameter has a register.
LEMMA WherePlaces == \A p \in DOMAIN Where : Where[p] \in Registers
  BY DEF Where, Registers, At

\* The registers of the destination are registers of the network core.
LEMMA DestinationPlaces ==
    /\ DestinationIps \subseteq Registers
    /\ DestinationPorts \subseteq Registers
    /\ \A r \in DestinationIps \cup DestinationPorts : r[1] = "eth"
  BY DEF DestinationIps, DestinationPorts, Registers, At

\* What is off the network core misses the destination.
LEMMA OffNetworkMisses == ASSUME NEW R, OffNetwork(R) PROVE AllOrNone(R)
  BY DestinationPlaces DEF OffNetwork, AllOrNone

\* The commands that take an address ...
LEMMA AddressTable ==
    ASSUME NEW c \in DOMAIN AddressCommands
    PROVE  /\ c \in DOMAIN Sheet!Sets
           /\ Hits(c, AddressCommands[c])
           /\ AllOrNone(AddressCommands[c])
           /\ AddressCommands[c] \subseteq Registers
           /\ \A n : Sheet!Kept(c, n) = n
<1>1. c \in {"strsip", "strdip", "strlip", "strgip", "strmask"}
  BY DEF AddressCommands
<1>2. c \in DOMAIN Sheet!Sets
  BY <1>1 DEF Sheet!Sets
<1>3. CASE c = "strsip"
  <2>1. AddressCommands[c] = At("eth", {16})
    BY <1>3 DEF AddressCommands, Eth, write_eth_param
  <2>2. Sheet!Sets[c] = {"sync_ip"}
    BY <1>3 DEF Sheet!Sets
  <2>3. Hits(c, AddressCommands[c])
    BY <2>1, <2>2 DEF Hits, Where, At
  <2>4. AllOrNone(AddressCommands[c])
    BY <2>1 DEF AllOrNone, DestinationIps, DestinationPorts, At
  <2>5. AddressCommands[c] \subseteq Registers
    BY <2>1 DEF Registers, At
  <2> QED BY <1>2, <2>3, <2>4, <2>5, <1>3 DEF Sheet!Kept
<1>4. CASE c = "strdip"
  <2>1. AddressCommands[c] = At("eth", {5, 7, 9, 11, 13})
    BY <1>4 DEF AddressCommands, Eth, write_eth_param
  <2>2. Sheet!Sets[c] = {"dest_ip"}
    BY <1>4 DEF Sheet!Sets
  <2>3. Hits(c, AddressCommands[c])
    BY <2>1, <2>2 DEF Hits, Where, At
  <2>4. AllOrNone(AddressCommands[c])
    BY <2>1 DEF AllOrNone, DestinationIps, DestinationPorts, At
  <2>5. AddressCommands[c] \subseteq Registers
    BY <2>1 DEF Registers, At
  <2> QED BY <1>2, <2>3, <2>4, <2>5, <1>4 DEF Sheet!Kept
<1>5. CASE c = "strlip"
  <2>1. AddressCommands[c] = At("eth", {2})
    BY <1>5 DEF AddressCommands, Eth, write_eth_param
  <2>2. Sheet!Sets[c] = {"local_ip"}
    BY <1>5 DEF Sheet!Sets
  <2>3. Hits(c, AddressCommands[c])
    BY <2>1, <2>2 DEF Hits, Where, At
  <2>4. AllOrNone(AddressCommands[c])
    BY <2>1 DEF AllOrNone, DestinationIps, DestinationPorts, At
  <2>5. AddressCommands[c] \subseteq Registers
    BY <2>1 DEF Registers, At
  <2> QED BY <1>2, <2>3, <2>4, <2>5, <1>5 DEF Sheet!Kept
<1>6. CASE c = "strgip"
  <2>1. AddressCommands[c] = At("eth", {3})
    BY <1>6 DEF AddressCommands, Eth, write_eth_param
  <2>2. Sheet!Sets[c] = {"gateway_ip"}
    BY <1>6 DEF Sheet!Sets
  <2>3. Hits(c, AddressCommands[c])
    BY <2>1, <2>2 DEF Hits, Where, At
  <2>4. AllOrNone(AddressCommands[c])
    BY <2>1 DEF AllOrNone, DestinationIps, DestinationPorts, At
  <2>5. AddressCommands[c] \subseteq Registers
    BY <2>1 DEF Registers, At
  <2> QED BY <1>2, <2>3, <2>4, <2>5, <1>6 DEF Sheet!Kept
<1>7. CASE c = "strmask"
  <2>1. AddressCommands[c] = At("eth", {4})
    BY <1>7 DEF AddressCommands, Eth, write_eth_param
  <2>2. Sheet!Sets[c] = {"mask_ip"}
    BY <1>7 DEF Sheet!Sets
  <2>3. Hits(c, AddressCommands[c])
    BY <2>1, <2>2 DEF Hits, Where, At
  <2>4. AllOrNone(AddressCommands[c])
    BY <2>1 DEF AllOrNone, DestinationIps, DestinationPorts, At
  <2>5. AddressCommands[c] \subseteq Registers
    BY <2>1 DEF Registers, At
  <2> QED BY <1>2, <2>3, <2>4, <2>5, <1>7 DEF Sheet!Kept
<1> QED BY <1>1, <1>3, <1>4, <1>5, <1>6, <1>7

\* ... or a port,
LEMMA PortTable ==
    ASSUME NEW c \in DOMAIN PortCommands
    PROVE  /\ c \in DOMAIN Sheet!Sets
           /\ Hits(c, PortCommands[c])
           /\ AllOrNone(PortCommands[c])
           /\ PortCommands[c] \subseteq Registers
           /\ \A n : Sheet!Kept(c, n) = n
<1>1. c \in {"strport", "strsport"}
  BY DEF PortCommands
<1>2. c \in DOMAIN Sheet!Sets
  BY <1>1 DEF Sheet!Sets
<1>3. CASE c = "strport"
  <2>1. PortCommands[c] = At("eth", {6, 8, 10, 12, 14})
    BY <1>3 DEF PortCommands, Eth, write_eth_param
  <2>2. Sheet!Sets[c] = {"dest_port", "sync_port"}
    BY <1>3 DEF Sheet!Sets
  <2>3. Hits(c, PortCommands[c])
    BY <2>1, <2>2 DEF Hits, Where, At
  <2>4. AllOrNone(PortCommands[c])
    BY <2>1 DEF AllOrNone, DestinationIps, DestinationPorts, At
  <2>5. PortCommands[c] \subseteq Registers
    BY <2>1 DEF Registers, At
  <2> QED BY <1>2, <2>3, <2>4, <2>5, <1>3 DEF Sheet!Kept
<1>4. CASE c = "strsport"
  <2>1. PortCommands[c] = At("eth", {6})
    BY <1>4 DEF PortCommands, Eth, write_eth_param
  <2>2. Sheet!Sets[c] = {"sync_port"}
    BY <1>4 DEF Sheet!Sets
  <2>3. Hits(c, PortCommands[c])
    BY <2>1, <2>2 DEF Hits, Where, At
  <2>4. AllOrNone(PortCommands[c])
    BY <2>1 DEF AllOrNone, DestinationIps, DestinationPorts, At
  <2>5. PortCommands[c] \subseteq Registers
    BY <2>1 DEF Registers, At
  <2> QED BY <1>2, <2>3, <2>4, <2>5, <1>4 DEF Sheet!Kept
<1> QED BY <1>1, <1>3, <1>4

\* ... a port of the switch,
LEMMA SwitchTable ==
    ASSUME NEW c \in DOMAIN SwitchCommands
    PROVE  /\ c \in DOMAIN Sheet!Sets
           /\ Hits(c, SwitchCommands[c])
           /\ OffNetwork(SwitchCommands[c])
           /\ SwitchCommands[c] \subseteq Registers
           /\ \A n : Sheet!Kept(c, n) = n
<1>1. c \in
      {"setswp1", "setswp2", "setswp3", "setswp4", "setswp5", "setswp6",
       "setswp7", "setswp8"}
  BY DEF SwitchCommands
<1>2. c \in DOMAIN Sheet!Sets
  BY <1>1 DEF Sheet!Sets
<1>3. CASE c = "setswp1"
  <2>1. SwitchCommands[c] = At("sw", {2})
    BY <1>3 DEF SwitchCommands, One, At, write_switch_param
  <2>2. Sheet!Sets[c] = {"sw1"}
    BY <1>3 DEF Sheet!Sets
  <2>3. Hits(c, SwitchCommands[c])
    BY <2>1, <2>2 DEF Hits, Where, At
  <2>4. /\ OffNetwork(SwitchCommands[c])
        /\ SwitchCommands[c] \subseteq Registers
    BY <2>1 DEF OffNetwork, Registers, At
  <2>5. \A n : Sheet!Kept(c, n) = n
    BY <1>3 DEF SwitchCommands, Sheet!Kept
  <2> QED BY <1>2, <2>3, <2>4, <2>5
<1>4. CASE c = "setswp2"
  <2>1. SwitchCommands[c] = At("sw", {3})
    BY <1>4 DEF SwitchCommands, One, At, write_switch_param
  <2>2. Sheet!Sets[c] = {"sw2"}
    BY <1>4 DEF Sheet!Sets
  <2>3. Hits(c, SwitchCommands[c])
    BY <2>1, <2>2 DEF Hits, Where, At
  <2>4. /\ OffNetwork(SwitchCommands[c])
        /\ SwitchCommands[c] \subseteq Registers
    BY <2>1 DEF OffNetwork, Registers, At
  <2>5. \A n : Sheet!Kept(c, n) = n
    BY <1>4 DEF SwitchCommands, Sheet!Kept
  <2> QED BY <1>2, <2>3, <2>4, <2>5
<1>5. CASE c = "setswp3"
  <2>1. SwitchCommands[c] = At("sw", {4})
    BY <1>5 DEF SwitchCommands, One, At, write_switch_param
  <2>2. Sheet!Sets[c] = {"sw3"}
    BY <1>5 DEF Sheet!Sets
  <2>3. Hits(c, SwitchCommands[c])
    BY <2>1, <2>2 DEF Hits, Where, At
  <2>4. /\ OffNetwork(SwitchCommands[c])
        /\ SwitchCommands[c] \subseteq Registers
    BY <2>1 DEF OffNetwork, Registers, At
  <2>5. \A n : Sheet!Kept(c, n) = n
    BY <1>5 DEF SwitchCommands, Sheet!Kept
  <2> QED BY <1>2, <2>3, <2>4, <2>5
<1>6. CASE c = "setswp4"
  <2>1. SwitchCommands[c] = At("sw", {5})
    BY <1>6 DEF SwitchCommands, One, At, write_switch_param
  <2>2. Sheet!Sets[c] = {"sw4"}
    BY <1>6 DEF Sheet!Sets
  <2>3. Hits(c, SwitchCommands[c])
    BY <2>1, <2>2 DEF Hits, Where, At
  <2>4. /\ OffNetwork(SwitchCommands[c])
        /\ SwitchCommands[c] \subseteq Registers
    BY <2>1 DEF OffNetwork, Registers, At
  <2>5. \A n : Sheet!Kept(c, n) = n
    BY <1>6 DEF SwitchCommands, Sheet!Kept
  <2> QED BY <1>2, <2>3, <2>4, <2>5
<1>7. CASE c = "setswp5"
  <2>1. SwitchCommands[c] = At("sw", {6})
    BY <1>7 DEF SwitchCommands, One, At, write_switch_param
  <2>2. Sheet!Sets[c] = {"sw5"}
    BY <1>7 DEF Sheet!Sets
  <2>3. Hits(c, SwitchCommands[c])
    BY <2>1, <2>2 DEF Hits, Where, At
  <2>4. /\ OffNetwork(SwitchCommands[c])
        /\ SwitchCommands[c] \subseteq Registers
    BY <2>1 DEF OffNetwork, Registers, At
  <2>5. \A n : Sheet!Kept(c, n) = n
    BY <1>7 DEF SwitchCommands, Sheet!Kept
  <2> QED BY <1>2, <2>3, <2>4, <2>5
<1>8. CASE c = "setswp6"
  <2>1. SwitchCommands[c] = At("sw", {7})
    BY <1>8 DEF SwitchCommands, One, At, write_switch_param
  <2>2. Sheet!Sets[c] = {"sw6"}
    BY <1>8 DEF Sheet!Sets
  <2>3. Hits(c, SwitchCommands[c])
    BY <2>1, <2>2 DEF Hits, Where, At
  <2>4. /\ OffNetwork(SwitchCommands[c])
        /\ SwitchCommands[c] \subseteq Registers
    BY <2>1 DEF OffNetwork, Registers, At
  <2>5. \A n : Sheet!Kept(c, n) = n
    BY <1>8 DEF SwitchCommands, Sheet!Kept
  <2> QED BY <1>2, <2>3, <2>4, <2>5
<1>9. CASE c = "setswp7"
  <2>1. SwitchCommands[c] = At("sw", {8})
    BY <1>9 DEF SwitchCommands, One, At, write_switch_param
  <2>2. Sheet!Sets[c] = {"sw7"}
    BY <1>9 DEF Sheet!Sets
  <2>3. Hits(c, SwitchCommands[c])
    BY <2>1, <2>2 DEF Hits, Where, At
  <2>4. /\ OffNetwork(SwitchCommands[c])
        /\ SwitchCommands[c] \subseteq Registers
    BY <2>1 DEF OffNetwork, Registers, At
  <2>5. \A n : Sheet!Kept(c, n) = n
    BY <1>9 DEF SwitchCommands, Sheet!Kept
  <2> QED BY <1>2, <2>3, <2>4, <2>5
<1>10. CASE c = "setswp8"
  <2>1. SwitchCommands[c] = At("sw", {9})
    BY <1>10 DEF SwitchCommands, One, At, write_switch_param
  <2>2. Sheet!Sets[c] = {"sw8"}
    BY <1>10 DEF Sheet!Sets
  <2>3. Hits(c, SwitchCommands[c])
    BY <2>1, <2>2 DEF Hits, Where, At
  <2>4. /\ OffNetwork(SwitchCommands[c])
        /\ SwitchCommands[c] \subseteq Registers
    BY <2>1 DEF OffNetwork, Registers, At
  <2>5. \A n : Sheet!Kept(c, n) = n
    BY <1>10 DEF SwitchCommands, Sheet!Kept
  <2> QED BY <1>2, <2>3, <2>4, <2>5
<1> QED BY <1>1, <1>3, <1>4, <1>5, <1>6, <1>7, <1>8, <1>9, <1>10

\* ... a number,
LEMMA LengthTable ==
    ASSUME NEW c \in DOMAIN LengthCommands
    PROVE  /\ c \in DOMAIN Sheet!Sets
           /\ Hits(c, LengthCommands[c])
           /\ OffNetwork(LengthCommands[c])
           /\ LengthCommands[c] \subseteq Registers
<1>1. c \in {"strplen", "strporder", "setppdly", "setsqsdly", "setplcpktsize"}
  BY DEF LengthCommands
<1>2. c \in DOMAIN Sheet!Sets
  BY <1>1 DEF Sheet!Sets
<1>3. CASE c = "strplen"
  <2>1. LengthCommands[c] = At("a2e", {3})
    BY <1>3 DEF LengthCommands, One, At, set_stream_plen
  <2>2. Sheet!Sets[c] = {"packet_length"}
    BY <1>3 DEF Sheet!Sets
  <2>3. Hits(c, LengthCommands[c])
    BY <2>1, <2>2 DEF Hits, Where, At
  <2>4. /\ OffNetwork(LengthCommands[c])
        /\ LengthCommands[c] \subseteq Registers
    BY <2>1 DEF OffNetwork, Registers, At
  <2> QED BY <1>2, <2>3, <2>4
<1>4. CASE c = "strporder"
  <2>1. LengthCommands[c] = At("seq", {0})
    BY <1>4 DEF LengthCommands, One, At, set_stream_porder
  <2>2. Sheet!Sets[c] = {"order"}
    BY <1>4 DEF Sheet!Sets
  <2>3. Hits(c, LengthCommands[c])
    BY <2>1, <2>2 DEF Hits, Where, At
  <2>4. /\ OffNetwork(LengthCommands[c])
        /\ LengthCommands[c] \subseteq Registers
    BY <2>1 DEF OffNetwork, Registers, At
  <2> QED BY <1>2, <2>3, <2>4
<1>5. CASE c = "setppdly"
  <2>1. LengthCommands[c] = At("seq", {2})
    BY <1>5 DEF LengthCommands, One, At, set_stream_pkt_wait
  <2>2. Sheet!Sets[c] = {"wait_delay"}
    BY <1>5 DEF Sheet!Sets
  <2>3. Hits(c, LengthCommands[c])
    BY <2>1, <2>2 DEF Hits, Where, At
  <2>4. /\ OffNetwork(LengthCommands[c])
        /\ LengthCommands[c] \subseteq Registers
    BY <2>1 DEF OffNetwork, Registers, At
  <2> QED BY <1>2, <2>3, <2>4
<1>6. CASE c = "setsqsdly"
  <2>1. LengthCommands[c] = At("seq", {4})
    BY <1>6 DEF LengthCommands, One, At, set_stream_pkt_send_delay
  <2>2. Sheet!Sets[c] = {"send_delay"}
    BY <1>6 DEF Sheet!Sets
  <2>3. Hits(c, LengthCommands[c])
    BY <2>1, <2>2 DEF Hits, Where, At
  <2>4. /\ OffNetwork(LengthCommands[c])
        /\ LengthCommands[c] \subseteq Registers
    BY <2>1 DEF OffNetwork, Registers, At
  <2> QED BY <1>2, <2>3, <2>4
<1>7. CASE c = "setplcpktsize"
  <2>1. LengthCommands[c] = At("seq", {7})
    BY <1>7 DEF LengthCommands, One, At, set_stream_rx_pkt_size
  <2>2. Sheet!Sets[c] = {"plc_size"}
    BY <1>7 DEF Sheet!Sets
  <2>3. Hits(c, LengthCommands[c])
    BY <2>1, <2>2 DEF Hits, Where, At
  <2>4. /\ OffNetwork(LengthCommands[c])
        /\ LengthCommands[c] \subseteq Registers
    BY <2>1 DEF OffNetwork, Registers, At
  <2> QED BY <1>2, <2>3, <2>4
<1> QED BY <1>1, <1>3, <1>4, <1>5, <1>6, <1>7

\* ... or a limit.
LEMMA BufferTable ==
    ASSUME NEW c \in DOMAIN BufferCommands
    PROVE  /\ c \in DOMAIN Sheet!Sets
           /\ Hits(c, BufferCommands[c])
           /\ OffNetwork(BufferCommands[c])
           /\ BufferCommands[c] \subseteq Registers
<1>1. c \in
      {"setpblim", "setdlim", "setbslk", "setbdlm", "setprdly", "setsqlkdly"}
  BY DEF BufferCommands
<1>2. c \in DOMAIN Sheet!Sets
  BY <1>1 DEF Sheet!Sets
<1>3. CASE c = "setpblim"
  <2>1. BufferCommands[c] = At("seq", {6}) \cup At("e2a", {6})
    BY <1>3 DEF BufferCommands, One, At, set_stream_rx_buf_lim,
          set_stream_rx_buf_lim2
  <2>2. Sheet!Sets[c] = {"packet_limit", "buffer_limit"}
    BY <1>3 DEF Sheet!Sets
  <2>3. Hits(c, BufferCommands[c])
    BY <2>1, <2>2 DEF Hits, Where, At
  <2>4. /\ OffNetwork(BufferCommands[c])
        /\ BufferCommands[c] \subseteq Registers
    BY <2>1 DEF OffNetwork, Registers, At
  <2> QED BY <1>2, <2>3, <2>4
<1>4. CASE c = "setdlim"
  <2>1. BufferCommands[c] = At("e2a", {9})
    BY <1>4 DEF BufferCommands, One, At, set_stream_rx_buf_dlim
  <2>2. Sheet!Sets[c] = Sheet!Length
    BY <1>4 DEF Sheet!Sets
  <2>3. Hits(c, BufferCommands[c])
    BY <2>1, <2>2 DEF Hits, Where, At, Sheet!Length
  <2>4. /\ OffNetwork(BufferCommands[c])
        /\ BufferCommands[c] \subseteq Registers
    BY <2>1 DEF OffNetwork, Registers, At
  <2> QED BY <1>2, <2>3, <2>4
<1>5. CASE c = "setbslk"
  <2>1. BufferCommands[c] = At("e2a", {10})
    BY <1>5 DEF BufferCommands, One, At, set_stream_rx_buf_slack
  <2>2. Sheet!Sets[c] = Sheet!Strip
    BY <1>5 DEF Sheet!Sets
  <2>3. Hits(c, BufferCommands[c])
    BY <2>1, <2>2 DEF Hits, Where, At, Sheet!Strip
  <2>4. /\ OffNetwork(BufferCommands[c])
        /\ BufferCommands[c] \subseteq Registers
    BY <2>1 DEF OffNetwork, Registers, At
  <2> QED BY <1>2, <2>3, <2>4
<1>6. CASE c = "setbdlm"
  <2>1. BufferCommands[c] = At("e2a", {11})
    BY <1>6 DEF BufferCommands, One, At, set_stream_rx_buf_docc_lim
  <2>2. Sheet!Sets[c] = Sheet!Delay
    BY <1>6 DEF Sheet!Sets
  <2>3. Hits(c, BufferCommands[c])
    BY <2>1, <2>2 DEF Hits, Where, At, Sheet!Delay
  <2>4. /\ OffNetwork(BufferCommands[c])
        /\ BufferCommands[c] \subseteq Registers
    BY <2>1 DEF OffNetwork, Registers, At
  <2> QED BY <1>2, <2>3, <2>4
<1>7. CASE c = "setprdly"
  <2>1. BufferCommands[c] = At("seq", {8})
    BY <1>7 DEF BufferCommands, One, At, set_plc_replace_delay
  <2>2. Sheet!Sets[c] = {"replace_delay"}
    BY <1>7 DEF Sheet!Sets
  <2>3. Hits(c, BufferCommands[c])
    BY <2>1, <2>2 DEF Hits, Where, At
  <2>4. /\ OffNetwork(BufferCommands[c])
        /\ BufferCommands[c] \subseteq Registers
    BY <2>1 DEF OffNetwork, Registers, At
  <2> QED BY <1>2, <2>3, <2>4
<1>8. CASE c = "setsqlkdly"
  <2>1. BufferCommands[c] = At("seq", {10})
    BY <1>8 DEF BufferCommands, One, At, set_seq_replace_lock_delay
  <2>2. Sheet!Sets[c] = {"lock_delay"}
    BY <1>8 DEF Sheet!Sets
  <2>3. Hits(c, BufferCommands[c])
    BY <2>1, <2>2 DEF Hits, Where, At
  <2>4. /\ OffNetwork(BufferCommands[c])
        /\ BufferCommands[c] \subseteq Registers
    BY <2>1 DEF OffNetwork, Registers, At
  <2> QED BY <1>2, <2>3, <2>4
<1> QED BY <1>1, <1>3, <1>4, <1>5, <1>6, <1>7, <1>8

\* The length of the buffer and the playout delay.
LEMMA PlayoutTable ==
    ASSUME NEW c \in DOMAIN PlayoutCommands
    PROVE  /\ c \in DOMAIN Sheet!Sets
           /\ Hits(c, PlayoutCommands[c])
           /\ OffNetwork(PlayoutCommands[c])
           /\ PlayoutCommands[c] \subseteq Registers
<1>1. c \in {"strblen", "delay"}
  BY DEF PlayoutCommands
<1>2. c \in DOMAIN Sheet!Sets
  BY <1>1 DEF Sheet!Sets
<1>3. CASE c = "strblen"
  <2>1. PlayoutCommands[c] = At("e2a", {5})
    BY <1>3 DEF PlayoutCommands, One, At, set_stream_blen
  <2>2. Sheet!Sets[c] = {"buffer_length"}
    BY <1>3 DEF Sheet!Sets
  <2>3. Hits(c, PlayoutCommands[c])
    BY <2>1, <2>2 DEF Hits, Where, At
  <2>4. /\ OffNetwork(PlayoutCommands[c])
        /\ PlayoutCommands[c] \subseteq Registers
    BY <2>1 DEF OffNetwork, Registers, At
  <2> QED BY <1>2, <2>3, <2>4
<1>4. CASE c = "delay"
  <2>1. PlayoutCommands[c] = At("e2a", {11})
    BY <1>4 DEF PlayoutCommands, One, At, set_playout_delay
  <2>2. Sheet!Sets[c] = Sheet!Delay
    BY <1>4 DEF Sheet!Sets
  <2>3. Hits(c, PlayoutCommands[c])
    BY <2>1, <2>2 DEF Hits, Where, At, Sheet!Delay
  <2>4. /\ OffNetwork(PlayoutCommands[c])
        /\ PlayoutCommands[c] \subseteq Registers
    BY <2>1 DEF OffNetwork, Registers, At
  <2> QED BY <1>2, <2>3, <2>4
<1> QED BY <1>1, <1>3, <1>4

\* The commands with a number of their own: the register of each ...
FixedRegisters(c) == One("e2a", FixedCommands[c][1])

\* ... and the number.
LEMMA FixedNumbers ==
    ASSUME NEW c \in DOMAIN FixedCommands
    PROVE  FixedCommands[c][2] \in 0..4
  BY DEF FixedCommands

LEMMA FixedAsTyped ==
    ASSUME NEW c \in DOMAIN FixedCommands, NEW n
    PROVE  Sheet!Kept(c, n) = n
  BY DEF FixedCommands, Sheet!Kept

\* What these commands write.
LEMMA FixedTable ==
    ASSUME NEW c \in DOMAIN FixedCommands
    PROVE  /\ c \in DOMAIN Sheet!Sets
           /\ Hits(c, FixedRegisters(c))
           /\ OffNetwork(FixedRegisters(c))
           /\ FixedRegisters(c) \subseteq Registers
<1>1. c \in
      {"sethdrstrip", "clearhdrstrip", "strxteston", "strxtestm1",
       "strxtestm2", "strxtestm3", "strxtestm4", "strxtestm5",
       "strxtestoff"}
  BY DEF FixedCommands
<1>2. c \in DOMAIN Sheet!Sets
  BY <1>1 DEF Sheet!Sets
<1>3. CASE c = "sethdrstrip"
  <2>1. FixedRegisters(c) = At("e2a", {10})
    BY <1>3 DEF FixedCommands, FixedRegisters, One, At,
          set_rx_hdr_strip
  <2>2. Sheet!Sets[c] = Sheet!Strip
    BY <1>3 DEF Sheet!Sets
  <2>3. Hits(c, FixedRegisters(c))
    BY <2>1, <2>2 DEF Hits, Where, At, Sheet!Strip
  <2>4. /\ OffNetwork(FixedRegisters(c))
        /\ FixedRegisters(c) \subseteq Registers
    BY <2>1 DEF OffNetwork, Registers, At
  <2> QED BY <1>2, <2>3, <2>4
<1>4. CASE c = "clearhdrstrip"
  <2>1. FixedRegisters(c) = At("e2a", {10})
    BY <1>4 DEF FixedCommands, FixedRegisters, One, At,
          clear_rx_hdr_strip
  <2>2. Sheet!Sets[c] = Sheet!Strip
    BY <1>4 DEF Sheet!Sets
  <2>3. Hits(c, FixedRegisters(c))
    BY <2>1, <2>2 DEF Hits, Where, At, Sheet!Strip
  <2>4. /\ OffNetwork(FixedRegisters(c))
        /\ FixedRegisters(c) \subseteq Registers
    BY <2>1 DEF OffNetwork, Registers, At
  <2> QED BY <1>2, <2>3, <2>4
<1>5. CASE c = "strxteston"
  <2>1. FixedRegisters(c) = At("e2a", {7})
    BY <1>5 DEF FixedCommands, FixedRegisters, One, At,
          set_xtest_mode_on
  <2>2. Sheet!Sets[c] = {"test_on"}
    BY <1>5 DEF Sheet!Sets
  <2>3. Hits(c, FixedRegisters(c))
    BY <2>1, <2>2 DEF Hits, Where, At
  <2>4. /\ OffNetwork(FixedRegisters(c))
        /\ FixedRegisters(c) \subseteq Registers
    BY <2>1 DEF OffNetwork, Registers, At
  <2> QED BY <1>2, <2>3, <2>4
<1>6. CASE c = "strxtestm1"
  <2>1. FixedRegisters(c) = At("e2a", {8})
    BY <1>6 DEF FixedCommands, FixedRegisters, One, At,
          set_xtest_mode
  <2>2. Sheet!Sets[c] = {"test_mode"}
    BY <1>6 DEF Sheet!Sets
  <2>3. Hits(c, FixedRegisters(c))
    BY <2>1, <2>2 DEF Hits, Where, At
  <2>4. /\ OffNetwork(FixedRegisters(c))
        /\ FixedRegisters(c) \subseteq Registers
    BY <2>1 DEF OffNetwork, Registers, At
  <2> QED BY <1>2, <2>3, <2>4
<1>7. CASE c = "strxtestm2"
  <2>1. FixedRegisters(c) = At("e2a", {8})
    BY <1>7 DEF FixedCommands, FixedRegisters, One, At,
          set_xtest_mode
  <2>2. Sheet!Sets[c] = {"test_mode"}
    BY <1>7 DEF Sheet!Sets
  <2>3. Hits(c, FixedRegisters(c))
    BY <2>1, <2>2 DEF Hits, Where, At
  <2>4. /\ OffNetwork(FixedRegisters(c))
        /\ FixedRegisters(c) \subseteq Registers
    BY <2>1 DEF OffNetwork, Registers, At
  <2> QED BY <1>2, <2>3, <2>4
<1>8. CASE c = "strxtestm3"
  <2>1. FixedRegisters(c) = At("e2a", {8})
    BY <1>8 DEF FixedCommands, FixedRegisters, One, At,
          set_xtest_mode
  <2>2. Sheet!Sets[c] = {"test_mode"}
    BY <1>8 DEF Sheet!Sets
  <2>3. Hits(c, FixedRegisters(c))
    BY <2>1, <2>2 DEF Hits, Where, At
  <2>4. /\ OffNetwork(FixedRegisters(c))
        /\ FixedRegisters(c) \subseteq Registers
    BY <2>1 DEF OffNetwork, Registers, At
  <2> QED BY <1>2, <2>3, <2>4
<1>9. CASE c = "strxtestm4"
  <2>1. FixedRegisters(c) = At("e2a", {8})
    BY <1>9 DEF FixedCommands, FixedRegisters, One, At,
          set_xtest_mode
  <2>2. Sheet!Sets[c] = {"test_mode"}
    BY <1>9 DEF Sheet!Sets
  <2>3. Hits(c, FixedRegisters(c))
    BY <2>1, <2>2 DEF Hits, Where, At
  <2>4. /\ OffNetwork(FixedRegisters(c))
        /\ FixedRegisters(c) \subseteq Registers
    BY <2>1 DEF OffNetwork, Registers, At
  <2> QED BY <1>2, <2>3, <2>4
<1>10. CASE c = "strxtestm5"
  <2>1. FixedRegisters(c) = At("e2a", {8})
    BY <1>10 DEF FixedCommands, FixedRegisters, One, At,
          set_xtest_mode
  <2>2. Sheet!Sets[c] = {"test_mode"}
    BY <1>10 DEF Sheet!Sets
  <2>3. Hits(c, FixedRegisters(c))
    BY <2>1, <2>2 DEF Hits, Where, At
  <2>4. /\ OffNetwork(FixedRegisters(c))
        /\ FixedRegisters(c) \subseteq Registers
    BY <2>1 DEF OffNetwork, Registers, At
  <2> QED BY <1>2, <2>3, <2>4
<1>11. CASE c = "strxtestoff"
  <2>1. FixedRegisters(c) = At("e2a", {7})
    BY <1>11 DEF FixedCommands, FixedRegisters, One, At,
          set_xtest_mode_off
  <2>2. Sheet!Sets[c] = {"test_on"}
    BY <1>11 DEF Sheet!Sets
  <2>3. Hits(c, FixedRegisters(c))
    BY <2>1, <2>2 DEF Hits, Where, At
  <2>4. /\ OffNetwork(FixedRegisters(c))
        /\ FixedRegisters(c) \subseteq Registers
    BY <2>1 DEF OffNetwork, Registers, At
  <2> QED BY <1>2, <2>3, <2>4
<1> QED BY <1>1, <1>3, <1>4, <1>5, <1>6, <1>7, <1>8, <1>9, <1>10, <1>11

----------------------------------------------------------------------------
(* What the commands write, in one form: SetNumber, SetSwitch, SetFixed    *)
(* and SetWindow are all a command that writes one number, off the network *)
(* core, to the registers of the parameters it sets.                       *)

\* Every number a command writes fits a register.
LEMMA NumbersFit ==
    /\ 0 \in Numbers /\ 300 \in Numbers
    /\ \A n \in 0..4 : n \in Numbers
    /\ \A n \in 2..23 : n \in Numbers
    /\ Entries \subseteq Numbers /\ Readings \subseteq Numbers
  BY ParametersAssumption DEF ParametersAssumption, Numbers

LEMMA ScaledFits ==
    ASSUME NEW c, NEW n \in Numbers
    PROVE  Scaled(c, n) \in Numbers
<1>1. /\ Word \in Nat \ {0} /\ n \in Nat
      /\ n < Word
  BY ParametersAssumption DEF ParametersAssumption, Numbers
<1>2. \A m \in Int : m % Word \in Numbers
  BY <1>1 DEF Numbers
<1>3. /\ (n * 64) % Word \in Numbers /\ (n * 48) % Word \in Numbers
      /\ (n - 2) % Word \in Numbers
  <2>1. n * 64 \in Int /\ n * 48 \in Int /\ n - 2 \in Int
    BY <1>1
  <2> QED BY <1>2, <2>1
<1> QED BY <1>3 DEF Scaled

\* The model scales a number as the sheet says.
LEMMA ScaledAsKept ==
    ASSUME NEW c, NEW n \in Numbers
    PROVE  Scaled(c, n) = Sheet!Kept(c, n)
<1>1. n * 64 = 64 * n /\ n * 48 = 48 * n
  BY DEF Numbers
<1> QED BY <1>1 DEF Scaled, Sheet!Kept

\* A command of this kind: c writes the number m to the registers R.
Writes(c, R, n, m) ==
    /\ Command
    /\ up' = up
    /\ Write(R, m)
    /\ line' = <<c, n>>
    /\ c \in DOMAIN Sheet!Sets
    /\ n \in Numbers /\ m \in Numbers
    /\ m = Sheet!Kept(c, n)
    /\ Hits(c, R) /\ AllOrNone(R)

LEMMA WritesAddress ==
    ASSUME TypeOK, NEW c \in DOMAIN AddressCommands, SetAddress(c)
    PROVE  \E n : Writes(c, AddressCommands[c], n, n)
<1>1. PICK n \in Entries : Write(AddressCommands[c], n) /\ line' = <<c, n>>
  BY DEF SetAddress
<1>2. n \in Numbers
  BY NumbersFit
<1>3. Sheet!Kept(c, n) = n
  BY AddressTable
<1> QED BY <1>1, <1>2, <1>3, AddressTable DEF SetAddress, Writes

LEMMA WritesPort ==
    ASSUME TypeOK, NEW c \in DOMAIN PortCommands, SetPort(c)
    PROVE  \E n : Writes(c, PortCommands[c], n, n)
<1>1. PICK n \in Entries \cup {dest_port} :
            Write(PortCommands[c], n) /\ line' = <<c, n>>
  BY DEF SetPort
<1>2. n \in Numbers
  BY NumbersFit DEF TypeOK
<1>3. Sheet!Kept(c, n) = n
  BY PortTable
<1> QED BY <1>1, <1>2, <1>3, PortTable DEF SetPort, Writes

LEMMA WritesSwitch ==
    ASSUME TypeOK, NEW c \in DOMAIN SwitchCommands, SetSwitch(c)
    PROVE  \E n : Writes(c, SwitchCommands[c], n, n)
<1>1. PICK n \in Entries \cup {sw_port} :
            Write(SwitchCommands[c], n) /\ line' = <<c, n>>
  BY DEF SetSwitch
<1>2. n \in Numbers
  BY NumbersFit DEF TypeOK
<1>3. Sheet!Kept(c, n) = n
  BY DEF SwitchCommands, Sheet!Kept
<1> QED
  BY <1>1, <1>2, <1>3, SwitchTable, OffNetworkMisses DEF SetSwitch, Writes

\* A command that takes a number in tmp, of any table.
LEMMA WritesNumber ==
    ASSUME TypeOK, NEW c \in DOMAIN Sheet!Sets, NEW R, SetNumber(c, R),
           Hits(c, R), OffNetwork(R)
    PROVE  \E n : Writes(c, R, n, Scaled(c, n))
<1>1. PICK n \in Entries \cup {tmp} :
            Write(R, Scaled(c, n)) /\ line' = <<c, n>>
  BY DEF SetNumber
<1>2. n \in Numbers
  BY NumbersFit DEF TypeOK
<1>3. Scaled(c, n) \in Numbers /\ Scaled(c, n) = Sheet!Kept(c, n)
  BY <1>2, ScaledFits, ScaledAsKept
<1> QED BY <1>1, <1>2, <1>3, OffNetworkMisses DEF SetNumber, Writes

LEMMA SingleTable ==
    /\ "sethdrlen" \in DOMAIN Sheet!Sets /\ Hits("sethdrlen", sethdrlen)
    /\ "syncdly" \in DOMAIN Sheet!Sets /\ Hits("syncdly", syncdly)
    /\ "setowdlycnt" \in DOMAIN Sheet!Sets /\ Hits("setowdlycnt", setowdlycnt)
    /\ "setlooplimit" \in DOMAIN Sheet!Sets
    /\ Hits("setlooplimit", setlooplimit)
<1>1. /\ sethdrlen = At("e2a", {9}) /\ syncdly = At("ts", {5})
      /\ setowdlycnt = At("ts", {8}) /\ setlooplimit = At("e2a", {29})
  BY DEF sethdrlen, syncdly, setowdlycnt, setlooplimit, One, At,
         set_tx_hdr_length, set_sync_pkt_dly, set_owdly_cnt, set_loop_limit
<1>2. /\ Sheet!Sets["sethdrlen"] = Sheet!Length
      /\ Sheet!Sets["syncdly"] = {"sync_delay"}
      /\ Sheet!Sets["setowdlycnt"] = {"one_way_delay"}
      /\ Sheet!Sets["setlooplimit"] = {"loop_limit"}
  BY DEF Sheet!Sets
<1>3. Hits("sethdrlen", sethdrlen)
  BY <1>1, <1>2 DEF Hits, Where, At, Sheet!Length
<1>4. Hits("syncdly", syncdly)
  BY <1>1, <1>2 DEF Hits, Where, At
<1>5. Hits("setowdlycnt", setowdlycnt)
  BY <1>1, <1>2 DEF Hits, Where, At
<1>6. Hits("setlooplimit", setlooplimit)
  BY <1>1, <1>2 DEF Hits, Where, At
<1>7. /\ "sethdrlen" \in DOMAIN Sheet!Sets /\ "syncdly" \in DOMAIN Sheet!Sets
      /\ "setowdlycnt" \in DOMAIN Sheet!Sets
      /\ "setlooplimit" \in DOMAIN Sheet!Sets
  BY DEF Sheet!Sets
<1> QED BY <1>3, <1>4, <1>5, <1>6, <1>7

LEMMA SingleOffNetwork ==
    /\ OffNetwork(sethdrlen) /\ OffNetwork(syncdly)
    /\ OffNetwork(setowdlycnt) /\ OffNetwork(setlooplimit)
  BY DEF OffNetwork, sethdrlen, syncdly, setowdlycnt, setlooplimit, One

LEMMA NumberWrites ==
    ASSUME TypeOK, NumberCommand
    PROVE  \E c, R, n, m : Writes(c, R, n, m)
<1>1. ASSUME NEW c \in DOMAIN LengthCommands, SetNumber(c, LengthCommands[c])
      PROVE  \E R, n, m : Writes(c, R, n, m)
  BY <1>1, LengthTable, WritesNumber
<1>2. ASSUME NEW c \in DOMAIN BufferCommands, SetNumber(c, BufferCommands[c])
      PROVE  \E R, n, m : Writes(c, R, n, m)
  BY <1>2, BufferTable, WritesNumber
<1>3. ASSUME NEW c \in DOMAIN PlayoutCommands, SetNumber(c, PlayoutCommands[c])
      PROVE  \E R, n, m : Writes(c, R, n, m)
  BY <1>3, PlayoutTable, WritesNumber
<1>4. ASSUME SetNumber("sethdrlen", sethdrlen)
      PROVE  \E R, n, m : Writes("sethdrlen", R, n, m)
  BY <1>4, SingleTable, SingleOffNetwork, WritesNumber
<1>5. ASSUME SetNumber("syncdly", syncdly)
      PROVE  \E R, n, m : Writes("syncdly", R, n, m)
  BY <1>5, SingleTable, SingleOffNetwork, WritesNumber
<1>6. ASSUME SetNumber("setowdlycnt", setowdlycnt)
      PROVE  \E R, n, m : Writes("setowdlycnt", R, n, m)
  BY <1>6, SingleTable, SingleOffNetwork, WritesNumber
<1>7. ASSUME SetNumber("setlooplimit", setlooplimit)
      PROVE  \E R, n, m : Writes("setlooplimit", R, n, m)
  BY <1>7, SingleTable, SingleOffNetwork, WritesNumber
<1> QED
  BY <1>1, <1>2, <1>3, <1>4, <1>5, <1>6, <1>7 DEF NumberCommand

LEMMA WindowWrites ==
    ASSUME TypeOK, SetWindow
    PROVE  \E c, R, n, m : Writes(c, R, n, m)
<1> DEFINE R == One("e2a", set_buf_corr_window)
<1>1. R = At("e2a", {23})
  BY DEF One, At, set_buf_corr_window
<1>2. "setcrwin" \in DOMAIN Sheet!Sets /\ Sheet!Sets["setcrwin"] = {"window"}
  BY DEF Sheet!Sets
<1>3. Hits("setcrwin", R)
  BY <1>1, <1>2 DEF Hits, Where, At
<1>4. OffNetwork(R)
  BY <1>1 DEF OffNetwork, At
<1>5. Sheet!Kept("setcrwin", tmp) = tmp /\ tmp \in Numbers
  BY DEF Sheet!Kept, TypeOK
<1>6. Writes("setcrwin", R, tmp, tmp)
  BY <1>2, <1>3, <1>4, <1>5, OffNetworkMisses DEF SetWindow, Writes
<1> QED BY <1>6

LEMMA FixedWrites ==
    ASSUME TypeOK, NEW c \in DOMAIN FixedCommands, SetFixed(c)
    PROVE  \E R, n, m : Writes(c, R, n, m)
<1> DEFINE n == FixedCommands[c][2]
<1>1. n \in Numbers
  BY FixedNumbers, NumbersFit
<1>2. Sheet!Kept(c, n) = n
  BY FixedAsTyped
<1>3. Write(FixedRegisters(c), n) /\ line' = <<c, n>>
  BY DEF SetFixed, FixedRegisters
<1>4. Command /\ up' = up
  BY DEF SetFixed
<1>5. Writes(c, FixedRegisters(c), n, n)
  BY <1>1, <1>2, <1>3, <1>4, FixedTable, OffNetworkMisses DEF Writes
<1> QED BY <1>5

\* The commands that write, together.
SetCommand ==
    \/ \E c \in DOMAIN AddressCommands : SetAddress(c)
    \/ \E c \in DOMAIN PortCommands : SetPort(c)
    \/ \E c \in DOMAIN SwitchCommands : SetSwitch(c)
    \/ NumberCommand
    \/ SetWindow
    \/ \E c \in DOMAIN FixedCommands : SetFixed(c)

LEMMA SetCommandWrites ==
    ASSUME TypeOK, SetCommand
    PROVE  \E c, R, n, m : Writes(c, R, n, m)
<1>1. ASSUME NEW c \in DOMAIN AddressCommands, SetAddress(c)
      PROVE  \E R, n, m : Writes(c, R, n, m)
  BY <1>1, WritesAddress
<1>2. ASSUME NEW c \in DOMAIN PortCommands, SetPort(c)
      PROVE  \E R, n, m : Writes(c, R, n, m)
  BY <1>2, WritesPort
<1>3. ASSUME NEW c \in DOMAIN SwitchCommands, SetSwitch(c)
      PROVE  \E R, n, m : Writes(c, R, n, m)
  BY <1>3, WritesSwitch
<1> QED
  BY <1>1, <1>2, <1>3, NumberWrites, WindowWrites, FixedWrites DEF SetCommand

----------------------------------------------------------------------------
(* The commands that read.                                                 *)

\* The command c sets nothing and is no kill.
Quiet(c) == c \notin DOMAIN Sheet!Sets /\ c # "killed"

\* The command c reads register r, and where Sheet says that it shows a
\* parameter this is the parameter's register, which answers what it holds.
Reads(c, r) ==
    /\ Quiet(c)
    /\ c \in DOMAIN Sheet!Shows =>
          /\ Sheet!Shows[c] \in DOMAIN Where
          /\ r = Where[Sheet!Shows[c]]
          /\ r \in Registers \ Occupancies

LEMMA PlayoutReads ==
    ASSUME NEW c \in DOMAIN PlayoutGetters
    PROVE  Reads(c, PlayoutGetters[c])
<1>1. c \in {"getpoutdly", "getpouttime", "getsynctime", "getrxtc",
             "getrxtceff", "getrxtcocc"}
  BY DEF PlayoutGetters
<1>2. Quiet(c)
  BY <1>1 DEF Quiet, Sheet!Sets
<1>3. CASE c = "getpoutdly"
  <2>1. PlayoutGetters[c] = <<"e2a", 11>>
    BY <1>3 DEF PlayoutGetters, get_playout_delay
  <2>2. Sheet!Shows[c] = "playout_delay"
    BY <1>3 DEF Sheet!Shows
  <2>3. /\ Where["playout_delay"] = <<"e2a", 11>>
        /\ "playout_delay" \in DOMAIN Where
    BY DEF Where
  <2>4. <<"e2a", 11>> \in Registers \ Occupancies
    BY DEF Registers, Occupancies, At
  <2> QED BY <1>2, <2>1, <2>2, <2>3, <2>4 DEF Reads
<1>4. CASE c # "getpoutdly"
  BY <1>1, <1>2, <1>4 DEF Reads, Sheet!Shows
<1> QED BY <1>3, <1>4

LEMMA BufferReads ==
    ASSUME NEW c \in DOMAIN BufferGetters
    PROVE  Reads(c, BufferGetters[c])
<1>1. c \in {"gettcvars", "getpoutr", "getpoutw", "getfocc"}
  BY DEF BufferGetters
<1>2. Quiet(c)
  BY <1>1 DEF Quiet, Sheet!Sets
<1> QED BY <1>1, <1>2 DEF Reads, Sheet!Shows

LEMMA AddressReads ==
    ASSUME NEW c \in DOMAIN AddressGetters
    PROVE  Reads(c, AddressGetters[c])
<1>1. c \in {"getdip", "getlip", "getgip", "getmask"}
  BY DEF AddressGetters
<1>2. Quiet(c)
  BY <1>1 DEF Quiet, Sheet!Sets
<1>3. /\ AddressGetters["getdip"] = <<"eth", 5>>
      /\ AddressGetters["getlip"] = <<"eth", 2>>
      /\ AddressGetters["getgip"] = <<"eth", 3>>
      /\ AddressGetters["getmask"] = <<"eth", 4>>
  BY DEF AddressGetters, read_eth_param
<1>4. /\ Sheet!Shows["getdip"] = "dest_ip"
      /\ Sheet!Shows["getlip"] = "local_ip"
      /\ Sheet!Shows["getgip"] = "gateway_ip"
      /\ Sheet!Shows["getmask"] = "mask_ip"
  BY DEF Sheet!Shows
<1>5. /\ Where["dest_ip"] = <<"eth", 5>> /\ "dest_ip" \in DOMAIN Where
      /\ Where["local_ip"] = <<"eth", 2>> /\ "local_ip" \in DOMAIN Where
      /\ Where["gateway_ip"] = <<"eth", 3>> /\ "gateway_ip" \in DOMAIN Where
      /\ Where["mask_ip"] = <<"eth", 4>> /\ "mask_ip" \in DOMAIN Where
  BY DEF Where
<1>6. \A i \in 2..5 : <<"eth", i>> \in Registers \ Occupancies
  BY DEF Registers, Occupancies, At
<1> QED BY <1>1, <1>2, <1>3, <1>4, <1>5, <1>6 DEF Reads

LEMMA SequencerReads ==
    ASSUME NEW c \in DOMAIN SequencerGetters
    PROVE  Reads(c, SequencerGetters[c])
<1>1. c \in {"getplen", "getporder", "getpdrop", "getpreplaced", "getsqgs",
             "getsqrx", "getsqtx", "getsqov"}
  BY DEF SequencerGetters
<1>2. Quiet(c)
  BY <1>1 DEF Quiet, Sheet!Sets
<1>3. CASE c \in {"getplen", "getporder"}
  <2>1. /\ SequencerGetters["getplen"] = <<"a2e", 3>>
        /\ SequencerGetters["getporder"] = <<"seq", 0>>
    BY DEF SequencerGetters, get_stream_plen, get_stream_porder
  <2>2. /\ Sheet!Shows["getplen"] = "packet_length"
        /\ Sheet!Shows["getporder"] = "order"
    BY DEF Sheet!Shows
  <2>3. /\ Where["packet_length"] = <<"a2e", 3>>
        /\ Where["order"] = <<"seq", 0>>
        /\ {"packet_length", "order"} \subseteq DOMAIN Where
    BY DEF Where
  <2>4. {<<"a2e", 3>>, <<"seq", 0>>} \subseteq Registers \ Occupancies
    BY DEF Registers, Occupancies, At
  <2> QED BY <1>2, <1>3, <2>1, <2>2, <2>3, <2>4 DEF Reads
<1>4. CASE c \notin {"getplen", "getporder"}
  BY <1>1, <1>2, <1>4 DEF Reads, Sheet!Shows
<1> QED BY <1>3, <1>4

LEMMA StreamReads ==
    ASSUME NEW c \in DOMAIN StreamGetters
    PROVE  Reads(c, StreamGetters[c])
<1>1. c \in {"getblen", "getbrdly"}
  BY DEF StreamGetters
<1>2. Quiet(c)
  BY <1>1 DEF Quiet, Sheet!Sets
<1>3. CASE c = "getblen"
  <2>1. StreamGetters[c] = <<"e2a", 5>> /\ Sheet!Shows[c] = "buffer_length"
    BY <1>3 DEF StreamGetters, get_stream_blen, Sheet!Shows
  <2>2. /\ Where["buffer_length"] = <<"e2a", 5>>
        /\ "buffer_length" \in DOMAIN Where
    BY DEF Where
  <2>3. <<"e2a", 5>> \in Registers \ Occupancies
    BY DEF Registers, Occupancies, At
  <2> QED BY <1>2, <2>1, <2>2, <2>3 DEF Reads
<1>4. CASE c = "getbrdly"
  BY <1>2, <1>4 DEF Reads, Sheet!Shows
<1> QED BY <1>1, <1>3, <1>4

LEMMA ExecReads ==
    ASSUME NEW c \in DOMAIN ExecGetters
    PROVE  Reads(c, ExecGetters[c])
<1>1. c \in {"getsqos", "getsqis"}
  BY DEF ExecGetters
<1>2. Quiet(c)
  BY <1>1 DEF Quiet, Sheet!Sets
<1> QED BY <1>1, <1>2 DEF Reads, Sheet!Shows

LEMMA PortReads == Reads("getport", getport)
<1>1. getport = <<"eth", 6>> /\ Sheet!Shows["getport"] = "sync_port"
  BY DEF getport, read_eth_param, Sheet!Shows
<1>2. Where["sync_port"] = <<"eth", 6>> /\ "sync_port" \in DOMAIN Where
  BY DEF Where
<1>3. <<"eth", 6>> \in Registers \ Occupancies
  BY DEF Registers, Occupancies, At
<1>4. Quiet("getport")
  BY DEF Quiet, Sheet!Sets
<1> QED BY <1>1, <1>2, <1>3, <1>4 DEF Reads

\* Such a command answers n, which is what its register holds when it is a
\* parameter's, and changes no register.
Answered(c, r, n) ==
    /\ Command
    /\ UNCHANGED <<up, reg>>
    /\ line' = <<c, n>>
    /\ n \in Answers(r)
    /\ Reads(c, r)

LEMMA GetCommandReads ==
    ASSUME GetCommand
    PROVE  \E c, r, n : Answered(c, r, n)
<1>1. ASSUME NEW c, NEW r, GetNumber(c, r), Reads(c, r)
      PROVE  \E n : Answered(c, r, n)
  BY <1>1 DEF GetNumber, Answered
<1>2. ASSUME GetPort
      PROVE  \E n : Answered("getport", getport, n)
  BY <1>2, PortReads DEF GetPort, Answered
<1> QED
  BY <1>1, <1>2, PlayoutReads, BufferReads, AddressReads, SequencerReads,
     StreamReads, ExecReads
     DEF GetCommand

\* The answer is a number.
LEMMA AnswersFit ==
    ASSUME TypeOK, NEW r
    PROVE  Answers(r) \subseteq Numbers
  BY NumbersFit DEF Answers, TypeOK

----------------------------------------------------------------------------
(* The commands that do neither.                                           *)

\* The command c is none that Sheet names.
Unnamed(c) == Quiet(c) /\ c \notin DOMAIN Sheet!Shows

LEMMA ObserversUnnamed == \A c \in Observers : Unnamed(c)
  BY DEF Observers, CountObservers, pbtreset, ver, getalle2a, StatusObservers,
         Unnamed, Quiet, Sheet!Sets, Sheet!Shows

LEMMA OthersUnnamed ==
    \A c \in {"strnsp", "help", "invalid", "exit"} : Unnamed(c)
  BY DEF Unnamed, Quiet, Sheet!Sets, Sheet!Shows

LEMMA SwitchesUnnamed ==
    ASSUME NEW c \in DOMAIN EnforcerSwitches
    PROVE  Unnamed(c) /\ EnforcerSwitches[c] \in 1..23
<1>1. c \in {"pbtrreset", "pbtoff", "pbton"}
  BY DEF EnforcerSwitches
<1>2. Unnamed(c)
  BY <1>1 DEF Unnamed, Quiet, Sheet!Sets, Sheet!Shows
<1>3. EnforcerSwitches[c] \in 1..23
  BY DEF EnforcerSwitches, EnforcerSetup
<1> QED BY <1>2, <1>3

LEMMA LimitsUnnamed ==
    ASSUME NEW c \in DOMAIN EnforcerLimits
    PROVE  Unnamed(c) /\ EnforcerLimits[c] \in 1..23
<1>1. c \in {"setptl1", "setptpidl", "setptl2", "getptl1", "getptpidl",
             "getptl2", "getptlock"}
  BY DEF EnforcerLimits
<1>2. Unnamed(c)
  BY <1>1 DEF Unnamed, Quiet, Sheet!Sets, Sheet!Shows
<1>3. EnforcerLimits[c] \in 1..23
  BY DEF EnforcerLimits, EnforcerSetup, EnforcerDelay, EnforcerDrop
<1> QED BY <1>2, <1>3

LEMMA LocksUnnamed ==
    ASSUME NEW c \in DOMAIN EnforcerLocks
    PROVE  Unnamed(c) /\ EnforcerLocks[c] \in 1..23
<1>1. c \in {"ptpidon", "ptpidoff", "getptstatus", "setptlock", "setptaccum",
             "clrptaccum", "getptaccum", "clrptlock"}
  BY DEF EnforcerLocks
<1>2. Unnamed(c)
  BY <1>1 DEF Unnamed, Quiet, Sheet!Sets, Sheet!Shows
<1>3. EnforcerLocks[c] \in 1..23
  BY DEF EnforcerLocks, EnforcerSetup, EnforcerDrop
<1> QED BY <1>2, <1>3

LEMMA DelaysUnnamed ==
    ASSUME NEW c \in DOMAIN EnforcerDelays
    PROVE  Unnamed(c) /\ EnforcerDelays[c] \in 1..23
<1>1. c \in {"getnetdly", "getpktbuilddly", "getpkt2pktdly", "getaccpktdly",
             "setnetdly", "setpktdly", "ptdfon", "ptdfoff", "getptdiffs",
             "setptdiffl", "getptdiffl", "getptdiffv"}
  BY DEF EnforcerDelays
<1>2. Unnamed(c)
  BY <1>1 DEF Unnamed, Quiet, Sheet!Sets, Sheet!Shows
<1>3. EnforcerDelays[c] \in 1..23
  BY DEF EnforcerDelays, EnforcerDelay, EnforcerDrop
<1> QED BY <1>2, <1>3

\* A command of the packet time enforcer ends the program.
LEMMA EnforcerCrashes ==
    ASSUME EnforcerCommand
    PROVE  \E c, n : Crash(c, n) /\ Unnamed(c) /\ n \in 1..23
  BY SwitchesUnnamed, LimitsUnnamed, LocksUnnamed, DelaysUnnamed
     DEF EnforcerCommand

----------------------------------------------------------------------------
(* Types.                                                                  *)

\* What a start writes are numbers.
LEMMA GivenFits ==
    ASSUME TypeOK, NEW s \in Starts, NEW r \in Registers
    PROVE  Given(s, r) \in Numbers
<1>1. s \in Start
  BY ParametersAssumption DEF ParametersAssumption
<1>2. /\ s.local \in Numbers /\ s.gateway \in Numbers /\ s.mask \in Numbers
      /\ s.dest \in Numbers /\ s.port \in Numbers /\ s.sync \in Numbers
      /\ s.sw \in Seq(Numbers)
  BY <1>1 DEF Start
<1>3. reg[r] \in Numbers /\ 0 \in Numbers /\ 300 \in Numbers
  BY NumbersFit DEF TypeOK
<1>4. ASSUME r \in {<<"sw", write_switch_param(2 + i)>> : i \in 1..Len(s.sw)}
      PROVE  s.sw[r[2] - 3] \in Numbers
  <2>1. PICK i \in 1..Len(s.sw) : r = <<"sw", write_switch_param(2 + i)>>
    BY <1>4
  <2>2. r[2] - 3 = i
    BY <2>1, <1>2 DEF write_switch_param
  <2> QED BY <2>2, <1>2
<1> QED BY <1>2, <1>3, <1>4 DEF Given

\* Registers written with a number are registers of numbers.
LEMMA WriteFits ==
    ASSUME TypeOK, NEW R, NEW n \in Numbers, Write(R, n)
    PROVE  reg' \in [Registers -> Numbers]
  BY DEF Write, TypeOK

LEMMA InitTypes == Init => TypeOK
<1> SUFFICES ASSUME Init PROVE TypeOK
  OBVIOUS
<1>1. /\ reg \in [Registers -> Numbers]
      /\ tmp \in Numbers /\ dest_port \in Numbers /\ sw_port \in Numbers
  BY NumbersFit DEF Init
<1>2. line[2] \in Numbers
  BY NumbersFit DEF Init
<1>3. up \in BOOLEAN /\ eaten \in BOOLEAN
  BY DEF Init
<1> QED BY <1>1, <1>2, <1>3 DEF TypeOK

LEMMA StepTypes == TypeOK /\ [Next]_vars => TypeOK'
<1> SUFFICES ASSUME TypeOK, [Next]_vars
             PROVE  TypeOK'
  OBVIOUS
<1>1. CASE UNCHANGED vars
  BY <1>1 DEF TypeOK, vars, locals
<1>2. ASSUME NEW s \in Starts, ui_init(s)
      PROVE  TypeOK'
  <2>1. reg' \in [Registers -> Numbers]
    BY <1>2, GivenFits DEF ui_init
  <2> QED BY <1>2, <2>1, NumbersFit DEF ui_init, TypeOK
<1>3. ASSUME NEW c \in DOMAIN AddressCommands, SetAddress(c)
      PROVE  TypeOK'
  <2>1. PICK n \in Entries :
             Write(AddressCommands[c], n) /\ line' = <<c, n>>
    BY <1>3 DEF SetAddress
  <2>2. n \in Numbers
    BY NumbersFit
  <2> QED BY <1>3, <2>1, <2>2, WriteFits DEF SetAddress, TypeOK, locals
<1>4. ASSUME NEW c \in DOMAIN PortCommands, SetPort(c)
      PROVE  TypeOK'
  <2>1. PICK n \in Entries \cup {dest_port} :
             dest_port' = n /\ Write(PortCommands[c], n) /\ line' = <<c, n>>
    BY <1>4 DEF SetPort
  <2>2. n \in Numbers
    BY NumbersFit DEF TypeOK
  <2> QED BY <1>4, <2>1, <2>2, WriteFits DEF SetPort, TypeOK
<1>5. ASSUME NEW c \in DOMAIN SwitchCommands, SetSwitch(c)
      PROVE  TypeOK'
  <2>1. PICK n \in Entries \cup {sw_port} :
             sw_port' = n /\ Write(SwitchCommands[c], n) /\ line' = <<c, n>>
    BY <1>5 DEF SetSwitch
  <2>2. n \in Numbers
    BY NumbersFit DEF TypeOK
  <2> QED BY <1>5, <2>1, <2>2, WriteFits DEF SetSwitch, TypeOK
<1>6. ASSUME NEW c, NEW R, SetNumber(c, R)
      PROVE  TypeOK'
  <2>1. PICK n \in Entries \cup {tmp} :
             tmp' = n /\ Write(R, Scaled(c, n)) /\ line' = <<c, n>>
    BY <1>6 DEF SetNumber
  <2>2. n \in Numbers /\ Scaled(c, n) \in Numbers
    BY NumbersFit, ScaledFits DEF TypeOK
  <2> QED BY <1>6, <2>1, <2>2, WriteFits DEF SetNumber, TypeOK
<1>7. CASE NumberCommand
  BY <1>6, <1>7 DEF NumberCommand
<1>8. CASE SetWindow
  <2>1. tmp \in Numbers
    BY DEF TypeOK
  <2> QED BY <1>8, <2>1, WriteFits DEF SetWindow, TypeOK, locals
<1>9. ASSUME NEW c \in DOMAIN FixedCommands, SetFixed(c)
      PROVE  TypeOK'
  <2> DEFINE n == FixedCommands[c][2]
  <2>1. n \in Numbers
    BY FixedNumbers, NumbersFit
  <2>2. Write(FixedRegisters(c), n) /\ line' = <<c, n>>
    BY <1>9 DEF SetFixed, FixedRegisters
  <2>3. UNCHANGED <<up, locals, eaten>>
    BY <1>9 DEF SetFixed
  <2> HIDE DEF n
  <2> QED BY <2>1, <2>2, <2>3, WriteFits DEF TypeOK, locals
<1>10. CASE GetCommand
  <2>1. ASSUME NEW c, NEW r, GetNumber(c, r)
        PROVE  TypeOK'
    <3>1. tmp' \in Numbers
      BY <2>1, AnswersFit DEF GetNumber
    <3> QED BY <2>1, <3>1 DEF GetNumber, TypeOK
  <2>2. CASE GetPort
    <3>1. dest_port' \in Numbers
      BY <2>2, AnswersFit DEF GetPort
    <3> QED BY <2>2, <3>1 DEF GetPort, TypeOK
  <2> QED BY <1>10, <2>1, <2>2 DEF GetCommand
<1>11. ASSUME NEW c \in Observers, Observe(c)
       PROVE  TypeOK'
  BY <1>11, NumbersFit DEF Observe, TypeOK, locals
<1>12. CASE Strnsp
  <2>1. tmp' \in Numbers
    BY <1>12, NumbersFit DEF Strnsp, TypeOK
  <2> QED BY <1>12, <2>1 DEF Strnsp, TypeOK
<1>13. CASE EnforcerCommand
  <2>1. PICK c, n : Crash(c, n) /\ n \in 1..23
    BY <1>13, EnforcerCrashes
  <2>2. n \in Numbers
    BY <2>1, ParametersAssumption DEF ParametersAssumption, Numbers
  <2> QED BY <2>1, <2>2 DEF Crash, TypeOK, locals
<1>14. CASE help
  BY <1>14, NumbersFit DEF help, TypeOK, locals
<1>15. CASE Invalid
  BY <1>15, NumbersFit DEF Invalid, TypeOK, locals
<1>16. CASE Exit
  BY <1>16, NumbersFit DEF Exit, TypeOK, locals
<1>17. CASE Killed
  <2>1. ASSUME NEW s \in Starts, NEW k, CutStart(s, k)
        PROVE  TypeOK'
    <3>1. <<"eth", 8>> \in Registers
      BY DEF Registers, At
    <3>2. Given(s, <<"eth", 8>>) \in Numbers
      BY <3>1, GivenFits
    <3>3. \A r \in Registers : Given(s, r) \in Numbers /\ reg[r] \in Numbers
      BY GivenFits DEF TypeOK
    <3>4. reg' \in [Registers -> Numbers]
      BY <2>1, <3>2, <3>3 DEF CutStart
    <3> QED BY <2>1, <3>4, NumbersFit DEF CutStart, TypeOK, locals
  <2>2. ASSUME NEW R, NEW k, Cut(R, k)
        PROVE  TypeOK'
    <3>1. PICK n \in Entries : /\ Write({r \in R : r[2] <= k}, n)
                               /\ line' = <<"killed", n>>
      BY <2>2 DEF Cut
    <3>2. n \in Numbers
      BY NumbersFit
    <3> QED BY <2>2, <3>1, <3>2, WriteFits DEF Cut, TypeOK, locals
  <2> QED BY <1>17, <2>1, <2>2 DEF Killed
<1> QED
  BY <1>1, <1>2, <1>3, <1>4, <1>5, <1>7, <1>8, <1>9, <1>10, <1>11, <1>12,
     <1>13, <1>14, <1>15, <1>16, <1>17
     DEF Next

(* The variables of the program and the registers hold numbers of their    *)
(* width, whatever is typed, scaled, given or answered.                    *)
THEOREM TypeCorrect == Spec => []TypeOK
<1> QED BY InitTypes, StepTypes, PTL DEF Spec

----------------------------------------------------------------------------
(* One destination.  Every step that leaves the console open writes the    *)
(* whole destination or nothing of it; a step that may write a part of it  *)
(* ends the program, and the next start writes all of it.                  *)

LEMMA WritesKeepOne ==
    ASSUME OneDestination, NEW c, NEW R, NEW n, NEW m, Writes(c, R, n, m)
    PROVE  OneDestination'
<1>1. \A r \in DestinationIps \cup DestinationPorts :
        reg'[r] = IF r \in R THEN m ELSE reg[r]
  BY DestinationPlaces DEF Writes, Write
<1>2. up
  BY DEF Writes, Command
<1>3. \A r, q \in DestinationIps : reg'[r] = reg'[q]
  BY <1>1, <1>2 DEF OneDestination, Writes, AllOrNone
<1>4. \A r, q \in DestinationPorts : reg'[r] = reg'[q]
  BY <1>1, <1>2 DEF OneDestination, Writes, AllOrNone
<1> QED BY <1>3, <1>4 DEF OneDestination, DestinationIps, DestinationPorts

LEMMA StartGivesOne ==
    ASSUME NEW s, ui_init(s)
    PROVE  OneDestination'
<1>1. ASSUME NEW r \in DestinationIps
      PROVE  reg'[r] = IF s.sw = <<>> THEN s.dest ELSE 0
  <2>1. r \in Registers /\ r \in Eth("DEST_IP")
    BY DestinationPlaces DEF DestinationIps, Eth, write_eth_param
  <2>2. /\ r \notin {<<"eth", 2>>, <<"eth", 3>>, <<"eth", 4>>}
        /\ r # <<"a2e", set_stream_plen>>
    BY DEF DestinationIps, At
  <2>3. /\ r \notin Eth("SYNC_PORT") \cup One("sw", write_switch_param(2))
        /\ r \notin (Eth("DEST_PORT") \ Eth("SYNC_PORT"))
                      \cup One("sw", write_switch_param(1))
    BY DEF DestinationIps, Eth, At, One, write_eth_param
  <2>4. r \notin {<<"sw", write_switch_param(2 + i)>> : i \in 1..Len(s.sw)}
    BY DEF DestinationIps, At
  <2>5. Given(s, r) = IF s.sw = <<>> THEN s.dest ELSE 0
    BY <2>1, <2>2, <2>3, <2>4 DEF Given
  <2> QED BY <2>1, <2>5 DEF ui_init
<1>2. ASSUME NEW r \in DestinationPorts
      PROVE  reg'[r] = IF s.sw = <<>> THEN s.port ELSE 0
  <2>1. r \in Registers /\ r \in Eth("DEST_PORT") \ Eth("SYNC_PORT")
    BY DestinationPlaces DEF DestinationPorts, Eth, At, write_eth_param
  <2>2. /\ r \notin {<<"eth", 2>>, <<"eth", 3>>, <<"eth", 4>>}
        /\ r # <<"a2e", set_stream_plen>>
    BY DEF DestinationPorts, At
  <2>3. /\ r \notin Eth("DEST_IP")
        /\ r \notin Eth("SYNC_PORT") \cup One("sw", write_switch_param(2))
    BY DEF DestinationPorts, Eth, At, One, write_eth_param
  <2>4. r \notin {<<"sw", write_switch_param(2 + i)>> : i \in 1..Len(s.sw)}
    BY DEF DestinationPorts, At
  <2>5. Given(s, r) = IF s.sw = <<>> THEN s.port ELSE 0
    BY <2>1, <2>2, <2>3, <2>4 DEF Given
  <2> QED BY <2>1, <2>5 DEF ui_init
<1> QED BY <1>1, <1>2 DEF OneDestination, DestinationIps, DestinationPorts

\* A step that changes neither the registers nor whether the console is open.
LEMMA SameKeepsOne ==
    ASSUME OneDestination, UNCHANGED <<up, reg>>
    PROVE  OneDestination'
  BY DEF OneDestination, DestinationIps, DestinationPorts

\* A step that ends the program.
LEMMA EndKeepsOne == ASSUME ~up' PROVE OneDestination'
  BY DEF OneDestination

LEMMA StepKeepsOne ==
    TypeOK /\ OneDestination /\ [Next]_vars => OneDestination'
<1> SUFFICES ASSUME TypeOK, OneDestination, [Next]_vars
             PROVE  OneDestination'
  OBVIOUS
<1>1. CASE UNCHANGED vars
  BY <1>1, SameKeepsOne DEF vars
<1>2. ASSUME NEW s \in Starts, ui_init(s)
      PROVE  OneDestination'
  BY <1>2, StartGivesOne
<1>3. CASE SetCommand
  BY <1>3, SetCommandWrites, WritesKeepOne
<1>4. CASE GetCommand
  BY <1>4, GetCommandReads, SameKeepsOne DEF Answered
<1>5. CASE Strnsp \/ help \/ Invalid \/ \E c \in Observers : Observe(c)
  <2>1. UNCHANGED <<up, reg>>
    BY <1>5 DEF Strnsp, help, Invalid, Observe
  <2> QED BY <2>1, SameKeepsOne
<1>6. CASE EnforcerCommand
  BY <1>6, EnforcerCrashes, EndKeepsOne DEF Crash
<1>7. CASE Exit
  BY <1>7, EndKeepsOne DEF Exit
<1>8. CASE Killed
  <2>1. ~up'
    BY <1>8 DEF Killed, CutStart, Cut
  <2> QED BY <2>1, EndKeepsOne
<1> QED
  BY <1>1, <1>2, <1>3, <1>4, <1>5, <1>6, <1>7, <1>8 DEF Next, SetCommand

(* The channels of the network core send to one address and one port while *)
(* the console is open, however often the program was killed half-way.     *)
THEOREM OneDestinationHolds == Spec => []OneDestination
<1>1. Init => OneDestination
  BY DEF Init, OneDestination
<1> QED BY <1>1, InitTypes, StepTypes, StepKeepsOne, PTL DEF Spec

----------------------------------------------------------------------------
(* The console keeps the sheet: every step is one of Sheet's, when the     *)
(* value of a parameter is what its register holds.                        *)

\* What the registers are before and after a step, the sheet is.
LEMMA ValueIs ==
    /\ DOMAIN Value = DOMAIN Where /\ DOMAIN Value' = DOMAIN Where
    /\ \A p \in DOMAIN Where : Value[p] = reg[Where[p]]
    /\ \A p \in DOMAIN Where : (Value')[p] = reg'[Where[p]]
  BY DEF Value

LEMMA SameSheet == ASSUME UNCHANGED reg PROVE UNCHANGED Value
  BY DEF Value

LEMMA SheetInit == Init => Sheet!Init
<1> SUFFICES ASSUME Init PROVE Sheet!Init
  OBVIOUS
<1>1. \A p \in DOMAIN Where : Value[p] = 0
  BY ValueIs, WherePlaces DEF Init
<1>2. Value = [p \in DOMAIN Where |-> reg[Where[p]]]
  BY DEF Value
<1>3. Value \in [DOMAIN Value -> {0}]
  BY <1>1, <1>2, ValueIs
<1>4. ~up
  BY DEF Init
<1> QED BY <1>3, <1>4 DEF Sheet!Init

LEMMA WritesSets ==
    ASSUME NEW c, NEW R, NEW n, NEW m, Writes(c, R, n, m)
    PROVE  Sheet!Next
<1>1. ASSUME NEW p \in DOMAIN Where
      PROVE  reg'[Where[p]] = IF p \in Sheet!Sets[c]
                                 THEN Sheet!Kept(c, n) ELSE Value[p]
  <2>1. Where[p] \in Registers /\ Value[p] = reg[Where[p]]
    BY WherePlaces, ValueIs
  <2>2. Where[p] \in R <=> p \in Sheet!Sets[c]
    BY DEF Writes, Hits
  <2>3. m = Sheet!Kept(c, n)
    BY DEF Writes
  <2>4. reg'[Where[p]] = IF Where[p] \in R THEN m ELSE reg[Where[p]]
    BY <2>1 DEF Writes, Write
  <2> QED BY <2>1, <2>2, <2>3, <2>4
<1>2. Value' = [p \in DOMAIN Where |-> reg'[Where[p]]]
  BY DEF Value
<1>3. Value' = [p \in DOMAIN Value |->
                  IF p \in Sheet!Sets[c] THEN Sheet!Kept(c, n) ELSE Value[p]]
  BY <1>1, <1>2, ValueIs
<1>4. up /\ up'
  BY DEF Writes, Command
<1>5. Sheet!Set(c, n)
  BY <1>3, <1>4 DEF Sheet!Set
<1>6. line'[1] = c /\ line'[2] = n /\ c \in DOMAIN Sheet!Sets
  BY DEF Writes
<1> QED BY <1>5, <1>6 DEF Sheet!Next

LEMMA UnnamedIsOther ==
    ASSUME NEW c, NEW n, Unnamed(c), up, UNCHANGED reg, line' = <<c, n>>
    PROVE  Sheet!Next
<1>1. Sheet!Other
  BY SameSheet DEF Sheet!Other
<1>2. line'[1] = c
  OBVIOUS
<1> QED BY <1>1, <1>2 DEF Sheet!Next, Unnamed, Quiet

LEMMA AnsweredShows ==
    ASSUME NEW c, NEW r, NEW n, Answered(c, r, n)
    PROVE  Sheet!Next
<1>1. CASE c \in DOMAIN Sheet!Shows
  <2> DEFINE p == Sheet!Shows[c]
  <2>1. p \in DOMAIN Where /\ r = Where[p] /\ r \in Registers \ Occupancies
    BY <1>1 DEF Answered, Reads
  <2>2. n = reg[r]
    BY <2>1 DEF Answered, Answers
  <2>3. n = Value[p]
    BY <2>1, <2>2, ValueIs
  <2>4. up /\ up' /\ UNCHANGED Value
    BY SameSheet DEF Answered, Command
  <2>5. Sheet!Show(c, n)
    BY <2>3, <2>4 DEF Sheet!Show
  <2>6. line'[1] = c /\ line'[2] = n
    BY DEF Answered
  <2> QED BY <1>1, <2>5, <2>6 DEF Sheet!Next
<1>2. CASE c \notin DOMAIN Sheet!Shows
  BY <1>2, UnnamedIsOther DEF Answered, Reads, Unnamed, Command
<1> QED BY <1>1, <1>2


LEMMA StartOpens ==
    ASSUME NEW s \in Starts, ui_init(s)
    PROVE  Sheet!Next
<1>1. ASSUME NEW p \in DOMAIN Where, p \notin Sheet!Given
      PROVE  reg'[Where[p]] = reg[Where[p]]
  <2>1. Where[p] \notin At("eth", 2..14) \cup At("sw", 2..6)
                           \cup At("a2e", {3})
    BY <1>1 DEF Where, Sheet!Given, At
  <2>2. 1..Len(s.sw) \subseteq 1..3
    <3>1. s \in Start /\ Len(s.sw) <= 3
      BY ParametersAssumption DEF ParametersAssumption
    <3>2. s.sw \in Seq(Numbers)
      BY <3>1 DEF Start
    <3>3. Len(s.sw) \in Nat
      BY <3>2, LenProperties
    <3>4. \A n \in Nat : n <= 3 => 1..n \subseteq 1..3
      OBVIOUS
    <3> QED BY <3>1, <3>3, <3>4, Zenon
  <2>3. /\ Where[p] \notin {<<"eth", 2>>, <<"eth", 3>>, <<"eth", 4>>}
        /\ Where[p] # <<"a2e", set_stream_plen>>
    BY <2>1 DEF At, set_stream_plen
  <2>4. /\ Where[p] \notin Eth("DEST_IP")
        /\ Where[p] \notin Eth("SYNC_PORT")
                            \cup One("sw", write_switch_param(2))
        /\ Where[p] \notin (Eth("DEST_PORT") \ Eth("SYNC_PORT"))
                            \cup One("sw", write_switch_param(1))
    BY <2>1 DEF Eth, At, One, write_eth_param, write_switch_param
  <2>5. Where[p] \notin {<<"sw", write_switch_param(2 + i)>> :
                            i \in 1..Len(s.sw)}
    <3>1. ASSUME NEW i \in 1..Len(s.sw)
          PROVE  <<"sw", write_switch_param(2 + i)>> \in At("sw", 2..6)
      <4>1. i \in 1..3
        BY <2>2, Zenon
      <4>2. 2 + i + 1 \in 2..6
        BY <4>1
      <4> QED BY <4>2 DEF At, write_switch_param
    <3> QED BY <3>1, <2>1
  <2>6. Given(s, Where[p]) = reg[Where[p]]
    BY <2>3, <2>4, <2>5 DEF Given
  <2> QED BY <2>6, WherePlaces DEF ui_init
<1>2. \A p \in DOMAIN Value \ Sheet!Given : (Value')[p] = Value[p]
  BY <1>1, ValueIs
<1>3. ~up /\ up'
  BY DEF ui_init
<1>4. Sheet!Open
  BY <1>2, <1>3 DEF Sheet!Open
<1> QED BY <1>4 DEF Sheet!Next

\* A start that is cut touches no other registers than a whole one ...
LEMMA CutStartCuts ==
    ASSUME NEW s \in Starts, NEW k \in DOMAIN StartOrder, CutStart(s, k)
    PROVE  Sheet!Next
<1>1. \A i \in DOMAIN StartOrder :
        StartOrder[i] \in At("eth", 2..14) \cup At("sw", 2..6)
  BY DEF StartOrder, At
<1>2. 1..k \subseteq DOMAIN StartOrder
  BY DEF StartOrder
<1>3. ASSUME NEW p \in DOMAIN Where, p \notin Sheet!Given
      PROVE  reg'[Where[p]] = reg[Where[p]]
  <2>1. Where[p] \notin At("eth", 2..14) \cup At("sw", 2..6)
    BY <1>3 DEF Where, Sheet!Given, At
  <2>2. Where[p] \notin {StartOrder[i] : i \in 1..k}
    BY <1>1, <1>2, <2>1
  <2> QED BY <2>2, WherePlaces DEF CutStart
<1>4. \A p \in DOMAIN Value \ Sheet!Given : (Value')[p] = Value[p]
  BY <1>3, ValueIs
<1>5. ~up /\ ~up'
  BY DEF CutStart
<1>6. Sheet!Cut
  BY <1>4, <1>5 DEF Sheet!Cut
<1>7. line'[1] = "killed"
  BY DEF CutStart
<1> QED BY <1>6, <1>7 DEF Sheet!Next

\* ... and a command that is cut no others than the whole command.
LEMMA CutCuts ==
    ASSUME NEW c \in DOMAIN Sheet!Sets, NEW R, NEW P, NEW k,
           Hits(c, R), P \subseteq R, Cut(P, k)
    PROVE  Sheet!Next
<1>1. ASSUME NEW p \in DOMAIN Where, p \notin Sheet!Sets[c]
      PROVE  reg'[Where[p]] = reg[Where[p]]
  <2>1. Where[p] \notin P
    BY <1>1 DEF Hits
  <2> QED BY <2>1, WherePlaces DEF Cut, Write
<1>2. \A p \in DOMAIN Value \ Sheet!Sets[c] : (Value')[p] = Value[p]
  BY <1>1, ValueIs
<1>3. up /\ ~up'
  BY DEF Cut, Command
<1>4. Sheet!Cut
  BY <1>2, <1>3 DEF Sheet!Cut
<1>5. line'[1] = "killed"
  BY DEF Cut
<1> QED BY <1>4, <1>5 DEF Sheet!Next

LEMMA KilledCuts == ASSUME Killed PROVE Sheet!Next
<1>1. ASSUME NEW c \in DOMAIN AddressCommands, NEW k,
             Cut(AddressCommands[c], k)
      PROVE  Sheet!Next
  BY <1>1, AddressTable, CutCuts
<1>2. ASSUME NEW c \in DOMAIN PortCommands, NEW k, Cut(PortCommands[c], k)
      PROVE  Sheet!Next
  BY <1>2, PortTable, CutCuts
<1>3. ASSUME Cut(One("seq", set_stream_rx_buf_lim), set_stream_rx_buf_lim)
      PROVE  Sheet!Next
  <2>1. "setpblim" \in DOMAIN BufferCommands
    BY DEF BufferCommands
  <2>2. One("seq", set_stream_rx_buf_lim) \subseteq BufferCommands["setpblim"]
    BY DEF BufferCommands
  <2> QED BY <1>3, <2>1, <2>2, BufferTable, CutCuts
<1> QED BY <1>1, <1>2, <1>3, CutStartCuts DEF Killed

LEMMA SheetStep ==
    TypeOK /\ [Next]_vars => [Sheet!Next]_<<Value, line, up>>
<1> SUFFICES ASSUME TypeOK, [Next]_vars
             PROVE  [Sheet!Next]_<<Value, line, up>>
  OBVIOUS
<1>1. CASE UNCHANGED vars
  <2>1. UNCHANGED <<reg, line, up>>
    BY <1>1 DEF vars
  <2> QED BY <2>1, SameSheet
<1>2. ASSUME NEW s \in Starts, ui_init(s)
      PROVE  Sheet!Next
  BY <1>2, StartOpens
<1>3. CASE SetCommand
  BY <1>3, SetCommandWrites, WritesSets
<1>4. CASE GetCommand
  BY <1>4, GetCommandReads, AnsweredShows
<1>5. ASSUME NEW c \in Observers, Observe(c)
      PROVE  Sheet!Next
  BY <1>5, ObserversUnnamed, UnnamedIsOther DEF Observe, Command
<1>6. CASE Strnsp
  BY <1>6, OthersUnnamed, UnnamedIsOther DEF Strnsp, Command
<1>7. CASE EnforcerCommand
  BY <1>7, EnforcerCrashes, UnnamedIsOther DEF Crash, Command
<1>8. CASE help
  BY <1>8, OthersUnnamed, UnnamedIsOther DEF help, Command
<1>9. CASE Invalid
  BY <1>9, OthersUnnamed, UnnamedIsOther DEF Invalid
<1>10. CASE Exit
  BY <1>10, OthersUnnamed, UnnamedIsOther DEF Exit
<1>11. CASE Killed
  BY <1>11, KilledCuts
<1> QED
  BY <1>1, <1>2, <1>3, <1>4, <1>5, <1>6, <1>7, <1>8, <1>9, <1>10, <1>11
     DEF Next, SetCommand

(* The console implements the sheet: a command that sets a parameter moves *)
(* it and those that share its register and no other, and a command that   *)
(* shows one shows what was last set, for every number typed or answered.  *)
THEOREM ConsoleKeepsTheSheet == Spec => KeepsTheSheet
<1>1. Spec => []TypeOK
  BY TypeCorrect
<1>2. Spec => Sheet!Init /\ [][Sheet!Next]_<<Value, line, up>>
  BY <1>1, SheetInit, SheetStep, PTL DEF Spec
<1> QED BY <1>2 DEF KeepsTheSheet, Sheet!Spec

=============================================================================
