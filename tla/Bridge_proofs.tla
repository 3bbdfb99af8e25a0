---------------------------- MODULE Bridge_proofs ----------------------------
(***************************************************************************)
(* The bridge for any set of MAC addresses: its sync, the bits of its      *)
(* registers, and that it implements its console.                          *)
(*                                                                         *)
(* The invariant of the sync speaks of two bits of two registers, the one  *)
(* that enables time sync and the one that lets its packets out.  Most     *)
(* functions of stream_control.c leave both alone; the lemmas say which    *)
(* do, and what the others make of them, so that a command is followed     *)
(* function by function.                                                   *)
(***************************************************************************)
EXTENDS Bridge, TLAPS

Words == {"eth15", "eth0", "a2e0", "a2e6", "e2a0", "ts0", "seq1"}
Files == [Words -> SUBSET Int]

Enabled(r) == 0 \in r.ts0
Sent(r)    == 0 \in r.eth15

\* The function that took r to s left the sync alone.
Leaves(r, s) ==
    s \in Files /\ (Enabled(s) <=> Enabled(r)) /\ (Sent(s) <=> Sent(r))

BridgeInv ==
    /\ reg \in Files
    /\ SyncPacketsSent

LEMMA Transitive ==
    ASSUME NEW r, NEW s, NEW t, Leaves(r, s), Leaves(s, t)
    PROVE  Leaves(r, t)
BY DEF Leaves

(* A bit that is set or cleared elsewhere leaves the sync alone.           *)
LEMMA Masks ==
    ASSUME NEW r \in Files, NEW w \in Words, NEW bits \in SUBSET Int,
           w \in {"eth15", "ts0"} => 0 \notin bits
    PROVE  Leaves(r, Or(r, w, bits)) /\ Leaves(r, And(r, w, bits))
BY DEF Leaves, Enabled, Sent, Files, Words, Or, And

LEMMA Writes ==
    ASSUME NEW r \in Files, NEW w \in Words, NEW bits \in SUBSET Int,
           w \notin {"eth15", "ts0"}
    PROVE  Leaves(r, Put(r, w, bits))
BY DEF Leaves, Enabled, Sent, Files, Words, Put

LEMMA FlagsLeave ==
    ASSUME NEW r \in Files, NEW full \in SUBSET Flags
    PROVE  Leaves(r, Flagged(r, full))
BY DEF Leaves, Enabled, Sent, Files, Words, Flagged, Flags

(* The functions of stream_control.c that have no part in the sync.        *)
LEMMA OtherFunctions ==
    ASSUME NEW r \in Files
    PROVE  /\ Leaves(r, reset_adc_fifos(r))
           /\ Leaves(r, set_sync_on(r))
           /\ Leaves(r, set_sync_off(r))
           /\ Leaves(r, reset_pkt_seq(r))
           /\ Leaves(r, time_tms_en(r))
           /\ Leaves(r, time_tms_off(r))
           /\ \A full \in SUBSET Flags : Leaves(r, reset_dac_fifos(r, full))
<1>1. Leaves(r, set_sync_off(r))
  <2> DEFINE s == Put(r, "a2e6", {})
  <2>1. s \in Files /\ Leaves(r, s)
    BY Writes DEF Words, Leaves
  <2>2. Leaves(s, And(s, "eth0", {0}))
    BY <2>1, Masks DEF Words
  <2> QED
    BY <2>1, <2>2, Transitive DEF set_sync_off
<1>2. ASSUME NEW full \in SUBSET Flags
      PROVE  Leaves(r, reset_dac_fifos(r, full))
  <2> DEFINE s == Flagged(r, full)
  <2>1. s \in Files /\ Leaves(r, s)
    BY FlagsLeave DEF Leaves
  <2>2. Leaves(s, And(s, "e2a0", {0, 1}))
    BY <2>1, Masks DEF Words
  <2> QED
    BY <2>1, <2>2, Transitive DEF reset_dac_fifos
<1> QED
  BY <1>1, <1>2, Masks, Writes
     DEF Words, reset_adc_fifos, set_sync_on, reset_pkt_seq, time_tms_en,
         time_tms_off

(* The functions that do.                                                  *)
LEMMA SyncFunctions ==
    ASSUME NEW r \in Files
    PROVE  /\ LET s == time_sync_en(r)
              IN  s \in Files /\ Enabled(s) /\ (Sent(s) <=> Sent(r))
           /\ LET s == time_sync_off(r)
              IN  s \in Files /\ ~Enabled(s)
           /\ LET s == set_sync_rst(r)
              IN  s \in Files /\ ~Enabled(s)
           /\ LET s == time_sync_tx_en(r)
              IN  s \in Files /\ (Enabled(s) <=> Enabled(r)) /\ Sent(s)
           /\ time_sync_tx_off(r) \in Files
           /\ LET s == initiate_sync(r)
              IN  s \in Files /\ ~Enabled(s)
BY DEF Files, Words, Enabled, Sent, Or, And, Put, time_sync_en, time_sync_off,
       set_sync_rst, time_sync_tx_en, time_sync_tx_off, initiate_sync

(* A command that leaves the sync alone keeps the invariant, and so does    *)
(* one that ends with time sync disabled or its packets sent.              *)
LEMMA LeavesKeep ==
    ASSUME BridgeInv, NEW s, Leaves(reg, s), reg' = s, stale' = stale
    PROVE  BridgeInv'
BY DEF BridgeInv, SyncPacketsSent, Leaves, Enabled, Sent

LEMMA SyncKeep ==
    ASSUME NEW s \in Files, Enabled(s) => Sent(s), reg' = s
    PROVE  BridgeInv'
BY DEF BridgeInv, SyncPacketsSent, Enabled, Sent

LEMMA StreamStep == ASSUME BridgeInv, StreamCommand PROVE BridgeInv'
<1>1. CASE Start
  <2> DEFINE s == Or(reg, "eth15", {1})
  <2>1. s \in Files /\ Leaves(reg, s)
    BY Masks DEF Words, BridgeInv, Leaves
  <2>2. Leaves(reg, reset_adc_fifos(s))
    BY <2>1, OtherFunctions, Transitive
  <2> QED
    BY <1>1, <2>2, LeavesKeep DEF Start, Run
<1>2. CASE Stop
  <2> DEFINE s == set_sync_off(reg)
  <2>1. s \in Files /\ Leaves(reg, s)
    BY OtherFunctions DEF BridgeInv, Leaves
  <2>2. Leaves(s, And(s, "eth15", {1}))
    BY <2>1, Masks DEF Words
  <2>3. Leaves(reg, And(s, "eth15", {1}))
    BY <2>1, <2>2, Transitive
  <2> QED
    BY <1>2, <2>3, LeavesKeep DEF Stop, Run
<1>3. CASE Strrxon \/ Strrxstop
  <2>1. /\ Leaves(reg, Or(reg, "eth15", {2}))
        /\ Leaves(reg, And(reg, "eth15", {2}))
    BY Masks DEF Words, BridgeInv
  <2> QED
    BY <1>3, <2>1, LeavesKeep DEF Strrxon, Strrxstop, Run
<1> QED
  BY <1>1, <1>2, <1>3 DEF StreamCommand

LEMMA SyncStep == ASSUME BridgeInv, SyncCommand PROVE BridgeInv'
<1> USE DEF RunSync, Run
<1>0. reg \in Files
  BY DEF BridgeInv
<1>1. CASE Sync
  BY <1>0, <1>1, SyncFunctions, SyncKeep DEF Sync
<1>2. CASE Syncoff
  BY <1>0, <1>2, SyncFunctions, SyncKeep DEF Syncoff
<1>3. CASE Syncrst
  BY <1>0, <1>3, SyncFunctions, SyncKeep DEF Syncrst
<1>4. CASE Latency
  <2> DEFINE s == time_sync_tx_en(time_sync_en(reg))
             t == time_tms_en(time_tms_off(s))
  <2>1. s \in Files
    BY <1>0, SyncFunctions
  <2>2. t \in Files
    BY <2>1, OtherFunctions DEF Leaves
  <2>3. time_sync_tx_en(t) \in Files /\ Sent(time_sync_tx_en(t))
    BY <2>2, SyncFunctions
  <2> QED
    BY <1>4, <2>3, SyncKeep DEF Latency
<1>5. CASE Setsyncon
  <2> DEFINE s == initiate_sync(reg)
  <2>1. s \in Files /\ ~Enabled(s)
    BY <1>0, SyncFunctions
  <2>2. set_sync_on(s) \in Files /\ ~Enabled(set_sync_on(s))
    BY <2>1, OtherFunctions DEF Leaves
  <2> QED
    BY <1>5, <2>2, SyncKeep DEF Setsyncon
<1>6. CASE Setsyncoff
  BY <1>0, <1>6, OtherFunctions, LeavesKeep DEF Setsyncoff
<1>7. CASE Tgsync
  <2> DEFINE s == set_sync_off(reg)
  <2>1. s \in Files /\ Leaves(reg, s)
    BY <1>0, OtherFunctions DEF Leaves
  <2>2. Leaves(reg, set_sync_on(s))
    BY <2>1, OtherFunctions, Transitive
  <2> QED
    BY <1>7, <2>2, LeavesKeep DEF Tgsync
<1> QED
  BY <1>1, <1>2, <1>3, <1>4, <1>5, <1>6, <1>7 DEF SyncCommand

LEMMA ResetStep ==
    ASSUME BridgeInv, NEW full \in SUBSET Flags, ResetCommand(full)
    PROVE  BridgeInv'
<1> USE DEF RunSync, Run
<1>0. reg \in Files
  BY DEF BridgeInv
<1> DEFINE c == And(reg, "eth15", {1})
<1>c. c \in Files /\ Leaves(reg, c)
  BY <1>0, Masks DEF Words, Leaves
<1>1. CASE Creset
  BY <1>c, <1>1, LeavesKeep DEF Creset
<1>2. CASE Areset \/ Preset \/ Strsel(full)
  BY <1>0, <1>2, OtherFunctions, LeavesKeep DEF Areset, Preset, Strsel
<1>3. CASE Freset(full)
  <2> DEFINE s == reset_pkt_seq(c)
             t == reset_adc_fifos(s)
             u == reset_dac_fifos(t, full)
  <2>1. s \in Files /\ Leaves(reg, s)
    BY <1>c, OtherFunctions, Transitive DEF Leaves
  <2>2. t \in Files /\ Leaves(reg, t)
    BY <2>1, OtherFunctions, Transitive DEF Leaves
  <2>3. Leaves(reg, u)
    BY <2>2, OtherFunctions, Transitive
  <2> QED
    BY <1>3, <2>3, LeavesKeep DEF Freset
<1>4. CASE Reset(full)
  <2> DEFINE s == set_sync_rst(time_sync_off(time_sync_tx_off(reg)))
             t == time_sync_tx_en(time_sync_en(s))
             u == reset_dac_fifos(t, full)
  <2>1. s \in Files
    BY <1>0, SyncFunctions
  <2>2. t \in Files /\ Sent(t)
    BY <2>1, SyncFunctions
  <2>3. u \in Files /\ Sent(u)
    BY <2>2, OtherFunctions DEF Leaves
  <2> QED
    BY <1>4, <2>3, SyncKeep DEF Reset
<1> QED
  BY <1>1, <1>2, <1>3, <1>4 DEF ResetCommand

(* The test, packet, sequencer and delay commands: one word that is masked. *)
LEMMA SwitchStep ==
    ASSUME BridgeInv, TestCommand \/ PacketCommand \/ SequencerCommand
                      \/ DelayCommand
    PROVE  BridgeInv'
<1> USE DEF Run
<1>0. reg \in Files
  BY DEF BridgeInv
<1>1. CASE TestCommand
  <2>1. Leaves(reg, set_test_mode_on(reg)) /\ Leaves(reg, set_test_mode_off(reg))
    BY <1>0, Masks DEF Words, set_test_mode_on, set_test_mode_off
  <2>2. ASSUME NEW m \in 1..5
        PROVE  Leaves(reg, set_test_mode(reg, TestModes[m]))
    <3> DEFINE s == And(reg, "a2e0", 9..11)
    <3>1. s \in Files /\ Leaves(reg, s)
      BY <1>0, Masks DEF Words, Leaves
    <3>2. Leaves(s, Or(s, "a2e0", TestModes[m]))
      <4>1. TestModes[m] \in SUBSET Int
        BY DEF TestModes
      <4> QED
        BY <3>1, <4>1, Masks DEF Words
    <3> QED
      BY <3>1, <3>2, Transitive DEF set_test_mode
  <2> QED
    BY <1>1, <2>1, <2>2, LeavesKeep DEF TestCommand
<1>2. CASE PacketCommand
  <2>1. /\ Leaves(reg, set_pcnt_mode_on(reg))
        /\ Leaves(reg, set_pcnt_mode_off(reg))
        /\ Leaves(reg, set_stream_send_on(reg))
        /\ Leaves(reg, set_stream_send_off(reg))
    BY <1>0, Masks DEF Words, set_pcnt_mode_on, set_pcnt_mode_off,
                       set_stream_send_on, set_stream_send_off
  <2> QED
    BY <1>2, <2>1, LeavesKeep DEF PacketCommand
<1>3. CASE SequencerCommand \/ DelayCommand
  <2>1. /\ Leaves(reg, disble_pkt_seq(reg))
        /\ Leaves(reg, enable_pkt_seq(reg))
        /\ Leaves(reg, pkt_wait_disable(reg))
        /\ Leaves(reg, pkt_wait_enable(reg))
        /\ Leaves(reg, pkt_send_delay_disable(reg))
        /\ Leaves(reg, pkt_send_delay_enable(reg))
    BY <1>0, Masks DEF Words, disble_pkt_seq, enable_pkt_seq,
                       pkt_wait_disable, pkt_wait_enable,
                       pkt_send_delay_disable, pkt_send_delay_enable
  <2> QED
    BY <1>3, <2>1, LeavesKeep DEF SequencerCommand, DelayCommand
<1> QED
  BY <1>1, <1>2, <1>3

LEMMA FeatureStep ==
    ASSUME BridgeInv, NEW full \in SUBSET Flags,
           CorrectionCommand(full) \/ PlcCommand(full)
    PROVE  BridgeInv'
<1> DEFINE s == Flagged(reg, full)
<1>1. s \in Files /\ Leaves(reg, s)
  BY FlagsLeave DEF BridgeInv, Leaves
<1>2. ASSUME NEW b \in {4, 5}
      PROVE  /\ Leaves(reg, Or(s, "e2a0", {b}))
             /\ Leaves(reg, And(s, "e2a0", {b}))
  <2>1. Leaves(s, Or(s, "e2a0", {b})) /\ Leaves(s, And(s, "e2a0", {b}))
    BY <1>1, Masks DEF Words
  <2> QED
    BY <1>1, <2>1, Transitive
<1> QED
  BY <1>2, LeavesKeep
     DEF CorrectionCommand, PlcCommand, Run, set_buf_corr_on, clear_buf_corr,
         set_plc_enable, set_plc_disable

LEMMA ParameterStep ==
    ASSUME BridgeInv,
           \/ \E mac \in Macs : Strmac(mac)
           \/ \E speed \in 0..2 : Strnsp(speed)
    PROVE  BridgeInv'
<1>0. reg \in Files
  BY DEF BridgeInv
<1>1. ASSUME NEW mac \in Macs, Strmac(mac) PROVE BridgeInv'
  <2>1. mac \in SUBSET Int
    BY BridgeAssumption DEF BridgeAssumption
  <2>2. Leaves(reg, write_eth_mac(reg, mac))
    BY <1>0, <2>1, Writes DEF Words, write_eth_mac
  <2> QED
    BY <1>1, <2>2, LeavesKeep DEF Strmac
<1>2. ASSUME NEW speed \in 0..2, Strnsp(speed) PROVE BridgeInv'
  <2>1. ASSUME NEW bits \in {{1, 2}, {1}, {2}}
        PROVE  Leaves(reg, And(reg, "eth15", bits))
    BY <1>0, Masks DEF Words
  <2>2. \E bits \in {{1, 2}, {1}, {2}} : Run(And(reg, "eth15", bits))
    BY <1>2 DEF Strnsp
  <2> QED
    BY <2>1, <2>2, LeavesKeep DEF Run
<1> QED
  BY <1>1, <1>2

(* ui_init turns the packets off; the time sync it leaves on is stale.      *)
LEMMA UiInit ==
    ASSUME NEW r \in Files
    PROVE  ui_init(r) \in Files /\ (Enabled(ui_init(r)) <=> Enabled(r))
<1> DEFINE s == write_eth_mac(r, BoxMac)
           t == set_sync_off(s)
<1>1. BoxMac \in SUBSET Int
  BY BridgeAssumption DEF BridgeAssumption
<1>2. s \in Files /\ Leaves(r, s)
  BY <1>1, Writes DEF Words, Leaves, write_eth_mac
<1>3. t \in Files /\ Leaves(r, t)
  BY <1>2, OtherFunctions, Transitive DEF Leaves
<1>4. And(t, "eth15", {0}) \in Files
      /\ (Enabled(And(t, "eth15", {0})) <=> Enabled(t))
  BY <1>3 DEF Files, Words, And, Enabled
<1> QED
  BY <1>3, <1>4 DEF ui_init, Leaves

LEMMA RestartStep == ASSUME BridgeInv, Restart PROVE BridgeInv'
BY UiInit DEF BridgeInv, Restart, SyncPacketsSent, Enabled

LEMMA InitInv == ASSUME Init PROVE BridgeInv
<1> DEFINE r == [w \in Registers |-> {}]
<1>1. r \in Files /\ ~Enabled(r)
  BY DEF Files, Words, Registers, Bits, Enabled
<1> QED
  BY <1>1, UiInit DEF Init, BridgeInv, SyncPacketsSent, Enabled

LEMMA StepInv == BridgeInv /\ [Next]_vars => BridgeInv'
<1> SUFFICES ASSUME BridgeInv, [Next]_vars PROVE BridgeInv'
  OBVIOUS
<1>1. CASE UNCHANGED vars
  BY <1>1 DEF vars, BridgeInv, SyncPacketsSent
<1> QED
  BY <1>1, StreamStep, SyncStep, ResetStep, SwitchStep, FeatureStep,
     ParameterStep, RestartStep DEF Next

(* Whatever the order of the commands, time sync is never enabled by this    *)
(* run of the program with the responses of the network core blocked       *)
(* (stream_control.c:492).                                                 *)
THEOREM PacketsSent == Spec => []SyncPacketsSent
<1>1. BridgeInv => SyncPacketsSent
  BY DEF BridgeInv
<1> QED
  BY InitInv, StepInv, <1>1, PTL DEF Spec

----------------------------------------------------------------------------
(* The bits of the registers.  Between two commands each register holds    *)
(* only bits that are no reset; every function of stream_control.c keeps   *)
(* that.                                                                   *)
Allowed == [eth15 |-> 0..2, eth0 |-> 0..2, a2e0 |-> 6..11, a2e6 |-> {0},
            e2a0 |-> {4, 5}, ts0 |-> {0, 1}, seq1 |-> 1..3]

Sane(r) == r \in Files /\ \A w \in Words : r[w] \subseteq Allowed[w]

LEMMA AllowedBits ==
    /\ Allowed["eth15"] = 0..2 /\ Allowed["eth0"] = 0..2
    /\ Allowed["a2e0"] = 6..11 /\ Allowed["a2e6"] = {0}
    /\ Allowed["e2a0"] = {4, 5} /\ Allowed["ts0"] = {0, 1}
    /\ Allowed["seq1"] = 1..3
BY DEF Allowed

LEMMA AllowedAreBits == \A w \in Words : Allowed[w] \subseteq Int
<1>1. ASSUME NEW w \in Words PROVE Allowed[w] \subseteq Int
  BY AllowedBits DEF Words
<1> QED BY <1>1

\* Clearing any bits keeps it, and so does setting allowed ones.
LEMMA AndKeeps ==
    ASSUME NEW r, Sane(r), NEW w \in Words, NEW bits
    PROVE  Sane(And(r, w, bits))
BY DEF Sane, Files, And

LEMMA OrKeeps ==
    ASSUME NEW r, Sane(r), NEW w \in Words, NEW bits \in SUBSET Allowed[w]
    PROVE  Sane(Or(r, w, bits))
BY AllowedAreBits DEF Sane, Files, Or

LEMMA PutKeeps ==
    ASSUME NEW r, Sane(r), NEW w \in Words, NEW bits \in SUBSET Allowed[w]
    PROVE  Sane(Put(r, w, bits))
BY AllowedAreBits DEF Sane, Files, Put

LEMMA FlaggedKeeps ==
    ASSUME NEW r, Sane(r), NEW full \in SUBSET Flags
    PROVE  Sane(Flagged(r, full))
<1>1. full \subseteq Allowed["e2a0"] /\ "e2a0" \in Words
  BY AllowedBits DEF Flags, Words
<1>2. Flagged(r, full) = [r EXCEPT !["e2a0"] = (r["e2a0"] \ Flags) \cup full]
  BY DEF Flagged, Sane, Files, Words
<1> QED BY <1>1, <1>2, AllowedAreBits DEF Sane, Files

\* The functions that set or clear bits of one register.
LEMMA MasksKeep ==
    ASSUME NEW r, Sane(r)
    PROVE  /\ Sane(reset_adc_fifos(r))     /\ Sane(time_tms_en(r))
           /\ Sane(time_tms_off(r))        /\ Sane(time_sync_tx_en(r))
           /\ Sane(time_sync_tx_off(r))    /\ Sane(set_pcnt_mode_on(r))
           /\ Sane(set_pcnt_mode_off(r))   /\ Sane(set_test_mode_on(r))
           /\ Sane(set_test_mode_off(r))   /\ Sane(set_stream_send_on(r))
           /\ Sane(set_stream_send_off(r)) /\ Sane(reset_pkt_seq(r))
           /\ Sane(disble_pkt_seq(r))      /\ Sane(enable_pkt_seq(r))
           /\ Sane(pkt_wait_disable(r))    /\ Sane(pkt_wait_enable(r))
           /\ Sane(pkt_send_delay_disable(r))
           /\ Sane(pkt_send_delay_enable(r))
<1>1. {"eth15", "a2e0", "ts0", "seq1"} \subseteq Words
  BY DEF Words
<1>2. \A w \in Words : \A bits : Sane(And(r, w, bits))
  BY AndKeeps
<1>3. /\ Sane(Or(r, "ts0", {1})) /\ Sane(Or(r, "eth15", {0}))
      /\ Sane(Or(r, "a2e0", {6})) /\ Sane(Or(r, "a2e0", {7}))
      /\ Sane(Or(r, "a2e0", {8})) /\ Sane(Or(r, "seq1", {1}))
      /\ Sane(Or(r, "seq1", {2})) /\ Sane(Or(r, "seq1", {3}))
  <2>1. /\ {1} \subseteq Allowed["ts0"] /\ {0} \subseteq Allowed["eth15"]
        /\ {6} \subseteq Allowed["a2e0"] /\ {7} \subseteq Allowed["a2e0"]
        /\ {8} \subseteq Allowed["a2e0"] /\ {1} \subseteq Allowed["seq1"]
        /\ {2} \subseteq Allowed["seq1"] /\ {3} \subseteq Allowed["seq1"]
    BY AllowedBits
  <2> QED BY <1>1, <2>1, OrKeeps
<1> QED
  BY <1>1, <1>2, <1>3
     DEF reset_adc_fifos, time_tms_en, time_tms_off, time_sync_tx_en,
         time_sync_tx_off, set_pcnt_mode_on, set_pcnt_mode_off,
         set_test_mode_on, set_test_mode_off, set_stream_send_on,
         set_stream_send_off, reset_pkt_seq, disble_pkt_seq, enable_pkt_seq,
         pkt_wait_disable, pkt_wait_enable, pkt_send_delay_disable,
         pkt_send_delay_enable

\* Those that write a whole register.
LEMMA PutsKeep ==
    ASSUME NEW r, Sane(r)
    PROVE  /\ Sane(time_sync_en(r)) /\ Sane(time_sync_off(r))
           /\ Sane(set_sync_rst(r)) /\ Sane(set_sync_on(r))
           /\ Sane(set_sync_off(r)) /\ Sane(initiate_sync(r))
           /\ \A mac \in SUBSET (0..2) : Sane(write_eth_mac(r, mac))
<1>1. {"eth15", "eth0", "a2e6", "ts0"} \subseteq Words
  BY DEF Words
<1>2. /\ {0} \subseteq Allowed["ts0"] /\ {0} \subseteq Allowed["a2e6"]
      /\ \A w \in Words : {} \subseteq Allowed[w]
  BY AllowedBits
<1>3. /\ Sane(Put(r, "ts0", {0})) /\ Sane(Put(r, "ts0", {}))
      /\ Sane(Put(r, "a2e6", {0})) /\ Sane(Put(r, "a2e6", {}))
  BY <1>1, <1>2, PutKeeps
<1>4. r.eth0 \ {0} \subseteq Allowed["eth15"]
  BY <1>1, AllowedBits DEF Sane
<1>5. Sane(Put(r, "eth15", r.eth0 \ {0}))
  BY <1>1, <1>4, PutKeeps
<1>6. Sane(initiate_sync(r))
  BY <1>1, <1>2, <1>5, PutKeeps DEF initiate_sync
<1>7. Sane(set_sync_off(r))
  BY <1>1, <1>3, AndKeeps DEF set_sync_off
<1>8. \A mac \in SUBSET (0..2) : Sane(write_eth_mac(r, mac))
  BY <1>1, AllowedBits, PutKeeps DEF write_eth_mac
<1> QED
  BY <1>3, <1>6, <1>7, <1>8
     DEF time_sync_en, time_sync_off, set_sync_rst, set_sync_on

\* Those that read flags in the register they change, and the test modes.
LEMMA OthersKeep ==
    ASSUME NEW r, Sane(r)
    PROVE  /\ \A full \in SUBSET Flags :
                 /\ Sane(reset_dac_fifos(r, full))
                 /\ Sane(set_buf_corr_on(r, full))
                 /\ Sane(clear_buf_corr(r, full))
                 /\ Sane(set_plc_enable(r, full))
                 /\ Sane(set_plc_disable(r, full))
           /\ \A m \in 1..5 : Sane(set_test_mode(r, TestModes[m]))
<1>1. {"e2a0", "a2e0"} \subseteq Words
  BY DEF Words
<1>2. ASSUME NEW full \in SUBSET Flags
      PROVE  /\ Sane(reset_dac_fifos(r, full))
             /\ Sane(set_buf_corr_on(r, full))
             /\ Sane(clear_buf_corr(r, full)) /\ Sane(set_plc_enable(r, full))
             /\ Sane(set_plc_disable(r, full))
  <2>1. Sane(Flagged(r, full))
    BY FlaggedKeeps
  <2>2. {5} \subseteq Allowed["e2a0"] /\ {4} \subseteq Allowed["e2a0"]
    BY AllowedBits
  <2> QED
    BY <1>1, <2>1, <2>2, AndKeeps, OrKeeps
       DEF reset_dac_fifos, set_buf_corr_on, clear_buf_corr, set_plc_enable,
           set_plc_disable
<1>3. ASSUME NEW m \in 1..5
      PROVE  Sane(set_test_mode(r, TestModes[m]))
  <2>1. TestModes[m] \subseteq Allowed["a2e0"]
    BY AllowedBits DEF TestModes
  <2>2. Sane(And(r, "a2e0", 9..11))
    BY <1>1, AndKeeps
  <2> QED BY <1>1, <2>1, <2>2, OrKeeps DEF set_test_mode
<1> QED BY <1>2, <1>3

LEMMA UiInitKeeps == ASSUME NEW r, Sane(r) PROVE Sane(ui_init(r))
<1>1. Sane(write_eth_mac(r, BoxMac))
  BY PutsKeep, BridgeAssumption DEF BridgeAssumption
<1>2. Sane(set_sync_off(write_eth_mac(r, BoxMac)))
  BY <1>1, PutsKeep
<1> QED BY <1>2, AndKeeps DEF ui_init, Words

\* The commands, each a chain of the functions.
SaneInv == Sane(reg) /\ mac_set \in Macs /\ stale \in BOOLEAN

LEMMA InitSane == Init => SaneInv
<1> DEFINE r == [w \in Registers |-> {}]
<1>1. Sane(r)
  BY DEF Sane, Files, Words, Registers, Bits
<1>2. Sane(ui_init(r))
  BY <1>1, UiInitKeeps
<1> QED
  BY <1>2, BridgeAssumption DEF Init, SaneInv, BridgeAssumption

LEMMA StepSane == SaneInv /\ [Next]_vars => SaneInv'
<1> SUFFICES ASSUME SaneInv, [Next]_vars PROVE SaneInv'
  OBVIOUS
<1>1. Sane(reg)
  BY DEF SaneInv
<1>2. ASSUME NEW r, Sane(r), Run(r) \/ RunSync(r)
      PROVE  SaneInv'
  BY <1>2 DEF SaneInv, Run, RunSync
<1>3. CASE StreamCommand
  <2>1. /\ {1} \subseteq Allowed["eth15"] /\ {2} \subseteq Allowed["eth15"]
        /\ "eth15" \in Words
    BY AllowedBits DEF Words
  <2>2. /\ Sane(reset_adc_fifos(Or(reg, "eth15", {1})))
        /\ Sane(Or(reg, "eth15", {2})) /\ Sane(And(reg, "eth15", {2}))
        /\ Sane(And(set_sync_off(reg), "eth15", {1}))
    BY <1>1, <2>1, OrKeeps, AndKeeps, MasksKeep, PutsKeep
  <2> QED
    BY <1>2, <1>3, <2>2 DEF StreamCommand, Start, Stop, Strrxon, Strrxstop
<1>4. CASE SyncCommand
  <2>1. Sane(time_sync_tx_en(time_sync_en(reg)))
    BY <1>1, MasksKeep, PutsKeep
  <2>2. Sane(time_sync_off(reg)) /\ Sane(set_sync_rst(reg))
    BY <1>1, PutsKeep
  <2>3. Sane(time_sync_tx_en(time_tms_en(time_tms_off(
                 time_sync_tx_en(time_sync_en(reg))))))
    BY <2>1, MasksKeep
  <2>4. Sane(set_sync_on(initiate_sync(reg)))
    BY <1>1, PutsKeep
  <2>5. Sane(set_sync_off(reg)) /\ Sane(set_sync_on(set_sync_off(reg)))
    BY <1>1, PutsKeep
  <2> QED
    BY <1>2, <1>4, <2>1, <2>2, <2>3, <2>4, <2>5
       DEF SyncCommand, Sync, Syncoff, Syncrst, Latency, Setsyncon,
           Setsyncoff, Tgsync
<1>5. CASE TestCommand
  BY <1>1, <1>2, <1>5, MasksKeep, OthersKeep DEF TestCommand
<1>6. CASE PacketCommand \/ SequencerCommand \/ DelayCommand
  BY <1>1, <1>2, <1>6, MasksKeep
     DEF PacketCommand, SequencerCommand, DelayCommand
<1>7. ASSUME NEW full \in SUBSET Flags, ResetCommand(full)
      PROVE  SaneInv'
  <2>1. /\ Sane(And(reg, "eth15", {1})) /\ Sane(reset_adc_fifos(reg))
        /\ Sane(reset_pkt_seq(reg)) /\ Sane(reset_dac_fifos(reg, full))
    BY <1>1, AndKeeps, MasksKeep, OthersKeep DEF Words
  <2>2. Sane(reset_adc_fifos(reset_pkt_seq(And(reg, "eth15", {1}))))
    BY <2>1, MasksKeep
  <2>3. Sane(reset_dac_fifos(reset_adc_fifos(reset_pkt_seq(
                 And(reg, "eth15", {1}))), full))
    BY <2>2, OthersKeep
  <2>4. Sane(set_sync_rst(time_sync_off(time_sync_tx_off(reg))))
    BY <1>1, MasksKeep, PutsKeep
  <2>5. Sane(time_sync_tx_en(time_sync_en(set_sync_rst(
                 time_sync_off(time_sync_tx_off(reg))))))
    BY <2>4, MasksKeep, PutsKeep
  <2>6. Sane(reset_dac_fifos(time_sync_tx_en(time_sync_en(set_sync_rst(
                 time_sync_off(time_sync_tx_off(reg))))), full))
    BY <2>5, OthersKeep
  <2> QED
    BY <1>2, <1>7, <2>1, <2>3, <2>6
       DEF ResetCommand, Creset, Areset, Preset, Freset, Strsel, Reset
<1>8. ASSUME NEW full \in SUBSET Flags,
             CorrectionCommand(full) \/ PlcCommand(full)
      PROVE  SaneInv'
  BY <1>1, <1>2, <1>8, OthersKeep DEF CorrectionCommand, PlcCommand
<1>9. ASSUME NEW mac \in Macs, Strmac(mac)
      PROVE  SaneInv'
  <2>1. Sane(write_eth_mac(reg, mac))
    BY <1>1, PutsKeep, BridgeAssumption DEF BridgeAssumption
  <2> QED BY <1>9, <2>1 DEF Strmac, SaneInv
<1>10. ASSUME NEW speed \in 0..2, Strnsp(speed)
       PROVE  SaneInv'
  <2>1. \A bits : Sane(And(reg, "eth15", bits))
    BY <1>1, AndKeeps DEF Words
  <2> QED BY <1>2, <1>10, <2>1 DEF Strnsp
<1>11. CASE Restart
  <2>1. Sane(ui_init(reg))
    BY <1>1, UiInitKeeps
  <2>2. mac_set' \in Macs
    BY <1>11, BridgeAssumption DEF Restart, BridgeAssumption
  <2>3. stale' \in BOOLEAN
    BY <1>11 DEF Restart
  <2> QED BY <1>11, <2>1, <2>2, <2>3 DEF Restart, SaneInv
<1>12. CASE UNCHANGED vars
  BY <1>12 DEF vars, SaneInv
<1> QED
  BY <1>3, <1>4, <1>5, <1>6, <1>7, <1>8, <1>9, <1>10, <1>11, <1>12 DEF Next

LEMMA SaneIsTyped == SaneInv => TypeOK
<1> SUFFICES ASSUME SaneInv PROVE TypeOK
  OBVIOUS
<1>1. Registers = Words
  BY DEF Registers, Bits, Words
<1>2. reg \in Files /\ \A w \in Words : reg[w] \subseteq Allowed[w]
  BY DEF SaneInv, Sane
<1>3. ASSUME NEW w \in Words
      PROVE  Allowed[w] \subseteq Bits[w] /\ Allowed[w] \subseteq 0..11
  BY DEF Words, Allowed, Bits
<1>4. ASSUME NEW w \in DOMAIN ResetBits
      PROVE  w \in Words /\ Allowed[w] \cap ResetBits[w] = {}
  BY DEF ResetBits, Words, Allowed
<1>5. reg \in [Registers -> SUBSET (0..11)]
  BY <1>1, <1>2, <1>3 DEF Files
<1>6. \A w \in Registers : reg[w] \subseteq Bits[w]
  BY <1>1, <1>2, <1>3
<1>7. \A w \in DOMAIN ResetBits : reg[w] \cap ResetBits[w] = {}
  BY <1>2, <1>4
<1> QED BY <1>5, <1>6, <1>7 DEF SaneInv, TypeOK

(* The registers hold the bits their cores know, and no command, however    *)
(* its functions follow one another, leaves a part of a core in reset.     *)
THEOREM NothingInReset == Spec => []TypeOK
BY InitSane, StepSane, SaneIsTyped, PTL DEF Spec

----------------------------------------------------------------------------
(* The refinement: the switches that are on are a function of the registers,*)
(* OnOf.  The lemmas say what a mask, a write and then each function of    *)
(* stream_control.c makes of it, and the steps of the proof compose them   *)
(* as the commands do.                                                     *)

OnOf(r)     == {f \in DOMAIN Where : Where[f][2] \in r[Where[f][1]]}
At(w, bits) == {f \in DOMAIN Where : Where[f][1] = w /\ Where[f][2] \in bits}
Pattern(r)  == r.a2e0 \cap (9..11)

(* The switches that a part of a word holds.                               *)
LEMMA SwitchNames ==
    /\ DOMAIN Where = {"stream_out", "stream_in", "sync_packets", "sync",
                       "packet_count", "test", "payload", "concealment",
                       "correction", "time_sync", "measuring",
                       "sequencer_off", "wait_off", "delay_off"}
    /\ \A f \in DOMAIN Where : Where[f][1] \in Words /\ Where[f][2] \in Int
BY DEF Where, Words

LEMMA Switches ==
    /\ At("eth15", {0}) = {"sync_packets"}
    /\ At("eth15", {1}) = {"stream_out"}
    /\ At("eth15", {2}) = {"stream_in"}
    /\ At("a2e6", {0}) = {"sync"}
    /\ At("a2e0", {6}) = {"packet_count"}
    /\ At("a2e0", {7}) = {"test"}
    /\ At("a2e0", {8}) = {"payload"}
    /\ At("e2a0", {4}) = {"concealment"}
    /\ At("e2a0", {5}) = {"correction"}
    /\ At("ts0", {0}) = {"time_sync"}
    /\ At("ts0", {1}) = {"measuring"}
    /\ At("seq1", {1}) = {"sequencer_off"}
    /\ At("seq1", {2}) = {"wait_off"}
    /\ At("seq1", {3}) = {"delay_off"}
BY SwitchNames DEF At, Where

LEMMA OtherBits ==
    /\ At("eth15", {1, 2}) = {"stream_out", "stream_in"}
    /\ At("eth15", Int) = {"stream_out", "stream_in", "sync_packets"}
    /\ At("ts0", Int) = {"time_sync", "measuring"}
    /\ At("a2e6", Int) = {"sync"}
    /\ \A bits : At("eth0", bits) = {}
    /\ At("a2e0", {0, 1}) = {}
    /\ At("e2a0", {0, 1}) = {}
    /\ At("e2a0", Flags) = {"correction", "concealment"}
    /\ At("a2e0", 9..11) = {}
    /\ At("seq1", {0}) = {}
    /\ \A w : At(w, {}) = {}
BY SwitchNames DEF At, Where, Flags

LEMMA MaskView ==
    ASSUME NEW r \in Files, NEW w \in Words, NEW bits \in SUBSET Int
    PROVE  /\ Or(r, w, bits) \in Files
           /\ And(r, w, bits) \in Files
           /\ Put(r, w, bits) \in Files
           /\ OnOf(Or(r, w, bits)) = OnOf(r) \cup At(w, bits)
           /\ OnOf(And(r, w, bits)) = OnOf(r) \ At(w, bits)
           /\ OnOf(Put(r, w, bits)) = (OnOf(r) \ At(w, Int)) \cup At(w, bits)
BY SwitchNames DEF OnOf, At, Files, Or, And, Put

\* What took r to s turned the switches off and then the switches on.
Moves(r, s, off, on) ==
    /\ s \in Files
    /\ OnOf(s) = (OnOf(r) \ off) \cup on
    /\ Pattern(s) = Pattern(r)

LEMMA Composed ==
    ASSUME NEW r, NEW s, NEW t, NEW off, NEW on, NEW off2, NEW on2,
           Moves(r, s, off, on), Moves(s, t, off2, on2)
    PROVE  Moves(r, t, off \cup off2, (on \ off2) \cup on2)
BY DEF Moves

LEMMA MaskMoves ==
    ASSUME NEW r \in Files, NEW w \in Words, NEW bits \in SUBSET Int,
           w # "a2e0"
    PROVE  /\ Moves(r, Or(r, w, bits), {}, At(w, bits))
           /\ Moves(r, And(r, w, bits), At(w, bits), {})
           /\ Moves(r, Put(r, w, bits), At(w, Int), At(w, bits))
<1>1. /\ Pattern(Or(r, w, bits)) = Pattern(r)
      /\ Pattern(And(r, w, bits)) = Pattern(r)
      /\ Pattern(Put(r, w, bits)) = Pattern(r)
  BY DEF Pattern, Files, Words, Or, And, Put
<1> QED
  BY <1>1, MaskView DEF Moves

\* The word that holds the test pattern, but not its bits.
LEMMA AudioMoves ==
    ASSUME NEW r \in Files, NEW bits \in SUBSET (0..8)
    PROVE  /\ Moves(r, Or(r, "a2e0", bits), {}, At("a2e0", bits))
           /\ Moves(r, And(r, "a2e0", bits), At("a2e0", bits), {})
<1>1. /\ Pattern(Or(r, "a2e0", bits)) = Pattern(r)
      /\ Pattern(And(r, "a2e0", bits)) = Pattern(r)
  BY DEF Pattern, Files, Words, Or, And
<1>2. "a2e0" \in Words /\ bits \in SUBSET Int
  BY DEF Words
<1> QED
  BY <1>1, <1>2, MaskView DEF Moves

FifoFeatures == {"correction", "concealment"}
Timing       == {"time_sync", "measuring"}

\* The switches that the flags of a full FIFO turn on.
Raised(full) == At("e2a0", full)

LEMMA FlaggedMoves ==
    ASSUME NEW r \in Files, NEW full \in SUBSET Flags
    PROVE  /\ Moves(r, Flagged(r, full), FifoFeatures, Raised(full))
           /\ Raised(full) \in SUBSET FifoFeatures
<1> DEFINE s == And(r, "e2a0", Flags)
<1>1. Flags \in SUBSET Int /\ full \in SUBSET Int
  BY DEF Flags
<1>2. Moves(r, s, FifoFeatures, {})
  <2>1. Moves(r, s, At("e2a0", Flags), {})
    BY <1>1, MaskMoves DEF Words
  <2> QED
    BY <2>1, OtherBits DEF FifoFeatures
<1>3. s \in Files
  BY <1>2 DEF Moves
<1>4. Moves(s, Or(s, "e2a0", full), {}, Raised(full))
  BY <1>1, <1>3, MaskMoves DEF Words, Raised
<1>5. Flagged(r, full) = Or(s, "e2a0", full)
  BY DEF Flagged, Or, And, Files, Words
<1>6. Raised(full) \in SUBSET FifoFeatures
  BY OtherBits DEF At, Raised, FifoFeatures, Flags
<1> QED
  BY <1>2, <1>4, <1>5, <1>6, Composed DEF Moves

(* The functions of stream_control.c, each with the switches it moves.      *)
LEMMA FunctionMoves ==
    ASSUME NEW r \in Files
    PROVE  /\ Moves(r, reset_adc_fifos(r), {}, {})
           /\ Moves(r, reset_pkt_seq(r), {}, {})
           /\ Moves(r, set_sync_on(r), {"sync"}, {"sync"})
           /\ Moves(r, set_sync_off(r), {"sync"}, {})
           /\ Moves(r, time_sync_en(r), Timing, {"time_sync"})
           /\ Moves(r, time_sync_off(r), Timing, {})
           /\ Moves(r, set_sync_rst(r), Timing, {})
           /\ Moves(r, time_tms_en(r), {}, {"measuring"})
           /\ Moves(r, time_tms_off(r), {"measuring"}, {})
           /\ Moves(r, time_sync_tx_en(r), {}, {"sync_packets"})
           /\ Moves(r, time_sync_tx_off(r), {"sync_packets"}, {})
           /\ \A mac \in SUBSET Int : Moves(r, write_eth_mac(r, mac), {}, {})
<1>1. Moves(r, reset_adc_fifos(r), {}, {})
  <2>1. Moves(r, And(r, "a2e0", {0, 1}), At("a2e0", {0, 1}), {})
    BY AudioMoves
  <2> QED
    BY <2>1, OtherBits DEF reset_adc_fifos
<1>2. ASSUME NEW w \in Words \ {"a2e0"}, NEW bits \in SUBSET Int
      PROVE  /\ Moves(r, Or(r, w, bits), {}, At(w, bits))
             /\ Moves(r, And(r, w, bits), At(w, bits), {})
             /\ Moves(r, Put(r, w, bits), At(w, Int), At(w, bits))
  BY MaskMoves
<1>3. Moves(r, And(r, "seq1", {0}), At("seq1", {0}), {})
  BY <1>2 DEF Words
<1>4. Moves(r, Put(r, "a2e6", {0}), At("a2e6", Int), At("a2e6", {0}))
  BY <1>2 DEF Words
<1>5. /\ Moves(r, Put(r, "ts0", {0}), At("ts0", Int), At("ts0", {0}))
      /\ Moves(r, Put(r, "ts0", {}), At("ts0", Int), At("ts0", {}))
  BY <1>2 DEF Words
<1>6. /\ Moves(r, Or(r, "ts0", {1}), {}, At("ts0", {1}))
      /\ Moves(r, And(r, "ts0", {1}), At("ts0", {1}), {})
      /\ Moves(r, Or(r, "eth15", {0}), {}, At("eth15", {0}))
      /\ Moves(r, And(r, "eth15", {0}), At("eth15", {0}), {})
  BY <1>2 DEF Words
<1>7. \A mac \in SUBSET Int : Moves(r, write_eth_mac(r, mac), {}, {})
  <2> SUFFICES ASSUME NEW mac \in SUBSET Int
               PROVE  Moves(r, Put(r, "eth0", mac), {}, {})
    BY DEF write_eth_mac
  <2>1. Moves(r, Put(r, "eth0", mac), At("eth0", Int), At("eth0", mac))
    BY <1>2 DEF Words
  <2> QED
    BY <2>1, OtherBits
<1>8. Moves(r, set_sync_off(r), {"sync"}, {})
  <2> DEFINE s == Put(r, "a2e6", {})
  <2>1. Moves(r, s, At("a2e6", Int), At("a2e6", {}))
    BY <1>2 DEF Words
  <2>2. s \in Files
    BY <2>1 DEF Moves
  <2>3. Moves(s, And(s, "eth0", {0}), At("eth0", {0}), {})
    BY <2>2, MaskMoves DEF Words
  <2> QED
    BY <2>1, <2>3, OtherBits DEF Moves, set_sync_off
<1>9. Moves(r, reset_pkt_seq(r), {}, {})
  BY <1>3, OtherBits DEF reset_pkt_seq
<1>10. Moves(r, set_sync_on(r), {"sync"}, {"sync"})
  BY <1>4, Switches, OtherBits DEF set_sync_on
<1>11. /\ Moves(r, time_sync_en(r), Timing, {"time_sync"})
       /\ Moves(r, time_sync_off(r), Timing, {})
       /\ Moves(r, set_sync_rst(r), Timing, {})
  <2>1. At("ts0", {0}) = {"time_sync"}
    BY Switches
  <2>2. At("ts0", Int) = Timing /\ At("ts0", {}) = {}
    BY OtherBits DEF Timing
  <2> QED
    BY <1>5, <2>1, <2>2 DEF time_sync_en, time_sync_off, set_sync_rst
<1>12. /\ Moves(r, time_tms_en(r), {}, {"measuring"})
       /\ Moves(r, time_tms_off(r), {"measuring"}, {})
       /\ Moves(r, time_sync_tx_en(r), {}, {"sync_packets"})
       /\ Moves(r, time_sync_tx_off(r), {"sync_packets"}, {})
  BY <1>6, Switches
     DEF time_tms_en, time_tms_off, time_sync_tx_en, time_sync_tx_off
<1> QED
  BY <1>1, <1>7, <1>8, <1>9, <1>10, <1>11, <1>12

(* What a command's registers show to the user of the console.             *)
LEMMA Shown ==
    ASSUME reg \in Files, NEW s, NEW off, NEW on, Moves(reg, s, off, on),
           reg' = s
    PROVE  On' = (On \ off) \cup on /\ Mode' = Mode
<1> DEFINE ModeOf(p) == CHOOSE m \in 1..5 : TestModes[m] = p
<1>1. On = OnOf(reg) /\ On' = OnOf(reg')
  BY DEF On, OnOf
<1>2. Mode = ModeOf(Pattern(reg)) /\ Mode' = ModeOf(Pattern(reg'))
  BY DEF Mode, Pattern
<1>3. Pattern(reg') = Pattern(reg)
  BY DEF Moves
<1> HIDE DEF ModeOf
<1>4. Mode' = Mode
  BY <1>2, <1>3
<1> QED
  BY <1>1, <1>4 DEF Moves

LEMMA StreamMoves == ASSUME reg \in Files, StreamCommand PROVE Console!Next
<1>m. /\ Moves(reg, Or(reg, "eth15", {1}), {}, {"stream_out"})
      /\ Moves(reg, Or(reg, "eth15", {2}), {}, {"stream_in"})
      /\ Moves(reg, And(reg, "eth15", {2}), {"stream_in"}, {})
  <2>1. /\ Moves(reg, Or(reg, "eth15", {1}), {}, At("eth15", {1}))
        /\ Moves(reg, Or(reg, "eth15", {2}), {}, At("eth15", {2}))
        /\ Moves(reg, And(reg, "eth15", {2}), At("eth15", {2}), {})
    BY MaskMoves DEF Words
  <2> QED
    BY <2>1, Switches
<1>1. CASE Start
  <2> DEFINE s == Or(reg, "eth15", {1})
             t == reset_adc_fifos(s)
  <2>1. Moves(s, t, {}, {})
    BY <1>m, FunctionMoves DEF Moves
  <2>2. Moves(reg, t, {}, {"stream_out"})
    BY <1>m, <2>1 DEF Moves
  <2>3. On' = On \cup {"stream_out"} /\ Mode' = Mode
    BY <1>1, <2>2, Shown DEF Start, Run
  <2> QED
    BY <2>3 DEF Console!Next, Console!Stream, Console!To
<1>2. CASE Stop
  <2> DEFINE s == set_sync_off(reg)
             t == And(s, "eth15", {1})
  <2>1. Moves(reg, s, {"sync"}, {})
    BY FunctionMoves
  <2>2. Moves(s, t, At("eth15", {1}), {})
    BY <2>1, MaskMoves DEF Words, Moves
  <2>3. Moves(reg, t, {"stream_out", "sync"}, {})
    BY <2>1, <2>2, Switches DEF Moves
  <2>4. On' = On \ {"stream_out", "sync"} /\ Mode' = Mode
    BY <1>2, <2>3, Shown DEF Stop, Run
  <2> QED
    BY <2>4 DEF Console!Next, Console!Stream, Console!To
<1>3. CASE Strrxon
  <2>1. On' = On \cup {"stream_in"} /\ Mode' = Mode
    BY <1>3, <1>m, Shown DEF Strrxon, Run
  <2> QED
    BY <2>1 DEF Console!Next, Console!Flip, Console!Simple, Console!To
<1>4. CASE Strrxstop
  <2>1. On' = On \ {"stream_in"} /\ Mode' = Mode
    BY <1>4, <1>m, Shown DEF Strrxstop, Run
  <2> QED
    BY <2>1 DEF Console!Next, Console!Flip, Console!Simple, Console!To
<1> QED
  BY <1>1, <1>2, <1>3, <1>4 DEF StreamCommand

\* A sync by hand leaves the streams as the bits of the MAC address are.
LEMMA InitiateMoves ==
    ASSUME NEW r \in Files
    PROVE  \E more \in SUBSET {"stream_out", "stream_in"} :
              Moves(r, initiate_sync(r),
                    {"stream_out", "stream_in", "sync_packets"} \cup Timing,
                    more)
<1> DEFINE bits == r.eth0 \ {0}
           more == At("eth15", bits)
           s    == Put(r, "eth15", bits)
           t    == Put(s, "ts0", {})
<1>1. bits \in SUBSET Int
  BY DEF Files, Words
<1>2. Moves(r, s, At("eth15", Int), more)
  BY <1>1, MaskMoves DEF Words
<1>3. s \in Files
  BY <1>2 DEF Moves
<1>4. Moves(s, t, At("ts0", Int), At("ts0", {}))
  BY <1>3, MaskMoves DEF Words
<1>5. At("ts0", Int) = Timing /\ At("ts0", {}) = {}
  BY OtherBits DEF Timing
<1>6. At("eth15", Int) = {"stream_out", "stream_in", "sync_packets"}
  BY OtherBits
<1>7. more \in SUBSET {"stream_out", "stream_in"}
  <2>1. more \subseteq At("eth15", Int) /\ "sync_packets" \notin more
    BY <1>1, SwitchNames DEF At, Where
  <2> QED
    BY <2>1, <1>6
<1>8. more \cap Timing = {}
  BY <1>7 DEF Timing
<1> HIDE DEF more, bits
<1>9. Moves(r, t, {"stream_out", "stream_in", "sync_packets"} \cup Timing,
            more)
  BY <1>2, <1>4, <1>5, <1>6, <1>8 DEF Moves
<1> QED
  BY <1>7, <1>9 DEF initiate_sync, bits

LEMMA EnableMoves ==
    ASSUME NEW r \in Files
    PROVE  Moves(r, time_sync_tx_en(time_sync_en(r)),
                 Timing, {"time_sync", "sync_packets"})
<1> DEFINE s == time_sync_en(r)
<1>1. Moves(r, s, Timing, {"time_sync"})
  BY FunctionMoves
<1>2. Moves(s, time_sync_tx_en(s), {}, {"sync_packets"})
  BY <1>1, FunctionMoves DEF Moves
<1> QED
  BY <1>1, <1>2 DEF Moves

LEMMA SyncMoves == ASSUME reg \in Files, SyncCommand PROVE Console!Next
<1> USE DEF RunSync, Run
<1>1. CASE Sync
  <2>1. On' = (On \ Timing) \cup {"time_sync", "sync_packets"} /\ Mode' = Mode
    BY <1>1, EnableMoves, Shown DEF Sync
  <2> QED
    BY <2>1 DEF Console!Next, Console!EnableSync, Console!Timing, Console!To,
                Timing
<1>2. CASE Syncoff \/ Syncrst
  <2>1. On' = On \ Timing /\ Mode' = Mode
    BY <1>2, FunctionMoves, Shown DEF Syncoff, Syncrst
  <2> QED
    BY <2>1 DEF Console!Next, Console!EndSync, Console!Timing, Console!To,
                Timing
<1>3. CASE Latency
  <2> DEFINE s == time_sync_tx_en(time_sync_en(reg))
             t == time_tms_off(s)
             u == time_tms_en(t)
             v == time_sync_tx_en(u)
  <2>1. Moves(reg, s, Timing, {"time_sync", "sync_packets"})
    BY EnableMoves
  <2>2. Moves(s, t, {"measuring"}, {})
    BY <2>1, FunctionMoves DEF Moves
  <2>3. Moves(t, u, {}, {"measuring"})
    BY <2>2, FunctionMoves DEF Moves
  <2>4. Moves(u, v, {}, {"sync_packets"})
    BY <2>3, FunctionMoves DEF Moves
  <2>5. Moves(reg, v, Timing, {"time_sync", "sync_packets", "measuring"})
    BY <2>1, <2>2, <2>3, <2>4 DEF Moves, Timing
  <2>6. /\ On' = On \cup {"time_sync", "sync_packets", "measuring"}
        /\ Mode' = Mode
    BY <1>3, <2>5, Shown DEF Latency, Timing
  <2> QED
    BY <2>6 DEF Console!Next, Console!Measure, Console!To
<1>4. CASE Setsyncon
  <2> DEFINE s   == initiate_sync(reg)
             off == {"stream_out", "stream_in", "sync_packets"} \cup Timing
  <2>1. PICK more \in SUBSET {"stream_out", "stream_in"} :
            Moves(reg, s, off, more)
    BY InitiateMoves
  <2>2. Moves(s, set_sync_on(s), {"sync"}, {"sync"})
    BY <2>1, FunctionMoves DEF Moves
  <2>3. Moves(reg, set_sync_on(s), off, more \cup {"sync"})
    BY <2>1, <2>2 DEF Moves, Timing
  <2>4. On' = (On \ off) \cup (more \cup {"sync"}) /\ Mode' = Mode
    BY <1>4, <2>3, Shown DEF Setsyncon
  <2> QED
    BY <2>4 DEF Console!Next, Console!SyncByHand, Console!Any, Console!Streams,
                Console!Timing, Console!To, Timing
<1>5. CASE Setsyncoff
  <2>1. On' = On \ {"sync"} /\ Mode' = Mode
    BY <1>5, FunctionMoves, Shown DEF Setsyncoff
  <2> QED
    BY <2>1 DEF Console!Next, Console!SyncFlag, Console!Flip, Console!To
<1>6. CASE Tgsync
  <2> DEFINE s == set_sync_off(reg)
  <2>1. Moves(reg, s, {"sync"}, {})
    BY FunctionMoves
  <2>2. Moves(s, set_sync_on(s), {"sync"}, {"sync"})
    BY <2>1, FunctionMoves DEF Moves
  <2>3. Moves(reg, set_sync_on(s), {}, {"sync"})
    BY <2>1, <2>2 DEF Moves
  <2>4. On' = On \cup {"sync"} /\ Mode' = Mode
    BY <1>6, <2>3, Shown DEF Tgsync
  <2> QED
    BY <2>4 DEF Console!Next, Console!SyncFlag, Console!Flip, Console!To
<1> QED
  BY <1>1, <1>2, <1>3, <1>4, <1>5, <1>6 DEF SyncCommand

LEMMA PlaybackMoves ==
    ASSUME NEW r \in Files, NEW full \in SUBSET Flags
    PROVE  Moves(r, reset_dac_fifos(r, full), FifoFeatures, Raised(full))
<1> DEFINE s == Flagged(r, full)
<1>1. Moves(r, s, FifoFeatures, Raised(full))
  BY FlaggedMoves
<1>2. Moves(s, And(s, "e2a0", {0, 1}), At("e2a0", {0, 1}), {})
  BY <1>1, MaskMoves DEF Words, Moves
<1> QED
  BY <1>1, <1>2, OtherBits DEF Moves, reset_dac_fifos

LEMMA ResetMoves ==
    ASSUME reg \in Files, NEW full \in SUBSET Flags, ResetCommand(full)
    PROVE  Console!Next \/ UNCHANGED <<On, Mode>>
<1> USE DEF RunSync, Run
<1> DEFINE c == And(reg, "eth15", {1})
<1>c. Moves(reg, c, {"stream_out"}, {})
  <2>1. Moves(reg, c, At("eth15", {1}), {})
    BY MaskMoves DEF Words
  <2> QED
    BY <2>1, Switches
<1>f. Raised(full) \in SUBSET FifoFeatures
  BY FlaggedMoves
<1>1. CASE Creset
  <2>1. On' = On \ {"stream_out"} /\ Mode' = Mode
    BY <1>1, <1>c, Shown DEF Creset
  <2> QED
    BY <2>1 DEF Console!Next, Console!CoreReset, Console!To
<1>2. CASE Areset \/ Preset
  <2>1. On' = On /\ Mode' = Mode
    BY <1>2, FunctionMoves, Shown DEF Areset, Preset
  <2> QED
    BY <2>1
<1>3. CASE Freset(full)
  <2> DEFINE s == reset_pkt_seq(c)
             t == reset_adc_fifos(s)
             u == reset_dac_fifos(t, full)
  <2>1. Moves(c, s, {}, {})
    BY <1>c, FunctionMoves DEF Moves
  <2>2. Moves(s, t, {}, {})
    BY <2>1, FunctionMoves DEF Moves
  <2>3. Moves(t, u, FifoFeatures, Raised(full))
    BY <2>2, PlaybackMoves DEF Moves
  <2>4. Moves(reg, u, {"stream_out"} \cup FifoFeatures, Raised(full))
    BY <1>c, <2>1, <2>2, <2>3 DEF Moves
  <2>5. /\ On' = (On \ ({"stream_out"} \cup FifoFeatures)) \cup Raised(full)
        /\ Mode' = Mode
    BY <1>3, <2>4, Shown DEF Freset
  <2> QED
    BY <1>f, <2>5 DEF Console!Next, Console!StreamReset, Console!Any,
                      Console!FifoFeatures, Console!To, FifoFeatures
<1>4. CASE Strsel(full)
  <2>1. On' = (On \ FifoFeatures) \cup Raised(full) /\ Mode' = Mode
    BY <1>4, PlaybackMoves, Shown DEF Strsel
  <2> QED
    BY <1>f, <2>1 DEF Console!Next, Console!PlaybackReset, Console!Any,
                      Console!FifoFeatures, Console!To, FifoFeatures
<1>5. CASE Reset(full)
  <2> DEFINE p == time_sync_tx_off(reg)
             q == time_sync_off(p)
             s == set_sync_rst(q)
             t == time_sync_tx_en(time_sync_en(s))
             u == reset_dac_fifos(t, full)
  <2>1. Moves(reg, p, {"sync_packets"}, {})
    BY FunctionMoves
  <2>2. Moves(p, q, Timing, {})
    BY <2>1, FunctionMoves DEF Moves
  <2>3. Moves(q, s, Timing, {})
    BY <2>2, FunctionMoves DEF Moves
  <2>4. Moves(s, t, Timing, {"time_sync", "sync_packets"})
    BY <2>3, EnableMoves DEF Moves
  <2>5. Moves(t, u, FifoFeatures, Raised(full))
    BY <2>4, PlaybackMoves DEF Moves
  <2>6. Moves(reg, t, Timing, {"time_sync", "sync_packets"})
    BY <2>1, <2>2, <2>3, <2>4 DEF Moves
  <2>7. Moves(reg, u, Timing \cup FifoFeatures,
              {"time_sync", "sync_packets"} \cup Raised(full))
    BY <2>5, <2>6 DEF Moves, FifoFeatures
  <2>8. /\ On' = (On \ (Timing \cup FifoFeatures))
                   \cup ({"time_sync", "sync_packets"} \cup Raised(full))
        /\ Mode' = Mode
    BY <1>5, <2>7, Shown DEF Reset
  <2> QED
    BY <1>f, <2>8 DEF Console!Next, Console!SyncReset, Console!Any,
                      Console!FifoFeatures, Console!Timing, Console!To,
                      FifoFeatures, Timing
<1> QED
  BY <1>1, <1>2, <1>3, <1>4, <1>5 DEF ResetCommand

LEMMA FeatureMoves ==
    ASSUME reg \in Files, NEW full \in SUBSET Flags,
           CorrectionCommand(full) \/ PlcCommand(full)
    PROVE  Console!Next
<1> DEFINE s == Flagged(reg, full)
<1>1. /\ Moves(reg, s, FifoFeatures, Raised(full))
      /\ Raised(full) \in SUBSET FifoFeatures
  BY FlaggedMoves
<1>2. ASSUME NEW b \in {4, 5}, NEW f, At("e2a0", {b}) = {f}
      PROVE  /\ Moves(reg, Or(s, "e2a0", {b}), FifoFeatures,
                      Raised(full) \cup {f})
             /\ Moves(reg, And(s, "e2a0", {b}), FifoFeatures \cup {f},
                      Raised(full) \ {f})
  <2>0. s \in Files /\ {b} \in SUBSET Int /\ "e2a0" \in Words
    BY <1>1 DEF Words, Moves
  <2> HIDE DEF s
  <2>1. /\ Moves(s, Or(s, "e2a0", {b}), {}, At("e2a0", {b}))
        /\ Moves(s, And(s, "e2a0", {b}), At("e2a0", {b}), {})
    BY <2>0, MaskMoves
  <2> QED
    BY <1>1, <1>2, <2>1 DEF Moves
<1>3. ASSUME NEW b \in {4, 5}, NEW f \in FifoFeatures, At("e2a0", {b}) = {f},
             Run(Or(s, "e2a0", {b})) \/ Run(And(s, "e2a0", {b}))
      PROVE  Console!Next
  <2>0. /\ Moves(reg, Or(s, "e2a0", {b}), FifoFeatures, Raised(full) \cup {f})
        /\ Moves(reg, And(s, "e2a0", {b}), FifoFeatures \cup {f},
                 Raised(full) \ {f})
    BY <1>2, <1>3
  <2> HIDE DEF s
  <2>1. /\ \/ On' = (On \ FifoFeatures) \cup (Raised(full) \cup {f})
           \/ On' = (On \ (FifoFeatures \cup {f})) \cup (Raised(full) \ {f})
        /\ Mode' = Mode
    <3>1. CASE Run(Or(s, "e2a0", {b}))
      BY <2>0, <3>1, Shown DEF Run
    <3>2. CASE Run(And(s, "e2a0", {b}))
      BY <2>0, <3>2, Shown, SMTT(30) DEF Run
    <3> QED
      BY <1>3, <3>1, <3>2
  <2> DEFINE more == Raised(full) \ {f}
  <2>2. more \in SUBSET (FifoFeatures \ {f})
    BY <1>1
  <2>3. \/ On' = ((On \cup {f}) \ (FifoFeatures \ {f})) \cup more
        \/ On' = ((On \ {f}) \ (FifoFeatures \ {f})) \cup more
    BY <1>3, <2>1
  <2> QED
    BY <1>3, <2>1, <2>2, <2>3
       DEF Console!Next, Console!SetFeature, Console!Any,
           Console!FifoFeatures, Console!To, FifoFeatures
<1>4. /\ At("e2a0", {4}) = {"concealment"} /\ "concealment" \in FifoFeatures
      /\ At("e2a0", {5}) = {"correction"} /\ "correction" \in FifoFeatures
  BY Switches DEF FifoFeatures
<1> QED
  BY <1>3, <1>4 DEF CorrectionCommand, PlcCommand, set_buf_corr_on,
                    clear_buf_corr, set_plc_enable, set_plc_disable

LEMMA SwitchMoves ==
    ASSUME reg \in Files, PacketCommand \/ SequencerCommand \/ DelayCommand
    PROVE  Console!Next
<1>1. ASSUME NEW f \in Console!Simple, NEW s,
             Moves(reg, s, {}, {f}) \/ Moves(reg, s, {f}, {}), Run(s)
      PROVE  Console!Next
  <2>1. (On' = On \cup {f} \/ On' = On \ {f}) /\ Mode' = Mode
    <3>1. CASE Moves(reg, s, {}, {f})
      BY <1>1, <3>1, Shown DEF Run
    <3>2. CASE Moves(reg, s, {f}, {})
      BY <1>1, <3>2, Shown DEF Run
    <3> QED
      BY <1>1, <3>1, <3>2
  <2> QED
    BY <1>1, <2>1 DEF Console!Next, Console!Flip, Console!To
<1>2. CASE PacketCommand
  <2>1. ASSUME NEW b \in {6, 8}
        PROVE  /\ Moves(reg, Or(reg, "a2e0", {b}), {}, At("a2e0", {b}))
               /\ Moves(reg, And(reg, "a2e0", {b}), At("a2e0", {b}), {})
    BY AudioMoves
  <2>2. /\ At("a2e0", {6}) = {"packet_count"} /\ At("a2e0", {8}) = {"payload"}
        /\ {"packet_count", "payload"} \subseteq Console!Simple
    BY Switches DEF Console!Simple
  <2> QED
    BY <1>1, <1>2, <2>1, <2>2
       DEF PacketCommand, set_pcnt_mode_on, set_pcnt_mode_off,
           set_stream_send_on, set_stream_send_off
<1>3. CASE SequencerCommand \/ DelayCommand
  <2>1. ASSUME NEW b \in {1, 2, 3}
        PROVE  /\ Moves(reg, Or(reg, "seq1", {b}), {}, At("seq1", {b}))
               /\ Moves(reg, And(reg, "seq1", {b}), At("seq1", {b}), {})
    BY MaskMoves DEF Words
  <2>2. /\ At("seq1", {1}) = {"sequencer_off"} /\ At("seq1", {2}) = {"wait_off"}
        /\ At("seq1", {3}) = {"delay_off"}
        /\ {"sequencer_off", "wait_off", "delay_off"} \subseteq Console!Simple
    BY Switches DEF Console!Simple
  <2> QED
    BY <1>1, <1>3, <2>1, <2>2
       DEF SequencerCommand, DelayCommand, disble_pkt_seq, enable_pkt_seq,
           pkt_wait_disable, pkt_wait_enable, pkt_send_delay_disable,
           pkt_send_delay_enable
<1> QED
  BY <1>2, <1>3

\* The bits of the test pattern are no switches.
LEMMA PatternView ==
    ASSUME NEW r \in Files, NEW bits \in SUBSET Int, At("a2e0", bits) = {}
    PROVE  /\ Or(r, "a2e0", bits) \in Files
           /\ And(r, "a2e0", bits) \in Files
           /\ OnOf(Or(r, "a2e0", bits)) = OnOf(r)
           /\ OnOf(And(r, "a2e0", bits)) = OnOf(r)
<1> DEFINE w == "a2e0"
<1>1. w \in Words
  BY DEF Words
<1>2. At(w, bits) = {}
  OBVIOUS
<1> HIDE DEF w
<1>3. /\ Or(r, w, bits) \in Files
      /\ And(r, w, bits) \in Files
      /\ OnOf(Or(r, w, bits)) = OnOf(r)
      /\ OnOf(And(r, w, bits)) = OnOf(r)
  <2>1. /\ Or(r, w, bits) \in Files
        /\ And(r, w, bits) \in Files
        /\ OnOf(Or(r, w, bits)) = OnOf(r) \cup At(w, bits)
        /\ OnOf(And(r, w, bits)) = OnOf(r) \ At(w, bits)
    BY <1>1, MaskView
  <2> QED
    BY <1>2, <2>1
<1> QED
  BY <1>3 DEF w

LEMMA TestMoves == ASSUME reg \in Files, TestCommand PROVE Console!Next
<1>1. ASSUME NEW m \in 1..5, Run(set_test_mode(reg, TestModes[m]))
      PROVE  Console!Next
  <2> DEFINE p == TestModes[m]
             c == And(reg, "a2e0", 9..11)
             s == Or(c, "a2e0", p)
  <2>1. p \in SUBSET (9..11)
    BY DEF TestModes
  <2>2. /\ 9..11 \in SUBSET Int /\ p \in SUBSET Int /\ "a2e0" \in Words
        /\ At("a2e0", 9..11) = {} /\ At("a2e0", p) = {}
    BY <2>1, OtherBits DEF Words, At
  <2>4. s \in Files /\ OnOf(s) = OnOf(reg)
    <3>1. c \in Files /\ OnOf(c) = OnOf(reg)
      BY <2>2, PatternView
    <3> HIDE DEF c, p
    <3> QED
      BY <2>2, <3>1, PatternView
  <2>5. Pattern(s) = p
    <3>1. s.a2e0 = (reg.a2e0 \ (9..11)) \cup p
      BY DEF And, Or, Files, Words
    <3> HIDE DEF p, s
    <3> QED
      BY <2>1, <3>1 DEF Pattern
  <2>6. reg' = s
    BY <1>1 DEF Run, set_test_mode
  <2>7. On' = On
    BY <2>4, <2>6 DEF On, OnOf
  <2>8. Mode' \in 1..5
    BY <2>5, <2>6 DEF Mode, Pattern
  <2> QED
    BY <2>7, <2>8 DEF Console!Next, Console!SetMode
<1>2. CASE Run(set_test_mode_on(reg)) \/ Run(set_test_mode_off(reg))
  <2>1. /\ Moves(reg, Or(reg, "a2e0", {7}), {}, At("a2e0", {7}))
        /\ Moves(reg, And(reg, "a2e0", {7}), At("a2e0", {7}), {})
    BY AudioMoves
  <2>2. /\ Moves(reg, Or(reg, "a2e0", {7}), {}, {"test"})
        /\ Moves(reg, And(reg, "a2e0", {7}), {"test"}, {})
    BY <2>1, Switches
  <2>3. (On' = On \cup {"test"} \/ On' = On \ {"test"}) /\ Mode' = Mode
    BY <1>2, <2>2, Shown DEF Run, set_test_mode_on, set_test_mode_off
  <2> QED
    BY <2>3 DEF Console!Next, Console!Flip, Console!Simple, Console!To
<1> QED
  BY <1>1, <1>2 DEF TestCommand

LEMMA SpeedMoves ==
    ASSUME reg \in Files, NEW speed \in 0..2, Strnsp(speed)
    PROVE  Console!Next
<1>1. /\ Moves(reg, And(reg, "eth15", {1, 2}), {"stream_out", "stream_in"}, {})
      /\ Moves(reg, And(reg, "eth15", {1}), {"stream_out"}, {})
      /\ Moves(reg, And(reg, "eth15", {2}), {"stream_in"}, {})
  <2>1. ASSUME NEW bits \in {{1, 2}, {1}, {2}}
        PROVE  Moves(reg, And(reg, "eth15", bits), At("eth15", bits), {})
    BY MaskMoves DEF Words
  <2> QED
    BY <2>1, Switches, OtherBits
<1>2. \/ Run(And(reg, "eth15", {1, 2}))
      \/ Run(And(reg, "eth15", {1}))
      \/ Run(And(reg, "eth15", {2}))
  BY DEF Strnsp
<1>3. /\ Mode' = Mode
      /\ \/ On' = On \ {"stream_out", "stream_in"}
         \/ On' = On \ {"stream_out"}
         \/ On' = On \ {"stream_in"}
  BY <1>1, <1>2, Shown DEF Run
<1> QED
  BY <1>3 DEF Console!Next, Console!SetSpeed, Console!Streams, Console!To

LEMMA MacMoves ==
    ASSUME reg \in Files, NEW mac \in Macs, Strmac(mac)
    PROVE  UNCHANGED <<On, Mode>>
<1>1. mac \in SUBSET Int
  BY BridgeAssumption DEF BridgeAssumption
<1> QED
  BY <1>1, FunctionMoves, Shown DEF Strmac

LEMMA UiInitMoves ==
    ASSUME NEW r \in Files
    PROVE  Moves(r, ui_init(r), {"sync", "sync_packets"}, {})
<1> DEFINE s == write_eth_mac(r, BoxMac)
           t == set_sync_off(s)
           u == And(t, "eth15", {0})
<1>1. BoxMac \in SUBSET Int
  BY BridgeAssumption DEF BridgeAssumption
<1>2. Moves(r, s, {}, {})
  BY <1>1, FunctionMoves
<1>3. Moves(s, t, {"sync"}, {})
  BY <1>2, FunctionMoves DEF Moves
<1>4. Moves(t, u, At("eth15", {0}), {})
  BY <1>3, MaskMoves DEF Words, Moves
<1> QED
  BY <1>2, <1>3, <1>4, Switches DEF Moves, ui_init

LEMMA RestartMoves == ASSUME reg \in Files, Restart PROVE Console!Next
<1>1. On' = On \ {"sync", "sync_packets"} /\ Mode' = Mode
  BY UiInitMoves, Shown DEF Restart
<1> QED
  BY <1>1 DEF Console!Next, Console!Restart, Console!To

LEMMA StartsDark == ASSUME Init PROVE Console!Init
<1> DEFINE r == [w \in Registers |-> {}]
<1>1. /\ r \in Files /\ OnOf(r) = {} /\ Pattern(r) = {}
  BY SwitchNames DEF Files, Words, Registers, Bits, OnOf, Pattern
<1>2. OnOf(reg) = {} /\ Pattern(reg) = {}
  BY <1>1, UiInitMoves DEF Init, Moves
<1>3. \A m \in 1..5 : TestModes[m] = {} <=> m = 1
  BY DEF TestModes
<1>4. Mode = 1
  BY <1>2, <1>3 DEF Mode, Pattern
<1> QED
  BY <1>2, <1>4 DEF Console!Init, On, OnOf

LEMMA StepMoves ==
    BridgeInv /\ [Next]_vars => [Console!Next]_(Console!vars)
<1> SUFFICES ASSUME BridgeInv, [Next]_vars
             PROVE  Console!Next \/ UNCHANGED <<On, Mode>>
  BY DEF Console!vars
<1>1. reg \in Files
  BY DEF BridgeInv
<1>2. CASE UNCHANGED vars
  BY <1>2 DEF vars, On, Mode
<1> QED
  BY <1>1, <1>2, StreamMoves, SyncMoves, TestMoves, SwitchMoves, ResetMoves,
     FeatureMoves, MacMoves, SpeedMoves, RestartMoves DEF Next

(* The bridge implements its console, for any MAC addresses, any number of  *)
(* switches on at once and any number of runs of the program: no command of *)
(* ui_control.c moves a switch that is not its own.                        *)
THEOREM Implements == Spec => MovesItsSwitches
BY InitInv, StepInv, StartsDark, StepMoves, PTL
   DEF Spec, MovesItsSwitches, Console!Spec
=============================================================================
