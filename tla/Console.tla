------------------------------ MODULE Console ------------------------------
(***************************************************************************)
(* What the stream and sync commands of the bridge's console promise, said *)
(* without registers: the bridge has switches and a test mode, and every   *)
(* command moves its own switches and leaves the others as they are.       *)
(* The module Bridge implements this one.                                  *)
(***************************************************************************)
EXTENDS Integers

VARIABLES
    on,   \* the switches that are on
    mode  \* the pattern of the test mode

vars == <<on, mode>>

\* Switches with commands of their own.
Simple == {"stream_in", "packet_count", "test", "payload",
           "sequencer_off", "wait_off", "delay_off"}

Init == on = {} /\ mode = 1

\* Switches to on, or moves only the switches in free.
To(s)       == on' = s /\ UNCHANGED mode
Any(s, free) == \E more \in SUBSET free : To((s \ free) \cup more)

Flip(s) == To(on \cup {s}) \/ To(on \ {s})

Stream == To(on \cup {"stream_out"}) \/ To(on \ {"stream_out", "sync"})

\* A reset of the network core ends the stream.
CoreReset == To(on \ {"stream_out"})

\* A reset of the playback FIFOs leaves the correction and the concealment
\* in any state, and so does a command for one of them with the other.
FifoFeatures == {"correction", "concealment"}
PlaybackReset == Any(on, FifoFeatures)
StreamReset   == Any(on \ {"stream_out"}, FifoFeatures)
SetFeature    == \E f \in FifoFeatures :
                    \/ Any(on \cup {f}, FifoFeatures \ {f})
                    \/ Any(on \ {f}, FifoFeatures \ {f})

Timing     == {"time_sync", "measuring"}
EnableSync == To((on \ Timing) \cup {"time_sync", "sync_packets"})
Measure    == To(on \cup {"time_sync", "sync_packets", "measuring"})
EndSync    == To(on \ Timing)
SyncReset  == Any((on \ Timing) \cup {"time_sync", "sync_packets"},
                  FifoFeatures)

\* A sync by hand leaves the streams in any state and sync packets off.
Streams    == {"stream_out", "stream_in"}
SyncByHand == Any((on \ (Timing \cup {"sync_packets"})) \cup {"sync"}, Streams)
SyncFlag   == Flip("sync")

SetSpeed == \/ To(on \ Streams)
            \/ To(on \ {"stream_in"})
            \/ To(on \ {"stream_out"})

SetMode == mode' \in 1..5 /\ UNCHANGED on

\* A new run of the program finds the switches as they are.
Restart == To(on \ {"sync", "sync_packets"})

Next == \/ \E s \in Simple : Flip(s)
        \/ Stream
        \/ CoreReset \/ StreamReset \/ PlaybackReset
        \/ SetFeature
        \/ EnableSync \/ Measure \/ EndSync \/ SyncReset
        \/ SyncByHand \/ SyncFlag
        \/ SetSpeed
        \/ SetMode
        \/ Restart

Spec == Init /\ [][Next]_vars
=============================================================================
