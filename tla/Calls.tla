-------------------------------- MODULE Calls --------------------------------
(***************************************************************************)
(* How TPX talks with the bridge service over the virtual serial port:     *)
(* ipc.clj with ipc/command.clj, ipc/handler.clj and ipc/serial.clj, and   *)
(* versions.clj.                                                           *)
(*                                                                         *)
(* A command of the platform becomes several lines on the port, written    *)
(* one at a time by the thread of the messages; the thread that reads the  *)
(* service's reports may write a hangup in between.                        *)
(* TPX or the service may end at any moment and be started again by        *)
(* systemd, TPX whenever the service is; the database outlives both.       *)
(*                                                                         *)
(* The service itself (`connect`, which makes the calls) is not in the     *)
(* repository: what is here is what TPX's lines ask of it.                 *)
(***************************************************************************)
EXTENDS Integers, Sequences

CONSTANTS
    Peers,    \* the other Teleporters
    Settings, \* the volumes and delays that are set
    Values,   \* their values
    Versions, \* the versions of the service and of its FPGA
    Defaults, \* :hardware/default-values of the configuration
    MaxLines  \* bound: what the port holds, in lines each way

Unset == -1
Own   == 0   \* the addresses of this Teleporter

Keys == {"global", "network", "local", "input1", "input2", "delay"}

\* The settings that a start restores.  (The code's order is that of a hash
\* map; no two of them share a line.)
Restored == <<"global", "network", "local", "delay">>

ASSUME CallsAssumption ==
    /\ Values \subseteq Nat /\ Peers \subseteq Nat /\ Versions \subseteq Nat
    /\ Settings \subseteq Keys \cup {"inputs"}
    /\ Defaults \in [{"global", "network", "local", "delay"}
                        -> Nat \cup {Unset}]
    /\ MaxLines \in Nat

VARIABLES
    up,       \* TPX runs
    todo,     \* what the thread of the messages, or the start, has yet to do
    allow,    \* allow-start-coredump
    reported, \* reported-versions
    db,       \* the database
    file,     \* the file of the versions
    wire,     \* the lines on their way to the service
    back,     \* its reports on their way to TPX
    reg,      \* external: what the service was told, by command
    call,     \* external: the peer of its call, as it was told
    monitor,  \* external: it reports the state of the stream
    versions  \* external: its versions

process == <<up, todo, allow, reported>>
disk    == <<db, file>>
port    == <<wire, back>>
service == <<reg, call, monitor, versions>>
vars == <<process, disk, port, service>>

\* The lines of a setting, and the keys it is kept under.
Lines == [global |-> <<"vol">>, network |-> <<"vnl", "vnr">>,
          local  |-> <<"vll", "vlr">>, input1 |-> <<"vlr">>,
          input2 |-> <<"vll">>, inputs |-> <<"vlr", "vll">>,
          delay  |-> <<"delay">>]
KeysOf(k) == IF k = "inputs" THEN <<"input1", "input2">> ELSE <<k>>

\* What a line that carries a value sets, and the part of it about a peer.
PeerLines == {"setport", "setrpip", "setrlip"}
ValueLines == PeerLines \cup {"setlip", "setpip", "vol", "vnl", "vnr", "vll",
                              "vlr", "delay"}

NoPeer   == [l \in PeerLines |-> Unset]
NoReport == [bp |-> Unset, fpga |-> Unset]

----------------------------------------------------------------------------
(* The things that a thread has to do, in their order.                     *)

Send(line, v)  == [do |-> "send", what |-> line, value |-> v]
Save(key, v)   == [do |-> "save", what |-> key, value |-> v]
Allow(b)       == [do |-> "allow", what |-> b, value |-> Unset]
StartCoredump  == [do |-> "start", what |-> "coredump", value |-> Unset]
Restore(i)     == [do |-> "restore", what |-> i, value |-> Unset]

SendAll(k, v) == [i \in DOMAIN Lines[k] |-> Send(Lines[k][i], v)]
SaveAll(k, v) == [i \in DOMAIN KeysOf(k) |-> Save(KeysOf(k)[i], v)]

\* receive-call and initiate-call; the mutant dials before it has the whole
\* address.
CallLinesEarly(p, line) ==
    <<Send("setport", p), Send("setrpip", p), Send(line, Unset),
      Send("setrlip", p), StartCoredump>>
CallLines(p, line) ==
    <<Send("setport", p), Send("setrpip", p), Send("setrlip", p),
      Send(line, Unset), StartCoredump>>

stop_coredump == <<Allow(TRUE), Send("halt", Unset)>>

\* What a setting is at a start: its value in the database, a delay of less
\* than ten counting as ten, or else its default, if the configuration has one.
hardware_value(k) ==
    CASE db[k] = Unset                 -> Defaults[k]
      [] k = "delay" /\ db[k] \in 0..9 -> 10
      [] OTHER                         -> db[k]

----------------------------------------------------------------------------
Init ==
    /\ up = FALSE /\ todo = <<>> /\ allow = TRUE
    /\ reported = NoReport
    /\ db = [k \in Keys |-> Unset]
    /\ file = NoReport
    /\ wire = <<>> /\ back = <<>>
    /\ reg = [l \in ValueLines |-> Unset]
    /\ call = NoPeer /\ monitor = FALSE
    /\ versions \in [{"bp", "fpga"} -> Versions]

\* IpcService's start, in the main thread; there are no messages before it is
\* through.
Start ==
    /\ ~up
    /\ up' = TRUE
    /\ todo' = <<Send("setlip", Own), Send("setpip", Own), Send("bver", Unset),
                 Send("cver", Unset), Restore(1)>>
    /\ UNCHANGED <<allow, reported, disk, port, service>>

\* The thread of the messages takes one when it is through with the last.
\* network-mute, and sip/hangup-all, which command* does not know, do nothing.
Message(things) ==
    /\ up /\ todo = <<>>
    /\ todo' = things
    /\ UNCHANGED <<up, allow, reported, disk, port, service>>

SetValue(k, v)  == Message(SaveAll(k, v) \o SendAll(k, v))
ReceiveCall(p)  == Message(CallLines(p, "rcall"))
InitiateCall(p) == Message(CallLines(p, "icall"))
StopCall        == Message(stop_coredump \o <<Send("hangup", Unset)>>)
HangupAll       == Message(<<Send("hangup", Unset)>>)
PathReset       == Message(<<Send("pr", Unset)>>)
StopCoredump    == Message(stop_coredump)

First(do) == up /\ todo # <<>> /\ Head(todo).do = do

send_command ==
    /\ First("send") /\ Len(wire) < MaxLines
    /\ wire' = Append(wire, [line |-> Head(todo).what, value |-> Head(todo).value])
    /\ todo' = Tail(todo)
    /\ UNCHANGED <<up, allow, reported, disk, back, service>>

assoc_at ==
    /\ First("save")
    /\ db' = [db EXCEPT ![Head(todo).what] = Head(todo).value]
    /\ todo' = Tail(todo)
    /\ UNCHANGED <<up, allow, reported, file, port, service>>

reset_allow ==
    /\ First("allow")
    /\ allow' = Head(todo).what
    /\ todo' = Tail(todo)
    /\ UNCHANGED <<up, reported, disk, port, service>>

\* Mutant: the flag is reset and the line forgotten.
start_coredump_silent ==
    /\ First("start")
    /\ todo' = IF allow THEN <<Allow(FALSE)>> \o Tail(todo) ELSE Tail(todo)
    /\ UNCHANGED <<up, allow, reported, disk, port, service>>

\* The flag is read first and reset in a step of its own.
start_coredump ==
    /\ First("start")
    /\ todo' = IF allow
               THEN <<Allow(FALSE), Send("monitor", Unset)>> \o Tail(todo)
               ELSE Tail(todo)
    /\ UNCHANGED <<up, allow, reported, disk, port, service>>

\* Mutant: only the first of the settings is restored.
init_hw_values_first ==
    /\ First("restore")
    /\ LET k == Restored[Head(todo).what]
       IN  todo' = IF hardware_value(k) = Unset THEN <<>>
                   ELSE SendAll(k, hardware_value(k))
    /\ UNCHANGED <<up, allow, reported, disk, port, service>>

\* The local volume, saved or default, goes to both inputs, and their own saved
\* volumes to none; what is neither saved nor has a default is passed over.
init_hw_values ==
    /\ First("restore")
    /\ LET i == Head(todo).what
           k == Restored[i]
           rest == IF i < Len(Restored) THEN <<Restore(i + 1)>> ELSE <<>>
       IN  todo' = IF hardware_value(k) = Unset THEN rest
                   ELSE SendAll(k, hardware_value(k)) \o rest
    /\ UNCHANGED <<up, allow, reported, disk, port, service>>

----------------------------------------------------------------------------
(* The thread that reads the service's reports, one after the other.       *)

Reads(report) ==
    /\ up /\ back # <<>> /\ Head(back).report = report
    /\ back' = Tail(back)

\* sync/end, and likewise the jam's sync/timeout: a hangup, which leaves the
\* monitor on and its flag as it is.
hangup_all ==
    /\ Reads("sync/end") /\ Len(wire) < MaxLines
    /\ wire' = Append(wire, [line |-> "hangup", value |-> Unset])
    /\ UNCHANGED <<process, disk, service>>

\* handle-versions! looks the versions of the start up under keys they are not
\* kept under, so that every pair of answers differs from them.
Differs(pair) == NoReport.bp # pair.bp \/ NoReport.fpga # pair.fpga
Complete(pair) == pair.bp # Unset /\ pair.fpga # Unset

\* Mutant: the pair is looked at before the answer is in it.
VersionOfPair(v) ==
    /\ Reads(v)
    /\ reported' = [reported EXCEPT ![v] = Head(back).value]
    /\ file' = IF Complete(reported) /\ Differs(reported) THEN reported ELSE file
    /\ UNCHANGED <<up, todo, allow, db, wire, service>>

Version(v) ==
    /\ Reads(v)
    /\ reported' = [reported EXCEPT ![v] = Head(back).value]
    /\ file' = IF Complete(reported') /\ Differs(reported') THEN reported' ELSE file
    /\ UNCHANGED <<up, todo, allow, db, wire, service>>

----------------------------------------------------------------------------
(* External: the service, systemd, and what ends them.                     *)

\* The service takes a line, when there is room for its answer.
Obey ==
    /\ wire # <<>> /\ Len(back) < MaxLines
    /\ wire' = Tail(wire)
    /\ LET l == Head(wire).line
           v == Head(wire).value
       IN  /\ reg' = IF l \in ValueLines THEN [reg EXCEPT ![l] = v] ELSE reg
           /\ call' = CASE l \in {"rcall", "icall"} -> [p \in PeerLines |-> reg[p]]
                        [] l = "hangup" -> NoPeer
                        [] OTHER -> call
           /\ monitor' = (l = "monitor" \/ (monitor /\ l # "halt"))
           /\ back' = CASE l = "bver" ->
                               Append(back, [report |-> "bp", value |-> versions.bp])
                        [] l = "cver" ->
                               Append(back, [report |-> "fpga", value |-> versions.fpga])
                        [] OTHER -> back
    /\ UNCHANGED <<process, disk, versions>>

\* The synchronization of its call fails.
SyncFails ==
    /\ call # NoPeer /\ Len(back) < MaxLines
    /\ back' = Append(back, [report |-> "sync/end", value |-> Unset])
    /\ UNCHANGED <<process, disk, wire, service>>

\* Mutant: the flag of the monitor outlives TPX.
EndTpxWithFlag ==
    /\ up' = FALSE /\ todo' = <<>>
    /\ reported' = NoReport
    /\ UNCHANGED <<allow, disk>>

EndTpx ==
    /\ up' = FALSE /\ todo' = <<>> /\ allow' = TRUE
    /\ reported' = NoReport
    /\ UNCHANGED disk

\* A report it was handling is lost, and those that wait are not.
Crash ==
    /\ up /\ EndTpx
    /\ back' \in {back} \cup {Tail(b) : b \in {back} \ {<<>>}}
    /\ UNCHANGED <<wire, service>>

\* The service ends and comes back, perhaps of other versions, and systemd
\* restarts TPX, which requires it.  The ports are socat's, a unit of its own:
\* what is in them when the service ends may be lost or wait for the next.
RestartService(v) ==
    /\ EndTpx
    /\ wire' \in {wire, <<>>} /\ back' \in {back, <<>>}
    /\ reg' = [l \in ValueLines |-> Unset]
    /\ call' = NoPeer /\ monitor' = FALSE
    /\ versions' = v

Messages ==
    \/ \E k \in Settings, v \in Values : SetValue(k, v)
    \/ \E p \in Peers : ReceiveCall(p) \/ InitiateCall(p)
    \/ StopCall \/ HangupAll \/ PathReset \/ StopCoredump

Next ==
    \/ Start
    \/ Messages
    \/ send_command \/ assoc_at \/ reset_allow \/ start_coredump \/ init_hw_values
    \/ hangup_all
    \/ \E v \in {"bp", "fpga"} : Version(v)
    \/ Obey \/ SyncFails
    \/ Crash
    \/ \E v \in [{"bp", "fpga"} -> Versions] : RestartService(v)

Spec == Init /\ [][Next]_vars

----------------------------------------------------------------------------
Numbers == Peers \cup Values \cup {Unset, Own, 10}
               \cup {Defaults[k] : k \in DOMAIN Defaults}
Things ==
    [do : {"send"}, what : ValueLines \cup {"bver", "cver", "rcall", "icall",
        "hangup", "pr", "monitor", "halt"}, value : Numbers]
    \cup [do : {"save"}, what : Keys, value : Values]
    \cup [do : {"allow"}, what : BOOLEAN, value : {Unset}]
    \cup {StartCoredump}
    \cup {Restore(i) : i \in DOMAIN Restored}

\* Type invariant.
TypeOK ==
    /\ up \in BOOLEAN /\ allow \in BOOLEAN
    /\ todo \in Seq(Things)
    /\ reported \in [{"bp", "fpga"} -> Versions \cup {Unset}]
    /\ db \in [Keys -> Values \cup {Unset}]
    /\ file \in [{"bp", "fpga"} -> Versions \cup {Unset}]
    /\ reg \in [ValueLines -> Numbers]
    /\ call \in [PeerLines -> Numbers]
    /\ monitor \in BOOLEAN
    /\ versions \in [{"bp", "fpga"} -> Versions]
    /\ ~up => todo = <<>> /\ allow

(* The service never calls a peer by the port of one and the address of    *)
(* another, whatever hangups come in between and wherever TPX is cut while *)
(* it dials (command.clj:73).  (A service that starts over amid the lines  *)
(* of a call may know a part of it only.)                                  *)
CallsOnePeer ==
    \A a, b \in PeerLines :
       call[a] # Unset /\ call[b] # Unset => call[a] = call[b]

Quiet == up /\ todo = <<>> /\ wire = <<>>

(* When all is said, TPX holds the monitor back only if it runs already:   *)
(* a failed sync's hangup, which does not free the flag, leaves no later   *)
(* call without it (command.clj:63, ipc.clj:66).                           *)
HeldBackIfOn == Quiet /\ ~allow => monitor

(* When all is said, the service has what the database has, or for want of *)
(* that the default: a crash between the two is mended by the next start.  *)
(* Not so the faders of the inputs, which stand at their own volume or at  *)
(* the local one: a start puts the local volume, be it only the default,   *)
(* over the saved volumes of the inputs (ipc.clj:72, database.clj:93).     *)
ServiceHasSettings ==
    LET HasOneOf(line, S) == reg[line] \in S \ {Unset}
        local == hardware_value("local")
    IN  Quiet =>
        /\ \A k \in {"global", "network", "delay"} :
              hardware_value(k) # Unset => \A i \in DOMAIN Lines[k] :
                 HasOneOf(Lines[k][i], {db[k], hardware_value(k)})
        /\ local # Unset => /\ HasOneOf("vlr", {local, db["input1"]})
                            /\ HasOneOf("vll", {local, db["input2"]})

(* When all is said and all answers are handled, the file has the versions *)
(* that the service has now, and so has what the platform is told          *)
(* (handler.clj:93).                                                       *)
VersionsSaved == Quiet /\ back = <<>> => file = versions
=============================================================================
