# TLA+ models of the Songpark Teleporter

A Teleporter is a box that sends and receives live audio over the network.
Two programs run on it:

- **TPX** (`src/tpx-clj`, Clojure) talks to the platform over HTTP and MQTT,
  to the user through a button and an LED, and to the bridge through a
  serial line.  It decides who may command the box.
- **the bridge** (`src/bp7`, C) is a console program that moves the registers
  of the FPGA cores that carry the audio.  TPX types commands to it and reads
  its answers.  `src/cs7` is an older copy of it.

The shell scripts under `src/` (`upgrader.sh` and the deployment files) upgrade
and restart TPX.  The FPGA design, the platform, and the libraries
`songpark.mqtt`, `songpark.common` and `songpark.jam` are not in the
repository; what the code relies on them for is modelled where it matters and
marked *external*.

Run a check from this directory with
`tlc -config <run>.cfg <module>`, and a module of proofs with `tlapm <module>.tla`.

## 1. Inventory

### TPX

| Component | State | Operations | Talks to | What is hard, and what makes it correct |
|---|---|---|---|---|
| Pairing: `pairing.clj`, `data.clj`, `mqtt/handler/pairing.clj`, `gpio/actions.clj` | atoms `pair-status`, `user-id*`, `shadow-user-id*`; nothing is persisted | `:pairing/pair`, `:pairing/unpair` messages; the press of the link button; callbacks of POST and DELETE `/api/teleporter/pair`; restart | MQTT client, HTTP client, GPIO thread, platform | Three kinds of threads write the atoms without a lock. Nobody may command the box (`data/allowed?`) without a press of its button; platform and box must agree on the owner. |
| Link button: `gpio.clj` `handle-buttons`, `gpio/actions.clj` | `bounce` (times of the last falling and rising edge), `running?` | falling edge, rising edge, `close!` | GPIO kernel interface, Pairing, Network | Bounces at the boundary; an exception ends the loop. One press is one call, with the time it was held. |
| Link LED: `pairing.clj` `set-status`, `gpio.clj` `set-led`, `start-blink`, `stop-blink` | atoms `leds`, `blinks`, the GPIO line, one future per blinking LED | set a status, blink, cancel | Pairing's threads | Callers overlap; `future-cancel` meets a future that is awake. The LED tells the status. |
| Platform sync: `sync.clj` and the settings handlers of `mqtt/handler/teleporter.clj` | atom `saved-future`, the settings in the database | a settings command; a future wakes, POSTs, publishes; a callback | MQTT client, HTTP client, database | The debounce. The platform ends with the last settings. |
| Upgrade and heartbeat: `heartbeat.clj`, `:teleporter.cmd/upgrade`, `utils.clj`, `upgrader.sh`, `sp-tpx.service` | the flag file, the installed package, `checked-upgrade`, `apt-version*` | the command, the steps of the script, reboot, crash, the first ticks of the heartbeat | systemd, apt, MQTT | A script that stops the program that started it, and power cuts. Every upgrade is announced, none too early, and TPX comes back. |
| MQTT dispatch: `mqtt/handler/*.clj` | none of its own | `handle-message` by message type; one message after the other on the client's thread | all others | A handler that does not return holds up all messages. |
| IPC with the bridge: `ipc.clj`, `ipc/command.clj`, `ipc/handler.clj`, `ipc/serial.clj` | the serial port, `allow-start-coredump`, the saved settings | commands to lines; the reader thread turns reports into events; connect, disconnect | the bridge service, `songpark.jam`, MQTT | A call is several lines, and another thread may write between them. TPX may end between two lines, or between a setting's save and its line. A failed sync hangs up without resetting `allow-start-coredump`. A call has one peer; the service ends with the saved settings. |
| Versions: `versions.clj`, `ipc/handler.clj` | the file they are saved to, `reported-versions`, which two answers of the service fill | the two answers, save, broadcast | IPC, platform | The comparison uses keys the loaded map does not have. The file ends with the versions of the service that runs. |
| Network: `network.clj`, `network/reporter.clj`, `network/configurator.clj`, `:teleporter.cmd/set-ipv4` | `current-network-config`, `has-reported?`, the interface file | fetch, report, set an address, reset to DHCP | MQTT, shell | A configuration fetched during a report may be marked as reported; the retries after a new address do not pause. |
| Startup: `init.clj`, `core.clj`, `system.clj` | the system map | `start`, the platform's answer to `init`, `stop` | all others | Without an answer nothing is subscribed. |
| Scheduler: `scheduler.clj` | | | | Commented out of the system map: never runs. |
| Database: `database.clj` | an embedded key-value store (codax) | get, assoc | sync, settings | Survives restarts. |
| Effects, analog controls, bit banging: `fx.clj`, `analog.clj`, `gpio/bitbang.clj` | none | conversions of a setting to a console line or to bits | IPC, GPIO | Sequential, no other actor. |
| Configuration, logging, deployment scripts | | | | I/O. |

### The bridge

| Component | State | Operations | What is hard, and what makes it correct |
|---|---|---|---|
| Streams and sync: `ui_control.c`, `stream_control.c`, `reg_io.h` | the control registers of the FPGA cores, which outlive the program | start, stop, resets, sync, test modes, sequencer | One word holds the switches of several commands: a command has to move its own and no other. |
| Parameters: same files | addresses, ports, delays, packet lengths in registers; the console's local variables `tmp`, `dest_port`, `sw_port` | set and show commands, help | Several commands share a register, and all share the variables, which a missing number leaves as they were. A command writes up to five registers, and the program may be killed between two. Each command moves its own parameters. |
| Volumes and filters: `ui_control.c`, `volume_control.c`, `filter_control.c` | volumes in memory, their products in registers that survive, the filters, the LED bar | volume and filter commands, exit, init | A start knows nothing of the run before. Products wrap. What is heard is what was set. |
| Start and discovery: `ui_control.c` `main`, `ui_init`, `reg_io.c`, `adau1761_controller.c`, `network.c` | the mapped cores, the codec and its PLL, the address registers, the destination's entry of address and MAC | map, reset, discover gateway, MAC, mask and address, write registers, ask for the destination's MAC, open the console | It may be cut at any step, and the registers survive. The wait for the reply has no time-out and takes anybody's. When the console opens nothing of an earlier run is left. |
| Display (OLED) | none | repeats what a command was given | I/O. |

Everything in this code that is hard to test is listed, line by line, under
`hazards` in `PROJECT.json`, with the properties that watch it or the reason
why none does yet.

## 2. The modules

| Module | Models | Abstract specification | Proofs |
|---|---|---|---|
| `Pairing` | pairing and the platform | | `Pairing_proofs` |
| `LinkButton` | the button's loop over edges | `Holds`, a reference reading of the contact | `Gpio_proofs` |
| `LinkLed` (+ `MCLinkLed`) | the LED and its futures | | `Gpio_proofs` |
| `PlatformSync` | the debounce | | `Platform_proofs` |
| `Upgrade` | upgrade, flag, heartbeat | | `Platform_proofs` |
| `Calls` (+ `MCCalls`) | the IPC: calls, settings, monitor, versions | | `Calls_proofs` |
| `Bridge` (+ `MCBridge`) | stream, sync and reset commands over registers | `Console` | `Bridge_proofs` |
| `Parameters` (+ `MCParameters`) | the commands that set and show parameters, over registers | `Sheet` | `Parameters_proofs` |
| `Mixer` (+ `MCMixer`) | volumes, filters, LED bar | | `Mixer_proofs` |
| `BridgeStart` (+ `MCBridgeStart`) | the start of the bridge program and its discovery | | `BridgeStart_proofs` |

Two components of TPX that have nothing to do with each other can share a module
of proofs, which then extends both; their names carry a prefix where they would
meet (`SyncSpec` beside `Spec`, `ButtonTypeOK` beside `LedTypeOK`).

The four modules of the bridge divide its registers between them, so that they
can be checked and proved one by one: the words of control bits and the MAC
address are `Bridge`'s, the products and filters `Mixer`'s, all other parameters
those of `Parameters`.  `BridgeStart` and `Parameters` both write the address
registers at a start: the first says where the values come from and what a cut
leaves, the second takes them as given (`Starts`) and goes on from there.  Each
module has its own `up` or `step`, and a restart over the registers of the run
before.

### Pairing

`pair_status`, `user_id` and `shadow_user_id` are the three atoms.  `mqtt` is
where the one MQTT thread is in a handler, `button` where the GPIO thread is in
the button's function, and `requests` holds the HTTP requests, each with the
state of its callback.  Handlers are cut at every *write* of an atom, because
the threads meet there: `:pairing/unpair` is `ReceiveUnpair` (the guard
`data/allowed?`), `UnpairSetStatus`, `UnpairClearUser`.  The reads of one guard
are one step.  `set-status` also works the LED; Pairing leaves that to
`LinkLed`, which in turn lets any status be set at any time.

The platform is external: it obeys or refuses a request, its reply may be lost,
and a user may unpair in the app, which sends an MQTT message.  `Restart` is
systemd restarting TPX: the atoms start afresh, requests already sent may still
arrive (`"orphan"`), messages may be lost.

Histories say what was meant by a press.  `offer` is the user of the last offer
that TPX took up, which is the one the person at the box can know of;
`consented` are the users whose offer was the last when the button was pressed
and whose press has not been used up by a claim or a release since.  These are
recorded at the offer's guard and at the press, not where `user_id` is
written: the claim, a step of its own later, takes `shadow_user_id`, which is
not always that user's.  It goes wrong in two ways, and both put the user that may
gain control without a press on his own offer into `crossed`: the button is
pressed between an offer's guard and its second write, when `shadow_user_id` is
still the user of an earlier offer (even of one from before the last release,
as nothing clears it), or another offer comes between the press and its claim.
`ConsentBeforeControl` says that nobody commands the box in any other way.

`disturbed` becomes true when a
transaction (a press with its request, or an unpair with its message) begins
while another is open, or when a reply is lost.  The code has no remedy for
either: with two transactions open the callbacks decide by their order, and
after a lost reply nothing asks the platform again.  So agreement is claimed
exactly as long as `disturbed` is false; offers, and restarts at any point, do
not disturb it.  Consent needs no such condition.

### LinkButton

Edges carry the kernel's time stamps, so the loop's own delay does not matter
and an edge and its handling are one step.  The button's function may throw; the
loop then ends (`reading` becomes false).  `OneCallPerPress` compares the calls
with `Holds`, which reads the contact as bursts of edges and knows nothing of
the loop: an edge starts a burst when it comes more than `Epsilon` after the one
before (`StartsBurst`), the k-th burst is found by counting those (`Rank`,
`Start`), the odd bursts are presses and the even ones releases.  It claims
something for every contact that is clean, that is, whose bursts last no longer
than `Epsilon` and leave the contact on the other side.

### LinkLed

One step per access of the atoms `blinks` and `leds`, for the callers and for
the blinking futures, including the second read of the atom in `set-led`.
`future-cancel` ends a future that has not begun or is asleep; one that is awake
it only interrupts (`cancelled`), and the future goes on to its next sleep.
The two pauses between blinks, 3000 and 500 ms, are `"slow"` and `"fast"`.
`raced` records that callers overlapped or that a cancel met an awake future;
in these cases the LED may end dark although the status is paired, since the
future may write after `set-status` did.  `NamedBlinkerBlinks` holds without
that condition.

### PlatformSync

Command, future and POST *n* belong together, and the settings after command
*n* are the number *n*.  The futures sleep equally long, so they wake in the
order in which they were made; that is what `Wake`'s guard says.  The atom is
read twice (`CheckSaved`, `CancelSaved`), and callbacks run in between.

### Upgrade

The script's steps, the flag, the package and the heartbeat's first ticks, with
`PowerLoss` and `TpxCrash` between any two.  systemd may or may not kill the
script with the service that started it: the unit does not say, so both happen.
A publish is taken to be delivered.  `failed` records that the script failed
or was killed before it could start TPX again; nothing in the repository starts
the services after that, and the properties say so.

### Bridge and Console

Each function of `stream_control.c` is an operator from registers to registers,
under its own name; a command is the composition its branch in `ui_control.c`
makes.  A register is the set of its bits that are one, restricted to the bits
the code gives a meaning.  One thread reads the console and runs each command
to its end, so a command is one step; a reset pulse is set and cleared within
it.  Registers read as written, except bits 4 and 5 of `eth_to_audio` 0, which
read as FIFO flags (`reg_io.h`) but mean loss concealment and correction when
written: every read-modify-write of that word leaves these two in a state the
FIFOs decide (`Flagged`).  `Restart` is a new run of the program over the
registers of the old one; the power switch is the initial state.

`Console` says what the commands promise without any register: named switches,
and for every command the switches it moves.  `Bridge` refines it through the
mapping `On`, `Mode`; the property `MovesItsSwitches` is `Console!Spec`.  Where the
code moves more than its name says, `Console` says that too: a core reset ends
the stream (the reset bit *is* the stream's bit), the network speed is set in
the stream's bits, a sync by hand leaves the streams as bits of the MAC
address happen to be.

### Parameters and Sheet

A register is a core and a number.  The functions of `stream_control.c` know the
number and are operators under their own names; the command passes the core,
which for some is not the one the function was written for: that is how pairs
of parameters come to share a register.  The commands of one run share the
variables `tmp`, `dest_port` and `sw_port`: without a number (`scanf` finds no
digit) the variable stays as the last command left it, and `setcrwin` never
asks for one.  `help` eats the first letter of the next command (`eaten`), and
the packet time enforcer, whose core is never mapped, crashes the program.
`Cut` kills the program between two of the writes of one command, `CutStart`
between two of the writes of a start, which has a command line of three to six
arguments.

`Sheet` is what a reader of the help text would write down: for each parameter
a number, for each command the parameters it sets or the one it shows.  It says
openly which are one number (`sethdrlen` and `setdlim`; `setbslk` and
`sethdrstrip`; `delay` and `setbdlm`), that the streaming port is also
that of the clocks, and that `getport` shows the latter.  `Parameters` refines
it with `Value`, the register that `Where` names for each parameter; the
property is `KeepsTheSheet`, that is `Sheet!Spec`.  The five destination
registers have to be kept equal for that to be a fair reading of "the"
destination: that is `OneDestination`.

### Mixer

`v_global`, `own` and `gain` are the program's memory, `volume` and `filter`
the registers, which survive it, `leds` the lit LEDs of the bar.  A product
wraps at `Word`, and the bar reads the volume as a signed number.  Until the
first global volume of a run the registers hold the 30 that `ui_init` writes
and not the product of 30 and the global 4 it keeps, and a run begins by
saying that all filters are off while the cores keep those of the run before.
The histories `tuned`, `commanded` and `left` say from where on the
properties claim something: from the first `vol` of the run, for a filter from
the first command for it, after an `exit`.

### BridgeStart

`step` is where `main`, `ui_init` and `ui_run` are.  A core may fail to open
(the program ends) or to be mapped (nobody looks until the first access); the
codec's PLL locks when it likes; gateway, MAC, mask and address are what the
network has at that moment, or what was in memory when a call fails whose
result is not looked at.  `run_arping` sends one request and waits for a reply
of anybody: `queue` holds the frames in its socket, `read_arp` and
`write_arp_mac` are the two writes of the entry.  `ui_exit` is also a kill, at
any step; `main` starts again with other arguments.  Once the destination is
asked for, `ui_init` calls `set_sync_off`, which reads and writes the wrong
core: it clears the lowest bit of the upper three bytes of the MAC that the
start has just set (`mac_high`, a number; `High` gives it for each
interface).  So `NothingLeftOver` does not say that this register is what the
start found, but that it is that number made even; all other address registers
are what was found.  What was found is again what the network has (`mask`,
`local`), unless `blind` records that eth1 had no address when it was asked: the
memory the result was to be put into is used all the same.  `strange` records that a
start sent no request, or heard another host's reply, or that `strdip` changed
the destination afterwards; `lost` that its request or the answer was lost.
The code has no remedy for these.

### Calls

`todo` is what the thread of the messages has yet to do of the command it is
in, one line, one save or one write of the flag at a time.  The reader's thread
works on `back` and may write a hangup (a failed sync) between any two of these
lines.  `Crash` ends TPX, and `RestartService` the bridge service, TPX with it
as systemd's unit has it; the database and the file of versions stay.  The
serial ports are a unit of their own, so the lines on them may survive such a
restart, or be lost.  The
service is external: it keeps what each line told it (`reg`), dials with the
peer's port and addresses it was last told (`call`), and starts and stops its
monitor.  A message comes only after `IpcService`'s start is through its lines,
as the components of the system map start in order.

A setting the database does not have is, for `hardware-value`, the one the
configuration gives (`Defaults`, where `Unset` stands for a key it does not
give), and a start sends it like a saved one.  As it sends the local volume and
not those of the inputs, each start puts the local volume, or its default, over
the saved volumes of the inputs; `ServiceHasSettings` therefore lets an input's
fader stand at its own or at the local volume, and asks of every other setting that
the service has what the database or else the configuration has.

## 3. The runs

| Run | Question | Bounds, and why they are enough |
|---|---|---|
| `pairing` | Who commands the box, who does the platform say does, and does a user whom the platform has unpaired lose the box? | Two users (one can displace the other), two requests (the least that overlap), one unpair message waiting. No symmetry, as it is unsound for liveness. Safety is proved for all values. |
| `button_presses` | One call per press? | `Epsilon` 2 and 13 time units: up to two full presses with bounces of every length up to and beyond `Epsilon`, and all three answers of the button's function. |
| `sync_settled` | What has the platform when all is at rest? | Three commands: one being sent, one waiting, one arriving. With failures and restarts. |
| `sync_latest` | *(violation)* Does the last setting arrive? | Three commands, no faults: the code alone does it. |
| `led` | Does the LED show the status? | Two callers and two futures, the least that can overlap; statuses may follow each other without end. |
| `upgrade` | Is every upgrade announced, none too early, and does TPX come back? | Three upgrades, three crashes: a crash in an upgrade, one in its recovery, and an upgrade that follows both. |
| `calls` | Whom does a call reach, when does the monitor run, and do settings and versions survive? | Two peers to confuse, a volume of an input and the local one that overlaps with it, the delay, a value below ten and one above (a start restores the delay differently), defaults that differ from both and one that is missing (`SomeDefaults`), two versions, one line on the port each way: the threads, not the buffer, make the interleavings. The constraint `Apart` keeps saved settings apart from new versions and from the second peer, with which no command combines them. Proved for all values and without it. |
| `bridge` | Does each command move its own switches? | All commands, any number of them. Two MAC addresses that differ in each modelled bit. The state constraint `TwoIndependent` lets at most two of the switches that no command combines be on at once; streams, sync and FIFO features take all combinations. Proved without it. |
| `bridge_mac` | *(violation)* Does the box keep the MAC address it was given? | The same addresses. |
| `parameters` | Does each command move its own parameters and no other? | All commands. One number to type and one that the cores answer, both different from all a start writes; `Word` 512, so that the scaled delays wrap. The constraint `OneChanged` lets one parameter at a time differ from what a start gives it, and the view leaves the history out. Proved without either. |
| `mixer` | Does each channel play at what was set? | Two gains, 4 and 20, whose products pass `Word` = 32 and whose larger one reads as negative. At most two filters are on or set (`Few`); no command touches two. Proved without it. |
| `start` | What is left of an earlier run, and does a start end? | Two hosts (one can answer for the other), one address of eth1, no default route or two, two MACs of which one has the bit that the start clears, one core that may not be mapped (the display's, accessed last), one frame nobody asked for. Safety is proved for all values. |

`CHECK_DEADLOCK FALSE` stands where the bound on commands, time or upgrades
lets the system stop.

Each property of a passing run has a mutant, a definition next to the one it
mutates with a comment that begins with "Mutant"; `PROJECT.json` says which
property finds it.

### What the properties excuse

Where the code has no remedy, a history records that a hazard happened and the
property speaks of the runs in which it did not.  Such a hazard is shown to be
confined, not absent, and its entry in `PROJECT.json` says so:

| History | Records | Excused in |
|---|---|---|
| `crossed` | an offer that met a press on another's | `ConsentBeforeControl`, for that user only |
| `disturbed` | a transaction inside another, a lost reply | `AgreementAtRest`, `AdoptsTheRegisteredUser`, `UnpairedUserLosesControl` |
| `raced` | two callers of `set-status`, a cancel of an awake future | `LedShowsStatus` |
| `overlapped`, `lost` | a command that met an update being sent; a crash or failure before it was | `SettledIsLatest`; `OneUpdateWaits` (the first only) |
| `failed` | a script that failed or was killed with its service | `StoppedTpxReturns`, `UpgradeAnnounced` |
| `stale` | a time sync that an earlier run left on | `SyncPacketsSent` |
| `tuned`, `commanded` | (claimed from then on) the first global volume, the first command for a filter | `ProductIsHeard`, `BarShowsVolume`; `FiltersAsSaid` |
| `strange`, `lost`, `blind` | the wrong reply or no request; no answer; eth1 without an address | `EntryIsDestinations`; `StartEnds`; `NothingLeftOver`, for mask and address only |

### Fairness

- `Pairing`: weak fairness of the MQTT thread, of the button's thread, and per
  request of its callbacks and of the platform.  These are threads of a JVM and
  an HTTP client with a time-out.  Nobody has to press, offer or unpair, and
  the fair step of the platform may be a refusal.
- `PlatformSync`: the same for the handler, the futures and the requests.
- `Upgrade`: the script, while it lives, and the heartbeat's timer.  The
  crashes are bounded, so that they end.
- `BridgeStart`: the program's one thread, the lock of the PLL, and the reply
  to a request that is not lost.  Nobody has to start or end the program, and
  the choice of a failing core counts as an end of the start.  `StartEnds`
  excepts a start whose request or answer was lost: the code waits for ever.
- `LinkButton`, `LinkLed`, `Calls`, `Bridge`, `Parameters`, `Mixer` state only
  safety and assume none.

### What the violations show

Two runs show disagreements between the code and what it says of itself.
They are listed under `findings` in `PROJECT.json`.

1. **`sync_latest`.** `saved-future` is read by `when` and again by
   `future-cancel`.  A callback between the two makes the latter throw on nil,
   and the command's settings are not sent.
2. **`bridge_mac`.** `set_sync_off` reads and writes register 0 of the network
   core, which is the upper word of the MAC address, and clears its lowest bit.
   `ui_init` does the same at the end of every start, to the MAC that it has
   just set: in `BridgeStart` it is a step, and `NothingLeftOver` says so.

Met while modelling, and modelled as the code has it where a module covers it:

- A closing and opening of the contact within `Epsilon` starts a cycle whose
  falling edge is kept, and the next press ends it: the time between counts as
  held (`gpio.clj:203`).
- The callback of an earlier POST resets `saved-future`, which by then may name
  a future that waits; a superseded setting is then sent as well
  (`sync.clj:33`).  `OneUpdateWaits` says how far that goes.
- When `init-gpio` fails half-way the atoms stay nil, and later calls of
  `set-led` throw (`gpio.clj:305`); not modelled.
- `:sip/hangup-all` is sent to the IPC, which does not know it
  (`teleporter.clj:192`): in `Calls` it does nothing.
- A start restores the local volume, or its default, and not those of the
  inputs (`ipc.clj:72`, `database.clj:93`), so that their saved volumes are
  lost to the service: `ServiceHasSettings` says which of the two the faders
  may stand at.
- The button's press may claim the box for another user than the one who made the
  last offer (`pairing.clj:16`): `ConsentBeforeControl` says for whom.
- `getport` shows the port of the clocks, not the streaming port
  (`ui_control.c:1881`); with four to six arguments the first three are
  never read (`ui_control.c:2659`); and the pairs of parameters
  named above share registers.
- The buffer a command is read into has eight bytes, and some commands are
  longer (`ui_control.c:295`); what this overwrites is not modelled, the models
  assume that what lies behind it is not used.
- The comment over the link button speaks of five seconds to DHCP where the
  default is ten (`LinkButton` takes the delay as a parameter), and the comment
  on the LED's polarity says the opposite of `on-off-map` (`LinkLed` uses the
  map).

## 4. The proofs

`tlapm` proves the following for every value of the constants.  Assumed are
only the named assumptions on the constants (`PairingAssumption`,
`LinkButtonAssumption`, `LinkLedAssumption`, `PlatformSyncAssumption`,
`UpgradeAssumption`, `CallsAssumption`, `BridgeAssumption`,
`ParametersAssumption`, `MixerAssumption`, `BridgeStartAssumption`), which TLC
evaluates in the runs.  They give the bounds and delays their types and keep
`nil` apart from the values it stands beside; none of them limits how many or how
large these are, and `ParametersAssumption` and `MixerAssumption` want numbers
wide enough for what the program itself writes.  Every invariant and every action
property that a run checks is proved.  Four properties are stated only beside
their proofs and belong to no run: `RemovesWhoAsked`, `EachCallIsAHold`,
`UpdatesInOrder` and `AnnouncedOnce`; TLC agrees with them within the bounds of
their modules' runs.

| Theorem | Says |
|---|---|
| `Pairing_proofs!TypeCorrect`, `Invariance`, `Consent`, `Agreement`, `Adoption`, `Removal` | `Spec` implies `[]TypeOK`, `[]PairingInv`, `[]ConsentBeforeControl`, `[]AgreementAtRest`, `AdoptsTheRegisteredUser`, `RemovesWhoAsked` |
| `Gpio_proofs!ButtonTypeCorrect`, `ButtonCalls`, `ButtonHolds` | `[]ButtonTypeOK`, `[]OneCallPerPress`, `[]EachCallIsAHold` |
| `Gpio_proofs!LedTypeCorrect`, `LedShows`, `NamedBlinks` | `[]LedTypeOK`, `[]LedShowsStatus`, `[]NamedBlinkerBlinks` |
| `Platform_proofs!SyncTypeCorrect`, `SyncOneWaits`, `SyncSettled`, `SyncInOrder` | `[]SyncTypeOK`, `[]OneUpdateWaits`, `[]SettledIsLatest`, `UpdatesInOrder` |
| `Platform_proofs!TypeCorrect`, `FlagOutlives`, `VersionKnown`, `NotTooEarly`, `OnlyOnce` | `[]TypeOK`, `[]AwaitedIsFlagged`, `[]PlatformKnowsVersion`, `AnnouncedAfterReboot`, `AnnouncedOnce` |
| `Calls_proofs!TypeCorrect`, `OnePeer`, `HeldBack`, `Versioned`, `SettingsKept` | `[]TypeOK`, `[]CallsOnePeer`, `[]HeldBackIfOn`, `[]VersionsSaved`, `[]ServiceHasSettings` |
| `Bridge_proofs!NothingInReset`, `PacketsSent` | `[]TypeOK`, `[]SyncPacketsSent` |
| `Bridge_proofs!Implements` | `Spec => MovesItsSwitches`, that is `Spec => Console!Spec` |
| `Parameters_proofs!TypeCorrect`, `OneDestinationHolds`, `ConsoleKeepsTheSheet` | `[]TypeOK`, `[]OneDestination`, and `Spec => KeepsTheSheet`, that is `Spec => Sheet!Spec` |
| `Mixer_proofs!TypeCorrect`, `ProductHeard`, `BarShown`, `Silent`, `Filtered` | `[]TypeOK`, `[]ProductIsHeard`, `[]BarShowsVolume`, `[]SilentAfterExit`, `[]FiltersAsSaid` |
| `BridgeStart_proofs!TypeCorrect`, `NothingLeft`, `EntryOfDestination` | `[]TypeOK`, `[]NothingLeftOver`, `[]EntryIsDestinations` |

**Pairing.**  Neither agreement nor adoption is inductive: at rest the
properties say nothing of what a pending request will do.  `PairingInv` (in
`Pairing`, checked by the run `pairing`) adds what each phase of a
transaction owes to the next.  While nothing disturbed the pairing, at most one
transaction is open (`OneTransaction`); a POST carries the user that `user_id`
still holds and finds the box unpaired, and once obeyed that user is the
platform's (`RequestPhase`); an unpair message names the owner (`UnpairPhase`).
Consent needs `ClaimInv`: between the handlers `shadow_user_id` is the last
offer's user, while a press is on its way to its claim that user and the last
offer's have each consented or been crossed, and so has `user_id`.
The step lemma has a case for each action; `CalmBefore` says that `disturbed`
never goes back, so that each case may assume a calm state before it.
`Removal` follows the user of an unpair message from the guard to the write that
clears `user_id` (`Asked`): in a calm state no press can claim the box in between.

**Link button.**  The reference reading looks at the whole contact, the loop only
at two times.  `ContactInv` keeps the edges in order and says what counting does
(`Ranked`: the bursts are numbered 1 to `Bursts`, each number once).  The lemmas on
an `Append` show that an edge leaves the bursts before it where they were and is
either the start of a new one or in the last, so that no induction over the
edges is needed: the run of the loop is the induction.  A contact that is clean
now was clean before its last edge (`CleanBefore`), so that the invariant may be
conditional on it: then `FollowsContact`, that bursts alternate between presses
and releases, that the calls are the first of `Holds`, and that while the loop
runs they are all of them and `falling` and `rising` are the times the last two
bursts started.  `ButtonHolds` asks for no clean contact: whatever bounces, each
call is for a hold longer than `Epsilon`, between a closing and an opening, and
more than `Epsilon` after the one before.

**Link LED.**  `NamedBlinkerBlinks` is inductive with `CallersOK`: from `stop` to
`forget` a caller remembers the future it found, and a future that no atom and no
caller names is not started again.  `LedShowsStatus` says nothing while a caller is
at work, so `Undisturbed` says how far one has come: as long as nothing is
`raced` there is at most one, which finds the LED `Dark` or `Blinking` with the
one future the atom names, ends that future while it is not awake, is then alone
with the LED (`Progress`), and leaves it `Showing` the new status.

**Platform sync.**  `CommandIsNew` says that the future of the running command is
still to be made.  `OneAtATime` is `OneUpdateWaits` and what it needs: as long as
nothing overlapped, no command runs and no update waits while one is being sent,
and none waits when a command makes its own.
`LastIsOnItsWay` follows the last command's settings from the handler through the
future, the POST and its callback to the platform (`OnItsWay`), and its message
to the publish.  From both it follows that what is sent at any moment is the last
command's, so neither settings nor messages go back in time (`SyncInOrder`).

**Upgrade.**  `UpgradeInv` adds that the script works only while TPX is stopped,
so that the first heartbeat and the script never meet, that nothing is awaited
between the message and the deletion of the flag, and that a running TPX has
read the version that is installed.  The bounds on upgrades and crashes are
constants, so the theorems hold for any number of either.  `OnlyOnce` adds
`OnceInv`: without a crash, a flag whose upgrade was announced is about to be
deleted, or TPX is stopped and the script will flag another before it returns.

**Calls.**  No property is inductive: each says what holds when `todo` and the
port are empty, and what comes before has to owe it.  `CallInv` says in which
shapes the rest of a dial may stand (`Work`), that as long as the flag is down
the monitor runs or its line is under way (`Flagged`), and that the lines still
to come make the peer's port and addresses one before a call line is reached
(`Dialled`).  `VersionInv` follows each of the two questions from the thread
over the port and back into `reported-versions`.  `SettingInv` says for each
setting that the last line about it that is under way, or the register if there
is none, has the value of the database or the default that stands for it, or
that a start owes it (`Settled`).
Lemmas on the last line of a sequence that matches (`LastKept`, `LastSaid`,
`LastStays`, `LastTaken`) carry it through `Append` and `Tail`; others do the
same for the last answer under way (`AnswerWaits`, `AnswerTaken`, `AnswerStays`,
`AnswerComes`), which a restart of the service may lose or leave on the port.

**Bridge.**  `SyncPacketsSent` is inductive with the type of the registers.
The proof follows a command function by function: lemmas say which functions of
`stream_control.c` leave the two bits of the sync alone (`Masks`, `Writes`,
`OtherFunctions`) and what the rest make of them (`SyncFunctions`).
`NothingInReset` goes the same way with the bits each register may have
(`Allowed`, `Sane`): the type invariant of `Bridge` says that no command leaves
its reset pulse set.

**The refinement.**  The switches that are on are a function of the registers
(`OnOf`).  `MaskView` says what a mask or a write makes of it, for any word and
bits; `FunctionMoves` gives the switches of each function; `Moves` composes, so
that the step of each command is a chain of its functions.  Every step of
`Bridge` is a step of `Console` or leaves the switches alone (`Strmac`, `Areset`,
`Preset`).  The theorem needs no bound on the switches that are on at once, so
the state constraint of the run `bridge` costs nothing.

**Parameters.**  The commands are many and alike, so the proof first brings
them to three forms: `Writes(c, R, n, m)`, that command *c* writes *m* to the
registers *R* when it reads *n*; `Answered(c, r, n)`, that it shows register
*r*; and `Unnamed`, that it touches no register a parameter is kept in.  Tables
(`Hits`, `OffNetwork`, `AllOrNone`) say which of the registers of `Where` each
set contains: all of those of a parameter the sheet says it sets and none of
the others.  With them `SheetStep` maps every step, kills included, to a step of
`Sheet`.  `OneDestination` needs `AllOrNone` and the fact that a start writes
all five before the console opens.

**Mixer.**  The four properties and the type are inductive together as they
stand; the histories are what makes them so.

**BridgeStart.**  One invariant per property, each with what a start owes so
far: `MapInv` that the cores which earlier steps used were there, `RegInv` that
the registers up to `next` hold what was found, the MAC's upper half until the
sync is switched off and its even part from then on, and that the codec is set
up from the step after the PLL on, `EntryInv` that a start with nothing strange has in
its socket only frames of the destination.

### Only model-checked

Liveness: `UnpairedUserLosesControl`, `UpgradeAnnounced`, `StoppedTpxReturns`,
`StartEnds`.  TLAPS does not prove properties under fairness, nor anything
with `ENABLED`.  The two violations are TLC's counterexamples.

No module declares a recursive operator.

## 5. What is not modelled

Of the components of section 1:

- **Network** (`set-ipv4`, the report, the reset to DHCP): whether and when the
  connection is back after an address was set is decided by shell commands
  outside the code, so its one real question, whether the new address is ever
  reported, cannot be answered from the repository.  Two hazards name it.
- **Startup**: a sequence of components in one thread with one branch, the
  platform's missing answer.  What `IpcService` does at its start is in `Calls`.
- **Scheduler**: commented out, never runs.
- **Effects, analog controls, bit banging**: conversions without state.
- **Configuration, logging, deployment, the OLED**: I/O.
- **`src/cs7`**: the older copy of the bridge.
- The jam handlers, which pass every message on to `songpark.jam`, and the
  reports of the service that only reach it.
- The codec's busy waits on its serial bus (`adau1761_controller.c`), other than
  the wait for the PLL, and a kill within a reset pulse.

Left out of what is modelled: the wording of messages and logs; the heartbeat's
POST, which keeps no state; registers that no modelled command writes; a
register of the time-sync core (`TS` 0, bit 2) whose reading as "done" is used
only by functions that nothing calls; functions of bp7 that nothing calls or
whose threads are never started (the message queue, the buttons, the loopback);
`stop` of `IpcService`, which only a developer calls.  The service of `Calls` is
the deployed `connect` program, of which the repository has only the unit file;
the console of bp7 is its forerunner, so the two are not composed.

## 6. Plan

1. Proofs of what `Calls`, `LinkLed` and `BridgeStart` promise of their steps,
   beside what their invariants say of a state: whose peer a call has, who
   may write the LED, and which registers a running console may still change.
2. `ButtonPairing`: `LinkButton` and `Pairing` composed, so that the presses of
   the second are the calls of the first.
3. `Network`, with the shell's effect left open: that what is reported is a
   configuration the box has had, and that a report is not taken for another.
4. `Startup`, if it gets a second branch.

The number of runs is kept small: a new module gets one run for its safety
and its refinement, and a liveness property joins it unless symmetry forbids.
