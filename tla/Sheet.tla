-------------------------------- MODULE Sheet --------------------------------
(***************************************************************************)
(* What the console of the bridge promises about its parameters, as a      *)
(* sheet with one number for each: a command that sets one leaves all      *)
(* others as they are, but for the pairs that the cores keep in one place, *)
(* and a command that shows one shows what is on the sheet.                *)
(***************************************************************************)
EXTENDS Integers

CONSTANT Word  \* numbers wrap at this one

VARIABLES
    value,  \* the number of each parameter
    line,   \* the last command, and the number it took or showed
    up      \* the console is open

Numbers == 0..(Word - 1)

\* The pairs that are one number: whoever sets one of them sets the other.
Length == {"header_length", "drop_limit"}
Strip  == {"header_strip", "slack"}
Delay  == {"playout_delay", "late_limit"}

\* What each command sets.  The streaming port is also that of the clocks.
Sets ==
    [strsip  |-> {"sync_ip"},    strdip   |-> {"dest_ip"},
     strlip  |-> {"local_ip"},   strgip   |-> {"gateway_ip"},
     strmask |-> {"mask_ip"},    strport  |-> {"dest_port", "sync_port"},
     strsport |-> {"sync_port"},
     setswp1 |-> {"sw1"}, setswp2 |-> {"sw2"}, setswp3 |-> {"sw3"},
     setswp4 |-> {"sw4"}, setswp5 |-> {"sw5"}, setswp6 |-> {"sw6"},
     setswp7 |-> {"sw7"}, setswp8 |-> {"sw8"},
     strplen |-> {"packet_length"}, strporder     |-> {"order"},
     setppdly |-> {"wait_delay"},   setsqsdly     |-> {"send_delay"},
     setpblim |-> {"packet_limit", "buffer_limit"},
     setplcpktsize |-> {"plc_size"}, setprdly     |-> {"replace_delay"},
     setsqlkdly |-> {"lock_delay"},  strblen      |-> {"buffer_length"},
     sethdrlen |-> Length,           setdlim      |-> Length,
     setbslk  |-> Strip,             sethdrstrip  |-> Strip,
     clearhdrstrip |-> Strip,
     delay    |-> Delay,             setbdlm      |-> Delay,
     strxteston |-> {"test_on"},     strxtestoff  |-> {"test_on"},
     strxtestm1 |-> {"test_mode"},   strxtestm2   |-> {"test_mode"},
     strxtestm3 |-> {"test_mode"},   strxtestm4   |-> {"test_mode"},
     strxtestm5 |-> {"test_mode"},
     setcrwin |-> {"window"},        setlooplimit |-> {"loop_limit"},
     syncdly  |-> {"sync_delay"},    setowdlycnt  |-> {"one_way_delay"}]

\* Delays are typed in their own units, and the packet size with its header.
Kept(c, n) == CASE c \in {"setppdly", "setsqsdly"} -> (64 * n) % Word
                [] c = "delay" -> (48 * n) % Word
                [] c = "setplcpktsize" -> (n - 2) % Word
                [] OTHER -> n

Shows == [getdip  |-> "dest_ip",  getlip  |-> "local_ip",
          getgip  |-> "gateway_ip", getmask |-> "mask_ip",
          getport |-> "sync_port", getplen |-> "packet_length",
          getporder |-> "order",   getblen |-> "buffer_length",
          getpoutdly |-> "playout_delay"]

\* What the program sets when it is started.
Given == {"local_ip", "gateway_ip", "mask_ip", "dest_ip", "dest_port",
          "sync_port", "sw1", "sw2", "sw3", "sw4", "sw5", "packet_length"}

Init == ~up /\ value \in [DOMAIN value -> {0}]

Set(c, n) ==
    /\ up /\ up'
    /\ LET set == Sets[c]
           old == value
       IN  value' = [p \in DOMAIN old |-> IF p \in set THEN Kept(c, n) ELSE old[p]]

Show(c, n) ==
    /\ up /\ up'
    /\ n = value[Shows[c]]
    /\ UNCHANGED value

Open ==
    /\ ~up /\ up'
    /\ LET old == value
           new == value'
       IN  \A p \in DOMAIN old \ Given : new[p] = old[p]

\* The program is killed: what it was about to set is set or not.
Cut ==
    /\ ~up'
    /\ LET old == value
           new == value'
           Untouched(set) == \A p \in DOMAIN old \ set : new[p] = old[p]
       IN  IF up THEN \E c \in DOMAIN Sets : Untouched(Sets[c]) ELSE Untouched(Given)

\* Everything else, and the end of the program.
Other ==
    /\ up
    /\ UNCHANGED value

Next ==
    LET c == line'[1]
        n == line'[2]
    IN  \/ c \in DOMAIN Sets /\ Set(c, n)
        \/ c \in DOMAIN Shows /\ Show(c, n)
        \/ Open
        \/ c = "killed" /\ Cut
        \/ c \notin DOMAIN Sets \cup DOMAIN Shows \cup {"killed"} /\ Other

Spec == Init /\ [][Next]_<<value, line, up>>
=============================================================================
