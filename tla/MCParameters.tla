---------------------------- MODULE MCParameters ----------------------------
(* Small instances of Parameters for TLC.                                  *)
EXTENDS Parameters, FiniteSets

\* A start with three arguments.
OneStart ==
    {[local |-> 11, gateway |-> 12, mask |-> 13, dest |-> 14,
      port |-> 15, sync |-> 16, sw |-> <<>>]}

\* The numbers a parameter has without a command, and the parameters that
\* differ, of those that one command sets together the first.
Usual(p) == CASE p = "local_ip"   -> {0, 11} [] p = "gateway_ip" -> {0, 12}
              [] p = "mask_ip"    -> {0, 13} [] p = "dest_ip"    -> {0, 14}
              [] p = "sync_port"  -> {0, 16} [] p = "sw1"        -> {0, 15}
              [] p = "sw2"        -> {0, 16}
              [] p = "packet_length" -> {0, 300}
              [] OTHER -> {0}

Followers == {"dest_port", "buffer_limit", "drop_limit", "slack", "late_limit"}

Changed == LET v == Value
           IN  {p \in DOMAIN Where \ Followers : v[p] \notin Usual(p)}

\* Bound: one parameter is changed, one of address and port is cut, and tmp
\* holds no address.
OneChanged ==
    /\ Cardinality(Changed) <= 1
    /\ Cardinality({reg[r] : r \in DestinationIps})
         + Cardinality({reg[r] : r \in DestinationPorts}) <= 3
    /\ tmp \in Entries \cup Readings \cup {300}

\* The view of TLC leaves out what no guard reads: the history.
NoHistory == <<up, reg, locals, eaten>>
=============================================================================
