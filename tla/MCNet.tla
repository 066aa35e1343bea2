------------------------------- MODULE MCNet -------------------------------
(* This machine, its gate, a neighbour and a host outside; a table of two   *)
(* entries, so that it runs full; a ring of four pages and packets of one   *)
(* and two, so that it wraps and runs full.  A payload of three bytes is    *)
(* more than udp_send allows, and with a checksum of one byte one of two is  *)
(* more than snd_buff holds.                                               *)
EXTENDS Net

Udp(from, port, len, size, byte, pages) ==
  [type |-> "udp", to |-> "card", from |-> from, port |-> port, len |-> len, size |-> size,
   byte |-> byte, pages |-> pages]
Arp(op, to, spa, sha) ==
  [type |-> "arp", to |-> to, op |-> op, spa |-> spa, sha |-> sha, dpa |-> "me", pages |-> 1]
Near == Udp("near", 1, 1, 1, "a", 1)
Asks == Arp("request", "FF", "near", "n")
Claims == Arp("reply", "card", "255.255.255.255", "n")
MCPackets == {Udp("far", 1, 3, 3, "b", 2), Udp("near", 1, 3, 1, "a", 1), Arp("reply", "card", "gate", "g"),
              Arp("reply", "card", "near", "n"), Claims, Asks}
\* Packets for sends to a neighbour as well, of which the gate has to be known too.
SendPackets == MCPackets \ {Udp("near", 1, 3, 1, "a", 1), Claims}
\* Packets of which not all is true.
OddPackets == {Near, Udp("far", 1, 3, 1, "b", 1), Udp("near", 1, TooShort, 0, "a", 1),
               Arp("reply", "card", "255.255.255.255", "n"), Arp("reply", "FF", "me", "FF"),
               Arp("reply", "card", "0.0.0.0", "n"), Arp("reply", "card", "0.1.2.3", "00"),
               Arp("reply", "card", "gate", "g"), [type |-> "none", to |-> "00", pages |-> 1]}
\* Packets that are taken between the steps of a send.
FewPackets == {Udp("far", 1, 3, 3, "b", 2), Arp("reply", "card", "gate", "g")}
Replies == {Arp("reply", "card", "gate", "g")}
ToGate == {[dst |-> "gate", size |-> 1, byte |-> "a"]}
ToFar == {[dst |-> "far", size |-> 3, byte |-> "b"]}
FarAndNear == ToFar \cup {[dst |-> "near", size |-> 1, byte |-> "a"]}
=============================================================================
