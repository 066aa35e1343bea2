-------------------------------- MODULE Net --------------------------------
(***************************************************************************)
(* The network driver (source/net.c): an NE2000 card with its ring of      *)
(* received packets and its interrupt status, the handler that empties the *)
(* ring, and the calls of programs, which share the send buffer, the       *)
(* receive buffer, the ARP table and the card's one DMA channel with the   *)
(* handler and take no lock.                                               *)
(*                                                                         *)
(* Two levels run this code, the main thread and the handler on top of it. *)
(* The main thread does not move while the handler runs, nor while an      *)
(* interrupt is pending (it is taken before the next step).  Packets       *)
(* arrive, and transmissions end, at any time.  The handler comes between  *)
(* any two of the main thread's writes to the card that set its channel up. *)
(***************************************************************************)
EXTENDS Integers, FiniteSets

CONSTANTS
  IPs, LocalIP, LocalGate, \* addresses of hosts
  LocalNet,                \* those on the local network
  ZeroIPs,                 \* addresses that begin with 0: an entry of one of them is free
  MACs, CardMAC,
  Ports, UDPPort,          \* port numbers, and the one that is set first
  Bytes,                   \* what a payload is full of
  Packets,                 \* what the network brings (see PacketAssumption)
  Sends,                   \* what programs send: [dst, size, byte]
  ReadSizes,               \* sizes of the buffers that programs receive into
  ARP_TABLE_LEN,           \* entries of the table (8)
  PSTART, PSTOP,           \* first page of the ring, first page behind it (0x46, 0x80)
  RcvRoom,                 \* bytes of rcv_buff.buff (256)
  TmpRoom,                 \* payload bytes that tmp_buff holds (213)
  SndRoom,                 \* payload bytes that udp_send allows (202)
  ETH_CRC_LEN,             \* bytes of the checksum behind a frame (4)
  MaxAsks,                 \* ARP requests before giving up (16)
  MaxArrivals              \* bound on the packets that arrive

NoIP == "0.0.0.0"
BroadcastIP == "255.255.255.255"
NoMAC == "00"
BroadcastMAC == "FF"
Addresses == IPs \cup ZeroIPs \cup {BroadcastIP}
HardwareAddresses == MACs \cup {NoMAC, BroadcastMAC}
TooShort == -1             \* a length that does not even count its own header

ASSUME AddressAssumption ==
  /\ {LocalIP, LocalGate} \subseteq IPs /\ BroadcastIP \notin IPs \cup ZeroIPs
  /\ NoIP \in ZeroIPs /\ ZeroIPs \cap IPs = {}
  /\ {LocalIP, LocalGate} \subseteq LocalNet /\ LocalNet \subseteq IPs
  /\ LocalIP # LocalGate
  /\ CardMAC \in MACs /\ {NoMAC, BroadcastMAC} \cap MACs = {}
  /\ UDPPort \in Ports
\* What a packet says need not be so: its length is one thing and how much of it came
\* another, and every address may be claimed.  The type "none" is every other kind.
ASSUME PacketAssumption ==
  \A p \in Packets :
    /\ p.to \in HardwareAddresses /\ p.pages \in 1 .. PSTOP - PSTART
    /\ \/ /\ p.type = "udp"
          /\ p.from \in Addresses /\ p.port \in Ports /\ p.byte \in Bytes
          /\ p.len \in Nat \cup {TooShort} /\ p.size \in Nat
       \/ /\ p.type = "arp"
          /\ p.op \in {"request", "reply"}
          /\ p.sha \in HardwareAddresses /\ p.spa \in Addresses /\ p.dpa \in Addresses
       \/ p.type = "none"
ASSUME SizeAssumption ==
  /\ ARP_TABLE_LEN \in Nat \ {0, 1}
  /\ PSTART \in Nat \ {0} /\ PSTOP \in Nat /\ PSTOP > PSTART + 1
  /\ {RcvRoom, TmpRoom, SndRoom, ETH_CRC_LEN, MaxAsks, MaxArrivals} \subseteq Nat
  /\ ReadSizes \subseteq Nat
  /\ Sends \subseteq [dst : Addresses, size : Nat, byte : Bytes]

VARIABLES
  \* The driver.
  network_state, local_mac, arp_table, rcv_port, rcv_buff, snd_buff, rx_next,
  \* The card: command and status registers, whether its interrupts are enabled, whose
  \* bytes its DMA channel counts and where its address is (see below), whether it
  \* transmits, the frame in its memory, the ring, where the next packet goes and how far
  \* it may go.
  cr, isr, imr, dma, remote, transmitting, tx_page, ring, curr, bnry,
  \* For every level, where it is; what the handler has read from the card.
  pc, seen, current, info,
  \* The main thread: its call and how far it is, the entry that it sends to and where
  \* ne2k_send returns to, what it has received.
  request, asking, asks, hw, back, result, got,
  \* History: an interrupt came during the send, a packet came when the handler
  \* did not look any more, a frame went over a packet in the ring, a reply claimed
  \* broadcast's address or came before the table was set up, and how many packets came.
  disturbed, late, astray, claimed, arrivals

driver == <<network_state, local_mac, arp_table, rcv_port, rcv_buff>>
buffers == <<snd_buff, rx_next>>
channel == <<dma, remote>>
command == <<cr, channel>>
transmitter == <<transmitting, tx_page>>
receiver == <<ring, curr, bnry>>
handler == <<seen, current, info>>
sending == <<request, asking, asks, hw, back>>
program == <<sending, result, got>>
history == <<disturbed, late, astray, claimed, arrivals>>
card == <<imr, transmitter, receiver>>
vars == <<driver, buffers, command, isr, card, pc, handler, program, history>>
-----------------------------------------------------------------------------
Levels == {"main", "net"}
Entries == 0 .. ARP_TABLE_LEN - 1
Pages == PSTART .. PSTOP - 1

\* Where a hardware address is found: in an entry, or
Local == -1
Broadcast == -2
NotFound == -3

NoData == [from |-> NoIP, size |-> 0, data |-> <<>>]
NoFrame == [mac |-> NoMAC, type |-> "none", body |-> <<>>]
Mixed == [NoFrame EXCEPT !.type = "mixed"]     \* the start of one frame, the end of another
NoInfo == [next |-> 0, packet |-> [to |-> NoMAC, type |-> "none"]]
InfoRecords == [next : Pages \cup {0}, packet : Packets \cup {NoInfo.packet}]
NoRequest == [dst |-> NoIP, size |-> 0, byte |-> "none"]
Junk == "junk"

Least(a, b) == IF a <= b THEN a ELSE b
GoTo(l, where) == pc' = [pc EXCEPT ![l] = where]
MainRuns == pc["net"] = "out" /\ ~(imr /\ isr \cap {"RX", "TX"} # {})
Runs(l) == l = "main" => MainRuns
-----------------------------------------------------------------------------
(* Addresses. *)

get_effective_ip(ip) == IF ip \notin LocalNet \/ ip = LocalIP THEN LocalGate ELSE ip

EntriesOf(ip) == {i \in Entries : arp_table[i].ip = ip}
First(S) == CHOOSE i \in S : \A j \in S : i <= j

find_mac_in_table(ip) ==
  IF ip = LocalIP THEN Local
  ELSE IF EntriesOf(ip) # {} THEN First(EntriesOf(ip)) ELSE NotFound

MacAt(where) ==
  CASE where = Local -> local_mac
    [] where = Broadcast -> BroadcastMAC
    [] OTHER -> arp_table[where].mac
-----------------------------------------------------------------------------
(* Sending.  A packet is built in snd_buff from the inside out, and every   *)
(* header moves what is there up.                                           *)

\* The main thread sends to an entry of the table, or to all; the handler answers.
DestinationMAC(l) == IF l = "net" THEN info.packet.sha ELSE MacAt(hw)
EthType(l) == IF l = "net" \/ hw = Broadcast THEN "arp" ELSE "ip"
ReturnTo(l) == IF l = "net" THEN "next" ELSE back

\* The checksum is written behind what was sent, and udp_send leaves no room for it: what
\* the build puts behind snd_buff is rcv_buff, whose address it goes over, or tmp_buff,
\* where it does no harm.
Overruns(l) == l = "main" /\ EthType(l) = "ip" /\ Least(SndRoom, request.size) + ETH_CRC_LEN > SndRoom
ChecksumWritten(l) ==
  \/ UNCHANGED rcv_buff
  \/ Overruns(l) /\ rcv_buff' = [rcv_buff EXCEPT !.from = Junk]

\* eth_send adds its header to what snd_buff holds when it runs.
eth_send(l) ==
  /\ pc[l] = "eth" /\ Runs(l)
  /\ snd_buff' = [mac |-> DestinationMAC(l), type |-> EthType(l), body |-> snd_buff.body]
  /\ ChecksumWritten(l)
  /\ GoTo(l, "ready")
  /\ UNCHANGED <<network_state, local_mac, arp_table, rcv_port, rx_next, command, isr, card, handler,
                 program, history>>

\* ne2k_send.  The channel writes to remote: the memory of the frame ("tx"), behind a frame
\* there ("behind"), a place where it covers part of one ("shifted") or where the last
\* packet ended that was read ("ring").  It counts the bytes of one level, or none.

\* A mistake: the frame before is not waited for.
SendAtOnce(l) ==
  /\ pc[l] = "ready" /\ Runs(l)
  /\ GoTo(l, "select")
  /\ UNCHANGED <<driver, buffers, command, isr, card, handler, program, history>>

\* It waits until the last frame is out.
SendBegins(l) ==
  /\ pc[l] = "ready" /\ Runs(l) /\ cr # "transmit"
  /\ GoTo(l, "select")
  /\ UNCHANGED <<driver, buffers, command, isr, card, handler, program, history>>

\* A write to the command register that repeats a DMA command with nothing left to
\* transfer completes at once.
ne2k_page_select(status) == IF cr = "dma" /\ dma = "none" THEN status \cup {"RDC"} ELSE status
SelectPage(l) ==
  /\ pc[l] = "select" /\ Runs(l)
  /\ isr' = ne2k_page_select(isr)
  /\ GoTo(l, "low")
  /\ UNCHANGED <<driver, buffers, command, card, handler, program, history>>

\* The address is written in two halves.  If the handler comes between them, the lower
\* one is where it left the channel.
SetLow(l) ==
  /\ pc[l] = "low" /\ Runs(l)
  /\ remote' = "low"
  /\ GoTo(l, "high")
  /\ UNCHANGED <<driver, buffers, cr, dma, isr, card, handler, program, history>>
SetHigh(l) ==
  /\ pc[l] = "high" /\ Runs(l)
  /\ \/ remote = "low" /\ remote' = "tx"
     \/ remote = "ring" /\ remote' \in {"tx", "shifted", "behind"}
     \/ remote = "behind" /\ UNCHANGED remote
  /\ GoTo(l, "count")
  /\ UNCHANGED <<driver, buffers, cr, dma, isr, card, handler, program, history>>

\* The count.  (If the handler comes between its halves it is as if it came after them.)
SetCount(l) ==
  /\ pc[l] = "count" /\ Runs(l)
  /\ dma' = l
  /\ GoTo(l, "start")
  /\ UNCHANGED <<driver, buffers, cr, remote, isr, card, handler, program, history>>

StartWrite(l) ==
  /\ pc[l] = "start" /\ Runs(l)
  /\ cr' = "dma"
  /\ isr' = IF dma = "none" THEN isr \cup {"RDC"} ELSE isr
  /\ GoTo(l, "load")
  /\ UNCHANGED <<driver, buffers, channel, card, handler, program, history>>

\* Bytes go where the channel writes, and are lost if it counts none any more.  Behind a
\* packet that was read the next may wait, and may be reached or not.
Written(l, frame) ==
  IF dma # l THEN UNCHANGED <<tx_page, astray>>
  ELSE /\ tx_page' = CASE remote = "tx" -> frame
                       [] remote = "shifted" -> Mixed
                       [] OTHER -> tx_page
       /\ astray' \in {astray} \cup (IF remote = "ring" /\ rx_next # curr THEN {TRUE} ELSE {})

\* The frame's first bytes, and the rest.
LoadBegins(l) ==
  /\ pc[l] = "load" /\ Runs(l)
  /\ Written(l, Mixed)
  /\ GoTo(l, "rest")
  /\ UNCHANGED <<driver, buffers, command, isr, imr, transmitting, receiver, handler, program, disturbed,
                 late, claimed, arrivals>>
LoadFrame(l) ==
  /\ pc[l] = "rest" /\ Runs(l)
  /\ Written(l, snd_buff)
  /\ \/ /\ dma = l
        /\ dma' = "none" /\ remote' = IF remote = "ring" THEN "ring" ELSE "behind"
        /\ isr' = isr \cup {"RDC"}
     \/ dma # l /\ UNCHANGED <<channel, isr>>
  /\ GoTo(l, "loaded")
  /\ UNCHANGED <<driver, buffers, cr, imr, transmitting, receiver, handler, program, disturbed, late,
                 claimed, arrivals>>

LoadCompleted(l) ==
  /\ pc[l] = "loaded" /\ Runs(l) /\ "RDC" \in isr
  /\ isr' = isr \ {"RDC"}
  /\ GoTo(l, "transmit")
  /\ UNCHANGED <<driver, buffers, command, card, handler, program, history>>

Transmit(l) ==
  /\ pc[l] = "transmit" /\ Runs(l)
  /\ cr' = "transmit" /\ transmitting' = TRUE
  /\ GoTo(l, ReturnTo(l))
  /\ UNCHANGED <<driver, buffers, channel, isr, imr, tx_page, receiver, handler, program, history>>

Send(l) == \/ eth_send(l) \/ SendBegins(l) \/ SelectPage(l) \/ SetLow(l) \/ SetHigh(l) \/ SetCount(l)
           \/ StartWrite(l) \/ LoadBegins(l) \/ LoadFrame(l) \/ LoadCompleted(l) \/ Transmit(l)

ArpBody(op, dha, dpa) == [op |-> op, sha |-> local_mac, spa |-> LocalIP, dha |-> dha, dpa |-> dpa]
-----------------------------------------------------------------------------
(* The calls of programs. *)

io_net_send(s) ==
  /\ pc["main"] = "idle" /\ MainRuns
  /\ \/ /\ network_state = "enabled"
        /\ request' = s /\ asking' = s.dst /\ asks' = 0
        /\ GoTo("main", "provide")
        /\ result' = "none"
     \/ /\ network_state # "enabled"
        /\ result' = "not_available"
        /\ UNCHANGED <<pc, request, asking, asks>>
  /\ UNCHANGED <<driver, buffers, command, isr, card, handler, hw, back, got, history>>

\* provide_mac_address, for the destination and then for the gate.
Known == find_mac_in_table(get_effective_ip(asking)) # NotFound
Provided ==
  /\ pc["main"] = "provide" /\ MainRuns /\ Known
  /\ \/ /\ asking = request.dst /\ request.dst # LocalGate
        /\ asking' = LocalGate /\ asks' = 0
        /\ UNCHANGED pc
     \/ /\ asking = LocalGate
        /\ GoTo("main", "build")
        /\ UNCHANGED <<asking, asks>>
  /\ UNCHANGED <<driver, buffers, command, isr, card, handler, request, hw, back, result, got, history>>

\* A new frame is undisturbed unless the one before is still being sent.
FrameBegins == /\ disturbed' = (disturbed /\ transmitting)
               /\ UNCHANGED <<late, astray, claimed, arrivals>>
arp_request ==
  /\ pc["main"] = "provide" /\ MainRuns /\ ~Known /\ asks < MaxAsks
  /\ snd_buff' = [NoFrame EXCEPT !.body = ArpBody("request", BroadcastMAC, get_effective_ip(asking))]
  /\ hw' = Broadcast /\ back' = "wait"
  /\ GoTo("main", "eth")
  /\ FrameBegins
  /\ UNCHANGED <<driver, rx_next, command, isr, card, handler, request, asking, asks, result, got>>

\* A mistake: the requests are not counted.
WaitedAgain ==
  /\ pc["main"] = "wait" /\ MainRuns
  /\ GoTo("main", "provide")
  /\ UNCHANGED <<driver, buffers, command, isr, card, handler, program, history>>

\* wait(1000) is over.
Waited ==
  /\ pc["main"] = "wait" /\ MainRuns
  /\ asks' = asks + 1
  /\ GoTo("main", "provide")
  /\ UNCHANGED <<driver, buffers, command, isr, card, handler, request, asking, hw, back,
                 result, got, history>>

\* A send returns; its variables are gone.
Return(code) ==
  /\ result' = code
  /\ request' = NoRequest /\ asking' = NoIP /\ asks' = 0 /\ hw' = NotFound /\ back' = "sent"
  /\ GoTo("main", "idle")
NotProvided ==
  /\ pc["main"] = "provide" /\ MainRuns /\ ~Known /\ asks >= MaxAsks
  /\ Return("not_found")
  /\ UNCHANGED <<driver, buffers, command, isr, card, handler, got, history>>

\* A mistake: the length is sent as it was given.
udp_send_unclamped ==
  /\ pc["main"] = "build" /\ MainRuns
  /\ snd_buff' = [NoFrame EXCEPT !.body = request]
  /\ GoTo("main", "ip")
  /\ FrameBegins
  /\ UNCHANGED <<driver, rx_next, command, isr, card, handler, program>>

\* udp_send builds the packet in snd_buff.
udp_send ==
  /\ pc["main"] = "build" /\ MainRuns
  /\ snd_buff' = [NoFrame EXCEPT !.body = [request EXCEPT !.size = Least(SndRoom, @)]]
  /\ GoTo("main", "ip")
  /\ FrameBegins
  /\ UNCHANGED <<driver, rx_next, command, isr, card, handler, program>>

\* ip_send looks for the entry again: it may be gone by now.
ip_send ==
  /\ pc["main"] = "ip" /\ MainRuns
  /\ LET where == find_mac_in_table(get_effective_ip(request.dst)) IN
       \/ /\ where = NotFound
          /\ Return("io")
       \/ /\ where # NotFound
          /\ hw' = where /\ back' = "sent"
          /\ GoTo("main", "eth")
          /\ UNCHANGED <<request, asking, asks, result>>
  /\ UNCHANGED <<driver, buffers, command, isr, card, handler, got, history>>

Sent ==
  /\ pc["main"] = "sent" /\ MainRuns
  /\ Return("ok")
  /\ UNCHANGED <<driver, buffers, command, isr, card, handler, got, history>>

\* A mistake: the buffer is marked empty before its data is copied.
RecvReleasesFirst ==
  /\ pc["main"] = "idle" /\ MainRuns
  /\ network_state = "enabled" /\ rcv_buff.size > 0
  /\ got' = [NoData EXCEPT !.from = rcv_buff.from]
  /\ rcv_buff' = [rcv_buff EXCEPT !.size = 0]
  /\ GoTo("main", "copy")
  /\ UNCHANGED <<network_state, local_mac, arp_table, rcv_port, buffers, command, isr, card, handler,
                 sending, result, history>>

\* io_net_recv copies the address, then the data, and then marks the buffer empty.
RecvBegins ==
  /\ pc["main"] = "idle" /\ MainRuns
  /\ network_state = "enabled" /\ rcv_buff.size > 0
  /\ got' = [NoData EXCEPT !.from = rcv_buff.from]
  /\ GoTo("main", "copy")
  /\ UNCHANGED <<driver, buffers, command, isr, card, handler, sending, result, history>>

Leading(n) == [i \in 1 .. n |-> rcv_buff.data[i]]
RecvCopies(n) ==
  /\ pc["main"] = "copy" /\ MainRuns
  /\ got' = [got EXCEPT !.size = Least(rcv_buff.size, n), !.data = Leading(Least(rcv_buff.size, n))]
  /\ GoTo("main", "release")
  /\ UNCHANGED <<driver, buffers, command, isr, card, handler, sending, result, history>>

Empty == /\ rcv_buff' = [rcv_buff EXCEPT !.size = 0]
         /\ UNCHANGED <<network_state, local_mac, arp_table, rcv_port>>
RecvReleases ==
  /\ pc["main"] = "release" /\ MainRuns
  /\ Empty
  /\ got' = NoData
  /\ GoTo("main", "idle")
  /\ UNCHANGED <<buffers, command, isr, card, handler, sending, result, history>>

\* io_net_recv_set_port empties the buffer and then changes the port.
SetPortBegins ==
  /\ pc["main"] = "idle" /\ MainRuns /\ Ports # {rcv_port}
  /\ Empty
  /\ GoTo("main", "port")
  /\ UNCHANGED <<buffers, command, isr, card, handler, program, history>>

SetPortEnds(port) ==
  /\ pc["main"] = "port" /\ MainRuns
  /\ port # rcv_port /\ rcv_port' = port
  /\ GoTo("main", "idle")
  /\ UNCHANGED <<network_state, local_mac, arp_table, rcv_buff, buffers, command, isr, card, handler,
                 program, history>>
-----------------------------------------------------------------------------
(* io_net_init. *)

NoCard ==
  /\ pc["main"] = "boot"
  /\ network_state' = "disabled"
  /\ GoTo("main", "idle")
  /\ UNCHANGED <<local_mac, arp_table, rcv_port, rcv_buff, buffers, command, isr, card, handler,
                 program, history>>

\* The card is reset and set up, and its interrupts come on.
CardFound ==
  /\ pc["main"] = "boot"
  /\ network_state' = "enabled"
  /\ local_mac' = CardMAC
  /\ arp_table' = [i \in Entries |-> [ip |-> NoIP, mac |-> NoMAC]]
  /\ rcv_buff' = NoData
  /\ bnry' = rx_next - 1 /\ curr' = rx_next
  /\ isr' = {} /\ cr' = "started" /\ imr' = TRUE
  /\ GoTo("main", "broadcast")
  /\ UNCHANGED <<rcv_port, buffers, channel, transmitter, ring, handler, program, history>>

\* The table's first entry is written after that, first its hardware address.
AddBroadcastMAC ==
  /\ pc["main"] = "broadcast" /\ MainRuns
  /\ arp_table' = [arp_table EXCEPT ![0].mac = BroadcastMAC]
  /\ GoTo("main", "broadcast_ip")
  /\ UNCHANGED <<network_state, local_mac, rcv_port, rcv_buff, buffers, command, isr, card, handler,
                 program, history>>
AddBroadcastIP ==
  /\ pc["main"] = "broadcast_ip" /\ MainRuns
  /\ arp_table' = [arp_table EXCEPT ![0].ip = BroadcastIP]
  /\ GoTo("main", "idle")
  /\ UNCHANGED <<network_state, local_mac, rcv_port, rcv_buff, buffers, command, isr, card, handler,
                 program, history>>
-----------------------------------------------------------------------------
(* net_handler. *)

SendPlaces == {"eth", "ready", "select", "low", "high", "count", "start", "load", "rest", "loaded", "transmit"}

\* It comes between two steps of the main thread.
Interrupt ==
  /\ imr /\ isr \cap {"RX", "TX"} # {} /\ pc["net"] = "out"
  /\ GoTo("net", "isr")
  /\ disturbed' = (disturbed \/ transmitting \/ pc["main"] \in {"ip"} \cup SendPlaces)
  /\ UNCHANGED <<driver, buffers, command, isr, card, handler, program, late, astray, claimed, arrivals>>

\* A mistake: the bits are cleared when they are read.
ReadAndClear ==
  /\ pc["net"] = "isr"
  /\ isr' = {} /\ seen' = {}
  /\ GoTo("net", IF isr = {} THEN "out" ELSE IF "RX" \in isr THEN "look" ELSE "clear")
  /\ UNCHANGED <<driver, buffers, command, card, current, info, program, history>>

ReadStatus ==
  /\ pc["net"] = "isr"
  /\ seen' = isr
  /\ \/ /\ isr # {}
        /\ GoTo("net", IF "RX" \in isr THEN "look" ELSE "clear")
        /\ UNCHANGED <<current, info>>
     \/ /\ isr = {}
        /\ current' = 0 /\ info' = NoInfo
        /\ GoTo("net", "out")
  /\ UNCHANGED <<driver, buffers, command, isr, card, program, history>>

ClearStatus ==
  /\ pc["net"] = "clear"
  /\ isr' = isr \ seen
  /\ GoTo("net", "isr")
  /\ UNCHANGED <<driver, buffers, command, card, handler, program, history>>

\* ne2k_receive looks at the ring, takes the packet at rx_next, and looks again.
Look ==
  /\ pc["net"] = "look"
  /\ current' = curr
  /\ isr' = ne2k_page_select(isr)
  /\ late' = FALSE
  /\ GoTo("net", IF bnry # curr THEN "take" ELSE "clear")
  /\ UNCHANGED <<driver, buffers, command, card, seen, info, program, disturbed, astray, claimed, arrivals>>

\* A mistake: the ring's start is forgotten.
PageLess(page) == page - 1
PageBefore(page) == IF page = PSTART THEN PSTOP - 1 ELSE page - 1

\* Header and data come by DMA.  The command register does not show a transmission
\* any more.  Behind a packet that a frame went over, anything may be read.
Take ==
  /\ pc["net"] = "take"
  /\ info' \in IF astray THEN InfoRecords ELSE {ring[rx_next]}
  /\ LET next == info'.next IN
       IF next # 0
       THEN rx_next' = next /\ bnry' = PageBefore(next)
       ELSE UNCHANGED <<rx_next, bnry>>
  /\ isr' = isr \ {"RDC"} /\ cr' = "dma" /\ dma' = "none" /\ remote' = "ring"
  /\ disturbed' = (disturbed \/ transmitting)
  /\ GoTo("net", "relook")
  /\ UNCHANGED <<driver, snd_buff, imr, transmitter, ring, curr, seen, current, program, late, astray, claimed, arrivals>>

LookAgain ==
  /\ pc["net"] = "relook"
  /\ current' = curr
  /\ isr' = ne2k_page_select(isr) \ {"RDC"}
  /\ late' = FALSE
  /\ GoTo("net", "process")
  /\ UNCHANGED <<driver, buffers, command, card, seen, info, program, disturbed, astray, claimed, arrivals>>

Accepted(p) == p.to \in {local_mac, arp_table[0].mac}

\* A packet that is not for this machine, or that no rule below takes.
Ignored(p) == \/ ~Accepted(p)
              \/ p.type = "udp" /\ (rcv_buff.size > 0 \/ p.port # rcv_port)
              \/ p.type = "arp" /\ p.dpa # LocalIP
              \/ p.type = "none"
Ignore ==
  /\ pc["net"] = "process" /\ Ignored(info.packet)
  /\ GoTo("net", "next")
  /\ UNCHANGED <<driver, buffers, command, isr, card, handler, program, history>>

\* The length is what the packet says.  Bytes that did not come are those of packets
\* before, and those that tmp_buff has no room for are whatever is behind it.
StoredSize(p) == IF p.len = TooShort THEN RcvRoom ELSE Least(p.len, RcvRoom)
Stored(p) == [from |-> p.from, size |-> StoredSize(p),
              data |-> [i \in 1 .. StoredSize(p) |-> IF i <= Least(p.size, TmpRoom) THEN p.byte ELSE Junk]]
ip_recv_process ==
  /\ pc["net"] = "process" /\ ~Ignored(info.packet) /\ info.packet.type = "udp"
  /\ rcv_buff' = Stored(info.packet)
  /\ GoTo("net", "next")
  /\ UNCHANGED <<network_state, local_mac, arp_table, rcv_port, buffers, command, isr, card, handler,
                 program, history>>

\* The first free entry, or else the last one.
FreeEntry == First({i \in Entries : arp_table[i].ip \in ZeroIPs \/ i = ARP_TABLE_LEN - 1})

\* A mistake: an address that is in the table is added again.
LearnNew(ip, mac) ==
  /\ arp_table' = [arp_table EXCEPT ![FreeEntry] = [ip |-> ip, mac |-> mac]]
  /\ UNCHANGED local_mac

Learn(ip, mac) ==
  LET where == find_mac_in_table(ip) IN
    \/ /\ where = Local
       /\ local_mac' = mac
       /\ UNCHANGED arp_table
    \/ /\ where # Local
       /\ arp_table' = [arp_table EXCEPT ![IF where = NotFound THEN FreeEntry ELSE where] =
                          [ip |-> ip, mac |-> mac]]
       /\ UNCHANGED local_mac

arp_recv_process ==
  /\ pc["net"] = "process" /\ ~Ignored(info.packet) /\ info.packet.type = "arp"
  /\ info.packet.op = "reply"
  /\ Learn(info.packet.spa, info.packet.sha)
  /\ claimed' = (claimed \/ info.packet.spa = BroadcastIP \/ pc["main"] \in {"broadcast", "broadcast_ip"})
  /\ GoTo("net", "next")
  /\ UNCHANGED <<network_state, rcv_port, rcv_buff, buffers, command, isr, card, handler, program,
                 disturbed, late, astray, arrivals>>

\* The answer is built in the main thread's send buffer.
arp_reply ==
  /\ pc["net"] = "process" /\ ~Ignored(info.packet) /\ info.packet.type = "arp"
  /\ info.packet.op = "request"
  /\ snd_buff' = [NoFrame EXCEPT !.body = ArpBody("reply", info.packet.sha, info.packet.spa)]
  /\ GoTo("net", "eth")
  /\ UNCHANGED <<driver, rx_next, command, isr, card, handler, program, history>>

\* A mistake: one packet is taken for every interrupt.
TakeOne ==
  /\ pc["net"] = "next"
  /\ GoTo("net", "clear")
  /\ UNCHANGED <<driver, buffers, command, isr, card, handler, program, history>>

TakeNext ==
  /\ pc["net"] = "next"
  /\ GoTo("net", IF info.next \in {current, 0} \/ bnry = current THEN "clear" ELSE "take")
  /\ UNCHANGED <<driver, buffers, command, isr, card, handler, program, history>>
-----------------------------------------------------------------------------
(* The card and the network. *)

PagesOn(page, n) == IF page + n < PSTOP THEN page + n ELSE page + n - (PSTOP - PSTART)
FreePages == IF curr < bnry THEN bnry - curr ELSE PSTOP - PSTART - (curr - bnry)

\* The handler is behind its last look at the ring and will clear the bit that a
\* packet sets now.
LooksNoMore == "RX" \in seen /\ pc["net"] \notin {"out", "isr", "look", "take", "relook"}

\* A packet for which there is no room is dropped.
Arrive(p) ==
  /\ imr /\ arrivals < MaxArrivals /\ p.pages < FreePages
  /\ ring' = [ring EXCEPT ![curr] = [next |-> PagesOn(curr, p.pages), packet |-> p]]
  /\ curr' = PagesOn(curr, p.pages)
  /\ isr' = isr \cup {"RX"}
  /\ arrivals' = arrivals + 1
  /\ late' = (late \/ LooksNoMore)
  /\ UNCHANGED <<driver, buffers, command, imr, transmitter, bnry, pc, handler, program, disturbed,
                 astray, claimed>>

TransmitDone ==
  /\ transmitting
  /\ transmitting' = FALSE
  /\ cr' = IF cr = "transmit" THEN "started" ELSE cr
  /\ isr' = isr \cup {"TX"}
  /\ UNCHANGED <<driver, buffers, channel, imr, tx_page, receiver, pc, handler, program, history>>
-----------------------------------------------------------------------------
Init ==
  /\ network_state = "uninitialized" /\ local_mac = NoMAC
  /\ arp_table = [i \in Entries |-> [ip |-> NoIP, mac |-> NoMAC]]
  /\ rcv_port = UDPPort /\ rcv_buff = NoData
  /\ snd_buff = NoFrame /\ rx_next = PSTART + 1
  /\ cr = "idle" /\ isr = {} /\ imr = FALSE /\ dma = "none" /\ remote = "behind"
  /\ transmitting = FALSE /\ tx_page = NoFrame
  /\ ring = [page \in Pages |-> NoInfo] /\ curr = PSTART /\ bnry = PSTART
  /\ pc = [l \in Levels |-> IF l = "main" THEN "boot" ELSE "out"]
  /\ seen = {} /\ current = 0 /\ info = NoInfo
  /\ request = NoRequest /\ asking = NoIP /\ asks = 0 /\ hw = NotFound /\ back = "sent"
  /\ result = "none" /\ got = NoData
  /\ disturbed = FALSE /\ late = FALSE /\ astray = FALSE /\ claimed = FALSE /\ arrivals = 0

\* Whether a program makes a call, and whether packets arrive, is up to others.
Call == \/ \E s \in Sends : io_net_send(s)
        \/ RecvBegins \/ SetPortBegins
Main == \/ NoCard \/ CardFound \/ AddBroadcastMAC \/ AddBroadcastIP
        \/ Provided \/ NotProvided \/ arp_request \/ Waited \/ udp_send \/ ip_send \/ Send("main") \/ Sent
        \/ \E n \in ReadSizes : RecvCopies(n)
        \/ RecvReleases
        \/ \E port \in Ports : SetPortEnds(port)
Handler == \/ ReadStatus \/ Look \/ Take \/ LookAgain
           \/ Ignore \/ ip_recv_process \/ arp_recv_process \/ arp_reply
           \/ Send("net") \/ TakeNext \/ ClearStatus
Card == Interrupt \/ TransmitDone
Next == Call \/ Main \/ Handler \/ Card \/ \E p \in Packets : Arrive(p)

Spec == Init /\ [][Next]_vars

\* The processor goes on with what it has begun, also with wait, which the timer ends;
\* interrupts are delivered, and transmissions end.
FairSpec == Spec /\ WF_vars(Main) /\ WF_vars(Handler) /\ WF_vars(Interrupt) /\ WF_vars(TransmitDone)
-----------------------------------------------------------------------------
MainPlaces == SendPlaces \cup
  {"boot", "broadcast", "broadcast_ip", "idle", "provide", "wait", "build", "ip", "sent", "copy",
   "release", "port"}
NetPlaces == SendPlaces \cup {"out", "isr", "look", "take", "relook", "process", "next", "clear"}

\* The type of the state.
TypeOK ==
  /\ network_state \in {"uninitialized", "disabled", "enabled"}
  /\ local_mac \in HardwareAddresses
  /\ arp_table \in [Entries -> [ip : Addresses, mac : HardwareAddresses]]
  /\ rcv_port \in Ports
  /\ rcv_buff.size \in 0 .. RcvRoom
  /\ {rx_next, curr, bnry} \subseteq Pages
  /\ cr \in {"idle", "started", "dma", "transmit"} /\ dma \in Levels \cup {"none"}
  /\ remote \in {"tx", "low", "shifted", "behind", "ring"}
  /\ {isr, seen} \subseteq SUBSET {"RX", "TX", "RDC"}
  /\ {imr, transmitting, disturbed, late, astray, claimed} \subseteq BOOLEAN
  /\ ring \in [Pages -> InfoRecords] /\ info \in InfoRecords
  /\ pc["main"] \in MainPlaces /\ pc["net"] \in NetPlaces /\ DOMAIN pc = Levels
  /\ hw \in Entries \cup {Local, Broadcast, NotFound}
  /\ asks \in 0 .. MaxAsks /\ arrivals \in 0 .. MaxArrivals

\* The ring is read only when it holds a packet, however interrupts, status bits
\* and packets interleave (net.c:778-782: bits are cleared after they were served,
\* so that one that is set means that something is there).  A frame that went over the
\* packets in the ring (WaitingStay) ends it.
NeverReadsEmptyRing == pc["net"] = "take" /\ ~astray => rx_next # curr

\* net.h "Get and remove from buffer received data": address, length and data are those
\* of one packet, also if packets arrive while it is copied.  The data is as much as came
\* of it and tmp_buff holds: what its length says beyond that is not (net.c:622-624,
\* 707-709).  The address is lost to a checksum that is written over it (SenderIsKept).
ReceivedWhole ==
  got.size > 0 =>
    \E p \in Packets : /\ p.type = "udp" /\ got.from \in {p.from, Junk}
                       /\ got.size <= StoredSize(p)
                       /\ \A i \in 1 .. got.size : i <= Least(p.size, TmpRoom) => got.data[i] = p.byte

\* net.c:229 "ARP table to hold IP-MAC entries": used entries come first, an address has
\* one entry, and the first is broadcast's once the network is up.  A reply that claims
\* broadcast's address gets it, or a second entry of it; and one that comes before
\* io_net_init has written the first entry may leave its hardware address there
\* (BroadcastIsFirst).
ArpTableSound ==
  /\ \A i, j \in Entries :
       i < j /\ arp_table[j].ip \notin ZeroIPs =>
         /\ arp_table[i].ip \notin ZeroIPs
         /\ arp_table[i].ip = arp_table[j].ip => arp_table[i].ip = BroadcastIP /\ claimed
  /\ network_state = "enabled" /\ pc["main"] \notin {"broadcast", "broadcast_ip"} =>
       arp_table[0].ip = BroadcastIP /\ (arp_table[0].mac = BroadcastMAC \/ claimed)

\* What the main thread is sending, as its caller meant it; the handler's answer.
NextHop == IF request.dst \in LocalNet \ {LocalIP} THEN request.dst ELSE LocalGate
IsFor(frame, ip) == \E i \in Entries : arp_table[i] = [ip |-> ip, mac |-> frame.mac]
FrameMeant(frame) ==
  \/ /\ frame.type = "arp" /\ frame.mac = BroadcastMAC /\ back = "wait"
     /\ frame.body.op = "request" /\ frame.body.dpa \in {NextHop, LocalGate}
  \/ /\ frame.type = "ip" /\ IsFor(frame, NextHop) /\ back = "sent"
     /\ frame.body = [request EXCEPT !.size = Least(SndRoom, @)]

\* net.h "Send buffer to dst": unless the handler ran since the frame was begun, what is
\* transmitted is the frame that was built, for the next hop, of as many bytes as udp_send
\* allows.  The handler's answers go to who asked.
FramesAreRight ==
  /\ pc["main"] = "transmit" /\ ~disturbed => FrameMeant(tx_page)
  /\ pc["net"] = "transmit" =>
       tx_page = [mac |-> info.packet.sha, type |-> "arp",
                  body |-> ArpBody("reply", info.packet.sha, info.packet.spa)]

\* A frame stays in the card's memory until it is out (net.c:397), unless the handler
\* took a packet meanwhile, which hides the transmission.
FramesStay == [][transmitting /\ transmitting' /\ ~disturbed' => tx_page' = tx_page]_vars

\* Every call of a program ends, unless the handler ran while it was sending: then
\* net.c:415 may wait for a bit that net.c:782 has cleared.  (Nor does the handler, if what
\* it takes for packets leads it in a circle.)
CallsEnd == pc["main"] \notin {"boot", "idle"} ~> (pc["main"] = "idle" \/ disturbed \/ astray)

\* Every packet is taken, unless it came between the handler's last look and
\* net.c:782: it then waits for the next one.
PacketsAreTaken == imr /\ rx_next # curr ~> (rx_next = curr \/ late \/ astray)

\* What the calls are said to do and, disturbed by the handler, do not (MCNet_*.cfg).

\* net.h:12 "Send buffer to dst. Return NO_ERROR on success": what is transmitted by a send
\* that will return NO_ERROR is the frame of its request, also if the handler ran.
SentIsMeant == pc["main"] = "transmit" => FrameMeant(tx_page)

\* net.c:414 "Wait until operation completed", net.h:12 "Return NO_ERROR on success": every
\* call of a program ends, whatever the handler does meanwhile.
CallsAlwaysEnd == pc["main"] \notin {"boot", "idle"} ~> pc["main"] = "idle"

\* net.c:678 "Maybe more than one packet is in buffer / Retrieve all of them": a packet in
\* the ring stays as it came until the handler takes it.
WaitingStay == ~astray

\* net.h:19-20 "Get and remove from buffer received data. / src and buff are filled by the
\* function": the sender is one that a packet came from.
SenderIsKept == got.size > 0 => got.from # Junk

\* net.c:897 "Add broadcast address to translation table": it is there, if no reply claims it.
BroadcastIsFirst ==
  network_state = "enabled" /\ pc["main"] \notin {"broadcast", "broadcast_ip"} =>
    arp_table[0] = [ip |-> BroadcastIP, mac |-> BroadcastMAC]
=============================================================================
