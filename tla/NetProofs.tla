----------------------------- MODULE NetProofs -----------------------------
(***************************************************************************)
(* For any table, ring, buffers, packets and calls: the driver's state has  *)
(* its type, the ring is read only when it holds a packet (until a frame    *)
(* goes over it), what a program receives is one packet's, as far as that   *)
(* came and its address was not lost, the ARP table stays sound, but for    *)
(* broadcast's address if a reply claims it, and frames that no interrupt   *)
(* disturbs are what was to be sent.                                        *)
(***************************************************************************)
EXTENDS Net, LeastElement

-----------------------------------------------------------------------------
(* The steps of a send, and of the table's first entry. *)

AddBroadcast == AddBroadcastMAC \/ AddBroadcastIP

\* A send goes from one of its places to the next, or returns.
LEMMA SendMoves ==
  ASSUME NEW l \in Levels, Send(l), DOMAIN pc = Levels
  PROVE  /\ pc[l] \in SendPlaces /\ Runs(l)
         /\ pc'[l] \in SendPlaces \cup {ReturnTo(l)}
         /\ pc' = [pc EXCEPT ![l] = pc'[l]]
<1> USE DEF GoTo, SendPlaces
<1>1. CASE eth_send(l) \/ SendBegins(l) \/ SelectPage(l) \/ SetLow(l) \/ SetHigh(l)
  BY <1>1 DEF eth_send, SendBegins, SelectPage, SetLow, SetHigh
<1>2. CASE SetCount(l) \/ StartWrite(l) \/ LoadBegins(l) \/ LoadFrame(l) \/ LoadCompleted(l) \/ Transmit(l)
  BY <1>2 DEF SetCount, StartWrite, LoadBegins, LoadFrame, LoadCompleted, Transmit
<1> QED BY <1>1, <1>2 DEF Send

\* What no step of a send changes.
LEMMA SendKeeps ==
  ASSUME NEW l \in Levels, Send(l)
  PROVE  /\ UNCHANGED <<network_state, local_mac, arp_table, rcv_port, rx_next, imr, ring, curr, bnry>>
         /\ UNCHANGED <<seen, current, info>>
         /\ UNCHANGED <<request, asking, asks, hw, back, result, got>>
         /\ UNCHANGED <<disturbed, late, claimed, arrivals>>
         /\ "RX" \in isr' <=> "RX" \in isr
         /\ rcv_buff' \in {rcv_buff, [rcv_buff EXCEPT !.from = Junk]}
         /\ rcv_buff' # rcv_buff => l = "main" /\ pc[l] = "eth"
<1> USE DEF driver, buffers, handler, program, sending, history, card, transmitter, receiver
<1>1. CASE eth_send(l)
  BY <1>1 DEF eth_send, ChecksumWritten, Overruns
<1>2. CASE SendBegins(l) \/ SelectPage(l) \/ SetLow(l) \/ SetHigh(l)
  BY <1>2 DEF SendBegins, SelectPage, SetLow, SetHigh, ne2k_page_select
<1>3. CASE SetCount(l) \/ StartWrite(l)
  BY <1>3 DEF SetCount, StartWrite
<1>4. CASE LoadBegins(l) \/ LoadFrame(l)
  BY <1>4 DEF LoadBegins, LoadFrame
<1>5. CASE LoadCompleted(l) \/ Transmit(l)
  BY <1>5 DEF LoadCompleted, Transmit
<1> QED BY <1>1, <1>2, <1>3, <1>4, <1>5 DEF Send

-----------------------------------------------------------------------------
(* Entries of the table. *)

\* A set of numbers up to n has a first one.
LEMMA FirstIsLeast ==
  ASSUME NEW n \in Nat, NEW S \in SUBSET (0 .. n), S # {}
  PROVE  First(S) \in S /\ \A j \in S : First(S) <= j
BY LeastExists DEF First

\* What a search of the table finds.
LEMMA Found ==
  ASSUME NEW ip, ip # LocalIP, find_mac_in_table(ip) # NotFound
  PROVE  /\ find_mac_in_table(ip) \in Entries
         /\ arp_table[find_mac_in_table(ip)].ip = ip
<1>1. EntriesOf(ip) # {} /\ find_mac_in_table(ip) = First(EntriesOf(ip))
  BY DEF find_mac_in_table
<1>2. EntriesOf(ip) \in SUBSET (0 .. ARP_TABLE_LEN - 1) /\ ARP_TABLE_LEN - 1 \in Nat
  BY SizeAssumption DEF EntriesOf, Entries
<1>3. First(EntriesOf(ip)) \in EntriesOf(ip)
  BY <1>1, <1>2, FirstIsLeast
<1> QED BY <1>1, <1>3 DEF EntriesOf

\* What find_mac_in_table may answer.
LEMMA FindType ==
  ASSUME NEW ip
  PROVE  find_mac_in_table(ip) \in Entries \cup {Local, NotFound}
  BY Found DEF find_mac_in_table

\* Where a new address goes: entries before it are used, and it is free or the last one.
LEMMA FreeIsFirst ==
  /\ FreeEntry \in Entries
  /\ arp_table[FreeEntry].ip \in ZeroIPs \/ FreeEntry = ARP_TABLE_LEN - 1
  /\ \A i \in Entries : i < FreeEntry => arp_table[i].ip \notin ZeroIPs
<1> DEFINE S == {i \in Entries : arp_table[i].ip \in ZeroIPs \/ i = ARP_TABLE_LEN - 1}
<1>1. S \in SUBSET (0 .. ARP_TABLE_LEN - 1) /\ ARP_TABLE_LEN - 1 \in Nat /\ ARP_TABLE_LEN - 1 \in S
  BY SizeAssumption DEF Entries
<1>2. First(S) \in S /\ \A j \in S : First(S) <= j
  <2> HIDE DEF S
  <2> QED BY <1>1, FirstIsLeast
<1>3. FreeEntry = First(S)
  BY DEF FreeEntry
<1>4. \A i \in Entries : i < First(S) => arp_table[i].ip \notin ZeroIPs
  <2>1. First(S) \in Int /\ \A i \in Entries : i \in Int
    BY <1>2, SizeAssumption DEF Entries
  <2>2. \A i \in Entries : i < First(S) => i \notin S
    BY <1>2, <2>1
  <2> QED BY <2>2
<1> QED BY <1>2, <1>3, <1>4

-----------------------------------------------------------------------------
(* The type invariant. *)

\* Where the levels are; a request that is counted next is not the last one.
Places ==
  /\ pc \in [Levels -> MainPlaces \cup NetPlaces]
  /\ pc["main"] \in MainPlaces /\ pc["net"] \in NetPlaces
  /\ back \in {"wait", "sent"}
  /\ asks \in 0 .. MaxAsks
  /\ pc["main"] = "wait" \/ (back = "wait" /\ pc["main"] \in SendPlaces) => asks < MaxAsks

\* The bits and flags.
Flags ==
  /\ network_state \in {"uninitialized", "disabled", "enabled"}
  /\ cr \in {"idle", "started", "dma", "transmit"} /\ dma \in Levels \cup {"none"}
  /\ isr \in SUBSET {"RX", "TX", "RDC"} /\ seen \in SUBSET {"RX", "TX", "RDC"}
  /\ remote \in {"tx", "low", "shifted", "behind", "ring"}
  /\ imr \in BOOLEAN /\ transmitting \in BOOLEAN /\ disturbed \in BOOLEAN /\ late \in BOOLEAN
  /\ astray \in BOOLEAN /\ claimed \in BOOLEAN
  /\ arrivals \in 0 .. MaxArrivals

\* The ring, and that it is as at the start until interrupts come on.
RingType ==
  /\ rx_next \in Pages /\ curr \in Pages /\ bnry \in Pages
  /\ ring \in [Pages -> InfoRecords] /\ info \in InfoRecords
  /\ pc["main"] = "boot" => ~imr /\ ~transmitting
  /\ ~imr => pc["net"] = "out" /\ rx_next = PSTART + 1

\* The addresses that are known.
TableType ==
  /\ local_mac \in HardwareAddresses
  /\ arp_table \in [Entries -> [ip : Addresses, mac : HardwareAddresses]]
  /\ rcv_port \in Ports
  /\ hw \in Entries \cup {Local, Broadcast, NotFound}

\* The received packet.  Its address may be lost.
Holds(p) ==
  /\ rcv_buff.from \in {p.from, Junk}
  /\ rcv_buff.size = StoredSize(p) /\ rcv_buff.data = Stored(p).data
Record(r) == r = [from |-> r.from, size |-> r.size, data |-> r.data]
BufferType ==
  /\ Record(rcv_buff) /\ rcv_buff.size \in 0 .. RcvRoom
  /\ rcv_buff.size > 0 => \E p \in Packets : p.type = "udp" /\ Holds(p)

Types == Places /\ Flags /\ RingType /\ TableType /\ BufferType

LEMMA InitTypes == Init => Types
<1> SUFFICES ASSUME Init PROVE Types
  OBVIOUS
<1> USE DEF Init
<1>1. Places
  BY SizeAssumption DEF Places, Levels, MainPlaces, NetPlaces, SendPlaces
<1>2. Flags
  <2>1. /\ imr \in BOOLEAN /\ transmitting \in BOOLEAN /\ disturbed \in BOOLEAN /\ late \in BOOLEAN
        /\ astray \in BOOLEAN /\ claimed \in BOOLEAN
    BY Zenon
  <2>2. isr \in SUBSET {"RX", "TX", "RDC"} /\ seen \in SUBSET {"RX", "TX", "RDC"}
    BY Zenon
  <2>3. arrivals \in 0 .. MaxArrivals
    BY SizeAssumption
  <2> QED BY <2>1, <2>2, <2>3, Zenon DEF Flags
<1>3. RingType
  <2>1. PSTART \in Pages /\ PSTART + 1 \in Pages
    BY SizeAssumption DEF Pages
  <2>2. NoInfo \in InfoRecords
    BY DEF NoInfo, InfoRecords
  <2> QED BY <2>1, <2>2 DEF RingType, Levels
<1>4. TableType
  BY AddressAssumption DEF TableType, Addresses, HardwareAddresses
<1>5. BufferType
  BY SizeAssumption DEF BufferType, NoData, Record
<1> QED BY <1>1, <1>2, <1>3, <1>4, <1>5 DEF Types

\* A level goes from one of its places to another.
LEMMA PlacesStep ==
  ASSUME Places, [Next]_vars
  PROVE  Places'
<1> USE SizeAssumption DEF Places, GoTo, Levels, MainPlaces, NetPlaces, SendPlaces, history, program,
     sending
<1>1. CASE Call
  BY <1>1 DEF Call, io_net_send, RecvBegins, SetPortBegins
<1>2. CASE \E l \in Levels : Send(l)
  <2>1. PICK l \in Levels : Send(l)
    BY <1>2
  <2>2. ReturnTo("net") = "next" /\ ReturnTo("main") = back
    BY DEF ReturnTo
  <2> QED BY <2>1, <2>2, SendMoves, SendKeeps
<1>3. CASE Handler
  BY <1>2, <1>3 DEF Handler, ReadStatus, Look, Take, LookAgain, Ignore, ip_recv_process,
       arp_recv_process, arp_reply, TakeNext, ClearStatus
<1>4. CASE Card \/ \E p \in Packets : Arrive(p)
  BY <1>4 DEF Card, Interrupt, TransmitDone, Arrive
<1>5. CASE Provided \/ NotProvided \/ arp_request \/ Waited
  BY <1>5 DEF Provided, NotProvided, arp_request, Waited, Return
<1>6. CASE udp_send \/ ip_send \/ Sent
  BY <1>6 DEF udp_send, ip_send, Sent, Return
<1>7. CASE NoCard \/ CardFound \/ AddBroadcast
  BY <1>7 DEF NoCard, CardFound, AddBroadcast, AddBroadcastMAC, AddBroadcastIP
<1>8. CASE (\E n \in ReadSizes : RecvCopies(n)) \/ RecvReleases \/ \E port \in Ports : SetPortEnds(port)
  <2>1. CASE \E n \in ReadSizes : RecvCopies(n)
    BY <2>1 DEF RecvCopies
  <2>2. CASE RecvReleases
    BY <2>2 DEF RecvReleases
  <2>3. CASE \E port \in Ports : SetPortEnds(port)
    BY <2>3 DEF SetPortEnds
  <2> QED BY <1>8, <2>1, <2>2, <2>3
<1>9. CASE UNCHANGED vars
  BY <1>9 DEF vars
<1> QED BY <1>1, <1>2, <1>3, <1>4, <1>5, <1>6, <1>7, <1>8, <1>9 DEF Next, Main, AddBroadcast

\* Bits and flags.
LEMMA FlagsStep ==
  ASSUME Flags, Places, [Next]_vars
  PROVE  Flags'
<1> USE SizeAssumption DEF Flags, Levels, history, program, card, command, channel, transmitter,
driver, handler
<1>0. /\ ne2k_page_select(isr) \in SUBSET {"RX", "TX", "RDC"}
      /\ isr \cup {"RDC"} \in SUBSET {"RX", "TX", "RDC"}
      /\ isr \ {"RDC"} \in SUBSET {"RX", "TX", "RDC"} /\ isr \ seen \in SUBSET {"RX", "TX", "RDC"}
  BY DEF ne2k_page_select
<1>1. CASE Call
  BY <1>1 DEF Call, io_net_send, RecvBegins, SetPortBegins, Empty
<1>2. CASE \E l \in Levels : Send(l)
  <2>1. PICK l \in Levels : Send(l)
    BY <1>2
  <2>2. /\ cr' \in {"idle", "started", "dma", "transmit"} /\ dma' \in Levels \cup {"none"}
        /\ isr' \in SUBSET {"RX", "TX", "RDC"}
        /\ remote' \in {"tx", "low", "shifted", "behind", "ring"} /\ transmitting' \in BOOLEAN
    <3> USE DEF channel
    <3>1. CASE eth_send(l) \/ SendBegins(l) \/ SelectPage(l) \/ SetLow(l)
      BY <1>0, <3>1 DEF eth_send, SendBegins, SelectPage, SetLow
    <3>2. CASE SetHigh(l)
      BY <3>2 DEF SetHigh
    <3>3. CASE SetCount(l) \/ StartWrite(l)
      BY <1>0, <3>3 DEF SetCount, StartWrite
    <3>4. CASE LoadBegins(l)
      BY <3>4 DEF LoadBegins
    <3>5. CASE LoadFrame(l)
      <4>1. isr' \in {isr, isr \cup {"RDC"}} /\ dma' \in {dma, "none"} /\ remote' \in {remote, "ring",
      "behind"}
        BY <3>5, Zenon DEF LoadFrame
      <4>2. UNCHANGED <<cr, transmitting>>
        BY <3>5 DEF LoadFrame
      <4> QED BY <1>0, <4>1, <4>2
    <3>6. CASE LoadCompleted(l) \/ Transmit(l)
      <4>1. CASE LoadCompleted(l)
        BY <1>0, <4>1 DEF LoadCompleted
      <4>2. CASE Transmit(l)
        BY <4>2 DEF Transmit
      <4> QED BY <3>6, <4>1, <4>2
    <3> QED BY <2>1, <3>1, <3>2, <3>3, <3>4, <3>5, <3>6 DEF Send
  <2>3. UNCHANGED <<network_state, seen, imr, disturbed, late, claimed, arrivals>>
    BY <2>1, SendKeeps
  <2>4. astray' \in BOOLEAN
    <3>1. CASE LoadBegins(l) \/ LoadFrame(l)
      BY <3>1 DEF LoadBegins, LoadFrame, Written
    <3>2. CASE ~LoadBegins(l) /\ ~LoadFrame(l)
      BY <2>1, <3>2 DEF Send, eth_send, SendBegins, SelectPage, SetLow, SetHigh, SetCount, StartWrite,
           LoadCompleted, Transmit
    <3> QED BY <3>1, <3>2
  <2> QED BY <2>2, <2>3, <2>4
<1>3. CASE ReadStatus \/ Look \/ Take \/ LookAgain \/ ClearStatus
  <2>1. CASE ReadStatus
    BY <2>1 DEF ReadStatus
  <2>2. CASE Look
    BY <1>0, <2>2 DEF Look
  <2>3. CASE Take
    BY <1>0, <2>3 DEF Take
  <2>4. CASE LookAgain
    BY <1>0, <2>4 DEF LookAgain
  <2>5. CASE ClearStatus
    BY <1>0, <2>5 DEF ClearStatus
  <2> QED BY <1>3, <2>1, <2>2, <2>3, <2>4, <2>5
<1>4. CASE Ignore \/ ip_recv_process \/ arp_reply \/ TakeNext
  BY <1>4 DEF Ignore, ip_recv_process, arp_reply, TakeNext
<1>14. CASE arp_recv_process
  <2>1. claimed' \in BOOLEAN
    BY <1>14, Zenon DEF arp_recv_process
  <2> QED BY <1>14, <2>1 DEF arp_recv_process
<1>5. CASE Interrupt
  <2>1. disturbed' \in BOOLEAN
    BY <1>5, Zenon DEF Interrupt
  <2>2. UNCHANGED <<network_state, cr, dma, remote, isr, seen, imr, transmitting, late, astray,
  claimed, arrivals>>
    BY <1>5 DEF Interrupt
  <2> QED BY <2>1, <2>2
<1>13. CASE \E p \in Packets : Arrive(p)
  <2>1. late' \in BOOLEAN
    BY <1>13, Zenon DEF Arrive
  <2>2. arrivals' \in 0 .. MaxArrivals
    BY <1>13 DEF Arrive
  <2>3. isr' = isr \cup {"RX"} /\ UNCHANGED <<network_state, cr, dma, remote, seen, imr, transmitting,
  disturbed, astray, claimed>>
    BY <1>13, Zenon DEF Arrive
  <2> QED BY <2>1, <2>2, <2>3
<1>12. CASE TransmitDone
  BY <1>12 DEF TransmitDone
<1>6. CASE Provided \/ NotProvided \/ arp_request \/ Waited
  BY <1>6 DEF Provided, NotProvided, arp_request, Waited, FrameBegins
<1>7. CASE udp_send \/ ip_send \/ Sent
  <2>1. CASE udp_send
    BY <2>1 DEF udp_send, FrameBegins
  <2>2. CASE ip_send
    BY <2>2 DEF ip_send, FrameBegins
  <2>3. CASE Sent
    BY <2>3 DEF Sent
  <2> QED BY <1>7, <2>1, <2>2, <2>3
<1>8. CASE NoCard \/ AddBroadcast
  BY <1>8 DEF NoCard, AddBroadcast, AddBroadcastMAC, AddBroadcastIP
<1>11. CASE CardFound
  BY <1>11 DEF CardFound
<1>9. CASE (\E n \in ReadSizes : RecvCopies(n)) \/ RecvReleases \/ \E port \in Ports : SetPortEnds(port)
  <2>1. CASE \E n \in ReadSizes : RecvCopies(n)
    BY <2>1 DEF RecvCopies
  <2>2. CASE RecvReleases
    BY <2>2 DEF RecvReleases, Empty
  <2>3. CASE \E port \in Ports : SetPortEnds(port)
    BY <2>3 DEF SetPortEnds
  <2> QED BY <1>9, <2>1, <2>2, <2>3
<1>10. CASE UNCHANGED vars
  BY <1>10 DEF vars
<1> QED BY <1>1, <1>2, <1>3, <1>4, <1>5, <1>6, <1>7, <1>8, <1>9, <1>10, <1>11, <1>12, <1>13, <1>14 DEF Next,
     Main, Handler, Card, AddBroadcast

\* What the main thread does leaves the ring and the handler alone, save finding the card.
LEMMA MainLeavesRing ==
  ASSUME Places, [Next]_vars,
         ~CardFound, ~Handler, ~Card, \A p \in Packets : ~Arrive(p)
  PROVE  /\ UNCHANGED <<ring, rx_next, curr, bnry, imr, seen, current, info>>
         /\ pc'["net"] = pc["net"]
         /\ "RX" \in isr' <=> "RX" \in isr
         /\ pc'["main"] = "boot" => pc["main"] = "boot" /\ UNCHANGED transmitting
         /\ pc["net"] # "out" => \/ pc["main"] = "boot" /\ pc'["main"] = "idle"
                                 \/ UNCHANGED vars
<1> USE DEF Places, GoTo, Levels, card, receiver, handler, buffers, transmitter
<1>1. CASE Call
  BY <1>1 DEF Call, io_net_send, RecvBegins, SetPortBegins, MainRuns
<1>2. CASE Send("main")
  <2>1. /\ pc["main"] \in SendPlaces /\ MainRuns /\ pc'["main"] \in SendPlaces \cup {back}
        /\ pc'["net"] = pc["net"]
    BY <1>2, SendMoves DEF ReturnTo, Runs
  <2> QED BY <1>2, <2>1, SendKeeps DEF MainRuns, SendPlaces
<1>3. CASE Provided \/ NotProvided \/ arp_request \/ Waited
  BY <1>3 DEF Provided, NotProvided, arp_request, Waited, Return, MainRuns
<1>4. CASE udp_send \/ ip_send \/ Sent
  BY <1>4 DEF udp_send, ip_send, Sent, Return, MainRuns
<1>5. CASE NoCard \/ AddBroadcast
  BY <1>5 DEF NoCard, AddBroadcast, AddBroadcastMAC, AddBroadcastIP, MainRuns
<1>6. CASE (\E n \in ReadSizes : RecvCopies(n)) \/ RecvReleases \/ \E port \in Ports : SetPortEnds(port)
  BY <1>6 DEF RecvCopies, RecvReleases, SetPortEnds, MainRuns
<1>7. CASE UNCHANGED vars
  BY <1>7 DEF vars
<1> QED BY <1>1, <1>2, <1>3, <1>4, <1>5, <1>6, <1>7 DEF Next, Main, AddBroadcast

\* Pages of the ring.
LEMMA PagesStay ==
  /\ \A page \in Pages : PageBefore(page) \in Pages
  /\ \A page \in Pages, n \in 1 .. PSTOP - PSTART : PagesOn(page, n) \in Pages
  /\ PSTART + 1 \in Pages /\ PSTART \in Pages /\ 0 \notin Pages
  BY SizeAssumption DEF Pages, PageBefore, PagesOn

LEMMA RingTypeStep ==
  ASSUME RingType, Flags, Places, [Next]_vars
  PROVE  RingType'
<1>1. CASE ~CardFound /\ ~Handler /\ ~Card /\ \A p \in Packets : ~Arrive(p)
  BY <1>1, MainLeavesRing DEF RingType
<1>2. CASE CardFound
  BY <1>2, PagesStay, SizeAssumption DEF CardFound, RingType, Places, GoTo, Levels, handler, buffers
<1>3. CASE Send("net")
  <2>1. pc["net"] \in SendPlaces /\ pc'["main"] = pc["main"]
    BY <1>3, SendMoves DEF Places, Levels
  <2> QED BY <1>3, <2>1, SendKeeps DEF RingType, SendPlaces, Levels
<1>4. CASE Take
  <2>1. info' \in InfoRecords /\ UNCHANGED <<ring, curr, imr, transmitting>>
    BY <1>4, Zenon DEF Take, RingType, transmitter
  <2>2. rx_next' \in Pages /\ bnry' \in Pages
    BY <1>4, PagesStay DEF Take, RingType, InfoRecords
  <2>3. imr /\ pc'["main"] = pc["main"]
    BY <1>4 DEF Take, RingType, Places, Levels, GoTo
  <2> QED BY <2>1, <2>2, <2>3 DEF RingType
<1>5. CASE ReadStatus \/ Look \/ LookAgain \/ ClearStatus
  <2>1. UNCHANGED <<ring, rx_next, curr, bnry, imr, transmitting>> /\ pc["net"] # "out"
    BY <1>5 DEF ReadStatus, Look, LookAgain, ClearStatus, card, receiver, transmitter, buffers
  <2>3. pc'["main"] = pc["main"]
    BY <1>5 DEF ReadStatus, Look, LookAgain, ClearStatus, Places, GoTo, Levels
  <2>2. info' \in {info, NoInfo} /\ NoInfo \in InfoRecords
    BY <1>5 DEF ReadStatus, Look, LookAgain, ClearStatus, InfoRecords, NoInfo, handler
  <2> QED BY <2>1, <2>2, <2>3 DEF RingType
<1>6. CASE Ignore \/ ip_recv_process \/ arp_recv_process \/ arp_reply \/ TakeNext
  BY <1>6 DEF Ignore, ip_recv_process, arp_recv_process, arp_reply, TakeNext, RingType, Places, GoTo,
       Levels,
       card, receiver, handler, buffers
<1>7. CASE Card
  BY <1>7 DEF Card, Interrupt, TransmitDone, RingType, Places, GoTo, Levels, card, receiver, handler,
       buffers, Flags
<1>8. CASE \E p \in Packets : Arrive(p)
  <2>1. PICK p \in Packets : Arrive(p)
    BY <1>8
  <2>2. PagesOn(curr, p.pages) \in Pages
    BY PagesStay, PacketAssumption DEF RingType
  <2>3. [next |-> PagesOn(curr, p.pages), packet |-> p] \in InfoRecords
    BY <2>2 DEF InfoRecords
  <2>4. ring' \in [Pages -> InfoRecords] /\ curr' \in Pages
    BY <2>1, <2>2, <2>3 DEF Arrive, RingType
  <2> QED BY <2>1, <2>4 DEF Arrive, RingType, handler, buffers, transmitter
<1> QED BY <1>1, <1>2, <1>3, <1>4, <1>5, <1>6, <1>7, <1>8 DEF Handler

\* Few actions write the table and the addresses.
LEMMA TableLeftAlone ==
  ASSUME Places, [Next]_vars,
         ~NoCard, ~CardFound, ~AddBroadcast, ~arp_recv_process
  PROVE  /\ UNCHANGED <<arp_table, local_mac, network_state>>
         /\ pc'["main"] \in {"broadcast", "broadcast_ip"} => pc'["main"] = pc["main"]
         /\ pc["main"] \in {"broadcast", "broadcast_ip"} => pc'["main"] = pc["main"]
         /\ claimed => claimed'
         /\ pc'["main"] = "boot" <=> pc["main"] = "boot"
<1> USE DEF Places, GoTo, Levels, driver, history
<1>1. CASE Call
  BY <1>1 DEF Call, io_net_send, RecvBegins, SetPortBegins, Empty
<1>2. CASE \E l \in Levels : Send(l)
  <2>1. PICK l \in Levels : Send(l)
    BY <1>2
  <2>2. /\ pc["main"] \in {"broadcast", "broadcast_ip", "boot"} => l = "net"
        /\ pc'["main"] \in {"broadcast", "broadcast_ip", "boot"} => l = "net"
        /\ l = "net" => pc'["main"] = pc["main"]
    BY <2>1, SendMoves DEF ReturnTo, SendPlaces
  <2> QED BY <2>1, <2>2, SendKeeps
<1>3. CASE ReadStatus \/ Look \/ Take \/ LookAgain \/ ClearStatus
  BY <1>3 DEF ReadStatus, Look, Take, LookAgain, ClearStatus
<1>4. CASE Ignore \/ ip_recv_process \/ arp_reply \/ TakeNext
  BY <1>4 DEF Ignore, ip_recv_process, arp_reply, TakeNext
<1>5. CASE Card \/ \E p \in Packets : Arrive(p)
  BY <1>5 DEF Card, Interrupt, TransmitDone, Arrive
<1>6. CASE Provided \/ NotProvided \/ arp_request \/ Waited
  BY <1>6 DEF Provided, NotProvided, arp_request, Waited, Return, FrameBegins
<1>7. CASE udp_send \/ ip_send \/ Sent
  BY <1>7 DEF udp_send, ip_send, Sent, Return, FrameBegins
<1>8. CASE (\E n \in ReadSizes : RecvCopies(n)) \/ RecvReleases \/ \E port \in Ports : SetPortEnds(port)
  <2>1. CASE \E n \in ReadSizes : RecvCopies(n)
    BY <2>1 DEF RecvCopies
  <2>2. CASE RecvReleases
    BY <2>2 DEF RecvReleases, Empty
  <2>3. CASE \E port \in Ports : SetPortEnds(port)
    BY <2>3 DEF SetPortEnds
  <2> QED BY <1>8, <2>1, <2>2, <2>3
<1>9. CASE UNCHANGED vars
  BY <1>9 DEF vars
<1> QED BY <1>1, <1>2, <1>3, <1>4, <1>5, <1>6, <1>7, <1>8, <1>9 DEF Next, Main, Handler, AddBroadcast

\* What a reply says, and where it goes in the table.
LEMMA Learned ==
  ASSUME RingType, arp_recv_process
  PROVE  /\ info.packet.spa \in Addresses /\ info.packet.sha \in HardwareAddresses
         /\ Learn(info.packet.spa, info.packet.sha)
         /\ UNCHANGED <<network_state, rcv_port, hw>>
<1>1. info.packet \in Packets
  BY DEF RingType, arp_recv_process, InfoRecords, NoInfo
<1>2. info.packet.type = "arp"
  BY DEF arp_recv_process
<1> QED BY <1>1, <1>2, PacketAssumption DEF arp_recv_process, program, sending

LEMMA TableTypeStep ==
  ASSUME TableType, RingType, Places, [Next]_vars
  PROVE  TableType'
<1>1. /\ arp_table' \in [Entries -> [ip : Addresses, mac : HardwareAddresses]]
      /\ local_mac' \in HardwareAddresses
  <2>1. CASE NoCard \/ CardFound \/ AddBroadcast
    <3>1. 0 \in Entries
      BY SizeAssumption DEF Entries
    <3> QED BY <2>1, <3>1, AddressAssumption DEF NoCard, CardFound, AddBroadcast, AddBroadcastMAC,
                 AddBroadcastIP,
              TableType, Addresses, HardwareAddresses
  <2>2. CASE arp_recv_process
    <3>1. FreeEntry \in Entries
      BY FreeIsFirst
    <3>2. find_mac_in_table(info.packet.spa) \in Entries \cup {Local, NotFound}
      BY FindType
    <3> QED BY <2>2, <3>1, <3>2, Learned DEF Learn, TableType
  <2> QED BY <2>1, <2>2, TableLeftAlone DEF TableType
<1>2. rcv_port' \in Ports
  <2> USE DEF TableType, driver
  <2>1. CASE Call
    BY <2>1 DEF Call, io_net_send, RecvBegins, SetPortBegins, Empty
  <2>2. CASE \E l \in Levels : Send(l)
    BY <2>2, SendKeeps
  <2>3. CASE Handler
    BY <2>2, <2>3 DEF Handler, ReadStatus, Look, Take, LookAgain, ClearStatus, Ignore, ip_recv_process,
         arp_recv_process, arp_reply, TakeNext, Levels
  <2>4. CASE Card \/ \E p \in Packets : Arrive(p)
    BY <2>4 DEF Card, Interrupt, TransmitDone, Arrive
  <2>5. CASE Main
    BY <2>2, <2>5 DEF Main, NoCard, CardFound, AddBroadcast, AddBroadcastMAC, AddBroadcastIP, Provided,
         NotProvided, arp_request,
         Waited, udp_send,
         ip_send, Sent, RecvCopies, RecvReleases, SetPortEnds, Empty, Levels
  <2> QED BY <2>1, <2>3, <2>4, <2>5 DEF Next, vars
<1>3. hw' \in Entries \cup {Local, Broadcast, NotFound}
  <2> USE DEF TableType, program, sending
  <2>1. CASE Call
    BY <2>1 DEF Call, io_net_send, RecvBegins, SetPortBegins
  <2>2. CASE \E l \in Levels : Send(l)
    BY <2>2, SendKeeps
  <2>3. CASE Handler
    BY <2>2, <2>3 DEF Handler, ReadStatus, Look, Take, LookAgain, ClearStatus, Ignore, ip_recv_process,
         arp_recv_process, arp_reply, TakeNext, Levels
  <2>4. CASE Card \/ \E p \in Packets : Arrive(p)
    BY <2>4 DEF Card, Interrupt, TransmitDone, Arrive
  <2>5. CASE ip_send
    BY <2>5, FindType DEF ip_send, Return
  <2>6. CASE Main /\ ~ip_send
    BY <2>2, <2>6 DEF Main, NoCard, CardFound, AddBroadcast, AddBroadcastMAC, AddBroadcastIP, Provided,
         NotProvided, arp_request,
         Waited, udp_send,
         Sent, RecvCopies, RecvReleases, SetPortEnds, Return, Levels
  <2> QED BY <2>1, <2>3, <2>4, <2>5, <2>6 DEF Next, vars
<1> QED BY <1>1, <1>2, <1>3 DEF TableType

\* The receive buffer is emptied, cleared, filled with one packet, or loses its address.
LEMMA BufferWrites ==
  ASSUME [Next]_vars
  PROVE  \/ UNCHANGED rcv_buff
         \/ rcv_buff' = [rcv_buff EXCEPT !.from = Junk] /\ pc["main"] = "eth"
         \/ rcv_buff' = [rcv_buff EXCEPT !.size = 0] /\ (SetPortBegins \/ RecvReleases)
         \/ rcv_buff' = NoData /\ CardFound
         \/ rcv_buff' = Stored(info.packet) /\ ip_recv_process
<1> USE DEF driver
<1>1. CASE Call
  BY <1>1 DEF Call, io_net_send, RecvBegins, SetPortBegins, Empty
<1>2. CASE \E l \in Levels : Send(l)
  BY <1>2, SendKeeps
<1>3. CASE Handler
  BY <1>2, <1>3 DEF Handler, ReadStatus, Look, Take, LookAgain, ClearStatus, Ignore, ip_recv_process,
       arp_recv_process, arp_reply, TakeNext, Levels
<1>4. CASE Card \/ \E p \in Packets : Arrive(p)
  BY <1>4 DEF Card, Interrupt, TransmitDone, Arrive
<1>5. CASE Main
  BY <1>2, <1>5 DEF Main, NoCard, CardFound, AddBroadcast, AddBroadcastMAC, AddBroadcastIP, Provided,
       NotProvided, arp_request,
       Waited, udp_send,
       ip_send, Sent, RecvCopies, RecvReleases, SetPortEnds, Empty, Levels
<1> QED BY <1>1, <1>3, <1>4, <1>5 DEF Next, vars

\* What is stored of a packet fits.
LEMMA SizesOfPackets ==
  ASSUME NEW p \in Packets, p.type = "udp"
  PROVE  p.size \in Nat /\ StoredSize(p) \in 0 .. RcvRoom
<1>1. p.size \in Nat /\ p.len \in Nat \cup {TooShort}
  BY PacketAssumption
<1> QED BY <1>1, SizeAssumption DEF StoredSize, Least, TooShort

LEMMA BufferTypeStep ==
  ASSUME BufferType, RingType, [Next]_vars
  PROVE  BufferType'
<1>1. CASE UNCHANGED rcv_buff
  BY <1>1 DEF BufferType, Record, Holds
<1>5. CASE rcv_buff' = [rcv_buff EXCEPT !.from = Junk]
  <2>1. rcv_buff' = [from |-> Junk, size |-> rcv_buff.size, data |-> rcv_buff.data]
    BY <1>5 DEF BufferType, Record
  <2> QED BY <2>1 DEF BufferType, Record, Holds
<1>2. CASE rcv_buff' = [rcv_buff EXCEPT !.size = 0]
  <2>1. rcv_buff' = [from |-> rcv_buff.from, size |-> 0, data |-> rcv_buff.data]
    BY <1>2 DEF BufferType, Record
  <2> QED BY <2>1, SizeAssumption DEF BufferType, Record
<1>3. CASE rcv_buff' = NoData
  BY <1>3, SizeAssumption DEF BufferType, Record, NoData
<1>4. CASE rcv_buff' = Stored(info.packet) /\ ip_recv_process
  <2>1. info.packet \in Packets /\ info.packet.type = "udp"
    BY <1>4 DEF RingType, ip_recv_process, InfoRecords, NoInfo
  <2>2. StoredSize(info.packet) \in 0 .. RcvRoom
    BY <2>1, SizesOfPackets
  <2> QED BY <1>4, <2>1, <2>2 DEF BufferType, Record, Stored, Holds
<1> QED BY <1>1, <1>2, <1>3, <1>4, <1>5, BufferWrites

\* The driver's and the card's state have their types, whatever the calls, packets and
\* interrupts (net.c:124-155, 229-234).
THEOREM TypesAreKept == Spec => []Types
<1>1. Types /\ [Next]_vars => Types'
  BY PlacesStep, FlagsStep, RingTypeStep, TableTypeStep, BufferTypeStep DEF Types
<1> QED BY <1>1, InitTypes, PTL DEF Spec

\* The type of the state (net.c:124-155).
THEOREM TypeCorrect == Spec => []TypeOK
<1>1. Types => TypeOK
  <2> SUFFICES ASSUME Types PROVE TypeOK
    OBVIOUS
  <2>1. {imr, transmitting, disturbed, late, astray, claimed} \subseteq BOOLEAN /\ {isr,
  seen} \subseteq SUBSET {"RX", "TX", "RDC"}
    BY Zenon DEF Types, Flags
  <2>2. {rx_next, curr, bnry} \subseteq Pages /\ DOMAIN pc = Levels
    BY DEF Types, RingType, Places
  <2> QED BY <2>1, <2>2, Zenon DEF TypeOK, Types, Places, Flags, RingType, TableType, BufferType
<1> QED BY <1>1, TypesAreKept, PTL

-----------------------------------------------------------------------------
(* What a program receives. *)

\* While the main thread copies the buffer, the handler lets it be.
Copying ==
  /\ Record(got) /\ got.size \in Nat
  /\ pc["main"] = "copy" => rcv_buff.size > 0 /\ got.from = rcv_buff.from

\* What the copy holds is one packet's, also when it is cut.
LEMMA CopyIsOnePacket ==
  ASSUME BufferType, Copying, NEW n \in ReadSizes, RecvCopies(n)
  PROVE  Record(got') /\ got'.size \in Nat /\ ReceivedWhole'
<1>1. PICK p \in Packets : p.type = "udp" /\ Holds(p)
  BY DEF RecvCopies, BufferType, Copying
<1>2. p.size \in Nat /\ StoredSize(p) \in 0 .. RcvRoom /\ n \in Nat
  BY <1>1, SizesOfPackets, SizeAssumption
<1> DEFINE taken == Least(rcv_buff.size, n)
<1>3. rcv_buff.size = StoredSize(p) /\ rcv_buff.from \in {p.from, Junk} /\ rcv_buff.data = Stored(p).data
  BY <1>1 DEF Holds
<1>4. taken \in Nat /\ taken <= StoredSize(p)
  BY <1>2, <1>3, SizeAssumption DEF Least
<1>5. got' = [from |-> got.from, size |-> taken, data |-> Leading(taken)]
  BY DEF RecvCopies, Copying, Record
<1>6. ASSUME NEW i \in 1 .. taken, i <= Least(p.size, TmpRoom)
      PROVE  got'.data[i] = p.byte
  <2>1. got'.data[i] = rcv_buff.data[i]
    BY <1>5 DEF Leading
  <2>2. i \in 1 .. StoredSize(p)
    BY <1>2, <1>4
  <2>3. Stored(p).data[i] = p.byte
    BY <1>6, <2>2 DEF Stored
  <2> QED BY <1>3, <2>1, <2>3
<1>7. got.from \in {p.from, Junk}
  BY <1>3 DEF RecvCopies, Copying
<1> HIDE DEF taken
<1>8. \A i \in 1 .. got'.size : i <= Least(p.size, TmpRoom) => got'.data[i] = p.byte
  BY <1>5, <1>6
<1>9. got'.from \in {p.from, Junk} /\ got'.size <= StoredSize(p) /\ got'.size \in Nat /\ Record(got')
  BY <1>4, <1>5, <1>7 DEF Record
<1>10. ReceivedWhole'
  <2>1. \E q \in Packets : /\ q.type = "udp" /\ got'.from \in {q.from, Junk}
                            /\ got'.size <= StoredSize(q)
                            /\ \A i \in 1 .. got'.size : i <= Least(q.size,
                            TmpRoom) => got'.data[i] = q.byte
    BY <1>1, <1>8, <1>9
  <2> QED BY <2>1 DEF ReceivedWhole
<1> QED BY <1>9, <1>10

\* The other steps begin a copy, end it, or leave it alone.
LEMMA CopyWrites ==
  ASSUME Places, [Next]_vars
  PROVE  \/ UNCHANGED got /\ (pc'["main"] = "copy" => pc["main"] = "copy")
         \/ RecvBegins
         \/ \E n \in ReadSizes : RecvCopies(n)
         \/ got' = NoData /\ pc'["main"] = "idle"
<1> USE DEF Places, GoTo, Levels, program
<1>1. CASE Call
  BY <1>1 DEF Call, io_net_send, SetPortBegins
<1>2. CASE \E l \in Levels : Send(l)
  <2>1. PICK l \in Levels : Send(l)
    BY <1>2
  <2>2. ReturnTo("net") = "next" /\ ReturnTo("main") = back
    BY DEF ReturnTo
  <2> QED BY <2>1, <2>2, SendMoves, SendKeeps DEF SendPlaces
<1>3. CASE Handler
  BY <1>2, <1>3 DEF Handler, ReadStatus, Look, Take, LookAgain, ClearStatus, Ignore, ip_recv_process,
       arp_recv_process, arp_reply, TakeNext
<1>4. CASE Card \/ \E p \in Packets : Arrive(p)
  BY <1>4 DEF Card, Interrupt, TransmitDone, Arrive
<1>5. CASE Main
  BY <1>2, <1>5 DEF Main, NoCard, CardFound, AddBroadcast, AddBroadcastMAC, AddBroadcastIP, Provided,
       NotProvided, arp_request,
       Waited, udp_send,
       ip_send, Sent, RecvReleases, SetPortEnds, Return
<1> QED BY <1>1, <1>3, <1>4, <1>5 DEF Next, vars

LEMMA CopyingStep ==
  ASSUME Types, Copying, ReceivedWhole, [Next]_vars
  PROVE  Copying' /\ ReceivedWhole'
<1>1. CASE UNCHANGED got /\ (pc'["main"] = "copy" => pc["main"] = "copy")
  <2>1. ASSUME pc["main"] = "copy", pc'["main"] = "copy" PROVE UNCHANGED rcv_buff
    <3>1. ~SetPortBegins /\ ~RecvReleases /\ ~CardFound /\ pc["main"] # "eth"
      BY <2>1 DEF SetPortBegins, RecvReleases, CardFound
    <3>2. ~ip_recv_process
      BY <2>1 DEF ip_recv_process, Ignored, Copying
    <3> QED BY <3>1, <3>2, BufferWrites
  <2> QED BY <1>1, <2>1 DEF Copying, ReceivedWhole, Record
<1>2. CASE RecvBegins
  <2>1. got' = [from |-> rcv_buff.from, size |-> 0, data |-> <<>>] /\ UNCHANGED rcv_buff /\ rcv_buff.size > 0
    BY <1>2 DEF RecvBegins, NoData, driver
  <2> QED BY <2>1 DEF Copying, ReceivedWhole, Record
<1>3. CASE \E n \in ReadSizes : RecvCopies(n)
  <2>1. PICK n \in ReadSizes : RecvCopies(n)
    BY <1>3
  <2>2. pc'["main"] # "copy"
    BY <2>1 DEF RecvCopies, GoTo, Types, Places, Levels
  <2> QED BY <2>1, <2>2, CopyIsOnePacket DEF Copying, Types
<1>4. CASE got' = NoData /\ pc'["main"] = "idle"
  BY <1>4 DEF NoData, Copying, ReceivedWhole, Record
<1> QED BY <1>1, <1>2, <1>3, <1>4, CopyWrites DEF Types

\* io_net_recv (net.c:912-926) gives a program size and data of one packet, as far as the
\* packet holds what its length says, and its address, unless a checksum went over that;
\* however many packets arrive meanwhile and whatever lengths they claim.
THEOREM ReceivesOnePacket == Spec => []ReceivedWhole
<1>1. Init => Copying /\ ReceivedWhole
  BY DEF Init, Copying, ReceivedWhole, NoData, Record, Levels
<1>2. Types /\ Copying /\ ReceivedWhole /\ [Next]_vars => Copying' /\ ReceivedWhole'
  BY CopyingStep
<1> QED BY <1>1, <1>2, TypesAreKept, PTL DEF Spec

-----------------------------------------------------------------------------
(* The ARP table. *)

\* Broadcast's address is in the first entry only, and that one is written from its
\* hardware address on, unless a reply said otherwise.
TableInv ==
  /\ ArpTableSound
  /\ \A j \in Entries : arp_table[j].ip = BroadcastIP => j = 0 \/ claimed
  /\ pc["main"] = "broadcast_ip" => arp_table[0].mac = BroadcastMAC \/ claimed

\* A reply's address is written over its own entry, or over the first free one.
LEMMA LearnKeepsTable ==
  ASSUME Types, TableInv, arp_recv_process
  PROVE  TableInv'
<1> DEFINE ip == info.packet.spa
           mac == info.packet.sha
           k == IF find_mac_in_table(ip) = NotFound THEN FreeEntry ELSE find_mac_in_table(ip)
<1>1. ip \in Addresses /\ Learn(ip, mac) /\ BroadcastIP \notin ZeroIPs
  BY Learned, AddressAssumption DEF Types
<1>2. arp_table \in [Entries -> [ip : Addresses, mac : HardwareAddresses]]
  BY DEF Types, TableType
<1>3. UNCHANGED <<pc["main"], network_state>>
  BY DEF arp_recv_process, GoTo, Types, Places, Levels
<1>9. claimed' = (claimed \/ ip = BroadcastIP \/ pc["main"] \in {"broadcast", "broadcast_ip"})
  BY DEF arp_recv_process
<1>4. CASE find_mac_in_table(ip) = Local
  <2>1. UNCHANGED arp_table
    BY <1>1, <1>4 DEF Learn
  <2> QED BY <1>3, <1>9, <2>1 DEF TableInv, ArpTableSound
<1>5. CASE find_mac_in_table(ip) # Local
  <2>1. arp_table' = [arp_table EXCEPT ![k] = [ip |-> ip, mac |-> mac]]
    BY <1>1, <1>5 DEF Learn
  <2>2. k \in Entries /\ k \in Int /\ ARP_TABLE_LEN - 1 # 0 /\ \A i \in Entries : i \in 0 .. ARP_TABLE_LEN - 1
    BY <1>5, FreeIsFirst, FindType, SizeAssumption DEF Entries
  <2>8. ip # LocalIP
    BY <1>5 DEF find_mac_in_table
  <2>9. \A i, j \in Entries : i < j /\ arp_table[j].ip \notin ZeroIPs =>
          /\ arp_table[i].ip \notin ZeroIPs
          /\ arp_table[i].ip = arp_table[j].ip => arp_table[i].ip = BroadcastIP /\ claimed
    BY DEF TableInv, ArpTableSound
  <2>3. /\ \A i \in Entries : i < k /\ ip \notin ZeroIPs => arp_table[i].ip \notin ZeroIPs
        /\ \A i \in Entries : k < i /\ arp_table[i].ip \notin ZeroIPs => ip \notin ZeroIPs
        /\ \A i \in Entries : i # k /\ arp_table[i].ip = ip /\ ip \notin ZeroIPs => ip = BroadcastIP
        /\ k = 0 /\ arp_table[0].ip = BroadcastIP => ip = BroadcastIP
    <3>1. CASE find_mac_in_table(ip) = NotFound
      <4>1. EntriesOf(ip) = {}
        <5>1. EntriesOf(ip) # {} => find_mac_in_table(ip) = First(EntriesOf(ip))
          BY <2>8 DEF find_mac_in_table
        <5>2. EntriesOf(ip) # {} => find_mac_in_table(ip) \in Entries
          <6>1. EntriesOf(ip) \in SUBSET (0 .. ARP_TABLE_LEN - 1) /\ ARP_TABLE_LEN - 1 \in Nat
            BY SizeAssumption DEF EntriesOf, Entries
          <6>2. EntriesOf(ip) # {} => First(EntriesOf(ip)) \in EntriesOf(ip)
            BY <6>1, FirstIsLeast
          <6> QED BY <5>1, <6>2 DEF EntriesOf
        <5> QED BY <3>1, <5>2, SizeAssumption DEF Entries, NotFound
      <4>2. k = FreeEntry
        BY <3>1
      <4>3. \A i \in Entries : k < i => arp_table[k].ip \in ZeroIPs
        BY <2>2, <4>2, FreeIsFirst
      <4>4. \A i \in Entries : k < i => arp_table[i].ip \in ZeroIPs
        BY <2>2, <2>9, <4>3
      <4>5. k = 0 => arp_table[0].ip \in ZeroIPs
        BY <2>2, <4>2, FreeIsFirst
      <4> QED BY <1>1, <4>1, <4>2, <4>4, <4>5, FreeIsFirst DEF EntriesOf
    <3>2. CASE find_mac_in_table(ip) # NotFound
      <4>1. k = find_mac_in_table(ip) /\ arp_table[k].ip = ip
        BY <2>8, <3>2, Found
      <4>2. \A i \in Entries : i # k => i < k \/ k < i
        BY <2>2
      <4> HIDE DEF k
      <4>3. \A i \in Entries : i < k /\ ip \notin ZeroIPs =>
              arp_table[i].ip \notin ZeroIPs /\ (arp_table[i].ip = ip => ip = BroadcastIP)
        BY <2>2, <2>9, <4>1
      <4>4. \A i \in Entries : k < i /\ arp_table[i].ip \notin ZeroIPs =>
              ip \notin ZeroIPs /\ (arp_table[i].ip = ip => ip = BroadcastIP)
        BY <2>2, <2>9, <4>1
      <4> QED BY <4>1, <4>2, <4>3, <4>4
    <3> QED BY <3>1, <3>2
  <2> HIDE DEF ip, mac, k
  <2>12. /\ ip = BroadcastIP => claimed'
         /\ claimed => claimed'
         /\ pc["main"] \in {"broadcast", "broadcast_ip"} => claimed'
    BY <1>9, Zenon
  <2>4. \A i \in Entries : arp_table'[i] = IF i = k THEN [ip |-> ip, mac |-> mac] ELSE arp_table[i]
    BY <1>2, <2>1
  <2>5. \A i, j \in Entries : i < j /\ arp_table'[j].ip \notin ZeroIPs =>
          /\ arp_table'[i].ip \notin ZeroIPs
          /\ arp_table'[i].ip = arp_table'[j].ip => arp_table'[i].ip = BroadcastIP /\ claimed'
    <3> SUFFICES ASSUME NEW i \in Entries, NEW j \in Entries, i < j, arp_table'[j].ip \notin ZeroIPs
                 PROVE  /\ arp_table'[i].ip \notin ZeroIPs
                        /\ arp_table'[i].ip = arp_table'[j].ip => arp_table'[i].ip = BroadcastIP /\ claimed'
      OBVIOUS
    <3>1. CASE i = k
      <4>1. j # k
        BY <2>2, <3>1
      <4> QED BY <2>12, <2>2, <2>3, <2>4, <3>1, <4>1
    <3>2. CASE j = k
      <4>1. i # k
        BY <2>2, <3>2
      <4> QED BY <2>12, <2>2, <2>3, <2>4, <3>2, <4>1
    <3>3. CASE i # k /\ j # k
      BY <2>12, <2>4, <2>9, <3>3
    <3> QED BY <3>1, <3>2, <3>3
  <2>6. \A j \in Entries : arp_table'[j].ip = BroadcastIP => j = 0 \/ claimed'
    BY <2>12, <2>4 DEF TableInv
  <2>7. 0 \in Entries
    BY SizeAssumption DEF Entries
  <2>10. network_state' = "enabled" /\ pc'["main"] \notin {"broadcast", "broadcast_ip"} =>
           arp_table'[0].ip = BroadcastIP /\ (arp_table'[0].mac = BroadcastMAC \/ claimed')
    <3>1. network_state' = "enabled" /\ pc'["main"] \notin {"broadcast", "broadcast_ip"} =>
            arp_table[0].ip = BroadcastIP /\ (arp_table[0].mac = BroadcastMAC \/ claimed)
      BY <1>3 DEF TableInv, ArpTableSound
    <3> QED BY <2>12, <2>3, <2>4, <2>7, <3>1
  <2>11. pc'["main"] = "broadcast_ip" => claimed'
    BY <1>3, <2>12
  <2> QED BY <2>5, <2>6, <2>10, <2>11 DEF TableInv, ArpTableSound
<1> QED BY <1>4, <1>5

LEMMA TableStep ==
  ASSUME Types, TableInv, [Next]_vars
  PROVE  TableInv'
<1>1. 0 \in Entries /\ \A i \in Entries : i >= 0
  BY SizeAssumption DEF Entries
<1>7. arp_table \in [Entries -> [ip : Addresses, mac : HardwareAddresses]]
  BY DEF Types, TableType
<1>8. NoIP # BroadcastIP /\ NoIP \in ZeroIPs
  BY AddressAssumption
<1>2. CASE NoCard
  BY <1>2 DEF NoCard, GoTo, Types, Places, Levels, TableInv, ArpTableSound, history
<1>3. CASE CardFound
  BY <1>3, <1>8 DEF CardFound, GoTo, Types, Places, Levels, TableInv, ArpTableSound
<1>4. CASE AddBroadcastMAC
  <2>1. /\ UNCHANGED <<claimed, network_state>> /\ pc'["main"] = "broadcast_ip"
        /\ arp_table' = [arp_table EXCEPT ![0].mac = BroadcastMAC]
    BY <1>4 DEF AddBroadcastMAC, history, GoTo, Types, Places, Levels
  <2>2. \A i \in Entries : arp_table'[i].ip = arp_table[i].ip
    BY <1>7, <2>1
  <2>3. arp_table'[0].mac = BroadcastMAC
    BY <1>1, <1>7, <2>1
  <2> QED BY <1>1, <2>1, <2>2, <2>3 DEF TableInv, ArpTableSound
<1>9. CASE AddBroadcastIP
  <2>1. /\ UNCHANGED <<claimed, network_state>> /\ pc["main"] = "broadcast_ip" /\ pc'["main"] = "idle"
        /\ arp_table' = [arp_table EXCEPT ![0].ip = BroadcastIP]
    BY <1>9 DEF AddBroadcastIP, history, GoTo, Types, Places, Levels
  <2>2. \A i \in Entries : arp_table'[i].ip = IF i = 0 THEN BroadcastIP ELSE arp_table[i].ip
    BY <1>1, <1>7, <2>1
  <2>3. arp_table'[0].mac = arp_table[0].mac
    BY <1>1, <1>7, <2>1
  <2>4. \A i, j \in Entries : i < j => j # 0
    BY SizeAssumption DEF Entries
  <2>5. BroadcastIP \notin ZeroIPs
    BY AddressAssumption
  <2>6. \A i, j \in Entries : i < j /\ arp_table'[j].ip \notin ZeroIPs =>
          /\ arp_table'[i].ip \notin ZeroIPs
          /\ arp_table'[i].ip = arp_table'[j].ip => arp_table'[i].ip = BroadcastIP /\ claimed'
    BY <2>1, <2>2, <2>4, <2>5 DEF TableInv, ArpTableSound
  <2> QED BY <1>1, <2>1, <2>2, <2>3, <2>6 DEF TableInv, ArpTableSound
<1>5. CASE arp_recv_process
  BY <1>5, LearnKeepsTable
<1>6. CASE ~NoCard /\ ~CardFound /\ ~AddBroadcast /\ ~arp_recv_process
  BY <1>6, TableLeftAlone DEF Types, TableInv, ArpTableSound
<1> QED BY <1>2, <1>3, <1>4, <1>5, <1>6, <1>9 DEF AddBroadcast

\* The ARP table (net.c:229-234, 636-660) has an address once and no hole, and keeps
\* broadcast's in its first entry, whatever addresses replies claim and however short it
\* is.  What a reply that claims broadcast's own address does, or one that comes while
\* the first entry is written, is excepted.
THEOREM TableStaysSound == Spec => []ArpTableSound
<1>1. Init => TableInv
  BY AddressAssumption DEF Init, TableInv, ArpTableSound, Levels
<1>2. Types /\ TableInv /\ [Next]_vars => TableInv'
  BY TableStep
<1>3. TableInv => ArpTableSound
  BY DEF TableInv
<1> QED BY <1>1, <1>2, <1>3, TypesAreKept, PTL DEF Spec

-----------------------------------------------------------------------------
(* The ring. *)

\* How far it is from a page to another one.
Distance(a, b) == IF a <= b THEN b - a ELSE b - a + (PSTOP - PSTART)

\* The packets in the ring: each leads to another that is further on, or to where the
\* next one will be.
Chain(S) ==
  /\ S \subseteq Pages
  /\ rx_next # curr => rx_next \in S
  /\ \A s \in S : /\ Distance(rx_next, s) < Distance(rx_next, curr)
                  /\ ring[s].next \in S \cup {curr}
                  /\ Distance(rx_next, s) < Distance(rx_next, ring[s].next)

Receiving == {"look", "take", "relook", "process", "next"} \cup SendPlaces

Chained == \E S \in SUBSET Pages : Chain(S)

\* The boundary is right behind what is read next, and one page at least stays free.
Apart ==
  /\ bnry = PageBefore(rx_next)
  /\ Distance(rx_next, curr) <= PSTOP - PSTART - 2

\* Bits and places of the handler say when there is a packet.
SeenIsThere ==
  /\ pc["net"] \in {"out", "isr"} /\ "RX" \in isr => rx_next # curr
  /\ pc["net"] \in {"look", "take"} => rx_next # curr
  /\ pc["net"] \in Receiving => "RX" \in seen
  /\ pc["net"] \notin {"out", "isr"} /\ "RX" \in isr \ seen => rx_next # curr
  /\ pc["net"] \in {"process", "next"} \cup SendPlaces =>
       Distance(rx_next, current) <= Distance(rx_next, curr) /\ current \in Pages
  /\ pc["net"] \in {"relook", "process", "next"} \cup SendPlaces => rx_next = info.next

\* All of it ends when a frame goes over the packets in the ring.
RingInv == imr /\ ~astray => Apart /\ Chained /\ SeenIsThere

\* Distances on the ring.
LEMMA Distances ==
  ASSUME NEW a \in Pages, NEW b \in Pages
  PROVE  /\ Distance(a, b) \in 0 .. PSTOP - PSTART - 1
         /\ Distance(a, b) = 0 <=> a = b
         /\ \A c \in Pages : Distance(a, b) <= Distance(a, c) =>
              Distance(b, c) = Distance(a, c) - Distance(a, b)
         /\ \A n \in 1 .. PSTOP - PSTART : Distance(a, b) + n < PSTOP - PSTART =>
              Distance(a, PagesOn(b, n)) = Distance(a, b) + n
  BY SizeAssumption DEF Distance, Pages, PagesOn

\* The page before is as far as the ring is long, but for one.
LEMMA Room ==
  ASSUME NEW a \in Pages, NEW b \in Pages, bnry = PageBefore(a), curr = b
  PROVE  FreePages = IF Distance(a, b) = PSTOP - PSTART - 1 THEN PSTOP - PSTART
                     ELSE PSTOP - PSTART - 1 - Distance(a, b)
  BY SizeAssumption DEF Distance, Pages, PageBefore, FreePages

\* A packet that arrives is the last of the chain.
LEMMA ArriveChains ==
  ASSUME Types, RingInv, imr, ~astray, NEW p \in Packets, Arrive(p)
  PROVE  /\ Chained'
         /\ Distance(rx_next, curr') <= PSTOP - PSTART - 2
         /\ rx_next # curr'
         /\ Distance(rx_next, curr) <= Distance(rx_next, curr')
<1> USE DEF Types, RingType
<1>1. p.pages \in 1 .. PSTOP - PSTART /\ rx_next \in Pages /\ curr \in Pages
  BY PacketAssumption
<1>2. /\ curr' = PagesOn(curr, p.pages)
      /\ ring' = [ring EXCEPT ![curr] = [next |-> curr', packet |-> p]]
      /\ UNCHANGED rx_next
  BY DEF Arrive, buffers
<1>3. curr' \in Pages
  BY <1>1, <1>2, PagesStay
<1>4. p.pages < PSTOP - PSTART - 1 - Distance(rx_next, curr)
  <2>1. Distance(rx_next, curr) <= PSTOP - PSTART - 2 /\ bnry = PageBefore(rx_next)
    BY DEF RingInv, Apart
  <2>2. Distance(rx_next, curr) \in Int
    BY <1>1, Distances
  <2> QED BY <1>1, <2>1, <2>2, Room, SizeAssumption DEF Arrive
<1>5. Distance(rx_next, curr') = Distance(rx_next, curr) + p.pages
  BY <1>1, <1>2, <1>4, Distances, SizeAssumption
<1>6. Distance(rx_next, curr) \in Nat /\ Distance(rx_next, rx_next) = 0
  BY <1>1, Distances
<1>7. Chained'
  <2>1. PICK S \in SUBSET Pages : Chain(S)
    BY DEF RingInv, Chained
  <2>2. \A s \in S : ring'[s] = ring[s] /\ s # curr
    <3>1. \A s \in S : s # curr
      BY <1>6, <2>1 DEF Chain
    <3> QED BY <1>1, <1>2, <3>1
  <2>3. ring'[curr].next = curr'
    BY <1>1, <1>2
  <2>4. \A s \in S : /\ Distance(rx_next, s) < Distance(rx_next, curr) /\ Distance(rx_next, s) \in Nat
                     /\ ring[s].next \in S \cup {curr}
                     /\ Distance(rx_next, s) < Distance(rx_next, ring[s].next)
    BY <1>1, <2>1, Distances DEF Chain
  <2>5. \A s \in S \cup {curr} : /\ Distance(rx_next, s) < Distance(rx_next, curr')
                                 /\ ring'[s].next \in S \cup {curr, curr'}
                                 /\ Distance(rx_next, s) < Distance(rx_next, ring'[s].next)
    <3>1. \A s \in S : Distance(rx_next, s) < Distance(rx_next, curr')
      BY <1>1, <1>5, <1>6, <2>4
    <3>2. Distance(rx_next, curr) < Distance(rx_next, curr')
      BY <1>1, <1>5, <1>6
    <3> QED BY <2>2, <2>3, <2>4, <3>1, <3>2
  <2>6. rx_next \in S \cup {curr}
    BY <2>1 DEF Chain
  <2>7. PICK U \in SUBSET Pages : U = S \cup {curr}
    BY <1>1
  <2>8. Chain(U)'
    BY <1>1, <1>2, <2>1, <2>5, <2>6, <2>7 DEF Chain
  <2> QED BY <2>8 DEF Chained
<1>8. /\ Distance(rx_next, curr') # 0 /\ Distance(rx_next, curr) <= Distance(rx_next, curr')
      /\ Distance(rx_next, curr') <= PSTOP - PSTART - 2
  BY <1>1, <1>4, <1>5, <1>6, SizeAssumption
<1> QED BY <1>1, <1>3, <1>7, <1>8, Distances

\* A packet that is taken leaves the chain of the others.
LEMMA TakeChains ==
  ASSUME Types, RingInv, imr, ~astray, Take
  PROVE  /\ Chained'
         /\ Distance(rx_next', curr) <= PSTOP - PSTART - 2
         /\ bnry' = PageBefore(rx_next') /\ rx_next' = info'.next
<1> USE DEF Types, RingType
<1>1. PICK S \in SUBSET Pages : Chain(S)
  BY DEF RingInv, Chained
<1> DEFINE next == ring[rx_next].next
<1>2. rx_next # curr /\ rx_next \in S
  BY <1>1 DEF RingInv, SeenIsThere, Chain, Take
<1>3. rx_next \in Pages /\ curr \in Pages /\ next \in S \cup {curr} /\ next \in Pages
  BY <1>1, <1>2 DEF Chain
<1>4. rx_next' = next /\ bnry' = PageBefore(next) /\ info'.next = next /\ UNCHANGED <<ring, curr>>
  BY <1>3, PagesStay DEF Take
<1>5. \A s \in S : /\ Distance(rx_next, s) < Distance(rx_next, curr)
                   /\ ring[s].next \in S \cup {curr}
                   /\ Distance(rx_next, s) < Distance(rx_next, ring[s].next)
  BY <1>1 DEF Chain
<1>6. \A x \in Pages : Distance(rx_next, x) \in Nat
  BY <1>3, Distances
<1>7. \A x \in Pages : Distance(rx_next, next) <= Distance(rx_next, x) =>
                         Distance(next, x) = Distance(rx_next, x) - Distance(rx_next, next)
  BY <1>3, Distances
<1>8. Distance(rx_next, next) <= Distance(rx_next, curr)
  BY <1>3, <1>5, <1>6
<1> HIDE DEF next
<1> DEFINE T == {s \in S : Distance(rx_next, next) <= Distance(rx_next, s)}
<1>9. next # curr => next \in T
  BY <1>3, <1>6
<1>10. ASSUME NEW s \in T
       PROVE  /\ Distance(next, s) < Distance(next, curr)
              /\ ring[s].next \in T \cup {curr}
              /\ Distance(next, s) < Distance(next, ring[s].next)
  <2>1. s \in Pages /\ ring[s].next \in Pages
    BY <1>3, <1>5
  <2>2. Distance(rx_next, next) <= Distance(rx_next, ring[s].next)
    BY <1>3, <1>5, <1>6, <2>1
  <2>3. ring[s].next \in T \cup {curr}
    BY <1>5, <2>2
  <2>4. /\ Distance(next, s) = Distance(rx_next, s) - Distance(rx_next, next)
        /\ Distance(next, curr) = Distance(rx_next, curr) - Distance(rx_next, next)
        /\ Distance(next, ring[s].next) = Distance(rx_next, ring[s].next) - Distance(rx_next, next)
    BY <1>3, <1>7, <1>8, <2>1, <2>2
  <2>5. /\ Distance(rx_next, s) \in Nat /\ Distance(rx_next, next) \in Nat
        /\ Distance(rx_next, curr) \in Nat /\ Distance(rx_next, ring[s].next) \in Nat
    BY <1>3, <1>6, <2>1
  <2> QED BY <1>5, <2>3, <2>4, <2>5
<1>11. Chained'
  <2>1. PICK U \in SUBSET Pages : U = T
    OBVIOUS
  <2> HIDE DEF T
  <2>2. Chain(U)'
    BY <1>4, <1>9, <1>10, <2>1 DEF Chain
  <2> QED BY <2>2 DEF Chained
<1>12. Distance(next, curr) <= PSTOP - PSTART - 2
  <2>1. Distance(rx_next, curr) <= PSTOP - PSTART - 2
    BY DEF RingInv, Apart
  <2> QED BY <1>3, <1>6, <1>7, <1>8, <2>1, SizeAssumption
<1> QED BY <1>4, <1>11, <1>12

\* What went over the ring is not taken back.
LEMMA AstrayStays ==
  ASSUME [Next]_vars
  PROVE  astray => astray'
<1> USE DEF history
<1>1. CASE Call
  BY <1>1 DEF Call, io_net_send, RecvBegins, SetPortBegins
<1>2. CASE \E l \in Levels : Send(l)
  <2>1. PICK l \in Levels : Send(l)
    BY <1>2
  <2>2. CASE LoadBegins(l) \/ LoadFrame(l)
    BY <2>2, Zenon DEF LoadBegins, LoadFrame, Written
  <2>3. CASE ~LoadBegins(l) /\ ~LoadFrame(l)
    BY <2>1, <2>3 DEF Send, eth_send, SendBegins, SelectPage, SetLow, SetHigh, SetCount, StartWrite,
         LoadCompleted, Transmit
  <2> QED BY <2>2, <2>3
<1>3. CASE Handler
  BY <1>2, <1>3 DEF Handler, ReadStatus, Look, Take, LookAgain, ClearStatus, Ignore, ip_recv_process,
       arp_recv_process, arp_reply, TakeNext, Levels
<1>4. CASE Card \/ \E p \in Packets : Arrive(p)
  BY <1>4 DEF Card, Interrupt, TransmitDone, Arrive
<1>5. CASE Main
  BY <1>2, <1>5 DEF Main, NoCard, CardFound, AddBroadcastMAC, AddBroadcastIP, Provided, NotProvided,
       arp_request, Waited, udp_send, ip_send, Sent, RecvCopies, RecvReleases, SetPortEnds,
       FrameBegins, Levels
<1> QED BY <1>1, <1>3, <1>4, <1>5 DEF Next, vars

\* Without a packet more or less the chain stays as it is, and so do distances.
LEMMA ChainStays ==
  ASSUME UNCHANGED <<ring, rx_next, curr, bnry>>, Apart, Chained
  PROVE  /\ Apart' /\ Chained'
         /\ Distance(rx_next, curr)' = Distance(rx_next, curr)
<1>1. PICK S \in SUBSET Pages : Chain(S)
  BY DEF Chained
<1>2. Chain(S)'
  BY <1>1 DEF Chain, Distance
<1> QED BY <1>2 DEF Chained, Apart, Distance, PageBefore

\* The card is set up with an empty ring.
LEMMA FoundRing ==
  ASSUME Types, CardFound
  PROVE  RingInv'
<1>1. /\ rx_next = PSTART + 1 /\ pc'["net"] = "out"
      /\ bnry' = rx_next - 1 /\ curr' = rx_next /\ isr' = {} /\ UNCHANGED rx_next
  BY DEF CardFound, Types, Places, RingType, GoTo, Levels, buffers
<1>2. Apart'
  <2>1. PageBefore(rx_next') = rx_next - 1
    BY <1>1, SizeAssumption DEF PageBefore
  <2>2. Distance(rx_next', curr') = 0
    BY <1>1, PagesStay, Distances
  <2> QED BY <1>1, <2>1, <2>2, SizeAssumption DEF Apart, Distance, PageBefore
<1>3. Chain({})'
  BY <1>1 DEF Chain
<1>4. Chained'
  BY <1>3 DEF Chained
<1>5. SeenIsThere'
  BY <1>1 DEF SeenIsThere, Receiving, SendPlaces
<1> QED BY <1>2, <1>4, <1>5 DEF RingInv

LEMMA RingStep ==
  ASSUME Types, RingInv, [Next]_vars
  PROVE  RingInv'
<1> SUFFICES ASSUME ~astray' PROVE RingInv'
  BY DEF RingInv
<1>0. ~astray
  BY AstrayStays
<1> USE <1>0 DEF GoTo, Levels
<1>1. pc \in [Levels -> MainPlaces \cup NetPlaces] /\ rx_next \in Pages /\ curr \in Pages
  BY DEF Types, Places, RingType
<1>2. CASE CardFound
  BY <1>2, FoundRing
<1>3. CASE ~CardFound /\ ~Handler /\ ~Card /\ \A p \in Packets : ~Arrive(p)
  <2>1. /\ UNCHANGED <<ring, rx_next, curr, bnry, imr, seen, current, info>>
        /\ pc'["net"] = pc["net"] /\ ("RX" \in isr' <=> "RX" \in isr)
    BY <1>3, MainLeavesRing DEF Types
  <2>2. imr /\ SeenIsThere => SeenIsThere'
    BY <2>1 DEF SeenIsThere, Distance
  <2> QED BY <2>1, <2>2, ChainStays DEF RingInv
<1>4. CASE Handler /\ ~Take
  <2>1. imr
    <3>1. CASE Send("net")
      BY <3>1, SendMoves DEF Types, RingType, Places, SendPlaces
    <3> QED BY <1>4, <3>1 DEF Types, RingType, Handler, ReadStatus, Look, LookAgain, ClearStatus, Ignore,
              ip_recv_process, arp_recv_process, arp_reply, TakeNext
  <2>2. UNCHANGED <<ring, rx_next, curr, bnry, imr>>
    BY <1>4, SendKeeps DEF Handler, ReadStatus, Look, LookAgain, ClearStatus, Ignore, ip_recv_process,
         arp_recv_process, arp_reply, TakeNext, card, receiver, buffers
  <2>3. Apart' /\ Chained' /\ Distance(rx_next, curr)' = Distance(rx_next, curr)
    BY <2>1, <2>2, ChainStays DEF RingInv
  <2>4. SeenIsThere
    BY <2>1 DEF RingInv
  <2> USE DEF SeenIsThere, Receiving, SendPlaces
  <2>5. SeenIsThere'
    <3>1. CASE ReadStatus \/ ClearStatus
      BY <1>1, <2>2, <2>4, <3>1 DEF ReadStatus, ClearStatus, handler
    <3>2. CASE Look
      BY <1>1, <2>2, <2>4, <3>2 DEF Look, ne2k_page_select, handler
    <3>3. CASE LookAgain
      <4>1. Distance(rx_next, curr)' <= Distance(rx_next, curr)'
        BY <1>1, <2>2, Distances, SizeAssumption DEF Distance, Pages
      <4>2. current' = curr' /\ curr' \in Pages
        BY <1>1, <2>2, <3>3 DEF LookAgain
      <4>3. pc["net"] = "relook" /\ pc'["net"] = "process" /\ UNCHANGED <<info, seen>>
        BY <1>1, <3>3 DEF LookAgain
      <4>4. "RX" \in isr' <=> "RX" \in isr
        BY <3>3 DEF LookAgain, ne2k_page_select
      <4>5. Distance(rx_next, current)' = Distance(rx_next, curr)'
        BY <4>2 DEF Distance
      <4> QED BY <2>2, <2>4, <4>1, <4>2, <4>3, <4>4, <4>5
    <3>4. CASE Ignore \/ ip_recv_process \/ arp_recv_process \/ arp_reply
      <4>1. /\ UNCHANGED <<seen, current, info, isr>>
            /\ pc["net"] = "process" /\ pc'["net"] \in {"next", "eth"}
        BY <1>1, <3>4 DEF Ignore, ip_recv_process, arp_recv_process, arp_reply, handler
      <4> QED BY <2>2, <2>4, <4>1 DEF Distance
    <3>5. CASE Send("net")
      <4>1. /\ UNCHANGED <<seen, current, info>> /\ ("RX" \in isr' <=> "RX" \in isr)
            /\ pc["net"] \in SendPlaces /\ pc'["net"] \in SendPlaces \cup {"next"}
        BY <1>1, <3>5, SendKeeps, SendMoves DEF ReturnTo
      <4> QED BY <2>2, <2>4, <4>1 DEF Distance
    <3>6. CASE TakeNext
      <4>1. /\ UNCHANGED <<seen, current, info, isr>>
            /\ pc["net"] = "next" /\ pc'["net"] \in {"clear", "take"}
            /\ pc'["net"] = "take" => info.next # current
        BY <1>1, <3>6 DEF TakeNext, handler
      <4>2. rx_next # current => rx_next # curr
        <5>1. Distance(rx_next, current) <= Distance(rx_next, curr) /\ current \in Pages
          BY <2>4, <4>1
        <5>2. Distance(rx_next, current) \in Nat /\ (Distance(rx_next, current) = 0 <=> rx_next = current)
          BY <1>1, <5>1, Distances
        <5>3. rx_next = curr => Distance(rx_next, curr) = 0
          BY <1>1, Distances
        <5> QED BY <5>1, <5>2, <5>3
      <4> QED BY <2>2, <2>4, <4>1, <4>2
    <3> QED BY <1>4, <3>1, <3>2, <3>3, <3>4, <3>5, <3>6 DEF Handler
  <2> QED BY <2>2, <2>3, <2>5 DEF RingInv
<1>5. CASE Take
  <2>1. imr /\ UNCHANGED <<curr, imr, seen>>
    BY <1>5 DEF Take, Types, RingType, receiver
  <2>2. /\ Chained' /\ Distance(rx_next', curr) <= PSTOP - PSTART - 2
        /\ bnry' = PageBefore(rx_next') /\ rx_next' = info'.next
    BY <1>5, <2>1, TakeChains
  <2>3. "RX" \in seen /\ pc'["net"] = "relook"
    BY <1>1, <1>5, <2>1 DEF RingInv, SeenIsThere, Take, Receiving
  <2>4. Apart'
    BY <2>1, <2>2 DEF Apart, Distance, PageBefore
  <2>5. SeenIsThere'
    BY <2>1, <2>2, <2>3 DEF SeenIsThere, SendPlaces
  <2> QED BY <2>2, <2>4, <2>5 DEF RingInv
<1>6. CASE Card
  <2>1. /\ UNCHANGED <<ring, rx_next, curr, bnry, imr, seen, current, info>>
        /\ "RX" \in isr' <=> "RX" \in isr
        /\ \/ pc'["net"] = pc["net"]
           \/ pc["net"] = "out" /\ pc'["net"] = "isr"
    BY <1>1, <1>6 DEF Card, Interrupt, TransmitDone, card, receiver, handler, buffers
  <2>2. imr /\ SeenIsThere => SeenIsThere'
    BY <2>1 DEF SeenIsThere, Receiving, SendPlaces, Distance
  <2> QED BY <2>1, <2>2, ChainStays DEF RingInv
<1>7. CASE \E p \in Packets : Arrive(p)
  <2>1. PICK p \in Packets : Arrive(p)
    BY <1>7
  <2>2. imr /\ UNCHANGED <<rx_next, bnry, imr, pc, seen, current, info>>
    BY <2>1 DEF Arrive, handler, buffers
  <2>3. /\ Chained'
        /\ Distance(rx_next, curr') <= PSTOP - PSTART - 2 /\ rx_next # curr'
        /\ Distance(rx_next, curr) <= Distance(rx_next, curr')
    BY <2>1, <2>2, ArriveChains
  <2>4. Apart'
    BY <2>2, <2>3 DEF RingInv, Apart, Distance, PageBefore
  <2>5. curr' \in Pages
    BY <2>1, PagesStay, PacketAssumption DEF Types, RingType, Arrive
  <2>6. \A x \in Pages : Distance(rx_next, x) <= Distance(rx_next, curr) =>
                           Distance(rx_next, x) <= Distance(rx_next, curr')
    <3>1. \A x \in Pages : Distance(rx_next, x) \in Int
      BY <1>1, Distances
    <3> QED BY <1>1, <2>3, <2>5, <3>1
  <2>7. /\ Distance(rx_next, curr)' = Distance(rx_next, curr')
        /\ Distance(rx_next, current)' = Distance(rx_next, current)
    BY <2>2 DEF Distance
  <2>8. SeenIsThere'
    BY <2>2, <2>3, <2>6, <2>7 DEF RingInv, SeenIsThere
  <2> QED BY <2>3, <2>4, <2>8 DEF RingInv
<1> QED BY <1>2, <1>3, <1>4, <1>5, <1>6, <1>7

\* net_handler and ne2k_receive (net.c:669-788) read the ring only when a packet is in it, for
\* any ring and packets, while no frame went over one there: what they rest on is that bits
\* are cleared after they were served.
THEOREM RingIsReadWhenFull == Spec => []NeverReadsEmptyRing
<1>1. Init => RingInv
  BY Zenon DEF Init, RingInv
<1>2. Types /\ RingInv /\ [Next]_vars => RingInv'
  BY RingStep
<1>3. Types /\ RingInv => NeverReadsEmptyRing
  BY DEF Types, RingType, RingInv, SeenIsThere, NeverReadsEmptyRing
<1> QED BY <1>1, <1>2, <1>3, TypesAreKept, PTL DEF Spec

-----------------------------------------------------------------------------
(* What is transmitted. *)

\* The main thread does not move while the handler runs.
LEMMA MainWaits ==
  ASSUME Types, [Next]_vars, pc["net"] # "out",
         ~Handler, ~Card, \A p \in Packets : ~Arrive(p)
  PROVE  UNCHANGED vars
<1>1. pc["main"] # "boot"
  BY DEF Types, RingType
<1>2. ~CardFound
  BY <1>1 DEF CardFound
<1> QED BY <1>1, <1>2, MainLeavesRing DEF Types

\* The handler is called by an interrupt only.
LEMMA HandlerIsCalled ==
  ASSUME Types, [Next]_vars, pc["net"] = "out"
  PROVE  ~Handler /\ pc'["net"] \in {"out", "isr"}
<1> USE DEF GoTo, Levels, Types, Places
<1>1. ~Handler
  <2>1. ~Send("net")
    BY SendMoves DEF SendPlaces
  <2> QED BY <2>1 DEF Handler, ReadStatus, Look, Take, LookAgain, ClearStatus, Ignore, ip_recv_process,
            arp_recv_process, arp_reply, TakeNext
<1>2. CASE CardFound
  BY <1>1, <1>2 DEF CardFound
<1>3. CASE Card \/ \E p \in Packets : Arrive(p)
  BY <1>1, <1>3 DEF Card, Interrupt, TransmitDone, Arrive
<1> QED BY <1>1, <1>2, <1>3, MainLeavesRing

\* While a level sends the send buffer holds its frame, and from some point on the channel
\* leads to the card's memory and counts its bytes.
Holding == {"ready", "select", "low", "high", "count", "start", "load", "rest"}
Directed(l) ==
  /\ pc[l] = "high" => remote = "low"
  /\ pc[l] \in {"count", "start", "load", "rest"} => remote = "tx"
  /\ pc[l] \in {"start", "load", "rest"} => dma = l

\* A step of a level that nothing came between keeps that.
LEMMA FrameIsLoaded ==
  ASSUME NEW l \in Levels, Send(l), ~eth_send(l), DOMAIN pc = Levels, back \in {"wait", "sent"}
  PROVE  /\ pc[l] \in Holding \cup {"loaded", "transmit"} /\ pc'[l] # "eth"
         /\ pc'[l] \in Holding => pc[l] \in Holding /\ UNCHANGED snd_buff
         /\ Directed(l) => Directed(l)'
         /\ pc'[l] = "loaded" => pc[l] = "rest" /\ (Directed(l) => tx_page' = snd_buff)
         /\ pc'[l] = "transmit" => pc[l] = "loaded" /\ UNCHANGED tx_page
<1> USE DEF Holding, GoTo, buffers
<1>1. CASE SendBegins(l) \/ SelectPage(l)
  BY <1>1 DEF SendBegins, SelectPage, Directed
<1>2. CASE SetLow(l) \/ SetHigh(l)
  BY <1>2 DEF SetLow, SetHigh, Directed
<1>3. CASE SetCount(l) \/ StartWrite(l)
  BY <1>3 DEF SetCount, StartWrite, Directed, channel
<1>4. CASE LoadBegins(l)
  BY <1>4 DEF LoadBegins, Directed, command, channel
<1>5. CASE LoadFrame(l)
  <2>1. pc[l] = "rest" /\ pc'[l] = "loaded" /\ UNCHANGED snd_buff
    BY <1>5 DEF LoadFrame
  <2>2. Directed(l) => tx_page' = snd_buff
    BY <1>5, <2>1 DEF LoadFrame, Written, Directed
  <2> QED BY <2>1, <2>2 DEF Directed
<1>6. CASE LoadCompleted(l)
  BY <1>6 DEF LoadCompleted, Directed, card, transmitter
<1>7. CASE Transmit(l)
  <2>1. pc[l] = "transmit" /\ pc'[l] = ReturnTo(l)
    BY <1>7 DEF Transmit
  <2>2. pc'[l] \in {"next", back}
    BY <2>1 DEF ReturnTo
  <2> QED BY <2>1, <2>2 DEF Directed
<1> QED BY <1>1, <1>2, <1>3, <1>4, <1>5, <1>6, <1>7 DEF Send

\* The answer of the handler to the packet that it serves.
Answer == [mac |-> info.packet.sha, type |-> "arp",
           body |-> ArpBody("reply", info.packet.sha, info.packet.spa)]
AnswerInv ==
  /\ pc["net"] = "eth" => snd_buff = [NoFrame EXCEPT !.body = Answer.body]
  /\ pc["net"] \in Holding => snd_buff = Answer
  /\ Directed("net")
  /\ pc["net"] \in {"loaded", "transmit"} => tx_page = Answer

LEMMA AnswerStep ==
  ASSUME Types, AnswerInv, [Next]_vars
  PROVE  AnswerInv'
<1>1. pc \in [Levels -> MainPlaces \cup NetPlaces]
  BY DEF Types, Places
<1>2. CASE pc["net"] = "out"
  BY <1>2, HandlerIsCalled DEF AnswerInv, Directed, Holding
<1>3. CASE pc["net"] # "out" /\ ~Handler /\ ~Card /\ \A p \in Packets : ~Arrive(p)
  BY <1>3, MainWaits DEF vars, AnswerInv, Answer, ArpBody, Directed, Holding, buffers, command,
       channel, card, transmitter, handler, driver
<1>4. CASE Card \/ \E p \in Packets : Arrive(p)
  <2>1. /\ UNCHANGED <<info, local_mac, snd_buff, dma, remote, tx_page>>
        /\ pc'["net"] = pc["net"] \/ pc'["net"] = "isr"
    BY <1>1, <1>4 DEF Card, Interrupt, TransmitDone, Arrive, GoTo, Levels, buffers, command, channel,
         card, transmitter, handler, driver
  <2> QED BY <2>1 DEF AnswerInv, Answer, ArpBody, Directed, Holding
<1>5. CASE Send("net")
  <2>1. UNCHANGED <<info, local_mac>> /\ Answer' = Answer
    BY <1>5, SendKeeps DEF Answer, ArpBody, Levels
  <2>2. CASE eth_send("net")
    <3>1. pc'["net"] = "ready" /\ snd_buff' = Answer
      BY <1>1, <2>2 DEF eth_send, DestinationMAC, EthType, Answer, NoFrame, AnswerInv, GoTo, Levels
    <3> QED BY <2>1, <3>1 DEF AnswerInv, Directed
  <2>3. CASE ~eth_send("net")
    <3>1. back \in {"wait", "sent"} /\ DOMAIN pc = Levels /\ "net" \in Levels
      BY <1>1 DEF Types, Places, Levels
    <3> QED BY <1>5, <2>1, <2>3, <3>1, FrameIsLoaded DEF AnswerInv, Holding
  <2> QED BY <2>2, <2>3
<1>6. CASE arp_reply
  <2>1. snd_buff' = [NoFrame EXCEPT !.body = Answer'.body] /\ pc'["net"] = "eth"
    BY <1>1, <1>6 DEF arp_reply, Answer, ArpBody, GoTo, Levels, handler, driver
  <2> QED BY <2>1 DEF AnswerInv, Directed, Holding
<1>7. CASE Handler /\ ~Send("net") /\ ~arp_reply
  <2>1. pc'["net"] \notin SendPlaces
    BY <1>1, <1>7 DEF Handler, ReadStatus, Look, Take, LookAgain, ClearStatus, Ignore, ip_recv_process,
         arp_recv_process, TakeNext, GoTo, Levels, SendPlaces
  <2> QED BY <2>1 DEF AnswerInv, SendPlaces, Directed, Holding
<1> QED BY <1>2, <1>3, <1>4, <1>5, <1>6, <1>7

\* What the main thread has built, and that an interrupt since then is not forgotten.
Built == [mac |-> DestinationMAC("main"), type |-> EthType("main"), body |-> snd_buff.body]
Sending == {"ip"} \cup SendPlaces
Undisturbed ==
  /\ pc["main"] = "ip" => snd_buff.body = [request EXCEPT !.size = Least(SndRoom, @)]
  /\ pc["main"] = "eth" => FrameMeant(Built)
  /\ pc["main"] \in Holding => FrameMeant(snd_buff)
  /\ Directed("main")
  /\ pc["main"] \in {"loaded", "transmit"} => FrameMeant(tx_page)
BuildInv ==
  /\ request \in [dst : Addresses, size : Nat, byte : Bytes \cup {"none"}]
  /\ pc["main"] \in {"provide", "wait"} \/ (pc["main"] \in SendPlaces /\ back = "wait") =>
       asking \in {request.dst, LocalGate}
  /\ pc["net"] # "out" /\ pc["main"] \in Sending => disturbed
  /\ ~disturbed => Undisturbed

\* Without a call there is no request.
LEMMA NoRequestType == NoRequest \in [dst : Addresses, size : Nat, byte : Bytes \cup {"none"}]
  BY AddressAssumption DEF NoRequest, Addresses

\* The host that a packet goes to.
LEMMA EffectiveIsNextHop ==
  /\ get_effective_ip(request.dst) = NextHop /\ NextHop # LocalIP
  /\ get_effective_ip(LocalGate) = LocalGate
  BY AddressAssumption DEF get_effective_ip, NextHop

\* What a frame was to be depends on the call and the table only.
LEMMA MeaningStays ==
  ASSUME UNCHANGED <<request, back, arp_table>>
  PROVE  \A frame : FrameMeant(frame) => FrameMeant(frame)'
  BY DEF FrameMeant, NextHop, IsFor

\* The steps that are not the main thread's.
LEMMA OthersKeepBuilt ==
  ASSUME Types, BuildInv, [Next]_vars, Handler \/ Card \/ (\E p \in Packets : Arrive(p)) \/ UNCHANGED vars
  PROVE  BuildInv'
<1>1. pc \in [Levels -> MainPlaces \cup NetPlaces]
  BY DEF Types, Places
<1>2. CASE Handler
  <2>1. UNCHANGED <<request, asking, back>> /\ pc'["main"] = pc["main"] /\ pc["net"] # "out"
    <3>1. CASE Send("net")
      BY <1>1, <3>1, SendKeeps, SendMoves DEF Levels, SendPlaces
    <3> QED BY <1>1, <1>2, <3>1 DEF Handler, ReadStatus, Look, Take, LookAgain, ClearStatus, Ignore,
              ip_recv_process, arp_recv_process, arp_reply, TakeNext, GoTo, Levels, program, sending
  <2>2. disturbed => disturbed'
    <3>1. CASE Send("net")
      BY <3>1, SendKeeps DEF Levels
    <3>2. CASE Take
      BY <3>2, Zenon DEF Take
    <3> QED BY <1>2, <3>1, <3>2 DEF Handler, ReadStatus, Look, LookAgain, ClearStatus, Ignore,
              ip_recv_process, arp_recv_process, arp_reply, TakeNext, history
  <2>3. pc["main"] \in Sending => disturbed'
    BY <2>1, <2>2 DEF BuildInv
  <2>4. pc["main"] \notin Sending => Undisturbed'
    BY <2>1 DEF Undisturbed, Sending, SendPlaces, Directed, Holding
  <2> QED BY <2>1, <2>3, <2>4 DEF BuildInv
<1>3. CASE TransmitDone \/ (\E p \in Packets : Arrive(p)) \/ UNCHANGED vars
  <2>1. UNCHANGED <<request, asking, back, hw, pc, disturbed, snd_buff, tx_page, dma, remote,
  arp_table, local_mac, info>>
    BY <1>3 DEF TransmitDone, Arrive, vars, driver, buffers, command, channel, card, transmitter, handler,
         history, program, sending
  <2>2. Built' = Built
    BY <2>1 DEF Built, DestinationMAC, EthType, MacAt
  <2>3. Undisturbed => Undisturbed'
    BY <2>1, <2>2, MeaningStays DEF Undisturbed, Directed, Holding
  <2> QED BY <2>1, <2>3 DEF BuildInv
<1>4. CASE Interrupt
  <2>1. UNCHANGED <<request, asking, back>> /\ pc'["main"] = pc["main"]
    BY <1>1, <1>4 DEF Interrupt, GoTo, Levels, program, sending
  <2>2. pc["main"] \in Sending => disturbed'
    BY <1>4, Zenon DEF Interrupt, Sending, SendPlaces
  <2>3. pc["main"] \notin Sending => Undisturbed'
    BY <2>1 DEF Undisturbed, Sending, SendPlaces, Directed, Holding
  <2> QED BY <2>1, <2>2, <2>3 DEF BuildInv
<1> QED BY <1>2, <1>3, <1>4 DEF Card

\* A send goes on.
LEMMA SendKeepsBuilt ==
  ASSUME Types, BuildInv, Send("main")
  PROVE  BuildInv'
<1>1. pc \in [Levels -> MainPlaces \cup NetPlaces] /\ back \in {"wait", "sent"}
  BY DEF Types, Places
<1>2. UNCHANGED <<request, asking, back, hw, disturbed, arp_table, local_mac, info>> /\ pc["net"] = "out"
  BY SendKeeps, SendMoves, <1>1 DEF Runs, MainRuns, Levels
<1>3. pc'["net"] = "out" /\ pc["main"] \in SendPlaces /\ pc'["main"] \in SendPlaces \cup {back}
  BY <1>1, <1>2, SendMoves DEF ReturnTo, Levels
<1>4. Undisturbed => Undisturbed'
  <2> SUFFICES ASSUME Undisturbed PROVE Undisturbed'
    OBVIOUS
  <2>1. CASE eth_send("main")
    <3>1. snd_buff' = Built /\ pc["main"] = "eth" /\ pc'["main"] = "ready"
      BY <1>1, <2>1 DEF eth_send, Built, GoTo, Levels
    <3>2. FrameMeant(snd_buff)'
      BY <1>2, <3>1 DEF Undisturbed, FrameMeant, NextHop, IsFor
    <3> QED BY <3>1, <3>2 DEF Undisturbed, Directed
  <2>2. CASE ~eth_send("main")
    <3>1. DOMAIN pc = Levels /\ "main" \in Levels
      BY <1>1 DEF Levels
    <3>2. /\ pc["main"] \in Holding \cup {"loaded", "transmit"} /\ pc'["main"] # "eth"
          /\ pc'["main"] \in Holding => pc["main"] \in Holding /\ UNCHANGED snd_buff
          /\ Directed("main")'
          /\ pc'["main"] = "loaded" => pc["main"] = "rest" /\ tx_page' = snd_buff
          /\ pc'["main"] = "transmit" => pc["main"] = "loaded" /\ UNCHANGED tx_page
      BY <1>1, <2>2, <3>1, FrameIsLoaded DEF Undisturbed
    <3>4. pc'["main"] \in Holding => FrameMeant(snd_buff)'
      <4>1. pc'["main"] \in Holding => FrameMeant(snd_buff) /\ UNCHANGED snd_buff
        BY <3>2 DEF Undisturbed
      <4> QED BY <1>2, <4>1 DEF FrameMeant, NextHop, IsFor
    <3>5. pc'["main"] \in {"loaded", "transmit"} => FrameMeant(tx_page)'
      <4>1. pc'["main"] = "loaded" => FrameMeant(snd_buff) /\ tx_page' = snd_buff
        BY <3>2 DEF Undisturbed, Holding
      <4>2. pc'["main"] = "transmit" => FrameMeant(tx_page) /\ UNCHANGED tx_page
        BY <3>2 DEF Undisturbed
      <4> QED BY <1>2, <4>1, <4>2 DEF FrameMeant, NextHop, IsFor
    <3>6. pc'["main"] \notin {"eth", "ip"}
      BY <1>1, <1>3, <3>2 DEF SendPlaces
    <3> QED BY <3>2, <3>4, <3>5, <3>6 DEF Undisturbed
  <2> QED BY <2>1, <2>2
<1> QED BY <1>1, <1>2, <1>3, <1>4 DEF BuildInv, SendPlaces

\* A request to the network asks for the address that is looked for.
LEMMA RequestIsMeant ==
  ASSUME Types, BuildInv, arp_request
  PROVE  BuildInv'
<1>1. pc \in [Levels -> MainPlaces \cup NetPlaces]
  BY DEF Types, Places
<1>2. /\ UNCHANGED <<request, asking, arp_table, local_mac>> /\ pc["net"] = "out"
      /\ pc["main"] = "provide" /\ hw' = Broadcast /\ back' = "wait"
      /\ snd_buff' = [NoFrame EXCEPT !.body = ArpBody("request", BroadcastMAC, get_effective_ip(asking))]
  BY DEF arp_request, MainRuns, driver
<1>3. pc'["net"] = "out" /\ pc'["main"] = "eth"
  BY <1>1, <1>2 DEF arp_request, GoTo, Levels
<1>4. asking \in {request.dst, LocalGate}
  BY <1>2 DEF BuildInv
<1>5. get_effective_ip(asking) \in {NextHop, LocalGate}
  BY <1>4, EffectiveIsNextHop
<1>6. Built' = [mac |-> BroadcastMAC, type |-> "arp",
                body |-> ArpBody("request", BroadcastMAC, get_effective_ip(asking))]
  BY <1>2 DEF Built, DestinationMAC, EthType, MacAt, NoFrame, Local, Broadcast
<1>7. NextHop' = NextHop
  BY <1>2 DEF NextHop
<1>8. FrameMeant(Built)'
  <2> DEFINE frame == Built'
  <2>1. /\ frame.type = "arp" /\ frame.mac = BroadcastMAC
        /\ frame.body.op = "request" /\ frame.body.dpa \in {NextHop', LocalGate}
    BY <1>5, <1>6, <1>7 DEF ArpBody
  <2> QED BY <1>2, <2>1 DEF FrameMeant
<1>9. Undisturbed'
  BY <1>3, <1>8 DEF Undisturbed, Directed, Holding
<1> QED BY <1>2, <1>3, <1>4, <1>9 DEF BuildInv

\* A packet goes to the entry that is found for its next hop.
LEMMA PacketIsMeant ==
  ASSUME Types, BuildInv, ip_send
  PROVE  BuildInv'
<1> DEFINE where == find_mac_in_table(get_effective_ip(request.dst))
<1>1. pc \in [Levels -> MainPlaces \cup NetPlaces]
  BY DEF Types, Places
<1>2. pc["main"] = "ip" /\ pc["net"] = "out" /\ UNCHANGED <<snd_buff, arp_table, local_mac, disturbed>>
  BY DEF ip_send, MainRuns, driver, buffers, history
<1>3. CASE where = NotFound
  <2>1. request' = NoRequest /\ pc'["main"] = "idle" /\ pc'["net"] = "out"
    BY <1>1, <1>2, <1>3 DEF ip_send, Return, GoTo, Levels
  <2> QED BY <2>1, NoRequestType DEF BuildInv, Undisturbed, SendPlaces, Directed, Holding
<1>4. CASE where # NotFound
  <2>1. /\ hw' = where /\ back' = "sent" /\ UNCHANGED <<request, asking>>
        /\ pc'["main"] = "eth" /\ pc'["net"] = "out"
    BY <1>1, <1>2, <1>4 DEF ip_send, GoTo, Levels
  <2>2. where \in Entries /\ arp_table[where].ip = NextHop
    BY <1>4, EffectiveIsNextHop, Found
  <2>3. arp_table[where] = [ip |-> NextHop, mac |-> arp_table[where].mac]
    <3>1. arp_table[where] \in [ip : Addresses, mac : HardwareAddresses]
      BY <2>2 DEF Types, TableType
    <3> HIDE DEF where
    <3> QED BY <2>2, <3>1
  <2>4. where # Local /\ where # Broadcast
    BY <2>2, SizeAssumption DEF Entries, Local, Broadcast
  <2> HIDE DEF where
  <2>5. Built' = [mac |-> arp_table[where].mac, type |-> "ip", body |-> snd_buff.body]
    BY <1>2, <2>1, <2>4 DEF Built, DestinationMAC, EthType, MacAt
  <2>6. ASSUME ~disturbed PROVE FrameMeant(Built)'
    <3>1. snd_buff.body = [request EXCEPT !.size = Least(SndRoom, @)]
      BY <1>2, <2>6 DEF BuildInv, Undisturbed
    <3>4. NextHop' = NextHop
      BY <2>1 DEF NextHop
    <3>5. IsFor(Built, NextHop)'
      BY <1>2, <2>2, <2>3, <2>5, <3>4 DEF IsFor
    <3>6. Built'.type = "ip" /\ Built'.body = snd_buff.body
      BY <2>5
    <3> QED BY <2>1, <3>1, <3>5, <3>6 DEF FrameMeant
  <2>7. ~disturbed => Undisturbed'
    BY <2>1, <2>6 DEF Undisturbed, Directed, Holding
  <2> QED BY <1>2, <2>1, <2>7 DEF BuildInv, SendPlaces
<1> QED BY <1>3, <1>4

LEMMA BuildStep ==
  ASSUME Types, BuildInv, [Next]_vars
  PROVE  BuildInv'
<1>1. pc \in [Levels -> MainPlaces \cup NetPlaces]
  BY DEF Types, Places
<1>2. CASE Handler \/ Card \/ (\E p \in Packets : Arrive(p)) \/ UNCHANGED vars
  BY <1>2, OthersKeepBuilt
<1>3. CASE Send("main")
  BY <1>3, SendKeepsBuilt
<1>4. CASE arp_request
  BY <1>4, RequestIsMeant
<1>5. CASE ip_send
  BY <1>5, PacketIsMeant
<1> USE DEF GoTo, Levels
<1>6. CASE udp_send
  <2>1. /\ snd_buff' = [NoFrame EXCEPT !.body = [request EXCEPT !.size = Least(SndRoom, @)]]
        /\ UNCHANGED request /\ pc["net"] = "out" /\ pc'["net"] = "out" /\ pc'["main"] = "ip"
    BY <1>1, <1>6 DEF udp_send, MainRuns, program, sending
  <2>2. Undisturbed'
    BY <2>1 DEF Undisturbed, NoFrame, Directed, Holding
  <2> QED BY <2>1, <2>2 DEF BuildInv, SendPlaces
<1>7. CASE \E s \in Sends : io_net_send(s)
  <2>1. PICK s \in Sends : io_net_send(s)
    BY <1>7
  <2>2. /\ pc'["main"] \in {"idle", "provide"} /\ pc["net"] = "out" /\ pc'["net"] = "out"
        /\ request' \in {s, request} /\ (pc'["main"] = "provide" => asking' = request'.dst)
    BY <1>1, <2>1 DEF io_net_send, MainRuns
  <2>3. s \in [dst : Addresses, size : Nat, byte : Bytes \cup {"none"}]
    BY SizeAssumption
  <2>4. Undisturbed'
    BY <2>2 DEF Undisturbed, Directed, Holding
  <2> QED BY <2>2, <2>3, <2>4 DEF BuildInv, SendPlaces
<1>8. CASE Provided \/ NotProvided \/ Waited \/ Sent
  <2>1. /\ pc["net"] = "out" /\ pc'["net"] = "out"
        /\ pc'["main"] \in {"provide", "build", "idle"}
        /\ pc'["main"] = "provide" => /\ asking' \in {asking, LocalGate} /\ UNCHANGED request
                                      /\ pc["main"] \in {"provide", "wait"}
        /\ request' \in {request, NoRequest}
    BY <1>1, <1>8 DEF Provided, NotProvided, Waited, Sent, Return, MainRuns
  <2>2. Undisturbed'
    BY <2>1 DEF Undisturbed, Directed, Holding
  <2> QED BY <2>1, <2>2, NoRequestType DEF BuildInv, SendPlaces
<1>9. CASE RecvBegins \/ SetPortBegins \/ AddBroadcast \/ NoCard \/ CardFound
  <2>1. /\ UNCHANGED <<request, pc["net"]>>
        /\ pc'["main"] \in {"idle", "copy", "port", "broadcast", "broadcast_ip"}
    BY <1>1, <1>9 DEF RecvBegins, SetPortBegins, AddBroadcast, AddBroadcastMAC, AddBroadcastIP, NoCard,
         CardFound, program, sending
  <2>2. Undisturbed'
    BY <2>1 DEF Undisturbed, Directed, Holding
  <2> QED BY <2>1, <2>2 DEF BuildInv, Sending, SendPlaces
<1>10. CASE (\E n \in ReadSizes : RecvCopies(n)) \/ RecvReleases \/ \E port \in Ports : SetPortEnds(port)
  <2>1. /\ UNCHANGED <<request, pc["net"]>>
        /\ pc'["main"] \in {"idle", "release"}
    BY <1>1, <1>10 DEF RecvCopies, RecvReleases, SetPortEnds, program, sending
  <2>2. Undisturbed'
    BY <2>1 DEF Undisturbed, Directed, Holding
  <2> QED BY <2>1, <2>2 DEF BuildInv, Sending, SendPlaces
<1> QED BY <1>2, <1>3, <1>4, <1>5, <1>6, <1>7, <1>8, <1>9, <1>10 DEF Next, Call, Main, AddBroadcast

\* The command register shows a transmission, save one that a packet hid.
Loading == {"select", "low", "high", "count", "start", "load", "rest"}
TransmitInv ==
  /\ transmitting => disturbed \/ cr = "transmit"
  /\ \A l \in Levels : pc[l] \in Loading /\ transmitting => disturbed

\* At the start nothing is sent.
LEMMA InitRest ==
  ASSUME Init
  PROVE  AnswerInv /\ BuildInv /\ TransmitInv
<1>1. pc["main"] = "boot" /\ pc["net"] = "out" /\ request = NoRequest
  BY DEF Init, Levels
<1>2. ~transmitting
  BY Zenon DEF Init
<1>3. Undisturbed
  BY <1>1 DEF Undisturbed, Directed, Holding
<1>4. NoRequest \in [dst : Addresses, size : Nat, byte : Bytes \cup {"none"}]
  BY NoRequestType
<1> QED BY <1>1, <1>2, <1>3, <1>4 DEF AnswerInv, BuildInv, TransmitInv, Sending, SendPlaces, Directed,
           Holding

\* What a step transmits, when nothing came between, is what was to be sent (net.c:394-595,
\* 902-910), and the handler's answers go to who asked (net.c:464-480).
THEOREM FramesStayRight == Spec => []FramesAreRight
<1>1. Init => AnswerInv /\ BuildInv
  BY InitRest
<1>2. Types /\ AnswerInv /\ BuildInv /\ [Next]_vars => AnswerInv' /\ BuildInv'
  BY AnswerStep, BuildStep
<1>3. AnswerInv /\ BuildInv => FramesAreRight
  BY DEF AnswerInv, BuildInv, Undisturbed, FramesAreRight, Answer
<1> QED BY <1>1, <1>2, <1>3, TypesAreKept, PTL DEF Spec

LEMMA TransmitStep ==
  ASSUME Types, BuildInv, TransmitInv, [Next]_vars
  PROVE  TransmitInv'
<1> USE DEF GoTo, Levels
<1>1. pc \in [Levels -> MainPlaces \cup NetPlaces]
  BY DEF Types, Places
<1>2. pc["main"] \in Loading /\ pc["net"] # "out" => disturbed
  BY DEF BuildInv, Sending, SendPlaces, Loading
<1>3. ASSUME NEW l \in Levels, Send(l)
      PROVE  TransmitInv'
  <2>1. UNCHANGED disturbed /\ pc' = [pc EXCEPT ![l] = pc'[l]]
    BY <1>1, <1>3, SendKeeps, SendMoves
  <2>2. \A k \in Levels : k # l => pc'[k] = pc[k]
    BY <1>1, <2>1
  <2>3. CASE eth_send(l)
    <3>1. pc'[l] = "ready" /\ UNCHANGED <<transmitting, cr>>
      BY <1>1, <2>3 DEF eth_send, card, transmitter, command
    <3> QED BY <2>1, <2>2, <3>1 DEF TransmitInv, Loading
  <2>4. CASE SendBegins(l)
    <3>1. cr # "transmit" /\ UNCHANGED <<transmitting, cr>>
      BY <2>4 DEF SendBegins, card, transmitter, command
    <3>2. transmitting => disturbed
      BY <3>1 DEF TransmitInv
    <3> QED BY <2>1, <3>1, <3>2 DEF TransmitInv
  <2>5. CASE SelectPage(l) \/ SetLow(l) \/ SetHigh(l) \/ SetCount(l) \/ StartWrite(l)
    <3>1. pc[l] \in Loading /\ UNCHANGED transmitting
      BY <2>5 DEF SelectPage, SetLow, SetHigh, SetCount, StartWrite, card, transmitter, Loading
    <3>2. transmitting => disturbed
      BY <3>1 DEF TransmitInv
    <3> QED BY <2>1, <3>1, <3>2 DEF TransmitInv
  <2>6. CASE LoadBegins(l) \/ LoadFrame(l)
    <3>1. pc[l] \in Loading /\ UNCHANGED transmitting
      BY <2>6, Zenon DEF LoadBegins, LoadFrame, Loading
    <3>2. transmitting => disturbed
      BY <3>1 DEF TransmitInv
    <3> QED BY <2>1, <3>1, <3>2 DEF TransmitInv
  <2>7. CASE LoadCompleted(l)
    <3>1. pc'[l] = "transmit" /\ UNCHANGED <<transmitting, cr>>
      BY <1>1, <2>7 DEF LoadCompleted, card, transmitter, command
    <3> QED BY <2>1, <2>2, <3>1 DEF TransmitInv, Loading
  <2>8. CASE Transmit(l)
    <3>1. cr' = "transmit" /\ pc'[l] \in {"next", back}
      BY <1>1, <2>8 DEF Transmit, ReturnTo
    <3>2. pc'[l] \notin Loading
      BY <3>1 DEF Loading, Types, Places
    <3>3. \A k \in Levels : k # l /\ pc[k] \in Loading => disturbed
      <4>1. Runs(l) /\ pc[l] # "out"
        BY <2>8 DEF Transmit
      <4>2. CASE l = "main"
        <5>1. pc["net"] = "out"
          BY <4>1, <4>2 DEF Runs, MainRuns
        <5> QED BY <4>2, <5>1 DEF Loading
      <4>3. CASE l = "net"
        BY <1>2, <4>1, <4>3
      <4> QED BY <4>2, <4>3
    <3> QED BY <2>1, <2>2, <3>1, <3>2, <3>3 DEF TransmitInv
  <2> QED BY <1>3, <2>3, <2>4, <2>5, <2>6, <2>7, <2>8 DEF Send
<1>5. CASE Handler /\ ~Send("net") /\ ~Take
  BY <1>1, <1>5 DEF TransmitInv, Handler, ReadStatus, Look, LookAgain, ClearStatus, Ignore,
       ip_recv_process, arp_recv_process,
       arp_reply, TakeNext, Loading, command, card, transmitter, history
<1>6. CASE Take
  BY <1>1, <1>6, Zenon DEF TransmitInv, Take, transmitter, Loading
<1>7. CASE Interrupt
  <2>1. pc'["main"] = pc["main"] /\ pc'["net"] = "isr" /\ UNCHANGED <<cr, transmitting>>
    BY <1>1, <1>7 DEF Interrupt, command, card, transmitter
  <2>2. transmitting => disturbed'
    BY <1>7, Zenon DEF Interrupt
  <2> QED BY <2>1, <2>2 DEF TransmitInv, Loading
<1>12. CASE TransmitDone
  <2>1. ~transmitting'
    BY <1>12, Zenon DEF TransmitDone
  <2> QED BY <2>1 DEF TransmitInv
<1>13. CASE (\E p \in Packets : Arrive(p)) \/ UNCHANGED vars
  BY <1>13 DEF TransmitInv, Arrive, command, card, transmitter, vars, history
<1>8. CASE CardFound
  BY <1>1, <1>8 DEF TransmitInv, CardFound, Types, RingType, transmitter, Loading
<1>9. CASE Call \/ NoCard \/ AddBroadcast \/ Provided \/ NotProvided \/ Waited \/ ip_send \/ Sent
  <2>1. pc'["main"] \notin Loading /\ pc'["net"] = pc["net"]
    BY <1>1, <1>9 DEF Call, io_net_send, RecvBegins, SetPortBegins, NoCard, AddBroadcast,
         AddBroadcastMAC, AddBroadcastIP, Provided,
         NotProvided,
         Waited, ip_send, Sent, Return, Loading, Types, Places
  <2>2. UNCHANGED <<cr, transmitting, disturbed>>
    BY <1>9 DEF Call, io_net_send, RecvBegins, SetPortBegins, NoCard, AddBroadcast, AddBroadcastMAC,
         AddBroadcastIP, Provided,
         NotProvided,
         Waited, ip_send, Sent, Return, command, card, transmitter, history
  <2> QED BY <2>1, <2>2 DEF TransmitInv, Loading
<1>10. CASE arp_request \/ udp_send
  <2>1. pc'["main"] \in {"eth", "ip"} /\ pc'["net"] = pc["net"] /\ UNCHANGED <<cr, transmitting>>
    BY <1>1, <1>10 DEF arp_request, udp_send, command, card, transmitter
  <2>2. transmitting /\ disturbed => disturbed'
    BY <1>10, Zenon DEF arp_request, udp_send, FrameBegins
  <2> QED BY <2>1, <2>2 DEF TransmitInv, Loading
<1>11. CASE (\E n \in ReadSizes : RecvCopies(n)) \/ RecvReleases \/ \E port \in Ports : SetPortEnds(port)
  <2>1. pc'["main"] \notin Loading /\ pc'["net"] = pc["net"]
    BY <1>1, <1>11 DEF RecvCopies, RecvReleases, SetPortEnds, Loading
  <2>2. UNCHANGED <<cr, transmitting, disturbed>>
    BY <1>11 DEF RecvCopies, RecvReleases, SetPortEnds, command, card, transmitter, history
  <2> QED BY <2>1, <2>2 DEF TransmitInv, Loading
<1> QED BY <1>3, <1>5, <1>6, <1>7, <1>8, <1>9, <1>10, <1>11, <1>12, <1>13 DEF Next, Main,
     Handler, Card, AddBroadcast, Levels

\* A step that writes to the card's memory does not find it transmitting.
LEMMA LoadsWhenSilent ==
  ASSUME Types, TransmitInv, [Next]_vars, transmitting, ~disturbed'
  PROVE  tx_page' = tx_page
<1>1. CASE \E l \in Levels : LoadBegins(l) \/ LoadFrame(l)
  <2>1. PICK l \in Levels : LoadBegins(l) \/ LoadFrame(l)
    BY <1>1
  <2>2. pc[l] \in Loading /\ UNCHANGED disturbed
    BY <2>1, Zenon DEF LoadBegins, LoadFrame, Loading
  <2> QED BY <2>2 DEF TransmitInv
<1>2. CASE ~\E l \in Levels : LoadBegins(l) \/ LoadFrame(l)
  <2> USE DEF card, transmitter
  <2>1. CASE Call
    BY <2>1 DEF Call, io_net_send, RecvBegins, SetPortBegins
  <2>2. CASE \E l \in Levels : Send(l)
    BY <1>2, <2>2 DEF Send, eth_send, SendBegins, SelectPage, SetLow, SetHigh, SetCount, StartWrite,
         LoadCompleted, Transmit
  <2>3. CASE Handler
    BY <2>2, <2>3 DEF Handler, ReadStatus, Look, Take, LookAgain, ClearStatus, Ignore, ip_recv_process,
         arp_recv_process, arp_reply, TakeNext, Levels
  <2>4. CASE Card \/ \E p \in Packets : Arrive(p)
    BY <2>4 DEF Card, Interrupt, TransmitDone, Arrive
  <2>5. CASE Main
    BY <2>2, <2>5 DEF Main, NoCard, CardFound, AddBroadcastMAC, AddBroadcastIP, Provided, NotProvided,
         arp_request, Waited, udp_send, ip_send, Sent, RecvCopies, RecvReleases, SetPortEnds, Levels
  <2> QED BY <2>1, <2>3, <2>4, <2>5 DEF Next, vars
<1> QED BY <1>1, <1>2

\* ne2k_send's wait for the frame before (net.c:397) keeps that one whole, unless the
\* handler took a packet meanwhile.
THEOREM FramesStayWhole == Spec => FramesStay
<1>1. Init => BuildInv /\ TransmitInv
  BY InitRest
<1>2. Types /\ BuildInv /\ TransmitInv /\ [Next]_vars => BuildInv' /\ TransmitInv'
  BY BuildStep, TransmitStep
<1>3. Types /\ TransmitInv /\ [Next]_vars =>
        [transmitting /\ transmitting' /\ ~disturbed' => tx_page' = tx_page]_vars
  BY LoadsWhenSilent
<1> QED BY <1>1, <1>2, <1>3, TypesAreKept, PTL DEF Spec, FramesStay
=============================================================================
