-------------------------------- MODULE Wire --------------------------------
(***************************************************************************)
(* What travels in datagrams: the layouts of src/serialize.c, the buffers  *)
(* they are received in, and the program of python/, which sets the place  *)
(* of a process, subscribes to it and reads what it publishes.  One        *)
(* datagram is under way at a time; what is lost, delayed or reordered is  *)
(* the subject of module Network.                                          *)
(*                                                                         *)
(* The buffer for a peer's datagram comes from malloc and may still hold   *)
(* what the last one left; the buffer for local requests is kept and       *)
(* cleared.  Of the bytes that are read beyond a buffer all have one value *)
(* here: nothing depends on them.                                          *)
(***************************************************************************)
EXTENDS UPack, SequencesExt

CONSTANTS
  SizeRange,      \* 2^16: the size of a packet is passed in 16 bits
  PeerBuffer,     \* MAX_PAYLOAD_BYTESIZE
  LocalBuffer,    \* LOCAL_SOCK_BUF_SIZE
  UserBuffer,     \* the longest datagram that the user's program reads
  AddrMaxLength,  \* LOCAL_ADDR_MAX_LENGTH
  Collections,    \* what peers send
  MaxNumSubs,     \* MAX_NUM_SUBSCRIBERS
  Positions,      \* the latitudes and longitudes that are set
  Ranges,         \* the coordination ranges that are set
  Paths           \* the socket paths that are named

HeaderSize == 5
NodeSize   == 38
PositionRequestSize == 17   \* a type and two doubles

(* struct Node, without the utility.                                       *)
Word16   == 0..(Pow2[2 * ByteBits] - 1)
Word32   == 0..(Pow2[4 * ByteBits] - 1)
WireNode == [ nodeID : Word32, lat : Int, lon : Int, coordRange : Word16,
              ipAddr : Word32, port : Word16, radac_ip : Word32,
              radac_port : Word16, timeStamp : Word32 ]

(* The buffers hold a header and a request, and every type of request and  *)
(* payload fits a byte.  What is set and sent are doubles, and a list has  *)
(* never as many nodes as 16 bits can count: P2PDPRD_NODES_MAX_SIZE.       *)
ASSUME SizesAssumption ==
  /\ {SizeRange, PeerBuffer, LocalBuffer, UserBuffer, AddrMaxLength} \subseteq Nat
  /\ SizeRange > 0 /\ PeerBuffer >= HeaderSize /\ UserBuffer >= HeaderSize
  /\ LocalBuffer >= AddrMaxLength /\ LocalBuffer >= PositionRequestSize
  /\ MaxNumSubs \in Nat
  /\ Base > 4
  /\ Positions # {} /\ Positions \subseteq [lat : Double, lon : Double]
  /\ Ranges # {} /\ Ranges \subseteq Word16
  /\ \A c \in Collections : /\ c.versionID \in Word16
                            /\ c.payloadType \in 0..(Base - 1)
                            /\ c.nodes \in Seq(WireNode)
                            /\ Len(c.nodes) + 1 \in Word16
                            /\ \A n \in Range(c.nodes) : {n.lat, n.lon} \subseteq Double
ASSUME PathsAssumption ==
  \A p \in Paths : p \in Seq(1..(Base - 1)) /\ Len(p) < AddrMaxLength

VARIABLES
  place,     \* CLIENT_lat, CLIENT_lon, CLIENT_coordRange
  subs,      \* the paths in the subscriber list
  received,  \* the nodes of a collection that was just received
  stuck,     \* the process is in enc754 and will not return
  heap,      \* what the last peer's datagram left in its buffer
  local,     \* local_sock_buf
  datagram,  \* the datagram under way
  content,   \* history: what was packed in it
  told,      \* the nodes that the user's program has just read
  asked,     \* history: the place that the user asked for
  accepted   \* history: the paths the user named while there was room for one
             \* more, and has not taken back

memory == <<heap, local>>
wishes == <<asked, accepted>>
vars   == <<place, subs, received, stuck, memory, datagram, content, told, wishes>>

NoDatagram == [to |-> "nobody", bytes |-> <<>>]
Zeros(n)   == [k \in 1..n |-> 0]

Cut(bytes, n) == IF Len(bytes) > n THEN SubSeq(bytes, 1, n) ELSE bytes

(* A buffer after a datagram was read into it: what does not fit is cut.   *)
Filled(buffer, bytes) ==
  [k \in DOMAIN buffer |-> IF k <= Len(bytes) THEN bytes[k] ELSE buffer[k]]

-----------------------------------------------------------------------------
(* Collections of nodes                                                    *)

PackNode(n) ==
  Pack32(n.nodeID) \o PackDouble(n.lat) \o PackDouble(n.lon) \o Pack16(n.coordRange)
    \o Pack32(n.ipAddr) \o Pack16(n.port) \o Pack32(n.radac_ip) \o Pack16(n.radac_port)
    \o Pack32(n.timeStamp)

(* NodeCollection_pack.                                                    *)
PackCollection(c) ==
  Pack16(c.versionID) \o Pack8(c.payloadType) \o Pack16(Len(c.nodes))
    \o FlattenSeq([i \in DOMAIN c.nodes |-> PackNode(c.nodes[i])])

(* A node at an offset, of which the position is decoded apart: the daemon *)
(* and the Python program differ in that.                                  *)
UnpackNode(buf, o, lat, lon) ==
  [ nodeID     |-> Unpack32(buf, o),
    lat        |-> lat,
    lon        |-> lon,
    coordRange |-> Unpack16(buf, o + 20),
    ipAddr     |-> Unpack32(buf, o + 22),
    port       |-> Unpack16(buf, o + 26),
    radac_ip   |-> Unpack32(buf, o + 28),
    radac_port |-> Unpack16(buf, o + 32),
    timeStamp  |-> Unpack32(buf, o + 34) ]

(* Mutant: the offset of a node does not count the header.                 *)
UnpackCollectionUnshifted(buf, beyond) ==
  LET count  == Unpack16(buf, 3)
      all    == buf \o [k \in 1..(NodeSize * count) |-> beyond]
  IN  [ versionID   |-> Unpack16(buf, 0),
        payloadType |-> Unpack8(buf, 2),
        nodes       |-> [i \in 1..count |->
                           LET o == NodeSize * (i - 1)
                           IN  UnpackNode(all, o, UnpackDouble(all, o + 4),
                                          UnpackDouble(all, o + 12))] ]

(* NodeCollection_unpack: as many nodes as the header says, whatever was   *)
(* received.  Their utilities are what malloc left and are left out.       *)
UnpackCollection(buf, beyond) ==
  LET count  == Unpack16(buf, 3)
      all    == buf \o [k \in 1..(NodeSize * count) |-> beyond]
  IN  [ versionID   |-> Unpack16(buf, 0),
        payloadType |-> Unpack8(buf, 2),
        nodes       |-> [i \in 1..count |->
                           LET o == HeaderSize + NodeSize * (i - 1)
                           IN  UnpackNode(all, o, UnpackDouble(all, o + 4),
                                          UnpackDouble(all, o + 12))] ]

Packable(c) == \A n \in Range(c.nodes) : Finite(n.lat) /\ Finite(n.lon)

-----------------------------------------------------------------------------
(* Local requests                                                          *)

SET_POSITION           == 0
SET_COORDINATION_RANGE == 1
SET_POS_AND_RANGE      == 2
SUB_CANDNODES          == 3
UNSUB_CANDNODES        == 4

Requests ==
  {[type |-> SET_POSITION, lat |-> p.lat, lon |-> p.lon] : p \in Positions}
    \cup [type : {SET_COORDINATION_RANGE}, coord_range : Ranges]
    \cup [type : {SUB_CANDNODES, UNSUB_CANDNODES}, sock_path : Paths]

(* IPCMessage.pack of the Python program.                                  *)
PackRequest(r) ==
  Pack8(r.type) \o
    CASE r.type = SET_POSITION -> Pack64(IEEEBits(r.lat)) \o Pack64(IEEEBits(r.lon))
      [] r.type = SET_COORDINATION_RANGE -> Pack16(r.coord_range)
      [] OTHER -> r.sock_path

(* snprintf: up to the first zero, and no more than fits with one.         *)
StringAt(buf, o) ==
  LET ends == {k \in 0..(Len(buf) - o) : k = Len(buf) - o \/ buf[o + k + 1] = 0}
      len  == CHOOSE k \in ends : \A j \in ends : k <= j
  IN  At(buf, o, IF len < AddrMaxLength THEN len ELSE AddrMaxLength - 1)

(* SubscriberList_addSub: a full list takes no more.                       *)
AddSub(list, path) == IF Cardinality(list) < MaxNumSubs THEN list \cup {path} ELSE list
-----------------------------------------------------------------------------
Init ==
  /\ place \in {[lat |-> p.lat, lon |-> p.lon, coordRange |-> r] :
                 p \in Positions, r \in Ranges}
  /\ subs = {}
  /\ received = <<>>
  /\ stuck = FALSE
  /\ heap = Zeros(PeerBuffer)
  /\ local = Zeros(LocalBuffer)
  /\ datagram = NoDatagram
  /\ content = NoDatagram
  /\ told = <<>>
  /\ asked = place
  /\ accepted = {}
Transmit(to, bytes, what) ==
  /\ datagram = NoDatagram
  /\ datagram' = [to |-> to, bytes |-> bytes]
  /\ content' = what
  /\ received' = <<>> /\ told' = <<>>

(* Another process packs c and sends it: IO_sendBytes takes the size as 16 *)
(* bits.                                                                   *)
PeerSends(c) ==
  /\ Packable(c)
  /\ LET bytes == PackCollection(c)
     IN  Transmit("peer", SubSeq(bytes, 1, Len(bytes) % SizeRange), c)
  /\ UNCHANGED <<place, subs, stuck, memory, wishes>>

(* The first steps of Protocol_receiveFromPeer.                            *)
ReceiveFromPeer ==
  /\ datagram.to = "peer" /\ ~stuck
  /\ \E buffer \in {heap, Zeros(PeerBuffer)}, beyond \in {0, Base - 1} :
       /\ heap' = Filled(buffer, datagram.bytes)
       /\ received' = UnpackCollection(heap', beyond).nodes
  /\ datagram' = NoDatagram
  /\ UNCHANGED <<place, subs, stuck, local, content, told, wishes>>

(* The user's program sends a request.                                     *)
UserAsks(r) ==
  /\ Transmit("process", PackRequest(r), r)
  /\ asked' = CASE r.type = SET_POSITION -> [asked EXCEPT !.lat = r.lat, !.lon = r.lon]
                [] r.type = SET_COORDINATION_RANGE ->
                     [asked EXCEPT !.coordRange = r.coord_range]
                [] OTHER -> asked
  /\ accepted' =
       CASE r.type = SUB_CANDNODES /\ Cardinality(accepted) < MaxNumSubs ->
              accepted \cup {r.sock_path}
         [] r.type = UNSUB_CANDNODES -> accepted \ {r.sock_path}
         [] OTHER -> accepted
  /\ UNCHANGED <<place, subs, stuck, memory>>

(* Mutant: the buffer is not cleared.                                      *)
LocalReceivedUncleared == Filled(local, datagram.bytes)

(* memset and recv on the local socket.                                    *)
LocalReceived == Filled(Zeros(LocalBuffer), datagram.bytes)

(* LocalRequest_unpack and LocalIO_handleRequest.  A deprecated request    *)
(* and one of no known type change nothing.                                *)
HandleRequest ==
  /\ datagram.to = "process" /\ ~stuck
  /\ local' = LocalReceived
  /\ LET type == Unpack8(local', 0)
     IN  /\ place' =
              CASE type = SET_POSITION ->
                     [place EXCEPT !.lat = UnpackDouble(local', 1),
                                   !.lon = UnpackDouble(local', 9)]
                [] type = SET_COORDINATION_RANGE ->
                     [place EXCEPT !.coordRange = Unpack16(local', 1)]
                [] OTHER -> place
         /\ subs' = CASE type = SUB_CANDNODES -> AddSub(subs, StringAt(local', 1))
                      [] type = UNSUB_CANDNODES -> subs \ {StringAt(local', 1)}
                      [] OTHER -> subs
  /\ datagram' = NoDatagram
  /\ UNCHANGED <<received, stuck, heap, content, told, wishes>>

-----------------------------------------------------------------------------
(* The publication                                                         *)

OwnNode ==
  [ nodeID |-> 1, lat |-> place.lat, lon |-> place.lon, coordRange |-> place.coordRange,
    ipAddr |-> 1, port |-> 1, radac_ip |-> 1, radac_port |-> 1, timeStamp |-> 1 ]

(* LocalIO_sendCandidateNodes, of the own node and candidates that peers   *)
(* may have sent.  With an infinite position enc754 does not return.       *)
Publish(candidates) ==
  LET c == [versionID |-> 1, payloadType |-> 4, nodes |-> <<OwnNode>> \o candidates]
  IN  /\ ~stuck /\ subs # {}
      /\ IF Packable(c)
         THEN /\ Transmit("user", PackCollection(c), c)
              /\ UNCHANGED stuck
         ELSE /\ datagram = NoDatagram
              /\ stuck' = TRUE
              /\ UNCHANGED <<datagram, content, received, told>>
      /\ UNCHANGED <<place, subs, memory, wishes>>

(* NodeCollection.from_bytes of the Python program: it takes the nodes     *)
(* from slices of the datagram, and fails when one is too short.           *)
UserReads ==
  /\ datagram.to = "user"
  /\ LET bytes  == Cut(datagram.bytes, UserBuffer)
         count  == Unpack16(bytes, 3)
         double(o) == IEEEValue(Unpack64(bytes, o))
     IN  told' = IF Len(bytes) < HeaderSize + NodeSize * count THEN told
                 ELSE [i \in 1..count |->
                         LET o == HeaderSize + NodeSize * (i - 1)
                         IN  UnpackNode(bytes, o, double(o + 4), double(o + 12))]
  /\ datagram' = NoDatagram
  /\ UNCHANGED <<place, subs, received, stuck, memory, content, wishes>>

Next ==
  \/ \E c \in Collections : PeerSends(c) \/ Publish(c.nodes)
  \/ \E r \in Requests : UserAsks(r)
  \/ ReceiveFromPeer \/ HandleRequest \/ UserReads

Spec == Init /\ [][Next]_vars

-----------------------------------------------------------------------------
(* Properties                                                              *)

(* The type invariant.                                                     *)
TypeOK ==
  /\ place \in [lat : Double, lon : Double, coordRange : Word16]
  /\ \A list \in {subs, accepted} :
       list \subseteq Paths /\ IsFiniteSet(list) /\ Cardinality(list) <= MaxNumSubs
  /\ received \in Seq(WireNode) /\ told \in Seq(WireNode)
  /\ stuck \in BOOLEAN
  /\ heap \in [1..PeerBuffer -> 0..(Base - 1)]
  /\ local \in [1..LocalBuffer -> 0..(Base - 1)]
  /\ datagram \in [to : {"nobody", "peer", "process", "user"}, bytes : Seq(0..(Base - 1))]
  /\ asked \in [lat : Double, lon : Double, coordRange : Word16]

(* The datagram to that receiver has just been read.                       *)
Read(receiver) == datagram.to = receiver /\ datagram'.to = "nobody"

(* The two sequences of nodes agree up to n, where the positions are       *)
(* numbers with a full significand.                                        *)
AgreeUpTo(n, s, t) ==
  \A i \in 1..n : Normal(s[i].lat) /\ Normal(s[i].lon) => t[i] = s[i]

(* Two processes understand each other: every node that arrives with all   *)
(* its bytes is unpacked as it was packed, whatever the buffer held        *)
(* before and however many nodes the datagram was cut short of.            *)
PeersUnderstood ==
  [][Read("peer") =>
       LET size == Len(Cut(datagram.bytes, PeerBuffer))
       IN  AgreeUpTo((size - HeaderSize) \div NodeSize, content.nodes, received')]_vars

(* After every request the process is where the user put it and has the    *)
(* range the user gave it, whatever requests came in between.              *)
PlaceAsAsked ==
  datagram.to # "process" =>
    /\ place.coordRange = asked.coordRange
    /\ Normal(asked.lat) => place.lat = asked.lat
    /\ Normal(asked.lon) => place.lon = asked.lon

(* The subscribed paths are those the user named while the list had room:  *)
(* neither is another path subscribed for one of them, though all requests *)
(* are read into one buffer and a path has no end in its datagram, nor     *)
(* does one refused for a full list (io.c:290) or taken back hold a place. *)
SubscribedAsAccepted == datagram.to # "process" => subs = accepted

(* What the user's program reads is what the process published, and the    *)
(* first node is at the place the user asked for: what the struct module   *)
(* of Python packs and what enc754 packs is the same, and so is the layout.*)
UserInformed ==
  [][Read("user") /\ Len(datagram.bytes) <= UserBuffer =>
       /\ Len(told') = Len(content.nodes)
       /\ AgreeUpTo(Len(told'), content.nodes, told')
       /\ Normal(asked.lat) => told'[1].lat = asked.lat
       /\ Normal(asked.lon) => told'[1].lon = asked.lon]_vars
=============================================================================
