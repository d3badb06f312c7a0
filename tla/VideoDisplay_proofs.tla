------------------------- MODULE VideoDisplay_proofs -------------------------
(***************************************************************************)
(* Proofs about VideoDisplay, for any frames, packets, pool and delay.     *)
(*                                                                         *)
(* ThreadInv says, for each state of the display and each place of the     *)
(* closing thread, where the two threads are, whether the pool is there    *)
(* and whose cancellation is pending.  Of the packets it needs that none   *)
(* has been counted before the decoder runs.  It gives RunMeansReceiving.  *)
(* PoolInv counts the nodes of the pool, the one between PickPack and      *)
(* ReturnNode included; LockInv says who holds the node lock meanwhile,    *)
(* and StreamInv what a packet may be.  It gives NodesConserved.           *)
(*                                                                         *)
(* OrderInv follows the packets: all are cut as prepare_for_next_fragment  *)
(* cuts them, and those in the dec thread's hands, in the socket and still *)
(* with the camera are in the order they were sent in.  BuildInv says that *)
(* a node was fed packets of its frame that precede all these; so a frame  *)
(* with every number in it has every packet in its place, and no packet    *)
(* comes for it any more.  They give WholeFramesOnly and FramesInOrder.    *)
(* CountInv is the semaphore's count: the recv task never runs off the     *)
(* list.  With ThreadInv, which has the pool there in every state but STOP *)
(* when the dec thread has a packet, it gives BuffersAccounted.            *)
(***************************************************************************)
EXTENDS VideoDisplay, FiniteSetTheorems, SequenceTheorems, TLAPS

Receiving == dec \in {"receive", "packet"}
Decoding  == recv \in {"wait", "woken", "picked", "decode"}

(* The display is idle: at most a task of an earlier start is left, which  *)
(* failed after it had bound the port.                                     *)
IdleInv == state = "IDLE" =>
  /\ closer = "idle" /\ cancel = {} /\ dec = "none"
  /\ recv \in {"none", "init"} \/ (recv = "wait" /\ sem = 0)
  /\ ~ bound => recv = "none"

StartInv == state = "START" =>
  /\ closer = "idle" /\ cancel = {} /\ dec = "init" /\ bound
  /\ \/ recv = "init" /\ pool = "none"
     \/ recv = "wait" /\ pool = "ready" /\ sem = 0

RunInv == state = "RUN" =>
  /\ closer = "idle" /\ cancel = {} /\ Receiving /\ Decoding
  /\ bound /\ pool = "ready"

StopInv == state = "STOP" =>
  \/ /\ closer = "sleep" /\ cancel = {} /\ Receiving /\ Decoding /\ pool = "ready"
  \/ /\ closer = "close recv" /\ Receiving
     /\ \/ Decoding /\ cancel = {"recv"} /\ pool = "ready"
        \/ recv = "cleanup" /\ cancel = {} /\ pool = "ready"
        \/ recv = "none" /\ cancel = {} /\ pool = "none"
  \/ /\ closer = "close dec" /\ recv = "none" /\ pool = "none"
     /\ \/ Receiving /\ cancel = {"dec"}
        \/ dec = "none" /\ cancel = {}

ThreadInv == /\ state \in {"IDLE", "START", "RUN", "STOP"}
             /\ recv = "none" => pool = "none"
             /\ IdleInv /\ StartInv /\ RunInv /\ StopInv
-----------------------------------------------------------------------------
LEMMA ZeroIsNotPositive == ~ (0 > 0)
OBVIOUS

LEMMA ThreadInit == Init => ThreadInv
BY DEF Init, ThreadInv, IdleInv, StartInv, RunInv, StopInv

LEMMA ThreadStep == ThreadInv /\ [Next]_vars => ThreadInv'
<1> SUFFICES ASSUME ThreadInv, [Next]_vars PROVE ThreadInv'
  OBVIOUS
<1> USE DEF ThreadInv, IdleInv, StartInv, RunInv, StopInv, Receiving, Decoding,
            threads, display, video_process_state_set, join_multicast_group2, leave_multicast_group2,
            start_udp_recv_task
<1>1. CASE Encode
  BY <1>1 DEF Encode
<1>2. CASE Transmit
  BY <1>2 DEF Transmit
<1>3. CASE EnableVideoDisplay
  BY <1>3 DEF EnableVideoDisplay
<1>5. CASE DisableVideoDisplay
  BY <1>5 DEF DisableVideoDisplay
<1>7. CASE close_udp_recv_task
  BY <1>7 DEF close_udp_recv_task
<1>8. CASE CancelDec
  BY <1>8 DEF CancelDec
<1>9. CASE Disabled
  BY <1>9 DEF Disabled
<1>10. CASE DecOpens
  BY <1>10 DEF DecOpens
<1>11. CASE DecFails
  BY <1>11 DEF DecFails
<1>12. CASE DecReceives
  BY <1>12 DEF DecReceives
<1>13. CASE DecProcPack
  BY <1>13 DEF DecProcPack
<1>14. CASE DecCancelled
  <2>1. "dec" \in cancel /\ cancel' = cancel \ {"dec"}
    BY <1>14 DEF DecCancelled
  <2>2. "dec" \notin {} /\ "dec" \notin {"recv"} /\ {"dec"} \ {"dec"} = {}
    OBVIOUS
  <2>3. state = "STOP" /\ closer = "close dec" /\ cancel' = {}
    BY <2>1, <2>2
  <2>4. QED
    BY <1>14, <2>3 DEF DecCancelled
<1>15. CASE RecvInits
  BY <1>15 DEF RecvInits, InitNode
<1>16. CASE RecvWakes
  <2>1. sem # 0
    BY <1>16, ZeroIsNotPositive DEF RecvWakes
  <2>2. state \in {"RUN", "STOP"}
    BY <1>16, <2>1 DEF RecvWakes
  <2>3. QED
    BY <1>16, <2>2 DEF RecvWakes
<1>17. CASE RecvPicks
  BY <1>17 DEF RecvPicks
<1>18. CASE RecvReturnsNode
  BY <1>18 DEF RecvReturnsNode
<1>19. CASE RecvDecodes
  BY <1>19 DEF RecvDecodes
<1>20. CASE RecvCancelled
  BY <1>20 DEF RecvCancelled
<1>21. CASE cleanup_udp_recv_task
  BY <1>21 DEF cleanup_udp_recv_task
<1>22. CASE UNCHANGED vars
  BY <1>22 DEF vars
<1>23. QED
  BY <1>1, <1>2, <1>3, <1>5, <1>7, <1>8, <1>9, <1>10, <1>11, <1>12,
     <1>13, <1>14, <1>15, <1>16, <1>17, <1>18, <1>19, <1>20, <1>21, <1>22
  DEF Next, CameraNext, CallNext, CloseNext, DecNext, RecvNext

(* In state RUN both threads are alive and uncancelled, the pool is there  *)
(* and the port bound, whatever devices failed before: what                *)
(* DisableVideoDisplay cancels, joins and closes exists.                   *)
THEOREM RunIsComplete == Spec => []RunMeansReceiving
<1>1. ThreadInv => RunMeansReceiving
  BY DEF ThreadInv, RunInv, Receiving, Decoding, RunMeansReceiving
<1>2. QED
  BY <1>1, ThreadInit, ThreadStep, PTL DEF Spec

-----------------------------------------------------------------------------
(* Conservation of nodes.  PoolInv is NodesConserved with the types its    *)
(* arithmetic needs; LockInv says who holds the lock, hence when a node is *)
(* in the hands of the recv task.                                          *)

Headers == [frame : Int, total : Int, cur : Int, len : Int, size : Int]
Buffers == UNION {[D -> Int] : D \in SUBSET Int}
Frames  == [frame : Int, total : Int, got : SUBSET Int, len : Int,
            buf : Buffers, size : Int]
Cameras == [at : {"encode", "send"}, frame : Int, size : Int, total : Int,
            cur : Int, len : Int, offset : Int, last : BOOLEAN]

InHand == IF lock = "recv" /\ recv # "decode" THEN 1 ELSE 0

LockInv == /\ lock \in {"free", "recv"}
           /\ recv \in {"picked", "decode"} => lock = "recv"
           /\ lock = "recv" => recv \in {"picked", "decode", "cleanup"}

StreamInv == /\ camera \in Cameras
             /\ net \in Seq(Headers)
             /\ dec = "packet" => packet \in Headers

PoolInv == pool = "ready" => /\ nodes \in Seq(Frames)
                             /\ free \in Int
                             /\ Len(nodes) + free + InHand = BufCount
-----------------------------------------------------------------------------
LEMMA LockStep == ThreadInv /\ LockInv /\ [Next]_vars => LockInv'
<1> SUFFICES ASSUME ThreadInv, LockInv, [Next]_vars PROVE LockInv'
  OBVIOUS
<1> USE DEF LockInv, threads, display, video_process_state_set, join_multicast_group2, leave_multicast_group2,
            start_udp_recv_task
<1>1. CASE CameraNext
  BY <1>1 DEF CameraNext, Encode, Transmit
<1>2. CASE EnableVideoDisplay
  <2>1. recv \in {"none", "init", "wait"}
    BY <1>2 DEF EnableVideoDisplay, ThreadInv, IdleInv
  <2>2. QED
    BY <1>2, <2>1 DEF EnableVideoDisplay
<1>3. CASE DisableVideoDisplay
  BY <1>3 DEF DisableVideoDisplay
<1>4. CASE CloseNext
  BY <1>4 DEF CloseNext, close_udp_recv_task, CancelDec, Disabled
<1>5. CASE DecNext
  BY <1>5 DEF DecNext, DecOpens, DecFails, DecReceives, DecProcPack, DecCancelled
<1>6. CASE RecvInits \/ RecvWakes
  BY <1>6 DEF RecvInits, RecvWakes
<1>7. CASE RecvPicks
  BY <1>7 DEF RecvPicks
<1>8. CASE RecvReturnsNode \/ RecvDecodes \/ RecvCancelled
  BY <1>8 DEF RecvReturnsNode, RecvDecodes, RecvCancelled
<1>9. CASE cleanup_udp_recv_task
  BY <1>9 DEF cleanup_udp_recv_task
<1>10. CASE UNCHANGED vars
  BY <1>10 DEF vars
<1>11. QED
  BY <1>1, <1>2, <1>3, <1>4, <1>5, <1>6, <1>7, <1>8, <1>9, <1>10
  DEF Next, CallNext, RecvNext

LEMMA StreamStep == ThreadInv /\ StreamInv /\ [Next]_vars => StreamInv'
<1> SUFFICES ASSUME ThreadInv, StreamInv, [Next]_vars PROVE StreamInv'
  OBVIOUS
<1> USE DEF StreamInv, threads, display, video_process_state_set, join_multicast_group2, leave_multicast_group2,
            start_udp_recv_task
<1>1. CASE Encode
  <2> SUFFICES ASSUME NEW size \in Sizes, start_send_fragment_head(size)
               PROVE  camera' \in Cameras
    BY <1>1 DEF Encode
  <2>1. size \in Int /\ FragSize \in Int /\ Packets(size) \in Int
    BY SizesAssumption, FragSizeAssumption DEF Packets
  <2>2. QED
    BY <2>1 DEF start_send_fragment_head, Cameras
<1>2. CASE Transmit
  <2>1. camera' \in Cameras
    <3>1. CASE camera.last
      <4>1. camera' = [camera EXCEPT !.at = "encode"]
        BY <1>2, <3>1 DEF Transmit, SendFragment, prepare_for_next_fragment
      <4>2. QED
        BY <4>1 DEF Cameras
    <3>2. CASE ~ camera.last
      <4> DEFINE o == camera.offset + camera.len
                 c == camera.cur + 1
                 l == c >= camera.total
                 n == IF l THEN camera.size - o ELSE FragSize
      <4>1. camera' = [camera EXCEPT !.offset = o, !.cur = c, !.last = l, !.len = n]
        BY <1>2, <3>2 DEF Transmit, SendFragment, prepare_for_next_fragment
      <4>2. o \in Int /\ c \in Int /\ l \in BOOLEAN /\ n \in Int
        BY FragSizeAssumption DEF Cameras
      <4> HIDE DEF o, c, l, n
      <4>3. QED
        BY <4>1, <4>2 DEF Cameras
    <3>3. QED
      BY <3>1, <3>2
  <2>2. Packet \in Headers
    BY DEF Packet, Headers, Cameras
  <2>3. net' \in Seq(Headers)
    BY <1>2, <2>2, AppendProperties DEF Transmit, SendFragment
  <2>4. QED
    BY <1>2, <2>1, <2>3 DEF Transmit
<1>3. CASE CallNext
  <2>1. UNCHANGED <<camera, net, packet>> /\ (dec' = "packet" => dec = "packet")
    BY <1>3 DEF CallNext, EnableVideoDisplay, DisableVideoDisplay
  <2>2. QED
    BY <2>1
<1>4. CASE CloseNext
  <2>1. /\ UNCHANGED <<camera, packet, dec>>
        /\ net' = net \/ net' = <<>>
    BY <1>4 DEF CloseNext, close_udp_recv_task, CancelDec, Disabled
  <2>2. <<>> \in Seq(Headers)
    OBVIOUS
  <2>3. QED
    BY <2>1, <2>2
<1>5. CASE DecReceives
  <2>1. Head(net) \in Headers /\ Tail(net) \in Seq(Headers)
    BY <1>5, HeadTailProperties DEF DecReceives
  <2>2. QED
    BY <1>5, <2>1 DEF DecReceives
<1>6. CASE DecOpens \/ DecFails \/ DecProcPack \/ DecCancelled
  <2>1. UNCHANGED <<camera, net>> /\ dec' # "packet"
    BY <1>6 DEF DecOpens, DecFails, DecProcPack, DecCancelled
  <2>2. QED
    BY <2>1
<1>7. CASE RecvNext
  <2>1. UNCHANGED <<camera, net, packet, dec>>
    BY <1>7 DEF RecvNext, RecvInits, RecvWakes, RecvPicks, RecvReturnsNode,
                RecvDecodes, RecvCancelled, cleanup_udp_recv_task
  <2>2. QED
    BY <2>1
<1>8. CASE UNCHANGED vars
  BY <1>8 DEF vars
<1>9. QED
  BY <1>1, <1>2, <1>3, <1>4, <1>5, <1>6, <1>7, <1>8 DEF Next, CameraNext, DecNext

(* Processing one packet moves at most one node, between the two lists.    *)
LEMMA ProcPackConserves ==
  ASSUME NEW p \in Headers, nodes \in Seq(Frames), free \in Int, ProcPack(p)
  PROVE  /\ nodes' \in Seq(Frames) /\ free' \in Int
         /\ Len(nodes') + free' = Len(nodes) + free
<1> USE DEF packets
<1>1. CASE UNCHANGED packets
  BY <1>1
<1>2. CASE nodes' = Append(nodes, AddNode(p)) /\ free' = free - 1
  <2>1. [i \in {1} |-> p.cur] \in [{1} -> Int] /\ {1} \in SUBSET Int
    BY DEF Headers
  <2>2. AddNode(p) \in Frames
    BY <2>1 DEF AddNode, Frames, Headers, Buffers
  <2>3. QED
    BY <1>2, <2>2, AppendProperties
<1>3. ASSUME NEW i \in FindNode(p),
             nodes' = [nodes EXCEPT ![i] = AppendToNode(@, p)], free' = free
      PROVE  nodes' \in Seq(Frames) /\ Len(nodes') = Len(nodes)
  <2>1. i \in 1 .. Len(nodes) /\ nodes[i] \in Frames
    BY DEF FindNode
  <2>2. AppendToNode(nodes[i], p) \in Frames
    <3> DEFINE n == nodes[i]
               b == [k \in DOMAIN n.buf \cup {p.cur} |->
                       IF k = p.cur THEN p.cur ELSE n.buf[k]]
    <3>1. PICK D \in SUBSET Int : n.buf \in [D -> Int]
      BY <2>1 DEF Frames, Buffers
    <3>2. D \cup {p.cur} \in SUBSET Int /\ b \in [D \cup {p.cur} -> Int]
      BY <3>1 DEF Headers
    <3>3. b \in Buffers
      BY <3>2 DEF Buffers
    <3>4. n \in Frames /\ n.got \cup {p.cur} \in SUBSET Int /\ n.len + p.len \in Int
      BY <2>1 DEF Frames, Headers
    <3>5. [n EXCEPT !.got = @ \cup {p.cur}, !.len = @ + p.len, !.buf = b] \in Frames
      BY <3>3, <3>4 DEF Frames
    <3>6. QED
      BY <3>4, <3>5 DEF AppendToNode
  <2>3. QED
    BY <1>3, <2>1, <2>2, ExceptSeq
<1>4. QED
  BY <1>1, <1>2, <1>3 DEF ProcPack

(* Taking a frame puts the incomplete ones before it back in the pool.     *)
LEMMA PickPackConserves ==
  ASSUME nodes \in Seq(Frames), free \in Int, PickPack
  PROVE  /\ nodes' \in Seq(Frames) /\ free' \in Int
         /\ Len(nodes') + free' + 1 = Len(nodes) + free
<1>1. PICK i \in Completed : /\ nodes' = SubSeq(nodes, i + 1, Len(nodes))
                             /\ free' = free + (i - 1)
  BY DEF PickPack
<1>2. i \in 1 .. Len(nodes) /\ Len(nodes) \in Nat
  BY DEF Completed
<1>3. \A k \in i + 1 .. Len(nodes) : nodes[k] \in Frames
  BY <1>2
<1>4. /\ nodes' \in Seq(Frames)
      /\ Len(nodes') = IF i + 1 <= Len(nodes) THEN Len(nodes) - (i + 1) + 1 ELSE 0
  BY <1>1, <1>2, <1>3, SubSeqProperties
<1>5. Len(nodes') = Len(nodes) - i
  BY <1>2, <1>4
<1>6. free' = free + (i - 1)
  BY <1>1
<1>7. i \in Int /\ Len(nodes) \in Int /\ free' \in Int
  BY <1>2, <1>6
<1>8. Len(nodes') + free' + 1 = Len(nodes) + free
  BY <1>5, <1>6, <1>7
<1>9. QED
  BY <1>4, <1>7, <1>8

LEMMA PoolStep ==
  ThreadInv /\ LockInv /\ StreamInv /\ PoolInv /\ [Next]_vars => PoolInv'
<1> SUFFICES ASSUME ThreadInv, LockInv, StreamInv, PoolInv, [Next]_vars,
                    pool' = "ready"
             PROVE  /\ nodes' \in Seq(Frames) /\ free' \in Int
                    /\ Len(nodes') + free' + InHand' = BufCount
  BY DEF PoolInv
<1> USE DEF PoolInv, InHand, threads, display, video_process_state_set, join_multicast_group2, leave_multicast_group2,
            start_udp_recv_task
<1>1. CASE CameraNext \/ CloseNext \/ DisableVideoDisplay
  <2>1. UNCHANGED <<nodes, free, lock, recv, pool>>
    BY <1>1 DEF CameraNext, Encode, Transmit, CloseNext, close_udp_recv_task,
      CancelDec, Disabled, DisableVideoDisplay
  <2>2. QED
    BY <2>1
<1>2. CASE EnableVideoDisplay
  <2>1. lock = "free" /\ UNCHANGED <<nodes, free, lock, pool>>
    BY <1>2 DEF EnableVideoDisplay, ThreadInv, IdleInv, LockInv
  <2>2. QED
    BY <2>1
<1>3. CASE DecOpens \/ DecFails \/ DecReceives \/ DecCancelled
  <2>1. UNCHANGED <<nodes, free, lock, recv, pool>>
    BY <1>3 DEF DecOpens, DecFails, DecReceives, DecCancelled
  <2>2. QED
    BY <2>1
<1>4. CASE DecProcPack
  <2>1. pool = "ready" /\ UNCHANGED <<lock, recv>> /\ ProcPack(packet)
        /\ packet \in Headers
    BY <1>4 DEF DecProcPack, StreamInv
  <2>2. /\ nodes' \in Seq(Frames) /\ free' \in Int
        /\ Len(nodes') + free' = Len(nodes) + free
    BY <2>1, ProcPackConserves
  <2>3. QED
    BY <2>1, <2>2, BufCountAssumption
<1>5. CASE RecvInits
  BY <1>5, BufCountAssumption DEF RecvInits, InitNode
<1>6. CASE RecvWakes
  <2>1. UNCHANGED <<nodes, free, lock, pool>> /\ recv # "decode" /\ recv' # "decode"
    BY <1>6 DEF RecvWakes
  <2>2. QED
    BY <2>1
<1>7. CASE RecvPicks
  <2>1. CASE Completed # {}
    <3>1. /\ PickPack /\ pool = "ready" /\ lock = "free"
          /\ lock' = "recv" /\ recv' = "picked"
      BY <1>7, <2>1 DEF RecvPicks
    <3>2. /\ nodes' \in Seq(Frames) /\ free' \in Int
          /\ Len(nodes') + free' + 1 = Len(nodes) + free
      BY <3>1, PickPackConserves
    <3>3. QED
      BY <3>1, <3>2, BufCountAssumption
  <2>2. CASE Completed = {}
    <3>1. UNCHANGED <<nodes, free, lock, pool>> /\ lock = "free"
      BY <1>7, <2>2 DEF RecvPicks, packets
    <3>2. QED
      BY <3>1
  <2>3. QED
    BY <2>1, <2>2
<1>8. CASE RecvReturnsNode
  <2>1. /\ recv = "picked" /\ recv' = "decode" /\ lock = "recv"
        /\ free' = free + 1 /\ UNCHANGED <<nodes, pool, lock>>
    BY <1>8 DEF RecvReturnsNode, ReturnNode, LockInv
  <2>2. nodes \in Seq(Frames) /\ free \in Int /\ Len(nodes) + free + 1 = BufCount
    BY <2>1
  <2>3. QED
    BY <2>1, <2>2
<1>9. CASE RecvDecodes
  <2>1. recv = "decode" /\ lock' = "free" /\ UNCHANGED <<nodes, free, pool>>
    BY <1>9 DEF RecvDecodes
  <2>2. QED
    BY <2>1
<1>10. CASE RecvCancelled
  <2>1. UNCHANGED <<nodes, free, lock, pool>> /\ recv # "decode" /\ recv' # "decode"
    BY <1>10 DEF RecvCancelled
  <2>2. QED
    BY <2>1
<1>11. CASE cleanup_udp_recv_task
  BY <1>11 DEF cleanup_udp_recv_task
<1>12. CASE UNCHANGED vars
  BY <1>12 DEF vars
<1>13. QED
  BY <1>1, <1>2, <1>3, <1>4, <1>5, <1>6, <1>7, <1>8, <1>9, <1>10, <1>11, <1>12
  DEF Next, CallNext, DecNext, RecvNext

LEMMA PoolInit == Init => LockInv /\ StreamInv /\ PoolInv
<1> SUFFICES ASSUME Init PROVE LockInv /\ StreamInv /\ PoolInv
  OBVIOUS
<1>1. camera \in Cameras /\ net \in Seq(Headers)
  BY DEF Init, PacketsInit, Cameras
<1>2. QED
  BY <1>1 DEF Init, LockInv, StreamInv, PoolInv

(* While the pool is there no node is ever lost or put in two lists,       *)
(* whatever packets are lost and wherever the recv task is cancelled.      *)
THEOREM NoNodeIsLost == Spec => []NodesConserved
<1>1. PoolInv => NodesConserved
  BY DEF PoolInv, NodesConserved, InHand
<1>2. QED
  BY <1>1, ThreadInit, ThreadStep, PoolInit, LockStep, StreamStep, PoolStep, PTL DEF Spec

-----------------------------------------------------------------------------
(* The stream of packets.  The camera cuts a frame into pieces, each but   *)
(* the last FragSize long.  What is in the socket, and the packet the dec  *)
(* thread holds, were cut like that and keep the order they were sent in;  *)
(* Upcoming stands for whatever the camera sends next.                     *)

Share(size, cur) ==
  IF cur < Packets(size) THEN FragSize ELSE size - (Packets(size) - 1) * FragSize

WellCut(p) == /\ p \in PacketType
              /\ p.total = Packets(p.size) /\ p.cur \in 1 .. p.total
              /\ p.len = Share(p.size, p.cur)

CameraInv ==
  /\ camera \in CameraType
  /\ camera.at = "send" => /\ WellCut(Packet)
                           /\ camera.offset = (camera.cur - 1) * FragSize
                           /\ (camera.last <=> camera.cur = camera.total)

Upcoming == IF camera.at = "send" THEN Packet
            ELSE [Packet EXCEPT !.frame = @ + 1, !.cur = 1]

Precedes(p, q) == \/ p.frame < q.frame
                  \/ p.frame = q.frame /\ p.size = q.size /\ p.cur < q.cur

Held == IF dec = "packet" THEN {packet} ELSE {}
Came == Held \cup {net[i] : i \in DOMAIN net}

OrderInv ==
  /\ net \in Seq(PacketType)
  /\ \A p \in Came : WellCut(p) /\ p.frame <= camera.frame /\ Precedes(p, Upcoming)
  /\ \A i, j \in DOMAIN net : i < j => Precedes(net[i], net[j])
  /\ \A p \in Held, i \in DOMAIN net : Precedes(p, net[i])
-----------------------------------------------------------------------------
LEMMA Divides == ASSUME NEW a \in Nat, NEW b \in Nat \ {0}
  PROVE /\ a \div b \in Nat /\ a % b \in 0 .. b - 1
        /\ a = (a \div b) * b + (a % b)
OBVIOUS

(* A frame has as many packets as it takes, the last one not empty.        *)
LEMMA PacketsCover ==
  ASSUME NEW size \in Sizes
  PROVE  /\ size \in Nat \ {0} /\ Packets(size) \in Nat \ {0}
         /\ (Packets(size) - 1) * FragSize < size
         /\ Packets(size) = 1 <=> size <= FragSize
<1> DEFINE q == size \div FragSize
           r == size % FragSize
<1>1. /\ size \in Nat \ {0} /\ FragSize \in Nat \ {0}
      /\ q \in Nat /\ r \in 0 .. FragSize - 1 /\ size = q * FragSize + r
  BY SizesAssumption, FragSizeAssumption, Divides
<1>2. Packets(size) = q + (IF r = 0 THEN 0 ELSE 1)
  BY DEF Packets
<1> HIDE DEF q, r
<1>3. CASE r = 0
  <2>1. q # 0 /\ Packets(size) = q
    BY <1>1, <1>2, <1>3
  <2>2. (q - 1) * FragSize = q * FragSize - FragSize
    BY <1>1
  <2>3. q >= 2 => q * FragSize > FragSize
    BY <1>1
  <2>4. QED
    BY <1>1, <1>3, <2>1, <2>2, <2>3
<1>4. CASE r # 0
  <2>1. Packets(size) = q + 1
    BY <1>1, <1>2, <1>4
  <2>2. q >= 1 => q * FragSize >= FragSize
    BY <1>1
  <2>3. q = 0 => q * FragSize = 0
    BY <1>1
  <2>4. QED
    BY <1>1, <1>4, <2>1, <2>2, <2>3
<1>5. QED
  BY <1>3, <1>4

(* Every share is a length.                                                *)
LEMMA ShareIsLength ==
  ASSUME NEW size \in Sizes, NEW cur \in Int PROVE Share(size, cur) \in Nat
<1>1. size - (Packets(size) - 1) * FragSize \in Nat
  <2>1. Packets(size) \in Int /\ FragSize \in Int /\ size \in Int
    BY PacketsCover, FragSizeAssumption
  <2>2. (Packets(size) - 1) * FragSize \in Int
    BY <2>1
  <2>3. QED
    BY <2>1, <2>2, PacketsCover
<1>2. QED
  BY <1>1, FragSizeAssumption DEF Share

LEMMA EncodeCuts ==
  ASSUME CameraInv, NEW size \in Sizes, start_send_fragment_head(size)
  PROVE  /\ CameraInv' /\ camera'.frame = camera.frame + 1
         /\ Upcoming'.frame = Upcoming.frame /\ Upcoming.frame = camera.frame + 1
<1>1. /\ Packets(size) \in Nat \ {0} /\ size \in Nat
      /\ Packets(size) = 1 <=> size <= FragSize
      /\ FragSize \in Nat \ {0}
  BY PacketsCover, FragSizeAssumption
<1>2. camera.frame \in 0 .. MaxFrame /\ camera.frame < MaxFrame /\ MaxFrame \in Nat
  BY MaxFrameAssumption DEF CameraInv, CameraType, start_send_fragment_head
<1> DEFINE l == IF size > FragSize THEN FragSize ELSE size
<1>3. l = Share(size, 1) /\ l \in Nat
  BY <1>1 DEF Share
<1>4. camera' = [at |-> "send", frame |-> camera.frame + 1, size |-> size,
                 total |-> Packets(size), cur |-> 1, len |-> l,
                 offset |-> 0, last |-> size <= FragSize]
  BY DEF start_send_fragment_head
<1> HIDE DEF l
<1>5. camera' \in CameraType
  BY <1>1, <1>2, <1>3, <1>4 DEF CameraType
<1>6. Packet' = [frame |-> camera.frame + 1, total |-> Packets(size), cur |-> 1,
                 len |-> l, size |-> size]
  BY <1>4 DEF Packet
<1>7. WellCut(Packet')
  BY <1>1, <1>2, <1>3, <1>6 DEF WellCut, PacketType
<1>8. (1 - 1) * FragSize = 0
  BY <1>1
<1>9. CameraInv'
  BY <1>1, <1>4, <1>5, <1>7, <1>8 DEF CameraInv
<1>10. QED
  BY <1>4, <1>6, <1>9 DEF start_send_fragment_head, Upcoming, Packet

(* Cutting the next packet off.                                            *)
LEMMA TransmitCuts ==
  ASSUME CameraInv, camera.at = "send", prepare_for_next_fragment
  PROVE  /\ CameraInv' /\ camera'.frame = camera.frame
         /\ \/ /\ Upcoming'.frame = Upcoming.frame /\ Upcoming'.size = Upcoming.size
               /\ Upcoming'.cur = Upcoming.cur + 1
            \/ Upcoming'.frame = Upcoming.frame + 1
         /\ WellCut(Packet) /\ Packet = Upcoming /\ Packet.frame = camera.frame
<1>1. /\ camera \in CameraType /\ WellCut(Packet)
      /\ camera.offset = (camera.cur - 1) * FragSize
      /\ (camera.last <=> camera.cur = camera.total)
  BY DEF CameraInv
<1>2. /\ camera.size \in Sizes /\ camera.total = Packets(camera.size)
      /\ camera.cur \in 1 .. camera.total /\ camera.frame \in 1 .. MaxFrame
      /\ camera.len = Share(camera.size, camera.cur)
  BY <1>1 DEF WellCut, PacketType, Packet
<1>3. /\ camera.total \in Nat \ {0} /\ FragSize \in Nat \ {0}
      /\ camera.size \in Nat
  BY <1>2, PacketsCover, FragSizeAssumption
<1>4. Packet = Upcoming /\ Packet.frame = camera.frame
  BY DEF Upcoming, Packet
<1>5. CASE camera.last
  <2>1. camera' = [camera EXCEPT !.at = "encode"]
    BY <1>5 DEF prepare_for_next_fragment
  <2>2. camera' \in CameraType /\ camera'.at = "encode" /\ camera'.frame = camera.frame
    BY <1>1, <2>1 DEF CameraType
  <2>3. Upcoming'.frame = camera.frame + 1
    BY <2>2 DEF Upcoming, Packet
  <2>4. QED
    BY <1>1, <1>4, <2>2, <2>3 DEF CameraInv
<1>6. CASE ~ camera.last
  <2> DEFINE o == camera.offset + camera.len
             c == camera.cur + 1
             l == c >= camera.total
             n == IF l THEN camera.size - o ELSE FragSize
  <2>1. camera' = [camera EXCEPT !.offset = o, !.cur = c, !.last = l, !.len = n]
    BY <1>6 DEF prepare_for_next_fragment
  <2>2. camera.cur < camera.total
    BY <1>1, <1>2, <1>3, <1>6
  <2>3. camera.len = FragSize
    BY <1>2, <2>2 DEF Share
  <2>4. c \in 1 .. camera.total /\ (l <=> c = camera.total) /\ l \in BOOLEAN
    BY <1>2, <1>3, <2>2
  <2>5. o = (c - 1) * FragSize /\ o \in Nat
    BY <1>1, <1>2, <1>3, <2>3
  <2>6. n = Share(camera.size, c)
    BY <1>2, <1>3, <2>4, <2>5 DEF Share
  <2>7. n \in Nat
    BY <1>2, <2>4, <2>6, ShareIsLength
  <2> HIDE DEF o, c, l, n
  <2>8. o \in Nat /\ c \in Nat /\ l \in BOOLEAN /\ n \in Nat
    BY <1>3, <2>4, <2>5, <2>7
  <2>9. /\ camera' \in CameraType
        /\ camera'.at = "send" /\ camera'.frame = camera.frame /\ camera'.size = camera.size
        /\ camera'.total = camera.total /\ camera'.cur = c /\ camera'.len = n
        /\ camera'.offset = o /\ camera'.last = l
    BY <1>1, <2>1, <2>8 DEF CameraType
  <2>10. WellCut(Packet')
    BY <1>2, <1>3, <2>4, <2>6, <2>7, <2>9 DEF WellCut, PacketType, Packet
  <2>11. CameraInv'
    BY <2>4, <2>5, <2>9, <2>10 DEF CameraInv
  <2>12. Upcoming'.frame = Upcoming.frame /\ Upcoming'.size = Upcoming.size
         /\ Upcoming'.cur = Upcoming.cur + 1
    BY <2>9 DEF Upcoming, Packet, c
  <2>13. QED
    BY <1>1, <1>4, <2>9, <2>11, <2>12
<1>7. QED
  BY <1>5, <1>6, <1>1 DEF CameraType

(* What may happen to the stream in one step.                              *)
StreamShrinks == /\ camera' = camera
                 /\ net' = net \/ net' = <<>>
                 /\ dec' = "packet" => dec = "packet" /\ packet' = packet

LEMMA StreamMoves ==
  ASSUME ThreadInv, [Next]_vars
  PROVE  Encode \/ Transmit \/ DecReceives \/ StreamShrinks
<1> USE DEF StreamShrinks, threads, display, start_udp_recv_task, join_multicast_group2,
            leave_multicast_group2
<1>1. CASE CallNext
  BY <1>1 DEF CallNext, EnableVideoDisplay, DisableVideoDisplay
<1>2. CASE CloseNext
  BY <1>2 DEF CloseNext, close_udp_recv_task, CancelDec, Disabled
<1>3. CASE DecOpens \/ DecFails \/ DecProcPack \/ DecCancelled
  BY <1>3 DEF DecOpens, DecFails, DecProcPack, DecCancelled
<1>4. CASE RecvNext
  BY <1>4 DEF RecvNext, RecvInits, RecvWakes, RecvPicks, RecvReturnsNode,
              RecvDecodes, RecvCancelled, cleanup_udp_recv_task
<1>5. CASE UNCHANGED vars
  BY <1>5 DEF vars
<1>6. QED
  BY <1>1, <1>2, <1>3, <1>4, <1>5 DEF Next, CameraNext, DecNext

LEMMA CameraStep == ThreadInv /\ CameraInv /\ [Next]_vars => CameraInv'
<1> SUFFICES ASSUME ThreadInv, CameraInv, [Next]_vars PROVE CameraInv'
  OBVIOUS
<1>1. CASE Encode
  BY <1>1, EncodeCuts DEF Encode
<1>2. CASE Transmit
  BY <1>2, TransmitCuts DEF Transmit, SendFragment
<1>3. CASE camera' = camera
  BY <1>3 DEF CameraInv, Packet, WellCut
<1>4. QED
  BY <1>1, <1>2, <1>3, StreamMoves DEF StreamShrinks, DecReceives

(* What was sent before the camera's next packet was sent before the one   *)
(* after it.                                                               *)
LEMMA StillPrecedes ==
  ASSUME NEW p \in PacketType, NEW u, NEW v, u.frame \in Int, u.cur \in Int,
         \/ v.frame = u.frame /\ v.size = u.size /\ v.cur = u.cur + 1
         \/ v.frame = u.frame + 1,
         Precedes(p, u)
  PROVE  Precedes(p, v)
BY DEF Precedes, PacketType

LEMMA UpcomingType ==
  ASSUME CameraInv
  PROVE  /\ Upcoming.frame \in Int /\ Upcoming.cur \in Int
         /\ camera.frame \in Int /\ camera.frame <= Upcoming.frame
<1>1. camera \in CameraType /\ camera.frame \in Nat /\ camera.cur \in Nat
  BY DEF CameraInv, CameraType
<1>2. CASE camera.at = "send"
  BY <1>1, <1>2 DEF Upcoming, Packet
<1>3. CASE camera.at # "send"
  BY <1>1, <1>3 DEF Upcoming, Packet
<1>4. QED
  BY <1>2, <1>3

LEMMA OrderStep ==
  ThreadInv /\ CameraInv /\ OrderInv /\ [Next]_vars => OrderInv'
<1> SUFFICES ASSUME ThreadInv, CameraInv, OrderInv, [Next]_vars PROVE OrderInv'
  OBVIOUS
<1>1. /\ net \in Seq(PacketType)
      /\ \A p \in Came : WellCut(p) /\ p.frame <= camera.frame /\ Precedes(p, Upcoming)
      /\ \A i, j \in DOMAIN net : i < j => Precedes(net[i], net[j])
      /\ \A p \in Held, i \in DOMAIN net : Precedes(p, net[i])
  BY DEF OrderInv
<1>2. \A p \in Came : p \in PacketType /\ p.frame \in Int
  BY <1>1 DEF WellCut, PacketType
<1>3. CASE Encode
  <2>1. /\ net' = net /\ Held' = Held /\ Came' = Came
        /\ camera'.frame = camera.frame + 1 /\ Upcoming'.frame = camera.frame + 1
    BY <1>3, EncodeCuts DEF Encode, threads, Held, Came
  <2>2. ASSUME NEW p \in Came
        PROVE  p.frame <= camera'.frame /\ Precedes(p, Upcoming')
    BY <1>1, <1>2, <2>1, UpcomingType DEF Precedes
  <2>3. QED
    BY <1>1, <2>1, <2>2 DEF OrderInv
<1>4. CASE Transmit
  <2>1. /\ Held' = Held /\ camera'.frame = camera.frame
        /\ \/ /\ Upcoming'.frame = Upcoming.frame /\ Upcoming'.size = Upcoming.size
              /\ Upcoming'.cur = Upcoming.cur + 1
           \/ Upcoming'.frame = Upcoming.frame + 1
        /\ WellCut(Packet) /\ Packet = Upcoming /\ Packet.frame = camera.frame
    BY <1>4, TransmitCuts DEF Transmit, SendFragment, threads, Held
  <2>2. ASSUME NEW p \in Came PROVE Precedes(p, Upcoming')
    <3>1. p \in PacketType /\ Precedes(p, Upcoming)
      BY <1>1, <1>2
    <3>2. QED
      BY <2>1, <3>1, UpcomingType, StillPrecedes
  <2>3. Precedes(Packet, Upcoming')
    BY <2>1, UpcomingType DEF Precedes
  <2>4. CASE net' = net
    BY <1>1, <2>1, <2>2, <2>4 DEF OrderInv, Came
  <2>5. CASE net' = Append(net, Packet)
    <3>1. Packet \in PacketType
      BY <2>1 DEF WellCut
    <3>2. /\ net' \in Seq(PacketType) /\ Len(net') = Len(net) + 1
          /\ DOMAIN net' = 1 .. Len(net) + 1 /\ DOMAIN net = 1 .. Len(net)
          /\ Len(net) \in Nat
          /\ \A i \in DOMAIN net : net'[i] = net[i]
          /\ net'[Len(net) + 1] = Packet
      BY <1>1, <2>5, <3>1, AppendProperties
    <3>3. \A p \in Came' : p \in Came \/ p = Packet
      BY <2>1, <3>2 DEF Came
    <3>4. \A p \in Came' : /\ WellCut(p) /\ p.frame <= camera'.frame
                           /\ Precedes(p, Upcoming')
      BY <1>1, <2>1, <2>2, <2>3, <3>3, UpcomingType
    <3>5. ASSUME NEW i \in DOMAIN net', NEW j \in DOMAIN net', i < j
          PROVE  Precedes(net'[i], net'[j])
      <4>1. i \in DOMAIN net /\ net'[i] = net[i]
        BY <3>2, <3>5
      <4>2. CASE j \in DOMAIN net
        BY <1>1, <3>2, <3>5, <4>1, <4>2
      <4>3. CASE j = Len(net) + 1
        BY <1>1, <2>1, <3>2, <4>1, <4>3 DEF Came
      <4>4. QED
        BY <3>2, <4>2, <4>3
    <3>6. ASSUME NEW p \in Held', NEW i \in DOMAIN net' PROVE Precedes(p, net'[i])
      <4>1. p \in Held /\ p \in Came
        BY <2>1 DEF Came
      <4>2. CASE i \in DOMAIN net
        BY <1>1, <3>2, <4>1, <4>2
      <4>3. CASE i = Len(net) + 1
        BY <1>1, <2>1, <3>2, <4>1, <4>3
      <4>4. QED
        BY <3>2, <4>2, <4>3
    <3>7. QED
      BY <3>2, <3>4, <3>5, <3>6 DEF OrderInv
  <2>6. QED
    BY <1>4, <2>4, <2>5 DEF Transmit, SendFragment
<1>5. CASE DecReceives
  <2>1. /\ net # <<>> /\ net' = Tail(net) /\ camera' = camera /\ dec = "receive"
        /\ (dec' = "packet" /\ packet' = Head(net)) \/ dec' = dec
    BY <1>5 DEF DecReceives
  <2>2. /\ net' \in Seq(PacketType) /\ DOMAIN net = 1 .. Len(net) /\ Len(net) \in Nat
        /\ DOMAIN net' = 1 .. Len(net) - 1 /\ 1 \in DOMAIN net
        /\ \A i \in DOMAIN net' : i + 1 \in DOMAIN net /\ net'[i] = net[i + 1]
        /\ Head(net) = net[1]
    BY <1>1, <2>1, HeadTailProperties, EmptySeq
  <2>3. \A p \in Held' : p = net[1]
    BY <2>1, <2>2 DEF Held
  <2>4. Upcoming' = Upcoming
    BY <2>1 DEF Upcoming, Packet
  <2>5. \A p \in Came' : p \in Came
    BY <2>2, <2>3 DEF Came
  <2>6. \A p \in Came' : /\ WellCut(p) /\ p.frame <= camera'.frame
                         /\ Precedes(p, Upcoming')
    BY <1>1, <2>1, <2>4, <2>5
  <2>7. \A i, j \in DOMAIN net' : i < j => Precedes(net'[i], net'[j])
    BY <1>1, <2>2
  <2>8. \A p \in Held', i \in DOMAIN net' : Precedes(p, net'[i])
    BY <1>1, <2>2, <2>3
  <2>9. QED
    BY <2>2, <2>6, <2>7, <2>8 DEF OrderInv
<1>6. CASE StreamShrinks
  <2>1. /\ camera' = camera /\ Upcoming' = Upcoming
        /\ \A p \in Held' : p \in Held
    BY <1>6 DEF StreamShrinks, Held, Upcoming, Packet
  <2>2. CASE net' = net
    BY <1>1, <2>1, <2>2 DEF OrderInv, Came
  <2>3. CASE net' = <<>>
    BY <1>1, <2>1, <2>3 DEF OrderInv, Came
  <2>4. QED
    BY <1>6, <2>2, <2>3 DEF StreamShrinks
<1>7. QED
  BY <1>3, <1>4, <1>5, <1>6, StreamMoves

-----------------------------------------------------------------------------
(* Frames under construction.  A node was fed the packets of its frame in  *)
(* their order, and all that comes is of a later place; the first packet a *)
(* node is given is copied to the front of its buffer, which is its place  *)
(* only if it is the first of the frame.  Nodes stand in the order of      *)
(* their frames, behind the frame in hand.                                 *)

Coming == Came \cup {Upcoming}

Fed(n, q) == \/ n.frame < q.frame
             \/ n.frame = q.frame /\ n.size = q.size /\ \A k \in n.got : k < q.cur

WellBuilt(n) ==
  /\ IsNode(n) /\ n.total = Packets(n.size) /\ n.got # {}
  /\ 1 \in n.got => n.buf = [k \in n.got |-> k]
  /\ n.len = Cardinality(n.got) * FragSize
               - (IF n.total \in n.got THEN n.total * FragSize - n.size ELSE 0)

BuildInv ==
  /\ \A j \in DOMAIN nodes : /\ WellBuilt(nodes[j]) /\ nodes[j].frame <= camera.frame
                             /\ \A q \in Coming : Fed(nodes[j], q)
  /\ \A j, k \in DOMAIN nodes : j < k => nodes[j].frame < nodes[k].frame

HandInv == hand # NoNode =>
  /\ WellBuilt(hand) /\ AllReceived(hand) /\ hand.frame <= camera.frame
  /\ \A q \in Coming : Fed(hand, q)
  /\ \A j \in DOMAIN nodes : hand.frame < nodes[j].frame

(* The pool is there while the recv task works, and empty otherwise.       *)
PoolOff == /\ pool \in {"none", "ready"}
           /\ pool = "none" => nodes = <<>> /\ free = 0
           /\ recv \in {"wait", "woken", "picked", "decode", "cleanup"} => pool = "ready"
-----------------------------------------------------------------------------
LEMMA PoolOffStep == ThreadInv /\ PoolOff /\ [Next]_vars => PoolOff'
<1> SUFFICES ASSUME ThreadInv, PoolOff, [Next]_vars PROVE PoolOff'
  OBVIOUS
<1> USE DEF PoolOff, threads, display, packets, start_udp_recv_task,
            join_multicast_group2, leave_multicast_group2
<1>1. CASE CameraNext
  BY <1>1 DEF CameraNext, Encode, Transmit
<1>2. CASE CallNext
  BY <1>2 DEF CallNext, EnableVideoDisplay, DisableVideoDisplay
<1>3. CASE CloseNext
  BY <1>3 DEF CloseNext, close_udp_recv_task, CancelDec, Disabled
<1>4. CASE DecNext
  BY <1>4 DEF DecNext, DecOpens, DecFails, DecReceives, DecProcPack, DecCancelled
<1>5. CASE RecvInits \/ RecvWakes
  BY <1>5 DEF RecvInits, RecvWakes, InitNode
<1>6. CASE RecvPicks \/ RecvReturnsNode \/ RecvDecodes
  BY <1>6 DEF RecvPicks, RecvReturnsNode, RecvDecodes
<1>7. CASE RecvCancelled
  BY <1>7 DEF RecvCancelled
<1>8. CASE cleanup_udp_recv_task
  BY <1>8 DEF cleanup_udp_recv_task, ClearNode
<1>9. CASE UNCHANGED vars
  BY <1>9 DEF vars
<1>10. QED
  BY <1>1, <1>2, <1>3, <1>4, <1>5, <1>6, <1>7, <1>8, <1>9 DEF Next, RecvNext

LEMMA NodesAreFrames ==
  ASSUME PoolInv, PoolOff
  PROVE  /\ nodes \in Seq(Frames) /\ Len(nodes) \in Nat /\ DOMAIN nodes = 1 .. Len(nodes)
         /\ \A i \in DOMAIN nodes : nodes[i] \in Frames
<1>1. <<>> \in Seq(Frames)
  OBVIOUS
<1>2. nodes = <<>> \/ nodes \in Seq(Frames)
  BY DEF PoolInv, PoolOff
<1>3. nodes \in Seq(Frames)
  BY <1>1, <1>2
<1>4. QED
  BY <1>3

LEMMA Lengths == FragSize \in Nat \ {0} /\ BufCount \in Nat \ {0} /\ MaxPack \in Nat \ {0}
BY FragSizeAssumption, BufCountAssumption, MaxPackAssumption

(* The packets of a node are finitely many.                                *)
LEMMA GotIsFinite ==
  ASSUME NEW n, IsNode(n)
  PROVE  IsFiniteSet(n.got) /\ Cardinality(n.got) \in Nat
<1>1. n.total \in Int /\ n.got \subseteq 1 .. n.total
  BY DEF IsNode
<1>2. IsFiniteSet(1 .. n.total)
  BY <1>1, FS_Interval
<1>3. QED
  BY <1>1, <1>2, FS_Subset, FS_CardinalityType

(* A packet's fields, and its length.                                      *)
LEMMA CutTypes ==
  ASSUME NEW p, WellCut(p)
  PROVE  /\ p.frame \in 1 .. MaxFrame /\ p.size \in Sizes /\ p.size \in Nat \ {0}
         /\ p.total \in Nat \ {0} /\ p.cur \in 1 .. p.total /\ p.len \in Nat
         /\ p.total = Packets(p.size)
         /\ p.len = FragSize - (IF p.cur = p.total THEN p.total * FragSize - p.size ELSE 0)
<1>1. /\ p.frame \in 1 .. MaxFrame /\ p.size \in Sizes /\ p.len \in Nat
      /\ p.total = Packets(p.size) /\ p.cur \in 1 .. p.total
      /\ p.len = Share(p.size, p.cur)
  BY DEF WellCut, PacketType
<1>2. p.size \in Nat \ {0} /\ p.total \in Nat \ {0}
  BY <1>1, PacketsCover
<1>3. (p.total - 1) * FragSize = p.total * FragSize - FragSize
  BY <1>2, Lengths
<1>4. p.total * FragSize \in Int
  BY <1>2, Lengths
<1>5. CASE p.cur = p.total
  BY <1>1, <1>2, <1>3, <1>4, <1>5, Lengths DEF Share
<1>6. CASE p.cur < p.total
  BY <1>1, <1>2, <1>6, Lengths DEF Share
<1>7. QED
  BY <1>1, <1>2, <1>5, <1>6

LEMMA AddNodeBuilds ==
  ASSUME NEW p, WellCut(p), CheckHead(p)
  PROVE  /\ WellBuilt(AddNode(p)) /\ AddNode(p).frame = p.frame
         /\ AddNode(p).size = p.size /\ AddNode(p).got = {p.cur}
         /\ AddNode(p).total = p.total
<1> DEFINE n == AddNode(p)
<1>1. /\ n.frame = p.frame /\ n.total = p.total /\ n.got = {p.cur} /\ n.len = p.len
      /\ n.buf = [i \in {1} |-> p.cur] /\ n.size = p.size
      /\ DOMAIN n = {"frame", "total", "got", "len", "buf", "size"}
  BY DEF AddNode
<1> HIDE DEF n
<1>2. p.total \in 1 .. MaxPack
  BY DEF CheckHead
<1>3. DOMAIN n.buf \subseteq 1 .. MaxPack
  BY <1>1, Lengths
<1>4. IsNode(n)
  BY <1>1, <1>2, <1>3, CutTypes DEF IsNode
<1>5. 1 \in n.got => n.buf = [k \in n.got |-> k]
  BY <1>1
<1>6. Cardinality(n.got) = 1
  BY <1>1, FS_Singleton
<1>7. n.len = 1 * FragSize - (IF n.total \in n.got THEN n.total * FragSize - n.size ELSE 0)
  BY <1>1, CutTypes, Lengths
<1>8. WellBuilt(n)
  BY <1>1, <1>4, <1>5, <1>6, <1>7, CutTypes DEF WellBuilt
<1>9. QED
  BY <1>1, <1>8 DEF n

LEMMA AppendBuilds ==
  ASSUME NEW n \in Frames, NEW p, WellBuilt(n), WellCut(p), n.size = p.size,
         \A k \in n.got : k < p.cur
  PROVE  /\ WellBuilt(AppendToNode(n, p)) /\ AppendToNode(n, p).frame = n.frame
         /\ AppendToNode(n, p).size = n.size
         /\ AppendToNode(n, p).got = n.got \cup {p.cur}
         /\ ~ AllReceived(n)
<1> DEFINE b == [i \in DOMAIN n.buf \cup {p.cur} |-> IF i = p.cur THEN p.cur ELSE n.buf[i]]
           m == AppendToNode(n, p)
<1>1. p.cur \notin n.got /\ p.total = n.total
  BY CutTypes DEF WellBuilt
<1>2. m = [n EXCEPT !.got = n.got \cup {p.cur}, !.len = n.len + p.len, !.buf = b]
  BY <1>1 DEF AppendToNode
<1> HIDE DEF b
<1>3. /\ m.frame = n.frame /\ m.total = n.total /\ m.size = n.size
      /\ m.got = n.got \cup {p.cur} /\ m.len = n.len + p.len /\ m.buf = b
      /\ DOMAIN m = {"frame", "total", "got", "len", "buf", "size"}
  BY <1>2 DEF Frames
<1> HIDE DEF m
<1>4. IsNode(n) /\ n.got # {} /\ n.got \subseteq 1 .. n.total /\ n.total \in 1 .. MaxPack
  BY DEF WellBuilt, IsNode
<1>5. DOMAIN b \subseteq 1 .. MaxPack
  <2>1. DOMAIN b = DOMAIN n.buf \cup {p.cur} /\ DOMAIN n.buf \subseteq 1 .. MaxPack
    BY <1>4 DEF b, IsNode
  <2>2. p.cur \in 1 .. MaxPack
    BY <1>1, <1>4, CutTypes, Lengths
  <2>3. QED
    BY <2>1, <2>2
<1>6. IsNode(m)
  BY <1>1, <1>3, <1>4, <1>5, CutTypes DEF IsNode
<1>7. 1 \in m.got => m.buf = [k \in m.got |-> k]
  <2>1. p.cur # 1
    BY <1>4, CutTypes
  <2>2. ASSUME 1 \in n.got PROVE b = [k \in n.got \cup {p.cur} |-> k]
    <3>1. n.buf = [k \in n.got |-> k]
      BY <2>2 DEF WellBuilt
    <3>2. QED
      BY <3>1 DEF b
  <2>3. QED
    BY <1>3, <2>1, <2>2
<1>8. Cardinality(m.got) = Cardinality(n.got) + 1 /\ Cardinality(n.got) \in Nat
  BY <1>1, <1>3, <1>4, GotIsFinite, FS_AddElement
<1>9. n.total \notin n.got
  BY <1>1, <1>4, CutTypes
<1>10. n.len = Cardinality(n.got) * FragSize
  <2>1. n.len = Cardinality(n.got) * FragSize - 0
    BY <1>9 DEF WellBuilt
  <2>2. Cardinality(n.got) * FragSize \in Int
    BY <1>8, Lengths
  <2>3. QED
    BY <2>1, <2>2
<1>11. (Cardinality(n.got) + 1) * FragSize = Cardinality(n.got) * FragSize + FragSize
  BY <1>8, Lengths
<1>12. m.len = Cardinality(m.got) * FragSize
                - (IF m.total \in m.got THEN m.total * FragSize - m.size ELSE 0)
  <2>1. Cardinality(n.got) * FragSize \in Int /\ p.total * FragSize \in Int /\ p.size \in Int
    BY <1>8, CutTypes, Lengths
  <2>2. CASE p.cur = p.total
    BY <1>1, <1>3, <1>8, <1>10, <1>11, <2>1, <2>2, CutTypes, Lengths
  <2>3. CASE p.cur # p.total
    BY <1>1, <1>3, <1>8, <1>9, <1>10, <1>11, <2>1, <2>3, CutTypes, Lengths
  <2>4. QED
    BY <2>2, <2>3
<1>13. WellBuilt(m)
  BY <1>3, <1>6, <1>7, <1>12 DEF WellBuilt
<1>14. ~ AllReceived(n)
  BY <1>1, CutTypes DEF AllReceived
<1>15. QED
  BY <1>3, <1>13, <1>14 DEF m

(* A node that has all its packets has them in their places.               *)
LEMMA CompleteIsWhole ==
  ASSUME NEW n, WellBuilt(n), AllReceived(n)
  PROVE  n.buf = [i \in 1 .. n.total |-> i] /\ n.len = n.size
<1>1. n.total \in Nat \ {0} /\ n.got = 1 .. n.total /\ n.size \in Int
  BY PacketsCover DEF WellBuilt, IsNode, AllReceived
<1>2. Cardinality(n.got) = n.total
  BY <1>1, FS_Interval
<1>3. n.total * FragSize \in Int
  BY <1>1, Lengths
<1>4. n.len = n.total * FragSize - (n.total * FragSize - n.size)
  BY <1>1, <1>2 DEF WellBuilt
<1>5. QED
  BY <1>1, <1>3, <1>4 DEF WellBuilt

(* A frame that was fed all that came is also fed all that comes next.     *)
LEMMA StillFed ==
  ASSUME ThreadInv, CameraInv, OrderInv, [Next]_vars,
         NEW n, IsNode(n), n.frame <= camera.frame, \A q \in Coming : Fed(n, q)
  PROVE  n.frame <= camera'.frame /\ \A q \in Coming' : Fed(n, q)
<1>1. n.frame \in Int /\ \A k \in n.got : k \in Int
  BY DEF IsNode
<1>2. /\ Upcoming.frame \in Int /\ Upcoming.cur \in Int
      /\ camera.frame \in Int /\ camera.frame <= Upcoming.frame
  BY UpcomingType
<1>3. /\ \A p \in Came : Fed(n, p)
      /\ Fed(n, Upcoming)
  BY DEF Coming
<1>4. CASE Encode
  <2>1. /\ Came' = Came /\ camera'.frame = camera.frame + 1
        /\ Upcoming'.frame = camera.frame + 1
    BY <1>4, EncodeCuts DEF Encode, threads, Held, Came
  <2>2. Fed(n, Upcoming')
    BY <1>1, <1>2, <2>1 DEF Fed
  <2>3. n.frame <= camera'.frame
    BY <1>1, <1>2, <2>1
  <2>4. QED
    BY <1>3, <2>1, <2>2, <2>3 DEF Coming
<1>5. CASE Transmit
  <2>1. /\ Held' = Held /\ camera'.frame = camera.frame
        /\ \/ /\ Upcoming'.frame = Upcoming.frame /\ Upcoming'.size = Upcoming.size
              /\ Upcoming'.cur = Upcoming.cur + 1
           \/ Upcoming'.frame = Upcoming.frame + 1
        /\ WellCut(Packet) /\ Packet = Upcoming
        /\ net' = Append(net, Packet) \/ net' = net
    BY <1>5, TransmitCuts DEF Transmit, SendFragment, threads, Held
  <2>2. Fed(n, Upcoming')
    BY <1>1, <1>2, <1>3, <2>1 DEF Fed
  <2>3. \A p \in Came' : p \in Came \/ p = Upcoming
    <3>1. net \in Seq(PacketType) /\ Packet \in PacketType
      BY <2>1 DEF OrderInv, WellCut
    <3>2. \A i \in DOMAIN net' : (i \in DOMAIN net /\ net'[i] = net[i]) \/ net'[i] = Packet
      BY <2>1, <3>1, AppendProperties
    <3>3. QED
      BY <2>1, <3>2 DEF Came
  <2>4. QED
    BY <1>3, <2>1, <2>2, <2>3 DEF Coming
<1>6. CASE DecReceives \/ StreamShrinks
  <2>1. Upcoming' = Upcoming /\ camera' = camera
    BY <1>6 DEF DecReceives, StreamShrinks, Upcoming, Packet
  <2>2. CASE StreamShrinks
    <3>1. Held' \subseteq Held /\ (net' = net \/ net' = <<>>)
      BY <2>2 DEF StreamShrinks, Held
    <3>2. Came' \subseteq Came
      BY <3>1 DEF Came
    <3>3. QED
      BY <1>3, <2>1, <3>2 DEF Coming
  <2>3. CASE DecReceives
    <3>1. net \in Seq(PacketType) /\ net # <<>>
      BY <2>3 DEF OrderInv, DecReceives
    <3>2. /\ \A i \in DOMAIN Tail(net) : i + 1 \in DOMAIN net /\ Tail(net)[i] = net[i + 1]
          /\ 1 \in DOMAIN net /\ Head(net) = net[1]
      BY <3>1, HeadTailProperties, EmptySeq
    <3>3. net' = Tail(net) /\ \A p \in Held' : p = Head(net)
      BY <2>3 DEF DecReceives, Held
    <3>4. Came' \subseteq Came
      BY <3>2, <3>3 DEF Came
    <3>5. QED
      BY <1>3, <2>1, <3>4 DEF Coming
  <2>4. QED
    BY <1>6, <2>2, <2>3
<1>7. QED
  BY <1>4, <1>5, <1>6, StreamMoves

(* The packet that is processed now is behind what is there and before     *)
(* what comes.                                                             *)
LEMMA ProcessedNow ==
  ASSUME CameraInv, OrderInv, DecProcPack
  PROVE  /\ WellCut(packet) /\ packet.frame <= camera.frame /\ packet \in Coming
         /\ camera' = camera
         /\ \A q \in Coming' : q \in Coming /\ Precedes(packet, q)
<1>1. /\ dec = "packet" /\ dec' = "receive" /\ camera' = camera /\ net' = net
  BY DEF DecProcPack
<1>2. Held = {packet} /\ Held' = {} /\ Upcoming' = Upcoming
  BY <1>1 DEF Held, Upcoming, Packet
<1>3. QED
  BY <1>1, <1>2 DEF Coming, Came, OrderInv

(* What ProcPack makes of the list.                                        *)
LEMMA ProcPackCases ==
  ASSUME NEW p, ProcPack(p)
  PROVE  \/ UNCHANGED <<nodes, full, sem>>
         \/ /\ CheckHead(p) /\ FindNode(p) = {} /\ nodes' = Append(nodes, AddNode(p))
            /\ Receive(AddNode(p), FALSE)
         \/ \E i \in FindNode(p) :
              /\ nodes' = [nodes EXCEPT ![i] = AppendToNode(nodes[i], p)]
              /\ Receive(AppendToNode(nodes[i], p), AllReceived(nodes[i]))
BY DEF ProcPack, packets

LEMMA ProcessedBuilds ==
  ASSUME CameraInv, OrderInv, BuildInv, HandInv, PoolInv, PoolOff, DecProcPack,
         pool = "ready"
  PROVE  BuildInv' /\ HandInv'
<1> DEFINE p == packet
<1>1. /\ WellCut(p) /\ p.frame <= camera.frame /\ p \in Coming /\ camera' = camera
      /\ \A q \in Coming' : q \in Coming /\ Precedes(p, q)
  BY ProcessedNow
<1>2. ProcPack(p) /\ hand' = hand
  BY DEF DecProcPack
<1>3. /\ nodes \in Seq(Frames) /\ Len(nodes) \in Nat /\ DOMAIN nodes = 1 .. Len(nodes)
      /\ \A i \in DOMAIN nodes : nodes[i] \in Frames
  BY NodesAreFrames
<1>4. p.frame \in Int /\ p.cur \in Int
  BY <1>1, CutTypes
<1>5. \A q \in Coming' : q.frame \in Int /\ (q.frame = p.frame => q.cur \in Int)
  <2>1. \A q \in Came : q.frame \in Int /\ q.cur \in Int
    BY DEF OrderInv, WellCut, PacketType
  <2>2. QED
    BY <1>1, <2>1, UpcomingType DEF Coming
<1> HIDE DEF p
<1>6. \A j \in DOMAIN nodes : /\ WellBuilt(nodes[j]) /\ nodes[j].frame <= camera.frame
                              /\ \A q \in Coming : Fed(nodes[j], q)
                              /\ nodes[j].frame \in Int
  BY DEF BuildInv, WellBuilt, IsNode
<1>7. \A j, k \in DOMAIN nodes : j < k => nodes[j].frame < nodes[k].frame
  BY DEF BuildInv
<1>8. hand # NoNode => /\ WellBuilt(hand) /\ AllReceived(hand) /\ hand.frame <= camera.frame
                       /\ \A q \in Coming' : Fed(hand, q)
                       /\ hand.frame \in Int /\ hand.frame < p.frame
                       /\ \A j \in DOMAIN nodes : hand.frame < nodes[j].frame
  <2> SUFFICES ASSUME hand # NoNode
               PROVE  /\ hand.frame \in Int /\ hand.frame < p.frame
                      /\ \A q \in Coming' : Fed(hand, q)
    BY DEF HandInv
  <2>1. WellBuilt(hand) /\ AllReceived(hand) /\ \A q \in Coming : Fed(hand, q)
    BY DEF HandInv
  <2>2. hand.frame \in Int /\ hand.total = Packets(hand.size) /\ hand.total \in Nat \ {0}
        /\ hand.got = 1 .. hand.total
    BY <2>1 DEF WellBuilt, IsNode, AllReceived
  <2>3. hand.total \in hand.got /\ p.cur <= p.total /\ p.total = Packets(p.size)
        /\ p.total \in Int
    BY <1>1, <2>2, CutTypes
  <2>4. hand.frame < p.frame
    BY <1>1, <1>4, <2>1, <2>2, <2>3 DEF Fed
  <2>5. QED
    BY <1>1, <2>1, <2>2, <2>4
<1>9. CASE nodes' = nodes
  BY <1>1, <1>2, <1>6, <1>7, <1>8, <1>9 DEF BuildInv, HandInv
<1>10. CASE CheckHead(p) /\ FindNode(p) = {} /\ nodes' = Append(nodes, AddNode(p))
  <2> DEFINE n == AddNode(p)
  <2>1. /\ WellBuilt(n) /\ n.frame = p.frame /\ n.size = p.size /\ n.got = {p.cur}
    BY <1>1, <1>10, AddNodeBuilds
  <2> HIDE DEF n
  <2>2. /\ DOMAIN nodes' = 1 .. Len(nodes) + 1
        /\ \A j \in DOMAIN nodes : nodes'[j] = nodes[j]
        /\ nodes'[Len(nodes) + 1] = n
    BY <1>3, <1>10 DEF n
  <2>3. ASSUME NEW q \in Coming' PROVE Fed(n, q)
    BY <1>1, <1>4, <1>5, <2>1 DEF Precedes, Fed
  <2>4. ASSUME NEW j \in DOMAIN nodes PROVE nodes[j].frame < p.frame
    <3>1. Fed(nodes[j], p) /\ nodes[j].frame # p.frame
      BY <1>1, <1>6, <1>10 DEF FindNode
    <3>2. QED
      BY <3>1 DEF Fed
  <2>5. ASSUME NEW j \in DOMAIN nodes'
        PROVE  /\ WellBuilt(nodes'[j]) /\ nodes'[j].frame <= camera'.frame
               /\ \A q \in Coming' : Fed(nodes'[j], q)
    <3>1. CASE j \in DOMAIN nodes
      BY <1>1, <1>6, <2>2, <3>1
    <3>2. CASE j = Len(nodes) + 1
      BY <1>1, <2>1, <2>2, <2>3, <3>2
    <3>3. QED
      BY <1>3, <2>2, <3>1, <3>2
  <2>6. ASSUME NEW j \in DOMAIN nodes', NEW k \in DOMAIN nodes', j < k
        PROVE  nodes'[j].frame < nodes'[k].frame
    <3>1. j \in DOMAIN nodes /\ nodes'[j] = nodes[j]
      BY <1>3, <2>2, <2>6
    <3>2. CASE k \in DOMAIN nodes
      BY <1>7, <2>2, <2>6, <3>1, <3>2
    <3>3. CASE k = Len(nodes) + 1
      BY <2>1, <2>2, <2>4, <3>1, <3>3
    <3>4. QED
      BY <1>3, <2>2, <3>2, <3>3
  <2>7. hand' # NoNode => \A j \in DOMAIN nodes' : hand'.frame < nodes'[j].frame
    BY <1>2, <1>3, <1>8, <2>1, <2>2
  <2>8. QED
    BY <1>1, <1>2, <1>8, <2>5, <2>6, <2>7 DEF BuildInv, HandInv
<1>11. ASSUME NEW i \in FindNode(p),
              nodes' = [nodes EXCEPT ![i] = AppendToNode(nodes[i], p)]
       PROVE  BuildInv' /\ HandInv'
  <2> DEFINE m == AppendToNode(nodes[i], p)
  <2>1. i \in DOMAIN nodes /\ nodes[i].frame = p.frame /\ nodes[i] \in Frames
    BY <1>3 DEF FindNode
  <2>2. nodes[i].size = p.size /\ \A k \in nodes[i].got : k < p.cur /\ k \in Int
    <3>1. Fed(nodes[i], p) /\ nodes[i].got \subseteq Int
      BY <1>1, <1>6, <2>1 DEF Frames
    <3>2. QED
      BY <1>4, <2>1, <3>1 DEF Fed
  <2>3. /\ WellBuilt(m) /\ m.frame = nodes[i].frame /\ m.size = nodes[i].size
        /\ m.got = nodes[i].got \cup {p.cur}
    BY <1>1, <1>6, <2>1, <2>2, AppendBuilds
  <2> HIDE DEF m
  <2>4. /\ DOMAIN nodes' = DOMAIN nodes /\ nodes'[i] = m
        /\ \A j \in DOMAIN nodes : j # i => nodes'[j] = nodes[j]
        /\ \A j \in DOMAIN nodes : nodes'[j].frame = nodes[j].frame
    BY <1>3, <1>11, <2>1, <2>3 DEF m
  <2>5. ASSUME NEW q \in Coming' PROVE Fed(m, q)
    BY <1>1, <1>4, <1>5, <2>1, <2>2, <2>3 DEF Precedes, Fed
  <2>6. ASSUME NEW j \in DOMAIN nodes'
        PROVE  /\ WellBuilt(nodes'[j]) /\ nodes'[j].frame <= camera'.frame
               /\ \A q \in Coming' : Fed(nodes'[j], q)
    BY <1>1, <1>6, <2>3, <2>4, <2>5
  <2>7. \A j, k \in DOMAIN nodes' : j < k => nodes'[j].frame < nodes'[k].frame
    BY <1>7, <2>4
  <2>8. hand' # NoNode => \A j \in DOMAIN nodes' : hand'.frame < nodes'[j].frame
    BY <1>2, <1>8, <2>4
  <2>9. QED
    BY <1>1, <1>2, <1>8, <2>6, <2>7, <2>8 DEF BuildInv, HandInv
<1>12. QED
  BY <1>2, <1>9, <1>10, <1>11, ProcPackCases

(* What PickPack takes, and what it leaves.                                *)
LEMMA Picked ==
  ASSUME PoolInv, PoolOff, PickPack
  PROVE  \E i \in Completed :
           /\ i \in 1 .. Len(nodes) /\ Len(nodes) \in Nat
           /\ \A j \in Completed : i <= j
           /\ hand' = nodes[i] /\ full' = full - 1 /\ sem' = sem
           /\ free' = free + (i - 1)
           /\ nodes' = SubSeq(nodes, i + 1, Len(nodes))
           /\ DOMAIN nodes' = 1 .. Len(nodes) - i
           /\ \A j \in DOMAIN nodes' : j + i \in DOMAIN nodes /\ nodes'[j] = nodes[j + i]
<1>1. PICK i \in Completed :
        /\ \A j \in Completed : i <= j
        /\ hand' = nodes[i] /\ nodes' = SubSeq(nodes, i + 1, Len(nodes))
        /\ free' = free + (i - 1)
  BY DEF PickPack
<1>2. full' = full - 1 /\ sem' = sem
  BY DEF PickPack
<1>3. /\ nodes \in Seq(Frames) /\ Len(nodes) \in Nat /\ DOMAIN nodes = 1 .. Len(nodes)
  BY NodesAreFrames
<1>4. i \in 1 .. Len(nodes)
  BY <1>3 DEF Completed
<1>5. \A k \in i + 1 .. Len(nodes) : nodes[k] \in Frames
  BY <1>3, <1>4
<1>6. /\ nodes' \in Seq(Frames)
      /\ Len(nodes') = IF i + 1 <= Len(nodes) THEN Len(nodes) - (i + 1) + 1 ELSE 0
      /\ \A k \in 1 .. Len(nodes') : nodes'[k] = nodes[i + 1 + k - 1]
  BY <1>1, <1>3, <1>4, <1>5, SubSeqProperties
<1>7. Len(nodes') = Len(nodes) - i /\ DOMAIN nodes' = 1 .. Len(nodes) - i
  <2>1. Len(nodes') = IF i + 1 <= Len(nodes) THEN Len(nodes) - (i + 1) + 1 ELSE 0
    BY <1>6
  <2>2. Len(nodes) \in Nat
    BY <1>3
  <2>3. Len(nodes') = Len(nodes) - i
    BY <1>4, <2>1, <2>2
  <2>4. DOMAIN nodes' = 1 .. Len(nodes')
    BY <1>6
  <2>5. QED
    BY <2>3, <2>4
<1>8. \A j \in DOMAIN nodes' : j + i \in DOMAIN nodes /\ nodes'[j] = nodes[j + i]
  <2> SUFFICES ASSUME NEW j \in DOMAIN nodes'
               PROVE  j + i \in DOMAIN nodes /\ nodes'[j] = nodes[j + i]
    OBVIOUS
  <2>1. j \in 1 .. Len(nodes) - i /\ i \in Int /\ j \in Int
    BY <1>4, <1>7
  <2>2. i + 1 + j - 1 = j + i /\ j + i \in 1 .. Len(nodes)
    BY <1>3, <1>4, <2>1
  <2>3. nodes'[j] = nodes[i + 1 + j - 1]
    BY <1>6, <1>7, <2>1
  <2>4. QED
    BY <1>3, <2>2, <2>3
<1>9. QED
  BY <1>1, <1>2, <1>3, <1>4, <1>7, <1>8

LEMMA PickedBuilds ==
  ASSUME CameraInv, OrderInv, BuildInv, HandInv, PoolInv, PoolOff, ThreadInv, [Next]_vars,
         PickPack
  PROVE  BuildInv' /\ HandInv'
<1>1. PICK i \in Completed :
           /\ i \in 1 .. Len(nodes) /\ Len(nodes) \in Nat
           /\ hand' = nodes[i]
           /\ DOMAIN nodes' = 1 .. Len(nodes) - i
           /\ \A j \in DOMAIN nodes' : j + i \in DOMAIN nodes /\ nodes'[j] = nodes[j + i]
  BY Picked
<1>2. DOMAIN nodes = 1 .. Len(nodes)
  BY NodesAreFrames
<1>3. \A j \in DOMAIN nodes : /\ WellBuilt(nodes[j]) /\ nodes[j].frame <= camera'.frame
                              /\ \A q \in Coming' : Fed(nodes[j], q)
  <2> SUFFICES ASSUME NEW j \in DOMAIN nodes
               PROVE  /\ WellBuilt(nodes[j]) /\ nodes[j].frame <= camera'.frame
                      /\ \A q \in Coming' : Fed(nodes[j], q)
    OBVIOUS
  <2>1. /\ WellBuilt(nodes[j]) /\ nodes[j].frame <= camera.frame
        /\ \A q \in Coming : Fed(nodes[j], q)
    BY DEF BuildInv
  <2>2. QED
    BY <2>1, StillFed DEF WellBuilt
<1>4. \A j, k \in DOMAIN nodes : j < k => nodes[j].frame < nodes[k].frame
  BY DEF BuildInv
<1>5. \A j \in DOMAIN nodes' : /\ WellBuilt(nodes'[j]) /\ nodes'[j].frame <= camera'.frame
                               /\ \A q \in Coming' : Fed(nodes'[j], q)
  BY <1>1, <1>3
<1>6. \A j, k \in DOMAIN nodes' : j < k => nodes'[j].frame < nodes'[k].frame
  <2> SUFFICES ASSUME NEW j \in DOMAIN nodes', NEW k \in DOMAIN nodes', j < k
               PROVE  nodes'[j].frame < nodes'[k].frame
    OBVIOUS
  <2>1. j + i < k + i
    BY <1>1
  <2>2. QED
    BY <1>1, <1>4, <2>1
<1>7. \A j \in DOMAIN nodes' : hand'.frame < nodes'[j].frame
  <2> SUFFICES ASSUME NEW j \in DOMAIN nodes' PROVE hand'.frame < nodes'[j].frame
    OBVIOUS
  <2>1. i < j + i
    BY <1>1
  <2>2. QED
    BY <1>1, <1>2, <1>4, <2>1
<1>8. WellBuilt(hand') /\ AllReceived(hand') /\ hand'.frame <= camera'.frame
      /\ \A q \in Coming' : Fed(hand', q)
  BY <1>1, <1>2, <1>3 DEF Completed
<1>9. QED
  BY <1>5, <1>6, <1>7, <1>8 DEF BuildInv, HandInv

(* Only three kinds of step touch the list of nodes.                       *)
LEMMA NodesMove ==
  ASSUME PoolOff, [Next]_vars
  PROVE  \/ DecProcPack /\ pool = "ready"
         \/ RecvPicks /\ PickPack /\ recv = "woken"
         \/ /\ nodes' = nodes \/ nodes' = <<>>
            /\ hand' = hand
<1> USE DEF threads, display, packets, start_udp_recv_task, join_multicast_group2,
            leave_multicast_group2
<1>1. CASE CameraNext
  BY <1>1 DEF CameraNext, Encode, Transmit
<1>2. CASE CallNext
  BY <1>2 DEF CallNext, EnableVideoDisplay, DisableVideoDisplay
<1>3. CASE CloseNext
  BY <1>3 DEF CloseNext, close_udp_recv_task, CancelDec, Disabled
<1>4. CASE DecNext
  BY <1>4 DEF DecNext, DecOpens, DecFails, DecReceives, DecProcPack, DecCancelled
<1>5. CASE RecvInits \/ RecvWakes
  BY <1>5 DEF RecvInits, RecvWakes, InitNode
<1>6. CASE RecvPicks
  BY <1>6 DEF RecvPicks
<1>7. CASE RecvReturnsNode \/ RecvDecodes \/ RecvCancelled
  BY <1>7 DEF RecvReturnsNode, RecvDecodes, RecvCancelled, ReturnNode
<1>8. CASE cleanup_udp_recv_task
  BY <1>8 DEF cleanup_udp_recv_task, ClearNode
<1>9. CASE UNCHANGED vars
  BY <1>9 DEF vars
<1>10. QED
  BY <1>1, <1>2, <1>3, <1>4, <1>5, <1>6, <1>7, <1>8, <1>9 DEF Next, RecvNext

LEMMA BuildStep ==
  ThreadInv /\ CameraInv /\ OrderInv /\ PoolInv /\ PoolOff /\ BuildInv /\ HandInv /\ [Next]_vars
    => BuildInv' /\ HandInv'
<1> SUFFICES ASSUME ThreadInv, CameraInv, OrderInv, PoolInv, PoolOff, BuildInv, HandInv,
                    [Next]_vars
             PROVE  BuildInv' /\ HandInv'
  OBVIOUS
<1>1. CASE nodes' = nodes /\ hand' = hand
  <2>1. \A j \in DOMAIN nodes : /\ WellBuilt(nodes[j]) /\ nodes[j].frame <= camera'.frame
                                /\ \A q \in Coming' : Fed(nodes[j], q)
    BY StillFed DEF BuildInv, WellBuilt
  <2>2. hand # NoNode => hand.frame <= camera'.frame /\ \A q \in Coming' : Fed(hand, q)
    BY StillFed DEF HandInv, WellBuilt
  <2>3. QED
    BY <1>1, <2>1, <2>2 DEF BuildInv, HandInv
<1>2. CASE nodes' = <<>> /\ hand' = hand
  <2>1. hand # NoNode => hand.frame <= camera'.frame /\ \A q \in Coming' : Fed(hand, q)
    BY StillFed DEF HandInv, WellBuilt
  <2>2. DOMAIN nodes' = {}
    BY <1>2
  <2>3. QED
    BY <1>2, <2>1, <2>2 DEF BuildInv, HandInv
<1>3. QED
  BY <1>1, <1>2, NodesMove, ProcessedBuilds, PickedBuilds

StreamsInv == /\ ThreadInv /\ LockInv /\ StreamInv /\ PoolInv
              /\ CameraInv /\ OrderInv /\ PoolOff /\ BuildInv /\ HandInv

LEMMA StreamsInit == Init => StreamsInv
<1> SUFFICES ASSUME Init PROVE StreamsInv
  OBVIOUS
<1>1. camera = [at |-> "encode", frame |-> 0, size |-> 0, total |-> 0,
                cur |-> 0, len |-> 0, offset |-> 0, last |-> FALSE]
      /\ net = <<>> /\ nodes = <<>> /\ hand = NoNode /\ dec = "none" /\ free = 0
      /\ pool = "none" /\ recv = "none"
  BY DEF Init, PacketsInit
<1>2. CameraInv
  BY <1>1, MaxFrameAssumption DEF CameraInv, CameraType
<1>3. OrderInv /\ PoolOff /\ BuildInv /\ HandInv
  BY <1>1 DEF OrderInv, Came, Held, PoolOff, BuildInv, HandInv
<1>4. QED
  BY <1>2, <1>3, ThreadInit, PoolInit DEF StreamsInv

LEMMA StreamsStep == StreamsInv /\ [Next]_vars => StreamsInv'
BY ThreadStep, LockStep, StreamStep, PoolStep, CameraStep, OrderStep, PoolOffStep, BuildStep
DEF StreamsInv

(* A frame given to the decoder is the one that was encoded: each of its   *)
(* packets in its place, and its length, however many packets are lost and *)
(* whatever the nodes held before (AddNode, AppendToNode, PickPack).       *)
THEOREM FramesAreWhole == Spec => []WholeFramesOnly
<1>1. StreamsInv => WholeFramesOnly
  BY CompleteIsWhole DEF StreamsInv, HandInv, WholeFramesOnly
<1>2. QED
  BY <1>1, StreamsInit, StreamsStep, PTL DEF Spec

(* Frames are decoded in the order of their encoding and none twice, also  *)
(* when the display is closed and opened again in between.                 *)
THEOREM FramesKeepOrder == Spec => FramesInOrder
<1>1. StreamsInv /\ [Next]_vars => [hand' # hand /\ hand # NoNode => hand'.frame > hand.frame]_vars
  <2> SUFFICES ASSUME StreamsInv, [Next]_vars, hand' # hand, hand # NoNode
               PROVE  hand'.frame > hand.frame
    OBVIOUS
  <2>1. PickPack
    BY NodesMove DEF StreamsInv, DecProcPack
  <2>2. PICK i \in DOMAIN nodes : hand' = nodes[i]
    BY <2>1, Picked, NodesAreFrames DEF StreamsInv
  <2>3. /\ hand.frame < nodes[i].frame
        /\ WellBuilt(hand) /\ WellBuilt(nodes[i])
    BY DEF StreamsInv, HandInv, BuildInv
  <2>4. hand.frame \in Int /\ nodes[i].frame \in Int
    BY <2>3 DEF WellBuilt, IsNode
  <2>5. QED
    BY <2>2, <2>3, <2>4
<1>2. QED
  BY <1>1, StreamsInit, StreamsStep, PTL DEF Spec, FramesInOrder

-----------------------------------------------------------------------------
(* The completed frames, and what counts them.  A packet completes a frame *)
(* at most once, since none comes for a frame that is complete: so the     *)
(* post of Receive and the wait of the recv task keep to the list.         *)

Waking == IF recv = "woken" THEN 1 ELSE 0

CountInv == /\ sem \in Nat /\ full \in Nat /\ free \in Nat
            /\ pool = "ready" => /\ sem + Waking = Cardinality(Completed)
                                 /\ full = Cardinality(Completed)
-----------------------------------------------------------------------------
LEMMA CompletedAreFew ==
  ASSUME PoolInv, PoolOff
  PROVE  /\ IsFiniteSet(Completed) /\ Cardinality(Completed) \in Nat
         /\ Cardinality(Completed) <= Len(nodes)
<1>1. Len(nodes) \in Nat /\ Completed \in SUBSET (1 .. Len(nodes))
  BY NodesAreFrames DEF Completed
<1>2. IsFiniteSet(1 .. Len(nodes)) /\ Cardinality(1 .. Len(nodes)) = Len(nodes)
  BY <1>1, FS_Interval
<1>3. QED
  BY <1>1, <1>2, FS_Subset, FS_CardinalityType

(* Processing a packet counts the frame it completes.                      *)
LEMMA ProcessedCounts ==
  ASSUME CameraInv, OrderInv, BuildInv, PoolInv, PoolOff, CountInv, DecProcPack,
         pool = "ready"
  PROVE  /\ sem' \in Nat /\ full' \in Nat
         /\ sem' - sem = Cardinality(Completed') - Cardinality(Completed)
         /\ full' - full = Cardinality(Completed') - Cardinality(Completed)
         /\ Cardinality(Completed') \in Nat
         /\ Cardinality(Completed') <= Cardinality(Completed) + 1
<1> DEFINE p == packet
<1>1. /\ WellCut(p) /\ p \in Coming
  BY ProcessedNow
<1>2. ProcPack(p)
  BY DEF DecProcPack
<1> HIDE DEF p
<1>3. /\ nodes \in Seq(Frames) /\ Len(nodes) \in Nat /\ DOMAIN nodes = 1 .. Len(nodes)
      /\ \A i \in DOMAIN nodes : nodes[i] \in Frames
  BY NodesAreFrames
<1>4. sem \in Nat /\ full \in Nat
  BY DEF CountInv
<1>5. IsFiniteSet(Completed) /\ Cardinality(Completed) \in Nat
  BY CompletedAreFew
<1>6. CASE UNCHANGED <<nodes, full, sem>>
  <2>1. Completed' = Completed
    BY <1>6 DEF Completed, AllReceived
  <2>2. QED
    BY <1>4, <1>5, <1>6, <2>1
<1>7. CASE /\ CheckHead(p) /\ nodes' = Append(nodes, AddNode(p))
           /\ Receive(AddNode(p), FALSE)
  <2> DEFINE n == AddNode(p)
             l == Len(nodes) + 1
  <2>1. /\ DOMAIN nodes' = 1 .. l /\ nodes'[l] = n
        /\ \A j \in DOMAIN nodes : nodes'[j] = nodes[j]
    BY <1>3, <1>7
  <2>2. /\ sem' = sem + (IF AllReceived(n) THEN 1 ELSE 0)
        /\ full' = full + (IF AllReceived(n) THEN 1 ELSE 0)
    BY <1>7 DEF Receive
  <2> HIDE DEF n
  <2>3. l \notin Completed
    BY <1>3 DEF Completed
  <2>4. \A j : j \in 1 .. l <=> j \in DOMAIN nodes \/ j = l
    BY <1>3
  <2>5. Completed' = IF AllReceived(n) THEN Completed \cup {l} ELSE Completed
    BY <2>1, <2>4 DEF Completed, AllReceived
  <2> HIDE DEF l
  <2>6. Cardinality(Completed') = Cardinality(Completed) + (IF AllReceived(n) THEN 1 ELSE 0)
    BY <1>5, <2>3, <2>5, FS_AddElement
  <2>7. QED
    BY <1>4, <1>5, <2>2, <2>6
<1>8. ASSUME NEW i \in FindNode(p),
             nodes' = [nodes EXCEPT ![i] = AppendToNode(nodes[i], p)],
             Receive(AppendToNode(nodes[i], p), AllReceived(nodes[i]))
      PROVE  /\ sem' \in Nat /\ full' \in Nat
             /\ sem' - sem = Cardinality(Completed') - Cardinality(Completed)
             /\ full' - full = Cardinality(Completed') - Cardinality(Completed)
             /\ Cardinality(Completed') \in Nat
             /\ Cardinality(Completed') <= Cardinality(Completed) + 1
  <2> DEFINE m == AppendToNode(nodes[i], p)
  <2>1. i \in DOMAIN nodes /\ nodes[i].frame = p.frame /\ nodes[i] \in Frames
    BY <1>3 DEF FindNode
  <2>2. WellBuilt(nodes[i]) /\ Fed(nodes[i], p) /\ p.frame \in Int
    BY <1>1, <2>1, CutTypes DEF BuildInv
  <2>3. nodes[i].size = p.size /\ \A k \in nodes[i].got : k < p.cur
    BY <2>1, <2>2 DEF Fed
  <2>4. ~ AllReceived(nodes[i])
    BY <1>1, <2>1, <2>2, <2>3, AppendBuilds
  <2>5. /\ sem' = sem + (IF AllReceived(m) THEN 1 ELSE 0)
        /\ full' = full + (IF AllReceived(m) THEN 1 ELSE 0)
    BY <1>8, <2>4 DEF Receive
  <2> HIDE DEF m
  <2>6. /\ DOMAIN nodes' = DOMAIN nodes /\ nodes'[i] = m
        /\ \A j \in DOMAIN nodes : j # i => nodes'[j] = nodes[j]
    BY <1>3, <1>8, <2>1 DEF m
  <2>7. i \notin Completed
    BY <2>4 DEF Completed
  <2>8. Completed' = IF AllReceived(m) THEN Completed \cup {i} ELSE Completed
    BY <2>1, <2>4, <2>6 DEF Completed, AllReceived
  <2>9. Cardinality(Completed') = Cardinality(Completed) + (IF AllReceived(m) THEN 1 ELSE 0)
    BY <1>5, <2>7, <2>8, FS_AddElement
  <2>10. QED
    BY <1>4, <1>5, <2>5, <2>9
<1>9. QED
  BY <1>2, <1>6, <1>7, <1>8, ProcPackCases

(* Taking a frame leaves the other completed ones, moved to the front.     *)
LEMMA PickedCounts ==
  ASSUME PoolInv, PoolOff, PickPack
  PROVE  /\ Completed # {}
         /\ Cardinality(Completed') = Cardinality(Completed) - 1
<1>1. PICK i \in Completed :
        /\ i \in 1 .. Len(nodes) /\ Len(nodes) \in Nat
        /\ \A j \in Completed : i <= j
        /\ DOMAIN nodes' = 1 .. Len(nodes) - i
        /\ \A j \in DOMAIN nodes' : j + i \in DOMAIN nodes /\ nodes'[j] = nodes[j + i]
  BY Picked
<1>2. IsFiniteSet(Completed) /\ DOMAIN nodes = 1 .. Len(nodes)
  BY CompletedAreFew, NodesAreFrames
<1> DEFINE rest == Completed \ {i}
           f == [j \in rest |-> j - i]
<1>3. IsFiniteSet(rest) /\ Cardinality(rest) = Cardinality(Completed) - 1
  BY <1>2, FS_RemoveElement
<1>4. \A j \in rest : j \in Int /\ i < j /\ j <= Len(nodes) /\ j - i \in Completed'
  <2> SUFFICES ASSUME NEW j \in rest
               PROVE  j \in Int /\ i < j /\ j <= Len(nodes) /\ j - i \in Completed'
    OBVIOUS
  <2>1. j \in 1 .. Len(nodes) /\ AllReceived(nodes[j]) /\ i < j
    BY <1>1, <1>2 DEF Completed
  <2>2. j - i \in DOMAIN nodes' /\ (j - i) + i = j
    BY <1>1, <2>1
  <2>3. nodes'[j - i] = nodes[j]
    BY <1>1, <2>2
  <2>4. QED
    BY <2>1, <2>2, <2>3 DEF Completed, AllReceived
<1>5. \A k \in Completed' : k \in Int /\ k + i \in rest
  <2> SUFFICES ASSUME NEW k \in Completed' PROVE k \in Int /\ k + i \in rest
    OBVIOUS
  <2>1. k \in DOMAIN nodes' /\ AllReceived(nodes'[k])
    BY DEF Completed, AllReceived
  <2>2. k + i \in DOMAIN nodes /\ nodes'[k] = nodes[k + i] /\ k \in 1 .. Len(nodes) - i
    BY <1>1, <2>1
  <2>3. k + i \in Completed /\ k + i # i
    BY <1>1, <2>1, <2>2 DEF Completed
  <2>4. QED
    BY <2>2, <2>3
<1>6. i \in Int
  BY <1>1
<1>7. ExistsBijection(rest, Completed')
  <2>1. f \in [rest -> Completed']
    BY <1>4
  <2>2. \A a, b \in rest : f[a] = f[b] => a = b
    BY <1>4, <1>6
  <2>3. \A k \in Completed' : \E a \in rest : f[a] = k
    <3> SUFFICES ASSUME NEW k \in Completed' PROVE \E a \in rest : f[a] = k
      OBVIOUS
    <3>1. k + i \in rest /\ (k + i) - i = k
      BY <1>5, <1>6
    <3>2. f[k + i] = k
      BY <3>1
    <3>3. QED
      BY <3>1, <3>2
  <2> HIDE DEF f, rest
  <2>4. QED
    BY <2>1, <2>2, <2>3 DEF ExistsBijection, Bijection, Injection, Surjection, IsInjective
<1>8. QED
  BY <1>3, <1>7, FS_Bijection

LEMMA CountStep ==
  ThreadInv /\ CameraInv /\ OrderInv /\ PoolInv /\ PoolOff /\ BuildInv /\ CountInv /\ [Next]_vars
    => CountInv'
<1> SUFFICES ASSUME ThreadInv, CameraInv, OrderInv, PoolInv, PoolOff, BuildInv, CountInv,
                    [Next]_vars
             PROVE  CountInv'
  OBVIOUS
<1> USE DEF threads, display, packets, join_multicast_group2, leave_multicast_group2,
            video_process_state_set
<1>1. /\ sem \in Nat /\ full \in Nat /\ free \in Nat
      /\ pool = "ready" => /\ sem + Waking = Cardinality(Completed)
                           /\ full = Cardinality(Completed)
  BY DEF CountInv
<1>2. CASE CameraNext \/ CloseNext \/ DisableVideoDisplay \/ DecOpens \/ DecFails
             \/ DecReceives \/ DecCancelled \/ UNCHANGED vars
  <2>1. UNCHANGED <<packets, pool, recv>>
    BY <1>2 DEF CameraNext, Encode, Transmit, CloseNext, close_udp_recv_task, CancelDec,
                Disabled, DisableVideoDisplay, DecOpens, DecFails, DecReceives,
                DecCancelled, vars
  <2>2. QED
    BY <1>1, <2>1 DEF CountInv, Waking, Completed, AllReceived
<1>3. CASE EnableVideoDisplay
  <2>1. UNCHANGED <<packets, pool>> /\ recv # "woken" /\ recv' # "woken"
    BY <1>3 DEF EnableVideoDisplay, start_udp_recv_task, ThreadInv, IdleInv
  <2>2. QED
    BY <1>1, <2>1 DEF CountInv, Waking, Completed, AllReceived
<1>4. CASE DecProcPack
  <2>1. UNCHANGED <<pool, recv>>
    BY <1>4 DEF DecProcPack
  <2>2. CASE pool = "ready"
    <3>1. /\ sem' \in Nat /\ full' \in Nat /\ Cardinality(Completed') \in Nat
          /\ sem' - sem = Cardinality(Completed') - Cardinality(Completed)
          /\ full' - full = Cardinality(Completed') - Cardinality(Completed)
      BY <1>4, <2>2, ProcessedCounts
    <3>2. free' \in Nat
      <4>1. ProcPack(packet)
        BY <1>4, <2>2 DEF DecProcPack
      <4>2. free' = free \/ (free > 0 /\ free' = free - 1)
        BY <4>1 DEF ProcPack
      <4>3. QED
        BY <1>1, <4>2
    <3>3. Waking' = Waking /\ Waking \in Nat
      BY <2>1 DEF Waking
    <3>4. sem' + Waking' = Cardinality(Completed') /\ full' = Cardinality(Completed')
      <4>1. sem + Waking = Cardinality(Completed) /\ full = Cardinality(Completed)
        BY <1>1, <2>2
      <4>2. Cardinality(Completed) \in Nat
        BY CompletedAreFew
      <4>3. QED
        BY <1>1, <3>1, <3>3, <4>1, <4>2
    <3>5. QED
      BY <3>1, <3>2, <3>4 DEF CountInv
  <2>3. CASE pool # "ready"
    <3>1. UNCHANGED packets
      BY <1>4, <2>3 DEF DecProcPack
    <3>2. QED
      BY <1>1, <2>1, <2>3, <3>1 DEF CountInv
  <2>4. QED
    BY <2>2, <2>3
<1>5. CASE RecvInits
  <2>1. nodes' = <<>> /\ free' = BufCount /\ full' = 0 /\ sem' = 0 /\ recv' = "wait"
    BY <1>5 DEF RecvInits, InitNode
  <2>2. Completed' = {}
    BY <2>1 DEF Completed
  <2>3. QED
    BY <2>1, <2>2, FS_EmptySet, BufCountAssumption DEF CountInv, Waking
<1>6. CASE RecvWakes
  <2>1. /\ UNCHANGED <<nodes, free, full, pool>> /\ sem' = sem - 1 /\ sem > 0
        /\ recv = "wait" /\ recv' = "woken"
    BY <1>6 DEF RecvWakes
  <2>2. Completed' = Completed
    BY <2>1 DEF Completed, AllReceived
  <2>3. QED
    BY <1>1, <2>1, <2>2 DEF CountInv, Waking
<1>7. CASE RecvPicks
  <2>1. recv = "woken" /\ pool = "ready" /\ pool' = pool
    BY <1>7 DEF RecvPicks, PoolOff
  <2>2. IsFiniteSet(Completed) /\ Cardinality(Completed) = sem + 1
        /\ full = Cardinality(Completed)
    BY <1>1, <2>1, CompletedAreFew DEF Waking
  <2>3. Completed # {}
    BY <1>1, <2>2, FS_EmptySet
  <2>4. PickPack /\ recv' = "picked"
    BY <1>7, <2>3 DEF RecvPicks
  <2>5. full' = full - 1 /\ sem' = sem /\ Cardinality(Completed') = Cardinality(Completed) - 1
    BY <2>4, PickedCounts DEF PickPack
  <2>6. free' \in Nat
    <3>1. PICK i \in Completed : i \in 1 .. Len(nodes) /\ Len(nodes) \in Nat
                                 /\ free' = free + (i - 1)
      BY <2>4, Picked
    <3>2. QED
      BY <1>1, <3>1
  <2>7. QED
    BY <1>1, <2>2, <2>4, <2>5, <2>6 DEF CountInv, Waking
<1>8. CASE RecvReturnsNode
  <2>1. /\ UNCHANGED <<nodes, full, sem, pool>> /\ free' = free + 1
        /\ recv # "woken" /\ recv' # "woken"
    BY <1>8 DEF RecvReturnsNode, ReturnNode
  <2>2. QED
    BY <1>1, <2>1 DEF CountInv, Waking, Completed, AllReceived
<1>9. CASE RecvDecodes \/ RecvCancelled
  <2>1. UNCHANGED <<packets, pool>> /\ recv # "woken" /\ recv' # "woken"
    BY <1>9 DEF RecvDecodes, RecvCancelled
  <2>2. QED
    BY <1>1, <2>1 DEF CountInv, Waking, Completed, AllReceived
<1>10. CASE cleanup_udp_recv_task
  BY <1>1, <1>10 DEF cleanup_udp_recv_task, ClearNode, CountInv
<1>11. QED
  BY <1>2, <1>3, <1>4, <1>5, <1>6, <1>7, <1>8, <1>9, <1>10
  DEF Next, CallNext, DecNext, RecvNext
-----------------------------------------------------------------------------
(* The variables nothing else is said about.                               *)
RestInv == /\ packet \in PacketType \cup {NoNode}
           /\ cancel \subseteq {"recv", "dec"} /\ bound \in BOOLEAN
           /\ closer \in {"idle", "sleep", "close recv", "close dec"}
           /\ recv \in {"none", "init", "wait", "woken", "picked", "decode", "cleanup"}
           /\ dec \in {"none", "init", "receive", "packet"}
           /\ lost \in Nat /\ slept \in Nat /\ joins \in 0 .. MaxJoins
-----------------------------------------------------------------------------
LEMMA RestStep == StreamsInv /\ RestInv /\ [Next]_vars => RestInv'
<1> SUFFICES ASSUME StreamsInv, RestInv, [Next]_vars PROVE RestInv'
  OBVIOUS
<1> USE DEF RestInv, threads, display, packets, join_multicast_group2, leave_multicast_group2,
            video_process_state_set
<1>1. CASE CameraNext
  BY <1>1 DEF CameraNext, Encode, Transmit
<1>2. CASE CloseNext
  <2>1. UNCHANGED <<packet, recv, dec, lost, slept, joins>>
    BY <1>2 DEF CloseNext, close_udp_recv_task, CancelDec, Disabled
  <2>2. cancel' \subseteq {"recv", "dec"} /\ bound' \in BOOLEAN
    BY <1>2 DEF CloseNext, close_udp_recv_task, CancelDec, Disabled
  <2>3. closer' \in {"idle", "sleep", "close recv", "close dec"}
    BY <1>2 DEF CloseNext, close_udp_recv_task, CancelDec, Disabled
  <2>4. QED
    BY <2>1, <2>2, <2>3
<1>3. CASE DisableVideoDisplay
  BY <1>3 DEF DisableVideoDisplay
<1>4. CASE EnableVideoDisplay
  <2>1. joins' \in 0 .. MaxJoins
    BY <1>4, MaxJoinsAssumption DEF EnableVideoDisplay
  <2>2. lost' \in Nat
    BY <1>4 DEF EnableVideoDisplay, start_udp_recv_task
  <2>3. QED
    BY <1>4, <2>1, <2>2 DEF EnableVideoDisplay, start_udp_recv_task
<1>5. CASE DecReceives
  <2>1. net \in Seq(PacketType) /\ net # <<>>
    BY <1>5 DEF StreamsInv, OrderInv, DecReceives
  <2>2. Head(net) \in PacketType
    BY <2>1, HeadTailProperties
  <2>3. QED
    BY <1>5, <2>2 DEF DecReceives
<1>6. CASE DecOpens \/ DecFails \/ DecCancelled
  BY <1>6 DEF DecOpens, DecFails, DecCancelled
<1>7. CASE DecProcPack
  <2>1. UNCHANGED <<cancel, bound, closer, recv, lost, slept, joins>>
        /\ packet' = NoNode /\ dec' = "receive"
    BY <1>7 DEF DecProcPack
  <2>2. QED
    BY <2>1
<1>8. CASE RecvNext
  <2>1. UNCHANGED <<packet, bound, closer, dec, lost, joins>>
    BY <1>8 DEF RecvNext, RecvInits, RecvWakes, RecvPicks, RecvReturnsNode,
                RecvDecodes, RecvCancelled, cleanup_udp_recv_task
  <2>2. /\ slept' = slept \/ slept' = slept + 1
        /\ cancel' = cancel \/ cancel' = cancel \ {"recv"}
        /\ recv' \in {"none", "wait", "woken", "picked", "decode", "cleanup"}
    BY <1>8 DEF RecvNext, RecvInits, RecvWakes, RecvPicks, RecvReturnsNode,
                RecvDecodes, RecvCancelled, cleanup_udp_recv_task
  <2>3. cancel' \subseteq cancel
    BY <2>2
  <2>4. cancel' \subseteq {"recv", "dec"}
    BY <2>3
  <2>5. slept' \in Nat
    <3>1. slept \in Nat /\ (slept' = slept \/ slept' = slept + 1)
      BY <2>2
    <3> HIDE DEF RestInv
    <3>2. QED
      BY <3>1
  <2>6. QED
    BY <2>1, <2>2, <2>4, <2>5
<1>9. CASE UNCHANGED vars
  BY <1>9 DEF vars
<1>10. QED
  BY <1>1, <1>4, <1>5, <1>6, <1>8, <1>9, <1>2, <1>3, <1>7 DEF Next, CallNext, DecNext

BufferInv == StreamsInv /\ CountInv /\ RestInv /\ NoStrayAccess

LEMMA BufferInit == Init => BufferInv
<1> SUFFICES ASSUME Init PROVE BufferInv
  OBVIOUS
<1>1. CountInv /\ NoStrayAccess
  BY DEF Init, PacketsInit, CountInv, NoStrayAccess
<1>2. /\ closer = "idle" /\ recv = "none" /\ dec = "none" /\ cancel = {} /\ packet = NoNode
      /\ bound = FALSE /\ lost = 0 /\ slept = 0 /\ joins = 0
  BY DEF Init
<1>3. 0 \in 0 .. MaxJoins /\ 0 \in Nat
  BY MaxJoinsAssumption
<1>4. RestInv
  BY <1>2, <1>3 DEF RestInv
<1>5. QED
  BY <1>1, <1>4, StreamsInit DEF BufferInv

LEMMA BufferStep ==
  ASSUME BufferInv, [Next]_vars
  PROVE  BufferInv'
<1>1. StreamsInv /\ CountInv /\ RestInv /\ stray \subseteq {"STOP"}
  BY DEF BufferInv, NoStrayAccess
<1>2. StreamsInv' /\ CountInv' /\ RestInv'
  BY <1>1, StreamsStep, CountStep, RestStep DEF StreamsInv
<1>3. stray' \subseteq {"STOP"}
  <2>1. CASE DecProcPack
    <3>1. dec = "packet"
      BY <2>1 DEF DecProcPack
    <3>2. pool = "ready" \/ state = "STOP"
      BY <1>1, <3>1 DEF StreamsInv, ThreadInv, IdleInv, StartInv, RunInv
    <3>3. stray' = stray \/ stray' = stray \cup {"STOP"}
      BY <2>1, <3>2 DEF DecProcPack
    <3>4. QED
      BY <1>1, <3>3
  <2>2. CASE RecvPicks
    <3>1. recv = "woken" /\ pool = "ready" /\ sem \in Nat
      BY <1>1, <2>2 DEF RecvPicks, StreamsInv, PoolOff, CountInv
    <3>2. sem + 1 = Cardinality(Completed)
      BY <1>1, <3>1 DEF CountInv, Waking
    <3>3. Completed # {}
      BY <3>1, <3>2, FS_EmptySet
    <3>4. QED
      BY <1>1, <2>2, <3>3 DEF RecvPicks
  <2>3. QED
    BY <1>1, <2>1, <2>2 DEF Next, CameraNext, Encode, Transmit, CallNext,
       EnableVideoDisplay, DisableVideoDisplay, CloseNext, close_udp_recv_task, CancelDec,
       Disabled, DecNext, DecOpens, DecFails, DecReceives, DecCancelled, RecvNext,
       RecvInits, RecvWakes, RecvReturnsNode, RecvDecodes, RecvCancelled,
       cleanup_udp_recv_task, vars, display, threads
<1>4. QED
  BY <1>2, <1>3 DEF BufferInv, NoStrayAccess

LEMMA BufferTypes == BufferInv => TypeOK
<1> SUFFICES ASSUME BufferInv PROVE TypeOK
  OBVIOUS
<1>1. StreamsInv /\ CountInv /\ RestInv /\ stray \subseteq States
  BY DEF BufferInv, NoStrayAccess, States
<1>2. \A i \in DOMAIN nodes : IsNode(nodes[i])
  BY <1>1 DEF StreamsInv, BuildInv, WellBuilt
<1>3. hand = NoNode \/ IsNode(hand)
  BY <1>1 DEF StreamsInv, HandInv, WellBuilt
<1>4. free \in 0 .. BufCount
  <2>1. free \in Nat /\ BufCount \in Nat
    BY <1>1, BufCountAssumption DEF CountInv
  <2>2. Len(nodes) \in Nat /\ InHand \in Nat
    BY <1>1, NodesAreFrames DEF StreamsInv, InHand
  <2>3. pool = "none" => free = 0
    BY <1>1 DEF StreamsInv, PoolOff
  <2>4. pool = "ready" => Len(nodes) + free + InHand = BufCount
    BY <1>1 DEF StreamsInv, PoolInv
  <2>5. pool \in {"none", "ready"}
    BY <1>1 DEF StreamsInv, PoolOff
  <2>6. QED
    BY <2>1, <2>2, <2>3, <2>4, <2>5
<1>5. PacketsTypeOK
  BY <1>1, <1>2, <1>3, <1>4 DEF PacketsTypeOK, StreamsInv, CameraInv, OrderInv, CountInv
<1>6. QED
  BY <1>1, <1>5 DEF TypeOK, RestInv, StreamsInv, ThreadInv, LockInv, PoolOff, States

(* The semaphore counts the completed frames, no node of the pool is lost, *)
(* and nobody uses the pool while it is not there or runs off the list,    *)
(* but the dec thread during a close: whatever was lost on the way, how    *)
(* often the display is opened, and however much of its backlog the recv   *)
(* task has decoded when the sleep of DisableVideoDisplay ends.            *)
THEOREM BuffersAreAccounted == Spec => []BuffersAccounted
<1>1. BufferInv /\ NodesConserved => BuffersAccounted
  <2> SUFFICES ASSUME BufferInv, NodesConserved PROVE BuffersAccounted
    OBVIOUS
  <2>1. SemaphoreCountsFrames
    BY DEF BufferInv, CountInv, Waking, SemaphoreCountsFrames
  <2>2. QED
    BY <2>1, BufferTypes DEF BufferInv, BuffersAccounted
<1>2. BufferInv /\ [Next]_vars => BufferInv'
  BY BufferStep
<1>3. QED
  BY <1>1, <1>2, BufferInit, NoNodeIsLost, PTL DEF Spec
=============================================================================
