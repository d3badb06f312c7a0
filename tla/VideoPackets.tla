---------------------------- MODULE VideoPackets ----------------------------
(***************************************************************************)
(* Video frames cut into UDP packets and put together again                *)
(* (udp_fragment_opt.c, and the sending loop of capture_procsee.c).        *)
(*                                                                         *)
(* The camera cuts each encoded frame into packets of at most FragSize     *)
(* units.  The receiver keeps a list of frames under construction, taken   *)
(* from a pool of BufCount nodes; it posts a semaphore for a completed     *)
(* frame, and the task that decodes takes the first completed frame of the *)
(* list, throwing away the incomplete ones in front of it.                 *)
(* The bytes of a packet are abstracted to its number: a node's buffer is  *)
(* a function from positions, in packets, to the packet copied there.      *)
(* The network may lose a packet; it keeps their order and repeats none.   *)
(* VideoDisplay adds the threads that run these operations.                *)
(***************************************************************************)
EXTENDS Integers, Sequences, FiniteSets

CONSTANTS FragSize,     \* FRAGMENT_SIZE
          MaxPack,      \* VIDEO_MAX_PACK_NUM; VIDEO_BUF_LEN is MaxPack * FragSize
          BufCount,     \* VIDEO_BUF_COUNT
          Sizes,        \* sizes of the encoded frames
          MaxFrame,     \* bound: frames the camera sends
          NetMax,       \* packets the receiving socket holds
          NoNode        \* no frame was decoded yet

ASSUME FragSizeAssumption == FragSize \in Nat \ {0}
ASSUME MaxPackAssumption  == MaxPack \in Nat \ {0}
ASSUME BufCountAssumption == BufCount \in Nat \ {0}
ASSUME SizesAssumption    == Sizes \subseteq Nat \ {0}
ASSUME MaxFrameAssumption == MaxFrame \in Nat /\ MaxFrame < 65536
ASSUME NetMaxAssumption   == NetMax \in Nat

VARIABLES
  camera,   \* send_fragment.m_head, m_usFragOffset, m_bLastFragment
  net,      \* packets in the receiving socket, oldest first
  nodes,    \* the list of Root: frames under construction, oldest first
  free,     \* length of the list UnUsedRoot
  full,     \* FullNodeCount
  sem,      \* m_sem_node
  hand      \* the node last taken by PickPack

packets == <<nodes, free, full, sem>>

-----------------------------------------------------------------------------
(* Sending *)

Packets(size) == size \div FragSize + (IF size % FragSize = 0 THEN 0 ELSE 1)

start_send_fragment_head(size) ==
  /\ camera.at = "encode"
  /\ camera.frame < MaxFrame
  /\ camera' = [at     |-> "send",
                frame  |-> camera.frame + 1,
                size   |-> size,
                total  |-> Packets(size),
                cur    |-> 1,
                len    |-> IF size > FragSize THEN FragSize ELSE size,
                offset |-> 0,
                last   |-> size <= FragSize]

prepare_for_next_fragment ==
  LET offset == camera.offset + camera.len
      cur    == camera.cur + 1
      last   == cur >= camera.total
  IN camera' = IF camera.last
               THEN [camera EXCEPT !.at = "encode"]
               ELSE [camera EXCEPT
                       !.offset = offset, !.cur = cur, !.last = last,
                       !.len = IF last THEN camera.size - offset ELSE FragSize]

Packet == [frame |-> camera.frame, total |-> camera.total, cur |-> camera.cur,
           len |-> camera.len, size |-> camera.size]

(* One packet is sent, and reaches the socket if open, or is lost.         *)
SendFragment(open) ==
  /\ camera.at = "send"
  /\ \/ open /\ Len(net) < NetMax /\ net' = Append(net, Packet)
     \/ net' = net
  /\ prepare_for_next_fragment

-----------------------------------------------------------------------------
(* Receiving *)

(* Seeded fault: a frame is complete once its last packet is there.        *)
AllReceivedLast(node) == node.total \in node.got

AllReceived(node) == node.got = 1 .. node.total

CheckHead(p) == /\ p.size <= MaxPack * FragSize
                /\ p.cur \in 1 .. p.total
                /\ p.total \in 1 .. MaxPack

(* size is not a field of the code's node: it records what was sent.       *)
AddNode(p) ==
  [frame |-> p.frame, total |-> p.total, got |-> {p.cur}, len |-> p.len,
   buf |-> [i \in {1} |-> p.cur], size |-> p.size]

AppendToNode(node, p) ==
  IF p.cur \in node.got
  THEN node
  ELSE [node EXCEPT
          !.got = @ \cup {p.cur},
          !.len = @ + p.len,
          !.buf = [i \in DOMAIN node.buf \cup {p.cur} |->
                     IF i = p.cur THEN p.cur ELSE node.buf[i]]]

FindNode(p) == {i \in DOMAIN nodes : nodes[i].frame = p.frame}

(* Seeded fault: posts for every packet.                                   *)
ReceiveAny(node, was) ==
  /\ full' = full + (IF AllReceived(node) /\ ~ was THEN 1 ELSE 0)
  /\ sem'  = sem + 1

Receive(node, was) ==
  /\ full' = full + (IF AllReceived(node) /\ ~ was THEN 1 ELSE 0)
  /\ sem'  = sem + (IF AllReceived(node) THEN 1 ELSE 0)

(* Seeded fault: a new frame is put in front of the list.                  *)
ProcPackInFront(p) ==
  \/ /\ ~ CheckHead(p) \/ (FindNode(p) = {} /\ free = 0)
     /\ UNCHANGED packets
  \/ /\ CheckHead(p) /\ FindNode(p) = {} /\ free > 0
     /\ nodes' = <<AddNode(p)>> \o nodes
     /\ free' = free - 1
     /\ Receive(AddNode(p), FALSE)
  \/ /\ CheckHead(p) /\ FindNode(p) # {}
     /\ \E i \in FindNode(p) :
          /\ nodes' = [nodes EXCEPT ![i] = AppendToNode(@, p)]
          /\ Receive(AppendToNode(nodes[i], p), AllReceived(nodes[i]))
     /\ free' = free

(* One received packet, under the node lock.                               *)
ProcPack(p) ==
  \/ /\ ~ CheckHead(p) \/ full > MaxPack \/ (FindNode(p) = {} /\ free = 0)
     /\ UNCHANGED packets
  \/ /\ CheckHead(p) /\ full <= MaxPack
     /\ FindNode(p) = {} /\ free > 0
     /\ nodes' = Append(nodes, AddNode(p))
     /\ free' = free - 1
     /\ Receive(AddNode(p), FALSE)
  \/ /\ CheckHead(p) /\ full <= MaxPack
     /\ FindNode(p) # {}
     /\ \E i \in FindNode(p) :
          /\ nodes' = [nodes EXCEPT ![i] = AppendToNode(@, p)]
          /\ Receive(AppendToNode(nodes[i], p), AllReceived(nodes[i]))
     /\ free' = free

Completed == {i \in DOMAIN nodes : AllReceived(nodes[i])}

(* Seeded fault: the incomplete frames are cut off the list and forgotten. *)
PickPackForgets ==
  /\ Completed # {}
  /\ \E i \in Completed :
       /\ \A j \in Completed : i <= j
       /\ hand' = nodes[i]
       /\ nodes' = SubSeq(nodes, i + 1, Len(nodes))
  /\ free' = free
  /\ full' = full - 1
  /\ UNCHANGED sem

(* The first completed frame, and the incomplete ones before it back to    *)
(* the pool.                                                               *)
PickPack ==
  /\ Completed # {}
  /\ \E i \in Completed :
       /\ \A j \in Completed : i <= j
       /\ hand' = nodes[i]
       /\ nodes' = SubSeq(nodes, i + 1, Len(nodes))
       /\ free' = free + (i - 1)
  /\ full' = full - 1
  /\ UNCHANGED sem

(* With incomplete frames only, the loop leaves the list and follows the   *)
(* null pointer at its end.                                                *)
PickRunsOff == nodes # <<>> /\ Completed = {}

ReturnNode == free' = free + 1 /\ UNCHANGED <<nodes, full, sem, hand>>

InitNode == nodes' = <<>> /\ free' = BufCount /\ full' = 0 /\ sem' = 0
ClearNode == nodes' = <<>> /\ free' = 0 /\ full' = 0 /\ UNCHANGED sem

-----------------------------------------------------------------------------
PacketType == [frame : 1 .. MaxFrame, total : Nat, cur : Nat, len : Nat,
               size : Sizes]

CameraType == [at : {"encode", "send"}, frame : 0 .. MaxFrame,
               size : Sizes \cup {0}, total : Nat, cur : Nat, len : Nat,
               offset : Nat, last : BOOLEAN]

IsNode(n) ==
  /\ DOMAIN n = {"frame", "total", "got", "len", "buf", "size"}
  /\ n.frame \in 1 .. MaxFrame /\ n.size \in Sizes
  /\ n.total \in 1 .. MaxPack /\ n.got \subseteq 1 .. n.total
  /\ n.len \in Nat
  /\ DOMAIN n.buf \subseteq 1 .. MaxPack

PacketsTypeOK ==
  /\ camera \in CameraType
  /\ net \in Seq(PacketType)
  /\ \A i \in DOMAIN nodes : IsNode(nodes[i])
  /\ free \in 0 .. BufCount
  /\ full \in Nat
  /\ sem \in Nat
  /\ hand = NoNode \/ IsNode(hand)

PacketsInit ==
  /\ camera = [at |-> "encode", frame |-> 0, size |-> 0, total |-> 0,
               cur |-> 0, len |-> 0, offset |-> 0, last |-> FALSE]
  /\ net = <<>>
  /\ nodes = <<>> /\ free = 0 /\ full = 0 /\ sem = 0
  /\ hand = NoNode
=============================================================================
