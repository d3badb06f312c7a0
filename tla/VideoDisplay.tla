---------------------------- MODULE VideoDisplay ----------------------------
(***************************************************************************)
(* Receiving and showing a camera's video (video_process.c): opening and   *)
(* closing the display, and the two threads it runs.                       *)
(*                                                                         *)
(*   callers the multicast client's receiving thread opens and closes the  *)
(*           display, and survey closes it                                 *)
(*   dec     vtk_TaskProcessEvent_H264_dec: opens the decoder's devices,   *)
(*           then reads packets from the socket and puts frames together   *)
(*   recv    process_udp_recv_task: takes completed frames and decodes     *)
(*           them, holding the node lock                                   *)
(*                                                                         *)
(* What passes between two accesses to shared state, or between two        *)
(* cancellation points, is one step.  A caller's test of the state and the *)
(* change it makes on it are taken as one: of two calls at a time at most  *)
(* one does anything, and closer is that one.  Every frame taken is        *)
(* decoded: that the codec waits for its first key frame is left out, and  *)
(* so are failures to create a thread or a socket.                         *)
(***************************************************************************)
EXTENDS VideoPackets

CONSTANTS DelayDecodes, \* frames decoded during the usleep of DisableVideoDisplay
          MaxJoins      \* bound: calls of EnableVideoDisplay on an idle display

ASSUME DelayDecodesAssumption == DelayDecodes \in Nat
ASSUME MaxJoinsAssumption     == MaxJoins \in Nat

VARIABLES
  state,    \* VideoDisplayState
  closer,   \* where the thread that closes the display is
  recv,     \* where the recv task is
  dec,      \* where the dec thread is
  cancel,   \* threads with a pending pthread_cancel
  packet,   \* the packet the dec thread is about to process
  lock,     \* holder of m_node_lock
  pool,     \* "ready" between InitNode and ClearNode
  bound,    \* the port is bound by Receive.Sd, or by one no longer known
  lost,     \* recv tasks whose thread id was overwritten
  slept,    \* frames decoded since DisableVideoDisplay began to sleep
  joins,    \* calls of EnableVideoDisplay on an idle display
  stray     \* the states in which memory outside the list or the pool was
            \* used; it is taken to have been left alone since

States == {"IDLE", "START", "RUN", "STOP"}

threads == <<closer, recv, dec, cancel, packet, lock>>
display == <<state, pool, bound, lost, slept, joins, stray>>
vars    == <<camera, net, nodes, free, full, sem, hand, threads, display>>

-----------------------------------------------------------------------------
(* The camera, in another gateway, sends whether or not anybody receives.  *)

Encode ==
  /\ \E size \in Sizes : start_send_fragment_head(size)
  /\ UNCHANGED <<net, nodes, free, full, sem, hand, threads, display>>

Transmit ==
  /\ SendFragment(bound)
  /\ UNCHANGED <<nodes, free, full, sem, hand, threads, display>>

video_process_state_set(s) == state' = s

(* The port is bound and the group joined, or left and the port closed     *)
(* with what it still holds.                                               *)
join_multicast_group2  == bound' = TRUE
leave_multicast_group2 == bound' = FALSE /\ net' = <<>>

start_udp_recv_task == /\ recv' = "init"
                       /\ lost' = IF recv = "none" THEN lost ELSE lost + 1

-----------------------------------------------------------------------------
(* callers: API_FromMulticastJoin.  A display that is not idle stays as it *)
(* is, and so does, in API_FromMulticastLeave, one that does not run.      *)

(* The recv task is created first; with the port still bound by a socket   *)
(* of an earlier start the call then fails, and leaves the task behind.    *)
EnableVideoDisplay ==
  /\ closer = "idle"
  /\ state = "IDLE"
  /\ joins < MaxJoins
  /\ joins' = joins + 1
  /\ start_udp_recv_task
  /\ IF bound
     THEN UNCHANGED <<state, bound, dec>>
     ELSE video_process_state_set("START") /\ join_multicast_group2 /\ dec' = "init"
  /\ UNCHANGED <<camera, net, nodes, free, full, sem, hand, closer, cancel,
                 packet, lock, pool, slept, stray>>

-----------------------------------------------------------------------------
(* callers: API_FromMulticastLeave *)

(* Seeded fault: the state stays RUN while the threads are stopped.        *)
DisableInRun ==
  /\ closer = "idle"
  /\ state = "RUN"
  /\ closer' = "sleep"
  /\ slept' = 0
  /\ UNCHANGED <<camera, net, nodes, free, full, sem, hand, recv, dec,
                 cancel, packet, lock, state, pool, bound, lost, joins, stray>>

DisableVideoDisplay ==
  /\ closer = "idle"
  /\ state = "RUN"
  /\ video_process_state_set("STOP")
  /\ closer' = "sleep"
  /\ slept' = 0
  /\ UNCHANGED <<camera, net, nodes, free, full, sem, hand, recv, dec,
                 cancel, packet, lock, pool, bound, lost, joins, stray>>

(* The sleep of 100 ms ends when every thread that can run has run until   *)
(* it blocks, but no later than DelayDecodes frames.                       *)
close_udp_recv_task ==
  /\ closer = "sleep"
  /\ dec = "packet" => lock # "free"
  /\ (recv = "wait" /\ sem = 0) \/ slept >= DelayDecodes
  /\ closer' = "close recv"
  /\ cancel' = cancel \cup {"recv"}
  /\ UNCHANGED <<camera, net, nodes, free, full, sem, hand, recv, dec,
                 packet, lock, display>>

CancelDec ==
  /\ closer = "close recv"
  /\ recv = "none"
  /\ closer' = "close dec"
  /\ cancel' = cancel \cup {"dec"}
  /\ UNCHANGED <<camera, net, nodes, free, full, sem, hand, recv, dec,
                 packet, lock, display>>

Disabled ==
  /\ closer = "close dec"
  /\ dec = "none"
  /\ closer' = "idle"
  /\ leave_multicast_group2
  /\ video_process_state_set("IDLE")
  /\ UNCHANGED <<camera, nodes, free, full, sem, hand, recv, dec, cancel,
                 packet, lock, pool, lost, slept, joins, stray>>

-----------------------------------------------------------------------------
(* dec *)

(* Opening the devices takes longer than the recv task needs to allocate   *)
(* the pool: nothing but the time they take orders the two.                *)
DecOpens ==
  /\ dec = "init"
  /\ pool = "ready"
  /\ dec' = "receive"
  /\ video_process_state_set("RUN")
  /\ UNCHANGED <<camera, net, nodes, free, full, sem, hand, closer, recv,
                 cancel, packet, lock, pool, bound, lost, slept, joins, stray>>

(* A device does not open: the thread ends, and only the state is reset.   *)
DecFails ==
  /\ dec = "init"
  /\ dec' = "none"
  /\ video_process_state_set("IDLE")
  /\ UNCHANGED <<camera, net, nodes, free, full, sem, hand, closer, recv,
                 cancel, packet, lock, pool, bound, lost, slept, joins, stray>>

DecReceives ==
  /\ dec = "receive"
  /\ "dec" \notin cancel
  /\ net # <<>>
  /\ net' = Tail(net)
  /\ IF state = "RUN"
     THEN dec' = "packet" /\ packet' = Head(net)
     ELSE UNCHANGED <<dec, packet>>
  /\ UNCHANGED <<camera, nodes, free, full, sem, hand, closer, recv,
                 cancel, lock, display>>

DecProcPack ==
  /\ dec = "packet"
  /\ lock = "free"
  /\ dec' = "receive"
  /\ packet' = NoNode
  /\ IF pool = "ready"
     THEN ProcPack(packet) /\ UNCHANGED stray
     ELSE stray' = stray \cup {state} /\ UNCHANGED packets
  /\ UNCHANGED <<camera, net, hand, closer, recv, cancel, lock, state,
                 pool, bound, lost, slept, joins>>

(* recvfrom is its cancellation point; H264DecCleanup closes the devices.  *)
DecCancelled ==
  /\ dec = "receive"
  /\ "dec" \in cancel
  /\ dec' = "none"
  /\ cancel' = cancel \ {"dec"}
  /\ UNCHANGED <<camera, net, nodes, free, full, sem, hand, closer, recv,
                 packet, lock, display>>

-----------------------------------------------------------------------------
(* recv *)

RecvInits ==
  /\ recv = "init"
  /\ InitNode
  /\ recv' = "wait"
  /\ lock' = "free"
  /\ pool' = "ready"
  /\ UNCHANGED <<camera, net, hand, closer, dec, cancel, packet, state,
                 bound, lost, slept, joins, stray>>

RecvWakes ==
  /\ recv = "wait"
  /\ "recv" \notin cancel
  /\ sem > 0
  /\ sem' = sem - 1
  /\ recv' = "woken"
  /\ UNCHANGED <<camera, net, nodes, free, full, hand, closer, dec,
                 cancel, packet, lock, display>>

(* A task woken without a completed frame finds an empty list, or leaves   *)
(* it through the null pointer at its end.                                 *)
RecvPicks ==
  /\ recv = "woken"
  /\ lock = "free"
  /\ IF Completed # {}
     THEN PickPack /\ recv' = "picked" /\ lock' = "recv" /\ UNCHANGED stray
     ELSE /\ recv' = "wait"
          /\ stray' = IF PickRunsOff THEN stray \cup {state} ELSE stray
          /\ UNCHANGED <<packets, hand, lock>>
  /\ UNCHANGED <<camera, net, closer, dec, cancel, packet, state, pool,
                 bound, lost, slept, joins>>

(* The frame is copied and printed, and its node returned.                 *)
RecvReturnsNode ==
  /\ recv = "picked"
  /\ ReturnNode
  /\ recv' = "decode"
  /\ UNCHANGED <<camera, net, closer, dec, cancel, packet, lock, display>>

(* Seeded fault: the node lock is not released.                            *)
RecvKeepsLock ==
  /\ recv = "decode"
  /\ recv' = "wait"
  /\ slept' = IF closer = "sleep" THEN slept + 1 ELSE slept
  /\ UNCHANGED <<camera, net, nodes, free, full, sem, hand, closer, dec,
                 cancel, packet, lock, state, pool, bound, lost, joins, stray>>

RecvDecodes ==
  /\ recv = "decode"
  /\ recv' = "wait"
  /\ lock' = "free"
  /\ slept' = IF closer = "sleep" THEN slept + 1 ELSE slept
  /\ UNCHANGED <<camera, net, nodes, free, full, sem, hand, closer, dec,
                 cancel, packet, state, pool, bound, lost, joins, stray>>

(* sem_wait is a cancellation point, and so may printf be, which the task  *)
(* calls with the node lock held.                                          *)
RecvCancelled ==
  /\ recv \in {"wait", "picked"}
  /\ "recv" \in cancel
  /\ recv' = "cleanup"
  /\ cancel' = cancel \ {"recv"}
  /\ UNCHANGED <<camera, net, nodes, free, full, sem, hand, closer, dec,
                 packet, lock, display>>

cleanup_udp_recv_task ==
  /\ recv = "cleanup"
  /\ lock = "free"
  /\ ClearNode
  /\ recv' = "none"
  /\ pool' = "none"
  /\ UNCHANGED <<camera, net, hand, closer, dec, cancel, packet, lock,
                 state, bound, lost, slept, joins, stray>>

-----------------------------------------------------------------------------
Init ==
  /\ PacketsInit
  /\ state = "IDLE"
  /\ closer = "idle"
  /\ recv = "none" /\ dec = "none" /\ cancel = {} /\ packet = NoNode
  /\ lock = "free" /\ pool = "none" /\ bound = FALSE
  /\ lost = 0 /\ slept = 0 /\ joins = 0
  /\ stray = {}

CameraNext == Encode \/ Transmit
CallNext == EnableVideoDisplay \/ DisableVideoDisplay
CloseNext == close_udp_recv_task \/ CancelDec \/ Disabled
DecNext  == DecOpens \/ DecFails \/ DecReceives \/ DecProcPack \/ DecCancelled
RecvNext == RecvInits \/ RecvWakes \/ RecvPicks \/ RecvReturnsNode
              \/ RecvDecodes \/ RecvCancelled \/ cleanup_udp_recv_task

Next == CameraNext \/ CallNext \/ CloseNext \/ DecNext \/ RecvNext

(* Threads that can run do run; nobody has to open or close the display,   *)
(* and the camera may stop.                                                *)
Fairness == WF_vars(CloseNext) /\ WF_vars(DecNext) /\ WF_vars(RecvNext)

Spec == Init /\ [][Next]_vars /\ Fairness

-----------------------------------------------------------------------------
(* Type invariant of the display and of the packets it handles.            *)
TypeOK ==
  /\ PacketsTypeOK
  /\ state \in States
  /\ closer \in {"idle", "sleep", "close recv", "close dec"}
  /\ recv \in {"none", "init", "wait", "woken", "picked", "decode", "cleanup"}
  /\ dec \in {"none", "init", "receive", "packet"}
  /\ cancel \subseteq {"recv", "dec"}
  /\ packet \in PacketType \cup {NoNode}
  /\ lock \in {"free", "recv"}
  /\ pool \in {"none", "ready"}
  /\ bound \in BOOLEAN
  /\ lost \in Nat /\ slept \in Nat /\ joins \in 0 .. MaxJoins
  /\ stray \subseteq States

(* A frame is given to the decoder only when every packet of it was        *)
(* received, each copied to its own place, and its length is that of the   *)
(* frame the camera sent: packets that were lost, and nodes used before    *)
(* for other frames, never show (AddNode, AppendToNode, PickPack).         *)
WholeFramesOnly ==
  hand # NoNode => /\ hand.buf = [i \in 1 .. hand.total |-> i]
                   /\ hand.len = hand.size

(* Whatever is lost, frames reach the decoder in the order they were       *)
(* encoded, none twice, also across closing and opening the display.       *)
FramesInOrder ==
  [][hand' # hand /\ hand # NoNode => hand'.frame > hand.frame]_vars

(* The semaphore, with the wake-up the recv task has taken and not used,   *)
(* counts the completed frames of the list, as FullNodeCount does.  The    *)
(* loop of PickPack relies on it: woken without a completed frame it runs  *)
(* off the end of the list.                                                *)
SemaphoreCountsFrames ==
  pool = "ready" =>
    /\ sem + (IF recv = "woken" THEN 1 ELSE 0) = Cardinality(Completed)
    /\ full = Cardinality(Completed)

(* Every node of the pool is in one of the two lists or in the hands of    *)
(* the recv task: none is lost to frames that were never completed.        *)
NodesConserved ==
  pool = "ready" =>
    Len(nodes) + free + (IF lock = "recv" /\ recv # "decode" THEN 1 ELSE 0)
      = BufCount

(* In state RUN, the only one in which the display can be closed, both     *)
(* threads are alive and nobody has cancelled them, the pool is there and  *)
(* the port is bound: closing cancels and joins what exists.               *)
RunMeansReceiving ==
  state = "RUN" => /\ dec \in {"receive", "packet"}
                   /\ recv \in {"wait", "woken", "picked", "decode"}
                   /\ cancel = {} /\ pool = "ready" /\ bound

(* Nobody touches the pool before InitNode or after ClearNode, or follows  *)
(* the end of the list, but for the dec thread while the display is being  *)
(* closed: it may be waiting for the node lock with a packet when the pool *)
(* is freed and the lock destroyed.                                        *)
NoStrayAccess == stray \subseteq {"STOP"}

(* DisableVideoDisplay, once begun, comes back, but in one case: the recv  *)
(* task was cancelled in its printf with the node lock held, which its own *)
(* cleanup then waits for.  So it does wherever else the two threads are   *)
(* when the sleep ends.                                                    *)
CloseReturns ==
  closer = "sleep" ~> closer = "idle" \/ (recv = "cleanup" /\ lock = "recv")

(* The buffers of the pool are accounted for: the semaphore counts what is *)
(* complete, no node is lost, and nobody uses one outside the lists but    *)
(* while they are freed; wherever the sleep cuts the recv task off.        *)
BuffersAccounted == TypeOK /\ SemaphoreCountsFrames /\ NodesConserved /\ NoStrayAccess
=============================================================================
