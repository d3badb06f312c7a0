------------------------------ MODULE UdpStack ------------------------------
(***************************************************************************)
(* The acknowledged UDP transport (vtk_udp_stack_class.c) and the request  *)
(* and response calls built on it (vtk_udp_stack_c5_ipc_cmd.c).            *)
(*                                                                         *)
(* Any task of the gateway may call api_udp_c5_ipc_send_data, _send_req or *)
(* _send_rsp.  A call enters a slot of resend_array, queues its packet and *)
(* waits on the semaphore of the slot for an ACK with its id; a request    *)
(* also enters a slot of waitrsp_array, whose semaphore it waits on next.  *)
(* Three threads of the stack work on the arrays behind the calls:         *)
(*   udp_rcv_data_task_thread          triggers resend_array when an ACK   *)
(*                                     comes, and polls it every time,     *)
(*   udp_rcv_data_process_task_thread  gives responses to their callers,   *)
(*   c5_ipc_msg_process                polls waitrsp_array.                *)
(* The network loses, repeats, delays and reorders: whatever was sent once *)
(* may be answered at any later time, any number of times.  The queues in  *)
(* front of the transmitting and of the processing thread, which drop what *)
(* they cannot hold, only delay and lose packets too: they are part of it. *)
(*                                                                         *)
(* A wait may time out at any moment its semaphore is not posted.  Slots   *)
(* are timed by polls, of which the receiving thread makes one per packet, *)
(* so no order of the two kinds of timeout can be relied on.               *)
(***************************************************************************)
EXTENDS Integers

CONSTANTS Callers,      \* tasks that call the stack
          SlotCount,    \* MAXf_SEND_SEM_ID_CNT
          SendPolls,    \* ACK_RESPONSE_TIMEOUT in polls
          RecvPolls,    \* BUSINESS_RESEND_TIME in polls
          MaxSn,        \* bound on send_cmd_sn
          NoBuffer,     \* prcvbuffer of a slot that is free
          PeerIds       \* ids of the requests that peers send

ASSUME SlotCountAssumption == SlotCount \in Nat \ {0}
ASSUME PollsAssumption     == SendPolls \in Nat \ {0} /\ RecvPolls \in Nat \ {0}
ASSUME IdsAssumption       == MaxSn \in Nat /\ PeerIds \subseteq Nat

VARIABLES
  sn,             \* send_cmd_sn
  call,           \* what each task is doing, see Calls
  resend_array, waitrsp_array,
  wire,           \* every packet sent to a peer so far
  fault           \* a call waited on (sem_t*)-1, or a response was copied
                  \* over memory that is used for something else by now

arrays == <<resend_array, waitrsp_array>>
vars   == <<sn, call, resend_array, waitrsp_array, wire, fault>>

Slots == 1 .. SlotCount
Ids   == 0 .. MaxSn \cup PeerIds

(* A sem_t* is NULL, (sem_t * )-1, or the semaphore of a slot.             *)
NULL == 0
BAD  == -1
Sems == {NULL, BAD} \cup Slots

(* What a peer can tell of a packet: its id, and whether it is a request.  *)
Packets == [id : Ids, req : BOOLEAN]

(* Commands are left out of the keys: every slot of resend_array has the   *)
(* command ACK, and all requests are taken to have one command.            *)
SendSlots == [enable : BOOLEAN, id : Ids, cnt : 0 .. SendPolls, resend : 0 .. 1,
              msg : Packets, sem : Nat]
RecvSlots == [enable : BOOLEAN, id : Ids, cnt : 0 .. RecvPolls,
              prcvbuffer : Callers \cup {NoBuffer}, sem : Nat]

(* got is what was last copied into the buffer of the call: nothing, the   *)
(* response to its request, or another.  sole is a ghost: the slot the     *)
(* call joined and the buffer it named there have been its own so far.     *)
Calls     == [at : {"idle", "sn", "expect", "send", "ack", "rsp"},
              req : BOOLEAN, id : Ids, ack : Sems, rsp : Sems,
              got : {"none", "own", "other"}, sole : BOOLEAN]

TypeOK == /\ sn \in 0 .. MaxSn
          /\ call \in [Callers -> Calls]
          /\ resend_array \in [Slots -> SendSlots]
          /\ waitrsp_array \in [Slots -> RecvSlots]
          /\ wire \subseteq Packets
          /\ fault \in BOOLEAN
          /\ \A c \in Callers : /\ call[c].at = "ack" => call[c].ack \in Slots
                                /\ call[c].at = "rsp" => call[c].rsp \in Slots

Idle == [at |-> "idle", req |-> FALSE, id |-> 0, ack |-> NULL, rsp |-> NULL,
         got |-> "none", sole |-> FALSE]

(* A slot that is triggered, deleted or expired.  Its semaphore stays as   *)
(* it is until the next join initialises it.                               *)
FreeSend(sem) == [enable |-> FALSE, id |-> 0, cnt |-> 0, resend |-> 0,
                  msg |-> [id |-> 0, req |-> FALSE], sem |-> sem]
FreeRecv(sem) == [enable |-> FALSE, id |-> 0, cnt |-> 0, prcvbuffer |-> NoBuffer,
                  sem |-> sem]

Init == /\ sn = 0
        /\ call = [c \in Callers |-> Idle]
        /\ resend_array = [s \in Slots |-> FreeSend(0)]
        /\ waitrsp_array = [s \in Slots |-> FreeRecv(0)]
        /\ wire = {}
        /\ fault = FALSE
-----------------------------------------------------------------------------
(* The slot arrays.  Each function runs under the lock of its array.       *)
Taken(array, id)   == \E s \in Slots : array[s].enable /\ array[s].id = id
Full(array)        == \A s \in Slots : array[s].enable
FirstFree(array)   == CHOOSE s \in Slots :
                        /\ ~array[s].enable
                        /\ \A t \in Slots : t < s => array[t].enable
FirstMatch(array, id) == CHOOSE s \in Slots :
                           /\ array[s].enable /\ array[s].id = id
                           /\ \A t \in Slots : t < s => ~(array[t].enable /\ array[t].id = id)

(* Seeded fault: does not look for the id among the slots in use.          *)
JoinUnchecked(array, id) == IF Full(array) THEN NULL ELSE FirstFree(array)

(* What join_one_send_array and join_one_business_recv_array return.       *)
JoinResult(array, id) == IF Taken(array, id) THEN BAD
                         ELSE IF Full(array) THEN NULL
                         ELSE FirstFree(array)

trig_one_send_array(id) ==
    IF Taken(resend_array, id)
    THEN [resend_array EXCEPT ![FirstMatch(resend_array, id)] = FreeSend(@.sem + 1)]
    ELSE resend_array

(* Seeded fault: answers the first request it finds.                       *)
AnyExpected(id) ==
    IF \E s \in Slots : waitrsp_array[s].enable
    THEN CHOOSE s \in Slots : waitrsp_array[s].enable
    ELSE NULL

(* The slot that a response with this id triggers.                         *)
Expected(id) ==
    IF Taken(waitrsp_array, id) THEN FirstMatch(waitrsp_array, id) ELSE NULL

(* Call c waits for the response with this id.                             *)
Listening(c, id) == call[c].at \in {"send", "ack", "rsp"}
                      /\ call[c].req /\ call[c].id = id

(* prcvbuffer points into the stack of the call that joined, and nothing   *)
(* takes it back when that call returns.  What is copied there later may   *)
(* land in the buffer of the task's next request, in memory nobody uses,   *)
(* or in something else.                                                   *)
Copied(c, id) ==
    IF Listening(c, id)
    THEN call' = [call EXCEPT ![c].got = "own"] /\ UNCHANGED fault
    ELSE \/ call[c].req /\ call' = [call EXCEPT ![c].got = "other"] /\ UNCHANGED fault
         \/ UNCHANGED call /\ fault' \in BOOLEAN

trig_one_business_recv_array(id) ==
    LET s == Expected(id)
    IN  IF s = NULL THEN UNCHANGED <<waitrsp_array, call, fault>>
        ELSE /\ waitrsp_array' = [waitrsp_array EXCEPT ![s] = FreeRecv(@.sem + 1)]
             /\ Copied(waitrsp_array[s].prcvbuffer, id)

dele_one_business_recv_array(id) ==
    waitrsp_array' = IF Taken(waitrsp_array, id)
                     THEN [waitrsp_array EXCEPT ![FirstMatch(waitrsp_array, id)] = FreeRecv(@.sem)]
                     ELSE waitrsp_array
-----------------------------------------------------------------------------
(* The calls.                                                              *)
Goes(c, at) == call' = [call EXCEPT ![c].at = at]
Returns(c)  == call' = [call EXCEPT ![c] = Idle]

(* ++send_cmd_sn is read, then written: nothing guards it.                 *)
ReadSn(c, req) ==
    /\ call[c].at = "idle" /\ sn < MaxSn
    /\ call' = [call EXCEPT ![c] = [Idle EXCEPT !.at = "sn", !.req = req, !.id = sn + 1]]
    /\ UNCHANGED <<sn, arrays, wire, fault>>

(* api_udp_c5_ipc_send_rsp: the id is the one of the peer's request.       *)
SendRsp(c, id) ==
    /\ call[c].at = "idle" /\ id \in PeerIds
    /\ call' = [call EXCEPT ![c] = [Idle EXCEPT !.at = "send", !.id = id]]
    /\ UNCHANGED <<sn, arrays, wire, fault>>

WriteSn(c) == /\ call[c].at = "sn"
              /\ sn' = call[c].id
              /\ Goes(c, IF call[c].req THEN "expect" ELSE "send")
              /\ UNCHANGED <<arrays, wire, fault>>

(* The calls when c has joined slot s, and so taken it from a call that    *)
(* still waits on its semaphore.                                           *)
Joined(c, s) ==
    [d \in Callers |->
       IF d = c
       THEN [call[c] EXCEPT !.at = "send", !.rsp = s,
               !.sole = s \in Slots /\ \A t \in Slots : waitrsp_array[t].enable =>
                                                     waitrsp_array[t].prcvbuffer # c]
       ELSE [call[d] EXCEPT !.sole = @ /\ call[d].rsp # s]]

join_one_business_recv_array(c) ==
    /\ call[c].at = "expect"
    /\ LET s == JoinResult(waitrsp_array, call[c].id)
       IN  /\ call' = Joined(c, s)
           /\ waitrsp_array' =
                IF s \in Slots
                THEN [waitrsp_array EXCEPT ![s] =
                        [enable |-> TRUE, id |-> call[c].id, cnt |-> 0,
                         prcvbuffer |-> c, sem |-> 0]]
                ELSE waitrsp_array
    /\ UNCHANGED <<sn, resend_array, wire, fault>>

Packet(c) == [id |-> call[c].id, req |-> call[c].req]

join_one_send_array(c, s) ==
    resend_array' = IF s \in Slots
                    THEN [resend_array EXCEPT ![s] =
                            [enable |-> TRUE, id |-> call[c].id, cnt |-> 0, resend |-> 1,
                             msg |-> Packet(c), sem |-> 0]]
                    ELSE resend_array

(* The test before the waits.  Pointers compare unsigned: (sem_t * )-1 is  *)
(* greater than 0.                                                         *)
Untracked(c, ack) == ack = NULL \/ (call[c].req /\ call[c].rsp = NULL)

(* one_udp_comm_trs_api, and its caller up to the wait.  The packet is     *)
(* queued whether or not the join got a slot.                              *)
one_udp_comm_trs_api(c) ==
    /\ call[c].at = "send"
    /\ LET ack == JoinResult(resend_array, call[c].id)
       IN  /\ join_one_send_array(c, ack)
           /\ IF Untracked(c, ack) THEN Returns(c)
              ELSE IF ack = BAD THEN UNCHANGED call
              ELSE call' = [call EXCEPT ![c].at = "ack", ![c].ack = ack]
           /\ fault' = (~Untracked(c, ack) /\ ack = BAD)
    /\ wire' = wire \cup {Packet(c)}
    /\ UNCHANGED <<sn, waitrsp_array>>

Acked(c) ==
    /\ call[c].at = "ack"
    /\ resend_array[call[c].ack].sem > 0
    /\ resend_array' = [resend_array EXCEPT ![call[c].ack].sem = @ - 1]
    /\ IF ~call[c].req THEN Returns(c)
       ELSE IF call[c].rsp = BAD THEN UNCHANGED call
       ELSE Goes(c, "rsp")
    /\ fault' = (call[c].req /\ call[c].rsp = BAD)
    /\ UNCHANGED <<sn, waitrsp_array, wire>>

AckTimeout(c) ==
    /\ call[c].at = "ack"
    /\ resend_array[call[c].ack].sem = 0
    /\ IF call[c].req THEN dele_one_business_recv_array(call[c].id)
       ELSE UNCHANGED waitrsp_array
    /\ Returns(c)
    /\ UNCHANGED <<sn, resend_array, wire, fault>>

Responded(c) ==
    /\ call[c].at = "rsp"
    /\ waitrsp_array[call[c].rsp].sem > 0
    /\ waitrsp_array' = [waitrsp_array EXCEPT ![call[c].rsp].sem = @ - 1]
    /\ Returns(c)
    /\ UNCHANGED <<sn, resend_array, wire, fault>>

(* The slot stays enabled until it expires by itself.                      *)
ResponseTimeout(c) ==
    /\ call[c].at = "rsp"
    /\ waitrsp_array[call[c].rsp].sem = 0
    /\ Returns(c)
    /\ UNCHANGED <<sn, arrays, wire, fault>>

CallStep(c) == \/ WriteSn(c) \/ join_one_business_recv_array(c)
               \/ one_udp_comm_trs_api(c) \/ Acked(c) \/ AckTimeout(c)
               \/ Responded(c) \/ ResponseTimeout(c)
-----------------------------------------------------------------------------
(* The threads of the stack.  Peers acknowledge every packet they get and  *)
(* answer every request they get.                                          *)
Expires(slot, polls) == slot.enable /\ slot.cnt + 1 >= polls

(* Seeded fault: the count of resends is not taken down.                   *)
PolledForEver(slot) ==
    IF ~slot.enable THEN slot
    ELSE IF ~Expires(slot, SendPolls) THEN [slot EXCEPT !.cnt = @ + 1]
    ELSE IF slot.resend = 0 THEN FreeSend(slot.sem)
    ELSE [slot EXCEPT !.cnt = 0]

(* A slot whose time is over is sent once more, then freed.                *)
Polled(slot) ==
    IF ~slot.enable THEN slot
    ELSE IF ~Expires(slot, SendPolls) THEN [slot EXCEPT !.cnt = @ + 1]
    ELSE IF slot.resend = 0 THEN FreeSend(slot.sem)
    ELSE [slot EXCEPT !.cnt = 0, !.resend = @ - 1]

Resent(array) == {array[s].msg : s \in {t \in Slots : /\ Expires(array[t], SendPolls)
                                                       /\ array[t].resend > 0}}

poll_all_send_array(array) ==
    /\ resend_array' = [s \in Slots |-> Polled(array[s])]
    /\ wire' = wire \cup Resent(array)

(* One pass of udp_rcv_data_task_thread: an ACK came, or select timed out  *)
(* or brought a packet that does not matter to resend_array.               *)
udp_rcv_data_task_thread ==
    /\ \/ \E p \in wire : poll_all_send_array(trig_one_send_array(p.id))
       \/ poll_all_send_array(resend_array)
    /\ UNCHANGED <<sn, call, waitrsp_array, fault>>

(* A response nobody waits for goes to survey, as a peer's request does.   *)
udp_rcv_data_process_task_thread(id) ==
    /\ [id |-> id, req |-> TRUE] \in wire
    /\ trig_one_business_recv_array(id)
    /\ UNCHANGED <<sn, resend_array, wire>>

Waited(slot) ==
    IF ~slot.enable THEN slot
    ELSE IF Expires(slot, RecvPolls) THEN FreeRecv(slot.sem)
    ELSE [slot EXCEPT !.cnt = @ + 1]

poll_all_business_recv_array ==
    /\ waitrsp_array' = [s \in Slots |-> Waited(waitrsp_array[s])]
    /\ UNCHANGED <<sn, call, resend_array, wire, fault>>

(* After a fault the program is gone, or running on overwritten memory.    *)
Next == /\ ~fault
        /\ \/ \E c \in Callers, req \in BOOLEAN : ReadSn(c, req)
           \/ \E c \in Callers, id \in PeerIds : SendRsp(c, id)
           \/ \E c \in Callers : CallStep(c)
           \/ udp_rcv_data_task_thread
           \/ \E id \in Ids : udp_rcv_data_process_task_thread(id)
           \/ poll_all_business_recv_array

(* The polling threads of the stack loop for ever.  Nothing is assumed of  *)
(* the callers or of the network.                                          *)
Fairness == /\ WF_vars(~fault /\ udp_rcv_data_task_thread)
            /\ WF_vars(~fault /\ poll_all_business_recv_array)

Spec == Init /\ [][Next]_vars /\ Fairness
-----------------------------------------------------------------------------
UniqueIn(array) == \A s, t \in Slots : array[s].enable /\ array[t].enable
                                         /\ array[s].id = array[t].id => s = t

(* At most one slot waits for a given ACK or response, although sequence   *)
(* numbers may be handed out twice and peers' ids are used as keys too: an *)
(* answer is never ambiguous.                                              *)
UniqueKeys == UniqueIn(resend_array) /\ UniqueIn(waitrsp_array)

(* A request that succeeds has the response to it in its buffer, and no    *)
(* other, as long as its slot was not given to another request while it    *)
(* waited and its task left no slot with this buffer behind: whatever was  *)
(* lost, repeated or late, and although ids are handed out twice.          *)
OwnResponse ==
    [][\A c \in Callers : Responded(c) /\ call[c].sole => call[c].got = "own"]_vars

(* What vtk_udp_stack_c5_ipc_cmd.c:126 says of every request: it waits for *)
(* the answer of the business and gets its data.                           *)
GetsItsData == [][\A c \in Callers : Responded(c) => call[c].got = "own"]_vars

(* No slot is lost: also one whose caller gave up is free in the end.      *)
SlotsExpire ==
    \A s \in Slots :
      /\ resend_array[s].enable ~> ~resend_array[s].enable \/ fault
      /\ waitrsp_array[s].enable ~> ~waitrsp_array[s].enable \/ fault
=============================================================================
